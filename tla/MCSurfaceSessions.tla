--------------------------- MODULE MCSurfaceSessions ---------------------------
(***************************************************************************)
(* Two registrations whose followups grant outputs of one name, and a call  *)
(* over the socket.                                                         *)
(***************************************************************************)
EXTENDS SurfaceSessions

Grants == [m1 |-> {<<"done", "A">>}, m2 |-> {<<"done", "B">>}]
All == {<<"note", "A">>}
Notes == <<"c1", "c2">>
===============================================================================
