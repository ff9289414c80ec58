---------------------------- MODULE MCManagedEdits ----------------------------
(***************************************************************************)
(* A TLC instance of ManagedEdits.                                          *)
(***************************************************************************)
EXTENDS ManagedEdits, TLC

\* Two agents whose messages have the same id; one rewrites two files, the other
\* may put one of them back.
TwoAgents == {<<"agent-a", "m1">>, <<"agent-b", "m1">>}
Rewrites ==
  (<<"agent-a", "m1">> :> {"f" :> "new" @@ "g" :> "new"}) @@
  (<<"agent-b", "m1">> :> {"f" :> "old" @@ "g" :> "old", "f" :> "other"})
Old == [x \in Files |-> IF x = "p" THEN Absent ELSE "old"]
OneFile == "p" :> "new"
=============================================================================
