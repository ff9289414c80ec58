--------------------------- MODULE MCSurfaceContent ---------------------------
(***************************************************************************)
(* TLC instances of SurfaceContent.                                         *)
(***************************************************************************)
EXTENDS SurfaceContent, TLC

CONSTANTS s1, s2, f1, f2, r1, r2, k1

\* Two registrations that share surface s1; the first also owns s2.
SharedSurface == ("t1" :> {s1, s2} @@ "t2" :> {s1})
OneSurface == ("t1" :> {s1} @@ "t2" :> {s1})

Blank == [f \in Files |-> "a"]
AllBlank == [s \in Surfaces |-> Blank]
Rewrites == {[f \in Files |-> "b"]}

Symmetry == Permutations(Runs)
=============================================================================
