--------------------------- MODULE MCRevisionStore ---------------------------
(***************************************************************************)
(* Two revisions that share a blob; one of them is named by a fact of an   *)
(* older host or by nothing.                                               *)
(***************************************************************************)
EXTENDS RevisionStore

CONSTANTS r1, r2, b1, b2, c1, c2

ContentValue == [r \in {r1, r2} |-> IF r = r1 THEN {b1} ELSE {b1, b2}]
==============================================================================
