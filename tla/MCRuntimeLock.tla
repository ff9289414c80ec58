---------------------------- MODULE MCRuntimeLock ----------------------------
(***************************************************************************)
(* TLC instance of RuntimeLock.                                             *)
(***************************************************************************)
EXTENDS RuntimeLock

CONSTANTS p1, p2

ThreeAttempts == {1, 2, 3}
ThreeOwners == [a \in ThreeAttempts |-> IF a = 2 THEN p2 ELSE p1]
=============================================================================
