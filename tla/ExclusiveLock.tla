---------------------------- MODULE ExclusiveLock ----------------------------
(***************************************************************************)
(* What the code above the lock relies on (every caller of                  *)
(* acquireRuntimeLock in packages/core and packages/runtime): at any time   *)
(* at most one holder, and only a holder gives the lock up, by releasing it *)
(* or by dying.                                                             *)
(***************************************************************************)
CONSTANT Clients
VARIABLE holders

Init == holders = {}

Acquire(c) == holders = {} /\ holders' = {c}
Release(c) == holders = {c} /\ holders' = {}

Next == \E c \in Clients : Acquire(c) \/ Release(c)

Spec == Init /\ [][Next]_holders
=============================================================================
