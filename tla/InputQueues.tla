------------------------------ MODULE InputQueues ------------------------------
(***************************************************************************)
(* What the orchestrator promises about the inputs of its registrations:    *)
(* an event is accepted once, an acceptance is never taken back, and the    *)
(* inputs of a registration are finished one by one, in the order in which  *)
(* they were accepted.  CodeFirstOrchestrator is shown to implement it.     *)
(***************************************************************************)
EXTENDS Naturals, Sequences

CONSTANTS Registrations, Events

VARIABLES
  accepted,   \* the accepted events of each registration, in order
  finished    \* the inputs of each registration that are finished

queueVars == <<accepted, finished>>

Members(q) == {q[n] : n \in DOMAIN q}

Init ==
  /\ accepted = [r \in Registrations |-> <<>>]
  /\ finished = [r \in Registrations |-> {}]

Accept(r, e) ==
  /\ e \notin Members(accepted[r])
  /\ accepted' = [accepted EXCEPT ![r] = Append(@, e)]
  /\ UNCHANGED finished

\* The earliest input that is not finished, and no other.
Finish(r, n) ==
  /\ n \in DOMAIN accepted[r] \ finished[r]
  /\ 1..(n - 1) \subseteq finished[r]
  /\ finished' = [finished EXCEPT ![r] = @ \union {n}]
  /\ UNCHANGED accepted

Next ==
  \E r \in Registrations :
    \/ \E e \in Events : Accept(r, e)
    \/ \E n \in DOMAIN accepted[r] : Finish(r, n)

Spec == Init /\ [][Next]_queueVars
=============================================================================
