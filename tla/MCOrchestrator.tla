---------------------------- MODULE MCOrchestrator ----------------------------
(***************************************************************************)
(* Two registrations on two surfaces for TLC.  A listens to the business    *)
(* event go that turns emit for it; B listens to the executions of the       *)
(* session on s2.                                                            *)
(***************************************************************************)
EXTENDS CodeFirstOrchestrator

CONSTANTS A, B, s1, s2, go, done

\* What A gets and what B gets.
Each(a, b) == [r \in Registrations |-> IF r = A THEN a ELSE b]

\* B is bound to s2 as well: the two compete for the surface.
SharedBindings == Each({s1, s2}, {s2})

MCTriggers == Registrations \X (1..MaxInputs)
SharedBound == [t \in MCTriggers |-> SharedBindings[t[1]]]

MCConsumes == Each({<<s1, go>>}, {<<s2, Tool>>})
MCOutputs == Each({<<s1, go>>}, {})
MCEmits == Each({<<s2, done>>}, {})

\* A rewrites what it is bound to and says so on s2, or (what its routes refuse)
\* on s1; B leaves the files alone and starts a turn on s2.
Says(s) == [kind |-> "event", surface |-> s, name |-> done]
TurnOnS2 == [kind |-> "advance", surface |-> s2]
BusyResults ==
  Each({[changes |-> {s1, s2}, effects |-> {Says(s2)}],
        [changes |-> {s1, s2}, effects |-> {Says(s1), Says(s2)}]},
       {[changes |-> {}, effects |-> {TurnOnS2}]})
=============================================================================
