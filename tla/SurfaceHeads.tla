----------------------------- MODULE SurfaceHeads -----------------------------
(***************************************************************************)
(* What SurfaceContentRuntime promises of the published heads: a surface is *)
(* admitted once; a recorded batch takes all its surfaces together, each    *)
(* with the one revision it may move to; until the batch lets go of it, a   *)
(* taken surface moves to that revision or not at all.                      *)
(***************************************************************************)
CONSTANTS Surfaces, Revisions, Runs, None
VARIABLES
  head,      \* published revision, None before admission
  holder     \* [run, next] that has taken the surface, or None

vars == <<head, holder>>

Init ==
  /\ head = [s \in Surfaces |-> None]
  /\ holder = [s \in Surfaces |-> None]

Admit(s, v) ==
  /\ head[s] = None
  /\ head' = [head EXCEPT ![s] = v]
  /\ UNCHANGED holder

Take(r, next) ==
  /\ \A s \in DOMAIN next : holder[s] = None /\ head[s] # None
  /\ holder' = [s \in Surfaces |-> IF s \in DOMAIN next
                                   THEN [run |-> r, next |-> next[s]]
                                   ELSE holder[s]]
  /\ UNCHANGED head

\* Free surfaces move anywhere, taken ones to what was announced.
Move(s, v) ==
  /\ head[s] # None
  /\ holder[s] # None => v = holder[s].next
  /\ head' = [head EXCEPT ![s] = v]
  /\ UNCHANGED holder

LetGo(r) ==
  /\ holder' = [s \in Surfaces |->
                  IF holder[s] # None /\ holder[s].run = r THEN None
                  ELSE holder[s]]
  /\ UNCHANGED head

Next ==
  \/ \E s \in Surfaces, v \in Revisions : Admit(s, v) \/ Move(s, v)
  \/ \E r \in Runs, S \in SUBSET Surfaces :
       \E next \in [S -> Revisions] : Take(r, next)
  \/ \E r \in Runs : LetGo(r)

Spec == Init /\ [][Next]_vars
=============================================================================
