---------------------------- MODULE EventConditions ----------------------------
(***************************************************************************)
(* The conditions of declarative subscriptions: what evaluateOne of        *)
(* packages/core/src/orchestration.ts finds in the events of the bound     *)
(* surfaces, and what it ought to find.                                    *)
(*                                                                         *)
(* events[r] is the stream of the surface that role r is bound to; view[r] *)
(* holds the positions of it that count: of one business key, and not      *)
(* before the history boundary.  A selector compares role and name; the    *)
(* partial match of payloads is left out.  Conditions under all and any    *)
(* are not nested again.                                                   *)
(***************************************************************************)
EXTENDS Integers, FiniteSets, Sequences

One(role, name) == [kind |-> "one", role |-> role, name |-> name]
Count(role, name, operator, value) ==
  [kind |-> "count", role |-> role, name |-> name, operator |-> operator, value |-> value]
InSequence(role, names) == [kind |-> "sequence", role |-> role, names |-> names]
All(parts) == [kind |-> "all", parts |-> parts]
Any(parts) == [kind |-> "any", parts |-> parts]

\* What validateDefinition admits as a condition.
ValidPart(c, roles) ==
  /\ c.kind \in {"one", "count", "sequence"} /\ c.role \in roles
  /\ c.kind = "count" => c.operator \in {"eq", "gte", "lte"} /\ c.value \in Nat
  /\ c.kind = "sequence" => c.names \in Seq({c.names[i] : i \in DOMAIN c.names}) \ {<<>>}
ValidCondition(c, roles) ==
  IF c.kind \in {"all", "any"}
  THEN c.parts # <<>> /\ \A i \in DOMAIN c.parts : ValidPart(c.parts[i], roles)
  ELSE ValidPart(c, roles)

Matching(events, view, role, name) ==
  {n \in view[role] : events[role][n].name = name}
Refs(role, positions) == [role : {role}, seq : positions]

\* slice(0, k) of the matches, which are sorted by their place in the stream.
Earliest(k, positions) ==
  {n \in positions : Cardinality({m \in positions : m < n}) < k}

\* Mutant: a step of a sequence may be the event of the step before.
NextFrom(events, view, c, i, after) ==
  Earliest(1, {n \in Matching(events, view, c.role, c.names[i]) : n >= after})

\* Every selector of a sequence takes the first match after the one before.
Next1(events, view, c, i, after) ==
  Earliest(1, {n \in Matching(events, view, c.role, c.names[i]) : n > after})
Chain(events, view, c) ==
  LET found[i \in 0..Len(c.names)] ==
        IF i = 0 THEN {0}
        ELSE UNION {Next1(events, view, c, i, n) : n \in found[i - 1]}
  IN  found

\* Mutant: a count is satisfied by all its matches, late ones too.
TakenAll(c, matches) == Cardinality(matches)

\* How many matches are enough, and how many are taken as the evidence.
Enough(c, matches) ==
  CASE c.kind = "one" -> matches # {}
    [] c.kind = "count" ->
         IF c.operator = "lte" THEN matches # {} /\ c.value > 0
         ELSE Cardinality(matches) >= c.value
Taken(c, matches) ==
  IF c.kind = "one" \/ c.operator = "lte" THEN 1 ELSE c.value

\* The evidence for a condition: none, or one set of refs.
Simple(events, view, c) ==
  LET matches == Matching(events, view, c.role, c.name) IN
  IF Enough(c, matches) THEN {Refs(c.role, Earliest(Taken(c, matches), matches))} ELSE {}
Sequential(events, view, c) ==
  LET found == Chain(events, view, c) IN
  IF found[Len(c.names)] = {} THEN {}
  ELSE {Refs(c.role, UNION {found[i] : i \in 1..Len(c.names)})}
Part(events, view, c) ==
  IF c.kind = "sequence" THEN Sequential(events, view, c) ELSE Simple(events, view, c)

Evidence(events, view, c) ==
  LET Of(i) == Part(events, view, c.parts[i])
      First == {j \in DOMAIN c.parts : \A k \in 1..(j - 1) : Of(k) = {}}
  IN  CASE c.kind = "any" -> UNION {Of(i) : i \in First}
        [] c.kind = "all" ->
             IF \E i \in DOMAIN c.parts : Of(i) = {} THEN {}
             ELSE {UNION UNION {Of(i) : i \in DOMAIN c.parts}}
        [] OTHER -> Part(events, view, c)

(***************************************************************************)
(* The reference: when a condition is true of a part of the streams, and   *)
(* what its earliest evidence is.                                          *)
(***************************************************************************)
Compares(operator, number, value) ==
  CASE operator = "eq" -> number = value
    [] operator = "gte" -> number >= value
    [] operator = "lte" -> number \in 1..value

TrueOf(events, view, c) ==
  CASE c.kind = "one" -> \E n \in view[c.role] : events[c.role][n].name = c.name
    [] c.kind = "count" ->
         Compares(c.operator,
                  Cardinality({n \in view[c.role] : events[c.role][n].name = c.name}), c.value)
    [] c.kind = "sequence" ->
         \E at \in [1..Len(c.names) -> view[c.role]] :
            /\ \A i \in 1..Len(c.names) : events[c.role][at[i]].name = c.names[i]
            /\ \A i \in 2..Len(c.names) : at[i - 1] < at[i]

\* The last of the refs is the event with which the condition came true.
CameTrueWith(events, view, c, refs) ==
  LET UpTo(last) == [view EXCEPT ![c.role] = {n \in @ : n <= last}]
      last == IF refs = {} THEN 0
              ELSE CHOOSE n \in {f.seq : f \in refs} : \A f \in refs : f.seq <= n
  IN  /\ \A f \in refs : f.role = c.role /\ f.seq \in view[c.role]
      /\ TrueOf(events, UpTo(last), c)
      /\ last > 0 => ~TrueOf(events, UpTo(last - 1), c)

IsEarliestEvidence(events, view, c, refs) ==
  CASE c.kind = "all" ->
         \E of \in [DOMAIN c.parts -> SUBSET refs] :
            /\ refs = UNION {of[i] : i \in DOMAIN c.parts}
            /\ \A i \in DOMAIN c.parts : CameTrueWith(events, view, c.parts[i], of[i])
    [] c.kind = "any" ->
         \E i \in DOMAIN c.parts : CameTrueWith(events, view, c.parts[i], refs)
    [] OTHER -> CameTrueWith(events, view, c, refs)

=============================================================================
