------------------------------ MODULE EngineProofs ------------------------------
(***************************************************************************)
(* Proofs about Engine, EngineInspection and the conditions they evaluate,  *)
(* for any definition, surfaces, streams, calls, errors and crashes.        *)
(*                                                                         *)
(* What keeps effects apart is what a job knows at each stage: past the     *)
(* recovery nothing recorded is unsettled but the operation in hand and     *)
(* what activations that failed in this very job have left, and none of     *)
(* those is tried again by it.                                              *)
(*                                                                         *)
(* What makes evidence the earliest is that the streams only grow at their  *)
(* ends: a condition that came true with an event of a stream came true     *)
(* with it in every longer one.                                             *)
(*                                                                         *)
(* And nothing is missed: while no reconcile waits and no error is to be    *)
(* made up for, the job under way has yet to read what came, or has read    *)
(* it and has it in hand; and what is opened is tried, unless it failed and *)
(* was not resumed.                                                         *)
(***************************************************************************)
EXTENDS EngineInspection, FiniteSetTheorems, SequenceTheorems, WellFoundedInduction, TLAPS

(***************************************************************************)
(* The inductive invariant.                                                 *)
(***************************************************************************)
Elements(s) == {s[i] : i \in DOMAIN s}
Listed(s) == s \in Seq(Elements(s))

Ops ==
  {op \in UNION {Elements(o.actions) : o \in UNION {Outcomes[s] : s \in Subscriptions}} :
     op.role \in Roles}
Operations == [act : ActivationIds, op : Ops]
RecordedOps == {Operation(n) : n \in Of("recorded")}
Unsettled == {o \in RecordedOps : Identity(o) \notin Settled}

StreamEvents ==
  [name : Names \cup {op.name : op \in Ops}, key : Keys \cup {None},
   by : (ActivationIds \X {op.key : op \in Ops}) \cup {None}]

RecordKinds ==
  {"registered", "status", "opened", "invoked", "recorded", "settled", "done", "failed"}
ChainKinds == Switches \cup {"register", "reconcile", "first"}

RecordsSound ==
  /\ Listed(records)
  /\ \A n \in DOMAIN records : records[n].kind \in RecordKinds
  /\ \A n \in DOMAIN records : records[n].kind = "registered" <=> n = 1
  /\ Done \subseteq Opened /\ Opened \subseteq ActivationIds
  /\ \A n, m \in Of("opened") : records[n].act = records[m].act => n = m
  /\ RecordedOps \subseteq Operations
  /\ \A n, m \in Of("recorded") : Identity(Operation(n)) = Identity(Operation(m)) => n = m
  /\ \A n \in Of("settled") : \E m \in Of("recorded") :
       m < n /\ Identity(Operation(m)) = <<records[n].act, records[n].key>>

StreamsSound ==
  /\ stream \in [Surfaces -> Seq(StreamEvents)]
  /\ \A s \in Surfaces : \A n, m \in DOMAIN stream[s] :
       stream[s][n].by # None /\ stream[s][n].by = stream[s][m].by => n = m
  /\ \A r \in Roles : \A n \in DOMAIN stream[Bindings[r]] :
       stream[Bindings[r]][n].by # None =>
         \E o \in RecordedOps : Event(o) = stream[Bindings[r]][n] /\ o.op.role = r

Within(read) ==
  read \in [Roles -> Nat] /\ \A r \in Roles : read[r] <= Len(stream[Bindings[r]])

BoundarySound == \A n \in Of("registered") : Within(records[n].boundary)

SettledHappened == \A o \in RecordedOps : Identity(o) \in Settled => Happened(o)
DoneSettled == \A o \in RecordedOps : o.act \in Done => Identity(o) \in Settled

SwitchesSound == {torn, known, missed} \subseteq BOOLEAN /\ chain \in Seq(ChainKinds)

FailingSound == \A a \in failing \ repeated : FailureNeedsRetry(a)

\* What a job has in hand.
JobFields ==
  {"of", "at", "read", "unread", "open", "left", "act", "plan", "ops", "message"}
Sending == {"send", "settle"}
Handling == {"invoke", "run"}
TryStages == Handling \cup {"act", "fail"}

\* The activations still to try: none of them done, nor failed in this job, nor has it
\* anything unsettled.
LeftSound(j) ==
  /\ j.left \in Seq(ActivationIds)
  /\ \A i, k \in DOMAIN j.left : j.left[i] = j.left[k] => i = k
  /\ \A i \in DOMAIN j.left :
       /\ j.left[i] \in Opened \ Done
       /\ j.left[i] # j.act
       /\ j.left[i] \notin failing \ repeated
       /\ \A o \in Unsettled : o.act # j.left[i]

TrySound(j) ==
  /\ j.act \in Opened \ Done
  /\ LeftSound(j)
  /\ j.at \in Handling => j.act.sub \in Handlers
  /\ j.at = "invoke" => j.act \notin failing \ repeated
  /\ j.at \in Handling \cup {"act"} => \A o \in Unsettled : o.act # j.act
  /\ j.at \in {"act"} \cup Sending => j.plan \in Seq(Ops)

SendSound(j) ==
  /\ j.ops # <<>> /\ j.ops \in Seq(Operations)
  /\ \A i \in DOMAIN j.ops : j.ops[i] \in RecordedOps
  /\ j.at = "settle" => Happened(j.ops[1])
  /\ IF j.act = None THEN Unsettled \subseteq Elements(j.ops)
     ELSE /\ TrySound(j) /\ Len(j.ops) = 1 /\ j.ops[1].act = j.act
          /\ \A o \in Unsettled : o.act = j.act => o = j.ops[1]

OpenSound(open) ==
  /\ \A o \in open : o.kind = "opened" /\ o.act \in ActivationIds \ Opened
  /\ \A o, p \in open : o.act = p.act => o = p

JobSound(j) ==
  /\ DOMAIN j = JobFields
  /\ Within(j.read)
  /\ j.at = "boundary" <=> records = <<>>
  /\ j.at \in {"boundary", "status", "observe", "open", "pick"} \cup Sending \cup TryStages
  /\ j.at \in Sending => SendSound(j)
  /\ j.at \in TryStages => TrySound(j)
  /\ j.at = "pick" => j.act = None /\ LeftSound(j)
  /\ j.at \in {"observe", "open"} => j.act = None /\ Unsettled = {}
  /\ j.at = "open" => OpenSound(j.open)

EngineInv ==
  /\ RecordsSound /\ StreamsSound /\ BoundarySound
  /\ SettledHappened /\ DoneSettled
  /\ SwitchesSound /\ FailingSound
  /\ \A j \in {job} \ {NoJob} : JobSound(j)

-----------------------------------------------------------------------------
(***************************************************************************)
(* Sequences and positions in order.                                        *)
(***************************************************************************)
LEMMA ListedFacts ==
  ASSUME NEW s, Listed(s)
  PROVE  Len(s) \in Nat /\ DOMAIN s = 1..Len(s)
BY DEF Listed

LEMMA Shortened ==
  ASSUME NEW S, NEW s \in Seq(S), s # <<>>
  PROVE  /\ Len(s) \in Nat /\ Len(s) >= 1 /\ DOMAIN s = 1..Len(s)
         /\ Head(s) = s[1] /\ 1 \in DOMAIN s
         /\ Tail(s) \in Seq(S) /\ Len(Tail(s)) = Len(s) - 1
         /\ DOMAIN Tail(s) = 1..(Len(s) - 1)
         /\ \A i \in DOMAIN Tail(s) : i + 1 \in DOMAIN s /\ Tail(s)[i] = s[i + 1]
OBVIOUS

\* Each number up to its size is the rank of one member of a finite set of positions, and
\* each member has a rank.
LEMMA NthIsOne ==
  ASSUME NEW k \in Nat, NEW S \in SUBSET (1..k)
  PROVE  /\ Cardinality(S) \in Nat /\ (Cardinality(S) = 0 <=> S = {})
         /\ \A n \in 1..Cardinality(S) : Nth(S, n) \in S
         /\ \A n \in 1..Cardinality(S) : Cardinality({m \in S : m <= Nth(S, n)}) = n
         /\ \A n, m \in 1..Cardinality(S) : Nth(S, n) = Nth(S, m) => n = m
         /\ \A i \in S : \E n \in 1..Cardinality(S) : Nth(S, n) = i
<1> DEFINE Below(i) == {j \in S : j <= i}
           c == Cardinality(S)
           R == [i \in S |-> Cardinality(Below(i))]
<1>1. IsFiniteSet(S) /\ c \in Nat /\ (c = 0 <=> S = {})
  <2>1. IsFiniteSet(1..k)
    BY FS_Interval
  <2>2. IsFiniteSet(S)
    BY <2>1, FS_Subset
  <2> QED
    BY <2>2, FS_CardinalityType, FS_EmptySet
<1>2. ASSUME NEW i \in S
      PROVE  /\ IsFiniteSet(Below(i)) /\ i \in Below(i)
             /\ Cardinality(Below(i)) \in 1..c
  <2>1. Below(i) \in SUBSET S /\ i \in Below(i)
    OBVIOUS
  <2>2. IsFiniteSet(Below(i)) /\ Cardinality(Below(i)) <= c
    BY <1>1, <2>1, FS_Subset
  <2>3. Cardinality(Below(i)) \in Nat /\ Cardinality(Below(i)) # 0
    BY <2>1, <2>2, FS_CardinalityType, FS_EmptySet
  <2> QED
    BY <1>1, <2>1, <2>2, <2>3
<1>3. ASSUME NEW i \in S, NEW j \in S, i < j PROVE R[i] # R[j]
  <2>1. Below(i) \in SUBSET Below(j) /\ Below(i) # Below(j)
    <3>1. \A h \in S : h \in Nat
      OBVIOUS
    <3>2. j \in Below(j) /\ j \notin Below(i)
      BY <1>3, <3>1
    <3>3. \A h \in Below(i) : h \in Below(j)
      BY <1>3, <3>1
    <3> QED
      BY <3>2, <3>3
  <2>2. Cardinality(Below(i)) # Cardinality(Below(j))
    BY <1>2, <2>1, FS_Subset
  <2> QED
    BY <2>2
<1>4. \A i, j \in S : R[i] = R[j] => i = j
  BY <1>3
<1>5. R \in Injection(S, 1..c)
  BY <1>2, <1>4 DEF Injection, IsInjective
<1>6. IsFiniteSet(1..c) /\ Cardinality(1..c) = c
  BY <1>1, FS_Interval
<1>7. R \in Surjection(S, 1..c)
  BY <1>5, <1>6, FS_Injection
<1>8. ASSUME NEW n \in 1..c
      PROVE  Nth(S, n) \in S /\ R[Nth(S, n)] = n
  <2>1. \E i \in S : Cardinality(Below(i)) = n
    BY <1>7 DEF Surjection
  <2> QED
    BY <2>1 DEF Nth
<1>9. ASSUME NEW i \in S PROVE R[i] \in 1..c /\ Nth(S, R[i]) = i
  <2>1. R[i] \in 1..c
    BY <1>2
  <2>2. PICK n \in 1..c : n = R[i]
    BY <2>1
  <2>3. Nth(S, n) \in S /\ R[Nth(S, n)] = n
    BY <1>8
  <2> QED
    BY <1>4, <2>2, <2>3
<1>10. \A n, m \in 1..c : Nth(S, n) = Nth(S, m) => n = m
  BY <1>8
<1>11. \A i \in S : \E n \in 1..c : Nth(S, n) = i
  BY <1>9
<1>12. \A n \in 1..c : Nth(S, n) \in S /\ Cardinality({m \in S : m <= Nth(S, n)}) = n
  BY <1>8
<1> QED
  BY <1>1, <1>10, <1>11, <1>12

\* So InOrder lists the members of such a set, each once.
LEMMA InOrderLists ==
  ASSUME NEW k \in Nat, NEW S \in SUBSET (1..k)
  PROVE  \E c \in Nat :
           /\ DOMAIN InOrder(S) = 1..c
           /\ c = 0 <=> S = {}
           /\ \A n \in 1..c : InOrder(S)[n] \in S
           /\ \A n, m \in 1..c : InOrder(S)[n] = InOrder(S)[m] => n = m
           /\ \A i \in S : \E n \in 1..c : InOrder(S)[n] = i
<1>1. Cardinality(S) \in Nat /\ DOMAIN InOrder(S) = 1..Cardinality(S)
  BY NthIsOne DEF InOrder
<1>2. \A n \in 1..Cardinality(S) : InOrder(S)[n] = Nth(S, n)
  BY DEF InOrder
<1>3. PICK c \in Nat : c = Cardinality(S)
  BY <1>1
<1>4. /\ c = 0 <=> S = {}
      /\ \A n \in 1..c : Nth(S, n) \in S
      /\ \A n, m \in 1..c : Nth(S, n) = Nth(S, m) => n = m
      /\ \A i \in S : \E n \in 1..c : Nth(S, n) = i
  BY <1>3, NthIsOne
<1>5. DOMAIN InOrder(S) = 1..c /\ \A n \in 1..c : InOrder(S)[n] = Nth(S, n)
  BY <1>1, <1>2, <1>3
<1> QED
  BY <1>4, <1>5

-----------------------------------------------------------------------------
(***************************************************************************)
(* Records that are added.                                                  *)
(***************************************************************************)
LEMMA RecordAdded ==
  ASSUME RecordsSound, NEW rec, records' = Append(records, rec)
  PROVE  /\ Listed(records)' /\ Len(records) \in Nat
         /\ DOMAIN records = 1..Len(records)
         /\ (DOMAIN records)' = 1..(Len(records) + 1)
         /\ \A n \in DOMAIN records : records'[n] = records[n]
         /\ records'[Len(records) + 1] = rec
         /\ \A kind : Of(kind)' = Of(kind) \cup
              (IF rec.kind = kind THEN {Len(records) + 1} ELSE {})
<1> DEFINE S == Elements(records) \cup {rec}
<1>1. PICK t : t = records'
  OBVIOUS
<1>2. records \in Seq(S) /\ Len(records) \in Nat /\ DOMAIN records = 1..Len(records)
  BY DEF RecordsSound, Listed, Elements
<1>3. /\ Listed(t) /\ Len(records) \in Nat
      /\ DOMAIN records = 1..Len(records) /\ DOMAIN t = 1..(Len(records) + 1)
      /\ \A n \in DOMAIN records : t[n] = records[n]
      /\ t[Len(records) + 1] = rec
  <2>1. rec \in S
    OBVIOUS
  <2> HIDE DEF S
  <2>2. /\ t \in Seq(S) /\ Len(t) = Len(records) + 1
        /\ \A n \in 1..Len(records) : t[n] = records[n]
        /\ t[Len(records) + 1] = rec
    BY <1>1, <1>2, <2>1
  <2>3. DOMAIN t = 1..(Len(records) + 1)
    BY <2>2
  <2>4. t \in Seq(Elements(t))
    BY <1>2, <2>2, <2>3 DEF Elements
  <2> QED
    BY <1>2, <2>2, <2>3, <2>4 DEF Listed
<1>4. Listed(records)'
  BY <1>1, <1>3 DEF Listed, Elements
<1>5. ASSUME NEW kind
      PROVE  Of(kind)' = Of(kind) \cup (IF rec.kind = kind THEN {Len(records) + 1} ELSE {})
  <2>1. Of(kind)' = {n \in 1..(Len(records) + 1) : t[n].kind = kind}
    BY <1>1, <1>3 DEF Of
  <2>2. Of(kind) = {n \in 1..Len(records) : t[n].kind = kind}
    BY <1>3 DEF Of
  <2> QED
    BY <1>3, <2>1, <2>2
<1> QED
  BY <1>1, <1>3, <1>4, <1>5

\* What a new record says.
LEMMA RecordSays ==
  ASSUME RecordsSound, NEW rec, records' = Append(records, rec)
  PROVE  /\ Opened' = Opened \cup (IF rec.kind = "opened" THEN {rec.act} ELSE {})
         /\ Done' = Done \cup (IF rec.kind = "done" THEN {rec.act} ELSE {})
         /\ Settled' = Settled \cup (IF rec.kind = "settled" THEN {<<rec.act, rec.key>>} ELSE {})
         /\ RecordedOps' = RecordedOps \cup
              (IF rec.kind = "recorded" THEN {[act |-> rec.act, op |-> rec.op]} ELSE {})
         /\ \A a : rec.kind # "invoked" \/ rec.act # a => Invoked(a)' = Invoked(a)
<1> DEFINE p == Len(records) + 1
<1>1. /\ DOMAIN records = 1..Len(records) /\ Len(records) \in Nat
      /\ \A n \in DOMAIN records : records'[n] = records[n]
      /\ records'[p] = rec
      /\ \A kind : Of(kind)' = Of(kind) \cup (IF rec.kind = kind THEN {p} ELSE {})
      /\ \A kind : Of(kind) \subseteq DOMAIN records
  BY RecordAdded DEF Of
<1> HIDE DEF p
<1>2. Opened' = Opened \cup (IF rec.kind = "opened" THEN {rec.act} ELSE {})
  <2>1. Of("opened")' = Of("opened") \cup (IF rec.kind = "opened" THEN {p} ELSE {})
    BY <1>1
  <2> QED
    BY <1>1, <2>1 DEF Opened
<1>3. Done' = Done \cup (IF rec.kind = "done" THEN {rec.act} ELSE {})
  <2>1. Of("done")' = Of("done") \cup (IF rec.kind = "done" THEN {p} ELSE {})
    BY <1>1
  <2> QED
    BY <1>1, <2>1 DEF Done
<1>4. Settled' = Settled \cup (IF rec.kind = "settled" THEN {<<rec.act, rec.key>>} ELSE {})
  <2>1. Of("settled")' = Of("settled") \cup (IF rec.kind = "settled" THEN {p} ELSE {})
    BY <1>1
  <2> QED
    BY <1>1, <2>1 DEF Settled
<1>5. RecordedOps' = RecordedOps \cup
        (IF rec.kind = "recorded" THEN {[act |-> rec.act, op |-> rec.op]} ELSE {})
  <2>1. Of("recorded")' = Of("recorded") \cup (IF rec.kind = "recorded" THEN {p} ELSE {})
    BY <1>1
  <2> QED
    BY <1>1, <2>1 DEF RecordedOps, Operation
<1>6. ASSUME NEW a, rec.kind # "invoked" \/ rec.act # a PROVE Invoked(a)' = Invoked(a)
  <2>1. Of("invoked")' = Of("invoked") \cup (IF rec.kind = "invoked" THEN {p} ELSE {})
    BY <1>1
  <2>2. \A n : n \in Of("invoked")' /\ records'[n].act = a
               <=> n \in Of("invoked") /\ records[n].act = a
    BY <1>1, <1>6, <2>1
  <2>3. {n \in Of("invoked")' : records'[n].act = a} = {n \in Of("invoked") : records[n].act = a}
    BY <2>2
  <2>4. \A n \in {m \in Of("invoked") : records[m].act = a} : records'[n].nth = records[n].nth
    BY <1>1
  <2> QED
    BY <2>3, <2>4 DEF Invoked
<1> QED
  BY <1>2, <1>3, <1>4, <1>5, <1>6

\* A failure stays newer than the last explicit start, and a new one is.
LEMMA FailureStays ==
  ASSUME RecordsSound, NEW rec, records' = Append(records, rec), NEW a
  PROVE  /\ FailureNeedsRetry(a) /\ (rec.kind = "status" => rec.status # "active")
              => FailureNeedsRetry(a)'
         /\ rec.kind = "failed" /\ rec.act = a => FailureNeedsRetry(a)'
<1> DEFINE p == Len(records) + 1
           Active == {m \in Of("status") : records[m].status = "active"}
<1>1. /\ DOMAIN records = 1..Len(records) /\ Len(records) \in Nat
      /\ \A n \in DOMAIN records : records'[n] = records[n]
      /\ records'[p] = rec
      /\ \A kind : Of(kind)' = Of(kind) \cup (IF rec.kind = kind THEN {p} ELSE {})
      /\ \A kind : Of(kind) \subseteq DOMAIN records
  BY RecordAdded DEF Of
<1>2. /\ \A n \in Of("failed") : n \in Of("failed")' /\ records'[n] = records[n]
      /\ rec.kind = "failed" => p \in Of("failed")'
      /\ \A n \in Of("status")' :
           \/ n \in Of("status") /\ records'[n] = records[n]
           \/ n = p /\ rec.kind = "status"
      /\ Of("status") \subseteq 1..Len(records)
  BY <1>1
<1>3. FailureNeedsRetry(a) <=>
        \E n \in Of("failed") : records[n].act = a
           /\ \A k \in Of("status") : records[k].status = "active" => k < n
  BY DEF FailureNeedsRetry
<1>4. FailureNeedsRetry(a)' <=>
        \E n \in Of("failed")' : records'[n].act = a
           /\ \A k \in Of("status")' : records'[k].status = "active" => k < n
  BY DEF FailureNeedsRetry
<1>5. p = Len(records) + 1
  OBVIOUS
<1> HIDE DEF p
<1>6. ASSUME FailureNeedsRetry(a), rec.kind = "status" => rec.status # "active"
      PROVE  FailureNeedsRetry(a)'
  <2>1. PICK n \in Of("failed") : records[n].act = a
           /\ \A k \in Of("status") : records[k].status = "active" => k < n
    BY <1>3, <1>6
  <2>2. n \in Of("failed")' /\ records'[n].act = a
    BY <1>2, <2>1
  <2>3. \A k \in Of("status")' : records'[k].status = "active" => k < n
    BY <1>1, <1>2, <1>6, <2>1
  <2> QED
    BY <1>4, <2>2, <2>3
<1>7. ASSUME rec.kind = "failed", rec.act = a PROVE FailureNeedsRetry(a)'
  BY <1>1, <1>2, <1>4, <1>5, <1>7
<1> QED
  BY <1>6, <1>7

\* What may be recorded.
Permitted(rec) ==
  /\ rec.kind \in RecordKinds
  /\ rec.kind = "registered" <=> records = <<>>
  /\ rec.kind = "opened" => rec.act \in ActivationIds \ Opened
  /\ rec.kind = "done" => rec.act \in Opened
  /\ rec.kind = "recorded" =>
       /\ [act |-> rec.act, op |-> rec.op] \in Operations
       /\ <<rec.act, rec.op.key>> \notin Recorded
  /\ rec.kind = "settled" => <<rec.act, rec.key>> \in Recorded

LEMMA RecordsKept ==
  ASSUME RecordsSound, NEW rec, records' = Append(records, rec), Permitted(rec)
  PROVE  RecordsSound'
<1>0. PICK p : p = Len(records) + 1
  OBVIOUS
<1>1. /\ DOMAIN records = 1..Len(records) /\ Len(records) \in Nat
      /\ (DOMAIN records)' = 1..(Len(records) + 1)
      /\ \A n \in DOMAIN records : records'[n] = records[n]
      /\ records'[p] = rec
      /\ Listed(records)'
      /\ \A kind : Of(kind)' = Of(kind) \cup (IF rec.kind = kind THEN {p} ELSE {})
      /\ \A kind : Of(kind) \subseteq DOMAIN records
  BY <1>0, RecordAdded DEF Of
<1>2. /\ p = Len(records) + 1 /\ p \notin DOMAIN records
      /\ (DOMAIN records)' = DOMAIN records \cup {p}
  BY <1>0, <1>1
<1>3. records = <<>> <=> p = 1
  <2>1. records \in Seq(Elements(records))
    BY DEF RecordsSound, Listed
  <2> QED
    BY <1>0, <1>1, <2>1
<1>4. \A n \in DOMAIN records' : records'[n].kind \in RecordKinds
  BY <1>1, <1>2 DEF RecordsSound, Permitted
<1>5. \A n \in DOMAIN records' : records'[n].kind = "registered" <=> n = 1
  <2>1. records'[p].kind = "registered" <=> p = 1
    BY <1>1, <1>3 DEF Permitted
  <2> QED
    BY <1>1, <1>2, <2>1 DEF RecordsSound
<1>6. Done' \subseteq Opened' /\ Opened' \subseteq ActivationIds
  BY RecordSays DEF RecordsSound, Permitted
<1>7. ASSUME NEW n \in Of("opened")', NEW m \in Of("opened")',
             records'[n].act = records'[m].act
      PROVE  n = m
  <2>1. \A k \in Of("opened") : records[k].act \in Opened /\ records'[k] = records[k]
    BY <1>1 DEF Opened
  <2>2. \A k \in Of("opened")' :
          k \in Of("opened") \/ (k = p /\ records'[k].act \notin Opened)
    <3>1. Of("opened")' = Of("opened") \cup (IF rec.kind = "opened" THEN {p} ELSE {})
      BY <1>1
    <3>2. rec.kind = "opened" => rec.act \notin Opened
      BY DEF Permitted
    <3> QED
      BY <1>1, <3>1, <3>2
  <2>3. \A k, h \in Of("opened") : records[k].act = records[h].act => k = h
    BY DEF RecordsSound
  <2> QED
    BY <1>7, <2>1, <2>2, <2>3
<1>8. RecordedOps' \subseteq Operations
  BY RecordSays DEF RecordsSound, Permitted
<1>9. ASSUME NEW n \in Of("recorded")', NEW m \in Of("recorded")',
             Identity(Operation(n)') = Identity(Operation(m)')
      PROVE  n = m
  <2>1. \A k \in Of("recorded") :
          Identity(Operation(k)) \in Recorded /\ Operation(k)' = Operation(k)
    BY <1>1 DEF Recorded, Operation
  <2>2. \A k \in Of("recorded")' :
          k \in Of("recorded") \/ (k = p /\ Identity(Operation(k)') \notin Recorded)
    <3>1. Of("recorded")' = Of("recorded") \cup (IF rec.kind = "recorded" THEN {p} ELSE {})
      BY <1>1
    <3>2. rec.kind = "recorded" => <<rec.act, rec.op.key>> \notin Recorded
      BY DEF Permitted
    <3>3. Identity(Operation(p)') = <<rec.act, rec.op.key>>
      BY <1>1 DEF Identity, Operation
    <3> QED
      BY <3>1, <3>2, <3>3
  <2> QED
    BY <1>9, <2>1, <2>2 DEF RecordsSound
<1>10. ASSUME NEW n \in Of("settled")'
       PROVE  \E m \in Of("recorded")' :
                m < n /\ Identity(Operation(m)') = <<records'[n].act, records'[n].key>>
  <2>1. \A k \in Of("recorded") : k \in Of("recorded")' /\ Operation(k)' = Operation(k)
    BY <1>1 DEF Operation
  <2>2. CASE n \in Of("settled")
    <3>1. PICK m \in Of("recorded") :
            m < n /\ Identity(Operation(m)) = <<records[n].act, records[n].key>>
      BY <2>2 DEF RecordsSound
    <3>2. records'[n] = records[n]
      BY <1>1, <2>2
    <3> QED
      BY <2>1, <3>1, <3>2
  <2>3. CASE n \notin Of("settled")
    <3>1. n = p /\ rec.kind = "settled"
      BY <1>1, <2>3
    <3>2. <<rec.act, rec.key>> \in Recorded
      BY <3>1 DEF Permitted
    <3>3. PICK m \in Of("recorded") : Identity(Operation(m)) = <<rec.act, rec.key>>
      BY <3>2 DEF Recorded
    <3>4. m < n
      BY <1>1, <1>2, <3>1
    <3> QED
      BY <1>1, <2>1, <3>1, <3>3, <3>4
  <2> QED
    BY <2>2, <2>3
<1>11. \A n, m \in Of("recorded")' :
         (Identity(Operation(n)) = Identity(Operation(m)) => n = m)'
  BY <1>9 DEF Identity
<1>12. \A n \in Of("settled")' : \E m \in Of("recorded")' :
         (m < n /\ Identity(Operation(m)) = <<records[n].act, records[n].key>>)'
  BY <1>10 DEF Identity
<1> QED
  BY <1>1, <1>4, <1>5, <1>6, <1>7, <1>8, <1>11, <1>12 DEF RecordsSound

LEMMA RecordsSame ==
  ASSUME UNCHANGED records
  PROVE  /\ RecordsSound => RecordsSound'
         /\ Opened' = Opened /\ Done' = Done /\ Settled' = Settled
         /\ RecordedOps' = RecordedOps
         /\ \A a : Invoked(a)' = Invoked(a)
         /\ \A a : FailureNeedsRetry(a) => FailureNeedsRetry(a)'
         /\ \A kind : Of(kind)' = Of(kind)
<1>1. \A kind : Of(kind)' = Of(kind)
  BY DEF Of
<1>2. Opened' = Opened /\ Done' = Done /\ Settled' = Settled /\ RecordedOps' = RecordedOps
  BY DEF Opened, Done, Settled, RecordedOps, Of, Operation
<1>3. \A a : Invoked(a)' = Invoked(a)
  BY DEF Invoked, Of
<1>4. \A a : FailureNeedsRetry(a) => FailureNeedsRetry(a)'
  BY DEF FailureNeedsRetry, Of
<1>5. RecordsSound => RecordsSound'
  BY <1>1, <1>2 DEF RecordsSound, Operation, Identity, Listed, Elements
<1> QED
  BY <1>1, <1>2, <1>3, <1>4, <1>5

\* An append of a record that may be there already.
LEMMA Written ==
  ASSUME RecordsSound, NEW rec, Write(rec), Permitted(rec)
  PROVE  /\ RecordsSound' /\ records' # <<>>
         /\ Opened' = Opened \cup (IF rec.kind = "opened" THEN {rec.act} ELSE {})
         /\ Done' = Done \cup (IF rec.kind = "done" THEN {rec.act} ELSE {})
         /\ Settled' = Settled \cup (IF rec.kind = "settled" THEN {<<rec.act, rec.key>>} ELSE {})
         /\ RecordedOps' = RecordedOps \cup
              (IF rec.kind = "recorded" THEN {[act |-> rec.act, op |-> rec.op]} ELSE {})
         /\ \A a : rec.kind # "invoked" \/ rec.act # a => Invoked(a)' = Invoked(a)
         /\ \A a : FailureNeedsRetry(a) /\ rec.kind # "status" => FailureNeedsRetry(a)'
         /\ \A a : rec.kind = "failed" /\ rec.act = a =>
              FailureNeedsRetry(a)' \/ \E n \in Of("failed") : records[n] = rec
         /\ rec.kind # "registered" =>
              /\ Of("registered")' = Of("registered")
              /\ \A n \in Of("registered") : records'[n] = records[n]
<1>1. ASSUME NEW n \in DOMAIN records, records[n] = rec, UNCHANGED records
      PROVE  /\ rec.kind = "opened" => rec.act \in Opened
             /\ rec.kind = "done" => rec.act \in Done
             /\ rec.kind = "settled" => <<rec.act, rec.key>> \in Settled
             /\ rec.kind = "recorded" => [act |-> rec.act, op |-> rec.op] \in RecordedOps
             /\ rec.kind = "failed" => n \in Of("failed")
             /\ records # <<>>
  BY <1>1 DEF Opened, Done, Settled, RecordedOps, Operation, Of
<1>2. CASE \E n \in DOMAIN records : records[n] = rec
  <2>1. UNCHANGED records
    BY <1>2 DEF Write
  <2> QED
    BY <1>1, <1>2, <2>1, RecordsSame
<1>3. CASE ~\E n \in DOMAIN records : records[n] = rec
  <2>1. records' = Append(records, rec)
    BY <1>3 DEF Write
  <2>2. records' # <<>> /\ \A n \in Of("registered") : records'[n] = records[n]
    <3>1. (DOMAIN records)' = 1..(Len(records) + 1) /\ Len(records) \in Nat
      BY <2>1, RecordAdded
    <3> QED
      BY <2>1, <3>1, RecordAdded DEF Of
  <2>3. rec.kind # "registered" => Of("registered")' = Of("registered")
    <3>1. Of("registered")' = Of("registered") \cup
            (IF rec.kind = "registered" THEN {Len(records) + 1} ELSE {})
      BY <2>1, RecordAdded
    <3> QED
      BY <3>1
  <2>4. RecordsSound'
    BY <2>1, RecordsKept
  <2>5. /\ \A a : FailureNeedsRetry(a) /\ rec.kind # "status" => FailureNeedsRetry(a)'
        /\ \A a : rec.kind = "failed" /\ rec.act = a => FailureNeedsRetry(a)'
    BY <2>1, FailureStays
  <2> QED
    BY <2>1, <2>2, <2>3, <2>4, <2>5, RecordSays
<1> QED
  BY <1>2, <1>3

-----------------------------------------------------------------------------
(***************************************************************************)
(* Steps that leave what a job has in hand as it is.                        *)
(***************************************************************************)
LEMMA JobSame ==
  ASSUME UNCHANGED <<stream, records, turns, failing, repeated>>
  PROVE  /\ \A j : JobSound(j) => JobSound(j)'
         /\ RecordsSound => RecordsSound'
         /\ StreamsSound => StreamsSound'
         /\ BoundarySound => BoundarySound'
         /\ SettledHappened => SettledHappened'
         /\ DoneSettled => DoneSettled'
         /\ FailingSound => FailingSound'
<1>1. /\ Opened' = Opened /\ Done' = Done /\ Settled' = Settled /\ RecordedOps' = RecordedOps
      /\ RecordsSound => RecordsSound'
      /\ \A a : FailureNeedsRetry(a) => FailureNeedsRetry(a)'
      /\ \A kind : Of(kind)' = Of(kind)
  BY RecordsSame
<1>2. Unsettled' = Unsettled
  BY <1>1 DEF Unsettled, Identity
<1>3. \A o : Happened(o)' <=> Happened(o)
  BY DEF Happened, Target, Identity
<1>4. \A read : Within(read)' <=> Within(read)
  BY DEF Within
<1>5. \A j : LeftSound(j) => LeftSound(j)'
  BY <1>1, <1>2 DEF LeftSound
<1>6. \A j : TrySound(j) => TrySound(j)'
  BY <1>1, <1>2, <1>5 DEF TrySound
<1>7. \A j : SendSound(j) => SendSound(j)'
  <2> TAKE j
  <2>1. Happened(j.ops[1]) => Happened(j.ops[1])'
    BY <1>3
  <2> QED
    BY <1>1, <1>2, <1>6, <2>1 DEF SendSound, Elements
<1>8. \A open : OpenSound(open) => OpenSound(open)'
  BY <1>1 DEF OpenSound
<1>9. \A j : JobSound(j) => JobSound(j)'
  BY <1>2, <1>4, <1>5, <1>6, <1>7, <1>8 DEF JobSound
<1>10. StreamsSound => StreamsSound'
  <2>1. stream' = stream /\ RecordedOps' = RecordedOps
    BY <1>1
  <2> QED
    BY <2>1 DEF StreamsSound
<1>11. BoundarySound => BoundarySound'
  BY <1>1, <1>4 DEF BoundarySound
<1>12. (SettledHappened => SettledHappened') /\ (DoneSettled => DoneSettled')
  BY <1>1, <1>3 DEF SettledHappened, DoneSettled, Identity
<1>13. FailingSound => FailingSound'
  BY <1>1 DEF FailingSound
<1> QED
  BY <1>1, <1>9, <1>10, <1>11, <1>12, <1>13

-----------------------------------------------------------------------------
(***************************************************************************)
(* Effects: streams and turns that grow.                                    *)
(***************************************************************************)
EffectsGrow ==
  /\ \A s \in Surfaces :
       /\ Len(stream[s]) \in Nat /\ Len(stream'[s]) \in Nat /\ Len(stream[s]) <= Len(stream'[s])
       /\ DOMAIN stream[s] = 1..Len(stream[s]) /\ DOMAIN stream'[s] = 1..Len(stream'[s])
       /\ \A n \in DOMAIN stream[s] : stream'[s][n] = stream[s][n]
  /\ turns \subseteq turns'

LEMMA JobGrows ==
  ASSUME EngineInv, EffectsGrow, UNCHANGED <<records, failing, repeated>>
  PROVE  /\ \A j : JobSound(j) => JobSound(j)'
         /\ RecordsSound' /\ BoundarySound' /\ SettledHappened' /\ DoneSettled' /\ FailingSound'
<1>1. /\ Opened' = Opened /\ Done' = Done /\ Settled' = Settled /\ RecordedOps' = RecordedOps
      /\ RecordsSound'
      /\ \A a : FailureNeedsRetry(a) => FailureNeedsRetry(a)'
      /\ \A kind : Of(kind)' = Of(kind)
  BY RecordsSame DEF EngineInv
<1>2. Unsettled' = Unsettled
  BY <1>1 DEF Unsettled, Identity
<1>3. ASSUME NEW o \in RecordedOps, Happened(o) PROVE Happened(o)'
  <2>1. o.op.role \in Roles /\ Bindings[o.op.role] \in Surfaces
    BY EngineAssumption DEF EngineInv, RecordsSound, Operations, Ops
  <2>2. CASE o.op.kind = "followup"
    BY <1>3, <2>2 DEF Happened, EffectsGrow, Identity
  <2>3. CASE o.op.kind # "followup"
    <3>1. PICK n \in DOMAIN stream[Bindings[o.op.role]] :
            stream[Bindings[o.op.role]][n].by = Identity(o)
      BY <1>3, <2>3 DEF Happened, Target
    <3>2. /\ n \in DOMAIN stream'[Bindings[o.op.role]]
          /\ stream'[Bindings[o.op.role]][n].by = Identity(o)
      BY <2>1, <3>1 DEF EffectsGrow
    <3> QED
      BY <2>3, <3>2 DEF Happened, Target, Identity
  <2> QED
    BY <2>2, <2>3
<1>4. ASSUME NEW read, Within(read) PROVE Within(read)'
  <2>1. read \in [Roles -> Nat] /\ \A r \in Roles : read[r] <= Len(stream[Bindings[r]])
    BY <1>4 DEF Within
  <2>2. ASSUME NEW r \in Roles PROVE read[r] <= Len(stream'[Bindings[r]])
    <3>1. Bindings[r] \in Surfaces
      BY EngineAssumption
    <3> QED
      BY <2>1, <3>1 DEF EffectsGrow
  <2> QED
    BY <2>1, <2>2 DEF Within
<1>5. \A j : LeftSound(j) => LeftSound(j)'
  BY <1>1, <1>2 DEF LeftSound
<1>6. \A j : TrySound(j) => TrySound(j)'
  BY <1>1, <1>2, <1>5 DEF TrySound
<1>7. \A j : SendSound(j) => SendSound(j)'
  <2> TAKE j
  <2>1. SendSound(j) => j.ops[1] \in RecordedOps
    BY DEF SendSound
  <2>2. SendSound(j) /\ Happened(j.ops[1]) => Happened(j.ops[1])'
    BY <1>3, <2>1
  <2> QED
    BY <1>1, <1>2, <1>6, <2>2 DEF SendSound, Elements
<1>8. \A open : OpenSound(open) => OpenSound(open)'
  BY <1>1 DEF OpenSound
<1>9. \A j : JobSound(j) => JobSound(j)'
  BY <1>2, <1>4, <1>5, <1>6, <1>7, <1>8 DEF JobSound
<1>10. BoundarySound'
  BY <1>1, <1>4 DEF BoundarySound, EngineInv
<1>11. SettledHappened' /\ DoneSettled'
  BY <1>1, <1>3 DEF SettledHappened, DoneSettled, Identity, EngineInv
<1>12. FailingSound'
  BY <1>1 DEF FailingSound, EngineInv
<1> QED
  BY <1>1, <1>9, <1>10, <1>11, <1>12

\* One more event on the surface of a role.
LEMMA EventAdded ==
  ASSUME StreamsSound, NEW r \in Roles, NEW e \in StreamEvents,
         stream' = [stream EXCEPT ![Bindings[r]] = Append(@, e)],
         UNCHANGED <<records, turns>>,
         e.by # None =>
           /\ \A n \in DOMAIN stream[Bindings[r]] : stream[Bindings[r]][n].by # e.by
           /\ \E o \in RecordedOps : Event(o) = e /\ o.op.role = r
  PROVE  /\ StreamsSound' /\ EffectsGrow
         /\ \E n \in DOMAIN stream'[Bindings[r]] : stream'[Bindings[r]][n] = e
<1>1. PICK s \in Surfaces : s = Bindings[r]
  BY EngineAssumption
<1>2. PICK old \in Seq(StreamEvents) : old = stream[s]
  BY DEF StreamsSound
<1>3. PICK new : new = Append(old, e)
  OBVIOUS
<1>4. /\ new \in Seq(StreamEvents) /\ Len(old) \in Nat /\ Len(new) = Len(old) + 1
      /\ DOMAIN old = 1..Len(old) /\ DOMAIN new = 1..(Len(old) + 1)
      /\ \A n \in DOMAIN old : new[n] = old[n]
      /\ new[Len(old) + 1] = e
  BY <1>3
<1>5. /\ stream' \in [Surfaces -> Seq(StreamEvents)]
      /\ stream'[s] = new
      /\ \A t \in Surfaces : t # s => stream'[t] = stream[t]
  BY <1>1, <1>2, <1>3, <1>4 DEF StreamsSound
<1>6. ASSUME NEW t \in Surfaces, NEW n \in DOMAIN stream'[t], NEW m \in DOMAIN stream'[t],
             stream'[t][n].by # None, stream'[t][n].by = stream'[t][m].by
      PROVE  n = m
  <2>1. CASE t # s
    BY <1>5, <1>6, <2>1 DEF StreamsSound
  <2>2. CASE t = s
    <3>1. \A k \in DOMAIN old : e.by # None => old[k].by # e.by
      BY <1>1, <1>2
    <3>2. \A k, h \in DOMAIN old : old[k].by # None /\ old[k].by = old[h].by => k = h
      BY <1>2 DEF StreamsSound
    <3>3. /\ n \in DOMAIN new /\ m \in DOMAIN new
          /\ new[n].by # None /\ new[n].by = new[m].by
      BY <1>5, <1>6, <2>2
    <3>4. PICK p : /\ \A k \in DOMAIN new : k \in DOMAIN old \/ k = p
                   /\ \A k \in DOMAIN old : new[k] = old[k]
                   /\ new[p] = e
      <4>1. \A k \in 1..(Len(old) + 1) : k \in 1..Len(old) \/ k = Len(old) + 1
        <5>1. Len(old) \in Nat
          BY <1>4
        <5> QED
          BY <5>1
      <4>2. DOMAIN old = 1..Len(old) /\ DOMAIN new = 1..(Len(old) + 1)
        BY <1>4
      <4>3. (\A k \in DOMAIN old : new[k] = old[k]) /\ new[Len(old) + 1] = e
        BY <1>4
      <4>4. \A k \in DOMAIN new : k \in DOMAIN old \/ k = Len(old) + 1
        BY <4>1, <4>2
      <4> QED
        BY <4>3, <4>4
    <3>5. ASSUME NEW k \in DOMAIN new, NEW h \in DOMAIN new,
                 new[k].by # None, new[k].by = new[h].by
          PROVE  k \in DOMAIN old <=> h \in DOMAIN old
      <4>1. \A f, g \in DOMAIN new : f \in DOMAIN old /\ g \notin DOMAIN old =>
              new[f] = old[f] /\ new[g] = e
        BY <3>4
      <4>2. \A f, g \in DOMAIN new : f \in DOMAIN old /\ g \notin DOMAIN old
              /\ new[g].by # None => new[f].by # new[g].by
        BY <3>1, <4>1
      <4> QED
        BY <3>5, <4>2
    <3>6. CASE n \in DOMAIN old
      BY <3>2, <3>3, <3>4, <3>5, <3>6
    <3>7. CASE n \notin DOMAIN old
      BY <3>3, <3>4, <3>5, <3>7
    <3> QED
      BY <3>6, <3>7
  <2> QED
    BY <2>1, <2>2
<1>7. RecordedOps' = RecordedOps
  BY RecordsSame
<1>8. ASSUME NEW q \in Roles, NEW n \in DOMAIN stream'[Bindings[q]],
             stream'[Bindings[q]][n].by # None
      PROVE  \E o \in RecordedOps : Event(o) = stream'[Bindings[q]][n] /\ o.op.role = q
  <2>0. \A k \in DOMAIN stream[Bindings[q]] : stream[Bindings[q]][k].by # None =>
          \E o \in RecordedOps : Event(o) = stream[Bindings[q]][k] /\ o.op.role = q
    BY DEF StreamsSound
  <2>1. Bindings[q] \in Surfaces
    BY EngineAssumption
  <2>2. CASE q # r
    <3>1. Bindings[q] # s
      BY <1>1, <2>2, EngineAssumption
    <3>2. stream'[Bindings[q]] = stream[Bindings[q]]
      BY <1>5, <2>1, <3>1
    <3>3. n \in DOMAIN stream[Bindings[q]] /\ stream[Bindings[q]][n].by # None
      BY <1>8, <3>2
    <3>4. \E o \in RecordedOps : Event(o) = stream[Bindings[q]][n] /\ o.op.role = q
      BY <2>0, <3>3
    <3> QED
      BY <3>2, <3>4
  <2>3. CASE q = r
    <3>1. CASE n \in DOMAIN old
      <4>1. stream'[Bindings[q]][n] = stream[Bindings[q]][n] /\ n \in DOMAIN stream[Bindings[q]]
        BY <1>1, <1>2, <1>4, <1>5, <2>3, <3>1
      <4>2. \E o \in RecordedOps : Event(o) = stream[Bindings[q]][n] /\ o.op.role = q
        BY <1>8, <2>0, <4>1
      <4> QED
        BY <4>1, <4>2
    <3>2. CASE n \notin DOMAIN old
      BY <1>1, <1>4, <1>5, <1>8, <2>3, <3>2
    <3> QED
      BY <3>1, <3>2
  <2> QED
    BY <2>2, <2>3
<1>9. StreamsSound'
  <2>1. \A q \in Roles : \A n \in DOMAIN stream'[Bindings[q]] :
          stream'[Bindings[q]][n].by # None =>
            \E o \in RecordedOps' : Event(o) = stream'[Bindings[q]][n] /\ o.op.role = q
    BY <1>7, <1>8
  <2>2. \A t \in Surfaces : \A n, m \in DOMAIN stream'[t] :
          stream'[t][n].by # None /\ stream'[t][n].by = stream'[t][m].by => n = m
    BY <1>6
  <2> QED
    BY <1>5, <2>1, <2>2 DEF StreamsSound
<1>10. EffectsGrow
  <2>1. ASSUME NEW t \in Surfaces
        PROVE  /\ Len(stream[t]) \in Nat /\ Len(stream'[t]) \in Nat
               /\ Len(stream[t]) <= Len(stream'[t])
               /\ DOMAIN stream[t] = 1..Len(stream[t]) /\ DOMAIN stream'[t] = 1..Len(stream'[t])
               /\ \A n \in DOMAIN stream[t] : stream'[t][n] = stream[t][n]
    <3>1. stream[t] \in Seq(StreamEvents)
      BY DEF StreamsSound
    <3> QED
      BY <1>2, <1>4, <1>5, <3>1
  <2> QED
    BY <2>1 DEF EffectsGrow
<1>11. \E n \in DOMAIN stream'[s] : stream'[s][n] = e
  <2>1. Len(old) + 1 \in DOMAIN stream'[s] /\ stream'[s][Len(old) + 1] = e
    BY <1>4, <1>5
  <2> QED
    BY <2>1
<1> QED
  BY <1>1, <1>9, <1>10, <1>11

LEMMA Queueing ==
  ASSUME NEW jobs \in Seq(ChainKinds)
  PROVE  /\ \A kind \in ChainKinds : Append(jobs, kind) \in Seq(ChainKinds)
         /\ jobs # <<>> => Tail(jobs) \in Seq(ChainKinds)
         /\ Woken(jobs) \in Seq(ChainKinds)
<1>1. "reconcile" \in ChainKinds
  BY DEF ChainKinds
<1> HIDE DEF ChainKinds
<1> QED
  BY <1>1 DEF Woken

LEMMA CarriedOut ==
  ASSUME EngineInv, NEW o \in RecordedOps, CarryOut(o), UNCHANGED records
  PROVE  /\ StreamsSound' /\ EffectsGrow /\ Happened(o)'
         /\ chain' \in Seq(ChainKinds) /\ missed' \in BOOLEAN
<1>1. /\ o \in Operations /\ o.op.role \in Roles /\ o.op \in Ops /\ o.act \in ActivationIds
      /\ StreamsSound /\ chain \in Seq(ChainKinds) /\ missed \in BOOLEAN
  BY DEF EngineInv, RecordsSound, Operations, Ops, SwitchesSound
<1>2. RecordedOps' = RecordedOps
  BY RecordsSame
<1>3. ASSUME UNCHANGED stream PROVE StreamsSound' /\ (turns \subseteq turns' => EffectsGrow)
  <2>1. StreamsSound'
    BY <1>1, <1>2, <1>3 DEF StreamsSound
  <2>2. \A s \in Surfaces : Len(stream[s]) \in Nat /\ DOMAIN stream[s] = 1..Len(stream[s])
    BY <1>1 DEF StreamsSound
  <2> QED
    BY <1>3, <2>1, <2>2 DEF EffectsGrow
<1>4. CASE o.op.kind = "followup"
  <2>1. turns' = turns \cup {Identity(o)} /\ UNCHANGED <<stream, chain, missed>>
    BY <1>4 DEF CarryOut
  <2> QED
    BY <1>1, <1>3, <1>4, <2>1 DEF Happened, Identity
<1>5. CASE o.op.kind # "followup" /\ Happened(o)
  <2>1. UNCHANGED <<stream, chain, missed, turns>>
    BY <1>5 DEF CarryOut
  <2>2. Happened(o)'
    BY <1>5, <2>1 DEF Happened, Target, Identity
  <2> QED
    BY <1>1, <1>3, <2>1, <2>2
<1>6. CASE o.op.kind # "followup" /\ ~Happened(o)
  <2>1. Appended(o.op.role, Event(o)) /\ UNCHANGED turns
    BY <1>6 DEF CarryOut
  <2>2. Event(o) \in StreamEvents /\ Event(o).by = Identity(o)
    BY <1>1 DEF Event, StreamEvents, Identity, ActivationIds
  <2>3. \A n \in DOMAIN stream[Bindings[o.op.role]] :
          stream[Bindings[o.op.role]][n].by # Identity(o)
    BY <1>6 DEF Happened, Target
  <2>4. /\ StreamsSound' /\ EffectsGrow
        /\ \E n \in DOMAIN stream'[Bindings[o.op.role]] :
             stream'[Bindings[o.op.role]][n] = Event(o)
    <3>1. PICK r \in Roles : r = o.op.role
      BY <1>1
    <3>2. PICK e \in StreamEvents : e = Event(o)
      BY <2>2
    <3>3. stream' = [stream EXCEPT ![Bindings[r]] = Append(@, e)] /\ UNCHANGED <<records, turns>>
      BY <2>1, <3>1, <3>2 DEF Appended
    <3>4. /\ \A n \in DOMAIN stream[Bindings[r]] : stream[Bindings[r]][n].by # e.by
          /\ \E q \in RecordedOps : Event(q) = e /\ q.op.role = r
      BY <2>2, <2>3, <3>1, <3>2
    <3>5. /\ StreamsSound' /\ EffectsGrow
          /\ \E n \in DOMAIN stream'[Bindings[r]] : stream'[Bindings[r]][n] = e
      BY <1>1, <3>3, <3>4, EventAdded
    <3> QED
      BY <3>1, <3>2, <3>5
  <2>5. Happened(o)'
    BY <1>6, <2>2, <2>4 DEF Happened, Target, Identity
  <2>6. chain' \in Seq(ChainKinds) /\ missed' \in BOOLEAN
    BY <1>1, <2>1, Queueing DEF Appended
  <2> QED
    BY <2>4, <2>5, <2>6
<1> QED
  BY <1>4, <1>5, <1>6

-----------------------------------------------------------------------------
(***************************************************************************)
(* Steps of a job that write nothing.                                       *)
(***************************************************************************)
LEMMA Moved ==
  ASSUME EngineInv, UNCHANGED <<stream, records, turns, failing, repeated>>,
         SwitchesSound', NEW j, job' = j, j # NoJob => JobSound(j)
  PROVE  EngineInv'
<1>1. j # NoJob => JobSound(j)'
  BY JobSame
<1>2. \A i \in {job'} \ {NoJob} : JobSound(i)'
  BY <1>1
<1>3. /\ RecordsSound' /\ StreamsSound' /\ BoundarySound'
      /\ SettledHappened' /\ DoneSettled' /\ FailingSound'
  <2>1. /\ RecordsSound /\ StreamsSound /\ BoundarySound
        /\ SettledHappened /\ DoneSettled /\ FailingSound
    BY DEF EngineInv
  <2>2. UNCHANGED <<stream, records, turns, failing, repeated>>
    OBVIOUS
  <2> QED
    BY ONLY <2>1, <2>2, JobSame
<1>4. (\A i \in {job} \ {NoJob} : JobSound(i))'
  BY <1>2
<1> QED
  BY <1>3, <1>4 DEF EngineInv

LEMMA FreshIs ==
  ASSUME NEW of, NEW at, NEW j, j = Fresh(of, at)
  PROVE  /\ DOMAIN j = JobFields /\ j.of = of /\ j.at = at
         /\ j.read = [r \in Roles |-> 0] /\ j.unread = Roles /\ j.open = {}
         /\ j.left = <<>> /\ j.act = None /\ j.plan = <<>> /\ j.ops = <<>> /\ j.message = None
BY DEF Fresh, JobFields, NoOne

LEMMA ZeroWithin ==
  ASSUME StreamsSound
  PROVE  Within([r \in Roles |-> 0])
<1>1. ASSUME NEW r \in Roles PROVE 0 <= Len(stream[Bindings[r]])
  <2>1. stream[Bindings[r]] \in Seq(StreamEvents)
    BY EngineAssumption DEF StreamsSound
  <2> QED
    BY <2>1
<1> QED
  BY <1>1 DEF Within

\* Steps that leave job, records, streams and turns alone.
LEMMA Waits ==
  ASSUME EngineInv, UNCHANGED <<stream, records, turns, failing, repeated>>, SwitchesSound',
         job' = job \/ job' = NoJob
  PROVE  EngineInv'
<1>1. PICK j : j = job'
  OBVIOUS
<1>2. j # NoJob => JobSound(j)
  BY <1>1 DEF EngineInv
<1> QED
  BY <1>1, <1>2, Moved

LEMMA Starts ==
  ASSUME EngineInv, UNCHANGED <<stream, records, turns, failing, repeated>>, SwitchesSound',
         NEW of, \/ job' = Fresh(of, "boundary") /\ records = <<>>
                 \/ job' = Fresh(of, "status") /\ records # <<>>
  PROVE  EngineInv'
<1>1. PICK j : j = job'
  OBVIOUS
<1>2. DOMAIN j = JobFields /\ Within(j.read) /\ j.at \in {"boundary", "status"}
      /\ (j.at = "boundary" <=> records = <<>>)
  BY <1>1, FreshIs, ZeroWithin DEF EngineInv
<1>3. JobSound(j)
  BY <1>2 DEF JobSound, Sending, TryStages, Handling
<1> QED
  BY <1>1, <1>3, Moved

LEMMA RefuseStep ==
  ASSUME EngineInv, Refuse PROVE EngineInv'
<1>1. SwitchesSound'
  BY Queueing DEF EngineInv, SwitchesSound, Refuse, Rest, durable
<1> QED
  BY <1>1, Waits DEF Refuse, durable, history

LEMMA StartRegisterStep ==
  ASSUME EngineInv, StartRegister PROVE EngineInv'
<1>1. SwitchesSound'
  <2>1. Tail(chain) \in Seq(ChainKinds) /\ "first" \in ChainKinds
    BY Queueing DEF EngineInv, SwitchesSound, StartRegister, Takes, ChainKinds
  <2>2. Append(Tail(chain), "first") \in Seq(ChainKinds)
    BY <2>1, Queueing
  <2> QED
    BY <2>1, <2>2 DEF EngineInv, SwitchesSound, StartRegister, Rest, durable
<1>2. CASE records = <<>>
  BY <1>1, <1>2, Starts DEF StartRegister, durable, history
<1>3. CASE records # <<>>
  BY <1>1, <1>3, Waits DEF StartRegister, durable, history
<1> QED
  BY <1>2, <1>3

LEMMA StartStatusStep ==
  ASSUME EngineInv, NEW kind \in Switches, StartStatus(kind) PROVE EngineInv'
<1>1. SwitchesSound'
  <2>1. Tail(chain) \in Seq(ChainKinds) /\ "reconcile" \in ChainKinds
    BY Queueing DEF EngineInv, SwitchesSound, StartStatus, Takes, ChainKinds
  <2>2. Append(Tail(chain), "reconcile") \in Seq(ChainKinds)
    BY <2>1, Queueing
  <2> QED
    BY <2>1, <2>2 DEF EngineInv, SwitchesSound, StartStatus, Rest, Resumed, durable
<1>2. records # <<>>
  BY DEF StartStatus, Registered, Of
<1>3. CASE Status = kind
  BY <1>1, <1>3, Waits DEF StartStatus, durable, history
<1>4. CASE Status # kind
  BY <1>1, <1>2, <1>4, Starts DEF StartStatus, durable, history
<1> QED
  BY <1>3, <1>4

LEMMA ReadStep ==
  ASSUME EngineInv, NEW r \in Roles, ReadBoundary(r) \/ Observe(r) PROVE EngineInv'
<1>1. PICK j : j = job
  OBVIOUS
<1>2. j # NoJob /\ j.at \in {"boundary", "observe"} /\ JobSound(j)
  BY <1>1 DEF ReadBoundary, Observe, At, EngineInv
<1>3. PICK i : i = [j EXCEPT !.unread = @ \ {r}, !.read[r] = Len(stream[Bindings[r]])]
  OBVIOUS
<1>4. job' = i /\ UNCHANGED <<stream, records, turns, failing, repeated, torn, known, missed, chain>>
  BY <1>1, <1>3 DEF ReadBoundary, Observe, Read, durable, history
<1>5. /\ DOMAIN i = JobFields /\ i.at = j.at /\ i.act = j.act /\ i.open = j.open
      /\ i.read = [j.read EXCEPT ![r] = Len(stream[Bindings[r]])]
  BY <1>2, <1>3 DEF JobSound, JobFields
<1>6. Within(i.read)
  <2>1. Len(stream[Bindings[r]]) \in Nat
    <3>1. stream[Bindings[r]] \in Seq(StreamEvents)
      BY EngineAssumption DEF EngineInv, StreamsSound
    <3> QED
      BY <3>1
  <2>2. Within(j.read)
    BY <1>2 DEF JobSound
  <2> QED
    BY <1>5, <2>1, <2>2 DEF Within
<1>7. JobSound(i)
  BY <1>2, <1>5, <1>6 DEF JobSound, Sending, TryStages, Handling
<1>8. SwitchesSound'
  BY <1>4 DEF EngineInv, SwitchesSound
<1> QED
  BY <1>4, <1>7, <1>8, Moved

-----------------------------------------------------------------------------
(***************************************************************************)
(* What a reconcile finds: operations to recover, and what is new.          *)
(***************************************************************************)
LEMMA PendingLists ==
  ASSUME RecordsSound
  PROVE  /\ Pending \in Seq(Operations)
         /\ \A i \in DOMAIN Pending : Pending[i] \in RecordedOps
         /\ Unsettled \subseteq Elements(Pending)
         /\ Pending = <<>> => Unsettled = {}
<1>1. PICK S : S = PendingPlaces
  OBVIOUS
<1>2. Len(records) \in Nat /\ S \in SUBSET (1..Len(records))
  BY <1>1, ListedFacts DEF PendingPlaces, Of, RecordsSound
<1>3. PICK c \in Nat :
         /\ DOMAIN InOrder(S) = 1..c
         /\ c = 0 <=> S = {}
         /\ \A n \in 1..c : InOrder(S)[n] \in S
         /\ \A n, m \in 1..c : InOrder(S)[n] = InOrder(S)[m] => n = m
         /\ \A i \in S : \E n \in 1..c : InOrder(S)[n] = i
  <2>1. PICK k \in Nat : S \in SUBSET (1..k)
    BY <1>2
  <2> QED
    BY <2>1, InOrderLists
<1>4. Pending = [i \in 1..c |-> Operation(InOrder(S)[i])]
  BY <1>1, <1>3 DEF Pending
<1>5. \A n \in S : Operation(n) \in RecordedOps /\ Operation(n) \in Operations
  BY <1>1 DEF PendingPlaces, RecordedOps, RecordsSound
<1>6. Pending \in Seq(Operations)
  BY <1>3, <1>4, <1>5
<1>7. DOMAIN Pending = 1..c /\ \A i \in 1..c : Pending[i] \in RecordedOps
  BY <1>3, <1>4, <1>5
<1>8. ASSUME NEW o \in Unsettled PROVE \E i \in 1..c : Pending[i] = o
  <2>1. PICK n \in S : o = Operation(n)
    BY <1>1, <1>8 DEF Unsettled, RecordedOps, PendingPlaces
  <2>2. PICK i \in 1..c : InOrder(S)[i] = n
    BY <1>3
  <2> QED
    BY <1>4, <2>1, <2>2
<1>9. Unsettled \subseteq Elements(Pending)
  BY <1>7, <1>8 DEF Elements
<1>10. Pending = <<>> => Unsettled = {}
  BY <1>7, <1>8
<1> QED
  BY <1>6, <1>7, <1>9, <1>10

\* A condition has one evidence or none.
LEMMA PartIsOne ==
  ASSUME NEW events, NEW view, NEW c,
         NEW e \in Part(events, view, c), NEW f \in Part(events, view, c)
  PROVE  e = f
<1>1. CASE c.kind = "sequence"
  BY <1>1 DEF Part, Sequential
<1>2. CASE c.kind # "sequence"
  BY <1>2 DEF Part, Simple
<1> QED
  BY <1>1, <1>2

LEMMA EvidenceIsOne ==
  ASSUME NEW events, NEW view, NEW c,
         c.kind \in {"all", "any"} => Listed(c.parts),
         NEW e \in Evidence(events, view, c), NEW f \in Evidence(events, view, c)
  PROVE  e = f
<1> DEFINE Found(i) == Part(events, view, c.parts[i])
           First == {j \in DOMAIN c.parts : \A k \in 1..(j - 1) : Found(k) = {}}
<1>1. CASE c.kind = "any"
  <2>1. Evidence(events, view, c) = UNION {Found(i) : i \in First}
    BY <1>1 DEF Evidence
  <2>2. PICK i \in First, j \in First : e \in Found(i) /\ f \in Found(j)
    BY <2>1
  <2>3. DOMAIN c.parts = 1..Len(c.parts) /\ Len(c.parts) \in Nat
    BY <1>1, ListedFacts
  <2>4. /\ i \in 1..Len(c.parts) /\ \A k \in 1..(i - 1) : Found(k) = {}
        /\ j \in 1..Len(c.parts) /\ \A k \in 1..(j - 1) : Found(k) = {}
    <3>1. \A h \in First : h \in DOMAIN c.parts /\ \A k \in 1..(h - 1) : Found(k) = {}
      OBVIOUS
    <3> HIDE DEF Found, First
    <3> QED
      BY <2>2, <2>3, <3>1
  <2> HIDE DEF Found, First
  <2>5. ~(i < j) /\ ~(j < i)
    BY <2>2, <2>3, <2>4
  <2>6. i = j
    BY <2>3, <2>4, <2>5
  <2> QED
    BY <2>2, <2>6, PartIsOne DEF Found
<1>2. CASE c.kind = "all"
  BY <1>2 DEF Evidence
<1>3. CASE c.kind \notin {"all", "any"}
  <2>1. Evidence(events, view, c) = Part(events, view, c)
    BY <1>3 DEF Evidence
  <2> QED
    BY <2>1, PartIsOne
<1> QED
  BY <1>1, <1>2, <1>3

\* So a reconcile opens each activation with one evidence.
LEMMA DerivedIsSound ==
  ASSUME NEW read, read \in [Roles -> Nat]
  PROVE  OpenSound(Derived(read))
<1>1. ASSUME NEW s \in Subscriptions, NEW o \in Activations(s, read)
      PROVE  /\ o.kind = "opened" /\ o.act \in ActivationIds /\ o.act.sub = s
             /\ \A p \in Activations(s, read) : o.act = p.act => o = p
  <2> DEFINE view == Eligible(s, read)
             group(k) == [r \in Roles |-> {n \in view[r] : Events[r][n].key = k}]
             opens(k, e) == [kind |-> "opened", act |-> ByKey(s, k), refs |-> e]
             takes(ref) == [kind |-> "opened", act |-> ByEvent(s, ref), refs |-> {ref}]
  <2>1. CASE s \in Keyed
    <3>1. Activations(s, read)
            = UNION {{opens(k, e) : e \in Evidence(Events, group(k), When[s])} : k \in Keys}
      BY <2>1 DEF Activations
    <3>2. When[s].kind \in {"all", "any"} => Listed(When[s].parts)
      BY EngineAssumption DEF Listed, Elements
    <3>3. \A p \in Activations(s, read) :
            \E k \in Keys : \E e \in Evidence(Events, group(k), When[s]) : p = opens(k, e)
      BY <3>1
    <3>4. PICK k \in Keys : \E e \in Evidence(Events, group(k), When[s]) : o = opens(k, e)
      BY <3>3
    <3>5. PICK e \in Evidence(Events, group(k), When[s]) : o = opens(k, e)
      BY <3>4
    <3>6. o.kind = "opened" /\ o.act = ByKey(s, k) /\ o.act.sub = s /\ o.act.key = k
      BY <3>5 DEF ByKey
    <3>7. o.act \in ActivationIds
      BY <3>6 DEF ByKey, ActivationIds
    <3>8. ASSUME NEW p \in Activations(s, read), o.act = p.act PROVE o = p
      <4>1. PICK h \in Keys : \E g \in Evidence(Events, group(h), When[s]) : p = opens(h, g)
        BY <3>3
      <4>2. PICK g \in Evidence(Events, group(h), When[s]) : p = opens(h, g)
        BY <4>1
      <4>3. p.act.key = h
        BY <4>2 DEF ByKey
      <4>4. h = k
        BY <3>6, <3>8, <4>3
      <4>5. PICK v : v = group(k)
        OBVIOUS
      <4>6. e = g
        BY <3>2, <4>4, <4>5, EvidenceIsOne
      <4> QED
        BY <3>5, <4>2, <4>4, <4>6
    <3> QED
      BY <3>6, <3>7, <3>8
  <2>2. CASE s \notin Keyed
    <3>1. Activations(s, read)
            = {takes(ref) : ref \in
                 Refs(When[s].role, Matching(Events, view, When[s].role, When[s].name))}
      BY <2>2 DEF Activations
    <3>2. When[s].kind = "one" /\ When[s].role \in Roles
      BY <2>2, DefinitionAssumption DEF ValidDefinition, ValidCondition, ValidPart
    <3>3. \A r \in Roles : view[r] \subseteq Nat
      BY DEF Eligible
    <3>4. Refs(When[s].role, Matching(Events, view, When[s].role, When[s].name))
            \subseteq [role : Roles, seq : Nat]
      BY <3>2, <3>3 DEF Refs, Matching
    <3>5. PICK ref \in [role : Roles, seq : Nat] : o = takes(ref)
      BY <3>1, <3>4
    <3>6. o.kind = "opened" /\ o.act = ByEvent(s, ref) /\ o.act.sub = s /\ o.act.event = ref
      BY <3>5 DEF ByEvent
    <3>7. o.act \in ActivationIds
      BY <3>5, <3>6 DEF ByEvent, ActivationIds
    <3>8. ASSUME NEW p \in Activations(s, read), o.act = p.act PROVE o = p
      <4>1. PICK g : p = takes(g)
        BY <3>1
      <4>2. p.act.event = g
        BY <4>1 DEF ByEvent
      <4> QED
        BY <3>5, <3>6, <3>8, <4>1, <4>2
    <3> QED
      BY <3>6, <3>7, <3>8
  <2> QED
    BY <2>1, <2>2
<1>2. \A o \in Derived(read) :
        o.act \notin Opened /\ \E s \in Subscriptions : o \in Activations(s, read)
  BY DEF Derived
<1>3. ASSUME NEW o \in Derived(read)
      PROVE  /\ o.kind = "opened" /\ o.act \in ActivationIds \ Opened
             /\ \A p \in Derived(read) : o.act = p.act => o = p
  <2>1. PICK s \in Subscriptions : o \in Activations(s, read)
    BY <1>2
  <2>2. ASSUME NEW p \in Derived(read), o.act = p.act PROVE o = p
    <3>1. PICK t \in Subscriptions : p \in Activations(t, read)
      BY <1>2
    <3>2. t = s
      BY <1>1, <2>1, <2>2, <3>1
    <3> QED
      BY <1>1, <2>1, <2>2, <3>1, <3>2
  <2> QED
    BY <1>1, <1>2, <2>1, <2>2
<1> QED
  BY <1>3 DEF OpenSound

LEMMA StartReconcileStep ==
  ASSUME EngineInv, StartReconcile PROVE EngineInv'
<1>1. SwitchesSound'
  BY Queueing DEF EngineInv, SwitchesSound, StartReconcile, Rest, Ended, durable
<1>2. UNCHANGED <<stream, records, turns, failing, repeated>>
  BY DEF StartReconcile, durable, history
<1>3. records # <<>>
  BY DEF StartReconcile, Registered, Of
<1>4. CASE Status # "active"
  <2>1. job' = NoJob
    BY <1>4 DEF StartReconcile, Ended
  <2> QED
    BY <1>1, <1>2, <2>1, Waits
<1>5. CASE Status = "active"
  <2>1. PICK f : f = Fresh(Head(chain), IF Pending = <<>> THEN "observe" ELSE "send")
    OBVIOUS
  <2>2. PICK j : j = [f EXCEPT !.ops = Pending]
    OBVIOUS
  <2>3. job' = j
    BY <1>5, <2>1, <2>2 DEF StartReconcile
  <2>4. /\ DOMAIN f = JobFields /\ f.at = (IF Pending = <<>> THEN "observe" ELSE "send")
        /\ f.read = [r \in Roles |-> 0] /\ f.act = None
    BY <2>1, FreshIs
  <2>5. /\ DOMAIN j = JobFields /\ j.at = (IF Pending = <<>> THEN "observe" ELSE "send")
        /\ j.read = [r \in Roles |-> 0] /\ j.act = None /\ j.ops = Pending
    BY <2>2, <2>4 DEF JobFields
  <2>6. Within(j.read)
    BY <2>5, ZeroWithin DEF EngineInv
  <2>7. /\ Pending \in Seq(Operations)
        /\ \A i \in DOMAIN Pending : Pending[i] \in RecordedOps
        /\ Unsettled \subseteq Elements(Pending)
        /\ Pending = <<>> => Unsettled = {}
    BY PendingLists DEF EngineInv
  <2>8. CASE Pending = <<>>
    <3>1. j.at = "observe" /\ Unsettled = {}
      BY <2>5, <2>7, <2>8
    <3>2. JobSound(j)
      BY <1>3, <2>5, <2>6, <3>1 DEF JobSound, Sending, TryStages, Handling
    <3> QED
      BY <1>1, <1>2, <2>3, <3>2, Moved
  <2>9. CASE Pending # <<>>
    <3>1. j.at = "send"
      BY <2>5, <2>9
    <3>2. SendSound(j)
      BY <2>5, <2>7, <2>9, <3>1 DEF SendSound
    <3>3. JobSound(j)
      BY <1>3, <2>5, <2>6, <3>1, <3>2 DEF JobSound, Sending, TryStages, Handling
    <3> QED
      BY <1>1, <1>2, <2>3, <3>3, Moved
  <2> QED
    BY <2>8, <2>9
<1> QED
  BY <1>4, <1>5

LEMMA DeriveStep ==
  ASSUME EngineInv, Derive PROVE EngineInv'
<1>1. PICK j : j = job
  OBVIOUS
<1>2. j # NoJob /\ j.at = "observe" /\ JobSound(j)
  BY <1>1 DEF Derive, At, EngineInv
<1>3. PICK i : i = [j EXCEPT !.open = Derived(j.read), !.at = "open"]
  OBVIOUS
<1>4. job' = i /\ UNCHANGED <<stream, records, turns, failing, repeated, torn, known, missed, chain>>
  BY <1>1, <1>3 DEF Derive, durable, history
<1>5. /\ DOMAIN i = JobFields /\ i.at = "open" /\ i.act = j.act /\ i.read = j.read
      /\ i.open = Derived(j.read)
  BY <1>2, <1>3 DEF JobSound, JobFields
<1>6. OpenSound(i.open)
  BY <1>2, <1>5, DerivedIsSound DEF JobSound, Within
<1>7. JobSound(i)
  BY <1>2, <1>5, <1>6 DEF JobSound, Sending, TryStages, Handling
<1>8. SwitchesSound'
  BY <1>4 DEF EngineInv, SwitchesSound
<1> QED
  BY <1>4, <1>7, <1>8, Moved

\* The activations to try are each listed once.
LEMMA AllOpenStep ==
  ASSUME EngineInv, AllOpen PROVE EngineInv'
<1>1. PICK j : j = job
  OBVIOUS
<1>2. j # NoJob /\ j.at = "open" /\ JobSound(j)
  BY <1>1 DEF AllOpen, At, EngineInv
<1>3. PICK S : S = ToTry
  OBVIOUS
<1>4. PICK left : left = [i \in DOMAIN InOrder(S) |-> records[InOrder(S)[i]].act]
  OBVIOUS
<1>5. PICK i : i = [j EXCEPT !.at = "pick", !.left = left]
  OBVIOUS
<1>6. job' = i /\ UNCHANGED <<stream, records, turns, failing, repeated, torn, known, missed, chain>>
  BY <1>1, <1>3, <1>4, <1>5 DEF AllOpen, durable, history
<1>7. /\ DOMAIN i = JobFields /\ i.at = "pick" /\ i.act = j.act /\ i.read = j.read
      /\ i.left = left
  BY <1>2, <1>5 DEF JobSound, JobFields
<1>8. Len(records) \in Nat /\ S \in SUBSET (1..Len(records))
  BY <1>3, ListedFacts DEF ToTry, Of, RecordsSound, EngineInv
<1>9. PICK c \in Nat :
        /\ DOMAIN InOrder(S) = 1..c
        /\ c = 0 <=> S = {}
        /\ \A n \in 1..c : InOrder(S)[n] \in S
        /\ \A n, m \in 1..c : InOrder(S)[n] = InOrder(S)[m] => n = m
        /\ \A k \in S : \E n \in 1..c : InOrder(S)[n] = k
  <2>1. PICK k \in Nat : S \in SUBSET (1..k)
    BY <1>8
  <2> QED
    BY <2>1, InOrderLists
<1>10. \A n \in S : /\ n \in Of("opened") /\ records[n].act \in Opened \ Done
                    /\ records[n].act \notin failing \ repeated
  BY <1>3 DEF ToTry, Opened, EngineInv, FailingSound
<1>11. Opened \subseteq ActivationIds /\ None \notin Opened
       /\ (\A n, m \in Of("opened") : records[n].act = records[m].act => n = m)
  BY NoneAssumption DEF EngineInv, RecordsSound
<1>12. left \in Seq(ActivationIds) /\ DOMAIN left = 1..c
       /\ (\A n \in 1..c : left[n] = records[InOrder(S)[n]].act)
  BY <1>4, <1>9, <1>10, <1>11
<1>13. j.act = None /\ Unsettled = {}
  BY <1>2 DEF JobSound
<1>14. \A n, m \in 1..c : left[n] = left[m] => n = m
  BY <1>9, <1>10, <1>11, <1>12
<1>15. \A n \in 1..c : left[n] \in Opened \ Done /\ left[n] # None /\ left[n] \notin failing \ repeated
  BY <1>9, <1>10, <1>11, <1>12
<1>16. LeftSound(i)
  BY <1>7, <1>12, <1>13, <1>14, <1>15 DEF LeftSound
<1>17. JobSound(i)
  BY <1>2, <1>7, <1>13, <1>16 DEF JobSound, Sending, TryStages, Handling
<1>18. SwitchesSound'
  BY <1>6 DEF EngineInv, SwitchesSound
<1> QED
  BY <1>6, <1>17, <1>18, Moved

LEMMA FinishStep ==
  ASSUME EngineInv, Finish PROVE EngineInv'
<1>1. SwitchesSound'
  BY DEF EngineInv, SwitchesSound, Finish, Ended, durable
<1> QED
  BY <1>1, Waits DEF Finish, Ended, durable, history

\* What a declared reaction asks for.
LEMMA DeclaredPlans ==
  ASSUME NEW s \in Subscriptions, s \notin Handlers, NEW o \in Outcomes[s]
  PROVE  o.actions \in Seq(Ops)
<1>1. \A i \in DOMAIN o.actions : o.actions[i].role \in Roles
  BY DefinitionAssumption DEF ValidDefinition
<1>2. o.actions \in Seq({o.actions[i] : i \in DOMAIN o.actions})
  BY EngineAssumption
<1>3. \A i \in DOMAIN o.actions : o.actions[i] \in Ops
  BY <1>1 DEF Ops, Elements
<1> QED
  BY <1>2, <1>3

\* What code may ask for.
LEMMA AskedPlans ==
  ASSUME NEW s \in Handlers, NEW actions, Asks(actions) \in Outcomes[s],
         Message(s, Asks(actions)) = None
  PROVE  actions \in Seq(Ops)
<1>1. PICK o \in Outcomes[s] : o = Asks(actions)
  OBVIOUS
<1>2. o.actions = actions /\ o.message = None
  BY <1>1 DEF Asks
<1>3. s \in Subscriptions /\ Emits[s] \subseteq Roles
  BY EngineAssumption
<1>4. actions \in Seq(Elements(actions))
  <2>1. o.actions \in Seq(Elements(o.actions))
    BY <1>3, EngineAssumption DEF Elements
  <2> QED
    BY <1>2, <2>1
<1>5. ASSUME ~Declared(s, actions) PROVE FALSE
  <2>1. Message(s, o) = "undeclared"
    BY <1>2, <1>5 DEF Message
  <2>2. None = "undeclared"
    BY <1>1, <2>1
  <2> QED
    BY <2>2, NoneAssumption DEF Messages
<1>6. \A i \in DOMAIN actions : actions[i].role \in Roles
  BY <1>3, <1>5 DEF Declared
<1>7. ASSUME NEW i \in DOMAIN actions PROVE actions[i] \in Ops
  <2>1. actions[i] \in Elements(o.actions)
    BY <1>2 DEF Elements
  <2>2. o \in UNION {Outcomes[t] : t \in Subscriptions}
    BY <1>3
  <2> QED
    BY <1>6, <2>1, <2>2 DEF Ops
<1> QED
  BY <1>4, <1>7 DEF Elements

LEMMA TryStep ==
  ASSUME EngineInv, Try PROVE EngineInv'
<1>1. PICK j : j = job
  OBVIOUS
<1>2. j # NoJob /\ j.at = "pick" /\ j.left # <<>> /\ JobSound(j)
  BY <1>1 DEF Try, At, EngineInv
<1>3. PICK a : a = Head(j.left)
  OBVIOUS
<1>4. LeftSound(j) /\ j.act = None /\ DOMAIN j = JobFields /\ Within(j.read) /\ records # <<>>
  BY <1>2 DEF JobSound
<1>5. /\ a = j.left[1] /\ Tail(j.left) \in Seq(ActivationIds)
      /\ 1 \in DOMAIN j.left /\ a \in ActivationIds
      /\ \A i \in DOMAIN Tail(j.left) :
           i + 1 \in DOMAIN j.left /\ Tail(j.left)[i] = j.left[i + 1] /\ i + 1 # 1
      /\ \A i, k \in DOMAIN Tail(j.left) : i + 1 = k + 1 => i = k
  <2>1. j.left \in Seq(ActivationIds) /\ j.left # <<>>
    BY <1>2, <1>4 DEF LeftSound
  <2> QED
    BY <1>3, <2>1, Shortened
<1>6. /\ a \in Opened \ Done /\ a \notin failing \ repeated
      /\ \A o \in Unsettled : o.act # a
  BY <1>4, <1>5 DEF LeftSound
<1>7. PICK stage, plan :
        /\ job' = [j EXCEPT !.left = Tail(@), !.act = a, !.at = stage, !.plan = plan]
        /\ \/ stage = "invoke" /\ a.sub \in Handlers
           \/ stage = "act" /\ plan \in Seq(Ops)
  <2>1. CASE a.sub \in Handlers
    <3>1. Tries(a, "invoke", <<>>)
      BY <1>1, <1>3, <2>1 DEF Try
    <3> QED
      BY <1>1, <2>1, <3>1 DEF Tries
  <2>2. CASE a.sub \notin Handlers
    <3>1. PICK outcome \in Outcomes[a.sub] : Tries(a, "act", outcome.actions)
      BY <1>1, <1>3, <2>2 DEF Try
    <3>2. outcome.actions \in Seq(Ops)
      BY <1>5, <2>2, DeclaredPlans DEF ActivationIds
    <3> QED
      BY <1>1, <3>1, <3>2 DEF Tries
  <2> QED
    BY <2>1, <2>2
<1>8. PICK i : i = [j EXCEPT !.left = Tail(@), !.act = a, !.at = stage, !.plan = plan]
  OBVIOUS
<1>9. /\ DOMAIN i = JobFields /\ i.left = Tail(j.left) /\ i.act = a /\ i.at = stage
      /\ i.plan = plan /\ i.read = j.read
  BY <1>4, <1>8 DEF JobFields
<1>10. job' = i /\ UNCHANGED <<stream, records, turns, failing, repeated, torn, known, missed, chain>>
  BY <1>7, <1>8 DEF Try, durable, history
<1>11. LeftSound(i)
  <2>1. \A n, k \in DOMAIN i.left : i.left[n] = i.left[k] => n = k
    BY <1>4, <1>5, <1>9 DEF LeftSound
  <2>2. \A n \in DOMAIN i.left :
          /\ i.left[n] \in Opened \ Done /\ i.left[n] # i.act
          /\ i.left[n] \notin failing \ repeated
          /\ \A o \in Unsettled : o.act # i.left[n]
    BY <1>4, <1>5, <1>9 DEF LeftSound
  <2> QED
    BY <1>5, <1>9, <2>1, <2>2 DEF LeftSound
<1>12. TrySound(i)
  BY <1>6, <1>7, <1>9, <1>11 DEF TrySound, Handling, Sending
<1>13. JobSound(i)
  BY <1>4, <1>7, <1>9, <1>12 DEF JobSound, Sending, TryStages, Handling
<1>14. SwitchesSound'
  BY <1>10 DEF EngineInv, SwitchesSound
<1> QED
  BY <1>10, <1>13, <1>14, Moved

\* Steps within a try that leave the activation and what is left to try.
LEMMA Tried ==
  ASSUME EngineInv, UNCHANGED <<stream, records, turns, failing, repeated>>, SwitchesSound',
         NEW j, j = job, j # NoJob, j.at \in TryStages, NEW i, job' = i,
         DOMAIN i = JobFields, i.left = j.left, i.act = j.act, i.read = j.read,
         i.at \in TryStages, i.at = "invoke" => j.at = "invoke",
         i.at \in Handling => j.at \in Handling,
         i.at = "act" => j.at \in Handling \cup {"act"} /\ i.plan \in Seq(Ops)
  PROVE  EngineInv'
<1>1. JobSound(j) /\ TrySound(j)
  BY DEF EngineInv, JobSound
<1>2. LeftSound(i)
  BY <1>1 DEF TrySound, LeftSound
<1>3. i.at \notin Sending
  BY DEF Sending, TryStages, Handling
<1>4. TrySound(i)
  BY <1>1, <1>2, <1>3 DEF TrySound, Handling
<1>5. JobSound(i)
  BY <1>1, <1>3, <1>4 DEF JobSound, Sending, TryStages, Handling
<1> QED
  BY <1>5, Moved

LEMMA RunFailsStep ==
  ASSUME EngineInv, NEW message \in Messages, RunFails(message) PROVE EngineInv'
<1>1. PICK j : j = job
  OBVIOUS
<1>2. j # NoJob /\ j.at = "run" /\ DOMAIN j = JobFields
  BY <1>1 DEF RunFails, At, EngineInv, JobSound
<1>3. PICK i : i = [j EXCEPT !.at = "fail", !.message = message]
  OBVIOUS
<1>4. /\ DOMAIN i = JobFields /\ i.left = j.left /\ i.act = j.act /\ i.read = j.read
      /\ i.at = "fail"
  BY <1>2, <1>3 DEF JobFields
<1>5. job' = i /\ UNCHANGED <<stream, records, turns, failing, repeated>> /\ SwitchesSound'
  BY <1>1, <1>3 DEF RunFails, durable, history, SwitchesSound, EngineInv
<1> QED
  BY <1>1, <1>2, <1>4, <1>5, Tried DEF TryStages, Handling

LEMMA RunAsksStep ==
  ASSUME EngineInv, NEW actions \in Plans, RunAsks(actions) PROVE EngineInv'
<1>1. PICK j : j = job
  OBVIOUS
<1>2. j # NoJob /\ j.at = "run" /\ DOMAIN j = JobFields /\ TrySound(j)
  BY <1>1 DEF RunAsks, At, EngineInv, JobSound, TryStages, Handling
<1>3. actions \in Seq(Ops)
  <2>1. j.act.sub \in Handlers
    BY <1>2 DEF TrySound, Handling
  <2>2. PICK s \in Handlers : s = j.act.sub
    BY <2>1
  <2>3. Asks(actions) \in Outcomes[s] /\ Message(s, Asks(actions)) = None
    BY <1>1, <2>2 DEF RunAsks
  <2> QED
    BY <2>3, AskedPlans
<1>4. PICK i : i = [j EXCEPT !.at = "act", !.plan = actions]
  OBVIOUS
<1>5. /\ DOMAIN i = JobFields /\ i.left = j.left /\ i.act = j.act /\ i.read = j.read
      /\ i.at = "act" /\ i.plan = actions
  BY <1>2, <1>4 DEF JobFields
<1>6. job' = i /\ UNCHANGED <<stream, records, turns, failing, repeated>> /\ SwitchesSound'
  BY <1>1, <1>4 DEF RunAsks, durable, history, SwitchesSound, EngineInv
<1> QED
  BY <1>1, <1>2, <1>3, <1>5, <1>6, Tried DEF TryStages, Handling

LEMMA ActSettledStep ==
  ASSUME EngineInv, ActSettled PROVE EngineInv'
<1>1. PICK j : j = job
  OBVIOUS
<1>2. j # NoJob /\ j.at = "act" /\ j.plan # <<>> /\ DOMAIN j = JobFields /\ TrySound(j)
  BY <1>1 DEF ActSettled, Acts, At, EngineInv, JobSound, TryStages, Handling
<1>3. Tail(j.plan) \in Seq(Ops)
  BY <1>2, Shortened DEF TrySound
<1>4. PICK i : i = [j EXCEPT !.plan = Tail(@), !.at = "act", !.ops = <<>>]
  OBVIOUS
<1>5. /\ DOMAIN i = JobFields /\ i.left = j.left /\ i.act = j.act /\ i.read = j.read
      /\ i.at = "act" /\ i.plan = Tail(j.plan)
  BY <1>2, <1>4 DEF JobFields
<1>6. job' = i /\ UNCHANGED <<stream, records, turns, failing, repeated>> /\ SwitchesSound'
  BY <1>1, <1>4 DEF ActSettled, Advance, durable, history, SwitchesSound, EngineInv
<1> QED
  BY <1>1, <1>2, <1>3, <1>5, <1>6, Tried DEF TryStages, Handling

LEMMA ErrStep ==
  ASSUME EngineInv, Err PROVE EngineInv'
<1>1. PICK j : j = job
  OBVIOUS
<1>2. j # NoJob /\ j.at \in Sending /\ JobSound(j) /\ SendSound(j)
  BY <1>1 DEF Err, At, EngineInv, JobSound, Sending
<1>3. UNCHANGED <<stream, records, turns, failing, repeated>>
  BY DEF Err, durable, history
<1>4. CASE j.act # None
  <2>1. PICK i : i = [j EXCEPT !.at = "fail", !.message = "io", !.ops = <<>>]
    OBVIOUS
  <2>2. job' = i /\ UNCHANGED <<torn, known, missed, chain>>
    BY <1>1, <1>4, <2>1 DEF Err, Trying, durable
  <2>3. /\ DOMAIN i = JobFields /\ i.left = j.left /\ i.act = j.act /\ i.read = j.read
        /\ i.at = "fail"
    BY <1>2, <2>1 DEF JobFields, JobSound
  <2>4. TrySound(j)
    BY <1>2, <1>4 DEF SendSound
  <2>5. LeftSound(i)
    BY <2>3, <2>4 DEF TrySound, LeftSound
  <2>6. TrySound(i)
    BY <2>3, <2>4, <2>5 DEF TrySound, Handling, Sending
  <2>7. JobSound(i)
    BY <1>2, <2>3, <2>6 DEF JobSound, Sending, TryStages, Handling
  <2>8. SwitchesSound'
    BY <2>2 DEF EngineInv, SwitchesSound
  <2> QED
    BY <1>3, <2>2, <2>7, <2>8, Moved
<1>5. CASE j.act = None
  <2>1. job' = NoJob /\ SwitchesSound'
    BY <1>1, <1>5 DEF Err, Trying, EngineInv, SwitchesSound, durable
  <2> QED
    BY <1>3, <2>1, Waits
<1> QED
  BY <1>4, <1>5

-----------------------------------------------------------------------------
(***************************************************************************)
(* The world, and operations that are carried out and settled.              *)
(***************************************************************************)
LEMMA RegisterStep ==
  ASSUME EngineInv, Register \/ RegisterAgain PROVE EngineInv'
<1>1. "register" \in ChainKinds
  BY DEF ChainKinds
<1>2. <<"register">> \in Seq(ChainKinds)
  BY <1>1
<1>3. SwitchesSound'
  BY <1>2 DEF Register, RegisterAgain, EngineInv, SwitchesSound, durable
<1> QED
  BY <1>3, Waits DEF Register, RegisterAgain, durable, history

LEMMA SwitchStep ==
  ASSUME EngineInv, NEW kind \in Switches, Switch(kind) PROVE EngineInv'
<1>1. SwitchesSound'
  BY Queueing DEF Switch, EngineInv, SwitchesSound, durable, ChainKinds
<1> QED
  BY <1>1, Waits DEF Switch, durable, history

LEMMA CrashStep ==
  ASSUME EngineInv, Crash PROVE EngineInv'
<1>1. "reconcile" \in ChainKinds
  BY DEF ChainKinds
<1>2. <<"reconcile">> \in Seq(ChainKinds) /\ <<>> \in Seq(ChainKinds)
  BY <1>1
<1>3. torn' \in BOOLEAN /\ known' \in BOOLEAN
  BY DEF Crash, EngineInv, SwitchesSound
<1>4. SwitchesSound'
  BY <1>2, <1>3 DEF Crash, EngineInv, SwitchesSound
<1> QED
  BY <1>4, Waits DEF Crash, history

LEMMA Affected ==
  ASSUME EngineInv, StreamsSound', EffectsGrow, UNCHANGED <<records, failing, repeated>>,
         SwitchesSound', NEW j, job' = j, j # NoJob => JobSound(j)'
  PROVE  EngineInv'
<1>1. /\ RecordsSound' /\ BoundarySound'
      /\ SettledHappened' /\ DoneSettled' /\ FailingSound'
  BY JobGrows
<1>2. (\A i \in {job} \ {NoJob} : JobSound(i))'
  OBVIOUS
<1> QED
  BY <1>1, <1>2 DEF EngineInv

LEMMA HappenStep ==
  ASSUME EngineInv, NEW r \in Roles, NEW name \in Names, NEW key \in Keys,
         Happen(r, name, key)
  PROVE  EngineInv'
<1>1. PICK e : e = [name |-> name, key |-> key, by |-> None]
  OBVIOUS
<1>2. e \in StreamEvents /\ e.by = None
  BY <1>1 DEF StreamEvents
<1>3. Appended(r, e) /\ UNCHANGED <<records, torn, turns, known, job, failing, repeated>>
  BY <1>1 DEF Happen, history
<1>4. StreamsSound' /\ EffectsGrow
  BY <1>2, <1>3, EventAdded DEF Appended, EngineInv
<1>5. SwitchesSound'
  <2>1. chain' \in Seq(ChainKinds) /\ missed' \in BOOLEAN
    BY <1>3, Queueing DEF Appended, EngineInv, SwitchesSound
  <2> QED
    BY <1>3, <2>1 DEF EngineInv, SwitchesSound
<1>6. PICK j : j = job
  OBVIOUS
<1>7. j # NoJob => JobSound(j)'
  <2>1. j # NoJob => JobSound(j)
    BY <1>6 DEF EngineInv
  <2> QED
    BY <1>3, <1>4, <2>1, JobGrows
<1> QED
  BY <1>3, <1>4, <1>5, <1>6, <1>7, Affected

LEMMA SendStep ==
  ASSUME EngineInv, Send PROVE EngineInv'
<1>1. PICK j : j = job
  OBVIOUS
<1>2. j # NoJob /\ j.at = "send" /\ JobSound(j) /\ SendSound(j)
  BY <1>1 DEF Send, At, EngineInv, JobSound, Sending
<1>3. PICK o : o = Head(j.ops)
  OBVIOUS
<1>4. o = j.ops[1] /\ o \in RecordedOps
  BY <1>2, <1>3, Shortened DEF SendSound
<1>5. CarryOut(o) /\ UNCHANGED <<records, torn, known, failing, repeated>>
  BY <1>1, <1>3 DEF Send, history
<1>6. /\ StreamsSound' /\ EffectsGrow /\ Happened(o)'
      /\ chain' \in Seq(ChainKinds) /\ missed' \in BOOLEAN
  BY <1>4, <1>5, CarriedOut
<1>7. SwitchesSound'
  BY <1>5, <1>6 DEF EngineInv, SwitchesSound
<1>8. JobSound(j)'
  BY <1>2, <1>5, <1>6, JobGrows
<1>9. PICK i : i = [j EXCEPT !.at = "settle"]
  OBVIOUS
<1>10. /\ DOMAIN i = JobFields /\ i.at = "settle" /\ i.act = j.act /\ i.read = j.read
       /\ i.left = j.left /\ i.ops = j.ops /\ i.plan = j.plan
  BY <1>2, <1>9 DEF JobFields, JobSound
<1>11. job' = i
  BY <1>1, <1>9 DEF Send, Goes
<1>12. SendSound(j)'
  BY <1>2, <1>8 DEF JobSound, Sending
<1>13. TrySound(j)' => TrySound(i)'
  BY <1>2, <1>10 DEF TrySound, LeftSound, Handling, Sending
<1>14. i.ops[1] = o
  BY <1>4, <1>10
<1>15. SendSound(i)'
  BY <1>6, <1>10, <1>12, <1>13, <1>14 DEF SendSound
<1>16. JobSound(i)'
  BY <1>2, <1>8, <1>10, <1>15 DEF JobSound, Sending, TryStages, Handling
<1> QED
  BY <1>5, <1>6, <1>7, <1>11, <1>16, Affected

-----------------------------------------------------------------------------
(***************************************************************************)
(* Steps that write a record.                                               *)
(***************************************************************************)
LEMMA OpsApart ==
  ASSUME RecordsSound
  PROVE  /\ \A o, p \in RecordedOps : Identity(o) = Identity(p) => o = p
         /\ \A o \in RecordedOps : Identity(o) \in Recorded
         /\ \A id \in Recorded : \E o \in RecordedOps : Identity(o) = id
         /\ Settled \subseteq Recorded
<1>1. \A o \in RecordedOps : \E n \in Of("recorded") : o = Operation(n)
  BY DEF RecordedOps
<1>2. \A n, m \in Of("recorded") : Identity(Operation(n)) = Identity(Operation(m)) => n = m
  BY DEF RecordsSound
<1>3. ASSUME NEW id \in Settled PROVE id \in Recorded
  <2>1. PICK n \in Of("settled") : id = <<records[n].act, records[n].key>>
    BY DEF Settled
  <2>2. \E m \in Of("recorded") : Identity(Operation(m)) = id
    BY <2>1 DEF RecordsSound
  <2> QED
    BY <2>2 DEF Recorded
<1> QED
  BY <1>1, <1>2, <1>3 DEF RecordedOps, Recorded

LEMMA UnchangedEffects ==
  ASSUME UNCHANGED <<stream, turns>>
  PROVE  /\ \A o : Happened(o)' <=> Happened(o)
         /\ \A read : Within(read)' <=> Within(read)
         /\ StreamsSound /\ RecordedOps \subseteq RecordedOps' => StreamsSound'
<1>1. \A o : Happened(o)' <=> Happened(o)
  BY DEF Happened, Target, Identity
<1>2. \A read : Within(read)' <=> Within(read)
  BY DEF Within
<1>3. ASSUME StreamsSound, RecordedOps \subseteq RecordedOps' PROVE StreamsSound'
  <2>1. stream' = stream
    OBVIOUS
  <2>2. ASSUME NEW r \in Roles, NEW n \in DOMAIN stream[Bindings[r]],
               stream[Bindings[r]][n].by # None
        PROVE  \E o \in RecordedOps' : Event(o) = stream[Bindings[r]][n] /\ o.op.role = r
    <3>1. \E o \in RecordedOps : Event(o) = stream[Bindings[r]][n] /\ o.op.role = r
      BY <1>3, <2>2 DEF StreamsSound
    <3> QED
      BY <1>3, <3>1
  <2> QED
    BY <1>3, <2>1, <2>2 DEF StreamsSound
<1> QED
  BY <1>1, <1>2, <1>3

LEMMA BoundaryStays ==
  ASSUME BoundarySound, Of("registered")' = Of("registered"),
         \A n \in Of("registered") : records'[n] = records[n],
         \A read : Within(read)' <=> Within(read)
  PROVE  BoundarySound'
<1>1. ASSUME NEW n \in Of("registered")' PROVE Within(records[n].boundary)'
  <2>1. PICK b : b = records'[n].boundary
    OBVIOUS
  <2>2. Within(b)
    BY <2>1 DEF BoundarySound
  <2>3. Within(b)'
    BY <2>2
  <2> QED
    BY <2>1, <2>3 DEF Within
<1> QED
  BY <1>1 DEF BoundarySound

\* Records of an activation rather than of an operation.
LEMMA Noted ==
  ASSUME EngineInv, NEW rec, Write(rec), Permitted(rec), UNCHANGED <<stream, turns>>,
         rec.kind \in {"opened", "invoked", "done", "failed"}
  PROVE  /\ RecordsSound' /\ StreamsSound' /\ BoundarySound' /\ SettledHappened'
         /\ records' # <<>>
         /\ Opened' = Opened \cup (IF rec.kind = "opened" THEN {rec.act} ELSE {})
         /\ Done' = Done \cup (IF rec.kind = "done" THEN {rec.act} ELSE {})
         /\ RecordedOps' = RecordedOps /\ Settled' = Settled /\ Unsettled' = Unsettled
         /\ (rec.kind = "done" => \A o \in Unsettled : o.act # rec.act) => DoneSettled'
         /\ \A read : Within(read)' <=> Within(read)
         /\ \A a : FailureNeedsRetry(a) => FailureNeedsRetry(a)'
<1>1. RecordsSound
  BY DEF EngineInv
<1>2. /\ RecordsSound' /\ records' # <<>>
      /\ Opened' = Opened \cup (IF rec.kind = "opened" THEN {rec.act} ELSE {})
      /\ Done' = Done \cup (IF rec.kind = "done" THEN {rec.act} ELSE {})
      /\ RecordedOps' = RecordedOps /\ Settled' = Settled
      /\ \A a : FailureNeedsRetry(a) => FailureNeedsRetry(a)'
      /\ Of("registered")' = Of("registered")
      /\ \A n \in Of("registered") : records'[n] = records[n]
  BY <1>1, Written
<1>3. Unsettled' = Unsettled
  BY <1>2 DEF Unsettled, Identity
<1>4. \A read : Within(read)' <=> Within(read)
  BY UnchangedEffects
<1>5. StreamsSound'
  BY <1>2, UnchangedEffects DEF EngineInv
<1>6. SettledHappened'
  BY <1>2, UnchangedEffects DEF EngineInv, SettledHappened, Identity
<1>7. BoundarySound'
  BY <1>2, <1>4, BoundaryStays DEF EngineInv
<1>8. ASSUME rec.kind = "done" => \A o \in Unsettled : o.act # rec.act PROVE DoneSettled'
  BY <1>2, <1>8 DEF EngineInv, DoneSettled, Unsettled, Identity
<1> QED
  BY <1>2, <1>3, <1>4, <1>5, <1>6, <1>7, <1>8

LEMMA OpenStep ==
  ASSUME EngineInv, Open PROVE EngineInv'
<1>1. PICK j : j = job
  OBVIOUS
<1>2. j # NoJob /\ j.at = "open" /\ j.open # {} /\ JobSound(j)
  BY <1>1 DEF Open, At, EngineInv
<1>3. PICK rec : rec = FirstOf(j.open)
  OBVIOUS
<1>4. rec \in j.open
  BY <1>2, <1>3 DEF FirstOf
<1>5. OpenSound(j.open) /\ j.act = None /\ Unsettled = {} /\ DOMAIN j = JobFields
      /\ Within(j.read) /\ records # <<>>
  BY <1>2 DEF JobSound
<1>6. rec.kind = "opened" /\ rec.act \in ActivationIds \ Opened
  BY <1>4, <1>5 DEF OpenSound
<1>7. Permitted(rec)
  BY <1>5, <1>6 DEF Permitted, RecordKinds
<1>8. Write(rec) /\ UNCHANGED <<stream, turns, torn, known, chain, failing, repeated, missed>>
  BY <1>1, <1>3 DEF Open, history
<1>9. /\ RecordsSound' /\ StreamsSound' /\ BoundarySound' /\ SettledHappened' /\ DoneSettled'
      /\ records' # <<>> /\ Opened' = Opened \cup {rec.act} /\ Unsettled' = Unsettled
      /\ \A read : Within(read)' <=> Within(read)
      /\ \A a : FailureNeedsRetry(a) => FailureNeedsRetry(a)'
  BY <1>6, <1>7, <1>8, Noted
<1>10. PICK i : i = [j EXCEPT !.open = @ \ {rec}]
  OBVIOUS
<1>11. /\ DOMAIN i = JobFields /\ i.at = "open" /\ i.act = None /\ i.read = j.read
       /\ i.open = j.open \ {rec}
  BY <1>2, <1>5, <1>10 DEF JobFields
<1>12. job' = i
  BY <1>1, <1>3, <1>10 DEF Open
<1>13. OpenSound(i.open)'
  BY <1>4, <1>5, <1>9, <1>11 DEF OpenSound
<1>14. JobSound(i)'
  BY <1>5, <1>9, <1>11, <1>13 DEF JobSound, Sending, TryStages, Handling
<1>15. FailingSound' /\ SwitchesSound'
  BY <1>8, <1>9 DEF EngineInv, FailingSound, SwitchesSound
<1> QED
  BY <1>9, <1>12, <1>14, <1>15 DEF EngineInv

\* What is left to try stays so when failures and records of others come in.
LEMMA LeftStays ==
  ASSUME NEW j, LeftSound(j), NEW i, i.left = j.left,
         \A n \in DOMAIN j.left : j.left[n] # i.act,
         \A n \in DOMAIN j.left : j.left[n] \in Opened' \ Done',
         \A n \in DOMAIN j.left : j.left[n] \notin failing' \ repeated',
         \A n \in DOMAIN j.left : \A o \in Unsettled' : o.act # j.left[n]
  PROVE  LeftSound(i)'
BY DEF LeftSound

LEMMA InvokeStep ==
  ASSUME EngineInv, Invoke PROVE EngineInv'
<1>1. PICK j : j = job
  OBVIOUS
<1>2. j # NoJob /\ j.at = "invoke" /\ JobSound(j) /\ TrySound(j)
  BY <1>1 DEF Invoke, At, EngineInv, JobSound, TryStages, Handling
<1>3. PICK rec : rec = [kind |-> "invoked", act |-> j.act,
                        nth |-> Cardinality(Invoked(j.act)) + 1]
  OBVIOUS
<1>4. rec.kind = "invoked" /\ rec.act = j.act
  BY <1>3
<1>5. LeftSound(j) /\ j.act \in Opened \ Done /\ DOMAIN j = JobFields
      /\ Within(j.read) /\ records # <<>>
  BY <1>2 DEF JobSound, TrySound
<1>6. Permitted(rec)
  BY <1>4, <1>5 DEF Permitted, RecordKinds
<1>7. Write(rec) /\ UNCHANGED <<stream, turns, torn, known, chain, failing, repeated, missed>>
  BY <1>1, <1>3 DEF Invoke, history
<1>8. /\ RecordsSound' /\ StreamsSound' /\ BoundarySound' /\ SettledHappened' /\ DoneSettled'
      /\ records' # <<>> /\ Opened' = Opened /\ Done' = Done /\ Unsettled' = Unsettled
      /\ \A read : Within(read)' <=> Within(read)
      /\ \A a : FailureNeedsRetry(a) => FailureNeedsRetry(a)'
  BY <1>4, <1>6, <1>7, Noted
<1>9. PICK i : i = [j EXCEPT !.at = "run"]
  OBVIOUS
<1>10. /\ DOMAIN i = JobFields /\ i.at = "run" /\ i.act = j.act /\ i.read = j.read
       /\ i.left = j.left
  BY <1>5, <1>9 DEF JobFields
<1>11. job' = i
  BY <1>1, <1>9 DEF Invoke, Goes
<1>12. LeftSound(i)'
  BY <1>5, <1>7, <1>8, <1>10, LeftStays DEF LeftSound
<1>13. TrySound(i)'
  BY <1>2, <1>8, <1>10, <1>12 DEF TrySound, Handling, Sending
<1>14. JobSound(i)'
  BY <1>5, <1>8, <1>10, <1>13 DEF JobSound, Sending, TryStages, Handling
<1>15. FailingSound' /\ SwitchesSound'
  BY <1>7, <1>8 DEF EngineInv, FailingSound, SwitchesSound
<1> QED
  BY <1>8, <1>11, <1>14, <1>15 DEF EngineInv

LEMMA SettleActivationStep ==
  ASSUME EngineInv, SettleActivation PROVE EngineInv'
<1>1. PICK j : j = job
  OBVIOUS
<1>2. j # NoJob /\ j.at = "act" /\ JobSound(j) /\ TrySound(j)
  BY <1>1 DEF SettleActivation, At, EngineInv, JobSound, TryStages, Handling
<1>3. PICK rec : rec = [kind |-> "done", act |-> j.act]
  OBVIOUS
<1>4. rec.kind = "done" /\ rec.act = j.act
  BY <1>3
<1>5. LeftSound(j) /\ j.act \in Opened \ Done /\ DOMAIN j = JobFields
      /\ Within(j.read) /\ records # <<>> /\ \A o \in Unsettled : o.act # j.act
  BY <1>2 DEF JobSound, TrySound
<1>6. Permitted(rec)
  BY <1>4, <1>5 DEF Permitted, RecordKinds
<1>7. /\ Write(rec) /\ UNCHANGED <<stream, turns, torn, known, chain, repeated, missed>>
      /\ failing' = failing \ {j.act}
  BY <1>1, <1>3 DEF SettleActivation, EndTry
<1>7a. rec.kind = "done" => \A o \in Unsettled : o.act # rec.act
  BY <1>4, <1>5
<1>7b. Opened' = Opened \cup (IF rec.kind = "opened" THEN {rec.act} ELSE {})
  BY <1>4, <1>6, <1>7, Noted
<1>8. /\ RecordsSound' /\ StreamsSound' /\ BoundarySound' /\ SettledHappened' /\ DoneSettled'
      /\ records' # <<>> /\ Opened' = Opened /\ Done' = Done \cup {j.act}
      /\ Unsettled' = Unsettled
      /\ \A read : Within(read)' <=> Within(read)
      /\ \A a : FailureNeedsRetry(a) => FailureNeedsRetry(a)'
  BY <1>4, <1>6, <1>7, <1>7a, <1>7b, Noted
<1>9. PICK i : i = [j EXCEPT !.at = "pick", !.act = None, !.message = None]
  OBVIOUS
<1>10. /\ DOMAIN i = JobFields /\ i.at = "pick" /\ i.act = None /\ i.read = j.read
       /\ i.left = j.left
  BY <1>5, <1>9 DEF JobFields
<1>11. job' = i
  BY <1>1, <1>9 DEF SettleActivation, EndTry
<1>12. None \notin Opened
  BY NoneAssumption DEF EngineInv, RecordsSound
<1>13. LeftSound(i)'
  BY <1>5, <1>7, <1>8, <1>10, <1>12, LeftStays DEF LeftSound
<1>14. JobSound(i)'
  BY <1>5, <1>8, <1>10, <1>13 DEF JobSound, Sending, TryStages, Handling
<1>15. FailingSound' /\ SwitchesSound'
  BY <1>7, <1>8 DEF EngineInv, FailingSound, SwitchesSound
<1> QED
  BY <1>8, <1>11, <1>14, <1>15 DEF EngineInv

LEMMA FailStep ==
  ASSUME EngineInv, Fail PROVE EngineInv'
<1>1. PICK j : j = job
  OBVIOUS
<1>2. j # NoJob /\ j.at = "fail" /\ JobSound(j) /\ TrySound(j)
  BY <1>1 DEF Fail, At, EngineInv, JobSound, TryStages, Handling
<1>3. PICK rec : rec = [kind |-> "failed", act |-> j.act, message |-> j.message]
  OBVIOUS
<1>4. rec.kind = "failed" /\ rec.act = j.act
  BY <1>3
<1>5. LeftSound(j) /\ j.act \in Opened \ Done /\ DOMAIN j = JobFields
      /\ Within(j.read) /\ records # <<>>
  BY <1>2 DEF JobSound, TrySound
<1>6. Permitted(rec)
  BY <1>4, <1>5 DEF Permitted, RecordKinds
<1>7. /\ Write(rec) /\ UNCHANGED <<stream, turns, torn, known, chain, missed>>
      /\ failing' = failing \cup {j.act}
      /\ repeated' = repeated \cup {a \in {j.act} : \E n \in Of("failed") : records[n] = rec}
  BY <1>1, <1>3 DEF Fail, EndTry
<1>8. /\ RecordsSound' /\ StreamsSound' /\ BoundarySound' /\ SettledHappened' /\ DoneSettled'
      /\ records' # <<>> /\ Opened' = Opened /\ Done' = Done /\ Unsettled' = Unsettled
      /\ \A read : Within(read)' <=> Within(read)
      /\ \A a : FailureNeedsRetry(a) => FailureNeedsRetry(a)'
  BY <1>4, <1>6, <1>7, Noted
<1>9. PICK i : i = [j EXCEPT !.at = "pick", !.act = None, !.message = None]
  OBVIOUS
<1>10. /\ DOMAIN i = JobFields /\ i.at = "pick" /\ i.act = None /\ i.read = j.read
       /\ i.left = j.left
  BY <1>5, <1>9 DEF JobFields
<1>11. job' = i
  BY <1>1, <1>9 DEF Fail, EndTry
<1>12. None \notin Opened
  BY NoneAssumption DEF EngineInv, RecordsSound
<1>13. LeftSound(i)'
  BY <1>5, <1>7, <1>8, <1>10, <1>12, LeftStays DEF LeftSound
<1>14. JobSound(i)'
  BY <1>5, <1>8, <1>10, <1>13 DEF JobSound, Sending, TryStages, Handling
<1>15. FailingSound'
  <2>1. FailureNeedsRetry(j.act)' \/ j.act \in repeated'
    <3>1. PICK a : a = j.act
      OBVIOUS
    <3>2. FailureNeedsRetry(a)' \/ \E n \in Of("failed") : records[n] = rec
      BY <1>4, <1>6, <1>7, <3>1, Written DEF EngineInv
    <3> QED
      BY <1>7, <3>1, <3>2
  <2>2. \A a \in failing \ repeated : FailureNeedsRetry(a)'
    BY <1>8 DEF EngineInv, FailingSound
  <2> QED
    BY <1>7, <2>1, <2>2 DEF FailingSound
<1>16. SwitchesSound'
  BY <1>7 DEF EngineInv, SwitchesSound
<1> QED
  BY <1>8, <1>11, <1>14, <1>15, <1>16 DEF EngineInv

LEMMA SettleStep ==
  ASSUME EngineInv, Settle PROVE EngineInv'
<1>1. PICK j : j = job
  OBVIOUS
<1>2. j # NoJob /\ j.at = "settle" /\ JobSound(j)
  BY <1>1 DEF Settle, At, EngineInv
<1>3. /\ SendSound(j) /\ DOMAIN j = JobFields /\ Within(j.read) /\ records # <<>>
  BY <1>2 DEF JobSound, Sending
<1>4. /\ j.ops # <<>> /\ j.ops \in Seq(Operations)
      /\ \A k \in DOMAIN j.ops : j.ops[k] \in RecordedOps
      /\ Happened(j.ops[1])
  BY <1>2, <1>3 DEF SendSound
<1>5. PICK o : o = j.ops[1]
  OBVIOUS
<1>6. /\ Len(j.ops) \in Nat /\ Len(j.ops) >= 1 /\ DOMAIN j.ops = 1..Len(j.ops)
      /\ Head(j.ops) = o /\ o \in RecordedOps
      /\ Tail(j.ops) \in Seq(Operations) /\ Len(Tail(j.ops)) = Len(j.ops) - 1
      /\ DOMAIN Tail(j.ops) = 1..(Len(j.ops) - 1)
      /\ \A k \in DOMAIN Tail(j.ops) : k + 1 \in DOMAIN j.ops /\ Tail(j.ops)[k] = j.ops[k + 1]
  BY <1>4, <1>5, Shortened
<1>6a. PICK length \in Nat : length = Len(j.ops) /\ length >= 1
  BY <1>6
<1>6b. (Len(j.ops) > 1 <=> length > 1) /\ (length > 1 \/ length = 1)
  <2>1. length \in Nat /\ length >= 1
    BY <1>6a
  <2>2. length > 1 \/ length = 1
    BY <2>1
  <2>3. Len(j.ops) = length
    BY <1>6a
  <2> QED
    BY <2>2, <2>3
<1>7. PICK rec : rec = [kind |-> "settled", act |-> o.act, key |-> o.op.key]
  OBVIOUS
<1>8. rec.kind = "settled" /\ <<rec.act, rec.key>> = Identity(o)
  BY <1>7 DEF Identity
<1>9. /\ \A p \in RecordedOps : Identity(p) = Identity(o) => p = o
      /\ Identity(o) \in Recorded
  BY <1>6, OpsApart DEF EngineInv
<1>10. Permitted(rec)
  BY <1>3, <1>8, <1>9 DEF Permitted, RecordKinds
<1>11. Write(rec) /\ UNCHANGED <<stream, turns, torn, known, chain, failing, repeated, missed>>
  BY <1>1, <1>6, <1>7 DEF Settle, history
<1>12. /\ RecordsSound' /\ records' # <<>> /\ Opened' = Opened /\ Done' = Done
       /\ Settled' = Settled \cup {Identity(o)} /\ RecordedOps' = RecordedOps
       /\ \A a : FailureNeedsRetry(a) => FailureNeedsRetry(a)'
       /\ Of("registered")' = Of("registered")
       /\ \A n \in Of("registered") : records'[n] = records[n]
  BY <1>8, <1>10, <1>11, Written DEF EngineInv
<1>13. /\ \A p : Happened(p)' <=> Happened(p)
       /\ \A read : Within(read)' <=> Within(read)
       /\ StreamsSound'
  BY <1>11, <1>12, UnchangedEffects DEF EngineInv
<1>14. Unsettled' = Unsettled \ {o}
  <2>1. \A p \in RecordedOps : Identity(p) \in Settled' <=> Identity(p) \in Settled \/ p = o
    BY <1>9, <1>12
  <2>2. Unsettled' = {p \in RecordedOps : Identity(p) \notin Settled'}
    BY <1>12 DEF Unsettled, Identity
  <2> QED
    BY <2>1, <2>2 DEF Unsettled
<1>15. SettledHappened'
  <2>1. \A p \in RecordedOps : Identity(p) \in Settled => Happened(p)
    BY DEF EngineInv, SettledHappened
  <2>2. \A p \in RecordedOps : Identity(p) \in Settled' => Happened(p)
    BY <1>4, <1>5, <1>9, <1>12, <2>1
  <2>3. \A p \in RecordedOps : Identity(p) \in Settled' => Happened(p)'
    BY <1>13, <2>2
  <2> QED
    BY <1>12, <2>3 DEF SettledHappened, Identity
<1>16. DoneSettled'
  BY <1>12 DEF EngineInv, DoneSettled, Identity
<1>17. BoundarySound'
  BY <1>12, <1>13, BoundaryStays DEF EngineInv
<1>18. FailingSound' /\ SwitchesSound'
  BY <1>11, <1>12 DEF EngineInv, FailingSound, SwitchesSound
<1>19. PICK stage : stage = IF Len(j.ops) > 1 THEN "send"
                            ELSE IF j.act # None THEN "act" ELSE "observe"
  OBVIOUS
<1>20. PICK i : i = [j EXCEPT !.ops = Tail(@), !.at = stage]
  OBVIOUS
<1>21. /\ DOMAIN i = JobFields /\ i.at = stage /\ i.act = j.act /\ i.read = j.read
       /\ i.left = j.left /\ i.plan = j.plan /\ i.ops = Tail(j.ops)
  BY <1>3, <1>20 DEF JobFields
<1>22. job' = i
  BY <1>1, <1>19, <1>20 DEF Settle, Trying
<1>23. JobSound(i)'
  <2>1. CASE Len(j.ops) > 1
    <3>1. j.act = None /\ Unsettled \subseteq Elements(j.ops)
      BY <1>3, <2>1 DEF SendSound
    <3>2. i.at = "send"
      BY <1>19, <1>21, <2>1
    <3>3. \A k \in DOMAIN i.ops : i.ops[k] \in RecordedOps
      BY <1>4, <1>6, <1>21
    <3>4. i.ops # <<>> /\ i.ops \in Seq(Operations)
      <4>1. Len(i.ops) = length - 1 /\ length > 1 /\ i.ops \in Seq(Operations)
        BY <1>6, <1>21, <1>6a, <2>1
      <4>2. Len(i.ops) # 0
        BY <4>1
      <4> QED
        BY <4>1, <4>2
    <3>5. ASSUME NEW p \in Unsettled, p # o PROVE p \in Elements(i.ops)
      <4>1. PICK k \in DOMAIN j.ops : p = j.ops[k]
        BY <3>1 DEF Elements
      <4>2. k - 1 \in DOMAIN i.ops /\ k - 1 + 1 = k
        BY <1>5, <1>6, <1>21, <3>5, <4>1
      <4>3. i.ops[k - 1] = p
        BY <1>6, <1>21, <4>1, <4>2
      <4> QED
        BY <4>2, <4>3 DEF Elements
    <3>6. Unsettled' \subseteq Elements(i.ops)
      BY <1>14, <3>5
    <3>7. SendSound(i)'
      BY <1>12, <1>21, <3>1, <3>2, <3>3, <3>4, <3>6 DEF SendSound, Elements, Operations, Ops
    <3> QED
      BY <1>3, <1>12, <1>13, <1>21, <3>2, <3>7 DEF JobSound, Sending, TryStages, Handling
  <2>2. CASE ~(Len(j.ops) > 1) /\ j.act # None
    <3>1. /\ TrySound(j) /\ LeftSound(j) /\ j.act \in Opened \ Done /\ j.plan \in Seq(Ops)
          /\ \A p \in Unsettled : p.act = j.act => p = o
      BY <1>2, <1>3, <1>5, <2>2 DEF SendSound, TrySound, Sending
    <3>2. i.at = "act"
      BY <1>19, <1>21, <2>2
    <3>3. \A p \in Unsettled' : p.act # j.act
      BY <1>14, <3>1
    <3>4. /\ \A n \in DOMAIN j.left : j.left[n] # i.act
          /\ \A n \in DOMAIN j.left : j.left[n] \in Opened' \ Done'
          /\ \A n \in DOMAIN j.left : j.left[n] \notin failing' \ repeated'
          /\ \A n \in DOMAIN j.left : \A p \in Unsettled' : p.act # j.left[n]
      BY <1>11, <1>12, <1>14, <1>21, <3>1 DEF LeftSound
    <3>5. LeftSound(i)'
      BY <1>21, <3>1, <3>4, LeftStays
    <3>6. TrySound(i)'
      BY <1>12, <1>21, <3>1, <3>2, <3>3, <3>5 DEF TrySound, Handling, Sending, Ops
    <3> QED
      BY <1>3, <1>12, <1>13, <1>21, <3>2, <3>6 DEF JobSound, Sending, TryStages, Handling
  <2>3. CASE ~(Len(j.ops) > 1) /\ j.act = None
    <3>1. Unsettled \subseteq {o}
      <4>1. Unsettled \subseteq Elements(j.ops)
        BY <1>3, <2>3 DEF SendSound
      <4>2. length = 1
        BY <1>6b, <2>3
      <4> QED
        BY <1>5, <1>6, <1>6a, <4>1, <4>2 DEF Elements
    <3>2. i.at = "observe" /\ i.act = None /\ Unsettled' = {}
      BY <1>14, <1>19, <1>21, <2>3, <3>1
    <3> QED
      BY <1>3, <1>12, <1>13, <1>21, <3>2 DEF JobSound, Sending, TryStages, Handling
  <2> QED
    BY <2>1, <2>2, <2>3
<1> QED
  BY <1>12, <1>13, <1>15, <1>16, <1>17, <1>18, <1>22, <1>23 DEF EngineInv

LEMMA ActNewStep ==
  ASSUME EngineInv, ActNew PROVE EngineInv'
<1>1. PICK j : j = job
  OBVIOUS
<1>2. j # NoJob /\ j.at = "act" /\ j.plan # <<>> /\ JobSound(j) /\ TrySound(j)
  BY <1>1 DEF ActNew, Acts, At, EngineInv, JobSound, TryStages, Handling
<1>3. /\ LeftSound(j) /\ j.act \in Opened \ Done /\ j.plan \in Seq(Ops)
      /\ \A p \in Unsettled : p.act # j.act
      /\ DOMAIN j = JobFields /\ Within(j.read) /\ records # <<>>
  BY <1>2 DEF JobSound, TrySound
<1>4. Head(j.plan) \in Ops /\ Tail(j.plan) \in Seq(Ops)
  BY <1>2, <1>3
<1>5. PICK o : o = [act |-> j.act, op |-> Head(j.plan)]
  OBVIOUS
<1>6. /\ o.act = j.act /\ o \in Operations /\ Identity(o) = <<j.act, Head(j.plan).key>>
  BY <1>3, <1>4, <1>5 DEF EngineInv, RecordsSound, Operations, Identity
<1>7. PICK rec : rec = [kind |-> "recorded", act |-> j.act, op |-> Head(j.plan)]
  OBVIOUS
<1>8. /\ rec.kind = "recorded" /\ [act |-> rec.act, op |-> rec.op] = o
      /\ <<rec.act, rec.op.key>> = Identity(o)
  BY <1>5, <1>6, <1>7
<1>9. Identity(o) \notin Recorded
  BY <1>1, <1>5 DEF ActNew, NextAction
<1>10. Permitted(rec)
  BY <1>3, <1>6, <1>8, <1>9 DEF Permitted, RecordKinds
<1>11. Write(rec) /\ UNCHANGED <<stream, turns, torn, known, failing, repeated, missed>>
  BY <1>1, <1>7 DEF ActNew, history
<1>12. /\ RecordsSound' /\ records' # <<>> /\ Opened' = Opened /\ Done' = Done
       /\ Settled' = Settled /\ RecordedOps' = RecordedOps \cup {o}
       /\ \A a : FailureNeedsRetry(a) => FailureNeedsRetry(a)'
       /\ Of("registered")' = Of("registered")
       /\ \A n \in Of("registered") : records'[n] = records[n]
  BY <1>8, <1>10, <1>11, Written DEF EngineInv
<1>13. /\ \A p : Happened(p)' <=> Happened(p)
       /\ \A read : Within(read)' <=> Within(read)
       /\ StreamsSound'
  BY <1>11, <1>12, UnchangedEffects DEF EngineInv
<1>14. Identity(o) \notin Settled
  BY <1>9, OpsApart DEF EngineInv
<1>15. Unsettled' = Unsettled \cup {o}
  <2>1. Unsettled' = {p \in RecordedOps \cup {o} : Identity(p) \notin Settled}
    BY <1>12 DEF Unsettled, Identity
  <2> QED
    BY <1>14, <2>1 DEF Unsettled
<1>16. SettledHappened'
  <2>1. \A p \in RecordedOps \cup {o} : Identity(p) \in Settled => Happened(p)
    BY <1>14 DEF EngineInv, SettledHappened
  <2>2. \A p \in RecordedOps \cup {o} : Identity(p) \in Settled => Happened(p)'
    BY <1>13, <2>1
  <2> QED
    BY <1>12, <2>2 DEF SettledHappened, Identity
<1>17. DoneSettled'
  BY <1>3, <1>6, <1>12 DEF EngineInv, DoneSettled, Identity
<1>18. BoundarySound'
  BY <1>12, <1>13, BoundaryStays DEF EngineInv
<1>19. FailingSound'
  BY <1>11, <1>12 DEF EngineInv, FailingSound
<1>20. SwitchesSound'
  <2>1. chain' \in Seq(ChainKinds)
    <3>1. chain' = Woken(chain)
      BY DEF ActNew
    <3> QED
      BY <3>1 DEF EngineInv, SwitchesSound, Woken, ChainKinds
  <2> QED
    BY <1>11, <2>1 DEF EngineInv, SwitchesSound
<1>21. PICK i : i = [j EXCEPT !.plan = Tail(@), !.at = "send", !.ops = <<o>>]
  OBVIOUS
<1>22. /\ DOMAIN i = JobFields /\ i.at = "send" /\ i.act = j.act /\ i.read = j.read
       /\ i.left = j.left /\ i.plan = Tail(j.plan) /\ i.ops = <<o>>
  BY <1>3, <1>21 DEF JobFields
<1>23. job' = i
  BY <1>1, <1>5, <1>21 DEF ActNew, Advance, NextAction
<1>24. LeftSound(i)'
  <2>1. /\ \A n \in DOMAIN j.left : j.left[n] # i.act
        /\ \A n \in DOMAIN j.left : j.left[n] \in Opened' \ Done'
        /\ \A n \in DOMAIN j.left : j.left[n] \notin failing' \ repeated'
        /\ \A n \in DOMAIN j.left : \A p \in Unsettled' : p.act # j.left[n]
    BY <1>3, <1>6, <1>11, <1>12, <1>15, <1>22 DEF LeftSound
  <2> QED
    BY <1>3, <1>22, <2>1, LeftStays
<1>25. TrySound(i)'
  BY <1>3, <1>4, <1>12, <1>22, <1>24 DEF TrySound, Handling, Sending, Ops
<1>26. SendSound(i)'
  <2>1. i.ops # <<>> /\ i.ops \in Seq(Operations) /\ Len(i.ops) = 1 /\ i.ops[1] = o
        /\ DOMAIN i.ops = {1}
    BY <1>6, <1>22
  <2>2. i.act # None
    BY <1>3, <1>22, NoneAssumption DEF EngineInv, RecordsSound
  <2> QED
    BY <1>3, <1>6, <1>12, <1>15, <1>22, <1>25, <2>1, <2>2 DEF SendSound, Operations, Ops
<1>27. JobSound(i)'
  BY <1>3, <1>12, <1>13, <1>22, <1>26 DEF JobSound, Sending, TryStages, Handling
<1> QED
  BY <1>12, <1>13, <1>16, <1>17, <1>18, <1>19, <1>20, <1>23, <1>27 DEF EngineInv

LEMMA WriteRegisteredStep ==
  ASSUME EngineInv, WriteRegistered PROVE EngineInv'
<1>1. PICK j : j = job
  OBVIOUS
<1>2. j # NoJob /\ j.at = "boundary" /\ JobSound(j)
  BY <1>1 DEF WriteRegistered, At, EngineInv
<1>3. records = <<>> /\ Within(j.read)
  BY <1>2 DEF JobSound
<1>4. PICK rec : rec = [kind |-> "registered", boundary |-> j.read]
  OBVIOUS
<1>5. rec.kind = "registered" /\ rec.boundary = j.read
  BY <1>4
<1>6. Permitted(rec)
  BY <1>3, <1>5 DEF Permitted, RecordKinds
<1>7. Write(rec) /\ UNCHANGED <<stream, turns, torn, known, failing, repeated, missed>>
  BY <1>1, <1>4 DEF WriteRegistered, history
<1>8. /\ RecordsSound' /\ Done' = Done /\ Settled' = Settled /\ RecordedOps' = RecordedOps
      /\ \A a : FailureNeedsRetry(a) => FailureNeedsRetry(a)'
  BY <1>5, <1>6, <1>7, Written DEF EngineInv
<1>9. /\ \A o : Happened(o)' <=> Happened(o)
      /\ \A read : Within(read)' <=> Within(read)
      /\ StreamsSound'
  BY <1>7, <1>8, UnchangedEffects DEF EngineInv
<1>10. SettledHappened' /\ DoneSettled'
  BY <1>8, <1>9 DEF EngineInv, SettledHappened, DoneSettled, Identity
<1>11. BoundarySound'
  <2>1. records' = Append(records, rec)
    BY <1>3, <1>7 DEF Write
  <2>2. Of("registered")' = Of("registered") \cup {Len(records) + 1}
        /\ records'[Len(records) + 1] = rec
    BY <1>5, <2>1, RecordAdded DEF EngineInv
  <2>3. Of("registered") = {}
    BY <1>3 DEF Of
  <2>4. \A n \in Of("registered")' : records'[n].boundary = j.read
    BY <1>5, <2>2, <2>3
  <2>5. Within(j.read)'
    BY <1>3, <1>9
  <2> QED
    BY <2>4, <2>5 DEF BoundarySound, Within
<1>12. FailingSound'
  BY <1>7, <1>8 DEF EngineInv, FailingSound
<1>13. SwitchesSound'
  <2>1. "first" \in ChainKinds
    BY DEF ChainKinds
  <2>2. chain' \in Seq(ChainKinds)
    BY <2>1, Queueing DEF EngineInv, SwitchesSound, WriteRegistered
  <2> QED
    BY <1>7, <2>2 DEF EngineInv, SwitchesSound
<1> QED
  BY <1>8, <1>9, <1>10, <1>11, <1>12, <1>13 DEF EngineInv, WriteRegistered

LEMMA WriteStatusStep ==
  ASSUME EngineInv, WriteStatus PROVE EngineInv'
<1>1. PICK j : j = job
  OBVIOUS
<1>2. j # NoJob /\ j.at = "status" /\ JobSound(j)
  BY <1>1 DEF WriteStatus, At, EngineInv
<1>3. records # <<>>
  BY <1>2 DEF JobSound
<1>4. PICK rec : rec = [kind |-> "status", status |-> j.of, length |-> Len(records)]
  OBVIOUS
<1>5. rec.kind = "status" /\ rec.status = j.of
  BY <1>4
<1>6. Permitted(rec)
  BY <1>3, <1>5 DEF Permitted, RecordKinds
<1>7. /\ records' = Append(records, rec)
      /\ UNCHANGED <<stream, turns, torn, known, repeated, missed>>
      /\ failing' = IF j.of = "active" THEN {} ELSE failing
  BY <1>1, <1>4 DEF WriteStatus
<1>8. /\ RecordsSound' /\ Done' = Done /\ Settled' = Settled /\ RecordedOps' = RecordedOps
  BY <1>5, <1>6, <1>7, RecordSays, RecordsKept DEF EngineInv
<1>9. /\ Of("registered")' = Of("registered")
      /\ \A n \in Of("registered") : records'[n] = records[n]
  BY <1>5, <1>7, RecordAdded DEF EngineInv, Of
<1>10. /\ \A o : Happened(o)' <=> Happened(o)
       /\ \A read : Within(read)' <=> Within(read)
       /\ StreamsSound'
  BY <1>7, <1>8, UnchangedEffects DEF EngineInv
<1>11. SettledHappened' /\ DoneSettled'
  BY <1>8, <1>10 DEF EngineInv, SettledHappened, DoneSettled, Identity
<1>12. BoundarySound'
  BY <1>9, <1>10, BoundaryStays DEF EngineInv
<1>13. FailingSound'
  <2>1. CASE j.of = "active"
    BY <1>7, <2>1 DEF FailingSound
  <2>2. CASE j.of # "active"
    <3>1. \A a : FailureNeedsRetry(a) => FailureNeedsRetry(a)'
      BY <1>5, <1>7, <2>2, FailureStays DEF EngineInv
    <3> QED
      BY <1>7, <2>2, <3>1 DEF EngineInv, FailingSound
  <2> QED
    BY <2>1, <2>2
<1>14. SwitchesSound'
  <2>1. "reconcile" \in ChainKinds
    BY DEF ChainKinds
  <2>2. chain' \in Seq(ChainKinds)
    BY <2>1, Queueing DEF EngineInv, SwitchesSound, WriteStatus
  <2> QED
    BY <1>7, <2>2 DEF EngineInv, SwitchesSound
<1> QED
  BY <1>8, <1>10, <1>11, <1>12, <1>13, <1>14 DEF EngineInv, WriteStatus

-----------------------------------------------------------------------------
(***************************************************************************)
(* The invariant, and what it says of the records and the effects.          *)
(***************************************************************************)
LEMMA EngineStarts == Init => EngineInv
<1> SUFFICES ASSUME Init PROVE EngineInv
  OBVIOUS
<1>1. /\ records = <<>> /\ DOMAIN records = {} /\ stream = Past /\ job = NoJob /\ chain = <<>>
      /\ failing = {} /\ torn = FALSE /\ known = FALSE /\ missed = FALSE
  BY DEF Init
<1>2. \A kind : Of(kind) = {}
  BY <1>1 DEF Of
<1>3. Opened = {} /\ Done = {} /\ Settled = {} /\ RecordedOps = {}
  BY <1>2 DEF Opened, Done, Settled, RecordedOps
<1>4. RecordsSound
  BY <1>1, <1>2, <1>3 DEF RecordsSound, Listed, Elements
<1> DEFINE E == [name : Names, key : Keys, by : {None}]
<1>5. \A s \in Surfaces : stream[s] \in Seq(E)
  BY <1>1, EngineAssumption
<1>6. /\ \A s \in Surfaces : stream[s] \in Seq(StreamEvents)
      /\ \A s \in Surfaces : \A n \in DOMAIN stream[s] : stream[s][n].by = None
  <2>1. \A e \in E : e \in StreamEvents /\ e.by = None
    BY DEF StreamEvents
  <2> HIDE DEF E
  <2>2. ASSUME NEW s \in Surfaces, NEW n \in DOMAIN stream[s] PROVE stream[s][n] \in E
    BY <1>5
  <2>3. ASSUME NEW s \in Surfaces PROVE stream[s] \in Seq(StreamEvents)
    <3>1. PICK q \in Seq(E) : q = stream[s]
      BY <1>5
    <3>2. \A n \in 1..Len(q) : q[n] \in StreamEvents
      BY <2>1
    <3>3. Len(q) \in Nat /\ DOMAIN q = 1..Len(q) /\ q = [n \in 1..Len(q) |-> q[n]]
      OBVIOUS
    <3> QED
      BY <3>1, <3>2, <3>3
  <2> QED
    BY <2>1, <2>2, <2>3
<1>7. \A s \in Surfaces : \A n \in DOMAIN stream[s] : stream[s][n].by = None
  BY <1>6
<1>8. \A r \in Roles : Bindings[r] \in Surfaces
  BY EngineAssumption
<1>9. stream \in [Surfaces -> Seq(StreamEvents)]
  <2>1. stream \in [Surfaces -> Seq([name : Names, key : Keys, by : {None}])]
    BY <1>1, EngineAssumption
  <2> QED
    BY <1>6, <2>1
<1>10. StreamsSound
  BY <1>7, <1>8, <1>9 DEF StreamsSound
<1>11. BoundarySound /\ SettledHappened /\ DoneSettled
  BY <1>2, <1>3 DEF BoundarySound, SettledHappened, DoneSettled
<1>12. SwitchesSound
  <2>1. <<>> \in Seq(ChainKinds)
    OBVIOUS
  <2> QED
    BY <1>1, <2>1 DEF SwitchesSound
<1>13. FailingSound
  BY <1>1 DEF FailingSound
<1> QED
  BY <1>1, <1>4, <1>10, <1>11, <1>12, <1>13 DEF EngineInv

LEMMA EngineSteps == EngineInv /\ [Next]_vars => EngineInv'
<1> SUFFICES ASSUME EngineInv, [Next]_vars PROVE EngineInv'
  OBVIOUS
<1>1. CASE JobStep
  <2>1. CASE Refuse \/ StartRegister \/ StartReconcile
    BY <2>1, RefuseStep, StartRegisterStep, StartReconcileStep
  <2>2. ASSUME NEW kind \in Switches, StartStatus(kind) PROVE EngineInv'
    BY <2>2, StartStatusStep
  <2>3. ASSUME NEW r \in Roles, ReadBoundary(r) \/ Observe(r) PROVE EngineInv'
    BY <2>3, ReadStep
  <2>4. CASE WriteRegistered \/ WriteStatus
    BY <2>4, WriteRegisteredStep, WriteStatusStep
  <2>5. CASE Send \/ Settle
    BY <2>5, SendStep, SettleStep
  <2>6. CASE Derive \/ Open \/ AllOpen \/ Try \/ Finish
    BY <2>6, DeriveStep, OpenStep, AllOpenStep, TryStep, FinishStep
  <2>7. CASE Invoke
    BY <2>7, InvokeStep
  <2>8. ASSUME NEW message \in Messages, RunFails(message) PROVE EngineInv'
    BY <2>8, RunFailsStep
  <2>9. ASSUME NEW actions \in Plans, RunAsks(actions) PROVE EngineInv'
    BY <2>9, RunAsksStep
  <2>10. CASE ActSettled \/ ActNew
    BY <2>10, ActSettledStep, ActNewStep
  <2>11. CASE SettleActivation \/ Fail
    BY <2>11, SettleActivationStep, FailStep
  <2> QED
    BY <1>1, <2>1, <2>2, <2>3, <2>4, <2>5, <2>6, <2>7, <2>8, <2>9, <2>10, <2>11 DEF JobStep
<1>2. CASE World
  <2>1. CASE Register \/ RegisterAgain
    BY <2>1, RegisterStep
  <2>2. ASSUME NEW kind \in Switches, Switch(kind) PROVE EngineInv'
    BY <2>2, SwitchStep
  <2>3. ASSUME NEW r \in Roles, NEW name \in Names, NEW key \in Keys, Happen(r, name, key)
        PROVE  EngineInv'
    BY <2>3, HappenStep
  <2> QED
    BY <1>2, <2>1, <2>2, <2>3 DEF World
<1>3. CASE Err
  BY <1>3, ErrStep
<1>4. CASE Crash
  BY <1>4, CrashStep
<1>5. CASE UNCHANGED vars
  <2>1. SwitchesSound'
    BY <1>5 DEF EngineInv, SwitchesSound, vars, durable
  <2> QED
    BY <1>5, <2>1, Waits DEF vars, durable, history
<1> QED
  BY <1>1, <1>2, <1>3, <1>4, <1>5 DEF Next

\* The inductive invariant holds of every behaviour of the engine, for any admitted
\* definition, surfaces, queue of jobs, errors and crashes.
THEOREM EngineInvariant == Spec => []EngineInv
<1>1. Init => EngineInv
  BY EngineStarts
<1>2. EngineInv /\ [Next]_vars => EngineInv'
  BY EngineSteps
<1> QED
  BY <1>1, <1>2, PTL DEF Spec

\* A stream of records can always be replayed (foldOrchestration never throws): one
\* registration, which comes first, one source of an activation, one content of an
\* operation, and nothing settled that was not recorded before.
THEOREM RecordsCanFold == Spec => []RecordsFold
<1>1. EngineInv => RecordsFold
  <2> SUFFICES ASSUME EngineInv PROVE RecordsFold
    OBVIOUS
  <2>1. RecordsSound /\ BoundarySound /\ SwitchesSound
    BY DEF EngineInv
  <2>2. Of("registered") \subseteq {1}
    BY <2>1 DEF RecordsSound, Of
  <2>3. Cardinality(Of("registered")) <= 1
    <3>1. CASE Of("registered") = {}
      <4>1. Cardinality(Of("registered")) = 0
        BY <3>1, FS_EmptySet
      <4> QED
        BY <4>1
    <3>2. CASE Of("registered") = {1}
      <4>1. Cardinality(Of("registered")) = 1
        BY <3>2, FS_Singleton
      <4> QED
        BY <4>1
    <3> QED
      BY <2>2, <3>1, <3>2
  <2>4. records # <<>> => records[1].kind = "registered"
    <3>1. DOMAIN records = 1..Len(records) /\ Len(records) \in Nat
      BY <2>1, ListedFacts DEF RecordsSound
    <3>2. records # <<>> => 1 \in DOMAIN records
      BY <2>1, <3>1 DEF RecordsSound, Listed
    <3> QED
      BY <2>1, <3>2 DEF RecordsSound
  <2>5. Registered => \A r \in Roles : Boundary[r] \in 0..Len(stream[Bindings[r]])
    <3>1. SUFFICES ASSUME Registered, NEW r \in Roles
                   PROVE  Boundary[r] \in 0..Len(stream[Bindings[r]])
      OBVIOUS
    <3>2. PICK n \in Of("registered") : Boundary = records[n].boundary
      BY <3>1 DEF Registered, Boundary
    <3>3. Within(Boundary)
      BY <2>1, <3>2 DEF BoundarySound
    <3>4. Boundary[r] \in Nat /\ Boundary[r] <= Len(stream[Bindings[r]])
      BY <3>1, <3>3 DEF Within
    <3>5. Len(stream[Bindings[r]]) \in Nat
      <4>1. stream[Bindings[r]] \in Seq(StreamEvents)
        BY <3>1, EngineAssumption DEF EngineInv, StreamsSound
      <4> QED
        BY <4>1
    <3> QED
      BY <3>4, <3>5
  <2>6. \A n \in DOMAIN chain : chain[n] \in Switches \cup {"register", "reconcile", "first"}
    BY <2>1 DEF SwitchesSound, ChainKinds
  <2>7. TypeOK
    BY <2>1, <2>5, <2>6 DEF TypeOK, RecordsSound, RecordKinds, SwitchesSound
  <2> QED
    BY <2>1, <2>3, <2>4, <2>7 DEF RecordsFold, RecordsSound
<1> QED
  BY <1>1, EngineInvariant, PTL

\* An operation takes effect at most once and as it was recorded, is settled only then,
\* and an activation is settled only when all its operations are: however often a handler
\* runs, whatever it asks for, and wherever the host dies.
THEOREM EffectsAreOnce == Spec => []EffectsOnce
<1>1. EngineInv => EffectsOnce
  <2> SUFFICES ASSUME EngineInv PROVE EffectsOnce
    OBVIOUS
  <2>1. StreamsSound /\ SettledHappened /\ DoneSettled /\ RecordsSound
    BY DEF EngineInv
  <2>2. \A k \in Of("recorded") : Operation(k) \in RecordedOps /\ Operation(k).act = records[k].act
    BY DEF RecordedOps, Operation
  <2>3. \A o \in RecordedOps : \E k \in Of("recorded") : o = Operation(k)
    BY DEF RecordedOps
  <2>4. ASSUME NEW r \in Roles, NEW n \in DOMAIN stream[Bindings[r]],
               stream[Bindings[r]][n].by # None
        PROVE  \E k \in Of("recorded") :
                 Event(Operation(k)) = stream[Bindings[r]][n] /\ Operation(k).op.role = r
    <3>1. PICK o \in RecordedOps : Event(o) = stream[Bindings[r]][n] /\ o.op.role = r
      BY <2>1, <2>4 DEF StreamsSound
    <3> QED
      BY <2>3, <3>1
  <2>5. \A k \in Of("recorded") : Identity(Operation(k)) \in Settled => Happened(Operation(k))
    BY <2>1, <2>2 DEF SettledHappened
  <2>6. \A k \in Of("recorded") : records[k].act \in Done => Identity(Operation(k)) \in Settled
    BY <2>1, <2>2 DEF DoneSettled
  <2>7. NothingLeft
    <3>1. SUFFICES ASSUME Acts, Identity(NextAction) \in Recorded \ Settled PROVE FALSE
      BY DEF NothingLeft
    <3>2. \A o \in Unsettled : o.act # job.act
      BY <3>1 DEF Acts, At, EngineInv, JobSound, TryStages, Handling, TrySound
    <3>3. PICK o \in RecordedOps : Identity(o) = Identity(NextAction)
      BY <2>1, <3>1, OpsApart
    <3>4. o.act = job.act
      BY <3>3 DEF Identity, NextAction
    <3>5. o \in Unsettled
      BY <3>1, <3>3 DEF Unsettled
    <3> QED
      BY <3>2, <3>4, <3>5
  <2>8. \A s \in Surfaces : \A n, m \in DOMAIN stream[s] :
          stream[s][n].by # None /\ stream[s][n].by = stream[s][m].by => n = m
    BY <2>1 DEF StreamsSound
  <2> QED
    BY <2>4, <2>5, <2>6, <2>7, <2>8 DEF EffectsOnce
<1> QED
  BY <1>1, EngineInvariant, PTL

\* A record of another kind leaves the runs of a handler as they are.
LEMMA RunsKept ==
  ASSUME RecordsSound, NEW rec, NEW a, rec.kind # "invoked" \/ rec.act # a, Write(rec)
  PROVE  Invoked(a)' = Invoked(a)
<1>1. CASE UNCHANGED records
  BY <1>1, RecordsSame
<1>2. CASE records' = Append(records, rec)
  BY <1>2, RecordSays
<1> QED
  BY <1>1, <1>2 DEF Write

\* A handler that has failed is not run again before an explicit resume, neither by a later
\* reconcile nor after a crash: but for one that failed twice with one message.
THEOREM RetriesAreAsked == Spec => NoUnaskedRetry
<1>1. EngineInv /\ [Next]_vars => [\A a \in failing \ repeated : Invoked(a)' = Invoked(a)]_vars
  <2> SUFFICES ASSUME EngineInv, Next, NEW a \in failing \ repeated
               PROVE  Invoked(a)' = Invoked(a)
    OBVIOUS
  <2>1. CASE UNCHANGED records
    BY <2>1, RecordsSame
  <2>2. CASE Invoke
    <3>1. PICK rec : rec = [kind |-> "invoked", act |-> job.act,
                            nth |-> Cardinality(Invoked(job.act)) + 1]
      OBVIOUS
    <3>2. rec.act # a
      BY <2>2, <3>1 DEF Invoke, At, EngineInv, JobSound, TryStages, Handling, TrySound
    <3>3. Write(rec)
      BY <2>2, <3>1 DEF Invoke
    <3> QED
      BY <3>2, <3>3, RunsKept DEF EngineInv
  <2>3. ASSUME NEW rec, Write(rec), rec.kind # "invoked" PROVE Invoked(a)' = Invoked(a)
    BY <2>3, RunsKept DEF EngineInv
  <2>4. CASE Settle
    BY <2>3, <2>4 DEF Settle
  <2>5. CASE Open
    <3>1. PICK rec : rec = FirstOf(job.open)
      OBVIOUS
    <3>2. rec.kind = "opened"
      BY <2>5, <3>1 DEF Open, At, EngineInv, JobSound, OpenSound, FirstOf
    <3> QED
      BY <2>3, <2>5, <3>1, <3>2 DEF Open
  <2>6. CASE WriteRegistered
    BY <2>3, <2>6 DEF WriteRegistered
  <2>7. CASE WriteStatus
    <3>1. PICK rec : rec = [kind |-> "status", status |-> job.of, length |-> Len(records)]
      OBVIOUS
    <3>2. records' = Append(records, rec) /\ rec.kind # "invoked"
      BY <2>7, <3>1 DEF WriteStatus
    <3> QED
      BY <3>2, RecordSays DEF EngineInv
  <2>8. CASE ActNew
    BY <2>3, <2>8 DEF ActNew
  <2>9. CASE SettleActivation
    BY <2>3, <2>9 DEF SettleActivation, EndTry
  <2>10. CASE Fail
    BY <2>3, <2>10 DEF Fail, EndTry
  <2>11. CASE World \/ Err \/ Crash
    <3>1. UNCHANGED records
      BY <2>11 DEF World, Register, RegisterAgain, Switch, Happen, Err, Crash, durable
    <3> QED
      BY <2>1, <3>1
  <2>12. CASE Refuse \/ StartRegister \/ StartReconcile
              \/ \E kind \in Switches : StartStatus(kind)
    <3>1. UNCHANGED records
      BY <2>12 DEF Refuse, StartRegister, StartReconcile, StartStatus, durable
    <3> QED
      BY <2>1, <3>1
  <2>13. CASE \/ \E r \in Roles : ReadBoundary(r) \/ Observe(r)
              \/ Send \/ Derive \/ AllOpen \/ Try \/ Finish \/ ActSettled
    <3>1. UNCHANGED records
      BY <2>13 DEF ReadBoundary, Observe, Send, Derive, AllOpen, Try, Finish, ActSettled, durable
    <3> QED
      BY <2>1, <3>1
  <2>14. CASE \/ \E message \in Messages : RunFails(message)
              \/ \E actions \in Plans : RunAsks(actions)
    <3>1. UNCHANGED records
      BY <2>14 DEF RunFails, RunAsks, durable
    <3> QED
      BY <2>1, <3>1
  <2> QED
    BY <2>2, <2>4, <2>5, <2>6, <2>7, <2>8, <2>9, <2>10, <2>11, <2>12, <2>13, <2>14
       DEF Next, JobStep
<1> QED
  BY <1>1, EngineInvariant, PTL DEF Spec, NoUnaskedRetry

-----------------------------------------------------------------------------
(***************************************************************************)
(* Positions.                                                               *)
(***************************************************************************)
LEMMA LeastPosition ==
  ASSUME NEW S \in SUBSET Nat, S # {}
  PROVE  \E n \in S : \A m \in S : n <= m
<1> DEFINE less == {ss \in Nat \X Nat : ss[1] < ss[2]}
<1>1. IsWellFoundedOn(less, Nat)
  <2>1. less = OpToRel(<, Nat)
    BY DEF OpToRel
  <2> QED
    BY <2>1, NatLessThanWellFounded
<1>2. PICK n \in S : \A m \in S : <<m, n>> \notin less
  <2>1. \E n \in S : \A m \in S : <<m, n>> \notin less
    BY <1>1, WFMin
  <2> QED
    BY <2>1
<1>3. ASSUME NEW m \in S PROVE n <= m
  <2>1. n \in Nat /\ m \in Nat /\ <<m, n>> \notin less
    BY <1>2
  <2> QED
    BY <2>1
<1> QED
  BY <1>3

\* Positions up to a number are finite in number.
LEMMA PositionsAreFinite ==
  ASSUME NEW k \in Nat, NEW S \in SUBSET (1..k)
  PROVE  /\ IsFiniteSet(S) /\ Cardinality(S) \in Nat /\ (Cardinality(S) = 0 <=> S = {})
         /\ \A T \in SUBSET S : Cardinality(T) <= Cardinality(S)
<1>1. IsFiniteSet(1..k)
  BY FS_Interval
<1>2. IsFiniteSet(S)
  BY <1>1, FS_Subset
<1> QED
  BY <1>2, FS_CardinalityType, FS_EmptySet, FS_Subset

\* The first of a set of positions.
LEMMA FirstIsLeast ==
  ASSUME NEW k \in Nat, NEW S \in SUBSET (1..k)
  PROVE  /\ Earliest(1, S) = {} <=> S = {}
         /\ \A n \in Earliest(1, S) : n \in S /\ \A m \in S : n <= m
         /\ \A n, m \in Earliest(1, S) : n = m
<1>1. ASSUME NEW n \in S
      PROVE  Cardinality({m \in S : m < n}) < 1 <=> {m \in S : m < n} = {}
  <2> DEFINE T == {m \in S : m < n}
  <2>1. T \in SUBSET (1..k)
    OBVIOUS
  <2> HIDE DEF T
  <2>2. Cardinality(T) \in Nat /\ (Cardinality(T) = 0 <=> T = {})
    BY <2>1, PositionsAreFinite
  <2>3. Cardinality(T) < 1 <=> T = {}
    BY <2>2
  <2> QED
    BY <2>3 DEF T
<1>2. \A n \in S : n \in Earliest(1, S) <=> \A m \in S : ~(m < n)
  BY <1>1 DEF Earliest
<1>3. Earliest(1, S) \subseteq S
  BY DEF Earliest
<1>4. S # {} => \E n \in S : \A m \in S : n <= m
  BY LeastPosition
<1>5. \A n, m \in S : n <= m <=> ~(m < n)
  OBVIOUS
<1>6. \A n, m \in S : n <= m /\ m <= n => n = m
  OBVIOUS
<1>7. \A n \in Earliest(1, S) : n \in S /\ \A m \in S : n <= m
  BY <1>2, <1>3, <1>5
<1>8. \A n, m \in Earliest(1, S) : n = m
  BY <1>6, <1>7
<1>9. Earliest(1, S) = {} <=> S = {}
  BY <1>2, <1>3, <1>4, <1>5
<1> QED
  BY <1>7, <1>8, <1>9

\* The first few of a set of positions are those up to one of them.
Before(S, last) == {n \in S : n <= last}
LEMMA EarliestIsPrefix ==
  ASSUME NEW k \in Nat, NEW S \in SUBSET (1..k), NEW c \in 1..Cardinality(S)
  PROVE  \E p \in S :
           /\ Earliest(c, S) = Before(S, p)
           /\ Cardinality(Before(S, p)) = c /\ Cardinality(Before(S, p - 1)) = c - 1
<1> DEFINE UpTo(p) == {n \in S : n <= p}
<1>1. PICK p \in S : Cardinality(UpTo(p)) = c
  <2>1. PICK p : p = Nth(S, c)
    OBVIOUS
  <2>2. p \in S /\ Cardinality({m \in S : m <= p}) = c
    BY <2>1, NthIsOne
  <2> QED
    BY <2>2
<1>2. c \in Nat /\ c >= 1
  BY NthIsOne
<1>8. p \in Nat /\ \A n \in S : n \in Nat
  <2>1. \A n \in S : n \in 1..k
    OBVIOUS
  <2>2. \A n \in 1..k : n \in Nat
    OBVIOUS
  <2> QED
    BY <2>1, <2>2
<1>9. \A n \in S : n <= p - 1 <=> n <= p /\ n # p
  BY <1>8
<1>3. UpTo(p - 1) = UpTo(p) \ {p}
  BY <1>9
<1>4. IsFiniteSet(UpTo(p)) /\ p \in UpTo(p)
  <2>1. UpTo(p) \in SUBSET (1..k)
    OBVIOUS
  <2>2. IsFiniteSet(UpTo(p))
    BY <2>1, PositionsAreFinite
  <2> QED
    BY <2>2
<1>5. Cardinality(UpTo(p - 1)) = c - 1
  BY <1>1, <1>3, <1>4, FS_RemoveElement
<1>6. ASSUME NEW n \in S
      PROVE  Cardinality({m \in S : m < n}) < c <=> n <= p
  <2> DEFINE T == {m \in S : m < n}
  <2>1. T \in SUBSET (1..k) /\ UpTo(p) \in SUBSET (1..k) /\ UpTo(p - 1) \in SUBSET (1..k)
    OBVIOUS
  <2>8. \A m \in S : (m < n /\ n <= p => m <= p - 1) /\ (m <= p /\ ~(n <= p) => m < n)
    BY <1>8
  <2>2. n <= p => T \in SUBSET UpTo(p - 1)
    BY <2>8
  <2>3. ~(n <= p) => UpTo(p) \in SUBSET T
    BY <2>8
  <2>4. Cardinality(T) \in Nat
    BY <2>1, PositionsAreFinite
  <2>5. n <= p => Cardinality(T) <= c - 1
    <3> HIDE DEF T, UpTo
    <3> QED
      BY <1>5, <2>1, <2>2, PositionsAreFinite
  <2>6. ~(n <= p) => c <= Cardinality(T)
    <3> HIDE DEF T, UpTo
    <3> QED
      BY <1>1, <2>1, <2>3, PositionsAreFinite
  <2>7. Cardinality(T) < c <=> n <= p
    <3> HIDE DEF T
    <3> QED
      BY <1>2, <2>4, <2>5, <2>6
  <2> QED
    BY <2>7
<1>7. Earliest(c, S) = UpTo(p)
  BY <1>6 DEF Earliest
<1> QED
  BY <1>1, <1>5, <1>7 DEF Before

\* The first none of a set of positions.
LEMMA NoneOfThem ==
  ASSUME NEW k \in Nat, NEW S \in SUBSET (1..k)
  PROVE  Earliest(0, S) = {}
<1>1. ASSUME NEW n \in S PROVE ~(Cardinality({m \in S : m < n}) < 0)
  <2>1. PICK T \in SUBSET (1..k) : T = {m \in S : m < n}
    OBVIOUS
  <2>2. Cardinality(T) \in Nat
    BY PositionsAreFinite
  <2> QED
    BY <2>1, <2>2
<1> QED
  BY <1>1 DEF Earliest

-----------------------------------------------------------------------------
(***************************************************************************)
(* When a condition comes true.                                             *)
(***************************************************************************)
Parts == {"one", "count", "sequence"}
UpTo(view, c, last) == [view EXCEPT ![c.role] = {n \in @ : n <= last}]

\* CameTrueWith, with the position of the last of the refs named.
CameTrueAt(events, view, c, refs, last) ==
  /\ last \in Nat
  /\ IF refs = {} THEN last = 0 ELSE \E f \in refs : f.seq = last
  /\ \A f \in refs : f.role = c.role /\ f.seq \in view[c.role] /\ f.seq <= last
  /\ TrueOf(events, UpTo(view, c, last), c)
  /\ last > 0 => ~TrueOf(events, UpTo(view, c, last - 1), c)

EarliestAt(events, view, c, refs) ==
  CASE c.kind = "all" ->
         \E of \in [DOMAIN c.parts -> SUBSET refs] :
            /\ refs = UNION {of[i] : i \in DOMAIN c.parts}
            /\ \A i \in DOMAIN c.parts : \E last \in Nat :
                 CameTrueAt(events, view, c.parts[i], of[i], last)
    [] c.kind = "any" ->
         \E i \in DOMAIN c.parts : \E last \in Nat :
           CameTrueAt(events, view, c.parts[i], refs, last)
    [] OTHER -> \E last \in Nat : CameTrueAt(events, view, c, refs, last)

\* The position named is the one that CameTrueWith chooses.
LEMMA CameTrueIs ==
  ASSUME NEW events, NEW view, NEW c, view[c.role] \in SUBSET Nat, NEW refs, NEW last \in Nat,
         CameTrueAt(events, view, c, refs, last)
  PROVE  CameTrueWith(events, view, c, refs)
<1>1. refs # {} => last = CHOOSE n \in {f.seq : f \in refs} : \A f \in refs : f.seq <= n
  <2>1. SUFFICES ASSUME refs # {}
                 PROVE  last = CHOOSE n \in {f.seq : f \in refs} : \A f \in refs : f.seq <= n
    OBVIOUS
  <2>2. /\ last \in {f.seq : f \in refs}
        /\ \A f \in refs : f.seq \in Nat /\ f.seq <= last
    BY <2>1 DEF CameTrueAt
  <2>3. ASSUME NEW n \in {f.seq : f \in refs}, \A f \in refs : f.seq <= n PROVE n = last
    <3>1. n <= last /\ last <= n /\ n \in Nat
      BY <2>2, <2>3
    <3> QED
      BY <3>1
  <2> QED
    BY <2>2, <2>3
<1>2. last = IF refs = {} THEN 0
             ELSE CHOOSE n \in {f.seq : f \in refs} : \A f \in refs : f.seq <= n
  BY <1>1 DEF CameTrueAt
<1> QED
  BY <1>2 DEF CameTrueAt, CameTrueWith, UpTo

\* Whether a part is true depends only on the names of the events in its view.
LEMMA TruthIsLocal ==
  ASSUME NEW e, NEW f, NEW v, NEW w, NEW c, c.kind \in Parts,
         v[c.role] = w[c.role],
         \A n \in v[c.role] : e[c.role][n].name = f[c.role][n].name
  PROVE  TrueOf(e, v, c) <=> TrueOf(f, w, c)
<1>1. CASE c.kind = "one"
  BY <1>1 DEF TrueOf
<1>2. CASE c.kind = "count"
  <2>1. {n \in v[c.role] : e[c.role][n].name = c.name}
          = {n \in w[c.role] : f[c.role][n].name = c.name}
    OBVIOUS
  <2> QED
    BY <1>2, <2>1 DEF TrueOf
<1>3. CASE c.kind = "sequence"
  <2>1. PICK P : P = v[c.role]
    OBVIOUS
  <2>2. TrueOf(e, v, c) <=>
          \E at \in [1..Len(c.names) -> P] :
            /\ \A i \in 1..Len(c.names) : e[c.role][at[i]].name = c.names[i]
            /\ \A i \in 2..Len(c.names) : at[i - 1] < at[i]
    BY <1>3, <2>1 DEF TrueOf
  <2>3. TrueOf(f, w, c) <=>
          \E at \in [1..Len(c.names) -> P] :
            /\ \A i \in 1..Len(c.names) : f[c.role][at[i]].name = c.names[i]
            /\ \A i \in 2..Len(c.names) : at[i - 1] < at[i]
    BY <1>3, <2>1 DEF TrueOf
  <2>4. \A at \in [1..Len(c.names) -> P] : \A i \in 1..Len(c.names) :
          e[c.role][at[i]].name = f[c.role][at[i]].name
    BY <2>1
  <2> QED
    BY <2>2, <2>3, <2>4
<1> QED
  BY <1>1, <1>2, <1>3 DEF Parts

\* Later events come after the last of the refs: what has come true once came true so.
LEMMA CameTrueStays ==
  ASSUME NEW roles, NEW v \in [roles -> SUBSET Nat], NEW w \in [roles -> SUBSET Nat],
         NEW e, NEW f, NEW c, c.kind \in Parts, c.role \in roles,
         NEW bound \in Nat, v[c.role] = {n \in w[c.role] : n <= bound},
         \A n \in v[c.role] : e[c.role][n].name = f[c.role][n].name,
         NEW refs, NEW last \in Nat, CameTrueAt(e, v, c, refs, last)
  PROVE  CameTrueAt(f, w, c, refs, last)
<1>1. last <= bound
  <2>1. CASE refs = {}
    BY <2>1 DEF CameTrueAt
  <2>2. CASE refs # {}
    <3>1. PICK g \in refs : g.seq = last
      BY <2>2 DEF CameTrueAt
    <3>2. g.seq \in v[c.role]
      BY DEF CameTrueAt
    <3> QED
      BY <3>1, <3>2
  <2> QED
    BY <2>1, <2>2
<1>2. ASSUME NEW k \in Int, k <= last
      PROVE  TrueOf(e, UpTo(v, c, k), c) <=> TrueOf(f, UpTo(w, c, k), c)
  <2>1. UpTo(v, c, k)[c.role] = {n \in v[c.role] : n <= k}
    BY DEF UpTo
  <2>2. UpTo(w, c, k)[c.role] = {n \in w[c.role] : n <= k}
    BY DEF UpTo
  <2>3. \A n \in w[c.role] : n <= k => n <= bound
    <3>1. \A n \in Nat : n <= k => n <= bound
      BY <1>1, <1>2
    <3> QED
      BY <3>1
  <2>4. UpTo(v, c, k)[c.role] = UpTo(w, c, k)[c.role]
    BY <2>1, <2>2, <2>3
  <2>5. \A n \in UpTo(v, c, k)[c.role] : e[c.role][n].name = f[c.role][n].name
    BY <2>1
  <2> QED
    BY <2>4, <2>5, TruthIsLocal
<1>3. TrueOf(e, UpTo(v, c, last), c) <=> TrueOf(f, UpTo(w, c, last), c)
  BY <1>2
<1>4. TrueOf(e, UpTo(v, c, last - 1), c) <=> TrueOf(f, UpTo(w, c, last - 1), c)
  BY <1>2
<1>5. \A g \in refs : g.role = c.role /\ g.seq \in w[c.role] /\ g.seq <= last
  BY DEF CameTrueAt
<1> QED
  BY <1>3, <1>4, <1>5 DEF CameTrueAt

-----------------------------------------------------------------------------
(***************************************************************************)
(* One event, or a number of events.                                        *)
(***************************************************************************)
\* The truth of one event, and of a number of them, is about the set of its matches.
LEMMA TrueByNumber ==
  ASSUME NEW events, NEW view, NEW c, NEW S,
         S = Matching(events, view, c.role, c.name)
  PROVE  /\ c.kind = "one" => (TrueOf(events, view, c) <=> S # {})
         /\ c.kind = "count" =>
              (TrueOf(events, view, c) <=> Compares(c.operator, Cardinality(S), c.value))
<1>1. S = {n \in view[c.role] : events[c.role][n].name = c.name}
  BY DEF Matching
<1>2. c.kind = "one" => (TrueOf(events, view, c) <=> S # {})
  BY <1>1 DEF TrueOf
<1>3. c.kind = "count" =>
        (TrueOf(events, view, c) <=> Compares(c.operator, Cardinality(S), c.value))
  BY <1>1 DEF TrueOf
<1> QED
  BY <1>2, <1>3

\* The three comparisons of a count.
LEMMA ComparesIs ==
  ASSUME NEW operator, NEW number, NEW value
  PROVE  /\ operator = "eq" => (Compares(operator, number, value) <=> number = value)
         /\ operator = "gte" => (Compares(operator, number, value) <=> number >= value)
         /\ operator = "lte" => (Compares(operator, number, value) <=> number \in 1..value)
<1>1. CASE operator = "eq"
  BY <1>1 DEF Compares
<1>2. CASE operator = "gte"
  BY <1>2 DEF Compares
<1>3. CASE operator = "lte"
  BY <1>3 DEF Compares
<1> QED
  BY <1>1, <1>2, <1>3

\* The evidence for one event or for a number of them is the earliest.
LEMMA SimpleIsEarliest ==
  ASSUME NEW roles, NEW view \in [roles -> SUBSET Nat], NEW events, NEW c,
         c.kind \in {"one", "count"}, ValidPart(c, roles),
         NEW b \in Nat, view[c.role] \in SUBSET (1..b),
         NEW refs \in Simple(events, view, c)
  PROVE  \E last \in Nat : CameTrueAt(events, view, c, refs, last)
<1>1. /\ c.role \in roles
      /\ c.kind = "count" => c.operator \in {"eq", "gte", "lte"} /\ c.value \in Nat
  BY DEF ValidPart
<1>2. PICK M : M = Matching(events, view, c.role, c.name)
  OBVIOUS
<1>3. M \in SUBSET (1..b) /\ M \subseteq view[c.role]
  BY <1>2 DEF Matching
<1>4. PICK k : k = Taken(c, M)
  OBVIOUS
<1>5. Enough(c, M) /\ refs = Refs(c.role, Earliest(k, M))
  BY <1>2, <1>4 DEF Simple
<1>6. Cardinality(M) \in Nat /\ (Cardinality(M) = 0 <=> M = {})
  BY <1>3, PositionsAreFinite
<1>7. \A last : Matching(events, UpTo(view, c, last), c.role, c.name) = Before(M, last)
  <2> TAKE last
  <2>1. UpTo(view, c, last)[c.role] = {n \in view[c.role] : n <= last}
    BY <1>1 DEF UpTo
  <2> QED
    BY <1>2, <2>1 DEF Matching, Before
<1>8. /\ k \in Nat /\ k <= Cardinality(M)
      /\ c.kind = "one" => k = 1
      /\ c.kind = "count" /\ c.operator = "lte" => k = 1 /\ c.value > 0
      /\ c.kind = "count" /\ c.operator # "lte" => k = c.value
  <2>1. CASE c.kind = "one"
    BY <1>4, <1>5, <1>6, <2>1 DEF Taken, Enough
  <2>2. CASE c.kind = "count"
    BY <1>1, <1>4, <1>5, <1>6, <2>2 DEF Taken, Enough
  <2> QED
    BY <2>1, <2>2
<1>9. CASE k = 0
  <2>1. c.kind = "count" /\ c.operator \in {"eq", "gte"} /\ c.value = 0
    BY <1>1, <1>8, <1>9
  <2>2. refs = {}
    <3>1. Earliest(0, M) = {}
      BY <1>3, NoneOfThem
    <3> QED
      BY <1>5, <1>9, <3>1 DEF Refs
  <2>3. Cardinality(Before(M, 0)) = 0
    <3>1. \A n \in 1..b : ~(n <= 0)
      OBVIOUS
    <3>2. Before(M, 0) = {}
      BY <1>3, <3>1 DEF Before
    <3> QED
      BY <3>2, FS_EmptySet
  <2>4. Compares(c.operator, 0, c.value)
    BY <2>1, ComparesIs
  <2>5. TrueOf(events, UpTo(view, c, 0), c)
    <3>1. PICK v : v = UpTo(view, c, 0)
      OBVIOUS
    <3>2. Matching(events, v, c.role, c.name) = Before(M, 0)
      BY <1>7, <3>1
    <3>3. TrueOf(events, v, c)
      BY <2>1, <2>3, <2>4, <3>2, TrueByNumber
    <3> QED
      BY <3>1, <3>3
  <2> QED
    BY <2>2, <2>5 DEF CameTrueAt
<1>10. CASE k # 0
  <2>1. PICK h \in 1..Cardinality(M) : h = k
    BY <1>6, <1>8, <1>10
  <2>2. PICK p \in M : /\ Earliest(h, M) = Before(M, p)
                       /\ Cardinality(Before(M, p)) = h /\ Cardinality(Before(M, p - 1)) = h - 1
    BY <1>3, EarliestIsPrefix
  <2>3. p \in Nat
    <3>1. p \in 1..b
      BY <1>3
    <3> QED
      BY <3>1
  <2>4. PICK v : v = UpTo(view, c, p)
    OBVIOUS
  <2>5. PICK w : w = UpTo(view, c, p - 1)
    OBVIOUS
  <2>6. /\ Matching(events, v, c.role, c.name) = Before(M, p)
        /\ Matching(events, w, c.role, c.name) = Before(M, p - 1)
    BY <1>7, <2>4, <2>5
  <2>7. TrueOf(events, v, c) /\ ~TrueOf(events, w, c)
    <3>1. CASE c.kind = "one"
      <4>1. Before(M, p) # {} /\ Before(M, p - 1) = {}
        <5>1. p \in Before(M, p)
          BY <2>3 DEF Before
        <5>2. PICK T \in SUBSET (1..b) : T = Before(M, p - 1)
          BY <1>3 DEF Before
        <5>3. Cardinality(T) = 0
          BY <1>8, <2>1, <2>2, <3>1, <5>2
        <5> QED
          BY <5>1, <5>2, <5>3, PositionsAreFinite
      <4> QED
        BY <2>6, <3>1, <4>1, TrueByNumber
    <3>2. CASE c.kind = "count"
      <4>1. h \in Nat
        BY <1>8, <2>1
      <4>2. Compares(c.operator, h, c.value) /\ ~Compares(c.operator, h - 1, c.value)
        <5>1. CASE c.operator = "lte"
          <6>1. h = 1 /\ c.value > 0 /\ c.value \in Nat
            BY <1>1, <1>8, <2>1, <3>2, <5>1
          <6>2. h \in 1..c.value /\ h - 1 \notin 1..c.value
            BY <6>1
          <6> QED
            BY <5>1, <6>2, ComparesIs
        <5>2. CASE c.operator \in {"eq", "gte"}
          <6>1. h = c.value /\ h >= c.value /\ h - 1 # c.value /\ ~(h - 1 >= c.value)
            BY <1>8, <2>1, <3>2, <4>1, <5>2
          <6> QED
            BY <5>2, <6>1, ComparesIs
        <5> QED
          BY <1>1, <3>2, <5>1, <5>2
      <4>3. Cardinality(Before(M, p)) = h /\ Cardinality(Before(M, p - 1)) = h - 1
        BY <2>2
      <4> QED
        BY <2>6, <3>2, <4>2, <4>3, TrueByNumber
    <3> QED
      BY <3>1, <3>2
  <2>8. refs = Refs(c.role, Before(M, p))
    BY <1>5, <2>1, <2>2
  <2>9. refs # {} /\ \E f \in refs : f.seq = p
    <3>1. [role |-> c.role, seq |-> p] \in refs
      BY <2>3, <2>8 DEF Refs, Before
    <3> QED
      BY <3>1
  <2>10. \A f \in refs : f.role = c.role /\ f.seq \in view[c.role] /\ f.seq <= p
    BY <1>3, <2>8 DEF Refs, Before
  <2> QED
    BY <2>3, <2>4, <2>5, <2>7, <2>9, <2>10 DEF CameTrueAt
<1> QED
  BY <1>9, <1>10

-----------------------------------------------------------------------------
(***************************************************************************)
(* A sequence of events.  Chain is a recursive function: that there is one  *)
(* that satisfies its equation is shown first, and what follows from it by  *)
(* looking at the first step at which it would fail.                        *)
(***************************************************************************)
ChainStep(events, view, c, f, i) ==
  IF i = 0 THEN {0} ELSE UNION {Next1(events, view, c, i, n) : n \in f[i - 1]}

\* There is a function that follows the steps of a sequence, up to any number of them.
LEMMA ChainExists ==
  ASSUME NEW events, NEW view, NEW c, NEW L \in Nat
  PROVE  \E f : f = [i \in 0..L |-> ChainStep(events, view, c, f, i)]
<1> DEFINE Found(n, f) == f = [i \in 0..n |-> ChainStep(events, view, c, f, i)]
           Missing == {n \in Nat : ~\E f : Found(n, f)}
<1>1. SUFFICES Missing = {}
  OBVIOUS
<1>2. SUFFICES ASSUME Missing # {} PROVE FALSE
  OBVIOUS
<1>3. PICK n \in Missing : \A m \in Missing : n <= m
  BY <1>2, LeastPosition
<1>4. n \in Nat /\ ~\E f : Found(n, f)
  OBVIOUS
<1>5. CASE n = 0
  <2>1. PICK f : f = [i \in 0..0 |-> {0}]
    OBVIOUS
  <2>2. \A i \in 0..0 : ChainStep(events, view, c, f, i) = {0}
    BY DEF ChainStep
  <2>3. Found(0, f)
    BY <2>1, <2>2
  <2> QED
    BY <1>4, <1>5, <2>3
<1>6. CASE n # 0
  <2>1. PICK m \in Nat : n = m + 1
    BY <1>4, <1>6
  <2>2. m \notin Missing
    BY <1>3, <2>1
  <2>3. PICK f : Found(m, f)
    BY <2>2
  <2>4. PICK g : g = [i \in 0..n |-> IF i = n THEN ChainStep(events, view, c, f, n) ELSE f[i]]
    OBVIOUS
  <2>5. ASSUME NEW i \in 0..n PROVE g[i] = ChainStep(events, view, c, g, i)
    <3>1. CASE i = 0
      <4>1. 0 \in 0..m /\ i # n /\ 0 \in 0..n
        BY <2>1, <3>1
      <4>2. f[0] = ChainStep(events, view, c, f, 0)
        BY <2>3, <4>1
      <4> QED
        BY <2>4, <3>1, <4>1, <4>2 DEF ChainStep
    <3>2. CASE i # 0
      <4>1. i - 1 \in 0..n /\ i - 1 # n
        BY <1>4, <3>2
      <4>2. g[i - 1] = f[i - 1]
        BY <2>4, <4>1
      <4>3. ChainStep(events, view, c, g, i) = ChainStep(events, view, c, f, i)
        BY <4>2 DEF ChainStep
      <4>4. CASE i = n
        BY <2>4, <4>3, <4>4
      <4>5. CASE i # n
        <5>1. i \in 0..m
          BY <2>1, <4>5
        <5>2. f[i] = ChainStep(events, view, c, f, i)
          BY <2>3, <5>1
        <5> QED
          BY <2>4, <4>3, <4>5, <5>2
      <4> QED
        BY <4>4, <4>5
    <3> QED
      BY <3>1, <3>2
  <2>6. Found(n, g)
    <3>1. g = [i \in 0..n |-> g[i]]
      BY <2>4
    <3> QED
      BY <2>5, <3>1
  <2> QED
    BY <1>4, <2>6
<1> QED
  BY <1>5, <1>6

\* Chain is that function: it starts before all positions and follows the steps.
LEMMA ChainIs ==
  ASSUME NEW events, NEW view, NEW c, Len(c.names) \in Nat
  PROVE  /\ Chain(events, view, c)[0] = {0}
         /\ \A i \in 1..Len(c.names) :
              Chain(events, view, c)[i]
                = UNION {Next1(events, view, c, i, n) : n \in Chain(events, view, c)[i - 1]}
<1>1. PICK L \in Nat : L = Len(c.names)
  OBVIOUS
<1> DEFINE Is(f) == f = [i \in 0..L |->
                           IF i = 0 THEN {0}
                           ELSE UNION {Next1(events, view, c, i, n) : n \in f[i - 1]}]
<1>2. \E f : Is(f)
  <2>1. PICK f : f = [i \in 0..L |-> ChainStep(events, view, c, f, i)]
    BY ChainExists
  <2>2. Is(f)
    BY <2>1 DEF ChainStep
  <2> QED
    BY <2>2
<1>3. PICK f : f = Chain(events, view, c)
  OBVIOUS
<1>4. Is(f)
  <2>1. f = CHOOSE g : Is(g)
    BY <1>1, <1>3 DEF Chain
  <2> HIDE DEF Is
  <2> QED
    BY <1>2, <2>1
<1>7. \A i \in 1..L : i \in 0..L /\ i # 0
  OBVIOUS
<1>5. f[0] = {0}
  BY <1>4
<1>6. \A i \in 1..L : f[i] = UNION {Next1(events, view, c, i, n) : n \in f[i - 1]}
  BY <1>4, <1>7
<1> QED
  BY <1>1, <1>3, <1>5, <1>6

\* A step of the chain finds the first match after the step before, if there is one.
NextMatch(found, M, p) ==
  /\ \/ found = {}
     \/ \E q \in M : found = {q} /\ q \in Nat /\ p < q /\ \A n \in M : p < n => q <= n
  /\ (\E n \in M : p < n) => found # {}

\* From one position, a step of the chain finds the next match.
LEMMA ChainLink ==
  ASSUME NEW events, NEW view, NEW c, NEW L \in Nat, L = Len(c.names),
         NEW b \in Nat, view[c.role] \in SUBSET (1..b),
         NEW i \in 1..L, NEW p \in Nat, Chain(events, view, c)[i - 1] = {p}
  PROVE  NextMatch(Chain(events, view, c)[i],
                   Matching(events, view, c.role, c.names[i]), p)
<1>0. PICK M : M = Matching(events, view, c.role, c.names[i])
  OBVIOUS
<1>1. PICK S : S = {n \in M : n > p}
  OBVIOUS
<1>2. M \in SUBSET (1..b) /\ S \in SUBSET (1..b)
  BY <1>0, <1>1 DEF Matching
<1>3. Next1(events, view, c, i, p) = Earliest(1, S)
  BY <1>0, <1>1 DEF Next1
<1>4. Chain(events, view, c)[i] = Earliest(1, S)
  <2>1. Chain(events, view, c)[i]
          = UNION {Next1(events, view, c, i, n) : n \in Chain(events, view, c)[i - 1]}
    BY ChainIs
  <2> QED
    BY <1>3, <2>1
<1>5. /\ Earliest(1, S) = {} <=> S = {}
      /\ \A n \in Earliest(1, S) : n \in S /\ \A m \in S : n <= m
      /\ \A n, m \in Earliest(1, S) : n = m
  BY <1>2, FirstIsLeast
<1>6. \A n \in M : n \in Nat /\ (n \in S <=> p < n)
  <2>1. \A n \in 1..b : n \in Nat /\ (n > p <=> p < n)
    OBVIOUS
  <2> QED
    BY <1>1, <1>2, <2>1
<1>7. ASSUME NEW q \in Earliest(1, S)
      PROVE  q \in M /\ Earliest(1, S) = {q} /\ q \in Nat /\ p < q /\ \A n \in M : p < n => q <= n
  BY <1>1, <1>5, <1>6
<1>8. (\E n \in M : p < n) => Earliest(1, S) # {}
  BY <1>5, <1>6
<1> QED
  BY <1>0, <1>4, <1>7, <1>8 DEF NextMatch

\* What a link of the chain holds.
AtMostOne(found) == found = {} \/ \E p \in Nat : found = {p}
Reached(found, n) == \E p \in Nat : found = {p} /\ p <= n
\* A way through the matches of a sequence.
IsWay(events, view, c, L, at) ==
  /\ \A i \in 1..L : at[i] \in Matching(events, view, c.role, c.names[i])
  /\ \A i \in 2..L : at[i - 1] < at[i]
\* The way that the chain went.
IsChain(events, view, c, L, at) ==
  /\ at \in [1..L -> Nat]
  /\ \A i \in 1..L : Chain(events, view, c)[i] = {at[i]} /\ at[i] <= at[L]

\* No link of the chain holds more than one position.
LEMMA ChainIsSingle ==
  ASSUME NEW events, NEW view, NEW c, NEW L \in Nat, L = Len(c.names),
         NEW b \in Nat, view[c.role] \in SUBSET (1..b)
  PROVE  \A i \in 0..L : AtMostOne(Chain(events, view, c)[i])
<1> USE DEF AtMostOne
<1> DEFINE Single(i) == AtMostOne(Chain(events, view, c)[i])
           Others == {i \in 0..L : ~Single(i)}
<1>1. SUFFICES ASSUME Others # {} PROVE FALSE
  OBVIOUS
<1>2. Others \in SUBSET Nat
  OBVIOUS
<1>3. PICK i \in Others : \A j \in Others : i <= j
  BY <1>1, <1>2, LeastPosition
<1>4. i \in 0..L /\ ~Single(i)
  OBVIOUS
<1> HIDE DEF Others
<1>5. CASE i = 0
  <2>1. Chain(events, view, c)[0] = {0}
    BY ChainIs
  <2> QED
    BY <1>4, <1>5, <2>1
<1>6. CASE i # 0
  <2>1. i \in 1..L /\ i - 1 \in 0..L /\ ~(i <= i - 1)
    BY <1>4, <1>6
  <2>2. Single(i - 1)
    BY <1>3, <2>1 DEF Others
  <2>3. CASE Chain(events, view, c)[i - 1] = {}
    <3>1. Chain(events, view, c)[i]
            = UNION {Next1(events, view, c, i, n) : n \in Chain(events, view, c)[i - 1]}
      BY <2>1, ChainIs
    <3>2. Chain(events, view, c)[i] = {}
      BY <2>3, <3>1
    <3> QED
      BY <1>4, <3>2
  <2>4. ASSUME NEW p \in Nat, Chain(events, view, c)[i - 1] = {p} PROVE FALSE
    <3>1. PICK k \in 1..L : k = i
      BY <2>1
    <3>2. Chain(events, view, c)[k - 1] = {p}
      BY <2>4, <3>1
    <3>4. NextMatch(Chain(events, view, c)[k], Matching(events, view, c.role, c.names[k]), p)
      BY <3>2, ChainLink
    <3>3. \/ Chain(events, view, c)[k] = {}
          \/ \E q \in Nat : Chain(events, view, c)[k] = {q}
      BY <3>4 DEF NextMatch
    <3> QED
      BY <1>4, <3>1, <3>3
  <2> QED
    BY <2>2, <2>3, <2>4
<1> QED
  BY <1>5, <1>6

\* The chain is not behind any other way through the matches.
LEMMA ChainReaches ==
  ASSUME NEW events, NEW view, NEW c, NEW L \in Nat, L = Len(c.names),
         NEW b \in Nat, view[c.role] \in SUBSET (1..b),
         NEW by, IsWay(events, view, c, L, by)
  PROVE  \A i \in 1..L : Reached(Chain(events, view, c)[i], by[i])
<1>0. /\ \A i \in 1..L : by[i] \in Matching(events, view, c.role, c.names[i])
      /\ \A i \in 2..L : by[i - 1] < by[i]
  BY DEF IsWay
<1> DEFINE Others == {i \in 1..L : ~Reached(Chain(events, view, c)[i], by[i])}
<1>1. SUFFICES ASSUME Others # {} PROVE FALSE
  OBVIOUS
<1>2. Others \in SUBSET Nat
  OBVIOUS
<1>3. PICK i \in Others : \A j \in Others : i <= j
  BY <1>1, <1>2, LeastPosition
<1>4. i \in 1..L /\ ~Reached(Chain(events, view, c)[i], by[i])
  OBVIOUS
<1> HIDE DEF Others
<1>5. PICK M : M = Matching(events, view, c.role, c.names[i])
  OBVIOUS
<1>6. by[i] \in M /\ by[i] \in 1..b
  BY <1>0, <1>4, <1>5 DEF Matching
<1>7. PICK p \in Nat : Chain(events, view, c)[i - 1] = {p} /\ p < by[i]
  <2>1. CASE i = 1
    <3>1. Chain(events, view, c)[0] = {0}
      BY ChainIs
    <3>2. i - 1 = 0 /\ 0 < by[i]
      BY <1>6, <2>1
    <3> QED
      BY <3>1, <3>2
  <2>2. CASE i # 1
    <3>1. i \in 2..L /\ i - 1 \in 1..L /\ ~(i <= i - 1)
      BY <1>4, <2>2
    <3>2. Reached(Chain(events, view, c)[i - 1], by[i - 1])
      BY <1>3, <3>1 DEF Others
    <3>3. PICK q \in Nat : Chain(events, view, c)[i - 1] = {q} /\ q <= by[i - 1]
      BY <3>2 DEF Reached
    <3>4. by[i - 1] < by[i] /\ by[i - 1] \in 1..b
      BY <1>0, <3>1 DEF Matching
    <3>5. q < by[i]
      BY <1>6, <3>3, <3>4
    <3> QED
      BY <3>3, <3>5
  <2> QED
    BY <2>1, <2>2
<1>8. PICK k \in 1..L : k = i
  BY <1>4
<1>9. Chain(events, view, c)[k - 1] = {p} /\ M = Matching(events, view, c.role, c.names[k])
  BY <1>5, <1>7, <1>8
<1>10. NextMatch(Chain(events, view, c)[k], Matching(events, view, c.role, c.names[k]), p)
  BY <1>9, ChainLink
<1>11. NextMatch(Chain(events, view, c)[k], M, p)
  BY <1>9, <1>10
<1>12. PICK q \in M : Chain(events, view, c)[k] = {q} /\ q \in Nat /\ q <= by[i]
  BY <1>6, <1>7, <1>11 DEF NextMatch
<1> QED
  BY <1>4, <1>8, <1>12 DEF Reached

\* A chain that comes to its end found something at each step.
LEMMA ChainIsWhole ==
  ASSUME NEW events, NEW view, NEW c, NEW L \in Nat, L = Len(c.names),
         Chain(events, view, c)[L] # {}
  PROVE  \A i \in 0..L : Chain(events, view, c)[i] # {}
<1> DEFINE Others == {k \in 0..L : Chain(events, view, c)[L - k] = {}}
<1>1. Others = {}
  <2>1. SUFFICES ASSUME Others # {} PROVE FALSE
    OBVIOUS
  <2>2. Others \in SUBSET Nat
    OBVIOUS
  <2>3. PICK k \in Others : \A j \in Others : k <= j
    BY <2>1, <2>2, LeastPosition
  <2>4. k \in 0..L /\ Chain(events, view, c)[L - k] = {}
    OBVIOUS
  <2> HIDE DEF Others
  <2>5. k # 0
    BY <2>4
  <2>6. k - 1 \in 0..L /\ ~(k <= k - 1) /\ L - (k - 1) \in 1..L /\ (L - (k - 1)) - 1 = L - k
    BY <2>4, <2>5
  <2>7. k - 1 \notin Others
    BY <2>3, <2>6
  <2>8. Chain(events, view, c)[L - (k - 1)] # {}
    BY <2>6, <2>7 DEF Others
  <2>9. PICK i \in 1..L : i = L - (k - 1)
    BY <2>6
  <2>10. i - 1 = L - k
    BY <2>6, <2>9
  <2>11. Chain(events, view, c)[i]
           = UNION {Next1(events, view, c, i, n) : n \in Chain(events, view, c)[i - 1]}
    BY ChainIs
  <2>12. Chain(events, view, c)[i] = {}
    BY <2>4, <2>10, <2>11
  <2> QED
    BY <2>8, <2>9, <2>12
<1>2. ASSUME NEW i \in 0..L PROVE Chain(events, view, c)[i] # {}
  <2>1. L - i \in 0..L /\ L - (L - i) = i
    OBVIOUS
  <2>2. \A k \in 0..L : Chain(events, view, c)[L - k] # {}
    BY <1>1
  <2>3. Chain(events, view, c)[L - (L - i)] # {}
    BY <2>1, <2>2
  <2> QED
    BY <2>1, <2>3
<1> QED
  BY <1>2

\* So it is a way through the matches, and its last step comes last.
LEMMA ChainIsAWay ==
  ASSUME NEW events, NEW view, NEW c, NEW L \in Nat, L # 0, L = Len(c.names),
         NEW b \in Nat, view[c.role] \in SUBSET (1..b),
         Chain(events, view, c)[L] # {}
  PROVE  \E at : IsChain(events, view, c, L, at) /\ IsWay(events, view, c, L, at)
<1> DEFINE Found(i) == Chain(events, view, c)[i]
<1>1. ASSUME NEW i \in 0..L PROVE \E p \in Nat : Found(i) = {p}
  <2>1. Found(i) # {}
    BY <1>1, ChainIsWhole
  <2>2. AtMostOne(Chain(events, view, c)[i])
    BY <1>1, ChainIsSingle
  <2> QED
    BY <2>1, <2>2 DEF AtMostOne
<1>2. PICK at : at = [i \in 0..L |-> CHOOSE p \in Nat : Found(i) = {p}]
  OBVIOUS
<1>3. \A i \in 0..L : at[i] \in Nat /\ Found(i) = {at[i]}
  <2> HIDE DEF Found
  <2> QED
    BY <1>1, <1>2
<1>4. ASSUME NEW i \in 1..L
      PROVE  at[i - 1] < at[i] /\ at[i] \in Matching(events, view, c.role, c.names[i])
  <2>1. i \in 0..L /\ i - 1 \in 0..L
    OBVIOUS
  <2>2. PICK p \in Nat : p = at[i - 1]
    BY <1>3, <2>1
  <2>3. PICK M : M = Matching(events, view, c.role, c.names[i])
    OBVIOUS
  <2>4. Chain(events, view, c)[i - 1] = {p}
    BY <1>3, <2>1, <2>2
  <2>5. NextMatch(Chain(events, view, c)[i], Matching(events, view, c.role, c.names[i]), p)
    BY <2>4, ChainLink
  <2>6. Chain(events, view, c)[i] = {at[i]}
    BY <1>3, <2>1
  <2>7. PICK q \in M : Chain(events, view, c)[i] = {q} /\ p < q
    BY <2>3, <2>5, <2>6 DEF NextMatch
  <2>8. q = at[i]
    BY <2>6, <2>7
  <2> QED
    BY <2>2, <2>3, <2>7, <2>8
<1>5. ASSUME NEW i \in 1..L PROVE at[i] <= at[L]
  <2> DEFINE Others == {k \in 0..(L - 1) : ~(at[L - k] <= at[L])}
  <2>1. Others = {}
    <3>1. SUFFICES ASSUME Others # {} PROVE FALSE
      OBVIOUS
    <3>2. Others \in SUBSET Nat
      OBVIOUS
    <3>3. PICK k \in Others : \A j \in Others : k <= j
      BY <3>1, <3>2, LeastPosition
    <3>4. k \in 0..(L - 1) /\ ~(at[L - k] <= at[L])
      OBVIOUS
    <3> HIDE DEF Others
    <3>5. at[L] \in Nat
      BY <1>3
    <3>6. k # 0
      BY <3>4, <3>5
    <3>7. PICK j \in 1..L : j = L - (k - 1)
      <4>1. L - (k - 1) \in 1..L
        BY <3>4, <3>6
      <4> QED
        BY <4>1
    <3>8. k - 1 \in 0..(L - 1) /\ ~(k <= k - 1) /\ j - 1 = L - k
      BY <3>4, <3>6, <3>7
    <3>9. k - 1 \notin Others
      BY <3>3, <3>8
    <3>10. at[j] <= at[L]
      BY <3>7, <3>8, <3>9 DEF Others
    <3>11. at[j - 1] < at[j] /\ at[j] \in Nat /\ at[j - 1] \in Nat
      <4>1. j \in 0..L /\ j - 1 \in 0..L
        BY <3>7
      <4> QED
        BY <1>3, <1>4, <4>1
    <3>12. at[j - 1] <= at[L]
      BY <3>5, <3>10, <3>11
    <3> QED
      BY <3>4, <3>8, <3>12
  <2>2. L - i \in 0..(L - 1) /\ L - (L - i) = i
    OBVIOUS
  <2>3. \A k \in 0..(L - 1) : at[L - k] <= at[L]
    BY <2>1
  <2>4. at[L - (L - i)] <= at[L]
    BY <2>2, <2>3
  <2> QED
    BY <2>2, <2>4
<1>6. PICK way \in [1..L -> Nat] : \A i \in 1..L : way[i] = at[i]
  <2>1. \A i \in 1..L : i \in 0..L
    OBVIOUS
  <2>2. [i \in 1..L |-> at[i]] \in [1..L -> Nat]
    BY <1>3, <2>1
  <2> QED
    BY <2>2
<1>7. \A i \in 1..L : /\ Chain(events, view, c)[i] = {way[i]}
                      /\ way[i] \in Matching(events, view, c.role, c.names[i])
                      /\ way[i] <= way[L]
  <2>1. \A i \in 1..L : i \in 0..L
    OBVIOUS
  <2>2. L \in 1..L
    OBVIOUS
  <2> QED
    BY <1>3, <1>4, <1>5, <1>6, <2>1, <2>2
<1>8. ASSUME NEW i \in 2..L PROVE way[i - 1] < way[i]
  <2>1. i \in 1..L /\ i - 1 \in 1..L
    OBVIOUS
  <2> QED
    BY <1>4, <1>6, <2>1
<1>9. IsChain(events, view, c, L, way)
  BY <1>6, <1>7 DEF IsChain
<1>10. IsWay(events, view, c, L, way)
  BY <1>7, <1>8 DEF IsWay
<1> QED
  BY <1>9, <1>10

\* The evidence for a sequence is the earliest.
LEMMA SequenceIsEarliest ==
  ASSUME NEW roles, NEW view \in [roles -> SUBSET Nat], NEW events, NEW c,
         c.kind = "sequence", ValidPart(c, roles),
         NEW b \in Nat, view[c.role] \in SUBSET (1..b),
         NEW refs \in Sequential(events, view, c)
  PROVE  \E last \in Nat : CameTrueAt(events, view, c, refs, last)
<1>1. PICK L \in Nat : L # 0 /\ L = Len(c.names)
  <2>1. c.names \in Seq({c.names[i] : i \in DOMAIN c.names}) /\ c.names # <<>>
    BY DEF ValidPart
  <2> QED
    BY <2>1
<1>2. c.role \in roles
  BY DEF ValidPart
<1>3. /\ Chain(events, view, c)[L] # {}
      /\ refs = Refs(c.role, UNION {Chain(events, view, c)[i] : i \in 1..L})
  BY <1>1 DEF Sequential
<1>31. PICK at : IsChain(events, view, c, L, at) /\ IsWay(events, view, c, L, at)
  BY <1>1, <1>3, ChainIsAWay
<1>4. /\ at \in [1..L -> Nat]
      /\ \A i \in 1..L : /\ Chain(events, view, c)[i] = {at[i]}
                         /\ at[i] \in Matching(events, view, c.role, c.names[i])
                         /\ at[i] <= at[L]
      /\ \A i \in 2..L : at[i - 1] < at[i]
  BY <1>31 DEF IsChain, IsWay
<1>5. PICK last \in Nat : last = at[L]
  BY <1>1, <1>4
<1>6. L \in 1..L
  BY <1>1
<1>7. /\ \A i \in 1..L : [role |-> c.role, seq |-> at[i]] \in refs
      /\ \A f \in refs : f.role = c.role /\ \E i \in 1..L : f.seq = at[i]
  <2>1. UNION {Chain(events, view, c)[i] : i \in 1..L} = {at[i] : i \in 1..L}
    <3>1. \A i \in 1..L : Chain(events, view, c)[i] = {at[i]}
      BY <1>4
    <3>2. \A p : p \in UNION {Chain(events, view, c)[i] : i \in 1..L}
                 <=> \E i \in 1..L : p = at[i]
      BY <3>1
    <3> QED
      BY <3>2
  <2> QED
    BY <1>3, <2>1 DEF Refs
<1>8. refs # {} /\ \E f \in refs : f.seq = last
  BY <1>5, <1>6, <1>7
<1>9. \A f \in refs : f.role = c.role /\ f.seq \in view[c.role] /\ f.seq <= last
  BY <1>4, <1>5, <1>7 DEF Matching
<1>10. \A k : UpTo(view, c, k)[c.role] = {n \in view[c.role] : n <= k}
  BY <1>2 DEF UpTo
<1>11. TrueOf(events, UpTo(view, c, last), c)
  <2>1. \A i \in 1..L : /\ at[i] \in UpTo(view, c, last)[c.role]
                        /\ events[c.role][at[i]].name = c.names[i]
    BY <1>4, <1>5, <1>10 DEF Matching
  <2>2. PICK P : P = UpTo(view, c, last)[c.role]
    OBVIOUS
  <2>3. at \in [1..L -> P]
    BY <1>4, <2>1, <2>2
  <2> QED
    BY <1>1, <1>4, <2>1, <2>2, <2>3 DEF TrueOf
<1>12. ~TrueOf(events, UpTo(view, c, last - 1), c)
  <2>1. SUFFICES ASSUME TrueOf(events, UpTo(view, c, last - 1), c) PROVE FALSE
    OBVIOUS
  <2>2. PICK by \in [1..L -> UpTo(view, c, last - 1)[c.role]] :
          /\ \A i \in 1..L : events[c.role][by[i]].name = c.names[i]
          /\ \A i \in 2..L : by[i - 1] < by[i]
    BY <1>1, <2>1 DEF TrueOf
  <2>3. \A i \in 1..L : by[i] \in view[c.role] /\ by[i] <= last - 1
    BY <1>10, <2>2
  <2>4. \A i \in 1..L : by[i] \in Matching(events, view, c.role, c.names[i])
    BY <2>2, <2>3 DEF Matching
  <2>41. IsWay(events, view, c, L, by)
    BY <2>2, <2>4 DEF IsWay
  <2>5. Reached(Chain(events, view, c)[L], by[L])
    BY <1>1, <1>6, <2>41, ChainReaches
  <2>6. at[L] <= by[L]
    BY <1>4, <1>6, <2>5 DEF Reached
  <2>7. by[L] \in Nat
    BY <1>6, <2>3
  <2> QED
    BY <1>5, <1>6, <2>3, <2>6, <2>7
<1> QED
  BY <1>5, <1>8, <1>9, <1>11, <1>12 DEF CameTrueAt

\* So is the evidence for any condition that has no parts.
LEMMA PartIsEarliest ==
  ASSUME NEW roles, NEW view \in [roles -> SUBSET Nat], NEW events, NEW c,
         c.kind \in Parts, ValidPart(c, roles),
         NEW b \in Nat, view[c.role] \in SUBSET (1..b),
         NEW refs \in Part(events, view, c)
  PROVE  \E last \in Nat : CameTrueAt(events, view, c, refs, last)
<1>1. CASE c.kind = "sequence"
  <2>1. refs \in Sequential(events, view, c)
    BY <1>1 DEF Part
  <2> QED
    BY <1>1, <2>1, SequenceIsEarliest
<1>2. CASE c.kind \in {"one", "count"}
  <2>1. refs \in Simple(events, view, c)
    BY <1>2 DEF Part
  <2> QED
    BY <1>2, <2>1, SimpleIsEarliest
<1> QED
  BY <1>1, <1>2 DEF Parts

\* The parts of a condition, and their roles.
LEMMA PartsAreValid ==
  ASSUME NEW roles, NEW c, ValidCondition(c, roles)
  PROVE  /\ c.kind \in {"all", "any"} =>
              \A i \in DOMAIN c.parts : /\ c.parts[i].kind \in Parts /\ c.parts[i].role \in roles
                                        /\ ValidPart(c.parts[i], roles)
         /\ c.kind \notin {"all", "any"} => c.kind \in Parts /\ c.role \in roles /\ ValidPart(c, roles)
<1>1. CASE c.kind \in {"all", "any"}
  BY <1>1 DEF ValidCondition, ValidPart, Parts
<1>2. CASE c.kind \notin {"all", "any"}
  BY <1>2 DEF ValidCondition, ValidPart, Parts
<1> QED
  BY <1>1, <1>2

\* Each part of evidence for all comes from its own part of the condition.
LEMMA PartsTogether ==
  ASSUME NEW events, NEW view, NEW c, c.kind = "all",
         NEW refs \in Evidence(events, view, c)
  PROVE  \E of \in [DOMAIN c.parts -> SUBSET refs] :
           /\ refs = UNION {of[i] : i \in DOMAIN c.parts}
           /\ \A i \in DOMAIN c.parts : of[i] \in Part(events, view, c.parts[i])
<1> DEFINE Found(i) == Part(events, view, c.parts[i])
<1>1. PICK D : D = DOMAIN c.parts
  OBVIOUS
<1>2. (\A i \in D : Found(i) # {}) /\ refs = UNION UNION {Found(i) : i \in D}
  BY <1>1 DEF Evidence
<1>3. PICK of : of = [i \in D |-> CHOOSE e : e \in Found(i)]
  OBVIOUS
<1>4. \A i \in D : of[i] \in Found(i)
  <2> HIDE DEF Found
  <2> QED
    BY <1>2, <1>3
<1>5. \A i \in D : Found(i) = {of[i]}
  <2>1. ASSUME NEW i \in D, NEW e \in Found(i) PROVE e = of[i]
    BY <1>4, PartIsOne
  <2> QED
    BY <1>4, <2>1
<1> HIDE DEF Found
<1>6. refs = UNION {of[i] : i \in D}
  <2>1. UNION {Found(i) : i \in D} = {of[i] : i \in D}
    <3>1. \A e : e \in UNION {Found(i) : i \in D} <=> \E i \in D : e = of[i]
      BY <1>5
    <3> QED
      BY <3>1
  <2> QED
    BY <1>2, <2>1
<1>7. of \in [D -> SUBSET refs]
  <2>1. \A i \in D : of[i] \in SUBSET refs
    BY <1>6
  <2> QED
    BY <1>3, <2>1
<1> QED
  BY <1>1, <1>4, <1>6, <1>7 DEF Found

\* What evaluateOne finds is the evidence with which the condition came true.
LEMMA EvidenceIsEarliestAt ==
  ASSUME NEW roles, NEW view \in [roles -> SUBSET Nat], NEW events, NEW c,
         ValidCondition(c, roles),
         NEW b \in [roles -> Nat], \A r \in roles : view[r] \in SUBSET (1..b[r]),
         NEW refs \in Evidence(events, view, c)
  PROVE  EarliestAt(events, view, c, refs)
<1>0. /\ c.kind \in {"all", "any"} =>
           \A i \in DOMAIN c.parts : /\ c.parts[i].kind \in Parts /\ c.parts[i].role \in roles
                                     /\ ValidPart(c.parts[i], roles)
      /\ c.kind \notin {"all", "any"} => c.kind \in Parts /\ c.role \in roles /\ ValidPart(c, roles)
  BY PartsAreValid
<1>1. CASE c.kind = "all"
  <2>1. PICK of \in [DOMAIN c.parts -> SUBSET refs] :
          /\ refs = UNION {of[i] : i \in DOMAIN c.parts}
          /\ \A i \in DOMAIN c.parts : of[i] \in Part(events, view, c.parts[i])
    BY <1>1, PartsTogether
  <2>2. ASSUME NEW i \in DOMAIN c.parts
        PROVE  \E last \in Nat : CameTrueAt(events, view, c.parts[i], of[i], last)
    <3>1. PICK p : p = c.parts[i]
      OBVIOUS
    <3>2. p.kind \in Parts /\ p.role \in roles /\ ValidPart(p, roles)
      BY <1>0, <1>1, <3>1
    <3>3. PICK k \in Nat : k = b[p.role]
      BY <3>2
    <3>5. view[p.role] \in SUBSET (1..k) /\ of[i] \in Part(events, view, p)
      BY <2>1, <3>1, <3>2, <3>3
    <3>4. \E last \in Nat : CameTrueAt(events, view, p, of[i], last)
      BY <3>2, <3>5, PartIsEarliest
    <3> QED
      BY <3>1, <3>4
  <2> QED
    BY <1>1, <2>1, <2>2 DEF EarliestAt
<1>2. CASE c.kind = "any"
  <2>1. PICK i \in DOMAIN c.parts : refs \in Part(events, view, c.parts[i])
    BY <1>2 DEF Evidence
  <2>2. PICK p : p = c.parts[i]
    OBVIOUS
  <2>3. p.kind \in Parts /\ p.role \in roles /\ ValidPart(p, roles)
    BY <1>0, <1>2, <2>2
  <2>6. PICK k \in Nat : k = b[p.role]
    BY <2>3
  <2>4. view[p.role] \in SUBSET (1..k) /\ refs \in Part(events, view, p)
    BY <2>1, <2>2, <2>3, <2>6
  <2>5. \E last \in Nat : CameTrueAt(events, view, p, refs, last)
    BY <2>3, <2>4, PartIsEarliest
  <2> QED
    BY <1>2, <2>2, <2>5 DEF EarliestAt
<1>3. CASE c.kind \notin {"all", "any"}
  <2>1. refs \in Part(events, view, c)
    BY <1>3 DEF Evidence
  <2>3. PICK k \in Nat : k = b[c.role]
    BY <1>0, <1>3
  <2>4. view[c.role] \in SUBSET (1..k)
    BY <1>0, <1>3, <2>3
  <2>2. \E last \in Nat : CameTrueAt(events, view, c, refs, last)
    BY <1>0, <1>3, <2>1, <2>4, PartIsEarliest
  <2> QED
    BY <1>3, <2>2 DEF EarliestAt
<1> QED
  BY <1>1, <1>2, <1>3

\* Streams that are the same as far as they were read.
SameAsRead(roles, e, v, f, w, read) ==
  \A r \in roles : /\ v[r] = {n \in w[r] : n <= read[r]}
                   /\ \A n \in v[r] : e[r][n].name = f[r][n].name

\* It stays so when the streams have grown.
LEMMA EarliestStays ==
  ASSUME NEW roles, NEW v \in [roles -> SUBSET Nat], NEW w \in [roles -> SUBSET Nat],
         NEW e, NEW f, NEW c, ValidCondition(c, roles),
         NEW read \in [roles -> Nat], SameAsRead(roles, e, v, f, w, read),
         NEW refs, EarliestAt(e, v, c, refs)
  PROVE  EarliestAt(f, w, c, refs)
<1>00. \A r \in roles : /\ v[r] = {n \in w[r] : n <= read[r]}
                        /\ \A n \in v[r] : e[r][n].name = f[r][n].name
  BY DEF SameAsRead
<1>0. /\ c.kind \in {"all", "any"} =>
           \A i \in DOMAIN c.parts : /\ c.parts[i].kind \in Parts /\ c.parts[i].role \in roles
                                     /\ ValidPart(c.parts[i], roles)
      /\ c.kind \notin {"all", "any"} => c.kind \in Parts /\ c.role \in roles /\ ValidPart(c, roles)
  BY PartsAreValid
<1>1. ASSUME NEW p, p.kind \in Parts, p.role \in roles,
             NEW g, NEW last \in Nat, CameTrueAt(e, v, p, g, last)
      PROVE  CameTrueAt(f, w, p, g, last)
  <2>1. PICK bound \in Nat : bound = read[p.role]
    BY <1>1
  <2>2. v[p.role] = {n \in w[p.role] : n <= bound}
    BY <1>00, <1>1, <2>1
  <2>3. \A n \in v[p.role] : e[p.role][n].name = f[p.role][n].name
    BY <1>00, <1>1
  <2> QED
    BY <1>1, <2>2, <2>3, CameTrueStays
<1>2. CASE c.kind = "all"
  <2>1. PICK of \in [DOMAIN c.parts -> SUBSET refs] :
          /\ refs = UNION {of[i] : i \in DOMAIN c.parts}
          /\ \A i \in DOMAIN c.parts : \E last \in Nat :
               CameTrueAt(e, v, c.parts[i], of[i], last)
    BY <1>2 DEF EarliestAt
  <2>2. ASSUME NEW i \in DOMAIN c.parts
        PROVE  \E last \in Nat : CameTrueAt(f, w, c.parts[i], of[i], last)
    BY <1>0, <1>1, <1>2, <2>1
  <2> QED
    BY <1>2, <2>1, <2>2 DEF EarliestAt
<1>3. CASE c.kind = "any"
  <2>1. PICK i \in DOMAIN c.parts : \E last \in Nat : CameTrueAt(e, v, c.parts[i], refs, last)
    BY <1>3 DEF EarliestAt
  <2>2. \E last \in Nat : CameTrueAt(f, w, c.parts[i], refs, last)
    BY <1>0, <1>1, <1>3, <2>1
  <2> QED
    BY <1>3, <2>2 DEF EarliestAt
<1>4. CASE c.kind \notin {"all", "any"}
  <2>1. \E last \in Nat : CameTrueAt(e, v, c, refs, last)
    BY <1>4 DEF EarliestAt
  <2>2. \E last \in Nat : CameTrueAt(f, w, c, refs, last)
    BY <1>0, <1>1, <1>4, <2>1
  <2> QED
    BY <1>4, <2>2 DEF EarliestAt
<1> QED
  BY <1>2, <1>3, <1>4

\* The evidence is the earliest in the sense of the reference.
LEMMA EarliestIs ==
  ASSUME NEW roles, NEW view \in [roles -> SUBSET Nat], NEW events, NEW c,
         ValidCondition(c, roles), NEW refs, EarliestAt(events, view, c, refs)
  PROVE  IsEarliestEvidence(events, view, c, refs)
<1>0. /\ c.kind \in {"all", "any"} => \A i \in DOMAIN c.parts : c.parts[i].role \in roles
      /\ c.kind \notin {"all", "any"} => c.role \in roles
  BY PartsAreValid
<1>1. ASSUME NEW p, p.role \in roles, NEW g, NEW last \in Nat,
             CameTrueAt(events, view, p, g, last)
      PROVE  CameTrueWith(events, view, p, g)
  <2>1. view[p.role] \in SUBSET Nat
    BY <1>1
  <2> QED
    BY <1>1, <2>1, CameTrueIs
<1>2. CASE c.kind = "all"
  <2>1. PICK of \in [DOMAIN c.parts -> SUBSET refs] :
          /\ refs = UNION {of[i] : i \in DOMAIN c.parts}
          /\ \A i \in DOMAIN c.parts : \E last \in Nat :
               CameTrueAt(events, view, c.parts[i], of[i], last)
    BY <1>2 DEF EarliestAt
  <2>2. \A i \in DOMAIN c.parts : CameTrueWith(events, view, c.parts[i], of[i])
    BY <1>0, <1>1, <1>2, <2>1
  <2> QED
    BY <1>2, <2>1, <2>2 DEF IsEarliestEvidence
<1>3. CASE c.kind = "any"
  <2>1. PICK i \in DOMAIN c.parts :
          \E last \in Nat : CameTrueAt(events, view, c.parts[i], refs, last)
    BY <1>3 DEF EarliestAt
  <2>2. CameTrueWith(events, view, c.parts[i], refs)
    BY <1>0, <1>1, <1>3, <2>1
  <2> QED
    BY <1>3, <2>2 DEF IsEarliestEvidence
<1>4. CASE c.kind \notin {"all", "any"}
  <2>1. \E last \in Nat : CameTrueAt(events, view, c, refs, last)
    BY <1>4 DEF EarliestAt
  <2>2. CameTrueWith(events, view, c, refs)
    BY <1>0, <1>1, <1>4, <2>1
  <2> QED
    BY <1>4, <2>2 DEF IsEarliestEvidence
<1> QED
  BY <1>2, <1>3, <1>4

\* What a condition asks for, or more than that.
HoldsOrMore(events, view, c) ==
  LET number == Cardinality(Matching(events, view, c.role, c.name)) IN
  /\ c.kind = "one" => number > 0
  /\ c.kind = "count" =>
       /\ c.operator = "gte" => number >= c.value
       /\ c.operator = "eq" => number = c.value \/ number > c.value
       /\ c.operator = "lte" => number <= c.value \/ number > c.value
  /\ c.kind = "sequence" => Chain(events, view, c)[Len(c.names)] # {}

\* A condition that is true of a part of the streams holds of more of them, or is exceeded.
LEMMA TrueLater ==
  ASSUME NEW roles, NEW events, NEW v, NEW w, NEW c, c.kind \in Parts, ValidPart(c, roles),
         NEW b \in Nat, w[c.role] \in SUBSET (1..b), v[c.role] \subseteq w[c.role],
         TrueOf(events, v, c)
  PROVE  HoldsOrMore(events, w, c)
<1>0. PICK S, T : S = Matching(events, v, c.role, c.name) /\ T = Matching(events, w, c.role, c.name)
  OBVIOUS
<1>1. S \in SUBSET (1..b) /\ T \in SUBSET (1..b) /\ S \subseteq T
  BY <1>0 DEF Matching
<1>10. /\ c.kind = "one" => (TrueOf(events, v, c) <=> S # {})
       /\ c.kind = "count" =>
            (TrueOf(events, v, c) <=> Compares(c.operator, Cardinality(S), c.value))
  BY <1>0, TrueByNumber
<1>2. /\ Cardinality(S) \in Nat /\ Cardinality(T) \in Nat
      /\ Cardinality(S) <= Cardinality(T)
      /\ (Cardinality(S) = 0 <=> S = {}) /\ (Cardinality(T) = 0 <=> T = {})
  BY <1>1, PositionsAreFinite
<1>3. c.kind = "one" => Cardinality(T) > 0
  <2>1. c.kind = "one" => S # {}
    BY <1>10
  <2> QED
    BY <1>2, <2>1
<1>4. ASSUME c.kind = "count"
      PROVE  /\ c.operator = "gte" => Cardinality(T) >= c.value
             /\ c.operator = "eq" => Cardinality(T) = c.value \/ Cardinality(T) > c.value
             /\ c.operator = "lte" => Cardinality(T) <= c.value \/ Cardinality(T) > c.value
  <2>1. c.operator \in {"eq", "gte", "lte"} /\ c.value \in Nat
    BY <1>4 DEF ValidPart
  <2>2. Compares(c.operator, Cardinality(S), c.value)
    BY <1>10, <1>4
  <2>3. /\ c.operator = "eq" => Cardinality(S) = c.value
        /\ c.operator = "gte" => Cardinality(S) >= c.value
    BY <2>2, ComparesIs
  <2> QED
    BY <1>2, <2>1, <2>3
<1>5. ASSUME c.kind = "sequence" PROVE Chain(events, w, c)[Len(c.names)] # {}
  <2>1. PICK L \in Nat : L # 0 /\ L = Len(c.names)
    <3>1. c.names \in Seq({c.names[i] : i \in DOMAIN c.names}) /\ c.names # <<>>
      BY <1>5 DEF ValidPart
    <3> QED
      BY <3>1
  <2>20. c.kind = "sequence"
    BY <1>5
  <2>2. PICK P : P = v[c.role]
    OBVIOUS
  <2>3. PICK at \in [1..L -> P] :
          /\ \A i \in 1..L : events[c.role][at[i]].name = c.names[i]
          /\ \A i \in 2..L : at[i - 1] < at[i]
    <3>1. \E at \in [1..Len(c.names) -> v[c.role]] :
            /\ \A i \in 1..Len(c.names) : events[c.role][at[i]].name = c.names[i]
            /\ \A i \in 2..Len(c.names) : at[i - 1] < at[i]
      BY <2>20 DEF TrueOf
    <3> QED
      BY <2>1, <2>2, <3>1
  <2>31. \A i \in 1..L : at[i] \in w[c.role]
    BY <2>2, <2>3
  <2>4. \A i \in 1..L : at[i] \in Matching(events, w, c.role, c.names[i])
    BY <2>3, <2>31 DEF Matching
  <2>5. IsWay(events, w, c, L, at)
    BY <2>3, <2>4 DEF IsWay
  <2>6. L \in 1..L
    BY <2>1
  <2>7. \A i \in 1..L : Reached(Chain(events, w, c)[i], at[i])
    BY <2>1, <2>5, ChainReaches
  <2> QED
    BY <2>1, <2>6, <2>7 DEF Reached
<1> QED
  BY <1>0, <1>3, <1>4, <1>5 DEF HoldsOrMore

\* Once its earliest evidence is there, a condition holds of all keys together, and later.
LEMMA CameTrueHolds ==
  ASSUME NEW roles, NEW events, NEW v \in [roles -> SUBSET Nat], NEW w, NEW c,
         c.kind \in Parts, c.role \in roles, ValidPart(c, roles),
         NEW b \in Nat, w[c.role] \in SUBSET (1..b), v[c.role] \subseteq w[c.role],
         NEW refs, NEW last \in Nat, CameTrueAt(events, v, c, refs, last)
  PROVE  HoldsOrMore(events, w, c)
<1>1. PICK u : u = UpTo(v, c, last)
  OBVIOUS
<1>2. TrueOf(events, u, c)
  BY <1>1 DEF CameTrueAt
<1>3. u[c.role] \subseteq w[c.role]
  BY <1>1 DEF UpTo
<1> QED
  BY <1>2, <1>3, TrueLater

-----------------------------------------------------------------------------
(***************************************************************************)
(* Reasons: what an activation was opened with.                             *)
(***************************************************************************)
\* The streams by role, and what counts of them for a subscription or an activation.
ByRole(streams) == [r \in Roles |-> streams[Bindings[r]]]
Counting(streams, boundary, s) ==
  [r \in Roles |-> {n \in 1..Len(streams[Bindings[r]]) : s \in FromStart \/ n > boundary[r]}]
Group(streams, boundary, a) ==
  [r \in Roles |-> {n \in Counting(streams, boundary, a.sub)[r] : streams[Bindings[r]][n].key = a.key}]

\* An activation is opened with the earliest evidence for its condition; without a key,
\* with the one event that it is of.
Reasoned(streams, boundary, o) ==
  LET c == When[o.act.sub] IN
  IF o.act.sub \in Keyed
  THEN EarliestAt(ByRole(streams), Group(streams, boundary, o.act), c, o.refs)
  ELSE /\ o.refs = {o.act.event}
       /\ o.act.event \in
            Refs(c.role, Matching(ByRole(streams), Counting(streams, boundary, o.act.sub),
                                  c.role, c.name))

ReasonsSound ==
  /\ \A n \in Of("opened") : Reasoned(stream, Boundary, records[n])
  /\ \A j \in {job} \ {NoJob} : j.at = "open" => \A o \in j.open : Reasoned(stream, Boundary, o)

StreamsLonger(old, new) ==
  /\ {old, new} \subseteq [Surfaces -> Seq(StreamEvents)]
  /\ \A s \in Surfaces : /\ Len(old[s]) <= Len(new[s])
                         /\ \A n \in 1..Len(old[s]) : new[s][n] = old[s][n]

\* The conditions of the subscriptions are valid.
LEMMA ConditionsAreValid ==
  ASSUME NEW s \in Subscriptions
  PROVE  /\ ValidCondition(When[s], Roles)
         /\ s \notin Keyed => /\ When[s].kind = "one" /\ When[s].role \in Roles
                              /\ ValidPart(When[s], Roles)
<1>1. ValidCondition(When[s], Roles) /\ (s \notin Keyed => When[s].kind = "one")
  BY DefinitionAssumption DEF ValidDefinition
<1>2. s \notin Keyed => When[s].role \in Roles /\ ValidPart(When[s], Roles)
  BY <1>1 DEF ValidCondition, ValidPart
<1> QED
  BY <1>1, <1>2

\* What counts is within the streams.
LEMMA CountingIs ==
  ASSUME NEW st \in [Surfaces -> Seq(StreamEvents)], NEW bd, NEW a
  PROVE  /\ Counting(st, bd, a.sub) \in [Roles -> SUBSET Nat]
         /\ Group(st, bd, a) \in [Roles -> SUBSET Nat]
         /\ \A r \in Roles :
              /\ Bindings[r] \in Surfaces /\ Len(st[Bindings[r]]) \in Nat
              /\ Counting(st, bd, a.sub)[r] \in SUBSET (1..Len(st[Bindings[r]]))
              /\ Group(st, bd, a)[r] \subseteq Counting(st, bd, a.sub)[r]
              /\ Group(st, bd, a)[r] \in SUBSET (1..Len(st[Bindings[r]]))
<1>1. \A r \in Roles : Bindings[r] \in Surfaces
  BY EngineAssumption
<1>2. \A r \in Roles : Len(st[Bindings[r]]) \in Nat
  BY <1>1
<1>3. \A r \in Roles : Counting(st, bd, a.sub)[r] \in SUBSET (1..Len(st[Bindings[r]]))
  BY DEF Counting
<1>4. \A r \in Roles : Group(st, bd, a)[r] \subseteq Counting(st, bd, a.sub)[r]
  BY DEF Group
<1>5. \A r \in Roles : Group(st, bd, a)[r] \in SUBSET (1..Len(st[Bindings[r]]))
  BY <1>3, <1>4
<1>6. Counting(st, bd, a.sub) \in [Roles -> SUBSET Nat]
  BY DEF Counting
<1>7. Group(st, bd, a) \in [Roles -> SUBSET Nat]
  <2>1. Group(st, bd, a) = [r \in Roles |-> Group(st, bd, a)[r]]
    BY DEF Group
  <2>2. \A r \in Roles : Group(st, bd, a)[r] \in SUBSET Nat
    BY <1>5
  <2> QED
    BY <2>1, <2>2
<1> QED
  BY <1>1, <1>2, <1>3, <1>4, <1>5, <1>6, <1>7

\* A reason stays a reason when the streams grow.
LEMMA ReasonStays ==
  ASSUME NEW st, NEW new, StreamsLonger(st, new), NEW bd,
         NEW o, o.act.sub \in Subscriptions, Reasoned(st, bd, o)
  PROVE  Reasoned(new, bd, o)
<1>1. PICK a, c : a = o.act /\ c = When[a.sub]
  OBVIOUS
<1>2. /\ st \in [Surfaces -> Seq(StreamEvents)] /\ new \in [Surfaces -> Seq(StreamEvents)]
      /\ \A s \in Surfaces : /\ Len(st[s]) <= Len(new[s])
                             /\ \A n \in 1..Len(st[s]) : new[s][n] = st[s][n]
  BY DEF StreamsLonger
<1>3. PICK read : read = [r \in Roles |-> Len(st[Bindings[r]])]
  OBVIOUS
<1>4. \A r \in Roles : /\ Bindings[r] \in Surfaces
                       /\ Len(st[Bindings[r]]) \in Nat /\ Len(new[Bindings[r]]) \in Nat
                       /\ Len(st[Bindings[r]]) <= Len(new[Bindings[r]])
                       /\ read[r] = Len(st[Bindings[r]])
  BY <1>2, <1>3, EngineAssumption
<1>5. read \in [Roles -> Nat]
  BY <1>3, <1>4
<1>6. ASSUME NEW r \in Roles
      PROVE  /\ Counting(st, bd, a.sub)[r] = {n \in Counting(new, bd, a.sub)[r] : n <= read[r]}
             /\ Group(st, bd, a)[r] = {n \in Group(new, bd, a)[r] : n <= read[r]}
             /\ \A n \in Counting(st, bd, a.sub)[r] : ByRole(st)[r][n] = ByRole(new)[r][n]
  <2>1. PICK s \in Surfaces : s = Bindings[r]
    BY <1>4
  <2>2. PICK k \in Nat, h \in Nat : k = Len(st[s]) /\ h = Len(new[s]) /\ k <= h /\ read[r] = k
    BY <1>4, <2>1
  <2>3. \A n \in 1..k : new[s][n] = st[s][n]
    BY <1>2, <2>2
  <2>4. \A n : n \in 1..k <=> n \in 1..h /\ n <= k
    BY <2>2
  <2>5. Counting(st, bd, a.sub)[r] = {n \in 1..k : a.sub \in FromStart \/ n > bd[r]}
    BY <2>1, <2>2 DEF Counting
  <2>6. Counting(new, bd, a.sub)[r] = {n \in 1..h : a.sub \in FromStart \/ n > bd[r]}
    BY <2>1, <2>2 DEF Counting
  <2>7. Counting(st, bd, a.sub)[r] = {n \in Counting(new, bd, a.sub)[r] : n <= k}
    BY <2>4, <2>5, <2>6
  <2>8. Group(st, bd, a)[r] = {n \in Counting(st, bd, a.sub)[r] : st[s][n].key = a.key}
    BY <2>1 DEF Group
  <2>9. Group(new, bd, a)[r] = {n \in Counting(new, bd, a.sub)[r] : new[s][n].key = a.key}
    BY <2>1 DEF Group
  <2>10. \A n \in Counting(st, bd, a.sub)[r] : new[s][n] = st[s][n]
    BY <2>3, <2>5
  <2>11. Group(st, bd, a)[r] = {n \in Group(new, bd, a)[r] : n <= k}
    BY <2>7, <2>8, <2>9, <2>10
  <2>12. ByRole(st)[r] = st[s] /\ ByRole(new)[r] = new[s]
    BY <2>1 DEF ByRole
  <2> QED
    BY <2>2, <2>7, <2>10, <2>11, <2>12
<1>7. CASE a.sub \in Keyed
  <2>1. EarliestAt(ByRole(st), Group(st, bd, a), c, o.refs)
    BY <1>1, <1>7 DEF Reasoned
  <2>2. PICK v \in [Roles -> SUBSET Nat], w \in [Roles -> SUBSET Nat] :
          v = Group(st, bd, a) /\ w = Group(new, bd, a)
    BY <1>2, CountingIs
  <2>3. \A r \in Roles : v[r] = {n \in w[r] : n <= read[r]}
    BY <1>6, <2>2
  <2>4. \A r \in Roles : \A n \in v[r] : ByRole(st)[r][n].name = ByRole(new)[r][n].name
    BY <1>2, <1>6, <2>2, CountingIs
  <2>5. ValidCondition(c, Roles)
    BY <1>1, ConditionsAreValid
  <2>6. EarliestAt(ByRole(st), v, c, o.refs)
    BY <2>1, <2>2
  <2>8. SameAsRead(Roles, ByRole(st), v, ByRole(new), w, read)
    BY <2>3, <2>4 DEF SameAsRead
  <2>7. EarliestAt(ByRole(new), w, c, o.refs)
    BY <1>5, <2>5, <2>6, <2>8, EarliestStays
  <2> QED
    BY <1>1, <1>7, <2>2, <2>7 DEF Reasoned
<1>8. CASE a.sub \notin Keyed
  <2>1. c.role \in Roles
    BY <1>1, <1>8, ConditionsAreValid
  <2>2. /\ o.refs = {a.event}
        /\ a.event \in Refs(c.role, Matching(ByRole(st), Counting(st, bd, a.sub), c.role, c.name))
    BY <1>1, <1>8 DEF Reasoned
  <2>3. Matching(ByRole(st), Counting(st, bd, a.sub), c.role, c.name)
          \subseteq Matching(ByRole(new), Counting(new, bd, a.sub), c.role, c.name)
    <3>1. PICK q, C, D : q = c.role /\ C = Counting(st, bd, a.sub) /\ D = Counting(new, bd, a.sub)
      OBVIOUS
    <3>2. /\ C[q] \subseteq D[q]
          /\ \A n \in C[q] : ByRole(st)[q][n] = ByRole(new)[q][n]
      BY <1>6, <2>1, <3>1
    <3>3. Matching(ByRole(st), C, q, c.name) \subseteq Matching(ByRole(new), D, q, c.name)
      BY <3>2 DEF Matching
    <3> QED
      BY <3>1, <3>3
  <2>4. a.event \in Refs(c.role, Matching(ByRole(new), Counting(new, bd, a.sub), c.role, c.name))
    BY <2>2, <2>3 DEF Refs
  <2> QED
    BY <1>1, <1>8, <2>2, <2>4 DEF Reasoned
<1> QED
  BY <1>7, <1>8

\* What a reconcile derives from what it has read has its reason in the streams.
LEMMA DerivedHasReason ==
  ASSUME StreamsSound, NEW read, Within(read), NEW o \in Derived(read)
  PROVE  o.act.sub \in Subscriptions /\ Reasoned(stream, Boundary, o)
<1>1. PICK s \in Subscriptions : o \in Activations(s, read)
  BY DEF Derived
<1>2. PICK bd, view, ev, c :
        bd = Boundary /\ view = Eligible(s, read) /\ ev = ByRole(stream) /\ c = When[s]
  OBVIOUS
<1>3. Events = ev
  BY <1>2 DEF Events, ByRole
<1>4. /\ stream \in [Surfaces -> Seq(StreamEvents)] /\ read \in [Roles -> Nat]
      /\ \A r \in Roles : /\ Bindings[r] \in Surfaces /\ Len(stream[Bindings[r]]) \in Nat
                          /\ read[r] \in Nat /\ read[r] <= Len(stream[Bindings[r]])
  BY EngineAssumption DEF StreamsSound, Within
<1>5. ASSUME NEW r \in Roles
      PROVE  view[r] = {n \in Counting(stream, bd, s)[r] : n <= read[r]}
  <2>1. PICK k \in Nat, h \in Nat : k = read[r] /\ h = Len(stream[Bindings[r]]) /\ k <= h
    BY <1>4
  <2>2. \A n : n \in 1..k <=> n \in 1..h /\ n <= k
    BY <2>1
  <2>3. view[r] = {n \in 1..k : s \in FromStart \/ n > bd[r]}
    BY <1>2, <2>1 DEF Eligible
  <2>4. Counting(stream, bd, s)[r] = {n \in 1..h : s \in FromStart \/ n > bd[r]}
    BY <2>1 DEF Counting
  <2> QED
    BY <2>1, <2>2, <2>3, <2>4
<1>6. CASE s \in Keyed
  <2>1. Activations(s, read)
          = UNION {{[kind |-> "opened", act |-> ByKey(s, k), refs |-> e] :
                      e \in Evidence(ev, [r \in Roles |-> {n \in view[r] : ev[r][n].key = k}], c)} :
                    k \in Keys}
    BY <1>2, <1>3, <1>6 DEF Activations
  <2>2. PICK k \in Keys :
          o \in {[kind |-> "opened", act |-> ByKey(s, k), refs |-> e] :
                   e \in Evidence(ev, [r \in Roles |-> {n \in view[r] : ev[r][n].key = k}], c)}
    BY <1>1, <2>1
  <2>3. PICK v : v = [r \in Roles |-> {n \in view[r] : ev[r][n].key = k}]
    OBVIOUS
  <2>4. PICK e \in Evidence(ev, v, c) : o = [kind |-> "opened", act |-> ByKey(s, k), refs |-> e]
    BY <2>2, <2>3
  <2>5. o.act.sub = s /\ o.act.key = k /\ o.refs = e
    BY <2>4 DEF ByKey
  <2>6. PICK w : w = Group(stream, bd, o.act)
    OBVIOUS
  <2>7. w \in [Roles -> SUBSET Nat]
    BY <1>4, <2>6, CountingIs
  <2>8. ASSUME NEW r \in Roles
        PROVE  v[r] = {n \in w[r] : n <= read[r]} /\ v[r] \in SUBSET (1..read[r])
    <3>1. v[r] = {n \in view[r] : ev[r][n].key = k} /\ ev[r] = stream[Bindings[r]]
      BY <1>2, <2>3 DEF ByRole
    <3>2. w[r] = {n \in Counting(stream, bd, s)[r] : stream[Bindings[r]][n].key = k}
      BY <2>5, <2>6 DEF Group
    <3>3. view[r] \in SUBSET (1..read[r])
      BY <1>2 DEF Eligible
    <3> QED
      BY <1>5, <3>1, <3>2, <3>3
  <2>9. v \in [Roles -> SUBSET Nat]
    <3>1. \A r \in Roles : v[r] \in SUBSET Nat
      BY <1>4, <2>8
    <3> QED
      BY <2>3, <3>1
  <2>10. ValidCondition(c, Roles)
    BY <1>2, ConditionsAreValid
  <2>11. EarliestAt(ev, v, c, e)
    BY <1>4, <2>4, <2>8, <2>9, <2>10, EvidenceIsEarliestAt
  <2>12. SameAsRead(Roles, ev, v, ev, w, read)
    BY <2>8 DEF SameAsRead
  <2>13. EarliestAt(ev, w, c, e)
    BY <1>4, <2>7, <2>9, <2>10, <2>11, <2>12, EarliestStays
  <2> QED
    BY <1>2, <1>6, <2>5, <2>6, <2>13 DEF Reasoned
<1>7. CASE s \notin Keyed
  <2>1. c.role \in Roles
    BY <1>2, <1>7, ConditionsAreValid
  <2>2. PICK ref \in Refs(c.role, Matching(ev, view, c.role, c.name)) :
          o = [kind |-> "opened", act |-> ByEvent(s, ref), refs |-> {ref}]
    BY <1>1, <1>2, <1>3, <1>7 DEF Activations
  <2>3. o.act.sub = s /\ o.act.event = ref /\ o.refs = {ref}
    BY <2>2 DEF ByEvent
  <2>4. PICK D : D = Counting(stream, bd, s)
    OBVIOUS
  <2>5. view[c.role] \subseteq D[c.role]
    BY <1>5, <2>1, <2>4
  <2>6. Matching(ev, view, c.role, c.name) \subseteq Matching(ev, D, c.role, c.name)
    BY <2>5 DEF Matching
  <2>7. ref \in Refs(c.role, Matching(ev, D, c.role, c.name))
    BY <2>6 DEF Refs
  <2> QED
    BY <1>2, <1>7, <2>3, <2>4, <2>7 DEF Reasoned
<1> QED
  BY <1>6, <1>7

-----------------------------------------------------------------------------
(***************************************************************************)
(* What a step may do to the streams, to the records and to a job.          *)
(***************************************************************************)
\* A step leaves the streams as they are, or adds to them at their ends.
LEMMA StreamsGrow ==
  ASSUME EngineInv, StreamsSound', [Next]_vars
  PROVE  StreamsLonger(stream, stream')
<1>1. StreamsSound
  BY DEF EngineInv
<1>2. CASE UNCHANGED stream
  <2>1. PICK st : st = stream
    OBVIOUS
  <2>2. st \in [Surfaces -> Seq(StreamEvents)] /\ st = stream'
    BY <1>1, <1>2, <2>1 DEF StreamsSound
  <2>3. \A s \in Surfaces : Len(st[s]) \in Nat
    BY <2>2
  <2> QED
    BY <2>1, <2>2, <2>3 DEF StreamsLonger
<1>3. CASE EffectsGrow
  <2>1. PICK st, new : st = stream /\ new = stream'
    OBVIOUS
  <2>2. \A s \in Surfaces : /\ Len(st[s]) <= Len(new[s])
                            /\ \A n \in 1..Len(st[s]) : new[s][n] = st[s][n]
    BY <1>3, <2>1 DEF EffectsGrow
  <2>3. {st, new} \subseteq [Surfaces -> Seq(StreamEvents)]
    <3>1. new \in [Surfaces -> Seq(StreamEvents)]
      BY <2>1 DEF StreamsSound
    <3> QED
      BY <1>1, <2>1, <3>1 DEF StreamsSound
  <2> QED
    BY <2>1, <2>2, <2>3 DEF StreamsLonger
<1>4. ASSUME NEW r \in Roles, NEW name \in Names, NEW key \in Keys, Happen(r, name, key)
      PROVE  EffectsGrow
  <2>1. PICK e : e = [name |-> name, key |-> key, by |-> None]
    OBVIOUS
  <2>2. e \in StreamEvents /\ e.by = None
    BY <2>1 DEF StreamEvents
  <2>3. Appended(r, e) /\ UNCHANGED <<records, turns>>
    BY <1>4, <2>1 DEF Happen
  <2> QED
    BY <1>1, <2>2, <2>3, EventAdded DEF Appended
<1>5. CASE Send
  <2>1. PICK j : j = job
    OBVIOUS
  <2>2. j # NoJob /\ j.at = "send" /\ SendSound(j)
    BY <1>5, <2>1 DEF Send, At, EngineInv, JobSound, Sending
  <2>3. PICK o : o = Head(j.ops)
    OBVIOUS
  <2>4. o \in RecordedOps
    BY <2>2, <2>3, Shortened DEF SendSound
  <2>5. CarryOut(o) /\ UNCHANGED records
    BY <1>5, <2>1, <2>3 DEF Send
  <2>6. EffectsGrow
    BY <2>4, <2>5, CarriedOut
  <2> QED
    BY <1>3, <2>6
<1>6. CASE JobStep
  <2>1. CASE Refuse \/ StartRegister \/ StartReconcile
             \/ \E kind \in Switches : StartStatus(kind)
    <3>1. UNCHANGED stream
      BY <2>1 DEF Refuse, StartRegister, StartReconcile, StartStatus, durable
    <3> QED
      BY <1>2, <3>1
  <2>2. CASE \/ \E r \in Roles : ReadBoundary(r) \/ Observe(r)
             \/ WriteRegistered \/ WriteStatus \/ Settle
             \/ Derive \/ Open \/ AllOpen \/ Try \/ Finish \/ Invoke
    <3>1. UNCHANGED stream
      BY <2>2 DEF ReadBoundary, Observe, WriteRegistered, WriteStatus, Settle, Derive, Open,
                  AllOpen, Try, Finish, Invoke, durable
    <3> QED
      BY <1>2, <3>1
  <2>3. CASE \/ \E message \in Messages : RunFails(message)
             \/ \E actions \in Plans : RunAsks(actions)
             \/ ActSettled \/ ActNew \/ SettleActivation \/ Fail
    <3>1. UNCHANGED stream
      BY <2>3 DEF RunFails, RunAsks, ActSettled, ActNew, SettleActivation, Fail, EndTry, durable
    <3> QED
      BY <1>2, <3>1
  <2> QED
    BY <1>3, <1>5, <1>6, <2>1, <2>2, <2>3 DEF JobStep
<1>7. CASE World
  <2>1. CASE Register \/ RegisterAgain \/ \E kind \in Switches : Switch(kind)
    <3>1. UNCHANGED stream
      BY <2>1 DEF Register, RegisterAgain, Switch, durable
    <3> QED
      BY <1>2, <3>1
  <2> QED
    BY <1>3, <1>4, <1>7, <2>1 DEF World
<1>8. CASE Err \/ Crash \/ UNCHANGED vars
  <2>1. UNCHANGED stream
    BY <1>8 DEF Err, Crash, vars, durable
  <2> QED
    BY <1>2, <2>1
<1> QED
  BY <1>6, <1>7, <1>8 DEF Next

\* Who writes what.
Adds(rec) ==
  /\ rec.kind = "registered" => records = <<>>
  /\ rec.kind = "opened" => Open /\ rec = FirstOf(job.open)
  /\ rec.kind = "status" => WriteStatus /\ rec.status = job.of
  /\ rec.kind = "recorded" => ActNew /\ rec.act = job.act /\ rec.op = Head(job.plan)
  /\ rec.kind = "done" => SettleActivation /\ rec.act = job.act
  /\ rec.kind = "failed" => Fail /\ rec = [kind |-> "failed", act |-> job.act, message |-> job.message]
  /\ rec.kind \in RecordKinds

\* A step leaves the records as they are, or adds one that says what the step did.
LEMMA RecordsGrow ==
  ASSUME EngineInv, [Next]_vars
  PROVE  UNCHANGED records \/ \E rec : records' = Append(records, rec) /\ Adds(rec)
<1>1. ASSUME NEW rec, Write(rec), Adds(rec)
      PROVE  UNCHANGED records \/ \E new : records' = Append(records, new) /\ Adds(new)
  BY <1>1 DEF Write
<1>2. CASE WriteRegistered
  <2>1. PICK rec : rec = [kind |-> "registered", boundary |-> job.read]
    OBVIOUS
  <2>2. records = <<>>
    BY <1>2 DEF WriteRegistered, At, EngineInv, JobSound
  <2>3. Write(rec) /\ Adds(rec)
    BY <1>2, <2>1, <2>2 DEF WriteRegistered, Adds, RecordKinds
  <2> QED
    BY <1>1, <2>3
<1>3. CASE WriteStatus
  <2>1. PICK rec : rec = [kind |-> "status", status |-> job.of, length |-> Len(records)]
    OBVIOUS
  <2>2. records' = Append(records, rec) /\ Adds(rec)
    BY <1>3, <2>1 DEF WriteStatus, Adds, RecordKinds
  <2> QED
    BY <2>2
<1>4. CASE Settle
  <2>1. PICK rec : rec = [kind |-> "settled", act |-> Head(job.ops).act, key |-> Head(job.ops).op.key]
    OBVIOUS
  <2>2. Write(rec) /\ Adds(rec)
    BY <1>4, <2>1 DEF Settle, Adds, RecordKinds
  <2> QED
    BY <1>1, <2>2
<1>5. CASE Open
  <2>1. PICK rec : rec = FirstOf(job.open)
    OBVIOUS
  <2>2. rec.kind = "opened"
    BY <1>5, <2>1 DEF Open, At, EngineInv, JobSound, OpenSound, FirstOf
  <2>3. Write(rec) /\ Adds(rec)
    BY <1>5, <2>1, <2>2 DEF Open, Adds, RecordKinds
  <2> QED
    BY <1>1, <2>3
<1>6. CASE Invoke
  <2>1. PICK rec : rec = [kind |-> "invoked", act |-> job.act,
                          nth |-> Cardinality(Invoked(job.act)) + 1]
    OBVIOUS
  <2>2. Write(rec) /\ Adds(rec)
    BY <1>6, <2>1 DEF Invoke, Adds, RecordKinds
  <2> QED
    BY <1>1, <2>2
<1>7. CASE ActNew
  <2>1. PICK rec : rec = [kind |-> "recorded", act |-> job.act, op |-> Head(job.plan)]
    OBVIOUS
  <2>2. rec.kind = "recorded" /\ rec.act = job.act /\ rec.op = Head(job.plan)
    BY <2>1
  <2>3. Write(rec)
    BY <1>7, <2>1 DEF ActNew
  <2>4. Adds(rec)
    BY <1>7, <2>2 DEF Adds, RecordKinds
  <2> QED
    BY <1>1, <2>3, <2>4
<1>8. CASE SettleActivation
  <2>1. PICK rec : rec = [kind |-> "done", act |-> job.act]
    OBVIOUS
  <2>2. rec.kind = "done" /\ rec.act = job.act
    BY <2>1
  <2>3. Write(rec)
    BY <1>8, <2>1 DEF SettleActivation, EndTry
  <2>4. Adds(rec)
    BY <1>8, <2>2 DEF Adds, RecordKinds
  <2> QED
    BY <1>1, <2>3, <2>4
<1>9. CASE Fail
  <2>1. PICK rec : rec = [kind |-> "failed", act |-> job.act, message |-> job.message]
    OBVIOUS
  <2>2. rec.kind = "failed"
    BY <2>1
  <2>3. Write(rec)
    BY <1>9, <2>1 DEF Fail, EndTry
  <2>4. Adds(rec)
    BY <1>9, <2>1, <2>2 DEF Adds, RecordKinds
  <2> QED
    BY <1>1, <2>3, <2>4
<1>10. CASE Refuse \/ StartRegister \/ StartReconcile
            \/ \E kind \in Switches : StartStatus(kind)
  BY <1>10 DEF Refuse, StartRegister, StartReconcile, StartStatus, durable
<1>11. CASE \/ \E r \in Roles : ReadBoundary(r) \/ Observe(r)
            \/ Send \/ Derive \/ AllOpen \/ Try \/ Finish \/ ActSettled
            \/ \E message \in Messages : RunFails(message)
            \/ \E actions \in Plans : RunAsks(actions)
  BY <1>11 DEF ReadBoundary, Observe, Send, Derive, AllOpen, Try, Finish, ActSettled,
               RunFails, RunAsks, durable
<1>12. CASE World \/ Err \/ Crash \/ UNCHANGED vars
  BY <1>12 DEF World, Register, RegisterAgain, Switch, Happen, Err, Crash, durable, vars
<1> QED
  BY <1>2, <1>3, <1>4, <1>5, <1>6, <1>7, <1>8, <1>9, <1>10, <1>11, <1>12 DEF Next, JobStep

\* Once there is a record, the boundary stays where it is.
LEMMA BoundaryIsFixed ==
  ASSUME EngineInv, RecordsSound', [Next]_vars, records # <<>>
  PROVE  Boundary' = Boundary
<1>1. 1 \in DOMAIN records /\ Of("registered") = {1}
  <2>1. Len(records) \in Nat /\ DOMAIN records = 1..Len(records)
    BY ListedFacts DEF EngineInv, RecordsSound
  <2>2. 1 \in DOMAIN records
    BY <2>1 DEF EngineInv, RecordsSound, Listed
  <2> QED
    BY <2>2 DEF Of, EngineInv, RecordsSound
<1>2. records'[1] = records[1] /\ 1 \in (DOMAIN records)'
  <2>1. CASE UNCHANGED records
    BY <1>1, <2>1
  <2>2. ASSUME NEW rec, records' = Append(records, rec)
        PROVE  records'[1] = records[1] /\ 1 \in (DOMAIN records)'
    BY <1>1, <2>2, RecordAdded DEF EngineInv
  <2> QED
    BY <2>1, <2>2, RecordsGrow
<1>3. Of("registered")' = {1}
  BY <1>2 DEF Of, RecordsSound
<1>4. Boundary = records[1].boundary
  BY <1>1 DEF Boundary
<1>5. Boundary' = records'[1].boundary
  BY <1>3 DEF Boundary
<1> QED
  BY <1>2, <1>4, <1>5

\* Activations to open come from what was derived.
LEMMA OpensComeFrom ==
  ASSUME EngineInv, [Next]_vars, NEW i, job' = i, i # NoJob, i.at = "open"
  PROVE  \/ Derive
         \/ \E j \in {job} \ {NoJob} : j.at = "open" /\ i.open \subseteq j.open
<1>1. PICK j : j = job
  OBVIOUS
<1>2. j # NoJob => DOMAIN j = JobFields
  BY <1>1 DEF EngineInv, JobSound
<1>3. CASE i = j
  BY <1>1, <1>3
<1>4. CASE Open
  <2>1. j # NoJob /\ j.at = "open" /\ i = [j EXCEPT !.open = @ \ {FirstOf(j.open)}]
    BY <1>1, <1>4 DEF Open, At
  <2>2. i.open \subseteq j.open
    BY <1>2, <2>1 DEF JobFields
  <2> QED
    BY <1>1, <2>1, <2>2
<1>5. ASSUME NEW kind \in Switches, StartStatus(kind) PROVE FALSE
  BY <1>5 DEF StartStatus, Fresh
<1>6. CASE StartRegister
  BY <1>6 DEF StartRegister, Fresh
<1>7. CASE StartReconcile
  <2>1. PICK f : f = Fresh(Head(chain), IF Pending = <<>> THEN "observe" ELSE "send")
    OBVIOUS
  <2>2. i = [f EXCEPT !.ops = Pending]
    BY <1>7, <2>1 DEF StartReconcile, Ended
  <2>3. f.at # "open" /\ i.at = f.at
    BY <2>1, <2>2 DEF Fresh
  <2> QED
    BY <2>3
<1>8. ASSUME NEW r \in Roles, ReadBoundary(r) \/ Observe(r) PROVE FALSE
  <2>1. /\ j # NoJob /\ j.at \in {"boundary", "observe"}
        /\ i = [j EXCEPT !.unread = @ \ {r}, !.read[r] = Len(stream[Bindings[r]])]
    BY <1>1, <1>8 DEF ReadBoundary, Observe, At, Read
  <2>2. i.at = j.at
    BY <1>2, <2>1 DEF JobFields
  <2> QED
    BY <2>1, <2>2
<1>9. ASSUME NEW k, NEW stage, stage # "open", k = [j EXCEPT !.at = stage], j # NoJob, i = k PROVE FALSE
  BY <1>2, <1>9 DEF JobFields
<1>10. CASE Send \/ Invoke
  <2>1. j # NoJob /\ \E stage \in {"settle", "run"} : i = [j EXCEPT !.at = stage]
    BY <1>1, <1>10 DEF Send, Invoke, At, Goes
  <2> QED
    BY <1>9, <2>1
<1>11. CASE Settle
  <2>1. j # NoJob /\ \E stage \in {"send", "act", "observe"} :
          i = [j EXCEPT !.ops = Tail(@), !.at = stage]
    BY <1>1, <1>11 DEF Settle, At
  <2> QED
    BY <1>2, <2>1 DEF JobFields
<1>12. CASE AllOpen
  <2>1. j # NoJob /\ \E left : i = [j EXCEPT !.at = "pick", !.left = left]
    BY <1>1, <1>12 DEF AllOpen, At
  <2> QED
    BY <1>2, <2>1 DEF JobFields
<1>13. CASE Try
  <2>0. j # NoJob
    BY <1>1, <1>13 DEF Try, At
  <2>1. PICK a : a = Head(j.left)
    OBVIOUS
  <2>2. CASE a.sub \in Handlers
    <3>1. Tries(a, "invoke", <<>>)
      BY <1>1, <1>13, <2>1, <2>2 DEF Try
    <3>2. i = [j EXCEPT !.left = Tail(@), !.act = a, !.at = "invoke", !.plan = <<>>]
      BY <1>1, <3>1 DEF Tries
    <3> QED
      BY <1>2, <2>0, <3>2 DEF JobFields
  <2>3. CASE a.sub \notin Handlers
    <3>1. PICK outcome \in Outcomes[a.sub] : Tries(a, "act", outcome.actions)
      BY <1>1, <1>13, <2>1, <2>3 DEF Try
    <3>2. i = [j EXCEPT !.left = Tail(@), !.act = a, !.at = "act", !.plan = outcome.actions]
      BY <1>1, <3>1 DEF Tries
    <3> QED
      BY <1>2, <2>0, <3>2 DEF JobFields
  <2> QED
    BY <2>2, <2>3
<1>14. ASSUME NEW message, RunFails(message) PROVE FALSE
  <2>1. j # NoJob /\ i = [j EXCEPT !.at = "fail", !.message = message]
    BY <1>1, <1>14 DEF RunFails, At
  <2> QED
    BY <1>2, <2>1 DEF JobFields
<1>15. ASSUME NEW actions, RunAsks(actions) PROVE FALSE
  <2>1. j # NoJob /\ i = [j EXCEPT !.at = "act", !.plan = actions]
    BY <1>1, <1>15 DEF RunAsks, At
  <2> QED
    BY <1>2, <2>1 DEF JobFields
<1>16. CASE ActSettled \/ ActNew
  <2>1. j # NoJob /\ \E stage \in {"act", "send"}, ops \in {<<>>, <<NextAction>>} :
          i = [j EXCEPT !.plan = Tail(@), !.at = stage, !.ops = ops]
    BY <1>1, <1>16 DEF ActSettled, ActNew, Acts, Advance, At
  <2> QED
    BY <1>2, <2>1 DEF JobFields
<1>17. CASE SettleActivation \/ Fail
  <2>1. j # NoJob /\ i = [j EXCEPT !.at = "pick", !.act = None, !.message = None]
    BY <1>1, <1>17 DEF SettleActivation, Fail, EndTry, At
  <2> QED
    BY <1>2, <2>1 DEF JobFields
<1>18. CASE Err
  <2>1. j # NoJob /\ i = [j EXCEPT !.at = "fail", !.message = "io", !.ops = <<>>]
    BY <1>1, <1>18 DEF Err, At
  <2> QED
    BY <1>2, <2>1 DEF JobFields
<1>19. CASE WriteRegistered \/ WriteStatus \/ Finish \/ Crash
  BY <1>19 DEF WriteRegistered, WriteStatus, Finish, Ended, Crash
<1>20. CASE Refuse \/ World \/ UNCHANGED vars
  <2>1. i = j
    BY <1>1, <1>20 DEF Refuse, World, Register, RegisterAgain, Switch, Happen, vars
  <2> QED
    BY <1>3, <2>1
<1> QED
  BY <1>4, <1>5, <1>6, <1>7, <1>8, <1>10, <1>11, <1>12, <1>13, <1>14, <1>15, <1>16, <1>17,
     <1>18, <1>19, <1>20 DEF Next, JobStep

\* Reasons are there when the activations are derived, and stay.
LEMMA ReasonsStay ==
  ASSUME EngineInv, EngineInv', ReasonsSound, [Next]_vars
  PROVE  ReasonsSound'
<1>1. PICK st, bd, new : st = stream /\ bd = Boundary /\ new = stream'
  OBVIOUS
<1>2. StreamsLonger(st, new)
  BY <1>1, StreamsGrow DEF EngineInv
<1>3. RecordsSound /\ RecordsSound' /\ StreamsSound
  BY DEF EngineInv
<1>4. records # <<>> => Boundary' = bd
  BY <1>1, <1>3, BoundaryIsFixed
<1>5. ASSUME NEW o, o.act.sub \in Subscriptions, Reasoned(st, bd, o) PROVE Reasoned(new, bd, o)
  BY <1>2, <1>5, ReasonStays
<1>6. ASSUME NEW j \in {job} \ {NoJob}, j.at = "open", NEW o \in j.open
      PROVE  /\ Reasoned(new, bd, o) /\ Boundary' = bd
  <2>1. Reasoned(st, bd, o) /\ OpenSound(j.open) /\ records # <<>>
    BY <1>1, <1>6 DEF ReasonsSound, EngineInv, JobSound
  <2>2. o.act.sub \in Subscriptions
    BY <1>6, <2>1 DEF OpenSound, ActivationIds
  <2> QED
    BY <1>4, <1>5, <2>1, <2>2
<1>7. ASSUME NEW n \in Of("opened") PROVE Reasoned(new, bd, records[n]) /\ Boundary' = bd
  <2>1. Reasoned(st, bd, records[n])
    BY <1>1 DEF ReasonsSound
  <2>2. records[n].act \in ActivationIds
    BY <1>3 DEF RecordsSound, Opened
  <2>3. records # <<>>
    BY <1>3 DEF Of
  <2>4. records[n].act.sub \in Subscriptions
    BY <2>2 DEF ActivationIds
  <2> QED
    BY <1>4, <1>5, <2>1, <2>3, <2>4
<1>8. ASSUME NEW n \in Of("opened")' PROVE Reasoned(new, bd, records'[n]) /\ Boundary' = bd
  <2>1. CASE UNCHANGED records
    <3>1. n \in Of("opened")
      BY <2>1 DEF Of
    <3> QED
      BY <1>7, <2>1, <3>1
  <2>2. ASSUME NEW rec, records' = Append(records, rec), Adds(rec)
        PROVE  Reasoned(new, bd, records'[n]) /\ Boundary' = bd
    <3>1. /\ Of("opened")' = Of("opened") \cup (IF rec.kind = "opened" THEN {Len(records) + 1} ELSE {})
          /\ \A m \in DOMAIN records : records'[m] = records[m]
          /\ records'[Len(records) + 1] = rec
      BY <1>3, <2>2, RecordAdded
    <3>2. CASE n \in Of("opened")
      BY <1>7, <3>1, <3>2 DEF Of
    <3>3. CASE n \notin Of("opened")
      <4>1. rec.kind = "opened" /\ records'[n] = rec
        BY <3>1, <3>3
      <4>2. Open /\ rec = FirstOf(job.open)
        BY <2>2, <4>1 DEF Adds
      <4>3. PICK j \in {job} \ {NoJob} : j.at = "open" /\ rec \in j.open
        BY <4>2 DEF Open, At, FirstOf
      <4> QED
        BY <1>6, <4>1, <4>3
    <3> QED
      BY <3>2, <3>3
  <2> QED
    BY <2>1, <2>2, RecordsGrow
<1>9. ASSUME NEW i, i = job', i # NoJob, i.at = "open", NEW o \in i.open
      PROVE  Reasoned(new, bd, o) /\ Boundary' = bd
  <2>1. CASE Derive
    <3>1. PICK j : j = job
      OBVIOUS
    <3>2. j # NoJob /\ j.at = "observe" /\ i = [j EXCEPT !.open = Derived(j.read), !.at = "open"]
      BY <1>9, <2>1, <3>1 DEF Derive, At
    <3>3. JobSound(j)
      BY <3>1, <3>2 DEF EngineInv
    <3>4. DOMAIN j = JobFields /\ Within(j.read) /\ records # <<>>
      BY <3>2, <3>3 DEF JobSound
    <3>5. i.open = Derived(j.read)
      BY <3>2, <3>4 DEF JobFields
    <3>6. o.act.sub \in Subscriptions /\ Reasoned(st, bd, o)
      BY <1>1, <1>3, <1>9, <3>4, <3>5, DerivedHasReason
    <3> QED
      BY <1>4, <1>5, <3>4, <3>6
  <2>2. ASSUME NEW j \in {job} \ {NoJob}, j.at = "open", i.open \subseteq j.open
        PROVE  Reasoned(new, bd, o) /\ Boundary' = bd
    BY <1>6, <1>9, <2>2
  <2> QED
    BY <1>9, <2>1, <2>2, OpensComeFrom
<1>10. PICK b : b = Boundary'
  OBVIOUS
<1>11. (\A n \in Of("opened") : Reasoned(stream, Boundary, records[n]))'
  BY <1>1, <1>8 DEF Reasoned
<1>12. PICK i : i = job'
  OBVIOUS
<1>13. \A o : i # NoJob /\ i.at = "open" /\ o \in i.open => Reasoned(new, bd, o) /\ b = bd
  BY <1>9, <1>10, <1>12
<1>14. (\A j \in {job} \ {NoJob} : j.at = "open" => \A o \in j.open : Reasoned(stream, Boundary, o))'
  BY <1>1, <1>10, <1>12, <1>13
<1> QED
  BY <1>11, <1>14 DEF ReasonsSound

\* An activation is opened for a reason, and the reason stays.
LEMMA ReasonsHold == Spec => []ReasonsSound
<1>1. Init => ReasonsSound
  BY DEF Init, ReasonsSound, Of
<1>2. EngineInv /\ EngineInv' /\ ReasonsSound /\ [Next]_vars => ReasonsSound'
  BY ReasonsStay
<1> QED
  BY <1>1, <1>2, EngineInvariant, PTL DEF Spec

\* The names that Engine has for the streams and for what counts of them.
LEMMA CountingIsEligible ==
  ASSUME NEW s
  PROVE  /\ Events = ByRole(stream)
         /\ Eligible(s, [r \in Roles |-> Len(stream[Bindings[r]])]) = Counting(stream, Boundary, s)
<1>1. Events = ByRole(stream)
  BY DEF Events, ByRole
<1>2. PICK read : read = [r \in Roles |-> Len(stream[Bindings[r]])]
  OBVIOUS
<1>3. \A r \in Roles : read[r] = Len(stream[Bindings[r]])
  BY <1>2
<1>4. Eligible(s, read) = Counting(stream, Boundary, s)
  BY <1>3 DEF Eligible, Counting
<1> QED
  BY <1>1, <1>2, <1>4

\* What an activation was opened with is the evidence with which its condition first came
\* true, and stays it, whatever comes later: for any condition that is admitted, however
\* often the reconcile looked, and wherever the host died.
THEOREM EvidenceStaysEarliest == Spec => []EvidenceIsEarliest
<1>1. EngineInv /\ ReasonsSound => EvidenceIsEarliest
  <2> SUFFICES ASSUME EngineInv, ReasonsSound, NEW n \in Of("opened")
               PROVE
                 LET a == records[n].act
                     view == Eligible(a.sub, [r \in Roles |-> Len(stream[Bindings[r]])])
                     group == [r \in Roles |-> {m \in view[r] : Events[r][m].key = a.key}]
                 IN  IF a.sub \in Keyed
                     THEN IsEarliestEvidence(Events, group, When[a.sub], records[n].refs)
                     ELSE records[n].refs = {a.event} /\ a.event.seq \in view[a.event.role]
    BY DEF EvidenceIsEarliest
  <2>1. PICK o, a, c, view : /\ o = records[n] /\ a = o.act /\ c = When[a.sub]
                             /\ view = Eligible(a.sub, [r \in Roles |-> Len(stream[Bindings[r]])])
    OBVIOUS
  <2>2. Events = ByRole(stream) /\ view = Counting(stream, Boundary, a.sub)
    BY <2>1, CountingIsEligible
  <2>3. a.sub \in Subscriptions
    <3>1. a \in Opened /\ Opened \subseteq ActivationIds
      BY <2>1 DEF EngineInv, RecordsSound, Opened
    <3> QED
      BY <3>1 DEF ActivationIds
  <2>4. PICK g : g = [r \in Roles |-> {m \in view[r] : Events[r][m].key = a.key}]
    OBVIOUS
  <2>5. g = Group(stream, Boundary, a)
    <3>1. \A r \in Roles : Events[r] = stream[Bindings[r]]
      BY DEF Events
    <3>2. PICK ev, bd, st : ev = Events /\ bd = Boundary /\ st = stream
      OBVIOUS
    <3>3. g = [r \in Roles |-> {m \in view[r] : ev[r][m].key = a.key}]
      BY <2>4, <3>2
    <3>4. view = Counting(st, bd, a.sub) /\ \A r \in Roles : ev[r] = st[Bindings[r]]
      BY <2>2, <3>1, <3>2
    <3>5. g = [r \in Roles |-> {m \in Counting(st, bd, a.sub)[r] : st[Bindings[r]][m].key = a.key}]
      BY <3>3, <3>4
    <3> QED
      BY <3>2, <3>5 DEF Group
  <2>6. Reasoned(stream, Boundary, o)
    BY <2>1 DEF ReasonsSound
  <2>7. g \in [Roles -> SUBSET Nat]
    BY <2>5, CountingIs DEF EngineInv, StreamsSound
  <2>8. CASE a.sub \in Keyed
    <3>1. EarliestAt(Events, g, c, o.refs)
      BY <2>1, <2>2, <2>5, <2>6, <2>8 DEF Reasoned
    <3>2. ValidCondition(c, Roles)
      BY <2>1, <2>3, ConditionsAreValid
    <3>3. IsEarliestEvidence(Events, g, c, o.refs)
      BY <2>7, <3>1, <3>2, EarliestIs
    <3> QED
      BY <2>1, <2>4, <2>8, <3>3
  <2>9. CASE a.sub \notin Keyed
    <3>1. /\ o.refs = {a.event}
          /\ a.event \in Refs(c.role, Matching(Events, view, c.role, c.name))
      BY <2>1, <2>2, <2>6, <2>9 DEF Reasoned
    <3>2. a.event.role = c.role /\ a.event.seq \in view[c.role]
      BY <3>1 DEF Refs, Matching
    <3> QED
      BY <2>1, <2>9, <3>1, <3>2
  <2> QED
    BY <2>8, <2>9
<1> QED
  BY <1>1, EngineInvariant, ReasonsHold, PTL

-----------------------------------------------------------------------------
(***************************************************************************)
(* Roles: what is carried out goes where the definition says.               *)
(***************************************************************************)
PlanSound(j) ==
  j.at \in {"act"} \cup Sending /\ j.act # None =>
    \A i \in DOMAIN j.plan : j.plan[i].role \in TargetRoles(j.act.sub)

PlansSound ==
  /\ \A o \in RecordedOps : o.op.role \in TargetRoles(o.act.sub)
  /\ \A j \in {job} \ {NoJob} : PlanSound(j)

\* What code may ask for goes to the roles that its reaction declares.
LEMMA AskedRoles ==
  ASSUME NEW s \in Handlers, NEW actions, Asks(actions) \in Outcomes[s],
         Message(s, Asks(actions)) = None
  PROVE  \A i \in DOMAIN actions : actions[i].role \in TargetRoles(s)
<1>1. PICK o \in Outcomes[s] : o = Asks(actions)
  OBVIOUS
<1>2. o.actions = actions /\ o.message = None
  BY <1>1 DEF Asks
<1>3. ASSUME ~Declared(s, actions) PROVE FALSE
  <2>1. Message(s, o) = "undeclared"
    BY <1>2, <1>3 DEF Message
  <2>2. None = "undeclared"
    BY <1>1, <2>1
  <2> QED
    BY <2>2, NoneAssumption DEF Messages
<1> QED
  BY <1>3 DEF Declared, TargetRoles

\* A plan gets shorter, or is new and goes where it may.
LEMMA PlansComeFrom ==
  ASSUME EngineInv, \A j \in {job} \ {NoJob} : PlanSound(j), [Next]_vars,
         NEW i, job' = i, i # NoJob
  PROVE  PlanSound(i)
<1>1. PICK j : j = job
  OBVIOUS
<1>2. j # NoJob => DOMAIN j = JobFields /\ JobSound(j) /\ PlanSound(j)
  BY <1>1 DEF EngineInv, JobSound
<1>3. CASE i = j
  BY <1>2, <1>3
<1>4. CASE Open \/ Derive
  <2>1. j # NoJob /\ \E open : i = [j EXCEPT !.open = open, !.at = "open"]
    <3>1. CASE Derive
      BY <1>1, <3>1 DEF Derive, At
    <3>2. CASE Open
      <4>1. j # NoJob /\ j.at = "open" /\ i = [j EXCEPT !.open = @ \ {FirstOf(j.open)}]
        BY <1>1, <3>2 DEF Open, At
      <4>2. i = [j EXCEPT !.open = j.open \ {FirstOf(j.open)}, !.at = "open"]
        BY <1>2, <4>1 DEF JobFields
      <4> QED
        BY <4>1, <4>2
    <3> QED
      BY <1>4, <3>1, <3>2
  <2>2. i.at = "open"
    BY <1>2, <2>1 DEF JobFields
  <2> QED
    BY <2>2 DEF PlanSound, Sending
<1>5. ASSUME NEW kind \in Switches, StartStatus(kind) PROVE PlanSound(i)
  BY <1>5 DEF StartStatus, Fresh, PlanSound, Sending
<1>6. CASE StartRegister
  BY <1>6 DEF StartRegister, Fresh, PlanSound, Sending
<1>7. CASE StartReconcile
  <2>1. PICK f : f = Fresh(Head(chain), IF Pending = <<>> THEN "observe" ELSE "send")
    OBVIOUS
  <2>2. i = [f EXCEPT !.ops = Pending]
    BY <1>7, <2>1 DEF StartReconcile, Ended
  <2>3. i.act = None
    BY <2>1, <2>2 DEF Fresh
  <2> QED
    BY <2>3 DEF PlanSound
<1>8. ASSUME NEW r \in Roles, ReadBoundary(r) \/ Observe(r) PROVE PlanSound(i)
  <2>1. /\ j # NoJob /\ j.at \in {"boundary", "observe"}
        /\ i = [j EXCEPT !.unread = @ \ {r}, !.read[r] = Len(stream[Bindings[r]])]
    BY <1>1, <1>8 DEF ReadBoundary, Observe, At, Read
  <2>2. i.at = j.at
    BY <1>2, <2>1 DEF JobFields
  <2> QED
    BY <2>1, <2>2 DEF PlanSound, Sending
<1>9. CASE Send
  <2>1. j # NoJob /\ j.at = "send" /\ i = [j EXCEPT !.at = "settle"]
    BY <1>1, <1>9 DEF Send, At, Goes
  <2>2. i.plan = j.plan /\ i.act = j.act
    BY <1>2, <2>1 DEF JobFields
  <2> QED
    BY <1>2, <2>1, <2>2 DEF PlanSound, Sending
<1>10. CASE Invoke
  <2>1. j # NoJob /\ i = [j EXCEPT !.at = "run"]
    BY <1>1, <1>10 DEF Invoke, At, Goes
  <2>2. i.at = "run"
    BY <1>2, <2>1 DEF JobFields
  <2> QED
    BY <2>2 DEF PlanSound, Sending
<1>11. CASE Settle
  <2>1. j # NoJob /\ j.at = "settle" /\ \E stage : i = [j EXCEPT !.ops = Tail(@), !.at = stage]
    BY <1>1, <1>11 DEF Settle, At
  <2>2. i.plan = j.plan /\ i.act = j.act
    BY <1>2, <2>1 DEF JobFields
  <2> QED
    BY <1>2, <2>1, <2>2 DEF PlanSound, Sending
<1>12. CASE AllOpen
  <2>1. j # NoJob /\ \E left : i = [j EXCEPT !.at = "pick", !.left = left]
    BY <1>1, <1>12 DEF AllOpen, At
  <2>2. i.at = "pick"
    BY <1>2, <2>1 DEF JobFields
  <2> QED
    BY <2>2 DEF PlanSound, Sending
<1>13. CASE Try
  <2>0. j # NoJob /\ j.at = "pick" /\ j.left # <<>>
    BY <1>1, <1>13 DEF Try, At
  <2>1. PICK a : a = Head(j.left)
    OBVIOUS
  <2>2. CASE a.sub \in Handlers
    <3>1. Tries(a, "invoke", <<>>)
      BY <1>1, <1>13, <2>1, <2>2 DEF Try
    <3>2. i = [j EXCEPT !.left = Tail(@), !.act = a, !.at = "invoke", !.plan = <<>>]
      BY <1>1, <3>1 DEF Tries
    <3>3. i.at = "invoke"
      BY <1>2, <2>0, <3>2 DEF JobFields
    <3> QED
      BY <3>3 DEF PlanSound, Sending
  <2>3. CASE a.sub \notin Handlers
    <3>1. PICK outcome \in Outcomes[a.sub] : Tries(a, "act", outcome.actions)
      BY <1>1, <1>13, <2>1, <2>3 DEF Try
    <3>2. i = [j EXCEPT !.left = Tail(@), !.act = a, !.at = "act", !.plan = outcome.actions]
      BY <1>1, <3>1 DEF Tries
    <3>3. i.act = a /\ i.plan = outcome.actions
      BY <1>2, <2>0, <3>2 DEF JobFields
    <3>4. \A n \in DOMAIN outcome.actions : outcome.actions[n].role \in TargetRoles(a.sub)
      BY <2>3 DEF TargetRoles
    <3> QED
      BY <3>3, <3>4 DEF PlanSound
  <2> QED
    BY <2>2, <2>3
<1>14. ASSUME NEW message, RunFails(message) PROVE PlanSound(i)
  <2>1. j # NoJob /\ i = [j EXCEPT !.at = "fail", !.message = message]
    BY <1>1, <1>14 DEF RunFails, At
  <2>2. i.at = "fail"
    BY <1>2, <2>1 DEF JobFields
  <2> QED
    BY <2>2 DEF PlanSound, Sending
<1>15. ASSUME NEW actions, RunAsks(actions) PROVE PlanSound(i)
  <2>1. j # NoJob /\ j.at = "run" /\ i = [j EXCEPT !.at = "act", !.plan = actions]
    BY <1>1, <1>15 DEF RunAsks, At
  <2>2. i.act = j.act /\ i.plan = actions
    BY <1>2, <2>1 DEF JobFields
  <2>3. PICK s \in Handlers : s = j.act.sub
    BY <1>2, <2>1 DEF JobSound, TrySound, TryStages, Handling
  <2>4. Asks(actions) \in Outcomes[s] /\ Message(s, Asks(actions)) = None
    BY <1>1, <1>15, <2>3 DEF RunAsks
  <2>5. \A n \in DOMAIN actions : actions[n].role \in TargetRoles(s)
    BY <2>4, AskedRoles
  <2> QED
    BY <2>2, <2>3, <2>5 DEF PlanSound
<1>16. CASE ActSettled \/ ActNew
  <2>1. j # NoJob /\ j.at = "act" /\ j.plan # <<>>
    BY <1>1, <1>16 DEF ActSettled, ActNew, Acts, At
  <2>2. \E stage, ops : i = [j EXCEPT !.plan = Tail(@), !.at = stage, !.ops = ops]
    BY <1>1, <1>16 DEF ActSettled, ActNew, Advance
  <2>3. i.plan = Tail(j.plan) /\ i.act = j.act
    BY <1>2, <2>1, <2>2 DEF JobFields
  <2>4. j.plan \in Seq(Ops)
    BY <1>2, <2>1 DEF JobSound, TrySound, TryStages
  <2>5. \A n \in DOMAIN Tail(j.plan) : n + 1 \in DOMAIN j.plan /\ Tail(j.plan)[n] = j.plan[n + 1]
    BY <2>1, <2>4, Shortened
  <2> QED
    BY <1>2, <2>1, <2>3, <2>5 DEF PlanSound, Sending
<1>17. CASE SettleActivation \/ Fail
  <2>1. j # NoJob /\ i = [j EXCEPT !.at = "pick", !.act = None, !.message = None]
    BY <1>1, <1>17 DEF SettleActivation, Fail, EndTry, At
  <2>2. i.at = "pick"
    BY <1>2, <2>1 DEF JobFields
  <2> QED
    BY <2>2 DEF PlanSound, Sending
<1>18. CASE Err
  <2>1. j # NoJob /\ i = [j EXCEPT !.at = "fail", !.message = "io", !.ops = <<>>]
    BY <1>1, <1>18 DEF Err, At
  <2>2. i.at = "fail"
    BY <1>2, <2>1 DEF JobFields
  <2> QED
    BY <2>2 DEF PlanSound, Sending
<1>19. CASE WriteRegistered \/ WriteStatus \/ Finish \/ Crash
  BY <1>19 DEF WriteRegistered, WriteStatus, Finish, Ended, Crash
<1>20. CASE Refuse \/ World \/ UNCHANGED vars
  <2>1. i = j
    BY <1>1, <1>20 DEF Refuse, World, Register, RegisterAgain, Switch, Happen, vars
  <2> QED
    BY <1>3, <2>1
<1> QED
  BY <1>4, <1>5, <1>6, <1>7, <1>8, <1>9, <1>10, <1>11, <1>12, <1>13, <1>14, <1>15, <1>16, <1>17,
     <1>18, <1>19, <1>20 DEF Next, JobStep

\* What is recorded goes to roles that the definition plans, after each step again.
LEMMA PlansStay ==
  ASSUME EngineInv, PlansSound, [Next]_vars
  PROVE  PlansSound'
<1>1. RecordsSound /\ (\A j \in {job} \ {NoJob} : PlanSound(j))
  BY DEF EngineInv, PlansSound
<1>2. \A i : job' = i /\ i # NoJob => PlanSound(i)
  BY <1>1, PlansComeFrom
<1>3. (\A j \in {job} \ {NoJob} : PlanSound(j))'
  BY <1>2 DEF PlanSound
<1>4. CASE UNCHANGED records
  <2>1. RecordedOps' = RecordedOps
    BY <1>4, RecordsSame
  <2> QED
    BY <1>3, <2>1 DEF PlansSound
<1>5. ASSUME NEW rec, records' = Append(records, rec), Adds(rec) PROVE PlansSound'
  <2>1. RecordedOps' = RecordedOps \cup
          (IF rec.kind = "recorded" THEN {[act |-> rec.act, op |-> rec.op]} ELSE {})
    BY <1>1, <1>5, RecordSays
  <2>2. ASSUME rec.kind = "recorded" PROVE rec.op.role \in TargetRoles(rec.act.sub)
    <3>1. PICK j : j = job
      OBVIOUS
    <3>2. ActNew /\ rec.act = j.act /\ rec.op = Head(j.plan)
      BY <1>5, <2>2, <3>1 DEF Adds
    <3>3. j # NoJob /\ j.at = "act" /\ j.plan # <<>>
      BY <3>1, <3>2 DEF ActNew, Acts, At
    <3>4. JobSound(j) /\ PlanSound(j)
      BY <1>1, <3>1, <3>3 DEF EngineInv
    <3>5. j.plan \in Seq(Ops) /\ j.act \in Opened
      BY <3>3, <3>4 DEF JobSound, TrySound, TryStages
    <3>6. j.act # None
      BY <1>1, <3>5, NoneAssumption DEF RecordsSound
    <3>7. Head(j.plan) = j.plan[1] /\ 1 \in DOMAIN j.plan
      BY <3>3, <3>5, Shortened
    <3> QED
      BY <3>2, <3>3, <3>4, <3>6, <3>7 DEF PlanSound
  <2>3. \A o \in RecordedOps : o.op.role \in TargetRoles(o.act.sub)
    BY DEF PlansSound
  <2>4. PICK old, new : old = RecordedOps /\ new = RecordedOps'
    OBVIOUS
  <2>5. \A o \in new : o.op.role \in TargetRoles(o.act.sub)
    BY <2>1, <2>2, <2>3, <2>4
  <2> QED
    BY <1>3, <2>4, <2>5 DEF PlansSound
<1> QED
  BY <1>4, <1>5, RecordsGrow

\* So it does in every behaviour.
LEMMA PlansHold == Spec => []PlansSound
<1>1. Init => PlansSound
  BY DEF Init, PlansSound, RecordedOps, Of
<1>2. EngineInv /\ PlansSound /\ [Next]_vars => PlansSound'
  BY PlansStay
<1> QED
  BY <1>1, <1>2, EngineInvariant, PTL DEF Spec

-----------------------------------------------------------------------------
(***************************************************************************)
(* What is opened is not forgotten.                                         *)
(***************************************************************************)
\* An activation that is worth a try: it has not failed, or was resumed since.
Owed(a) ==
  /\ a \in Opened \ Done /\ a \notin repeated
  /\ ~FailureNeedsRetry(a)

\* A job that will try it: before it has looked for what to try, or with it in hand.
Attends(j, a) ==
  \/ j.act = None /\ j.at \in Sending \cup {"observe", "open"}
  \/ j.act = a
  \/ \E n \in DOMAIN j.left : j.left[n] = a
Reconciles(jobs) == \E n \in DOMAIN jobs : jobs[n] \in {"reconcile", "first"}

Waiting == torn \/ missed \/ Status # "active" \/ Reconciles(chain)
OwedSound ==
  \A a \in Opened : Owed(a) => Waiting \/ \E j \in {job} \ {NoJob} : Attends(j, a)

\* A set of positions that is not empty has a last one.
LEMMA LastPosition ==
  ASSUME NEW k \in Nat, NEW S \in SUBSET (1..k), S # {}
  PROVE  \E n \in S : \A m \in S : m <= n
<1> DEFINE T == {i \in 0..k : k - i \in S}
<1>1. PICK m \in S : TRUE
  OBVIOUS
<1>2. m \in 1..k
  OBVIOUS
<1>3. k - m \in 0..k /\ k - (k - m) = m
  BY <1>2
<1>4. k - m \in T
  BY <1>3
<1>5. T \in SUBSET Nat
  OBVIOUS
<1>6. PICK i \in T : \A h \in T : i <= h
  BY <1>4, <1>5, LeastPosition
<1>7. i \in 0..k /\ k - i \in S
  BY <1>6
<1>8. ASSUME NEW n \in S PROVE n <= k - i
  <2>1. n \in 1..k
    OBVIOUS
  <2>2. k - n \in 0..k /\ k - (k - n) = n
    BY <2>1
  <2>3. k - n \in T
    BY <2>2
  <2>4. i <= k - n
    BY <1>6, <2>3
  <2> QED
    BY <1>7, <2>1, <2>4
<1> QED
  BY <1>7, <1>8

\* The status changes only with a record that says so.
LEMMA StatusStays ==
  ASSUME RecordsSound, NEW rec, rec.kind \notin {"status", "registered"},
         records' = Append(records, rec)
  PROVE  Status' = Status
<1>1. /\ Len(records) \in Nat /\ DOMAIN records = 1..Len(records)
      /\ \A n \in DOMAIN records : records'[n] = records[n]
      /\ \A kind : Of(kind)' = Of(kind) \cup
           (IF rec.kind = kind THEN {Len(records) + 1} ELSE {})
  BY RecordAdded
<1>2. PICK S, G : S = Of("status") /\ G = Of("registered")
  OBVIOUS
<1>3. Of("status")' = S /\ Of("registered")' = G
  BY <1>1, <1>2
<1>4. CASE S = {}
  BY <1>2, <1>3, <1>4 DEF Status, Registered
<1>5. CASE S # {}
  <2>1. PICK k \in Nat : k = Len(records)
    BY <1>1
  <2>2. S \in SUBSET (1..k)
    BY <1>1, <1>2, <2>1 DEF Of
  <2>3. \E n \in S : \A m \in S : m <= n
    BY <1>5, <2>2, LastPosition
  <2>4. PICK last : last = CHOOSE n \in S : \A m \in S : m <= n
    OBVIOUS
  <2>5. last \in S
    BY <2>3, <2>4
  <2>6. records'[last] = records[last]
    BY <1>1, <2>1, <2>2, <2>5
  <2>7. Status = IF G = {} THEN "unregistered" ELSE records[last].status
    BY <1>2, <1>5, <2>4 DEF Status, Registered
  <2>8. Status' = IF G = {} THEN "unregistered" ELSE records'[last].status
    <3>1. PICK T, H : T = Of("status")' /\ H = Of("registered")'
      OBVIOUS
    <3>2. T = S /\ H = G
      BY <1>3, <3>1
    <3>3. T # {} /\ last = CHOOSE n \in T : \A m \in T : m <= n
      BY <1>5, <2>4, <3>2
    <3>5. H = {} => Status' = "unregistered"
      BY <3>1 DEF Status, Registered
    <3>6. H # {} => Status' = records'[last].status
      BY <3>1, <3>3 DEF Status, Registered
    <3>4. Status' = IF H = {} THEN "unregistered" ELSE records'[last].status
      BY <3>5, <3>6
    <3> QED
      BY <3>2, <3>4
  <2> QED
    BY <2>6, <2>7, <2>8
<1> QED
  BY <1>4, <1>5

\* A status that is recorded is the status from then on.
LEMMA StatusSays ==
  ASSUME RecordsSound, NEW rec, rec.kind = "status", records' = Append(records, rec)
  PROVE  Status' = "unregistered" \/ Status' = rec.status
<1>1. PICK p \in Nat : p = Len(records) + 1
  BY RecordAdded
<1>2. /\ DOMAIN records = 1..(p - 1) /\ records'[p] = rec
      /\ Of("status")' = Of("status") \cup {p}
  BY <1>1, RecordAdded
<1>3. PICK S : S = Of("status")'
  OBVIOUS
<1>4. p \in S /\ \A m \in S : m \in 1..p
  BY <1>1, <1>2, <1>3 DEF Of
<1>5. p = CHOOSE n \in S : \A m \in S : m <= n
  <2>1. \A m \in S : m <= p
    BY <1>4
  <2>2. ASSUME NEW n \in S, \A m \in S : m <= n PROVE n = p
    BY <1>4, <2>2
  <2> QED
    BY <1>4, <2>1, <2>2
<1>6. S # {}
  BY <1>4
<1>7. Status' = "unregistered" \/ Status' = records'[p].status
  BY <1>3, <1>5, <1>6 DEF Status
<1> QED
  BY <1>2, <1>7

\* A reconcile that waits still waits when others join the queue or leave it.
LEMMA QueueReconciles ==
  ASSUME NEW jobs \in Seq(ChainKinds)
  PROVE  /\ \A kind \in ChainKinds : Reconciles(jobs) => Reconciles(Append(jobs, kind))
         /\ Reconciles(Append(jobs, "reconcile")) /\ Reconciles(Append(jobs, "first"))
         /\ Reconciles(jobs) => Reconciles(Woken(jobs))
         /\ jobs # <<>> /\ Head(jobs) \notin {"reconcile", "first"} /\ Reconciles(jobs)
              => Reconciles(Tail(jobs))
         /\ Reconciles(<<"reconcile">>)
<1>1. Len(jobs) \in Nat /\ DOMAIN jobs = 1..Len(jobs)
  OBVIOUS
<1>2. ASSUME NEW kind \in ChainKinds
      PROVE  /\ Reconciles(jobs) => Reconciles(Append(jobs, kind))
             /\ kind \in {"reconcile", "first"} => Reconciles(Append(jobs, kind))
  <2>1. PICK t : t = Append(jobs, kind)
    OBVIOUS
  <2>2. /\ DOMAIN t = 1..(Len(jobs) + 1) /\ t[Len(jobs) + 1] = kind
        /\ \A n \in 1..Len(jobs) : t[n] = jobs[n]
    <3> HIDE DEF ChainKinds
    <3>1. t \in Seq(ChainKinds) /\ Len(t) = Len(jobs) + 1
      BY <2>1
    <3> QED
      BY <2>1, <3>1
  <2>3. Len(jobs) + 1 \in DOMAIN t /\ \A n \in DOMAIN jobs : n \in DOMAIN t
    BY <1>1, <2>2
  <2> QED
    BY <1>1, <2>1, <2>2, <2>3 DEF Reconciles
<1>3. {"reconcile", "first"} \subseteq ChainKinds
  BY DEF ChainKinds
<1>4. Reconciles(jobs) => Reconciles(Woken(jobs))
  BY <1>2, <1>3 DEF Woken
<1>5. ASSUME jobs # <<>>, Head(jobs) \notin {"reconcile", "first"}, Reconciles(jobs)
      PROVE  Reconciles(Tail(jobs))
  <2>1. PICK n \in DOMAIN jobs : jobs[n] \in {"reconcile", "first"}
    BY <1>5 DEF Reconciles
  <2>2. /\ Head(jobs) = jobs[1] /\ DOMAIN Tail(jobs) = 1..(Len(jobs) - 1)
        /\ \A i \in DOMAIN Tail(jobs) : i + 1 \in DOMAIN jobs /\ Tail(jobs)[i] = jobs[i + 1]
    BY <1>5, Shortened
  <2>3. n # 1
    BY <1>5, <2>1, <2>2
  <2>4. n - 1 \in DOMAIN Tail(jobs) /\ (n - 1) + 1 = n
    BY <1>1, <2>1, <2>2, <2>3
  <2>5. Tail(jobs)[n - 1] = jobs[n]
    BY <2>2, <2>4
  <2> QED
    BY <2>1, <2>4, <2>5 DEF Reconciles
<1>6. Reconciles(<<"reconcile">>)
  <2>1. 1 \in DOMAIN <<"reconcile">> /\ <<"reconcile">>[1] = "reconcile"
    OBVIOUS
  <2> QED
    BY <2>1 DEF Reconciles
<1> QED
  BY <1>2, <1>3, <1>4, <1>5, <1>6

\* Nothing becomes worth a try but what is opened or resumed: a new failure is newer than
\* the last resume, or repeated.
LEMMA OwedBefore ==
  ASSUME EngineInv, [Next]_vars, NEW a, Owed(a)'
  PROVE  Owed(a) \/ Open \/ WriteStatus
<1>1. RecordsSound
  BY DEF EngineInv
<1>2. a \notin repeated
  <2>1. CASE Fail
    BY <2>1 DEF Fail, Owed
  <2>2. CASE JobStep /\ ~Fail
    <3>1. UNCHANGED repeated
      BY <2>2 DEF JobStep, Refuse, StartRegister, StartReconcile, StartStatus, ReadBoundary, Observe,
             WriteRegistered, WriteStatus, Send, Settle, Derive, Open, AllOpen, Try, Finish, Invoke,
             RunFails, RunAsks, ActSettled, ActNew, SettleActivation, history
    <3> QED
      BY <3>1 DEF Owed
  <2>3. CASE World \/ Err \/ Crash \/ UNCHANGED vars
    <3>1. UNCHANGED repeated
      BY <2>3 DEF World, Register, RegisterAgain, Switch, Happen, Err, Crash, history, vars
    <3> QED
      BY <3>1 DEF Owed
  <2> QED
    BY <2>1, <2>2, <2>3 DEF Next
<1>3. CASE UNCHANGED records
  <2>1. /\ Opened' = Opened /\ Done' = Done
        /\ FailureNeedsRetry(a) => FailureNeedsRetry(a)'
    BY <1>3, RecordsSame
  <2> QED
    BY <1>2, <1>3, <2>1 DEF Owed
<1>4. ASSUME NEW rec, records' = Append(records, rec), Adds(rec)
      PROVE  Owed(a) \/ Open \/ WriteStatus
  <2>1. CASE rec.kind \in {"opened", "status"}
    BY <1>4, <2>1 DEF Adds
  <2>2. CASE rec.kind \notin {"opened", "status"}
    <3>1. /\ Opened' = Opened /\ Done \subseteq Done'
      BY <1>1, <1>4, <2>2, RecordSays
    <3>2. /\ FailureNeedsRetry(a) => FailureNeedsRetry(a)'
          /\ ~(rec.kind = "failed" /\ rec.act = a)
      BY <1>1, <1>4, <2>2, FailureStays DEF Owed
    <3> QED
      BY <1>2, <3>1, <3>2 DEF Owed
  <2> QED
    BY <2>1, <2>2
<1> QED
  BY <1>3, <1>4, RecordsGrow

\* A step that leaves a job its activations leaves it attending them.
LEMMA StillAttends ==
  ASSUME NEW j, NEW i, NEW a, Attends(j, a),
         DOMAIN i = JobFields, i.act = j.act, i.left = j.left,
         j.act = None /\ j.at \in Sending \cup {"observe", "open"}
           => i.at \in Sending \cup {"observe", "open"}
  PROVE  i # NoJob /\ Attends(i, a)
<1>1. i # NoJob
  BY DEF NoJob, JobFields
<1> QED
  BY <1>1 DEF Attends

\* What is worth a try is among what AllOpen lists.
LEMMA OwedIsListed ==
  ASSUME EngineInv, NEW a, Owed(a), NEW left,
         left = [i \in DOMAIN InOrder(ToTry) |-> records[InOrder(ToTry)[i]].act]
  PROVE  \E n \in DOMAIN left : left[n] = a
<1>1. PICK S : S = ToTry
  OBVIOUS
<1>2. Len(records) \in Nat /\ S \in SUBSET (1..Len(records))
  BY <1>1, ListedFacts DEF ToTry, Of, RecordsSound, EngineInv
<1>3. PICK c \in Nat :
        /\ DOMAIN InOrder(S) = 1..c
        /\ \A k \in S : \E n \in 1..c : InOrder(S)[n] = k
  <2>1. PICK k \in Nat : S \in SUBSET (1..k)
    BY <1>2
  <2> QED
    BY <2>1, InOrderLists
<1>4. PICK k \in Of("opened") : records[k].act = a
  BY DEF Owed, Opened
<1>5. k \in S
  BY <1>1, <1>4 DEF Owed, ToTry
<1>6. PICK n \in 1..c : InOrder(S)[n] = k
  BY <1>3, <1>5
<1>7. DOMAIN left = 1..c /\ left[n] = a
  BY <1>1, <1>3, <1>4, <1>6
<1> QED
  BY <1>7

\* A job that attends what is worth a try goes on to, until that is done or fails, it ends
\* with an error or the host dies.
LEMMA AttendsStays ==
  ASSUME EngineInv, EngineInv', [Next]_vars, NEW a, Owed(a), Owed(a)',
         NEW j, j = job, j # NoJob, Attends(j, a), NEW i, job' = i
  PROVE  \/ missed' \/ WriteRegistered \/ WriteStatus \/ Crash
         \/ (i # NoJob /\ Attends(i, a))
<1>1. DOMAIN j = JobFields /\ JobSound(j)
  BY DEF EngineInv, JobSound
<1>2. a \in Opened \ Done /\ a # None
  BY NoneAssumption DEF EngineInv, RecordsSound, Owed
<1> DEFINE Goal == i # NoJob /\ Attends(i, a)
<1>3. CASE i = j
  BY <1>3
<1>4. CASE Derive \/ Open
  <2>1. CASE Derive
    <3>1. j.at = "observe" /\ i = [j EXCEPT !.open = Derived(j.read), !.at = "open"]
      BY <2>1 DEF Derive, At
    <3>2. DOMAIN i = JobFields /\ i.act = j.act /\ i.left = j.left /\ i.at = "open"
      BY <1>1, <3>1 DEF JobFields
    <3> QED
      BY <3>2, StillAttends
  <2>2. CASE Open
    <3>1. i = [j EXCEPT !.open = @ \ {FirstOf(j.open)}]
      BY <2>2 DEF Open
    <3>2. DOMAIN i = JobFields /\ i.act = j.act /\ i.left = j.left /\ i.at = j.at
      BY <1>1, <3>1 DEF JobFields
    <3> QED
      BY <3>2, StillAttends
  <2> QED
    BY <1>4, <2>1, <2>2
<1>5. CASE Refuse \/ StartRegister \/ StartReconcile \/ \E kind \in Switches : StartStatus(kind)
  BY <1>5 DEF Refuse, StartRegister, StartReconcile, StartStatus, Takes
<1>6. ASSUME NEW r \in Roles, ReadBoundary(r) \/ Observe(r) PROVE Goal
  <2>1. i = [j EXCEPT !.unread = @ \ {r}, !.read[r] = Len(stream[Bindings[r]])]
    BY <1>6 DEF ReadBoundary, Observe, At, Read
  <2>2. DOMAIN i = JobFields /\ i.act = j.act /\ i.left = j.left /\ i.at = j.at
    BY <1>1, <2>1 DEF JobFields
  <2> QED
    BY <2>2, StillAttends
<1>7. CASE Send \/ Invoke
  <2>1. \/ j.at = "send" /\ i = [j EXCEPT !.at = "settle"]
        \/ j.at = "invoke" /\ i = [j EXCEPT !.at = "run"]
    BY <1>7 DEF Send, Invoke, At, Goes
  <2>2. /\ DOMAIN i = JobFields /\ i.act = j.act /\ i.left = j.left
        /\ j.at = "invoke" \/ i.at = "settle"
    BY <1>1, <2>1 DEF JobFields
  <2>3. j.at \in Sending \cup {"observe", "open"} => i.at \in Sending \cup {"observe", "open"}
    BY <2>2 DEF Sending
  <2> QED
    BY <2>2, <2>3, StillAttends
<1>8. CASE Settle
  <2>1. \E stage : /\ i = [j EXCEPT !.ops = Tail(@), !.at = stage]
                   /\ j.act = None => stage \in {"send", "observe"}
    BY <1>8 DEF Settle, Trying
  <2>2. /\ DOMAIN i = JobFields /\ i.act = j.act /\ i.left = j.left
        /\ j.act = None => i.at \in {"send", "observe"}
    BY <1>1, <2>1 DEF JobFields
  <2>3. j.act = None => i.at \in Sending \cup {"observe", "open"}
    BY <2>2 DEF Sending
  <2> QED
    BY <2>2, <2>3, StillAttends
<1>9. CASE AllOpen
  <2>1. PICK left : left = [n \in DOMAIN InOrder(ToTry) |-> records[InOrder(ToTry)[n]].act]
    OBVIOUS
  <2>2. i = [j EXCEPT !.at = "pick", !.left = left]
    BY <1>9, <2>1 DEF AllOpen
  <2>3. DOMAIN i = JobFields /\ i.left = left
    BY <1>1, <2>2 DEF JobFields
  <2>4. \E n \in DOMAIN left : left[n] = a
    BY <2>1, OwedIsListed
  <2>5. i # NoJob
    BY <2>3 DEF NoJob, JobFields
  <2> QED
    BY <2>3, <2>4, <2>5 DEF Attends
<1>10. CASE Try
  <2>1. j.at = "pick" /\ j.left # <<>>
    BY <1>10 DEF Try, At
  <2>2. j.act = None /\ j.left \in Seq(ActivationIds)
    BY <1>1, <2>1 DEF JobSound, LeftSound
  <2>3. PICK k \in DOMAIN j.left : j.left[k] = a
    BY <1>2, <2>1, <2>2 DEF Attends, Sending
  <2>4. PICK b : b = Head(j.left)
    OBVIOUS
  <2>5. PICK stage, plan : i = [j EXCEPT !.left = Tail(@), !.act = b, !.at = stage, !.plan = plan]
    BY <1>10, <2>4 DEF Try, Tries
  <2>6. DOMAIN i = JobFields /\ i.act = b /\ i.left = Tail(j.left)
    BY <1>1, <2>5 DEF JobFields
  <2>7. i # NoJob
    BY <2>6 DEF NoJob, JobFields
  <2>8. CASE k = 1
    <3>1. b = a
      BY <2>1, <2>2, <2>3, <2>4, <2>8, Shortened
    <3> QED
      BY <2>6, <2>7, <3>1 DEF Attends
  <2>9. CASE k # 1
    <3>1. /\ DOMAIN j.left = 1..Len(j.left) /\ Len(j.left) \in Nat
          /\ DOMAIN Tail(j.left) = 1..(Len(j.left) - 1)
          /\ \A n \in DOMAIN Tail(j.left) : Tail(j.left)[n] = j.left[n + 1]
      BY <2>1, <2>2, Shortened
    <3>2. k - 1 \in DOMAIN Tail(j.left) /\ (k - 1) + 1 = k
      BY <2>3, <2>9, <3>1
    <3>3. Tail(j.left)[k - 1] = a
      BY <2>3, <3>1, <3>2
    <3> QED
      BY <2>6, <2>7, <3>2, <3>3 DEF Attends
  <2> QED
    BY <2>8, <2>9
<1>11. ASSUME NEW message, RunFails(message) PROVE Goal
  <2>1. j.at = "run" /\ i = [j EXCEPT !.at = "fail", !.message = message]
    BY <1>11 DEF RunFails, At
  <2>2. DOMAIN i = JobFields /\ i.act = j.act /\ i.left = j.left
    BY <1>1, <2>1 DEF JobFields
  <2> QED
    BY <2>1, <2>2, StillAttends DEF Sending
<1>12. ASSUME NEW actions, RunAsks(actions) PROVE Goal
  <2>1. j.at = "run" /\ i = [j EXCEPT !.at = "act", !.plan = actions]
    BY <1>12 DEF RunAsks, At
  <2>2. DOMAIN i = JobFields /\ i.act = j.act /\ i.left = j.left
    BY <1>1, <2>1 DEF JobFields
  <2> QED
    BY <2>1, <2>2, StillAttends DEF Sending
<1>13. CASE ActSettled \/ ActNew
  <2>1. j.at = "act"
    BY <1>13 DEF ActSettled, ActNew, Acts, At
  <2>2. \E stage, ops : i = [j EXCEPT !.plan = Tail(@), !.at = stage, !.ops = ops]
    BY <1>13 DEF ActSettled, ActNew, Advance
  <2>3. DOMAIN i = JobFields /\ i.act = j.act /\ i.left = j.left
    BY <1>1, <2>2 DEF JobFields
  <2> QED
    BY <2>1, <2>3, StillAttends DEF Sending
<1>14. CASE SettleActivation \/ Fail
  <2>1. j.at \in {"act", "fail"} /\ i = [j EXCEPT !.at = "pick", !.act = None, !.message = None]
    BY <1>14 DEF SettleActivation, Fail, EndTry, At
  <2>2. DOMAIN i = JobFields /\ i.left = j.left
    BY <1>1, <2>1 DEF JobFields
  <2>3. j.act # a
    <3>1. CASE Fail
      <4>1. failing' = failing \cup {j.act}
        BY <3>1 DEF Fail
      <4>2. FailingSound'
        BY DEF EngineInv
      <4>3. \A b : b \in failing' /\ b \notin repeated' => FailureNeedsRetry(b)'
        BY <4>2 DEF FailingSound
      <4> QED
        BY <4>1, <4>3 DEF Owed
    <3>2. CASE SettleActivation
      <4>1. EndTry([kind |-> "done", act |-> j.act])
        BY <3>2 DEF SettleActivation
      <4>2. PICK rec : rec = [kind |-> "done", act |-> j.act] /\ Write(rec)
        BY <4>1 DEF EndTry
      <4>3. j.act \in Done'
        <5>1. CASE records' = records
          <6>1. \E n \in DOMAIN records : records[n] = rec
            <7>1. records' = Append(records, rec) \/ \E n \in DOMAIN records : records[n] = rec
              BY <4>2 DEF Write
            <7>2. records' # Append(records, rec)
              BY <5>1, RecordAdded, ListedFacts DEF EngineInv, RecordsSound
            <7> QED
              BY <7>1, <7>2
          <6>2. j.act \in Done
            BY <4>2, <6>1 DEF Done, Of
          <6>3. Done' = Done
            BY <5>1, RecordsSame
          <6> QED
            BY <6>2, <6>3
        <5>2. CASE records' = Append(records, rec)
          <6>1. RecordsSound
            BY DEF EngineInv
          <6>2. Done' = Done \cup {rec.act}
            BY <4>2, <5>2, <6>1, RecordSays
          <6> QED
            BY <4>2, <6>2
        <5> QED
          BY <4>2, <5>1, <5>2 DEF Write
      <4> QED
        BY <4>3 DEF Owed
    <3> QED
      BY <1>14, <3>1, <3>2
  <2>4. \E n \in DOMAIN j.left : j.left[n] = a
    BY <2>1, <2>3 DEF Attends, Sending
  <2>5. i # NoJob
    BY <2>2 DEF NoJob, JobFields
  <2> QED
    BY <2>2, <2>4, <2>5 DEF Attends
<1>15. CASE Err
  <2>1. \/ missed'
        \/ j.act # None /\ i = [j EXCEPT !.at = "fail", !.message = "io", !.ops = <<>>]
    BY <1>15 DEF Err, Trying
  <2>2. ASSUME j.act # None, i = [j EXCEPT !.at = "fail", !.message = "io", !.ops = <<>>]
        PROVE  Goal
    <3>1. DOMAIN i = JobFields /\ i.act = j.act /\ i.left = j.left
      BY <1>1, <2>2 DEF JobFields
    <3> QED
      BY <2>2, <3>1, StillAttends
  <2> QED
    BY <2>1, <2>2
<1>16. CASE Finish
  <2>1. j.at = "pick" /\ j.left = <<>> /\ j.act = None
    BY <1>1, <1>16 DEF Finish, At, JobSound
  <2> QED
    BY <1>2, <2>1 DEF Attends, Sending
<1>17. CASE World \/ UNCHANGED vars
  <2>1. i = j
    BY <1>17 DEF World, Register, RegisterAgain, Switch, Happen, vars
  <2> QED
    BY <1>3, <2>1
<1> QED
  BY <1>4, <1>5, <1>6, <1>7, <1>8, <1>9, <1>10, <1>11, <1>12, <1>13, <1>14, <1>15, <1>16, <1>17
     DEF Next, JobStep

\* The status stays until a status is recorded.
LEMMA StatusKept ==
  ASSUME EngineInv, [Next]_vars, records # <<>>, ~WriteStatus
  PROVE  Status' = Status
<1>1. CASE UNCHANGED records
  BY <1>1 DEF Status, Registered, Of
<1>2. ASSUME NEW rec, records' = Append(records, rec), Adds(rec) PROVE Status' = Status
  <2>1. rec.kind \notin {"status", "registered"}
    BY <1>2 DEF Adds
  <2> QED
    BY <1>2, <2>1, StatusStays DEF EngineInv
<1> QED
  BY <1>1, <1>2, RecordsGrow

\* A reconcile that waits goes on waiting until it starts or is refused, or the host dies.
LEMMA ReconcileWaits ==
  ASSUME EngineInv, [Next]_vars, records # <<>>, Reconciles(chain),
         ~StartReconcile, ~Refuse, ~Crash
  PROVE  Reconciles(chain')
<1>1. PICK jobs \in Seq(ChainKinds) : jobs = chain
  BY DEF EngineInv, SwitchesSound
<1>2. PICK new : new = chain'
  OBVIOUS
<1>3. Reconciles(jobs)
  BY <1>1
<1>4. /\ \A kind \in ChainKinds : Reconciles(Append(jobs, kind))
      /\ Reconciles(Append(jobs, "reconcile")) /\ Reconciles(Append(jobs, "first"))
      /\ Reconciles(Woken(jobs))
      /\ jobs # <<>> /\ Head(jobs) \notin {"reconcile", "first"} => Reconciles(Tail(jobs))
  BY <1>3, QueueReconciles
<1>5. CASE new = jobs
  BY <1>2, <1>3, <1>5
<1>6. CASE StartRegister
  <2>1. /\ jobs # <<>> /\ Head(jobs) = "register"
        /\ new = Append(Tail(jobs), "first")
    BY <1>1, <1>2, <1>6 DEF StartRegister, Takes
  <2>2. Tail(jobs) \in Seq(ChainKinds)
    BY <2>1, Queueing
  <2>3. Reconciles(Append(Tail(jobs), "first"))
    BY <2>2, QueueReconciles
  <2> QED
    BY <1>2, <2>1, <2>3
<1>7. ASSUME NEW kind \in Switches, StartStatus(kind) PROVE Reconciles(chain')
  <2>1. /\ jobs # <<>> /\ Head(jobs) = kind
        /\ new = Tail(jobs) \/ new = Append(Tail(jobs), "reconcile")
    BY <1>1, <1>2, <1>7 DEF StartStatus, Takes, Resumed, Rest
  <2>2. Tail(jobs) \in Seq(ChainKinds)
    BY <2>1, Queueing
  <2>3. Reconciles(Append(Tail(jobs), "reconcile"))
    BY <2>2, QueueReconciles
  <2>4. Reconciles(Tail(jobs))
    BY <1>4, <2>1 DEF Switches
  <2> QED
    BY <1>2, <2>1, <2>3, <2>4
<1>8. CASE WriteRegistered \/ WriteStatus
  <2>1. new = Append(jobs, "first") \/ new = Append(jobs, "reconcile") \/ new = jobs
    BY <1>1, <1>2, <1>8 DEF WriteRegistered, WriteStatus
  <2> QED
    BY <1>2, <1>3, <1>4, <2>1
<1>9. CASE Send
  <2>1. new = jobs \/ new = Woken(jobs)
    BY <1>1, <1>2, <1>9 DEF Send, CarryOut, Appended
  <2> QED
    BY <1>2, <1>3, <1>4, <2>1
<1>10. CASE ActNew
  BY <1>1, <1>2, <1>4, <1>10 DEF ActNew
<1>11. CASE \/ \E r \in Roles : ReadBoundary(r) \/ Observe(r)
            \/ Settle \/ Derive \/ Open \/ AllOpen \/ Try \/ Finish \/ Invoke
  <2>1. new = jobs
    BY <1>1, <1>2, <1>11 DEF ReadBoundary, Observe, Settle, Derive, Open, AllOpen, Try, Finish,
                             Invoke
  <2> QED
    BY <1>5, <2>1
<1>12. CASE \/ \E message \in Messages : RunFails(message)
            \/ \E actions \in Plans : RunAsks(actions)
            \/ ActSettled \/ SettleActivation \/ Fail \/ Err \/ UNCHANGED vars
  <2>1. new = jobs
    BY <1>1, <1>2, <1>12 DEF RunFails, RunAsks, ActSettled, SettleActivation, Fail, EndTry, Err, vars
  <2> QED
    BY <1>5, <2>1
<1>13. ASSUME NEW kind \in Switches, Switch(kind) PROVE Reconciles(chain')
  <2>1. kind \in ChainKinds
    BY DEF ChainKinds
  <2>2. new = Append(jobs, kind)
    BY <1>1, <1>2, <1>13 DEF Switch
  <2> QED
    BY <1>2, <1>4, <2>1, <2>2
<1>14. CASE World /\ ~\E kind \in Switches : Switch(kind)
  <2>1. new = jobs \/ new = Woken(jobs)
    BY <1>1, <1>2, <1>14 DEF World, Register, RegisterAgain, Happen, Appended
  <2> QED
    BY <1>2, <1>3, <1>4, <2>1
<1> QED
  BY <1>6, <1>7, <1>8, <1>9, <1>10, <1>11, <1>12, <1>13, <1>14 DEF Next, JobStep

\* A reconcile that starts has everything before it.
LEMMA StartAttends ==
  ASSUME StartReconcile, Status = "active", NEW a, NEW i, job' = i
  PROVE  i # NoJob /\ Attends(i, a)
<1>1. PICK of, at : /\ at \in Sending \cup {"observe", "open"}
                    /\ i = [Fresh(of, at) EXCEPT !.ops = Pending]
  <2>1. PICK at : at = IF Pending = <<>> THEN "observe" ELSE "send"
    OBVIOUS
  <2>2. i = [Fresh(Head(chain), at) EXCEPT !.ops = Pending]
    BY <2>1 DEF StartReconcile
  <2>3. at \in Sending \cup {"observe", "open"}
    BY <2>1 DEF Sending
  <2> QED
    BY <2>2, <2>3
<1>2. i.act = None /\ i.at = at /\ DOMAIN i = JobFields
  BY <1>1 DEF Fresh, JobFields
<1>3. i # NoJob
  BY <1>2 DEF NoJob, JobFields
<1> QED
  BY <1>1, <1>2, <1>3 DEF Attends

\* What waits for a reconcile waits until one starts.
LEMMA WaitingStays ==
  ASSUME EngineInv, [Next]_vars, records # <<>>, Waiting, ~WriteStatus, ~Crash
  PROVE  Waiting' \/ (StartReconcile /\ Status = "active")
<1>1. Status' = Status
  BY StatusKept
<1>2. CASE StartReconcile
  <2>1. CASE Status # "active"
    BY <1>1, <2>1 DEF Waiting
  <2> QED
    BY <1>2, <2>1
<1>3. CASE Refuse
  <2>1. torn \/ Status = "unregistered" \/ Status = "retired"
    BY <1>3 DEF Refuse, Status
  <2>2. torn' = torn
    BY <1>3 DEF Refuse, durable
  <2> QED
    BY <1>1, <2>1, <2>2 DEF Waiting
<1>4. CASE ~StartReconcile /\ ~Refuse
  <2>1. torn' = torn /\ (missed => missed')
    <3>1. ASSUME torn' = torn, missed' = missed PROVE torn' = torn /\ (missed => missed')
      BY <3>1, Zenon
    <3>2. ASSUME NEW r, NEW event, torn' = torn, Appended(r, event)
          PROVE  torn' = torn /\ (missed => missed')
      BY <3>2, Zenon DEF Appended
    <3>3. CASE JobStep
      <4>1. CASE \/ StartRegister \/ \E kind \in Switches : StartStatus(kind)
                 \/ \E r \in Roles : ReadBoundary(r) \/ Observe(r)
                 \/ WriteRegistered \/ WriteStatus \/ Settle
                 \/ Derive \/ Open \/ AllOpen
        <5>1. torn' = torn /\ missed' = missed
          BY <4>1 DEF StartRegister, StartStatus, ReadBoundary, Observe, WriteRegistered,
                      WriteStatus, Settle, Derive, Open, AllOpen, durable
        <5> QED
          BY <3>1, <5>1
      <4>2. CASE \/ Try \/ Finish \/ Invoke
                 \/ \E message \in Messages : RunFails(message)
                 \/ \E actions \in Plans : RunAsks(actions)
                 \/ ActSettled \/ ActNew
                 \/ SettleActivation \/ Fail
        <5>1. torn' = torn /\ missed' = missed
          BY <4>2 DEF Try, Finish, Invoke, RunFails, RunAsks, ActSettled, ActNew,
                      SettleActivation, Fail, EndTry, durable
        <5> QED
          BY <3>1, <5>1
      <4>3. CASE Send
        <5>1. PICK o : CarryOut(o)
          BY <4>3 DEF Send
        <5>2. torn' = torn
          BY <4>3 DEF Send
        <5>3. missed' = missed \/ \E r, event : Appended(r, event)
          BY <5>1 DEF CarryOut
        <5> QED
          BY <3>1, <3>2, <5>2, <5>3
      <4> QED
        BY <1>4, <3>3, <4>1, <4>2, <4>3 DEF JobStep
    <3>4. CASE World
      <4>1. torn' = torn /\ (missed' = missed \/ \E r, event : Appended(r, event))
        BY <3>4 DEF World, Register, RegisterAgain, Switch, Happen, durable
      <4> QED
        BY <3>1, <3>2, <4>1
    <3>5. CASE Err
      <4>1. torn' = torn /\ (missed' = missed \/ missed' = TRUE)
        BY <3>5 DEF Err, durable
      <4> QED
        BY <3>1, <4>1
    <3>6. CASE UNCHANGED vars
      <4>1. torn' = torn /\ missed' = missed
        BY <3>6 DEF durable, vars
      <4> QED
        BY <3>1, <4>1
    <3> QED
      BY <3>3, <3>4, <3>5, <3>6 DEF Next
  <2>2. Reconciles(chain) => Reconciles(chain')
    BY <1>4, ReconcileWaits
  <2> QED
    BY <1>1, <2>1, <2>2 DEF Waiting
<1> QED
  BY <1>2, <1>3, <1>4

\* After a registration, a change of the status and a crash a reconcile waits, or the
\* registration is not active.
LEMMA SwitchesWait ==
  ASSUME EngineInv, WriteRegistered \/ WriteStatus \/ (Crash /\ records # <<>>)
  PROVE  Waiting'
<1>0. PICK jobs \in Seq(ChainKinds) : jobs = chain
  BY DEF EngineInv, SwitchesSound
<1>1. /\ Reconciles(Append(jobs, "first")) /\ Reconciles(Append(jobs, "reconcile"))
      /\ Reconciles(<<"reconcile">>)
  BY QueueReconciles
<1>2. Reconciles(chain') => Waiting'
  BY DEF Waiting
<1>3. CASE WriteRegistered
  <2>1. Reconciles(chain')
    BY <1>0, <1>1, <1>3 DEF WriteRegistered
  <2> QED
    BY <1>2, <2>1
<1>4. CASE WriteStatus
  <2>0. PICK j : j = job
    OBVIOUS
  <2>1. CASE j.of = "active"
    <3>1. Reconciles(chain')
      BY <1>0, <1>1, <1>4, <2>0, <2>1 DEF WriteStatus
    <3> QED
      BY <1>2, <3>1
  <2>2. CASE j.of # "active"
    <3>1. PICK rec : rec = [kind |-> "status", status |-> j.of, length |-> Len(records)]
      OBVIOUS
    <3>2. records' = Append(records, rec)
      BY <1>4, <2>0, <3>1 DEF WriteStatus
    <3>3. Status' = "unregistered" \/ Status' = j.of
      BY <3>1, <3>2, StatusSays DEF EngineInv
    <3> QED
      BY <2>2, <3>3 DEF Waiting
  <2> QED
    BY <2>1, <2>2
<1>5. CASE Crash /\ records # <<>>
  <2>1. chain' = <<"reconcile">>
    BY <1>5 DEF Crash
  <2>2. Reconciles(chain')
    BY <1>1, <2>1
  <2> QED
    BY <1>2, <2>2
<1> QED
  BY <1>3, <1>4, <1>5

\* What is worth a try waits for it, or for what keeps it from that.
LEMMA OwedStay ==
  ASSUME EngineInv, EngineInv', OwedSound, [Next]_vars
  PROVE  OwedSound'
<1>1. ASSUME NEW a, Owed(a)', NEW i, job' = i
      PROVE  Waiting' \/ (i # NoJob /\ Attends(i, a))
  <2>1. PICK j : j = job
    OBVIOUS
  <2>2. CASE Open
    <3>1. j # NoJob /\ j.at = "open" /\ i = [j EXCEPT !.open = @ \ {FirstOf(j.open)}]
      BY <1>1, <2>1, <2>2 DEF Open, At
    <3>2. JobSound(j)
      BY <2>1, <3>1 DEF EngineInv
    <3>3. DOMAIN i = JobFields /\ i.at = "open" /\ i.act = None
      BY <3>1, <3>2 DEF JobSound, JobFields
    <3>4. i # NoJob
      BY <3>3 DEF NoJob, JobFields
    <3> QED
      BY <3>3, <3>4 DEF Attends
  <2>3. CASE WriteRegistered \/ WriteStatus
    BY <2>3, SwitchesWait
  <2>5. CASE Crash
    <3>1. UNCHANGED records
      BY <2>5 DEF Crash
    <3>2. a \in Opened
      BY <1>1, <3>1, RecordsSame DEF Owed
    <3>3. records # <<>>
      BY <3>2 DEF Opened, Of
    <3> QED
      BY <2>5, <3>3, SwitchesWait
  <2>6. CASE ~Open /\ ~WriteRegistered /\ ~WriteStatus /\ ~Crash
    <3>1. Owed(a)
      BY <1>1, <2>6, OwedBefore
    <3>2. a \in Opened /\ records # <<>>
      BY <3>1 DEF Owed, Opened, Of
    <3>3. CASE Waiting
      BY <1>1, <2>6, <3>2, <3>3, WaitingStays, StartAttends
    <3>4. CASE j # NoJob /\ Attends(j, a)
      <4>1. missed' => Waiting'
        BY DEF Waiting
      <4> QED
        BY <1>1, <2>1, <2>6, <3>1, <3>4, <4>1, AttendsStays
    <3> QED
      BY <2>1, <3>1, <3>2, <3>3, <3>4 DEF OwedSound
  <2> QED
    BY <2>2, <2>3, <2>5, <2>6
<1>2. PICK i : i = job'
  OBVIOUS
<1>3. \A a : Owed(a)' => Waiting' \/ (i # NoJob /\ Attends(i, a))
  BY <1>1, <1>2
<1>4. \A a : Owed(a)' => Waiting' \/ \E j \in {job'} \ {NoJob} : Attends(j, a)
  BY <1>2, <1>3
<1> QED
  BY <1>4 DEF OwedSound, Attends

\* So it does in every behaviour.
LEMMA OwedHold == Spec => []OwedSound
<1>1. Init => OwedSound
  BY DEF Init, OwedSound, Opened, Of
<1>2. EngineInv /\ EngineInv' /\ OwedSound /\ [Next]_vars => OwedSound'
  BY OwedStay
<1> QED
  BY <1>1, <1>2, EngineInvariant, PTL DEF Spec

-----------------------------------------------------------------------------
(***************************************************************************)
(* What is shown agrees with what was done.                                 *)
(***************************************************************************)
\* The evidence is from roles that the condition names.
LEMMA ReasonRoles ==
  ASSUME NEW st, NEW bd, NEW o, o.act.sub \in Subscriptions, Reasoned(st, bd, o),
         NEW ref \in o.refs
  PROVE  ref.role \in ExpressionRoles(When[o.act.sub])
<1>1. PICK c : c = When[o.act.sub]
  OBVIOUS
<1>2. CASE o.act.sub \in Keyed
  <2>1. PICK ev, g : EarliestAt(ev, g, c, o.refs)
    BY <1>1, <1>2 DEF Reasoned
  <2>2. CASE c.kind = "all"
    <3>1. \E of \in [DOMAIN c.parts -> SUBSET o.refs] :
            /\ o.refs = UNION {of[i] : i \in DOMAIN c.parts}
            /\ \A i \in DOMAIN c.parts : \E last \in Nat :
                 CameTrueAt(ev, g, c.parts[i], of[i], last)
      BY <2>1, <2>2 DEF EarliestAt
    <3>2. PICK i, set : /\ i \in DOMAIN c.parts /\ ref \in set
                        /\ \E last \in Nat : CameTrueAt(ev, g, c.parts[i], set, last)
      BY <3>1
    <3>3. ref.role = c.parts[i].role
      BY <3>2 DEF CameTrueAt
    <3> QED
      BY <1>1, <2>2, <3>2, <3>3 DEF ExpressionRoles
  <2>3. CASE c.kind = "any"
    <3>1. \E i \in DOMAIN c.parts : \E last \in Nat :
            CameTrueAt(ev, g, c.parts[i], o.refs, last)
      BY <2>1, <2>3 DEF EarliestAt
    <3>2. PICK i \in DOMAIN c.parts : ref.role = c.parts[i].role
      BY <3>1 DEF CameTrueAt
    <3> QED
      BY <1>1, <2>3, <3>2 DEF ExpressionRoles
  <2>4. CASE c.kind \notin {"all", "any"}
    <3>1. \E last \in Nat : CameTrueAt(ev, g, c, o.refs, last)
      BY <2>1, <2>4 DEF EarliestAt
    <3>2. ref.role = c.role
      BY <3>1 DEF CameTrueAt
    <3> QED
      BY <1>1, <2>4, <3>2 DEF ExpressionRoles
  <2> QED
    BY <2>2, <2>3, <2>4
<1>3. CASE o.act.sub \notin Keyed
  <2>1. c.kind = "one"
    BY <1>1, <1>3, ConditionsAreValid
  <2>2. PICK positions : ref \in Refs(c.role, positions)
    BY <1>1, <1>3 DEF Reasoned
  <2>3. ref.role = c.role
    BY <2>2 DEF Refs
  <2> QED
    BY <1>1, <2>1, <2>3 DEF ExpressionRoles
<1> QED
  BY <1>2, <1>3

\* Whatever flowed was planned.
LEMMA FlowIsPlanned ==
  ASSUME RecordsSound, ReasonsSound, PlansSound
  PROVE  ActualFlow \subseteq PlannedFlow
<1> SUFFICES ASSUME NEW f \in ActualFlow PROVE f \in PlannedFlow
  OBVIOUS
<1>1. PICK o \in RecordedOps :
        f \in [sub : {o.act.sub}, source : {ref.role : ref \in Sources(o.act)}, target : {o.op.role}]
  BY DEF ActualFlow, RecordedOps
<1>2. PICK s : s = o.act.sub
  OBVIOUS
<1>3. PICK ref \in Sources(o.act) : f.source = ref.role
  BY <1>1
<1>4. PICK m \in Of("opened") : records[m].act = o.act /\ ref \in records[m].refs
  BY <1>3 DEF Sources
<1>5. s \in Subscriptions
  BY <1>2 DEF RecordsSound, Operations, ActivationIds
<1>6. Reasoned(stream, Boundary, records[m])
  BY DEF ReasonsSound
<1>7. ref.role \in ExpressionRoles(When[s])
  <2>1. PICK p, st, bd : p = records[m] /\ st = stream /\ bd = Boundary
    OBVIOUS
  <2>2. Reasoned(st, bd, p) /\ p.act.sub = s /\ ref \in p.refs
    BY <1>2, <1>4, <1>6, <2>1
  <2> QED
    BY <1>5, <2>2, ReasonRoles
<1>8. o.op.role \in TargetRoles(s)
  BY <1>2 DEF PlansSound
<1>9. f \in [sub : {s}, source : ExpressionRoles(When[s]), target : TargetRoles(s)]
  <2>1. PICK X, Y : X = ExpressionRoles(When[s]) /\ Y = TargetRoles(s)
    OBVIOUS
  <2>2. PICK S : /\ S = {g.role : g \in Sources(o.act)}
                 /\ f \in [sub : {s}, source : S, target : {o.op.role}]
    BY <1>1, <1>2
  <2>3. f = [sub |-> f.sub, source |-> f.source, target |-> f.target]
    BY <2>2
  <2>4. f.sub = s /\ f.source \in X /\ f.target \in Y
    BY <1>3, <1>7, <1>8, <2>1, <2>2
  <2>5. f \in [sub : {s}, source : X, target : Y]
    BY <2>3, <2>4
  <2> QED
    BY <2>1, <2>5
<1> QED
  BY <1>5, <1>9 DEF PlannedFlow

\* A part that counts more than it asks for.
Over(view, c) == c.kind = "count" /\ c.operator # "gte" /\ Number(view, c) > c.value

\* What holds, or more than that, is shown to hold or to be exceeded.
LEMMA PartIsShown ==
  ASSUME NEW view, NEW c, c.kind \in Parts, ValidPart(c, Roles), HoldsOrMore(Events, view, c)
  PROVE  PartShown(view, c) \/ Over(view, c)
<1>1. PICK number : number = Number(view, c)
  OBVIOUS
<1>2. number = Cardinality(Matching(Events, view, c.role, c.name))
  BY <1>1 DEF Number
<1>3. CASE c.kind = "one"
  <2>1. number > 0
    BY <1>2, <1>3 DEF HoldsOrMore
  <2> QED
    BY <1>1, <1>3, <2>1 DEF PartShown
<1>4. CASE c.kind = "count"
  <2>1. /\ c.operator = "gte" => number >= c.value
        /\ c.operator = "eq" => number = c.value \/ number > c.value
        /\ c.operator = "lte" => number <= c.value \/ number > c.value
    BY <1>2, <1>4 DEF HoldsOrMore
  <2>2. c.operator \in {"eq", "gte", "lte"}
    BY <1>4 DEF ValidPart
  <2> QED
    BY <1>1, <1>4, <2>1, <2>2 DEF PartShown, Over
<1>5. CASE c.kind = "sequence"
  BY <1>5 DEF HoldsOrMore, PartShown
<1> QED
  BY <1>3, <1>4, <1>5 DEF Parts

\* The reason for an activation still shows.
LEMMA ReasonShows ==
  ASSUME StreamsSound, ReasonsSound, NEW n \in Of("opened"),
         NEW s \in Subscriptions, s = records[n].act.sub
  PROVE  InspectCondition(s) \/ Exceeded(s)
<1>1. PICK o, c, st, bd : o = records[n] /\ c = When[s] /\ st = stream /\ bd = Boundary
  OBVIOUS
<1>2. PICK w : w = Eligible(s, [r \in Roles |-> Len(stream[Bindings[r]])])
  OBVIOUS
<1>3. Events = ByRole(st) /\ w = Counting(st, bd, s)
  BY <1>1, <1>2, CountingIsEligible
<1>4. Reasoned(st, bd, o) /\ o.act.sub = s
  BY <1>1 DEF ReasonsSound
<1>5. st \in [Surfaces -> Seq(StreamEvents)]
  BY <1>1 DEF StreamsSound
<1>6. PICK a : a = o.act /\ a.sub = s
  BY <1>4
<1>7. \A r \in Roles : \E b \in Nat : w[r] \in SUBSET (1..b)
  BY <1>3, <1>5, <1>6, CountingIs
<1>8. ValidCondition(c, Roles)
  BY <1>1, ConditionsAreValid
<1>9. ASSUME NEW p, p.kind \in Parts, ValidPart(p, Roles), HoldsOrMore(Events, w, p)
      PROVE  PartShown(w, p) \/ Over(w, p)
  BY <1>9, PartIsShown
<1>10. InspectCondition(s) <=> Shown(w, c)
  BY <1>1, <1>2 DEF InspectCondition
<1>11. Exceeded(s) <=> IF c.kind \in {"all", "any"} THEN \E i \in DOMAIN c.parts : Over(w, c.parts[i])
                       ELSE Over(w, c)
  BY <1>1, <1>2 DEF Exceeded, Over
<1>12. CASE s \in Keyed
  <2>1. PICK v \in [Roles -> SUBSET Nat] : v = Group(st, bd, a)
    BY <1>5, CountingIs
  <2>2. \A r \in Roles : v[r] \subseteq w[r]
    BY <1>3, <1>5, <1>6, <2>1, CountingIs
  <2>3. EarliestAt(Events, v, c, o.refs)
    BY <1>1, <1>3, <1>4, <1>6, <1>12, <2>1 DEF Reasoned
  <2>4. ASSUME NEW p, ValidPart(p, Roles), NEW refs, NEW last \in Nat,
               CameTrueAt(Events, v, p, refs, last)
        PROVE  PartShown(w, p) \/ Over(w, p)
    <3>1. p.kind \in Parts /\ p.role \in Roles
      BY <2>4 DEF ValidPart, Parts
    <3>2. PICK b \in Nat : w[p.role] \in SUBSET (1..b)
      BY <1>7, <3>1
    <3>3. v[p.role] \subseteq w[p.role]
      BY <2>2, <3>1
    <3>4. HoldsOrMore(Events, w, p)
      BY <2>4, <3>1, <3>2, <3>3, CameTrueHolds
    <3> QED
      BY <1>9, <2>4, <3>1, <3>4
  <2>5. CASE c.kind = "all"
    <3>1. \E of \in [DOMAIN c.parts -> SUBSET o.refs] :
            \A i \in DOMAIN c.parts : \E last \in Nat :
              CameTrueAt(Events, v, c.parts[i], of[i], last)
      BY <2>3, <2>5 DEF EarliestAt
    <3>2. \A i \in DOMAIN c.parts : ValidPart(c.parts[i], Roles)
      BY <1>8, <2>5 DEF ValidCondition
    <3>3. \A i \in DOMAIN c.parts : PartShown(w, c.parts[i]) \/ Over(w, c.parts[i])
      BY <2>4, <3>1, <3>2
    <3>4. (\A i \in DOMAIN c.parts : PartShown(w, c.parts[i])) => Shown(w, c)
      BY <2>5 DEF Shown
    <3> QED
      BY <1>10, <1>11, <2>5, <3>3, <3>4
  <2>6. CASE c.kind = "any"
    <3>1. PICK i \in DOMAIN c.parts, last \in Nat : CameTrueAt(Events, v, c.parts[i], o.refs, last)
      BY <2>3, <2>6 DEF EarliestAt
    <3>2. ValidPart(c.parts[i], Roles)
      BY <1>8, <2>6 DEF ValidCondition
    <3>3. PartShown(w, c.parts[i]) \/ Over(w, c.parts[i])
      BY <2>4, <3>1, <3>2
    <3>4. PartShown(w, c.parts[i]) => Shown(w, c)
      BY <2>6 DEF Shown
    <3> QED
      BY <1>10, <1>11, <2>6, <3>3, <3>4
  <2>7. CASE c.kind \notin {"all", "any"}
    <3>1. PICK last \in Nat : CameTrueAt(Events, v, c, o.refs, last)
      BY <2>3, <2>7 DEF EarliestAt
    <3>2. ValidPart(c, Roles)
      BY <1>8, <2>7 DEF ValidCondition
    <3>3. PartShown(w, c) \/ Over(w, c)
      BY <2>4, <3>1, <3>2
    <3>4. PartShown(w, c) => Shown(w, c)
      BY <2>7 DEF Shown
    <3> QED
      BY <1>10, <1>11, <2>7, <3>3, <3>4
  <2> QED
    BY <2>5, <2>6, <2>7
<1>13. CASE s \notin Keyed
  <2>1. c.kind = "one" /\ c.role \in Roles
    BY <1>1, <1>13, ConditionsAreValid
  <2>2. PICK S : S = Matching(Events, w, c.role, c.name)
    OBVIOUS
  <2>3. a.event \in Refs(c.role, S)
    BY <1>1, <1>3, <1>4, <1>6, <1>13, <2>2 DEF Reasoned
  <2>4. S # {}
    BY <2>3 DEF Refs
  <2>5. PICK b \in Nat : w[c.role] \in SUBSET (1..b)
    BY <1>7, <2>1
  <2>6. S \in SUBSET (1..b)
    BY <2>2, <2>5 DEF Matching
  <2>7. Cardinality(S) \in Nat /\ Cardinality(S) # 0
    BY <2>4, <2>6, NthIsOne
  <2>8. Number(w, c) > 0
    BY <2>2, <2>7 DEF Number
  <2>9. Shown(w, c)
    BY <2>1, <2>8 DEF Shown, PartShown
  <2> QED
    BY <1>10, <2>9
<1> QED
  BY <1>12, <1>13

\* What the inspection shows agrees with what the engine did: flows, conditions and runs,
\* whatever failed, was resumed or interrupted before.
THEOREM InspectionIsTrue == Spec => []InspectionAgrees
<1>1. EngineInv /\ ReasonsSound /\ PlansSound /\ OwedSound => InspectionAgrees
  <2> SUFFICES ASSUME EngineInv, ReasonsSound, PlansSound, OwedSound PROVE InspectionAgrees
    OBVIOUS
  <2>1. ActualFlow \subseteq PlannedFlow
    BY FlowIsPlanned DEF EngineInv
  <2>2. ASSUME NEW a \in Opened PROVE InspectCondition(a.sub) \/ Exceeded(a.sub)
    <3>1. PICK n \in Of("opened") : records[n].act = a
      BY DEF Opened
    <3>2. a \in ActivationIds
      BY DEF EngineInv, RecordsSound
    <3>3. a.sub \in Subscriptions
      BY <3>2 DEF ActivationIds
    <3>4. PICK s \in Subscriptions : s = a.sub /\ s = records[n].act.sub
      BY <3>1, <3>3
    <3>5. InspectCondition(s) \/ Exceeded(s)
      BY <3>4, ReasonShows DEF EngineInv
    <3> QED
      BY <3>4, <3>5
  <2>3. ASSUME NEW a \in Opened, RunStatus(a) = "settled" PROVE PendingOperations(a) = {}
    <3>1. a \in Done
      BY <2>3 DEF RunStatus
    <3>2. ASSUME NEW id \in Recorded \ Settled, id[1] = a PROVE FALSE
      <4>1. PICK o \in RecordedOps : Identity(o) = id
        BY OpsApart DEF EngineInv
      <4>2. o.act = a
        BY <3>2, <4>1 DEF Identity
      <4> QED
        BY <3>1, <3>2, <4>1, <4>2 DEF EngineInv, DoneSettled
    <3> QED
      BY <3>2 DEF PendingOperations
  <2>4. ASSUME NEW a \in Opened, RunStatus(a) = "retryable-failure",
               job = NoJob, chain = <<>>, Status = "active", ~torn, ~missed,
               a \notin repeated
        PROVE  FailureNeedsRetry(a)
    <3>1. a \notin Done /\ \E n \in Of("failed") : records[n].act = a
      BY <2>4 DEF RunStatus
    <3>2. ~Waiting
      BY <2>4 DEF Waiting, Reconciles
    <3>3. ~Owed(a)
      BY <2>4, <3>2 DEF OwedSound
    <3> QED
      BY <2>4, <3>1, <3>3 DEF Owed
  <2> QED
    BY <2>1, <2>2, <2>3, <2>4 DEF InspectionAgrees
<1> QED
  BY <1>1, EngineInvariant, ReasonsHold, PlansHold, OwedHold, PTL

-----------------------------------------------------------------------------
(***************************************************************************)
(* Nothing that came true is missed.  While no reconcile waits and nothing  *)
(* keeps it from reacting, what satisfies a subscription has been opened,   *)
(* or the reconcile under way has yet to read it or has it in hand.         *)
(***************************************************************************)
Reconciling(j) == j.at \notin {"boundary", "status"}
Recovers(j) == j.act = None /\ j.at \in Sending

\* Before it derives anything: what it has read of a stream is all of it.
Gathers(j) == Recovers(j) \/ (j.act = None /\ j.at = "observe")
Covers(j, streams, due, opened) ==
  IF j # NoJob /\ Reconciling(j)
  THEN IF Gathers(j) THEN \A r \in Roles \ j.unread : j.read[r] = Len(streams[Bindings[r]])
       ELSE /\ j.unread = {}
            /\ due \subseteq opened \cup (IF j.at = "open" THEN {o.act : o \in j.open} ELSE {})
  ELSE due \subseteq opened

DueOpened == records # <<>> /\ ~Waiting => Covers(job, stream, Due, Opened)

\* The reconcile of a new registration goes before every other one, and finds no
\* operations of a former run: what is not known to be awake is not asleep for long.
FirstRuns(j) == j.of = "first" /\ ~Recovers(j)
NoReconcile(jobs) == \A n \in DOMAIN jobs : jobs[n] # "reconcile"
FirstAhead(jobs) ==
  \E p \in DOMAIN jobs : jobs[p] = "first" /\ \A q \in 1..(p - 1) : jobs[q] # "reconcile"
Beginning ==
  ~torn /\ ~known =>
    IF records = <<>> THEN NoReconcile(chain)
    ELSE IF job # NoJob /\ Reconciling(job) THEN FirstRuns(job)
    ELSE FirstAhead(chain) /\ RecordedOps = {}

\* A queue in which the first reconcile is ahead stays so.
LEMMA AheadStays ==
  ASSUME NEW jobs \in Seq(ChainKinds)
  PROVE  /\ \A kind \in ChainKinds : FirstAhead(jobs) => FirstAhead(Append(jobs, kind))
         /\ \A kind \in ChainKinds \ {"reconcile"} :
              NoReconcile(jobs) => NoReconcile(Append(jobs, kind))
         /\ jobs # <<>> /\ NoReconcile(jobs) => NoReconcile(Tail(jobs))
         /\ NoReconcile(jobs) => FirstAhead(Append(jobs, "first"))
         /\ jobs # <<>> /\ Head(jobs) # "first" /\ FirstAhead(jobs)
              => FirstAhead(Tail(jobs)) /\ Head(jobs) # "reconcile"
         /\ FirstAhead(jobs) => Reconciles(jobs)
<1>1. Len(jobs) \in Nat /\ DOMAIN jobs = 1..Len(jobs)
  OBVIOUS
<1>2. ASSUME NEW kind \in ChainKinds
      PROVE  /\ DOMAIN Append(jobs, kind) = 1..(Len(jobs) + 1)
             /\ Append(jobs, kind)[Len(jobs) + 1] = kind
             /\ \A n \in 1..Len(jobs) : Append(jobs, kind)[n] = jobs[n]
  <2> HIDE DEF ChainKinds
  <2>1. PICK t : t = Append(jobs, kind)
    OBVIOUS
  <2>2. t \in Seq(ChainKinds) /\ Len(t) = Len(jobs) + 1
    BY <2>1
  <2> QED
    BY <2>1, <2>2
<1>3. ASSUME NEW kind \in ChainKinds, FirstAhead(jobs) PROVE FirstAhead(Append(jobs, kind))
  <2>1. PICK p \in DOMAIN jobs : jobs[p] = "first" /\ \A q \in 1..(p - 1) : jobs[q] # "reconcile"
    BY <1>3 DEF FirstAhead
  <2>2. PICK t : t = Append(jobs, kind)
    OBVIOUS
  <2>3. DOMAIN t = 1..(Len(jobs) + 1) /\ \A n \in 1..Len(jobs) : t[n] = jobs[n]
    BY <1>2, <2>2
  <2>4. p \in DOMAIN t /\ t[p] = "first" /\ \A q \in 1..(p - 1) : t[q] # "reconcile"
    BY <1>1, <2>1, <2>3
  <2> QED
    BY <2>2, <2>4 DEF FirstAhead
<1>4. ASSUME NEW kind \in ChainKinds \ {"reconcile"}, NoReconcile(jobs)
      PROVE  NoReconcile(Append(jobs, kind))
  <2>1. PICK t : t = Append(jobs, kind)
    OBVIOUS
  <2>2. /\ DOMAIN t = 1..(Len(jobs) + 1) /\ t[Len(jobs) + 1] = kind
        /\ \A n \in 1..Len(jobs) : t[n] = jobs[n]
    BY <1>2, <2>1
  <2>3. \A n \in DOMAIN t : t[n] # "reconcile"
    BY <1>1, <1>4, <2>2 DEF NoReconcile
  <2> QED
    BY <2>1, <2>3 DEF NoReconcile
<1>5. ASSUME jobs # <<>>
      PROVE  /\ Head(jobs) = jobs[1] /\ DOMAIN Tail(jobs) = 1..(Len(jobs) - 1)
             /\ \A i \in DOMAIN Tail(jobs) : i + 1 \in DOMAIN jobs /\ Tail(jobs)[i] = jobs[i + 1]
  BY <1>5, Shortened
<1>6. jobs # <<>> /\ NoReconcile(jobs) => NoReconcile(Tail(jobs))
  BY <1>5 DEF NoReconcile
<1>7. ASSUME NoReconcile(jobs) PROVE FirstAhead(Append(jobs, "first"))
  <2>1. PICK t : t = Append(jobs, "first")
    OBVIOUS
  <2>2. PICK p \in Nat : p = Len(jobs) + 1
    BY <1>1
  <2>3. DOMAIN t = 1..p /\ t[p] = "first" /\ \A n \in 1..Len(jobs) : t[n] = jobs[n]
    BY <1>2, <2>1, <2>2 DEF ChainKinds
  <2>4. p \in DOMAIN t /\ \A q \in 1..(p - 1) : t[q] # "reconcile"
    BY <1>1, <1>7, <2>2, <2>3 DEF NoReconcile
  <2> QED
    BY <2>1, <2>3, <2>4 DEF FirstAhead
<1>8. ASSUME jobs # <<>>, Head(jobs) # "first", FirstAhead(jobs)
      PROVE  FirstAhead(Tail(jobs)) /\ Head(jobs) # "reconcile"
  <2>1. PICK p \in DOMAIN jobs : jobs[p] = "first" /\ \A q \in 1..(p - 1) : jobs[q] # "reconcile"
    BY <1>8 DEF FirstAhead
  <2>2. p # 1 /\ 1 \in 1..(p - 1)
    BY <1>1, <1>5, <1>8, <2>1
  <2>3. Head(jobs) # "reconcile"
    BY <1>5, <1>8, <2>1, <2>2
  <2>4. PICK t : t = Tail(jobs)
    OBVIOUS
  <2>5. p - 1 \in DOMAIN t /\ t[p - 1] = jobs[p]
    BY <1>1, <1>5, <1>8, <2>1, <2>2, <2>4
  <2>6. \A q \in 1..((p - 1) - 1) : q \in DOMAIN t /\ q + 1 \in 1..(p - 1) /\ t[q] = jobs[q + 1]
    BY <1>1, <1>5, <1>8, <2>1, <2>2, <2>4
  <2> QED
    BY <2>1, <2>3, <2>4, <2>5, <2>6 DEF FirstAhead
<1>9. FirstAhead(jobs) => Reconciles(jobs)
  BY DEF FirstAhead, Reconciles
<1> QED
  BY <1>3, <1>4, <1>6, <1>7, <1>8, <1>9


\* How a job under way goes on.
LEMMA JobGoesOn ==
  ASSUME EngineInv, [Next]_vars, records # <<>>,
         NEW j, j = job, j # NoJob, NEW i, i = job', i # NoJob, i # j
  PROVE  /\ Reconciling(j) /\ Reconciling(i) /\ i.of = j.of /\ DOMAIN i = JobFields
         /\ Recovers(i) => Recovers(j)
         /\ \/ Derive \/ Open \/ \E r \in Roles : Observe(r)
            \/ /\ i.read = j.read /\ i.unread = j.unread
               /\ Gathers(i) <=> Gathers(j)
               /\ i.at # "open" /\ (j.at = "open" => AllOpen)
<1>1. DOMAIN j = JobFields /\ JobSound(j) /\ j.at # "boundary"
  BY DEF EngineInv, JobSound
<1>2. /\ j.at \in {"invoke", "run", "act", "fail"} => j.act # None
      /\ j.at \in {"observe", "open", "pick"} => j.act = None
  BY <1>1, NoneAssumption DEF EngineInv, RecordsSound, JobSound, TrySound, TryStages, Handling
<1> DEFINE Moves == /\ i.read = j.read /\ i.unread = j.unread
                    /\ Gathers(i) <=> Gathers(j)
                    /\ i.at # "open" /\ (j.at = "open" => AllOpen)
           Stays == /\ Reconciling(j) /\ Reconciling(i) /\ i.of = j.of /\ DOMAIN i = JobFields
                    /\ Recovers(i) => Recovers(j)
<1>3. CASE Derive
  <2>1. j.at = "observe" /\ i = [j EXCEPT !.open = Derived(j.read), !.at = "open"]
    BY <1>3 DEF Derive, At
  <2>2. DOMAIN i = JobFields /\ i.of = j.of /\ i.at = "open"
    BY <1>1, <2>1 DEF JobFields
  <2> QED
    BY <1>3, <2>1, <2>2 DEF Reconciling, Recovers, Sending
<1>4. CASE Open
  <2>1. j.at = "open" /\ i = [j EXCEPT !.open = @ \ {FirstOf(j.open)}]
    BY <1>4 DEF Open, At
  <2>2. DOMAIN i = JobFields /\ i.of = j.of /\ i.at = "open"
    BY <1>1, <2>1 DEF JobFields
  <2> QED
    BY <1>4, <2>1, <2>2 DEF Reconciling, Recovers, Sending
<1>5. CASE Refuse \/ StartRegister \/ StartReconcile \/ \E kind \in Switches : StartStatus(kind)
  BY <1>5 DEF Refuse, StartRegister, StartReconcile, StartStatus, Takes
<1>6. ASSUME NEW r \in Roles, ReadBoundary(r) PROVE FALSE
  BY <1>1, <1>6 DEF ReadBoundary, At
<1>7. ASSUME NEW r \in Roles, Observe(r) PROVE Stays
  <2>1. j.at = "observe" /\ i = [j EXCEPT !.unread = @ \ {r}, !.read[r] = Len(stream[Bindings[r]])]
    BY <1>7 DEF Observe, At, Read
  <2>2. DOMAIN i = JobFields /\ i.of = j.of /\ i.at = "observe"
    BY <1>1, <2>1 DEF JobFields
  <2> QED
    BY <2>1, <2>2 DEF Reconciling, Recovers, Sending
<1>8. ASSUME NEW at, i = [j EXCEPT !.at = at], at \in {"settle", "run"},
             at = "settle" <=> j.at = "send", j.at \in {"send", "invoke"}
      PROVE  Stays /\ Moves
  <2>1. /\ DOMAIN i = JobFields /\ i.of = j.of /\ i.at = at /\ i.act = j.act
        /\ i.read = j.read /\ i.unread = j.unread
    BY <1>1, <1>8 DEF JobFields
  <2> QED
    BY <1>2, <1>8, <2>1 DEF Reconciling, Recovers, Gathers, Sending
<1>9. CASE Send \/ Invoke
  <2>1. \/ j.at = "send" /\ i = [j EXCEPT !.at = "settle"]
        \/ j.at = "invoke" /\ i = [j EXCEPT !.at = "run"]
    BY <1>9 DEF Send, Invoke, At, Goes
  <2> QED
    BY <1>8, <2>1
<1>10. CASE Settle
  <2>1. j.at = "settle"
    BY <1>10 DEF Settle, At
  <2>2. PICK stage : /\ i = [j EXCEPT !.ops = Tail(@), !.at = stage]
                     /\ stage \in {"send", "act", "observe"}
                     /\ j.act = None => stage \in {"send", "observe"}
                     /\ j.act # None => stage \in {"send", "act"}
    BY <1>10 DEF Settle, Trying
  <2>3. /\ DOMAIN i = JobFields /\ i.of = j.of /\ i.at = stage /\ i.act = j.act
        /\ i.read = j.read /\ i.unread = j.unread
    BY <1>1, <2>2 DEF JobFields
  <2> QED
    BY <2>1, <2>2, <2>3 DEF Reconciling, Recovers, Gathers, Sending
<1>11. CASE AllOpen
  <2>1. j.at = "open" /\ \E left : i = [j EXCEPT !.at = "pick", !.left = left]
    BY <1>11 DEF AllOpen, At
  <2>2. /\ DOMAIN i = JobFields /\ i.of = j.of /\ i.at = "pick" /\ i.act = j.act
        /\ i.read = j.read /\ i.unread = j.unread
    BY <1>1, <2>1 DEF JobFields
  <2> QED
    BY <1>11, <2>1, <2>2 DEF Reconciling, Recovers, Gathers, Sending
<1>12. CASE Try
  <2>1. j.at = "pick"
    BY <1>12 DEF Try, At
  <2>2. PICK a, stage, plan : /\ i = [j EXCEPT !.left = Tail(@), !.act = a, !.at = stage, !.plan = plan]
                              /\ stage \in {"invoke", "act"}
    BY <1>12 DEF Try, Tries
  <2>3. /\ DOMAIN i = JobFields /\ i.of = j.of /\ i.at = stage
        /\ i.read = j.read /\ i.unread = j.unread
    BY <1>1, <2>2 DEF JobFields
  <2> QED
    BY <2>1, <2>2, <2>3 DEF Reconciling, Recovers, Gathers, Sending
<1>13. ASSUME NEW message, RunFails(message) PROVE Stays /\ Moves
  <2>1. j.at = "run" /\ i = [j EXCEPT !.at = "fail", !.message = message]
    BY <1>13 DEF RunFails, At
  <2>2. /\ DOMAIN i = JobFields /\ i.of = j.of /\ i.at = "fail" /\ i.act = j.act
        /\ i.read = j.read /\ i.unread = j.unread
    BY <1>1, <2>1 DEF JobFields
  <2> QED
    BY <2>1, <2>2 DEF Reconciling, Recovers, Gathers, Sending
<1>14. ASSUME NEW actions, RunAsks(actions) PROVE Stays /\ Moves
  <2>1. j.at = "run" /\ i = [j EXCEPT !.at = "act", !.plan = actions]
    BY <1>14 DEF RunAsks, At
  <2>2. /\ DOMAIN i = JobFields /\ i.of = j.of /\ i.at = "act" /\ i.act = j.act
        /\ i.read = j.read /\ i.unread = j.unread
    BY <1>1, <2>1 DEF JobFields
  <2> QED
    BY <2>1, <2>2 DEF Reconciling, Recovers, Gathers, Sending
<1>15. CASE ActSettled \/ ActNew
  <2>1. j.at = "act"
    BY <1>15 DEF ActSettled, ActNew, Acts, At
  <2>2. PICK stage, ops : /\ i = [j EXCEPT !.plan = Tail(@), !.at = stage, !.ops = ops]
                          /\ stage \in {"act", "send"}
    BY <1>15 DEF ActSettled, ActNew, Advance
  <2>3. /\ DOMAIN i = JobFields /\ i.of = j.of /\ i.at = stage /\ i.act = j.act
        /\ i.read = j.read /\ i.unread = j.unread
    BY <1>1, <2>2 DEF JobFields
  <2> QED
    BY <1>2, <2>1, <2>2, <2>3 DEF Reconciling, Recovers, Gathers, Sending
<1>16. CASE SettleActivation \/ Fail
  <2>1. j.at \in {"act", "fail"} /\ i = [j EXCEPT !.at = "pick", !.act = None, !.message = None]
    BY <1>16 DEF SettleActivation, Fail, EndTry, At
  <2>2. /\ DOMAIN i = JobFields /\ i.of = j.of /\ i.at = "pick"
        /\ i.read = j.read /\ i.unread = j.unread
    BY <1>1, <2>1 DEF JobFields
  <2> QED
    BY <2>1, <2>2 DEF Reconciling, Recovers, Gathers, Sending
<1>17. CASE Err
  <2>1. /\ j.at \in {"send", "settle"} /\ j.act # None
        /\ i = [j EXCEPT !.at = "fail", !.message = "io", !.ops = <<>>]
    BY <1>17 DEF Err, Trying, At
  <2>2. /\ DOMAIN i = JobFields /\ i.of = j.of /\ i.at = "fail" /\ i.act = j.act
        /\ i.read = j.read /\ i.unread = j.unread
    BY <1>1, <2>1 DEF JobFields
  <2> QED
    BY <2>1, <2>2 DEF Reconciling, Recovers, Gathers, Sending
<1>18. CASE WriteRegistered \/ WriteStatus \/ Finish \/ Crash
  BY <1>18 DEF WriteRegistered, WriteStatus, Finish, Ended, Crash
<1>19. CASE World \/ UNCHANGED vars
  BY <1>19 DEF World, Register, RegisterAgain, Switch, Happen, vars
<1> QED
  BY <1>3, <1>4, <1>5, <1>6, <1>7, <1>9, <1>10, <1>11, <1>12, <1>13, <1>14, <1>15, <1>16, <1>17,
     <1>18, <1>19 DEF Next, JobStep


\* How a job ends.
LEMMA JobEnds ==
  ASSUME EngineInv, [Next]_vars, records # <<>>, NEW j, j = job, j # NoJob, job' = NoJob
  PROVE  WriteStatus \/ Crash \/ Finish \/ (Err /\ Recovers(j) /\ missed')
<1>1. DOMAIN j = JobFields /\ JobSound(j) /\ j.at # "boundary"
  BY DEF EngineInv, JobSound
<1>2. DOMAIN NoJob # JobFields
  BY DEF NoJob, JobFields
<1>3. ASSUME NEW i, i = job', DOMAIN i = DOMAIN j PROVE FALSE
  BY <1>1, <1>2, <1>3
<1>4. CASE Refuse \/ StartRegister \/ StartReconcile \/ \E kind \in Switches : StartStatus(kind)
  BY <1>4 DEF Refuse, StartRegister, StartReconcile, StartStatus, Takes
<1>5. ASSUME NEW r \in Roles, ReadBoundary(r) \/ Observe(r) PROVE FALSE
  <2>1. job' = [j EXCEPT !.unread = @ \ {r}, !.read[r] = Len(stream[Bindings[r]])]
    BY <1>5 DEF ReadBoundary, Observe, Read
  <2> QED
    BY <1>3, <2>1
<1>6. CASE WriteRegistered
  BY <1>1, <1>6 DEF WriteRegistered, At
<1>7. CASE Send \/ Invoke
  <2>1. \E stage : job' = [j EXCEPT !.at = stage]
    BY <1>7 DEF Send, Invoke, Goes
  <2> QED
    BY <1>3, <2>1
<1>8. CASE Settle
  <2>1. \E stage : job' = [j EXCEPT !.ops = Tail(@), !.at = stage]
    BY <1>8 DEF Settle
  <2> QED
    BY <1>3, <2>1
<1>9. CASE Derive \/ Open
  <2>1. \E open, stage : \/ job' = [j EXCEPT !.open = open, !.at = stage]
                         \/ job' = [j EXCEPT !.open = open]
    BY <1>9 DEF Derive, Open
  <2> QED
    BY <1>3, <2>1
<1>10. CASE AllOpen
  <2>1. \E left : job' = [j EXCEPT !.at = "pick", !.left = left]
    BY <1>10 DEF AllOpen
  <2> QED
    BY <1>3, <2>1
<1>11. CASE Try
  <2>1. \E a, stage, plan : job' = [j EXCEPT !.left = Tail(@), !.act = a, !.at = stage, !.plan = plan]
    BY <1>11 DEF Try, Tries
  <2> QED
    BY <1>3, <2>1
<1>12. ASSUME NEW message, RunFails(message) PROVE FALSE
  <2>1. job' = [j EXCEPT !.at = "fail", !.message = message]
    BY <1>12 DEF RunFails
  <2> QED
    BY <1>3, <2>1
<1>13. ASSUME NEW actions, RunAsks(actions) PROVE FALSE
  <2>1. job' = [j EXCEPT !.at = "act", !.plan = actions]
    BY <1>13 DEF RunAsks
  <2> QED
    BY <1>3, <2>1
<1>14. CASE ActSettled \/ ActNew
  <2>1. \E stage, ops : job' = [j EXCEPT !.plan = Tail(@), !.at = stage, !.ops = ops]
    BY <1>14 DEF ActSettled, ActNew, Advance
  <2> QED
    BY <1>3, <2>1
<1>15. CASE SettleActivation \/ Fail
  <2>1. job' = [j EXCEPT !.at = "pick", !.act = None, !.message = None]
    BY <1>15 DEF SettleActivation, Fail, EndTry
  <2> QED
    BY <1>3, <2>1
<1>16. CASE Err
  <2>1. j.at \in {"send", "settle"}
    BY <1>16 DEF Err, At
  <2>2. CASE j.act # None
    <3>1. job' = [j EXCEPT !.at = "fail", !.message = "io", !.ops = <<>>]
      BY <1>16, <2>2 DEF Err, Trying
    <3> QED
      BY <1>3, <3>1
  <2>3. CASE j.act = None
    <3>1. missed'
      BY <1>16, <2>3 DEF Err, Trying
    <3> QED
      BY <1>16, <2>1, <2>3, <3>1 DEF Recovers, Sending
  <2> QED
    BY <2>2, <2>3
<1>17. CASE World \/ UNCHANGED vars
  <2>1. job' = j
    BY <1>17 DEF World, Register, RegisterAgain, Switch, Happen, vars
  <2> QED
    BY <2>1
<1> QED
  BY <1>4, <1>5, <1>6, <1>7, <1>8, <1>9, <1>10, <1>11, <1>12, <1>13, <1>14, <1>15, <1>16, <1>17
     DEF Next, JobStep

\* How a job starts.
LEMMA JobStarts ==
  ASSUME [Next]_vars, job = NoJob, job' # NoJob
  PROVE  StartRegister \/ StartReconcile \/ \E kind \in Switches : StartStatus(kind)
<1>1. CASE Refuse \/ World \/ UNCHANGED vars
  BY <1>1 DEF Refuse, World, Register, RegisterAgain, Switch, Happen, vars
<1>2. CASE \/ \E r \in Roles : ReadBoundary(r) \/ Observe(r)
           \/ WriteRegistered \/ WriteStatus \/ Send \/ Settle
           \/ Derive \/ Open \/ AllOpen \/ Try \/ Finish \/ Invoke
  BY <1>2 DEF ReadBoundary, Observe, WriteRegistered, WriteStatus, Send, Settle, Derive, Open,
              AllOpen, Try, Finish, Invoke, At
<1>3. CASE \/ \E message \in Messages : RunFails(message)
           \/ \E actions \in Plans : RunAsks(actions)
           \/ ActSettled \/ ActNew \/ SettleActivation \/ Fail
  BY <1>3 DEF RunFails, RunAsks, ActSettled, ActNew, SettleActivation, Fail, Acts, At
<1>4. CASE Err \/ Crash
  BY <1>4 DEF Err, Crash, At
<1> QED
  BY <1>1, <1>2, <1>3, <1>4 DEF Next, JobStep

\* A stream changes when something happens or a job sends.
LEMMA StreamMoves ==
  ASSUME EngineInv, [Next]_vars
  PROVE  \/ UNCHANGED stream
         \/ \E r \in Roles : \E event : Appended(r, event) /\ (UNCHANGED job \/ Send)
<1>1. CASE Send
  <2>1. PICK j : j = job
    OBVIOUS
  <2>2. j # NoJob /\ j.at = "send" /\ SendSound(j)
    BY <1>1, <2>1 DEF Send, At, EngineInv, JobSound, Sending
  <2>3. PICK o : o = Head(j.ops)
    OBVIOUS
  <2>4. o \in RecordedOps
    BY <2>2, <2>3, Shortened DEF SendSound
  <2>5. o.op.role \in Roles
    BY <2>4 DEF EngineInv, RecordsSound, Operations, Ops
  <2>6. CarryOut(o)
    BY <1>1, <2>1, <2>3 DEF Send
  <2>7. UNCHANGED stream \/ Appended(o.op.role, Event(o))
    BY <2>6 DEF CarryOut
  <2> QED
    BY <1>1, <2>5, <2>7
<1>2. CASE \/ Refuse \/ StartRegister \/ StartReconcile
           \/ \E kind \in Switches : StartStatus(kind)
  BY <1>2 DEF Refuse, StartRegister, StartReconcile, StartStatus, durable
<1>3. CASE \/ \E r \in Roles : ReadBoundary(r) \/ Observe(r)
           \/ WriteRegistered \/ WriteStatus \/ Settle
           \/ Derive \/ Open \/ AllOpen \/ Try \/ Finish \/ Invoke
  BY <1>3 DEF ReadBoundary, Observe, WriteRegistered, WriteStatus, Settle, Derive, Open,
              AllOpen, Try, Finish, Invoke, durable
<1>4. CASE \/ \E message \in Messages : RunFails(message)
           \/ \E actions \in Plans : RunAsks(actions)
           \/ ActSettled \/ ActNew \/ SettleActivation \/ Fail
  BY <1>4 DEF RunFails, RunAsks, ActSettled, ActNew, SettleActivation, Fail, EndTry, durable
<1>5. CASE World
  BY <1>5 DEF World, Register, RegisterAgain, Switch, Happen, durable
<1>6. CASE Err \/ Crash \/ UNCHANGED vars
  BY <1>6 DEF Err, Crash, vars, durable
<1> QED
  BY <1>1, <1>2, <1>3, <1>4, <1>5, <1>6 DEF Next, JobStep

\* What is known is forgotten only by a crash, and the damage of a file is not repaired.
LEMMA KnownStays ==
  ASSUME EngineInv, [Next]_vars, ~Crash
  PROVE  torn' = torn /\ (known => known')
<1>0. ASSUME torn' = torn, known' = known PROVE torn' = torn /\ (known => known')
  BY <1>0, Zenon
<1>1. CASE \/ Refuse \/ StartRegister \/ \E kind \in Switches : StartStatus(kind)
           \/ \E r \in Roles : ReadBoundary(r) \/ Observe(r)
           \/ WriteRegistered \/ WriteStatus \/ Send \/ Settle
           \/ Derive \/ Open \/ AllOpen \/ Try \/ Invoke
  <2>1. torn' = torn /\ known' = known
    BY <1>1 DEF Refuse, StartRegister, StartStatus, ReadBoundary, Observe, WriteRegistered,
                WriteStatus, Send, Settle, Derive, Open, AllOpen, Try, Invoke, durable
  <2> QED
    BY <1>0, <2>1
<1>2. CASE \/ \E message \in Messages : RunFails(message)
           \/ \E actions \in Plans : RunAsks(actions)
           \/ ActSettled \/ ActNew \/ SettleActivation \/ Fail
  <2>1. torn' = torn /\ known' = known
    BY <1>2 DEF RunFails, RunAsks, ActSettled, ActNew, SettleActivation, Fail, EndTry, durable
  <2> QED
    BY <1>0, <2>1
<1>3. ASSUME NEW k, Ended(k), torn' = torn PROVE torn' = torn /\ (known => known')
  BY <1>3, Zenon DEF Ended
<1>4. CASE Finish \/ StartReconcile
  <2>1. torn' = torn /\ (known' = known \/ \E k : Ended(k))
    BY <1>4 DEF Finish, StartReconcile, durable
  <2> QED
    BY <1>0, <1>3, <2>1
<1>5. CASE World \/ Err \/ UNCHANGED vars
  <2>1. torn' = torn /\ (known' = known \/ known' = TRUE)
    BY <1>5 DEF World, Register, RegisterAgain, Switch, Happen, Err, vars, durable
  <2> QED
    BY <1>0, <2>1
<1> QED
  BY <1>1, <1>2, <1>4, <1>5 DEF Next, JobStep


\* The first record is that of the registration.
LEMMA RegistrationIsFirst ==
  ASSUME EngineInv, [Next]_vars
  PROVE  /\ Registered <=> records # <<>>
         /\ records = <<>> => WriteRegistered \/ UNCHANGED records
         /\ records # <<>> => records' # <<>>
<1>1. Registered <=> records # <<>>
  <2>1. Len(records) \in Nat /\ DOMAIN records = 1..Len(records)
    BY ListedFacts DEF EngineInv, RecordsSound
  <2>2. CASE records = <<>>
    BY <2>2 DEF Registered, Of
  <2>3. CASE records # <<>>
    <3>1. 1 \in DOMAIN records
      BY <2>1, <2>3 DEF EngineInv, RecordsSound, Listed
    <3>2. 1 \in Of("registered")
      BY <3>1 DEF Of, EngineInv, RecordsSound
    <3> QED
      BY <2>3, <3>2 DEF Registered
  <2> QED
    BY <2>2, <2>3
<1>2. ASSUME records = <<>> PROVE WriteRegistered \/ UNCHANGED records
  <2>1. ASSUME NEW stage, stage # "boundary", At(stage) PROVE FALSE
    <3>1. PICK j : j = job /\ j # NoJob /\ j.at = stage
      BY <2>1 DEF At
    <3>2. JobSound(j)
      BY <3>1 DEF EngineInv
    <3> QED
      BY <1>2, <2>1, <3>1, <3>2 DEF JobSound
  <2>2. CASE WriteStatus \/ Settle \/ Open \/ Invoke \/ ActNew \/ SettleActivation \/ Fail
    BY <2>1, <2>2 DEF WriteStatus, Settle, Open, Invoke, ActNew, Acts, SettleActivation, Fail
  <2>3. CASE \/ Refuse \/ StartRegister \/ StartReconcile
             \/ \E kind \in Switches : StartStatus(kind)
             \/ \E r \in Roles : ReadBoundary(r) \/ Observe(r)
             \/ Send \/ Derive \/ AllOpen \/ Try \/ Finish
    BY <2>3 DEF Refuse, StartRegister, StartReconcile, StartStatus, ReadBoundary, Observe, Send,
                Derive, AllOpen, Try, Finish, durable
  <2>4. CASE \/ \E message \in Messages : RunFails(message)
             \/ \E actions \in Plans : RunAsks(actions)
             \/ ActSettled \/ World \/ Err \/ Crash \/ UNCHANGED vars
    BY <2>4 DEF RunFails, RunAsks, ActSettled, World, Register, RegisterAgain, Switch, Happen, Err,
                Crash, vars, durable
  <2> QED
    BY <2>2, <2>3, <2>4 DEF Next, JobStep
<1>3. ASSUME records # <<>> PROVE records' # <<>>
  <2>1. ASSUME NEW rec, records' = Append(records, rec) PROVE records' # <<>>
    <3>1. PICK p : p = Len(records) + 1 /\ p \in (DOMAIN records)'
      BY <2>1, RecordAdded DEF EngineInv
    <3> QED
      BY <3>1
  <2> QED
    BY <1>3, <2>1, RecordsGrow
<1> QED
  BY <1>1, <1>2, <1>3

\* How the queue moves while the service does not wake the registration.
LEMMA QueueMoves ==
  ASSUME EngineInv, [Next]_vars, ~known, ~torn, ~Crash, ~StartReconcile,
         NEW jobs \in Seq(ChainKinds), jobs = chain, NEW new, new = chain'
  PROVE  \/ new = jobs
         \/ \E kind \in ChainKinds \ {"reconcile"} : new = Append(jobs, kind)
         \/ WriteStatus /\ new = Append(jobs, "reconcile")
         \/ /\ jobs # <<>> /\ (Registered => Head(jobs) # "first")
            /\ \/ new = Tail(jobs)
               \/ new = Append(Tail(jobs), "first")
               \/ Registered /\ new = Append(Tail(jobs), "reconcile")
<1>1. Woken(jobs) = jobs
  BY DEF Woken
<1>2. {"register", "first"} \cup Switches \subseteq ChainKinds \ {"reconcile"}
  BY DEF ChainKinds, Switches
<1>3. CASE Refuse
  <2>1. jobs # <<>> /\ new = Tail(jobs) /\ (Registered => Head(jobs) # "first")
    BY <1>3 DEF Refuse, Rest
  <2> QED
    BY <2>1
<1>4. CASE StartRegister
  <2>1. jobs # <<>> /\ Head(jobs) = "register" /\ (new = Tail(jobs) \/ new = Append(Tail(jobs), "first"))
    BY <1>4 DEF StartRegister, Takes, Rest
  <2> QED
    BY <2>1
<1>5. ASSUME NEW kind \in Switches, StartStatus(kind)
      PROVE  /\ jobs # <<>> /\ (Registered => Head(jobs) # "first")
             /\ \/ new = Tail(jobs)
                \/ Registered /\ new = Append(Tail(jobs), "reconcile")
  <2>1. /\ jobs # <<>> /\ Head(jobs) = kind /\ Registered
        /\ new = Tail(jobs) \/ new = Append(Tail(jobs), "reconcile")
    BY <1>5 DEF StartStatus, Takes, Rest, Resumed
  <2> QED
    BY <2>1 DEF Switches
<1>6. CASE WriteRegistered
  <2>1. new = Append(jobs, "first")
    BY <1>6 DEF WriteRegistered
  <2> QED
    BY <1>2, <2>1
<1>7. CASE WriteStatus
  BY <1>7 DEF WriteStatus
<1>8. CASE Send
  BY <1>1, <1>8 DEF Send, CarryOut, Appended
<1>9. CASE ActNew
  BY <1>1, <1>9 DEF ActNew
<1>10. CASE \/ \E r \in Roles : ReadBoundary(r) \/ Observe(r)
            \/ Settle \/ Derive \/ Open \/ AllOpen \/ Try \/ Finish \/ Invoke
  BY <1>10 DEF ReadBoundary, Observe, Settle, Derive, Open, AllOpen, Try, Finish, Invoke
<1>11. CASE \/ \E message \in Messages : RunFails(message)
            \/ \E actions \in Plans : RunAsks(actions)
            \/ ActSettled \/ SettleActivation \/ Fail \/ Err \/ UNCHANGED vars
  BY <1>11 DEF RunFails, RunAsks, ActSettled, SettleActivation, Fail, EndTry, Err, vars
<1>12. CASE Register
  <2>1. jobs = <<>> /\ new = <<"register">>
    BY <1>12 DEF Register
  <2>2. new = Append(jobs, "register")
    BY <2>1
  <2> QED
    BY <1>2, <2>2
<1>13. ASSUME NEW kind \in Switches, Switch(kind)
       PROVE  \E k \in ChainKinds \ {"reconcile"} : new = Append(jobs, k)
  <2>1. new = Append(jobs, kind)
    BY <1>13 DEF Switch
  <2> QED
    BY <1>2, <2>1
<1>14. CASE RegisterAgain \/ \E r \in Roles, name \in Names, key \in Keys : Happen(r, name, key)
  BY <1>1, <1>14 DEF RegisterAgain, Happen, Appended
<1> QED
  BY <1>3, <1>4, <1>5, <1>6, <1>7, <1>8, <1>9, <1>10, <1>11, <1>12, <1>13, <1>14
     DEF Next, JobStep, World


\* Nothing is recorded but by a reconcile that tries an activation.
LEMMA NothingRecorded ==
  ASSUME EngineInv, [Next]_vars, RecordedOps = {}, ~At("act")
  PROVE  RecordedOps' = {}
<1>1. CASE UNCHANGED records
  BY <1>1, RecordsSame
<1>2. ASSUME NEW rec, records' = Append(records, rec), Adds(rec) PROVE RecordedOps' = {}
  <2>1. rec.kind # "recorded"
    BY <1>2 DEF Adds, ActNew, Acts
  <2>2. RecordedOps' = RecordedOps \cup
          (IF rec.kind = "recorded" THEN {[act |-> rec.act, op |-> rec.op]} ELSE {})
    BY <1>2, RecordSays DEF EngineInv
  <2> QED
    BY <2>1, <2>2
<1> QED
  BY <1>1, <1>2, RecordsGrow

\* A reconcile that starts reads every stream; with nothing recorded it has nothing to
\* recover.
LEMMA StartsFresh ==
  ASSUME EngineInv, StartReconcile, Status = "active", NEW i, i = job'
  PROVE  /\ i # NoJob /\ Reconciling(i) /\ Gathers(i)
         /\ i.unread = Roles /\ i.of = Head(chain)
         /\ RecordedOps = {} => ~Recovers(i)
<1>1. PICK at : at = IF Pending = <<>> THEN "observe" ELSE "send"
  OBVIOUS
<1>2. i = [Fresh(Head(chain), at) EXCEPT !.ops = Pending]
  BY <1>1 DEF StartReconcile
<1>3. /\ i.act = None /\ i.at = at /\ i.unread = Roles /\ i.of = Head(chain)
      /\ DOMAIN i = JobFields
  BY <1>2 DEF Fresh, JobFields
<1>4. i # NoJob
  BY <1>3 DEF NoJob, JobFields
<1>5. RecordedOps = {} => at = "observe"
  <2>1. /\ Pending \in Seq(Operations) /\ \A n \in DOMAIN Pending : Pending[n] \in RecordedOps
    BY PendingLists DEF EngineInv
  <2>2. ASSUME RecordedOps = {} PROVE Pending = <<>>
    <3>1. DOMAIN Pending = {}
      BY <2>1, <2>2
    <3> HIDE DEF Pending, Operations
    <3> QED
      BY <2>1, <3>1
  <2> QED
    BY <1>1, <2>2
<1> QED
  BY <1>1, <1>3, <1>4, <1>5 DEF Reconciling, Gathers, Recovers, Sending

\* The first reconcile stays ahead until it has run, and then the registration is known.
LEMMA BeginningStays ==
  ASSUME EngineInv, Beginning, [Next]_vars
  PROVE  Beginning'
<1> SUFFICES ASSUME ~torn', ~known'
             PROVE  IF records' = <<>> THEN NoReconcile(chain')
                    ELSE IF job' # NoJob /\ Reconciling(job') THEN FirstRuns(job')
                    ELSE FirstAhead(chain') /\ RecordedOps' = {}
  BY DEF Beginning, NoReconcile, FirstAhead, FirstRuns, Recovers, Reconciling
<1>1. PICK jobs \in Seq(ChainKinds) : jobs = chain
  BY DEF EngineInv, SwitchesSound
<1>2. PICK new, i, j : new = chain' /\ i = job' /\ j = job
  OBVIOUS
<1> DEFINE Goal == IF records' = <<>> THEN NoReconcile(new)
                   ELSE IF i # NoJob /\ Reconciling(i) THEN FirstRuns(i)
                   ELSE FirstAhead(new) /\ RecordedOps' = {}
<1>3. CASE Crash
  <2>1. records = <<>> /\ UNCHANGED records /\ new = <<>>
    BY <1>2, <1>3 DEF Crash
  <2> QED
    BY <1>2, <2>1 DEF NoReconcile
<1>4. CASE ~Crash
  <2>1. ~torn /\ ~known
    BY <1>4, KnownStays
  <2>2. Registered <=> records # <<>>
    BY RegistrationIsFirst
  <2>3. CASE WriteRegistered
    <3>1. j # NoJob /\ j.at = "boundary" /\ JobSound(j)
      BY <1>2, <2>3 DEF WriteRegistered, At, EngineInv
    <3>2. records = <<>>
      BY <3>1 DEF JobSound
    <3>3. NoReconcile(jobs) /\ RecordedOps = {}
      BY <1>1, <2>1, <3>2 DEF Beginning, RecordedOps, Of
    <3>4. new = Append(jobs, "first") /\ i = NoJob
      BY <1>1, <1>2, <2>3 DEF WriteRegistered
    <3>5. FirstAhead(new)
      BY <3>3, <3>4, AheadStays
    <3>6. RecordedOps' = {}
      BY <1>2, <3>1, <3>3, NothingRecorded DEF At
    <3>7. records' # <<>>
      <4>1. PICK rec : Write(rec)
        BY <2>3 DEF WriteRegistered
      <4>2. records' = Append(records, rec)
        BY <3>2, <4>1 DEF Write
      <4>3. Len(records) + 1 \in (DOMAIN records)'
        BY <4>2, RecordAdded DEF EngineInv
      <4> QED
        BY <4>3
    <3> QED
      BY <1>2, <3>4, <3>5, <3>6, <3>7
  <2>4. CASE records = <<>> /\ ~WriteRegistered
    <3>1. records' = <<>> /\ NoReconcile(jobs) /\ ~Registered
      BY <1>1, <2>1, <2>2, <2>4, RegistrationIsFirst DEF Beginning
    <3>2. ~WriteStatus
      BY <2>4 DEF WriteStatus, At, EngineInv, JobSound
    <3>3. ~StartReconcile
      BY <3>1 DEF StartReconcile
    <3>4. "first" \in ChainKinds \ {"reconcile"}
      BY DEF ChainKinds
    <3>5. jobs # <<>> => Tail(jobs) \in Seq(ChainKinds) /\ NoReconcile(Tail(jobs))
      BY <3>1, Queueing, AheadStays
    <3>6. jobs # <<>> => NoReconcile(Append(Tail(jobs), "first"))
      BY <3>4, <3>5, AheadStays
    <3>7. \A kind \in ChainKinds \ {"reconcile"} : NoReconcile(Append(jobs, kind))
      BY <3>1, AheadStays
    <3>8. NoReconcile(new)
      BY <1>1, <1>2, <1>4, <2>1, <3>1, <3>2, <3>3, <3>5, <3>6, <3>7, QueueMoves
    <3> QED
      BY <1>2, <3>1, <3>8
  <2>5. CASE records # <<>> /\ j # NoJob /\ Reconciling(j)
    <3>1. FirstRuns(j) /\ records' # <<>>
      BY <1>2, <2>1, <2>5, RegistrationIsFirst DEF Beginning
    <3>2. i # NoJob
      <4>1. ASSUME i = NoJob PROVE FALSE
        <5>1. WriteStatus \/ Finish \/ Recovers(j)
          BY <1>2, <1>4, <2>5, <4>1, JobEnds
        <5>2. ~WriteStatus
          BY <1>2, <2>5 DEF WriteStatus, At, Reconciling
        <5>3. j.of = "first" /\ ~Recovers(j)
          BY <3>1 DEF FirstRuns
        <5>4. Ended(j)
          BY <1>2, <5>1, <5>2, <5>3 DEF Finish
        <5> QED
          BY <5>3, <5>4 DEF Ended
      <4> QED
        BY <4>1
    <3>3. CASE i = j
      BY <1>2, <2>5, <3>1, <3>3
    <3>4. CASE i # j
      <4>1. Reconciling(i) /\ i.of = j.of /\ (Recovers(i) => Recovers(j))
        BY <1>2, <2>5, <3>2, <3>4, JobGoesOn
      <4> QED
        BY <1>2, <3>1, <3>2, <4>1 DEF FirstRuns
    <3> QED
      BY <3>3, <3>4
  <2>6. CASE records # <<>> /\ ~(j # NoJob /\ Reconciling(j))
    <3>1. FirstAhead(jobs) /\ RecordedOps = {} /\ records' # <<>> /\ Registered
      BY <1>1, <1>2, <2>1, <2>2, <2>6, RegistrationIsFirst DEF Beginning
    <3>2. RecordedOps' = {}
      BY <1>2, <2>6, <3>1, NothingRecorded DEF At, Reconciling
    <3>3. CASE StartReconcile
      <4>1. j = NoJob /\ jobs # <<>> /\ Head(jobs) \in {"reconcile", "first"}
        BY <1>1, <1>2, <3>3 DEF StartReconcile
      <4>2. Head(jobs) = "first"
        BY <3>1, <4>1, AheadStays
      <4>3. Status = "active"
        <5>1. ASSUME Status # "active" PROVE FALSE
          <6>1. Ended(Fresh("first", "load"))
            BY <1>1, <3>3, <4>2, <5>1 DEF StartReconcile
          <6> QED
            BY <6>1 DEF Ended, Fresh
        <5> QED
          BY <5>1
      <4>4. i # NoJob /\ Reconciling(i) /\ i.of = "first" /\ ~Recovers(i)
        BY <1>1, <1>2, <3>1, <3>3, <4>2, <4>3, StartsFresh
      <4> QED
        BY <1>2, <3>1, <4>4 DEF FirstRuns
    <3>4. CASE ~StartReconcile
      <4>1. FirstAhead(new)
        <5>1. "reconcile" \in ChainKinds /\ "first" \in ChainKinds
          BY DEF ChainKinds
        <5>2. \A kind \in ChainKinds : FirstAhead(Append(jobs, kind))
          BY <3>1, AheadStays
        <5>3. jobs # <<>> /\ Head(jobs) # "first" =>
                Tail(jobs) \in Seq(ChainKinds) /\ FirstAhead(Tail(jobs))
          BY <3>1, Queueing, AheadStays
        <5>4. jobs # <<>> /\ Head(jobs) # "first" =>
                \A kind \in ChainKinds : FirstAhead(Append(Tail(jobs), kind))
          BY <5>3, AheadStays
        <5>5. \/ new = jobs
              \/ \E kind \in ChainKinds \ {"reconcile"} : new = Append(jobs, kind)
              \/ WriteStatus /\ new = Append(jobs, "reconcile")
              \/ /\ jobs # <<>> /\ (Registered => Head(jobs) # "first")
                 /\ \/ new = Tail(jobs)
                    \/ new = Append(Tail(jobs), "first")
                    \/ Registered /\ new = Append(Tail(jobs), "reconcile")
          BY <1>1, <1>2, <1>4, <2>1, <3>4, QueueMoves
        <5>6. CASE \E kind \in ChainKinds : new = Append(jobs, kind)
          BY <5>2, <5>6
        <5>7. CASE /\ jobs # <<>> /\ Head(jobs) # "first"
                   /\ new = Tail(jobs) \/ \E kind \in ChainKinds : new = Append(Tail(jobs), kind)
          BY <5>3, <5>4, <5>7
        <5> QED
          BY <3>1, <5>1, <5>5, <5>6, <5>7
      <4>2. ~(i # NoJob /\ Reconciling(i))
        <5>1. ASSUME i # NoJob, Reconciling(i) PROVE FALSE
          <6>1. i # j
            BY <2>6, <5>1
          <6>2. j = NoJob
            BY <1>2, <2>6, <5>1, <6>1, JobGoesOn
          <6>3. StartRegister \/ \E kind \in Switches : StartStatus(kind)
            BY <1>2, <3>4, <5>1, <6>2, JobStarts
          <6> QED
            BY <1>2, <2>6, <5>1, <6>3 DEF StartRegister, StartStatus, Fresh, Reconciling
        <5> QED
          BY <5>1
      <4> QED
        BY <1>2, <3>1, <3>2, <4>1, <4>2
    <3> QED
      BY <3>3, <3>4
  <2> QED
    BY <2>3, <2>4, <2>5, <2>6
<1> QED
  BY <1>3, <1>4

\* The reconcile of a new registration is ahead of every other.
LEMMA BeginningHolds == Spec => []Beginning
<1>1. Init => Beginning
  BY DEF Init, Beginning, NoReconcile
<1>2. EngineInv /\ Beginning /\ [Next]_vars => Beginning'
  BY BeginningStays
<1> QED
  BY <1>1, <1>2, EngineInvariant, PTL DEF Spec

\* What is due depends on the streams, the boundary and nothing else.
LEMMA DueKept ==
  ASSUME UNCHANGED stream, Boundary' = Boundary, Registered, Registered'
  PROVE  Due' = Due
<1>1. PICK st, bd : st = stream /\ bd = Boundary /\ st = stream' /\ bd = Boundary'
  OBVIOUS
<1>2. Events = Events' /\ [r \in Roles |-> Len(stream[Bindings[r]])] = [r \in Roles |-> Len(stream'[Bindings[r]])]
  BY DEF Events
<1>3. \A s, read : Activations(s, read)' = Activations(s, read)
  BY <1>1 DEF Activations, Eligible, Events
<1>4. PICK ends : ends = [r \in Roles |-> Len(stream[Bindings[r]])] /\ ends = [r \in Roles |-> Len(stream'[Bindings[r]])]
  BY <1>2
<1>5. Due = {o.act : o \in UNION {Activations(s, ends) : s \in Subscriptions}}
  BY <1>4 DEF Due
<1>6. Due' = {o.act : o \in UNION {Activations(s, ends)' : s \in Subscriptions}}
  BY <1>4 DEF Due
<1> QED
  BY <1>3, <1>5, <1>6

\* A job that has read everything derives what is due and not yet opened.
LEMMA DerivesDue ==
  ASSUME NEW read, Within(read), \A r \in Roles : read[r] = Len(stream[Bindings[r]]), Registered
  PROVE  Due \subseteq Opened \cup {o.act : o \in Derived(read)}
<1>1. read = [r \in Roles |-> Len(stream[Bindings[r]])]
  BY DEF Within
<1>2. Due = {o.act : o \in UNION {Activations(s, read) : s \in Subscriptions}}
  BY <1>1 DEF Due
<1> QED
  BY <1>2 DEF Derived

\* A service that knows the registration wakes it.
LEMMA KnownWakes ==
  ASSUME NEW jobs \in Seq(ChainKinds), known
  PROVE  Reconciles(Woken(jobs))
<1>1. CASE jobs # <<>> /\ jobs[Len(jobs)] = "reconcile"
  <2>1. Woken(jobs) = jobs /\ Len(jobs) \in DOMAIN jobs
    BY <1>1 DEF Woken
  <2> QED
    BY <1>1, <2>1 DEF Reconciles
<1>2. CASE ~(jobs # <<>> /\ jobs[Len(jobs)] = "reconcile")
  <2>1. Woken(jobs) = Append(jobs, "reconcile")
    BY <1>2 DEF Woken
  <2> QED
    BY <2>1, QueueReconciles
<1> QED
  BY <1>1, <1>2

\* An activation that is opened is among those that were.
LEMMA OpensOne ==
  ASSUME EngineInv, Open, NEW j, j = job
  PROVE  Opened' = Opened \cup {FirstOf(j.open).act}
<1>1. j # NoJob /\ j.at = "open" /\ j.open # {}
  BY DEF Open, At
<1>2. OpenSound(j.open)
  BY <1>1 DEF EngineInv, JobSound
<1>3. PICK rec : rec = FirstOf(j.open)
  OBVIOUS
<1>4. rec \in j.open
  BY <1>1, <1>3 DEF FirstOf
<1>5. rec.kind = "opened" /\ rec.act \notin Opened
  BY <1>2, <1>4 DEF OpenSound
<1>6. ~\E n \in DOMAIN records : records[n] = rec
  BY <1>5 DEF Opened, Of
<1>7. Write(rec)
  BY <1>3 DEF Open
<1>8. records' = Append(records, rec)
  BY <1>6, <1>7 DEF Write
<1> QED
  BY <1>3, <1>5, <1>8, RecordSays DEF EngineInv


\* What was opened stays opened, and the registration registered.
LEMMA OpenedStay ==
  ASSUME EngineInv, [Next]_vars
  PROVE  Opened \subseteq Opened' /\ (Registered => Registered')
<1>1. CASE UNCHANGED records
  BY <1>1, RecordsSame DEF Registered
<1>2. ASSUME NEW rec, records' = Append(records, rec)
      PROVE  Opened \subseteq Opened' /\ (Registered => Registered')
  <2>1. Of("registered") \subseteq Of("registered")'
    BY <1>2, RecordAdded DEF EngineInv
  <2>2. Opened \subseteq Opened'
    BY <1>2, RecordSays DEF EngineInv
  <2>3. Registered => Registered'
    BY <2>1 DEF Registered
  <2> QED
    BY <2>2, <2>3
<1> QED
  BY <1>1, <1>2, RecordsGrow

\* While the streams stay as they are, what is due is opened step by step.
LEMMA CoverStays ==
  ASSUME EngineInv, [Next]_vars, records # <<>>, UNCHANGED stream, Due' = Due,
         NEW i, i = job', NEW j, j = job, NEW op, op = Opened',
         ~StartReconcile, ~WriteStatus, ~Crash, ~missed',
         Covers(j, stream, Due, Opened)
  PROVE  Covers(i, stream, Due, op)
<1>1. Opened \subseteq op /\ Registered
  BY OpenedStay, RegistrationIsFirst
<1>2. PICK st, d : st = stream /\ d = Due
  OBVIOUS
<1>3. CASE i = j
  BY <1>1, <1>3 DEF Covers
<1>4. CASE j = NoJob /\ i # j
  <2>1. StartRegister \/ \E kind \in Switches : StartStatus(kind)
    BY <1>4, JobStarts
  <2>2. ~Reconciling(i)
    BY <1>4, <2>1 DEF StartRegister, StartStatus, Fresh, Reconciling
  <2> QED
    BY <1>1, <1>4, <2>2 DEF Covers
<1>5. CASE j # NoJob /\ i = NoJob
  <2>1. Finish
    BY <1>5, JobEnds
  <2>2. j.at = "pick"
    BY <2>1 DEF Finish, At
  <2>3. d \subseteq Opened
    BY <1>2, <1>5, <2>2 DEF Covers, Gathers, Recovers, Sending
  <2> QED
    BY <1>1, <1>2, <1>5, <2>3 DEF Covers
<1>6. CASE j # NoJob /\ i # NoJob /\ i # j
  <2>1. /\ Reconciling(j) /\ Reconciling(i) /\ DOMAIN i = JobFields
        /\ \/ Derive \/ Open \/ \E r \in Roles : Observe(r)
           \/ /\ i.read = j.read /\ i.unread = j.unread
              /\ Gathers(i) <=> Gathers(j)
              /\ i.at # "open" /\ (j.at = "open" => AllOpen)
    BY <1>6, JobGoesOn
  <2>2. DOMAIN j = JobFields /\ JobSound(j)
    BY <1>6 DEF EngineInv, JobSound
  <2>3. IF Gathers(j) THEN \A r \in Roles \ j.unread : j.read[r] = Len(st[Bindings[r]])
        ELSE /\ j.unread = {}
             /\ d \subseteq Opened \cup (IF j.at = "open" THEN {o.act : o \in j.open} ELSE {})
    BY <1>2, <1>6, <2>1 DEF Covers
  <2>4. CASE Derive
    <3>1. /\ j.at = "observe" /\ j.unread = {}
          /\ i = [j EXCEPT !.open = Derived(j.read), !.at = "open"]
      BY <2>4 DEF Derive, At
    <3>2. /\ i.open = Derived(j.read) /\ i.at = "open" /\ i.unread = {}
      BY <2>2, <3>1 DEF JobFields
    <3>3. Gathers(j) /\ ~Gathers(i)
      BY <2>2, <3>1, <3>2 DEF Gathers, Recovers, Sending, JobSound
    <3>4. Within(j.read) /\ \A r \in Roles : j.read[r] = Len(stream[Bindings[r]])
      BY <1>2, <2>2, <2>3, <3>1, <3>3 DEF JobSound
    <3>5. d \subseteq Opened \cup {o.act : o \in i.open}
      BY <1>1, <1>2, <3>2, <3>4, DerivesDue
    <3> QED
      BY <1>1, <1>2, <1>6, <2>1, <3>2, <3>3, <3>5 DEF Covers
  <2>5. CASE Open
    <3>1. j.at = "open" /\ i = [j EXCEPT !.open = @ \ {FirstOf(j.open)}]
      BY <2>5 DEF Open, At
    <3>2. /\ i.open = j.open \ {FirstOf(j.open)} /\ i.at = "open" /\ i.unread = j.unread
      BY <2>2, <3>1 DEF JobFields
    <3>3. ~Gathers(j) /\ ~Gathers(i)
      BY <3>1, <3>2 DEF Gathers, Recovers, Sending
    <3>4. op = Opened \cup {FirstOf(j.open).act}
      BY <2>5, OpensOne
    <3>5. d \subseteq op \cup {o.act : o \in i.open}
      BY <2>3, <3>1, <3>2, <3>3, <3>4
    <3> QED
      BY <1>2, <1>6, <2>1, <2>3, <3>2, <3>3, <3>5 DEF Covers
  <2>6. ASSUME NEW r \in Roles, Observe(r) PROVE Covers(i, stream, Due, op)
    <3>1. /\ j.at = "observe"
          /\ i = [j EXCEPT !.unread = @ \ {r}, !.read[r] = Len(stream[Bindings[r]])]
      BY <2>6 DEF Observe, At, Read
    <3>2. /\ i.at = "observe" /\ i.unread = j.unread \ {r} /\ i.act = j.act
          /\ i.read = [j.read EXCEPT ![r] = Len(st[Bindings[r]])]
      BY <1>2, <2>2, <3>1 DEF JobFields
    <3>3. Gathers(j) /\ Gathers(i)
      BY <2>2, <3>1, <3>2 DEF Gathers, JobSound
    <3>4. DOMAIN j.read = Roles
      BY <2>2 DEF JobSound, Within
    <3>5. \A q \in Roles \ i.unread : i.read[q] = Len(st[Bindings[q]])
      BY <2>3, <3>2, <3>3, <3>4
    <3> QED
      BY <1>2, <1>6, <2>1, <3>3, <3>5 DEF Covers
  <2>7. CASE /\ i.read = j.read /\ i.unread = j.unread
             /\ Gathers(i) <=> Gathers(j)
             /\ i.at # "open" /\ (j.at = "open" => AllOpen)
    <3>1. CASE Gathers(j)
      BY <1>2, <1>6, <2>1, <2>3, <2>7, <3>1 DEF Covers
    <3>2. CASE ~Gathers(j)
      <4>1. j.at = "open" => j.open = {}
        BY <2>7 DEF AllOpen
      <4>2. d \subseteq Opened
        BY <2>3, <3>2, <4>1
      <4> QED
        BY <1>1, <1>2, <1>6, <2>1, <2>3, <2>7, <3>2, <4>2 DEF Covers
    <3> QED
      BY <3>1, <3>2
  <2> QED
    BY <2>1, <2>4, <2>5, <2>6, <2>7
<1> QED
  BY <1>3, <1>4, <1>5, <1>6

\* While nothing waits, what is due is opened, or the reconcile under way has yet to read it.
LEMMA DueStays ==
  ASSUME EngineInv, EngineInv', Beginning, DueOpened, [Next]_vars
  PROVE  DueOpened'
<1> SUFFICES ASSUME records' # <<>>, ~Waiting'
             PROVE  Covers(job', stream', Due', Opened')
  BY DEF DueOpened, Covers, Reconciling, Gathers, Recovers
<1>1. PICK i, j, op, d, new : i = job' /\ j = job /\ op = Opened' /\ d = Due' /\ new = stream'
  OBVIOUS
<1>2. records # <<>> /\ ~WriteRegistered /\ ~WriteStatus /\ ~Crash
  <2>1. ~WriteRegistered /\ ~WriteStatus /\ ~(Crash /\ records # <<>>)
    BY SwitchesWait
  <2> QED
    BY <2>1, RegistrationIsFirst
<1>3. ~torn' /\ ~missed' /\ ~Reconciles(chain')
  BY DEF Waiting
<1>4. CASE Waiting
  <2>1. StartReconcile /\ Status = "active"
    BY <1>2, <1>4, WaitingStays
  <2>2. i # NoJob /\ Reconciling(i) /\ Gathers(i) /\ i.unread = Roles
    BY <1>1, <2>1, StartsFresh
  <2>3. Covers(i, new, d, op)
    BY <2>2 DEF Covers
  <2> QED
    BY <1>1, <2>3
<1>5. CASE ~Waiting
  <2>1. Covers(j, stream, Due, Opened) /\ ~torn /\ ~Reconciles(chain)
    BY <1>1, <1>2, <1>5 DEF DueOpened, Waiting
  <2>2. PICK jobs \in Seq(ChainKinds) : jobs = chain
    BY DEF EngineInv, SwitchesSound
  <2>3. ~StartReconcile
    <3>1. jobs # <<>> => 1 \in DOMAIN jobs /\ Head(jobs) = jobs[1]
      OBVIOUS
    <3> QED
      BY <2>1, <2>2, <3>1 DEF StartReconcile, Reconciles
  <2>4. CASE UNCHANGED stream
    <3>1. RecordsSound' /\ Registered /\ Registered'
      BY <1>2, OpenedStay, RegistrationIsFirst DEF EngineInv
    <3>2. Boundary' = Boundary
      BY <1>2, <3>1, BoundaryIsFixed
    <3>3. Due' = Due
      BY <2>4, <3>1, <3>2, DueKept
    <3>4. Covers(i, stream, Due, op)
      BY <1>1, <1>2, <1>3, <2>1, <2>3, <2>4, <3>3, CoverStays
    <3> QED
      BY <1>1, <2>4, <3>3, <3>4
  <2>5. ASSUME NEW r \in Roles, NEW event, Appended(r, event), UNCHANGED job \/ Send
        PROVE  Covers(i, new, d, op)
    <3>1. /\ chain' = Woken(jobs)
          /\ stream' = [stream EXCEPT ![Bindings[r]] = Append(@, event)]
      BY <2>2, <2>5 DEF Appended
    <3>2. missed' = (missed \/ Overlooks(r))
      BY <2>5, Zenon DEF Appended
    <3>3. ~known
      BY <1>3, <3>1, KnownWakes
    <3>4. ~Overlooks(r)
      BY <1>3, <3>2, Zenon
    <3>5. j # NoJob /\ Reconciling(j) /\ FirstRuns(j)
      BY <1>1, <1>2, <2>1, <2>2, <3>3, AheadStays DEF Beginning
    <3>6. r \in j.unread
      BY <1>1, <3>3, <3>4, <3>5 DEF Overlooks, FirstRuns
    <3>7. Gathers(j) /\ \A q \in Roles \ j.unread : j.read[q] = Len(stream[Bindings[q]])
      BY <2>1, <3>5, <3>6 DEF Covers
    <3>8. i = j
      <4>1. ~Send
        BY <1>1, <3>5, <3>7 DEF Send, At, Gathers, FirstRuns
      <4> QED
        BY <1>1, <2>5, <4>1
    <3>9. \A q \in Roles \ j.unread : stream'[Bindings[q]] = stream[Bindings[q]]
      <4>1. stream \in [Surfaces -> Seq(StreamEvents)]
        BY DEF EngineInv, StreamsSound
      <4>2. \A q \in Roles \ j.unread : Bindings[q] \in Surfaces /\ Bindings[q] # Bindings[r]
        BY <3>6, EngineAssumption
      <4> QED
        BY <3>1, <4>1, <4>2
    <3> QED
      BY <1>1, <3>5, <3>7, <3>8, <3>9 DEF Covers
  <2> QED
    BY <1>1, <2>4, <2>5, StreamMoves
<1> QED
  BY <1>4, <1>5

\* What is due is opened, or yet to be read by the reconcile under way.
LEMMA DueHolds == Spec => []DueOpened
<1>1. Init => DueOpened
  BY DEF Init, DueOpened
<1>2. EngineInv /\ EngineInv' /\ Beginning /\ DueOpened /\ [Next]_vars => DueOpened'
  BY DueStays
<1> QED
  BY <1>1, <1>2, EngineInvariant, BeginningHolds, PTL DEF Spec

\* A condition that was true of some beginning of what counts: each part of it at a time of
\* its own.  An exact count need not be true any more.
CameTrue(events, view, c) == \E last \in Nat : TrueOf(events, UpTo(view, c, last), c)
Ripe(events, view, c) ==
  CASE c.kind = "all" -> \A i \in DOMAIN c.parts : CameTrue(events, view, c.parts[i])
    [] c.kind = "any" -> \E i \in DOMAIN c.parts : CameTrue(events, view, c.parts[i])
    [] OTHER -> CameTrue(events, view, c)

\* What was true of some of the events has evidence in all of them.
LEMMA TrueHasEvidence ==
  ASSUME NEW roles, NEW events, NEW v, NEW w, NEW c, c.kind \in Parts, ValidPart(c, roles),
         NEW b \in Nat, w[c.role] \in SUBSET (1..b), v[c.role] \subseteq w[c.role],
         TrueOf(events, v, c)
  PROVE  Part(events, w, c) # {}
<1>0. PICK S, T : S = Matching(events, v, c.role, c.name) /\ T = Matching(events, w, c.role, c.name)
  OBVIOUS
<1>1. S \in SUBSET (1..b) /\ T \in SUBSET (1..b) /\ S \subseteq T
  BY <1>0 DEF Matching
<1>2. /\ Cardinality(S) \in Nat /\ Cardinality(T) \in Nat
      /\ Cardinality(S) <= Cardinality(T)
      /\ (Cardinality(S) = 0 <=> S = {}) /\ (Cardinality(T) = 0 <=> T = {})
  BY <1>1, PositionsAreFinite
<1>3. /\ c.kind = "one" => S # {}
      /\ c.kind = "count" => Compares(c.operator, Cardinality(S), c.value)
  BY <1>0, TrueByNumber
<1>4. CASE c.kind \in {"one", "count"}
  <2>1. Enough(c, T)
    <3>1. CASE c.kind = "one"
      BY <1>1, <1>3, <3>1 DEF Enough
    <3>2. CASE c.kind = "count"
      <4>1. c.operator \in {"eq", "gte", "lte"} /\ c.value \in Nat
        BY <3>2 DEF ValidPart
      <4>2. /\ c.operator = "eq" => Cardinality(S) = c.value
            /\ c.operator = "gte" => Cardinality(S) >= c.value
            /\ c.operator = "lte" => Cardinality(S) \in 1..c.value
        BY <1>3, <3>2, ComparesIs
      <4>3. CASE c.operator = "lte"
        <5>1. Cardinality(S) # 0 /\ c.value > 0
          BY <1>2, <4>1, <4>2, <4>3
        <5>2. T # {}
          BY <1>1, <1>2, <5>1
        <5> QED
          BY <3>2, <4>3, <5>1, <5>2 DEF Enough
      <4>4. CASE c.operator # "lte"
        <5>1. Cardinality(T) >= c.value
          BY <1>2, <4>1, <4>2, <4>4
        <5> QED
          BY <3>2, <4>4, <5>1 DEF Enough
      <4> QED
        BY <4>3, <4>4
    <3> QED
      BY <1>4, <3>1, <3>2
  <2>2. Simple(events, w, c) # {}
    BY <1>0, <2>1 DEF Simple
  <2> QED
    BY <1>4, <2>2 DEF Part
<1>5. CASE c.kind = "sequence"
  <2>1. HoldsOrMore(events, w, c)
    BY TrueLater
  <2>2. Chain(events, w, c)[Len(c.names)] # {}
    BY <1>5, <2>1 DEF HoldsOrMore
  <2> QED
    BY <1>5, <2>2 DEF Part, Sequential
<1> QED
  BY <1>4, <1>5 DEF Parts

\* A condition that has come true has evidence.
LEMMA RipeHasEvidence ==
  ASSUME NEW roles, NEW view \in [roles -> SUBSET Nat], NEW events, NEW c,
         ValidCondition(c, roles),
         c.kind \in {"all", "any"} => c.parts \in Seq({c.parts[i] : i \in DOMAIN c.parts}),
         NEW b \in [roles -> Nat], \A r \in roles : view[r] \in SUBSET (1..b[r]),
         Ripe(events, view, c)
  PROVE  Evidence(events, view, c) # {}
<1>0. /\ c.kind \in {"all", "any"} =>
           \A i \in DOMAIN c.parts : /\ c.parts[i].kind \in Parts /\ c.parts[i].role \in roles
                                     /\ ValidPart(c.parts[i], roles)
      /\ c.kind \notin {"all", "any"} => c.kind \in Parts /\ c.role \in roles /\ ValidPart(c, roles)
  BY PartsAreValid
<1>1. ASSUME NEW p, p.kind \in Parts, p.role \in roles, ValidPart(p, roles),
             CameTrue(events, view, p)
      PROVE  Part(events, view, p) # {}
  <2>1. PICK last \in Nat : TrueOf(events, UpTo(view, p, last), p)
    BY <1>1 DEF CameTrue
  <2>2. PICK v : v = UpTo(view, p, last)
    OBVIOUS
  <2>3. v[p.role] \subseteq view[p.role]
    BY <1>1, <2>2 DEF UpTo
  <2>4. PICK k \in Nat : view[p.role] \in SUBSET (1..k)
    BY <1>1
  <2> QED
    BY <1>1, <2>1, <2>2, <2>3, <2>4, TrueHasEvidence
<1>2. CASE c.kind = "all"
  <2>1. \A i \in DOMAIN c.parts : CameTrue(events, view, c.parts[i])
    BY <1>2 DEF Ripe
  <2>2. \A i \in DOMAIN c.parts : Part(events, view, c.parts[i]) # {}
    BY <1>0, <1>1, <1>2, <2>1
  <2> QED
    BY <1>2, <2>2 DEF Evidence
<1>3. CASE c.kind = "any"
  <2>1. PICK h \in DOMAIN c.parts : CameTrue(events, view, c.parts[h])
    BY <1>3 DEF Ripe
  <2>2. PICK T : T = {i \in DOMAIN c.parts : Part(events, view, c.parts[i]) # {}}
    OBVIOUS
  <2>3. h \in T
    BY <1>0, <1>1, <1>3, <2>1, <2>2
  <2>4. PICK n \in Nat : DOMAIN c.parts = 1..n
    <3>1. c.parts \in Seq({c.parts[k] : k \in DOMAIN c.parts})
      BY <1>3
    <3> QED
      BY <3>1
  <2>5. T \in SUBSET Nat
    BY <2>2, <2>4
  <2>6. PICK i \in T : \A j \in T : i <= j
    BY <2>3, <2>5, LeastPosition
  <2>7. i \in DOMAIN c.parts /\ Part(events, view, c.parts[i]) # {}
    BY <2>2
  <2>8. \A k \in 1..(i - 1) : Part(events, view, c.parts[k]) = {}
    <3>1. ASSUME NEW k \in 1..(i - 1) PROVE Part(events, view, c.parts[k]) = {}
      <4>1. k \in DOMAIN c.parts /\ ~(i <= k)
        BY <2>4, <2>7
      <4> QED
        BY <2>2, <2>6, <4>1
    <3> QED
      BY <3>1
  <2>9. PICK F : F = {j \in DOMAIN c.parts : \A k \in 1..(j - 1) : Part(events, view, c.parts[k]) = {}}
    OBVIOUS
  <2>10. i \in F
    BY <2>7, <2>8, <2>9
  <2>11. Evidence(events, view, c) = UNION {Part(events, view, c.parts[j]) : j \in F}
    BY <1>3, <2>9 DEF Evidence
  <2>12. PICK x : x \in Part(events, view, c.parts[i])
    BY <2>7
  <2>13. x \in Evidence(events, view, c)
    BY <2>10, <2>11, <2>12
  <2> QED
    BY <2>13
<1>4. CASE c.kind \notin {"all", "any"}
  <2>1. CameTrue(events, view, c)
    BY <1>4 DEF Ripe
  <2>2. Part(events, view, c) # {}
    BY <1>0, <1>1, <1>4, <2>1
  <2> QED
    BY <1>4, <2>2 DEF Evidence
<1> QED
  BY <1>2, <1>3, <1>4

\* What a subscription sees of a key, and what it selects without one.
Grouped(s, k) ==
  [r \in Roles |-> {n \in Eligible(s, [q \in Roles |-> Len(stream[Bindings[q]])])[r] :
                      Events[r][n].key = k}]
Selected(s) ==
  Refs(When[s].role, Matching(Events, Eligible(s, [q \in Roles |-> Len(stream[Bindings[q]])]),
                              When[s].role, When[s].name))

\* Nothing is under way or waits, and nothing has been lost to an error.
Quiet == job = NoJob /\ chain = <<>> /\ Status = "active" /\ ~torn /\ ~missed
Answered == {a \in Opened : a \in Done \/ a \in repeated \/ FailureNeedsRetry(a)}

\* When nothing is under way and nothing was lost, whatever came true has its activation,
\* and that has settled or waits for a resume.
QuietHasReacted ==
  Quiet =>
    /\ \A s \in Keyed, k \in Keys :
         Ripe(Events, Grouped(s, k), When[s]) => ByKey(s, k) \in Answered
    /\ \A s \in Subscriptions \ Keyed : \A ref \in Selected(s) : ByEvent(s, ref) \in Answered

\* What came true is due.
LEMMA RipeIsDue ==
  ASSUME StreamsSound, Registered, NEW s \in Keyed, NEW k \in Keys,
         Ripe(Events, Grouped(s, k), When[s])
  PROVE  ByKey(s, k) \in Due
<1>1. PICK ends : ends = [r \in Roles |-> Len(stream[Bindings[r]])]
  OBVIOUS
<1>2. PICK view : view = Eligible(s, ends)
  OBVIOUS
<1>3. Grouped(s, k) = [r \in Roles |-> {n \in view[r] : Events[r][n].key = k}]
  BY <1>1, <1>2 DEF Grouped
<1>4. \A r \in Roles : Len(stream[Bindings[r]]) \in Nat
  BY EngineAssumption DEF StreamsSound
<1>5. ends \in [Roles -> Nat]
  BY <1>1, <1>4
<1>6. \A r \in Roles : view[r] \in SUBSET (1..ends[r])
  BY <1>2 DEF Eligible
<1>7. PICK v : v = Grouped(s, k)
  OBVIOUS
<1>8. \A r \in Roles : v[r] \in SUBSET (1..ends[r])
  BY <1>3, <1>6, <1>7
<1>9. v \in [Roles -> SUBSET Nat]
  <2>1. \A r \in Roles : v[r] \in SUBSET Nat
    BY <1>5, <1>8
  <2>2. v = [r \in Roles |-> v[r]]
    BY <1>3, <1>7
  <2> QED
    BY <2>1, <2>2
<1>10. s \in Subscriptions
  BY EngineAssumption
<1>11. /\ ValidCondition(When[s], Roles)
       /\ When[s].kind \in {"all", "any"} =>
            When[s].parts \in Seq({When[s].parts[i] : i \in DOMAIN When[s].parts})
  BY <1>10, ConditionsAreValid, EngineAssumption
<1>12. Evidence(Events, v, When[s]) # {}
  BY <1>5, <1>7, <1>8, <1>9, <1>11, RipeHasEvidence
<1>13. PICK e \in Evidence(Events, v, When[s]) : TRUE
  BY <1>12
<1>14. PICK o : o = [kind |-> "opened", act |-> ByKey(s, k), refs |-> e]
  OBVIOUS
<1>15. o \in {[kind |-> "opened", act |-> ByKey(s, k), refs |-> x] : x \in Evidence(Events, v, When[s])}
  BY <1>13, <1>14
<1>16. Activations(s, ends)
         = UNION {{[kind |-> "opened", act |-> ByKey(s, h), refs |-> x] :
                     x \in Evidence(Events, [r \in Roles |-> {n \in view[r] : Events[r][n].key = h}],
                                    When[s])} : h \in Keys}
  BY <1>2 DEF Activations
<1>17. o \in Activations(s, ends)
  BY <1>3, <1>7, <1>15, <1>16
<1>18. o.act \in {p.act : p \in UNION {Activations(q, ends) : q \in Subscriptions}}
  BY <1>10, <1>17
<1> QED
  BY <1>1, <1>14, <1>18 DEF Due

\* An event that a subscription without a key selects is due.
LEMMA SelectedIsDue ==
  ASSUME Registered, NEW s \in Subscriptions, s \notin Keyed, NEW ref \in Selected(s)
  PROVE  ByEvent(s, ref) \in Due
<1>1. PICK ends : ends = [r \in Roles |-> Len(stream[Bindings[r]])]
  OBVIOUS
<1>2. PICK o : o = [kind |-> "opened", act |-> ByEvent(s, ref), refs |-> {ref}]
  OBVIOUS
<1>3. o \in Activations(s, ends)
  BY <1>1, <1>2 DEF Activations, Selected
<1>4. o.act \in {p.act : p \in UNION {Activations(q, ends) : q \in Subscriptions}}
  BY <1>3
<1> QED
  BY <1>1, <1>2, <1>4 DEF Due

\* A quiet registration has reacted to everything: a condition that came true, at whatever
\* time, for a key, and an event that is selected has its activation, which is settled or
\* has failed and was not resumed since.  That is the half of Reacts that needs no fairness,
\* stated by when conditions are true and not by how the engine evaluates them.
THEOREM NothingIsMissed == Spec => []QuietHasReacted
<1>1. EngineInv /\ DueOpened /\ OwedSound => QuietHasReacted
  <2> SUFFICES ASSUME EngineInv, DueOpened, OwedSound, Quiet
               PROVE  /\ \A s \in Keyed, k \in Keys :
                           Ripe(Events, Grouped(s, k), When[s]) => ByKey(s, k) \in Answered
                      /\ \A s \in Subscriptions \ Keyed : \A ref \in Selected(s) :
                           ByEvent(s, ref) \in Answered
    BY DEF QuietHasReacted
  <2>1. ~Waiting /\ Registered /\ job = NoJob
    BY DEF Quiet, Waiting, Reconciles, Status
  <2>2. records # <<>>
    BY <2>1 DEF Registered, Of
  <2>3. Due \subseteq Opened
    BY <2>1, <2>2 DEF DueOpened, Covers
  <2>4. \A a \in Opened : ~Owed(a)
    BY <2>1 DEF OwedSound
  <2>5. Due \subseteq Answered
    BY <2>3, <2>4 DEF Owed, Answered
  <2>6. ASSUME NEW s \in Keyed, NEW k \in Keys, Ripe(Events, Grouped(s, k), When[s])
        PROVE  ByKey(s, k) \in Answered
    BY <2>1, <2>5, <2>6, RipeIsDue DEF EngineInv
  <2>7. ASSUME NEW s \in Subscriptions \ Keyed, NEW ref \in Selected(s)
        PROVE  ByEvent(s, ref) \in Answered
    BY <2>1, <2>5, SelectedIsDue
  <2> QED
    BY <2>6, <2>7
<1> QED
  BY <1>1, EngineInvariant, DueHolds, OwedHold, PTL

=================================================================================
