------------------------ MODULE SurfaceSessionsProofs ------------------------
(***************************************************************************)
(* Proofs about SurfaceSessions, for any sessions, followups, briefs,       *)
(* crashes and stops.                                                       *)
(*                                                                         *)
(* First what the operators on logs return when a log is extended or cut;   *)
(* then the inductive invariant: one binding, the stage of every delivery,  *)
(* of the admission and of the recovery, and of each log that it never has  *)
(* more ends than starts, that whatever waits in it has its brief on disk,  *)
(* and that a followup is taken after all of its receipts.                  *)
(***************************************************************************)
EXTENDS SurfaceSessions, FiniteSetTheorems, SequenceTheorems, TLAPS

Events ==
  {Queued(m) : m \in Messages} \cup {Took(m) : m \in Messages} \cup {Start, Canceled}
    \cup {End(how) : how \in {"completed", "interrupted", "disposed"}}

\* How many events of a kind there are among the first n, and that no turn ends which
\* has not started.
UpTo(l, n, kind) == Cardinality({i \in 1..n : l[i].kind = kind})
Balanced(l) == \A n \in 0..Len(l) : UpTo(l, n, "end") <= UpTo(l, n, "start")

-----------------------------------------------------------------------------
(***************************************************************************)
(* Positions in order.                                                      *)
(***************************************************************************)

\* Each number up to its size is the rank of some member of a finite set of positions.
LEMMA NthIn ==
  ASSUME NEW k \in Nat, NEW S \in SUBSET (1..k), NEW n \in 1..Cardinality(S)
  PROVE  Nth(S, n) \in S
<1> DEFINE Below(i) == {j \in S : j <= i}
           c == Cardinality(S)
           R == [i \in S |-> Cardinality(Below(i))]
<1>1. IsFiniteSet(S) /\ c \in Nat
  <2>1. IsFiniteSet(1..k)
    BY FS_Interval
  <2>2. IsFiniteSet(S)
    BY <2>1, FS_Subset
  <2> QED
    BY <2>2, FS_CardinalityType
<1>2. ASSUME NEW i \in S
      PROVE  /\ IsFiniteSet(Below(i)) /\ i \in Below(i)
             /\ Cardinality(Below(i)) \in 1..c
  <2>1. Below(i) \in SUBSET S /\ i \in Below(i)
    OBVIOUS
  <2>2. IsFiniteSet(Below(i)) /\ Cardinality(Below(i)) <= c
    BY <1>1, <2>1, FS_Subset
  <2>3. Cardinality(Below(i)) \in Nat /\ Cardinality(Below(i)) # 0
    BY <2>1, <2>2, FS_CardinalityType, FS_EmptySet
  <2> QED
    BY <1>1, <2>1, <2>2, <2>3
<1>3. ASSUME NEW i \in S, NEW j \in S, i < j PROVE R[i] # R[j]
  <2>1. Below(i) \in SUBSET Below(j) /\ Below(i) # Below(j)
    <3>1. \A h \in S : h \in Nat
      OBVIOUS
    <3>2. j \in Below(j) /\ j \notin Below(i)
      BY <1>3, <3>1
    <3>3. \A h \in Below(i) : h \in Below(j)
      BY <1>3, <3>1
    <3> QED
      BY <3>2, <3>3
  <2>2. Cardinality(Below(i)) # Cardinality(Below(j))
    BY <1>2, <2>1, FS_Subset
  <2> QED
    BY <2>2
<1>4. R \in Injection(S, 1..c)
  <2>1. R \in [S -> 1..c]
    BY <1>2
  <2>2. \A i, j \in S : R[i] = R[j] => i = j
    BY <1>3
  <2> QED
    BY <2>1, <2>2 DEF Injection, IsInjective
<1>5. IsFiniteSet(1..c) /\ Cardinality(1..c) = c
  BY <1>1, FS_Interval
<1>6. R \in Surjection(S, 1..c)
  BY <1>4, <1>5, FS_Injection
<1>7. \E i \in S : R[i] = n
  BY <1>6 DEF Surjection
<1>8. \E i \in S : Cardinality({j \in S : j <= i}) = n
  BY <1>7
<1> QED
  BY <1>8 DEF Nth

\* So what stands in the inbox, or was cut, is what is queued at such a position.
LEMMA InOrderIn ==
  ASSUME NEW l \in Seq(Events), NEW S \in SUBSET (1..Len(l))
  PROVE  /\ Len(InOrder(l, S)) = Cardinality(S) /\ Cardinality(S) \in Nat
         /\ DOMAIN InOrder(l, S) = 1..Cardinality(S)
         /\ \A n \in 1..Cardinality(S) : \E i \in S : InOrder(l, S)[n] = l[i].m
         /\ InOrder(l, S) = <<>> <=> S = {}
<1>1. Len(l) \in Nat
  OBVIOUS
<1>2. IsFiniteSet(S) /\ Cardinality(S) \in Nat
  <2>1. IsFiniteSet(1..Len(l))
    BY <1>1, FS_Interval
  <2>2. IsFiniteSet(S)
    BY <2>1, FS_Subset
  <2> QED
    BY <2>2, FS_CardinalityType
<1>3. \A n \in 1..Cardinality(S) : Nth(S, n) \in S
  BY <1>1, NthIn
<1>4. Cardinality(S) = 0 <=> S = {}
  BY <1>2, FS_EmptySet
<1>5. DOMAIN InOrder(l, S) = 1..Cardinality(S)
      /\ \A n \in 1..Cardinality(S) : InOrder(l, S)[n] = l[Nth(S, n)].m
  BY DEF InOrder
<1>6. InOrder(l, S) \in Seq({l[i].m : i \in S})
  BY <1>2, <1>3 DEF InOrder
<1>7. Len(InOrder(l, S)) = Cardinality(S)
  BY <1>2, <1>5, <1>6
<1>8. InOrder(l, S) = <<>> <=> S = {}
  BY <1>2, <1>4, <1>6, <1>7, EmptySeq
<1> QED
  BY <1>2, <1>3, <1>5, <1>7, <1>8

-----------------------------------------------------------------------------
(***************************************************************************)
(* Counting.                                                                *)
(***************************************************************************)
LEMMA UpToType ==
  ASSUME NEW l, NEW n \in Nat, NEW kind
  PROVE  UpTo(l, n, kind) \in Nat
<1>1. IsFiniteSet(1..n) /\ {i \in 1..n : l[i].kind = kind} \in SUBSET (1..n)
  BY FS_Interval
<1>2. IsFiniteSet({i \in 1..n : l[i].kind = kind})
  BY <1>1, FS_Subset
<1> QED
  BY <1>2, FS_CardinalityType DEF UpTo

LEMMA UpToZero == \A l, kind : UpTo(l, 0, kind) = 0
<1>1. \A l, kind : {i \in 1..0 : l[i].kind = kind} = {}
  OBVIOUS
<1> QED
  BY <1>1, FS_EmptySet DEF UpTo

LEMMA UpToStep ==
  ASSUME NEW l, NEW n \in Nat, NEW kind
  PROVE  UpTo(l, n + 1, kind) = UpTo(l, n, kind) + (IF l[n + 1].kind = kind THEN 1 ELSE 0)
<1> DEFINE S == {i \in 1..n : l[i].kind = kind}
<1>1. IsFiniteSet(S)
  <2>1. IsFiniteSet(1..n) /\ S \in SUBSET (1..n)
    BY FS_Interval
  <2> QED
    BY <2>1, FS_Subset
<1>2. CASE l[n + 1].kind = kind
  <2>1. {i \in 1..(n + 1) : l[i].kind = kind} = S \cup {n + 1} /\ n + 1 \notin S
    BY <1>2
  <2>2. Cardinality(S \cup {n + 1}) = Cardinality(S) + 1
    BY <1>1, <2>1, FS_AddElement
  <2> QED
    BY <1>2, <2>1, <2>2 DEF UpTo
<1>3. CASE l[n + 1].kind # kind
  <2>1. {i \in 1..(n + 1) : l[i].kind = kind} = S
    BY <1>3
  <2>2. UpTo(l, n + 1, kind) = Cardinality(S) /\ UpTo(l, n, kind) = Cardinality(S)
    BY <2>1 DEF UpTo
  <2>3. Cardinality(S) \in Nat
    BY <1>1, FS_CardinalityType
  <2> QED
    BY <1>3, <2>2, <2>3
<1> QED
  BY <1>2, <1>3

LEMMA UpToMono ==
  ASSUME NEW l, NEW m \in Nat, NEW n \in Nat, m <= n, NEW kind
  PROVE  UpTo(l, m, kind) <= UpTo(l, n, kind)
<1> DEFINE S(k) == {i \in 1..k : l[i].kind = kind}
<1>1. IsFiniteSet(S(n))
  <2>1. IsFiniteSet(1..n) /\ S(n) \in SUBSET (1..n)
    BY FS_Interval
  <2> QED
    BY <2>1, FS_Subset
<1>2. S(m) \in SUBSET S(n)
  OBVIOUS
<1> QED
  BY <1>1, <1>2, FS_Subset DEF UpTo

LEMMA UpToSame ==
  ASSUME NEW l, NEW l2, NEW n \in Nat, NEW kind, \A i \in 1..n : l2[i].kind = l[i].kind
  PROVE  UpTo(l2, n, kind) = UpTo(l, n, kind)
<1>1. {i \in 1..n : l2[i].kind = kind} = {i \in 1..n : l[i].kind = kind}
  OBVIOUS
<1> QED
  BY <1>1 DEF UpTo

\* The turn of a log and of its prefixes.
LEMMA TurnIsUpTo ==
  ASSUME NEW l \in Seq(Events)
  PROVE  /\ Turn(l) = UpTo(l, Len(l), "start")
         /\ Count(l, "end") = UpTo(l, Len(l), "end")
         /\ \A i \in DOMAIN l : TurnAt(l, i) = UpTo(l, i, "start")
<1>1. DOMAIN l = 1..Len(l) /\ Len(l) \in Nat
  OBVIOUS
<1>2. ASSUME NEW i \in DOMAIN l PROVE TurnAt(l, i) = UpTo(l, i, "start")
  <2>1. \A j \in 1..i : l[j] \in Events
    BY <1>1
  <2>2. /\ SubSeq(l, 1, i) \in Seq(Events) /\ Len(SubSeq(l, 1, i)) = i
        /\ \A j \in 1..i : SubSeq(l, 1, i)[j] = l[j]
    BY <1>1, <2>1, SubSeqProperties
  <2>3. DOMAIN SubSeq(l, 1, i) = 1..i
    BY <1>1, <2>2
  <2>4. {j \in DOMAIN SubSeq(l, 1, i) : SubSeq(l, 1, i)[j].kind = "start"}
          = {j \in 1..i : l[j].kind = "start"}
    BY <2>2, <2>3
  <2> QED
    BY <2>4 DEF TurnAt, Turn, Count, UpTo
<1> QED
  BY <1>1, <1>2 DEF Turn, Count, UpTo

-----------------------------------------------------------------------------
(***************************************************************************)
(* Logs that are extended and cut.                                          *)
(***************************************************************************)
LEMMA EventKinds ==
  /\ \A m : /\ Queued(m).kind = "queued" /\ Queued(m).m = m
            /\ Took(m).kind = "message" /\ Took(m).m = m
            /\ m \in Messages => Queued(m) \in Events /\ Took(m) \in Events
  /\ Start.kind = "start" /\ Start \in Events
  /\ Canceled.kind = "canceled" /\ Canceled \in Events
  /\ \A how : End(how).kind = "end"
  /\ \A how \in {"completed", "interrupted", "disposed"} : End(how) \in Events
  /\ \A e \in Events : /\ e.kind = "queued" => e.m \in Messages /\ e = Queued(e.m)
                       /\ e.kind = "message" => e.m \in Messages /\ e = Took(e.m)
<1>1. /\ \A m : Queued(m).kind = "queued" /\ Queued(m).m = m
                  /\ Took(m).kind = "message" /\ Took(m).m = m
      /\ Start.kind = "start" /\ Canceled.kind = "canceled"
      /\ \A how : End(how).kind = "end"
  BY DEF Queued, Took, Start, Canceled, End
<1>2. /\ \A m \in Messages : Queued(m) \in Events /\ Took(m) \in Events
      /\ Start \in Events /\ Canceled \in Events
      /\ \A how \in {"completed", "interrupted", "disposed"} : End(how) \in Events
  BY DEF Events
<1>3. ASSUME NEW e \in Events
      PROVE  /\ e.kind = "queued" => e.m \in Messages /\ e = Queued(e.m)
             /\ e.kind = "message" => e.m \in Messages /\ e = Took(e.m)
  <2>1. \/ \E m \in Messages : e = Queued(m)
        \/ \E m \in Messages : e = Took(m)
        \/ e = Start \/ e = Canceled \/ \E how : e = End(how)
    BY DEF Events
  <2>2. CASE \E m \in Messages : e = Queued(m)
    BY <1>1, <2>2
  <2>3. CASE \E m \in Messages : e = Took(m)
    BY <1>1, <2>3
  <2>4. CASE e = Start \/ e = Canceled \/ \E how : e = End(how)
    BY <1>1, <2>4
  <2> QED
    BY <2>1, <2>2, <2>3, <2>4
<1> QED
  BY <1>1, <1>2, <1>3

LEMMA Extended ==
  ASSUME NEW l \in Seq(Events), NEW s \in Seq(Events)
  PROVE  /\ l \o s \in Seq(Events) /\ Len(l \o s) = Len(l) + Len(s)
         /\ Len(l) \in Nat /\ Len(s) \in Nat
         /\ DOMAIN l = 1..Len(l) /\ DOMAIN (l \o s) = 1..(Len(l) + Len(s))
         /\ \A i \in 1..Len(l) : (l \o s)[i] = l[i]
         /\ \A i \in 1..Len(s) : (l \o s)[Len(l) + i] = s[i]
         /\ \A i \in 1..(Len(l) + Len(s)) : i > Len(l) =>
              i - Len(l) \in 1..Len(s) /\ (l \o s)[i] = s[i - Len(l)]
OBVIOUS

\* One more event.
LEMMA ExtendedOne ==
  ASSUME NEW l \in Seq(Events), NEW e \in Events, Balanced(l),
         e.kind = "end" => Open(l)
  PROVE  /\ Turn(l \o <<e>>) = Turn(l) + (IF e.kind = "start" THEN 1 ELSE 0)
         /\ Count(l \o <<e>>, "end") = Count(l, "end") + (IF e.kind = "end" THEN 1 ELSE 0)
         /\ Turn(l) \in Nat /\ Count(l, "end") \in Nat /\ Count(l, "end") <= Turn(l)
         /\ Balanced(l \o <<e>>)
<1>1. PICK l2 : l2 = l \o <<e>>
  OBVIOUS
<1>2. /\ l2 \in Seq(Events) /\ Len(l2) = Len(l) + 1 /\ Len(l) \in Nat
      /\ \A i \in 1..Len(l) : l2[i] = l[i]
      /\ l2[Len(l) + 1] = e
  BY <1>1
<1>3. \A kind : \A n \in 0..Len(l) : UpTo(l2, n, kind) = UpTo(l, n, kind)
  <2> TAKE kind
  <2> TAKE n \in 0..Len(l)
  <2>1. \A i \in 1..n : l2[i].kind = l[i].kind
    BY <1>2
  <2> QED
    BY <1>2, <2>1, UpToSame
<1>4. \A kind : UpTo(l2, Len(l) + 1, kind)
                 = UpTo(l, Len(l), kind) + (IF e.kind = kind THEN 1 ELSE 0)
  BY <1>2, <1>3, UpToStep
<1>5. /\ Turn(l) = UpTo(l, Len(l), "start") /\ Count(l, "end") = UpTo(l, Len(l), "end")
      /\ Turn(l2) = UpTo(l2, Len(l) + 1, "start")
      /\ Count(l2, "end") = UpTo(l2, Len(l) + 1, "end")
  BY <1>2, TurnIsUpTo
<1>6. Turn(l) \in Nat /\ Count(l, "end") \in Nat
  BY <1>2, <1>5, UpToType
<1>7. Count(l, "end") <= Turn(l)
  BY <1>2, <1>5 DEF Balanced
<1>8. /\ Turn(l2) = Turn(l) + (IF e.kind = "start" THEN 1 ELSE 0)
      /\ Count(l2, "end") = Count(l, "end") + (IF e.kind = "end" THEN 1 ELSE 0)
  BY <1>4, <1>5
<1>9. Count(l2, "end") <= Turn(l2)
  <2>1. CASE e.kind = "end"
    <3>1. Count(l, "end") < Turn(l)
      BY <1>6, <2>1 DEF Open
    <3> QED
      BY <1>6, <1>8, <2>1, <3>1
  <2>2. CASE e.kind # "end"
    BY <1>6, <1>7, <1>8, <2>2
  <2> QED
    BY <2>1, <2>2
<1>10. ASSUME NEW n \in 0..Len(l2) PROVE UpTo(l2, n, "end") <= UpTo(l2, n, "start")
  <2>1. CASE n = Len(l) + 1
    BY <1>5, <1>9, <2>1
  <2>2. CASE n \in 0..Len(l)
    BY <1>3, <2>2 DEF Balanced
  <2> QED
    BY <1>2, <2>1, <2>2
<1> QED
  BY <1>1, <1>6, <1>7, <1>8, <1>10 DEF Balanced

\* Events that neither start nor end a turn.
LEMMA ExtendedQuietly ==
  ASSUME NEW l \in Seq(Events), NEW s \in Seq(Events), Balanced(l),
         \A i \in 1..Len(s) : s[i].kind \notin {"start", "end"}
  PROVE  /\ Turn(l \o s) = Turn(l) /\ Open(l \o s) = Open(l)
         /\ Balanced(l \o s)
<1>1. PICK l2 : l2 = l \o s
  OBVIOUS
<1>2. /\ l2 \in Seq(Events) /\ Len(l2) = Len(l) + Len(s) /\ Len(l) \in Nat /\ Len(s) \in Nat
      /\ \A i \in 1..Len(l) : l2[i] = l[i]
      /\ \A i \in 1..Len(l2) : i > Len(l) => l2[i].kind \notin {"start", "end"}
  BY <1>1, Extended
<1>3. ASSUME NEW kind \in {"start", "end"}, NEW n \in 0..Len(l2)
      PROVE  UpTo(l2, n, kind) = UpTo(l, IF n <= Len(l) THEN n ELSE Len(l), kind)
  <2>1. CASE n <= Len(l)
    <3>1. \A i \in 1..n : l2[i].kind = l[i].kind
      BY <1>2, <2>1
    <3> QED
      BY <1>2, <2>1, <3>1, UpToSame
  <2>2. CASE n > Len(l)
    <3>1. {i \in 1..n : l2[i].kind = kind} = {i \in 1..Len(l) : l[i].kind = kind}
      BY <1>2, <2>2
    <3>2. UpTo(l2, n, kind) = UpTo(l, Len(l), kind)
      BY <3>1 DEF UpTo
    <3>3. ~(n <= Len(l))
      BY <1>2, <2>2
    <3> QED
      BY <3>2, <3>3
  <2> QED
    BY <1>2, <2>1, <2>2
<1>4. \A kind \in {"start", "end"} : UpTo(l2, Len(l2), kind) = UpTo(l, Len(l), kind)
  BY <1>2, <1>3
<1>5. Turn(l2) = Turn(l) /\ Count(l2, "end") = Count(l, "end")
  BY <1>2, <1>4, TurnIsUpTo
<1>6. Balanced(l2)
  BY <1>2, <1>3 DEF Balanced
<1> QED
  BY <1>1, <1>5, <1>6 DEF Open

\* A prefix.
LEMMA CutShort ==
  ASSUME NEW l \in Seq(Events), NEW n \in Int, n <= Len(l)
  PROVE  /\ SubSeq(l, 1, n) \in Seq(Events)
         /\ Len(SubSeq(l, 1, n)) = IF 1 <= n THEN n ELSE 0
         /\ n <= Len(SubSeq(l, 1, n))
         /\ DOMAIN SubSeq(l, 1, n) = 1..n
         /\ \A i \in 1..n : i \in DOMAIN l /\ SubSeq(l, 1, n)[i] = l[i]
         /\ Balanced(l) => Balanced(SubSeq(l, 1, n))
<1>1. Len(l) \in Nat /\ \A i \in 1..n : l[i] \in Events
  OBVIOUS
<1>2. /\ SubSeq(l, 1, n) \in Seq(Events)
      /\ Len(SubSeq(l, 1, n)) = IF 1 <= n THEN n ELSE 0
      /\ \A i \in 1..n : SubSeq(l, 1, n)[i] = l[i]
  <2>1. /\ SubSeq(l, 1, n) \in Seq(Events)
        /\ Len(SubSeq(l, 1, n)) = IF 1 <= n THEN n - 1 + 1 ELSE 0
        /\ \A i \in 1..(n - 1 + 1) : SubSeq(l, 1, n)[i] = l[1 + i - 1]
    BY <1>1, SubSeqProperties
  <2> QED
    BY <2>1
<1>3. DOMAIN SubSeq(l, 1, n) = 1..n
  BY <1>2
<1>4. PICK p : p = SubSeq(l, 1, n)
  OBVIOUS
<1>5. ASSUME Balanced(l), NEW k \in 0..Len(p) PROVE UpTo(p, k, "end") <= UpTo(p, k, "start")
  <2>1. k \in 0..Len(l) /\ k \in Nat /\ \A i \in 1..k : p[i] = l[i]
    BY <1>1, <1>2, <1>4
  <2>2. \A kind : UpTo(p, k, kind) = UpTo(l, k, kind)
    BY <2>1, UpToSame
  <2> QED
    BY <1>5, <2>1, <2>2 DEF Balanced
<1> QED
  BY <1>1, <1>2, <1>3, <1>4, <1>5 DEF Balanced

-----------------------------------------------------------------------------
(***************************************************************************)
(* The messages of a turn.                                                  *)
(***************************************************************************)
LEMMA TurnAtStays ==
  ASSUME NEW l \in Seq(Events), NEW s \in Seq(Events), NEW i \in DOMAIN l
  PROVE  i \in DOMAIN (l \o s) /\ TurnAt(l \o s, i) = TurnAt(l, i)
<1>1. PICK l2 : l2 = l \o s
  OBVIOUS
<1>2. /\ l2 \in Seq(Events) /\ i \in DOMAIN l2 /\ i \in Nat
      /\ \A j \in 1..i : l2[j].kind = l[j].kind
  BY <1>1, Extended
<1>3. TurnAt(l2, i) = UpTo(l2, i, "start") /\ TurnAt(l, i) = UpTo(l, i, "start")
  BY <1>2, TurnIsUpTo
<1> QED
  BY <1>1, <1>2, <1>3, UpToSame

LEMMA TakesExtended ==
  ASSUME NEW l \in Seq(Events), NEW s \in Seq(Events), NEW m,
         \A i \in 1..Len(s) : s[i].kind # "message"
  PROVE  Takes(l \o s, m) = Takes(l, m)
<1>1. \A i \in DOMAIN (l \o s) : i \in DOMAIN l \/ (l \o s)[i].kind # "message"
  BY Extended
<1>2. \A i \in DOMAIN l : i \in DOMAIN (l \o s) /\ (l \o s)[i] = l[i]
  BY Extended
<1> QED
  BY <1>1, <1>2, EventKinds DEF Takes

LEMMA MessagesExtended ==
  ASSUME NEW l \in Seq(Events), NEW s \in Seq(Events), NEW t,
         \A i \in 1..Len(s) : s[i].kind # "message"
  PROVE  MessagesForTurn(l \o s, t) = MessagesForTurn(l, t)
<1>1. \A m : Takes(l \o s, m) = Takes(l, m)
  BY TakesExtended
<1>2. \A m : \A i \in Takes(l, m) : i \in DOMAIN l
  BY DEF Takes
<1>3. \A i \in DOMAIN l : TurnAt(l \o s, i) = TurnAt(l, i)
  BY TurnAtStays
<1> QED
  BY <1>1, <1>2, <1>3 DEF MessagesForTurn

LEMMA MessagesStarted ==
  ASSUME NEW l \in Seq(Events), Balanced(l)
  PROVE  MessagesForTurn(l \o <<Start>>, Turn(l \o <<Start>>)) = {}
<1>1. <<Start>> \in Seq(Events) /\ \A i \in 1..Len(<<Start>>) : <<Start>>[i].kind # "message"
  <2>1. Start \in Events /\ Start.kind # "message"
    BY EventKinds
  <2> QED
    BY <2>1
<1>2. Turn(l \o <<Start>>) = Turn(l) + 1 /\ Turn(l) \in Nat
  BY EventKinds, ExtendedOne
<1>3. MessagesForTurn(l \o <<Start>>, Turn(l) + 1) = MessagesForTurn(l, Turn(l) + 1)
  BY <1>1, MessagesExtended
<1>4. ASSUME NEW i \in DOMAIN l PROVE TurnAt(l, i) # Turn(l) + 1
  <2>1. i \in Nat /\ Len(l) \in Nat /\ i <= Len(l)
    OBVIOUS
  <2>2. UpTo(l, i, "start") <= UpTo(l, Len(l), "start")
    BY <2>1, UpToMono
  <2>3. UpTo(l, i, "start") \in Nat
    BY <2>1, UpToType
  <2>4. TurnAt(l, i) <= Turn(l) /\ TurnAt(l, i) \in Nat
    BY <2>2, <2>3, TurnIsUpTo
  <2> QED
    BY <1>2, <2>4
<1> QED
  BY <1>2, <1>3, <1>4 DEF MessagesForTurn, Takes

LEMMA MessagesTaken ==
  ASSUME NEW l \in Seq(Events), NEW m \in Messages, Balanced(l)
  PROVE  /\ Turn(l \o <<Took(m)>>) = Turn(l)
         /\ MessagesForTurn(l \o <<Took(m)>>, Turn(l)) = MessagesForTurn(l, Turn(l)) \cup {m}
<1>1. PICK l2 : l2 = l \o <<Took(m)>>
  OBVIOUS
<1>2. Took(m) \in Events /\ <<Took(m)>> \in Seq(Events) /\ Took(m).kind = "message"
  BY EventKinds
<1>3. /\ l2 \in Seq(Events) /\ DOMAIN l = 1..Len(l) /\ DOMAIN l2 = 1..(Len(l) + 1)
      /\ Len(l) \in Nat /\ l2[Len(l) + 1] = Took(m) /\ \A i \in DOMAIN l : l2[i] = l[i]
  BY <1>1, <1>2
<1>4. Turn(l2) = Turn(l) /\ Turn(l) \in Nat
  BY <1>1, <1>2, ExtendedOne
<1>5. \A i \in DOMAIN l : TurnAt(l2, i) = TurnAt(l, i)
  BY <1>1, <1>2, TurnAtStays
<1>6. TurnAt(l2, Len(l) + 1) = Turn(l)
  <2>1. TurnAt(l2, Len(l) + 1) = UpTo(l2, Len(l) + 1, "start")
    BY <1>3, TurnIsUpTo
  <2>2. Turn(l2) = UpTo(l2, Len(l) + 1, "start")
    BY <1>3, TurnIsUpTo
  <2> QED
    BY <1>4, <2>1, <2>2
<1>7. \A n : n # m => Takes(l2, n) = Takes(l, n)
  <2> TAKE n
  <2> HAVE n # m
  <2>1. Took(n) # Took(m)
    BY EventKinds
  <2> QED
    BY <1>3, <2>1 DEF Takes
<1>8. Takes(l2, m) = Takes(l, m) \cup {Len(l) + 1}
  BY <1>3 DEF Takes
<1>9. \A n : \A i \in Takes(l, n) : i \in DOMAIN l
  BY DEF Takes
<1>10. m \in MessagesForTurn(l2, Turn(l))
  BY <1>6, <1>8 DEF MessagesForTurn
<1>11. \A n \in Messages : n # m =>
         (n \in MessagesForTurn(l2, Turn(l)) <=> n \in MessagesForTurn(l, Turn(l)))
  BY <1>5, <1>7, <1>9 DEF MessagesForTurn
<1>12. MessagesForTurn(l2, Turn(l)) \subseteq Messages /\ MessagesForTurn(l, Turn(l)) \subseteq Messages
  BY DEF MessagesForTurn
<1> QED
  BY <1>1, <1>4, <1>10, <1>11, <1>12

\* What waits or was cut is queued in the log.
LEMMA InboxIn ==
  ASSUME NEW l \in Seq(Events)
  PROVE  /\ Inbox(l) = <<>> <=> Waiting(l) = {}
         /\ DOMAIN Inbox(l) = 1..Len(Inbox(l)) /\ Len(Inbox(l)) \in Nat
         /\ DOMAIN Dropped(l) = 1..Len(Dropped(l)) /\ Len(Dropped(l)) \in Nat
         /\ \A n \in DOMAIN Inbox(l) : \E i \in Waiting(l) : Inbox(l)[n] = l[i].m
         /\ \A n \in DOMAIN Dropped(l) : \E i \in Cut(l) : Dropped(l)[n] = l[i].m
         /\ Waiting(l) \cup Cut(l) \subseteq {i \in DOMAIN l : l[i].kind = "queued"}
<1>1. Waiting(l) \in SUBSET (1..Len(l)) /\ Cut(l) \in SUBSET (1..Len(l))
  BY DEF Waiting, Cut
<1>2. /\ Inbox(l) = <<>> <=> Waiting(l) = {}
      /\ DOMAIN Inbox(l) = 1..Len(Inbox(l)) /\ Len(Inbox(l)) \in Nat
      /\ \A n \in DOMAIN Inbox(l) : \E i \in Waiting(l) : Inbox(l)[n] = l[i].m
  <2>1. Inbox(l) = InOrder(l, Waiting(l))
    BY DEF Inbox
  <2>2. InOrder(l, Waiting(l)) = <<>> <=> Waiting(l) = {}
    BY <1>1, InOrderIn
  <2>3. LET q == InOrder(l, Waiting(l))
        IN  /\ DOMAIN q = 1..Len(q) /\ Len(q) \in Nat
            /\ \A n \in DOMAIN q : \E i \in Waiting(l) : q[n] = l[i].m
    BY <1>1, InOrderIn
  <2> QED
    BY <2>1, <2>2, <2>3
<1>3. /\ DOMAIN Dropped(l) = 1..Len(Dropped(l)) /\ Len(Dropped(l)) \in Nat
      /\ \A n \in DOMAIN Dropped(l) : \E i \in Cut(l) : Dropped(l)[n] = l[i].m
  <2>1. Dropped(l) = InOrder(l, Cut(l))
    BY DEF Dropped
  <2>2. LET q == InOrder(l, Cut(l))
        IN  /\ DOMAIN q = 1..Len(q) /\ Len(q) \in Nat
            /\ \A n \in DOMAIN q : \E i \in Cut(l) : q[n] = l[i].m
    BY <1>1, InOrderIn
  <2> QED
    BY <2>1, <2>2
<1> QED
  BY <1>2, <1>3 DEF Waiting, Cut

LEMMA HeadIn ==
  ASSUME NEW l \in Seq(Events), Inbox(l) # <<>>
  PROVE  \E i \in Waiting(l) : Head(Inbox(l)) = l[i].m
<1>1. Waiting(l) # {} /\ Waiting(l) \in SUBSET (1..Len(l))
  BY InboxIn DEF Waiting
<1>2. Len(Inbox(l)) = Cardinality(Waiting(l)) /\ Cardinality(Waiting(l)) \in Nat
  BY <1>1, InOrderIn DEF Inbox
<1>3. IsFiniteSet(Waiting(l))
  <2>1. IsFiniteSet(1..Len(l))
    BY FS_Interval
  <2> QED
    BY <1>1, <2>1, FS_Subset
<1>4. Cardinality(Waiting(l)) # 0
  BY <1>1, <1>3, FS_EmptySet
<1>5. 1 \in DOMAIN Inbox(l)
  BY <1>2, <1>4, InboxIn
<1>6. Head(Inbox(l)) = Inbox(l)[1]
  <2>1. PICK n \in Nat : n = Cardinality(Waiting(l))
    BY <1>2
  <2>2. Inbox(l) = [k \in 1..n |-> l[Nth(Waiting(l), k)].m]
    BY <2>1 DEF Inbox, InOrder
  <2> QED
    BY <1>2, <1>4, <2>1, <2>2
<1> QED
  BY <1>5, <1>6, InboxIn

\* The next message: queued, and nothing was heard of it since.
LEMMA HeadQueued ==
  ASSUME NEW l \in Seq(Events), Inbox(l) # <<>>
  PROVE  /\ Head(Inbox(l)) \in Messages
         /\ \E i \in DOMAIN l : /\ l[i] = Queued(Head(Inbox(l)))
                                /\ l[i].kind = "queued" /\ l[i].m = Head(Inbox(l))
                                /\ \A k \in DOMAIN l : k > i => l[k] # Took(Head(Inbox(l)))
<1>1. PICK i \in Waiting(l) : Head(Inbox(l)) = l[i].m
  BY HeadIn
<1>2. PICK m : m = l[i].m
  OBVIOUS
<1>3. i \in DOMAIN l /\ l[i].kind = "queued" /\ l[i] \in Events /\ Stays(l, i, Len(l))
  BY DEF Waiting
<1>4. m \in Messages /\ l[i] = Queued(m)
  BY <1>2, <1>3, EventKinds
<1>5. \A k \in DOMAIN l : k > i => l[k] # Took(m)
  <2>1. \A k \in DOMAIN l : k > i => k \in (i + 1)..Len(l)
    BY <1>3
  <2> QED
    BY <1>2, <1>3, <2>1 DEF Stays
<1> QED
  BY <1>1, <1>2, <1>3, <1>4, <1>5

\* What is woken with.
LEMMA QueuedAll ==
  ASSUME NEW messages \in Seq(Messages)
  PROVE  LET s == [i \in DOMAIN messages |-> Queued(messages[i])] IN
         /\ s \in Seq(Events) /\ Len(s) = Len(messages) /\ DOMAIN messages = 1..Len(messages)
         /\ \A i \in 1..Len(s) : s[i] = Queued(messages[i]) /\ s[i].kind = "queued"
                                 /\ s[i].m = messages[i] /\ messages[i] \in Messages
<1>1. DOMAIN messages = 1..Len(messages) /\ Len(messages) \in Nat
      /\ \A i \in 1..Len(messages) : messages[i] \in Messages
  OBVIOUS
<1>2. \A i \in 1..Len(messages) : Queued(messages[i]) \in Events
  BY <1>1, EventKinds
<1>3. [i \in 1..Len(messages) |-> Queued(messages[i])] \in Seq(Events)
  BY <1>1, <1>2
<1> QED
  BY <1>1, <1>3, EventKinds

-----------------------------------------------------------------------------
(***************************************************************************)
(* The inductive invariant.                                                 *)
(***************************************************************************)
LogsSound ==
  /\ DOMAIN log = Ids /\ DOMAIN kept = Ids /\ DOMAIN scope = Ids /\ live \subseteq Ids
  /\ \A id \in Ids : /\ log[id] \in Seq(Events) /\ Balanced(log[id])
                     /\ kept[id] \in Int /\ -1 <= kept[id] /\ kept[id] <= Len(log[id])

\* One binding, in memory as on disk.
BindingSound ==
  /\ index = binding /\ binding \in Ids \cup {None}
  /\ \A id \in Ids : id \in live \/ log[id] # <<>> \/ kept[id] >= 0 => id = binding

AdmissionSound ==
  adm # None =>
    /\ DOMAIN adm = {"client", "id", "at"} /\ adm.id \in Ids
    /\ adm.client \in Followups \cup {"recovery"}
    /\ adm.client = "recovery" => rec.at = "ensure"
    /\ adm.at \in {"look", "resume", "create", "flush"}
    /\ adm.at \in {"resume", "create"} => adm.id \notin live
    /\ adm.at = "flush" => adm.id \in live

\* Whoever sends a message has put its brief on disk; a notice is of this restart only
\* once its recovery is over.
Sent(m) ==
  /\ m \in Messages
  /\ m \in Followups => briefs[m] = Brief[m]
  /\ m \in Notices => /\ \E n \in 1..restarts : m = Continuation[n]
                      /\ m = Continuation[restarts] => rec.at = "over"

RecoverySound ==
  /\ restarts \in 0..MaxRestarts
  /\ DOMAIN rec = {"at", "send", "again"}
  /\ rec.at \in {"over", "look", "inspect", "ensure", "act", "follow"}
  /\ rec.at # "over" => restarts >= 1
  /\ rec.at = "inspect" => index # None
  /\ rec.at \in {"act", "follow"} => index \in live
  /\ rec.send \in Seq(Messages) /\ \A m \in ToSet(rec.send) : Sent(m)

DeliverySound(m) ==
  /\ briefs[m] \in {None, Brief[m]}
  /\ delivery[m] \in {"ensure", "ready", "wait", "flush", "done"} => briefs[m] = Brief[m]
  /\ delivery[m] \in {"ready", "wait", "flush"} => index \in live
  /\ adm # None /\ adm.client = m => delivery[m] = "ensure"
  /\ delivery[m] = "flush" => Ran(log[index], m)
  /\ delivery[m] = "done" => \E id \in Ids : Ran(OnDisk(id), m)

DeliveriesSound ==
  /\ DOMAIN delivery = Followups /\ DOMAIN briefs = Messages
  /\ \A m \in Followups : DeliverySound(m)

LoggedSent ==
  \A id \in Ids, m \in Messages : HasReceipt(log[id], m) => Sent(m)

\* A followup is taken after all its receipts, unless recovery sent it again.
TakenLast ==
  \A id \in Ids, m \in Followups \ resent :
    \A k \in Takes(log[id], m) : \A i \in DOMAIN log[id] :
      log[id][i] \in {Queued(m), Took(m)} => i <= k

OutputsSound ==
  /\ emit.at \in {"look", "append", "said"} => emit.by \in Ids
  /\ emit.at \in {"append", "said"} => /\ DOMAIN emit = {"at", "by", "contract", "upto"}
                                       /\ emit.upto \in 0..Len(log[emit.by])
  /\ \A id \in Ids : scope[id] # None => DOMAIN scope[id] = {"turn", "grants"}

SessionInv ==
  /\ LogsSound /\ BindingSound /\ AdmissionSound /\ RecoverySound /\ DeliveriesSound
  /\ LoggedSent /\ TakenLast /\ OutputsSound /\ GrantsFollowMessages /\ EmitsAreGranted

-----------------------------------------------------------------------------
(***************************************************************************)
(* Logs.                                                                    *)
(***************************************************************************)
LEMMA Grown ==
  ASSUME LogsSound, NEW id \in Ids, NEW s, AppendLog(id, s)
  PROVE  /\ DOMAIN log' = Ids /\ log'[id] = log[id] \o s
         /\ \A j \in Ids : j # id => log'[j] = log[j]
BY DEF LogsSound, AppendLog

\* A log that grows by some events, or is cut, with what is on disk.
LEMMA LogGrows ==
  ASSUME LogsSound, NEW id \in Ids, NEW s \in Seq(Events), AppendLog(id, s),
         Balanced(log[id]) => Balanced(log[id] \o s),
         UNCHANGED kept, DOMAIN scope' = Ids, live' \subseteq Ids
  PROVE  LogsSound'
<1>1. /\ DOMAIN log' = Ids /\ log'[id] = log[id] \o s
      /\ \A j \in Ids : j # id => log'[j] = log[j]
  BY Grown
<1>2. log[id] \in Seq(Events) /\ kept[id] <= Len(log[id]) /\ kept[id] \in Int
  BY DEF LogsSound
<1>3. log'[id] \in Seq(Events) /\ Len(log'[id]) >= Len(log[id]) /\ Len(log[id]) \in Nat
  BY <1>1, <1>2, Extended
<1>4. kept[id] <= Len(log'[id])
  BY <1>2, <1>3
<1> QED
  BY <1>1, <1>3, <1>4 DEF LogsSound

LEMMA NoticeIs ==
  ASSUME RecoverySound, rec.at # "over"
  PROVE  Notice \in Messages /\ Notice \in Notices /\ Notice \notin Followups
<1>1. restarts \in 1..MaxRestarts
  BY SessionsAssumption DEF RecoverySound
<1> QED
  BY <1>1, SessionsAssumption DEF Notice, Notices, Messages

LEMMA ClosedSound ==
  ASSUME NEW l \in Seq(Events), Balanced(l)
  PROVE  /\ Closed(l) \in Seq(Events) /\ Balanced(Closed(l)) /\ Len(Closed(l)) >= Len(l)
         /\ \E s \in Seq(Events) : /\ Closed(l) = l \o s
                                   /\ \A i \in 1..Len(s) : s[i].kind = "end"
<1>1. CASE Open(l)
  <2>1. PICK e : e = End("interrupted")
    OBVIOUS
  <2>2. e \in Events /\ e.kind = "end"
    BY <2>1, EventKinds
  <2>3. Balanced(l \o <<e>>)
    BY <1>1, <2>2, ExtendedOne
  <2>4. Closed(l) = l \o <<e>> /\ <<e>> \in Seq(Events)
    BY <1>1, <2>1, <2>2 DEF Closed
  <2>5. l \o <<e>> \in Seq(Events) /\ Len(l \o <<e>>) >= Len(l)
    BY <2>2
  <2>6. \A i \in 1..Len(<<e>>) : <<e>>[i].kind = "end"
    BY <2>2
  <2> QED
    BY <2>3, <2>4, <2>5, <2>6
<1>2. CASE ~Open(l)
  <2>1. PICK s \in Seq(Events) : s = <<>>
    <3>1. <<>> \in Seq(Events)
      OBVIOUS
    <3> QED
      BY <3>1
  <2>2. Closed(l) = l /\ l \o s = l
    BY <1>2, <2>1, ConcatEmptySeq DEF Closed
  <2>3. Len(l) \in Nat /\ \A i \in 1..Len(s) : s[i].kind = "end"
    BY <2>1
  <2>4. \E t \in Seq(Events) : Closed(l) = l \o t /\ \A i \in 1..Len(t) : t[i].kind = "end"
    BY <2>2, <2>3
  <2> QED
    BY <2>2, <2>3, <2>4
<1> QED
  BY <1>1, <1>2

LEMMA StoppedSound ==
  ASSUME NEW l \in Seq(Events), Balanced(l)
  PROVE  /\ Stopped(l) \in Seq(Events) /\ Balanced(Stopped(l)) /\ Len(Stopped(l)) >= Len(l)
         /\ \E s \in Seq(Events) : /\ Stopped(l) = l \o s
                                   /\ \A i \in 1..Len(s) : s[i].kind \in {"end", "canceled"}
<1>1. PICK e : e = End("disposed")
  OBVIOUS
<1>2. e \in Events /\ e.kind = "end" /\ Canceled \in Events /\ Canceled.kind = "canceled"
  BY <1>1, EventKinds
<1>3. PICK s \in Seq(Events) : /\ s = IF Open(l) THEN <<e>> ELSE <<>>
                               /\ \A i \in 1..Len(s) : s[i].kind = "end"
  <2>1. <<e>> \in Seq(Events) /\ \A i \in 1..Len(<<e>>) : <<e>>[i].kind = "end"
    BY <1>2
  <2>2. <<>> \in Seq(Events) /\ \A i \in 1..Len(<<>>) : <<>>[i].kind = "end"
    OBVIOUS
  <2> QED
    BY <2>1, <2>2
<1>4. Balanced(l \o s)
  <2>1. Open(l) => Balanced(l \o <<e>>)
    BY <1>2, ExtendedOne
  <2>2. l \o <<>> = l
    BY ConcatEmptySeq
  <2> QED
    BY <1>3, <2>1, <2>2
<1>5. PICK c : c = l \o s
  OBVIOUS
<1>6. c \in Seq(Events) /\ Len(c) = Len(l) + Len(s) /\ Len(s) \in Nat /\ Len(l) \in Nat
  BY <1>5
<1>7. Stopped(l) = IF Inbox(l) = <<>> THEN c ELSE c \o <<Canceled>>
  <2>1. c = IF Open(l) THEN l \o <<e>> ELSE l
    BY <1>3, <1>5, ConcatEmptySeq
  <2> QED
    BY <1>1, <2>1 DEF Stopped
<1>8. ASSUME NEW t \in Seq(Events), Stopped(l) = l \o t, Balanced(l \o t),
             \A i \in 1..Len(t) : t[i].kind \in {"end", "canceled"}
      PROVE  /\ Stopped(l) \in Seq(Events) /\ Balanced(Stopped(l)) /\ Len(Stopped(l)) >= Len(l)
             /\ \E u \in Seq(Events) : /\ Stopped(l) = l \o u
                                       /\ \A i \in 1..Len(u) : u[i].kind \in {"end", "canceled"}
  <2>1. l \o t \in Seq(Events) /\ Len(l \o t) >= Len(l)
    OBVIOUS
  <2> QED
    BY <1>8, <2>1
<1>9. CASE Inbox(l) = <<>>
  <2>1. \A i \in 1..Len(s) : s[i].kind \in {"end", "canceled"}
    BY <1>3
  <2>2. Stopped(l) = l \o s
    BY <1>5, <1>7, <1>9
  <2> QED
    BY <1>4, <1>8, <2>1, <2>2
<1>10. CASE Inbox(l) # <<>>
  <2>1. Balanced(c \o <<Canceled>>)
    BY <1>2, <1>4, <1>5, <1>6, ExtendedOne
  <2>2. PICK t \in Seq(Events) : t = s \o <<Canceled>>
    <3>1. s \o <<Canceled>> \in Seq(Events)
      BY <1>2
    <3> QED
      BY <3>1
  <2>3. c \o <<Canceled>> = l \o t
    BY <1>2, <1>5, <2>2, ConcatAssociative
  <2>4. \A i \in 1..Len(t) : t[i].kind \in {"end", "canceled"}
    <3>1. <<Canceled>> \in Seq(Events) /\ Len(<<Canceled>>) = 1 /\ <<Canceled>>[1] = Canceled
      BY <1>2
    <3>2. \A i \in 1..Len(t) : \/ i \in 1..Len(s) /\ t[i] = s[i]
                               \/ t[i] = Canceled
      BY <2>2, <3>1, Extended
    <3> QED
      BY <1>2, <1>3, <3>2
  <2>5. Stopped(l) = l \o t
    BY <1>7, <1>10, <2>3
  <2> QED
    BY <1>8, <2>1, <2>3, <2>4, <2>5
<1> QED
  BY <1>9, <1>10

LEMMA WakeAppends ==
  ASSUME NEW id, NEW messages \in Seq(Messages), Wake(id, messages)
  PROVE  \E s \in Seq(Events) :
           /\ AppendLog(id, s) /\ Len(s) = Len(messages) /\ DOMAIN messages = 1..Len(messages)
           /\ \A i \in 1..Len(s) : s[i] = Queued(messages[i]) /\ s[i].kind = "queued"
                                   /\ s[i].m = messages[i]
<1>1. PICK s : s = [i \in DOMAIN messages |-> Queued(messages[i])]
  OBVIOUS
<1>2. /\ s \in Seq(Events) /\ Len(s) = Len(messages) /\ DOMAIN messages = 1..Len(messages)
      /\ \A i \in 1..Len(s) : s[i] = Queued(messages[i]) /\ s[i].kind = "queued"
                              /\ s[i].m = messages[i]
  BY <1>1, QueuedAll
<1>3. AppendLog(id, s)
  BY <1>1 DEF Wake
<1> QED
  BY <1>2, <1>3

LEMMA WakeOne ==
  ASSUME NEW id, NEW m \in Messages, Wake(id, <<m>>)
  PROVE  \E s \in Seq(Events) : AppendLog(id, s) /\ s = <<Queued(m)>> /\ Len(s) = 1 /\ s[1] = Queued(m)
<1>1. PICK messages \in Seq(Messages) : /\ messages = <<m>> /\ Len(messages) = 1
                                        /\ messages[1] = m
  <2>1. <<m>> \in Seq(Messages) /\ Len(<<m>>) = 1 /\ <<m>>[1] = m
    OBVIOUS
  <2> QED
    BY <2>1
<1>2. Wake(id, messages)
  BY <1>1
<1>3. PICK s \in Seq(Events) : /\ AppendLog(id, s) /\ Len(s) = Len(messages)
                               /\ \A i \in 1..Len(s) : s[i] = Queued(messages[i])
  BY <1>2, WakeAppends
<1>4. Len(s) = 1 /\ s[1] = Queued(m)
  BY <1>1, <1>3
<1>5. s = <<Queued(m)>>
  BY <1>4
<1> QED
  BY <1>3, <1>4, <1>5

LEMMA LogsSame ==
  ASSUME LogsSound, UNCHANGED <<log, kept>>, DOMAIN scope' = Ids, live' \subseteq Ids
  PROVE  LogsSound'
BY DEF LogsSound

\* What is on disk catches up.
LEMMA FlushSound ==
  ASSUME LogsSound, NEW id \in Ids, Flush(id), UNCHANGED <<log, scope, live>>
  PROVE  /\ LogsSound'
         /\ kept'[id] = Len(log[id])
         /\ \A j \in Ids : kept'[j] \in Int /\ kept'[j] >= kept[j] /\ (j # id => kept'[j] = kept[j])
<1>1. kept'[id] = Len(log[id]) /\ Len(log[id]) \in Nat /\ DOMAIN kept' = Ids
      /\ \A j \in Ids : j # id => kept'[j] = kept[j]
  BY DEF LogsSound, Flush
<1>2. \A j \in Ids : kept'[j] \in Int /\ kept'[j] >= kept[j] /\ kept'[j] <= Len(log[j]) /\ -1 <= kept'[j]
  BY <1>1 DEF LogsSound
<1> QED
  BY <1>1, <1>2 DEF LogsSound

\* The two ends of a host: each log is cut, or closed and written.
LEMMA CrashCuts ==
  ASSUME LogsSound, Crash
  PROVE  /\ DOMAIN log' = Ids /\ DOMAIN kept' = Ids
         /\ \A id \in Ids : /\ kept'[id] \in Int /\ kept[id] <= kept'[id] /\ kept'[id] <= Len(log[id])
                            /\ id \notin live => kept'[id] = kept[id]
                            /\ log'[id] = SubSeq(log[id], 1, kept'[id])
<1>1. PICK lost \in {0} \cup UNION {1..Len(log[id]) + 1 : id \in live} :
        LET left(id) == IF Len(log[id]) - lost > kept[id] THEN Len(log[id]) - lost ELSE kept[id]
        IN  /\ kept' = [id \in Ids |-> IF id \in live THEN left(id) ELSE kept[id]]
            /\ log' = [id \in Ids |-> SubSeq(log[id], 1, kept'[id])]
  BY DEF Crash
<1>2. lost \in Nat
  <2>1. \A id \in live : Len(log[id]) \in Nat
    BY DEF LogsSound
  <2> QED
    BY <2>1
<1>3. ASSUME NEW id \in Ids
      PROVE  /\ kept'[id] \in Int /\ kept[id] <= kept'[id] /\ kept'[id] <= Len(log[id])
             /\ id \notin live => kept'[id] = kept[id]
             /\ log'[id] = SubSeq(log[id], 1, kept'[id])
  <2>1. Len(log[id]) \in Nat /\ kept[id] \in Int /\ kept[id] <= Len(log[id])
    BY DEF LogsSound
  <2>2. kept'[id] = IF id \in live
                    THEN IF Len(log[id]) - lost > kept[id] THEN Len(log[id]) - lost ELSE kept[id]
                    ELSE kept[id]
    BY <1>1
  <2>3. log'[id] = SubSeq(log[id], 1, kept'[id])
    BY <1>1
  <2> QED
    BY <1>2, <2>1, <2>2, <2>3
<1> QED
  BY <1>1, <1>3

LEMMA StopCloses ==
  ASSUME LogsSound, Stop
  PROVE  /\ DOMAIN log' = Ids /\ DOMAIN kept' = Ids
         /\ \A id \in Ids :
              /\ id \in live => log'[id] = Stopped(log[id]) /\ kept'[id] = Len(log'[id])
              /\ id \notin live => log'[id] = log[id] /\ kept'[id] = kept[id]
BY DEF LogsSound, Stop

\* Where a session is live, it is the surface's.
LEMMA IndexIn ==
  ASSUME LogsSound, BindingSound
  PROVE  /\ index \in live => index \in Ids
         /\ \A id \in live : id \in Ids /\ id = index
BY DEF LogsSound, BindingSound

LEMMA LogsStep == ASSUME SessionInv, Next PROVE LogsSound'
<1> USE DEF SessionInv
<1>1. ASSUME NEW id \in Ids, StartTurn(id) PROVE LogsSound'
  <2>1. log[id] \in Seq(Events) /\ <<Start>> \in Seq(Events) /\ Start.kind = "start" /\ Start \in Events
    BY EventKinds DEF LogsSound
  <2>2. Balanced(log[id]) => Balanced(log[id] \o <<Start>>)
    BY <2>1, ExtendedOne
  <2>3. AppendLog(id, <<Start>>) /\ DOMAIN scope' = Ids /\ live' = live /\ UNCHANGED kept
    BY <1>1 DEF StartTurn, BeginTurn, LogsSound
  <2>4. live' \subseteq Ids
    BY <2>3 DEF LogsSound
  <2> QED
    BY <2>1, <2>2, <2>3, <2>4, LogGrows
<1>2. ASSUME NEW id \in Ids, TakeMessage(id) PROVE LogsSound'
  <2>1. PICK m : m = Head(Inbox(log[id]))
    OBVIOUS
  <2>2. log[id] \in Seq(Events) /\ Inbox(log[id]) # <<>>
    BY <1>2 DEF LogsSound, TakeMessage
  <2>3. m \in Messages
    BY <2>1, <2>2, HeadQueued
  <2>4. Took(m) \in Events /\ <<Took(m)>> \in Seq(Events) /\ Took(m).kind = "message"
    BY <2>3, EventKinds
  <2>5. Balanced(log[id]) => Balanced(log[id] \o <<Took(m)>>)
    BY <2>2, <2>4, ExtendedOne
  <2>6. AppendLog(id, <<Took(m)>>) /\ ApplyMessageBrief(id, log'[id], m)
        /\ live' = live /\ UNCHANGED kept
    BY <1>2, <2>1 DEF TakeMessage
  <2>7. DOMAIN scope' = Ids /\ live' \subseteq Ids
    BY <2>6 DEF ApplyMessageBrief, LogsSound
  <2> QED
    BY <2>4, <2>5, <2>6, <2>7, LogGrows
<1>3. ASSUME NEW id \in Ids, EndTurn(id) PROVE LogsSound'
  <2>1. PICK e : e = End("completed")
    OBVIOUS
  <2>2. log[id] \in Seq(Events) /\ <<e>> \in Seq(Events) /\ e.kind = "end" /\ e \in Events
    BY <2>1, EventKinds DEF LogsSound
  <2>3. Open(log[id]) /\ AppendLog(id, <<e>>) /\ live' = live /\ UNCHANGED kept /\ EndScope(id)
    BY <1>3, <2>1 DEF EndTurn
  <2>4. Balanced(log[id]) => Balanced(log[id] \o <<e>>)
    BY <2>2, <2>3, ExtendedOne
  <2>5. DOMAIN scope' = Ids /\ live' \subseteq Ids
    BY <2>3 DEF EndScope, LogsSound
  <2> QED
    BY <2>2, <2>3, <2>4, <2>5, LogGrows
<1>4. ASSUME NEW id \in Ids, NEW messages \in Seq(Messages), Wake(id, messages),
             UNCHANGED <<kept, scope, live>>
      PROVE  LogsSound'
  <2>1. PICK s \in Seq(Events) : /\ AppendLog(id, s)
                                 /\ \A i \in 1..Len(s) : s[i].kind = "queued"
    BY <1>4, WakeAppends
  <2>2. log[id] \in Seq(Events)
    BY DEF LogsSound
  <2>3. Balanced(log[id]) => Balanced(log[id] \o s)
    BY <2>1, <2>2, ExtendedQuietly
  <2>4. DOMAIN scope' = Ids /\ live' \subseteq Ids /\ UNCHANGED kept
    BY <1>4 DEF LogsSound
  <2> QED
    BY <2>1, <2>3, <2>4, LogGrows
<1>5. ASSUME NEW m \in Followups, Send(m) PROVE LogsSound'
  <2>1. CASE HasReceipt(log[index], m)
    BY <1>5, <2>1, LogsSame DEF Send, LogsSound
  <2>2. CASE ~HasReceipt(log[index], m)
    <3>1. index \in Ids /\ <<m>> \in Seq(Messages)
      BY <1>5, IndexIn DEF Send, DeliveriesSound, DeliverySound, Messages
    <3>2. Wake(index, <<m>>) /\ UNCHANGED <<kept, scope, live>>
      BY <1>5, <2>2 DEF Send
    <3> QED
      BY <1>4, <3>1, <3>2
  <2> QED
    BY <2>1, <2>2
<1>6. ASSUME RecoverSend PROVE LogsSound'
  <2>1. index \in Ids /\ rec.send \in Seq(Messages)
    BY <1>6, IndexIn DEF RecoverSend, RecAt, RecoverySound
  <2>2. Wake(index, rec.send) /\ UNCHANGED <<kept, scope, live>>
    BY <1>6 DEF RecoverSend
  <2> QED
    BY <1>4, <2>1, <2>2
<1>7. ASSUME RecoverFollow PROVE LogsSound'
  <2>1. index \in Ids
    BY <1>7, IndexIn DEF RecoverFollow, RecAt, RecoverySound
  <2>2. <<Notice>> \in Seq(Messages)
    BY <1>7, NoticeIs DEF RecoverFollow, RecAt
  <2>3. Wake(index, <<Notice>>) /\ UNCHANGED <<kept, scope, live>>
    BY <1>7 DEF RecoverFollow
  <2> QED
    BY <1>4, <2>1, <2>2, <2>3
<1>8. ASSUME OpenSession PROVE LogsSound'
  <2>1. PICK id \in Ids : id = adm.id
    BY <1>8 DEF OpenSession, AdmAt, AdmissionSound
  <2>2. log' = [log EXCEPT ![id] = Closed(@)] /\ UNCHANGED <<kept, scope>> /\ live' = live \cup {id}
    BY <1>8, <2>1 DEF OpenSession, Bind
  <2>3. log[id] \in Seq(Events) /\ Balanced(log[id]) /\ kept[id] \in Int /\ kept[id] <= Len(log[id])
    BY DEF LogsSound
  <2>4. Closed(log[id]) \in Seq(Events) /\ Balanced(Closed(log[id])) /\ Len(Closed(log[id])) >= Len(log[id])
    BY <2>3, ClosedSound
  <2>5. kept[id] <= Len(Closed(log[id]))
    <3>1. Len(log[id]) \in Nat /\ Len(Closed(log[id])) \in Nat
      BY <2>3, <2>4
    <3> QED
      BY <2>3, <2>4, <3>1
  <2>6. /\ DOMAIN log' = Ids /\ log'[id] = Closed(log[id]) /\ \A j \in Ids : j # id => log'[j] = log[j]
        /\ live' \subseteq Ids
    BY <2>2 DEF LogsSound
  <2> QED
    BY <2>2, <2>4, <2>5, <2>6 DEF LogsSound
<1>9. ASSUME Admitted PROVE LogsSound'
  <2>1. PICK id \in Ids : id = adm.id
    BY <1>9 DEF Admitted, AdmAt, AdmissionSound
  <2> QED
    BY <1>9, <2>1, FlushSound DEF Admitted, agents
<1>10. ASSUME NEW m \in Followups, FlushDelivery(m) PROVE LogsSound'
  <2>1. index \in Ids
    BY <1>10, IndexIn DEF FlushDelivery, DeliveriesSound, DeliverySound
  <2> QED
    BY <1>10, <2>1, FlushSound DEF FlushDelivery, agents
<1>11. ASSUME NEW id \in Ids, NativeBind(id) PROVE LogsSound'
  BY <1>11, LogsSame DEF NativeBind, Bind, LogsSound
<1>12. ASSUME Crash PROVE LogsSound'
  <2>1. DOMAIN scope' = Ids /\ live' = {}
    BY <1>12 DEF Crash, Restart
  <2>2. ASSUME NEW id \in Ids
        PROVE  /\ log'[id] \in Seq(Events) /\ Balanced(log'[id])
               /\ kept'[id] \in Int /\ -1 <= kept'[id] /\ kept'[id] <= Len(log'[id])
    <3>1. log[id] \in Seq(Events) /\ Balanced(log[id]) /\ kept[id] \in Int /\ -1 <= kept[id]
      BY DEF LogsSound
    <3>2. /\ kept'[id] \in Int /\ kept[id] <= kept'[id] /\ kept'[id] <= Len(log[id])
          /\ log'[id] = SubSeq(log[id], 1, kept'[id])
      BY <1>12, CrashCuts
    <3>3. -1 <= kept'[id]
      BY <3>1, <3>2
    <3>4. PICK n \in Int : n = kept'[id]
      BY <3>2
    <3>5. n <= Len(log[id]) /\ log'[id] = SubSeq(log[id], 1, n)
      BY <3>2, <3>4
    <3>6. log'[id] \in Seq(Events) /\ Balanced(log'[id]) /\ n <= Len(log'[id])
      BY <3>1, <3>5, CutShort
    <3> QED
      BY <3>2, <3>3, <3>4, <3>6
  <2> QED
    BY <1>12, <2>1, <2>2, CrashCuts DEF LogsSound
<1>13. ASSUME Stop PROVE LogsSound'
  <2>1. DOMAIN scope' = Ids /\ live' = {}
    BY <1>13 DEF Stop, Restart
  <2>2. ASSUME NEW id \in Ids
        PROVE  /\ log'[id] \in Seq(Events) /\ Balanced(log'[id])
               /\ kept'[id] \in Int /\ -1 <= kept'[id] /\ kept'[id] <= Len(log'[id])
    <3>1. /\ log[id] \in Seq(Events) /\ Balanced(log[id])
          /\ kept[id] \in Int /\ -1 <= kept[id] /\ kept[id] <= Len(log[id])
      BY DEF LogsSound
    <3>2. CASE id \notin live
      BY <1>13, <3>1, <3>2, StopCloses
    <3>3. CASE id \in live
      <4>1. log'[id] = Stopped(log[id]) /\ kept'[id] = Len(log'[id])
        BY <1>13, <3>3, StopCloses
      <4>2. log'[id] \in Seq(Events) /\ Balanced(log'[id])
        BY <3>1, <4>1, StoppedSound
      <4>3. Len(log'[id]) \in Nat
        BY <4>2
      <4> QED
        BY <4>1, <4>2, <4>3
    <3> QED
      BY <3>2, <3>3
  <2> QED
    BY <1>13, <2>1, <2>2, StopCloses DEF LogsSound
<1>14. ASSUME UNCHANGED <<log, kept, scope, live>> PROVE LogsSound'
  BY <1>14, LogsSame DEF LogsSound
<1>15. ASSUME NEW client, Choose(client) PROVE LogsSound'
  BY <1>14, <1>15 DEF Choose, durable, agents
<1>16. ASSUME Look \/ Refused PROVE LogsSound'
  BY <1>14, <1>16 DEF Look, Refused, durable, agents
<1>17. ASSUME NEW m \in Followups, Advance(m) \/ TimeOut(m) \/ Ask(m) PROVE LogsSound'
  BY <1>14, <1>17 DEF Advance, TimeOut, Ask, durable, agents
<1>18. ASSUME RecoverLook \/ RecoverInspect \/ RecoverFails \/ RecoverBrief PROVE LogsSound'
  BY <1>14, <1>18 DEF RecoverLook, RecoverInspect, RecoverFails, RecoverBrief, durable, agents
<1>19. ASSUME NEW x, BeginEmit(x) \/ Authorize(x) \/ EndEmit PROVE LogsSound'
  BY <1>14, <1>19 DEF BeginEmit, Authorize, EndEmit, durable, agents
<1> QED
  BY <1>1, <1>2, <1>3, <1>5, <1>6, <1>7, <1>8, <1>9, <1>10, <1>11, <1>12, <1>13, <1>15,
     <1>16, <1>17, <1>18, <1>19 DEF Next, AgentStep, HostStep, World

-----------------------------------------------------------------------------
(***************************************************************************)
(* The binding, the admission.                                              *)
(***************************************************************************)

\* A log grows only where the surface's session is live or being opened.
LEMMA BindingGrows ==
  ASSUME LogsSound, BindingSound, NEW id \in Ids, id \in live, NEW s, AppendLog(id, s),
         UNCHANGED <<index, binding, kept, live>>
  PROVE  BindingSound'
BY Grown DEF BindingSound

LEMMA BindingOpens ==
  ASSUME LogsSound, BindingSound, NEW id \in Ids, index \in {None, id}, Bind(id), UNCHANGED kept,
         \A j \in Ids : j # id => log'[j] = log[j]
  PROVE  BindingSound'
<1>1. index' = id /\ binding' = id /\ live' = live \cup {id}
  BY DEF Bind
<1>2. ASSUME NEW j \in Ids, j # id, j \in live \/ log[j] # <<>> \/ kept[j] >= 0 PROVE FALSE
  BY <1>2, SessionsAssumption DEF BindingSound
<1> QED
  BY <1>1, <1>2 DEF BindingSound

LEMMA BindingStep == ASSUME SessionInv, Next PROVE BindingSound'
<1> USE DEF SessionInv
<1>1. ASSUME NEW id \in Ids, StartTurn(id) PROVE BindingSound'
  BY <1>1, BindingGrows DEF StartTurn
<1>2. ASSUME NEW id \in Ids, TakeMessage(id) PROVE BindingSound'
  <2>1. PICK m : AppendLog(id, <<Took(m)>>)
    BY <1>2 DEF TakeMessage
  <2> QED
    BY <1>2, <2>1, BindingGrows DEF TakeMessage
<1>3. ASSUME NEW id \in Ids, EndTurn(id) PROVE BindingSound'
  BY <1>3, BindingGrows DEF EndTurn
<1>4. ASSUME NEW m \in Followups, Send(m) PROVE BindingSound'
  <2>1. index \in live /\ index \in Ids
    BY <1>4, IndexIn DEF Send, DeliveriesSound, DeliverySound
  <2>2. CASE HasReceipt(log[index], m)
    BY <1>4, <2>2 DEF Send, BindingSound
  <2>3. CASE ~HasReceipt(log[index], m)
    <3>1. AppendLog(index, [i \in DOMAIN <<m>> |-> Queued(<<m>>[i])])
      BY <1>4, <2>3 DEF Send, Wake
    <3> QED
      BY <1>4, <2>1, <3>1, BindingGrows DEF Send
  <2> QED
    BY <2>2, <2>3
<1>5. ASSUME RecoverSend PROVE BindingSound'
  <2>1. index \in live /\ index \in Ids
    BY <1>5, IndexIn DEF RecoverSend, RecAt, RecoverySound
  <2>2. AppendLog(index, [i \in DOMAIN rec.send |-> Queued(rec.send[i])])
    BY <1>5 DEF RecoverSend, Wake
  <2> QED
    BY <1>5, <2>1, <2>2, BindingGrows DEF RecoverSend
<1>6. ASSUME RecoverFollow PROVE BindingSound'
  <2>1. index \in live /\ index \in Ids
    BY <1>6, IndexIn DEF RecoverFollow, RecAt, RecoverySound
  <2>2. AppendLog(index, [i \in DOMAIN <<Notice>> |-> Queued(<<Notice>>[i])])
    BY <1>6 DEF RecoverFollow, Wake
  <2> QED
    BY <1>6, <2>1, <2>2, BindingGrows DEF RecoverFollow
<1>7. ASSUME OpenSession PROVE BindingSound'
  <2>1. PICK id \in Ids : id = adm.id
    BY <1>7 DEF OpenSession, AdmAt, AdmissionSound
  <2>2. /\ index \in {None, id} /\ Bind(id) /\ UNCHANGED kept
        /\ log' = [log EXCEPT ![id] = Closed(@)]
    BY <1>7, <2>1 DEF OpenSession, CanBind
  <2>3. \A j \in Ids : j # id => log'[j] = log[j]
    BY <2>2 DEF LogsSound
  <2> QED
    BY <2>2, <2>3, BindingOpens
<1>8. ASSUME NEW id \in Ids, NativeBind(id) PROVE BindingSound'
  BY <1>8, BindingOpens DEF NativeBind
<1>9. ASSUME Admitted PROVE BindingSound'
  <2>1. PICK id \in Ids : id = adm.id /\ id \in live
    BY <1>9 DEF Admitted, AdmAt, AdmissionSound
  <2>2. Flush(id) /\ UNCHANGED <<index, binding, log, scope, live>>
    BY <1>9, <2>1 DEF Admitted, agents
  <2>3. \A j \in Ids : kept'[j] = kept[j] \/ j \in live
    BY <2>1, <2>2, FlushSound
  <2> QED
    BY <2>2, <2>3 DEF BindingSound
<1>10. ASSUME NEW m \in Followups, FlushDelivery(m) PROVE BindingSound'
  <2>1. PICK id \in Ids : id = index /\ id \in live
    BY <1>10, IndexIn DEF FlushDelivery, DeliveriesSound, DeliverySound
  <2>2. Flush(id) /\ UNCHANGED <<index, binding, log, scope, live>>
    BY <1>10, <2>1 DEF FlushDelivery, agents
  <2>3. \A j \in Ids : kept'[j] = kept[j] \/ j \in live
    BY <2>1, <2>2, FlushSound
  <2> QED
    BY <2>2, <2>3 DEF BindingSound
<1>11. ASSUME Crash PROVE BindingSound'
  <2>1. index' = binding /\ binding' = binding /\ live' = {}
    BY <1>11 DEF Crash, Restart
  <2>2. ASSUME NEW id \in Ids, log'[id] # <<>> \/ kept'[id] >= 0
        PROVE  id \in live \/ log[id] # <<>> \/ kept[id] >= 0
    <3>1. id \notin live => kept'[id] = kept[id]
      BY <1>11, CrashCuts
    <3>2. PICK n \in Int : n = kept'[id] /\ n <= Len(log[id]) /\ log'[id] = SubSeq(log[id], 1, n)
      BY <1>11, CrashCuts
    <3>3. CASE kept'[id] >= 0
      BY <3>1, <3>3
    <3>4. CASE log'[id] # <<>>
      <4>1. log[id] \in Seq(Events)
        BY DEF LogsSound
      <4>2. Len(log'[id]) = (IF 1 <= n THEN n ELSE 0) /\ log'[id] \in Seq(Events)
        BY <3>2, <4>1, CutShort
      <4>3. Len(log'[id]) # 0
        BY <3>4, <4>2, EmptySeq
      <4>4. 1 <= n
        BY <4>2, <4>3
      <4> QED
        BY <3>1, <3>2, <4>4
    <3> QED
      BY <2>2, <3>3, <3>4
  <2> QED
    BY <2>1, <2>2 DEF BindingSound
<1>12. ASSUME Stop PROVE BindingSound'
  <2>1. index' = binding /\ binding' = binding /\ live' = {}
    BY <1>12 DEF Stop, Restart
  <2>2. \A id \in Ids : id \notin live => log'[id] = log[id] /\ kept'[id] = kept[id]
    BY <1>12, StopCloses
  <2> QED
    BY <2>1, <2>2 DEF BindingSound
<1>13. ASSUME UNCHANGED <<index, binding, log, kept, live>> PROVE BindingSound'
  BY <1>13 DEF BindingSound
<1>14. ASSUME NEW client, Choose(client) PROVE BindingSound'
  BY <1>13, <1>14 DEF Choose, durable, agents
<1>15. ASSUME Look \/ Refused PROVE BindingSound'
  BY <1>13, <1>15 DEF Look, Refused, durable, agents
<1>16. ASSUME NEW m \in Followups, Advance(m) \/ TimeOut(m) \/ Ask(m) PROVE BindingSound'
  BY <1>13, <1>16 DEF Advance, TimeOut, Ask, durable, agents
<1>17. ASSUME RecoverLook \/ RecoverInspect \/ RecoverFails \/ RecoverBrief PROVE BindingSound'
  BY <1>13, <1>17 DEF RecoverLook, RecoverInspect, RecoverFails, RecoverBrief, durable, agents
<1>18. ASSUME NEW x, BeginEmit(x) \/ Authorize(x) \/ EndEmit PROVE BindingSound'
  BY <1>13, <1>18 DEF BeginEmit, Authorize, EndEmit, durable, agents
<1> QED
  BY <1>1, <1>2, <1>3, <1>4, <1>5, <1>6, <1>7, <1>8, <1>9, <1>10, <1>11, <1>12, <1>14, <1>15,
     <1>16, <1>17, <1>18 DEF Next, AgentStep, HostStep, World

LEMMA AdmissionStep == ASSUME SessionInv, Next PROVE AdmissionSound'
<1> USE DEF SessionInv
<1>1. ASSUME UNCHANGED <<adm, live>>, rec' = rec \/ rec.at # "ensure" PROVE AdmissionSound'
  BY <1>1 DEF AdmissionSound
<1>2. ASSUME adm' = None PROVE AdmissionSound'
  BY <1>2 DEF AdmissionSound
<1>3. ASSUME NEW client \in Followups \cup {"recovery"}, Choose(client) PROVE AdmissionSound'
  <2>1. PICK id : /\ id \in IF index = None THEN Unused ELSE {index}
                  /\ adm' = [client |-> client, id |-> id, at |-> "look"]
    BY <1>3 DEF Choose
  <2>2. id \in Ids
    BY <2>1 DEF Unused, BindingSound
  <2>3. client = "recovery" => rec.at = "ensure"
    BY <1>3 DEF Choose, Waits
  <2>4. rec' = rec
    BY <1>3 DEF Choose
  <2> QED
    BY <2>1, <2>2, <2>3, <2>4 DEF AdmissionSound
<1>4. ASSUME Look PROVE AdmissionSound'
  <2>1. /\ adm # None /\ DOMAIN adm = {"client", "id", "at"} /\ UNCHANGED <<live, rec>>
        /\ adm' = [adm EXCEPT !.at = IF adm.id \in live THEN "flush"
                                     ELSE IF kept[adm.id] >= 0 THEN "resume" ELSE "create"]
    BY <1>4 DEF Look, AdmAt, AdmissionSound, agents
  <2>2. DOMAIN adm' = DOMAIN adm /\ adm'.id = adm.id /\ adm'.client = adm.client
        /\ adm'.at = IF adm.id \in live THEN "flush"
                     ELSE IF kept[adm.id] >= 0 THEN "resume" ELSE "create"
    BY <2>1
  <2> QED
    BY <2>1, <2>2 DEF AdmissionSound
<1>5. ASSUME OpenSession PROVE AdmissionSound'
  <2>1. /\ adm # None /\ DOMAIN adm = {"client", "id", "at"} /\ UNCHANGED rec
        /\ adm' = [adm EXCEPT !.at = "flush"] /\ live' = live \cup {adm.id}
    BY <1>5 DEF OpenSession, AdmAt, AdmissionSound, Bind
  <2>2. DOMAIN adm' = DOMAIN adm /\ adm'.id = adm.id /\ adm'.client = adm.client /\ adm'.at = "flush"
    BY <2>1
  <2> QED
    BY <2>1, <2>2 DEF AdmissionSound
<1>6. ASSUME Refused \/ Admitted \/ Crash \/ Stop PROVE AdmissionSound'
  BY <1>2, <1>6 DEF Refused, Admitted, Crash, Stop, Restart
<1>7. ASSUME NEW id \in Ids, NativeBind(id) PROVE AdmissionSound'
  <2>1. adm # None => adm.id # id
    BY <1>7 DEF NativeBind, Unused
  <2> QED
    BY <1>7, <2>1 DEF NativeBind, Bind, AdmissionSound
<1>8. ASSUME NEW id \in Ids, StartTurn(id) \/ TakeMessage(id) \/ EndTurn(id) PROVE AdmissionSound'
  BY <1>1, <1>8 DEF StartTurn, TakeMessage, EndTurn
<1>9. ASSUME NEW m \in Followups, Advance(m) \/ Send(m) \/ TimeOut(m) \/ FlushDelivery(m) \/ Ask(m)
      PROVE  AdmissionSound'
  BY <1>1, <1>9 DEF Advance, Send, TimeOut, FlushDelivery, Ask, agents
<1>10. ASSUME RecoverLook \/ RecoverInspect \/ RecoverFails \/ RecoverSend \/ RecoverBrief \/ RecoverFollow
       PROVE  AdmissionSound'
  BY <1>1, <1>10
  DEF RecoverLook, RecoverInspect, RecoverFails, RecoverSend, RecoverBrief, RecoverFollow,
                     RecAt, agents
<1>11. ASSUME NEW x, BeginEmit(x) \/ Authorize(x) \/ EndEmit PROVE AdmissionSound'
  BY <1>1, <1>11 DEF BeginEmit, Authorize, EndEmit, agents
<1> QED
  BY <1>3, <1>4, <1>5, <1>6, <1>7, <1>8, <1>9, <1>10, <1>11 DEF Next, AgentStep, HostStep, World

-----------------------------------------------------------------------------
(***************************************************************************)
(* What never changes back: briefs, and within one life of the host the     *)
(* index, who is live and that recovery is over.                            *)
(***************************************************************************)
LEMMA HostStays ==
  ASSUME SessionInv, Next, ~Crash, ~Stop
  PROVE  /\ restarts' = restarts
         /\ live \subseteq live' /\ (index # None => index' = index)
         /\ rec.at = "over" => rec'.at = "over"
<1> DEFINE Goal == /\ restarts' = restarts
                   /\ live \subseteq live' /\ (index # None => index' = index)
                   /\ rec.at = "over" => rec'.at = "over"
<1> USE DEF SessionInv
<1>1. ASSUME NEW id \in Ids, StartTurn(id) \/ TakeMessage(id) \/ EndTurn(id) PROVE Goal
  BY <1>1 DEF StartTurn, TakeMessage, EndTurn
<1>2. ASSUME NEW client, Choose(client) PROVE Goal
  BY <1>2 DEF Choose, agents
<1>3. ASSUME Look \/ OpenSession PROVE Goal
  BY <1>3 DEF Look, OpenSession, CanBind, Bind, agents
<1>4. ASSUME Refused PROVE Goal
  <2>1. rec' = [rec EXCEPT !.at = "over"] \/ rec' = rec
    BY <1>4 DEF Refused
  <2>2. DOMAIN rec = {"at", "send", "again"}
    BY DEF RecoverySound
  <2>3. rec.at = "over" => rec'.at = "over"
    BY <2>1, <2>2
  <2> QED
    BY <1>4, <2>3 DEF Refused, agents
<1>5. ASSUME Admitted PROVE Goal
  <2>1. rec.at = "over" => rec' = rec
    BY <1>5 DEF Admitted, AdmAt, AdmissionSound
  <2> QED
    BY <1>5, <2>1 DEF Admitted, agents
<1>6. ASSUME NEW m \in Followups, Advance(m) \/ Send(m) \/ TimeOut(m) \/ FlushDelivery(m) \/ Ask(m)
      PROVE  Goal
  BY <1>6 DEF Advance, Send, TimeOut, FlushDelivery, Ask, agents
<1>7. ASSUME RecoverLook \/ RecoverInspect \/ RecoverFails \/ RecoverSend \/ RecoverBrief \/ RecoverFollow
      PROVE  Goal
  BY <1>7
  DEF RecoverLook, RecoverInspect, RecoverFails, RecoverSend, RecoverBrief, RecoverFollow, RecAt, agents
<1>8. ASSUME NEW id \in Ids, NativeBind(id) PROVE Goal
  BY <1>8 DEF NativeBind, Bind
<1>9. ASSUME NEW x, BeginEmit(x) \/ Authorize(x) \/ EndEmit PROVE Goal
  BY <1>9 DEF BeginEmit, Authorize, EndEmit, agents
<1> QED
  BY <1>1, <1>2, <1>3, <1>4, <1>5, <1>6, <1>7, <1>8, <1>9 DEF Next, AgentStep, HostStep, World

LEMMA RestartStep ==
  ASSUME SessionInv, Crash \/ Stop
  PROVE  /\ restarts' = restarts + 1 /\ restarts \in Nat /\ restarts' \in 1..MaxRestarts
         /\ live' = {} /\ index' = index /\ UNCHANGED <<binding, briefs, resent>>
         /\ rec' = [at |-> "look", send |-> <<>>, again |-> {m \in Followups : delivery'[m] = "asked"}]
         /\ scope' = [id \in Ids |-> None] /\ adm' = None /\ emit' = Quiet
<1>1. Restart
  BY DEF Crash, Stop
<1>2. restarts \in Nat /\ MaxRestarts \in Nat
  BY SessionsAssumption DEF SessionInv, RecoverySound
<1> QED
  BY <1>1, <1>2 DEF Restart, SessionInv, BindingSound

LEMMA BriefsStay ==
  ASSUME SessionInv, Next
  PROVE  /\ DOMAIN briefs' = Messages
         /\ \A m \in Messages : briefs'[m] = briefs[m] \/ m \notin Followups \/ briefs'[m] = Brief[m]
         /\ \A m \in Messages : briefs'[m] = briefs[m] \/ briefs[m] = None
<1> DEFINE Goal == /\ DOMAIN briefs' = Messages
                   /\ \A m \in Messages : \/ briefs'[m] = briefs[m] \/ m \notin Followups
                                          \/ briefs'[m] = Brief[m]
                   /\ \A m \in Messages : briefs'[m] = briefs[m] \/ briefs[m] = None
<1>1. DOMAIN briefs = Messages
  BY DEF SessionInv, DeliveriesSound
<1>2. ASSUME UNCHANGED briefs PROVE Goal
  BY <1>1, <1>2
<1>3. ASSUME NEW m \in Followups, Advance(m) PROVE Goal
  <2>1. m \in Messages /\ briefs' = [briefs EXCEPT ![m] = Brief[m]] /\ briefs[m] \in {None, Brief[m]}
    BY <1>3 DEF Advance, WriteBrief, Messages
  <2> QED
    BY <1>1, <2>1
<1>4. ASSUME RecoverBrief PROVE Goal
  <2>1. Notice \in Messages /\ Notice \notin Followups
    BY <1>4, NoticeIs DEF RecoverBrief, RecAt, SessionInv
  <2>2. PICK n : n = Notice
    OBVIOUS
  <2>3. UNCHANGED briefs \/ \E grants : /\ briefs' = [briefs EXCEPT ![n] = grants]
                                         /\ briefs[n] \in {None, grants}
    BY <1>4, <2>2 DEF RecoverBrief, WriteBrief
  <2>4. CASE UNCHANGED briefs
    BY <1>2, <2>4
  <2>5. CASE \E grants : briefs' = [briefs EXCEPT ![n] = grants] /\ briefs[n] \in {None, grants}
    <3>1. PICK grants : briefs' = [briefs EXCEPT ![n] = grants] /\ briefs[n] \in {None, grants}
      BY <2>5
    <3> QED
      BY <1>1, <2>1, <2>2, <3>1
  <2> QED
    BY <2>3, <2>4, <2>5
<1>5. ASSUME NEW id \in Ids, StartTurn(id) \/ TakeMessage(id) \/ EndTurn(id) \/ NativeBind(id) PROVE Goal
  BY <1>2, <1>5 DEF StartTurn, TakeMessage, EndTurn, NativeBind
<1>6. ASSUME NEW x, Choose(x) \/ BeginEmit(x) \/ Authorize(x) \/ EndEmit PROVE Goal
  BY <1>2, <1>6 DEF Choose, BeginEmit, Authorize, EndEmit, durable
<1>7. ASSUME Look \/ OpenSession \/ Refused \/ Admitted PROVE Goal
  BY <1>2, <1>7 DEF Look, OpenSession, Refused, Admitted, durable
<1>8. ASSUME NEW m \in Followups, Send(m) \/ TimeOut(m) \/ FlushDelivery(m) \/ Ask(m) PROVE Goal
  BY <1>2, <1>8 DEF Send, TimeOut, FlushDelivery, Ask, durable
<1>9. ASSUME RecoverLook \/ RecoverInspect \/ RecoverFails \/ RecoverSend \/ RecoverFollow
      PROVE  Goal
  BY <1>2, <1>9 DEF RecoverLook, RecoverInspect, RecoverFails, RecoverSend, RecoverFollow, durable
<1>10. ASSUME Crash \/ Stop PROVE Goal
  BY <1>2, <1>10 DEF Crash, Stop, Restart
<1> QED
  BY <1>3, <1>4, <1>5, <1>6, <1>7, <1>8, <1>9, <1>10 DEF Next, AgentStep, HostStep, World

LEMMA SentStays == ASSUME SessionInv, Next, NEW m, Sent(m) PROVE Sent(m)'
<1>1. m \in Messages /\ (m \in Followups => briefs'[m] = Brief[m])
  BY BriefsStay DEF Sent
<1>2. ASSUME m \in Notices
      PROVE  /\ \E n \in 1..restarts' : m = Continuation[n]
             /\ m = Continuation[restarts'] => rec'.at = "over"
  <2>1. PICK n \in 1..restarts : m = Continuation[n]
    BY <1>2 DEF Sent
  <2>2. CASE Crash \/ Stop
    <3>1. restarts' = restarts + 1 /\ restarts \in Nat /\ restarts' \in 1..MaxRestarts
      BY <2>2, RestartStep
    <3>2. n \in 1..restarts' /\ n \in 1..MaxRestarts /\ n # restarts'
      BY <3>1, SessionsAssumption
    <3>3. Continuation[n] # Continuation[restarts']
      BY <3>1, <3>2, SessionsAssumption
    <3> QED
      BY <2>1, <3>2, <3>3
  <2>3. CASE ~(Crash \/ Stop)
    <3>1. restarts' = restarts /\ (rec.at = "over" => rec'.at = "over")
      BY <2>3, HostStays
    <3> QED
      BY <1>2, <2>1, <3>1 DEF Sent
  <2> QED
    BY <2>2, <2>3
<1> QED
  BY <1>1, <1>2 DEF Sent

-----------------------------------------------------------------------------
(***************************************************************************)
(* Recovery.                                                                *)
(***************************************************************************)

\* Whatever waits on disk, or was cut there, had its brief on disk before.
LEMMA InboxSent ==
  ASSUME LogsSound, LoggedSent, NEW id \in Ids, NEW q,
         q = Inbox(OnDisk(id)) \/ q = Dropped(OnDisk(id))
  PROVE  q \in Seq(Messages) /\ \A m \in ToSet(q) : Sent(m)
<1>1. PICK l : l = OnDisk(id)
  OBVIOUS
<1>2. log[id] \in Seq(Events) /\ kept[id] \in Int /\ kept[id] <= Len(log[id])
  BY DEF LogsSound
<1>3. /\ l \in Seq(Events) /\ DOMAIN l = 1..Len(l)
      /\ \A i \in DOMAIN l : i \in DOMAIN log[id] /\ l[i] = log[id][i]
  <2>1. /\ SubSeq(log[id], 1, kept[id]) \in Seq(Events)
        /\ DOMAIN SubSeq(log[id], 1, kept[id]) = 1..kept[id]
        /\ \A i \in 1..kept[id] : /\ i \in DOMAIN log[id]
                                  /\ SubSeq(log[id], 1, kept[id])[i] = log[id][i]
    BY <1>2, CutShort
  <2> QED
    BY <1>1, <2>1 DEF OnDisk
<1>4. ASSUME NEW S \in SUBSET {i \in DOMAIN l : l[i].kind = "queued"}, q = InOrder(l, S)
      PROVE  q \in Seq(Messages) /\ \A m \in ToSet(q) : Sent(m)
  <2>1. S \in SUBSET (1..Len(l))
    BY <1>3
  <2>2. PICK n \in Nat : n = Cardinality(S) /\ DOMAIN InOrder(l, S) = 1..n
                         /\ \A k \in 1..n : \E i \in S : InOrder(l, S)[k] = l[i].m
    BY <1>3, <2>1, InOrderIn
  <2>3. q = [k \in 1..n |-> l[Nth(S, k)].m]
    BY <1>4, <2>2 DEF InOrder
  <2>4. \A i \in S : Sent(l[i].m) /\ l[i].m \in Messages
    <3>1. ASSUME NEW i \in S PROVE Sent(l[i].m) /\ l[i].m \in Messages
      <4>1. l[i].m \in Messages /\ l[i] = Queued(l[i].m) /\ i \in DOMAIN log[id] /\ log[id][i] = l[i]
        BY <1>3, EventKinds
      <4>2. HasReceipt(log[id], l[i].m)
        BY <4>1 DEF HasReceipt
      <4> QED
        BY <4>1, <4>2 DEF LoggedSent
    <3> QED
      BY <3>1
  <2>5. \A k \in 1..n : q[k] \in Messages /\ Sent(q[k])
    BY <1>4, <2>2, <2>4
  <2>6. q \in Seq(Messages) /\ DOMAIN q = 1..n
    BY <2>3, <2>5
  <2> QED
    BY <2>5, <2>6 DEF ToSet
<1>5. /\ Waiting(l) \in SUBSET {i \in DOMAIN l : l[i].kind = "queued"}
      /\ Cut(l) \in SUBSET {i \in DOMAIN l : l[i].kind = "queued"}
  BY DEF Waiting, Cut
<1> QED
  BY <1>1, <1>4, <1>5 DEF Inbox, Dropped

LEMMA RecoveryStep == ASSUME SessionInv, Next PROVE RecoverySound'
<1> USE DEF SessionInv
<1>1. ASSUME ~Crash, ~Stop, DOMAIN rec' = {"at", "send", "again"}, rec'.send = rec.send,
             rec'.at \in {"over", "look", "inspect", "ensure", "act", "follow"},
             rec'.at = rec.at \/ rec.at # "over",
             rec'.at = "inspect" => rec.at = "inspect" \/ index # None,
             rec'.at \in {"act", "follow"} => rec.at \in {"act", "follow"} \/ index' \in live'
      PROVE  RecoverySound'
  <2>1. /\ restarts' = restarts /\ live \subseteq live' /\ (index # None => index' = index)
        /\ restarts \in 0..MaxRestarts
    BY <1>1, HostStays DEF RecoverySound
  <2>2. rec'.send \in Seq(Messages) /\ \A m \in ToSet(rec'.send) : Sent(m)'
    <3>1. rec.send \in Seq(Messages) /\ \A m \in ToSet(rec.send) : Sent(m)'
      BY SentStays DEF RecoverySound
    <3> QED
      BY <1>1, <3>1
  <2>3. rec'.at # "over" => restarts' >= 1
    BY <1>1, <2>1 DEF RecoverySound
  <2>4. rec'.at = "inspect" => index' # None
    BY <1>1, <2>1 DEF RecoverySound
  <2>5. rec'.at \in {"act", "follow"} => index' \in live'
    <3>1. ASSUME index \in live PROVE index' \in live'
      <4>1. index \in Ids /\ index # None
        BY <3>1, IndexIn, SessionsAssumption
      <4> QED
        BY <2>1, <3>1, <4>1
    <3> QED
      BY <1>1, <3>1 DEF RecoverySound
  <2> QED
    BY <1>1, <2>1, <2>2, <2>3, <2>4, <2>5 DEF RecoverySound
<1>2. ASSUME UNCHANGED rec, ~Crash, ~Stop PROVE RecoverySound'
  BY <1>1, <1>2 DEF RecoverySound
<1>3. ASSUME NEW stage \in {"over", "inspect", "follow"}, rec' = [rec EXCEPT !.at = stage],
             ~Crash, ~Stop, rec.at # "over", stage = "inspect" => index # None,
             stage = "follow" => rec.at = "act"
      PROVE  RecoverySound'
  <2>1. DOMAIN rec = {"at", "send", "again"}
    BY DEF RecoverySound
  <2>2. DOMAIN rec' = {"at", "send", "again"} /\ rec'.send = rec.send /\ rec'.at = stage
    BY <1>3, <2>1
  <2> QED
    BY <1>1, <1>3, <2>2
<1>4. ASSUME Crash \/ Stop PROVE RecoverySound'
  <2>1. /\ restarts' \in 1..MaxRestarts
        /\ rec' = [at |-> "look", send |-> <<>>, again |-> {m \in Followups : delivery'[m] = "asked"}]
    BY <1>4, RestartStep
  <2>2. rec'.send \in Seq(Messages) /\ ToSet(rec'.send) = {} /\ rec'.at = "look"
        /\ DOMAIN rec' = {"at", "send", "again"}
    BY <2>1 DEF ToSet
  <2>3. restarts' \in 0..MaxRestarts /\ restarts' >= 1
    BY <2>1, SessionsAssumption
  <2> QED
    BY <2>2, <2>3 DEF RecoverySound
<1>5. CASE Crash \/ Stop
  BY <1>4, <1>5
<1>6. CASE ~(Crash \/ Stop)
  <2>1. ASSUME Refused PROVE RecoverySound'
    <3>1. adm # None /\ (adm.client = "recovery" => rec.at = "ensure")
      BY <2>1 DEF Refused, AdmAt, AdmissionSound
    <3>2. rec' = rec \/ (rec.at = "ensure" /\ rec' = [rec EXCEPT !.at = "over"])
      BY <2>1, <3>1 DEF Refused
    <3> QED
      BY <1>2, <1>3, <1>6, <3>2
  <2>2. ASSUME Admitted PROVE RecoverySound'
    <3>0. adm # None /\ (adm.client = "recovery" => rec.at = "ensure")
      BY <2>2 DEF Admitted, AdmAt, AdmissionSound
    <3>1. rec' = rec \/ (rec.at = "ensure" /\ rec' = [rec EXCEPT !.at = "act"])
      BY <2>2, <3>0 DEF Admitted
    <3>2. index' \in live'
      BY <2>2, IndexIn DEF Admitted, AdmAt, AdmissionSound, agents
    <3>3. DOMAIN rec = {"at", "send", "again"}
      BY DEF RecoverySound
    <3>4. CASE rec.at = "ensure" /\ rec' = [rec EXCEPT !.at = "act"]
      <4>1. DOMAIN rec' = {"at", "send", "again"} /\ rec'.send = rec.send /\ rec'.at = "act"
        BY <3>3, <3>4
      <4> QED
        BY <1>1, <1>6, <3>2, <3>4, <4>1
    <3> QED
      BY <1>2, <1>6, <3>1, <3>4
  <2>3. ASSUME RecoverLook PROVE RecoverySound'
    BY <1>3, <1>6, <2>3 DEF RecoverLook, RecAt, Goes
  <2>4. ASSUME RecoverSend \/ RecoverFollow PROVE RecoverySound'
    BY <1>3, <1>6, <2>4 DEF RecoverSend, RecoverFollow, RecAt, Goes
  <2>5. ASSUME RecoverBrief PROVE RecoverySound'
    BY <1>3, <1>6, <2>5 DEF RecoverBrief, RecAt, Goes
  <2>6. ASSUME RecoverInspect PROVE RecoverySound'
    <3>1. rec.at = "inspect" /\ index \in Ids /\ DOMAIN rec = {"at", "send", "again"}
      BY <2>6 DEF RecoverInspect, RecoverFails, RecAt, RecoverySound, BindingSound
    <3>2. PICK l : l = OnDisk(index)
      OBVIOUS
    <3>3. PICK q : q = IF Inbox(l) # <<>> THEN Inbox(l) ELSE Dropped(l)
      OBVIOUS
    <3>4. PICK send : send = IF Interrupted(l) THEN <<>> ELSE q
      OBVIOUS
    <3>5. rec' = [rec EXCEPT !.at = "ensure", !.send = send] \/ rec' = [rec EXCEPT !.at = "over"]
      BY <2>6, <3>2, <3>3, <3>4 DEF RecoverInspect, RecoverFails, Goes
    <3>6. send \in Seq(Messages) /\ \A m \in ToSet(send) : Sent(m)
      <4>1. q \in Seq(Messages) /\ \A m \in ToSet(q) : Sent(m)
        BY <3>1, <3>2, <3>3, InboxSent
      <4>2. <<>> \in Seq(Messages) /\ ToSet(<<>>) = {}
        BY DEF ToSet
      <4> QED
        BY <3>4, <4>1, <4>2
    <3>7. CASE rec' = [rec EXCEPT !.at = "ensure", !.send = send]
      <4>1. DOMAIN rec' = {"at", "send", "again"} /\ rec'.send = send /\ rec'.at = "ensure"
        BY <3>1, <3>7
      <4>2. restarts' = restarts /\ restarts \in 0..MaxRestarts /\ restarts >= 1
        BY <1>6, <3>1, HostStays DEF RecoverySound
      <4>3. \A m \in ToSet(send) : Sent(m)'
        BY <3>6, SentStays
      <4>4. rec'.send \in Seq(Messages) /\ \A m \in ToSet(rec'.send) : Sent(m)'
        BY <3>6, <4>1, <4>3
      <4> QED
        BY <4>1, <4>2, <4>4 DEF RecoverySound
    <3> QED
      BY <1>3, <1>6, <3>1, <3>5, <3>7
  <2>7. ASSUME NEW id \in Ids, StartTurn(id) \/ TakeMessage(id) \/ EndTurn(id) \/ NativeBind(id)
        PROVE  RecoverySound'
    BY <1>2, <1>6, <2>7 DEF StartTurn, TakeMessage, EndTurn, NativeBind
  <2>8. ASSUME NEW x, Choose(x) \/ BeginEmit(x) \/ Authorize(x) \/ EndEmit PROVE RecoverySound'
    BY <1>2, <1>6, <2>8 DEF Choose, BeginEmit, Authorize, EndEmit
  <2>9. ASSUME Look \/ OpenSession PROVE RecoverySound'
    BY <1>2, <1>6, <2>9 DEF Look, OpenSession
  <2>11. ASSUME RecoverFails PROVE RecoverySound'
    BY <1>3, <1>6, <2>11 DEF RecoverFails, RecAt, Goes
  <2>10. ASSUME NEW m \in Followups, Advance(m) \/ Send(m) \/ TimeOut(m) \/ FlushDelivery(m) \/ Ask(m)
         PROVE  RecoverySound'
    BY <1>2, <1>6, <2>10 DEF Advance, Send, TimeOut, FlushDelivery, Ask
  <2> QED
    BY <1>6, <2>1, <2>2, <2>3, <2>4, <2>5, <2>6, <2>7, <2>8, <2>9, <2>10, <2>11
    DEF Next, AgentStep, HostStep, World
<1> QED
  BY <1>5, <1>6

-----------------------------------------------------------------------------
(***************************************************************************)
(* What a step that is no crash adds to a log.                              *)
(***************************************************************************)
NoMessages(s) == \A i \in 1..Len(s) : s[i].kind \notin {"queued", "message"}

Adds(id, s) ==
  \/ NoMessages(s)
  \/ /\ TakeMessage(id) /\ Inbox(log[id]) # <<>>
     /\ s = <<Took(Head(Inbox(log[id])))>>
  \/ /\ id = index
     /\ \E m \in Followups : Send(m) /\ ~HasReceipt(log[id], m) /\ s = <<Queued(m)>>
  \/ /\ id = index /\ RecoverSend /\ Len(s) = Len(rec.send)
     /\ \A i \in 1..Len(s) : s[i] = Queued(rec.send[i])
  \/ id = index /\ RecoverFollow /\ s = <<Queued(Notice)>>

LEMMA NothingAdded ==
  ASSUME LogsSound, NEW id \in Ids, log'[id] = log[id]
  PROVE  \E s \in Seq(Events) : log'[id] = log[id] \o s /\ Adds(id, s)
<1>1. PICK s \in Seq(Events) : s = <<>>
  <2>1. <<>> \in Seq(Events)
    OBVIOUS
  <2> QED
    BY <2>1
<1>2. log'[id] = log[id] \o s
  BY <1>1, ConcatEmptySeq DEF LogsSound
<1>3. Adds(id, s)
  BY <1>1 DEF Adds, NoMessages
<1> QED
  BY <1>2, <1>3

LEMMA LogStep ==
  ASSUME SessionInv, Next, ~Crash, NEW id \in Ids
  PROVE  \E s \in Seq(Events) : log'[id] = log[id] \o s /\ Adds(id, s)
<1> DEFINE Goal == \E s \in Seq(Events) : log'[id] = log[id] \o s /\ Adds(id, s)
<1> USE DEF SessionInv
<1>1. ASSUME log' = log PROVE Goal
  BY <1>1, NothingAdded
<1>2. ASSUME NEW j \in Ids, NEW e \in Events, e.kind \notin {"queued", "message"},
             AppendLog(j, <<e>>)
      PROVE  Goal
  <2>1. PICK s \in Seq(Events) : s = <<e>>
    <3>1. <<e>> \in Seq(Events)
      OBVIOUS
    <3> QED
      BY <3>1
  <2>2. log'[j] = log[j] \o s /\ \A i \in Ids : i # j => log'[i] = log[i]
    BY <1>2, <2>1, Grown
  <2>3. Adds(j, s)
    BY <1>2, <2>1 DEF Adds, NoMessages
  <2> QED
    BY <2>2, <2>3, NothingAdded
<1>3. ASSUME NEW j \in Ids, StartTurn(j) PROVE Goal
  BY <1>2, <1>3, EventKinds DEF StartTurn
<1>4. ASSUME NEW j \in Ids, EndTurn(j) PROVE Goal
  BY <1>2, <1>4, EventKinds DEF EndTurn
<1>5. ASSUME NEW j \in Ids, TakeMessage(j) PROVE Goal
  <2>1. PICK m : m = Head(Inbox(log[j]))
    OBVIOUS
  <2>2. Inbox(log[j]) # <<>> /\ AppendLog(j, <<Took(m)>>) /\ log[j] \in Seq(Events)
    BY <1>5, <2>1 DEF TakeMessage, LogsSound
  <2>3. m \in Messages
    BY <2>1, <2>2, HeadQueued
  <2>4. PICK s \in Seq(Events) : s = <<Took(m)>>
    <3>1. <<Took(m)>> \in Seq(Events)
      BY <2>3, EventKinds
    <3> QED
      BY <3>1
  <2>5. log'[j] = log[j] \o s /\ \A i \in Ids : i # j => log'[i] = log[i]
    BY <2>2, <2>4, Grown
  <2>6. Adds(j, s)
    BY <1>5, <2>1, <2>2, <2>4 DEF Adds
  <2> QED
    BY <2>5, <2>6, NothingAdded
<1>6. ASSUME NEW m \in Followups, Send(m) PROVE Goal
  <2>1. index \in Ids /\ m \in Messages
    BY <1>6, IndexIn DEF Send, DeliveriesSound, DeliverySound, Messages
  <2>2. CASE HasReceipt(log[index], m)
    BY <1>1, <1>6, <2>2 DEF Send
  <2>3. CASE ~HasReceipt(log[index], m)
    <3>1. Wake(index, <<m>>)
      BY <1>6, <2>3 DEF Send
    <3>2. PICK s \in Seq(Events) : AppendLog(index, s) /\ s = <<Queued(m)>>
      BY <2>1, <3>1, WakeOne
    <3>3. log'[index] = log[index] \o s /\ \A i \in Ids : i # index => log'[i] = log[i]
      BY <2>1, <3>2, Grown
    <3>4. Adds(index, s)
      BY <1>6, <2>3, <3>2 DEF Adds
    <3> QED
      BY <3>3, <3>4, NothingAdded
  <2> QED
    BY <2>2, <2>3
<1>7. ASSUME RecoverSend PROVE Goal
  <2>1. index \in Ids /\ rec.send \in Seq(Messages) /\ Wake(index, rec.send)
    BY <1>7, IndexIn DEF RecoverSend, RecAt, RecoverySound
  <2>2. PICK s \in Seq(Events) : /\ AppendLog(index, s) /\ Len(s) = Len(rec.send)
                                 /\ \A i \in 1..Len(s) : s[i] = Queued(rec.send[i])
    <3>1. PICK q \in Seq(Messages) : q = rec.send
      BY <2>1
    <3>2. \E s \in Seq(Events) : /\ AppendLog(index, s) /\ Len(s) = Len(q)
                                 /\ \A i \in 1..Len(s) : s[i] = Queued(q[i])
      BY <2>1, <3>1, WakeAppends
    <3> QED
      BY <3>1, <3>2
  <2>3. log'[index] = log[index] \o s /\ \A i \in Ids : i # index => log'[i] = log[i]
    BY <2>1, <2>2, Grown
  <2>4. Adds(index, s)
    BY <1>7, <2>2 DEF Adds
  <2> QED
    BY <2>3, <2>4, NothingAdded
<1>8. ASSUME RecoverFollow PROVE Goal
  <2>1. index \in Ids /\ Notice \in Messages /\ Wake(index, <<Notice>>)
    BY <1>8, IndexIn, NoticeIs DEF RecoverFollow, RecAt, RecoverySound
  <2>2. PICK s \in Seq(Events) : AppendLog(index, s) /\ s = <<Queued(Notice)>>
    BY <2>1, WakeOne
  <2>3. log'[index] = log[index] \o s /\ \A i \in Ids : i # index => log'[i] = log[i]
    BY <2>1, <2>2, Grown
  <2>4. Adds(index, s)
    BY <1>8, <2>2 DEF Adds
  <2> QED
    BY <2>3, <2>4, NothingAdded
<1>9. ASSUME OpenSession PROVE Goal
  <2>1. PICK j \in Ids : j = adm.id
    BY <1>9 DEF OpenSession, AdmAt, AdmissionSound
  <2>2. log' = [log EXCEPT ![j] = Closed(@)] /\ log[j] \in Seq(Events) /\ Balanced(log[j])
        /\ DOMAIN log = Ids
    BY <1>9, <2>1 DEF OpenSession, LogsSound
  <2>3. PICK s \in Seq(Events) : Closed(log[j]) = log[j] \o s /\ \A i \in 1..Len(s) : s[i].kind = "end"
    BY <2>2, ClosedSound
  <2>4. log'[j] = log[j] \o s /\ \A i \in Ids : i # j => log'[i] = log[i]
    BY <2>2, <2>3
  <2>5. Adds(j, s)
    BY <2>3 DEF Adds, NoMessages
  <2> QED
    BY <2>4, <2>5, NothingAdded
<1>10. ASSUME Stop PROVE Goal
  <2>1. CASE id \notin live
    BY <1>10, <2>1, StopCloses, NothingAdded
  <2>2. CASE id \in live
    <3>1. log'[id] = Stopped(log[id]) /\ log[id] \in Seq(Events) /\ Balanced(log[id])
      BY <1>10, <2>2, StopCloses DEF LogsSound
    <3>2. PICK s \in Seq(Events) : /\ Stopped(log[id]) = log[id] \o s
                                   /\ \A i \in 1..Len(s) : s[i].kind \in {"end", "canceled"}
      BY <3>1, StoppedSound
    <3>3. Adds(id, s)
      BY <3>2 DEF Adds, NoMessages
    <3> QED
      BY <3>1, <3>2, <3>3
  <2> QED
    BY <2>1, <2>2
<1>11. ASSUME NEW x, Choose(x) \/ BeginEmit(x) \/ Authorize(x) \/ EndEmit \/ NativeBind(x) PROVE Goal
  BY <1>1, <1>11 DEF Choose, BeginEmit, Authorize, EndEmit, NativeBind, durable
<1>12. ASSUME Look \/ Refused \/ Admitted PROVE Goal
  BY <1>1, <1>12 DEF Look, Refused, Admitted, durable
<1>13. ASSUME NEW m \in Followups, Advance(m) \/ TimeOut(m) \/ FlushDelivery(m) \/ Ask(m) PROVE Goal
  BY <1>1, <1>13 DEF Advance, TimeOut, FlushDelivery, Ask, durable
<1>14. ASSUME RecoverLook \/ RecoverInspect \/ RecoverFails \/ RecoverBrief PROVE Goal
  BY <1>1, <1>14 DEF RecoverLook, RecoverInspect, RecoverFails, RecoverBrief, durable
<1> HIDE DEF Goal
<1>15. Goal
  BY <1>3, <1>4, <1>5, <1>6, <1>7, <1>8, <1>9, <1>10, <1>11, <1>12, <1>13, <1>14
  DEF Next, AgentStep, HostStep, World
<1> QED
  BY <1>15 DEF Goal

LEMMA LogStays ==
  ASSUME SessionInv, Next, NEW id \in Ids
  PROVE  /\ kept[id] \in Int /\ kept'[id] \in Int /\ kept[id] <= kept'[id]
         /\ \A i \in 1..kept[id] : log'[id][i] = log[id][i]
         /\ ~Crash => \A i \in DOMAIN log[id] : i \in DOMAIN log'[id] /\ log'[id][i] = log[id][i]
<1> USE DEF SessionInv
<1>1. /\ log[id] \in Seq(Events) /\ kept[id] \in Int /\ kept[id] <= Len(log[id])
      /\ Len(log[id]) \in Nat /\ DOMAIN log[id] = 1..Len(log[id])
  BY DEF LogsSound
<1>2. ~Crash => \A i \in DOMAIN log[id] : i \in DOMAIN log'[id] /\ log'[id][i] = log[id][i]
  <2>1. CASE ~Crash
    <3>1. PICK s \in Seq(Events) : log'[id] = log[id] \o s
      BY <2>1, LogStep
    <3> QED
      BY <1>1, <3>1, Extended
  <2> QED
    BY <2>1
<1>3. ASSUME Crash
      PROVE  kept'[id] \in Int /\ kept[id] <= kept'[id] /\ \A i \in 1..kept[id] : log'[id][i] = log[id][i]
  <2>1. PICK n \in Int : /\ n = kept'[id] /\ kept[id] <= n /\ n <= Len(log[id])
                         /\ log'[id] = SubSeq(log[id], 1, n)
    BY <1>3, CrashCuts
  <2>2. \A i \in 1..n : log'[id][i] = log[id][i]
    BY <1>1, <2>1, CutShort
  <2> QED
    BY <1>1, <2>1, <2>2
<1>4. ASSUME ~Crash, kept'[id] \in Int, kept[id] <= kept'[id]
      PROVE  kept'[id] \in Int /\ kept[id] <= kept'[id] /\ \A i \in 1..kept[id] : log'[id][i] = log[id][i]
  BY <1>1, <1>2, <1>4
<1>5. kept'[id] \in Int /\ kept[id] <= kept'[id]
  <2> DEFINE Grows == kept'[id] \in Int /\ kept[id] <= kept'[id]
  <2>1. ASSUME UNCHANGED kept PROVE Grows
    BY <1>1, <2>1
  <2>2. ASSUME Stop PROVE Grows
    <3>1. CASE id \in live
      <4>1. kept'[id] = Len(log'[id]) /\ log'[id] = Stopped(log[id]) /\ Balanced(log[id])
        BY <2>2, <3>1, StopCloses DEF LogsSound
      <4>2. log'[id] \in Seq(Events) /\ Len(log'[id]) >= Len(log[id])
        BY <1>1, <4>1, StoppedSound
      <4>3. Len(log'[id]) \in Nat
        BY <4>2
      <4> QED
        BY <1>1, <4>1, <4>2, <4>3
    <3>2. CASE id \notin live
      BY <1>1, <2>2, <3>2, StopCloses
    <3> QED
      BY <3>1, <3>2
  <2>3. ASSUME Admitted PROVE Grows
    <3>1. PICK j \in Ids : j = adm.id
      BY <2>3 DEF Admitted, AdmAt, AdmissionSound
    <3> QED
      BY <2>3, <3>1, FlushSound DEF Admitted, agents
  <2>4. ASSUME NEW m \in Followups, FlushDelivery(m) PROVE Grows
    <3>1. index \in Ids
      BY <2>4, IndexIn DEF FlushDelivery, DeliveriesSound, DeliverySound
    <3> QED
      BY <2>4, <3>1, FlushSound DEF FlushDelivery, agents
  <2>5. ASSUME NEW j \in Ids, StartTurn(j) \/ TakeMessage(j) \/ EndTurn(j) \/ NativeBind(j) PROVE Grows
    BY <2>1, <2>5 DEF StartTurn, TakeMessage, EndTurn, NativeBind
  <2>6. ASSUME NEW x, Choose(x) \/ BeginEmit(x) \/ Authorize(x) \/ EndEmit PROVE Grows
    BY <2>1, <2>6 DEF Choose, BeginEmit, Authorize, EndEmit, durable
  <2>7. ASSUME Look \/ OpenSession \/ Refused PROVE Grows
    BY <2>1, <2>7 DEF Look, OpenSession, Refused, durable
  <2>8. ASSUME NEW m \in Followups, Advance(m) \/ Send(m) \/ TimeOut(m) \/ Ask(m) PROVE Grows
    BY <2>1, <2>8 DEF Advance, Send, TimeOut, Ask, durable
  <2>9. ASSUME RecoverLook \/ RecoverInspect \/ RecoverFails \/ RecoverSend \/ RecoverBrief \/ RecoverFollow
        PROVE  Grows
    BY <2>1, <2>9
    DEF RecoverLook, RecoverInspect, RecoverFails, RecoverSend, RecoverBrief, RecoverFollow, durable
  <2>10. ASSUME Crash PROVE Grows
    BY <1>3, <2>10
  <2> HIDE DEF Grows
  <2>11. Grows
    BY <2>2, <2>3, <2>4, <2>5, <2>6, <2>7, <2>8, <2>9, <2>10 DEF Next, AgentStep, HostStep, World
  <2> QED
    BY <2>11 DEF Grows
<1> QED
  BY <1>1, <1>2, <1>3, <1>4, <1>5

-----------------------------------------------------------------------------
(***************************************************************************)
(* Briefs before messages; receipts before a message is taken.              *)
(***************************************************************************)
LEMMA ReceiptsBefore ==
  ASSUME LogsSound, Crash, NEW id \in Ids, NEW i \in DOMAIN log'[id]
  PROVE  i \in DOMAIN log[id] /\ log'[id][i] = log[id][i]
<1>1. PICK n \in Int : n <= Len(log[id]) /\ log'[id] = SubSeq(log[id], 1, n)
  BY CrashCuts
<1>2. log[id] \in Seq(Events)
  BY DEF LogsSound
<1>3. DOMAIN SubSeq(log[id], 1, n) = 1..n
      /\ \A j \in 1..n : j \in DOMAIN log[id] /\ SubSeq(log[id], 1, n)[j] = log[id][j]
  BY <1>1, <1>2, CutShort
<1> QED
  BY <1>1, <1>3

LEMMA EventsDiffer ==
  /\ \A m, n : Queued(m) # Took(n)
  /\ \A m, n : Queued(m) = Queued(n) => m = n
  /\ \A m, n : Took(m) = Took(n) => m = n
<1>1. \A m, n : Queued(m).kind # Took(n).kind
  BY EventKinds
<1>2. \A m : Queued(m).m = m /\ Took(m).m = m
  BY EventKinds
<1> QED
  BY <1>1, <1>2

LEMMA LoggedSentStep == ASSUME SessionInv, Next PROVE LoggedSent'
<1> USE DEF SessionInv
<1>1. ASSUME NEW id \in Ids, NEW m \in Messages, HasReceipt(log'[id], m) PROVE Sent(m)'
  <2>1. PICK i \in DOMAIN log'[id] : log'[id][i] \in {Queued(m), Took(m)}
    BY <1>1 DEF HasReceipt
  <2>2. ASSUME i \in DOMAIN log[id], log'[id][i] = log[id][i] PROVE Sent(m)'
    <3>1. HasReceipt(log[id], m)
      BY <2>1, <2>2 DEF HasReceipt
    <3> QED
      BY <3>1, SentStays DEF LoggedSent
  <2>3. CASE Crash
    BY <2>2, <2>3, ReceiptsBefore
  <2>4. CASE ~Crash
    <3>1. PICK s \in Seq(Events) : log'[id] = log[id] \o s /\ Adds(id, s)
      BY <2>4, LogStep
    <3>2. log[id] \in Seq(Events)
      BY DEF LogsSound
    <3>3. \/ i \in DOMAIN log[id] /\ log'[id][i] = log[id][i]
          \/ \E k \in 1..Len(s) : log'[id][i] = s[k]
      <4>1. PICK l2 : l2 = log'[id]
        OBVIOUS
      <4>2. /\ DOMAIN l2 = 1..(Len(log[id]) + Len(s)) /\ DOMAIN log[id] = 1..Len(log[id])
            /\ Len(log[id]) \in Nat /\ Len(s) \in Nat
            /\ \A j \in 1..Len(log[id]) : l2[j] = log[id][j]
            /\ \A j \in 1..(Len(log[id]) + Len(s)) : j > Len(log[id]) =>
                 j - Len(log[id]) \in 1..Len(s) /\ l2[j] = s[j - Len(log[id])]
        BY <3>1, <3>2, <4>1, Extended
      <4>3. i \in 1..(Len(log[id]) + Len(s))
        BY <4>1, <4>2
      <4> QED
        BY <4>1, <4>2, <4>3
    <3>4. ASSUME NEW k \in 1..Len(s), s[k] \in {Queued(m), Took(m)} PROVE Sent(m)'
      <4>1. CASE NoMessages(s)
        BY <3>4, <4>1, EventKinds DEF NoMessages
      <4>2. CASE Inbox(log[id]) # <<>> /\ s = <<Took(Head(Inbox(log[id])))>>
        <5>1. PICK n : n = Head(Inbox(log[id]))
          OBVIOUS
        <5>2. s = <<Took(n)>>
          BY <4>2, <5>1
        <5>3. s[k] = Took(n)
          BY <5>2
        <5>4. m = n
          BY <3>4, <5>3, EventsDiffer
        <5>5. HasReceipt(log[id], m)
          BY <3>2, <4>2, <5>1, <5>4, HeadQueued DEF HasReceipt
        <5> QED
          BY <5>5, SentStays DEF LoggedSent
      <4>3. CASE \E n \in Followups : Send(n) /\ s = <<Queued(n)>>
        <5>1. PICK n \in Followups : Send(n) /\ s = <<Queued(n)>>
          BY <4>3
        <5>2. s[k] = Queued(n)
          BY <5>1
        <5>3. m = n
          BY <3>4, <5>2, EventsDiffer
        <5>4. Sent(m)
          BY <5>1, <5>3, SessionsAssumption DEF Send, DeliveriesSound, DeliverySound, Sent
        <5> QED
          BY <5>4, SentStays
      <4>4. CASE /\ RecoverSend /\ Len(s) = Len(rec.send)
                 /\ \A j \in 1..Len(s) : s[j] = Queued(rec.send[j])
        <5>1. m = rec.send[k] /\ k \in 1..Len(rec.send)
          BY <3>4, <4>4, EventsDiffer
        <5>2. m \in ToSet(rec.send)
          BY <5>1 DEF ToSet, RecoverySound
        <5> QED
          BY <5>2, SentStays DEF RecoverySound
      <4>5. CASE RecoverFollow /\ s = <<Queued(Notice)>>
        <5>1. PICK n : n = Notice
          OBVIOUS
        <5>2. s[k] = Queued(n)
          BY <4>5, <5>1
        <5>3. m = n
          BY <3>4, <5>2, EventsDiffer
        <5>4. rec' = [rec EXCEPT !.at = "over"] /\ restarts' = restarts /\ rec.at = "follow"
          BY <4>5 DEF RecoverFollow, Goes, RecAt
        <5>5. n \in Messages /\ n \notin Followups
          BY <5>1, <5>4, NoticeIs
        <5>6. rec'.at = "over" /\ restarts \in 1..restarts /\ n = Continuation[restarts]
          BY <5>1, <5>4 DEF RecoverySound, Notice
        <5> QED
          BY <5>3, <5>4, <5>5, <5>6 DEF Sent
      <4> QED
        BY <3>1, <4>1, <4>2, <4>3, <4>4, <4>5 DEF Adds
    <3> QED
      BY <2>1, <2>2, <3>3, <3>4
  <2> QED
    BY <2>3, <2>4
<1> QED
  BY <1>1 DEF LoggedSent

LEMMA TakenLastStep == ASSUME SessionInv, Next PROVE TakenLast'
<1> USE DEF SessionInv
<1>1. resent \subseteq resent'
  <2>1. CASE Crash \/ Stop
    BY <2>1, RestartStep
  <2>2. CASE ~(Crash \/ Stop)
    BY <2>2 DEF Next, AgentStep, HostStep, World, StartTurn, TakeMessage, EndTurn, Choose, Look,
                OpenSession, Refused, Admitted, Advance, Send, TimeOut, FlushDelivery, RecoverLook,
                RecoverInspect, RecoverFails, RecoverSend, RecoverBrief, RecoverFollow, Ask, NativeBind,
                BeginEmit, Authorize, EndEmit, history
  <2> QED
    BY <2>1, <2>2
<1>2. ASSUME NEW id \in Ids, NEW m \in Followups, m \notin resent',
             NEW k \in Takes(log'[id], m), NEW i \in DOMAIN log'[id],
             log'[id][i] \in {Queued(m), Took(m)}
      PROVE  i <= k
  <2>1. m \in Followups \ resent /\ k \in DOMAIN log'[id] /\ log'[id][k] = Took(m)
    BY <1>1, <1>2 DEF Takes
  <2>2. ASSUME k \in DOMAIN log[id], log'[id][k] = log[id][k],
               i \in DOMAIN log[id], log'[id][i] = log[id][i]
        PROVE  i <= k
    <3>1. k \in Takes(log[id], m)
      BY <2>1, <2>2 DEF Takes
    <3> QED
      BY <1>2, <2>1, <2>2, <3>1 DEF TakenLast
  <2>3. CASE Crash
    BY <2>1, <2>2, <2>3, ReceiptsBefore
  <2>4. CASE ~Crash
    <3>1. PICK s \in Seq(Events) : log'[id] = log[id] \o s /\ Adds(id, s)
      BY <2>4, LogStep
    <3>2. log[id] \in Seq(Events) /\ Len(log[id]) \in Nat /\ DOMAIN log[id] = 1..Len(log[id])
      BY DEF LogsSound
    <3>3. /\ DOMAIN log'[id] = 1..(Len(log[id]) + Len(s)) /\ Len(s) \in Nat
          /\ \A j \in DOMAIN log'[id] : \/ j \in DOMAIN log[id] /\ log'[id][j] = log[id][j]
                                        \/ /\ j > Len(log[id]) /\ j - Len(log[id]) \in 1..Len(s)
                                           /\ log'[id][j] = s[j - Len(log[id])]
      BY <3>1, <3>2, Extended
    <3>4. ASSUME NEW h \in 1..Len(s), s[h] = Took(m) PROVE Len(s) = 1
      <4>1. ~NoMessages(s)
        BY <3>4, EventKinds DEF NoMessages
      <4>2. \A n : s[h] # Queued(n)
        BY <3>4, EventsDiffer
      <4>3. \A n : s # <<Queued(n)>>
        BY <4>2
      <4>4. \E n : s = <<Took(n)>>
        BY <3>1, <4>1, <4>2, <4>3 DEF Adds
      <4> QED
        BY <4>4
    <3>5. ASSUME k \in DOMAIN log[id], log'[id][k] = log[id][k],
                 NEW h \in 1..Len(s), s[h] \in {Queued(m), Took(m)}
          PROVE  FALSE
      <4>1. k \in Takes(log[id], m) /\ log[id][k] = Took(m)
        BY <2>1, <3>5 DEF Takes
      <4>2. CASE NoMessages(s)
        BY <3>5, <4>2, EventKinds DEF NoMessages
      <4>3. CASE Inbox(log[id]) # <<>> /\ s = <<Took(Head(Inbox(log[id])))>>
        <5>1. PICK n : n = Head(Inbox(log[id]))
          OBVIOUS
        <5>2. s[h] = Took(n)
          BY <4>3, <5>1
        <5>3. m = n
          BY <3>5, <5>2, EventsDiffer
        <5>4. PICK j \in DOMAIN log[id] : /\ log[id][j] = Queued(m)
                                          /\ \A e \in DOMAIN log[id] : e > j => log[id][e] # Took(m)
          BY <3>2, <4>3, <5>1, <5>3, HeadQueued
        <5>5. ~(k > j) /\ j <= k
          BY <2>1, <3>5, <4>1, <5>4 DEF TakenLast
        <5>6. j = k
          BY <3>2, <3>5, <5>5
        <5> QED
          BY <4>1, <5>4, <5>6, EventsDiffer
      <4>4. CASE \E n \in Followups : ~HasReceipt(log[id], n) /\ s = <<Queued(n)>>
        <5>1. PICK n \in Followups : ~HasReceipt(log[id], n) /\ s = <<Queued(n)>>
          BY <4>4
        <5>2. s[h] = Queued(n)
          BY <5>1
        <5>3. m = n
          BY <3>5, <5>2, EventsDiffer
        <5> QED
          BY <3>5, <4>1, <5>1, <5>3 DEF HasReceipt
      <4>5. CASE /\ id = index /\ RecoverSend /\ Len(s) = Len(rec.send)
                 /\ \A j \in 1..Len(s) : s[j] = Queued(rec.send[j])
        <5>1. m = rec.send[h] /\ h \in 1..Len(rec.send)
          BY <3>5, <4>5, EventsDiffer
        <5>2. Contains(rec.send, m) /\ Ran(log[index], m) /\ m \in Messages
          BY <4>1, <4>5, <5>1 DEF Contains, Ran, Messages
        <5>3. m \in resent'
          BY <4>5, <5>2 DEF RecoverSend
        <5> QED
          BY <1>2, <5>3
      <4>6. CASE RecoverFollow /\ s = <<Queued(Notice)>>
        <5>1. PICK n : n = Notice
          OBVIOUS
        <5>2. s[h] = Queued(n)
          BY <4>6, <5>1
        <5>3. m = n
          BY <3>5, <5>2, EventsDiffer
        <5> QED
          BY <4>6, <5>1, <5>3, NoticeIs DEF RecoverFollow, RecAt
      <4> QED
        BY <3>1, <4>2, <4>3, <4>4, <4>5, <4>6 DEF Adds
    <3>6. CASE k \in DOMAIN log[id] /\ log'[id][k] = log[id][k]
      BY <1>2, <2>2, <3>3, <3>5, <3>6
    <3>7. CASE k > Len(log[id]) /\ k - Len(log[id]) \in 1..Len(s) /\ log'[id][k] = s[k - Len(log[id])]
      <4>1. Len(s) = 1
        BY <2>1, <3>4, <3>7
      <4> QED
        BY <1>2, <2>1, <3>2, <3>3, <3>7, <4>1
    <3> QED
      BY <2>1, <3>3, <3>6, <3>7
  <2> QED
    BY <2>3, <2>4
<1> QED
  BY <1>2 DEF TakenLast

-----------------------------------------------------------------------------
(***************************************************************************)
(* Deliveries.                                                              *)
(***************************************************************************)
Delivered(m) == \E id \in Ids : Ran(OnDisk(id), m)

LEMMA RanOnDisk ==
  LogsSound => \A m : Delivered(m) <=> \E id \in Ids : \E i \in 1..kept[id] : log[id][i] = Took(m)
<1> SUFFICES ASSUME LogsSound, NEW m, NEW id \in Ids
             PROVE  Ran(OnDisk(id), m) <=> \E i \in 1..kept[id] : log[id][i] = Took(m)
  BY DEF Delivered
<1>1. log[id] \in Seq(Events) /\ kept[id] \in Int /\ kept[id] <= Len(log[id])
  BY DEF LogsSound
<1>2. /\ DOMAIN SubSeq(log[id], 1, kept[id]) = 1..kept[id]
      /\ \A i \in 1..kept[id] : SubSeq(log[id], 1, kept[id])[i] = log[id][i]
  BY <1>1, CutShort
<1> QED
  BY <1>2 DEF OnDisk, Ran, Takes

LEMMA RanOnDiskNext ==
  LogsSound' => (\A m : Delivered(m) <=> \E id \in Ids : \E i \in 1..kept[id] : log[id][i] = Took(m))'
BY RanOnDisk, PTL

LEMMA DeliveredStays == ASSUME SessionInv, Next, NEW m, Delivered(m) PROVE Delivered(m)'
<1>1. PICK id \in Ids : \E i \in 1..kept[id] : log[id][i] = Took(m)
  BY RanOnDisk DEF SessionInv
<1>2. PICK i \in 1..kept[id] : log[id][i] = Took(m)
  BY <1>1
<1>3. kept[id] \in Int /\ kept'[id] \in Int /\ kept[id] <= kept'[id] /\ log'[id][i] = log[id][i]
  BY LogStays
<1>4. i \in 1..kept'[id]
  BY <1>3
<1>5. LogsSound'
  BY LogsStep
<1> QED
  BY <1>2, <1>3, <1>4, <1>5, RanOnDiskNext

LEMMA RanStays ==
  ASSUME SessionInv, Next, ~Crash, NEW id \in Ids, NEW m, Ran(log[id], m)
  PROVE  Ran(log'[id], m)
BY LogStays DEF Ran, Takes

LEMMA DeliveriesStep == ASSUME SessionInv, Next PROVE DeliveriesSound'
<1> USE DEF SessionInv
<1>1. DOMAIN briefs' = Messages /\ DOMAIN delivery = Followups
  BY BriefsStay DEF DeliveriesSound
<1>2. \A m \in Followups : /\ briefs'[m] \in {None, Brief[m]}
                           /\ briefs[m] = Brief[m] => briefs'[m] = Brief[m]
  BY BriefsStay DEF DeliveriesSound, DeliverySound, Messages
<1>3. ASSUME NEW m \in Followups, ~Crash, ~Stop,
             delivery'[m] \in {"ensure", "ready", "wait", "flush", "done"} =>
               \/ delivery[m] \in {"ensure", "ready", "wait", "flush", "done"}
               \/ briefs'[m] = Brief[m],
             delivery'[m] \in {"ready", "wait", "flush"} =>
               delivery[m] \in {"ready", "wait", "flush"} \/ index' \in live',
             delivery'[m] = "flush" => delivery[m] = "flush" \/ Ran(log'[index'], m),
             delivery'[m] = "done" => delivery[m] = "done" \/ Delivered(m)',
             adm' # None /\ adm'.client = m => delivery'[m] = "ensure"
      PROVE  DeliverySound(m)'
  <2>1. DeliverySound(m)
    BY DEF DeliveriesSound
  <2>2. delivery'[m] \in {"ensure", "ready", "wait", "flush", "done"} => briefs'[m] = Brief[m]
    BY <1>2, <1>3, <2>1 DEF DeliverySound
  <2>3. ASSUME index \in live PROVE index \in Ids /\ index' = index /\ index' \in live'
    <3>1. index \in Ids /\ index # None
      BY <2>3, IndexIn, SessionsAssumption
    <3> QED
      BY <1>3, <2>3, <3>1, HostStays
  <2>4. delivery'[m] \in {"ready", "wait", "flush"} => index' \in live'
    BY <1>3, <2>1, <2>3 DEF DeliverySound
  <2>5. delivery'[m] = "flush" => Ran(log'[index'], m)
    <3>1. ASSUME delivery[m] = "flush" PROVE Ran(log'[index'], m)
      <4>1. Ran(log[index], m) /\ index \in Ids /\ index' = index
        BY <2>1, <2>3, <3>1 DEF DeliverySound
      <4> QED
        BY <1>3, <4>1, RanStays
    <3> QED
      BY <1>3, <3>1
  <2>6. delivery'[m] = "done" => Delivered(m)'
    <3>1. delivery[m] = "done" => Delivered(m)
      BY <2>1 DEF DeliverySound, Delivered
    <3> QED
      BY <1>3, <3>1, DeliveredStays
  <2> QED
    BY <1>2, <1>3, <2>2, <2>4, <2>5, <2>6 DEF DeliverySound, Delivered
<1>4. \A m \in Followups : adm # None /\ adm.client = m => delivery[m] = "ensure"
  BY DEF DeliveriesSound, DeliverySound
<1>5. ASSUME UNCHANGED delivery, ~Crash, ~Stop, adm' = adm \/ adm' = None PROVE DeliveriesSound'
  BY <1>1, <1>3, <1>4, <1>5 DEF DeliveriesSound
<1>6. ASSUME NEW f \in Followups, NEW stage, delivery' = [delivery EXCEPT ![f] = stage],
             ~Crash, ~Stop, adm' = adm \/ adm' = None,
             adm' # None => delivery[f] # "ensure",
             stage \in {"ensure", "ready", "wait", "flush", "done"} =>
               \/ delivery[f] \in {"ensure", "ready", "wait", "flush", "done"}
               \/ briefs'[f] = Brief[f],
             stage \in {"ready", "wait", "flush"} =>
               delivery[f] \in {"ready", "wait", "flush"} \/ index' \in live',
             stage = "flush" => Ran(log'[index'], f),
             stage = "done" => Delivered(f)'
      PROVE  DeliveriesSound'
  <2>1. DOMAIN delivery' = Followups
    BY <1>1, <1>6
  <2>2. DeliverySound(f)'
    <3>1. delivery'[f] = stage /\ (adm' # None => adm'.client # f)
      BY <1>1, <1>4, <1>6
    <3> QED
      BY <1>3, <1>6, <3>1
  <2>3. ASSUME NEW m \in Followups, m # f PROVE DeliverySound(m)'
    <3>1. delivery'[m] = delivery[m]
      BY <1>1, <1>6, <2>3
    <3> QED
      BY <1>3, <1>4, <1>6, <3>1
  <2> QED
    BY <1>1, <2>1, <2>2, <2>3 DEF DeliveriesSound
<1>7. ASSUME Crash \/ Stop PROVE DeliveriesSound'
  <2>1. /\ delivery' = [m \in Followups |->
                    IF delivery[m] \in {"new", "done", "failed"} THEN delivery[m] ELSE "asked"]
        /\ adm' = None
    BY <1>7 DEF Crash, Stop, Restart
  <2>2. \A m \in Followups : delivery[m] = "done" => Delivered(m)' /\ briefs'[m] = Brief[m]
    <3>1. \A m \in Followups : delivery[m] = "done" => Delivered(m) /\ briefs[m] = Brief[m]
      BY DEF DeliveriesSound, DeliverySound, Delivered
    <3> QED
      BY <1>2, <3>1, DeliveredStays
  <2>3. \A m \in Followups :
          (delivery'[m] = "done" /\ delivery[m] = "done")
            \/ delivery'[m] \notin {"ensure", "ready", "wait", "flush", "done"}
    BY <2>1
  <2>4. ASSUME NEW m \in Followups PROVE DeliverySound(m)'
    BY <1>2, <2>1, <2>2, <2>3 DEF DeliverySound, Delivered
  <2> QED
    BY <1>1, <2>1, <2>4 DEF DeliveriesSound
<1>8. CASE ~(Crash \/ Stop)
  <2>1. ASSUME NEW client \in Followups \cup {"recovery"}, Choose(client) PROVE DeliveriesSound'
    <3>1. PICK id : adm' = [client |-> client, id |-> id, at |-> "look"]
      BY <2>1 DEF Choose
    <3>2. delivery' = delivery
      BY <2>1 DEF Choose
    <3>3. \A m \in Followups : adm'.client = m => delivery'[m] = "ensure"
      BY <2>1, <3>1, <3>2, SessionsAssumption DEF Choose, Waits
    <3> QED
      BY <1>1, <1>3, <1>8, <3>2, <3>3 DEF DeliveriesSound
  <2>2. ASSUME Look \/ OpenSession PROVE DeliveriesSound'
    <3>1. PICK stage : adm' = [adm EXCEPT !.at = stage]
      BY <2>2 DEF Look, OpenSession
    <3>2. adm # None /\ DOMAIN adm = {"client", "id", "at"} /\ delivery' = delivery
      BY <2>2 DEF Look, OpenSession, AdmAt, AdmissionSound
    <3>3. adm'.client = adm.client
      BY <3>1, <3>2
    <3> QED
      BY <1>1, <1>3, <1>4, <1>8, <3>2, <3>3 DEF DeliveriesSound
  <2>3. ASSUME Refused PROVE DeliveriesSound'
    <3>1. CASE adm.client = "recovery"
      BY <1>5, <1>8, <2>3, <3>1 DEF Refused
    <3>2. CASE adm.client # "recovery"
      <4>1. PICK f \in Followups : f = adm.client
        BY <2>3, <3>2 DEF Refused, AdmAt, AdmissionSound
      <4>2. delivery' = [delivery EXCEPT ![f] = "failed"] /\ adm' = None
        BY <2>3, <3>2, <4>1 DEF Refused, DeliveryAt
      <4> QED
        BY <1>6, <1>8, <4>2
    <3> QED
      BY <3>1, <3>2
  <2>4. ASSUME Admitted PROVE DeliveriesSound'
    <3>1. CASE adm.client = "recovery"
      BY <1>5, <1>8, <2>4, <3>1 DEF Admitted
    <3>2. CASE adm.client # "recovery"
      <4>1. PICK f \in Followups : f = adm.client
        BY <2>4, <3>2 DEF Admitted, AdmAt, AdmissionSound
      <4>2. delivery' = [delivery EXCEPT ![f] = "ready"] /\ adm' = None
        BY <2>4, <3>2, <4>1 DEF Admitted, DeliveryAt
      <4>3. delivery[f] = "ensure"
        BY <1>4, <2>4, <4>1 DEF Admitted, AdmAt
      <4>4. index' \in live'
        BY <2>4, IndexIn DEF Admitted, AdmAt, AdmissionSound, agents
      <4> QED
        BY <1>6, <1>8, <4>2, <4>3, <4>4
    <3> QED
      BY <3>1, <3>2
  <2>5. ASSUME NEW f \in Followups, Ask(f) PROVE DeliveriesSound'
    BY <1>6, <1>8, <2>5 DEF Ask, DeliveryAt
  <2>6. ASSUME NEW f \in Followups, Advance(f) PROVE DeliveriesSound'
    <3>1. PICK stage : stage = IF index \in live THEN "ready" ELSE "ensure"
      OBVIOUS
    <3>2. /\ delivery' = [delivery EXCEPT ![f] = stage] /\ UNCHANGED <<index, live, adm>>
          /\ delivery[f] = "asked"
      BY <2>6, <3>1 DEF Advance, DeliveryAt, agents
    <3>3. briefs'[f] = Brief[f]
      <4>1. f \in DOMAIN briefs
        BY DEF DeliveriesSound, Messages
      <4> QED
        BY <2>6, <4>1 DEF Advance, WriteBrief
    <3>4. stage = "ensure" \/ (stage = "ready" /\ index' \in live')
      BY <3>1, <3>2
    <3> QED
      BY <1>6, <1>8, <3>2, <3>3, <3>4
  <2>7. ASSUME NEW f \in Followups, Send(f) PROVE DeliveriesSound'
    <3>1. PICK stage : /\ delivery' = [delivery EXCEPT ![f] = stage]
                       /\ (stage = "wait" \/ (stage = "flush" /\ Ran(log[index], f) /\ log' = log))
      BY <2>7 DEF Send, DeliveryAt
    <3>2. delivery[f] = "ready" /\ UNCHANGED <<adm, index, live>>
      BY <2>7 DEF Send
    <3>3. stage = "flush" => Ran(log'[index'], f)
      BY <3>1, <3>2
    <3> QED
      BY <1>6, <1>8, <3>1, <3>2, <3>3
  <2>8. ASSUME NEW f \in Followups, TimeOut(f) PROVE DeliveriesSound'
    BY <1>6, <1>8, <2>8 DEF TimeOut, DeliveryAt
  <2>9. ASSUME NEW f \in Followups, FlushDelivery(f) PROVE DeliveriesSound'
    <3>1. /\ delivery[f] = "flush" /\ delivery' = [delivery EXCEPT ![f] = "done"] /\ adm' = adm
          /\ Flush(index) /\ UNCHANGED <<log, scope, live>>
      BY <2>9 DEF FlushDelivery, DeliveryAt, agents
    <3>2. index \in Ids /\ Ran(log[index], f)
      BY <3>1, IndexIn DEF DeliveriesSound, DeliverySound
    <3>3. PICK i \in DOMAIN log[index] : log[index][i] = Took(f)
      BY <3>2 DEF Ran, Takes
    <3>4. kept'[index] = Len(log[index]) /\ log'[index] = log[index] /\ LogsSound'
      BY <3>1, <3>2, FlushSound
    <3>5. i \in 1..kept'[index]
      BY <3>2, <3>4 DEF LogsSound
    <3>6. \E id \in Ids : \E j \in 1..kept'[id] : log'[id][j] = Took(f)
      BY <3>2, <3>3, <3>4, <3>5
    <3>7. Delivered(f)'
      BY <3>4, <3>6, RanOnDiskNext
    <3> QED
      BY <1>6, <1>8, <3>1, <3>7
  <2>10. ASSUME NEW id \in Ids, TakeMessage(id) PROVE DeliveriesSound'
    <3>1. PICK n : n = Head(Inbox(log[id]))
      OBVIOUS
    <3>2. /\ AppendLog(id, <<Took(n)>>) /\ id \in live /\ UNCHANGED <<adm, index, live>>
          /\ delivery' = [f \in Followups |->
                           IF f = n /\ delivery[f] = "wait" /\ ~Contradicts(id, log'[id])
                           THEN "flush" ELSE delivery[f]]
      BY <2>10, <3>1 DEF TakeMessage
    <3>3. id = index
      BY <3>2, IndexIn
    <3>4. Ran(log'[index'], n)
      <4>1. log'[id] = log[id] \o <<Took(n)>> /\ log[id] \in Seq(Events)
        BY <3>2, Grown DEF LogsSound
      <4>2. Len(log[id]) + 1 \in DOMAIN log'[id] /\ log'[id][Len(log[id]) + 1] = Took(n)
        BY <4>1
      <4> QED
        BY <3>2, <3>3, <4>2 DEF Ran, Takes
    <3>5. ASSUME NEW m \in Followups PROVE DeliverySound(m)'
      <4>1. \/ delivery'[m] = delivery[m]
            \/ delivery[m] = "wait" /\ delivery'[m] = "flush" /\ Ran(log'[index'], m)
        BY <3>2, <3>4
      <4>2. CASE delivery'[m] = delivery[m]
        BY <1>3, <1>4, <1>8, <3>2, <4>2
      <4>3. CASE delivery[m] = "wait" /\ delivery'[m] = "flush" /\ Ran(log'[index'], m)
        BY <1>3, <1>4, <1>8, <3>2, <4>3
      <4> QED
        BY <4>1, <4>2, <4>3
    <3> QED
      BY <1>1, <3>2, <3>5 DEF DeliveriesSound
  <2>11. ASSUME NEW id \in Ids, StartTurn(id) \/ EndTurn(id) \/ NativeBind(id) PROVE DeliveriesSound'
    BY <1>5, <1>8, <2>11 DEF StartTurn, EndTurn, NativeBind
  <2>12. ASSUME NEW x, BeginEmit(x) \/ Authorize(x) \/ EndEmit PROVE DeliveriesSound'
    BY <1>5, <1>8, <2>12 DEF BeginEmit, Authorize, EndEmit
  <2>13. ASSUME RecoverLook \/ RecoverInspect \/ RecoverFails \/ RecoverSend \/ RecoverBrief \/ RecoverFollow
         PROVE  DeliveriesSound'
    BY <1>5, <1>8, <2>13
    DEF RecoverLook, RecoverInspect, RecoverFails, RecoverSend, RecoverBrief, RecoverFollow
  <2> QED
    BY <1>8, <2>1, <2>2, <2>3, <2>4, <2>5, <2>6, <2>7, <2>8, <2>9, <2>10, <2>11, <2>12, <2>13
    DEF Next, AgentStep, HostStep, World
<1> QED
  BY <1>7, <1>8

-----------------------------------------------------------------------------
(***************************************************************************)
(* Outputs and what they are granted.                                       *)
(***************************************************************************)
\* What was checked of a log stays what it was, unless it is lost with the host.
LEMMA PrefixStays ==
  ASSUME SessionInv, Next, ~Crash, NEW id \in Ids, NEW n \in 0..Len(log[id])
  PROVE  SubSeq(log'[id], 1, n) = SubSeq(log[id], 1, n) /\ n \in 0..Len(log'[id])
<1>1. log[id] \in Seq(Events) /\ n \in Int /\ n <= Len(log[id])
  BY DEF SessionInv, LogsSound
<1>2. PICK s \in Seq(Events) : log'[id] = log[id] \o s
  BY LogStep
<1>3. /\ log'[id] \in Seq(Events) /\ n <= Len(log'[id]) /\ Len(log'[id]) \in Nat
      /\ \A i \in 1..Len(log[id]) : log'[id][i] = log[id][i]
  BY <1>1, <1>2, Extended
<1>4. \A i \in 1..n : log'[id][i] = log[id][i]
  BY <1>1, <1>3
<1>5. PICK p : p = SubSeq(log'[id], 1, n)
  OBVIOUS
<1>6. PICK q : q = SubSeq(log[id], 1, n)
  OBVIOUS
<1>7. /\ p \in Seq(Events) /\ Len(p) = (IF 1 <= n THEN n ELSE 0) /\ DOMAIN p = 1..n
      /\ \A i \in 1..n : p[i] = log'[id][i]
  BY <1>1, <1>3, <1>5, CutShort
<1>8. /\ q \in Seq(Events) /\ Len(q) = (IF 1 <= n THEN n ELSE 0) /\ DOMAIN q = 1..n
      /\ \A i \in 1..n : q[i] = log[id][i]
  BY <1>1, <1>6, CutShort
<1>9. Len(p) = Len(q) /\ \A i \in 1..Len(p) : p[i] = q[i]
  BY <1>1, <1>4, <1>7, <1>8
<1>10. p = q
  BY <1>7, <1>8, <1>9, SeqEqual
<1> QED
  BY <1>1, <1>3, <1>5, <1>6, <1>10

\* An output begins, passes its check, is recorded, or stays where it is.
LEMMA EmitStep ==
  ASSUME SessionInv, Next
  PROVE  \/ emit' = emit /\ ~Crash
         \/ emit' = Quiet \/ \E id \in Ids : emit' = [at |-> "look", by |-> id]
         \/ \E contract \in Contracts :
              /\ emit.at = "look" /\ emit' = Checked(emit.by, contract) /\ UNCHANGED <<log, briefs>>
              /\ scope[emit.by] # None /\ contract \in scope[emit.by].grants
         \/ /\ emit.at = "append" /\ emit' = [emit EXCEPT !.at = "said"]
            /\ UNCHANGED <<log, briefs>>
<1>1. ASSUME Crash \/ Stop PROVE emit' = Quiet
  BY <1>1, RestartStep
<1>2. ASSUME NEW id \in Ids, BeginEmit(id) PROVE emit' = [at |-> "look", by |-> id]
  BY <1>2 DEF BeginEmit
<1>3. ASSUME NEW contract \in Contracts, Authorize(contract)
      PROVE  \/ emit' = Quiet
             \/ /\ emit.at = "look" /\ emit' = Checked(emit.by, contract) /\ UNCHANGED <<log, briefs>>
                /\ scope[emit.by] # None /\ contract \in scope[emit.by].grants
  BY <1>3 DEF Authorize, HasScope, durable
<1>4. ASSUME EndEmit
      PROVE  \/ emit' = Quiet
             \/ /\ emit.at = "append" /\ emit' = [emit EXCEPT !.at = "said"]
                /\ UNCHANGED <<log, briefs>>
  BY <1>4 DEF EndEmit, durable
<1>5. ASSUME NEW id \in Ids, StartTurn(id) \/ TakeMessage(id) \/ EndTurn(id) \/ NativeBind(id)
      PROVE  emit' = emit \/ emit' = Quiet
  BY <1>5 DEF StartTurn, TakeMessage, EndTurn, NativeBind
<1>6. ASSUME NEW x, Choose(x) PROVE emit' = emit
  BY <1>6 DEF Choose
<1>7. ASSUME Look \/ OpenSession \/ Refused \/ Admitted PROVE emit' = emit
  BY <1>7 DEF Look, OpenSession, Refused, Admitted
<1>8. ASSUME NEW m \in Followups, Advance(m) \/ Send(m) \/ TimeOut(m) \/ FlushDelivery(m) \/ Ask(m)
      PROVE  emit' = emit
  BY <1>8 DEF Advance, Send, TimeOut, FlushDelivery, Ask
<1>9. ASSUME RecoverLook \/ RecoverInspect \/ RecoverFails \/ RecoverSend \/ RecoverBrief \/ RecoverFollow
      PROVE  emit' = emit
  BY <1>9 DEF RecoverLook, RecoverInspect, RecoverFails, RecoverSend, RecoverBrief, RecoverFollow
<1>10. CASE Crash
  BY <1>1, <1>10
<1>11. CASE ~Crash
  BY <1>1, <1>2, <1>3, <1>4, <1>5, <1>6, <1>7, <1>8, <1>9, <1>11 DEF Next, AgentStep, HostStep, World
<1> QED
  BY <1>10, <1>11

LEMMA OutputsStep == ASSUME SessionInv, Next PROVE OutputsSound'
<1> USE DEF SessionInv
<1>1. /\ emit'.at \in {"look", "append", "said"} => emit'.by \in Ids
      /\ emit'.at \in {"append", "said"} => /\ DOMAIN emit' = {"at", "by", "contract", "upto"}
                                            /\ emit'.upto \in 0..Len(log'[emit'.by])
  <2>1. CASE emit' = emit /\ ~Crash
    <3>1. ASSUME emit.at \in {"append", "said"} PROVE emit.upto \in 0..Len(log'[emit.by])
      BY <2>1, <3>1, PrefixStays DEF OutputsSound
    <3> QED
      BY <2>1, <3>1 DEF OutputsSound
  <2>2. CASE emit' = Quiet \/ \E id \in Ids : emit' = [at |-> "look", by |-> id]
    BY <2>2 DEF Quiet
  <2>3. ASSUME NEW contract \in Contracts, emit.at = "look", emit' = Checked(emit.by, contract), log' = log
        PROVE  /\ emit'.by \in Ids /\ DOMAIN emit' = {"at", "by", "contract", "upto"}
               /\ emit'.upto \in 0..Len(log'[emit'.by])
    <3>1. emit.by \in Ids /\ log[emit.by] \in Seq(Events)
      BY <2>3 DEF OutputsSound, LogsSound
    <3>2. Len(log[emit.by]) \in Nat
      BY <3>1
    <3> QED
      BY <2>3, <3>1, <3>2 DEF Checked
  <2>4. CASE emit.at = "append" /\ emit' = [emit EXCEPT !.at = "said"] /\ log' = log
    BY <2>4 DEF OutputsSound
  <2> QED
    BY <2>1, <2>2, <2>3, <2>4, EmitStep
<1>2. \A id \in Ids : scope'[id] # None => DOMAIN scope'[id] = {"turn", "grants"}
  <2> DEFINE Goal == \A id \in Ids : scope'[id] # None => DOMAIN scope'[id] = {"turn", "grants"}
  <2>0. DOMAIN scope = Ids
    BY DEF LogsSound
  <2>1. ASSUME scope' = scope PROVE Goal
    BY <2>1 DEF OutputsSound
  <2>2. ASSUME NEW j \in Ids, NEW now, scope' = [scope EXCEPT ![j] = now],
               now # None => DOMAIN now = {"turn", "grants"}
        PROVE  Goal
    BY <2>0, <2>2 DEF OutputsSound
  <2>3. ASSUME NEW j \in Ids, StartTurn(j) PROVE Goal
    <3>1. PICK t : t = Turn(log'[j])
      OBVIOUS
    <3>2. scope' = [scope EXCEPT ![j] =
            IF j = index THEN [turn |-> t, grants |-> IF prepared THEN Generic ELSE {}] ELSE None]
      BY <2>3, <3>1 DEF StartTurn, BeginTurn
    <3> QED
      BY <2>2, <3>2
  <2>4. ASSUME NEW j \in Ids, TakeMessage(j) PROVE Goal
    <3>1. PICK specific : scope' = [scope EXCEPT ![j] =
            IF scope[j] = None \/ specific = {} THEN scope[j]
            ELSE IF Contradicts(j, log'[j]) THEN None
            ELSE [scope[j] EXCEPT !.grants = UNION specific]]
      BY <2>4 DEF TakeMessage, ApplyMessageBrief
    <3>2. PICK now : now = IF scope[j] = None \/ specific = {} THEN scope[j]
                           ELSE IF Contradicts(j, log'[j]) THEN None
                           ELSE [scope[j] EXCEPT !.grants = UNION specific]
      OBVIOUS
    <3>3. now # None => DOMAIN now = {"turn", "grants"}
      BY <3>2 DEF OutputsSound
    <3> QED
      BY <2>2, <3>1, <3>2, <3>3
  <2>5. ASSUME NEW j \in Ids, EndTurn(j) PROVE Goal
    BY <2>2, <2>5 DEF EndTurn, EndScope
  <2>6. ASSUME Crash \/ Stop PROVE Goal
    BY <2>6, RestartStep
  <2>7. ASSUME NEW x, Choose(x) \/ BeginEmit(x) \/ Authorize(x) \/ EndEmit \/ NativeBind(x) PROVE Goal
    BY <2>1, <2>7 DEF Choose, BeginEmit, Authorize, EndEmit, NativeBind, agents
  <2>8. ASSUME Look \/ OpenSession \/ Refused \/ Admitted PROVE Goal
    BY <2>1, <2>8 DEF Look, OpenSession, Refused, Admitted, agents
  <2>9. ASSUME NEW m \in Followups, Advance(m) \/ Send(m) \/ TimeOut(m) \/ FlushDelivery(m) \/ Ask(m)
        PROVE Goal
    BY <2>1, <2>9 DEF Advance, Send, TimeOut, FlushDelivery, Ask, agents
  <2>10. ASSUME RecoverLook \/ RecoverInspect \/ RecoverFails \/ RecoverSend \/ RecoverBrief \/ RecoverFollow
         PROVE  Goal
    BY <2>1, <2>10
    DEF RecoverLook, RecoverInspect, RecoverFails, RecoverSend, RecoverBrief, RecoverFollow, agents
  <2> HIDE DEF Goal
  <2>11. Goal
    BY <2>3, <2>4, <2>5, <2>6, <2>7, <2>8, <2>9, <2>10 DEF Next, AgentStep, HostStep, World
  <2> QED
    BY <2>11 DEF Goal
<1> QED
  BY <1>1, <1>2 DEF OutputsSound

\* No brief of a message that a log has changes any more.
LEMMA SentKept == ASSUME SessionInv, Next, NEW m, Sent(m) PROVE briefs'[m] = briefs[m]
<1> USE DEF SessionInv
<1>1. CASE m \in Followups
  BY <1>1, BriefsStay DEF Sent
<1>2. CASE m \notin Followups
  <2>1. /\ m \in Messages /\ m \in Notices /\ (m = Continuation[restarts] => rec.at = "over")
        /\ DOMAIN briefs = Messages
    BY <1>2 DEF Sent, Messages, DeliveriesSound
  <2>2. CASE RecoverBrief
    <3>1. PICK n : n = Notice
      OBVIOUS
    <3>2. rec.at = "act" /\ (UNCHANGED briefs \/ \E g : briefs' = [briefs EXCEPT ![n] = g])
      BY <2>2, <3>1 DEF RecoverBrief, RecAt, WriteBrief
    <3>3. m # n
      BY <2>1, <3>1, <3>2 DEF Notice
    <3> QED
      BY <2>1, <3>2, <3>3
  <2>3. ASSUME NEW f \in Followups, Advance(f) PROVE briefs'[m] = briefs[m]
    BY <1>2, <2>1, <2>3 DEF Advance, WriteBrief
  <2>4. ASSUME NEW id \in Ids, StartTurn(id) \/ TakeMessage(id) \/ EndTurn(id) \/ NativeBind(id)
        PROVE  briefs'[m] = briefs[m]
    BY <2>4 DEF StartTurn, TakeMessage, EndTurn, NativeBind
  <2>5. ASSUME NEW x, Choose(x) \/ BeginEmit(x) \/ Authorize(x) \/ EndEmit PROVE briefs'[m] = briefs[m]
    BY <2>5 DEF Choose, BeginEmit, Authorize, EndEmit, durable
  <2>6. ASSUME Look \/ OpenSession \/ Refused \/ Admitted PROVE briefs'[m] = briefs[m]
    BY <2>6 DEF Look, OpenSession, Refused, Admitted, durable
  <2>7. ASSUME NEW f \in Followups, Send(f) \/ TimeOut(f) \/ FlushDelivery(f) \/ Ask(f)
        PROVE  briefs'[m] = briefs[m]
    BY <2>7 DEF Send, TimeOut, FlushDelivery, Ask, durable
  <2>8. ASSUME RecoverLook \/ RecoverInspect \/ RecoverFails \/ RecoverSend \/ RecoverFollow
        PROVE  briefs'[m] = briefs[m]
    BY <2>8 DEF RecoverLook, RecoverInspect, RecoverFails, RecoverSend, RecoverFollow, durable
  <2>9. ASSUME Crash \/ Stop PROVE briefs'[m] = briefs[m]
    BY <2>9 DEF Crash, Stop, Restart
  <2> QED
    BY <2>2, <2>3, <2>4, <2>5, <2>6, <2>7, <2>8, <2>9 DEF Next, AgentStep, HostStep, World
<1> QED
  BY <1>1, <1>2

LEMMA MessagesReceived ==
  ASSUME NEW l, NEW t, NEW m \in MessagesForTurn(l, t)
  PROVE  m \in Messages /\ HasReceipt(l, m)
BY DEF MessagesForTurn, Takes, HasReceipt

Grant(id) ==
  scope[id] # None =>
    LET specific == BriefsFor(log[id], Turn(log[id])) IN
    /\ id \in live /\ Open(log[id]) /\ scope[id].turn = Turn(log[id])
    /\ Agree(UNION specific)
    /\ IF specific = {} THEN scope[id].grants \subseteq Generic
       ELSE scope[id].grants = UNION specific

LEMMA GrantNow ==
  ASSUME NEW id \in Ids, NEW l, NEW t, NEW specific, l = log'[id], t = Turn(l),
         specific = {briefs'[m] : m \in MessagesForTurn(l, t)} \ {None},
         scope'[id] # None =>
           /\ id \in live' /\ Open(l) /\ scope'[id].turn = t
           /\ Agree(UNION specific)
           /\ IF specific = {} THEN scope'[id].grants \subseteq Generic
              ELSE scope'[id].grants = UNION specific
  PROVE  Grant(id)'
BY DEF Grant, BriefsFor

\* The briefs of the messages in a log stay what they are.
LEMMA SpecificStays ==
  ASSUME SessionInv, Next, NEW id \in Ids, NEW t
  PROVE  {briefs'[m] : m \in MessagesForTurn(log[id], t)} = {briefs[m] : m \in MessagesForTurn(log[id], t)}
<1>1. ASSUME NEW m \in MessagesForTurn(log[id], t) PROVE briefs'[m] = briefs[m]
  <2>1. m \in Messages /\ HasReceipt(log[id], m)
    BY MessagesReceived
  <2>2. Sent(m)
    BY <2>1 DEF SessionInv, LoggedSent
  <2> QED
    BY <2>2, SentKept
<1> QED
  BY <1>1

LEMMA GrantStays ==
  ASSUME SessionInv, Next, NEW id \in Ids, scope'[id] = scope[id], id \in live => id \in live',
         NEW s \in Seq(Events), log'[id] = log[id] \o s,
         \A i \in 1..Len(s) : s[i].kind \notin {"start", "end", "message"}
  PROVE  Grant(id)'
<1>1. CASE scope[id] = None
  BY <1>1 DEF Grant
<1>2. CASE scope[id] # None
  <2>1. PICK l : l = log[id]
    OBVIOUS
  <2>2. PICK l2 : l2 = log'[id]
    OBVIOUS
  <2>3. l \in Seq(Events) /\ Balanced(l) /\ l2 = l \o s
    BY <2>1, <2>2 DEF SessionInv, LogsSound
  <2>4. Turn(l2) = Turn(l) /\ Open(l2) = Open(l)
    BY <2>3, ExtendedQuietly
  <2>5. PICK t : t = Turn(l)
    OBVIOUS
  <2>6. MessagesForTurn(l2, t) = MessagesForTurn(l, t)
    BY <2>3, MessagesExtended
  <2>7. PICK specific : specific = {briefs[m] : m \in MessagesForTurn(l, t)} \ {None}
    OBVIOUS
  <2>8. specific = {briefs'[m] : m \in MessagesForTurn(l2, t)} \ {None}
    BY <2>1, <2>6, <2>7, SpecificStays
  <2>9. /\ id \in live /\ Open(l) /\ scope[id].turn = t
        /\ Agree(UNION specific)
        /\ IF specific = {} THEN scope[id].grants \subseteq Generic
           ELSE scope[id].grants = UNION specific
    BY <1>2, <2>1, <2>5, <2>7 DEF SessionInv, GrantsFollowMessages, BriefsFor
  <2>10. t = Turn(l2) /\ Open(l2)
    BY <2>4, <2>5, <2>9
  <2> QED
    BY <2>2, <2>8, <2>9, <2>10, GrantNow
<1> QED
  BY <1>1, <1>2

LEMMA GrantSame ==
  ASSUME SessionInv, Next, NEW id \in Ids, scope'[id] = scope[id], id \in live => id \in live',
         log'[id] = log[id]
  PROVE  Grant(id)'
<1>1. PICK s \in Seq(Events) : s = <<>>
  <2>1. <<>> \in Seq(Events)
    OBVIOUS
  <2> QED
    BY <2>1
<1>2. log'[id] = log[id] \o s
  BY <1>1, ConcatEmptySeq DEF SessionInv, LogsSound
<1>3. \A i \in 1..Len(s) : s[i].kind \notin {"start", "end", "message"}
  BY <1>1
<1> QED
  BY <1>2, <1>3, GrantStays

\* A turn starts with the generic brief.
LEMMA GrantStarts ==
  ASSUME SessionInv, NEW id \in Ids, StartTurn(id)
  PROVE  Grant(id)'
<1>1. PICK l : l = log'[id]
  OBVIOUS
<1>2. PICK l0 : l0 = log[id]
  OBVIOUS
<1>3. l = l0 \o <<Start>> /\ l0 \in Seq(Events) /\ Balanced(l0) /\ DOMAIN scope = Ids
  BY <1>1, <1>2, Grown DEF StartTurn, SessionInv, LogsSound
<1>4. Start \in Events /\ Start.kind = "start"
  BY EventKinds
<1>5. Turn(l) = Turn(l0) + 1 /\ Count(l, "end") = Count(l0, "end") /\ Turn(l0) \in Nat
      /\ Count(l0, "end") \in Nat /\ Count(l0, "end") <= Turn(l0)
  BY <1>3, <1>4, ExtendedOne
<1>6. Open(l)
  BY <1>5 DEF Open
<1>7. PICK t : t = Turn(l)
  OBVIOUS
<1>8. MessagesForTurn(l, t) = {}
  BY <1>3, <1>7, MessagesStarted
<1>9. PICK specific : specific = {briefs'[m] : m \in MessagesForTurn(l, t)} \ {None}
  OBVIOUS
<1>10. specific = {}
  BY <1>8, <1>9
<1>11. Agree(UNION specific)
  BY <1>10 DEF Agree
<1>12. scope'[id] = IF id = index THEN [turn |-> t, grants |-> IF prepared THEN Generic ELSE {}]
                    ELSE None
  BY <1>1, <1>3, <1>7 DEF StartTurn, BeginTurn
<1>13. scope'[id] # None => scope'[id].turn = t /\ scope'[id].grants \subseteq Generic
  BY <1>12
<1>14. id \in live'
  BY DEF StartTurn
<1> QED
  BY <1>1, <1>6, <1>7, <1>9, <1>10, <1>11, <1>13, <1>14, GrantNow

\* With a message, the turn's grants are merged anew.
LEMMA GrantTakes ==
  ASSUME SessionInv, NEW id \in Ids, TakeMessage(id)
  PROVE  Grant(id)'
<1>1. PICK l : l = log'[id]
  OBVIOUS
<1>2. PICK l0 : l0 = log[id]
  OBVIOUS
<1>3. PICK m : m = Head(Inbox(l0))
  OBVIOUS
<1>4. /\ AppendLog(id, <<Took(m)>>) /\ ApplyMessageBrief(id, l, m) /\ Inbox(l0) # <<>>
      /\ UNCHANGED <<briefs, live>> /\ Open(l0) /\ id \in live
  BY <1>1, <1>2, <1>3 DEF TakeMessage
<1>5. l = l0 \o <<Took(m)>> /\ l0 \in Seq(Events) /\ Balanced(l0) /\ DOMAIN scope = Ids
  BY <1>1, <1>2, <1>4, Grown DEF SessionInv, LogsSound
<1>6. m \in Messages
  BY <1>3, <1>4, <1>5, HeadQueued
<1>7. Turn(l) = Turn(l0) /\ MessagesForTurn(l, Turn(l0)) = MessagesForTurn(l0, Turn(l0)) \cup {m}
  BY <1>5, <1>6, MessagesTaken
<1>8. Open(l)
  <2>1. Took(m) \in Events /\ Took(m).kind = "message"
    BY <1>6, EventKinds
  <2>2. Count(l, "end") = Count(l0, "end") /\ Turn(l) = Turn(l0)
    BY <1>5, <1>7, <2>1, ExtendedOne
  <2> QED
    BY <1>4, <2>2 DEF Open
<1>9. PICK t : t = Turn(l0)
  OBVIOUS
<1>10. PICK old : old = BriefsFor(l0, t)
  OBVIOUS
<1>11. PICK specific : specific = BriefsFor(l, t)
  OBVIOUS
<1>12. old \subseteq specific /\ specific = {briefs'[n] : n \in MessagesForTurn(l, t)} \ {None}
  BY <1>4, <1>7, <1>9, <1>10, <1>11 DEF BriefsFor
<1>13. CASE scope[id] = None
  <2>1. scope'[id] = None
    BY <1>4, <1>5, <1>13 DEF ApplyMessageBrief
  <2> QED
    BY <2>1 DEF Grant
<1>14. CASE scope[id] # None
  <2>1. /\ scope[id].turn = t
        /\ IF old = {} THEN scope[id].grants \subseteq Generic
           ELSE scope[id].grants = UNION old
        /\ DOMAIN scope[id] = {"turn", "grants"}
    BY <1>2, <1>9, <1>10, <1>14 DEF SessionInv, GrantsFollowMessages, OutputsSound
  <2>2. scope'[id] = IF specific = {} THEN scope[id]
                     ELSE IF ~Agree(UNION specific) THEN None
                     ELSE [scope[id] EXCEPT !.grants = UNION specific]
    BY <1>4, <1>5, <1>11, <1>14, <2>1 DEF ApplyMessageBrief, Contradicts
  <2>3. CASE specific = {}
    <3>1. old = {} /\ Agree(UNION specific)
      BY <1>12, <2>3 DEF Agree
    <3>2. scope'[id] = scope[id] /\ scope'[id].grants \subseteq Generic /\ scope'[id].turn = t
      BY <2>1, <2>2, <2>3, <3>1
    <3> QED
      BY <1>1, <1>4, <1>7, <1>8, <1>9, <1>12, <2>3, <3>1, <3>2, GrantNow
  <2>4. CASE specific # {} /\ ~Agree(UNION specific)
    BY <2>2, <2>4 DEF Grant
  <2>5. CASE specific # {} /\ Agree(UNION specific)
    <3>1. scope'[id].turn = t /\ scope'[id].grants = UNION specific
      BY <2>1, <2>2, <2>5
    <3> QED
      BY <1>1, <1>4, <1>7, <1>8, <1>9, <1>12, <2>5, <3>1, GrantNow
  <2> QED
    BY <2>3, <2>4, <2>5
<1> QED
  BY <1>13, <1>14

LEMMA GrantsStep == ASSUME SessionInv, Next PROVE GrantsFollowMessages'
<1> DEFINE Goal == \A id \in Ids : Grant(id)'
<1> USE DEF SessionInv
<1>0. DOMAIN scope = Ids /\ DOMAIN log = Ids
  BY DEF LogsSound
<1>1. ASSUME UNCHANGED <<log, scope>>, live \subseteq live' PROVE Goal
  BY <1>1, GrantSame
<1>2. ASSUME NEW j \in Ids, StartTurn(j) PROVE Goal
  <2>1. \A i \in Ids : i # j => scope'[i] = scope[i] /\ log'[i] = log[i]
    BY <1>0, <1>2, Grown DEF StartTurn, BeginTurn
  <2>2. live' = live
    BY <1>2 DEF StartTurn
  <2> QED
    BY <1>2, <2>1, <2>2, GrantSame, GrantStarts
<1>3. ASSUME NEW j \in Ids, TakeMessage(j) PROVE Goal
  <2>1. \A i \in Ids : i # j => scope'[i] = scope[i] /\ log'[i] = log[i]
    BY <1>0, <1>3, Grown DEF TakeMessage, ApplyMessageBrief
  <2>2. live' = live
    BY <1>3 DEF TakeMessage
  <2> QED
    BY <1>3, <2>1, <2>2, GrantSame, GrantTakes
<1>4. ASSUME NEW j \in Ids, EndTurn(j) PROVE Goal
  <2>1. \A i \in Ids : i # j => scope'[i] = scope[i] /\ log'[i] = log[i]
    BY <1>0, <1>4, Grown DEF EndTurn, EndScope
  <2>2. live' = live /\ scope'[j] = None
    BY <1>0, <1>4 DEF EndTurn, EndScope
  <2>3. Grant(j)'
    BY <2>2 DEF Grant
  <2> QED
    BY <2>1, <2>2, <2>3, GrantSame
<1>5. ASSUME Crash \/ Stop PROVE Goal
  <2>1. \A id \in Ids : scope'[id] = None
    BY <1>5, RestartStep
  <2> QED
    BY <2>1 DEF Grant
<1>6. ASSUME NEW messages \in Seq(Messages), index \in live, Wake(index, messages), UNCHANGED <<scope, live>>
      PROVE  Goal
  <2>1. index \in Ids
    BY <1>6, IndexIn
  <2>2. PICK s \in Seq(Events) : AppendLog(index, s) /\ \A i \in 1..Len(s) : s[i].kind = "queued"
    BY <1>6, WakeAppends
  <2>3. log'[index] = log[index] \o s /\ \A i \in Ids : i # index => log'[i] = log[i]
    BY <2>1, <2>2, Grown
  <2>4. ASSUME NEW id \in Ids PROVE Grant(id)'
    <3>1. CASE id = index
      <4>1. log'[id] = log[id] \o s /\ scope'[id] = scope[id] /\ live' = live
        BY <1>6, <2>3, <3>1
      <4> QED
        BY <2>2, <4>1, GrantStays
    <3>2. CASE id # index
      BY <1>6, <2>3, <3>2, GrantSame
    <3> QED
      BY <3>1, <3>2
  <2> QED
    BY <2>4
<1>7. ASSUME NEW m \in Followups, Send(m) PROVE Goal
  <2>1. index \in live /\ <<m>> \in Seq(Messages) /\ UNCHANGED <<scope, live>>
    BY <1>7 DEF Send, DeliveriesSound, DeliverySound, Messages
  <2>2. log' = log \/ Wake(index, <<m>>)
    BY <1>7 DEF Send
  <2> QED
    BY <1>1, <1>6, <2>1, <2>2
<1>8. ASSUME RecoverSend PROVE Goal
  <2>1. index \in live /\ rec.send \in Seq(Messages)
    BY <1>8 DEF RecoverSend, RecAt, RecoverySound
  <2> QED
    BY <1>6, <1>8, <2>1 DEF RecoverSend
<1>9. ASSUME RecoverFollow PROVE Goal
  <2>1. index \in live /\ <<Notice>> \in Seq(Messages)
    BY <1>9, NoticeIs DEF RecoverFollow, RecAt, RecoverySound
  <2> QED
    BY <1>6, <1>9, <2>1 DEF RecoverFollow
<1>10. ASSUME OpenSession PROVE Goal
  <2>1. PICK j \in Ids : j = adm.id /\ j \notin live
    BY <1>10 DEF OpenSession, AdmAt, AdmissionSound
  <2>2. scope[j] = None
    BY <2>1 DEF GrantsFollowMessages
  <2>3. /\ log' = [log EXCEPT ![j] = Closed(@)] /\ scope' = scope /\ live \subseteq live'
    BY <1>10, <2>1 DEF OpenSession, Bind
  <2>4. \A i \in Ids : i # j => log'[i] = log[i]
    BY <1>0, <2>3
  <2>5. Grant(j)'
    BY <2>2, <2>3 DEF Grant
  <2> QED
    BY <2>3, <2>4, <2>5, GrantSame
<1>11. ASSUME NEW x, Choose(x) \/ BeginEmit(x) \/ Authorize(x) \/ EndEmit \/ NativeBind(x) PROVE Goal
  BY <1>1, <1>11 DEF Choose, BeginEmit, Authorize, EndEmit, NativeBind, Bind, agents, durable
<1>12. ASSUME Look \/ Refused \/ Admitted PROVE Goal
  BY <1>1, <1>12 DEF Look, Refused, Admitted, agents, durable
<1>13. ASSUME NEW m \in Followups, Advance(m) \/ TimeOut(m) \/ FlushDelivery(m) \/ Ask(m) PROVE Goal
  BY <1>1, <1>13 DEF Advance, TimeOut, FlushDelivery, Ask, agents, durable
<1>14. ASSUME RecoverLook \/ RecoverInspect \/ RecoverFails \/ RecoverBrief PROVE Goal
  BY <1>1, <1>14 DEF RecoverLook, RecoverInspect, RecoverFails, RecoverBrief, agents, durable
<1> HIDE DEF Goal
<1>15. Goal
  BY <1>2, <1>3, <1>4, <1>5, <1>7, <1>8, <1>9, <1>10, <1>11, <1>12, <1>13, <1>14
  DEF Next, AgentStep, HostStep, World
<1> QED
  BY <1>15 DEF Goal, Grant, GrantsFollowMessages

\* What passed its check stays what the log, up to the check, grants.
GrantedIn(l, contract) ==
  LET specific == BriefsFor(l, Turn(l)) IN
  /\ Open(l) /\ Agree(UNION specific)
  /\ contract \in IF specific = {} THEN Generic ELSE UNION specific

LEMMA GrantedStays ==
  ASSUME SessionInv, Next, NEW id \in Ids, NEW n \in 0..Len(log[id]), NEW contract,
         NEW l, l = SubSeq(log[id], 1, n), GrantedIn(l, contract)
  PROVE  GrantedIn(l, contract)'
<1>1. PICK t : t = Turn(l)
  OBVIOUS
<1>2. ASSUME NEW m \in MessagesForTurn(l, t) PROVE briefs'[m] = briefs[m]
  <2>1. m \in Messages /\ HasReceipt(l, m)
    BY MessagesReceived
  <2>2. HasReceipt(log[id], m)
    <3>1. log[id] \in Seq(Events) /\ n \in Int /\ n <= Len(log[id])
      BY DEF SessionInv, LogsSound
    <3>2. \A i \in DOMAIN l : i \in DOMAIN log[id] /\ l[i] = log[id][i]
      BY <3>1, CutShort
    <3> QED
      BY <2>1, <3>2 DEF HasReceipt
  <2> QED
    BY <2>1, <2>2, SentKept DEF SessionInv, LoggedSent
<1>3. PICK specific : specific = {briefs[m] : m \in MessagesForTurn(l, t)} \ {None}
  OBVIOUS
<1>4. specific = {briefs'[m] : m \in MessagesForTurn(l, t)} \ {None}
  BY <1>2, <1>3
<1>5. /\ Open(l) /\ Agree(UNION specific)
      /\ contract \in IF specific = {} THEN Generic ELSE UNION specific
  BY <1>1, <1>3 DEF GrantedIn, BriefsFor
<1> QED
  BY <1>1, <1>4, <1>5 DEF GrantedIn, BriefsFor

LEMMA EmitsStep == ASSUME SessionInv, Next PROVE EmitsAreGranted'
<1> DEFINE Held == emit.at \in {"append", "said"}
<1>1. ASSUME NEW id, NEW n, NEW contract, NEW l, l = SubSeq(log'[id], 1, n), GrantedIn(l, contract)',
             emit'.by = id, emit'.upto = n, emit'.contract = contract
      PROVE  EmitsAreGranted'
  BY <1>1 DEF EmitsAreGranted, GrantedIn
<1>2. ASSUME emit'.at \notin {"append", "said"} PROVE EmitsAreGranted'
  BY <1>2 DEF EmitsAreGranted
<1>3. ASSUME Held
      PROVE  /\ emit.by \in Ids /\ emit.upto \in 0..Len(log[emit.by])
             /\ GrantedIn(SubSeq(log[emit.by], 1, emit.upto), emit.contract)
  BY <1>3 DEF SessionInv, OutputsSound, EmitsAreGranted, GrantedIn
<1>4. ASSUME Held, SubSeq(log'[emit.by], 1, emit.upto) = SubSeq(log[emit.by], 1, emit.upto),
             emit'.by = emit.by, emit'.upto = emit.upto, emit'.contract = emit.contract
      PROVE  EmitsAreGranted'
  <2>1. PICK id \in Ids : id = emit.by
    BY <1>3, <1>4
  <2>2. PICK n \in 0..Len(log[id]) : n = emit.upto
    BY <1>3, <1>4, <2>1
  <2>3. PICK contract : contract = emit.contract
    OBVIOUS
  <2>4. PICK l : l = SubSeq(log[id], 1, n)
    OBVIOUS
  <2>5. GrantedIn(l, contract)
    BY <1>3, <1>4, <2>1, <2>2, <2>3, <2>4
  <2>6. GrantedIn(l, contract)'
    BY <2>4, <2>5, GrantedStays
  <2>7. l = SubSeq(log'[id], 1, n)
    BY <1>4, <2>1, <2>2, <2>4
  <2> QED
    BY <1>1, <1>4, <2>1, <2>2, <2>3, <2>6, <2>7
<1>5. CASE emit' = emit /\ ~Crash
  <2>1. CASE Held
    BY <1>3, <1>4, <1>5, <2>1, PrefixStays
  <2>2. CASE ~Held
    BY <1>2, <1>5, <2>2
  <2> QED
    BY <2>1, <2>2
<1>6. CASE emit' = Quiet \/ \E id \in Ids : emit' = [at |-> "look", by |-> id]
  BY <1>2, <1>6 DEF Quiet
<1>7. ASSUME NEW contract \in Contracts, emit.at = "look", emit' = Checked(emit.by, contract),
             UNCHANGED <<log, briefs>>, scope[emit.by] # None, contract \in scope[emit.by].grants
      PROVE  EmitsAreGranted'
  <2>1. PICK id \in Ids : id = emit.by
    BY <1>7 DEF SessionInv, OutputsSound
  <2>2. PICK l : l = log[id]
    OBVIOUS
  <2>3. l \in Seq(Events)
    BY <2>2 DEF SessionInv, LogsSound
  <2>4. l = SubSeq(log'[id], 1, Len(l))
    <3>1. PICK n \in Nat : n = Len(l) /\ DOMAIN l = 1..n
      BY <2>3
    <3>2. PICK q : q = SubSeq(l, 1, n)
      OBVIOUS
    <3>3. q \in Seq(Events) /\ Len(q) = n /\ \A i \in 1..n : q[i] = l[i]
      BY <2>3, <3>1, <3>2, CutShort
    <3>4. q = l
      BY <2>3, <3>1, <3>3, SeqEqual
    <3> QED
      BY <1>7, <2>2, <3>1, <3>2, <3>4
  <2>5. PICK specific : specific = BriefsFor(l, Turn(l))
    OBVIOUS
  <2>6. /\ Open(l) /\ Agree(UNION specific)
        /\ IF specific = {} THEN scope[id].grants \subseteq Generic
           ELSE scope[id].grants = UNION specific
    BY <1>7, <2>1, <2>2, <2>5 DEF SessionInv, GrantsFollowMessages
  <2>7. GrantedIn(l, contract)
    BY <1>7, <2>1, <2>5, <2>6 DEF GrantedIn
  <2>8. GrantedIn(l, contract)'
    BY <1>7, <2>7 DEF GrantedIn, BriefsFor
  <2>9. emit'.by = id /\ emit'.upto = Len(l) /\ emit'.contract = contract
    BY <1>7, <2>1, <2>2 DEF Checked
  <2> QED
    BY <1>1, <2>4, <2>8, <2>9
<1>8. CASE emit.at = "append" /\ emit' = [emit EXCEPT !.at = "said"] /\ UNCHANGED <<log, briefs>>
  <2>1. DOMAIN emit = {"at", "by", "contract", "upto"}
    BY <1>8 DEF SessionInv, OutputsSound
  <2>2. emit'.by = emit.by /\ emit'.upto = emit.upto /\ emit'.contract = emit.contract
    BY <1>8, <2>1
  <2> QED
    BY <1>4, <1>8, <2>2
<1> QED
  BY <1>5, <1>6, <1>7, <1>8, EmitStep

-----------------------------------------------------------------------------
(***************************************************************************)
(* The theorems.                                                            *)
(***************************************************************************)
LEMMA Initially == ASSUME Init PROVE SessionInv
<1>1. LogsSound
  <2>1. <<>> \in Seq(Events) /\ Len(<<>>) = 0
    OBVIOUS
  <2>2. Balanced(<<>>)
    <3>1. \A n \in 0..Len(<<>>) : n = 0
      OBVIOUS
    <3> QED
      BY <3>1, UpToZero DEF Balanced
  <2> QED
    BY <2>1, <2>2 DEF Init, LogsSound
<1>2. BindingSound /\ AdmissionSound
  BY DEF Init, BindingSound, AdmissionSound
<1>3. RecoverySound
  <2>1. rec = [at |-> "over", send |-> <<>>, again |-> {}] /\ restarts = 0
    BY DEF Init
  <2>2. rec.at = "over" /\ rec.send = <<>> /\ DOMAIN rec = {"at", "send", "again"}
    BY <2>1
  <2>3. rec.send \in Seq(Messages) /\ ToSet(rec.send) = {}
    BY <2>2 DEF ToSet
  <2>4. restarts \in 0..MaxRestarts
    BY <2>1, SessionsAssumption
  <2> QED
    BY <2>2, <2>3, <2>4 DEF RecoverySound
<1>4. DeliveriesSound
  BY DEF Init, DeliveriesSound, DeliverySound, Messages
<1>5. LoggedSent /\ TakenLast
  BY DEF Init, LoggedSent, HasReceipt, TakenLast, Takes
<1>6. OutputsSound /\ GrantsFollowMessages /\ EmitsAreGranted
  BY DEF Init, OutputsSound, Quiet, GrantsFollowMessages, EmitsAreGranted
<1> QED
  BY <1>1, <1>2, <1>3, <1>4, <1>5, <1>6 DEF SessionInv

LEMMA Stuttering == ASSUME SessionInv, UNCHANGED vars PROVE SessionInv'
<1> USE DEF SessionInv, vars, durable, agents, history
<1>1. LogsSound'
  BY DEF LogsSound
<1>2. BindingSound' /\ AdmissionSound'
  BY DEF BindingSound, AdmissionSound
<1>3. \A m : Sent(m) => Sent(m)'
  BY DEF Sent
<1>4. RecoverySound'
  BY <1>3 DEF RecoverySound
<1>5. DeliveriesSound'
  BY DEF DeliveriesSound, DeliverySound, OnDisk
<1>6. LoggedSent' /\ TakenLast'
  BY <1>3 DEF LoggedSent, TakenLast
<1>7. OutputsSound'
  BY DEF OutputsSound
<1>8. GrantsFollowMessages'
  <2>1. ASSUME NEW id \in Ids PROVE Grant(id)'
    <3>1. PICK l : l = log[id]
      OBVIOUS
    <3>2. PICK t : t = Turn(l)
      OBVIOUS
    <3>3. PICK specific : specific = {briefs[m] : m \in MessagesForTurn(l, t)} \ {None}
      OBVIOUS
    <3>4. scope[id] # None =>
            /\ id \in live /\ Open(l) /\ scope[id].turn = t
            /\ Agree(UNION specific)
            /\ IF specific = {} THEN scope[id].grants \subseteq Generic
               ELSE scope[id].grants = UNION specific
      BY <3>1, <3>2, <3>3 DEF GrantsFollowMessages, BriefsFor
    <3>5. /\ l = log'[id] /\ scope'[id] = scope[id] /\ live' = live
          /\ specific = {briefs'[m] : m \in MessagesForTurn(l, t)} \ {None}
      BY <3>1, <3>3
    <3>6. scope'[id] # None =>
            /\ id \in live' /\ Open(l) /\ scope'[id].turn = t
            /\ Agree(UNION specific)
            /\ IF specific = {} THEN scope'[id].grants \subseteq Generic
               ELSE scope'[id].grants = UNION specific
      BY <3>4, <3>5
    <3> HIDE DEF vars, durable, agents, history, SessionInv
    <3> QED
      BY <3>2, <3>5, <3>6, GrantNow
  <2> QED
    BY <2>1 DEF Grant, GrantsFollowMessages
<1>9. EmitsAreGranted'
  <2>1. PICK id : id = emit.by
    OBVIOUS
  <2>2. PICK l : l = SubSeq(log[id], 1, emit.upto)
    OBVIOUS
  <2>3. emit.at \in {"append", "said"} => GrantedIn(l, emit.contract)
    BY <2>1, <2>2 DEF EmitsAreGranted, GrantedIn
  <2>4. emit.at \in {"append", "said"} => GrantedIn(l, emit.contract)'
    BY <2>3 DEF GrantedIn, BriefsFor
  <2> QED
    BY <2>1, <2>2, <2>4 DEF EmitsAreGranted, GrantedIn
<1> QED
  BY <1>1, <1>2, <1>4, <1>5, <1>6, <1>7, <1>8, <1>9

\* The inductive invariant: the surface has one binding, whoever sends a message has
\* put its brief on disk before, a followup is taken after all of its receipts, and a
\* capability grants what the turn's messages agree on.
THEOREM SessionInvariant == Spec => []SessionInv
<1>1. Init => SessionInv
  BY Initially
<1>2. SessionInv /\ [Next]_vars => SessionInv'
  <2>1. ASSUME SessionInv, Next PROVE SessionInv'
    BY <2>1, LogsStep, BindingStep, AdmissionStep, RecoveryStep, DeliveriesStep, LoggedSentStep,
       TakenLastStep, OutputsStep, GrantsStep, EmitsStep DEF SessionInv
  <2> QED
    BY <2>1, Stuttering
<1> QED
  BY <1>1, <1>2, PTL DEF Spec

\* One session progresses the surface, whichever of an admission, a recovery and a
\* creator of its own opens it first, through any crashes and stops.
THEOREM SessionIsOne == Spec => []OneSession
<1>1. SessionInv => OneSession
  BY DEF SessionInv, BindingSound, OneSession
<1> QED
  BY <1>1, SessionInvariant, PTL

\* The capability of a session exists for its open turn and grants what the briefs of
\* that turn's messages agree on, however messages, restarts and briefs interleave.
THEOREM GrantsAreAgreed == Spec => []GrantsFollowMessages
<1>1. SessionInv => GrantsFollowMessages
  BY DEF SessionInv
<1> QED
  BY <1>1, SessionInvariant, PTL

\* A followup that recovery did not send again runs in one turn, over second
\* deliveries and any loss of what was not flushed; one reported as delivered has run,
\* and is on disk, also where its receipt was skipped because briefs contradicted.
THEOREM FollowupsRunOnce == Spec => []RunsOnce
<1>1. SessionInv => RunsOnce
  <2> SUFFICES ASSUME SessionInv, NEW m \in Followups
               PROVE  /\ \A id \in Ids : m \notin resent => Cardinality(Takes(log[id], m)) <= 1
                      /\ delivery[m] = "done" => \E id \in Ids : Ran(OnDisk(id), m)
    BY DEF RunsOnce
  <2>1. ASSUME NEW id \in Ids, m \notin resent PROVE Cardinality(Takes(log[id], m)) <= 1
    <3>1. \A k \in Takes(log[id], m) : k \in Nat
      BY DEF Takes, SessionInv, LogsSound
    <3>2. \A j, k \in Takes(log[id], m) : j <= k
      BY <2>1 DEF SessionInv, TakenLast, Takes
    <3>3. \A j, k \in Takes(log[id], m) : j = k
      BY <3>1, <3>2
    <3>4. CASE Takes(log[id], m) = {}
      BY <3>4, FS_EmptySet
    <3>5. CASE Takes(log[id], m) # {}
      <4>1. PICK k : Takes(log[id], m) = {k}
        BY <3>3, <3>5
      <4>2. Cardinality({k}) = 1
        BY FS_Singleton
      <4> QED
        BY <4>1, <4>2
    <3> QED
      BY <3>4, <3>5
  <2>2. delivery[m] = "done" => \E id \in Ids : Ran(OnDisk(id), m)
    BY DEF SessionInv, DeliveriesSound, DeliverySound
  <2> QED
    BY <2>1, <2>2
<1> QED
  BY <1>1, SessionInvariant, PTL

\* What a model emits was granted by the turn that was open at the check, by what all
\* of its messages agreed on, and still is by the log up to there when the event is
\* recorded, whatever turns, messages and recoveries came between.
THEOREM OutputsAreGranted == Spec => []EmitsAreGranted
<1>1. SessionInv => EmitsAreGranted
  BY DEF SessionInv
<1> QED
  BY <1>1, SessionInvariant, PTL
=============================================================================
