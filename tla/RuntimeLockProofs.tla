-------------------------- MODULE RuntimeLockProofs --------------------------
(***************************************************************************)
(* Mutual exclusion and first-come-first-served order of the file lock, for *)
(* any set of attempts, any assignment of attempts to processes, any set of *)
(* recycled pids and any failures.                                          *)
(***************************************************************************)
EXTENDS RuntimeLock, TLAPS

\* Which action disturbs which part of the state: EndCalls, field by field.
LEMMA EndCallsFields ==
  ASSUME NEW S \in SUBSET Attempts, NEW stage \in Stages, TypeOK,
         EndCalls(S, stage), NEW a \in Attempts
  PROVE  /\ a \in S => /\ pc'[a] = stage /\ ticket'[a] = 0 /\ todo'[a] = {}
                       /\ reading'[a] = None /\ seen'[a] = 0
                       /\ a \notin blocked' /\ ahead'[a] = {}
         /\ a \notin S => /\ pc'[a] = pc[a] /\ ticket'[a] = ticket[a]
                          /\ todo'[a] = todo[a] /\ reading'[a] = reading[a]
                          /\ seen'[a] = seen[a]
                          /\ (a \in blocked' <=> a \in blocked)
                          /\ ahead'[a] = ahead[a]
BY DEF EndCalls

LEMMA EndCallsTypes ==
  ASSUME NEW S \in SUBSET Attempts, NEW stage \in Stages, TypeOK,
         EndCalls(S, stage)
  PROVE  /\ pc' \in [Attempts -> Stages]
         /\ ticket' \in [Attempts -> Nat]
         /\ todo' \in [Attempts -> SUBSET Attempts]
         /\ reading' \in [Attempts -> Attempts \union {None}]
         /\ seen' \in [Attempts -> Nat]
         /\ blocked' \subseteq Attempts
         /\ ahead' \in [Attempts -> SUBSET Attempts]
BY DEF EndCalls, TypeOK

-----------------------------------------------------------------------------
LEMMA TypeStep ==
  ASSUME TypeOK, [Next]_vars
  PROVE  TypeOK'
<1> USE DEF Stages
<1>1. ASSUME NEW a \in Attempts, Open(a) PROVE TypeOK'
  BY <1>1 DEF Open, TypeOK
<1>2. ASSUME NEW a \in Attempts, List(a) PROVE TypeOK'
  BY <1>2 DEF List, TypeOK, OnDisk
<1>3. ASSUME NEW a \in Attempts, NEW b \in Attempts, ReadDoorway(a, b)
      PROVE TypeOK'
  BY <1>3 DEF ReadDoorway, TypeOK
<1>4. ASSUME NEW a \in Attempts, ReadTicket(a) PROVE TypeOK'
  <2>1. reading[a] \in Attempts
    BY <1>4 DEF ReadTicket, TypeOK
  <2>2. /\ number' \in [Attempts -> Nat]
        /\ seen' \in [Attempts -> Nat]
        /\ todo' \in [Attempts -> SUBSET Attempts]
        /\ reading' \in [Attempts -> Attempts \union {None}]
    BY <1>4, <2>1 DEF ReadTicket, TypeOK
  <2>3. blocked' \subseteq Attempts
    BY <1>4 DEF ReadTicket, TypeOK
  <2> QED
    BY <1>4, <2>2, <2>3 DEF ReadTicket, TypeOK
<1>5. ASSUME NEW a \in Attempts, TakeTicket(a) PROVE TypeOK'
  BY <1>5 DEF TakeTicket, PutTicket, TypeOK
<1>6. ASSUME NEW a \in Attempts, LeaveDoorway(a) \/ Enter(a) PROVE TypeOK'
  BY <1>6 DEF LeaveDoorway, Enter, TypeOK
<1>7. ASSUME NEW a \in Attempts, Retry(a) PROVE TypeOK'
  BY <1>7 DEF Retry, TypeOK
<1>8. ASSUME NEW a \in Attempts, TimeOut(a) \/ Fail(a) \/ Unlock(a)
      PROVE TypeOK'
  <2>1. EndCalls({a}, "release") /\ UNCHANGED <<choosing, number, alive>>
    BY <1>8 DEF TimeOut, Fail, Unlock
  <2> QED
    BY <2>1, EndCallsTypes DEF TypeOK
<1>9. ASSUME NEW a \in Attempts, Unlink(a) PROVE TypeOK'
  BY <1>9 DEF Unlink, TypeOK
<1>10. ASSUME NEW p \in Processes, Crash(p) PROVE TypeOK'
  BY <1>10, EndCallsTypes DEF Crash, TypeOK
<1>11. CASE UNCHANGED vars
  BY <1>11 DEF vars, TypeOK
<1> QED
  BY <1>1, <1>2, <1>3, <1>4, <1>5, <1>6, <1>7, <1>8, <1>9, <1>10, <1>11
     DEF Next, Step

\* Type correctness of the lock: every step of acquireRuntimeLock, lockOwners
\* and release keeps the state in its shape.
THEOREM TypeCorrect == Spec => []TypeOK
<1>1. Init => TypeOK
  BY DEF Init, TypeOK, Stages
<1>2. TypeOK /\ [Next]_vars => TypeOK'
  BY TypeStep
<1> QED
  BY <1>1, <1>2, PTL DEF Spec

-----------------------------------------------------------------------------
LEMMA FilesStep ==
  ASSUME LockInv, [Next]_vars
  PROVE  FilesMatchStage'
<1> USE DEF LockInv
<1>0. TypeOK'
  BY TypeStep
<1>1. ASSUME NEW a \in Attempts, Open(a) PROVE FilesMatchStage'
  BY <1>1, <1>0 DEF Open, TypeOK, Live, OnDisk, Ticketed, FilesMatchStage
<1>2. ASSUME NEW a \in Attempts, List(a) PROVE FilesMatchStage'
  BY <1>2, <1>0 DEF List, Live, OnDisk, Ticketed, FilesMatchStage
<1>3. ASSUME NEW a \in Attempts, NEW b \in Attempts, ReadDoorway(a, b)
      PROVE FilesMatchStage'
  BY <1>3, <1>0
     DEF ReadDoorway, Live, OnDisk, Ticketed, FilesMatchStage, SeenDead
<1>4. ASSUME NEW a \in Attempts, ReadTicket(a) PROVE FilesMatchStage'
  BY <1>4, <1>0
     DEF ReadTicket, TypeOK, Live, OnDisk, Ticketed, FilesMatchStage, SeenDead
<1>5. ASSUME NEW a \in Attempts, TakeTicket(a) PROVE FilesMatchStage'
  BY <1>5, <1>0
     DEF TakeTicket, PutTicket, TypeOK, Live, OnDisk, Ticketed, FilesMatchStage
<1>6. ASSUME NEW a \in Attempts, LeaveDoorway(a) PROVE FilesMatchStage'
  BY <1>6, <1>0
     DEF LeaveDoorway, TypeOK, Live, OnDisk, Ticketed, FilesMatchStage
<1>7. ASSUME NEW a \in Attempts, Enter(a) PROVE FilesMatchStage'
  BY <1>7, <1>0 DEF Enter, Live, OnDisk, Ticketed, FilesMatchStage
<1>8. ASSUME NEW a \in Attempts, Retry(a) PROVE FilesMatchStage'
  BY <1>8, <1>0 DEF Retry, Live, OnDisk, Ticketed, FilesMatchStage
<1>9. ASSUME NEW a \in Attempts, Unlink(a) PROVE FilesMatchStage'
  BY <1>9, <1>0 DEF Unlink, TypeOK, Live, OnDisk, Ticketed, FilesMatchStage
<1>10. ASSUME NEW a \in Attempts, TimeOut(a) \/ Fail(a) \/ Unlock(a)
      PROVE FilesMatchStage'
  <2>1. EndCalls({a}, "release") /\ UNCHANGED <<choosing, number, alive>>
        /\ pc[a] \notin {"idle", "gone"}
    BY <1>10 DEF TimeOut, Fail, Unlock, Holds
  <2> QED
    BY <2>1, <1>0, EndCallsFields
       DEF Stages, Live, OnDisk, Ticketed, FilesMatchStage
<1>11. ASSUME NEW p \in Processes, Crash(p) PROVE FilesMatchStage'
  <2>1. EndCalls({a \in Attempts : Owner[a] = p}, "gone")
        /\ UNCHANGED <<choosing, number>> /\ alive' = alive \ {p}
    BY <1>11 DEF Crash
  <2> QED
    BY <2>1, <1>0, EndCallsFields
       DEF Stages, Live, OnDisk, Ticketed, FilesMatchStage
<1>12. CASE UNCHANGED vars
  BY <1>12 DEF vars, Live, OnDisk, Ticketed, FilesMatchStage
<1> QED
  BY <1>1, <1>2, <1>3, <1>4, <1>5, <1>6, <1>7, <1>8, <1>9, <1>10, <1>11, <1>12
     DEF Next, Step

LEMMA ScansStep ==
  ASSUME LockInv, [Next]_vars
  PROVE  ScansAreSound'
<1> USE DEF LockInv
<1>0. TypeOK'
  BY TypeStep
<1>1. ASSUME NEW a \in Attempts, Open(a) PROVE ScansAreSound'
  BY <1>1, <1>0 DEF Open, ScansAreSound
<1>2. ASSUME NEW a \in Attempts, List(a) PROVE ScansAreSound'
  BY <1>2, <1>0 DEF List, TypeOK, FilesMatchStage, ScansAreSound
<1>3. ASSUME NEW a \in Attempts, NEW b \in Attempts, ReadDoorway(a, b)
      PROVE ScansAreSound'
  BY <1>3, <1>0
     DEF ReadDoorway, TypeOK, FilesMatchStage, ScansAreSound, SeenDead
<1>4. ASSUME NEW a \in Attempts, ReadTicket(a) PROVE ScansAreSound'
  BY <1>4, <1>0 DEF ReadTicket, TypeOK, ScansAreSound
<1>5. ASSUME NEW a \in Attempts, TakeTicket(a) PROVE ScansAreSound'
  BY <1>5, <1>0 DEF TakeTicket, PutTicket, ScansAreSound
<1>6. ASSUME NEW a \in Attempts, LeaveDoorway(a) PROVE ScansAreSound'
  BY <1>6, <1>0 DEF LeaveDoorway, ScansAreSound
<1>7. ASSUME NEW a \in Attempts, Enter(a) PROVE ScansAreSound'
  BY <1>7, <1>0 DEF Enter, ScansAreSound
<1>8. ASSUME NEW a \in Attempts, Retry(a) PROVE ScansAreSound'
  BY <1>8, <1>0 DEF Retry, ScansAreSound
<1>9. ASSUME NEW a \in Attempts, Unlink(a) PROVE ScansAreSound'
  BY <1>9, <1>0 DEF Unlink, TypeOK, ScansAreSound
<1>10. ASSUME NEW a \in Attempts, TimeOut(a) \/ Fail(a) \/ Unlock(a)
      PROVE ScansAreSound'
  <2>1. EndCalls({a}, "release") /\ UNCHANGED <<choosing, number, alive>>
        /\ pc[a] \notin {"idle", "gone"}
    BY <1>10 DEF TimeOut, Fail, Unlock, Holds
  <2> QED
    BY <2>1, <1>0, EndCallsFields DEF TypeOK, Stages, ScansAreSound
<1>11. ASSUME NEW p \in Processes, Crash(p) PROVE ScansAreSound'
  <2>1. EndCalls({a \in Attempts : Owner[a] = p}, "gone")
        /\ UNCHANGED <<choosing, number>> /\ alive' = alive \ {p}
    BY <1>11 DEF Crash
  <2> QED
    BY <2>1, <1>0, EndCallsFields DEF TypeOK, Stages, ScansAreSound
<1>12. CASE UNCHANGED vars
  BY <1>12 DEF vars, ScansAreSound
<1> QED
  BY <1>1, <1>2, <1>3, <1>4, <1>5, <1>6, <1>7, <1>8, <1>9, <1>10, <1>11, <1>12
     DEF Next, Step

\* Calls that end, in any number, leave the others in their order.
LEMMA EndCallsKeepOrder ==
  ASSUME TypeOK, TypeOK', ClearedGoFirst, NEW S \in SUBSET Attempts,
         NEW stage \in {"release", "gone"}, EndCalls(S, stage)
  PROVE  ClearedGoFirst'
<1> SUFFICES ASSUME NEW a \in Attempts, NEW b \in Attempts, a # b,
                    Cleared(a, b)'
             PROVE  \/ pc'[b] \in {"idle", "list", "release", "gone"}
                    \/ WillSee(b, a)'
                    \/ /\ pc'[b] = "leave" \/ Ticketed(b)'
                       /\ \/ ticket'[a] < ticket'[b]
                          \/ ticket'[a] = ticket'[b] /\ a < b
  BY DEF ClearedGoFirst
<1>0. stage \in Stages
  BY DEF Stages
<1>1. a \notin S
  <2>1. a \in S => pc'[a] = stage
    BY <1>0, EndCallsFields
  <2>2. pc'[a] \in {"held", "check"}
    BY DEF Cleared
  <2> QED
    BY <2>1, <2>2
<1>2. Cleared(a, b) /\ ticket'[a] = ticket[a]
  <2>1. /\ pc'[a] = pc[a] /\ todo'[a] = todo[a] /\ ticket'[a] = ticket[a]
        /\ a \in blocked' <=> a \in blocked
    BY <1>0, <1>1, EndCallsFields
  <2> QED
    BY <2>1 DEF Cleared
<1>3. CASE b \in S
  BY <1>0, <1>3, EndCallsFields
<1>4. CASE b \notin S
  <2>1. /\ pc'[b] = pc[b] /\ todo'[b] = todo[b]
        /\ seen'[b] = seen[b] /\ ticket'[b] = ticket[b]
    BY <1>0, <1>4, EndCallsFields
  <2> QED
    BY <1>2, <2>1 DEF ClearedGoFirst, WillSee, Ticketed
<1> QED
  BY <1>3, <1>4

LEMMA ClearedStep ==
  ASSUME LockInv, [Next]_vars
  PROVE  ClearedGoFirst'
<1> USE DEF LockInv
<1>0. TypeOK'
  BY TypeStep
<1>1. ASSUME NEW a \in Attempts, Open(a) PROVE ClearedGoFirst'
  BY <1>1, <1>0 DEF Open, Ticketed, ClearedGoFirst, Cleared, WillSee
<1>2. ASSUME NEW a \in Attempts, List(a) PROVE ClearedGoFirst'
  BY <1>2, <1>0
     DEF List, TypeOK, Stages, OnDisk, Ticketed, FilesMatchStage,
         ClearedGoFirst, Cleared, WillSee
<1>3. ASSUME NEW a \in Attempts, NEW b \in Attempts, ReadDoorway(a, b)
      PROVE ClearedGoFirst'
  BY <1>3, <1>0
     DEF ReadDoorway, TypeOK, Ticketed, FilesMatchStage, ClearedGoFirst,
         Cleared, WillSee
<1>4. ASSUME NEW c \in Attempts, ReadTicket(c) PROVE ClearedGoFirst'
  <2> DEFINE d == reading[c]
  <2> SUFFICES ASSUME NEW a \in Attempts, NEW b \in Attempts, a # b,
                      Cleared(a, b)'
               PROVE  \/ pc'[b] \in {"idle", "list", "release", "gone"}
                      \/ WillSee(b, a)'
                      \/ /\ pc'[b] = "leave" \/ Ticketed(b)'
                         /\ \/ ticket'[a] < ticket'[b]
                            \/ ticket'[a] = ticket'[b] /\ a < b
    BY DEF ClearedGoFirst
  <2>1. /\ pc' = pc /\ ticket' = ticket
        /\ todo' = [todo EXCEPT ![c] = @ \ {d}]
        /\ d \in todo[c] /\ d \in Attempts /\ d # c
        /\ pc[c] \in {"pick", "check"}
    BY <1>4 DEF ReadTicket, ScansAreSound, TypeOK
  <2>2. /\ \A e \in Attempts : seen'[e] \in Nat /\ seen'[e] >= seen[e]
        /\ blocked \subseteq blocked'
    BY <1>4, <1>0 DEF ReadTicket, TypeOK
  <2>3. Cleared(a, b) \/ (a = c /\ b = d /\ pc[c] = "check")
    BY <2>1, <2>2 DEF Cleared, TypeOK
  <2>4. CASE Cleared(a, b)
    <3>1. CASE b = c /\ a = d /\ pc[c] = "pick"
      <4>1. number[a] = ticket[a] /\ ticket[a] > 0 /\ Live(a)
        BY <2>1, <2>4, <3>1 DEF FilesMatchStage, Cleared, Ticketed
      <4>2. seen'[c] >= number[a]
        BY <1>4, <3>1, <4>1
           DEF ReadTicket, TypeOK, SeenDead
      <4> QED
        BY <2>1, <3>1, <4>1, <4>2 DEF WillSee
    <3>2. CASE ~(b = c /\ a = d /\ pc[c] = "pick")
      <4>1. WillSee(b, a) => WillSee(b, a)'
        BY <2>1, <2>2, <3>2 DEF WillSee, TypeOK
      <4> QED
        BY <2>1, <2>4, <4>1 DEF ClearedGoFirst, Ticketed
    <3> QED
      BY <3>1, <3>2
  <2>5. CASE a = c /\ b = d /\ pc[c] = "check"
    <3>1. pc[b] \notin {"idle", "list", "pick", "leave"}
      BY <1>4, <2>5 DEF ReadTicket, ScansAreSound
    <3>2. CASE Ticketed(b)
      <4>1. number[b] = ticket[b] /\ ticket[b] > 0 /\ Live(b)
        BY <3>2 DEF FilesMatchStage, Ticketed
      <4>2. a \notin blocked'
        BY <2>1, <2>5 DEF Cleared
      <4>3. ~Precedes(b, a)
        BY <1>4, <2>5, <4>1, <4>2 DEF ReadTicket, SeenDead, TypeOK
      <4> QED
        BY <2>1, <3>2, <4>1, <4>3, TokensAreOrdered
           DEF Precedes, TypeOK, Ticketed
    <3>3. CASE ~Ticketed(b)
      BY <2>1, <3>1, <3>3 DEF Ticketed, TypeOK, Stages
    <3> QED
      BY <3>2, <3>3
  <2> QED
    BY <2>3, <2>4, <2>5
<1>5. ASSUME NEW a \in Attempts, TakeTicket(a) PROVE ClearedGoFirst'
  BY <1>5, <1>0
     DEF TakeTicket, PutTicket, TypeOK, Ticketed, ClearedGoFirst, Cleared, WillSee
<1>6. ASSUME NEW a \in Attempts, LeaveDoorway(a) PROVE ClearedGoFirst'
  BY <1>6, <1>0 DEF LeaveDoorway, Ticketed, ClearedGoFirst, Cleared, WillSee
<1>7. ASSUME NEW a \in Attempts, Enter(a) PROVE ClearedGoFirst'
  BY <1>7, <1>0 DEF Enter, Ticketed, ClearedGoFirst, Cleared, WillSee
<1>8. ASSUME NEW a \in Attempts, Retry(a) PROVE ClearedGoFirst'
  BY <1>8, <1>0 DEF Retry, TypeOK, Ticketed, ClearedGoFirst, Cleared, WillSee
<1>9. ASSUME NEW a \in Attempts, Unlink(a) PROVE ClearedGoFirst'
  BY <1>9, <1>0 DEF Unlink, TypeOK, Ticketed, ClearedGoFirst, Cleared, WillSee
<1>10. ASSUME NEW a \in Attempts, TimeOut(a) \/ Fail(a) \/ Unlock(a)
      PROVE ClearedGoFirst'
  <2>1. EndCalls({a}, "release")
    BY <1>10 DEF TimeOut, Fail, Unlock
  <2> QED
    BY <2>1, <1>0, EndCallsKeepOrder DEF Stages
<1>11. ASSUME NEW p \in Processes, Crash(p) PROVE ClearedGoFirst'
  <2>1. EndCalls({a \in Attempts : Owner[a] = p}, "gone")
    BY <1>11 DEF Crash
  <2> QED
    BY <2>1, <1>0, EndCallsKeepOrder DEF Stages
<1>12. CASE UNCHANGED vars
  BY <1>12 DEF vars, Ticketed, ClearedGoFirst, Cleared, WillSee
<1> QED
  BY <1>1, <1>2, <1>3, <1>4, <1>5, <1>6, <1>7, <1>8, <1>9, <1>10, <1>11, <1>12
     DEF Next, Step

\* Whoever was ahead of a call stays ahead of it, or has ended.
LEMMA EndCallsKeepAhead ==
  ASSUME TypeOK, AheadStayAhead, NEW S \in SUBSET Attempts,
         NEW stage \in {"release", "gone"}, EndCalls(S, stage)
  PROVE  AheadStayAhead'
<1> SUFFICES ASSUME NEW b \in Attempts, NEW a \in Attempts, a \in ahead'[b]
             PROVE  /\ a # b
                    /\ Ticketed(a)' \/ pc'[a] \in {"release", "gone"}
                    /\ Ticketed(a)' =>
                         \/ pc'[b] = "list"
                         \/ WillSee(b, a)'
                         \/ /\ pc'[b] = "leave" \/ Ticketed(b)'
                            /\ ticket'[a] < ticket'[b]
  <2>1. ahead' \in [Attempts -> SUBSET Attempts]
    BY EndCallsTypes DEF Stages
  <2> QED
    BY <2>1 DEF AheadStayAhead
<1>0. stage \in Stages
  BY DEF Stages
<1>1. /\ a \in ahead[b]
      /\ pc'[b] = pc[b] /\ todo'[b] = todo[b]
      /\ seen'[b] = seen[b] /\ ticket'[b] = ticket[b]
  <2>1. b \notin S
    BY <1>0, EndCallsFields
  <2> QED
    BY <1>0, <2>1, EndCallsFields
<1>2. CASE a \in S
  <2>1. pc'[a] = stage
    BY <1>0, <1>2, EndCallsFields
  <2> QED
    BY <1>1, <2>1 DEF AheadStayAhead, Ticketed
<1>3. CASE a \notin S
  <2>1. pc'[a] = pc[a] /\ ticket'[a] = ticket[a]
    BY <1>0, <1>3, EndCallsFields
  <2> QED
    BY <1>1, <2>1 DEF AheadStayAhead, Ticketed, WillSee
<1> QED
  BY <1>2, <1>3

LEMMA AheadStep ==
  ASSUME LockInv, [Next]_vars
  PROVE  AheadStayAhead'
<1> USE DEF LockInv
<1>0. TypeOK'
  BY TypeStep
<1>1. ASSUME NEW a \in Attempts, Open(a) PROVE AheadStayAhead'
  BY <1>1, <1>0 DEF Open, TypeOK, Ticketed, AheadStayAhead, WillSee
<1>2. ASSUME NEW a \in Attempts, List(a) PROVE AheadStayAhead'
  BY <1>2, <1>0
     DEF List, TypeOK, OnDisk, Ticketed, FilesMatchStage, AheadStayAhead, WillSee
<1>3. ASSUME NEW a \in Attempts, NEW b \in Attempts, ReadDoorway(a, b)
      PROVE AheadStayAhead'
  BY <1>3, <1>0
     DEF ReadDoorway, TypeOK, Ticketed, FilesMatchStage, AheadStayAhead, WillSee
<1>4. ASSUME NEW a \in Attempts, ReadTicket(a) PROVE AheadStayAhead'
  BY <1>4, <1>0
     DEF ReadTicket, TypeOK, Ticketed, FilesMatchStage, AheadStayAhead,
         WillSee, SeenDead
<1>5. ASSUME NEW a \in Attempts, TakeTicket(a) PROVE AheadStayAhead'
  BY <1>5, <1>0
     DEF TakeTicket, PutTicket, TypeOK, Ticketed, AheadStayAhead, WillSee
<1>6. ASSUME NEW a \in Attempts, LeaveDoorway(a) PROVE AheadStayAhead'
  BY <1>6, <1>0 DEF LeaveDoorway, Ticketed, AheadStayAhead, WillSee
<1>7. ASSUME NEW a \in Attempts, Enter(a) PROVE AheadStayAhead'
  BY <1>7, <1>0 DEF Enter, Ticketed, AheadStayAhead, WillSee
<1>8. ASSUME NEW a \in Attempts, Retry(a) PROVE AheadStayAhead'
  BY <1>8, <1>0 DEF Retry, Ticketed, AheadStayAhead, WillSee
<1>9. ASSUME NEW a \in Attempts, Unlink(a) PROVE AheadStayAhead'
  BY <1>9, <1>0 DEF Unlink, TypeOK, Ticketed, AheadStayAhead, WillSee
<1>10. ASSUME NEW a \in Attempts, TimeOut(a) \/ Fail(a) \/ Unlock(a)
      PROVE AheadStayAhead'
  <2>1. EndCalls({a}, "release")
    BY <1>10 DEF TimeOut, Fail, Unlock
  <2> QED
    BY <2>1, <1>0, EndCallsKeepAhead DEF Stages
<1>11. ASSUME NEW p \in Processes, Crash(p) PROVE AheadStayAhead'
  <2>1. EndCalls({a \in Attempts : Owner[a] = p}, "gone")
    BY <1>11 DEF Crash
  <2> QED
    BY <2>1, <1>0, EndCallsKeepAhead DEF Stages
<1>12. CASE UNCHANGED vars
  BY <1>12 DEF vars, Ticketed, AheadStayAhead, WillSee
<1> QED
  BY <1>1, <1>2, <1>3, <1>4, <1>5, <1>6, <1>7, <1>8, <1>9, <1>10, <1>11, <1>12
     DEF Next, Step

\* The invariant of the lock: files tell the stage of every live attempt, and
\* whoever an attempt has passed in its scan goes after it.
THEOREM LockInvariant == Spec => []LockInv
<1>1. Init => LockInv
  BY OwnerIsAProcess
     DEF Init, LockInv, TypeOK, Stages, FilesMatchStage, ScansAreSound,
         ClearedGoFirst, AheadStayAhead, Cleared, Live, OnDisk, Ticketed
<1>2. LockInv /\ [Next]_vars => LockInv'
  <2> SUFFICES ASSUME LockInv, [Next]_vars PROVE LockInv'
    OBVIOUS
  <2> QED
    BY TypeStep, FilesStep, ScansStep, ClearedStep, AheadStep DEF LockInv
<1> QED
  BY <1>1, <1>2, PTL DEF Spec

\* Mutual exclusion: two running attempts never hold the lock together.
THEOREM LockIsExclusive == Spec => []MutualExclusion
<1>1. LockInv => MutualExclusion
  <2> SUFFICES ASSUME LockInv, NEW a \in Attempts, NEW b \in Attempts,
                      a # b, Holds(a), Holds(b)
               PROVE  FALSE
    BY DEF MutualExclusion
  <2>1. pc[a] = "held" /\ pc[b] = "held" /\ Cleared(a, b) /\ Cleared(b, a)
    BY DEF Holds, Cleared
  <2>2. /\ ticket[a] < ticket[b] \/ (ticket[a] = ticket[b] /\ a < b)
        /\ ticket[b] < ticket[a] \/ (ticket[b] = ticket[a] /\ b < a)
    BY <2>1 DEF LockInv, ClearedGoFirst, WillSee
  <2>3. ticket[a] \in Nat /\ ticket[b] \in Nat /\ a \in Nat /\ b \in Nat
    BY TokensAreOrdered DEF LockInv, TypeOK
  <2> QED
    BY <2>2, <2>3
<1> QED
  BY <1>1, LockInvariant, PTL

\* First come, first served among the attempts that have left the doorway.
THEOREM LockIsFair == Spec => []NoOvertaking
<1>1. LockInv => NoOvertaking
  <2> SUFFICES ASSUME LockInv, NEW b \in Attempts, Holds(b),
                      NEW a \in ahead[b], Ticketed(a)
               PROVE  FALSE
    BY DEF NoOvertaking
  <2>1. a \in Attempts /\ a # b /\ Cleared(b, a) /\ pc[b] = "held"
    BY DEF LockInv, TypeOK, AheadStayAhead, Holds, Cleared
  <2>2. ticket[a] < ticket[b]
    BY <2>1 DEF LockInv, AheadStayAhead, WillSee
  <2>3. ticket[b] < ticket[a] \/ ticket[b] = ticket[a]
    BY <2>1 DEF LockInv, ClearedGoFirst, WillSee, Ticketed
  <2>4. ticket[a] \in Nat /\ ticket[b] \in Nat
    BY <2>1 DEF LockInv, TypeOK
  <2> QED
    BY <2>2, <2>3, <2>4
<1> QED
  BY <1>1, LockInvariant, PTL

\* A scanner never removes the ticket of a running attempt.
THEOREM LiveTicketsKept == Spec => []LiveTicketsStand
<1>1. LockInv => LiveTicketsStand
  BY DEF LockInv, LiveTicketsStand, FilesMatchStage
<1> QED
  BY <1>1, LockInvariant, PTL

\* The file protocol is an exclusive lock: one attempt at a time takes it, when
\* nobody has it, and it is free again when its holder releases it or dies.
THEOREM LockIsLock == Spec => ImplementsLock
<1> DEFINE holding == {a \in Attempts : Holds(a)}
<1>1. Init => Lock!Init
  BY DEF Init, Lock!Init, Holds
<1>2. ASSUME TypeOK, MutualExclusion, MutualExclusion', [Next]_vars
      PROVE  [Lock!Next]_holding
  <2>1. ASSUME NEW a \in Attempts, Enter(a) PROVE Lock!Acquire(a)
    <3>1. /\ Holds(a)' /\ ~Holds(a)
          /\ \A b \in Attempts : b # a => (Holds(b)' <=> Holds(b))
      BY <1>2, <2>1 DEF Enter, TypeOK, Holds
    <3>2. \A b \in Attempts : ~Holds(b) /\ (Holds(b)' <=> b = a)
      BY <3>1, <1>2 DEF MutualExclusion
    <3>3. holding = {} /\ holding' = {a}
      BY <3>2
    <3> QED
      BY <3>3 DEF Lock!Acquire
  <2>2. ASSUME NEW S \in SUBSET Attempts, NEW stage \in {"release", "gone"},
               EndCalls(S, stage)
        PROVE  Lock!Next \/ holding' = holding
    <3>1. holding' = holding \ S
      BY <2>2 DEF EndCalls, Holds
    <3>2. CASE holding \cap S = {}
      BY <3>1, <3>2
    <3>3. CASE holding \cap S # {}
      <4>1. PICK a \in Attempts : a \in holding /\ a \in S
        BY <3>3
      <4>2. holding = {a}
        BY <4>1, <1>2 DEF MutualExclusion
      <4>3. Lock!Release(a)
        BY <3>1, <4>1, <4>2 DEF Lock!Release
      <4> QED
        BY <4>3 DEF Lock!Next
    <3> QED
      BY <3>2, <3>3
  <2>3. ASSUME NEW a \in Attempts,
               \/ Open(a) \/ List(a) \/ \E b \in Attempts : ReadDoorway(a, b)
               \/ ReadTicket(a) \/ TakeTicket(a) \/ LeaveDoorway(a)
               \/ Retry(a) \/ Unlink(a)
        PROVE  holding' = holding
    BY <2>3, <1>2
       DEF Open, List, ReadDoorway, ReadTicket, TakeTicket, PutTicket,
           LeaveDoorway, Retry, Unlink, Holds, TypeOK
  <2>4. ASSUME NEW a \in Attempts, Step(a) \/ TimeOut(a) \/ Fail(a)
        PROVE  Lock!Next \/ holding' = holding
    <3>1. CASE Enter(a)
      BY <3>1, <2>1 DEF Lock!Next
    <3>2. CASE Unlock(a) \/ TimeOut(a) \/ Fail(a)
      BY <3>2, <2>2 DEF Unlock, TimeOut, Fail
    <3> QED
      BY <2>3, <2>4, <3>1, <3>2 DEF Step
  <2>5. ASSUME NEW p \in Processes, Crash(p)
        PROVE  Lock!Next \/ holding' = holding
    BY <2>5, <2>2 DEF Crash
  <2>6. CASE UNCHANGED vars
    BY <2>6 DEF vars, Holds
  <2> QED
    BY <1>2, <2>4, <2>5, <2>6 DEF Next
<1>3. LockInv => TypeOK
  BY DEF LockInv
<1> QED
  BY <1>1, <1>2, <1>3, LockInvariant, LockIsExclusive, PTL
     DEF Spec, ImplementsLock, Lock!Spec
=============================================================================
