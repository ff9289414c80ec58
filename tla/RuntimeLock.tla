----------------------------- MODULE RuntimeLock -----------------------------
(***************************************************************************)
(* The cross-process lock of packages/core/src/runtime-store-io.ts         *)
(* (acquireRuntimeLock, lockOwners): a bakery lock whose shared registers   *)
(* are files.  An acquisition attempt owns two file names derived from a    *)
(* fresh token, <token>.choosing and <token>.ticket, so no name is ever     *)
(* reused; a scanner lists the directory once and then reads, for each      *)
(* listed token, first its doorway and then its ticket, removing whatever   *)
(* it finds to belong to a dead process.                                    *)
(*                                                                          *)
(* Every file operation is a step of its own; processes may die anywhere.   *)
(***************************************************************************)
EXTENDS Naturals

CONSTANTS
  Attempts,    \* tokens; the string order on UUIDs is the order of naturals
  Processes,   \* pids
  Owner,       \* the process that makes each attempt
  Recycled,    \* pids the system may hand out again, so the dead look alive
  None,        \* no token
  Throwing     \* bound: the attempts whose file operations may throw

ASSUME TokensAreOrdered == Attempts \subseteq Nat
ASSUME OwnerIsAProcess == Owner \in [Attempts -> Processes]
ASSUME RecycledArePids == Recycled \subseteq Processes
ASSUME ThrowingAreAttempts == Throwing \subseteq Attempts
ASSUME NoneIsNoToken == None \notin Attempts

VARIABLES
  choosing,   \* tokens whose .choosing file exists
  number,     \* content of each .ticket file, 0 when there is none
  pc,         \* where each attempt is in acquireRuntimeLock
  ticket,     \* the local const "ticket"
  todo,       \* listed tokens the current scan has still to read
  reading,    \* token whose doorway was absent: its ticket is read next
  seen,       \* largest ticket of the scan that picks a ticket
  blocked,    \* attempts whose waiting scan met an owner that goes first
  alive,      \* processes that run
  ahead       \* history: who had left the doorway when an attempt entered it

vars == <<choosing, number, pc, ticket, todo, reading, seen, blocked, alive,
          ahead>>

Stages == {"idle", "list", "pick", "leave", "wait", "check", "held",
           "release", "gone"}

Live(a) == Owner[a] \in alive
OnDisk == {a \in Attempts : a \in choosing \/ number[a] # 0}
Waiting(a) == pc[a] \in {"wait", "check"}
Ticketed(a) == pc[a] \in {"wait", "check", "held"}
Holds(a) == pc[a] = "held"

\* Mutant: equal tickets are not told apart.
PrecedesByTicket(b, a) == number[b] < ticket[a]

\* b goes before a: the lexicographic order on tickets, then tokens.
Precedes(b, a) == \/ number[b] < ticket[a]
                  \/ number[b] = ticket[a] /\ b < a

Init ==
  /\ choosing = {}
  /\ number = [a \in Attempts |-> 0]
  /\ pc = [a \in Attempts |-> "idle"]
  /\ ticket = [a \in Attempts |-> 0]
  /\ todo = [a \in Attempts |-> {}]
  /\ reading = [a \in Attempts |-> None]
  /\ seen = [a \in Attempts |-> 0]
  /\ blocked = {}
  /\ alive = Processes
  /\ ahead = [a \in Attempts |-> {}]

\* The calls of the attempts in S are over (returned, thrown or dead): what
\* they kept in memory is gone and each of them is at stage.
EndCalls(S, stage) ==
  LET reset(f, v) == [a \in Attempts |-> IF a \in S THEN v ELSE f[a]]
  IN  /\ pc' = reset(pc, stage)
      /\ ticket' = reset(ticket, 0)
      /\ todo' = reset(todo, {})
      /\ reading' = reset(reading, None)
      /\ seen' = reset(seen, 0)
      /\ blocked' = blocked \ S
      /\ ahead' = reset(ahead, {})

(***************************************************************************)
(* The doorway: durableCreate(choosing), lockOwners, durableCreate(ticket), *)
(* unlink(choosing).                                                        *)
(***************************************************************************)
Open(a) ==
  /\ pc[a] = "idle"
  /\ choosing' = choosing \union {a}
  /\ pc' = [pc EXCEPT ![a] = "list"]
  /\ ahead' = [ahead EXCEPT ![a] = {b \in Attempts : Ticketed(b)}]
  /\ UNCHANGED <<number, ticket, todo, reading, seen, blocked, alive>>

\* One readdir.  The attempt's own token is left out: as a chooser it adds no
\* ticket to the maximum, and the waiting scan skips it by name.
List(a) ==
  /\ pc[a] \in {"list", "wait"}
  /\ todo' = [todo EXCEPT ![a] = OnDisk \ {a}]
  /\ pc' = [pc EXCEPT ![a] = IF @ = "list" THEN "pick" ELSE "check"]
  /\ UNCHANGED <<choosing, number, ticket, reading, seen, blocked, alive,
                 ahead>>

\* processAlive: the dead are told apart, unless their pid is in use again.
SeenAlive(b) == Live(b) \/ Owner[b] \in Recycled
SeenDead(b) == ~Live(b)

\* Reads <b>.choosing.  A live chooser hides its ticket (the break), a dead
\* one loses its doorway file, and then its ticket is read like any other.
ReadDoorway(a, b) ==
  /\ pc[a] \in {"pick", "check"}
  /\ reading[a] = None /\ b \in todo[a]
  /\ \/ /\ b \in choosing /\ SeenAlive(b)
        /\ todo' = [todo EXCEPT ![a] = @ \ {b}]
        /\ blocked' = blocked \union (IF pc[a] = "check" THEN {a} ELSE {})
        /\ UNCHANGED <<choosing, reading>>
     \/ /\ b \notin choosing \/ SeenDead(b)
        /\ choosing' = choosing \ {b}
        /\ reading' = [reading EXCEPT ![a] = b]
        /\ UNCHANGED <<todo, blocked>>
  /\ UNCHANGED <<number, pc, ticket, seen, alive, ahead>>

\* Reads <b>.ticket, b being the token whose doorway was just found absent.
ReadTicket(a) ==
  LET b == reading[a] IN
  /\ pc[a] \in {"pick", "check"}
  /\ b # None
  /\ todo' = [todo EXCEPT ![a] = @ \ {b}]
  /\ reading' = [reading EXCEPT ![a] = None]
  /\ \/ /\ number[b] = 0
        /\ UNCHANGED <<number, seen, blocked>>
     \/ /\ number[b] # 0 /\ SeenAlive(b)
        /\ seen' = [seen EXCEPT ![a] = IF pc[a] = "pick" /\ number[b] > @
                                       THEN number[b] ELSE @]
        /\ blocked' = blocked \union
                        (IF pc[a] = "check" /\ Precedes(b, a) THEN {a} ELSE {})
        /\ UNCHANGED number
     \/ /\ number[b] # 0 /\ SeenDead(b)
        /\ number' = [number EXCEPT ![b] = 0]
        /\ UNCHANGED <<seen, blocked>>
  /\ UNCHANGED <<choosing, pc, ticket, alive, ahead>>

PutTicket(a, n) ==
  /\ pc[a] = "pick" /\ todo[a] = {}
  /\ ticket' = [ticket EXCEPT ![a] = n]
  /\ number' = [number EXCEPT ![a] = n]
  /\ seen' = [seen EXCEPT ![a] = 0]
  /\ pc' = [pc EXCEPT ![a] = "leave"]
  /\ UNCHANGED <<choosing, todo, reading, blocked, alive, ahead>>

\* Mutant: the largest ticket again.
TakeSameTicket(a) == PutTicket(a, IF seen[a] = 0 THEN 1 ELSE seen[a])

TakeTicket(a) == PutTicket(a, seen[a] + 1)

LeaveDoorway(a) ==
  /\ pc[a] = "leave"
  /\ choosing' = choosing \ {a}
  /\ pc' = [pc EXCEPT ![a] = "wait"]
  /\ UNCHANGED <<number, ticket, todo, reading, seen, blocked, alive, ahead>>

(***************************************************************************)
(* The waiting loop and what ends an attempt.                               *)
(***************************************************************************)
\* Mutant: the result of the scan is not looked at.
EnterBlocked(a) ==
  /\ pc[a] = "check" /\ todo[a] = {}
  /\ pc' = [pc EXCEPT ![a] = "held"]
  /\ UNCHANGED <<choosing, number, ticket, todo, reading, seen, blocked,
                 alive, ahead>>

Enter(a) ==
  /\ pc[a] = "check" /\ todo[a] = {} /\ a \notin blocked
  /\ pc' = [pc EXCEPT ![a] = "held"]
  /\ UNCHANGED <<choosing, number, ticket, todo, reading, seen, blocked,
                 alive, ahead>>

\* Still blocked: sleep and scan again.
Retry(a) ==
  /\ pc[a] = "check" /\ todo[a] = {} /\ a \in blocked
  /\ pc' = [pc EXCEPT ![a] = "wait"]
  /\ blocked' = blocked \ {a}
  /\ UNCHANGED <<choosing, number, ticket, todo, reading, seen, alive, ahead>>

\* The deadline has passed while blocked.
TimeOut(a) ==
  /\ pc[a] = "check" /\ todo[a] = {} /\ a \in blocked
  /\ EndCalls({a}, "release")
  /\ UNCHANGED <<choosing, number, alive>>

\* Any file operation before the lock is returned may throw.
Fail(a) ==
  /\ a \in Throwing
  /\ pc[a] \in {"list", "pick", "leave", "wait", "check"}
  /\ EndCalls({a}, "release")
  /\ UNCHANGED <<choosing, number, alive>>

\* The holder's finally block.
Unlock(a) ==
  /\ Holds(a)
  /\ EndCalls({a}, "release")
  /\ UNCHANGED <<choosing, number, alive>>

\* Mutant: the ticket is left behind.
UnlinkDoorwayOnly(a) ==
  /\ pc[a] = "release"
  /\ choosing' = choosing \ {a}
  /\ pc' = [pc EXCEPT ![a] = "gone"]
  /\ UNCHANGED <<number, ticket, todo, reading, seen, blocked, alive, ahead>>

\* release() unlinks the two names concurrently, in either order.
Unlink(a) ==
  /\ pc[a] = "release"
  /\ \/ /\ a \in choosing
        /\ choosing' = choosing \ {a}
        /\ UNCHANGED <<number, pc>>
     \/ /\ number[a] # 0
        /\ number' = [number EXCEPT ![a] = 0]
        /\ UNCHANGED <<choosing, pc>>
     \/ /\ a \notin OnDisk
        /\ pc' = [pc EXCEPT ![a] = "gone"]
        /\ UNCHANGED <<choosing, number>>
  /\ UNCHANGED <<ticket, todo, reading, seen, blocked, alive, ahead>>

\* A process dies with all its calls, started or not; its files stay.
Crash(p) ==
  /\ p \in alive
  /\ alive' = alive \ {p}
  /\ EndCalls({a \in Attempts : Owner[a] = p}, "gone")
  /\ UNCHANGED <<choosing, number>>

Step(a) ==
  \/ Open(a) \/ List(a)
  \/ \E b \in Attempts : ReadDoorway(a, b)
  \/ ReadTicket(a)
  \/ TakeTicket(a) \/ LeaveDoorway(a)
  \/ Enter(a) \/ Retry(a)
  \/ Unlock(a) \/ Unlink(a)

Next ==
  \/ \E a \in Attempts : Step(a) \/ TimeOut(a) \/ Fail(a)
  \/ \E p \in Processes : Crash(p)

Spec == Init /\ [][Next]_vars

\* A live attempt keeps running: its awaits return and its holder's finally
\* block is reached.  Deadlines, errors and crashes are never forced.
FairSpec == Spec /\ \A a \in Attempts : WF_vars(Step(a))

-----------------------------------------------------------------------------
(***************************************************************************)
(* Properties.                                                              *)
(***************************************************************************)

\* The shape of the lock's state.
TypeOK ==
  /\ choosing \subseteq Attempts
  /\ number \in [Attempts -> Nat]
  /\ pc \in [Attempts -> Stages]
  /\ ticket \in [Attempts -> Nat]
  /\ todo \in [Attempts -> SUBSET Attempts]
  /\ reading \in [Attempts -> Attempts \union {None}]
  /\ seen \in [Attempts -> Nat]
  /\ blocked \subseteq Attempts
  /\ alive \subseteq Processes
  /\ ahead \in [Attempts -> SUBSET Attempts]

\* No two running attempts hold the lock together, whatever died, timed out
\* or was pruned on the way (the promise every store of the runtime relies on).
MutualExclusion ==
  \A a, b \in Attempts : a # b => ~(Holds(a) /\ Holds(b))

\* First come, first served: an attempt that had left the doorway when a
\* later one entered it is never overtaken while it waits or holds.
NoOvertaking ==
  \A a \in Attempts : Holds(a) =>
    \A b \in ahead[a] : ~Ticketed(b)

\* Pruning is safe: a scanner only ever removes files of dead processes, so a
\* running attempt that left the doorway keeps its ticket until it releases.
LiveTicketsStand ==
  \A a \in Attempts : Ticketed(a) =>
    number[a] = ticket[a] /\ ticket[a] > 0 /\ a \notin choosing

\* Without a deadline nobody waits forever: a waiting attempt gets the lock,
\* fails, or dies.  The one thing that can hold it up (until its deadline) are
\* the files of a dead process whose pid is in use again.
Haunted == \E b \in OnDisk : ~Live(b) /\ SeenAlive(b)
EveryWaitEnds ==
  []<>(Haunted \/ \A a \in Attempts : ~Waiting(a))

\* The file protocol implements a lock: it is taken only when free and given
\* up only by its holder.
Lock == INSTANCE ExclusiveLock
          WITH Clients <- Attempts, holders <- {a \in Attempts : Holds(a)}
ImplementsLock == Lock!Spec

(***************************************************************************)
(* The inductive invariant behind the safety properties.                    *)
(***************************************************************************)

\* The files of a live attempt say where it is in acquireRuntimeLock.
FilesMatchStage ==
  \A a \in Attempts :
    /\ pc[a] # "gone" => Live(a)
    /\ pc[a] = "idle" => a \notin OnDisk
    /\ pc[a] \in {"list", "pick", "leave"} => a \in choosing
    /\ pc[a] \in {"list", "pick"} => number[a] = 0
    /\ pc[a] = "leave" \/ Ticketed(a) => number[a] = ticket[a] /\ ticket[a] > 0
    /\ Ticketed(a) => a \notin choosing

\* A scan only reads tokens that were listed, of attempts that had begun; a
\* doorway found absent by a waiting scan stays absent.
ScansAreSound ==
  \A a \in Attempts :
    /\ pc[a] \notin {"pick", "check"} => todo[a] = {}
    /\ pc[a] # "check" => a \notin blocked
    /\ reading[a] # None => reading[a] \in todo[a]
    /\ \A b \in todo[a] : b # a /\ pc[b] # "idle"
    /\ pc[a] = "check" /\ reading[a] # None =>
         pc[reading[a]] \notin {"idle", "list", "pick", "leave"}

\* a has read all it needs of b to enter before it.
Cleared(a, b) == \/ pc[a] = "held"
                 \/ pc[a] = "check" /\ a \notin blocked /\ b \notin todo[a]

\* b has, or will take, a ticket above the ticket of a.
WillSee(b, a) == pc[b] = "pick" /\ (a \in todo[b] \/ seen[b] >= ticket[a])

ClearedGoFirst ==
  \A a, b \in Attempts : a # b /\ Cleared(a, b) =>
    \/ pc[b] \in {"idle", "list", "release", "gone"}
    \/ WillSee(b, a)
    \/ /\ pc[b] = "leave" \/ Ticketed(b)
       /\ ticket[a] < ticket[b] \/ (ticket[a] = ticket[b] /\ a < b)

AheadStayAhead ==
  \A b \in Attempts : \A a \in ahead[b] :
    /\ a # b
    /\ Ticketed(a) \/ pc[a] \in {"release", "gone"}
    /\ Ticketed(a) =>
         \/ pc[b] = "list"
         \/ WillSee(b, a)
         \/ (pc[b] = "leave" \/ Ticketed(b)) /\ ticket[a] < ticket[b]

\* Every reachable state of the lock: the invariant the proofs carry.
LockInv ==
  /\ TypeOK
  /\ FilesMatchStage
  /\ ScansAreSound
  /\ ClearedGoFirst
  /\ AheadStayAhead

=============================================================================
