-------------------------- MODULE RevisionStoreProofs --------------------------
(*****************************************************************************)
(* What a pin or a gathered fact names is never collected, for any set of    *)
(* revisions and blobs, any number of concurrent snapshots, pins and records *)
(* with and without a pin, and crashes.                                      *)
(*****************************************************************************)
EXTENDS RevisionStore, TLAPS

Active == {"marked", "manifests", "blobs"}

\* The promise chain: one pin operation or collection at a time, and nobody
\* changes pins.json between its reading and its replacement.
ChainIsSerial ==
    \A c \in Callers : pc[c] \in {"pinning", "unpinning"} =>
        /\ seen = pins
        /\ stage \in {"idle", "gathered"}
        /\ \A d \in Callers : d # c => pc[d] \notin {"pinning", "unpinning"}

\* A call has a revision; one that is being pinned has its manifest; one that
\* is being unpinned is needed by nobody.
CallsAreSound ==
    /\ vouched \subseteq facts
    /\ \A c \in Callers :
          /\ pc[c] # "idle" => rev[c] \in Revisions
          /\ pc[c] = "pinning" => rev[c] \in present
          /\ pc[c] # "blobs" => todo[c] = {}
          /\ pc[c] = "unpinning" =>
                rev[c] \notin vouched /\ \A d \in Callers : pc[d] = "pinned" => rev[d] # rev[c]

\* A snapshot holds what it has passed, or was deprived of something it reused.
SnapshotsHold ==
    \A c \in Callers : pc[c] \in Snapshotting =>
        /\ Content[rev[c]] \ todo[c] \subseteq present \/ rev[c] \in exposed
        /\ pc[c] # "blobs" => rev[c] \in present \/ rev[c] \in exposed

\* A manifest in the store has its blobs, or lost one before it was a root.
ManifestsWhole ==
    \A r \in Revisions : r \in present => Content[r] \subseteq present \/ r \in exposed

\* What a snapshot has written itself is there and as young as the snapshot.
OwnAreYoung ==
    \A c \in Callers : pc[c] \in Snapshotting =>
        \A o \in Written(c) \ reused[c] : o \in present /\ born[o] >= begun[c]

\* Snapshots are shorter than the age that protects them.
SnapshotsArePrompt ==
    \A c \in Callers : pc[c] \in Snapshotting =>
        /\ begun[c] <= now /\ now < begun[c] + MinAge
        /\ stage \in Active => cutoff < begun[c]

CutoffIsPast == stage \in Active => cutoff <= now - MinAge

\* A collection has marked the facts that it gathered and every pin that exists
\* while it runs.
RootsAreMarked ==
    stage \in Active => marked = roots \cup pins /\ marked \subseteq present

\* What it is about to unlink is old and belongs to nothing it has marked.
VictimsAreFree ==
    /\ stage \in {"manifests", "blobs"} =>
          /\ \A r \in marked : Content[r] \subseteq keep
          /\ \A v \in victims : v \in present /\ born[v] <= cutoff
    /\ stage = "manifests" => victims \subseteq Revisions /\ victims \cap marked = {}
    /\ stage = "blobs" => victims \subseteq Blobs /\ victims \cap keep = {}

StoreInv ==
    /\ TypeOK /\ ChainIsSerial /\ CallsAreSound /\ SnapshotsHold /\ ManifestsWhole /\ OwnAreYoung
    /\ SnapshotsArePrompt /\ CutoffIsPast /\ RootsAreMarked /\ VictimsAreFree
    /\ PinsStay /\ RootsWhole

-----------------------------------------------------------------------------

\* Every step keeps the type of every variable.
LEMMA TypeStep ==
  ASSUME TypeOK, CallsAreSound, [Next]_vars
  PROVE  TypeOK'
<1> USE DEF TypeOK, Objects, Stages, Snapshotting, Points
<1>1. ASSUME NEW c \in Callers, NEW r \in Revisions, Begin(c, r) PROVE TypeOK'
  BY <1>1, ContentIsBlobs DEF Begin, store, caller, collection, history
<1>2. ASSUME NEW c \in Callers, NEW r \in Revisions, Name(c, r) PROVE TypeOK'
  BY <1>2, ContentIsBlobs DEF Name, HasManifest, store, caller, collection, history
<1>3. ASSUME NEW c \in Callers, NEW r \in Revisions, ReadUnpin(c, r) PROVE TypeOK'
  BY <1>3 DEF ReadUnpin, Free, store, caller, collection, history
<1>4. ASSUME NEW c \in Callers, NEW b \in Blobs, WriteBlob(c, b) PROVE TypeOK'
  <2>1. present' \subseteq Objects /\ born' \in [Objects -> Nat]
    BY <1>4 DEF WriteBlob, WriteObject
  <2>2. todo' \in [Callers -> SUBSET Blobs] /\ reused' \in [Callers -> SUBSET Objects]
    BY <1>4 DEF WriteBlob
  <2> QED
    BY <1>4, <2>1, <2>2 DEF WriteBlob, caller, collection, history
<1>5. ASSUME NEW c \in Callers, WriteManifest(c) PROVE TypeOK'
  <2>1. rev[c] \in Revisions
    BY <1>5 DEF WriteManifest, CallsAreSound
  <2>2. present' \subseteq Objects /\ born' \in [Objects -> Nat]
    BY <1>5, <2>1 DEF WriteManifest, WriteObject
  <2>3. pc' \in [Callers -> Points] /\ reused' \in [Callers -> SUBSET Objects]
    BY <1>5, <2>1 DEF WriteManifest
  <2> QED
    BY <1>5, <2>2, <2>3 DEF WriteManifest, caller, collection, history
<1>6. ASSUME NEW c \in Callers, GiveUp(c) PROVE TypeOK'
  BY <1>6 DEF GiveUp, Return, store, caller, collection, history
<1>7. ASSUME NEW c \in Callers, ReadBack(c) PROVE TypeOK'
  BY <1>7 DEF ReadBack, HasManifest, store, caller, collection, history
<1>8. ASSUME NEW c \in Callers, RecordDefinition(c) PROVE TypeOK'
  <2>1. rev[c] \in Revisions
    BY <1>8 DEF RecordDefinition, CallsAreSound
  <2> QED
    BY <1>8, <2>1 DEF RecordDefinition, Return, store, caller, collection, history
<1>9. ASSUME NEW c \in Callers, RecordBinding(c) PROVE TypeOK'
  <2>1. rev[c] \in Revisions
    BY <1>9 DEF RecordBinding, CallsAreSound
  <2> QED
    BY <1>9, <2>1 DEF RecordBinding, store, caller, collection, history
<1>10. ASSUME NEW c \in Callers, ReadPins(c) PROVE TypeOK'
  BY <1>10 DEF ReadPins, HasManifest, Free, store, caller, collection, history
<1>11. ASSUME NEW c \in Callers, WritePins(c) PROVE TypeOK'
  <2>1. rev[c] \in Revisions
    BY <1>11 DEF WritePins, CallsAreSound
  <2> QED
    BY <1>11, <2>1 DEF WritePins, store, caller, collection, history
<1>12. ASSUME NEW c \in Callers, Record(c) PROVE TypeOK'
  <2>1. rev[c] \in Revisions
    BY <1>12 DEF Record, CallsAreSound
  <2> QED
    BY <1>12, <2>1 DEF Record, Return, store, caller, collection, history
<1>13. ASSUME NEW c \in Callers, WriteUnpin(c) PROVE TypeOK'
  BY <1>13 DEF WriteUnpin, Return, store, caller, collection, history
<1>14. ASSUME Gather PROVE TypeOK'
  BY <1>14 DEF Gather, store, caller, collection, history
<1>15. ASSUME Mark PROVE TypeOK'
  BY <1>15, AgesAreNumbers DEF Mark, HasManifest, Free, store, caller, collection, history
<1>16. ASSUME ListManifests PROVE TypeOK'
  BY <1>16, ContentIsBlobs DEF ListManifests, Retained, Listed, store, caller, collection, history
<1>17. ASSUME ListBlobs PROVE TypeOK'
  BY <1>17 DEF ListBlobs, Listed, store, caller, collection, history
<1>18. ASSUME Stop PROVE TypeOK'
  BY <1>18 DEF Stop, NoCollection, store, caller, collection, history
<1>19. ASSUME NEW r \in Revisions, SweepManifest(r) PROVE TypeOK'
  <2>1. Deprived(r) \subseteq Revisions
    BY DEF Deprived
  <2> QED
    BY <1>19, <2>1 DEF SweepManifest, Sweep, store, caller, collection, history
<1>20. ASSUME NEW b \in Blobs, SweepBlob(b) PROVE TypeOK'
  <2>1. Deprived(b) \subseteq Revisions
    BY DEF Deprived
  <2> QED
    BY <1>20, <2>1 DEF SweepBlob, Sweep, store, caller, collection, history
<1>21. ASSUME Tick PROVE TypeOK'
  BY <1>21 DEF Tick, store, caller, collection, history
<1>22. ASSUME Crash PROVE TypeOK'
  BY <1>22 DEF Crash, NoCollection, store, caller, collection, history
<1>23. CASE UNCHANGED vars
  BY <1>23 DEF vars, store, caller, collection, history
<1> QED
  BY <1>1, <1>2, <1>3, <1>4, <1>5, <1>6, <1>7, <1>8, <1>9, <1>10, <1>11, <1>12, <1>13, <1>14, <1>15, <1>16, <1>17, <1>18, <1>19, <1>20, <1>21, <1>22, <1>23 DEF Next, CallerStep, Collect

\* serializeMaintenance: an operation of the chain begins only when no other is
\* under way, so the pins it has read are the pins it replaces.
LEMMA ChainStep ==
  ASSUME TypeOK, ChainIsSerial, [Next]_vars
  PROVE  ChainIsSerial'
<1> USE DEF TypeOK, ChainIsSerial, Points, Snapshotting
<1>1. ASSUME NEW c \in Callers, NEW r \in Revisions, Begin(c, r) PROVE ChainIsSerial'
  BY <1>1 DEF Begin, store, caller, collection, history
<1>2. ASSUME NEW c \in Callers, NEW r \in Revisions, Name(c, r) PROVE ChainIsSerial'
  BY <1>2 DEF Name, HasManifest, store, caller, collection, history
<1>3. ASSUME NEW c \in Callers, NEW r \in Revisions, ReadUnpin(c, r) PROVE ChainIsSerial'
  BY <1>3 DEF ReadUnpin, Free, store, caller, collection, history
<1>4. ASSUME NEW c \in Callers, NEW b \in Blobs, WriteBlob(c, b) PROVE ChainIsSerial'
  BY <1>4 DEF WriteBlob, WriteObject, store, caller, collection, history
<1>5. ASSUME NEW c \in Callers, WriteManifest(c) PROVE ChainIsSerial'
  BY <1>5 DEF WriteManifest, WriteObject, store, caller, collection, history
<1>6. ASSUME NEW c \in Callers, GiveUp(c) PROVE ChainIsSerial'
  BY <1>6 DEF GiveUp, Return, store, caller, collection, history
<1>7. ASSUME NEW c \in Callers, ReadBack(c) PROVE ChainIsSerial'
  BY <1>7 DEF ReadBack, HasManifest, store, caller, collection, history
<1>8. ASSUME NEW c \in Callers, RecordDefinition(c) PROVE ChainIsSerial'
  BY <1>8 DEF RecordDefinition, Return, store, caller, collection, history
<1>9. ASSUME NEW c \in Callers, RecordBinding(c) PROVE ChainIsSerial'
  BY <1>9 DEF RecordBinding, store, caller, collection, history
<1>10. ASSUME NEW c \in Callers, ReadPins(c) PROVE ChainIsSerial'
  BY <1>10 DEF ReadPins, HasManifest, Free, store, caller, collection, history
<1>11. ASSUME NEW c \in Callers, WritePins(c) PROVE ChainIsSerial'
  BY <1>11 DEF WritePins, store, caller, collection, history
<1>12. ASSUME NEW c \in Callers, Record(c) PROVE ChainIsSerial'
  BY <1>12 DEF Record, Return, store, caller, collection, history
<1>13. ASSUME NEW c \in Callers, WriteUnpin(c) PROVE ChainIsSerial'
  BY <1>13 DEF WriteUnpin, Return, store, caller, collection, history
<1>14. ASSUME Gather PROVE ChainIsSerial'
  BY <1>14 DEF Gather, store, caller, collection, history
<1>15. ASSUME Mark PROVE ChainIsSerial'
  BY <1>15 DEF Mark, HasManifest, Free, store, caller, collection, history
<1>16. ASSUME ListManifests PROVE ChainIsSerial'
  BY <1>16 DEF ListManifests, Retained, Listed, store, caller, collection, history
<1>17. ASSUME ListBlobs PROVE ChainIsSerial'
  BY <1>17 DEF ListBlobs, Listed, store, caller, collection, history
<1>18. ASSUME Stop PROVE ChainIsSerial'
  BY <1>18 DEF Stop, NoCollection, store, caller, collection, history
<1>19. ASSUME NEW r \in Revisions, SweepManifest(r) PROVE ChainIsSerial'
  BY <1>19 DEF SweepManifest, Sweep, store, caller, collection, history
<1>20. ASSUME NEW b \in Blobs, SweepBlob(b) PROVE ChainIsSerial'
  BY <1>20 DEF SweepBlob, Sweep, store, caller, collection, history
<1>21. ASSUME Tick PROVE ChainIsSerial'
  BY <1>21 DEF Tick, store, caller, collection, history
<1>22. ASSUME Crash PROVE ChainIsSerial'
  BY <1>22 DEF Crash, NoCollection, store, caller, collection, history
<1>23. CASE UNCHANGED vars
  BY <1>23 DEF vars, store, caller, collection, history
<1> QED
  BY <1>1, <1>2, <1>3, <1>4, <1>5, <1>6, <1>7, <1>8, <1>9, <1>10, <1>11, <1>12, <1>13, <1>14, <1>15, <1>16, <1>17, <1>18, <1>19, <1>20, <1>21, <1>22, <1>23 DEF Next, CallerStep, Collect

\* A call keeps its revision, and its manifest while it pins: a collection does
\* not run beside a pin operation, and an unpin is of nothing that is needed.
LEMMA CallsStep ==
  ASSUME TypeOK, ChainIsSerial, CallsAreSound, [Next]_vars
  PROVE  CallsAreSound'
<1> USE DEF TypeOK, Snapshotting, Points, Stages, Objects, CallsAreSound, ChainIsSerial
<1>1. ASSUME NEW c \in Callers, NEW r \in Revisions, Begin(c, r) PROVE CallsAreSound'
  BY <1>1 DEF Begin, store, caller, collection, history
<1>2. ASSUME NEW c \in Callers, NEW r \in Revisions, Name(c, r) PROVE CallsAreSound'
  BY <1>2 DEF Name, HasManifest, store, caller, collection, history
<1>3. ASSUME NEW c \in Callers, NEW r \in Revisions, ReadUnpin(c, r) PROVE CallsAreSound'
  BY <1>3 DEF ReadUnpin, Free, store, caller, collection, history
<1>4. ASSUME NEW c \in Callers, NEW b \in Blobs, WriteBlob(c, b) PROVE CallsAreSound'
  BY <1>4 DEF WriteBlob, WriteObject, store, caller, collection, history
<1>5. ASSUME NEW c \in Callers, WriteManifest(c) PROVE CallsAreSound'
  BY <1>5 DEF WriteManifest, WriteObject, store, caller, collection, history
<1>6. ASSUME NEW c \in Callers, GiveUp(c) PROVE CallsAreSound'
  BY <1>6 DEF GiveUp, Return, store, caller, collection, history
<1>7. ASSUME NEW c \in Callers, ReadBack(c) PROVE CallsAreSound'
  BY <1>7 DEF ReadBack, HasManifest, store, caller, collection, history
<1>8. ASSUME NEW c \in Callers, RecordDefinition(c) PROVE CallsAreSound'
  BY <1>8 DEF RecordDefinition, Return, store, caller, collection, history
<1>9. ASSUME NEW c \in Callers, RecordBinding(c) PROVE CallsAreSound'
  BY <1>9 DEF RecordBinding, store, caller, collection, history
<1>10. ASSUME NEW c \in Callers, ReadPins(c) PROVE CallsAreSound'
  BY <1>10 DEF ReadPins, HasManifest, Free, store, caller, collection, history
<1>11. ASSUME NEW c \in Callers, WritePins(c) PROVE CallsAreSound'
  BY <1>11 DEF WritePins, store, caller, collection, history
<1>12. ASSUME NEW c \in Callers, Record(c) PROVE CallsAreSound'
  BY <1>12 DEF Record, Return, store, caller, collection, history
<1>13. ASSUME NEW c \in Callers, WriteUnpin(c) PROVE CallsAreSound'
  BY <1>13 DEF WriteUnpin, Return, store, caller, collection, history
<1>14. ASSUME Gather PROVE CallsAreSound'
  BY <1>14 DEF Gather, store, caller, collection, history
<1>15. ASSUME Mark PROVE CallsAreSound'
  BY <1>15 DEF Mark, HasManifest, Free, store, caller, collection, history
<1>16. ASSUME ListManifests PROVE CallsAreSound'
  BY <1>16 DEF ListManifests, Retained, Listed, store, caller, collection, history
<1>17. ASSUME ListBlobs PROVE CallsAreSound'
  BY <1>17 DEF ListBlobs, Listed, store, caller, collection, history
<1>18. ASSUME Stop PROVE CallsAreSound'
  BY <1>18 DEF Stop, NoCollection, store, caller, collection, history
<1>19. ASSUME NEW r \in Revisions, SweepManifest(r) PROVE CallsAreSound'
  BY <1>19 DEF SweepManifest, Sweep, store, caller, collection, history
<1>20. ASSUME NEW b \in Blobs, SweepBlob(b) PROVE CallsAreSound'
  BY <1>20 DEF SweepBlob, Sweep, store, caller, collection, history
<1>21. ASSUME Tick PROVE CallsAreSound'
  BY <1>21 DEF Tick, store, caller, collection, history
<1>22. ASSUME Crash PROVE CallsAreSound'
  BY <1>22 DEF Crash, NoCollection, store, caller, collection, history
<1>23. CASE UNCHANGED vars
  BY <1>23 DEF vars, store, caller, collection, history
<1> QED
  BY <1>1, <1>2, <1>3, <1>4, <1>5, <1>6, <1>7, <1>8, <1>9, <1>10, <1>11, <1>12, <1>13, <1>14, <1>15, <1>16, <1>17, <1>18, <1>19, <1>20, <1>21, <1>22, <1>23 DEF Next, CallerStep, Collect

\* What a collection unlinks is older than every snapshot under way, so it is
\* nothing that the snapshot has written itself.
LEMMA SweptIsOld ==
  ASSUME TypeOK, CallsAreSound, OwnAreYoung, SnapshotsArePrompt, VictimsAreFree,
         stage \in {"manifests", "blobs"}, NEW v \in victims,
         NEW c \in Callers, pc[c] \in Snapshotting
  PROVE  v \notin Written(c) \ reused[c]
<1>1. cutoff < begun[c] /\ born[v] <= cutoff
  BY DEF SnapshotsArePrompt, VictimsAreFree, Active
<1>2. v \in Objects /\ born[v] \in Int /\ cutoff \in Int /\ begun[c] \in Int
  BY DEF TypeOK
<1>3. ~(born[v] >= begun[c])
  BY <1>1, <1>2
<1> QED
  BY <1>3 DEF OwnAreYoung

\* What a collection unlinks is no root and belongs to none.
LEMMA RootsAreSpared ==
  ASSUME TypeOK, RootsAreMarked, VictimsAreFree, stage \in {"manifests", "blobs"},
         NEW v \in victims, NEW r \in roots \cup pins
  PROVE  v # r /\ v \notin Content[r]
<1>1. r \in marked /\ r \in Revisions /\ Content[r] \subseteq Blobs
  BY ContentIsBlobs DEF RootsAreMarked, Active, TypeOK
<1>2. CASE stage = "manifests"
  BY <1>1, <1>2, NamesAreDistinct DEF VictimsAreFree
<1>3. CASE stage = "blobs"
  BY <1>1, <1>3, NamesAreDistinct DEF VictimsAreFree
<1> QED
  BY <1>2, <1>3

\* A sweep takes nothing that a running call holds, or it leaves the revision
\* exposed: what the call wrote is too young, what it reused is recorded.
LEMMA SweepSpares ==
  ASSUME TypeOK, CallsAreSound, SnapshotsHold, OwnAreYoung, SnapshotsArePrompt,
         RootsAreMarked, VictimsAreFree, stage \in {"manifests", "blobs"},
         NEW o, Sweep(o)
  PROVE  SnapshotsHold'
<1>1. /\ o \in victims /\ present' = present \ {o} /\ exposed' = exposed \cup Deprived(o)
      /\ UNCHANGED <<pc, rev, todo, reused>>
  BY DEF Sweep, caller
<1> SUFFICES ASSUME NEW c \in Callers, pc[c] \in Snapshotting, rev[c] \notin exposed'
             PROVE  /\ Content[rev[c]] \ todo[c] \subseteq present'
                    /\ pc[c] # "blobs" => rev[c] \in present'
  BY <1>1 DEF SnapshotsHold
<1>2. /\ Content[rev[c]] \ todo[c] \subseteq present
      /\ pc[c] # "blobs" => rev[c] \in present
      /\ rev[c] \in Revisions
  BY <1>1 DEF SnapshotsHold, CallsAreSound, Snapshotting
<1>3. CASE rev[c] \in roots \cup pins
  <2>1. o # rev[c] /\ o \notin Content[rev[c]]
    BY <1>1, <1>3, RootsAreSpared
  <2> QED
    BY <1>1, <1>2, <2>1
<1>4. CASE rev[c] \notin roots \cup pins /\ o \in reused[c]
  <2>1. o # rev[c] /\ o \notin Content[rev[c]]
    BY <1>1, <1>2, <1>4 DEF Deprived
  <2> QED
    BY <1>1, <1>2, <2>1
<1>5. CASE o \notin reused[c]
  <2>1. o \notin Written(c)
    BY <1>1, <1>5, SweptIsOld
  <2> QED
    BY <1>1, <1>2, <2>1 DEF Written
<1> QED
  BY <1>3, <1>4, <1>5

\* A snapshot keeps what it has passed: what it wrote is too young to be swept,
\* and what it reused leaves it exposed.
LEMMA SnapshotsStep ==
  ASSUME TypeOK, CallsAreSound, SnapshotsHold, ManifestsWhole, OwnAreYoung, SnapshotsArePrompt,
         RootsAreMarked, VictimsAreFree, [Next]_vars
  PROVE  SnapshotsHold'
<1> USE DEF TypeOK, Snapshotting, Points, SnapshotsHold
<1>1. ASSUME NEW c \in Callers, NEW r \in Revisions, Begin(c, r) PROVE SnapshotsHold'
  BY <1>1 DEF Begin, store, caller, collection, history
<1>2. ASSUME NEW c \in Callers, NEW r \in Revisions, Name(c, r) PROVE SnapshotsHold'
  BY <1>2, ContentIsBlobs DEF Name, HasManifest, ManifestsWhole, store, caller, collection, history
<1>3. ASSUME NEW c \in Callers, NEW r \in Revisions, ReadUnpin(c, r) PROVE SnapshotsHold'
  BY <1>3 DEF ReadUnpin, store, caller, collection, history
<1>4. ASSUME NEW c \in Callers, NEW b \in Blobs, WriteBlob(c, b) PROVE SnapshotsHold'
  BY <1>4 DEF WriteBlob, WriteObject, store, caller, collection, history
<1>5. ASSUME NEW c \in Callers, WriteManifest(c) PROVE SnapshotsHold'
  BY <1>5 DEF WriteManifest, WriteObject, store, caller, collection, history
<1>6. ASSUME NEW c \in Callers, GiveUp(c) PROVE SnapshotsHold'
  BY <1>6 DEF GiveUp, Return, store, caller, collection, history
<1>7. ASSUME NEW c \in Callers, ReadBack(c) PROVE SnapshotsHold'
  BY <1>7 DEF ReadBack, HasManifest, store, caller, collection, history
<1>8. ASSUME NEW c \in Callers, RecordDefinition(c) PROVE SnapshotsHold'
  BY <1>8 DEF RecordDefinition, Return, store, caller, collection, history
<1>9. ASSUME NEW c \in Callers, RecordBinding(c) PROVE SnapshotsHold'
  BY <1>9 DEF RecordBinding, store, caller, collection, history
<1>10. ASSUME NEW c \in Callers, ReadPins(c) PROVE SnapshotsHold'
  BY <1>10 DEF ReadPins, HasManifest, CallsAreSound, store, caller, collection, history
<1>11. ASSUME NEW c \in Callers, WritePins(c) PROVE SnapshotsHold'
  BY <1>11 DEF WritePins, store, caller, collection, history
<1>12. ASSUME NEW c \in Callers, Record(c) PROVE SnapshotsHold'
  BY <1>12 DEF Record, Return, store, caller, collection, history
<1>13. ASSUME NEW c \in Callers, WriteUnpin(c) PROVE SnapshotsHold'
  BY <1>13 DEF WriteUnpin, Return, store, caller, collection, history
<1>14. ASSUME Gather PROVE SnapshotsHold'
  BY <1>14 DEF Gather, store, caller, collection, history
<1>15. ASSUME Mark PROVE SnapshotsHold'
  BY <1>15 DEF Mark, HasManifest, store, caller, collection, history
<1>16. ASSUME ListManifests PROVE SnapshotsHold'
  BY <1>16 DEF ListManifests, Retained, Listed, store, caller, collection, history
<1>17. ASSUME ListBlobs PROVE SnapshotsHold'
  BY <1>17 DEF ListBlobs, Listed, store, caller, collection, history
<1>18. ASSUME Stop PROVE SnapshotsHold'
  BY <1>18 DEF Stop, NoCollection, store, caller, collection, history
<1>19. ASSUME NEW r \in Revisions, SweepManifest(r) PROVE SnapshotsHold'
  <2>1. stage \in {"manifests", "blobs"} /\ Sweep(r)
    BY <1>19 DEF SweepManifest
  <2> QED
    BY <2>1, SweepSpares
<1>20. ASSUME NEW b \in Blobs, SweepBlob(b) PROVE SnapshotsHold'
  <2>1. stage \in {"manifests", "blobs"} /\ Sweep(b)
    BY <1>20 DEF SweepBlob
  <2> QED
    BY <2>1, SweepSpares
<1>21. ASSUME Tick PROVE SnapshotsHold'
  BY <1>21 DEF Tick, store, caller, collection, history
<1>22. ASSUME Crash PROVE SnapshotsHold'
  BY <1>22 DEF Crash, NoCollection, store, caller, collection, history
<1>23. CASE UNCHANGED vars
  BY <1>23 DEF vars, store, caller, collection, history
<1> QED
  BY <1>1, <1>2, <1>3, <1>4, <1>5, <1>6, <1>7, <1>8, <1>9, <1>10, <1>11, <1>12, <1>13, <1>14, <1>15, <1>16, <1>17, <1>18, <1>19, <1>20, <1>21, <1>22, <1>23 DEF Next, CallerStep, Collect

\* What a snapshot links under a new name bears a time after its beginning.
LEMMA OwnStep ==
  ASSUME TypeOK, CallsAreSound, OwnAreYoung, SnapshotsArePrompt, VictimsAreFree, [Next]_vars
  PROVE  OwnAreYoung'
<1> USE DEF TypeOK, Snapshotting, Points, OwnAreYoung, Written
<1>1. ASSUME NEW c \in Callers, NEW r \in Revisions, Begin(c, r) PROVE OwnAreYoung'
  BY <1>1 DEF Begin, store, caller, collection, history
<1>2. ASSUME NEW c \in Callers, NEW r \in Revisions, Name(c, r) PROVE OwnAreYoung'
  BY <1>2 DEF Name, HasManifest, store, caller, collection, history
<1>3. ASSUME NEW c \in Callers, NEW r \in Revisions, ReadUnpin(c, r) PROVE OwnAreYoung'
  BY <1>3 DEF ReadUnpin, store, caller, collection, history
<1>4. ASSUME NEW c \in Callers, NEW b \in Blobs, WriteBlob(c, b) PROVE OwnAreYoung'
  <2> DEFINE new == IF b \in present THEN born ELSE [born EXCEPT ![b] = now]
  <2>1. /\ pc[c] = "blobs" /\ b \in todo[c] /\ present' = present \cup {b} /\ born' = new
        /\ todo' = [todo EXCEPT ![c] = todo[c] \ {b}]
        /\ reused' = [reused EXCEPT ![c] = reused[c] \cup (present \cap {b})]
        /\ UNCHANGED <<pc, rev, begun, now>>
    BY <1>4 DEF WriteBlob, WriteObject
  <2> SUFFICES ASSUME NEW d \in Callers, pc[d] \in Snapshotting, NEW o \in Written(d)' \ reused'[d]
               PROVE  o \in present' /\ born'[o] >= begun[d]
    BY <2>1
  <2>2. CASE o = b
    <3>1. b \notin present => born'[b] = now
      BY <2>1 DEF Objects
    <3>2. begun[d] <= now /\ begun[d] \in Nat /\ now \in Nat
      BY DEF SnapshotsArePrompt
    <3>3. CASE b \notin present
      BY <2>1, <2>2, <3>1, <3>2, <3>3
    <3>4. CASE b \in present /\ d # c
      BY <2>1, <2>2, <3>4
    <3>5. CASE b \in present /\ d = c
      BY <2>1, <2>2, <3>5
    <3> QED
      BY <3>3, <3>4, <3>5
  <2>3. CASE o # b
    <3>1. o \in Written(d) \ reused[d]
      BY <2>1, <2>3
    <3>2. o \in present /\ born[o] >= begun[d]
      BY <3>1
    <3>3. born'[o] = born[o]
      BY <2>1, <2>3, <3>2
    <3> QED
      BY <2>1, <3>2, <3>3
  <2> QED
    BY <2>2, <2>3
<1>5. ASSUME NEW c \in Callers, WriteManifest(c) PROVE OwnAreYoung'
  <2> DEFINE new == IF rev[c] \in present THEN born ELSE [born EXCEPT ![rev[c]] = now]
  <2>0. rev[c] \in Revisions /\ rev[c] \in Objects
    BY <1>5 DEF WriteManifest, CallsAreSound, Objects
  <2>1. /\ pc[c] = "blobs" /\ present' = present \cup {rev[c]} /\ born' = new
        /\ pc' = [pc EXCEPT ![c] = "pin"]
        /\ reused' = [reused EXCEPT ![c] = reused[c] \cup (present \cap {rev[c]})]
        /\ UNCHANGED <<todo, rev, begun, now>>
    BY <1>5 DEF WriteManifest, WriteObject
  <2> SUFFICES ASSUME NEW d \in Callers, pc'[d] \in Snapshotting, NEW o \in Written(d)' \ reused'[d]
               PROVE  o \in present' /\ born'[o] >= begun[d]
    BY <2>1
  <2>a. pc[d] \in Snapshotting
    BY <2>1
  <2>2. CASE o = rev[c] /\ o \notin present
    <3>1. born'[o] = now
      BY <2>0, <2>1, <2>2
    <3>2. begun[d] <= now /\ begun[d] \in Nat /\ now \in Nat
      BY <2>a DEF SnapshotsArePrompt
    <3> QED
      BY <2>1, <2>2, <3>1, <3>2
  <2>3. CASE ~(o = rev[c] /\ o \notin present)
    <3>1. o \in Written(d) \ reused[d]
      <4>1. CASE d = c
        BY <2>1, <2>3, <4>1
      <4>2. CASE d # c
        BY <2>1, <2>3, <4>2
      <4> QED
        BY <4>1, <4>2
    <3>2. o \in present /\ born[o] >= begun[d]
      BY <2>a, <3>1
    <3>3. born'[o] = born[o]
      BY <2>1, <2>3, <3>2
    <3> QED
      BY <2>1, <3>2, <3>3
  <2> QED
    BY <2>2, <2>3
<1>6. ASSUME NEW c \in Callers, GiveUp(c) PROVE OwnAreYoung'
  BY <1>6 DEF GiveUp, Return, store, caller, collection, history
<1>7. ASSUME NEW c \in Callers, ReadBack(c) PROVE OwnAreYoung'
  BY <1>7 DEF ReadBack, HasManifest, store, caller, collection, history
<1>8. ASSUME NEW c \in Callers, RecordDefinition(c) PROVE OwnAreYoung'
  BY <1>8 DEF RecordDefinition, Return, store, caller, collection, history
<1>9. ASSUME NEW c \in Callers, RecordBinding(c) PROVE OwnAreYoung'
  BY <1>9 DEF RecordBinding, store, caller, collection, history
<1>10. ASSUME NEW c \in Callers, ReadPins(c) PROVE OwnAreYoung'
  BY <1>10 DEF ReadPins, HasManifest, store, caller, collection, history
<1>11. ASSUME NEW c \in Callers, WritePins(c) PROVE OwnAreYoung'
  BY <1>11 DEF WritePins, store, caller, collection, history
<1>12. ASSUME NEW c \in Callers, Record(c) PROVE OwnAreYoung'
  BY <1>12 DEF Record, Return, store, caller, collection, history
<1>13. ASSUME NEW c \in Callers, WriteUnpin(c) PROVE OwnAreYoung'
  BY <1>13 DEF WriteUnpin, Return, store, caller, collection, history
<1>14. ASSUME Gather PROVE OwnAreYoung'
  BY <1>14 DEF Gather, store, caller, collection, history
<1>15. ASSUME Mark PROVE OwnAreYoung'
  BY <1>15 DEF Mark, HasManifest, store, caller, collection, history
<1>16. ASSUME ListManifests PROVE OwnAreYoung'
  BY <1>16 DEF ListManifests, Retained, Listed, store, caller, collection, history
<1>17. ASSUME ListBlobs PROVE OwnAreYoung'
  BY <1>17 DEF ListBlobs, Listed, store, caller, collection, history
<1>18. ASSUME Stop PROVE OwnAreYoung'
  BY <1>18 DEF Stop, NoCollection, store, caller, collection, history
<1>19. ASSUME NEW r \in Revisions, SweepManifest(r) PROVE OwnAreYoung'
  <2>1. /\ stage = "manifests" /\ r \in victims
        /\ present' = present \ {r} /\ exposed' = exposed \cup Deprived(r)
        /\ UNCHANGED <<pc, rev, todo, reused, begun, born>>
    BY <1>19 DEF SweepManifest, Sweep, caller, history
  <2> SUFFICES ASSUME NEW d \in Callers, pc[d] \in Snapshotting, NEW o \in Written(d) \ reused[d]
               PROVE  o \in present' /\ born[o] >= begun[d]
    BY <2>1
  <2>2. r \notin Written(d) \ reused[d]
    BY <2>1, SweptIsOld
  <2> QED
    BY <2>1, <2>2
<1>20. ASSUME NEW b \in Blobs, SweepBlob(b) PROVE OwnAreYoung'
  <2>1. /\ stage = "blobs" /\ b \in victims
        /\ present' = present \ {b} /\ exposed' = exposed \cup Deprived(b)
        /\ UNCHANGED <<pc, rev, todo, reused, begun, born>>
    BY <1>20 DEF SweepBlob, Sweep, caller, history
  <2> SUFFICES ASSUME NEW d \in Callers, pc[d] \in Snapshotting, NEW o \in Written(d) \ reused[d]
               PROVE  o \in present' /\ born[o] >= begun[d]
    BY <2>1
  <2>2. b \notin Written(d) \ reused[d]
    BY <2>1, SweptIsOld
  <2> QED
    BY <2>1, <2>2
<1>21. ASSUME Tick PROVE OwnAreYoung'
  BY <1>21 DEF Tick, store, caller, collection, history
<1>22. ASSUME Crash PROVE OwnAreYoung'
  BY <1>22 DEF Crash, NoCollection, store, caller, collection, history
<1>23. CASE UNCHANGED vars
  BY <1>23 DEF vars, store, caller, collection, history
<1> QED
  BY <1>1, <1>2, <1>3, <1>4, <1>5, <1>6, <1>7, <1>8, <1>9, <1>10, <1>11, <1>12, <1>13, <1>14, <1>15, <1>16, <1>17, <1>18, <1>19, <1>20, <1>21, <1>22, <1>23 DEF Next, CallerStep, Collect

\* The clock does not pass the age limit under a running snapshot.
LEMMA PromptStep ==
  ASSUME TypeOK, SnapshotsArePrompt, CutoffIsPast, [Next]_vars
  PROVE  SnapshotsArePrompt'
<1> USE DEF TypeOK, Snapshotting, Points, SnapshotsArePrompt, CutoffIsPast, Active
<1>1. ASSUME NEW c \in Callers, NEW r \in Revisions, Begin(c, r) PROVE SnapshotsArePrompt'
  BY <1>1, AgesAreNumbers DEF Begin, store, caller, collection, history
<1>2. ASSUME NEW c \in Callers, NEW r \in Revisions, Name(c, r) PROVE SnapshotsArePrompt'
  BY <1>2, AgesAreNumbers DEF Name, HasManifest, store, caller, collection, history
<1>3. ASSUME NEW c \in Callers, NEW r \in Revisions, ReadUnpin(c, r) PROVE SnapshotsArePrompt'
  BY <1>3 DEF ReadUnpin, store, caller, collection, history
<1>4. ASSUME NEW c \in Callers, NEW b \in Blobs, WriteBlob(c, b) PROVE SnapshotsArePrompt'
  BY <1>4 DEF WriteBlob, WriteObject, store, caller, collection, history
<1>5. ASSUME NEW c \in Callers, WriteManifest(c) PROVE SnapshotsArePrompt'
  BY <1>5 DEF WriteManifest, WriteObject, store, caller, collection, history
<1>6. ASSUME NEW c \in Callers, GiveUp(c) PROVE SnapshotsArePrompt'
  BY <1>6 DEF GiveUp, Return, store, caller, collection, history
<1>7. ASSUME NEW c \in Callers, ReadBack(c) PROVE SnapshotsArePrompt'
  BY <1>7 DEF ReadBack, HasManifest, store, caller, collection, history
<1>8. ASSUME NEW c \in Callers, RecordDefinition(c) PROVE SnapshotsArePrompt'
  BY <1>8 DEF RecordDefinition, Return, store, caller, collection, history
<1>9. ASSUME NEW c \in Callers, RecordBinding(c) PROVE SnapshotsArePrompt'
  BY <1>9 DEF RecordBinding, store, caller, collection, history
<1>10. ASSUME NEW c \in Callers, ReadPins(c) PROVE SnapshotsArePrompt'
  BY <1>10 DEF ReadPins, HasManifest, store, caller, collection, history
<1>11. ASSUME NEW c \in Callers, WritePins(c) PROVE SnapshotsArePrompt'
  BY <1>11 DEF WritePins, store, caller, collection, history
<1>12. ASSUME NEW c \in Callers, Record(c) PROVE SnapshotsArePrompt'
  BY <1>12 DEF Record, Return, store, caller, collection, history
<1>13. ASSUME NEW c \in Callers, WriteUnpin(c) PROVE SnapshotsArePrompt'
  BY <1>13 DEF WriteUnpin, Return, store, caller, collection, history
<1>14. ASSUME Gather PROVE SnapshotsArePrompt'
  BY <1>14 DEF Gather, store, caller, collection, history
<1>15. ASSUME Mark PROVE SnapshotsArePrompt'
  BY <1>15, AgesAreNumbers DEF Mark, HasManifest, store, caller, collection, history
<1>16. ASSUME ListManifests PROVE SnapshotsArePrompt'
  BY <1>16 DEF ListManifests, Retained, Listed, store, caller, collection, history
<1>17. ASSUME ListBlobs PROVE SnapshotsArePrompt'
  BY <1>17 DEF ListBlobs, Listed, store, caller, collection, history
<1>18. ASSUME Stop PROVE SnapshotsArePrompt'
  BY <1>18 DEF Stop, NoCollection, store, caller, collection, history
<1>19. ASSUME NEW r \in Revisions, SweepManifest(r) PROVE SnapshotsArePrompt'
  BY <1>19 DEF SweepManifest, Sweep, store, caller, collection, history
<1>20. ASSUME NEW b \in Blobs, SweepBlob(b) PROVE SnapshotsArePrompt'
  BY <1>20 DEF SweepBlob, Sweep, store, caller, collection, history
<1>21. ASSUME Tick PROVE SnapshotsArePrompt'
  BY <1>21, AgesAreNumbers DEF Tick, store, caller, collection, history
<1>22. ASSUME Crash PROVE SnapshotsArePrompt'
  BY <1>22 DEF Crash, NoCollection, store, caller, collection, history
<1>23. CASE UNCHANGED vars
  BY <1>23 DEF vars, store, caller, collection, history
<1> QED
  BY <1>1, <1>2, <1>3, <1>4, <1>5, <1>6, <1>7, <1>8, <1>9, <1>10, <1>11, <1>12, <1>13, <1>14, <1>15, <1>16, <1>17, <1>18, <1>19, <1>20, <1>21, <1>22, <1>23 DEF Next, CallerStep, Collect

\* The clock only moves away from the cutoff of a collection.
LEMMA CutoffStep ==
  ASSUME TypeOK, CutoffIsPast, [Next]_vars
  PROVE  CutoffIsPast'
<1> USE DEF TypeOK, CutoffIsPast, Active
<1>1. ASSUME NEW c \in Callers, NEW r \in Revisions, Begin(c, r) PROVE CutoffIsPast'
  BY <1>1 DEF Begin, store, caller, collection, history
<1>2. ASSUME NEW c \in Callers, NEW r \in Revisions, Name(c, r) PROVE CutoffIsPast'
  BY <1>2 DEF Name, HasManifest, store, caller, collection, history
<1>3. ASSUME NEW c \in Callers, NEW r \in Revisions, ReadUnpin(c, r) PROVE CutoffIsPast'
  BY <1>3 DEF ReadUnpin, store, caller, collection, history
<1>4. ASSUME NEW c \in Callers, NEW b \in Blobs, WriteBlob(c, b) PROVE CutoffIsPast'
  BY <1>4 DEF WriteBlob, WriteObject, store, caller, collection, history
<1>5. ASSUME NEW c \in Callers, WriteManifest(c) PROVE CutoffIsPast'
  BY <1>5 DEF WriteManifest, WriteObject, store, caller, collection, history
<1>6. ASSUME NEW c \in Callers, GiveUp(c) PROVE CutoffIsPast'
  BY <1>6 DEF GiveUp, Return, store, caller, collection, history
<1>7. ASSUME NEW c \in Callers, ReadBack(c) PROVE CutoffIsPast'
  BY <1>7 DEF ReadBack, HasManifest, store, caller, collection, history
<1>8. ASSUME NEW c \in Callers, RecordDefinition(c) PROVE CutoffIsPast'
  BY <1>8 DEF RecordDefinition, Return, store, caller, collection, history
<1>9. ASSUME NEW c \in Callers, RecordBinding(c) PROVE CutoffIsPast'
  BY <1>9 DEF RecordBinding, store, caller, collection, history
<1>10. ASSUME NEW c \in Callers, ReadPins(c) PROVE CutoffIsPast'
  BY <1>10 DEF ReadPins, HasManifest, store, caller, collection, history
<1>11. ASSUME NEW c \in Callers, WritePins(c) PROVE CutoffIsPast'
  BY <1>11 DEF WritePins, store, caller, collection, history
<1>12. ASSUME NEW c \in Callers, Record(c) PROVE CutoffIsPast'
  BY <1>12 DEF Record, Return, store, caller, collection, history
<1>13. ASSUME NEW c \in Callers, WriteUnpin(c) PROVE CutoffIsPast'
  BY <1>13 DEF WriteUnpin, Return, store, caller, collection, history
<1>14. ASSUME Gather PROVE CutoffIsPast'
  BY <1>14 DEF Gather, store, caller, collection, history
<1>15. ASSUME Mark PROVE CutoffIsPast'
  BY <1>15, AgesAreNumbers DEF Mark, HasManifest, store, caller, collection, history
<1>16. ASSUME ListManifests PROVE CutoffIsPast'
  BY <1>16 DEF ListManifests, Retained, Listed, store, caller, collection, history
<1>17. ASSUME ListBlobs PROVE CutoffIsPast'
  BY <1>17 DEF ListBlobs, Listed, store, caller, collection, history
<1>18. ASSUME Stop PROVE CutoffIsPast'
  BY <1>18 DEF Stop, NoCollection, store, caller, collection, history
<1>19. ASSUME NEW r \in Revisions, SweepManifest(r) PROVE CutoffIsPast'
  BY <1>19 DEF SweepManifest, Sweep, store, caller, collection, history
<1>20. ASSUME NEW b \in Blobs, SweepBlob(b) PROVE CutoffIsPast'
  BY <1>20 DEF SweepBlob, Sweep, store, caller, collection, history
<1>21. ASSUME Tick PROVE CutoffIsPast'
  BY <1>21, AgesAreNumbers DEF Tick, store, caller, collection, history
<1>22. ASSUME Crash PROVE CutoffIsPast'
  BY <1>22 DEF Crash, NoCollection, store, caller, collection, history
<1>23. CASE UNCHANGED vars
  BY <1>23 DEF vars, store, caller, collection, history
<1> QED
  BY <1>1, <1>2, <1>3, <1>4, <1>5, <1>6, <1>7, <1>8, <1>9, <1>10, <1>11, <1>12, <1>13, <1>14, <1>15, <1>16, <1>17, <1>18, <1>19, <1>20, <1>21, <1>22, <1>23 DEF Next, CallerStep, Collect

\* Pins do not change while a collection sweeps: they wait for the chain.
LEMMA RootsMarkedStep ==
  ASSUME TypeOK, ChainIsSerial, CallsAreSound, PinsStay, RootsAreMarked, VictimsAreFree, [Next]_vars
  PROVE  RootsAreMarked'
<1> USE DEF TypeOK, Active, ChainIsSerial, RootsAreMarked, PinsStay, Objects
<1>1. ASSUME NEW c \in Callers, NEW r \in Revisions, Begin(c, r) PROVE RootsAreMarked'
  BY <1>1 DEF Begin, store, caller, collection, history
<1>2. ASSUME NEW c \in Callers, NEW r \in Revisions, Name(c, r) PROVE RootsAreMarked'
  BY <1>2 DEF Name, HasManifest, store, caller, collection, history
<1>3. ASSUME NEW c \in Callers, NEW r \in Revisions, ReadUnpin(c, r) PROVE RootsAreMarked'
  BY <1>3 DEF ReadUnpin, store, caller, collection, history
<1>4. ASSUME NEW c \in Callers, NEW b \in Blobs, WriteBlob(c, b) PROVE RootsAreMarked'
  BY <1>4 DEF WriteBlob, WriteObject, store, caller, collection, history
<1>5. ASSUME NEW c \in Callers, WriteManifest(c) PROVE RootsAreMarked'
  BY <1>5 DEF WriteManifest, WriteObject, store, caller, collection, history
<1>6. ASSUME NEW c \in Callers, GiveUp(c) PROVE RootsAreMarked'
  BY <1>6 DEF GiveUp, Return, store, caller, collection, history
<1>7. ASSUME NEW c \in Callers, ReadBack(c) PROVE RootsAreMarked'
  BY <1>7 DEF ReadBack, HasManifest, store, caller, collection, history
<1>8. ASSUME NEW c \in Callers, RecordDefinition(c) PROVE RootsAreMarked'
  BY <1>8 DEF RecordDefinition, Return, store, caller, collection, history
<1>9. ASSUME NEW c \in Callers, RecordBinding(c) PROVE RootsAreMarked'
  BY <1>9 DEF RecordBinding, store, caller, collection, history
<1>10. ASSUME NEW c \in Callers, ReadPins(c) PROVE RootsAreMarked'
  BY <1>10 DEF ReadPins, HasManifest, store, caller, collection, history
<1>11. ASSUME NEW c \in Callers, WritePins(c) PROVE RootsAreMarked'
  <2>1. stage \in {"idle", "gathered"} /\ stage' = stage
    BY <1>11 DEF WritePins, collection
  <2> QED
    BY <2>1
<1>12. ASSUME NEW c \in Callers, Record(c) PROVE RootsAreMarked'
  BY <1>12 DEF Record, Return, store, caller, collection, history
<1>13. ASSUME NEW c \in Callers, WriteUnpin(c) PROVE RootsAreMarked'
  <2>1. stage \in {"idle", "gathered"} /\ stage' = stage
    BY <1>13 DEF WriteUnpin, collection
  <2> QED
    BY <2>1
<1>14. ASSUME Gather PROVE RootsAreMarked'
  BY <1>14 DEF Gather, store, caller, collection, history
<1>15. ASSUME Mark PROVE RootsAreMarked'
  BY <1>15 DEF Mark, HasManifest, store, caller, collection, history
<1>16. ASSUME ListManifests PROVE RootsAreMarked'
  BY <1>16 DEF ListManifests, Retained, Listed, store, caller, collection, history
<1>17. ASSUME ListBlobs PROVE RootsAreMarked'
  BY <1>17 DEF ListBlobs, Listed, store, caller, collection, history
<1>18. ASSUME Stop PROVE RootsAreMarked'
  BY <1>18 DEF Stop, NoCollection, store, caller, collection, history
<1>19. ASSUME NEW r \in Revisions, SweepManifest(r) PROVE RootsAreMarked'
  <2>1. /\ stage \in {"manifests", "blobs"} /\ r \in victims
        /\ present' = present \ {r} /\ UNCHANGED <<stage, roots, pins, marked>>
    BY <1>19 DEF SweepManifest, Sweep
  <2>2. r \notin marked
    BY <2>1, RootsAreSpared
  <2> QED
    BY <2>1, <2>2
<1>20. ASSUME NEW b \in Blobs, SweepBlob(b) PROVE RootsAreMarked'
  <2>1. /\ stage \in {"manifests", "blobs"} /\ b \in victims
        /\ present' = present \ {b} /\ UNCHANGED <<stage, roots, pins, marked>>
    BY <1>20 DEF SweepBlob, Sweep
  <2>2. b \notin marked
    BY <2>1, RootsAreSpared
  <2> QED
    BY <2>1, <2>2
<1>21. ASSUME Tick PROVE RootsAreMarked'
  BY <1>21 DEF Tick, store, caller, collection, history
<1>22. ASSUME Crash PROVE RootsAreMarked'
  BY <1>22 DEF Crash, NoCollection, store, caller, collection, history
<1>23. CASE UNCHANGED vars
  BY <1>23 DEF vars, store, caller, collection, history
<1> QED
  BY <1>1, <1>2, <1>3, <1>4, <1>5, <1>6, <1>7, <1>8, <1>9, <1>10, <1>11, <1>12, <1>13, <1>14, <1>15, <1>16, <1>17, <1>18, <1>19, <1>20, <1>21, <1>22, <1>23 DEF Next, CallerStep, Collect

\* What is listed for the sweep belongs to nothing retained.
LEMMA VictimsStep ==
  ASSUME TypeOK, RootsAreMarked, VictimsAreFree, [Next]_vars
  PROVE  VictimsAreFree'
<1> USE DEF TypeOK, VictimsAreFree, RootsAreMarked, Active, Objects
<1>1. ASSUME NEW c \in Callers, NEW r \in Revisions, Begin(c, r) PROVE VictimsAreFree'
  BY <1>1 DEF Begin, store, caller, collection, history
<1>2. ASSUME NEW c \in Callers, NEW r \in Revisions, Name(c, r) PROVE VictimsAreFree'
  BY <1>2 DEF Name, HasManifest, store, caller, collection, history
<1>3. ASSUME NEW c \in Callers, NEW r \in Revisions, ReadUnpin(c, r) PROVE VictimsAreFree'
  BY <1>3 DEF ReadUnpin, store, caller, collection, history
<1>4. ASSUME NEW c \in Callers, NEW b \in Blobs, WriteBlob(c, b) PROVE VictimsAreFree'
  BY <1>4 DEF WriteBlob, WriteObject, store, caller, collection, history
<1>5. ASSUME NEW c \in Callers, WriteManifest(c) PROVE VictimsAreFree'
  BY <1>5 DEF WriteManifest, WriteObject, store, caller, collection, history
<1>6. ASSUME NEW c \in Callers, GiveUp(c) PROVE VictimsAreFree'
  BY <1>6 DEF GiveUp, Return, store, caller, collection, history
<1>7. ASSUME NEW c \in Callers, ReadBack(c) PROVE VictimsAreFree'
  BY <1>7 DEF ReadBack, HasManifest, store, caller, collection, history
<1>8. ASSUME NEW c \in Callers, RecordDefinition(c) PROVE VictimsAreFree'
  BY <1>8 DEF RecordDefinition, Return, store, caller, collection, history
<1>9. ASSUME NEW c \in Callers, RecordBinding(c) PROVE VictimsAreFree'
  BY <1>9 DEF RecordBinding, store, caller, collection, history
<1>10. ASSUME NEW c \in Callers, ReadPins(c) PROVE VictimsAreFree'
  BY <1>10 DEF ReadPins, HasManifest, store, caller, collection, history
<1>11. ASSUME NEW c \in Callers, WritePins(c) PROVE VictimsAreFree'
  BY <1>11 DEF WritePins, store, caller, collection, history
<1>12. ASSUME NEW c \in Callers, Record(c) PROVE VictimsAreFree'
  BY <1>12 DEF Record, Return, store, caller, collection, history
<1>13. ASSUME NEW c \in Callers, WriteUnpin(c) PROVE VictimsAreFree'
  BY <1>13 DEF WriteUnpin, Return, store, caller, collection, history
<1>14. ASSUME Gather PROVE VictimsAreFree'
  BY <1>14 DEF Gather, store, caller, collection, history
<1>15. ASSUME Mark PROVE VictimsAreFree'
  BY <1>15 DEF Mark, HasManifest, store, caller, collection, history
<1>16. ASSUME ListManifests PROVE VictimsAreFree'
  BY <1>16 DEF ListManifests, Retained, Listed, store, caller, collection, history
<1>17. ASSUME ListBlobs PROVE VictimsAreFree'
  BY <1>17 DEF ListBlobs, Listed, store, caller, collection, history
<1>18. ASSUME Stop PROVE VictimsAreFree'
  BY <1>18 DEF Stop, NoCollection, store, caller, collection, history
<1>19. ASSUME NEW r \in Revisions, SweepManifest(r) PROVE VictimsAreFree'
  BY <1>19 DEF SweepManifest, Sweep, store, caller, collection, history
<1>20. ASSUME NEW b \in Blobs, SweepBlob(b) PROVE VictimsAreFree'
  BY <1>20 DEF SweepBlob, Sweep, store, caller, collection, history
<1>21. ASSUME Tick PROVE VictimsAreFree'
  BY <1>21 DEF Tick, store, caller, collection, history
<1>22. ASSUME Crash PROVE VictimsAreFree'
  BY <1>22 DEF Crash, NoCollection, store, caller, collection, history
<1>23. CASE UNCHANGED vars
  BY <1>23 DEF vars, store, caller, collection, history
<1> QED
  BY <1>1, <1>2, <1>3, <1>4, <1>5, <1>6, <1>7, <1>8, <1>9, <1>10, <1>11, <1>12, <1>13, <1>14, <1>15, <1>16, <1>17, <1>18, <1>19, <1>20, <1>21, <1>22, <1>23 DEF Next, CallerStep, Collect

\* A manifest is written when its blobs are there, and a blob that goes from
\* under one belongs to no root, so it leaves the revision exposed.
LEMMA ManifestsStep ==
  ASSUME TypeOK, CallsAreSound, SnapshotsHold, ManifestsWhole, RootsAreMarked, VictimsAreFree, [Next]_vars
  PROVE  ManifestsWhole'
<1> USE DEF TypeOK, CallsAreSound, ManifestsWhole, Points, Objects
<1>1. ASSUME NEW c \in Callers, NEW r \in Revisions, Begin(c, r) PROVE ManifestsWhole'
  BY <1>1 DEF Begin, store, caller, collection, history
<1>2. ASSUME NEW c \in Callers, NEW r \in Revisions, Name(c, r) PROVE ManifestsWhole'
  BY <1>2 DEF Name, HasManifest, store, caller, collection, history
<1>3. ASSUME NEW c \in Callers, NEW r \in Revisions, ReadUnpin(c, r) PROVE ManifestsWhole'
  BY <1>3 DEF ReadUnpin, store, caller, collection, history
<1>4. ASSUME NEW c \in Callers, NEW b \in Blobs, WriteBlob(c, b) PROVE ManifestsWhole'
  BY <1>4, NamesAreDistinct DEF WriteBlob, WriteObject, store, caller, collection, history
<1>5. ASSUME NEW c \in Callers, WriteManifest(c) PROVE ManifestsWhole'
  <2>1. /\ pc[c] = "blobs" /\ todo[c] = {} /\ rev[c] \in Revisions
        /\ present' = present \cup {rev[c]} /\ exposed' = exposed
    BY <1>5 DEF WriteManifest, WriteObject, history
  <2>2. Content[rev[c]] \subseteq present \/ rev[c] \in exposed
    BY <2>1 DEF SnapshotsHold, Snapshotting
  <2> QED
    BY <2>1, <2>2
<1>6. ASSUME NEW c \in Callers, GiveUp(c) PROVE ManifestsWhole'
  BY <1>6 DEF GiveUp, Return, store, caller, collection, history
<1>7. ASSUME NEW c \in Callers, ReadBack(c) PROVE ManifestsWhole'
  BY <1>7 DEF ReadBack, HasManifest, store, caller, collection, history
<1>8. ASSUME NEW c \in Callers, RecordDefinition(c) PROVE ManifestsWhole'
  BY <1>8 DEF RecordDefinition, Return, store, caller, collection, history
<1>9. ASSUME NEW c \in Callers, RecordBinding(c) PROVE ManifestsWhole'
  BY <1>9 DEF RecordBinding, store, caller, collection, history
<1>10. ASSUME NEW c \in Callers, ReadPins(c) PROVE ManifestsWhole'
  BY <1>10 DEF ReadPins, HasManifest, store, caller, collection, history
<1>11. ASSUME NEW c \in Callers, WritePins(c) PROVE ManifestsWhole'
  BY <1>11 DEF WritePins, store, caller, collection, history
<1>12. ASSUME NEW c \in Callers, Record(c) PROVE ManifestsWhole'
  BY <1>12 DEF Record, Return, store, caller, collection, history
<1>13. ASSUME NEW c \in Callers, WriteUnpin(c) PROVE ManifestsWhole'
  BY <1>13 DEF WriteUnpin, Return, store, caller, collection, history
<1>14. ASSUME Gather PROVE ManifestsWhole'
  BY <1>14 DEF Gather, store, caller, collection, history
<1>15. ASSUME Mark PROVE ManifestsWhole'
  BY <1>15 DEF Mark, HasManifest, store, caller, collection, history
<1>16. ASSUME ListManifests PROVE ManifestsWhole'
  BY <1>16 DEF ListManifests, Retained, Listed, store, caller, collection, history
<1>17. ASSUME ListBlobs PROVE ManifestsWhole'
  BY <1>17 DEF ListBlobs, Listed, store, caller, collection, history
<1>18. ASSUME Stop PROVE ManifestsWhole'
  BY <1>18 DEF Stop, NoCollection, store, caller, collection, history
<1>19. ASSUME NEW r \in Revisions, SweepManifest(r) PROVE ManifestsWhole'
  <2>1. /\ stage \in {"manifests", "blobs"} /\ r \in victims
        /\ present' = present \ {r} /\ exposed' = exposed \cup Deprived(r)
    BY <1>19 DEF SweepManifest, Sweep
  <2> SUFFICES ASSUME NEW q \in Revisions, q \in present, r \in Content[q], r # q
               PROVE  q \in exposed'
    BY <2>1
  <2>2. q \notin roots \cup pins
    BY <2>1, RootsAreSpared
  <2> QED
    BY <2>1, <2>2 DEF Deprived, HasManifest
<1>20. ASSUME NEW b \in Blobs, SweepBlob(b) PROVE ManifestsWhole'
  <2>1. /\ stage \in {"manifests", "blobs"} /\ b \in victims
        /\ present' = present \ {b} /\ exposed' = exposed \cup Deprived(b)
    BY <1>20 DEF SweepBlob, Sweep
  <2> SUFFICES ASSUME NEW q \in Revisions, q \in present, b \in Content[q], b # q
               PROVE  q \in exposed'
    BY <2>1
  <2>2. q \notin roots \cup pins
    BY <2>1, RootsAreSpared
  <2> QED
    BY <2>1, <2>2 DEF Deprived, HasManifest
<1>21. ASSUME Tick PROVE ManifestsWhole'
  BY <1>21 DEF Tick, store, caller, collection, history
<1>22. ASSUME Crash PROVE ManifestsWhole'
  BY <1>22 DEF Crash, NoCollection, store, caller, collection, history
<1>23. CASE UNCHANGED vars
  BY <1>23 DEF vars, store, caller, collection, history
<1> QED
  BY <1>1, <1>2, <1>3, <1>4, <1>5, <1>6, <1>7, <1>8, <1>9, <1>10, <1>11, <1>12, <1>13, <1>14, <1>15, <1>16, <1>17, <1>18, <1>19, <1>20, <1>21, <1>22, <1>23 DEF Next, CallerStep, Collect

\* A pin operation writes back what it read and one more, or one less that
\* nobody needs.
LEMMA PinsStep ==
  ASSUME TypeOK, ChainIsSerial, CallsAreSound, PinsStay, [Next]_vars
  PROVE  PinsStay'
<1> USE DEF TypeOK, ChainIsSerial, CallsAreSound, PinsStay, Points
<1>1. ASSUME NEW c \in Callers, NEW r \in Revisions, Begin(c, r) PROVE PinsStay'
  BY <1>1 DEF Begin, store, caller, collection, history
<1>2. ASSUME NEW c \in Callers, NEW r \in Revisions, Name(c, r) PROVE PinsStay'
  BY <1>2 DEF Name, HasManifest, store, caller, collection, history
<1>3. ASSUME NEW c \in Callers, NEW r \in Revisions, ReadUnpin(c, r) PROVE PinsStay'
  BY <1>3 DEF ReadUnpin, store, caller, collection, history
<1>4. ASSUME NEW c \in Callers, NEW b \in Blobs, WriteBlob(c, b) PROVE PinsStay'
  BY <1>4 DEF WriteBlob, WriteObject, store, caller, collection, history
<1>5. ASSUME NEW c \in Callers, WriteManifest(c) PROVE PinsStay'
  BY <1>5 DEF WriteManifest, WriteObject, store, caller, collection, history
<1>6. ASSUME NEW c \in Callers, GiveUp(c) PROVE PinsStay'
  BY <1>6 DEF GiveUp, Return, store, caller, collection, history
<1>7. ASSUME NEW c \in Callers, ReadBack(c) PROVE PinsStay'
  BY <1>7 DEF ReadBack, HasManifest, store, caller, collection, history
<1>8. ASSUME NEW c \in Callers, RecordDefinition(c) PROVE PinsStay'
  BY <1>8 DEF RecordDefinition, Return, store, caller, collection, history
<1>9. ASSUME NEW c \in Callers, RecordBinding(c) PROVE PinsStay'
  BY <1>9 DEF RecordBinding, store, caller, collection, history
<1>10. ASSUME NEW c \in Callers, ReadPins(c) PROVE PinsStay'
  BY <1>10 DEF ReadPins, HasManifest, store, caller, collection, history
<1>11. ASSUME NEW c \in Callers, WritePins(c) PROVE PinsStay'
  BY <1>11 DEF WritePins, store, caller, collection, history
<1>12. ASSUME NEW c \in Callers, Record(c) PROVE PinsStay'
  BY <1>12 DEF Record, Return, store, caller, collection, history
<1>13. ASSUME NEW c \in Callers, WriteUnpin(c) PROVE PinsStay'
  BY <1>13 DEF WriteUnpin, Return, store, caller, collection, history
<1>14. ASSUME Gather PROVE PinsStay'
  BY <1>14 DEF Gather, store, caller, collection, history
<1>15. ASSUME Mark PROVE PinsStay'
  BY <1>15 DEF Mark, HasManifest, store, caller, collection, history
<1>16. ASSUME ListManifests PROVE PinsStay'
  BY <1>16 DEF ListManifests, Retained, Listed, store, caller, collection, history
<1>17. ASSUME ListBlobs PROVE PinsStay'
  BY <1>17 DEF ListBlobs, Listed, store, caller, collection, history
<1>18. ASSUME Stop PROVE PinsStay'
  BY <1>18 DEF Stop, NoCollection, store, caller, collection, history
<1>19. ASSUME NEW r \in Revisions, SweepManifest(r) PROVE PinsStay'
  BY <1>19 DEF SweepManifest, Sweep, store, caller, collection, history
<1>20. ASSUME NEW b \in Blobs, SweepBlob(b) PROVE PinsStay'
  BY <1>20 DEF SweepBlob, Sweep, store, caller, collection, history
<1>21. ASSUME Tick PROVE PinsStay'
  BY <1>21 DEF Tick, store, caller, collection, history
<1>22. ASSUME Crash PROVE PinsStay'
  BY <1>22 DEF Crash, NoCollection, store, caller, collection, history
<1>23. CASE UNCHANGED vars
  BY <1>23 DEF vars, store, caller, collection, history
<1> QED
  BY <1>1, <1>2, <1>3, <1>4, <1>5, <1>6, <1>7, <1>8, <1>9, <1>10, <1>11, <1>12, <1>13, <1>14, <1>15, <1>16, <1>17, <1>18, <1>19, <1>20, <1>21, <1>22, <1>23 DEF Next, CallerStep, Collect

\* Roots lose nothing: a sweep spares them, and a new pin is of a revision whose
\* objects its snapshot still holds.
LEMMA RootsWholeStep ==
  ASSUME TypeOK, ChainIsSerial, CallsAreSound, SnapshotsHold, ManifestsWhole, PinsStay, RootsAreMarked,
         VictimsAreFree, RootsWhole, [Next]_vars
  PROVE  RootsWhole'
<1> USE DEF RootsWhole, HasManifest, Whole, TypeOK, Active, RootsAreMarked, VictimsAreFree
<1>1. ASSUME NEW c \in Callers, NEW r \in Revisions, Begin(c, r) PROVE RootsWhole'
  BY <1>1 DEF Begin, store, caller, collection, history
<1>2. ASSUME NEW c \in Callers, NEW r \in Revisions, Name(c, r) PROVE RootsWhole'
  BY <1>2 DEF Name, HasManifest, store, caller, collection, history
<1>3. ASSUME NEW c \in Callers, NEW r \in Revisions, ReadUnpin(c, r) PROVE RootsWhole'
  BY <1>3 DEF ReadUnpin, store, caller, collection, history
<1>4. ASSUME NEW c \in Callers, NEW b \in Blobs, WriteBlob(c, b) PROVE RootsWhole'
  BY <1>4 DEF WriteBlob, WriteObject, WriteObject, store, caller, collection, history
<1>5. ASSUME NEW c \in Callers, WriteManifest(c) PROVE RootsWhole'
  BY <1>5 DEF WriteManifest, WriteObject, store, caller, collection, history
<1>6. ASSUME NEW c \in Callers, GiveUp(c) PROVE RootsWhole'
  BY <1>6 DEF GiveUp, Return, store, caller, collection, history
<1>7. ASSUME NEW c \in Callers, ReadBack(c) PROVE RootsWhole'
  BY <1>7 DEF ReadBack, HasManifest, store, caller, collection, history
<1>8. ASSUME NEW c \in Callers, RecordDefinition(c) PROVE RootsWhole'
  <2>1. /\ pc[c] = "read" /\ facts' = facts \cup {rev[c]}
        /\ UNCHANGED <<pins, present, exposed>>
    BY <1>8 DEF RecordDefinition, store, history
  <2>2. rev[c] \in Revisions /\ (rev[c] \in present \/ rev[c] \in exposed)
    BY <2>1 DEF CallsAreSound, SnapshotsHold, Snapshotting
  <2>3. (rev[c] \in present /\ Content[rev[c]] \subseteq present) \/ rev[c] \in exposed
    BY <2>2 DEF ManifestsWhole
  <2> QED
    BY <2>1, <2>3
<1>9. ASSUME NEW c \in Callers, RecordBinding(c) PROVE RootsWhole'
  <2>1. /\ pc[c] = "pin" /\ facts' = facts \cup {rev[c]}
        /\ UNCHANGED <<pins, present, exposed>>
    BY <1>9 DEF RecordBinding, store, history
  <2>2. rev[c] \in Revisions /\ (rev[c] \in present \/ rev[c] \in exposed)
    BY <2>1 DEF CallsAreSound, SnapshotsHold, Snapshotting
  <2>3. (rev[c] \in present /\ Content[rev[c]] \subseteq present) \/ rev[c] \in exposed
    BY <2>2 DEF ManifestsWhole
  <2> QED
    BY <2>1, <2>3
<1>10. ASSUME NEW c \in Callers, ReadPins(c) PROVE RootsWhole'
  BY <1>10 DEF ReadPins, HasManifest, store, caller, collection, history
<1>11. ASSUME NEW c \in Callers, WritePins(c) PROVE RootsWhole'
  <2>1. /\ pc[c] = "pinning" /\ pins' = pins \cup {rev[c]}
        /\ UNCHANGED <<facts, present, exposed>>
    BY <1>11 DEF WritePins, store, history, ChainIsSerial
  <2>2. rev[c] \in present /\ rev[c] \in Revisions
    BY <2>1 DEF CallsAreSound
  <2>3. Content[rev[c]] \subseteq present \/ rev[c] \in exposed
    BY <2>2 DEF ManifestsWhole
  <2> QED
    BY <2>1, <2>2, <2>3
<1>12. ASSUME NEW c \in Callers, Record(c) PROVE RootsWhole'
  <2>1. rev[c] \in pins /\ facts' = facts \cup {rev[c]} /\ UNCHANGED <<pins, present, exposed>>
    BY <1>12 DEF Record, store, PinsStay
  <2> QED
    BY <2>1
<1>13. ASSUME NEW c \in Callers, WriteUnpin(c) PROVE RootsWhole'
  <2>1. pins' = pins \ {rev[c]} /\ UNCHANGED <<facts, present, exposed>>
    BY <1>13 DEF WriteUnpin, store, history, ChainIsSerial
  <2> QED
    BY <2>1
<1>14. ASSUME Gather PROVE RootsWhole'
  BY <1>14 DEF Gather, store, caller, collection, history
<1>15. ASSUME Mark PROVE RootsWhole'
  BY <1>15 DEF Mark, HasManifest, store, caller, collection, history
<1>16. ASSUME ListManifests PROVE RootsWhole'
  BY <1>16 DEF ListManifests, Retained, Listed, store, caller, collection, history
<1>17. ASSUME ListBlobs PROVE RootsWhole'
  BY <1>17 DEF ListBlobs, Listed, store, caller, collection, history
<1>18. ASSUME Stop PROVE RootsWhole'
  BY <1>18 DEF Stop, NoCollection, store, caller, collection, history
<1>19. ASSUME NEW r \in Revisions, SweepManifest(r) PROVE RootsWhole'
  <2>1. /\ stage \in {"manifests", "blobs"} /\ r \in victims
        /\ present' = present \ {r} /\ exposed' = exposed \cup Deprived(r)
        /\ UNCHANGED <<facts, pins>>
    BY <1>19 DEF SweepManifest, Sweep
  <2>2. \A q \in roots \cup pins : r # q /\ r \notin Content[q]
    BY <2>1, RootsAreSpared
  <2>3. \A q \in facts \ (roots \cup pins) : r = q \/ r \in Content[q] => q \in exposed'
    BY <2>1 DEF Deprived
  <2> QED
    BY <2>1, <2>2, <2>3
<1>20. ASSUME NEW b \in Blobs, SweepBlob(b) PROVE RootsWhole'
  <2>1. /\ stage \in {"manifests", "blobs"} /\ b \in victims
        /\ present' = present \ {b} /\ exposed' = exposed \cup Deprived(b)
        /\ UNCHANGED <<facts, pins>>
    BY <1>20 DEF SweepBlob, Sweep
  <2>2. \A q \in roots \cup pins : b # q /\ b \notin Content[q]
    BY <2>1, RootsAreSpared
  <2>3. \A q \in facts \ (roots \cup pins) : b = q \/ b \in Content[q] => q \in exposed'
    BY <2>1 DEF Deprived
  <2> QED
    BY <2>1, <2>2, <2>3
<1>21. ASSUME Tick PROVE RootsWhole'
  BY <1>21 DEF Tick, store, caller, collection, history
<1>22. ASSUME Crash PROVE RootsWhole'
  BY <1>22 DEF Crash, NoCollection, store, caller, collection, history
<1>23. CASE UNCHANGED vars
  BY <1>23 DEF vars, store, caller, collection, history
<1> QED
  BY <1>1, <1>2, <1>3, <1>4, <1>5, <1>6, <1>7, <1>8, <1>9, <1>10, <1>11, <1>12, <1>13, <1>14, <1>15, <1>16, <1>17, <1>18, <1>19, <1>20, <1>21, <1>22, <1>23 DEF Next, CallerStep, Collect

-----------------------------------------------------------------------------
\* The store starts whole, with nothing under way.
LEMMA InitStore == Init => StoreInv
<1> SUFFICES ASSUME Init PROVE StoreInv
  OBVIOUS
<1> USE DEF Init, Snapshotting, Active
<1>1. TypeOK
  BY ContentIsBlobs, NamesAreDistinct, LegacyIsStored DEF TypeOK, Objects, Stages, Points
<1>2. ChainIsSerial /\ CallsAreSound /\ SnapshotsHold /\ OwnAreYoung /\ SnapshotsArePrompt
  BY ContentIsBlobs DEF ChainIsSerial, CallsAreSound, SnapshotsHold, OwnAreYoung, SnapshotsArePrompt
<1>3. CutoffIsPast /\ RootsAreMarked /\ VictimsAreFree
  BY DEF CutoffIsPast, RootsAreMarked, VictimsAreFree
<1>4. ManifestsWhole /\ PinsStay /\ RootsWhole
  BY LegacyIsStored, ContentIsBlobs, NamesAreDistinct
  DEF ManifestsWhole, PinsStay, RootsWhole, HasManifest, Whole
<1> QED
  BY <1>1, <1>2, <1>3, <1>4 DEF StoreInv

\* Every step keeps every part of the invariant.
LEMMA StoreStep == StoreInv /\ [Next]_vars => StoreInv'
<1> SUFFICES ASSUME StoreInv, [Next]_vars PROVE StoreInv'
  OBVIOUS
<1>0. /\ TypeOK /\ ChainIsSerial /\ CallsAreSound /\ SnapshotsHold /\ ManifestsWhole /\ OwnAreYoung
      /\ SnapshotsArePrompt /\ CutoffIsPast /\ RootsAreMarked /\ VictimsAreFree
      /\ PinsStay /\ RootsWhole
  BY DEF StoreInv
<1>1. TypeOK' /\ ChainIsSerial' /\ CallsAreSound'
  BY <1>0, TypeStep, ChainStep, CallsStep
<1>2. SnapshotsHold' /\ ManifestsWhole' /\ OwnAreYoung' /\ SnapshotsArePrompt' /\ CutoffIsPast'
  BY <1>0, SnapshotsStep, ManifestsStep, OwnStep, PromptStep, CutoffStep
<1>3. RootsAreMarked' /\ VictimsAreFree' /\ PinsStay' /\ RootsWhole'
  BY <1>0, RootsMarkedStep, VictimsStep, PinsStep, RootsWholeStep
<1> QED
  BY <1>1, <1>2, <1>3 DEF StoreInv

\* The invariant that the four properties of the run follow from.
LEMMA StoreInvariant == Spec => []StoreInv
<1> QED
  BY InitStore, StoreStep, PTL DEF Spec

\* Every variable has its type, for any number of revisions and callers.
THEOREM StoreTypes == Spec => []TypeOK
<1>1. StoreInv => TypeOK
  BY DEF StoreInv
<1> QED
  BY <1>1, StoreInvariant, PTL

\* No pin is lost to a concurrent pin, unpin or collection (readPins and
\* writePins under serializeMaintenance): a fact recorded after its pin keeps it.
THEOREM PinsAreKept == Spec => []PinsStay
<1>1. StoreInv => PinsStay
  BY DEF StoreInv
<1> QED
  BY <1>1, StoreInvariant, PTL

\* What facts and pins name survives every collection with its blobs, but for
\* revisions that lost an old object while neither a pin nor a gathered fact named
\* them: recorded without a pin, before it, or under a snapshot that reused it.
THEOREM RootsAreKept == Spec => []RootsWhole
<1>1. StoreInv => RootsWhole
  BY DEF StoreInv
<1> QED
  BY <1>1, StoreInvariant, PTL

\* No collection takes what a running snapshot has written itself.
THEOREM OwnObjectsAreKept == Spec => []OwnObjectsStay
<1>1. StoreInv => OwnObjectsStay
  BY DEF StoreInv, OwnAreYoung, OwnObjectsStay
<1> QED
  BY <1>1, StoreInvariant, PTL

=============================================================================
