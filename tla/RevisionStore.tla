---------------------------- MODULE RevisionStore ----------------------------
(***************************************************************************)
(* The content-addressed revision store: snapshots that write blobs and    *)
(* then a manifest, pins, and the mark-and-sweep collection.               *)
(*                                                                         *)
(* A revision is named by the hash of its manifest, so what it consists of *)
(* is a constant.  Snapshots run at any time, several at once; pins and    *)
(* collections of the one store of a host go through a promise chain.      *)
(* Every system call that another call can come between is a step.         *)
(*                                                                         *)
(* Left out: validation of paths and contents, the temporary files, and    *)
(* the reads (read, readFile, materialize), which change nothing.          *)
(***************************************************************************)
EXTENDS Integers, FiniteSets

CONSTANTS
    Revisions,  \* names of manifests
    Blobs,      \* names of file contents
    Content,    \* the blobs that the entries of a manifest name
    Callers,    \* operations of the host that snapshot, pin and record
    Stored,     \* revisions in the store at the start
    Legacy,     \* those of them that facts of older hosts name, without a pin
    MinAge,     \* age below which objects are not collected
    MaxTime,    \* bound on the clock, for TLC
    None

ASSUME ContentIsBlobs == Content \in [Revisions -> SUBSET Blobs]
ASSUME NamesAreDistinct == Revisions \cap Blobs = {} /\ None \notin Revisions
ASSUME LegacyIsStored == Legacy \subseteq Stored /\ Stored \subseteq Revisions
ASSUME AgesAreNumbers == MinAge \in Nat \ {0} /\ MaxTime \in Nat

Objects == Revisions \cup Blobs

VARIABLES
    now,        \* the clock of the host and of the file system
    present,    \* objects in the store
    born,       \* their modification times
    pins,       \* pins.json
    facts,      \* revisions that durable facts name
    pc,         \* what a caller is at
    rev,        \* the revision it snapshots or pins
    todo,       \* blobs it has still to write
    reused,     \* objects it found in the store instead of writing them
    begun,      \* when its snapshot began
    seen,       \* pins read by the pin operation under way
    stage,      \* what the collection is at
    roots,      \* revisions its caller found in facts
    cutoff,     \* objects up to this time are collected
    marked,     \* roots and pins when it marked
    keep,       \* blobs of retained manifests
    victims,    \* objects it will unlink
    vouched,    \* history: facts recorded after their pin
    exposed     \* history: revisions that lost an object while no root named them

store == <<present, born>>
caller == <<pc, rev, todo, reused, begun, seen>>
collection == <<stage, roots, cutoff, marked, keep, victims>>
history == <<vouched, exposed>>
vars == <<now, store, pins, facts, caller, collection, history>>

Stages == {"idle", "gathered", "marked", "manifests", "blobs"}
Snapshotting == {"blobs", "pin", "read", "bound", "pinning"}
Points == Snapshotting \cup {"idle", "pinned", "unpinning"}

FreeOfCollections == stage \in {"idle", "gathered"}

(***************************************************************************)
(* serializeMaintenance: nothing of the chain is under way.                *)
(***************************************************************************)
Free == /\ \A c \in Callers : pc[c] \notin {"pinning", "unpinning"}
        /\ stage \in {"idle", "gathered"}

\* read: the manifest of r is in the store.
HasManifest(r) == r \in present

\* listRevisionObjects.
Listed(kind) == present \cap kind

Init ==
    /\ now = 0
    /\ present = Stored \cup UNION {Content[r] : r \in Stored}
    /\ born = [o \in Objects |-> 0]
    /\ pins = {}
    /\ facts = Legacy
    /\ pc = [c \in Callers |-> "idle"]
    /\ rev = [c \in Callers |-> None]
    /\ todo = [c \in Callers |-> {}]
    /\ reused = [c \in Callers |-> {}]
    /\ begun = [c \in Callers |-> 0]
    /\ seen = {}
    /\ stage = "idle"
    /\ roots = {} /\ marked = {} /\ keep = {} /\ victims = {}
    /\ cutoff = 0
    /\ vouched = {} /\ exposed = {}

(***************************************************************************)
(* Snapshots.                                                              *)
(***************************************************************************)
\* A call returns or throws; its locals are gone.
Return(c) ==
    /\ pc' = [pc EXCEPT ![c] = "idle"]
    /\ rev' = [rev EXCEPT ![c] = None]
    /\ todo' = [todo EXCEPT ![c] = {}]
    /\ reused' = [reused EXCEPT ![c] = {}]
    /\ begun' = [begun EXCEPT ![c] = 0]

Begin(c, r) ==
    /\ pc[c] = "idle"
    /\ pc' = [pc EXCEPT ![c] = "blobs"]
    /\ rev' = [rev EXCEPT ![c] = r]
    /\ todo' = [todo EXCEPT ![c] = Content[r]]
    /\ reused' = [reused EXCEPT ![c] = {}]
    /\ begun' = [begun EXCEPT ![c] = now]
    /\ UNCHANGED <<now, store, pins, facts, seen, collection, history>>

\* writeObject: the temporary file is linked under the object's name.  When
\* the name exists its bytes are compared and it stays as it is, old as it is.
WriteObject(o) ==
    /\ present' = present \cup {o}
    /\ born' = IF o \in present THEN born ELSE [born EXCEPT ![o] = now]

WriteBlob(c, b) ==
    /\ pc[c] = "blobs" /\ b \in todo[c]
    /\ WriteObject(b)
    /\ todo' = [todo EXCEPT ![c] = @ \ {b}]
    /\ reused' = [reused EXCEPT ![c] = @ \cup (present \cap {b})]
    /\ UNCHANGED <<now, pins, facts, pc, rev, begun, seen, collection, history>>

WriteManifest(c) ==
    /\ pc[c] = "blobs" /\ todo[c] = {}
    /\ WriteObject(rev[c])
    /\ reused' = [reused EXCEPT ![c] = @ \cup (present \cap {rev[c]})]
    /\ pc' = [pc EXCEPT ![c] = "pin"]
    /\ UNCHANGED <<now, pins, facts, rev, todo, begun, seen, collection, history>>

\* A call that takes no snapshot: a Session is bound to a stored revision that
\* its source names, start-up pins again what bindings and registrations name.
Name(c, r) ==
    /\ pc[c] = "idle" /\ HasManifest(r)
    /\ pc' = [pc EXCEPT ![c] = "pin"]
    /\ rev' = [rev EXCEPT ![c] = r]
    /\ reused' = [reused EXCEPT ![c] = {r} \cup Content[r]]
    /\ begun' = [begun EXCEPT ![c] = now]
    /\ UNCHANGED <<now, store, pins, facts, todo, seen, collection, history>>

\* The call ends before it has pinned: an error of validation, of a system call
\* or of a manifest that is gone.  What it has recorded stays recorded.
GiveUp(c) ==
    /\ pc[c] \in {"blobs", "pin", "read", "bound"}
    /\ Return(c)
    /\ UNCHANGED <<now, store, pins, facts, seen, collection, history>>

(***************************************************************************)
(* Facts that are recorded without their pin, or before it.                *)
(***************************************************************************)
\* registerDefinition reads definition.json of the snapshot back ...
ReadBack(c) ==
    /\ pc[c] = "pin"
    /\ HasManifest(rev[c]) /\ Content[rev[c]] \cap present # {}
    /\ pc' = [pc EXCEPT ![c] = "read"]
    /\ UNCHANGED <<now, store, pins, facts, rev, todo, reused, begun, seen, collection, history>>

\* ... and records the revision; it is never pinned.
RecordDefinition(c) ==
    /\ pc[c] = "read"
    /\ facts' = facts \cup {rev[c]}
    /\ Return(c)
    /\ UNCHANGED <<now, store, pins, seen, collection, history>>

\* bindSession writes binding.json before it pins.
RecordBinding(c) ==
    /\ pc[c] = "pin"
    /\ facts' = facts \cup {rev[c]}
    /\ pc' = [pc EXCEPT ![c] = "bound"]
    /\ UNCHANGED <<now, store, pins, rev, todo, reused, begun, seen, collection, history>>

(***************************************************************************)
(* Pins.  The manifest must be there (pin reads it, but not its blobs);    *)
(* pins.json is read and then replaced by a rename.                        *)
(***************************************************************************)
ReadPins(c) ==
    /\ pc[c] \in {"pin", "bound"} /\ Free
    /\ HasManifest(rev[c])
    /\ pc' = [pc EXCEPT ![c] = "pinning"]
    /\ seen' = pins
    /\ UNCHANGED <<now, store, pins, facts, rev, todo, reused, begun, collection, history>>

WritePins(c) ==
    /\ pc[c] = "pinning"
    /\ pins' = seen \cup {rev[c]} /\ seen' = {}
    /\ pc' = [pc EXCEPT ![c] = "pinned"]
    /\ UNCHANGED <<now, store, facts, rev, todo, reused, begun, collection, history>>

\* The caller records what it pinned: a batch, a publication, an admission; or
\* it goes on with what it had recorded before.
Record(c) ==
    /\ pc[c] = "pinned"
    /\ facts' = facts \cup {rev[c]}
    /\ vouched' = vouched \cup {rev[c]}
    /\ Return(c)
    /\ UNCHANGED <<now, store, pins, seen, collection, exposed>>

\* unpin has no caller in src; one would have to know that nobody needs r.
ReadUnpin(c, r) ==
    /\ pc[c] = "idle" /\ Free
    /\ r \in pins \ facts
    /\ \A d \in Callers : rev[d] = r => pc[d] # "pinned"
    /\ pc' = [pc EXCEPT ![c] = "unpinning"]
    /\ rev' = [rev EXCEPT ![c] = r]
    /\ seen' = pins
    /\ UNCHANGED <<now, store, pins, facts, todo, reused, begun, collection, history>>

WriteUnpin(c) ==
    /\ pc[c] = "unpinning"
    /\ pins' = seen \ {rev[c]} /\ seen' = {}
    /\ Return(c)
    /\ UNCHANGED <<now, store, facts, collection, history>>

(***************************************************************************)
(* collect.                                                                *)
(***************************************************************************)
\* The callers of collect read the facts first, stream after stream; a fact
\* that is recorded after they started need not be among the roots.
Gather ==
    /\ stage = "idle"
    /\ stage' = "gathered"
    /\ roots' = facts
    /\ UNCHANGED <<now, store, pins, facts, caller, cutoff, marked, keep, victims, history>>

MarkWithoutPins ==
    /\ stage = "gathered" /\ Free
    /\ \A r \in roots \cup pins : HasManifest(r)
    /\ stage' = "marked"
    /\ marked' = roots
    /\ cutoff' = now - MinAge
    /\ UNCHANGED <<now, store, pins, facts, caller, roots, keep, victims, history>>

\* A root without a manifest makes collect throw (Stop).
Mark ==
    /\ stage = "gathered" /\ Free
    /\ \A r \in roots \cup pins : HasManifest(r)
    /\ stage' = "marked"
    /\ marked' = roots \cup pins
    /\ cutoff' = now - MinAge
    /\ UNCHANGED <<now, store, pins, facts, caller, roots, keep, victims, history>>

RetainedIfMarked == Listed(marked)

\* Manifests are listed with their times; the blobs of the retained are read.
Retained == {r \in Listed(Revisions) : r \in marked \/ born[r] > cutoff}

ListManifests ==
    /\ stage = "marked"
    /\ stage' = "manifests"
    /\ victims' = Listed(Revisions) \ Retained
    /\ keep' = UNION {Content[r] : r \in Retained}
    /\ UNCHANGED <<now, store, pins, facts, caller, roots, cutoff, marked, history>>

\* Revisions that lose o although somebody still counts on it: one recorded after
\* the roots were gathered, one whose manifest came after the listing, one under
\* a running call that found o in the store.
Deprived(o) ==
    {r \in Revisions \ (roots \cup pins) :
        /\ o = r \/ o \in Content[r]
        /\ \/ r \in facts
           \/ o # r /\ HasManifest(r)
           \/ \E c \in Callers : pc[c] \in Snapshotting /\ rev[c] = r /\ o \in reused[c]}

Sweep(o) ==
    /\ o \in victims
    /\ present' = present \ {o}
    /\ victims' = victims \ {o}
    /\ exposed' = exposed \cup Deprived(o)
    /\ UNCHANGED <<now, born, pins, facts, caller, stage, roots, cutoff, marked, keep, vouched>>

SweepManifest(r) == stage = "manifests" /\ Sweep(r)

ListBlobs ==
    /\ stage = "manifests" /\ victims = {}
    /\ stage' = "blobs"
    /\ victims' = {b \in Listed(Blobs) : b \notin keep /\ born[b] <= cutoff}
    /\ UNCHANGED <<now, store, pins, facts, caller, roots, cutoff, marked, keep, history>>

SweepBlob(b) == stage = "blobs" /\ Sweep(b)

NoCollection ==
    /\ stage' = "idle"
    /\ roots' = {} /\ marked' = {} /\ keep' = {} /\ victims' = {} /\ cutoff' = 0

\* The collection is over, or a system call of it fails.
Stop ==
    /\ stage # "idle"
    /\ NoCollection
    /\ UNCHANGED <<now, store, pins, facts, caller, history>>

(***************************************************************************)
(* The clock, and the death of the host.  A snapshot is pinned before its  *)
(* first object is MinAge old (7 days, where the host calls collect).      *)
(***************************************************************************)
Tick ==
    /\ now < MaxTime
    /\ \A c \in Callers : pc[c] \in Snapshotting => now + 1 < begun[c] + MinAge
    /\ now' = now + 1
    /\ UNCHANGED <<store, pins, facts, caller, collection, history>>

Crash ==
    /\ pc' = [c \in Callers |-> "idle"]
    /\ rev' = [c \in Callers |-> None]
    /\ todo' = [c \in Callers |-> {}]
    /\ reused' = [c \in Callers |-> {}]
    /\ begun' = [c \in Callers |-> 0]
    /\ seen' = {}
    /\ NoCollection
    /\ UNCHANGED <<now, store, pins, facts, history>>

CallerStep(c) ==
    \/ \E r \in Revisions : Begin(c, r) \/ Name(c, r) \/ ReadUnpin(c, r)
    \/ \E b \in Blobs : WriteBlob(c, b)
    \/ WriteManifest(c) \/ GiveUp(c)
    \/ ReadBack(c) \/ RecordDefinition(c) \/ RecordBinding(c)
    \/ ReadPins(c) \/ WritePins(c) \/ Record(c)
    \/ WriteUnpin(c)

Collect ==
    \/ Gather \/ Mark \/ ListManifests \/ ListBlobs \/ Stop
    \/ \E r \in Revisions : SweepManifest(r)
    \/ \E b \in Blobs : SweepBlob(b)

Next == (\E c \in Callers : CallerStep(c)) \/ Collect \/ Tick \/ Crash

Spec == Init /\ [][Next]_vars

(***************************************************************************)
(* Properties.                                                             *)
(***************************************************************************)
\* Every variable has its type.
TypeOK ==
    /\ now \in Nat
    /\ present \subseteq Objects /\ born \in [Objects -> Nat]
    /\ pins \subseteq Revisions /\ facts \subseteq Revisions
    /\ pc \in [Callers -> Points]
    /\ rev \in [Callers -> Revisions \cup {None}]
    /\ todo \in [Callers -> SUBSET Blobs] /\ reused \in [Callers -> SUBSET Objects]
    /\ begun \in [Callers -> Nat]
    /\ seen \subseteq Revisions
    /\ stage \in Stages
    /\ roots \subseteq Revisions /\ marked \subseteq Revisions
    /\ cutoff \in Int
    /\ keep \subseteq Blobs /\ victims \subseteq Objects
    /\ vouched \subseteq Revisions /\ exposed \subseteq Revisions

\* materialize, readFile: every blob that the manifest of r names can be read.
Whole(r) == Content[r] \subseteq present

\* What a pin names keeps its manifest, and what a fact or a pin names keeps its
\* manifest and its blobs, whatever snapshots, pins, collections and crashes come
\* between: except a revision that lost an old object to a collection that ran
\* while neither a pin nor a fact it had gathered named the revision.
RootsWhole ==
    /\ \A r \in pins : HasManifest(r)
    /\ \A r \in facts \cup pins : (HasManifest(r) /\ Whole(r)) \/ r \in exposed

\* A pin is not lost to another pin, an unpin or a collection at the same
\* time: whoever has pinned and not yet recorded still finds its pin, and
\* every fact that was recorded after its pin keeps it.
PinsStay ==
    /\ \A c \in Callers : pc[c] = "pinned" => rev[c] \in pins
    /\ vouched \subseteq pins

\* What a running snapshot has put into the store.
Written(c) == (Content[rev[c]] \ todo[c]) \cup (IF pc[c] = "blobs" THEN {} ELSE {rev[c]})

\* The objects that a running snapshot has written itself are not collected, neither
\* blobs nor manifest: they are younger than the cutoff of every collection
\* that meets it.
OwnObjectsStay ==
    \A c \in Callers : pc[c] \in Snapshotting => Written(c) \ reused[c] \subseteq present

=============================================================================
