------------------------------- MODULE Admission -------------------------------
(***************************************************************************)
(* What a registration may do, from its authoring files to the events it    *)
(* produces: WorkSurfaceService's synchronisation of the authoring files    *)
(* (packages/dsh/src/service.ts), CodeFirstOrchestrator.admit, the routes   *)
(* and contracts it fixes, the outputs a turn is granted, and the checks of *)
(* everything that is emitted (packages/runtime, packages/core              *)
(* runtime-protocol.ts).                                                    *)
(*                                                                         *)
(* Several synchronisations run at once, one for every turn that ends,      *)
(* every emit and every request, while authors edit the files.  A digest    *)
(* stands for its content.  How inputs are queued and batches applied is    *)
(* CodeFirstOrchestrator's; how a turn gets its grants, SurfaceSessions';   *)
(* here a run, an apply and the start of a turn are one step each.          *)
(* Directories without an artifact (the declarative engine) and events of   *)
(* host executions are left out.                                            *)
(***************************************************************************)
EXTENDS Naturals, Sequences, FiniteSets

CONSTANTS
  Surfaces, None,
  DirOrder,      \* the directories of orchestrations/, in order
  SurfaceOrder,  \* the Surfaces with a session, in order
  Names,         \* names of events
  Declarations,  \* what an event declaration may say
  Sources,       \* what registration.json of a directory may say
  Artifacts,     \* contents of artifact/
  Initial,       \* the authoring files at first
  Builtins,      \* the catalog of built-in events
  Callers,       \* synchronisations that may run at once, besides start-up
  MaxEdits, MaxEvents, MaxInputs, MaxTurns, MaxCrashes   \* bounds

Dirs == {DirOrder[i] : i \in DOMAIN DirOrder}

\* Built-in events come from the host's adapter or runtime (builtin-event-catalog.ts),
\* and no registration has the scope of the built-ins.
ASSUME AdmissionAssumption ==
  /\ DirOrder \in Seq(Dirs) /\ DirOrder # <<>>
  /\ SurfaceOrder \in Seq(Surfaces)
  /\ "host" \notin Callers /\ None # "unknown built-in"
  /\ \A name \in DOMAIN Builtins :
       Builtins[name].producers \intersect {"orchestrate", "surface-session"} = {}
  /\ \A d \in Dirs : \A source \in Sources[d] : source.id # "builtin"
  /\ \A files \in Initial :
       /\ DOMAIN files = Dirs
       /\ \A d \in Dirs : /\ DOMAIN files[d] = {"source", "artifact"}
                          /\ files[d].source \in Sources[d] \union {None}

VARIABLES
  \* the authoring files
  author,     \* registration.json and artifact of each directory
  \* durable
  contracts,  \* EventContractStore
  records,    \* RegistrationRecordStore
  pinned,     \* pins of the revision store
  retired,    \* RegistrationStatusStore
  stream,     \* business events of each Surface
  ledger,     \* <<registration, Surface, seq>>: accepted inputs
  batches,    \* recorded batches
  settled,    \* those that were carried out
  messages,   \* followups: <<Surface, outputs>>
  \* memory of the host
  host,       \* "starting", "up", "failed"
  inactive,   \* retiredIds
  failures,   \* authoringFailures
  brief,      \* outputs of the last prepared brief of each Surface
  turn,       \* the open turn of each Surface, and what its binding grants
  jobs,       \* the synchronisation each caller has under way
  \* directories whose author saved since the host began to start
  touched,
  \* bounds
  edits, turns, crashes

registryVars == <<contracts, records, pinned>>
effectVars == <<stream, ledger, batches, settled, messages>>
turnVars == <<brief, turn, turns>>
hostVars == <<host, inactive, failures>>
vars == <<author, registryVars, retired, effectVars, hostVars, turnVars, jobs, edits, touched, crashes>>

-----------------------------------------------------------------------------
(***************************************************************************)
(* Authoring files, contracts and records.                                  *)
(***************************************************************************)
ImageOf(f) == {f[x] : x \in DOMAIN f}
Injective(f) == \A x, y \in DOMAIN f : f[x] = f[y] => x = y

\* The handles a route names for its three capabilities.
Capabilities(route) == route.consumeFrom \union route.emitOn \union route.surfaceOutputFrom

\* parseOrchestrateRegistration.
Parses(source) ==
  /\ DOMAIN source.bindings # {} /\ Injective(source.bindings)
  /\ DOMAIN source.events # {}
  /\ \A name \in DOMAIN source.events :
       LET route == source.events[name]
       IN  Capabilities(route) # {} /\ Capabilities(route) \subseteq DOMAIN source.bindings

\* admit's checks of a route: what a built-in permits, or what the artifact
\* declares; None is a declaration that is missing or not valid.
RouteFault(name, route, artifact) ==
  IF route.builtin
  THEN IF name \notin DOMAIN Builtins THEN "unknown built-in"
       ELSE IF \/ route.consumeFrom # {} /\ Builtins[name].exposure # "orchestrate-input"
               \/ route.emitOn # {} /\ "orchestrate" \notin Builtins[name].producers
               \/ route.surfaceOutputFrom # {} /\ "surface-session" \notin Builtins[name].producers
               \/ route.emitOn \union route.surfaceOutputFrom # {}
                    /\ "surface" \notin Builtins[name].subjects
            THEN "built-in not permitted" ELSE None
  ELSE IF artifact.declares[name] = None THEN "declaration"
       ELSE IF route.emitOn \union route.surfaceOutputFrom = {} THEN "no producer" ELSE None

\* canonicalEventContract of the declaration, or of the catalog's entry.
ContractOf(id, name, route, artifact) ==
  IF route.builtin
  THEN [scope |-> "builtin", name |-> name, says |-> Builtins[name].says,
        subjects |-> Builtins[name].subjects, producers |-> Builtins[name].producers]
  ELSE [scope |-> id, name |-> name, says |-> artifact.declares[name],
        subjects |-> {"surface"},
        producers |-> (IF route.emitOn = {} THEN {} ELSE {"orchestrate"}) \union
                      (IF route.surfaceOutputFrom = {} THEN {} ELSE {"surface-session"})]

RoutesOf(source, artifact) ==
  [name \in DOMAIN source.events |->
     LET route == source.events[name]
     IN  [contract |-> ContractOf(source.id, name, route, artifact),
          consumeFrom |-> route.consumeFrom, emitOn |-> route.emitOn,
          surfaceOutputFrom |-> route.surfaceOutputFrom]]

\* What the record fixes besides its history boundaries.
Facts(source, routes, artifact) ==
  [artifact |-> artifact, entrypoint |-> source.entrypoint,
   surfaces |-> source.bindings, routes |-> routes]

Recorded == DOMAIN records
Active == Recorded \ inactive

\* The handle under which a registration knows a Surface.
Handles(record, s) == {h \in DOMAIN record.surfaces : record.surfaces[h] = s}

\* The route of a name that gives the Surface a capability.
Allows(record, name, s, capability) ==
  /\ name \in DOMAIN record.routes
  /\ Handles(record, s) \subseteq record.routes[name][capability]
  /\ Handles(record, s) # {}

\* A payload is what some declaration says it should be.
Fits(payload, contract) == payload = contract.says

\* Mutant of the next: events are told apart by their names only.
MatchesName(r, s, n) ==
  /\ Allows(records[r], stream[s][n].contract.name, s, "consumeFrom")
  /\ \A h \in Handles(records[r], s) : n > records[r].boundary[h]

\* matchSurfaceInput.
MatchesInput(r, s, n) ==
  LET e == stream[s][n] IN
  /\ Allows(records[r], e.contract.name, s, "consumeFrom")
  /\ records[r].routes[e.contract.name].contract = e.contract
  /\ \A h \in Handles(records[r], s) : n > records[r].boundary[h]

\* authorizeBatch: effects are checked against the admitted record, also when
\* a batch that was recorded is taken up again.
Permits(record, capability, producer, handle, contract) ==
  /\ contract.name \in DOMAIN record.routes
  /\ handle \in record.routes[contract.name][capability]
  /\ record.routes[contract.name].contract = contract
  /\ contract \in contracts
  /\ "surface" \in contract.subjects /\ producer \in contract.producers

Authorized(b) ==
  LET record == records[b.id] IN
  /\ b.artifact = record.artifact /\ b.surfaces = record.surfaces
  /\ \A e \in b.events :
       Permits(record, "emitOn", "orchestrate", e.handle, e.contract) /\ Fits(e.payload, e.contract)
  /\ \A a \in b.advance : \A c \in a.outputs :
       Permits(record, "surfaceOutputFrom", "surface-session", a.handle, c)

\* surfaceOutput, surfaceOutputs: what active registrations let a Surface emit.
OutputRoutes(s) ==
  UNION {{records[r].routes[name].contract :
            name \in {n \in DOMAIN records[r].routes : Allows(records[r], n, s, "surfaceOutputFrom")}}
         : r \in Active}
OutputsNamed(s, name) == {c \in OutputRoutes(s) : c.name = name}
Ambiguous(s) == \E c, d \in OutputRoutes(s) : c.name = d.name /\ c # d

-----------------------------------------------------------------------------
(***************************************************************************)
(* Synchronisation of the authoring files: syncAuthoringRegistrations goes  *)
(* through the directories one by one and admits each.                      *)
(***************************************************************************)
At(k, stage) == jobs[k] # None /\ jobs[k].at = stage
Set(k, job) == jobs' = [jobs EXCEPT ![k] = job]
Go(k, stage) == Set(k, [jobs[k] EXCEPT !.at = stage])
Dir(k) == Head(jobs[k].todo)

\* A synchronisation that tolerates failures or not, and what follows it: the
\* Surfaces whose next turn is prepared (each synchronises once more; None
\* stands for a synchronisation alone), or an emit.
Job(isolate, after, emit) ==
  [at |-> "read", todo |-> DirOrder, isolate |-> isolate, after |-> after, emit |-> emit,
   source |-> None, artifact |-> None, routes |-> None, boundary |-> None, event |-> None]

\* The directory is done; the next one is looked at, or what follows.
Advanced(k) ==
  LET job == jobs[k]
      rest == Tail(job.todo)
  IN  [job EXCEPT !.todo = rest, !.at = IF rest = <<>> THEN "after" ELSE "read",
         !.source = None, !.artifact = None, !.routes = None, !.boundary = None]

Succeed(k) ==
  /\ failures' = [failures EXCEPT ![Dir(k)] = None]
  /\ Set(k, Advanced(k))
  /\ UNCHANGED <<host, inactive>>

Ended(k) == Set(k, None)

\* Mutant of the next: a failure is tolerated around the loop.
FailTheRest(k, message) ==
  /\ failures' = [failures EXCEPT ![Dir(k)] = message]
  /\ Set(k, [Advanced(k) EXCEPT !.at = "after"])
  /\ UNCHANGED <<host, inactive>>

\* A directory that fails: isolated, or known to fail in this way, it is
\* skipped; otherwise the caller fails.
Fail(k, message) ==
  IF jobs[k].isolate \/ failures[Dir(k)] = message
  THEN /\ failures' = [failures EXCEPT ![Dir(k)] = message]
       /\ Set(k, Advanced(k))
       /\ UNCHANGED <<host, inactive>>
  ELSE Ended(k) /\ UNCHANGED hostVars

syncRest == <<author, retired, effectVars, turnVars, edits, touched, crashes>>

\* registration.json is read and parsed; a directory without one is no
\* registration, and nothing is wrong with it.
ReadSource(k) ==
  /\ At(k, "read")
  /\ LET source == author[Dir(k)].source
     IN  \/ source = None /\ Succeed(k)
         \/ source # None /\ ~Parses(source) /\ Fail(k, "registration")
         \/ /\ source # None /\ Parses(source)
            /\ Set(k, [jobs[k] EXCEPT !.source = source, !.at = "snapshot"])
            /\ UNCHANGED hostVars
  /\ UNCHANGED <<registryVars, syncRest>>

DeclaredLive(k) == author[Dir(k)].artifact
Declared(k) == jobs[k].artifact

\* The artifact is copied.
Snapshot(k) ==
  /\ At(k, "snapshot")
  /\ LET artifact == author[Dir(k)].artifact
     IN  IF jobs[k].source.entrypoint \notin artifact.files
         THEN Fail(k, "entrypoint")
         ELSE /\ Set(k, [jobs[k] EXCEPT !.artifact = artifact, !.at = "routes"])
              /\ UNCHANGED hostVars
  /\ UNCHANGED <<registryVars, syncRest>>

\* Each route is resolved with the declarations of the copy, and its contract
\* is put.
Resolve(k) ==
  /\ At(k, "routes")
  /\ LET source == jobs[k].source
         artifact == Declared(k)
         Faulty(name) == RouteFault(name, source.events[name], artifact) # None
         routes == RoutesOf(source, artifact)
     IN  IF \E name \in DOMAIN source.events : Faulty(name)
         THEN Fail(k, "route") /\ UNCHANGED contracts
         ELSE /\ contracts' = contracts \union {route.contract : route \in ImageOf(routes)}
              /\ Set(k, [jobs[k] EXCEPT !.routes = routes, !.at = "compare"])
              /\ UNCHANGED hostVars
  /\ UNCHANGED <<records, pinned, syncRest>>

JobFacts(k) == Facts(jobs[k].source, jobs[k].routes, jobs[k].artifact)
FactsOf(record) ==
  [artifact |-> record.artifact, entrypoint |-> record.entrypoint,
   surfaces |-> record.surfaces, routes |-> record.routes]

\* A registration that was admitted must be the same.  For a new one the
\* history boundaries are read, and then its artifact is pinned.
Compare(k) ==
  /\ At(k, "compare")
  /\ LET id == jobs[k].source.id
         bindings == jobs[k].source.bindings
     IN  IF id \notin Recorded
         THEN /\ Set(k, [jobs[k] EXCEPT !.at = "record",
                           !.boundary = [h \in DOMAIN bindings |-> Len(stream[bindings[h]])]])
              /\ pinned' = pinned \union {jobs[k].artifact}
              /\ UNCHANGED hostVars
         ELSE IF FactsOf(records[id]) # JobFacts(k)
              THEN Fail(k, "conflict") /\ UNCHANGED pinned
              ELSE pinned' = pinned \union {records[id].artifact} /\ Succeed(k)
  /\ UNCHANGED <<contracts, records, syncRest>>

With(f, x, y) == [z \in DOMAIN f \union {x} |-> IF z = x THEN y ELSE f[z]]
RecordOf(k) ==
  LET facts == JobFacts(k)
  IN  [artifact |-> facts.artifact, entrypoint |-> facts.entrypoint,
       surfaces |-> facts.surfaces, routes |-> facts.routes, boundary |-> jobs[k].boundary]

PutOver(k) == records' = With(records, jobs[k].source.id, RecordOf(k)) /\ Succeed(k)

\* RegistrationRecordStore.put: the first record of an id stands.
Put(k) ==
  LET id == jobs[k].source.id
  IN  IF id \notin Recorded THEN records' = With(records, id, RecordOf(k)) /\ Succeed(k)
      ELSE /\ IF records[id] = RecordOf(k) THEN Succeed(k) ELSE Fail(k, "conflict")
           /\ UNCHANGED records

Record(k) ==
  /\ At(k, "record")
  /\ Put(k)
  /\ UNCHANGED <<contracts, pinned, syncRest>>

-----------------------------------------------------------------------------
(***************************************************************************)
(* What follows a synchronisation.                                          *)
(***************************************************************************)

\* prepareNextTurn: the brief of a Surface's next turn lists the outputs of
\* the active registrations, or fails if two share a name.
Prepare(k) ==
  /\ At(k, "after") /\ jobs[k].emit = None
  /\ LET s == Head(jobs[k].after)
         rest == Tail(jobs[k].after)
         next == IF rest = <<>> THEN None ELSE [jobs[k] EXCEPT !.after = rest, !.todo = DirOrder, !.at = "read"]
     IN  IF s # None /\ Ambiguous(s)
         THEN /\ Ended(k) /\ UNCHANGED brief
              /\ host' = IF k = "host" THEN "failed" ELSE host
         ELSE /\ brief' = IF s = None THEN brief ELSE [brief EXCEPT ![s] = OutputRoutes(s)]
              /\ Set(k, next)
              /\ host' = IF k = "host" /\ next = None THEN "up" ELSE host
  /\ UNCHANGED <<author, registryVars, retired, effectVars, inactive, failures, turn, turns, edits, touched, crashes>>

Event(contract, payload, producer) == [contract |-> contract, payload |-> payload, producer |-> producer]

Grants(s, c) == c \in turn[s].grants

emitRest == <<author, registryVars, retired, ledger, batches, settled, messages, hostVars, turnVars, edits, touched, crashes>>

Emitting(k) == At(k, "after") /\ jobs[k].emit # None

\* emitTurn, after its synchronisation: the one active registration whose
\* output the name is, and the binding of the turn that is open now.
AuthorizeEmit(k) ==
  /\ Emitting(k)
  /\ LET s == jobs[k].emit.surface
     IN  \E name \in Names, payload \in Declarations : \E c \in OutputsNamed(s, name) :
           /\ Cardinality(OutputsNamed(s, name)) = 1
           /\ IF turn[s] # None /\ Grants(s, c) /\ Fits(payload, c)
              THEN Set(k, [jobs[k] EXCEPT !.at = "append", !.event = Event(c, payload, "surface-session")])
              ELSE Ended(k)
  /\ UNCHANGED <<stream, emitRest>>

RefuseEmit(k) ==
  /\ Emitting(k)
  /\ \E name \in Names : Cardinality(OutputsNamed(jobs[k].emit.surface, name)) > 1
  /\ Ended(k)
  /\ UNCHANGED <<stream, emitRest>>

\* A name that no active registration has, or that emit refuses: nothing of
\* the code-first runtime changes.  SurfaceSessionService.emitTurn appends it to
\* the v4 stream of the Surface as it is, unless it is a built-in name or the
\* turn is over.
EmitBare(k) ==
  /\ Emitting(k)
  /\ \E name \in Names : OutputsNamed(jobs[k].emit.surface, name) = {}
  /\ Ended(k)
  /\ UNCHANGED <<stream, emitRest>>

\* RuntimeEventStore.append checks the contract once more.
CanAppend(e) == e.contract \in contracts /\ "surface" \in e.contract.subjects
                  /\ e.producer \in e.contract.producers /\ Fits(e.payload, e.contract)

AppendEmit(k) ==
  /\ At(k, "append")
  /\ LET s == jobs[k].emit.surface
         e == jobs[k].event
     IN  stream' = IF CanAppend(e) THEN [stream EXCEPT ![s] = Append(@, e)] ELSE stream
  /\ Ended(k)
  /\ UNCHANGED emitRest

-----------------------------------------------------------------------------
(***************************************************************************)
(* Turns, and requests that synchronise.                                    *)
(***************************************************************************)
Free(k) == jobs[k] = None /\ host = "up"

\* A turn's binding grants what the last brief lists, or the outputs of the
\* followup that starts it.
StartTurn(s) ==
  /\ host = "up" /\ turn[s] = None
  /\ turns < MaxTurns /\ turns' = turns + 1
  /\ \/ turn' = [turn EXCEPT ![s] = [number |-> turns, grants |-> brief[s]]] /\ UNCHANGED messages
     \/ \E m \in messages :
          /\ m[1] = s
          /\ turn' = [turn EXCEPT ![s] = [number |-> turns, grants |-> m[2]]]
          /\ messages' = messages \ {m}
  /\ UNCHANGED <<author, registryVars, retired, stream, ledger, batches, settled,
                 hostVars, brief, jobs, edits, touched, crashes>>

EndTurn(k, s) ==
  /\ Free(k) /\ turn[s] # None
  /\ turn' = [turn EXCEPT ![s] = None]
  /\ Set(k, Job(TRUE, <<s>>, None))
  /\ UNCHANGED <<author, registryVars, retired, effectVars, hostVars, brief, turns, edits, touched, crashes>>

\* emitTurn; which name and which payload matters after the synchronisation.
BeginEmit(k, s) ==
  /\ Free(k) /\ turn[s] # None
  /\ Len(stream[s]) < MaxEvents
  /\ Set(k, Job(FALSE, <<>>, [surface |-> s, number |-> turn[s].number]))
  /\ UNCHANGED <<author, registryVars, retired, effectVars, hostVars, turnVars, edits, touched, crashes>>

\* ensureSession, asked for by surface.run; authoring.sync is the beginning of
\* an emit alone.
Ensure(k, s) ==
  /\ Free(k)
  /\ Set(k, Job(TRUE, <<s>>, None))
  /\ UNCHANGED <<author, registryVars, retired, effectVars, hostVars, turnVars, edits, touched, crashes>>

\* An author saves registration.json or changes the artifact.
Edit(d) ==
  /\ edits < MaxEdits /\ edits' = edits + 1
  /\ \/ \E source \in Sources[d] : author' = [author EXCEPT ![d].source = source]
     \/ \E artifact \in Artifacts : author' = [author EXCEPT ![d].artifact = artifact]
  /\ author' # author /\ touched' = touched \union {d}
  /\ UNCHANGED <<registryVars, retired, effectVars, hostVars, turnVars, jobs, crashes>>

\* retire, of an admitted registration.
Retire(r) ==
  /\ host = "up" /\ r \in Recorded \ retired
  /\ retired' = retired \union {r} /\ inactive' = inactive \union {r}
  /\ UNCHANGED <<author, registryVars, effectVars, host, failures, turnVars, jobs, edits, touched, crashes>>

-----------------------------------------------------------------------------
(***************************************************************************)
(* Runs.                                                                    *)
(***************************************************************************)
runRest == <<author, registryVars, retired, hostVars, turnVars, jobs, edits, touched, crashes>>

\* accept, recover: a matching event is an input.
Accept(r, s) ==
  /\ host = "up" /\ r \in Active
  /\ Cardinality(ledger) < MaxInputs
  /\ \E n \in DOMAIN stream[s] :
       MatchesInput(r, s, n) /\ ledger' = ledger \union {<<r, s, n>>}
  /\ UNCHANGED <<stream, batches, settled, messages, runRest>>

\* run: what the code returns is resolved with the record's routes, and
\* refused unless each effect has one; then the batch is authorized and
\* recorded.
Batch(input, events, advance) ==
  [id |-> input[1], input |-> input, artifact |-> records[input[1]].artifact,
   surfaces |-> records[input[1]].surfaces, events |-> events, advance |-> advance]

RunEffects(record) ==
  {<<{[handle |-> h, contract |-> record.routes[name].contract, payload |-> payload]}, {}>> :
     h \in DOMAIN record.surfaces, name \in DOMAIN record.routes, payload \in Declarations}
  \union
  {<<{}, {[handle |-> h, outputs |-> {record.routes[name].contract : name \in outputs}]}>> :
     h \in DOMAIN record.surfaces, outputs \in SUBSET DOMAIN record.routes \ {{}}}

Run(input) ==
  /\ host = "up" /\ input[1] \in Active
  /\ \A b \in batches : b.input # input
  /\ \E effects \in RunEffects(records[input[1]]) :
       LET b == Batch(input, effects[1], effects[2])
       IN  Authorized(b) /\ batches' = batches \union {b}
  /\ UNCHANGED <<stream, ledger, settled, messages, runRest>>

\* apply: the batch is authorized again, then its events are appended and its
\* followups prepared with the outputs they grant.
Apply(b) ==
  /\ host = "up" /\ b.id \in Active
  /\ settled' = settled \union {b}
  /\ IF Authorized(b)
     THEN /\ stream' = [s \in Surfaces |->
               stream[s] \o
               LET here == {e \in b.events : b.surfaces[e.handle] = s}
               IN  IF here = {} THEN <<>>
                   ELSE LET e == CHOOSE x \in here : TRUE
                        IN  <<Event(e.contract, e.payload, "orchestrate")>>]
          /\ messages' = messages \union {<<b.surfaces[a.handle], a.outputs>> : a \in b.advance}
     ELSE UNCHANGED <<stream, messages>>
  /\ UNCHANGED <<ledger, batches, runRest>>

-----------------------------------------------------------------------------
\* The host dies; what it knew is gone, and start-up synchronises and prepares
\* the turn of every Surface with a session.
StartUp == Job(TRUE, <<None>> \o SurfaceOrder, None)

Crash ==
  /\ crashes < MaxCrashes /\ crashes' = crashes + 1
  /\ host' = "starting" /\ inactive' = retired
  /\ failures' = [d \in Dirs |-> None]
  /\ brief' = [s \in Surfaces |-> {}] /\ turn' = [s \in Surfaces |-> None]
  /\ jobs' = [k \in Callers \union {"host"} |-> IF k = "host" THEN StartUp ELSE None]
  /\ touched' = {}
  /\ UNCHANGED <<author, registryVars, retired, effectVars, turns, edits>>

Init ==
  /\ author \in Initial
  /\ contracts = {} /\ records = <<>> /\ pinned = {} /\ retired = {}
  /\ stream = [s \in Surfaces |-> <<>>] /\ ledger = {}
  /\ batches = {} /\ settled = {} /\ messages = {}
  /\ host = "starting" /\ inactive = {}
  /\ failures = [d \in Dirs |-> None]
  /\ brief = [s \in Surfaces |-> {}] /\ turn = [s \in Surfaces |-> None]
  /\ jobs = [k \in Callers \union {"host"} |-> IF k = "host" THEN StartUp ELSE None]
  /\ touched = {} /\ edits = 0 /\ turns = 0 /\ crashes = 0

SyncStep(k) ==
  \/ ReadSource(k) \/ Snapshot(k) \/ Resolve(k) \/ Compare(k) \/ Record(k)
  \/ Prepare(k) \/ AuthorizeEmit(k) \/ RefuseEmit(k) \/ EmitBare(k) \/ AppendEmit(k)

Next ==
  \/ \E k \in Callers \union {"host"} : SyncStep(k)
  \/ \E k \in Callers : \E s \in Surfaces : EndTurn(k, s) \/ BeginEmit(k, s) \/ Ensure(k, s)
  \/ \E s \in Surfaces : StartTurn(s)
  \/ \E d \in Dirs : Edit(d)
  \/ \E r \in Recorded : Retire(r) \/ \E s \in Surfaces : Accept(r, s)
  \/ \E input \in ledger : Run(input)
  \/ \E b \in batches \ settled : Apply(b)
  \/ Crash

Spec == Init /\ [][Next]_vars
-----------------------------------------------------------------------------
(***************************************************************************)
(* Properties.                                                              *)
(***************************************************************************)

\* A record fits together although authors save while it is made and others
\* admit the same id: its contracts say what its own artifact declares, they
\* are in the store, and the artifact is pinned.
RecordsMatchArtifact ==
  \A r \in Recorded :
    /\ records[r].artifact \in pinned
    /\ records[r].entrypoint \in records[r].artifact.files
    /\ \A c \in {route.contract : route \in ImageOf(records[r].routes)} :
         /\ c \in contracts
         /\ c.scope = r => c.says = records[r].artifact.declares[c.name]

\* What was recorded can be carried out whenever it is taken up again: nothing
\* that is admitted later takes its authorization away.
RecordedStaysAuthorized == \A b \in batches : Authorized(b)

\* The registration an event of a local contract belongs to, and where it may
\* come from.
Routed(s, e) ==
  /\ e.contract.scope \in Recorded
  /\ LET record == records[e.contract.scope]
         capability == IF e.producer = "orchestrate" THEN "emitOn" ELSE "surfaceOutputFrom"
     IN  /\ Allows(record, e.contract.name, s, capability)
         /\ record.routes[e.contract.name].contract = e.contract

\* Every business event is one that an admitted registration routes at that
\* Surface from that producer, with a payload that fits, and its inputs are
\* its own, whoever else has an event of that name.
EventsAreRouted ==
  /\ \A s \in Surfaces : \A n \in DOMAIN stream[s] :
       Routed(s, stream[s][n]) /\ Fits(stream[s][n].payload, stream[s][n].contract)
  /\ \A input \in ledger :
       stream[input[2]][input[3]].contract.scope = input[1]

\* What an author left can be admitted by itself.
Acceptable(source, artifact) ==
  /\ source # None /\ Parses(source)
  /\ source.entrypoint \in artifact.files
  /\ \A name \in DOMAIN source.events : RouteFault(name, source.events[name], artifact) = None

\* Then its id has a record, and if that says something else, from another
\* directory, this is what is reported of it.
AdmittedIfSound(d) ==
  LET source == author[d].source
      artifact == author[d].artifact
      facts == Facts(source, RoutesOf(source, artifact), artifact)
  IN  Acceptable(source, artifact) =>
        /\ source.id \in Recorded
        /\ failures[d] = IF FactsOf(records[source.id]) = facts THEN None ELSE "conflict"

\* What is wrong with one directory is not held against another: a host that
\* is up has admitted every directory that its author has left alone since the
\* start and that is sound by itself.
SoundIsAdmitted ==
  host = "up" => \A d \in Dirs \ touched : AdmittedIfSound(d)
=============================================================================
