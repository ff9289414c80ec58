---------------------------- MODULE AdmissionProofs ----------------------------
(***************************************************************************)
(* Registrations, from the authoring files to the events they produce: for  *)
(* any directories, contents, synchronisations side by side, edits, turns   *)
(* and crashes.                                                             *)
(***************************************************************************)
EXTENDS Admission, SequenceTheorems, TLAPS

(***************************************************************************)
(* The inductive invariant.                                                 *)
(***************************************************************************)
Produced == {"orchestrate", "surface-session"}

\* A contract that an admission of id puts for one of its routes.
OwnContract(id, name, contract, artifact) ==
  /\ contract.name = name
  /\ \/ contract.scope = id /\ contract.says = artifact.declares[name]
     \/ contract.scope = "builtin" /\ contract.producers \intersect Produced = {}

RoutesSound(id, surfaces, routes, artifact) ==
  /\ id # "builtin" /\ Injective(surfaces)
  /\ \A name \in DOMAIN routes :
       /\ routes[name].contract \in contracts
       /\ OwnContract(id, name, routes[name].contract, artifact)
       /\ routes[name].emitOn \subseteq DOMAIN surfaces

RecordSound(r, record) ==
  /\ record.artifact \in pinned
  /\ record.entrypoint \in record.artifact.files
  /\ RoutesSound(r, record.surfaces, record.routes, record.artifact)

RecordsSound == \A r \in Recorded : RecordSound(r, records[r])

AuthorsSound ==
  /\ DOMAIN author = Dirs
  /\ \A d \in Dirs : /\ DOMAIN author[d] = {"source", "artifact"}
                     /\ author[d].source \in Sources[d] \union {None}

JobFields == {"at", "todo", "isolate", "after", "emit", "source", "artifact", "routes",
              "boundary", "event"}
Workers == Callers \union {"host"}
Syncing == {"read", "snapshot", "routes", "compare", "record"}

\* The event that emitTurn has authorized: an output of an admitted registration.
EmitSound(s, event) ==
  /\ event.producer = "surface-session"
  /\ \E r \in Recorded : \E name \in DOMAIN records[r].routes :
       /\ Allows(records[r], name, s, "surfaceOutputFrom")
       /\ records[r].routes[name].contract = event.contract

\* What a synchronisation has in hand at its stage.
JobSound(k, job) ==
  /\ DOMAIN job = JobFields
  /\ job.at \in Syncing \union {"after", "append"}
  /\ job.at \in Syncing => job.todo \in Seq(Dirs) /\ job.todo # <<>>
  /\ job.at \in Syncing \ {"read"} => job.source.id # "builtin" /\ Parses(job.source)
  /\ job.at \in {"routes", "compare", "record"} =>
       job.source.entrypoint \in job.artifact.files
  /\ job.at \in {"compare", "record"} =>
       RoutesSound(job.source.id, job.source.bindings, job.routes, job.artifact)
  /\ job.at = "record" => job.artifact \in pinned
  /\ job.emit # None => job.emit.surface \in Surfaces
  /\ job.at = "append" => job.emit # None /\ EmitSound(job.emit.surface, job.event)
  /\ k = "host" => job.isolate = TRUE

JobsSound ==
  /\ DOMAIN jobs = Workers
  /\ \A k \in Workers : jobs[k] # None => JobSound(k, jobs[k])

StreamsSound ==
  /\ DOMAIN stream = Surfaces
  /\ \E E : \A s \in Surfaces : stream[s] \in Seq(E)

BatchesSound == \A b \in batches : b.id \in Recorded /\ Authorized(b)

LedgerSound ==
  \A input \in ledger : input[2] \in Surfaces /\ input[3] \in DOMAIN stream[input[2]]

AdmissionInv ==
  /\ RecordsSound /\ AuthorsSound /\ JobsSound /\ StreamsSound /\ BatchesSound /\ LedgerSound
  /\ EventsAreRouted

-----------------------------------------------------------------------------
(***************************************************************************)
(* What only grows.                                                         *)
(***************************************************************************)
RegistryGrows ==
  /\ contracts \subseteq contracts' /\ pinned \subseteq pinned'
  /\ \A r \in Recorded : r \in Recorded' /\ records'[r] = records[r]

\* Contracts and pins are never taken away, and the first record of an id stands.
LEMMA RegistryStep ==
  ASSUME [Next]_vars
  PROVE  RegistryGrows
<1>1. ASSUME UNCHANGED registryVars PROVE RegistryGrows
  BY <1>1 DEF registryVars, RegistryGrows, Recorded
<1>2. ASSUME NEW k \in Workers, Resolve(k) PROVE RegistryGrows
  <2>1. contracts \subseteq contracts' /\ pinned' = pinned /\ records' = records
    BY <1>2 DEF Resolve
  <2> QED
    BY <2>1 DEF RegistryGrows, Recorded
<1>3. ASSUME NEW k \in Workers, Compare(k) PROVE RegistryGrows
  <2>1. contracts' = contracts /\ pinned \subseteq pinned' /\ records' = records
    BY <1>3 DEF Compare
  <2> QED
    BY <2>1 DEF RegistryGrows, Recorded
<1>4. ASSUME NEW k \in Workers, Record(k) PROVE RegistryGrows
  <2>1. /\ contracts' = contracts /\ pinned' = pinned
        /\ \/ records' = records
           \/ /\ jobs[k].source.id \notin Recorded
              /\ records' = With(records, jobs[k].source.id, RecordOf(k))
    BY <1>4 DEF Record, Put
  <2> QED
    BY <2>1 DEF RegistryGrows, Recorded, With
<1>5. ASSUME NEW k \in Workers, SyncStep(k) PROVE RegistryGrows
  <2>1. CASE ReadSource(k) \/ Snapshot(k) \/ Prepare(k)
    BY <1>1, <2>1 DEF ReadSource, Snapshot, Prepare
  <2>2. CASE AuthorizeEmit(k) \/ RefuseEmit(k) \/ EmitBare(k) \/ AppendEmit(k)
    BY <1>1, <2>2 DEF AuthorizeEmit, RefuseEmit, EmitBare, AppendEmit, emitRest
  <2> QED
    BY <1>2, <1>3, <1>4, <1>5, <2>1, <2>2 DEF SyncStep
<1>6. ASSUME NEW k \in Callers, NEW s \in Surfaces,
             EndTurn(k, s) \/ BeginEmit(k, s) \/ Ensure(k, s)
      PROVE  RegistryGrows
  BY <1>1, <1>6 DEF EndTurn, BeginEmit, Ensure
<1>7. ASSUME NEW s \in Surfaces, StartTurn(s) PROVE RegistryGrows
  BY <1>1, <1>7 DEF StartTurn
<1>8. ASSUME NEW d \in Dirs, Edit(d) PROVE RegistryGrows
  BY <1>1, <1>8 DEF Edit
<1>9. ASSUME NEW r \in Recorded, Retire(r) \/ \E s \in Surfaces : Accept(r, s)
      PROVE  RegistryGrows
  BY <1>1, <1>9 DEF Retire, Accept, runRest
<1>10. ASSUME NEW input \in ledger, Run(input) PROVE RegistryGrows
  BY <1>1, <1>10 DEF Run, runRest
<1>11. ASSUME NEW b \in batches \ settled, Apply(b) PROVE RegistryGrows
  BY <1>1, <1>11 DEF Apply, runRest
<1>12. CASE Crash
  BY <1>1, <1>12 DEF Crash
<1>13. CASE UNCHANGED vars
  BY <1>1, <1>13 DEF vars
<1> QED
  BY <1>5, <1>6, <1>7, <1>8, <1>9, <1>10, <1>11, <1>12, <1>13 DEF Next, Workers

\* So what was sound of routes, outputs and batches stays sound.
LEMMA SoundStays ==
  ASSUME RegistryGrows
  PROVE  /\ \A id, surfaces, routes, artifact :
              RoutesSound(id, surfaces, routes, artifact) =>
                RoutesSound(id, surfaces, routes, artifact)'
         /\ \A s, event : EmitSound(s, event) => EmitSound(s, event)'
         /\ \A k, job : JobSound(k, job) => JobSound(k, job)'
         /\ \A b : b.id \in Recorded /\ Authorized(b) => b.id \in Recorded' /\ Authorized(b)'
         /\ \A s, e : Routed(s, e) => Routed(s, e)'
<1>1. ASSUME NEW id, NEW surfaces, NEW routes, NEW artifact,
             RoutesSound(id, surfaces, routes, artifact)
      PROVE  RoutesSound(id, surfaces, routes, artifact)'
  BY <1>1 DEF RegistryGrows, RoutesSound
<1>2. ASSUME NEW s, NEW event, EmitSound(s, event) PROVE EmitSound(s, event)'
  BY <1>2 DEF RegistryGrows, EmitSound
<1>3. ASSUME NEW k, NEW job, JobSound(k, job) PROVE JobSound(k, job)'
  BY <1>1, <1>2, <1>3 DEF RegistryGrows, JobSound
<1>4. ASSUME NEW b, b.id \in Recorded, Authorized(b)
      PROVE  b.id \in Recorded' /\ Authorized(b)'
  BY <1>4 DEF RegistryGrows, Authorized, Permits
<1>5. ASSUME NEW s, NEW e, Routed(s, e) PROVE Routed(s, e)'
  BY <1>5 DEF RegistryGrows, Routed
<1> QED
  BY <1>1, <1>2, <1>3, <1>4, <1>5

-----------------------------------------------------------------------------
(***************************************************************************)
(* Synchronisations.                                                        *)
(***************************************************************************)
\* What the constants are assumed to be, as the proofs use it.
LEMMA AdmissionConstants ==
  /\ DirOrder \in Seq(Dirs) /\ DirOrder # <<>>
  /\ SurfaceOrder \in Seq(Surfaces)
  /\ "host" \notin Callers /\ None # "unknown built-in"
  /\ \A name \in DOMAIN Builtins : Builtins[name].producers \intersect Produced = {}
  /\ \A d \in Dirs : \A source \in Sources[d] : source.id # "builtin"
BY AdmissionAssumption DEF Produced

\* One job is replaced, by none or by one that is sound, while the others go on.
LEMMA JobSet ==
  ASSUME JobsSound, RegistryGrows, NEW k \in Workers, NEW job, Set(k, job),
         job = None \/ JobSound(k, job)'
  PROVE  JobsSound'
<1>1. DOMAIN jobs = Workers /\ \A x \in Workers : jobs[x] # None => JobSound(x, jobs[x])
  BY DEF JobsSound
<1>2. jobs' = [jobs EXCEPT ![k] = job]
  BY DEF Set
<1>3. ASSUME NEW x \in Workers, jobs'[x] # None PROVE JobSound(x, jobs[x])'
  <2>1. CASE x = k
    <3>1. jobs'[x] = job /\ JobSound(x, job)'
      BY <1>1, <1>2, <1>3, <2>1
    <3> QED
      BY <3>1 DEF JobSound
  <2>2. CASE x # k
    <3>1. PICK j : j = jobs[x]
      OBVIOUS
    <3>2. JobSound(x, j) /\ jobs'[x] = j
      BY <1>1, <1>2, <1>3, <2>2, <3>1
    <3>3. JobSound(x, j)'
      BY <3>2, SoundStays
    <3> QED
      BY <3>2, <3>3 DEF JobSound
  <2> QED
    BY <2>1, <2>2
<1> QED
  BY <1>1, <1>2, <1>3 DEF JobsSound

\* The job that goes on after a directory is done with.
LEMMA AdvancedSound ==
  ASSUME NEW k, JobSound(k, jobs[k]), jobs[k].at \in Syncing
  PROVE  JobSound(k, Advanced(k))
<1> DEFINE job == jobs[k]
           rest == Tail(job.todo)
<1>1. DOMAIN job = JobFields /\ job.todo \in Seq(Dirs) /\ job.todo # <<>>
  BY DEF JobSound
<1>2. rest \in Seq(Dirs)
  BY <1>1
<1>3. Advanced(k) = [job EXCEPT !.todo = rest, !.at = IF rest = <<>> THEN "after" ELSE "read",
                                !.source = None, !.artifact = None, !.routes = None,
                                !.boundary = None]
  BY DEF Advanced
<1>4. /\ DOMAIN Advanced(k) = JobFields /\ Advanced(k).todo = rest
      /\ Advanced(k).at = IF rest = <<>> THEN "after" ELSE "read"
      /\ Advanced(k).isolate = job.isolate /\ Advanced(k).emit = job.emit
      /\ Advanced(k).after = job.after
  BY <1>1, <1>3 DEF JobFields
<1> QED
  BY <1>2, <1>4 DEF JobSound, Syncing

\* A directory that fails or succeeds leaves a sound job, or none.
LEMMA DirectoryDone ==
  ASSUME JobsSound, RegistryGrows, NEW k \in Workers, jobs[k] # None, jobs[k].at \in Syncing,
         Succeed(k) \/ \E message : Fail(k, message)
  PROVE  JobsSound'
<1>1. Set(k, None) \/ Set(k, Advanced(k))
  BY DEF Succeed, Fail, Ended
<1>2. PICK j : j = Advanced(k)
  OBVIOUS
<1>3. JobSound(k, j)
  BY <1>2, AdvancedSound DEF JobsSound
<1>4. JobSound(k, j)'
  BY <1>3, SoundStays
<1> QED
  BY <1>1, <1>2, <1>4, JobSet

\* The routes of a registration that parses, resolved with its own artifact.
LEMMA RoutesResolved ==
  ASSUME NEW source, NEW artifact, source.id # "builtin", Parses(source),
         \A name \in DOMAIN source.events : RouteFault(name, source.events[name], artifact) = None,
         contracts' = contracts \union {route.contract : route \in ImageOf(RoutesOf(source, artifact))}
  PROVE  RoutesSound(source.id, source.bindings, RoutesOf(source, artifact), artifact)'
<1> DEFINE routes == RoutesOf(source, artifact)
<1>1. DOMAIN routes = DOMAIN source.events
  BY DEF RoutesOf
<1>2. ASSUME NEW name \in DOMAIN source.events
      PROVE  /\ routes[name].contract = ContractOf(source.id, name, source.events[name], artifact)
             /\ routes[name].emitOn = source.events[name].emitOn
             /\ routes[name].contract \in contracts'
  <2>1. /\ routes[name].contract = ContractOf(source.id, name, source.events[name], artifact)
        /\ routes[name].emitOn = source.events[name].emitOn
    BY DEF RoutesOf
  <2>2. routes[name] \in ImageOf(routes)
    BY <1>1 DEF ImageOf
  <2> QED
    BY <2>1, <2>2
<1>3. ASSUME NEW name \in DOMAIN source.events
      PROVE  OwnContract(source.id, name, routes[name].contract, artifact)
  <2> DEFINE route == source.events[name]
  <2>0. routes[name].contract =
          IF route.builtin
          THEN [scope |-> "builtin", name |-> name, says |-> Builtins[name].says,
                subjects |-> Builtins[name].subjects, producers |-> Builtins[name].producers]
          ELSE [scope |-> source.id, name |-> name, says |-> artifact.declares[name],
                subjects |-> {"surface"},
                producers |-> (IF route.emitOn = {} THEN {} ELSE {"orchestrate"}) \union
                              (IF route.surfaceOutputFrom = {} THEN {} ELSE {"surface-session"})]
    BY <1>2 DEF ContractOf
  <2> HIDE DEF route
  <2>1. CASE route.builtin
    <3>1. name \in DOMAIN Builtins
      BY <2>1, AdmissionConstants DEF RouteFault, route
    <3>2. /\ routes[name].contract.name = name /\ routes[name].contract.scope = "builtin"
          /\ routes[name].contract.producers = Builtins[name].producers
      BY <2>0, <2>1
    <3> QED
      BY <3>1, <3>2, AdmissionConstants DEF OwnContract
  <2>2. CASE ~route.builtin
    <3>1. /\ routes[name].contract.name = name /\ routes[name].contract.scope = source.id
          /\ routes[name].contract.says = artifact.declares[name]
      BY <2>0, <2>2
    <3> QED
      BY <3>1 DEF OwnContract
  <2> QED
    BY <2>1, <2>2
<1>4. \A name \in DOMAIN source.events : source.events[name].emitOn \subseteq DOMAIN source.bindings
  BY DEF Parses, Capabilities
<1>5. Injective(source.bindings)
  BY DEF Parses
<1> HIDE DEF routes
<1> QED
  BY <1>1, <1>2, <1>3, <1>4, <1>5 DEF RoutesSound, routes

\* Every step of a synchronisation leaves it with what its next stage relies on.
LEMMA SyncStepSound ==
  ASSUME AdmissionInv, RegistryGrows, NEW k \in Workers, SyncStep(k)
  PROVE  JobsSound'
<1>0. /\ JobsSound /\ DOMAIN jobs = Workers
      /\ jobs[k] # None => JobSound(k, jobs[k])
  BY DEF AdmissionInv, JobsSound
<1>1. ASSUME NEW job, Set(k, job), JobSound(k, job)' PROVE JobsSound'
  BY <1>0, <1>1, JobSet
<1>2. ASSUME Ended(k) PROVE JobsSound'
  BY <1>0, <1>2, JobSet DEF Ended
<1>3. ASSUME jobs[k] # None, jobs[k].at \in Syncing,
             Succeed(k) \/ \E message : Fail(k, message)
      PROVE  JobsSound'
  BY <1>0, <1>3, DirectoryDone
<1>4. CASE ReadSource(k)
  <2> DEFINE source == author[Dir(k)].source
  <2>1. jobs[k] # None /\ jobs[k].at = "read" /\ JobSound(k, jobs[k])
    BY <1>0, <1>4 DEF ReadSource, At
  <2>2. CASE Succeed(k) \/ \E message : Fail(k, message)
    BY <1>3, <2>1, <2>2 DEF Syncing
  <2>3. CASE /\ source # None /\ Parses(source)
             /\ Set(k, [jobs[k] EXCEPT !.source = source, !.at = "snapshot"])
    <3>1. PICK job : job = [jobs[k] EXCEPT !.source = source, !.at = "snapshot"]
      OBVIOUS
    <3>2. Dir(k) \in Dirs
      BY <2>1 DEF JobSound, Syncing, Dir
    <3>3. source.id # "builtin"
      BY <2>3, <3>2, AdmissionConstants DEF AdmissionInv, AuthorsSound
    <3>4. /\ DOMAIN job = JobFields /\ job.at = "snapshot" /\ job.source = source
          /\ job.todo = jobs[k].todo /\ job.isolate = jobs[k].isolate
          /\ job.emit = jobs[k].emit /\ job.after = jobs[k].after
      BY <2>1, <3>1 DEF JobSound, JobFields
    <3>5. JobSound(k, job)
      BY <2>1, <2>3, <3>3, <3>4 DEF JobSound, Syncing
    <3>6. JobSound(k, job)'
      BY <3>5, SoundStays
    <3> QED
      BY <1>1, <2>3, <3>1, <3>6
  <2> QED
    BY <1>4, <2>2, <2>3 DEF ReadSource
<1>5. CASE Snapshot(k)
  <2> DEFINE artifact == author[Dir(k)].artifact
  <2>1. jobs[k] # None /\ jobs[k].at = "snapshot" /\ JobSound(k, jobs[k])
    BY <1>0, <1>5 DEF Snapshot, At
  <2>2. CASE \E message : Fail(k, message)
    BY <1>3, <2>1, <2>2 DEF Syncing
  <2>3. CASE /\ jobs[k].source.entrypoint \in artifact.files
             /\ Set(k, [jobs[k] EXCEPT !.artifact = artifact, !.at = "routes"])
    <3>1. PICK job : job = [jobs[k] EXCEPT !.artifact = artifact, !.at = "routes"]
      OBVIOUS
    <3>2. /\ DOMAIN job = JobFields /\ job.at = "routes" /\ job.source = jobs[k].source
          /\ job.artifact = artifact
          /\ job.todo = jobs[k].todo /\ job.isolate = jobs[k].isolate
          /\ job.emit = jobs[k].emit /\ job.after = jobs[k].after
      BY <2>1, <3>1 DEF JobSound, JobFields
    <3>3. JobSound(k, job)
      BY <2>1, <2>3, <3>2 DEF JobSound, Syncing
    <3>4. JobSound(k, job)'
      BY <3>3, SoundStays
    <3> QED
      BY <1>1, <2>3, <3>1, <3>4
  <2> QED
    BY <1>5, <2>2, <2>3 DEF Snapshot
<1>6. CASE Resolve(k)
  <2> DEFINE source == jobs[k].source
             artifact == jobs[k].artifact
             routes == RoutesOf(source, artifact)
  <2>1. jobs[k] # None /\ jobs[k].at = "routes" /\ JobSound(k, jobs[k])
    BY <1>0, <1>6 DEF Resolve, At
  <2>2. CASE \E message : Fail(k, message)
    BY <1>3, <2>1, <2>2 DEF Syncing
  <2>3. CASE /\ \A name \in DOMAIN source.events :
                  RouteFault(name, source.events[name], artifact) = None
             /\ contracts' = contracts \union {route.contract : route \in ImageOf(routes)}
             /\ Set(k, [jobs[k] EXCEPT !.routes = routes, !.at = "compare"])
    <3>1. PICK job : job = [jobs[k] EXCEPT !.routes = routes, !.at = "compare"]
      OBVIOUS
    <3>2. /\ DOMAIN job = JobFields /\ job.at = "compare" /\ job.source = source
          /\ job.artifact = artifact /\ job.routes = routes
          /\ job.todo = jobs[k].todo /\ job.isolate = jobs[k].isolate
          /\ job.emit = jobs[k].emit /\ job.after = jobs[k].after
      BY <2>1, <3>1 DEF JobSound, JobFields
    <3>3. RoutesSound(job.source.id, job.source.bindings, job.routes, job.artifact)'
      <4>1. PICK src, art : src = source /\ art = artifact
        OBVIOUS
      <4>2. src.id # "builtin" /\ Parses(src)
        BY <2>1, <4>1 DEF JobSound, Syncing
      <4>3. RoutesSound(src.id, src.bindings, RoutesOf(src, art), art)'
        BY <2>3, <4>1, <4>2, RoutesResolved
      <4> QED
        BY <3>2, <4>1, <4>3
    <3>4. JobSound(k, job)'
      BY <2>1, <3>2, <3>3 DEF JobSound, Syncing
    <3> QED
      BY <1>1, <2>3, <3>1, <3>4
  <2> QED
    BY <1>6, <2>2, <2>3 DEF Resolve, Declared
<1>7. CASE Compare(k)
  <2>1. jobs[k] # None /\ jobs[k].at = "compare" /\ JobSound(k, jobs[k])
    BY <1>0, <1>7 DEF Compare, At
  <2>2. CASE Succeed(k) \/ \E message : Fail(k, message)
    BY <1>3, <2>1, <2>2 DEF Syncing
  <2>3. ASSUME NEW boundary, pinned' = pinned \union {jobs[k].artifact},
               Set(k, [jobs[k] EXCEPT !.at = "record", !.boundary = boundary])
        PROVE  JobsSound'
    <3>1. PICK job : job = [jobs[k] EXCEPT !.at = "record", !.boundary = boundary]
      OBVIOUS
    <3>2. /\ DOMAIN job = JobFields /\ job.at = "record" /\ job.source = jobs[k].source
          /\ job.artifact = jobs[k].artifact /\ job.routes = jobs[k].routes
          /\ job.todo = jobs[k].todo /\ job.isolate = jobs[k].isolate
          /\ job.emit = jobs[k].emit /\ job.after = jobs[k].after
      BY <2>1, <3>1 DEF JobSound, JobFields
    <3>3. RoutesSound(job.source.id, job.source.bindings, job.routes, job.artifact)
      BY <2>1, <3>2 DEF JobSound
    <3>4. RoutesSound(job.source.id, job.source.bindings, job.routes, job.artifact)'
      BY <3>3, SoundStays
    <3>5. JobSound(k, job)'
      BY <2>1, <2>3, <3>2, <3>4 DEF JobSound, Syncing
    <3> QED
      BY <1>1, <2>3, <3>1, <3>5
  <2> QED
    BY <1>7, <2>2, <2>3 DEF Compare
<1>8. CASE Record(k)
  <2>1. jobs[k] # None /\ jobs[k].at = "record"
    BY <1>8 DEF Record, At
  <2>2. Succeed(k) \/ \E message : Fail(k, message)
    BY <1>8 DEF Record, Put
  <2> QED
    BY <1>3, <2>1, <2>2 DEF Syncing
<1>9. CASE Prepare(k)
  <2> DEFINE rest == Tail(jobs[k].after)
             again == [jobs[k] EXCEPT !.after = rest, !.todo = DirOrder, !.at = "read"]
  <2>1. jobs[k] # None /\ JobSound(k, jobs[k])
    BY <1>0, <1>9 DEF Prepare, At
  <2>2. Ended(k) \/ Set(k, None) \/ (rest # <<>> /\ Set(k, again))
    BY <1>9 DEF Prepare
  <2>3. CASE rest # <<>> /\ Set(k, again)
    <3>1. PICK job : job = again
      OBVIOUS
    <3>2. /\ DOMAIN job = JobFields /\ job.at = "read" /\ job.todo = DirOrder
          /\ job.isolate = jobs[k].isolate
          /\ job.emit = jobs[k].emit /\ job.after = rest
      BY <2>1, <3>1 DEF JobSound, JobFields
    <3>3. JobSound(k, job)
      BY <2>1, <2>3, <3>2, AdmissionConstants DEF JobSound, Syncing
    <3>4. JobSound(k, job)'
      BY <3>3, SoundStays
    <3> QED
      BY <1>1, <2>3, <3>1, <3>4
  <2> QED
    BY <1>0, <1>2, <2>2, <2>3, JobSet
<1>10. CASE AuthorizeEmit(k)
  <2> DEFINE s == jobs[k].emit.surface
  <2>1. jobs[k] # None /\ jobs[k].emit # None /\ JobSound(k, jobs[k])
    BY <1>0, <1>10 DEF AuthorizeEmit, Emitting, At
  <2>2. CASE Ended(k)
    BY <1>2, <2>2
  <2>3. ASSUME NEW name \in Names, NEW payload \in Declarations, NEW c \in OutputsNamed(s, name),
               Set(k, [jobs[k] EXCEPT !.at = "append", !.event = Event(c, payload, "surface-session")])
        PROVE  JobsSound'
    <3>1. PICK job : job = [jobs[k] EXCEPT !.at = "append", !.event = Event(c, payload, "surface-session")]
      OBVIOUS
    <3>2. /\ DOMAIN job = JobFields /\ job.at = "append"
          /\ job.event = Event(c, payload, "surface-session")
          /\ job.isolate = jobs[k].isolate /\ job.emit = jobs[k].emit
          /\ job.after = jobs[k].after
      BY <2>1, <3>1 DEF JobSound, JobFields
    <3>3. EmitSound(s, job.event)
      BY <3>2 DEF EmitSound, Event, OutputsNamed, OutputRoutes, Active
    <3>4. JobSound(k, job)
      BY <2>1, <3>2, <3>3 DEF JobSound, Syncing
    <3>5. JobSound(k, job)'
      BY <3>4, SoundStays
    <3> QED
      BY <1>1, <2>3, <3>1, <3>5
  <2>4. PICK name \in Names, payload \in Declarations :
          \E c \in OutputsNamed(s, name) :
            \/ Ended(k)
            \/ Set(k, [jobs[k] EXCEPT !.at = "append", !.event = Event(c, payload, "surface-session")])
    BY <1>10 DEF AuthorizeEmit
  <2> QED
    BY <2>2, <2>3, <2>4
<1>11. CASE RefuseEmit(k) \/ EmitBare(k) \/ AppendEmit(k)
  BY <1>2, <1>11 DEF RefuseEmit, EmitBare, AppendEmit
<1> QED
  BY <1>4, <1>5, <1>6, <1>7, <1>8, <1>9, <1>10, <1>11 DEF SyncStep

\* The synchronisation of start-up tolerates failures.
LEMMA StartUpSound ==
  ASSUME NEW job, job = StartUp
  PROVE  \A k : JobSound(k, job)
<1>1. /\ DOMAIN job = JobFields /\ job.at = "read" /\ job.todo = DirOrder /\ job.emit = None
      /\ job.isolate = TRUE
  BY DEF StartUp, Job, JobFields
<1> QED
  BY <1>1, AdmissionConstants DEF JobSound, Syncing

\* Requests begin synchronisations, and start-up one of its own.
LEMMA JobsStep ==
  ASSUME AdmissionInv, [Next]_vars
  PROVE  JobsSound'
<1>0. RegistryGrows /\ JobsSound
  BY RegistryStep DEF AdmissionInv
<1>1. ASSUME UNCHANGED jobs PROVE JobsSound'
  <2>1. ASSUME NEW k \in Workers, jobs'[k] # None PROVE JobSound(k, jobs[k])'
    <3>1. PICK j : j = jobs[k]
      OBVIOUS
    <3>2. JobSound(k, j)'
      BY <1>0, <1>1, <2>1, <3>1, SoundStays DEF JobsSound
    <3> QED
      BY <1>1, <3>1, <3>2 DEF JobSound
  <2> QED
    BY <1>0, <1>1, <2>1 DEF JobsSound
<1>2. ASSUME NEW k \in Callers, NEW isolate, NEW after, NEW emit,
             emit # None => emit.surface \in Surfaces,
             Set(k, Job(isolate, after, emit))
      PROVE  JobsSound'
  <2>1. PICK job : job = Job(isolate, after, emit)
    OBVIOUS
  <2>2. DOMAIN job = JobFields /\ job.at = "read" /\ job.todo = DirOrder /\ job.emit = emit
    BY <2>1 DEF Job, JobFields
  <2>3. k # "host"
    BY AdmissionConstants
  <2>4. JobSound(k, job)
    BY <1>2, <2>2, <2>3, AdmissionConstants DEF JobSound, Syncing
  <2>5. JobSound(k, job)'
    BY <1>0, <2>4, SoundStays
  <2> QED
    BY <1>0, <1>2, <2>1, <2>5, JobSet DEF Workers
<1>3. ASSUME jobs' = [k \in Workers |-> IF k = "host" THEN StartUp ELSE None]
      PROVE  JobsSound'
  <2>1. PICK job : job = StartUp
    OBVIOUS
  <2>4. \A k : JobSound(k, job)
    BY <2>1, StartUpSound
  <2>5. \A k : JobSound(k, job)'
    BY <1>0, <2>4, SoundStays
  <2>6. \A k \in Workers : jobs'[k] = IF k = "host" THEN job ELSE None
    BY <1>3, <2>1
  <2>7. ASSUME NEW k \in Workers, jobs'[k] # None PROVE JobSound(k, jobs[k])'
    <3>1. jobs'[k] = job
      BY <2>6, <2>7
    <3> QED
      BY <2>5, <3>1 DEF JobSound
  <2> QED
    BY <1>3, <2>7 DEF JobsSound
<1>4. ASSUME NEW k \in Callers, NEW s \in Surfaces,
             EndTurn(k, s) \/ BeginEmit(k, s) \/ Ensure(k, s)
      PROVE  JobsSound'
  <2>1. CASE Set(k, Job(TRUE, <<s>>, None))
    BY <1>2, <2>1
  <2>2. CASE Set(k, Job(FALSE, <<>>, [surface |-> s, number |-> turn[s].number]))
    <3>1. PICK emit : emit = [surface |-> s, number |-> turn[s].number]
      OBVIOUS
    <3> QED
      BY <1>2, <2>2, <3>1
  <2> QED
    BY <1>4, <2>1, <2>2 DEF EndTurn, BeginEmit, Ensure
<1>5. CASE \E s \in Surfaces : StartTurn(s)
  BY <1>1, <1>5 DEF StartTurn
<1>6. CASE \E d \in Dirs : Edit(d)
  BY <1>1, <1>6 DEF Edit
<1>7. CASE \E r \in Recorded : Retire(r) \/ \E s \in Surfaces : Accept(r, s)
  BY <1>1, <1>7 DEF Retire, Accept, runRest
<1>8. CASE \/ \E input \in ledger : Run(input)
           \/ \E b \in batches \ settled : Apply(b)
  BY <1>1, <1>8 DEF Run, Apply, runRest
<1>9. CASE Crash
  BY <1>3, <1>9 DEF Crash, Workers
<1>10. CASE UNCHANGED vars
  BY <1>1, <1>10 DEF vars
<1> QED
  BY <1>0, <1>4, <1>5, <1>6, <1>7, <1>8, <1>9, <1>10, SyncStepSound DEF Next, Workers

-----------------------------------------------------------------------------
(***************************************************************************)
(* Records, authoring files, batches and inputs.                            *)
(***************************************************************************)
\* A record is made of one synchronisation's copy, contracts and pin.
LEMMA RecordsStep ==
  ASSUME AdmissionInv, [Next]_vars
  PROVE  RecordsSound'
<1>0. RegistryGrows /\ JobsSound /\ RecordsSound
  BY RegistryStep DEF AdmissionInv
<1>1. ASSUME NEW r \in Recorded PROVE RecordSound(r, records[r])'
  <2>1. PICK record : record = records[r]
    OBVIOUS
  <2>2. records'[r] = record /\ RecordSound(r, record)
    BY <1>0, <2>1 DEF RegistryGrows, RecordsSound
  <2>3. RecordSound(r, record)'
    BY <1>0, <2>2, SoundStays DEF RecordSound, RegistryGrows
  <2> QED
    BY <2>2, <2>3 DEF RecordSound
<1>2. ASSUME Recorded' = Recorded PROVE RecordsSound'
  BY <1>1, <1>2 DEF RecordsSound
<1>3. ASSUME NEW k \in Workers, Record(k),
             records' = With(records, jobs[k].source.id, RecordOf(k))
      PROVE  RecordsSound'
  <2>1. jobs[k] # None /\ jobs[k].at = "record" /\ JobSound(k, jobs[k])
    BY <1>0, <1>3 DEF Record, At, JobsSound
  <2>2. PICK id, record : id = jobs[k].source.id /\ record = RecordOf(k)
    OBVIOUS
  <2>3. /\ record.artifact = jobs[k].artifact /\ record.entrypoint = jobs[k].source.entrypoint
        /\ record.surfaces = jobs[k].source.bindings /\ record.routes = jobs[k].routes
    BY <2>2 DEF RecordOf, JobFacts, Facts
  <2>4. /\ record.artifact \in pinned /\ record.entrypoint \in record.artifact.files
        /\ RoutesSound(id, record.surfaces, record.routes, record.artifact)
    BY <2>1, <2>2, <2>3 DEF JobSound
  <2>5. RecordSound(id, record)'
    BY <1>0, <2>4, SoundStays DEF RegistryGrows, RecordSound
  <2>6. /\ Recorded' = Recorded \union {id} /\ records'[id] = record
    BY <1>3, <2>2 DEF With, Recorded
  <2>7. RecordSound(id, records[id])'
    BY <2>5, <2>6 DEF RecordSound
  <2> QED
    BY <1>1, <2>6, <2>7 DEF RecordsSound
<1>4. ASSUME NEW k \in Workers, SyncStep(k) PROVE RecordsSound'
  <2>1. CASE ReadSource(k) \/ Snapshot(k) \/ Resolve(k) \/ Compare(k) \/ Prepare(k)
    BY <1>2, <2>1 DEF ReadSource, Snapshot, Resolve, Compare, Prepare, registryVars, Recorded
  <2>2. CASE Record(k)
    BY <1>2, <1>3, <2>2 DEF Record, Put, Recorded
  <2>3. CASE AuthorizeEmit(k) \/ RefuseEmit(k) \/ EmitBare(k) \/ AppendEmit(k)
    BY <1>2, <2>3 DEF AuthorizeEmit, RefuseEmit, EmitBare, AppendEmit, emitRest, registryVars,
                      Recorded
  <2> QED
    BY <1>4, <2>1, <2>2, <2>3 DEF SyncStep
<1>5. CASE UNCHANGED registryVars
  BY <1>2, <1>5 DEF registryVars, Recorded
<1> QED
  BY <1>4, <1>5
     DEF Next, EndTurn, BeginEmit, Ensure, StartTurn, Edit, Retire, Accept, Run, Apply, Crash,
         runRest, vars, Workers

\* Authors only save what an author may save.
LEMMA AuthorsStep ==
  ASSUME AdmissionInv, [Next]_vars
  PROVE  AuthorsSound'
<1>0. AuthorsSound
  BY DEF AdmissionInv
<1>1. CASE author' = author
  BY <1>0, <1>1 DEF AuthorsSound
<1>2. ASSUME NEW d \in Dirs, Edit(d) PROVE AuthorsSound'
  <2>1. CASE \E source \in Sources[d] : author' = [author EXCEPT ![d].source = source]
    BY <1>0, <2>1 DEF AuthorsSound
  <2>2. CASE \E artifact \in Artifacts : author' = [author EXCEPT ![d].artifact = artifact]
    BY <1>0, <2>2 DEF AuthorsSound
  <2> QED
    BY <1>2, <2>1, <2>2 DEF Edit
<1> QED
  BY <1>1, <1>2
     DEF Next, SyncStep, ReadSource, Snapshot, Resolve, Compare, Record, Prepare, AuthorizeEmit,
         RefuseEmit, EmitBare, AppendEmit, EndTurn, BeginEmit, Ensure, StartTurn, Retire,
         Accept, Run, Apply, Crash, syncRest, emitRest, runRest, vars

\* A batch is authorized when it is recorded, and no later admission changes that.
LEMMA BatchesStep ==
  ASSUME AdmissionInv, [Next]_vars
  PROVE  BatchesSound'
<1>0. RegistryGrows /\ BatchesSound
  BY RegistryStep DEF AdmissionInv
<1>1. \A b \in batches : b.id \in Recorded' /\ Authorized(b)'
  BY <1>0, SoundStays DEF BatchesSound
<1>2. CASE batches' = batches
  BY <1>1, <1>2 DEF BatchesSound
<1>3. ASSUME NEW input \in ledger, Run(input) PROVE BatchesSound'
  <2>1. PICK effects \in RunEffects(records[input[1]]) :
          /\ Authorized(Batch(input, effects[1], effects[2]))
          /\ batches' = batches \union {Batch(input, effects[1], effects[2])}
    BY <1>3 DEF Run
  <2>2. PICK b : b = Batch(input, effects[1], effects[2])
    OBVIOUS
  <2>3. b.id \in Recorded /\ Authorized(b)
    BY <1>3, <2>1, <2>2 DEF Run, Batch, Active
  <2>4. b.id \in Recorded' /\ Authorized(b)'
    BY <1>0, <2>3, SoundStays
  <2> QED
    BY <1>1, <2>1, <2>2, <2>4 DEF BatchesSound
<1> QED
  BY <1>2, <1>3
     DEF Next, SyncStep, ReadSource, Snapshot, Resolve, Compare, Record, Prepare, AuthorizeEmit,
         RefuseEmit, EmitBare, AppendEmit, EndTurn, BeginEmit, Ensure, StartTurn, Edit, Retire,
         Accept, Apply, Crash, syncRest, emitRest, runRest, effectVars, vars

-----------------------------------------------------------------------------
(***************************************************************************)
(* Events and inputs.                                                       *)
(***************************************************************************)
\* What emitTurn has authorized and append accepts is routed, by the registration
\* whose contract it has.
LEMMA EmitRouted ==
  ASSUME AdmissionInv, NEW s, NEW e, EmitSound(s, e), CanAppend(e)
  PROVE  Routed(s, e) /\ Fits(e.payload, e.contract)
<1>1. PICK r \in Recorded : \E name \in DOMAIN records[r].routes :
        /\ Allows(records[r], name, s, "surfaceOutputFrom")
        /\ records[r].routes[name].contract = e.contract
  BY DEF EmitSound
<1>2. PICK name \in DOMAIN records[r].routes :
        /\ Allows(records[r], name, s, "surfaceOutputFrom")
        /\ records[r].routes[name].contract = e.contract
  BY <1>1
<1>3. OwnContract(r, name, e.contract, records[r].artifact)
  BY <1>2 DEF AdmissionInv, RecordsSound, RecordSound, RoutesSound
<1>4. e.producer = "surface-session" /\ e.producer \in e.contract.producers
      /\ Fits(e.payload, e.contract)
  BY DEF EmitSound, CanAppend
<1>5. e.contract.name = name /\ e.contract.scope = r
  BY <1>3, <1>4 DEF OwnContract, Produced
<1> QED
  BY <1>2, <1>4, <1>5 DEF Routed

\* So is what a recorded batch says.
LEMMA BatchRouted ==
  ASSUME AdmissionInv, NEW b \in batches, NEW x \in b.events
  PROVE  LET e == Event(x.contract, x.payload, "orchestrate")
         IN  Routed(b.surfaces[x.handle], e) /\ Fits(e.payload, e.contract)
<1> DEFINE record == records[b.id]
           contract == x.contract
           s == b.surfaces[x.handle]
<1>1. b.id \in Recorded /\ Authorized(b)
  BY DEF AdmissionInv, BatchesSound
<1>2. /\ b.surfaces = record.surfaces
      /\ contract.name \in DOMAIN record.routes
      /\ x.handle \in record.routes[contract.name].emitOn
      /\ record.routes[contract.name].contract = contract
      /\ "orchestrate" \in contract.producers
      /\ Fits(x.payload, contract)
  BY <1>1 DEF Authorized, Permits
<1>3. /\ Injective(record.surfaces)
      /\ OwnContract(b.id, contract.name, contract, record.artifact)
      /\ record.routes[contract.name].emitOn \subseteq DOMAIN record.surfaces
  BY <1>1, <1>2 DEF AdmissionInv, RecordsSound, RecordSound, RoutesSound
<1>4. contract.scope = b.id
  BY <1>2, <1>3 DEF OwnContract, Produced
<1>5. Handles(record, s) = {x.handle}
  BY <1>2, <1>3 DEF Handles, Injective
<1>6. Allows(record, contract.name, s, "emitOn")
  BY <1>2, <1>5 DEF Allows
<1> QED
  BY <1>1, <1>2, <1>4, <1>6 DEF Routed, Event

\* An event that is in the stream stays there.
StreamsGrow ==
  \A s \in Surfaces : \A n \in DOMAIN stream[s] :
    n \in DOMAIN stream'[s] /\ stream'[s][n] = stream[s][n]

RoutedEvents ==
  \A s \in Surfaces : \A n \in DOMAIN stream[s] :
    Routed(s, stream[s][n]) /\ Fits(stream[s][n].payload, stream[s][n].contract)

\* Streams to which one event each is appended at most, that is routed.
LEMMA StreamsAppend ==
  ASSUME AdmissionInv, RegistryGrows, DOMAIN stream' = Surfaces,
         \A s \in Surfaces :
           \/ stream'[s] = stream[s]
           \/ \E e : /\ stream'[s] = Append(stream[s], e)
                     /\ Routed(s, e) /\ Fits(e.payload, e.contract)
  PROVE  StreamsSound' /\ StreamsGrow /\ RoutedEvents'
<1>1. PICK E : \A s \in Surfaces : stream[s] \in Seq(E)
  BY DEF AdmissionInv, StreamsSound
<1>2. RoutedEvents
  BY DEF AdmissionInv, EventsAreRouted, RoutedEvents
<1> DEFINE F == E \union {stream'[s][Len(stream'[s])] : s \in Surfaces}
<1>3. ASSUME NEW s \in Surfaces
      PROVE  /\ stream'[s] \in Seq(F)
             /\ \A n \in DOMAIN stream[s] :
                  n \in DOMAIN stream'[s] /\ stream'[s][n] = stream[s][n]
             /\ \A n \in DOMAIN stream'[s] :
                  \/ n \in DOMAIN stream[s]
                  \/ \E e : /\ stream'[s][n] = e
                            /\ Routed(s, e) /\ Fits(e.payload, e.contract)
  <2>1. stream[s] \in Seq(E) /\ E \subseteq F
    BY <1>1
  <2>2. stream[s] \in Seq(F)
    BY <2>1, SeqMonotonic
  <2>3. CASE stream'[s] = stream[s]
    BY <2>2, <2>3
  <2>4. ASSUME NEW e, stream'[s] = Append(stream[s], e), Routed(s, e), Fits(e.payload, e.contract)
        PROVE  /\ stream'[s] \in Seq(F)
               /\ \A n \in DOMAIN stream[s] :
                    n \in DOMAIN stream'[s] /\ stream'[s][n] = stream[s][n]
               /\ \A n \in DOMAIN stream'[s] : n \in DOMAIN stream[s] \/ stream'[s][n] = e
    <3>1. /\ Len(stream'[s]) = Len(stream[s]) + 1 /\ Len(stream[s]) \in Nat
          /\ DOMAIN stream[s] = 1..Len(stream[s])
          /\ DOMAIN stream'[s] = 1..(Len(stream[s]) + 1)
          /\ \A n \in DOMAIN stream[s] : stream'[s][n] = stream[s][n]
          /\ stream'[s][Len(stream[s]) + 1] = e
      BY <2>1, <2>4
    <3>2. e \in F
      BY <3>1
    <3>3. stream'[s] \in Seq(F)
      BY <2>2, <2>4, <3>2
    <3> QED
      BY <3>1, <3>3
  <2> QED
    BY <2>3, <2>4
<1> HIDE DEF F
<1>4. StreamsSound'
  BY <1>3 DEF StreamsSound
<1>5. StreamsGrow
  BY <1>3 DEF StreamsGrow
<1>6. RoutedEvents'
  <2>1. ASSUME NEW s \in Surfaces, NEW n \in DOMAIN stream'[s]
        PROVE  \E e : /\ stream'[s][n] = e
                      /\ Routed(s, e) /\ Fits(e.payload, e.contract)
    BY <1>2, <1>3, <2>1 DEF RoutedEvents
  <2>2. ASSUME NEW s \in Surfaces, NEW n \in DOMAIN stream'[s]
        PROVE  (Routed(s, stream[s][n]) /\ Fits(stream[s][n].payload, stream[s][n].contract))'
    <3>1. PICK e : /\ stream'[s][n] = e
                   /\ Routed(s, e) /\ Fits(e.payload, e.contract)
      BY <2>1
    <3>2. Routed(s, e)'
      BY <3>1, SoundStays
    <3> QED
      BY <3>1, <3>2 DEF Routed, Fits
  <2> QED
    BY <2>2 DEF RoutedEvents
<1> QED
  BY <1>4, <1>5, <1>6

\* Streams only get routed events.
LEMMA StreamsStep ==
  ASSUME AdmissionInv, [Next]_vars
  PROVE  StreamsSound' /\ StreamsGrow /\ RoutedEvents'
<1>0. RegistryGrows /\ DOMAIN stream = Surfaces
  BY RegistryStep DEF AdmissionInv, StreamsSound
<1>1. CASE stream' = stream
  BY <1>0, <1>1, StreamsAppend
<1>2. ASSUME NEW k \in Workers, AppendEmit(k)
      PROVE  StreamsSound' /\ StreamsGrow /\ RoutedEvents'
  <2>1. PICK s, e : s = jobs[k].emit.surface /\ e = jobs[k].event
    OBVIOUS
  <2>2. EmitSound(s, e)
    BY <1>2, <2>1 DEF AppendEmit, At, AdmissionInv, JobsSound, JobSound
  <2>3. stream' = stream \/ (CanAppend(e) /\ stream' = [stream EXCEPT ![s] = Append(@, e)])
    BY <1>2, <2>1 DEF AppendEmit
  <2>4. CASE CanAppend(e) /\ stream' = [stream EXCEPT ![s] = Append(@, e)]
    <3>1. Routed(s, e) /\ Fits(e.payload, e.contract)
      BY <2>2, <2>4, EmitRouted
    <3>2. /\ DOMAIN stream' = Surfaces
          /\ \A x \in Surfaces : stream'[x] = stream[x]
                                  \/ (x = s /\ stream'[x] = Append(stream[x], e))
      BY <1>0, <2>4
    <3> QED
      BY <1>0, <3>1, <3>2, StreamsAppend
  <2> QED
    BY <1>1, <2>3, <2>4
<1>3. ASSUME NEW b \in batches \ settled, Apply(b)
      PROVE  StreamsSound' /\ StreamsGrow /\ RoutedEvents'
  <2>1. CASE stream' = stream
    BY <1>1, <2>1
  <2>2. CASE stream' # stream
    <3> DEFINE here(s) == {e \in b.events : b.surfaces[e.handle] = s}
               added(s) == LET e == CHOOSE x \in here(s) : TRUE
                           IN  Event(e.contract, e.payload, "orchestrate")
    <3>1. stream' = [s \in Surfaces |->
                       stream[s] \o IF here(s) = {} THEN <<>> ELSE <<added(s)>>]
      BY <1>3, <2>2 DEF Apply
    <3>2. ASSUME NEW s \in Surfaces
          PROVE  \/ stream'[s] = stream[s]
                 \/ \E e : /\ stream'[s] = Append(stream[s], e)
                           /\ Routed(s, e) /\ Fits(e.payload, e.contract)
      <4>1. PICK E : stream[s] \in Seq(E)
        BY DEF AdmissionInv, StreamsSound
      <4>2. CASE here(s) = {}
        <5>1. stream'[s] = stream[s] \o <<>>
          BY <3>1, <4>2
        <5> QED
          BY <4>1, <5>1, ConcatEmptySeq
      <4>3. CASE here(s) # {}
        <5>1. PICK x \in here(s) : added(s) = Event(x.contract, x.payload, "orchestrate")
          BY <4>3
        <5>2. Routed(s, added(s)) /\ Fits(added(s).payload, added(s).contract)
          <6>1. x \in b.events /\ b.surfaces[x.handle] = s
            BY <5>1
          <6> QED
            BY <5>1, <6>1, BatchRouted
        <5> HIDE DEF added
        <5>3. stream'[s] = stream[s] \o <<added(s)>>
          BY <3>1, <4>3
        <5>4. stream'[s] = Append(stream[s], added(s))
          <6>1. PICK e : e = added(s)
            OBVIOUS
          <6>2. stream[s] \o <<e>> = Append(stream[s], e)
            BY <4>1
          <6> QED
            BY <5>3, <6>1, <6>2
        <5> QED
          BY <5>2, <5>4
      <4> QED
        BY <4>2, <4>3
    <3>3. DOMAIN stream' = Surfaces
      BY <3>1
    <3> HIDE DEF here, added
    <3> QED
      BY <1>0, <3>2, <3>3, StreamsAppend
  <2> QED
    BY <2>1, <2>2
<1> QED
  BY <1>1, <1>2, <1>3
     DEF Next, SyncStep, ReadSource, Snapshot, Resolve, Compare, Record, Prepare, AuthorizeEmit,
         RefuseEmit, EmitBare, EndTurn, BeginEmit, Ensure, StartTurn, Edit, Retire,
         Accept, Run, Crash, syncRest, emitRest, runRest, effectVars, vars, Workers

\* Inputs are accepted where they match, so each is of its registration's contracts.
LEMMA LedgerStep ==
  ASSUME AdmissionInv, [Next]_vars
  PROVE  LedgerSound' /\ EventsAreRouted'
<1>0. /\ RegistryGrows /\ StreamsSound' /\ StreamsGrow /\ RoutedEvents' /\ RoutedEvents
      /\ LedgerSound /\ DOMAIN stream = Surfaces
      /\ \A input \in ledger : stream[input[2]][input[3]].contract.scope = input[1]
  BY RegistryStep, StreamsStep
     DEF AdmissionInv, StreamsSound, EventsAreRouted, RoutedEvents
<1> DEFINE Good(input) ==
             /\ input[2] \in Surfaces /\ input[3] \in DOMAIN stream[input[2]]
             /\ stream[input[2]][input[3]].contract.scope = input[1]
<1>1. \A input : Good(input) => Good(input)'
  BY <1>0 DEF StreamsGrow
<1>2. \A input \in ledger : Good(input)
  BY <1>0 DEF LedgerSound
<1>3. ASSUME \A input \in ledger' : Good(input)
      PROVE  LedgerSound' /\ EventsAreRouted'
  BY <1>0, <1>1, <1>3 DEF LedgerSound, EventsAreRouted, RoutedEvents
<1>4. ASSUME NEW r \in Recorded, NEW s \in Surfaces, Accept(r, s)
      PROVE  \A input \in ledger' : Good(input)
  <2>1. PICK n \in DOMAIN stream[s] : MatchesInput(r, s, n) /\ ledger' = ledger \union {<<r, s, n>>}
    BY <1>4 DEF Accept
  <2> DEFINE contract == stream[s][n].contract
  <2>2. /\ contract.name \in DOMAIN records[r].routes
        /\ records[r].routes[contract.name].contract = contract
    BY <2>1 DEF MatchesInput, Allows
  <2>3. OwnContract(r, contract.name, contract, records[r].artifact)
    BY <2>2 DEF AdmissionInv, RecordsSound, RecordSound, RoutesSound
  <2>4. contract.scope \in Recorded /\ "builtin" \notin Recorded
    BY <1>0 DEF RoutedEvents, Routed, AdmissionInv, RecordsSound, RecordSound, RoutesSound
  <2>5. contract.scope = r
    BY <2>3, <2>4 DEF OwnContract
  <2>6. Good(<<r, s, n>>)
    BY <2>5
  <2> HIDE DEF Good
  <2> QED
    BY <1>2, <2>1, <2>6
<1>5. CASE ledger' = ledger
  BY <1>2, <1>3, <1>5
<1> HIDE DEF Good
<1> QED
  BY <1>3, <1>4, <1>5
     DEF Next, SyncStep, ReadSource, Snapshot, Resolve, Compare, Record, Prepare, AuthorizeEmit,
         RefuseEmit, EmitBare, AppendEmit, EndTurn, BeginEmit, Ensure, StartTurn, Edit, Retire,
         Run, Apply, Crash, syncRest, emitRest, runRest, effectVars, vars

-----------------------------------------------------------------------------
(***************************************************************************)
(* Start-up: what is wrong with one directory is its own affair.            *)
(***************************************************************************)
\* Only the synchronisation of start-up runs while the host starts.
Alone ==
  /\ jobs["host"] # None => host = "starting" /\ \A k \in Callers : jobs[k] = None
  /\ \A k \in Callers : jobs[k] # None => host = "up"

\* What a synchronisation has in hand of a directory that is left alone is what
\* is there, and only start-up records what is new.
CurrentJob(k, job) ==
  LET d == Head(job.todo)
  IN  job.at \in Syncing \ {"read"} /\ d \notin touched =>
        /\ job.source = author[d].source /\ job.source # None
        /\ job.at # "snapshot" => job.artifact = author[d].artifact
        /\ job.at \in {"compare", "record"} =>
             /\ job.routes = RoutesOf(job.source, job.artifact)
             /\ \A name \in DOMAIN job.source.events :
                  RouteFault(name, job.source.events[name], job.artifact) = None
        /\ job.at = "record" => k = "host" /\ job.source.id \notin Recorded

JobsCurrent == \A k \in Workers : jobs[k] # None => CurrentJob(k, jobs[k])

\* A directory that start-up has still to look at.
Ahead(d) ==
  /\ host = "starting" /\ jobs["host"].at \in Syncing
  /\ d \in ImageOf(jobs["host"].todo)

StartInv ==
  /\ DOMAIN failures = Dirs
  /\ Alone /\ JobsCurrent
  /\ \A d \in Dirs \ touched : AdmittedIfSound(d) \/ host = "failed" \/ Ahead(d)

\* Who works: start-up, or a caller once the host is up.
LEMMA WorkerOf ==
  ASSUME StartInv, NEW k \in Workers, jobs[k] # None
  PROVE  k = "host" \/ (k \in Callers /\ host = "up")
<1>1. \A x \in Callers : jobs[x] # None => host = "up"
  BY DEF StartInv, Alone
<1>2. k = "host" \/ k \in Callers
  BY DEF Workers
<1>3. CASE k \in Callers
  BY <1>1, <1>3
<1> QED
  BY <1>2, <1>3

\* The first record of an id stands, so what was admitted stays so.
LEMMA AdmittedStays ==
  ASSUME RegistryGrows, NEW d, AdmittedIfSound(d),
         author'[d] = author[d], failures'[d] = failures[d]
  PROVE  AdmittedIfSound(d)'
BY DEF RegistryGrows, AdmittedIfSound, FactsOf

\* What a caller has in hand stays current, whatever is recorded meanwhile.
LEMMA CurrentStays ==
  ASSUME NEW k, NEW job, CurrentJob(k, job), k # "host" \/ records' = records,
         touched \subseteq touched',
         job.at \in Syncing /\ Head(job.todo) \notin touched' =>
           author'[Head(job.todo)] = author[Head(job.todo)]
  PROVE  CurrentJob(k, job)'
BY DEF CurrentJob, Recorded

\* One synchronisation goes on, or begins, and what it has done with a directory
\* counts for that directory.
LEMMA JobGoesOn ==
  ASSUME StartInv, AdmissionInv, RegistryGrows, NEW k \in Workers, NEW job, Set(k, job),
         (k = "host" /\ jobs[k] # None) \/ (k \in Callers /\ host = "up"),
         UNCHANGED <<author, touched, host>>,
         job = None \/ CurrentJob(k, job)',
         DOMAIN failures' = Dirs,
         \A d \in Dirs \ touched : failures'[d] = failures[d] \/ AdmittedIfSound(d)',
         k = "host" => \A d \in Dirs \ touched : Ahead(d) => AdmittedIfSound(d)' \/ Ahead(d)'
  PROVE  StartInv'
<1>0. "host" \notin Callers /\ DOMAIN jobs = Workers /\ jobs' = [jobs EXCEPT ![k] = job]
  BY AdmissionConstants DEF AdmissionInv, JobsSound, Set
<1>1. Alone'
  BY <1>0 DEF StartInv, Alone, Workers
<1>2. JobsCurrent'
  <2>1. SUFFICES ASSUME NEW x \in Workers, jobs'[x] # None
                 PROVE  CurrentJob(x, jobs[x])'
    BY DEF JobsCurrent
  <2>2. CASE x = k
    <3>1. jobs'[x] = job /\ CurrentJob(x, job)'
      BY <1>0, <2>1, <2>2
    <3> QED
      BY <3>1 DEF CurrentJob
  <2>3. CASE x # k
    <3>1. PICK j : j = jobs[x]
      OBVIOUS
    <3>2. jobs'[x] = j /\ CurrentJob(x, j)
      BY <1>0, <2>1, <2>3, <3>1 DEF StartInv, JobsCurrent
    <3>3. x # "host"
      BY <1>0, <2>1, <2>3 DEF StartInv, Alone, Workers
    <3>4. CurrentJob(x, j)'
      BY <3>2, <3>3, CurrentStays
    <3> QED
      BY <3>2, <3>4 DEF CurrentJob
  <2> QED
    BY <2>2, <2>3
<1>3. ASSUME NEW d \in Dirs \ touched
      PROVE  AdmittedIfSound(d)' \/ host' = "failed" \/ Ahead(d)'
  <2>1. AdmittedIfSound(d) \/ host = "failed" \/ Ahead(d)
    BY DEF StartInv
  <2>2. CASE AdmittedIfSound(d)
    BY <2>2, AdmittedStays
  <2>3. CASE Ahead(d)
    <3>1. k = "host"
      BY <2>3 DEF Ahead
    <3> QED
      BY <2>3, <3>1
  <2> QED
    BY <2>1, <2>2, <2>3
<1> QED
  BY <1>1, <1>2, <1>3 DEF StartInv

\* A directory is done with: start-up goes on to the next one in any case, and a
\* caller that gives up leaves everything as it is.
LEMMA DirectorySettled ==
  ASSUME StartInv, AdmissionInv, RegistryGrows, NEW k \in Workers,
         jobs[k] # None, jobs[k].at \in Syncing, UNCHANGED <<author, touched>>,
         NEW message, Fail(k, message) \/ (message = None /\ Succeed(k)),
         NEW d0, d0 = Dir(k),
         d0 \notin touched /\ failures'[d0] = message => AdmittedIfSound(d0)'
  PROVE  StartInv'
<1>0. /\ JobSound(k, jobs[k]) /\ host' = host /\ DOMAIN failures = Dirs
      /\ k = "host" \/ (k \in Callers /\ host = "up")
  <2>1. JobSound(k, jobs[k])
    BY DEF AdmissionInv, JobsSound
  <2>2. host' = host
    BY DEF Fail, Succeed, hostVars
  <2> QED
    BY <2>1, <2>2, WorkerOf DEF StartInv
<1>1. \/ /\ failures' = [failures EXCEPT ![Dir(k)] = message]
         /\ Set(k, Advanced(k))
      \/ k # "host" /\ Set(k, None) /\ failures' = failures
  BY <1>0 DEF Fail, Succeed, Ended, hostVars, JobSound
<1>2. CASE k # "host" /\ Set(k, None) /\ failures' = failures
  BY <1>0, <1>2, JobGoesOn
<1>3. CASE /\ failures' = [failures EXCEPT ![Dir(k)] = message]
           /\ Set(k, Advanced(k))
  <2>1. PICK job : job = Advanced(k)
    OBVIOUS
  <2>2. /\ DOMAIN jobs[k] = JobFields /\ jobs[k].todo \in Seq(Dirs) /\ jobs[k].todo # <<>>
        /\ Dir(k) = Head(jobs[k].todo) /\ Dir(k) \in Dirs
    BY <1>0 DEF JobSound, Dir
  <2>3. /\ job.todo = Tail(jobs[k].todo)
        /\ job.at = IF Tail(jobs[k].todo) = <<>> THEN "after" ELSE "read"
    BY <2>1, <2>2 DEF Advanced, JobFields
  <2>4. CurrentJob(k, job)'
    BY <2>3 DEF CurrentJob, Syncing
  <2>5. ASSUME NEW d \in Dirs \ touched
        PROVE  failures'[d] = failures[d] \/ AdmittedIfSound(d)'
    <3>1. CASE d = d0
      <4>1. failures'[d0] = message
        BY <1>0, <1>3, <2>2
      <4>2. AdmittedIfSound(d0)'
        BY <3>1, <4>1
      <4> QED
        BY <3>1, <4>2 DEF AdmittedIfSound
    <3>2. CASE d # d0
      BY <1>0, <1>3, <3>2
    <3> QED
      BY <3>1, <3>2
  <2>6. ASSUME k = "host", NEW d \in Dirs \ touched, Ahead(d)
        PROVE  AdmittedIfSound(d)' \/ Ahead(d)'
    <3>1. CASE d = d0
      <4>1. failures'[d0] = message
        BY <1>0, <1>3, <2>2
      <4>2. AdmittedIfSound(d0)'
        BY <3>1, <4>1
      <4> QED
        BY <3>1, <4>2 DEF AdmittedIfSound
    <3>2. CASE d # d0
      <4>1. PICK i \in DOMAIN jobs[k].todo : d = jobs[k].todo[i]
        BY <2>6 DEF Ahead, ImageOf
      <4>2. /\ i # 1 /\ i - 1 \in DOMAIN Tail(jobs[k].todo)
            /\ d = Tail(jobs[k].todo)[i - 1] /\ Tail(jobs[k].todo) # <<>>
        <5>1. /\ Len(jobs[k].todo) \in Nat /\ DOMAIN jobs[k].todo = 1..Len(jobs[k].todo)
              /\ Tail(jobs[k].todo) \in Seq(Dirs)
              /\ Len(Tail(jobs[k].todo)) = Len(jobs[k].todo) - 1
              /\ \A n \in 1..(Len(jobs[k].todo) - 1) : Tail(jobs[k].todo)[n] = jobs[k].todo[n + 1]
              /\ Head(jobs[k].todo) = jobs[k].todo[1]
          BY <2>2
        <5>2. i \in 1..Len(jobs[k].todo) /\ i # 1
          BY <2>2, <3>2, <4>1, <5>1
        <5>3. i - 1 \in 1..(Len(jobs[k].todo) - 1) /\ (i - 1) + 1 = i
          BY <5>1, <5>2
        <5>4. i - 1 \in DOMAIN Tail(jobs[k].todo)
          BY <5>1, <5>3
        <5> QED
          BY <4>1, <5>1, <5>2, <5>3, <5>4
      <4>3. jobs'["host"] = job
        BY <1>3, <2>1, <2>6 DEF Set, AdmissionInv, JobsSound
      <4>4. d \in ImageOf(job.todo) /\ job.at = "read"
        BY <2>3, <4>2 DEF ImageOf
      <4>5. host' = "starting"
        BY <1>0, <2>6 DEF Ahead
      <4> QED
        BY <4>3, <4>4, <4>5 DEF Ahead, Syncing
    <3> QED
      BY <3>1, <3>2
  <2>7. DOMAIN failures' = Dirs
    BY <1>0, <1>3
  <2>8. /\ Set(k, job) /\ UNCHANGED <<author, touched, host>>
        /\ (k = "host" /\ jobs[k] # None) \/ (k \in Callers /\ host = "up")
        /\ \A d \in Dirs \ touched : failures'[d] = failures[d] \/ AdmittedIfSound(d)'
        /\ k = "host" => \A d \in Dirs \ touched : Ahead(d) => AdmittedIfSound(d)' \/ Ahead(d)'
    BY <1>0, <1>3, <2>1, <2>5, <2>6
  <2> QED
    BY <2>4, <2>7, <2>8, JobGoesOn
<1> QED
  BY <1>1, <1>2, <1>3

\* The next stage of a directory, with what is in hand for it.
LEMMA StageGoesOn ==
  ASSUME StartInv, AdmissionInv, RegistryGrows, NEW k \in Workers,
         jobs[k] # None, jobs[k].at \in Syncing, UNCHANGED <<author, touched, hostVars>>,
         NEW job, Set(k, job), job.todo = jobs[k].todo, job.at \in Syncing, CurrentJob(k, job)'
  PROVE  StartInv'
<1>1. k = "host" \/ (k \in Callers /\ host = "up")
  BY WorkerOf
<1>2. UNCHANGED <<host, failures>> /\ DOMAIN failures' = Dirs
  BY DEF hostVars, StartInv
<1>3. ASSUME k = "host", NEW d, Ahead(d) PROVE Ahead(d)'
  <2>1. jobs'["host"] = job
    BY <1>3 DEF Set, AdmissionInv, JobsSound
  <2> QED
    BY <1>2, <1>3, <2>1 DEF Ahead
<1>4. /\ UNCHANGED <<author, touched, host>>
      /\ (k = "host" /\ jobs[k] # None) \/ (k \in Callers /\ host = "up")
      /\ \A d \in Dirs \ touched : failures'[d] = failures[d] \/ AdmittedIfSound(d)'
      /\ k = "host" => \A d \in Dirs \ touched : Ahead(d) => AdmittedIfSound(d)' \/ Ahead(d)'
  BY <1>1, <1>2, <1>3
<1> QED
  BY <1>2, <1>4, JobGoesOn

\* Looking at a directory, and copying what it declares.
LEMMA LookStep ==
  ASSUME StartInv, AdmissionInv, RegistryGrows, NEW k \in Workers, ReadSource(k) \/ Snapshot(k)
  PROVE  StartInv'
<1>0. PICK d0 : d0 = Dir(k)
  OBVIOUS
<1>1. jobs[k] # None /\ JobSound(k, jobs[k]) /\ CurrentJob(k, jobs[k])
  BY DEF ReadSource, Snapshot, At, AdmissionInv, JobsSound, StartInv, JobsCurrent
<1>2. UNCHANGED <<author, touched>>
  BY DEF ReadSource, Snapshot, syncRest
<1>3. CASE ReadSource(k)
  <2>1. jobs[k].at = "read" /\ jobs[k].at \in Syncing
    BY <1>3 DEF ReadSource, At, Syncing
  <2>2. CASE /\ author[d0].source # None /\ Parses(author[d0].source)
             /\ Set(k, [jobs[k] EXCEPT !.source = author[d0].source, !.at = "snapshot"])
             /\ UNCHANGED hostVars
    <3>1. PICK job : job = [jobs[k] EXCEPT !.source = author[d0].source, !.at = "snapshot"]
      OBVIOUS
    <3>2. /\ job.source = author[d0].source /\ job.at = "snapshot"
          /\ job.todo = jobs[k].todo /\ Head(job.todo) = d0
      BY <1>0, <1>1, <3>1 DEF JobSound, JobFields, Dir
    <3>3. CurrentJob(k, job)'
      BY <1>2, <2>2, <3>2 DEF CurrentJob
    <3>4. job.at \in Syncing /\ Set(k, job)
      BY <2>2, <3>1, <3>2 DEF Syncing
    <3> QED
      BY <1>1, <1>2, <2>1, <2>2, <3>2, <3>3, <3>4, StageGoesOn
  <2>3. ASSUME author[d0].source = None \/ ~Parses(author[d0].source)
        PROVE  AdmittedIfSound(d0)'
    BY <1>2, <2>3 DEF AdmittedIfSound, Acceptable
  <2>4. CASE author[d0].source = None /\ Succeed(k)
    <3>1. AdmittedIfSound(d0)'
      BY <2>3, <2>4
    <3> QED
      BY <1>0, <1>1, <1>2, <2>1, <2>4, <3>1, DirectorySettled
  <2>5. CASE ~Parses(author[d0].source) /\ Fail(k, "registration")
    <3>1. AdmittedIfSound(d0)'
      BY <2>3, <2>5
    <3> QED
      BY <1>0, <1>1, <1>2, <2>1, <2>5, <3>1, DirectorySettled
  <2> QED
    BY <1>0, <1>3, <2>2, <2>4, <2>5 DEF ReadSource
<1>4. CASE Snapshot(k)
  <2>1. jobs[k].at = "snapshot" /\ jobs[k].at \in Syncing \ {"read"}
    BY <1>4 DEF Snapshot, At, Syncing
  <2>2. Head(jobs[k].todo) = d0
    BY <1>0 DEF Dir
  <2>3. d0 \notin touched => jobs[k].source = author[d0].source /\ jobs[k].source # None
    BY <1>1, <2>1, <2>2 DEF CurrentJob
  <2>4. CASE /\ Set(k, [jobs[k] EXCEPT !.artifact = author[d0].artifact, !.at = "routes"])
             /\ UNCHANGED hostVars
    <3>1. PICK job : job = [jobs[k] EXCEPT !.artifact = author[d0].artifact, !.at = "routes"]
      OBVIOUS
    <3>2. /\ job.source = jobs[k].source /\ job.artifact = author[d0].artifact
          /\ job.at = "routes" /\ job.todo = jobs[k].todo /\ Head(job.todo) = d0
      BY <1>1, <2>2, <3>1 DEF JobSound, JobFields
    <3>3. CurrentJob(k, job)'
      BY <1>2, <2>3, <3>2 DEF CurrentJob
    <3>4. job.at \in Syncing /\ Set(k, job)
      BY <2>4, <3>1, <3>2 DEF Syncing
    <3> QED
      BY <1>1, <1>2, <2>1, <2>4, <3>2, <3>3, <3>4, StageGoesOn
  <2>5. CASE jobs[k].source.entrypoint \notin author[d0].artifact.files /\ Fail(k, "entrypoint")
    <3>1. d0 \notin touched => AdmittedIfSound(d0)'
      BY <1>2, <2>3, <2>5 DEF AdmittedIfSound, Acceptable
    <3> QED
      BY <1>0, <1>1, <1>2, <2>1, <2>5, <3>1, DirectorySettled
  <2> QED
    BY <1>0, <1>4, <2>4, <2>5 DEF Snapshot
<1> QED
  BY <1>3, <1>4

\* The routes of a directory are resolved, or one of them cannot be.
LEMMA ResolveStep ==
  ASSUME StartInv, AdmissionInv, RegistryGrows, NEW k \in Workers, Resolve(k)
  PROVE  StartInv'
<1> DEFINE source == jobs[k].source
           artifact == jobs[k].artifact
           Faulty(name) == RouteFault(name, source.events[name], artifact) # None
<1>0. PICK d0 : d0 = Dir(k)
  OBVIOUS
<1>1. /\ jobs[k] # None /\ JobSound(k, jobs[k]) /\ CurrentJob(k, jobs[k])
      /\ jobs[k].at = "routes" /\ jobs[k].at \in Syncing /\ jobs[k].at \in Syncing \ {"read"}
  BY DEF Resolve, At, AdmissionInv, JobsSound, StartInv, JobsCurrent, Syncing
<1>2. UNCHANGED <<author, touched>>
  BY DEF Resolve, syncRest
<1>3. Head(jobs[k].todo) = d0
  BY <1>0 DEF Dir
<1>4. d0 \notin touched =>
        source = author[d0].source /\ source # None /\ artifact = author[d0].artifact
  BY <1>1, <1>3 DEF CurrentJob
<1>5. CASE /\ \A name \in DOMAIN source.events : ~Faulty(name)
           /\ Set(k, [jobs[k] EXCEPT !.routes = RoutesOf(source, artifact), !.at = "compare"])
           /\ UNCHANGED hostVars
  <2>1. PICK job : job = [jobs[k] EXCEPT !.routes = RoutesOf(source, artifact), !.at = "compare"]
    OBVIOUS
  <2>2. /\ job.source = source /\ job.artifact = artifact /\ job.routes = RoutesOf(source, artifact)
        /\ job.at = "compare" /\ job.todo = jobs[k].todo /\ Head(job.todo) = d0
    BY <1>1, <1>3, <2>1 DEF JobSound, JobFields
  <2>3. CurrentJob(k, job)'
    BY <1>2, <1>4, <1>5, <2>2 DEF CurrentJob
  <2>4. job.at \in Syncing /\ Set(k, job)
    BY <1>5, <2>1, <2>2 DEF Syncing
  <2> QED
    BY <1>1, <1>2, <1>5, <2>2, <2>3, <2>4, StageGoesOn
<1>6. CASE (\E name \in DOMAIN source.events : Faulty(name)) /\ Fail(k, "route")
  <2>1. d0 \notin touched => AdmittedIfSound(d0)'
    BY <1>2, <1>4, <1>6 DEF AdmittedIfSound, Acceptable
  <2> QED
    BY <1>0, <1>1, <1>2, <1>6, <2>1, DirectorySettled
<1> QED
  BY <1>5, <1>6 DEF Resolve, Declared

\* A known id is compared with its record, and only start-up meets a new one in
\* a directory that is left alone.
LEMMA CompareStep ==
  ASSUME StartInv, AdmissionInv, RegistryGrows, NEW k \in Workers, Compare(k)
  PROVE  StartInv'
<1> DEFINE source == jobs[k].source
           artifact == jobs[k].artifact
<1>0. PICK d0 : d0 = Dir(k)
  OBVIOUS
<1>1. /\ jobs[k] # None /\ JobSound(k, jobs[k]) /\ CurrentJob(k, jobs[k])
      /\ jobs[k].at = "compare" /\ jobs[k].at \in Syncing /\ jobs[k].at \in Syncing \ {"read"}
  BY DEF Compare, At, AdmissionInv, JobsSound, StartInv, JobsCurrent, Syncing
<1>2. UNCHANGED <<author, touched, records>>
  BY DEF Compare, syncRest
<1>3. Head(jobs[k].todo) = d0 /\ d0 \in Dirs
  BY <1>0, <1>1 DEF Dir, JobSound
<1>4. d0 \notin touched =>
        /\ source = author[d0].source /\ source # None /\ artifact = author[d0].artifact
        /\ jobs[k].routes = RoutesOf(source, artifact)
        /\ \A name \in DOMAIN source.events :
             RouteFault(name, source.events[name], artifact) = None
  BY <1>1, <1>3 DEF CurrentJob
<1>5. d0 \notin touched =>
        /\ Acceptable(author[d0].source, author[d0].artifact)
        /\ JobFacts(k) = Facts(author[d0].source, RoutesOf(author[d0].source, author[d0].artifact),
                               author[d0].artifact)
  BY <1>1, <1>4 DEF Acceptable, JobSound, JobFacts
<1>6. CASE source.id \notin Recorded
  <2>1. PICK boundary : Set(k, [jobs[k] EXCEPT !.at = "record", !.boundary = boundary])
    BY <1>6 DEF Compare
  <2>2. PICK job : job = [jobs[k] EXCEPT !.at = "record", !.boundary = boundary]
    OBVIOUS
  <2>3. /\ job.source = source /\ job.artifact = artifact /\ job.routes = jobs[k].routes
        /\ job.at = "record" /\ job.todo = jobs[k].todo /\ Head(job.todo) = d0
    BY <1>1, <1>3, <2>2 DEF JobSound, JobFields
  <2>4. d0 \notin touched => k = "host"
    <3>1. SUFFICES ASSUME d0 \notin touched, k # "host" PROVE FALSE
      OBVIOUS
    <3>2. host = "up"
      BY <1>1, <3>1, WorkerOf
    <3>3. AdmittedIfSound(d0)
      BY <1>3, <3>1, <3>2 DEF StartInv, Ahead
    <3> QED
      BY <1>4, <1>5, <1>6, <3>1, <3>3 DEF AdmittedIfSound
  <2>5. CurrentJob(k, job)'
    BY <1>2, <1>4, <1>6, <2>3, <2>4 DEF CurrentJob, Recorded
  <2>6. job.at \in Syncing /\ Set(k, job) /\ UNCHANGED hostVars
    BY <1>6, <2>1, <2>2, <2>3 DEF Syncing, Compare
  <2> QED
    BY <1>1, <1>2, <2>3, <2>5, <2>6, StageGoesOn
<1>7. CASE source.id \in Recorded /\ FactsOf(records[source.id]) # JobFacts(k)
  <2>1. d0 \notin touched /\ failures'[d0] = "conflict" => AdmittedIfSound(d0)'
    BY <1>2, <1>4, <1>5, <1>7 DEF AdmittedIfSound, Recorded
  <2>2. Fail(k, "conflict")
    BY <1>7 DEF Compare
  <2> QED
    BY <1>0, <1>1, <1>2, <2>1, <2>2, DirectorySettled
<1>8. CASE source.id \in Recorded /\ FactsOf(records[source.id]) = JobFacts(k)
  <2>1. d0 \notin touched /\ failures'[d0] = None => AdmittedIfSound(d0)'
    BY <1>2, <1>4, <1>5, <1>8 DEF AdmittedIfSound, Recorded
  <2>2. Succeed(k)
    BY <1>8 DEF Compare
  <2> QED
    BY <1>0, <1>1, <1>2, <2>1, <2>2, DirectorySettled
<1> QED
  BY <1>6, <1>7, <1>8

\* A new record is that of the directory it was made from.
LEMMA RecordStep ==
  ASSUME StartInv, AdmissionInv, RegistryGrows, NEW k \in Workers, Record(k)
  PROVE  StartInv'
<1> DEFINE id == jobs[k].source.id
<1>0. PICK d0 : d0 = Dir(k)
  OBVIOUS
<1>1. /\ jobs[k] # None /\ JobSound(k, jobs[k]) /\ CurrentJob(k, jobs[k])
      /\ jobs[k].at = "record" /\ jobs[k].at \in Syncing /\ jobs[k].at \in Syncing \ {"read"}
  BY DEF Record, At, AdmissionInv, JobsSound, StartInv, JobsCurrent, Syncing
<1>2. UNCHANGED <<author, touched>>
  BY DEF Record, syncRest
<1>3. Head(jobs[k].todo) = d0
  BY <1>0 DEF Dir
<1>4. d0 \notin touched =>
        /\ jobs[k].source = author[d0].source /\ jobs[k].artifact = author[d0].artifact
        /\ jobs[k].routes = RoutesOf(author[d0].source, author[d0].artifact)
        /\ id \notin Recorded
  BY <1>1, <1>3 DEF CurrentJob
<1>5. CASE id \notin Recorded
  <2>1. records' = With(records, id, RecordOf(k)) /\ Succeed(k)
    BY <1>5 DEF Record, Put
  <2>2. id \in DOMAIN records' /\ records'[id] = RecordOf(k)
    BY <2>1 DEF With
  <2>3. FactsOf(RecordOf(k)) = JobFacts(k)
    BY DEF FactsOf, RecordOf, JobFacts, Facts
  <2>4. d0 \notin touched /\ failures'[d0] = None => AdmittedIfSound(d0)'
    <3>1. SUFFICES ASSUME d0 \notin touched, failures'[d0] = None PROVE AdmittedIfSound(d0)'
      OBVIOUS
    <3>2. /\ id = author'[d0].source.id
          /\ JobFacts(k) = Facts(author'[d0].source,
                             RoutesOf(author'[d0].source, author'[d0].artifact),
                             author'[d0].artifact)
      BY <1>2, <1>4, <3>1 DEF JobFacts
    <3> QED
      BY <2>2, <2>3, <3>1, <3>2 DEF AdmittedIfSound, Recorded
  <2> QED
    BY <1>0, <1>1, <1>2, <2>1, <2>4, DirectorySettled
<1>6. CASE id \in Recorded
  <2>1. PICK message : Fail(k, message) \/ (message = None /\ Succeed(k))
    BY <1>6 DEF Record, Put
  <2>2. d0 \in touched
    BY <1>4, <1>6
  <2> QED
    BY <1>0, <1>1, <1>2, <2>1, <2>2, DirectorySettled
<1> QED
  BY <1>5, <1>6

\* When start-up is done with its directories, none is ahead of it.
LEMMA PrepareStep ==
  ASSUME StartInv, AdmissionInv, RegistryGrows, NEW k \in Workers, Prepare(k)
  PROVE  StartInv'
<1>1. jobs[k] # None /\ jobs[k].at = "after" /\ JobSound(k, jobs[k])
  BY DEF Prepare, At, AdmissionInv, JobsSound
<1>2. UNCHANGED <<author, touched, records, failures>>
  BY DEF Prepare, registryVars
<1>3. PICK job : /\ Set(k, job)
                 /\ job = None \/ job.at = "read"
                 /\ host' = host \/ (k = "host" /\ job = None /\ host' \in {"up", "failed"})
  <2>1. PICK next : next = [jobs[k] EXCEPT !.after = Tail(jobs[k].after), !.todo = DirOrder,
                                           !.at = "read"]
    OBVIOUS
  <2>2. next.at = "read"
    BY <1>1, <2>1 DEF JobSound, JobFields
  <2> QED
    BY <2>1, <2>2 DEF Prepare, Ended
<1>4. DOMAIN failures' = Dirs /\ DOMAIN jobs = Workers /\ "host" \notin Callers
  BY <1>2, AdmissionConstants DEF StartInv, AdmissionInv, JobsSound
<1>5. job = None \/ CurrentJob(k, job)'
  BY <1>3 DEF CurrentJob
<1>6. CASE k # "host"
  <2>1. k \in Callers /\ host = "up" /\ host' = host
    BY <1>1, <1>3, <1>6, WorkerOf
  <2> QED
    BY <1>2, <1>3, <1>4, <1>5, <1>6, <2>1, JobGoesOn
<1>7. CASE k = "host"
  <2>1. host = "starting" /\ \A x \in Callers : jobs[x] = None
    BY <1>1, <1>7 DEF StartInv, Alone
  <2>2. ASSUME NEW d \in Dirs \ touched PROVE AdmittedIfSound(d)'
    <3>1. AdmittedIfSound(d)
      BY <1>1, <1>7, <2>1 DEF StartInv, Ahead, Syncing
    <3> QED
      BY <1>2, <3>1, AdmittedStays
  <2>3. jobs' = [jobs EXCEPT ![k] = job]
    BY <1>3 DEF Set
  <2>4. /\ \A x \in Callers : jobs'[x] = None
        /\ jobs'["host"] = job
    BY <1>4, <1>7, <2>1, <2>3 DEF Workers
  <2>5. Alone'
    BY <1>3, <2>1, <2>4 DEF Alone
  <2>6. JobsCurrent'
    <3>1. ASSUME NEW x \in Workers, jobs'[x] # None PROVE CurrentJob(x, jobs[x])'
      <4>1. x = "host"
        BY <2>4, <3>1 DEF Workers
      <4>2. jobs'[x].at = "read"
        BY <1>3, <2>4, <3>1, <4>1
      <4> QED
        BY <4>2 DEF CurrentJob
    <3> QED
      BY <3>1 DEF JobsCurrent
  <2> QED
    BY <1>2, <1>4, <2>2, <2>5, <2>6 DEF StartInv
<1> QED
  BY <1>6, <1>7

\* An emit follows its synchronisation, and requests begin new ones.
LEMMA EmitStep ==
  ASSUME StartInv, AdmissionInv, RegistryGrows, NEW k \in Workers,
         AuthorizeEmit(k) \/ RefuseEmit(k) \/ EmitBare(k) \/ AppendEmit(k)
  PROVE  StartInv'
<1>1. jobs[k] # None /\ jobs[k].at \in {"after", "append"} /\ JobSound(k, jobs[k])
  BY DEF AuthorizeEmit, RefuseEmit, EmitBare, AppendEmit, Emitting, At, AdmissionInv, JobsSound
<1>2. UNCHANGED <<author, touched, records, failures, host>>
  BY DEF AuthorizeEmit, RefuseEmit, EmitBare, AppendEmit, emitRest, registryVars, hostVars
<1>3. PICK job : Set(k, job) /\ (job = None \/ job.at = "append")
  <2>1. CASE Ended(k)
    BY <2>1 DEF Ended
  <2>2. ASSUME NEW event, Set(k, [jobs[k] EXCEPT !.at = "append", !.event = event])
        PROVE  \E job : Set(k, job) /\ (job = None \/ job.at = "append")
    <3>1. PICK next : next = [jobs[k] EXCEPT !.at = "append", !.event = event]
      OBVIOUS
    <3>2. next.at = "append"
      BY <1>1, <3>1 DEF JobSound, JobFields
    <3> QED
      BY <2>2, <3>1, <3>2
  <2>3. Ended(k) \/ \E event : Set(k, [jobs[k] EXCEPT !.at = "append", !.event = event])
    BY DEF AuthorizeEmit, RefuseEmit, EmitBare, AppendEmit
  <2> QED
    BY <2>1, <2>2, <2>3
<1>4. job = None \/ CurrentJob(k, job)'
  BY <1>3 DEF CurrentJob, Syncing
<1>5. DOMAIN failures' = Dirs
  BY <1>2 DEF StartInv
<1>6. k = "host" => \A d : ~Ahead(d)
  BY <1>1 DEF Ahead, Syncing
<1>7. (k = "host" /\ jobs[k] # None) \/ (k \in Callers /\ host = "up")
  BY <1>1, WorkerOf
<1> QED
  BY <1>2, <1>3, <1>4, <1>5, <1>6, <1>7, JobGoesOn

LEMMA RequestStep ==
  ASSUME StartInv, AdmissionInv, RegistryGrows, NEW k \in Callers, NEW s \in Surfaces,
         EndTurn(k, s) \/ BeginEmit(k, s) \/ Ensure(k, s)
  PROVE  StartInv'
<1>1. host = "up" /\ UNCHANGED <<author, touched, records, failures, host>>
  BY DEF EndTurn, BeginEmit, Ensure, Free, registryVars, hostVars
<1>2. PICK isolate, after, emit : Set(k, Job(isolate, after, emit))
  BY DEF EndTurn, BeginEmit, Ensure
<1>3. PICK job : job = Job(isolate, after, emit)
  OBVIOUS
<1>4. job.at = "read"
  BY <1>3 DEF Job
<1>5. CurrentJob(k, job)' /\ Set(k, job)
  BY <1>2, <1>3, <1>4 DEF CurrentJob
<1>6. DOMAIN failures' = Dirs /\ k \in Workers /\ k # "host"
  BY <1>1, AdmissionConstants DEF StartInv, Workers
<1> QED
  BY <1>1, <1>5, <1>6, JobGoesOn

\* At a start every directory is ahead.
LEMMA StartsAhead ==
  ASSUME NEW job, job = StartUp
  PROVE  job.at = "read" /\ \A d \in Dirs : d \in ImageOf(job.todo)
<1>1. job.at = "read" /\ job.todo = DirOrder
  BY DEF StartUp, Job
<1> QED
  BY <1>1 DEF Dirs, ImageOf

LEMMA StartInit == Init => StartInv
<1> SUFFICES ASSUME Init PROVE StartInv
  OBVIOUS
<1>1. PICK job : job = StartUp
  OBVIOUS
<1>2. job.at = "read" /\ \A d \in Dirs : d \in ImageOf(job.todo)
  BY <1>1, StartsAhead
<1>3. /\ jobs = [k \in Workers |-> IF k = "host" THEN job ELSE None]
      /\ host = "starting" /\ "host" \notin Callers /\ DOMAIN failures = Dirs
  BY <1>1, AdmissionConstants DEF Init, Workers
<1>4. jobs["host"] = job /\ \A k \in Callers : jobs[k] = None
  BY <1>3 DEF Workers
<1>5. Alone
  BY <1>3, <1>4 DEF Alone
<1>6. JobsCurrent
  BY <1>2, <1>3, <1>4 DEF JobsCurrent, CurrentJob, Workers
<1>7. \A d \in Dirs : Ahead(d)
  BY <1>2, <1>3, <1>4 DEF Ahead, Syncing
<1> QED
  BY <1>3, <1>5, <1>6, <1>7 DEF StartInv

LEMMA CrashStep ==
  ASSUME Crash
  PROVE  StartInv'
<1>1. PICK job : job = StartUp
  OBVIOUS
<1>2. job.at = "read" /\ \A d \in Dirs : d \in ImageOf(job.todo)
  BY <1>1, StartsAhead
<1>3. /\ jobs' = [k \in Workers |-> IF k = "host" THEN job ELSE None]
      /\ host' = "starting" /\ "host" \notin Callers /\ DOMAIN failures' = Dirs
  BY <1>1, AdmissionConstants DEF Crash, Workers
<1>4. jobs'["host"] = job /\ \A k \in Callers : jobs'[k] = None
  BY <1>3 DEF Workers
<1>5. Alone'
  BY <1>3, <1>4 DEF Alone
<1>6. JobsCurrent'
  <2>1. ASSUME NEW x \in Workers, jobs'[x] # None PROVE CurrentJob(x, jobs[x])'
    <3>1. jobs'[x].at = "read"
      BY <1>2, <1>4, <2>1 DEF Workers
    <3> QED
      BY <3>1 DEF CurrentJob
  <2> QED
    BY <2>1 DEF JobsCurrent
<1>7. \A d \in Dirs : Ahead(d)'
  BY <1>2, <1>3, <1>4 DEF Ahead, Syncing
<1> QED
  BY <1>3, <1>5, <1>6, <1>7 DEF StartInv

\* What neither synchronises nor starts the host leaves all this alone, and an
\* author who saves touches the directory.
LEMMA OtherStep ==
  ASSUME StartInv, AdmissionInv, RegistryGrows,
         records' = records, failures' = failures, host' = host, jobs' = jobs,
         touched \subseteq touched', \A d \in Dirs : d \notin touched' => author'[d] = author[d]
  PROVE  StartInv'
<1>1. Alone' /\ DOMAIN failures' = Dirs
  BY DEF StartInv, Alone
<1>2. JobsCurrent'
  <2>1. ASSUME NEW x \in Workers, jobs'[x] # None PROVE CurrentJob(x, jobs[x])'
    <3>1. PICK j : j = jobs[x]
      OBVIOUS
    <3>2. CurrentJob(x, j)
      BY <2>1, <3>1 DEF StartInv, JobsCurrent
    <3>3. j.at \in Syncing => Head(j.todo) \in Dirs
      BY <2>1, <3>1 DEF AdmissionInv, JobsSound, JobSound
    <3>4. CurrentJob(x, j)'
      BY <3>2, <3>3, CurrentStays
    <3> QED
      BY <3>1, <3>4 DEF CurrentJob
  <2> QED
    BY <2>1 DEF JobsCurrent
<1>3. ASSUME NEW d \in Dirs \ touched'
      PROVE  AdmittedIfSound(d)' \/ host' = "failed" \/ Ahead(d)'
  <2>1. AdmittedIfSound(d) \/ host = "failed" \/ Ahead(d)
    BY DEF StartInv
  <2>2. CASE AdmittedIfSound(d)
    BY <2>2, AdmittedStays
  <2>3. CASE Ahead(d)
    BY <2>3 DEF Ahead
  <2> QED
    BY <2>1, <2>2, <2>3
<1> QED
  BY <1>1, <1>2, <1>3 DEF StartInv

LEMMA StartNext == AdmissionInv /\ StartInv /\ [Next]_vars => StartInv'
<1> SUFFICES ASSUME AdmissionInv, StartInv, [Next]_vars PROVE StartInv'
  OBVIOUS
<1>0. RegistryGrows
  BY RegistryStep
<1>1. ASSUME UNCHANGED <<author, touched, records, failures, host, jobs>> PROVE StartInv'
  BY <1>0, <1>1, OtherStep
<1>2. ASSUME NEW k \in Workers, SyncStep(k) PROVE StartInv'
  BY <1>0, <1>2, LookStep, ResolveStep, CompareStep, RecordStep, PrepareStep, EmitStep
     DEF SyncStep
<1>3. ASSUME NEW k \in Callers, NEW s \in Surfaces, EndTurn(k, s) \/ BeginEmit(k, s) \/ Ensure(k, s)
      PROVE  StartInv'
  BY <1>0, <1>3, RequestStep
<1>4. ASSUME NEW s \in Surfaces, StartTurn(s) PROVE StartInv'
  BY <1>1, <1>4 DEF StartTurn, registryVars, hostVars
<1>5. ASSUME NEW d \in Dirs, Edit(d) PROVE StartInv'
  <2>1. /\ records' = records /\ failures' = failures /\ host' = host /\ jobs' = jobs
        /\ touched' = touched \union {d}
    BY <1>5 DEF Edit, registryVars, hostVars
  <2>2. \A e \in Dirs : e # d => author'[e] = author[e]
    BY <1>5 DEF Edit, AdmissionInv, AuthorsSound
  <2> QED
    BY <1>0, <2>1, <2>2, OtherStep
<1>6. ASSUME NEW r \in Recorded, Retire(r) \/ \E s \in Surfaces : Accept(r, s) PROVE StartInv'
  BY <1>1, <1>6 DEF Retire, Accept, runRest, registryVars, hostVars
<1>7. ASSUME NEW input \in ledger, Run(input) PROVE StartInv'
  BY <1>1, <1>7 DEF Run, runRest, registryVars, hostVars
<1>8. ASSUME NEW b \in batches \ settled, Apply(b) PROVE StartInv'
  BY <1>1, <1>8 DEF Apply, runRest, registryVars, hostVars
<1>9. CASE Crash
  BY <1>9, CrashStep
<1>10. CASE UNCHANGED vars
  BY <1>1, <1>10 DEF vars, registryVars, hostVars
<1> QED
  BY <1>2, <1>3, <1>4, <1>5, <1>6, <1>7, <1>8, <1>9, <1>10 DEF Next, Workers

-----------------------------------------------------------------------------
(***************************************************************************)
(* The theorems.                                                            *)
(***************************************************************************)
\* At first nothing is admitted, and start-up synchronises everything.
LEMMA AdmissionInit == Init => AdmissionInv
<1> SUFFICES ASSUME Init PROVE AdmissionInv
  OBVIOUS
<1>1. Recorded = {} /\ AuthorsSound
  <2>1. author \in Initial /\ records = <<>>
    BY DEF Init
  <2>2. AuthorsSound
    BY <2>1, AdmissionAssumption DEF AuthorsSound
  <2>3. DOMAIN records = {}
    BY <2>1
  <2> QED
    BY <2>2, <2>3 DEF Recorded
<1>2. RecordsSound /\ BatchesSound /\ LedgerSound
  BY <1>1 DEF Init, RecordsSound, BatchesSound, LedgerSound
<1>3. StreamsSound /\ EventsAreRouted
  BY DEF Init, StreamsSound, EventsAreRouted
<1>4. JobsSound
  <2>1. PICK job : job = StartUp
    OBVIOUS
  <2>2. \A k : JobSound(k, job)
    BY <2>1, StartUpSound
  <2> QED
    BY <2>1, <2>2 DEF Init, JobsSound, Workers
<1> QED
  BY <1>1, <1>2, <1>3, <1>4 DEF AdmissionInv

\* And no step leads out of the invariant.
LEMMA AdmissionNext == AdmissionInv /\ [Next]_vars => AdmissionInv'
BY RecordsStep, AuthorsStep, JobsStep, StreamsStep, BatchesStep, LedgerStep
   DEF AdmissionInv

\* Every reachable state satisfies the inductive invariant: what a synchronisation has
\* in hand at each stage, and what was admitted, recorded and accepted from it.
THEOREM AdmissionInvariant == Spec => []AdmissionInv
<1>1. Init => AdmissionInv
  BY AdmissionInit
<1>2. AdmissionInv /\ [Next]_vars => AdmissionInv'
  BY AdmissionNext
<1> QED
  BY <1>1, <1>2, PTL DEF Spec

\* A record fits together although authors save while it is made and others admit the
\* same id: its contracts say what its own artifact declares, and are kept with it.
THEOREM RecordsFitTogether == Spec => []RecordsMatchArtifact
<1>1. AdmissionInv => RecordsMatchArtifact
  <2> SUFFICES ASSUME AdmissionInv, NEW r \in Recorded
               PROVE  /\ records[r].artifact \in pinned
                      /\ records[r].entrypoint \in records[r].artifact.files
                      /\ \A c \in {route.contract : route \in ImageOf(records[r].routes)} :
                           /\ c \in contracts
                           /\ c.scope = r => c.says = records[r].artifact.declares[c.name]
    BY DEF RecordsMatchArtifact
  <2>1. RecordSound(r, records[r])
    BY DEF AdmissionInv, RecordsSound
  <2>2. ASSUME NEW name \in DOMAIN records[r].routes
        PROVE  LET c == records[r].routes[name].contract
               IN  c \in contracts
                   /\ (c.scope = r => c.says = records[r].artifact.declares[c.name])
    BY <2>1 DEF RecordSound, RoutesSound, OwnContract
  <2> QED
    BY <2>1, <2>2 DEF RecordSound, ImageOf
<1> QED
  BY <1>1, AdmissionInvariant, PTL

\* What was recorded can be carried out whenever it is taken up again.
THEOREM BatchesStayAuthorized == Spec => []RecordedStaysAuthorized
<1>1. AdmissionInv => RecordedStaysAuthorized
  BY DEF AdmissionInv, BatchesSound, RecordedStaysAuthorized
<1> QED
  BY <1>1, AdmissionInvariant, PTL

\* Every business event is one that an admitted registration routes there, from that
\* producer and with a payload that fits, and inputs are their registration's own.
THEOREM StreamsAreRouted == Spec => []EventsAreRouted
<1>1. AdmissionInv => EventsAreRouted
  BY DEF AdmissionInv
<1> QED
  BY <1>1, AdmissionInvariant, PTL

\* What is wrong with one directory is not held against another: a host that is up has
\* admitted every directory that is left alone since the start and sound by itself.
THEOREM SoundOnesAreAdmitted == Spec => []SoundIsAdmitted
<1>1. Init => AdmissionInv /\ StartInv
  BY AdmissionInit, StartInit
<1>2. AdmissionInv /\ StartInv /\ [Next]_vars => AdmissionInv' /\ StartInv'
  BY AdmissionNext, StartNext
<1>3. StartInv => SoundIsAdmitted
  BY DEF StartInv, SoundIsAdmitted, Ahead
<1> QED
  BY <1>1, <1>2, <1>3, PTL DEF Spec
=============================================================================
