----------------------------- MODULE ContextFacts -----------------------------
(***************************************************************************)
(* The model context of one Surface's session: which revision the session  *)
(* shows (SurfaceSessionService.adoptRuntimeRevision, deriveRevisionState), *)
(* and the facts from which WorkSurfaceContextRuntime assembles a prompt    *)
(* (packages/dsh/src/context).  The session's log is the only state of the  *)
(* context runtime: everything it asks is a fold of that log.               *)
(*                                                                         *)
(* External, of DSH: assemblies of one agent follow one another, a request  *)
(* is made only after an assembly that succeeded, and a crash may lose the  *)
(* facts of the last burst that was appended without an await.  Lifetimes   *)
(* that no automatic occurrence has (until-event, session), the text of     *)
(* sections and blobs, and triggers by large tool results are left out.     *)
(***************************************************************************)
EXTENDS Naturals, Sequences, SequencesExt

CONSTANTS
  Revisions,      \* revisions of the Surface
  None,
  ProviderOrder,  \* the providers, by order and id
  Phases,         \* the kinds of occurrence a provider takes part in
  Required,       \* providers whose failure stops the assembly
  Results,        \* what a provider may return
  Size, Priority, \* of the section a provider contributes
  Rosters,        \* providers that may be registered after a start
  Budgets,        \* context windows of the models a request may go to
  PressureAt,     \* tokens of conversation that call for maintenance
  MaxAdoptions, MaxRestarts, MaxCompactions, MaxAssemblies

VARIABLES
  revision,   \* the revision the session shows: revisionsBySurface
  adoptions,  \* how often it changed
  roster,     \* registered providers
  log,        \* the facts of the session
  burst,      \* length of the log before its last burst
  assembly,   \* the assembly under way
  assemblies, \* how many were started
  rendered,   \* what the last assembly that succeeded hands to the request
  talk,       \* tokens of conversation
  generation, \* how often DSH compacted it
  restarts

revisionVars == <<revision, adoptions>>
logVars == <<log, burst>>
vars == <<revisionVars, roster, logVars, assembly, assemblies, rendered, talk, generation, restarts>>

-----------------------------------------------------------------------------
(***************************************************************************)
(* Facts and their folds.                                                   *)
(***************************************************************************)

\* A revision fact holds a revision, a rendered fact what was shown; every
\* other fact is about an occurrence.  The id of an occurrence is a digest of
\* its kind and its target, here the pair itself.
Occurrence(kind, rev, key) == [kind |-> kind, rev |-> rev, key |-> key]

IsAbout(e, id) == e.type \notin {"revision", "rendered"} /\ e.id = id

\* foldInjectionState, for one occurrence: its status is what the last fact
\* that changes it says.
Status(l, id) ==
  LET facts == SelectSeq(l, LAMBDA e : IsAbout(e, id) /\ (e.type = "settled" => e.ready))
  IN  IF facts = <<>> THEN "none"
      ELSE CASE Last(facts).type = "created" -> "collecting"
             [] Last(facts).type = "settled" -> "ready"
             [] OTHER                        -> Last(facts).type

SettledFacts(l, id) == SelectSeq(l, LAMBDA e : e.type = "settled" /\ e.id = id)
Sections(l, id) == SelectSeq(SettledFacts(l, id), LAMBDA e : e.result = "section")
SettledBy(l, id) == {e.provider : e \in ToSet(SettledFacts(l, id))}
Failures(l, id) ==
  {e.provider : e \in {x \in ToSet(SettledFacts(l, id)) : x.result = "failed"}}

Occurrences(l) ==
  LET created == SelectSeq(l, LAMBDA e : e.type = "created")
  IN  [i \in DOMAIN created |-> created[i].id]

\* foldWorkSurfaceContext: the revision of the last revision fact.
Shows(l) ==
  LET facts == SelectSeq(l, LAMBDA e : e.type = "revision")
  IN  IF facts = <<>> THEN None ELSE Last(facts).rev

\* The lifetimes prepareAutomaticOccurrences gives.
Lifetime(id) ==
  CASE id.kind = "analysis"   -> "phase"
    [] id.kind = "acceptance" -> "until-revision-change"
    [] OTHER                  -> "request"

\* selectActiveInjections.
Active(l) ==
  SelectSeq(Occurrences(l), LAMBDA id :
    /\ Status(l, id) \notin {"collecting", "ended"}
    /\ Lifetime(id) = "request" => Status(l, id) = "ready"
    /\ Lifetime(id) = "until-revision-change" => id.rev = Shows(l))

-----------------------------------------------------------------------------
(***************************************************************************)
(* The plan and its rendering.                                              *)
(***************************************************************************)

\* Of the Surface's files surface.md must be shown and the others may be
\* omitted; the conversation is never omitted.
Fixed(name, size, priority) == [of |-> None, by |-> name, size |-> size, priority |-> priority]

\* buildContextPlan.
Plan(l) ==
  <<Fixed("conversation", talk, "required"),
    Fixed("surface.md", 1, "required"), Fixed("notes.md", 1, "high")>> \o
  LET active == Active(l)
      ItemsOf(id) ==
        LET sections == Sections(l, id)
        IN  [j \in DOMAIN sections |->
               [of |-> id, by |-> sections[j].provider, size |-> Size[sections[j].provider],
                priority |-> Priority[sections[j].provider]]]
  IN  FlattenSeq([i \in DOMAIN active |-> ItemsOf(active[i])])

WithPriority(plan, priority) == SelectSeq(plan, LAMBDA item : item.priority = priority)

\* The items that are taken one by one while the budget lasts.
Fill(items, used, budget) ==
  LET fill[i \in 0..Len(items)] ==
        IF i = 0 THEN [used |-> used, items |-> {}]
        ELSE LET before == fill[i - 1]
                 after == before.used + items[i].size
             IN  IF after <= budget
                 THEN [used |-> after, items |-> before.items \union {items[i]}]
                 ELSE before
  IN  fill[Len(items)]

RequiredTokens(plan) ==
  LET items == WithPriority(plan, "required")
      sum[i \in 0..Len(items)] == IF i = 0 THEN 0 ELSE sum[i - 1] + items[i].size
  IN  sum[Len(items)]

\* DefaultModelContextAdapter.render: what is required, then what fits, item
\* by item, in the order of priority and of the plan.
Included(plan, budget) ==
  ToSet(WithPriority(plan, "required")) \union
  Fill(WithPriority(plan, "high") \o WithPriority(plan, "normal"),
       RequiredTokens(plan), budget).items

CanRender(plan, budget) == RequiredTokens(plan) <= budget

-----------------------------------------------------------------------------
(***************************************************************************)
(* The revision a session shows.                                            *)
(***************************************************************************)

\* adoptRuntimeRevision: after a publication or an apply.  The head was read
\* before, so with two of them the revision may be one that was replaced.
Adopt(r) ==
  /\ r # revision
  /\ adoptions < MaxAdoptions
  /\ adoptions' = adoptions + 1
  /\ revision' = r
  /\ UNCHANGED <<roster, logVars, assembly, assemblies, rendered, talk, generation, restarts>>

-----------------------------------------------------------------------------
(***************************************************************************)
(* An assembly: system-prompt/assemble.                                     *)
(***************************************************************************)
Stage(name) == assembly # None /\ assembly.stage = name
Go(stage) == assembly' = [assembly EXCEPT !.stage = stage]
AddFacts(facts) == log' = log \o facts /\ burst' = Len(log)

contextRest == <<revisionVars, roster, assemblies, rendered, talk, generation, restarts>>

StartAssembly ==
  /\ assembly = None \/ Stage("done")
  /\ assemblies < MaxAssemblies
  /\ assemblies' = assemblies + 1
  /\ \E budget \in Budgets :
       assembly' = [stage |-> "revision", rev |-> revision, budget |-> budget,
                    id |-> None, answers |-> <<>>]
  /\ UNCHANGED <<revisionVars, roster, logVars, rendered, talk, generation, restarts>>

EndedFacts(ids) == [i \in DOMAIN ids |-> [type |-> "ended", id |-> ids[i]]]

\* endExpiredOccurrences.
Expired(l) ==
  SelectSeq(Occurrences(l), LAMBDA id :
    /\ Status(l, id) \notin {"ended", "collecting"}
    /\ Lifetime(id) = "until-revision-change" /\ id.rev # Shows(l))

\* publishRevision, and the beginning of prepareAutomaticOccurrences.
PublishRevision ==
  /\ Stage("revision")
  /\ LET shown == IF Shows(log) = assembly.rev THEN <<>>
                  ELSE <<[type |-> "revision", rev |-> assembly.rev]>>
     IN  AddFacts(shown \o EndedFacts(Expired(log \o shown)))
  /\ Go("analysis")
  /\ UNCHANGED contextRest

ForPhase(kind) == SelectSeq(ProviderOrder, LAMBDA p : p \in roster /\ kind \in Phases[p])

\* maintenanceTrigger: a long conversation, or another revision before this one.
Maintenance ==
  LET facts == SelectSeq(log, LAMBDA e : e.type = "revision")
  IN  IF talk >= PressureAt THEN <<"pressure", generation>>
      ELSE IF Len(facts) > 1 /\ facts[Len(facts) - 1].rev # Shows(log) THEN <<"revision", 0>>
      ELSE None

\* The occurrence of a kind that is due, if any: prepareAutomaticOccurrences.
\* What follows a restart has the number of the session's first live fact.
Due(kind) ==
  IF ForPhase(kind) = <<>> THEN None
  ELSE CASE kind \in {"analysis", "acceptance"} -> Occurrence(kind, Shows(log), <<kind, 0>>)
         [] kind = "recovery" -> IF restarts = 0 THEN None
                                 ELSE Occurrence(kind, Shows(log), <<"start", restarts>>)
         [] kind = "maintenance" -> IF Maintenance = None THEN None
                                    ELSE Occurrence(kind, Shows(log), Maintenance)

Following(kind) ==
  CASE kind = "analysis"   -> "acceptance"
    [] kind = "acceptance" -> "recovery"
    [] kind = "recovery"   -> "maintenance"
    [] OTHER               -> "render"

Preparing == assembly # None /\ assembly.stage \in {"analysis", "acceptance", "recovery", "maintenance"}

SupersedeNothing(id) == <<>>

\* endSupersededPhase.
Superseded(id) ==
  SelectSeq(Occurrences(log), LAMBDA o :
    /\ o.kind = id.kind /\ o # id /\ Lifetime(o) = "phase"
    /\ Status(log, o) \notin {"ended", "collecting"})

\* assertRequiredProviders.
RequiredFailed(l, id) == \E p \in Failures(l, id) \intersect Required : p \in ToSet(ForPhase(id.kind))

PendingAll(id) == ForPhase(id.kind)
Pending(id) == SelectSeq(ForPhase(id.kind), LAMBDA p : p \notin SettledBy(log, id))

Skip ==
  /\ Preparing /\ Due(assembly.stage) = None
  /\ Go(Following(assembly.stage))
  /\ UNCHANGED <<logVars, contextRest>>

ReplayBlindly(id) == [assembly EXCEPT !.stage = Following(id.kind)]

\* An occurrence that was settled before is not collected again.
ReplayResult(id) ==
  IF RequiredFailed(log, id) THEN None ELSE [assembly EXCEPT !.stage = Following(id.kind)]

Replay ==
  /\ Preparing
  /\ LET id == Due(assembly.stage)
     IN  /\ id # None
         /\ Status(log, id) \notin {"none", "collecting"}
         /\ AddFacts(EndedFacts(Superseded(id)))
         /\ assembly' = ReplayResult(id)
  /\ UNCHANGED contextRest

CreatedFacts(id) == IF Status(log, id) = "none" THEN <<[type |-> "created", id |-> id]>> ELSE <<>>
SettledFact(id, p, result, ready) ==
  [type |-> "settled", id |-> id, provider |-> p, result |-> result, ready |-> ready]

\* A new occurrence, or one whose collection was interrupted; all providers
\* that have not settled are called at once.
Collect ==
  /\ Preparing
  /\ LET id == Due(assembly.stage)
     IN  /\ id # None
         /\ Status(log, id) \in {"none", "collecting"}
         /\ Pending(id) # <<>>
         /\ AddFacts(EndedFacts(Superseded(id)) \o CreatedFacts(id))
         /\ assembly' = [assembly EXCEPT !.stage = "providers", !.id = id,
                           !.answers = [i \in DOMAIN Pending(id) |-> <<Pending(id)[i], None>>]]
  /\ UNCHANGED contextRest

\* Every provider had settled, but for one that is not registered any more.
ResumeSettled ==
  /\ Preparing
  /\ LET id == Due(assembly.stage)
         facts == EndedFacts(Superseded(id)) \o <<SettledFact(id, "runtime", "nothing", TRUE)>>
     IN  /\ id # None
         /\ Status(log, id) = "collecting" /\ Pending(id) = <<>>
         /\ AddFacts(facts)
         /\ assembly' = IF RequiredFailed(log, id) THEN None
                        ELSE [assembly EXCEPT !.stage = Following(id.kind)]
  /\ UNCHANGED contextRest

Unanswered == \E i \in DOMAIN assembly.answers : assembly.answers[i][2] = None

Answer(result) ==
  \E i \in DOMAIN assembly.answers :
    /\ assembly.answers[i][2] = None
    /\ assembly' = [assembly EXCEPT !.answers[i][2] = result]

\* callProvider: an answer or an error of the provider.
Provide ==
  /\ Stage("providers")
  /\ \E result \in Results : Answer(result)
  /\ UNCHANGED <<logVars, contextRest>>

\* The provider's timer.
ProviderTimeout ==
  /\ Stage("providers")
  /\ Answer("failed")
  /\ UNCHANGED <<logVars, contextRest>>

\* The request is called off while providers are awaited.
Abort ==
  /\ IF Stage("providers") THEN Unanswered ELSE Preparing
  /\ assembly' = None
  /\ UNCHANGED <<logVars, contextRest>>

\* Results are kept one by one, in the order of the providers, once all are in;
\* the text of a section is written to a blob before each fact.
Settle ==
  /\ Stage("providers")
  /\ ~Unanswered
  /\ LET id == assembly.id
         next == Head(assembly.answers)
         last == Len(assembly.answers) = 1
         fact == SettledFact(id, next[1], next[2], last)
     IN  /\ AddFacts(<<fact>>)
         /\ assembly' = IF ~last THEN [assembly EXCEPT !.answers = Tail(@)]
                        ELSE IF RequiredFailed(Append(log, fact), id) THEN None
                        ELSE [assembly EXCEPT !.stage = Following(id.kind), !.id = None,
                                !.answers = <<>>]
  /\ UNCHANGED contextRest

ShownBy(items) == {<<item.of, item.by>> : item \in {i \in items : i.of # None}}

Render ==
  /\ Stage("render")
  /\ IF CanRender(Plan(log), assembly.budget)
     THEN /\ rendered' = [rev |-> Shows(log), shown |-> ShownBy(Included(Plan(log), assembly.budget))]
          /\ Go("done")
     ELSE assembly' = None /\ UNCHANGED rendered
  /\ UNCHANGED <<revisionVars, roster, logVars, assemblies, talk, generation, restarts>>

-----------------------------------------------------------------------------
(***************************************************************************)
(* The request, compaction, and a restart of the host.                      *)
(***************************************************************************)

UsedUpBlindly(id) == Status(log, id) = "ready"

\* recordRender: of what the plan holds, that is used up which was shown or
\* has nothing to show.
UsedUp(id) ==
  /\ Status(log, id) = "ready"
  /\ Sections(log, id) # <<>> => \E pair \in rendered.shown : pair[1] = id

Consumption(id) ==
  <<[type |-> "consumed", id |-> id]>> \o
  (IF Lifetime(id) = "request" THEN <<[type |-> "ended", id |-> id]>> ELSE <<>>)

Request ==
  /\ Stage("done") /\ rendered # None
  /\ LET used == SelectSeq(Active(log), UsedUp)
     IN  AddFacts(<<[type |-> "rendered", rev |-> rendered.rev, shown |-> rendered.shown]>> \o
                  FlattenSeq([i \in DOMAIN used |-> Consumption(used[i])]))
  /\ rendered' = None /\ assembly' = None
  /\ talk' = talk + 1
  /\ UNCHANGED <<revisionVars, roster, assemblies, generation, restarts>>

\* DSH compacts a long conversation.
Compact ==
  /\ assembly = None
  /\ talk >= PressureAt /\ generation < MaxCompactions
  /\ talk' = 0 /\ generation' = generation + 1
  /\ UNCHANGED <<revisionVars, roster, logVars, assembly, assemblies, rendered, restarts>>

\* The log is restored, at least up to its last burst, and the revision is
\* derived from the recorded head; providers are registered anew.
Restart ==
  /\ restarts < MaxRestarts
  /\ restarts' = restarts + 1
  /\ \E n \in burst..Len(log) : log' = SubSeq(log, 1, n) /\ burst' = n
  /\ roster' \in Rosters
  /\ revision' \in Revisions
  /\ assembly' = None /\ rendered' = None
  /\ UNCHANGED <<adoptions, assemblies, talk, generation>>

-----------------------------------------------------------------------------
Init ==
  /\ revision \in Revisions /\ adoptions = 0
  /\ roster \in Rosters
  /\ log = <<>> /\ burst = 0
  /\ assembly = None /\ assemblies = 0 /\ rendered = None
  /\ talk = 0 /\ generation = 0 /\ restarts = 0

AssemblyStep ==
  \/ PublishRevision \/ Skip \/ Replay \/ Collect \/ ResumeSettled
  \/ ProviderTimeout \/ Settle \/ Render

Next ==
  \/ \E r \in Revisions : Adopt(r)
  \/ StartAssembly \/ AssemblyStep \/ Provide \/ Abort
  \/ Request \/ Compact \/ Restart

Spec == Init /\ [][Next]_vars
-----------------------------------------------------------------------------
(***************************************************************************)
(* Properties.                                                              *)
(***************************************************************************)

\* Each provider settles an occurrence once, and nothing settles one that is
\* complete: also when the collection was interrupted and taken up again, with
\* other providers.
SettledOnce ==
  \A i \in DOMAIN log : log[i].type = "settled" =>
    \A j \in 1..(i - 1) :
      log[j].type = "settled" /\ log[j].id = log[i].id =>
        log[j].provider # log[i].provider /\ ~log[j].ready

\* What is injected for one request is not lost: it ends only after a request
\* that showed some of it, unless there was nothing to show.
EndedWasShown ==
  \A i \in DOMAIN log :
    log[i].type = "ended" /\ Lifetime(log[i].id) = "request"
      /\ Sections(log, log[i].id) # <<>>
    => \E j \in 1..(i - 1) :
         log[j].type = "rendered" /\ \E pair \in log[j].shown : pair[1] = log[i].id

\* The assembly has just succeeded.
Succeeds == Stage("render") /\ assembly' # None /\ assembly'.stage = "done"

\* The revision had been shown, then another: its occurrences ended then, and
\* as their ids do not change they are not collected again.
Returned(rev) ==
  \E i, j \in DOMAIN log :
    /\ i < j /\ log[i].type = "revision" /\ log[j].type = "revision"
    /\ log[i].rev = rev /\ log[j].rev # rev

\* A prompt shows the revision it was assembled for, with the analysis and the
\* acceptance of that revision and of no other, complete.
RendersFollowRevision ==
  [][Succeeds =>
       /\ rendered'.rev = assembly.rev
       /\ \A pair \in rendered'.shown :
            Lifetime(pair[1]) # "request" => pair[1].rev = assembly.rev
       /\ \A kind \in {"analysis", "acceptance"} :
            Due(kind) # None /\ ~Returned(assembly.rev)
              => Status(log, Due(kind)) \in {"ready", "consumed"}]_vars

\* No prompt is assembled past a required provider that failed for it, neither
\* at once nor on the next attempt, which does not ask the provider again.
RequiredHolds ==
  [][Succeeds =>
       \A kind \in {"analysis", "acceptance", "recovery"} :
         Due(kind) # None => ~RequiredFailed(log, Due(kind))]_vars

=============================================================================
