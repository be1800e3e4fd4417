------------------------------ MODULE Platform ------------------------------
(***************************************************************************)
(* PlatformRepository (repositories.py): the workspace, projects and       *)
(* versions a request finds or makes on its way (resolve_job_context and   *)
(* TrendIntelligenceService.create_draft_project), and the metering of     *)
(* provider operations.  Callers overlap; each step is a transaction.      *)
(***************************************************************************)
EXTENDS Naturals, Sequences, FiniteSets

CONSTANTS
    PfCallers,          \* concurrent callers
    PfSlugs,            \* slugs of projects jobs ask for
    PfIdeas,            \* ideas, each with a slug of its own
    PfOperations,       \* keys of provider operations
    PfMaxCalls          \* bound on calls

VARIABLES
    pfWorkspace,        \* whether the default workspace is stored
    pfProject,          \* rows by slug: [versions, current, row], row 0 for none
    pfIdea,             \* ideas: [project, status, version]
    pfUsage,            \* usage rows of each operation
    pfCost,             \* cost rows of each operation
    pfCaller,           \* callers: [pc, slug, version]
    pfGranted,          \* history: contexts granted, [slug, version]
    pfHistory           \* history: [calls, overlap, explicit]

pfVars == <<pfWorkspace, pfProject, pfIdea, pfUsage, pfCost, pfCaller, pfGranted, pfHistory>>
pfTables == <<pfWorkspace, pfProject, pfIdea, pfUsage, pfCost>>

PfNames == PfSlugs \cup PfIdeas
PfIdle == [pc |-> "idle", slug |-> "none", version |-> 0]

PfInit ==
    /\ pfWorkspace = FALSE
    /\ pfProject = [s \in PfNames |-> [versions |-> <<>>, current |-> 0, row |-> 0]]
    /\ pfIdea = [i \in PfIdeas |-> [project |-> "none", status |-> "draft", version |-> 1]]
    /\ pfUsage = [k \in PfOperations |-> 0]
    /\ pfCost = [k \in PfOperations |-> 0]
    /\ pfCaller = [c \in PfCallers |-> PfIdle]
    /\ pfGranted = {}
    /\ pfHistory = [calls |-> 0, overlap |-> {}, explicit |-> {}]

To(c, pc) == pfCaller' = [pfCaller EXCEPT ![c].pc = pc]
At(c, pc) == pfCaller[c].pc = pc
SlugOf(c) == pfCaller[c].slug
Busy(name) == {c \in PfCallers : pfCaller[c].slug = name}

Call(c, name, pc) ==
    /\ At(c, "idle")
    /\ pfHistory.calls < PfMaxCalls
    /\ pfHistory' = [pfHistory EXCEPT !.calls = @ + 1,
                        !.overlap = IF Busy(name) = {} THEN @ ELSE @ \cup {name}]
    /\ pfCaller' = [pfCaller EXCEPT ![c] = [pc |-> pc, slug |-> name, version |-> 0]]
    /\ UNCHANGED <<pfTables, pfGranted>>

\* A job needs its context, a user selects an idea, a provider operation is metered.
ResolveJobContext(c, slug) == Call(c, slug, "workspace")
CreateDraftProject(c, idea) == pfWorkspace /\ Call(c, idea, "project")
MeterOperation(c, key) == Call(c, key, "usage")

-----------------------------------------------------------------------------
(* ensure_workspace and ensure_project: look, insert, and look again when   *)
(* another caller's row took the slug.                                      *)

EnsureWorkspace(c) ==
    /\ \/ At(c, "workspace") /\ ~pfWorkspace /\ To(c, "new workspace") /\ UNCHANGED pfWorkspace
       \/ At(c, "workspace") /\ pfWorkspace /\ To(c, "project") /\ UNCHANGED pfWorkspace
       \/ At(c, "new workspace") /\ pfWorkspace' = TRUE /\ To(c, "project")
    /\ UNCHANGED <<pfProject, pfIdea, pfUsage, pfCost, pfGranted, pfHistory>>

\* A project that is there already keeps its versions.  (Mutant: is replaced.)
InsertedAnyway(project) == [versions |-> <<>>, current |-> 0, row |-> 1]
Inserted(project) == IF project.row = 0 THEN [project EXCEPT !.row = 1] ELSE project

EnsureProjectRow(c) ==
    LET there == pfProject[SlugOf(c)].row > 0
    IN  /\ \/ At(c, "project") /\ ~there /\ To(c, "new project") /\ UNCHANGED pfProject
           \/ At(c, "project") /\ there /\ To(c, "version") /\ UNCHANGED pfProject
           \/ /\ At(c, "new project") /\ To(c, "version")
              /\ pfProject' = [pfProject EXCEPT ![SlugOf(c)] = Inserted(@)]
        /\ UNCHANGED <<pfWorkspace, pfIdea, pfUsage, pfCost, pfGranted, pfHistory>>

-----------------------------------------------------------------------------
\* create_version, under the lock of the project's row.
WithVersion(project, by) ==
    [versions |-> Append(project.versions, by), current |-> Len(project.versions) + 1,
     row |-> project.row + 1]

\* ensure_initial_version looks for the first version.  (Mutant: it does not.)
FirstVersionUnseen(project) == 0
FirstVersion(project) == IF project.versions = <<>> THEN 0 ELSE 1

AfterVersion(c) == IF SlugOf(c) \in PfIdeas THEN "link" ELSE "granted"

FindInitialVersion(c) ==
    LET found == FirstVersion(pfProject[SlugOf(c)])
    IN  /\ At(c, "version")
        /\ pfCaller' = [pfCaller EXCEPT ![c].version = found,
                            ![c].pc = IF found = 0 THEN "new version" ELSE AfterVersion(c)]
        /\ UNCHANGED <<pfTables, pfGranted, pfHistory>>

CreateInitialVersion(c) ==
    LET project == WithVersion(pfProject[SlugOf(c)], "initial")
    IN  /\ At(c, "new version")
        /\ pfProject' = [pfProject EXCEPT ![SlugOf(c)] = project]
        /\ pfCaller' = [pfCaller EXCEPT ![c].version = project.current, ![c].pc = AfterVersion(c)]
        /\ UNCHANGED <<pfWorkspace, pfIdea, pfUsage, pfCost, pfGranted, pfHistory>>

\* A user makes a version of a project.
CreateVersionRow(slug) ==
    /\ pfProject[slug].row > 0
    /\ slug \notin pfHistory.explicit
    /\ pfHistory' = [pfHistory EXCEPT !.explicit = @ \cup {slug}]
    /\ pfProject' = [pfProject EXCEPT ![slug] = WithVersion(@, "user")]
    /\ UNCHANGED <<pfWorkspace, pfIdea, pfUsage, pfCost, pfCaller, pfGranted>>

GrantContext(c) ==
    /\ At(c, "granted")
    /\ pfGranted' = pfGranted \cup {[slug |-> SlugOf(c), version |-> pfCaller[c].version]}
    /\ pfCaller' = [pfCaller EXCEPT ![c] = PfIdle]
    /\ UNCHANGED <<pfTables, pfHistory>>

\* link_idea_project: an idea linked already is left alone.  (Mutant: it is not.)
LinkedAlways(idea) == FALSE
Linked(idea) == pfIdea[idea].project = idea /\ pfIdea[idea].status = "selected"

LinkIdeaProject(c) ==
    LET idea == SlugOf(c)
    IN  /\ At(c, "link")
        /\ pfIdea' = IF Linked(idea) THEN pfIdea
                     ELSE [pfIdea EXCEPT ![idea] = [project |-> idea, status |-> "selected",
                                                    version |-> @.version + 1]]
        /\ pfCaller' = [pfCaller EXCEPT ![c] = PfIdle]
        /\ UNCHANGED <<pfWorkspace, pfProject, pfUsage, pfCost, pfGranted, pfHistory>>

-----------------------------------------------------------------------------
(* record_provider_operation, one transaction that looks and then inserts:  *)
(* the unique key rolls the second of two overlapping ones back.            *)

FindUsage(c) ==
    /\ At(c, "usage")
    /\ IF pfUsage[SlugOf(c)] > 0 THEN pfCaller' = [pfCaller EXCEPT ![c] = PfIdle]
       ELSE To(c, "new usage")
    /\ UNCHANGED <<pfTables, pfGranted, pfHistory>>

\* (Mutant: without the unique key.)
FreeAlways(key) == TRUE
FreeKey(key) == pfUsage[key] = 0

InsertUsage(c) ==
    LET key == SlugOf(c)
    IN  /\ At(c, "new usage")
        /\ pfUsage' = IF FreeKey(key) THEN [pfUsage EXCEPT ![key] = @ + 1] ELSE pfUsage
        /\ pfCost' = IF FreeKey(key) THEN [pfCost EXCEPT ![key] = @ + 1] ELSE pfCost
        /\ pfCaller' = [pfCaller EXCEPT ![c] = PfIdle]
        /\ UNCHANGED <<pfWorkspace, pfProject, pfIdea, pfGranted, pfHistory>>

\* The caller's process dies between two transactions, or one raises.
CallerStops(c) ==
    /\ ~At(c, "idle")
    /\ pfCaller' = [pfCaller EXCEPT ![c] = PfIdle]
    /\ UNCHANGED <<pfTables, pfGranted, pfHistory>>

PfNext ==
    \/ \E c \in PfCallers :
          \/ \E slug \in PfSlugs : ResolveJobContext(c, slug)
          \/ \E idea \in PfIdeas : CreateDraftProject(c, idea)
          \/ \E key \in PfOperations : MeterOperation(c, key)
          \/ EnsureWorkspace(c) \/ EnsureProjectRow(c)
          \/ FindInitialVersion(c) \/ CreateInitialVersion(c) \/ GrantContext(c)
          \/ LinkIdeaProject(c) \/ FindUsage(c) \/ InsertUsage(c) \/ CallerStops(c)
    \/ \E slug \in PfSlugs : CreateVersionRow(slug)

PfSpec == PfInit /\ [][PfNext]_pfVars

-----------------------------------------------------------------------------
(* Properties.                                                             *)

\* A context names a version its project really has, whatever overlapped, stopped
\* or was repeated while it was made.
ContextsAreKept ==
    \A g \in pfGranted : g.version \in DOMAIN pfProject[g.slug].versions

InitialVersions(s) ==
    {i \in DOMAIN pfProject[s].versions : pfProject[s].versions[i] = "initial"}

\* Jobs and selections that repeat one another share one initial version; a second
\* one takes two callers at once.
OneInitialVersion ==
    \A s \in PfNames : s \notin pfHistory.overlap => Cardinality(InitialVersions(s)) <= 1

\* "Repeated selection is idempotent": an idea is selected once, and only when its
\* project has the version that holds it.
SelectedOnceWithDraft ==
    \A i \in PfIdeas :
        /\ pfIdea[i].version <= 2
        /\ pfIdea[i].status = "selected" => pfProject[i].current > 0

\* "Provider operations use an idempotent operation key and create exactly one VND
\* cost record": two reports of an operation that overlap make one row of each.
OneCostPerOperation ==
    \A k \in PfOperations : pfCost[k] = pfUsage[k] /\ pfCost[k] <= 1
=============================================================================
