----------------------------- MODULE Composition -----------------------------
(***************************************************************************)
(* The commands of cli.py, from the command line to the calls on the hart: *)
(* SeedSelect, load_snippet_db, load_suite, build_compose_plan,            *)
(* emit_harness, the objects build_artifacts compiles and links, and       *)
(* xsrt_run_snippet on each snippet of the harness until one fails.  A run *)
(* is followed on one of its seeds: the plans differ in the seed only, and *)
(* what the batch makes of them all is RunBatch.                           *)
(***************************************************************************)
EXTENDS SeedSelect, SequencesExt

CONSTANTS
    Snippets,        \* snippet ids a manifest or a suite may name
    Invocations,     \* command, its arguments and the files it reads
    Runtime,         \* runtime_sources, in order
    Defines,         \* Defines[f]: descriptors the source file f defines
    Hooks            \* Hooks[id]: the functions of id's descriptor

Files == DOMAIN Defines
Manifest == [valid : BOOLEAN, id : Snippets, sources : Seq(Files)]
Suite == [valid : BOOLEAN, snippets : Seq(Snippets)]
Commands == {"list-snippets", "dump-plan", "build", "run"}

\* dir is what is in snippets/manifests, in file name order; arg is what run
\* is told of its seeds, jobs whether its --jobs is positive.
Invocation ==
    [command : Commands, arg : Arguments, jobs : BOOLEAN,
     dir : Seq(Manifest), suite : Suite]

Functions == {"init", "run", "check", "fini"}

\* A manifest or suite is valid when load_manifest or load_suite accepts it;
\* a suite then lists some snippet.
ASSUME CompositionAssumption ==
    /\ Invocations \subseteq Invocation
    /\ \A i \in Invocations : i.suite.valid => i.suite.snippets # <<>>
    /\ Runtime \in Seq(Files) /\ IsInjective(Runtime)
    /\ Hooks \in [Snippets -> SUBSET Functions]

VARIABLES
    command,         \* what the user asks for
    jobs,            \* whether --jobs is positive
    dir, suite,      \* the files read
    pc,
    db,              \* the snippet database, as the manifests loaded
    plan,            \* ComposePlan.snippets; also the harness's calls
    todo,            \* position of the next source to look at in the plan
    objects,         \* sources compiled, in link order
    step,            \* position of the harness in its calls
    trace,           \* calls made: of which position, function, return code
    code,            \* what main returned
    outcome          \* how it ended: what was refused, or "main returned"

files == <<command, jobs, dir, suite>>
inputs == <<seedVars, files>>
hartVars == <<step, trace, code>>
vars == <<inputs, pc, db, plan, todo, objects, hartVars, outcome>>

Start == [snippet |-> 1, source |-> 1]

Init ==
    /\ \E i \in Invocations :
         /\ command = i.command /\ arg = i.arg /\ jobs = i.jobs
         /\ dir = i.dir /\ suite = i.suite
    /\ SeedInit
    /\ pc = IF command = "run" THEN "seeds" ELSE "manifests"
    /\ db = <<>>
    /\ plan = <<>>
    /\ todo = Start
    /\ objects = <<>>
    /\ step = 1
    /\ trace = <<>>
    /\ code = 0
    /\ outcome = "none"

----------------------------------------------------------------------------
(* The generator *)

Goto(there) == pc' = there /\ UNCHANGED outcome
Stop(why) == pc' = "end" /\ outcome' = why

\* cmd_run: nothing is read before the seeds and --jobs are accepted.
ReadSeeds ==
    /\ pc = "seeds"
    /\ SeedNext
    /\ IF answer' = "reading" THEN Goto("seeds")
       ELSE IF answer' = "accepted" /\ jobs THEN Goto("manifests")
       ELSE Stop("seeds")
    /\ UNCHANGED <<files, db, plan, todo, objects, hartVars>>

Loaded(id) == \E i \in DOMAIN db : db[i].id = id

\* Mutated LoadManifest: a later manifest of the same id wins.
LoadManifestLastWins ==
    /\ pc = "manifests"
    /\ Len(db) < Len(dir)
    /\ LET m == dir[Len(db) + 1] IN
         IF m.valid THEN db' = <<m>> \o db /\ Goto("manifests")
                    ELSE Stop("manifest") /\ UNCHANGED db
    /\ UNCHANGED <<inputs, plan, todo, objects, hartVars>>

\* One turn of the loop of load_snippet_db: every manifest of the directory,
\* whether a suite needs it or not.
LoadManifest ==
    /\ pc = "manifests"
    /\ Len(db) < Len(dir)
    /\ LET m == dir[Len(db) + 1] IN
         IF m.valid /\ ~Loaded(m.id)
         THEN db' = Append(db, m) /\ Goto("manifests")
         ELSE Stop("manifest") /\ UNCHANGED db
    /\ UNCHANGED <<inputs, plan, todo, objects, hartVars>>

\* The manifest of a loaded snippet.
SpecOf(id) == db[CHOOSE i \in DOMAIN db : db[i].id = id]

\* The database is all that list-snippets wants.
ListSnippets ==
    /\ pc = "manifests"
    /\ command = "list-snippets"
    /\ Len(db) = Len(dir)
    /\ Stop("listed")
    /\ UNCHANGED <<inputs, db, plan, todo, objects, hartVars>>

\* load_suite and build_compose_plan.  dump-plan prints the plan; the others
\* emit the harness from it and go on.
BuildPlan ==
    /\ pc = "manifests"
    /\ command # "list-snippets"
    /\ Len(db) = Len(dir)
    /\ IF suite.valid /\ \A i \in DOMAIN suite.snippets : Loaded(suite.snippets[i])
       THEN /\ plan' = [i \in DOMAIN suite.snippets |-> SpecOf(suite.snippets[i])]
            /\ objects' = Runtime
            /\ IF command = "dump-plan" THEN Stop("dumped") ELSE Goto("compile")
       ELSE Stop("suite") /\ UNCHANGED <<plan, objects>>
    /\ UNCHANGED <<inputs, db, todo, hartVars>>

\* unique_plan_sources and the loop that compiles what it returns: a source
\* is taken at its first mention.  Runtime sources are not among those seen.
Seen == {objects[i] : i \in (Len(Runtime) + 1)..Len(objects)}

\* Mutated Taken: every mention of a source is compiled.
TakenAlways(source) == Append(objects, source)

Taken(source) == IF source \in Seen THEN objects ELSE Append(objects, source)

CompileSource ==
    /\ pc = "compile" /\ todo.snippet <= Len(plan)
    /\ LET sources == plan[todo.snippet].sources IN
         IF todo.source <= Len(sources)
         THEN /\ objects' = Taken(sources[todo.source])
              /\ todo' = [todo EXCEPT !.source = @ + 1]
         ELSE /\ todo' = [snippet |-> todo.snippet + 1, source |-> 1]
              /\ UNCHANGED objects
    /\ Goto("compile")
    /\ UNCHANGED <<inputs, db, plan, hartVars>>

\* The linker: no file may be there twice, no descriptor be defined twice,
\* and every descriptor the harness refers to must be defined.
Links ==
    /\ IsInjective(objects)
    /\ \A i, j \in DOMAIN objects :
          i # j => Defines[objects[i]] \cap Defines[objects[j]] = {}
    /\ \A i \in DOMAIN plan : \E j \in DOMAIN objects : plan[i].id \in Defines[objects[j]]

Link ==
    /\ pc = "compile" /\ todo.snippet > Len(plan)
    /\ IF Links THEN Goto("init") ELSE Stop("link")
    /\ UNCHANGED <<inputs, db, plan, todo, objects, hartVars>>

----------------------------------------------------------------------------
(* The hart: xsrt_run_snippet on plan[step] *)

Has(function) == function \in Hooks[plan[step].id]
Record(function, rc) ==
    trace' = Append(trace, [at |-> step, function |-> function, rc |-> rc])

\* init, run and check are called when they are there; the first to return
\* non-zero sends the snippet to its fini, with its code to be returned.
Following == [init |-> "run", run |-> "check", check |-> "fini"]

Function ==
    /\ pc \in DOMAIN Following
    /\ IF Has(pc)
       THEN \E rc \in {0, 1} :
              /\ Record(pc, rc)
              /\ code' = rc
              /\ Goto(IF rc = 0 THEN Following[pc] ELSE "fini")
       ELSE Goto(Following[pc]) /\ UNCHANGED <<trace, code>>
    /\ UNCHANGED <<inputs, db, plan, todo, objects, step>>

\* fini is called on a line of its own on each of the four ways out.
CallFini == IF Has("fini") THEN Record("fini", 0) ELSE UNCHANGED trace

Unfinished == <<inputs, db, plan, todo, objects, code>>

\* The function whose code is to be returned.
Failed(function) ==
    pc = "fini" /\ code # 0 /\ trace[Len(trace)].function = function

\* main returns the code of a snippet that failed ...
Abandon == Stop("main returned") /\ UNCHANGED step

\* ... and goes on to the next after one that did not.
GoOn ==
    IF step = Len(plan) THEN Stop("main returned") /\ UNCHANGED step
                        ELSE Goto("init") /\ step' = step + 1

\* init failed.
FiniAfterInit ==
    Failed("init") /\ CallFini /\ Abandon /\ UNCHANGED Unfinished

\* Mutated FiniAfterRun: main goes on after a snippet whose run failed.
FiniAfterRunGoesOn ==
    Failed("run") /\ CallFini /\ GoOn /\ UNCHANGED Unfinished

\* run failed.
FiniAfterRun ==
    Failed("run") /\ CallFini /\ Abandon /\ UNCHANGED Unfinished

\* Mutated FiniAfterCheck: a snippet whose check failed is left at once.
FiniAfterCheckForgotten ==
    Failed("check") /\ Abandon /\ UNCHANGED <<trace, Unfinished>>

\* check failed.
FiniAfterCheck ==
    Failed("check") /\ CallFini /\ Abandon /\ UNCHANGED Unfinished

\* None failed.
FiniAtEnd ==
    pc = "fini" /\ code = 0 /\ CallFini /\ GoOn /\ UNCHANGED Unfinished

Fini == FiniAfterInit \/ FiniAfterRun \/ FiniAfterCheck \/ FiniAtEnd

Next ==
    \/ ReadSeeds \/ LoadManifest \/ ListSnippets \/ BuildPlan
    \/ CompileSource \/ Link \/ Function \/ Fini

Spec == Init /\ [][Next]_vars

----------------------------------------------------------------------------
(* Properties *)

\* A plan is the suite's list, repeats and order kept, and each entry is the
\* one manifest of the directory with that id: no other manifest could have
\* been meant, and no defective one was passed over, not even one the suite
\* does not name.  dump-plan shows the plan that build would build.
PlanIsTheSuite ==
    plan # <<>> =>
        /\ [i \in DOMAIN plan |-> plan[i].id] = suite.snippets
        /\ \A i \in DOMAIN plan : \A j \in DOMAIN dir :
              dir[j].valid /\ (dir[j].id = plan[i].id => dir[j] = plan[i])
        /\ \A i, j \in DOMAIN dir : dir[i].id = dir[j].id => i = j

\* A link fails for a reason in the manifests: a snippet lists a runtime
\* source, a descriptor is missing or defined by two files.  A snippet that a
\* suite repeats, or a source that snippets share, is no reason.
Listed == UNION {ToSet(plan[i].sources) : i \in DOMAIN plan}
Linked == Listed \cup ToSet(Runtime)

LinkFailsForCause ==
    outcome = "link" =>
        \/ Listed \cap ToSet(Runtime) # {}
        \/ \E f, g \in Linked : f # g /\ Defines[f] \cap Defines[g] # {}
        \/ \E i \in DOMAIN plan : \A f \in Linked : plan[i].id \notin Defines[f]

\* A snippet that was started is finished once: its fini, when it has one, is
\* its last call and its only fini, on every path out of xsrt_run_snippet.
FiniOncePerSnippet ==
    outcome = "main returned" =>
        \A k \in 1..step : "fini" \in Hooks[plan[k].id] =>
            \E i \in DOMAIN trace :
                /\ trace[i].at = k /\ trace[i].function = "fini"
                /\ \A j \in DOMAIN trace : trace[j].at = k /\ i # j =>
                      j < i /\ trace[j].function # "fini"

\* The calls come in the order of the suite and, in a snippet, of
\* xsrt_run_snippet, each at most once.
Rank == [init |-> 1, run |-> 2, check |-> 3, fini |-> 4]
Before(c, d) == c.at < d.at \/ (c.at = d.at /\ Rank[c.function] < Rank[d.function])
Called(k, function) ==
    \E i \in DOMAIN trace : trace[i].at = k /\ trace[i].function = function

\* What main returns is what the hart did: 0 when every function of every
\* snippet was called, in order, and none failed; else the code of a call that
\* failed, after which only the fini of its snippet came.
CodeIsTheEvidence ==
    outcome = "main returned" =>
        /\ IF code = 0
           THEN /\ step = Len(suite.snippets)
                /\ \A k \in 1..step : \A function \in Functions :
                      Called(k, function) <=> function \in Hooks[plan[k].id]
           ELSE \E i \in DOMAIN trace : trace[i].rc = code
        /\ \A i \in DOMAIN trace : trace[i].rc # 0 =>
              /\ code = trace[i].rc
              /\ \A j \in (i + 1)..Len(trace) :
                    trace[j].at = trace[i].at /\ trace[j].function = "fini"
        /\ \A i, j \in DOMAIN trace : i < j => Before(trace[i], trace[j])
=============================================================================
