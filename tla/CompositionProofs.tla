--------------------------- MODULE CompositionProofs ---------------------------
(***************************************************************************)
(* Proofs about Composition for every directory, every suite and every set *)
(* of snippets and sources: what is planned, linked and run.               *)
(***************************************************************************)
EXTENDS Composition, TLAPS

\* The files read have the types of their parsers.
FilesTyped ==
    /\ dir \in Seq(Manifest) /\ suite \in Suite
    /\ suite.valid => suite.snippets # <<>>

\* What the four ways out of a snippet have in common.
LEMMA FiniIs ==
  Fini => /\ pc = "fini" /\ CallFini /\ UNCHANGED Unfinished
          /\ IF code # 0 \/ step = Len(plan)
             THEN Stop("main returned") /\ UNCHANGED step
             ELSE Goto("init") /\ step' = step + 1
  BY DEF Fini, FiniAfterInit, FiniAfterRun, FiniAfterCheck, FiniAtEnd, Failed,
     Abandon, GoOn

\* The database is what has been read of the directory: valid manifests with
\* ids of their own.
DbIsPrefix ==
    /\ db \in Seq(Manifest)
    /\ Len(db) <= Len(dir)
    /\ \A i \in 1..Len(db) : db[i] = dir[i] /\ db[i].valid
    /\ \A i, j \in 1..Len(db) : db[i].id = db[j].id => i = j

\* A plan is only made from the whole directory, when no other step can
\* change it any more.
PlanAfterDb == pc \in {"seeds", "manifests"} => plan = <<>>

\* What is compiled, linked or run is a plan of some snippet.
PlanTyped ==
    /\ plan \in Seq(Manifest)
    /\ pc \in {"compile"} \cup Functions => plan # <<>>

PlanInv == FilesTyped /\ DbIsPrefix /\ PlanAfterDb /\ PlanTyped /\ PlanIsTheSuite

\* What the files are when the command starts; nothing has been read.
LEMMA InitPlanInv == Init => PlanInv
  <1> SUFFICES ASSUME Init PROVE PlanInv
    OBVIOUS
  <1>1. /\ dir \in Seq(Manifest) /\ suite \in Suite
        /\ suite.valid => suite.snippets # <<>>
    <2>1. PICK i \in Invocations : dir = i.dir /\ suite = i.suite
      BY DEF Init
    <2> QED BY <2>1, CompositionAssumption DEF Invocation
  <1>2. db = <<>> /\ plan = <<>> /\ pc \in {"seeds", "manifests"}
    BY DEF Init
  <1>3. Len(db) = 0 /\ Len(dir) \in Nat /\ db \in Seq(Manifest)
    BY <1>1, <1>2
  <1>4. PlanTyped
    BY <1>2 DEF PlanTyped, Functions
  <1> QED BY <1>1, <1>2, <1>3, <1>4
      DEF PlanInv, FilesTyped, DbIsPrefix, PlanAfterDb, PlanIsTheSuite

\* A manifest is taken when it is valid and its id is new.
LEMMA Loads == PlanInv /\ LoadManifest => PlanInv'
  <1> SUFFICES ASSUME PlanInv, LoadManifest PROVE PlanInv'
    OBVIOUS
  <1> DEFINE m == dir[Len(db) + 1]
  <1>1. /\ UNCHANGED <<dir, suite, plan>> /\ plan = <<>>
        /\ FilesTyped /\ DbIsPrefix /\ Len(db) < Len(dir)
    BY DEF LoadManifest, inputs, files, PlanInv, PlanAfterDb
  <1>2. FilesTyped' /\ PlanAfterDb' /\ PlanIsTheSuite' /\ PlanTyped'
    <2>1. pc' \in {"manifests", "end"}
      BY DEF LoadManifest, Goto, Stop
    <2> QED BY <1>1, <2>1
        DEF FilesTyped, PlanAfterDb, PlanIsTheSuite, PlanTyped, Functions
  <1>3. CASE m.valid /\ ~Loaded(m.id)
    <2>1. db' = Append(db, m)
      BY <1>3 DEF LoadManifest
    <2>2. m \in Manifest
      BY <1>1 DEF FilesTyped, DbIsPrefix
    <2>3. /\ db' \in Seq(Manifest) /\ Len(db') = Len(db) + 1
          /\ \A i \in 1..(Len(db) + 1) :
                db'[i] = IF i = Len(db) + 1 THEN m ELSE db[i]
      BY <1>1, <2>1, <2>2 DEF DbIsPrefix
    <2>4. \A i \in 1..Len(db) : db[i].id # m.id
      BY <1>1, <1>3 DEF Loaded, DbIsPrefix
    <2>5. /\ Len(db') <= Len(dir)
          /\ \A i \in 1..Len(db') : db'[i] = dir[i] /\ db'[i].valid
      BY <1>1, <1>3, <2>3 DEF DbIsPrefix, FilesTyped
    <2>6. \A i, j \in 1..Len(db') : db'[i].id = db'[j].id => i = j
      <3> HIDE DEF m
      <3> QED BY <1>1, <2>3, <2>4 DEF DbIsPrefix
    <2>7. DbIsPrefix'
      BY <1>1, <2>3, <2>5, <2>6 DEF DbIsPrefix
    <2> QED BY <1>2, <2>7 DEF PlanInv
  <1>4. CASE ~(m.valid /\ ~Loaded(m.id))
    <2>1. UNCHANGED db
      BY <1>4 DEF LoadManifest
    <2> QED BY <1>1, <1>2, <2>1 DEF PlanInv, DbIsPrefix
  <1> QED BY <1>3, <1>4

\* An id that is loaded is that of one manifest, which SpecOf returns.
LEMMA SpecFound ==
  ASSUME DbIsPrefix, NEW id, Loaded(id)
  PROVE  \E k \in 1..Len(db) : SpecOf(id) = db[k] /\ db[k].id = id
  <1>1. PICK i \in DOMAIN db : db[i].id = id
    BY DEF Loaded
  <1>2. DOMAIN db = 1..Len(db)
    BY DEF DbIsPrefix
  <1> QED BY <1>1, <1>2 DEF SpecOf

\* The plan is made from the whole database, position by position.
LEMMA Plans == PlanInv /\ BuildPlan => PlanInv'
  <1> SUFFICES ASSUME PlanInv, BuildPlan PROVE PlanInv'
    OBVIOUS
  <1>1. /\ UNCHANGED <<dir, suite, db>> /\ Len(db) = Len(dir)
        /\ FilesTyped /\ DbIsPrefix
    BY DEF BuildPlan, inputs, files, PlanInv
  <1>2. FilesTyped' /\ DbIsPrefix' /\ pc' \notin {"seeds", "manifests"}
    BY <1>1 DEF FilesTyped, DbIsPrefix, BuildPlan, Goto, Stop
  <1>3. CASE suite.valid /\ \A i \in DOMAIN suite.snippets : Loaded(suite.snippets[i])
    <2> DEFINE ids == suite.snippets
    <2>1. plan' = [i \in DOMAIN ids |-> SpecOf(ids[i])]
      BY <1>3 DEF BuildPlan
    <2>2. ids \in Seq(Snippets)
      BY <1>1 DEF FilesTyped, Suite
    <2>3. \A i \in DOMAIN ids :
             \E k \in 1..Len(db) : plan'[i] = db[k] /\ db[k].id = ids[i]
      BY <1>1, <1>3, <2>1, SpecFound
    <2>4. ids = [i \in DOMAIN ids |-> ids[i]]
      BY <2>2
    <2>5. DOMAIN plan' = DOMAIN ids /\ \A i \in DOMAIN ids : plan'[i].id = ids[i]
      BY <2>1, <2>3
    <2>6. [i \in DOMAIN plan' |-> plan'[i].id] = ids
      <3> HIDE DEF ids
      <3> QED BY <2>4, <2>5
    <2>7. DOMAIN dir = 1..Len(dir) /\ \A j \in DOMAIN dir : dir[j] = db[j]
      BY <1>1 DEF FilesTyped, DbIsPrefix
    <2>8. \A i \in DOMAIN plan' : \A j \in DOMAIN dir :
             dir[j].valid /\ (dir[j].id = plan'[i].id => dir[j] = plan'[i])
      <3> HIDE DEF ids
      <3> QED BY <1>1, <2>3, <2>5, <2>7 DEF DbIsPrefix
    <2>9. \A i, j \in DOMAIN dir : dir[i].id = dir[j].id => i = j
      BY <1>1, <2>7 DEF DbIsPrefix
    <2>10. PlanIsTheSuite'
      BY <1>1, <2>6, <2>8, <2>9 DEF PlanIsTheSuite
    <2>11. PlanTyped'
      <3>1. DOMAIN ids = 1..Len(ids) /\ Len(ids) \in Nat /\ ids # <<>>
        BY <1>1, <1>3, <2>2 DEF FilesTyped
      <3>2. \A i \in DOMAIN ids : plan'[i] \in Manifest
        BY <2>3, <1>1 DEF DbIsPrefix
      <3>3. plan' \in [1..Len(ids) -> Manifest] /\ Len(ids) # 0
        BY <2>1, <2>5, <3>1, <3>2
      <3> QED BY <3>1, <3>3 DEF PlanTyped
    <2> QED BY <1>2, <2>10, <2>11 DEF PlanInv, PlanAfterDb
  <1>4. CASE ~(suite.valid /\ \A i \in DOMAIN suite.snippets : Loaded(suite.snippets[i]))
    <2>1. UNCHANGED plan
      BY <1>4 DEF BuildPlan
    <2>2. pc' = "end"
      BY <1>4 DEF BuildPlan, Stop
    <2> QED BY <1>1, <1>2, <2>1, <2>2
        DEF PlanInv, PlanAfterDb, PlanIsTheSuite, PlanTyped, Functions
  <1> QED BY <1>3, <1>4

\* Nothing else touches the files, the database or the plan, and the command
\* never goes back to reading once it has a plan.
LEMMA OthersKeep ==
  ASSUME PlanInv,
         \/ ReadSeeds \/ ListSnippets \/ CompileSource \/ Link \/ Function \/ Fini
         \/ UNCHANGED vars
  PROVE  PlanInv'
  <1>1. UNCHANGED <<dir, suite, db, plan>>
    BY FiniIs DEF ReadSeeds, ListSnippets, CompileSource, Link, Function,
       Unfinished, vars, inputs, files
  <1>2. pc' \in {"seeds", "manifests"} => pc \in {"seeds", "manifests"}
    <2>1. CASE ReadSeeds \/ ListSnippets \/ UNCHANGED vars
      BY <2>1 DEF ReadSeeds, ListSnippets, vars, Goto, Stop
    <2>2. CASE CompileSource \/ Link \/ Fini
      BY <2>2, FiniIs DEF CompileSource, Link, Unfinished, Goto, Stop
    <2>3. CASE Function
      <3>1. pc' \in {Following[pc], "fini"} /\ pc \in {"init", "run", "check"}
        BY <2>3 DEF Function, Goto, Following
      <3>2. Following[pc] \in {"run", "check", "fini"}
        BY <3>1 DEF Following
      <3> QED BY <3>1, <3>2
    <2> QED BY <2>1, <2>2, <2>3
  <1>3. PlanTyped'
    <2>1. CASE ReadSeeds \/ ListSnippets \/ UNCHANGED vars
      BY <1>1, <2>1
         DEF ReadSeeds, ListSnippets, vars, Goto, Stop, PlanInv, PlanTyped, Functions
    <2>2. CASE CompileSource \/ Link \/ Function \/ Fini
      BY <1>1, <2>2, FiniIs
         DEF CompileSource, Link, Function, Unfinished, Following, PlanInv, PlanTyped,
         Functions
    <2> QED BY <2>1, <2>2
  <1> QED BY <1>1, <1>2, <1>3
      DEF PlanInv, FilesTyped, DbIsPrefix, PlanAfterDb, PlanIsTheSuite

LEMMA PlanInvariant == Spec => []PlanInv
  <1>1. PlanInv /\ [Next]_vars => PlanInv'
    BY Loads, Plans, OthersKeep DEF Next
  <1> QED BY InitPlanInv, <1>1, PTL DEF Spec

\* Whatever is in the directory and whatever the suite lists, a plan is the
\* suite's list over the one manifest of each id, and no manifest is defective.
THEOREM PlanFaithful == Spec => []PlanIsTheSuite
  <1>1. PlanInv => PlanIsTheSuite
    BY DEF PlanInv
  <1> QED BY PlanInvariant, <1>1, PTL

----------------------------------------------------------------------------
(* Linking *)

\* The objects that are not the runtime's.
OwnObjects == (Len(Runtime) + 1)..Len(objects)

Compiled(source) == \E i \in OwnObjects : objects[i] = source

Mentioned(source) ==
    \E k \in DOMAIN plan : \E n \in DOMAIN plan[k].sources : plan[k].sources[n] = source

Passed(k, n) == k < todo.snippet \/ (k = todo.snippet /\ n < todo.source)

ObjectsTyped ==
    /\ objects \in Seq(Files)
    /\ todo \in [snippet : Nat \ {0}, source : Nat \ {0}]
    /\ Len(Runtime) <= Len(objects)
    /\ \A i \in 1..Len(Runtime) : objects[i] = Runtime[i]

\* The other objects are the sources mentioned so far, each of them once.
EachMentionedOnce ==
    /\ \A i, j \in OwnObjects : objects[i] = objects[j] => i = j
    /\ \A i \in OwnObjects : Mentioned(objects[i])
    /\ \A k \in DOMAIN plan : \A n \in DOMAIN plan[k].sources :
          Passed(k, n) => Compiled(plan[k].sources[n])

LinkInv ==
    /\ pc \in {"seeds", "manifests"} => todo = Start
    /\ pc = "compile" => ObjectsTyped /\ EachMentionedOnce
    /\ outcome = "link" => pc = "end"
    /\ LinkFailsForCause

LEMMA InitLinkInv == Init => LinkInv
  BY DEF Init, LinkInv, LinkFailsForCause

\* Compiling starts with the runtime and nothing mentioned yet.
LEMMA PlansLink == PlanInv /\ LinkInv /\ BuildPlan => LinkInv'
  <1> SUFFICES ASSUME PlanInv, LinkInv, BuildPlan PROVE LinkInv'
    OBVIOUS
  <1>1. /\ pc = "manifests" /\ todo = Start /\ todo' = todo /\ outcome # "link"
        /\ pc' \notin {"seeds", "manifests"} /\ outcome' # "link"
    BY DEF BuildPlan, LinkInv, Goto, Stop
  <1>2. CASE pc' = "compile"
    <2>1. objects' = Runtime
      BY <1>2 DEF BuildPlan, Stop
    <2>2. Runtime \in Seq(Files) /\ Len(Runtime) \in Nat
      BY CompositionAssumption
    <2>3. ObjectsTyped'
      BY <1>1, <2>1, <2>2 DEF ObjectsTyped, Start
    <2>4. OwnObjects' = {}
      BY <2>1, <2>2 DEF OwnObjects
    <2>5. \A k, n : Passed(k, n)' => k < 1 \/ (k = 1 /\ n < 1)
      BY <1>1 DEF Passed, Start
    <2>6. \A k \in DOMAIN plan' : \A n \in DOMAIN plan'[k].sources : ~Passed(k, n)'
      <3>1. plan' \in Seq(Manifest)
        BY Plans DEF PlanInv, PlanTyped
      <3> SUFFICES ASSUME NEW k \in DOMAIN plan', NEW n \in DOMAIN plan'[k].sources
                   PROVE  ~(k < 1 \/ (k = 1 /\ n < 1))
        BY <2>5
      <3>2. k \in Nat \ {0} /\ plan'[k] \in Manifest
        BY <3>1
      <3>3. n \in Nat \ {0}
        BY <3>2 DEF Manifest
      <3> QED BY <3>2, <3>3
    <2>7. EachMentionedOnce'
      BY <2>4, <2>6 DEF EachMentionedOnce
    <2> QED BY <1>1, <1>2, <2>3, <2>7 DEF LinkInv, LinkFailsForCause
  <1>3. CASE pc' # "compile"
    BY <1>1, <1>3 DEF LinkInv, LinkFailsForCause
  <1> QED BY <1>2, <1>3

\* What Taken makes of the objects.
LEMMA TakenIs ==
  ASSUME ObjectsTyped, NEW source \in Files
  PROVE  \/ Compiled(source) /\ Taken(source) = objects
         \/ /\ ~Compiled(source) /\ Taken(source) = Append(objects, source)
            /\ Taken(source) \in Seq(Files)
            /\ Len(Taken(source)) = Len(objects) + 1
            /\ Taken(source)[Len(objects) + 1] = source
            /\ \A i \in 1..Len(objects) : Taken(source)[i] = objects[i]
  <1>1. source \in Seen <=> Compiled(source)
    BY DEF Seen, Compiled, OwnObjects
  <1>2. CASE source \in Seen
    BY <1>1, <1>2 DEF Taken
  <1>3. CASE source \notin Seen
    BY <1>1, <1>3 DEF Taken, ObjectsTyped
  <1> QED BY <1>2, <1>3

LEMMA PlanSources ==
  ASSUME PlanTyped
  PROVE  /\ plan \in Seq(Manifest) /\ DOMAIN plan = 1..Len(plan)
         /\ \A k \in DOMAIN plan : /\ plan[k] \in Manifest /\ plan[k].sources \in Seq(Files)
                                  /\ DOMAIN plan[k].sources = 1..Len(plan[k].sources)
  <1>1. plan \in Seq(Manifest) /\ DOMAIN plan = 1..Len(plan)
    BY DEF PlanTyped
  <1>2. \A k \in DOMAIN plan : plan[k] \in Manifest
    BY <1>1
  <1>3. \A m \in Manifest : m.sources \in Seq(Files)
    BY DEF Manifest
  <1>4. \A s \in Seq(Files) : DOMAIN s = 1..Len(s)
    OBVIOUS
  <1> QED BY <1>1, <1>2, <1>3, <1>4

\* A source is compiled when it is mentioned and has not been before.
LEMMA CompilesLink == PlanInv /\ LinkInv /\ CompileSource => LinkInv'
  <1> SUFFICES ASSUME PlanInv, LinkInv, CompileSource PROVE LinkInv'
    OBVIOUS
  <1> DEFINE s == todo.snippet
             sources == plan[s].sources
             source == sources[todo.source]
  <1>1. /\ pc = "compile" /\ pc' = "compile" /\ outcome' = outcome /\ plan' = plan
        /\ outcome # "link" /\ ObjectsTyped /\ EachMentionedOnce /\ s <= Len(plan)
    BY DEF CompileSource, Goto, LinkInv
  <1>2. /\ plan \in Seq(Manifest) /\ DOMAIN plan = 1..Len(plan)
        /\ \A k \in DOMAIN plan : /\ plan[k].sources \in Seq(Files)
                                 /\ DOMAIN plan[k].sources = 1..Len(plan[k].sources)
    BY PlanSources DEF PlanInv
  <1>3. /\ todo = [snippet |-> todo.snippet, source |-> todo.source]
        /\ todo.snippet \in Nat \ {0} /\ todo.source \in Nat \ {0} /\ s \in DOMAIN plan
        /\ Len(objects) \in Nat /\ Len(Runtime) \in Nat
    BY <1>1, <1>2, CompositionAssumption DEF ObjectsTyped
  <1>4. CASE todo.source <= Len(sources)
    <2>1. /\ objects' = Taken(source)
          /\ todo' = [todo EXCEPT !.source = @ + 1]
      BY <1>4 DEF CompileSource
    <2>2. todo'.snippet = todo.snippet /\ todo'.source = todo.source + 1
      BY <1>3, <2>1
    <2>3. todo.source \in DOMAIN sources /\ source \in Files
      BY <1>2, <1>3, <1>4
    <2>4. \A k \in DOMAIN plan : \A n \in DOMAIN plan[k].sources :
             Passed(k, n)' <=> Passed(k, n) \/ (k = s /\ n = todo.source)
      BY <1>2, <1>3, <2>2 DEF Passed
    <2>5. CASE Compiled(source) /\ objects' = objects
      <3>1. ObjectsTyped'
        BY <1>1, <1>3, <2>1, <2>5 DEF ObjectsTyped
      <3>2. OwnObjects' = OwnObjects /\ \A f : Compiled(f)' <=> Compiled(f)
        BY <2>5 DEF OwnObjects, Compiled
      <3>3. EachMentionedOnce'
        BY <1>1, <2>4, <2>5, <3>2 DEF EachMentionedOnce, Mentioned
      <3> QED BY <1>1, <3>1, <3>3 DEF LinkInv, LinkFailsForCause
    <2>6. CASE /\ ~Compiled(source) /\ objects' \in Seq(Files)
               /\ Len(objects') = Len(objects) + 1
               /\ objects'[Len(objects) + 1] = source
               /\ \A i \in 1..Len(objects) : objects'[i] = objects[i]
      <3>1. ObjectsTyped'
        BY <1>1, <1>3, <2>1, <2>6 DEF ObjectsTyped
      <3>2. /\ OwnObjects' = OwnObjects \cup {Len(objects) + 1}
            /\ \A i \in OwnObjects : i \in 1..Len(objects) /\ objects'[i] = objects[i]
        BY <1>1, <1>3, <2>6 DEF OwnObjects, ObjectsTyped
      <3>3. \A i, j \in OwnObjects' : objects'[i] = objects'[j] => i = j
        BY <1>1, <2>6, <3>2 DEF EachMentionedOnce, Compiled
      <3>4. \A i \in OwnObjects' : Mentioned(objects'[i])
        BY <1>1, <1>3, <2>3, <2>6, <3>2 DEF EachMentionedOnce, Mentioned
      <3>5. \A f : Compiled(f) \/ f = source => Compiled(f)'
        BY <2>6, <3>2 DEF Compiled
      <3>6. \A k \in DOMAIN plan : \A n \in DOMAIN plan[k].sources :
               Passed(k, n)' => Compiled(plan[k].sources[n])'
        BY <1>1, <2>4, <3>5 DEF EachMentionedOnce
      <3>7. EachMentionedOnce'
        BY <1>1, <3>3, <3>4, <3>6 DEF EachMentionedOnce, Mentioned
      <3> QED BY <1>1, <3>1, <3>7 DEF LinkInv, LinkFailsForCause
    <2> HIDE DEF source
    <2> QED BY <1>1, <2>1, <2>3, <2>5, <2>6, TakenIs
  <1>5. CASE ~(todo.source <= Len(sources))
    <2>1. /\ objects' = objects
          /\ todo' = [snippet |-> s + 1, source |-> 1]
      BY <1>5 DEF CompileSource
    <2>2. ObjectsTyped'
      BY <1>1, <1>3, <2>1 DEF ObjectsTyped
    <2>3. OwnObjects' = OwnObjects /\ \A f : Compiled(f)' <=> Compiled(f)
      BY <2>1 DEF OwnObjects, Compiled
    <2>4. \A k \in DOMAIN plan : \A n \in DOMAIN plan[k].sources :
             Passed(k, n)' => Passed(k, n)
      BY <1>2, <1>3, <1>5, <2>1 DEF Passed
    <2>5. EachMentionedOnce'
      BY <1>1, <2>1, <2>3, <2>4 DEF EachMentionedOnce, Mentioned
    <2> QED BY <1>1, <2>2, <2>5 DEF LinkInv, LinkFailsForCause
  <1> QED BY <1>4, <1>5

\* When the walk is over, what is linked is what the plan lists and the runtime.
LEMMA ListedIs == \A f : f \in Listed <=> Mentioned(f)
  BY DEF Listed, Mentioned, ToSet

LEMMA AllListed ==
  ASSUME PlanInv, ObjectsTyped, EachMentionedOnce, todo.snippet > Len(plan)
  PROVE  /\ \A f : f \in Linked <=> \E i \in DOMAIN objects : objects[i] = f
         /\ \A f : f \in Listed <=> Compiled(f)
         /\ \A i, j \in DOMAIN objects :
               objects[i] = objects[j] => i = j \/ objects[i] \in Listed \cap ToSet(Runtime)
  <1>1. /\ DOMAIN objects = 1..Len(objects) /\ Len(objects) \in Nat
        /\ DOMAIN Runtime = 1..Len(Runtime) /\ Len(Runtime) \in Nat
        /\ Len(Runtime) <= Len(objects)
    BY CompositionAssumption DEF ObjectsTyped
  <1>2. \A f : f \in Listed <=> Compiled(f)
    <2>1. \A k \in DOMAIN plan : k < todo.snippet
      BY PlanSources DEF PlanInv, ObjectsTyped, PlanTyped
    <2>2. \A f : Mentioned(f) <=> Compiled(f)
      BY <2>1 DEF EachMentionedOnce, Mentioned, Compiled, Passed
    <2> QED BY <2>2, ListedIs
  <1>3. \A f : f \in ToSet(Runtime) <=> \E i \in 1..Len(Runtime) : objects[i] = f
    BY <1>1 DEF ToSet, ObjectsTyped
  <1>4. DOMAIN objects = (1..Len(Runtime)) \cup OwnObjects
    BY <1>1 DEF OwnObjects
  <1>5. \A f : f \in Linked <=> \E i \in DOMAIN objects : objects[i] = f
    BY <1>2, <1>3, <1>4 DEF Linked, Compiled
  <1>6. ASSUME NEW i \in DOMAIN objects, NEW j \in DOMAIN objects,
               objects[i] = objects[j], i # j
        PROVE  objects[i] \in Listed \cap ToSet(Runtime)
    <2>1. CASE i \in OwnObjects /\ j \in OwnObjects
      BY <1>6, <2>1 DEF EachMentionedOnce
    <2>2. CASE i \in 1..Len(Runtime) /\ j \in 1..Len(Runtime)
      BY <1>1, <1>6, <2>2, CompositionAssumption DEF ObjectsTyped, IsInjective
    <2>3. CASE ~(i \in OwnObjects <=> j \in OwnObjects)
      BY <1>2, <1>3, <1>4, <1>6, <2>3 DEF Compiled
    <2> QED BY <1>4, <2>1, <2>2, <2>3
  <1> QED BY <1>2, <1>5, <1>6

\* A link that fails has one of the causes.
LEMMA LinksLink == PlanInv /\ LinkInv /\ Link => LinkInv'
  <1> SUFFICES ASSUME PlanInv, LinkInv, Link PROVE LinkInv'
    OBVIOUS
  <1>1. /\ pc = "compile" /\ todo.snippet > Len(plan) /\ ObjectsTyped /\ EachMentionedOnce
        /\ outcome # "link" /\ plan' = plan
    BY DEF Link, LinkInv
  <1>2. CASE Links
    BY <1>1, <1>2 DEF Link, LinkInv, LinkFailsForCause, Goto
  <1>3. CASE ~Links
    <2>1. pc' = "end" /\ outcome' = "link"
      BY <1>3 DEF Link, Stop
    <2> DEFINE Cause ==
          \/ Listed \cap ToSet(Runtime) # {}
          \/ \E f, g \in Linked : f # g /\ Defines[f] \cap Defines[g] # {}
          \/ \E i \in DOMAIN plan : \A f \in Linked : plan[i].id \notin Defines[f]
    <2>2. Cause
      <3>1. CASE \E i, j \in DOMAIN objects : i # j /\ objects[i] = objects[j]
        BY <1>1, <3>1, AllListed
      <3>2. CASE \E i, j \in DOMAIN objects :
                    /\ objects[i] # objects[j]
                    /\ Defines[objects[i]] \cap Defines[objects[j]] # {}
        BY <1>1, <3>2, AllListed
      <3>3. CASE \E i \in DOMAIN plan :
                    \A j \in DOMAIN objects : plan[i].id \notin Defines[objects[j]]
        BY <1>1, <3>3, AllListed
      <3> HIDE DEF Cause
      <3> QED BY <1>3, <3>1, <3>2, <3>3 DEF Links, IsInjective
    <2>3. Listed' = Listed /\ Linked' = Linked
      BY <1>1 DEF Listed, Linked
    <2> QED BY <1>1, <2>1, <2>2, <2>3 DEF LinkInv, LinkFailsForCause
  <1> QED BY <1>2, <1>3

\* No other step compiles or links.
LEMMA OthersLink ==
  ASSUME LinkInv,
         \/ ReadSeeds \/ LoadManifest \/ ListSnippets \/ Function \/ Fini \/ UNCHANGED vars
  PROVE  LinkInv'
  <1>1. CASE UNCHANGED vars
    BY <1>1 DEF vars, LinkInv, LinkFailsForCause, ObjectsTyped, EachMentionedOnce, OwnObjects,
       Compiled, Mentioned, Passed, Listed, Linked
  <1>2. CASE ReadSeeds \/ LoadManifest \/ ListSnippets
    BY <1>2 DEF ReadSeeds, LoadManifest, ListSnippets, Goto, Stop, LinkInv, LinkFailsForCause
  <1>3. CASE Function \/ Fini
    <2>1. pc \in Functions /\ outcome # "link"
      BY <1>3, FiniIs DEF Function, Unfinished, Following, Functions, LinkInv
    <2>2. pc' \notin {"seeds", "manifests", "compile"} /\ outcome' # "link"
      <3>1. CASE Fini
        BY <2>1, <3>1, FiniIs DEF Goto, Stop
      <3>2. CASE Function
        <4>1. /\ pc' \in {Following[pc], "fini"} /\ outcome' = outcome
              /\ pc \in {"init", "run", "check"}
          BY <3>2 DEF Function, Goto, Following
        <4>2. Following[pc] \in {"run", "check", "fini"}
          BY <4>1 DEF Following
        <4> QED BY <2>1, <4>1, <4>2
      <3> QED BY <1>3, <3>1, <3>2
    <2> QED BY <2>2 DEF LinkInv, LinkFailsForCause
  <1> QED BY <1>1, <1>2, <1>3

LEMMA LinkInvariant == Spec => []LinkInv
  <1>1. PlanInv /\ LinkInv /\ [Next]_vars => LinkInv'
    BY PlansLink, CompilesLink, LinksLink, OthersLink DEF Next
  <1> QED BY InitLinkInv, PlanInvariant, <1>1, PTL DEF Spec

\* A link that fails is the manifests' doing: however a suite repeats its
\* snippets and however they share their sources, no file is linked twice.
THEOREM LinkBlames == Spec => []LinkFailsForCause
  <1>1. LinkInv => LinkFailsForCause
    BY DEF LinkInv
  <1> QED BY LinkInvariant, <1>1, PTL

----------------------------------------------------------------------------
(* The hart *)

Call == [at : Nat \ {0}, function : Functions, rc : {0, 1}]

\* Snippet k has had exactly the calls its descriptor has.
Complete(k) == \A f \in Functions : Called(k, f) <=> f \in Hooks[plan[k].id]

\* The calls so far are in order and come before the one that is next.
CallsOrdered ==
    /\ \A i, j \in 1..Len(trace) : i < j => Before(trace[i], trace[j])
    /\ \A i \in 1..Len(trace) :
          /\ trace[i].at <= step
          /\ trace[i].at = step => Rank[trace[i].function] < Rank[pc]

\* Only the last call may have failed; then its snippet is at its fini.
FailureIsLast ==
    /\ code # 0 => pc = "fini" /\ \E i \in 1..Len(trace) : trace[i].rc = code
    /\ \A i \in 1..Len(trace) : trace[i].rc # 0 =>
          code = trace[i].rc /\ i = Len(trace) /\ trace[i].at = step

\* No call was left out: of the snippets passed, none; of this one, none
\* before its next, unless one failed.
NoneLeftOut ==
    /\ \A k \in 1..(step - 1) : Complete(k)
    /\ code = 0 => \A f \in Functions :
          Rank[f] < Rank[pc] => (Called(step, f) <=> f \in Hooks[plan[step].id])

HartTyped == trace \in Seq(Call) /\ code \in {0, 1} /\ step \in Nat \ {0} /\ step <= Len(plan)

Running == HartTyped /\ CallsOrdered /\ FailureIsLast /\ NoneLeftOut

\* A snippet has been through its fini: the calls tell whether one failed.
CallsFinished ==
    /\ trace \in Seq(Call)
    /\ \A i, j \in 1..Len(trace) : i < j => Before(trace[i], trace[j])
    /\ code # 0 => \E i \in 1..Len(trace) : trace[i].rc = code
    /\ \A i \in 1..Len(trace) : trace[i].rc # 0 =>
          /\ code = trace[i].rc
          /\ \A j \in (i + 1)..Len(trace) :
                trace[j].at = trace[i].at /\ trace[j].function = "fini"

\* main has returned: every snippet started is finished, and all of them were
\* started and had all their calls unless one failed.
Ended ==
    /\ plan # <<>> /\ CallsFinished
    /\ \A k \in 1..step : "fini" \in Hooks[plan[k].id] => Called(k, "fini")
    /\ code = 0 => step = Len(plan) /\ \A k \in 1..step : Complete(k)

HartInv ==
    /\ pc \in {"seeds", "manifests", "compile"} => step = 1 /\ trace = <<>> /\ code = 0
    /\ pc \in Functions => Running
    /\ outcome = "main returned" => pc = "end" /\ Ended

LEMMA InitHartInv == Init => HartInv
  <1> SUFFICES ASSUME Init PROVE HartInv
    OBVIOUS
  <1>1. /\ pc \in {"seeds", "manifests"} /\ outcome = "none"
        /\ step = 1 /\ trace = <<>> /\ code = 0
    BY DEF Init
  <1> QED BY <1>1 DEF HartInv, Functions

LEMMA RankIs ==
  /\ Rank["init"] = 1 /\ Rank["run"] = 2 /\ Rank["check"] = 3 /\ Rank["fini"] = 4
  /\ \A f \in Functions : Rank[f] \in 1..4 /\ (Rank[f] = 4 => f = "fini")
  /\ \A f, g \in Functions : Rank[f] = Rank[g] => f = g
  BY DEF Rank, Functions

\* The function after the present one.
LEMMA FollowingIs ==
  ASSUME pc \in DOMAIN Following
  PROVE  /\ pc \in Functions /\ Following[pc] \in Functions
         /\ Rank[Following[pc]] = Rank[pc] + 1
  BY DEF Following, Functions, Rank

LEMMA CallsTyped ==
  ASSUME NEW s \in Seq(Call)
  PROVE  /\ Len(s) \in Nat /\ DOMAIN s = 1..Len(s)
         /\ \A i \in 1..Len(s) :
               /\ s[i].at \in Nat \ {0} /\ s[i].function \in Functions /\ s[i].rc \in {0, 1}
               /\ Rank[s[i].function] \in 1..4
  <1>1. Len(s) \in Nat /\ DOMAIN s = 1..Len(s)
    OBVIOUS
  <1>2. \A i \in 1..Len(s) : s[i] \in Call
    BY <1>1
  <1>3. \A c \in Call : /\ c.at \in Nat \ {0} /\ c.function \in Functions /\ c.rc \in {0, 1}
                        /\ Rank[c.function] \in 1..4
    BY RankIs DEF Call
  <1> QED BY <1>1, <1>2, <1>3

\* What recording a call changes.
LEMMA RecordedIs ==
  ASSUME HartTyped, NEW f \in Functions, NEW rc \in {0, 1}, Record(f, rc)
  PROVE  /\ trace' \in Seq(Call) /\ Len(trace') = Len(trace) + 1 /\ Len(trace) \in Nat
         /\ \A i \in 1..Len(trace) : trace'[i] = trace[i]
         /\ trace'[Len(trace) + 1].at = step
         /\ trace'[Len(trace) + 1].function = f
         /\ trace'[Len(trace) + 1].rc = rc
         /\ \A k, g : Called(k, g)' <=> Called(k, g) \/ (k = step /\ g = f)
  <1> DEFINE c == [at |-> step, function |-> f, rc |-> rc]
  <1>1. c \in Call /\ trace \in Seq(Call) /\ Len(trace) \in Nat
    <2>1. step \in Nat \ {0} /\ trace \in Seq(Call)
      BY DEF HartTyped
    <2> QED BY <2>1 DEF Call
  <1>2. trace' = Append(trace, c)
    BY DEF Record
  <1>3. c.at = step /\ c.function = f /\ c.rc = rc
    OBVIOUS
  <1> HIDE DEF c
  <1>4. /\ trace' \in Seq(Call) /\ Len(trace') = Len(trace) + 1
        /\ \A i \in 1..Len(trace) : trace'[i] = trace[i]
        /\ trace'[Len(trace) + 1] = c
    BY <1>1, <1>2
  <1>5. DOMAIN trace = 1..Len(trace) /\ DOMAIN trace' = 1..(Len(trace) + 1)
    BY <1>1, <1>4
  <1>6. \A k, g : Called(k, g)' <=> Called(k, g) \/ (k = step /\ g = f)
    BY <1>1, <1>3, <1>4, <1>5 DEF Called
  <1> QED BY <1>1, <1>3, <1>4, <1>6

\* A call that is recorded when it is due keeps the order.
LEMMA RecordedInOrder ==
  ASSUME HartTyped, CallsOrdered, pc \in Functions, NEW rc \in {0, 1}, Record(pc, rc)
  PROVE  /\ \A i, j \in 1..Len(trace') : i < j => Before(trace'[i], trace'[j])
         /\ \A i \in 1..Len(trace') :
               /\ trace'[i].at <= step
               /\ trace'[i].at = step => Rank[trace'[i].function] <= Rank[pc]
  <1>1. /\ Len(trace') = Len(trace) + 1 /\ Len(trace) \in Nat
        /\ \A i \in 1..Len(trace) : trace'[i] = trace[i]
        /\ trace'[Len(trace) + 1].at = step /\ trace'[Len(trace) + 1].function = pc
    BY RecordedIs
  <1>2. \A i \in 1..Len(trace) : trace[i].at \in Nat /\ Rank[trace[i].function] \in 1..4
    BY CallsTyped DEF HartTyped
  <1>3. step \in Nat /\ Rank[pc] \in 1..4
    BY RankIs DEF HartTyped
  <1>4. \A i \in 1..Len(trace) : Before(trace'[i], trace'[Len(trace) + 1])
    BY <1>1, <1>2, <1>3 DEF CallsOrdered, Before
  <1>5. \A i, j \in 1..Len(trace) : i < j => Before(trace'[i], trace'[j])
    BY <1>1 DEF CallsOrdered
  <1>6. \A i, j \in 1..Len(trace') : i < j => Before(trace'[i], trace'[j])
    BY <1>1, <1>4, <1>5
  <1>7. \A i \in 1..Len(trace') :
               /\ trace'[i].at <= step
               /\ trace'[i].at = step => Rank[trace'[i].function] <= Rank[pc]
    BY <1>1, <1>2, <1>3 DEF CallsOrdered
  <1> QED BY <1>6, <1>7

\* The harness starts on the first snippet with nothing called.
LEMMA LinksHart == PlanInv /\ HartInv /\ Link => HartInv'
  <1> SUFFICES ASSUME PlanInv, HartInv, Link PROVE HartInv'
    OBVIOUS
  <1>1. /\ pc = "compile" /\ step = 1 /\ trace = <<>> /\ code = 0
        /\ UNCHANGED <<step, trace, code, plan>>
        /\ pc' \in {"init", "end"} /\ outcome' # "main returned"
    BY DEF Link, HartInv, hartVars, Goto, Stop
  <1>2. Len(plan) \in Nat \ {0}
    <2>1. plan \in Seq(Manifest) /\ plan # <<>>
      BY <1>1 DEF PlanInv, PlanTyped
    <2> QED BY <2>1
  <1>3. trace' = <<>> /\ Len(trace') = 0 /\ trace' \in Seq(Call) /\ step' = 1 /\ code' = 0
    <2>1. trace' = <<>> /\ step' = 1 /\ code' = 0
      BY <1>1
    <2>2. <<>> \in Seq(Call) /\ Len(<<>>) = 0
      OBVIOUS
    <2> QED BY <2>1, <2>2
  <1>4. HartTyped'
    <2>1. plan' = plan
      BY <1>1
    <2> QED BY <1>2, <1>3, <2>1 DEF HartTyped
  <1>5. CASE pc' = "init"
    <2>1. CallsOrdered' /\ FailureIsLast'
      BY <1>3 DEF CallsOrdered, FailureIsLast
    <2>2. NoneLeftOut'
      <3>1. 1..(step' - 1) = {}
        BY <1>3
      <3>2. \A f \in Functions : ~(Rank[f] < Rank[pc'])
        BY <1>5, RankIs
      <3> QED BY <3>1, <3>2 DEF NoneLeftOut
    <2> QED BY <1>1, <1>4, <1>5, <2>1, <2>2
        DEF HartInv, Running
  <1>6. CASE pc' = "end"
    BY <1>1, <1>6 DEF HartInv, Functions
  <1> QED BY <1>1, <1>5, <1>6

\* A function is called when it is there; a failure goes to fini.
LEMMA CallsHart == HartInv /\ Function => HartInv'
  <1> SUFFICES ASSUME HartInv, Function PROVE HartInv'
    OBVIOUS
  <1>1. /\ pc \in DOMAIN Following /\ step' = step /\ plan' = plan /\ outcome' = outcome
        /\ pc \in Functions /\ Following[pc] \in Functions
        /\ Rank[Following[pc]] = Rank[pc] + 1 /\ Rank[pc] \in 1..3
        /\ pc # "fini" /\ pc # "end"
    BY FollowingIs, RankIs DEF Function, Goto, Following
  <1>2. HartTyped /\ CallsOrdered /\ FailureIsLast /\ NoneLeftOut /\ outcome # "main returned"
    BY <1>1 DEF HartInv, Running
  <1>3. code = 0 /\ \A i \in 1..Len(trace) : trace[i].rc = 0
    BY <1>1, <1>2 DEF FailureIsLast
  <1>4. \A f \in Functions : Rank[f] < Rank[Following[pc]] <=> Rank[f] < Rank[pc] \/ f = pc
    BY <1>1, RankIs
  <1>5. SUFFICES /\ pc' \in Functions
                 /\ HartTyped' /\ CallsOrdered' /\ FailureIsLast' /\ NoneLeftOut'
    <2>1. outcome' # "main returned" /\ (pc' \in Functions =>
             pc' \notin {"seeds", "manifests", "compile"})
      BY <1>1, <1>2 DEF Functions
    <2> QED BY <2>1 DEF HartInv, Running
  <1>6. /\ Len(trace) \in Nat /\ DOMAIN trace = 1..Len(trace)
        /\ \A i \in 1..Len(trace) : /\ trace[i].at \in Nat /\ trace[i].function \in Functions
                                    /\ Rank[trace[i].function] \in 1..4
    BY <1>2, CallsTyped DEF HartTyped
  <1>7. \A f : Called(step, f) => f \in Functions /\ Rank[f] < Rank[pc]
    BY <1>2, <1>6 DEF CallsOrdered, Called
  <1>8. CASE Has(pc)
    <2>1. PICK rc \in {0, 1} :
             /\ Record(pc, rc) /\ code' = rc
             /\ pc' = IF rc = 0 THEN Following[pc] ELSE "fini"
      BY <1>8 DEF Function, Goto
    <2>2. pc' \in Functions /\ Rank[pc'] > Rank[pc] /\ (rc # 0 => pc' = "fini")
          /\ (rc = 0 => pc' = Following[pc]) /\ Rank[pc'] \in 1..4
      BY <1>1, <2>1, RankIs DEF Functions
    <2>3. /\ trace' \in Seq(Call) /\ Len(trace') = Len(trace) + 1 /\ Len(trace) \in Nat
          /\ \A i \in 1..Len(trace) : trace'[i] = trace[i]
          /\ trace'[Len(trace) + 1].at = step /\ trace'[Len(trace) + 1].rc = rc
      BY <1>1, <1>2, <2>1, RecordedIs
    <2>4. \A k, g : Called(k, g)' <=> Called(k, g) \/ (k = step /\ g = pc)
      BY <1>1, <1>2, <2>1, RecordedIs
    <2>5. HartTyped'
      BY <1>1, <1>2, <2>1, <2>3 DEF HartTyped
    <2>6. CallsOrdered'
      <3>1. \A i \in 1..Len(trace') : Rank[trace'[i].function] \in 1..4
        BY <2>3, CallsTyped
      <3>2. /\ \A i, j \in 1..Len(trace') : i < j => Before(trace'[i], trace'[j])
            /\ \A i \in 1..Len(trace') :
                  /\ trace'[i].at <= step
                  /\ trace'[i].at = step => Rank[trace'[i].function] <= Rank[pc]
        BY <1>1, <1>2, <2>1, RecordedInOrder
      <3> QED BY <1>1, <2>2, <3>1, <3>2 DEF CallsOrdered
    <2>7. FailureIsLast'
      BY <1>1, <1>3, <2>1, <2>2, <2>3 DEF FailureIsLast
    <2>8. NoneLeftOut'
      <3>1. \A k \in 1..(step - 1) : Complete(k)'
        <4>1. \A k \in 1..(step - 1) : k # step
          <5>1. step \in Nat
            BY <1>2 DEF HartTyped
          <5> QED BY <5>1
        <4>2. ASSUME NEW k \in 1..(step - 1), NEW f \in Functions
              PROVE  Called(k, f)' <=> f \in Hooks[plan[k].id]
          <5>1. Called(k, f)' <=> Called(k, f)
            BY <2>4, <4>1, Zenon
          <5>2. Called(k, f) <=> f \in Hooks[plan[k].id]
            BY <1>2 DEF NoneLeftOut, Complete
          <5> QED BY <5>1, <5>2
        <4> QED BY <1>1, <4>2 DEF Complete
      <3>2. ASSUME code' = 0, NEW f \in Functions, Rank[f] < Rank[pc']
            PROVE  Called(step, f)' <=> f \in Hooks[plan[step].id]
        <4>1. Rank[f] < Rank[pc] \/ f = pc
          BY <1>4, <2>1, <2>2, <3>2
        <4>2. Called(step, f)' <=> Called(step, f) \/ f = pc
          BY <1>1, <2>4 DEF Called
        <4>3. Rank[f] < Rank[pc] => (Called(step, f) <=> f \in Hooks[plan[step].id])
          BY <1>2, <1>3 DEF NoneLeftOut
        <4> QED BY <1>7, <1>8, <4>1, <4>2, <4>3 DEF Has
      <3> QED BY <1>1, <3>1, <3>2 DEF NoneLeftOut, Called
    <2> QED BY <2>2, <2>5, <2>6, <2>7, <2>8
  <1>9. CASE ~Has(pc)
    <2>1. UNCHANGED <<trace, code>> /\ pc' = Following[pc]
      BY <1>9 DEF Function, Goto
    <2>2. HartTyped' /\ FailureIsLast'
      BY <1>1, <1>2, <1>3, <2>1 DEF HartTyped, FailureIsLast
    <2>3. CallsOrdered'
      <3>1. Rank[pc'] = Rank[pc] + 1
        BY <1>1, <2>1
      <3>2. /\ \A i, j \in 1..Len(trace) : i < j => Before(trace[i], trace[j])
            /\ \A i \in 1..Len(trace) :
                  /\ trace[i].at <= step
                  /\ trace[i].at = step => Rank[trace[i].function] < Rank[pc']
        <4>1. \A r \in 1..4 : r < Rank[pc] => r < Rank[pc']
          BY <1>1, <3>1
        <4> QED BY <1>2, <1>6, <4>1 DEF CallsOrdered
      <3>3. step' = step /\ trace' = trace
        BY <1>1, <2>1
      <3> QED BY <3>2, <3>3 DEF CallsOrdered, Before
    <2>4. \A k, f : Called(k, f)' <=> Called(k, f)
      BY <2>1 DEF Called
    <2>5. NoneLeftOut'
      <3>1. \A k \in 1..(step - 1) : Complete(k)'
        BY <1>1, <1>2, <2>4 DEF NoneLeftOut, Complete
      <3>2. ASSUME NEW f \in Functions, Rank[f] < Rank[pc']
            PROVE  Called(step, f)' <=> f \in Hooks[plan[step].id]
        <4>1. Rank[f] < Rank[pc] \/ f = pc
          BY <1>4, <2>1, <3>2
        <4>2. ~Called(step, pc)
          BY <1>1, <1>7
        <4>3. Rank[f] < Rank[pc] => (Called(step, f) <=> f \in Hooks[plan[step].id])
          BY <1>2, <1>3 DEF NoneLeftOut
        <4>4. Called(step, f)' <=> Called(step, f)
          BY <1>1, <2>1 DEF Called
        <4> QED BY <1>9, <4>1, <4>2, <4>3, <4>4 DEF Has
      <3> QED BY <1>1, <3>1, <3>2 DEF NoneLeftOut, Called
    <2> QED BY <1>1, <2>1, <2>2, <2>3, <2>5
  <1> QED BY <1>8, <1>9

LEMMA FiniCalls ==
  ASSUME Running, pc = "fini", code' = code,
         IF Has("fini") THEN Record("fini", 0) ELSE UNCHANGED trace
  PROVE  /\ CallsFinished'
         /\ \A i \in 1..Len(trace') : trace'[i].at <= step
         /\ \A k, f : Called(k, f)' <=> Called(k, f) \/ (k = step /\ f = "fini" /\ Has("fini"))
         /\ ~Called(step, "fini")
  <1>1. /\ HartTyped /\ CallsOrdered /\ FailureIsLast /\ pc \in Functions
        /\ Rank["fini"] = 4 /\ 0 \in {0, 1}
    BY RankIs DEF Running, Functions
  <1>2. /\ Len(trace) \in Nat /\ DOMAIN trace = 1..Len(trace) /\ trace \in Seq(Call)
    BY <1>1, CallsTyped DEF HartTyped
  <1>3. ~Called(step, "fini")
    BY <1>1, <1>2 DEF CallsOrdered, Called
  <1>4. CASE Has("fini")
    <2>1. Record("fini", 0) /\ Record(pc, 0)
      BY <1>4
    <2>2. /\ trace' \in Seq(Call) /\ Len(trace') = Len(trace) + 1
          /\ \A i \in 1..Len(trace) : trace'[i] = trace[i]
          /\ trace'[Len(trace) + 1].at = step
          /\ trace'[Len(trace) + 1].function = "fini"
          /\ trace'[Len(trace) + 1].rc = 0
      BY <1>1, <2>1, RecordedIs
    <2>3. \A k, f : Called(k, f)' <=> Called(k, f) \/ (k = step /\ f = "fini")
      BY <1>1, <2>1, RecordedIs
    <2>4. /\ \A i, j \in 1..Len(trace') : i < j => Before(trace'[i], trace'[j])
          /\ \A i \in 1..Len(trace') : trace'[i].at <= step
      BY <1>1, <2>1, RecordedInOrder
    <2>5. code # 0 => \E i \in 1..Len(trace') : trace'[i].rc = code
      <3>1. code # 0 => \E i \in 1..Len(trace) : trace[i].rc = code
        BY <1>1 DEF FailureIsLast
      <3>2. \A i \in 1..Len(trace) : i \in 1..Len(trace')
        BY <1>2, <2>2
      <3> QED BY <2>2, <3>1, <3>2
    <2>6. ASSUME NEW i \in 1..Len(trace'), trace'[i].rc # 0
          PROVE  code = trace'[i].rc /\ i = Len(trace) /\ trace'[i].at = step
      <3>1. i \in 1..Len(trace) \/ i = Len(trace) + 1
        BY <1>2, <2>2
      <3>2. i \in 1..Len(trace) /\ trace'[i] = trace[i]
        BY <2>2, <2>6, <3>1
      <3> QED BY <1>1, <2>6, <3>2 DEF FailureIsLast
    <2>7. \A j \in (Len(trace) + 1)..Len(trace') : j = Len(trace) + 1
      BY <1>2, <2>2
    <2>8. CallsFinished'
      BY <2>2, <2>4, <2>5, <2>6, <2>7 DEF CallsFinished
    <2> QED BY <1>3, <1>4, <2>3, <2>4, <2>8
  <1>5. CASE ~Has("fini")
    <2>1. trace' = trace
      BY <1>5
    <2>2. \A j \in (Len(trace) + 1)..Len(trace) : FALSE
      BY <1>2
    <2>3. CallsFinished
      BY <1>1, <1>2, <2>2 DEF CallsFinished, CallsOrdered, FailureIsLast
    <2>4. CallsFinished'
      BY <2>1, <2>3 DEF CallsFinished, Before
    <2>5. \A k, f : Called(k, f)' <=> Called(k, f)
      BY <2>1 DEF Called
    <2>6. \A i \in 1..Len(trace') : trace'[i].at <= step
      BY <1>1, <2>1 DEF CallsOrdered
    <2> QED BY <1>3, <1>5, <2>4, <2>5, <2>6
  <1> QED BY <1>4, <1>5

\* fini is called when it is there; main goes on or returns.
LEMMA FinishesHart == PlanInv /\ HartInv /\ Fini => HartInv'
  <1> SUFFICES ASSUME PlanInv, HartInv, Fini PROVE HartInv'
    OBVIOUS
  <1>1. /\ pc = "fini" /\ code' = code /\ plan' = plan /\ suite' = suite
        /\ IF Has("fini") THEN Record("fini", 0) ELSE UNCHANGED trace
    BY FiniIs DEF CallFini, Unfinished, inputs, files
  <1>2. Running /\ outcome # "main returned"
    BY <1>1 DEF HartInv, Functions
  <1>3. /\ CallsFinished'
        /\ \A i \in 1..Len(trace') : trace'[i].at <= step
        /\ \A k, f : Called(k, f)' <=> Called(k, f) \/ (k = step /\ f = "fini" /\ Has("fini"))
        /\ ~Called(step, "fini")
    BY <1>1, <1>2, FiniCalls
  <1>4. /\ step \in Nat \ {0} /\ step <= Len(plan) /\ code \in {0, 1}
        /\ FailureIsLast /\ NoneLeftOut
    BY <1>2 DEF Running, HartTyped
  <1>5. /\ Len(trace') \in Nat /\ DOMAIN trace' = 1..Len(trace')
        /\ \A i \in 1..Len(trace') :
              /\ trace'[i].at \in Nat /\ trace'[i].function \in Functions
              /\ Rank[trace'[i].function] \in 1..4
    BY <1>3, CallsTyped DEF CallsFinished
  <1>6. ASSUME NEW k \in 1..step, k < step \/ code = 0, NEW f \in Functions
        PROVE  Called(k, f)' <=> f \in Hooks[plan[k].id]
    <2>1. CASE k < step
      <3>1. k # step /\ k \in 1..(step - 1)
        BY <1>4, <2>1
      <3>2. Called(k, f)' <=> Called(k, f)
        BY <1>3, <3>1, Zenon
      <3> QED BY <1>4, <3>1, <3>2 DEF NoneLeftOut, Complete
    <2>2. CASE k = step /\ code = 0
      <3>1. f # "fini" => (Called(step, f) <=> f \in Hooks[plan[step].id])
        <4>1. f # "fini" => Rank[f] < Rank[pc]
          BY <1>1, RankIs
        <4> QED BY <1>4, <2>2, <4>1 DEF NoneLeftOut
      <3>2. Called(k, f)' <=> Called(k, f) \/ (f = "fini" /\ Has("fini"))
        BY <1>3, <2>2
      <3>3. Called(k, f) <=> Called(step, f)
        BY <2>2 DEF Called
      <3> QED BY <1>3, <2>2, <3>1, <3>2, <3>3 DEF Has
    <2> QED BY <1>4, <1>6, <2>1, <2>2
  <1>7. CASE code # 0 \/ step = Len(plan)
    <2>1. pc' = "end" /\ outcome' = "main returned" /\ step' = step
      BY <1>7, FiniIs DEF Stop
    <2>2. plan' # <<>>
      BY <1>1 DEF PlanInv, PlanTyped, Functions
    <2>3. ASSUME NEW k \in 1..step, "fini" \in Hooks[plan[k].id]
          PROVE  Called(k, "fini")'
      <3>1. CASE k = step
        BY <1>3, <2>3, <3>1 DEF Has
      <3>2. CASE k # step
        BY <1>4, <1>6, <2>3, <3>2 DEF Functions
      <3> QED BY <3>1, <3>2
    <2>4. code = 0 => step = Len(plan) /\ \A k \in 1..step : Complete(k)'
      BY <1>1, <1>6, <1>7 DEF Complete
    <2>5. Ended'
      BY <1>1, <1>3, <2>1, <2>2, <2>3, <2>4 DEF Ended
    <2> QED BY <2>1, <2>5 DEF HartInv, Functions
  <1>8. CASE ~(code # 0 \/ step = Len(plan))
    <2>1. pc' = "init" /\ outcome' = outcome /\ step' = step + 1
      BY <1>8, FiniIs DEF Goto
    <2>2. HartTyped'
      BY <1>1, <1>3, <1>4, <1>8, <2>1 DEF HartTyped, CallsFinished
    <2>3. CallsOrdered'
      <3>1. \A i \in 1..Len(trace') : trace'[i].at <= step' /\ trace'[i].at # step'
        BY <1>3, <1>4, <1>5, <2>1
      <3>2. \A i, j \in 1..Len(trace') : i < j => Before(trace'[i], trace'[j])
        BY <1>3 DEF CallsFinished
      <3> QED BY <3>1, <3>2 DEF CallsOrdered
    <2>4. FailureIsLast'
      <3>1. \A i \in 1..Len(trace') : trace'[i].rc = 0
        BY <1>1, <1>3, <1>8 DEF CallsFinished
      <3> QED BY <1>1, <1>8, <3>1 DEF FailureIsLast
    <2>5. NoneLeftOut'
      <3>1. \A k \in 1..(step' - 1) : Complete(k)'
        <4>1. 1..(step' - 1) = 1..step
          BY <1>4, <2>1
        <4> QED BY <1>1, <1>6, <1>8, <4>1 DEF Complete
      <3>2. \A f \in Functions : ~(Rank[f] < Rank[pc'])
        BY <2>1, RankIs
      <3> QED BY <3>1, <3>2 DEF NoneLeftOut
    <2> QED BY <1>2, <2>1, <2>2, <2>3, <2>4, <2>5
        DEF HartInv, Running
  <1> QED BY <1>7, <1>8

\* Before the harness runs, and after main has returned, nothing is called.
LEMMA OthersHart ==
  ASSUME HartInv,
         \/ ReadSeeds \/ LoadManifest \/ ListSnippets \/ BuildPlan \/ CompileSource
         \/ UNCHANGED vars
  PROVE  HartInv'
  <1>1. CASE UNCHANGED vars
    <2>1. /\ suite' = suite /\ pc' = pc /\ plan' = plan /\ step' = step
          /\ trace' = trace /\ code' = code /\ outcome' = outcome
      BY <1>1 DEF vars, inputs, files, hartVars
    <2>2. Running => Running'
      BY <2>1 DEF Running, HartTyped, CallsOrdered, FailureIsLast, NoneLeftOut, Complete,
         Called, Before
    <2>3. Ended => Ended'
      BY <2>1 DEF Ended, CallsFinished, Complete, Called, Before
    <2> QED BY <2>1, <2>2, <2>3 DEF HartInv
  <1>2. CASE ReadSeeds \/ LoadManifest \/ ListSnippets \/ BuildPlan \/ CompileSource
    <2>1. /\ UNCHANGED <<step, trace, code>>
          /\ pc \in {"seeds", "manifests", "compile"}
      BY <1>2 DEF ReadSeeds, LoadManifest, ListSnippets, BuildPlan, CompileSource, hartVars
    <2>2. outcome # "main returned"
      BY <2>1 DEF HartInv
    <2>3. pc' \in {"seeds", "manifests", "compile", "end"} /\ outcome' # "main returned"
      BY <1>2, <2>2
         DEF ReadSeeds, LoadManifest, ListSnippets, BuildPlan, CompileSource, Goto, Stop
    <2> QED BY <2>1, <2>3
        DEF HartInv, Functions
  <1> QED BY <1>1, <1>2

LEMMA HartInvariant == Spec => []HartInv
  <1>1. PlanInv /\ HartInv /\ [Next]_vars => HartInv'
    BY LinksHart, CallsHart, FinishesHart, OthersHart DEF Next
  <1> QED BY InitHartInv, PlanInvariant, <1>1, PTL DEF Spec

\* When main has returned, a snippet's fini was called once, after its others.
LEMMA EndedFini == Ended => FiniOncePerSnippet
  <1> SUFFICES ASSUME Ended, NEW k \in 1..step, "fini" \in Hooks[plan[k].id]
               PROVE  \E i \in DOMAIN trace :
                         /\ trace[i].at = k /\ trace[i].function = "fini"
                         /\ \A j \in DOMAIN trace : trace[j].at = k /\ i # j =>
                               j < i /\ trace[j].function # "fini"
    BY DEF FiniOncePerSnippet
  <1>1. /\ DOMAIN trace = 1..Len(trace) /\ Len(trace) \in Nat
        /\ \A i \in 1..Len(trace) :
              trace[i].at \in Nat /\ Rank[trace[i].function] \in 1..4
    BY CallsTyped DEF Ended, CallsFinished
  <1>2. PICK i \in DOMAIN trace : trace[i].at = k /\ trace[i].function = "fini"
    BY DEF Ended, Called
  <1>3. ASSUME NEW j \in DOMAIN trace, trace[j].at = k, i # j
        PROVE  j < i /\ trace[j].function # "fini"
    <2>1. i < j => Before(trace[i], trace[j])
      BY <1>1 DEF Ended, CallsFinished
    <2>2. j < i => Before(trace[j], trace[i])
      BY <1>1 DEF Ended, CallsFinished
    <2>3. Rank[trace[i].function] = 4 /\ Rank[trace[j].function] \in 1..4
      BY <1>1, <1>2, RankIs
    <2>4. trace[i].at = trace[j].at /\ trace[j].at \in Nat
      BY <1>1, <1>2, <1>3
    <2>5. ~(i < j)
      BY <2>1, <2>3, <2>4 DEF Before
    <2>6. j < i
      BY <1>1, <1>3, <2>5
    <2>7. Rank[trace[j].function] # 4
      BY <2>2, <2>3, <2>4, <2>6 DEF Before
    <2> QED BY <2>6, <2>7, RankIs
  <1> QED BY <1>2, <1>3

\* The plan has a position for each one of the suite.
LEMMA EndedEvidence == PlanInv /\ Ended => CodeIsTheEvidence
  <1> SUFFICES ASSUME PlanInv, Ended PROVE CodeIsTheEvidence
    OBVIOUS
  <1>1. Len(plan) = Len(suite.snippets)
    <2>1. plan \in Seq(Manifest) /\ suite.snippets \in Seq(Snippets)
      BY DEF PlanInv, PlanTyped, FilesTyped, Suite
    <2>2. [i \in DOMAIN plan |-> plan[i].id] = suite.snippets
      BY DEF PlanInv, PlanIsTheSuite, Ended
    <2>3. DOMAIN plan = DOMAIN suite.snippets
      BY <2>2
    <2> QED BY <2>1, <2>3
  <1>2. DOMAIN trace = 1..Len(trace)
    BY CallsTyped DEF Ended, CallsFinished
  <1>3. code = 0 => /\ step = Len(suite.snippets)
                    /\ \A k \in 1..step : \A function \in Functions :
                          Called(k, function) <=> function \in Hooks[plan[k].id]
    BY <1>1 DEF Ended, Complete
  <1> QED BY <1>2, <1>3 DEF CodeIsTheEvidence, Ended, CallsFinished

\* However long the suite and wherever it fails, a snippet that was started
\* has its fini called once, last.
THEOREM FiniOnce == Spec => []FiniOncePerSnippet
  <1>1. HartInv => FiniOncePerSnippet
    BY EndedFini DEF HartInv, FiniOncePerSnippet
  <1> QED BY HartInvariant, <1>1, PTL

\* However long the suite, what main returns is what the calls show.
THEOREM CodeEvident == Spec => []CodeIsTheEvidence
  <1>1. PlanInv /\ HartInv => CodeIsTheEvidence
    BY EndedEvidence DEF HartInv, CodeIsTheEvidence
  <1> QED BY PlanInvariant, HartInvariant, <1>1, PTL
=============================================================================
