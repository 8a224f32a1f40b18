---------------------------- MODULE MCComposition ----------------------------
(***************************************************************************)
(* Composition over directories of up to two manifests and suites of up to *)
(* two snippets: ids may collide, be missing or be repeated, manifests and *)
(* suites may be defective, and sources may be shared, be the runtime's or *)
(* define no descriptor, or one that another file also defines.  The seeds *)
(* of run come from up to three pieces, each no integer, negative, or one  *)
(* of several spellings of an integer.  One snippet has every hook.        *)
(***************************************************************************)
EXTENDS Composition

SomeIntOf ==
    "-1" :> -1 @@ "0" :> 0 @@ "00" :> 0 @@ "1" :> 1 @@ "6" :> 6 @@ "7" :> 7 @@
    "07" :> 7 @@ " 7" :> 7 @@ "9" :> 9 @@ "" :> NotAnInteger @@ "x" :> NotAnInteger

SomeTexts == DOMAIN SomeIntOf

UpToThree == UNION {[1..n -> SomeTexts] : n \in 1..3}

SomeArguments ==
    [form : {"seed"}, parts : [1..1 -> SomeTexts]] \cup
    [form : {"seeds", "range"}, parts : UpToThree]

SomeSnippets == {"arm", "load", "gone"}

SomeManifests ==
    [valid : BOOLEAN, id : {"arm", "load"},
     sources : {<<"arm.c">>, <<"load.c">>, <<"load.c", "arm.c">>, <<"copy.c">>,
                <<"env.c">>}]

UpToTwoManifests == {<<>>} \cup [1..1 -> SomeManifests] \cup [1..2 -> SomeManifests]

UpToTwoSnippets ==
    [valid : BOOLEAN, snippets : [1..1 -> SomeSnippets] \cup [1..2 -> SomeSnippets]]

Zero == [form |-> "seed", parts |-> <<"0">>]
OneManifest == <<[valid |-> TRUE, id |-> "arm", sources |-> <<"arm.c">>]>>
OneSnippet == [valid |-> TRUE, snippets |-> <<"arm">>]

\* Bound: run is asked with every argument for one suite, and with one
\* argument for every directory and suite; the arguments and the files do not
\* meet before the harness.
SomeInvocations ==
    [command : Commands, arg : {Zero}, jobs : {TRUE},
     dir : UpToTwoManifests, suite : UpToTwoSnippets] \cup
    [command : {"run"}, arg : SomeArguments, jobs : BOOLEAN,
     dir : {OneManifest}, suite : {OneSnippet}]

OneRuntimeSource == <<"env.c">>

SomeDefines ==
    [f \in {"env.c", "arm.c", "load.c", "copy.c"} |->
        CASE f = "env.c" -> {} [] f = "load.c" -> {"load"} [] OTHER -> {"arm"}]

SomeHooks ==
    [arm |-> {"init", "run", "check", "fini"}, load |-> {"run", "check"}, gone |-> {}]
=============================================================================
