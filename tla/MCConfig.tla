------------------------------ MODULE MCConfig ------------------------------
(* Instances of module Config for TLC: one sweeps over everything that can   *)
(* be said about targets, one over what else a test may say, and one over    *)
(* what else the main parts of two files and a test of the second may say.   *)
EXTENDS Config

CONSTANT Other

SomeTargets == TargetsKeyword \cup {NONE}

\* include and exclude of the other target do not matter to This.
FewTargets ==
    {NONE} \cup [value : {NONE, {This}, {Other}}, include : {{}, {This}}, exclude : {{}, {This}}]

PlainTest(t) ==
    [name |-> TRUE, targets |-> t, nightly |-> NONE, ignore |-> NONE, reboot |-> NONE,
     apps |-> {}, blobs |-> <<>>, cmd |-> "execute", type |-> "unity", harness |-> NONE,
     script |-> FALSE]

PlainMain(t) == [targets |-> t, type |-> NONE, harness |-> NONE, ignore |-> NONE, nightly |-> NONE]

\* Two files: the first one leaves a main part with or without targets behind.
TargetFiles ==
    {<<[main |-> PlainMain(m0), tests |-> <<>>], [main |-> PlainMain(m), tests |-> <<PlainTest(t)>>]>> :
          m0 \in {t \in FewTargets : t # NONE => t.value # NONE /\ t.include = {}},
          m \in SomeTargets, t \in FewTargets}

OneFile ==
    {<<[main |-> PlainMain(m), tests |-> <<PlainTest(t)>>]>> : m \in FewTargets, t \in FewTargets}

OtherTests ==
    [name : {TRUE}, targets : {NONE}, nightly : {NONE, TRUE}, ignore : {NONE, TRUE},
     reboot : {NONE}, apps : {{}, {BIN}}, blobs : {<<>>, <<"a", "a">>},
     cmd : {NONE, "execute", "run", "empty"}, type : {NONE, "pytest", "bad"},
     harness : {NONE, "h.py"}, script : BOOLEAN]

OtherMains ==
    [targets : {NONE}, type : {NONE, "unity"}, harness : {NONE, "main.py"},
     ignore : {NONE, TRUE}, nightly : {NONE, TRUE}]

FullMain ==
    [targets |-> NONE, type |-> "unity", harness |-> "main.py", ignore |-> TRUE, nightly |-> TRUE]

Nameless == [PlainTest(NONE) EXCEPT !.name = FALSE]

OptionFiles ==
    {<<[main |-> m, tests |-> <<t>>]>> : m \in OtherMains, t \in OtherTests \cup {Nameless}}

\* The tests that leave it to the main part, or do not.
InheritingTests ==
    {[PlainTest(NONE) EXCEPT !.nightly = n, !.ignore = i, !.type = y, !.harness = h] :
          n \in {NONE, TRUE, FALSE}, i \in {NONE, TRUE, FALSE}, y \in {NONE, "unity", "harness"},
          h \in {NONE, "h.py"}}

\* The first file leaves nothing, or as much as it can, behind.
TwoFiles ==
    {<<[main |-> m0, tests |-> <<PlainTest(NONE)>>], [main |-> m, tests |-> <<t, PlainTest(NONE)>>]>> :
          m0 \in {PlainMain(NONE), FullMain}, m \in OtherMains, t \in InheritingTests}

AllFiles == TargetFiles \cup OptionFiles \cup TwoFiles

=============================================================================
