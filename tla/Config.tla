------------------------------- MODULE Config -------------------------------
(***************************************************************************)
(* From yaml files to test options: TestRunner.parse_tests and the         *)
(* ConfigParser (trunner/config.py), which is used for one file after      *)
(* another.  A file has a main part and tests; the tests inherit some of   *)
(* the main part.  NONE stands for a keyword that is not there.  Names,    *)
(* paths and commands are abstracted: a test executes the binary BIN, runs *)
(* a shell command, gives an empty command, or does none of it.            *)
(***************************************************************************)
EXTENDS Naturals, Sequences

CONSTANTS
    NONE,
    Targets,    \* names of targets
    This,       \* name of the target the tests are parsed for
    BIN,        \* the binary that a test executes
    Files       \* the sequences of yaml files that may be given

\* "targets" of a main part or a test: value, include, exclude.
TargetsKeyword ==
    [value : {NONE} \cup SUBSET Targets, include : SUBSET Targets, exclude : SUBSET Targets]

\* The yaml files are lists of tests, and the targets they name are targets.
ASSUME FilesAssumption ==
    /\ This \in Targets
    /\ \A S \in SUBSET Targets : S # NONE
    /\ \A fs \in Files :
          /\ Len(fs) \in Nat
          /\ \A i \in 1 .. Len(fs) :
                /\ fs[i].main.targets \in {NONE} \cup TargetsKeyword
                /\ Len(fs[i].tests) \in Nat
                /\ \A j \in 1 .. Len(fs[i].tests) :
                      fs[i].tests[j].targets \in {NONE} \cup TargetsKeyword

VARIABLES
    target,     \* the attributes rootfs and experimental of the target
    nightly,    \* ctx.nightly
    files,
    f, k,       \* file and test that are parsed next
    main,       \* self.main, and the harness of self.raw_main
    res,        \* the options of the tests that were taken
    pc

vars == <<target, nightly, files, f, k, main, res, pc>>
given == <<target, nightly, files>>

\* config.get(key, default)
Get(v, default) == IF v = NONE THEN default ELSE v

\* MainConfig(): None and the empty set of targets are both falsy.
MainConfig == [targets |-> {}, type |-> NONE, harness |-> NONE, ignore |-> FALSE, nightly |-> FALSE]

Init ==
    /\ target \in [rootfs : BOOLEAN, experimental : BOOLEAN]
    /\ nightly \in BOOLEAN
    /\ files \in Files
    /\ f = 1
    /\ k = 0
    /\ main = MainConfig
    /\ res = <<>>
    /\ pc = "parse"

-----------------------------------------------------------------------------
Default == IF target.experimental THEN {} ELSE {This}

BuildTargets(t) == (Get(t.value, Default) \cup t.include) \ t.exclude

\* Mutant: what a test excludes is forgotten if it inherits its targets.
ParseTargetsInherit(m, t) == IF t # NONE /\ t.value # NONE THEN BuildTargets(t) ELSE m.targets

\* _parse_targets under the main part m, up to the test for the target's name.
ParseTargets(m, t) ==
    IF t = NONE THEN IF m.targets = {} THEN Default ELSE m.targets
    ELSE IF m.targets = {} \/ t.value # NONE THEN BuildTargets(t)
    ELSE BuildTargets([t EXCEPT !.value = m.targets])

\* The applications of _parse_load: without a root file system the binary that
\* the test executes is one of them.
ParseLoad(c) ==
    c.apps \cup (IF c.cmd = "execute" /\ ~target.rootfs THEN {BIN} ELSE {})

\* A duplicate name among the files to load is a ParserError.
UniqueNames(c) == \A a, b \in 1 .. Len(c.blobs) : c.blobs[a] = c.blobs[b] => a = b

\* _parse_shell_command: an empty command is a ParserError, and a command to run
\* is a ValueError, as the path of its missing binary is not below "/".
ParseShellCommand(c) == c.cmd \in {NONE, "execute"}

\* _parse_type finds the harness it needs.
ParseType(m, c) ==
    CASE Get(c.type, m.type) \in {NONE, "harness"} -> Get(c.harness, m.harness) # NONE
      [] Get(c.type, m.type) = "unity" -> TRUE
      [] Get(c.type, m.type) = "pytest" -> c.script
      [] OTHER -> FALSE

Ignored(m, c) == Get(c.ignore, m.ignore)

Taken(m, c) ==
    /\ This \in ParseTargets(m, c.targets)
    /\ ~(Get(c.nightly, m.nightly) /\ ~nightly)

\* _parse_config goes through without an exception.
Accepted(m, c) ==
    /\ c.name
    /\ Taken(m, c) /\ ~Ignored(m, c) => ParseShellCommand(c) /\ UniqueNames(c) /\ ParseType(m, c)

\* The TestOptions of a test that is taken; an ignored test has no more than
\* its name.
TestOptions(m, c, of) ==
    IF Ignored(m, c)
    THEN [of |-> of, ignore |-> TRUE, reboot |-> FALSE, apps |-> {}, blobs |-> <<>>, cmd |-> FALSE,
          harness |-> NONE]
    ELSE [of |-> of, ignore |-> FALSE, reboot |-> Get(c.reboot, FALSE), apps |-> ParseLoad(c),
          blobs |-> c.blobs, cmd |-> c.cmd # NONE,
          harness |-> IF Get(c.type, m.type) \in {NONE, "harness"} THEN Get(c.harness, m.harness)
                      ELSE Get(c.type, m.type)]

\* What _preprocess_main_config makes of a main part.
Preprocessed(m) ==
    [targets |-> IF m.targets = NONE THEN {} ELSE BuildTargets(m.targets),
     type |-> m.type, harness |-> m.harness,
     ignore |-> Get(m.ignore, FALSE), nightly |-> Get(m.nightly, FALSE)]

-----------------------------------------------------------------------------
\* Mutant: the targets that a main part does not give are kept from the last file.
PreprocessMainConfigKeeps ==
    /\ pc = "parse"
    /\ f <= Len(files)
    /\ k = 0
    /\ LET m == files[f].main IN
       main' = [Preprocessed(m) EXCEPT !.targets = IF m.targets = NONE THEN main.targets ELSE @]
    /\ k' = 1
    /\ UNCHANGED <<given, f, res, pc>>

\* Mutant: raw_main is brought up to date instead of replaced.
PreprocessMainConfigUpdates ==
    /\ pc = "parse"
    /\ f <= Len(files)
    /\ k = 0
    /\ main' = [Preprocessed(files[f].main) EXCEPT !.harness = Get(@, main.harness)]
    /\ k' = 1
    /\ UNCHANGED <<given, f, res, pc>>

\* parse, first half: _preprocess_main_config.
PreprocessMainConfig ==
    /\ pc = "parse"
    /\ f <= Len(files)
    /\ k = 0
    /\ main' = Preprocessed(files[f].main)
    /\ k' = 1
    /\ UNCHANGED <<given, f, res, pc>>

\* _parse_config of the next test; an exception ends the campaign before it has
\* begun.
ParseConfig ==
    /\ pc = "parse"
    /\ f <= Len(files)
    /\ k > 0
    /\ k <= Len(files[f].tests)
    /\ LET c == files[f].tests[k] IN
       IF Accepted(main, c)
       THEN /\ res' = IF Taken(main, c) THEN Append(res, TestOptions(main, c, <<f, k>>)) ELSE res
            /\ k' = k + 1
            /\ UNCHANGED pc
       ELSE pc' = "error" /\ UNCHANGED <<res, k>>
    /\ UNCHANGED <<given, f, main>>

NextFile ==
    /\ pc = "parse"
    /\ f <= Len(files)
    /\ k > Len(files[f].tests)
    /\ f' = f + 1
    /\ k' = 0
    /\ UNCHANGED <<given, main, res, pc>>

Parsed ==
    /\ pc = "parse"
    /\ f > Len(files)
    /\ pc' = "done"
    /\ UNCHANGED <<given, f, k, main, res>>

Over == pc \in {"done", "error"} /\ UNCHANGED vars

Next == PreprocessMainConfig \/ ParseConfig \/ NextFile \/ Parsed \/ Over

Spec == Init /\ [][Next]_vars

-----------------------------------------------------------------------------
(***************************************************************************)
(* Properties.                                                             *)
(***************************************************************************)
FileOf(r) == files[r.of[1]].main

TestOf(r) == files[r.of[1]].tests[r.of[2]]

\* What the keywords mean: value sets, include adds, exclude removes, the main
\* part first and then the test.
Meaning(t, base) == IF t = NONE THEN base ELSE (Get(t.value, base) \cup t.include) \ t.exclude

MeantFor(r) == This \in Meaning(TestOf(r).targets, Meaning(FileOf(r).targets, Default))

Names(t) == IF t = NONE THEN {} ELSE Get(t.value, {}) \cup t.include

\* An experimental target "must be explcitly specified in yaml config" (base.py): a test is taken
\* for an experimental target only if the file it is in names the target, in the
\* main part or in the test, whatever other files of the campaign say.
ExperimentalIsExplicit ==
    target.experimental =>
        \A n \in 1 .. Len(res) :
            This \in Names(FileOf(res[n]).targets) \cup Names(TestOf(res[n]).targets)

\* Inheritance of the targets: what is taken is meant for this target, unless
\* the main part leaves no target at all.
TakenAsMeant ==
    \A n \in 1 .. Len(res) :
        Meaning(FileOf(res[n]).targets, Default) # {} => MeantFor(res[n])

\* The place of a test among the files.
Before(a, b) == a[1] < b[1] \/ (a[1] = b[1] /\ a[2] < b[2])

\* What a parser that has read no other file makes of the main part of file i.
Alone(i) == Preprocessed(files[i].main)

\* One parser reads all the files and holds the main part of the last one, yet
\* every test fares as if its file were the only one: it is refused, left out or
\* taken, and with the same options; and what is taken is taken once and in the
\* order of the files.
AsIfAlone ==
    /\ \A n \in 1 .. Len(res) :
          LET of == res[n].of IN
          /\ Taken(Alone(of[1]), TestOf(res[n]))
          /\ res[n] = TestOptions(Alone(of[1]), TestOf(res[n]), of)
          /\ \A m \in 1 .. n - 1 : Before(res[m].of, of)
    /\ pc = "done" =>
          \A i \in 1 .. Len(files) : \A j \in 1 .. Len(files[i].tests) :
              /\ Accepted(Alone(i), files[i].tests[j])
              /\ Taken(Alone(i), files[i].tests[j]) => \E n \in 1 .. Len(res) : res[n].of = <<i, j>>
    /\ pc = "error" => ~Accepted(Alone(f), files[f].tests[k])

\* "`excludes` keyword removes parameter": no test is taken for a target that the
\* file excludes.  If the main part excludes the only candidate, the set it
\* leaves is empty, which _parse_targets takes for a main part without targets.
ExcludedIsLeftOut == \A n \in 1 .. Len(res) : MeantFor(res[n])

=============================================================================
