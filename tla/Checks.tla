------------------------------- MODULE Checks -------------------------------
(* Project checks (src/typescript/src/checks): the registry each app keeps   *)
(* of them, the runs that select, order and execute them, and the built-in   *)
(* coverage check with the files it shares with every other process.         *)
(*                                                                           *)
(* Each process has one app.  Its runs overlap where a check's function is   *)
(* awaited; between two awaits the thread belongs to one run (the holder).   *)
(* A check is a number, in the order sort() gives the names.                 *)
EXTENDS Naturals, SequencesExt

CONSTANTS
    Procs,         \* processes
    Runs,          \* slots for runs of checks
    Apps,          \* apps: the checks they declare and provide in each cwd
    Requests,      \* what a run is asked for
    Commands,      \* command paths of the app
    Consequential, \* those call() refuses without a consent
    Manifests,     \* manifests that may be committed
    MaxRuns,       \* runs begun in all
    MaxEvents      \* commands dispatched, directory changes, resets and crashes

VARIABLES
    app,       \* the app of every process
    proc,      \* cwd, registry, its memo and thread of each process
    run,       \* the runs
    manifest,  \* the coverage manifest: absent, cut short, or whole
    shards,    \* commands in the shard files of all processes
    exercised, \* commands dispatched by test() and call(), or committed: history
    begun,     \* runs begun
    events     \* events so far

checkVars == <<app, proc, run, manifest, shards, exercised, begun, events>>

ASSUME ConsequentialAssumption == Consequential \subseteq Commands
\* A definition: severity, pure (and without the network), deps and what its
\* function may come to.  That of a check of severity warn cannot report errors.
Definitions(names) ==
    {def \in [severity : {"error", "warn"}, pure : BOOLEAN, deps : Seq(names),
              outcomes : SUBSET {"pass", "fail", "warn", "skip", "throws"}] :
        def.severity = "warn" => "fail" \notin def.outcomes}

\* names holds every check that is declared, provided or depended upon;
\* provided[cwd] lists what the providers return there, specs[cwd] defines it.
ASSUME AppsAssumption ==
    \A a \in Apps :
        /\ a.names \subseteq Nat /\ IsFiniteSet(a.names)
        /\ DOMAIN a.declared \subseteq a.names
        /\ \A c \in DOMAIN a.declared : a.declared[c] \in Definitions(a.names)
        /\ \A cwd \in DOMAIN a.provided :
                /\ a.provided[cwd] \in Seq(a.names \cup {0}) \* Broken
                /\ \A c \in ToSet(a.provided[cwd]) \ {0} :
                        a.specs[cwd][c] \in Definitions(a.names)

None == "none"
Throws == "throws"
Nowhere == 0  \* no directory
Broken == 0   \* in a list of provided checks: here a provider throws
Coverage == 9 \* cli-test-coverage

AbsentManifest == [state |-> "absent", names |-> {}]
CutManifest == [state |-> "cut", names |-> {}]
Manifest(names) == [state |-> "whole", names |-> names]

-----------------------------------------------------------------------------
(* The registry.                                                             *)

Cwds == DOMAIN app.provided
ProvidedIn(cwd) == ToSet(app.provided[cwd]) \ {Broken}

\* What the providers add in a directory, in order, up to a provider that throws
\* or a spec with the name of a check that is already there.
Adds(cwd) ==
    LET specs == app.provided[cwd]
        bad == {i \in DOMAIN specs :
                \/ specs[i] = Broken \/ specs[i] \in DOMAIN app.declared
                \/ \E j \in 1..(i - 1) : specs[j] = specs[i]}
        added == {i \in DOMAIN specs : \A j \in bad : i < j}
    IN  [names |-> {specs[i] : i \in added}, threw |-> bad # {}]

\* The registry with the declared checks and `names`, as `cwd` provides them.
Registered(names, cwd) ==
    [c \in DOMAIN app.declared \cup names |->
        IF c \in DOMAIN app.declared THEN app.declared[c] ELSE app.specs[cwd][c]]

\* dropProviderSourcedDefs()
Dropped(process) == [process EXCEPT !.defs = app.declared]

\* materializeCheckProviders(): memoized on the directory.  When a provider
\* throws, the definitions of the last directory are gone and its memo stays.
Materialize(process) ==
    IF process.memo = process.cwd THEN [process |-> process, threw |-> FALSE]
    ELSE LET added == Adds(process.cwd)
             fresh == [process EXCEPT !.defs = Registered(added.names, process.cwd)]
         IN  [process |-> IF added.threw THEN fresh ELSE [fresh EXCEPT !.memo = process.cwd],
              threw |-> added.threw]

-----------------------------------------------------------------------------
(* Selection, order and values.                                              *)

\* filters: the checks a tag expression, and those a name pattern, matches.
Select(names, request) ==
    IF request.all THEN names
    ELSE IF request.filters = <<>> THEN {}
    ELSE {c \in names : \A i \in DOMAIN request.filters : c \in request.filters[i]}

Deps(defs, c) == ToSet(defs[c].deps)

NeededAsSelected(defs, selected) == selected \* mutated: dependencies are not pulled in
\* The selection and everything it depends on: the least set that holds it
\* and, with a check, all that this depends on.
Needed(defs, selected) ==
    LET closed == {S \in SUBSET app.names :
                    selected \subseteq S /\ \A c \in S \cap DOMAIN defs : Deps(defs, c) \subseteq S}
    IN  {c \in app.names : \A S \in closed : c \in S}

\* The i-th is the one with i - 1 before it.
Sorted(checks) ==
    [i \in 1..Cardinality(checks) |->
        CHOOSE c \in checks : Cardinality({e \in checks : e < c}) = i - 1]

\* Kahn's algorithm: the checks without dependencies sorted, then each that
\* becomes ready.  A cycle leaves its checks out.
Ready(defs, checks, done) == {c \in checks : Deps(defs, c) \cap checks \subseteq done}
Placed(defs, checks, last) ==
    LET order == Append(last.order, Head(last.queue))
        fresh == Ready(defs, checks, ToSet(order)) \ (ToSet(order) \cup ToSet(last.queue))
    IN  IF last.queue = <<>> THEN last
        ELSE [queue |-> Tail(last.queue) \o Sorted(fresh), order |-> order]
Order(defs, checks) ==
    LET Place[k \in 0..Cardinality(checks)] ==
            IF k = 0 THEN [queue |-> Sorted(Ready(defs, checks, {})), order |-> <<>>]
            ELSE Placed(defs, checks, Place[k - 1])
    IN  Place[Cardinality(checks)].order

\* The value a check runs with, or the resolver's error.
ValueOf(defs, request, c) ==
    IF c \in DOMAIN request.values THEN request.values[c] ELSE defs[c].severity
ValuesOK(defs, request, checks) ==
    \A c \in checks :
        /\ ValueOf(defs, request, c) \in {"error", "warn", "off"}
        /\ ValueOf(defs, request, c) = "error" => defs[c].severity = "error"

-----------------------------------------------------------------------------
(* The processes.                                                            *)

Fresh(cwd) == [cwd |-> cwd, memo |-> Nowhere, defs |-> app.declared, holder |-> None]

NoRequest == [all |-> FALSE, filters |-> <<>>, values |-> <<>>,
              failing |-> FALSE, pure |-> FALSE]
NoRun(p) ==
    [home |-> p, at |-> "idle", request |-> NoRequest, cwd |-> Nowhere, known |-> <<>>,
     order |-> <<>>, next |-> 1, called |-> <<>>, rows |-> <<>>, failed |-> {}, listed |-> {},
     broke |-> {},
     covered |-> {}, read |-> AbsentManifest, exit |-> 0]

Free(p) == proc[p].holder = None
Happens == events < MaxEvents /\ events' = events + 1

\* test() has the consent of its caller, call() only what it was given; a
\* refused call is neither dispatched nor recorded.
ConsentedAnyway(c, approved) == TRUE \* mutated: recorded before the consent check
Consented(c, approved) == approved \/ c \notin Consequential

Dispatch(p) ==
    /\ Free(p) /\ Happens
    /\ \E c \in Commands, approved \in BOOLEAN :
        /\ exercised' = IF approved \/ c \notin Consequential THEN exercised \cup {c} ELSE exercised
        /\ shards' = IF Consented(c, approved) THEN shards \cup {c} ELSE shards
    /\ UNCHANGED <<app, proc, run, manifest, begun>>

Chdir(p) ==
    /\ Free(p) /\ Happens
    /\ \E cwd \in Cwds \ {proc[p].cwd} : proc' = [proc EXCEPT ![p].cwd = cwd]
    /\ UNCHANGED <<app, run, manifest, shards, exercised, begun>>

\* app.resetCheckProviderCache()
Reset(p) ==
    /\ Free(p) /\ Happens
    /\ proc' = [proc EXCEPT ![p] = [Dropped(@) EXCEPT !.memo = Nowhere]]
    /\ UNCHANGED <<app, run, manifest, shards, exercised, begun>>

\* The process ends anywhere, and is started again where it was.
Crash(p) ==
    /\ Happens
    /\ proc' = [proc EXCEPT ![p] = Fresh(@.cwd)]
    /\ run' = [r \in Runs |-> IF run[r].home = p THEN NoRun(p) ELSE run[r]]
    /\ UNCHANGED <<app, manifest, shards, exercised, begun>>

-----------------------------------------------------------------------------
(* A run: runChecks(), or the check and failing-checks commands.             *)

Home(r) == run[r].home
Hold(r, holder) == [proc EXCEPT ![Home(r)].holder = holder]

\* What a run begins as: with an order, over when nothing is selected, or
\* refused, also when a check that is needed is missing.
Outset(p, made, request) ==
    LET defs == made.process.defs
        selected == Select(DOMAIN defs, request)
        checks == Needed(defs, selected)
        asked == [NoRun(p) EXCEPT !.request = request, !.known = defs, !.cwd = made.process.cwd]
        Outcome(at, exit) == [asked EXCEPT !.at = at, !.exit = exit]
    IN  IF made.threw THEN Outcome("refused", 1)
        ELSE IF selected = {} THEN Outcome("over", 0)
        ELSE IF ~(checks \subseteq DOMAIN defs) THEN Outcome("refused", 1)
        ELSE LET order == Order(defs, checks)
             IN  IF Len(order) = Cardinality(checks) /\ ValuesOK(defs, request, checks)
                 THEN [asked EXCEPT !.at = "rows", !.order = order]
                 ELSE Outcome("refused", 1)

\* Everything up to the first check is one stretch of the thread.
Begin(r) ==
    /\ run[r].at \in {"idle", "over", "refused"} /\ Free(Home(r)) /\ begun < MaxRuns
    /\ begun' = begun + 1
    /\ \E request \in Requests :
        LET made == Materialize(proc[Home(r)])
            outset == Outset(Home(r), made, request)
        IN  /\ run' = [run EXCEPT ![r] = outset]
            /\ proc' = [proc EXCEPT ![Home(r)] =
                    [made.process EXCEPT !.holder = IF outset.at = "rows" THEN r ELSE None]]
    /\ UNCHANGED <<app, manifest, shards, exercised, events>>

Turn(r) == run[r].at = "rows" /\ proc[Home(r)].holder \in {None, r}
Left(r) == run[r].next <= Len(run[r].order)
Check(r) == run[r].order[run[r].next]
Registry(r) == proc[Home(r)].defs

\* The value is the one resolved when the run began; everything else is read
\* from the definition the registry has now, which a rebuild during an await may
\* have replaced or dropped.  A check that is off cascades nothing, whatever its
\* dependencies did.
Off(r) == ValueOf(run[r].known, run[r].request, Check(r)) = "off"
Defined(r) == Check(r) \in DOMAIN Registry(r)
Blocked(r) == Deps(Registry(r), Check(r)) \cap run[r].failed # {}
Listed(r) ==
    /\ run[r].request.pure
    /\ ~Registry(r)[Check(r)].pure \/ Deps(Registry(r), Check(r)) \cap run[r].listed # {}

WithRow(state, row) ==
    LET check == state.order[state.next]
    IN  [state EXCEPT
            !.rows = [c \in DOMAIN @ \cup {check} |-> IF c = check THEN row ELSE @[c]],
            !.failed = IF row \in {"fail", "cascade"} THEN @ \cup {check} ELSE @,
            !.at = "rows", !.next = @ + 1]

PassedOver(state) == \* listed, without a row
    [state EXCEPT !.listed = @ \cup {state.order[state.next]}, !.next = @ + 1]

\* A check that does not run: off, behind a failure, or outside the purity
\* partition.
Pass(r) ==
    /\ Turn(r) /\ Left(r)
    /\ \/ Off(r) /\ run' = [run EXCEPT ![r] = WithRow(@, "off")]
       \/ ~Off(r) /\ Defined(r) /\ Blocked(r) /\ run' = [run EXCEPT ![r] = WithRow(@, "cascade")]
       \/ /\ ~Off(r) /\ Defined(r) /\ ~Blocked(r) /\ Listed(r)
          /\ run' = [run EXCEPT ![r] = PassedOver(@)]
    /\ proc' = Hold(r, r)
    /\ UNCHANGED <<app, manifest, shards, exercised, begun, events>>

\* The definition is gone: the registry was rebuilt while this run waited.
Gone(r) ==
    /\ Turn(r) /\ Left(r) /\ ~Off(r) /\ ~Defined(r)
    /\ run' = [run EXCEPT ![r].at = "refused", ![r].exit = 1]
    /\ proc' = Hold(r, None)
    /\ UNCHANGED <<app, manifest, shards, exercised, begun, events>>

WithCall(state, def) ==
    LET check == state.order[state.next]
    IN  [state EXCEPT
            !.called = [c \in DOMAIN @ \cup {check} |-> IF c = check THEN def ELSE @[c]],
            !.at = IF check = Coverage THEN "look" ELSE "awaits"]

Call(r) ==
    /\ Turn(r) /\ Left(r) /\ ~Off(r) /\ Defined(r) /\ ~Blocked(r) /\ ~Listed(r)
    /\ run' = [run EXCEPT ![r] = WithCall(@, Registry(r)[Check(r)])]
    /\ proc' = Hold(r, IF Check(r) = Coverage THEN r ELSE None)
    /\ UNCHANGED <<app, manifest, shards, exercised, begun, events>>

AbortAsResolved(r, outcome) == \* mutated: a broken check resolved to warn only warns
    IF outcome \in {"fail", Throws} /\ ValueOf(run[r].known, run[r].request, Check(r)) = "warn" THEN "warn"
    ELSE IF outcome = Throws THEN "fail" ELSE outcome
\* The row of an outcome: a value of warn lowers a failure, never an abort.
Row(r, outcome) ==
    IF outcome = Throws THEN "fail"
    ELSE IF outcome = "fail" /\ ValueOf(run[r].known, run[r].request, Check(r)) = "warn" THEN "warn"
    ELSE outcome

Settle(r) ==
    /\ run[r].at = "awaits" /\ Free(Home(r))
    /\ \E outcome \in run[r].called[Check(r)].outcomes :
        LET state == WithRow(run[r], Row(r, outcome))
        IN  run' = [run EXCEPT ![r] = IF outcome = Throws
                                      THEN [state EXCEPT !.broke = @ \cup {Check(r)}]
                                      ELSE state]
    /\ proc' = Hold(r, r)
    /\ UNCHANGED <<app, manifest, shards, exercised, begun, events>>

Bad == {"fail", "warn", "cascade"}
\* failing-checks reports the failures only, and exits by what it reports.
ExitCode(state) ==
    IF \E c \in DOMAIN state.rows :
            state.rows[c] \in (IF state.request.failing THEN {"fail"} ELSE Bad)
    THEN 1 ELSE 0

Finish(r) ==
    /\ Turn(r) /\ ~Left(r)
    /\ run' = [run EXCEPT ![r].at = "over", ![r].exit = ExitCode(run[r])]
    /\ proc' = Hold(r, None)
    /\ UNCHANGED <<app, manifest, shards, exercised, begun, events>>

-----------------------------------------------------------------------------
(* The coverage check: one stretch of its thread, not of the other processes.*)

CovReports(r, outcome) ==
    /\ run' = [run EXCEPT ![r] =
            [WithRow(@, Row(r, outcome)) EXCEPT !.covered = {}, !.read = AbsentManifest]]
    /\ proc' = Hold(r, None)

CovMoves(r, at) == run' = [run EXCEPT ![r].at = at] /\ UNCHANGED proc

\* Neither a manifest nor a shard: nothing to judge.
CovLook(r) ==
    /\ run[r].at = "look"
    /\ IF manifest = AbsentManifest /\ shards = {} THEN CovReports(r, "skip")
       ELSE CovMoves(r, IF manifest = AbsentManifest THEN "merge" ELSE "read")
    /\ UNCHANGED <<app, manifest, shards, exercised, begun, events>>

\* An unreadable manifest contributes nothing.
CovRead(r) ==
    /\ run[r].at = "read"
    /\ run' = [run EXCEPT ![r].at = "merge", ![r].covered = manifest.names, ![r].read = manifest]
    /\ UNCHANGED <<app, proc, manifest, shards, exercised, begun, events>>

CovMerge(r) ==
    /\ run[r].at = "merge"
    /\ run' = [run EXCEPT ![r].at = "compare", ![r].covered = @ \cup shards]
    /\ UNCHANGED <<app, proc, manifest, shards, exercised, begun, events>>

Verdict(r) == IF Commands \subseteq run[r].covered THEN "pass" ELSE "fail"

\* Rewritten only when its content changes; a write truncates, then fills.
CovCompare(r) ==
    /\ run[r].at = "compare"
    /\ IF run[r].covered = {} \/ manifest = Manifest(run[r].covered)
       THEN CovReports(r, Verdict(r)) /\ UNCHANGED manifest
       ELSE CovMoves(r, "fill") /\ manifest' = CutManifest
    /\ UNCHANGED <<app, shards, exercised, begun, events>>

CovFill(r) ==
    /\ run[r].at = "fill"
    /\ manifest' = Manifest(run[r].covered)
    /\ CovReports(r, Verdict(r))
    /\ UNCHANGED <<app, shards, exercised, begun, events>>

-----------------------------------------------------------------------------
ChecksInit ==
    /\ app \in Apps
    /\ \E cwd \in Cwds : proc = [p \in Procs |-> Fresh(cwd)]
    /\ \E home \in [Runs -> Procs] : run = [r \in Runs |-> NoRun(home[r])]
    /\ manifest \in Manifests
    /\ shards = {}
    /\ exercised = manifest.names
    /\ begun = 0 /\ events = 0

ChecksNext ==
    \/ \E p \in Procs : Dispatch(p) \/ Chdir(p) \/ Reset(p) \/ Crash(p)
    \/ \E r \in Runs :
        \/ Begin(r) \/ Pass(r) \/ Gone(r) \/ Call(r) \/ Settle(r) \/ Finish(r)
        \/ CovLook(r) \/ CovRead(r) \/ CovMerge(r) \/ CovCompare(r) \/ CovFill(r)

ChecksSpec == ChecksInit /\ [][ChecksNext]_checkVars

-----------------------------------------------------------------------------
(* Properties.                                                               *)

Ran(r) == {c \in DOMAIN run[r].rows : run[r].rows[c] \notin {"off", "cascade"}}

\* When the function of a check is called, every check before it in the order
\* has been decided, all those it depended on when the run began among them; and
\* of these, none that the definition called depends on failed, was passed over
\* behind a failure, or was left to a run with side effects.  (A dependency that
\* is off holds nothing back: check_values.test.ts:517.)  A definition replaced
\* while the run waited may also name checks that come later or not at all: the
\* runner has no precondition for these (runner.ts:319 claims one for every
\* dependency), and the property none.
PreconditionsHeld ==
    \A r \in Runs : \A i \in DOMAIN run[r].order :
        LET state == run[r]
            c == state.order[i]
            earlier == {state.order[j] : j \in 1..(i - 1)}
        IN  c \in DOMAIN state.called =>
                /\ earlier \subseteq DOMAIN state.rows \cup state.listed
                /\ Deps(state.known, c) \subseteq earlier
                /\ \A d \in earlier \cap Deps(state.called, c) :
                        d \in DOMAIN state.rows /\ state.rows[d] \in {"pass", "skip", "warn", "off"}

\* A run that is over has accounted for every check it selected and all these
\* need, each once; it is green exactly when nothing it ran failed, broke or
\* warned (failing-checks: failed or broke), a check that broke counting as a
\* failure even when its value is warn; and in the purity partition nothing
\* impure has run, also when a definition was replaced on the way.
RunIsAccounted ==
    \A r \in Runs : run[r].at = "over" =>
        LET state == run[r]
            need(S) == \A c \in S : Deps(state.known, c) \subseteq S
            done == DOMAIN state.rows \cup state.listed
        IN  /\ Select(DOMAIN state.known, state.request) \subseteq done
            /\ need(done) /\ DOMAIN state.rows \cap state.listed = {}
            /\ state.exit = 0 <=>
                \A c \in Ran(r) : c \notin state.broke /\ state.rows[c] \notin
                    (IF state.request.failing THEN {"fail"} ELSE {"fail", "warn"})
            /\ state.request.pure => \A c \in DOMAIN state.called : state.called[c].pure

\* The manifest names commands that were dispatched under test, or were in it
\* when it was committed, whatever processes ran, overlapped or died; so does
\* a verdict of full coverage.  A rewrite loses a name only when the manifest
\* was not what its run had read (cut short by another process, or by one
\* that died, or rewritten since).
ManifestIsEarned ==
    [][/\ manifest'.names \subseteq exercised'
       /\ \A r \in Runs :
            /\ (run[r].at = "fill" /\ run'[r].at = "rows") =>
                    run[r].read.names \subseteq manifest'.names
            /\ (Coverage \in DOMAIN run'[r].rows /\ run'[r].rows[Coverage] = "pass") =>
                    Commands \subseteq exercised']_checkVars

\* "A cwd change re-runs the providers (dropping the previous provider-sourced
\* defs first)" and "a throwing provider is a hard error in every mode": a run
\* that begins has the checks its directory provides.
RegistryIsCurrent ==
    \A r \in Runs : run[r].at \in {"rows", "over"} =>
        DOMAIN run[r].known = DOMAIN app.declared \cup ProvidedIn(run[r].cwd)
=============================================================================
