# strictcli in TLA+

A specification of strictcli, the contract-enforcing command-line framework of
this repository, from the command line to the exit step, with TLC model checking
and TLAPS proofs. It follows the TypeScript implementation (`src/typescript/src`); the Go
and Python implementations answer to the same contract
(`.strictmetadata/docs/history/_effects-contract.md`, called *the contract*
below) and are not modelled.

## 1. Inventory

What strictcli promises at run time is not in any one function: it is in the
order in which a handful of mechanisms are put up and taken down around a
handler that may do anything.

| component (source) | state it keeps | operations | talks to |
|---|---|---|---|
| effect log (`effects.ts` `EffectLog`) | the ordered records, the counter of would-do lines, the counter of cache writes, `truncated`, `claimed` | append, render, truncate, claim | handle, exit step, help |
| effects handle (`effects.ts` `Effects`, `effects_exec.ts`) | `mutationRecorded`, the children it started | `run`, `spawn`, `http`, `write`, `mkdir`, `remove`, `rename`, `chmod`, `recorded`, `renderLog`; extraction from an unsettled value | log, operating system |
| dispatch and exit step (`app.ts` `runConfirm`, `runHandler`, `finishDispatch`, `emitTruncated`) | the ending of the handler, the payload slot, the document written | confirm, run the handler, settle, write the envelope or the preview, set the status | everything here |
| runtime guard (`guard.ts`) | the replaced `stdout.write` and `process.exit`, the byte count, whether it is released | install, count, trap, release | dispatch, test window |
| signal watch (`signals.ts`) | the listeners, the signal received | install, deliver, release | dispatch, `ctx.signal` |
| app (`app.ts` `AppImpl`) | `effectLogState`, the console of the `test()` window | `run`, `test`, `call` | dispatches, nested and concurrent |
| confirm protocol (`confirm.ts`) | none | ask | dispatch, MCP |
| child worker (`effects_exec.ts`) | a worker per child, shared words, streams | start, receive, signal, reap | handle |
| context output (`context.ts`) | lines owed to the output member | stdout, stderr, payload | dispatch |
| MCP server (`mcp.ts`) | held input lines, the legacy session, the confirmation it awaits | initialize, list, call, discover, ask | continuation store, invoke channel, client |
| continuation store (`mcp.ts` `McpContinuation`) | its key, the spent ids | mint, verify, prune | MCP server |
| invoke channels (`invoke.ts`, `tool.ts`) | none | call, list the tools | app, MCP server |
| tool trace (`trace.ts`) | partition files and the failure marker, both shared with every other process; the variable in a child's environment | choose a partition, roll, append, mark a failure, compose the environment | handle, at the start of a child |
| declarations (`factories.ts`, registration in `app.ts`) | the declaration tree of each command | declare, register | everything that reads declarations |
| parser (`parse.ts`, `routing.ts`, `scopeparse.ts`) | of one run: the tokens left, what the scan found, the sourced store, the elected choices, the refusals so far | scan, extract globals, route, read tokens, elect, resolve scopes, deliver | value sources, constraints |
| value sources (`sources.ts`, `values.ts`, `atprefix.ts`, `env.ts`, `config.ts`) | the store of a run; whether standard input was taken | coerce, resolve a layer, compare layers | parser |
| constraints and update sets (`constraints.ts`, `update.ts`) | none | imply, require, sort the properties into written, cleared and left | parser, invoke channels |
| configuration file (`config.ts`) | the file, shared by processes; `app.configData`, what a process remembers of its last parse | load, `config set`, `init`, `edit`, `show` | parser, handle |
| checks (`checks/*`) | per app: the registry, the provided checks and the directory they were made for; per run: rows, failures, listed checks | materialize, select, order, run | app, coverage |
| coverage (`checks/coverage.ts`) | the manifest and the shard files, shared by processes | record a command, merge, rewrite the manifest, judge | `test()`, `call()`, checks |
| requirements, help, schema, TOML, lints | none | pure functions of the declarations or of a text | |

**What is hard.** One thread runs JavaScript to the next await, so there are no
data races; but signals, children and several dispatches of one app interleave
at every await, the synchronous child operations block the loop that would
deliver a signal, each mechanism has a lifetime that must nest in the others'
(guard and listeners cover the settling and must be gone before the exit step
writes), the handler can leave in six ways (return, early exit, trapped
`process.exit`, truncation, a throw, and a truncation it swallowed), and a dry
run has to be harmless whatever values the handler threads through its calls.
Before a handler runs at all, a command line has been read in four passes that
each cut it on their own, against names whose owner is not known until a later
token has elected it, and merged with three layers below it. And three kinds of
file are shared by processes that take no locks: the configuration file, the
tool trace, and the coverage manifest with its shards.

**What makes each component correct.**

- *Handle*: a dry run performs nothing that mutates; every mutation is in the
  ledger before it is attempted; an observation in a dry run never mixes with
  an effect that was only recorded; the fail-closed backstop of the execution
  layer is never what stops a value.
- *Log*: the would-do lines are numbered 1, 2, 3; a truncation stands.
- *Dispatch*: consent before a consequential effect; one document per
  machine-mode run; a preview on every dry run; success only when nothing went
  wrong; no child left behind; a signal decides the status; the dispatch ends.
- *App*: each dispatch answers from its own log; what a window or a guard
  replaced is put back.
- *MCP*: a consequential tool runs only with a consent given for exactly that
  call, once; every request is answered once.
- *Trace*: a file holds nothing older than its label; a child is attributed to
  the invocation that started it or to none; a full file stops growing; losing a
  race or a write never keeps a child from starting.
- *Parser and values*: each value comes from the highest layer that binds it,
  and the handler is told which; no token is dropped in silence; no value of a
  scope that is not open; what is delivered keeps the declared constraints; a
  call through a map and a command line that say the same do the same.
- *Configuration file*: only a live config command writes it, and `config set`
  changes one key.
- *Checks*: a check runs after what it depends on and not behind a failure;
  every selected check is accounted for; a run is green exactly when nothing
  failed; the registry is that of the directory.
- *Coverage*: the manifest names only what was exercised.

## 2. Modules

| module | models | notes |
|---|---|---|
| `EffectLog` | the effect log | operators on a record; no variables, so that both `Effects` and `SharedApp` can keep one |
| `Effects` | the handle and the children | every handler that can be written against the handle: each step is one call with any operands it could hold |
| `EffectsProofs` | | the theorems about `Effects` |
| `RunContract` | a run as its caller sees it | the abstract specification: permission, mutation, documents, over |
| `Dispatch` | confirmation, handler, settling, exit step, guard, signals | extends `Effects`; `ImplementsContract` is its refinement of `RunContract` |
| `DispatchProofs` | | the theorems about `Dispatch`, the refinement among them; extends `EffectsProofs` |
| `SharedApp` | several dispatches of one app | reuses `EffectLog` |
| `SharedAppProofs` | | the theorems about `SharedApp` |
| `Continuation` | the continuation store | its own variables; a blob is the index of its payload |
| `Mcp` | the serve loop and the two confirmation protocols | extends `Continuation` |
| `McpProofs` | | the theorems about `Mcp` |
| `TraceStore` | the trace store and the processes that write to it | stands alone: it is where processes meet, not mechanisms |
| `TraceProofs` | | the theorems about `TraceStore` |
| `Declarations` | flags, selectors and their scopes, arguments, constraints, update sets; what registration accepts | predicates on a record; no variables |
| `Delivery` | value sources, ambient layers, implications, constraints, update sets, arguments | operators on a store; used by the command line, by calls and by the configuration file |
| `Argv` | the parse up to the command | extends `Delivery`; its own variables |
| `Invocation` | the command's tokens, the scopes, delivery to the handler | extends `Argv` |
| `InvocationProofs` | | the theorems about `Invocation` |
| `CallChannel` | a tool call and `app.call()` | extends `Invocation`: a call stands beside the command line that says the same |
| `ConfigStore` | the configuration file and the processes that use it | extends `Delivery` |
| `ConfigStoreProofs` | | the theorem about `ConfigStore` |
| `Checks` | the registry, runs of checks, and coverage, in several processes | stands alone |
| `ChecksProofs` | | the theorems about `Checks` |
| `MCEffects`, `MCDispatch`, `MCSharedApp`, `MCMcp`, `MCTraceStore`, `MCInvocation`, `MCConfigStore`, `MCChecks` | | the sets TLC needs; no definition of a model is replaced |

### EffectLog and Effects

`log` is `EffectLog` as a record; `AppendRecord`, `Record`, `Truncate`,
`RecordCacheWrite`, `Claim`, `ClaimAndRender` are its methods. `NextSeq` gives
the number of a would-do line, `NextCacheSeq` that of a cache write; `LogText`
is what rendering prints, kept as *up to which record, up to which number*.

A value a handler can hold is a member of `Values`: text, an unsettled carrier
(the result of an effect that was recorded and not executed), or another value;
`held` is the set of them. `Operand` is `Effects.operand`, which lets a carrier
through only where the record can quote it; `Operands` and `Runtime` are
`resolveArgv`. A call is refused (`Refuse`), executed (`Exec`, `Perform`,
`StartChild`, `Observe`) or recorded (`RecordOnly`), and which of the three
follows from `Authorized`, `Accepted`, `Sealed`, `IsObserve` and
`ObserveIsStale`, which are the code's conditions in the code's order.
`Extract` is a handler that looks inside a carrier: it truncates the log and
throws. `Catch` is a handler that swallows what was thrown. Children are
started, exit by themselves (`ChildExits`), are signalled, waited for or killed.

`performed` is a history variable: what reached the outside world, with the
number of mutations recorded before it. No action reads it.

### Dispatch

`phase` is the position in `runConfirm`/`runHandler`. The handler steps are
those of `Effects` and what else a handler can do: write to a replaced stdout,
call `process.exit`, throw `ExitNow`, supply a payload, return a code. `Unwind`
is `classifyUnwind`. Settling is one child at a time (`SettleQuiet`,
`SendTerm`, `GraceExpires`, `ReapKilled`): a second after SIGTERM comes
SIGKILL. `TermRefused` is `process.kill` failing on a child of another user.
`SettleDone` and `EndTurn` are the two `finally` clauses. When a kill blocked the
thread an immediate is awaited between them, and the loop runs on to its check
phase (`phase = "check"`): through a poll phase (`Poll`), which leaves no signal
undelivered, or straight into it when the handler's last promise was settled in
the poll phase (`signals.inPoll`, chosen at `SettleDone`). `EndTurn` drops what is
then still pending. `signals.due` counts what had arrived by the end of the
settling. `ExitTruncated`,
`ExitThrow` and `ExitNormally` are the exit step.

`signals.pending` is what Node holds until the loop turns; `Deliver` runs the
listener. A signal without a listener ends the process.

Every action of `Effects` is used unchanged through `HandlerStep`; the
composition adds no second copy of the handle.

### RunContract

Five variables: how far the run is, whether a mutation is permitted, whether
one happened, how many documents were written, whether the run failed. Its
steps are: ask or refuse, change something while permitted, end with at most
one document. `Dispatch` maps onto it by the expressions under
`Contract == INSTANCE RunContract`.

### SharedApp

Several dispatches of one `App`, through `test()` and `call()`, started by the
program or by a running handler. What they share is `current`
(`effectLogState`), `console` and `write` (`process.stdout.write`), each
replaced at the begin of a dispatch and, the first excepted, put back at its
end. A replacement of `write` asks whether the caller is within its own handler
(`handlerContext`, here `context`) and otherwise passes the bytes on to the
`write` it found: `write` is therefore the chain of guards a byte passes
through, and the empty chain is the process's own. `Discipline` is how the
dispatches overlap: `"nested"` (a handler awaits what it starts) or `"free"`.

### Continuation and Mcp

`minted` is what `mint()` issued, `consumed` is `#consumed`, `now` is
`Date.now()` in seconds, `accepted` is a history of the verifications that
passed. `Present` is `verify()` with the `#prune()` it calls: `Remembered` is
what pruning leaves, and `Verifies` is the conjunction of the checks. A forged
blob, which fails the MAC before anything is pruned, is the branch of
`ReturnState` that changes nothing.

`Mcp` is `serveMcp()`. `stream` is what the client has sent, `held` is
`McpChannel.#held`, `Source` is the order of `nextLine()`. Each disjunct of
`Serve` is a kind of line the loop takes and serves to the end: `Skip`,
`Initialize`, `AnswerDirectly`, `ReturnState` and `CallAfresh` (the two halves
of `confirmationExchange()`), `LegacyCall`, and `LegacyAsk`, which is
`legacyConfirmation()` up to its await. While `exchange` is open the loop is in
`awaitResponse()`: it reads past other lines (`ReadPast`), gets its response
(`Respond`) or the end of the stream (`Abandon`), and in both cases presents
the blob before it looks at the answer (`Conclude`). `Run` is `app.call()`,
which may also refuse the arguments; the command runs within the step that
serves its line, because nothing else reads the loop's state meanwhile.

The client sends any line of `Lines` at any time, with any blob the server has
ever issued, its own or another client's. A line's `meta` is `"none"` when it
carries no protocol version, which is what selects the era. `owed`, `answers`,
`asked` and `ran` are history variables.

The clock does not run back. `Date.now()` is wall-clock time, so this is an
assumption about the machine: set back after a spent blob has been pruned, it
would let the blob pass again.

### TraceStore

A process in `traceWriteEntry()` is a `task`: its `step` is the next system call
(`list`, `stat`, `create`, `append`), and `ms` and `label` are what it has read
of the clock and of the directory, which the other processes go on changing.
`List` and `Stat` are `traceActiveLabel()`, `Create` is
`traceCreatePartition()` with the failures it swallows, `AppendEntry` is the
clamp and the write, `Fail` is the `catch` with the marker. `StartChild` is the
end of `traceChildEnv()` and the start that follows it, which may itself fail;
a child that has started is a writer like the others. `SetBack`, `Prune` and
`DeleteStore` are what the machine and its owner may do to the clock and the
files, and the store's specification
(`.strictmetadata/docs/process-trace-store.md`) says they may.

A label is an hour's number, a size is a number of lines, an identifier is the
index of its entry. Opening the file and writing the line are one step: a
deletion in between takes the line with the file, as one right after would. A
line is written whole, as that document assumes of `O_APPEND`.

### Declarations and Delivery

A command is a record: `decls` is its declaration tree as the sequence in which
the code walks it, each declaration with the *path* of selector choices that
opens its scope. `CommandOK` and `RegisterOK` are the rules of the factories and
of registration (`SimultaneouslyElectable`, `SiblingShapesOK`, `ShortsOK` and so
on, by the names of the code where it has one). `MCInvocation` starts only
programs that are `Registered`, and includes some that are not: they have no
runs, so that a rule that is dropped lets them in and breaks a property.
`IsProgram` is the shape of a program whatever its size: the types, and that a
scope comes after the selector that opens it and is a map by name. That the keys
of a nested scope are the names of its flags is what `FlagMap` documents;
`validateFlagMapKeys` holds only the map at the root to it. The rule that no name
begins with `no-` is kept as what it is for: no name is the negation of another.

A value is a sequence of words (one word for a scalar) and `Absent` is
`undefined`. What coercion tells apart is kept: whether a word fits the schema,
whether it reads standard input, whether it is among the choices. A store maps a
name to its value and its source. `Ambient` lays the environment and then the
configuration under what was given, `Implied` folds the implications in their
order, `Build` is what is left of the parse once every flag has its source:
constraints, update set, defaults, choices, arguments.

### Argv, Invocation and CallChannel

`phase` is the pass the parse is in: the scan of the leading flags, the scan of
the command region, the global flags, the route (`Argv`); the command's tokens,
the declaration tree, delivery (`Invocation`). Each kind of token a pass can
meet is an action, so that a token is taken by exactly one of them, and `rest`
is what the pass has left. `kept` is what a scan puts back for the next pass.
A flag token of a scope is recorded with the names it could belong to (`typed`),
since which scope is live is known only when the tree has been walked; `Elect`
binds a shared short form to the scope that opens. From the tokens on refusals
do not end the parse: `problems` collects their stages, and the earliest stage is
the one reported, as the code's sorted checks do.

`InvocationSpec` is the command line alone, and is what the theorems are about:
for every program that is registered, and every line, environment and file
(`InputsOK`).

`params` is a tool call: `FlatTree` and `FlatToCall` are the way from its flat
parameters to the record of `app.call()`, `FillTree` and `CallApp` the way from
there to the handler. `Spelled` writes the same values as a hermetic command
line, which the parse then runs on; `ChannelsAgree` compares the two.

### ConfigStore

A process runs jobs, config commands and others, through the command line or
through `call()`. `Begin` is everything up to the handler; the handlers then
take one step per access to the file: `Splice` reads the TOML text again,
`Write` truncates and `Fill` fills, `Editor` is what the user leaves. `memory` is
`app.configData`; `known` is the content of the file the job goes by, and
`intact` says that the file still had it when the write began. A dotted name is
a key of its own.

### Checks

An app declares checks and provides others, and what it provides under one name
may be defined differently in each directory (`specs`): severity, purity,
dependencies, and what its function may come to. A process has a registry (`defs`,
and `memo`, the directory it was materialized for), and `holder`, the run that has its thread: a run gives it up
only where a check's function is awaited (`Call`, `Settle`), so that runs of one
app overlap exactly there. `Begin` is everything before the first check, and
`Outset` the run it leaves; `known` is the registry the order and the values were
made from. The loop then reads each definition from the registry as it is by then
(`Registry`), which another run may have rebuilt: a definition that is gone ends
the run (`Gone`), unless its check is off, which the snapshot decides (`Off`); one that was
replaced counts with its new dependencies and purity (`Blocked`, `Listed`, `Call`),
and `called` keeps it; `Needed` is what the selection needs, `Order` the
code's queue as the states it passes through (`Placed` takes the head and puts
what is `Ready` behind it), `Sorted` its alphabetical order by rank. The coverage check holds its thread but not the
files: `CovLook`, `CovRead`, `CovMerge`, `CovCompare`, `CovFill` are its system
calls, between which other processes record, rewrite the manifest or die.
`exercised` is a history variable.

## 3. Runs

| run | question | properties |
|---|---|---|
| `effects_handle` | what can any handler of at most two effects do? | type, `DryRunSealed`, `LedgerBeforeEffect`, `FreshObservation`, `BackstopUnreachable`, `StepsContiguous`, `TruncationStands` |
| `dispatch` | does a run, live or dry, with children and a signal, keep its lifetimes, its one document, its status, and end? is a preview ever silent, or a failure ever a success? | `DispatchTypeOK`, `OneDocument`, `SuccessIsEarned`, `ConsentFirst`, `NoChildOutlives`, `SpanCoversSettling`, `SignalDecides`, `PreviewNeverSilent`, `SettlingEnds`, `ImplementsContract` |
| `shared_app` | do dispatches of one app keep apart? | `PreviewIsOwn`, `SwallowFailsClosed`, `WindowsRestored`, `GuardedBytesCounted` |
| `mcp` | what can a client of either era get out of the server with four lines? | `McpTypeOK`, `OneAnswerEach`, `SingleUse`, `ConsentIsForTheCall`, `RefusalStands`, `EndIsReached` |
| `trace` | what do two writers and the children they start leave in the store, with one failure, deletion or clock change anywhere? | `TraceTypeOK`, `NeverBeforeLabel`, `ChainIsAncestry`, `OverrunIsBounded` |
| `invocation` | what does a handler receive for every short command line and tool call? | `HighestSourceWins`, `EveryTokenCounts`, `ContractHolds`, `OnlyLiveScopes`, `ChannelsAgree` |
| `config` | what do two processes do to one configuration file? | `OnlyItsKey` |
| `checks` | what do two runs of checks, in one process or two, do, and what may coverage say? | `PreconditionsHeld`, `RunIsAccounted`, `ManifestIsEarned` |
| `signal_lost` | is a signal that arrived always honoured? No | `ArrivedSignalDecides` |
| `renderer_throws` | does every path render? No | `EveryPathRenders` |
| `nested_call_swallow` | does every swallowed truncation fail the run? No | `EverySwallowFailsClosed` |
| `stale_registry` | does a run have the checks its directory provides? No | `RegistryIsCurrent` |

**Bounds.** `MaxEffects = 2`: a recorded mutation and one call after it is what
the seal and the freshness of observations depend on, and the third effect of a
run meets the same two booleans as the second; the theorems hold for every
bound. `MaxArgv = 2` mixes a carrier with a text in one command line.
`MaxChildren = 2` puts a child behind one that is being killed. `MaxSignals = 1`
puts a signal anywhere, the release of the listeners included; once one has been
delivered the listeners are gone, and a second one ends the process. `MaxRenderings = 1` lets a handler render before or
after an effect.
`ForeignChildren` allows children that may not be signalled. Codes are 0 and
2; statuses are taken modulo 256 where the process ends. Three dispatches in
`shared_app` are a nest of depth three, a pair beside another, and a
succession. `MaxLines = 4` in `mcp` is a session opened, a call that is asked
about, a refusal, and the blob brought back; or a call, its answer, and two
replays. `TTL = MaxTime = 1` lets a blob expire before its answer and be
forgotten after it. In `trace` an hour is two ticks and `MaxTime = 2`, so that a
second label exists and the clock can be set back across it; a file is full
with one line (`Roll = 1`), so that the three entries (`MaxEntries = 3`) are a
full file, the line of a writer that chose it before, and the line that rolls.
`MaxMishaps = 1` puts one mishap between any two calls; two have been checked
too, in more time than a routine run should take. The two children are
interchangeable; the roots are not, since they inherit different values.

The command lines of `invocation` are all those of up to `MaxTokens = 3` tokens
over an alphabet of the program at hand (up to 24 tokens, reserved words, stops
and unknown flags among them), and of one more token where the alphabet is
small: four tokens are a selector, a scoped flag given before it, one of its own
scope and one of another's. Ten programs are accepted (globals around a plain
command and a passthrough; a selector over a selector; a selector with a default
that can be declined; constraints over each other; an update set, with and
without a selector; names that meet without being refused; a selector an argument
hides; a flag of one scope with the name of a choice in another; a short form two
scopes share), six are refused. Tool calls give up to three parameters,
with fitting, unfitting and unknown values. Environment and file are absent, both
there, the file alone, and a broken file.

In `config` two processes run three commands between them, and die anywhere:
that is a `config set` around another one, or before and after one of the same
process. Three apps (JSON with a declared field, TOML, no default path) start from
a file that is absent, whole or broken. `checks` has two runs (in one process or
in two), two commands, two directories (the provider of the second throws,
provides a check that is declared already, or defines two checks of the first
with other dependencies, purity and severity), `MaxRuns = 2` and `MaxEvents = 2`
(commands under test, changes of directory, resets and crashes): an event before
and one within the run that notices it. Processes and runs are interchangeable, and
TLC takes them as symmetric; no liveness is checked there.

`CHECK_DEADLOCK FALSE` stands where a run ends: a finished dispatch has no
further step, and the processes of `config` and `checks` stop at their bounds.

**Fairness.** `WF_vars(FrameworkActs)`: between two awaits nothing can keep a
single JavaScript thread from its next statement, and every wait in the exit
path has a timeout. `WF_vars(KilledChildExits)`: the operating system ends a
process that was sent SIGKILL. `WF_vars(ServerActs)`: the serve
loop is one thread, and the commands it runs are assumed to return. Nothing is
assumed of the client: `EndIsReached` starts where it closes the stream.
Nothing is assumed of the handler (it may never
return, so `SettlingEnds` starts at its end), of a child that was not killed,
or of signals.

## 4. Where the code and its words part

Four statements have a run that ends in a counterexample; PROJECT.json quotes
them.

- A signal that arrives during a handler that returns without yielding is
  dropped with its listener: the loop turns before `signals.release()` only
  when a child was killed (`signal_lost`).
- A payload renderer that throws leaves a dry run without its log
  (`renderer_throws`).
- The exit step asks the *app's* log whether a truncation was swallowed. When
  the handler has awaited another dispatch of its app, that is the other
  dispatch's log (`nested_call_swallow`).
- The memo of the check registry survives a provider that throws in another
  directory: the definitions have been dropped by then, and the next run in the
  first directory is green without them (`stale_registry`).

Noticed on the way, in the models, without a run of their own:

- What a handler records after `renderLog()` is in no rendered log.
- `traceWriteEntry()` ignores what `writeSync()` returns: of an entry that was
  written in part when the disk filled up, the child gets the identifier, and the
  next line is glued to it.
- A signal that arrives while a kill blocks the thread is dropped all the same
  when the handler's last promise was settled in the poll phase of the loop (by a
  pipe, a socket, a file): the immediate awaited at `app.ts:1669-1670` then runs in
  the check phase of the same iteration, and nothing is polled in between. The
  comment at `app.ts:1665-1668` says it "is delivered on the event loop, so the loop
  turns once before the handling is released". `SignalDecides` claims nothing of
  it (`signals.inPoll`).
- A second signal that arrives while the first waits for the loop is
  swallowed; the comment at `signals.ts:5-7` gives it the default action. See
  `Deliver`: both listeners go at once, with what was pending for them.
- After a swallowed truncation the handler may record further effects, and the
  run still ends with the first truncation's step.
- A handler may return 256: the envelope says 256, the process exits 0.
- A child that may not be signalled makes `settleChildren()` throw, and with it
  the dispatch rejects without its exit step (`TermRefused`); `kill()` on such a
  child marks it waited first, and nothing settles it afterwards (the exception
  in `NoChildOutlives`).
- Two `test()` windows in flight that end in the order they began leave the
  console patched (`Discipline = "free"`). The runs about windows and guards are
  of nested dispatches.

In the parser and the declarations:

- A global given after the command word is never held to its choices or its
  validation (only `extractGlobalFlags`, `parse.ts:1824`, and the command's own
  flags, `1471`, are); see `Deliver` beside `GlobalsEnd`. A required global that
  is given only there is refused as missing before the command is reached.
- Implications see only what those declared before them set
  (`parse.ts:1426-1444`, `Imply`); by `flag-system.md:182`, `:230` and `:1262` a
  trigger fires whenever its flag is provided, which one that a later
  implication sets also is. `ContractHolds` claims the implied value of those that
  fired (`Fired`), and `HighestSourceWins` nothing of a flag that only others are
  about (`Overlooked`): program `meeting` with `--p` delivers the default there.
- `--no-x` for a member `x` that is the default still elects `x`
  (`ElectByMembers`), and a valueless scoped flag can be negated even when it is
  declared not to be (`ScopedNegations`).
- Registration compares only a command's root flags with the globals
  (`app.ts:710-716`, `RegisterOK`), and only the first path of a name that
  carries a short form (`ShortClaims`). So a selector may take a global's name,
  although `.strictmetadata/docs/architecture.md:587` says "Flags cannot collide
  with global flags": its record then replaces the global's value in the store
  (`parse.ts:1034-1036`, `Deliver`), a value that was typed included. An argument
  may share the name of a flag, which it then hides from the handler, or of a
  global, which hides it (`parse.ts:1524-1546`, `2604`); the contract
  (`.strictmetadata/docs/history/_effects-contract.md:13765-13769`) knows the
  first and leaves it open. The properties of `Invocation` claim nothing of a
  hidden value (`Shown`), and the program `meeting` has all three.
- A short form that sibling scopes share is bound by the *name* of a claimant
  (`scopeparse.ts:446-454`, `Bind`), and at once when only one name claims it
  (`parse.ts:694-698`). By `parse.ts:511-514` "the token is bound to the one whose
  scope the election made live". Where the live scope has a flag with the name of
  a claimant of another scope, that flag gets the value, although it claims no
  short form itself, and before the flag of the live scope that does. The
  program `lent` has it; `CameFromTheLine` asks only that the name is claimed.
- `--help` is taken out of the arguments of a passthrough command
  (`ContainsHelp`), of which the comment at `parse.ts:2103-2130` says that every
  token is handed on.
- Scoped flags know neither conflict mode `"error"`, nor, from the
  configuration, `unique`; a nested record given to `call()` is held to neither
  choices nor validation, which the flat parameters of a tool call are
  (`FlatStep`).
- Beside a selector a tool call refuses the `null` that clears a nullable property
  (`tool.ts:1106-1109`), which `call()` takes and the command line's unset flag
  does; `flag-system.md:1555`, `:1820` and `:1893` have every door clear. `ChannelsAgree`
  claims nothing of such a call (`ClearsBesideSelector`); the program `routed` makes
  it.
- A boolean argument named by a constraint with `when: "true"` counts as
  engaged whenever it was given (`Engaged`).

In the configuration file:

- JSON `config set` writes `app.configData` whole. That is not the file when the
  job came through `call()`, which loads nothing; when `--config` named another
  file, whose data then lands in the app's own; when the file was broken, or the
  app has `noDefaultConfigPath`. `OnlyItsKey` claims nothing of those (`known` is
  empty), and nothing when another process wrote in between (a lost update).
- A previewed JSON `config set` changes `app.configData` all the same.
- The write truncates before it fills: a process that dies in between leaves a
  JSON file no later run can read.
- Config commands are exempt from a broken file but come after the global flags
  (`Stage`): `config init` on JSON writes `null` for a global without a default,
  after which `config set` and `config show` are refused.
- `config set` does not ask a flag's choices; the next run does.

In the checks:

- A dependency of a provided check on a name nobody has is not refused where it
  is declared, as it is for checks in TOML (`framework.ts:836-843`), but ends the
  run that orders it.
- A registry rebuilt while a run awaits a check makes that run fail when the
  definition of one that follows is gone (`Gone`). When it was replaced under the
  same name by one with other dependencies, the run calls it after those of them
  that came earlier in its order, and without those that come later or that it
  does not hold, although `runner.ts:319` speaks of "an unexecuted dependency" whose
  "precondition cannot be verified". `PreconditionsHeld` is about the dependencies
  known when the run began and, of those the definition called has, the earlier ones.
- A manifest that is cut short by another process, or by one that died, counts
  for nothing (`CovRead`), and its names are gone with the next rewrite; the
  comment at `coverage.ts:144-148` says the union never removes a command.

## 5. Proofs

`EffectsProofs` proves, for every value of the constants that satisfies the
assumptions of `Effects`, and for every handler:

| theorem | property |
|---|---|
| `TypeCorrect` | `EffectsTypeOK` |
| `SealingHolds` | `Sealing`, the inductive invariant |
| `DryRunIsSealed` | `DryRunSealed` |
| `ObservationsAreFresh` | `FreshObservation` |
| `BackstopIsUnreachable` | `BackstopUnreachable` |
| `LinesAreNumbered` | `StepsContiguous` |
| `LedgerIsAhead` | `LedgerBeforeEffect` |
| `TruncationIsFinal` | `TruncationStands` |
| `ReadOnlyIsHarmless` | `ReadOnlyHasNoEffect` (proved only; no run repeats it) |

**The argument.** `DryRunSealed` is not inductive: nothing in it says that a
handler in a dry run cannot hold a value that would let it reach an execution.
`Sealing` adds what does: a carrier is held only in a dry run in which a
mutation has been recorded, `mutationRecorded` is true exactly then, no child
exists in a dry run. With it an observation in a dry run is either taken before
the first recorded mutation, when no carrier exists (so that the operands are
settled, which is also why the backstop is unreachable), or it is stale and
truncates. The steps of the handle are first sorted into the few classes that
matter to an invariant (`StepClasses`: those that leave the log alone, those
that append one record, those that truncate), so that each invariant needs one
case per class and not one per method. Numbering is a property of the log:
`AppendRecord` keeps lines numbered 1..n when the new record has the number
`NextSeq`, cache writes being numbered apart.

`McpProofs` proves, for every set of lines, commands and clients and every time
to live:

| theorem | property |
|---|---|
| `McpTypeCorrect` | `McpTypeOK` |
| `ContinuationsAreSingleUse` | `SingleUse` |
| `ConsentMatchesTheCall` | `ConsentIsForTheCall` |
| `RefusalsStand` | `RefusalStands` |
| `EachIsAnsweredOnce` | `OneAnswerEach` |

**The argument.** The server forgets spent blobs, so "a blob that has passed is
in `consumed`" is not invariant. What is: a blob that has passed is *dead*,
that is remembered or expired (`Spent`). A step does one of three things to the
store (`StoreSteps`: let time pass, mint, present a blob it has issued), and
none of them revives a dead blob (`DeadStaysDead`), because pruning forgets
only what has expired and expiry is for good. For the legacy era, every blob it
issued is dead or belongs to the exchange that is open (`Settled`): an exchange
has one exit, which presents its blob, and a blob that is presented with its
own call is dead afterwards whether it passed or not (`PresentedIsDead`). The
modern era reads its lines only while no exchange is open, so what it accepts
is never a blob of the other. The type of the state includes that a client can
only send blobs it was given (`KnownLine`), which is what the process's secret
key gives.

For the answers, the numbers of the lines stand in one row: what is being
confirmed, before what is held, before what is still in the stream (`InLine`);
what has been answered is before all of these, and is what is owed of the rest
(`Answering`). Whatever a step takes out of the row is its least number, or no
request.

`TraceProofs` proves, for any number of processes, any length of an hour, any
threshold, and any number of failures, deletions and clock changes:

| theorem | property |
|---|---|
| `TraceTypeCorrect` | `TraceTypeOK` |
| `NothingBeforeItsLabel` | `NeverBeforeLabel` |
| `ChainsAreAncestry` | `ChainIsAncestry` |
| `OverrunBounded` | `OverrunIsBounded` |

**The argument.** A step deletes files, creates one, or appends a line to one
(`StoreClasses`), and only the last matters to a label: the line is clamped to
the label it is written under, so that it makes no difference how old the choice
of that label is. `ChainIsAncestry` is not inductive: an entry could name a
child that already runs, whose variable would then be replaced. `ChainInv` adds
that the child of a task does not run yet (`Expected`) and is the child of no
other task (`Apart`). From that, a process that runs keeps its environment and
its starter (`EnvironmentsStand`), entries are never rewritten
(`EntriesStand`), and the two halves of the property follow, each from what a
birth (`BirthSteps`) or an append adds to it.

`OverrunIsBounded` counts. The processes that may still write to file `l`
(`MayWrite`) are those that have chosen it and those whose instant is not past its
hour. A process whose instant is past it chose the file because there was room,
and from then on the clock is past the hour too, so that nobody joins them:
the size of the file and their number stay together below the bound (`Room`),
since a line adds one to the first and takes its writer out of the second.
`Writers` is that a task's instant is not ahead of the clock unless this was set
back.

`DispatchProofs` proves, for every handler, request, number of children and of
signals, and every set of codes:

| theorem | property |
|---|---|
| `DispatchTypeCorrect` | `DispatchTypeOK` |
| `ConsentComesFirst` | `ConsentFirst` |
| `SpanCovers` | `SpanCoversSettling` |
| `SignalsDecide` | `SignalDecides` |
| `NoChildIsLeft` | `NoChildOutlives` |
| `OneDocumentOnly` | `OneDocument` |
| `PreviewSpeaks` | `PreviewNeverSilent` |
| `SuccessNeedsEarning` | `SuccessIsEarned` |
| `DispatchImplements` | `ImplementsContract` |

**The argument.** A handler reaches the state of a dispatch only through the
handle, so what one of its calls may do is stated once (`HandlerMay`) and proved
from the step classes of `EffectsProofs`; every part of the invariant is carried
over that statement, and over the few things the exit step may do (`ExitMay`).
The parts are one per concern, each with its own theorem. `Consent`: the answer
is decided before the handler is entered, and a mutation needs a handler. `Span`:
guard and listeners by phase. `Sequence`: the signals in the order they arrived,
the first being the one received. `Reaping`: of the children before the one
being settled none is left, and the only one waited for and not over is that
one; `SpanCoversSettling` and `NoChildOutlives` alone are not inductive, since
neither says anything about a settling in progress. `Streams` and `Written`: the
streams before and after the exit step. `Outcome`: the codes of the endings,
from which `SuccessIsEarned` follows at the exit step.

`SuccessNeedsEarning` assumes `NoWrappedCode`: no handler returns a positive
multiple of 256. Without it the property is false of the code, which hands the
number to `process.exitCode` (`app.ts:1299`) as it is, and the system keeps the low eight
bits; the codes of `MCDispatch` satisfy it.

The refinement is proved step by step: `ContractTerms` puts the steps of
`RunContract` into the terms of a dispatch, and each action is shown to be a
start, a refusal, a permitted change, an end or a stutter. It needs `Consent` for
the permission and `Streams` for the number of documents.

`SharedAppProofs` proves, for any set of dispatches and number of effects; all but
the first when dispatches are nested:

| theorem | property |
|---|---|
| `SharedTypeCorrect` | `SharedTypeOK` (proved only) |
| `PreviewsAreOwn` | `PreviewIsOwn` |
| `SwallowsFail` | `SwallowFailsClosed` |
| `WindowsAreRestored` | `WindowsRestored` |
| `GuardsCountAll` | `GuardedBytesCounted` |

**The argument.** The code keeps no stack: each dispatch puts back what it
found. The invariant says that there is one (`Nested`): the dispatches in flight
can be put in a row in which each was started by the one before it, with the
console and the `write` that the first *m* of them leave, and what a dispatch
saved is what the row held before it. A begin makes the row longer by one, an
end takes off the last, because under `"nested"` a handler ends only after what
it started; that is why the theorems assume `Discipline = "nested"`. When the
row is empty, console and `write` are the process's own. `GuardedBytesCounted`
follows because the guard of every dispatch of the row is in the chain the last
one writes through. `OwnLog` is that the last dispatch that began is the one
whose log is current, unless others have been started since. With `"free"`
`WindowsRestored` is false of the code (section 4).

`ConfigStoreProofs` proves `StoreKeepsItsKeys`, `OnlyItsKey`, for every app,
job and text an editor may leave, and any number of processes. The invariant
(`GoesBy`) ties what a process is about to write to the content it goes by:
`memory` is that content up to the handler, `pending` is its edit from then on, and a
process that is past the handler runs a command of the app's own file, live if it
fills it. `EditIsApart` is that an edit touches one key. It assumes of the
constants (`FilesAssumption`) that an absent file has no keys.

`ChecksProofs` proves, for every registry, selection and command set, and any
number of runs and processes:

| theorem | property |
|---|---|
| `ChecksInvHolds` | `ChecksInv`, the inductive invariant |
| `PreconditionsAlwaysHeld` | `PreconditionsHeld` |
| `RunsAreAccounted` | `RunIsAccounted` |
| `ManifestOnlyEarned` | `ManifestIsEarned` |

**The argument.** The first half is about the algorithm that orders the checks
(`resolveCheckOrder()`). `OrderGoesByDeps`: the order holds each check once, behind all
it depends on, and when it is as long as the set it orders, it holds all of it
(otherwise the run is refused as a cycle). Its proof is an induction over the
places of the queue, done by hand: `LeastNumber` (a non-empty set of naturals
has a least element) is applied to the set of places at which the claim would
fail. `SortedHoldsEachOnce` is that ranks are a bijection; `NeededIsClosed` that
the selection's closure is one. The second half follows a run along its order:
what it has been through is a row or listed (`Records`), what it called, in
the definition it was called with, builds on decided, harmless results (`BuildsOn`), it is over when it is through
(`Accounts`), and what it takes as covered was exercised, whoever wrote the
manifest or the shards it read (`Covers`). The invariant mentions no run but
the one it is about: all that another can do to it is to rebuild the registry, of
which nothing is assumed but that it holds definitions.
`AppsAssumption` says of the apps that their names are finite in number, that
declared and provided checks have definitions over these names, and that the
function of a check of severity warn reports no errors. It relates no two
definitions of one name: what a rebuild puts in place of another is arbitrary.

`InvocationProofs` proves, for every registered program, command line, environment
and configuration file:

| theorem | property |
|---|---|
| `HandInvariant` | `HandInv`, the inductive invariant of what is handed over |
| `ContractIsKept` | `ContractHolds` |
| `ScopeInvariant` | `ScopeInv`, the inductive invariant of the walk over the tree |
| `OnlyLiveScopesAreSeen` | `OnlyLiveScopes` |
| `SourceInvariant` | `SourceInv`, the inductive invariant of what was said of each declaration |
| `TheHighestSourceWins` | `HighestSourceWins` |

**The argument.** `HandInv` follows a store through the parse: which names it has,
from which source, and that the choices and arguments are those of the command.
`Deliver` then is one computation, of which the contract speaks after the fact, in
terms of what the handler sees. The lemmas turn one into the other: implications
are applied in one pass (`Implied` is a recursive function, and each claim about it
an induction over its places by `LeastNumber`), so that the ones that fired are the
least set of section 4's kind, the value of a target is that of whatever fired, and
constraints, evaluated before defaults are filled in, read the same presence as the
handler does. `ScopeInv` says of every place the walk has passed that it is decided
as its path is: elected or valued if live, untouched if not, and that what a live
scope elected was an alternative. A path is live when the choices on it are, two paths
that exclude each other share a root (`ExclusiveScopesShareARoot`), and a token's
names are those of live entries when the walk ends without a problem
(`TypedNamesAreOpen`), which gives both halves of `OnlyLiveScopes`.

`HighestSourceWins` reads each declaration's words off the tokens when the run is
over; the code reads them in three passes, and the walk over the tree rewrites
tokens while it reads. `SourceInv` says, at each step, how far the two agree. Before
the command word only globals are typed, and each global's value is that of its
words so far (`GlobalsRead`, then `GlobalsKnown`, when the layers below have been
asked). In the token loop the new entries come after those (`Shaped`), so that a list
global's words from either side are one sequence in the order typed (`WordsJoin`,
`ValuesJoin`: reading two rows of words and joining the values is reading the row).
`StoreRead` says the same of the store. Of the walk it says that each live
declaration it has passed has what its highest layer says *now* (`Agreed`): an
election must not change what was said of an earlier one. It does not, because the
entries it binds get names from a scope that was closed, which no live declaration
before it is read by (`OpenedNamesAreNew`, `SaidAsBefore`); two declarations of
one name that can be live together are what registration refuses (`NamesOK`). The
last step is the implications: a flag that no layer binds has an implied value
exactly when one of the implications of section 4's kind is about it (`FiredHold`,
`SetByFired`, `AddedByTheLeast`).

The three invariants were checked by TLC before they were proved.

The attempts corrected the properties. A selector that an argument or global of
its name hides decides scopes the handler cannot relate to a choice it sees
(`Shown`); a name of a closed scope may be typed when it is also the name of a
choice in an open one (programs `hidden` and `both`); a value that was read from
standard input or a file must not be the mark of absence (`Raw`).

**Model-checked only.** Liveness under fairness (`SettlingEnds`, `EndIsReached`)
is out of the prover's reach. `ChannelsAgree` compares two computations that
both fold over a program's declarations, and would need an induction over data;
it is checked over the programs and calls of section 3, as is `EveryTokenCounts`,
which would need a place in the line for every token of every pass. The four
statements of section 4 that have a run are false, and have no theorem.

## 6. Not modelled, and why

Texts: reading the terminal, the wording of diagnostics, the content of help,
version, schemas and envelopes (that they are asked for, and what refuses them,
is in `Argv`), the tables and lists of checks, the layout of a TOML file (what a
splice changes is in `ConfigStore`). Functions of a text: the TOML reader, the
parser of tag expressions (a selection enters `Checks` as the set it matches),
the static lints. How a child's bytes travel between threads, and the handshake
with its worker (`effects_exec.ts`). The order in which the output member prints
owed lines. Flags that are maps, infrastructure roots, requirements, keys of the
configuration file with three parts or more, and `config path`. What `help` makes
of its arguments: that it may refuse them is in `RouteFramework`. The components
marked *not modelled* in PROJECT.json carry their reason.

## 7. Plan

1. A proof of `EveryTokenCounts`.
2. `ChildWorker`: the handshake of `effects_exec.ts`; `OutputMember`: the order of
   lines and payload.
