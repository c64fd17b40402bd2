# TLA+ models of DataFog

DataFog (`datafog-api`, `datafog-shim`) detects sensitive data, decides by policy
whether an action may be taken, writes a receipt of every decision, transforms
text, and puts a policy gate in front of commands and file accesses. This
directory holds models of it, the TLC runs that check them and theorems about
them that TLAPS checks. `PROJECT.json` maps every definition to the source lines
it stands for and lists components, runs, mutants, hazards, findings and theorems.

## 1. The system

| Component | State | Operations | Talks to | Hard about it | Must hold |
|---|---|---|---|---|---|
| receipt store `internal/receipts` | map and counter under `s.mu`; a JSON-lines file; archives | `NewReceiptStore`, `Save`, `Get`, `Count`, rotation | `handleDecide`, `handleReceipt` | crash, failing write or sync, torn lines, lines that join; for a program that sets `MaxEntries`, two rotations in a second | an acknowledged receipt is never lost; memory and file agree; every `Save` returns; no history without a failed save keeps the service from starting |
| idempotent endpoints `internal/server` | four caches under `s.mu` | scan, decide, transform, anonymize | store, policy, scan, transform | lookup and cache write are two critical sections; retries, saves that fail after their line was written, restart | no decision without receipt; no answer to another question; a second receipt of a key has a cause |
| policy engine `internal/policy`, `internal/adapters` | the sorted rules | load, validate, sort, evaluate | read by `handleDecide` | precedence against priority, defaults, aliases | the outcome depends on which rules match, not on the walk |
| policy gate `internal/shim` | mode, the event file | `ExecuteShell`, `ExecuteCommand`, `ReadFile`, `WriteFile`, `Record`, `Query` | the API over HTTP, the world | late or lost answers, fallbacks, several processes on one file, kills | nothing unpermitted in enforced mode; the event file tells the truth |
| transform engine `internal/transform` | the working copy of the text | `ApplyTransforms` | endpoints, gate | offsets that go stale, overlaps, nonsense from clients | disjoint findings are replaced exactly; the rest stays in order |
| detection `internal/scan` | none | `ScanText`: patterns, filter, name recognition | endpoints, gate | spans that are met twice, types listed in three places | recognised names are apart; a filter hides nothing it asks for |
| hooks and scripts `cmd/datafog-shim` | the shim directory | `hooks install/list/uninstall`, the script itself, `run` | gate, PATH | nothing is locked; a script is truncated and written in place; a shim that resolves to itself, or is given as its own target | foreign files are spared; a managed command reaches its binary; an invocation ends |
| middleware, metrics, read endpoints `internal/server` | token bucket; counters under `statsMu` | per request | all handlers | a panic before or after a response was written, the limiter at its bound, counting before or after the answer | counters agree with answers, but for late panics; the limiter's bound |
| demo endpoints `internal/server/demo.go` | a scratch directory | exec, read, write, seed, sandbox | gate; the API itself over loopback | the API calling itself while it limits, panics or shuts down | nothing is done without a permission; what is shown was written |
| API process `cmd/datafog-api` | two servers | start, serve, shut down | all | one deadline for two servers | requests are cut off only at the deadline; the process ends |

How they meet: `main` loads a policy and opens the store; a request passes the
middleware; a decide request is scanned, evaluated, saved as a receipt, cached
under its key and answered. A shim process, started by an installed script, asks
for that decision, records an event and acts. The event file is appended to by
any number of shim processes and read by `/v1/events`. A demo handler is a gate
inside the API, whose questions come back to the API as requests of their own.

## 2. Modules

| Module | Models | State and actions against the code |
|---|---|---|
| `ReceiptStore` | `receipts/store.go` | One action for each step of `Save` while it holds `s.mu` (`BeginSave`, `Rotate`, `WriteLine`, `SyncFile`, `Publish`) and one for each error return (`RotateFails`, `WriteFails`, `WriteShort`, `SyncFails`); `Crash` keeps the fsynced lines and any part of the rest; `Restart` is `NewReceiptStore`, which refuses a file whose lines it cannot read. Two lines that join at a torn end may make one that is too long. Rotation is modelled for programs that embed the package: `main.go` leaves `MaxEntries` at 0, and then `Rotate` is never enabled. |
| `AuditLedger` | nothing: the promise | What is saved stays recorded, what is visible is recorded, what was never confirmed may be forgotten. `ReceiptStore` implements it. |
| `IdempotentEndpoints` | the four POST handlers of `server.go` | A handler is a process: `Reject`, then `Miss`/`Replay`/`Conflict` (lookup), `SaveReceipt`/`SaveFails` (decide only), `Computed`, `Finish` (cache write), `Respond`; `Crash` and `Restart`. `SaveFails` is a failed write, or a failed sync with the line in the file: `leftover` is the receipts that are in the file although nobody was told so, and `Restart` loads them. `met` only records which calls overlapped. The payload stands for what the hash functions keep of a request. |
| `IdempotencyContract` | nothing: the promise | A key is bound to at most one execution per life of the service. `IdempotentEndpoints` implements it for clients that wait. |
| `PolicyEvaluation` | `policy.go`, `MatchesAdapter` | `Load`/`Refuse` is `LoadPolicyFromFile` with `ValidatePolicy` and `NormalizeForEvaluation`; `Ask`, `Skip`, `Take`, `Conclude` are the iterations of `EvaluateSorted`. Strings are names, `Fold` is lower case, `Registry` the alias table. |
| `PolicyGate` | `enforcer.go`, `http.go`, `events.go` | A call is a process of its own: `Send`, `Receive`/`CheckFails`, `Record`, `Act`/`ActFails`, and `Kill` anywhere; `Serve` is the API. `Redacts` needs what the code needs: a plan (`HasPlan`) and something found. `Query` is an operator over the lines of the event file and `Reply` what `handleEvents` makes of it, the events or, when the scanner failed, a 500 with none; of a query's filters, the time range and the adapter are told by the calls whose events they let through. A partial write may lack no more than its newline, and the next event is then appended to the same line: what that makes does not decode and may be too long for the reader. |
| `Detection` | `detector.go`, `filters.go`, `ner.go` | Operators only. A text is a sequence of words, a word is told by the lists it is in. `ScanText` is the patterns in their order, then the names: the walk over the tokens is a recursive function. `EntityTypes` names what a finding can be. |
| `TextTransforms` | `transform.go`, the plans of the handlers | EXTENDS `Detection`: a text is scanned or comes with findings; then `Plan`, `Sort`, one `Replace` or `SkipOne` per finding. `queue` is `filtered`, told by the places of its findings. A byte is a position of the input or of the replacement of a finding, so that order, loss and doubling show. |
| `ShimHooks` | `cmd/datafog-shim/main.go` | A process is one invocation. Install: `Which` (the setup script's `command -v`), `Resolve` (the `--target`, which may be any file that is there, or `LookPath`), `Look`, `Truncate`, `Write`/`WriteFails`; uninstall: `Look`, `Remove`; list: `ReadDir`, `ReadEntry` for each; a command: `Find` on its own PATH, `ReadScript`, and the gate's outcome. `Plant` is another program at the same path. A process may stop before any step. |
| `ServerFrame` | `wrapMiddleware`, the limiter, counters, read handlers; `cmd/datafog-api/main.go` | A request is a process: `Arrive`, `Unauthorized`/`Limited`/`Admit`, `Handle`/`WrongMethod`/`Panic`, `PanicLate`, `Record`, `Deliver`. `status` is what the client is sent, `tally` what the deferred function counts: after a panic behind the answer the two differ. The process: `Listen`, `ServeFails`, `Signal`, `ProfilingDown`, `Drain`, `Close`. Tokens are counted in parts, of which `Ticks` make one. |
| `DemoEndpoints` | `demo.go`, composed with `ServerFrame` | A demo handler (`Ask`, `Permitted`/`Blocked`, `Execute`, `ReadFile`, `Truncate`, `Write`, `ReadBack`, `Panics`) is a client of the server that runs it: its inner request goes through the same middleware, limiter and shutdown. |
| `MC*` | | The constants of the runs. |
| `*Proofs` | | Theorems about the module they are named after. |
| `SequenceLemmas` | nothing: facts | What `FlattenSeq`, `SubSeq` and recursion from the end of a sequence give, for `PolicyGateProofs` and `TextTransformsProofs`. |

The definitions whose comment begins with "Mutant:" are wrong variants of
the one that follows. They are used nowhere in the specifications; each shows
that a property notices the change.

## 3. What the runs check

| Run | Shows | Bounds, and why they do |
|---|---|---|
| `store` | With whole lines and rotations a second apart, no failed write, failed sync, crash or rotation loses an acknowledged receipt; memory, counter and file stay in step; the store implements `AuditLedger`; every `Save` returns. | Three receipts, rotation after one entry, three seconds: each receipt can be before, in and after a rotation, and a crash can hit any of them. |
| `store_faults` | With torn writes, lines above 1 MiB and rotations in one second, a receipt that the disk held is lost only when a rotation reuses an archive's name; and a start is refused only after a `Save` failed or was cut off, or a receipt above 1 MiB was saved. | Five receipts, rotation after two entries, two seconds: two rotations can take the same name, and the second buries receipts of the first; one receipt is too long. |
| `endpoints` | Whatever overlaps, fails or restarts, answered and cached decisions have receipts, no client gets the answer to another question, a refused call is nowhere but, after a failed sync, in the file; conflicts have a cause, and so has a second receipt of a key: calls that overlapped, or a save that was not acknowledged. | Clients that do not wait, as after a timeout. Three calls: a writer, a replay and a conflict on one key; decide and scan, which differ in the receipt (transform and anonymize have the shape of scan); one restart. |
| `endpoints_contract` | With clients that wait for an answer before they use a key again the handlers implement `IdempotencyContract`. | As above. |
| `policy` | The outcome follows from the matching rules by the documented precedence; trace, reason and plan come in order and complete; denials survive further findings; aliases of one family are equal, and what an action without a tool falls under. | All files of up to three of nine rules, each with a condition of its own: three rules can be an early, a winning and a late one. Duplicate IDs and an unknown effect make refused files. |
| `gate` | Two calls with a choice of four settings (`shell` stands for both kinds of command): nothing is done in enforced mode without a recorded permission, acts come after their events, the events tell the truth, bytes that the API recorded as to be redacted pass as they are only in a call that never got that answer, replies of `/v1/events` to the same query grow or fail for good, calls are settled although the API may never answer. | Two calls: one torn or too long line and one that follows it. Queries for all events or those of one call, of any decision or of one, in pages of one or two: a page can be full, and an event pass or fail each filter. |
| `transforms` | Disjoint findings are replaced exactly, in whatever order they come; no set of findings reorders or doubles the input; recognised names do not overlap; a filter only ever adds what it asks for. | Four bytes and three findings: nested, crossing, adjacent, equal, reversed, out of range; replacements of length 0 to 4. Scanned: every text of four of nine words, in which a place of two words, a person, a company, a connector, an abbreviation and a word that a pattern takes can meet. |
| `hooks` | Parts of scripts have a culprit, scripts that wrap themselves were given themselves as a target or looked up on a PATH with the shim directory, nobody observes unasked, foreign files are spared, invocations end. | Three processes on one command: two that write (install against install or uninstall; with the binary, the script, a bare name or what `command -v` finds as the target) and one that lists or invokes; a foreign file or one with an over-long line can be there from the start or be planted meanwhile. |
| `server` | The limiter's bound, counters that agree with the answers, fair snapshots, no cut-off before the deadline and an end of every shutdown, demo acts only on permissions of its own, contents that read back. Handlers may panic at any step, before and after their answer. | Two clients and their two inner requests, nine pairs of routes, two requests a second, a shutdown of one tick with a profiling server: the inner request can be let through, limited, refused by the shutdown or panic. |

Three runs show that the program does not do what its documents say; `findings`
in `PROJECT.json` quotes them:

| Run | Shows |
|---|---|
| `store_torn_tail` | `Save` appends to a torn tail: the receipt is acknowledged and gone after a restart. |
| `endpoints_race` | Two overlapping calls reuse a key with different payloads and both succeed. |
| `hooks_rerun` | A second run of the setup scripts, with the shim directory first on the PATH, finds the script with `command -v`, passes it as `--target` and wraps it in itself. |

Deadlock is checked in the runs of the store, where a restart can always be tried. Elsewhere the
processes are finite and stop when all calls are done, or the process has exited.

### Fairness

- `store`: `Save` runs to its end once called (its steps are a straight line
  under the mutex). Nothing is assumed of the disk, where a step is taken even if
  it fails, nor that the process is started again.
- `gate`: the client's own timeout (`http.go:42`) ends its wait, and the answer
  is then dealt with. Nothing is assumed of the API, nor of the command or file
  access, which may take for ever. So `CallsAreSettled` says that a call is
  cleared or blocked, not that its command ends.
- `hooks`: an invoked command goes on (`Invoke`); install, uninstall and list may
  stop anywhere, and so may whatever plants files.
- `server`: time passes (`Tick`), `main` goes on when the profiling server's
  shutdown has met its deadline (`ProfilingDown`), and `Drain` or `Close` follows
  (`Cleanup`). Nothing is assumed of handlers, clients or profiles: `ShutdownEnds`
  rests on the deadline (`main.go:115`) and on `Close`.

## 4. What is proved

TLAPS checks the following for all values of the constants: any number of
receipts, calls, rules, processes and requests.

| Theorem | Property | Argument |
|---|---|---|
| `TypeCorrect` | `TypeOK` of the store | inductive by itself; torn writes included |
| `AckedNeverLost` | `AckedKept` | from `~TornWrites` and rotation off or a second apart. `AckedKept` is not inductive: `SaveProgress` adds that the line of the `Save` in progress is the last one, and fsynced before it is published. |
| `MemoryIsRight`, `RotationBoundHolds` | `MemoryAgreesWithFile`, `RotationBound` | from `~TornWrites`. `LinesApart`: no receipt has two lines in the file; `CurIsFresh`: the one being saved is not yet in memory. So the counter is a cardinality, and the lines beyond it are those of saves that were not acknowledged. |
| `StoreImplementsLedger` | `ImplementsLedger` | from `~TornWrites` and rotations apart. `LedgerStep` maps each action to a step of `AuditLedger` or a stutter: writing a line records, `Publish` confirms, an error refuses, a rotation archives, a crash forgets at most what was not confirmed. `ArchiveIsOld`: a receipt that is being saved is in no archive yet. |
| `RefusalsHaveCauses` | `RefusalHasACause` | nothing is assumed of the disk. As long as no `Save` failed, none was cut off and none had a long receipt, every line is whole, of one receipt and short. |
| `LostByReusedNameOnly` | `LostOnlyByReusedName` | nothing is assumed of the disk. `AckedAreSynced`: the lines of acknowledged receipts are among the fsynced ones, so a crash does not take them. |
| `EndpointsTypeCorrect`, `DecisionsAreRecorded`, `AnswersMatchQuestions`, `RefusalsAreClean`, `ConflictsAreJustified` | the invariants of `endpoints` | one inductive invariant `IInv`. `Provenance` adds where a call in progress, a stored receipt and a cache entry can come from, `Leftovers` that a receipt in the file that was not acknowledged is of a decide call that was cut off or answered 500. |
| `SecondReceiptsAreExplained` | `SecondReceiptHasACause` | nothing is assumed of the clients. Two calls that did not meet are ordered: the second looked the key up after the first was through, and had the first succeeded it would have found the entry. |
| `EndpointsKeepContract` | `KeepsContract` | from `~OverlapKeys`, clients that wait. `OneAtATime`: at most one handler works under a key, only while the key is free, and a receipt without a cache entry is the working handler's. Then lookup and cache write are as good as one step, and each handler step is one of the contract or a stutter. |
| `DecisionsFollowPrecedence` | `Precedence` | `Collected` relates the flags to the rules passed so far; `SameRules` says that sorting neither drops nor adds a rule. |
| `DenialsSurviveFindings` | `DenialSurvivesFindings` | matching is monotone in the findings; `TraceIsReal` ties a denial by rule to a rule. |
| `TracesAreOrdered`, `PlansAreComplete` | `TraceInOrder`, `PlanIsComplete` | `WalkInv` at each rule of the walk: `Placed` (the rules are a stable sorting of the file), `Traces` (the trace is the increasing enumeration of the hits), `Reasoned` (the reason is the first hit's that gives one), `Planned` (the plan holds the steps of the hits). At the end the hits are the matching rules, and the trace is a bijection onto them, which gives its length. |
| `AdaptersMeanFamilies` | `AdapterFamilies` | from `RegistryAssumption`, that canonical names name themselves and no blank name is registered (`registry.go:83-90`). |
| `GateTypeCorrect`, `EnforcedActsAreOnRecord`, `EventsAreTruthful`, `RedactionReachesFiles` | `TypeOK`, `EnforcedNeedsReceipt`, `EventsTellTruth`, `RecordedRedactionHolds` | `AnswersAreReceipts`, `Progress` (where a call can be and what it decided) and `LinesAreEvents` (a line that decodes is the event of its call, and the only one). |
| `ActsAreOnFile` | `ActedIsOnFile` | a balance: the recorded calls without a line that decodes are at most as many as the torn lines, each of which swallows one event at most; an event that is appended to a part pays with it. |
| `RepliesKeepTheirEvents` | `RepliesGrowOrFail` | for every query, and lines of any length. A reply is a concatenation of one piece for each line (`QueryIsPieces`); whether the filters let it through is up to the line alone. A line that is appended stands behind the others in every page and hides none of them, so their pieces stay what they were, and a reply is a prefix of the one after it (`FlattenSeqAppend`), unless the scan fails; a page that is full stays full, and a line that stopped the scan stays in front of every later one. |
| `HooksTypeCorrect`, `PartsAreExplained`, `SelfWrapsAreExplained`, `ObservationIsAskedFor` | `TypeOK` and the invariants of `hooks` | `Traced`: every target and mode that a file or a process carries goes back to an install that was asked for it, told it by its setup script, or found it on its PATH, and what a process was asked for never changes; `Torn`: a part has a process that has it open or broke. |
| `ForeignFilesAreSpared` | `ForeignIsSpared` | `LookedOK`: who goes on saw what it may touch; `OpenOK`: what a process has open and still stands at the path is a script. |
| `ServerIsConsistent`, `LimiterHolds`, `CountersAreRight`, `SnapshotsAreFair`, `DemoActsOnDecisions`, `ShutdownIsPatient`, `WritesReadBack` | the invariants of `server` | Most actions move one request along an edge of a small graph (`Shift`, `Edges`) and are dealt with once. `WindowOK` makes the limiter's bound inductive: what a window spent and what the bucket holds are together bounded at the last refill. `HitsOK` and `ShiftKeeps`: only `Record` changes the set that is counted, by one; a late panic changes the tally of a request that is not in it yet (`PanicLateKeeps`). `SnapInv` ties a snapshot to the answers before it, `FileInv` a content to its writer or to a write that overlapped. |
| `TypesHold` | | The inductive invariant of a request for a transform: `StageOK` (what a stage finds, and that scanned findings are those of the text), `QueueOK` (the queue holds the findings that the plan covers, all of them, sorted from the end), `LoopOK`. |
| `OrderIsKept` | `InputKeepsOrder` | `BytesOK`: a splice takes bytes out and puts replacements in, whatever the offsets are, as long as a finding starts before it ends (`SpliceKeepsOrder`). |
| `ReplacedExactly` | `ReplacesExactly` | `ReplacedSoFar`: at each turn of the loop the working copy is the input with the usable findings passed so far replaced (`Whole`). With `QueueOK` a finding that is met later lies in front of those met before (`LaterLiesInFront`), so its offsets are still those of the input: there `SpliceFlat` says that the splice changes its pieces only, and `UsableIsInRange` that the bound the loop compares with, the length of the working copy, lets the same findings through as the length of the input. |
| `NamesStandApart` | `NamesAreApart` | `NamesAfter`: what the walk finds from a token on lies behind that token and is apart, by induction down the tokens (`NamesFromAfter`); a span ends before the next token that is tried (`NameInSpan`, `TokensInOrder`). |
| `FilterHidesNothing` | `FilterOnlyAdds` | patterns are filtered one by one (`ScannedPatterns`); for names, both walks are compared token by token from the end (`NamesOfOneType`). Where only the full walk passes over a span, the other goes on inside it; the tokens of a span share its end (`SpanEndShared`), so it loses nothing of what stands behind (`LaterNamesStay`). |
| `SpliceFlat` | | The lemma on sequences under `ReplacedExactly`: a run of untouched pieces replaced in a concatenation. |

The proofs use the ASSUMEs of the modules and, where the table says so, an
assumption on the disk or the clients that the constants of the run also make;
TLC evaluates the ASSUMEs in every run. Each `*Proofs` module has a lemma per
action, or per kind of action, and a theorem that combines them.

Of the constants of `TextTransforms` and `Detection` the proofs assume that texts and
findings are sequences of what they should be, that modes are among the six which
`handleTransform` and the validation of policies let through, and that no pattern
reports a type that the name recognition reports (`FindingsAssumption`,
`JobsAssumption`, `LengthAssumption`, `PatternsAssumption`). Which words are in
which list, which words match a pattern and how long a replacement is stays open.

These proofs are about recursive functions and folds. The induction theorems of
the library take an operator as a parameter, which the provers cannot instantiate, so
`SequenceLemmas` starts from the well-foundedness of the strict subsets of a set:
a non-empty set of numbers has a least one (`LeastOf`). An induction is then the
least counterexample, and a recursive function is characterised by such an
induction on its domain (`DownwardRecursion`). The invariants `TypeInv`, `BytesOK`,
`ReplacedSoFar` and `FreshOK` were model-checked with the constants of `transforms`
before they were proved; they are not among the properties of that run, which
they imply.

Only checked by TLC: liveness under fairness, which is out of the prover's reach
(`SaveReturns`, `CallsAreSettled`, `InvocationsEnd`, `ShutdownEnds`).
Every invariant and every safety property of the passing runs is a theorem.

## 5. What is not modelled

- Regular expressions, checksums and word lists of `internal/scan`: a constant
  says which words they match. `ScanNER` has no caller.
- Hashing, JSON, HTTP headers, wording, logging and latencies. A collision of
  hashes or of `newID` does not happen in the models.
- The option parser of `datafog-shim` and the output of its subcommands `shell`,
  `run`, `read-file` and `write-file`, which hand their arguments to the gate;
  reading the environment; `Resolve` and `KnownAdapters`, which only format options.
- `docs`, `scripts`, `config`: read for what they promise.

Simplifications that a reader should know of. A connection is a request: whether
a kept-alive connection is closed between requests is left out. The exit of the
process follows `Close` at once. A file of another program in the shim directory is
a text, or one with a line that is too long to be read. A byte of a file that is no
valid UTF-8 is counted as three by `byteOffset` (`ner.go:315-321`), so the offsets of
names behind it drift; the words of the models have the length they are counted with.
An answer that the client gives up reading is `lost`, and a body that a late panic
wrote an error behind does not decode for the gate (`http.go:100`).

Seen while modelling, and not the subject of a run:

- *Policy.* The `entity_transforms` of an `allow_with_redaction` rule are never
  used (`policy.go:233`). Validation folds the case of a transform's entity type and
  `ApplyTransforms` does not (`policy.go:121`, `transform.go:25`). When several
  transform rules match, the step of the rule with the lowest priority wins
  (`transform.go:20`). A rule bound to an adapter that is not registered applies to
  actions that name no tool (`registry.go:162`; `AdapterFamilies` says exactly which).
- *Gate.* Redaction does not reach the arguments of a command
  (`enforcer.go:295`). The command line sends neither text nor findings, so rules
  with `entity_requirements` never match there (`cmd/datafog-shim/main.go:209`). An
  event line above 1 MiB makes every later `/v1/events` request fail unless its page
  ends before that line: `Query` returns the events in front of it and the scanner's
  error with them (`events.go:110`, `events.go:141`), and the handler answers 500
  (`server.go:724`); a page holds the oldest events
  (`events.go:136`).
- *Transforms.* Of two overlapping findings the outer one can be left in the output
  (`transform.go:46`). `entity_modes` keys that become equal by trimming make the
  result depend on map order (`server.go:523`).
- *Endpoints.* The four caches are never trimmed (`server.go:484`). A caller who was
  told 500 may find the receipt after a restart, when the sync failed and not the
  write (`store.go:121`).
- *Store.* A crash in the very first append leaves a file that no start accepts any
  more (`store.go:173-179`), and so does a line above 1 MiB (`RefusalHasACause` says
  that there is no other way).
- *Hooks.* The setup scripts pass `--api-token` to `hooks install`, which has no such
  flag. A forced install over a file that is not executable leaves it so. The
  `sensitive` option does not reach the script. `hooks list` fails as a whole when a
  file is removed meanwhile or has a line above 64 KiB. A script that was truncated to
  nothing is no managed one, so repeating the install needs `--force`.
- *Server.* A panic after an answer was written is counted as a 500 that no client saw,
  and its error is appended to the body (`server.go:177`). A profile that is still taken
  uses up the shutdown's one deadline. A demo request spends two tokens of the limiter. A `DATAFOG_ADDR` with a
  host makes the demo's own URL invalid. `log.Fatalf` skips the demo's cleanup. The
  demo's timeout of 10 s equals the server's write timeout, so the answer to an
  operation that timed out is not delivered. Requests are accepted while the
  profiling server is shut down. A demo answer says `blocked` also of commands that
  ran and failed.

## 6. Plan

Written, in this order: `ReceiptStore` with `AuditLedger`, `IdempotentEndpoints`
with `IdempotencyContract`, `PolicyEvaluation`, `PolicyGate`, `TextTransforms` with
`Detection`, `ShimHooks`, `ServerFrame` with `DemoEndpoints`; and the proofs.

Next: a composition of `PolicyGate` with `IdempotentEndpoints`: the receipts that
`Serve` saves are those of `handleDecide`, and the lifecycle of `ServerFrame`
around both.
