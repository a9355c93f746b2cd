# A TLA+ model of prepalert

prepalert receives Mackerel's alert webhooks, runs the queries that the matching rules need, and
reports the results in the alert's memo and in graph annotations.  This directory models what it
does from its configuration to the two reports: the modules are checked with TLC on small
instances, and theorems about them are proved with TLAPS for all instances.

* [The system](#the-system): its parts, their state and how they interact
* [Modules](#modules): which module models which part, and how state and actions correspond
* [Runs](#runs): what is checked, with which bounds and fairness
* [What the runs found](#what-the-runs-found)
* [Proofs](#proofs)
* [Plan](#plan) and [Not modelled](#not-modelled)

## The system

| part | code | state | operations | talks to |
|---|---|---|---|---|
| webhook server | `app.go` `ServeHTTP`, `run.go`, `cli.go` | the loaded configuration, two readiness flags | start, `POST`, `GET` (viewer) | puts the request into the SQS queue through canyon |
| queue | canyon, SQS (`lambda/example_aws.tf`) | messages, receive counts, visibility | receive, expire, delete, redrive | worker |
| worker | `app.go` `serveHTTPAsWorker` | one message at a time | parse, execute, answer 200 / 400 / 500 with `Retry-After` | rule execution |
| rule execution | `app.go` `ExecuteRules`, `rule.go`, `provider/function.go` | `evalCtx`, `errs`, `mu`, a goroutine per query, the matched rules | match, launch, run a query, settle its status, execute the rules, flush, join | providers, updater |
| updater | `updater.go` | section texts and descriptions of one execution, `u.mu` | `AddMemoSectionText`, `AddService`, `AddAdditionalDescription`, `Flush` | Mackerel service, backend |
| Mackerel service | `mackerel.go` | a cache of alerts (by pointer, for a minute), a cache of monitors | `GetAlertWithCache`, `UpdateAlertMemo`, `PostGraphAnnotation` | Mackerel's API |
| memo text | `updater.go`, `util.go` | the alert's memo | find a section, replace, trim | updater, backend |
| backend | `backend.go` | bucket, key prefix and template, the viewer's URL and login | set up, `Upload` | S3, the memo's link |
| retry policy | `retry_poilcy.go` | interval, jitter, factor, maximum | `SetRetryAfter` | worker |
| configuration | `hcl.go`, `rule.go` | providers, queries, rules, flags | `LoadConfig`, `decode...Blocks` | plugins, providers |
| plugins | `plugin/` | child process, gRPC client, query schema, decoded blocks | start, `NewProvider`, `NewQuery`, `Run`, close | configuration, queries |
| query results | `provider/query_result.go` | rows and columns | conversions to tables | rendering |
| SQL and AWS providers | `provider/*/` | a database handle | create, run a query | databases, AWS |
| viewer, command line | `backend.go`, `cli.go`, `init.go` | none | pages, flags, a template of a configuration | browser, files |

**Rule execution** starts one goroutine per query that the matched rules mention.  Whenever a query
succeeds, its goroutine takes `mu`, enters the result in the shared evaluation context, renders *all*
matched rules with it and flushes them to Mackerel, so that a report grows while slow queries run.
Hard here: goroutines start while main still enters other queries; a flush fails in the middle; an
append to `errs` is not under the lock.  Right means: one renderer at a time, a nil result only for
a complete report, and no report that takes back what an earlier one said.

**Updater and Mackerel service** do read, modify and write on the memo of an alert that other executions
(webhooks of the same alert, other Lambda instances) and people write too, through a cache that hands
out a pointer.  Right means: what was acknowledged stays in the memo, one section, one annotation,
and nothing lost of what people wrote.

**Server, queue and worker** run at least once: answers get lost, messages come back while they are
still being worked on, instances die and are started with configurations that do not load.  Right
means: nothing that was accepted with 200 is lost, and everything settles.

**Configuration and plugins** are read once, in a fixed order, by decoders that each report some errors, drop
others and skip what follows, while the processes of the plugins start, refuse, die and must be killed in the
end.  A process may go on with what was decoded.  Right means: what runs has all it needs, no error gets lost
on the way, and every plugin that was started can be killed.

**The text of a memo** is all that an execution knows of earlier ones: sections are found again by their headings,
cut to `max_size`, and put back between what people wrote, and the link leads to the uncut text.  Right means: to
a reader the memo is a board on which each rule has one place, nobody's text is lost but for lack of space, the
link leads to what was cut, and a redelivery changes nothing.

**Queries of plugins and databases** turn blocks of the configuration into a request, and an answer of another
program into a table and its texts.  Hard here: Go's map order decides about merging and about columns, answers
are of any shape, the plugin may die at any moment.  Right means: parameters arrive where they were written, the table
is what was returned, its texts agree, and a message that failed waits as long as the retry policy says.

`PROJECT.json` has a list of the hazards, each at its line.  Where the code does go wrong there, the property that is named
excepts that case or a violation run shows it, and the note says which; a property under such a hazard shows that
nothing else goes wrong.

## Modules

`Report` is the abstract promise of an execution.  `RuleExecution` is one execution, and is
proved to implement it.  `AlertUpdate` composes the flushes of several executions on one alert: what is one
step `FlushMemo` or `PostAnnotation` in `RuleExecution` are the steps `Read`, `Compose`, `Update`, `Find` and
`Post` there.  `MemoDocument` is the same `Compose` and `Update` once more, with the text that they read and
write; it is proved to implement `AlertBoard`.  `BackendSetup` is the part of the configuration that it
needs, and is composed with it.  `WebhookDelivery` is what makes executions happen: each execution is one step,
`ExecutionFails` or `ExecutionSucceeds`, which stand for the outcomes of `RuleExecution`.  `WorkerQueries` composes
`QueryResult` and `RetryPolicy`: what is `Return` in `RuleExecution` are the steps from `Call` to `Return` there,
and what is the time between two `Receive` in `WebhookDelivery` is `waits`.
The modules `MC...` give values to the constants; the modules `...Proofs` hold the theorems, `Induction` what their
proofs need to speak of loops.

### `Report`
What a reader of the alert may rely on: facts (a query's result) become available, the published report
only ever grows, and success is announced only when every fact is published.  A failure is announced
otherwise, and may leave any part of it published.

### `RuleExecution`
One call of `ExecuteRules`.  `pc` has main and one goroutine per query; `evalCtx` is the status of each
query in the shared evaluation context; `sectionText`, `descriptions` and `postServices` are the updater;
`memo`, `annotated` and `annotation` are Mackerel.  A text is the status of the queries it mentions
(`Render`), and rendering fails for a query that is absent.

| action | code |
|---|---|
| `Begin` | match the rules, collect `dependsOnQueries` (app.go:267-287) |
| `Launch`, `LaunchMissing`, `AppendMissing`, `LaunchDone` | the loop over `dependsOnQueries`; the append to `errs` outside `mu` is two steps, a read and a write |
| `Return` | `query.Run` ends |
| `SettleFailure`, `SettleSuccess` | the goroutine after `mu.Lock()` |
| `RunRules` | `rule.Execute` for every matched rule |
| `FlushMemo`, `PostAnnotation`, `EndFlush` | `Flush` |
| `Join` | `wg.Wait()` and what follows |

The order of `Launch` and of the services is Go's map order: any.  An update that fails may have been
applied.

### `AlertUpdate`
Executions on one alert.  A memo is a set of notes that people wrote and a sequence of `## Prepalert` sections;
a section has for each rule the number of the flush that rendered it.  `cached` and `fresh` are the
process's `alertCache` and the age of its entry.  `shared` says that the alert object a handler holds is
still the cached one, which `Update` changes in place.  `base` is `currentMemo`, `alert` is `alert.Memo`,
which `Compose` reads again.

| action | code |
|---|---|
| `Read`, `ReadFails`, `Expire` | `GetAlertWithCache` (mackerel.go:146-163), `currentMemo := alert.Memo` |
| `Compose`, `UploadFails` | updater.go:85-138 |
| `Update`, `UpdateFails` | `UpdateAlertMemo` (mackerel.go:56-74) |
| `Find`, `Post` and their failures | `PostGraphAnnotation` (mackerel.go:80-122) |
| `EndFlush` | return of `Flush`; another flush of the same execution, or its end and the answer to the queue |
| `Receive`, `Crash`, `AddNote` | a delivery, the death of a process, a person's edit |

### `WebhookDelivery`
`config` is what each instance was started with.  A configuration is `sound`, `partial` (errors after the
prepalert block: the server is ready, the worker is not) or `unusable`.  `status` and `receives` are the
message in the queue, `job` what a worker is busy with, `reported` the webhooks for which `ExecuteRules`
returned nil with all its rules.  `Expire` needs no worker to have finished: a message may be processed
twice at a time.

| action | code |
|---|---|
| `Start` with `MayRun` | `RunCLI` and `Run` (cli.go:88-100, run.go:26-46) |
| `Post` | `serveHTTPAsWebhookServer` |
| `Reject`, `Ignore`, `ExecutionFails`, `ExecutionSucceeds` | the ways out of `serveHTTPAsWorker` |
| `Receive`, `Expire`, `Delete`, `DeadLetter`, `Stop` | external: canyon, SQS and the operating system as the code uses them |

### `LoadConfig`
One process from `LoadConfig` to `Close`.  `faults` says where the file is wrong, `diags` where the code
reported an error; the places are the sections, the blocks and, for a rule, its schema (`"rule"`) or something
inside of it (`"action"`).  `queueName`, `webhookServerPrepared`, `workerPrepared`, `providers`, `queries`,
`rules`, `cleanupFuncs` are the fields of `App`; a rule is `blind` if its `when` was not decoded and `crippled` if
an error inside of it was dropped.  `registry` is the table of provider factories; `proc` and `rpcClient` are the
plugin's process and the client's connection.  It details the three configurations of `WebhookDelivery`: `sound`
is a load with no report, `partial` one after which only the server is prepared, `unusable` one after which
neither is.

| action | code |
|---|---|
| `Parse`, `DecodeContent`, `FinishLoad` | `LoadConfig` and `DecodeBody` (hcl.go:29-129) |
| `DecodeAttributes`, `LoadPlugin`, `EndPlugins`, `DecodeAuth`, `DecodeRetryAndBackend` | `decodePrepalertBlock` |
| `SkipPlugin`, `FailPlugin`, `RefusePlugin`, `RegisterPlugin` | the ways `App.LoadPlugin` and plugin/public.go:72-154 end |
| `DecodeProvider` with `Reject`, `Skip`, `Refuse` and `CreateProvider`, `EndProviders` | one round of `decodeProviderBlocks` |
| `DecodeQueries`, `DecodeRules` | `decodeQueryBlocks`, `decodeRuleBlocks` with `Rule.DecodeBody` |
| `GiveUp`, `RunCommand`, `StopCommand` | `RunCLI`, the guards of `Run` and `Exec` |
| `Cleanup`, `EndClose` | `App.Close`, `Client.Close` |
| `PluginDies` | external: the process of a plugin ends |

The order of `LoadPlugin` is Go's map order: any.  Queries and rules are decoded in one step each, for nothing
that another actor does can matter to them.

### `AlertBoard` and `MemoDocument`
`AlertBoard` is what a memo is to its readers: what people wrote above, what each rule reported last, what
people wrote below.  `due` has what an execution is about to report, for the rules that it has something of.  `Report`
takes nothing from anybody; `ReportCut` says what may go when the board is full: what is below first, then sections from
the end, and of what is above nothing that fits.

`MemoDocument` has the memo as a sequence of lines: headings, links, and lines of text.  Blank lines are left out, but
for the newline at its end (`newline`), which `Flush` adds after the cut, and which counts at the next one.  `docs` are
the objects that were uploaded, `names` and `texts` the updater's `memoSectionNames` and `memoSectionText`; `ahead` is kept for
`LinkCovers` only, and names the rules whose linked text got ahead of a memo that was not updated.

| action or operator | code |
|---|---|
| `triming`, `extructSection` | util.go, line by line; a header is found as a text (`Begins`) |
| `Put`, `Sections`, `NewSection`, `WholeMemo` | updater.go:85-123: the loop over the names, link or full text, replacing or adding |
| `Trailing`, `NewMemo`, `Update` | updater.go:124-143: is it too long, with the newline that was there; the cut; the new newline; `UpdateAlertMemo` |
| `Execute`, `ExecuteAgain` | a fresh updater, or the next query of the same execution, which appends its names again, also after a flush that failed |
| `Upload`, `Keep` | `S3Backend.Upload`, `DiscardBackend.Upload` |
| `FlushFails` | an error of `Upload` or `UpdateAlertMemo`, or the death of the process; the updater keeps its names and texts |
| `WriteAbove`, `WriteBelow` | external: people in Mackerel's console, under a heading of their own |

The properties say what the code does not keep, too: with a full memo what stands behind the section is lost
(`WasCut`, `ReportCut`), and of a rule that is not executed the new full text has only what the memo had.

### `BackendSetup`
`SetupS3Buckend` attribute by attribute.  `set` are the fields of `S3Backend` that are no nil pointers.

| action | code |
|---|---|
| `NewClient`, `Content` | backend.go:60-114 |
| `DecodeAttribute`, `EndOfLoop` | the loop over `content.Attributes`, in any order |
| `Check`, `NewViewer` | the defaults and joint checks; `ls3viewer.New` and `app.backend = b` |

### `WorkerQueries`, `QueryResult` and `RetryPolicy`
A worker with one query, of a plugin or a database, that each of its messages needs.  `schema`, `body` and `nested` are
the query's schema, its blocks in the file and `NestedBlocks`; `request`, `given`, `wire` and `result` are a call on
its way: the parameters, what was returned, the response message, the `QueryResult`.  `written` and `policy` are the
retry policy of the file and of the process, which `once` puts into order for all handlers.

| action | code |
|---|---|
| `NewProvider`, `NewQuery` | plugin/public.go:168-250 with the schema's way over gRPC |
| `Receive` | another delivery of a message that was answered with an error |
| `EvaluationFails`, `Call`, `CallFails`, `Serve`, `Return` | `RemoteQuery.Run` with `toJSON`, `GRPCClient.RunQuery` and `GRPCServer.RunQuery` |
| `QueryDatabase` | `Run` of sqlprovider and `NewQueryResultWithSQLRows` |
| `FailWithoutWait`, or `FailWithPolicy`, `FailOnce`, `FailAndWait` | `SetRetryAfter`, in steps, for handlers share the policy: the interval is looked at before the `Once`, which may change it; the answer 500 |
| `Die` | external: the process of the plugin ends, and nobody starts another |

`QueryResult` has operators only, all but one for a function of the code: `Collected` is the set of orders in which
loops over Go maps may find the columns.

## Runs

Each passing run checks for deadlock too, but for `load_config`: a process ends.

| run | question | bounds |
|---|---|---|
| `rule_execution` | do the interleavings of an execution add up to a right report, and does it return? | 3 queries, of which one is not configured, and 4 rules: a memo and annotation on two queries, a memo on one, a rule on the missing query, and one on none.  Two goroutines race with each other and main; any subset of the rules may match; `FairSpec` |
| `alert_update` | do successive executions keep the memo right? | 2 webhooks, 2 flushes each, 2 deliveries, 1 process, 1 note, one execution at a time, with crashes and lost answers |
| `webhook_delivery` | is anything accepted ever lost? | an alert that may be posted twice and an unparsable body; a server, two workers; 2 receives; configurations may be `partial` |
| `webhook_delivery_live` | does everything settle? | an alert and a test webhook, one worker, `FairSpec` |
| `load_config` | does an error get lost, does an incomplete worker run, does a plugin stay? | every file with at most two faults in eighteen places; 2 plugins, a provider from one of them and a built-in one, a query on each, a rule; every command, mode and error handling |
| `alert_memo` | is the text of a memo kept right, and does its link lead to the rest? | every `s3_backend` block with at most one thing wrong, or none; 2 rules, one of them with a `max_size` of 2 lines; texts of 1 and 3 lines; a memo of at most 8 lines; 2 places for the full text, which are alike (symmetry); 2 flushes of an execution, any number of executions; a note |
| `worker_queries` | do parameters and answers get through, and does a failed message wait long enough? | 2 messages with 3 deliveries each; 3 query bodies, 3 schemas, 8 answers of a plugin, a database; 4 policies or none; 2 random numbers |

Two goroutines are what a race needs; a third query only repeats it.  A second flush is
the first that meets its own section, a second delivery the first that meets an earlier
one's, and a second receive the first that may overlap with another.  A second fault is the first that an earlier
one may hide.  Eight lines just hold the short sections of both rules with a note under its heading, or one long section
beside the short one, so that the cut meets what is below, the sections themselves, and a memo that is only
a newline too long; the objects are overwritten, as two places are fewer than
flushes.  The answers have rows that are too short and too long, no columns, keys that differ from line to line, and
cells and parameters that cannot be read; the policies have an unset factor, an interval and a jitter
above the maximum, and each of the four negative.  A third delivery is the first whose interval meets the maximum.

**Fairness.**  `RuleExecution`: weak fairness of main, of each goroutine and each renderer, for Go runs
whatever can run; it assumes that queries and Mackerel's API answer (there is no timeout in the code).
`WebhookDelivery`: a busy worker answers and a sound configuration is started in the end (weak), the queue
shows a hidden message again and redrives it (weak), and does not starve a visible one (strong: crashes may
disable receiving again and again).

`KnownNotesStay` says that a flush removes no note that its process had cached before; `AckedTextStays` and
`OneSection` hold for executions one after the other in one process, which is what `Parallel = 1` states, and
the violation runs below show what happens otherwise.  `OneAnnotation` too needs `Parallel = 1`: two executions
that look for the annotation at the same time both create one.

`LinkCovers`, `FlushIsIdempotent` and `RenderedIsShown` except a memo that was cut at its end (`WasCut`), which
`BoardSpec` and `FullMemoSettles` are about: the first says what may be lost, the second that it is lost only once.
`FlushIsIdempotent` excepts a memo that is only a newline too long as well, for the next flush cuts it.
`RenderedIsShown` needs names of which none is the beginning of another; see
`section_prefix`.

## What the runs found

Each of these runs checks one property that the code's texts or tests suggest, and TLC's trace shows how the
code violates it.

| run | what happens |
|---|---|
| `pending_is_running` | The first goroutine finishes before main has entered the other queries: they are absent, not "running", and its rules fail to render. |
| `described_once` | With two successful queries the annotation repeats the descriptions of the first flush. |
| `acked_text_stays` | Process 2 writes back a memo cached before process 1 reported: process 1's section is gone. |
| `partial_worker` | In the mode `all`, a worker that "is not ready" takes alerts off the queue. |
| `section_prefix` | A rule's section is looked for by its heading as a text: of two rules `a` and `ab`, the flush of `a` replaces the section of `ab`. |

Two more are shown by the same modules under other values, and have no run of their own: with `Parallel = 2`
`OneSection` is violated, for the second of two concurrent flushes appends its section to the memo that already
has the first's (updater.go:122 reads `alert.Memo` again); and `FailureIsShown` of `RuleExecution` is violated when the
last query fails, for no rendering follows and the memo says "running" for ever.

`load_config` passes, and its properties are stated around what the model showed:

* `WrongIsNoticed` excepts two kinds of errors that the code drops, and shows that they are the only ones:
  repeated blocks in `prepalert` (hcl.go:162 ignores what `Extend` returns) and everything inside of a rule
  (rule.go:154 returns `nil` instead of `diags`), so that `validate` accepts an `update_alert` without its `memo`
  although rule.go:185 has a message for it.
* `GuardedServerIsSound` excepts files whose `sqs_queue_name` or `required_version` is wrong: decoding ends
  at hcl.go:198, after the server was declared ready and before the rest of the block was read.
* `ClosedLeavesNoPlugin` speaks of a `Close` that returns.  With a plugin that did not start it panics
  (plugin/public.go:118 calls a nil client), so that the later ones are not killed; and RunCLI does not call it when it
  gives up (cli.go:93).
* `RunningIsWhole` leaves out the mode `all`, which may run a worker whose rules have no `when`; see `partial_worker`.

`alert_memo` and `worker_queries` pass, and their properties are stated around what the model showed:

* A memo that was cut is a newline longer than `AlertMemoMaxSize` (updater.go:136-138: `strings.Trim` and `"\n"` come after
  `triming`).  Whether Mackerel takes it is not known from this code, so that no property forbids it.
* A memo that is just as long as the limit gets its newline on top, and where that stands behind what people wrote below,
  the next flush finds it too long and takes the end of their text, without anything new to say.
  `FullMemoSettles` shows that this happens once, and that the flushes after it change nothing.
* `LinkCovers` asks for the full text of the rules of the last flush only: the full text is put together from
  the memo's sections (updater.go:87), so that it has what was cut of the others.
* `ColumnsInOrder` excepts names behind "time" in the alphabet: the comparison of query_result.go:76 makes each of
  such a pair less than the other, and the order of the columns depends on that of a Go map.
* `TextsAgree` lets `ToVertical` show the name of a column where the cell is no string (query_result.go:146).
* `ParametersArrive` speaks of blocks with no key that begins theirs: with labels `x` and `x.y` one takes the place of
  the other, or not, as the map has it (plugin/public.go:274).
* `WaitsInBounds` has the bounds that the file's policy implies, which may be below 0: nothing looks at the signs
  (hcl.go:432-454).  With a negative `max_interval` the `Once` makes the interval negative, so that handlers that come
  after it set no `Retry-After` at all (retry_poilcy.go:28), while those before it do.
* The name of a query is lost on its way to a plugin: `RemoteQuery.Run` gives it to `GRPCClient.RunQuery`
  (plugin/public.go:307), which does not put it into its request (plugin/provider.go:226-234), and `GRPCServer.RunQuery` reads
  an empty one (plugin/provider.go:151).  The model leaves the name out; the header of `WorkerQueries` says so.
* `TextsAgree` and `ResultIsTheirs` hold because a cell that cannot be encoded fails the query when it settles
  (function.go:133), at every delivery.

## Proofs

`RuleExecutionProofs` proves for any finite or infinite sets of queries, rules and services, under
`ConstantsAssumption` and `NoTextAssumption`: `Typing`, `Invariance`, `RenderersExclude` (`OneRenderer`),
`NothingSwallowed`, `SuccessIsComplete` (`OkMeansComplete`), `AnnotationsFollowMemo`, `ContextSettles` and
`ImplementsReport` (the refinement, of which `MemoOnlyGrows` is a part).  None of the safety properties is
inductive: that nil means a complete report depends on who may render, on which goroutines exist, on what each of
them left in the context, and on what the last flush published.  `Inv` has one conjunct for
each: `ControlInv` (`mu` is held exactly by the renderer), `LaunchInv` (a needed query is to be launched,
has its goroutine, or is an error), `SettleInv` (the context follows the goroutines) and `PublishInv` (while
nothing failed, what the current context renders has reached the updater or Mackerel).  Each has a lemma per
action.

`WebhookDeliveryProofs` proves `Typing` unconditionally and, under `OnlyCompleteWorkers`, `Invariance`,
`DeletionIsDeserved` (`DeletedIsDone`) and `AcceptedIsNotLost` (`NothingIsLost`), for any number of webhooks,
copies, instances and receives.  `OnlyCompleteWorkers` says that no instance in the mode `all` runs with a
configuration in error; `partial_worker` shows that it is needed.  The invariant adds that a message is
processed only by a sound worker, and that what was accepted was sent.

`LoadConfigProofs` proves all seven properties of `load_config` for any plugins, blocks and files, without further
assumptions: `Typing`, `PreparedWorkerIsWhole`, `NothingElseGetsBy`, `RunningWorkerIsWhole`, `GuardedServer`,
`PluginsAreKept` and `CloseKillsPlugins`.  The inductive invariant `IInv` says what an empty `diags` means at each stage:
that everything before it was decoded and is right (`CleanPrepalert`, `CleanBlocks`); what is left when it is
not empty matters only to the server (`Gates`).  `Closing` is `PluginsCanBeKilled` with the fact that cleanups
start when nothing is loaded any more.

`AlertUpdateProofs` proves `Typing` unconditionally, and four properties under `Sequential` (`Parallel = 1`), for any
number of handlers, rules, notes, flushes and tries, with crashes and lost answers: `SectionIsSingle` (`OneSection`)
and `AnnotationIsSingle` (`OneAnnotation`) with any number of processes and however stale their caches, `AckedStays`
(`AckedTextStays`) and `NotesStay` (`KnownNotesStay`) with one.  The invariants are `OneActive` (at most one
flush is under way), `Placed` (who is under way has a process), `SectionInv` (what is in the memo, in any cache and in any
hand has at most one section), `AnnotationInv` (who is to create one saw none), `AckInv` (what was acknowledged is in
whatever may be written next) and `NoteInv` (what is to be written has the notes of the cache).  `CacheFollows` needs no
`Sequential`: under `Alone` (one process, no people, no lost answers) the cache is the memo with any number of handlers at
once; no run checks it.

`MemoDocumentProofs` proves `BackendIsWhole` (`InstalledIsWhole`) and `RefusalIsExact` (`SetupIsExact`) for any blocks.
The invariant `SetupIInv` says what is known in the middle of the loop, in whatever order (`Loop`): `diags` is
set if something decoded was wrong, or the URL was skipped because of it; and of a backend that is being
installed, that it is `Whole`.  `Projection` carries it to `MemoDocument`, whose other steps leave the set up alone.

It proves the properties of the memo too, for any names, texts, size limits, lengths of a memo, executions and edits of
people: `Typing` unconditionally; under `NoBeginnings` (no name begins another
one; `section_prefix` shows why) `ReportsAreShown` (`RenderedIsShown`), `LinkLeadsToIt` (`LinkCovers`),
`FlushAgainChangesNothing` (`FlushIsIdempotent`) and `MemoIsABoard` (`BoardSpec`, the refinement of `AlertBoard`).
There are two invariants.  `Typed` adds to the memo's part of `TypeOK` only that each name in `names` has a text, as the
code's map has an entry for it.  `FlushInv` is what the others follow from:

* `Framed`: a memo is free text with at most one section of prepalert in it, which has a header, maybe a link, and
  lines of sections of which no header comes twice; below it is nothing or another `## ` heading.  Without it,
  neither "the section" nor "the section of a rule" means anything, for the code finds both by their text.
* `Control`: how `stage`, `dir`, `backend`, `names` and `texts` go together.
* `DocInv`: what was uploaded is what this memo and these texts make of it.  An edit between the upload and the
  update is harmless because it does not touch the section (`SectionsStay`).
* `ReportedInv`: after an update that was not cut the memo has the link and what was due of each rule, which is
  what makes the next flush of the same texts a stutter.
* `UploadedCovers` and `LinkedCovers`, the two halves of `LinkCovers`: the second must hold when nothing is being
  executed for an older memo to be covered by the next full text.

The argument goes from lines to memos.  `Wellformed` says that of a text's headings none comes twice, `Tells` that it tells
a body of a name, `SameBut` that it tells the same of all others.  `ExtructedContent`, `ReplacedSection` and
`Added` are about one section; `PutInto` is the loop's invariant, from one name to the next; `SectionsTell` is
what the loop returns.  `Frame` places the section in the memo, `FrameReplaced` (from `ReplacesTheOne`: the old section is
found where it stands and nowhere before) and `SectionAdded` are the whole memo, `FramedCut` is
the cut.  For the board, `AboveOf` and `BelowOf` are what is around the section, `Surrounded` says that a flush without
a cut leaves them, and `Left` says what is left by a cut: one section at most is `Partial`.

`QueryResultProofs` and `WorkerQueriesProofs` prove all six properties of `worker_queries`, for any schemas, bodies,
answers, statements, policies and receive counts: `Typing`, `WaitsKeepToPolicy` (`WaitsInBounds`), `BlocksArrive`
(`ParametersArrive`), `ResultsAreTheirs` (`ResultIsTheirs`), `ColumnsComeInOrder` (`ColumnsInOrder`) and
`TextsSayTheSame` (`TextsAgree`).  The inductive invariant `WorkerInv` has besides `TypeOK` and `WaitsInBounds`: `PolicyInv`
(the policy is the file's, or that put into order after the first wait; so the second handler computes with the same
policy as the first), `StageInv` (who waits has passed `once`), `RequestInv` (what is under way was merged
from the decoded blocks), `AnswerInv` (what is on the wire is what was given, and is not too long) and `ResultInv` (a
result is a table of what was given, and one that was acknowledged has no broken cell).  The rest is about operators:

* `WaitOfOrderedPolicy`: for any policy that was put into order, of numbers of any sign, and any receive count, a wait is
  within the bounds; of the power only that it is a whole number is used (`PowerType`).
* `MergedKeeps`: in whatever order the blocks are merged, a block whose place no other takes stays.  `KeysOfBody` and
  `PrefixOfPath` say which places those are.
* `SortedIsPermutation` and `SortedInOrder`: the insertion sort keeps the columns, and puts them into order where the
  comparison is one (`PrecedesIsOrder`), although it is none in general.
* `LineForEveryRow` and `TextsOfTable`: a table without broken cells and with rows as long as its columns has three
  texts that agree.

`Induction` is what all of these use for loops.  The library's induction theorems take the hypothesis as an
operator, which the provers here cannot instantiate; `Induct` and `InductUpTo` take a set of numbers in its place, and follow
from the numbers being well-founded.  `Recursion` and `Folding` say that a recursive function over numbers, or over
the positions of a sequence, exists and does at each place what its definition says, so that the recursive functions
of the model (`Sections`, `Sorted`, `Merged`, `ToJSONLines`, `Power`) may be unfolded.

What is assumed of the constants stands in the modules as named `ASSUME`s, which TLC evaluates in the runs: that sets of
inputs have the form that the decoders give them (`WorkerAssumption`, `ColumnsAssumption`, `PoliciesAssumption`; among
them that a row of a database is as long as its columns, and that no block or label has the name of the attribute
inside of it), and that people's heading is not prepalert's (`MemoDocument`).

Only model-checked: the liveness properties `Returns` of `rule_execution` and `AcceptedSettles` of
`webhook_delivery_live`, which rest on fairness and are out of the prover's reach; and `FullMemoSettles` of `alert_memo`,
whose proof would have to say what a flush finds in a memo that was cut in the middle of a section.  Every other property of
the passing runs is stated by a theorem.

## Plan

What is left, in this order:

1. `WebhookDelivery`'s three configurations as a refinement of `LoadConfig`: that `sound`, `partial` and `unusable` are
   the loads that `LoadConfig` ends in.
2. `KnownNotesStay` and `AckedTextStays` with more than one process, under what the cache's age would have to promise.
3. Headings and newlines inside of rendered texts in `MemoDocument`.
4. Theorems of what happens without `NoBeginnings`: the sections of names that begin no other one.
5. A proof of `FullMemoSettles`, from what `FramedCut` says of a memo that was cut.

## Not modelled

* The providers for CloudWatch Logs Insights, Redshift Data and S3 Select: they evaluate a few attributes and hand
  a statement with parameters to an external SQL driver.  `QueryDatabase` is what becomes of it.
* The viewer's pages and login: an external library behind one HTTP handler, which changes no state of the program.
* The monitor cache and `NewEmulatedWebhookBody`: reads only.
* HCL syntax, types and expressions: a block, an attribute or an evaluation is right or wrong.  What a query's blocks
  contain is decoded by the same code one level down, and is not looked at.
* Bytes: sizes are lines, so that a cut inside of a line - of a heading, a link or a character - is not seen, and the newline
  at the end of a memo counts as much as a line.  Blank lines between the parts are left out: what is said to be left
  as it is, is so up to them.
* The receive count of a message that is missing or no number, which `SetRetryAfter` takes for 1.
* Parsing of flags, the initial configuration, code generated by protoc, and mocks.
* The contents of logs and diagnostics.
