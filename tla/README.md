# the-firm in TLA+

the-firm is a TypeScript monorepo around one program, a coding agent for the terminal: an agent loop that prompts a
language model and executes the tools it calls, a session store that keeps every conversation as an append-only tree, and
the interfaces on top of them. This directory models its core in TLA+: the modules below are written from the code, TLC
checks them on small instances, and TLAPS proves the most important results for every value of the constants.

- [The system](#the-system): its parts, their state, how they interact, what is hard about them
- [The modules](#the-modules): what models what, and how state and actions correspond to the code
- [The runs](#the-runs): what each checks and shows, and why its bounds are enough
- [Fairness](#fairness), [the proofs](#the-proofs), [disagreements found](#disagreements-found),
  [what is only model-checked](#only-model-checked), [what is not modelled](#not-modelled), [the plan](#the-plan)

To repeat a check: `tlc -config session_tree.cfg MCSessionManager.tla`, `tlapm SessionManager_proofs.tla`.
`PROJECT.json` lists the components, runs, mutants, theorems and hazards, and for each definition the lines it models.

## The system

### Packages and components

| Component (under `src/packages`) | State it keeps | Operations | Talks to |
|---|---|---|---|
| Agent, agent loop (`agent/src/agent.ts`, `agent-loop.ts`) | transcript, two message queues, the active run with its abort signal, pending tool calls; the loop's private copy of the transcript | prompt, continue, steer, followUp, clear, abort, reset; the loop's turn: inject, request, execute tools, poll | calls the provider, tools and hooks; emits events to awaited listeners |
| Session store (`coding-agent/src/core/session-manager.ts`) | entries in file order, `byId`, `labelsById`, `leafId`, `sessionFile`, `flushed`; JSONL files | append (message, settings, custom, label, compaction, summary), branch, resetLeaf, createBranchedSession, forkFrom, setSessionFile, newSession | called by the agent session; writes files with `appendFileSync` |
| Compaction (`core/compaction/compaction.ts`) | none of its own: a preparation between its start and its entry | findCutPoint, prepareCompaction, compact | reads the store's branch, asks the model, appends an entry |
| Agent session (`core/agent-session.ts`, `agent-session-runtime.ts`) | event queue, copies of the message queues, retry and overflow flags, abort controllers, held-back bash results | prompt, steer, compact, retry, handoff, navigateTree, bash, model and thinking changes; new, resume, fork at the runtime | subscribes to the agent, persists into the store, calls compaction and extensions |
| Settings (`core/settings-manager.ts`) | global and project settings, modification marks, write queue, errors | set, save, reload, flush, drainErrors | settings files under lock files, shared by processes |
| Auth (`core/auth-storage.ts`) | credentials, load error | set, remove, login, reload, getApiKey with token refresh | `auth.json` under a lock file, OAuth providers |
| LLM layer (`ai`) | event streams: queue, waiting consumers, done, result | push, end, iterate, result; lazy loading and forwarding; provider translations | pulled by the agent loop |
| Tools (`core/tools`, `bash-executor.ts`) | the per-file mutation queue; child processes | read, write, edit, bash, ... | called by the loop in parallel, aborted by its signal |
| Extensions (`core/extensions`), event bus | handlers, registered tools and commands | emit, combine results, load, reload | hooks into session and agent |
| Branch summarization, context pruning (`core/compaction/branch-summarization.ts`, `core/dcp`) | none: pure functions over entries or messages | collect and cut entries; prune messages | agent session |
| RPC, print and interactive modes (`coding-agent/src/modes`) | pending requests; UI | commands in, events out | agent session |
| Slack bot (`mom`) | per-channel queue and run state; debounce timers, readings, timers and crons per event file | enqueue, stop, handle file, execute | agent, Slack, file watcher |
| Terminal UI (`tui`) | rendered lines, input buffer, kill ring, undo stack | parse keys, edit, diff | interactive mode |
| Models, packages, resources, skills; pods; web UI | registries and caches | resolve, install, load | files and external tools |

The program is single-threaded; its concurrency comes from `await`. Users, timers and extensions call in at every await,
tools settle in any order, and listeners are awaited before the loop goes on. Across processes it shares files only.

### What is hard, and what makes each component correct

- **Agent.** Two copies of the transcript that must stay equal; steering while tools run; tools executed in parallel,
  interrupted, throwing; queues polled at a few moments of a run. Correct means: every tool call is answered before the
  next request, no message of the user is lost or delivered twice or out of order, nothing is forgotten in a queue, and
  every run ends.
- **Session store.** Entries are held back until the first answer, then flushed at once and appended line by line; the
  process may be killed in between and a write may fail after memory was updated. Correct means: history and files only
  grow, memory and file agree, indexes agree with entries, forks keep their path, parents never form a cycle.
- **Compaction.** Runs again and again on what earlier ones left, in the middle of turns, next to another one and to new
  entries. Correct means: every message is either in sight or in the newest summary, results stay with their calls, what
  is kept fits the budget.
- **Agent session.** Awaited flags and promises across an event queue, timers and three kinds of cancellation. Correct
  means: what the agent says is persisted once and in order, `prompt()` returns, a retry neither repeats nor replaces
  what the user did meanwhile.
- **Settings.** A queue of read-modify-writes of files that other processes and the user change too. Correct means: a
  process changes nothing but what it was asked to change, a broken file is left alone, no change is lost silently.
- **Auth.** A token refresh holds a lock across a request to a provider that accepts each refresh token once. Correct
  means: one refresh at a time, the file holds a token the provider accepts, other credentials survive.
- **Event stream.** Producers, a forwarder and readers that leave early. Correct means: each event once and in order,
  everybody comes to an end.
- **File mutations.** Parallel tool calls on one file, errors and aborts in the middle of an operation. Correct means:
  what was reported as done stays done, and every call returns.
- **Slack bot.** Overlapping asynchronous readings of changing files, timers, restarts, a queue with a limit. Correct
  means: what is scheduled is what the file says, an event is executed at most once, the queue never sticks.

The hazards in `PROJECT.json` name the lines where these bite; those without a property say why.

## The modules

| Module | Models | Proofs |
|---|---|---|
| `SessionManager` | the session store: tree, indexes, files, faults | `SessionManager_proofs` |
| `MCSessionManager` | which entry types TLC appends | |
| `Agent` | the agent and its loop | `Agent_proofs` |
| `MCAgent` | the settings TLC starts the agent with | |
| `Compaction` | choosing what to summarize, and compactions that overlap | `Compaction_proofs` |
| `MCCompaction` | kinds and sizes of messages, slots | |
| `AgentSession` | the session around the agent: event queue, retries, recovery, compactions, prompts, aborts | `AgentSession_proofs` |
| `MCAgentSession` | the symmetry of prompts | |
| `Settings` | settings files under locks, and the manager of each process | `Stores_proofs` |
| `SharedSettings` | the abstract promise of those files, implemented by `Settings` | |
| `AuthStorage` | `auth.json`, token refreshes and the provider | `Stores_proofs` |
| `MCStores` | `Settings` and `AuthStorage` in one instance | |
| `FileMutations` | the file mutation queue with write and edit | `FileMutations_proofs` |
| `EventStream` | the stream of a provider and the one it is forwarded into | `EventStream_proofs` |
| `Mailbox` | the abstract promise of a channel, implemented by `EventStream` | |
| `MomEvents` | the Slack bot's event files and channel queue | `MomEvents_proofs` |
| `MCPlumbing` | these three in one instance | |

### SessionManager

The variables have the code's names: `sessionFile`, `flushed`, `fileEntries` (header included), `byId`, `labelsById`,
`leafId`; `disk` holds the files. `nextId` and `usedFiles` hand out fresh ids and file names, `damaged` records files on
which a write failed or was torn. An entry is one record shape: id, parent, type, the entry it refers to (kept from,
labelled, summarized from) and its role or label.

Each operation is one action, with everything it calls: `AppendMessage` pushes the entry, updates the index and the leaf
and writes whatever `_persist` decides, nothing yet, everything, or one line (`PersistLines`, `FlushedAfter`).
`CreateBranchedSession` filters the labels out of the path, re-creates them, and defers the file exactly when the code
does. `Outcomes` gives what a sequence of appends may come to: complete, stopped by a kill, or stopped by an exception
after which the process goes on, in both cases between two lines or inside one. A file is its parseable lines and how it
ends (`clean`, `unterminated`, `fragment`), since the next append continues on the last line. `Exit` is the end of the
process; `SetSessionFile` and `ForkFrom` start it again from a file.

### Agent

The variables are the agent's state (`messages`, `pendingToolCalls`, `steeringQueue`, `followUpQueue`, `run`) and the
loop's locals (`context`, `pending`, `todo`, `running`, `results`, `skipPoll`) with `pc` naming the await it is at.
`execution` says what became of a tool's promise. Loop actions follow `runLoop` in order: `EmitPrompt`,
`PollBeforeFirstTurn`, `InjectPending`, `Request`, `StreamEnds`, `AnswerAtOnce` / `PrepareToolCall` / `FinalizeToolCall`
(sequential and parallel, with the interrupt checks), `EndTurn`, `PollSteering`, `PollFollowUps`, `FinishRun`. Failures
are actions too: `ListenerThrows`, `ProviderThrows`, `AfterToolCallThrows`, `ExecutionRejected`, then `Fail` and
`HandleRunFailure`. Users act at any time: `Prompt`, the three cases of `continue()`, `Steer`, `FollowUp`, `Clear...`,
`Abort`, `Reset`; `RemoveFailedAnswer` is the agent session taking an error answer out of the transcript before a retry.
`gone`, `late` and `resetInRun` are history variables for the properties; `late` is what was queued too late for the
current look at the queues, and starts anew with each poll for steering messages, so nothing queued earlier can hide in it.

### Compaction

`path` is the branch as a sequence of entries, each its kind and estimated size; `preparing` holds what the manual and
the automatic compaction under way were prepared with. The operators are the code's functions in their order:
`CutPoints` (findValidCutPoints), `Full`, `Closest`, `ScanBack`, `FirstKept`, `IsSplitTurn` (findCutPoint), `TurnStarts`
(findTurnStartIndex), `BoundaryStart`, `PrepareCompaction`, `Covers` (compact, generateSummary), `InContext`
(buildSessionContext). A summary is the set of entries it was written from, directly or through the summary it updates;
`forgets` records that compact() dropped one on the way. Entries may be appended while a summary is written, and the two
compactions may overlap: `compact()` does not cancel an automatic one.

### AgentSession

The agent, the store and the summary are abstracted to what the session sees of them: a run is one answer after another
(`Answer`) or breaks off without a `message_end` (`Break`, `handleRunFailure`); the branch is a sequence of entries; a
compaction is a job that ends with an entry or without. The session's fields are variables: `events` is the chain of
promises `_agentEventQueue`, `connected` the subscription, and `lastAssistant`, `retryPromise`, `retryAttempt`,
`overflowAttempted`, `autoSignal` and `manualSignal` (the abort controllers) have their names without the underscore.
`timers` counts the `setTimeout` calls that will call `agent.continue()`; `phase` is how far each `prompt()` is.

An action is what the code does between two awaits. `ProcessMessage` is the message part of `_processAgentEvent`;
`agent_end` is `IgnoreEnd`, `Backoff`, `Exhausted` or `EndWithoutRetry`, the last two going on to `CheckCompaction`.
While it sleeps or compacts the queue stands still (`Free`); the sleep ends in `BackoffEnds` or, after `abortRetry()`,
in `BackoffCancelled`. `prompt()` is `Prompt` (with the compaction in front of it), `Submit` and `WaitForRetry`;
`compact()` is `Compact`, `CompactWhenIdle`, and `Compacted` or `CompactionFails`, which it shares with automatic
compactions. `unheard`, `missed`, `overlapped` and `automatic` are history variables for the properties.
An answer of kind `silent` is finished, and no error, but its usage exceeds the context window (`Overflowed`): the code cuts
it off the agent's messages like an overflow error (`CutOff`), and `cutOff` keeps those that no compaction has brought back.
With `Overlap = FALSE` prompts come one after the other and not during a compaction, as in the interactive mode;
`overlapped` notes when a prompt or `compact()` still meets a session at work (events, timers, a compaction by hand
that waits for the agent), and the properties that speak of a session at rest leave these behaviours out. So does
`RecoveryEnds`: a prompt that comes while a timeout is still to fire makes one run more than was counted. `automatic` counts
failed runs since the last `prompt()`. `Sift` keeps some of a sequence's messages; it is a recursive function, not
`SelectSeq`, because the prover knows nothing of the latter.

### Settings and SharedSettings

`settings`, `modified`, `loadError`, `writeQueue` and `errors` are the fields of a `SettingsManager`, per process; `disk`
and `lock` are the files and their lock directories. A content maps places to values, a place being the path of a
setting, as deep as the merge goes, or a key of an older version that `migrateSettings` moves. `SetScoped` changes
memory, marks and queue at once. A write is two actions, since other processes get in between where the code lets them:
`ReadCurrent` (withLock up to the merge; without a file there is no lock) and `WriteMerged`, or `WriteFails`. `Reload`
queues a `LoadAgain`. `Kill` stops a process anywhere, in the middle of `writeFileSync` too, and leaves its lock behind
(`StaleLockRemoved`); `EditFile` is the user's editor, which takes no lock.

`SharedSettings` is what this promises, without queues, locks or marks: a process has a set of changes it was asked for
(`Ask`), and may store some of them (`Store`); nothing else in the file changes, and a file that does not parse is left
alone. The exception the code makes is part of it: who found no file writes a new one (`FindNone`, `Create`). `Settings`
implements it with `stored` as the migrated files and `blind` as the writes that began without a file (`Blind`); `asked`
is a history variable of `Settings`. Since the files are compared as migrated, a thinking budget, which the code sets at
an old place, counts as asked for where it is moved to (`Home`). Edits and failures count in `events`, so that what a
process writes cannot pass for an edit of the user, which may leave any content.

### AuthStorage

`authFile`, `readable` and `authLock` are the file; `data` and `failedLoad` the fields of each process. A call of
`getApiKey` goes through `GetApiKey`, `Locked` (the file is read again under the lock), `ProviderAnswers`, `Finish` and
`Recover` (the catch, which reloads). `set`, `remove`, `login` and `reload` are one action each: they are synchronous, and
do without the file when the lock is taken (`SyncLocked`). `LockTakenAway` is `proper-lockfile` in another process finding
the lock stale, `OnCompromised` the holder's notice of it. The provider is external: `live` are the refresh tokens it
accepts, each once. `authFaults` counts locks taken away, kills, lost answers and failed writes; a write that fails or is
cut short, by a refresh or by `set` or `remove` (`Persist`), leaves the file as it was, unparsable, or empty, which parses as
no credentials at all (`WriteTorn`). A `set` or `remove` during a refresh does not get the lock: it is in memory only, and
`Finish` drops it there. `OthersKept` therefore speaks of what is in the file, which is what the process then has.

### FileMutations

`queueTail` is the map `fileMutationQueues`, `behind` the promise a call awaits. `ChainCall` is `withFileMutationQueue` up
to its await, the key being the real path only when there is a file; `BeginCall` to `FillFile` are the awaits of write
and edit in order, `WriteFileFails` their errors. `AbortBatch` is the signal: it settles every running call of the answer
at once, while its operation goes on. A file is the set of changes that went into it. `after` and `disturbed` are history.

### EventStream and Mailbox

`stream` holds queue, waiting consumers, done and result of the inner and the outer stream; `Pushed` and `Ended` are
`push` and `end`. `Load`, `LoadFails`, `PushDelta` and `Finish` are the lazily loaded provider, `ForwardAsks`,
`ForwardPushes` and `ForwardEnds` the loop of `forwardEvents`, `Read` and `Leave` the readers. `Mailbox` says that each
message is handed out at most once and in the order of posting; `EventStream` implements it, from the provider to the
readers across both streams.

### MomEvents

`changed` are the debounce timers, `readings` the calls of `handleFile`, of which several may be under way, `timers` and
`crons` the maps of the watcher and `armed` the timers and cron jobs that are really alive: an entry that is overwritten
leaves its timer armed. `HandleFileChange` cancels and reads again; `ReadEventFile`, `ReadingFails` and the three handlers
are the parts of a reading, `TimerFires` and `CronFires` what is scheduled, `Execute` and `RemoveFile` what these do. The
channel's queue is `work` and `current`; `phase` tells the setup of a run, in which `StopCommand` aborts nothing, from the
agent at work. Listing the directory (`StartBot`), finding (`NotFound`), reading and deleting a file may fail: the watcher
then leaves the file where it is with nothing scheduled for it, and looks at it again only when it changes. `left` has these
files; `undeleted` counts, per version, the deletions that failed. `ran`, `raced`, `left` and `undeleted` are history.

### The two compositions

The components in `MCStores` and in `MCPlumbing` share no state, so an interleaving of theirs is an interleaving of each
with stutters of the others. The compositions therefore let one of them move while the others rest in a first state:
every behaviour of each is there, and nothing is counted twice.

## The runs

| Run | Instance | Shows |
|---|---|---|
| `session_tree` | in memory, 4 entries of 6 types, one label | labels stay resolved through appends, clears and forks; a compaction keeps a suffix of the context; a fork keeps its path |
| `session_files` | 2 files, one created empty by the user, 3 entries, kills, throws and torn lines | types, index and entries agree, parents precede, reopening restores the session, files and history only grow |
| `session_fork_context` (violated) | in memory, 4 entries | a fork loses the context in front of a label |
| `agent_tools` | 2 user messages, 3 tool calls, all tool and interrupt modes, everyone may throw | every tool call is answered before the next request, every run ends |
| `agent_queues` | 3 user messages, 1 call, both queue modes, continue, retry, reset | the loop's context is the transcript; messages delivered once, in order, none lost, none forgotten |
| `compaction` | 6 entries, two compactions at once | nothing forgotten, nothing summarized twice, no orphan results, budget kept |
| `session_control` | 2 prompts, 1 `compact()` or abort of any kind, 3 answers, 1 retry, runs may break off, answers may overflow silently | prompts return and await retries, counts and signals are cleared, the session listens, recovery ends, agent and session agree |
| `session_waits` (violated) | 1 prompt, 1 run that breaks off | `prompt()` waits for a retry that nobody makes |
| `stores` | settings: 2 processes, a thinking budget and a migrated setting, 2 changes, 2 reloads, faults, edits or kills; credentials: 3 calls in 2 processes, 3 tokens, a change, a fault | settings implement `SharedSettings`, losses are reported; no refresh token is used twice, the stored one is accepted, a refresh drops no other credential of the file |
| `settings_budgets` (violated) | 1 process, both scopes | a thinking budget written as documented has no effect |
| `plumbing` | 4 calls on one file under two names in two answers; 2 readers, 3 events; 1 event file, 2 versions, 2 readings of 2 tries, queue of 1, 2 messages or failures | edits are kept, calls return; `EventStream` implements `Mailbox`, streams end; schedule matches the files, events run once, the queue drains |
| `file_mutations` (violated) | 3 calls, 2 answers, an abort | an aborted write goes on next to the following call |

Why the bounds are enough. *Session store*: the shortest behaviours that break the mutants have three entries (a message,
a label and what follows; an entry held back, an answer, one more append); `session_tree` has a fourth so that a
compaction can be followed by another and a fork can start in the middle. Files are treated alike, so two cover a fork
with its source. Splitting types over two runs is sound because `_persist` tells messages and others apart only, and the
context never looks at files. *Agent*: three calls give an answered, a running and an unprepared one at once, over one or
two answers; three user messages fill both queues with one left to prompt. *Compaction*: six entries hold two compactions
with a turn between them, or three; sizes are relative to a budget of two messages, with results as large as it.
*Agent session*: three
answers hold a failure, its retry and a recovery, or a failed run, its retry and a second prompt; one retry tells the
last attempt from the first; errors that are neither retried nor overflows are left out of the run, as the code treats
them like any other end. Tried besides, with the same result: these errors too (1.8 million states), `compact()` and an
abort in one behaviour (4.2 million), two aborts of one prompt.
*Stores*: a lost update needs two processes with a change each, a silent loss two changes and a fault between them; a
refresh token used twice needs two calls, in one process or in two, and a third for the one that comes after. *Plumbing*:
a chain with a predecessor, a call that is aborted and a follower in the next answer takes three calls, a second name of
the file the fourth; two readers are served, woken or overtaken by one another; two versions and two readings overlap,
and a third party (`TouchFile`, `DeleteFile`, `Exit`) or a failure comes in between: a deletion that fails and a touch
take the two messages, and make an immediate event run twice.
Tried besides, with the same result: held-back bash messages in `compaction` (2.8 million states), three readings in
`plumbing` (758977 states).
Larger instances (five entries of each size, seven entries with one compaction at a time) were tried without new results.
Where a run may stop (all entries or messages used up) deadlock is not checked: the bound, not the system, ends it.

## Fairness

`RunEnds`: `Fairness` in `Agent` asks for weak fairness of the loop's own step, of which at most one kind is enabled at a
time (an awaited promise that has settled resumes its function: the event loop never drops it), and of each tool settling
(tools take an abort signal or a timeout, and a provider stream ends with done or error). Users, progress reports and
exceptions are not fair: they may never happen.

`CallsReturn`: weak fairness of `Operations`, that file operations which were started end, well or not, and that the await
behind them goes on. Nobody has to make a call or abort one.

`StreamsEnd`: weak fairness of `Progress`. The import of a provider settles, and its request ends, for every provider
catches what it throws, pushes an error and ends; a forwarder or reader that was told of an event goes on, and a reader
asks again or leaves. Deltas need not come. A provider whose request never ends is left to its own timeouts.

`QueueDrains`: weak fairness of `RunStep`, that the awaits of `handleEvent` (Slack's answers, the agent's run) end, well or
not. Messages, events, stops and restarts need not come.

Each is fairness of one disjunction, not of each action, so it only says that the component does not stop for ever while
it could go on; among what it could do, TLC takes every choice. No other property is a liveness one.

## The proofs

`SessionManager_proofs` proves for any number of entries, files and labels, and any combination of faults:

- `TypeCorrect`: `Spec => []TypeOK`, one lemma per operation.
- `IndexStaysInSync`: `Spec => []IndexInSync`. Inductive together with `TypeOK`: an append changes `IndexOf` at one id
  only (`IndexOfAppend`), and every other operation rebuilds `byId` from the entries (`BuildIndexInSync`).
- `FilesGrow`: `Spec => FilesOnlyGrow`. An action property: a write extends `Keep` of its file (`OutcomesProperties`,
  `WrittenGrow`). It needs the invariant `FilesOwned`, that files never handed out do not exist, for the operations that
  start a new file.
- `HistoryGrows`: `Spec => HistoryAppendOnly`, from the same step analysis.
- `LabelsStayInSync`: `Spec => []LabelsInSync`. One more label entry changes `LabelsOf` at its target only
  (`LabelsOfAppend`); a failed write marks the file as damaged, the exception the property makes.
- `SessionsReopen`: `Spec => []ReopenRestores`. `FileHolds` says what the file has of the session: nothing but entries of it
  before the first flush, and afterwards such entries followed by the whole session (`HoldsAll`), from which the loader
  rebuilds the same indexes (`HoldsAllReads`). It needs `TailsKnown`: a file that does not end in a newline is damaged.
- `ParentsComeFirst`: `Spec => []ParentsPrecede`. Parents coming first is no invariant of memory alone, since files are
  loaded after any fault. `ParentsInv` adds that each file is sound, and still is when the rest of the session is written
  after it (`RestSound`): the same entries may follow lines of an earlier, interrupted flush, and the first line may be lost
  to an unterminated one. Whatever a write comes to is a splice of old and new lines (`OutcomeShape`, `SpliceSound`).
- `CompactionsKeepSuffix`: `Spec => CompactionKeepsSuffix`, and `ForksKeepPath`: `Spec => ForkKeepsPath`, about whole
  branches. They rest on lemmas that say what the two CHOOSEs of the model are: there is at most one walk to a leaf
  (`WalksAgree`, `WalksEqual`), so `GetBranch` is any walk one can show (`BranchIs`), and exactly one increasing sequence
  of given ids (`SameMembers`, `MembersInOrder`), so `InOrder` cuts and joins as its sets do (`SuffixInOrder`,
  `JoinInOrder`). A compaction makes the branch one longer (`BranchAppend`), and what the model saw before was everything
  from some position on (`ContextShape`); a fork has each id once (`ForkIndex`), so `_buildIndex` finds its path and its
  labels again. Both need `ParentsInv`: a new id is greater than all that are known, and nobody's parent yet.

`Agent_proofs` proves every safety property of `Agent`, for any number of messages, calls and runs, all settings,
whoever throws and whatever users do meanwhile:

- `AgentTypeCorrect`: `Spec => []TypeOK`, with `Hands`: the loop holds messages only between taking and delivering them.
- `ModelSeesTranscript`: `Spec => []ContextIsTranscript`. `Copies` says at each place of the loop what one copy of the
  transcript has and the other lacks: the prompts still to be emitted, or the results of the current batch.
- `EveryMessageOnce`: `Spec => []MessagesAccounted`, and `InTheOrderSent`: `Spec => []QueuesInOrder`. The steps are first
  reduced to what they do to the four places of a message (`Effect`); `OnePlace` says that no two places share a message
  and that together they have all but the lost ones, `InOrder` that each place, and each before the next, is in the
  order sent. The second needs the first: a new message is newer than all there are. Both rest on lemmas about a
  sequence that splits in two (`Splits...`), since every step takes from one end and adds at the other.
- `NothingLeftBehind`: `Spec => []NothingForgotten`, from `LookedAt`: after the last poll for steering messages
  only what came after it is queued, as the loop goes on to the follow-ups only when the poll found none.
- `EveryCallAnswered`: `Spec => []CallsAnswered`. `Batch` follows the calls of the current answer while they are
  answered, running or still to prepare; once something other than a result follows an answer it stays complete
  (`CompleteKept`), and an answer a run broke off at is followed by its failure (`FailureAnswering`).

`Compaction_proofs` proves for any length of the path, any sizes and budget, and any number of overlapping compactions:

- `CompactionTypeCorrect`: `Spec => []TypeOK`. It needs a preparation invariant (`Prepared`): a compaction under way was
  prepared on a prefix of the present path.
- `NothingForgotten`: `Spec => []RememberedUnlessDropped`, and `SummariesDisjoint`: `Spec => []NothingTwice`. Both follow
  from one inductive invariant over every compaction of the path and every one under way, not the newest only
  (`Summaries`): overlapping compactions make an older one the starting point of a newer one.
- `ResultsKeepCalls`: `Spec => []NoOrphanResults`. Between a result and its call stand only results, settings and
  compactions (`Answered`), and what is kept starts at the beginning of the path or at a cut point with only settings and
  notes before it (`SafeCut`): no cut point lies between a call and its result (`SafeCutKeepsCalls`).
- `BudgetIsKept`: `Spec => []KeptWithinBudget` (`WithinBudget` per compaction). Here the recursive function `SizeFrom` had to
  be reasoned about: that a function with its recursion exists is shown by a least counterexample (`NatMin`), and from
  that it grows towards the start of the path and messages alone make it grow (`SizeFromGrows`, `SizeFromMessages`).

`AgentSession_proofs` proves every property of `AgentSession`, for any number of prompts, of compactions by hand, of
answers and retries:

- `SessionListens`: `Spec => []Connected`. `Connected` is inductive once there is a job for whatever compacts
  (`JobsTotal`): only `compact()` stops listening, and it has a job from then on; every end of such a job (`EndJob`)
  listens again.
- `SessionTypes`: `Spec => []TypeOK`. `Sound` adds what the types need: the timeouts and the sleep are paid for by
  attempts, a compaction keeps entries that there are, and what the session hears are messages, never summaries.
- `Orderly`, the base of what follows, says how the session works one thing at a time: a sleep, a timeout or a compaction
  stands alone, and the events of a run are its messages, then its last answer, then its end.
- `SessionRecoveryEnds`: `Spec => []RecoveryEnds`. By itself it is not inductive, since failures and counts are apart by what
  is under way. `Counted`: what runs again by itself, a timeout, a sleep, a recovery, is counted before it runs, in the
  attempts or in the mark of the recovery (`Spending`); both are forgotten only when nothing is left to run (`Spent`) or
  when an answer arrived that was no error (`Relieved`).
- `SessionPromptsReturn`: `Spec => []PromptsReturn`. `Promised`: who waits does so for a promise that is there, and a
  promise has something that will resolve it: a run, a sleep, a timeout whose `continue()` finds messages to continue
  from, or an end that the session will know the answer of.
- `SessionAttemptsForgotten`: `Spec => []AttemptsForgotten`. `Remembered`: attempts stand for a retry under way or for a last
  answer that is an error of another kind; it needs `Matched`, that `lastAssistant` is the last answer persisted.
- `SessionRetryAwaited`: `Spec => []RetryAwaited`. `Awaited` follows a failure from the agent through the queue to the
  handler: from where it is known on, the promise is made and a prompt is behind it.
- `SessionInSync`: `Spec => []InSync`, the longest. `Synced` says it of every state instead of quiet ones: the agent has what
  would be rebuilt if all events in the queue had been processed (`ToCome`, `Rebuilt`), whatever further messages are
  left out (errors, what the session did not hear, what was cut off), and a failure that is known is the agent's last message (`FailureIsLast`), so the right one is removed before
  a retry. That a compaction changes neither side needs lemmas about sifting a sequence, its parts and their joins.

About `AuthStorage`, `Stores_proofs` proves for any number of processes, calls, providers and tokens:

- `AuthTypeCorrect`: `AuthSpec => []AuthTypeOK`.
- `RefreshedOnce`: `AuthSpec => []NeverRejected`, `StoredTokenWorks`: `AuthSpec => []StoredTokenAccepted`, and
  `OthersSurvive`: `AuthSpec => OthersKept`. All three follow from one inductive invariant. `LockHeld`: while no lock was
  taken away, whoever is at the provider holds the lock, and the file is still what that call read. `Undisturbed`: while
  nothing went wrong, the token in the file, or the answer a call is about to write, is one the provider accepts. The
  second needs the first: only the holder's own write comes between the provider's answer and the file. That a `set`,
  a `remove` or a process that is killed writes nothing meanwhile is `ChangeUnderLock` and `KillUnderLock`.

About `Settings`, `Stores_proofs` proves for any number of processes, settings, old places, values, reloads, edits, failures and kills:

- `SettingsTypesCorrect`: `SettingsSpec => []SettingsTypeOK`.
- `SettingsLossesReported`: `SettingsSpec => []LossesReported`. A write clears all marks of its file, also those set after
  it was queued; nothing is lost by that because of `MarkedIsQueued`: as long as there was no error, what is marked is in
  a queued write as well, and only a file that could not be loaded is not written to.
- `SettingsAreShared`: `SettingsSpec => ImplementsShared`, the refinement, step by step. `WritesWhatItRead`: under the lock
  the file is still what was read, without it the write began with nothing. `OnlyAsked`: whatever is marked, in memory or
  in a queued write, was asked for and has not been given up, as what was asked for is forgotten only in a scope without
  later writes. What is merged and migrated again (`MergedMigrated`) differs from what was read at the homes of the
  marked settings only; this needs that a migrated file has no thinking budgets at old places, and no other old place
  set unless the new one is too (`Migrated`), and the assumption that settings other than thinking budgets are never set
  at old places.

`EventStream_proofs` proves for any number of events and of readers that come, wait and leave:

- `StreamTypeCorrect`: `StreamSpec => []StreamTypeOK`.
- `StreamsAreMailbox`: `StreamSpec => DeliversInOrder`, the refinement. Every step is a step of `Mailbox` or a stutter of it
  because the events stand in a row (`OnTheWay`): taken, queued outside, in the forwarder's hand, queued inside, together
  what was pushed. A push keeps the row only if the stream is not done, so the invariant says who may wait where
  (`Waiters`) and that a stream that is done has nothing in front of it (`LastOne`).

`FileMutations_proofs` proves for any number of calls, files, names and answers:

- `MutationTypesCorrect`: `MutationSpec => []MutationTypeOK`.
- `ReportedEditsStay`: `MutationSpec => []EditsKept`. `Queued`: under every key the waiting calls can be ranked such that
  each waits behind the one ranked before it and the tail is the last; so of two calls under one key only one has its turn
  (`OneRuns`), which needs that a call that settles leaves the entry of one chained behind it (`TailsAfter`). Hence on a
  file nothing has disturbed one call is at work (`Alone`), and what it goes by is still true when it writes (`Knows`):
  every change reported before it began is in what it read, or a write had replaced that one.

`MomEvents_proofs` proves for any number of files, versions, readings, messages, exits and starts:

- `EventsTypesCorrect`: `EventsSpec => []EventsTypeOK`. That a start reads each file exactly once needs that there are
  finitely many of them.
- `EventsExecutedOnce`: `EventsSpec => []ExecutedOnce`, and `EventsScheduleMatches`: `EventsSpec => []ScheduleMatchesFiles`,
  from one invariant over what may still execute a file's event, its readings under way and its armed timers and cron jobs
  (`Pending`). `OneAtATime`: there is at most one of them, and if it is armed, the watcher has the entry to cancel it by;
  hence a change cancels all there is before the file is read again. `UpToDate`: what it has read is what is on the disk,
  unless a change is still to be noticed. `LeftAlone`: nothing is pending for a file that a failure left where it is. `Once`:
  an executed version is left neither on the disk nor in any of them, but for a deletion that failed and is counted
  (`undeleted`), and a version that is yet to be written was never executed (`Numbered`). All three are about files whose readings never
  overlapped (`raced`), and a step of another file's reading must leave them alone (`Undisturbed`), for which an entry of
  the watcher's maps must be of its own file (`Entries`).

Assumptions are the modules' named ASSUMEs: the constants' types and bounds, and what `migrateSettings` moves from where.

## Disagreements found

Where the code does something else than its documents, comments or names say. The first four are runs that TLC finds
violated, with a finding in `PROJECT.json`:

1. `createBranchedSession` leaves out label entries without relinking the entries behind them: the fork's context
   begins after the last label of the path (`session_fork_context`).
2. A run that fails outside the provider's stream with an error that looks retryable leaves `prompt()` waiting for
   ever: the promise is made on `agent_end`, but without a `message_end` nobody retries or resolves it
   (`session_waits`). `PromptsReturn` shows that this is the only way where the session was prompted at rest.
3. Thinking budgets in the form the settings document gives are moved by `migrateSettings` to keys nothing reads
   (`settings_budgets`).
4. An abort in the middle of `writeFile` releases the file to the next call while the write goes on (`file_mutations`).
   `EditsKept` shows what is still right: where no aborted call was at work, and no second name in use, nothing that
   was reported as done is lost.

Others show in the conditions of properties that hold:

- Session store: opening an existing empty file writes a header, and the first flush writes it again
  (`ReopenRestores` compares what is loaded, which ignores the second one).
- Agent: with `interruptMode: "immediate"` and parallel tools, executions go on after the run and emit events after
  `agent_end`, documented as the final event (`ReportProgress`). In parallel mode results are not always in source order, as the
  README says: a blocked call is answered while those before it still run. `reset()` during a run leaves the loop with
  the old context (`ContextIsTranscript`).
- Compaction: one that cuts inside the turn the previous one kept from writes "No prior history." and drops the previous
  summary; `RememberedUnlessDropped` shows that this is the only way a message is forgotten. Tool results behind the
  last cut point that fill the budget keep compaction from cutting anything (`KeptWithinBudget`).
- Agent session: a compaction that ends while a prompt's messages are still in the event queue replaces the agent's
  messages without them (`overlapped` in `InSync`), which RPC clients and the print mode's loop over messages can meet;
  a retry that meets an error of another kind, or an overflow, keeps its count and emits no `auto_retry_end`
  (`AttemptsForgotten`); `abortRetry()` does not stop a retry whose `agent_end` is still queued or whose timer is set, it
  only lets `prompt()` return. A finished answer that overflowed silently is cut off from the agent's messages while the
  session keeps it, and stays cut off when the compaction fails or is cancelled (`cutOff` in `InSync`); after a compaction
  that succeeds it is back, so `agent.continue()` refuses, as the last message is an answer, and the retry that
  `_checkCompaction` announces is not made.
- Settings: a process that found no file writes one without what another process put there meanwhile (`blind`); a write
  clears the marks of settings changed after it was queued (`LossesReported` needs the error of their own write).
- Auth: `set`, `remove` and `reload` take a lock for stale that a refresh renews too seldom; the token the provider has
  just given is then lost (`authFaults` in `NeverRejected`, `StoredTokenAccepted`). A `set` or `remove` during a refresh
  gives up after ten tries of 20 ms: only an error is recorded, the change is in memory only, and the end of the refresh
  drops it (`OthersKept`).
- Slack bot: two overlapping readings of a file schedule its event twice, and only the second can be cancelled
  (`raced`). An event's file is deleted when the event is queued, not "after execution" as `docs/events.md` says, also when
  the queue was full and discarded it, which `ExecutedOnce` counts as an execution. A file that could not be deleted stays with
  nothing scheduled for it, and an immediate event in it runs again when it is touched (`undeleted`, `left`); so does a file
  that could not be found or listed stay unscheduled until it changes. A stop that comes during the setup of a run stops nothing.

## Only model-checked

Liveness (`RunEnds`, `CallsReturn`, `StreamsEnd`, `QueueDrains`), since the prover treats neither fairness nor ENABLED.
Every safety property and the refinement that a passing run checks is proved.

## Not modelled

In `SessionManager`: migration of old versions (once per file, on load), listing, `getTree` and `getChildren`
(read-only), two processes on one file (the code takes no lock and promises nothing). In `Agent`: partial messages of a
stream, the choice of model, tools and options, `agentLoop` as an event stream, `proxy.ts`. In `Compaction`: summaries
supplied by extensions, token estimates, file lists, prompts, and moving to another branch while a compaction runs. In
`AgentSession`: the session's copies of the message queues, the handoff strategy, held-back bash results, `nextTurn`
messages, tree navigation, extensions, other models, auto-retry or auto-compaction switched off, and an `agent_end`
that is separated from the message before it; with the queues, the `agent.continue()` for messages queued during an automatic
compaction (`agent-session.ts:2071-2077`). In `Settings`: `applyOverrides`, the in-memory storage, and the getters, but
for the default they fall back to. In `AuthStorage`: runtime keys, the environment and `models.json` as sources of a key,
and the login dialogues. In `FileMutations`: how an edit finds its text, and pluggable operations. In `EventStream`: what
is in an event, and the cache of the loaded module. In `MomEvents`: time (so neither "not before its time" nor
`setTimeout` firing at once beyond 24.8 days is a property), several channels (each has a queue of its own), Slack's
calls, and the log and attachments of a channel.
The other components are listed in `PROJECT.json` with the reason; those with a "Planned" note come next.

## The plan

Order: what persists the user's work first, then what delivers it, then what several processes share.

1. *Done*: `SessionManager` and its proofs; `Agent`; `Compaction` and its proofs; `AgentSession`.
2. *Done*: what processes share, with an abstract specification it implements (`Settings`, `SharedSettings`,
   `AuthStorage`), and the small concurrent structures (`EventStream` with `Mailbox`, `FileMutations`, `MomEvents`).
3. `AgentSession`, second part: the displayed copies of the queues, matched by text; handoff and tree navigation; prompts
   that come while the session works.
4. More abstract specifications: `SessionLog` (a session is an append-only log of which a file holds a prefix),
   implemented by `SessionManager`; `Mailbox` implemented by the queues of `Agent`.
5. Pure algorithms against reference definitions: context pruning, branch summarization's budget, input buffer.
6. *Done*: proofs of every safety property the passing runs check. Next, proofs of what 3. to 5. add.
