# A TLA+ model of lessmess

lessmess is a local web server that keeps the workflow state of a repository
(changes, their trees of tasks, statuses, decisions) in JSON files, shows it on a
board, drives agent sessions on an opencode service, optionally develops each
change in a git worktree of its own and closes it through a pull request, and
keeps a tree of generated documentation up to date. Browsers, agents (by HTTP),
editors and git all change the same files, most operations hold no lock, and the
server may be stopped at any moment. This directory models the parts where those
facts meet, checks the models with TLC and proves the main invariants with TLAPS. What the models
show to be otherwise than the documents and comments say is under *Disagreements*.

Source references are relative to the repository root; `internal/store/store.go:399`
is line 399 of `src/internal/store/store.go` in this checkout.

## Contents

| File | What it is |
| --- | --- |
| `TaskTree.tla` | the state document of one change and the pure part of every operation on it |
| `WorkflowStore.tla` | the store for one change: disk, cache, calls, watcher, restarts |
| `AtomicStore.tla` | what the store promises: each write is one whole operation on what its own call has read |
| `MCWorkflowStore.tla`, `Store*.cfg` | its instances |
| `WorktreePipeline.tla` | worktrees, the gated close, removal, `worktrees.json` |
| `MCWorktreePipeline.tla`, `Worktree*.cfg` | its instances |
| `WorktreePipelineProofs.tla` | its theorems |
| `DocsQueue.tla` | the durable queue of documentation jobs, its worker and its requests |
| `MCDocsQueue.tla`, `DocsQueue.cfg` | its instance |
| `SessionMapping.tla` | which change owns which agent session: `sessions.json` against the opencode service |
| `MCSessionMapping.tla`, `SessionMapping.cfg` | its instance |
| `SessionMappingProofs.tla` | its theorems |
| `Hub.tla` | one process serving every registered project: mounts, self-heal, the setup wizard, the shared registry file |
| `MCHub.tla`, `Hub.cfg` | its instance |
| `HubProofs.tla` | its theorems |
| `LiveUpdates.tla` | how an open page comes to show what is on disk: watchers, streams, refreshes, shutdown |
| `MCLiveUpdates.tla`, `LiveUpdates.cfg` | its instance |
| `LiveUpdatesProofs.tla` | its theorems |
| `ChatTranscript.tla` | one session under the chat drawer: input, restoration after a compaction, reverts |
| `ChatTranscriptProofs.tla` | its theorems |
| `ChatNaming.tla` | one chat's title and its promotion to a change |
| `ChatPoll.tla` | the shared reads behind the polls of open chat views |
| `ChatProofs.tla` | the theorems of `ChatNaming` and `ChatPoll` |
| `Migration.tla` | the move from markdown ledgers to the JSON store, and of the tooling directory |
| `StoreProofs.tla` | the theorems of `WorkflowStore` and `Migration` |
| `DocsCage.tla` | how sessions' edits of the docs are verified or undone: gardener and seed |
| `DocsProofs.tla` | the theorems of `DocsQueue` and `DocsCage` |
| `MC*.tla` and `.cfg` of the chats, the migration and the cage | their instances |
| `PROJECT.json` | components, runs, mutants, the map from definitions to source lines, findings, hazards, theorems |

## The system

| Component | State it keeps | Operations | What is hard |
| --- | --- | --- | --- |
| **State model** `internal/model` | none; documents `ChangeState`, `WorkflowIndex` | validate, parse, save atomically | identifiers, sequence numbers, dependency cycles |
| **Workflow store** `internal/store` | `changes/<id>.json`, `index.json`, prose files on disk; a cache under a mutex; a set of event channels | task create, status, move, update, reorder, decompose; decisions; close and reopen; create a change; rescan; derive the overall status; watch | no lock spans read, change and write; rescans race; the watcher sees the server's own writes; derived status from a stale cache; crash between writes |
| **Live updates** `server.go` events, `docswatch.go`, `app.js` | a channel of 8 events per page, one channel of docs events, the page's refresh timer | subscribe, notify, drop, reconnect, refresh | dropped events, reconnection, a channel shared by pages |
| **Worktrees and close** `worktree.go`, `closepipeline.go`, `gitops` | `worktrees.json`; git's branches and worktrees; pull requests | create with rollback, close (clean, push, PR, review, record), remove | external commands that fail half-way, minutes between check and use, a whole file read and written back |
| **Sessions of a change** `mapping.go`, `autosession.go`, `changesession.go`, `sessionlifecycle.go` | `sessions.json`, `autosession.json`, the opencode service | open, bind, unlink, scaffold, hand off, sweep, fork, reconcile, delete | two stores to keep in step, no rollback, duplicates |
| **Docs queue, gardener and seed** `docsqueue.go`, `docssession.go`, `docsseed.go`, `docs/seed.go` | a durable queue of jobs, a map of stale directories, the seed's cursor, the docs themselves | enqueue, run, fail, refresh, seed; snapshot, verify, restore | a crash while a job runs, a runner that attaches late, chunking; two sessions and people in the same files |
| **Hub and registry** `hub.go`, `registry.go` | slots of mounted projects, the registry file | add, remove, mount, self-heal | two hubs on one file, removal during bootstrap |
| **Chat snapshots** `chat.go`, `chatcache.go` | a memo, a single-flight table, a list of active sessions | get, refresh, wait | waiters on a flight that fails |
| **Chat naming, promotion, re-priming, reverts** `chatnames.go`, `chatpromotion.go`, `reprime.go`, `sessionlifecycle.go` | flags in `sessions.json`; the transcript and the inbox in opencode | name once, promote once, restore once, revert what was confirmed | the same step done twice; what was looked at changes before it is used |
| **Migration** `migrate.go`, `statedir.go` | markdown ledgers, then JSON | collect, verify, write, delete | a crash half-way, two processes |
| **Setup, settings, opencode client, docs library, rendering, CLI** | configuration files, or none | | little shared state; text and plumbing |

The components meet in few places. HTTP handlers call the store and, for a change
with a worktree, the pipeline before it. The store's scan asks `worktrees.json` and git
where a change's prose lives. The watcher rescans the store and notifies the pages.
Close enqueues documentation jobs. Sessions are opencode's; the server remembers
which belongs to which task.

## How the modules correspond to the code

### TaskTree

A task identifier `JSI-00.02` is the sequence of its numbers, so `Parent` is a
prefix and the textual agreement of identifier, sequence number, parent and file name
that `Validate` checks holds by the representation. A document has the overall status
(value and whether it is derived), the flat task array (order is priority) and the
number of decisions. `Valid` is `ChangeState.Validate`; `DeriveOverall`, `Offenders`,
`Moved`, `Reordered`, `NextSeq`, `Updated` are the functions and loops of
`overall.go`, `store.go` and `mutations.go`. `Accepts(call, doc)` is what an operation
requires of the document it has just read, `Result(call, doc)` the document it writes.
Titles are reduced to their slug, notes to "empty or not", dates are left out.
The tasks of one level stand at `Positions` of the flat array; `Rank` and `Nth` count them, so that what the code does with
slices of pointers to one level (`Level`, `WithLevel`) is stated, and can be proved about, without recursion.

### WorkflowStore

One change, since no operation on a change's file reads another's. `disk` is its state file,
`prose` and `containers` are files and directories beside it, `cache` is
`Store.changes[id]`. A process is a handler's goroutine or the watcher's; `pc` says
where it is:

| label | code | action |
| --- | --- | --- |
| `idle` | gates before `freshState` (identity for Done, cached tree, container directory) | `Begin` |
| `read` | `freshState` and the mutation; `CreateTask` writes the prose file | `Read`, `Refuse` |
| `save` | `writeState` up to the rename | `Save`, `SaveFails` |
| `scan`, `swap` | `Reload`: unlocked scan, locked swap | `Scan`, `Swap` |
| `sync` | `syncOverall` looks at the cached change | `Sync` |
| `syncRead`, `syncSave` | its own read and write | `SyncRead`, `SyncSave`, `SyncFails` |
| `scan2`, `swap2` | the reload of that write | `Scan`, `Swap` |

`dirty` is a filesystem event waiting for the 150 ms debounce, `Fire` the timer,
`External` an editor, an agent or git replacing the file, `Restart` a stop at any step
and the next start. `excused` remembers that a status may rightly have drifted: since
the last rescan the server was started, or a sync failed and was logged.

One constant says what is assumed of the environment. `PromptReload` says that a
call's scan and swap fit in the debounce delay: a scan that began before the last
event has been swapped in when the timer fires. It is an assumption on time the code
makes silently: with a scan slower than 150 ms a stale cache could outlive the last event.
`base` is history: what a process had read of the file when it made `work` of it.

### AtomicStore

What `store.go:399-404` promises: "every write re-reads the target state file from disk, applies the mutation
to the fresh content, validates it, and writes atomically". Two variables: `disk`, which anybody may edit, and `base`, what each
writer has read of it. A writer reads the file, and later replaces it by one whole operation applied to what it has read, or
only derives the status of that again; a stop forgets what was read. Others may write between the two, so an update can be
lost, but no content is a mixture, comes from the cache or is invalid. The operations are constant operators, which `WorkflowStore`
instantiates with those of `TaskTree`; the refinement mapping is the identity on `disk` and `base`. The second half of the
same comment, that nothing is ever clobbered, does not hold and is under *Disagreements*.

### WorktreePipeline

All changes at once, because they share one file. `file` is `worktrees.json` (an absent
entry reads as the empty one), `branches`, `trees`, `uncommitted`, `committed`
and `prs` are git's and GitHub's, `index` and `done` are the store's. Every operation is a worker
with a `pc`; an update of `worktrees.json` is named for what it writes and takes two steps,
`LoadEntries` and `SaveEntries`, with `UpdateFails` at either.

| operation | steps |
| --- | --- |
| create (`createChangeRecord`) | `BeginCreate`, `CreateBranch`, `AddTree`, update `record`, `WriteDocs`, `ListChange`; rollback `RollbackTree`, `RollbackBranch` |
| close (`closeChange`) | `BeginClose`, `CheckClean`, `Push`, `OpenPR`, update `pending`, `RunReviewer`, update `passed` or `failed`, `Finish` |
| remove (`worktreeRemove`) | `BeginRemove`, `RemoveTree`, update `forget` |
| reopen | `Reopen` |

git and gh commands are atomic and may fail; `OpenPR` may also fail after the pull request
was opened (the command's deadline). Sessions and the user `Edit`, `Commit` and
`LoseTree`; `Restart` stops everything. `clobbered`, `interrupted` and `lost` are history:
a stale copy was written back, an operation was cut short, a user deleted a worktree.
The tasks' readiness to close is `WorkflowStore`'s.

### DocsQueue

`pending` and `stale` are the queue and the flags in memory, `disk` the file both are written to
at once; `Persist` may fail, which the code only logs (`unsaved`). A request splits its directories
in chunks and then, for each, appends a job under the lock (`Enqueue`) and sends a token outside
of it (`Signal`). The one worker:

| label | code | action |
| --- | --- | --- |
| `pop` | `pop` under the lock; the file is written without the job | `Pop`, `FindEmpty` |
| `empty`, `wait` | between `pop` and the `select`, and in it | `Wait`, `WakeUp`, `End` |
| `fetch` | `run` reads the runner | `Fetch` |
| `garden` | `RunDocsJob`, which succeeds or fails | `Garden` |
| `clear`, `fail` | flags cleared or set under the lock | `Clear`, `Fail` |

Directories are numbers in their sorted order, `Above` gives the covered ancestors. What
`docs.StaleDirs` and the reference lint report is an arbitrary set of `Found`; what the tasks of a closed
change name, of `Touched`. `SetRunner` comes at any time after the start, as `SetOpencode` does, or never.
`owed`, `again` and `lost` are history: what closed changes have outdated, which
of it after the running job began, what a stop cut short. A setting may turn the job
at close off; no `Close` is then taken.

### SessionMapping

`up`, `parent` and `names` are opencode's: whether a session is unborn, live or gone, whose child it
is, and the task its title begins with, which is all the code reads of a title. `rows` is
`mapping` in memory and `disk` the file; a row's `by` stands for the time of creation, the
only thing that tells two otherwise equal entries apart. `marks` and `marksDisk` are the automatic sessions' markers in
`autosession.json`, `scaffolded` the server's memory of who scaffolded what. A handler is a sequence of calls to
opencode and of critical sections on the mapping; only two mutexes span several:
`opsHolder` is `sessionOps`, `sweeper` is `autoSpawnMu`.

| request | steps |
| --- | --- |
| open a session of a change or of none (`Open`, `Discuss`) | `Spawn`, `Prime`, `MarkOpened` for a task, `Add`; compensation `Drop` |
| commit (`OpenCommit`) | `Spawn`, `Add`; the prime comes last and changes nothing |
| hand off (`Handoff`) | `Mint` a change, then as open |
| automatic sessions (`Sweep`) | per task `SkipTask`, `MarkBound` or `SpawnFor`, `Spawn`, `Prime`, `Add`, `MarkSpawned`; `EndSweep` |
| bind (`Bind`) | `CheckList`, `BoundElsewhere` or `NotElsewhere`, `Add` |
| scaffold (`Scaffold`) | `Mint`, `Move` or `LinkInstead` and `Add` |
| fork (`Fork`) | `Inherit`, `Add`; or `ForkOfUnmapped` |
| reconcile (`Reconcile`) | `Walk` the children in opencode, `Select` those to add, `Merge` |
| unlink (`Unlink`) | one critical section |
| delete (`Delete`) | `DeleteTree`, `Cleanup`; the retry of a session already gone `FindClosure`, `Cleanup` |

Each has its failures (`SpawnFails`, `PrimeFails`, `AddFails`, ...). What opencode deletes with a
session (`Tree`), what the mapping alone connects to it (`Closure`) and what a
reconciliation reaches (`OwnedBy`) are least fixed points, written as the members of every set closed
under the relation. `Select` looks up one entry per session, as the code finds the first it meets, and
so chooses one of several. The environment takes `Delegate`: an agent opens a child. `Restart` stops
everything at any step. The other variables are history: `made` the sessions the server
opened, `adrift`, `cut` and `lapsed` what a stop or a failed compensation left undone, `released` what users unlinked,
`stale` what was deleted while another request knew it, `minted` and `autos` what must happen once.

### Hub

`registry` is `config.json`, which other hubs and editors share: a directory or nothing for each
slug, or a file that cannot be read, which the code takes for an empty one. `slots` is the table
`Hub.slots`, `slot` the objects in it, `open` those whose server runs, `mounter` the holder of `mountMu`.
Objects have numbers; one that nothing refers to any more may be used again, the smallest first. `mu`
guards each access to the table and so is one step. The mutex of a wizard is held from `TryBoot` to
`Swap` or `Discard` (`Wizarding`).

| request | steps |
| --- | --- |
| start (`NewHub`) | per entry `Heal`, `Boot`, `Place`; `Started` |
| landing page, list of projects (`Look`) | `ensureMounted`: per entry `SkipMounted`, or `Heal`, `Boot`, `Place`; then `FindOrphans`, per orphan `Unmount`, `Close`; `Healed`; `Answer` |
| add a project (`Add`) | registers; `Mount` waits for `mountMu`; `Boot`, `Place` |
| remove a project (`Remove`) | `Unmount`, `Close`, `Unregister`, all without `mountMu` |
| the wizard's bootstrap (`Setup`) | `InitRepo`; `TryBoot` or `BootRefused`; `Swap`, or `Discard` when the project is no longer mounted |

The environment is another hub or an editor (`OtherReads`, later `OtherWrites` with one entry changed), a
damaged file (`Damaged`), directories that appear, break or vanish (`DirChanges`) and the stop (`CloseHub`).
History: `doubled` are servers whose slot another one replaced, `calm` the landings since whose
reading nobody else changed anything, `strange` the slugs that another hub
changed or where an add was overtaken by a removal and another add.

### LiveUpdates

What is on disk is two trees, the workflow state and the covered directories; each is a number that grows with every
edit (`disk`), with a chain of directories (`depth`) of which the watcher knows some (`watched`). `raw` is an fsnotify event
that waits, `armed` the debounce timer, `cache` the store's. A reload is two steps, as in the code: `snap` is what a scan without a lock has read, swapped in
later, however much later.

| part | code | actions |
| --- | --- | --- |
| store watcher | `Store.Watch`: debounce, `addDirs`, `Reload`, `SyncOverallStatuses`, `notify` | `TakeEvent`, `AddDirs`, `Scan`, `Swap`, `Save` or `NothingToSync`, `Notify` |
| a request that writes | `writeState`, `writeIndex`: save, scan, swap, notify | `Save`, `Scan`, `Swap`, `Notify` |
| docs watcher | `docsWatcher.loop`, `resync`, the shared channel of one | `TakeEvent`, `Walk`, `Add`, `Send` |
| streams | `Server.events`, `Subscribe`, `EventSource` | `Subscribe`, `Disconnect`, `Leave`, `TakeStore`, `TakeDocs` |
| pages | `app.js`: `scheduleRefresh`, `refreshChangeCards`, `scheduleDocsRefresh`, `refreshExplorerTree`, `closeChat` | `Refresh`, `OpenChat`, `CloseChat`, `Serve`, `Arrive`, `Fail` |
| shutdown | `runServe` after the signal | `Interrupt`, `Drained` or `ShutdownExpires`, `HandlerEnds`, `PageCloses` |

History: `missed` are the pages that an event has passed by, or whose request failed, since they were last served, whatever made them ask; `overtaken` counts a page's answers under way that were served
before what it shows, `late` are the pages that such an answer has left with older content, until a later one arrives; `stale` says that the cache is a request's scan that was out of date when it was swapped in. Here nothing
is assumed of how long a scan takes: `PromptReload`, which `WorkflowStore` needs, is what would make `stale` end.

### ChatTranscript

`log` is the session's transcript, `inbox` the input opencode has admitted and no turn has taken up, a set whose order is that of the identifiers, `staged` its revert state,
`running` whether a turn runs. Messages are identifiers that grow, with a kind. `stale` stands for the `Time.Updated`
a confirmation carries: whatever changes the transcript or the revert outdates every confirmation not yet checked.

| request | steps |
| --- | --- |
| send (`chatPrompt`, `sessionDeliver`) | `Send`; `ensureReprime`: `CheckInbox`, `ReadTranscript`, `Inject`, or `FailOpen`; `Admit` |
| change an item's delivery, cancel it | `Resume`, the same restoration when it is woken up, `ChangeDelivery`; `Cancel` |
| run a registered command, interrupt | `Command`, `Interrupt`, one call each |
| compact | `AskCompact`; `confirmedIdle`: `Guard`, `LookIdle`; `Compact` |
| revert (`sessionRevert`) | `AskRevert`, `Guard`, `LookIdle`, `Stage`, `Reread`, `Commit` |
| commit or clear a staged revert (`revertFinal`) | `AskFinal`, `Guard`, `LookIdle`, `Commit` or `Clear` |

`Refused`, `AdmitFails` and `InboxUnread` are failures. opencode takes `Land`, `Answering`, `TurnEnds`, `CompactionBegins`,
`CompactionEnds`, and its own terminal client `ForeignPrompt`; what it does with an inbox (`Ready`) is taken from how the code
and its comments use it. Each user message carries (`after`) the compactions its request answered for, each restoration when
its request began to look (`from`) and whether it could not read the inbox (`blind`). `Forgotten` is `needsReprime` over a page: the compaction
that is the newest of the messages that matter, if it is one; `Inject` answers for that one. A request that overlaps a commit may answer for a compaction which the commit has
meanwhile taken out, and uncover an older one: two restorations are of the same compaction when they answer for the same, wherever they stand in the transcript.

### ChatNaming

`live` is the title in opencode, `entry` the chat's row in `sessions.json` (owner, naming state, title, recorded promotion), `revision`
`Time.Updated`. A title is who made it up. `holder` is `sessionOps`.

| who | steps |
| --- | --- |
| input to a chat | `Input`, `Claim` (`afterChatInput` up to its goroutine), which starts the namer |
| the namer (the goroutine of `afterChatInput`) | `Generate`, `NamerLock`, `NamerCheck`, `Look`, `Apply`, `Record`, and the failure of each; `job.expired` is the end of its fifteen seconds |
| rename | `Rename`, `RenameSession`, `UpdateTitle` |
| list of chats | `ListChats`, `Refresh` |
| promotion | `Promote`, `Confirm`, `LookIdle`, `RecordPromotion`, `SendPromotion`; compensation `Unrecord` |
| scaffold | `Scaffold`, `CreateChange`, `Retitle`, `MoveToChange` |

opencode takes `TurnBegins`, `TurnEnds`, its terminal client `ForeignRename`; `Restart` stops everything. History: `chosen` (a user or a scaffold
gave the title), `diverged` (a failure or opencode's client moved it past what the code makes good, until a title is set in both places), `dropped` (a naming was lost), `sent`, `unsure`, `acked`
count what the service took and what users were told. A rename that ends in an error (`RenameFails`, `RetitleFails`, `ApplyFails`) may have been taken by opencode all the same, its answer lost.

### ChatPoll

A key is a session with its newest page, or an older page. `flightOf` is `snapshotFlight.calls`, `inflight` and `cached` are
`activeCache`'s flight and answer, `memo` the sessions of which a transcript is remembered. A poll (`Poll`) joins its key's flight or leads one (`Join`,
`Lead`); the flight reads the page (`ReadPage`) and the active sessions (`GetActive`, which takes the cached answer, joins a read or makes one:
`ActiveReturns`, `ActiveSettles`, `Receive`, `GiveUp`), then closes `done` (`Close`), and the leader frees the key (`Forget`). `AnswerPoll` shows
what was read or remembered, marked when it must be; `Leave` is a client that has gone. opencode's content is a number (`version`); `shown` and `backwards` are history.
Time is left out: a read may fail, a budget end and a cache entry be young enough or not at any moment. A flight's number is used again when
no view, no key and no other flight's wait refers to it (`Unused`).

### Migration

`source` is what the markdown says: per change the rows of each ledger, the task files and the directories beside them, as the parsers of
`internal/model` return them. `root`, `ledgers` and `front` say what of it is still there, `states`, `index` and `hidden` what of the JSON form is. `doing` is each process' label, `plan` what
it has collected and the writes it has still to do.

`collectChange` walks the tree by recursion. Here the walk is given by what comes before what (`Before`: a task before what is in its directory; beside each other in the order of the ledger's rows, the
files without a row behind them): a file's `Place` is how many files come no later, and the document holds at place *n* the task of the file with that place. The writes are a set, of which
`NextStep` takes the soonest by `Stage`, change and place in the walk.

| label | code | actions |
| --- | --- | --- |
| `dir`, `rename` | `MigrateStateDir` | `LookDir`, `Rename`, `RenameFails` |
| `look` | `MigrateIfNeeded`, the first checks of `MigrateWorkflow` | `Look` |
| `collect` | `collectChange` for one change after another, `verifyMigration`; a dry run ends here | `Collect`, `Verify` |
| `write` | state files, index, prose, ledgers, `.gitignore`, one write a step (`Steps`, `NextStep`) | `Write`, `WriteRefused`, `Finish` |
| `open`, `serving` | `store.Open`; the process serves | `Open`, `Exit` |

`Stop` is a read or write that fails and the run with it, or the death of the process, at any write. A change may be in a worktree (`away`), which
the resolver finds only when the tooling directory has its new name.

### DocsCage

`files` are the two docs of each covered directory; a file is whether it is there and parses, whose words stand outside the markers, what stands between them and
the tree hash it carries. Between the markers of a `STRUCTURE.md` the code tells three things apart: the purpose line (`text`), the blurbs in the rows of files (`blurb`, here of one file
that is in the directory's tree or not), and anything else (`rest`). `Skeleton` is `Build` with `carryForward`: it keeps the first, the second for a file still in the tree, and drops
the third. `tree` is each directory's hash and whether its file is there; `pass` what each runner's session works on with its snapshot, `cursor` the seed's file.

| run | steps |
| --- | --- |
| gardener (`RunDocsJob`) | `GardenBegins` (skeletons, snapshot), `Edit`, then `GardenVerified` or `GardenUndone` |
| seed (`docs.Seed`) | `SeedBegins` (skeletons), per directory `SeedSession`, `Edit`, `SeedVerified` (and the cursor, which may not save) or `SeedUndone`; `SeedSummarized`, `SeedSettles`. Started from the command line while opencode does not answer (`offline`) it has no summarizer: skeletons only, every directory stays pending |

`HumanEdit`, `TreeChanges` and `Crash` come at any time. What takes milliseconds between two reads or writes of files is one step; what takes a session's minutes is
two. A dry run writes nothing and is no step. History: `left` is each file as people and accepted sessions left it, `raced` the directories where a session met somebody else's edit, or died, and none was
accepted since, `departed` those whose file has been away from the tree since their last accepted session, whose blurb may therefore be gone, `passed` those for which the seed has had a session accepted.

## What is checked

| Run | Question | Result |
| --- | --- | --- |
| `store_concurrent` | two overlapping calls, the watcher, a foreign or unreadable edit, failing writes and a restart in every order, with fairness | staleness always has a rescan pending; a derived status at rest fits its tasks; listed tasks have prose; the store comes to rest |
| `store_calls` | two overlapping calls of every kind with the watcher and a foreign edit | implements `AtomicStore`: whole, valid operations on what the call itself has read |
| `worktree_concurrent` | two workers on two changes, edits, commits, deletions, a stop | Done means a pull request and a review; no work is lost; listed changes are found unless a stale copy was written back; a pending review is being worked on |
| `docs_queue` | two clients closing and refreshing, a worker whose jobs fail anywhere, failing writes, a stop and a restart at any step, with fairness | outdated docs stay queued, worked on or flagged; no directory twice; the queue drains (so no wakeup is lost) and `stop` returns |
| `session_mapping` | two requests of every kind at once, the reviewer a close opens, and agents that delegate, failing calls and writes, a stop at any step | no session leaks and no entry is a ghost, but where a named exception says so; one scaffold per session, one automatic session per task; the file is what memory is |
| `hub` | two requests of every kind at once and a third, another hub's edit, a failing step | a running server belongs to the table or to the request about to place or close it, but where its slot was replaced; what is shown as ready runs; an undisturbed landing converges to the registry; the mutexes never leave everybody waiting |
| `live_updates` | a board page and an explorer page, both watchers, two writers, directories made under a watch, full channels, a lost connection, overtaken answers, an open chat, an interrupt, with fairness | news is always under way, or the page is one that an event passed by since it was last served or an overtaken answer came to last; pages catch up; the server stops |
| `chat_transcript` | two requests of every kind at once, turns, compactions and foreign prompts between any two of their calls | a prompt never follows a compaction bare when its request looked; a compaction is restored twice only by requests that overlapped or could not look; a commit is of what was confirmed |
| `chat_naming` | two requests and the namer at once, a third, failing calls, a restart, with fairness | a chosen title stays; the stored title is opencode's; an instruction is sent once per confirmation; a pending chat gets its name |
| `chat_poll` | two views on two sessions and an older page, any read failing, with fairness | one fetch per key; no view goes back unmarked; waiters are released |
| `migration` | two processes on two good and five unacceptable trees, dying or failing at any write | either the JSON store is whole or the markdown is untouched; the tooling directory is adopted; without a failure nothing is left over |
| `docs_cage` | a gardener and a seed, overlapping, with people's edits, sessions that break their bounds, a crash | with no session at work files hold what people and accepted sessions left and the code promises to keep; a seed with a summarizer that ends without failure has covered its directories |

Each property of a passing run has a mutant: a plausible bug in one mapped definition
(`ReadCached`, `SaveUnseen`, `RemoveTreeForced`, ...) under which TLC finds the property
violated. The mutants stand beside what they mutate and nothing else uses them.

**Bounds.** Two top-level tasks and one that a call creates show every rule between
siblings, and a subtask of the first one those between levels; `MaxChildSeq = 1` stands for
99. Two clients suffice for a lost update and for
a stale scan against a fresh one, and the watcher is a third process. Two calls overlap or follow each other; one foreign edit and one restart
fall at any step (no restart in `store_calls`, where every kind of call meets every other). In `WorktreePipeline`, one existing and one new change, two workers and three
operations give every pair of overlapping operations and a third after or beside them. `DocsQueue` has the root, two directories below it and one
further down, chunks of two for the code's three, and two requests, so that a change fills one chunk and begins another, an
ancestor is touched itself or not, and the chunks of two requests interleave. In `SessionMapping` two requests overlap and a third follows or begins when one has ended,
with two faults and a stop: a compensation can itself fail, and a deletion can be cut short and tried again. Four sessions are the two there
are at first and two to be born, so that a deleted tree has a child; three changes let two scaffolds of one session both
mint; one task suffices for two sweeps to open its session twice. In `Hub` two directories have the same base name, so
that they compete for slugs; two requests overlap and a third follows, with one edit and one
failure; five slot objects leave one free for every boot. An add overtaken by a removal
and another add needs more calls than these; there the proof speaks. In `LiveUpdates` one board and one explorer page are enough for each to take the other's event; a
channel of one (for eight) is full after one event; two requests of a page can overtake one another; two edits, one of them perhaps a
directory, fall at any step, and one fault is a lost connection, a failed request, a chat opened or the interrupt. In `ChatTranscript` a page of three messages
(for fifty) is outgrown by the five there can be, so that a restoration may lie beyond it; two compactions follow one another; two requests overlap. In `ChatNaming` two requests and the namer overlap, a third follows, with two
failures and a restart; three revisions are a turn's beginning and end. In `ChatPoll` two views join one flight or lead two, which share the read of the active sessions. In `Migration` one tree has rows out of order, a file without a
row, a decomposed task and a change in a worktree; four starts of two processes let a run be resumed twice. In `DocsCage` a directory and its
parent show what a tree hash carries upwards; four events let two runs overlap with an edit by one of them and an edit by a person, a change of the tree or a crash. Deadlock is not
checked: when the bounded calls are used up, the system rightly stops.

**Fairness.** `FairSpec` asks weak fairness of each started goroutine's steps and of the
debounce timer: Go schedules goroutines and fires timers. Nothing makes a
call, an edit or a restart happen, and no fairness is asked of any choice between success
and failure. `ComesToRest` needs no more: each round of the watcher either
leaves the file alone or converges it. In `DocsQueue` the worker and started requests get weak fairness, and so does
`End`, because a `select` with two ready cases chooses at random; requests are finitely many. In `LiveUpdates` goroutines run,
requests are served, `EventSource` reconnects and `Shutdown`'s five seconds (`main.go:191`) pass; nobody has to edit, write, open or close a chat, or stop the
server. In `ChatNaming` a started request and the namer go on, because every call to opencode ends within the client's thirty seconds (`client.go:41`); in `ChatPoll`
because the poll's budget (`chatPollBudget`) and the client's end every read. The safety runs state none.

## What is proved

`StoreProofs.tla`, about `WorkflowStore`, for any set of clients and calls, any foreign documents, any bounds:

- `TypeCorrect`: `Spec => []TypeOK`.
- `StalenessIsPending`: under `PromptReload`, `Spec => []StalenessPending`. This is the inductive invariant, with
  `TypeOK` and two small lemmas on the watcher's labels. `CacheFollowsDisk` is not inductive by itself:
  it says nothing while anything runs. `StalenessPending` says of every moment
  who will notice a stale scan (an event is waiting), a stale cache (an event, or the
  watcher before its swap) and a drifted status (an event, an excuse, or the watcher
  before the end of its sync).
- `CacheConverges`, `StatusConverges`: its consequences at rest.
- `WritesApplyToFreshReads` (`AppliesToFreshRead`): `Spec => Atomic!Spec`, step by step, whatever overlaps. The invariant behind it (`ReadInv`) says of each label what
  `work` is of `base`: at `save` the result of the process's call, which `base` admits, at `syncSave` `base` with a derived status.
- `OperationsKeepTasks`: about the operators of `TaskTree` alone: the tasks of the document an operation writes, with
  their prose files, are those of the document it read and the one it creates, and distinct identifiers stay
  distinct. Decomposition is apart: it gives one task another file. The lemmas under it are on ranks (`Nth` and `Rank` are inverse, because
  an injection between sets of the same size is onto, which takes no induction), on levels (`LevelTasks`: putting a permutation of a level back moves
  no other task), on moves and reorders (both put back a permutation) and on numbers (`NextSeqIsAbove`).
- `ListedTasksAreWritten` (`ListedTasksHaveProse`): `Spec => []ListedTasksHaveProse`. The inductive `ProseInv` says what each process is about to save names only
  files that are there; it needs `ResultNames`, because a process saves the result of its operation on what it read.

The assumptions are `TaskTreeAssumption` and `StoreAssumption` (the watcher is no client,
the unreadable file is no document, bounds are numbers), and `PromptReload` where it is named.

`WorktreePipelineProofs.tla`, for any changes, workers and bounds, under `PipelineAssumption`:

- `PipelineTypeCorrect`: `TypeOK`, from `TypeInv`, which adds what a worker holds at each label.
- `PlacementInvariant`: where things are. `Placed` says that trees have branches, that uncommitted work has a
  tree, that a change is created once (`CreationIsAlone`), that a tree follows its branch
  and an entry is forgotten only after its tree was removed.
- `WorkIsNeverLost` (`WorkIsKept`): an action property, from `Placed`: without it a rollback's forced removal could hit a tree
  somebody works in.
- `DoneMeansReviewed` (`DoneWasReviewed`): the strengthening says at which label of a close the pull
  request exists (`PRsExist`) and the review is written (`ReviewWritten`).
- `ListedChangesAreFound` (`ListedIsResolved`): while no stale copy was written back, the entry is recorded before the documents
  are written and these before the change is listed (`EntryBeforeDocs`, `DocsBeforeList`).
- `PendingReviewsEnd` (`PendingHasReviewer`): inductive with the types.

`DocsProofs.tla`, about `DocsQueue`, for any directories, chunk size, clients and bounds, under `QueueAssumption`:

- `QueueTypeCorrect`: `TypeOK`.
- `WorkerIsWoken` (`NoLostWakeup`): its own inductive invariant.
- `EachDirectoryOnce` (`HandledOnce`): from arithmetic on ranks (`ChunkOf`: each directory is in exactly one chunk) and the
  first chunk below an ancestor (`ClaimedOnce`), for every set of directories and every chunk size.
- `OutdatedStaysAccounted` (`OutdatedIsAccounted`): with it in `Accounted` stand that the file is what is in memory
  unless a write failed, that idle requests carry nothing, and that what was outdated after the running
  job began waits for another one (`LaterIsQueued`), without which the end of a job could clear a flag still owed.

`SessionMappingProofs.tla`, for any sessions, changes, tasks, goroutines and bounds, under `MappingAssumption`:

- `MappingTypeCorrect`: `TypeOK`, from `TypeInv`, which adds what a request knows at each label (`Knows`) and
  that a sweep or a scaffold holds its mutex (`Holds`).
- `MemoryAndDiskAgree` (`MemoryIsSaved`): its own inductive invariant.
- `EachScaffoldsOnce` (`ScaffoldsOnce`): from `OnceInv`: a scaffold that is about to mint holds `sessionOps` and its session has
  scaffolded nothing.
- `OneAutomaticSession` (`SpawnedOnce`): from `AutoInv`: a session opened for a task is accounted for by the task's mark, by the
  sweep that is about to set it, or by a mark that a stop lost; and a sweep that is opening one found none.
- `NoSessionLeaks` (`NothingLeaks`): from `LeakInv`, which speaks of the file where the property speaks of memory, because a stop
  throws memory away. It rests on `Kinship`: a live session's parent lives (`Families`), an entry
  is of a session that was born and records its parent (`Entered`), and a deletion knows only descendants (`Known`).
- `NoGhostEntries` (`NoGhosts`): from `Kinship` and `GhostInv`, which says the same of what requests will add:
  a session that died while a request was about to map it is excused.

`HubProofs.tla`, for any directories, slugs, slot objects, goroutines and bounds, under `HubAssumption`:

- `HubTypeCorrect`: `TypeOK`, from `TypeInv`, which adds what a request knows at each label (`Knows`) and that
  who mounts or heals holds `mountMu` (`Mutex`).
- `RunningServersAreOwned` (`OpenIsOwned`) and `ReadySlotsAreServed` (`ReadyIsServed`): from `SlotInv`, which
  says of each label what the slot object in hand is: one about to be placed is in nobody else's hands and in no table,
  one about to be closed has left it, one that a wizard works on is not ready. Without
  it a number used again could be closed by whoever held it before.
- `LandingConverges` (`LookConverges`): from `ConvergeInv`: what is mounted fits what is registered, or an
  add of that slug is under way, or another hub changed it (`Fits`), and how far an undisturbed landing has got (`CalmReached`).

`LiveUpdatesProofs.tla`, for any pages, channel capacity, depth and bounds, under `LiveUpdatesAssumption`:

- `LiveTypeCorrect`: `TypeOK`.
- `NewsTravels` (`NewsIsUnderway`): from `NewsInv`. The property looks at a page and asks who will tell it; the
  invariant follows the news hop by hop: a directory the watcher does not know was made during a round, which will end by adding it (`WatchedOrNoticed`); a scan of the watcher's that is out of date before its swap has an event or a timer behind it (`ScannedOrNoticed`); a cache behind the
  disk has an event, a timer or a reload before it, or is `stale`, which names the one case without an assumption on time: a request's late swap (`CachedOrNoticed`); of a page's answers no more were overtaken than are
  under way (`OvertakenUnderway`); and each page follows (`AllPagesFollow`).

`ChatProofs.tla`, about `ChatNaming`, for any clients and bounds, under `NamingAssumption` (no client is another constant; there is a first revision):

- `NamingTypeCorrect`: `TypeOK`, from `TypeInv`, which adds what a request and the naming know at each label (`Knows`) and that who is inside
  `sessionOps` holds it (`Mutex`).
- `ChosenTitlesStay` (`ChosenTitleKept`): from `NameInv`. The naming looks twice, at the entry under the lock and at the live title just before it writes.
  `NameInv` says why that is enough: an eligible entry has no naming yet, a naming past its check has a pending entry, a chosen title is never the one a chat begins with, so
  that a naming about to write after a choice has not seen it.
- `StoredTitlesAgree` (`TitlesAgree`): from `TitleInv`, which says of the middle of a rename what the live title is, unless a lost answer or another failure made the two differ (`diverged`).
- `InstructionsAreSentOnce` (`PromotedOnce`): from `PromoInv`. A recorded revision is sent or about to be; a promotion past its checks has a revision newer than every one that
  is known to have been sent (`SentIsOlder`); without the lock (`Mutex`) two of them could pass the check together.

`DocsProofs.tla`, about `DocsCage`, for any covered directories, any tree of them and any number of events, under `CageAssumption`, whose order of the directories no proof uses:

- `CageTypeCorrect`: `CageTypeOK`.
- `FilesAreKeptAsAccepted` (`KeptAsAccepted`): with it are inductive `SnapshotsHold` (a session's directories are its own and its snapshot is what they will be held to
  have, unless raced), `SeedKeepsTo` (the directories a seed has built are covered), `SnapshotsHave` (a gardener's snapshots have skeletons), `TreesKnown` (a file that is missing from the tree, or from the one a seed has
  walked and will settle with, is accounted as departed, so that no refresh drops a blurb that is promised) and `GoneIsAbsent` (a file that is not there has no content, so that removing it restores it). `Covered` is
  why refreshes do no harm: once a skeleton was built and accounted for, another one changes nothing that counts, and no check lets the file go (`AcceptedCovered`).
- `SeedsComplete` (`SeedCompletes`): from `SeedProgress`: what a seed without a failure has tried was accepted or is in its session, what the cursor marks was accepted once; at the end of an online seed without a budget nothing is `Wanted` any more.

`ChatProofs.tla`, about `ChatPoll`, for any views, sessions, cursors and flights, under `PollAssumption` (the newest pages' keys are keys, there is a key and a version):

- `PollTypeCorrect`: `PollTypeOK`.
- `OneFetchAtATime` (`OneFetch`): from `PollOf`, that what a view polls through is closed or its key's own flight, and `OneRead`, that a read of the active sessions is the one that can be joined.
- `ViewsNeverGoBack` (`NeverBackwards`): from `PollOf`, that a view's flight has read nothing yet or no less than was shown when the view asked. For a view that joins, this follows from
  `Newest`: a key's flight, once it has read, has read no less than was ever shown of the key and than any other flight some view still holds. That in turn needs `Led`, that the
  flight of a key is kept by its one leader until it is forgotten, so that its number is not used again under those who join. What is answered from the memo is always marked.

`ChatTranscriptProofs.tla`, for any clients, page length and bounds, under `TranscriptAssumption` (there is a client, `None` is none, there is a message):

- `TranscriptTypeCorrect`: `TypeOK`, from `TypeInv`, which adds what a request carries at each label (`Knows`) and where messages stand (`Placed`): an unfinished compaction is
  the last of the transcript. Under it are lemmas on sorting a set of messages by rank (`InOrder`), on what a turn takes up from the inbox, and on the newest mark of a
  transcript that is extended, cut or settled.
- `RestorationComesFirst` (`RestoredFirst`): from `FirstInv`. The property looks at the transcript, long after the request looked; the invariant follows its promise through the inbox: whatever
  input answers for, a request's or a waiting message's, is not what the transcript has forgotten, unless a restoration is waiting, which is taken up with it or before. It needs
  `ClaimsInv`, that nobody answers for a compaction that is still to come or for a message that is none, without which a later compaction could break an old promise.
- `RestoresOnce` (`RestoredOnce`): from `OnceInv`: a request that found the inbox without a restoration and is about to restore began to look before any restoration of that compaction was
  there, and a restoration in the transcript stands behind what it answers for (`Behind`), so that a request which reads it does not find that compaction forgotten.
- `CommitsAreConfirmed` (`CommitsConfirmed`): from `CommitInv`: past its look, unless raced, the staged revert is the request's own target; and as long as its confirmation holds, what its
  dialog showed is what the transcript is.

`StoreProofs.tla`, about `Migration`, for any markdown trees of any depth, any number of changes and processes and any bounds, under `MigrationAssumption` (the sources are what the parsers return: finitely many files, rows
that are rows; no document is `NoDoc`). It shares `TaskTree` with the part above and no variable, and needs none of the store's assumptions:

- `MigrationTypeCorrect`: `MigrationTypeOK`.
- `NothingIsLost` (`NothingLost`): in two halves. The first is about a reading (`CollectedSays`): the document collected from a well-formed tree that passed `Reproduces` says what the tree says. `Before` is a strict total order on
  the files (`BeforeIrreflexive`, `BeforeTotal`, `BeforeTransitive`), so each file has its own place from one to their number (`PlaceCounts`) and the walk holds each file's task once (`WalkTasks`): no file is dropped and none collected twice,
  at any depth. The second is about the writes: `Sooner` is a strict total order on `Steps` (`SoonerTotal`, `SoonerAsymmetric`), so that `NextStep` is the soonest of what is left (`NextStepFirst`).
- `LegacyIsAdopted` (`LegacyAdopted`): from `AdoptsOf`: a process past the renaming has no directory of the old name before it, unless the renaming failed.
- `NothingStaysBehind` (`NothingLeftOver`): from `LeftTo`: as long as nothing failed, either all steps are made, or each that is made, from the index on, was made by or is behind a process that still writes, which will make the rest.

The inductive `MigrationInv` says of each process what it has collected (`CollectsOf`: the documents of the first changes, none refused) and written (`WritesOf`: what it no longer has to do is made, and these are the first of all steps). `Stored` ties the index to
the state files, which the property needs of every process: a second one, late with its state files, writes the same over them. That steps come in one order for all is why the one that is refused a removal
may end: all it had made, another that still writes has made too, or all is made.

Each inductive invariant was checked by TLC as an invariant of the module's run before it was proved.

The types of each module are part of its proof and no run checks them again. `CacheFollowsDisk` and `NoLostWakeup` are proved without a run: `StalenessPending` says more than the
one, and `QueueDrains` fails without the other.

Only model-checked: liveness (`ComesToRest`, `QueueDrains`, `StopReturns`, `PendingIsNamed`, `WaitersAreReleased`, `PagesCatchUp`, `ServerStops`) and `SomebodyMoves`, which speaks of
`ENABLED`, all out of the prover's reach. Every other property of a run is stated by a theorem.

## Disagreements

Where the code does something else than a comment or document says. The first four are stated as properties of the modules, which no run checks
because they fail; TLC shows how when the property named here is put into the `.cfg` in place of its own.

| Said | What happens | To see it |
| --- | --- | --- |
| "External edits are therefore never clobbered: mutations apply on top of the latest on-disk state" (`store.go:401-404`) | two overlapping calls: the second writes back what it read before the first wrote | `StoreCalls.cfg`: `ClobbersNothing` |
| "A task added to a closed change reopens it implicitly" (`mutations.go:115`), "new open work on a closed change flips it back" (`src/README.md:204`) | Done is not derived, so `syncOverall` leaves it alone | `StoreCalls.cfg`, as an invariant: `ClosedMeansFinished` |
| one entry per change with a worktree (`gitops/state.go:13`); the next close reuses the pull request (`src/README.md:347`, `closepipeline.go:58`) | `UpdateState` writes the whole file back; when the record of the PR was lost, `gh pr create` fails for good | `WorktreeConcurrent.cfg`: `OneEntryPerWorktree`, `CloseReusesPR` |
| "the same entry can never be booted twice" (`hub.go:117`) | an add registers before it takes `mountMu`; a landing mounts the entry in between, then the add mounts it again | `Hub.cfg`: `NeverBootedTwice` |

The others came up while modelling. The models follow the code, and the properties excuse what is listed here, each by name.

- `chatcache.go:26`, "collapses concurrent fetches into one": one fetch, but its result is sent once to a channel of one; of several that joined, one gets it and the rest wait for
  their own deadline (`ChatPoll`: `Receive`, `GiveUp`).
- `reprime.go:43`, "a single page is enough": not after a turn of more than fifty messages since the compaction (`ChatTranscript`: `Forgotten` of a `NewestPage` that no longer holds the compaction; no restoration is then made).
- `reprime.go:14`, "a bound session whose compaction has not been compensated gets a re-prime": a registered command is run without the check (`chat.go:1618`, `Command`), and
  as input counts as the continuation that ends the matter.
- `sessionlifecycle.go:319`, "the confirmation guard still pins the action": only up to the guard; what arrives between it and the commit goes too. `CommitsConfirmed` speaks of what was there when the guard looked.
- `migrate.go:63`, "a failure leaves the tree untouched": not one after the first write; and once the index is written no later run removes
  the rest of the markdown. `migrate.go:70`, "remove it to force a re-run": when the root ledger is gone there is nothing left to run on.
- `closepipeline.go:164`, "nothing unbound leaks": said of a reviewer that could not be primed. One whose entry could not be saved (`closepipeline.go:172-178`), or that is opened while `sessions.json` could not be
  loaded, is only logged and stays in opencode unmapped (`SessionMapping`: `AddFails`, `adrift`).
- `structure.go:26-65, 82-123`: of what stands between the markers of a `STRUCTURE.md` a refresh keeps the purpose line and the blurbs of files that are still there, so that an accepted session's further
  paragraphs are gone with the next refresh (`DocsCage`: `rest`). A seed settles with the tree it walked at its beginning (`seed.go:146-162`): the blurb of a file that came since is dropped too (`departed`).
- `docs.Seed` ends without a failure when it had nobody to summarize (`main.go:325-337`), as `seed_test.go:229` wants it; all directories then stay pending (`DocsCage`: `offline`).
- `sessionlifecycle.go:643-650`, a rename that opencode took and whose answer was lost is reported as failed and not stored: the two titles differ until the next rename (`ChatNaming`: `RenameFails`, `diverged`).
- `store.go:181-185`, the scan before the lock: a request whose scan takes longer than the watcher needs for its round swaps an older state in after it, and the server answers from it until something else changes a file
  (`LiveUpdates`: `stale`; `WorkflowStore`: without `PromptReload`).
- `docfile.go:8`, what stands outside the markers "is preserved byte-for-byte": an edit by a person during a docs session is put back with the session's (`DocsCage`: `raced`, until the next accepted session).
- `src/README.md:614`, the explorer refreshes live: docs events go through one channel shared by all streams, so that another open page takes them (`LiveUpdates`: `missed`). What happens between the rendering of a page and its
  subscription, or during a reconnection, is not made up for before the next event makes the page ask again; an overtaken answer replaces a newer one (`late`), until a later one arrives.
- `docswatch.go:65-85` walks and then adds, so a directory made in between, or before a walk that failed, stays unwatched until something else moves (`Blind`).
- `main.go:189-197`: the streams of open pages end when the store is closed, which happens after `Shutdown`; with a page open the server always takes the five seconds and exits with 1.
- `src/README.md:201`: *Blocked* "when every open task is blocked"; `DeriveOverall` does not count a task in progress as open. `src/README.md:102`: a transition to Test
  requires evidence; the endpoint that moves a task does not ask for it.
- Read, not modelled: `settings.go:320-323`, a present section "replaces that whole section"; `patchSection` decodes into the old one, and what the payload omits stays.
  `touched.go:132-145` takes any `Covered` directory while `walk.go:56` never enters one below an excluded parent, so such a directory is queued and no job finds it.

## What is not modelled, and why

- Settings, skills (`skillsconfig.go`), integrations and provider management: configuration files read, changed and written by one request
  without a lock, and check-then-act against the service's own settings. The next candidates.
- Of the store: the creation of a change in the main tree (in `WorktreePipeline` for worktree-backed ones), archived changes, the resolution of
  prose directories, the content of prose.
- Of live updates: the chats page, whose `refreshChats` drops a refresh asked for during another and is rescued by its poll; directories in worktrees.
- Pattern matching of coverage, lint and learnings; setup and onboarding; rendering; git's own mechanics; the command line's flags and printing: text
  processing and plumbing with one actor.
- Of the migration: what a process that already serves writes. A second process that began to migrate before the first had finished writes the same state files again, and would overwrite edits made meanwhile.
- Wording, logging, HTTP status codes, JSON encoding.
- Hazards read in the code that the list in `PROJECT.json` leaves out because the models do not tell the cases apart: a `CreateChangeAt` that fails after `setupWorktree` rolls
  nothing back (`worktree.go:272`); a `review.md` of an earlier attempt passes for the present one (`closepipeline.go:187`); commits made during a review are not in the
  pull request (`closepipeline.go:54`); the docs worker starts before the gardener is attached, and fails the jobs a previous process left (`docsqueue.go:169`, modelled, and
  excused as a flag); a manual task session is marked before it is mapped (`mapping.go:657`); two binds of one session may both find it free (`changesession.go:185`).

## Plan

1. *(done)* `TaskTree`, `WorkflowStore`, `AtomicStore` and proofs.
2. *(done)* `WorktreePipeline` and proofs.
3. *(done)* `DocsQueue` and proofs; `DocsCage`.
4. *(done)* `SessionMapping` and proofs.
5. *(done)* `Hub` and proofs.
6. *(done)* `LiveUpdates` and proofs.
7. *(done)* `ChatPoll`, `ChatTranscript`, `ChatNaming`.
8. *(done)* `Migration` and proofs.
9. *(done)* Proofs of `ChatNaming`, `DocsCage`, `ChatTranscript` and `ChatPoll`; `ListedTasksHaveProse`.
10. Settings and management as read-modify-write on shared files; the store's creation of a change in the main tree.
