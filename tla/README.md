# Formal models of zotero-pdf2zh-pro

This directory holds TLA+ models of the concurrent and crash-prone parts of the
repository, the TLC configurations that check them on small instances, and TLAPS
proofs of what matters most. `PROJECT.json` maps every definition to the lines
it was translated from, lists the runs, the mutants (one plausible bug per
property, which the property must detect), the hazards and the theorems.

    tlc -config TaskManager.cfg MCTaskManager     # a run
    tlapm TaskManagerProofs.tla                   # proofs; also of TaskSyncProofs,
                                                  # TaskRuntimeProofs, RuntimeSwitchProofs,
                                                  # OutputImportProofs, MemorySyncProofs,
                                                  # ParagraphRecoveryProofs and
                                                  # SelectionTranslatorProofs

## The system

The repository is three programs.

* A **Zotero plugin** (TypeScript, `plugin/`) submits PDFs for translation,
  mirrors the tasks of the server, and imports finished files into the Zotero
  library.
* A **local translation service** (Python, `server/`): a Flask application
  around a task queue. A translation runs in a child process that drives the
  BabelDOC PDF engine (`server/babeldoc`) with a language model behind it.
* A **Windows control centre** (Rust, `windows-app/`) installs, starts, stops
  and updates the service.

```
 Zotero plugin                      translation service                child process
 pdf2zhTaskManager.ts  -- HTTP -->  server.py -> task_manager.py  -->  task_runtime.py
   ^   taskEventStream.ts <- SSE --   |  queue, worker, store file      child_entry
   |                                  |                                   BabelDOC
 zoteroTaskImporter.ts <- result ---  |
 taskOutputStore.ts                 maintenance.py  <-- HTTP --  scheduler.rs (control centre)
```

## Inventory

| Component | State | Operations | What is hard | What makes it correct |
| --- | --- | --- | --- | --- |
| Task manager `server/task_manager.py` | records, submission index, FIFO queue, worker thread, closed and blocked flags, store file | create, cancel, resume, retry, repair, delete, clear failed; take, admit, run, conclude, save; close, load | handlers race the worker; every save may fail; a save is a copy under one lock and a write under another; the process may die anywhere | a cancellation is final, what was acknowledged survives, one run per acknowledged request, nothing queued is stranded |
| Task events | instance, revision, bounded queue per subscriber | publish, subscribe, overflow, list | overflow, order against lists | a subscriber that loses events learns that it did |
| Task runtime `server/task_runtime.py` | supervisor, child session, pipes, lease file, deadlines | start, gate, poll, cancel, escalate, reap, recover leases | four actors (supervisor, child, helper processes, clock) and crashes of the server | two translations never work side by side, a stop always returns, orphans end |
| Plugin task manager `plugin/src/modules/pdf2zhTaskManager.ts` | mirror of tasks, current and retired instances, watermark, deletions, requests under way, bindings | refresh, apply list, apply event, submit, retry, delete, clear failed, reload | three unordered channels, lost requests, restarts of the server | agrees with the server when quiet, never goes back, never loses a binding |
| Output import `zoteroTaskImporter.ts`, `taskOutputStore.ts` | claims, attachment, receipt in the database | download, copy, commit, clean up | crash between copy and commit; a new attempt under way | every output imported once, and never a file of an earlier attempt |
| Translation memory `task_manager.py:210-281`, `translation_memory.py` | pending map, worker thread, SQLite | enqueue, sync, retry later | worker leaves while work is added; repairs | a result is deleted only when the memory has all of it, and every result gets there |
| Maintenance gate `server/maintenance.py` | active requests, hold with expiry, idle clock | enter, leave, acquire, release | updater against requests; updater that dies | nothing runs while a live updater switches |
| Updates `windows-app/src/scheduler.rs`, `scripts/windows/` | phase in `state.json`, files of two versions, transaction journal, operation flag | prepare, apply, switch, health check, roll back, recover, reconcile, stop | a crash between any two steps, a user who runs an installer meanwhile, a start of the server outside the lock | old or new version, never a phase that lies |
| Translation recovery `translation_recovery.py` | SQLite checkpoint of paragraphs, archive, shared memory | open, register, restore, record, finish | runs that end anywhere, another configuration | a translated paragraph is never lost, and never paid for twice |
| Quality review `quality_review.py`, `il_translator_llm_only.py` | verdicts and the review budget in the checkpoint | select, reserve, approve, correct, condemn | a request sent and never answered, verdicts of texts that have changed | an approval belongs to the text it was given to, the budget holds over all runs |
| Request budget, rate limiter `pdf2zh_pro/translator/` | attempts and waits per paragraph, next slot | available, reserve, wait | sleeping under a lock | bounds hold, cancelled callers leave |
| Selection translation `server/text_translation.py` | pending futures, generations, epoch, cache | translate, refresh, cancel, clear cache | coalescing, late answers | an older answer is never saved over a newer |
| Glossary downloads `server/glossary_manager.py` | jobs, installed packs | download, cancel, install, delete | cancel against install | job state and files agree |
| ChatGPT account `server/chatgpt_auth.py` | token record, login flow | login, refresh, sign out | rotating tokens, crash, two processes | one refresh per token |
| Everything else | | | | see `PROJECT.json`, "components" |

## Modules

### TaskManager (and TaskLifecycle)

One record per task id in `task`; `pending` is the queue of (task, attempt) items
with `Stop` for the `None` that `close()` puts there; `pc`, `job`, `outcome` are
the worker thread in `_work`/`_run_task`; `disk` is the store file; `snap` is the
copy that a save of the worker has taken and not yet written (the persistence
lock is held while it is not empty). `promise` is a history variable, what was
last acknowledged to a client for each task.

* **A handler is one action.** `create_task`, `cancel_task`, `resume_task`,
  `retry_task`, `repair_task`, `delete_task` and `clear_failed_tasks` hold both
  locks from their first check to their save. The strict save either succeeds,
  and the request is acknowledged, or fails and is rolled back; a cancellation
  alone stays in memory when its save fails. `create_task` starts the worker in a second critical
  section, so `StartWorker` is an action of its own.
* **A save of the worker is two**, `SaveStarts` and `SaveEnds`, because
  `_save_persistent_tasks_locked` copies under the state lock and writes outside
  it, and `close()` takes the state lock only.
* **The process dies** in `Restart`, enabled in every state; the next one loads
  the file (`Loaded`, `_load_persistent_tasks`). `blocked'` is any value there: it is
  what `recover_leases` returns.
* A submission id that is known is answered from the index and changes nothing;
  requests without an id are not modelled. Task ids are never reused (`uuid4`),
  which the guard `promise[t] = "none"` of `Create` says. The clause of
  `_load_persistent_tasks` about a shutdown is covered, as the recovery
  state is saved with the record.
* Left to a module of its own: digest, backup and blocking of the store (here a
  save that fails), the refusal to delete while a memory synchronisation is
  pending (in MemorySync), pages and search.

`TaskLifecycle` is the promise without the mechanism: `promise`, a
`generation` per task, the one task `executing`, the tasks with `offered`
results; seven actions. The refinement maps attempts to generations and the
worker's job to `executing`.

### TaskRuntime

`pc` is the supervisor in `run_translation` (and `recover_leases` after a
restart), `leader[r]` the child of run `r` from its spawn to its exit,
`helper[r]` whether a process the child started is alive, `signal[r]` the
strongest signal sent to its session, `lease[r]` the lease file (absent, cut
short, complete), `age` which of the deadlines 10, 12, 15 s has passed since the
stop began, `pipe` the messages under way. The child, its helper, the clock and the
supervisor are interleaved at the granularity of one pass of a loop, one message,
one signal, one file operation. `Raise` is an exception at any place of the loop;
`Crash` and `Restart` may happen between any two steps. A signal takes effect
later than it is sent, or never if the process exits first. POSIX branch only.

### TaskSync

The server's side is `instance`, `revision`, `tasks` with their revision, and one
subscription (`connected`, `stream`). A record is *active* (queued, running,
cancelling), *paused* (a restart found it active), *failed* or *done* (a result,
complete or not); cancelled tasks are left out. The plugin's side is the record `client`: the `mirror`, the `known` and `retired`
instances, the `watermark` of the last list, the revisions of `deleted` tasks,
and what the code keeps as generations and per-request sets of changed tasks:
`outdated`, the requests whose generation has passed, and `touched`, the
tasks that changed while a request was under way. `list` and `op` are the list
request and the user's operation under way, each asked, answered, or lost.
`Upserted`, `Forgotten` and `Reconciled` are `upsertTask`,
`handleServerTaskEvent` and `refreshTasksInternal` as functions of `client`.

Environment: one server URL, one plugin, one operation of the user at a time
(the buttons are disabled meanwhile); other clients and the worker change the server's tasks by
`ServerStep`. `LateStream = FALSE` in all runs: a stream whose server is gone is
read to its end or lost before the next instance answers. With `TRUE` the plugin may meet an
instance that was never named by an answer after its successor was, take it for
the new one, and retire the live instance (`LiveNotRetired` fails). That needs a
server that restarts twice within the plugin's reconnection, and nothing in the
repository says that it is handled, so it is recorded as a hazard and not as a finding.

`settled` and `buried` are history variables for the properties. `settled` says
that since the stream opened a list was applied during which no task was
touched. Without it `Converged` would be false of the code: a creation answer or
an event that arrives while a list is under way may leave a task that was
deleted meanwhile, until the next list five seconds later; `EventuallyInStep`
is the property that covers it.

### MaintenanceGate and SafeStop

`MaintenanceGate` is `server/maintenance.py`: `active`, `lastBusy` are its fields,
`held` and `idle` its two times, kept as seconds left and seconds since (no
caller asks for more quiet than `MaxIdle`, so the count stops there). A request
is `admitted`, then `streaming` if its response is a stream, `finished` when the
stream has ended and is not yet closed. `work` is what `runtime_busy` counts
(tasks, selections, glossary downloads): begun by a request, it outlives it, and
its end is not told to the gate, which sees it at the next look. `quiet` is a
history variable: how long nothing has really been under way. Routes that the gate
exempts change nothing that it counts and are left out, and so is who may use the
control interface. Two things go on in the server that `runtime_busy` does not
count and a stop interrupts: the save that concludes a task (TaskManager has that
crash) and the translation memory.

`SafeStop` puts the users of the gate around it: the control centre's
`try_apply`, `stop_safely` and `repair`, and the scripts that they spawn or the user
runs (`apply-update`, `relocate`, `uninstall`), from the hold to the end of the
server process. `own` says that the server granted the hold to this operation; `elapsed` is
the time since (zero for a hold that it merely found). A lost answer, a failed start of the script, a script that dies at any
point and a server that dies are modelled; what follows the stop is RuntimeSwitch.
One operation is under way at a time (`begin_operation`, `Enter-RuntimeOperation`).
`SwitchSeconds < HoldSeconds` is an assumption on the environment: from its
hold an operation waits at most 20 s for the control centre to exit and 10 s for the server
to end, the hold lasts 120 s, and nothing enforces it.

### RuntimeSwitch

`RuntimeSwitch` extends SafeStop: the control centre prepares a release and announces it,
`apply-update.ps1` stops the server under its hold, writes the journal, copies the files of the candidate over
`bin`, points `server-executable.txt` and `installed-version.txt` to it, starts the candidate, asks for its health, and
commits or restores; `recover-install.ps1` restores what was interrupted; `reconcile_update` makes the
phase in `state.json` agree with what is installed. Versions are numbers and `bin` is the set of versions
whose files are in it, so that a copy that was cut short shows as two; `executable`, `version`, `journal`, `state` and
`prepared` are a file each, and every file is written in a step of its own. `panel` and `script` are the places
of the control centre and of the script that owns `.operation.lock`; `oldServer` is that script's
copy of `server-executable.txt`, which goes into the journal (`journal.server`) and is what a restoration writes back.

`starter` is a `start-server.ps1` that the control centre runs *without* that lock, at its own start (`StartService`) or when the
user asks for it (`UserStarts`). It reads `server-executable.txt` first (`start-server.ps1:6`), looks at the port
(`LookAtPort`), launches, waits up to 60 seconds (`AwaitHealth`), and ends (`FinishStart`); `Save-ManagedProcess`
(`common.ps1:576-581`) writes back the value that was read, after the launch and again when the server is healthy
(`SavePointer`). It outlives the control centre that waits for it, and nothing keeps an
installer of the user from finishing meanwhile. Its stray write may undo what the installer pointed to,
and the commit then settles on the new version with the old executable; if a candidate runs,
`stop-server.ps1`, which compares the process with `server-executable.txt`, no longer takes it for its own. `overtaken` is a history variable for
this: it is set when such a start writes something else than the file says, and cleared when a switch ends with the right
executable. `OldOrNew` does not speak of the executable while it is set, though it still does of files, version and journal, and
`SwitchEnds` accepts it as an outcome. The same script
under the lock is `StartCandidate` with `CandidateHealthy`, and `RestartOld` with `OldHealthy`. The
pid file is left out: `stop-server.ps1` is taken to find the process that listens.

A *fault* is a step that fails, the death of a script, of the server or of a control centre at work (it does not
quit while an operation is active, `ui.rs:603`), a
control centre that is started while a script replaces files, or an
installer that the user runs into a switch that is not finished, or for the version that is installed. Reading the scripts
for this module showed five things that no document speaks of: the stray write above; a restoration
stops a candidate that is already in use without a hold; if the restart of the old version fails during a
recovery, no control centre is left running; an installer that dies before it stops the control centre leaves a
journal that nobody settles until the control centre is next started; and a
recovery that fails before that leaves the control centre without its scheduler (*stranded*).

Left out: download and staging, back-off, a first installation (no old version to go
back to), relocation and removal of an installation. Bounds beside the constants: one start without the lock at a time, and no
request moves while a script is past its journal or such a start is between two looks, none of which is at the requests.

### MemorySync

How the translations of a result reach the memory, from where the reader has them once the task is gone. `task` and
`disk` are the records as far as the memory depends on them: the status, the attempt, and `translationMemorySync`
(`sync`); "result" stands for `_has_memory_source`. `pending` is `_memory_pending`: for each task the attempt it was
entered with, and whether its delay is over. `worker` is the thread of `_sync_memories` with what it holds between its two
locks: the attempt, the signature of the checkpoint, the paragraphs read, whether the checkpoint was the same
after the reading. `checkpoint`, `memory` and `marker` are the two SQLite files: how many paragraphs are committed, how
many of them the memory has, and which checkpoint the row of `recovery_sync` signs. The checkpoint is read in three
steps (`Sign`, `Read`, `Check`), while a repair may write to it (`Commit`) or a deletion remove it. The handlers
are those of TaskManager, cut down to what matters here; `calls` are the tasks between a saved conclusion and
`_schedule_memory_sync`. `Restart` is a crash at any point, and the exit after a `Close`.

An error of the worker is raised at `Sign` alone: nothing is written before `Merge`, which is one transaction, so
one that fails later leaves what one that waited until then would leave. A repair that is cancelled or fails
leaves a task without a result, and the translations of the attempt before it are then synchronised only when it has a
result again: the code promises no more, and `DeletedIsRemembered` speaks of results. Left out: the rows of the
memory, the signature of the document, which nobody changes while its task exists, and two tasks of the same document.

### OutputImport

One task. `log` is the sequence of records the server's task went through; any attempt that has ended,
a completed one too, may be followed by a repair (`task_manager.py:617`), asked for by this plugin or another client. `task` is what
the plugin knows of it, one of those, possibly an old one; `stored` is the record in
the profile, and `blocked` says that the bindings could not be saved. `import[i]`
is a coroutine of `importTaskOutputs`; what stands between two of its awaits is one action:
`Start`, `Lookup` (the receipt), `Fetch`, `Begin` and `End` (the database transaction up to and after the copy of
the file; `tx` is who is in it), `Committed`, `Undo` (the catch clause). `attachments` are the
committed ones with their receipt, `folders` the directories on the disk, `orphans` those that
a crash or a failed removal left behind. `Crash` is a death of Zotero and the next start, with
what `loadLocalTasks` makes of the profile. Titles, tags and indexing are left out.

### SelectionTranslator

One record per request (its thread in `_translate`), the jobs of the executor, and the tables that the lock of
the service protects: `pending`, `refreshing`, `generations`, the caches (`saved` is the generation whose
answer they hold, `savedEpoch` when it was asked for) and `cache_epoch`. What holds the lock is one action.
A request is ordinary, refreshing, or cancellable (`own`, it has a request id);
ordinary requests may join the turn of any of them. A cancellation may come before the request, during it and after
it; a wait may time out at any moment while the job goes on; the callback of a future runs after those who
waited for it may have left. Keys in `Dictionary` are those whose entries outlive a clearing of the cache.

Left out: streams and their slots, `close`, the pruning of the history of request ids, expiry and
eviction of cache entries, failures of the store, and answers from a glossary or the translation memory.

### ParagraphRecovery

One document. `file` is the active generation in the checkpoint, `active` its fingerprint, `archive` the
generations of other configurations; `current` the rows as the run under way has them in memory;
`stage[p]` is where the worker of a paragraph is (new, in a batch, asked again, alone, done) and `mark[p]` where its
review is. A run opens the checkpoint, registers the paragraphs, restores what it can, asks for the rest in any
order and any interleaving, reviews, corrects or condemns, and finishes; it may also *end* after any recorded step, which
stands for a crash, a cancellation and an error alike, and be begun again as the same attempt or the next, with
the same fingerprint or another. What holds the lock of the checkpoint is one action. `texts`, `kept`,
`approved` and `sent` are history variables.

Left out: the translator's own cache of reviews, groups of paragraphs in one review
request, skipped paragraphs, counts of attempts, summaries, notifications,
documents in several parts, and the import of the JSON of earlier versions. Every paragraph is a body paragraph
and a candidate for review, and a stored translation is taken to be still valid when it is read again.

## Runs

| Run | Instance | States | Shows |
| --- | --- | --- | --- |
| `task_manager` | 2 tasks with the same fingerprint, 2 submissions, 2 attempts | 194 thousand | cancellation, durability, queue, worker and file; refinement of `TaskLifecycle`; answers to submissions; a cancelling task leaves that state, close ends, every queued task gets its turn |
| `task_runtime` | 2 runs, any number of crashes | 445 thousand | no two translations at work, leases cover work, a returned run is over, nobody is cancelled unasked; a run to be stopped returns, a child does not outlive its server for ever |
| `task_sync` | 1 task, 2 instances, 2 revisions, 1 fault, queue of 1, all operations | 1.3 million | agreement when quiet, the live instance never retired, no rollback, deleted tasks stay away, bindings survive |
| `task_sync_settles` | the same with retry, delete and clear-failed | 127 thousand | the plugin comes to agree with the server, for good |
| `task_sync_bindings` | 1 task, 1 instance, 3 revisions | counterexample | finding, below |
| `runtime_switch` | 1 connection, 1 piece of work, 2 releases, 1 fault, 1 start without the lock at a time | 504 thousand | holds are granted in true quiet, exclude everything, and end; one version is installed, old or new, and the phase says which; a switch ends (both but for a start that has overtaken a switch) |
| `memory_sync` | 1 task, 3 attempts, 2 paragraphs, 1 restart | 170 thousand | a deleted result is remembered; no result waits for its synchronisation for ever |
| `output_import` | 2 outputs, 2 attempts, 2 imports at a time, 2 directories, 1 crash | 1.07 million | an output is attached once and stays, what is called imported is there and was a result of its attempt or a later one, no import hangs |
| `output_import_paused` | 2 outputs, 1 attempt, 1 import, no crash | counterexample | finding, below |
| `selection_translator` | 3 requests, 2 texts, one of them in the dictionary, 1 clearing of the cache | 807 thousand | no older answer over a newer or a cleared one, no turn lost from the table, nobody waits in vain |
| `paragraph_recovery` | 2 paragraphs, 2 configurations, 1 of them reviewed, budget of 1 | 1.1 million | nothing lost, nothing paid for twice, approvals belong to texts, the budget holds |
| `paragraph_recovery_repair` | 1 paragraph, 1 configuration | counterexample | finding, below |

**Bounds and why they are enough.** Two tasks let one wait in the queue while the
other runs, is cancelled or attaches a duplicate (two live tasks with one fingerprint
arise by a retry); two attempts let an item of the
first meet the second; the number of crashes, failed saves and cancellations is
not bounded. Two runs of the runtime are the one left behind and the one after
it. A fault of TaskSync is a lost request, a broken stream or a reload of the plugin;
a queue of 1 overflows with the second event; a page of one task
leaves the other off it. The code's values (128 events, 30 tasks a page) only make the same
cases rarer. The gate has nothing to bound but its clocks: a hold of two seconds has a first
and a last one. One fault of a switch may strike at every step of it; instances
with two faults and neither requests nor work were checked by hand for safety,
and the proofs of the gate, the stop, `OldOrNew` and `PhaseIsTrue` know no bound. Two imports at a
time are one more than the code starts on purpose: the second comes from a
retry by the user, or from the next attempt, while the first waits. Two directories let an import fail and try again
or both imports reach the copy. Three requests let one start a turn, one join it, and one
clear or refresh. In `memory_sync`, a first attempt has its result read while the second writes and the third waits; an instance with
two tasks, one of them attempted twice, was checked by hand for safety. In `paragraph_recovery`, two paragraphs are what the budget of one
must be shared by; instances with a budget of 2, or two attempts, and one paragraph were
checked by hand, and its four properties are proved for every instance.

Deadlock is checked for TaskManager, RuntimeSwitch and ParagraphRecovery, which never stop, and not
for the others, which stop when their bounds are used up or everybody has been answered.
The type invariants are proved where there are proofs and are not in the runs, and neither is
`ActiveCounts`, which says little with one connection and is proved for any number.

**Fairness.** TaskManager: the threads are scheduled (weak fairness of each step
of the worker and of the save in `close()`); for `CancellationEnds` and
`CloseEnds` only a run whose cancellation event is set must end, which the 15 second
deadline of `run_translation` guarantees whatever the child does (`StopReturns` of
TaskRuntime checks exactly that); it is strong fairness because a checkpoint save
holds the lock in between. `QueueMoves` needs in addition that a translation left
alone ends; requests to the model have timeouts and bounded retries. TaskRuntime: `StopReturns` assumes the
supervisor's thread and the clock, and nothing of the child; `OrphansExit` assumes
that the operating system lets threads of the child run and killed processes go.
TaskSync: `Poll` runs on a 5 second timer, `Connect` is the reconnection,
answers and stream items are handled when they are there. Faults are bounded in
`EventuallyInStep`, so that the statement is about what happens after the last.
RuntimeSwitch: time passes; a script goes on or dies (one that lives and stands still for
longer than `SwitchSeconds` is left out), and a start of the server has its deadline of 60 seconds; the control centre is started with
the session of the user, reconciles, recovers and goes on with what it has begun (`PanelGoesOn`), and is closed in the end: a session ends
however often the user has the server stopped and started, hence strong fairness of `PanelCloses` where it is idle or
stranded. OutputImport: every await ends (the fetch has
deadlines, the database serves its transactions in turn), the plugin looks for
pending imports every five seconds, and bindings that could not be saved are saved again with the next
change. `ImportEnds` is about behaviours in which the bindings can always be saved;
what happens otherwise is the finding `PausedImportsRecover`. MemorySync: the threads go on and delays end; the worker takes the task
that has been due for longest, so that each is taken in its turn (strong fairness of `Take`, which another task may
disable for a while); and a checkpoint that can be read, or a memory that can be written, again and again is so for one
synchronisation (strong fairness of `Sign`). SelectionTranslator and
ParagraphRecovery are checked for safety: a wait has a deadline, which the model lets expire at any time.

## Proofs

`TaskManagerProofs` holds for any sets of tasks and
submissions, any fingerprints and any bound on attempts, assuming only
`ConstantsAssumption` (`NoTask` is no task, `MaxAttempt` is positive).

| Theorem | Statement |
| --- | --- |
| `TypeCorrect` | `Spec => []TypeOK` |
| `Invariance` | `Spec => []Inv`, the inductive invariant |
| `CancellationIsFinal` | `Spec => []CancelIsFinal` |
| `AcceptanceIsDurable` | `Spec => []AcceptedIsDurable` |
| `ResultsNotAhead` | `Spec => []DiskBehindMemory` |
| `WorkHasItsWorker` | `Spec => []WorkIsOwned` (`NoTaskStranded` and `RunsAreOwned`) |
| `AnswersKept` | `Spec => AnswersArePermanent` |
| `Implementation` | `Spec => ImplementsLifecycle` |

`RuntimeSwitchProofs` begins with the gate and the stop, for any finite set of connections, any work and any
`HoldSeconds`, `MaxIdle`, `IdleSeconds` (`GateAssumption`, `SwitchAssumption`).

| Theorem | Statement |
| --- | --- |
| `GateTypeCorrect`, `CounterIsExact`, `HoldIsExclusive` | `GateSpec => []GateTypeOK`, `[]ActiveCounts`, `[]Exclusive` |
| `QuietIsReal` | `GateSpec => IdleIsReal` |
| `TypeCorrect` | `Spec => []TypeOK` (SafeStop) |
| `OwnHoldIsEnough` | `Spec => OwnHoldProtects` |
| `GateRefined` | `Spec => GateSpec`: what holds of the gate holds of the composition |

It goes on with the switch, for any number of releases and faults.

| Theorem | Statement |
| --- | --- |
| `SafeStopRefined` | `SwitchSpec => Spec` (SafeStop): what holds of the stop holds of the whole update |
| `SwitchTypeCorrect` | `SwitchSpec => []SwitchTypeOK` |
| `OneVersion` | `SwitchSpec => []OldOrNew`: files, version and journal always agree when settled, and the executable with them unless a start without the lock has overtaken a switch |
| `PhaseTellsTheTruth` | `SwitchSpec => []PhaseIsTrue` |
| `SwitchKeepsHold` | `SwitchSpec => OwnHoldProtects` |

`TaskRuntimeProofs` holds for any number of runs.

| Theorem | Statement |
| --- | --- |
| `TypeCorrect`, `Invariance` | `Spec => []TypeOK`, `Spec => []Inv` |
| `WorkIsCovered` | `Spec => []LeaseCoversWork` |
| `NoTwoAtWork` | `Spec => []AloneAtWork` |
| `ReturnIsTheEnd` | `Spec => []ReturnedRunIsOver` |
| `OnlyAskedIsCancelled` | `Spec => CancelledOnlyIfAsked` |

`MemorySyncProofs` holds for any number of tasks, attempts, paragraphs and restarts.

| Theorem | Statement |
| --- | --- |
| `TypeCorrect`, `Invariance` | `Spec => []TypeOK`, `Spec => []Inv` |
| `ResultsAreRemembered` | `Spec => DeletedIsRemembered` |

`OutputImportProofs` holds for any number of outputs, attempts, imports, directories and crashes.

| Theorem | Statement |
| --- | --- |
| `Invariance` | `Spec => []Inv`: what every import under way acts on, holds and leaves behind |
| `OutputsAreSavedOnce` | `Spec => []SavedOnce` |
| `ImportedOutputsAreSaved` | `Spec => []ImportedIsSaved`: the file of an attempt or of a later one, never of an earlier one |

`TaskSyncProofs` holds for any number of tasks, server starts, faults, events that a subscription holds and
tasks on a page, and any operations of the user, assuming `~LateStream`: a stream ends with its server (see
above; `LiveNotRetired` fails otherwise).

| Theorem | Statement |
| --- | --- |
| `TypeCorrect`, `Invariance` | `Spec => []TypeOK`, `Spec => []Inv` |
| `NeverDeaf` | `Spec => []LiveNotRetired` |
| `DeletedForGood` | `Spec => []NoResurrection` |
| `OnlyForward` | `Spec => NoRollback` |
| `BindingsLast` | `Spec => BindingsSurvive` |
| `StaysInStep` | `Spec => []Converged` |

`SelectionTranslatorProofs` holds for any requests, any texts and any number of clearings.

| Theorem | Statement |
| --- | --- |
| `Invariance` | `Spec => []Inv` |
| `ClearingIsFinal` | `Spec => []ClearedStaysCleared` |
| `TurnsStayTracked` | `Spec => []TurnsAreTracked` (`TheTableIsTrue` and `EveryWaitEnds`) |
| `LatestIsKept` | `Spec => NeverOlder` |

`ParagraphRecoveryProofs` holds for any paragraphs, configurations, budget and number of attempts.

| Theorem | Statement |
| --- | --- |
| `Invariance` | `Spec => []Inv` |
| `NothingIsLost` | `Spec => []TranslationsKept` |
| `ApprovalsAreOfTexts` | `Spec => []ApprovalIsOfText` |
| `BudgetIsKept` | `Spec => []ReviewBudgetHolds` |
| `NothingIsPaidTwice` | `Spec => PaidOnce` |

**The gate.** `Exclusive` needs `ActiveCounts`, since the gate decides by the counter,
and `IdleIsReal` needs `ClockBehind`: when no request is in the server, either
`_last_busy` remembers that work was under way at the last look, or there is none and the idle
clock is not ahead of the real quiet. `OwnHoldProtects` needs `OwnHoldLasts`, that the hold
which an operation was granted is still the one it was granted
(`held = HoldSeconds - elapsed`), which is what a borrowed hold does not satisfy.

**The task manager.** None of the invariants the runs check is inductive alone. Consider
`CancelIsFinal`: `Restart` turns the file into memory, so the file must already say
what memory says, and `SaveEnds` turns a copy that may be old into the file, so
the copy must too. The invariant therefore speaks of all *versions* of a record (memory, file,
copies under way) at once, and the strengthening is:

* `VersionsOK`: every version is a record some moment of the code could have
  written (`RecordsSound`: no results with a cancellation, a recovery state only
  on a paused or incomplete task, ...), `AcceptedIsDurable`, a cancellation that was
  acknowledged is recorded in every version (`CancelRecorded`), `DiskBehindMemory`;
* `CancelSignalled`: a task of the current run with a recorded cancellation has
  its event set, so that `Concluded` cannot offer results;
* `JobIsCurrent` (which gives `RunningIsExecuted`): from admission to conclusion the worker's item is the
  current attempt of a task no handler may touch;
* `QueuedIsPending`.

`Inv` is checked by TLC on the small instance through its parts and then proved: `Init`,
one lemma per action under `[Next]_vars`, and `Inv` implies each property. The
lemmas are stated about versions (`Concluded`, `Loaded`, `Closing` and
`CancelledByUser` keep a record sound) and reused by every action that applies
them. The refinement adds `PromiseMatches`, which relates the history variable to
the record in memory, and maps each action to an action of `TaskLifecycle` or to a
stutter.

**The switch.** `OldOrNew` speaks of the moments when the journal is settled; it is kept because no script
touches the files in such a moment (`Journalled`), and because a script settles the journal only where
it has put every file in its place: `Forward` and `Backward` say which of `bin`, `executable` and `version` are
done at each step of a switch and of a restoration, `Candidate` that there is something to switch to, and `Remembered` that
the journal would write back the executable of the version that it would restore. What these say of the executable holds
until a start without the lock writes (`overtaken`); each action either sets that, or leaves the file alone (`PointerKept`), or writes
what the journal says. So nothing but such a start can part the executable from the version.
`PhaseIsTrue` speaks of a control centre that is at rest, but what it may get wrong is decided before it started: the invariant
says of the whole time past its recovery that it is the installed version and that no script has the files to itself (`RestingIsInstalled`),
of one that is still to recover that it was started from the files that are to stay (`StartedIsInstalled`), and that a
version which is called current survives whether the switch under way is committed or undone (`CurrentIsInstalled`), which is so because
nothing older than the installed version is ever prepared (`Upward`).
The properties of gate and stop come by refinement: the variables of SafeStop change by steps of SafeStop only.

**The runtime.** `AloneAtWork` is not inductive. Call a run *loose* when its gate was opened, a process of it is
alive, and nobody has killed it: it may be at work, or begin to be. The invariant says that a loose run has a
complete lease (`Covered`), that it is the last one (`Last`), and that if no supervisor is at it, it is
still to be looked at by the recovery, or has blocked the queue (`LookedAt`). `Supervised`, `Words`, `Children` and
`Places` relate the place of the supervisor, the gate, the lease and the messages, so that each action can be seen to keep that.
`CancelledOnlyIfAsked` looks at one step, but what it depends on is said by three actors in any order: `Asked` says that
before a run is unwound, a stop that was sent, a last word "cancelled" that was read, and one that is still
in the pipe, all go back to a cancellation or to the deadline of the startup, and `Verdict` tells the two apart.

**Keeping in step.** `NoResurrection` is about three channels that nothing orders, so the invariant says of each what
it may still carry. A snapshot is *carried* by the stream or by the answer to an operation, and a task is *dead* when
a deletion in the stream, the answer to a deletion, or the tasks missing from a list say so; `Gone` orders the two:
what is carried of a dead task is older than its death. The plugin *buries* a revision when a later
deletion, the watermark of the last list or a later instance makes it ignore it, and `Buried` says that it buries all that is still carried
of a task it forgot. A list is another matter, as its snapshots are taken in whatever the watermark says: `Listed` says that a task
that was buried while a list was under way counts as touched. For `LiveNotRetired` the plugin must never meet an instance older than
the one it listens to: `Listed` and `Answered` say that an answer whose generation has not passed is of no
earlier instance, and `StreamNow` that the stream is of the present one. How the plugin's knowledge may change is said once
(`Evolved`), proved for each function of `client`, and used for every action: it keeps what it buries, forgets no mark
of a request that goes on, and moves no task back.

`Converged` says nothing until the stream has been read, so it needs to know what the plugin is owed at every step before.
`InTouch` says it. A subscription that is in place ends with the last word on every task that it tells of (`LastWord`), and
once the plugin has settled, each task that the user sees or that the server is at work on is known as it is, or its last
word is still unread and later than the watermark (`Following`). How the plugin comes to be so is the harder half: a list that was asked for after the stream
was opened, and not voided since, tells of all that happened until it was served, and what came after is unread or has
touched the task (`Counted`); so when no task was touched, applying it leaves no gap. What the channels carry must be credible
meanwhile: of one instance the same revision is the same state, a later one is of no earlier attempt, and nothing told of
a task is later than its end (`Credible`). An answer to an operation may be applied long after the list: `NoHarm` says that then it is
ignored, or is how the task is, or its last word is unread. The two halves of the proof are a step of the plugin, by what it
changes in `client` (`Noticed` says that the requests under way are told of it), and a step of the server, by the tasks it moves
(`Moved`) and the events it tells of them (`Tells`).

**The memory.** `DeletedIsRemembered` is about a step of a handler, and what it relies on was done by a worker that
held no lock, perhaps long ago and for another attempt. The invariant says of every record, in memory and in the file,
that a result which is not pending is in the memory (`TrueToFiles`), that the file says a result only where memory
does (`Behind`), and that a marker signs what the memory has (`Marked`), which is what lets the worker skip a checkpoint. Of
the worker it says that what it has read is not ahead of the checkpoint (`ReadBehind`), that it is the same while the attempt is the
same (`Current`), and that whatever result came after the attempt it is at is still pending (`Overtaken`): so a late
merge of old paragraphs, which does happen, leaves nobody believing that the memory is complete.

**The import.** Two imports never have the same attempt (`Apart`): one is begun only when the task is not
`importing`, and whoever is at work on the attempt the plugin knows of has it say so (`About`). Hence nobody else
makes the receipt that an import looks for in its catch clause, which is why finding one means that the own
file is committed (`Directory`), and the clean-up is right. The file that it fetches is what the server has for the task
at that moment, and since any attempt that has ended may be followed by another, that need not be the attempt the receipt names. What
holds is that it is no earlier one: the records come in order (`LogOrdered`), what the plugin knows is one of them (`Learnt`),
and an output that an attempt had stays one that it had, whatever follows (`HadStays`); hence `Content` of the
file in hand and `Results` of every attachment.

**Selection translation.** `Turns` says that the table holds the turns under way, one job each, none with a
generation from the future, and that what is saved is the answer of a turn that was begun; `NeverOlder` follows,
since an answer is saved only with the newest generation. `NoWaitInVain` is part of the
invariant, as joining a turn and the end of one meet under the lock.

**Paragraph recovery.** `TranslationsKept` must survive an end after any
step and the return of an archived generation, so the invariant speaks of the file, the memory and the archive at once:
`WorkInv` (memory and file agree on what is settled; a worker asks only for what cannot be restored),
`TextsAreOld` (texts are numbered as they come in), `MemoryIsKept`, `CachedIsApproved`;
`SentWasReserved` makes the budget hold when a request is reserved or sent and its answer never recorded.

**Only model-checked.** All liveness (`CancellationEnds`, `CloseEnds`, `QueueMoves`,
`StopReturns`, `OrphansExit`, `EventuallyInStep`, `HoldEnds`, `SwitchEnds`, `ImportEnds`, `SyncEnds`), which is out of the prover's
reach as it rests on fairness and `ENABLED`. Every other property of the passing runs is a theorem.

## Findings

* **`clearFailedTasks` drops bindings** (`task_sync_bindings`, `BindingsKept`). The
  answer to "clear failed" removes every task that the plugin believed failed
  before it asked and has not heard of since. If another client has retried the task
  meanwhile, the server does not clear it; the plugin forgets its attachment all
  the same, gets the task back from the list without it, and never imports the
  result. `docs/ui-guidelines.md:66` and the comment at
  `pdf2zhTaskManager.ts:1121` say otherwise. `BindingsSurvive` shows that it is the only step that does so.
* **A paused import is forgotten** (`output_import_paused`, `PausedImportsRecover`). While the
  bindings cannot be saved, an import under way finds itself not current
  (`zoteroTaskImporter.ts:83`) and returns with the task at `importing`. When they can be saved again only
  pending tasks are looked for, so nothing but a restart of Zotero imports the result;
  `taskManager.test.mjs:1599` expects recovery on retry. `ImportEnds` shows that nothing else makes an import hang.
* **A condemned row condemns its successor** (`paragraph_recovery_repair`, `RepairPreserves`).
  `register` copies the verdict of the old row and `record` keeps it
  (`translation_recovery.py:413`): the new, valid translation of a paragraph whose last
  one failed its review is saved under that verdict. A run that ends before
  the next review makes the repair ask for it again and lose it when that fails;
  `server/README.md:437` says that a repair preserves validated translations.

Five observations that are hazards in `PROJECT.json` and not findings. A start of the server without the lock may put back the old
executable after a new version is committed (`start-server.ps1:6`, above); no document promises otherwise, and `OldOrNew` shows that nothing
else does so. An import asks for the result of a task and not of an attempt (`zoteroTaskImporter.ts:111`): when another client repairs a
completed task and the repair completes before the plugin hears of it, the later file is attached under the receipt of the
earlier attempt; `ImportedIsSaved` shows that it is never an older file. `recover_leases` kills a session and waits for its leader
only, so that a helper on its way out may meet the next run (`AloneAtWork` shows that
whatever is left has been killed). A stream may be late in TaskSync, as above. And a hold may be somebody else's:
`Request-SafeMaintenance` is content with any hold that is there (`runtime.ps1:168`), as it must be when the control
centre took it for the script, and asks for no time of its own. A hold that was left behind by a lost answer or a
script that died may end before `stop-server.ps1`, and the server stops with a request in it, although
`docs/development-notes.md:155` has new work paused before the switch. `OwnHoldProtects` shows that an operation that was granted its hold is safe.

## Plan

Done: TaskManager, TaskRuntime, TaskSync, the gate and the stop, RuntimeSwitch, OutputImport,
SelectionTranslator, ParagraphRecovery, MemorySync, and the proofs above. What is left, in this order:

1. **ChatGPTAuth** (`chatgpt_auth.py`): refresh tokens that rotate, a crash between
   the answer and the write (`:238`), the file lock between two processes.
2. **TaskStore** (`_write_snapshot`, digest, backup, repair): refines the atomic file of
   TaskManager, or blocks; with it the lease file that a crash cut short and that
   blocks the queue at every later start (`task_runtime.py:176`).
3. **GlossaryManager**, **WorkPool**, the rate limiter that sleeps under its
   lock (`rate_limit.py:31`), streams of the selection translation.
4. Compositions: TaskManager with TaskRuntime (`outcome` and `blocked` from the
   runtime instead of any value), TaskSync with OutputImport; an installation stopped a second time without a
   hold (`runtime.ps1:242`) with the requests of the gate.

## Not modelled

The PDF engine, its parsers and layout models; providers and prompts; the user
interfaces of the plugin and of the control centre; installation; diagnostics;
glossary and profile forms; document export; benchmarks, website and build
scripts. Together they are most of the lines of the repository: the vendored engine alone, with its font tables, is more than half. They are sequential, numerical or pure I/O. `PROJECT.json` gives the
reason for each.
