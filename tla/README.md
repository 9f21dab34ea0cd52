# A TLA+ verification project for AgentBox

AgentBox runs agents' code in browser-backed sandboxes: *workers* keep pools of
sandboxes and of browser sessions, *orchestrators* place them, route requests
to them and keep their records in Redis, and *clients* run code, shell scripts
and git in them. This directory holds TLA+ modules of
its core, TLC configurations that check them on small instances, and theorems
that TLAPS proves for every instance. `PROJECT.json` maps each definition to the
lines it models and lists runs, mutants, findings, hazards and theorems.

Paths are relative to `src/`; `agentbox/` is left out where a file name is
unique.

## 1. Inventory

| Component | Files | State | Operations | Correct if | Status |
|---|---|---|---|---|---|
| Sandbox pool | `manager/box_manager.py`, start/stop of `pyodide_engine.py`, `code_exec_box.py`, `git_box.py` | `_sandboxes`, state and clocks of each `SandboxInfo`, the browser behind it | create, run, touch, destroy, reap, stop | capacity is kept, no slot is lost, nobody reaches a stopped box, every box is stopped once, idle ones are reaped, shutdown ends and leaves nothing | `BoxManager` |
| Worker lifespan | `api/app.py` | phase, failed attempts, `failure_count` | register with retries, heartbeat, re-register, deregister | a serving worker gets listed, health recovers | `WorkerRegistry` |
| Worker registry | `orchestrator/state.py`, `routes/workers.py` | hash with TTL per worker, index set | hset/expire/sadd, delete/srem, list with clean-up | a dead worker is dropped, a live one is not | `WorkerRegistry` |
| Routing and records | `routes/sandboxes.py`, `routes/admin.py`, `proxy.py`, `state.py` | route, record and index per sandbox | create, destroy (four kinds), proxy | what is given out is reachable and recorded, what is recorded destroyed is gone | `SandboxRouting` |
| Credential checker | `credential_checker.py`, PATCH in `routes/sandboxes.py` | `notified`, `shutting_down`, the snapshot of a pass | scan, webhook and retry, shutdown, destruction | the timer is the credentials', expiry is announced in time and not again once heard, a refresh saves the sandbox, the worker is asked before a record is closed, expired records are closed | `CredentialChecker` |
| Browser sessions | `browser/pool.py`, `session.py`, `routes.py`, `routes/browsers.py` | `_sessions` under one lock, routes | create, close, clean up idle, stop | capacity, no lost browser, clean-up goes on, a living session keeps its route | `SessionPool` |
| Command channel | `ws_handler.py`, `bridge.py`, `routes.py`, `browser_client/`, the proxy in `routes/browsers.py` | WebSockets, the frames on them, the connection a client keeps | connect, command, progress, answer, time out, break | a command takes its own answer | `CommandChannel` |
| Git store | `box/git/sync.py`, `engine_sync.py`, `storage.py`, `host_commands/git_sync.py` | files of a box and of the store, the last push and pull | restore, push, pull, fetch, push at stop | what is recorded as pushed is in the store; what is skipped was not needed; refs follow their objects | `GitSync` |
| Execution in a page | `pyodide_engine.py`, `code_exec_box.py`, `python_exec.py` | `sys.stdout` of the page | execute, await, return, raise, time out | output goes to its caller, once; executions end | `PyodideExec`, `BrowserScript` |
| Shell | `box/shell/` | files, variables, directory, exit code | commands, lists, pipelines, redirections, substitutions, `if` | as in bash but for known departures; overlapping commands lose no appended line | `CSTWalker`, `Builtins`, `Shell` |
| Patches | `box/patch/` | none | str_replace, insert, V4A diffs | only what the diff shows changes | `Patch`, `Shell` |
| Files | `box/memfs/` | the page's file system | write, append, mkdir, copy, remove | an operation is one step | `MemFS` |
| Built-in git | `builtin_git.py` | `.git` of the box | add, commit, branch, checkout, reset, rm, mv, merge, --continue, --abort | no commit is lost, a merge is recorded, the index follows | `GitRepo` |
| AgentCore | `agentcore_engine.py`, `agentcore_box.py` | remote session | start, intercept, push at stop | the work is pushed before the session ends | transfers in `GitSync`, the rest not |
| Authentication | `api/auth.py` | none | decide by scope and issuer | | not modelled |
| Clients | `client/`, `langchain/`, `deepagents/` | a lazily created sandbox | create once, execute, write, reset, close, run | a call uses one sandbox, none is left | `LazySandbox` |
| NYSCEF, web tools | `tools/` | a retried browser session | | | not modelled |
| Host commands, outline, worker routes, orchestrator start-up, stubs | | | | | not modelled: thin calls, text layout or wiring without state between calls |

**Interaction.** A client calls an orchestrator; that picks a worker from the
registry in Redis, posts to the worker, and writes route and record. Later
requests follow the route. Workers heartbeat to any orchestrator. Every
orchestrator runs a credential checker over all records. Within a worker,
requests, the reaper and the shutdown are coroutines of one event loop that
share the pool. Within a sandbox, executions share one page: its interpreter,
its files, its shell environment and its repository; nothing keeps the calls of
two callers apart there. Code in a page reaches a browser through a bridge of
its worker, a WebSocket and the orchestrator's proxy. There are no
transactions: each Redis command is atomic, a handler is not.

**Hard behaviours.** Coroutines that suspend between test and use (reaper,
executions, start against destroy); handlers that survive their clients;
crashes between two Redis commands; snapshots that grow stale while a webhook
is awaited; timeouts that leave the outcome open; counters and pages at their
limits; commands of several steps that overlap with others in one page; answers
that carry no name of their question. `PROJECT.json` lists each with its line
under `hazards`.

## 2. Modules

| Module | Role |
|---|---|
| `SandboxSlots` | abstract specification of a pool: slots of at most `Capacity` ids, as the listing shows them |
| `BoxManager` | the pool of one worker; implements `SandboxSlots` |
| `BoxManagerProofs` | theorems about `BoxManager` |
| `WorkerRegistry` | workers and the Redis registry, one command at a time |
| `SandboxLife` | abstract specification of a sandbox's life: its run, its route, its record, its id |
| `SandboxRouting` | create and destroy through orchestrators, workers reduced to what can be told from outside; implements `SandboxLife` |
| `SandboxRoutingProofs` | theorems about `SandboxRouting` |
| `CredentialChecker` | expiry, webhooks, PATCHes, in discrete time |
| `OrchestratorProofs` | theorems about `WorkerRegistry` and `CredentialChecker` |
| `SessionPool` | browser sessions of one worker under a lock, with the orchestrators' handlers and routes |
| `SessionPoolProofs` | theorems about `SessionPool` |
| `SharedRepo` | abstract specification of a repository that boxes share: commits, branches, what is recorded |
| `GitSync` | boxes that share a repository through a store, file by file; implements `SharedRepo` |
| `GitSyncProofs` | theorems about `GitSync` |
| `MemFS` | the operations of a page's file system |
| `Patch` | search, str_replace, insert and V4A diffs as functions of a text |
| `Builtins` | the shell's builtin commands, on `MemFS` and `Patch` |
| `CSTWalker` | the interpreter of syntax trees, on `Builtins` |
| `Bash` | what bash and the GNU commands do with the same trees, a reference of its own |
| `Shell` | a sandbox's shell in use, compared with `Bash` |
| `GitRepo` | the git command on one repository, step by step |
| `GitRepoProofs` | theorems about `GitRepo` |
| `CommandChannel` | browser commands over WebSockets |
| `PyodideExec` | Python executions of a page |
| `BrowserScript` | composes the two: executions that drive a browser |
| `BrowserScriptProofs` | theorems about the three |
| `LazySandbox` | the clients' sandbox created on first use |
| `LazySandboxProofs` | theorems about `LazySandbox` |
| `MC...` | symmetry sets, scripts and starting points for TLC |

A definition preceded by the comment `Slip:` is a variant of its namesake with
one plausible mistake. It is not part of the model; it is put in its namesake's
place to see that the property named in `mutants` notices it.

### BoxManager

One action is what a coroutine does between two awaits that suspend. The
`async with self._lock` blocks contain no await, so the lock is always free when
a coroutine reaches it and needs no variable. `_sandboxes` is `pool`, from ids to
*objects*: an id may be used again by a later object, and coroutines keep the
object they resolved. `create_sandbox` is `Create` (checks, insertion, up to the
first await), `Launch` and `EngineUp` (the engine's start), `SetupDone` (the
repository of a `GitBox`) or `StartFails`. `run_code` and `run_shell` are
`ExecBegin` and `ExecEnd`. `_destroy_sandbox` is `DestroyAll` up to
`box.stop()`, then `StopReturns`; loops over it go on without suspending past
boxes whose engine is not started, which `OneRun` computes. Times are reduced to
whether a sandbox is `due`. Left out: the AgentCore engine, the error of
`update_credentials` on a box that is no `GitBox` (it changes nothing), and the
order of dictionaries.

The boundary between a request and the shutdown is `GracefulDrain`: uvicorn
finishes its requests before `lifespan` goes on, a test or an embedding program
that uses `BoxManager` as a context manager need not.

### WorkerRegistry

`api/app.py` on one side, `routes/workers.py` and `state.py` on the other. A
request is served by one of the `Handler`s, whose `pc` is its next Redis command.
When the client times out or dies the handler goes on, unheard. The hash is
`absent`, `untimed` (HSET done, EXPIRE not) or `timed`. Faults are counted in
`faults`, so liveness speaks of what happens once they have stopped. A key that
expires while its worker lives is the fault `late` (no heartbeat in a whole TTL).
`list_workers` is a separate process (`ListBegin`, `ListGet`, `ListSrem`): one
listing at a time, with its own read and removal. `failure_count` is capped at
the threshold, as nothing distinguishes larger values. `torn` is a history
variable: the workers whose handler died between HSET and EXPIRE.

### SandboxRouting

`POST /sandboxes` is `Pick`, `Post`, then the worker's `Ready` or `StartFails`,
`SetRoute`, `CreateRecord`, `IndexRecord`, `Return`. Destruction is `Ask`, `LookUp`,
`FindWorker`, `Send`, `Mark`, `Unroute`; its four kinds (client or admin DELETE,
bulk, grace period, expired) differ in where they begin and in what they do with
an error. Workers are those of `BoxManager` reduced to
warming / live / gone. `reported` is the count of the last heartbeat. Left out:
the per-tenant index, paging of the bulk destruction's filter, the record that a
DELETE of an id nobody was given creates, and the drain state. `loose` is a
history variable: the sandboxes that a fault or an expired-credentials
destruction has cut off from their records.

`SandboxLife` is what this is for. It knows no handlers, heartbeats or listings: a
sandbox runs once, on one worker (`Admit`, `ComeUp`, `End`); its route leads to that
worker or nowhere (`Lead`, `Drop`); its record is opened behind the route and closed
for good (`Open`, `Close`); its id is given out when it has both (`Give`); route and
record are taken only from what has ended or was cut off (`CutOff`). `ImplementsLife`
maps `run` to `box`, `on` to `home`, `way` to `route`, `shown` to `record`, `given` to
`returned` and `cut` to `loose`; steps of handlers between two commands stutter. The
refinement entails `NoResurrection`.

### CredentialChecker

Time is counted in check intervals. `Scan` reads records and time (as one
step: the reads before the first await of a webhook are close together, and the
stale reads that matter are modelled by the pass that follows); then one record
after another is handled in any order, each await being a step of its own.
`shuttingDown` and `notified` are the two sets of each checker. A PATCH is
`PatchBegin`, `PatchWorker`, then `PatchExpiry` or `PatchBreaksOff`; several may
overlap. `Visible` pages first and filters afterwards, as `list_sandbox_records`
does. The code reads `s3_credentials.expiration`; the body that
`docs/operations/data-access.md` shows calls it `expires_at`. `Given` has both
bodies: with the latter `Create` and `PatchExpiry` leave the record without the
expiry that the worker holds. A webhook may arrive and time out all the same
(`Tell` without a 2xx): `FireAgain` then posts it a second time. History
variables: `tried`, whether a webhook about the current expiry was posted; `told`,
how many each checker posted about it since its last restart, and `heard`,
whether one was answered 2xx; `asked`, whether the worker was sent a DELETE for it;
`timely`, the sandboxes whose first credentials came in time for a webhook and whose
checkers have kept up since; `drifted`, those whose last POST or PATCH named no
expiration, overlapped with another PATCH or broke off. The worker's answer to the checker's DELETE
is either outcome; routes are in `SandboxRouting`. `CheckerInit`, `CheckerNext` and
their like have names of their own so that `OrchestratorProofs` can extend the
module together with `WorkerRegistry`.

### SessionPool

Unlike that of the sandboxes, this pool holds its `asyncio.Lock` while browsers
start and close, so the lock is a variable: the FIFO `queue` of those who wait,
the first of whom holds it. `create_session` is `Refuse`, or `Admit` and then
`Started` or `StartFails`; `close_session` is `CloseMisses`, or `Close` and then
`Closed`; the clean-up is `CleanScan`, then `CleanClose` and `CleanClosed` or
`CleanMisses` for each session of its list, each with the lock taken anew; `Stop`
cancels the clean-up wherever it is and joins the queue, `StopCloses` and
`StopDone` end the pool. Session ids (random) are numbered as they are drawn.

A `call` is a request with its two sides: `orch`, the orchestrator's handler, which may
give up (`GiveUp`) while `work`, the worker's, goes on unheard. `SetRoute` and
`DropRoute` are the orchestrator's Redis commands, `RouteExpires` their TTL. History
variables: `given`, the sessions whose id a client has been given; `lost`, those whose
start failed half way or whose close did: `Shut` has both outcomes of `session.close()`,
which logs the errors of Playwright and returns. Left out: the WebSocket and the
commands, several workers, error answers of the worker other than 404 and 503.

### GitSync

Box and store are maps from files to contents. The files are the commits' objects (one
per commit), the branch and `.agentbox-push-ref`. A push, pull, fetch, restore or push
at stop is a begin (what is read first: HEAD, or the push ref), a `List`, one `CopyIn`
or `CopyOut` per file, and an end (`PushDone`, `PullDone`, `RestoreDone`, `SyncDone`);
commits, other boxes and crashes come in between. The order of the files is the code's:
sorted when they come from the store, any when `find` lists them in an AgentCore
session, and the order in which directories were made when a page is walked. `git init`
makes `.git/objects` before `.git/refs`; the restore of a store that has the branch and
no object makes `.git/refs` first (`refsFirst`), and such a box pushes its branch before
its commits. A file that cannot be read (`Misses`) is an error the transfer goes on
after; a store that raises (`StoreFails`) ends it. A push ref that S3 fails to return
counts as missing (`Read`). `past` gives the history of each commit. History variables:
`pulled`, and `ahead`, the commits that the store's branch has been in front of, which
the properties exempt: a push that broke off may leave such a branch, and a box that
restores it cannot supply what it never got. Left out: working tree and index, merges,
overlapping transfers of one box, deletion of repositories, refresh of S3 credentials.

`SharedRepo` is what the copying is for: commits have one history for good (`Make`), go
from box to store and back (`Give`, `Get`) and leave the store never; branches follow
one another (`Lead`, `Follow`); a commit is recorded as pushed (`Record`) or remembered
as pulled (`Remember`) with its whole history, but for what the store's branch was
ahead of (`owed`); a box may go with all it holds (`Lose`). In `ImplementsRepo` the
commits are the files that hold them (`CommitsIn`), `mark` is the store's push ref and
`seen` the `lastPull` of the boxes in `pulled`; listings, single unreadable files and the
beginnings of transfers stutter. It entails `SkippedPushIsStored` and
`SkippedPullIsHere`.

### MemFS, Patch, Builtins, CSTWalker, Shell

`MemFS` has one operator per operation of `memfs.py`, each of which is a single
`page.evaluate()` and so a step. A file system is a function from paths (sequences
of names) to nodes, a text a sequence of tokens, one of which ends a line.
`Builtins` has one operator per command of `buildin_exec/`, from arguments, input
and shell state to output, exit code and the next state; paths are resolved as by
`Environment`. The trees have the nodes that tree-sitter-bash gives, not those the
walker looks for: an `if` with an `elif_clause` or `else_clause` runs all its
clauses or none (`IfStatement`), and a `negated_command` is evaluated as what it
holds. `CSTWalker.Eval` follows the visitor of each node of the syntax tree
(`program`, `command`, `list`, `pipeline`, `redirected`, ...) with the one
environment that the walker hands on, also into subshells and `$( )`. `Patch` holds
`str_replace` with its tiers, `insert` and the parser and applier of V4A diffs.

`Shell` puts these to use. `RunScript` runs a script without others between;
`BeginCall` and `EndCall` run the commands that read a file in one await and write
it in another (`touch`, `sed -i`, `edit`, `mv`, `apply_patch`; `touch` and
`apply_patch` do so for one file after another), so that other calls come in
between; `Note` appends a line. The history variable `noted` has the
lines that were appended while no command was half done with the log. `Bash` is a
reference semantics of the same trees, from the language down to the commands: it
shares texts, paths and nodes with the model and none of its operators that walk
or execute. Each answer says whether it is `plain`, that is meets none of the
departures its header lists, and only plain ones are compared.

Left out: the parser (tree-sitter), `for`, `while`, `case`, functions, here-documents,
`${...}` and arithmetic; host commands; commands that only print; errors' wording.
Scripts of several commands are one step even where the code suspends between commands:
what an overlap inside a script can do is that of the commands of several steps.

### GitRepo

One git command is a script of awaited calls of isomorphic-git. Commands with one call
that changes something are one action (`Add`, `CommitStep`, `Checkout`, `Rm`); others
keep in `calls[c]` what the caller's command has still to do: `Reset` and `Merge` (with
or without `--no-ff`) are followed by `ForceCheckout`, `Mv` by `MvRemove` and `MvAdd`,
`MergeContinue` by `StageAll`, `MergeCommit` and `MergeWrite`, or `MergeCommitFails`.
Between two of these steps the other caller runs anything, or files are edited
(`EditFile`). `mergeBranch` is the environment variable that remembers a conflict. A
name is resolved as the library does, by `.git/<name>` before `.git/refs/heads/<name>`:
`MergeCommit` is `git.commit({ref: 'main'})`, which writes `.git/main` (`shadow`), and
from then on `IdOf` answers with that file, a `Merge` starts from it and writes it in
place of the branch (`MergesTo`), and a checkout of the name detaches HEAD (`HeadAt`). A
tree is a function from files to contents; `MergedTree` merges file by file. History
variables: `staged`, the files that differ from HEAD because a command put them in the
index; `merged`, what commands reported as merged and whether branch or file took it;
`overtaken`, the branches that a `--continue` wrote although they were not where it took
them from; `behind`, whether the index missed a step of HEAD, because the branch was
gone when a forced checkout came to it or a `--continue` wrote it behind a changed
index. The properties name these cases and nothing else. Left out: log, diff, status and
show (they change nothing), clone, stash, tags, configuration, merges inside a file, and
what the library does within one call.

### CommandChannel, PyodideExec, BrowserScript

`CommandChannel`: connections are numbered as they are opened, each with a queue
of frames in both directions (client, proxy and worker relay in order, so the hops
are one queue) and the handler at its end. `Connect`, `Greeted`, `Reuse`,
`Receive`, `Dropped`, `TimesOut` are the client's side, `TakeCommand`, `Progress`,
`Reply`, `Hangup` the worker's; `Break` is a restart of what is in between. The
initial choice `native` tells the two clients apart: the bridge of a page opens a
connection per command, the native one keeps it. Every frame carries the command
it is about, which the code's frames do not; `OwnAnswer` uses it. `skewed` is a
history variable: the connections on which an exchange went wrong earlier.

`PyodideExec`: an execution is `ExecBegin` (swap `sys.stdout`, first stretch of
code), any number of `ExecAwait` and `ExecResume`, and `ExecReturns`, `ExecRaises` or
`ExecExits`; `ExecTimesOut` answers the caller and leaves the code running in the
page. Text is a token per stretch. `mixed` is a history variable: executions that
shared their page. `BrowserScript` composes the two: what an execution awaits is a
browser command, and while it waits others have the page.

Left out: what a command does to a browser page, ok or error inside an answer, the
packages and variables that stay in the interpreter, `sys.stdin` and `sys.argv`.

### LazySandbox

`Ensure` is `_ensure_sandbox` of both LangChain clients, `Created` and `CreateFails`
the end of its POST; `WriteSends` and `ExecuteSends` are the requests of a call,
`Target` the sandbox they go to: the handle the call was given (`AgentBoxBackend`)
or `_sandbox_id` as it is by then (`AgentBoxSandbox`). `ResetBegin`, `CloseBegin`
and `Deleted` are the ends of a sandbox by its client, `Reaped` by the server;
`RunBegin` starts `AgentBoxClient.run`. The history variable `lost` is set when
creations overlapped or a request failed, after which the clients do leave
sandboxes behind. Left out: reads, listings and file transfers (one request each,
as `execute` is), the answers' contents, and the backend of Deep Agents, whose
first use is the same.

## 3. Runs

Passing runs:

| Run | Question | Bounds |
|---|---|---|
| `BoxManager_safety` | what a request may reach, which slots could be lost, who stops a box; refinement of `SandboxSlots`, which bounds the pool | 3 ids, 3 boxes (one `GitBox`), 2 slots, 1 execution; ids come back, no drain: the third id meets a full pool, the third box an old id |
| `BoxManager_live` | reaping, starts and the shutdown end; the shutdown leaves nothing | 2 ids, 2 boxes, 2 slots, 2 executions, drained: the reaper's list and the queue of `stop()` have a second box |
| `WorkerRegistry` | a hash without TTL has a handler that will set it; serving workers are listed, gone ones dropped | 1 worker, 2 handlers, 3 faults of any kind; workers share nothing but handlers and the listing, so one is enough |
| `SandboxRouting` | how far record, route and worker agree under all kinds of destruction; refinement of `SandboxLife` | 2 sandboxes, 2 workers of 1 slot, 2 creations, 2 destructions at once (by a user, in grace, after expiry), 1 fault of any kind; the bulk destruction is left to the theorems |
| `CredentialChecker` | timers, webhooks and shutdowns match the credentials; no timely shutdown without its webhook, no timely closing without its DELETE; expired records on the page are closed | 1 checker, 2 sandboxes (one with a webhook), notice of 3, lifetimes of at least 3, pages of 1 record, so that a second sandbox pushes the first off, 1 PATCH, bodies with and without an expiration, 1 fault (a failing pass, a restart or a PATCH that breaks off), time to 5. Several checkers and overlapping PATCHes are covered by the proofs |
| `SessionPool` | what the lock keeps true of pool, browsers and routes; idle sessions go, the shutdown ends | 3 sessions, 2 requests at once, 2 places, 1 failing start or close |
| `GitSync` | what skipped, recorded and broken-off transfers mean for the commits of store and boxes; refinement of `SharedRepo` | a `GitBox` and an AgentCore box, 2 commits, 5 transfers, 1 fault of any kind; a restore, two pushes, a pull and a push after it fit |
| `Shell` | scripts do as in bash, in every state; appended lines survive overlaps; patches that show a file give the new text | 14 scripts of every kind of node, 9 commands of several steps, 2 notes, any 3 of them; a directory, three files of up to 4 lines; texts of up to 4 lines of one token |
| `GitRepo` | history, index and recorded merges under overlapping commands | 2 callers, 2 files, 2 branches, 6 commands or edits, 7 commits; a new repository, two branches that have parted, with and without a conflict, and both once more after a `--continue` that has left `.git/main` |
| `BrowserScript` | whose answer, whose output, and that executions end | 2 executions of one page or 2 native tasks, 2 connections, 2 commands each of 2 kinds, 1 progress message, 2 stretches of code |
| `LazySandbox` | where a call's requests go, what is left | 3 calls, 3 sandboxes, every operation of both clients |

`TypeOK` and the inductive invariants (`IInv`, `CheckerIInv`) of the modules with
proofs are not part of the runs: TLC has checked each on its module's run, that of
the checker also with two checkers and with two PATCHes at once, and they are proved
since (section 4). The `TypeOK` of the others says what their variables are.
`NoResurrection` and `SkippedPushIsStored` are proved and not part of the runs either: the
refinements that are checked entail them.

Two handlers or requests are enough for every pair that overlaps, two sandboxes
for a scan or pass that is stale because of another one, three boxes for a reused
id while an older owner is still being stopped, two commits for one made during
the push of another; two executions, commands or callers for every way two
overlap in a page. The scripts of `Shell` are compared with bash in each state,
not only in the first, so that three steps give them some five thousand of them.
The bounds on faults allow one of each kind, in the registry three in a row.

The violation run `BoxManager_ReaperSparesBusy` shows that a comment is not true
of the code, quoted in `findings`: the reaper destroys a sandbox that began to
execute after its scan.

`CHECK_DEADLOCK FALSE` throughout: the systems stop when ids, faults, sessions or
time are used up.

Met while modelling, not runs:

- a sandbox destroyed while it is warming keeps its browser: `box.stop()` does
  nothing before `_started` (`box_manager.py:327`), and the creation answers READY
  all the same;
- the checker closes the record of a sandbox with expired credentials and drops its
  route without asking the worker, where it runs on (`credential_checker.py:139`;
  line 11 says "sandbox destroyed"); `AskedBeforeClosed` says when the shutdown before
  has asked it;
- a pass of the checker that is busy with others destroys a sandbox that was
  refreshed meanwhile (`credential_checker.py:123`); `RefreshThenScanSurvives` says
  what is left of the promise of `docs/operations/data-access.md:119`;
- of two overlapping executions of a sandbox the first to end clears EXECUTING
  (`box_manager.py:220`), as the comments of `NoStuckSlot` allow for;
- `BoxManager.stop()` may cancel the reaper inside a `box.stop()`, whose browser
  then is closed by nobody but the end of the process;
- a heartbeat still being served writes back a worker that has deregistered
  (`routes/workers.py:68`); it goes when its TTL is over (`GoneIsDropped`);
- any answer but 404 resets the failure counter of `/health`, 5xx included;
- an orchestrator that dies between HSET and EXPIRE leaves a worker without TTL
  (`torn`);
- the route of a sandbox lives an hour from its creation, whatever its life;
- `pick_worker` takes a full worker if its last heartbeat was before it was;
- the bulk destruction closes a record even if the worker did not answer;
- a POST or PATCH with the documented `expires_at` leaves the record without it (the
  code reads `expiration`): such credentials are never announced, and their sandbox is
  never shut down; a PATCH that breaks off after the worker's answer leaves the old
  timer, and of two that overlap the worker may keep the one's credentials and the
  record the other's expiry (`drifted`); a second expiry after a refresh is never
  announced; a webhook that arrived but timed out is sent again, and two orchestrators
  announce the same expiry twice; records beyond the newest 100 are never checked,
  whatever their expiry;
- the clean-up of browser sessions closes one that was used since its scan
  (`pool.py:143`); a browser that Playwright would not close is forgotten
  (`session.py:378`);
- `git pull` may say "Already up to date" of a store with newer commits
  (`docs/sandbox/git.md` promises the latest state): a restore that overlaps a
  push notes the push ref after it has copied the older branch
  (`git_box.py:165`), and the push at the stop of an AgentCore box changes the
  branch but not the push ref (`agentcore_box.py:150`);
- a box restored from a store that a broken-off push left with the branch alone
  pushes its branch before its commits from then on (`sync.py:22`);
- `docs/operations/storage.md` describes an automatic push on commit for
  `GitBox`; `auto_sync` is stored and never read there;
- the shell: an `if` with `elif` or `else` runs all branches after a true condition and
  none after a false one (`cst_walker.py:356-390` looks for children `else` and `elif`,
  the parser has `else_clause` and `elif_clause`), and `! cmd` is not negated
  (`cst_walker.py:167`, the parser has `negated_command`); `echo a && echo b` drops what
  the left side wrote; `mv a a` deletes the file, `mv` of a directory that is not empty
  copies it and leaves the source with exit code 0; `cp` copies a directory without
  `-r`; `test` and `[` always succeed; subshells, `$( )` and pipelines
  share directory and variables with the script; `<` runs the command a second
  time; a redirection that cannot be written is passed over; `touch` writes back
  what it read, without lines appended meanwhile, and so does `apply_patch`; `export`
  does not expand its value; `rm -r` leaves directories; the rest is in the header
  of `Bash`;
- `str_replace`: the tier for shifted indentation comes after the one that strips
  both sides and can never match; the fuzzy tier does not test uniqueness
  (`patcher.py:67`: "Enforces uniqueness: exactly one match required.");
- git: after a merge with conflicts a plain `git commit` does not conclude the
  merge, as its message suggests; `--continue` stages files with their conflict
  markers, resolves branch names when it begins and overwrites a commit made
  meanwhile; it leaves a file `.git/main` (`builtin_git.py:320`), from which later merges
  into `main` start and to which they are written, while `refs/heads/main` lacks what
  was reported as merged; with it a checkout of `main` detaches HEAD, and a second
  `--continue` of one caller alone overwrites the commits made on the branch since;
  a branch deleted under a merge or reset leaves the index behind; the
  forced checkout of a merge discards edits; `git diff --cached` ignores the flag;
- browser commands: the client has `back`, `forward`, `reload`, `type`, `press` and
  `hover`, which `BrowserAction` rejects; the native client keeps a connection that
  has ended, and all later commands fail; commands that overlap on it raise while
  they are executed all the same, and their answer is taken by the next; a progress
  message is taken for the answer;
- executions: `run_shell` has no time-out (`code_exec_box.py`: "Max seconds for a
  single code/shell execution"); of overlapping executions one may answer the
  other's output, or an error although it succeeded; `stdin`, `argv` and the working
  directory set by the shell's python stay; `execute()` drops what was printed
  before an exception;
- clients: `AgentBoxBackend` never replaces a sandbox that was reaped; two first
  calls, or two resets, that overlap leave a sandbox behind; the `edit` of the Deep
  Agents backend ignores `replace_all`.

**Fairness**, weak everywhere, and only of what the programs run by themselves.
`BoxManager`: the phases of a start (Playwright answers or raises), the end of
`box.stop()`, the reaper's sleep, the steps of the shutdown; none for requests,
executions or time. `WorkerRegistry`: the registration and heartbeat loops,
handlers, lookups of a listing, the timeout of an unanswered request, and Redis'
expiry of a silent worker's key. `CredentialChecker`: each checker scans again and
goes on. `SessionPool`: Playwright answers or raises, the holder of the lock goes
on, handlers, clean-up and shutdown; none for clients. `BrowserScript`: code in
a page ends or comes to its next await, the page's event loop goes on, and the
client's `wait_for` ends; the browser worker need not answer. `GitSync`, `Shell`,
`GitRepo` and `LazySandbox` have safety properties only: nothing in them is
retried or waits for another.

## 4. Proofs

Each is for all values of the constants that meet `ConstantsAssumption` (for the checker
`CheckerConstants`) of its module (the extra values lie outside their sets, the numbers
are naturals).

**`BoxManagerProofs`**, for all sets of ids and boxes and all capacities:
`InvariantHolds` (`Spec => []IInv`), from which `TypeCorrect`, `CapacityHolds`,
`PooledHolds` and `NoStuckSlotHolds` follow; `StoppedOnceHolds`, a box is stopped
by one caller, once; `PoolImplementsSlots`, the pool implements `SandboxSlots`.
That a pooled box is live needs to know that no two ids share a box
(`PoolIndexed`: a box sits under its own id, so popping one id cannot leave the
box under another); that a warming slot has a start at work needs the phases of a
start (`EnginePhases`), which also say that only an open browser of a started
engine is ever closed. `CapacityBound` needs the occupied ids to be finite, as
`Cardinality` means nothing otherwise; `Id` itself may be infinite. One step per
action; `DestroyAll`, the common part of client, reaper and shutdown, has its own
lemmas.

**`OrchestratorProofs`**, about the two parts of an orchestrator that keep a state.
Of `WorkerRegistry`, for all workers, handlers and faults: `InvariantHolds`
and, from it, `TypeCorrect` and `UntimedIsHeldHolds`. `IInv` adds to them
`HandlersServe` (what a handler serves, and that it has one worker), `OneWaited` (at
most one handler is the one its worker waits for) and `AttemptLeft` (a registration
under way has attempts left).

Of `CredentialChecker`, for all checkers, sandboxes, PATCH handlers and faults, every
notice, grace period below it and page size: `CheckerInvariantHolds` and, from it,
`CheckerTypeCorrect`, `TimerMatchesHolds`, `NoDuplicateWebhookHolds`,
`RefreshThenScanSurvivesHolds` and `AnnouncedBeforeShutdownHolds`; with `AskIInv`
(`AskInvariantHolds`) also `AskedBeforeClosedHolds`. `TimerFits` says who stores what
the worker already has; `PassFits` what a pass at a webhook or a DELETE knows of the
sandbox at hand, and that it shuts down only what it saw within the grace period;
`TellFits` that who has told of an expiry remembers it until the record is closed, and
that what was heard was told. `TimelyFits` is an account of time: each time unit that
ends without a webhook, once one is due, cost every checker a pass (`Wasted`), so the
time that is left is the notice less the faults. `Create` opens the account, `Skip` may
only be taken while it is in credit, a failed pass or a restart draws one unit, and
`Tick` closes it unless every checker has swept. `AskFits` is the same account of the
DELETEs, from the beginning of the grace period on. While proving, three properties were
restated for any number of checkers and PATCHes, where they were true of one only:
`told` is kept for each checker, `drifted` names what overlapping and broken-off PATCHes
do, and the faults that excuse a shutdown without webhook are counted.

**`SessionPoolProofs`**, for all sets of sessions and requests and all capacities:
`InvariantHolds` and, from it, `TypeCorrect`, `CapacityHolds`, `PooledHolds`,
`OpenIsOwnedHolds` and `ReturnedIsRoutedHolds`. The strengthening says what the
lock does: `LockFits`, everyone in the queue waits or works and is there once, and
only its head starts or closes a browser; `CallsFit`, how far the browser of each
request is, and that two creations never share a session; `CleanerFits`, the same
for the clean-up; `RoutesFit`, only sessions that have been drawn have routes. The
capacity test and the registration are two actions, and that the pool has not
grown in between follows from `LockFits` alone. The queue's lemmas (what
`Append` and `Tail` do to who is in it, and where) come first, then one lemma for
each action.

**`SandboxRoutingProofs`**, for all sandboxes, workers, creators and destroyers and
any set of faults: `InvariantHolds` and, from it, `TypeCorrect`, `OnlyLooseRunOnHolds`,
`ReturnedIsReachableHolds` and `NoResurrectionHolds`. That a destroyed sandbox does
not run has to be known while its destruction is still on the way: `DestroyersFit`
says that a destruction past its look-up asks the worker that has the sandbox, or
the sandbox runs no more. It can say so because the route of an indexed sandbox
leads to its worker (`RecordsFit`), which in turn needs the order of the writes of a
creation, route and record before the index, and that no two creations share a
sandbox (`CreatorsFit`). `LifeHolds`, the refinement of `SandboxLife`, is the same
case split again: `Mark` and `Unroute` may close a record and drop a route because
what a destruction has asked about no longer runs, `Return` may give an id out because
the index names recorded sandboxes only. The latter, `IndexedIsRecorded`, is an
invariant of its own, inductive relative to `IInv`.

**`GitSyncProofs`**, for all boxes and commits, any history and any number of
transfers: `InvariantHolds` and, from it, `TypeCorrect`, `SkippedPushHolds`,
`SkippedPullHolds`, `RecordedHolds` and `BranchHolds` (the order of a push from a page
that is not in `refsFirst`). A reference is `Backed` if the
store lacks no commit of its history except where the store's branch was ahead once
(`ahead`), and `BackedBut(b)` if it lacks none that box `b` lacks too. `StoreFits` and
`BoxFits` say which of the two each reference is in store and box, and what a
transfer under way has still to copy: what it lacks is in `todo` (`PushFits`,
`PullFits`). So the references may be copied in any order the code allows, and the
proof shows where each goes from one kind to the other. While proving,
`SkippedPushIsStored` and `SkippedPullIsHere` turned out to hold of each commit, not
only of histories that `ahead` does not touch, and were strengthened to that.
`RepoHolds`, the refinement of `SharedRepo`, needs nothing beyond `IInv`: that a backed
reference is complete is `BackedIsComplete`, that what goes into `pulled` is, is
`HereIsComplete`, and one lemma per action says which abstract step it is.

**`GitRepoProofs`**, for all files, branches, callers and repositories to begin with
(`ConstantsAssumption`: numbered commits with their ancestors, branches and files
`.git/<branch>` at commits that exist, no branch with a number for a name):
`InvariantHolds` and, from it, `TypeCorrect`, `StagedByHandHolds`,
`MergedIsRecordedHolds` and `HistoryGrowsHolds`. `WellMade` says that ancestors are
closed and earlier than their descendants, and that a commit keeps what it has when
others are added. `IndexFits` gives the index the exception that makes it inductive: it
follows HEAD, or somebody's forced checkout is still to come, or it is `behind`.
`CallFits` keeps the commits a `merge --continue` read apart from where their branches
are by now, and says that what it is about to write follows both; `Recorded` ties each
reported merge to the ref, branch or file, that took it; `overtaken` has the branches
that a `--continue` overwrote.

**`BrowserScriptProofs`**, for all executions, pages, connections and commands:
`InvariantHolds`, `OwnAnswerHolds`, `OutputOnceHolds` and `AloneIsExactHolds`. `IInv` has
two halves, as the module composes two. `PageInv`: the buffers of two executions
share no token (`TokensFit`), the buffer in a page's `sys.stdout` was put there by an
execution of the page and nobody was answered what it holds (`StdoutFits`), and an
execution that is not `mixed` is alone in its page with all that it printed
(`ExecsFit`). `ChannelInv`: a connection that is not `skewed` and that nobody uses is
quiet (`ConnsFit`), and whoever waits on one has it to himself and it carries his
command only (`TasksFit`). Assumed: the page's own stdout is no
execution, and the executions are the tasks of the channel.

**`LazySandboxProofs`**, for all calls and sandboxes and both clients: `InvariantHolds`
and, from it, `TypeCorrect`, `OneTargetHolds` and `OnlyHeldIsLiveHolds`. A creation
that did not overlap has the field to itself (`CreationsApart`), what lives is held
or in the hands of a `run()` (`LiveIsOwned`), and what a call has sent went to the
one sandbox it was given, or that is held (`SentToTarget`).

Each proof has one lemma per action and, before them, lemmas about the operators
that several actions share (`PointTo`, `AddCommit`, `PutOut` of `GitRepo`, `Copy` of
`GitSync`, the queues of the sessions). The inductive steps of action properties
(`NoResurrection`, `HistoryGrows`, `RecordedIsStored`, `BranchAfterCommits`) and those of
the three refinements are steps of `IInv /\ [Next]_vars`.

Only model-checked:

- liveness and ENABLED, which no prover here treats: `SlotsComeBack`, `StopEmpties`,
  `ServingIsListed`, `GoneIsDropped`, `IdleIsClosed`, `StopTerminates`,
  `ExpiredIsClosed`, `ExecutionsEnd`;
- `AgreesWithBash`, `AppendsSurvive` and `PatchesApply`: `MemFS`, `Patch`, `Builtins`,
  `CSTWalker`, `Bash` and `Shell` walk trees and texts with RECURSIVE operators, which the
  prover does not support, and what they compute for every input would need
  induction over data.

## 5. Not modelled

- The AgentCore engine and box beyond file transfers: a remote service whose
  sessions and tokens the code only starts, asks and ends.
- Authentication: a decision on one token, without state.
- Start-up of the orchestrator, the worker's HTTP routes but for executions, and
  the stubs: wiring and translation.
- NYSCEF and web tools: programs for one external site, with its pages as their
  only logic.
- Host commands (archives, reports, outline, awk): text in, text out; layout is
  most of what they do.

## 6. Plan

1. done: the modules above, and proofs of all safety properties of `BoxManager`,
   `WorkerRegistry`, `CredentialChecker`, `SessionPool`, `SandboxRouting`, `GitSync`,
   `GitRepo`, `BrowserScript` with its parts, and `LazySandbox`;
2. `for`, `while` and functions of the shell; stash and clone of git; the session
   and token refresh of AgentCore.
