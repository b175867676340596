# A TLA+ model of DevMCP Runtime

DevMCP Runtime is a local server that gives MCP clients a coding context: they
read files, apply patches, run commands and use Git in a project.  Several
clients, several processes and the user's own editor work in the same
checkouts at the same time.  This directory models the parts of it whose
correctness depends on that: leases, checkpoints, patches, contexts, commands,
sessions, transactions, Git tools, delegations, and the services around them.
TLC checks the models on small instances; TLAPS proves the most
important properties for instances of any size.

Paths below are relative to `src/coding_tools_mcp/` unless they say otherwise.
`PROJECT.json` names, for every definition, the lines it models.

## The system

| Component | State | Operations | Hard because |
|---|---|---|---|
| Branch writer leases (`writer_lease.py`) | one JSON record per branch, shared by all processes | acquire a set of branches, release one, release all of an owner, expire | several processes, a wall clock, crashes between two writes |
| Guarded mutations (`stateful_server.py`, `state_mutations.py`, `state_checkpoint.py`, `state_snapshot.py`) | authoritative checkpoint per owner, the checkout itself | preflight, tool, after-checkpoint, release, reconcile | the checkout is changed by others at any point; each step reads what an earlier one saw |
| Patch engine (`patching.py`, `apply_patch` of `server.py`) | temporary files, backups, baselines | parse, stage, commit, roll back | a multi-file commit without a multi-file primitive |
| Logical contexts (`session_state.py`, `call_tool` of `server.py`, `managed_worktree.py`) | registry of contexts with leases and claims; roots of each Runtime; Git worktrees | create, retain, claim, bind, save, release, prune, clean up | contexts expire under calls and jobs; a Runtime is shared by the calls of its session |
| Commands (`_execute_command_legacy` and the session tools of `server.py`, `processes.py`, `SharedJobRegistry`) | sessions, retained sessions, shared jobs, processes, snapshots | start, poll, kill, cancel, time out, close, reap | at least five threads per command; resources must be released once, after the process, by somebody |
| HTTP sessions (`transport_http.py`, `MCPHandler` of `server.py`) | session table, request counts, Runtimes | create, get, release, delete, prune, close | checks under the lock, closing outside of it |
| Execution transactions (`transactions.py`, `sandbox.py`, `finish()` of `server.py`) | a snapshot of the workspace shared by commands, its reference count, baselines | acquire, capture, compare, apply, release | files change while they are read; the first of two commands to end must not take the snapshot away |
| Output buffers (`processes.py`, `textutils.py`, `read_output`) | trimmed byte buffers and cursors | append, poll, page | three coordinate systems for one stream |
| OAuth provider (`oauth.py`, handlers of `server.py`) | clients, pending codes, tokens | register, authorize, exchange, accept | single use, expiry, limits, restarts |
| Continuation (`continuation.py`, `_resume_*` of `stateful_server.py`) | records of where work stands; claims and attached worktrees | write, clear, resume, roll back | the workspace is edited, removed or claimed while it is validated and claimed |
| Git tools (`git_*` of `server.py`) | refs, index, work tree, merge in progress | branch, switch, fetch, pull, merge, commit, push, delete | a tool is several git commands; others run theirs in between |
| Delegation (`antigravity_delegate` of `server.py`) | a detached worktree per delegation | add, run and retry the agent, inspect, apply, remove | the checkout moves on while the agent works |
| Service update (`service_update` of `server.py`, `_service_update` of `apps/devmcp/cli.py`) | scheduled units, installed code, its record, the source checkout | schedule, check, install, record, restart, verify | units outlive the server and each other |
| Desktop client (`apps/desktop-client`: `runtime.py`, `app.py`, `storage.py`) | a state file with pids and creation times, handles | start, stop, status, adopt | processes outlive the client and pids are reused |
| Tasks, executors, sandboxes | configuration | wrappers of external programs | – |
| stdio transport, JSON-RPC (`transport_stdio.py`, `protocol.py`) | – | one request at a time | signals arrive on the thread that runs the tool |
| rest of `apps/devmcp`, `cloudflare/` | – | installation, presentation, a request handler | – |

How they interact: an HTTP request finds its Runtime through the HTTP session
manager; `call_tool` retains the logical context and copies its roots into the
Runtime; a tool that changes the checkout runs inside a guarded call, which
takes branch leases; `apply_patch` and transactional commands end in the patch
committer; a command that outlives its call lives on in the shared job
registry, which holds a lease on the context.  A context saves where its work
stands in a continuation record, and another one resumes it by claiming its
worktree.  Service update and the desktop client start and replace the server
from outside.

## Modules

| Module | Models | Instances |
|---|---|---|
| `BranchLock` | what writer leases promise: a lock per branch | refinement target |
| `WriterLease` | `writer_lease.py` | – |
| `GuardedMutation` (extends `WriterLease`) | guarded calls of several owners in one checkout | `MCGuardedMutation`, `MCServices` |
| `AtomicPatch` | `AtomicPatchCommitter.commit` under `apply_patch` | `MCAtomicPatch`, `MCWorkspace` |
| `PatchStaging` | `_analyze_patch` and `apply_update_hunks` | `MCWorkspace` |
| `GitTools` | the Git tools of one workspace | `MCWorkspace` |
| `Continuation` | continuation records and resume | `MCWorkspace` |
| `LogicalContexts` | the context registry, `call_tool`, worktrees | `MCLogicalContexts` |
| `Delegation` | `antigravity_delegate` | `MCCommands` |
| `ExecSessions` | the commands of one Runtime | `MCExecSessions`, `MCCommands` |
| `OutputBuffers` | one output stream of a command | `MCCommands` |
| `Transactions` | commands with `transaction_mode=apply` | `MCCommands` |
| `HttpSessions` | `HTTPSessionManager` under concurrent requests | `MCHttpSessions` |
| `OAuthProvider` | clients, codes and tokens | `MCServices` |
| `DesktopSupervisor` | `RuntimeManager` of the desktop client | `MCServices` |
| `ServiceUpdate` | update and restart of the service | `MCServices` |
| `AtomicPatchProofs` | theorems about `AtomicPatch`, `PatchStaging` | – |
| `HttpSessionsProofs`, `ExecSessionsProofs`, `LogicalContextsProofs` | theorems about the module of that name | – |
| `GuardedMutationProofs` | theorems about `WriterLease`, `GuardedMutation` | – |
| `WorkspaceProofs` | theorems about `GitTools`, `Continuation` | – |
| `CommandsProofs` | theorems about `Delegation`, `Transactions`, `OutputBuffers` | – |
| `ServicesProofs` | theorems about `ServiceUpdate`, `OAuthProvider`, `DesktopSupervisor` | – |

`MCWorkspace`, `MCCommands` and `MCServices` put several components side by side: the variable `focus` is chosen initially and never
changes, the component in focus takes its steps, and the others stay at one
initial state.  The states of such a run are the sum, not the product, of those
of its parts; components that do interact are one module (`GuardedMutation`
extends `WriterLease`; `Continuation` has registry, leases, worktrees and
checkpoints; `Transactions` has pool, commands and workspace).

Definitions called "Mutant" in their comment are wrong variants of the
definition that follows them; no specification uses them.  They document what
each property would catch.

### WriterLease, BranchLock

`lease[b]` is the record file of branch `b`: its owner and the time left
before `expires_at_epoch`.  `flock` makes an operation atomic, except that
`write_json` may fail, or the process die, after some of the branches
(`AcquireInterrupted`).  `ImplementsBranchLock` says that through all of this a
branch never passes from one unexpired owner to another.

### GuardedMutation

One action per step of a guarded call: `Begin` (`_state_branch`, before any
lease is held), `ReadAuthority`, `AcquireLeases` or `LeaseConflict`,
`Preflight` or `StateDrift`, `CallbackStep` (the tool changes something),
`CallbackEnds` or `ExecEnds`, `StateAfter`, `Release`; `ReconcileApplied` and
`ReconcileNotApplied` for `continuation_checkpoint(action="write")`.
`EnsureBaseline` and `BindWorkspace` write a checkpoint outside of guarded calls:
the first only when there is none, the second (a managed worktree is bound)
always.  The faults
are crashes, failing file writes and changes behind DevMCP's back.  HEAD, index
and working tree are one datum (`Trees`), as `DRIFT_FIELDS` compares them
together; the branch is kept apart because leases are per branch.  `left` in
`op` repeats the clock of the lease so that properties can say "while its lease
has not run out"; `intruded` is a ghost that remembers who was disturbed.

### AtomicPatch

One action per rename and per check of `commit`, `_rollback` and the `finally`
block; `Edit` is an editor or another process between any two of them.  The
ghost `user` is what others last put at a path, `raced` the paths they changed
after the last check the code makes; the properties promise nothing for these,
since no check could.  The order of the loops is that of the paths.

### LogicalContexts

A call goes through `Begin`, `Retain` or `Create`, `Lock`, `Apply`, `Claim`,
`Bind`, its handler, `Save` and `Release`.  Registry operations are atomic (its
lock), nothing else is.  `live` is ordered by `last_seen`.  Worktrees are named
by project and context; their branches outlive them, as in the code.
`default_cwd` follows the workspace root and is left out.  Tools are told apart by
what they do with a workspace: `read`, `write` (claims it and may leave changes
in it), `job` (claims it and may leave a command running) and `select`
(`select_project`).  `Reconnect` ends a transport session and opens a new one
with the Runtime of a freshly started client; its contexts stay registered until
they expire.

### ExecSessions

The call that starts a command, its watchdog, the reaper, one further client
call, `Runtime.close` and `SharedJobRegistry.close` interleave at lock regions
and waits.  `Settle` is what `_format_session_output` does to the tables: whoever
polls, finishes or kills a command completes it, and output that was truncated is
remembered, that of a shared job too.  `held` stands for the resources of a command (sandbox lease,
transaction snapshot).  A process is `running`, `stuck` (it survives SIGKILL for
now) or `exited`; a signalled process may still choose its exit code.  Output,
the content of a transaction and the Runtime's directory are left out.
`Registries` selects the transport: over stdio there is no registry and one
request at a time (`Turn`).  `Close` releases the retained sessions at once; the
code does it after the loop over the running ones, when nothing can reach them
any more.

### HttpSessions

Each request is a thread; a step is one lock region, one construction or
closing of a Runtime, or the handling of the request.  `Evict`, `Prune` and
`Delete` take a session out of the table under the lock and put its Runtime
into `doomed`; `CloseRuntime` closes it later, outside the lock.

### PatchStaging

`Stage*` is `_analyze_patch` on one operation: it reads the file from what
earlier operations staged (an update) or from disk, remembers the baseline, and
stages the result.  `Places` and `Splice` are the two loops of
`apply_update_hunks`: find every hunk in the file as it was, then apply from the
last line to the first; `StableSort` is Python's sort, which keeps the order of
equal keys.  `Written` and `Effect` state what the patch says: a text is read off
from its first line to its last, old lines between the hunks and new ones in their
places, and nothing is shifted.  `StagedAsWritten` compares the two whenever the
committer would find the baselines unchanged.

### GitTools

`local`, `tracking`, `origin`, `current`, `index`, `work` and `mergeHead` are what the
git commands share; `call[x]` is how far caller `x` is.  Between two commands of a tool other
callers' commands, edits and pushes of another clone happen.  What git itself does
(`Checkout`, `Merged`, `CanAbort`) is external and modelled as far as the tools
depend on it.  `safe` is a ghost: the last edit of each file.

### Continuation

`entry` is the registry, `place` the workspaces (the canonical checkout and one
worktree per context), `note` the records, `authority` the checkpoints, `holder`
the branch leases.  Writing a record is `BeginWrite`, `WriteNote`; resuming is
`ReadNote`, `LeaseHeld` (refused) or `FindTarget` (the lease, then the target, for
which it may attach a worktree), `ClaimTarget`, and `Accept`, `Reject` or
`RenewFails`; a resume that fails ends in `RollBack`.
`Expire` and `CleanUp` are apart because the registry drops a context under its
lock and removes the worktree afterwards.  A guarded mutation is one step here
and several in `GuardedMutation`.

### Delegation

One action per git command of `antigravity_delegate` on the selected checkout:
`Preflight`, `ReadBase` (HEAD), `ReadBranch`, `AddWorktree`, the attempts of the
agent (`AgentSucceeds`, `AgentRetries`, `AgentFails`; its worktree is its own, so an
attempt is one step, and so is `Inspect`), then the checks `CheckHead`,
`CheckBranch`, `CheckTree`, `CheckIndex`, `CheckAdditions`, and `GitApply`,
`RemoveWorktree`.  The user edits, stages, commits and switches between any two of
them, and other delegations land.  A file's contents are named after who wrote
them.  Ghosts: `overtaken` (the checkout changed after the check that would have
seen it), and `on`, `clean`, `over`: what the edits landed on.  `DelegationSound`
compares these with what the agent started from: for HEAD, branch and other
changes unless overtaken, for the files that are replaced always.

### OutputBuffers

A byte is its position in the stream, so the model can say which bytes a client
received.  `AppendOutput` is the reader thread with `_trim_buffer`, `Poll` is
`snapshot_since_cursor` with `truncate_text_tail`, `ReadPage` is `read_output`.

### Transactions

`CheckAlone`, `Acquire`, `Capture`, `Start` begin a command; `Prepare`, `Apply` and
`ReleasePool` are `finish()`.  `ClearFile` and `ClearRoot` are the steps of
`rmtree` on a snapshot nobody holds.  `foreign` is a ghost that marks commands
whose snapshot others changed with the code's consent: sharing, patches mirrored
into it, cancellation.

### OAuthProvider

A request is one action, because each endpoint has one region under a lock.
`approval` is what the user approved, `token[k]` what the exchange of code `k`
returned; tokens are signed and survive a restart (`StableSecret`), pending codes
do not.  Codes are numbered in the order in which they are drawn, so the pending
table is a set, and the one pushed out first is its least element.

### DesktopSupervisor

Processes have a pid and a creation number; pids are reused.  A start is a job
of several steps (`StartRuntime`, `LaunchRuntime`, `RuntimeFound` or
`RuntimeTimeout`, `LaunchTunnel`, `TunnelConnects` or `TunnelFails`, `Record`); a
stop likewise.  `ClientEnds` loses the client's memory, not its state file.
Ghosts: `wronged` (processes of others it ended), `mistaken` (processes of others
that a start took for its runtime), `abandoned`.

### ServiceUpdate

A unit goes through `CheckHead`, `CheckBranch`, `CheckDiff`, `CheckCached` (a git
command each), `Install`, `SaveConfig`, `InstallUnits`, `RestartServices`,
`VerifyUpdate`, and may fail at each: a failed installation may leave another or
a partial one (`InstallFails`), a failed restart may have started the server
(`RestartFails`).  The source checkout is HEAD, branch, unstaged, staged and
untracked changes and `origin/main`; it starts as any of these, and commits, edits,
`git add`, fetches and checkouts change it between any two steps (`MoveTracked`,
`MoveUntracked`, `SwitchSource`, `Fetch`).  A build reads the tracked files and the
untracked ones; `saw` collects what the source held while it was built, and a build
across a change may be a mixture (`Buildable`).  Ghosts: `disturbed` (the source
changed after the check of the unit that would have seen it and before the end of
the build, or another update replaced the installation), `ran`.

## Runs

| Run | Instance | Shows |
|---|---|---|
| `guarded_mutation` | 2 owners, 2 branches, 2 trees, TTL 1, 1 fault, writes, branch moves and reconciliations; OAuth: 2 clients, 3 codes, 2 pending, 1 restart; desktop: 2 pids, 4 processes, 2 configurations, 1 end of the client; update: 3 commits, 2 updates in both modes, any initial checkout, 1 change of the source, 1 outage | leases on disk as long as they should be, writers exclude each other and start from the state their owner accepted; `GrantsHonoured`: an approval gives one token to whom it was meant, and codes are not lost before their time; `SupervisesOwn`: the client ends its processes and no others; `UpdateHonest`: success means that the tracked files of the requested commit run |
| `guarded_live` | 2 owners, 1 branch, TTL 2, 1 fault, writes, commands and reconciliations | refinement of `BranchLock`; leases of dead owners become free; every call ends |
| `atomic_patch` | 3 paths, 2 contents, a patch of at most 2 paths, 2 faults, 1 edit; staging: 2 files, 2 lines, 2 operations of 2 hunks, 1 write; Git: 2 callers, 2 files, 2 branches, 4 calls, 3 edits, 1 timeout; resume: 3 contexts, 1 scope, 1 change, 1 restart, switch or failing write | all or nothing, no user bytes lost; `StagedAsWritten`; `CommitScoped`: commits contain only named files; `WorkKept`: no tool destroys an edit or ends with a merge half done; `ContinuationSound`: one owner per workspace, a resume accepts exactly what was saved or changes nothing, no dirty worktree is removed |
| `logical_contexts` | 3 contexts (limit 2), 2 sessions, 2 threads, explicit context ids, jobs and selections, 1 failed bind or new session | leases exact; tools run in their own context's workspace |
| `contexts_isolated` | 2 contexts, 2 projects, 2 sessions, writes and selections | no two contexts own one workspace |
| `exec_shared` | 2 commands, 1 shared job, kill; output: 5 bytes, buffer of 3; 2 transactions, 1 file, 1 edit; 2 delegations, 2 files, 2 branches, 1 step of the user, 1 failing git command | `TablesSound`: limits, and running commands are found; `ResourcesAccounted`: nothing released under a process, everything owned; `OutputAccounted`: every byte shown, or reported as cut or omitted; `TransactionSound`: a transaction installs what its command did, in a snapshot it keeps; `DelegationSound`: edits land all or not at all, and replace only what the agent started from |
| `exec_live` | 1 command, all tools, 1 fault, HTTP and stdio | deadlines enforced without polling; everything released after a close |
| `http_sessions` | 3 requests, 2 sessions, limit 1 | limit; no Runtime closed under a request, with commands, or leaked; deletions complete |
| `guarded_drift` | as `guarded_mutation` | refutes a sentence of the documentation, see below |
| `patch_interrupt` | 2 paths, 1 fault | refutes a docstring |
| `contexts_mixed` | 1 session, 2 contexts, calls in progress together | refutes a sentence of the documentation |
| `exec_verdicts` | 1 command | refutes a comment |

Why these bounds are enough: conflicts need two owners, two contexts, two
commands, two callers or two requests; a third request, context or path is
there where one of them has to make room, is in the middle of a loop, or
succeeds another.  Limits are set so low that they are reached (a pending code is
pushed out, the buffer is trimmed twice, the registry is full).  One fault is
enough elsewhere because every error path returns to a state from which a fresh
call starts; a patch gets two, one to start a rollback and one to hit it.  Two
trees let a change be seen; a patch of two of three paths has a first and a last
element in each loop and a path it must leave alone; two hunks let one shift the
other.

Deadlock is checked by the runs of `MCGuardedMutation`, where the clock always
runs.  In the other models everything may have been used up (all patches made,
all commands over), and stopping there is correct.

### Fairness

`GuardedMutation`: the clock runs, and a call in progress goes on; a tool ends
because commands and Git invocations have timeouts.  Clients are not fair, and
nor are faults.  `ExecSessions`: threads run, deadlines pass, and the janitor
thread wakes up; clients never have to poll.  A stuck process need never exit.
`HttpSessions`: a request in progress goes on, and `close` finishes its loop.
All of it is weak fairness of one thread's next step.

### What the code does not do as described

* `guarded_drift`: `docs/tools-and-schemas.md` line 203 says that unexpected
  external mutations still fail with `STATE_DRIFT`.  `_state_after` snapshots
  the checkout after the tool has run and makes that authoritative, so a change
  made by an editor while the tool runs is absorbed.
* `patch_interrupt`: the docstring of `AtomicPatchCommitter` says that originals
  are retained as backups until the complete set succeeds.  An exception that
  is not an `Exception` (SIGTERM's `SystemExit` on the stdio transport,
  `KeyboardInterrupt`) skips the rollback and still removes the backups.
* `contexts_mixed`: `docs/runtime-contract-v0.2.md` line 64 says that a result
  exposes the exact workspace used by the call.  With two calls in progress on
  one transport session and different contexts, a tool runs in the roots of the
  other call.  `logical_contexts` shows that this needs calls in progress on one
  session at the same time (`Pipelined`).
* `exec_verdicts`: a comment in `finish()` says that the exec, polling and kill
  paths agree on the status.  `job_status` looks at the exit code alone, so a
  command that timed out and exited with 0 succeeded there and nowhere else.

### Situations that the properties except

Some properties name situations that they do not cover, because the code does
something else there that its users should know of:

* `StagedAsWritten` (`Repeats`, `InsertsFirst`): an update followed by a move of
  the same path loses the update, two operations onto one target lose a file, and
  a hunk without context before another hunk is applied at the wrong line or in
  the wrong order.  Removing all lines of a file leaves one empty line.
* `WorkKept` (`kills`, `late`): a merge killed by its timeout stays in progress
  (`docs/runtime-contract-v0.2.md` lines 615–625 say it is aborted); the result of
  `merge --abort` is not looked at; an edit staged by another call between the
  conflict and the abort is reset by the abort.
* `TransactionSound` (`foreign`): two commands can pass the check that no other
  runs and share a snapshot; `apply_patch` mirrors into a snapshot in use; a
  cancelled command's snapshot is removed while `finish()` may still read it.
* `SupervisesOwn` (`mistaken`, `abandoned`): a start takes whoever listens on its
  port for its runtime, without looking at the command line; a runtime that does
  not listen yet when the client ends may be forgotten.
* `DelegationSound` (`overtaken`, `killed`): a commit, a checkout or an edit of
  another file between its check and `git apply` is not noticed, so the edits may
  land on another commit or branch or next to new changes (no file with other
  contents is replaced even then); `git apply` killed by its timeout may leave part
  of a patch; a delegation whose edits landed but whose worktree could not be removed
  is reported as an error; a retry starts from what the first attempt left.
* `UpdateHonest` (`disturbed`): updates are not serialised, and only the recorded
  SHA is verified at the end, so one update may report success while the
  installation of another runs.  HEAD is compared before the work tree: a commit
  between the two passes both checks, and it, like an edit while `uv tool install`
  reads the files, is built under the SHA compared before.  Untracked files are
  built into the installation and are part of no check
  (`docs/runtime-contract-v0.2.md` line 290 allows them); the property speaks of
  the tracked files.
* `ContinuationSound` (`shared`): a session whose context expired gets a new context
  in the old one's worktree; when another context has resumed that worktree in the
  meantime, both own it, because a contended claim outside the canonical checkout
  is let through.  The cleanup of an expired context may come after another context
  has resumed its worktree: a clean one is removed all the same, the next call of
  the context bound to it is refused, and when the context that the worktree is
  named after makes or attaches it again, both own it.  Registries are per
  process: two servers do not see each other's claims.
* Output: `write_stdin` compares the length of the trimmed buffer with a position
  in the stream to decide whether there is new output, so after trimming a poll may
  wait its full time.  No property is about that wait.

## Proofs

For any number of owners, branches, paths, requests, sessions, contexts,
threads, callers, commands, files, codes and bytes, and for any values of the limits and
bounds:

* `GuardedMutationProofs`: `LeaseRefinesLock`, of `WriterLease` by itself; its type
  invariant is enough, because an acquisition only overwrites records that are free
  or its own.  `TypeCorrect`; `GuardedCallsKeepLock` (every step of a
  guarded call is a lease operation or leaves the leases alone);
  `LeasesAreHonoured`; `WritersExclude` and `WritersSeeOwnState`.  The last three
  are not inductive by themselves: `LeaseHonoured` is strengthened with the
  clock (the time left in a call is that of its records) and then gives mutual
  exclusion, because two calls in charge of one branch would both be the owner
  of its record; `WritersSeeOwnState` adds that only a call in charge, or
  somebody recorded in `intruded`, changes the checkout.
* `AtomicPatchProofs`: `TypeCorrect`, `CommitIsAllOrNothing` and
  `CommitKeepsOriginals`.  The inductive invariant says for each path, outside of
  `raced`, where the user's version is in each phase (`Kept`), how far its loops
  are (`Progress`), and which outcomes a phase allows (`Control`).
  `HunksAsWritten` is about one update: `StableSort` is a permutation that orders
  by key and position (an element's rank is injective, hence onto); hunks that match
  once, do not overlap and have context begin at different lines, so the second sort
  is the reverse of the first; and after `k` splices the text is the old one up to
  the hunks that are left, followed by what the patch says of the rest.
  `StagingSound` follows with `StagingInv`: for every content the files may have
  when the patch is committed, not only the present one, installing what is staged
  equals what the operations so far say, if the baselines are those contents.  This
  is what makes writes by others harmless to the induction.
* `HttpSessionsProofs`: `TypeCorrect`, `SessionLimitHolds`,
  `ServedRuntimesStayOpen`, `NoRuntimeLeaks`, `EvictionSparesCommands`.  The
  inductive invariant says that `_creating` and `active_requests` are the
  cardinalities they stand for, and that each Runtime is in exactly one place:
  in the table, with its creator, or with whoever will close it.
* `ExecSessionsProofs`: `TypeCorrect`, `TablesAreSound`, `ResourcesAreAccounted`.
  The invariant `ExecInv` says where a command is in each phase of the call that
  starts it (`CommandInv`: unborn commands are in no table; one that has been
  handed out is in the table its handle belongs to, with the closing thread, or
  over), that the counter `starting` is the number of calls between reservation
  and entry, and that closed tables stay empty (`Tidy`).  Actions are grouped by
  what they do to the record of a command (`Later`: processes only end, resources
  are only given back, and not before the process) and to the tables
  (`Rearranges`); a lemma per group, then one per action.
* `LogicalContextsProofs`, in three layers.  `RegistryInv` gives `TypeCorrect` and
  `LeasesAreExact`: leases are the calls between retain and release plus the job
  records; one call is inside the lock of a context; a context that leaves the
  registry has no lease, so nobody uses it; an id is never used again.
  `RoutedInv` adds, for clients with one call at a time on a session
  (`~Pipelined`), that the Runtime's roots are those of the context from `Apply`
  on, and gives `CallsAreRouted`; other calls touch neither, since the Runtime is
  not theirs and they are not inside the lock.  `IsolationInv` adds, for sessions
  that keep to their own contexts (`~Explicit`), that a managed worktree belongs
  to one session and one context and has its branch (so a new one is never that
  of another), and that of the contexts with a claim on a canonical checkout all
  but one wait for a worktree; it gives `ContextsAreIsolated`.  The hypotheses are
  needed: `contexts_mixed` refutes routing without the first, and sharing a
  context's worktree across sessions, a reconnect or a bind that breaks off
  (`faults`) lets two contexts meet in one checkout.
* `WorkspaceProofs`: `CommitsAreScoped` and `WorkIsKept` of `GitTools`.  `GitInv`
  says that commits are only added and refer to commits that are there
  (`HistoryType`), that the last edit of a file is where it was made or in the
  history, and in the history already when a merge in progress may reset it
  (`EditsKept`), and that as long as nobody disturbs a merge, one in progress
  belongs to a call that is about to abort it and finds the files as the merge
  left them (`MergesEnd`).  `ContinuationIsSound`: `ContInv` says what each call
  holds at each of its steps (`CallSound`: the lease of the saved branch, the
  binding it will restore, the worktree it attached) and who owns what
  (`OwnersSound`).  The property alone is not inductive: between its claim and its
  second validation a resume may own a worktree whose other owner is excused as
  `shared`, and success ends the excuse.  So ownership is `Firm` when it is not
  excused or when that validation would confirm it; a firm owner's worktree is
  there, and two firm owners never have the same one, since the lease keeps a
  second resume from the branch and the registry a second claim from the worktree.
* `CommandsProofs`: `DelegationsAreSound` (`CallInv`: what a call may have written
  at each step, and that its worktree holds its own edits, deletions or the base;
  `Checked`: as long as nothing overtook the call, what its checks found so far
  still holds, each from its own step on),
  `TransactionsAreSound` (`PoolInv`: the reference count is the number of holders;
  `Faithful`: the snapshot of an undisturbed command is the captured state with
  its own writes over it) and `OutputIsAccounted` (`InStep`: the buffer is a
  suffix of the stream, and cursors, cuts and pages agree on where it starts).
  What `truncate_text_tail` returns is proved from the least cut that fits, which
  exists because the naturals are well-founded.
* `ServicesProofs`: `UpdatesAreHonest` (`Carried`: as long as nothing disturbs the
  unit, HEAD, then the work tree, then everything that was seen during the build,
  then the installed code and the running server have the tracked files of the
  requested commit) and `GrantsAreHonoured` (a token matches the approval of its code; a code
  that was neither used, expired nor pushed out is pending, where the number of
  newer codes decides who is pushed out).  `OwnProcessesAreSupervised`: a reference
  means one process for ever, because a creation time is not used twice (`Steady`),
  so what a reference was taken for it stays (`RefsSound`: a tunnel, a runtime, or
  a process in `mistaken`), and a termination hits nothing else.  That "stopped" is
  true needs to know that the searches find everything: there is at most one
  tunnel (`TunnelsSound`), and while no start mistook its runtime, at most one
  runtime outside of `abandoned` (`OneRuntime`), which listens or is a child of the
  session or of the job; and whatever else the session, the state file or a stop
  holds is dead or that runtime (`OwnSound`, `LaunchSound`, `FoundSound`,
  `StopSound`).  One lemma per action; those in which processes only end
  (`OnlyEnds`) share the argument.

Each inductive invariant was checked with TLC on the instances above before it
was proved.

Assumptions are those of the constants, each named in its module: limits are
positive numbers, the sets of paths, requests, sessions, threads and commands are
finite, and the values that mean "none" are not members of the sets they extend.
Every run that uses a module evaluates them.

Proving found two places where the model said less than it seemed to: the arms
of a `CASE` in `Begin` of `LogicalContexts` and in `Verdict` of `ExecSessions`
overlapped.  TLC takes the first arm that holds; TLA+ leaves the choice open.
Both are conditionals now, as in the code.  And it found a case beyond the bounds
of the runs: with five contexts and two changes, the late cleanup of an expired
context gives a worktree two owners (`shared`, above), which an earlier
`OneOwner` excluded.

The library's induction theorems take a predicate as a parameter, which the provers
cannot instantiate.  Where a proof needs induction over hunks, operations or bytes
(`PatchStaging`, `OutputBuffers`) it is done on the set of the numbers for which the
claim holds: such a set has a least element (`LeastNumber`, `Smallest`), so one that
has zero and the successor of each of its members is `Nat` (`CountsUp`).  The loops
of `PatchStaging` are recursive functions; that they are defined at all
(`SplicedTrace`, `WrittenTrace`, `AsWrittenTrace`) is proved the same way.

Only model-checked: all liveness (`DeadOwnerRecovered`, `CallEnds`,
`DeadlineEnforced`, `CloseReleases`, `DeletedCloses`), since the prover has no rules
for fairness.  Every safety property of a passing run is a theorem.

## Not modelled

File formats, argument validation, permissions, path classification, telemetry,
formatting of results and anything that is a call of an external program
without a decision of its own; see the components with status `not_modelled` in
`PROJECT.json`.  `tasks.py` finds and validates command lines and hands them to
`exec_command`; the sandbox wrappers build command lines; neither keeps state.
The desktop GUI, the admin UI, the rest of the command line and the Cloudflare
handler keep no state that the other parts share.  Characters of several bytes
in output, limits on sizes, newline styles of patched files, and continuation
calls made while commands run are left out of the modules that touch them.

Steps that the code takes apart and a module together, and cases that a module
leaves out, each with its price:

* `ExecSessions`: `TimedOut` marks and ends a process in one step; the code waits up
  to two seconds for it to go (`processes.py` 129–148), in which others see a
  command that timed out and still runs; a `stuck` process is seen that way.
* `Transactions`: `Acquire` copies the workspace at once, the code file by file
  (`sandbox.py` 528–632); edits during the copy appear as edits before or after it,
  and `Capture` reads the copy, not the workspace.
* `PatchStaging`: the existence check of an added or moved file and the capture of
  its baseline are one step.  A file that another process creates in between
  (`server.py` 4006 and 4012, 4162 and 4177) becomes the baseline and is replaced.
* `Continuation`: `ClaimTarget` validates and claims at once; the second validation
  is there for what changes in between and is a step of its own.  A failing
  write of the state checkpoint (`stateful_server.py` 609) is taken for one of the
  record after it (`RenewFails`); both roll back.
* `LogicalContexts`: `StartJob` and `JobPrune` do a job record and its lease in one
  step, the code in two lock regions.  The difference cannot cost a context its
  registration: at the start the call still has a lease of its own, at the end the
  record goes before the lease.
* `DesktopSupervisor`: a terminated process is gone at once; a process of another
  program has another command line; the reader thread of `cloudflared`, which reads
  the state file and writes it back with the address it found, is left out (it may
  bring back a state that a stop has just cleared; the references in it are then
  those of processes that have been terminated).
* `OAuthProvider`: a preregistered client has no secret.
* `ServiceUpdate`: the checks of the tool call (`Eligible`) are one step, since the
  unit repeats all of them but the one of `origin/main`.

## Plan

1. Liveness of `Delegation` and `Continuation`: a call ends and its worktree or
   lease becomes free.
