---------------------------- MODULE ExecSessions ----------------------------
(***************************************************************************)
(* Commands of one Runtime: _execute_command_legacy, the session tables,   *)
(* close and the reaper (coding_tools_mcp/server.py), ExecSession and its  *)
(* watchdog (processes.py), SharedJobRegistry (session_state.py).          *)
(*                                                                         *)
(* A command is started by a tool call, which reserves a slot, spawns the  *)
(* process, registers it as a shared job (HTTP) and as a session, and      *)
(* waits for a while.  A watchdog thread ends the process at its deadline. *)
(* Meanwhile other calls poll or kill it, the request is cancelled, the    *)
(* Runtime or the whole server closes.  Each lock region and each stretch  *)
(* between two waits is one step.                                          *)
(*                                                                         *)
(* terminate_process_group (TERM, then KILL) ends any process that is not  *)
(* stuck in the kernel.  The output, the commit of a transaction (module   *)
(* AtomicPatch) and the removal of the Runtime's own directory are left    *)
(* out.                                                                    *)
(***************************************************************************)
EXTENDS Integers, FiniteSets

CONSTANTS
  Commands,     \* bound on the commands ever started
  MaxActive,    \* MAX_ACTIVE_EXEC_SESSIONS
  MaxRetained,  \* MAX_RETAINED_OUTPUT_SESSIONS
  MaxJobs,      \* MAX_SHARED_JOBS
  MaxFaults,    \* bound on failing system calls and stuck processes
  Tools,        \* tools used on a session id
  Modes,        \* values of transaction_mode in use: "direct", "apply"
  Registries,   \* SharedJobRegistry: "open" over HTTP, "none" over stdio
  None

ASSUME LimitsAssumption ==
  /\ {MaxActive, MaxRetained, MaxJobs} \subseteq Nat \ {0}
  /\ MaxFaults \in Nat
ASSUME ModesAssumption ==
  /\ Modes \subseteq {"direct", "apply"} /\ Registries \subseteq {"none", "open"}
  /\ Tools \subseteq {"write_stdin", "job_status", "kill_session", "read_output"}
ASSUME CommandsAssumption == IsFiniteSet(Commands) /\ None \notin Commands

VARIABLES
  cmd,       \* per command: its ExecSession and process
  step,      \* per command: next step of the call that starts it
  watchdog,  \* per command: the watchdog thread
  reapers,   \* commands with a reaper thread
  starting,  \* starting_sessions
  sessions,  \* Runtime.sessions
  retained,  \* Runtime.output_sessions
  jobs,      \* SharedJobRegistry._jobs
  closed,    \* Runtime._closed
  closing,   \* sessions that Runtime.close has still to treat
  registry,  \* the SharedJobRegistry
  dying,     \* jobs that SharedJobRegistry.close has still to treat
  client,    \* a call on a session id
  handed,    \* commands reported as running by their call (ghost)
  verdicts,  \* per command: values of command_success reported (ghost)
  faults

tables == <<sessions, retained, jobs>>
ends == <<reapers, closed, closing, registry, dying>>
ghosts == <<handed, verdicts>>
vars == <<cmd, step, watchdog, starting, tables, ends, client, ghosts, faults>>

Codes == {"zero", "nonzero"}   \* a signal is a nonzero code
Command == [mode : {"direct", "apply"},
            proc : {"none", "running", "stuck", "exited"},
            code : Codes \cup {"none"},
            due : BOOLEAN,       \* timeout_at has passed
            timedOut : BOOLEAN,
            held : BOOLEAN]      \* its resources are not released
NewCommand == [mode |-> "direct", proc |-> "none", code |-> "none",
               due |-> FALSE, timedOut |-> FALSE, held |-> FALSE]
Steps == {"idle", "prune", "reserve", "spawn", "register", "enter", "abort",
          "watch", "wait", "expire", "finish", "done"}
NoClient == [step |-> "idle", tool |-> None, on |-> None]

Shared == registry # "none"

Alive(r) == r.proc \in {"running", "stuck"}
Freed(r) == [r EXCEPT !.held = FALSE]

(* terminate_process_group: a signalled process may still choose its code. *)
Signalled(r) ==
  IF r.proc = "running"
    THEN {[r EXCEPT !.proc = "exited", !.code = k] : k \in Codes}
    ELSE {r}

(* The end of refresh_status: auto_release_resources_on_exit. *)
Settled(r) == IF r.proc = "exited" /\ r.mode = "direct" THEN Freed(r) ELSE r

TimedOut(r) == {Settled(q) : q \in Signalled([r EXCEPT !.timedOut = TRUE])}

(* refresh_status, which also enforces the deadline *)
Refreshed(r) ==
  IF r.due /\ Alive(r) /\ ~r.timedOut THEN TimedOut(r) ELSE {Settled(r)}

(* _terminate_session; resources go only if the process has exited. *)
Terminated(r) ==
  {IF q.proc = "exited" THEN Freed(q) ELSE q :
     q \in UNION {Signalled(s) : s \in Refreshed(r)}}

(* command_success of snapshot_since_cursor and _format_session_output, as *)
(* a set: empty while the command runs.                                    *)
Verdict(r) ==
  IF r.timedOut THEN {FALSE}
  ELSE IF Alive(r) THEN {} ELSE {r.code = "zero"}

Init ==
  /\ cmd = [c \in Commands |-> NewCommand]
  /\ step = [c \in Commands |-> "idle"]
  /\ watchdog = [c \in Commands |-> "none"]
  /\ starting = 0
  /\ sessions = {} /\ retained = {} /\ jobs = {}
  /\ reapers = {} /\ closed = FALSE /\ closing = {} /\ dying = {}
  /\ registry \in Registries
  /\ client = NoClient
  /\ handed = {} /\ verdicts = [c \in Commands |-> {}]
  /\ faults = 0

Goto(c, s) == step' = [step EXCEPT ![c] = s]
Becomes(c, r) == cmd' = [cmd EXCEPT ![c] = r]
Report(c, V) == verdicts' = [verdicts EXCEPT ![c] = @ \cup V]
Failing == faults < MaxFaults /\ faults' = faults + 1

(* HTTP requests run in threads of their own; stdio takes one at a time. *)
Turn ==
  \/ Shared
  \/ client = NoClient /\ \A c \in Commands : step[c] \in {"idle", "done"}

-----------------------------------------------------------------------------
(* Session tables *)

(* _remember_output_session: what is evicted gives up its resources.  The  *)
(* oldest go first; which these are is left open.                          *)
Remember(S, update) ==
  \E keep \in SUBSET (retained \cup S) :
    /\ Cardinality(keep) <= MaxRetained
    /\ \A T \in SUBSET (retained \cup S) :
         Cardinality(T) <= MaxRetained => Cardinality(T) <= Cardinality(keep)
    /\ retained' = keep
    /\ cmd' = [d \in Commands |->
         IF d \in (retained \cup S) \ keep THEN Freed(update[d]) ELSE update[d]]

(* _complete_session of the exited commands of S, whose records are now    *)
(* those of update.                                                        *)
Complete(S, update) ==
  /\ sessions' = sessions \ S
  /\ IF S \subseteq jobs
       THEN retained' = retained \ S /\ cmd' = update
       ELSE Remember(S \ jobs, update)

(* The tables after _format_session_output: a command that has exited is   *)
(* completed, and truncated output, or output in a requested verbosity, is *)
(* remembered, a shared job's and that of a process that will not die too. *)
Settle(c, q, terminal) ==
  LET update == [cmd EXCEPT ![c] = q]
  IN  \/ ~Alive(q) /\ Complete({c}, update)
      \/ ~Alive(q) /\ c \in jobs /\ Remember({c}, update) /\ sessions' = sessions \ {c}
      \/ Alive(q) /\ cmd' = update /\ UNCHANGED <<sessions, retained>>
      \/ Alive(q) /\ terminal /\ Remember({c}, update) /\ UNCHANGED sessions

(* _prune_sessions: every session is refreshed, exited ones are completed, *)
(* and completed ones past COMPLETED_SESSION_TTL_SECONDS are dropped.      *)
PruneSessions ==
  /\ \E update \in [sessions -> UNION {Refreshed(cmd[d]) : d \in sessions}] :
       /\ \A d \in sessions : update[d] \in Refreshed(cmd[d])
       /\ Complete({d \in sessions : update[d].proc = "exited"},
                   [d \in Commands |-> IF d \in sessions THEN update[d] ELSE cmd[d]])
  /\ UNCHANGED jobs

(* Dropped for its age, or for MAX_RUNTIME_OUTPUT_BYTES. *)
RetentionEnds(c) ==
  /\ c \in retained
  /\ retained' = retained \ {c}
  /\ Becomes(c, Freed(cmd[c]))
  /\ UNCHANGED <<step, watchdog, starting, sessions, jobs, ends, client, ghosts, faults>>

-----------------------------------------------------------------------------
(* The call that starts a command *)

(* transaction_mode="apply" needs a Runtime without commands.  Resources   *)
(* (the snapshot of a transaction) are acquired before the slot.           *)
BeginExec(c, mode) ==
  /\ step[c] = "idle" /\ Turn
  /\ mode = "apply" => starting = 0 /\ \A d \in sessions : ~Alive(cmd[d])
  /\ Becomes(c, [NewCommand EXCEPT !.mode = mode, !.held = TRUE])
  /\ Goto(c, "prune")
  /\ UNCHANGED <<watchdog, starting, tables, ends, client, ghosts, faults>>

PruneFirst(c) ==
  /\ step[c] = "prune"
  /\ PruneSessions
  /\ Goto(c, "reserve")
  /\ UNCHANGED <<watchdog, starting, ends, client, ghosts, faults>>

(* Mutant: a call that is refused keeps its resources. *)
ReserveKeeps(c) ==
  /\ step[c] = "reserve"
  /\ IF closed \/ Cardinality(sessions) + starting >= MaxActive
       THEN Goto(c, "done") /\ UNCHANGED starting
       ELSE starting' = starting + 1 /\ Goto(c, "spawn")
  /\ UNCHANGED <<cmd, watchdog, tables, ends, client, ghosts, faults>>

(* SESSION_CLOSED, SESSION_LIMIT_REACHED, or a slot *)
Reserve(c) ==
  /\ step[c] = "reserve"
  /\ IF closed \/ Cardinality(sessions) + starting >= MaxActive
       THEN Becomes(c, Freed(cmd[c])) /\ Goto(c, "done") /\ UNCHANGED starting
       ELSE starting' = starting + 1 /\ Goto(c, "spawn") /\ UNCHANGED cmd
  /\ UNCHANGED <<watchdog, tables, ends, client, ghosts, faults>>

Spawn(c) ==
  /\ step[c] = "spawn"
  /\ Becomes(c, [cmd[c] EXCEPT !.proc = "running"])
  /\ Goto(c, IF Shared THEN "register" ELSE "enter")
  /\ UNCHANGED <<watchdog, starting, tables, ends, client, ghosts, faults>>

(* except (FileNotFoundError, OSError): exit_code 127 *)
SpawnFails(c) ==
  /\ step[c] = "spawn"
  /\ Failing
  /\ starting' = starting - 1
  /\ Becomes(c, Freed(cmd[c]))
  /\ Goto(c, "done")
  /\ UNCHANGED <<watchdog, tables, ends, client, ghosts>>

(* Mutant: one job too many *)
RegisterOver(c) ==
  /\ step[c] = "register"
  /\ IF registry = "closed" \/ Cardinality(jobs) > MaxJobs
       THEN starting' = starting - 1 /\ Goto(c, "abort") /\ UNCHANGED jobs
       ELSE jobs' = jobs \cup {c} /\ Goto(c, "enter") /\ UNCHANGED starting
  /\ UNCHANGED <<cmd, watchdog, sessions, retained, ends, client, ghosts, faults>>

(* _make_session: SharedJobRegistry.register *)
Register(c) ==
  /\ step[c] = "register"
  /\ IF registry = "closed" \/ Cardinality(jobs) >= MaxJobs
       THEN /\ starting' = starting - 1
            /\ Goto(c, "abort")
            /\ UNCHANGED jobs
       ELSE /\ jobs' = jobs \cup {c}
            /\ Goto(c, "enter")
            /\ UNCHANGED starting
  /\ UNCHANGED <<cmd, watchdog, sessions, retained, ends, client, ghosts, faults>>

(* The slot becomes a session, unless the Runtime was closed meanwhile. *)
Enter(c) ==
  /\ step[c] = "enter"
  /\ starting' = starting - 1
  /\ IF closed THEN Goto(c, "abort") /\ UNCHANGED sessions
               ELSE sessions' = sessions \cup {c} /\ Goto(c, "watch")
  /\ UNCHANGED <<cmd, watchdog, retained, jobs, ends, client, ghosts, faults>>

(* Mutant: the slot is given back twice. *)
AbortReleasesSlot(c) ==
  /\ step[c] = "abort"
  /\ \E r \in Terminated(cmd[c]) :
       /\ Becomes(c, r)
       /\ reapers' = IF Alive(r) THEN reapers \cup {c} ELSE reapers
  /\ starting' = starting - 1
  /\ jobs' = jobs \ {c}
  /\ Goto(c, "done")
  /\ UNCHANGED <<watchdog, sessions, retained, closed, closing, registry, dying,
                 client, ghosts, faults>>

(* Mutant: a process that will not die is not left to a reaper. *)
AbortForgets(c) ==
  /\ step[c] = "abort"
  /\ \E r \in Terminated(cmd[c]) : Becomes(c, r)
  /\ jobs' = jobs \ {c}
  /\ Goto(c, "done")
  /\ UNCHANGED <<watchdog, starting, sessions, retained, ends, client, ghosts, faults>>

(* except BaseException *)
Abort(c) ==
  /\ step[c] = "abort"
  /\ \E r \in Terminated(cmd[c]) :
       /\ Becomes(c, r)
       /\ reapers' = IF Alive(r) THEN reapers \cup {c} ELSE reapers
  /\ jobs' = jobs \ {c}
  /\ Goto(c, "done")
  /\ UNCHANGED <<watchdog, starting, sessions, retained, closed, closing, registry,
                 dying, client, ghosts, faults>>

(* start_reader_threads, start_session_watchdog, the initial stdin *)
Watch(c) ==
  /\ step[c] = "watch"
  /\ watchdog' = [watchdog EXCEPT ![c] = "waiting"]
  /\ Goto(c, "wait")
  /\ UNCHANGED <<cmd, starting, tables, ends, client, ghosts, faults>>

CancelSession(c) ==
  IF c \notin sessions \cup jobs THEN UNCHANGED <<cmd, sessions, jobs, reapers>>
  ELSE \E r \in Terminated(cmd[c]) :
    /\ Becomes(c, r)
    /\ IF Alive(r)
         THEN reapers' = reapers \cup {c} /\ UNCHANGED <<sessions, jobs>>
         ELSE sessions' = sessions \ {c} /\ jobs' = jobs \ {c} /\ UNCHANGED reapers

(* A thread cannot be started, or the process does not take its stdin. *)
WatchFails(c) ==
  /\ step[c] = "watch"
  /\ Failing
  /\ CancelSession(c)
  /\ watchdog' \in {watchdog, [watchdog EXCEPT ![c] = "waiting"]}
  /\ Goto(c, "done")
  /\ UNCHANGED <<starting, retained, closed, closing, registry, dying, client, ghosts>>

(* The waiting loop: the process has exited, or it is to be left running,  *)
(* or its deadline has passed.                                             *)
WaitEnds(c) ==
  /\ step[c] = "wait"
  /\ \/ cmd[c].proc = "exited" /\ Goto(c, "finish")
     \/ cmd[c].mode = "direct" /\ Goto(c, "finish")
     \/ Alive(cmd[c]) /\ cmd[c].due /\ Goto(c, "expire")
  /\ UNCHANGED <<cmd, watchdog, starting, tables, ends, client, ghosts, faults>>

Expire(c) ==
  /\ step[c] = "expire"
  /\ \E r \in TimedOut(cmd[c]) : Becomes(c, r)
  /\ Goto(c, "finish")
  /\ UNCHANGED <<watchdog, starting, tables, ends, client, ghosts, faults>>

(* finish: snapshot, the end of a transaction, _format_session_output.     *)
Finish(c) ==
  /\ step[c] = "finish"
  /\ \E r \in Refreshed(cmd[c]) :
       LET q == IF r.mode = "apply" /\ Verdict(r) # {} THEN Freed(r) ELSE r
       IN  /\ r.mode = "apply" /\ Verdict(r) # {} => r.held
           /\ Report(c, Verdict(r))
           /\ handed' = IF Verdict(r) = {} THEN handed \cup {c} ELSE handed
           /\ Settle(c, q, q.timedOut)
  /\ Goto(c, "done")
  /\ UNCHANGED <<watchdog, starting, jobs, ends, client, faults>>

(* The transaction fails: its output cannot be staged or committed (a      *)
(* ToolFailure), or its snapshot is gone (an OSError; the session stays).  *)
FinishFails(c) ==
  /\ step[c] = "finish" /\ cmd[c].mode = "apply"
  /\ \E r \in Refreshed(cmd[c]) :
       /\ Verdict(r) # {}
       /\ IF r.held /\ ~Alive(r)
            THEN Complete({c}, [cmd EXCEPT ![c] = Freed(r)])
            ELSE Becomes(c, Freed(r)) /\ UNCHANGED <<sessions, retained>>
  /\ Goto(c, "done")
  /\ UNCHANGED <<watchdog, starting, jobs, ends, client, ghosts, faults>>

-----------------------------------------------------------------------------
(* Watchdog, reaper, cancellation *)

(* Mutant: the watchdog only marks the session. *)
WatchdogMarks(c) ==
  /\ watchdog[c] = "decided"
  /\ Becomes(c, [cmd[c] EXCEPT !.timedOut = TRUE])
  /\ watchdog' = [watchdog EXCEPT ![c] = "over"]
  /\ UNCHANGED <<step, starting, tables, ends, client, ghosts, faults>>

WatchdogKills(c) ==
  /\ watchdog[c] = "decided"
  /\ \E r \in TimedOut(cmd[c]) : Becomes(c, r)
  /\ watchdog' = [watchdog EXCEPT ![c] = "over"]
  /\ UNCHANGED <<step, starting, tables, ends, client, ghosts, faults>>

(* process.wait returns; or it times out, and the process is looked at     *)
(* once more.                                                              *)
WatchdogWakes(c) ==
  /\ watchdog[c] = "waiting"
  /\ \/ /\ cmd[c].proc = "exited"
        /\ Becomes(c, Settled(cmd[c]))
        /\ watchdog' = [watchdog EXCEPT ![c] = "over"]
     \/ /\ cmd[c].due
        /\ watchdog' = [watchdog EXCEPT ![c] =
             IF Alive(cmd[c]) /\ ~cmd[c].timedOut THEN "decided" ELSE "over"]
        /\ UNCHANGED cmd
  /\ UNCHANGED <<step, starting, tables, ends, client, ghosts, faults>>

(* _reap_closed_session *)
Reap(c) ==
  /\ c \in reapers
  /\ cmd[c].proc = "exited"
  /\ Becomes(c, Freed(cmd[c]))
  /\ reapers' = reapers \ {c}
  /\ sessions' = sessions \ {c} /\ retained' = retained \ {c}
  /\ UNCHANGED <<step, watchdog, starting, jobs, closed, closing, registry, dying,
                 client, ghosts, faults>>

(* notifications/cancelled while the call is in progress *)
CancelRequest(c) ==
  /\ Shared /\ step[c] \in {"watch", "wait", "expire", "finish"}
  /\ CancelSession(c)
  /\ UNCHANGED <<step, watchdog, starting, retained, closed, closing, registry,
                 dying, client, ghosts, faults>>

-----------------------------------------------------------------------------
(* Calls on a session id *)

BeginClient(tool, c) ==
  /\ client = NoClient /\ Turn
  /\ step[c] = "done"
  /\ client' = [step |-> IF tool = "job_status" THEN "act" ELSE "prune",
                tool |-> tool, on |-> c]
  /\ UNCHANGED <<cmd, step, watchdog, starting, tables, ends, ghosts, faults>>

ClientPrune ==
  /\ client.step = "prune"
  /\ PruneSessions
  /\ client' = [client EXCEPT !.step = "act"]
  /\ UNCHANGED <<step, watchdog, starting, ends, ghosts, faults>>

Acts(tool, c) ==
  /\ client.step = "act" /\ client.tool = tool /\ client.on = c
  /\ c \in sessions \cup retained \cup jobs
  /\ client' = NoClient
  /\ UNCHANGED <<step, watchdog, starting, jobs, ends, handed, faults>>

(* SESSION_NOT_FOUND, or status "not_found" *)
NotFound ==
  /\ client.step = "act"
  /\ client.on \notin sessions \cup retained \cup jobs
  /\ client' = NoClient
  /\ UNCHANGED <<cmd, step, watchdog, starting, tables, ends, ghosts, faults>>

(* write_stdin: snapshot, _format_session_output *)
WriteStdin(c) ==
  /\ Acts("write_stdin", c)
  /\ \E r \in Refreshed(cmd[c]) :
       /\ Report(c, Verdict(r))
       /\ Settle(c, r, r.timedOut)

(* job_status: the exit code alone *)
JobStatus(c) ==
  /\ Acts("job_status", c)
  /\ \E r \in Refreshed(cmd[c]) :
       /\ Becomes(c, r)
       /\ Report(c, IF Alive(r) THEN {} ELSE {r.code = "zero"})
  /\ UNCHANGED <<sessions, retained>>

(* read_output, job_output *)
ReadOutput(c) ==
  /\ Acts("read_output", c)
  /\ \E r \in Refreshed(cmd[c]) : Becomes(c, r)
  /\ UNCHANGED <<sessions, retained, verdicts>>

(* kill_session, job_cancel: "terminated" or "killed", "terminating", or   *)
(* "exited" when there was nothing left to kill.                           *)
KillSession(c) ==
  /\ Acts("kill_session", c)
  /\ \E s \in Signalled(cmd[c]) : \E r \in Refreshed(s) :
       /\ Report(c, IF Alive(cmd[c]) THEN {FALSE} ELSE {r.code = "zero"})
       /\ Settle(c, r, TRUE)

-----------------------------------------------------------------------------
(* Runtime.close, SharedJobRegistry *)

Close ==
  /\ ~closed /\ Turn
  /\ closed' = TRUE
  /\ closing' = sessions /\ sessions' = {} /\ retained' = {}
  /\ cmd' = [c \in Commands |-> IF c \in retained THEN Freed(cmd[c]) ELSE cmd[c]]
  /\ UNCHANGED <<step, watchdog, starting, jobs, reapers, registry, dying, client,
                 ghosts, faults>>

(* Mutant: a shared job loses its resources with its Runtime. *)
CloseOneFrees(c) ==
  /\ c \in closing
  /\ closing' = closing \ {c}
  /\ \E r \in (IF c \in jobs THEN {cmd[c]} ELSE Terminated(cmd[c])) : Becomes(c, Freed(r))
  /\ UNCHANGED <<step, watchdog, starting, tables, reapers, closed, registry, dying,
                 client, ghosts, faults>>

(* A shared job survives its Runtime. *)
CloseOne(c) ==
  /\ c \in closing
  /\ closing' = closing \ {c}
  /\ IF c \in jobs THEN UNCHANGED <<cmd, reapers>>
     ELSE \E r \in Terminated(cmd[c]) :
       /\ Becomes(c, r)
       /\ reapers' = IF Alive(r) THEN reapers \cup {c} ELSE reapers
  /\ UNCHANGED <<step, watchdog, starting, tables, closed, registry, dying, client,
                 ghosts, faults>>

(* prune, by the janitor or before an operation: jobs are refreshed, and   *)
(* those completed for completed_ttl_seconds are dropped.                  *)
PruneJob(c, expired) ==
  /\ c \in jobs
  /\ \E r \in Refreshed(cmd[c]) :
       IF expired
         THEN ~Alive(r) /\ Becomes(c, Freed(r)) /\ jobs' = jobs \ {c}
         ELSE Becomes(c, r) /\ UNCHANGED jobs
  /\ UNCHANGED <<step, watchdog, starting, sessions, retained, ends, client,
                 ghosts, faults>>

(* Server shutdown: SharedJobRegistry.close *)
RegistryClose ==
  /\ registry = "open"
  /\ registry' = "closed"
  /\ dying' = jobs /\ jobs' = {}
  /\ UNCHANGED <<cmd, step, watchdog, starting, sessions, retained, reapers,
                 closed, closing, client, ghosts, faults>>

RegistryCloseOne(c) ==
  /\ c \in dying
  /\ dying' = dying \ {c}
  /\ \E r \in Signalled(cmd[c]) : Becomes(c, Freed(r))
  /\ UNCHANGED <<step, watchdog, starting, tables, reapers, closed, closing,
                 registry, client, ghosts, faults>>

-----------------------------------------------------------------------------
(* Processes and the clock *)

Exits(c) ==
  /\ Alive(cmd[c])
  /\ \E k \in Codes : Becomes(c, [cmd[c] EXCEPT !.proc = "exited", !.code = k])
  /\ UNCHANGED <<step, watchdog, starting, tables, ends, client, ghosts, faults>>

Sticks(c) ==
  /\ cmd[c].proc = "running"
  /\ Failing
  /\ Becomes(c, [cmd[c] EXCEPT !.proc = "stuck"])
  /\ UNCHANGED <<step, watchdog, starting, tables, ends, client, ghosts>>

Deadline(c) ==
  /\ step[c] \notin {"idle", "prune", "reserve"} /\ ~cmd[c].due
  /\ Becomes(c, [cmd[c] EXCEPT !.due = TRUE])
  /\ UNCHANGED <<step, watchdog, starting, tables, ends, client, ghosts, faults>>

CallStep(c) ==
  \/ PruneFirst(c) \/ Reserve(c) \/ Spawn(c) \/ Register(c)
  \/ Enter(c) \/ Abort(c) \/ Watch(c) \/ WaitEnds(c) \/ Expire(c)
  \/ Finish(c) \/ FinishFails(c)
Background(c) == WatchdogWakes(c) \/ WatchdogKills(c) \/ Reap(c)
                   \/ CloseOne(c) \/ RegistryCloseOne(c)
ClientStep ==
  \/ \E c \in Commands, t \in Tools : BeginClient(t, c)
  \/ ClientPrune \/ NotFound
  \/ \E c \in Commands : WriteStdin(c) \/ JobStatus(c) \/ ReadOutput(c) \/ KillSession(c)

Next ==
  \/ \E c \in Commands :
       \/ \E m \in Modes : BeginExec(c, m)
       \/ CallStep(c) \/ Background(c)
       \/ SpawnFails(c) \/ WatchFails(c) \/ CancelRequest(c)
       \/ RetentionEnds(c)
       \/ \E expired \in BOOLEAN : PruneJob(c, expired)
       \/ Exits(c) \/ Sticks(c) \/ Deadline(c)
  \/ ClientStep
  \/ Close \/ RegistryClose

Spec == Init /\ [][Next]_vars

(* Threads run, deadlines pass, the janitor wakes up; clients need not. *)
Fairness ==
  \A c \in Commands :
    /\ WF_vars(CallStep(c)) /\ WF_vars(Background(c)) /\ WF_vars(Deadline(c))
    /\ WF_vars(PruneJob(c, FALSE))
FairSpec == Spec /\ Fairness

-----------------------------------------------------------------------------
TypeOK ==
  /\ cmd \in [Commands -> Command]
  /\ step \in [Commands -> Steps]
  /\ watchdog \in [Commands -> {"none", "waiting", "decided", "over"}]
  /\ sessions \subseteq Commands /\ retained \subseteq Commands /\ jobs \subseteq Commands
  /\ starting \in Nat
  /\ reapers \subseteq Commands /\ closing \subseteq Commands /\ dying \subseteq Commands
  /\ closed \in BOOLEAN /\ registry \in {"none", "open", "closed"}
  /\ client \in [step : {"idle", "prune", "act"}, tool : Tools \cup {None},
                 on : Commands \cup {None}]
  /\ handed \subseteq Commands /\ verdicts \in [Commands -> SUBSET BOOLEAN]
  /\ faults \in 0..MaxFaults

(* "Active processes, completed-output sessions ... are bounded", however  *)
(* starts, ends, evictions and closings interleave; and the slots taken    *)
(* are exactly those of the calls between reservation and session.         *)
Bounded ==
  /\ Cardinality(sessions) + starting <= MaxActive
  /\ Cardinality(retained) <= MaxRetained
  /\ Cardinality(jobs) <= MaxJobs
  /\ starting = Cardinality({c \in Commands : step[c] \in {"spawn", "register", "enter"}})

(* The resources of a command (the snapshot a transaction runs in) are     *)
(* never released under a process that can still be ended.                 *)
ReleasedAfterExit ==
  \A c \in Commands : cmd[c].proc = "running" => cmd[c].held

(* Every process that can be ended, and every resource, has somebody who   *)
(* will end or release it: the call that started it, a table that is       *)
(* pruned, a close in progress, a reaper.                                  *)
Owned ==
  \A c \in Commands :
    cmd[c].proc = "running" \/ cmd[c].held =>
      \/ step[c] \notin {"idle", "done"}
      \/ c \in sessions /\ ~closed
      \/ c \in jobs \cup closing \cup dying \cup reapers
      \/ cmd[c].proc = "exited" /\ c \in retained

(* A command and its resources are somebody's to end and to release, and   *)
(* are released in that order.                                             *)
ResourcesAccounted == ReleasedAfterExit /\ Owned

(* A command that was reported as running is found until it ends, by the   *)
(* table its handle belongs to.                                            *)
RunningIsFound ==
  \A c \in handed :
    cmd[c].proc = "running" =>
      IF Shared THEN c \in jobs \/ registry = "closed" ELSE c \in sessions \/ closed

(* The tables of the Runtime and of the registry are within their limits,  *)
(* and yet lose no command that still runs.                                *)
TablesSound == Bounded /\ RunningIsFound

(* A command never outlives its deadline for good, whoever polls or not. *)
DeadlineEnforced ==
  \A c \in Commands : cmd[c].proc = "running" ~> cmd[c].proc # "running"

(* After the Runtime is closed, everything its commands held is released. *)
CloseReleases ==
  \A c \in Commands : closed /\ cmd[c].held ~> ~cmd[c].held \/ cmd[c].proc = "stuck"

(* "snapshot_since_cursor owns the status mapping ... so exec, polling,    *)
(* and kill paths agree": no two reports on an ended command disagree on   *)
(* whether it succeeded.                                                   *)
VerdictsAgree ==
  \A c \in Commands : Cardinality(verdicts[c]) <= 1
=============================================================================
