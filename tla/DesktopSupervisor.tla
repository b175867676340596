-------------------------- MODULE DesktopSupervisor --------------------------
(***************************************************************************)
(* The desktop client's supervisor of one workspace profile:               *)
(* RuntimeManager (apps/desktop-client/mcp_desktop_client/runtime.py) as   *)
(* the window's buttons use it (app.py), with its state file (storage.py). *)
(*                                                                         *)
(* A start or stop is a background job of several steps; the window calls  *)
(* status only between jobs (_set_runtime_busy).  The processes it starts  *)
(* survive it, die on their own, and leave their process ids to others.    *)
(* A pid is looked up and terminated in one step: what happens in between  *)
(* is guarded by the creation time (_terminate_process_tree).  A launcher  *)
(* and the process it runs are one.  A configuration stands for its port   *)
(* and for the tunnel to that port.                                        *)
(***************************************************************************)
EXTENDS Integers, Sequences, FiniteSets

CONSTANTS
  Pids,        \* process ids
  Configs,     \* configurations of the profile
  Tunnelled,   \* those with tunnel.type = "cloudflare"
  MaxBorn,     \* bound on processes ever started
  MaxQuits,    \* bound on ends of the client
  Vacant       \* no process, reference, session or state file

(* A pid with the creation time of its process, or none *)
Reference == [pid : Pids, born : Nat] \cup {Vacant}

(* Processes; ManagedSession; runtime.json *)
Process == [kind : {"runtime", "tunnel", "other"}, cfg : Configs, born : Nat]
Session == [run : Reference, popen : Reference, tunnel : Reference]
StateFile == [run : Reference, tunnel : Reference, cfg : Configs]

ASSUME DesktopAssumption ==
  /\ Tunnelled \subseteq Configs
  /\ Vacant \notin Pids \cup [pid : Pids, born : Nat] \cup Process \cup Session \cup StateFile
  /\ MaxBorn \in Nat /\ MaxQuits \in Nat

VARIABLES
  proc,       \* per pid: the process that has it
  port,       \* per configuration: the pid that listens on its port
  born,       \* processes started so far; the clock of creation times
  config,     \* the saved profile
  session,    \* _sessions[profile.id]
  saved,      \* runtime.json
  job,        \* the step of the running job, and its locals
  report,     \* the state the last status or stop returned
  quits,
  wronged,    \* ghost: processes of other programs that were terminated
  mistaken,   \* ghost: what else a start took for its runtime
  abandoned   \* ghost: runtimes that did not listen yet when the client ended

osVars == <<proc, port, born>>
ghosts == <<quits, wronged, mistaken, abandoned>>
deskVars == <<proc, port, born, config, session, saved, job, report,
              quits, wronged, mistaken, abandoned>>

NoJob == [at |-> "idle", run |-> Vacant, popen |-> Vacant, tunnel |-> Vacant]
Live == {p \in Pids : proc[p] # Vacant}

(* _process_create_time: a pid with the creation time of its process *)
Ref(p) == IF p \in Live THEN [pid |-> p, born |-> proc[p].born] ELSE Vacant

(* Mutant: the creation time is not compared. *)
HasPid(r) == r # Vacant /\ r.pid \in Live

(* _process_has_create_time, and poll() of a child *)
HasCreateTime(r) == IF r = Vacant THEN FALSE ELSE Ref(r.pid) = r

MatchesRuntime(r, c) ==
  HasCreateTime(r) /\ proc[r.pid].kind = "runtime" /\ proc[r.pid].cfg = c
MatchesTunnel(r, c) ==
  HasCreateTime(r) /\ proc[r.pid].kind = "tunnel" /\ proc[r.pid].cfg = c

Recorded(part) == IF saved = Vacant THEN Vacant ELSE saved[part]
Held(part) == IF session = Vacant THEN Vacant ELSE session[part]
Only(r, found) == IF found THEN r ELSE Vacant
FirstFound(candidates) ==
  LET found == {i \in DOMAIN candidates : candidates[i] # Vacant}
  IN  IF found = {} THEN Vacant
      ELSE candidates[CHOOSE i \in found : \A j \in found : i <= j]

(* _find_runtime_pid: by session, by child, by port, by state file *)
FindRuntime ==
  LET mine(r) == Only(r, MatchesRuntime(r, config))
  IN  FirstFound(<<mine(Held("run")), mine(Held("popen")),
                   mine(Ref(port[config])), mine(Recorded("run"))>>)

(* _find_state_runtime: the recorded runtime under the recorded settings *)
FindStateRuntime ==
  Only(Recorded("run"), saved # Vacant /\ MatchesRuntime(Recorded("run"), saved.cfg))

(* _find_tunnel_pid: by session, by state file, and by its command, which  *)
(* no two processes have (OneTunnel)                                       *)
FindTunnel ==
  LET tunnels == {p \in Live : MatchesTunnel(Ref(p), config)}
  IN  FirstFound(<<Only(Held("tunnel"), HasCreateTime(Held("tunnel"))),
                   Only(Recorded("tunnel"), MatchesTunnel(Recorded("tunnel"), config)),
                   IF config \in Tunnelled /\ tunnels # {}
                   THEN Ref(CHOOSE p \in tunnels : TRUE) ELSE Vacant>>)

(* _find_state_tunnel_pid *)
FindStateTunnel ==
  Only(Recorded("tunnel"), saved # Vacant /\ MatchesTunnel(Recorded("tunnel"), saved.cfg))

(* _terminate_process_tree of each: only the process that was meant *)
Terminate(refs) ==
  LET doomed == {p \in Live : \E r \in refs : HasCreateTime(r) /\ r.pid = p}
  IN  /\ proc' = [p \in Pids |-> IF p \in doomed THEN Vacant ELSE proc[p]]
      /\ port' = [c \in Configs |-> IF port[c] \in doomed THEN Vacant ELSE port[c]]
      /\ wronged' = wronged \cup {proc[p].born : p \in {q \in doomed : proc[q].kind = "other"}}
      /\ UNCHANGED born

(* A child the job has not polled yet keeps its pid when it dies. *)
Unreaped == {r.pid : r \in {job.popen, job.tunnel} \ {Vacant}}

(* Popen of a runtime or tunnel; another program's process *)
Spawn(p, kind) ==
  /\ p \in Pids \ (Live \cup Unreaped) /\ born < MaxBorn
  /\ born' = born + 1
  /\ proc' = [proc EXCEPT ![p] = [kind |-> kind, cfg |-> config, born |-> born]]

DeskInit ==
  /\ proc = [p \in Pids |-> Vacant] /\ port = [c \in Configs |-> Vacant] /\ born = 0
  /\ config \in Configs /\ session = Vacant /\ saved = Vacant
  /\ job = NoJob /\ report = "none"
  /\ quits = 0 /\ wronged = {} /\ mistaken = {} /\ abandoned = {}

JobAt(at) == job' = [job EXCEPT !.at = at]
Ends(state) == job' = NoJob /\ report' = state
----------------------------------------------------------------------------
(* The window, between jobs *)

NothingRuns == FindRuntime = Vacant /\ FindStateRuntime = Vacant

(* status: without a runtime, its tunnel and its state file go *)
Status ==
  IF NothingRuns
  THEN Terminate({FindTunnel}) /\ saved' = Vacant
  ELSE UNCHANGED <<osVars, wronged, saved>>

(* summary_state, _load_profile, _refresh_current, and the end of a job *)
Report ==
  /\ job.at \in {"idle", "report"}
  /\ Status
  /\ Ends(IF NothingRuns THEN "stopped"
          ELSE IF FindRuntime = Vacant \/ (config \in Tunnelled /\ FindTunnel = Vacant)
               THEN "error" ELSE "running")
  /\ UNCHANGED <<config, session, quits, mistaken, abandoned>>

(* _save_current with other settings: not while a runtime is found *)
SaveProfile(c) ==
  /\ job.at = "idle" /\ c # config /\ NothingRuns
  /\ Status
  /\ config' = c /\ JobAt("report") /\ report' = "none"
  /\ UNCHANGED <<session, quits, mistaken, abandoned>>

(* _start_runtime: save, then the job *)
StartRuntime ==
  /\ job.at = "idle"
  /\ Status
  /\ JobAt("start") /\ report' = "none"
  /\ UNCHANGED <<config, session, quits, mistaken, abandoned>>
----------------------------------------------------------------------------
(* start *)

(* A job that raises: the window shows the error and asks for the status. *)
Raises == job' = [NoJob EXCEPT !.at = "report"] /\ report' = "none"

(* _validate_tunnel_requirements, a runtime of earlier settings, or a      *)
(* command that is not found                                               *)
StartRefused ==
  /\ job.at \in {"start", "launch"}
  /\ Raises
  /\ UNCHANGED <<osVars, config, session, saved, ghosts>>

(* _cleanup_orphan_tunnel; nothing of the profile runs; the port is free or not *)
StartClean ==
  /\ job.at = "start" /\ NothingRuns
  /\ LET orphan == FirstFound(<<FindTunnel, FindStateTunnel>>)
     IN  /\ Terminate({orphan})
         /\ saved' = IF orphan = Vacant THEN saved ELSE Vacant
  /\ JobAt(IF port[config] = Vacant THEN "launch" ELSE "report")
  /\ UNCHANGED <<config, session, report, quits, mistaken, abandoned>>

(* The runtime is there: start its tunnel again, or adopt both. *)
StartAdopts ==
  /\ job.at = "start" /\ FindRuntime # Vacant
  /\ IF config \in Tunnelled /\ FindTunnel = Vacant
     THEN /\ job' = [job EXCEPT !.at = "tunnel", !.run = FindRuntime]
          /\ UNCHANGED <<session, report>>
     ELSE /\ session' = IF session # Vacant THEN session
                        ELSE [run |-> FindRuntime, popen |-> Vacant, tunnel |-> Vacant]
          /\ JobAt("report") /\ UNCHANGED report
  /\ UNCHANGED <<osVars, config, saved, ghosts>>

(* _start_runtime_process: Popen, wait for the port, ask who listens *)
LaunchRuntime(p) ==
  /\ job.at = "launch"
  /\ Spawn(p, "runtime")
  /\ job' = [job EXCEPT !.at = "wait", !.popen = [pid |-> p, born |-> born]]
  /\ UNCHANGED <<port, config, session, saved, report, ghosts>>

RuntimeFound ==
  /\ job.at = "wait" /\ port[config] # Vacant
  /\ job' = [job EXCEPT !.at = IF config \in Tunnelled THEN "tunnel" ELSE "record",
                        !.run = Ref(port[config])]
  /\ UNCHANGED <<osVars, config, session, saved, report, ghosts>>

RuntimeTimeout ==
  /\ job.at = "wait"
  /\ Terminate({job.popen})
  /\ Raises
  /\ UNCHANGED <<config, session, saved, quits, mistaken, abandoned>>

(* _start_cloudflare_tunnel *)
LaunchTunnel(p) ==
  /\ job.at = "tunnel"
  /\ Spawn(p, "tunnel")
  /\ job' = [job EXCEPT !.at = "connect", !.tunnel = [pid |-> p, born |-> born]]
  /\ UNCHANGED <<port, config, session, saved, report, ghosts>>

TunnelConnects ==
  /\ job.at = "connect" /\ HasCreateTime(job.tunnel)
  /\ JobAt("record")
  /\ UNCHANGED <<osVars, config, session, saved, report, ghosts>>

(* What has the pid of the runtime now, when that is another process *)
Confused ==
  LET r == Ref(job.run.pid)
  IN  IF r # Vacant /\ proc[r.pid].kind # "runtime" THEN {r.born} ELSE {}

(* The tunnel fails: a runtime this job launched goes too. *)
TunnelFails ==
  /\ job.at \in {"tunnel", "connect"}
  /\ IF job.popen = Vacant
     THEN Terminate({job.tunnel}) /\ UNCHANGED <<saved, mistaken>>
     ELSE /\ Terminate({job.tunnel, Ref(job.run.pid), job.popen})
          /\ saved' = Vacant /\ mistaken' = mistaken \cup Confused
  /\ Raises
  /\ UNCHANGED <<config, session, quits, abandoned>>

(* Runtimes that do not listen *)
Starting ==
  {proc[p].born : p \in {q \in Live : proc[q].kind = "runtime" /\ port[proc[q].cfg] # q}}

(* The session and _write_runtime_state, with the creation times of now *)
Record ==
  /\ job.at = "record"
  /\ session' = [run |-> Ref(job.run.pid), popen |-> job.popen, tunnel |-> job.tunnel]
  /\ saved' = [run |-> Ref(job.run.pid), tunnel |-> Only(job.tunnel, HasCreateTime(job.tunnel)),
               cfg |-> config]
  /\ mistaken' = mistaken \cup Confused
  /\ abandoned' = abandoned \cup {b \in Starting : Held("popen") # Vacant /\ b = Held("popen").born}
  /\ Raises
  /\ UNCHANGED <<osVars, config, quits, wronged>>
----------------------------------------------------------------------------
(* stop, from the button and from _delete_workspace *)

StopRuntime ==
  /\ job.at = "idle"
  /\ LET now(r) == Only(r, HasCreateTime(r))
     IN job' = [at |-> "stop",
                tunnel |-> FirstFound(<<now(Held("tunnel")), FindTunnel, FindStateTunnel>>),
                run |-> FirstFound(<<now(Held("run")), now(Held("popen")),
                                     FindRuntime, FindStateRuntime>>),
                popen |-> Held("popen")]
  /\ session' = Vacant /\ report' = "none"
  /\ UNCHANGED <<osVars, config, saved, ghosts>>

StopTunnel ==
  /\ job.at = "stop"
  /\ Terminate({job.tunnel})
  /\ JobAt("stopRuntime")
  /\ UNCHANGED <<config, session, saved, report, quits, mistaken, abandoned>>

StopProcesses ==
  /\ job.at = "stopRuntime"
  /\ Terminate({job.run, job.popen})
  /\ JobAt("clear")
  /\ UNCHANGED <<config, session, saved, report, quits, mistaken, abandoned>>

(* _wait_for_port_state whatever it finds, _clear_runtime_state *)
StopClears ==
  /\ job.at = "clear"
  /\ saved' = Vacant /\ Ends("stopped")
  /\ UNCHANGED <<osVars, config, session, ghosts>>
----------------------------------------------------------------------------
(* The processes and the client's end *)

(* A runtime binds its port. *)
Listens(p) ==
  /\ p \in Live /\ proc[p].kind = "runtime" /\ port[proc[p].cfg] = Vacant
  /\ port' = [port EXCEPT ![proc[p].cfg] = p] /\ report' = "none"
  /\ UNCHANGED <<proc, born, config, session, saved, job, ghosts>>

Dies(p) ==
  /\ p \in Live
  /\ proc' = [proc EXCEPT ![p] = Vacant]
  /\ port' = [c \in Configs |-> IF port[c] = p THEN Vacant ELSE port[c]]
  /\ report' = "none"
  /\ UNCHANGED <<born, config, session, saved, job, ghosts>>

(* Another program gets a free pid, and perhaps a free port. *)
OtherStarts(p, c) ==
  /\ Spawn(p, "other")
  /\ \/ port[c] = Vacant /\ port' = [port EXCEPT ![c] = p]
     \/ UNCHANGED port
  /\ report' = "none"
  /\ UNCHANGED <<config, session, saved, job, ghosts>>

(* The client ends at any point of a job; what it launched goes on. *)
ClientEnds ==
  /\ quits < MaxQuits /\ quits' = quits + 1
  /\ session' = Vacant /\ Ends("none")
  /\ abandoned' = abandoned \cup Starting
  /\ UNCHANGED <<osVars, config, saved, wronged, mistaken>>

DeskNext ==
  \/ Report \/ StartRuntime \/ StopRuntime \/ \E c \in Configs : SaveProfile(c)
  \/ StartRefused \/ StartClean \/ StartAdopts \/ RuntimeFound \/ RuntimeTimeout
  \/ TunnelConnects \/ TunnelFails \/ Record
  \/ StopTunnel \/ StopProcesses \/ StopClears \/ ClientEnds
  \/ \E p \in Pids : LaunchRuntime(p) \/ LaunchTunnel(p) \/ Listens(p) \/ Dies(p)
  \/ \E p \in Pids, c \in Configs : OtherStarts(p, c)

(* The tunnel of a configuration is started only when there is none. *)
OneTunnel ==
  \A p, q \in Live :
    proc[p].kind = "tunnel" /\ proc[q].kind = "tunnel" /\ proc[p].cfg = proc[q].cfg => p = q

DeskSpec == DeskInit /\ [][DeskNext]_deskVars
----------------------------------------------------------------------------
(* The client terminates no process of another program, whatever becomes   *)
(* of the pids it remembers in memory and on disk - except one that a      *)
(* start took for its runtime: it held the port, or got the runtime's pid, *)
(* while the start waited (_start_runtime_process and start ask for the    *)
(* listener and for the creation time without looking at the command).     *)
SparesOthers == wronged \subseteq mistaken

(* When stop or status says "stopped", every runtime and tunnel the client *)
(* launched, in this life or an earlier one, is gone - except a runtime    *)
(* that did not listen yet when the client ended, or when a start that     *)
(* renewed the tunnel replaced the session that knew it.  (A start that    *)
(* mistook another process for its runtime, above, is left out.)           *)
StopLeavesNothing ==
  report = "stopped" /\ mistaken = {} =>
    \A p \in Live : proc[p].kind # "other" =>
      proc[p].kind = "runtime" /\ proc[p].born \in abandoned

(* The client ends the processes that it started, and only those. *)
SupervisesOwn == SparesOthers /\ StopLeavesNothing
=============================================================================
