---------------------------- MODULE ServiceUpdate ----------------------------
(***************************************************************************)
(* Self-update and restart of the service: service_update,                 *)
(* service_restart and what they schedule (coding_tools_mcp/server.py),    *)
(* _service_update, _service_action and _serve (apps/devmcp/cli.py).       *)
(*                                                                         *)
(* systemd runs the scheduled units; they outlive the server that          *)
(* scheduled them, two of them may run at once, and the source checkout    *)
(* changes under them, between any two of their git commands too.          *)
(*                                                                         *)
(* Commits are numbered.  What a build reads is the tracked files, those   *)
(* of a commit or Modified ones, and untracked files, which no check looks *)
(* at (docs/runtime-contract-v0.2.md allows them).  The checks of the      *)
(* tool call itself (Eligible) are one step: the unit repeats them.        *)
(***************************************************************************)
EXTENDS Integers, FiniteSets

CONSTANTS
  MaxCommit,     \* bound on commits of the source
  MaxUpdates,    \* bound on updates that are scheduled
  MaxMoves,      \* bound on changes of the source checkout
  MaxOutages,    \* bound on crashes of the server and failing commands
  Modified       \* tracked files that are those of no commit

ASSUME UpdateAssumption ==
  /\ MaxCommit \in Nat /\ MaxUpdates \in Nat /\ MaxMoves \in Nat /\ MaxOutages \in Nat

VARIABLES
  source,     \* the checkout: HEAD, branch, work tree and index, origin/main
  installed,  \* the contents the installed tool was built from
  recorded,   \* installed_runtime_sha of config.toml
  server,     \* the running server: its code and the SHA it reports
  unit,       \* per systemd unit: the step of its update; ghosts
  restarting, \* a devmcp-self-restart unit is scheduled
  updates,
  moves,
  outages

updVars == <<source, installed, recorded, server, unit, restarting, updates, moves, outages>>

Commits == 0..MaxCommit
Builds == [tracked : Commits \cup {Modified}, extra : BOOLEAN]
Pristine(c) == [tracked |-> c, extra |-> FALSE]

(* edited: `git diff` shows something; staged: `git diff --cached` does; *)
(* branch "" is a detached HEAD.                                         *)
Checkouts == [head : Commits, branch : {"main", "topic", ""}, edited : BOOLEAN,
              staged : BOOLEAN, untracked : BOOLEAN, upstream : Commits]

(* _devmcp_update_unit_name: production or development mode, and the SHA *)
Units == {"prod", "dev"} \X Commits
Sha(u) == u[2]
Production(u) == u[1] = "prod"

(* saw: the contents of the checkout while the unit builds from it.       *)
(* Ghosts: disturbed, see below; ran: what the server ran when verified.  *)
NoUpdate == [at |-> "none", saw |-> {}, disturbed |-> FALSE, ran |-> Pristine(0)]

UpdInit ==
  /\ source \in Checkouts
  /\ installed = Pristine(0) /\ recorded = 0
  /\ server = [code |-> Pristine(0), claim |-> 0]
  /\ unit = [u \in Units |-> NoUpdate] /\ restarting = FALSE
  /\ updates = 0 /\ moves = 0 /\ outages = 0

At(u, step) == unit[u].at = step
Failed == [NoUpdate EXCEPT !.at = "failed"]
To(u, step) ==
  unit' = [unit EXCEPT ![u] = IF step = "failed" THEN Failed ELSE [@ EXCEPT !.at = step]]
Loaded(u) == unit[u].at \notin {"none", "updated", "failed"}

(* What a build of the checkout s would be made from. *)
Contents(s) ==
  [tracked |-> IF s.edited \/ s.staged THEN Modified ELSE s.head, extra |-> s.untracked]

(* An outage is a command that fails or a process that dies. *)
Outage == outages < MaxOutages /\ outages' = outages + 1

(* _validated_devmcp_update_source *)
Eligible(u) ==
  /\ IF Production(u) THEN source.branch = "main" /\ source.head = source.upstream
     ELSE source.branch # ""
  /\ ~source.edited /\ ~source.staged
  /\ source.head = Sha(u)

(* service_update: "already_current" and "already_scheduled" change nothing *)
ScheduleUpdate(u) ==
  /\ updates < MaxUpdates /\ updates' = updates + 1
  /\ Eligible(u) /\ server.claim # Sha(u) /\ ~Loaded(u)
  /\ unit' = [unit EXCEPT ![u] = [NoUpdate EXCEPT !.at = "scheduled"]]
  /\ UNCHANGED <<source, installed, recorded, server, restarting, moves, outages>>

(* service_restart *)
ScheduleRestart ==
  /\ ~restarting /\ restarting' = TRUE
  /\ UNCHANGED <<source, installed, recorded, server, unit, updates, moves, outages>>

(* _serve: the server runs what is installed and reports what is recorded *)
Serve == server' = [code |-> installed, claim |-> recorded]

Restarts ==
  /\ restarting /\ restarting' = FALSE
  /\ Serve
  /\ UNCHANGED <<source, installed, recorded, unit, updates, moves, outages>>

(* systemd starts a server that died again. *)
ServerDies ==
  /\ Outage /\ Serve
  /\ UNCHANGED <<source, installed, recorded, unit, restarting, updates, moves>>
----------------------------------------------------------------------------
(* _service_update, a unit's command: four checks of the source, each a    *)
(* git command of its own                                                  *)

Check(u, step, passed, next) ==
  /\ At(u, step) /\ To(u, IF passed THEN next ELSE "failed")
  /\ UNCHANGED <<source, installed, recorded, server, restarting, updates, moves, outages>>

(* Mutant: HEAD is not compared with the SHA that was asked for. *)
CheckNoHead(u) == Check(u, "scheduled", TRUE, "branch")

(* rev-parse HEAD *)
CheckHead(u) == Check(u, "scheduled", source.head = Sha(u), "branch")

(* branch --show-current *)
CheckBranch(u) ==
  Check(u, "branch", IF Production(u) THEN source.branch = "main" ELSE source.branch # "", "diff")

(* diff --quiet *)
CheckDiff(u) == Check(u, "diff", ~source.edited, "cached")

(* diff --cached --quiet; uv starts to build *)
CheckCached(u) ==
  /\ At(u, "cached")
  /\ IF source.staged THEN To(u, "failed")
     ELSE unit' = [unit EXCEPT ![u].at = "install", ![u].saw = {Contents(source)}]
  /\ UNCHANGED <<source, installed, recorded, server, restarting, updates, moves, outages>>

(* The build reads the checkout file by file: it gets what was there at    *)
(* one time, or a mixture.                                                 *)
Buildable(u, built) ==
  \/ built \in unit[u].saw
  \/ /\ built.tracked = Modified
     /\ \E s, t \in unit[u].saw : s.tracked # t.tracked

(* The installation is replaced; updates that are past theirs and not yet  *)
(* verified are disturbed.                                                 *)
Replace(u, built, next) ==
  /\ installed' = built
  /\ unit' = [w \in Units |->
       IF w = u THEN IF next = "failed" THEN Failed ELSE [unit[u] EXCEPT !.at = next]
       ELSE IF unit[w].at \in {"save", "units", "restart", "verify"}
            THEN [unit[w] EXCEPT !.disturbed = TRUE] ELSE unit[w]]

(* uv tool install --force *)
Install(u, built) ==
  /\ At(u, "install") /\ Buildable(u, built)
  /\ Replace(u, built, "save")
  /\ UNCHANGED <<source, recorded, server, restarting, updates, moves, outages>>

(* It fails or its timeout kills it: another or a partial installation may stay. *)
InstallFails(u, built) ==
  /\ At(u, "install") /\ Outage
  /\ Buildable(u, built) \/ built = Pristine(Modified)
  /\ Replace(u, built, "failed")
  /\ UNCHANGED <<source, recorded, server, restarting, updates, moves>>

(* save_config *)
SaveConfig(u) ==
  /\ At(u, "save")
  /\ recorded' = Sha(u)
  /\ To(u, "units")
  /\ UNCHANGED <<source, installed, server, restarting, updates, moves, outages>>

(* `devmcp service install`: the units are written again *)
InstallUnits(u) ==
  /\ At(u, "units")
  /\ To(u, "restart")
  /\ UNCHANGED <<source, installed, recorded, server, restarting, updates, moves, outages>>

(* `devmcp restart`, and the wait for its health *)
RestartServices(u) ==
  /\ At(u, "restart")
  /\ Serve /\ To(u, "verify")
  /\ UNCHANGED <<source, installed, recorded, restarting, updates, moves, outages>>

(* It fails, or times out, after the server was started again. *)
RestartFails(u) ==
  /\ At(u, "restart") /\ Outage
  /\ Serve /\ To(u, "failed")
  /\ UNCHANGED <<source, installed, recorded, restarting, updates, moves>>

(* Any other command fails or times out, or the unit is stopped; nothing is undone. *)
UpdateFails(u) ==
  /\ Loaded(u)
  /\ Outage /\ To(u, "failed")
  /\ UNCHANGED <<source, installed, recorded, server, restarting, updates, moves>>

(* _mcp_runtime_state: the SHA the running server reports *)
VerifyUpdate(u) ==
  /\ At(u, "verify")
  /\ IF server.claim = Sha(u)
     THEN unit' = [unit EXCEPT ![u].at = "updated", ![u].ran = server.code]
     ELSE To(u, "failed")
  /\ UNCHANGED <<source, installed, recorded, server, restarting, updates, moves, outages>>
----------------------------------------------------------------------------
(* The source checkout *)

(* A change disturbs an update past the check that would have seen it: of  *)
(* HEAD once HEAD was compared, of any tracked file or the index once the  *)
(* work tree was; until the installation is made.                          *)
Disturbs(u, new) ==
  \/ unit[u].at \in {"branch", "diff"} /\ new.head # source.head
  \/ /\ unit[u].at \in {"cached", "install"}
     /\ \/ new.head # source.head
        \/ new.edited # source.edited
        \/ new.staged # source.staged

SourceMoves(new) ==
  /\ moves < MaxMoves /\ moves' = moves + 1
  /\ new # source /\ source' = new
  /\ unit' = [u \in Units |->
       [unit[u] EXCEPT !.disturbed = @ \/ Disturbs(u, new),
                       !.saw = IF At(u, "install") THEN @ \cup {Contents(new)} ELSE @]]
  /\ UNCHANGED <<installed, recorded, server, restarting, updates, outages>>

(* commit, pull, checkout, reset, stash, add, an editor *)
MoveTracked(c, edited, staged) ==
  SourceMoves([source EXCEPT !.head = c, !.edited = edited, !.staged = staged])
MoveUntracked == SourceMoves([source EXCEPT !.untracked = ~@])
SwitchSource(b) == SourceMoves([source EXCEPT !.branch = b])
Fetch == SourceMoves([source EXCEPT !.upstream = source.head])

UpdNext ==
  \/ ScheduleRestart \/ Restarts \/ ServerDies
  \/ \E c \in Commits, edited, staged \in BOOLEAN : MoveTracked(c, edited, staged)
  \/ MoveUntracked \/ Fetch \/ \E b \in {"main", "topic", ""} : SwitchSource(b)
  \/ \E u \in Units :
       \/ ScheduleUpdate(u)
       \/ CheckHead(u) \/ CheckBranch(u) \/ CheckDiff(u) \/ CheckCached(u)
       \/ SaveConfig(u) \/ InstallUnits(u) \/ RestartServices(u) \/ VerifyUpdate(u)
       \/ RestartFails(u) \/ UpdateFails(u)
       \/ \E built \in Builds : Install(u, built) \/ InstallFails(u, built)

UpdSpec == UpdInit /\ [][UpdNext]_updVars
----------------------------------------------------------------------------
(* An update that reports success has the server running what the source   *)
(* held while it was built, with the tracked files of the commit it was    *)
(* asked for, however long it waited, whatever failed or restarted the     *)
(* server meanwhile and whatever happened to the source before the check   *)
(* that would see it - unless the source changed after that check and      *)
(* before the end of the build, or another update touched the installation *)
(* in between: neither is serialised and only the recorded SHA is verified *)
(* at the end.  Untracked files are part of the build and of no check.     *)
UpdateHonest ==
  \A u \in Units : At(u, "updated") /\ ~unit[u].disturbed =>
    /\ unit[u].ran \in unit[u].saw
    /\ unit[u].ran.tracked = Sha(u)
=============================================================================
