------------------------- MODULE ExecSessionsProofs -------------------------
(***************************************************************************)
(* Theorems about the commands of a Runtime, for any number of commands,   *)
(* limits, tools and failing system calls: its tables are bounded and lose *)
(* no command that runs, and every process and resource has somebody who   *)
(* will end or release it.                                                 *)
(***************************************************************************)
EXTENDS ExecSessions, FiniteSetTheorems, TLAPS

-----------------------------------------------------------------------------
(* The inductive invariant, command by command.  Until its process is      *)
(* registered a command is in no table and has no watchdog; from then on   *)
(* what it holds is in some table, even while its call is still waiting    *)
(* for it, because a cancellation or a close may come at any time.         *)

Unborn == {"idle", "prune", "reserve", "spawn"}
Entered == {"watch", "wait", "expire", "finish", "done"}

Tabled(c) ==
  \/ c \in sessions \cup jobs \cup closing \cup dying \cup reapers
  \/ cmd[c].proc = "exited" /\ c \in retained

Unknown(c) ==
  /\ c \notin sessions \cup retained \cup jobs
  /\ c \notin closing \cup dying \cup reapers \cup handed

(* The table a command that runs is found in by its handle. *)
Found(c) ==
  IF Shared THEN c \in jobs \/ registry = "closed" ELSE c \in sessions \/ closed

CommandInv(c) ==
  /\ step[c] \in Unborn =>
       /\ cmd[c].proc = "none" /\ ~cmd[c].timedOut
       /\ cmd[c].held = (step[c] # "idle")
       /\ watchdog[c] = "none" /\ Unknown(c)
  /\ cmd[c].proc = "running" => cmd[c].held /\ ~cmd[c].timedOut /\ c \notin retained
  /\ step[c] \in Entered => (cmd[c].held => Tabled(c)) /\ (cmd[c].proc = "running" => Found(c))
  /\ step[c] = "enter" /\ Shared /\ cmd[c].proc = "running" => Found(c)
  /\ cmd[c].held /\ step[c] \notin Unborn => cmd[c].proc # "none"
  /\ c \in handed => step[c] = "done"

(* A close takes what there is, and nothing enters afterwards. *)
Tidy ==
  /\ IF closed THEN sessions = {} ELSE closing = {}
  /\ registry # "closed" => dying = {}

ExecInv ==
  /\ TypeOK
  /\ Bounded
  /\ Tidy
  /\ \A c \in Commands : CommandInv(c)

-----------------------------------------------------------------------------
(* What the operations on a record may do to it: a process that runs has   *)
(* kept its resources and its time, one that has ended stays ended, and    *)
(* resources are never taken back.                                         *)
Later(r, q) ==
  /\ q \in Command
  /\ q.proc = "running" => r.proc = "running" /\ q.held = r.held /\ q.timedOut = r.timedOut
  /\ q.held => r.held
  /\ r.proc = "exited" => q.proc = "exited"
  /\ r.proc # "none" => q.proc # "none"

LEMMA FreedRecord ==
  ASSUME NEW r \in Command
  PROVE  /\ Freed(r) \in Command /\ ~Freed(r).held
         /\ Freed(r).proc = r.proc /\ Freed(r).timedOut = r.timedOut
         /\ Freed(r).mode = r.mode /\ Freed(r).code = r.code
BY DEF Freed, Command

LEMMA LaterFreed ==
  ASSUME NEW r \in Command, NEW q \in Command, Later(r, q), q.proc # "running"
  PROVE  Later(r, Freed(q))
BY FreedRecord DEF Later

LEMMA LaterSelf ==
  ASSUME NEW r \in Command
  PROVE  Later(r, r)
BY DEF Later

LEMMA SettledRecord ==
  ASSUME NEW r \in Command
  PROVE  /\ Later(r, Settled(r))
         /\ Settled(r).proc = r.proc /\ Settled(r).timedOut = r.timedOut
BY FreedRecord DEF Settled, Later

LEMMA SignalledRecord ==
  ASSUME NEW r \in Command, NEW q \in Signalled(r)
  PROVE  /\ Later(r, q) /\ q.proc # "running"
         /\ q.held = r.held /\ q.timedOut = r.timedOut
<1>1. CASE r.proc = "running"
  <2>1. PICK k \in Codes : q = [r EXCEPT !.proc = "exited", !.code = k]
    BY <1>1 DEF Signalled
  <2> QED  BY <2>1, <1>1 DEF Later, Command, Codes
<1>2. CASE r.proc # "running"
  BY <1>2, LaterSelf DEF Signalled
<1> QED  BY <1>1, <1>2

LEMMA TimedOutRecord ==
  ASSUME NEW r \in Command, NEW q \in TimedOut(r)
  PROVE  Later(r, q) /\ q.proc # "running"
<1> DEFINE s == [r EXCEPT !.timedOut = TRUE]
<1>1. s \in Command /\ s.proc = r.proc /\ s.held = r.held
  BY DEF Command
<1>2. PICK u \in Signalled(s) : q = Settled(u)
  BY DEF TimedOut
<1> HIDE DEF s
<1>3. Later(s, u) /\ u.proc # "running" /\ u \in Command
  BY <1>1, SignalledRecord DEF Later
<1>4. Later(u, q) /\ q.proc = u.proc
  BY <1>2, <1>3, SettledRecord
<1> QED  BY <1>1, <1>3, <1>4 DEF Later

LEMMA RefreshedRecord ==
  ASSUME NEW r \in Command, NEW q \in Refreshed(r)
  PROVE  Later(r, q)
BY TimedOutRecord, SettledRecord DEF Refreshed

LEMMA LaterTwice ==
  ASSUME NEW r \in Command, NEW s, NEW q, Later(r, s), Later(s, q)
  PROVE  Later(r, q)
BY DEF Later

LEMMA TerminatedRecord ==
  ASSUME NEW r \in Command, NEW q \in Terminated(r)
  PROVE  /\ Later(r, q) /\ q.proc # "running"
         /\ q.proc = "exited" => ~q.held
<1>1. PICK s \in Refreshed(r) : \E u \in Signalled(s) :
        q = IF u.proc = "exited" THEN Freed(u) ELSE u
  BY DEF Terminated
<1>2. Later(r, s) /\ s \in Command
  BY RefreshedRecord DEF Later
<1>0. PICK u \in Signalled(s) : q = IF u.proc = "exited" THEN Freed(u) ELSE u
  BY <1>1
<1>3. Later(s, u) /\ u.proc # "running" /\ u \in Command
  BY <1>2, SignalledRecord DEF Later
<1>4. Later(r, u)
  BY <1>2, <1>3, LaterTwice
<1> QED  BY <1>0, <1>3, <1>4, LaterFreed, FreedRecord

(* A command with a verdict has ended or timed out. *)
LEMMA VerdictRecord ==
  ASSUME NEW r \in Command
  PROVE  /\ Verdict(r) \in SUBSET BOOLEAN
         /\ Verdict(r) # {} => ~Alive(r) \/ r.timedOut
         /\ Verdict(r) = {} => Alive(r) /\ ~r.timedOut
<1>1. CASE r.timedOut
  <2>1. Verdict(r) = {FALSE}
    BY <1>1 DEF Verdict
  <2> QED  BY <1>1, <2>1
<1>2. CASE ~r.timedOut /\ Alive(r)
  <2>1. Verdict(r) = {}
    BY <1>2 DEF Verdict
  <2> QED  BY <1>2, <2>1
<1>3. CASE ~r.timedOut /\ ~Alive(r)
  <2>1. Verdict(r) = {r.code = "zero"}
    BY <1>3 DEF Verdict
  <2>2. (r.code = "zero") \in BOOLEAN
    OBVIOUS
  <2> QED  BY <1>3, <2>1, <2>2
<1> QED  BY <1>1, <1>2, <1>3

-----------------------------------------------------------------------------
(* One command and a step that moves it between tables, or leaves it be.   *)
Moves(d) ==
  /\ \/ step'[d] = step[d]
     \/ step[d] \in Entered /\ step'[d] \in Entered
     \/ step[d] \in Unborn \ {"idle"} /\ step'[d] \in Unborn \ {"idle"}
  /\ d \in handed' => step'[d] = "done"
  /\ Shared' = Shared
  /\ IF step[d] \in Unborn
       THEN /\ cmd'[d].proc = cmd[d].proc /\ cmd'[d].timedOut = cmd[d].timedOut
            /\ cmd'[d].held = cmd[d].held
            /\ watchdog'[d] = watchdog[d] /\ Unknown(d)'
       ELSE /\ Later(cmd[d], cmd'[d])
            /\ d \in retained' => cmd'[d].proc # "running"
            /\ Tabled(d) /\ cmd'[d].held => Tabled(d)'
            /\ Found(d) /\ cmd'[d].proc = "running" => Found(d)'

LEMMA MovesKeep ==
  ASSUME TypeOK, NEW d \in Commands, CommandInv(d), Moves(d)
  PROVE  CommandInv(d)'
<1>1. cmd[d] \in Command /\ step[d] \in Steps
  BY DEF TypeOK
<1>2. CASE step[d] \in Unborn
  BY <1>1, <1>2 DEF Moves, CommandInv, Unborn, Entered
<1>3. CASE step[d] \notin Unborn
  BY <1>1, <1>3 DEF Moves, CommandInv, Unborn, Entered, Later
<1> QED  BY <1>2, <1>3

(* What a step leaves alone of a command. *)
Same(d) ==
  /\ cmd'[d] = cmd[d] /\ step'[d] = step[d] /\ watchdog'[d] = watchdog[d]
  /\ (d \in sessions') = (d \in sessions) /\ (d \in retained') = (d \in retained)
  /\ (d \in jobs') = (d \in jobs) /\ (d \in closing') = (d \in closing)
  /\ (d \in dying') = (d \in dying) /\ (d \in reapers') = (d \in reapers)
  /\ (d \in handed') = (d \in handed)

LEMMA SameKeeps ==
  ASSUME NEW d \in Commands, CommandInv(d), Same(d), closed' = closed, registry' = registry
  PROVE  CommandInv(d)'
BY DEF Same, CommandInv, Unknown, Tabled, Found, Shared

(* A step that only rearranges what the Runtime remembers: records become  *)
(* those of update, ended commands leave the sessions for the retained     *)
(* ones, and what is evicted gives up its resources.                       *)
Elsewhere ==
  /\ jobs' = jobs /\ closing' = closing /\ dying' = dying /\ reapers' = reapers
  /\ closed' = closed /\ registry' = registry /\ watchdog' = watchdog

Walks(d) ==
  /\ \/ step'[d] = step[d]
     \/ step[d] \in Entered /\ step'[d] \in Entered
     \/ step[d] \in Unborn \ {"idle"} /\ step'[d] \in Unborn \ {"idle"}
  /\ d \in handed' => step'[d] = "done"

Updates(update) ==
  /\ update \in [Commands -> Command]
  /\ \A d \in Commands :
       IF step[d] \in Unborn THEN update[d] = cmd[d] ELSE Later(cmd[d], update[d])

Rearranges(S, update) ==
  /\ cmd' \in [Commands -> Command]
  /\ \A d \in Commands : \/ cmd'[d] = update[d]
                         \/ cmd'[d] = Freed(update[d]) /\ d \in retained \cup S
  /\ retained' \subseteq retained \cup S /\ Cardinality(retained') <= MaxRetained
  /\ \A d \in (retained \cup S) \ retained' : d \in jobs \/ ~cmd'[d].held

LEMMA RearrangedKeep ==
  ASSUME ExecInv, NEW S \in SUBSET Commands, NEW update, Updates(update),
         \A d \in S : step[d] \notin Unborn /\ update[d].proc # "running",
         Rearranges(S, update),
         sessions' \subseteq sessions,
         \A d \in sessions \ sessions' : d \in S /\ ~Alive(update[d]),
         Elsewhere, \A d \in Commands : Walks(d)
  PROVE  \A d \in Commands : CommandInv(d)'
<1> SUFFICES ASSUME NEW d \in Commands PROVE CommandInv(d)'
  OBVIOUS
<1>1. TypeOK /\ CommandInv(d) /\ cmd[d] \in Command /\ update[d] \in Command
  BY DEF ExecInv, TypeOK, Updates
<1>2. Shared' = Shared
  BY DEF Elsewhere, Shared
<1>3. CASE step[d] \in Unborn
  <2>1. Unknown(d) /\ update[d] = cmd[d] /\ d \notin S
    BY <1>1, <1>3 DEF CommandInv, Updates
  <2>2. cmd'[d] = cmd[d]
    BY <2>1 DEF Rearranges, Unknown
  <2>3. step'[d] # "done"
    BY <1>3 DEF Walks, Unborn, Entered
  <2>4. Unknown(d)'
    BY <2>1, <2>3 DEF Unknown, Rearranges, Elsewhere, Walks
  <2>5. Moves(d)
    BY <1>2, <1>3, <2>2, <2>4 DEF Moves, Walks, Elsewhere
  <2> QED  BY <1>1, <2>5, MovesKeep
<1>4. CASE step[d] \notin Unborn
  <2>1. Later(cmd[d], update[d])
    BY <1>4 DEF Updates
  <2>2. d \in retained \cup S => update[d].proc # "running"
    BY <1>1, <2>1 DEF CommandInv, Later
  <2>3. cmd'[d].proc = update[d].proc
    BY <1>1, FreedRecord DEF Rearranges
  <2>4. Later(cmd[d], cmd'[d])
    BY <1>1, <2>1, <2>2, LaterFreed DEF Rearranges
  <2>5. d \in retained' => cmd'[d].proc # "running"
    BY <2>2, <2>3 DEF Rearranges
  <2>0. d \in sessions \ sessions' /\ cmd'[d].held => cmd'[d].proc = "exited"
    <3>1. cmd'[d].held => cmd'[d].proc # "none"
      BY <1>1, <1>4, <2>4 DEF CommandInv, Later
    <3>2. cmd'[d].proc \in {"none", "running", "stuck", "exited"}
      BY <1>1, <2>3 DEF Command
    <3> QED  BY <2>3, <3>1, <3>2 DEF Alive
  <2>6. Tabled(d) /\ cmd'[d].held => Tabled(d)'
    BY <2>0, <2>4 DEF Tabled, Later, Rearranges, Elsewhere
  <2>7. Found(d) /\ cmd'[d].proc = "running" => Found(d)'
    BY <2>3, <1>2 DEF Found, Elsewhere, Alive
  <2>8. Moves(d)
    BY <1>2, <1>4, <2>4, <2>5, <2>6, <2>7 DEF Moves, Walks
  <2> QED  BY <1>1, <2>8, MovesKeep
<1> QED  BY <1>3, <1>4

LEMMA Remembers ==
  ASSUME TypeOK, NEW S \in SUBSET Commands, NEW update \in [Commands -> Command],
         Remember(S, update)
  PROVE  Rearranges(S, update)
<1>1. PICK keep \in SUBSET (retained \cup S) :
        /\ Cardinality(keep) <= MaxRetained
        /\ retained' = keep
        /\ cmd' = [d \in Commands |->
             IF d \in (retained \cup S) \ keep THEN Freed(update[d]) ELSE update[d]]
  BY DEF Remember
<1>2. \A d \in Commands : Freed(update[d]) \in Command /\ ~Freed(update[d]).held
  BY FreedRecord
<1>3. cmd' \in [Commands -> Command]
  BY <1>1, <1>2
<1>4. retained \cup S \subseteq Commands
  BY DEF TypeOK
<1>5. \A d \in Commands :
        cmd'[d] = IF d \in (retained \cup S) \ keep THEN Freed(update[d]) ELSE update[d]
  BY <1>1
<1>6. \A d \in Commands : \/ cmd'[d] = update[d]
                          \/ cmd'[d] = Freed(update[d]) /\ d \in retained \cup S
  BY <1>5
<1>7. \A d \in (retained \cup S) \ retained' : ~cmd'[d].held
  BY <1>1, <1>2, <1>4, <1>5
<1> QED  BY <1>1, <1>3, <1>6, <1>7, Zenon DEF Rearranges

LEMMA Completes ==
  ASSUME TypeOK, Bounded, NEW S \in SUBSET Commands, NEW update \in [Commands -> Command],
         Complete(S, update)
  PROVE  /\ Rearranges(S, update)
         /\ sessions' = sessions \ S
<1>1. CASE S \subseteq jobs
  <2>1. retained' = retained \ S /\ cmd' = update
    BY <1>1 DEF Complete
  <2>2. IsFiniteSet(retained) /\ retained' \in SUBSET retained
    BY <2>1, CommandsAssumption, FS_Subset DEF TypeOK
  <2>3. Cardinality(retained') <= MaxRetained
    <3>1. Cardinality(retained') <= Cardinality(retained)
      BY <2>2, FS_Subset
    <3>2. Cardinality(retained') \in Nat /\ Cardinality(retained) \in Nat
      BY <2>2, FS_Subset, FS_CardinalityType
    <3> QED  BY <3>1, <3>2, LimitsAssumption DEF Bounded
  <2>4. \A d \in (retained \cup S) \ retained' : d \in jobs
    BY <1>1, <2>1
  <2>5. cmd' \in [Commands -> Command] /\ \A d \in Commands : cmd'[d] = update[d]
    BY <2>1
  <2>6. retained' \subseteq retained \cup S /\ sessions' = sessions \ S
    BY <2>1 DEF Complete
  <2> QED  BY <2>3, <2>4, <2>5, <2>6, Zenon DEF Rearranges
<1>2. CASE ~(S \subseteq jobs)
  <2>1. Remember(S \ jobs, update) /\ sessions' = sessions \ S
    BY <1>2 DEF Complete
  <2>2. Rearranges(S \ jobs, update)
    BY <2>1, Remembers
  <2> QED  BY <2>1, <2>2 DEF Rearranges
<1> QED  BY <1>1, <1>2

(* The counters, when no slot is taken or given back. *)
Slotted == {"spawn", "register", "enter"}

LEMMA Shrinks ==
  ASSUME TypeOK, Bounded,
         sessions' \subseteq sessions, jobs' \subseteq jobs,
         Cardinality(retained') <= MaxRetained,
         starting' = starting,
         \A d \in Commands : (step'[d] \in Slotted) = (step[d] \in Slotted)
  PROVE  Bounded'
<1>1. IsFiniteSet(sessions) /\ IsFiniteSet(jobs)
  BY CommandsAssumption, FS_Subset DEF TypeOK
<1>2. /\ Cardinality(sessions') <= Cardinality(sessions)
      /\ Cardinality(jobs') <= Cardinality(jobs)
  BY <1>1, FS_Subset
<1>3. /\ Cardinality(sessions) \in Nat /\ Cardinality(sessions') \in Nat
      /\ Cardinality(jobs) \in Nat /\ Cardinality(jobs') \in Nat
  BY <1>1, FS_Subset, FS_CardinalityType
<1>4. {c \in Commands : step'[c] \in Slotted} = {c \in Commands : step[c] \in Slotted}
  OBVIOUS
<1>5. MaxActive \in Nat /\ MaxRetained \in Nat /\ MaxJobs \in Nat /\ starting \in Nat
  BY LimitsAssumption DEF TypeOK
<1>6. Cardinality(sessions') + starting' <= MaxActive
  BY <1>2, <1>3, <1>5 DEF Bounded
<1>7. Cardinality(jobs') <= MaxJobs
  BY <1>2, <1>3, <1>5 DEF Bounded
<1>8. starting' = Cardinality({c \in Commands : step'[c] \in Slotted})
  BY <1>4 DEF Bounded, Slotted
<1> QED  BY <1>6, <1>7, <1>8 DEF Bounded, Slotted

(* A step of one command that takes and gives back no slot. *)
LEMMA OneCommand ==
  ASSUME ExecInv, TypeOK', NEW c \in Commands,
         sessions' \subseteq sessions, jobs' \subseteq jobs, retained' \subseteq retained,
         closing' \subseteq closing, dying' \subseteq dying,
         starting' = starting, closed' = closed, registry' = registry,
         (step'[c] \in Slotted) = (step[c] \in Slotted),
         Moves(c), \A d \in Commands \ {c} : Same(d)
  PROVE  ExecInv'
<1>1. \A d \in Commands : CommandInv(d)'
  BY MovesKeep, SameKeeps DEF ExecInv
<1>2. Cardinality(retained') <= MaxRetained
  <2>1. IsFiniteSet(retained)
    BY CommandsAssumption, FS_Subset DEF ExecInv, TypeOK
  <2>2. /\ Cardinality(retained') <= Cardinality(retained)
        /\ Cardinality(retained') \in Nat /\ Cardinality(retained) \in Nat
    BY <2>1, FS_Subset, FS_CardinalityType
  <2> QED  BY <2>2, LimitsAssumption DEF ExecInv, Bounded
<1>3. Bounded'
  <2>1. \A d \in Commands : (step'[d] \in Slotted) = (step[d] \in Slotted)
    BY DEF Same
  <2> QED  BY <1>2, <2>1, Shrinks DEF ExecInv
<1>4. Tidy'
  BY DEF ExecInv, Tidy
<1> QED  BY <1>1, <1>3, <1>4 DEF ExecInv

LEMMA Members ==
  ASSUME ExecInv, NEW c \in Commands,
         c \in sessions \cup retained \cup jobs \cup closing \cup dying \cup reapers
           \/ step[c] \notin Unborn \/ watchdog[c] # "none" \/ cmd[c].proc # "none"
  PROVE  step[c] \notin Unborn
BY DEF ExecInv, CommandInv, Unknown

-----------------------------------------------------------------------------
(* Steps that change one record, and no table. *)

(* The record of c becomes r, later than it was. *)
LEMMA RecordChanges ==
  ASSUME ExecInv, TypeOK', NEW c \in Commands, NEW r,
         step[c] \notin Unborn, Later(cmd[c], r), cmd' = [cmd EXCEPT ![c] = r],
         \A d \in Commands \ {c} : step'[d] = step[d] /\ watchdog'[d] = watchdog[d],
         step'[c] = step[c] \/ (step[c] \in Entered /\ step'[c] \in Entered),
         c \in handed' => step'[c] = "done",
         \A d \in Commands \ {c} : (d \in handed') = (d \in handed),
         UNCHANGED <<tables, starting, ends>>
  PROVE  ExecInv'
<1>1. CommandInv(c) /\ cmd[c] \in Command /\ cmd'[c] = r
  BY DEF ExecInv, TypeOK
<1>2. /\ sessions' = sessions /\ retained' = retained /\ jobs' = jobs /\ closing' = closing
      /\ dying' = dying /\ reapers' = reapers /\ closed' = closed /\ registry' = registry
  BY DEF tables, ends
<1>3. \A d \in Commands \ {c} : Same(d)
  BY <1>2 DEF Same, ExecInv, TypeOK
<1>4. Tabled(c) /\ cmd'[c].held => Tabled(c)'
  BY <1>1, <1>2 DEF Tabled, Later
<1>5. Found(c) => Found(c)'
  BY <1>2 DEF Found, Shared
<1>6. Moves(c)
  BY <1>1, <1>2, <1>4, <1>5 DEF Moves, Shared, CommandInv, Later
<1>7. (step'[c] \in Slotted) = (step[c] \in Slotted)
  BY DEF Slotted, Entered
<1> QED  BY <1>2, <1>3, <1>6, <1>7, OneCommand

LEMMA ExpireInv ==
  ASSUME ExecInv, NEW c \in Commands, Expire(c)
  PROVE  ExecInv'
<1>1. PICK r \in TimedOut(cmd[c]) : Becomes(c, r)
  BY DEF Expire
<1>2. TypeOK /\ cmd[c] \in Command /\ CommandInv(c)
  BY DEF ExecInv, TypeOK
<1>3. Later(cmd[c], r) /\ r \in Command
  BY <1>2, TimedOutRecord DEF Later
<1>4. TypeOK'
  BY <1>1, <1>2, <1>3 DEF TypeOK, Expire, Becomes, Goto, Steps, tables, ends, ghosts
<1> QED  BY <1>1, <1>2, <1>3, <1>4, RecordChanges
         DEF Expire, Becomes, Goto, Unborn, Entered, TypeOK, ghosts, CommandInv

LEMMA WatchdogKillsInv ==
  ASSUME ExecInv, NEW c \in Commands, WatchdogKills(c)
  PROVE  ExecInv'
<1>1. PICK r \in TimedOut(cmd[c]) : Becomes(c, r)
  BY DEF WatchdogKills
<1>2. TypeOK /\ cmd[c] \in Command /\ CommandInv(c)
  BY DEF ExecInv, TypeOK
<1>3. Later(cmd[c], r) /\ r \in Command
  BY <1>2, TimedOutRecord DEF Later
<1>4. TypeOK'
  BY <1>1, <1>2, <1>3 DEF TypeOK, WatchdogKills, Becomes, tables, ends, ghosts
<1>5. step[c] \notin Unborn
  BY <1>2 DEF WatchdogKills, CommandInv
<1> QED  BY <1>1, <1>2, <1>3, <1>4, <1>5, RecordChanges
         DEF WatchdogKills, Becomes, TypeOK, ghosts, CommandInv

LEMMA WatchdogWakesInv ==
  ASSUME ExecInv, NEW c \in Commands, WatchdogWakes(c)
  PROVE  ExecInv'
<1>1. TypeOK /\ cmd[c] \in Command /\ CommandInv(c)
  BY DEF ExecInv, TypeOK
<1>2. PICK r : r \in {Settled(cmd[c]), cmd[c]} /\ cmd' = [cmd EXCEPT ![c] = r]
  BY <1>1 DEF WatchdogWakes, Becomes, TypeOK
<1>3. Later(cmd[c], r) /\ r \in Command
  BY <1>1, <1>2, SettledRecord, LaterSelf DEF Later
<1>4. TypeOK'
  BY <1>1, <1>2, <1>3 DEF TypeOK, WatchdogWakes, tables, ends, ghosts
<1>5. step[c] \notin Unborn
  BY <1>1 DEF WatchdogWakes, CommandInv
<1> QED  BY <1>1, <1>2, <1>3, <1>4, <1>5, RecordChanges
         DEF WatchdogWakes, TypeOK, ghosts, CommandInv

(* The process itself, and the clock *)
LEMMA ProcessInv ==
  ASSUME ExecInv, NEW c \in Commands, Exits(c) \/ Sticks(c)
  PROVE  ExecInv'
<1>1. TypeOK /\ cmd[c] \in Command /\ CommandInv(c)
  BY DEF ExecInv, TypeOK
<1>2. PICK r \in Command : Later(cmd[c], r) /\ cmd' = [cmd EXCEPT ![c] = r]
  <2>1. CASE Exits(c)
    <3>1. PICK k \in Codes : Becomes(c, [cmd[c] EXCEPT !.proc = "exited", !.code = k])
      BY <2>1 DEF Exits
    <3>2. [cmd[c] EXCEPT !.proc = "exited", !.code = k] \in Command
      BY <1>1 DEF Command, Codes
    <3>3. Later(cmd[c], [cmd[c] EXCEPT !.proc = "exited", !.code = k])
      BY <1>1, <3>2 DEF Command, Later
    <3> QED  BY <3>1, <3>2, <3>3 DEF Becomes
  <2>2. CASE Sticks(c)
    <3>1. [cmd[c] EXCEPT !.proc = "stuck"] \in Command
      BY <1>1 DEF Command
    <3>2. Later(cmd[c], [cmd[c] EXCEPT !.proc = "stuck"])
      BY <1>1, <2>2, <3>1 DEF Command, Later, Sticks
    <3> QED  BY <2>2, <3>1, <3>2 DEF Becomes, Sticks
  <2> QED  BY <2>1, <2>2
<1>3. UNCHANGED <<step, watchdog, starting, tables, ends, client, ghosts>>
  BY DEF Exits, Sticks
<1>0. faults' \in 0..MaxFaults
  <2>1. faults \in 0..MaxFaults
    BY <1>1 DEF TypeOK
  <2>2. faults' = faults \/ (faults < MaxFaults /\ faults' = faults + 1)
    BY DEF Exits, Sticks, Failing
  <2> QED  BY <2>1, <2>2, LimitsAssumption
<1>4. TypeOK'
  BY <1>1, <1>2, <1>3, <1>0 DEF TypeOK, tables, ends, ghosts
<1>5. step[c] \notin Unborn
  BY <1>1 DEF Exits, Sticks, CommandInv, Alive
<1> QED  BY <1>1, <1>2, <1>3, <1>4, <1>5, RecordChanges DEF ghosts, CommandInv

LEMMA DeadlineInv ==
  ASSUME ExecInv, NEW c \in Commands, Deadline(c)
  PROVE  ExecInv'
<1>1. TypeOK /\ cmd[c] \in Command /\ CommandInv(c)
  BY DEF ExecInv, TypeOK
<1> DEFINE r == [cmd[c] EXCEPT !.due = TRUE]
<1>2. /\ r \in Command /\ r.proc = cmd[c].proc /\ r.timedOut = cmd[c].timedOut
      /\ r.held = cmd[c].held
  BY <1>1 DEF Command
<1>3. cmd' = [cmd EXCEPT ![c] = r]
  BY DEF Deadline, Becomes
<1> HIDE DEF r
<1>4. Later(cmd[c], r)
  BY <1>2 DEF Later
<1>5. TypeOK'
  BY <1>1, <1>2, <1>3 DEF TypeOK, Deadline, tables, ends, ghosts
<1>6. CASE step[c] \notin Unborn
  BY <1>1, <1>3, <1>4, <1>5, <1>6, RecordChanges DEF Deadline, ghosts, CommandInv
<1>7. CASE step[c] \in Unborn
  <2>1. Unknown(c)' /\ Shared' = Shared
    BY <1>1, <1>7 DEF CommandInv, Unknown, Shared, Deadline, tables, ends, ghosts
  <2>2. Moves(c)
    BY <1>1, <1>2, <1>3, <1>7, <2>1 DEF Moves, Deadline, CommandInv, TypeOK, ghosts
  <2>3. \A d \in Commands \ {c} : Same(d)
    BY <1>1, <1>3 DEF Same, TypeOK, Deadline, tables, ends, ghosts
  <2> QED  BY <1>5, <2>2, <2>3, OneCommand DEF Deadline, tables, ends
<1> QED  BY <1>6, <1>7

LEMMA WatchInv ==
  ASSUME ExecInv, NEW c \in Commands, Watch(c) \/ WaitEnds(c)
  PROVE  ExecInv'
<1>1. TypeOK /\ cmd[c] \in Command /\ CommandInv(c)
  BY DEF ExecInv, TypeOK
<1>2. cmd' = [cmd EXCEPT ![c] = cmd[c]] /\ Later(cmd[c], cmd[c])
  BY <1>1, LaterSelf DEF Watch, WaitEnds, TypeOK
<1>3. /\ step[c] \in Entered \ {"done"}
      /\ \E s \in {"wait", "finish", "expire"} : step' = [step EXCEPT ![c] = s]
      /\ \A d \in Commands \ {c} : watchdog'[d] = watchdog[d]
      /\ watchdog' \in [Commands -> {"none", "waiting", "decided", "over"}]
      /\ UNCHANGED <<cmd, starting, tables, ends, client, ghosts, faults>>
  BY <1>1 DEF Watch, WaitEnds, Goto, Entered, TypeOK
<1>4. TypeOK'
  <2>1. step' \in [Commands -> Steps]
    BY <1>1, <1>3 DEF TypeOK, Steps
  <2> QED  BY <1>1, <1>3, <2>1 DEF TypeOK, tables, ends, ghosts
<1>5. c \notin handed'
  BY <1>1, <1>3 DEF CommandInv, ghosts, Entered
<1> QED  BY <1>1, <1>2, <1>3, <1>4, <1>5, RecordChanges
         DEF Unborn, Entered, ghosts, TypeOK

(* job_status and read_output refresh the record of a command they find. *)
LEMMA LooksInv ==
  ASSUME ExecInv, NEW c \in Commands, JobStatus(c) \/ ReadOutput(c)
  PROVE  ExecInv'
<1>1. TypeOK /\ cmd[c] \in Command /\ CommandInv(c)
  BY DEF ExecInv, TypeOK
<1>2. PICK r \in Refreshed(cmd[c]) : Becomes(c, r)
  BY DEF JobStatus, ReadOutput
<1>3. Later(cmd[c], r) /\ r \in Command
  BY <1>1, RefreshedRecord DEF Later
<1>4. /\ c \in sessions \cup retained \cup jobs /\ client' = NoClient
      /\ UNCHANGED <<step, watchdog, starting, tables, ends, handed, faults>>
  BY DEF JobStatus, ReadOutput, Acts, tables
<1>5. verdicts' \in [Commands -> SUBSET BOOLEAN]
  <2>1. CASE ReadOutput(c)
    BY <1>1, <2>1 DEF ReadOutput, TypeOK
  <2>2. CASE JobStatus(c)
    <3>1. PICK q : Report(c, IF Alive(q) THEN {} ELSE {q.code = "zero"})
      BY <2>2 DEF JobStatus
    <3>2. (IF Alive(q) THEN {} ELSE {q.code = "zero"}) \subseteq BOOLEAN
      OBVIOUS
    <3> QED  BY <1>1, <3>1, <3>2 DEF Report, TypeOK
  <2> QED  BY <2>1, <2>2
<1>6. TypeOK'
  BY <1>1, <1>2, <1>3, <1>4, <1>5 DEF TypeOK, Becomes, NoClient, tables, ends
<1>7. step[c] \notin Unborn
  BY <1>4, Members
<1> QED  BY <1>1, <1>2, <1>3, <1>4, <1>6, <1>7, RecordChanges DEF Becomes, CommandInv

(* Steps that only change the call on a session id *)
LEMMA ClientInv ==
  ASSUME ExecInv, NotFound \/ \E c \in Commands, t \in Tools : BeginClient(t, c)
  PROVE  ExecInv'
<1>1. /\ UNCHANGED <<cmd, step, watchdog, starting, tables, ends, ghosts, faults>>
      /\ client' \in [step : {"idle", "prune", "act"}, tool : Tools \cup {None},
                      on : Commands \cup {None}]
  BY DEF NotFound, BeginClient, NoClient
<1>2. TypeOK'
  BY <1>1 DEF ExecInv, TypeOK, tables, ends, ghosts
<1>3. Bounded' /\ Tidy'
  BY <1>1 DEF ExecInv, Bounded, Tidy, tables, ends
<1>4. \A d \in Commands : CommandInv(d)'
  BY <1>1, SameKeeps DEF ExecInv, Same, tables, ends, ghosts
<1> QED  BY <1>2, <1>3, <1>4 DEF ExecInv

-----------------------------------------------------------------------------
(* Steps that end a command, or find it ended *)

LEMMA CommandEnds ==
  ASSUME ExecInv, TypeOK', NEW c \in Commands, NEW r,
         step[c] \notin Unborn, cmd' = [cmd EXCEPT ![c] = r],
         Later(cmd[c], r), r.proc # "running", r.held => Tabled(c)',
         sessions' \subseteq sessions, jobs' \subseteq jobs, retained' \subseteq retained,
         closing' \subseteq closing, dying' \subseteq dying,
         step'[c] = step[c] \/ (step[c] \in Entered /\ step'[c] = "done"),
         handed' = handed, starting' = starting, closed' = closed, registry' = registry,
         \A d \in Commands \ {c} : Same(d)
  PROVE  ExecInv'
<1>1. CommandInv(c) /\ cmd[c] \in Command /\ cmd'[c] = r
  BY DEF ExecInv, TypeOK
<1>2. (step'[c] \in Slotted) = (step[c] \in Slotted)
  BY DEF Slotted, Entered
<1>3. c \in handed => step'[c] = "done"
  BY <1>1 DEF CommandInv
<1>4. Moves(c)
  BY <1>1, <1>3 DEF Moves, Shared, Entered
<1> QED  BY <1>2, <1>4, OneCommand

LEMMA RetentionEndsInv ==
  ASSUME ExecInv, NEW c \in Commands, RetentionEnds(c)
  PROVE  ExecInv'
<1>1. TypeOK /\ cmd[c] \in Command /\ CommandInv(c)
  BY DEF ExecInv, TypeOK
<1>2. c \in retained /\ cmd[c].proc # "running" /\ step[c] \notin Unborn
  BY <1>1, Members DEF RetentionEnds, CommandInv
<1>3. /\ Later(cmd[c], Freed(cmd[c])) /\ Freed(cmd[c]).proc # "running"
      /\ ~Freed(cmd[c]).held /\ Freed(cmd[c]) \in Command
  BY <1>1, <1>2, LaterSelf, LaterFreed, FreedRecord
<1>4. TypeOK'
  BY <1>1, <1>3 DEF TypeOK, RetentionEnds, Becomes, ends, ghosts
<1>5. \A d \in Commands \ {c} : Same(d)
  BY <1>1 DEF Same, RetentionEnds, Becomes, ends, ghosts, TypeOK
<1> QED  BY <1>2, <1>3, <1>4, <1>5, CommandEnds DEF RetentionEnds, Becomes, ends, ghosts

LEMMA ReapInv ==
  ASSUME ExecInv, NEW c \in Commands, Reap(c)
  PROVE  ExecInv'
<1>1. TypeOK /\ cmd[c] \in Command /\ CommandInv(c)
  BY DEF ExecInv, TypeOK
<1>2. cmd[c].proc # "running" /\ step[c] \notin Unborn
  BY <1>1, Members DEF Reap
<1>3. /\ Later(cmd[c], Freed(cmd[c])) /\ Freed(cmd[c]).proc # "running"
      /\ ~Freed(cmd[c]).held /\ Freed(cmd[c]) \in Command
  BY <1>1, <1>2, LaterSelf, LaterFreed, FreedRecord
<1>4. TypeOK'
  BY <1>1, <1>3 DEF TypeOK, Reap, Becomes, ghosts
<1>5. \A d \in Commands \ {c} : Same(d)
  BY <1>1 DEF Same, Reap, Becomes, ghosts, TypeOK
<1> QED  BY <1>2, <1>3, <1>4, <1>5, CommandEnds DEF Reap, Becomes, ghosts

LEMMA PruneJobInv ==
  ASSUME ExecInv, NEW c \in Commands, NEW expired \in BOOLEAN, PruneJob(c, expired)
  PROVE  ExecInv'
<1>1. TypeOK /\ cmd[c] \in Command /\ CommandInv(c)
  BY DEF ExecInv, TypeOK
<1>2. PICK r \in Refreshed(cmd[c]) :
        IF expired
          THEN ~Alive(r) /\ Becomes(c, Freed(r)) /\ jobs' = jobs \ {c}
          ELSE Becomes(c, r) /\ UNCHANGED jobs
  BY DEF PruneJob
<1>3. Later(cmd[c], r) /\ r \in Command
  BY <1>1, RefreshedRecord DEF Later
<1>4. step[c] \notin Unborn
  BY Members DEF PruneJob
<1>5. CASE expired
  <2>1. r.proc # "running"
    BY <1>2, <1>5 DEF Alive
  <2>2. /\ Later(cmd[c], Freed(r)) /\ Freed(r).proc # "running"
        /\ ~Freed(r).held /\ Freed(r) \in Command
    BY <1>1, <1>3, <2>1, LaterFreed, FreedRecord
  <2>3. TypeOK'
    BY <1>1, <1>2, <1>5, <2>2 DEF TypeOK, PruneJob, Becomes, ends, ghosts
  <2>4. \A d \in Commands \ {c} : Same(d)
    BY <1>1, <1>2, <1>5 DEF Same, PruneJob, Becomes, ends, ghosts, TypeOK
  <2> QED  BY <1>2, <1>4, <1>5, <2>2, <2>3, <2>4, CommandEnds DEF PruneJob, Becomes, ends, ghosts
<1>6. CASE ~expired
  <2>1. TypeOK'
    BY <1>1, <1>2, <1>3, <1>6 DEF TypeOK, PruneJob, Becomes, ends, ghosts
  <2> QED  BY <1>1, <1>2, <1>3, <1>4, <1>6, <2>1, RecordChanges
           DEF PruneJob, Becomes, CommandInv, ghosts, tables
<1> QED  BY <1>5, <1>6

(* What is left of a command after _terminate_session: nothing, or a       *)
(* process that will not die.                                              *)
LEMMA TerminatedCommand ==
  ASSUME ExecInv, NEW c \in Commands, step[c] \notin Unborn, NEW r \in Terminated(cmd[c])
  PROVE  /\ r \in Command /\ Later(cmd[c], r) /\ r.proc # "running"
         /\ ~Alive(r) => ~r.held
<1>1. cmd[c] \in Command /\ CommandInv(c)
  BY DEF ExecInv, TypeOK
<1>2. Later(cmd[c], r) /\ r.proc # "running" /\ (r.proc = "exited" => ~r.held)
  BY <1>1, TerminatedRecord
<1>3. r \in Command /\ (r.held => r.proc # "none")
  BY <1>1, <1>2 DEF Later, CommandInv
<1>4. r.proc \in {"none", "running", "stuck", "exited"}
  BY <1>3 DEF Command
<1> QED  BY <1>2, <1>3, <1>4 DEF Alive

(* A cancelled request, or a call whose threads cannot be started *)
LEMMA CancelInv ==
  ASSUME ExecInv, NEW c \in Commands, CancelSession(c), step[c] \in Entered,
         step' = step \/ step' = [step EXCEPT ![c] = "done"],
         watchdog' \in {watchdog, [watchdog EXCEPT ![c] = "waiting"]},
         faults' \in 0..MaxFaults,
         UNCHANGED <<starting, retained, closed, closing, registry, dying, client, ghosts>>
  PROVE  ExecInv'
<1>1. TypeOK /\ cmd[c] \in Command /\ CommandInv(c)
  BY DEF ExecInv, TypeOK
<1>2. step[c] \notin Unborn
  BY DEF Unborn, Entered
<1>3. /\ step' \in [Commands -> Steps] /\ step'[c] \in {step[c], "done"}
      /\ watchdog' \in [Commands -> {"none", "waiting", "decided", "over"}]
      /\ \A d \in Commands \ {c} : step'[d] = step[d] /\ watchdog'[d] = watchdog[d]
  BY <1>1 DEF TypeOK, Steps
<1>4. CASE c \notin sessions \cup jobs
  <2>1. UNCHANGED <<cmd, sessions, jobs, reapers>>
    BY <1>4 DEF CancelSession
  <2>2. TypeOK'
    BY <1>1, <1>3, <2>1 DEF TypeOK, ghosts
  <2>3. cmd' = [cmd EXCEPT ![c] = cmd[c]] /\ Later(cmd[c], cmd[c])
    BY <1>1, <2>1, LaterSelf DEF TypeOK
  <2> QED  BY <1>1, <1>2, <1>3, <2>1, <2>2, <2>3, RecordChanges
           DEF tables, ends, ghosts, Entered, CommandInv
<1>5. CASE c \in sessions \cup jobs
  <2>1. PICK r \in Terminated(cmd[c]) :
          /\ Becomes(c, r)
          /\ IF Alive(r)
               THEN reapers' = reapers \cup {c} /\ UNCHANGED <<sessions, jobs>>
               ELSE sessions' = sessions \ {c} /\ jobs' = jobs \ {c} /\ UNCHANGED reapers
    BY <1>5 DEF CancelSession
  <2>2. /\ r \in Command /\ Later(cmd[c], r) /\ r.proc # "running"
        /\ ~Alive(r) => ~r.held
    BY <1>2, TerminatedCommand
  <2>3. TypeOK'
    BY <1>1, <1>3, <2>1, <2>2 DEF TypeOK, ghosts, Becomes
  <2>4. \A d \in Commands \ {c} : Same(d)
    BY <1>1, <1>3, <2>1 DEF Same, Becomes, ghosts, TypeOK
  <2>5. r.held => Tabled(c)'
    BY <2>1, <2>2 DEF Tabled
  <2> QED  BY <1>2, <1>3, <2>1, <2>2, <2>3, <2>4, <2>5, CommandEnds DEF Becomes, ghosts, Entered
<1> QED  BY <1>4, <1>5

LEMMA CancelsInv ==
  ASSUME ExecInv, NEW c \in Commands, WatchFails(c) \/ CancelRequest(c)
  PROVE  ExecInv'
<1>1. faults \in 0..MaxFaults
  BY DEF ExecInv, TypeOK
<1>2. CASE WatchFails(c)
  <2>1. faults' \in 0..MaxFaults
    BY <1>1, <1>2, LimitsAssumption DEF WatchFails, Failing
  <2> QED  BY <1>2, <2>1, CancelInv DEF WatchFails, Goto, Entered
<1>3. CASE CancelRequest(c)
  BY <1>1, <1>3, CancelInv DEF CancelRequest, Entered
<1> QED  BY <1>2, <1>3

-----------------------------------------------------------------------------
(* The end of a Runtime and of the registry *)

LEMMA CloseOneInv ==
  ASSUME ExecInv, NEW c \in Commands, CloseOne(c)
  PROVE  ExecInv'
<1>1. TypeOK /\ cmd[c] \in Command /\ CommandInv(c)
  BY DEF ExecInv, TypeOK
<1>2. step[c] \notin Unborn
  BY Members DEF CloseOne
<1>3. CASE c \in jobs
  <2>1. UNCHANGED <<cmd, step, watchdog, starting, tables, reapers, closed, registry, dying,
                    client, ghosts, faults>> /\ closing' = closing \ {c}
    BY <1>3 DEF CloseOne
  <2>2. TypeOK'
    BY <1>1, <2>1 DEF TypeOK, tables, ghosts
  <2>3. \A d \in Commands \ {c} : Same(d)
    BY <2>1 DEF Same, tables, ghosts
  <2>4. Tabled(c)' /\ (Found(c) => Found(c)') /\ Shared' = Shared
    BY <1>3, <2>1 DEF Tabled, Found, Shared, tables
  <2>5. Moves(c)
    BY <1>1, <1>2, <2>1, <2>4, LaterSelf DEF Moves, CommandInv, tables, ghosts
  <2> QED  BY <2>1, <2>2, <2>3, <2>5, OneCommand DEF tables
<1>4. CASE c \notin jobs
  <2>1. PICK r \in Terminated(cmd[c]) :
          Becomes(c, r) /\ reapers' = IF Alive(r) THEN reapers \cup {c} ELSE reapers
    BY <1>4 DEF CloseOne
  <2>2. /\ r \in Command /\ Later(cmd[c], r) /\ r.proc # "running"
        /\ ~Alive(r) => ~r.held
    BY <1>2, TerminatedCommand
  <2>3. TypeOK'
    BY <1>1, <2>1, <2>2 DEF TypeOK, CloseOne, tables, ghosts, Becomes
  <2>4. \A d \in Commands \ {c} : Same(d)
    BY <1>1, <2>1 DEF Same, CloseOne, Becomes, tables, ghosts, TypeOK
  <2>5. r.held => Tabled(c)'
    BY <2>1, <2>2 DEF Tabled
  <2> QED  BY <1>2, <2>1, <2>2, <2>3, <2>4, <2>5, CommandEnds
           DEF CloseOne, Becomes, tables, ghosts
<1> QED  BY <1>3, <1>4

LEMMA RegistryCloseOneInv ==
  ASSUME ExecInv, NEW c \in Commands, RegistryCloseOne(c)
  PROVE  ExecInv'
<1>1. TypeOK /\ cmd[c] \in Command /\ CommandInv(c)
  BY DEF ExecInv, TypeOK
<1>2. step[c] \notin Unborn
  BY Members DEF RegistryCloseOne
<1>3. PICK r \in Signalled(cmd[c]) : Becomes(c, Freed(r))
  BY DEF RegistryCloseOne
<1>4. Later(cmd[c], r) /\ r \in Command /\ r.proc # "running"
  BY <1>1, SignalledRecord DEF Later
<1>5. /\ Later(cmd[c], Freed(r)) /\ Freed(r).proc # "running"
      /\ ~Freed(r).held /\ Freed(r) \in Command
  BY <1>1, <1>4, LaterFreed, FreedRecord
<1>6. TypeOK'
  BY <1>1, <1>3, <1>5 DEF TypeOK, RegistryCloseOne, Becomes, tables, ghosts
<1>7. \A d \in Commands \ {c} : Same(d)
  BY <1>1, <1>3 DEF Same, RegistryCloseOne, Becomes, tables, ghosts, TypeOK
<1> QED  BY <1>2, <1>3, <1>5, <1>6, <1>7, CommandEnds
         DEF RegistryCloseOne, Becomes, tables, ghosts

LEMMA RegistryCloseInv ==
  ASSUME ExecInv, RegistryClose
  PROVE  ExecInv'
<1>1. TypeOK /\ TypeOK'
  BY DEF ExecInv, TypeOK, RegistryClose, ghosts
<1>2. Bounded'
  <2>1. Cardinality(retained') <= MaxRetained
    BY DEF ExecInv, Bounded, RegistryClose
  <2> QED  BY <1>1, <2>1, Shrinks DEF ExecInv, RegistryClose
<1>3. ASSUME NEW d \in Commands PROVE CommandInv(d)'
  <2>1. cmd[d] \in Command /\ CommandInv(d)
    BY <1>1 DEF ExecInv, TypeOK
  <2>2. Shared' = Shared
    BY DEF RegistryClose, Shared
  <2>3. Unknown(d) => Unknown(d)'
    BY DEF Unknown, RegistryClose, ghosts
  <2>4. (Tabled(d) => Tabled(d)') /\ (Found(d) => Found(d)')
    BY <2>2 DEF Tabled, Found, RegistryClose, Shared, ExecInv, Tidy
  <2>5. Moves(d)
    BY <2>1, <2>2, <2>3, <2>4, LaterSelf DEF Moves, CommandInv, RegistryClose, ghosts
  <2> QED  BY <1>1, <2>1, <2>5, MovesKeep
<1> QED  BY <1>1, <1>2, <1>3 DEF ExecInv, Tidy, RegistryClose

LEMMA CloseInv ==
  ASSUME ExecInv, Close
  PROVE  ExecInv'
<1>1. TypeOK /\ \A d \in Commands : cmd[d] \in Command /\ Freed(cmd[d]) \in Command
  BY FreedRecord DEF ExecInv, TypeOK
<1>2. TypeOK'
  <2>1. cmd' \in [Commands -> Command]
    BY <1>1 DEF Close
  <2> QED  BY <1>1, <2>1 DEF TypeOK, Close, ghosts
<1>3. Bounded'
  <2>1. Cardinality(retained') <= MaxRetained
    BY FS_EmptySet, LimitsAssumption DEF Close
  <2> QED  BY <1>1, <2>1, Shrinks DEF ExecInv, Close
<1>4. ASSUME NEW d \in Commands PROVE CommandInv(d)'
  <2>1. cmd[d] \in Command /\ CommandInv(d)
    BY <1>1 DEF ExecInv
  <2>2. cmd'[d] = IF d \in retained THEN Freed(cmd[d]) ELSE cmd[d]
    BY DEF Close
  <2>3. d \in retained => cmd[d].proc # "running" /\ step[d] \notin Unborn
    BY <2>1, Members DEF CommandInv
  <2>4. Later(cmd[d], cmd'[d])
    BY <2>1, <2>2, <2>3, LaterSelf, LaterFreed
  <2>5. Shared' = Shared
    BY DEF Close, Shared
  <2>6. Unknown(d) => Unknown(d)'
    BY DEF Unknown, Close, ghosts
  <2>7. Tabled(d) /\ cmd'[d].held => Tabled(d)'
    BY <2>1, <2>2, <2>4, FreedRecord DEF Tabled, Close, Later, ExecInv, Tidy
  <2>8. Found(d) => Found(d)'
    BY <2>5 DEF Found, Close
  <2>9. Moves(d)
    BY <2>1, <2>2, <2>3, <2>4, <2>5, <2>6, <2>7, <2>8 DEF Moves, CommandInv, Close, ghosts
  <2> QED  BY <1>1, <2>1, <2>9, MovesKeep
<1> QED  BY <1>2, <1>3, <1>4 DEF ExecInv, Tidy, Close

-----------------------------------------------------------------------------
(* Steps that rearrange the session tables *)

LEMMA RearrangedInv ==
  ASSUME ExecInv, TypeOK', NEW S \in SUBSET Commands, NEW update, Updates(update),
         \A d \in S : step[d] \notin Unborn /\ update[d].proc # "running",
         Rearranges(S, update),
         sessions' \subseteq sessions,
         \A d \in sessions \ sessions' : d \in S /\ ~Alive(update[d]),
         Elsewhere, starting' = starting, \A d \in Commands : Walks(d),
         \A d \in Commands : (step'[d] \in Slotted) = (step[d] \in Slotted)
  PROVE  ExecInv'
<1>1. \A d \in Commands : CommandInv(d)'
  BY RearrangedKeep
<1>2. Bounded'
  BY Shrinks DEF ExecInv, Rearranges, Elsewhere
<1> QED  BY <1>1, <1>2 DEF ExecInv, Tidy, Elsewhere

(* _prune_sessions, by a call that starts a command or one that uses it *)
LEMMA PruneSessionsInv ==
  ASSUME ExecInv, PruneSessions,
         step' \in [Commands -> Steps], \A d \in Commands : Walks(d),
         \A d \in Commands : (step'[d] \in Slotted) = (step[d] \in Slotted),
         client' \in [step : {"idle", "prune", "act"}, tool : Tools \cup {None},
                      on : Commands \cup {None}],
         UNCHANGED <<watchdog, starting, ends, ghosts, faults>>
  PROVE  ExecInv'
<1>1. PICK new \in [sessions -> UNION {Refreshed(cmd[d]) : d \in sessions}] :
        /\ \A d \in sessions : new[d] \in Refreshed(cmd[d])
        /\ Complete({d \in sessions : new[d].proc = "exited"},
                    [d \in Commands |-> IF d \in sessions THEN new[d] ELSE cmd[d]])
  BY DEF PruneSessions
<1> DEFINE update == [d \in Commands |-> IF d \in sessions THEN new[d] ELSE cmd[d]]
           S == {d \in sessions : new[d].proc = "exited"}
<1>2. TypeOK /\ sessions \subseteq Commands /\ \A d \in Commands : cmd[d] \in Command
  BY DEF ExecInv, TypeOK
<1>3. \A d \in sessions : Later(cmd[d], new[d]) /\ new[d] \in Command
  BY <1>1, <1>2, RefreshedRecord DEF Later
<1>4. update \in [Commands -> Command]
  BY <1>2, <1>3
<1>5. \A d \in sessions : step[d] \notin Unborn
  BY <1>2, Members
<1>6. Updates(update)
  BY <1>2, <1>3, <1>4, <1>5, LaterSelf DEF Updates
<1>7. /\ S \in SUBSET Commands /\ S \subseteq sessions
      /\ \A d \in S : step[d] \notin Unborn /\ update[d].proc = "exited"
  BY <1>2, <1>5
<1>8. Complete(S, update)
  BY <1>1
<1> HIDE DEF update, S
<1>9. Rearranges(S, update) /\ sessions' = sessions \ S
  BY <1>2, <1>4, <1>7, <1>8, Completes DEF ExecInv
<1>10. Elsewhere
  BY DEF Elsewhere, PruneSessions, ends
<1>11. TypeOK'
  BY <1>2, <1>7, <1>9 DEF TypeOK, Rearranges, PruneSessions, ends, ghosts
<1> QED  BY <1>6, <1>7, <1>9, <1>10, <1>11, RearrangedInv DEF Alive

LEMMA PruneFirstInv ==
  ASSUME ExecInv, NEW c \in Commands, PruneFirst(c)
  PROVE  ExecInv'
<1>1. TypeOK /\ CommandInv(c) /\ \A d \in Commands : CommandInv(d)
  BY DEF ExecInv
<1>2. step' = [step EXCEPT ![c] = "reserve"] /\ step[c] = "prune"
  BY DEF PruneFirst, Goto
<1>3. step' \in [Commands -> Steps]
  BY <1>1, <1>2 DEF TypeOK, Steps
<1>4. \A d \in Commands : Walks(d)
  BY <1>1, <1>2 DEF Walks, PruneFirst, ghosts, CommandInv, Unborn, TypeOK
<1>5. \A d \in Commands : (step'[d] \in Slotted) = (step[d] \in Slotted)
  BY <1>1, <1>2 DEF Slotted, TypeOK
<1> QED  BY <1>1, <1>3, <1>4, <1>5, PruneSessionsInv DEF PruneFirst, TypeOK

LEMMA ClientPruneInv ==
  ASSUME ExecInv, ClientPrune
  PROVE  ExecInv'
<1>1. TypeOK /\ \A d \in Commands : CommandInv(d)
  BY DEF ExecInv
<1>2. \A d \in Commands : Walks(d)
  BY <1>1 DEF Walks, ClientPrune, ghosts, CommandInv
<1>3. client' \in [step : {"idle", "prune", "act"}, tool : Tools \cup {None},
                   on : Commands \cup {None}]
  BY <1>1 DEF ClientPrune, TypeOK
<1> QED  BY <1>1, <1>2, <1>3, PruneSessionsInv DEF ClientPrune, TypeOK

(* The record of c becomes q, and the tables are settled. *)
LEMMA SettlesInv ==
  ASSUME ExecInv, NEW c \in Commands, NEW q, Later(cmd[c], q),
         NEW terminal \in BOOLEAN, Settle(c, q, terminal), terminal => q.proc # "running",
         step[c] \notin Unborn,
         step' = step \/ (step[c] = "finish" /\ step' = [step EXCEPT ![c] = "done"]),
         handed' = handed \/ (handed' = handed \cup {c} /\ step'[c] = "done"),
         verdicts' \in [Commands -> SUBSET BOOLEAN],
         client' \in [step : {"idle", "prune", "act"}, tool : Tools \cup {None},
                      on : Commands \cup {None}],
         UNCHANGED <<watchdog, starting, jobs, ends, faults>>
  PROVE  ExecInv'
<1> DEFINE update == [cmd EXCEPT ![c] = q]
<1>1. TypeOK /\ \A d \in Commands : CommandInv(d) /\ cmd[d] \in Command
  BY DEF ExecInv, TypeOK
<1>2. q \in Command /\ update \in [Commands -> Command] /\ update[c] = q
  BY <1>1 DEF Later, TypeOK
<1>3. Updates(update)
  BY <1>1, <1>2, LaterSelf DEF Updates, TypeOK
<1>4. step' \in [Commands -> Steps] /\ handed' \subseteq Commands
  BY <1>1 DEF TypeOK, Steps
<1>5. \A d \in Commands : Walks(d)
  BY <1>1 DEF Walks, CommandInv, Entered, TypeOK
<1>6. \A d \in Commands : (step'[d] \in Slotted) = (step[d] \in Slotted)
  BY <1>1 DEF Slotted, TypeOK
<1>7. Elsewhere
  BY DEF Elsewhere, ends
<1> HIDE DEF update
<1>8. CASE ~Alive(q) /\ \/ Complete({c}, update)
                        \/ Remember({c}, update) /\ sessions' = sessions \ {c}
  <2>1. Rearranges({c}, update) /\ sessions' = sessions \ {c}
    BY <1>1, <1>2, <1>8, Completes, Remembers DEF ExecInv
  <2>2. TypeOK'
    BY <1>1, <1>4, <2>1 DEF TypeOK, Rearranges, ends
  <2>3. q.proc # "running"
    BY <1>8 DEF Alive
  <2> QED  BY <1>2, <1>3, <1>5, <1>6, <1>7, <1>8, <2>1, <2>2, <2>3, RearrangedInv
<1>9. CASE Alive(q) /\ cmd' = update /\ UNCHANGED <<sessions, retained>>
  <2>1. TypeOK'
    BY <1>1, <1>2, <1>4, <1>9 DEF TypeOK, ends
  <2>2. /\ \A d \in Commands \ {c} : step'[d] = step[d] /\ (d \in handed') = (d \in handed)
        /\ step'[c] = step[c] \/ (step[c] \in Entered /\ step'[c] \in Entered)
        /\ c \in handed' => step'[c] = "done"
    BY <1>1, <1>5 DEF Entered, TypeOK, Walks
  <2> QED  BY <1>1, <1>9, <2>1, <2>2, RecordChanges DEF tables, update
<1>10. CASE Alive(q) /\ q.proc # "running" /\ Remember({c}, update) /\ UNCHANGED sessions
  <2>1. Rearranges({c}, update)
    BY <1>1, <1>2, <1>10, Remembers
  <2>2. TypeOK'
    BY <1>1, <1>4, <1>10, <2>1 DEF TypeOK, Rearranges, ends
  <2> QED  BY <1>2, <1>3, <1>5, <1>6, <1>7, <1>10, <2>1, <2>2, RearrangedInv
<1> QED  BY <1>8, <1>9, <1>10 DEF Settle, update

LEMMA FinishInv ==
  ASSUME ExecInv, NEW c \in Commands, Finish(c)
  PROVE  ExecInv'
<1>1. TypeOK /\ CommandInv(c) /\ cmd[c] \in Command
  BY DEF ExecInv, TypeOK
<1>2. PICK r \in Refreshed(cmd[c]) :
        LET q == IF r.mode = "apply" /\ Verdict(r) # {} THEN Freed(r) ELSE r
        IN  /\ Report(c, Verdict(r))
            /\ handed' = IF Verdict(r) = {} THEN handed \cup {c} ELSE handed
            /\ Settle(c, q, q.timedOut)
  BY DEF Finish
<1> DEFINE q == IF r.mode = "apply" /\ Verdict(r) # {} THEN Freed(r) ELSE r
<1>3. Later(cmd[c], r) /\ r \in Command
  BY <1>1, RefreshedRecord DEF Later
<1>4. r.timedOut => r.proc # "running"
  BY <1>1, <1>3 DEF Later, CommandInv
<1>5. Verdict(r) \in SUBSET BOOLEAN /\ (Verdict(r) # {} => r.proc # "running")
  BY <1>3, <1>4, VerdictRecord DEF Alive
<1>6. Later(cmd[c], q) /\ (q.timedOut => q.proc # "running")
  BY <1>1, <1>3, <1>4, <1>5, LaterFreed, FreedRecord
<1>7. Settle(c, q, q.timedOut) /\ q.timedOut \in BOOLEAN
  BY <1>2, <1>6 DEF Later, Command
<1> HIDE DEF q
<1>8. step[c] = "finish" /\ step' = [step EXCEPT ![c] = "done"] /\ step'[c] = "done"
  BY <1>1 DEF Finish, Goto, TypeOK
<1>9. step[c] \notin Unborn
  BY <1>8 DEF Unborn
<1>10. verdicts' \in [Commands -> SUBSET BOOLEAN]
  BY <1>1, <1>2, <1>5 DEF TypeOK, Report
<1>11. handed' = handed \/ (handed' = handed \cup {c} /\ step'[c] = "done")
  BY <1>2, <1>8
<1> QED  BY <1>1, <1>6, <1>7, <1>8, <1>9, <1>10, <1>11, SettlesInv DEF Finish, TypeOK

LEMMA FinishFailsInv ==
  ASSUME ExecInv, NEW c \in Commands, FinishFails(c)
  PROVE  ExecInv'
<1>1. TypeOK /\ CommandInv(c) /\ cmd[c] \in Command
  BY DEF ExecInv, TypeOK
<1>2. PICK r \in Refreshed(cmd[c]) :
       /\ Verdict(r) # {}
       /\ IF r.held /\ ~Alive(r)
            THEN Complete({c}, [cmd EXCEPT ![c] = Freed(r)])
            ELSE Becomes(c, Freed(r)) /\ UNCHANGED <<sessions, retained>>
  BY DEF FinishFails
<1>3. Later(cmd[c], r) /\ r \in Command
  BY <1>1, RefreshedRecord DEF Later
<1>4. r.proc # "running"
  BY <1>1, <1>2, <1>3, VerdictRecord DEF Later, CommandInv, Alive
<1>5. /\ Later(cmd[c], Freed(r)) /\ Freed(r).proc # "running" /\ Freed(r) \in Command
      /\ ~Freed(r).held /\ Alive(Freed(r)) = Alive(r)
  BY <1>1, <1>3, <1>4, LaterFreed, FreedRecord DEF Alive
<1>6. step[c] = "finish" /\ step' = [step EXCEPT ![c] = "done"] /\ step'[c] = "done"
  BY <1>1 DEF FinishFails, Goto, TypeOK
<1>7. step[c] \notin Unborn
  BY <1>6 DEF Unborn
<1>8. CASE r.held /\ ~Alive(r)
  <2>1. Settle(c, Freed(r), FALSE)
    BY <1>2, <1>5, <1>8 DEF Settle
  <2> QED  BY <1>1, <1>5, <1>6, <1>7, <2>1, SettlesInv DEF FinishFails, ghosts, TypeOK
<1>9. CASE ~(r.held /\ ~Alive(r))
  <2>1. cmd' = [cmd EXCEPT ![c] = Freed(r)] /\ UNCHANGED <<sessions, retained>>
    BY <1>2, <1>9 DEF Becomes
  <2>2. TypeOK'
    BY <1>1, <1>5, <1>6, <2>1 DEF TypeOK, Steps, FinishFails, ends, ghosts
  <2>3. \A d \in Commands \ {c} : Same(d)
    BY <1>1, <1>6, <2>1 DEF Same, FinishFails, ends, ghosts, TypeOK
  <2> QED  BY <1>5, <1>6, <1>7, <2>1, <2>2, <2>3, CommandEnds
           DEF FinishFails, ends, ghosts, Entered
<1> QED  BY <1>8, <1>9

LEMMA PollInv ==
  ASSUME ExecInv, NEW c \in Commands, WriteStdin(c) \/ KillSession(c)
  PROVE  ExecInv'
<1>1. TypeOK /\ CommandInv(c) /\ cmd[c] \in Command
  BY DEF ExecInv, TypeOK
<1>2. PICK q, V, t :
        /\ t \in BOOLEAN
        /\ Later(cmd[c], q) /\ V \in SUBSET BOOLEAN /\ Report(c, V)
        /\ Settle(c, q, t) /\ (t => q.proc # "running")
  <2>1. CASE WriteStdin(c)
    <3>1. PICK r \in Refreshed(cmd[c]) : Report(c, Verdict(r)) /\ Settle(c, r, r.timedOut)
      BY <2>1 DEF WriteStdin
    <3>2. Later(cmd[c], r) /\ r \in Command
      BY <1>1, RefreshedRecord DEF Later
    <3>3. Verdict(r) \in SUBSET BOOLEAN
      BY <3>2, VerdictRecord
    <3>4. r.timedOut \in BOOLEAN /\ (r.timedOut => r.proc # "running")
      BY <1>1, <3>2 DEF Later, CommandInv, Command
    <3> QED  BY <3>1, <3>2, <3>3, <3>4
  <2>2. CASE KillSession(c)
    <3>1. PICK s \in Signalled(cmd[c]) : \E r \in Refreshed(s) :
            /\ Report(c, IF Alive(cmd[c]) THEN {FALSE} ELSE {r.code = "zero"})
            /\ Settle(c, r, TRUE)
      BY <2>2 DEF KillSession
    <3>2. PICK r \in Refreshed(s) :
            /\ Report(c, IF Alive(cmd[c]) THEN {FALSE} ELSE {r.code = "zero"})
            /\ Settle(c, r, TRUE)
      BY <3>1
    <3>3. Later(cmd[c], s) /\ s \in Command /\ s.proc # "running"
      BY <1>1, SignalledRecord DEF Later
    <3>4. Later(s, r)
      BY <3>3, RefreshedRecord
    <3>5. Later(cmd[c], r) /\ r.proc # "running"
      BY <1>1, <3>3, <3>4, LaterTwice DEF Later
    <3>6. (IF Alive(cmd[c]) THEN {FALSE} ELSE {r.code = "zero"}) \in SUBSET BOOLEAN
      OBVIOUS
    <3> QED  BY <3>2, <3>5, <3>6
  <2> QED  BY <2>1, <2>2
<1>4. /\ c \in sessions \cup retained \cup jobs /\ client' = NoClient
      /\ UNCHANGED <<step, watchdog, starting, jobs, ends, handed, faults>>
  BY DEF WriteStdin, KillSession, Acts
<1>5. step[c] \notin Unborn
  BY <1>4, Members
<1>6. verdicts' \in [Commands -> SUBSET BOOLEAN]
  BY <1>1, <1>2 DEF TypeOK, Report
<1>7. client' \in [step : {"idle", "prune", "act"}, tool : Tools \cup {None},
                   on : Commands \cup {None}]
  BY <1>4 DEF NoClient
<1> QED  BY <1>2, <1>4, <1>5, <1>6, <1>7, SettlesInv

-----------------------------------------------------------------------------
(* The call that starts a command, up to its session *)

Slots == {c \in Commands : step[c] \in Slotted}

LEMMA SlotsCount ==
  ASSUME TypeOK
  PROVE  IsFiniteSet(Slots) /\ Cardinality(Slots) \in Nat
BY CommandsAssumption, FS_Subset, FS_CardinalityType DEF Slots

LEMMA SlotTaken ==
  ASSUME TypeOK, NEW c \in Commands, NEW s \in Slotted, step[c] \notin Slotted,
         step' = [step EXCEPT ![c] = s]
  PROVE  Cardinality(Slots') = Cardinality(Slots) + 1
<1>1. Slots' = Slots \cup {c} /\ c \notin Slots
  BY DEF Slots, TypeOK
<1> QED  BY <1>1, SlotsCount, FS_AddElement

LEMMA SlotGiven ==
  ASSUME TypeOK, NEW c \in Commands, NEW s, s \notin Slotted, step[c] \in Slotted,
         step' = [step EXCEPT ![c] = s]
  PROVE  Cardinality(Slots') = Cardinality(Slots) - 1
<1>1. Slots' = Slots \ {c} /\ c \in Slots
  BY DEF Slots, TypeOK
<1> QED  BY <1>1, SlotsCount, FS_RemoveElement

(* A slot is given back, and becomes a session or not. *)
LEMMA SlotLeaves ==
  ASSUME ExecInv, NEW c \in Commands, NEW s, s \notin Slotted, step[c] \in Slotted,
         step' = [step EXCEPT ![c] = s], starting' = starting - 1,
         sessions' \in {sessions, sessions \cup {c}}, UNCHANGED <<jobs, retained>>
  PROVE  Bounded' /\ starting' \in Nat
<1>1. TypeOK /\ starting = Cardinality(Slots)
  BY DEF ExecInv, Bounded, Slots, Slotted
<1>2. Cardinality(Slots') = Cardinality(Slots) - 1
  BY <1>1, SlotGiven
<1>3. IsFiniteSet(Slots) /\ Cardinality(Slots) \in Nat /\ Slots # {}
  BY <1>1, SlotsCount DEF Slots
<1>4. Cardinality(Slots) # 0
  BY <1>3, FS_EmptySet
<1>5. IsFiniteSet(sessions) /\ Cardinality(sessions) \in Nat
  BY <1>1, CommandsAssumption, FS_Subset, FS_CardinalityType DEF TypeOK
<1>6. Cardinality(sessions') \in {Cardinality(sessions), Cardinality(sessions) + 1}
  BY <1>5, FS_AddElement
<1>7. starting' \in Nat /\ starting' = Cardinality(Slots')
  BY <1>1, <1>2, <1>3, <1>4
<1>8. Cardinality(sessions') + starting' <= MaxActive
  <2>1. Cardinality(sessions) + starting <= MaxActive /\ MaxActive \in Nat
    BY LimitsAssumption DEF ExecInv, Bounded
  <2> QED  BY <1>1, <1>3, <1>5, <1>6, <2>1
<1> QED  BY <1>7, <1>8 DEF ExecInv, Bounded, Slots, Slotted

(* Everything but the command that takes the step *)
LEMMA OthersSame ==
  ASSUME ExecInv, NEW c \in Commands, NEW s, NEW r,
         step' = [step EXCEPT ![c] = s], cmd' = [cmd EXCEPT ![c] = r],
         sessions' \in {sessions, sessions \cup {c}},
         jobs' \in {jobs, jobs \cup {c}, jobs \ {c}},
         reapers' \in {reapers, reapers \cup {c}},
         UNCHANGED <<watchdog, retained, closed, closing, registry, dying, handed>>
  PROVE  \A d \in Commands \ {c} : CommandInv(d)'
<1>1. \A d \in Commands \ {c} : Same(d)
  BY DEF Same, ExecInv, TypeOK
<1> QED  BY <1>1, SameKeeps DEF ExecInv

LEMMA BeginExecInv ==
  ASSUME ExecInv, NEW c \in Commands, NEW mode \in Modes, BeginExec(c, mode)
  PROVE  ExecInv'
<1>1. TypeOK /\ CommandInv(c)
  BY DEF ExecInv
<1>2. NewCommand \in Command /\ NewCommand.proc = "none" /\ ~NewCommand.timedOut
  BY DEF NewCommand, Command
<1> DEFINE r == [NewCommand EXCEPT !.mode = mode, !.held = TRUE]
<1>3. r \in Command /\ r.proc = "none" /\ ~r.timedOut /\ r.held
  BY <1>2, ModesAssumption DEF Command
<1>4. cmd' = [cmd EXCEPT ![c] = r] /\ step' = [step EXCEPT ![c] = "prune"] /\ step[c] = "idle"
  BY DEF BeginExec, Becomes, Goto
<1> HIDE DEF r
<1>5. TypeOK'
  BY <1>1, <1>3, <1>4 DEF TypeOK, BeginExec, Steps, tables, ends, ghosts
<1>6. Bounded'
  <2>1. \A d \in Commands : (step'[d] \in Slotted) = (step[d] \in Slotted)
    BY <1>1, <1>4 DEF TypeOK, Slotted
  <2>2. Cardinality(retained') <= MaxRetained
    BY DEF ExecInv, Bounded, BeginExec, tables
  <2> QED  BY <1>1, <2>1, <2>2, Shrinks DEF ExecInv, BeginExec, tables
<1>7. Tidy'
  BY DEF ExecInv, Tidy, BeginExec, tables, ends
<1>8. CommandInv(c)'
  <2>1. cmd'[c] = r /\ step'[c] = "prune" /\ watchdog'[c] = "none" /\ Unknown(c)
    BY <1>1, <1>4 DEF TypeOK, BeginExec, CommandInv, Unborn
  <2>2. Unknown(c)'
    BY <2>1 DEF Unknown, BeginExec, tables, ends, ghosts
  <2>3. c \notin handed'
    BY <2>2 DEF Unknown
  <2> QED  BY <1>3, <2>1, <2>2, <2>3 DEF CommandInv, Unborn, Entered
<1>9. \A d \in Commands \ {c} : CommandInv(d)'
  BY <1>4, OthersSame DEF BeginExec, tables, ends, ghosts
<1> QED  BY <1>5, <1>6, <1>7, <1>8, <1>9 DEF ExecInv

LEMMA ReserveInv ==
  ASSUME ExecInv, NEW c \in Commands, Reserve(c)
  PROVE  ExecInv'
<1>1. TypeOK /\ CommandInv(c) /\ cmd[c] \in Command
  BY DEF ExecInv, TypeOK
<1>2. /\ step[c] = "reserve"
      /\ UNCHANGED <<watchdog, tables, ends, client, ghosts, faults>>
      /\ Unknown(c) /\ cmd[c].proc = "none" /\ ~cmd[c].timedOut /\ cmd[c].held
      /\ watchdog[c] = "none"
  BY <1>1 DEF Reserve, CommandInv, Unborn
<1>3. Unknown(c)' /\ Tidy'
  BY <1>2 DEF Unknown, ExecInv, Tidy, tables, ends, ghosts
<1>4. Cardinality(retained') <= MaxRetained
  BY <1>2 DEF ExecInv, Bounded, tables
<1>5. CASE closed \/ Cardinality(sessions) + starting >= MaxActive
  <2>1. /\ cmd' = [cmd EXCEPT ![c] = Freed(cmd[c])] /\ step' = [step EXCEPT ![c] = "done"]
        /\ starting' = starting
    BY <1>5 DEF Reserve, Becomes, Goto
  <2>2. /\ Freed(cmd[c]) \in Command /\ ~Freed(cmd[c]).held /\ Freed(cmd[c]).proc = "none"
    BY <1>1, <1>2, FreedRecord
  <2>3. TypeOK'
    BY <1>1, <1>2, <2>1, <2>2 DEF TypeOK, Steps, tables, ends, ghosts
  <2>4. Bounded'
    <3>1. \A d \in Commands : (step'[d] \in Slotted) = (step[d] \in Slotted)
      BY <1>1, <1>2, <2>1 DEF TypeOK, Slotted
    <3> QED  BY <1>1, <1>2, <1>4, <2>1, <3>1, Shrinks DEF ExecInv, tables
  <2>5. CommandInv(c)'
    <3>1. cmd'[c] = Freed(cmd[c]) /\ step'[c] = "done"
      BY <1>1, <2>1 DEF TypeOK
    <3> QED  BY <1>3, <2>2, <3>1 DEF CommandInv, Unborn, Entered
  <2>6. \A d \in Commands \ {c} : CommandInv(d)'
    BY <1>2, <2>1, OthersSame DEF tables, ends, ghosts
  <2> QED  BY <1>3, <2>3, <2>4, <2>5, <2>6 DEF ExecInv
<1>6. CASE ~(closed \/ Cardinality(sessions) + starting >= MaxActive)
  <2>1. /\ cmd' = [cmd EXCEPT ![c] = cmd[c]] /\ cmd' = cmd
        /\ step' = [step EXCEPT ![c] = "spawn"] /\ starting' = starting + 1
    BY <1>1, <1>6 DEF Reserve, Goto, TypeOK
  <2>2. TypeOK'
    BY <1>1, <1>2, <2>1 DEF TypeOK, Steps, tables, ends, ghosts
  <2>3. Cardinality(Slots') = Cardinality(Slots) + 1 /\ starting = Cardinality(Slots)
    BY <1>1, <1>2, <2>1, SlotTaken DEF Slotted, ExecInv, Bounded, Slots
  <2>4. Cardinality(sessions') + starting' <= MaxActive
    <3>1. Cardinality(sessions) \in Nat /\ starting \in Nat /\ MaxActive \in Nat
      BY <1>1, CommandsAssumption, LimitsAssumption, FS_Subset, FS_CardinalityType DEF TypeOK
    <3> QED  BY <1>2, <1>6, <2>1, <3>1 DEF tables
  <2>5. Bounded'
    BY <1>2, <2>1, <2>3, <2>4 DEF ExecInv, Bounded, Slots, Slotted, tables
  <2>6. CommandInv(c)'
    <3>1. cmd'[c] = cmd[c] /\ step'[c] = "spawn" /\ watchdog'[c] = "none"
      BY <1>1, <1>2, <2>1 DEF TypeOK
    <3>2. c \notin handed'
      BY <1>3 DEF Unknown
    <3> QED  BY <1>2, <1>3, <3>1, <3>2 DEF CommandInv, Unborn, Entered
  <2>7. \A d \in Commands \ {c} : CommandInv(d)'
    BY <1>2, <2>1, OthersSame DEF tables, ends, ghosts
  <2> QED  BY <1>3, <2>2, <2>5, <2>6, <2>7 DEF ExecInv
<1> QED  BY <1>5, <1>6

LEMMA SpawnInv ==
  ASSUME ExecInv, NEW c \in Commands, Spawn(c)
  PROVE  ExecInv'
<1>1. TypeOK /\ CommandInv(c) /\ cmd[c] \in Command
  BY DEF ExecInv, TypeOK
<1>2. /\ step[c] = "spawn"
      /\ UNCHANGED <<watchdog, starting, tables, ends, client, ghosts, faults>>
      /\ Unknown(c) /\ cmd[c].proc = "none" /\ ~cmd[c].timedOut /\ cmd[c].held
  BY <1>1 DEF Spawn, CommandInv, Unborn
<1>3. Unknown(c)' /\ Tidy' /\ Shared' = Shared
  BY <1>2 DEF Unknown, ExecInv, Tidy, Shared, tables, ends, ghosts
<1> DEFINE r == [cmd[c] EXCEPT !.proc = "running"]
           s == IF Shared THEN "register" ELSE "enter"
<1>4. r \in Command /\ r.proc = "running" /\ ~r.timedOut /\ r.held
  BY <1>1, <1>2 DEF Command
<1>5. cmd' = [cmd EXCEPT ![c] = r] /\ step' = [step EXCEPT ![c] = s]
  BY DEF Spawn, Becomes, Goto
<1>6. s \in {"register", "enter"} /\ (s = "enter" => ~Shared)
  OBVIOUS
<1> HIDE DEF r, s
<1>7. TypeOK'
  BY <1>1, <1>2, <1>4, <1>5, <1>6 DEF TypeOK, Steps, tables, ends, ghosts
<1>8. Bounded'
  <2>1. \A d \in Commands : (step'[d] \in Slotted) = (step[d] \in Slotted)
    BY <1>1, <1>2, <1>5, <1>6 DEF TypeOK, Slotted
  <2>2. Cardinality(retained') <= MaxRetained
    BY <1>2 DEF ExecInv, Bounded, tables
  <2> QED  BY <1>1, <1>2, <2>1, <2>2, Shrinks DEF ExecInv, tables
<1>9. CommandInv(c)'
  <2>1. cmd'[c] = r /\ step'[c] = s
    BY <1>1, <1>5 DEF TypeOK
  <2>2. c \notin handed' /\ c \notin retained'
    BY <1>3 DEF Unknown
  <2> QED  BY <1>3, <1>4, <1>6, <2>1, <2>2 DEF CommandInv, Unborn, Entered
<1>10. \A d \in Commands \ {c} : CommandInv(d)'
  BY <1>2, <1>5, OthersSame DEF tables, ends, ghosts
<1> QED  BY <1>3, <1>7, <1>8, <1>9, <1>10 DEF ExecInv

LEMMA SpawnFailsInv ==
  ASSUME ExecInv, NEW c \in Commands, SpawnFails(c)
  PROVE  ExecInv'
<1>1. TypeOK /\ CommandInv(c) /\ cmd[c] \in Command
  BY DEF ExecInv, TypeOK
<1>2. /\ step[c] = "spawn"
      /\ UNCHANGED <<watchdog, tables, ends, client, ghosts>>
      /\ Unknown(c) /\ cmd[c].proc = "none"
  BY <1>1 DEF SpawnFails, CommandInv, Unborn
<1>3. Unknown(c)' /\ Tidy'
  BY <1>2 DEF Unknown, ExecInv, Tidy, tables, ends, ghosts
<1>4. /\ cmd' = [cmd EXCEPT ![c] = Freed(cmd[c])] /\ step' = [step EXCEPT ![c] = "done"]
      /\ starting' = starting - 1
  BY DEF SpawnFails, Becomes, Goto
<1>5. Freed(cmd[c]) \in Command /\ ~Freed(cmd[c]).held /\ Freed(cmd[c]).proc = "none"
  BY <1>1, <1>2, FreedRecord
<1>6. faults' \in 0..MaxFaults
  BY <1>1, LimitsAssumption DEF SpawnFails, Failing, TypeOK
<1>7. Bounded' /\ starting' \in Nat
  BY <1>2, <1>4, SlotLeaves DEF Slotted, tables
<1>8. TypeOK'
  BY <1>1, <1>2, <1>4, <1>5, <1>6, <1>7 DEF TypeOK, Steps, tables, ends, ghosts
<1>9. CommandInv(c)'
  <2>1. cmd'[c] = Freed(cmd[c]) /\ step'[c] = "done"
    BY <1>1, <1>4 DEF TypeOK
  <2> QED  BY <1>5, <2>1 DEF CommandInv, Unborn, Entered
<1>10. \A d \in Commands \ {c} : CommandInv(d)'
  BY <1>2, <1>4, OthersSame DEF tables, ends, ghosts
<1> QED  BY <1>3, <1>7, <1>8, <1>9, <1>10 DEF ExecInv

LEMMA RegisterInv ==
  ASSUME ExecInv, NEW c \in Commands, Register(c)
  PROVE  ExecInv'
<1>1. TypeOK /\ CommandInv(c) /\ cmd[c] \in Command
  BY DEF ExecInv, TypeOK
<1>2. /\ step[c] = "register"
      /\ UNCHANGED <<cmd, watchdog, sessions, retained, ends, client, ghosts, faults>>
      /\ c \notin handed /\ c \notin handed'
  BY <1>1 DEF Register, CommandInv, ghosts
<1>3. Tidy' /\ Shared' = Shared /\ cmd' = [cmd EXCEPT ![c] = cmd[c]]
  BY <1>1, <1>2 DEF ExecInv, Tidy, Shared, ends, TypeOK
<1>4. CASE registry = "closed" \/ Cardinality(jobs) >= MaxJobs
  <2>1. starting' = starting - 1 /\ step' = [step EXCEPT ![c] = "abort"] /\ jobs' = jobs
    BY <1>4 DEF Register, Goto
  <2>2. Bounded' /\ starting' \in Nat
    BY <1>2, <2>1, SlotLeaves DEF Slotted
  <2>3. TypeOK'
    BY <1>1, <1>2, <2>1, <2>2 DEF TypeOK, Steps, ends, ghosts
  <2>4. CommandInv(c)'
    <3>1. step'[c] = "abort" /\ cmd'[c] = cmd[c] /\ retained' = retained
      BY <1>1, <1>2, <2>1 DEF TypeOK
    <3> QED  BY <1>1, <1>2, <3>1 DEF CommandInv, Unborn, Entered
  <2>5. \A d \in Commands \ {c} : CommandInv(d)'
    BY <1>2, <1>3, <2>1, OthersSame DEF ends, ghosts
  <2> QED  BY <1>3, <2>2, <2>3, <2>4, <2>5 DEF ExecInv
<1>5. CASE ~(registry = "closed" \/ Cardinality(jobs) >= MaxJobs)
  <2>1. starting' = starting /\ step' = [step EXCEPT ![c] = "enter"] /\ jobs' = jobs \cup {c}
    BY <1>5 DEF Register, Goto
  <2>2. TypeOK'
    BY <1>1, <1>2, <2>1 DEF TypeOK, Steps, ends, ghosts
  <2>3. Cardinality(jobs') <= MaxJobs
    <3>1. IsFiniteSet(jobs) /\ Cardinality(jobs) \in Nat /\ MaxJobs \in Nat
      BY <1>1, CommandsAssumption, LimitsAssumption, FS_Subset, FS_CardinalityType DEF TypeOK
    <3>2. Cardinality(jobs') \in {Cardinality(jobs), Cardinality(jobs) + 1}
      BY <2>1, <3>1, FS_AddElement
    <3> QED  BY <1>5, <3>1, <3>2
  <2>4. Slots' = Slots
    BY <1>1, <1>2, <2>1 DEF Slots, Slotted, TypeOK
  <2>5. Bounded'
    BY <1>2, <2>1, <2>3, <2>4 DEF ExecInv, Bounded, Slots, Slotted
  <2>6. CommandInv(c)'
    <3>1. step'[c] = "enter" /\ cmd'[c] = cmd[c] /\ retained' = retained
      BY <1>1, <1>2, <2>1 DEF TypeOK
    <3>2. Shared => Found(c)'
      BY <1>3, <2>1 DEF Found
    <3> QED  BY <1>1, <1>2, <1>3, <3>1, <3>2 DEF CommandInv, Unborn, Entered
  <2>7. \A d \in Commands \ {c} : CommandInv(d)'
    BY <1>2, <1>3, <2>1, OthersSame DEF ends, ghosts
  <2> QED  BY <1>3, <2>2, <2>5, <2>6, <2>7 DEF ExecInv
<1> QED  BY <1>4, <1>5

LEMMA EnterInv ==
  ASSUME ExecInv, NEW c \in Commands, Enter(c)
  PROVE  ExecInv'
<1>1. TypeOK /\ CommandInv(c) /\ cmd[c] \in Command
  BY DEF ExecInv, TypeOK
<1>2. /\ step[c] = "enter" /\ starting' = starting - 1
      /\ UNCHANGED <<cmd, watchdog, retained, jobs, ends, client, ghosts, faults>>
      /\ c \notin handed /\ c \notin handed'
  BY <1>1 DEF Enter, CommandInv, ghosts
<1>3. Shared' = Shared /\ cmd' = [cmd EXCEPT ![c] = cmd[c]] /\ cmd'[c] = cmd[c]
  BY <1>1, <1>2 DEF Shared, ends, TypeOK
<1>4. PICK s \in {"abort", "watch"} :
        /\ step' = [step EXCEPT ![c] = s]
        /\ sessions' = (IF s = "watch" THEN sessions \cup {c} ELSE sessions)
        /\ s = "watch" => ~closed
  BY DEF Enter, Goto
<1>5. Bounded' /\ starting' \in Nat
  BY <1>2, <1>4, SlotLeaves DEF Slotted
<1>6. TypeOK'
  BY <1>1, <1>2, <1>4, <1>5 DEF TypeOK, Steps, ends, ghosts
<1>7. Tidy'
  BY <1>2, <1>4 DEF ExecInv, Tidy, ends
<1>8. CommandInv(c)'
  <2>1. step'[c] = s
    BY <1>1, <1>4 DEF TypeOK
  <2>2. s = "watch" => Tabled(c)'
    BY <1>4 DEF Tabled
  <2>3. s = "watch" /\ cmd[c].proc = "running" => Found(c)'
    BY <1>1, <1>2, <1>3, <1>4 DEF Found, CommandInv, ends
  <2> QED  BY <1>1, <1>2, <1>3, <2>1, <2>2, <2>3 DEF CommandInv, Unborn, Entered
<1>9. \A d \in Commands \ {c} : CommandInv(d)'
  BY <1>2, <1>3, <1>4, OthersSame DEF ends, ghosts
<1> QED  BY <1>5, <1>6, <1>7, <1>8, <1>9 DEF ExecInv

LEMMA AbortInv ==
  ASSUME ExecInv, NEW c \in Commands, Abort(c)
  PROVE  ExecInv'
<1>1. TypeOK /\ CommandInv(c) /\ cmd[c] \in Command
  BY DEF ExecInv, TypeOK
<1>2. PICK r \in Terminated(cmd[c]) :
        Becomes(c, r) /\ reapers' = IF Alive(r) THEN reapers \cup {c} ELSE reapers
  BY DEF Abort
<1>3. /\ step[c] = "abort" /\ step' = [step EXCEPT ![c] = "done"]
      /\ jobs' = jobs \ {c} /\ cmd' = [cmd EXCEPT ![c] = r]
      /\ UNCHANGED <<watchdog, starting, sessions, retained, closed, closing, registry,
                     dying, client, ghosts, faults>>
  BY <1>2 DEF Abort, Goto, Becomes
<1>4. /\ r \in Command /\ Later(cmd[c], r) /\ r.proc # "running"
      /\ ~Alive(r) => ~r.held
  BY <1>3, TerminatedCommand DEF Unborn
<1>5. TypeOK'
  BY <1>1, <1>2, <1>3, <1>4 DEF TypeOK, Steps, ghosts
<1>6. Bounded'
  <2>1. \A d \in Commands : (step'[d] \in Slotted) = (step[d] \in Slotted)
    BY <1>1, <1>3 DEF TypeOK, Slotted
  <2>2. Cardinality(retained') <= MaxRetained
    BY <1>3 DEF ExecInv, Bounded
  <2> QED  BY <1>1, <1>3, <2>1, <2>2, Shrinks DEF ExecInv
<1>7. Tidy'
  BY <1>3 DEF ExecInv, Tidy
<1>8. CommandInv(c)'
  <2>1. cmd'[c] = r /\ step'[c] = "done"
    BY <1>1, <1>3 DEF TypeOK
  <2>2. r.held => Tabled(c)'
    BY <1>2, <1>4 DEF Tabled
  <2>3. r.held => r.proc # "none"
    BY <1>1, <1>3, <1>4 DEF CommandInv, Later, Unborn
  <2> QED  BY <1>4, <2>1, <2>2, <2>3 DEF CommandInv, Unborn, Entered
<1>9. \A d \in Commands \ {c} : CommandInv(d)'
  BY <1>2, <1>3, OthersSame DEF ghosts
<1> QED  BY <1>5, <1>6, <1>7, <1>8, <1>9 DEF ExecInv

-----------------------------------------------------------------------------
LEMMA ExecStart == Init => ExecInv
<1> SUFFICES ASSUME Init PROVE ExecInv
  OBVIOUS
<1>1. NewCommand \in Command /\ NewCommand.proc = "none" /\ ~NewCommand.timedOut
      /\ NewCommand.held = FALSE
  BY DEF NewCommand, Command
<1>2. TypeOK
  <2>1. registry \in {"none", "open", "closed"} /\ faults \in 0..MaxFaults
    BY LimitsAssumption, ModesAssumption DEF Init
  <2>2. client \in [step : {"idle", "prune", "act"}, tool : Tools \cup {None},
                    on : Commands \cup {None}]
    BY DEF Init, NoClient
  <2>3. cmd \in [Commands -> Command] /\ step \in [Commands -> Steps]
    BY <1>1 DEF Init, Steps
  <2>4. /\ watchdog \in [Commands -> {"none", "waiting", "decided", "over"}]
        /\ verdicts \in [Commands -> SUBSET BOOLEAN]
    BY DEF Init
  <2> QED  BY <2>1, <2>2, <2>3, <2>4 DEF Init, TypeOK
<1>3. Bounded
  <2>1. {c \in Commands : step[c] \in {"spawn", "register", "enter"}} = {}
    BY DEF Init
  <2>2. Cardinality(sessions) = 0 /\ Cardinality(retained) = 0 /\ Cardinality(jobs) = 0
        /\ starting = 0
    BY FS_EmptySet DEF Init
  <2>3. MaxActive \in Nat /\ MaxRetained \in Nat /\ MaxJobs \in Nat
    BY LimitsAssumption
  <2> QED  BY <2>1, <2>2, <2>3, FS_EmptySet DEF Bounded
<1>4. \A c \in Commands : CommandInv(c)
  <2> SUFFICES ASSUME NEW c \in Commands PROVE CommandInv(c)
    OBVIOUS
  <2>1. cmd[c] = NewCommand /\ step[c] = "idle" /\ watchdog[c] = "none" /\ Unknown(c)
    BY DEF Init, Unknown
  <2>2. c \notin handed
    BY <2>1 DEF Unknown
  <2> QED  BY <1>1, <2>1, <2>2 DEF CommandInv, Unborn, Entered
<1> QED  BY <1>2, <1>3, <1>4 DEF ExecInv, Tidy, Init

LEMMA ExecStep == ExecInv /\ [Next]_vars => ExecInv'
<1> SUFFICES ASSUME ExecInv, [Next]_vars PROVE ExecInv'
  OBVIOUS
<1>1. ASSUME NEW c \in Commands, CallStep(c) PROVE ExecInv'
  BY <1>1, PruneFirstInv, ReserveInv, SpawnInv, RegisterInv, EnterInv, AbortInv, WatchInv,
     ExpireInv, FinishInv, FinishFailsInv DEF CallStep
<1>2. ASSUME NEW c \in Commands, Background(c) PROVE ExecInv'
  BY <1>2, WatchdogWakesInv, WatchdogKillsInv, ReapInv, CloseOneInv, RegistryCloseOneInv
  DEF Background
<1>3. ASSUME NEW c \in Commands,
             SpawnFails(c) \/ WatchFails(c) \/ CancelRequest(c) \/ RetentionEnds(c)
      PROVE ExecInv'
  BY <1>3, SpawnFailsInv, CancelsInv, RetentionEndsInv
<1>4. ASSUME NEW c \in Commands, Exits(c) \/ Sticks(c) \/ Deadline(c) PROVE ExecInv'
  BY <1>4, ProcessInv, DeadlineInv
<1>5. ASSUME ClientStep PROVE ExecInv'
  BY <1>5, ClientInv, ClientPruneInv, PollInv, LooksInv DEF ClientStep
<1>6. CASE UNCHANGED vars
  <2>1. TypeOK' /\ Bounded' /\ Tidy'
    BY <1>6 DEF ExecInv, TypeOK, Bounded, Tidy, vars, tables, ends, ghosts
  <2>2. \A d \in Commands : CommandInv(d)'
    BY <1>6, SameKeeps DEF ExecInv, Same, vars, tables, ends, ghosts
  <2> QED  BY <2>1, <2>2 DEF ExecInv
<1> QED
  BY <1>1, <1>2, <1>3, <1>4, <1>5, <1>6, BeginExecInv, PruneJobInv, CloseInv, RegistryCloseInv
  DEF Next

LEMMA ExecAlways == Spec => []ExecInv
<1>1. Init => ExecInv
  BY ExecStart
<1>2. ExecInv /\ [Next]_vars => ExecInv'
  BY ExecStep
<1> QED  BY <1>1, <1>2, PTL DEF Spec

(* Every variable of the command model keeps to its type; in particular    *)
(* the slot counter of _execute_command_legacy never goes below zero.      *)
THEOREM TypeCorrect == Spec => []TypeOK
<1>1. ExecInv => TypeOK
  BY DEF ExecInv
<1> QED  BY <1>1, ExecAlways, PTL

(* Whatever starts, ends, evictions, cancellations and closings            *)
(* interleave, the session tables of a Runtime and the shared jobs of the  *)
(* server stay within their limits, and a command reported as running is   *)
(* found by its handle as long as it runs.                                 *)
THEOREM TablesAreSound == Spec => []TablesSound
<1>1. ExecInv => TablesSound
  <2> SUFFICES ASSUME ExecInv PROVE TablesSound
    OBVIOUS
  <2>1. Bounded /\ \A c \in Commands : CommandInv(c)
    BY DEF ExecInv
  <2>2. handed \subseteq Commands
    BY DEF ExecInv, TypeOK
  <2>3. RunningIsFound
    BY <2>1, <2>2 DEF RunningIsFound, CommandInv, Found, Entered
  <2> QED  BY <2>1, <2>3 DEF TablesSound
<1> QED  BY <1>1, ExecAlways, PTL

(* No resource of a command is released under a process that can still be  *)
(* ended, and every process and resource is in the hands of its call, a    *)
(* table, a close in progress or a reaper.                                 *)
THEOREM ResourcesAreAccounted == Spec => []ResourcesAccounted
<1>1. ExecInv => ResourcesAccounted
  <2> SUFFICES ASSUME ExecInv PROVE ResourcesAccounted
    OBVIOUS
  <2>1. TypeOK /\ Tidy /\ \A c \in Commands : CommandInv(c)
    BY DEF ExecInv
  <2>2. ReleasedAfterExit
    BY <2>1 DEF ReleasedAfterExit, CommandInv
  <2>3. ASSUME NEW c \in Commands, cmd[c].proc = "running" \/ cmd[c].held,
               step[c] \in {"idle", "done"}
        PROVE  \/ c \in sessions /\ ~closed
               \/ c \in jobs \cup closing \cup dying \cup reapers
               \/ cmd[c].proc = "exited" /\ c \in retained
    <3>1. cmd[c].held /\ step[c] = "done"
      BY <2>1, <2>3 DEF CommandInv, Unborn
    <3>2. Tabled(c)
      BY <2>1, <3>1 DEF CommandInv, Entered
    <3> QED  BY <2>1, <3>2 DEF Tabled, Tidy
  <2>4. Owned
    BY <2>3 DEF Owned
  <2> QED  BY <2>2, <2>4 DEF ResourcesAccounted
<1> QED  BY <1>1, ExecAlways, PTL
=============================================================================
