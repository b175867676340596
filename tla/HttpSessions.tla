---------------------------- MODULE HttpSessions ----------------------------
(***************************************************************************)
(* HTTPSessionManager (coding_tools_mcp/transport_http.py) under the       *)
(* requests of MCPHandler (server.py): which Runtime serves which request, *)
(* and when a Runtime is closed.                                           *)
(*                                                                         *)
(* Every request has a thread.  A step is one region under the manager's   *)
(* lock, one close or construction of a Runtime outside it, or the         *)
(* handling of the request.  Session ids are random, so a new Runtime has  *)
(* an unused one.  Requests refused before they reach the manager, and     *)
(* those for the control Runtime, are left out.                            *)
(***************************************************************************)
EXTENDS Integers, FiniteSets

CONSTANTS
  Requests,     \* bound on the requests
  Sessions,     \* bound on the sessions ever created
  MaxSessions,  \* MAX_HTTP_SESSIONS
  None

ASSUME RequestsAssumption == IsFiniteSet(Requests)
ASSUME SessionsAssumption == IsFiniteSet(Sessions) /\ None \notin Sessions
ASSUME MaxSessionsAssumption == MaxSessions \in Nat \ {0}

VARIABLES
  table,     \* keys of _sessions
  active,    \* per session: active_requests
  closing,   \* sessions whose closing flag is set
  stale,     \* sessions not seen for HTTP_SESSION_TTL_SECONDS
  creating,  \* _creating
  shut,      \* _closed
  dying,     \* sessions that close() has still to close
  runtime,   \* per session: its Runtime
  busy,      \* sessions whose Runtime has commands
  pc,        \* per request: next step of its thread
  on,        \* per request: its session
  doomed     \* per request: Runtimes it has still to close

records == <<table, active, closing, stale>>
threads == <<pc, on, doomed>>
vars == <<records, creating, shut, dying, runtime, busy, threads>>

Steps == {"idle", "reserve", "build", "install", "installed", "refused",
          "initialize", "drop", "get", "serve", "release", "delete", "done"}

Init ==
  /\ table = {} /\ active = [s \in Sessions |-> 0] /\ closing = {} /\ stale = {}
  /\ creating = 0
  /\ shut = FALSE /\ dying = {}
  /\ runtime = [s \in Sessions |-> "none"] /\ busy = {}
  /\ pc = [r \in Requests |-> "idle"]
  /\ on = [r \in Requests |-> None]
  /\ doomed = [r \in Requests |-> {}]

At(r, step) == pc[r] = step /\ doomed[r] = {}
Goto(r, step) == pc' = [pc EXCEPT ![r] = step]
Dooms(r, S) == doomed' = [doomed EXCEPT ![r] = S]

(* Mutant: a request in progress does not protect its session. *)
IdleUncounted(s) == s \notin closing /\ s \notin busy

(* Mutant: commands do not protect their session. *)
IdleBusy(s) == active[s] = 0 /\ s \notin closing

(* Sessions that eviction and expiry may take: http_session_evictable *)
Idle(s) == active[s] = 0 /\ s \notin closing /\ s \notin busy

Expired == {s \in table \cap stale : Idle(s)}

(* prune: expired sessions leave the table, and their Runtimes are closed  *)
(* once the lock is released.                                              *)
Prune(r) ==
  /\ table' = table \ Expired
  /\ Dooms(r, Expired)
  /\ UNCHANGED <<active, closing, stale, creating, shut, dying, runtime, busy>>

BeginInitialize(r) ==
  /\ At(r, "idle")
  /\ Prune(r)
  /\ Goto(r, "reserve")
  /\ UNCHANGED on

BeginPost(r, s) ==
  /\ At(r, "idle") /\ runtime[s] # "none"
  /\ Prune(r)
  /\ on' = [on EXCEPT ![r] = s]
  /\ Goto(r, "get")

BeginDelete(r, s) ==
  /\ At(r, "idle") /\ runtime[s] # "none"
  /\ on' = [on EXCEPT ![r] = s]
  /\ Goto(r, "delete")
  /\ UNCHANGED <<records, creating, shut, dying, runtime, busy, doomed>>

(* _close_runtime; Runtime.close ends its commands. *)
CloseRuntime(r, s) ==
  /\ s \in doomed[r]
  /\ Dooms(r, doomed[r] \ {s})
  /\ runtime' = [runtime EXCEPT ![s] = "closed"]
  /\ busy' = busy \ {s}
  /\ UNCHANGED <<records, creating, shut, dying, pc, on>>

-----------------------------------------------------------------------------
(* create *)

(* Mutant: sessions under construction are not counted. *)
FullLate == Cardinality(table) >= MaxSessions

Full == Cardinality(table) + creating >= MaxSessions

(* Mutant: a refusal gives back a place it never took. *)
RefuseReleases(r) ==
  /\ At(r, "reserve")
  /\ shut \/ (Full /\ \A s \in table : ~Idle(s))
  /\ creating' = creating - 1
  /\ Goto(r, "done")
  /\ UNCHANGED <<records, shut, dying, runtime, busy, on, doomed>>

Refuse(r) ==
  /\ At(r, "reserve")
  /\ shut \/ (Full /\ \A s \in table : ~Idle(s))
  /\ Goto(r, "done")
  /\ UNCHANGED <<records, creating, shut, dying, runtime, busy, on, doomed>>

Reserve(r) ==
  /\ At(r, "reserve") /\ ~shut /\ ~Full
  /\ creating' = creating + 1
  /\ Goto(r, "build")
  /\ UNCHANGED <<records, shut, dying, runtime, busy, on, doomed>>

(* The least recently seen idle session makes room; which one that is is   *)
(* left open.                                                              *)
Evict(r, s) ==
  /\ At(r, "reserve") /\ ~shut /\ Full
  /\ s \in table /\ Idle(s)
  /\ table' = table \ {s}
  /\ creating' = creating + 1
  /\ Goto(r, "build") /\ Dooms(r, {s})
  /\ UNCHANGED <<active, closing, stale, shut, dying, runtime, busy, on>>

Build(r, s) ==
  /\ At(r, "build")
  /\ runtime[s] = "none"
  /\ runtime' = [runtime EXCEPT ![s] = "open"]
  /\ on' = [on EXCEPT ![r] = s]
  /\ Goto(r, "install")
  /\ UNCHANGED <<records, creating, shut, dying, busy, doomed>>

BuildFails(r) ==
  /\ At(r, "build")
  /\ Goto(r, "refused")
  /\ UNCHANGED <<records, creating, shut, dying, runtime, busy, on, doomed>>

Install(r) ==
  /\ At(r, "install") /\ ~shut
  /\ table' = table \cup {on[r]}
  /\ active' = [active EXCEPT ![on[r]] = 1]
  /\ Goto(r, "installed")
  /\ UNCHANGED <<closing, stale, creating, shut, dying, runtime, busy, on, doomed>>

InstallRefused(r) ==
  /\ At(r, "install") /\ shut
  /\ Goto(r, "refused")
  /\ UNCHANGED <<records, creating, shut, dying, runtime, busy, on, doomed>>

(* finally *)
Unreserve(r) ==
  /\ At(r, "installed")
  /\ creating' = creating - 1
  /\ Goto(r, "initialize")
  /\ UNCHANGED <<records, shut, dying, runtime, busy, on, doomed>>

(* Mutant: a Runtime that was not installed is forgotten. *)
DiscardForgets(r) ==
  /\ At(r, "refused")
  /\ creating' = creating - 1
  /\ Goto(r, "done")
  /\ UNCHANGED <<records, shut, dying, runtime, busy, on, doomed>>

(* finally, when the Runtime, if there is one, was not installed *)
Discard(r) ==
  /\ At(r, "refused")
  /\ creating' = creating - 1
  /\ Goto(r, "done") /\ Dooms(r, {on[r]} \ {None})
  /\ UNCHANGED <<records, shut, dying, runtime, busy, on>>

-----------------------------------------------------------------------------
(* get, delete, release *)

Get(r) ==
  /\ At(r, "get") /\ ~shut /\ on[r] \in table \ closing
  /\ active' = [active EXCEPT ![on[r]] = @ + 1]
  /\ stale' = stale \ {on[r]}
  /\ Goto(r, "serve")
  /\ UNCHANGED <<table, closing, creating, shut, dying, runtime, busy, on, doomed>>

GetUnknown(r) ==
  /\ At(r, "get") /\ (shut \/ on[r] \notin table \ closing)
  /\ Goto(r, "done")
  /\ UNCHANGED <<records, creating, shut, dying, runtime, busy, on, doomed>>

(* handle_rpc; commands may be left running, in the Runtime of the session *)
(* if that is still open.                                                  *)
Serve(r) ==
  /\ At(r, "serve") \/ At(r, "initialize")
  /\ \/ UNCHANGED busy
     \/ runtime[on[r]] = "open" /\ busy' = busy \cup {on[r]}
  /\ Goto(r, "release")
  /\ UNCHANGED <<records, creating, shut, dying, runtime, on, doomed>>

(* initialize answers with an error: the session is deleted. *)
ServeFails(r) ==
  /\ At(r, "initialize")
  /\ Goto(r, "drop")
  /\ UNCHANGED <<records, creating, shut, dying, runtime, busy, on, doomed>>

(* delete, and what the request does next: deferred to the last release    *)
(* while requests are in progress.                                         *)
Delete(r, step, then) ==
  /\ At(r, step)
  /\ Goto(r, then)
  /\ closing' = closing \cup (table \cap {on[r]})
  /\ IF on[r] \in table /\ active[on[r]] = 0
       THEN table' = table \ {on[r]} /\ Dooms(r, {on[r]})
       ELSE UNCHANGED <<table, doomed>>
  /\ UNCHANGED <<active, stale, creating, shut, dying, runtime, busy, on>>

ReleaseGone(r) ==
  /\ At(r, "release") /\ on[r] \notin table
  /\ Goto(r, "done")
  /\ UNCHANGED <<records, creating, shut, dying, runtime, busy, on, doomed>>

(* Mutant: the last release does not look at the closing flag. *)
ReleaseOnly(r) ==
  /\ At(r, "release") /\ on[r] \in table
  /\ active' = [active EXCEPT ![on[r]] = @ - 1]
  /\ stale' = stale \ {on[r]}
  /\ Goto(r, "done")
  /\ UNCHANGED <<table, closing, creating, shut, dying, runtime, busy, on, doomed>>

Release(r) ==
  /\ At(r, "release") /\ on[r] \in table
  /\ active' = [active EXCEPT ![on[r]] = IF @ > 0 THEN @ - 1 ELSE 0]
  /\ stale' = stale \ {on[r]}
  /\ Goto(r, "done")
  /\ IF on[r] \in closing /\ active[on[r]] <= 1
       THEN table' = table \ {on[r]} /\ Dooms(r, {on[r]})
       ELSE UNCHANGED <<table, doomed>>
  /\ UNCHANGED <<closing, creating, shut, dying, runtime, busy, on>>

-----------------------------------------------------------------------------
(* Time, commands, shutdown *)

Ages(s) ==
  /\ s \in table \ stale
  /\ stale' = stale \cup {s}
  /\ UNCHANGED <<table, active, closing, creating, shut, dying, runtime, busy, threads>>

CommandsEnd(s) ==
  /\ s \in busy
  /\ busy' = busy \ {s}
  /\ UNCHANGED <<records, creating, shut, dying, runtime, threads>>

Shutdown ==
  /\ ~shut
  /\ shut' = TRUE /\ dying' = table /\ table' = {}
  /\ UNCHANGED <<active, closing, stale, creating, runtime, busy, threads>>

ShutdownOne(s) ==
  /\ s \in dying
  /\ dying' = dying \ {s}
  /\ runtime' = [runtime EXCEPT ![s] = "closed"]
  /\ busy' = busy \ {s}
  /\ UNCHANGED <<records, creating, shut, threads>>

RequestStep(r) ==
  \/ \E s \in Sessions : CloseRuntime(r, s) \/ Evict(r, s) \/ Build(r, s)
  \/ Refuse(r) \/ Reserve(r) \/ Install(r) \/ InstallRefused(r)
  \/ Unreserve(r) \/ Discard(r)
  \/ Get(r) \/ GetUnknown(r) \/ Serve(r)
  \/ Delete(r, "delete", "done") \/ Delete(r, "drop", "release")
  \/ ReleaseGone(r) \/ Release(r)

ClientStep(r) ==
  \/ BeginInitialize(r)
  \/ \E s \in Sessions : BeginPost(r, s) \/ BeginDelete(r, s)

Next ==
  \/ \E r \in Requests : ClientStep(r) \/ RequestStep(r) \/ BuildFails(r) \/ ServeFails(r)
  \/ \E s \in Sessions : Ages(s) \/ CommandsEnd(s) \/ ShutdownOne(s)
  \/ Shutdown

Spec == Init /\ [][Next]_vars

(* Threads run, and requests are answered. *)
Fairness ==
  /\ \A r \in Requests : WF_vars(RequestStep(r) \/ BuildFails(r))
  /\ \A s \in Sessions : WF_vars(ShutdownOne(s))
FairSpec == Spec /\ Fairness

-----------------------------------------------------------------------------
TypeOK ==
  /\ table \subseteq Sessions /\ active \in [Sessions -> Nat]
  /\ closing \subseteq Sessions /\ stale \subseteq Sessions
  /\ creating \in Nat /\ shut \in BOOLEAN /\ dying \subseteq Sessions
  /\ runtime \in [Sessions -> {"none", "open", "closed"}] /\ busy \subseteq Sessions
  /\ pc \in [Requests -> Steps] /\ on \in [Requests -> Sessions \cup {None}]
  /\ doomed \in [Requests -> SUBSET Sessions]

(* MAX_HTTP_SESSIONS bounds the sessions together with those that are      *)
(* being created, however creations, evictions and deletions interleave.   *)
SessionsBounded ==
  Cardinality(table) +
    Cardinality({r \in Requests : pc[r] \in {"build", "install"}}) <= MaxSessions

(* No Runtime is closed under a request it is serving, unless the server   *)
(* shuts down: eviction, expiry and deletion wait for active_requests.     *)
ServedOpen ==
  \A r \in Requests :
    pc[r] \in {"installed", "initialize", "drop", "serve", "release"} /\ ~shut =>
      on[r] \in table /\ runtime[on[r]] = "open"

(* Every open Runtime is in the table or somebody is about to install or   *)
(* close it: none is leaked by a failed creation, a shutdown during a      *)
(* creation, or a deletion racing a release.                               *)
NoOrphan ==
  \A s \in Sessions :
    runtime[s] = "open" =>
      \/ s \in table \cup dying
      \/ \E r \in Requests :
           \/ s \in doomed[r]
           \/ on[r] = s /\ pc[r] \in {"install", "refused"}

(* Eviction and expiry never close a Runtime with commands in it; only a   *)
(* deletion or the shutdown does.                                          *)
BusySpared ==
  [][\A s \in busy : runtime'[s] # runtime[s] => s \in closing \/ shut]_vars

(* A deleted session is closed, once the requests in progress are over. *)
DeletedCloses == \A s \in Sessions : s \in closing ~> runtime[s] = "closed"
=============================================================================
