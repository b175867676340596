--------------------------- MODULE LogicalContexts ---------------------------
(***************************************************************************)
(* Logical contexts of the HTTP server: LogicalContextRegistry             *)
(* (coding_tools_mcp/session_state.py), their use by Runtime.call_tool     *)
(* (server.py), and the managed worktrees that keep writers apart          *)
(* (managed_worktree.py).                                                  *)
(*                                                                         *)
(* An MCP transport session owns a Runtime, which remembers one context    *)
(* and the project and workspace its last call used.  A call retains its   *)
(* context, takes the context's lock, copies the context's roots into the  *)
(* Runtime, claims a workspace if its tool may write, runs the tool,       *)
(* copies the roots back, unlocks and releases.  The registry's own lock   *)
(* makes each registry operation atomic; nothing else is.                  *)
(*                                                                         *)
(* default_cwd is left out: it moves with the workspace root.              *)
(***************************************************************************)
EXTENDS Integers, FiniteSets, Sequences

CONSTANTS
  Contexts,     \* context ids; the bound on how many are ever created
  Runtimes,     \* MCP transport sessions
  Threads,      \* HTTP worker threads
  Projects,     \* canonical project roots
  Default,      \* the project the server was started with
  Main,         \* the canonical checkout of a project
  None,         \* no context, no runtime, no tool
  MaxContexts,  \* MAX_LOGICAL_CONTEXTS
  MaxFaults,    \* bound on new sessions and on failures of a bind
  Tools,        \* the kinds of tools that clients call
  Explicit,     \* clients pass the context_id of another session
  Pipelined     \* clients have several calls in progress on one session

ASSUME MaxContextsAssumption == MaxContexts \in Nat \ {0}
ASSUME MaxFaultsAssumption == MaxFaults \in Nat
ASSUME ToolsAssumption == Tools \subseteq {"read", "write", "job", "select"}
ASSUME ModesAssumption == Explicit \in BOOLEAN /\ Pipelined \in BOOLEAN
ASSUME NamesAssumption ==
  /\ Default \in Projects
  /\ Main \notin Contexts
  /\ None \notin Contexts \cup Runtimes \cup Tools
  /\ IsFiniteSet(Runtimes) /\ IsFiniteSet(Threads)

VARIABLES
  live,     \* registered contexts, the one seen longest ago first
  created,  \* every context id handed out
  ctx,      \* per context: its LogicalContextState
  rt,       \* per runtime: its roots and logical_context_id
  tree,     \* managed worktrees: "none", "clean", or "kept" when not removable
  branches, \* the devmcp/context-... branches
  doomed,   \* workspaces given to the expire callback
  job,      \* per runtime: a background command and its shared job record
  call,     \* per thread: the call in progress
  faults

vars == <<live, created, ctx, rt, tree, branches, doomed, job, call, faults>>

(* A workspace is a project's canonical checkout or a context's worktree. *)
Workspaces == Projects \X (Contexts \cup {Main})
Canonical(p) == <<p, Main>>
Worktree(p, c) == <<p, c>>
Exists(w) == w[2] = Main \/ tree[w] # "none"

ContextState == [project : Projects \cup {None}, workspace : Workspaces \cup {None},
                 claimed : BOOLEAN, leases : Nat]
RuntimeState == [project : Projects, workspace : Workspaces,
                 context : Contexts \cup {None}]
Steps == {"idle", "retain", "create", "again", "lock", "apply", "claim", "bind",
          "rebind", "handler", "save", "release"}
CallState == [step : Steps, runtime : Runtimes \cup {None},
              context : Contexts \cup {None},
              tool : Tools \cup {None}]
Fresh(p, w) == [project |-> p, workspace |-> w, claimed |-> FALSE, leases |-> 0]
NoState == Fresh(None, None)
NoCall == [step |-> "idle", runtime |-> None, context |-> None, tool |-> None]

NewRuntime == [project |-> Default, workspace |-> Canonical(Default), context |-> None]

Live == {live[k] : k \in DOMAIN live}
Isolated(c) == ctx[c].workspace # Canonical(ctx[c].project)

(* The sequence s, which has c once, without it *)
Without(s, c) ==
  LET k == CHOOSE i \in DOMAIN s : s[i] = c
  IN  [i \in 1..(Len(s) - 1) |-> IF i < k THEN s[i] ELSE s[i + 1]]

(* release: the lease is given back and last_seen renewed.  (last_seen     *)
(* decides only which context without lease goes first, so the touches of  *)
(* a leased context are left out.)                                         *)
Released(c) ==
  IF c \notin Live THEN UNCHANGED <<live, ctx>>
  ELSE /\ live' = Append(Without(live, c), c)
       /\ ctx' = [ctx EXCEPT ![c].leases = IF @ > 0 THEN @ - 1 ELSE 0]

Goto(t, step) == call' = [call EXCEPT ![t].step = step]
Leave(t) == call' = [call EXCEPT ![t].step = "release", ![t].tool = None]

(* The threads between retain and release, and those inside the lock. *)
Holding(c) == {t \in Threads :
  call[t].context = c /\ call[t].step \in Steps \ {"idle", "retain", "create", "again"}}
Inside(c) == {t \in Holding(c) : call[t].step \notin {"lock", "release"}}

Init ==
  /\ live = <<>> /\ created = {}
  /\ ctx = [c \in Contexts |-> NoState]
  /\ rt = [r \in Runtimes |-> NewRuntime]
  /\ tree = [w \in Workspaces |-> "none"]
  /\ branches = {}
  /\ doomed = {}
  /\ job = [r \in Runtimes |-> [context |-> None, running |-> FALSE]]
  /\ call = [t \in Threads |-> NoCall]
  /\ faults = 0

-----------------------------------------------------------------------------
(* The registry's end of a context *)

(* prune: a context without lease has not been seen for the TTL, which is  *)
(* much longer than the gap between create and retain.                     *)
Prune(c) ==
  /\ c \in Live
  /\ ctx[c].leases = 0
  /\ \A t \in Threads : call[t].step \in {"retain", "again"} => call[t].context # c
  /\ live' = Without(live, c)
  /\ ctx' = [ctx EXCEPT ![c] = NoState]
  /\ doomed' = IF Isolated(c) THEN doomed \cup {ctx[c].workspace} ELSE doomed
  /\ UNCHANGED <<created, rt, tree, branches, job, call, faults>>

(* cleanup_context_worktree, cleanup_managed_worktree: the branch stays,   *)
(* and so does a worktree with changes (or that git will not remove).      *)
CleanupWorktree(w) ==
  /\ w \in doomed
  /\ doomed' = doomed \ {w}
  /\ tree' = [tree EXCEPT ![w] = IF @ = "clean" THEN "none" ELSE @]
  /\ UNCHANGED <<live, created, ctx, rt, branches, job, call, faults>>

-----------------------------------------------------------------------------
(* call_tool, up to the handler *)

(* A request arrives, with or without a context_id. *)
Begin(t, r, tool, requested) ==
  /\ call[t].step = "idle"
  /\ Pipelined \/ \A u \in Threads : call[u].step # "idle" => call[u].runtime # r
  /\ requested # None => Explicit /\ requested \in created
  /\ LET own == requested = None
         c   == IF own THEN rt[r].context ELSE requested
     IN  call' = [call EXCEPT ![t] =
           [step |-> IF own THEN IF c = None THEN "create" ELSE "retain"
                     ELSE IF c \in Live THEN "lock"
                     ELSE "release",                           \* CONTEXT_NOT_FOUND
            runtime |-> r, context |-> c, tool |-> tool]]
  /\ IF requested \in Live
       THEN ctx' = [ctx EXCEPT ![requested].leases = @ + 1]
       ELSE UNCHANGED ctx
  /\ UNCHANGED <<live, created, rt, tree, branches, doomed, job, faults>>

(* retain of the session's own context; "again" is the retain after the    *)
(* second create, whose assertion fails if the context is gone already.    *)
Retain(t) ==
  /\ call[t].step \in {"retain", "again"}
  /\ LET c == call[t].context
     IN  IF c \in Live
           THEN /\ ctx' = [ctx EXCEPT ![c].leases = @ + 1]
                /\ Goto(t, "lock")
           ELSE /\ IF call[t].step = "retain" THEN Goto(t, "create") ELSE Leave(t)
                /\ UNCHANGED ctx
  /\ UNCHANGED <<live, created, rt, tree, branches, doomed, job, faults>>

Evictable == {k \in DOMAIN live : ctx[live[k]].leases = 0}

(* Mutant: one context too many. *)
FullTooLate == Len(live) > MaxContexts

Full == Len(live) >= MaxContexts

(* create, from the roots of the runtime.  resolve(strict=True) fails when *)
(* the workspace is gone, after a victim has left the registry and before  *)
(* its worktree is handed to the callback.                                 *)
Create(t, c) ==
  LET r == call[t].runtime
      oldest == live[CHOOSE k \in Evictable : \A j \in Evictable : k <= j]
      victims == IF Full THEN {oldest} ELSE {}
      rest == IF Full THEN Without(live, oldest) ELSE live
      left == [d \in Contexts |-> IF d \in victims THEN NoState ELSE ctx[d]]
  IN
  /\ call[t].step = "create"
  /\ c \in Contexts \ created
  /\ ~Full \/ Evictable # {}
  /\ IF Exists(rt[r].workspace)
       THEN /\ live' = Append(rest, c)
            /\ created' = created \cup {c}
            /\ ctx' = [left EXCEPT ![c] = Fresh(rt[r].project, rt[r].workspace)]
            /\ rt' = [rt EXCEPT ![r].context = c]
            /\ call' = [call EXCEPT ![t].context = c,
                 ![t].step = IF call[t].context = None THEN "retain" ELSE "again"]
            /\ doomed' = doomed \cup {ctx[d].workspace : d \in {v \in victims : Isolated(v)}}
       ELSE /\ live' = rest
            /\ ctx' = left
            /\ Leave(t)
            /\ UNCHANGED <<created, rt, doomed>>
  /\ UNCHANGED <<tree, branches, job, faults>>

(* SERVICE_UNAVAILABLE *)
CreateRefused(t) ==
  /\ call[t].step = "create"
  /\ Full /\ Evictable = {}
  /\ Leave(t)
  /\ UNCHANGED <<live, created, ctx, rt, tree, branches, doomed, job, faults>>

Lock(t) ==
  /\ call[t].step = "lock"
  /\ Inside(call[t].context) = {}
  /\ Goto(t, "apply")
  /\ UNCHANGED <<live, created, ctx, rt, tree, branches, doomed, job, faults>>

(* Mutant: a context of the same project is taken to be in place already. *)
ApplyProjectOnly(t) ==
  LET c == call[t].context
      r == call[t].runtime
      claims == call[t].tool \in {"write", "job"}
  IN
  /\ call[t].step \in {"apply", "rebind"}
  /\ rt' = IF rt[r].project = ctx[c].project THEN rt
           ELSE [rt EXCEPT ![r].project = ctx[c].project,
                           ![r].workspace = ctx[c].workspace]
  /\ Goto(t, IF call[t].step = "apply" /\ claims THEN "claim" ELSE "handler")
  /\ UNCHANGED <<live, created, ctx, tree, branches, doomed, job, faults>>

(* _apply_logical_context_state, at the start of a call and after a bind *)
Apply(t) ==
  LET c == call[t].context
      r == call[t].runtime
      moved == <<rt[r].project, rt[r].workspace>> # <<ctx[c].project, ctx[c].workspace>>
      claims == call[t].tool \in {"write", "job"}
  IN
  /\ call[t].step \in {"apply", "rebind"}
  /\ \/ /\ ~Exists(ctx[c].workspace)                 \* CONTEXT_INVALID
        /\ Leave(t)
        /\ UNCHANGED rt
     \/ /\ Exists(ctx[c].workspace)
        /\ moved /\ job[r].running                   \* INVALID_STATE
        /\ Leave(t)
        /\ UNCHANGED rt
     \/ /\ Exists(ctx[c].workspace)
        /\ ~(moved /\ job[r].running)
        /\ rt' = [rt EXCEPT ![r].project = ctx[c].project,
                            ![r].workspace = ctx[c].workspace]
        /\ Goto(t, IF call[t].step = "apply" /\ claims THEN "claim" ELSE "handler")
  /\ UNCHANGED <<live, created, ctx, tree, branches, doomed, job, faults>>

(* claim_mutation_workspace and the decision to isolate *)
Contended(c) ==
  \E d \in Live \ {c} : ctx[d].claimed /\ ctx[d].project = ctx[c].project

Claim(t) ==
  LET c == call[t].context
      isolate == ~ctx[c].claimed /\ Contended(c) /\ ~Isolated(c)
  IN
  /\ call[t].step = "claim"
  /\ ctx' = [ctx EXCEPT ![c].claimed = TRUE]
  /\ Goto(t, IF isolate THEN "bind" ELSE "handler")
  /\ UNCHANGED <<live, created, rt, tree, branches, doomed, job, faults>>

(* create_managed_worktree needs a new branch and a new directory. *)
CanAdd(p, c) == Worktree(p, c) \notin branches /\ tree[Worktree(p, c)] = "none"

Added(p, c) ==
  /\ tree' = [tree EXCEPT ![Worktree(p, c)] = "clean"]
  /\ branches' = branches \cup {Worktree(p, c)}

Bind(t) ==
  LET c == call[t].context
      p == ctx[c].project
  IN
  /\ call[t].step = "bind"
  /\ IF CanAdd(p, c)
       THEN /\ Added(p, c)
            /\ ctx' = [ctx EXCEPT ![c].workspace = Worktree(p, c)]
            /\ Goto(t, "rebind")
       ELSE /\ ctx' = [ctx EXCEPT ![c].claimed = FALSE]
            /\ Leave(t)                \* GIT_ERROR
            /\ UNCHANGED <<tree, branches>>
  /\ UNCHANGED <<live, created, rt, doomed, job, faults>>

(* Mapping default_cwd fails after the worktree was added: it is neither   *)
(* bound nor removed, and the claim is not rolled back.                    *)
BindFails(t) ==
  LET c == call[t].context
  IN
  /\ call[t].step = "bind"
  /\ faults < MaxFaults /\ faults' = faults + 1
  /\ CanAdd(ctx[c].project, c)
  /\ Added(ctx[c].project, c)
  /\ Leave(t)
  /\ UNCHANGED <<live, created, ctx, rt, doomed, job>>

-----------------------------------------------------------------------------
(* Handlers: they see the roots of the runtime. *)

(* A tool that reads, or a command that ends within its call and changes   *)
(* nothing.                                                                *)
Observe(t) ==
  /\ call[t].step = "handler" /\ call[t].tool \in {"read", "job"}
  /\ Goto(t, "save")
  /\ UNCHANGED <<live, created, ctx, rt, tree, branches, doomed, job, faults>>

(* apply_patch, git_commit, a command that ends within its call: leaves    *)
(* the checkout dirty or clean.                                            *)
Mutate(t) ==
  LET w == rt[call[t].runtime].workspace
  IN
  /\ call[t].step = "handler" /\ call[t].tool = "write"
  /\ Goto(t, "save")
  /\ IF tree[w] = "none" THEN UNCHANGED tree
     ELSE \E s \in {"clean", "kept"} : tree' = [tree EXCEPT ![w] = s]
  /\ UNCHANGED <<live, created, ctx, rt, branches, doomed, job, faults>>

(* A command that outlives the call; SharedJobRegistry.register retains    *)
(* the context for its job record.                                         *)
StartJob(t) ==
  LET c == call[t].context
      r == call[t].runtime
  IN
  /\ call[t].step = "handler" /\ call[t].tool = "job"
  /\ job[r].context = None
  /\ job' = [job EXCEPT ![r] = [context |-> c, running |-> TRUE]]
  /\ ctx' = [ctx EXCEPT ![c].leases = @ + 1]
  /\ Goto(t, "save")
  /\ UNCHANGED <<live, created, rt, tree, branches, doomed, faults>>

SelectProject(t, p) ==
  LET r == call[t].runtime
      c == call[t].context
      stays == p = rt[r].project /\ rt[r].workspace # Canonical(p)
      running == \E s \in Runtimes : job[s].running /\ (s = r \/ job[s].context = c)
  IN
  /\ call[t].step = "handler" /\ call[t].tool = "select"
  /\ \/ /\ stays
        /\ Goto(t, "save") /\ UNCHANGED rt
     \/ /\ ~stays /\ running                         \* INVALID_STATE
        /\ Leave(t) /\ UNCHANGED rt
     \/ /\ ~stays /\ ~running
        /\ rt' = [rt EXCEPT ![r].project = p, ![r].workspace = Canonical(p)]
        /\ Goto(t, "save")
  /\ UNCHANGED <<live, created, ctx, tree, branches, doomed, job, faults>>

(* Mutant: a context that changes its project keeps its claim. *)
SaveKeepsClaim(t) ==
  LET c == call[t].context
      r == call[t].runtime
  IN
  /\ call[t].step = "save"
  /\ ctx' = [ctx EXCEPT ![c].project = rt[r].project,
                        ![c].workspace = rt[r].workspace]
  /\ Leave(t)
  /\ UNCHANGED <<live, created, rt, tree, branches, doomed, job, faults>>

(* _save_logical_context_state, LogicalContextRegistry.update: a context   *)
(* that left its project gives up its claim and its worktree.              *)
Save(t) ==
  LET c == call[t].context
      r == call[t].runtime
      left == ctx[c].project # rt[r].project
  IN
  /\ call[t].step = "save"
  /\ IF Exists(rt[r].workspace)
       THEN /\ ctx' = [ctx EXCEPT ![c] =
                 [project |-> rt[r].project, workspace |-> rt[r].workspace,
                  claimed |-> @.claimed /\ ~left, leases |-> @.leases]]
            /\ doomed' = IF left /\ Isolated(c)
                           THEN doomed \cup {ctx[c].workspace} ELSE doomed
            /\ Leave(t)
       ELSE /\ Leave(t)
            /\ UNCHANGED <<ctx, doomed>>
  /\ UNCHANGED <<live, created, rt, tree, branches, job, faults>>

(* finally: the lock is released, then the lease *)
Release(t) ==
  /\ call[t].step = "release"
  /\ call' = [call EXCEPT ![t] = NoCall]
  /\ Released(call[t].context)
  /\ UNCHANGED <<created, rt, tree, branches, doomed, job, faults>>

-----------------------------------------------------------------------------
(* Sessions and jobs *)

(* The transport session ends and its client, or another one, opens a new  *)
(* one; contexts stay until they expire.  (Sessions that end with a        *)
(* command running are left out: module ExecSessions.)                     *)
Reconnect(r) ==
  /\ \A t \in Threads : call[t].step # "idle" => call[t].runtime # r
  /\ ~job[r].running
  /\ rt[r].context # None
  /\ faults < MaxFaults /\ faults' = faults + 1
  /\ rt' = [rt EXCEPT ![r] = NewRuntime]
  /\ UNCHANGED <<live, created, ctx, tree, branches, doomed, job, call>>

JobExits(r) ==
  /\ job[r].running
  /\ job' = [job EXCEPT ![r].running = FALSE]
  /\ UNCHANGED <<live, created, ctx, rt, tree, branches, doomed, call, faults>>

(* Mutant: the record goes and its lease stays. *)
JobPrunedLeaks(r) ==
  /\ job[r].context # None /\ ~job[r].running
  /\ job' = [job EXCEPT ![r].context = None]
  /\ UNCHANGED <<live, ctx, created, rt, tree, branches, doomed, call, faults>>

(* SharedJobRegistry.prune or remove: the record and its lease go. *)
JobPruned(r) ==
  /\ job[r].context # None /\ ~job[r].running
  /\ job' = [job EXCEPT ![r].context = None]
  /\ Released(job[r].context)
  /\ UNCHANGED <<created, rt, tree, branches, doomed, call, faults>>

CallStep(t) ==
  \/ Retain(t) \/ (\E c \in Contexts : Create(t, c)) \/ CreateRefused(t)
  \/ Lock(t) \/ Apply(t) \/ Claim(t) \/ Bind(t) \/ BindFails(t)
  \/ Observe(t) \/ Mutate(t) \/ StartJob(t)
  \/ (\E p \in Projects : SelectProject(t, p))
  \/ Save(t) \/ Release(t)

Next ==
  \/ \E t \in Threads :
       \/ CallStep(t)
       \/ \E r \in Runtimes, k \in Tools, c \in Contexts \cup {None} : Begin(t, r, k, c)
  \/ \E c \in Contexts : Prune(c)
  \/ \E w \in Workspaces : CleanupWorktree(w)
  \/ \E r \in Runtimes : Reconnect(r) \/ JobExits(r) \/ JobPruned(r)

Spec == Init /\ [][Next]_vars

-----------------------------------------------------------------------------
TypeOK ==
  /\ live \in Seq(Contexts) /\ Len(live) <= MaxContexts
  /\ Cardinality(Live) = Len(live) /\ Live \subseteq created
  /\ created \subseteq Contexts
  /\ ctx \in [Contexts -> ContextState]
  /\ rt \in [Runtimes -> RuntimeState]
  /\ tree \in [Workspaces -> {"none", "clean", "kept"}]
  /\ branches \subseteq Workspaces /\ doomed \subseteq Workspaces
  /\ job \in [Runtimes -> [context : Contexts \cup {None}, running : BOOLEAN]]
  /\ call \in [Threads -> CallState]
  /\ faults \in 0..MaxFaults

(* A context is registered, and leased once for each call and each job     *)
(* record that uses it, as long as one does: it never expires under them,  *)
(* and nothing keeps it from expiring afterwards.                          *)
LeasesExact ==
  /\ \A c \in Live :
       ctx[c].leases = Cardinality(Holding(c))
                         + Cardinality({r \in Runtimes : job[r].context = c})
  /\ \A t \in Threads :
       call[t].step \notin {"idle", "retain", "create", "again", "release"} =>
         call[t].context \in Live
  /\ \A r \in Runtimes : job[r].context # None => job[r].context \in Live

(* Every tool runs in the project and the workspace of its context. *)
RoutedToOwnWorkspace ==
  \A t \in Threads : call[t].step = "handler" =>
    LET r == rt[call[t].runtime]
        c == ctx[call[t].context]
    IN  r.project = c.project /\ r.workspace = c.workspace

(* "Contexts are isolated from one another": no two registered contexts    *)
(* change the same workspace.  (One that still waits for its worktree      *)
(* changes none.)                                                          *)
Owns(c, w) ==
  /\ ctx[c].claimed /\ ctx[c].workspace = w
  /\ \A t \in Threads : call[t].context = c => call[t].step # "bind"

ContextsIsolated ==
  \A c, d \in Live, w \in Workspaces : Owns(c, w) /\ Owns(d, w) => c = d
=============================================================================
