------------------------ MODULE LogicalContextsProofs ------------------------
(***************************************************************************)
(* Theorems about logical contexts, for any number of contexts, sessions,  *)
(* threads and projects: leases are exact; tools run in the workspace of   *)
(* their context as long as a session has one call at a time; and contexts *)
(* do not share a workspace they write to, as long as sessions keep to     *)
(* their own contexts and nothing fails.                                   *)
(***************************************************************************)
EXTENDS LogicalContexts, FiniteSetTheorems, TLAPS

-----------------------------------------------------------------------------
(* The registry's invariant.  A call holds a lease from its retain to its  *)
(* release, and is alone within the lock of its context.                   *)

Early == {"idle", "retain", "create", "again"}
Held == Steps \ Early
Within == Held \ {"lock", "release"}

Elems(s) == {s[k] : k \in DOMAIN s}
Distinct(s) == \A j, k \in DOMAIN s : s[j] = s[k] => j = k
JobsOf(c) == {r \in Runtimes : job[r].context = c}

RegistryType ==
  /\ live \in Seq(Contexts) /\ Len(live) <= MaxContexts
  /\ Distinct(live) /\ Live \subseteq created
  /\ created \subseteq Contexts
  /\ ctx \in [Contexts -> ContextState]
  /\ rt \in [Runtimes -> RuntimeState]
  /\ tree \in [Workspaces -> {"none", "clean", "kept"}]
  /\ branches \subseteq Workspaces /\ doomed \subseteq Workspaces
  /\ job \in [Runtimes -> [context : Contexts \cup {None}, running : BOOLEAN]]
  /\ call \in [Threads -> CallState]
  /\ faults \in 0..MaxFaults

CallInv(t) ==
  /\ call[t].context \in created \cup {None}
  /\ call[t].step # "idle" => call[t].runtime \in Runtimes
  /\ call[t].step = "create" => call[t].context \notin Live
  /\ call[t].step \in Held \ {"release"} => call[t].context \in Live

SessionInv(r) ==
  /\ rt[r].context \in created \cup {None}
  /\ job[r].context # None => job[r].context \in Live

ContextInv(c) ==
  c \in Live =>
    /\ ctx[c].project \in Projects /\ ctx[c].workspace \in Workspaces
    /\ ctx[c].leases = Cardinality(Holding(c)) + Cardinality(JobsOf(c))

OneInside ==
  \A t, u \in Threads :
    call[t].step \in Within /\ call[u].step \in Within /\ call[t].context = call[u].context
      => t = u

RegistryInv ==
  /\ RegistryType
  /\ \A t \in Threads : CallInv(t)
  /\ \A r \in Runtimes : SessionInv(r)
  /\ \A c \in Contexts : ContextInv(c)
  /\ OneInside

-----------------------------------------------------------------------------
(* Calls that come one at a time on each session: the Runtime's roots are  *)
(* those of the context from the moment they are copied there.             *)

InPlace(t) ==
  LET r == rt[call[t].runtime]
      c == ctx[call[t].context]
  IN  /\ call[t].step \in {"claim", "bind", "handler"} =>
           r.project = c.project /\ r.workspace = c.workspace
      /\ call[t].step = "rebind" => r.project = c.project
      /\ call[t].step = "save" /\ r.project = c.project => r.workspace = c.workspace

OneCall ==
  \A t, u \in Threads :
    call[t].step # "idle" /\ call[u].step # "idle" /\ call[t].runtime = call[u].runtime
      => t = u

RoutedInv == OneCall /\ \A t \in Threads : InPlace(t)

-----------------------------------------------------------------------------
(* Sessions that keep to their own contexts *)

Managed(w) == w[2] # Main
Waits(c) == \E t \in Threads : call[t].context = c /\ call[t].step = "bind"

(* A call uses its session's context, and no two sessions have the same. *)
OwnContexts ==
  /\ \A t \in Threads :
       call[t].step # "idle" => call[t].context = rt[call[t].runtime].context
  /\ \A r, s \in Runtimes : rt[r].context = rt[s].context /\ rt[r].context # None => r = s

(* Roots go together, and a managed worktree has its branch. *)
GoodRoots(x) ==
  /\ x.workspace[1] = x.project
  /\ Managed(x.workspace) => x.workspace \in branches

(* A managed worktree is that of one session and of one context. *)
NotShared ==
  /\ \A r, s \in Runtimes :
       rt[r].workspace = rt[s].workspace /\ Managed(rt[r].workspace) => r = s
  /\ \A r \in Runtimes, c \in Live :
       rt[r].workspace = ctx[c].workspace /\ Managed(ctx[c].workspace) => rt[r].context = c
  /\ \A c, d \in Live :
       ctx[c].workspace = ctx[d].workspace /\ Managed(ctx[c].workspace) => c = d

Apart ==
  /\ OwnContexts /\ NotShared
  /\ \A r \in Runtimes : GoodRoots(rt[r])
  /\ \A c \in Live : GoodRoots(ctx[c])

(* Of the contexts that may write to a canonical checkout, one is left. *)
Claims ==
  \A c, d \in Live :
    /\ ctx[c].claimed /\ ~Isolated(c) /\ ~Waits(c)
    /\ ctx[d].claimed /\ ~Isolated(d) /\ ~Waits(d)
    /\ ctx[c].project = ctx[d].project
    => c = d

IsolationInv == faults = 0 => Apart /\ Claims

-----------------------------------------------------------------------------
(* The sequence of registered contexts *)

LEMMA LiveWithout ==
  ASSUME NEW S, NEW s \in Seq(S), Distinct(s), NEW c \in Elems(s)
  PROVE  /\ Without(s, c) \in Seq(S) /\ Len(Without(s, c)) = Len(s) - 1
         /\ Distinct(Without(s, c))
         /\ Elems(Without(s, c)) = Elems(s) \ {c}
<1> DEFINE k == CHOOSE i \in DOMAIN s : s[i] = c
           w == Without(s, c)
<1>1. k \in DOMAIN s /\ s[k] = c
  BY DEF Elems
<1>2. Len(s) \in Nat /\ DOMAIN s = 1..Len(s) /\ \A i \in 1..Len(s) : s[i] \in S
  OBVIOUS
<1>3. w = [i \in 1..(Len(s) - 1) |-> IF i < k THEN s[i] ELSE s[i + 1]]
  BY DEF Without
<1> HIDE DEF k, w
<1>4. Len(s) - 1 \in Nat /\ k \in 1..Len(s)
  BY <1>1, <1>2
<1>5. DOMAIN w = 1..(Len(s) - 1) /\ \A i \in 1..(Len(s) - 1) :
        w[i] = IF i < k THEN s[i] ELSE s[i + 1]
  BY <1>3
<1>6. \A i \in 1..(Len(s) - 1) : w[i] \in S
  BY <1>2, <1>4, <1>5
<1>7. w \in Seq(S) /\ Len(w) = Len(s) - 1
  BY <1>3, <1>4, <1>6
<1>8. Distinct(w)
  BY <1>2, <1>4, <1>5, SMTT(40) DEF Distinct
<1>9. Elems(w) \subseteq Elems(s) \ {c}
  BY <1>1, <1>2, <1>4, <1>5 DEF Distinct, Elems
<1>10. ASSUME NEW x \in Elems(s) \ {c} PROVE x \in Elems(w)
  <2>1. PICK i \in 1..Len(s) : s[i] = x
    BY <1>2 DEF Elems
  <2>2. i # k
    BY <1>1, <2>1
  <2>3. CASE i < k
    BY <1>4, <1>5, <2>1, <2>3, SMTT(40) DEF Elems
  <2>4. CASE i > k
    <3>1. i - 1 \in 1..(Len(s) - 1) /\ w[i - 1] = s[i]
      BY <1>2, <1>4, <1>5, <2>4
    <3> QED  BY <1>5, <2>1, <3>1 DEF Elems
  <2> QED  BY <1>4, <2>2, <2>3, <2>4
<1> QED  BY <1>7, <1>8, <1>9, <1>10 DEF w

LEMMA LiveAppended ==
  ASSUME NEW S, NEW s \in Seq(S), Distinct(s), NEW c \in S, c \notin Elems(s)
  PROVE  /\ Append(s, c) \in Seq(S) /\ Len(Append(s, c)) = Len(s) + 1
         /\ Distinct(Append(s, c))
         /\ Elems(Append(s, c)) = Elems(s) \cup {c}
<1>0. PICK a : a = Append(s, c)
  OBVIOUS
<1>1. a \in Seq(S) /\ Len(a) = Len(s) + 1 /\ a[Len(s) + 1] = c
      /\ \A i \in 1..Len(s) : a[i] = s[i]
  BY <1>0
<1>2. DOMAIN a = 1..(Len(s) + 1) /\ DOMAIN s = 1..Len(s) /\ Len(s) \in Nat
  BY <1>1
<1>3. \A i \in 1..Len(s) : s[i] # c
  BY <1>2 DEF Elems
<1>4. Distinct(a)
  BY <1>1, <1>2, <1>3 DEF Distinct
<1>5. Elems(a) \subseteq Elems(s) \cup {c}
  BY <1>1, <1>2 DEF Elems
<1>6. Elems(s) \cup {c} \subseteq Elems(a)
  BY <1>1, <1>2 DEF Elems
<1> QED  BY <1>0, <1>1, <1>4, <1>5, <1>6

(* As many contexts are registered as the sequence is long. *)
LEMMA DistinctCount ==
  ASSUME NEW S, NEW s \in Seq(S), Distinct(s)
  PROVE  Cardinality(Elems(s)) = Len(s)
<1>1. Len(s) \in Nat /\ DOMAIN s = 1..Len(s) /\ s \in [1..Len(s) -> Elems(s)]
  BY DEF Elems
<1>2. s \in Surjection(1..Len(s), Elems(s))
  BY <1>1 DEF Surjection, Elems
<1>3. s \in Injection(1..Len(s), Elems(s))
  BY <1>1 DEF Injection, IsInjective, Distinct
<1>4. s \in Bijection(1..Len(s), Elems(s))
  BY <1>2, <1>3 DEF Bijection
<1>5. ExistsBijection(1..Len(s), Elems(s))
  BY <1>4 DEF ExistsBijection
<1> QED  BY <1>1, <1>5, FS_CountingElements

-----------------------------------------------------------------------------
(* Leases *)

LEMMA FiniteHolders ==
  ASSUME NEW c
  PROVE  /\ IsFiniteSet(Holding(c)) /\ Cardinality(Holding(c)) \in Nat
         /\ IsFiniteSet(JobsOf(c)) /\ Cardinality(JobsOf(c)) \in Nat
<1>1. Holding(c) \in SUBSET Threads /\ JobsOf(c) \in SUBSET Runtimes
  BY DEF Holding, JobsOf
<1> QED  BY <1>1, NamesAssumption, FS_Subset, FS_CardinalityType

(* A registered context without lease is used by nobody. *)
LEMMA Unleased ==
  ASSUME RegistryInv, NEW c \in Live, ctx[c].leases = 0
  PROVE  Holding(c) = {} /\ JobsOf(c) = {}
<1>1. c \in Contexts
  BY DEF RegistryInv, RegistryType
<1>2. Cardinality(Holding(c)) + Cardinality(JobsOf(c)) = 0
  BY <1>1 DEF RegistryInv, ContextInv
<1>3. Cardinality(Holding(c)) = 0 /\ Cardinality(JobsOf(c)) = 0
  BY <1>2, FiniteHolders
<1> QED  BY <1>3, FiniteHolders, FS_EmptySet

-----------------------------------------------------------------------------
(* A call that holds its lease and goes on *)

Caller(t, r, c) ==
  /\ call[t].runtime = r /\ call[t].context = c
  /\ r \in Runtimes /\ c \in Live /\ c \in Contexts
  /\ rt[r] \in RuntimeState /\ ctx[c] \in ContextState
  /\ ctx[c].project \in Projects /\ ctx[c].workspace \in Workspaces

LEMMA CallerFacts ==
  ASSUME RegistryInv, NEW t \in Threads, call[t].step \in Held \ {"release"}
  PROVE  Caller(t, call[t].runtime, call[t].context)
<1>1. call[t].runtime \in Runtimes /\ call[t].context \in Live
  BY DEF RegistryInv, CallInv, Held, Early
<1>2. call[t].context \in Contexts
  BY <1>1 DEF RegistryInv, RegistryType
<1> QED  BY <1>1, <1>2 DEF Caller, RegistryInv, RegistryType, ContextInv

NewRoots(r, p, w) == rt' = [rt EXCEPT ![r].project = p, ![r].workspace = w]

(* The records of a runtime and of a context with new roots *)
LEMMA RuntimeRoots ==
  ASSUME RegistryInv, NEW r \in Runtimes, NEW p \in Projects, NEW w \in Workspaces,
         NewRoots(r, p, w)
  PROVE  /\ rt' \in [Runtimes -> RuntimeState]
         /\ rt'[r].project = p /\ rt'[r].workspace = w /\ rt'[r].context = rt[r].context
         /\ \A s \in Runtimes \ {r} : rt'[s] = rt[s]
<1>1. rt \in [Runtimes -> RuntimeState] /\ rt[r] \in RuntimeState
  BY DEF RegistryInv, RegistryType
<1>2. PICK q : q = [rt[r] EXCEPT !.project = p, !.workspace = w]
  OBVIOUS
<1>3. q \in RuntimeState /\ q.project = p /\ q.workspace = w /\ q.context = rt[r].context
  BY <1>1, <1>2 DEF RuntimeState
<1>4. rt' = [rt EXCEPT ![r] = q]
  BY <1>1, <1>2 DEF NewRoots
<1> QED  BY <1>1, <1>3, <1>4

LEMMA ContextChanged ==
  ASSUME RegistryInv, NEW c \in Contexts, NEW q \in ContextState, ctx' = [ctx EXCEPT ![c] = q]
  PROVE  /\ ctx' \in [Contexts -> ContextState]
         /\ ctx'[c] = q
         /\ \A d \in Contexts \ {c} : ctx'[d] = ctx[d]
BY DEF RegistryInv, RegistryType

Moved(t, s) ==
  /\ call' \in [Threads -> CallState]
  /\ call'[t].step = s
  /\ call'[t].context = call[t].context /\ call'[t].runtime = call[t].runtime
  /\ \A u \in Threads \ {t} : call'[u] = call[u]

LEMMA GotoSteps ==
  ASSUME RegistryInv, NEW t \in Threads, NEW s \in Steps, Goto(t, s)
  PROVE  Moved(t, s) /\ call'[t].tool = call[t].tool
BY DEF RegistryInv, RegistryType, Goto, Moved, CallState

LEMMA LeaveSteps ==
  ASSUME RegistryInv, NEW t \in Threads, Leave(t)
  PROVE  Moved(t, "release")
BY ZenonT(60) DEF RegistryInv, RegistryType, Leave, Moved, CallState, Steps

LEMMA GoesOn ==
  ASSUME RegistryInv, RegistryType', NEW t \in Threads, NEW s \in Held \ {"lock"},
         call[t].step \in Held \ {"release"}, Moved(t, s),
         call[t].step = "lock" => Inside(call[t].context) = {},
         live' = live, created' = created, job' = job,
         \A r \in Runtimes : rt'[r].context = rt[r].context,
         \A c \in Contexts : ctx'[c].leases = ctx[c].leases,
         \A c \in Live : ctx'[c].project \in Projects /\ ctx'[c].workspace \in Workspaces
  PROVE  RegistryInv'
<1>1. Live' = Live
  BY DEF Live
<1>2. \A u \in Threads : CallInv(u)'
  BY <1>1 DEF RegistryInv, CallInv, Moved, Held, Early
<1>3. \A r \in Runtimes : SessionInv(r)'
  BY <1>1 DEF RegistryInv, SessionInv
<1>4. \A c \in Contexts : ContextInv(c)'
  <2> SUFFICES ASSUME NEW c \in Contexts, c \in Live PROVE ContextInv(c)'
    BY <1>1 DEF ContextInv
  <2>1. Holding(c)' = Holding(c)
    BY DEF Holding, Moved, Held, Early
  <2>2. JobsOf(c)' = JobsOf(c)
    BY DEF JobsOf
  <2> QED  BY <2>1, <2>2 DEF ContextInv, RegistryInv
<1>5. OneInside'
  <2> SUFFICES ASSUME NEW u \in Threads, NEW v \in Threads, call'[u].step \in Within,
                      call'[v].step \in Within, call'[u].context = call'[v].context
               PROVE  u = v
    BY DEF OneInside
  <2>1. CASE call[t].step # "lock"
    <3>1. call[u].step \in Within /\ call[v].step \in Within
      BY <2>1 DEF Moved, Within
    <3> QED  BY <3>1 DEF RegistryInv, OneInside, Moved
  <2>2. CASE call[t].step = "lock"
    <3>1. \A x \in Threads :
            call[x].step \in Within => call[x].context # call[t].context
      BY <2>2 DEF Inside, Holding, Within, Held, Early
    <3> QED  BY <3>1 DEF RegistryInv, OneInside, Moved
  <2> QED  BY <2>1, <2>2
<1> QED  BY <1>2, <1>3, <1>4, <1>5 DEF RegistryInv

LEMMA LockInv ==
  ASSUME RegistryInv, NEW t \in Threads, Lock(t)
  PROVE  RegistryInv'
<1>1. Moved(t, "apply") /\ call[t].step = "lock"
  BY GotoSteps DEF Lock, Steps
<1>2. RegistryType'
  BY <1>1 DEF RegistryInv, RegistryType, Lock, Moved, Live
<1>3. \A c \in Live : ctx[c].project \in Projects /\ ctx[c].workspace \in Workspaces
  BY DEF RegistryInv, RegistryType, ContextInv
<1> QED  BY <1>1, <1>2, <1>3, GoesOn DEF Lock, Held, Early, Steps

LEMMA ApplyInv ==
  ASSUME RegistryInv, NEW t \in Threads, Apply(t)
  PROVE  RegistryInv'
<1> DEFINE r == call[t].runtime
           c == call[t].context
<1>1. call[t].step \in {"apply", "rebind"}
  BY DEF Apply
<1>2. Caller(t, r, c)
  BY <1>1, CallerFacts DEF Held, Early, Steps
<1>3. PICK s \in {"release", "claim", "handler"} : Moved(t, s)
  BY GotoSteps, LeaveSteps DEF Apply, Steps
<1>4. \/ rt' = rt
      \/ NewRoots(r, ctx[c].project, ctx[c].workspace)
  BY DEF Apply, NewRoots
<1> HIDE DEF r, c
<1>5. rt' \in [Runtimes -> RuntimeState] /\ \A q \in Runtimes : rt'[q].context = rt[q].context
  <2>1. CASE rt' = rt
    BY <2>1 DEF RegistryInv, RegistryType
  <2>2. CASE NewRoots(r, ctx[c].project, ctx[c].workspace)
    BY <1>2, <2>2, RuntimeRoots DEF Caller
  <2> QED  BY <1>4, <2>1, <2>2
<1>6. RegistryType'
  BY <1>3, <1>5 DEF RegistryInv, RegistryType, Apply, Moved, Live
<1>7. \A d \in Live : ctx[d].project \in Projects /\ ctx[d].workspace \in Workspaces
  BY DEF RegistryInv, RegistryType, ContextInv
<1> QED  BY <1>1, <1>3, <1>5, <1>6, <1>7, GoesOn DEF Apply, Held, Early, Steps

LEMMA ClaimInv ==
  ASSUME RegistryInv, NEW t \in Threads, Claim(t)
  PROVE  RegistryInv'
<1> DEFINE c == call[t].context
<1>1. call[t].step = "claim"
  BY DEF Claim
<1>2. Caller(t, call[t].runtime, c)
  BY <1>1, CallerFacts DEF Held, Early, Steps
<1>3. PICK s \in {"bind", "handler"} : Moved(t, s)
  BY GotoSteps DEF Claim, Steps
<1>4. ctx' = [ctx EXCEPT ![c].claimed = TRUE]
  BY DEF Claim
<1> HIDE DEF c
<1>5. /\ ctx' \in [Contexts -> ContextState]
      /\ \A d \in Contexts : /\ ctx'[d].leases = ctx[d].leases
                             /\ ctx'[d].project = ctx[d].project
                             /\ ctx'[d].workspace = ctx[d].workspace
  BY <1>2, <1>4 DEF RegistryInv, RegistryType, Caller, ContextState
<1>6. RegistryType'
  BY <1>3, <1>5 DEF RegistryInv, RegistryType, Claim, Moved, Live
<1>7. \A d \in Live : ctx'[d].project \in Projects /\ ctx'[d].workspace \in Workspaces
  BY <1>5 DEF RegistryInv, RegistryType, ContextInv
<1> QED  BY <1>1, <1>3, <1>5, <1>6, <1>7, GoesOn DEF Claim, Held, Early, Steps

LEMMA BindInv ==
  ASSUME RegistryInv, NEW t \in Threads, Bind(t) \/ BindFails(t)
  PROVE  RegistryInv'
<1> DEFINE c == call[t].context
           w == Worktree(ctx[c].project, c)
<1>1. call[t].step = "bind"
  BY DEF Bind, BindFails
<1>2. Caller(t, call[t].runtime, c)
  BY <1>1, CallerFacts DEF Held, Early, Steps
<1>3. PICK s \in {"rebind", "release"} : Moved(t, s)
  BY GotoSteps, LeaveSteps DEF Bind, BindFails, Steps
<1>4. w \in Workspaces
  BY <1>2 DEF Caller, Worktree, Workspaces
<1>5. \/ ctx' = ctx
      \/ ctx' = [ctx EXCEPT ![c].workspace = w]
      \/ ctx' = [ctx EXCEPT ![c].claimed = FALSE]
  BY DEF Bind, BindFails
<1>6. \/ UNCHANGED <<tree, branches>>
      \/ tree' = [tree EXCEPT ![w] = "clean"] /\ branches' = branches \cup {w}
  BY DEF Bind, BindFails, Added
<1> HIDE DEF c, w
<1>7. /\ ctx' \in [Contexts -> ContextState]
      /\ \A d \in Contexts : /\ ctx'[d].leases = ctx[d].leases
                             /\ ctx'[d].project = ctx[d].project
                             /\ ctx'[d].workspace \in {ctx[d].workspace, w}
  <2>1. ctx[c] \in ContextState /\ c \in Contexts /\ ctx \in [Contexts -> ContextState]
    BY <1>2 DEF Caller, RegistryInv, RegistryType
  <2>2. CASE ctx' = ctx
    BY <2>1, <2>2
  <2>3. CASE ctx' = [ctx EXCEPT ![c].workspace = w]
    <3>1. [ctx[c] EXCEPT !.workspace = w] \in ContextState
      BY <1>4, <2>1 DEF ContextState
    <3>2. ctx' = [ctx EXCEPT ![c] = [ctx[c] EXCEPT !.workspace = w]]
      BY <2>1, <2>3
    <3> QED  BY <2>1, <3>1, <3>2, ContextChanged DEF ContextState
  <2>4. CASE ctx' = [ctx EXCEPT ![c].claimed = FALSE]
    BY <2>1, <2>4 DEF ContextState
  <2> QED  BY <1>5, <2>2, <2>3, <2>4
<1>8. tree' \in [Workspaces -> {"none", "clean", "kept"}] /\ branches' \subseteq Workspaces
  BY <1>4, <1>6 DEF RegistryInv, RegistryType
<1>9. faults' \in 0..MaxFaults
  BY MaxFaultsAssumption DEF RegistryInv, RegistryType, Bind, BindFails
<1>10. UNCHANGED <<live, created, rt, doomed, job>>
  BY DEF Bind, BindFails
<1>11. RegistryType'
  BY <1>3, <1>7, <1>8, <1>9, <1>10 DEF RegistryInv, RegistryType, Moved, Live
<1>12. \A d \in Live : ctx'[d].project \in Projects /\ ctx'[d].workspace \in Workspaces
  BY <1>4, <1>7, SMTT(40) DEF RegistryInv, RegistryType, ContextInv
<1> QED  BY <1>1, <1>3, <1>7, <1>10, <1>11, <1>12, GoesOn DEF Held, Early, Steps

LEMMA HandlerInv ==
  ASSUME RegistryInv, NEW t \in Threads,
         Observe(t) \/ Mutate(t) \/ \E p \in Projects : SelectProject(t, p)
  PROVE  RegistryInv'
<1> DEFINE r == call[t].runtime
<1>1. call[t].step = "handler"
  BY DEF Observe, Mutate, SelectProject
<1>2. Caller(t, r, call[t].context)
  BY <1>1, CallerFacts DEF Held, Early, Steps
<1>3. PICK s \in {"save", "release"} : Moved(t, s)
  BY GotoSteps, LeaveSteps DEF Observe, Mutate, SelectProject, Steps
<1>4. \/ rt' = rt
      \/ \E p \in Projects :
           NewRoots(r, p, Canonical(p))
  BY DEF Observe, Mutate, SelectProject, NewRoots
<1>5. \A p \in Projects : Canonical(p) \in Workspaces
  BY DEF Canonical, Workspaces
<1>6. tree' = tree \/ \E x \in {"clean", "kept"} : tree' = [tree EXCEPT ![rt[r].workspace] = x]
  BY DEF Observe, Mutate, SelectProject
<1>7. UNCHANGED <<live, created, ctx, branches, doomed, job, faults>>
  BY DEF Observe, Mutate, SelectProject
<1> HIDE DEF r
<1>8. rt' \in [Runtimes -> RuntimeState] /\ \A q \in Runtimes : rt'[q].context = rt[q].context
  <2>1. CASE rt' = rt
    BY <2>1 DEF RegistryInv, RegistryType
  <2>2. CASE \E p \in Projects :
               NewRoots(r, p, Canonical(p))
    <3>1. PICK p \in Projects :
            NewRoots(r, p, Canonical(p))
      BY <2>2
    <3>2. r \in Runtimes /\ Canonical(p) \in Workspaces
      BY <1>2, <1>5 DEF Caller
    <3> QED  BY <3>1, <3>2, RuntimeRoots
  <2> QED  BY <1>4, <2>1, <2>2
<1>9. tree' \in [Workspaces -> {"none", "clean", "kept"}]
  BY <1>6 DEF RegistryInv, RegistryType
<1>10. RegistryType'
  BY <1>3, <1>7, <1>8, <1>9 DEF RegistryInv, RegistryType, Moved, Live
<1>11. \A d \in Live : ctx[d].project \in Projects /\ ctx[d].workspace \in Workspaces
  BY DEF RegistryInv, RegistryType, ContextInv
<1> QED  BY <1>1, <1>3, <1>7, <1>8, <1>10, <1>11, GoesOn DEF Held, Early, Steps

(* update writes the roots of the runtime, or nothing. *)
LEMMA Saved ==
  ASSUME RegistryInv, NEW t \in Threads, Save(t), NEW r, NEW c, Caller(t, r, c)
  PROVE  \E q \in ContextState :
           /\ ctx' = [ctx EXCEPT ![c] = q] /\ q.leases = ctx[c].leases
           /\ \/ q = ctx[c]
              \/ /\ q.project = rt[r].project /\ q.workspace = rt[r].workspace
                 /\ q.claimed = (ctx[c].claimed /\ ctx[c].project = rt[r].project)
<1>1. /\ call[t].runtime = r /\ call[t].context = c /\ c \in Contexts
      /\ ctx[c] \in ContextState /\ rt[r] \in RuntimeState /\ ctx \in [Contexts -> ContextState]
  BY DEF Caller, RegistryInv, RegistryType
<1>2. CASE ctx' = ctx
  <2>1. ctx' = [ctx EXCEPT ![c] = ctx[c]]
    BY <1>1, <1>2
  <2> QED  BY <1>1, <2>1
<1>3. CASE ctx' # ctx
  <2>1. ctx' = [ctx EXCEPT ![c] =
                 [project |-> rt[r].project, workspace |-> rt[r].workspace,
                  claimed |-> ctx[c].claimed /\ ~(ctx[c].project # rt[r].project),
                  leases |-> ctx[c].leases]]
    BY <1>1, <1>3 DEF Save
  <2>2. PICK b : b = (ctx[c].claimed /\ ~(ctx[c].project # rt[r].project))
    OBVIOUS
  <2>3. b \in BOOLEAN
    BY <2>2
  <2>4. PICK q : q = [project |-> rt[r].project, workspace |-> rt[r].workspace,
                      claimed |-> b, leases |-> ctx[c].leases]
    OBVIOUS
  <2>5. q \in ContextState /\ q.project = rt[r].project /\ q.workspace = rt[r].workspace
        /\ q.claimed = b /\ q.leases = ctx[c].leases
    BY <1>1, <2>3, <2>4 DEF ContextState, RuntimeState
  <2>6. ctx' = [ctx EXCEPT ![c] = q]
    BY <2>1, <2>2, <2>4
  <2> QED  BY <2>2, <2>5, <2>6
<1> QED  BY <1>2, <1>3

LEMMA SaveInv ==
  ASSUME RegistryInv, NEW t \in Threads, Save(t)
  PROVE  RegistryInv'
<1> DEFINE c == call[t].context
           r == call[t].runtime
<1>1. call[t].step = "save"
  BY DEF Save
<1>2. Caller(t, r, c)
  BY <1>1, CallerFacts DEF Held, Early, Steps
<1>3. Moved(t, "release")
  BY LeaveSteps DEF Save
<1>4. PICK q \in ContextState :
        /\ ctx' = [ctx EXCEPT ![c] = q] /\ q.leases = ctx[c].leases
        /\ q.project \in {ctx[c].project, rt[r].project}
        /\ q.workspace \in {ctx[c].workspace, rt[r].workspace}
  BY <1>2, Saved
<1>5. doomed' = doomed \/ doomed' = doomed \cup {ctx[c].workspace}
  BY DEF Save
<1> HIDE DEF c, r
<1>6. /\ ctx' \in [Contexts -> ContextState]
      /\ \A d \in Contexts : /\ ctx'[d].leases = ctx[d].leases
                             /\ ctx'[d].project \in {ctx[d].project, rt[r].project}
                             /\ ctx'[d].workspace \in {ctx[d].workspace, rt[r].workspace}
  BY <1>2, <1>4, ContextChanged DEF Caller
<1>7. doomed' \subseteq Workspaces
  BY <1>2, <1>5 DEF RegistryInv, RegistryType, Caller
<1>8. RegistryType'
  BY <1>3, <1>6, <1>7 DEF RegistryInv, RegistryType, Save, Moved, Live
<1>9. \A d \in Live : ctx'[d].project \in Projects /\ ctx'[d].workspace \in Workspaces
  BY <1>2, <1>6 DEF RegistryInv, RegistryType, ContextInv, Caller, RuntimeState
<1> QED  BY <1>1, <1>3, <1>6, <1>8, <1>9, GoesOn DEF Save, Held, Early, Steps

-----------------------------------------------------------------------------
(* Leases taken and given back *)

LEMMA Leases ==
  ASSUME RegistryInv, NEW c \in Live
  PROVE  /\ c \in Contexts /\ ctx[c] \in ContextState /\ ctx[c].leases \in Nat
         /\ ctx[c].leases = Cardinality(Holding(c)) + Cardinality(JobsOf(c))
         /\ ctx[c].project \in Projects /\ ctx[c].workspace \in Workspaces
<1>1. c \in Contexts /\ ctx[c] \in ContextState
  BY DEF RegistryInv, RegistryType
<1> QED  BY <1>1 DEF RegistryInv, ContextInv, ContextState

LEMMA LeaseMore ==
  ASSUME RegistryInv, NEW c \in Contexts, ctx' = [ctx EXCEPT ![c].leases = @ + 1]
  PROVE  /\ ctx' \in [Contexts -> ContextState]
         /\ ctx'[c].leases = ctx[c].leases + 1
         /\ \A d \in Contexts : /\ d # c => ctx'[d] = ctx[d]
                                /\ ctx'[d].project = ctx[d].project
                                /\ ctx'[d].workspace = ctx[d].workspace
                                /\ ctx'[d].claimed = ctx[d].claimed
<1>1. ctx \in [Contexts -> ContextState] /\ ctx[c] \in ContextState
  BY DEF RegistryInv, RegistryType
<1>2. PICK q : q = [ctx[c] EXCEPT !.leases = ctx[c].leases + 1]
  OBVIOUS
<1>3. /\ q \in ContextState /\ q.leases = ctx[c].leases + 1 /\ q.project = ctx[c].project
      /\ q.workspace = ctx[c].workspace /\ q.claimed = ctx[c].claimed
  BY <1>1, <1>2 DEF ContextState
<1>4. ctx' = [ctx EXCEPT ![c] = q]
  BY <1>1, <1>2
<1> QED  BY <1>1, <1>3, <1>4

LEMMA ReleasedFacts ==
  ASSUME RegistryInv, NEW c, Released(c)
  PROVE  /\ live' \in Seq(Contexts) /\ Len(live') <= MaxContexts /\ Distinct(live')
         /\ Live' = Live
         /\ ctx' \in [Contexts -> ContextState]
         /\ c \in Live => ctx'[c].leases = IF ctx[c].leases > 0 THEN ctx[c].leases - 1 ELSE 0
         /\ \A d \in Contexts : /\ d # c \/ c \notin Live => ctx'[d] = ctx[d]
                                /\ ctx'[d].project = ctx[d].project
                                /\ ctx'[d].workspace = ctx[d].workspace
                                /\ ctx'[d].claimed = ctx[d].claimed
<1>1. /\ live \in Seq(Contexts) /\ Len(live) <= MaxContexts /\ Distinct(live)
      /\ ctx \in [Contexts -> ContextState] /\ Live = Elems(live)
  BY DEF RegistryInv, RegistryType, Live, Elems
<1>2. CASE c \notin Live
  BY <1>1, <1>2 DEF Released, Live
<1>3. CASE c \in Live
  <2>1. c \in Contexts /\ ctx[c] \in ContextState /\ ctx[c].leases \in Nat
    BY <1>3, Leases
  <2>2. PICK q : q = [ctx[c] EXCEPT !.leases =
                       IF ctx[c].leases > 0 THEN ctx[c].leases - 1 ELSE 0]
    OBVIOUS
  <2>3. /\ q \in ContextState /\ q.project = ctx[c].project
        /\ q.leases = IF ctx[c].leases > 0 THEN ctx[c].leases - 1 ELSE 0
        /\ q.workspace = ctx[c].workspace /\ q.claimed = ctx[c].claimed
    BY <2>1, <2>2 DEF ContextState
  <2>4. ctx' = [ctx EXCEPT ![c] = q]
    BY <1>1, <1>3, <2>1, <2>2 DEF Released
  <2>5. PICK w : w = Without(live, c)
    OBVIOUS
  <2>6. /\ w \in Seq(Contexts) /\ Len(w) = Len(live) - 1 /\ Distinct(w)
        /\ Elems(w) = Elems(live) \ {c}
    BY <1>1, <1>3, <2>5, LiveWithout
  <2>7. live' = Append(w, c)
    BY <1>3, <2>5 DEF Released
  <2>8. /\ live' \in Seq(Contexts) /\ Len(live') = Len(w) + 1 /\ Distinct(live')
        /\ Elems(live') = Elems(w) \cup {c}
    BY <2>1, <2>6, <2>7, LiveAppended
  <2>9. Len(live') = Len(live)
    BY <1>1, <2>6, <2>8
  <2>10. Live' = Live
    BY <1>1, <1>3, <2>6, <2>8 DEF Live, Elems
  <2> QED  BY <1>1, <1>3, <2>1, <2>3, <2>4, <2>8, <2>9, <2>10
<1> QED  BY <1>2, <1>3

(* Threads outside a lock *)
LEMMA OutsideKept ==
  ASSUME RegistryInv, NEW t \in Threads, call'[t].step \notin Within,
         \A u \in Threads \ {t} : call'[u] = call[u]
  PROVE  OneInside'
BY DEF RegistryInv, OneInside

(* What is said of a context as long as its leases do not change *)
LEMMA ContextKept ==
  ASSUME RegistryInv, NEW c \in Contexts, c \in Live' => c \in Live,
         ctx'[c].project = ctx[c].project, ctx'[c].workspace = ctx[c].workspace,
         ctx'[c].leases = ctx[c].leases,
         Holding(c)' = Holding(c), JobsOf(c)' = JobsOf(c)
  PROVE  ContextInv(c)'
BY DEF RegistryInv, ContextInv

-----------------------------------------------------------------------------
Leased(c) == ctx' = [ctx EXCEPT ![c].leases = @ + 1]

Begun(t, r, tool, requested, c, s) ==
  /\ call' = [call EXCEPT ![t] = [step |-> s, runtime |-> r, context |-> c, tool |-> tool]]
  /\ \/ /\ c = rt[r].context /\ s \in {"create", "retain"} /\ ctx' = ctx
        /\ s = "create" => c = None
     \/ /\ c = requested /\ c \in created /\ c \in Live /\ s = "lock"
        /\ Leased(c)
     \/ /\ c = requested /\ c \in created /\ c \notin Live /\ s = "release"
        /\ ctx' = ctx

(* A request arrives. *)
LEMMA BeginInv ==
  ASSUME RegistryInv, NEW t \in Threads, NEW r \in Runtimes, NEW tool \in Tools,
         NEW requested \in Contexts \cup {None}, Begin(t, r, tool, requested)
  PROVE  RegistryInv'
<1>1. call[t].step = "idle" /\ call \in [Threads -> CallState]
      /\ UNCHANGED <<live, created, rt, tree, branches, doomed, job, faults>>
  BY DEF Begin, RegistryInv, RegistryType
<1>2. Live' = Live /\ None \notin Live /\ None \notin Contexts
  BY <1>1, NamesAssumption DEF Live, RegistryInv, RegistryType
<1>3. PICK c, s : Begun(t, r, tool, requested, c, s)
  <2>1. CASE requested = None
    <3>1. ctx' = ctx
      BY <1>2, <2>1 DEF Begin
    <3>2. CASE rt[r].context = None
      <4>1. Begun(t, r, tool, requested, rt[r].context, "create")
        BY <2>1, <3>1, <3>2 DEF Begin, Begun
      <4> QED  BY <4>1
    <3>3. CASE rt[r].context # None
      <4>1. Begun(t, r, tool, requested, rt[r].context, "retain")
        BY <2>1, <3>1, <3>3 DEF Begin, Begun
      <4> QED  BY <4>1
    <3> QED  BY <3>2, <3>3
  <2>2. CASE requested # None /\ requested \in Live
    <3>1. Begun(t, r, tool, requested, requested, "lock")
      BY <1>2, <2>2, Zenon DEF Begin, Begun, Leased
    <3> QED  BY <3>1
  <2>3. CASE requested # None /\ requested \notin Live
    <3>1. Begun(t, r, tool, requested, requested, "release")
      BY <1>2, <2>3, Zenon DEF Begin, Begun
    <3> QED  BY <3>1
  <2> QED  BY <2>1, <2>2, <2>3
<1>4. c \in created \cup {None} /\ created \subseteq Contexts
  BY <1>3 DEF Begun, RegistryInv, SessionInv, RegistryType
<1>5. PICK x : x = [step |-> s, runtime |-> r, context |-> c, tool |-> tool]
  OBVIOUS
<1>6. x \in CallState /\ x.step = s /\ x.runtime = r /\ x.context = c
  BY <1>3, <1>4, <1>5 DEF Begun, CallState, Steps
<1>7. /\ call' \in [Threads -> CallState] /\ call'[t] = x
      /\ \A u \in Threads \ {t} : call'[u] = call[u]
  BY <1>1, <1>3, <1>5, <1>6 DEF Begun
<1>8. ctx' \in [Contexts -> ContextState]
      /\ \A d \in Contexts : /\ ctx'[d].project = ctx[d].project
                             /\ ctx'[d].workspace = ctx[d].workspace
                             /\ d # c \/ s # "lock" => ctx'[d].leases = ctx[d].leases
  <2>1. CASE ctx' = ctx
    BY <2>1 DEF RegistryInv, RegistryType
  <2>2. CASE c \in created /\ s = "lock" /\ Leased(c)
    BY <1>4, <2>2, LeaseMore DEF Leased
  <2> QED  BY <1>3, <2>1, <2>2 DEF Begun
<1>9. RegistryType'
  BY <1>1, <1>2, <1>7, <1>8 DEF RegistryInv, RegistryType
<1>10. \A u \in Threads : CallInv(u)'
  <2>1. CallInv(t)'
    BY <1>1, <1>2, <1>3, <1>4, <1>6, <1>7 DEF Begun, CallInv, Held, Early, Steps
  <2>2. \A u \in Threads \ {t} : CallInv(u)'
    BY <1>1, <1>2, <1>7 DEF RegistryInv, CallInv
  <2> QED  BY <2>1, <2>2
<1>11. \A q \in Runtimes : SessionInv(q)'
  BY <1>1, <1>2 DEF RegistryInv, SessionInv
<1>12. ASSUME NEW d \in Contexts PROVE ContextInv(d)'
  <2>1. JobsOf(d)' = JobsOf(d)
    BY <1>1 DEF JobsOf
  <2>2. CASE d # c \/ s \in {"create", "retain"}
    <3>1. Holding(d)' = Holding(d)
      BY <1>1, <1>6, <1>7, <2>2 DEF Holding
    <3>2. ctx'[d].leases = ctx[d].leases
      BY <1>8, <2>2
    <3> QED  BY <1>2, <1>8, <2>1, <3>1, <3>2, ContextKept
  <2>3. CASE d = c /\ s = "release"
    BY <1>2, <1>3, <2>3 DEF Begun, ContextInv
  <2>4. CASE d = c /\ s = "lock"
    <3>1. d \in Live /\ Leased(d)
      BY <1>3, <2>4 DEF Begun
    <3>2. Holding(d)' = Holding(d) \cup {t} /\ t \notin Holding(d)
      BY <1>1, <1>6, <1>7, <2>4 DEF Holding, Steps
    <3>3. Cardinality(Holding(d)') = Cardinality(Holding(d)) + 1
      BY <3>2, FiniteHolders, FS_AddElement
    <3>4. ctx'[d].leases = ctx[d].leases + 1
      BY <3>1, LeaseMore DEF Leased
    <3>5. ctx'[d].leases = Cardinality(Holding(d)') + Cardinality(JobsOf(d)')
      BY <2>1, <3>1, <3>3, <3>4, Leases, FiniteHolders
    <3> QED  BY <1>8, <3>1, <3>5, Leases DEF ContextInv
  <2> QED  BY <1>3, <2>2, <2>3, <2>4 DEF Begun
<1>13. OneInside'
  BY <1>3, <1>6, <1>7, OutsideKept DEF Begun, Within, Held, Early
<1> QED  BY <1>9, <1>10, <1>11, <1>12, <1>13 DEF RegistryInv

(* A call that has no lease and takes none leaves the contexts alone. *)
LEMMA StaysOut ==
  ASSUME RegistryInv, RegistryType', NEW t \in Threads,
         Live' = Live, created' = created, job' = job, ctx' = ctx,
         \A r \in Runtimes : rt'[r].context = rt[r].context,
         \A u \in Threads \ {t} : call'[u] = call[u],
         call'[t].context = call[t].context, CallInv(t)',
         call[t].step \in Early,
         call'[t].step \in Early \/ (call'[t].step = "release" /\ call[t].context \notin Live)
  PROVE  RegistryInv'
<1>1. \A u \in Threads : CallInv(u)'
  BY DEF RegistryInv, CallInv
<1>2. \A r \in Runtimes : SessionInv(r)'
  BY DEF RegistryInv, SessionInv
<1>3. ASSUME NEW c \in Contexts PROVE ContextInv(c)'
  <2>1. CASE c \notin Live
    BY <2>1 DEF ContextInv
  <2>2. CASE c \in Live
    <3>1. Holding(c)' = Holding(c)
      BY <2>2 DEF Holding, Early
    <3>2. JobsOf(c)' = JobsOf(c)
      BY DEF JobsOf
    <3> QED  BY <2>2, <3>1, <3>2, ContextKept
  <2> QED  BY <2>1, <2>2
<1>4. OneInside'
  BY OutsideKept DEF Within, Held, Early
<1> QED  BY <1>1, <1>2, <1>3, <1>4 DEF RegistryInv

LEMMA RetainInv ==
  ASSUME RegistryInv, NEW t \in Threads, Retain(t)
  PROVE  RegistryInv'
<1> DEFINE c == call[t].context
<1>1. call[t].step \in {"retain", "again"} /\ call[t] \in CallState
      /\ UNCHANGED <<live, created, rt, tree, branches, doomed, job, faults>>
  BY DEF Retain, RegistryInv, RegistryType
<1>2. Live' = Live
  BY <1>1 DEF Live
<1>3. CallInv(t)
  BY DEF RegistryInv
<1>4. CASE c \in Live
  <2>1. ctx' = [ctx EXCEPT ![c].leases = @ + 1] /\ Moved(t, "lock")
    BY <1>4, GotoSteps DEF Retain, Steps
  <2>2. c \in Contexts
    BY <1>4, Leases
  <2> HIDE DEF c
  <2>3. /\ ctx' \in [Contexts -> ContextState] /\ ctx'[c].leases = ctx[c].leases + 1
        /\ \A d \in Contexts : /\ d # c => ctx'[d] = ctx[d]
                               /\ ctx'[d].project = ctx[d].project
                               /\ ctx'[d].workspace = ctx[d].workspace
    BY <2>1, <2>2, LeaseMore
  <2>4. RegistryType'
    BY <1>1, <1>2, <2>1, <2>3 DEF RegistryInv, RegistryType, Moved
  <2>5. \A u \in Threads : CallInv(u)'
    <3>1. CallInv(t)'
      BY <1>1, <1>2, <1>3, <1>4, <2>1 DEF CallInv, Moved, c
    <3>2. \A u \in Threads \ {t} : CallInv(u)'
      BY <1>1, <1>2, <2>1 DEF RegistryInv, CallInv, Moved
    <3> QED  BY <3>1, <3>2
  <2>6. \A q \in Runtimes : SessionInv(q)'
    BY <1>1, <1>2 DEF RegistryInv, SessionInv
  <2>7. ASSUME NEW d \in Contexts PROVE ContextInv(d)'
    <3>1. JobsOf(d)' = JobsOf(d)
      BY <1>1 DEF JobsOf
    <3>2. CASE d # c
      <4>1. Holding(d)' = Holding(d)
        BY <1>1, <2>1, <3>2 DEF Holding, Moved, c
      <4> QED  BY <1>2, <2>3, <3>1, <3>2, <4>1, ContextKept
    <3>3. CASE d = c
      <4>1. Holding(d)' = Holding(d) \cup {t} /\ t \notin Holding(d)
        BY <1>1, <2>1, <3>3 DEF Holding, Steps, Moved, c
      <4>2. Cardinality(Holding(d)') = Cardinality(Holding(d)) + 1
        BY <4>1, FiniteHolders, FS_AddElement
      <4>3. ctx'[d].leases = Cardinality(Holding(d)') + Cardinality(JobsOf(d)')
        BY <1>4, <2>3, <3>1, <3>3, <4>2, Leases, FiniteHolders
      <4> QED  BY <1>4, <2>3, <3>3, <4>3, Leases DEF ContextInv
    <3> QED  BY <3>2, <3>3
  <2>8. OneInside'
    BY <2>1, OutsideKept DEF Within, Held, Early, Moved
  <2> QED  BY <2>4, <2>5, <2>6, <2>7, <2>8 DEF RegistryInv
<1>5. CASE c \notin Live
  <2>1. PICK s \in {"create", "release"} : Moved(t, s)
    BY <1>5, GotoSteps, LeaveSteps DEF Retain, Steps
  <2>2. ctx' = ctx
    BY <1>5 DEF Retain
  <2>3. RegistryType'
    BY <1>1, <1>2, <2>1, <2>2 DEF RegistryInv, RegistryType, Moved
  <2>4. CallInv(t)'
    BY <1>1, <1>2, <1>3, <1>5, <2>1 DEF CallInv, Moved, Held, Early
  <2> QED  BY <1>1, <1>2, <1>5, <2>1, <2>2, <2>3, <2>4, StaysOut DEF Moved, Early
<1> QED  BY <1>4, <1>5

LEMMA CreateRefusedInv ==
  ASSUME RegistryInv, NEW t \in Threads, CreateRefused(t)
  PROVE  RegistryInv'
<1>1. call[t].step = "create" /\ Moved(t, "release")
      /\ UNCHANGED <<live, created, ctx, rt, tree, branches, doomed, job, faults>>
  BY LeaveSteps DEF CreateRefused
<1>2. Live' = Live /\ CallInv(t)
  BY <1>1 DEF Live, RegistryInv
<1>3. RegistryType'
  BY <1>1, <1>2 DEF RegistryInv, RegistryType, Moved
<1>4. CallInv(t)'
  BY <1>1, <1>2 DEF CallInv, Moved, Held
<1>5. call[t].context \notin Live
  BY <1>1, <1>2 DEF CallInv
<1> QED  BY <1>1, <1>2, <1>3, <1>4, <1>5, StaysOut DEF Moved, Early

(* A call gives its lease back. *)
LEMMA ReleaseInv ==
  ASSUME RegistryInv, NEW t \in Threads, Release(t)
  PROVE  RegistryInv'
<1> DEFINE c == call[t].context
<1>1. call[t].step = "release" /\ call \in [Threads -> CallState]
      /\ UNCHANGED <<created, rt, tree, branches, doomed, job, faults>>
  BY DEF Release, RegistryInv, RegistryType
<1>2. call' = [call EXCEPT ![t] = NoCall] /\ Released(c)
  BY DEF Release
<1> HIDE DEF c
<1>3. NoCall \in CallState /\ NoCall.step = "idle" /\ NoCall.context = None
  BY DEF NoCall, CallState, Steps
<1>4. /\ call' \in [Threads -> CallState] /\ call'[t] = NoCall
      /\ \A u \in Threads \ {t} : call'[u] = call[u]
  BY <1>1, <1>2, <1>3
<1>5. /\ live' \in Seq(Contexts) /\ Len(live') <= MaxContexts /\ Distinct(live')
      /\ Live' = Live
      /\ ctx' \in [Contexts -> ContextState]
      /\ c \in Live => ctx'[c].leases = IF ctx[c].leases > 0 THEN ctx[c].leases - 1 ELSE 0
      /\ \A d \in Contexts : /\ d # c \/ c \notin Live => ctx'[d] = ctx[d]
                             /\ ctx'[d].project = ctx[d].project
                             /\ ctx'[d].workspace = ctx[d].workspace
  BY <1>2, ReleasedFacts
<1>6. RegistryType'
  BY <1>1, <1>4, <1>5 DEF RegistryInv, RegistryType
<1>7. \A u \in Threads : CallInv(u)'
  <2>1. CallInv(t)'
    BY <1>3, <1>4 DEF CallInv, Held, Early
  <2>2. \A u \in Threads \ {t} : CallInv(u)'
    BY <1>1, <1>4, <1>5 DEF RegistryInv, CallInv
  <2> QED  BY <2>1, <2>2
<1>8. \A q \in Runtimes : SessionInv(q)'
  BY <1>1, <1>5 DEF RegistryInv, SessionInv
<1>9. ASSUME NEW d \in Contexts PROVE ContextInv(d)'
  <2>1. JobsOf(d)' = JobsOf(d)
    BY <1>1 DEF JobsOf
  <2>2. CASE d # c
    <3>1. Holding(d)' = Holding(d)
      BY <1>3, <1>4, <2>2 DEF Holding, c
    <3> QED  BY <1>5, <2>1, <2>2, <3>1, ContextKept
  <2>3. CASE d \notin Live
    BY <1>5, <2>3 DEF ContextInv
  <2>4. CASE d = c /\ d \in Live
    <3>1. Holding(d)' = Holding(d) \ {t} /\ t \in Holding(d)
      BY <1>1, <1>3, <1>4, <2>4 DEF Holding, Steps, c
    <3>2. Cardinality(Holding(d)') = Cardinality(Holding(d)) - 1 /\ Cardinality(Holding(d)) > 0
      BY <3>1, FiniteHolders, FS_RemoveElement, FS_EmptySet
    <3>3. ctx'[d].leases = Cardinality(Holding(d)') + Cardinality(JobsOf(d)')
      <4>1. ctx[d].leases = Cardinality(Holding(d)) + Cardinality(JobsOf(d))
        BY <2>4, Leases
      <4>2. ctx'[d].leases = IF ctx[d].leases > 0 THEN ctx[d].leases - 1 ELSE 0
        BY <1>5, <2>4
      <4>3. Cardinality(Holding(d)) \in Nat /\ Cardinality(JobsOf(d)) \in Nat
        BY FiniteHolders
      <4> QED  BY <2>1, <3>2, <4>1, <4>2, <4>3
    <3> QED  BY <1>5, <2>4, <3>3, Leases DEF ContextInv
  <2> QED  BY <2>2, <2>3, <2>4
<1>10. OneInside'
  BY <1>3, <1>4, OutsideKept DEF Within, Held, Early
<1> QED  BY <1>6, <1>7, <1>8, <1>9, <1>10 DEF RegistryInv

-----------------------------------------------------------------------------
(* Jobs *)

LEMMA JobInv ==
  ASSUME RegistryInv, NEW r \in Runtimes,
         NEW x \in [context : Contexts \cup {None}, running : BOOLEAN],
         job' = [job EXCEPT ![r] = x]
  PROVE  /\ job' \in [Runtimes -> [context : Contexts \cup {None}, running : BOOLEAN]]
         /\ job'[r] = x
         /\ \A s \in Runtimes \ {r} : job'[s] = job[s]
BY DEF RegistryInv, RegistryType

(* A command outlives its call: its job record takes a lease of its own. *)
LEMMA StartJobInv ==
  ASSUME RegistryInv, NEW t \in Threads, StartJob(t)
  PROVE  RegistryInv'
<1> DEFINE c == call[t].context
           r == call[t].runtime
<1>1. call[t].step = "handler" /\ job[r].context = None /\ Moved(t, "save") /\ Leased(c)
      /\ job' = [job EXCEPT ![r] = [context |-> c, running |-> TRUE]]
      /\ UNCHANGED <<live, created, rt, tree, branches, doomed, faults>>
  BY GotoSteps DEF StartJob, Steps, Leased
<1>2. Caller(t, r, c)
  BY <1>1, CallerFacts DEF Held, Early, Steps
<1> HIDE DEF c, r
<1>3. r \in Runtimes /\ c \in Live /\ c \in Contexts /\ c # None /\ Live' = Live
  BY <1>1, <1>2, NamesAssumption DEF Caller, Live
<1>4. PICK x : x = [context |-> c, running |-> TRUE]
  OBVIOUS
<1>5. x \in [context : Contexts \cup {None}, running : BOOLEAN] /\ x.context = c
  BY <1>3, <1>4
<1>6. job' = [job EXCEPT ![r] = x]
  BY <1>1, <1>4
<1>7. /\ job' \in [Runtimes -> [context : Contexts \cup {None}, running : BOOLEAN]]
      /\ job'[r].context = c
      /\ \A s \in Runtimes \ {r} : job'[s] = job[s]
  BY <1>3, <1>5, <1>6, JobInv
<1>8. /\ ctx' \in [Contexts -> ContextState] /\ ctx'[c].leases = ctx[c].leases + 1
      /\ \A d \in Contexts : /\ d # c => ctx'[d] = ctx[d]
                             /\ ctx'[d].project = ctx[d].project
                             /\ ctx'[d].workspace = ctx[d].workspace
  BY <1>1, <1>3, LeaseMore DEF Leased
<1>9. RegistryType'
  BY <1>1, <1>3, <1>7, <1>8 DEF RegistryInv, RegistryType, Moved
<1>10. \A u \in Threads : CallInv(u)'
  <2>1. CallInv(t)'
    BY <1>1, <1>2, <1>3 DEF RegistryInv, CallInv, Moved, c, r
  <2>2. \A u \in Threads \ {t} : CallInv(u)'
    BY <1>1, <1>3 DEF RegistryInv, CallInv, Moved
  <2> QED  BY <2>1, <2>2
<1>11. \A q \in Runtimes : SessionInv(q)'
  BY <1>1, <1>3, <1>7 DEF RegistryInv, SessionInv
<1>12. ASSUME NEW d \in Contexts PROVE ContextInv(d)'
  <2>1. Holding(d)' = Holding(d)
    BY <1>1 DEF Holding, Moved, Steps
  <2>2. CASE d # c
    <3>1. JobsOf(d)' = JobsOf(d)
      BY <1>1, <1>7, <2>2, NamesAssumption DEF JobsOf
    <3> QED  BY <1>3, <1>8, <2>1, <2>2, <3>1, ContextKept
  <2>3. CASE d = c
    <3>1. JobsOf(d)' = JobsOf(d) \cup {r} /\ r \notin JobsOf(d)
      BY <1>1, <1>3, <1>7, <2>3 DEF JobsOf
    <3>2. Cardinality(JobsOf(d)') = Cardinality(JobsOf(d)) + 1
      BY <3>1, FiniteHolders, FS_AddElement
    <3>3. ctx'[d].leases = Cardinality(Holding(d)') + Cardinality(JobsOf(d)')
      BY <1>3, <1>8, <2>1, <2>3, <3>2, Leases, FiniteHolders
    <3> QED  BY <1>3, <1>8, <2>3, <3>3, Leases DEF ContextInv
  <2> QED  BY <2>2, <2>3
<1>13. OneInside'
  BY <1>1 DEF RegistryInv, OneInside, Moved, Within, Held, Early, Steps
<1> QED  BY <1>9, <1>10, <1>11, <1>12, <1>13 DEF RegistryInv

LEMMA JobPrunedInv ==
  ASSUME RegistryInv, NEW r \in Runtimes, JobPruned(r)
  PROVE  RegistryInv'
<1> DEFINE c == job[r].context
<1>1. /\ c # None /\ job' = [job EXCEPT ![r].context = None] /\ Released(c)
      /\ UNCHANGED <<created, rt, tree, branches, doomed, call, faults>>
  BY DEF JobPruned
<1>2. c \in Live
  BY <1>1 DEF RegistryInv, SessionInv
<1>3. /\ job \in [Runtimes -> [context : Contexts \cup {None}, running : BOOLEAN]]
      /\ job[r] \in [context : Contexts \cup {None}, running : BOOLEAN]
  BY DEF RegistryInv, RegistryType
<1>4. /\ job' \in [Runtimes -> [context : Contexts \cup {None}, running : BOOLEAN]]
      /\ job'[r].context = None
      /\ \A s \in Runtimes \ {r} : job'[s] = job[s]
  BY <1>1, <1>3
<1> HIDE DEF c
<1>5. /\ live' \in Seq(Contexts) /\ Len(live') <= MaxContexts /\ Distinct(live')
      /\ Live' = Live
      /\ ctx' \in [Contexts -> ContextState]
      /\ c \in Live => ctx'[c].leases = IF ctx[c].leases > 0 THEN ctx[c].leases - 1 ELSE 0
      /\ \A d \in Contexts : /\ d # c \/ c \notin Live => ctx'[d] = ctx[d]
                             /\ ctx'[d].project = ctx[d].project
                             /\ ctx'[d].workspace = ctx[d].workspace
  BY <1>1, ReleasedFacts
<1>6. RegistryType'
  BY <1>1, <1>4, <1>5 DEF RegistryInv, RegistryType
<1>7. \A u \in Threads : CallInv(u)'
  BY <1>1, <1>5 DEF RegistryInv, CallInv
<1>8. \A q \in Runtimes : SessionInv(q)'
  BY <1>1, <1>4, <1>5 DEF RegistryInv, SessionInv
<1>9. ASSUME NEW d \in Contexts PROVE ContextInv(d)'
  <2>1. Holding(d)' = Holding(d)
    BY <1>1 DEF Holding
  <2>2. CASE d # c
    <3>1. JobsOf(d)' = JobsOf(d)
      BY <1>4, <2>2, NamesAssumption DEF JobsOf, c
    <3> QED  BY <1>5, <2>1, <2>2, <3>1, ContextKept
  <2>3. CASE d = c
    <3>1. JobsOf(d)' = JobsOf(d) \ {r} /\ r \in JobsOf(d)
      BY <1>1, <1>4, <2>3 DEF JobsOf, c
    <3>2. Cardinality(JobsOf(d)') = Cardinality(JobsOf(d)) - 1 /\ Cardinality(JobsOf(d)) > 0
      BY <3>1, FiniteHolders, FS_RemoveElement, FS_EmptySet
    <3>3. ctx'[d].leases = Cardinality(Holding(d)') + Cardinality(JobsOf(d)')
      <4>1. ctx[d].leases = Cardinality(Holding(d)) + Cardinality(JobsOf(d))
        BY <1>2, <2>3, Leases
      <4>2. ctx'[d].leases = IF ctx[d].leases > 0 THEN ctx[d].leases - 1 ELSE 0
        BY <1>2, <1>5, <2>3
      <4>3. Cardinality(Holding(d)) \in Nat /\ Cardinality(JobsOf(d)) \in Nat
        BY FiniteHolders
      <4> QED  BY <2>1, <3>2, <4>1, <4>2, <4>3
    <3> QED  BY <1>2, <1>5, <2>3, <3>3, Leases DEF ContextInv
  <2> QED  BY <2>2, <2>3
<1>10. OneInside'
  BY <1>1 DEF RegistryInv, OneInside
<1> QED  BY <1>6, <1>7, <1>8, <1>9, <1>10 DEF RegistryInv

-----------------------------------------------------------------------------
(* Steps that touch neither calls nor leases *)
LEMMA QuietInv ==
  ASSUME RegistryInv, RegistryType',
         UNCHANGED <<live, created, ctx, call>>,
         \A r \in Runtimes : /\ job'[r].context = job[r].context
                             /\ rt'[r].context \in {rt[r].context, None}
  PROVE  RegistryInv'
<1>1. Live' = Live
  BY DEF Live
<1>2. \A u \in Threads : CallInv(u)'
  BY <1>1 DEF RegistryInv, CallInv
<1>3. \A q \in Runtimes : SessionInv(q)'
  BY <1>1 DEF RegistryInv, SessionInv
<1>4. ASSUME NEW d \in Contexts PROVE ContextInv(d)'
  <2>1. Holding(d)' = Holding(d) /\ JobsOf(d)' = JobsOf(d)
    BY DEF Holding, JobsOf
  <2> QED  BY <1>1, <2>1, ContextKept
<1>5. OneInside'
  BY DEF RegistryInv, OneInside
<1> QED  BY <1>2, <1>3, <1>4, <1>5 DEF RegistryInv

LEMMA QuietActionsInv ==
  ASSUME RegistryInv,
         \/ \E w \in Workspaces : CleanupWorktree(w)
         \/ \E r \in Runtimes : Reconnect(r) \/ JobExits(r)
  PROVE  RegistryInv'
<1>1. CASE \E w \in Workspaces : CleanupWorktree(w)
  <2>1. PICK w \in Workspaces : CleanupWorktree(w)
    BY <1>1
  <2>2. tree' \in [Workspaces -> {"none", "clean", "kept"}] /\ doomed' \subseteq Workspaces
    BY <2>1 DEF CleanupWorktree, RegistryInv, RegistryType
  <2>3. UNCHANGED <<live, created, ctx, rt, branches, job, call, faults>>
    BY <2>1 DEF CleanupWorktree
  <2>4. RegistryType'
    BY <2>2, <2>3 DEF RegistryInv, RegistryType, Live
  <2> QED  BY <2>3, <2>4, QuietInv
<1>2. ASSUME NEW r \in Runtimes, Reconnect(r) PROVE RegistryInv'
  <2>1. NewRuntime \in RuntimeState /\ NewRuntime.context = None
    BY NamesAssumption DEF NewRuntime, RuntimeState, Workspaces, Canonical
  <2>2. rt' = [rt EXCEPT ![r] = NewRuntime]
        /\ UNCHANGED <<live, created, ctx, tree, branches, doomed, job, call>>
    BY <1>2 DEF Reconnect
  <2>3. /\ rt' \in [Runtimes -> RuntimeState]
        /\ \A q \in Runtimes : rt'[q].context \in {rt[q].context, None}
    BY <2>1, <2>2 DEF RegistryInv, RegistryType
  <2>4. faults' \in 0..MaxFaults
    BY <1>2, MaxFaultsAssumption DEF Reconnect, RegistryInv, RegistryType
  <2>5. RegistryType'
    BY <2>2, <2>3, <2>4 DEF RegistryInv, RegistryType, Live
  <2> QED  BY <2>2, <2>3, <2>5, QuietInv
<1>3. ASSUME NEW r \in Runtimes, JobExits(r) PROVE RegistryInv'
  <2>1. job' = [job EXCEPT ![r].running = FALSE]
        /\ UNCHANGED <<live, created, ctx, rt, tree, branches, doomed, call, faults>>
    BY <1>3 DEF JobExits
  <2>2. /\ job' \in [Runtimes -> [context : Contexts \cup {None}, running : BOOLEAN]]
        /\ \A q \in Runtimes : job'[q].context = job[q].context
    BY <2>1 DEF RegistryInv, RegistryType
  <2>3. RegistryType'
    BY <2>1, <2>2 DEF RegistryInv, RegistryType, Live
  <2> QED  BY <2>1, <2>2, <2>3, QuietInv
<1> QED  BY <1>1, <1>2, <1>3

-----------------------------------------------------------------------------
(* The end of a context: nobody uses it. *)

LEMMA Gone ==
  ASSUME NEW c \in Contexts, c \notin Live'
  PROVE  ContextInv(c)'
BY DEF ContextInv

LEMMA PruneInv ==
  ASSUME RegistryInv, NEW c \in Contexts, Prune(c)
  PROVE  RegistryInv'
<1>1. /\ c \in Live /\ ctx[c].leases = 0 /\ live' = Without(live, c)
      /\ ctx' = [ctx EXCEPT ![c] = NoState]
      /\ doomed' \subseteq doomed \cup {ctx[c].workspace}
      /\ UNCHANGED <<created, rt, tree, branches, job, call, faults>>
  BY DEF Prune
<1>2. Holding(c) = {} /\ JobsOf(c) = {}
  BY <1>1, Unleased
<1>3. Live = Elems(live) /\ Live' = Elems(live')
      /\ live \in Seq(Contexts) /\ Distinct(live) /\ Len(live) <= MaxContexts
  BY DEF Live, Elems, RegistryInv, RegistryType
<1>4. /\ live' \in Seq(Contexts) /\ Len(live') = Len(live) - 1 /\ Distinct(live')
      /\ Live' = Live \ {c}
  <2>1. PICK w : w = Without(live, c)
    OBVIOUS
  <2>2. /\ w \in Seq(Contexts) /\ Len(w) = Len(live) - 1 /\ Distinct(w)
        /\ Elems(w) = Elems(live) \ {c}
    BY <1>1, <1>3, <2>1, LiveWithout
  <2> QED  BY <1>1, <1>3, <2>1, <2>2
<1>5. Len(live') <= MaxContexts
  BY <1>3, <1>4, MaxContextsAssumption
<1>6. NoState \in ContextState
  BY DEF NoState, Fresh, ContextState
<1>7. /\ ctx' \in [Contexts -> ContextState]
      /\ \A d \in Contexts \ {c} : ctx'[d] = ctx[d]
  BY <1>1, <1>6, ContextChanged
<1>8. doomed' \subseteq Workspaces
  BY <1>1, Leases DEF RegistryInv, RegistryType
<1>9. RegistryType'
  BY <1>1, <1>4, <1>5, <1>7, <1>8 DEF RegistryInv, RegistryType
<1>10. \A u \in Threads : CallInv(u)'
  BY <1>1, <1>2, <1>4 DEF RegistryInv, CallInv, Holding, Held, Early
<1>11. \A q \in Runtimes : SessionInv(q)'
  BY <1>1, <1>2, <1>4 DEF RegistryInv, SessionInv, JobsOf
<1>12. ASSUME NEW d \in Contexts PROVE ContextInv(d)'
  <2>1. Holding(d)' = Holding(d) /\ JobsOf(d)' = JobsOf(d)
    BY <1>1 DEF Holding, JobsOf
  <2>2. CASE d = c
    BY <1>4, <2>2, Gone
  <2>3. CASE d # c
    BY <1>4, <1>7, <2>1, <2>3, ContextKept
  <2> QED  BY <2>2, <2>3
<1>13. OneInside'
  BY <1>1 DEF RegistryInv, OneInside
<1> QED  BY <1>9, <1>10, <1>11, <1>12, <1>13 DEF RegistryInv

-----------------------------------------------------------------------------
(* A new context *)

(* Some evictable context is the first one. *)
LEMMA FirstEvictable ==
  ASSUME RegistryInv, Evictable # {}
  PROVE  \E k \in Evictable : \A j \in Evictable : k <= j
<1> DEFINE R == {ss \in Nat \X Nat : ss[1] < ss[2]}
<1>1. IsWellFoundedOn(R, Nat)
  BY NatLessThanWellFounded, Zenon DEF OpToRel
<1>2. PICK S : S = Evictable
  OBVIOUS
<1>3. S \subseteq Nat /\ S # {}
  BY <1>2 DEF Evictable, RegistryInv, RegistryType
<1>4. ASSUME NEW j \in Nat, NEW k \in Nat, j < k PROVE <<j, k>> \in R
  BY <1>4
<1> HIDE DEF R
<1>5. \E k \in S : \A j \in S : ~(<<j, k>> \in R)
  BY <1>1, <1>3, WFMin, Zenon
<1>6. PICK k \in S : \A j \in S : <<j, k>> \notin R
  BY <1>5
<1>7. ASSUME NEW j \in S PROVE k <= j
  <2>1. j \in Nat /\ k \in Nat
    BY <1>3
  <2>2. ~(j < k)
    BY <1>4, <1>6, <2>1
  <2> QED  BY <2>1, <2>2
<1> QED  BY <1>2, <1>7

(* What create does: the contexts that leave have no lease, and the new    *)
(* one has an id that was never used.                                      *)
Creates(t, r, c, victims, rest, left) ==
  /\ victims \subseteq Live /\ \A v \in victims : ctx[v].leases = 0
  /\ rest \in Seq(Contexts) /\ Distinct(rest) /\ Elems(rest) = Live \ victims
  /\ Len(rest) + 1 <= MaxContexts
  /\ left \in [Contexts -> ContextState]
  /\ \A d \in Contexts \ victims : left[d] = ctx[d]
  /\ \/ /\ Exists(rt[r].workspace)
        /\ live' = Append(rest, c) /\ created' = created \cup {c}
        /\ ctx' = [left EXCEPT ![c] = Fresh(rt[r].project, rt[r].workspace)]
        /\ rt' = [rt EXCEPT ![r].context = c]
        /\ call' = [call EXCEPT ![t].context = c,
             ![t].step = IF call[t].context = None THEN "retain" ELSE "again"]
        /\ doomed' = doomed \cup {ctx[d].workspace : d \in {v \in victims : Isolated(v)}}
     \/ /\ live' = rest /\ ctx' = left /\ Leave(t)
        /\ UNCHANGED <<created, rt, doomed>>

LEMMA CreateFacts ==
  ASSUME RegistryInv, NEW t \in Threads, NEW c \in Contexts, Create(t, c)
  PROVE  \E victims, rest, left : Creates(t, call[t].runtime, c, victims, rest, left)
<1> DEFINE oldest == live[CHOOSE k \in Evictable : \A j \in Evictable : k <= j]
           victims == IF Full THEN {oldest} ELSE {}
           rest == IF Full THEN Without(live, oldest) ELSE live
           left == [d \in Contexts |-> IF d \in victims THEN NoState ELSE ctx[d]]
<1>1. /\ live \in Seq(Contexts) /\ Distinct(live) /\ Live = Elems(live)
      /\ Len(live) <= MaxContexts /\ Len(live) \in Nat
  BY DEF RegistryInv, RegistryType, Live, Elems
<1>2. ASSUME Full PROVE oldest \in Live /\ ctx[oldest].leases = 0
  <2>1. \E k \in Evictable : \A j \in Evictable : k <= j
    BY <1>2, FirstEvictable DEF Create
  <2>2. PICK k : k = CHOOSE i \in Evictable : \A j \in Evictable : i <= j
    OBVIOUS
  <2>3. k \in Evictable
    BY <2>1, <2>2
  <2> QED  BY <2>2, <2>3 DEF Evictable, Live
<1>3. victims \subseteq Live /\ \A v \in victims : ctx[v].leases = 0
  BY <1>2
<1>4. /\ rest \in Seq(Contexts) /\ Distinct(rest) /\ Elems(rest) = Live \ victims
      /\ Len(rest) + 1 <= MaxContexts
  <2>1. CASE Full
    <3>1. PICK o : o = oldest
      OBVIOUS
    <3>2. o \in Elems(live)
      BY <1>1, <1>2, <2>1, <3>1
    <3>3. /\ Without(live, o) \in Seq(Contexts) /\ Len(Without(live, o)) = Len(live) - 1
          /\ Distinct(Without(live, o)) /\ Elems(Without(live, o)) = Elems(live) \ {o}
      BY <1>1, <3>2, LiveWithout
    <3>4. rest = Without(live, o) /\ victims = {o}
      BY <2>1, <3>1
    <3> HIDE DEF rest, victims
    <3>5. Len(rest) + 1 <= MaxContexts
      BY <1>1, <3>3, <3>4
    <3> QED  BY <1>1, <3>3, <3>4, <3>5
  <2>2. CASE ~Full
    <3>1. Len(live) + 1 <= MaxContexts
      BY <1>1, <2>2, MaxContextsAssumption DEF Full
    <3> QED  BY <1>1, <2>2, <3>1
  <2> QED  BY <2>1, <2>2
<1>5. NoState \in ContextState
  BY DEF NoState, Fresh, ContextState
<1>6. /\ left \in [Contexts -> ContextState]
      /\ \A d \in Contexts \ victims : left[d] = ctx[d]
  <2> HIDE DEF victims
  <2> QED  BY <1>5 DEF RegistryInv, RegistryType
<1>7. \/ /\ Exists(rt[call[t].runtime].workspace)
         /\ live' = Append(rest, c) /\ created' = created \cup {c}
         /\ ctx' = [left EXCEPT ![c] =
                     Fresh(rt[call[t].runtime].project, rt[call[t].runtime].workspace)]
         /\ rt' = [rt EXCEPT ![call[t].runtime].context = c]
         /\ call' = [call EXCEPT ![t].context = c,
              ![t].step = IF call[t].context = None THEN "retain" ELSE "again"]
         /\ doomed' = doomed \cup {ctx[d].workspace : d \in {v \in victims : Isolated(v)}}
      \/ /\ live' = rest /\ ctx' = left /\ Leave(t)
         /\ UNCHANGED <<created, rt, doomed>>
  BY Zenon DEF Create
<1> HIDE DEF victims, rest, left
<1>8. Creates(t, call[t].runtime, c, victims, rest, left)
  BY <1>3, <1>4, <1>6, <1>7, Zenon DEF Creates
<1> QED  BY <1>8

(* The records that create leaves behind *)
LEMMA CreatedFacts ==
  ASSUME RegistryInv, NEW t \in Threads, NEW r \in Runtimes, NEW c \in Contexts,
         call[t].runtime = r,
         rt' = [rt EXCEPT ![r].context = c],
         call' = [call EXCEPT ![t].context = c,
           ![t].step = IF call[t].context = None THEN "retain" ELSE "again"]
  PROVE  /\ rt' \in [Runtimes -> RuntimeState] /\ rt'[r].context = c
         /\ rt'[r].project = rt[r].project /\ rt'[r].workspace = rt[r].workspace
         /\ \A s \in Runtimes \ {r} : rt'[s] = rt[s]
         /\ call' \in [Threads -> CallState]
         /\ call'[t].step \in {"retain", "again"}
         /\ call'[t].context = c /\ call'[t].runtime = r
         /\ \A u \in Threads \ {t} : call'[u] = call[u]
<1>1. rt \in [Runtimes -> RuntimeState] /\ rt[r] \in RuntimeState
      /\ call \in [Threads -> CallState] /\ call[t] \in CallState
  BY DEF RegistryInv, RegistryType
<1>2. PICK q : q = [rt[r] EXCEPT !.context = c]
  OBVIOUS
<1>3. /\ q \in RuntimeState /\ q.context = c /\ q.project = rt[r].project
      /\ q.workspace = rt[r].workspace
  BY <1>1, <1>2 DEF RuntimeState
<1>4. rt' = [rt EXCEPT ![r] = q]
  BY <1>1, <1>2
<1>5. PICK s : s = IF call[t].context = None THEN "retain" ELSE "again"
  OBVIOUS
<1>6. s \in {"retain", "again"}
  BY <1>5
<1>7. PICK x : x = [call[t] EXCEPT !.context = c, !.step = s]
  OBVIOUS
<1>8. x \in CallState /\ x.step = s /\ x.context = c /\ x.runtime = r
  BY <1>1, <1>6, <1>7 DEF CallState, Steps
<1>9. call' = [call EXCEPT ![t] = x]
  BY <1>1, <1>5, <1>7
<1> QED  BY <1>1, <1>3, <1>4, <1>6, <1>8, <1>9, ZenonT(60)

LEMMA CreateInv ==
  ASSUME RegistryInv, NEW t \in Threads, NEW c \in Contexts, Create(t, c)
  PROVE  RegistryInv'
<1> DEFINE r == call[t].runtime
<1>1. /\ call[t].step = "create" /\ c \notin created
      /\ UNCHANGED <<tree, branches, job, faults>>
  BY DEF Create
<1>2. CallInv(t) /\ call[t].runtime = r /\ r \in Runtimes /\ rt[r] \in RuntimeState /\ Live \subseteq created
  BY <1>1 DEF RegistryInv, CallInv, RegistryType
<1>3. PICK victims, rest, left : Creates(t, r, c, victims, rest, left)
  BY CreateFacts
<1> HIDE DEF r
<1>4. \A v \in victims : Holding(v) = {} /\ JobsOf(v) = {}
  BY <1>3, Unleased DEF Creates
<1>5. \A v \in victims : ctx[v].workspace \in Workspaces
  BY <1>3, Leases DEF Creates
<1>6. c \notin Live /\ Holding(c) = {} /\ JobsOf(c) = {}
  BY <1>1, <1>2, NamesAssumption
     DEF RegistryInv, RegistryType, CallInv, SessionInv, Holding, JobsOf
<1>7. call[t].context \notin Live
  BY <1>1, <1>2 DEF CallInv
<1>8. job' = job /\ \A d : JobsOf(d)' = JobsOf(d)
  BY <1>1 DEF JobsOf
<1>9. CASE live' = rest /\ ctx' = left /\ Leave(t) /\ UNCHANGED <<created, rt, doomed>>
  <2>1. Moved(t, "release")
    BY <1>9, LeaveSteps
  <2>2. Live' = Live \ victims
    BY <1>3, <1>9 DEF Creates, Live, Elems
  <2>3. RegistryType'
    <3>1. /\ live' \in Seq(Contexts) /\ Distinct(live') /\ Len(live') + 1 <= MaxContexts
          /\ ctx' \in [Contexts -> ContextState] /\ Live' \subseteq created
      BY <1>2, <1>3, <1>9, <2>2 DEF Creates
    <3>2. Len(live') <= MaxContexts
      BY <3>1, MaxContextsAssumption
    <3> QED  BY <1>1, <1>9, <2>1, <3>1, <3>2 DEF RegistryInv, RegistryType, Moved
  <2>4. \A u \in Threads : CallInv(u)'
    <3>1. CallInv(t)'
      BY <1>1, <1>2, <1>9, <2>1 DEF CallInv, Moved, Held
    <3>2. ASSUME NEW u \in Threads \ {t} PROVE CallInv(u)'
      <4>1. call'[u] = call[u] /\ CallInv(u) /\ created' = created
        BY <1>9, <2>1 DEF Moved, RegistryInv
      <4>2. call[u].step \in Held => call[u].context \notin victims
        BY <1>4 DEF Holding, Held, Early
      <4> QED  BY <2>2, <4>1, <4>2 DEF CallInv
    <3> QED  BY <3>1, <3>2
  <2>5. \A q \in Runtimes : SessionInv(q)'
    BY <1>4, <1>8, <1>9, <2>2 DEF RegistryInv, SessionInv, JobsOf
  <2>6. ASSUME NEW d \in Contexts PROVE ContextInv(d)'
    <3>1. CASE d \notin Live \ victims
      BY <2>2, <3>1, Gone
    <3>2. CASE d \in Live \ victims
      <4>1. ctx'[d] = ctx[d]
        BY <1>3, <1>9, <3>2 DEF Creates
      <4>2. Holding(d)' = Holding(d)
        BY <1>1, <1>7, <2>1, <3>2 DEF Holding, Moved
      <4> QED  BY <1>8, <3>2, <4>1, <4>2, ContextKept
    <3> QED  BY <3>1, <3>2
  <2>7. OneInside'
    BY <2>1, OutsideKept DEF Moved, Within
  <2> QED  BY <2>3, <2>4, <2>5, <2>6, <2>7 DEF RegistryInv
<1>10. CASE
    /\ live' = Append(rest, c) /\ created' = created \cup {c}
    /\ ctx' = [left EXCEPT ![c] = Fresh(rt[r].project, rt[r].workspace)]
    /\ rt' = [rt EXCEPT ![r].context = c]
    /\ call' = [call EXCEPT ![t].context = c,
         ![t].step = IF call[t].context = None THEN "retain" ELSE "again"]
    /\ doomed' = doomed \cup {ctx[d].workspace : d \in {v \in victims : Isolated(v)}}
  <2>1. /\ rt' \in [Runtimes -> RuntimeState] /\ rt'[r].context = c
        /\ \A s \in Runtimes \ {r} : rt'[s] = rt[s]
        /\ call' \in [Threads -> CallState]
        /\ call'[t].step \in {"retain", "again"}
        /\ call'[t].context = c /\ call'[t].runtime = r
        /\ \A u \in Threads \ {t} : call'[u] = call[u]
    BY <1>2, <1>10, CreatedFacts, ZenonT(60)
  <2>2. PICK q : q = Fresh(rt[r].project, rt[r].workspace)
    OBVIOUS
  <2>3. q \in ContextState /\ q.project \in Projects /\ q.workspace \in Workspaces
        /\ q.leases = 0
    BY <1>2, <2>2 DEF Fresh, ContextState, RuntimeState
  <2>4. /\ ctx' \in [Contexts -> ContextState] /\ ctx'[c] = q
        /\ \A d \in Contexts \ {c} : ctx'[d] = left[d]
    BY <1>3, <1>10, <2>2, <2>3 DEF Creates
  <2>5. /\ live' \in Seq(Contexts) /\ Len(live') <= MaxContexts /\ Distinct(live')
        /\ Live' = (Live \ victims) \cup {c}
    <3>1. c \notin Elems(rest) /\ rest \in Seq(Contexts) /\ Distinct(rest)
          /\ Elems(rest) = Live \ victims /\ Len(rest) + 1 <= MaxContexts
      BY <1>3, <1>6 DEF Creates
    <3>2. PICK a : a = Append(rest, c)
      OBVIOUS
    <3>3. /\ a \in Seq(Contexts) /\ Len(a) = Len(rest) + 1 /\ Distinct(a)
          /\ Elems(a) = Elems(rest) \cup {c}
      BY <3>1, <3>2, LiveAppended
    <3>4. live' = a /\ Live' = Elems(a)
      BY <1>10, <3>2 DEF Live, Elems
    <3> QED  BY <3>1, <3>3, <3>4
  <2>6. doomed' \subseteq Workspaces
    BY <1>5, <1>10 DEF RegistryInv, RegistryType
  <2>7. RegistryType'
    BY <1>1, <1>2, <1>10, <2>1, <2>4, <2>5, <2>6 DEF RegistryInv, RegistryType
  <2>8. \A u \in Threads : CallInv(u)'
    <3>1. CallInv(t)'
      BY <1>2, <1>10, <2>1 DEF CallInv, Held, Early
    <3>2. ASSUME NEW u \in Threads \ {t} PROVE CallInv(u)'
      <4>1. call'[u] = call[u] /\ CallInv(u) /\ created' = created \cup {c}
        BY <1>10, <2>1 DEF RegistryInv
      <4>2. call[u].step \in Held => call[u].context \notin victims
        BY <1>4 DEF Holding, Held, Early
      <4>3. call[u].context # c
        BY <1>1, <4>1, NamesAssumption DEF CallInv
      <4> QED  BY <2>5, <4>1, <4>2, <4>3 DEF CallInv
    <3> QED  BY <3>1, <3>2
  <2>9. \A q2 \in Runtimes : SessionInv(q2)'
    BY <1>4, <1>8, <1>10, <2>1, <2>5 DEF RegistryInv, SessionInv, JobsOf
  <2>10. ASSUME NEW d \in Contexts PROVE ContextInv(d)'
    <3>1. CASE d = c
      <4>1. Holding(c)' = {}
        BY <1>6, <2>1 DEF Holding
      <4>2. Cardinality(Holding(c)') = 0 /\ Cardinality(JobsOf(c)') = 0
        BY <1>6, <1>8, <4>1, FS_EmptySet
      <4> QED  BY <2>3, <2>4, <3>1, <4>2 DEF ContextInv
    <3>2. CASE d # c /\ d \notin Live \ victims
      BY <2>5, <3>2, Gone
    <3>3. CASE d # c /\ d \in Live \ victims
      <4>1. ctx'[d] = ctx[d]
        BY <1>3, <2>4, <3>3 DEF Creates
      <4>2. Holding(d)' = Holding(d)
        BY <1>1, <2>1, <3>3 DEF Holding
      <4> QED  BY <1>8, <3>3, <4>1, <4>2, ContextKept
    <3> QED  BY <3>1, <3>2, <3>3
  <2>11. OneInside'
    BY <2>1, OutsideKept DEF Within, Held, Early
  <2> QED  BY <2>7, <2>8, <2>9, <2>10, <2>11 DEF RegistryInv
<1> QED  BY <1>3, <1>9, <1>10, Zenon DEF Creates

-----------------------------------------------------------------------------
LEMMA RegistryInit == Init => RegistryInv
<1> SUFFICES ASSUME Init PROVE RegistryInv
  OBVIOUS
<1>1. live = <<>> /\ DOMAIN live = {} /\ Len(live) = 0 /\ Live = {}
  BY DEF Init, Live
<1>2. NoCall \in CallState /\ NoCall.step = "idle" /\ NoCall.context = None
  BY DEF NoCall, CallState, Steps
<1>3. NewRuntime \in RuntimeState /\ NewRuntime.context = None
  BY NamesAssumption DEF NewRuntime, RuntimeState, Workspaces, Canonical
<1>4. NoState \in ContextState
  BY DEF NoState, Fresh, ContextState
<1>5. PICK x : x = [context |-> None, running |-> FALSE]
  OBVIOUS
<1>6. x \in [context : Contexts \cup {None}, running : BOOLEAN] /\ x.context = None
  BY <1>5
<1>7. job = [r \in Runtimes |-> x]
  BY <1>5 DEF Init
<1>8. RegistryType
  <2>1. live \in Seq(Contexts) /\ Len(live) <= MaxContexts /\ Distinct(live)
    BY <1>1, MaxContextsAssumption DEF Distinct
  <2> QED  BY <1>1, <1>2, <1>3, <1>4, <1>6, <1>7, <2>1, MaxFaultsAssumption
             DEF Init, RegistryType
<1>9. \A t \in Threads : CallInv(t)
  BY <1>2 DEF Init, CallInv, Held, Early
<1>10. \A r \in Runtimes : SessionInv(r)
  BY <1>3, <1>6, <1>7 DEF Init, SessionInv
<1>11. \A c \in Contexts : ContextInv(c)
  BY <1>1 DEF ContextInv
<1>12. OneInside
  BY <1>2 DEF Init, OneInside, Within, Held, Early
<1> QED  BY <1>8, <1>9, <1>10, <1>11, <1>12 DEF RegistryInv

LEMMA RegistryNext == RegistryInv /\ [Next]_vars => RegistryInv'
<1> SUFFICES ASSUME RegistryInv, [Next]_vars PROVE RegistryInv'
  OBVIOUS
<1>1. ASSUME NEW t \in Threads, CallStep(t) PROVE RegistryInv'
  <2>1. CASE Retain(t)  BY <2>1, RetainInv
  <2>2. CASE \E c \in Contexts : Create(t, c)  BY <2>2, CreateInv
  <2>3. CASE CreateRefused(t)  BY <2>3, CreateRefusedInv
  <2>4. CASE Lock(t)  BY <2>4, LockInv
  <2>5. CASE Apply(t)  BY <2>5, ApplyInv
  <2>6. CASE Claim(t)  BY <2>6, ClaimInv
  <2>7. CASE Bind(t) \/ BindFails(t)  BY <2>7, BindInv
  <2>8. CASE Observe(t) \/ Mutate(t) \/ \E p \in Projects : SelectProject(t, p)
    BY <2>8, HandlerInv
  <2>9. CASE StartJob(t)  BY <2>9, StartJobInv
  <2>10. CASE Save(t)  BY <2>10, SaveInv
  <2>11. CASE Release(t)  BY <2>11, ReleaseInv
  <2> QED  BY <1>1, <2>1, <2>2, <2>3, <2>4, <2>5, <2>6, <2>7, <2>8, <2>9, <2>10, <2>11
             DEF CallStep
<1>2. ASSUME NEW t \in Threads, NEW r \in Runtimes, NEW k \in Tools,
             NEW c \in Contexts \cup {None}, Begin(t, r, k, c)
      PROVE  RegistryInv'
  BY <1>2, BeginInv
<1>3. ASSUME NEW c \in Contexts, Prune(c) PROVE RegistryInv'
  BY <1>3, PruneInv
<1>4. CASE \/ \E w \in Workspaces : CleanupWorktree(w)
           \/ \E r \in Runtimes : Reconnect(r) \/ JobExits(r)
  BY <1>4, QuietActionsInv
<1>5. ASSUME NEW r \in Runtimes, JobPruned(r) PROVE RegistryInv'
  BY <1>5, JobPrunedInv
<1>6. CASE UNCHANGED vars
  <2>1. UNCHANGED <<live, created, ctx, rt, tree, branches, doomed, job, call, faults>>
    BY <1>6 DEF vars
  <2>2. RegistryType'
    BY <2>1 DEF RegistryInv, RegistryType, Live
  <2> QED  BY <2>1, <2>2, QuietInv
<1> QED  BY <1>1, <1>2, <1>3, <1>4, <1>5, <1>6 DEF Next

LEMMA RegistryAlways == Spec => []RegistryInv
BY RegistryInit, RegistryNext, PTL DEF Spec

(* Every state of the registry, the sessions and the calls is of its type; *)
(* the registry never has more than MAX_LOGICAL_CONTEXTS contexts, nor one *)
(* twice, however calls, jobs, evictions and expiries interleave.          *)
THEOREM TypeCorrect == Spec => []TypeOK
<1>1. RegistryInv => TypeOK
  <2> SUFFICES ASSUME RegistryInv PROVE TypeOK
    OBVIOUS
  <2>1. live \in Seq(Contexts) /\ Distinct(live) /\ Live = Elems(live)
    BY DEF RegistryInv, RegistryType, Live, Elems
  <2>2. Cardinality(Live) = Len(live)
    BY <2>1, DistinctCount
  <2> QED  BY <2>2 DEF RegistryInv, RegistryType, TypeOK
<1> QED  BY <1>1, RegistryAlways, PTL

(* A context stays registered as long as a call or a job record uses it,   *)
(* and has exactly their leases: create, retain, release, prune, register  *)
(* and the error paths of call_tool neither lose nor leak one.             *)
THEOREM LeasesAreExact == Spec => []LeasesExact
<1>1. RegistryInv => LeasesExact
  <2> SUFFICES ASSUME RegistryInv PROVE LeasesExact
    OBVIOUS
  <2>1. \A c \in Live : ctx[c].leases = Cardinality(Holding(c)) + Cardinality(JobsOf(c))
    BY Leases
  <2>2. \A t \in Threads :
          call[t].step \notin {"idle", "retain", "create", "again", "release"} =>
            call[t].context \in Live
    BY DEF RegistryInv, RegistryType, CallInv, CallState, Held, Early
  <2>3. \A r \in Runtimes : job[r].context # None => job[r].context \in Live
    BY DEF RegistryInv, SessionInv
  <2> QED  BY <2>1, <2>2, <2>3, Zenon DEF LeasesExact, JobsOf
<1> QED  BY <1>1, RegistryAlways, PTL

-----------------------------------------------------------------------------
(* Routing.  What each step does to the roots of the caller's session and  *)
(* context; those of other sessions and contexts in use stay.              *)

SameRoots(x, y) == x.project = y.project /\ x.workspace = y.workspace

(* Only the roots of the caller's session, and of its context if it is     *)
(* inside the lock, may change.                                            *)
OwnRootsOnly(t) ==
  /\ \A u \in Threads \ {t} : call'[u] = call[u]
  /\ \A r \in Runtimes : r # call[t].runtime => SameRoots(rt'[r], rt[r])
  /\ \A c \in Live : Holding(c) # {} /\ (c # call[t].context \/ call[t].step \notin Within) =>
       SameRoots(ctx'[c], ctx[c])

LEMMA OthersInPlace ==
  ASSUME RegistryInv, RoutedInv, NEW t \in Threads, call[t].step # "idle",
         OwnRootsOnly(t), InPlace(t)',
         call'[t].step # "idle" => call'[t].runtime = call[t].runtime
  PROVE  RoutedInv'
<1>1. OneCall'
  BY DEF RoutedInv, OneCall, OwnRootsOnly
<1>2. ASSUME NEW u \in Threads, u # t PROVE InPlace(u)'
  <2>1. call'[u] = call[u] /\ InPlace(u)
    BY <1>2 DEF OwnRootsOnly, RoutedInv
  <2>2. CASE call[u].step \in {"claim", "bind", "handler", "rebind", "save"}
    <3>1. Caller(u, call[u].runtime, call[u].context)
      BY <2>2, CallerFacts DEF Held, Early, Steps
    <3>2. call[u].runtime # call[t].runtime
      BY <1>2, <2>2 DEF RoutedInv, OneCall
    <3>3. call[u].context = call[t].context => call[t].step \notin Within
      BY <1>2, <2>2 DEF RegistryInv, OneInside, Within, Held, Early, Steps
    <3>4. Holding(call[u].context) # {}
      BY <2>2 DEF Holding, Steps
    <3>5. /\ SameRoots(rt'[call[u].runtime], rt[call[u].runtime])
          /\ SameRoots(ctx'[call[u].context], ctx[call[u].context])
      BY <3>1, <3>2, <3>3, <3>4 DEF OwnRootsOnly, Caller
    <3> QED  BY <2>1, <3>5 DEF InPlace, SameRoots
  <2>3. CASE call[u].step \notin {"claim", "bind", "handler", "rebind", "save"}
    BY <2>1, <2>3 DEF InPlace
  <2> QED  BY <2>2, <2>3
<1> QED  BY <1>1, <1>2 DEF RoutedInv

(* Steps outside calls, which leave the roots of sessions and contexts in  *)
(* use alone, and the arrival of a request                                 *)
LEMMA AllInPlace ==
  ASSUME RegistryInv, RoutedInv, OneCall',
         \A u \in Threads : \/ call'[u] = call[u]
                            \/ call'[u].step \notin {"claim", "bind", "handler", "rebind", "save"},
         \A u \in Threads : call[u].step # "idle" =>
           SameRoots(rt'[call[u].runtime], rt[call[u].runtime]),
         \A c \in Live : Holding(c) # {} => SameRoots(ctx'[c], ctx[c])
  PROVE  RoutedInv'
<1>1. ASSUME NEW u \in Threads PROVE InPlace(u)'
  <2>1. CASE call'[u].step \notin {"claim", "bind", "handler", "rebind", "save"}
    BY <2>1 DEF InPlace
  <2>2. CASE call'[u].step \in {"claim", "bind", "handler", "rebind", "save"}
    <3>1. call'[u] = call[u] /\ InPlace(u)
          /\ call[u].step \in {"claim", "bind", "handler", "rebind", "save"}
      BY <2>2 DEF RoutedInv
    <3>2. Caller(u, call[u].runtime, call[u].context)
      BY <3>1, CallerFacts DEF Held, Early, Steps
    <3>3. Holding(call[u].context) # {}
      BY <3>1 DEF Holding, Steps
    <3>4. /\ SameRoots(rt'[call[u].runtime], rt[call[u].runtime])
          /\ SameRoots(ctx'[call[u].context], ctx[call[u].context])
      BY <3>1, <3>2, <3>3 DEF Caller
    <3> QED  BY <3>1, <3>4 DEF InPlace, SameRoots
  <2> QED  BY <2>1, <2>2
<1> QED  BY <1>1 DEF RoutedInv

-----------------------------------------------------------------------------
(* The effect of each step of a call on roots and claims *)

LEMMA ApplyEffect ==
  ASSUME RegistryInv, NEW t \in Threads, Apply(t), NEW r, NEW c, Caller(t, r, c)
  PROVE  /\ ctx' = ctx /\ branches' = branches
         /\ \/ rt' = rt /\ Moved(t, "release")
            \/ /\ SameRoots(rt'[r], ctx[c]) /\ rt'[r].context = rt[r].context
               /\ \A s \in Runtimes \ {r} : rt'[s] = rt[s]
               /\ Moved(t, "claim") \/ Moved(t, "handler")
<1>1. r \in Runtimes /\ ctx[c].project \in Projects /\ ctx[c].workspace \in Workspaces
      /\ call[t].runtime = r /\ call[t].context = c
  BY DEF Caller
<1>2. \/ rt' = rt /\ Leave(t)
      \/ /\ NewRoots(r, ctx[c].project, ctx[c].workspace)
         /\ Goto(t, "claim") \/ Goto(t, "handler")
  BY <1>1 DEF Apply, NewRoots
<1>3. CASE rt' = rt /\ Leave(t)
  BY <1>3, LeaveSteps DEF Apply
<1>4. CASE /\ NewRoots(r, ctx[c].project, ctx[c].workspace)
           /\ Goto(t, "claim") \/ Goto(t, "handler")
  <2>1. Moved(t, "claim") \/ Moved(t, "handler")
    BY <1>4, GotoSteps DEF Steps
  <2>2. /\ rt'[r].project = ctx[c].project /\ rt'[r].workspace = ctx[c].workspace
        /\ rt'[r].context = rt[r].context /\ \A s \in Runtimes \ {r} : rt'[s] = rt[s]
    BY <1>1, <1>4, RuntimeRoots
  <2> QED  BY <2>1, <2>2 DEF SameRoots, Apply
<1> QED  BY <1>2, <1>3, <1>4

LEMMA ClaimEffect ==
  ASSUME RegistryInv, NEW t \in Threads, Claim(t), NEW r, NEW c, Caller(t, r, c)
  PROVE  /\ rt' = rt /\ branches' = branches
         /\ SameRoots(ctx'[c], ctx[c]) /\ ctx'[c].claimed = TRUE
         /\ \A d \in Contexts \ {c} : ctx'[d] = ctx[d]
         /\ \/ ~ctx[c].claimed /\ Contended(c) /\ ~Isolated(c) /\ Moved(t, "bind")
            \/ ~(~ctx[c].claimed /\ Contended(c) /\ ~Isolated(c)) /\ Moved(t, "handler")
<1>1. c \in Contexts /\ ctx[c] \in ContextState /\ call[t].context = c
      /\ ctx \in [Contexts -> ContextState]
  BY DEF Caller, RegistryInv, RegistryType
<1>2. ctx' = [ctx EXCEPT ![c].claimed = TRUE] /\ rt' = rt /\ branches' = branches
  BY <1>1 DEF Claim
<1>3. \/ ~ctx[c].claimed /\ Contended(c) /\ ~Isolated(c) /\ Goto(t, "bind")
      \/ ~(~ctx[c].claimed /\ Contended(c) /\ ~Isolated(c)) /\ Goto(t, "handler")
  BY <1>1, Zenon DEF Claim
<1>4. \/ ~ctx[c].claimed /\ Contended(c) /\ ~Isolated(c) /\ Moved(t, "bind")
      \/ ~(~ctx[c].claimed /\ Contended(c) /\ ~Isolated(c)) /\ Moved(t, "handler")
  BY <1>3, GotoSteps DEF Steps
<1>5. SameRoots(ctx'[c], ctx[c]) /\ ctx'[c].claimed = TRUE
      /\ \A d \in Contexts \ {c} : ctx'[d] = ctx[d]
  BY <1>1, <1>2 DEF ContextState, SameRoots
<1> QED  BY <1>2, <1>4, <1>5

LEMMA BindEffect ==
  ASSUME RegistryInv, NEW t \in Threads, Bind(t), NEW r, NEW c, Caller(t, r, c),
         NEW w, w = Worktree(ctx[c].project, c)
  PROVE  /\ rt' = rt /\ ctx'[c].project = ctx[c].project
         /\ \A d \in Contexts \ {c} : ctx'[d] = ctx[d]
         /\ \/ /\ w \notin branches /\ branches' = branches \cup {w}
               /\ ctx'[c].workspace = w /\ Moved(t, "rebind")
            \/ /\ branches' = branches /\ ctx'[c].workspace = ctx[c].workspace
               /\ ~ctx'[c].claimed /\ Moved(t, "release")
<1>1. c \in Contexts /\ ctx[c] \in ContextState /\ call[t].context = c
      /\ ctx \in [Contexts -> ContextState]
  BY DEF Caller, RegistryInv, RegistryType
<1>2. \/ /\ w \notin branches /\ branches' = branches \cup {w}
         /\ ctx' = [ctx EXCEPT ![c].workspace = w] /\ Goto(t, "rebind")
      \/ /\ branches' = branches /\ ctx' = [ctx EXCEPT ![c].claimed = FALSE] /\ Leave(t)
  BY <1>1 DEF Bind, CanAdd, Added
<1>3. CASE /\ w \notin branches /\ branches' = branches \cup {w}
           /\ ctx' = [ctx EXCEPT ![c].workspace = w] /\ Goto(t, "rebind")
  <2>1. Moved(t, "rebind")
    BY <1>3, GotoSteps DEF Steps
  <2>2. /\ ctx'[c].project = ctx[c].project /\ ctx'[c].workspace = w
        /\ \A d \in Contexts \ {c} : ctx'[d] = ctx[d]
    BY <1>1, <1>3 DEF ContextState
  <2> QED  BY <1>3, <2>1, <2>2 DEF Bind
<1>4. CASE branches' = branches /\ ctx' = [ctx EXCEPT ![c].claimed = FALSE] /\ Leave(t)
  <2>1. Moved(t, "release")
    BY <1>4, LeaveSteps
  <2>2. /\ ctx'[c].project = ctx[c].project /\ ctx'[c].workspace = ctx[c].workspace
        /\ ~ctx'[c].claimed /\ \A d \in Contexts \ {c} : ctx'[d] = ctx[d]
    BY <1>1, <1>4 DEF ContextState
  <2> QED  BY <1>4, <2>1, <2>2 DEF Bind
<1> QED  BY <1>2, <1>3, <1>4

LEMMA SelectEffect ==
  ASSUME RegistryInv, NEW t \in Threads, NEW p \in Projects, SelectProject(t, p),
         NEW r, NEW c, Caller(t, r, c)
  PROVE  /\ ctx' = ctx /\ branches' = branches
         /\ \/ rt' = rt /\ (Moved(t, "save") \/ Moved(t, "release"))
            \/ /\ p = rt[r].project => rt[r].workspace = Canonical(p)
               /\ rt'[r].project = p /\ rt'[r].workspace = Canonical(p)
               /\ rt'[r].context = rt[r].context
               /\ \A s \in Runtimes \ {r} : rt'[s] = rt[s]
               /\ Moved(t, "save")
<1>1. r \in Runtimes /\ call[t].runtime = r /\ Canonical(p) \in Workspaces
  BY DEF Caller, Canonical, Workspaces
<1>2. \/ rt' = rt /\ (Goto(t, "save") \/ Leave(t))
      \/ /\ ~(p = rt[r].project /\ rt[r].workspace # Canonical(p))
         /\ NewRoots(r, p, Canonical(p))
         /\ Goto(t, "save")
  BY <1>1, Zenon DEF SelectProject, NewRoots
<1>3. CASE rt' = rt /\ (Goto(t, "save") \/ Leave(t))
  BY <1>3, GotoSteps, LeaveSteps DEF SelectProject, Steps
<1>4. CASE /\ ~(p = rt[r].project /\ rt[r].workspace # Canonical(p))
           /\ NewRoots(r, p, Canonical(p))
           /\ Goto(t, "save")
  <2>1. Moved(t, "save")
    BY <1>4, GotoSteps DEF Steps
  <2>2. /\ rt'[r].project = p /\ rt'[r].workspace = Canonical(p)
        /\ rt'[r].context = rt[r].context /\ \A s \in Runtimes \ {r} : rt'[s] = rt[s]
    BY <1>1, <1>4, RuntimeRoots
  <2> QED  BY <1>4, <2>1, <2>2 DEF SelectProject
<1> QED  BY <1>2, <1>3, <1>4

LEMMA SaveEffect ==
  ASSUME RegistryInv, NEW t \in Threads, Save(t), NEW r, NEW c, Caller(t, r, c)
  PROVE  /\ rt' = rt /\ branches' = branches /\ Moved(t, "release")
         /\ \A d \in Contexts \ {c} : ctx'[d] = ctx[d]
         /\ \/ ctx'[c] = ctx[c]
            \/ /\ SameRoots(ctx'[c], rt[r])
               /\ ctx'[c].claimed = (ctx[c].claimed /\ ctx[c].project = rt[r].project)
<1>1. rt' = rt /\ branches' = branches /\ Moved(t, "release") /\ c \in Contexts
  BY LeaveSteps DEF Save, Caller
<1>2. PICK q \in ContextState :
        /\ ctx' = [ctx EXCEPT ![c] = q]
        /\ \/ q = ctx[c]
           \/ /\ q.project = rt[r].project /\ q.workspace = rt[r].workspace
              /\ q.claimed = (ctx[c].claimed /\ ctx[c].project = rt[r].project)
  BY Saved
<1>3. ctx'[c] = q /\ \A d \in Contexts \ {c} : ctx'[d] = ctx[d]
  BY <1>1, <1>2, ContextChanged
<1> QED  BY <1>1, <1>2, <1>3 DEF SameRoots

(* Contexts that leave the registry are in nobody's use, and the new one   *)
(* was never.                                                              *)
LEMMA CreateEffect ==
  ASSUME RegistryInv, NEW t \in Threads, NEW c \in Contexts, Create(t, c)
  PROVE  LET r == call[t].runtime
         IN  \E victims \in SUBSET Live :
               /\ r \in Runtimes /\ c \notin created /\ call[t].step = "create"
               /\ branches' = branches /\ faults' = faults
               /\ \A v \in victims : Holding(v) = {}
               /\ \A d \in Contexts \ (victims \cup {c}) : ctx'[d] = ctx[d]
               /\ \A u \in Threads \ {t} : call'[u] = call[u]
               /\ call'[t].runtime = r
               /\ \/ /\ Live' = (Live \ victims) \cup {c}
                     /\ SameRoots(ctx'[c], rt[r]) /\ ~ctx'[c].claimed
                     /\ rt'[r].context = c /\ SameRoots(rt'[r], rt[r])
                     /\ \A s \in Runtimes \ {r} : rt'[s] = rt[s]
                     /\ call'[t].context = c /\ call'[t].step \in {"retain", "again"}
                  \/ /\ Live' = Live \ victims /\ rt' = rt /\ Moved(t, "release")
<1> DEFINE r == call[t].runtime
<1>1. c \notin created /\ call[t].step = "create" /\ branches' = branches /\ faults' = faults
  BY DEF Create
<1>2. call[t].runtime = r /\ r \in Runtimes /\ c \notin Live
  BY <1>1 DEF RegistryInv, CallInv, RegistryType
<1>3. PICK victims, rest, left : Creates(t, r, c, victims, rest, left)
  BY CreateFacts
<1> HIDE DEF r
<1>4. /\ victims \in SUBSET Live /\ \A v \in victims : Holding(v) = {}
      /\ Elems(rest) = Live \ victims /\ rest \in Seq(Contexts) /\ Distinct(rest)
      /\ left \in [Contexts -> ContextState] /\ \A d \in Contexts \ victims : left[d] = ctx[d]
  BY <1>3, Unleased DEF Creates
<1>5. CASE live' = rest /\ ctx' = left /\ Leave(t) /\ UNCHANGED <<created, rt, doomed>>
  <2>1. Moved(t, "release")
    BY <1>5, LeaveSteps
  <2>2. Live' = Live \ victims
    BY <1>4, <1>5 DEF Live, Elems
  <2> QED  BY <1>1, <1>2, <1>4, <1>5, <2>1, <2>2 DEF Moved, r
<1>6. CASE
    /\ live' = Append(rest, c) /\ created' = created \cup {c}
    /\ ctx' = [left EXCEPT ![c] = Fresh(rt[r].project, rt[r].workspace)]
    /\ rt' = [rt EXCEPT ![r].context = c]
    /\ call' = [call EXCEPT ![t].context = c,
         ![t].step = IF call[t].context = None THEN "retain" ELSE "again"]
    /\ doomed' = doomed \cup {ctx[d].workspace : d \in {v \in victims : Isolated(v)}}
  <2>1. /\ rt'[r].context = c /\ SameRoots(rt'[r], rt[r])
        /\ \A s \in Runtimes \ {r} : rt'[s] = rt[s]
        /\ call'[t].step \in {"retain", "again"}
        /\ call'[t].context = c /\ call'[t].runtime = r
        /\ \A u \in Threads \ {t} : call'[u] = call[u]
    <3>1. rt' = [rt EXCEPT ![r].context = c]
      BY <1>6
    <3>2. call' = [call EXCEPT ![t].context = c,
            ![t].step = IF call[t].context = None THEN "retain" ELSE "again"]
      BY <1>6
    <3>3. /\ rt'[r].context = c
          /\ rt'[r].project = rt[r].project /\ rt'[r].workspace = rt[r].workspace
          /\ \A s \in Runtimes \ {r} : rt'[s] = rt[s]
          /\ call'[t].step \in {"retain", "again"}
          /\ call'[t].context = c /\ call'[t].runtime = r
          /\ \A u \in Threads \ {t} : call'[u] = call[u]
      BY <1>2, <3>1, <3>2, CreatedFacts, ZenonT(60)
    <3> QED  BY <3>3, Zenon DEF SameRoots
  <2>2. PICK q : q = Fresh(rt[r].project, rt[r].workspace)
    OBVIOUS
  <2>3. SameRoots(q, rt[r]) /\ ~q.claimed
    BY <2>2 DEF Fresh, SameRoots
  <2>4. ctx'[c] = q /\ \A d \in Contexts \ {c} : ctx'[d] = left[d]
    BY <1>4, <1>6, <2>2
  <2>5. Live' = (Live \ victims) \cup {c}
    <3>1. PICK a : a = Append(rest, c)
      OBVIOUS
    <3>2. Elems(a) = Elems(rest) \cup {c}
      BY <1>2, <1>4, <3>1, LiveAppended
    <3>3. Live' = Elems(a)
      BY <1>6, <3>1 DEF Live, Elems
    <3> QED  BY <1>4, <3>2, <3>3
  <2> QED  BY <1>1, <1>2, <1>4, <2>1, <2>3, <2>4, <2>5 DEF r
<1> QED  BY <1>3, <1>5, <1>6, Zenon DEF Creates

-----------------------------------------------------------------------------
(* Routing, step by step *)

LEMMA RoutedApply ==
  ASSUME RegistryInv, RoutedInv, NEW t \in Threads, Apply(t)
  PROVE  RoutedInv'
<1>1. call[t].step \in {"apply", "rebind"}
  BY DEF Apply
<1>2. PICK r, c : Caller(t, r, c)
  BY <1>1, CallerFacts DEF Held, Early, Steps
<1>3. call[t].runtime = r /\ call[t].context = c
  BY <1>2 DEF Caller
<1>4. /\ ctx' = ctx
      /\ \/ rt' = rt /\ Moved(t, "release")
         \/ /\ SameRoots(rt'[r], ctx[c])
            /\ \A s \in Runtimes \ {r} : rt'[s] = rt[s]
            /\ Moved(t, "claim") \/ Moved(t, "handler")
  BY <1>2, ApplyEffect
<1>5. InPlace(t)'
  BY <1>3, <1>4 DEF InPlace, Moved, SameRoots
<1>6. OwnRootsOnly(t)
  BY <1>3, <1>4 DEF OwnRootsOnly, Moved, SameRoots
<1>7. call'[t].runtime = call[t].runtime
  BY <1>4 DEF Moved
<1> QED  BY <1>1, <1>5, <1>6, <1>7, OthersInPlace

LEMMA RoutedClaim ==
  ASSUME RegistryInv, RoutedInv, NEW t \in Threads, Claim(t)
  PROVE  RoutedInv'
<1>1. call[t].step = "claim" /\ call[t].step \in Within
  BY DEF Claim, Within, Held, Early, Steps
<1>2. PICK r, c : Caller(t, r, c)
  BY <1>1, CallerFacts DEF Within
<1>3. call[t].runtime = r /\ call[t].context = c /\ Live \subseteq Contexts
  BY <1>2 DEF Caller, RegistryInv, RegistryType
<1>4. /\ rt' = rt /\ SameRoots(ctx'[c], ctx[c])
      /\ \A d \in Contexts \ {c} : ctx'[d] = ctx[d]
      /\ Moved(t, "bind") \/ Moved(t, "handler")
  BY <1>2, ClaimEffect
<1>5. InPlace(t)'
  BY <1>1, <1>3, <1>4 DEF RoutedInv, InPlace, Moved, SameRoots
<1>6. OwnRootsOnly(t)
  BY <1>1, <1>3, <1>4 DEF OwnRootsOnly, Moved, SameRoots
<1>7. call'[t].runtime = call[t].runtime
  BY <1>4 DEF Moved
<1> QED  BY <1>1, <1>5, <1>6, <1>7, OthersInPlace

LEMMA RoutedBind ==
  ASSUME RegistryInv, RoutedInv, NEW t \in Threads, Bind(t)
  PROVE  RoutedInv'
<1>1. call[t].step = "bind" /\ call[t].step \in Within
  BY DEF Bind, Within, Held, Early, Steps
<1>2. PICK r, c : Caller(t, r, c)
  BY <1>1, CallerFacts DEF Within
<1>3. call[t].runtime = r /\ call[t].context = c /\ Live \subseteq Contexts
  BY <1>2 DEF Caller, RegistryInv, RegistryType
<1>4. /\ rt' = rt /\ ctx'[c].project = ctx[c].project
      /\ \A d \in Contexts \ {c} : ctx'[d] = ctx[d]
      /\ Moved(t, "rebind") \/ Moved(t, "release")
  <2>1. PICK w : w = Worktree(ctx[c].project, c)
    OBVIOUS
  <2> QED  BY <1>2, <2>1, BindEffect
<1>5. InPlace(t)'
  BY <1>1, <1>3, <1>4 DEF RoutedInv, InPlace, Moved
<1>6. OwnRootsOnly(t)
  BY <1>1, <1>3, <1>4 DEF OwnRootsOnly, Moved, SameRoots
<1>7. call'[t].runtime = call[t].runtime
  BY <1>4 DEF Moved
<1> QED  BY <1>1, <1>5, <1>6, <1>7, OthersInPlace

LEMMA RoutedSelect ==
  ASSUME RegistryInv, RoutedInv, NEW t \in Threads, NEW p \in Projects, SelectProject(t, p)
  PROVE  RoutedInv'
<1>1. call[t].step = "handler"
  BY DEF SelectProject
<1>2. PICK r, c : Caller(t, r, c)
  BY <1>1, CallerFacts DEF Held, Early, Steps
<1>3. call[t].runtime = r /\ call[t].context = c
  BY <1>2 DEF Caller
<1>4. /\ ctx' = ctx
      /\ \/ rt' = rt /\ (Moved(t, "save") \/ Moved(t, "release"))
         \/ /\ p = rt[r].project => rt[r].workspace = Canonical(p)
            /\ rt'[r].project = p /\ rt'[r].workspace = Canonical(p)
            /\ \A s \in Runtimes \ {r} : rt'[s] = rt[s]
            /\ Moved(t, "save")
  BY <1>2, SelectEffect
<1>5. SameRoots(rt[r], ctx[c])
  BY <1>1, <1>3 DEF RoutedInv, InPlace, SameRoots
<1>6. InPlace(t)'
  BY <1>3, <1>4, <1>5 DEF InPlace, Moved, SameRoots
<1>7. OwnRootsOnly(t)
  BY <1>3, <1>4 DEF OwnRootsOnly, Moved, SameRoots
<1>8. call'[t].runtime = call[t].runtime
  BY <1>4 DEF Moved
<1> QED  BY <1>1, <1>6, <1>7, <1>8, OthersInPlace

LEMMA RoutedSave ==
  ASSUME RegistryInv, RoutedInv, NEW t \in Threads, Save(t)
  PROVE  RoutedInv'
<1>1. call[t].step = "save" /\ call[t].step \in Within
  BY DEF Save, Within, Held, Early, Steps
<1>2. PICK r, c : Caller(t, r, c)
  BY <1>1, CallerFacts DEF Within
<1>3. call[t].runtime = r /\ call[t].context = c /\ Live \subseteq Contexts
  BY <1>2 DEF Caller, RegistryInv, RegistryType
<1>4. rt' = rt /\ Moved(t, "release") /\ \A d \in Contexts \ {c} : ctx'[d] = ctx[d]
  BY <1>2, SaveEffect
<1>5. InPlace(t)'
  BY <1>4 DEF InPlace, Moved
<1>6. OwnRootsOnly(t)
  BY <1>1, <1>3, <1>4 DEF OwnRootsOnly, Moved, SameRoots
<1>7. call'[t].runtime = call[t].runtime
  BY <1>4 DEF Moved
<1> QED  BY <1>1, <1>5, <1>6, <1>7, OthersInPlace

(* Steps of a call that change no roots *)
LEMMA PlainEffect ==
  ASSUME RegistryInv, NEW t \in Threads,
         \/ Retain(t) \/ CreateRefused(t) \/ Lock(t) \/ BindFails(t)
         \/ Observe(t) \/ Mutate(t) \/ StartJob(t)
  PROVE  /\ rt' = rt /\ call[t].step # "idle" /\ live' = live
         /\ \A d \in Live : SameRoots(ctx'[d], ctx[d]) /\ ctx'[d].claimed = ctx[d].claimed
         /\ BindFails(t) \/ (branches' = branches /\ faults' = faults)
         /\ call[t].step # "bind" \/ BindFails(t)
         /\ \/ \E s \in {"lock", "create", "release", "apply"} : Moved(t, s)
            \/ call[t].step = "handler" /\ Moved(t, "save")
<1>1. Live \subseteq Contexts
  BY DEF RegistryInv, RegistryType
<1>2. CASE Retain(t)
  <2>1. ctx' = ctx \/ (call[t].context \in Live /\ Leased(call[t].context))
    BY <1>2, Zenon DEF Retain, Leased
  <2>2. \A d \in Live : SameRoots(ctx'[d], ctx[d]) /\ ctx'[d].claimed = ctx[d].claimed
    <3>1. CASE ctx' = ctx  BY <3>1 DEF SameRoots
    <3>2. CASE call[t].context \in Live /\ Leased(call[t].context)
      <4>1. PICK c : c = call[t].context
        OBVIOUS
      <4>2. c \in Contexts /\ ctx' = [ctx EXCEPT ![c].leases = @ + 1]
        BY <1>1, <3>2, <4>1 DEF Leased
      <4> QED  BY <1>1, <4>2, LeaseMore DEF SameRoots
    <3> QED  BY <2>1, <3>1, <3>2
  <2>3. \E s \in {"lock", "create", "release"} : Moved(t, s)
    BY <1>2, GotoSteps, LeaveSteps DEF Retain, Steps
  <2> QED  BY <1>2, <2>2, <2>3 DEF Retain
<1>3. CASE CreateRefused(t)
  BY <1>3, LeaveSteps DEF CreateRefused, SameRoots
<1>4. CASE Lock(t)
  BY <1>4, GotoSteps DEF Lock, SameRoots, Steps
<1>5. CASE BindFails(t)
  BY <1>5, LeaveSteps DEF BindFails, SameRoots
<1>6. CASE Observe(t)
  BY <1>6, GotoSteps DEF Observe, SameRoots, Steps
<1>7. CASE Mutate(t)
  BY <1>7, GotoSteps DEF Mutate, SameRoots, Steps
<1>8. CASE StartJob(t)
  <2>1. call[t].step = "handler" /\ Moved(t, "save") /\ Leased(call[t].context)
        /\ rt' = rt /\ branches' = branches /\ faults' = faults /\ live' = live
    BY <1>8, GotoSteps DEF StartJob, Leased, Steps
  <2>2. PICK r, c : Caller(t, r, c)
    BY <2>1, CallerFacts DEF Held, Early, Steps
  <2>3. c \in Contexts /\ ctx' = [ctx EXCEPT ![c].leases = @ + 1]
    BY <2>1, <2>2 DEF Caller, Leased
  <2>4. \A d \in Live : SameRoots(ctx'[d], ctx[d]) /\ ctx'[d].claimed = ctx[d].claimed
    BY <1>1, <2>3, LeaseMore DEF SameRoots
  <2> QED  BY <2>1, <2>4
<1> QED  BY <1>2, <1>3, <1>4, <1>5, <1>6, <1>7, <1>8

LEMMA RoutedPlain ==
  ASSUME RegistryInv, RoutedInv, NEW t \in Threads,
         \/ Retain(t) \/ CreateRefused(t) \/ Lock(t) \/ BindFails(t)
         \/ Observe(t) \/ Mutate(t) \/ StartJob(t)
  PROVE  RoutedInv'
<1>1. /\ rt' = rt /\ call[t].step # "idle"
      /\ \A d \in Live : SameRoots(ctx'[d], ctx[d])
      /\ \/ \E s \in {"lock", "create", "release", "apply"} : Moved(t, s)
         \/ call[t].step = "handler" /\ Moved(t, "save")
  BY PlainEffect
<1>2. OwnRootsOnly(t)
  BY <1>1 DEF OwnRootsOnly, Moved, SameRoots
<1>3. InPlace(t)'
  <2>1. CASE \E s \in {"lock", "create", "release", "apply"} : Moved(t, s)
    BY <2>1 DEF InPlace, Moved
  <2>2. CASE call[t].step = "handler" /\ Moved(t, "save")
    <3>1. Caller(t, call[t].runtime, call[t].context)
      BY <2>2, CallerFacts DEF Held, Early, Steps
    <3>2. SameRoots(ctx'[call[t].context], ctx[call[t].context])
      BY <1>1, <3>1 DEF Caller
    <3> QED  BY <1>1, <2>2, <3>2 DEF RoutedInv, InPlace, Moved, SameRoots
  <2> QED  BY <1>1, <2>1, <2>2
<1>4. call'[t].runtime = call[t].runtime
  BY <1>1 DEF Moved
<1> QED  BY <1>1, <1>2, <1>3, <1>4, OthersInPlace

LEMMA RoutedCreate ==
  ASSUME RegistryInv, RoutedInv, NEW t \in Threads, NEW c \in Contexts, Create(t, c)
  PROVE  RoutedInv'
<1> DEFINE r == call[t].runtime
<1>1. PICK victims \in SUBSET Live :
        /\ r \in Runtimes /\ c \notin created /\ call[t].step = "create"
        /\ \A v \in victims : Holding(v) = {}
        /\ \A d \in Contexts \ (victims \cup {c}) : ctx'[d] = ctx[d]
        /\ \A u \in Threads \ {t} : call'[u] = call[u]
        /\ call'[t].runtime = r
        /\ \/ /\ \A s \in Runtimes \ {r} : rt'[s] = rt[s]
              /\ call'[t].step \in {"retain", "again"}
           \/ rt' = rt /\ Moved(t, "release")
  BY CreateEffect
<1>2. InPlace(t)'
  BY <1>1 DEF InPlace, Moved
<1>3. c \notin Live /\ Live \subseteq Contexts
  BY <1>1 DEF RegistryInv, RegistryType
<1>4. OwnRootsOnly(t)
  BY <1>1, <1>3 DEF OwnRootsOnly, SameRoots
<1> QED  BY <1>1, <1>2, <1>4, OthersInPlace

LEMMA ReleaseEffect ==
  ASSUME RegistryInv, NEW t \in Threads, Release(t)
  PROVE  /\ rt' = rt /\ branches' = branches /\ faults' = faults /\ Live' = Live
         /\ call[t].step = "release" /\ call'[t].step = "idle" /\ call'[t].context = None
         /\ \A u \in Threads \ {t} : call'[u] = call[u]
         /\ \A d \in Contexts : /\ SameRoots(ctx'[d], ctx[d])
                                /\ ctx'[d].claimed = ctx[d].claimed
<1>1. NoCall.step = "idle" /\ NoCall.context = None
  BY DEF NoCall
<1>2. call \in [Threads -> CallState]
  BY DEF RegistryInv, RegistryType
<1>3. Live' = Live /\ \A d \in Contexts : /\ SameRoots(ctx'[d], ctx[d])
                                          /\ ctx'[d].claimed = ctx[d].claimed
  BY ReleasedFacts DEF Release, SameRoots
<1> QED  BY <1>1, <1>2, <1>3 DEF Release

LEMMA RoutedRelease ==
  ASSUME RegistryInv, RoutedInv, NEW t \in Threads, Release(t)
  PROVE  RoutedInv'
<1>1. /\ rt' = rt /\ call[t].step = "release" /\ call'[t].step = "idle"
      /\ \A u \in Threads \ {t} : call'[u] = call[u]
      /\ \A d \in Contexts : SameRoots(ctx'[d], ctx[d])
  BY ReleaseEffect
<1>2. Live \subseteq Contexts
  BY DEF RegistryInv, RegistryType
<1>3. OwnRootsOnly(t)
  BY <1>1, <1>2 DEF OwnRootsOnly, SameRoots
<1>4. InPlace(t)'
  BY <1>1 DEF InPlace
<1> QED  BY <1>1, <1>3, <1>4, OthersInPlace

(* A request arrives: with its session's context, or the one it names. *)
LEMMA BeginEffect ==
  ASSUME RegistryInv, NEW t \in Threads, NEW r \in Runtimes, NEW tool \in Tools,
         NEW requested \in Contexts \cup {None}, Begin(t, r, tool, requested)
  PROVE  /\ rt' = rt /\ live' = live /\ branches' = branches /\ faults' = faults
         /\ call[t].step = "idle" /\ call'[t].runtime = r
         /\ call'[t].step \in {"create", "retain", "lock", "release"}
         /\ call'[t].context = rt[r].context \/ Explicit
         /\ \A u \in Threads \ {t} : call'[u] = call[u]
         /\ Pipelined \/ \A u \in Threads : call[u].step # "idle" => call[u].runtime # r
         /\ \A d \in Contexts : /\ SameRoots(ctx'[d], ctx[d])
                                /\ ctx'[d].claimed = ctx[d].claimed
<1>1. /\ rt' = rt /\ live' = live /\ branches' = branches /\ faults' = faults
      /\ call[t].step = "idle" /\ call \in [Threads -> CallState]
      /\ Pipelined \/ \A u \in Threads : call[u].step # "idle" => call[u].runtime # r
      /\ requested # None => Explicit
  BY DEF Begin, RegistryInv, RegistryType
<1>2. PICK c, s, x :
        /\ call' = [call EXCEPT ![t] = x] /\ x.step = s /\ x.runtime = r /\ x.context = c
        /\ s \in {"create", "retain", "lock", "release"}
        /\ c = IF requested = None THEN rt[r].context ELSE requested
  <2>1. PICK c : c = IF requested = None THEN rt[r].context ELSE requested
    OBVIOUS
  <2>2. PICK s : s = IF requested = None THEN IF c = None THEN "create" ELSE "retain"
                     ELSE IF c \in Live THEN "lock" ELSE "release"
    OBVIOUS
  <2>3. PICK x : x = [step |-> s, runtime |-> r, context |-> c, tool |-> tool]
    OBVIOUS
  <2>4. call' = [call EXCEPT ![t] = x]
    BY <2>1, <2>2, <2>3, Zenon DEF Begin
  <2>5. x.step = s /\ x.runtime = r /\ x.context = c
        /\ s \in {"create", "retain", "lock", "release"}
    BY <2>2, <2>3
  <2> QED  BY <2>1, <2>4, <2>5
<1>3. call'[t] = x /\ \A u \in Threads \ {t} : call'[u] = call[u]
  BY <1>1, <1>2
<1>4. ctx' = ctx \/ (requested \in Live /\ Leased(requested))
  BY Zenon DEF Begin, Leased
<1>5. \A d \in Contexts : SameRoots(ctx'[d], ctx[d]) /\ ctx'[d].claimed = ctx[d].claimed
  <2>1. CASE ctx' = ctx  BY <2>1 DEF SameRoots
  <2>2. CASE requested \in Live /\ Leased(requested)
    <3>1. requested \in Contexts
      BY <2>2, Leases
    <3> QED  BY <2>2, <3>1, LeaseMore DEF Leased, SameRoots
  <2> QED  BY <1>4, <2>1, <2>2
<1> QED  BY <1>1, <1>2, <1>3, <1>5

(* Steps outside calls *)
LEMMA OutsideEffect ==
  ASSUME RegistryInv,
         \/ \E c \in Contexts : Prune(c)
         \/ \E w \in Workspaces : CleanupWorktree(w)
         \/ \E r \in Runtimes : Reconnect(r) \/ JobExits(r) \/ JobPruned(r)
         \/ UNCHANGED vars
  PROVE  /\ call' = call /\ branches' = branches
         /\ (faults' = faults /\ rt' = rt) \/ faults' = faults + 1
         /\ \A u \in Threads : call[u].step # "idle" =>
              SameRoots(rt'[call[u].runtime], rt[call[u].runtime])
         /\ \A c \in Live : c \in Live' \/ Holding(c) = {}
         /\ Live' \subseteq Live
         /\ \A c \in Live : c \in Live' \/ Holding(c) # {} =>
              SameRoots(ctx'[c], ctx[c]) /\ ctx'[c].claimed = ctx[c].claimed
<1>1. /\ Live \subseteq Contexts /\ Live = Elems(live)
      /\ live \in Seq(Contexts) /\ Distinct(live) /\ rt \in [Runtimes -> RuntimeState]
      /\ \A u \in Threads : call[u].step # "idle" => call[u].runtime \in Runtimes
  BY DEF RegistryInv, RegistryType, CallInv, Live, Elems
<1>2. ASSUME NEW c \in Contexts, Prune(c)
      PROVE  /\ call' = call /\ branches' = branches /\ faults' = faults /\ rt' = rt
             /\ Live' = Live \ {c} /\ Holding(c) = {}
             /\ \A d \in Contexts \ {c} : ctx'[d] = ctx[d]
  <2>1. /\ call' = call /\ branches' = branches /\ faults' = faults /\ rt' = rt
        /\ c \in Live /\ ctx[c].leases = 0 /\ live' = Without(live, c)
        /\ ctx' = [ctx EXCEPT ![c] = NoState]
    BY <1>2 DEF Prune
  <2>2. PICK w : w = Without(live, c)
    OBVIOUS
  <2>3. Elems(w) = Elems(live) \ {c}
    BY <1>1, <2>1, <2>2, LiveWithout
  <2>4. Live' = Live \ {c}
    BY <1>1, <2>1, <2>2, <2>3 DEF Live, Elems
  <2>5. \A d \in Contexts \ {c} : ctx'[d] = ctx[d]
    BY <2>1 DEF RegistryInv, RegistryType
  <2> QED  BY <2>1, <2>4, <2>5, Unleased
<1>3. CASE \E c \in Contexts : Prune(c)
  BY <1>1, <1>2, <1>3 DEF SameRoots
<1>4. CASE \E w \in Workspaces : CleanupWorktree(w)
  BY <1>4 DEF CleanupWorktree, SameRoots, Live
<1>5. ASSUME NEW r \in Runtimes, Reconnect(r)
      PROVE  /\ UNCHANGED <<live, call, branches, ctx>> /\ faults' = faults + 1
             /\ \A u \in Threads : call[u].step # "idle" =>
                  rt'[call[u].runtime] = rt[call[u].runtime]
  BY <1>1, <1>5 DEF Reconnect
<1>6. CASE \E r \in Runtimes : Reconnect(r)
  BY <1>5, <1>6 DEF SameRoots, Live
<1>7. CASE \E r \in Runtimes : JobExits(r)
  BY <1>7 DEF JobExits, SameRoots, Live
<1>8. ASSUME NEW r \in Runtimes, JobPruned(r)
      PROVE  /\ UNCHANGED <<rt, call, branches, faults>> /\ Live' = Live
             /\ \A d \in Contexts : /\ SameRoots(ctx'[d], ctx[d])
                                    /\ ctx'[d].claimed = ctx[d].claimed
  BY <1>8, ReleasedFacts DEF JobPruned, SameRoots
<1>9. CASE \E r \in Runtimes : JobPruned(r)
  BY <1>1, <1>8, <1>9 DEF SameRoots
<1>10. CASE UNCHANGED vars
  BY <1>10 DEF vars, SameRoots, Live
<1> QED  BY <1>3, <1>4, <1>6, <1>7, <1>9, <1>10

LEMMA RoutedBegin ==
  ASSUME ~Pipelined, RegistryInv, RoutedInv, NEW t \in Threads, NEW r \in Runtimes,
         NEW tool \in Tools, NEW requested \in Contexts \cup {None},
         Begin(t, r, tool, requested)
  PROVE  RoutedInv'
<1>1. /\ rt' = rt /\ call'[t].runtime = r
      /\ call'[t].step \in {"create", "retain", "lock", "release"}
      /\ \A u \in Threads \ {t} : call'[u] = call[u]
      /\ \A u \in Threads : call[u].step # "idle" => call[u].runtime # r
      /\ \A d \in Contexts : SameRoots(ctx'[d], ctx[d])
  BY BeginEffect
<1>2. OneCall'
  BY <1>1 DEF RoutedInv, OneCall
<1>3. Live \subseteq Contexts
  BY DEF RegistryInv, RegistryType
<1>4. \A x : SameRoots(x, x)
  BY DEF SameRoots
<1>5. \A u \in Threads : \/ call'[u] = call[u]
                         \/ call'[u].step \notin {"claim", "bind", "handler", "rebind", "save"}
  BY <1>1
<1> QED  BY <1>1, <1>2, <1>3, <1>4, <1>5, AllInPlace

LEMMA RoutedOutside ==
  ASSUME RegistryInv, RoutedInv,
         \/ \E c \in Contexts : Prune(c)
         \/ \E w \in Workspaces : CleanupWorktree(w)
         \/ \E r \in Runtimes : Reconnect(r) \/ JobExits(r) \/ JobPruned(r)
         \/ UNCHANGED vars
  PROVE  RoutedInv'
<1>1. /\ call' = call
      /\ \A u \in Threads : call[u].step # "idle" =>
           SameRoots(rt'[call[u].runtime], rt[call[u].runtime])
      /\ \A c \in Live : Holding(c) # {} => SameRoots(ctx'[c], ctx[c])
  BY OutsideEffect
<1>2. OneCall'
  BY <1>1 DEF RoutedInv, OneCall
<1> QED  BY <1>1, <1>2, AllInPlace

LEMMA RoutedNext ==
  ASSUME ~Pipelined PROVE RegistryInv /\ RoutedInv /\ [Next]_vars => RoutedInv'
<1> SUFFICES ASSUME RegistryInv, RoutedInv, [Next]_vars PROVE RoutedInv'
  OBVIOUS
<1>1. ASSUME NEW t \in Threads, CallStep(t) PROVE RoutedInv'
  <2>1. CASE \/ Retain(t) \/ CreateRefused(t) \/ Lock(t) \/ BindFails(t)
             \/ Observe(t) \/ Mutate(t) \/ StartJob(t)
    BY <2>1, RoutedPlain
  <2>2. CASE \E c \in Contexts : Create(t, c)  BY <2>2, RoutedCreate
  <2>3. CASE Apply(t)  BY <2>3, RoutedApply
  <2>4. CASE Claim(t)  BY <2>4, RoutedClaim
  <2>5. CASE Bind(t)  BY <2>5, RoutedBind
  <2>6. CASE \E p \in Projects : SelectProject(t, p)  BY <2>6, RoutedSelect
  <2>7. CASE Save(t)  BY <2>7, RoutedSave
  <2>8. CASE Release(t)  BY <2>8, RoutedRelease
  <2> QED  BY <1>1, <2>1, <2>2, <2>3, <2>4, <2>5, <2>6, <2>7, <2>8 DEF CallStep
<1>2. ASSUME NEW t \in Threads, NEW r \in Runtimes, NEW k \in Tools,
             NEW c \in Contexts \cup {None}, Begin(t, r, k, c)
      PROVE  RoutedInv'
  BY <1>2, RoutedBegin
<1>3. CASE \/ \E c \in Contexts : Prune(c)
           \/ \E w \in Workspaces : CleanupWorktree(w)
           \/ \E r \in Runtimes : Reconnect(r) \/ JobExits(r) \/ JobPruned(r)
           \/ UNCHANGED vars
  BY <1>3, RoutedOutside
<1> QED  BY <1>1, <1>2, <1>3 DEF Next

LEMMA RoutedInit == Init => RoutedInv
<1>1. NoCall.step = "idle"
  BY DEF NoCall
<1> QED  BY <1>1 DEF Init, RoutedInv, OneCall, InPlace

(* As long as a session has one call in progress at a time, every tool     *)
(* runs in the project and the workspace of its context, whichever session *)
(* the context comes from and whatever other sessions do meanwhile.        *)
THEOREM CallsAreRouted == ASSUME ~Pipelined PROVE Spec => []RoutedToOwnWorkspace
<1>1. RoutedInv => RoutedToOwnWorkspace
  BY DEF RoutedInv, InPlace, RoutedToOwnWorkspace
<1>2. RegistryInv /\ RoutedInv /\ [Next]_vars => RoutedInv'
  BY RoutedNext
<1> QED  BY <1>1, <1>2, RoutedInit, RegistryAlways, PTL DEF Spec

-----------------------------------------------------------------------------
(* Isolation.  Steps that leave roots, claims and the set of contexts that *)
(* wait for a worktree as they are                                         *)

LEMMA WaitsKept ==
  ASSUME NEW t \in Threads, call[t].step # "bind", call'[t].step # "bind",
         \A u \in Threads \ {t} : call'[u] = call[u], NEW c
  PROVE  Waits(c)' <=> Waits(c)
BY DEF Waits

LEMMA NotWaiting ==
  ASSUME RegistryInv, NEW t \in Threads, call[t].step \in Within, call[t].step # "bind"
  PROVE  ~Waits(call[t].context)
BY DEF Waits, RegistryInv, OneInside, Within, Held, Early, Steps

RootsKept ==
  /\ \A r \in Runtimes : SameRoots(rt'[r], rt[r]) /\ rt'[r].context = rt[r].context
  /\ Live' \subseteq Live /\ branches' = branches
  /\ \A c \in Live' : SameRoots(ctx'[c], ctx[c])

LEMMA ApartKept ==
  ASSUME Apart, RootsKept,
         \A t \in Threads : call'[t].step # "idle" =>
           call'[t].context = rt'[call'[t].runtime].context
  PROVE  Apart'
<1>1. OwnContexts'
  BY DEF Apart, OwnContexts, RootsKept
<1>2. NotShared'
  BY DEF Apart, NotShared, RootsKept, SameRoots, Managed
<1>3. \A r \in Runtimes : GoodRoots(rt[r])'
  BY DEF Apart, GoodRoots, RootsKept, SameRoots, Managed
<1>4. \A c \in Live' : GoodRoots(ctx[c])'
  BY DEF Apart, GoodRoots, RootsKept, SameRoots, Managed
<1> QED  BY <1>1, <1>2, <1>3, <1>4 DEF Apart

LEMMA ClaimsKept ==
  ASSUME Claims, Live' \subseteq Live,
         \A c \in Live' : /\ SameRoots(ctx'[c], ctx[c]) /\ (ctx'[c].claimed => ctx[c].claimed)
                          /\ Waits(c) => Waits(c)'
  PROVE  Claims'
BY DEF Claims, SameRoots, Isolated, Canonical

LEMMA IsolatedPlain ==
  ASSUME RegistryInv, Apart, Claims, NEW t \in Threads,
         \/ Retain(t) \/ CreateRefused(t) \/ Lock(t)
         \/ Observe(t) \/ Mutate(t) \/ StartJob(t)
  PROVE  Apart' /\ Claims'
<1>0. ~BindFails(t)
  BY DEF Retain, CreateRefused, Lock, Observe, Mutate, StartJob, BindFails
<1>1. /\ rt' = rt /\ call[t].step # "idle" /\ live' = live /\ branches' = branches
      /\ \A d \in Live : SameRoots(ctx'[d], ctx[d]) /\ ctx'[d].claimed = ctx[d].claimed
      /\ call[t].step # "bind"
      /\ \E s \in {"lock", "create", "release", "apply", "save"} : Moved(t, s)
  BY <1>0, PlainEffect
<1>2. Live' = Live
  BY <1>1 DEF Live
<1>3. RootsKept
  BY <1>1, <1>2 DEF RootsKept, SameRoots
<1>4. Apart'
  BY <1>1, <1>3, ApartKept DEF Apart, OwnContexts, Moved
<1>5. \A c : Waits(c)' <=> Waits(c)
  BY <1>1, WaitsKept DEF Moved
<1> QED  BY <1>1, <1>2, <1>4, <1>5, ClaimsKept

LEMMA IsolatedRelease ==
  ASSUME RegistryInv, Apart, Claims, NEW t \in Threads, Release(t)
  PROVE  Apart' /\ Claims'
<1>1. /\ rt' = rt /\ branches' = branches /\ Live' = Live
      /\ call[t].step = "release" /\ call'[t].step = "idle"
      /\ \A u \in Threads \ {t} : call'[u] = call[u]
      /\ \A d \in Contexts : SameRoots(ctx'[d], ctx[d]) /\ ctx'[d].claimed = ctx[d].claimed
  BY ReleaseEffect
<1>2. Live \subseteq Contexts
  BY DEF RegistryInv, RegistryType
<1>3. RootsKept
  BY <1>1, <1>2 DEF RootsKept, SameRoots
<1>4. Apart'
  BY <1>1, <1>3, ApartKept DEF Apart, OwnContexts
<1>5. \A c : Waits(c)' <=> Waits(c)
  BY <1>1, WaitsKept
<1> QED  BY <1>1, <1>2, <1>4, <1>5, ClaimsKept

LEMMA IsolatedBegin ==
  ASSUME ~Explicit, RegistryInv, Apart, Claims, NEW t \in Threads, NEW r \in Runtimes,
         NEW tool \in Tools, NEW requested \in Contexts \cup {None},
         Begin(t, r, tool, requested)
  PROVE  Apart' /\ Claims'
<1>1. /\ rt' = rt /\ live' = live /\ branches' = branches
      /\ call[t].step = "idle" /\ call'[t].runtime = r
      /\ call'[t].step \in {"create", "retain", "lock", "release"}
      /\ call'[t].context = rt[r].context
      /\ \A u \in Threads \ {t} : call'[u] = call[u]
      /\ \A d \in Contexts : SameRoots(ctx'[d], ctx[d]) /\ ctx'[d].claimed = ctx[d].claimed
  BY BeginEffect
<1>2. Live \subseteq Contexts /\ Live' = Live
  BY <1>1 DEF RegistryInv, RegistryType, Live
<1>3. RootsKept
  BY <1>1, <1>2 DEF RootsKept, SameRoots
<1>4. Apart'
  BY <1>1, <1>3, ApartKept DEF Apart, OwnContexts
<1>5. \A c : Waits(c)' <=> Waits(c)
  BY <1>1, WaitsKept
<1> QED  BY <1>1, <1>2, <1>4, <1>5, ClaimsKept

LEMMA IsolatedOutside ==
  ASSUME RegistryInv, Apart, Claims, faults' = faults,
         \/ \E c \in Contexts : Prune(c)
         \/ \E w \in Workspaces : CleanupWorktree(w)
         \/ \E r \in Runtimes : Reconnect(r) \/ JobExits(r) \/ JobPruned(r)
         \/ UNCHANGED vars
  PROVE  Apart' /\ Claims'
<1>1. faults # faults + 1
  BY DEF RegistryInv, RegistryType
<1>2. /\ call' = call /\ branches' = branches /\ rt' = rt /\ Live' \subseteq Live
      /\ \A c \in Live' : SameRoots(ctx'[c], ctx[c]) /\ ctx'[c].claimed = ctx[c].claimed
  BY <1>1, OutsideEffect
<1>3. RootsKept
  BY <1>2 DEF RootsKept, SameRoots
<1>4. Apart'
  BY <1>2, <1>3, ApartKept DEF Apart, OwnContexts
<1>5. \A c : Waits(c)' <=> Waits(c)
  BY <1>2 DEF Waits
<1> QED  BY <1>2, <1>4, <1>5, ClaimsKept

-----------------------------------------------------------------------------
(* Steps that change the roots of the caller's session or context *)

(* The context of a call is its session's own. *)
LEMMA OwnCaller ==
  ASSUME RegistryInv, Apart, NEW t \in Threads, call[t].step \in Held \ {"release"}
  PROVE  \E r, c : Caller(t, r, c) /\ rt[r].context = c /\ c # None
<1>1. Caller(t, call[t].runtime, call[t].context)
  BY CallerFacts
<1>2. call[t].step # "idle"
  BY DEF Held, Early
<1>3. rt[call[t].runtime].context = call[t].context
  BY <1>2 DEF Apart, OwnContexts
<1>4. call[t].context # None
  BY <1>1, NamesAssumption DEF Caller
<1> QED  BY <1>1, <1>3, <1>4

(* Calls keep to their session's context when sessions keep theirs. *)
LEMMA OwnContextsKept ==
  ASSUME RegistryInv, Apart, NEW t \in Threads, NEW s, Moved(t, s), call[t].step # "idle",
         \A r \in Runtimes : rt'[r].context = rt[r].context
  PROVE  OwnContexts'
<1>1. \A u \in Threads : call'[u].step # "idle" =>
        /\ call[u].step # "idle" /\ call[u].runtime \in Runtimes
        /\ call'[u].runtime = call[u].runtime /\ call'[u].context = call[u].context
  BY DEF Moved, RegistryInv, CallInv
<1> QED  BY <1>1 DEF Apart, OwnContexts

LEMMA IsolatedApply ==
  ASSUME RegistryInv, Apart, Claims, NEW t \in Threads, Apply(t)
  PROVE  Apart' /\ Claims'
<1>1. call[t].step \in {"apply", "rebind"} /\ live' = live
  BY DEF Apply
<1>2. PICK r, c : Caller(t, r, c) /\ rt[r].context = c /\ c # None
  BY <1>1, OwnCaller DEF Held, Early, Steps
<1>3. /\ ctx' = ctx /\ branches' = branches
      /\ \/ rt' = rt /\ Moved(t, "release")
         \/ /\ SameRoots(rt'[r], ctx[c]) /\ rt'[r].context = rt[r].context
            /\ \A s \in Runtimes \ {r} : rt'[s] = rt[s]
            /\ Moved(t, "claim") \/ Moved(t, "handler")
  BY <1>2, ApplyEffect
<1>4. Live' = Live /\ r \in Runtimes /\ c \in Live
  BY <1>1, <1>2 DEF Live, Caller
<1>5. PICK s \in {"release", "claim", "handler"} : Moved(t, s)
  BY <1>3
<1>6. OwnContexts'
  BY <1>1, <1>3, <1>5, OwnContextsKept
<1>7. NotShared'
  <2>1. CASE rt' = rt
    BY <1>3, <1>4, <2>1 DEF Apart, NotShared, Managed
  <2>2. CASE /\ SameRoots(rt'[r], ctx[c]) /\ rt'[r].context = rt[r].context
             /\ \A q \in Runtimes \ {r} : rt'[q] = rt[q]
    <3>1. \A q \in Runtimes \ {r} :
            ~(rt[q].workspace = ctx[c].workspace /\ Managed(ctx[c].workspace))
      BY <1>2, <1>4 DEF Apart, NotShared, OwnContexts
    <3>2. \A x, y \in Runtimes :
            rt'[x].workspace = rt'[y].workspace /\ Managed(rt'[x].workspace) => x = y
      BY <2>2, <3>1 DEF Apart, NotShared, SameRoots, Managed
    <3>3. \A x \in Runtimes, d \in Live :
            rt'[x].workspace = ctx[d].workspace /\ Managed(ctx[d].workspace)
              => rt'[x].context = d
      BY <1>2, <1>4, <2>2 DEF Apart, NotShared, SameRoots
    <3> QED  BY <1>3, <1>4, <3>2, <3>3 DEF Apart, NotShared, Managed
  <2> QED  BY <1>3, <2>1, <2>2
<1>8. \A q \in Runtimes : GoodRoots(rt[q])'
  BY <1>3, <1>4 DEF Apart, GoodRoots, SameRoots, Managed
<1>9. \A d \in Live' : GoodRoots(ctx[d])'
  BY <1>3, <1>4 DEF Apart, GoodRoots, Managed
<1>10. \A d : Waits(d)' <=> Waits(d)
  BY <1>1, <1>5, WaitsKept DEF Moved
<1>11. Claims'
  BY <1>3, <1>4, <1>10, ClaimsKept DEF SameRoots
<1> QED  BY <1>6, <1>7, <1>8, <1>9, <1>11 DEF Apart

LEMMA IsolatedClaim ==
  ASSUME RegistryInv, Apart, Claims, NEW t \in Threads, Claim(t)
  PROVE  Apart' /\ Claims'
<1>1. call[t].step = "claim" /\ call[t].step \in Within /\ live' = live
  BY DEF Claim, Within, Held, Early, Steps
<1>2. PICK r, c : Caller(t, r, c) /\ rt[r].context = c /\ c # None
  BY <1>1, OwnCaller DEF Within
<1>3. /\ rt' = rt /\ branches' = branches
      /\ SameRoots(ctx'[c], ctx[c])
      /\ \A d \in Contexts \ {c} : ctx'[d] = ctx[d]
      /\ \/ Moved(t, "bind")
         \/ ~(~ctx[c].claimed /\ Contended(c) /\ ~Isolated(c)) /\ Moved(t, "handler")
  BY <1>2, ClaimEffect
<1>4. Live' = Live /\ Live \subseteq Contexts /\ c \in Live /\ call[t].context = c
  BY <1>1, <1>2 DEF Live, Caller, RegistryInv, RegistryType
<1>5. RootsKept
  BY <1>3, <1>4 DEF RootsKept, SameRoots
<1>6. Apart'
  BY <1>1, <1>3, <1>5, ApartKept DEF Apart, OwnContexts, Moved
<1>7. \A d \in Live : Isolated(d)' <=> Isolated(d)
  BY <1>3, <1>4 DEF Isolated, SameRoots, Canonical
<1>8. \A d : d # c => (Waits(d)' <=> Waits(d))
  BY <1>3, <1>4 DEF Waits, Moved
<1>9. CASE Moved(t, "bind")
  <2>1. Waits(c)'
    BY <1>4, <1>9 DEF Waits, Moved
  <2> QED  BY <1>3, <1>4, <1>6, <1>7, <1>8, <2>1 DEF Claims
<1>10. CASE ~(~ctx[c].claimed /\ Contended(c) /\ ~Isolated(c)) /\ Moved(t, "handler")
  <2>1. ~Waits(c)
    BY <1>1, <1>4, NotWaiting
  <2>2. CASE ctx[c].claimed
    BY <1>3, <1>4, <1>6, <1>7, <1>8, <2>1, <2>2 DEF Claims, SameRoots
  <2>3. CASE Isolated(c)
    BY <1>3, <1>4, <1>6, <1>7, <1>8, <2>3 DEF Claims, SameRoots
  <2>4. CASE ~Contended(c)
    BY <1>3, <1>4, <1>6, <1>7, <1>8, <2>4 DEF Claims, SameRoots, Contended
  <2> QED  BY <1>10, <2>2, <2>3, <2>4
<1> QED  BY <1>3, <1>9, <1>10

LEMMA IsolatedBind ==
  ASSUME RegistryInv, Apart, Claims, NEW t \in Threads, Bind(t)
  PROVE  Apart' /\ Claims'
<1>1. call[t].step = "bind" /\ call[t].step \in Within /\ live' = live
  BY DEF Bind, Within, Held, Early, Steps
<1>2. PICK r, c : Caller(t, r, c) /\ rt[r].context = c /\ c # None
  BY <1>1, OwnCaller DEF Within
<1>3. PICK w : w = Worktree(ctx[c].project, c)
  OBVIOUS
<1>4. /\ rt' = rt /\ ctx'[c].project = ctx[c].project
      /\ \A d \in Contexts \ {c} : ctx'[d] = ctx[d]
      /\ \/ /\ w \notin branches /\ branches' = branches \cup {w}
            /\ ctx'[c].workspace = w /\ Moved(t, "rebind")
         \/ /\ branches' = branches /\ ctx'[c].workspace = ctx[c].workspace
            /\ ~ctx'[c].claimed /\ Moved(t, "release")
  BY <1>2, <1>3, BindEffect
<1>5. /\ Live' = Live /\ Live \subseteq Contexts /\ c \in Live /\ call[t].context = c
      /\ c # Main
  BY <1>1, <1>2, NamesAssumption DEF Live, Caller, RegistryInv, RegistryType
<1>6. \A d : d # c => (Waits(d)' <=> Waits(d))
  BY <1>4, <1>5 DEF Waits, Moved
<1>7. PICK s \in {"rebind", "release"} : Moved(t, s)
  BY <1>4
<1>8. OwnContexts'
  BY <1>1, <1>4, <1>7, OwnContextsKept
<1>9. CASE /\ w \notin branches /\ branches' = branches \cup {w}
           /\ ctx'[c].workspace = w
  <2>1. w[1] = ctx[c].project /\ Managed(w) /\ w # Canonical(ctx[c].project)
    BY <1>3, <1>5 DEF Worktree, Managed, Canonical
  <2>2. \A q \in Runtimes : rt[q].workspace # w
    BY <1>9, <2>1 DEF Apart, GoodRoots
  <2>3. \A d \in Live : ctx[d].workspace # w
    BY <1>9, <2>1 DEF Apart, GoodRoots
  <2>4. NotShared'
    BY <1>4, <1>5, <1>9, <2>2, <2>3 DEF Apart, NotShared, Managed
  <2>5. \A q \in Runtimes : GoodRoots(rt[q])'
    BY <1>4, <1>9 DEF Apart, GoodRoots, Managed
  <2>6. \A d \in Live' : GoodRoots(ctx[d])'
    BY <1>4, <1>5, <1>9, <2>1 DEF Apart, GoodRoots, Managed
  <2>7. Isolated(c)' /\ \A d \in Live \ {c} : Isolated(d)' <=> Isolated(d)
    BY <1>4, <1>5, <1>9, <2>1 DEF Isolated, Canonical
  <2>8. Claims'
    BY <1>4, <1>5, <1>6, <2>7 DEF Claims
  <2> QED  BY <1>8, <2>4, <2>5, <2>6, <2>8 DEF Apart
<1>10. CASE branches' = branches /\ ctx'[c].workspace = ctx[c].workspace
            /\ ~ctx'[c].claimed
  <2>1. RootsKept
    BY <1>4, <1>5, <1>10 DEF RootsKept, SameRoots
  <2>2. Apart'
    BY <1>8, <2>1, ApartKept DEF OwnContexts
  <2>3. \A d \in Live : Isolated(d)' <=> Isolated(d)
    BY <1>4, <1>5, <1>10 DEF Isolated, Canonical
  <2>4. Claims'
    BY <1>4, <1>5, <1>6, <1>10, <2>3 DEF Claims
  <2> QED  BY <2>2, <2>4
<1> QED  BY <1>4, <1>9, <1>10

LEMMA IsolatedSelect ==
  ASSUME RegistryInv, Apart, Claims, NEW t \in Threads, NEW p \in Projects,
         SelectProject(t, p)
  PROVE  Apart' /\ Claims'
<1>1. call[t].step = "handler" /\ live' = live
  BY DEF SelectProject
<1>2. PICK r, c : Caller(t, r, c) /\ rt[r].context = c /\ c # None
  BY <1>1, OwnCaller DEF Held, Early, Steps
<1>3. /\ ctx' = ctx /\ branches' = branches
      /\ \/ rt' = rt /\ (Moved(t, "save") \/ Moved(t, "release"))
         \/ /\ rt'[r].project = p /\ rt'[r].workspace = Canonical(p)
            /\ rt'[r].context = rt[r].context
            /\ \A s \in Runtimes \ {r} : rt'[s] = rt[s]
            /\ Moved(t, "save")
  BY <1>2, SelectEffect
<1>4. Live' = Live /\ r \in Runtimes
  BY <1>1, <1>2 DEF Live, Caller
<1>5. PICK s \in {"save", "release"} : Moved(t, s)
  BY <1>3
<1>6. OwnContexts'
  BY <1>1, <1>3, <1>5, OwnContextsKept
<1>7. Canonical(p)[1] = p /\ ~Managed(Canonical(p))
  BY DEF Canonical, Managed
<1>8. NotShared'
  BY <1>3, <1>4, <1>7 DEF Apart, NotShared, Managed
<1>9. \A q \in Runtimes : GoodRoots(rt[q])'
  BY <1>3, <1>4, <1>7 DEF Apart, GoodRoots, Managed
<1>10. \A d \in Live' : GoodRoots(ctx[d])'
  BY <1>3, <1>4 DEF Apart, GoodRoots, Managed
<1>11. \A d : Waits(d)' <=> Waits(d)
  BY <1>1, <1>5, WaitsKept DEF Moved
<1>12. Claims'
  BY <1>3, <1>4, <1>11, ClaimsKept DEF SameRoots
<1> QED  BY <1>6, <1>8, <1>9, <1>10, <1>12 DEF Apart

LEMMA IsolatedSave ==
  ASSUME RegistryInv, RoutedInv, Apart, Claims, NEW t \in Threads, Save(t)
  PROVE  Apart' /\ Claims'
<1>1. call[t].step = "save" /\ call[t].step \in Within /\ live' = live
  BY DEF Save, Within, Held, Early, Steps
<1>2. PICK r, c : Caller(t, r, c) /\ rt[r].context = c /\ c # None
  BY <1>1, OwnCaller DEF Within
<1>3. /\ rt' = rt /\ branches' = branches /\ Moved(t, "release")
      /\ \A d \in Contexts \ {c} : ctx'[d] = ctx[d]
      /\ \/ ctx'[c] = ctx[c]
         \/ /\ SameRoots(ctx'[c], rt[r])
            /\ ctx'[c].claimed = (ctx[c].claimed /\ ctx[c].project = rt[r].project)
  BY <1>2, SaveEffect
<1>4. /\ Live' = Live /\ Live \subseteq Contexts /\ c \in Live /\ r \in Runtimes
      /\ call[t].context = c /\ call[t].runtime = r
  BY <1>1, <1>2 DEF Live, Caller, RegistryInv, RegistryType
<1>5. OwnContexts'
  BY <1>1, <1>3, OwnContextsKept
<1>6. ctx'[c].claimed => SameRoots(ctx'[c], ctx[c]) /\ ctx[c].claimed
  <2>1. CASE ctx'[c] = ctx[c]
    BY <2>1 DEF SameRoots
  <2>2. CASE /\ SameRoots(ctx'[c], rt[r])
             /\ ctx'[c].claimed = (ctx[c].claimed /\ ctx[c].project = rt[r].project)
    <3>1. rt[r].project = ctx[c].project => rt[r].workspace = ctx[c].workspace
      BY <1>1, <1>4 DEF RoutedInv, InPlace
    <3> QED  BY <2>2, <3>1 DEF SameRoots
  <2> QED  BY <1>3, <2>1, <2>2
<1>7. ctx'[c].workspace = ctx[c].workspace \/ ctx'[c].workspace = rt[r].workspace
  BY <1>3 DEF SameRoots
<1>8. NotShared'
  <2>1. \A q \in Runtimes : rt[q].workspace = ctx'[c].workspace /\ Managed(ctx'[c].workspace)
          => rt[q].context = c
    BY <1>2, <1>4, <1>7 DEF Apart, NotShared
  <2>2. \A d \in Live : ctx[d].workspace = ctx'[c].workspace /\ Managed(ctx'[c].workspace)
          => d = c
    BY <1>2, <1>4, <1>7 DEF Apart, NotShared
  <2> QED  BY <1>3, <1>4, <2>1, <2>2 DEF Apart, NotShared, Managed
<1>9. \A q \in Runtimes : GoodRoots(rt[q])'
  BY <1>3 DEF Apart, GoodRoots, Managed
<1>10. \A d \in Live' : GoodRoots(ctx[d])'
  BY <1>3, <1>4 DEF Apart, GoodRoots, SameRoots, Managed
<1>11. \A d : Waits(d)' <=> Waits(d)
  BY <1>1, <1>3, WaitsKept DEF Moved
<1>12. Claims'
  <2> SUFFICES ASSUME NEW d \in Live, NEW e \in Live,
                      ctx'[d].claimed, ~Isolated(d)', ~Waits(d)',
                      ctx'[e].claimed, ~Isolated(e)', ~Waits(e)',
                      ctx'[d].project = ctx'[e].project
               PROVE  d = e
    BY <1>4 DEF Claims
  <2>1. SameRoots(ctx'[d], ctx[d]) /\ ctx[d].claimed /\ SameRoots(ctx'[e], ctx[e])
        /\ ctx[e].claimed
    BY <1>3, <1>4, <1>6 DEF SameRoots
  <2>2. ~Isolated(d) /\ ~Isolated(e) /\ ctx[d].project = ctx[e].project
    BY <2>1 DEF Isolated, SameRoots, Canonical
  <2> QED  BY <1>11, <2>1, <2>2 DEF Claims
<1> QED  BY <1>5, <1>8, <1>9, <1>10, <1>12 DEF Apart

LEMMA IsolatedCreate ==
  ASSUME RegistryInv, RoutedInv, Apart, Claims, NEW t \in Threads, NEW c \in Contexts,
         Create(t, c)
  PROVE  Apart' /\ Claims'
<1>1. PICK r : r = call[t].runtime
  OBVIOUS
<1>2. PICK victims \in SUBSET Live :
        /\ r \in Runtimes /\ c \notin created /\ call[t].step = "create"
        /\ branches' = branches
        /\ \A d \in Contexts \ (victims \cup {c}) : ctx'[d] = ctx[d]
        /\ \A u \in Threads \ {t} : call'[u] = call[u]
        /\ \/ /\ Live' = (Live \ victims) \cup {c}
              /\ SameRoots(ctx'[c], rt[r]) /\ ~ctx'[c].claimed
              /\ rt'[r].context = c /\ SameRoots(rt'[r], rt[r])
              /\ \A s \in Runtimes \ {r} : rt'[s] = rt[s]
              /\ call'[t].context = c /\ call'[t].step \in {"retain", "again"}
              /\ call'[t].runtime = r
           \/ /\ Live' = Live \ victims /\ rt' = rt /\ Moved(t, "release")
  BY <1>1, CreateEffect
<1>3. Live \subseteq Contexts /\ c \notin Live /\ c # None
  BY <1>2, NamesAssumption DEF RegistryInv, RegistryType
<1>4. \A d \in Live \ victims : ctx'[d] = ctx[d]
  BY <1>2, <1>3
<1>5. rt[r].context \notin Live /\ call[t].step # "bind" /\ call[t].step # "idle"
  BY <1>1, <1>2 DEF RegistryInv, CallInv, Apart, OwnContexts
<1>6. CASE /\ Live' = (Live \ victims) \cup {c}
           /\ SameRoots(ctx'[c], rt[r]) /\ ~ctx'[c].claimed
           /\ rt'[r].context = c /\ SameRoots(rt'[r], rt[r])
           /\ \A s \in Runtimes \ {r} : rt'[s] = rt[s]
           /\ call'[t].context = c /\ call'[t].step \in {"retain", "again"}
           /\ call'[t].runtime = r
  <2>1. \A s \in Runtimes : rt[s].context # c
    BY <1>2, <1>3 DEF RegistryInv, SessionInv
  <2>2. \A u \in Threads \ {t} : call[u].step # "idle" =>
          call[u].runtime # r /\ call[u].runtime \in Runtimes
    BY <1>1, <1>5 DEF RegistryInv, CallInv, RoutedInv, OneCall
  <2>3. OwnContexts'
    BY <1>2, <1>6, <2>1, <2>2 DEF Apart, OwnContexts
  <2>4. \A d \in Live : ~(ctx[d].workspace = rt[r].workspace /\ Managed(rt[r].workspace))
    BY <1>2, <1>5 DEF Apart, NotShared
  <2>5. \A s \in Runtimes : SameRoots(rt'[s], rt[s])
    BY <1>6 DEF SameRoots
  <2>6. \A x, y \in Runtimes :
          rt'[x].workspace = rt'[y].workspace /\ Managed(rt'[x].workspace) => x = y
    BY <2>5 DEF Apart, NotShared, SameRoots, Managed
  <2>7. \A x \in Runtimes, d \in Live' :
          rt'[x].workspace = ctx'[d].workspace /\ Managed(ctx'[d].workspace)
            => rt'[x].context = d
    <3> SUFFICES ASSUME NEW x \in Runtimes, NEW d \in Live',
                        rt'[x].workspace = ctx'[d].workspace, Managed(ctx'[d].workspace)
                 PROVE  rt'[x].context = d
      OBVIOUS
    <3>1. CASE d = c
      <4>1. x = r
        BY <1>2, <1>6, <2>5, <3>1 DEF Apart, NotShared, SameRoots, Managed
      <4> QED  BY <1>6, <3>1, <4>1
    <3>2. CASE d # c
      <4>1. d \in Live \ victims /\ ctx'[d] = ctx[d]
        BY <1>4, <1>6, <3>2
      <4>2. x # r
        BY <2>4, <2>5, <4>1 DEF SameRoots, Managed
      <4> QED  BY <1>6, <4>1, <4>2 DEF Apart, NotShared, Managed
    <3> QED  BY <3>1, <3>2
  <2>8. \A d, e \in Live' :
          ctx'[d].workspace = ctx'[e].workspace /\ Managed(ctx'[d].workspace) => d = e
    <3>1. \A d \in Live \ victims :
            ~(ctx'[d].workspace = ctx'[c].workspace /\ Managed(ctx'[c].workspace))
      BY <1>4, <1>6, <2>4 DEF SameRoots, Managed
    <3> QED  BY <1>4, <1>6, <3>1 DEF Apart, NotShared, Managed
  <2>9. NotShared'
    BY <2>6, <2>7, <2>8 DEF NotShared, Managed
  <2>10. \A s \in Runtimes : GoodRoots(rt[s])'
    BY <1>2, <2>5 DEF Apart, GoodRoots, SameRoots, Managed
  <2>11. \A d \in Live' : GoodRoots(ctx[d])'
    BY <1>2, <1>4, <1>6 DEF Apart, GoodRoots, SameRoots, Managed
  <2>12. \A d : Waits(d)' <=> Waits(d)
    BY <1>2, <1>5, <1>6, WaitsKept
  <2>13. Claims'
    BY <1>4, <1>6, <2>12 DEF Claims, Isolated, Canonical
  <2> QED  BY <2>3, <2>9, <2>10, <2>11, <2>13 DEF Apart
<1>7. CASE Live' = Live \ victims /\ rt' = rt /\ Moved(t, "release")
  <2>1. RootsKept
    BY <1>2, <1>4, <1>7 DEF RootsKept, SameRoots
  <2>2. OwnContexts'
    BY <1>5, <1>7, OwnContextsKept
  <2>3. Apart'
    BY <2>1, <2>2, ApartKept DEF OwnContexts
  <2>4. \A d : Waits(d)' <=> Waits(d)
    BY <1>2, <1>5, <1>7, WaitsKept DEF Moved
  <2>5. Claims'
    BY <1>4, <1>7, <2>4, ClaimsKept DEF SameRoots
  <2> QED  BY <2>3, <2>5
<1> QED  BY <1>2, <1>6, <1>7

LEMMA IsolatedNext ==
  ASSUME ~Explicit PROVE RegistryInv /\ RoutedInv /\ IsolationInv /\ [Next]_vars => IsolationInv'
<1> SUFFICES ASSUME RegistryInv, RoutedInv, IsolationInv, [Next]_vars, faults' = 0
             PROVE  Apart' /\ Claims'
  BY DEF IsolationInv
<1>1. faults = 0 \/ faults' # faults
  OBVIOUS
<1>2. faults' # faults + 1
  BY DEF RegistryInv, RegistryType
<1>3. ASSUME NEW t \in Threads, CallStep(t) PROVE Apart' /\ Claims'
  <2>1. ~BindFails(t)
    BY <1>2, SMTT(40) DEF BindFails
  <2>2. faults' = faults
    BY <1>3, <2>1 DEF CallStep, Retain, Create, CreateRefused, Lock, Apply, Claim, Bind,
         Observe, Mutate, StartJob, SelectProject, Save, Release
  <2>3. Apart /\ Claims
    BY <1>1, <2>2 DEF IsolationInv
  <2>4. CASE \/ Retain(t) \/ CreateRefused(t) \/ Lock(t)
             \/ Observe(t) \/ Mutate(t) \/ StartJob(t)
    BY <2>3, <2>4, IsolatedPlain
  <2>5. CASE \E c \in Contexts : Create(t, c)  BY <2>3, <2>5, IsolatedCreate
  <2>6. CASE Apply(t)  BY <2>3, <2>6, IsolatedApply
  <2>7. CASE Claim(t)  BY <2>3, <2>7, IsolatedClaim
  <2>8. CASE Bind(t)  BY <2>3, <2>8, IsolatedBind
  <2>9. CASE \E p \in Projects : SelectProject(t, p)  BY <2>3, <2>9, IsolatedSelect
  <2>10. CASE Save(t)  BY <2>3, <2>10, IsolatedSave
  <2>11. CASE Release(t)  BY <2>3, <2>11, IsolatedRelease
  <2> QED  BY <1>3, <2>1, <2>4, <2>5, <2>6, <2>7, <2>8, <2>9, <2>10, <2>11 DEF CallStep
<1>4. ASSUME NEW t \in Threads, NEW r \in Runtimes, NEW k \in Tools,
             NEW c \in Contexts \cup {None}, Begin(t, r, k, c)
      PROVE  Apart' /\ Claims'
  <2>1. Apart /\ Claims
    BY <1>1, <1>4 DEF Begin, IsolationInv
  <2> QED  BY <1>4, <2>1, IsolatedBegin
<1>5. CASE \/ \E c \in Contexts : Prune(c)
           \/ \E w \in Workspaces : CleanupWorktree(w)
           \/ \E r \in Runtimes : Reconnect(r) \/ JobExits(r) \/ JobPruned(r)
           \/ UNCHANGED vars
  <2>1. faults' = faults
    BY <1>2, <1>5, OutsideEffect
  <2>2. Apart /\ Claims
    BY <1>1, <2>1 DEF IsolationInv
  <2> QED  BY <1>5, <2>1, <2>2, IsolatedOutside
<1> QED  BY <1>3, <1>4, <1>5 DEF Next

LEMMA IsolatedInit == Init => IsolationInv
<1> SUFFICES ASSUME Init PROVE Apart /\ Claims
  BY DEF IsolationInv
<1>1. Live = {}
  BY DEF Init, Live
<1>2. NoCall.step = "idle"
  BY DEF NoCall
<1>3. /\ NewRuntime.context = None /\ NewRuntime.project = Default
      /\ NewRuntime.workspace = Canonical(Default)
  BY DEF NewRuntime
<1>4. Canonical(Default)[1] = Default /\ ~Managed(Canonical(Default))
  BY DEF Canonical, Managed
<1>5. \A r \in Runtimes : rt[r] = NewRuntime
  BY DEF Init
<1>6. OwnContexts
  BY <1>2, <1>3, <1>5 DEF Init, OwnContexts
<1>7. NotShared
  BY <1>1, <1>3, <1>4, <1>5 DEF NotShared
<1>8. \A r \in Runtimes : GoodRoots(rt[r])
  BY <1>3, <1>4, <1>5 DEF GoodRoots
<1> QED  BY <1>1, <1>6, <1>7, <1>8 DEF Apart, Claims

(* As long as sessions keep to their own contexts, one call at a time, no  *)
(* session was opened anew and no bind broke off half-way, no two          *)
(* registered contexts write to the same workspace: claiming, isolating,   *)
(* selecting a project, eviction and expiry never give a checkout to two.  *)
THEOREM ContextsAreIsolated ==
  ASSUME ~Explicit, ~Pipelined
  PROVE  Spec => [](faults = 0 => ContextsIsolated)
<1>1. RegistryInv /\ IsolationInv => (faults = 0 => ContextsIsolated)
  <2> SUFFICES ASSUME RegistryInv, Apart, Claims, NEW c \in Live, NEW d \in Live,
                      NEW w \in Workspaces, Owns(c, w), Owns(d, w)
               PROVE  c = d
    BY DEF IsolationInv, ContextsIsolated
  <2>1. /\ ctx[c].claimed /\ ctx[c].workspace = w /\ ~Waits(c)
        /\ ctx[d].claimed /\ ctx[d].workspace = w /\ ~Waits(d)
    BY DEF Owns, Waits
  <2>2. CASE Managed(w)
    BY <2>1, <2>2 DEF Apart, NotShared
  <2>3. CASE ~Managed(w)
    <3>1. w = <<w[1], Main>>
      BY <2>3 DEF Managed, Workspaces
    <3>2. ctx[c].project = w[1] /\ ctx[d].project = w[1]
      BY <2>1 DEF Apart, GoodRoots
    <3>3. ~Isolated(c) /\ ~Isolated(d)
      BY <2>1, <3>1, <3>2 DEF Isolated, Canonical
    <3> QED  BY <2>1, <3>2, <3>3 DEF Claims
  <2> QED  BY <2>2, <2>3
<1>2. RegistryInv /\ RoutedInv /\ [Next]_vars => RoutedInv'
  BY RoutedNext
<1>3. RegistryInv /\ RoutedInv /\ IsolationInv /\ [Next]_vars => IsolationInv'
  BY IsolatedNext
<1> QED  BY <1>1, <1>2, <1>3, RoutedInit, IsolatedInit, RegistryAlways, PTL DEF Spec
=============================================================================
