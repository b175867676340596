------------------------- MODULE HttpSessionsProofs -------------------------
(***************************************************************************)
(* Theorems about HttpSessions, for any number of requests and sessions    *)
(* and any limit.                                                          *)
(*                                                                         *)
(* The counters are exact (Counted), and every Runtime is in one place:    *)
(* the table (TableOpen, UsersPlaced), a creation in progress (OwnBuild),  *)
(* or the hands of whoever will close it (DoomedApart).  Together with     *)
(* what they are needed for they are inductive.                            *)
(***************************************************************************)
EXTENDS HttpSessions, FiniteSetTheorems, TLAPS

Serving == {"installed", "initialize", "drop", "serve", "release"}
Users(s) == {r \in Requests : pc[r] \in Serving /\ on[r] = s}
Creators == {r \in Requests : pc[r] \in {"build", "install", "installed", "refused"}}
Builders == {r \in Requests : pc[r] \in {"build", "install"}}

(* active_requests and _creating are the numbers they stand for. *)
Counted ==
  /\ creating = Cardinality(Creators)
  /\ \A s \in table : active[s] = Cardinality(Users(s))

Bound == Cardinality(table) + Cardinality(Builders) <= MaxSessions

TableOpen ==
  /\ shut => table = {}
  /\ ~shut => dying = {}
  /\ \A s \in table : runtime[s] = "open"

(* What a request is about to close is out of reach, and without commands  *)
(* unless it was deleted.                                                  *)
DoomedApart ==
  \A r \in Requests, s \in Sessions :
    s \in doomed[r] =>
      /\ s \notin table /\ runtime[s] # "none"
      /\ s \in busy => s \in closing \/ shut

(* A Runtime under construction belongs to its creator alone. *)
OwnBuild ==
  /\ \A r \in Requests : pc[r] \in {"idle", "reserve", "build"} => on[r] = None
  /\ \A r \in Requests : pc[r] = "install" => on[r] # None
  /\ \A r \in Requests : pc[r] \in {"install", "refused"} /\ on[r] # None =>
       /\ runtime[on[r]] # "none" /\ on[r] \notin table
       /\ \A q \in Requests : on[r] \notin doomed[q]
       /\ \A q \in Requests \ {r} :
            pc[q] \in {"install", "refused"} => on[q] # on[r]
  /\ \A r \in Requests : pc[r] = "install" /\ ~shut => runtime[on[r]] = "open"
  /\ \A r \in Requests : pc[r] = "refused" /\ ~shut => on[r] = None

UsersPlaced ==
  \A r \in Requests :
    /\ pc[r] \in Serving \cup {"get", "delete"} => on[r] # None
    /\ pc[r] \in Serving /\ ~shut => on[r] \in table

IInv ==
  /\ TypeOK /\ Counted /\ Bound /\ TableOpen /\ DoomedApart /\ OwnBuild
  /\ UsersPlaced /\ NoOrphan

-----------------------------------------------------------------------------
(* Counting *)

(* The sets that are counted are finite: there are finitely many requests  *)
(* and sessions.                                                           *)
LEMMA FiniteParts ==
  ASSUME TypeOK
  PROVE  /\ IsFiniteSet(table) /\ IsFiniteSet(Creators) /\ IsFiniteSet(Builders)
         /\ \A s : IsFiniteSet(Users(s))
<1>1. table \subseteq Sessions /\ Creators \subseteq Requests /\ Builders \subseteq Requests
  BY DEF TypeOK, Creators, Builders
<1>2. \A s : Users(s) \subseteq Requests
  BY DEF Users
<1> QED
  BY <1>1, <1>2, RequestsAssumption, SessionsAssumption, FS_Subset

(* One element more, or one less *)
LEMMA CountOne ==
  ASSUME NEW S, IsFiniteSet(S), NEW x
  PROVE  /\ Cardinality(S) \in Nat
         /\ x \in S => S \cup {x} = S /\ Cardinality(S \ {x}) = Cardinality(S) - 1
         /\ x \notin S => Cardinality(S \cup {x}) = Cardinality(S) + 1 /\ S \ {x} = S
<1>1. Cardinality(S) \in Nat
  BY FS_CardinalityType
<1>2. x \in S => Cardinality(S \ {x}) = Cardinality(S) - 1
  BY FS_RemoveElement
<1>3. x \notin S => Cardinality(S \cup {x}) = Cardinality(S) + 1
  BY FS_AddElement
<1> QED
  BY <1>1, <1>2, <1>3

(* What becomes of the number of requests in certain steps when request r  *)
(* moves to another step                                                   *)
LEMMA CreatorsEffect ==
  ASSUME TypeOK, NEW r \in Requests, NEW step \in Steps, Goto(r, step)
  PROVE  LET enters == step \in {"build", "install", "installed", "refused"} IN
         /\ Cardinality(Creators) \in Nat
         /\ r \notin Creators /\ enters => Cardinality(Creators') = Cardinality(Creators) + 1
         /\ r \in Creators /\ ~enters => Cardinality(Creators') = Cardinality(Creators) - 1
         /\ (r \in Creators <=> enters) => Creators' = Creators
<1>1. Creators' = IF step \in {"build", "install", "installed", "refused"}
                    THEN Creators \cup {r} ELSE Creators \ {r}
  BY DEF TypeOK, Goto, Creators
<1> QED
  BY <1>1, FiniteParts, CountOne

LEMMA BuildersEffect ==
  ASSUME TypeOK, NEW r \in Requests, NEW step \in Steps, Goto(r, step)
  PROVE  LET enters == step \in {"build", "install"} IN
         /\ Cardinality(Builders) \in Nat
         /\ r \notin Builders /\ enters => Cardinality(Builders') = Cardinality(Builders) + 1
         /\ r \in Builders /\ ~enters => Cardinality(Builders') = Cardinality(Builders) - 1
         /\ (r \in Builders <=> enters) => Builders' = Builders
<1>1. Builders' = IF step \in {"build", "install"} THEN Builders \cup {r} ELSE Builders \ {r}
  BY DEF TypeOK, Goto, Builders
<1> QED
  BY <1>1, FiniteParts, CountOne

(* What becomes of the number of requests that a session is serving *)
LEMMA UsersEffect ==
  ASSUME TypeOK, NEW r \in Requests, NEW step \in Steps, Goto(r, step), on' = on, NEW s
  PROVE  LET enters == step \in Serving /\ on[r] = s IN
         /\ Cardinality(Users(s)) \in Nat
         /\ r \notin Users(s) /\ enters => Cardinality(Users(s)') = Cardinality(Users(s)) + 1
         /\ r \in Users(s) /\ ~enters => Cardinality(Users(s)') = Cardinality(Users(s)) - 1
         /\ (r \in Users(s) <=> enters) => Users(s)' = Users(s)
<1>1. Users(s)' = IF step \in Serving /\ on[r] = s THEN Users(s) \cup {r} ELSE Users(s) \ {r}
  BY DEF TypeOK, Goto, Users
<1> QED
  BY <1>1, FiniteParts, CountOne

LEMMA UsersKept ==
  ASSUME TypeOK, NEW r \in Requests, NEW step \in Steps, Goto(r, step),
         pc[r] \in Serving <=> step \in Serving,
         \A q \in Requests : q # r \/ step \in Serving => on'[q] = on[q]
  PROVE  \A s : Users(s)' = Users(s)
<1>1. ASSUME NEW s, NEW q \in Requests
      PROVE  q \in Users(s)' <=> q \in Users(s)
  BY DEF TypeOK, Goto, Users
<1> QED
  BY <1>1 DEF Users

(* A move that leaves all the counted sets alone *)
LEMMA QuietMove ==
  ASSUME IInv, NEW r \in Requests, NEW step \in Steps, Goto(r, step),
         r \in Creators <=> step \in {"build", "install", "installed", "refused"},
         step \in {"build", "install"} => r \in Builders,
         \A s \in table' : Users(s)' = Users(s),
         UNCHANGED creating, table' \subseteq table,
         \A s \in table' : active'[s] = active[s]
  PROVE  Counted' /\ Bound'
<1>1. Creators' = Creators
  BY CreatorsEffect DEF IInv
<1>2. /\ Cardinality(Builders') <= Cardinality(Builders)
      /\ Cardinality(Builders) \in Nat /\ Cardinality(Builders') \in Nat
  <2>1. Builders' \subseteq Builders
    BY DEF IInv, TypeOK, Goto, Builders
  <2> QED BY <2>1, FiniteParts, FS_Subset, FS_CardinalityType DEF IInv
<1>3. /\ Cardinality(table') <= Cardinality(table)
      /\ Cardinality(table) \in Nat /\ Cardinality(table') \in Nat
  BY FiniteParts, FS_Subset, FS_CardinalityType DEF IInv
<1> QED
  BY <1>1, <1>2, <1>3, MaxSessionsAssumption DEF IInv, Counted, Bound

(* A request that a session serves is counted there. *)
LEMMA UserCounted ==
  ASSUME IInv, NEW r \in Requests, pc[r] \in Serving, on[r] \in table
  PROVE  active[on[r]] >= 1
<1>1. IsFiniteSet(Users(on[r])) /\ r \in Users(on[r])
  BY FiniteParts DEF IInv, Users
<1>2. Cardinality(Users(on[r])) \in Nat /\ Cardinality(Users(on[r])) # 0
  BY <1>1, FS_CardinalityType, FS_EmptySet
<1> QED
  BY <1>2 DEF IInv, Counted

(* A session without requests in progress serves none. *)
LEMMA IdleUnused ==
  ASSUME IInv, NEW s \in table, active[s] = 0
  PROVE  Users(s) = {}
<1>1. IsFiniteSet(Users(s)) /\ Cardinality(Users(s)) = 0
  BY FiniteParts DEF IInv, Counted
<1> QED
  BY <1>1, FS_EmptySet

-----------------------------------------------------------------------------
(* The steps of a request *)

LEMMA ReserveInv == ASSUME IInv, NEW r \in Requests, Reserve(r) PROVE IInv'
<1>0. Goto(r, "build") /\ on' = on
  BY DEF Reserve
<1>1. TypeOK'
  BY DEF IInv, TypeOK, Reserve, records, Goto, Steps
<1>2. Counted'
  <2>1. Cardinality(Creators') = Cardinality(Creators) + 1
    BY <1>0, CreatorsEffect DEF IInv, TypeOK, Reserve, At, Creators, Steps
  <2>2. \A s : Users(s)' = Users(s)
    BY <1>0, UsersKept DEF IInv, Reserve, At, Steps, Serving
  <2> QED BY <2>1, <2>2 DEF IInv, Counted, Reserve, records
<1>3. Bound'
  <2>1. Cardinality(Builders') = Cardinality(Builders) + 1
    BY <1>0, BuildersEffect DEF IInv, TypeOK, Reserve, At, Builders, Steps
  <2>2. Cardinality(Builders) <= creating /\ Cardinality(Builders) \in Nat
    <3>1. Builders \subseteq Creators
      BY DEF Builders, Creators
    <3> QED BY <3>1, FiniteParts, FS_Subset, FS_CardinalityType DEF IInv, Counted
  <2>3. Cardinality(table) \in Nat
    BY FiniteParts, FS_CardinalityType DEF IInv
  <2> QED BY <2>1, <2>2, <2>3, MaxSessionsAssumption DEF IInv, Bound, Reserve, Full, TypeOK, records
<1>4. TableOpen' /\ DoomedApart' /\ NoOrphan'
  BY DEF IInv, TypeOK, TableOpen, DoomedApart, NoOrphan, Reserve, records, At, Goto
<1>5. OwnBuild' /\ UsersPlaced'
  BY DEF IInv, TypeOK, OwnBuild, UsersPlaced, Reserve, records, At, Goto, Serving
<1> QED BY <1>1, <1>2, <1>3, <1>4, <1>5 DEF IInv

LEMMA RefuseInv == ASSUME IInv, NEW r \in Requests, Refuse(r) PROVE IInv'
<1>0. Goto(r, "done") /\ on' = on
  BY DEF Refuse
<1>1. TypeOK'
  BY DEF IInv, TypeOK, Refuse, At, UsersPlaced, Serving, records, Goto, Steps
<1>2. Counted' /\ Bound'
  <2>1. \A s : Users(s)' = Users(s)
    BY <1>0, UsersKept DEF IInv, Refuse, At, Steps, Serving
  <2> QED
    BY <1>0, <2>1, QuietMove DEF Refuse, At, Creators, Builders, Steps, records
<1>3. TableOpen' /\ DoomedApart' /\ NoOrphan'
  BY DEF IInv, TypeOK, TableOpen, DoomedApart, NoOrphan, Refuse, records, At, Goto
<1>4. OwnBuild' /\ UsersPlaced'
  BY DEF IInv, TypeOK, OwnBuild, UsersPlaced, TableOpen, Refuse, records, At, Goto, Serving
<1> QED BY <1>1, <1>2, <1>3, <1>4 DEF IInv

LEMMA BuildFailsInv == ASSUME IInv, NEW r \in Requests, BuildFails(r) PROVE IInv'
<1>0. Goto(r, "refused") /\ on' = on
  BY DEF BuildFails
<1>1. TypeOK'
  BY DEF IInv, TypeOK, BuildFails, At, UsersPlaced, Serving, records, Goto, Steps
<1>2. Counted' /\ Bound'
  <2>1. \A s : Users(s)' = Users(s)
    BY <1>0, UsersKept DEF IInv, BuildFails, At, Steps, Serving
  <2> QED
    BY <1>0, <2>1, QuietMove DEF BuildFails, At, Creators, Builders, Steps, records
<1>3. TableOpen' /\ DoomedApart' /\ NoOrphan'
  BY DEF IInv, TypeOK, TableOpen, DoomedApart, NoOrphan, BuildFails, records, At, Goto
<1>4. OwnBuild' /\ UsersPlaced'
  BY DEF IInv, TypeOK, OwnBuild, UsersPlaced, TableOpen, BuildFails, records, At, Goto, Serving
<1> QED BY <1>1, <1>2, <1>3, <1>4 DEF IInv

LEMMA InstallRefusedInv == ASSUME IInv, NEW r \in Requests, InstallRefused(r) PROVE IInv'
<1>0. Goto(r, "refused") /\ on' = on
  BY DEF InstallRefused
<1>1. TypeOK'
  BY DEF IInv, TypeOK, InstallRefused, At, UsersPlaced, Serving, records, Goto, Steps
<1>2. Counted' /\ Bound'
  <2>1. \A s : Users(s)' = Users(s)
    BY <1>0, UsersKept DEF IInv, InstallRefused, At, Steps, Serving
  <2> QED
    BY <1>0, <2>1, QuietMove DEF InstallRefused, At, Creators, Builders, Steps, records
<1>3. TableOpen' /\ DoomedApart' /\ NoOrphan'
  BY DEF IInv, TypeOK, TableOpen, DoomedApart, NoOrphan, InstallRefused, records, At, Goto
<1>4. OwnBuild' /\ UsersPlaced'
  BY DEF IInv, TypeOK, OwnBuild, UsersPlaced, TableOpen, InstallRefused, records, At, Goto, Serving
<1> QED BY <1>1, <1>2, <1>3, <1>4 DEF IInv

LEMMA GetUnknownInv == ASSUME IInv, NEW r \in Requests, GetUnknown(r) PROVE IInv'
<1>0. Goto(r, "done") /\ on' = on
  BY DEF GetUnknown
<1>1. TypeOK'
  BY DEF IInv, TypeOK, GetUnknown, At, UsersPlaced, Serving, records, Goto, Steps
<1>2. Counted' /\ Bound'
  <2>1. \A s : Users(s)' = Users(s)
    BY <1>0, UsersKept DEF IInv, GetUnknown, At, Steps, Serving
  <2> QED
    BY <1>0, <2>1, QuietMove DEF GetUnknown, At, Creators, Builders, Steps, records
<1>3. TableOpen' /\ DoomedApart' /\ NoOrphan'
  BY DEF IInv, TypeOK, TableOpen, DoomedApart, NoOrphan, GetUnknown, records, At, Goto
<1>4. OwnBuild' /\ UsersPlaced'
  BY DEF IInv, TypeOK, OwnBuild, UsersPlaced, TableOpen, GetUnknown, records, At, Goto, Serving
<1> QED BY <1>1, <1>2, <1>3, <1>4 DEF IInv

LEMMA ServeFailsInv == ASSUME IInv, NEW r \in Requests, ServeFails(r) PROVE IInv'
<1>0. Goto(r, "drop") /\ on' = on
  BY DEF ServeFails
<1>1. TypeOK'
  BY DEF IInv, TypeOK, ServeFails, At, UsersPlaced, Serving, records, Goto, Steps
<1>2. Counted' /\ Bound'
  <2>1. \A s : Users(s)' = Users(s)
    BY <1>0, UsersKept DEF IInv, ServeFails, At, Steps, Serving
  <2> QED
    BY <1>0, <2>1, QuietMove DEF ServeFails, At, Creators, Builders, Steps, records
<1>3. TableOpen' /\ DoomedApart' /\ NoOrphan'
  BY DEF IInv, TypeOK, TableOpen, DoomedApart, NoOrphan, ServeFails, records, At, Goto
<1>4. OwnBuild' /\ UsersPlaced'
  BY DEF IInv, TypeOK, OwnBuild, UsersPlaced, TableOpen, ServeFails, records, At, Goto, Serving
<1> QED BY <1>1, <1>2, <1>3, <1>4 DEF IInv

LEMMA ReleaseGoneInv == ASSUME IInv, NEW r \in Requests, ReleaseGone(r) PROVE IInv'
<1>0. Goto(r, "done") /\ on' = on
  BY DEF ReleaseGone
<1>1. TypeOK'
  BY DEF IInv, TypeOK, ReleaseGone, At, UsersPlaced, Serving, records, Goto, Steps
<1>2. Counted' /\ Bound'
  <2>1. \A s \in table : Users(s)' = Users(s)
    BY <1>0 DEF IInv, TypeOK, ReleaseGone, At, Goto, Users, records
  <2> QED
    BY <1>0, <2>1, QuietMove DEF ReleaseGone, At, Creators, Builders, Steps, records
<1>3. TableOpen' /\ DoomedApart' /\ NoOrphan'
  BY DEF IInv, TypeOK, TableOpen, DoomedApart, NoOrphan, ReleaseGone, records, At, Goto
<1>4. OwnBuild' /\ UsersPlaced'
  BY DEF IInv, TypeOK, OwnBuild, UsersPlaced, TableOpen, ReleaseGone, records, At, Goto, Serving
<1> QED BY <1>1, <1>2, <1>3, <1>4 DEF IInv

LEMMA ServeInv == ASSUME IInv, NEW r \in Requests, Serve(r) PROVE IInv'
<1>0. Goto(r, "release") /\ on' = on
  BY DEF Serve
<1>1. TypeOK'
  BY DEF IInv, TypeOK, Serve, At, UsersPlaced, Serving, records, Goto, Steps
<1>2. Counted' /\ Bound'
  <2>1. \A s : Users(s)' = Users(s)
    BY <1>0, UsersKept DEF IInv, Serve, At, Steps, Serving
  <2> QED
    BY <1>0, <2>1, QuietMove DEF Serve, At, Creators, Builders, Steps, records
<1>3. TableOpen' /\ DoomedApart' /\ NoOrphan'
  BY DEF IInv, TypeOK, TableOpen, DoomedApart, NoOrphan, Serve, records, At, Goto,
         UsersPlaced, Serving
<1>4. OwnBuild' /\ UsersPlaced'
  BY DEF IInv, TypeOK, OwnBuild, UsersPlaced, TableOpen, Serve, records, At, Goto, Serving
<1> QED BY <1>1, <1>2, <1>3, <1>4 DEF IInv

(* Steps that create or forget *)

(* What leaves the table with no request in progress serves nobody. *)
LEMMA ExpiredUnused ==
  ASSUME IInv, NEW s \in table, Idle(s) PROVE \A q \in Requests : q \notin Users(s)
<1> QED BY IdleUnused DEF Idle

LEMMA BeginInitializeInv == ASSUME IInv, NEW r \in Requests, BeginInitialize(r) PROVE IInv'
<1>0. Goto(r, "reserve") /\ on' = on
  BY DEF BeginInitialize
<1>1. TypeOK'
  BY DEF IInv, TypeOK, BeginInitialize, Prune, Dooms, Expired, Goto, Steps
<1>2. Counted' /\ Bound'
  <2>1. \A s : Users(s)' = Users(s)
    BY <1>0, UsersKept DEF IInv, BeginInitialize, At, Steps, Serving
  <2> QED
    BY <1>0, <2>1, QuietMove DEF BeginInitialize, Prune, At, Creators, Builders, Steps
<1>3. TableOpen' /\ DoomedApart' /\ NoOrphan'
  BY DEF IInv, TypeOK, TableOpen, DoomedApart, NoOrphan, BeginInitialize, Prune, Dooms,
         Expired, Idle, At, Goto
<1>4. OwnBuild'
  BY DEF IInv, TypeOK, OwnBuild, BeginInitialize, Prune, Dooms, Expired, At, Goto
<1>5. UsersPlaced'
  BY ExpiredUnused DEF IInv, TypeOK, UsersPlaced, BeginInitialize, Prune, Expired, Users,
         At, Goto, Serving
<1> QED BY <1>1, <1>2, <1>3, <1>4, <1>5 DEF IInv

LEMMA BeginPostInv ==
  ASSUME IInv, NEW r \in Requests, NEW t \in Sessions, BeginPost(r, t) PROVE IInv'
<1>0. Goto(r, "get")
  BY DEF BeginPost
<1>1. TypeOK'
  BY DEF IInv, TypeOK, BeginPost, Prune, Dooms, Expired, Goto, Steps
<1>2. Counted' /\ Bound'
  <2>1. \A s : Users(s)' = Users(s)
    BY <1>0, UsersKept DEF IInv, TypeOK, BeginPost, At, Steps, Serving
  <2> QED
    BY <1>0, <2>1, QuietMove DEF BeginPost, Prune, At, Creators, Builders, Steps
<1>3. TableOpen' /\ DoomedApart' /\ NoOrphan'
  BY DEF IInv, TypeOK, TableOpen, DoomedApart, NoOrphan, BeginPost, Prune, Dooms,
         Expired, Idle, At, Goto
<1>4. OwnBuild'
  BY DEF IInv, TypeOK, OwnBuild, BeginPost, Prune, Dooms, Expired, At, Goto
<1>5. UsersPlaced'
  BY ExpiredUnused, SessionsAssumption
     DEF IInv, TypeOK, UsersPlaced, BeginPost, Prune, Expired, Users, At, Goto, Serving
<1> QED BY <1>1, <1>2, <1>3, <1>4, <1>5 DEF IInv

LEMMA BeginDeleteInv ==
  ASSUME IInv, NEW r \in Requests, NEW t \in Sessions, BeginDelete(r, t) PROVE IInv'
<1>0. Goto(r, "delete")
  BY DEF BeginDelete
<1>1. TypeOK'
  BY DEF IInv, TypeOK, BeginDelete, records, Goto, Steps
<1>2. Counted' /\ Bound'
  <2>1. \A s : Users(s)' = Users(s)
    BY <1>0, UsersKept DEF IInv, TypeOK, BeginDelete, At, Steps, Serving
  <2> QED
    BY <1>0, <2>1, QuietMove DEF BeginDelete, records, At, Creators, Builders, Steps
<1>3. TableOpen' /\ DoomedApart' /\ NoOrphan'
  BY DEF IInv, TypeOK, TableOpen, DoomedApart, NoOrphan, BeginDelete, records, At, Goto
<1>4. OwnBuild'
  BY DEF IInv, TypeOK, OwnBuild, BeginDelete, records, At, Goto
<1>5. UsersPlaced'
  BY SessionsAssumption
     DEF IInv, TypeOK, UsersPlaced, BeginDelete, records, At, Goto, Serving
<1> QED BY <1>1, <1>2, <1>3, <1>4, <1>5 DEF IInv

LEMMA EvictInv ==
  ASSUME IInv, NEW r \in Requests, NEW t \in Sessions, Evict(r, t) PROVE IInv'
<1>0. Goto(r, "build") /\ on' = on
  BY DEF Evict
<1>1. TypeOK'
  BY DEF IInv, TypeOK, Evict, Dooms, Goto, Steps
<1>2. Counted'
  <2>1. Cardinality(Creators') = Cardinality(Creators) + 1
    BY <1>0, CreatorsEffect DEF IInv, TypeOK, Evict, At, Creators, Steps
  <2>2. \A s : Users(s)' = Users(s)
    BY <1>0, UsersKept DEF IInv, Evict, At, Steps, Serving
  <2> QED BY <2>1, <2>2 DEF IInv, Counted, Evict
<1>3. Bound'
  <2>1. Cardinality(Builders') = Cardinality(Builders) + 1 /\ Cardinality(Builders) \in Nat
    BY <1>0, BuildersEffect DEF IInv, TypeOK, Evict, At, Builders, Steps
  <2>2. Cardinality(table \ {t}) = Cardinality(table) - 1 /\ Cardinality(table) \in Nat
    BY FiniteParts, CountOne DEF IInv, Evict
  <2> QED BY <2>1, <2>2, MaxSessionsAssumption DEF IInv, Bound, Evict
<1>4. TableOpen' /\ DoomedApart' /\ NoOrphan'
  BY DEF IInv, TypeOK, TableOpen, DoomedApart, NoOrphan, Evict, Dooms, Idle, At, Goto
<1>5. OwnBuild'
  BY DEF IInv, TypeOK, OwnBuild, Evict, Dooms, At, Goto
<1>6. UsersPlaced'
  BY ExpiredUnused DEF IInv, TypeOK, UsersPlaced, Evict, Users, At, Goto, Serving
<1> QED BY <1>1, <1>2, <1>3, <1>4, <1>5, <1>6 DEF IInv

LEMMA BuildInv ==
  ASSUME IInv, NEW r \in Requests, NEW t \in Sessions, Build(r, t) PROVE IInv'
<1>0. Goto(r, "install")
  BY DEF Build
<1>1. TypeOK'
  BY DEF IInv, TypeOK, Build, records, Goto, Steps
<1>2. Counted' /\ Bound'
  <2>1. \A s : Users(s)' = Users(s)
    BY <1>0, UsersKept DEF IInv, TypeOK, Build, At, Steps, Serving
  <2> QED
    BY <1>0, <2>1, QuietMove DEF Build, records, At, Creators, Builders, Steps
<1>3. TableOpen' /\ DoomedApart' /\ NoOrphan'
  BY DEF IInv, TypeOK, TableOpen, DoomedApart, NoOrphan, Build, records, At, Goto
<1>4. OwnBuild'
  BY SessionsAssumption
     DEF IInv, TypeOK, OwnBuild, TableOpen, DoomedApart, Build, records, At, Goto
<1>5. UsersPlaced'
  BY DEF IInv, TypeOK, UsersPlaced, Build, records, At, Goto, Serving
<1> QED BY <1>1, <1>2, <1>3, <1>4, <1>5 DEF IInv

LEMMA InstallInv == ASSUME IInv, NEW r \in Requests, Install(r) PROVE IInv'
<1>0. Goto(r, "installed") /\ on' = on
  BY DEF Install
<1>1. on[r] \in Sessions /\ on[r] \notin table
  BY DEF IInv, TypeOK, OwnBuild, Install, At
<1>2. TypeOK'
  BY <1>1 DEF IInv, TypeOK, Install, Goto, Steps
<1>3. Counted'
  <2>1. Creators' = Creators
    BY <1>0, CreatorsEffect DEF IInv, TypeOK, Install, At, Creators, Steps
  <2>2. ASSUME NEW s \in table PROVE Users(s)' = Users(s)
    BY <1>0, <1>1, <2>2 DEF IInv, TypeOK, Install, At, Goto, Users, Serving
  <2>3. ASSUME NEW s, s = on[r] PROVE Cardinality(Users(s)') = 1
    <3>1. Users(s) = {}
      BY <1>1, <2>3 DEF IInv, UsersPlaced, Install, Users
    <3>2. Cardinality(Users(s)) = 0
      BY <3>1, FS_EmptySet
    <3> QED BY <1>0, <2>3, <3>1, <3>2, UsersEffect DEF IInv, Steps, Serving
  <2> QED BY <1>1, <2>1, <2>2, <2>3 DEF IInv, TypeOK, Counted, Install
<1>4. Bound'
  <2>1. Cardinality(Builders') = Cardinality(Builders) - 1 /\ Cardinality(Builders) \in Nat
    BY <1>0, BuildersEffect DEF IInv, TypeOK, Install, At, Builders, Steps
  <2>2. Cardinality(table') = Cardinality(table) + 1 /\ Cardinality(table) \in Nat
    BY <1>1, FiniteParts, CountOne DEF IInv, Install
  <2> QED BY <2>1, <2>2, MaxSessionsAssumption DEF IInv, Bound
<1>5. TableOpen' /\ NoOrphan'
  BY <1>1 DEF IInv, TypeOK, TableOpen, OwnBuild, NoOrphan, Install, At, Goto
<1>6. DoomedApart'
  BY <1>1 DEF IInv, TypeOK, DoomedApart, OwnBuild, Install, At
<1>7. OwnBuild' /\ UsersPlaced'
  BY <1>1 DEF IInv, TypeOK, OwnBuild, UsersPlaced, Install, At, Goto, Serving
<1> QED BY <1>2, <1>3, <1>4, <1>5, <1>6, <1>7 DEF IInv
LEMMA UnreserveInv == ASSUME IInv, NEW r \in Requests, Unreserve(r) PROVE IInv'
<1>0. Goto(r, "initialize") /\ on' = on
  BY DEF Unreserve
<1>1. Cardinality(Creators') = Cardinality(Creators) - 1 /\ Cardinality(Creators) \in Nat
      /\ Cardinality(Creators') \in Nat
  <2>1. Cardinality(Creators') = Cardinality(Creators) - 1 /\ Cardinality(Creators) \in Nat
    BY <1>0, CreatorsEffect DEF IInv, TypeOK, Unreserve, At, Creators, Steps
  <2>2. Creators' \subseteq Creators
    BY <1>0 DEF IInv, TypeOK, Goto, Creators
  <2> QED BY <2>1, <2>2, FiniteParts, FS_Subset, FS_CardinalityType DEF IInv
<1>2. TypeOK'
  BY <1>1 DEF IInv, TypeOK, Counted, Unreserve, records, Goto, Steps
<1>3. Counted' /\ Bound'
  <2>1. \A s : Users(s)' = Users(s)
    BY <1>0, UsersKept DEF IInv, Unreserve, At, Steps, Serving
  <2>2. Builders' = Builders
    BY <1>0, BuildersEffect DEF IInv, Unreserve, At, Builders, Steps
  <2> QED BY <1>1, <2>1, <2>2 DEF IInv, Counted, Bound, Unreserve, records
<1>4. TableOpen' /\ DoomedApart' /\ NoOrphan'
  BY DEF IInv, TypeOK, TableOpen, DoomedApart, NoOrphan, Unreserve, records, At, Goto
<1>5. OwnBuild' /\ UsersPlaced'
  BY DEF IInv, TypeOK, OwnBuild, UsersPlaced, Unreserve, records, At, Goto, Serving
<1> QED BY <1>2, <1>3, <1>4, <1>5 DEF IInv

LEMMA DiscardInv == ASSUME IInv, NEW r \in Requests, Discard(r) PROVE IInv'
<1>0. Goto(r, "done") /\ on' = on
  BY DEF Discard
<1>1. Cardinality(Creators') = Cardinality(Creators) - 1 /\ Cardinality(Creators) \in Nat
      /\ Cardinality(Creators') \in Nat
  <2>1. Cardinality(Creators') = Cardinality(Creators) - 1 /\ Cardinality(Creators) \in Nat
    BY <1>0, CreatorsEffect DEF IInv, TypeOK, Discard, At, Creators, Steps
  <2>2. Creators' \subseteq Creators
    BY <1>0 DEF IInv, TypeOK, Goto, Creators
  <2> QED BY <2>1, <2>2, FiniteParts, FS_Subset, FS_CardinalityType DEF IInv
<1>2. TypeOK'
  BY <1>1 DEF IInv, TypeOK, Counted, Discard, Dooms, records, Goto, Steps
<1>3. Counted' /\ Bound'
  <2>1. \A s : Users(s)' = Users(s)
    BY <1>0, UsersKept DEF IInv, Discard, At, Steps, Serving
  <2>2. Builders' = Builders
    BY <1>0, BuildersEffect DEF IInv, Discard, At, Builders, Steps
  <2> QED BY <1>1, <2>1, <2>2 DEF IInv, Counted, Bound, Discard, records
<1>4. TableOpen' /\ NoOrphan'
  BY SessionsAssumption
     DEF IInv, TypeOK, TableOpen, NoOrphan, Discard, Dooms, records, At, Goto
<1>5. DoomedApart' /\ OwnBuild' /\ UsersPlaced'
  BY DEF IInv, TypeOK, DoomedApart, OwnBuild, UsersPlaced, Discard, Dooms, records, At,
         Goto, Serving
<1> QED BY <1>2, <1>3, <1>4, <1>5 DEF IInv

LEMMA GetInv == ASSUME IInv, NEW r \in Requests, Get(r) PROVE IInv'
<1>0. Goto(r, "serve") /\ on' = on
  BY DEF Get
<1>1. TypeOK'
  BY DEF IInv, TypeOK, Get, Goto, Steps
<1>2. Counted'
  <2>1. Creators' = Creators
    BY <1>0, CreatorsEffect DEF IInv, Get, At, Creators, Steps
  <2>2. ASSUME NEW s \in table, s # on[r] PROVE Users(s)' = Users(s)
    BY <1>0, <2>2 DEF IInv, TypeOK, Get, At, Goto, Users, Serving
  <2>3. ASSUME NEW s \in table, s = on[r]
        PROVE Cardinality(Users(s)') = Cardinality(Users(s)) + 1
    <3>1. r \notin Users(s)
      BY <2>3 DEF Get, At, Users, Serving
    <3> QED BY <1>0, <2>3, <3>1, UsersEffect DEF IInv, Steps, Serving
  <2> QED BY <2>1, <2>2, <2>3 DEF IInv, TypeOK, Counted, Get
<1>3. Bound'
  BY <1>0, BuildersEffect DEF IInv, Bound, Get, At, Builders, Steps
<1>4. TableOpen' /\ DoomedApart' /\ NoOrphan'
  BY DEF IInv, TypeOK, TableOpen, DoomedApart, NoOrphan, Get, At, Goto
<1>5. OwnBuild' /\ UsersPlaced'
  BY DEF IInv, TypeOK, OwnBuild, UsersPlaced, Get, At, Goto, Serving
<1> QED BY <1>1, <1>2, <1>3, <1>4, <1>5 DEF IInv

LEMMA ReleaseInv == ASSUME IInv, NEW r \in Requests, Release(r) PROVE IInv'
<1>0. Goto(r, "done") /\ on' = on
  BY DEF Release
<1>1. TypeOK'
  BY DEF IInv, TypeOK, Release, Dooms, Goto, Steps
<1>2. Counted'
  <2>1. Creators' = Creators
    BY <1>0, CreatorsEffect DEF IInv, Release, At, Creators, Steps
  <2>2. ASSUME NEW s \in table, s # on[r] PROVE Users(s)' = Users(s)
    BY <1>0, <2>2 DEF IInv, TypeOK, Release, At, Goto, Users, Serving
  <2>3. ASSUME NEW s \in table, s = on[r]
        PROVE Cardinality(Users(s)') = Cardinality(Users(s)) - 1
    <3>1. r \in Users(s)
      BY <2>3 DEF Release, At, Users, Serving
    <3> QED BY <1>0, <2>3, <3>1, UsersEffect DEF IInv, Steps, Serving
  <2>4. active[on[r]] >= 1
    BY UserCounted DEF Release, At, Serving
  <2> QED BY <2>1, <2>2, <2>3, <2>4 DEF IInv, TypeOK, Counted, Release
<1>3. Bound'
  <2>1. Builders' = Builders /\ Cardinality(Builders) \in Nat
    BY <1>0, BuildersEffect DEF IInv, Release, At, Builders, Steps
  <2>2. Cardinality(table') <= Cardinality(table)
        /\ Cardinality(table) \in Nat /\ Cardinality(table') \in Nat
    BY FiniteParts, FS_Subset, FS_CardinalityType DEF IInv, Release
  <2> QED BY <2>1, <2>2, MaxSessionsAssumption DEF IInv, Bound
<1>4. TableOpen' /\ NoOrphan'
  BY DEF IInv, TypeOK, TableOpen, NoOrphan, Release, Dooms, At, Goto
<1>5. DoomedApart' /\ OwnBuild'
  BY DEF IInv, TypeOK, TableOpen, DoomedApart, OwnBuild, Release, Dooms, At, Goto
<1>6. UsersPlaced'
  <2>1. ASSUME NEW q \in Requests \ {r}, pc[q] \in Serving, on[q] = on[r]
        PROVE  active[on[r]] >= 2
    <3>1. IsFiniteSet(Users(on[r])) /\ {q, r} \subseteq Users(on[r])
      BY <2>1, FiniteParts DEF IInv, Users, Release, At, Serving
    <3>2. Cardinality({q, r}) = 2
      <4>1. IsFiniteSet({q}) /\ Cardinality({q}) = 1 /\ r \notin {q}
        BY FS_Singleton
      <4>2. Cardinality({q} \cup {r}) = 2
        BY <4>1, CountOne
      <4>3. {q} \cup {r} = {q, r}
        OBVIOUS
      <4> QED BY <4>2, <4>3
    <3> QED BY <3>1, <3>2, FS_Subset, FS_CardinalityType DEF IInv, Counted, Release
  <2> QED
    BY <2>1 DEF IInv, TypeOK, UsersPlaced, Release, At, Goto, Serving
<1> QED BY <1>1, <1>2, <1>3, <1>4, <1>5, <1>6 DEF IInv

(* Deletion, closing, shutdown *)

(* delete, for the DELETE request and after a failed initialize: a session *)
(* that leaves the table has no request in progress.                       *)
LEMMA DeleteInv ==
  ASSUME IInv, NEW r \in Requests, NEW step, NEW then,
         <<step, then>> \in {<<"delete", "done">>, <<"drop", "release">>},
         Delete(r, step, then)
  PROVE  IInv'
<1>0. /\ Goto(r, then) /\ on' = on /\ then \in {"done", "release"}
      /\ pc[r] \in {"delete", "drop"} /\ (pc[r] = "drop" <=> then = "release")
  BY DEF Delete, At
<1>1. TypeOK'
  BY <1>0 DEF IInv, TypeOK, Delete, Dooms, Goto, Steps
<1>2. Counted' /\ Bound'
  <2>1. \A s : Users(s)' = Users(s)
    BY <1>0, UsersKept DEF IInv, Steps, Serving
  <2>2. table' \subseteq table
    BY DEF Delete
  <2> QED
    BY <1>0, <2>1, <2>2, QuietMove DEF Delete, Creators, Builders, Steps
<1>3. TableOpen' /\ NoOrphan'
  BY <1>0 DEF IInv, TypeOK, TableOpen, NoOrphan, Delete, Dooms, At, Goto
<1>4. DoomedApart' /\ OwnBuild'
  BY <1>0 DEF IInv, TypeOK, TableOpen, DoomedApart, OwnBuild, Delete, Dooms, At, Goto
<1>5. UsersPlaced'
  <2>1. ASSUME on[r] \in table, active[on[r]] = 0
        PROVE  \A q \in Requests : ~(pc[q] \in Serving /\ on[q] = on[r])
    BY <2>1, IdleUnused DEF Users
  <2> QED
    BY <1>0, <2>1 DEF IInv, TypeOK, UsersPlaced, Delete, Goto, Serving
<1> QED BY <1>1, <1>2, <1>3, <1>4, <1>5 DEF IInv

(* The counts depend only on the steps of the requests and on the table. *)
LEMMA CountsKept ==
  ASSUME IInv, pc' = pc, on' = on, creating' = creating, active' = active,
         table' \in {table, {}}
  PROVE  Counted' /\ Bound'
<1>1. Creators' = Creators /\ Builders' = Builders /\ \A s : Users(s)' = Users(s)
  BY DEF Creators, Builders, Users
<1>2. Cardinality(table) \in Nat /\ Cardinality({}) = 0
  BY FiniteParts, FS_CardinalityType, FS_EmptySet DEF IInv
<1>3. Cardinality(Builders) \in Nat
  BY FiniteParts, FS_CardinalityType DEF IInv
<1>4. Counted'
  BY <1>1 DEF IInv, Counted
<1>5. Bound'
  <2>1. CASE table' = table
    BY <1>1, <2>1 DEF IInv, Bound
  <2>2. CASE table' = {}
    BY <1>1, <1>2, <1>3, <2>2, MaxSessionsAssumption DEF IInv, Bound
  <2> QED BY <2>1, <2>2
<1> QED BY <1>4, <1>5

LEMMA CloseRuntimeInv ==
  ASSUME IInv, NEW r \in Requests, NEW t \in Sessions, CloseRuntime(r, t) PROVE IInv'
<1>1. TypeOK'
  BY DEF IInv, TypeOK, CloseRuntime, Dooms, records
<1>2. Counted' /\ Bound'
  BY CountsKept DEF CloseRuntime, records
<1>3. TableOpen' /\ DoomedApart' /\ NoOrphan'
  BY DEF IInv, TypeOK, TableOpen, DoomedApart, NoOrphan, CloseRuntime, Dooms, records
<1>4. OwnBuild' /\ UsersPlaced'
  BY DEF IInv, TypeOK, OwnBuild, UsersPlaced, CloseRuntime, Dooms, records
<1> QED BY <1>1, <1>2, <1>3, <1>4 DEF IInv

LEMMA ShutdownInv == ASSUME IInv, Shutdown PROVE IInv'
<1>1. TypeOK'
  BY DEF IInv, TypeOK, Shutdown, threads
<1>2. Counted' /\ Bound'
  BY CountsKept DEF Shutdown, threads
<1>3. TableOpen' /\ DoomedApart' /\ NoOrphan' /\ OwnBuild' /\ UsersPlaced'
  BY DEF IInv, TypeOK, TableOpen, DoomedApart, NoOrphan, OwnBuild, UsersPlaced, Shutdown,
         threads
<1> QED BY <1>1, <1>2, <1>3 DEF IInv

LEMMA ShutdownOneInv == ASSUME IInv, NEW t \in Sessions, ShutdownOne(t) PROVE IInv'
<1>1. TypeOK'
  BY DEF IInv, TypeOK, ShutdownOne, records, threads
<1>2. Counted' /\ Bound'
  BY CountsKept DEF ShutdownOne, records, threads
<1>3. TableOpen' /\ DoomedApart' /\ NoOrphan' /\ OwnBuild' /\ UsersPlaced'
  BY DEF IInv, TypeOK, TableOpen, DoomedApart, NoOrphan, OwnBuild, UsersPlaced,
         ShutdownOne, records, threads
<1> QED BY <1>1, <1>2, <1>3 DEF IInv

(* Ageing, and the end of commands *)
LEMMA EnvironmentInv ==
  ASSUME IInv, NEW t \in Sessions, Ages(t) \/ CommandsEnd(t) PROVE IInv'
<1>1. TypeOK'
  BY DEF IInv, TypeOK, Ages, CommandsEnd, records, threads
<1>2. Counted' /\ Bound'
  BY CountsKept DEF Ages, CommandsEnd, records, threads
<1>3. TableOpen' /\ DoomedApart' /\ NoOrphan' /\ OwnBuild' /\ UsersPlaced'
  BY DEF IInv, TypeOK, TableOpen, DoomedApart, NoOrphan, OwnBuild, UsersPlaced, Ages,
         CommandsEnd, records, threads
<1> QED BY <1>1, <1>2, <1>3 DEF IInv

-----------------------------------------------------------------------------
LEMMA InitInv == Init => IInv
<1> SUFFICES ASSUME Init PROVE IInv
  OBVIOUS
<1>1. TypeOK
  BY DEF Init, TypeOK, Steps
<1>2. Creators = {} /\ Builders = {} /\ table = {}
  BY DEF Init, Creators, Builders
<1>3. Counted /\ Bound
  BY <1>2, FS_EmptySet, MaxSessionsAssumption DEF Init, Counted, Bound
<1>4. TableOpen /\ DoomedApart /\ OwnBuild /\ UsersPlaced /\ NoOrphan
  BY DEF Init, TableOpen, DoomedApart, OwnBuild, UsersPlaced, NoOrphan, Serving
<1> QED BY <1>1, <1>3, <1>4 DEF IInv

LEMMA NextInv == IInv /\ [Next]_vars => IInv'
<1> SUFFICES ASSUME IInv, [Next]_vars PROVE IInv'
  OBVIOUS
<1>1. ASSUME NEW r \in Requests, ClientStep(r) PROVE IInv'
  BY <1>1, BeginInitializeInv, BeginPostInv, BeginDeleteInv DEF ClientStep
<1>2. ASSUME NEW r \in Requests, RequestStep(r) PROVE IInv'
  <2>1. ASSUME Delete(r, "delete", "done") \/ Delete(r, "drop", "release") PROVE IInv'
    BY <2>1, DeleteInv
  <2> QED
    BY <1>2, <2>1, CloseRuntimeInv, EvictInv, BuildInv, RefuseInv, ReserveInv, InstallInv,
       InstallRefusedInv, UnreserveInv, DiscardInv, GetInv, GetUnknownInv, ServeInv,
       ReleaseGoneInv, ReleaseInv DEF RequestStep
<1>3. ASSUME NEW r \in Requests, BuildFails(r) \/ ServeFails(r) PROVE IInv'
  BY <1>3, BuildFailsInv, ServeFailsInv
<1>4. ASSUME NEW s \in Sessions, Ages(s) \/ CommandsEnd(s) \/ ShutdownOne(s) PROVE IInv'
  BY <1>4, EnvironmentInv, ShutdownOneInv
<1>5. CASE UNCHANGED vars
  <2>1. TypeOK' /\ TableOpen' /\ DoomedApart' /\ OwnBuild' /\ UsersPlaced' /\ NoOrphan'
    BY <1>5 DEF vars, records, threads, IInv, TypeOK, TableOpen, DoomedApart, OwnBuild,
       UsersPlaced, NoOrphan
  <2>2. Counted' /\ Bound'
    BY <1>5, CountsKept DEF vars, records, threads
  <2> QED BY <2>1, <2>2 DEF IInv
<1> QED
  BY <1>1, <1>2, <1>3, <1>4, <1>5, ShutdownInv DEF Next

(* The inductive invariant holds in every reachable state. *)
THEOREM Invariance == Spec => []IInv
<1> QED BY InitInv, NextInv, PTL DEF Spec

(* Every variable of HTTPSessionManager keeps its type; in particular      *)
(* _creating never becomes negative.                                       *)
THEOREM TypeCorrect == Spec => []TypeOK
<1>1. IInv => TypeOK
  BY DEF IInv
<1> QED BY <1>1, Invariance, PTL

(* HTTPSessionManager.create keeps to MAX_HTTP_SESSIONS, for any limit and *)
(* any number of concurrent requests.                                      *)
THEOREM SessionLimitHolds == Spec => []SessionsBounded
<1>1. IInv => SessionsBounded
  BY DEF IInv, Bound, SessionsBounded, Builders
<1> QED BY <1>1, Invariance, PTL

(* get, release, delete, prune and eviction never close a Runtime under a  *)
(* request that it serves.                                                 *)
THEOREM ServedRuntimesStayOpen == Spec => []ServedOpen
<1>1. IInv => ServedOpen
  BY DEF IInv, UsersPlaced, TableOpen, ServedOpen, Serving
<1> QED BY <1>1, Invariance, PTL

(* No path through create, delete, release, prune and close loses an open  *)
(* Runtime.                                                                *)
THEOREM NoRuntimeLeaks == Spec => []NoOrphan
<1>1. IInv => NoOrphan
  BY DEF IInv
<1> QED BY <1>1, Invariance, PTL

(* Commands run in open Runtimes only. *)
BusyOpen == \A s \in busy : runtime[s] = "open"

LEMMA BusyOpenKept == TypeOK /\ BusyOpen /\ [Next]_vars => BusyOpen'
<1> SUFFICES ASSUME TypeOK, BusyOpen, [Next]_vars PROVE BusyOpen'
  OBVIOUS
<1>0. UNCHANGED <<runtime, busy>> => BusyOpen'
  BY DEF BusyOpen
<1>1. ASSUME NEW r \in Requests, ClientStep(r) PROVE UNCHANGED <<runtime, busy>>
  BY <1>1 DEF ClientStep, BeginInitialize, BeginPost, BeginDelete, Prune
<1>2. ASSUME NEW r \in Requests, RequestStep(r) PROVE BusyOpen'
  <2>1. ASSUME NEW t \in Sessions, CloseRuntime(r, t) PROVE BusyOpen'
    BY <2>1 DEF TypeOK, BusyOpen, CloseRuntime
  <2>2. ASSUME NEW t \in Sessions, Build(r, t) PROVE BusyOpen'
    BY <2>2 DEF TypeOK, BusyOpen, Build
  <2>3. ASSUME Serve(r) PROVE BusyOpen'
    BY <2>3 DEF TypeOK, BusyOpen, Serve
  <2>4. ASSUME ~Serve(r), ~ \E t \in Sessions : CloseRuntime(r, t) \/ Build(r, t)
        PROVE  UNCHANGED <<runtime, busy>>
    BY <1>2, <2>4 DEF RequestStep, Evict, Refuse, Reserve, Install, InstallRefused,
       Unreserve, Discard, Get, GetUnknown, Delete, ReleaseGone, Release
  <2> QED BY <1>0, <2>1, <2>2, <2>3, <2>4
<1>3. ASSUME NEW r \in Requests, BuildFails(r) \/ ServeFails(r)
      PROVE  UNCHANGED <<runtime, busy>>
  BY <1>3 DEF BuildFails, ServeFails
<1>4. ASSUME NEW t \in Sessions, Ages(t) \/ CommandsEnd(t) \/ ShutdownOne(t) PROVE BusyOpen'
  BY <1>4 DEF TypeOK, BusyOpen, Ages, CommandsEnd, ShutdownOne
<1>5. Shutdown \/ UNCHANGED vars => UNCHANGED <<runtime, busy>>
  BY DEF Shutdown, vars
<1> QED BY <1>0, <1>1, <1>2, <1>3, <1>4, <1>5 DEF Next

LEMMA BusyInOpenRuntimes == Spec => []BusyOpen
<1>1. Init => BusyOpen
  BY DEF Init, BusyOpen
<1> QED BY <1>1, BusyOpenKept, TypeCorrect, PTL DEF Spec

(* prune and eviction spare the Runtimes that have commands, also between  *)
(* the check under the lock and the close outside it.                      *)
THEOREM EvictionSparesCommands == Spec => BusySpared
<1> DEFINE Spared == \A s \in busy : runtime'[s] # runtime[s] => s \in closing \/ shut
<1>1. IInv /\ BusyOpen /\ [Next]_vars => [Spared]_vars
  <2> SUFFICES ASSUME IInv, BusyOpen, Next PROVE Spared
    OBVIOUS
  <2>1. ASSUME NEW r \in Requests, NEW t \in Sessions, CloseRuntime(r, t) PROVE Spared
    BY <2>1 DEF IInv, TypeOK, DoomedApart, CloseRuntime
  <2>2. ASSUME NEW t \in Sessions, ShutdownOne(t) PROVE Spared
    BY <2>2 DEF IInv, TypeOK, TableOpen, ShutdownOne
  <2>3. ASSUME NEW r \in Requests, NEW t \in Sessions, Build(r, t) PROVE Spared
    BY <2>3 DEF IInv, TypeOK, BusyOpen, Build
  <2>4. ASSUME NEW r \in Requests, ClientStep(r) PROVE UNCHANGED runtime
    BY <2>4 DEF ClientStep, BeginInitialize, BeginPost, BeginDelete, Prune
  <2>5. ASSUME NEW r \in Requests, RequestStep(r),
               ~ \E s \in Sessions : CloseRuntime(r, s) \/ Build(r, s)
        PROVE  UNCHANGED runtime
    BY <2>5 DEF RequestStep, Evict, Refuse, Reserve, Install, InstallRefused, Unreserve,
       Discard, Get, GetUnknown, Serve, Delete, ReleaseGone, Release
  <2>6. ASSUME NEW r \in Requests, BuildFails(r) \/ ServeFails(r) PROVE UNCHANGED runtime
    BY <2>6 DEF BuildFails, ServeFails
  <2>7. ASSUME NEW t \in Sessions, Ages(t) \/ CommandsEnd(t) PROVE UNCHANGED runtime
    BY <2>7 DEF Ages, CommandsEnd
  <2>8. Shutdown => UNCHANGED runtime
    BY DEF Shutdown
  <2>9. UNCHANGED runtime => Spared
    OBVIOUS
  <2> HIDE DEF Spared
  <2> QED
    BY <2>1, <2>2, <2>3, <2>4, <2>5, <2>6, <2>7, <2>8, <2>9 DEF Next
<1> QED BY <1>1, Invariance, BusyInOpenRuntimes, PTL DEF Spec, BusySpared
=============================================================================
