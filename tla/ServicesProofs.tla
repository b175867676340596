--------------------------- MODULE ServicesProofs ---------------------------
(***************************************************************************)
(* Theorems about the services around a checkout: ServiceUpdate,           *)
(* OAuthProvider and DesktopSupervisor, for any number of commits,         *)
(* clients, codes, process ids and configurations and any values of the    *)
(* limits and bounds.                                                      *)
(***************************************************************************)
EXTENDS ServiceUpdate, OAuthProvider, DesktopSupervisor, FiniteSetTheorems, TLAPS

-----------------------------------------------------------------------------
(* ServiceUpdate.  What one check found stays true of an update that       *)
(* nothing disturbed until the build: HEAD is the SHA it was asked for,    *)
(* then the work tree is that of the index, then the index that of HEAD.   *)
(* From there on the build, the installation and the server have the       *)
(* tracked files of that SHA, one after the other.                         *)

UpdateSteps == {"none", "scheduled", "branch", "diff", "cached", "install",
                "save", "units", "restart", "verify", "updated", "failed"}
UpdateRecords == [at : UpdateSteps, saw : SUBSET Builds, disturbed : BOOLEAN, ran : Builds]

UpdateType ==
  /\ source \in Checkouts
  /\ installed \in Builds
  /\ server \in [code : Builds, claim : Commits]
  /\ recorded \in Commits
  /\ unit \in [Units -> UpdateRecords]

(* What u built from: tracked files of the commit it was asked for only. *)
Sound(u, built) == built \in unit[u].saw /\ built.tracked = Sha(u)

Carried(u) ==
  /\ unit[u].at \in {"branch", "diff", "cached", "install"} => source.head = Sha(u)
  /\ unit[u].at \in {"cached", "install"} => ~source.edited
  /\ At(u, "install") =>
       ~source.staged /\ \A s \in unit[u].saw : s.tracked = Sha(u)
  /\ unit[u].at \in {"save", "units", "restart", "verify"} => Sound(u, installed)
  /\ At(u, "verify") => Sound(u, server.code)
  /\ At(u, "updated") => Sound(u, unit[u].ran)

UpdateInv == UpdateType /\ \A u \in Units : ~unit[u].disturbed => Carried(u)

(* The contents of a checkout, and of any build, have their type. *)
LEMMA UpdateTypes ==
  /\ 0 \in Commits /\ \A u \in Units : Sha(u) \in Commits
  /\ \A s \in Checkouts : Contents(s) \in Builds
  /\ Pristine(0) \in Builds /\ Pristine(Modified) \in Builds
  /\ NoUpdate \in UpdateRecords /\ Failed \in UpdateRecords
<1>1. 0 \in Commits /\ \A u \in Units : Sha(u) \in Commits
  BY UpdateAssumption DEF Commits, Units, Sha
<1>2. \A s \in Checkouts : Contents(s) \in Builds
  BY DEF Checkouts, Contents, Builds
<1>3. Pristine(0) \in Builds /\ Pristine(Modified) \in Builds
  BY <1>1 DEF Pristine, Builds
<1>4. NoUpdate \in UpdateRecords
  BY <1>3 DEF NoUpdate, UpdateRecords, UpdateSteps
<1>5. Failed \in UpdateRecords
  BY <1>4 DEF Failed, UpdateRecords, UpdateSteps
<1>6. QED
  BY <1>1, <1>2, <1>3, <1>4, <1>5

(* An update that moves to a step, or fails, keeps the invariant when what *)
(* the step stands for holds.                                              *)
LEMMA UpdateMoves ==
  ASSUME UpdateInv, NEW u \in Units, NEW step \in UpdateSteps, To(u, step),
         UNCHANGED <<source, installed, recorded>>, server' \in [code : Builds, claim : Commits],
         \A w \in Units : At(w, "verify") /\ w # u =>
           server'.code = server.code \/ server'.code = installed,
         step # "failed" /\ ~unit[u].disturbed => Carried(u)'
  PROVE  UpdateInv'
<1>1. UpdateType'
  <2>1. [unit[u] EXCEPT !.at = step] \in UpdateRecords
    BY DEF UpdateInv, UpdateType, UpdateRecords
  <2>2. unit' \in [Units -> UpdateRecords]
    BY <2>1, UpdateTypes DEF UpdateInv, UpdateType, To
  <2>3. QED
    BY <2>2 DEF UpdateInv, UpdateType
<1>2. ASSUME NEW w \in Units, w # u, ~unit'[w].disturbed PROVE Carried(w)'
  BY <1>2 DEF UpdateInv, UpdateType, UpdateRecords, Carried, Sound, At, To
<1>3. ASSUME ~unit'[u].disturbed PROVE Carried(u)'
  <2>1. CASE step = "failed"
    BY <2>1 DEF UpdateInv, UpdateType, To, Failed, NoUpdate, Carried, At
  <2>2. CASE step # "failed"
    BY <1>3, <2>2 DEF UpdateInv, UpdateType, UpdateRecords, To
  <2>3. QED
    BY <2>1, <2>2
<1>4. QED
  BY <1>1, <1>2, <1>3 DEF UpdateInv

(* Only the update that replaces the installation builds on it. *)
LEMMA UpdateReplaces ==
  ASSUME UpdateInv, NEW u \in Units, NEW built \in Builds, NEW next \in {"save", "failed"},
         At(u, "install"), Replace(u, built, next), UNCHANGED <<source, recorded, server>>,
         next = "save" => Buildable(u, built)
  PROVE  UpdateInv'
<1>1. UpdateType'
  <2>1. ASSUME NEW w \in Units PROVE unit'[w] \in UpdateRecords
    BY UpdateTypes DEF UpdateInv, UpdateType, UpdateRecords, UpdateSteps, Replace
  <2>2. unit' \in [Units -> UpdateRecords]
    BY <2>1 DEF Replace
  <2>3. QED
    BY <2>2 DEF UpdateInv, UpdateType, Replace
<1>2. ASSUME NEW w \in Units, w # u, ~unit'[w].disturbed PROVE Carried(w)'
  BY <1>2 DEF UpdateInv, UpdateType, UpdateRecords, Carried, Sound, At, Replace
<1>3. ASSUME ~unit'[u].disturbed PROVE Carried(u)'
  <2>1. CASE next = "failed"
    BY <2>1 DEF Replace, Failed, NoUpdate, Carried, At
  <2>2. CASE next = "save"
    <3>1. unit'[u] = [unit[u] EXCEPT !.at = "save"] /\ installed' = built
      BY <2>2 DEF Replace
    <3>2. unit'[u].at = "save" /\ unit'[u].saw = unit[u].saw /\ ~unit[u].disturbed
      BY <1>3, <3>1 DEF UpdateInv, UpdateType, UpdateRecords
    <3>3. \A s \in unit[u].saw : s.tracked = Sha(u)
      BY <3>2 DEF UpdateInv, Carried
    <3>4. built \in unit[u].saw
      BY <2>2, <3>3 DEF Buildable
    <3>5. QED
      BY <3>1, <3>2, <3>3, <3>4 DEF Carried, Sound, At
  <2>3. QED
    BY <2>1, <2>2
<1>4. QED
  BY <1>1, <1>2, <1>3 DEF UpdateInv

(* A change of the source spares the updates that it does not disturb. *)
LEMMA UpdateSourceMoves ==
  ASSUME UpdateInv, NEW new \in Checkouts, SourceMoves(new)
  PROVE  UpdateInv'
<1>1. UpdateType'
  <2>1. ASSUME NEW w \in Units PROVE unit'[w] \in UpdateRecords
    <3>1. unit[w] \in UpdateRecords /\ Contents(new) \in Builds
      BY UpdateTypes DEF UpdateInv, UpdateType
    <3>2. Disturbs(w, new) \in BOOLEAN
      BY DEF Disturbs
    <3>3. QED
      BY <3>1, <3>2 DEF UpdateRecords, SourceMoves
  <2>2. unit' \in [Units -> UpdateRecords]
    BY <2>1 DEF SourceMoves
  <2>3. QED
    BY <2>2 DEF UpdateInv, UpdateType, SourceMoves
<1>2. ASSUME NEW w \in Units, ~unit'[w].disturbed PROVE Carried(w)'
  <2>1. unit[w] \in UpdateRecords /\ source' = new
        /\ unit'[w] = [unit[w] EXCEPT !.disturbed = @ \/ Disturbs(w, new),
                         !.saw = IF At(w, "install") THEN @ \cup {Contents(new)} ELSE @]
    BY DEF SourceMoves, UpdateInv, UpdateType
  <2>2. /\ unit'[w].at = unit[w].at /\ unit'[w].ran = unit[w].ran
        /\ unit'[w].saw = IF At(w, "install") THEN unit[w].saw \cup {Contents(new)}
                          ELSE unit[w].saw
        /\ unit'[w].disturbed = (unit[w].disturbed \/ Disturbs(w, new))
    BY <2>1 DEF UpdateRecords
  <2>3. Carried(w) /\ ~Disturbs(w, new)
    BY <1>2, <2>1, <2>2 DEF UpdateInv, UpdateRecords
  <2>4. unit[w].at \in {"branch", "diff", "cached", "install"} => new.head = Sha(w)
    BY <2>3 DEF Carried, Disturbs
  <2>5. unit[w].at \in {"cached", "install"} => ~new.edited
    BY <2>3 DEF Carried, Disturbs
  <2>6. At(w, "install") => ~new.staged /\ Contents(new).tracked = Sha(w)
    BY <2>3, <2>4, <2>5 DEF Carried, Disturbs, At, Contents
  <2>7. UNCHANGED <<installed, server>>
    BY DEF SourceMoves
  <2>8. QED
    BY <2>1, <2>2, <2>3, <2>4, <2>5, <2>6, <2>7 DEF Carried, Sound, At
<1>3. QED
  BY <1>1, <1>2 DEF UpdateInv

(* The scheduled units, the restarts and the moves of the source preserve  *)
(* the inductive invariant.                                                *)
LEMMA UpdateStep == UpdateInv /\ [UpdNext]_updVars => UpdateInv'
<1> SUFFICES ASSUME UpdateInv, [UpdNext]_updVars PROVE UpdateInv'
  OBVIOUS
<1>0. \A u \in Units : unit[u] \in UpdateRecords /\ (~unit[u].disturbed => Carried(u))
  BY DEF UpdateInv, UpdateType
<1>1. ASSUME NEW u \in Units, ScheduleUpdate(u) PROVE UpdateInv'
  <2>1. [NoUpdate EXCEPT !.at = "scheduled"] \in UpdateRecords
    BY UpdateTypes DEF UpdateRecords, UpdateSteps
  <2>2. UpdateType'
    BY <1>1, <2>1 DEF ScheduleUpdate, UpdateInv, UpdateType
  <2>3. ASSUME NEW w \in Units, ~unit'[w].disturbed PROVE Carried(w)'
    BY <1>0, <1>1, <2>3 DEF ScheduleUpdate, UpdateInv, UpdateType, NoUpdate, Carried, Sound, At
  <2>4. QED
    BY <2>2, <2>3 DEF UpdateInv
<1>2. CASE ScheduleRestart
  BY <1>2 DEF ScheduleRestart, UpdateInv, UpdateType, Carried, Sound, At
<1>3. CASE Restarts \/ ServerDies
  BY <1>3 DEF Restarts, ServerDies, Serve, UpdateInv, UpdateType, Carried, Sound, At
<1>4. ASSUME NEW u \in Units, CheckHead(u) PROVE UpdateInv'
  <2> DEFINE step == IF source.head = Sha(u) THEN "branch" ELSE "failed"
  <2>1. step \in UpdateSteps /\ To(u, step)
    BY <1>4 DEF CheckHead, Check, UpdateSteps
  <2>2. step # "failed" => Carried(u)'
    BY <1>0, <1>4, <2>1 DEF CheckHead, Check, To, Carried, At, UpdateInv, UpdateType, UpdateRecords
  <2> HIDE DEF step
  <2>3. QED
    BY <1>4, <2>1, <2>2, UpdateMoves DEF CheckHead, Check, UpdateInv, UpdateType
<1>5. ASSUME NEW u \in Units, CheckBranch(u) PROVE UpdateInv'
  <2> DEFINE passed == IF Production(u) THEN source.branch = "main" ELSE source.branch # ""
             step == IF passed THEN "diff" ELSE "failed"
  <2>1. step \in UpdateSteps /\ To(u, step)
    BY <1>5 DEF CheckBranch, Check, UpdateSteps
  <2>2. At(u, "branch") /\ UNCHANGED source
    BY <1>5 DEF CheckBranch, Check
  <2> HIDE DEF passed
  <2>3. step # "failed" /\ ~unit[u].disturbed => Carried(u)'
    BY <1>0, <2>1, <2>2 DEF To, Carried, At, UpdateInv, UpdateType, UpdateRecords
  <2> HIDE DEF step
  <2>4. QED
    BY <1>5, <2>1, <2>3, UpdateMoves DEF CheckBranch, Check, UpdateInv, UpdateType
<1>6. ASSUME NEW u \in Units, CheckDiff(u) PROVE UpdateInv'
  <2> DEFINE step == IF ~source.edited THEN "cached" ELSE "failed"
  <2>1. step \in UpdateSteps /\ To(u, step)
    BY <1>6 DEF CheckDiff, Check, UpdateSteps
  <2>2. step # "failed" /\ ~unit[u].disturbed => Carried(u)'
    BY <1>0, <1>6, <2>1 DEF CheckDiff, Check, To, Carried, At, UpdateInv, UpdateType, UpdateRecords
  <2> HIDE DEF step
  <2>3. QED
    BY <1>6, <2>1, <2>2, UpdateMoves DEF CheckDiff, Check, UpdateInv, UpdateType
<1>7. ASSUME NEW u \in Units, CheckCached(u) PROVE UpdateInv'
  <2>1. CASE source.staged
    BY <1>7, <2>1, UpdateMoves DEF CheckCached, UpdateInv, UpdateType, UpdateSteps
  <2>2. CASE ~source.staged
    <3>1. unit' = [unit EXCEPT ![u] = [@ EXCEPT !.at = "install", !.saw = {Contents(source)}]]
          /\ UNCHANGED <<source, installed, recorded, server>>
      BY <1>7, <2>2 DEF CheckCached
    <3>2. [unit[u] EXCEPT !.at = "install", !.saw = {Contents(source)}] \in UpdateRecords
      BY <1>0, UpdateTypes DEF UpdateInv, UpdateType, UpdateRecords, UpdateSteps
    <3>3. UpdateType'
      BY <3>1, <3>2 DEF UpdateInv, UpdateType
    <3>4. ASSUME NEW w \in Units, ~unit'[w].disturbed PROVE Carried(w)'
      <4>1. CASE w = u
        <5>1. unit'[u].at = "install" /\ unit'[u].saw = {Contents(source)} /\ ~unit[u].disturbed
          BY <1>0, <3>1, <3>4, <4>1 DEF UpdateInv, UpdateType, UpdateRecords
        <5>2. source.head = Sha(u) /\ ~source.edited
          BY <1>0, <1>7, <5>1 DEF CheckCached, Carried, At
        <5>3. Contents(source).tracked = Sha(u)
          BY <2>2, <5>2 DEF Contents
        <5>4. QED
          BY <2>2, <3>1, <4>1, <5>1, <5>2, <5>3 DEF Carried, At
      <4>2. CASE w # u
        BY <1>0, <3>1, <3>4, <4>2 DEF UpdateInv, UpdateType, Carried, Sound, At
      <4>3. QED
        BY <4>1, <4>2
    <3>5. QED
      BY <3>3, <3>4 DEF UpdateInv
  <2>3. QED
    BY <2>1, <2>2
<1>8. ASSUME NEW u \in Units, NEW built \in Builds, Install(u, built) PROVE UpdateInv'
  BY <1>8, UpdateReplaces DEF Install
<1>9. ASSUME NEW u \in Units, NEW built \in Builds, InstallFails(u, built) PROVE UpdateInv'
  BY <1>9, UpdateReplaces DEF InstallFails
<1>10. ASSUME NEW u \in Units, SaveConfig(u) PROVE UpdateInv'
  <2>1. UpdateType'
    BY <1>10, UpdateTypes, <1>0 DEF SaveConfig, To, UpdateInv, UpdateType, UpdateRecords, UpdateSteps
  <2>2. ASSUME NEW w \in Units, ~unit'[w].disturbed PROVE Carried(w)'
    BY <1>0, <1>10, <2>2 DEF SaveConfig, To, UpdateInv, UpdateType, UpdateRecords, Carried, Sound, At
  <2>3. QED
    BY <2>1, <2>2 DEF UpdateInv
<1>11. ASSUME NEW u \in Units, InstallUnits(u) PROVE UpdateInv'
  <2>1. ~unit[u].disturbed => Carried(u)'
    BY <1>0, <1>11 DEF InstallUnits, To, Carried, Sound, At, UpdateInv, UpdateType, UpdateRecords
  <2>2. QED
    BY <1>11, <2>1, UpdateMoves DEF InstallUnits, UpdateInv, UpdateType, UpdateSteps
<1>12. ASSUME NEW u \in Units, RestartServices(u) \/ RestartFails(u) PROVE UpdateInv'
  <2>1. server' = [code |-> installed, claim |-> recorded]
        /\ UNCHANGED <<source, installed, recorded>> /\ At(u, "restart")
        /\ (To(u, "verify") \/ To(u, "failed"))
    BY <1>12 DEF RestartServices, RestartFails, Serve
  <2>2. server' \in [code : Builds, claim : Commits] /\ server'.code = installed
    BY <2>1 DEF UpdateInv, UpdateType
  <2>3. To(u, "verify") /\ ~unit[u].disturbed => Carried(u)'
    BY <1>0, <2>1, <2>2 DEF To, Carried, Sound, At, UpdateInv, UpdateType, UpdateRecords
  <2>4. CASE To(u, "verify")
    BY <2>1, <2>2, <2>3, <2>4, UpdateMoves DEF UpdateSteps
  <2>5. CASE To(u, "failed")
    BY <2>1, <2>2, <2>5, UpdateMoves DEF UpdateSteps
  <2>6. QED
    BY <2>1, <2>4, <2>5
<1>13. ASSUME NEW u \in Units, UpdateFails(u) PROVE UpdateInv'
  BY <1>13, UpdateMoves DEF UpdateFails, UpdateInv, UpdateType, UpdateSteps
<1>14. ASSUME NEW u \in Units, VerifyUpdate(u) PROVE UpdateInv'
  <2>1. CASE server.claim # Sha(u)
    BY <1>14, <2>1, UpdateMoves DEF VerifyUpdate, UpdateInv, UpdateType, UpdateSteps
  <2>2. CASE server.claim = Sha(u)
    <3>1. unit' = [unit EXCEPT ![u] = [@ EXCEPT !.at = "updated", !.ran = server.code]]
          /\ UNCHANGED <<source, installed, recorded, server>>
      BY <1>14, <2>2 DEF VerifyUpdate
    <3>2. [unit[u] EXCEPT !.at = "updated", !.ran = server.code] \in UpdateRecords
      BY <1>0 DEF UpdateInv, UpdateType, UpdateRecords, UpdateSteps
    <3>3. UpdateType'
      BY <3>1, <3>2 DEF UpdateInv, UpdateType
    <3>4. ASSUME NEW w \in Units, ~unit'[w].disturbed PROVE Carried(w)'
      BY <1>0, <1>14, <3>1, <3>4 DEF VerifyUpdate, UpdateInv, UpdateType, UpdateRecords, Carried, Sound, At
    <3>5. QED
      BY <3>3, <3>4 DEF UpdateInv
  <2>3. QED
    BY <2>1, <2>2
<1>15. ASSUME NEW c \in Commits, NEW edited \in BOOLEAN, NEW staged \in BOOLEAN,
              MoveTracked(c, edited, staged)
       PROVE  UpdateInv'
  <2>1. [source EXCEPT !.head = c, !.edited = edited, !.staged = staged] \in Checkouts
    BY DEF UpdateInv, UpdateType, Checkouts
  <2>2. QED
    BY <1>15, <2>1, UpdateSourceMoves DEF MoveTracked
<1>16. ASSUME NEW b \in {"main", "topic", ""}, SwitchSource(b) PROVE UpdateInv'
  <2>1. [source EXCEPT !.branch = b] \in Checkouts
    BY DEF UpdateInv, UpdateType, Checkouts
  <2>2. QED
    BY <1>16, <2>1, UpdateSourceMoves DEF SwitchSource
<1>17. CASE MoveUntracked \/ Fetch
  <2>1. /\ [source EXCEPT !.untracked = ~source.untracked] \in Checkouts
        /\ [source EXCEPT !.upstream = source.head] \in Checkouts
    BY DEF UpdateInv, UpdateType, Checkouts
  <2>2. QED
    BY <1>17, <2>1, UpdateSourceMoves DEF MoveUntracked, Fetch
<1>18. CASE UNCHANGED updVars
  BY <1>18 DEF updVars, UpdateInv, UpdateType, Carried, Sound, At
<1>19. QED
  BY <1>1, <1>2, <1>3, <1>4, <1>5, <1>6, <1>7, <1>8, <1>9, <1>10, <1>11, <1>12, <1>13, <1>14,
     <1>15, <1>16, <1>17, <1>18
  DEF UpdNext

(* An update that reports success has the server running what it built,    *)
(* with the tracked files of the commit it was asked for, unless the       *)
(* source changed after the check that would have seen it or another       *)
(* update replaced the installation (_service_update).                     *)
THEOREM UpdatesAreHonest == UpdSpec => []UpdateHonest
<1>1. UpdInit => UpdateInv
  BY UpdateTypes DEF UpdInit, UpdateInv, UpdateType, UpdateRecords, Carried, At, NoUpdate
<1>2. UpdateInv => UpdateHonest
  BY DEF UpdateInv, Carried, Sound, UpdateHonest
<1>3. QED
  BY <1>1, <1>2, UpdateStep, PTL DEF UpdSpec

-----------------------------------------------------------------------------
(* OAuthProvider.  Codes are approved in the order of their numbers; a     *)
(* code is pending, then spent, and gives a token only when it goes from   *)
(* one to the other.                                                       *)

AuthType ==
  /\ client \in [Clients -> Registrations \cup {NoAuth}]
  /\ approval \in [Codes -> Approvals \cup {NoAuth}]
  /\ token \in [Codes -> Tokens \cup {NoAuth}]
  /\ minted \in [Codes -> Nat]

Numbered == \E n \in 0..MaxCodes : {k \in Codes : approval[k] # NoAuth} = 1..n

Approved == {k \in Codes : approval[k] # NoAuth}

CodesUsed ==
  /\ pending \subseteq log /\ log \subseteq Approved /\ spent \subseteq Approved
  /\ pending \cap spent = {}
  /\ \A k \in Codes : minted[k] <= 1 /\ (k \notin spent => minted[k] = 0)

TokensMatch ==
  \A k \in Codes : token[k] # NoAuth =>
    /\ approval[k] # NoAuth
    /\ approval[k].client = token[k].client
    /\ approval[k].redirect = token[k].redirect
    /\ approval[k].verifier = token[k].verifier
    /\ approval[k].resource = token[k].audience

AuthInv == AuthType /\ Numbered /\ CodesUsed /\ TokensMatch /\ PendingKept

(* Sets of codes are finite. *)
LEMMA CodesFinite ==
  ASSUME NEW S \in SUBSET Codes
  PROVE  IsFiniteSet(S) /\ Cardinality(S) \in Nat
<1>1. IsFiniteSet(Codes)
  BY AuthAssumption, FS_Interval DEF Codes
<1>2. QED
  BY <1>1, FS_Subset, FS_CardinalityType

(* When the oldest codes have gone there is room for one more: the codes   *)
(* that stay have different numbers of newer ones, all below MaxPending-1. *)
LEMMA RoomForOne ==
  ASSUME NEW S \in SUBSET Codes
  PROVE  Cardinality({k \in S : Cardinality(Newer(k, S)) < MaxPending - 1}) <= MaxPending - 1
<1> DEFINE K == {k \in S : Cardinality(Newer(k, S)) < MaxPending - 1}
           T == 1..MaxPending - 1
           f == [k \in K |-> Cardinality(Newer(k, S)) + 1]
<1>0. Codes \subseteq Nat /\ MaxPending - 1 \in Nat
  BY AuthAssumption DEF Codes
<1>1. Codes \subseteq Nat /\ MaxPending - 1 \in Nat /\ S \subseteq Nat /\ K \subseteq S
  BY <1>0
<1>2. ASSUME NEW k \in Codes
      PROVE  Newer(k, S) \in SUBSET Codes /\ Cardinality(Newer(k, S)) \in Nat
  <2>1. Newer(k, S) \subseteq S
    BY DEF Newer
  <2>2. QED
    BY <2>1, CodesFinite
<1>3. ASSUME NEW k \in K, NEW j \in K, k < j PROVE f[j] < f[k]
  <2>1. Newer(j, S) \in SUBSET Newer(k, S) /\ j \in Newer(k, S) /\ j \notin Newer(j, S)
    <3> HIDE DEF K
    <3>1. k \in S /\ j \in S /\ S \subseteq Nat
      BY <1>1, <1>3
    <3>2. ASSUME NEW i \in Newer(j, S) PROVE i \in Newer(k, S)
      <4>1. i \in S /\ i \in Nat /\ i > j /\ j \in Nat /\ k \in Nat
        BY <3>1, <3>2 DEF Newer
      <4>2. i > k
        BY <1>3, <4>1
      <4>3. QED
        BY <4>1, <4>2 DEF Newer
    <3>3. j > k /\ ~(j > j)
      BY <1>3, <3>1
    <3>4. j \in Newer(k, S) /\ j \notin Newer(j, S)
      BY <3>1, <3>3 DEF Newer
    <3>5. QED
      BY <3>2, <3>4
  <2>2. Cardinality(Newer(j, S)) <= Cardinality(Newer(k, S))
        /\ Cardinality(Newer(j, S)) # Cardinality(Newer(k, S))
    BY <1>1, <1>2, <2>1, CodesFinite, FS_Subset
  <2>3. QED
    BY <1>1, <1>2, <2>2
<1>4. f \in [K -> T]
  <2>1. ASSUME NEW k \in K PROVE Cardinality(Newer(k, S)) + 1 \in T
    BY <1>1, <1>2
  <2> HIDE DEF T
  <2>2. QED
    BY <2>1
<1>5. f \in Injection(K, T)
  <2>1. ASSUME NEW k \in K, NEW j \in K, k # j PROVE f[k] # f[j]
    <3>1. (k < j \/ j < k) /\ f[k] \in Int /\ f[j] \in Int
      BY <1>1, <1>4, <2>1
    <3> HIDE DEF f
    <3>2. QED
      BY <1>3, <3>1
  <2> HIDE DEF f, T, K
  <2>2. QED
    BY <1>4, <2>1 DEF Injection, IsInjective
<1>6. IsFiniteSet(T) /\ Cardinality(T) = MaxPending - 1
  BY <1>1, FS_Interval
<1> HIDE DEF f, T
<1>7. Cardinality(K) <= Cardinality(T)
  BY <1>5, <1>6, FS_Injection
<1>8. QED
  BY <1>6, <1>7

(* The code of an approval is the first that was never drawn. *)
LEMMA FreshCode ==
  ASSUME AuthInv, NEW k \in Codes, k = 1 + Cardinality(Approved)
  PROVE  /\ approval[k] = NoAuth
         /\ \A j \in Approved : j < k
         /\ Approved \cup {k} = 1..k
<1>1. PICK n \in 0..MaxCodes : Approved = 1..n
  BY DEF AuthInv, Numbered, Approved
<1>2. Cardinality(Approved) = n
  BY <1>1, FS_Interval, AuthAssumption
<1>3. k = n + 1
  BY <1>2, AuthAssumption
<1>4. \A j \in Approved : j < k
  BY <1>1, <1>3, AuthAssumption
<1>5. k \notin Approved
  BY <1>4, AuthAssumption DEF Codes
<1>6. Approved \cup {k} = 1..k
  BY <1>1, <1>3, AuthAssumption
<1>7. QED
  BY <1>4, <1>5, <1>6 DEF Approved

(* An approval keeps the inductive invariant: its code is new, and the     *)
(* codes that it pushes out have MaxPending newer ones.                    *)
LEMMA AuthorizeInv ==
  ASSUME AuthInv,
         NEW k \in Codes, NEW c \in Clients, NEW u \in Redirects, NEW v \in Verifiers,
         NEW h \in Hosts, Authorize(k, c, u, v, h)
  PROVE  AuthInv'
<1> DEFINE new == [client |-> c, redirect |-> u, verifier |-> v, resource |-> h, left |-> CodeTTL]
<1>0. /\ k = 1 + Cardinality(Approved)
      /\ approval' = [approval EXCEPT ![k] = new]
      /\ pending' = MakeRoom \cup {k} /\ log' = log \cup {k}
      /\ UNCHANGED <<client, drawn, spent, token, minted, restarts>>
  BY DEF Authorize, Approved
<1>1. new \in Approvals /\ new # NoAuth
  BY AuthAssumption DEF Approvals
<1> HIDE DEF new
<1>2. /\ approval[k] = NoAuth /\ \A j \in Approved : j < k
      /\ Approved \cup {k} = 1..k
  BY <1>0, FreshCode
<1>3. AuthType'
  BY <1>0, <1>1 DEF AuthInv, AuthType
<1>4. Approved' = Approved \cup {k} /\ \A j \in Codes : j # k => approval'[j] = approval[j]
  BY <1>0, <1>1 DEF AuthInv, AuthType, Approved
<1>5. Numbered'
  BY <1>2, <1>4, AuthAssumption DEF Numbered, Approved, Codes
<1>6. MakeRoom \subseteq pending
  BY DEF MakeRoom
<1>7. k \notin spent /\ k \notin log
  BY <1>2 DEF AuthInv, CodesUsed, Approved
<1>8. CodesUsed'
  BY <1>0, <1>4, <1>6, <1>7 DEF AuthInv, CodesUsed
<1>9. TokensMatch'
  BY <1>0, <1>2, <1>4 DEF AuthInv, AuthType, TokensMatch
<1> DEFINE valid == {j \in pending : ~Elapsed(j)}
<1>10. /\ pending \in SUBSET Codes /\ log \in SUBSET Codes /\ valid \in SUBSET Codes
       /\ valid \subseteq log /\ MakeRoom \in SUBSET Codes
  BY <1>6 DEF AuthInv, CodesUsed, Approved
<1>11. Cardinality(pending') <= MaxPending
  <2>1. Cardinality(MakeRoom) <= MaxPending - 1
    BY <1>10, RoomForOne DEF MakeRoom
  <2>2. Cardinality(MakeRoom) \in Nat /\ IsFiniteSet(MakeRoom)
    BY <1>10, CodesFinite
  <2>3. Cardinality(MakeRoom \cup {k}) =
          IF k \in MakeRoom THEN Cardinality(MakeRoom) ELSE Cardinality(MakeRoom) + 1
    BY <2>2, FS_AddElement, Zenon
  <2>4. Cardinality(MakeRoom \cup {k}) <= MaxPending
    BY <2>1, <2>2, <2>3, AuthAssumption
  <2>5. QED
    BY <1>0, <2>4
<1>12. ASSUME NEW j \in log', j \notin spent', ~Elapsed(j)', Cardinality(Newer(j, log')) < MaxPending
       PROVE  j \in pending'
  <2>1. CASE j = k
    BY <2>1, <1>0
  <2>2. CASE j # k
    <3>1. j \in log /\ j \in Approved /\ j \in Codes /\ j < k
      BY <2>2, <1>0, <1>2, <1>12 DEF AuthInv, CodesUsed, Approved
    <3>2. Newer(j, log') = Newer(j, log) \cup {k} /\ k \notin Newer(j, log)
      BY <3>1, <1>0, <1>7 DEF Newer
    <3>3. Newer(j, log) \in SUBSET Codes /\ Newer(j, valid) \in SUBSET Newer(j, log)
      BY <1>10 DEF Newer
    <3>4. Cardinality(Newer(j, log')) = Cardinality(Newer(j, log)) + 1
      BY <3>2, <3>3, CodesFinite, FS_AddElement
    <3>5. Cardinality(Newer(j, log)) < MaxPending - 1
      BY <3>3, <3>4, <1>12, CodesFinite, AuthAssumption
    <3>6. Cardinality(Newer(j, valid)) < MaxPending - 1
      <4>1. Newer(j, valid) \in SUBSET Codes
        BY <3>3
      <4>2. Cardinality(Newer(j, valid)) <= Cardinality(Newer(j, log))
        BY <3>3, CodesFinite, FS_Subset
      <4>3. QED
        BY <3>3, <3>5, <4>1, <4>2, CodesFinite, AuthAssumption
    <3>7. ~Elapsed(j) /\ j \notin spent
      BY <3>1, <2>2, <1>0, <1>4, <1>12 DEF Elapsed
    <3>8. Cardinality(Newer(j, log)) < MaxPending
      BY <3>3, <3>5, CodesFinite, AuthAssumption
    <3>9. j \in pending
      BY <3>1, <3>7, <3>8 DEF AuthInv, PendingKept
    <3>10. j \in MakeRoom
      BY <3>6, <3>7, <3>9 DEF MakeRoom
    <3>11. QED
      BY <3>10, <1>0
  <2>3. QED
    BY <2>1, <2>2
<1>13. PendingKept'
  BY <1>11, <1>12 DEF PendingKept, Newer
<1>14. QED
  BY <1>3, <1>5, <1>8, <1>9, <1>13 DEF AuthInv

(* A request for a token keeps it: a code that is pending was not          *)
(* presented before.                                                       *)
LEMMA ExchangeInv ==
  ASSUME AuthInv,
         NEW k \in Codes, NEW c \in Clients, NEW u \in Redirects, NEW v \in Verifiers,
         NEW h \in Hosts, NEW m \in Methods, Exchange(k, c, m, u, v, h)
  PROVE  AuthInv'
<1> DEFINE new == [client |-> c, redirect |-> u, verifier |-> v, audience |-> h, left |-> TokenTTL]
<1>1. new \in Tokens /\ new # NoAuth
  BY AuthAssumption DEF Tokens
<1>2. /\ approval[k] # NoAuth
      /\ pending' = pending \ {k} /\ spent' = spent \cup {k}
      /\ UNCHANGED <<client, approval, log>>
  BY DEF Exchange, Pop
<1>3. ASSUME k \in pending, Matches(k, c, u, v, h) PROVE AuthType' /\ CodesUsed' /\ TokensMatch'
  <2>1. /\ token' = [token EXCEPT ![k] = new] /\ minted' = [minted EXCEPT ![k] = @ + 1]
        /\ minted[k] = 0
    BY <1>3 DEF Exchange, AuthInv, CodesUsed
  <2>2. AuthType'
    BY <1>1, <1>2, <2>1 DEF AuthInv, AuthType
  <2>3. CodesUsed'
    BY <1>2, <2>1 DEF AuthInv, AuthType, CodesUsed, Approved
  <2>4. TokensMatch'
    BY <1>1, <1>2, <1>3, <2>1 DEF AuthInv, AuthType, TokensMatch, Matches
  <2>5. QED
    BY <2>2, <2>3, <2>4
<1>4. ASSUME ~(k \in pending /\ Matches(k, c, u, v, h))
      PROVE  AuthType' /\ CodesUsed' /\ TokensMatch'
  BY <1>2, <1>4 DEF Exchange, AuthInv, AuthType, CodesUsed, Approved, TokensMatch
<1>5. Numbered'
  BY <1>2 DEF AuthInv, Numbered
<1>6. PendingKept'
  <2>1. pending \in SUBSET Codes
    BY DEF AuthInv, CodesUsed, Approved
  <2>2. Cardinality(pending') <= Cardinality(pending)
    BY <2>1, <1>2, CodesFinite, FS_Subset
  <2>3. Cardinality(pending') <= MaxPending
    <3>1. pending' \in SUBSET Codes
      BY <2>1, <1>2
    <3>2. QED
      BY <2>1, <2>2, <3>1, CodesFinite, AuthAssumption DEF AuthInv, PendingKept
  <2>4. QED
    BY <2>3, <1>2 DEF AuthInv, PendingKept, Elapsed, Newer
<1>7. QED
  BY <1>3, <1>4, <1>5, <1>6 DEF AuthInv

(* Every step of the provider keeps the inductive invariant. *)
LEMMA AuthStep == AuthInv /\ [AuthNext]_authVars => AuthInv'
<1> SUFFICES ASSUME AuthInv, [AuthNext]_authVars PROVE AuthInv'
  OBVIOUS
<1>1. ASSUME NEW c \in Clients, NEW r \in (SUBSET Redirects) \ {{}}, NEW m \in Methods,
             Register(c, r, m)
      PROVE  AuthInv'
  <2> DEFINE new == [redirects |-> r, method |-> m]
  <2>1. new \in Registrations
    BY DEF Registrations
  <2>2. client' = [client EXCEPT ![c] = new]
        /\ UNCHANGED <<pending, approval, log, spent, token, minted>>
    BY <1>1 DEF Register
  <2> HIDE DEF new
  <2>3. QED
    BY <2>1, <2>2 DEF AuthInv, AuthType, Numbered, CodesUsed, Approved, TokensMatch,
       PendingKept, Elapsed
<1>2. CASE AuthTick
  <2>1. UNCHANGED <<client, pending, log, spent, minted>>
    BY <1>2 DEF AuthTick
  <2>2. ASSUME NEW k \in Codes
        PROVE  /\ approval'[k] \in Approvals \cup {NoAuth}
               /\ (approval'[k] = NoAuth) <=> (approval[k] = NoAuth)
               /\ approval[k] # NoAuth =>
                    /\ approval'[k].client = approval[k].client
                    /\ approval'[k].redirect = approval[k].redirect
                    /\ approval'[k].verifier = approval[k].verifier
                    /\ approval'[k].resource = approval[k].resource
                    /\ approval[k].left < 0 => approval'[k].left < 0
    BY <1>2, AuthAssumption DEF AuthTick, AuthInv, AuthType, Approvals, Elapsed
  <2>3. ASSUME NEW k \in Codes
        PROVE  /\ token'[k] \in Tokens \cup {NoAuth}
               /\ (token'[k] = NoAuth) <=> (token[k] = NoAuth)
               /\ token[k] # NoAuth =>
                    /\ token'[k].client = token[k].client
                    /\ token'[k].redirect = token[k].redirect
                    /\ token'[k].verifier = token[k].verifier
                    /\ token'[k].audience = token[k].audience
    BY <1>2, AuthAssumption DEF AuthTick, AuthInv, AuthType, Tokens
  <2>4. AuthType'
    <3>1. approval' = [k \in Codes |-> approval'[k]] /\ token' = [k \in Codes |-> token'[k]]
      BY <1>2 DEF AuthTick
    <3>2. QED
      BY <2>1, <2>2, <2>3, <3>1 DEF AuthInv, AuthType
  <2>5. Approved' = Approved
    BY <2>2 DEF Approved
  <2>6. Numbered' /\ CodesUsed'
    BY <2>1, <2>5 DEF AuthInv, Numbered, CodesUsed, Approved
  <2>7. TokensMatch'
    BY <2>2, <2>3 DEF AuthInv, TokensMatch
  <2>8. PendingKept'
    <3>1. ASSUME NEW k \in log, ~Elapsed(k)' PROVE ~Elapsed(k)
      BY <2>2, <3>1 DEF AuthInv, CodesUsed, Approved, Elapsed
    <3>2. QED
      BY <2>1, <3>1 DEF AuthInv, PendingKept, Newer
  <2>9. QED
    BY <2>4, <2>6, <2>7, <2>8 DEF AuthInv
<1>3. CASE Restart
  <2>1. UNCHANGED <<approval, spent, minted>> /\ pending' = {} /\ log' = {}
        /\ (token' = token \/ token' = [k \in Codes |-> NoAuth])
        /\ client' = [c \in Clients |-> AtStart(c)]
    BY <1>3 DEF Restart
  <2>2. \A c \in Clients : AtStart(c) \in Registrations \cup {NoAuth}
    BY DEF AtStart, Registrations, Methods
  <2>3. AuthType'
    BY <2>1, <2>2 DEF AuthInv, AuthType
  <2>4. PendingKept'
    BY <2>1, FS_EmptySet, AuthAssumption DEF PendingKept
  <2>5. QED
    BY <2>1, <2>3, <2>4 DEF AuthInv, Numbered, CodesUsed, Approved, TokensMatch
<1>4. CASE UNCHANGED authVars
  BY <1>4 DEF authVars, AuthInv, AuthType, Numbered, CodesUsed, Approved, TokensMatch,
     PendingKept, Elapsed
<1>5. QED
  BY <1>1, <1>2, <1>3, <1>4, AuthorizeInv, ExchangeInv DEF AuthNext

(* What the user approves gives at most one token, for the client, the     *)
(* redirect URI, the verifier and the server that were approved, and a     *)
(* code that was not used keeps its place until it expires or MaxPending   *)
(* newer ones push it out, through restarts too.                           *)
THEOREM GrantsAreHonoured == AuthSpec => []GrantsHonoured
<1>1. AuthInit => AuthInv
  <2> SUFFICES ASSUME AuthInit PROVE AuthInv
    OBVIOUS
  <2>1. AuthType
    BY DEF AuthInit, AuthType, AtStart, Registrations, Methods
  <2>2. Approved = {} /\ Numbered
    BY AuthAssumption DEF AuthInit, Numbered, Approved
  <2>3. CodesUsed /\ TokensMatch
    BY <2>2 DEF AuthInit, CodesUsed, TokensMatch
  <2>4. PendingKept
    BY FS_EmptySet, AuthAssumption DEF AuthInit, PendingKept
  <2>5. QED
    BY <2>1, <2>2, <2>3, <2>4 DEF AuthInv
<1>2. AuthInv => GrantsHonoured
  BY DEF AuthInv, CodesUsed, TokensMatch, GrantsHonoured, GrantsMatchApprovals, Accepts
<1>3. QED
  BY <1>1, <1>2, AuthStep, PTL DEF AuthSpec

-----------------------------------------------------------------------------
(* DesktopSupervisor.  A reference means one process for ever, because     *)
(* creation times are not used twice; and the client's searches find every *)
(* process it started, because it has at most one tunnel and at most one   *)
(* runtime that it has not lost sight of.                                  *)

JobSteps == {"idle", "report", "start", "launch", "wait", "tunnel", "connect", "record",
             "stop", "stopRuntime", "clear"}
JobRecord == [at : JobSteps, run : Reference, popen : Reference, tunnel : Reference]

DeskType ==
  /\ proc \in [Pids -> Process \cup {Vacant}]
  /\ port \in [Configs -> Pids \cup {Vacant}]
  /\ born \in Nat /\ config \in Configs
  /\ session \in Session \cup {Vacant} /\ saved \in StateFile \cup {Vacant}
  /\ job \in JobRecord

(* Processes of today, and the ports they listen on *)
OsSound ==
  /\ \A p \in Live : proc[p].born < born
  /\ \A c \in Configs : port[c] # Vacant =>
       port[c] \in Live /\ (proc[port[c]].kind = "runtime" => proc[port[c]].cfg = c)

(* What a reference is to, while its process lives *)
KnownRef(r) == r \in Reference /\ (r # Vacant => r.born < born)
TunnelRef(r) == KnownRef(r) /\ (HasCreateTime(r) => proc[r.pid].kind = "tunnel")
ChildRef(r) == KnownRef(r) /\ (HasCreateTime(r) => proc[r.pid].kind = "runtime")
RunRef(r) ==
  KnownRef(r) /\ (HasCreateTime(r) => proc[r.pid].kind = "runtime" \/ r.born \in mistaken)

SessionRefs ==
  /\ \A r \in {Held("run")} : RunRef(r)
  /\ \A r \in {Held("popen")} : ChildRef(r)
  /\ \A r \in {Held("tunnel")} : TunnelRef(r)
SavedRefs ==
  /\ \A r \in {Recorded("run")} : RunRef(r)
  /\ \A r \in {Recorded("tunnel")} : TunnelRef(r)
JobRefs ==
  /\ \A r \in {job.run} : KnownRef(r) /\ (job.at \in {"stop", "stopRuntime"} => RunRef(r))
  /\ \A r \in {job.popen} : ChildRef(r)
  /\ \A r \in {job.tunnel} : TunnelRef(r)
RefsSound == SessionRefs /\ SavedRefs /\ JobRefs

JobSound ==
  /\ job.at \in {"idle", "report", "start", "launch"} =>
       job.run = Vacant /\ job.popen = Vacant /\ job.tunnel = Vacant
  /\ job.at = "wait" => job.popen # Vacant
  /\ job.at \in {"tunnel", "connect", "record"} => job.run # Vacant
  /\ job.at \in {"tunnel", "connect"} => config \in Tunnelled
  /\ job.at \in {"stop", "stopRuntime", "clear"} => session = Vacant
  /\ job.at # "idle" => report = "none"

(* Tunnels *)
Tunnels == {p \in Live : proc[p].kind = "tunnel"}
TunnelsSound ==
  /\ \A p \in Tunnels : proc[p].cfg = config /\ config \in Tunnelled
  /\ \A p, q \in Tunnels : p = q
  /\ job.at \in {"launch", "wait", "tunnel", "stopRuntime", "clear"} => Tunnels = {}
  /\ job.at = "stop" => \A p \in Tunnels : job.tunnel = Ref(p)

(* Runtimes that are not abandoned, and what may be taken for one *)
Runtimes == {p \in Live : proc[p].kind = "runtime" /\ proc[p].born \notin abandoned}
Launching == job.at \in {"wait", "tunnel", "connect", "record"} /\ job.popen # Vacant
OfConfig(r) ==
  HasCreateTime(r) /\ proc[r.pid].kind = "runtime" => proc[r.pid].cfg = config
Listening(r) == HasCreateTime(r) => port[config] = r.pid

(* At most one, and the client's searches find it *)
OneRuntime ==
  /\ \A p, q \in Runtimes : p = q
  /\ \A p \in Runtimes :
       /\ proc[p].cfg = config
       /\ port[config] = p \/ Ref(p) = Held("popen") \/ Ref(p) = job.popen

(* What the client holds is of its configuration; when its runtime is not  *)
(* lost, nothing else is held but what listens.                            *)
OwnSound ==
  /\ saved # Vacant => saved.cfg = config
  /\ \A r \in {Held("run"), Held("popen"), Recorded("run")} : OfConfig(r)
  /\ Runtimes # {} => \A r \in {Held("run"), Recorded("run")} : Listening(r)
  /\ \A r \in {Held("popen")} : HasCreateTime(r) => Runtimes \subseteq {r.pid}

(* A start launches its runtime when there is no other. *)
LaunchSound ==
  /\ job.at = "launch" => Runtimes = {}
  /\ Launching => Runtimes \subseteq {job.popen.pid} /\ \A r \in {job.popen} : OfConfig(r)
  /\ Launching \/ job.at = "launch" =>
       \A r \in {Held("run"), Held("popen"), Recorded("run")} : ~HasCreateTime(r)

(* The runtime that a start has found *)
FoundSound ==
  job.at \in {"tunnel", "connect", "record"} => \A r \in {job.run} :
    /\ OfConfig(r)
    /\ r.pid \in Live /\ proc[r.pid].kind = "runtime" => HasCreateTime(r)
    /\ Runtimes # {} => Listening(r) \/ r = Held("popen")

(* What a stop is about to end *)
StopSound ==
  /\ job.at \in {"stop", "stopRuntime"} => \A p \in Runtimes : Ref(p) \in {job.run, job.popen}
  /\ job.at = "clear" => Runtimes = {}

RuntimesSound == OneRuntime /\ OwnSound /\ LaunchSound /\ FoundSound /\ StopSound
Unmistaken == mistaken = {} => RuntimesSound

ClientInv == DeskType /\ OsSound /\ RefsSound /\ JobSound /\ SparesOthers
DeskInv == ClientInv /\ TunnelsSound /\ Unmistaken /\ StopLeavesNothing

LEMMA NotVacant ==
  /\ Vacant \notin Pids /\ Vacant \notin Process /\ Vacant \notin Session
  /\ Vacant \notin StateFile /\ Vacant \notin [pid : Pids, born : Nat] /\ Vacant \in Reference
BY DesktopAssumption DEF Reference

(* The parts of the session and of the state file *)
LEMMA PartsOf ==
  ASSUME DeskType
  PROVE  /\ Held("run") \in Reference /\ Held("popen") \in Reference
         /\ Held("tunnel") \in Reference
         /\ Recorded("run") \in Reference /\ Recorded("tunnel") \in Reference
         /\ job.run \in Reference /\ job.popen \in Reference /\ job.tunnel \in Reference
BY NotVacant DEF DeskType, Held, Recorded, Session, StateFile, JobRecord

(* A reference and the process it is to *)
LEMMA RefMeans ==
  ASSUME DeskType, NEW r \in Reference
  PROVE  /\ HasCreateTime(r) <=> r # Vacant /\ r.pid \in Live /\ proc[r.pid].born = r.born
         /\ HasCreateTime(r) => r = Ref(r.pid)
         /\ r # Vacant => r.pid \in Pids /\ r.born \in Nat
<1>1. CASE r = Vacant
  BY <1>1 DEF HasCreateTime
<1>2. CASE r # Vacant
  <2>1. r \in [pid : Pids, born : Nat]
    BY <1>2 DEF Reference
  <2>2. r.pid \in Live => [pid |-> r.pid, born |-> proc[r.pid].born] # Vacant
    BY NotVacant DEF DeskType, Live, Process
  <2>3. HasCreateTime(r) <=> Ref(r.pid) = r
    BY <1>2 DEF HasCreateTime
  <2> QED  BY <1>2, <2>1, <2>2, <2>3 DEF Ref
<1> QED  BY <1>1, <1>2

LEMMA LiveRef ==
  ASSUME DeskType, NEW p \in Live
  PROVE  /\ Ref(p) \in Reference /\ Ref(p) # Vacant /\ Ref(p).pid = p
         /\ Ref(p).born = proc[p].born /\ HasCreateTime(Ref(p)) /\ p \in Pids
         /\ proc[p] \in Process
<1>1. proc[p] \in Process /\ p \in Pids
  BY DEF DeskType, Live
<1>2. Ref(p) = [pid |-> p, born |-> proc[p].born] /\ Ref(p) \in [pid : Pids, born : Nat]
  BY <1>1 DEF Ref, Process
<1>3. Ref(p) # Vacant
  BY <1>2, NotVacant
<1> QED  BY <1>1, <1>2, <1>3 DEF Reference, HasCreateTime

(* FirstFound: the first candidate that there is *)
LEMMA FirstIs ==
  ASSUME NEW s, DOMAIN s \subseteq Nat, NEW k \in DOMAIN s, s[k] # Vacant,
         \A j \in DOMAIN s : j < k => s[j] = Vacant
  PROVE  FirstFound(s) = s[k]
<1>1. PICK F : F = {i \in DOMAIN s : s[i] # Vacant}
  OBVIOUS
<1>2. k \in F /\ \A j \in F : k <= j
  BY <1>1
<1>3. \A i \in F : (\A j \in F : i <= j) => i = k
  BY <1>1, <1>2
<1>4. (CHOOSE i \in F : \A j \in F : i <= j) = k
  BY <1>2, <1>3, Zenon
<1>5. FirstFound(s) = IF F = {} THEN Vacant ELSE s[CHOOSE i \in F : \A j \in F : i <= j]
  BY <1>1 DEF FirstFound
<1> QED  BY <1>2, <1>4, <1>5

LEMMA NoneFound ==
  ASSUME NEW s, \A j \in DOMAIN s : s[j] = Vacant
  PROVE  FirstFound(s) = Vacant
<1>1. {i \in DOMAIN s : s[i] # Vacant} = {}
  OBVIOUS
<1> QED  BY <1>1 DEF FirstFound

LEMMA FirstOfFour ==
  ASSUME NEW a, NEW b, NEW c, NEW d
  PROVE  FirstFound(<<a, b, c, d>>) =
           IF a # Vacant THEN a ELSE IF b # Vacant THEN b ELSE IF c # Vacant THEN c ELSE d
<1>1. PICK s : s = <<a, b, c, d>>
  OBVIOUS
<1>2. DOMAIN s = {1, 2, 3, 4} /\ s[1] = a /\ s[2] = b /\ s[3] = c /\ s[4] = d
  BY <1>1
<1>3. DOMAIN s \subseteq Nat
  BY <1>2
<1>4. CASE a # Vacant
  BY <1>1, <1>2, <1>3, <1>4, FirstIs
<1>5. CASE a = Vacant /\ b # Vacant
  BY <1>1, <1>2, <1>3, <1>5, FirstIs
<1>6. CASE a = Vacant /\ b = Vacant /\ c # Vacant
  BY <1>1, <1>2, <1>3, <1>6, FirstIs
<1>7. CASE a = Vacant /\ b = Vacant /\ c = Vacant /\ d # Vacant
  BY <1>1, <1>2, <1>3, <1>7, FirstIs
<1>8. CASE a = Vacant /\ b = Vacant /\ c = Vacant /\ d = Vacant
  BY <1>1, <1>2, <1>8, NoneFound
<1> QED  BY <1>4, <1>5, <1>6, <1>7, <1>8

LEMMA FirstOfThree ==
  ASSUME NEW a, NEW b, NEW c
  PROVE  FirstFound(<<a, b, c>>) = IF a # Vacant THEN a ELSE IF b # Vacant THEN b ELSE c
<1>1. PICK s : s = <<a, b, c>>
  OBVIOUS
<1>2. DOMAIN s = {1, 2, 3} /\ s[1] = a /\ s[2] = b /\ s[3] = c
  BY <1>1
<1>3. DOMAIN s \subseteq Nat
  BY <1>2
<1>4. CASE a # Vacant
  BY <1>1, <1>2, <1>3, <1>4, FirstIs
<1>5. CASE a = Vacant /\ b # Vacant
  BY <1>1, <1>2, <1>3, <1>5, FirstIs
<1>6. CASE a = Vacant /\ b = Vacant /\ c # Vacant
  BY <1>1, <1>2, <1>3, <1>6, FirstIs
<1>7. CASE a = Vacant /\ b = Vacant /\ c = Vacant
  BY <1>1, <1>2, <1>7, NoneFound
<1> QED  BY <1>4, <1>5, <1>6, <1>7

LEMMA FirstOfTwo ==
  ASSUME NEW a, NEW b
  PROVE  FirstFound(<<a, b>>) = IF a # Vacant THEN a ELSE b
<1>1. PICK s : s = <<a, b>>
  OBVIOUS
<1>2. DOMAIN s = {1, 2} /\ s[1] = a /\ s[2] = b
  BY <1>1
<1>3. DOMAIN s \subseteq Nat
  BY <1>2
<1>4. CASE a # Vacant
  BY <1>1, <1>2, <1>3, <1>4, FirstIs
<1>5. CASE a = Vacant /\ b # Vacant
  BY <1>1, <1>2, <1>3, <1>5, FirstIs
<1>6. CASE a = Vacant /\ b = Vacant
  BY <1>1, <1>2, <1>6, NoneFound
<1> QED  BY <1>4, <1>5, <1>6

(* What the searches find is what they look for, and is there. *)
LEMMA RuntimeFoundIs ==
  ASSUME DeskType
  PROVE  /\ FindRuntime # Vacant => MatchesRuntime(FindRuntime, config)
         /\ FindRuntime = Vacant =>
              /\ ~MatchesRuntime(Held("run"), config) /\ ~MatchesRuntime(Held("popen"), config)
              /\ ~MatchesRuntime(Ref(port[config]), config)
              /\ ~MatchesRuntime(Recorded("run"), config)
         /\ FindStateRuntime # Vacant =>
              saved # Vacant /\ FindStateRuntime = Recorded("run")
              /\ MatchesRuntime(Recorded("run"), saved.cfg)
         /\ FindStateRuntime = Vacant /\ saved # Vacant =>
              ~MatchesRuntime(Recorded("run"), saved.cfg)
         /\ FindRuntime \in {Held("run"), Held("popen"), Ref(port[config]), Recorded("run"), Vacant}
<1>1. PICK a, b, c, d : /\ a = Only(Held("run"), MatchesRuntime(Held("run"), config))
                        /\ b = Only(Held("popen"), MatchesRuntime(Held("popen"), config))
                        /\ c = Only(Ref(port[config]), MatchesRuntime(Ref(port[config]), config))
                        /\ d = Only(Recorded("run"), MatchesRuntime(Recorded("run"), config))
  OBVIOUS
<1>2. FindRuntime = FirstFound(<<a, b, c, d>>)
  BY <1>1 DEF FindRuntime
<1>3. FindRuntime =
        IF a # Vacant THEN a ELSE IF b # Vacant THEN b ELSE IF c # Vacant THEN c ELSE d
  BY <1>2, FirstOfFour
<1>4. \A r, x : MatchesRuntime(r, x) => r # Vacant
  BY DEF MatchesRuntime, HasCreateTime
<1>5. FindStateRuntime = Only(Recorded("run"),
        saved # Vacant /\ MatchesRuntime(Recorded("run"), saved.cfg))
  BY DEF FindStateRuntime
<1> QED  BY <1>1, <1>3, <1>4, <1>5 DEF Only

LEMMA TunnelFoundIs ==
  ASSUME DeskType, RefsSound
  PROVE  /\ FindTunnel # Vacant =>
              HasCreateTime(FindTunnel) /\ FindTunnel \in Reference
              /\ proc[FindTunnel.pid].kind = "tunnel"
         /\ FindTunnel = Vacant /\ config \in Tunnelled =>
              \A p \in Tunnels : proc[p].cfg # config
         /\ FindStateTunnel # Vacant =>
              HasCreateTime(FindStateTunnel) /\ FindStateTunnel \in Reference
              /\ proc[FindStateTunnel.pid].kind = "tunnel"
<1>1. PICK T : T = {p \in Live : MatchesTunnel(Ref(p), config)}
  OBVIOUS
<1>2. PICK a, b, c :
        /\ a = Only(Held("tunnel"), HasCreateTime(Held("tunnel")))
        /\ b = Only(Recorded("tunnel"), MatchesTunnel(Recorded("tunnel"), config))
        /\ c = IF config \in Tunnelled /\ T # {} THEN Ref(CHOOSE p \in T : TRUE) ELSE Vacant
  OBVIOUS
<1>3. FindTunnel = FirstFound(<<a, b, c>>)
  BY <1>1, <1>2 DEF FindTunnel
<1>4. FindTunnel = IF a # Vacant THEN a ELSE IF b # Vacant THEN b ELSE c
  BY <1>3, FirstOfThree
<1>5. a # Vacant => HasCreateTime(a) /\ a \in Reference /\ proc[a.pid].kind = "tunnel"
  BY <1>2 DEF Only, RefsSound, SessionRefs, TunnelRef, KnownRef
<1>6. b # Vacant => HasCreateTime(b) /\ b \in Reference /\ proc[b.pid].kind = "tunnel"
  BY <1>2, PartsOf DEF Only, MatchesTunnel
<1>7. c # Vacant => HasCreateTime(c) /\ c \in Reference /\ proc[c.pid].kind = "tunnel"
  <2> SUFFICES ASSUME c # Vacant
               PROVE  HasCreateTime(c) /\ c \in Reference /\ proc[c.pid].kind = "tunnel"
    OBVIOUS
  <2>1. PICK p : p = CHOOSE q \in T : TRUE
    OBVIOUS
  <2>2. T # {} /\ c = Ref(p)
    BY <1>2, <2>1
  <2>3. p \in T
    BY <2>1, <2>2, Zenon
  <2>4. p \in Live /\ MatchesTunnel(Ref(p), config)
    BY <1>1, <2>3
  <2> QED  BY <2>2, <2>4, LiveRef DEF MatchesTunnel
<1>8. ASSUME FindTunnel = Vacant, config \in Tunnelled, NEW p \in Tunnels
      PROVE  proc[p].cfg # config
  <2>1. p \in Live /\ proc[p].kind = "tunnel"
    BY DEF Tunnels
  <2>2. Ref(p).pid = p /\ HasCreateTime(Ref(p))
    BY <2>1, LiveRef
  <2>3. T = {}
    <3>1. c = Vacant
      BY <1>4, <1>8
    <3>2. ASSUME T # {} PROVE FALSE
      <4>1. PICK q : q = CHOOSE x \in T : TRUE
        OBVIOUS
      <4>2. q \in T
        BY <3>2, <4>1, Zenon
      <4>3. Ref(q) = Vacant
        BY <1>2, <1>8, <3>1, <3>2, <4>1
      <4>4. q \in Live
        BY <1>1, <4>2
      <4> QED  BY <4>3, <4>4, LiveRef
    <3> QED  BY <3>2
  <2> QED  BY <1>1, <2>1, <2>2, <2>3 DEF MatchesTunnel
<1>9. FindStateTunnel # Vacant =>
        HasCreateTime(FindStateTunnel) /\ FindStateTunnel \in Reference
        /\ proc[FindStateTunnel.pid].kind = "tunnel"
  BY PartsOf DEF FindStateTunnel, Only, MatchesTunnel
<1> QED  BY <1>4, <1>5, <1>6, <1>7, <1>8, <1>9

(* A step of the processes after which references mean what they meant *)
OsType ==
  /\ proc \in [Pids -> Process \cup {Vacant}] /\ port \in [Configs -> Pids \cup {Vacant}]
  /\ born \in Nat
Steady ==
  /\ OsType' /\ OsSound' /\ born <= born'
  /\ \A r : KnownRef(r) /\ HasCreateTime(r)' => HasCreateTime(r) /\ proc'[r.pid] = proc[r.pid]

(* Processes end, and their ports are free. *)
OnlyEnds ==
  /\ Steady /\ Live' \subseteq Live /\ born' = born
  /\ \A p \in Live' : proc'[p] = proc[p] /\ Ref(p)' = Ref(p)
  /\ \A c \in Configs : port'[c] = IF port[c] \in Live' THEN port[c] ELSE Vacant
  /\ \A r : KnownRef(r) /\ HasCreateTime(r) /\ r.pid \in Live' => HasCreateTime(r)'

LEMMA RolesStay ==
  ASSUME Steady, mistaken \subseteq mistaken', DeskType
  PROVE  \A r : /\ KnownRef(r) => KnownRef(r)'
                /\ TunnelRef(r) => TunnelRef(r)'
                /\ ChildRef(r) => ChildRef(r)'
                /\ RunRef(r) => RunRef(r)'
<1>1. \A r : KnownRef(r) => KnownRef(r)'
  <2> SUFFICES ASSUME NEW r, KnownRef(r) PROVE KnownRef(r)'
    OBVIOUS
  <2>1. r # Vacant => r.born \in Nat
    BY RefMeans DEF KnownRef
  <2> QED  BY <2>1 DEF KnownRef, Steady, OsType, DeskType
<1> QED  BY <1>1 DEF TunnelRef, ChildRef, RunRef, Steady

LEMMA EndsOf ==
  ASSUME DeskType, OsSound, NEW D \in SUBSET Live, UNCHANGED born,
         proc' = [p \in Pids |-> IF p \in D THEN Vacant ELSE proc[p]],
         port' = [c \in Configs |-> IF port[c] \in D THEN Vacant ELSE port[c]]
  PROVE  OnlyEnds /\ Live' = Live \ D
<1>1. /\ OsType' /\ Live' = Live \ D
      /\ \A p \in Live' : p \in Live /\ proc'[p] = proc[p]
  BY DEF OsType, DeskType, Live
<1>2. \A p \in Live' : Ref(p)' = Ref(p)
  BY <1>1 DEF Ref
<1>3. \A c \in Configs : port'[c] = IF port[c] \in Live' THEN port[c] ELSE Vacant
  BY <1>1 DEF OsSound, DeskType
<1>4. OsSound'
  BY <1>1, <1>3, NotVacant DEF OsSound, OsType, DeskType
<1>5. ASSUME NEW r, KnownRef(r), HasCreateTime(r)'
      PROVE  HasCreateTime(r) /\ proc'[r.pid] = proc[r.pid]
  <2>1. r # Vacant /\ Ref(r.pid)' = r
    BY <1>5 DEF HasCreateTime
  <2>2. r.pid \in Live'
    BY <2>1 DEF Ref
  <2> QED  BY <1>1, <1>2, <2>1, <2>2 DEF HasCreateTime
<1>6. ASSUME NEW r, KnownRef(r), HasCreateTime(r), r.pid \in Live' PROVE HasCreateTime(r)'
  BY <1>2, <1>6 DEF HasCreateTime
<1>7. Steady
  BY <1>1, <1>4, <1>5 DEF Steady, DeskType
<1> QED  BY <1>1, <1>2, <1>3, <1>6, <1>7 DEF OnlyEnds

LEMMA NothingEnds ==
  ASSUME DeskType, OsSound, UNCHANGED osVars
  PROVE  OnlyEnds /\ Live' = Live
<1>1. UNCHANGED <<proc, port, born>>
  BY DEF osVars
<1>2. PICK D \in SUBSET Live : D = {}
  OBVIOUS
<1>3. proc' = [p \in Pids |-> IF p \in D THEN Vacant ELSE proc[p]]
  BY <1>1, <1>2 DEF DeskType
<1>4. port' = [c \in Configs |-> IF port[c] \in D THEN Vacant ELSE port[c]]
  BY <1>1, <1>2 DEF DeskType
<1>5. OnlyEnds /\ Live' = Live \ D
  BY <1>1, <1>3, <1>4, EndsOf
<1> QED  BY <1>2, <1>5

(* _terminate_process_tree *)
LEMMA TerminateEnds ==
  ASSUME DeskType, OsSound, SparesOthers, NEW R, Terminate(R), mistaken \subseteq mistaken',
         \A r \in R : r \in Reference /\
           (HasCreateTime(r) /\ proc[r.pid].kind = "other" => r.born \in mistaken')
  PROVE  /\ OnlyEnds /\ SparesOthers'
         /\ \A r \in R : ~HasCreateTime(r)' /\ (HasCreateTime(r) => r.pid \notin Live')
         /\ \A p \in Live \ Live' : \E r \in R : HasCreateTime(r) /\ r.pid = p
<1>1. PICK D : D = {p \in Live : \E r \in R : HasCreateTime(r) /\ r.pid = p}
  OBVIOUS
<1>2. /\ proc' = [p \in Pids |-> IF p \in D THEN Vacant ELSE proc[p]]
      /\ port' = [c \in Configs |-> IF port[c] \in D THEN Vacant ELSE port[c]]
      /\ wronged' = wronged \cup {proc[p].born : p \in {q \in D : proc[q].kind = "other"}}
      /\ UNCHANGED born
  BY <1>1 DEF Terminate
<1>3. OnlyEnds /\ Live' = Live \ D
  BY <1>1, <1>2, EndsOf
<1>4. ASSUME NEW r \in R, HasCreateTime(r) PROVE r.pid \in D /\ r.pid \notin Live'
  <2>1. r.pid \in Live
    BY <1>4, RefMeans
  <2> QED  BY <1>1, <1>3, <1>4, <2>1
<1>5. ASSUME NEW r \in R, HasCreateTime(r)' PROVE FALSE
  <2>1. r # Vacant /\ Ref(r.pid)' = r
    BY <1>5 DEF HasCreateTime
  <2>2. r.pid \in Live'
    BY <2>1 DEF Ref
  <2>3. Ref(r.pid)' = Ref(r.pid)
    BY <1>3, <2>2 DEF OnlyEnds
  <2> QED  BY <1>4, <2>1, <2>2, <2>3 DEF HasCreateTime
<1>6. ASSUME NEW p \in D, proc[p].kind = "other" PROVE proc[p].born \in mistaken'
  <2>1. PICK r \in R : HasCreateTime(r) /\ r.pid = p
    BY <1>1
  <2>2. r.born = proc[p].born
    BY <2>1, RefMeans
  <2> QED  BY <1>6, <2>1, <2>2
<1>7. SparesOthers'
  BY <1>2, <1>6 DEF SparesOthers
<1>8. \A p \in Live \ Live' : \E r \in R : HasCreateTime(r) /\ r.pid = p
  BY <1>1, <1>3
<1> QED  BY <1>3, <1>4, <1>5, <1>7, <1>8

(* A new process *)
LEMMA SpawnStarts ==
  ASSUME DeskType, OsSound, NEW p, NEW kind \in {"runtime", "tunnel", "other"}, Spawn(p, kind),
         \/ port' = port
         \/ kind = "other" /\ \E c \in Configs : port[c] = Vacant
                                /\ port' = [port EXCEPT ![c] = p]
  PROVE  /\ Steady /\ p \in Pids \ Live /\ Live' = Live \cup {p} /\ born' = born + 1
         /\ \A q \in Live : proc'[q] = proc[q] /\ Ref(q)' = Ref(q)
         /\ proc'[p].kind = kind /\ proc'[p].cfg = config /\ proc'[p].born = born
         /\ Ref(p)' = [pid |-> p, born |-> born]
         /\ \A r : KnownRef(r) /\ HasCreateTime(r) => HasCreateTime(r)'
         /\ \A c \in Configs : port[c] # Vacant => port'[c] = port[c]
<1>1. PICK x : x = [kind |-> kind, cfg |-> config, born |-> born]
  OBVIOUS
<1>2. x \in Process /\ x.kind = kind /\ x.cfg = config /\ x.born = born /\ x # Vacant
  BY <1>1, NotVacant DEF DeskType, Process
<1>3. p \in Pids \ Live /\ born' = born + 1 /\ proc' = [proc EXCEPT ![p] = x]
  BY <1>1 DEF Spawn
<1>4. /\ proc' \in [Pids -> Process \cup {Vacant}] /\ proc'[p] = x
      /\ \A q \in Live : proc'[q] = proc[q]
  BY <1>2, <1>3 DEF DeskType, Live
<1>5. Live' = Live \cup {p}
  BY <1>2, <1>3 DEF DeskType, Live
<1>6. /\ port' \in [Configs -> Pids \cup {Vacant}]
      /\ \A c \in Configs : port[c] # Vacant => port'[c] = port[c]
      /\ \A c \in Configs : port'[c] = port[c] \/ (kind = "other" /\ port'[c] = p)
  BY <1>3 DEF DeskType
<1>7. OsType'
  BY <1>3, <1>4, <1>6 DEF OsType, DeskType
<1>8. /\ \A q \in Live : Ref(q)' = Ref(q)
      /\ Ref(p)' = [pid |-> p, born |-> born]
  BY <1>2, <1>4, <1>5 DEF Ref
<1>9. OsSound'
  <2>1. \A q \in Live' : proc'[q].born < born'
    BY <1>2, <1>3, <1>4, <1>5 DEF OsSound, DeskType, Process, Live
  <2>2. \A c \in Configs : port'[c] # Vacant => port'[c] \in Live' /\
          (proc'[port'[c]].kind = "runtime" => proc'[port'[c]].cfg = c)
    BY <1>2, <1>4, <1>5, <1>6 DEF OsSound
  <2> QED  BY <2>1, <2>2 DEF OsSound
<1>10. ASSUME NEW r, KnownRef(r), HasCreateTime(r)'
       PROVE  HasCreateTime(r) /\ proc'[r.pid] = proc[r.pid]
  <2>1. r # Vacant /\ Ref(r.pid)' = r /\ r.born < born
    BY <1>10 DEF HasCreateTime, KnownRef
  <2>2. r.pid \in Live'
    BY <2>1 DEF Ref
  <2>3. r.pid # p
    BY <1>8, <2>1 DEF DeskType
  <2> QED  BY <1>4, <1>5, <1>8, <2>1, <2>2, <2>3 DEF HasCreateTime
<1>11. ASSUME NEW r, KnownRef(r), HasCreateTime(r) PROVE HasCreateTime(r)'
  <2>1. r \in Reference
    BY <1>11 DEF KnownRef
  <2>2. r # Vacant /\ r.pid \in Live /\ r = Ref(r.pid)
    BY <1>11, <2>1, RefMeans
  <2> QED  BY <1>8, <2>2 DEF HasCreateTime
<1>12. Steady
  BY <1>3, <1>7, <1>9, <1>10 DEF Steady, DeskType
<1> QED  BY <1>2, <1>3, <1>4, <1>5, <1>6, <1>8, <1>11, <1>12

LEMMA VacantRef ==
  KnownRef(Vacant)' /\ TunnelRef(Vacant)' /\ ChildRef(Vacant)' /\ RunRef(Vacant)'
BY NotVacant DEF KnownRef, TunnelRef, ChildRef, RunRef, HasCreateTime

(* What the client holds stays, or is forgotten. *)
LEMMA SessionStays ==
  ASSUME ClientInv, Steady, mistaken \subseteq mistaken', session' = session \/ session' = Vacant
  PROVE  SessionRefs' /\ session' \in Session \cup {Vacant}
<1>1. \A x : Held(x)' = Held(x) \/ Held(x)' = Vacant
  BY DEF Held
<1>2. SessionRefs /\ DeskType
  BY DEF ClientInv, RefsSound
<1>3. SessionRefs'
  BY <1>1, <1>2, RolesStay, VacantRef DEF SessionRefs
<1> QED  BY <1>2, <1>3 DEF DeskType

LEMMA SavedStays ==
  ASSUME ClientInv, Steady, mistaken \subseteq mistaken', saved' = saved \/ saved' = Vacant
  PROVE  SavedRefs' /\ saved' \in StateFile \cup {Vacant}
<1>1. \A x : Recorded(x)' = Recorded(x) \/ Recorded(x)' = Vacant
  BY DEF Recorded
<1>2. SavedRefs /\ DeskType
  BY DEF ClientInv, RefsSound
<1>3. SavedRefs'
  BY <1>1, <1>2, RolesStay, VacantRef DEF SavedRefs
<1> QED  BY <1>2, <1>3 DEF DeskType

LEMMA JobStays ==
  ASSUME ClientInv, Steady, mistaken \subseteq mistaken',
         job'.run \in {job.run, Vacant}, job'.popen \in {job.popen, Vacant},
         job'.tunnel \in {job.tunnel, Vacant},
         job'.at \in {"stop", "stopRuntime"} => job.at \in {"stop", "stopRuntime"}
  PROVE  JobRefs'
<1>1. JobRefs /\ DeskType
  BY DEF ClientInv, RefsSound
<1> QED  BY <1>1, RolesStay, VacantRef DEF JobRefs

LEMMA ClientMoves ==
  ASSUME ClientInv, Steady, mistaken \subseteq mistaken', SparesOthers', config' \in Configs,
         SessionRefs', session' \in Session \cup {Vacant},
         SavedRefs', saved' \in StateFile \cup {Vacant},
         JobRefs', job' \in JobRecord, JobSound'
  PROVE  ClientInv'
BY DEF ClientInv, RefsSound, DeskType, Steady, OsType

LEMMA JobAtIs ==
  ASSUME DeskType, NEW s \in JobSteps, JobAt(s)
  PROVE  /\ job' \in JobRecord /\ job'.at = s /\ job'.run = job.run
         /\ job'.popen = job.popen /\ job'.tunnel = job.tunnel
BY DEF JobAt, DeskType, JobRecord

LEMMA JobEnds ==
  /\ NoJob \in JobRecord /\ NoJob.at = "idle"
  /\ NoJob.run = Vacant /\ NoJob.popen = Vacant /\ NoJob.tunnel = Vacant
BY NotVacant DEF NoJob, JobRecord, JobSteps

LEMMA RaisesIs ==
  ASSUME Raises
  PROVE  /\ job' \in JobRecord /\ job'.at = "report" /\ job'.run = Vacant
         /\ job'.popen = Vacant /\ job'.tunnel = Vacant /\ report' = "none"
<1>1. PICK j : j = [NoJob EXCEPT !.at = "report"]
  OBVIOUS
<1>2. /\ j \in JobRecord /\ j.at = "report" /\ j.run = Vacant
      /\ j.popen = Vacant /\ j.tunnel = Vacant
  BY <1>1, NotVacant DEF NoJob, JobRecord, JobSteps
<1> QED  BY <1>1, <1>2 DEF Raises

(* status, whose only victim is the tunnel it finds *)
LEMMA StatusEnds ==
  ASSUME ClientInv, Status, UNCHANGED mistaken
  PROVE  /\ OnlyEnds /\ SparesOthers' /\ (saved' = saved \/ saved' = Vacant)
         /\ NothingRuns => saved' = Vacant /\ Terminate({FindTunnel})
         /\ ~NothingRuns => UNCHANGED <<osVars, saved>>
<1>1. DeskType /\ OsSound /\ SparesOthers /\ RefsSound
  BY DEF ClientInv
<1>2. CASE NothingRuns
  <2>1. Terminate({FindTunnel}) /\ saved' = Vacant
    BY <1>2 DEF Status
  <2>2. FindTunnel \in Reference /\ (HasCreateTime(FindTunnel) =>
          proc[FindTunnel.pid].kind = "tunnel")
    BY <1>1, TunnelFoundIs, NotVacant DEF HasCreateTime
  <2>3. OnlyEnds /\ SparesOthers'
    BY <1>1, <2>1, <2>2, TerminateEnds
  <2> QED  BY <1>2, <2>1, <2>3
<1>3. CASE ~NothingRuns
  <2>1. UNCHANGED <<osVars, wronged, saved>>
    BY <1>3 DEF Status
  <2>2. OnlyEnds
    BY <1>1, <2>1, NothingEnds
  <2> QED  BY <1>1, <1>3, <2>1, <2>2 DEF SparesOthers
<1> QED  BY <1>2, <1>3

(* Tunnels when processes only end *)
LEMMA TunnelsKeep ==
  ASSUME DeskInv, OnlyEnds, config' = config \/ Tunnels' = {},
         job'.at \in {"launch", "wait", "tunnel", "stopRuntime", "clear"} => Tunnels' = {},
         job'.at = "stop" => \A p \in Tunnels' : job'.tunnel = Ref(p)
  PROVE  TunnelsSound' /\ Tunnels' \subseteq Tunnels
<1>1. Tunnels' \subseteq Tunnels /\ \A p \in Tunnels' : proc'[p] = proc[p] /\ Ref(p)' = Ref(p)
  BY DEF Tunnels, OnlyEnds
<1> QED  BY <1>1 DEF DeskInv, TunnelsSound

(* Runtimes when processes only end *)
LEMMA RuntimesShrink ==
  ASSUME DeskInv, OnlyEnds, abandoned \subseteq abandoned'
  PROVE  /\ Runtimes' \subseteq Runtimes
         /\ \A p \in Runtimes' : p \in Live' /\ proc'[p] = proc[p] /\ Ref(p)' = Ref(p)
BY DEF Runtimes, OnlyEnds

LEMMA HoldsKeep ==
  ASSUME DeskInv, mistaken = {}, OnlyEnds, abandoned \subseteq abandoned', config' = config,
         session' = session \/ session' = Vacant, saved' = saved \/ saved' = Vacant
  PROVE  OwnSound'
<1>1. OwnSound /\ DeskType /\ RefsSound
  BY DEF DeskInv, ClientInv, Unmistaken, RuntimesSound
<1>2. \A x : (Held(x)' = Held(x) \/ Held(x)' = Vacant)
             /\ (Recorded(x)' = Recorded(x) \/ Recorded(x)' = Vacant)
  BY DEF Held, Recorded
<1>3. ~HasCreateTime(Vacant)'
  BY DEF HasCreateTime
<1>4. \A r \in {Held("run"), Held("popen"), Recorded("run")} : KnownRef(r)
  BY <1>1 DEF RefsSound, SessionRefs, SavedRefs, RunRef, ChildRef
<1>5. \A r \in {Held("run"), Held("popen"), Recorded("run")} : HasCreateTime(r)' =>
        HasCreateTime(r) /\ proc'[r.pid] = proc[r.pid] /\ r.pid \in Live'
  <2> SUFFICES ASSUME NEW r \in {Held("run"), Held("popen"), Recorded("run")}, HasCreateTime(r)'
               PROVE  HasCreateTime(r) /\ proc'[r.pid] = proc[r.pid] /\ r.pid \in Live'
    OBVIOUS
  <2>1. HasCreateTime(r) /\ proc'[r.pid] = proc[r.pid]
    BY <1>4 DEF OnlyEnds, Steady
  <2>2. r # Vacant /\ Ref(r.pid)' = r
    BY DEF HasCreateTime
  <2> QED  BY <2>1, <2>2 DEF Ref
<1>6. Runtimes' \subseteq Runtimes
  BY RuntimesShrink
<1>7. \A r \in {Held("run"), Held("popen"), Recorded("run")} :
        (OfConfig(r) => OfConfig(r)') /\ (Listening(r) => Listening(r)')
  BY <1>1, <1>5 DEF OfConfig, Listening, OnlyEnds, DeskType
<1>8. OfConfig(Vacant)' /\ Listening(Vacant)'
  BY <1>3 DEF OfConfig, Listening
<1>9. saved' # Vacant => saved'.cfg = config'
  BY <1>1 DEF OwnSound
<1>10. \A r \in {Held("run")', Held("popen")', Recorded("run")'} : OfConfig(r)'
  BY <1>1, <1>2, <1>7, <1>8 DEF OwnSound
<1>11. Runtimes' # {} => \A r \in {Held("run")', Recorded("run")'} : Listening(r)'
  BY <1>1, <1>2, <1>6, <1>7, <1>8 DEF OwnSound
<1>12. \A r \in {Held("popen")'} : HasCreateTime(r)' => Runtimes' \subseteq {r.pid}
  BY <1>1, <1>2, <1>3, <1>5, <1>6 DEF OwnSound
<1> QED  BY <1>9, <1>10, <1>11, <1>12 DEF OwnSound

(* The runtime a start has found, while nothing of it changes *)
LEMMA FoundKeeps ==
  ASSUME DeskInv, mistaken = {}, OnlyEnds, abandoned \subseteq abandoned',
         UNCHANGED <<config, session>>,
         job.at \in {"tunnel", "connect", "record"}, job'.run = job.run
  PROVE  FoundSound'
<1>1. FoundSound /\ DeskType /\ JobRefs /\ JobSound
  BY DEF DeskInv, ClientInv, RefsSound, Unmistaken, RuntimesSound
<1>2. PICK r : r = job.run
  OBVIOUS
<1>3. KnownRef(r) /\ r # Vacant
  BY <1>1, <1>2 DEF JobRefs, JobSound
<1>4. Held("popen")' = Held("popen") /\ Runtimes' \subseteq Runtimes
  BY RuntimesShrink DEF Held
<1>5. HasCreateTime(r)' => HasCreateTime(r) /\ proc'[r.pid] = proc[r.pid] /\ r.pid \in Live'
  <2> SUFFICES ASSUME HasCreateTime(r)'
               PROVE  HasCreateTime(r) /\ proc'[r.pid] = proc[r.pid] /\ r.pid \in Live'
    OBVIOUS
  <2>1. HasCreateTime(r) /\ proc'[r.pid] = proc[r.pid]
    BY <1>3 DEF OnlyEnds, Steady
  <2>2. Ref(r.pid)' = r
    BY <1>3 DEF HasCreateTime
  <2> QED  BY <1>3, <2>1, <2>2 DEF Ref
<1>6. OfConfig(r)' /\ (Listening(r) => Listening(r)')
  BY <1>1, <1>2, <1>5 DEF FoundSound, OfConfig, Listening, OnlyEnds, DeskType
<1>7. r.pid \in Live' /\ proc'[r.pid].kind = "runtime" => HasCreateTime(r)'
  BY <1>1, <1>2, <1>3 DEF FoundSound, OnlyEnds
<1> QED  BY <1>1, <1>2, <1>4, <1>6, <1>7 DEF FoundSound

LEMMA RuntimesKeep ==
  ASSUME DeskInv, mistaken = {}, OnlyEnds, abandoned \subseteq abandoned', config' = config,
         session' = session \/ session' = Vacant, saved' = saved \/ saved' = Vacant,
         \A p \in Runtimes' :
           port[config] = p \/ Ref(p) = Held("popen")' \/ Ref(p) = job'.popen,
         Launching' => Launching /\ job'.popen = job.popen,
         job'.at = "launch" => job.at = "launch" \/ (Runtimes = {} /\
           \A r \in {Held("run"), Held("popen"), Recorded("run")} : ~HasCreateTime(r)),
         FoundSound',
         job'.at \in {"stop", "stopRuntime"} =>
           job.at \in {"stop", "stopRuntime"} /\ job'.run = job.run /\ job'.popen = job.popen,
         job'.at = "clear" => Runtimes' = {}
  PROVE  RuntimesSound'
<1>1. RuntimesSound /\ RefsSound /\ DeskType
  BY DEF DeskInv, ClientInv, Unmistaken
<1>2. /\ Runtimes' \subseteq Runtimes
      /\ \A p \in Runtimes' : p \in Live' /\ proc'[p] = proc[p] /\ Ref(p)' = Ref(p)
  BY RuntimesShrink
<1>3. OwnSound'
  BY HoldsKeep
<1>4. OneRuntime'
  <2>1. \A p \in Runtimes' : port[config] = p => port'[config'] = p
    BY <1>1, <1>2 DEF OnlyEnds, DeskType
  <2> QED  BY <1>1, <1>2, <2>1 DEF RuntimesSound, OneRuntime
<1>5. LaunchSound'
  <2>1. \A x : (Held(x)' = Held(x) \/ Held(x)' = Vacant)
               /\ (Recorded(x)' = Recorded(x) \/ Recorded(x)' = Vacant)
    BY DEF Held, Recorded
  <2>2. \A r \in {Held("run"), Held("popen"), Recorded("run")} : KnownRef(r)
    BY <1>1 DEF RefsSound, SessionRefs, SavedRefs, RunRef, ChildRef
  <2>3. ~HasCreateTime(Vacant)'
    BY DEF HasCreateTime
  <2>4. \A r \in {Held("run"), Held("popen"), Recorded("run")} :
          ~HasCreateTime(r) => ~HasCreateTime(r)'
    BY <2>2 DEF OnlyEnds, Steady
  <2>5. Launching' \/ job'.at = "launch" =>
          \A r \in {Held("run")', Held("popen")', Recorded("run")'} : ~HasCreateTime(r)'
    BY <1>1, <2>1, <2>3, <2>4 DEF RuntimesSound, LaunchSound
  <2>6. job'.at = "launch" => Runtimes' = {}
    BY <1>1, <1>2 DEF RuntimesSound, LaunchSound
  <2>7. Launching' => Runtimes' \subseteq {job'.popen.pid}
    BY <1>1, <1>2 DEF RuntimesSound, LaunchSound
  <2>8. Launching' => \A r \in {job.popen} : OfConfig(r)'
    <3> SUFFICES ASSUME Launching, NEW r \in {job.popen}, HasCreateTime(r)',
                        proc'[r.pid].kind = "runtime", config' = config
                 PROVE  proc'[r.pid].cfg = config
      BY DEF OfConfig
    <3>1. KnownRef(r) /\ OfConfig(r)
      BY <1>1 DEF RefsSound, JobRefs, ChildRef, RuntimesSound, LaunchSound
    <3>2. HasCreateTime(r) /\ proc'[r.pid] = proc[r.pid]
      BY <3>1 DEF OnlyEnds, Steady
    <3> QED  BY <3>1, <3>2 DEF OfConfig
  <2> QED  BY <2>5, <2>6, <2>7, <2>8 DEF LaunchSound
<1>6. StopSound'
  BY <1>1, <1>2 DEF RuntimesSound, StopSound
<1> QED  BY <1>3, <1>4, <1>5, <1>6 DEF RuntimesSound

(* The searches find all there is, when no start mistook its runtime. *)
LEMMA TunnelIs ==
  ASSUME ClientInv, TunnelsSound, NEW p \in Tunnels
  PROVE  /\ FindTunnel = Ref(p)
         /\ \A r \in Reference : HasCreateTime(r) /\ proc[r.pid].kind = "tunnel" => r = Ref(p)
<1>1. DeskType /\ RefsSound
  BY DEF ClientInv
<1>2. ASSUME NEW r \in Reference, HasCreateTime(r), proc[r.pid].kind = "tunnel"
      PROVE  r = Ref(p)
  <2>1. r.pid \in Live /\ r = Ref(r.pid)
    BY <1>1, <1>2, RefMeans
  <2>2. r.pid \in Tunnels
    BY <1>2, <2>1 DEF Tunnels
  <2> QED  BY <2>1, <2>2 DEF TunnelsSound
<1>3. FindTunnel # Vacant
  BY <1>1, TunnelFoundIs DEF TunnelsSound
<1> QED  BY <1>1, <1>2, <1>3, TunnelFoundIs

LEMMA TunnelGone ==
  ASSUME ClientInv, TunnelsSound, OnlyEnds, NEW R, Terminate(R),
         \A r \in R : HasCreateTime(r) => r.pid \notin Live',
         \A p \in Tunnels : Ref(p) \in R
  PROVE  Tunnels' = {}
<1>1. SUFFICES ASSUME NEW p \in Tunnels' PROVE FALSE
  OBVIOUS
<1>2. p \in Live' /\ p \in Live /\ p \in Tunnels
  BY DEF Tunnels, OnlyEnds
<1>3. HasCreateTime(Ref(p)) /\ Ref(p).pid = p
  BY <1>2, LiveRef DEF ClientInv
<1> QED  BY <1>2, <1>3

LEMMA NothingLeft ==
  ASSUME DeskInv, mistaken = {}, job.popen = Vacant, NothingRuns
  PROVE  /\ Runtimes = {}
         /\ \A r \in {Held("run"), Held("popen"), Recorded("run")} : ~HasCreateTime(r)
<1>1. DeskType /\ OneRuntime /\ OwnSound /\ RefsSound
  BY DEF DeskInv, ClientInv, Unmistaken, RuntimesSound
<1>2. \A r \in {Held("run"), Held("popen"), Ref(port[config]), Recorded("run")} :
        ~MatchesRuntime(r, config)
  BY <1>1, RuntimeFoundIs DEF NothingRuns
<1>3. ASSUME NEW p \in Runtimes PROVE FALSE
  <2>1. p \in Live /\ proc[p].kind = "runtime" /\ proc[p].cfg = config
    BY <1>1 DEF Runtimes, OneRuntime
  <2>2. Ref(p) # Vacant /\ Ref(p).pid = p /\ HasCreateTime(Ref(p))
    BY <1>1, <2>1, LiveRef
  <2>3. MatchesRuntime(Ref(p), config)
    BY <2>1, <2>2 DEF MatchesRuntime
  <2>4. port[config] = p \/ Ref(p) = Held("popen")
    BY <1>1, <2>2 DEF OneRuntime
  <2> QED  BY <1>2, <2>3, <2>4
<1>4. ASSUME NEW r \in {Held("run"), Held("popen"), Recorded("run")}, HasCreateTime(r)
      PROVE  FALSE
  <2>1. proc[r.pid].kind = "runtime"
    BY <1>1, <1>4 DEF RefsSound, SessionRefs, SavedRefs, RunRef, ChildRef
  <2>2. proc[r.pid].cfg = config
    BY <1>1, <1>4, <2>1 DEF OwnSound, OfConfig
  <2> QED  BY <1>2, <1>4, <2>1, <2>2 DEF MatchesRuntime
<1> QED  BY <1>3, <1>4

(* A step in which processes only end *)
LEMMA EndsKeep ==
  ASSUME DeskInv, OnlyEnds, SparesOthers', mistaken \subseteq mistaken',
         abandoned \subseteq abandoned', config' = config,
         session' = session \/ session' = Vacant, saved' = saved \/ saved' = Vacant,
         job' \in JobRecord, JobSound',
         job'.run \in {job.run, Vacant}, job'.popen \in {job.popen, Vacant},
         job'.tunnel \in {job.tunnel, Vacant},
         job'.at \in {"stop", "stopRuntime"} => job.at \in {"stop", "stopRuntime"},
         TunnelsSound', mistaken' = {} => RuntimesSound',
         job'.at = "idle" => StopLeavesNothing'
  PROVE  DeskInv'
<1>1. ClientInv /\ Steady /\ config' \in Configs
  BY DEF DeskInv, OnlyEnds, ClientInv, DeskType
<1>2. SessionRefs' /\ session' \in Session \cup {Vacant}
  BY <1>1, SessionStays
<1>3. SavedRefs' /\ saved' \in StateFile \cup {Vacant}
  BY <1>1, SavedStays
<1>4. JobRefs'
  BY <1>1, JobStays
<1>5. ClientInv'
  BY <1>1, <1>2, <1>3, <1>4, ClientMoves
<1>6. StopLeavesNothing'
  BY DEF JobSound, StopLeavesNothing
<1> QED  BY <1>5, <1>6 DEF DeskInv, Unmistaken

LEMMA AllGone ==
  ASSUME OnlyEnds, report' = "stopped" /\ mistaken' = {} => Tunnels' = {} /\ Runtimes' = {}
  PROVE  StopLeavesNothing'
<1>1. SUFFICES ASSUME Tunnels' = {}, Runtimes' = {}, NEW p \in Live', proc'[p].kind # "other"
               PROVE  proc'[p].kind = "runtime" /\ proc'[p].born \in abandoned'
  BY DEF StopLeavesNothing
<1>2. proc'[p] \in Process
  BY DEF OnlyEnds, Steady, OsType, Live
<1>3. proc'[p].kind \in {"runtime", "tunnel", "other"}
  BY <1>2 DEF Process
<1> QED  BY <1>1, <1>3 DEF Tunnels, Runtimes

LEMMA InSight ==
  ASSUME DeskInv, mistaken = {}, OnlyEnds, abandoned \subseteq abandoned', session' = session,
         job'.popen = job.popen \/ job.popen = Vacant
  PROVE  \A p \in Runtimes' :
           port[config] = p \/ Ref(p) = Held("popen")' \/ Ref(p) = job'.popen
<1>1. DeskType /\ OneRuntime
  BY DEF DeskInv, ClientInv, Unmistaken, RuntimesSound
<1>2. \A p \in Runtimes' : p \in Runtimes /\ p \in Live
  BY RuntimesShrink DEF Runtimes
<1>3. \A p \in Live : Ref(p) # Vacant
  BY <1>1, LiveRef
<1>4. Held("popen")' = Held("popen")
  BY DEF Held
<1> QED  BY <1>1, <1>2, <1>3, <1>4 DEF OneRuntime

LEMMA ReportKeeps == DeskInv /\ Report => DeskInv'
<1> SUFFICES ASSUME DeskInv, Report PROVE DeskInv'
  OBVIOUS
<1>1. ClientInv /\ TunnelsSound /\ DeskType /\ OsSound /\ JobSound
  BY DEF DeskInv, ClientInv
<1>2. /\ job.at \in {"idle", "report"} /\ Status /\ job' = NoJob
      /\ (report' = "stopped" => NothingRuns)
      /\ UNCHANGED <<config, session, quits, mistaken, abandoned>>
  BY DEF Report, Ends
<1>3. OnlyEnds /\ SparesOthers' /\ (saved' = saved \/ saved' = Vacant)
  BY <1>1, <1>2, StatusEnds
<1>4. job.popen = Vacant
  BY <1>1, <1>2 DEF JobSound
<1>5. /\ job' \in JobRecord /\ job'.at = "idle"
      /\ job'.run = Vacant /\ job'.popen = Vacant /\ job'.tunnel = Vacant
  BY <1>2, JobEnds
<1>6. JobSound'
  BY <1>5 DEF JobSound
<1>7. TunnelsSound'
  BY <1>2, <1>3, <1>5, TunnelsKeep
<1>8. ASSUME mistaken' = {} PROVE RuntimesSound'
  <2>1. \A p \in Runtimes' : port[config] = p \/ Ref(p) = Held("popen")' \/ Ref(p) = job'.popen
    BY <1>2, <1>3, <1>4, <1>8, InSight
  <2>2. FoundSound' /\ ~Launching'
    BY <1>5 DEF FoundSound, Launching
  <2> QED  BY <1>2, <1>3, <1>5, <1>8, <2>1, <2>2, RuntimesKeep
<1>9. ASSUME report' = "stopped", mistaken' = {} PROVE Tunnels' = {} /\ Runtimes' = {}
  <2>1. Runtimes = {} /\ Runtimes' \subseteq Runtimes
    BY <1>2, <1>3, <1>4, <1>9, NothingLeft, RuntimesShrink
  <2>2. Terminate({FindTunnel})
    BY <1>1, <1>2, <1>9, StatusEnds
  <2>3. FindTunnel \in Reference /\ (HasCreateTime(FindTunnel) =>
          proc[FindTunnel.pid].kind = "tunnel")
    BY <1>1, TunnelFoundIs, NotVacant DEF HasCreateTime, ClientInv
  <2>4. HasCreateTime(FindTunnel) => FindTunnel.pid \notin Live'
    BY <1>1, <1>2, <2>2, <2>3, TerminateEnds DEF ClientInv
  <2>5. Tunnels' = {}
    BY <1>1, <1>3, <2>2, <2>4, TunnelIs, TunnelGone
  <2> QED  BY <2>1, <2>5
<1>10. StopLeavesNothing'
  BY <1>3, <1>9, AllGone
<1> QED  BY <1>2, <1>3, <1>5, <1>6, <1>7, <1>8, <1>10, EndsKeep

LEMMA StartRuntimeKeeps == DeskInv /\ StartRuntime => DeskInv'
<1> SUFFICES ASSUME DeskInv, StartRuntime PROVE DeskInv'
  OBVIOUS
<1>1. ClientInv /\ DeskType /\ JobSound
  BY DEF DeskInv, ClientInv
<1>2. /\ job.at = "idle" /\ Status /\ JobAt("start") /\ report' = "none"
      /\ UNCHANGED <<config, session, quits, mistaken, abandoned>>
  BY DEF StartRuntime
<1>3. OnlyEnds /\ SparesOthers' /\ (saved' = saved \/ saved' = Vacant)
  BY <1>1, <1>2, StatusEnds
<1>4. job.popen = Vacant /\ job.run = Vacant /\ job.tunnel = Vacant
  BY <1>1, <1>2 DEF JobSound
<1>5. /\ job' \in JobRecord /\ job'.at = "start"
      /\ job'.run = Vacant /\ job'.popen = Vacant /\ job'.tunnel = Vacant
  BY <1>1, <1>2, <1>4, JobAtIs DEF JobSteps
<1>6. JobSound'
  BY <1>2, <1>5 DEF JobSound
<1>7. TunnelsSound'
  BY <1>2, <1>3, <1>5, TunnelsKeep
<1>8. ASSUME mistaken' = {} PROVE RuntimesSound'
  <2>1. \A p \in Runtimes' : port[config] = p \/ Ref(p) = Held("popen")' \/ Ref(p) = job'.popen
    BY <1>2, <1>3, <1>4, <1>8, InSight
  <2>2. FoundSound' /\ ~Launching'
    BY <1>5 DEF FoundSound, Launching
  <2> QED  BY <1>2, <1>3, <1>5, <1>8, <2>1, <2>2, RuntimesKeep
<1> QED  BY <1>2, <1>3, <1>5, <1>6, <1>7, <1>8, EndsKeep

(* A start that raises, when its child has ended *)
LEMMA RaisesKeeps ==
  ASSUME DeskInv, OnlyEnds, SparesOthers', mistaken \subseteq mistaken', Raises,
         UNCHANGED <<config, session, abandoned>>, saved' = saved \/ saved' = Vacant,
         HasCreateTime(job.popen) => job.popen.pid \notin Live'
  PROVE  DeskInv'
<1>1. ClientInv /\ DeskType
  BY DEF DeskInv, ClientInv
<1>2. /\ job' \in JobRecord /\ job'.at = "report" /\ job'.run = Vacant
      /\ job'.popen = Vacant /\ job'.tunnel = Vacant /\ report' = "none"
  BY RaisesIs
<1>3. JobSound'
  BY <1>2 DEF JobSound
<1>4. TunnelsSound'
  BY <1>2, TunnelsKeep
<1>5. ASSUME mistaken' = {} PROVE RuntimesSound'
  <2>1. mistaken = {} /\ OneRuntime
    BY <1>5 DEF DeskInv, Unmistaken, RuntimesSound
  <2>2. ASSUME NEW p \in Runtimes', Ref(p) = job.popen PROVE FALSE
    <3>1. p \in Live' /\ p \in Live
      BY DEF Runtimes, OnlyEnds
    <3> QED  BY <1>1, <2>2, <3>1, LiveRef
  <2>3. Held("popen")' = Held("popen") /\ Runtimes' \subseteq Runtimes
    BY RuntimesShrink DEF Held
  <2>4. \A p \in Runtimes' : port[config] = p \/ Ref(p) = Held("popen")' \/ Ref(p) = job'.popen
    BY <2>1, <2>2, <2>3 DEF OneRuntime
  <2>5. FoundSound' /\ ~Launching'
    BY <1>2 DEF FoundSound, Launching
  <2> QED  BY <1>2, <2>1, <2>4, <2>5, RuntimesKeep
<1> QED  BY <1>2, <1>3, <1>4, <1>5, EndsKeep

LEMMA StartRefusedKeeps == DeskInv /\ StartRefused => DeskInv'
<1> SUFFICES ASSUME DeskInv, StartRefused PROVE DeskInv'
  OBVIOUS
<1>1. DeskType /\ OsSound /\ JobSound /\ SparesOthers
  BY DEF DeskInv, ClientInv
<1>2. /\ job.at \in {"start", "launch"} /\ Raises /\ UNCHANGED osVars
      /\ UNCHANGED <<config, session, saved, wronged, mistaken, abandoned>>
  BY DEF StartRefused, ghosts
<1>3. OnlyEnds
  BY <1>1, <1>2, NothingEnds
<1>4. SparesOthers'
  BY <1>1, <1>2 DEF SparesOthers
<1>5. ~HasCreateTime(job.popen)
  BY <1>1, <1>2 DEF JobSound, HasCreateTime
<1> QED  BY <1>2, <1>3, <1>4, <1>5, RaisesKeeps

LEMMA RuntimeTimeoutKeeps == DeskInv /\ RuntimeTimeout => DeskInv'
<1> SUFFICES ASSUME DeskInv, RuntimeTimeout PROVE DeskInv'
  OBVIOUS
<1>1. DeskType /\ OsSound /\ JobRefs /\ SparesOthers
  BY DEF DeskInv, ClientInv, RefsSound
<1>2. /\ Terminate({job.popen}) /\ Raises
      /\ UNCHANGED <<config, session, saved, quits, mistaken, abandoned>>
  BY DEF RuntimeTimeout
<1>3. job.popen \in Reference /\ (HasCreateTime(job.popen) => proc[job.popen.pid].kind = "runtime")
  BY <1>1 DEF JobRefs, ChildRef, KnownRef
<1>4. OnlyEnds /\ SparesOthers' /\ (HasCreateTime(job.popen) => job.popen.pid \notin Live')
  BY <1>1, <1>2, <1>3, TerminateEnds
<1> QED  BY <1>2, <1>4, RaisesKeeps

LEMMA TunnelFailsKeeps == DeskInv /\ TunnelFails => DeskInv'
<1> SUFFICES ASSUME DeskInv, TunnelFails PROVE DeskInv'
  OBVIOUS
<1>1. DeskType /\ OsSound /\ JobRefs /\ JobSound /\ SparesOthers
  BY DEF DeskInv, ClientInv, RefsSound
<1>2. /\ job.at \in {"tunnel", "connect"} /\ Raises
      /\ UNCHANGED <<config, session, quits, abandoned>>
  BY DEF TunnelFails
<1>3. /\ job.tunnel \in Reference /\ job.popen \in Reference /\ job.run \in Reference
      /\ HasCreateTime(job.tunnel) => proc[job.tunnel.pid].kind = "tunnel"
      /\ HasCreateTime(job.popen) => proc[job.popen.pid].kind = "runtime"
  BY <1>1 DEF JobRefs, TunnelRef, ChildRef, KnownRef
<1>4. CASE job.popen = Vacant
  <2>1. Terminate({job.tunnel}) /\ UNCHANGED <<saved, mistaken>>
    BY <1>4 DEF TunnelFails
  <2>2. OnlyEnds /\ SparesOthers'
    BY <1>1, <1>3, <2>1, TerminateEnds
  <2>3. ~HasCreateTime(job.popen)
    BY <1>4 DEF HasCreateTime
  <2> QED  BY <1>2, <2>1, <2>2, <2>3, RaisesKeeps
<1>5. CASE job.popen # Vacant
  <2>1. /\ Terminate({job.tunnel, Ref(job.run.pid), job.popen})
        /\ saved' = Vacant /\ mistaken' = mistaken \cup Confused
    BY <1>5 DEF TunnelFails
  <2>2. PICK r : r = Ref(job.run.pid)
    OBVIOUS
  <2>3. r \in Reference /\ (HasCreateTime(r) /\ proc[r.pid].kind = "other" => r.born \in mistaken')
    <3>1. CASE r = Vacant
      BY <3>1, NotVacant DEF HasCreateTime
    <3>2. CASE r # Vacant
      <4>1. job.run.pid \in Live
        BY <2>2, <3>2 DEF Ref
      <4>2. r \in Reference
        BY <1>1, <2>2, <4>1, LiveRef
      <4>3. proc[r.pid].kind = "other" => r.born \in Confused
        BY <2>2, <3>2 DEF Confused
      <4> QED  BY <2>1, <4>2, <4>3
    <3> QED  BY <3>1, <3>2
  <2>4. \A x \in {job.tunnel, r, job.popen} : x \in Reference /\
          (HasCreateTime(x) /\ proc[x.pid].kind = "other" => x.born \in mistaken')
    BY <1>3, <2>3
  <2>5. Terminate({job.tunnel, r, job.popen}) /\ mistaken \subseteq mistaken'
    BY <2>1, <2>2
  <2>6. OnlyEnds /\ SparesOthers' /\ (HasCreateTime(job.popen) => job.popen.pid \notin Live')
    BY <1>1, <2>4, <2>5, TerminateEnds
  <2> QED  BY <1>2, <2>1, <2>5, <2>6, RaisesKeeps
<1> QED  BY <1>4, <1>5

LEMMA TunnelConnectsKeeps == DeskInv /\ TunnelConnects => DeskInv'
<1> SUFFICES ASSUME DeskInv, TunnelConnects PROVE DeskInv'
  OBVIOUS
<1>1. DeskType /\ OsSound /\ JobSound /\ SparesOthers
  BY DEF DeskInv, ClientInv
<1>2. /\ job.at = "connect" /\ JobAt("record") /\ UNCHANGED osVars
      /\ UNCHANGED <<config, session, saved, report, wronged, mistaken, abandoned>>
  BY DEF TunnelConnects, ghosts
<1>3. OnlyEnds /\ SparesOthers'
  BY <1>1, <1>2, NothingEnds DEF SparesOthers
<1>4. /\ job' \in JobRecord /\ job'.at = "record" /\ job'.run = job.run
      /\ job'.popen = job.popen /\ job'.tunnel = job.tunnel
  BY <1>1, <1>2, JobAtIs DEF JobSteps
<1>5. JobSound'
  BY <1>1, <1>2, <1>4 DEF JobSound
<1>6. TunnelsSound'
  BY <1>2, <1>3, <1>4, TunnelsKeep
<1>7. ASSUME mistaken' = {} PROVE RuntimesSound'
  <2>1. \A p \in Runtimes' : port[config] = p \/ Ref(p) = Held("popen")' \/ Ref(p) = job'.popen
    BY <1>2, <1>3, <1>4, <1>7, InSight
  <2>2. FoundSound'
    BY <1>2, <1>3, <1>4, <1>7, FoundKeeps
  <2>3. Launching' => Launching
    BY <1>2, <1>4 DEF Launching
  <2> QED  BY <1>2, <1>3, <1>4, <1>7, <2>1, <2>2, <2>3, RuntimesKeep
<1> QED  BY <1>2, <1>3, <1>4, <1>5, <1>6, <1>7, EndsKeep

LEMMA StopTunnelKeeps == DeskInv /\ StopTunnel => DeskInv'
<1> SUFFICES ASSUME DeskInv, StopTunnel PROVE DeskInv'
  OBVIOUS
<1>1. ClientInv /\ DeskType /\ OsSound /\ JobRefs /\ JobSound /\ SparesOthers /\ TunnelsSound
  BY DEF DeskInv, ClientInv, RefsSound
<1>2. /\ job.at = "stop" /\ Terminate({job.tunnel}) /\ JobAt("stopRuntime")
      /\ UNCHANGED <<config, session, saved, report, quits, mistaken, abandoned>>
  BY DEF StopTunnel
<1>3. job.tunnel \in Reference /\ (HasCreateTime(job.tunnel) => proc[job.tunnel.pid].kind = "tunnel")
  BY <1>1 DEF JobRefs, TunnelRef, KnownRef
<1>4. OnlyEnds /\ SparesOthers' /\ (HasCreateTime(job.tunnel) => job.tunnel.pid \notin Live')
  BY <1>1, <1>2, <1>3, TerminateEnds
<1>5. /\ job' \in JobRecord /\ job'.at = "stopRuntime" /\ job'.run = job.run
      /\ job'.popen = job.popen /\ job'.tunnel = job.tunnel
  BY <1>1, <1>2, JobAtIs DEF JobSteps
<1>6. JobSound'
  BY <1>1, <1>2, <1>5 DEF JobSound
<1>7. TunnelsSound'
  <2>1. \A p \in Tunnels : Ref(p) \in {job.tunnel}
    BY <1>1, <1>2 DEF TunnelsSound
  <2>2. Tunnels' = {}
    BY <1>1, <1>2, <1>4, <2>1, TunnelGone
  <2> QED  BY <1>2, <1>4, <1>5, <2>2, TunnelsKeep
<1>8. ASSUME mistaken' = {} PROVE RuntimesSound'
  <2>1. \A p \in Runtimes' : port[config] = p \/ Ref(p) = Held("popen")' \/ Ref(p) = job'.popen
    BY <1>2, <1>4, <1>5, <1>8, InSight
  <2>2. FoundSound' /\ ~Launching'
    BY <1>5 DEF FoundSound, Launching
  <2> QED  BY <1>2, <1>4, <1>5, <1>8, <2>1, <2>2, RuntimesKeep
<1> QED  BY <1>2, <1>4, <1>5, <1>6, <1>7, <1>8, EndsKeep

LEMMA StopProcessesKeeps == DeskInv /\ StopProcesses => DeskInv'
<1> SUFFICES ASSUME DeskInv, StopProcesses PROVE DeskInv'
  OBVIOUS
<1>1. DeskType /\ OsSound /\ JobRefs /\ JobSound /\ SparesOthers /\ TunnelsSound
  BY DEF DeskInv, ClientInv, RefsSound
<1>2. /\ job.at = "stopRuntime" /\ Terminate({job.run, job.popen}) /\ JobAt("clear")
      /\ UNCHANGED <<config, session, saved, report, quits, mistaken, abandoned>>
  BY DEF StopProcesses
<1>3. \A r \in {job.run, job.popen} : r \in Reference /\
        (HasCreateTime(r) /\ proc[r.pid].kind = "other" => r.born \in mistaken')
  BY <1>1, <1>2 DEF JobRefs, RunRef, ChildRef, KnownRef
<1>4. /\ OnlyEnds /\ SparesOthers'
      /\ \A r \in {job.run, job.popen} : HasCreateTime(r) => r.pid \notin Live'
  BY <1>1, <1>2, <1>3, TerminateEnds
<1>5. /\ job' \in JobRecord /\ job'.at = "clear" /\ job'.run = job.run
      /\ job'.popen = job.popen /\ job'.tunnel = job.tunnel
  BY <1>1, <1>2, JobAtIs DEF JobSteps
<1>6. JobSound'
  BY <1>1, <1>2, <1>5 DEF JobSound
<1>7. TunnelsSound'
  <2>1. Tunnels' = {}
    BY <1>1, <1>2, <1>4 DEF TunnelsSound, OnlyEnds, Tunnels
  <2> QED  BY <1>2, <1>4, <1>5, <2>1, TunnelsKeep
<1>8. ASSUME mistaken' = {} PROVE RuntimesSound'
  <2>1. StopSound
    BY <1>2, <1>8 DEF DeskInv, Unmistaken, RuntimesSound
  <2>2. ASSUME NEW p \in Runtimes' PROVE FALSE
    <3>1. p \in Runtimes /\ p \in Live /\ p \in Live'
      BY <1>2, <1>4 DEF Runtimes, OnlyEnds
    <3>2. Ref(p) \in {job.run, job.popen}
      BY <1>2, <2>1, <3>1 DEF StopSound
    <3> QED  BY <1>1, <1>4, <3>1, <3>2, LiveRef
  <2>3. Runtimes' = {}
    BY <2>2
  <2>4. FoundSound' /\ ~Launching'
    BY <1>5 DEF FoundSound, Launching
  <2> QED  BY <1>2, <1>4, <1>5, <1>8, <2>3, <2>4, RuntimesKeep
<1> QED  BY <1>2, <1>4, <1>5, <1>6, <1>7, <1>8, EndsKeep

LEMMA StopClearsKeeps == DeskInv /\ StopClears => DeskInv'
<1> SUFFICES ASSUME DeskInv, StopClears PROVE DeskInv'
  OBVIOUS
<1>1. DeskType /\ OsSound /\ SparesOthers /\ TunnelsSound
  BY DEF DeskInv, ClientInv
<1>2. /\ job.at = "clear" /\ saved' = Vacant /\ job' = NoJob /\ UNCHANGED osVars
      /\ UNCHANGED <<config, session, wronged, mistaken, abandoned>>
  BY DEF StopClears, Ends, ghosts
<1>3. OnlyEnds /\ SparesOthers'
  BY <1>1, <1>2, NothingEnds DEF SparesOthers
<1>4. /\ job' \in JobRecord /\ job'.at = "idle"
      /\ job'.run = Vacant /\ job'.popen = Vacant /\ job'.tunnel = Vacant
  BY <1>2, JobEnds
<1>5. JobSound'
  BY <1>4 DEF JobSound
<1>6. Tunnels' = {}
  BY <1>1, <1>2, <1>3 DEF TunnelsSound, OnlyEnds, Tunnels
<1>7. TunnelsSound'
  BY <1>2, <1>3, <1>4, TunnelsKeep
<1>8. ASSUME mistaken' = {} PROVE Runtimes' = {}
  <2>1. StopSound
    BY <1>2, <1>8 DEF DeskInv, Unmistaken, RuntimesSound
  <2> QED  BY <1>2, <1>3, <2>1, RuntimesShrink DEF StopSound
<1>9. ASSUME mistaken' = {} PROVE RuntimesSound'
  <2>1. FoundSound' /\ ~Launching'
    BY <1>4 DEF FoundSound, Launching
  <2> QED  BY <1>2, <1>3, <1>4, <1>8, <1>9, <2>1, RuntimesKeep
<1>10. StopLeavesNothing'
  BY <1>3, <1>6, <1>8, AllGone
<1> QED  BY <1>2, <1>3, <1>4, <1>5, <1>7, <1>9, <1>10, EndsKeep

LEMMA DiesKeeps == \A p \in Pids : DeskInv /\ Dies(p) => DeskInv'
<1> SUFFICES ASSUME NEW p \in Pids, DeskInv, Dies(p) PROVE DeskInv'
  OBVIOUS
<1>1. DeskType /\ OsSound /\ JobSound /\ SparesOthers /\ TunnelsSound
  BY DEF DeskInv, ClientInv
<1>2. /\ p \in Live /\ report' = "none"
      /\ proc' = [proc EXCEPT ![p] = Vacant]
      /\ port' = [c \in Configs |-> IF port[c] = p THEN Vacant ELSE port[c]]
      /\ UNCHANGED <<born, config, session, saved, job, wronged, mistaken, abandoned>>
  BY DEF Dies, ghosts
<1>3. OnlyEnds /\ SparesOthers'
  <2>1. PICK D \in SUBSET Live : D = {p}
    BY <1>2
  <2>2. /\ proc' = [q \in Pids |-> IF q \in D THEN Vacant ELSE proc[q]]
        /\ port' = [c \in Configs |-> IF port[c] \in D THEN Vacant ELSE port[c]]
    BY <1>1, <1>2, <2>1 DEF DeskType
  <2>3. OnlyEnds
    BY <1>1, <1>2, <2>2, EndsOf
  <2> QED  BY <1>1, <1>2, <2>3 DEF SparesOthers
<1>4. JobSound' /\ job' \in JobRecord
  BY <1>1, <1>2 DEF JobSound, DeskType
<1>5. TunnelsSound'
  <2>1. Tunnels' \subseteq Tunnels
    BY <1>3 DEF Tunnels, OnlyEnds
  <2> QED  BY <1>1, <1>2, <1>3, <2>1, TunnelsKeep DEF TunnelsSound
<1>6. ASSUME mistaken' = {} PROVE RuntimesSound'
  <2>1. \A q \in Runtimes' : port[config] = q \/ Ref(q) = Held("popen")' \/ Ref(q) = job'.popen
    BY <1>2, <1>3, <1>6, InSight
  <2>2. FoundSound'
    <3>1. CASE job.at \in {"tunnel", "connect", "record"}
      BY <1>2, <1>3, <1>6, <3>1, FoundKeeps
    <3>2. CASE job.at \notin {"tunnel", "connect", "record"}
      BY <1>2, <3>2 DEF FoundSound
    <3> QED  BY <3>1, <3>2
  <2>3. Launching' => Launching
    BY <1>2 DEF Launching
  <2>4. StopSound /\ Runtimes' \subseteq Runtimes
    BY <1>2, <1>3, <1>6, RuntimesShrink DEF DeskInv, Unmistaken, RuntimesSound
  <2>5. job'.at = "clear" => Runtimes' = {}
    BY <1>2, <2>4 DEF StopSound
  <2> QED  BY <1>2, <1>3, <1>6, <2>1, <2>2, <2>3, <2>5, RuntimesKeep
<1>7. StopLeavesNothing'
  BY <1>2 DEF StopLeavesNothing
<1> QED  BY <1>2, <1>3, <1>4, <1>5, <1>6, <1>7, EndsKeep

LEMMA ClientEndsKeeps == DeskInv /\ ClientEnds => DeskInv'
<1> SUFFICES ASSUME DeskInv, ClientEnds PROVE DeskInv'
  OBVIOUS
<1>1. DeskType /\ OsSound /\ SparesOthers /\ TunnelsSound
  BY DEF DeskInv, ClientInv
<1>2. /\ session' = Vacant /\ job' = NoJob /\ report' = "none"
      /\ abandoned' = abandoned \cup Starting /\ UNCHANGED osVars
      /\ UNCHANGED <<config, saved, wronged, mistaken>>
  BY DEF ClientEnds, Ends
<1>3. OnlyEnds /\ SparesOthers'
  BY <1>1, <1>2, NothingEnds DEF SparesOthers
<1>4. /\ job' \in JobRecord /\ job'.at = "idle"
      /\ job'.run = Vacant /\ job'.popen = Vacant /\ job'.tunnel = Vacant
  BY <1>2, JobEnds
<1>5. JobSound'
  BY <1>4 DEF JobSound
<1>6. TunnelsSound'
  BY <1>2, <1>3, <1>4, TunnelsKeep
<1>7. ASSUME mistaken' = {} PROVE RuntimesSound'
  <2>1. OneRuntime /\ mistaken = {}
    BY <1>2, <1>7 DEF DeskInv, Unmistaken, RuntimesSound
  <2>2. ASSUME NEW p \in Runtimes' PROVE port[config] = p
    <3>1. p \in Runtimes /\ p \in Live /\ proc'[p] = proc[p]
      BY <1>2, <1>3, RuntimesShrink DEF Runtimes
    <3>2. proc[p].kind = "runtime" /\ proc[p].cfg = config
      BY <2>1, <3>1 DEF Runtimes, OneRuntime
    <3>3. proc[p].born \notin Starting
      BY <1>2, <3>1 DEF Runtimes
    <3> QED  BY <3>1, <3>2, <3>3 DEF Starting
  <2>3. FoundSound' /\ ~Launching'
    BY <1>4 DEF FoundSound, Launching
  <2>4. abandoned \subseteq abandoned'
    BY <1>2
  <2> QED  BY <1>2, <1>3, <1>4, <2>1, <2>2, <2>3, <2>4, RuntimesKeep
<1>8. StopLeavesNothing'
  BY <1>2 DEF StopLeavesNothing
<1> QED  BY <1>2, <1>3, <1>4, <1>5, <1>6, <1>7, <1>8, EndsKeep

LEMMA StartCleanKeeps == DeskInv /\ StartClean => DeskInv'
<1> SUFFICES ASSUME DeskInv, StartClean PROVE DeskInv'
  OBVIOUS
<1>1. ClientInv /\ DeskType /\ OsSound /\ RefsSound /\ JobSound /\ SparesOthers /\ TunnelsSound
  BY DEF DeskInv, ClientInv
<1>2. PICK o : o = FirstFound(<<FindTunnel, FindStateTunnel>>)
  OBVIOUS
<1>3. PICK s \in {"launch", "report"} : JobAt(s)
  BY DEF StartClean
<1>4. /\ job.at = "start" /\ NothingRuns /\ Terminate({o}) /\ (saved' = saved \/ saved' = Vacant)
      /\ UNCHANGED <<config, session, report, quits, mistaken, abandoned>>
  BY <1>2 DEF StartClean
<1>5. o = IF FindTunnel # Vacant THEN FindTunnel ELSE FindStateTunnel
  BY <1>2, FirstOfTwo
<1>6. o \in Reference /\ (HasCreateTime(o) => proc[o.pid].kind = "tunnel")
  BY <1>1, <1>5, TunnelFoundIs, NotVacant DEF HasCreateTime
<1>7. OnlyEnds /\ SparesOthers' /\ (HasCreateTime(o) => o.pid \notin Live')
  BY <1>1, <1>4, <1>6, TerminateEnds
<1>8. job.popen = Vacant /\ job.run = Vacant /\ job.tunnel = Vacant
  BY <1>1, <1>4 DEF JobSound
<1>9. /\ job' \in JobRecord /\ job'.at = s
      /\ job'.run = Vacant /\ job'.popen = Vacant /\ job'.tunnel = Vacant
  BY <1>1, <1>3, <1>8, JobAtIs DEF JobSteps
<1>10. JobSound'
  BY <1>1, <1>4, <1>9 DEF JobSound
<1>11. TunnelsSound'
  <2>1. \A p \in Tunnels : p \in Live /\ FindTunnel = Ref(p)
    BY <1>1, TunnelIs DEF Tunnels
  <2>2. \A p \in Tunnels : Ref(p) \in {o}
    BY <1>1, <1>5, <2>1, LiveRef
  <2>3. Tunnels' = {}
    BY <1>1, <1>4, <1>7, <2>2, TunnelGone
  <2> QED  BY <1>4, <1>7, <1>9, <2>3, TunnelsKeep
<1>12. ASSUME mistaken' = {} PROVE RuntimesSound'
  <2>1. \A p \in Runtimes' : port[config] = p \/ Ref(p) = Held("popen")' \/ Ref(p) = job'.popen
    BY <1>4, <1>7, <1>8, <1>12, InSight
  <2>2. FoundSound' /\ ~Launching'
    BY <1>9 DEF FoundSound, Launching
  <2>3. /\ Runtimes = {}
        /\ \A r \in {Held("run"), Held("popen"), Recorded("run")} : ~HasCreateTime(r)
    BY <1>4, <1>8, <1>12, NothingLeft
  <2> QED  BY <1>4, <1>7, <1>9, <1>12, <2>1, <2>2, <2>3, RuntimesKeep
<1> QED  BY <1>4, <1>7, <1>9, <1>10, <1>11, <1>12, EndsKeep

LEMMA SaveProfileKeeps == \A c \in Configs : DeskInv /\ SaveProfile(c) => DeskInv'
<1> SUFFICES ASSUME NEW c \in Configs, DeskInv, SaveProfile(c) PROVE DeskInv'
  OBVIOUS
<1>1. ClientInv /\ DeskType /\ OsSound /\ RefsSound /\ JobSound /\ SparesOthers /\ TunnelsSound
  BY DEF DeskInv, ClientInv
<1>2. /\ job.at = "idle" /\ NothingRuns /\ Status /\ config' = c /\ JobAt("report")
      /\ report' = "none" /\ UNCHANGED <<session, quits, mistaken, abandoned>>
  BY DEF SaveProfile
<1>3. OnlyEnds /\ SparesOthers' /\ saved' = Vacant /\ Terminate({FindTunnel})
  BY <1>1, <1>2, StatusEnds
<1>4. job.popen = Vacant /\ job.run = Vacant /\ job.tunnel = Vacant
  BY <1>1, <1>2 DEF JobSound
<1>5. /\ job' \in JobRecord /\ job'.at = "report"
      /\ job'.run = Vacant /\ job'.popen = Vacant /\ job'.tunnel = Vacant
  BY <1>1, <1>2, <1>4, JobAtIs DEF JobSteps
<1>6. JobSound'
  BY <1>2, <1>5 DEF JobSound
<1>7. ClientInv'
  <2>1. Steady
    BY <1>3 DEF OnlyEnds
  <2>2. SessionRefs' /\ session' \in Session \cup {Vacant}
    BY <1>1, <1>2, <2>1, SessionStays
  <2>3. SavedRefs' /\ saved' \in StateFile \cup {Vacant}
    BY <1>1, <1>2, <1>3, <2>1, SavedStays
  <2>4. JobRefs'
    BY <1>1, <1>2, <1>5, <2>1, JobStays
  <2> QED  BY <1>1, <1>2, <1>3, <1>5, <1>6, <2>1, <2>2, <2>3, <2>4, ClientMoves
<1>8. TunnelsSound'
  <2>1. FindTunnel \in Reference /\ (HasCreateTime(FindTunnel) =>
          proc[FindTunnel.pid].kind = "tunnel")
    BY <1>1, TunnelFoundIs, NotVacant DEF HasCreateTime
  <2>2. HasCreateTime(FindTunnel) => FindTunnel.pid \notin Live'
    BY <1>1, <1>2, <1>3, <2>1, TerminateEnds
  <2>3. Tunnels' = {}
    BY <1>1, <1>3, <2>2, TunnelIs, TunnelGone
  <2> QED  BY <1>3, <1>5, <2>3, TunnelsKeep
<1>9. ASSUME mistaken' = {} PROVE RuntimesSound'
  <2>1. /\ Runtimes = {} /\ Runtimes' \subseteq Runtimes
        /\ \A r \in {Held("run"), Held("popen"), Recorded("run")} : ~HasCreateTime(r)
    BY <1>2, <1>3, <1>4, <1>9, NothingLeft, RuntimesShrink
  <2>2. Runtimes' = {} /\ Recorded("run")' = Vacant /\ Held("run")' = Held("run")
        /\ Held("popen")' = Held("popen")
    BY <1>2, <1>3, <2>1 DEF Held, Recorded
  <2>3. \A r \in {Held("run"), Held("popen")} : KnownRef(r)
    BY <1>1 DEF RefsSound, SessionRefs, RunRef, ChildRef
  <2>4. \A r \in {Held("run"), Held("popen"), Vacant} : ~HasCreateTime(r)'
    BY <1>3, <2>1, <2>3 DEF OnlyEnds, Steady, HasCreateTime
  <2>5. OneRuntime'
    BY <2>2 DEF OneRuntime
  <2>6. OwnSound'
    <3>1. \A r \in {Held("run")', Held("popen")', Recorded("run")'} : ~HasCreateTime(r)'
      BY <2>2, <2>4
    <3> QED  BY <1>3, <2>2, <3>1 DEF OwnSound, OfConfig
  <2>7. LaunchSound' /\ FoundSound' /\ StopSound'
    BY <1>5 DEF LaunchSound, Launching, FoundSound, StopSound
  <2> QED  BY <2>5, <2>6, <2>7 DEF RuntimesSound
<1>10. StopLeavesNothing'
  BY <1>2 DEF StopLeavesNothing
<1> QED  BY <1>7, <1>8, <1>9, <1>10 DEF DeskInv, Unmistaken

(* A reference to a live process *)
LEMMA LiveKnown ==
  ASSUME DeskType, OsSound, NEW r \in Reference, HasCreateTime(r)
  PROVE  KnownRef(r) /\ r.pid \in Live /\ r = Ref(r.pid) /\ r # Vacant
<1>1. r # Vacant /\ r.pid \in Live /\ proc[r.pid].born = r.born /\ r = Ref(r.pid)
  BY RefMeans
<1> QED  BY <1>1 DEF KnownRef, OsSound

LEMMA RuntimeFoundKeeps == DeskInv /\ RuntimeFound => DeskInv'
<1> SUFFICES ASSUME DeskInv, RuntimeFound PROVE DeskInv'
  OBVIOUS
<1>1. ClientInv /\ DeskType /\ OsSound /\ JobRefs /\ JobSound /\ SparesOthers /\ TunnelsSound
  BY DEF DeskInv, ClientInv, RefsSound
<1>2. PICK r : r = Ref(port[config])
  OBVIOUS
<1>3. PICK s : s = IF config \in Tunnelled THEN "tunnel" ELSE "record"
  OBVIOUS
<1>4. /\ job.at = "wait" /\ port[config] # Vacant /\ job' = [job EXCEPT !.at = s, !.run = r]
      /\ UNCHANGED osVars
      /\ UNCHANGED <<config, session, saved, report, wronged, mistaken, abandoned>>
  BY <1>2, <1>3 DEF RuntimeFound, ghosts
<1>5. port[config] \in Live /\ config \in Configs
      /\ (proc[port[config]].kind = "runtime" => proc[port[config]].cfg = config)
  BY <1>1, <1>4 DEF OsSound, DeskType
<1>6. r \in Reference /\ r # Vacant /\ r.pid = port[config] /\ HasCreateTime(r)
  BY <1>1, <1>2, <1>5, LiveRef
<1>7. s \in {"tunnel", "record"} /\ job \in JobRecord
  BY <1>1, <1>3 DEF DeskType
<1>8. /\ job' \in JobRecord /\ job'.at = s /\ job'.run = r
      /\ job'.popen = job.popen /\ job'.tunnel = job.tunnel
  BY <1>4, <1>6, <1>7 DEF JobRecord, JobSteps
<1>9. JobSound'
  BY <1>1, <1>3, <1>4, <1>6, <1>7, <1>8 DEF JobSound
<1>10. OnlyEnds /\ Live' = Live /\ SparesOthers' /\ Steady
  BY <1>1, <1>4, NothingEnds DEF SparesOthers, OnlyEnds
<1>11. ClientInv'
  <2>1. SessionRefs' /\ session' \in Session \cup {Vacant}
    BY <1>1, <1>4, <1>10, SessionStays
  <2>2. SavedRefs' /\ saved' \in StateFile \cup {Vacant}
    BY <1>1, <1>4, <1>10, SavedStays
  <2>3. KnownRef(r)' /\ ChildRef(job.popen)' /\ TunnelRef(job.tunnel)'
    <3>1. KnownRef(r) /\ ChildRef(job.popen) /\ TunnelRef(job.tunnel)
      BY <1>1, <1>6, LiveKnown DEF JobRefs
    <3>2. mistaken \subseteq mistaken'
      BY <1>4
    <3>3. \A x, y, z : /\ KnownRef(x) => KnownRef(x)' /\ (ChildRef(y) => ChildRef(y)')
                       /\ TunnelRef(z) => TunnelRef(z)'
      BY <1>1, <1>10, <3>2, RolesStay
    <3>4. PICK y, z : y = job.popen /\ z = job.tunnel
      OBVIOUS
    <3>5. KnownRef(r)' /\ ChildRef(y)' /\ TunnelRef(z)'
      BY <3>1, <3>3, <3>4
    <3> QED  BY <1>4, <1>8, <3>4, <3>5
  <2>4. JobRefs'
    BY <1>7, <1>8, <2>3 DEF JobRefs
  <2> QED  BY <1>1, <1>4, <1>5, <1>8, <1>9, <1>10, <2>1, <2>2, <2>4, ClientMoves
<1>12. TunnelsSound'
  <2>1. Tunnels' = {}
    BY <1>1, <1>4, <1>10 DEF TunnelsSound, OnlyEnds, Tunnels
  <2> QED  BY <1>4, <1>7, <1>8, <1>10, <2>1, TunnelsKeep
<1>13. ASSUME mistaken' = {} PROVE RuntimesSound'
  <2>1. \A p \in Runtimes' : port[config] = p \/ Ref(p) = Held("popen")' \/ Ref(p) = job'.popen
    BY <1>4, <1>8, <1>10, <1>13, InSight
  <2>2. Launching' => Launching
    BY <1>4, <1>8 DEF Launching
  <2>3. OfConfig(r)' /\ HasCreateTime(r)' /\ Listening(r)'
    BY <1>4, <1>5, <1>6 DEF OfConfig, Listening, HasCreateTime, Ref, Live, osVars
  <2>4. FoundSound'
    BY <1>8, <2>3 DEF FoundSound
  <2> QED  BY <1>4, <1>7, <1>8, <1>10, <1>13, <2>1, <2>2, <2>4, RuntimesKeep
<1>14. StopLeavesNothing'
  BY <1>7, <1>8, <1>9 DEF JobSound, StopLeavesNothing
<1> QED  BY <1>11, <1>12, <1>13, <1>14 DEF DeskInv, Unmistaken

(* Processes start or listen, and the runtimes stay what they are. *)
LEMMA StartsKeep ==
  ASSUME DeskInv, mistaken = {}, Steady, UNCHANGED <<config, session, saved, abandoned>>,
         \A q \in Live : q \in Live' /\ proc'[q] = proc[q] /\ Ref(q)' = Ref(q),
         \A q \in Live' \ Live : proc'[q].kind # "runtime",
         \A x \in Configs : port[x] # Vacant => port'[x] = port[x],
         job'.run = job.run, job'.popen = job.popen,
         job'.at = job.at \/ (job.at = "tunnel" /\ job'.at = "connect")
  PROVE  RuntimesSound'
<1>1. RuntimesSound /\ RefsSound /\ DeskType /\ JobSound
  BY DEF DeskInv, ClientInv, Unmistaken
<1>2. Runtimes' = Runtimes
  BY DEF Runtimes
<1>3. \A p \in Runtimes : p \in Live /\ proc'[p] = proc[p] /\ Ref(p)' = Ref(p)
  BY DEF Runtimes
<1>4. \A x : Held(x)' = Held(x) /\ Recorded(x)' = Recorded(x)
  BY DEF Held, Recorded
<1>5. \A r \in {Held("run"), Held("popen"), Recorded("run"), job.run, job.popen} : KnownRef(r)
  BY <1>1 DEF RefsSound, SessionRefs, SavedRefs, JobRefs, RunRef, ChildRef
<1>6. \A r \in {Held("run"), Held("popen"), Recorded("run"), job.run, job.popen} :
        HasCreateTime(r)' => HasCreateTime(r) /\ proc'[r.pid] = proc[r.pid]
  BY <1>5 DEF Steady
<1>7. \A r \in {Held("run"), Held("popen"), Recorded("run"), job.run, job.popen} :
        HasCreateTime(r) => r.pid \in Live /\ r.pid \in Pids
  BY <1>1, <1>5, RefMeans DEF KnownRef, Live
<1>8. \A r \in {Held("run"), Held("popen"), Recorded("run"), job.run, job.popen} :
        (OfConfig(r) => OfConfig(r)') /\ (Listening(r) => Listening(r)')
  <2> SUFFICES ASSUME NEW r \in {Held("run"), Held("popen"), Recorded("run"), job.run, job.popen}
               PROVE  (OfConfig(r) => OfConfig(r)') /\ (Listening(r) => Listening(r)')
    OBVIOUS
  <2>1. OfConfig(r) => OfConfig(r)'
    BY <1>6 DEF OfConfig
  <2>2. Listening(r) => Listening(r)'
    BY <1>1, <1>6, <1>7, NotVacant DEF Listening, DeskType
  <2> QED  BY <2>1, <2>2
<1>9. OneRuntime'
  <2>1. \A p \in Runtimes : port[config] = p => port'[config] = p
    BY <1>1, <1>3, NotVacant DEF DeskType, Live
  <2> QED  BY <1>1, <1>2, <1>3, <1>4, <2>1 DEF RuntimesSound, OneRuntime
<1>10. OwnSound'
  <2>1. saved' # Vacant => saved'.cfg = config'
    BY <1>1 DEF RuntimesSound, OwnSound
  <2>2. \A r \in {Held("run")', Held("popen")', Recorded("run")'} : OfConfig(r)'
    BY <1>1, <1>4, <1>8 DEF RuntimesSound, OwnSound
  <2>3. Runtimes' # {} => \A r \in {Held("run")', Recorded("run")'} : Listening(r)'
    BY <1>1, <1>2, <1>4, <1>8 DEF RuntimesSound, OwnSound
  <2>4. \A r \in {Held("popen")'} : HasCreateTime(r)' => Runtimes' \subseteq {r.pid}
    BY <1>1, <1>2, <1>4, <1>6 DEF RuntimesSound, OwnSound
  <2> QED  BY <2>1, <2>2, <2>3, <2>4 DEF OwnSound
<1>11. LaunchSound'
  <2>1. Launching' => Launching
    BY DEF Launching
  <2>2. Launching' \/ job'.at = "launch" =>
          \A r \in {Held("run")', Held("popen")', Recorded("run")'} : ~HasCreateTime(r)'
    BY <1>1, <1>4, <1>6, <2>1 DEF RuntimesSound, LaunchSound
  <2>3. Launching' => Runtimes' \subseteq {job'.popen.pid} /\ \A r \in {job'.popen} : OfConfig(r)'
    BY <1>1, <1>2, <1>8, <2>1 DEF RuntimesSound, LaunchSound
  <2>4. job'.at = "launch" => Runtimes' = {}
    BY <1>1, <1>2 DEF RuntimesSound, LaunchSound
  <2> QED  BY <2>2, <2>3, <2>4 DEF LaunchSound
<1>12. FoundSound'
  <2> SUFFICES ASSUME job'.at \in {"tunnel", "connect", "record"}
               PROVE  FoundSound'
    BY DEF FoundSound
  <2>1. PICK r : r = job.run
    OBVIOUS
  <2>2. /\ OfConfig(r) /\ (r.pid \in Live /\ proc[r.pid].kind = "runtime" => HasCreateTime(r))
        /\ (Runtimes # {} => Listening(r) \/ r = Held("popen"))
    BY <1>1, <2>1 DEF RuntimesSound, FoundSound
  <2>3. r # Vacant
    BY <1>1, <2>1 DEF JobSound
  <2>4. r.pid \in Live' /\ proc'[r.pid].kind = "runtime" => HasCreateTime(r)'
    BY <2>2, <2>3 DEF HasCreateTime
  <2>5. OfConfig(r)' /\ (Runtimes' # {} => Listening(r)' \/ r = Held("popen")')
    BY <1>2, <1>4, <1>8, <2>1, <2>2
  <2> QED  BY <2>1, <2>4, <2>5 DEF FoundSound
<1>13. StopSound'
  BY <1>1, <1>2, <1>3 DEF RuntimesSound, StopSound
<1> QED  BY <1>9, <1>10, <1>11, <1>12, <1>13 DEF RuntimesSound

LEMMA ListensKeeps == \A p \in Pids : DeskInv /\ Listens(p) => DeskInv'
<1> SUFFICES ASSUME NEW p \in Pids, DeskInv, Listens(p) PROVE DeskInv'
  OBVIOUS
<1>1. ClientInv /\ DeskType /\ OsSound /\ JobSound /\ SparesOthers /\ TunnelsSound
  BY DEF DeskInv, ClientInv
<1>2. /\ p \in Live /\ proc[p].kind = "runtime" /\ port[proc[p].cfg] = Vacant
      /\ port' = [port EXCEPT ![proc[p].cfg] = p] /\ report' = "none"
      /\ UNCHANGED <<proc, born, config, session, saved, job, wronged, mistaken, abandoned>>
  BY DEF Listens, ghosts
<1>3. Live' = Live /\ \A q : Ref(q)' = Ref(q)
  BY <1>2 DEF Live, Ref
<1>4. \A r : HasCreateTime(r)' <=> HasCreateTime(r)
  BY <1>3 DEF HasCreateTime
<1>5. proc[p] \in Process
  BY <1>1, <1>2, LiveRef
<1>6. Steady
  <2>1. OsType' /\ born <= born'
    <3>1. proc' \in [Pids -> Process \cup {Vacant}] /\ born' \in Nat /\ born <= born'
      BY <1>1, <1>2 DEF DeskType
    <3>2. PICK x \in Configs : x = proc[p].cfg
      BY <1>5 DEF Process
    <3>3. port \in [Configs -> Pids \cup {Vacant}] /\ port' = [port EXCEPT ![x] = p]
      BY <1>1, <1>2, <3>2 DEF DeskType
    <3>4. port' \in [Configs -> Pids \cup {Vacant}]
      BY <3>3
    <3> QED  BY <3>1, <3>4 DEF OsType
  <2>2. OsSound'
    BY <1>1, <1>2, <1>3, <1>5 DEF OsSound, DeskType, Process
  <2> QED  BY <1>2, <1>4, <2>1, <2>2 DEF Steady
<1>7. JobSound' /\ job' \in JobRecord /\ SparesOthers'
  BY <1>1, <1>2 DEF JobSound, DeskType, SparesOthers
<1>8. ClientInv'
  <2>1. SessionRefs' /\ session' \in Session \cup {Vacant}
    BY <1>1, <1>2, <1>6, SessionStays
  <2>2. SavedRefs' /\ saved' \in StateFile \cup {Vacant}
    BY <1>1, <1>2, <1>6, SavedStays
  <2>3. JobRefs'
    BY <1>1, <1>2, <1>6, JobStays
  <2>4. config' \in Configs
    BY <1>1, <1>2 DEF DeskType
  <2> QED  BY <1>1, <1>2, <1>6, <1>7, <2>1, <2>2, <2>3, <2>4, ClientMoves
<1>9. TunnelsSound'
  BY <1>1, <1>2, <1>3 DEF TunnelsSound, Tunnels
<1>10. ASSUME mistaken' = {} PROVE RuntimesSound'
  <2>1. \A x \in Configs : port[x] # Vacant => port'[x] = port[x]
    BY <1>1, <1>2 DEF DeskType
  <2> QED  BY <1>2, <1>3, <1>6, <1>10, <2>1, StartsKeep
<1>11. StopLeavesNothing'
  BY <1>2 DEF StopLeavesNothing
<1> QED  BY <1>8, <1>9, <1>10, <1>11 DEF DeskInv, Unmistaken

LEMMA OtherStartsKeeps == \A p \in Pids, c \in Configs : DeskInv /\ OtherStarts(p, c) => DeskInv'
<1> SUFFICES ASSUME NEW p \in Pids, NEW c \in Configs, DeskInv, OtherStarts(p, c) PROVE DeskInv'
  OBVIOUS
<1>1. ClientInv /\ DeskType /\ OsSound /\ JobSound /\ SparesOthers /\ TunnelsSound
  BY DEF DeskInv, ClientInv
<1>2. /\ Spawn(p, "other") /\ report' = "none"
      /\ (port' = port \/ \E x \in Configs : port[x] = Vacant /\ port' = [port EXCEPT ![x] = p])
      /\ UNCHANGED <<config, session, saved, job, wronged, mistaken, abandoned>>
  BY DEF OtherStarts, ghosts
<1>3. /\ Steady /\ p \notin Live /\ Live' = Live \cup {p}
      /\ \A q \in Live : proc'[q] = proc[q] /\ Ref(q)' = Ref(q)
      /\ proc'[p].kind = "other"
      /\ \A x \in Configs : port[x] # Vacant => port'[x] = port[x]
  BY <1>1, <1>2, SpawnStarts
<1>4. JobSound' /\ job' \in JobRecord /\ SparesOthers'
  BY <1>1, <1>2 DEF JobSound, DeskType, SparesOthers
<1>5. ClientInv'
  <2>1. SessionRefs' /\ session' \in Session \cup {Vacant}
    BY <1>1, <1>2, <1>3, SessionStays
  <2>2. SavedRefs' /\ saved' \in StateFile \cup {Vacant}
    BY <1>1, <1>2, <1>3, SavedStays
  <2>3. JobRefs'
    BY <1>1, <1>2, <1>3, JobStays
  <2>4. config' \in Configs
    BY <1>1, <1>2 DEF DeskType
  <2> QED  BY <1>1, <1>2, <1>3, <1>4, <2>1, <2>2, <2>3, <2>4, ClientMoves
<1>6. TunnelsSound'
  <2>1. Tunnels' = Tunnels
    BY <1>3 DEF Tunnels
  <2>2. \A q \in Tunnels : proc'[q] = proc[q] /\ Ref(q)' = Ref(q)
    BY <1>3 DEF Tunnels
  <2> QED  BY <1>1, <1>2, <2>1, <2>2 DEF TunnelsSound
<1>7. ASSUME mistaken' = {} PROVE RuntimesSound'
  <2>1. \A q \in Live : q \in Live' /\ proc'[q] = proc[q] /\ Ref(q)' = Ref(q)
    BY <1>3
  <2>2. \A q \in Live' \ Live : proc'[q].kind # "runtime"
    BY <1>3
  <2> QED  BY <1>2, <1>3, <1>7, <2>1, <2>2, StartsKeep
<1>8. StopLeavesNothing'
  BY <1>2 DEF StopLeavesNothing
<1> QED  BY <1>5, <1>6, <1>7, <1>8 DEF DeskInv, Unmistaken

LEMMA LaunchRuntimeKeeps == \A p \in Pids : DeskInv /\ LaunchRuntime(p) => DeskInv'
<1> SUFFICES ASSUME NEW p \in Pids, DeskInv, LaunchRuntime(p) PROVE DeskInv'
  OBVIOUS
<1>1. /\ ClientInv /\ DeskType /\ OsSound /\ RefsSound /\ JobSound /\ SparesOthers
      /\ TunnelsSound
  BY DEF DeskInv, ClientInv
<1>2. PICK r : r = [pid |-> p, born |-> born]
  OBVIOUS
<1>3. /\ job.at = "launch" /\ Spawn(p, "runtime") /\ port' = port
      /\ job' = [job EXCEPT !.at = "wait", !.popen = r]
      /\ UNCHANGED <<config, session, saved, report, wronged, mistaken, abandoned>>
  BY <1>2 DEF LaunchRuntime, ghosts
<1>4. /\ Steady /\ p \notin Live /\ Live' = Live \cup {p} /\ born' = born + 1
      /\ \A q \in Live : proc'[q] = proc[q] /\ Ref(q)' = Ref(q)
      /\ proc'[p].kind = "runtime" /\ proc'[p].cfg = config
      /\ Ref(p)' = r
  BY <1>1, <1>2, <1>3, SpawnStarts
<1>5. r \in Reference /\ r # Vacant /\ r.pid = p /\ r.born = born /\ born \in Nat
  <2>1. r \in [pid : Pids, born : Nat] /\ r.pid = p /\ r.born = born /\ born \in Nat
    BY <1>1, <1>2 DEF DeskType
  <2> QED  BY <2>1, NotVacant DEF Reference
<1>6. job \in JobRecord
  BY <1>1 DEF DeskType
<1>7. /\ job' \in JobRecord /\ job'.at = "wait" /\ job'.popen = r
      /\ job'.run = job.run /\ job'.tunnel = job.tunnel
  BY <1>3, <1>5, <1>6 DEF JobRecord, JobSteps
<1>8. job.run = Vacant /\ job.tunnel = Vacant /\ report = "none"
  BY <1>1, <1>3 DEF JobSound
<1>9. JobSound' /\ SparesOthers'
  BY <1>1, <1>3, <1>5, <1>7, <1>8 DEF JobSound, SparesOthers
<1>10. ClientInv'
  <2>1. SessionRefs' /\ session' \in Session \cup {Vacant}
    BY <1>1, <1>3, <1>4, SessionStays
  <2>2. SavedRefs' /\ saved' \in StateFile \cup {Vacant}
    BY <1>1, <1>3, <1>4, SavedStays
  <2>3. ChildRef(r)'
    BY <1>4, <1>5 DEF ChildRef, KnownRef
  <2>4. JobRefs'
    BY <1>7, <1>8, <2>3, VacantRef DEF JobRefs
  <2>5. config' \in Configs
    BY <1>1, <1>3 DEF DeskType
  <2> QED  BY <1>1, <1>3, <1>4, <1>7, <1>9, <2>1, <2>2, <2>4, <2>5, ClientMoves
<1>11. TunnelsSound'
  <2>1. Tunnels' = {}
    BY <1>1, <1>3, <1>4 DEF Tunnels, TunnelsSound
  <2> QED  BY <1>7, <2>1 DEF TunnelsSound
<1>12. ASSUME mistaken' = {} PROVE RuntimesSound'
  <2>1. LaunchSound /\ OwnSound
    BY <1>3, <1>12 DEF DeskInv, Unmistaken, RuntimesSound
  <2>2. Runtimes' \subseteq {p}
    <3>1. Runtimes = {}
      BY <1>3, <2>1 DEF LaunchSound
    <3> QED  BY <1>3, <1>4, <3>1 DEF Runtimes
  <2>3. \A x : Held(x)' = Held(x) /\ Recorded(x)' = Recorded(x)
    BY <1>3 DEF Held, Recorded
  <2>4. \A x \in {Held("run"), Held("popen"), Recorded("run")} : KnownRef(x)
    BY <1>1 DEF RefsSound, SessionRefs, SavedRefs, RunRef, ChildRef
  <2>5. \A x \in {Held("run"), Held("popen"), Recorded("run")} : ~HasCreateTime(x)'
    BY <1>3, <1>4, <2>1, <2>4 DEF LaunchSound, Steady
  <2>6. \A x \in {Held("run")', Held("popen")', Recorded("run")'} : ~HasCreateTime(x)'
    BY <2>3, <2>5
  <2>7. OneRuntime'
    BY <1>3, <1>4, <1>7, <2>2 DEF OneRuntime
  <2>8. OwnSound'
    BY <1>3, <2>1, <2>6 DEF OwnSound, OfConfig, Listening
  <2>9. LaunchSound'
    <3>1. OfConfig(r)'
      BY <1>3, <1>4, <1>5 DEF OfConfig
    <3> QED  BY <1>5, <1>7, <2>2, <2>6, <3>1 DEF LaunchSound
  <2>10. FoundSound' /\ StopSound'
    BY <1>7 DEF FoundSound, StopSound
  <2> QED  BY <2>7, <2>8, <2>9, <2>10 DEF RuntimesSound
<1>13. StopLeavesNothing'
  BY <1>3, <1>8 DEF StopLeavesNothing
<1> QED  BY <1>10, <1>11, <1>12, <1>13 DEF DeskInv, Unmistaken

LEMMA LaunchTunnelKeeps == \A p \in Pids : DeskInv /\ LaunchTunnel(p) => DeskInv'
<1> SUFFICES ASSUME NEW p \in Pids, DeskInv, LaunchTunnel(p) PROVE DeskInv'
  OBVIOUS
<1>1. /\ ClientInv /\ DeskType /\ OsSound /\ RefsSound /\ JobSound /\ SparesOthers
      /\ TunnelsSound
  BY DEF DeskInv, ClientInv
<1>2. PICK r : r = [pid |-> p, born |-> born]
  OBVIOUS
<1>3. /\ job.at = "tunnel" /\ Spawn(p, "tunnel") /\ port' = port
      /\ job' = [job EXCEPT !.at = "connect", !.tunnel = r]
      /\ UNCHANGED <<config, session, saved, report, wronged, mistaken, abandoned>>
  BY <1>2 DEF LaunchTunnel, ghosts
<1>4. /\ Steady /\ p \notin Live /\ Live' = Live \cup {p} /\ born' = born + 1
      /\ \A q \in Live : proc'[q] = proc[q] /\ Ref(q)' = Ref(q)
      /\ proc'[p].kind = "tunnel" /\ proc'[p].cfg = config
      /\ Ref(p)' = r
  BY <1>1, <1>2, <1>3, SpawnStarts
<1>5. r \in Reference /\ r # Vacant /\ r.pid = p /\ r.born = born /\ born \in Nat
  <2>1. r \in [pid : Pids, born : Nat] /\ r.pid = p /\ r.born = born /\ born \in Nat
    BY <1>1, <1>2 DEF DeskType
  <2> QED  BY <2>1, NotVacant DEF Reference
<1>6. job \in JobRecord
  BY <1>1 DEF DeskType
<1>7. /\ job' \in JobRecord /\ job'.at = "connect" /\ job'.tunnel = r
      /\ job'.run = job.run /\ job'.popen = job.popen
  BY <1>3, <1>5, <1>6 DEF JobRecord, JobSteps
<1>8. job.run # Vacant /\ config \in Tunnelled /\ report = "none"
  BY <1>1, <1>3 DEF JobSound
<1>9. JobSound' /\ SparesOthers'
  BY <1>1, <1>3, <1>7, <1>8 DEF JobSound, SparesOthers
<1>10. ClientInv'
  <2>1. SessionRefs' /\ session' \in Session \cup {Vacant}
    BY <1>1, <1>3, <1>4, SessionStays
  <2>2. SavedRefs' /\ saved' \in StateFile \cup {Vacant}
    BY <1>1, <1>3, <1>4, SavedStays
  <2>3. TunnelRef(r)'
    BY <1>4, <1>5 DEF TunnelRef, KnownRef
  <2>4. JobRefs'
    <3>1. KnownRef(job.run) /\ ChildRef(job.popen)
      BY <1>1 DEF RefsSound, JobRefs
    <3>2. \A x, y : (KnownRef(x) => KnownRef(x)') /\ (ChildRef(y) => ChildRef(y)')
      BY <1>1, <1>3, <1>4, RolesStay
    <3>3. PICK x, y : x = job.run /\ y = job.popen
      OBVIOUS
    <3>4. KnownRef(x)' /\ ChildRef(y)'
      BY <3>1, <3>2, <3>3
    <3> QED  BY <1>7, <2>3, <3>3, <3>4 DEF JobRefs
  <2>5. config' \in Configs
    BY <1>1, <1>3 DEF DeskType
  <2> QED  BY <1>1, <1>3, <1>4, <1>7, <1>9, <2>1, <2>2, <2>4, <2>5, ClientMoves
<1>11. TunnelsSound'
  <2>1. Tunnels' = {p}
    BY <1>1, <1>3, <1>4 DEF Tunnels, TunnelsSound
  <2> QED  BY <1>3, <1>4, <1>7, <1>8, <2>1 DEF TunnelsSound
<1>12. ASSUME mistaken' = {} PROVE RuntimesSound'
  <2>1. \A q \in Live : q \in Live' /\ proc'[q] = proc[q] /\ Ref(q)' = Ref(q)
    BY <1>4
  <2>2. \A q \in Live' \ Live : proc'[q].kind # "runtime"
    BY <1>4
  <2> QED  BY <1>3, <1>4, <1>7, <1>12, <2>1, <2>2, StartsKeep
<1>13. StopLeavesNothing'
  BY <1>3, <1>8 DEF StopLeavesNothing
<1> QED  BY <1>10, <1>11, <1>12, <1>13 DEF DeskInv, Unmistaken

(* The runtime that is found is the one that listens, or the session's child. *)
LEMMA RuntimeIs ==
  ASSUME DeskInv, FindRuntime # Vacant
  PROVE  /\ FindRuntime \in Reference /\ HasCreateTime(FindRuntime)
         /\ KnownRef(FindRuntime) /\ FindRuntime.pid \in Live
         /\ proc[FindRuntime.pid].kind = "runtime" /\ proc[FindRuntime.pid].cfg = config
         /\ mistaken = {} /\ Runtimes # {} =>
              Listening(FindRuntime) \/ FindRuntime = Held("popen")
<1>1. DeskType /\ OsSound
  BY DEF DeskInv, ClientInv
<1>2. PICK r : r = FindRuntime
  OBVIOUS
<1>3. /\ r # Vacant /\ HasCreateTime(r) /\ proc[r.pid].kind = "runtime" /\ proc[r.pid].cfg = config
      /\ r \in {Held("run"), Held("popen"), Ref(port[config]), Recorded("run")}
  BY <1>1, <1>2, RuntimeFoundIs DEF MatchesRuntime
<1>4. Ref(port[config]) = r => port[config] \in Live
  BY <1>3 DEF Ref
<1>5. r \in Reference
  BY <1>1, <1>3, <1>4, PartsOf, LiveRef
<1>6. KnownRef(r) /\ r.pid \in Live
  BY <1>1, <1>3, <1>5, LiveKnown
<1>7. ASSUME mistaken = {}, Runtimes # {} PROVE Listening(r) \/ r = Held("popen")
  <2>1. \A x \in {Held("run"), Recorded("run")} : Listening(x)
    BY <1>7 DEF DeskInv, Unmistaken, RuntimesSound, OwnSound
  <2>2. Ref(port[config]) = r => port[config] = r.pid
    BY <1>1, <1>4, LiveRef
  <2> QED  BY <1>3, <2>1, <2>2 DEF Listening
<1> QED  BY <1>2, <1>3, <1>5, <1>6, <1>7

LEMMA StartAdoptsKeeps == DeskInv /\ StartAdopts => DeskInv'
<1> SUFFICES ASSUME DeskInv, StartAdopts PROVE DeskInv'
  OBVIOUS
<1>1. /\ ClientInv /\ DeskType /\ OsSound /\ RefsSound /\ JobSound /\ SparesOthers
      /\ TunnelsSound
  BY DEF DeskInv, ClientInv
<1>2. PICK r : r = FindRuntime
  OBVIOUS
<1>3. /\ job.at = "start" /\ r # Vacant /\ UNCHANGED <<report, osVars>>
      /\ UNCHANGED <<config, saved, wronged, mistaken, abandoned>>
  BY <1>2 DEF StartAdopts, ghosts
<1>4. /\ r \in Reference /\ HasCreateTime(r) /\ KnownRef(r) /\ r.pid \in Live
      /\ proc[r.pid].kind = "runtime" /\ proc[r.pid].cfg = config
      /\ (mistaken = {} /\ Runtimes # {} => Listening(r) \/ r = Held("popen"))
  BY <1>2, <1>3, RuntimeIs
<1>5. OnlyEnds /\ Live' = Live /\ Steady /\ SparesOthers'
  BY <1>1, <1>3, NothingEnds DEF OnlyEnds, SparesOthers
<1>6. job.run = Vacant /\ job.popen = Vacant /\ job.tunnel = Vacant /\ report = "none"
      /\ job \in JobRecord /\ config \in Configs
  BY <1>1, <1>3 DEF JobSound, DeskType
<1>7. HasCreateTime(r)' /\ OfConfig(r)' /\ KnownRef(r)'
      /\ (Listening(r) => Listening(r)') /\ proc' = proc
  BY <1>3, <1>4 DEF HasCreateTime, OfConfig, KnownRef, Listening, Ref, Live, osVars
<1>8. SavedRefs' /\ saved' \in StateFile \cup {Vacant}
  BY <1>1, <1>3, <1>5, SavedStays
<1>9. StopLeavesNothing'
  BY <1>3, <1>6 DEF StopLeavesNothing
<1>10. CASE config \in Tunnelled /\ FindTunnel = Vacant
  <2>1. job' = [job EXCEPT !.at = "tunnel", !.run = r] /\ session' = session
    BY <1>2, <1>10 DEF StartAdopts
  <2>2. /\ job' \in JobRecord /\ job'.at = "tunnel" /\ job'.run = r
        /\ job'.popen = Vacant /\ job'.tunnel = Vacant
    BY <1>4, <1>6, <2>1 DEF JobRecord, JobSteps
  <2>3. JobSound'
    BY <1>3, <1>6, <1>10, <2>2 DEF JobSound
  <2>4. ClientInv'
    <3>1. SessionRefs' /\ session' \in Session \cup {Vacant}
      BY <1>1, <1>3, <1>5, <2>1, SessionStays
    <3>2. JobRefs'
      BY <1>7, <2>2, VacantRef DEF JobRefs
    <3> QED  BY <1>1, <1>3, <1>5, <1>6, <1>8, <2>2, <2>3, <3>1, <3>2, ClientMoves
  <2>5. TunnelsSound'
    <3>1. ASSUME NEW p \in Tunnels PROVE FALSE
      <4>1. FindTunnel = Ref(p) /\ p \in Live
        BY <1>1, TunnelIs DEF Tunnels
      <4> QED  BY <1>1, <1>10, <4>1, LiveRef
    <3>2. Tunnels' = {}
      BY <1>5, <3>1 DEF Tunnels, OnlyEnds
    <3> QED  BY <1>3, <1>5, <2>2, <3>2, TunnelsKeep
  <2>6. ASSUME mistaken' = {} PROVE RuntimesSound'
    <3>1. \A p \in Runtimes' : port[config] = p \/ Ref(p) = Held("popen")' \/ Ref(p) = job'.popen
      BY <1>3, <1>5, <1>6, <2>1, <2>6, InSight
    <3>2. ~Launching'
      BY <2>2 DEF Launching
    <3>3. Held("popen")' = Held("popen") /\ Runtimes' \subseteq Runtimes
      BY <1>3, <1>5, <2>1, RuntimesShrink DEF Held
    <3>4. FoundSound'
      BY <1>3, <1>4, <1>7, <2>2, <2>6, <3>3 DEF FoundSound
    <3> QED  BY <1>3, <1>5, <2>1, <2>2, <2>6, <3>1, <3>2, <3>4, RuntimesKeep
  <2> QED  BY <1>9, <2>4, <2>5, <2>6 DEF DeskInv, Unmistaken
<1>11. CASE ~(config \in Tunnelled /\ FindTunnel = Vacant)
  <2>1. /\ JobAt("report")
        /\ session' = IF session # Vacant THEN session
                      ELSE [run |-> r, popen |-> Vacant, tunnel |-> Vacant]
    BY <1>2, <1>11 DEF StartAdopts
  <2>2. /\ job' \in JobRecord /\ job'.at = "report" /\ job'.run = Vacant
        /\ job'.popen = Vacant /\ job'.tunnel = Vacant
    BY <1>1, <1>6, <2>1, JobAtIs DEF JobSteps
  <2>3. JobSound'
    BY <1>3, <1>6, <2>2 DEF JobSound
  <2>4. TunnelsSound'
    BY <1>3, <1>5, <2>2, TunnelsKeep
  <2>5. CASE session # Vacant
    <3>1. session' = session
      BY <2>1, <2>5
    <3>2. ASSUME mistaken' = {} PROVE RuntimesSound'
      <4>1. \A p \in Runtimes' : port[config] = p \/ Ref(p) = Held("popen")' \/ Ref(p) = job'.popen
        BY <1>3, <1>5, <1>6, <3>1, <3>2, InSight
      <4>2. FoundSound' /\ ~Launching'
        BY <2>2 DEF FoundSound, Launching
      <4> QED  BY <1>3, <1>5, <2>2, <3>1, <3>2, <4>1, <4>2, RuntimesKeep
    <3> QED  BY <1>3, <1>5, <2>2, <2>3, <2>4, <3>1, <3>2, EndsKeep
  <2>6. CASE session = Vacant
    <3>1. /\ session' = [run |-> r, popen |-> Vacant, tunnel |-> Vacant]
          /\ session' \in Session /\ session' # Vacant
      BY <1>4, <2>1, <2>6, NotVacant DEF Session
    <3>2. Held("run")' = r /\ Held("popen")' = Vacant /\ Held("tunnel")' = Vacant
      BY <3>1 DEF Held
    <3>3. SessionRefs'
      BY <1>4, <1>7, <3>2, VacantRef DEF SessionRefs, RunRef
    <3>4. JobRefs'
      BY <2>2, VacantRef DEF JobRefs
    <3>5. ClientInv'
      BY <1>1, <1>3, <1>5, <1>6, <1>8, <2>2, <2>3, <3>1, <3>3, <3>4, ClientMoves
    <3>6. ASSUME mistaken' = {} PROVE RuntimesSound'
      <4>1. OneRuntime /\ OwnSound /\ mistaken = {}
        BY <1>3, <3>6 DEF DeskInv, Unmistaken, RuntimesSound
      <4>2. Held("popen") = Vacant
        BY <2>6 DEF Held
      <4>3. \A p \in Runtimes : p \in Live /\ Ref(p) # Vacant
        BY <1>1, LiveRef DEF Runtimes
      <4>4. Runtimes' = Runtimes /\ port' = port /\ Recorded("run")' = Recorded("run")
        BY <1>3, <1>5 DEF Runtimes, Recorded, osVars
      <4>5. OneRuntime'
        <5>1. \A p \in Runtimes : proc[p].cfg = config /\ port[config] = p
          BY <1>6, <4>1, <4>2, <4>3 DEF OneRuntime
        <5> QED  BY <1>3, <1>7, <4>1, <4>4, <5>1 DEF OneRuntime
      <4>6. \A x : HasCreateTime(x)' <=> HasCreateTime(x)
        BY <1>3, <1>5 DEF HasCreateTime, Ref, osVars
      <4>7. \A x \in {Recorded("run")} : OfConfig(x)' /\ (Runtimes # {} => Listening(x)')
        BY <1>3, <1>7, <4>1, <4>4, <4>6 DEF OwnSound, OfConfig, Listening
      <4>8. ~HasCreateTime(Vacant)'
        BY DEF HasCreateTime
      <4>9. Runtimes # {} => Listening(r)'
        BY <1>3, <1>4, <1>7, <4>1, <4>2
      <4>10. OwnSound'
        <5>1. saved' # Vacant => saved'.cfg = config'
          BY <1>3, <4>1 DEF OwnSound
        <5>2. \A x \in {Held("run")', Held("popen")', Recorded("run")'} : OfConfig(x)'
          BY <1>7, <3>2, <4>4, <4>7, <4>8 DEF OfConfig
        <5>3. Runtimes' # {} => \A x \in {Held("run")', Recorded("run")'} : Listening(x)'
          BY <3>2, <4>4, <4>7, <4>9
        <5>4. \A x \in {Held("popen")'} : HasCreateTime(x)' => Runtimes' \subseteq {x.pid}
          BY <3>2, <4>8
        <5> QED  BY <5>1, <5>2, <5>3, <5>4 DEF OwnSound
      <4>11. LaunchSound' /\ FoundSound' /\ StopSound'
        BY <2>2 DEF LaunchSound, Launching, FoundSound, StopSound
      <4> QED  BY <4>5, <4>10, <4>11 DEF RuntimesSound
    <3> QED  BY <1>9, <2>4, <3>5, <3>6 DEF DeskInv, Unmistaken
  <2> QED  BY <2>5, <2>6
<1> QED  BY <1>10, <1>11

LEMMA StopRuntimeKeeps == DeskInv /\ StopRuntime => DeskInv'
<1> SUFFICES ASSUME DeskInv, StopRuntime PROVE DeskInv'
  OBVIOUS
<1>1. /\ ClientInv /\ DeskType /\ OsSound /\ RefsSound /\ JobSound /\ SparesOthers
      /\ TunnelsSound
  BY DEF DeskInv, ClientInv
<1>2. PICK t, u :
        /\ t = FirstFound(<<Only(Held("tunnel"), HasCreateTime(Held("tunnel"))),
                            FindTunnel, FindStateTunnel>>)
        /\ u = FirstFound(<<Only(Held("run"), HasCreateTime(Held("run"))),
                            Only(Held("popen"), HasCreateTime(Held("popen"))),
                            FindRuntime, FindStateRuntime>>)
  OBVIOUS
<1>3. PICK h : h = Held("popen")
  OBVIOUS
<1>4. /\ job.at = "idle" /\ job' = [at |-> "stop", tunnel |-> t, run |-> u, popen |-> h]
      /\ session' = Vacant /\ report' = "none" /\ UNCHANGED osVars
      /\ UNCHANGED <<config, saved, wronged, mistaken, abandoned>>
  BY <1>2, <1>3 DEF StopRuntime, ghosts
<1>5. t = IF HasCreateTime(Held("tunnel")) /\ Held("tunnel") # Vacant THEN Held("tunnel")
          ELSE IF FindTunnel # Vacant THEN FindTunnel ELSE FindStateTunnel
  BY <1>2, FirstOfThree DEF Only
<1>6. u = IF HasCreateTime(Held("run")) /\ Held("run") # Vacant THEN Held("run")
          ELSE IF HasCreateTime(h) /\ h # Vacant THEN h
          ELSE IF FindRuntime # Vacant THEN FindRuntime ELSE FindStateRuntime
  BY <1>2, <1>3, FirstOfFour DEF Only
<1>7. t \in Reference /\ (t # Vacant => HasCreateTime(t) /\ proc[t.pid].kind = "tunnel")
  <2>1. Held("tunnel") \in Reference
        /\ (HasCreateTime(Held("tunnel")) => proc[Held("tunnel").pid].kind = "tunnel")
    BY <1>1 DEF RefsSound, SessionRefs, TunnelRef, KnownRef
  <2> QED  BY <1>1, <1>5, <2>1, TunnelFoundIs, NotVacant
<1>8. /\ u \in Reference
      /\ u # Vacant => HasCreateTime(u) /\ (proc[u.pid].kind = "runtime" \/ u.born \in mistaken)
  <2>1. \A x \in {Held("run"), h} : RunRef(x)
    BY <1>1, <1>3 DEF RefsSound, SessionRefs, ChildRef, RunRef
  <2>2. FindStateRuntime # Vacant => FindStateRuntime \in Reference
          /\ HasCreateTime(FindStateRuntime) /\ proc[FindStateRuntime.pid].kind = "runtime"
    BY <1>1, RuntimeFoundIs, PartsOf DEF MatchesRuntime
  <2> QED  BY <1>6, <2>1, <2>2, RuntimeIs, NotVacant DEF RunRef, KnownRef
<1>9. h \in Reference /\ ChildRef(h)
  BY <1>1, <1>3 DEF RefsSound, SessionRefs, ChildRef, KnownRef
<1>10. /\ job' \in JobRecord /\ job'.at = "stop" /\ job'.tunnel = t
       /\ job'.run = u /\ job'.popen = h
  BY <1>4, <1>7, <1>8, <1>9 DEF JobRecord, JobSteps
<1>11. OnlyEnds /\ Live' = Live /\ Steady /\ SparesOthers'
  BY <1>1, <1>4, NothingEnds DEF OnlyEnds, SparesOthers
<1>12. JobSound' /\ StopLeavesNothing'
  BY <1>4, <1>10 DEF JobSound, StopLeavesNothing
<1>13. ClientInv'
  <2>1. SessionRefs' /\ session' \in Session \cup {Vacant}
    BY <1>1, <1>4, <1>11, SessionStays
  <2>2. SavedRefs' /\ saved' \in StateFile \cup {Vacant}
    BY <1>1, <1>4, <1>11, SavedStays
  <2>3. TunnelRef(t) /\ RunRef(u)
    <3>1. t # Vacant => KnownRef(t)
      BY <1>1, <1>7, LiveKnown
    <3>2. u # Vacant => KnownRef(u)
      BY <1>1, <1>8, LiveKnown
    <3> QED  BY <1>7, <1>8, <3>1, <3>2 DEF TunnelRef, RunRef, KnownRef, HasCreateTime
  <2>4. TunnelRef(t)' /\ RunRef(u)' /\ ChildRef(h)' /\ KnownRef(u)'
    <3>1. mistaken \subseteq mistaken'
      BY <1>4
    <3>2. TunnelRef(t)' /\ RunRef(u)' /\ ChildRef(h)'
      BY <1>1, <1>9, <1>11, <2>3, <3>1, RolesStay
    <3> QED  BY <3>2 DEF RunRef
  <2>5. JobRefs'
    BY <1>10, <2>4 DEF JobRefs
  <2>6. config' \in Configs
    BY <1>1, <1>4 DEF DeskType
  <2> QED  BY <1>1, <1>4, <1>10, <1>11, <1>12, <2>1, <2>2, <2>5, <2>6, ClientMoves
<1>14. TunnelsSound'
  <2>1. ASSUME NEW p \in Tunnels PROVE t = Ref(p)
    <3>1. FindTunnel = Ref(p) /\ p \in Live
      BY <1>1, TunnelIs DEF Tunnels
    <3>2. t # Vacant
      BY <1>1, <1>5, <3>1, LiveRef
    <3> QED  BY <1>1, <1>7, <3>2, TunnelIs
  <2>2. Tunnels' \subseteq Tunnels
    BY <1>11 DEF Tunnels, OnlyEnds
  <2> QED  BY <1>4, <1>10, <1>11, <2>1, <2>2, TunnelsKeep
<1>15. ASSUME mistaken' = {} PROVE RuntimesSound'
  <2>1. OneRuntime /\ OwnSound /\ mistaken = {} /\ job.popen = Vacant
    BY <1>1, <1>4, <1>15 DEF DeskInv, Unmistaken, RuntimesSound, JobSound
  <2>2. /\ Runtimes' = Runtimes /\ \A p : Ref(p)' = Ref(p)
        /\ proc' = proc /\ port' = port
    BY <1>4, <1>11 DEF Runtimes, osVars, Ref
  <2>3. \A p \in Runtimes : /\ p \in Live /\ Ref(p) # Vacant
                            /\ proc[p].kind = "runtime" /\ proc[p].cfg = config
                            /\ port[config] = p \/ Ref(p) = h
    BY <1>1, <1>3, <2>1, LiveRef DEF Runtimes, OneRuntime
  <2>4. ASSUME NEW p \in Runtimes, Ref(p) # h PROVE u = Ref(p)
    <3>1. p \in Live /\ port[config] = p /\ Ref(p) # Vacant
      BY <2>3, <2>4
    <3>2. ASSUME NEW x \in Reference, HasCreateTime(x), x.pid = p PROVE x = Ref(p)
      BY <1>1, <3>2, RefMeans
    <3>3. HasCreateTime(Held("run")) => Held("run") = Ref(p)
      BY <1>1, <2>1, <3>1, <3>2, PartsOf DEF OwnSound, Listening
    <3>4. ~HasCreateTime(h)
      BY <1>3, <1>9, <2>1, <2>4, <3>2 DEF OwnSound
    <3>5. FindRuntime # Vacant
      <4>1. HasCreateTime(Ref(p)) /\ Ref(p).pid = p
        BY <1>1, <3>1, LiveRef
      <4>2. MatchesRuntime(Ref(port[config]), config)
        BY <2>3, <3>1, <4>1 DEF MatchesRuntime
      <4> QED  BY <1>1, <4>2, RuntimeFoundIs
    <3>6. FindRuntime = Ref(p)
      <4>1. Runtimes # {} /\ FindRuntime # h
        BY <3>4, <3>5, RuntimeIs
      <4>2. FindRuntime \in Reference /\ HasCreateTime(FindRuntime) /\ Listening(FindRuntime)
        BY <1>3, <2>1, <3>5, <4>1, RuntimeIs
      <4>3. FindRuntime.pid = p
        BY <3>1, <4>2 DEF Listening
      <4> QED  BY <3>2, <4>2, <4>3
    <3> QED  BY <1>6, <3>1, <3>3, <3>4, <3>5, <3>6
  <2>5. OneRuntime'
    BY <1>4, <1>10, <2>1, <2>2, <2>3 DEF OneRuntime
  <2>6. OwnSound'
    BY <1>4, <1>11, <2>1, HoldsKeep
  <2>7. StopSound'
    BY <1>10, <2>2, <2>4 DEF StopSound
  <2>8. LaunchSound' /\ FoundSound'
    BY <1>10 DEF LaunchSound, Launching, FoundSound
  <2> QED  BY <2>5, <2>6, <2>7, <2>8 DEF RuntimesSound
<1> QED  BY <1>12, <1>13, <1>14, <1>15 DEF DeskInv, Unmistaken

LEMMA RecordKeeps == DeskInv /\ Record => DeskInv'
<1> SUFFICES ASSUME DeskInv, Record PROVE DeskInv'
  OBVIOUS
<1>1. /\ ClientInv /\ DeskType /\ OsSound /\ JobRefs /\ JobSound /\ SparesOthers
      /\ TunnelsSound
  BY DEF DeskInv, ClientInv, RefsSound
<1>2. PICK x, y, z, w :
        /\ x = Ref(job.run.pid) /\ y = job.popen /\ z = job.tunnel
        /\ w = Only(job.tunnel, HasCreateTime(job.tunnel))
  OBVIOUS
<1>3. PICK h : h = Held("popen")
  OBVIOUS
<1>4. /\ job.at = "record"
      /\ session' = [run |-> x, popen |-> y, tunnel |-> z]
      /\ saved' = [run |-> x, tunnel |-> w, cfg |-> config]
      /\ mistaken' = mistaken \cup Confused
      /\ abandoned' = abandoned \cup {b \in Starting : h # Vacant /\ b = h.born}
      /\ Raises /\ UNCHANGED osVars /\ UNCHANGED <<config, wronged>>
  BY <1>2, <1>3 DEF Record
<1>5. x # Vacant => x \in Reference /\ job.run.pid \in Live /\ HasCreateTime(x) /\ KnownRef(x)
                    /\ x.pid = job.run.pid
  <2> SUFFICES ASSUME x # Vacant
               PROVE  x \in Reference /\ job.run.pid \in Live /\ HasCreateTime(x) /\ KnownRef(x)
                      /\ x.pid = job.run.pid
    OBVIOUS
  <2>1. job.run.pid \in Live
    BY <1>2 DEF Ref
  <2>2. x \in Reference /\ HasCreateTime(x) /\ x.pid = job.run.pid
    BY <1>1, <1>2, <2>1, LiveRef
  <2> QED  BY <1>1, <2>1, <2>2, LiveKnown
<1>6. x \in Reference /\ y \in Reference /\ z \in Reference /\ w \in {z, Vacant}
      /\ config \in Configs /\ ChildRef(y) /\ TunnelRef(z)
  BY <1>1, <1>2, <1>5, NotVacant DEF JobRefs, ChildRef, TunnelRef, KnownRef, Only, DeskType
<1>7. /\ session' \in Session /\ session' # Vacant /\ saved' \in StateFile /\ saved' # Vacant
      /\ saved'.cfg = config
  BY <1>4, <1>6, NotVacant DEF Session, StateFile
<1>8. /\ Held("run")' = x /\ Held("popen")' = y /\ Held("tunnel")' = z
      /\ Recorded("run")' = x /\ Recorded("tunnel")' = w
  BY <1>4, <1>7 DEF Held, Recorded
<1>9. OnlyEnds /\ Live' = Live /\ Steady /\ SparesOthers' /\ mistaken \subseteq mistaken'
  BY <1>1, <1>4, NothingEnds DEF OnlyEnds, SparesOthers
<1>10. /\ job' \in JobRecord /\ job'.at = "report" /\ job'.run = Vacant
       /\ job'.popen = Vacant /\ job'.tunnel = Vacant /\ report' = "none"
  BY <1>4, RaisesIs
<1>11. JobSound' /\ StopLeavesNothing'
  BY <1>10 DEF JobSound, StopLeavesNothing
<1>12. \A r : HasCreateTime(r)' <=> HasCreateTime(r)
  BY <1>4, <1>9 DEF HasCreateTime, Ref, osVars
<1>13. proc' = proc /\ port' = port /\ \A p : Ref(p)' = Ref(p)
  BY <1>4, <1>9 DEF osVars, Ref
<1>14. ClientInv'
  <2>1. RunRef(x)'
    <3>1. KnownRef(x)'
      BY <1>4, <1>5, <1>6 DEF KnownRef, osVars
    <3>2. x # Vacant => proc[x.pid].kind = "runtime" \/ x.born \in mistaken'
      BY <1>2, <1>4 DEF Confused
    <3> QED  BY <1>13, <3>1, <3>2 DEF RunRef, HasCreateTime
  <2>2. ChildRef(y)' /\ TunnelRef(z)' /\ TunnelRef(w)'
    BY <1>1, <1>6, <1>9, RolesStay, VacantRef
  <2>3. SessionRefs' /\ SavedRefs'
    BY <1>8, <2>1, <2>2 DEF SessionRefs, SavedRefs
  <2>4. JobRefs'
    BY <1>10, VacantRef DEF JobRefs
  <2>5. config' \in Configs
    BY <1>4, <1>6
  <2> QED  BY <1>1, <1>7, <1>9, <1>10, <1>11, <2>3, <2>4, <2>5, ClientMoves
<1>15. TunnelsSound'
  BY <1>4, <1>9, <1>10, TunnelsKeep
<1>16. ASSUME mistaken' = {} PROVE RuntimesSound'
  <2>1. OneRuntime /\ OwnSound /\ LaunchSound /\ FoundSound /\ mistaken = {} /\ Confused = {}
    BY <1>4, <1>16 DEF DeskInv, Unmistaken, RuntimesSound
  <2>2. Runtimes' \subseteq Runtimes
    BY <1>4, <1>9, RuntimesShrink
  <2>3. \A p \in Runtimes' : p \in Live /\ proc[p].kind = "runtime" /\ proc[p].cfg = config
    BY <2>1, <2>2 DEF Runtimes, OneRuntime
  <2>4. ASSUME NEW p \in Runtimes', Ref(p) = h PROVE port[config] = p
    <3>1. h # Vacant /\ h.born = proc[p].born
      BY <1>1, <2>3, <2>4, LiveRef
    <3>2. proc[p].born \notin abandoned'
      BY <1>13 DEF Runtimes
    <3>3. proc[p].born \notin Starting
      BY <1>4, <3>1, <3>2
    <3> QED  BY <2>3, <3>3 DEF Starting
  <2>5. OneRuntime'
    BY <1>3, <1>2, <1>4, <1>8, <1>13, <2>1, <2>2, <2>3, <2>4 DEF OneRuntime
  <2>6. x # Vacant => proc[x.pid].kind = "runtime" /\ x = job.run
    <3> SUFFICES ASSUME x # Vacant PROVE proc[x.pid].kind = "runtime" /\ x = job.run
      OBVIOUS
    <3>1. proc[x.pid].kind = "runtime"
      BY <1>2, <2>1 DEF Confused
    <3>2. HasCreateTime(job.run) /\ job.run # Vacant
      BY <1>1, <1>4, <1>5, <2>1, <3>1 DEF FoundSound, JobSound
    <3> QED  BY <1>2, <3>1, <3>2 DEF HasCreateTime
  <2>7. OfConfig(x) /\ OfConfig(y)
    <3>1. OfConfig(x)
      BY <1>4, <2>1, <2>6 DEF FoundSound, OfConfig, HasCreateTime
    <3>2. y # Vacant => Launching
      BY <1>2, <1>4 DEF Launching
    <3> QED  BY <1>2, <2>1, <3>1, <3>2 DEF LaunchSound, OfConfig, HasCreateTime
  <2>8. ASSUME Runtimes' # {}, HasCreateTime(x) PROVE port[config] = x.pid
    <3>1. x # Vacant /\ x = job.run /\ Runtimes # {}
      BY <2>2, <2>6, <2>8 DEF HasCreateTime
    <3>2. Listening(x) \/ x = h
      BY <1>3, <1>4, <2>1, <3>1 DEF FoundSound
    <3>3. CASE x = h
      <4>1. PICK p : p \in Runtimes'
        BY <2>8
      <4>2. p = x.pid
        BY <1>3, <2>1, <2>2, <2>8, <3>3, <4>1 DEF OwnSound
      <4>3. Ref(p) = h
        BY <2>8, <3>1, <3>3, <4>2 DEF HasCreateTime
      <4> QED  BY <2>4, <4>1, <4>2, <4>3
    <3> QED  BY <2>8, <3>2, <3>3 DEF Listening
  <2>9. HasCreateTime(y) => Runtimes' \subseteq {y.pid}
    <3>1. HasCreateTime(y) => Launching
      BY <1>2, <1>4 DEF Launching, HasCreateTime
    <3> QED  BY <1>2, <2>1, <2>2, <3>1 DEF LaunchSound
  <2>10. OwnSound'
    <3>1. OfConfig(x)' /\ OfConfig(y)'
      BY <1>4, <1>12, <1>13, <2>7 DEF OfConfig
    <3>2. Runtimes' # {} => Listening(x)'
      BY <1>4, <1>12, <1>13, <2>8 DEF Listening
    <3>3. HasCreateTime(y)' => Runtimes' \subseteq {y.pid}
      BY <1>12, <2>9
    <3> QED  BY <1>4, <1>7, <1>8, <3>1, <3>2, <3>3 DEF OwnSound
  <2>11. LaunchSound' /\ FoundSound' /\ StopSound'
    BY <1>10 DEF LaunchSound, Launching, FoundSound, StopSound
  <2> QED  BY <2>5, <2>10, <2>11 DEF RuntimesSound
<1> QED  BY <1>11, <1>14, <1>15, <1>16 DEF DeskInv, Unmistaken

LEMMA DeskStands == DeskInv /\ UNCHANGED deskVars => DeskInv'
<1> SUFFICES ASSUME DeskInv, UNCHANGED deskVars PROVE DeskInv'
  OBVIOUS
<1>1. UNCHANGED <<proc, port, born, config, session, saved, job, report, wronged, mistaken,
                  abandoned>>
  BY DEF deskVars
<1>2. /\ Live' = Live /\ \A p : Ref(p)' = Ref(p)
      /\ \A r : HasCreateTime(r)' <=> HasCreateTime(r)
      /\ \A x : Held(x)' = Held(x) /\ Recorded(x)' = Recorded(x)
  BY <1>1 DEF Live, Ref, HasCreateTime, Held, Recorded
<1>3. ClientInv'
  BY <1>1, <1>2 DEF DeskInv, ClientInv, DeskType, OsSound, RefsSound, SessionRefs, SavedRefs,
                    JobRefs, KnownRef, TunnelRef, ChildRef, RunRef, JobSound, SparesOthers
<1>4. TunnelsSound' /\ StopLeavesNothing'
  BY <1>1, <1>2 DEF DeskInv, TunnelsSound, Tunnels, StopLeavesNothing
<1>5. Runtimes' = Runtimes /\ (Launching' <=> Launching)
      /\ \A r : (OfConfig(r)' <=> OfConfig(r)) /\ (Listening(r)' <=> Listening(r))
  BY <1>1, <1>2 DEF Runtimes, Launching, OfConfig, Listening
<1>6. Unmistaken'
  BY <1>1, <1>2, <1>5 DEF DeskInv, Unmistaken, RuntimesSound, OneRuntime, OwnSound,
                          LaunchSound, FoundSound, StopSound
<1> QED  BY <1>3, <1>4, <1>6 DEF DeskInv

LEMMA DeskStep == DeskInv /\ [DeskNext]_deskVars => DeskInv'
<1> SUFFICES ASSUME DeskInv, [DeskNext]_deskVars PROVE DeskInv'
  OBVIOUS
<1>1. CASE Report
  BY <1>1, ReportKeeps
<1>2. CASE StartRuntime
  BY <1>2, StartRuntimeKeeps
<1>3. CASE StopRuntime
  BY <1>3, StopRuntimeKeeps
<1>4. CASE \E c \in Configs : SaveProfile(c)
  BY <1>4, SaveProfileKeeps
<1>5. CASE StartRefused
  BY <1>5, StartRefusedKeeps
<1>6. CASE StartClean
  BY <1>6, StartCleanKeeps
<1>7. CASE StartAdopts
  BY <1>7, StartAdoptsKeeps
<1>8. CASE RuntimeFound
  BY <1>8, RuntimeFoundKeeps
<1>9. CASE RuntimeTimeout
  BY <1>9, RuntimeTimeoutKeeps
<1>10. CASE TunnelConnects
  BY <1>10, TunnelConnectsKeeps
<1>11. CASE TunnelFails
  BY <1>11, TunnelFailsKeeps
<1>12. CASE Record
  BY <1>12, RecordKeeps
<1>13. CASE StopTunnel
  BY <1>13, StopTunnelKeeps
<1>14. CASE StopProcesses
  BY <1>14, StopProcessesKeeps
<1>15. CASE StopClears
  BY <1>15, StopClearsKeeps
<1>16. CASE ClientEnds
  BY <1>16, ClientEndsKeeps
<1>17. CASE \E p \in Pids : LaunchRuntime(p)
  BY <1>17, LaunchRuntimeKeeps
<1>18. CASE \E p \in Pids : LaunchTunnel(p)
  BY <1>18, LaunchTunnelKeeps
<1>19. CASE \E p \in Pids : Listens(p)
  BY <1>19, ListensKeeps
<1>20. CASE \E p \in Pids : Dies(p)
  BY <1>20, DiesKeeps
<1>21. CASE \E p \in Pids, c \in Configs : OtherStarts(p, c)
  BY <1>21, OtherStartsKeeps
<1>22. CASE UNCHANGED deskVars
  BY <1>22, DeskStands
<1> QED
  BY <1>1, <1>2, <1>3, <1>4, <1>5, <1>6, <1>7, <1>8, <1>9, <1>10, <1>11, <1>12, <1>13,
     <1>14, <1>15, <1>16, <1>17, <1>18, <1>19, <1>20, <1>21, <1>22, ZenonT(30) DEF DeskNext

LEMMA DeskStarts == DeskInit => DeskInv
<1> SUFFICES ASSUME DeskInit PROVE DeskInv
  OBVIOUS
<1>1. /\ proc = [p \in Pids |-> Vacant] /\ port = [c \in Configs |-> Vacant] /\ born = 0
      /\ config \in Configs /\ session = Vacant /\ saved = Vacant /\ job = NoJob
      /\ report = "none" /\ wronged = {} /\ mistaken = {}
  BY DEF DeskInit
<1>2. /\ job \in JobRecord /\ job.at = "idle"
      /\ job.run = Vacant /\ job.popen = Vacant /\ job.tunnel = Vacant
  BY <1>1, JobEnds
<1>3. Live = {}
  BY <1>1 DEF Live
<1>4. \A x : Held(x) = Vacant /\ Recorded(x) = Vacant
  BY <1>1 DEF Held, Recorded
<1>5. ~HasCreateTime(Vacant) /\ KnownRef(Vacant)
  BY NotVacant DEF HasCreateTime, KnownRef
<1>6. ClientInv
  <2>1. DeskType /\ OsSound
    BY <1>1, <1>2, <1>3 DEF DeskType, OsSound
  <2>2. RefsSound
    BY <1>2, <1>4, <1>5 DEF RefsSound, SessionRefs, SavedRefs, JobRefs, TunnelRef, ChildRef, RunRef
  <2>3. JobSound /\ SparesOthers
    BY <1>1, <1>2 DEF JobSound, SparesOthers
  <2> QED  BY <2>1, <2>2, <2>3 DEF ClientInv
<1>7. Tunnels = {} /\ Runtimes = {}
  BY <1>3 DEF Tunnels, Runtimes
<1>8. TunnelsSound /\ StopLeavesNothing
  BY <1>1, <1>2, <1>7 DEF TunnelsSound, StopLeavesNothing
<1>9. RuntimesSound
  BY <1>1, <1>2, <1>4, <1>5, <1>7 DEF RuntimesSound, OneRuntime, OwnSound, LaunchSound,
     Launching, FoundSound, StopSound, OfConfig
<1> QED  BY <1>6, <1>8, <1>9 DEF DeskInv, Unmistaken

(* The desktop client ends the processes that it started, and only those:  *)
(* it terminates no other program's process but one that a start took for  *)
(* its runtime, and after a stop or a status that says "stopped" nothing   *)
(* it launched runs but a runtime that it had lost sight of before it      *)
(* listened.  And no two tunnels of a configuration ever run, which is     *)
(* what the search for a tunnel by its command relies on.                  *)
THEOREM OwnProcessesAreSupervised == DeskSpec => [](SupervisesOwn /\ OneTunnel)
<1>1. DeskInv => SupervisesOwn /\ OneTunnel
  BY DEF DeskInv, ClientInv, SupervisesOwn, OneTunnel, TunnelsSound, Tunnels
<1> QED  BY <1>1, DeskStarts, DeskStep, PTL DEF DeskSpec
=============================================================================
