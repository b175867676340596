----------------------------- MODULE AtomicPatch -----------------------------
(***************************************************************************)
(* AtomicPatchCommitter.commit of coding_tools_mcp/patching.py, called by  *)
(* apply_patch of server.py under the runtime's patch_lock.                *)
(*                                                                         *)
(* A patch is a set of staged paths, each with the bytes and mode it had   *)
(* when it was staged (its baseline) and its new content.  The committer   *)
(* writes the new contents to temporary files, checks every baseline,      *)
(* moves each original to a backup file, moves the temporary files into    *)
(* place, and on an error undoes all of it from the backups.  Every check  *)
(* and every rename is a step; an editor, another process or a terminal    *)
(* may change a file between any two of them.                              *)
(*                                                                         *)
(* Bytes and mode are one datum.  Created parent directories and fsync are *)
(* left out.  Temporary and backup names are unique (mkstemp), so those of *)
(* an earlier patch are never met again.                                   *)
(***************************************************************************)
EXTENDS Integers, FiniteSets

CONSTANTS
  Paths,         \* the paths, as integers: a patch is processed in their order
  Contents,      \* what a file can hold
  Absent,        \* no file
  MaxBaselines,  \* MAX_PATCH_BASELINE_FILES
  MaxPatches,    \* bound on patches
  MaxFaults,     \* bound on failing system calls and lost backups
  MaxEdits,      \* bound on changes by others
  Interruptible  \* stdio: tools run on the main thread, which takes signals

ASSUME PathsAssumption == Paths \subseteq Int /\ IsFiniteSet(Paths)
ASSUME AbsentAssumption == Absent \notin Contents
ASSUME BoundsAssumption ==
  /\ {MaxBaselines, MaxPatches, MaxFaults, MaxEdits} \subseteq Nat
  /\ Interruptible \in BOOLEAN

Data == Contents \cup {Absent}

VARIABLES
  disk,      \* the files
  temp,      \* prepared files
  backup,    \* backup files
  changes,   \* the staged paths
  baseline,  \* per path: FileBaseline
  content,   \* per path: StagedFile.content, Absent for a deletion
  pc, todo,  \* step, and the changes its loop has still to treat
  backups,   \* keys of the dict of that name
  installed, \* paths that got their new content
  outcome,   \* how the patch ends
  recorded,  \* keys of Runtime.patch_baselines
  user,      \* per path: what others last put there (ghost)
  raced,     \* paths changed by others after their last check (ghost)
  patches, faults, edits

files == <<disk, temp, backup>>
patch == <<changes, baseline, content>>
ghosts == <<user, raced>>
counters == <<patches, faults, edits>>
vars == <<files, patch, pc, todo, backups, installed, outcome, recorded,
          ghosts, counters>>

Steps == {"idle", "prepare", "assert", "check", "move", "confirm", "install",
          "rollback", "temps", "cleanup", "mirror", "exit"}
Outcomes == {"none", "running", "applied", "failed", "unrestored", "interrupted",
             "unmirrored"}

(* The step after the finally block of commit. *)
Returned == CASE outcome = "interrupted" -> "exit"
              [] outcome = "applied"     -> "mirror"
              [] OTHER                   -> "idle"

(* for change in changes, and in reverse *)
First(i) == i \in todo /\ \A j \in todo : i <= j
Last(i)  == i \in todo /\ \A j \in todo : j <= i

(* Done with i: its loop goes on at step `again`, or ends and `next` begins. *)
Advance(i, again, next) ==
  IF todo = {i} THEN pc' = next  /\ todo' = changes
                ELSE pc' = again /\ todo' = todo \ {i}

Init ==
  /\ disk \in [Paths -> Data]
  /\ temp = [i \in Paths |-> Absent]
  /\ backup = [i \in Paths |-> Absent]
  /\ changes = {} /\ baseline = disk /\ content = disk
  /\ pc = "idle" /\ todo = {}
  /\ backups = {} /\ installed = {}
  /\ outcome = "none"
  /\ recorded = {}
  /\ user = disk /\ raced = {}
  /\ patches = 0 /\ faults = 0 /\ edits = 0

-----------------------------------------------------------------------------
(* PATCH_BASELINE_LIMIT: what a patch of S would record is too much. *)
TooManyBaselines(S) == Cardinality(recorded \cup S) > MaxBaselines

(* apply_patch: _analyze_patch captures the baselines, and                 *)
(* _commit_staged_files refuses a patch that would record too many.        *)
ApplyPatch(S, c) ==
  /\ pc = "idle"
  /\ patches < MaxPatches
  /\ S # {}
  /\ \A i \in S : c[i] = Absent => disk[i] # Absent
  /\ changes' = S /\ baseline' = disk
  /\ content' = [i \in Paths |-> IF i \in S THEN c[i] ELSE disk[i]]
  /\ user' = disk /\ raced' = {}
  /\ temp' = [i \in Paths |-> Absent]
  /\ backup' = [i \in Paths |-> Absent]
  /\ backups' = {} /\ installed' = {}
  /\ IF TooManyBaselines(S)
       THEN pc' = "idle" /\ todo' = {} /\ outcome' = "failed"
       ELSE pc' = "prepare" /\ todo' = S /\ outcome' = "running"
  /\ patches' = patches + 1
  /\ UNCHANGED <<disk, recorded, faults, edits>>

(* except Exception *)
Raise ==
  /\ pc' = "rollback" /\ todo' = changes
  /\ outcome' = "failed"

Unchanged == UNCHANGED <<patch, recorded, ghosts, counters>>

(* _prepare_file *)
Prepare(i) ==
  /\ pc = "prepare" /\ First(i)
  /\ temp' = [temp EXCEPT ![i] = content[i]]
  /\ Advance(i, "prepare", "assert")
  /\ UNCHANGED <<disk, backup, backups, installed, outcome>> /\ Unchanged

(* _assert_baseline of a whole pass, or again before a file is moved *)
AssertBaseline(i) ==
  /\ pc \in {"assert", "check"} /\ First(i)
  /\ IF disk[i] = baseline[i]
       THEN /\ IF pc = "assert" THEN Advance(i, "assert", "check")
                                ELSE pc' = "move" /\ todo' = todo
            /\ UNCHANGED outcome
       ELSE Raise                                    \* PATCH_CONFLICT
  /\ UNCHANGED <<files, backups, installed>> /\ Unchanged

(* if change.path.exists(): os.replace(change.path, backup) *)
MoveOriginal(i) ==
  /\ pc = "move" /\ First(i)
  /\ disk' = [disk EXCEPT ![i] = Absent]
  /\ backup' = [backup EXCEPT ![i] = disk[i]]
  /\ backups' = IF disk[i] = Absent THEN backups ELSE backups \cup {i}
  /\ Advance(i, "check", "confirm")
  /\ UNCHANGED <<temp, installed, outcome>> /\ Unchanged

(* A deletion is done; a path without a backup is checked once more. *)
ConfirmTarget(i) ==
  /\ pc = "confirm" /\ First(i)
  /\ \/ /\ content[i] = Absent
        /\ Advance(i, "confirm", "cleanup")
        /\ outcome' = IF todo = {i} THEN "applied" ELSE outcome
     \/ /\ content[i] # Absent
        /\ IF i \in backups \/ disk[i] = baseline[i]
             THEN pc' = "install" /\ UNCHANGED <<todo, outcome>>
             ELSE Raise                              \* PATCH_CONFLICT
  /\ UNCHANGED <<files, backups, installed>> /\ Unchanged

(* os.replace(prepared_path, change.path) *)
Install(i) ==
  /\ pc = "install" /\ First(i)
  /\ disk' = [disk EXCEPT ![i] = temp[i]]
  /\ temp' = [temp EXCEPT ![i] = Absent]
  /\ installed' = installed \cup {i}
  /\ Advance(i, "confirm", "cleanup")
  /\ outcome' = IF todo = {i} THEN "applied" ELSE outcome
  /\ UNCHANGED <<backup, backups>> /\ Unchanged

(* Mutant: only paths that got their new content are restored. *)
RollbackInstalled(i) ==
  /\ pc = "rollback" /\ Last(i)
  /\ disk' = [disk EXCEPT ![i] = IF i \in installed THEN backup[i] ELSE @]
  /\ backup' = [backup EXCEPT ![i] = Absent]
  /\ Advance(i, "rollback", "temps")
  /\ UNCHANGED <<temp, backups, installed, outcome>> /\ Unchanged

(* _rollback of one path: what was installed goes, the backup comes back. *)
Rollback(i) ==
  /\ pc = "rollback" /\ Last(i)
  /\ LET cleared == IF i \in installed THEN Absent ELSE disk[i]
     IN  disk' = [disk EXCEPT ![i] = IF i \in backups /\ backup[i] # Absent
                                       THEN backup[i] ELSE cleared]
  /\ backup' = [backup EXCEPT ![i] = Absent]
  /\ outcome' = IF i \in backups /\ backup[i] = Absent THEN "unrestored"
                ELSE outcome                         \* backup is missing
  /\ Advance(i, "rollback", "temps")
  /\ UNCHANGED <<temp, backups, installed>> /\ Unchanged

(* The end of _rollback. *)
UnlinkTemps ==
  /\ pc = "temps"
  /\ temp' = [i \in Paths |-> Absent]
  /\ pc' = "cleanup"
  /\ UNCHANGED <<disk, backup, todo, backups, installed, outcome>> /\ Unchanged

(* Mutant: preserve_backups is ignored. *)
CleanupAll ==
  /\ pc = "cleanup"
  /\ temp' = [i \in Paths |-> Absent]
  /\ backup' = [i \in Paths |-> Absent]
  /\ pc' = Returned
  /\ todo' = {}
  /\ recorded' = IF outcome = "applied" THEN recorded \cup changes ELSE recorded
  /\ UNCHANGED <<disk, patch, backups, installed, outcome, ghosts, counters>>

(* Mutant: every file that was looked at is entered, not only the counted ones. *)
CleanupRecordsAll ==
  /\ pc = "cleanup"
  /\ temp' = [i \in Paths |-> Absent]
  /\ backup' = [i \in Paths |-> Absent]
  /\ pc' = Returned
  /\ todo' = {}
  /\ recorded' = IF outcome = "applied" THEN DOMAIN baseline ELSE recorded
  /\ UNCHANGED <<disk, patch, backups, installed, outcome, ghosts, counters>>

(* finally; preserve_backups is outcome = "unrestored".  A successful      *)
(* commit then enters its baselines into patch_baselines.                  *)
Cleanup ==
  /\ pc = "cleanup"
  /\ temp' = [i \in Paths |-> Absent]
  /\ backup' = IF outcome = "unrestored" THEN backup
               ELSE [i \in Paths |-> IF i \in backups THEN Absent ELSE backup[i]]
  /\ pc' = Returned
  /\ todo' = {}
  /\ recorded' = IF outcome = "applied" THEN recorded \cup changes ELSE recorded
  /\ UNCHANGED <<disk, patch, backups, installed, outcome, ghosts, counters>>

(* The end of _commit_staged_files: the copy of the workspace in which     *)
(* commands run, if there is one, gets the new contents.                   *)
Mirror ==
  /\ pc = "mirror"
  /\ pc' = "idle"
  /\ UNCHANGED <<files, todo, backups, installed, outcome>> /\ Unchanged

-----------------------------------------------------------------------------
(* Failing system calls *)

Failing == faults < MaxFaults /\ faults' = faults + 1
UnchangedBut == UNCHANGED <<patch, backups, installed, recorded, ghosts,
                            patches, edits>>

(* A file cannot be written, read or renamed: no rename happened. *)
SystemCallFails ==
  /\ Failing
  /\ pc \in {"prepare", "assert", "check", "move", "confirm", "install"}
  /\ Raise
  /\ UNCHANGED files /\ UnchangedBut

(* unlink or os.replace fails in _rollback. *)
RollbackFails(i) ==
  /\ Failing
  /\ pc = "rollback" /\ Last(i)
  /\ i \in installed \/ i \in backups
  /\ disk' \in {disk, [disk EXCEPT ![i] = IF i \in installed /\ i \in backups
                                            THEN Absent ELSE @]}
  /\ outcome' = "unrestored"
  /\ Advance(i, "rollback", "temps")
  /\ UNCHANGED <<temp, backup>> /\ UnchangedBut

(* A temporary file cannot be removed, which _rollback reports as well. *)
UnlinkTempsFails ==
  /\ Failing
  /\ pc = "temps"
  /\ \E i \in Paths : temp[i] # Absent
  /\ outcome' = "unrestored"
  /\ pc' = "cleanup"
  /\ UNCHANGED <<files, todo>> /\ UnchangedBut

(* The copy cannot be written (SANDBOX_FAILED): the call fails after its   *)
(* commit.                                                                 *)
MirrorFails ==
  /\ Failing
  /\ pc = "mirror"
  /\ outcome' = "unmirrored"
  /\ pc' = "idle"
  /\ UNCHANGED <<files, todo>> /\ UnchangedBut

(* Somebody removes a backup file. *)
LoseBackup(i) ==
  /\ Failing
  /\ backup[i] # Absent
  /\ pc # "idle"
  /\ backup' = [backup EXCEPT ![i] = Absent]
  /\ raced' = raced \cup {i}
  /\ UNCHANGED <<disk, temp, patch, pc, todo, backups, installed, outcome,
                 recorded, user, patches, edits>>

(* SystemExit of the SIGTERM handler, or KeyboardInterrupt: no rollback. *)
Interrupt ==
  /\ Interruptible
  /\ Failing
  /\ pc \notin {"idle", "cleanup", "mirror", "exit"}
  /\ pc' = "cleanup" /\ outcome' = "interrupted"
  /\ UNCHANGED <<files, todo>> /\ UnchangedBut

(* The places where nothing looks at the file again before it is replaced. *)
Unwatched(i) ==
  \/ pc \in {"move", "install"} /\ First(i)
  \/ i \in backups
  \/ i \in installed

(* An editor or another process writes, creates or deletes a file. *)
Edit(i, d) ==
  /\ edits < MaxEdits
  /\ edits' = edits + 1
  /\ pc \notin {"idle", "exit"}
  /\ disk[i] # d
  /\ disk' = [disk EXCEPT ![i] = d]
  /\ user' = [user EXCEPT ![i] = d]
  /\ raced' = IF Unwatched(i) THEN raced \cup {i} ELSE raced
  /\ UNCHANGED <<temp, backup, patch, pc, todo, backups, installed, outcome,
                 recorded, patches, faults>>

CommitStep ==
  \/ \E i \in Paths :
       \/ Prepare(i) \/ AssertBaseline(i) \/ MoveOriginal(i)
       \/ ConfirmTarget(i) \/ Install(i) \/ Rollback(i)
  \/ UnlinkTemps
  \/ Cleanup
  \/ Mirror

Next ==
  \/ \E S \in SUBSET Paths : \E c \in [S -> Data] : ApplyPatch(S, c)
  \/ CommitStep
  \/ SystemCallFails \/ UnlinkTempsFails \/ MirrorFails \/ Interrupt
  \/ \E i \in Paths : RollbackFails(i) \/ LoseBackup(i) \/ \E d \in Data : Edit(i, d)

Spec == Init /\ [][Next]_vars

-----------------------------------------------------------------------------
TypeOK ==
  /\ disk \in [Paths -> Data] /\ temp \in [Paths -> Data] /\ backup \in [Paths -> Data]
  /\ baseline \in [Paths -> Data] /\ content \in [Paths -> Data]
  /\ user \in [Paths -> Data]
  /\ changes \subseteq Paths /\ todo \subseteq Paths
  /\ backups \subseteq Paths /\ installed \subseteq Paths
  /\ recorded \subseteq Paths /\ Cardinality(recorded) <= MaxBaselines
  /\ raced \subseteq Paths
  /\ pc \in Steps
  /\ outcome \in Outcomes
  /\ patches \in 0..MaxPatches
  /\ faults \in 0..MaxFaults
  /\ edits \in 0..MaxEdits

(* What others last put at i is in its place or in its backup. *)
Recoverable(i) == user[i] # Absent => user[i] \in {disk[i], backup[i]}

(* A patch that is reported as applied left every path with its new        *)
(* content; one that is reported as failed left every path, also one that  *)
(* was edited before its last check, as its user left it; and after        *)
(* PATCH_ROLLBACK_FAILED the user's bytes are in place or in a backup.     *)
AllOrNothing ==
  pc = "idle" =>
    /\ outcome \in {"applied", "unmirrored"} =>
         \A i \in changes \ raced : disk[i] = content[i]
    /\ outcome = "failed" => \A i \in Paths \ raced : disk[i] = user[i]
    /\ outcome = "unrestored" => \A i \in Paths \ raced : Recoverable(i)

(* Wherever the process may be killed before a patch is complete, the      *)
(* user's bytes are in place or in a backup.                               *)
OriginalsKept ==
  outcome \notin {"applied", "unmirrored", "interrupted"} =>
    \A i \in Paths \ raced : Recoverable(i)

(* "originals are retained as same-directory backups until the complete    *)
(* set succeeds, then removed": also when commit is left by an exception   *)
(* that is not an Exception.                                               *)
OriginalsRetained ==
  outcome \notin {"applied", "unmirrored"} => \A i \in Paths \ raced : Recoverable(i)
=============================================================================
