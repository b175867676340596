---------------------------- MODULE PatchStaging ----------------------------
(***************************************************************************)
(* How apply_patch turns the operations of a patch into the files that     *)
(* AtomicPatchCommitter installs: parse_patch, apply_update_hunks          *)
(* (coding_tools_mcp/patching.py) and _analyze_patch (server.py), while    *)
(* others write to the same files.                                         *)
(*                                                                         *)
(* A text is its lines and whether the last one is ended; the style of     *)
(* newlines and the byte order mark are left out, and so are the diff and  *)
(* the risk that the result reports.  An operation that is refused ends    *)
(* the patch without a change and is left out.  The commit of the staged   *)
(* files is AtomicPatch.                                                   *)
(***************************************************************************)
EXTENDS Integers, Sequences, FiniteSets

CONSTANTS
  Names,       \* paths
  Lines,       \* lines of text other than the empty one
  MaxLines,    \* bound on the lines of a file at first
  MaxHunk,     \* bound on the lines a hunk removes, and adds
  MaxHunks,    \* bound on the hunks of an update
  MaxOps,      \* bound on the operations of a patch
  MaxWrites,   \* bound on writes by others
  Missing      \* no such file; not staged

VARIABLES
  onDisk,    \* the files
  ops,     \* the operations staged so far
  staged,  \* per path: the new content and the baseline it was made from
  writes   \* writes by others so far

stagingVars == <<onDisk, ops, staged, writes>>

Blank == "blank"
UpTo(n) == UNION {[1..k -> Lines] : k \in 0..n}

(* "\n".join(lines), with the newline that ends it: no lines and a newline *)
(* is the text of one empty line.                                          *)
Text(lines, ended) ==
  [lines |-> IF lines = <<>> /\ ended THEN <<Blank>> ELSE lines, ended |-> ended]
Texts ==
  {Text(<<>>, FALSE)} \cup UNION {{Text(l, e) : e \in BOOLEAN} : l \in UpTo(MaxLines) \ {<<>>}}

(* What a path may hold, and what a patch may make of it *)
FileStates == [lines : Seq(Lines \cup {Blank}), ended : BOOLEAN] \cup {Missing}

ASSUME StagingAssumption ==
  /\ MaxLines \in Nat /\ MaxHunk \in Nat /\ MaxHunks \in Nat
  /\ MaxOps \in Nat /\ MaxWrites \in Nat
  /\ Missing \notin [content : FileStates, baseline : FileStates]

-----------------------------------------------------------------------------
(* apply_update_hunks *)

(* parse_update_hunk: what a hunk removes and what it puts there *)
Hunks == {h \in [old : UpTo(MaxHunk), new : UpTo(MaxHunk)] : h.old # h.new}

(* find_subsequence_all: the lines before each match *)
Matches(lines, old) ==
  IF old = <<>> THEN {0}
  ELSE {k \in 0..Len(lines) - Len(old) : SubSeq(lines, k + 1, k + Len(old)) = old}

Unique(lines, hunks) ==
  \A i \in DOMAIN hunks : Cardinality(Matches(lines, hunks[i].old)) = 1

(* sorted(s, key=...): elements of the same key keep their order *)
StableSort(s, key) ==
  LET before(i) == {j \in DOMAIN s : key[j] < key[i] \/ (key[j] = key[i] /\ j < i)}
  IN  [k \in DOMAIN s |-> s[CHOOSE i \in DOMAIN s : Cardinality(before(i)) = k - 1]]

(* Where each hunk begins and ends, in the order of their places *)
Places(lines, hunks) ==
  LET from(i) == CHOOSE k \in Matches(lines, hunks[i].old) : TRUE
      matched == [i \in DOMAIN hunks |->
                    [start |-> from(i), end |-> from(i) + Len(hunks[i].old),
                     new |-> hunks[i].new]]
  IN  StableSort(matched, [i \in DOMAIN hunks |-> from(i)])

Disjoint(places) == \A i \in 1..Len(places) - 1 : places[i].end <= places[i + 1].start

(* Mutant: the hunks are put in from the first to the last. *)
LastFirstForward(places) == places

(* sorted(matched, reverse=True): hunks at the same place keep their order *)
LastFirst(places) == StableSort(places, [i \in DOMAIN places |-> -places[i].start])

Splice(lines, m) == SubSeq(lines, 1, m.start) \o m.new \o SubSeq(lines, m.end + 1, Len(lines))

CanApply(text, hunks) == Unique(text.lines, hunks) /\ Disjoint(Places(text.lines, hunks))

(* The lines once the first k of these hunks are put in *)
Spliced(lines, order) ==
  LET after[k \in 0..Len(order)] ==
        IF k = 0 THEN lines ELSE Splice(after[k - 1], order[k])
  IN  after

ApplyUpdateHunks(text, hunks) ==
  LET order == LastFirst(Places(text.lines, hunks))
      result == Spliced(text.lines, order)[Len(order)]
  IN  IF hunks = <<>> THEN text
      ELSE Text(result, text.ended \/ (text.lines = <<>> /\ result # <<>>))

-----------------------------------------------------------------------------
(* parse_patch: the operations a patch is made of *)
OpAdd(p, t) == [kind |-> "add", path |-> p, text |-> t]
OpUpdate(p, hunks) == [kind |-> "update", path |-> p, hunks |-> hunks]
OpDelete(p) == [kind |-> "delete", path |-> p]
OpMove(p, q) == [kind |-> "move", path |-> p, to |-> q]

IsStaged(p) == staged[p] # Missing
Stage(content, baseline) == [content |-> content, baseline |-> baseline]
Parsed(op) == Len(ops) < MaxOps /\ ops' = Append(ops, op)

StagingInit ==
  /\ onDisk \in [Names -> Texts \cup {Missing}]
  /\ ops = <<>> /\ staged = [p \in Names |-> Missing] /\ writes = 0

(* _analyze_patch, one operation at a time.  Whether a file exists is      *)
(* asked of the disk, not of what is staged.                               *)
StageAdd(p, lines) ==
  LET text == Text(lines, TRUE) IN
  /\ onDisk[p] = Missing
  /\ Parsed(OpAdd(p, text))
  /\ staged' = [staged EXCEPT ![p] = Stage(text, Missing)]
  /\ UNCHANGED <<onDisk, writes>>

BaselineOf(p) == IF IsStaged(p) THEN staged[p].baseline ELSE onDisk[p]

StageUpdate(p, hunks) ==
  LET original == IF IsStaged(p) THEN staged[p].content ELSE onDisk[p] IN
  /\ onDisk[p] # Missing /\ original # Missing
  /\ Parsed(OpUpdate(p, hunks))
  /\ CanApply(original, hunks)
  /\ staged' = [staged EXCEPT ![p] = Stage(ApplyUpdateHunks(original, hunks), BaselineOf(p))]
  /\ UNCHANGED <<onDisk, writes>>

StageDelete(p) ==
  /\ onDisk[p] # Missing
  /\ Parsed(OpDelete(p))
  /\ staged' = [staged EXCEPT ![p] = Stage(Missing, onDisk[p])]
  /\ UNCHANGED <<onDisk, writes>>

StageMove(p, q) ==
  /\ onDisk[p] # Missing /\ onDisk[q] = Missing
  /\ Parsed(OpMove(p, q))
  /\ staged' = [staged EXCEPT ![p] = Stage(Missing, onDisk[p]), ![q] = Stage(onDisk[p], Missing)]
  /\ UNCHANGED <<onDisk, writes>>

(* Somebody else writes, or removes, a file. *)
WriteByOther(p, text) ==
  /\ writes < MaxWrites /\ writes' = writes + 1
  /\ onDisk' = [onDisk EXCEPT ![p] = text]
  /\ UNCHANGED <<ops, staged>>

StagingNext ==
  \/ \E p \in Names :
       \/ \E lines \in UpTo(1) : StageAdd(p, lines)
       \/ \E n \in 0..MaxHunks : \E hunks \in [1..n -> Hunks] : StageUpdate(p, hunks)
       \/ StageDelete(p)
       \/ \E q \in Names : StageMove(p, q)
       \/ \E lines \in UpTo(1) : WriteByOther(p, Text(lines, TRUE))
       \/ WriteByOther(p, Missing)

StagingSpec == StagingInit /\ [][StagingNext]_stagingVars

-----------------------------------------------------------------------------
(* What a patch says, one operation after the other.  The text an update   *)
(* writes is read off from the first line to the last: the lines between   *)
(* one hunk and the next stay, and those of a hunk are its new ones.       *)
EndOf(places, i) == IF i = 0 THEN 0 ELSE places[i].end

Written(lines, places) ==
  LET upTo[i \in 0..Len(places)] ==
        IF i = 0 THEN <<>>
        ELSE upTo[i - 1] \o SubSeq(lines, EndOf(places, i - 1) + 1, places[i].start)
               \o places[i].new
  IN  upTo[Len(places)] \o SubSeq(lines, EndOf(places, Len(places)) + 1, Len(lines))

Replaced(text, hunks) ==
  LET result == Written(text.lines, Places(text.lines, hunks))
  IN  IF hunks = <<>> THEN text
      ELSE Text(result, text.ended \/ (text.lines = <<>> /\ result # <<>>))

Effect(files, op) ==
  CASE op.kind = "add"    -> [files EXCEPT ![op.path] = op.text]
    [] op.kind = "update" -> [files EXCEPT ![op.path] = Replaced(files[op.path], op.hunks)]
    [] op.kind = "delete" -> [files EXCEPT ![op.path] = Missing]
    [] op.kind = "move"   -> [files EXCEPT ![op.to] = files[op.path], ![op.path] = Missing]

AsWritten(files, patch) ==
  LET after[k \in 0..Len(patch)] == IF k = 0 THEN files ELSE Effect(after[k - 1], patch[k])
  IN  after[Len(patch)]

NamesIn(op) == {op.path} \cup IF op.kind = "move" THEN {op.to} ELSE {}

(* An operation other than an update goes on with what an earlier one      *)
(* staged; _analyze_patch reads the disk there, and drops the earlier one. *)
Repeats ==
  \E i, j \in DOMAIN ops :
    /\ i < j /\ NamesIn(ops[i]) \cap NamesIn(ops[j]) # {}
    /\ ~(ops[i].kind = "update" /\ ops[j].kind = "update")

(* A hunk without context comes before another one: both go to the first   *)
(* line, in the order opposite to the one that keeps them apart.           *)
InsertsFirst ==
  \E i \in DOMAIN ops :
    /\ ops[i].kind = "update"
    /\ \E k \in 1..Len(ops[i].hunks) - 1 : ops[i].hunks[k].old = <<>>

(* When the committer finds every baseline unchanged, installing the       *)
(* staged files is exactly what the patch says of the files as they are    *)
(* now, however many hunks shift the lines of the next ones and whoever    *)
(* wrote in between.  Patches that go on with a path by other means than   *)
(* updates, and hunks without context before other hunks, are not covered. *)
StagedAsWritten ==
  (\A p \in Names : IsStaged(p) => staged[p].baseline = onDisk[p]) /\ ~Repeats /\ ~InsertsFirst =>
    [p \in Names |-> IF IsStaged(p) THEN staged[p].content ELSE onDisk[p]]
      = AsWritten(onDisk, ops)
=============================================================================
