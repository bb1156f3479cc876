------------------------------ MODULE LineEdits -----------------------------
(***************************************************************************)
(* The batch of line edits of patch_file                                    *)
(* (nerd/src/tools/patch_file/apply.rs): an agent puts together updates,     *)
(* then the tool applies them to the file, all by the line numbers of the    *)
(* original.  A content is a sequence of line texts and line ends; a line    *)
(* is <<>> when it is blank, and <<text>> else.                             *)
(***************************************************************************)
EXTENDS Naturals, FiniteSets, SequencesExt

CONSTANTS
    Contents,       \* what the file may hold at first
    NewLines,       \* texts of the lines an agent writes
    MaxLine,        \* bound: line numbers an agent may ask for
    MaxUpdates      \* bound: updates of a batch

(* A content is a sequence, of whatever texts and line ends.                *)
ASSUME ContentsAssumption == \A c \in Contents : c \in Seq(ToSet(c))

VARIABLES
    file,           \* its content
    updates,        \* the batch, as asked for so far
    result          \* of the batch: [ok, from], from the content it was for

lineVars == <<file, updates, result>>

LineEnds == {"\n", "\r\n", "\r"}
EndsLine(c) == c # <<>> /\ c[Len(c)] \in LineEnds

(* split_lines.  A file of one line end only has no line.                   *)
SplitLines(c) ==
    LET body == IF EndsLine(c) THEN Front(c) ELSE c
        stops == {p \in DOMAIN body : body[p] \in LineEnds} \cup {0, Len(body) + 1}
        Stop(k) == CHOOSE p \in stops : Cardinality({q \in stops : q < p}) = k
    IN  IF body = <<>> THEN <<>>
        ELSE [k \in 1..(Cardinality(stops) - 1) |-> SubSeq(body, Stop(k - 1) + 1, Stop(k) - 1)]

(* detect_line_ending: CRLF if there is one, else LF, else CR.              *)
LineEnding(c) ==
    IF "\r\n" \in ToSet(c) THEN "\r\n"
    ELSE IF "\r" \in ToSet(c) /\ "\n" \notin ToSet(c) THEN "\r" ELSE "\n"

Joined(lines, trailing, end) ==
    FoldLeft(LAMBDA t, k : t \o lines[k] \o (IF k < Len(lines) \/ trailing THEN <<end>> ELSE <<>>),
             <<>>, [k \in DOMAIN lines |-> k])

-----------------------------------------------------------------------------
(* plan_updates.                                                            *)

Of(ups, kind) == {i \in DOMAIN ups : ups[i].kind = kind}

Removed(ups) == UNION {ups[i].start..ups[i].end : i \in Of(ups, "remove")}
ReplacedBy(ups, line) == {ups[i].new : i \in {j \in Of(ups, "replace") : ups[j].line = line}}
InsertedAfter(ups, line) ==                         \* in the order of the batch
    FlattenSeq([i \in DOMAIN ups |->
        IF ups[i].kind = "insert" /\ ups[i].line = line THEN ups[i].new ELSE <<>>])

Fits(u, count) ==
    CASE u.kind = "remove"  -> u.start >= 1 /\ u.start <= u.end /\ u.end <= count
      [] u.kind = "replace" -> 1 <= u.line /\ u.line <= count
      [] u.kind = "insert"  -> u.line <= count /\ u.new # <<>>

(* The first update that does not fit, or a conflict, fails the whole batch. *)
Planned(ups, count) ==
    /\ \A i \in DOMAIN ups : Fits(ups[i], count)
    /\ \A i, j \in Of(ups, "replace") : ups[i].line = ups[j].line => i = j
    /\ \A i \in Of(ups, "replace") : ups[i].line \notin Removed(ups)

(* apply_updates: what stands for the original line n, and behind it.       *)
SkipRemoved(ups, original, n) ==                    \* mutant: `continue` when removed
    IF n > 0 /\ n \in Removed(ups) THEN <<>>
    ELSE (IF n = 0 THEN <<>> ELSE IF ReplacedBy(ups, n) # {} THEN <<CHOOSE x \in ReplacedBy(ups, n) : TRUE>>
          ELSE <<original[n]>>) \o InsertedAfter(ups, n)
Emitted(ups, original, n) ==
    (IF n = 0 \/ n \in Removed(ups) THEN <<>>
     ELSE IF ReplacedBy(ups, n) # {} THEN <<CHOOSE x \in ReplacedBy(ups, n) : TRUE>>
     ELSE <<original[n]>>) \o InsertedAfter(ups, n)

ApplyUpdates(c, ups) ==
    LET original == SplitLines(c)
        output == FlattenSeq([k \in 1..(Len(original) + 1) |-> Emitted(ups, original, k - 1)])
    IN  Joined(output, EndsLine(c), LineEnding(c))

-----------------------------------------------------------------------------
None == [ok |-> FALSE, from |-> <<>>]

LineInit == file \in Contents /\ updates = <<>> /\ result = None

Line == {<<t>> : t \in NewLines} \cup {<<>>}
PatchUpdate ==
    [kind : {"remove"}, start : 0..MaxLine, end : 0..MaxLine]
    \cup [kind : {"replace"}, line : 0..MaxLine, new : Line]
    \cup [kind : {"insert"}, line : 0..MaxLine,
          new : {<<>>} \cup {<<l>> : l \in Line} \cup {<<l, <<>>>> : l \in Line}]

Ask ==
    /\ result = None /\ Len(updates) < MaxUpdates
    /\ \E u \in PatchUpdate : updates' = Append(updates, u)
    /\ UNCHANGED <<file, result>>

PatchFile ==
    /\ result = None /\ updates # <<>>
    /\ IF Planned(updates, Len(SplitLines(file)))
       THEN /\ file' = ApplyUpdates(file, updates)
            /\ result' = [ok |-> TRUE, from |-> file]
       ELSE result' = [ok |-> FALSE, from |-> file] /\ UNCHANGED file
    /\ UNCHANGED updates

LineNext == Ask \/ PatchFile

LineSpec == LineInit /\ [][LineNext]_lineVars

-----------------------------------------------------------------------------
(* Properties *)

(* The reference: the updates of one line at a time, from the bottom of the  *)
(* file to the top, so that no line above has moved when its turn comes.    *)
EditedAt(lines, ups, n) ==
    LET grown == SubSeq(lines, 1, n) \o InsertedAfter(ups, n) \o SubSeq(lines, n + 1, Len(lines))
    IN  IF n \in Removed(ups) THEN RemoveAt(grown, n)
        ELSE IF ReplacedBy(ups, n) # {} THEN ReplaceAt(grown, n, CHOOSE x \in ReplacedBy(ups, n) : TRUE)
        ELSE grown

FromTheBottom(c, ups) ==
    LET original == SplitLines(c)
        n == Len(original)
    IN  FoldLeft(LAMBDA lines, k : EditedAt(lines, ups, k), original,
                 [i \in 1..(n + 1) |-> n + 1 - i])

(* All line numbers of a batch refer to the original file: the outcome is    *)
(* that of the single edits made where nothing has moved yet, in the file's  *)
(* own line end, with a final one exactly when there was one and a line is   *)
(* left (apply_updates: "later operations do not shift the coordinates of    *)
(* earlier ones").                                                          *)
BatchIsFromOriginal ==
    result.ok =>
        LET lines == FromTheBottom(result.from, updates) IN
        file = Joined(lines, EndsLine(result.from), LineEnding(result.from))
=============================================================================
