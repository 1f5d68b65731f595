------------------------------ MODULE Comments ------------------------------
(* The comments of an address as src/src/comment.cpp keeps them: a regular *)
(* and a repeatable one, and the lines shown before (anterior) and after   *)
(* (posterior) the item.  The SDK numbers the extra lines of an address in *)
(* one series: anterior lines from E_PREV, posterior lines from E_NEXT;    *)
(* the code finds the end of a list by the first number without a line.    *)
EXTENDS Integers, Sequences, FiniteSets, SequencesExt, FiniteSetsExt, Selections

CONSTANTS
  Texts,          \* the texts of comments, the empty one left out
  Capacity,       \* line numbers from E_PREV to E_NEXT (1000 in the SDK)
  MaxLines,       \* lines in a list that a client sets, a bound
  MaxSteps        \* operations, a bound

NoText == ""

ASSUME CommentsAssumption ==
  Capacity \in Nat \ {0} /\ MaxLines \in Nat /\ MaxSteps \in Nat /\ NoText \notin Texts

VARIABLES
  extra,      \* the SDK's extra lines: from some numbers to texts
  comments,   \* the regular and the repeatable comment, if any
  step,       \* the last operation on the lines and what it was asked
  steps

commentvars == <<extra, comments, step, steps>>

AllTexts == Texts \cup {NoText}
E_PREV == 0
E_NEXT == Capacity
FirstNumber == [Anterior |-> E_PREV, Posterior |-> E_NEXT]
Sides == {"Anterior", "Posterior"}
Other(side) == IF side = "Anterior" THEN "Posterior" ELSE "Anterior"
Idle == [op |-> "none", side |-> "Anterior", at |-> 0, lines |-> << >>, result |-> "none"]

-----------------------------------------------------------------------------
(* get_extra_cmt answers with the length of the line, or less than zero:   *)
(* a line of no characters ends a list as a missing one does.              *)
HasLine(lines, n) == n \in DOMAIN lines /\ lines[n] # NoText

(* Among as many numbers as there are lines, and one more, is a gap. *)
Window(lines, base) == base .. base + Cardinality(DOMAIN lines)

(* The lines of a side: from its first number up to the first gap.         *)
FirstGap(lines, base) == Min({n \in Window(lines, base) : ~HasLine(lines, n)})
CollectFrom(lines, side) ==
  LET base == FirstNumber[side]
  IN [i \in 1 .. FirstGap(lines, base) - base |-> lines[base + i - 1]]
collect_extra_lines(side) == CollectFrom(extra, side)

(* delete_extra_cmts removes the lines from a number on, up to the first   *)
(* number that has none.                                                   *)
Deleted(lines, base) ==
  LET gap == Min({n \in Window(lines, base) : n \notin DOMAIN lines})
  IN [n \in DOMAIN lines \ (base .. gap - 1) |-> lines[n]]

(* update_extra_cmt stores a line, which the SDK may refuse. *)
StoredLine(lines, n, text) == [m \in DOMAIN lines \cup {n} |-> IF m = n THEN text ELSE lines[m]]

(* The texts of a list, each stored under the number after the last one.   *)
StoredAll(lines, base, list) ==
  LET stored == base .. base + Len(list) - 1
  IN [m \in DOMAIN lines \cup stored |-> IF m \in stored THEN list[m - base + 1] ELSE lines[m]]

-----------------------------------------------------------------------------
CommentsInit ==
  /\ extra = << >>
  /\ comments = [regular |-> NoText, repeatable |-> NoText]
  /\ step = Idle
  /\ steps = 0

Did(op, side, at, lines, result) ==
  step' = [op |-> op, side |-> side, at |-> at, lines |-> lines, result |-> result]

(* set, append and remove of the two comments: removing is storing an      *)
(* empty text.                                                             *)
SetComment(which, text) ==
  /\ comments' = [comments EXCEPT ![which] = text]
  /\ step' = Idle
  /\ UNCHANGED extra

RemoveComment(which) == SetComment(which, NoText)

(* add_anterior, add_posterior: the line goes to the first gap; a refusal  *)
(* of the SDK is not noticed.                                              *)
AddLine(side, text) ==
  /\ \/ extra' = StoredLine(extra, FirstGap(extra, FirstNumber[side]), text)
     \/ UNCHANGED extra
  /\ Did("add", side, 0, <<text>>, "ok")
  /\ UNCHANGED comments

(* set_anterior, set_posterior replace a line that is there. *)
SetLine(side, index, text) ==
  /\ \/ /\ index < 0 \/ ~HasLine(extra, FirstNumber[side] + index)
        /\ UNCHANGED extra
        /\ Did("set", side, index, <<text>>, "error")
     \/ /\ index >= 0 /\ HasLine(extra, FirstNumber[side] + index)
        /\ \/ /\ extra' = StoredLine(extra, FirstNumber[side] + index, text)
              /\ Did("set", side, index, <<text>>, "ok")
           \/ /\ UNCHANGED extra
              /\ Did("set", side, index, <<text>>, "error")
  /\ UNCHANGED comments

(* All lines of the side are deleted and the new ones stored one by one:   *)
(* a refusal leaves those before it.                                       *)
set_extra_lines_KeepsOld(side, list, op, at) ==
  /\ \E n \in 0 .. Len(list) :
       /\ extra' = StoredAll(extra, FirstNumber[side], SubSeq(list, 1, n))
       /\ Did(op, side, at, list, IF n = Len(list) THEN "ok" ELSE "error")
  /\ UNCHANGED comments

set_extra_lines(side, list, op, at) ==
  /\ \E n \in 0 .. Len(list) :
       /\ extra' = StoredAll(Deleted(extra, FirstNumber[side]), FirstNumber[side], SubSeq(list, 1, n))
       /\ Did(op, side, at, list, IF n = Len(list) THEN "ok" ELSE "error")
  /\ UNCHANGED comments

(* remove_anterior_line, remove_posterior_line: the lines that are shown   *)
(* are collected, and set again without the one.                           *)
RemoveLine(side, index) ==
  LET lines == collect_extra_lines(side)
  IN \/ /\ index < 0 \/ index >= Len(lines)
        /\ Did("remove", side, index, lines, "error")
        /\ UNCHANGED <<extra, comments>>
     \/ /\ index >= 0 /\ index < Len(lines)
        /\ set_extra_lines(side, RemoveAt(lines, index + 1), "remove", index)

SetLines(side, list) == set_extra_lines(side, list, "lines", 0)

ClearLines(side) ==
  /\ extra' = Deleted(extra, FirstNumber[side])
  /\ Did("clear", side, 0, << >>, "ok")
  /\ UNCHANGED comments

Lists == UNION {[1 .. n -> AllTexts] : n \in 0 .. MaxLines}

CommentOperation ==
  \/ \E which \in {"regular", "repeatable"}, text \in Texts : SetComment(which, text)
  \/ \E which \in {"regular", "repeatable"} : RemoveComment(which)
  \/ \E side \in Sides, text \in AllTexts :
       /\ FirstGap(extra, FirstNumber[side]) < 2 * Capacity
       /\ AddLine(side, text)
  \/ \E side \in Sides, index \in -1 .. Capacity, text \in AllTexts : SetLine(side, index, text)
  \/ \E side \in Sides, index \in -1 .. Capacity : RemoveLine(side, index)
  \/ \E side \in Sides, list \in Lists : SetLines(side, list)
  \/ \E side \in Sides : ClearLines(side)

CommentsNext == steps < MaxSteps /\ steps' = steps + 1 /\ CommentOperation

CommentsSpec == CommentsInit /\ [][CommentsNext]_commentvars

-----------------------------------------------------------------------------
(* render: the comments, then the lines.  The repeatable comment is left   *)
(* out when it reads like the regular one.                                 *)
RenderedComments ==
  IF comments.repeatable = comments.regular THEN <<comments.regular>>
  ELSE <<comments.regular, comments.repeatable>>

render ==
  Picked(RenderedComments, {i \in DOMAIN RenderedComments : RenderedComments[i] # NoText})
    \o collect_extra_lines("Anterior") \o collect_extra_lines("Posterior")

-----------------------------------------------------------------------------
(* While the anterior lines do not reach the numbers of the posterior ones *)
(* and every line has text.  (An anterior index of Capacity or more is the *)
(* index of a posterior line.)                                             *)
SidesApart(lines) == Len(CollectFrom(lines, "Anterior")) < Capacity
Orderly(lines) == SidesApart(lines) /\ \A n \in DOMAIN lines : lines[n] # NoText

UpToEmpty(list) ==
  SubSeq(list, 1, Min({i \in 1 .. Len(list) + 1 : i > Len(list) \/ list[i] = NoText}) - 1)

(* What a client sees of operation s on the lines of a side, which were    *)
(* shown as old before and are shown as new: adding appends the line or,   *)
(* unnoticed, nothing; a removal takes out exactly one; setting a list     *)
(* shows it up to its first empty text; an error in the middle leaves a    *)
(* prefix.                                                                 *)
ShownAs(s, old, new) ==
  /\ s.op = "add" => new \in {old, old \o UpToEmpty(s.lines)}
  /\ s.op = "set" =>
       new = IF s.result = "ok" THEN UpToEmpty([old EXCEPT ![s.at + 1] = s.lines[1]]) ELSE old
  /\ s.op = "remove" =>
       IF s.result = "ok" THEN new = RemoveAt(old, s.at + 1)
       ELSE new = old \/ IsPrefix(new, RemoveAt(old, s.at + 1))
  /\ s.op \in {"lines", "clear"} =>
       IF s.result = "ok" THEN new = UpToEmpty(s.lines)
       ELSE IsPrefix(new, UpToEmpty(s.lines))
  /\ s.op = "none" => new = old

(* The step s from the lines before to those after: the lines of the other *)
(* side stay as they are when no text is empty.                            *)
StepShows(s, before, after) ==
  /\ Orderly(before) /\ SidesApart(after) /\ s.at < Capacity =>
       ShownAs(s, CollectFrom(before, s.side), CollectFrom(after, s.side))
  /\ Orderly(before) /\ Orderly(after) /\ s.at < Capacity =>
       CollectFrom(after, Other(s.side)) = CollectFrom(before, Other(s.side))

(* Every operation does to the lines of the side it names what a client    *)
(* asked for, and to those of the other side nothing; the two comments     *)
(* change no line, and whatever is there is rendered.                      *)
CommentLinesSound ==
  [][steps' # steps =>
       /\ StepShows(step', extra, extra')
       /\ step'.op = "none" => extra' = extra
       /\ ToSet(render') = (ToSet(CollectFrom(extra', "Anterior"))
                              \cup ToSet(CollectFrom(extra', "Posterior"))
                              \cup {comments'.regular, comments'.repeatable}) \ {NoText}]_commentvars
=============================================================================
