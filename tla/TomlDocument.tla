---------------------------- MODULE TomlDocument ----------------------------
(***************************************************************************)
(* The format-preserving Document (document.go): a text, the edits made to  *)
(* it, and the text it serializes to.                                       *)
(*                                                                          *)
(* A text is a sequence of cells: a header, the key of an assignment, its   *)
(* value, the end of a line.  An offset is a number of cells, and a span    *)
(* <<s, e>> is the cells s+1 to e.  Comments and blanks would be cells that *)
(* nothing looks at and are left out.  Every cell carries the place it had  *)
(* in the original text (src), 0 for a cell that an edit wrote.  A call     *)
(* that returns an error changes nothing and is not a step.                 *)
(***************************************************************************)
EXTENDS Integers, Sequences, FiniteSetsExt, SequencesExt, Functions, TLC

CONSTANTS
  TdTexts,     \* the texts to edit: sequences of lines, see TextOf
  TdPaths,     \* the paths edits name
  TdValues,    \* the values edits give
  TdBad,       \* those among them that formatDocumentValue refuses
  TdMaxEdits   \* bound: edits of a document

VARIABLES
  tdRaw,           \* d.raw
  tdSet,           \* entry.value of the entries that Set changed, by path
  tdReplacements,  \* d.replacements
  tdDeletions,     \* d.deletions
  tdInsertions,    \* d.insertions
  tdPending,       \* d.pending
  tdAsked,         \* the value the last edit of each path asked for
  tdEdits          \* edits so far

tdVars == <<tdRaw, tdSet, tdReplacements, tdDeletions, tdInsertions, tdPending, tdAsked, tdEdits>>

NoValue == "none"

-----------------------------------------------------------------------------
(* ParseDocument *)

KeyCells(text) == {i \in DOMAIN text: text[i].cell = "key"}

\* A key or a header begins a line.
WellFormed(text) ==
  \A i \in DOMAIN text: text[i].cell \in {"key", "header"} /\ i > 1 => text[i - 1].cell = "newline"

\* The path of the header above a cell.
currentPath(text, i) ==
  LET above == {j \in 1..i - 1: text[j].cell = "header"}
  IN IF above = {} THEN <<>> ELSE text[Max(above)].path

pathKey(text, i) == currentPath(text, i) \o text[i].path

\* From the start of the line to behind its newline, when it has one.
lineSpan(text, i) ==
  LET ends == {j \in i..Len(text): text[j].cell = "newline"}
  IN <<i - 1, IF ends = {} THEN Len(text) ELSE Min(ends)>>

valueSpan(i) == <<i, i + 1>>

\* The last entry for a path is the one the index keeps.
entryForPathKey(text, path) == {i \in KeyCells(text): pathKey(text, i) = path}

ValueAt(text, path) ==
  LET at == entryForPathKey(text, path)
  IN IF at = {} THEN NoValue ELSE text[Max(at) + 1].value

-----------------------------------------------------------------------------
(* The operations *)

HasEntry(path) == entryForPathKey(tdRaw, path) # {}

Without(f, path) == Restrict(f, DOMAIN f \ {path})

DocumentGet(path) ==
  CASE HasEntry(path) /\ path \in tdDeletions -> NoValue
    [] HasEntry(path) /\ path \notin tdDeletions ->
         IF path \in DOMAIN tdSet THEN tdSet[path] ELSE ValueAt(tdRaw, path)
    [] ~HasEntry(path) -> IF path \in DOMAIN tdPending THEN tdPending[path] ELSE NoValue

Edit(path, value) ==
  /\ tdEdits < TdMaxEdits /\ tdEdits' = tdEdits + 1
  /\ tdAsked' = (path :> value) @@ tdAsked
  /\ UNCHANGED tdRaw

\* Set takes back a deletion.
Undeleted(path) == tdDeletions \ {path}

Insert(after, path, value) ==
  /\ tdPending' = (path :> value) @@ tdPending
  /\ tdInsertions' = Append(tdInsertions, [after |-> after, path |-> path])
  /\ UNCHANGED <<tdSet, tdReplacements, tdDeletions>>

DocumentSet(path, value) ==
  /\ Edit(path, value) /\ value \notin TdBad
  /\ IF HasEntry(path)
     THEN /\ tdSet' = (path :> value) @@ tdSet
          /\ tdReplacements' = (path :> value) @@ tdReplacements
          /\ tdDeletions' = Undeleted(path)
          /\ tdPending' = Without(tdPending, path)
          /\ UNCHANGED tdInsertions
     ELSE Insert(<<>>, path, value)

InsertAfter(after, path, value) ==
  Edit(path, value) /\ HasEntry(after) /\ after \notin tdDeletions /\ Insert(after, path, value)

DocumentDelete(path) ==
  /\ Edit(path, NoValue)
  /\ UNCHANGED <<tdSet, tdInsertions>>
  /\ \/ /\ HasEntry(path)
        /\ tdDeletions' = tdDeletions \cup {path}
        /\ tdReplacements' = Without(tdReplacements, path)
        /\ UNCHANGED tdPending
     \/ /\ ~HasEntry(path) /\ path \in DOMAIN tdPending
        /\ tdPending' = Without(tdPending, path)
        /\ UNCHANGED <<tdDeletions, tdReplacements>>

-----------------------------------------------------------------------------
(* Bytes *)

Newline == [cell |-> "newline", src |-> 0]

formatDocumentKeyValue(path, value) ==
  <<[cell |-> "key", path |-> path, src |-> 0], [cell |-> "value", value |-> value, src |-> 0], Newline>>

\* What becomes of an entry: its line goes, its value is rewritten, or nothing.
entryOps(i) ==
  LET path == pathKey(tdRaw, i)
      op(span, text) == <<[start |-> span[1], end |-> span[2], text |-> text]>>
  IN CASE path \in tdDeletions -> op(lineSpan(tdRaw, i), <<>>)
       [] path \notin tdDeletions /\ path \in DOMAIN tdReplacements ->
            op(valueSpan(i), <<[cell |-> "value", value |-> tdReplacements[path], src |-> 0]>>)
       [] OTHER -> <<>>

Written(ins) == ins.path \in DOMAIN tdPending /\ tdPending[ins.path] \notin TdBad

insertionOps(ins) ==
  LET text == formatDocumentKeyValue(ins.path, tdPending[ins.path])
      joined == tdRaw # <<>> /\ Last(tdRaw).cell # "newline"
      op(pos, t) == <<[start |-> pos, end |-> pos, text |-> t]>>
  IN IF ~Written(ins) THEN <<>>
     ELSE IF ins.after = <<>> THEN op(Len(tdRaw), IF joined THEN <<Newline>> \o text ELSE text)
     ELSE op(lineSpan(tdRaw, Max(entryForPathKey(tdRaw, ins.after)))[2], text)

Numbered(ops) == [n \in DOMAIN ops |-> ("order" :> n) @@ ops[n]]

\* Edits in the order they were listed, each with its number.
documentOps ==
  LET cells == [i \in DOMAIN tdRaw |-> IF i \in KeyCells(tdRaw) THEN entryOps(i) ELSE <<>>]
      inserts == [n \in DOMAIN tdInsertions |-> insertionOps(tdInsertions[n])]
  IN Numbered(FlattenSeq(cells \o inserts))

\* A mutated form: the end does not count.
opLessByStart(a, b) == IF a.start = b.start THEN a.order < b.order ELSE a.start < b.start

opLess(a, b) ==
  CASE a.start # b.start -> a.start < b.start
    [] a.start = b.start /\ a.end # b.end -> a.end < b.end
    [] a.start = b.start /\ a.end = b.end -> a.order < b.order

\* What was written, and the rest of the text.
WithRest(w) == w.out \o SubSeq(tdRaw, w.cursor + 1, Len(tdRaw))

DocumentBytes ==
  LET apply(w, op) ==
        IF op.start < w.cursor \/ op.end < op.start \/ op.end > Len(tdRaw) THEN w
        ELSE [out |-> w.out \o SubSeq(tdRaw, w.cursor + 1, op.start) \o op.text, cursor |-> op.end]
  IN WithRest(FoldLeft(apply, [out |-> <<>>, cursor |-> 0], SortSeq(documentOps, opLess)))

-----------------------------------------------------------------------------
(* Editing a document *)

\* The cells of a text given by its lines, each a header or a key with its value; the last
\* line may lack its newline.
TextOf(lines, terminated) ==
  LET cells(acc, line) ==
        acc \o (IF line.kind = "header" THEN <<[cell |-> "header", path |-> line.path]>>
                ELSE <<[cell |-> "key", path |-> line.path], [cell |-> "value", value |-> line.value]>>)
            \o <<[cell |-> "newline"]>>
      all == FoldLeft(cells, <<>>, lines)
      text == IF terminated THEN all ELSE Front(all)
  IN [i \in DOMAIN text |-> ("src" :> i) @@ text[i]]

TdInit ==
  /\ tdRaw \in TdTexts
  /\ tdSet = <<>> /\ tdReplacements = <<>> /\ tdPending = <<>>
  /\ tdDeletions = {} /\ tdInsertions = <<>> /\ tdAsked = <<>> /\ tdEdits = 0

TdNext ==
  \E path \in TdPaths:
    \/ \E value \in TdValues: DocumentSet(path, value)
    \/ \E after \in TdPaths, value \in TdValues: InsertAfter(after, path, value)
    \/ DocumentDelete(path)

TdSpec == TdInit /\ [][TdNext]_tdVars

-----------------------------------------------------------------------------
(* Properties *)

\* Bytes changes nothing but what was edited: every cell of the original outside the lines
\* deleted and the values replaced is there, in its order, and every insertion that can be
\* written is written.  No edit falls to the guard that skips overlapping edits, whatever the
\* order in which an insertion and a deletion meet at one offset.
TdOnlyTheEdits(out) ==
  LET touched(i) == \E k \in KeyCells(tdRaw):
                      \/ pathKey(tdRaw, k) \in tdDeletions /\ i \in lineSpan(tdRaw, k)[1] + 1 .. lineSpan(tdRaw, k)[2]
                      \/ pathKey(tdRaw, k) \in DOMAIN tdReplacements /\ i = k + 1
      kept == SelectSeq([i \in DOMAIN tdRaw |-> i], LAMBDA i: ~touched(i))
      original == SelectSeq(out, LAMBDA c: c.src # 0)
  IN /\ [i \in DOMAIN original |-> original[i].src] = kept
     /\ Len(SelectSeq(out, LAMBDA c: c.src = 0 /\ c.cell = "key")) = Len(SelectSeq(tdInsertions, Written))

\* The edits whose place and number the code gets right: a new path is inserted once, above
\* every header, behind a line that is ended, with a value that can be written, into a text
\* that assigns each path once.
Careful ==
  LET written == {n \in DOMAIN tdInsertions: tdInsertions[n].path \in DOMAIN tdPending}
      at(ins) == IF ins.after = <<>> THEN Len(tdRaw) + 1 ELSE Max(entryForPathKey(tdRaw, ins.after))
  IN /\ \A i, j \in KeyCells(tdRaw): pathKey(tdRaw, i) = pathKey(tdRaw, j) => i = j
     /\ \A n \in written:
          LET ins == tdInsertions[n]
          IN /\ Written(ins) /\ ~HasEntry(ins.path)
             /\ \A m \in written: tdInsertions[m].path = ins.path => m = n
             /\ currentPath(tdRaw, at(ins)) = <<>>
             /\ ins.after # <<>> => Last(SubSeq(tdRaw, 1, lineSpan(tdRaw, at(ins))[2])).cell = "newline"

\* The last edit of each path took effect, in what Get answers and in what a reader of Bytes
\* finds: the text parses, assigns each path once, and gives it the value asked for last, or
\* its old one.  This holds after every sequence of careful edits, the deletion of an
\* insertion's anchor and the setting of what was deleted included.
TdEditsTakeEffect(out) ==
  LET asked(path) == IF path \in DOMAIN tdAsked THEN tdAsked[path] ELSE ValueAt(tdRaw, path)
  IN Careful =>
       /\ WellFormed(out)
       /\ \A i, j \in KeyCells(out): pathKey(out, i) = pathKey(out, j) => i = j
       /\ \A path \in TdPaths \cup {pathKey(tdRaw, i): i \in KeyCells(tdRaw)}:
            ValueAt(out, path) = asked(path) /\ DocumentGet(path) = asked(path)

\* What Bytes writes of an edited document has the edits, all of them, and nothing else.
TdEditsExact == TdOnlyTheEdits(DocumentBytes) /\ TdEditsTakeEffect(DocumentBytes)
=============================================================================
