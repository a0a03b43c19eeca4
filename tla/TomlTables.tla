----------------------------- MODULE TomlTables -----------------------------
(***************************************************************************)
(* The statements of a TOML document and the tree they build: parseDocument *)
(* and its helpers (value.go) for a destination that takes every key.       *)
(*                                                                          *)
(* A statement is a [table] or [[table]] header or a key with its value.    *)
(* The code keeps, beside the tree, four indexes of what was written how,   *)
(* keyed by the path in the text; a path means another table after each     *)
(* [[table]] header, which is what the declaration contexts are for.  Keys  *)
(* and scalars are opaque.                                                  *)
(***************************************************************************)
EXTENDS Integers, Sequences, FiniteSetsExt, SequencesExt, Functions, TLC

CONSTANTS
  TtHeaders,    \* the paths of headers
  TtKeys,       \* the dotted keys of assignments
  TtValues,     \* the values assigned, as written
  TtMaxLines    \* bound: statements in a document

VARIABLES
  ttDoc,    \* parseDocument's local variables
  ttHeld,   \* the values that accepted statements assigned, with their places
  ttHow,    \* how each table came to be: by "header" or by "dotted" key
  ttTwice,  \* a table was defined in two ways
  ttText    \* the statements so far

ttVars == <<ttDoc, ttHeld, ttHow, ttTwice, ttText>>

-----------------------------------------------------------------------------
(* Trees: []any, map[string]any and everything else *)

ScalarValue == [t |-> "scalar"]
ListOf(items) == [t |-> "list", l |-> items]
MapOf(fields) == [t |-> "map", m |-> fields]
NewDocumentMap == MapOf([k \in {} |-> ScalarValue])

\* A place is a sequence of steps <<key, 0>> into a map, or <<key, n>> to the nth element of
\* the list under the key.
RECURSIVE TreeAt(_, _)
TreeAt(tree, place) ==
  IF place = <<>> THEN tree
  ELSE LET child == tree.m[Head(place)[1]]
       IN TreeAt(IF Head(place)[2] = 0 THEN child ELSE child.l[Head(place)[2]], Tail(place))

RECURSIVE TreeHas(_, _)
TreeHas(tree, place) ==
  place = <<>> \/
  /\ tree.t = "map" /\ Head(place)[1] \in DOMAIN tree.m
  /\ LET child == tree.m[Head(place)[1]]
     IN IF Head(place)[2] = 0 THEN TreeHas(child, Tail(place))
        ELSE /\ child.t = "list" /\ Head(place)[2] <= Len(child.l)
             /\ TreeHas(child.l[Head(place)[2]], Tail(place))

\* tree with the value put under a key of the map at the place.
RECURSIVE TreePut(_, _, _, _)
TreePut(tree, place, key, value) ==
  IF place = <<>> THEN MapOf((key :> value) @@ tree.m)
  ELSE LET k == Head(place)[1]
           n == Head(place)[2]
       IN IF n = 0 THEN MapOf((k :> TreePut(tree.m[k], Tail(place), key, value)) @@ tree.m)
          ELSE [tree EXCEPT !.m[k].l[n] = TreePut(@, Tail(place), key, value)]

-----------------------------------------------------------------------------
(* Contexts *)

\* A mutated form: the element is forgotten.
declarationContextFlat(path, epochs) == [array |-> <<>>, epoch |-> 0]

\* The innermost array of tables on the path, and its current element.
declarationContext(path, epochs) ==
  LET on == {i \in 1..Len(path): SubSeq(path, 1, i) \in DOMAIN epochs}
      last == SubSeq(path, 1, Max(on))
  IN IF on = {} THEN [array |-> <<>>, epoch |-> 0] ELSE [array |-> last, epoch |-> epochs[last]]

Marked(index, path, epochs) ==
  path \in DOMAIN index /\ index[path] = declarationContext(path, epochs)

MarkAll(index, paths, epochs) == [p \in paths |-> declarationContext(p, epochs)] @@ index

closedInlinePrefix(path, closed, epochs) ==
  \E i \in 1..Len(path): Marked(closed, SubSeq(path, 1, i), epochs)

\* Everything inside a written value is closed; lists directly inside lists are not entered.
RECURSIVE closedValuePaths(_, _)
closedValuePaths(path, value) ==
  LET fields(map, p) == UNION {closedValuePaths(Append(p, k), map.m[k]): k \in DOMAIN map.m}
  IN CASE value.t = "map" -> {path} \cup fields(value, path)
       [] value.t = "list" -> {path} \cup UNION {fields(value.l[i], path):
                                         i \in {j \in DOMAIN value.l: value.l[j].t = "map"}}
       [] OTHER -> {}

\* The tables a dotted key goes through.
dottedPrefixes(full, current) == {SubSeq(full, 1, i): i \in Len(current) + 1 .. Len(full) - 1}

-----------------------------------------------------------------------------
(* Walks through the tree *)

\* The place of the table for a path, tables made on the way; a list is entered at its last
\* element when that is a table.
ensureTableRaw(tree, path) ==
  LET step(w, key) ==
        LET m == TreeAt(w.root, w.place).m
            next(n) == [w EXCEPT !.place = Append(@, <<key, n>>)]
        IN IF ~w.ok THEN w
           ELSE IF key \notin DOMAIN m
                THEN [next(0) EXCEPT !.root = TreePut(@, w.place, key, NewDocumentMap)]
           ELSE IF m[key].t = "map" THEN next(0)
           ELSE IF m[key].t = "list" /\ m[key].l # <<>> /\ Last(m[key].l).t = "map" THEN next(Len(m[key].l))
           ELSE [w EXCEPT !.ok = FALSE]
  IN FoldLeft(step, [root |-> tree, place |-> <<>>, ok |-> TRUE], path)

\* A new element of the list under a name of the table that the walk w led to.
AppendElement(w, name) ==
  LET m == TreeAt(w.root, w.place).m
      items == IF name \in DOMAIN m THEN m[name].l ELSE <<>>
  IN IF ~w.ok \/ (name \in DOMAIN m /\ m[name].t # "list") THEN [w EXCEPT !.ok = FALSE]
     ELSE [root |-> TreePut(w.root, w.place, name, ListOf(Append(items, NewDocumentMap))),
           place |-> Append(w.place, <<name, Len(items) + 1>>), ok |-> TRUE]

appendArrayTableRaw(tree, path) == AppendElement(ensureTableRaw(tree, Front(path)), Last(path))

\* The value under a new name of the table that the walk w led to.
AssignNew(w, name, value) ==
  IF ~w.ok \/ name \in DOMAIN TreeAt(w.root, w.place).m THEN [w EXCEPT !.ok = FALSE]
  ELSE [w EXCEPT !.root = TreePut(@, w.place, name, value)]

\* A dotted key goes through tables only and never replaces a value.
assignUniqueRaw(tree, place, key, value) ==
  LET step(w, k) ==
        LET m == TreeAt(w.root, w.place).m
        IN IF ~w.ok \/ (k \in DOMAIN m /\ m[k].t # "map") THEN [w EXCEPT !.ok = FALSE]
           ELSE [w EXCEPT !.root = IF k \in DOMAIN m THEN @ ELSE TreePut(@, w.place, k, NewDocumentMap),
                          !.place = Append(@, <<k, 0>>)]
  IN AssignNew(FoldLeft(step, [root |-> tree, place |-> place, ok |-> TRUE], Front(key)), Last(key), value)

-----------------------------------------------------------------------------
(* Values as written: scalars, arrays and inline tables, the latter a sequence of keys with
   their values *)

\* One pair of an inline table, its value parsed as v.
AssignPair(st, key, v) ==
  LET a == assignUniqueRaw(st.value, <<>>, key, v.value)
      none == [p \in {} |-> 0]
  IN IF ~st.ok \/ ~v.ok \/ closedInlinePrefix(key, st.closed, none) \/ ~a.ok
     THEN [st EXCEPT !.ok = FALSE]
     ELSE [st EXCEPT !.value = a.root, !.closed = MarkAll(@, closedValuePaths(key, v.value), none)]

\* A list of parsed items.
ParsedList(items) ==
  [ok |-> \A i \in DOMAIN items: items[i].ok, value |-> ListOf([i \in DOMAIN items |-> items[i].value])]

RECURSIVE parseRawValueToken(_)
parseRawValueToken(w) ==
  CASE w.t = "list" -> ParsedList([i \in DOMAIN w.l |-> parseRawValueToken(w.l[i])])
    [] w.t = "inline" ->
         FoldLeft(LAMBDA st, pair: AssignPair(st, pair.key, parseRawValueToken(pair.value)),
                  [ok |-> TRUE, value |-> NewDocumentMap, closed |-> <<>>], w.pairs)
    [] OTHER -> [ok |-> TRUE, value |-> ScalarValue]

-----------------------------------------------------------------------------
(* parseDocument, one statement at a time *)

NewDocument ==
  [root |-> NewDocumentMap, current |-> <<>>, currentPath |-> <<>>, declared |-> <<>>, dotted |-> <<>>,
   arrays |-> {}, epochs |-> <<>>, closed |-> <<>>, ok |-> TRUE]

tableHeader(d, path) ==
  LET w == ensureTableRaw(d.root, path)
      refused == \/ path \in d.arrays
                 \/ Marked(d.dotted, path, d.epochs)
                 \/ closedInlinePrefix(path, d.closed, d.epochs)
                 \/ Marked(d.declared, path, d.epochs)
  IN IF refused \/ ~w.ok THEN [d EXCEPT !.ok = FALSE]
     ELSE [d EXCEPT !.root = w.root, !.current = w.place, !.currentPath = path,
                    !.declared = MarkAll(@, {path}, d.epochs)]

arrayTableHeader(d, path) ==
  LET w == appendArrayTableRaw(d.root, path)
      refused == \/ path \in DOMAIN d.declared
                 \/ Marked(d.dotted, path, d.epochs)
                 \/ closedInlinePrefix(path, d.closed, d.epochs)
      epoch == IF path \in DOMAIN d.epochs THEN d.epochs[path] + 1 ELSE 1
  IN IF refused \/ ~w.ok THEN [d EXCEPT !.ok = FALSE]
     ELSE [d EXCEPT !.root = w.root, !.current = w.place, !.currentPath = path,
                    !.arrays = @ \cup {path}, !.epochs = (path :> epoch) @@ @]

\* A key with its parsed value v.
AssignKey(d, key, v) ==
  LET full == d.currentPath \o key
      through == dottedPrefixes(full, d.currentPath)
      w == assignUniqueRaw(d.root, d.current, key, v.value)
      refused == \E p \in through: p \in DOMAIN d.declared \/ Marked(d.closed, p, d.epochs)
  IN IF refused \/ ~v.ok \/ ~w.ok THEN [d EXCEPT !.ok = FALSE]
     ELSE [d EXCEPT !.root = w.root, !.dotted = MarkAll(@, through, d.epochs),
                    !.closed = MarkAll(@, closedValuePaths(full, v.value), d.epochs)]

keyValue(d, key, written) == AssignKey(d, key, parseRawValueToken(written))

parseStatement(d, s) ==
  IF ~d.ok THEN d
  ELSE CASE s.kind = "table" -> tableHeader(d, s.path)
         [] s.kind = "arraytable" -> arrayTableHeader(d, s.path)
         [] s.kind = "key" -> keyValue(d, s.path, s.value)

-----------------------------------------------------------------------------
(* A document, statement by statement *)

Statements ==
  [kind: {"table", "arraytable"}, path: TtHeaders] \cup [kind: {"key"}, path: TtKeys, value: TtValues]

TtInit ==
  ttDoc = NewDocument /\ ttText = <<>> /\ ttHeld = {} /\ ttHow = <<>> /\ ttTwice = FALSE

\* The places of the tables a dotted key goes through.
DottedPlaces(s) == {ttDoc.current \o [i \in 1..n |-> <<s.path[i], 0>>]: n \in 1..Len(s.path) - 1}

\* What the accepted statement s defined and assigned; next is the document after it.
Record(s, next) ==
  LET defined == IF s.kind = "key" THEN DottedPlaces(s) ELSE {next.current}
      how == IF s.kind = "key" THEN "dotted" ELSE "header"
  IN /\ ttHeld' = IF s.kind = "key"
                  THEN ttHeld \cup {[place |-> ttDoc.current \o [i \in DOMAIN s.path |-> <<s.path[i], 0>>],
                                     value |-> parseRawValueToken(s.value).value]}
                  ELSE ttHeld
     /\ ttHow' = [p \in defined |-> how] @@ ttHow
     /\ ttTwice' = (ttTwice \/ \E p \in defined \cap DOMAIN ttHow: "header" \in {how, ttHow[p]})

TtStatement(s) ==
  /\ ttDoc.ok /\ Len(ttText) < TtMaxLines
  /\ ttDoc' = parseStatement(ttDoc, s)
  /\ ttText' = Append(ttText, s)
  /\ IF ttDoc'.ok THEN Record(s, ttDoc') ELSE UNCHANGED <<ttHeld, ttHow, ttTwice>>

TtNext == \E s \in Statements: TtStatement(s)

TtSpec == TtInit /\ [][TtNext]_ttVars

-----------------------------------------------------------------------------
(* Properties *)

\* Whatever an accepted statement assigned stays at its place, whole: no later header, array
\* header or dotted key replaces a value, or adds to one that was written inline
\* (closedInlineTables, assignUniqueRaw).
TtNothingLost ==
  \A h \in ttHeld: TreeHas(ttDoc.root, h.place) /\ TreeAt(ttDoc.root, h.place) = h.value

\* No table of the tree is opened by two headers, or by a header and by a dotted key, although
\* the indexes that refuse this know tables by their paths in the text and one path names
\* another table after each [[header]].
TtOpenedOnce == ~ttTwice

\* The current element of the array of tables at the path in the document d.
CurrentElement(d, path) ==
  LET parent == ensureTableRaw(d.root, Front(path)).place
  IN Last(TreeAt(d.root, parent).m[Last(path)].l)

\* The document d, with a further element, has the same one twice.
SameElement(d, path) == d.ok /\ CurrentElement(d, path) = CurrentElement(ttDoc, path)

\* The lines of one element of an array of tables are accepted again for a further element, and
\* build the same table: declarationContext keeps the elements apart.  The arrays inside must
\* be the same ones in every element: the code does not distinguish them otherwise.
TtElementsAlike ==
  \A i \in DOMAIN ttText: ttDoc.ok /\ ttText[i].kind = "arraytable" =>
    LET lines == SubSeq(ttText, i + 1, Len(ttText))
        below(s) == IsStrictPrefix(ttText[i].path, s.path)
        oneElement == \A j \in DOMAIN lines: lines[j].kind = "key" \/ below(lines[j])
        sameArrays == \A j \in DOMAIN ttText:
                        ttText[j].kind = "arraytable" /\ below(ttText[j]) => ttText[j] \in Range(lines)
    IN oneElement /\ sameArrays =>
         SameElement(FoldLeft(parseStatement, ttDoc, <<ttText[i]>> \o lines), ttText[i].path)

\* The rules about tables keep what was written, open each table once and treat the elements
\* of an array alike.
TtTablesSound == TtNothingLost /\ TtOpenedOnce /\ TtElementsAlike
=============================================================================
