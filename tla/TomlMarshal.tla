---------------------------- MODULE TomlMarshal -----------------------------
(***************************************************************************)
(* Marshal (marshal.go) and the reader of TomlTables applied to what it     *)
(* writes.  The encoder for map[string]any and the one that goes by         *)
(* reflection differ in which lists they write as arrays of tables.  Values *)
(* are the trees of TomlTables; nil, and the text of scalars and keys, are  *)
(* left out.                                                                *)
(***************************************************************************)
EXTENDS TomlTables

CONSTANTS
  TmKeys,   \* the keys, in their sorted order
  TmTrees   \* the maps given to Marshal

VARIABLES
  tmTree,   \* the map of the call
  tmStyle,  \* "any": encodeAnyMapDocument; "reflect": encodeMapDocument
  tmCalled  \* Marshal was called

tmVars == <<tmTree, tmStyle, tmCalled>>

sortedKeys(m) == SelectSeq(TmKeys, LAMBDA k: k \in DOMAIN m)

isMap(v) == v.t = "map"

RECURSIVE hasNonEmptyTableLikeDescendantAny(_)
hasNonEmptyTableLikeDescendantAny(v) ==
  CASE v.t = "map" -> v.m # <<>> /\ \E k \in DOMAIN v.m: hasNonEmptyTableLikeDescendantAny(v.m[k])
    [] v.t = "list" -> \E i \in DOMAIN v.l: hasNonEmptyTableLikeDescendantAny(v.l[i])
    [] OTHER -> FALSE

containsNonEmptyTableLikeValueAny(m) == \E k \in DOMAIN m: hasNonEmptyTableLikeDescendantAny(m[k])

isArrayOfTablesAny(v) ==
  /\ v.t = "list" /\ v.l # <<>>
  /\ \A i \in DOMAIN v.l: isMap(v.l[i])
  /\ \/ \A i \in DOMAIN v.l: DOMAIN v.l[i].m = {}
     \/ \E i \in DOMAIN v.l: containsNonEmptyTableLikeValueAny(v.l[i].m)

\* The first element decides.
isArrayOfTables(v) == v.t = "list" /\ v.l # <<>> /\ isMap(Head(v.l))

AsTables(style, v) == IF style = "any" THEN isArrayOfTablesAny(v) ELSE isArrayOfTables(v)

isTableLike(style, v) == isMap(v) \/ AsTables(style, v)

\* writeValue: the value inside a line.
RECURSIVE writeValue(_)
writeValue(v) ==
  CASE v.t = "list" -> [t |-> "list", l |-> [i \in DOMAIN v.l |-> writeValue(v.l[i])]]
    [] v.t = "map" ->
         LET keys == sortedKeys(v.m)
         IN [t |-> "inline",
             pairs |-> [i \in DOMAIN keys |-> [key |-> <<keys[i]>>, value |-> writeValue(v.m[keys[i]])]]]
    [] OTHER -> v

\* A mutated form: tables first.
tablesFirst(lines, tables) == tables \o lines

\* A key written behind a header would belong to that header's table.
linesFirst(lines, tables) == lines \o tables

Header(kind, path) == <<[kind |-> kind, path |-> path]>>

\* The document for a value: an error for what is neither a map nor a struct.
RECURSIVE encodeDocument(_, _, _)
encodeDocument(style, v, path) ==
  LET keys == sortedKeys(v.m)
      line(k) == <<[kind |-> "key", path |-> <<k>>, value |-> writeValue(v.m[k])]>>
      items(k) == [i \in DOMAIN v.m[k].l |->
                     Header("arraytable", Append(path, k)) \o encodeDocument(style, v.m[k].l[i], Append(path, k))]
      table(k) == IF AsTables(style, v.m[k]) THEN FlattenSeq(items(k))
                  ELSE Header("table", Append(path, k)) \o encodeDocument(style, v.m[k], Append(path, k))
      each(ks, Op(_)) == FlattenSeq([i \in DOMAIN ks |-> Op(ks[i])])
  IN IF ~isMap(v) THEN <<[kind |-> "error"]>>
     ELSE linesFirst(each(SelectSeq(keys, LAMBDA k: ~isTableLike(style, v.m[k])), line),
                     each(SelectSeq(keys, LAMBDA k: isTableLike(style, v.m[k])), table))

marshalText(style, tree) == encodeDocument(style, tree, <<>>)

-----------------------------------------------------------------------------

TmInit == tmTree = NewDocumentMap /\ tmStyle = "any" /\ tmCalled = FALSE

TmNext == ~tmCalled /\ tmCalled' = TRUE /\ tmTree' \in TmTrees /\ tmStyle' \in {"any", "reflect"}

TmSpec == TmInit /\ [][TmNext]_tmVars

-----------------------------------------------------------------------------
(* Properties *)

\* The reader gives the tree of the document d.
SameTree(d) == d.ok /\ d.root = tmTree

\* The text is an error, has a path of both kinds, or is read as the tree.
ReadsBack(text) ==
  LET failed == \E i \in DOMAIN text: text[i].kind = "error"
      bothKinds == \E i, j \in DOMAIN text:
                     text[i].kind = "table" /\ text[j].kind = "arraytable" /\ text[i].path = text[j].path
  IN failed \/ (tmStyle = "reflect" /\ bothKinds) \/ SameTree(FoldLeft(parseStatement, NewDocument, text))

\* What Marshal writes for a map, empty tables and nested lists included, the reader accepts
\* and reads back as the same map.  Reflection may write one path as a table in one element of
\* an array and as an array of tables in the next, which the reader refuses: its indexes of
\* declared tables and array tables do not tell the elements apart.
TmRoundTrip == tmCalled => ReadsBack(marshalText(tmStyle, tmTree))
=============================================================================
