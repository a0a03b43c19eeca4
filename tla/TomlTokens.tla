----------------------------- MODULE TomlTokens -----------------------------
(***************************************************************************)
(* The token stream of pkg/toml and its four readers, one lexeme at a time. *)
(*                                                                          *)
(* Decoder.readToken (decoder.go) turns bytes into tokens.  parseDocument   *)
(* (value.go, destinations with maps) and bindDocumentDirect                *)
(* (unmarshal_direct.go, plain structs) both build values from the tokens;  *)
(* scanSkippedStructuralValue (value.go) skips the value of an unknown key  *)
(* without tokens; documentParser.readValue (document.go) only looks for    *)
(* the span of a value.  All four read the same input here, and the         *)
(* properties compare what they make of it.                                 *)
(*                                                                          *)
(* A lexeme is what the scanner sees at one place: "key" is a well-formed   *)
(* key with its equals sign, "scalar" a string or bare value, "table" and   *)
(* "arraytable" a well-formed header, "#" a comment with its newline, "nl"  *)
(* a newline, the others themselves.  Blanks are left out.  The state keeps *)
(* no input, so that the inputs are of any length; only nesting is bounded. *)
(***************************************************************************)
EXTENDS Integers, Sequences, SequencesExt

CONSTANTS
  TkMaxNested,  \* Limits.MaxNestedDepth
  TkMaxFrames   \* bound: containers open at once

ASSUME TkNestedAssumption == TkMaxNested \in Nat \ {0} /\ TkMaxFrames \in Nat

VARIABLES
  tkDec,     \* the Decoder's flags, containerStack, arrayDepth and sticky error
  tkFrames,  \* the calls building a value: "value", "array", "inline", innermost last
  tkTable,   \* parseDocument: inTable
  tkSkip,    \* the reader that skips every value: its decoder, mode and frames
  tkEdit,    \* readValue: its two depths, and whether a value is being read
  tkLoose    \* the input used a form that only some of the readers refuse

tkVars == <<tkDec, tkFrames, tkTable, tkSkip, tkEdit, tkLoose>>

TkLexemes == {"key", "scalar", "table", "arraytable", "[", "]", "{", "}", ",", "=", "#", "nl"}

-----------------------------------------------------------------------------
(* Decoder *)

innermostIsArray(d) == d.stack # <<>> /\ Last(d.stack) = "array"

\* Decoder flags after a value, a closing bracket included, in the given containers.
AfterValue(d, stack) ==
  LET e == [d EXCEPT !.stack = stack]
  IN [e EXCEPT !.expectingValue = innermostIsArray(e), !.valueNoNewline = FALSE,
               !.needSeparator = stack # <<>>, !.needLineEnd = stack = <<>>]

Popped(d, kind) == IF d.stack # <<>> /\ Last(d.stack) = kind THEN Front(d.stack) ELSE d.stack

\* A token, or "none" when the loop goes on, with the decoder after it.
Token(kind, d) == [kind |-> kind, dec |-> d]
Failed(d) == Token("error", [d EXCEPT !.err = TRUE])

\* A newline that skipSpaces may cross; where a value must follow it is left to
\* scanValueToken, which finds no value there.
skipSpaces(d, kind) ==
  IF d.valueNoNewline THEN Failed(d)
  ELSE Token(kind, [d EXCEPT !.atLineStart = TRUE, !.needLineEnd = FALSE])

scanHeader(d, kind) ==
  Token(kind, [d EXCEPT !.expectingValue = FALSE, !.needLineEnd = TRUE])

scanKeyToken(d) ==
  Token("key", [d EXCEPT !.expectingValue = TRUE, !.valueNoNewline = TRUE, !.needLineEnd = FALSE])

scanValueToken(d) == Token("scalar", AfterValue(d, d.stack))

\* enforceNestedDepth only records the error: the token itself is still returned.
scanArrayStart(d) ==
  Token("[", [d EXCEPT !.stack = Append(@, "array"), !.arrayDepth = @ + 1,
                       !.err = d.arrayDepth + 1 > TkMaxNested,
                       !.expectingValue = TRUE, !.valueNoNewline = FALSE, !.needSeparator = FALSE])

scanInlineTableStart(d) ==
  Token("{", [d EXCEPT !.stack = Append(@, "inline"),
                       !.expectingValue = FALSE, !.valueNoNewline = FALSE, !.needSeparator = FALSE])

scanArrayEnd(d) ==
  Token("]", AfterValue([d EXCEPT !.arrayDepth = IF @ > 0 THEN @ - 1 ELSE 0], Popped(d, "array")))

scanInlineTableEnd(d) == Token("}", AfterValue(d, Popped(d, "inline")))

\* The comma of an array announces a value, the one of an inline table a key.
scanComma(d) ==
  IF ~d.needSeparator THEN Failed(d)
  ELSE Token("none", [d EXCEPT !.needSeparator = FALSE, !.expectingValue = innermostIsArray(d)])

\* A mutated form: two scalars of an array need no comma between them.
scanWordNoComma(d, x) ==
  IF d.expectingValue
  THEN IF x = "key" THEN Failed(d) ELSE scanValueToken(d)
  ELSE IF (d.needSeparator /\ d.stack # <<>>) \/ x = "scalar" THEN Failed(d) ELSE scanKeyToken(d)

\* The last case of readToken's switch: a scalar where a value may stand, a key elsewhere.
scanWord(d, x) ==
  IF d.expectingValue
  THEN IF (d.needSeparator /\ innermostIsArray(d)) \/ x = "key" THEN Failed(d) ELSE scanValueToken(d)
  ELSE IF (d.needSeparator /\ d.stack # <<>>) \/ x = "scalar" THEN Failed(d) ELSE scanKeyToken(d)

headerPlace(d) == d.atLineStart /\ ~d.expectingValue /\ ~d.needLineEnd

readToken(dec, x) ==
  LET d == [dec EXCEPT !.atLineStart = FALSE]
  IN IF dec.err THEN Failed(dec)
     ELSE IF x = "nl" THEN skipSpaces(d, "none")
     ELSE IF x = "#" THEN skipSpaces(d, "comment")
     ELSE IF dec.needLineEnd \/ x = "=" THEN Failed(d)
     ELSE IF x \in {"table", "arraytable"} THEN scanHeader(d, x)
     ELSE IF headerPlace(dec) /\ x = "[" THEN Failed(d)
     ELSE CASE x = "[" -> IF innermostIsArray(d) /\ ~d.expectingValue THEN Failed(d) ELSE scanArrayStart(d)
            [] x = "{" -> IF innermostIsArray(d) /\ ~d.expectingValue THEN Failed(d) ELSE scanInlineTableStart(d)
            [] x = "]" -> scanArrayEnd(d)
            [] x = "}" -> scanInlineTableEnd(d)
            [] x = "," -> scanComma(d)
            [] OTHER -> scanWord(d, x)

-----------------------------------------------------------------------------
(* parseDocument, parseNextValue, parseArrayValue, parseInlineTableValue *)

\* The calls after a token: the callee replaces or joins the innermost one, a finished one
\* returns.  <<"error">> is an error return, <<"stray">> a token that no statement starts
\* with: parseDocument passes over it inside a table, bindDocumentDirect never does.
Opened(frames, kind) == Append(frames, IF kind = "[" THEN "array" ELSE "inline")

parseDocument(kind) ==
  CASE kind = "key" -> <<"value">>
    [] kind \in {"table", "arraytable"} -> <<>>
    [] OTHER -> <<"stray">>

parseNextValue(frames, kind) ==
  CASE kind = "scalar" -> Front(frames)
    [] kind \in {"[", "{"} -> Opened(Front(frames), kind)
    [] OTHER -> <<"error">>

parseArrayValue(frames, kind) ==
  CASE kind = "]" -> Front(frames)
    [] kind = "scalar" -> frames
    [] kind \in {"[", "{"} -> Opened(frames, kind)
    [] OTHER -> <<"error">>

parseInlineTableValue(frames, kind) ==
  CASE kind = "}" -> Front(frames)
    [] kind = "key" -> Append(frames, "value")
    [] OTHER -> <<"error">>

Parsed(frames, kind) ==
  CASE kind \in {"none", "comment"} -> frames
    [] kind \notin {"none", "comment"} /\ frames = <<>> -> parseDocument(kind)
    [] OTHER -> CASE Last(frames) = "value" -> parseNextValue(frames, kind)
                  [] Last(frames) = "array" -> parseArrayValue(frames, kind)
                  [] Last(frames) = "inline" -> parseInlineTableValue(frames, kind)

-----------------------------------------------------------------------------
(* skipNextValue, scanSkippedStructuralValue *)

ArrayStates == {"arrayValue", "arraySeparator"}
InTop(frames, state) == [frames EXCEPT ![Len(frames)] = state]

\* Both kinds of container count against MaxNestedDepth here, each on its own.
push(frames, x) ==
  LET next == Append(frames, IF x = "[" THEN "arrayValue" ELSE "inlineKey")
      deep(array) == Len(SelectSeq(next, LAMBDA f: (f \in ArrayStates) = array)) > TkMaxNested
  IN IF deep(TRUE) \/ deep(FALSE) THEN <<"error">> ELSE next

scanSkippedValue(frames, x) ==
  CASE x \in {"[", "{"} -> push(frames, x)
    [] x = "scalar" -> frames
    [] OTHER -> <<"error">>

skippedArrayValue(frames, x) ==
  IF x = "]" THEN Front(frames) ELSE scanSkippedValue(InTop(frames, "arraySeparator"), x)

skippedArraySeparator(frames, x) ==
  CASE x = "]" -> Front(frames)
    [] x = "," -> InTop(frames, "arrayValue")
    [] OTHER -> <<"error">>

skippedInlineKey(frames, x) ==
  CASE x = "}" -> Front(frames)
    [] x = "key" -> InTop(frames, "inlineValue")
    [] OTHER -> <<"error">>

skippedInlineSeparator(frames, x) ==
  CASE x = "}" -> Front(frames)
    [] x = "," -> InTop(frames, "inlineKey")
    [] OTHER -> <<"error">>

\* Newlines and comments stand anywhere but between an equals sign and its value.
skipFrame(frames, x) ==
  LET top == Last(frames)
  IN IF x \in {"nl", "#"} /\ top # "inlineValue" THEN frames
     ELSE CASE top = "arrayValue" -> skippedArrayValue(frames, x)
            [] top = "arraySeparator" -> skippedArraySeparator(frames, x)
            [] top = "inlineKey" -> skippedInlineKey(frames, x)
            [] top = "inlineValue" -> scanSkippedValue(InTop(frames, "inlineSeparator"), x)
            [] top = "inlineSeparator" -> skippedInlineSeparator(frames, x)

\* skipStructuralValueFast leaves the decoder as a scalar would have.
SkippedOver(s, frames) ==
  IF frames = <<"error">> THEN [s EXCEPT !.dec.err = TRUE]
  ELSE IF frames # <<>> THEN [s EXCEPT !.mode = "inside", !.frames = frames]
  ELSE [s EXCEPT !.mode = "statement", !.frames = <<>>,
                 !.dec = AfterValue([@ EXCEPT !.atLineStart = FALSE], @.stack)]

skipNextValue(s, x) ==
  CASE s.mode = "statement" ->
         LET t == readToken(s.dec, x)
         IN [s EXCEPT !.dec = t.dec, !.mode = IF t.kind = "key" THEN "value" ELSE "statement"]
    [] s.mode = "value" ->
         IF x \in {"[", "{"} THEN SkippedOver(s, push(<<>>, x))
         ELSE LET t == readToken(s.dec, x)
              IN IF t.kind = "scalar" THEN [s EXCEPT !.dec = t.dec, !.mode = "statement"]
                 ELSE [s EXCEPT !.dec.err = TRUE]
    [] s.mode = "inside" -> SkippedOver(s, skipFrame(s.frames, x))

-----------------------------------------------------------------------------
(* documentParser.readValue *)

insideValue(arrays, inlines) == arrays > 0 \/ inlines > 0

\* The two depths are counted apart; a value of another kind is one token.
readValue(e, kind) ==
  CASE kind \in {"none", "comment"} -> e
    [] e.mode = "statement" /\ kind = "key" -> [e EXCEPT !.mode = "value"]
    [] e.mode = "value" /\ kind \notin {"[", "{", "none", "comment"} -> [e EXCEPT !.mode = "statement"]
    [] e.mode \in {"value", "inside"} /\ kind \notin {"none", "comment"} ->
         LET arrays == e.arrays + (IF kind = "[" THEN 1 ELSE 0) - (IF kind = "]" THEN 1 ELSE 0)
             inlines == e.inlines + (IF kind = "{" THEN 1 ELSE 0) - (IF kind = "}" THEN 1 ELSE 0)
         IN IF insideValue(arrays, inlines)
            THEN [mode |-> "inside", arrays |-> arrays, inlines |-> inlines]
            ELSE [mode |-> "statement", arrays |-> 0, inlines |-> 0]
    [] OTHER -> e

-----------------------------------------------------------------------------
Fresh == [atLineStart |-> TRUE, expectingValue |-> FALSE, valueNoNewline |-> FALSE,
          needSeparator |-> FALSE, needLineEnd |-> FALSE, stack |-> <<>>, arrayDepth |-> 0, err |-> FALSE]

TkInit ==
  /\ tkDec = Fresh
  /\ tkFrames = <<>>
  /\ tkTable = FALSE
  /\ tkSkip = [dec |-> Fresh, mode |-> "statement", frames |-> <<>>]
  /\ tkEdit = [mode |-> "statement", arrays |-> 0, inlines |-> 0]
  /\ tkLoose = FALSE

\* A container inside an array right after another element: readToken asks no comma there.
Uncommaed(d, x) == x \in {"[", "{"} /\ innermostIsArray(d) /\ d.needSeparator

\* The lexemes that can stand next: a header only where readToken looks for one, and no
\* container beyond the bound.
Possible(x) ==
  /\ x \in {"table", "arraytable"} => headerPlace(tkDec)
  /\ x \in {"[", "{"} => Len(tkDec.stack) < TkMaxFrames
  /\ x = "{" => Len(SelectSeq(tkDec.stack, LAMBDA c: c = "inline")) < TkMaxNested

\* Every reader takes the next lexeme.
TkRead(x) ==
  /\ ~tkDec.err /\ ~tkLoose
  /\ Possible(x)
  /\ LET t == readToken(tkDec, x)
         frames == IF t.kind = "error" THEN <<"error">> ELSE Parsed(tkFrames, t.kind)
         stray == frames = <<"stray">> /\ tkTable
         failed == frames = <<"error">> \/ (frames = <<"stray">> /\ ~tkTable)
     IN /\ tkDec' = IF failed THEN [t.dec EXCEPT !.err = TRUE] ELSE t.dec
        /\ tkFrames' = IF failed \/ stray THEN tkFrames ELSE frames
        /\ tkTable' = (tkTable \/ t.kind \in {"table", "arraytable"})
        /\ tkSkip' = skipNextValue(tkSkip, x)
        /\ tkEdit' = IF t.kind = "error" THEN tkEdit ELSE readValue(tkEdit, t.kind)
        /\ tkLoose' = (stray \/ (~failed /\ Uncommaed(tkDec, x)))

TkNext == \E x \in TkLexemes: TkRead(x)

TkSpec == TkInit /\ [][TkNext]_tkVars

-----------------------------------------------------------------------------
(* Properties *)

\* The containers the Decoder believes open are those the parser is inside of, and
\* arrayDepth counts the arrays among them: readToken decides by its containerStack whether
\* a comma announces a key or a value and whether a line may end, and nothing passes the
\* parser's recursion to it.
TkStackMirrorsCalls ==
  ~tkDec.err /\ ~tkLoose =>
    /\ tkDec.stack = SelectSeq(tkFrames, LAMBDA f: f # "value")
    /\ tkDec.arrayDepth = Len(SelectSeq(tkDec.stack, LAMBDA c: c = "array"))

\* A value is accepted when its key is unknown exactly when it is accepted when the key is
\* known, ends at the same place and leaves the Decoder in the same state
\* (scanSkippedStructuralValue against parseArrayValue and parseInlineTableValue over
\* readToken), but for a container in an array with no comma before it, which only the
\* skipping reader refuses.
TkSkipAgrees ==
  ~tkLoose =>
    /\ tkFrames # <<>> \/ tkSkip.mode # "statement" => tkSkip.dec.err = tkDec.err
    /\ ~tkDec.err => (tkSkip.mode = "statement") = (tkFrames = <<>>)
    /\ ~tkDec.err /\ tkFrames = <<>> => tkSkip.dec = tkDec

\* The span that ParseDocument records for a value ends where the parsed value ends: its two
\* depth counters, which do not know which bracket closes which, agree with the parser on
\* every value the parser accepts.
TkEditSpanEnds ==
  ~tkDec.err /\ ~tkLoose => (tkEdit.mode = "statement") = (tkFrames = <<>>)

\* The three readers of a value agree: on what is accepted, on where it ends, and with the
\* parser's recursion on what is open.
TkReadersAgree == TkStackMirrorsCalls /\ TkSkipAgrees /\ TkEditSpanEnds
=============================================================================
