---------------------------- MODULE TomlStrings -----------------------------
(***************************************************************************)
(* Strings as Marshal writes them (marshal.go) and as the decoder finds     *)
(* their end (decoder.go) and reads them (value.go): basic strings on one   *)
(* line.  A character is a plain one, a letter or digit that means          *)
(* something behind a backslash, "quote", "backslash", a control character  *)
(* ("newline", "tab", "bell", "escape") or "wide", one beyond ASCII.        *)
(***************************************************************************)
EXTENDS Integers, Sequences, SequencesExt, TLC

CONSTANTS
  SrAlphabet,  \* the characters of the strings
  SrLength,    \* bound: characters in a string
  SrRests      \* what follows the string in the text

VARIABLE srString  \* the string

Control == {"newline", "tab", "bell", "escape"}

-----------------------------------------------------------------------------
(* Writing *)

\* strconv.AppendQuote.
AppendQuote(s) ==
  LET escapes == ("quote" :> <<"backslash", "quote">>) @@ ("backslash" :> <<"backslash", "backslash">>)
                 @@ ("newline" :> <<"backslash", "n">>) @@ ("tab" :> <<"backslash", "t">>)
                 @@ ("bell" :> <<"backslash", "a">>) @@ ("escape" :> <<"backslash", "x", "1", "b">>)
      written(c) == IF c \in DOMAIN escapes THEN escapes[c] ELSE <<c>>
  IN FlattenSeq([i \in DOMAIN s |-> written(s[i])])

\* A mutated form: quotes only.
quoteEscapes == {"quote"}

asciiEscapes == {"quote", "backslash"}

writeQuotedASCIIString(s) ==
  FlattenSeq([i \in DOMAIN s |-> IF s[i] \in asciiEscapes THEN <<"backslash", s[i]>> ELSE <<s[i]>>])

quoteFallback(s) == \E i \in DOMAIN s: s[i] \in Control \cup {"wide"}

writeQuotedString(s) ==
  <<"quote">> \o (IF quoteFallback(s) THEN AppendQuote(s) ELSE writeQuotedASCIIString(s)) \o <<"quote">>

-----------------------------------------------------------------------------
(* Reading.  The scanners of the scan package stop at a quote, a backslash or a control
   character that may not stand in a string. *)

Stops == {"quote", "backslash"} \cup (Control \ {"tab"})

Escaped ==
  ("t" :> "tab") @@ ("n" :> "newline") @@ ("e" :> "escape") @@ ("quote" :> "quote") @@ ("backslash" :> "backslash")

\* \x with its two digits; the only code the writer uses for these characters is 1b.
parseUnicodeEscape(raw, i) ==
  IF i + 1 <= Len(raw) /\ raw[i] = "1" /\ raw[i + 1] = "b" THEN <<"escape">> ELSE <<>>

Malformed == <<"malformed">>

RECURSIVE scanBasicStringBody(_, _, _)
scanBasicStringBody(raw, i, out) ==
  IF i > Len(raw) THEN out
  ELSE CASE raw[i] # "backslash" ->
              IF raw[i] \in Control \ {"tab"} THEN Malformed ELSE scanBasicStringBody(raw, i + 1, Append(out, raw[i]))
         [] raw[i] = "backslash" /\ i = Len(raw) -> Malformed
         [] raw[i] = "backslash" /\ i < Len(raw) ->
              IF raw[i + 1] \in DOMAIN Escaped THEN scanBasicStringBody(raw, i + 2, Append(out, Escaped[raw[i + 1]]))
              ELSE IF raw[i + 1] = "x" /\ parseUnicodeEscape(raw, i + 2) # <<>>
                   THEN scanBasicStringBody(raw, i + 4, out \o parseUnicodeEscape(raw, i + 2))
              ELSE Malformed

\* Where the string that begins with text[1] ends, looked for from i on; 0 for an error.  The
\* body is read once to validate it.
RECURSIVE scanString(_, _)
scanString(text, i) ==
  IF i > Len(text) THEN 0
  ELSE CASE text[i] \notin Stops -> scanString(text, i + 1)
         [] text[i] = "quote" ->
              IF scanBasicStringBody(SubSeq(text, 2, i - 1), 1, <<>>) = Malformed THEN 0 ELSE i
         [] text[i] = "backslash" -> IF i + 1 > Len(text) THEN 0 ELSE scanString(text, i + 2)
         [] OTHER -> 0

-----------------------------------------------------------------------------

SrInit == srString = <<>>

SrNext == Len(srString) < SrLength /\ \E c \in SrAlphabet: srString' = Append(srString, c)

SrSpec == SrInit /\ [][SrNext]_srString

\* A string that Marshal wrote ends for the decoder where it ended for Marshal, whatever
\* follows, and is read back as it was.  The bell is the exception: strconv writes it as an
\* escape that TOML does not have, and the decoder refuses it.
SrReadBack ==
  LET token == writeQuotedString(srString)
      body == SubSeq(token, 2, Len(token) - 1)
      spelled == ~Contains(srString, "bell")
  IN \A rest \in SrRests:
       /\ scanString(token \o rest, 2) = (IF spelled THEN Len(token) ELSE 0)
       /\ spelled => scanBasicStringBody(body, 1, <<>>) = srString
=============================================================================
