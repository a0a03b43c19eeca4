---------------------------- MODULE TomlNumbers -----------------------------
(***************************************************************************)
(* Bare values that are numbers: classifyBareValue and what it calls        *)
(* (decoder.go, value.go), on texts over a small alphabet, against the      *)
(* grammar of TOML.  Integers have NmWidth bits as the code's have 64.      *)
(* Dates, booleans, inf and nan cannot be spelled in the alphabet; the      *)
(* value of a float is left out.                                            *)
(***************************************************************************)
EXTENDS Integers, Sequences, FiniteSetsExt, SequencesExt, TLC

CONSTANTS
  NmAlphabet,  \* the characters of the texts
  NmLength,    \* bound: characters in a text
  NmWidth      \* bits of an integer

VARIABLE nmText  \* the text

Digit == ("0" :> 0) @@ ("1" :> 1) @@ ("6" :> 6) @@ ("a" :> 10)
Decimal == {"0", "1", "6"}
Hex == DOMAIN Digit
Signs == {"+", "-"}

MaxInt == 2 ^ (NmWidth - 1) - 1

-----------------------------------------------------------------------------
(* The code *)

trimSignBytes(raw) == IF raw # <<>> /\ raw[1] \in Signs THEN Tail(raw) ELSE raw

UnderscoresBetween(raw, digits) ==
  /\ raw # <<>> /\ raw[1] # "_" /\ Last(raw) # "_"
  /\ \A i \in 2..Len(raw) - 1: raw[i] = "_" => raw[i - 1] \in digits /\ raw[i + 1] \in digits

hasValidNumberUnderscoresBytes(raw) == UnderscoresBetween(raw, Decimal)

prefixedDigitsValidBytes(raw) == UnderscoresBetween(raw, Hex) /\ Range(raw) \subseteq Hex \cup {"_"}

HexPrefixed(n) == Len(n) > 2 /\ n[1] = "0" /\ n[2] = "x"

isIntCandidateBytes(raw) ==
  LET n == trimSignBytes(raw)
  IN /\ n # <<>>
     /\ ~(Len(n) >= 2 /\ n[1] = "0" /\ n[2] = "_")
     /\ IF HexPrefixed(n) THEN n = raw /\ prefixedDigitsValidBytes(SubSeq(n, 3, Len(n)))
        ELSE /\ ~(Len(n) > 1 /\ n[1] = "0" /\ n[2] \in Decimal)
             /\ Range(n) \subseteq Decimal \cup {"_"}
             /\ hasValidNumberUnderscoresBytes(n)

isFloatCandidateBytes(raw) ==
  LET n == trimSignBytes(raw)
      many(c) == \E i, j \in DOMAIN n: i # j /\ n[i] = c /\ n[j] = c
  IN /\ n # <<>>
     /\ ~(Len(n) > 1 /\ n[1] = "0" /\ n[2] \in Decimal \cup {"_"})
     /\ \A i \in DOMAIN n:
          /\ n[i] \in Decimal \cup Signs \cup {".", "e", "_"}
          /\ n[i] = "." => i > 1 /\ i < Len(n) /\ n[i + 1] \in Decimal
          /\ n[i] \in Signs => i > 1 /\ n[i - 1] = "e"
     /\ ~many(".") /\ ~many("e")
     /\ Range(n) \cap {".", "e"} # {}
     /\ hasValidNumberUnderscoresBytes(n)

\* strconv.ParseFloat on a text of these characters, errors of range left out.
ParseFloat(raw) ==
  LET n == trimSignBytes(raw)
      e == {i \in DOMAIN n: n[i] = "e"}
      mantissa == IF e = {} THEN n ELSE SubSeq(n, 1, Min(e) - 1)
      exponent == IF e = {} THEN <<"0">> ELSE trimSignBytes(SubSeq(n, Min(e) + 1, Len(n)))
  IN /\ Range(mantissa) \subseteq Decimal \cup {"."} /\ Range(mantissa) \cap Decimal # {}
     /\ Cardinality({i \in DOMAIN mantissa: mantissa[i] = "."}) <= 1
     /\ exponent # <<>> /\ Range(exponent) \subseteq Decimal

appendNormalizedNumeric(raw) == SelectSeq(raw, LAMBDA c: c # "_")

\* A mutated form: the digit to come is forgotten.
pastLimitWithout(u, d, base, limit) == u > limit \div base

pastLimit(u, d, base, limit) == u > (limit - d) \div base

NotANumber == [ok |-> FALSE, value |-> 0]

parseUintLiteralDigits(raw, base, limit) ==
  LET step(acc, c) ==
        IF ~acc.ok \/ Digit[c] >= base \/ pastLimit(acc.value, Digit[c], base, limit) THEN NotANumber
        ELSE [ok |-> TRUE, value |-> (acc.value * base + Digit[c]) % 2 ^ NmWidth]
      digits == appendNormalizedNumeric(raw)
  IN IF digits = <<>> THEN NotANumber ELSE FoldLeft(step, [ok |-> TRUE, value |-> 0], digits)

parseIntegerLiteral(raw) ==
  LET text == trimSignBytes(raw)
      negative == raw # <<>> /\ raw[1] = "-"
      limit == IF negative THEN MaxInt + 1 ELSE MaxInt
      u == IF HexPrefixed(text) THEN parseUintLiteralDigits(SubSeq(text, 3, Len(text)), 16, limit)
           ELSE parseUintLiteralDigits(text, 10, limit)
  IN [u EXCEPT !.value = IF negative THEN -@ ELSE @]

classifyBareValue(raw) ==
  LET kind(k, v) == [kind |-> k, value |-> v]
      int == parseIntegerLiteral(raw)
  IN IF isIntCandidateBytes(raw) THEN IF int.ok THEN kind("integer", int.value) ELSE kind("invalid", 0)
     ELSE IF isFloatCandidateBytes(raw) /\ ParseFloat(appendNormalizedNumeric(raw)) THEN kind("float", 0)
     ELSE kind("invalid", 0)

-----------------------------------------------------------------------------
(* The grammar: the rules dec-int, hex-int and float of TOML 1.0 *)

RunOf(s, digits) ==
  /\ s # <<>> /\ {s[1], Last(s)} \subseteq digits
  /\ \A i \in 2..Len(s): s[i] \in digits \/ (s[i] = "_" /\ s[i - 1] # "_")

DecInt(s) == RunOf(s, Decimal) /\ (Len(s) = 1 \/ s[1] # "0")

HexInt(s) == HexPrefixed(s) /\ RunOf(SubSeq(s, 3, Len(s)), Hex)

Signed(s, Rule(_)) == Rule(s) \/ (s # <<>> /\ s[1] \in Signs /\ Rule(Tail(s)))

ZeroPrefixable(s) == RunOf(s, Decimal)

Exp(s) == s # <<>> /\ s[1] = "e" /\ Signed(Tail(s), ZeroPrefixable)

Frac(s) == s # <<>> /\ s[1] = "." /\ ZeroPrefixable(Tail(s))

Float(s) ==
  \E i \in 1..Len(s), j \in 1..Len(s):
    LET frac == SubSeq(s, i + 1, j)
        exp == SubSeq(s, j + 1, Len(s))
    IN /\ i <= j /\ Signed(SubSeq(s, 1, i), DecInt)
       /\ frac = <<>> \/ Frac(frac)
       /\ exp = <<>> \/ Exp(exp)
       /\ frac \o exp # <<>>

\* The number a run of digits stands for, unbounded.
NumberOf(s, base) ==
  LET ds == SelectSeq(s, LAMBDA c: c # "_")
  IN MapThenFoldSet(+, 0, LAMBDA i: Digit[ds[i]] * base ^ (Len(ds) - i), LAMBDA S: CHOOSE x \in S: TRUE, DOMAIN ds)

IntegerOf(s) ==
  IF HexInt(s) THEN NumberOf(SubSeq(s, 3, Len(s)), 16)
  ELSE IF s[1] = "-" THEN -NumberOf(Tail(s), 10)
  ELSE NumberOf(trimSignBytes(s), 10)

-----------------------------------------------------------------------------

NmInit == nmText = <<>>

NmNext == Len(nmText) < NmLength /\ \E c \in NmAlphabet: nmText' = Append(nmText, c)

NmSpec == NmInit /\ [][NmNext]_nmText

\* A text is read as an integer just when the grammar says so and its number fits, with that
\* number, and as a float just when the grammar says so: none is cut short, wraps or is taken
\* for the other, the largest and the smallest integer, underscores, signs and leading zeros
\* included.
NmReadsTheGrammar ==
  LET read == classifyBareValue(nmText)
      int == Signed(nmText, DecInt) \/ HexInt(nmText)
      fits == int /\ IntegerOf(nmText) \in -MaxInt - 1 .. MaxInt
  IN nmText # <<>> =>
       /\ (read.kind = "integer") = fits
       /\ fits => read.value = IntegerOf(nmText)
       /\ (read.kind = "float") = Float(nmText)
=============================================================================
