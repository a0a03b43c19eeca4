--------------------------- MODULE MCSdkFunctions ---------------------------
(***************************************************************************)
(* The sequential parts, one call at a time: a behaviour picks one module,  *)
(* and the others stay in their initial states.                             *)
(***************************************************************************)
EXTENDS ClaudeWire, ClaudeCallbacks, ClaudeLaunch, CodexProtocol, LlmRetry,
        TomlTokens, TomlMarshal, TomlDocument, TomlNumbers, TomlStrings

VARIABLE part  \* the module that runs

sdkVars == <<wireVars, cbVars, laVars, cxVars, rtVars>>
tomlVars == <<tkVars, ttVars, tmVars, tdVars, nmText, srString>>
mcVars == <<part, sdkVars, tomlVars>>

\* Retry: no values, small ones, the largest duration, a negative one.
MCRtDelays == {-3, 0, 1, 3, 7, 15}
MCRtAttempts == {-1, 0, 1, 4}
MCRtHalves == {-1, 0, 2, 3}

\* Statements over three nested paths; a scalar, an inline table, an array of one and an empty
\* array.
MCScalar == [t |-> "scalar"]
MCInline == [t |-> "inline", pairs |-> <<[key |-> <<"b">>, value |-> MCScalar]>>]
MCTtHeaders == {<<"a">>, <<"a", "b">>, <<"a", "b", "c">>}
MCTtKeys == {<<"a">>, <<"b">>, <<"b", "c">>}
MCTtValues == {MCScalar, MCInline, [t |-> "list", l |-> <<MCInline>>], [t |-> "list", l |-> <<>>]}

\* Maps with every value two levels deep under "a", lists of tables with lists of tables among
\* them, and every value one level deep under "b".
MCTmKeys == <<"a", "b">>
MCMaps(keys, values) == UNION {{MapOf(f): f \in [ks -> values]}: ks \in SUBSET keys}
MCLists(values) == {ListOf(l): l \in UNION {[1..n -> values]: n \in 0..2}}
MCFlat == {ScalarValue} \cup MCMaps({"a", "b"}, {ScalarValue}) \cup MCLists({ScalarValue})
MCTableLists == {ListOf(<<NewDocumentMap>>), ListOf(<<MapOf("b" :> ScalarValue)>>)}
MCDeep ==
  {ScalarValue} \cup MCMaps({"a", "b"}, MCFlat) \cup MCLists(MCFlat)
    \cup MCLists(MCMaps({"a"}, MCFlat \cup MCTableLists))
MCTmTrees == MCMaps({"a"}, MCDeep) \cup {MapOf(("a" :> x) @@ ("b" :> y)): x \in MCDeep, y \in MCFlat}

\* An empty text, two lines with and without the last newline, a table, an array of tables.
MCKey(path) == [kind |-> "key", path |-> path, value |-> "old"]
MCHeader == [kind |-> "header", path |-> <<"t">>]
MCTdPaths == {<<"a">>, <<"t", "a">>, <<"n">>}
MCTdTexts ==
  LET a == MCKey(<<"a">>)
      ta == MCKey(<<"t", "a">>)
  IN {TextOf(<<>>, TRUE), TextOf(<<a, ta>>, TRUE), TextOf(<<a, ta>>, FALSE),
      TextOf(<<a, MCHeader, a>>, TRUE), TextOf(<<MCHeader, a, MCHeader, a>>, TRUE)}

MCSrRests == {<<>>, <<"newline">>, <<"comma", "quote">>, <<"newline", "quote">>}

MCInit ==
  /\ part \in {"wire", "callbacks", "launch", "codex", "retry",
               "tokens", "tables", "marshal", "document", "numbers", "strings"}
  /\ WireInit /\ CbInit /\ LaInit /\ CxInit
  /\ RtInit /\ (part # "retry" => rtCfg = [attempts |-> 0, initial |-> 0, max |-> 0, halves |-> 0])
  /\ TkInit /\ TtInit /\ TmInit /\ NmInit /\ SrInit
  /\ TdInit /\ (part # "document" => tdRaw = <<>>)

SdkNext ==
  \/ part = "wire" /\ WireNext /\ UNCHANGED <<cbVars, laVars, cxVars, rtVars>>
  \/ part = "callbacks" /\ CbNext /\ UNCHANGED <<wireVars, laVars, cxVars, rtVars>>
  \/ part = "launch" /\ LaNext /\ UNCHANGED <<wireVars, cbVars, cxVars, rtVars>>
  \/ part = "codex" /\ CxNext /\ UNCHANGED <<wireVars, cbVars, laVars, rtVars>>
  \/ part = "retry" /\ RtNext /\ UNCHANGED <<wireVars, cbVars, laVars, cxVars>>

TomlNext ==
  \/ part = "tokens" /\ TkNext /\ UNCHANGED <<ttVars, tmVars, tdVars, nmText, srString>>
  \/ part = "tables" /\ TtNext /\ UNCHANGED <<tkVars, tmVars, tdVars, nmText, srString>>
  \/ part = "marshal" /\ TmNext /\ UNCHANGED <<tkVars, ttVars, tdVars, nmText, srString>>
  \/ part = "document" /\ TdNext /\ UNCHANGED <<tkVars, ttVars, tmVars, nmText, srString>>
  \/ part = "numbers" /\ NmNext /\ UNCHANGED <<tkVars, ttVars, tmVars, tdVars, srString>>
  \/ part = "strings" /\ SrNext /\ UNCHANGED <<tkVars, ttVars, tmVars, tdVars, nmText>>

MCNext ==
  /\ UNCHANGED part
  /\ \/ SdkNext /\ UNCHANGED tomlVars
     \/ TomlNext /\ UNCHANGED sdkVars

MCSpec == MCInit /\ [][MCNext]_mcVars
=============================================================================
