----------------------------- MODULE WebTools -----------------------------
(***************************************************************************)
(* web_search and web_fetch of tools/tool_registry.cpp.  web_search asks   *)
(* one provider after the other until one answers, and cuts what comes     *)
(* back so that it fits into a request to a model.                         *)
(*                                                                         *)
(* A text is its length.  A reply is a list of descriptions, one answer,   *)
(* or a failure: no connection, a status other than 200, a body that does  *)
(* not parse.                                                              *)
(***************************************************************************)
EXTENDS Naturals, Sequences, FiniteSets, SequencesExt

CONSTANTS
    MaxDescription,     \* MAX_DESCRIPTION_SIZE
    MaxTotal,           \* MAX_TOTAL_SIZE
    Dots,               \* the length of "..."
    Note,               \* the longest note web_fetch appends to a text it cuts
    MaxLen,             \* bound: lengths of texts in replies
    MaxItems,           \* bound: items of a reply
    Count               \* values of count, after it was clamped

Cascade == <<"brave", "tavily", "perplexity", "serpapi", "duckduckgo", "grok">>
Keyed == Range(Cascade) \ {"duckduckgo"}

VARIABLES
    tool,       \* "idle", the provider to try, "answered", "thrown" or "failed"
    keys,       \* providers whose key is in the environment
    count,
    by,         \* the provider that answered
    size,       \* the length of the descriptions in the answer
    limit,      \* maxChars of web_fetch
    tried       \* ghost: the providers that were called

vars == <<tool, keys, count, by, size, limit, tried>>

Init ==
    /\ tool = "idle"
    /\ keys \in SUBSET Keyed
    /\ count \in Count
    /\ by = "none"
    /\ size = 0
    /\ limit = 0
    /\ tried = {}

Length == 0..MaxLen
Reply == UNION {[1..n -> Length] : n \in 0..MaxItems}

Place(p) == CHOOSE i \in DOMAIN Cascade : Cascade[i] = p
After(p) == IF Place(p) = Len(Cascade) THEN "thrown" ELSE Cascade[Place(p) + 1]

\* Texts longer than max lose their end and get the mark.
Cut(len, max, mark) == IF len > max THEN max + mark ELSE len

\* Mutation: the item that does not fit is still added.
FitOneMore(items) ==
    FoldLeft(LAMBDA acc, len :
               IF acc.full THEN acc
               ELSE LET d == Cut(len, MaxDescription, Dots) IN
                    [full |-> acc.sum + d > MaxTotal, sum |-> acc.sum + d],
             [full |-> FALSE, sum |-> 0], items).sum
\* The descriptions kept: up to the first that would exceed the total.
Fit(items) ==
    FoldLeft(LAMBDA acc, len :
               LET d == Cut(len, MaxDescription, Dots) IN
               IF acc.full \/ acc.sum + d > MaxTotal THEN [acc EXCEPT !.full = TRUE]
               ELSE [acc EXCEPT !.sum = @ + d],
             [full |-> FALSE, sum |-> 0], items).sum

Answers(p, n) ==
    /\ tool = p
    /\ p \in keys \cup {"duckduckgo"}
    /\ tool' = "answered"
    /\ by' = p
    /\ size' = n
    /\ tried' = tried \cup {p}
    /\ UNCHANGED <<keys, count, limit>>

-----------------------------------------------------------------------------
(* web_search *)

WebSearch ==
    /\ tool = "idle"
    /\ tool' = Head(Cascade)
    /\ UNCHANGED <<keys, count, by, size, limit, tried>>

NoKey(p) ==
    /\ tool = p
    /\ p \in Keyed \ keys
    /\ tool' = After(p)
    /\ UNCHANGED <<keys, count, by, size, limit, tried>>

Fails(p) ==
    /\ tool = p
    /\ p \in keys \cup {"duckduckgo"}
    /\ tool' = After(p)
    /\ tried' = tried \cup {p}
    /\ UNCHANGED <<keys, count, by, size, limit>>

Brave(items) == Answers("brave", Fit(items))
Tavily(items) == Answers("tavily", Fit(items))
Perplexity(len) == Answers("perplexity", Cut(len, MaxTotal, Dots))
SerpApi(items) == Answers("serpapi", Fit(items))

\* The page has links, of which `count' are taken, whole; without one it is as if
\* the call had failed.
DuckDuckGo(items) ==
    /\ Len(items) > 0
    /\ Answers("duckduckgo", SumFunctionOnSet(items, 1..Min({count, Len(items)})))

Grok(len) == Answers("grok", len)

-----------------------------------------------------------------------------
(* web_fetch: the page, as text, up to maxChars *)

WebFetch(max, len) ==
    /\ tool = "idle"
    /\ tool' = "answered"
    /\ by' = "fetch"
    /\ limit' = max
    /\ size' = Cut(len, max, Note)
    /\ UNCHANGED <<keys, count, tried>>

\* A URL that is not http(s), a blocked host, no connection or a status from 400 up.
WebFetchFails ==
    /\ tool = "idle"
    /\ tool' = "failed"
    /\ UNCHANGED <<keys, count, by, size, limit, tried>>

Return ==
    /\ tool \in {"answered", "thrown", "failed"}
    /\ tool' = "idle"
    /\ by' = "none"
    /\ size' = 0
    /\ limit' = 0
    /\ tried' = {}
    /\ UNCHANGED <<keys, count>>

Next ==
    \/ WebSearch \/ WebFetchFails \/ Return
    \/ \E max, len \in Length : WebFetch(max, len)
    \/ \E p \in Range(Cascade) : NoKey(p) \/ Fails(p)
    \/ \E items \in Reply : Brave(items) \/ Tavily(items) \/ SerpApi(items) \/ DuckDuckGo(items)
    \/ \E len \in Length : Perplexity(len) \/ Grok(len)

Spec == Init /\ [][Next]_vars

-----------------------------------------------------------------------------
(* Properties *)

\* The lists that Brave, Tavily and SerpAPI send are kept within MAX_TOTAL_SIZE
\* however long their parts are, and a cut text exceeds its limit by its mark only;
\* the search gives up only after every provider that could be called was called,
\* and answers without calling one that comes later.
CascadeAnswers ==
    /\ by \in {"brave", "tavily", "serpapi"} => size <= MaxTotal
    /\ by = "perplexity" => size <= MaxTotal + Dots
    /\ by = "fetch" => size <= limit + Note
    /\ tool = "thrown" => keys \cup {"duckduckgo"} \subseteq tried
    /\ by \in Range(Cascade) =>
          tried = {p \in keys \cup {"duckduckgo"} : Place(p) <= Place(by)}
=============================================================================
