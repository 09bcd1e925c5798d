--------------------------- MODULE PassageRetrieval ---------------------------
(***************************************************************************)
(* The retriever node (backend/agent/nodes/retriever.py) and what it calls *)
(* for each sub-query: RetrievalEngine.retrieve with the vector store and  *)
(* the reranker, or WebSearchClient.search with the content scanner.  The  *)
(* sub-queries are gathered: they run interleaved at every await.          *)
(***************************************************************************)
EXTENDS Integers, Sequences, FiniteSets

CONSTANTS Queries,   \* number of sub-queries, in the order of their priority
          Passages,  \* number of texts that may be found
          PrefixOf,  \* the first 120 characters of each; texts may share them
          Scores,    \* what the reranker may give
          WebScore,  \* the score of every web result, 0.6
          TopN, Limit  \* rerank_top_n; web results asked for

RetrievalAssumption ==
    /\ Queries \in Nat /\ Passages \in Nat /\ TopN \in Nat /\ Limit \in Nat
    /\ Scores \subseteq Nat /\ WebScore \in Nat /\ PrefixOf \in [1..Passages -> Nat]

VARIABLES scanning,  \* there is a scanner and it is enabled
          query,     \* per sub-query: its tool and how far it is
          place,     \* the result that is merged next: of which sub-query, which one
          seen,      \* the passages merged so far
          merged     \* retrieved_passages, NotYet before they are sorted

vars == <<scanning, query, place, seen, merged>>

Q == 1..Queries
NotYet == <<[text |-> 0, score |-> 0]>>

\* "keyword" is vector search with another weight, which Qdrant does not use; an
\* unknown tool is vector search too.
Tool == {"vector", "graph", "web"}
Severity == {"pass", "warn", "block"}

Begun(tool) == [tool |-> tool, pc |-> "start", hits |-> {}, found |-> [p \in {} |-> 0],
                result |-> <<>>, items |-> 0, item |-> "pass"]

First == [query |-> 1, item |-> 1]

Init == /\ scanning \in BOOLEAN /\ place = First /\ seen = <<>> /\ merged = NotYet
        /\ \E tools \in [Q -> Tool] : query = [q \in Q |-> Begun(tools[q])]

Ends(q, s) == query' = [query EXCEPT ![q].pc = "done", ![q].result = s]
At(q, tool, pc) == query[q].tool = tool /\ query[q].pc = pc

\* _run_graph asks the graph retriever for a method it has not: an error that is
\* logged, and no passage.
Graph(q) == At(q, "graph", "start") /\ Ends(q, <<>>)

\* A blank query, or no vector: nothing found.
Embed(q) ==
    /\ At(q, "vector", "start")
    /\ Ends(q, <<>>) \/ query' = [query EXCEPT ![q].pc = "search"]

Search(q) ==
    /\ At(q, "vector", "search")
    /\ \E hits \in SUBSET (1..Passages) :
          IF hits = {} THEN Ends(q, <<>>)
          ELSE query' = [query EXCEPT ![q].pc = "rerank", ![q].hits = hits]

Before(f, p, r) == f[p] > f[r] \/ (f[p] = f[r] /\ p < r)

\* Python's sort, stable and by descending score: the one sequence, in a set, that
\* lists what has a score in this order.
Sorted(f) ==
    {s \in [1..Cardinality(DOMAIN f) -> DOMAIN f] :
        /\ \A p \in DOMAIN f : \E i \in DOMAIN s : s[i] = p
        /\ \A i, j \in DOMAIN s : i < j => Before(f, s[i], s[j])}

FirstOnes(s, n) == SubSeq(s, 1, IF n < Len(s) THEN n ELSE Len(s))

\* Mutant: cut off first, then sorted.
CutThenSorted(f) ==
    Sorted([p \in {r \in DOMAIN f : Cardinality({h \in DOMAIN f : h < r}) < TopN} |-> f[p]])

\* The best TopN hits.
Ranked(f) == {FirstOnes(s, TopN) : s \in Sorted(f)}

\* The reranker may raise: that sub-query has no passages.
Rerank(q) ==
    /\ At(q, "vector", "rerank")
    /\ \/ Ends(q, <<>>)
       \/ \E f \in [query[q].hits -> Scores] : \E best \in Ranked(f) :
             query' = [query EXCEPT ![q].pc = "done", ![q].found = f,
                 ![q].result = [i \in 1..Len(best) |-> [text |-> best[i], score |-> f[best[i]]]]]

\* A warning blocks what comes from the web.
Blocked(severity) == scanning /\ severity # "pass"

\* DuckDuckGo answers with some items, or with nothing; the web search may be off.
AskWeb(q) ==
    /\ At(q, "web", "start")
    /\ Ends(q, <<>>) \/ query' = [query EXCEPT ![q].pc = "item"]

MoreItems(q) == query[q].items < 2 * Limit /\ Len(query[q].result) < Limit

\* Mutant: a skipped item does not count.
SkipUncounted(q) == query' = [query EXCEPT ![q].pc = "item"]

Skip(q) == query' = [query EXCEPT ![q].pc = "item", ![q].items = @ + 1]

\* The next item: without an address, with a blocked snippet, or worth a fetch.
TakeItem(q) ==
    /\ At(q, "web", "item") /\ MoreItems(q)
    /\ \/ Skip(q)
       \/ \E snippet \in Severity :
             IF Blocked(snippet) THEN Skip(q)
             ELSE query' = [query EXCEPT ![q].pc = "fetch", ![q].item = snippet]

\* A page that cannot be fetched leaves the snippet.
Fetch(q) ==
    /\ At(q, "web", "fetch")
    /\ \E page \in Severity \cup {"nothing"}, text \in 1..Passages :
          IF page # "nothing" /\ Blocked(page) THEN Skip(q)
          ELSE query' = [query EXCEPT ![q].pc = "item", ![q].items = @ + 1,
                   ![q].result = Append(@, [text |-> text, score |-> WebScore,
                       severity |-> IF page = "nothing" THEN query[q].item ELSE page])]

WebEnds(q) == At(q, "web", "item") /\ Ends(q, query[q].result)

\* The gather has returned, in the order of the sub-queries.
Gathered == merged = NotYet /\ \A q \in Q : query[q].pc = "done"

\* Texts are told apart by their first 120 characters.
DedupKey(r) == PrefixOf[r.text]

IsNew(r) == \A i \in 1..Len(seen) : DedupKey(seen[i]) # DedupKey(r)

\* The next result is merged unless a text that begins alike is there already.
Collect ==
    /\ Gathered /\ place.query \in Q
    /\ LET result == query[place.query].result IN
       IF place.item \in 1..Len(result)
       THEN /\ place' = [place EXCEPT !.item = @ + 1]
            /\ seen' = IF IsNew(result[place.item]) THEN Append(seen, result[place.item]) ELSE seen
       ELSE place' = [query |-> place.query + 1, item |-> 1] /\ UNCHANGED seen
    /\ UNCHANGED <<scanning, query, merged>>

ByScore ==
    /\ Gathered /\ place.query \notin Q
    /\ \E order \in Sorted([i \in 1..Len(seen) |-> seen[i].score]) :
          merged' = [i \in 1..Len(seen) |-> seen[order[i]]]
    /\ UNCHANGED <<scanning, query, place, seen>>

Merge == Collect \/ ByScore

Dispatch(q) ==
    /\ \/ Graph(q) \/ Embed(q) \/ Search(q) \/ Rerank(q)
       \/ AskWeb(q) \/ TakeItem(q) \/ Fetch(q) \/ WebEnds(q)
    /\ UNCHANGED <<scanning, place, seen, merged>>

Next == Merge \/ \E q \in Q : Dispatch(q)

Spec == Init /\ [][Next]_vars

\* Store, reranker and web answer, raise or run into their timeouts.
Fairness == WF_vars(Merge) /\ \A q \in Q : WF_vars(Dispatch(q))
-----------------------------------------------------------------------------
TypeOK == /\ scanning \in BOOLEAN
          /\ \A q \in Q : /\ query[q].pc \in {"start", "search", "rerank", "item", "fetch", "done"}
                          /\ query[q].items \in 0..(2 * Limit)

Texts(s) == {s[i].text : i \in 1..Len(s)}

Keys(s)  == {DedupKey(s[i]) : i \in 1..Len(s)}

\* Whichever sub-query comes back first or fails: of the texts found that begin alike
\* one is passed on, the first by the priority of its sub-query, and none but these,
\* by descending score; no hit the reranker left out was better than one it took;
\* nothing the scanner objects to comes from the web, and no more than was asked for.
PassagesRanked ==
    /\ merged # NotYet =>
          /\ Keys(merged) = UNION {Keys(query[q].result) : q \in Q}
          /\ \A i, j \in 1..Len(merged) : i < j =>
                DedupKey(merged[i]) # DedupKey(merged[j]) /\ merged[i].score >= merged[j].score
          /\ \A i \in 1..Len(merged), q \in Q :
                DedupKey(merged[i]) \in Keys(query[q].result) =>
                   \E p \in 1..q, k \in 1..Limit + TopN :
                       k <= Len(query[p].result) /\ query[p].result[k] = merged[i]
    /\ \A q \in Q :
          /\ query[q].tool = "web" =>
                /\ Len(query[q].result) <= Limit
                /\ scanning =>
                      \A i \in 1..Len(query[q].result) : query[q].result[i].severity = "pass"
          /\ query[q].tool = "vector" =>
                /\ Len(query[q].result) <= TopN
                /\ \A p \in DOMAIN query[q].found : \A i \in 1..Len(query[q].result) :
                      query[q].found[p] <= query[q].result[i].score \/ p \in Texts(query[q].result)

\* Violated.  A duplicate is a passage of the same content: every text some sub-query
\* found is passed on.  Chunks under one long heading, or of one sheet, begin alike.
EveryTextPassedOn ==
    merged # NotYet => Texts(merged) = UNION {Texts(query[q].result) : q \in Q}

\* The retriever always returns: an error of one sub-query is none of the others.
RetrievalEnds == <>(merged # NotYet)
=============================================================================
