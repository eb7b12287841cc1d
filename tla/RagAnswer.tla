----------------------------- MODULE RagAnswer -----------------------------
(***************************************************************************)
(* app/services/rag.py: one question answered from the documents table,    *)
(* while the indexer may commit new documents.  What the dense search and  *)
(* the cross-encoder think of a document is chosen when they are asked;    *)
(* which documents hold the words of the question is settled by them both. *)
(***************************************************************************)
EXTENDS RankFusion, FiniteSetsExt

CONSTANTS
  Docs,        \* the rows documents may hold
  Early,       \* those it holds from the start; the others come in one commit
  RetrieveK,   \* _RETRIEVE_K
  RerankK,     \* _RERANK_K
  Alphas,      \* of the requests, in tenths
  Conditions,  \* what a filter may select
  Scores       \* of the cross-encoder

ASSUME RagAssumption ==
  /\ IsFiniteSet(Docs) /\ Early \subseteq Docs
  /\ RetrieveK \in Nat \ {0} /\ RerankK \in 1..RetrieveK
  /\ Alphas \subseteq 0..10
  /\ Conditions \subseteq SUBSET Docs
  /\ Scores \subseteq Int

VARIABLES
  pc,        \* what the request waits for
  table,     \* documents
  alpha, useReranker, useHyde,   \* of the request
  matches,   \* the documents its words match, in the table or not
  filters,   \* the documents its filters select
  embedded,  \* the text that stands for the question in the dense search
  dense, sparse,   \* the two rankings
  fused,     \* the candidates
  score,     \* of the cross-encoder
  contexts   \* the documents the answer is made from

request == <<alpha, useReranker, useHyde, matches>>
ragVars == <<pc, table, request, filters, embedded, dense, sparse, fused, score, contexts>>

Orderings(S) == {s \in [1..Cardinality(S) -> S] : Range(s) = S}
Top(s, k) == SubSeq(s, 1, Min({k, Len(s)}))

\* The candidates again, by the scores the cross-encoder gives them.
Reranked(docs, scores) ==
  ByValue(Range(docs), [d \in Range(docs) |-> [num |-> scores[d], den |-> 1]],
                       [d \in Range(docs) |-> Rank(d, docs)])

RagInit ==
  /\ pc = "filters" /\ table = Early
  /\ alpha \in Alphas /\ useReranker \in BOOLEAN /\ useHyde \in BOOLEAN
  /\ matches \in SUBSET Docs /\ filters = Docs /\ embedded = "query"
  /\ dense = <<>> /\ sparse = <<>> /\ fused = <<>>
  /\ score = [d \in Docs |-> 0] /\ contexts = <<>>

\* A run of the indexer commits.
IndexerCommits ==
  /\ table # Docs
  /\ table' = Docs
  /\ UNCHANGED <<pc, request, filters, embedded, dense, sparse, fused, score, contexts>>

\* The model finds conditions in the question; where it fails, or what it
\* says is no JSON object, there are none.
ExtractFilters ==
  /\ pc = "filters"
  /\ filters' \in Conditions \cup {Docs}
  /\ pc' = "hyde"
  /\ UNCHANGED <<table, request, embedded, dense, sparse, fused, score, contexts>>

\* The question itself stands in where the model fails or says nothing.
RewriteHyde ==
  /\ pc = "hyde"
  /\ embedded' \in IF useHyde THEN {"query", "hypothesis"} ELSE {"query"}
  /\ pc' = "dense"
  /\ UNCHANGED <<table, request, filters, dense, sparse, fused, score, contexts>>

\* The index of the embeddings (HNSW) is approximate: it visits some of the
\* rows, and the filters choose among those.  What fulfils the conditions may
\* be missed, all of it too.
VectorSearch ==
  /\ pc = "dense"
  /\ \E found \in SUBSET (table \cap filters) : \E order \in Orderings(found) :
       dense' = Top(order, RetrieveK)
  /\ pc' = "sparse"
  /\ UNCHANGED <<table, request, filters, embedded, sparse, fused, score, contexts>>

\* The two rankings become one, or there is nothing to answer from.
Retrieved(found) ==
  LET docs == Top(Fuse(dense, found, alpha), RetrieveK) IN
  /\ sparse' = found
  /\ fused' = docs
  /\ pc' = IF docs = <<>> THEN "not found" ELSE "rerank"

\* Mutant of FtsSearch: the limit is applied in front of the filters.
FtsSearch_FiltersLast ==
  /\ pc = "sparse"
  /\ \E order \in Orderings(table \cap matches) :
       Retrieved(SelectSeq(Top(order, RetrieveK), LAMBDA d : d \in filters))
  /\ UNCHANGED <<table, request, filters, embedded, dense, score, contexts>>

\* A statement of its own: under READ COMMITTED it may see newer rows.  It is
\* exact: of the documents that match and fulfil the conditions it finds as
\* many as the limit lets.
FtsSearch ==
  /\ pc = "sparse"
  /\ \E order \in Orderings(table \cap filters \cap matches) : Retrieved(Top(order, RetrieveK))
  /\ UNCHANGED <<table, request, filters, embedded, dense, score, contexts>>

\* Mutant of Rerank: the candidates are cut before they are ranked again.
Rerank_CutFirst ==
  /\ pc = "rerank"
  /\ score' \in {s \in [Docs -> Scores \cup {0}] : \A d \in Docs :
                   IF useReranker /\ Contains(fused, d) THEN s[d] \in Scores ELSE s[d] = 0}
  /\ contexts' = Reranked(Top(fused, RerankK), score')
  /\ pc' = "generate"
  /\ UNCHANGED <<table, request, filters, embedded, dense, sparse, fused>>

\* The cross-encoder scores every candidate, and the best are kept; without
\* it the order of the retrieval stands.
Rerank ==
  /\ pc = "rerank"
  /\ score' \in {s \in [Docs -> Scores \cup {0}] : \A d \in Docs :
                   IF useReranker /\ Contains(fused, d) THEN s[d] \in Scores ELSE s[d] = 0}
  /\ contexts' = Top(Reranked(fused, score'), RerankK)
  /\ pc' = "generate"
  /\ UNCHANGED <<table, request, filters, embedded, dense, sparse, fused>>

Generate ==
  /\ pc = "generate"
  /\ pc' = "answered"
  /\ UNCHANGED <<table, request, filters, embedded, dense, sparse, fused, score, contexts>>

Working == {"filters", "hyde", "dense", "sparse", "rerank", "generate"}

\* The embedder, the database, the cross-encoder or the last call of the model
\* raises: the request or the tool call fails.  The first two calls of the
\* model never do.
Fail ==
  /\ pc \in Working \ {"filters", "hyde"}
  /\ pc' = "failed"
  /\ UNCHANGED <<table, request, filters, embedded, dense, sparse, fused, score, contexts>>

RagFinished == pc \notin Working /\ UNCHANGED ragVars

Step ==
  \/ ExtractFilters \/ RewriteHyde \/ VectorSearch \/ FtsSearch
  \/ Rerank \/ Generate \/ Fail

RagNext == Step \/ IndexerCommits \/ RagFinished

RagSpec == RagInit /\ [][RagNext]_ragVars

-----------------------------------------------------------------------------
\* That there is nothing to be found is said only if no document of the table
\* had the words of the question and fulfilled the conditions when the request
\* began, whatever the index of the embeddings missed: neither the limits nor
\* a weight of zero for the words hide the last one that does (rag.py:60).
NotFoundIsTrue == pc = "not found" => Early \cap filters \cap matches = {}

\* The place in a ranking, with absent documents behind all others.
Place(d, docs) == IF Contains(docs, d) THEN Rank(d, docs) ELSE Len(docs) + 1

\* A document that one ranking puts before another, and the other not behind
\* it, is not behind it in the fusion, whatever the weights, zero included;
\* so it is not cut in its favour either (retriever.py:13-38, 68).
FusionRespectsBothRankings ==
  fused # <<>> =>
    \A d, e \in Range(dense) \cup Range(sparse) :
      /\ Place(d, dense) <= Place(e, dense)
      /\ Place(d, sparse) <= Place(e, sparse)
      /\ d # e
      => Place(d, fused) <= Place(e, fused)

\* The answer is made from the candidates the cross-encoder likes best, those
\* retrieval prefers among equals; and from the first ones without it
\* (rag.py:64-70).
ContextsAreTheBest ==
  pc \in {"generate", "answered"} =>
    /\ Len(contexts) = Min({RerankK, Len(fused)})
    /\ \A d \in Range(contexts), e \in Range(fused) :
         \/ d = e
         \/ score[d] > score[e]
         \/ score[d] = score[e] /\ Rank(d, fused) < Rank(e, fused)
         \/ Contains(contexts, e) /\ Rank(e, contexts) < Rank(d, contexts)

\* The contexts are there and fulfil the conditions, none twice.
RagTypeOK ==
  /\ pc \in Working \cup {"answered", "not found", "failed"}
  /\ Early \subseteq table /\ table \subseteq Docs
  /\ embedded \in {"query", "hypothesis"}
  /\ \A docs \in {dense, sparse, fused, contexts} :
       /\ Range(docs) \subseteq table \cap filters
       /\ Len(docs) <= RetrieveK /\ IsInjective(docs)
=============================================================================
