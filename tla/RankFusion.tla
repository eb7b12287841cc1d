----------------------------- MODULE RankFusion -----------------------------
(***************************************************************************)
(* _rrf_fuse of app/rag/retriever.py: two rankings of documents become one *)
(* by reciprocal rank fusion.  alpha is in tenths, and scores are compared *)
(* as fractions; the code's floats keep the order of fractions this far    *)
(* apart.                                                                  *)
(***************************************************************************)
EXTENDS Integers, Sequences, FiniteSets, SequencesExt

CONSTANT RrfK          \* _RRF_K

ASSUME FusionAssumption == RrfK \in Nat

\* The place of a document in a ranking, from 1; 0 where it is absent.
Rank(d, docs) == IF Contains(docs, d) THEN CHOOSE n \in 1..Len(docs) : docs[n] = d ELSE 0

\* weight / (_RRF_K + rank + 1), nothing for an absent document.
Share(weight, rank) ==
  IF rank = 0 THEN [num |-> 0, den |-> 1] ELSE [num |-> weight, den |-> RrfK + rank]

Plus(s, t) == [num |-> s.num * t.den + t.num * s.den, den |-> s.den * t.den]
Exceeds(s, t) == s.num * t.den > t.num * s.den

\* Mutant of Score: the second ranking overwrites the score of the first.
Score_Overwritten(d, dense, sparse, alpha) ==
  IF Rank(d, sparse) # 0 THEN Share(alpha, Rank(d, sparse))
  ELSE Share(10 - alpha, Rank(d, dense))

Score(d, dense, sparse, alpha) ==
  Plus(Share(10 - alpha, Rank(d, dense)), Share(alpha, Rank(d, sparse)))

\* A finite set as a sequence: the n-th is the one that n - 1 are before.
Sorted(S, before) ==
  [n \in 1..Cardinality(S) |->
     CHOOSE d \in S : Cardinality({e \in S : <<e, d>> \in before}) = n - 1]

\* sorted(..., reverse=True) is stable: equal values keep their order.
ByValue(S, value, place) ==
  Sorted(S, {p \in S \X S : \/ Exceeds(value[p[1]], value[p[2]])
                            \/ /\ ~Exceeds(value[p[2]], value[p[1]])
                               /\ place[p[1]] < place[p[2]]})

\* The keys enter the dictionary of scores in the order of the dense ranking,
\* then those only the sparse one has.
Entry(d, dense, sparse) ==
  IF Contains(dense, d) THEN Rank(d, dense) ELSE Len(dense) + Rank(d, sparse)

Fuse(dense, sparse, alpha) ==
  LET docs == Range(dense) \cup Range(sparse)
  IN  ByValue(docs, [d \in docs |-> Score(d, dense, sparse, alpha)],
                    [d \in docs |-> Entry(d, dense, sparse)])
=============================================================================
