---------------------------- MODULE MCEvaluation ----------------------------
(***************************************************************************)
(* Five golden issues of three labels, two golden questions, two alphas,   *)
(* and thresholds as in the repository, with some of them missing, zero or *)
(* null, or with one for a label the classifier does not have.             *)
(***************************************************************************)
EXTENDS Evaluation, TLC

MCGolden == <<"bug", "bug", "bug", "feature", "docs">>
MCSweep == <<2, 6>>
Shipped ==
     "accuracy" :> 6000 @@ "macro_f1" :> 6000
  @@ "bug" :> 5500 @@ "feature" :> 5000 @@ "docs" :> 8500
  @@ "hit_at_5" :> 7000 @@ "mrr" :> 6000
  @@ "faithfulness" :> 6500 @@ "answer_relevancy" :> 3500 @@ "context_recall" :> 5500
All(value) == [name \in DOMAIN Shipped |-> value]
Only(names) == [name \in names |-> Shipped[name]]
MCFiles ==
  {Shipped, All(0), << >>,
   [Shipped EXCEPT !["macro_f1"] = Null, !["hit_at_5"] = Null],
   Only({"macro_f1"}), Only({"docs", "mrr"}), Only({"faithfulness"}),
   Only({"accuracy", "hit_at_5"}), Only({"accuracy"}) @@ "question" :> 3500}
=============================================================================
