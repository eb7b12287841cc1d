----------------------------- MODULE Evaluation -----------------------------
(***************************************************************************)
(* The two gates in front of a merge: eval/classification/runner.py asks   *)
(* the model server to label the golden issues, eval/rag/runner.py asks    *)
(* the api service the golden questions, and both compare what they        *)
(* measure with eval_thresholds.yaml.  Any request may fail.               *)
(*                                                                         *)
(* Metrics and thresholds are integers, in ten thousandths, as the code    *)
(* rounds them; a tie is rounded up.  A file of thresholds is a function   *)
(* on the names it gives, and null is -1; sections that no gate reads are  *)
(* left out.                                                               *)
(***************************************************************************)
EXTENDS Integers, Sequences, FiniteSets, FiniteSetsExt

CONSTANTS
  Labels,      \* of the classifier
  Golden,      \* the label of each golden issue
  Questions,   \* bound: golden questions
  Sweep,       \* the values of alpha, in tenths, with --alpha-sweep
  Files,       \* what eval_thresholds.yaml may hold
  Values       \* a metric of RAGAS may have

Null == -1
Names == {"accuracy", "macro_f1"}
Generated == {"faithfulness", "answer_relevancy", "context_recall"}
RagNames == {"hit_at_5", "mrr"} \cup Generated

ASSUME EvaluationAssumption ==
  /\ IsFiniteSet(Labels) /\ Labels # {} /\ "error" \notin Labels
  /\ Golden \in Seq(Labels) /\ Golden # <<>>
  /\ Questions \in Nat \ {0}
  /\ Sweep \in Seq(1..9) /\ Sweep # <<>>
  /\ \A f \in Files : \A name \in DOMAIN f : f[name] \in {Null} \cup Nat
  /\ Values \subseteq Nat

VARIABLES
  stage,          \* what the runner does; at last, what it exits with
  thresholds,  \* what eval_thresholds.yaml holds
  predicted,   \* predicted, of the golden issues asked so far
  alphas, useRagas, runAblation,   \* of the command line
  outcomes,    \* of each alpha, how the questions asked so far ended
  best,        \* the index of best
  answered,    \* of the questions asked for generation, which were answered
  generation   \* report["generation"]

flags == <<alphas, useRagas, runAblation>>
sweepVars == <<outcomes, best, answered, generation>>
gateVars == <<stage, thresholds, predicted, flags, sweepVars>>

Unmeasured == [m \in Generated |-> Null]

GateInit ==
  /\ stage \in {"classify", "sweep"}
  /\ thresholds \in Files
  /\ predicted = <<>>
  /\ alphas \in {<<6>>, Sweep} /\ useRagas \in BOOLEAN /\ runAblation \in BOOLEAN
  /\ stage = "classify" => alphas = <<6>> /\ ~useRagas /\ ~runAblation
  /\ outcomes = [a \in 1..Len(alphas) |-> <<>>] /\ best = 1
  /\ answered = <<>> /\ generation = Unmeasured

-----------------------------------------------------------------------------
(* The boot check of the api service on the same file.                     *)

\* Mutant of Boots: 0 is a number like any other.
Boots_AcceptsZero(file) == file # << >> /\ \A name \in DOMAIN file : file[name] # Null

\* assert_eval_thresholds_nonzero: no value is zero or null.  A value that is
\* not there is not missed, but an empty file is null.
Boots(file) == file # << >> /\ \A name \in DOMAIN file : file[name] \notin {0, Null}

-----------------------------------------------------------------------------
(* The gate of the classifier.                                             *)

\* round(num / den, 4)
Round4(num, den) == (20000 * num + den) \div (2 * den)

Items == DOMAIN Golden
Correct(results) == {i \in Items : results[i] = Golden[i]}
Predicted(results, label) == {i \in Items : results[i] = label}
Labelled(label) == {i \in Items : Golden[i] = label}

\* 2pr / (p + r) with p = tp / (tp + fp) and r = tp / (tp + fn), where tp + fp
\* issues are predicted to have the label and tp + fn have it.
F1(results, label) ==
  LET tp == Cardinality(Predicted(results, label) \cap Labelled(label)) IN
  IF tp = 0 THEN 0
  ELSE Round4(2 * tp, Cardinality(Predicted(results, label)) + Cardinality(Labelled(label)))

Accuracy(results) == Round4(Cardinality(Correct(results)), Len(Golden))

\* The sum of the values of a function.
Total(f) ==
  LET over[S \in SUBSET DOMAIN f] ==
        IF S = {} THEN 0
        ELSE LET x == CHOOSE x \in S : TRUE IN f[x] + over[S \ {x}]
  IN  over[DOMAIN f]

\* Mutant of MacroF1: the mean is taken over the labels that were predicted.
MacroF1_OfPredicted(results) ==
  LET found == {l \in Labels : \E i \in Items : results[i] = l} IN
  IF found = {} THEN 0
  ELSE Round4(Total([l \in found |-> F1(results, l)]), 10000 * Cardinality(found))

MacroF1(results) ==
  Round4(Total([l \in Labels |-> F1(results, l)]), 10000 * Cardinality(Labels))

\* A label the classifier does not have scores 0.
Metric(results, name) ==
  IF name = "accuracy" THEN Accuracy(results)
  ELSE IF name = "macro_f1" THEN MacroF1(results)
  ELSE IF name \in Labels THEN F1(results, name)
  ELSE 0

\* check_thresholds: one that is not there is 0, which nothing falls short of.
\* Null cannot be compared, and an empty file is null, which has no sections:
\* the runner stops with an exception.
Judged(results) ==
  LET set == DOMAIN thresholds \ RagNames IN
  IF thresholds = << >> \/ \E name \in set : thresholds[name] = Null THEN "stopped"
  ELSE IF \E name \in set : Metric(results, name) < thresholds[name] THEN "failed"
  ELSE "passed"

\* A request that fails, or an answer without a label, is the prediction
\* "error".
CallClassifier ==
  /\ stage = "classify" /\ Len(predicted) < Len(Golden)
  /\ \E label \in Labels \cup {"error"} : predicted' = Append(predicted, label)
  /\ UNCHANGED <<stage, thresholds, flags, sweepVars>>

Judge ==
  /\ stage = "classify" /\ Len(predicted) = Len(Golden)
  /\ stage' = Judged(predicted)
  /\ UNCHANGED <<thresholds, predicted, flags, sweepVars>>

-----------------------------------------------------------------------------
(* The gate of the RAG pipeline.                                           *)

Hits(outcome) == Cardinality({q \in DOMAIN outcome : outcome[q] = "hit"})

\* The alpha whose turn it is: one httpx client asks all questions of it.
Current == Min({a \in DOMAIN outcomes : Len(outcomes[a]) < Questions})
Swept == \A a \in DOMAIN outcomes : Len(outcomes[a]) = Questions

\* A hit is a keyword of the ideal answer in the answer.  It counts as rank 1,
\* whether the source ids of the question are known or not, a miss and a
\* failed request as 0: hit@5 and MRR are the same.
AskQuestion ==
  /\ stage = "sweep" /\ ~Swept
  /\ \E outcome \in {"hit", "miss", "failed"} :
       outcomes' = [outcomes EXCEPT ![Current] = Append(@, outcome)]
  /\ UNCHANGED <<stage, thresholds, predicted, flags, best, answered, generation>>

\* aggregate(hit_scores)
HitRate(a) == Round4(Hits(outcomes[a]), Len(outcomes[a]))

Afterwards == IF useRagas THEN "keys" ELSE "check"

\* max takes the first of the best.
EndSweep ==
  /\ stage = "sweep" /\ Swept
  /\ best' = Min({a \in DOMAIN outcomes : \A b \in DOMAIN outcomes : HitRate(a) >= HitRate(b)})
  /\ stage' = IF runAblation THEN "ablation" ELSE Afterwards
  /\ UNCHANGED <<thresholds, predicted, flags, outcomes, answered, generation>>

\* Two more passes, which are reported and not judged.
Ablate ==
  /\ stage = "ablation"
  /\ stage' = Afterwards
  /\ UNCHANGED <<thresholds, predicted, flags, sweepVars>>

\* A failure to find the keys in Vault is a warning.  Where RAGAS is not
\* installed nothing is measured.
InjectKeys ==
  /\ stage = "keys"
  /\ stage' \in {"generate", "check"}
  /\ UNCHANGED <<thresholds, predicted, flags, sweepVars>>

\* A question whose request fails is left out of the generation metrics.
AskForGeneration ==
  /\ stage = "generate" /\ Len(answered) < Questions
  /\ \E ok \in BOOLEAN : answered' = Append(answered, ok)
  /\ UNCHANGED <<stage, thresholds, predicted, flags, outcomes, best, generation>>

\* Nothing is measured without an answer; a metric whose values are all NaN
\* is null; without a key, and at any other failure, RAGAS raises.
Evaluate ==
  /\ stage = "generate" /\ Len(answered) = Questions
  /\ IF \E q \in DOMAIN answered : answered[q]
     THEN \/ generation' \in [Generated -> Values \cup {Null}] /\ stage' = "check"
          \/ generation' = generation /\ stage' = "stopped"
     ELSE generation' = generation /\ stage' = "check"
  /\ UNCHANGED <<thresholds, predicted, flags, outcomes, best, answered>>

RagMetrics ==
  [name \in RagNames |->
     IF name \in Generated THEN generation[name] ELSE HitRate(best)]

\* check_thresholds: a metric or a threshold that is null is passed over; an
\* empty file stops this runner too.
Check ==
  /\ stage = "check"
  /\ stage' = IF thresholds = << >> THEN "stopped"
              ELSE IF \E name \in DOMAIN RagMetrics \cap DOMAIN thresholds :
                        /\ RagMetrics[name] # Null /\ thresholds[name] # Null
                        /\ RagMetrics[name] < thresholds[name]
              THEN "failed" ELSE "passed"
  /\ UNCHANGED <<thresholds, predicted, flags, sweepVars>>

Verdict == {"passed", "failed", "stopped"}

GateFinished == stage \in Verdict /\ UNCHANGED gateVars

GateNext ==
  \/ CallClassifier \/ Judge
  \/ AskQuestion \/ EndSweep \/ Ablate \/ InjectKeys
  \/ AskForGeneration \/ Evaluate \/ Check
  \/ GateFinished

GateSpec == GateInit /\ [][GateNext]_gateVars

-----------------------------------------------------------------------------
GateTypeOK ==
  /\ stage \in {"classify", "sweep", "ablation", "keys", "generate", "check"} \cup Verdict
  /\ predicted \in Seq(Labels \cup {"error"}) /\ Len(predicted) <= Len(Golden)
  /\ \A a \in 1..Len(alphas) : outcomes[a] \in Seq({"hit", "miss", "failed"})
  /\ best \in 1..Len(alphas)
  /\ generation \in [Generated -> Values \cup {Null}]

\* A gate whose thresholds the api service has accepted at its boot notices a
\* service that answers nothing.  One threshold is enough, on any metric but
\* those of RAGAS, which a service that does not answer leaves unmeasured.
DeadServiceIsNoticed ==
  stage = "passed" /\ Boots(thresholds) =>
    /\ predicted # <<>> /\ DOMAIN thresholds \ RagNames # {} =>
         \E i \in Items : predicted[i] # "error"
    /\ predicted = <<>> /\ DOMAIN thresholds \cap {"hit_at_5", "mrr"} # {} =>
         \E a \in DOMAIN outcomes, q \in 1..Questions : outcomes[a][q] # "failed"

\* A classifier that is right once more does not fail where it passed, though
\* the metrics of two labels change and their mean with them
\* (classification/runner.py:40-92).
BetterNeverFails ==
  stage = "passed" /\ predicted # <<>> =>
    \A i \in Items : Judged([predicted EXCEPT ![i] = Golden[i]]) = "passed"
=============================================================================
