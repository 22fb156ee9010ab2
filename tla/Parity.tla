------------------------------- MODULE Parity -------------------------------
(***************************************************************************)
(* The parity of a compiled artifact with a corpus of teacher observations *)
(* (parity.rs) and the verdict of the command that measures it (lib.rs of  *)
(* the CLI).  The corpus is the one the artifact was compiled from, as it  *)
(* was captured, or one the compiler never saw.  One step measures one     *)
(* observation.                                                            *)
(*                                                                         *)
(* The target of an observation is its best emission, as in Compiler; the  *)
(* four identities a capture must share with the artifact are one truth    *)
(* value.                                                                  *)
(***************************************************************************)
EXTENDS Compiler

CONSTANTS
  HeldOut,      (* corpora the compiler never saw, the empty one if any    *)
  Thresholds    (* what a caller may require, in basis points              *)

(* ObservationCorpus::parse: no context is longer than the format's.       *)
ASSUME HeldOutAssumption ==
  \A observed \in HeldOut :
    /\ observed \in Seq(Observation)
    /\ \A o \in ToSet(observed) : Len(o.context) <= MaxContext /\ o.emissions # << >>
ASSUME ThresholdsAssumption ==
  Thresholds \subseteq [exact_top1 : Nat, graph_top1 : Nat, graph_coverage : Nat,
                        graph_top_k_recall : Nat]

VARIABLES
  lane,        (* "none", "Both" or "GraphOnly": the evaluation begun      *)
  sample,      (* its corpus                                               *)
  measured,    (* observations of it measured                              *)
  counters,    (* the ParityReport                                         *)
  verdict      (* what model_parity returned, "none" until it does         *)

parityVars == <<lane, sample, measured, counters, verdict>>

NoCounters ==
  [exact_top1_matches |-> 0, graph_top1_matches |-> 0, exact_covered |-> 0,
   graph_covered |-> 0, covered_hits |-> 0, covered_total |-> 0,
   order_matches |-> 0, order_samples |-> 0, recall_hits |-> 0, recall_total |-> 0,
   regions_scanned |-> 0]

-----------------------------------------------------------------------------
Target(o) == Head(o.emissions).token

FirstIsTarget(prediction, o) ==
  prediction.entries # << >> /\ Head(prediction.entries).token = Target(o)

(* top_k_order_matches: what was captured is the front of the prediction.  *)
OrderMatches(prediction, o) ==
  \A k \in DOMAIN o.emissions :
    /\ k \in DOMAIN prediction.entries
    /\ prediction.entries[k].token = o.emissions[k].token

(* top_k_recall: the captured tokens among as many first predictions.      *)
RecallHits(prediction, o) ==
  Cardinality({k \in DOMAIN o.emissions :
    \E p \in DOMAIN prediction.entries \cap DOMAIN o.emissions :
      prediction.entries[p].token = o.emissions[k].token})

(* Mutant: the graph lane may answer from exact evidence.                  *)
GraphLaneExact(o) == Predicted(result.artifact, o.context, "PreferExact")

GraphLane(o) == Predicted(result.artifact, o.context, "GraphOnly")

ExactLane(o) == Predicted(result.artifact, o.context, "PreferExact")

One(condition) == IF condition THEN 1 ELSE 0

(* What one observation adds to the counters of the exact lane; a fallback *)
(* to the graph counts among its top-1 matches and not as covered.         *)
AddExact(report, o) ==
  LET answer == ExactLane(o)
      covered == answer.summary.source = "Exact"
  IN  [report EXCEPT
         !.exact_covered = @ + One(covered),
         !.order_samples = @ + One(covered),
         !.order_matches = @ + One(covered /\ OrderMatches(answer.prediction, o)),
         !.exact_top1_matches = @ + One(FirstIsTarget(answer.prediction, o))]

AddGraph(report, o) ==
  LET answer == GraphLane(o)
      covered == answer.summary.source = "Graph"
      hits == RecallHits(answer.prediction, o)
  IN  [report EXCEPT
         !.graph_covered = @ + One(covered),
         !.recall_hits = @ + hits,
         !.recall_total = @ + Len(o.emissions),
         !.covered_hits = @ + (IF covered THEN hits ELSE 0),
         !.covered_total = @ + (IF covered THEN Len(o.emissions) ELSE 0),
         !.regions_scanned = @ + answer.summary.regions_scanned,
         !.graph_top1_matches = @ + One(FirstIsTarget(answer.prediction, o))]

BasisPoints(matches, samples) ==
  IF samples = 0 THEN 0 ELSE Smaller((matches * 10000) \div samples, 10000)

Passes(report, samples, thresholds) ==
  /\ BasisPoints(report.exact_top1_matches, samples) >= thresholds.exact_top1
  /\ BasisPoints(report.graph_top1_matches, samples) >= thresholds.graph_top1
  /\ BasisPoints(report.graph_covered, samples) >= thresholds.graph_coverage
  /\ BasisPoints(report.recall_hits, report.recall_total) >= thresholds.graph_top_k_recall

-----------------------------------------------------------------------------
InitParity ==
  /\ lane = "none"
  /\ sample = << >>
  /\ measured = 0
  /\ counters = NoCounters
  /\ verdict = "none"

(* evaluate and evaluate_graph_only refuse an empty corpus first, and then *)
(* one captured under other identities.                                    *)
BeginEvaluation(chosen, observed, same_identity) ==
  /\ phase = "done"
  /\ lane = "none"
  /\ lane' = chosen
  /\ sample' = observed
  /\ verdict' = IF observed = << >> THEN "EmptyCorpus"
                ELSE IF ~ same_identity THEN "IdentityMismatch" ELSE "none"
  /\ UNCHANGED <<vars, measured, counters>>

MeasureOne ==
  /\ lane # "none" /\ verdict = "none"
  /\ measured < Len(sample)
  /\ measured' = measured + 1
  /\ LET o == sample[measured + 1]
     IN  counters' = IF lane = "Both" THEN AddGraph(AddExact(counters, o), o)
                     ELSE AddGraph(counters, o)
  /\ UNCHANGED <<vars, lane, sample, verdict>>

(* model_parity: the report is returned when it passes the thresholds.     *)
Judge(thresholds) ==
  /\ lane # "none" /\ verdict = "none"
  /\ measured = Len(sample)
  /\ verdict' = IF Passes(counters, Len(sample), thresholds) THEN "Ok"
                ELSE "ParityThresholdFailed"
  /\ UNCHANGED <<vars, lane, sample, measured, counters>>

ParityNext ==
  \/ \E chosen \in {"Both", "GraphOnly"} : \E observed \in {corpus} \cup HeldOut :
       \E same_identity \in BOOLEAN : BeginEvaluation(chosen, observed, same_identity)
  \/ MeasureOne
  \/ \E thresholds \in Thresholds : Judge(thresholds)

-----------------------------------------------------------------------------
(* With exact records, every observation of the corpus the artifact was    *)
(* compiled from, repeated ones included, is answered by its own record in *)
(* the teacher's order, whatever shorter suffixes and hash collisions      *)
(* there are, so that a test of the exact lane alone is passed (evaluate,  *)
(* parity.rs:248, and predict_exact in artifact.rs).                       *)
ExactLaneIsPerfect ==
  /\ lane = "Both" /\ sample = corpus /\ config.include_exact
  /\ \A o \in ToSet(corpus) : Len(o.emissions) <= OutputCapacity
  =>
  /\ counters.exact_covered = measured
  /\ counters.exact_top1_matches = measured
  /\ counters.order_matches = measured
  /\ measured > 0 => BasisPoints(counters.exact_top1_matches, measured) = 10000

(* The counters of the two lanes keep apart what they measure, on corpora  *)
(* the compiler saw or never saw: the graph lane is never right about a    *)
(* token where it is not covered, a best token that is right is also       *)
(* recalled, an order that matches has a best token that is right, and     *)
(* without exact records the exact lane is right exactly where the graph   *)
(* is (evaluate_graph_only, parity.rs:328, promises that "exact lookup     *)
(* must not improve the measured result").                                 *)
LanesKeepApart ==
  /\ counters.graph_top1_matches <= counters.graph_covered
  /\ counters.graph_top1_matches <= counters.covered_hits
  /\ counters.recall_hits = counters.covered_hits
  /\ counters.recall_hits <= counters.recall_total
  /\ counters.order_matches <= counters.exact_top1_matches
  /\ lane = "GraphOnly" => counters.exact_covered + counters.exact_top1_matches = 0
  /\ lane = "Both" /\ ~ config.include_exact =>
       /\ counters.exact_covered = 0
       /\ counters.exact_top1_matches = counters.graph_top1_matches
=============================================================================
