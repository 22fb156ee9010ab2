-------------------------- MODULE ScoreAccumulator --------------------------
(***************************************************************************)
(* The bounded evidence ledger of scoring.rs: contributions with an ID are *)
(* added to a saturating score, each ID once, as long as there is room.    *)
(***************************************************************************)
EXTENDS Prediction

CONSTANT MaxEvidence   (* MAX_EVIDENCE of the ledger                       *)

ASSUME MaxEvidenceAssumption == MaxEvidence \in Nat

(* full: a new ID could not be retained, accumulate's only error.          *)
Ledger == [score : Score, tracked : Seq(Nat), full : BOOLEAN]

EmptyLedger == [score |-> 0, tracked |-> << >>, full |-> FALSE]

ContainsEvidence(ledger, id) == Contains(ledger.tracked, id)

Accumulated(ledger, id, value) ==
  IF ContainsEvidence(ledger, id) THEN ledger
  ELSE IF Len(ledger.tracked) >= MaxEvidence THEN [ledger EXCEPT !.full = TRUE]
  ELSE [ledger EXCEPT !.score = Saturate(@ + value), !.tracked = Append(@, id)]
=============================================================================
