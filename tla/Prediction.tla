----------------------------- MODULE Prediction -----------------------------
(***************************************************************************)
(* The fixed-capacity prediction buffer of artifact.rs: ranked token       *)
(* scores and the count of what did not fit.                               *)
(***************************************************************************)
EXTENDS Integers, SequencesExt

CONSTANTS
  Tokens,          (* token IDs                                            *)
  OutputCapacity,  (* CAPACITY of the prediction                           *)
  ScoreMin,        (* i32::MIN                                             *)
  ScoreMax         (* i32::MAX                                             *)

ASSUME TokensAssumption == Tokens \subseteq Nat
ASSUME OutputCapacityAssumption == OutputCapacity \in Nat
ASSUME ScoreAssumption ==
  ScoreMin \in Int /\ ScoreMax \in Int /\ ScoreMin < 0 /\ 0 < ScoreMax

Score      == ScoreMin .. ScoreMax
TokenScore == [token : Tokens, score : Score]

(* i32::saturating_add of two scores, from their mathematical sum.         *)
Saturate(sum) ==
  IF sum > ScoreMax THEN ScoreMax ELSE IF sum < ScoreMin THEN ScoreMin ELSE sum

(* token_score_precedes: descending score, then ascending token.           *)
TokenPrecedes(left, right) ==
  \/ left.score > right.score
  \/ left.score = right.score /\ left.token < right.token

Ranked ==
  INSTANCE RankedInsert WITH Capacity <- OutputCapacity, Before <- TokenPrecedes

EmptyPrediction == [entries |-> << >>, truncated |-> 0]

(* insert_exact appends in the order of the record.                        *)
InsertExact(prediction, entry) ==
  IF Len(prediction.entries) < OutputCapacity
  THEN [entries |-> Append(prediction.entries, entry), truncated |-> prediction.truncated]
  ELSE [entries |-> prediction.entries, truncated |-> prediction.truncated + 1]

(* The slot that already holds a token, 0 for none.                        *)
SlotOf(entries, token) ==
  SelectInSeq(entries, LAMBDA entry : entry.token = token)

(* Mutant: the score of a held token is replaced and not added to.         *)
AccumulateReplaces(prediction, entry) ==
  LET entries == prediction.entries
      slot == SlotOf(entries, entry.token)
  IN  IF slot # 0
      THEN [entries   |-> Ranked!InsertRanked(RemoveAt(entries, slot), entry),
            truncated |-> prediction.truncated]
      ELSE [entries   |-> Ranked!InsertRanked(entries, entry),
            truncated |-> IF Len(entries) < OutputCapacity
                          THEN prediction.truncated ELSE prediction.truncated + 1]

(* Mutant: a token that comes into a full buffer takes over the score of   *)
(* the entry that is let go.                                               *)
AccumulateInherits(prediction, entry) ==
  LET entries == prediction.entries
      slot == SlotOf(entries, entry.token)
      full == Len(entries) >= OutputCapacity
      inherited == IF full /\ entries # << >> /\ TokenPrecedes(entry, Last(entries))
                   THEN [entry EXCEPT !.score = Saturate(@ + Last(entries).score)] ELSE entry
  IN  IF slot # 0
      THEN [entries   |-> Ranked!InsertRanked(
                            RemoveAt(entries, slot),
                            [token |-> entry.token,
                             score |-> Saturate(entries[slot].score + entry.score)]),
            truncated |-> prediction.truncated]
      ELSE [entries   |-> Ranked!InsertRanked(entries, inherited),
            truncated |-> IF full THEN prediction.truncated + 1 ELSE prediction.truncated]

(* accumulate: a held token's score grows, another token is added while    *)
(* there is room, and a full buffer lets its last entry go for a better    *)
(* one.  sort_initialized is an insertion sort and runs after every change *)
(* of one entry of a sorted buffer, so it moves that entry to its place.   *)
Accumulate(prediction, entry) ==
  LET entries == prediction.entries
      slot == SlotOf(entries, entry.token)
  IN  IF slot # 0
      THEN [entries   |-> Ranked!InsertRanked(
                            RemoveAt(entries, slot),
                            [token |-> entry.token,
                             score |-> Saturate(entries[slot].score + entry.score)]),
            truncated |-> prediction.truncated]
      ELSE [entries   |-> Ranked!InsertRanked(entries, entry),
            truncated |-> IF Len(entries) < OutputCapacity
                          THEN prediction.truncated ELSE prediction.truncated + 1]
=============================================================================
