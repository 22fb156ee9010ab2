---------------------------- MODULE ExactSection ----------------------------
(***************************************************************************)
(* The exact section of an artifact (artifact.rs): records of a context's  *)
(* emissions, ordered by the hash of the context.                          *)
(***************************************************************************)
EXTENDS Integers, SequencesExt

CONSTANTS
  Contexts,   (* the contexts a caller may look up                         *)
  HashOf(_)   (* context_hash, an opaque deterministic function            *)

ASSUME HashOfAssumption == \A c \in Contexts : HashOf(c) \in Nat

(* What validate_records establishes of the section: hashes never          *)
(* decrease.  It does not recompute them, and contexts may repeat.         *)
HashesAscend(records) ==
  \A p, q \in 1 .. Len(records) : p < q => records[p].hash <= records[q].hash

(* A record answers for a context when its stored hash and its stored      *)
(* tokens are those of the context.                                        *)
Answers(record, c) == record.hash = HashOf(c) /\ record.context = c

(* The record find_exact must return: the first that answers, 0 for none.  *)
FirstMatch(records, c) ==
  IF \E p \in 1 .. Len(records) : Answers(records[p], c)
  THEN CHOOSE p \in 1 .. Len(records) :
         /\ Answers(records[p], c)
         /\ \A q \in 1 .. p - 1 : ~ Answers(records[q], c)
  ELSE 0
=============================================================================
