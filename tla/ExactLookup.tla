----------------------------- MODULE ExactLookup ----------------------------
(***************************************************************************)
(* ArtifactView::find_exact (artifact.rs): a binary search for the first   *)
(* record whose stored hash is not below the hash of the wanted context,   *)
(* then a linear scan of the records with an equal hash, because different *)
(* contexts may collide.  Record p is the code's index p - 1.              *)
(***************************************************************************)
EXTENDS ExactSection

CONSTANT RecordTables  (* the exact sections a validated artifact may carry *)

ExactRecord == [hash : Nat, context : Contexts]

ASSUME RecordTablesAssumption ==
  \A table \in RecordTables :
    table \in Seq(ExactRecord) /\ HashesAscend(table)

VARIABLES
  records,  (* the exact section of the artifact                           *)
  context,  (* the context being looked up                                 *)
  stage,    (* "search", "collisions" or "done"                            *)
  lower,    (* lower bound of the binary search, one-based                 *)
  upper,    (* upper bound of the binary search, one-based                 *)
  index,    (* the record the linear scan looks at next                    *)
  found     (* the record returned, 0 for Ok(None)                         *)

vars == <<records, context, stage, lower, upper, index, found>>

Init ==
  /\ records \in RecordTables
  /\ context \in Contexts
  /\ stage = "search"
  /\ lower = 1
  /\ upper = Len(records) + 1
  /\ index = 0
  /\ found = 0

(* lower + ((upper - lower) >> 1), of the zero-based bounds.               *)
Middle == lower + (upper - lower) \div 2

(* Mutant: the lower bound moves to the middle and not past it.            *)
SearchRightStays ==
  /\ stage = "search"
  /\ lower < upper
  /\ records[Middle].hash < HashOf(context)
  /\ lower' = Middle
  /\ UNCHANGED <<records, context, stage, upper, index, found>>

SearchRight ==
  /\ stage = "search"
  /\ lower < upper
  /\ records[Middle].hash < HashOf(context)
  /\ lower' = Middle + 1
  /\ UNCHANGED <<records, context, stage, upper, index, found>>

(* Mutant: the upper bound moves past the middle.                          *)
SearchLeftPast ==
  /\ stage = "search"
  /\ lower < upper
  /\ records[Middle].hash >= HashOf(context)
  /\ upper' = Middle - 1
  /\ UNCHANGED <<records, context, stage, lower, index, found>>

SearchLeft ==
  /\ stage = "search"
  /\ lower < upper
  /\ records[Middle].hash >= HashOf(context)
  /\ upper' = Middle
  /\ UNCHANGED <<records, context, stage, lower, index, found>>

SearchEnds ==
  /\ stage = "search"
  /\ lower >= upper
  /\ stage' = "collisions"
  /\ index' = lower
  /\ UNCHANGED <<records, context, lower, upper, found>>

(* Mutant: only the record the binary search ends on is looked at.         *)
OnEqualHashOnce ==
  index = lower /\ index <= Len(records) /\ records[index].hash = HashOf(context)

(* The scan is on a record with the wanted hash.                           *)
OnEqualHash == index <= Len(records) /\ records[index].hash = HashOf(context)

(* The scan passes a record of another context with the same hash.         *)
SkipCollision ==
  /\ stage = "collisions"
  /\ OnEqualHash
  /\ records[index].context # context
  /\ index' = index + 1
  /\ UNCHANGED <<records, context, stage, lower, upper, found>>

ReturnRecord ==
  /\ stage = "collisions"
  /\ OnEqualHash
  /\ records[index].context = context
  /\ stage' = "done"
  /\ found' = index
  /\ UNCHANGED <<records, context, lower, upper, index>>

ReturnNone ==
  /\ stage = "collisions"
  /\ ~ OnEqualHash
  /\ stage' = "done"
  /\ UNCHANGED <<records, context, lower, upper, index, found>>

(* The caller looks up another context in the same artifact.               *)
LookUp(c) ==
  /\ stage = "done"
  /\ context' = c
  /\ stage' = "search"
  /\ lower' = 1
  /\ upper' = Len(records) + 1
  /\ index' = 0
  /\ found' = 0
  /\ UNCHANGED records

FindStep ==
  \/ SearchRight \/ SearchLeft \/ SearchEnds
  \/ SkipCollision \/ ReturnRecord \/ ReturnNone

Next == FindStep \/ \E c \in Contexts : LookUp(c)

(* A lookup is one sequential call: once begun it runs to its return.      *)
Spec == Init /\ [][Next]_vars /\ WF_vars(FindStep)

-----------------------------------------------------------------------------
(* Both bounds and the scan index stay inside the section or one past it,  *)
(* so no record outside it is read.                                        *)
TypeOK ==
  /\ records \in RecordTables
  /\ context \in Contexts
  /\ stage \in {"search", "collisions", "done"}
  /\ lower \in 1 .. Len(records) + 1
  /\ upper \in 1 .. Len(records) + 1
  /\ index \in 0 .. Len(records) + 1
  /\ found \in 0 .. Len(records)

(* The lookup is exact and complete whatever collides: it returns the      *)
(* first record stored for the context, and returns none only when the     *)
(* section holds none.  The binary search must therefore stop at the FIRST *)
(* equal hash, not at any.                                                 *)
FoundIsFirstMatch == stage = "done" => found = FirstMatch(records, context)

(* Both loops end: the bounds meet and the scan leaves the equal hashes.   *)
LookupReturns == stage = "search" ~> stage = "done"
=============================================================================
