---------------------------- MODULE RankedInsert ----------------------------
(***************************************************************************)
(* The insertion loop three fixed-capacity containers of the runtime share *)
(* line for line: RouteCloud::insert_ranked (cloud.rs),                    *)
(* ArtifactPredictScratch::insert (artifact.rs) and the placement part of  *)
(* SemanticAddressBundle::insert (address.rs).  Each walks the initialized *)
(* entries up to the first one the new item precedes, then shifts the rest *)
(* by one and, when the array is full, lets the last entry fall off.       *)
(*                                                                         *)
(* A container is the sequence of its initialized entries.  Position p is  *)
(* the code's zero-based position plus one.                                *)
(***************************************************************************)
EXTENDS Integers, Sequences

CONSTANTS
  Capacity,     (* the const generic: CAPACITY, MAX_ACTIVE or MAX_PATHS    *)
  Before(_, _)  (* the container's `precedes' function                     *)

(* Where the search loop stops: the first entry `item' precedes, or the    *)
(* slot after the last entry when it precedes none.                        *)
Position(list, item) ==
  CHOOSE p \in 1 .. Len(list) + 1 :
    /\ \A q \in 1 .. p - 1 : ~ Before(item, list[q])
    /\ p = Len(list) + 1 \/ Before(item, list[p])

(* The length after the insertion: one more, up to the capacity.           *)
LengthAfter(list) == IF Len(list) < Capacity THEN Len(list) + 1 ELSE Capacity

(* The list with `item' at position p and the later entries one further.   *)
Shifted(list, p, item) ==
  SubSeq(list, 1, p - 1) \o <<item>> \o SubSeq(list, p, Len(list))

(* The entries after the insertion: `item' goes in at its position and     *)
(* what no longer fits is lost.  A full list whose entries `item' does not *)
(* precede is unchanged, and so is the empty list of capacity zero.        *)
InsertRanked(list, item) ==
  SubSeq(Shifted(list, Position(list, item), item), 1, LengthAfter(list))

Elements(list) == {list[i] : i \in DOMAIN list}

Ascending(list) ==
  \A i, j \in 1 .. Len(list) : i < j => Before(list[i], list[j])

(***************************************************************************)
(* What a ranked container promises: it holds the first Capacity elements, *)
(* in order, of the set S of everything offered to it.                     *)
(***************************************************************************)
IsTopK(list, S) ==
  /\ Len(list) <= Capacity
  /\ Ascending(list)
  /\ Elements(list) \subseteq S
  /\ \A x \in S \ Elements(list) :
        /\ Len(list) = Capacity
        /\ \A i \in 1 .. Len(list) : Before(list[i], x)

(* Before is a strict total order on S.                                    *)
StrictTotalOrder(S) ==
  /\ \A x \in S : ~ Before(x, x)
  /\ \A x, y, z \in S : Before(x, y) /\ Before(y, z) => Before(x, z)
  /\ \A x, y \in S : x = y \/ Before(x, y) \/ Before(y, x)
=============================================================================
