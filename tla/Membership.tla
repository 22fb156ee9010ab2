----------------------------- MODULE Membership -----------------------------
(***************************************************************************)
(* Semantic regions and the memberships a context code has in them         *)
(* (region.rs, cloud.rs).                                                  *)
(*                                                                         *)
(* A packed code of WORDS words is the set of its one-bits, so xor, and    *)
(* and popcount of the scalar kernel are symmetric difference,             *)
(* intersection and cardinality.                                           *)
(***************************************************************************)
EXTENDS Integers, FiniteSets, SequencesExt

CONSTANTS
  Bits,       (* the bit positions of a code: 64 * WORDS of them in the code *)
  MaxActive   (* MAX_ACTIVE, the capacity of the route cloud               *)

ASSUME BitsAssumption == IsFiniteSet(Bits)
ASSUME MaxActiveAssumption == MaxActive \in Nat

Code == SUBSET Bits

Region ==
  [region_id : Nat, path_id : Nat, depth : Nat, radius : Nat,
   prototype : Code, mask : Code]

RegionMembership ==
  [region_id : Nat, path_id : Nat, depth : Nat, margin : Nat, distance : Nat]

(* masked_hamming: the set bits of (code ^ prototype) & mask.  The kernel's*)
(* saturating sum over the words never saturates: it is at most 64 * WORDS.*)
MaskedHamming(code, region) ==
  Cardinality(((code \ region.prototype) \cup (region.prototype \ code))
                 \cap region.mask)

(* The inclusive boundary test of the routing loop.                        *)
Covers(region, code) == MaskedHamming(code, region) <= region.radius

(* The membership built for an accepted region; the subtraction saturates  *)
(* in the code and cannot go below zero for a region that covers the code. *)
MembershipOf(region, code) ==
  [region_id |-> region.region_id,
   path_id   |-> region.path_id,
   depth     |-> region.depth,
   margin    |-> region.radius - MaskedHamming(code, region),
   distance  |-> MaskedHamming(code, region)]

(* The memberships of `code' in the regions that cover it.                 *)
Accepted(regions, code) ==
  {MembershipOf(r, code) : r \in {s \in regions : Covers(s, code)}}

(* The canonical order: descending margin, descending depth, ascending     *)
(* region ID, then ascending path ID.                                      *)
Precedes(left, right) ==
  \/ left.margin > right.margin
  \/ /\ left.margin = right.margin
     /\ \/ left.depth > right.depth
        \/ /\ left.depth = right.depth
           /\ \/ left.region_id < right.region_id
              \/ /\ left.region_id = right.region_id
                 /\ left.path_id < right.path_id

RouteCloud == INSTANCE RankedInsert WITH Capacity <- MaxActive, Before <- Precedes

(* The resolution class of a route, from the number of accepted regions    *)
(* and the number the cloud retained.  BackedOff and Contradictory are     *)
(* declared in the code and produced by no router.                         *)
Resolution(matched, retained) ==
  CASE matched = 0                   -> "Novel"
    [] matched = 1 /\ retained = 1   -> "Supported"
    [] OTHER                         -> "Boundary"

RouteSummary ==
  [resolution : {"Novel", "Supported", "Boundary"},
   candidates_scanned : Nat, matched : Nat, retained : Nat, truncated : Nat]

(* Mutant: the subtraction of the truncation count the wrong way round.    *)
SummaryOfSwapped(scanned, matched, retained) ==
  [resolution         |-> Resolution(matched, retained),
   candidates_scanned |-> scanned,
   matched            |-> matched,
   retained           |-> retained,
   truncated          |-> IF matched > retained THEN retained - matched ELSE 0]

SummaryOf(scanned, matched, retained) ==
  [resolution         |-> Resolution(matched, retained),
   candidates_scanned |-> scanned,
   matched            |-> matched,
   retained           |-> retained,
   truncated          |-> IF matched > retained THEN matched - retained ELSE 0]
=============================================================================
