---------------------------- MODULE AddressBundle ---------------------------
(***************************************************************************)
(* Semantic paths and the address bundle that collects them (path.rs,      *)
(* address.rs).  A caller grows a path slot by slot, then offers it to the *)
(* bundle with a membership margin.  A path has no operation that shortens *)
(* it, so the slots beyond its length never tell two paths apart.          *)
(***************************************************************************)
EXTENDS Integers, SequencesExt

CONSTANTS
  MaxPaths,   (* MAX_PATHS, the capacity of the bundle                     *)
  MaxDepth,   (* MAX_DEPTH, the capacity of a path                         *)
  Slots,      (* the branch choices a caller may push                      *)
  Margins     (* the margins a caller may give a path                      *)

ASSUME MaxPathsAssumption == MaxPaths \in Nat
ASSUME MaxDepthAssumption == MaxDepth \in Nat
ASSUME SlotsAssumption == Slots \subseteq Nat
ASSUME MarginsAssumption == Margins \subseteq Nat

VARIABLES
  path,     (* the SemanticPath the caller is building                     *)
  bundle,   (* the initialized entries of the SemanticAddressBundle        *)
  outcome   (* what the last push or insert returned                       *)

vars == <<path, bundle, outcome>>

Path  == Seq(Slots)
Entry == [path : Path, margin : Margins]

(* The lexicographic loop of `precedes': the first slot that differs       *)
(* decides, and a path precedes its extensions.                            *)
PathBefore(left, right) ==
  \/ \E i \in 1 .. Len(left) :
       /\ i <= Len(right)
       /\ left[i] < right[i]
       /\ \A j \in 1 .. i - 1 : left[j] = right[j]
  \/ /\ Len(left) < Len(right)
     /\ \A j \in 1 .. Len(left) : left[j] = right[j]

(* Descending margin, then lexicographic slot order.                       *)
Precedes(left, right) ==
  \/ left.margin > right.margin
  \/ left.margin = right.margin /\ PathBefore(left.path, right.path)

Ranked == INSTANCE RankedInsert WITH Capacity <- MaxPaths, Before <- Precedes

(* Mutant: the path is compared at the stopping position only.             *)
MeetsSamePathAt(entries, entry) ==
  \E q \in 1 .. Len(entries) :
    q = Ranked!Position(entries, entry) /\ entries[q].path = entry.path

(* The search loop of insert compares paths before it compares ranks, so   *)
(* it meets the entry at its stopping position but none after it.          *)
MeetsSamePath(entries, entry) ==
  \E q \in 1 .. Len(entries) :
    q <= Ranked!Position(entries, entry) /\ entries[q].path = entry.path

-----------------------------------------------------------------------------
Init ==
  /\ path = << >>
  /\ bundle = << >>
  /\ outcome = "Ok"

(* The caller starts over with SemanticPath::new.                          *)
NewPath ==
  /\ path' = << >>
  /\ outcome' = "Ok"
  /\ UNCHANGED bundle

(* prefix(depth) borrows the path and refuses a depth it does not have.    *)
Prefix(depth) ==
  /\ outcome' = IF depth > Len(path) THEN "PrefixOutOfBounds" ELSE "Ok"
  /\ UNCHANGED <<path, bundle>>

Push(slot) ==
  /\ IF Len(path) = MaxDepth
     THEN path' = path /\ outcome' = "CapacityExceeded"
     ELSE path' = Append(path, slot) /\ outcome' = "Ok"
  /\ UNCHANGED bundle

(* SemanticAddressBundle::insert, with its three outcomes.                 *)
InsertDuplicate(entry) ==
  /\ MeetsSamePath(bundle, entry)
  /\ outcome' = "DuplicatePath"
  /\ UNCHANGED <<path, bundle>>

InsertFull(entry) ==
  /\ ~ MeetsSamePath(bundle, entry)
  /\ Len(bundle) = MaxPaths
  /\ outcome' = "CapacityExceeded"
  /\ UNCHANGED <<path, bundle>>

InsertNew(entry) ==
  /\ ~ MeetsSamePath(bundle, entry)
  /\ Len(bundle) # MaxPaths
  /\ bundle' = Ranked!InsertRanked(bundle, entry)
  /\ outcome' = "Ok"
  /\ UNCHANGED path

Insert(entry) == InsertDuplicate(entry) \/ InsertFull(entry) \/ InsertNew(entry)

Next ==
  \/ NewPath
  \/ \E depth \in 0 .. MaxDepth : Prefix(depth)
  \/ \E slot \in Slots : Push(slot)
  \/ \E margin \in Margins : Insert([path |-> path, margin |-> margin])

Spec == Init /\ [][Next]_vars

-----------------------------------------------------------------------------
(* The types of the bundle and the path, which never outgrows MaxDepth.    *)
TypeOK ==
  /\ path \in Path /\ Len(path) <= MaxDepth
  /\ bundle \in Seq(Entry)
  /\ outcome \in {"Ok", "PrefixOutOfBounds", "CapacityExceeded", "DuplicatePath"}

(* The bundle is canonical whatever the order of the insertions: within    *)
(* capacity, in descending margin and lexicographic order, and no entry    *)
(* stands twice, so equal contents are equal bundles.                      *)
Canonical ==
  /\ Len(bundle) <= MaxPaths
  /\ \A i, j \in 1 .. Len(bundle) : i < j => Precedes(bundle[i], bundle[j])

(* A path that is already present at the offered margin or a higher one is *)
(* always found by the search and refused: only a HIGHER new margin can    *)
(* slip past the duplicate test.                                           *)
WeakerDuplicateRefused ==
  [][ bundle' # bundle =>
        \A entry \in ToSet(bundle') \ ToSet(bundle) :
          \A held \in ToSet(bundle) :
            held.path = entry.path => held.margin < entry.margin ]_vars

(* address.rs, AddressInsertError::DuplicatePath: "The exact path is       *)
(* already present."  insert is documented to return it "for an exact      *)
(* duplicate", so no path would stand twice in a bundle.                   *)
PathsAreDistinct ==
  \A i, j \in 1 .. Len(bundle) : i # j => bundle[i].path # bundle[j].path
=============================================================================
