------------------------- MODULE AddressBundle_proofs -----------------------
(***************************************************************************)
(* Proofs about AddressBundle for every capacity, depth and set of slots   *)
(* and margins, from the lemmas about the shared insertion.                *)
(***************************************************************************)
EXTENDS AddressBundle, SequenceTheorems, TLAPS

(* The insertion; no lemma about loops is cited from here.                 *)
Insertion ==
  INSTANCE RankedInsert_proofs WITH Capacity <- MaxPaths, Before <- Precedes,
    Step <- LAMBDA a, b, value, entry : value

USE MaxPathsAssumption, MaxDepthAssumption, SlotsAssumption, MarginsAssumption

(* The operators of the two instances of the insertion are the same.       *)
LEMMA SameInsertion ==
  /\ \A list, item : /\ Insertion!Position(list, item) = Ranked!Position(list, item)
                     /\ Insertion!InsertRanked(list, item) = Ranked!InsertRanked(list, item)
  /\ \A list : Insertion!LengthAfter(list) = Ranked!LengthAfter(list)
<1>1. \A list, item : Insertion!Position(list, item) = Ranked!Position(list, item)
  BY DEF Insertion!Position, Ranked!Position
<1>2. \A list : Insertion!LengthAfter(list) = Ranked!LengthAfter(list)
  BY DEF Insertion!LengthAfter, Ranked!LengthAfter
<1>3. \A list, item : Insertion!InsertRanked(list, item) = Ranked!InsertRanked(list, item)
  BY <1>1, <1>2 DEF Insertion!InsertRanked, Ranked!InsertRanked,
     Insertion!Shifted, Ranked!Shifted
<1> QED BY <1>1, <1>2, <1>3

-----------------------------------------------------------------------------
(* A path is a sequence of numbers.                                        *)
LEMMA PathSlots ==
  ASSUME NEW a \in Path
  PROVE  Len(a) \in Nat /\ \A i \in 1 .. Len(a) : a[i] \in Nat
<1>1. Len(a) \in Nat /\ \A i \in 1 .. Len(a) : a[i] \in Slots
  BY DEF Path
<1> QED BY <1>1

(* The comparison loop of address.rs is a strict total order on paths: it  *)
(* never puts a path before itself, chains, and tells any two apart.       *)
LEMMA PathBeforeIrreflexive ==
  ASSUME NEW x \in Path
  PROVE  ~ PathBefore(x, x)
<1>1. Len(x) \in Nat /\ \A i \in 1 .. Len(x) : x[i] \in Nat
  BY PathSlots
<1> QED BY <1>1 DEF PathBefore

(* The slot that decides between the first and the last is the earlier of  *)
(* the two that decide, or the end of the shortest.                        *)
LEMMA PathBeforeTransitive ==
  ASSUME NEW x \in Path, NEW y \in Path, NEW z \in Path,
         PathBefore(x, y), PathBefore(y, z)
  PROVE  PathBefore(x, z)
<1> DEFINE Splits(a, b, i) == /\ i \in 1 .. Len(a) /\ i <= Len(b) /\ a[i] < b[i]
                              /\ \A j \in 1 .. i - 1 : a[j] = b[j]
           Extends(a, b) == Len(a) < Len(b) /\ \A j \in 1 .. Len(a) : a[j] = b[j]
<1>1. \A a, b \in Path : PathBefore(a, b) <=> Extends(a, b) \/ \E i \in Nat : Splits(a, b, i)
  BY DEF PathBefore, Path
<1>2. \A a \in Path : Len(a) \in Nat /\ \A i \in 1 .. Len(a) : a[i] \in Nat
  BY PathSlots
<1>3. ASSUME NEW i \in Nat, NEW k \in Nat, Splits(x, y, i), Splits(y, z, k)
      PROVE  \E n \in Nat : Splits(x, z, n)
  <2>1. CASE i <= k
    <3>1. Splits(x, z, i)
      BY <1>2, <1>3, <2>1
    <3> QED BY <3>1
  <2>2. CASE k < i
    <3>1. Splits(x, z, k)
      BY <1>2, <1>3, <2>2
    <3> QED BY <3>1
  <2> QED BY <2>1, <2>2
<1>4. ASSUME NEW i \in Nat, Splits(x, y, i), Extends(y, z)
      PROVE  Splits(x, z, i)
  BY <1>2, <1>4
<1>5. ASSUME NEW k \in Nat, Extends(x, y), Splits(y, z, k)
      PROVE  Splits(x, z, k) \/ Extends(x, z)
  BY <1>2, <1>5
<1>6. ASSUME Extends(x, y), Extends(y, z)
      PROVE  Extends(x, z)
  BY <1>2, <1>6
<1> HIDE DEF Splits, Extends
<1> QED BY <1>1, <1>3, <1>4, <1>5, <1>6

(* Two paths part at the first slot that differs, or one extends the other.*)
LEMMA PathBeforeTotal ==
  ASSUME NEW x \in Path, NEW y \in Path, x # y
  PROVE  PathBefore(x, y) \/ PathBefore(y, x)
<1> DEFINE Differ == {i \in Nat : i \in 1 .. Len(x) /\ i <= Len(y) /\ x[i] # y[i]}
<1>1. /\ Len(x) \in Nat /\ Len(y) \in Nat
      /\ \A i \in 1 .. Len(x) : x[i] \in Nat
      /\ \A i \in 1 .. Len(y) : y[i] \in Nat
  BY PathSlots
<1>2. CASE Differ # {}
  <2>1. PICK i \in Differ : \A k \in Differ : i <= k
    BY <1>2, Insertion!NatHasMin
  <2>2. \A j \in 1 .. i - 1 : x[j] = y[j]
    BY <1>1, <2>1
  <2>3. x[i] < y[i] \/ y[i] < x[i]
    BY <1>1, <2>1
  <2> QED BY <1>1, <2>1, <2>2, <2>3 DEF PathBefore
<1>3. CASE Differ = {}
  <2>1. \A j \in Nat : j \in 1 .. Len(x) /\ j <= Len(y) => x[j] = y[j]
    BY <1>3
  <2>2. Len(x) # Len(y)
    <3> SUFFICES ASSUME Len(x) = Len(y) PROVE FALSE
      OBVIOUS
    <3> QED BY <1>1, <2>1, SeqEqual DEF Path
  <2> QED BY <1>1, <2>1, <2>2 DEF PathBefore
<1> QED BY <1>2, <1>3

(* With the margins in front the order still chains.                       *)
LEMMA PrecedesTransitive ==
  ASSUME NEW x \in Entry, NEW y \in Entry, NEW z \in Entry,
         Precedes(x, y), Precedes(y, z)
  PROVE  Precedes(x, z)
<1>1. /\ x.margin \in Nat /\ y.margin \in Nat /\ z.margin \in Nat
      /\ x.path \in Path /\ y.path \in Path /\ z.path \in Path
  BY DEF Entry
<1> QED BY <1>1, PathBeforeTransitive DEF Precedes

(* Entries of different paths are ranked, whatever their margins.          *)
LEMMA PrecedesTotal ==
  ASSUME NEW x \in Entry, NEW y \in Entry, x.path # y.path
  PROVE  Precedes(x, y) \/ Precedes(y, x)
<1>1. /\ x.margin \in Nat /\ y.margin \in Nat /\ x.path \in Path /\ y.path \in Path
  BY DEF Entry
<1> QED BY <1>1, PathBeforeTotal DEF Precedes

-----------------------------------------------------------------------------
(* The types and the order are inductive together: the search needs the    *)
(* entries after its position to be ranked behind it.                      *)
IInv == TypeOK /\ Canonical

(* What insert does to a canonical bundle with room, entry by entry.       *)
LEMMA InsertNewEntries ==
  ASSUME IInv, NEW entry \in Entry, InsertNew(entry)
  PROVE  LET p == Ranked!Position(bundle, entry)
         IN  /\ p \in 1 .. Len(bundle) + 1
             /\ \A q \in 1 .. p - 1 : Precedes(bundle[q], entry)
             /\ \A q \in p .. Len(bundle) : Precedes(entry, bundle[q])
             /\ bundle' \in Seq(Entry)
             /\ Len(bundle') = Len(bundle) + 1 /\ Len(bundle') <= MaxPaths
             /\ \A i \in 1 .. Len(bundle') :
                  bundle'[i] = IF i < p THEN bundle[i]
                               ELSE IF i = p THEN entry ELSE bundle[i - 1]
<1> DEFINE p == Ranked!Position(bundle, entry)
<1>1. /\ bundle \in Seq(Entry) /\ Len(bundle) \in Nat /\ Len(bundle) < MaxPaths
      /\ \A i \in 1 .. Len(bundle) : bundle[i] \in Entry
  BY DEF IInv, TypeOK, Canonical, InsertNew
<1>2. /\ p \in 1 .. Len(bundle) + 1
      /\ \A q \in 1 .. p - 1 : ~ Precedes(entry, bundle[q])
      /\ p = Len(bundle) + 1 \/ Precedes(entry, bundle[p])
  BY <1>1, Insertion!PositionProperties, SameInsertion
<1>3. /\ bundle' \in Seq(Entry)
      /\ Len(bundle') = Len(bundle) + 1
      /\ \A i \in 1 .. Len(bundle') :
           bundle'[i] = IF i < p THEN bundle[i]
                        ELSE IF i = p THEN entry ELSE bundle[i - 1]
  <2>1. bundle' = Insertion!InsertRanked(bundle, entry)
    BY SameInsertion DEF InsertNew
  <2>2. Ranked!LengthAfter(bundle) = Len(bundle) + 1
    BY <1>1 DEF Ranked!LengthAfter
  <2>3. /\ Insertion!Position(bundle, entry) = p
        /\ Insertion!LengthAfter(bundle) = Len(bundle) + 1
    BY <2>2, SameInsertion
  <2>4. /\ Insertion!InsertRanked(bundle, entry) \in Seq(Entry)
        /\ Len(Insertion!InsertRanked(bundle, entry)) = Insertion!LengthAfter(bundle)
        /\ \A i \in 1 .. Len(Insertion!InsertRanked(bundle, entry)) :
             Insertion!InsertRanked(bundle, entry)[i]
               = IF i < Insertion!Position(bundle, entry) THEN bundle[i]
                 ELSE IF i = Insertion!Position(bundle, entry) THEN entry
                 ELSE bundle[i - 1]
    <3>1. Len(bundle) <= MaxPaths
      BY <1>1
    <3> QED BY <1>1, <3>1, Insertion!InsertRankedEntries
  <2> QED BY <2>1, <2>3, <2>4
<1> HIDE DEF p
<1>4. \A q \in 1 .. Len(bundle) : q <= p => bundle[q].path # entry.path
  BY DEF InsertNew, MeetsSamePath, p
<1>5. \A q \in 1 .. p - 1 : Precedes(bundle[q], entry)
  <2> SUFFICES ASSUME NEW q \in 1 .. p - 1
               PROVE  Precedes(bundle[q], entry)
    OBVIOUS
  <2>1. q \in 1 .. Len(bundle) /\ q <= p
    BY <1>1, <1>2
  <2> QED BY <1>1, <1>2, <1>4, <2>1, PrecedesTotal
<1>6. \A q \in p .. Len(bundle) : Precedes(entry, bundle[q])
  <2> SUFFICES ASSUME NEW q \in p .. Len(bundle)
               PROVE  Precedes(entry, bundle[q])
    OBVIOUS
  <2>1. p \in 1 .. Len(bundle) /\ q \in 1 .. Len(bundle) /\ Precedes(entry, bundle[p])
    BY <1>1, <1>2
  <2>2. CASE q = p
    BY <2>1, <2>2
  <2>3. CASE q # p
    <3>1. Precedes(bundle[p], bundle[q])
      BY <1>1, <2>1, <2>3 DEF IInv, Canonical
    <3> QED BY <1>1, <2>1, <3>1, PrecedesTransitive
  <2> QED BY <2>2, <2>3
<1> QED BY <1>1, <1>2, <1>3, <1>5, <1>6 DEF p

(* The new entry stands between those before and those behind it.          *)
LEMMA InsertedIsCanonical ==
  ASSUME IInv, NEW entry \in Entry, InsertNew(entry)
  PROVE  Canonical'
<1> DEFINE p == Ranked!Position(bundle, entry)
<1>1. /\ bundle \in Seq(Entry) /\ Len(bundle) \in Nat
      /\ \A i, j \in 1 .. Len(bundle) : i < j => Precedes(bundle[i], bundle[j])
  BY DEF IInv, TypeOK, Canonical
<1>2. /\ p \in 1 .. Len(bundle) + 1
      /\ \A q \in 1 .. p - 1 : Precedes(bundle[q], entry)
      /\ \A q \in p .. Len(bundle) : Precedes(entry, bundle[q])
      /\ Len(bundle') = Len(bundle) + 1 /\ Len(bundle') <= MaxPaths
      /\ \A i \in 1 .. Len(bundle') :
           bundle'[i] = IF i < p THEN bundle[i]
                        ELSE IF i = p THEN entry ELSE bundle[i - 1]
  BY InsertNewEntries
<1> HIDE DEF p
<1>3. ASSUME NEW i \in 1 .. Len(bundle'), NEW j \in 1 .. Len(bundle'), i < j
      PROVE  Precedes(bundle'[i], bundle'[j])
  <2>1. CASE j < p
    BY <1>1, <1>2, <1>3, <2>1
  <2>2. CASE j = p
    BY <1>1, <1>2, <1>3, <2>2
  <2>3. CASE p < j /\ i < p
    <3>1. i \in 1 .. Len(bundle) /\ j - 1 \in 1 .. Len(bundle)
      BY <1>1, <1>2, <1>3, <2>3
    <3>2. bundle'[i] = bundle[i] /\ bundle'[j] = bundle[j - 1] /\ i \in 1 .. p - 1
      BY <1>1, <1>2, <1>3, <2>3
    <3>3. i < j - 1
      BY <1>1, <1>2, <1>3, <2>3
    <3> QED BY <1>1, <3>1, <3>2, <3>3
  <2>4. CASE i = p
    <3>1. j - 1 \in p .. Len(bundle) /\ bundle'[i] = entry /\ bundle'[j] = bundle[j - 1]
      BY <1>1, <1>2, <1>3, <2>4
    <3> QED BY <1>2, <3>1
  <2>5. CASE p < i
    <3>1. /\ i - 1 \in 1 .. Len(bundle) /\ j - 1 \in 1 .. Len(bundle) /\ i - 1 < j - 1
          /\ bundle'[i] = bundle[i - 1] /\ bundle'[j] = bundle[j - 1]
      BY <1>1, <1>2, <1>3, <2>5
    <3> QED BY <1>1, <3>1
  <2> QED BY <1>1, <1>2, <1>3, <2>1, <2>2, <2>3, <2>4, <2>5
<1> QED BY <1>2, <1>3 DEF Canonical

(* What a caller offers is an entry.                                       *)
LEMMA OfferedEntry ==
  ASSUME TypeOK, NEW margin \in Margins
  PROVE  [path |-> path, margin |-> margin] \in Entry
BY DEF TypeOK, Entry

LEMMA InitIInv == Init => IInv
<1> SUFFICES ASSUME Init PROVE IInv
  OBVIOUS
<1>1. << >> \in Path /\ Len(<< >>) = 0 /\ << >> \in Seq(Entry)
  BY DEF Path
<1> QED BY <1>1 DEF Init, IInv, TypeOK, Canonical

LEMMA NextIInv == IInv /\ [Next]_vars => IInv'
<1> SUFFICES ASSUME IInv, [Next]_vars PROVE IInv'
  OBVIOUS
<1> USE DEF IInv
<1>1. CASE NewPath
  BY <1>1 DEF NewPath, TypeOK, Canonical, Path
<1>2. ASSUME NEW depth \in 0 .. MaxDepth, Prefix(depth) PROVE IInv'
  BY <1>2 DEF Prefix, TypeOK, Canonical
<1>3. ASSUME NEW slot \in Slots, Push(slot) PROVE IInv'
  <2>1. Append(path, slot) \in Path /\ Len(Append(path, slot)) = Len(path) + 1
    BY DEF TypeOK, Path
  <2>2. Len(path) \in Nat
    BY DEF TypeOK, Path
  <2>3. /\ path' \in Path /\ Len(path') <= MaxDepth
        /\ bundle' = bundle
        /\ outcome' \in {"Ok", "CapacityExceeded"}
    <3>1. CASE Len(path) = MaxDepth
      BY <1>3, <3>1 DEF Push, TypeOK
    <3>2. CASE Len(path) # MaxDepth
      <4>1. path' = Append(path, slot) /\ bundle' = bundle /\ outcome' = "Ok"
        BY <1>3, <3>2 DEF Push
      <4>2. Len(path) + 1 <= MaxDepth
        BY <2>2, <3>2 DEF TypeOK
      <4> QED BY <2>1, <4>1, <4>2
    <3> QED BY <3>1, <3>2
  <2> QED BY <2>3 DEF TypeOK, Canonical
<1>4. ASSUME NEW margin \in Margins, Insert([path |-> path, margin |-> margin])
      PROVE  IInv'
  <2> DEFINE entry == [path |-> path, margin |-> margin]
  <2>1. entry \in Entry
    BY OfferedEntry
  <2> HIDE DEF entry
  <2>2. CASE InsertDuplicate(entry)
    BY <2>2 DEF InsertDuplicate, TypeOK, Canonical
  <2>3. CASE InsertFull(entry)
    BY <2>3 DEF InsertFull, TypeOK, Canonical
  <2>4. CASE InsertNew(entry)
    <3>1. bundle' \in Seq(Entry)
      BY <2>1, <2>4, InsertNewEntries
    <3>2. Canonical'
      BY <2>1, <2>4, InsertedIsCanonical
    <3>3. TypeOK'
      BY <2>4, <3>1 DEF InsertNew, TypeOK
    <3> QED BY <3>2, <3>3
  <2> QED BY <1>4, <2>2, <2>3, <2>4 DEF Insert, entry
<1>5. CASE UNCHANGED vars
  BY <1>5 DEF vars, TypeOK, Canonical
<1> QED BY <1>1, <1>2, <1>3, <1>4, <1>5 DEF Next

LEMMA IInvHolds == Spec => []IInv
BY InitIInv, NextIInv, PTL DEF Spec

(* The bundle holds entries, the path stays within its depth, and the      *)
(* outcomes are those of address.rs and path.rs.                           *)
THEOREM BundleTypes == Spec => []TypeOK
<1>1. IInv => TypeOK
  BY DEF IInv
<1> QED BY <1>1, IInvHolds, PTL

(* Whatever is inserted in whatever order, the bundle is in its canonical  *)
(* order and no entry stands twice (SemanticAddressBundle::insert).        *)
THEOREM BundleIsCanonical == Spec => []Canonical
<1>1. IInv => Canonical
  BY DEF IInv
<1> QED BY <1>1, IInvHolds, PTL

(* An insertion adds the offered entry alone, and an entry that holds its  *)
(* path stands behind it, with a lower margin.                             *)
LEMMA InsertedIsStronger ==
  ASSUME IInv, NEW entry \in Entry, InsertNew(entry)
  PROVE  \A new \in ToSet(bundle') \ ToSet(bundle) :
           \A held \in ToSet(bundle) : held.path = new.path => held.margin < new.margin
<1> DEFINE p == Ranked!Position(bundle, entry)
<1>1. /\ bundle \in Seq(Entry) /\ Len(bundle) \in Nat
      /\ \A i \in 1 .. Len(bundle) : bundle[i] \in Entry
  BY DEF IInv, TypeOK
<1>2. /\ p \in 1 .. Len(bundle) + 1
      /\ \A q \in p .. Len(bundle) : Precedes(entry, bundle[q])
      /\ bundle' \in Seq(Entry) /\ Len(bundle') = Len(bundle) + 1
      /\ \A i \in 1 .. Len(bundle') :
           bundle'[i] = IF i < p THEN bundle[i]
                        ELSE IF i = p THEN entry ELSE bundle[i - 1]
  BY InsertNewEntries
<1>3. \A q \in 1 .. Len(bundle) : q <= p => bundle[q].path # entry.path
  BY DEF InsertNew, MeetsSamePath, p
<1> HIDE DEF p
<1> SUFFICES ASSUME NEW new \in ToSet(bundle'), new \notin ToSet(bundle),
                    NEW held \in ToSet(bundle), held.path = new.path
             PROVE  held.margin < new.margin
  OBVIOUS
<1>4. PICK i \in 1 .. Len(bundle') : new = bundle'[i]
  BY <1>2 DEF ToSet
<1>5. PICK q \in 1 .. Len(bundle) : held = bundle[q]
  BY <1>1 DEF ToSet
<1>6. \A k \in 1 .. Len(bundle) : bundle[k] \in ToSet(bundle)
  BY <1>1 DEF ToSet
<1>7. new = entry
  <2>1. CASE i < p
    <3>1. i \in 1 .. Len(bundle) /\ new = bundle[i]
      BY <1>1, <1>2, <1>4, <2>1
    <3> QED BY <1>6, <3>1
  <2>2. CASE i = p
    BY <1>2, <1>4, <2>2
  <2>3. CASE p < i
    <3>1. i - 1 \in 1 .. Len(bundle) /\ new = bundle[i - 1]
      BY <1>1, <1>2, <1>4, <2>3
    <3> QED BY <1>6, <3>1
  <2> QED BY <1>1, <1>2, <2>1, <2>2, <2>3
<1>8. Precedes(entry, held)
  <2>1. q \in p .. Len(bundle)
    BY <1>1, <1>2, <1>3, <1>5, <1>7
  <2> QED BY <1>2, <1>5, <2>1
<1>9. ~ PathBefore(entry.path, held.path)
  BY <1>7, PathBeforeIrreflexive DEF Entry
<1>10. held.margin \in Nat /\ entry.margin \in Nat
  BY <1>1, <1>5 DEF Entry
<1> QED BY <1>7, <1>8, <1>9, <1>10 DEF Precedes

(* A path that is held at the offered margin or a higher one is always     *)
(* refused: insert adds an entry only if every entry that holds its path   *)
(* has a lower margin.                                                     *)
THEOREM WeakerIsRefused == Spec => WeakerDuplicateRefused
<1> DEFINE Stronger ==
      bundle' # bundle =>
        \A entry \in ToSet(bundle') \ ToSet(bundle) :
          \A held \in ToSet(bundle) :
            held.path = entry.path => held.margin < entry.margin
<1>1. IInv /\ [Next]_vars => [Stronger]_vars
  <2> SUFFICES ASSUME IInv, Next, bundle' # bundle PROVE Stronger
    BY DEF vars
  <2>1. PICK margin \in Margins : InsertNew([path |-> path, margin |-> margin])
    BY DEF Next, NewPath, Prefix, Push, Insert, InsertDuplicate, InsertFull
  <2> QED BY <2>1, OfferedEntry, InsertedIsStronger DEF IInv
<1> QED BY <1>1, IInvHolds, PTL DEF Spec, WeakerDuplicateRefused
=============================================================================
