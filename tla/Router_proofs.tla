---------------------------- MODULE Router_proofs ---------------------------
(***************************************************************************)
(* Proofs about Router for every set of bits, capacity, candidate bound,   *)
(* word count and every set of slices and codes a caller may use.          *)
(***************************************************************************)
EXTENDS Router, FiniteSetTheorems, SequenceTheorems, TLAPS

(* The insertion; no lemma about loops is cited from here.                 *)
Insertion ==
  INSTANCE RankedInsert_proofs WITH Capacity <- MaxActive, Before <- Precedes,
    Step <- LAMBDA a, b, value, entry : value

USE BitsAssumption, MaxActiveAssumption, MaxCandidatesAssumption,
    WordsAssumption, SlicesAssumption, CodesAssumption

(* The operators of the two instances of the insertion are the same.       *)
LEMMA SameInsertion ==
  /\ \A list, item : /\ Insertion!Position(list, item) = RouteCloud!Position(list, item)
                     /\ Insertion!InsertRanked(list, item) = RouteCloud!InsertRanked(list, item)
  /\ \A list : Insertion!LengthAfter(list) = RouteCloud!LengthAfter(list)
  /\ \A list, S : Insertion!IsTopK(list, S) = RouteCloud!IsTopK(list, S)
  /\ \A S : Insertion!StrictTotalOrder(S) = RouteCloud!StrictTotalOrder(S)
<1>1. \A list, item : Insertion!Position(list, item) = RouteCloud!Position(list, item)
  BY DEF Insertion!Position, RouteCloud!Position
<1>2. \A list : Insertion!LengthAfter(list) = RouteCloud!LengthAfter(list)
  BY DEF Insertion!LengthAfter, RouteCloud!LengthAfter
<1>3. \A list, item : Insertion!InsertRanked(list, item) = RouteCloud!InsertRanked(list, item)
  BY <1>1, <1>2 DEF Insertion!InsertRanked, RouteCloud!InsertRanked,
     Insertion!Shifted, RouteCloud!Shifted
<1>4. \A list, S : Insertion!IsTopK(list, S) = RouteCloud!IsTopK(list, S)
  BY Zenon DEF Insertion!IsTopK, RouteCloud!IsTopK, Insertion!Ascending,
     RouteCloud!Ascending, Insertion!Elements, RouteCloud!Elements
<1>5. \A S : Insertion!StrictTotalOrder(S) = RouteCloud!StrictTotalOrder(S)
  BY Zenon DEF Insertion!StrictTotalOrder, RouteCloud!StrictTotalOrder
<1> QED BY <1>1, <1>2, <1>3, <1>4, <1>5

(* The masked distance is a natural number.                                *)
LEMMA MaskedHammingType ==
  ASSUME NEW r \in Region, NEW c \in Code
  PROVE  MaskedHamming(c, r) \in Nat
<1> DEFINE D == ((c \ r.prototype) \cup (r.prototype \ c)) \cap r.mask
<1>1. D \in SUBSET Bits
  BY DEF Region, Code
<1>2. IsFiniteSet(D) /\ Cardinality(D) \in Nat
  <2> HIDE DEF D
  <2> QED BY <1>1, FS_Subset, FS_CardinalityType
<1> QED BY <1>2 DEF MaskedHamming

LEMMA MembershipType ==
  ASSUME NEW r \in Region, NEW c \in Code, Covers(r, c)
  PROVE  /\ MembershipOf(r, c) \in RegionMembership
         /\ MembershipOf(r, c).region_id = r.region_id
BY MaskedHammingType DEF MembershipOf, Covers, RegionMembership, Region

(* The regions of a validated candidate set have distinct IDs.             *)
DistinctIds(regions) ==
  \A r, s \in regions : r.region_id = s.region_id => r = s

(* The canonical order of cloud.rs is a strict total order on the          *)
(* memberships of regions with distinct IDs.                               *)
LEMMA PrecedesIsTotal ==
  ASSUME NEW regions \in SUBSET Region, NEW c \in Code, DistinctIds(regions)
  PROVE  /\ RouteCloud!StrictTotalOrder(Accepted(regions, c))
         /\ Accepted(regions, c) \subseteq RegionMembership
<1>1. Accepted(regions, c) \subseteq RegionMembership
  BY MembershipType DEF Accepted
<1>2. ASSUME NEW x \in Accepted(regions, c), NEW y \in Accepted(regions, c),
             x.region_id = y.region_id
      PROVE  x = y
  <2>1. PICK r \in regions : x = MembershipOf(r, c) /\ Covers(r, c)
    BY DEF Accepted
  <2>2. PICK s \in regions : y = MembershipOf(s, c) /\ Covers(s, c)
    BY DEF Accepted
  <2>3. r = s
    BY <1>2, <2>1, <2>2, MembershipType DEF DistinctIds
  <2> QED BY <2>1, <2>2, <2>3
<1>3. \A x \in RegionMembership : ~ Precedes(x, x)
  BY DEF Precedes, RegionMembership
<1>4. \A x, y, z \in RegionMembership :
        Precedes(x, y) /\ Precedes(y, z) => Precedes(x, z)
  BY DEF Precedes, RegionMembership
<1>5. \A x, y \in RegionMembership :
        x.region_id # y.region_id => Precedes(x, y) \/ Precedes(y, x)
  BY DEF Precedes, RegionMembership
<1> QED BY <1>1, <1>2, <1>3, <1>4, <1>5 DEF RouteCloud!StrictTotalOrder

-----------------------------------------------------------------------------
(* The inductive invariant: what validation established of the slice, and  *)
(* the cloud, the counts and the census as functions of the regions        *)
(* inspected so far.                                                       *)
ValidatedSlice ==
  /\ Valid(candidates)
  /\ phase = "scanning" => cursor <= Len(candidates)

CensusOfCursor ==
  phase = "scanning" =>
    /\ census.candidate_scans = cursor
    /\ census.word_steps = cursor * Words
    /\ census.table_reads = 3 * (cursor * Words)
    /\ census.comparisons <= cursor * (1 + MaxActive)
    /\ census.table_writes <= cursor * MaxActive

IInv ==
  /\ TypeOK
  /\ ValidatedSlice
  /\ CloudIsTopK
  /\ MatchedCountsAccepted
  /\ CensusOfCursor
  /\ CensusBounded

(* Between the inspected prefix and its successor is one region, whose ID  *)
(* no inspected region has.                                                *)
LEMMA NextRegion ==
  ASSUME TypeOK, ValidatedSlice, phase = "scanning", cursor < Len(candidates)
  PROVE  LET r == candidates[cursor + 1]
             longer == {candidates[i] : i \in 1 .. cursor + 1}
         IN  /\ r \in Region
             /\ Inspected \subseteq Region
             /\ longer = Inspected \cup {r}
             /\ DistinctIds(longer)
             /\ r \notin Inspected
             /\ \A s \in Inspected : s.region_id # r.region_id
<1>1. cursor \in Nat /\ Len(candidates) \in Nat /\ cursor + 1 \in 1 .. Len(candidates)
  BY DEF TypeOK
<1>2. \A i \in 1 .. Len(candidates) : candidates[i] \in Region
  BY DEF TypeOK
<1>3. \A i \in 1 .. cursor : i \in 1 .. Len(candidates) /\ i < cursor + 1
  BY <1>1
<1>4. \A i, j \in 1 .. Len(candidates) :
        i # j => candidates[i].region_id # candidates[j].region_id
  BY <1>1 DEF ValidatedSlice, Valid
<1>5. \A i \in 1 .. cursor + 1 : i \in 1 .. Len(candidates)
  BY <1>1
<1>6. {candidates[i] : i \in 1 .. cursor + 1} = Inspected \cup {candidates[cursor + 1]}
  BY <1>1 DEF Inspected
<1>7. DistinctIds({candidates[i] : i \in 1 .. cursor + 1})
  BY <1>4, <1>5 DEF DistinctIds
<1>8. \A s \in Inspected : s.region_id # candidates[cursor + 1].region_id
  BY <1>1, <1>3, <1>4 DEF Inspected
<1> QED BY <1>1, <1>2, <1>3, <1>6, <1>7, <1>8 DEF Inspected

LEMMA InitIInv == Init => IInv
<1> SUFFICES ASSUME Init PROVE IInv
  OBVIOUS
<1>1. TypeOK
  BY DEF Init, TypeOK, Code, EmptyCensus, OperationCensus, RouteSummary,
         SummaryOf, Resolution
<1>2. ValidatedSlice /\ CloudIsTopK /\ MatchedCountsAccepted /\ CensusOfCursor
  BY DEF Init, ValidatedSlice, Valid, CloudIsTopK, MatchedCountsAccepted,
         CensusOfCursor
<1>3. /\ 0 <= MaxCandidates /\ 0 <= MaxCandidates * Words
      /\ 0 <= 3 * MaxCandidates * Words
      /\ 0 <= MaxCandidates * (1 + MaxActive) /\ 0 <= MaxCandidates * MaxActive
  OBVIOUS
<1>4. CensusBounded
  BY <1>3 DEF Init, CensusBounded, WithinBudget, EmptyCensus
<1> QED BY <1>1, <1>2, <1>4 DEF IInv

(* Multiplication by a natural number is monotonic.                        *)
LEMMA TimesMonotonic ==
  ASSUME NEW m \in Nat, NEW n \in Nat, NEW k \in Nat, m <= n
  PROVE  m * k <= n * k
<1>1. PICK d \in Nat : n = m + d
  <2>1. n - m \in Nat /\ n = m + (n - m)
    OBVIOUS
  <2> QED BY <2>1
<1>2. n * k = m * k + d * k /\ d * k \in Nat /\ m * k \in Nat
  BY <1>1
<1> QED BY <1>2

(* If m is within n parts of size k and grows by at most k, it is within   *)
(* n + 1 parts.                                                            *)
LEMMA OneMorePart ==
  ASSUME NEW n \in Nat, NEW k \in Nat, NEW m \in Int, NEW grown \in Int,
         m <= n * k, grown <= m + k
  PROVE  grown <= (n + 1) * k
<1>1. (n + 1) * k = n * k + k /\ n * k \in Nat
  OBVIOUS
<1> QED BY <1>1

(* A census proportional to the regions inspected is within the budget.    *)
LEMMA BudgetOfCursor ==
  ASSUME NEW c \in OperationCensus, NEW n \in Nat, n <= MaxCandidates,
         c.candidate_scans = n, c.word_steps = n * Words,
         c.table_reads = 3 * (n * Words),
         c.comparisons <= n * (1 + MaxActive), c.table_writes <= n * MaxActive
  PROVE  WithinBudget(c)
<1>1. /\ n * Words <= MaxCandidates * Words
      /\ n * (1 + MaxActive) <= MaxCandidates * (1 + MaxActive)
      /\ n * MaxActive <= MaxCandidates * MaxActive
  BY TimesMonotonic
<1>2. /\ n * Words \in Nat /\ MaxCandidates * Words \in Nat
      /\ 3 * MaxCandidates * Words = 3 * (MaxCandidates * Words)
      /\ n * (1 + MaxActive) \in Nat /\ MaxCandidates * (1 + MaxActive) \in Nat
      /\ n * MaxActive \in Nat /\ MaxCandidates * MaxActive \in Nat
  OBVIOUS
<1>3. 3 * (n * Words) <= 3 * MaxCandidates * Words
  BY <1>1, <1>2
<1> QED BY <1>1, <1>2, <1>3 DEF WithinBudget, OperationCensus

(* Inspecting one more region adds one scan, Words word steps and the      *)
(* boundary comparison.                                                    *)
LEMMA AfterScanCounts ==
  ASSUME TypeOK, CensusOfCursor, phase = "scanning"
  PROVE  /\ AfterScan(census) \in OperationCensus
         /\ AfterScan(census).candidate_scans = cursor + 1
         /\ AfterScan(census).word_steps = (cursor + 1) * Words
         /\ AfterScan(census).table_reads = 3 * ((cursor + 1) * Words)
         /\ AfterScan(census).comparisons <= cursor * (1 + MaxActive) + 1
         /\ AfterScan(census).table_writes = census.table_writes
<1>1. /\ census \in OperationCensus /\ cursor \in Nat
      /\ census.candidate_scans = cursor /\ census.word_steps = cursor * Words
      /\ census.table_reads = 3 * (cursor * Words)
      /\ census.comparisons <= cursor * (1 + MaxActive)
  BY DEF TypeOK, CensusOfCursor
<1>2. /\ AfterScan(census) \in OperationCensus
      /\ AfterScan(census).candidate_scans = census.candidate_scans + 1
      /\ AfterScan(census).word_steps = census.word_steps + Words
      /\ AfterScan(census).table_reads = census.table_reads + 3 * Words
      /\ AfterScan(census).comparisons = census.comparisons + 1
      /\ AfterScan(census).table_writes = census.table_writes
  BY <1>1 DEF AfterScan, OperationCensus
<1>3. (cursor + 1) * Words = cursor * Words + Words /\ cursor * Words \in Nat
      /\ cursor * (1 + MaxActive) \in Nat
  BY <1>1
<1> QED BY <1>1, <1>2, <1>3 DEF OperationCensus

(* One insertion compares at most MaxActive entries, writes at most        *)
(* MaxActive, and writes the entry by which the cloud grows.               *)
LEMMA InsertReportBounds ==
  ASSUME NEW list \in Seq(RegionMembership), Len(list) <= MaxActive,
         NEW item \in RegionMembership
  PROVE  /\ InsertComparisons(list, item) \in 0 .. MaxActive
         /\ InsertWrites(list, item) \in 0 .. MaxActive
         /\ RouteCloud!LengthAfter(list) \in Nat
         /\ RouteCloud!LengthAfter(list) <= Len(list) + InsertWrites(list, item)
<1> DEFINE p == RouteCloud!Position(list, item)
           m == RouteCloud!LengthAfter(list)
<1>1. p \in 1 .. Len(list) + 1
  BY SameInsertion, Insertion!PositionProperties
<1>2. /\ m = IF Len(list) < MaxActive THEN Len(list) + 1 ELSE MaxActive
      /\ Len(list) \in Nat
  BY DEF RouteCloud!LengthAfter
<1> HIDE DEF p, m
<1> QED BY <1>1, <1>2 DEF InsertComparisons, InsertWrites, p, m

-----------------------------------------------------------------------------
LEMMA SkipStep ==
  ASSUME IInv, SkipRegion
  PROVE  IInv'
<1> DEFINE r == candidates[cursor + 1]
<1>1. /\ phase = "scanning" /\ phase' = phase /\ cursor < Len(candidates)
      /\ cursor' = cursor + 1 /\ census' = AfterScan(census)
      /\ ~ Covers(r, code)
      /\ candidates' = candidates /\ code' = code /\ matched' = matched
      /\ cloud' = cloud /\ summary' = summary
  BY DEF SkipRegion
<1>2. TypeOK /\ ValidatedSlice /\ CloudIsTopK /\ MatchedCountsAccepted
      /\ CensusOfCursor /\ CensusBounded
  BY DEF IInv
<1>3. Inspected' = Inspected \cup {r}
  BY <1>1, <1>2, NextRegion DEF Inspected
<1>4. Accepted(Inspected', code') = Accepted(Inspected, code)
  BY <1>1, <1>3 DEF Accepted
<1>5. cursor \in Nat /\ Len(candidates) \in Nat /\ Len(candidates) <= MaxCandidates
  BY <1>2 DEF TypeOK, ValidatedSlice, Valid
<1>6. census' \in OperationCensus
  BY <1>1, <1>2, AfterScanCounts
<1>7. TypeOK'
  BY <1>1, <1>2, <1>5, <1>6 DEF TypeOK
<1>8. ValidatedSlice'
  BY <1>1, <1>2, <1>5 DEF ValidatedSlice, Valid
<1>9. CloudIsTopK'
  <2>1. RouteCloud!IsTopK(cloud, Accepted(Inspected, code))
    BY <1>1, <1>2 DEF CloudIsTopK
  <2>2. RouteCloud!IsTopK(cloud', Accepted(Inspected', code'))
    BY <2>1, <1>1, <1>4
  <2> QED BY <2>2 DEF CloudIsTopK
<1>10. MatchedCountsAccepted'
  BY <1>1, <1>2, <1>4 DEF MatchedCountsAccepted
<1>11. census'.comparisons <= cursor' * (1 + MaxActive)
  <2>1. /\ census.comparisons <= cursor * (1 + MaxActive) /\ census.comparisons \in Int
        /\ census'.comparisons = census.comparisons + 1
    BY <1>1, <1>2 DEF CensusOfCursor, TypeOK, OperationCensus, AfterScan
  <2>2. 1 + MaxActive \in Nat /\ census'.comparisons \in Int
        /\ census'.comparisons <= census.comparisons + (1 + MaxActive)
    BY <2>1
  <2> QED BY <2>1, <2>2, <1>1, <1>5, OneMorePart
<1>12. /\ census'.candidate_scans = cursor' /\ census'.word_steps = cursor' * Words
       /\ census'.table_reads = 3 * (cursor' * Words)
       /\ census'.table_writes <= cursor' * MaxActive
       /\ census'.table_writes = census.table_writes
  <2>1. census.table_writes <= cursor * MaxActive /\ census.table_writes \in Int
    BY <1>1, <1>2 DEF CensusOfCursor, TypeOK, OperationCensus
  <2>2. census'.table_writes = census.table_writes
    BY <1>1, <1>2, AfterScanCounts
  <2>3. census'.table_writes <= (cursor + 1) * MaxActive
    BY <2>1, <2>2, <1>5, OneMorePart
  <2> QED BY <2>2, <2>3, <1>1, <1>2, AfterScanCounts
<1>13. CensusBounded'
  <2>1. WithinBudget(census')
    <3>1. cursor' \in Nat /\ cursor' <= MaxCandidates
      BY <1>1, <1>5
    <3> HIDE DEF WithinBudget
    <3> QED BY <3>1, <1>6, <1>11, <1>12, BudgetOfCursor
  <2> QED BY <2>1, <1>1, <1>2, <1>12 DEF CensusBounded
<1> QED BY <1>1, <1>7, <1>8, <1>9, <1>10, <1>11, <1>12, <1>13 DEF IInv, CensusOfCursor

LEMMA AcceptStep ==
  ASSUME IInv, AcceptRegion
  PROVE  IInv'
<1> DEFINE r    == candidates[cursor + 1]
           item == MembershipOf(r, code)
           seen == Accepted(Inspected, code)
<1>1. /\ phase = "scanning" /\ phase' = phase /\ cursor < Len(candidates)
      /\ cursor' = cursor + 1 /\ matched' = matched + 1
      /\ Covers(r, code)
      /\ cloud' = RouteCloud!InsertRanked(cloud, item)
      /\ census' = AfterInsert(AfterScan(census), cloud, item)
      /\ candidates' = candidates /\ code' = code /\ summary' = summary
  BY DEF AcceptRegion
<1>2. TypeOK /\ ValidatedSlice /\ CloudIsTopK /\ MatchedCountsAccepted
      /\ CensusOfCursor /\ CensusBounded
  BY DEF IInv
<1>3. /\ r \in Region /\ Inspected \subseteq Region
      /\ Inspected' = Inspected \cup {r} /\ DistinctIds(Inspected')
      /\ \A s \in Inspected : s.region_id # r.region_id
  BY <1>1, <1>2, NextRegion DEF Inspected
<1>4. Inspected' \in SUBSET Region /\ code \in Code
  BY <1>2, <1>3 DEF TypeOK
<1>5. item \in RegionMembership /\ item.region_id = r.region_id
  BY <1>1, <1>3, <1>4, MembershipType
<1>6. Accepted(Inspected', code') = seen \cup {item}
  BY <1>1, <1>3 DEF Accepted
<1>7. item \notin seen
  <2> SUFFICES ASSUME item \in seen PROVE FALSE
    OBVIOUS
  <2>1. PICK s \in Inspected : item = MembershipOf(s, code) /\ Covers(s, code)
    BY DEF Accepted
  <2> HIDE DEF item
  <2> QED BY <2>1, <1>3, <1>4, <1>5, MembershipType
<1>8. /\ RouteCloud!StrictTotalOrder(seen \cup {item})
      /\ seen \cup {item} \subseteq RegionMembership
  <2> HIDE DEF item, seen, r
  <2> QED BY <1>1, <1>3, <1>4, <1>6, PrecedesIsTotal
<1>9. RouteCloud!IsTopK(cloud, seen) /\ cloud \in Seq(RegionMembership)
  BY <1>1, <1>2 DEF CloudIsTopK, TypeOK
<1>10. Len(cloud) <= MaxActive /\ Len(cloud) \in Nat
  BY <1>9 DEF RouteCloud!IsTopK
<1>11. /\ cloud' \in Seq(RegionMembership)
       /\ Len(cloud') = RouteCloud!LengthAfter(cloud)
  <2> HIDE DEF item
  <2> QED BY <1>1, <1>5, <1>9, <1>10, SameInsertion, Insertion!InsertRankedEntries
<1>12. RouteCloud!IsTopK(cloud', seen \cup {item})
  <2>1. item \in RegionMembership \ seen /\ seen \in SUBSET RegionMembership
    BY <1>5, <1>7, <1>8
  <2> HIDE DEF item, seen
  <2> QED BY <2>1, <1>1, <1>8, <1>9, SameInsertion, Insertion!InsertKeepsTopK
<1> HIDE DEF item, seen, r
<1>13. /\ cursor \in Nat /\ Len(candidates) \in Nat
       /\ Len(candidates) <= MaxCandidates /\ matched \in Nat
  BY <1>2 DEF TypeOK, ValidatedSlice, Valid
<1>14. /\ AfterScan(census) \in OperationCensus
       /\ AfterScan(census).candidate_scans = cursor + 1
       /\ AfterScan(census).word_steps = (cursor + 1) * Words
       /\ AfterScan(census).table_reads = 3 * ((cursor + 1) * Words)
       /\ AfterScan(census).comparisons <= cursor * (1 + MaxActive) + 1
       /\ AfterScan(census).table_writes = census.table_writes
  BY <1>1, <1>2, AfterScanCounts
<1>15. /\ InsertComparisons(cloud, item) \in 0 .. MaxActive
       /\ InsertWrites(cloud, item) \in 0 .. MaxActive
       /\ RouteCloud!LengthAfter(cloud) \in Nat
       /\ RouteCloud!LengthAfter(cloud) <= Len(cloud) + InsertWrites(cloud, item)
  BY <1>5, <1>9, <1>10, InsertReportBounds
<1>16. /\ census' \in OperationCensus
       /\ census'.candidate_scans = cursor + 1
       /\ census'.word_steps = (cursor + 1) * Words
       /\ census'.table_reads = 3 * ((cursor + 1) * Words)
       /\ census'.comparisons = AfterScan(census).comparisons + InsertComparisons(cloud, item)
       /\ census'.table_writes = census.table_writes + InsertWrites(cloud, item)
  <2>1. /\ AfterScan(census).candidate_scans \in Nat
        /\ AfterScan(census).word_steps \in Nat
        /\ AfterScan(census).table_reads \in Nat
        /\ AfterScan(census).comparisons \in Nat
        /\ AfterScan(census).table_writes \in Nat
    BY <1>14 DEF OperationCensus
  <2>2. /\ census'.candidate_scans = AfterScan(census).candidate_scans
        /\ census'.word_steps = AfterScan(census).word_steps
        /\ census'.table_reads = AfterScan(census).table_reads
        /\ census'.comparisons = AfterScan(census).comparisons + InsertComparisons(cloud, item)
        /\ census'.table_writes = AfterScan(census).table_writes + InsertWrites(cloud, item)
    BY <1>1 DEF AfterInsert
  <2>3. /\ AfterScan(census).comparisons + InsertComparisons(cloud, item) \in Nat
        /\ AfterScan(census).table_writes + InsertWrites(cloud, item) \in Nat
    BY <2>1, <1>15, SMTT(30)
  <2>4. census' \in OperationCensus
    <3>1. census' = AfterInsert(AfterScan(census), cloud, item)
      BY <1>1
    <3> QED BY <3>1, <2>1, <2>3, Zenon DEF AfterInsert, OperationCensus
  <2> QED BY <2>2, <2>4, <1>14
<1>17. TypeOK'
  BY <1>1, <1>2, <1>11, <1>13, <1>16 DEF TypeOK
<1>18. ValidatedSlice'
  BY <1>1, <1>2, <1>13 DEF ValidatedSlice, Valid
<1>19. CloudIsTopK'
  BY <1>6, <1>12 DEF CloudIsTopK, seen
<1>20. MatchedCountsAccepted'
  <2>1. /\ matched = Cardinality(seen) /\ matched >= Len(cloud)
        /\ matched > Len(cloud) => Len(cloud) = MaxActive
    BY <1>1, <1>2 DEF MatchedCountsAccepted, seen
  <2>2. IsFiniteSet(seen)
    <3>1. IsFiniteSet(Inspected)
      <4>1. IsFiniteSet(1 .. cursor)
        BY <1>13, FS_Interval
      <4>2. [i \in 1 .. cursor |-> candidates[i]] \in Surjection(1 .. cursor, Inspected)
        BY DEF Surjection, Inspected
      <4> QED BY <4>1, <4>2, FS_Surjection
    <3>2. IsFiniteSet({s \in Inspected : Covers(s, code)})
      BY <3>1, FS_Subset
    <3>3. [s \in {s \in Inspected : Covers(s, code)} |-> MembershipOf(s, code)]
            \in Surjection({s \in Inspected : Covers(s, code)}, seen)
      BY DEF Surjection, Accepted, seen
    <3> QED BY <3>2, <3>3, FS_Surjection
  <2>3. Cardinality(seen \cup {item}) = Cardinality(seen) + 1
    BY <2>2, <1>7, FS_AddElement
  <2>4. matched' = Cardinality(Accepted(Inspected', code'))
    BY <2>1, <2>3, <1>1, <1>6 DEF seen
  <2>5. RouteCloud!LengthAfter(cloud) =
          IF Len(cloud) < MaxActive THEN Len(cloud) + 1 ELSE MaxActive
    BY DEF RouteCloud!LengthAfter
  <2> QED BY <2>1, <2>4, <2>5, <1>1, <1>10, <1>11, <1>13 DEF MatchedCountsAccepted
<1>21. /\ census'.comparisons <= (cursor + 1) * (1 + MaxActive)
       /\ census'.table_writes <= (cursor + 1) * MaxActive
  <2>1. /\ census.table_writes <= cursor * MaxActive /\ census.table_writes \in Int
        /\ census.comparisons <= cursor * (1 + MaxActive) /\ census.comparisons \in Int
        /\ AfterScan(census).comparisons = census.comparisons + 1
    BY <1>1, <1>2 DEF CensusOfCursor, TypeOK, OperationCensus, AfterScan
  <2>2. /\ census'.comparisons = census.comparisons + 1 + InsertComparisons(cloud, item)
        /\ census'.table_writes = census.table_writes + InsertWrites(cloud, item)
    BY <2>1, <1>16
  <2>3. /\ 1 + MaxActive \in Nat
        /\ census'.comparisons \in Int /\ census'.table_writes \in Int
        /\ census'.comparisons <= census.comparisons + (1 + MaxActive)
        /\ census'.table_writes <= census.table_writes + MaxActive
    <3> DEFINE ic == InsertComparisons(cloud, item)
               iw == InsertWrites(cloud, item)
    <3>1. ic \in Int /\ iw \in Int /\ ic <= MaxActive /\ iw <= MaxActive
      BY <1>15
    <3> HIDE DEF ic, iw
    <3>2. /\ census'.comparisons = census.comparisons + 1 + ic
          /\ census'.table_writes = census.table_writes + iw
      BY <2>2 DEF ic, iw
    <3> QED BY <2>1, <3>1, <3>2, SMTT(30)
  <2>4. census'.comparisons <= (cursor + 1) * (1 + MaxActive)
    BY <2>1, <2>3, <1>13, OneMorePart
  <2>5. census'.table_writes <= (cursor + 1) * MaxActive
    BY <2>1, <2>3, <1>13, OneMorePart
  <2> QED BY <2>4, <2>5
<1>22. CensusOfCursor'
  BY <1>1, <1>16, <1>21 DEF CensusOfCursor
<1>23. CensusBounded'
  <2>1. cursor + 1 \in Nat /\ cursor + 1 <= MaxCandidates
    BY <1>1, <1>13
  <2>2. WithinBudget(census')
    <3> HIDE DEF WithinBudget
    <3> QED BY <2>1, <1>16, <1>21, BudgetOfCursor
  <2>3. census'.table_writes >= Len(cloud')
    <3>1. census.table_writes >= Len(cloud) /\ census.table_writes \in Nat
      BY <1>2 DEF CensusBounded, TypeOK, OperationCensus
    <3> QED BY <3>1, <1>10, <1>11, <1>15, <1>16
  <2> QED BY <2>2, <2>3 DEF CensusBounded
<1> QED BY <1>17, <1>18, <1>19, <1>20, <1>22, <1>23 DEF IInv

(* The three steps that open and close a route.                            *)
LEMMA NewCandidateSetStep ==
  ASSUME IInv, NEW slice \in Slices, NewCandidateSet(slice)
  PROVE  IInv'
<1>1. slice \in Seq(Region)
  OBVIOUS
<1>2. TypeOK'
  BY <1>1 DEF IInv, NewCandidateSet, TypeOK
<1>3. ValidatedSlice' /\ CloudIsTopK' /\ MatchedCountsAccepted' /\ CensusOfCursor'
  BY DEF IInv, NewCandidateSet, ValidatedSlice, CloudIsTopK,
         MatchedCountsAccepted, CensusOfCursor, Valid
<1>4. CensusBounded'
  BY DEF IInv, NewCandidateSet, CensusBounded, WithinBudget
<1> QED BY <1>2, <1>3, <1>4 DEF IInv

LEMMA BeginRouteStep ==
  ASSUME IInv, NEW c \in Codes, BeginRoute(c)
  PROVE  IInv'
<1>1. /\ phase' = "scanning" /\ code' = c /\ cursor' = 0 /\ matched' = 0
      /\ cloud' = << >> /\ census' = EmptyCensus
      /\ candidates' = candidates /\ summary' = summary
  BY DEF BeginRoute
<1>2. TypeOK'
  BY <1>1 DEF IInv, TypeOK, EmptyCensus, OperationCensus
<1>3. ValidatedSlice'
  BY <1>1 DEF IInv, ValidatedSlice, Valid, TypeOK
<1>4. Accepted(Inspected', code') = {}
  BY <1>1 DEF Accepted, Inspected
<1>5. RouteCloud!IsTopK(<< >>, {})
  BY DEF RouteCloud!IsTopK, RouteCloud!Ascending, RouteCloud!Elements
<1>6. CloudIsTopK'
  BY <1>1, <1>4, <1>5 DEF CloudIsTopK
<1>7. MatchedCountsAccepted'
  BY <1>1, <1>4, FS_EmptySet DEF MatchedCountsAccepted
<1>8. CensusOfCursor' /\ CensusBounded'
  <2>1. 0 * Words = 0 /\ 0 * MaxActive = 0 /\ 0 * (1 + MaxActive) = 0
    OBVIOUS
  <2>2. /\ 0 <= MaxCandidates /\ 0 <= MaxCandidates * Words
        /\ 0 <= 3 * MaxCandidates * Words
        /\ 0 <= MaxCandidates * (1 + MaxActive) /\ 0 <= MaxCandidates * MaxActive
    OBVIOUS
  <2> QED BY <1>1, <2>1, <2>2 DEF CensusOfCursor, CensusBounded, WithinBudget, EmptyCensus
<1> QED BY <1>2, <1>3, <1>6, <1>7, <1>8 DEF IInv

LEMMA SummaryType ==
  ASSUME NEW scanned \in Nat, NEW accepted \in Nat, NEW retained \in Nat
  PROVE  SummaryOf(scanned, accepted, retained) \in RouteSummary
<1>1. Resolution(accepted, retained) \in {"Novel", "Supported", "Boundary"}
  BY Zenon DEF Resolution
<1> QED BY <1>1 DEF SummaryOf, RouteSummary

LEMMA FinishRouteStep ==
  ASSUME IInv, FinishRoute
  PROVE  IInv'
<1>1. Len(candidates) \in Nat /\ matched \in Nat /\ Len(cloud) \in Nat
  BY DEF IInv, TypeOK
<1>2. TypeOK'
  BY <1>1, SummaryType DEF IInv, FinishRoute, TypeOK
<1>3. ValidatedSlice' /\ CloudIsTopK' /\ MatchedCountsAccepted' /\ CensusOfCursor'
  BY DEF IInv, FinishRoute, ValidatedSlice, CloudIsTopK,
         MatchedCountsAccepted, CensusOfCursor, Valid
<1>4. CensusBounded'
  BY DEF IInv, FinishRoute, CensusBounded, WithinBudget
<1> QED BY <1>2, <1>3, <1>4 DEF IInv

LEMMA StutterIInv == IInv /\ UNCHANGED vars => IInv'
BY DEF IInv, TypeOK, ValidatedSlice, Valid, CloudIsTopK, MatchedCountsAccepted,
       CensusOfCursor, CensusBounded, Inspected, vars

LEMMA NextIInv == IInv /\ [Next]_vars => IInv'
<1> SUFFICES ASSUME IInv, [Next]_vars PROVE IInv'
  OBVIOUS
<1>1. ASSUME NEW slice \in Slices, NewCandidateSet(slice) PROVE IInv'
  BY <1>1, NewCandidateSetStep
<1>2. ASSUME NEW c \in Codes, BeginRoute(c) PROVE IInv'
  BY <1>2, BeginRouteStep
<1>3. CASE SkipRegion
  BY <1>3, SkipStep
<1>4. CASE AcceptRegion
  BY <1>4, AcceptStep
<1>5. CASE FinishRoute
  BY <1>5, FinishRouteStep
<1>6. CASE UNCHANGED vars
  BY <1>6, StutterIInv
<1> QED BY <1>1, <1>2, <1>3, <1>4, <1>5, <1>6 DEF Next, RouteStep

(* The inductive invariant holds in every reachable state.                 *)
THEOREM RouterInvariant == Spec => []IInv
BY InitIInv, NextIInv, PTL DEF Spec

(* The variables of router.rs, cloud.rs and census.rs keep their types.    *)
THEOREM RouterTypes == Spec => []TypeOK
<1>1. IInv => TypeOK
  BY DEF IInv
<1> QED BY <1>1, RouterInvariant, PTL

(* After any number of iterations, over any slice, code and capacity, the  *)
(* cloud is the canonical top MaxActive of the covering regions inspected. *)
THEOREM RouterCloudIsTopK == Spec => []CloudIsTopK
<1>1. IInv => CloudIsTopK
  BY DEF IInv
<1> QED BY <1>1, RouterInvariant, PTL

(* The counters of the summary account for every covering region.          *)
THEOREM RouterCountsMatches == Spec => []MatchedCountsAccepted
<1>1. IInv => MatchedCountsAccepted
  BY DEF IInv
<1> QED BY <1>1, RouterInvariant, PTL

(* The work of a route stays within the budget its declared bounds imply.  *)
THEOREM RouterWorkIsBounded == Spec => []CensusBounded
<1>1. IInv => CensusBounded
  BY DEF IInv
<1> QED BY <1>1, RouterInvariant, PTL

-----------------------------------------------------------------------------
(* Refinement: the promise's operators are Router's, read through its      *)
(* instance.                                                               *)
LEMMA SamePromiseOperators ==
  /\ Promise!Region = Region /\ Promise!Code = Code
  /\ Promise!RegionMembership = RegionMembership
  /\ Promise!RouteSummary = RouteSummary
  /\ \A s, m, k : Promise!SummaryOf(s, m, k) = SummaryOf(s, m, k)
  /\ \A rs, c : Promise!Accepted(rs, c) = Accepted(rs, c)
  /\ \A list, S : Promise!RouteCloud!IsTopK(list, S) = RouteCloud!IsTopK(list, S)
<1>1. Promise!Region = Region /\ Promise!Code = Code
  BY DEF Promise!Region, Region, Promise!Code, Code
<1>2. Promise!RegionMembership = RegionMembership /\ Promise!RouteSummary = RouteSummary
  BY DEF Promise!RegionMembership, RegionMembership, Promise!RouteSummary, RouteSummary
<1>3. \A s, m, k : Promise!SummaryOf(s, m, k) = SummaryOf(s, m, k)
  BY Zenon DEF Promise!SummaryOf, SummaryOf, Promise!Resolution, Resolution
<1>4. \A rs, c : Promise!Accepted(rs, c) = Accepted(rs, c)
  BY Zenon DEF Promise!Accepted, Accepted, Promise!Covers, Covers,
     Promise!MembershipOf, MembershipOf, Promise!MaskedHamming, MaskedHamming,
     Promise!Cardinality, Cardinality
<1>5. \A list, S : Promise!RouteCloud!IsTopK(list, S) = RouteCloud!IsTopK(list, S)
  <2>1. \A x, y : Promise!Precedes(x, y) = Precedes(x, y)
    BY Zenon DEF Promise!Precedes, Precedes
  <2> QED BY <2>1, Zenon DEF Promise!RouteCloud!IsTopK, RouteCloud!IsTopK,
       Promise!RouteCloud!Ascending, RouteCloud!Ascending,
       Promise!RouteCloud!Elements, RouteCloud!Elements, Promise!Precedes, Precedes
<1> QED BY <1>1, <1>2, <1>3, <1>4, <1>5

(* What a caller can see of the storage while a call is under way.         *)
LEMMA PromiseInit == Init => Promise!Init
BY SamePromiseOperators
   DEF Init, Promise!Init, Promise!NoQuestion, Promise!NoReply

(* Beginning a route asks about the set of regions of the slice.           *)
LEMMA BeginRouteAsks ==
  ASSUME IInv, NEW c \in Codes, BeginRoute(c)
  PROVE  Promise!Ask
<1> DEFINE regions == ToSet(candidates)
           n == Len(candidates)
<1>1. /\ phase = "ready" /\ phase' = "scanning" /\ code' = c
      /\ candidates' = candidates
  BY DEF BeginRoute
<1>2. /\ candidates \in Seq(Region) /\ n \in Nat /\ n <= MaxCandidates
      /\ \A i, j \in 1 .. n :
           i < j => candidates[i].region_id # candidates[j].region_id
  BY DEF IInv, TypeOK, ValidatedSlice, Valid
<1>3. regions = {candidates[i] : i \in 1 .. n}
  BY <1>2 DEF ToSet
<1>4. regions \subseteq Region /\ c \in Code
  BY <1>2, <1>3
<1>5. DistinctIds(regions)
  BY <1>2, <1>3 DEF DistinctIds
<1>6. IsFiniteSet(regions) /\ Cardinality(regions) <= MaxCandidates
  <2>1. IsFiniteSet(1 .. n) /\ Cardinality(1 .. n) = n
    <3> HIDE DEF n
    <3>1. n \in Nat
      BY <1>2
    <3>2. Cardinality(1 .. n) = IF 1 > n THEN 0 ELSE n - 1 + 1
      BY <3>1, FS_Interval
    <3> QED BY <3>1, <3>2, FS_Interval
  <2>2. [i \in 1 .. n |-> candidates[i]] \in Surjection(1 .. n, regions)
    BY <1>3 DEF Surjection
  <2>3. IsFiniteSet(regions) /\ Cardinality(regions) <= n
    BY <2>1, <2>2, FS_Surjection
  <2>4. Cardinality(regions) \in Nat
    BY <2>3, FS_CardinalityType
  <2> QED BY <1>2, <2>3, <2>4
<1> HIDE DEF regions, n
<1>7. Promise!Askable(regions)
  BY <1>5, <1>6 DEF Promise!Askable, DistinctIds, Promise!IsFiniteSet,
     IsFiniteSet, Promise!Cardinality, Cardinality
<1>8. [regions |-> regions, code |-> c] \in Promise!Question
  BY <1>4, SamePromiseOperators DEF Promise!Question
<1> QED BY <1>1, <1>7, <1>8, SamePromiseOperators
        DEF Promise!Ask, Promise!NoReply, regions

(* A returning route answers with the canonical top MaxActive.             *)
LEMMA FinishRouteAnswers ==
  ASSUME IInv, FinishRoute
  PROVE  Promise!Answer
<1> DEFINE regions == ToSet(candidates)
           n == Len(candidates)
<1>1. /\ phase = "scanning" /\ cursor = n /\ phase' = "ready"
      /\ summary' = SummaryOf(n, matched, Len(cloud)) /\ cloud' = cloud
  BY DEF FinishRoute
<1>2. /\ candidates \in Seq(Region) /\ n \in Nat /\ matched \in Nat
      /\ cloud \in Seq(RegionMembership) /\ Len(cloud) \in Nat
      /\ \A i, j \in 1 .. n :
           i < j => candidates[i].region_id # candidates[j].region_id
  BY DEF IInv, TypeOK, ValidatedSlice, Valid
<1>3. regions = {candidates[i] : i \in 1 .. n} /\ regions = Inspected
  BY <1>1, <1>2 DEF ToSet, Inspected
<1>4. /\ RouteCloud!IsTopK(cloud, Accepted(regions, code))
      /\ matched = Cardinality(Accepted(regions, code))
  BY <1>1, <1>3 DEF IInv, CloudIsTopK, MatchedCountsAccepted
<1>5. n = Cardinality(regions)
  <2>1. [i \in 1 .. n |-> candidates[i]] \in Surjection(1 .. n, regions)
    BY <1>3 DEF Surjection
  <2>2. [i \in 1 .. n |-> candidates[i]] \in Injection(1 .. n, regions)
    BY <1>2, <1>3 DEF Injection, IsInjective
  <2>3. [i \in 1 .. n |-> candidates[i]] \in Bijection(1 .. n, regions)
    BY <2>1, <2>2 DEF Bijection
  <2>4. ExistsBijection(1 .. n, regions)
    BY <2>3 DEF ExistsBijection
  <2> HIDE DEF n, regions
  <2> QED BY <2>4, <1>2, FS_CountingElements
<1>6. summary' \in RouteSummary
  BY <1>1, <1>2, SummaryType
<1>7. [cloud |-> cloud', summary |-> summary'] \in Promise!Reply
  BY <1>1, <1>2, <1>6, SamePromiseOperators DEF Promise!Reply
<1>8. \A S : Promise!Cardinality(S) = Cardinality(S)
  BY Zenon DEF Promise!Cardinality, Cardinality
<1>9. summary' = SummaryOf(Cardinality(regions),
                           Cardinality(Accepted(regions, code)), Len(cloud'))
  BY <1>1, <1>4, <1>5
<1> HIDE DEF regions, n
<1> QED BY <1>1, <1>4, <1>7, <1>8, <1>9, SamePromiseOperators
        DEF Promise!Answer, Promise!NoQuestion, regions

LEMMA PromiseStep == IInv /\ [Next]_vars => [Promise!Next]_Promise!vars
<1> SUFFICES ASSUME IInv, [Next]_vars PROVE [Promise!Next]_Promise!vars
  OBVIOUS
<1>1. ASSUME NEW slice \in Slices, NewCandidateSet(slice)
      PROVE  UNCHANGED Promise!vars
  <2>1. phase # "scanning" /\ phase' # "scanning" /\ cloud' = cloud /\ summary' = summary
    BY <1>1 DEF NewCandidateSet
  <2> QED BY <2>1 DEF Promise!vars
<1>2. ASSUME NEW c \in Codes, BeginRoute(c) PROVE Promise!Ask
  BY <1>2, BeginRouteAsks
<1>3. CASE SkipRegion
  BY <1>3 DEF SkipRegion, Promise!vars
<1>4. CASE AcceptRegion
  BY <1>4 DEF AcceptRegion, Promise!vars
<1>5. CASE FinishRoute
  BY <1>5, FinishRouteAnswers DEF Promise!Next
<1>6. CASE UNCHANGED vars
  BY <1>6 DEF vars, Promise!vars
<1> QED BY <1>1, <1>2, <1>3, <1>4, <1>5, <1>6 DEF Next, RouteStep, Promise!Next

(* The scan over an ordered slice into reused storage implements the       *)
(* promise about a set of regions: neither the order of the slice nor the  *)
(* earlier contents of the storage can show in an answer.                  *)
THEOREM RouterImplementsPromise == Spec => ImplementsPromise
<1>1. Spec => Promise!Init /\ [][Promise!Next]_Promise!vars
  BY PromiseInit, PromiseStep, RouterInvariant, PTL DEF Spec
<1> QED BY <1>1 DEF ImplementsPromise, Promise!Spec
=============================================================================
