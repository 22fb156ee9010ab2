------------------------------- MODULE Router -------------------------------
(***************************************************************************)
(* Bounded reference routing (router.rs, cloud.rs, census.rs).  A caller   *)
(* validates a slice of regions into a candidate set, then routes codes    *)
(* over it any number of times into the same caller-owned cloud and census.*)
(* One step of a route is one iteration of the loop over the regions.      *)
(***************************************************************************)
EXTENDS Membership

CONSTANTS
  MaxCandidates,  (* MAX_CANDIDATES                                        *)
  Words,          (* WORDS, the packed words of a code                     *)
  Slices,         (* the region slices a caller may offer                  *)
  Codes           (* the codes a caller may route                          *)

ASSUME MaxCandidatesAssumption == MaxCandidates \in Nat
ASSUME WordsAssumption == Words \in Nat
ASSUME SlicesAssumption == Slices \subseteq Seq(Region)
ASSUME CodesAssumption == Codes \subseteq Code

VARIABLES
  phase,       (* "empty", "ready" (a validated set exists) or "scanning"  *)
  candidates,  (* the validated slice                                      *)
  code,        (* the code being routed, then the last one routed          *)
  cursor,      (* regions of the slice the loop has finished               *)
  matched,     (* accepted regions so far                                  *)
  cloud,       (* the caller-owned RouteCloud: its initialized entries     *)
  census,      (* the caller-owned OperationCensus                         *)
  summary      (* the last RouteSummary returned                           *)

vars == <<phase, candidates, code, cursor, matched, cloud, census, summary>>

(* xors, ands, popcounts and distance_adds move with word_steps, in        *)
(* record_word_step, and stand under that one counter.                     *)
EmptyCensus ==
  [candidate_scans |-> 0, word_steps |-> 0, table_reads |-> 0,
   comparisons |-> 0, table_writes |-> 0]

(* The census after inspecting one region: masked_hamming_counted records  *)
(* every word, then the boundary test is one comparison.                   *)
AfterScan(c) ==
  [candidate_scans |-> c.candidate_scans + 1,
   word_steps      |-> c.word_steps + Words,
   table_reads     |-> c.table_reads + 3 * Words,
   comparisons     |-> c.comparisons + 1,
   table_writes    |-> c.table_writes]

(* InsertReport of insert_ranked: entries compared in the search, entries  *)
(* written by the shift and the placement.                                 *)
InsertComparisons(list, item) ==
  LET p == RouteCloud!Position(list, item)
  IN  IF p <= Len(list) THEN p ELSE Len(list)

InsertWrites(list, item) ==
  LET p == RouteCloud!Position(list, item)
  IN  IF p > RouteCloud!LengthAfter(list) THEN 0
      ELSE RouteCloud!LengthAfter(list) - p + 1

AfterInsert(c, list, item) ==
  [candidate_scans |-> c.candidate_scans,
   word_steps      |-> c.word_steps,
   table_reads     |-> c.table_reads,
   comparisons     |-> c.comparisons + InsertComparisons(list, item),
   table_writes    |-> c.table_writes + InsertWrites(list, item)]

-----------------------------------------------------------------------------
Init ==
  /\ phase = "empty"
  /\ candidates = << >>
  /\ code = {}
  /\ cursor = 0
  /\ matched = 0
  /\ cloud = << >>
  /\ census = EmptyCensus
  /\ summary = SummaryOf(0, 0, 0)

(* CandidateSet::new refuses a slice that is too long or repeats an ID     *)
(* (the caller then has what it had before).                               *)
Valid(slice) ==
  /\ Len(slice) <= MaxCandidates
  /\ \A left, right \in 1 .. Len(slice) :
        left < right => slice[left].region_id # slice[right].region_id

NewCandidateSet(slice) ==
  /\ phase # "scanning"
  /\ Valid(slice)
  /\ candidates' = slice
  /\ phase' = "ready"
  /\ UNCHANGED <<code, cursor, matched, cloud, census, summary>>

(* Mutants: a route that forgets to clear the reused cloud, or the census. *)
BeginRouteKeepsCloud(c) ==
  /\ phase = "ready"
  /\ phase' = "scanning"
  /\ code' = c
  /\ cursor' = 0
  /\ matched' = 0
  /\ census' = EmptyCensus
  /\ UNCHANGED <<candidates, cloud, summary>>

BeginRouteKeepsCensus(c) ==
  /\ phase = "ready"
  /\ phase' = "scanning"
  /\ code' = c
  /\ cursor' = 0
  /\ matched' = 0
  /\ cloud' = << >>
  /\ UNCHANGED <<candidates, census, summary>>

(* ReferenceRouter::route up to its loop: the reused storage is cleared.   *)
BeginRoute(c) ==
  /\ phase = "ready"
  /\ phase' = "scanning"
  /\ code' = c
  /\ cursor' = 0
  /\ matched' = 0
  /\ cloud' = << >>
  /\ census' = EmptyCensus
  /\ UNCHANGED <<candidates, summary>>

(* One iteration over a region whose boundary excludes the code.           *)
SkipRegion ==
  /\ phase = "scanning"
  /\ cursor < Len(candidates)
  /\ ~ Covers(candidates[cursor + 1], code)
  /\ cursor' = cursor + 1
  /\ census' = AfterScan(census)
  /\ UNCHANGED <<phase, candidates, code, matched, cloud, summary>>

(* Mutant: only the memberships the cloud has room for are counted.        *)
AcceptRegionCountsRetained ==
  LET membership == MembershipOf(candidates[cursor + 1], code)
  IN  /\ phase = "scanning"
      /\ cursor < Len(candidates)
      /\ Covers(candidates[cursor + 1], code)
      /\ cursor' = cursor + 1
      /\ matched' = IF Len(cloud) < MaxActive THEN matched + 1 ELSE matched
      /\ cloud' = RouteCloud!InsertRanked(cloud, membership)
      /\ census' = AfterInsert(AfterScan(census), cloud, membership)
      /\ UNCHANGED <<phase, candidates, code, summary>>

(* One iteration over a region that covers the code.                       *)
AcceptRegion ==
  LET membership == MembershipOf(candidates[cursor + 1], code)
  IN  /\ phase = "scanning"
      /\ cursor < Len(candidates)
      /\ Covers(candidates[cursor + 1], code)
      /\ cursor' = cursor + 1
      /\ matched' = matched + 1
      /\ cloud' = RouteCloud!InsertRanked(cloud, membership)
      /\ census' = AfterInsert(AfterScan(census), cloud, membership)
      /\ UNCHANGED <<phase, candidates, code, summary>>

(* Mutant: the summary counts what was retained as what was matched.       *)
FinishRouteCountsCloud ==
  /\ phase = "scanning"
  /\ cursor = Len(candidates)
  /\ phase' = "ready"
  /\ summary' = SummaryOf(Len(candidates), Len(cloud), Len(cloud))
  /\ UNCHANGED <<candidates, code, cursor, matched, cloud, census>>

(* The loop is done and the summary is returned.                           *)
FinishRoute ==
  /\ phase = "scanning"
  /\ cursor = Len(candidates)
  /\ phase' = "ready"
  /\ summary' = SummaryOf(Len(candidates), matched, Len(cloud))
  /\ UNCHANGED <<candidates, code, cursor, matched, cloud, census>>

RouteStep == SkipRegion \/ AcceptRegion \/ FinishRoute

Next ==
  \/ \E slice \in Slices : NewCandidateSet(slice)
  \/ \E c \in Codes : BeginRoute(c)
  \/ RouteStep

(* A route is one sequential call: once begun it runs to its return.       *)
Spec == Init /\ [][Next]_vars /\ WF_vars(RouteStep)

-----------------------------------------------------------------------------
OperationCensus ==
  [candidate_scans : Nat, word_steps : Nat, table_reads : Nat,
   comparisons : Nat, table_writes : Nat]

(* The types of the scan's state; census fields stay natural numbers.      *)
TypeOK ==
  /\ phase \in {"empty", "ready", "scanning"}
  /\ candidates \in Seq(Region)
  /\ code \in Code
  /\ cursor \in Nat
  /\ matched \in Nat
  /\ cloud \in Seq(RegionMembership)
  /\ census \in OperationCensus
  /\ summary \in RouteSummary

(* The regions of the candidate slice the current route has inspected.     *)
Inspected == {candidates[i] : i \in 1 .. cursor}

(* After every iteration the cloud holds exactly the first MaxActive       *)
(* memberships, in canonical order, of the regions inspected so far that   *)
(* cover the code: an eviction never loses a membership that belongs, and  *)
(* nothing of an earlier route survives in the reused storage              *)
(* (router.rs: "input order cannot change retained ordering").             *)
CloudIsTopK ==
  phase = "scanning" => RouteCloud!IsTopK(cloud, Accepted(Inspected, code))

(* Nothing accepted goes missing from the counts: `matched' counts every   *)
(* region that covers the code although the cloud may have dropped some,   *)
(* so retained + truncated of the summary is the number accepted.          *)
MatchedCountsAccepted ==
  phase = "scanning" =>
    /\ matched = Cardinality(Accepted(Inspected, code))
    /\ matched >= Len(cloud)
    /\ matched > Len(cloud) => Len(cloud) = MaxActive

(* The OperationBudget that the declared bounds of a route imply.  It is   *)
(* the budget a caller would declare from MAX_CANDIDATES, WORDS and        *)
(* MAX_ACTIVE.                                                             *)
WithinBudget(c) ==
  /\ c.candidate_scans <= MaxCandidates
  /\ c.word_steps <= MaxCandidates * Words
  /\ c.table_reads <= 3 * MaxCandidates * Words
  /\ c.comparisons <= MaxCandidates * (1 + MaxActive)
  /\ c.table_writes <= MaxCandidates * MaxActive

(* "Bounded work": no route over a validated set, on storage reused from   *)
(* earlier routes, exceeds that budget, and each retained membership has   *)
(* been written.                                                           *)
CensusBounded ==
  /\ WithinBudget(census)
  /\ census.table_writes >= Len(cloud)

(* The scan over a slice into reused storage implements the promise made   *)
(* about a set of regions.                                                 *)
Promise ==
  INSTANCE RoutePromise WITH
    pending <- phase = "scanning",
    asked   <- IF phase = "scanning"
               THEN [regions |-> ToSet(candidates), code |-> code]
               ELSE [regions |-> {}, code |-> {}],
    answer  <- IF phase = "scanning"
               THEN [cloud |-> << >>, summary |-> SummaryOf(0, 0, 0)]
               ELSE [cloud |-> cloud, summary |-> summary]

ImplementsPromise == Promise!Spec
=============================================================================
