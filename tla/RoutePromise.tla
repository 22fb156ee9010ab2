---------------------------- MODULE RoutePromise ----------------------------
(***************************************************************************)
(* What one call of ReferenceRouter::route promises its caller, without    *)
(* the scan: a question is a SET of regions and a code, and the answer is  *)
(* the first MaxActive memberships of the accepted ones in canonical order *)
(* with the matching counts.  Neither the order of the regions in the      *)
(* caller's slice nor what the reused cloud held before is part of the     *)
(* question, so neither can show in the answer.                            *)
(***************************************************************************)
EXTENDS Membership

CONSTANT MaxCandidates

VARIABLES
  pending,  (* a call is under way                                         *)
  asked,    (* its question                                                *)
  answer    (* the cloud and summary the caller can read between calls     *)

vars == <<pending, asked, answer>>

Question == [regions : SUBSET Region, code : Code]
Reply    == [cloud : Seq(RegionMembership), summary : RouteSummary]

NoQuestion == [regions |-> {}, code |-> {}]
NoReply    == [cloud |-> << >>, summary |-> SummaryOf(0, 0, 0)]

(* A validated candidate set: bounded, and no ID twice.                    *)
Askable(regions) ==
  /\ IsFiniteSet(regions)
  /\ Cardinality(regions) <= MaxCandidates
  /\ \A r, s \in regions : r.region_id = s.region_id => r = s

Init ==
  /\ pending = FALSE
  /\ asked = NoQuestion
  /\ answer = NoReply

Ask ==
  /\ ~ pending
  /\ pending' = TRUE
  /\ asked' \in Question
  /\ Askable(asked'.regions)
  /\ answer' = NoReply

Answer ==
  LET accepted == Accepted(asked.regions, asked.code)
  IN  /\ pending
      /\ pending' = FALSE
      /\ asked' = NoQuestion
      /\ answer' \in Reply
      /\ RouteCloud!IsTopK(answer'.cloud, accepted)
      /\ answer'.summary = SummaryOf(Cardinality(asked.regions),
                                     Cardinality(accepted),
                                     Len(answer'.cloud))

Next == Ask \/ Answer

Spec == Init /\ [][Next]_vars
=============================================================================
