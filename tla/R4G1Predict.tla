----------------------------- MODULE R4G1Predict -----------------------------
(***************************************************************************)
(* R4G1Graph::predict_top_k over an accepted graph (r4g1.rs): the root     *)
(* prior, then the residuals of the refinement chain of the deepest        *)
(* candidate, into the caller's reused predictions.  The route inside the  *)
(* call is module R4G1Route; here a question is the list of candidates it  *)
(* retained.  One step is one record or one move along the chain.          *)
(***************************************************************************)
EXTENDS R4G1Graph, Prediction

CONSTANTS
  Graphs,      (* the accepted graphs a caller may hold                    *)
  CandidateLists   (* what routes may retain: lists of zero-based node IDs *)

(* The EMIT section: an encoding byte, the size of the remainder after the *)
(* descriptor, the declared number of root entries, and the entry that     *)
(* stands at each byte offset of the remainder.                            *)
EmitSection ==
  [supported : BOOLEAN, remainder : Nat, root_count : Nat,
   at : UNION {[D -> TokenScore] : D \in SUBSET Nat}]

ASSUME GraphsAssumption ==
  \A graph \in Graphs :
    /\ GraphAccepted(graph)
    /\ \A o \in 0 .. graph.emit.remainder - 8 : graph.emit.at[o] \in TokenScore

ASSUME CandidateListsAssumption ==
  \A list \in CandidateLists : \A graph \in Graphs :
    \A id \in ToSet(list) : id \in 0 .. Len(graph.nodes) - 1

VARIABLES
  phase,        (* "idle", "root", "climb" or "residual"                   *)
  graph,        (* the graph the caller holds                              *)
  candidates,   (* what the route retained                                 *)
  target,       (* target_depth: the level whose residuals come next       *)
  cursor,       (* the node the climb has reached                          *)
  read,         (* entries read of the range being accumulated             *)
  predictions,  (* the R4G1Predictions: entries and truncated              *)
  outcome       (* what the call returned                                  *)

vars == <<phase, graph, candidates, target, cursor, read, predictions, outcome>>

Init ==
  /\ phase = "idle"
  /\ graph \in Graphs
  /\ candidates = << >>
  /\ target = 0
  /\ cursor = 0
  /\ read = 0
  /\ predictions = EmptyPrediction
  /\ outcome = "Ok"

-----------------------------------------------------------------------------
(* Root scores of one token keep their maximum.                            *)
AccumulateRoot(prediction, entry) ==
  LET entries == prediction.entries
      slot == SlotOf(entries, entry.token)
  IN  IF slot = 0 THEN Accumulate(prediction, entry)
      ELSE IF entry.score > entries[slot].score
      THEN [entries   |-> Ranked!InsertRanked(RemoveAt(entries, slot), entry),
            truncated |-> prediction.truncated]
      ELSE prediction

(* add_residual and insert_new are accumulate of the artifact's Prediction,*)
(* line for line.                                                          *)
AddResidual(prediction, entry) == Accumulate(prediction, entry)

(* The deepest candidate, the lowest ID among equals.                      *)
Selected ==
  CHOOSE id \in ToSet(candidates) :
    \A other \in ToSet(candidates) \ {id} :
      \/ NodeAt(graph, id).depth > NodeAt(graph, other).depth
      \/ NodeAt(graph, id).depth = NodeAt(graph, other).depth /\ id < other

-----------------------------------------------------------------------------
Return(result) ==
  /\ phase' = "idle"
  /\ outcome' = result

(* The buffers are cleared, the route retains `list', and the root prior   *)
(* is located.                                                             *)
Begin(list) ==
  /\ phase = "idle"
  /\ candidates' = list
  /\ predictions' = EmptyPrediction
  /\ read' = 0
  /\ target' = 0
  /\ cursor' = 0
  /\ IF ~ graph.emit.supported THEN Return("EmissionEncodingUnsupported")
     ELSE IF ~ RootFits(graph) THEN Return("RootPriorMalformed")
     ELSE phase' = "root" /\ UNCHANGED outcome
  /\ UNCHANGED graph

AddRootEntry ==
  /\ phase = "root"
  /\ read < graph.emit.root_count
  /\ read' = read + 1
  /\ predictions' = AccumulateRoot(predictions, RootEntry(graph, read + 1))
  /\ UNCHANGED <<phase, graph, candidates, target, cursor, outcome>>

(* The root prior is in; the climb starts at the selected candidate for    *)
(* level one.  Without a candidate, or with one at depth zero, it is over. *)
SelectCandidate ==
  /\ phase = "root"
  /\ read = graph.emit.root_count
  /\ IF candidates = << >> \/ NodeAt(graph, Selected).depth = 0
     THEN Return("Ok") /\ UNCHANGED <<target, cursor>>
     ELSE phase' = "climb" /\ target' = 1 /\ cursor' = Selected /\ UNCHANGED outcome
  /\ read' = 0
  /\ UNCHANGED <<graph, candidates, predictions>>

(* The node is below the level: the climb goes to its parent.              *)
Climb ==
  /\ phase = "climb"
  /\ NodeAt(graph, cursor).depth > target
  /\ IF IncomingRefinements(graph, cursor) = {}
     THEN Return("RoutingCandidateOutOfBounds") /\ UNCHANGED cursor
     ELSE cursor' = Parent(graph, cursor) /\ UNCHANGED <<phase, outcome>>
  /\ UNCHANGED <<graph, candidates, target, read, predictions>>

(* Mutant: the next level goes on from the node the climb has reached.     *)
NextLevelGoesOn ==
  /\ IF target = NodeAt(graph, Selected).depth
     THEN Return("Ok") /\ UNCHANGED <<target, cursor>>
     ELSE phase' = "climb" /\ target' = target + 1 /\ UNCHANGED <<cursor, outcome>>
  /\ read' = 0
  /\ UNCHANGED <<graph, candidates, predictions>>

(* The next level starts again from the selected candidate.                *)
NextLevel ==
  /\ IF target = NodeAt(graph, Selected).depth
     THEN Return("Ok") /\ UNCHANGED <<target, cursor>>
     ELSE phase' = "climb" /\ target' = target + 1 /\ cursor' = Selected /\ UNCHANGED outcome
  /\ read' = 0
  /\ UNCHANGED <<graph, candidates, predictions>>

(* The chain has no node at this level.                                    *)
PassLevel ==
  /\ phase = "climb"
  /\ NodeAt(graph, cursor).depth < target
  /\ NextLevel

ReachLevel ==
  /\ phase = "climb"
  /\ NodeAt(graph, cursor).depth = target
  /\ IF ResidualsFit(graph, NodeAt(graph, cursor))
     THEN phase' = "residual" /\ UNCHANGED outcome
     ELSE Return("NodeRangeOutOfBounds")
  /\ UNCHANGED <<graph, candidates, target, cursor, read, predictions>>

AddResidualEntry ==
  /\ phase = "residual"
  /\ read < NodeAt(graph, cursor).emission_len
  /\ read' = read + 1
  /\ predictions' =
       AddResidual(predictions, Residual(graph, NodeAt(graph, cursor), read + 1))
  /\ UNCHANGED <<phase, graph, candidates, target, cursor, outcome>>

EndLevel ==
  /\ phase = "residual"
  /\ read = NodeAt(graph, cursor).emission_len
  /\ NextLevel

PredictStep ==
  \/ AddRootEntry \/ SelectCandidate \/ Climb \/ PassLevel
  \/ ReachLevel \/ AddResidualEntry \/ EndLevel

Next == PredictStep \/ \E list \in CandidateLists : Begin(list)

(* A prediction is one sequential call: once begun it runs to its return.  *)
Spec == Init /\ [][Next]_vars /\ WF_vars(PredictStep)

-----------------------------------------------------------------------------
(* The score promised for a token: the chain starts at the selected node,  *)
(* or nowhere without a candidate.                                         *)
Promised(token) ==
  PromisedFrom(graph, IF candidates = << >> THEN {} ELSE {Selected}, token)

Answered == phase = "idle" /\ outcome = "Ok" /\ predictions # EmptyPrediction

(* The residuals of a token along the chain, those of the upper levels     *)
(* first, where the levels of a chain are all different.                   *)
ChainResiduals(token) ==
  LET At(level) == {n \in Chain(graph, Selected) : NodeAt(graph, n).depth = level}
      Of(n) == [k \in 1 .. NodeAt(graph, n).emission_len |-> Residual(graph, NodeAt(graph, n), k)]
      OfLevel(level) == IF At(level) = {} THEN << >> ELSE Of(CHOOSE n \in At(level) : TRUE)
  IN  IF candidates = << >> THEN << >>
      ELSE SelectSeq(FlattenSeq([level \in 1 .. NodeAt(graph, Selected).depth |-> OfLevel(level)]),
                     LAMBDA entry : entry.token = token)

(* An answer no entry of which was displaced holds exactly the promised    *)
(* score of every token the root prior or the chain names: the repeated    *)
(* climbs apply each node's residuals once, whatever levels the chain      *)
(* skips, and nothing of an earlier question is left.  Where entries were  *)
(* displaced, a score that is not the promised one is the sum of the       *)
(* residuals since its token last came in: the base went with the          *)
(* displaced entry, and nothing of the entry in its place is left          *)
(* (insert_new, r4g1.rs:554-566).                                          *)
ScoresAreChainSums ==
  LET entries == predictions.entries
      Sum(list) == FoldLeft(LAMBDA sum, entry : sum + entry.score, 0, list)
      Latest(list, n) == SubSeq(list, Len(list) - n + 1, Len(list))
      Displaced(entry) ==
        LET list == ChainResiduals(entry.token)
        IN  \E n \in 1 .. Len(list) : entry.score = Sum(Latest(list, n))
  IN  /\ Answered =>
           \A k \in DOMAIN entries :
             \/ entries[k].score = Promised(entries[k].token)
             \/ predictions.truncated > 0 /\ Displaced(entries[k])
      /\ Answered /\ predictions.truncated = 0 =>
           {entries[k].token : k \in DOMAIN entries}
             = {token \in Tokens : \/ RootScores(graph, token) # {}
                                   \/ candidates # << >> /\ Residuals(graph, Selected, token) # {}}

(* Every call returns.  README.md calls the runtime "bounded by declared   *)
(* context, candidate, frontier, and output capacities".                   *)
PredictReturns == phase = "root" ~> phase = "idle"
=============================================================================
