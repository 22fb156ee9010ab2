------------------------------ MODULE R4G1Route ------------------------------
(***************************************************************************)
(* Parsing a graph and executing its ROUT program (R4G1Graph::parse and    *)
(* R4G1Graph::route, r4g1.rs).  A parsed graph is routed any number of     *)
(* times into the same caller-owned candidates.  One step executes one     *)
(* operation of the program or inspects one entry of the shortlist.        *)
(***************************************************************************)
EXTENDS R4G1Graph

CONSTANTS
  Graphs,         (* what a caller may parse                               *)
  Signatures,     (* the signatures a caller may route, as word sequences  *)
  RouteCapacity   (* CAPACITY of R4G1RouteCandidates                       *)

ASSUME RouteCapacityAssumption == RouteCapacity \in Nat
ASSUME SignaturesAssumption == Signatures \subseteq Seq(Word)
ASSUME GraphsAssumption ==
  \A graph \in Graphs :
    /\ graph.head \in HeadBounds
    /\ graph.nodes \in Seq(Node)
    /\ graph.rout.ops \in Seq(Op)
    /\ \A index \in 1 .. Len(graph.rout.ops) - 1 :
         graph.rout.ops[index].op \notin {"Halt", "Unknown", "Truncated"}
    /\ graph.rout.table_bytes \in Nat
    /\ \A o \in 0 .. graph.rout.table_bytes - 4 : graph.rout.id_at[o] \in Nat
    /\ graph.rout.words \in Seq(Word)

VARIABLES
  phase,       (* "unparsed", "parsed", "running" or "shortlist"           *)
  graph,       (* the graph parsed last                                    *)
  signature,   (* the signature being routed                               *)
  pc,          (* the operation executed next                              *)
  steps,       (* operations executed                                      *)
  offset,      (* byte offset of the next shortlist entry in the table     *)
  end,         (* byte offset of the end of the shortlist                  *)
  candidates,  (* the retained node IDs                                    *)
  outcome      (* what parse or route returned                             *)

vars == <<phase, graph, signature, pc, steps, offset, end, candidates, outcome>>

Ops == graph.rout.ops

Init ==
  /\ phase = "unparsed"
  /\ graph \in Graphs
  /\ signature = << >>
  /\ pc = 1
  /\ steps = 0
  /\ offset = 0
  /\ end = 0
  /\ candidates = << >>
  /\ outcome = "Ok"

(* parse returns a view or the error; the caller keeps what it can route.  *)
Parse ==
  /\ phase = "unparsed"
  /\ IF GraphAccepted(graph)
     THEN phase' = "parsed" /\ outcome' = "Ok"
     ELSE /\ phase' = "unparsed"
          /\ outcome' = IF RoutAccepted(graph.rout, graph.head)
                        THEN "GraphRejected" ELSE RoutError(graph.rout, graph.head)
  /\ UNCHANGED <<graph, signature, pc, steps, offset, end, candidates>>

RefuseWidth(s) ==
  /\ phase = "parsed"
  /\ Len(s) # graph.head.signature_words
  /\ candidates' = << >>
  /\ outcome' = "SignatureWidthMismatch"
  /\ UNCHANGED <<phase, graph, signature, pc, steps, offset, end>>

BeginRoute(s) ==
  /\ phase = "parsed"
  /\ Len(s) = graph.head.signature_words
  /\ phase' = "running"
  /\ signature' = s
  /\ candidates' = << >>
  /\ pc' = 1
  /\ steps' = 0
  /\ offset' = 0
  /\ end' = 0
  /\ UNCHANGED <<graph, outcome>>

(* The call returns an error.                                              *)
Fail(error) ==
  /\ phase' = "parsed"
  /\ outcome' = error
  /\ UNCHANGED <<graph, signature, pc, offset, end, candidates>>

(* Mutant: the length of the shortlist is not tested.                      *)
ShortlistUntested(from, to) ==
  /\ phase' = "shortlist"
  /\ offset' = from
  /\ end' = to
  /\ UNCHANGED <<graph, signature, pc, candidates, outcome>>

(* route_table over table[from .. to] begins with its length test.         *)
Shortlist(from, to) ==
  IF (to - from) % 4 # 0
  THEN Fail("RoutingTableMalformed")
  ELSE /\ phase' = "shortlist"
       /\ offset' = from
       /\ end' = to
       /\ UNCHANGED <<graph, signature, pc, candidates, outcome>>

-----------------------------------------------------------------------------
(* The fetch of the next operation: the step budget is tested before it.   *)
Current == Ops[pc]

Fetch(kinds, execution) ==
  /\ phase = "running"
  /\ pc <= Len(Ops)
  /\ Current.op \in kinds
  /\ IF steps >= graph.head.max_program_steps
     THEN Fail("RoutingProgramTooDeep") /\ UNCHANGED steps
     ELSE execution /\ steps' = steps + 1

GoTo(p) ==
  /\ pc' = p
  /\ UNCHANGED <<phase, graph, signature, offset, end, candidates, outcome>>

(* HALT retains from the whole table; what is no operation is an error.    *)
Halt ==
  Fetch({"Halt", "Unknown", "Truncated"},
    IF Current.op = "Halt" THEN Shortlist(0, graph.rout.table_bytes)
    ELSE Fail("UnknownRoutingOp"))

(* Mutant: a popcount that equals the threshold also skips.                *)
OverThresholdInclusive ==
  Cardinality(signature[Current.word + 1] \cap Current.mask) >= Current.threshold

(* The next operation is skipped when the popcount is over the threshold.  *)
OverThreshold ==
  Cardinality(signature[Current.word + 1] \cap Current.mask) > Current.threshold

TestPopcountLe ==
  Fetch({"TestPopcountLe"},
    GoTo(IF OverThreshold /\ pc + 1 <= Len(Ops) THEN pc + 2 ELSE pc + 1))

(* delta operations after the jump are skipped, none of them past the end. *)
JmpFwd ==
  Fetch({"JmpFwd"},
    IF pc + Current.delta <= Len(Ops) THEN GoTo(pc + 1 + Current.delta)
    ELSE Fail("RoutingProgramUnterminated"))

(* The range of a leaf is tested against the table again.                  *)
Leaf ==
  Fetch({"Leaf"},
    IF Current.start + Current.len <= graph.rout.table_bytes
    THEN Shortlist(Current.start, Current.start + Current.len)
    ELSE Fail("RoutingTableMalformed"))

(* A program that runs off its end retains from the whole table.           *)
RunOff ==
  /\ phase = "running"
  /\ pc > Len(Ops)
  /\ Shortlist(0, graph.rout.table_bytes)
  /\ UNCHANGED steps

-----------------------------------------------------------------------------
(* route_table: one entry of the shortlist.                                *)
Candidate == graph.rout.id_at[offset]

OnNode ==
  /\ phase = "shortlist"
  /\ offset < end
  /\ Candidate < Len(graph.nodes)

Accepts == NodeAccepts(graph, graph.nodes[Candidate + 1], signature)

NoSuchNode ==
  /\ phase = "shortlist"
  /\ offset < end
  /\ Candidate >= Len(graph.nodes)
  /\ Fail("RoutingCandidateOutOfBounds")
  /\ UNCHANGED steps

PassOver ==
  /\ OnNode
  /\ ~ Accepts
  /\ offset' = offset + 4
  /\ UNCHANGED <<phase, graph, signature, pc, steps, end, candidates, outcome>>

(* Mutant: the capacity test is off by one.                                *)
RetainOneMore ==
  /\ OnNode
  /\ Accepts
  /\ IF Len(candidates) <= RouteCapacity
     THEN /\ candidates' = Append(candidates, Candidate)
          /\ offset' = offset + 4
          /\ UNCHANGED <<phase, graph, signature, pc, end, outcome>>
     ELSE Fail("RouteCapacityExceeded")
  /\ UNCHANGED steps

Retain ==
  /\ OnNode
  /\ Accepts
  /\ IF Len(candidates) < RouteCapacity
     THEN /\ candidates' = Append(candidates, Candidate)
          /\ offset' = offset + 4
          /\ UNCHANGED <<phase, graph, signature, pc, end, outcome>>
     ELSE Fail("RouteCapacityExceeded")
  /\ UNCHANGED steps

FinishRoute ==
  /\ phase = "shortlist"
  /\ offset = end
  /\ phase' = "parsed"
  /\ outcome' = "Ok"
  /\ UNCHANGED <<graph, signature, pc, steps, offset, end, candidates>>

Execute == Halt \/ TestPopcountLe \/ JmpFwd \/ Leaf \/ RunOff
Inspect == NoSuchNode \/ PassOver \/ Retain \/ FinishRoute
RouteStep == Execute \/ Inspect

Next ==
  \/ Parse
  \/ \E s \in Signatures : RefuseWidth(s) \/ BeginRoute(s)
  \/ RouteStep

(* A route is one sequential call: once begun it runs to its return.       *)
Spec == Init /\ [][Next]_vars /\ WF_vars(RouteStep)

-----------------------------------------------------------------------------
Errors ==
  {"UnknownRoutingOp", "TruncatedRoutingOp", "RoutingProgramUnterminated",
   "RoutingProgramTooDeep", "RoutingOperandOutOfBounds", "RoutingJumpOutOfBounds",
   "RoutingShortlistOutOfBounds", "GraphRejected", "SignatureWidthMismatch",
   "RoutingTableMalformed", "RoutingCandidateOutOfBounds", "RouteCapacityExceeded"}

(* The types of the call's state; the candidates never outgrow CAPACITY.   *)
TypeOK ==
  /\ phase \in {"unparsed", "parsed", "running", "shortlist"}
  /\ graph \in Graphs
  /\ signature \in Seq(Word)
  /\ pc \in Nat
  /\ steps \in Nat
  /\ offset \in Nat
  /\ end \in Nat
  /\ candidates \in Seq(Nat) /\ Len(candidates) <= RouteCapacity
  /\ outcome \in Errors \cup {"Ok"}

(* What validation is for: once a graph is parsed, no signature drives its *)
(* program into the step budget, over its end in a jump, or onto a byte    *)
(* that is no operation, and every word an operation tests is a word of    *)
(* the signature.  Whatever the route, an operation runs at most once.     *)
ProgramStaysInBounds ==
  phase # "unparsed" =>
    /\ outcome \notin {"RoutingProgramTooDeep", "RoutingProgramUnterminated",
                       "UnknownRoutingOp"}
    /\ steps <= Len(Ops) /\ Len(Ops) <= graph.head.max_program_steps
    /\ phase = "running" /\ pc <= Len(Ops) /\ Current.op = "TestPopcountLe" =>
         Current.word + 1 \in 1 .. Len(signature)

(* The bytes a shortlist is read from are bytes of the table, in whole     *)
(* entries.                                                                *)
ShortlistInTable ==
  phase = "shortlist" =>
    /\ offset <= end /\ end <= graph.rout.table_bytes
    /\ (end - offset) % 4 = 0

-----------------------------------------------------------------------------
(* A route that succeeds retains exactly the candidates of the shortlist   *)
(* its program chooses for the signature, complete and in ROUT order, and  *)
(* nothing of an earlier route.                                            *)
RetainsTheShortlist ==
  phase = "parsed" /\ signature # << >> /\ outcome = "Ok" /\ steps > 0 =>
    candidates = Routed(graph, signature)
=============================================================================
