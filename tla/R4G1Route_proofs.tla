-------------------------- MODULE R4G1Route_proofs --------------------------
(***************************************************************************)
(* Proofs about R4G1Route for every set of graphs, every signature and     *)
(* every capacity: what parse accepts is what routing relies on.           *)
(***************************************************************************)
EXTENDS R4G1Route, TLAPS

Nothing(a, b, p, e) == p

Numbers ==
  INSTANCE RankedInsert_proofs WITH Capacity <- 0, Before <- LAMBDA x, y : x < y,
    Step <- Nothing

USE RouteCapacityAssumption, SignaturesAssumption, GraphsAssumption

(* The part of the state validation speaks about.                          *)
Validated ==
  IF phase = "unparsed" THEN steps = 0
  ELSE /\ GraphAccepted(graph)
       /\ steps <= Len(Ops)
       /\ outcome \notin {"RoutingProgramTooDeep", "RoutingProgramUnterminated",
                          "UnknownRoutingOp"}

(* The program counter only moves forward, so it stays ahead of the steps. *)
Running ==
  phase = "running" =>
    /\ pc \in 1 .. Len(Ops) + 1
    /\ steps < pc
    /\ Len(signature) = graph.head.signature_words

IInv == TypeOK /\ Validated /\ Running /\ ShortlistInTable

-----------------------------------------------------------------------------
(* The types of a graph the caller may hold.                               *)
LEMMA GraphFacts ==
  ASSUME NEW g \in Graphs
  PROVE  /\ g.head.max_program_steps \in Nat /\ g.head.signature_words \in Nat
         /\ Len(g.rout.ops) \in Nat /\ g.rout.table_bytes \in Nat
         /\ \A i \in 1 .. Len(g.rout.ops) : g.rout.ops[i] \in Op
         /\ \A o \in 0 .. g.rout.table_bytes - 4 : g.rout.id_at[o] \in Nat
<1>1. g.head \in HeadBounds /\ g.rout.ops \in Seq(Op)
  BY SMTT(30)
<1> QED BY <1>1, SMTT(30) DEF HeadBounds

(* The operands of an operation are natural numbers.                       *)
LEMMA OperandTypes ==
  ASSUME NEW op \in Op
  PROVE  /\ op.op = "TestPopcountLe" => op.word \in Nat
         /\ op.op = "JmpFwd" => op.delta \in Nat
         /\ op.op = "Leaf" => op.start \in Nat /\ op.len \in Nat
         /\ op.op \in {"Halt", "Unknown", "Truncated", "TestPopcountLe", "JmpFwd", "Leaf"}
BY DEF Op

(* What validate_rout promises about the program of an accepted graph.     *)
LEMMA AcceptedProgram ==
  ASSUME NEW g \in Graphs, GraphAccepted(g), NEW i \in 1 .. Len(g.rout.ops)
  PROVE  /\ Len(g.rout.ops) <= g.head.max_program_steps
         /\ g.rout.ops[i].op \notin {"Unknown", "Truncated"}
         /\ g.rout.ops[i].op = "TestPopcountLe" =>
              i < Len(g.rout.ops) /\ g.rout.ops[i].word < g.head.signature_words
         /\ g.rout.ops[i].op = "JmpFwd" =>
              i + 1 + g.rout.ops[i].delta <= Len(g.rout.ops)
<1> DEFINE op == g.rout.ops[i]
<1>1. RoutAccepted(g.rout, g.head)
  BY DEF GraphAccepted
<1>2. OperandError(op, i, g.rout, g.head) = "Ok"
  BY <1>1 DEF RoutAccepted, BadOperands
<1>3. op.op \notin {"Unknown", "Truncated"}
  <2>1. CASE i = Len(g.rout.ops)
    BY <2>1, <1>1 DEF RoutAccepted
  <2>2. CASE i # Len(g.rout.ops)
    BY <2>2, GraphFacts
  <2> QED BY <2>1, <2>2
<1>4. op \in Op /\ g.head.signature_words \in Nat /\ Len(g.rout.ops) \in Nat
  BY GraphFacts
<1>5. op.op = "TestPopcountLe" => ~ (op.word >= g.head.signature_words)
  BY <1>2 DEF OperandError
<1>6. op.op = "JmpFwd" => ~ (i + 1 + op.delta > Len(g.rout.ops))
  BY <1>2 DEF OperandError
<1>7. op.op = "TestPopcountLe" => i < Len(g.rout.ops)
  <2>1. i # Len(g.rout.ops) => i < Len(g.rout.ops)
    BY <1>4
  <2> QED BY <1>1, <2>1 DEF RoutAccepted
<1> HIDE DEF op
<1> QED BY <1>1, <1>3, <1>4, <1>5, <1>6, <1>7, OperandTypes DEF RoutAccepted, op

-----------------------------------------------------------------------------
LEMMA InitIInv == Init => IInv
BY DEF Init, IInv, TypeOK, Validated, Running, ShortlistInTable

(* A call that returns an error validation does not exclude.               *)
LEMMA FailStep ==
  ASSUME IInv, phase # "unparsed", steps' \in Nat, steps' <= Len(Ops),
         NEW error \in Errors \ {"RoutingProgramTooDeep", "RoutingProgramUnterminated",
                                  "UnknownRoutingOp"},
         Fail(error)
  PROVE  IInv'
<1>1. /\ phase' = "parsed" /\ outcome' = error
      /\ graph' = graph /\ signature' = signature /\ pc' = pc
      /\ offset' = offset /\ end' = end /\ candidates' = candidates
  BY DEF Fail
<1>2. TypeOK'
  BY <1>1 DEF IInv, TypeOK
<1>3. Validated'
  BY <1>1 DEF IInv, Validated, Ops
<1> QED BY <1>1, <1>2, <1>3 DEF IInv, Running, ShortlistInTable

(* A program that names a range of the table.                              *)
LEMMA ShortlistStep ==
  ASSUME IInv, phase = "running", steps' \in Nat, steps' <= Len(Ops),
         NEW from \in Nat, NEW to \in Nat, from <= to, to <= graph.rout.table_bytes,
         Shortlist(from, to)
  PROVE  IInv'
<1>1. CASE (to - from) % 4 # 0
  <2>1. Fail("RoutingTableMalformed")
    BY <1>1 DEF Shortlist
  <2> QED BY <2>1, FailStep DEF Errors
<1>2. CASE (to - from) % 4 = 0
  <2>1. /\ phase' = "shortlist" /\ offset' = from /\ end' = to
        /\ graph' = graph /\ signature' = signature /\ pc' = pc
        /\ candidates' = candidates /\ outcome' = outcome
    BY <1>2 DEF Shortlist
  <2>2. TypeOK'
    BY <2>1 DEF IInv, TypeOK
  <2>3. Validated'
    BY <2>1 DEF IInv, Validated, Ops
  <2>4. ShortlistInTable'
    BY <2>1, <1>2 DEF ShortlistInTable
  <2> QED BY <2>1, <2>2, <2>3, <2>4 DEF IInv, Running
<1> QED BY <1>1, <1>2

(* The program goes on at a later operation.                               *)
LEMMA GoToStep ==
  ASSUME IInv, phase = "running", pc <= Len(Ops), steps' = steps + 1,
         NEW p \in 1 .. Len(Ops) + 1, pc < p, GoTo(p)
  PROVE  IInv'
<1>1. /\ pc' = p /\ phase' = "running" /\ graph' = graph /\ signature' = signature
      /\ offset' = offset /\ end' = end /\ candidates' = candidates
      /\ outcome' = outcome
  BY DEF GoTo
<1>2. /\ steps \in Nat /\ steps < pc /\ pc \in Nat /\ graph \in Graphs
      /\ Len(signature) = graph.head.signature_words
  BY DEF IInv, TypeOK, Running
<1>3. Len(Ops) \in Nat
  BY <1>2, GraphFacts DEF Ops
<1>4. TypeOK'
  BY <1>1, <1>2, <1>3 DEF IInv, TypeOK
<1>5. Validated'
  BY <1>1, <1>2, <1>3 DEF IInv, Validated, Ops
<1>6. Running'
  BY <1>1, <1>2, <1>3 DEF Running, Ops
<1> QED BY <1>1, <1>4, <1>5, <1>6 DEF IInv, ShortlistInTable

-----------------------------------------------------------------------------
(* The error of a refused program is one parse can return.                 *)
LEMMA RoutErrorType ==
  ASSUME NEW g \in Graphs
  PROVE  RoutError(g.rout, g.head) \in Errors \cup {"Ok"}
<1> DEFINE last == IF g.rout.ops = << >> THEN "none" ELSE g.rout.ops[Len(g.rout.ops)].op
           first == Min(BadOperands(g.rout, g.head))
<1>1. last \in {"none", "Halt", "Unknown", "Truncated", "TestPopcountLe", "JmpFwd", "Leaf"}
  <2>1. CASE g.rout.ops = << >>
    BY <2>1
  <2>2. CASE g.rout.ops # << >>
    <3>1. Len(g.rout.ops) \in 1 .. Len(g.rout.ops)
      BY <2>2
    <3> QED BY <3>1, <2>2, GraphFacts, OperandTypes
  <2> QED BY <2>1, <2>2
<1>2. OperandError(g.rout.ops[first], first, g.rout, g.head) \in Errors \cup {"Ok"}
  BY DEF OperandError, Errors
<1>3. RoutError(g.rout, g.head) \in
        {"UnknownRoutingOp", "TruncatedRoutingOp", "RoutingProgramUnterminated",
         "RoutingProgramTooDeep", OperandError(g.rout.ops[first], first, g.rout, g.head)}
  <2> HIDE DEF first
  <2> QED BY <1>1 DEF RoutError, first
<1> QED BY <1>2, <1>3 DEF Errors

LEMMA ParseStep ==
  ASSUME IInv, Parse
  PROVE  IInv'
<1>1. /\ graph' = graph /\ signature' = signature /\ pc' = pc /\ steps' = steps
      /\ offset' = offset /\ end' = end /\ candidates' = candidates
      /\ phase = "unparsed" /\ steps = 0 /\ graph \in Graphs
  BY DEF Parse, IInv, Validated, TypeOK
<1>2. CASE GraphAccepted(graph)
  <2>1. phase' = "parsed" /\ outcome' = "Ok"
    BY <1>2 DEF Parse
  <2>2. TypeOK'
    BY <1>1, <2>1 DEF IInv, TypeOK
  <2>3. Validated'
    BY <1>1, <1>2, <2>1, GraphFacts DEF Validated, Ops
  <2> QED BY <2>1, <2>2, <2>3 DEF IInv, Running, ShortlistInTable
<1>3. CASE ~ GraphAccepted(graph)
  <2>1. /\ phase' = "unparsed"
        /\ outcome' \in {"GraphRejected", RoutError(graph.rout, graph.head)}
    BY <1>3 DEF Parse
  <2>2. outcome' \in Errors \cup {"Ok"}
    BY <1>1, <2>1, RoutErrorType DEF Errors
  <2>3. TypeOK'
    BY <1>1, <2>1, <2>2 DEF IInv, TypeOK
  <2> QED BY <1>1, <2>1, <2>3 DEF IInv, Validated, Running, ShortlistInTable
<1> QED BY <1>2, <1>3

LEMMA RefuseWidthStep ==
  ASSUME IInv, NEW s \in Signatures, RefuseWidth(s)
  PROVE  IInv'
<1>1. /\ phase = "parsed" /\ phase' = "parsed" /\ graph' = graph
      /\ signature' = signature /\ pc' = pc /\ steps' = steps
      /\ offset' = offset /\ end' = end /\ candidates' = << >>
      /\ outcome' = "SignatureWidthMismatch"
  BY DEF RefuseWidth
<1>2. TypeOK'
  BY <1>1 DEF IInv, TypeOK, Errors
<1>3. Validated'
  BY <1>1 DEF IInv, Validated, Ops
<1> QED BY <1>1, <1>2, <1>3 DEF IInv, Running, ShortlistInTable

LEMMA BeginRouteStep ==
  ASSUME IInv, NEW s \in Signatures, BeginRoute(s)
  PROVE  IInv'
<1>1. /\ phase = "parsed" /\ phase' = "running" /\ graph' = graph
      /\ signature' = s /\ Len(s) = graph.head.signature_words
      /\ pc' = 1 /\ steps' = 0 /\ offset' = 0 /\ end' = 0
      /\ candidates' = << >> /\ outcome' = outcome
  BY DEF BeginRoute
<1>2. Len(Ops) \in Nat
  BY GraphFacts DEF IInv, TypeOK, Ops
<1>3. TypeOK'
  BY <1>1 DEF IInv, TypeOK
<1>4. Validated'
  BY <1>1, <1>2 DEF IInv, Validated, Ops
<1>5. Running'
  BY <1>1, <1>2 DEF Running, Ops
<1> QED BY <1>1, <1>3, <1>4, <1>5 DEF IInv, ShortlistInTable

-----------------------------------------------------------------------------
(* What every fetch finds: the budget is never spent, and the operation    *)
(* is one that was validated.                                              *)
LEMMA FetchFacts ==
  ASSUME IInv, phase = "running", pc <= Len(Ops)
  PROVE  /\ ~ (steps >= graph.head.max_program_steps)
         /\ steps \in Nat /\ steps + 1 <= Len(Ops)
         /\ pc \in 1 .. Len(Ops) /\ Len(Ops) \in Nat /\ graph.rout.table_bytes \in Nat
         /\ Current \in Op /\ Current.op \notin {"Unknown", "Truncated"}
         /\ Current.op = "JmpFwd" => pc + 1 + Current.delta <= Len(Ops)
         /\ Current.op = "TestPopcountLe" => Current.word < graph.head.signature_words
<1>1. /\ graph \in Graphs /\ steps \in Nat /\ steps < pc /\ pc \in 1 .. Len(Ops) + 1
      /\ GraphAccepted(graph)
  BY DEF IInv, TypeOK, Running, Validated
<1>2. /\ Len(Ops) \in Nat /\ graph.rout.table_bytes \in Nat
      /\ graph.head.max_program_steps \in Nat
  BY <1>1, GraphFacts DEF Ops
<1>3. pc \in 1 .. Len(Ops)
  BY <1>1, <1>2
<1>4. /\ Len(Ops) <= graph.head.max_program_steps /\ Current \in Op
      /\ Current.op \notin {"Unknown", "Truncated"}
      /\ Current.op = "JmpFwd" => pc + 1 + Current.delta <= Len(Ops)
      /\ Current.op = "TestPopcountLe" => Current.word < graph.head.signature_words
  BY <1>1, <1>3, GraphFacts, AcceptedProgram DEF Current, Ops
<1>5. ~ (steps >= graph.head.max_program_steps) /\ steps + 1 <= Len(Ops)
  BY <1>1, <1>2, <1>3, <1>4
<1> QED BY <1>1, <1>2, <1>3, <1>4, <1>5

LEMMA HaltStep ==
  ASSUME IInv, Halt
  PROVE  IInv'
<1>1. /\ phase = "running" /\ pc <= Len(Ops)
      /\ Current.op \in {"Halt", "Unknown", "Truncated"}
  BY DEF Halt, Fetch
<1>2. /\ ~ (steps >= graph.head.max_program_steps) /\ steps \in Nat
      /\ steps + 1 <= Len(Ops) /\ Current.op = "Halt" /\ graph.rout.table_bytes \in Nat
  BY <1>1, FetchFacts
<1>3. Shortlist(0, graph.rout.table_bytes) /\ steps' = steps + 1
  BY <1>2 DEF Halt, Fetch
<1> QED BY <1>1, <1>2, <1>3, ShortlistStep

LEMMA TestPopcountLeStep ==
  ASSUME IInv, TestPopcountLe
  PROVE  IInv'
<1> DEFINE next == IF OverThreshold /\ pc + 1 <= Len(Ops) THEN pc + 2 ELSE pc + 1
<1>1. phase = "running" /\ pc <= Len(Ops)
  BY DEF TestPopcountLe, Fetch
<1>2. /\ ~ (steps >= graph.head.max_program_steps)
      /\ pc \in 1 .. Len(Ops) /\ Len(Ops) \in Nat
  BY <1>1, FetchFacts
<1>3. GoTo(next) /\ steps' = steps + 1
  BY <1>2 DEF TestPopcountLe, Fetch
<1>4. next \in 1 .. Len(Ops) + 1 /\ pc < next
  BY <1>2
<1> HIDE DEF next
<1> QED BY <1>1, <1>3, <1>4, GoToStep

LEMMA JmpFwdStep ==
  ASSUME IInv, JmpFwd
  PROVE  IInv'
<1>1. phase = "running" /\ pc <= Len(Ops) /\ Current.op = "JmpFwd"
  BY DEF JmpFwd, Fetch
<1>2. /\ ~ (steps >= graph.head.max_program_steps)
      /\ pc \in 1 .. Len(Ops) /\ Len(Ops) \in Nat
      /\ Current \in Op /\ pc + 1 + Current.delta <= Len(Ops)
  BY <1>1, FetchFacts
<1>3. Current.delta \in Nat
  BY <1>1, <1>2, OperandTypes
<1>4. pc + Current.delta <= Len(Ops) /\ pc + 1 + Current.delta \in 1 .. Len(Ops) + 1
      /\ pc < pc + 1 + Current.delta
  BY <1>2, <1>3
<1>5. GoTo(pc + 1 + Current.delta) /\ steps' = steps + 1
  BY <1>2, <1>4 DEF JmpFwd, Fetch
<1> QED BY <1>1, <1>4, <1>5, GoToStep

LEMMA LeafStep ==
  ASSUME IInv, Leaf
  PROVE  IInv'
<1>1. phase = "running" /\ pc <= Len(Ops) /\ Current.op = "Leaf"
  BY DEF Leaf, Fetch
<1>2. /\ ~ (steps >= graph.head.max_program_steps)
      /\ steps \in Nat /\ steps + 1 <= Len(Ops)
      /\ Current \in Op /\ graph.rout.table_bytes \in Nat
  BY <1>1, FetchFacts
<1>3. Current.start \in Nat /\ Current.len \in Nat
  BY <1>1, <1>2, OperandTypes
<1>4. steps' = steps + 1 /\ steps' \in Nat /\ steps' <= Len(Ops)
  BY <1>2 DEF Leaf, Fetch
<1>5. CASE Current.start + Current.len <= graph.rout.table_bytes
  <2>1. Shortlist(Current.start, Current.start + Current.len)
    BY <1>2, <1>5 DEF Leaf, Fetch
  <2>2. /\ Current.start + Current.len \in Nat
        /\ Current.start <= Current.start + Current.len
    BY <1>3
  <2> QED BY <1>1, <1>3, <1>4, <1>5, <2>1, <2>2, ShortlistStep
<1>6. CASE ~ (Current.start + Current.len <= graph.rout.table_bytes)
  <2>1. Fail("RoutingTableMalformed")
    BY <1>2, <1>6 DEF Leaf, Fetch
  <2> QED BY <1>1, <1>4, <2>1, FailStep DEF Errors
<1> QED BY <1>5, <1>6

LEMMA RunOffStep ==
  ASSUME IInv, RunOff
  PROVE  IInv'
<1>1. phase = "running" /\ Shortlist(0, graph.rout.table_bytes) /\ steps' = steps
  BY DEF RunOff
<1>2. graph.rout.table_bytes \in Nat /\ steps' \in Nat /\ steps' <= Len(Ops)
  BY <1>1, GraphFacts DEF IInv, TypeOK, Validated, Ops
<1> QED BY <1>1, <1>2, ShortlistStep

-----------------------------------------------------------------------------
(* The multiples of four below a positive one.                             *)
LEMMA NextMultiple ==
  ASSUME NEW d \in Nat, d > 0, d % 4 = 0
  PROVE  d >= 4 /\ (d - 4) % 4 = 0
OBVIOUS

(* An entry that is read lies in the table.                                *)
LEMMA EntryFacts ==
  ASSUME IInv, phase = "shortlist", offset < end
  PROVE  /\ Candidate \in Nat
         /\ offset + 4 <= end /\ (end - (offset + 4)) % 4 = 0
<1>1. /\ graph \in Graphs /\ offset \in Nat /\ end \in Nat
      /\ end <= graph.rout.table_bytes /\ (end - offset) % 4 = 0
  BY DEF IInv, TypeOK, ShortlistInTable
<1>2. offset + 4 <= end /\ (end - (offset + 4)) % 4 = 0
  <2>1. end - offset \in Nat /\ end - offset > 0
    BY <1>1
  <2>2. end - offset >= 4 /\ ((end - offset) - 4) % 4 = 0
    BY <1>1, <2>1, NextMultiple
  <2>3. (end - offset) - 4 = end - (offset + 4)
    BY <1>1
  <2> QED BY <1>1, <2>2, <2>3
<1>3. offset \in 0 .. graph.rout.table_bytes - 4
  BY <1>1, <1>2, GraphFacts
<1> QED BY <1>1, <1>2, <1>3, GraphFacts DEF Candidate

LEMMA NoSuchNodeStep ==
  ASSUME IInv, NoSuchNode
  PROVE  IInv'
<1>1. phase = "shortlist" /\ Fail("RoutingCandidateOutOfBounds") /\ steps' = steps
  BY DEF NoSuchNode
<1>2. steps' \in Nat /\ steps' <= Len(Ops)
  BY <1>1 DEF IInv, TypeOK, Validated
<1> QED BY <1>1, <1>2, FailStep DEF Errors

(* The walk goes on at the next entry.                                     *)
LEMMA AdvanceStep ==
  ASSUME IInv, phase = "shortlist", offset < end,
         candidates' \in Seq(Nat), Len(candidates') <= RouteCapacity,
         offset' = offset + 4,
         UNCHANGED <<phase, graph, signature, pc, steps, end, outcome>>
  PROVE  IInv'
<1>1. TypeOK'
  BY DEF IInv, TypeOK
<1>2. Validated'
  BY DEF IInv, Validated, Ops
<1>3. ShortlistInTable'
  BY EntryFacts DEF IInv, ShortlistInTable
<1> QED BY <1>1, <1>2, <1>3 DEF IInv, Running

LEMMA PassOverStep ==
  ASSUME IInv, PassOver
  PROVE  IInv'
<1>1. candidates' \in Seq(Nat) /\ Len(candidates') <= RouteCapacity
  BY DEF IInv, TypeOK, PassOver
<1> QED BY <1>1, AdvanceStep DEF PassOver, OnNode

LEMMA RetainStep ==
  ASSUME IInv, Retain
  PROVE  IInv'
<1>1. phase = "shortlist" /\ offset < end /\ steps' = steps
  BY DEF Retain, OnNode
<1>2. CASE Len(candidates) < RouteCapacity
  <2>1. candidates' = Append(candidates, Candidate) /\ offset' = offset + 4
        /\ UNCHANGED <<phase, graph, signature, pc, end, outcome>>
    BY <1>2 DEF Retain
  <2>2. candidates \in Seq(Nat) /\ Candidate \in Nat
    BY <1>1, EntryFacts DEF IInv, TypeOK
  <2>3. candidates' \in Seq(Nat) /\ Len(candidates') = Len(candidates) + 1
    BY <2>1, <2>2
  <2>4. Len(candidates') <= RouteCapacity
    BY <1>2, <2>2, <2>3
  <2> QED BY <1>1, <2>1, <2>3, <2>4, AdvanceStep
<1>3. CASE ~ (Len(candidates) < RouteCapacity)
  <2>1. Fail("RouteCapacityExceeded")
    BY <1>3 DEF Retain
  <2>2. steps' \in Nat /\ steps' <= Len(Ops)
    BY <1>1 DEF IInv, TypeOK, Validated
  <2> QED BY <1>1, <2>1, <2>2, FailStep DEF Errors
<1> QED BY <1>2, <1>3

LEMMA FinishRouteStep ==
  ASSUME IInv, FinishRoute
  PROVE  IInv'
<1>1. /\ phase = "shortlist" /\ phase' = "parsed" /\ outcome' = "Ok"
      /\ UNCHANGED <<graph, signature, pc, steps, offset, end, candidates>>
  BY DEF FinishRoute
<1>2. TypeOK'
  BY <1>1 DEF IInv, TypeOK
<1>3. Validated'
  BY <1>1 DEF IInv, Validated, Ops
<1> QED BY <1>1, <1>2, <1>3 DEF IInv, Running, ShortlistInTable

LEMMA NextIInv == IInv /\ [Next]_vars => IInv'
<1> SUFFICES ASSUME IInv, [Next]_vars PROVE IInv'
  OBVIOUS
<1>1. CASE Parse
  BY <1>1, ParseStep
<1>2. CASE \E s \in Signatures : RefuseWidth(s) \/ BeginRoute(s)
  BY <1>2, RefuseWidthStep, BeginRouteStep
<1>3. CASE Execute
  BY <1>3, HaltStep, TestPopcountLeStep, JmpFwdStep, LeafStep, RunOffStep DEF Execute
<1>4. CASE Inspect
  BY <1>4, NoSuchNodeStep, PassOverStep, RetainStep, FinishRouteStep DEF Inspect
<1>5. CASE UNCHANGED vars
  BY <1>5 DEF vars, IInv, TypeOK, Validated, Running, ShortlistInTable, Ops
<1> QED BY <1>1, <1>2, <1>3, <1>4, <1>5 DEF Next, RouteStep

THEOREM RouteInvariant == Spec => []IInv
BY InitIInv, NextIInv, PTL DEF Spec

(* The call's state keeps its types, and the candidates never outgrow the  *)
(* capacity of R4G1RouteCandidates, whatever the table holds.              *)
THEOREM RouteTypes == Spec => []TypeOK
<1>1. IInv => TypeOK
  BY DEF IInv
<1> QED BY <1>1, RouteInvariant, PTL

(* No signature drives the program of a parsed graph into the step budget, *)
(* over its end in a jump, onto a byte that is no operation, or to a word  *)
(* the signature does not have: the checks of route repeat validate_rout's.*)
THEOREM ProgramNeverLeavesItsBounds == Spec => []ProgramStaysInBounds
<1>1. IInv => ProgramStaysInBounds
  <2> SUFFICES ASSUME IInv, phase # "unparsed" PROVE ProgramStaysInBounds
    BY DEF ProgramStaysInBounds
  <2>1. /\ graph \in Graphs /\ GraphAccepted(graph) /\ steps <= Len(Ops)
        /\ outcome \notin {"RoutingProgramTooDeep", "RoutingProgramUnterminated",
                           "UnknownRoutingOp"}
    BY DEF IInv, TypeOK, Validated
  <2>2. Len(Ops) <= graph.head.max_program_steps
    BY <2>1 DEF GraphAccepted, RoutAccepted, Ops
  <2>3. ASSUME phase = "running", pc <= Len(Ops), Current.op = "TestPopcountLe"
        PROVE  Current.word + 1 \in 1 .. Len(signature)
    <3>1. Current \in Op /\ Current.word < graph.head.signature_words
      BY <2>3, FetchFacts
    <3>2. Current.word \in Nat /\ Len(signature) = graph.head.signature_words
      BY <2>3, <3>1, OperandTypes DEF IInv, Running
    <3> QED BY <2>1, <3>1, <3>2, GraphFacts
  <2> QED BY <2>1, <2>2, <2>3 DEF ProgramStaysInBounds
<1> QED BY <1>1, RouteInvariant, PTL

(* The bytes route_table reads are bytes of the table, in whole entries.   *)
THEOREM ShortlistStaysInTable == Spec => []ShortlistInTable
<1>1. IInv => ShortlistInTable
  BY DEF IInv
<1> QED BY <1>1, RouteInvariant, PTL

-----------------------------------------------------------------------------
(* The range of the table a program chooses from an operation on, by the   *)
(* ranges it chooses from the later ones.                                  *)
WholeTable(g) == <<0, g.rout.table_bytes>>

ChoiceAt(f, g, s, p) ==
  IF p > Len(g.rout.ops) THEN WholeTable(g)
  ELSE CASE g.rout.ops[p].op = "JmpFwd" -> f[p + 1 + g.rout.ops[p].delta]
         [] g.rout.ops[p].op = "Halt" -> WholeTable(g)
         [] g.rout.ops[p].op = "Leaf" ->
              <<g.rout.ops[p].start, g.rout.ops[p].start + g.rout.ops[p].len>>
         [] g.rout.ops[p].op = "TestPopcountLe" ->
              IF Cardinality(s[g.rout.ops[p].word + 1] \cap g.rout.ops[p].mask)
                   > g.rout.ops[p].threshold
              THEN f[p + 2] ELSE f[p + 1]

IsChoice(f, g, s) == f = [p \in 1 .. Len(g.rout.ops) + 1 |-> ChoiceAt(f, g, s, p)]
ChoiceOf(g, s) == CHOOSE f : IsChoice(f, g, s)

LEMMA ChosenIs ==
  ASSUME NEW g, NEW s
  PROVE  Chosen(g, s) = ChoiceOf(g, s)[1]
BY DEF Chosen, ChoiceOf, IsChoice, ChoiceAt, WholeTable

(* Two functions that agree on the later operations choose alike.          *)
LEMMA ChoiceLooksAhead ==
  ASSUME NEW g \in Graphs, GraphAccepted(g), NEW s, NEW p \in 1 .. Len(g.rout.ops) + 1,
         NEW f, NEW h,
         \A q \in p + 1 .. Len(g.rout.ops) + 1 : f[q] = h[q]
  PROVE  ChoiceAt(f, g, s, p) = ChoiceAt(h, g, s, p)
<1> DEFINE n == Len(g.rout.ops)
           op == g.rout.ops[p]
<1>1. n \in Nat
  BY GraphFacts
<1>2. CASE p > n
  BY <1>2 DEF ChoiceAt
<1>3. CASE ~ p > n
  <2>1. /\ p \in 1 .. n /\ op \in Op
        /\ op.op = "JmpFwd" => op.delta \in Nat /\ p + 1 + op.delta <= n
        /\ op.op = "TestPopcountLe" => p < n
        /\ op.op \in {"Halt", "Leaf", "JmpFwd", "TestPopcountLe"}
    <3>1. p \in 1 .. n
      BY <1>1, <1>3
    <3> QED BY <3>1, GraphFacts, OperandTypes, AcceptedProgram
  <2>2. op.op = "JmpFwd" => f[p + 1 + op.delta] = h[p + 1 + op.delta]
    <3>1. op.op = "JmpFwd" => p + 1 + op.delta \in p + 1 .. n + 1
      BY <1>1, <2>1
    <3> QED BY <3>1
  <2>3. op.op = "TestPopcountLe" => f[p + 1] = h[p + 1] /\ f[p + 2] = h[p + 2]
    <3>1. op.op = "TestPopcountLe" => p + 1 \in p + 1 .. n + 1 /\ p + 2 \in p + 1 .. n + 1
      BY <1>1, <2>1
    <3> QED BY <3>1
  <2>4. CASE op.op = "JmpFwd"
    BY <1>3, <2>2, <2>4 DEF ChoiceAt
  <2>5. CASE op.op = "TestPopcountLe"
    BY <1>3, <2>3, <2>5 DEF ChoiceAt
  <2>6. CASE op.op \in {"Halt", "Leaf"}
    BY <1>3, <2>6 DEF ChoiceAt
  <2> QED BY <2>1, <2>4, <2>5, <2>6
<1> QED BY <1>2, <1>3

(* Jumps go forward, so the choice is defined from the end of the program. *)
LEMMA ChoiceExists ==
  ASSUME NEW g \in Graphs, GraphAccepted(g), NEW s
  PROVE  \E f : IsChoice(f, g, s)
<1> DEFINE n == Len(g.rout.ops)
           Right(h, k) == \A p \in n + 1 - k .. n + 1 : h[p] = ChoiceAt(h, g, s, p)
           Defined(k) == \E h : Right(h, k)
           Wrong == {k \in 0 .. n : ~ Defined(k)}
<1>1. n \in Nat
  BY GraphFacts
<1>2. Wrong = {}
  <2> SUFFICES ASSUME Wrong # {} PROVE FALSE
    OBVIOUS
  <2>1. PICK k \in Wrong : \A j \in Wrong : k <= j
    <3>1. Wrong \in SUBSET Nat
      BY <1>1
    <3> HIDE DEF Wrong
    <3> QED BY <3>1, Numbers!NatHasMin
  <2>2. k \in 0 .. n
    BY <2>1
  <2>3. \A h : ~ Right(h, k)
    BY <2>1
  <2>6. \A j \in 0 .. n : j < k => Defined(j)
    <3> HIDE DEF Defined
    <3> QED BY <2>1, <2>2, <1>1
  <2>4. CASE k = 0
    <3> DEFINE h == [p \in {n + 1} |-> WholeTable(g)]
    <3>1. h[n + 1] = ChoiceAt(h, g, s, n + 1)
      <4>1. h[n + 1] = WholeTable(g)
        OBVIOUS
      <4> HIDE DEF h
      <4>2. n + 1 > Len(g.rout.ops)
        BY <1>1
      <4>3. ChoiceAt(h, g, s, n + 1) = WholeTable(g)
        <5> HIDE DEF n
        <5> QED BY <4>2 DEF ChoiceAt
      <4> QED BY <4>1, <4>3
    <3>2. \A p \in n + 1 - k .. n + 1 : p = n + 1
      BY <1>1, <2>4
    <3> HIDE DEF h
    <3>3. Right(h, k)
      BY <3>1, <3>2
    <3> QED BY <2>3, <3>3
  <2>5. CASE k # 0
    <3>1. k - 1 \in 0 .. n /\ k - 1 < k
      BY <2>2, <2>5, <1>1
    <3>2. PICK h : Right(h, k - 1)
      BY <2>6, <3>1
    <3> DEFINE m == n + 1 - k
               here == ChoiceAt(h, g, s, m)
               f == [p \in m .. n + 1 |-> IF p = m THEN here ELSE h[p]]
    <3>3. m \in 1 .. n /\ n + 1 - (k - 1) = m + 1
      BY <1>1, <2>2, <2>5
    <3>4. \A p \in m .. n + 1 : f[p] = IF p = m THEN here ELSE h[p]
      OBVIOUS
    <3>5. \A p \in m + 1 .. n + 1 : h[p] = ChoiceAt(h, g, s, p)
      BY <3>2, <3>3
    <3> HIDE DEF f, here, m
    <3>6. \A p \in m .. n + 1 : ChoiceAt(f, g, s, p) = ChoiceAt(h, g, s, p)
      <4> SUFFICES ASSUME NEW p \in m .. n + 1
                   PROVE  ChoiceAt(f, g, s, p) = ChoiceAt(h, g, s, p)
        OBVIOUS
      <4>1. p \in 1 .. n + 1
        BY <1>1, <3>3
      <4>2. \A q \in p + 1 .. n + 1 : f[q] = h[q]
        BY <1>1, <3>3, <3>4
      <4> QED BY <4>1, <4>2, ChoiceLooksAhead
    <3>7. \A p \in m .. n + 1 : f[p] = ChoiceAt(f, g, s, p)
      <4> SUFFICES ASSUME NEW p \in m .. n + 1 PROVE f[p] = ChoiceAt(f, g, s, p)
        OBVIOUS
      <4>1. CASE p = m
        BY <3>4, <3>6, <4>1 DEF here
      <4>2. CASE p # m
        <5>1. p \in m + 1 .. n + 1
          BY <1>1, <3>3, <4>2
        <5> QED BY <3>4, <3>5, <3>6, <4>2, <5>1
      <4> QED BY <4>1, <4>2
    <3>8. Right(f, k)
      BY <3>7 DEF m
    <3> QED BY <2>3, <3>8
  <2> QED BY <2>4, <2>5
<1>3. PICK h : Right(h, n)
  <2>1. Defined(n)
    <3> HIDE DEF Defined
    <3> QED BY <1>1, <1>2
  <2> QED BY <2>1
<1> DEFINE f == [p \in 1 .. n + 1 |-> h[p]]
<1>4. \A p \in 1 .. n + 1 : f[p] = h[p] /\ h[p] = ChoiceAt(h, g, s, p)
  BY <1>1, <1>3
<1>5. \A p \in 1 .. n + 1 : ChoiceAt(f, g, s, p) = ChoiceAt(h, g, s, p)
  <2> SUFFICES ASSUME NEW p \in 1 .. n + 1
               PROVE  ChoiceAt(f, g, s, p) = ChoiceAt(h, g, s, p)
    OBVIOUS
  <2>1. \A q \in p + 1 .. n + 1 : f[q] = h[q]
    BY <1>1, <1>4
  <2> HIDE DEF f
  <2> QED BY <2>1, ChoiceLooksAhead
<1>6. f = [p \in 1 .. n + 1 |-> ChoiceAt(f, g, s, p)]
  BY <1>4, <1>5
<1> HIDE DEF f
<1> QED BY <1>6 DEF IsChoice

LEMMA ChoiceIs ==
  ASSUME NEW g \in Graphs, GraphAccepted(g), NEW s,
         NEW p \in 1 .. Len(g.rout.ops) + 1
  PROVE  ChoiceOf(g, s)[p] = ChoiceAt(ChoiceOf(g, s), g, s, p)
<1>1. IsChoice(ChoiceOf(g, s), g, s)
  BY ChoiceExists DEF ChoiceOf
<1> DEFINE f == ChoiceOf(g, s)
<1>2. f = [q \in 1 .. Len(g.rout.ops) + 1 |-> ChoiceAt(f, g, s, q)]
  BY <1>1 DEF IsChoice
<1> HIDE DEF f
<1> QED BY <1>2 DEF f

(* The same for the entries picked from a list.                            *)
PickAt(f, list, positions, k) ==
  IF k = 0 THEN << >>
  ELSE IF k \in positions THEN Append(f[k - 1], list[k]) ELSE f[k - 1]

IsPick(f, list, positions) == f = [k \in 0 .. Len(list) |-> PickAt(f, list, positions, k)]
PickOf(list, positions) == CHOOSE f : IsPick(f, list, positions)

LEMMA PickedIs ==
  ASSUME NEW list, NEW positions
  PROVE  Picked(list, positions) = PickOf(list, positions)[Len(list)]
BY DEF Picked, PickOf, IsPick, PickAt

LEMMA PickExists ==
  ASSUME NEW list, NEW positions, Len(list) \in Nat
  PROVE  \E f : IsPick(f, list, positions)
<1> DEFINE n == Len(list)
           Right(h, k) == \A i \in 0 .. k : h[i] = PickAt(h, list, positions, i)
           Defined(k) == \E h : Right(h, k)
           Wrong == {k \in 0 .. n : ~ Defined(k)}
<1>1. \A f, h : \A k \in Nat : (\A i \in Nat : i < k => f[i] = h[i]) =>
        PickAt(f, list, positions, k) = PickAt(h, list, positions, k)
  <2> SUFFICES ASSUME NEW f, NEW h, NEW k \in Nat, \A i \in Nat : i < k => f[i] = h[i]
               PROVE  PickAt(f, list, positions, k) = PickAt(h, list, positions, k)
    OBVIOUS
  <2>1. CASE k = 0
    BY <2>1 DEF PickAt
  <2>2. CASE k # 0
    <3>1. k - 1 \in Nat /\ k - 1 < k
      BY <2>2
    <3>2. f[k - 1] = h[k - 1]
      BY <3>1
    <3> QED BY <2>2, <3>2 DEF PickAt
  <2> QED BY <2>1, <2>2
<1>2. Wrong = {}
  <2> SUFFICES ASSUME Wrong # {} PROVE FALSE
    OBVIOUS
  <2>1. PICK k \in Wrong : \A j \in Wrong : k <= j
    <3>1. Wrong \in SUBSET Nat
      OBVIOUS
    <3> HIDE DEF Wrong
    <3> QED BY <3>1, Numbers!NatHasMin
  <2>2. k \in 0 .. n /\ ~ Defined(k)
    <3> HIDE DEF Defined
    <3> QED BY <2>1
  <2>3. \A j \in 0 .. n : j < k => Defined(j)
    <3> HIDE DEF Defined
    <3> QED BY <2>1, <2>2
  <2>4. CASE k = 0
    <3> DEFINE h == [i \in {0} |-> << >>]
    <3>1. h[0] = << >>
      OBVIOUS
    <3> HIDE DEF h
    <3>2. h[0] = PickAt(h, list, positions, 0)
      BY <3>1 DEF PickAt
    <3>3. Right(h, k)
      BY <2>4, <3>2
    <3> QED BY <2>2, <3>3
  <2>5. CASE k # 0
    <3>1. k - 1 \in 0 .. n /\ k - 1 < k
      BY <2>2, <2>5
    <3>2. PICK h : Right(h, k - 1)
      BY <2>3, <3>1
    <3> DEFINE here == PickAt(h, list, positions, k)
               f == [i \in 0 .. k |-> IF i = k THEN here ELSE h[i]]
    <3>3. \A i \in 0 .. k : f[i] = IF i = k THEN here ELSE h[i]
      OBVIOUS
    <3> HIDE DEF f, here
    <3>4. ASSUME NEW i \in 0 .. k PROVE PickAt(f, list, positions, i) = PickAt(h, list, positions, i)
      <4>1. \A j \in Nat : j < i => f[j] = h[j]
        BY <2>2, <3>3
      <4> QED BY <1>1, <2>2, <4>1
    <3>5. ASSUME NEW i \in 0 .. k PROVE f[i] = PickAt(f, list, positions, i)
      <4>1. CASE i = k
        BY <3>3, <3>4, <4>1 DEF here
      <4>2. CASE i # k
        <5>1. i \in 0 .. k - 1
          BY <2>2, <4>2
        <5> QED BY <3>2, <3>3, <3>4, <4>2, <5>1
      <4> QED BY <4>1, <4>2
    <3>6. Right(f, k)
      BY <3>5
    <3> QED BY <2>2, <3>6
  <2> QED BY <2>4, <2>5
<1>3. PICK h : Right(h, n)
  <2>1. Defined(n)
    <3> HIDE DEF Defined
    <3> QED BY <1>2
  <2> QED BY <2>1
<1> DEFINE f == [k \in 0 .. n |-> h[k]]
<1>4. \A k \in 0 .. n : f[k] = h[k] /\ h[k] = PickAt(h, list, positions, k)
  BY <1>3
<1>5. ASSUME NEW k \in 0 .. n PROVE PickAt(f, list, positions, k) = PickAt(h, list, positions, k)
  <2>1. \A i \in Nat : i < k => f[i] = h[i]
    BY <1>4
  <2> HIDE DEF f
  <2> QED BY <1>1, <2>1
<1>6. f = [k \in 0 .. n |-> PickAt(f, list, positions, k)]
  BY <1>4, <1>5
<1> HIDE DEF f
<1> QED BY <1>6 DEF IsPick

LEMMA PickIs ==
  ASSUME NEW list, NEW positions, Len(list) \in Nat
  PROVE  /\ PickOf(list, positions)[0] = << >>
         /\ \A k \in 1 .. Len(list) :
              PickOf(list, positions)[k] =
                IF k \in positions THEN Append(PickOf(list, positions)[k - 1], list[k])
                ELSE PickOf(list, positions)[k - 1]
<1> DEFINE f == PickOf(list, positions)
<1>1. IsPick(f, list, positions)
  BY PickExists DEF PickOf
<1> HIDE DEF f
<1>2. f = [k \in 0 .. Len(list) |-> PickAt(f, list, positions, k)]
  BY <1>1 DEF IsPick
<1>3. \A k \in 0 .. Len(list) : f[k] = PickAt(f, list, positions, k)
  BY <1>2
<1>4. f[0] = << >>
  BY <1>3 DEF PickAt
<1>5. \A k \in 1 .. Len(list) :
        f[k] = IF k \in positions THEN Append(f[k - 1], list[k]) ELSE f[k - 1]
  BY <1>3 DEF PickAt
<1> QED BY <1>4, <1>5 DEF f

(* A shortlist of whole entries, and the positions in it that are retained.*)
Shortlisted(g, s) == Listed(g, Chosen(g, s))

ShortlistIs(g, s, from, n) ==
  LET ids == Shortlisted(g, s)
  IN  /\ DOMAIN ids = 1 .. n /\ Len(ids) = n
      /\ \A k \in 1 .. n : ids[k] = g.rout.id_at[from + 4 * (k - 1)]

LEMMA ListedIs ==
  ASSUME NEW g, NEW s, NEW from \in Nat, NEW n \in Nat, NEW to,
         Chosen(g, s) = <<from, to>>, to = from + 4 * n
  PROVE  ShortlistIs(g, s, from, n)
<1> DEFINE range == Chosen(g, s)
           ids == Shortlisted(g, s)
<1>1. range[1] = from /\ range[2] = to
  OBVIOUS
<1>2. (to - from) \div 4 = n
  OBVIOUS
<1>3. ids = [k \in 1 .. (range[2] - range[1]) \div 4 |-> g.rout.id_at[range[1] + 4 * (k - 1)]]
  BY DEF Listed, Shortlisted
<1> HIDE DEF range, ids
<1>4. ids = [k \in 1 .. n |-> g.rout.id_at[from + 4 * (k - 1)]]
  BY <1>1, <1>2, <1>3
<1>5. /\ DOMAIN ids = 1 .. n
      /\ \A k \in 1 .. n : ids[k] = g.rout.id_at[from + 4 * (k - 1)]
  BY <1>4
<1>6. Len(ids) = n
  BY <1>4
<1> QED BY <1>5, <1>6 DEF ShortlistIs, ids

Accepting(g, s) ==
  {k \in DOMAIN Shortlisted(g, s) : NodeAccepts(g, g.nodes[Shortlisted(g, s)[k] + 1], s)}
RetainedOf(g, s, k) == PickOf(Shortlisted(g, s), Accepting(g, s))[k]

LEMMA RoutedIs ==
  ASSUME NEW g, NEW s
  PROVE  Routed(g, s) = RetainedOf(g, s, Len(Shortlisted(g, s)))
BY PickedIs DEF Routed, RetainedOf, Accepting, Shortlisted

-----------------------------------------------------------------------------
(* What a route has retained so far.                                       *)
Scanned(from, n, k) ==
  /\ Chosen(graph, signature) = <<from, end>>
  /\ end = from + 4 * n /\ offset = from + 4 * k
  /\ candidates = RetainedOf(graph, signature, k)

Retaining ==
  /\ phase = "unparsed" => signature = << >>
  /\ phase = "running" =>
       candidates = << >> /\ Chosen(graph, signature) = ChoiceOf(graph, signature)[pc]
  /\ phase = "shortlist" => \E from, n, k \in Nat : Scanned(from, n, k)
  /\ phase = "parsed" /\ signature # << >> /\ outcome = "Ok" =>
       candidates = Routed(graph, signature)

(* An error leaves nothing to be promised.                                 *)
LEMMA FailRetains ==
  ASSUME NEW error, error # "Ok", Fail(error)
  PROVE  Retaining'
BY DEF Fail, Retaining

LEMMA ShortlistRetains ==
  ASSUME Retaining, phase = "running", graph \in Graphs,
         NEW from \in Nat, NEW to \in Nat, from <= to,
         Chosen(graph, signature) = <<from, to>>, Shortlist(from, to)
  PROVE  Retaining'
<1>1. CASE (to - from) % 4 # 0
  BY <1>1, FailRetains DEF Shortlist
<1>2. CASE (to - from) % 4 = 0
  <2>1. /\ phase' = "shortlist" /\ offset' = from /\ end' = to
        /\ graph' = graph /\ signature' = signature /\ candidates' = candidates
    BY <1>2 DEF Shortlist
  <2>2. PICK n \in Nat : to = from + 4 * n
    <3>1. (to - from) \div 4 \in Nat /\ to = from + 4 * ((to - from) \div 4)
      BY <1>2
    <3> QED BY <3>1
  <2>3. Len(Shortlisted(graph, signature)) = n
    <3>1. ShortlistIs(graph, signature, from, n)
      BY <2>2, ListedIs
    <3> QED BY <3>1 DEF ShortlistIs
  <2>4. candidates = RetainedOf(graph, signature, 0)
    BY <2>2, <2>3, PickIs DEF Retaining, RetainedOf
  <2>5. Scanned(from, n, 0)'
    BY <2>1, <2>2, <2>4 DEF Scanned
  <2> QED BY <2>1, <2>2, <2>5 DEF Retaining
<1> QED BY <1>1, <1>2

LEMMA GoToRetains ==
  ASSUME Retaining, phase = "running", NEW p, GoTo(p),
         ChoiceOf(graph, signature)[pc] = ChoiceOf(graph, signature)[p]
  PROVE  Retaining'
BY DEF Retaining, GoTo

(* The next entry of the shortlist, and what becomes of it.                *)
LEMMA EntryIs ==
  ASSUME NEW from \in Nat, NEW n \in Nat, NEW k \in Nat, Scanned(from, n, k), offset < end
  PROVE  /\ k + 1 \in 1 .. n
         /\ Shortlisted(graph, signature)[k + 1] = Candidate
         /\ k + 1 \in Accepting(graph, signature) <=> Accepts
         /\ RetainedOf(graph, signature, k + 1) =
              IF Accepts THEN Append(candidates, Candidate) ELSE candidates
<1> DEFINE ids == Shortlisted(graph, signature)
<1>1. ShortlistIs(graph, signature, from, n)
  BY ListedIs DEF Scanned
<1>2. /\ DOMAIN ids = 1 .. n /\ Len(ids) = n
      /\ \A i \in 1 .. n : ids[i] = graph.rout.id_at[from + 4 * (i - 1)]
  BY <1>1 DEF ShortlistIs
<1> HIDE DEF ids
<1>3. k + 1 \in 1 .. n
  BY DEF Scanned
<1>4. ids[k + 1] = Candidate
  <2>1. offset = from + 4 * ((k + 1) - 1)
    BY DEF Scanned
  <2> QED BY <1>2, <1>3, <2>1 DEF Candidate
<1>5. k + 1 \in Accepting(graph, signature) <=> Accepts
  BY <1>2, <1>3, <1>4 DEF Accepting, Accepts, ids
<1>6. RetainedOf(graph, signature, k + 1) =
        IF k + 1 \in Accepting(graph, signature)
        THEN Append(RetainedOf(graph, signature, k), ids[k + 1])
        ELSE RetainedOf(graph, signature, k)
  <2>1. (k + 1) - 1 = k /\ Len(ids) \in Nat /\ k + 1 \in 1 .. Len(ids)
    BY <1>2, <1>3
  <2> DEFINE f == PickOf(ids, Accepting(graph, signature))
  <2>2. f[k + 1] = IF k + 1 \in Accepting(graph, signature)
                   THEN Append(f[(k + 1) - 1], ids[k + 1]) ELSE f[(k + 1) - 1]
    BY <2>1, PickIs
  <2> HIDE DEF f
  <2>3. \A i : RetainedOf(graph, signature, i) = f[i]
    BY DEF RetainedOf, f, ids
  <2> QED BY <2>1, <2>2, <2>3
<1>7. candidates = RetainedOf(graph, signature, k)
  BY DEF Scanned
<1> QED BY <1>3, <1>4, <1>5, <1>6, <1>7 DEF ids

LEMMA AdvanceRetains ==
  ASSUME Retaining, phase = "shortlist", offset < end, offset' = offset + 4,
         candidates' = (IF Accepts THEN Append(candidates, Candidate) ELSE candidates),
         UNCHANGED <<phase, graph, signature, end>>
  PROVE  Retaining'
<1>1. PICK from, n, k \in Nat : Scanned(from, n, k)
  BY DEF Retaining
<1>2. candidates' = RetainedOf(graph, signature, k + 1)
  BY <1>1, EntryIs
<1>3. Scanned(from, n, k + 1)'
  <2>1. /\ Chosen(graph, signature) = <<from, end>>
        /\ end = from + 4 * n /\ offset = from + 4 * k
    BY <1>1 DEF Scanned
  <2>2. offset' = from + 4 * (k + 1)
    BY <2>1
  <2> QED BY <1>2, <2>1, <2>2 DEF Scanned
<1>4. k + 1 \in Nat
  OBVIOUS
<1> QED BY <1>3, <1>4 DEF Retaining

LEMMA FinishRetains ==
  ASSUME Retaining, FinishRoute
  PROVE  Retaining'
<1>1. /\ phase = "shortlist" /\ offset = end /\ phase' = "parsed"
      /\ graph' = graph /\ signature' = signature /\ candidates' = candidates
  BY DEF FinishRoute
<1>2. PICK from, n, k \in Nat : Scanned(from, n, k)
  BY <1>1 DEF Retaining
<1>3. k = n
  BY <1>1, <1>2 DEF Scanned
<1>4. Len(Shortlisted(graph, signature)) = n
  <2>1. ShortlistIs(graph, signature, from, n)
    BY <1>2, ListedIs DEF Scanned
  <2> QED BY <2>1 DEF ShortlistIs
<1>5. candidates = Routed(graph, signature)
  BY <1>2, <1>3, <1>4, RoutedIs DEF Scanned
<1> QED BY <1>1, <1>5 DEF Retaining

(* The operation executed next decides what is chosen from here.           *)
LEMMA ExecuteRetains ==
  ASSUME IInv, Retaining, Execute
  PROVE  Retaining'
<1> DEFINE f == ChoiceOf(graph, signature)
           whole == WholeTable(graph)
<1>1. /\ phase = "running" /\ graph \in Graphs /\ GraphAccepted(graph)
      /\ pc \in 1 .. Len(Ops) + 1 /\ Chosen(graph, signature) = f[pc]
      /\ graph.rout.table_bytes \in Nat /\ Len(Ops) \in Nat
  <2>1. phase = "running"
    BY DEF Execute, Halt, TestPopcountLe, JmpFwd, Leaf, RunOff, Fetch
  <2>2. graph \in Graphs /\ GraphAccepted(graph) /\ pc \in 1 .. Len(Ops) + 1
    BY <2>1 DEF IInv, TypeOK, Validated, Running
  <2> QED BY <2>1, <2>2, GraphFacts DEF Retaining, Ops
<1>2. f[pc] = ChoiceAt(f, graph, signature, pc)
  BY <1>1, ChoiceIs DEF Ops
<1> HIDE DEF f
<1>3. CASE pc > Len(Ops)
  <2>1. f[pc] = <<0, graph.rout.table_bytes>>
    BY <1>2, <1>3 DEF ChoiceAt, Ops, WholeTable
  <2>2. RunOff
    BY <1>1, <1>3 DEF Execute, Halt, TestPopcountLe, JmpFwd, Leaf, Fetch
  <2>3. Shortlist(0, graph.rout.table_bytes)
    BY <2>2 DEF RunOff
  <2>4. 0 \in Nat /\ 0 <= graph.rout.table_bytes
        /\ Chosen(graph, signature) = <<0, graph.rout.table_bytes>>
    BY <1>1, <2>1
  <2> QED BY <1>1, <2>3, <2>4, ShortlistRetains
<1>4. CASE ~ pc > Len(Ops)
  <2> DEFINE op == graph.rout.ops[pc]
  <2>1. /\ pc <= Len(Ops) /\ Current = op /\ ~ pc > Len(graph.rout.ops)
    BY <1>1, <1>4 DEF Current, Ops
  <2>2. /\ ~ (steps >= graph.head.max_program_steps) /\ op \in Op
        /\ op.op \notin {"Unknown", "Truncated"} /\ pc \in 1 .. Len(Ops)
        /\ op.op = "JmpFwd" => pc + 1 + op.delta <= Len(Ops)
    BY <1>1, <2>1, FetchFacts
  <2>3. /\ op.op = "JmpFwd" => op.delta \in Nat
        /\ op.op = "Leaf" => op.start \in Nat /\ op.len \in Nat
    BY <2>2, OperandTypes
  <2>4. op.op = "TestPopcountLe" => pc < Len(Ops)
    BY <1>1, <2>2, AcceptedProgram DEF Ops
  <2>5. CASE Halt
    <3>1. op.op = "Halt" /\ Shortlist(0, graph.rout.table_bytes)
      BY <2>1, <2>2, <2>5 DEF Halt, Fetch
    <3>2. f[pc] = <<0, graph.rout.table_bytes>>
      BY <1>2, <2>1, <3>1 DEF ChoiceAt, WholeTable
    <3>3. 0 \in Nat /\ 0 <= graph.rout.table_bytes
          /\ Chosen(graph, signature) = <<0, graph.rout.table_bytes>>
      BY <1>1, <3>2
    <3> QED BY <1>1, <3>1, <3>3, ShortlistRetains
  <2>6. CASE TestPopcountLe
    <3> DEFINE next == IF OverThreshold /\ pc + 1 <= Len(Ops) THEN pc + 2 ELSE pc + 1
    <3>1. op.op = "TestPopcountLe" /\ GoTo(next)
      BY <2>1, <2>2, <2>6 DEF TestPopcountLe, Fetch
    <3>2. next = IF OverThreshold THEN pc + 2 ELSE pc + 1
      BY <1>1, <2>2, <2>4, <3>1
    <3>3. OverThreshold <=> Cardinality(signature[op.word + 1] \cap op.mask) > op.threshold
      BY <2>1 DEF OverThreshold
    <3>4. f[pc] = f[next]
      <4>1. f[pc] = IF OverThreshold THEN f[pc + 2] ELSE f[pc + 1]
        BY <1>2, <2>1, <3>1, <3>3 DEF ChoiceAt
      <4> HIDE DEF next
      <4> QED BY <3>2, <4>1
    <3> HIDE DEF next
    <3> QED BY <1>1, <3>1, <3>4, GoToRetains DEF f
  <2>7. CASE JmpFwd
    <3>1. op.op = "JmpFwd" /\ GoTo(pc + 1 + op.delta)
      <4>1. op.op = "JmpFwd"
        BY <2>1, <2>7 DEF JmpFwd, Fetch
      <4>2. pc + op.delta <= Len(Ops)
        BY <1>1, <2>2, <2>3, <4>1
      <4> QED BY <2>1, <2>2, <2>7, <4>1, <4>2 DEF JmpFwd, Fetch
    <3>2. f[pc] = f[pc + 1 + op.delta]
      BY <1>2, <2>1, <3>1 DEF ChoiceAt
    <3> QED BY <1>1, <3>1, <3>2, GoToRetains DEF f
  <2>8. CASE Leaf
    <3> DEFINE to == op.start + op.len
    <3>1. op.op = "Leaf"
      BY <2>1, <2>8 DEF Leaf, Fetch
    <3>2. f[pc] = <<op.start, to>>
      BY <1>2, <2>1, <3>1 DEF ChoiceAt
    <3>3. op.start \in Nat /\ to \in Nat /\ op.start <= to
      <4>1. op.start \in Nat /\ op.len \in Nat
        BY <2>3, <3>1
      <4> HIDE DEF op
      <4> QED BY <4>1
    <3>4. Shortlist(op.start, to) \/ Fail("RoutingTableMalformed")
      BY <2>1, <2>2, <2>8 DEF Leaf, Fetch
    <3> HIDE DEF to, op
    <3> QED BY <1>1, <3>2, <3>3, <3>4, ShortlistRetains, FailRetains
  <2>9. CASE RunOff
    BY <1>1, <1>4, <2>9 DEF RunOff
  <2> QED BY <2>5, <2>6, <2>7, <2>8, <2>9 DEF Execute
<1> QED BY <1>3, <1>4

LEMMA InspectRetains ==
  ASSUME Retaining, Inspect
  PROVE  Retaining'
<1>1. CASE NoSuchNode
  BY <1>1, FailRetains DEF NoSuchNode
<1>2. CASE PassOver
  BY <1>2, AdvanceRetains DEF PassOver, OnNode
<1>3. CASE Retain
  <2>1. CASE Len(candidates) < RouteCapacity
    BY <1>3, <2>1, AdvanceRetains DEF Retain, OnNode
  <2>2. CASE ~ Len(candidates) < RouteCapacity
    BY <1>3, <2>2, FailRetains DEF Retain
  <2> QED BY <2>1, <2>2
<1>4. CASE FinishRoute
  BY <1>4, FinishRetains
<1> QED BY <1>1, <1>2, <1>3, <1>4 DEF Inspect

LEMMA NextRetains == IInv /\ Retaining /\ [Next]_vars => Retaining'
<1> SUFFICES ASSUME IInv, Retaining, [Next]_vars PROVE Retaining'
  OBVIOUS
<1>1. CASE Parse
  <2>1. signature = << >>
    BY <1>1 DEF Parse, Retaining
  <2>2. signature' = << >> /\ phase' \in {"parsed", "unparsed"}
    BY <1>1, <2>1 DEF Parse
  <2> QED BY <2>2 DEF Retaining
<1>2. ASSUME NEW s \in Signatures, RefuseWidth(s) PROVE Retaining'
  BY <1>2 DEF RefuseWidth, Retaining
<1>3. ASSUME NEW s \in Signatures, BeginRoute(s) PROVE Retaining'
  <2>1. phase' = "running" /\ candidates' = << >> /\ pc' = 1
    BY <1>3 DEF BeginRoute
  <2>2. Chosen(graph', signature') = ChoiceOf(graph', signature')[1]
    BY ChosenIs
  <2> QED BY <2>1, <2>2 DEF Retaining
<1>4. CASE Execute
  BY <1>4, ExecuteRetains
<1>5. CASE Inspect
  BY <1>5, InspectRetains
<1>6. CASE UNCHANGED vars
  BY <1>6 DEF vars, Retaining, Scanned
<1> QED BY <1>1, <1>2, <1>3, <1>4, <1>5, <1>6 DEF Next, RouteStep

(* Whatever is routed in whatever order, a route that succeeds returns the *)
(* accepted entries of the shortlist that its program chooses for the      *)
(* signature, all of them and in ROUT order, and nothing of an earlier or  *)
(* a failed route: each operation leaves the choice as it is, since jumps  *)
(* only go forward, and each entry read adds what it should (route and     *)
(* route_table, r4g1.rs:1040).                                             *)
THEOREM ShortlistIsRetained == Spec => []RetainsTheShortlist
<1>1. Init => Retaining
  BY DEF Init, Retaining
<1>2. Retaining => RetainsTheShortlist
  BY DEF Retaining, RetainsTheShortlist
<1> QED BY <1>1, <1>2, RouteInvariant, NextRetains, PTL DEF Spec
=============================================================================
