------------------------------ MODULE R4G1Graph ------------------------------
(***************************************************************************)
(* An R4G1 graph as R4G1Graph::parse sees it (r4g1.rs): the HEAD bounds,   *)
(* the NODE and EDGE records with the reverse index, the ROUT program with *)
(* its candidate table, and the EMIT entries.  What parse accepts is       *)
(* GraphAccepted; the first ROUT error is named because routing can return *)
(* some of the same errors.  The last part is what predict_top_k reads of  *)
(* a graph, and the score its documentation promises of it.                *)
(*                                                                         *)
(* Sections are read at any byte offset, so a section that the code reads  *)
(* in 32-bit or 64-bit units is a function from offsets to what stands     *)
(* there.  Record and operation p is the code's index p - 1.               *)
(***************************************************************************)
EXTENDS Integers, Sequences, FiniteSets, FiniteSetsExt

CONSTANT WordBits   (* the bit positions of one 64-bit word                *)

ASSUME WordBitsAssumption == IsFiniteSet(WordBits)

Word == SUBSET WordBits

(* The ROUT v0 operations, and the two ways bytes fail to be one.          *)
Op ==
       [op : {"Halt", "Unknown", "Truncated"}]
  \cup [op : {"TestPopcountLe"}, word : Nat, mask : Word, threshold : Nat]
  \cup [op : {"JmpFwd"}, delta : Nat]
  \cup [op : {"Leaf"}, start : Nat, len : Nat]

(* ops: the operations up to the first Halt or failure, or to the end of   *)
(* the section; table: the bytes after Halt, as their number and the       *)
(* 32-bit value at each offset; words: the whole section in 64-bit words.  *)
Rout ==
  [ops : Seq(Op), table_bytes : Nat, id_at : UNION {[D -> Nat] : D \in SUBSET Nat},
   words : Seq(Word)]

Node ==
  [child_start : Nat, child_len : Nat, forward_start : Nat, forward_len : Nat,
   emission_start : Nat, emission_len : Nat, prototype_word_start : Nat,
   mask_word_start : Nat, radius : Nat, depth : Nat, flags : Nat]

Edge == [src : Nat, dst : Nat, kind : 0 .. 255, flags : Nat, reserved : Nat]

HeadBounds ==
  [signature_words : Nat, max_frontier : Nat, max_emissions : Nat,
   max_program_steps : Nat, depth_count : Nat]

-----------------------------------------------------------------------------
(* Mutant: the word operand may be one past the signature.                 *)
OperandErrorPastWord(op, index, rout, head) ==
  CASE op.op = "TestPopcountLe" /\ (op.word > head.signature_words \/ op.threshold > 64)
         -> "RoutingOperandOutOfBounds"
    [] op.op = "JmpFwd" /\ index + 1 + op.delta > Len(rout.ops)
         -> "RoutingJumpOutOfBounds"
    [] op.op = "Leaf" /\ rout.table_bytes = 0 /\ op.len # 0
         -> "RoutingShortlistOutOfBounds"
    [] op.op = "Leaf" /\ rout.table_bytes # 0 /\ op.start + op.len > rout.table_bytes
         -> "RoutingShortlistOutOfBounds"
    [] OTHER -> "Ok"

(* validate_rout.  An operation that is not one, or a program without an   *)
(* end, is met while the operations are counted; operands come after.      *)
OperandError(op, index, rout, head) ==
  CASE op.op = "TestPopcountLe" /\ (op.word >= head.signature_words \/ op.threshold > 64)
         -> "RoutingOperandOutOfBounds"
    [] op.op = "JmpFwd" /\ index + 1 + op.delta > Len(rout.ops)
         -> "RoutingJumpOutOfBounds"
    [] op.op = "Leaf" /\ rout.table_bytes = 0 /\ op.len # 0
         -> "RoutingShortlistOutOfBounds"
    [] op.op = "Leaf" /\ rout.table_bytes # 0 /\ op.start + op.len > rout.table_bytes
         -> "RoutingShortlistOutOfBounds"
    [] OTHER -> "Ok"

BadOperands(rout, head) ==
  {index \in 1 .. Len(rout.ops) : OperandError(rout.ops[index], index, rout, head) # "Ok"}

RoutAccepted(rout, head) ==
  /\ rout.ops # << >>
  /\ rout.ops[Len(rout.ops)].op \in {"Halt", "Leaf"}
  /\ Len(rout.ops) <= head.max_program_steps
  /\ BadOperands(rout, head) = {}

(* The error for a program that is not accepted: the first one met.        *)
RoutError(rout, head) ==
  LET last == IF rout.ops = << >> THEN "none" ELSE rout.ops[Len(rout.ops)].op
  IN  CASE last = "Unknown"   -> "UnknownRoutingOp"
        [] last = "Truncated" -> "TruncatedRoutingOp"
        [] last \in {"none", "TestPopcountLe", "JmpFwd"} -> "RoutingProgramUnterminated"
        [] last \in {"Halt", "Leaf"} ->
             IF Len(rout.ops) > head.max_program_steps THEN "RoutingProgramTooDeep"
             ELSE LET first == Min(BadOperands(rout, head))
                  IN  OperandError(rout.ops[first], first, rout, head)

(* validate_node, with emission_len counted in bytes of the remainder of   *)
(* the EMIT section.                                                       *)
NodeAccepted(node, graph) ==
  LET head == graph.head
  IN  /\ node.child_start + node.child_len <= Len(graph.edges)
      /\ node.forward_start + node.forward_len <= Len(graph.edges)
      /\ node.emission_start + node.emission_len <= graph.emit.remainder
      /\ node.prototype_word_start + head.signature_words <= Len(graph.rout.words)
      /\ node.mask_word_start + head.signature_words <= Len(graph.rout.words)
      /\ node.child_len <= head.max_frontier
      /\ node.emission_len <= head.max_emissions
      /\ node.depth < head.depth_count
      /\ node.flags = 0

(* The canonical order of EDGE records: source, kind, destination, and the *)
(* reserved field, compared as one key.                                    *)
EdgeBefore(left, right) ==
  \/ left.src < right.src
  \/ /\ left.src = right.src
     /\ \/ left.kind < right.kind
        \/ /\ left.kind = right.kind
           /\ \/ left.dst < right.dst
              \/ left.dst = right.dst /\ left.reserved < right.reserved

(* validate_edges: endpoints, flags, kinds and order of the records, a     *)
(* reverse index that names every edge, and forward ranges whose edges end *)
(* in their node.  Nothing constrains the depths along a refinement edge.  *)
EdgesAccepted(graph) ==
  LET nodes == graph.nodes
      edges == graph.edges
      reverse == graph.reverse
  IN  /\ \A p \in DOMAIN edges :
           /\ edges[p].src < Len(nodes) /\ edges[p].dst < Len(nodes)
           /\ edges[p].flags = 0
           /\ edges[p].kind <= 8 \/ edges[p].kind >= 128
      /\ \A p \in 1 .. Len(edges) - 1 : EdgeBefore(edges[p], edges[p + 1])
      /\ {reverse[p] : p \in DOMAIN reverse} = 0 .. Len(edges) - 1
      /\ \A n \in 1 .. Len(nodes) :
           \A p \in nodes[n].forward_start + 1 .. nodes[n].forward_start + nodes[n].forward_len :
             edges[reverse[p] + 1].dst = n - 1

(* R4G1Graph::parse, in front of it the tests on HEAD itself.  The record  *)
(* counts of HEAD are the lengths of the sequences.                        *)
GraphAccepted(graph) ==
  /\ graph.head.signature_words # 0
  /\ graph.nodes # << >> => graph.head.depth_count # 0
  /\ RoutAccepted(graph.rout, graph.head)
  /\ \A n \in DOMAIN graph.nodes : NodeAccepted(graph.nodes[n], graph)
  /\ EdgesAccepted(graph)

-----------------------------------------------------------------------------
(* node_accepts: the masked distance between the signature and the words   *)
(* at the node's prototype window is within its radius.                    *)
NodeDistance(graph, node, signature) ==
  LET Differs(w, b) ==
        /\ b \in graph.rout.words[node.mask_word_start + w]
        /\ (b \in signature[w]) # (b \in graph.rout.words[node.prototype_word_start + w])
  IN  Cardinality(UNION {{<<w, b>> : b \in {x \in WordBits : Differs(w, x)}} :
                           w \in 1 .. Len(signature)})

NodeAccepts(graph, node, signature) ==
  NodeDistance(graph, node, signature) <= node.radius

-----------------------------------------------------------------------------
(* The range of the table a program chooses, by recursion on its end.      *)
Chosen(g, s) ==
  LET ops   == g.rout.ops
      whole == <<0, g.rout.table_bytes>>
      from[p \in 1 .. Len(ops) + 1] ==
        IF p > Len(ops) THEN whole
        ELSE CASE ops[p].op = "JmpFwd" -> from[p + 1 + ops[p].delta]
               [] ops[p].op = "Halt"   -> whole
               [] ops[p].op = "Leaf"   -> <<ops[p].start, ops[p].start + ops[p].len>>
               [] ops[p].op = "TestPopcountLe" ->
                    IF Cardinality(s[ops[p].word + 1] \cap ops[p].mask) > ops[p].threshold
                    THEN from[p + 2] ELSE from[p + 1]
  IN  from[1]

(* The entries of a list at the given positions, in its order.             *)
Picked(list, positions) ==
  LET kept[k \in 0 .. Len(list)] ==
        IF k = 0 THEN << >>
        ELSE IF k \in positions THEN Append(kept[k - 1], list[k]) ELSE kept[k - 1]
  IN  kept[Len(list)]

(* The candidates in a range of the table.                                 *)
Listed(g, range) ==
  [k \in 1 .. (range[2] - range[1]) \div 4 |-> g.rout.id_at[range[1] + 4 * (k - 1)]]

(* The retained candidates of a route that succeeds: the entries of the    *)
(* chosen shortlist whose prototype accepts the signature, in its order.   *)
Routed(g, s) ==
  LET ids == Listed(g, Chosen(g, s))
  IN  Picked(ids, {k \in DOMAIN ids : NodeAccepts(g, g.nodes[ids[k] + 1], s)})
-----------------------------------------------------------------------------
NodeAt(graph, id) == graph.nodes[id + 1]

(* parent_node: the source of the first refinement edge into the node.     *)
IncomingRefinements(graph, id) ==
  {p \in DOMAIN graph.edges : graph.edges[p].kind = 0 /\ graph.edges[p].dst = id}

(* Mutant: the end of the refinement edge is taken for its source.         *)
ParentSwapped(graph, id) == graph.edges[Min(IncomingRefinements(graph, id))].dst

Parent(graph, id) == graph.edges[Min(IncomingRefinements(graph, id))].src

(* The entries of the ranges a prediction reads, eight bytes each: root    *)
(* entries follow a header of sixteen bytes, and the emission_len of a     *)
(* node is a number of ENTRIES here, of bytes in validate_node.            *)
RootFits(graph) == 16 + 8 * graph.emit.root_count <= graph.emit.remainder
RootEntry(graph, k) == graph.emit.at[16 + 8 * (k - 1)]

ResidualsFit(graph, node) ==
  node.emission_start + 8 * node.emission_len <= graph.emit.remainder
Residual(graph, node, k) == graph.emit.at[node.emission_start + 8 * (k - 1)]

(* The refinement chain of a node: itself and its parents.                 *)
Chain(graph, id) ==
  LET up[n \in 0 .. Len(graph.nodes)] ==
        IF n = 0 THEN {id}
        ELSE LET below == up[n - 1]
             IN  below \cup {Parent(graph, d) :
                               d \in {c \in below : IncomingRefinements(graph, c) # {}}}
  IN  up[Len(graph.nodes)]

(* Every residual the chain holds for a token, of its nodes below the root *)
(* level: parts <<node, entry>>.                                           *)
Residuals(graph, id, token) ==
  LET chain == {n \in Chain(graph, id) : NodeAt(graph, n).depth > 0}
      Of(n) == {k \in 1 .. NodeAt(graph, n).emission_len :
                  Residual(graph, NodeAt(graph, n), k).token = token}
  IN  UNION {{<<n, k>> : k \in Of(n)} : n \in chain}

RootScores(graph, token) ==
  {RootEntry(graph, k).score :
     k \in {r \in 1 .. graph.emit.root_count : RootEntry(graph, r).token = token}}

(* The score the documentation promises for a token: its root base, if any,*)
(* plus the residuals of the chain, which starts at one node or none.      *)
PromisedFrom(graph, starts, token) ==
  LET base == IF RootScores(graph, token) = {} THEN 0 ELSE Max(RootScores(graph, token))
      parts == UNION {Residuals(graph, id, token) : id \in starts}
  IN  FoldSet(LAMBDA part, sum : sum + Residual(graph, NodeAt(graph, part[1]), part[2]).score,
              base, parts)
=============================================================================
