----------------------------- MODULE MCR4G1Route ----------------------------
(***************************************************************************)
(* A small instance of R4G1Route: one-word signatures of two bits, two     *)
(* nodes, every program of up to three operations over the operands that   *)
(* matter, and tables that are empty, whole, name a missing node or end    *)
(* inside an entry.  Both refused and accepted graphs are parsed.          *)
(***************************************************************************)
EXTENDS R4G1Route

MCWordBits == {0, 1}
MCSignatures == {<<w>> : w \in SUBSET MCWordBits} \cup {<<{}, {0}>>}

(* Words 1 and 2 of the section are the nodes' prototypes, 3 their mask.   *)
MCWords == << {0}, {0, 1}, {0, 1} >>

MCNode(prototype, radius, depth) ==
  [child_start |-> 0, child_len |-> 0, forward_start |-> 0, forward_len |-> 0,
   emission_start |-> 0, emission_len |-> 0, prototype_word_start |-> prototype,
   mask_word_start |-> 2, radius |-> radius, depth |-> depth, flags |-> 0]

MCNodes == << MCNode(0, 1, 0), MCNode(1, 0, 1) >>

MCHead == [signature_words |-> 1, max_frontier |-> 2, max_emissions |-> 2,
           max_program_steps |-> 3, depth_count |-> 2]

(* An operand out of the signature and one at the limit stand for the rest. *)
MCSteps ==
  { [op |-> "TestPopcountLe", word |-> 0, mask |-> {0, 1}, threshold |-> 0],
    [op |-> "TestPopcountLe", word |-> 1, mask |-> {0}, threshold |-> 64],
    [op |-> "JmpFwd", delta |-> 0],
    [op |-> "JmpFwd", delta |-> 1],
    [op |-> "Leaf", start |-> 0, len |-> 4],
    [op |-> "Leaf", start |-> 4, len |-> 0],
    [op |-> "Leaf", start |-> 4, len |-> 4],
    [op |-> "Leaf", start |-> 0, len |-> 6] }

MCEnds == { [op |-> "Halt"], [op |-> "Unknown"], [op |-> "Truncated"] }

MCPrograms ==
  UNION {[1 .. n -> MCSteps] : n \in 0 .. 3}
    \cup {Append(p, e) : p \in UNION {[1 .. n -> MCSteps] : n \in 0 .. 2}, e \in MCEnds}
    \cup {[p \in 1 .. 4 |-> IF p = 4 THEN [op |-> "Halt"] ELSE [op |-> "JmpFwd", delta |-> 0]]}

(* Little-endian IDs below 256 read at an unaligned offset are not IDs of  *)
(* nodes: some byte above the lowest is theirs.                            *)
Table(ids, spare) ==
  [bytes |-> 4 * Len(ids) + spare,
   at |-> [o \in 0 .. 4 * Len(ids) + spare - 4 |->
             IF o % 4 = 0 /\ o \div 4 < Len(ids) THEN ids[o \div 4 + 1] ELSE 512]]

MCTables == { Table(<< >>, 0), Table(<<1, 0>>, 0), Table(<<0, 1, 0>>, 0),
              Table(<<0, 7>>, 0), Table(<<1, 0>>, 2) }

(* A section without HALT has no bytes left for a table.                   *)
MCGraphs ==
  {[head |-> MCHead, nodes |-> MCNodes, edges |-> << >>, reverse |-> << >>,
    emit |-> [remainder |-> 0],
    rout |-> [ops |-> p, table_bytes |-> t.bytes, id_at |-> t.at, words |-> MCWords]] :
     p \in MCPrograms, t \in MCTables}

MCHalting ==
  {g \in MCGraphs :
     g.rout.table_bytes = 0 \/ (g.rout.ops # << >> /\ g.rout.ops[Len(g.rout.ops)].op = "Halt")}
=============================================================================
