---------------------------- MODULE MCR4G1Predict ---------------------------
(***************************************************************************)
(* A small instance of R4G1Predict: four nodes on two sets of depths, all  *)
(* sets of up to three refinement edges that lead to deeper nodes, among   *)
(* them chains that skip a level, end early or have two parents, and four  *)
(* root priors.  Two predictions are kept of three tokens.                 *)
(***************************************************************************)
EXTENDS R4G1Predict

MCWordBits == {0}
MCTokens == {1, 2, 3}
MCScoreMin == -20

E(token, score) == [token |-> token, score |-> score]

(* The residuals of the four nodes, one after the other.                   *)
MCResiduals == << E(1, 2), E(1, 1), E(2, -1), E(2, 3), E(3, 1), E(1, -2) >>
MCStarts == << 0, 1, 3, 4 >>
MCLens == << 1, 2, 1, 2 >>

MCRoots == { << >>, << E(1, 3), E(1, 5), E(1, 4) >>, << E(3, 0), E(1, 2), E(2, 1) >>,
             << E(2, 4), E(1, 4) >> }

MCDepths == { << 0, 1, 2, 3 >>, << 1, 1, 3, 2 >> }

(* Refinement edges, and one predictive edge that no climb may take.       *)
Refinement(src, dst) == [src |-> src, dst |-> dst, kind |-> 0, flags |-> 0, reserved |-> 0]
Predictive(src, dst) == [src |-> src, dst |-> dst, kind |-> 2, flags |-> 0, reserved |-> 0]

Deeper(depths) ==
  {Refinement(s - 1, d - 1) : <<s, d>> \in
     {pair \in (1 .. 4) \X (1 .. 4) : depths[pair[1]] < depths[pair[2]]}}

Graph(depths, edges, root, root_count, supported) ==
  LET entries == root \o MCResiduals
      size == 16 + 8 * Len(entries)
  IN  [head |-> [signature_words |-> 1, max_frontier |-> 4, max_emissions |-> 4,
                 max_program_steps |-> 4, depth_count |-> 4],
       nodes |-> [n \in 1 .. 4 |->
         [child_start |-> 0, child_len |-> 0, forward_start |-> 0, forward_len |-> 0,
          emission_start |-> 16 + 8 * (Len(root) + MCStarts[n]),
          emission_len |-> MCLens[n], prototype_word_start |-> 0,
          mask_word_start |-> 0, radius |-> 0, depth |-> depths[n], flags |-> 0]],
       edges |-> SetToSortSeq(edges, EdgeBefore),
       reverse |-> [p \in 1 .. Cardinality(edges) |-> p - 1],
       rout |-> [ops |-> << [op |-> "Halt"] >>, table_bytes |-> 0, id_at |-> << >>,
                 words |-> << {} >>],
       emit |-> [supported |-> supported, remainder |-> size, root_count |-> root_count,
                 at |-> [o \in 0 .. size - 8 |->
                           IF o >= 16 /\ o % 8 = 0 THEN entries[(o - 16) \div 8 + 1]
                           ELSE E(3, 0)]]]

MCGraphs ==
  UNION {{Graph(depths, edges \cup {Predictive(0, 3)}, root, Len(root), TRUE) :
            edges \in {s \in SUBSET Deeper(depths) : Cardinality(s) <= 3}, root \in MCRoots} :
           depths \in MCDepths}
  \cup {Graph(<< 0, 1, 2, 3 >>, {}, << >>, 9, TRUE), Graph(<< 0, 1, 2, 3 >>, {}, << >>, 0, FALSE)}

MCCandidateLists == { << >>, << 0 >>, << 3 >>, << 1, 2 >>, << 3, 1, 3 >>, << 1, 0 >> }

(* A refinement edge between nodes of one depth and back: also accepted.   *)
MCCyclicGraphs ==
  {Graph(<< 0, 1, 2, 2 >>, {Refinement(2, 3), Refinement(3, 2)}, << E(1, 3) >>, 1, TRUE)}
=============================================================================
