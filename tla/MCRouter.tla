------------------------------ MODULE MCRouter ------------------------------
(***************************************************************************)
(* A small instance of Router: codes of three bits in one word, a cloud    *)
(* that is smaller than some slices, and regions chosen so that every tie  *)
(* of the canonical order, a partial mask, a repeated ID and a slice one   *)
(* region too long all occur.                                              *)
(***************************************************************************)
EXTENDS Router

MCBits == {0, 1, 2}
MCCodes == SUBSET MCBits

(* id, path, depth, radius, prototype, mask *)
R(id, path, depth, radius, prototype, mask) ==
  [region_id |-> id, path_id |-> path, depth |-> depth, radius |-> radius,
   prototype |-> prototype, mask |-> mask]

MCRegions ==
  { R(1, 1, 0, 1, {},     MCBits),
    R(2, 1, 1, 1, {0},    MCBits),
    R(3, 0, 1, 2, {0, 1}, MCBits),
    R(4, 2, 1, 0, {0, 2}, {0, 1}),
    R(2, 3, 2, 3, {1},    MCBits) }

(* Every slice of up to one region more than MAX_CANDIDATES.               *)
MCSlices == UNION {[1 .. n -> MCRegions] : n \in 0 .. MaxCandidates + 1}
=============================================================================
