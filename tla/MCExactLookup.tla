---------------------------- MODULE MCExactLookup ---------------------------
(***************************************************************************)
(* A small instance of ExactLookup: four contexts of which two pairs       *)
(* collide, and every ascending section of up to four records, among them  *)
(* records stored twice and records whose stored hash is not the hash of   *)
(* their context (validation does not recompute it).                       *)
(***************************************************************************)
EXTENDS ExactLookup

MCContexts == {"a", "b", "c", "d"}
MCHashOf(c) == IF c \in {"a", "b"} THEN 1 ELSE 2

MCRecords == {[hash |-> MCHashOf(c), context |-> c] : c \in MCContexts}
               \cup {[hash |-> 0, context |-> "a"], [hash |-> 3, context |-> "a"]}

MCRecordTables ==
  {t \in UNION {[1 .. n -> MCRecords] : n \in 0 .. 4} : HashesAscend(t)}
=============================================================================
