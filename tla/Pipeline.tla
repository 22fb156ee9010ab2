------------------------------ MODULE Pipeline ------------------------------
(***************************************************************************)
(* What becomes of a compiled artifact: Compiler, and once it is done      *)
(* either the export of the artifact with its replay, or the measurement   *)
(* of its parity.  Both only read the artifact and know nothing of each    *)
(* other, so a behaviour takes one of them.                                *)
(***************************************************************************)
EXTENDS R4G1Export, Parity

pipelineVars == <<vars, exportVars, parityVars>>

PipelineInit == Init /\ InitExport /\ InitParity

PipelineNext ==
  \/ Next /\ UNCHANGED <<exportVars, parityVars>>
  \/ lane = "none" /\ ExportNext /\ UNCHANGED parityVars
  \/ exported = Refused("none") /\ ParityNext /\ UNCHANGED exportVars

(* Every command is sequential and runs to its end once it has begun.      *)
PipelineSpec == PipelineInit /\ [][PipelineNext]_pipelineVars

-----------------------------------------------------------------------------
(* Every variable of the three parts has its type: compile                 *)
(* (compiler.rs:111), export_r4g1 and replay_r4g1 (r4g1_export.rs:182),    *)
(* evaluate (parity.rs:248).                                               *)
PipelineTypeOK ==
  /\ TypeOK
  /\ exported.error \in {"none", "TokenOutOfRange", "FormatLimit", "Structural"}
  /\ report.error \in {"none", "Structural", "InvalidRootPrior"}
  /\ lane \in {"none", "Both", "GraphOnly"}
  /\ sample \in Seq(Observation) /\ measured \in 0 .. Len(sample)
  /\ counters \in [DOMAIN NoCounters -> Nat]
  /\ verdict \in {"none", "EmptyCorpus", "IdentityMismatch", "Ok", "ParityThresholdFailed"}
=============================================================================
