------------------------------ MODULE ModelBuild ------------------------------
(***************************************************************************)
(* The life of a work directory (uor-semantic-cli lib.rs): model build,    *)
(* compile_source and model download over one directory, each run a        *)
(* process of its own that may stop at any step: a child fails, a parity   *)
(* threshold is not met, or the process is killed.                         *)
(*                                                                         *)
(* Files are written in place: a file is truncated, then filled.  What a   *)
(* file holds is what it was derived from.  The source directory is the    *)
(* one inside the work directory, also for compile_source and download,    *)
(* whose callers may name another.                                         *)
(***************************************************************************)
EXTENDS Integers, FiniteSets, Sequences

CONSTANTS
  Runs,         (* the invocations of the command line                     *)
  RequestOf,    (* what each of them asks for                              *)
  Revisions,    (* immutable commits of the repository                     *)
  Corpora,      (* corpus files                                            *)
  NoCorpus,     (* no held-out corpus                                      *)
  Absent,       (* there is no such file                                   *)
  Partial,      (* a file opened for writing and not filled                *)
  MaxRunning    (* bound: invocations that run at the same time            *)

(* The files a snapshot is recognised by, and one for all it has besides.  *)
Required == {"config", "tokenizer", "weights"}
SourceFiles == Required \cup {"other"}

Outputs ==
  {"observations", "rollouts", "held_out_observations", "held_out_rollouts",
   "artifact", "parity", "held_out_parity", "rollout_parity"}

Request ==
  [kind : {"build", "compile_source", "download"}, revision : Revisions,
   corpus : Corpora, held_out : Corpora \cup {NoCorpus}, rollouts : BOOLEAN]

(* What the observations, the artifact and the reports are derived from.   *)
Captures ==
  [corpus : Corpora, revision : Revisions, source : [SourceFiles -> Revisions \cup {Absent}]]
Artifacts == [compiled : Captures]
Reports == [artifact : Artifacts, measured : Captures]
Contents == Captures \cup Artifacts \cup Reports

(* Only model build takes a held-out corpus.                               *)
ASSUME RequestAssumption ==
  /\ RequestOf \in [Runs -> Request]
  /\ \A r \in Runs : RequestOf[r].kind # "build" => RequestOf[r].held_out = NoCorpus
ASSUME FileAssumption ==
  /\ NoCorpus \notin Corpora
  /\ Absent # Partial
  /\ Absent \notin Revisions \cup Contents
  /\ Partial \notin Contents
ASSUME MaxRunningAssumption == MaxRunning \in Nat \ {0}

VARIABLES
  stage,      (* where each run is                                         *)
  written,    (* how many outputs of its plan each run has written         *)
  held,       (* what each run has in memory                               *)
  source,     (* the revision each file of the source directory is of      *)
  pinned,     (* the revision in the metadata of config.json               *)
  source_dir, (* the source directory exists                               *)
  work        (* the outputs in the work directory                         *)

vars == <<stage, written, held, source, pinned, source_dir, work>>

-----------------------------------------------------------------------------
(* The outputs of a request in the order they are written.                 *)
CompilePlan(rollouts) ==
  IF rollouts THEN <<"observations", "rollouts", "artifact", "parity">>
  ELSE <<"observations", "artifact", "parity">>

BuildPlan(rollouts, held_out) ==
  CASE ~ rollouts /\ ~ held_out -> <<"observations", "artifact", "parity">>
    [] ~ rollouts /\ held_out ->
         <<"observations", "held_out_observations", "artifact", "parity", "held_out_parity">>
    [] rollouts /\ ~ held_out ->
         <<"observations", "rollouts", "artifact", "parity", "rollout_parity">>
    [] rollouts /\ held_out ->
         <<"observations", "rollouts", "held_out_observations", "held_out_rollouts",
           "artifact", "parity", "held_out_parity", "rollout_parity">>

Plan(q) ==
  CASE q.kind = "download" -> << >>
    [] q.kind = "compile_source" -> CompilePlan(q.rollouts)
    [] q.kind = "build" -> BuildPlan(q.rollouts, q.held_out # NoCorpus)

Asks(r) == RequestOf[r]
Planned(r) == {Plan(Asks(r))[i] : i \in DOMAIN Plan(Asks(r))}
AllWritten(r) == written[r] = Len(Plan(Asks(r)))
Output(r) == Plan(Asks(r))[written[r] + 1]

(* Mutant: the observations of an earlier run are no existing work.        *)
MeetsExistingFinalWork(r) ==
  \E o \in Planned(r) \ {"observations", "rollouts"} : work[o] # Absent

MeetsExistingWork(r) == \E o \in Planned(r) : work[o] # Absent

(* Mutant: the metadata of any revision will do.                           *)
VerifiedAnyRevision(revision) ==
  (\A f \in Required : source[f] # Absent) /\ pinned # Absent

(* verified_pinned_snapshot: three files, and the metadata of one of them. *)
Verified(revision) ==
  (\A f \in Required : source[f] # Absent) /\ pinned = revision

-----------------------------------------------------------------------------
Init ==
  /\ stage = [r \in Runs |-> "asked"]
  /\ written = [r \in Runs |-> 0]
  /\ held = [r \in Runs |-> Absent]
  /\ source = [f \in SourceFiles |-> Absent]
  /\ pinned = Absent
  /\ source_dir = FALSE
  /\ work = [o \in Outputs |-> Absent]

Running == {r \in Runs : stage[r] \notin {"asked", "done", "stopped"}}

Refused(r) ==
  CASE Asks(r).kind = "build" ->
         \/ Asks(r).held_out = Asks(r).corpus
         \/ source_dir /\ ~ Verified(Asks(r).revision)
         \/ MeetsExistingWork(r)
    [] Asks(r).kind = "compile_source" ->
         \/ \E f \in Required : source[f] = Absent
         \/ MeetsExistingWork(r)
    [] Asks(r).kind = "download" -> FALSE

(* The checks in front of a run change nothing but the run.                *)
Preflight(r) ==
  /\ stage[r] = "asked"
  /\ Cardinality(Running) < MaxRunning
  /\ stage' = [stage EXCEPT ![r] =
                 IF Refused(r) THEN "stopped"
                 ELSE IF Asks(r).kind = "compile_source" THEN "reading" ELSE "admitted"]
  /\ UNCHANGED <<written, held, source, pinned, source_dir, work>>

(* download looks at the snapshot once more, and makes the directory.      *)
Download(r) ==
  /\ stage[r] = "admitted"
  /\ IF Verified(Asks(r).revision)
     THEN stage' = [stage EXCEPT ![r] = "reading"] /\ UNCHANGED source_dir
     ELSE stage' = [stage EXCEPT ![r] = "fetching"] /\ source_dir' = TRUE
  /\ UNCHANGED <<written, held, source, pinned, work>>

(* hf fetches the files in any order, and the metadata after the file.     *)
FetchFile(r, f) ==
  /\ stage[r] = "fetching"
  /\ source[f] # Asks(r).revision
  /\ source' = [source EXCEPT ![f] = Asks(r).revision]
  /\ UNCHANGED <<stage, written, held, pinned, source_dir, work>>

PinConfig(r) ==
  /\ stage[r] = "fetching"
  /\ source["config"] = Asks(r).revision
  /\ pinned # Asks(r).revision
  /\ pinned' = Asks(r).revision
  /\ UNCHANGED <<stage, written, held, source, source_dir, work>>

EndDownload(r) ==
  /\ stage[r] = "fetching"
  /\ \A f \in SourceFiles : source[f] = Asks(r).revision
  /\ pinned = Asks(r).revision
  /\ stage' = [stage EXCEPT ![r] = "reading"]
  /\ UNCHANGED <<written, held, source, pinned, source_dir, work>>

-----------------------------------------------------------------------------
Capture(r, corpus) ==
  [corpus |-> corpus, revision |-> Asks(r).revision, source |-> source]

(* Mutant: held-out rollouts are measured against the construction ones.   *)
FromConstruction(r) ==
  CASE Output(r) = "observations" -> Capture(r, Asks(r).corpus)
    [] Output(r) = "held_out_observations" -> Capture(r, Asks(r).held_out)
    [] Output(r) = "artifact" -> [compiled |-> work["observations"]]
    [] Output(r) = "parity" ->
         [artifact |-> IF Asks(r).kind = "build" THEN work["artifact"] ELSE held[r],
          measured |-> work["observations"]]
    [] Output(r) = "held_out_parity" ->
         [artifact |-> work["artifact"], measured |-> work["held_out_observations"]]
    [] Output(r) = "rollout_parity" ->
         [artifact |-> work["artifact"], measured |-> work["rollouts"]]

(* What the run computes for its next output, from files it reads now.     *)
(* compile_source measures the artifact it still has in memory.            *)
From(r) ==
  CASE Output(r) = "observations" -> Capture(r, Asks(r).corpus)
    [] Output(r) = "held_out_observations" -> Capture(r, Asks(r).held_out)
    [] Output(r) = "artifact" -> [compiled |-> work["observations"]]
    [] Output(r) = "parity" ->
         [artifact |-> IF Asks(r).kind = "build" THEN work["artifact"] ELSE held[r],
          measured |-> work["observations"]]
    [] Output(r) = "held_out_parity" ->
         [artifact |-> work["artifact"], measured |-> work["held_out_observations"]]
    [] Output(r) = "rollout_parity" ->
         [artifact |-> work["artifact"],
          measured |-> work[IF Asks(r).held_out = NoCorpus THEN "rollouts"
                            ELSE "held_out_rollouts"]]

Read(r) ==
  /\ stage[r] = "reading"
  /\ ~ AllWritten(r)
  /\ held' = [held EXCEPT ![r] = From(r)]
  /\ stage' = [stage EXCEPT ![r] = "opening"]
  /\ UNCHANGED <<written, source, pinned, source_dir, work>>

Open(r) ==
  /\ stage[r] = "opening"
  /\ work' = [work EXCEPT ![Output(r)] = Partial]
  /\ stage' = [stage EXCEPT ![r] = "filling"]
  /\ UNCHANGED <<written, held, source, pinned, source_dir>>

(* The script of a capture writes its rollouts next, from the same run.    *)
Fill(r) ==
  /\ stage[r] = "filling"
  /\ work' = [work EXCEPT ![Output(r)] = held[r]]
  /\ written' = [written EXCEPT ![r] = @ + 1]
  /\ stage' = [stage EXCEPT ![r] =
                 IF /\ Output(r) \in {"observations", "held_out_observations"}
                    /\ Asks(r).rollouts
                 THEN "opening" ELSE "reading"]
  /\ UNCHANGED <<held, source, pinned, source_dir>>

Finish(r) ==
  /\ stage[r] = "reading"
  /\ AllWritten(r)
  /\ stage' = [stage EXCEPT ![r] = "done"]
  /\ UNCHANGED <<written, held, source, pinned, source_dir, work>>

Stop(r) ==
  /\ r \in Running
  /\ stage' = [stage EXCEPT ![r] = "stopped"]
  /\ UNCHANGED <<written, held, source, pinned, source_dir, work>>

Advance(r) ==
  \/ Preflight(r)
  \/ Download(r)
  \/ \E f \in SourceFiles : FetchFile(r, f)
  \/ PinConfig(r)
  \/ EndDownload(r)
  \/ Read(r)
  \/ Open(r)
  \/ Fill(r)
  \/ Finish(r)

Next == \E r \in Runs : Advance(r) \/ Stop(r)

Spec == Init /\ [][Next]_vars

-----------------------------------------------------------------------------
(* CP-02: once an output is written it never changes again, whichever run  *)
(* comes later and wherever the earlier ones stopped (the existence checks *)
(* of preflight_model_build, lib.rs:1205, against the writes after them).  *)
FinishedOutputsStay ==
  [][\A o \in Outputs : work[o] \notin {Absent, Partial} => work'[o] = work[o]]_vars

(* Whatever stopped where, the outputs in the directory are the first ones *)
(* of the plan of a single request, all but the last of them complete: no  *)
(* run continues the work of another (lib.rs:1091).                        *)
WorkIsOneRuns ==
  \E r \in Runs : \E n \in 0 .. Len(Plan(Asks(r))) :
    LET plan == Plan(Asks(r))
    IN  /\ {o \in Outputs : work[o] # Absent} = {plan[i] : i \in 1 .. n}
        /\ \A i \in 1 .. n - 1 : work[plan[i]] # Partial
        /\ n > 0 /\ work["observations"] # Partial =>
             /\ work["observations"].corpus = Asks(r).corpus
             /\ work["observations"].revision = Asks(r).revision

(* The observations a build captures are of the revision they claim: a     *)
(* snapshot it reuses has no file of another one (lib.rs:1200).            *)
BuildsCaptureTheirRevision ==
  \A r \in Runs :
    Asks(r).kind = "build" /\ stage[r] \in {"opening", "filling"} /\ written[r] = 0 =>
      \A f \in SourceFiles : held[r].source[f] \in {Absent, Asks(r).revision}

(* What a run that succeeded leaves: an artifact compiled from its own     *)
(* observations, and reports that measure that artifact on the corpus each *)
(* of them is about, whatever other runs came before or after (lib.rs:1091 *)
(* and compile_source, lib.rs:939).                                        *)
DoneIsConsistent ==
  \A r \in Runs : stage[r] = "done" /\ Asks(r).kind # "download" =>
    LET q == Asks(r)
        Measures(report, corpus) ==
          work[report].artifact = work["artifact"] /\ work[report].measured.corpus = corpus
        last == IF q.held_out = NoCorpus THEN q.corpus ELSE q.held_out
    IN  /\ work["observations"].corpus = q.corpus
        /\ work["observations"].revision = q.revision
        /\ work["artifact"].compiled = work["observations"]
        /\ Measures("parity", q.corpus)
        /\ q.held_out # NoCorpus => Measures("held_out_parity", q.held_out)
        /\ q.kind = "build" /\ q.rollouts => Measures("rollout_parity", last)

(* download: "Downloads an immutable source snapshot", "reusing verified    *)
(* pinned source snapshot".  When it succeeds, the directory has no file   *)
(* of another revision than the one asked for (lib.rs:736).                *)
DownloadGivesTheRevision ==
  [][\A r \in Runs :
       Asks(r).kind = "download" /\ stage[r] # "done" /\ stage'[r] = "done" =>
         \A f \in SourceFiles : source[f] \in {Absent, Asks(r).revision}]_vars
=============================================================================
