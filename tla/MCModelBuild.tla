---------------------------- MODULE MCModelBuild ----------------------------
(***************************************************************************)
(* Invocations that differ in revision, corpora and reports, in any order, *)
(* each stopping anywhere.                                                 *)
(***************************************************************************)
EXTENDS ModelBuild

CONSTANTS a, b, train, test

MCRevisions == {a, b}
MCCorpora == {train, test}

Ask(kind, revision, corpus, held_out, rollouts) ==
  [kind |-> kind, revision |-> revision, corpus |-> corpus, held_out |-> held_out,
   rollouts |-> rollouts]

(* One after another: full and plain builds, a build of another revision,  *)
(* and the typed entry point over what they downloaded.                    *)
MCRequests ==
  << Ask("build", a, train, test, TRUE),
     Ask("build", a, test, NoCorpus, FALSE),
     Ask("build", b, train, NoCorpus, TRUE),
     Ask("compile_source", a, test, NoCorpus, TRUE) >>

(* A directory moved from one revision to another.                         *)
MCDownloads ==
  << Ask("download", a, train, NoCorpus, FALSE), Ask("download", b, train, NoCorpus, FALSE),
     Ask("download", b, train, NoCorpus, FALSE) >>

MCRuns == DOMAIN MCRequests
MCDownloadRuns == DOMAIN MCDownloads
=============================================================================
