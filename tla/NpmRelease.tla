----------------------------- MODULE NpmRelease -----------------------------
(***************************************************************************)
(* The release of a version to npm: the candidate and publish workflows    *)
(* (.github/workflows/npm-release-candidate.yml, npm-publish.yml) with the *)
(* checks they run (scripts/trusted-release.mjs).  People dispatch them    *)
(* with whatever inputs, main and its CI go on meanwhile, a runner may be  *)
(* lost, a registry write may fail with or without effect and registry     *)
(* reads lag behind it.  Archives packed by hand (CandidatePacking) may be *)
(* published from the command line.                                        *)
(*                                                                         *)
(* The registry is the sequence of the versions written to it, each of     *)
(* which moved latest.  A read sees a prefix of it, which may differ from  *)
(* read to read, for the versions and for the tags, but holds what has     *)
(* reached every reader.                                                   *)
(***************************************************************************)
EXTENDS CandidatePacking

CONSTANTS
  Candidates,   (* Runs of the candidate workflow.                         *)
  Publications, (* Runs of the publish workflow.                           *)
  MaxReads,     (* One more than the delays of registryReadDelays.         *)
  MaxReruns     (* Bound on the reruns of the failed job of a publication. *)

ASSUME ReleaseAssumption ==
  /\ MaxReads \in Nat \ {0}
  /\ MaxReruns \in Nat

VARIABLES
  main,      (* The commit main is at.                                     *)
  green,     (* Whether the newest CI run of that commit has passed.       *)
  cand,      (* The candidate runs.                                        *)
  pub,       (* The publish runs.                                          *)
  log,       (* The registry: what was written, in order.                  *)
  settled    (* How much of it has reached every reader.                   *)

repository == <<main, green>>
registry   == <<log, settled>>
vars == <<builds, packing, repository, cand, pub, registry>>

NewCandidate == [step |-> "none", sha |-> 0, version |-> 0, build |-> 0, expired |-> FALSE]

\* The inputs and the steps of a publish run.
NewPublication ==
  [step |-> "none", job |-> "verify", reruns |-> 0,
   version |-> 0, sha |-> 0, from |-> 0, integrity |-> 0,
   artifact |-> 0, seen |-> 0, ok |-> TRUE, reads |-> 0, receipt |-> "none"]

Init ==
  /\ PackingInit
  /\ main = 1
  /\ green = FALSE
  /\ cand = [c \in Candidates |-> NewCandidate]
  /\ pub = [p \in Publications |-> NewPublication]
  /\ log = << >> /\ settled = 0

-----------------------------------------------------------------------------
(* main and its CI.                                                        *)

Merge ==
  /\ main + 1 \in Commits
  /\ main' = main + 1 /\ green' = FALSE
  /\ UNCHANGED <<builds, packing, cand, pub, registry>>

\* A run passes; or a newer one, or a rerun, is queued, fails or is cancelled.
CiMovesOn ==
  /\ green' = ~green
  /\ UNCHANGED <<builds, packing, main, cand, pub, registry>>

\* checkMain, in a run of revision sha.
MainIsGreen(sha) == sha = main /\ green

-----------------------------------------------------------------------------
(* The registry.                                                           *)

Latest(n) == IF n = 0 THEN 0 ELSE log[n].version
Sees(n, v) == \E i \in 1..n : log[i].version = v
Entry(v) == CHOOSE e \in {log[i] : i \in 1..Len(log)} : e.version = v

\* Faulty: versions are not compared.
IsNewAnywhere(v, i, j) == ~Sees(i, v)

\* validateNewVersion, of reads that see i versions and the tags of j.
IsNew(v, i, j) == ~Sees(i, v) /\ v > Latest(j)

Reads == settled..Len(log)

Propagates ==
  /\ settled < Len(log)
  /\ settled' = settled + 1
  /\ UNCHANGED <<builds, packing, repository, cand, pub, log>>

\* The registry takes a version once.
Writes(v, b, sha) ==
  log' = Append(log, [version |-> v, build |-> b, claim |-> sha])

\* npm publish of the archive in artifacts/, which its evidence shows to be clean.
CliPublishes ==
  /\ evidence # NoEvidence /\ ~evidence.tree.dirty
  /\ ~Sees(Len(log), evidence.version)
  /\ Writes(evidence.version, archives[evidence.version], evidence.tree.commit)
  /\ UNCHANGED <<builds, packing, repository, cand, pub, settled>>

-----------------------------------------------------------------------------
(* The candidate workflow, one run at a time.                              *)

CandidateSteps == {"gate", "pack", "regate"}

\* The record of run c becomes x; what becomes of the builds is left to the action.
Candidate(c, x) ==
  /\ cand' = [cand EXCEPT ![c] = x]
  /\ UNCHANGED <<packing, repository, pub, registry>>

Prepare(c, v) ==
  /\ cand[c].step = "none" /\ \A d \in Candidates : cand[d].step \notin CandidateSteps
  /\ Candidate(c, [NewCandidate EXCEPT !.step = "gate", !.sha = main, !.version = v])
  /\ UNCHANGED builds

\* gate, the version of package.json, and before.
CandidateGate(c) ==
  /\ cand[c].step = "gate"
  /\ MainIsGreen(cand[c].sha) /\ VersionOf[cand[c].sha] = cand[c].version
  /\ \E i, j \in Reads : IsNew(cand[c].version, i, j)
  /\ Candidate(c, [cand[c] EXCEPT !.step = "pack"])
  /\ UNCHANGED builds

\* release:pack in a clean checkout of the revision.
CandidatePacks(c) ==
  /\ cand[c].step = "pack" /\ Len(builds) < MaxBuilds
  /\ builds' = Append(builds, Clean(cand[c].sha))
  /\ Candidate(c, [cand[c] EXCEPT !.step = "regate", !.build = Len(builds) + 1])

\* gate again, and the upload of the archive and its evidence.
CandidateUploads(c) ==
  /\ cand[c].step = "regate"
  /\ MainIsGreen(cand[c].sha)
  /\ Candidate(c, [cand[c] EXCEPT !.step = "success"])
  /\ UNCHANGED builds

\* A check fails, or the runner is lost.
CandidateFails(c) ==
  /\ cand[c].step \in CandidateSteps
  /\ Candidate(c, [cand[c] EXCEPT !.step = "failed"])
  /\ UNCHANGED builds

\* The retention of the artifact is over.
Expires(c) ==
  /\ cand[c].step = "success" /\ ~cand[c].expired
  /\ Candidate(c, [cand[c] EXCEPT !.expired = TRUE])
  /\ UNCHANGED builds

-----------------------------------------------------------------------------
(* The publish workflow, one run at a time: the jobs verify, publish and   *)
(* registry-consumers.                                                     *)

Running(p) == pub[p].step \notin {"none", "failed", "done"}

\* The record of run p becomes x; what becomes of the registry is left to the action.
Publication(p, x) ==
  /\ pub' = [pub EXCEPT ![p] = x]
  /\ UNCHANGED <<builds, packing, repository, cand, settled>>

\* What a run keeps when a job of it ends.
Stopped(r) == [r EXCEPT !.step = "failed", !.seen = 0, !.ok = TRUE, !.reads = 0]

FirstStep(job) ==
  CASE job = "verify" -> "select" [] job = "publish" -> "recheck" [] job = "consumers" -> "install"

\* Someone dispatches a run, with inputs that need not fit together; validateContext refuses
\* at once a source_sha other than the revision of the run, which is that of main.
Dispatch(p) ==
  /\ pub[p].step = "none" /\ \A q \in Publications : ~Running(q)
  /\ \E v \in Versions, c \in Candidates, b \in 1..Len(builds) :
       Publication(p, [NewPublication EXCEPT !.step = "select", !.sha = main, !.version = v,
                                       !.from = c, !.integrity = b])
  /\ UNCHANGED log

\* The failed job of a run is run again.
Rerun(p) ==
  /\ pub[p].step = "failed" /\ pub[p].reruns < MaxReruns
  /\ \A q \in Publications : ~Running(q)
  /\ Publication(p, [pub[p] EXCEPT !.step = FirstStep(pub[p].job), !.reruns = @ + 1])
  /\ UNCHANGED log

\* select: checkMain, validateRun of the candidate run, selectArtifact.
Select(p) ==
  /\ pub[p].step = "select"
  /\ MainIsGreen(pub[p].sha)
  /\ LET c == cand[pub[p].from] IN
       /\ c.step = "success" /\ c.sha = pub[p].sha
       /\ c.version = pub[p].version /\ ~c.expired
  /\ Publication(p, [pub[p] EXCEPT !.step = "verify", !.artifact = pub[p].from])
  /\ UNCHANGED log

\* download-artifact, and verifyArtifact with validateEvidence of what it holds.
ArtifactFits(p) ==
  LET c == cand[pub[p].artifact] IN
    /\ ~c.expired
    /\ c.build = pub[p].integrity /\ c.sha = pub[p].sha /\ c.version = pub[p].version

\* artifact, and both consumers.
Verify(p) ==
  /\ pub[p].step = "verify" /\ ArtifactFits(p)
  /\ Publication(p, [pub[p] EXCEPT !.step = "recheck", !.job = "publish"])
  /\ UNCHANGED log

\* gate, artifact and before, in the job that may write.
Recheck(p) ==
  /\ pub[p].step = "recheck" /\ ArtifactFits(p)
  /\ MainIsGreen(pub[p].sha)
  /\ \E i, j \in Reads :
       /\ IsNew(pub[p].version, i, j)
       /\ Publication(p, [pub[p] EXCEPT !.step = "write", !.seen = j])
  /\ UNCHANGED log

\* npm publish: it takes effect or not, and its response is lost or not.
Write(p) ==
  /\ pub[p].step = "write"
  /\ \/ /\ ~Sees(Len(log), pub[p].version)
        /\ Writes(pub[p].version, cand[pub[p].artifact].build, pub[p].sha)
        /\ \E ok \in BOOLEAN : Publication(p, [pub[p] EXCEPT !.step = "read", !.ok = ok])
     \/ /\ Publication(p, [pub[p] EXCEPT !.step = "read", !.ok = FALSE])
        /\ UNCHANGED log

\* Faulty: that the version is there is enough.
EntryNamed(p, n) == Sees(n, pub[p].version)

\* validateRegistryEntry, of a read that sees n versions.
EntryFits(p, n) == Sees(n, pub[p].version) /\ Entry(pub[p].version).build = pub[p].integrity

\* after: one read shows the version, its bytes and the tag; then the receipt is uploaded
\* and, if the write was answered, the job has succeeded.
Read(p) ==
  /\ pub[p].step = "read"
  /\ \E i, j \in Reads : EntryFits(p, i) /\ Latest(j) = pub[p].version
  /\ LET x == [Stopped(pub[p]) EXCEPT !.receipt = "registry"] IN
       Publication(p, IF pub[p].ok THEN [x EXCEPT !.step = "install", !.job = "consumers"] ELSE x)
  /\ UNCHANGED log

\* Faulty: reads are repeated until the publication shows, and counted round and round.
ReadsOn(p) ==
  /\ pub[p].step = "read"
  /\ Publication(p, [pub[p] EXCEPT !.reads = (@ + 1) % MaxReads])
  /\ UNCHANGED log

\* What a read shows is not wrong, but the version, the tag or the archive lags behind.
ReadsAgain(p) ==
  /\ pub[p].step = "read" /\ pub[p].reads + 1 < MaxReads
  /\ \E i, j \in Reads :
       /\ Latest(j) \in {Latest(pub[p].seen), pub[p].version}
       /\ Sees(i, pub[p].version) => EntryFits(p, i)
  /\ Publication(p, [pub[p] EXCEPT !.reads = @ + 1])
  /\ UNCHANGED log

\* registry-consumers: both install the exact version, and the receipt is completed.
Consume(p) ==
  /\ pub[p].step = "install"
  /\ \E n \in Reads : EntryFits(p, n)
  /\ Publication(p, [pub[p] EXCEPT !.step = "done", !.receipt = "complete"])
  /\ UNCHANGED log

\* A step fails, is cancelled or times out, or the runner is lost.
Fails(p) ==
  /\ Running(p)
  /\ Publication(p, Stopped(pub[p]))
  /\ UNCHANGED log

-----------------------------------------------------------------------------
CandidateStep(c) ==
  CandidateGate(c) \/ CandidatePacks(c) \/ CandidateUploads(c) \/ CandidateFails(c)

PublishStep(p) ==
  \/ Select(p) \/ Verify(p) \/ Recheck(p) \/ Write(p)
  \/ Read(p) \/ ReadsAgain(p) \/ Consume(p) \/ Fails(p)

\* Bound: archives are packed by hand before the first publish run, which meets a packing
\* only in what CliPublishes takes from it, at any time.
PackingFirst == \A p \in Publications : pub[p].step = "none"
PackingOver  == pack = NoPack

Next ==
  \/ PackingFirst /\ PackingNext /\ UNCHANGED <<repository, cand, pub, registry>>
  \/ Merge \/ CiMovesOn \/ Propagates \/ CliPublishes
  \/ \E c \in Candidates : Expires(c) \/ CandidateStep(c) \/ \E v \in Versions : Prepare(c, v)
  \/ \E p \in Publications : (PackingOver /\ Dispatch(p)) \/ Rerun(p) \/ PublishStep(p)

Spec == Init /\ [][Next]_vars

\* Every job has a timeout (timeout-minutes): each of its steps ends, one way or another.
FairSpec == Spec /\ \A p \in Publications : WF_vars(PublishStep(p))

-----------------------------------------------------------------------------
\* Every archive on the registry passed the consumers and was built from the clean commit
\* that the receipt or the evidence it was published with names, which has that version:
\* whatever was dispatched, rerun, expired, merged or packed over meanwhile (verifyArtifact,
\* promoteCandidate).
PublishedAsClaimed ==
  \A n \in 1..Len(log) :
    LET e == log[n] IN
      /\ VersionOf[e.claim] = e.version
      /\ builds[e.build] = Clean(e.claim)

\* A run that has written a receipt names what the registry holds, although the write may
\* have failed because somebody published other bytes as this version (main, after).
ReceiptTrue ==
  \A p \in Publications :
    pub[p].receipt # "none" =>
      \E n \in 1..Len(log) :
        log[n].version = pub[p].version /\ log[n].build = pub[p].integrity

\* A run moves latest back only past versions which the tags it read before did not show yet:
\* of a registry that lags, or of a publisher who came in between (validateNewVersion,
\* "Refuse latest downgrade or reuse").
NoDowngrade ==
  [][\A p \in Publications :
       Write(p) /\ Latest(Len(log))' < Latest(Len(log)) => pub[p].seen < Len(log)]_vars

\* A publish run ends, even when what it wrote never shows (readPublishedRegistry).
RunsEnd == \A p \in Publications : Running(p) ~> ~Running(p)
=============================================================================
