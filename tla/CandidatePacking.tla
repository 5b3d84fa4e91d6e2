-------------------------- MODULE CandidatePacking --------------------------
(***************************************************************************)
(* pnpm release:pack on a maintainer's checkout (scripts/preview-pack.mjs) *)
(* and the promotion of what it verified (scripts/promote-candidate.mjs).  *)
(* The process may be interrupted between any two of its steps, and the    *)
(* checkout may change under it, for good: it is compared at the two ends. *)
(* A build is the bytes of one archive, known by its hash; each npm pack   *)
(* gives a new one.                                                        *)
(***************************************************************************)
EXTENDS Naturals, Sequences

CONSTANTS
  VersionOf,   (* The version in package.json of each commit: 0.x.y, in order. *)
  MaxBuilds    (* Bound on the archives built.                             *)

Commits  == DOMAIN VersionOf
Versions == {VersionOf[c] : c \in Commits}

ASSUME VersionAssumption ==
  /\ VersionOf \in Seq(Nat \ {0}) /\ VersionOf # << >>
  /\ MaxBuilds \in Nat

VARIABLES
  builds,    (* The builds which both consumers accepted: the tree each    *)
             (* was made of.                                               *)
  pack,      (* The running release:pack: its step, the tree it started    *)
             (* from, the tree as it is now and the archive it staged.     *)
  archives,  (* The archive of each version in artifacts/, 0 for none.     *)
  evidence   (* release-evidence.json there, or NoEvidence.                *)

packing == <<pack, archives, evidence>>

\* A checkout: HEAD, and whether git status shows changes.
Trees == [commit : Commits, dirty : BOOLEAN]
Clean(c) == [commit |-> c, dirty |-> FALSE]

NoEvidence == [version |-> 0]
NoPack == [step |-> "idle"]

Evidence(t, b) == [version |-> VersionOf[t.commit], tree |-> t, build |-> b]

PackingInit ==
  /\ builds = << >>
  /\ pack = NoPack
  /\ archives = [v \in Versions |-> 0]
  /\ evidence = NoEvidence

-----------------------------------------------------------------------------
PackStarts ==
  /\ pack = NoPack
  /\ \E t \in Trees : pack' = [step |-> "pack", from |-> t, now |-> t, build |-> 0]
  /\ UNCHANGED <<builds, archives, evidence>>

\* Somebody edits the checkout or goes on to a later commit, before it is looked at again.
TreeChanges ==
  /\ pack.step \in {"pack", "check"}
  /\ \/ ~pack.now.dirty /\ pack' = [pack EXCEPT !.now.dirty = TRUE]
     \/ \E t \in Trees : t.commit > pack.now.commit /\ pack' = [pack EXCEPT !.now = t]
  /\ UNCHANGED <<builds, archives, evidence>>

\* npm pack, of the files as they are now; the archive is staged, and both consumers accept
\* it.  When one does not, PackEnds.
Pack ==
  /\ pack.step = "pack" /\ Len(builds) < MaxBuilds
  /\ builds' = Append(builds, pack.now)
  /\ pack' = [pack EXCEPT !.step = "check", !.build = Len(builds) + 1]
  /\ UNCHANGED <<archives, evidence>>

\* Faulty: the checkout is not looked at again.
StageUnchecked ==
  /\ pack.step = "check"
  /\ evidence' = NoEvidence
  /\ pack' = [pack EXCEPT !.step = "archive"]
  /\ UNCHANGED <<builds, archives>>

\* Faulty: the evidence of the last candidate stays until it is replaced.
StageBeside ==
  /\ pack.step = "check" /\ pack.now = pack.from
  /\ pack' = [pack EXCEPT !.step = "archive"]
  /\ UNCHANGED <<builds, archives, evidence>>

\* HEAD and the status are as at the start; promoteCandidate begins, and removes the
\* evidence of the last candidate.
Stage ==
  /\ pack.step = "check" /\ pack.now = pack.from
  /\ evidence' = NoEvidence
  /\ pack' = [pack EXCEPT !.step = "archive"]
  /\ UNCHANGED <<builds, archives>>

PromoteArchive ==
  /\ pack.step = "archive"
  /\ archives' = [archives EXCEPT ![VersionOf[builds[pack.build].commit]] = pack.build]
  /\ pack' = [pack EXCEPT !.step = "evidence"]
  /\ UNCHANGED <<builds, evidence>>

PromoteEvidence ==
  /\ pack.step = "evidence"
  /\ evidence' = Evidence(pack.from, pack.build)
  /\ pack' = NoPack
  /\ UNCHANGED <<builds, archives>>

\* It fails, or is interrupted, before any of its steps.
PackEnds ==
  /\ pack # NoPack
  /\ pack' = NoPack
  /\ UNCHANGED <<builds, archives, evidence>>

PackingNext ==
  \/ PackStarts \/ TreeChanges \/ Pack \/ Stage
  \/ PromoteArchive \/ PromoteEvidence \/ PackEnds

-----------------------------------------------------------------------------
\* Evidence in artifacts/ is of the archive beside it, which was built from the tree it names:
\* wherever release:pack was interrupted and whatever happened to the checkout meanwhile
\* (promoteCandidate; RELEASING.md: "Never pair a tarball with older evidence").
EvidenceTrue ==
  evidence # NoEvidence =>
    /\ archives[evidence.version] = evidence.build
    /\ builds[evidence.build] = evidence.tree
=============================================================================
