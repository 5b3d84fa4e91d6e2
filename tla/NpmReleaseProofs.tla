-------------------------- MODULE NpmReleaseProofs --------------------------
(***************************************************************************)
(* What release:pack and the release workflows keep true, for every number *)
(* of commits, builds, candidates, publications, reads and reruns.         *)
(***************************************************************************)
EXTENDS NpmRelease, TLAPS

(* release:pack.  The tree an archive was made of lies between the one the *)
(* process started from and the one the checkout is at: when those two are *)
(* the same, it is that one too.                                           *)

Before(t, u) ==
  /\ t.commit =< u.commit
  /\ t.commit = u.commit => (t.dirty => u.dirty)

PackSteps == {"pack", "check", "archive", "evidence"}
Packs == [step : PackSteps, from : Trees, now : Trees, build : Nat]
Evidences == [version : Versions, tree : Trees, build : Nat]

PackType ==
  /\ builds \in Seq(Trees)
  /\ archives \in [Versions -> Nat]
  /\ pack \in {NoPack} \cup Packs
  /\ evidence \in {NoEvidence} \cup Evidences

Packed ==
  /\ pack # NoPack => Before(pack.from, pack.now)
  /\ pack.step = "check" =>
       /\ pack.build \in 1..Len(builds)
       /\ Before(pack.from, builds[pack.build]) /\ Before(builds[pack.build], pack.now)
  /\ pack.step \in {"archive", "evidence"} =>
       /\ pack.build \in 1..Len(builds)
       /\ builds[pack.build] = pack.from
       /\ evidence = NoEvidence
  /\ pack.step = "evidence" => archives[VersionOf[pack.from.commit]] = pack.build

Paired ==
  evidence # NoEvidence =>
    /\ evidence.build \in 1..Len(builds)
    /\ evidence.version = VersionOf[evidence.tree.commit]

PackInv == PackType /\ Packed /\ Paired /\ EvidenceTrue

\* What another builder of archives does to the sequence of the builds.
Grows ==
  /\ builds' \in Seq(Trees)
  /\ Len(builds) =< Len(builds')
  /\ \A b \in 1..Len(builds) : builds'[b] = builds[b]

-----------------------------------------------------------------------------
LEMMA CommitFacts ==
  /\ Commits \subseteq Nat /\ 1 \in Commits
  /\ \A c \in Commits : VersionOf[c] \in Versions /\ VersionOf[c] \in Nat \ {0}
  /\ \A c \in Commits : Clean(c) \in Trees
BY VersionAssumption DEF Commits, Versions, Clean, Trees

LEMMA SameTruth ==
  ASSUME NEW x \in {TRUE, FALSE}, NEW y \in {TRUE, FALSE}, x => y, y => x
  PROVE  x = y
<1>1. CASE x = TRUE
  BY <1>1
<1>2. CASE x = FALSE
  BY <1>2
<1>. QED BY <1>1, <1>2

LEMMA Antisymmetry ==
  ASSUME NEW t \in Trees, NEW u \in Trees, Before(t, u), Before(u, t)
  PROVE  t = u
<1>1. t.commit \in Nat /\ u.commit \in Nat
  BY CommitFacts DEF Trees
<1>2. t.commit = u.commit
  BY <1>1 DEF Before
<1>3. t.dirty \in {TRUE, FALSE} /\ u.dirty \in {TRUE, FALSE}
  BY DEF Trees
<1>4. (t.dirty => u.dirty) /\ (u.dirty => t.dirty)
  BY <1>2, Zenon DEF Before
<1>5. t.dirty = u.dirty
  BY <1>3, <1>4, SameTruth, Zenon
<1>. QED BY <1>2, <1>5 DEF Trees

LEMMA BeforeChain ==
  ASSUME NEW t \in Trees, NEW u \in Trees, NEW w \in Trees, Before(t, u), Before(u, w)
  PROVE  Before(t, w)
<1>1. t.commit \in Nat /\ u.commit \in Nat /\ w.commit \in Nat
  BY CommitFacts DEF Trees
<1>2. t.commit =< w.commit /\ (t.commit = w.commit => t.commit = u.commit /\ u.commit = w.commit)
  BY <1>1 DEF Before
<1>. QED BY <1>2, Zenon DEF Before

LEMMA BeforeSelf == ASSUME NEW t \in Trees PROVE Before(t, t)
<1>1. t.commit \in Nat
  BY CommitFacts DEF Trees
<1>2. t.commit =< t.commit
  BY <1>1
<1>. QED BY <1>2, Zenon DEF Before

\* What TreeChanges does leads to a later tree.
LEMMA ChangedLater ==
  ASSUME NEW t \in Trees, NEW u \in Trees,
         \/ ~t.dirty /\ u = [t EXCEPT !.dirty = TRUE]
         \/ u.commit > t.commit
  PROVE  Before(t, u)
<1>1. t.commit \in Nat /\ u.commit \in Nat
  BY CommitFacts DEF Trees
<1>2. CASE u = [t EXCEPT !.dirty = TRUE]
  BY <1>1, <1>2 DEF Before, Trees
<1>3. CASE u.commit > t.commit
  BY <1>1, <1>3 DEF Before
<1>. QED BY <1>2, <1>3

LEMMA BuildAppended ==
  ASSUME builds \in Seq(Trees), NEW t \in Trees, builds' = Append(builds, t)
  PROVE  /\ Grows
         /\ Len(builds') = Len(builds) + 1
         /\ builds'[Len(builds) + 1] = t
BY DEF Grows

-----------------------------------------------------------------------------
LEMMA PackingInitially == PackingInit => PackInv
BY DEF PackingInit, PackInv, PackType, Packed, Paired, EvidenceTrue, NoPack, NoEvidence

LEMMA PackingKeeps ==
  ASSUME PackInv, PackingNext
  PROVE  PackInv' /\ Grows
<1>. USE DEF PackInv, PackType
<1>0. NoPack \notin Packs /\ NoEvidence \notin Evidences /\ NoPack.step = "idle"
  BY DEF NoPack, Packs, NoEvidence, Evidences
<1>s. builds' = builds => Grows
  BY DEF Grows
<1>1. CASE PackStarts
  <2>1. PICK t \in Trees : pack' = [step |-> "pack", from |-> t, now |-> t, build |-> 0]
    BY <1>1 DEF PackStarts
  <2>2. pack' \in Packs
    BY <2>1 DEF Packs, PackSteps
  <2>3. Packed'
    BY <1>1, <2>1, BeforeSelf DEF PackStarts, Packed
  <2>. QED BY <1>1, <2>2, <2>3, <1>s DEF PackStarts, Paired, EvidenceTrue
<1>2. CASE TreeChanges
  <2>1. pack \in Packs
    BY <1>2, <1>0 DEF TreeChanges
  <2>2. /\ pack'.from = pack.from /\ pack'.build = pack.build /\ pack'.step = pack.step
        /\ pack'.now \in Trees /\ pack' \in Packs
        /\ \/ ~pack.now.dirty /\ pack'.now = [pack.now EXCEPT !.dirty = TRUE]
           \/ pack'.now.commit > pack.now.commit
    <3>1. CASE ~pack.now.dirty /\ pack' = [pack EXCEPT !.now.dirty = TRUE]
      BY <2>1, <3>1 DEF Packs, Trees
    <3>2. CASE \E t \in Trees : t.commit > pack.now.commit /\ pack' = [pack EXCEPT !.now = t]
      BY <2>1, <3>2 DEF Packs
    <3>. QED BY <1>2, <3>1, <3>2 DEF TreeChanges
  <2>3. Before(pack.now, pack'.now)
    BY <2>1, <2>2, ChangedLater DEF Packs
  <2>4. pack.from \in Trees /\ pack.now \in Trees
    BY <2>1 DEF Packs
  <2>5. Before(pack.from, pack'.now)
    BY <2>1, <2>2, <2>3, <2>4, <1>0, BeforeChain DEF Packed
  <2>6. pack.step = "check" => Before(builds[pack.build], pack'.now)
    BY <2>2, <2>3, <2>4, BeforeChain DEF Packed
  <2>7. Packed'
    BY <1>2, <2>2, <2>5, <2>6 DEF TreeChanges, Packed
  <2>. QED BY <1>2, <2>2, <2>7, <1>s DEF TreeChanges, Paired, EvidenceTrue
<1>3. CASE Pack
  <2>1. pack \in Packs /\ pack.from \in Trees /\ pack.now \in Trees
    BY <1>3, <1>0 DEF Pack, Packs
  <2>2. Grows /\ Len(builds') = Len(builds) + 1 /\ builds'[Len(builds) + 1] = pack.now
    BY <1>3, <2>1, BuildAppended DEF Pack
  <2>3. /\ pack' \in Packs /\ pack'.step = "check" /\ pack'.build = Len(builds) + 1
        /\ pack'.from = pack.from /\ pack'.now = pack.now
    <3>1. Len(builds) + 1 \in Nat
      OBVIOUS
    <3>. QED BY <1>3, <2>1, <3>1 DEF Pack, Packs, PackSteps
  <2>4. Before(pack.from, pack.now)
    BY <2>1, <1>0 DEF Packed
  <2>5. Packed'
    BY <2>1, <2>2, <2>3, <2>4, BeforeSelf DEF Packed, Grows
  <2>6. Paired' /\ EvidenceTrue'
    BY <1>3, <2>2 DEF Pack, Paired, EvidenceTrue, Grows
  <2>. QED BY <1>3, <2>2, <2>3, <2>5, <2>6 DEF Pack, Grows
<1>4. CASE Stage
  <2>1. pack \in Packs /\ pack.from \in Trees /\ pack.now = pack.from
    BY <1>4, <1>0 DEF Stage, Packs
  <2>2. /\ pack' \in Packs /\ pack'.step = "archive" /\ pack'.build = pack.build
        /\ pack'.from = pack.from /\ pack'.now = pack.now
    BY <1>4, <2>1 DEF Stage, Packs, PackSteps
  <2>3. pack.build \in 1..Len(builds) /\ builds[pack.build] \in Trees
    BY <1>4 DEF Stage, Packed
  <2>4. builds[pack.build] = pack.from
    BY <1>4, <2>1, <2>3, Antisymmetry DEF Stage, Packed
  <2>5. Packed'
    BY <1>4, <2>1, <2>2, <2>3, <2>4, BeforeSelf DEF Stage, Packed
  <2>. QED BY <1>4, <2>2, <2>5, <1>s DEF Stage, Paired, EvidenceTrue
<1>5. CASE PromoteArchive
  <2>1. pack \in Packs
    BY <1>5, <1>0 DEF PromoteArchive
  <2>2. /\ pack' \in Packs /\ pack'.step = "evidence" /\ pack'.build = pack.build
        /\ pack'.from = pack.from /\ pack'.now = pack.now
    BY <1>5, <2>1 DEF PromoteArchive, Packs, PackSteps
  <2>3. VersionOf[pack.from.commit] \in Versions
    BY <2>1, CommitFacts DEF Packs, Trees
  <2>4. archives' = [archives EXCEPT ![VersionOf[pack.from.commit]] = pack.build]
    BY <1>5 DEF PromoteArchive, Packed
  <2>5. archives' \in [Versions -> Nat]
    BY <2>1, <2>4 DEF Packs
  <2>6. Packed'
    BY <1>5, <1>0, <2>1, <2>2, <2>3, <2>4 DEF PromoteArchive, Packed
  <2>7. Paired' /\ EvidenceTrue'
    BY <1>5 DEF PromoteArchive, Packed, Paired, EvidenceTrue
  <2>. QED BY <1>5, <2>2, <2>5, <2>6, <2>7, <1>s DEF PromoteArchive
<1>6. CASE PromoteEvidence
  <2>1. pack \in Packs /\ pack.from \in Trees /\ pack.build \in Nat
    BY <1>6, <1>0 DEF PromoteEvidence, Packs
  <2>2. VersionOf[pack.from.commit] \in Versions
    BY <2>1, CommitFacts DEF Trees
  <2>3. evidence' \in Evidences /\ pack' = NoPack
    BY <1>6, <2>1, <2>2 DEF PromoteEvidence, Evidence, Evidences
  <2>4. Packed'
    BY <2>3, <1>0 DEF Packed
  <2>5. Paired' /\ EvidenceTrue'
    BY <1>6 DEF PromoteEvidence, Evidence, Packed, Paired, EvidenceTrue
  <2>. QED BY <1>6, <2>3, <2>4, <2>5, <1>s DEF PromoteEvidence
<1>7. CASE PackEnds
  <2>1. Packed'
    BY <1>7, <1>0 DEF PackEnds, Packed
  <2>. QED BY <1>7, <2>1, <1>s DEF PackEnds, Paired, EvidenceTrue
<1>. QED BY <1>1, <1>2, <1>3, <1>4, <1>5, <1>6, <1>7 DEF PackingNext

\* A build made elsewhere disturbs nothing of it.
LEMMA PackingUndisturbed ==
  ASSUME PackInv, Grows, UNCHANGED packing
  PROVE  PackInv'
<1>1. PackType'
  BY DEF PackInv, PackType, Grows, packing
<1>2. Packed'
  BY DEF PackInv, Packed, Grows, packing
<1>3. Paired' /\ EvidenceTrue'
  BY DEF PackInv, Paired, EvidenceTrue, Grows, packing
<1>. QED BY <1>1, <1>2, <1>3 DEF PackInv

-----------------------------------------------------------------------------
(* The workflows.  A candidate that has succeeded never changes again, and *)
(* the registry only grows: what a run has found of either stays so.  The  *)
(* predicates have the states they are about as parameters, so that the    *)
(* same lemma serves both ends of a step.                                  *)

CandidateRecords ==
  [step : CandidateSteps \cup {"none", "success", "failed"},
   sha : Nat, version : Nat, build : Nat, expired : BOOLEAN]

PublishSteps == {"none", "select", "verify", "recheck", "write", "read", "install", "failed", "done"}
Jobs == {"verify", "publish", "consumers"}
Runs ==
  [step : PublishSteps, job : Jobs, reruns : Nat, version : Nat, sha : Nat,
   from : Candidates \cup {0}, integrity : Nat, artifact : Candidates \cup {0},
   seen : Nat, ok : BOOLEAN, reads : Nat, receipt : {"none", "registry", "complete"}]
Entries == [version : Nat \ {0}, build : Nat, claim : Nat]

ReleaseType ==
  /\ main \in Commits /\ green \in BOOLEAN
  /\ cand \in [Candidates -> CandidateRecords]
  /\ pub \in [Publications -> Runs]
  /\ log \in Seq(Entries) /\ settled \in Nat

CandidateSound(x, b) ==
  /\ x.step \in CandidateSteps \cup {"success"} => x.sha \in Commits
  /\ x.step \in {"pack", "regate", "success"} => VersionOf[x.sha] = x.version
  /\ x.step \in {"regate", "success"} => x.build \in 1..Len(b) /\ b[x.build] = Clean(x.sha)

EntrySound(e, b) ==
  /\ e.claim \in Commits /\ VersionOf[e.claim] = e.version
  /\ e.build \in 1..Len(b) /\ b[e.build] = Clean(e.claim)

LatestIn(l, n) == IF n = 0 THEN 0 ELSE l[n].version

RunSound(r, c, l) ==
  /\ r.step # "none" => r.from \in Candidates
  /\ r.job # "verify" \/ r.step = "verify" =>
       r.artifact \in Candidates /\ c[r.artifact].step = "success"
  /\ r.step \in {"recheck", "write", "read", "install"} => r.job # "verify"
  /\ r.step = "write" =>
       /\ c[r.artifact].build = r.integrity
       /\ c[r.artifact].sha = r.sha /\ c[r.artifact].version = r.version
       /\ r.seen =< Len(l) /\ r.version > LatestIn(l, r.seen)
  /\ r.receipt # "none" =>
       \E n \in 1..Len(l) : l[n].version = r.version /\ l[n].build = r.integrity

CandidatesSound(c, b) == \A d \in Candidates : CandidateSound(c[d], b)
LogSound(l, b) == \A n \in 1..Len(l) : EntrySound(l[n], b)
RunsSound(r, c, l) == \A p \in Publications : RunSound(r[p], c, l)

Inv ==
  /\ PackInv /\ ReleaseType
  /\ CandidatesSound(cand, builds) /\ LogSound(log, builds) /\ RunsSound(pub, cand, log)

-----------------------------------------------------------------------------
BuildsKept(b, b2) ==
  /\ b2 \in Seq(Trees) /\ Len(b) =< Len(b2)
  /\ \A n \in 1..Len(b) : b2[n] = b[n]
LogKept(l, l2) == Len(l) =< Len(l2) /\ \A n \in 1..Len(l) : l2[n] = l[n]
SuccessKept(c, c2) ==
  \A d \in Candidates : c[d].step = "success" =>
    /\ c2[d].step = "success" /\ c2[d].build = c[d].build
    /\ c2[d].sha = c[d].sha /\ c2[d].version = c[d].version

LEMMA CandidatesStaySound ==
  ASSUME NEW c, NEW b \in Seq(Trees), NEW b2 \in Seq(Trees), BuildsKept(b, b2), CandidatesSound(c, b)
  PROVE  CandidatesSound(c, b2)
BY DEF CandidatesSound, CandidateSound, BuildsKept

LEMMA LogStaysSound ==
  ASSUME NEW l \in Seq(Entries), NEW b \in Seq(Trees), NEW b2 \in Seq(Trees), BuildsKept(b, b2),
         LogSound(l, b)
  PROVE  LogSound(l, b2)
BY DEF LogSound, EntrySound, BuildsKept

LEMMA RunStaysSound ==
  ASSUME NEW r \in Runs, NEW c, NEW c2, NEW l \in Seq(Entries), NEW l2 \in Seq(Entries),
         SuccessKept(c, c2), LogKept(l, l2), RunSound(r, c, l)
  PROVE  RunSound(r, c2, l2)
<1>1. r.step = "write" => r.job # "verify"
  BY DEF RunSound
<1>2. r.job # "verify" \/ r.step = "verify" =>
        r.artifact \in Candidates /\ c2[r.artifact].step = "success"
  BY DEF RunSound, SuccessKept
<1>3. r.step = "write" =>
       /\ c2[r.artifact].build = r.integrity
       /\ c2[r.artifact].sha = r.sha /\ c2[r.artifact].version = r.version
  BY <1>1 DEF RunSound, SuccessKept
<1>4. r.step = "write" => r.seen =< Len(l2) /\ r.version > LatestIn(l2, r.seen)
  BY DEF RunSound, LogKept, LatestIn, Runs
<1>5. r.receipt # "none" =>
       \E n \in 1..Len(l2) : l2[n].version = r.version /\ l2[n].build = r.integrity
  BY DEF RunSound, LogKept
<1>6. r.step # "none" => r.from \in Candidates
  BY DEF RunSound
<1>. QED BY <1>2, <1>3, <1>4, <1>5, <1>6 DEF RunSound

LEMMA RunsStaySound ==
  ASSUME NEW f \in [Publications -> Runs], NEW c, NEW c2, NEW l \in Seq(Entries),
         NEW l2 \in Seq(Entries), SuccessKept(c, c2), LogKept(l, l2), RunsSound(f, c, l)
  PROVE  RunsSound(f, c2, l2)
BY RunStaysSound DEF RunsSound

LEMMA EntryAppended ==
  ASSUME NEW l \in Seq(Entries), NEW e \in Entries, NEW b, LogSound(l, b), EntrySound(e, b)
  PROVE  /\ Append(l, e) \in Seq(Entries) /\ LogKept(l, Append(l, e))
         /\ LogSound(Append(l, e), b)
BY DEF LogKept, LogSound

LEMMA Unchanged ==
  /\ \A l : LogKept(l, l)
  /\ \A c : SuccessKept(c, c)
BY DEF LogKept, SuccessKept

-----------------------------------------------------------------------------
LEMMA PackingStays ==
  ASSUME PackInv, UNCHANGED <<builds, packing>>
  PROVE  PackInv'
<1>1. builds \in Seq(Trees)
  BY DEF PackInv, PackType
<1>2. Grows
  BY <1>1 DEF Grows
<1>. QED BY <1>2, PackingUndisturbed

\* Only builds and the packing change.
LEMMA PackingMoves ==
  ASSUME Inv, PackInv', Grows, UNCHANGED <<repository, cand, pub, registry>>
  PROVE  Inv'
<1>1. BuildsKept(builds, builds') /\ builds \in Seq(Trees) /\ builds' \in Seq(Trees)
  BY DEF Grows, BuildsKept, Inv, PackInv, PackType
<1>2. ReleaseType'
  BY DEF Inv, ReleaseType, repository, registry
<1>3. CandidatesSound(cand, builds)'
  BY <1>1, CandidatesStaySound DEF Inv
<1>4. log \in Seq(Entries) /\ log' = log
  BY DEF Inv, ReleaseType, registry
<1>5. LogSound(log, builds')
  BY <1>1, <1>4, LogStaysSound DEF Inv
<1>6. RunsSound(pub, cand, log)'
  BY <1>4 DEF Inv
<1>. QED BY <1>2, <1>3, <1>4, <1>5, <1>6 DEF Inv

\* One candidate run and perhaps the builds change.
LEMMA CandidateMoves ==
  ASSUME Inv, NEW c \in Candidates, NEW x \in CandidateRecords, Candidate(c, x), Grows,
         CandidateSound(x, builds'),
         cand[c].step = "success" =>
           x.step = "success" /\ x.build = cand[c].build /\ x.sha = cand[c].sha
             /\ x.version = cand[c].version
  PROVE  Inv'
<1>1. BuildsKept(builds, builds') /\ builds \in Seq(Trees) /\ builds' \in Seq(Trees)
  BY DEF Grows, BuildsKept, Inv, PackInv, PackType
<1>2. cand' = [cand EXCEPT ![c] = x] /\ cand \in [Candidates -> CandidateRecords]
  BY DEF Candidate, Inv, ReleaseType
<1>3. ReleaseType'
  BY <1>2 DEF Inv, ReleaseType, Candidate, repository, registry
<1>4. CandidatesSound(cand, builds')
  BY <1>1, CandidatesStaySound DEF Inv
<1>5. CandidatesSound(cand', builds')
  BY <1>2, <1>4 DEF CandidatesSound
<1>6. SuccessKept(cand, cand')
  BY <1>2 DEF SuccessKept
<1>7. log \in Seq(Entries) /\ log' = log /\ pub' = pub /\ pub \in [Publications -> Runs]
  BY DEF Inv, ReleaseType, Candidate, registry
<1>8. LogSound(log, builds')
  BY <1>1, <1>7, LogStaysSound DEF Inv
<1>9. RunsSound(pub, cand', log)
  BY <1>6, <1>7, Unchanged, RunsStaySound DEF Inv
<1>10. PackInv'
  BY PackingUndisturbed DEF Inv, Candidate
<1>. QED BY <1>3, <1>5, <1>7, <1>8, <1>9, <1>10 DEF Inv

\* One publish run and perhaps the registry change.
LEMMA PublicationMoves ==
  ASSUME Inv, NEW p \in Publications, NEW x \in Runs, Publication(p, x),
         log' \in Seq(Entries), LogKept(log, log'), LogSound(log', builds),
         RunSound(x, cand, log')
  PROVE  Inv'
<1>1. /\ pub' = [pub EXCEPT ![p] = x] /\ pub \in [Publications -> Runs]
      /\ cand' = cand /\ builds' = builds /\ log \in Seq(Entries)
  BY DEF Publication, Inv, ReleaseType
<1>2. ReleaseType'
  BY <1>1 DEF Inv, ReleaseType, Publication, repository
<1>3. RunsSound(pub, cand, log')
  BY <1>1, Unchanged, RunsStaySound DEF Inv
<1>4. RunsSound(pub', cand, log')
  BY <1>1, <1>3 DEF RunsSound
<1>5. PackInv'
  BY PackingStays DEF Inv, Publication
<1>. QED BY <1>1, <1>2, <1>4, <1>5 DEF Inv

\* Somebody else changes the registry.
LEMMA RegistryMoves ==
  ASSUME Inv, UNCHANGED <<builds, packing, repository, cand, pub>>, settled' \in Nat,
         log' \in Seq(Entries), LogKept(log, log'), LogSound(log', builds)
  PROVE  Inv'
<1>1. pub \in [Publications -> Runs] /\ log \in Seq(Entries)
  BY DEF Inv, ReleaseType
<1>2. RunsSound(pub, cand, log')
  BY <1>1, Unchanged, RunsStaySound DEF Inv
<1>3. ReleaseType'
  BY DEF Inv, ReleaseType, repository
<1>4. PackInv'
  BY PackingStays DEF Inv
<1>. QED BY <1>2, <1>3, <1>4 DEF Inv

-----------------------------------------------------------------------------
LEMMA Initially == Init => Inv
<1>. SUFFICES ASSUME Init PROVE Inv
  OBVIOUS
<1>1. PackInv
  BY PackingInitially DEF Init
<1>2. NewCandidate \in CandidateRecords /\ NewPublication \in Runs
  BY DEF NewCandidate, CandidateRecords, CandidateSteps, NewPublication, Runs, PublishSteps, Jobs
<1>3. ReleaseType
  <2>1. cand \in [Candidates -> CandidateRecords]
    BY <1>2, Zenon DEF Init
  <2>2. pub \in [Publications -> Runs]
    BY <1>2, Zenon DEF Init
  <2>3. log \in Seq(Entries) /\ settled \in Nat /\ main \in Commits
    BY CommitFacts DEF Init
  <2>4. green \in BOOLEAN
    BY Zenon DEF Init
  <2>. QED BY <2>1, <2>2, <2>3, <2>4 DEF ReleaseType
<1>4. CandidatesSound(cand, builds)
  BY DEF Init, CandidatesSound, CandidateSound, NewCandidate, CandidateSteps
<1>5. LogSound(log, builds)
  BY DEF Init, LogSound
<1>6. RunsSound(pub, cand, log)
  BY DEF Init, RunsSound, RunSound, NewPublication
<1>. QED BY <1>1, <1>3, <1>4, <1>5, <1>6 DEF Inv

LEMMA CandidateKeeps ==
  ASSUME Inv, NEW c \in Candidates, NEW v \in Versions,
         Expires(c) \/ CandidateStep(c) \/ Prepare(c, v)
  PROVE  Inv'
<1>1. cand[c] \in CandidateRecords /\ CandidateSound(cand[c], builds) /\ main \in Commits
  BY DEF Inv, ReleaseType, CandidatesSound
<1>2. builds' = builds => Grows
  BY DEF Grows, Inv, PackInv, PackType
<1>. USE DEF CandidateRecords, CandidateSteps, CandidateSound
<1>3. CASE Expires(c)
  <2>. DEFINE x == [cand[c] EXCEPT !.expired = TRUE]
  <2>1. x \in CandidateRecords /\ CandidateSound(x, builds)
    BY <1>1
  <2>2. Candidate(c, x) /\ builds' = builds
    BY <1>3 DEF Expires
  <2>3. x.step = cand[c].step /\ x.build = cand[c].build /\ x.sha = cand[c].sha
          /\ x.version = cand[c].version
    BY <1>1
  <2>. HIDE DEF x, CandidateRecords, CandidateSteps, CandidateSound
  <2>. QED BY <1>2, <2>1, <2>2, <2>3, CandidateMoves
<1>4. CASE Prepare(c, v)
  <2>. DEFINE x == [NewCandidate EXCEPT !.step = "gate", !.sha = main, !.version = v]
  <2>1. main \in Nat /\ v \in Nat
    BY <1>1, CommitFacts DEF Versions
  <2>2. x \in CandidateRecords /\ CandidateSound(x, builds)
    BY <1>1, <2>1 DEF NewCandidate
  <2>3. Candidate(c, x) /\ builds' = builds /\ cand[c].step # "success"
    BY <1>4 DEF Prepare
  <2>. HIDE DEF x, CandidateRecords, CandidateSteps, CandidateSound
  <2>. QED BY <1>2, <2>2, <2>3, CandidateMoves
<1>5. CASE CandidateGate(c)
  <2>. DEFINE x == [cand[c] EXCEPT !.step = "pack"]
  <2>1. x \in CandidateRecords /\ CandidateSound(x, builds)
    BY <1>1, <1>5 DEF CandidateGate, MainIsGreen
  <2>2. Candidate(c, x) /\ builds' = builds /\ cand[c].step # "success"
    BY <1>5 DEF CandidateGate
  <2>. HIDE DEF x, CandidateRecords, CandidateSteps, CandidateSound
  <2>. QED BY <1>2, <2>1, <2>2, CandidateMoves
<1>6. CASE CandidatePacks(c)
  <2>. DEFINE x == [cand[c] EXCEPT !.step = "regate", !.build = Len(builds) + 1]
  <2>1. cand[c].sha \in Commits /\ Clean(cand[c].sha) \in Trees
    BY <1>1, <1>6, CommitFacts DEF CandidatePacks
  <2>2. builds \in Seq(Trees) /\ Len(builds) + 1 \in Nat
    BY DEF Inv, PackInv, PackType
  <2>3. /\ Grows /\ Len(builds') = Len(builds) + 1
        /\ builds'[Len(builds) + 1] = Clean(cand[c].sha)
    BY <1>6, <2>1, <2>2, BuildAppended DEF CandidatePacks
  <2>4. /\ x \in CandidateRecords /\ x.step = "regate" /\ x.sha = cand[c].sha
        /\ x.version = cand[c].version /\ x.build = Len(builds) + 1
    BY <1>1, <2>2
  <2>5. CandidateSound(x, builds')
    BY <1>1, <1>6, <2>1, <2>2, <2>3, <2>4 DEF CandidatePacks
  <2>6. Candidate(c, x) /\ cand[c].step # "success"
    BY <1>6 DEF CandidatePacks
  <2>. HIDE DEF x, CandidateRecords, CandidateSteps, CandidateSound
  <2>. QED BY <2>3, <2>4, <2>5, <2>6, CandidateMoves
<1>7. CASE CandidateUploads(c)
  <2>. DEFINE x == [cand[c] EXCEPT !.step = "success"]
  <2>1. x \in CandidateRecords /\ CandidateSound(x, builds)
    BY <1>1, <1>7 DEF CandidateUploads
  <2>2. Candidate(c, x) /\ builds' = builds /\ cand[c].step # "success"
    BY <1>7 DEF CandidateUploads
  <2>. HIDE DEF x, CandidateRecords, CandidateSteps, CandidateSound
  <2>. QED BY <1>2, <2>1, <2>2, CandidateMoves
<1>8. CASE CandidateFails(c)
  <2>. DEFINE x == [cand[c] EXCEPT !.step = "failed"]
  <2>1. x \in CandidateRecords /\ CandidateSound(x, builds)
    BY <1>1
  <2>2. Candidate(c, x) /\ builds' = builds /\ cand[c].step # "success"
    BY <1>8 DEF CandidateFails
  <2>. HIDE DEF x, CandidateRecords, CandidateSteps, CandidateSound
  <2>. QED BY <1>2, <2>1, <2>2, CandidateMoves
<1>. QED BY <1>3, <1>4, <1>5, <1>6, <1>7, <1>8 DEF CandidateStep

-----------------------------------------------------------------------------
LEMMA LogFacts ==
  ASSUME Inv
  PROVE  /\ log \in Seq(Entries) /\ builds \in Seq(Trees)
         /\ LogKept(log, log) /\ LogSound(log, builds)
BY DEF Inv, ReleaseType, PackInv, PackType, LogKept

\* A read that fits has found an entry with the version and the integrity of the run.
LEMMA FitsFound ==
  ASSUME Inv, NEW p \in Publications, NEW n \in Reads, EntryFits(p, n)
  PROVE  \E k \in 1..Len(log) : log[k].version = pub[p].version /\ log[k].build = pub[p].integrity
<1>1. log \in Seq(Entries) /\ settled \in Nat
  BY DEF Inv, ReleaseType
<1>2. PICK i \in 1..n : log[i].version = pub[p].version
  BY DEF EntryFits, Sees
<1>3. i \in 1..Len(log)
  BY <1>1, <1>2 DEF Reads
<1>. DEFINE S == {log[k] : k \in 1..Len(log)}
<1>4. \E e \in S : e.version = pub[p].version
  BY <1>2, <1>3
<1>5. Entry(pub[p].version) \in S /\ Entry(pub[p].version).version = pub[p].version
  BY <1>4, Zenon DEF Entry
<1>. QED BY <1>5 DEF EntryFits

LEMMA WriteKeeps ==
  ASSUME Inv, NEW p \in Publications, Write(p)
  PROVE  Inv'
<1>1. pub[p] \in Runs /\ RunSound(pub[p], cand, log) /\ pub[p].step = "write"
  BY DEF Inv, ReleaseType, RunsSound, Write
<1>2. PICK ok \in BOOLEAN : Publication(p, [pub[p] EXCEPT !.step = "read", !.ok = ok])
  BY DEF Write
<1>. DEFINE x == [pub[p] EXCEPT !.step = "read", !.ok = ok]
<1>3. /\ x \in Runs /\ x.step = "read" /\ x.job = pub[p].job /\ x.artifact = pub[p].artifact
      /\ x.receipt = pub[p].receipt /\ x.version = pub[p].version /\ x.integrity = pub[p].integrity
  BY <1>1 DEF Runs, PublishSteps
<1>4. log' \in Seq(Entries) /\ LogKept(log, log') /\ LogSound(log', builds)
  <2>1. CASE log' = log
    BY <2>1, LogFacts
  <2>2. CASE Writes(pub[p].version, cand[pub[p].artifact].build, pub[p].sha)
    <3>. DEFINE c == cand[pub[p].artifact]
                e == [version |-> pub[p].version, build |-> c.build, claim |-> pub[p].sha]
    <3>1. pub[p].artifact \in Candidates /\ c.step = "success"
      BY <1>1 DEF RunSound
    <3>2. c \in CandidateRecords /\ CandidateSound(c, builds)
      BY <3>1 DEF Inv, ReleaseType, CandidatesSound
    <3>3. c.sha = pub[p].sha /\ c.version = pub[p].version
      BY <1>1 DEF RunSound
    <3>4. /\ c.sha \in Commits /\ VersionOf[c.sha] = c.version
          /\ c.build \in 1..Len(builds) /\ builds[c.build] = Clean(c.sha)
      BY <3>1, <3>2 DEF CandidateSound
    <3>5. c.sha \in Nat /\ c.version \in Nat \ {0} /\ c.build \in Nat
      BY <3>2, <3>4, CommitFacts DEF CandidateRecords
    <3>6. e \in Entries /\ EntrySound(e, builds)
      BY <3>3, <3>4, <3>5 DEF Entries, EntrySound
    <3>7. log' = Append(log, e)
      BY <2>2 DEF Writes
    <3>. HIDE DEF e
    <3>. QED BY <3>6, <3>7, LogFacts, EntryAppended
  <2>. QED BY <2>1, <2>2 DEF Write
<1>5. RunSound(pub[p], cand, log')
  BY <1>1, <1>4, LogFacts, Unchanged, RunStaysSound
<1>6. RunSound(x, cand, log')
  BY <1>1, <1>3, <1>5 DEF RunSound
<1>. HIDE DEF x
<1>. QED BY <1>2, <1>3, <1>4, <1>6, PublicationMoves DEF x

LEMMA PublicationKeeps ==
  ASSUME Inv, NEW p \in Publications, Dispatch(p) \/ Rerun(p) \/ PublishStep(p)
  PROVE  Inv'
<1>1. pub[p] \in Runs /\ RunSound(pub[p], cand, log) /\ main \in Commits
  BY DEF Inv, ReleaseType, RunsSound
<1>2. cand \in [Candidates -> CandidateRecords] /\ settled \in Nat /\ log \in Seq(Entries)
  BY DEF Inv, ReleaseType
\* An action that leaves the registry alone and gives the run a sound record.
<1>3. ASSUME NEW x \in Runs, Publication(p, x), log' = log, RunSound(x, cand, log)
      PROVE  Inv'
  BY <1>3, LogFacts, PublicationMoves
<1>4. CASE Dispatch(p)
  <2>1. PICK v \in Versions, c \in Candidates, b \in 1..Len(builds) :
          Publication(p, [NewPublication EXCEPT !.step = "select", !.sha = main, !.version = v,
                                                !.from = c, !.integrity = b])
    BY <1>4 DEF Dispatch
  <2>. DEFINE x == [NewPublication EXCEPT !.step = "select", !.sha = main, !.version = v,
                                          !.from = c, !.integrity = b]
  <2>2. v \in Nat /\ main \in Nat /\ b \in Nat
    BY <1>1, CommitFacts, LogFacts DEF Versions
  <2>3. x \in Runs /\ RunSound(x, cand, log)
    BY <2>2 DEF NewPublication, Runs, PublishSteps, Jobs, RunSound
  <2>4. log' = log
    BY <1>4 DEF Dispatch
  <2>. HIDE DEF x
  <2>. QED BY <1>3, <2>1, <2>3, <2>4 DEF x
<1>5. CASE Rerun(p)
  <2>. DEFINE x == [pub[p] EXCEPT !.step = FirstStep(pub[p].job), !.reruns = @ + 1]
  <2>1. pub[p].job \in Jobs
    BY <1>1 DEF Runs
  <2>2. /\ FirstStep(pub[p].job) \in {"select", "recheck", "install"}
        /\ FirstStep(pub[p].job) # "select" => pub[p].job # "verify"
    BY <2>1 DEF FirstStep, Jobs
  <2>. DEFINE f == FirstStep(pub[p].job)
  <2>3. f \in {"select", "recheck", "install"} /\ (f # "select" => pub[p].job # "verify")
    BY <2>2
  <2>. HIDE DEF f
  <2>. DEFINE y == [pub[p] EXCEPT !.step = f, !.reruns = @ + 1]
  <2>4. y \in Runs /\ RunSound(y, cand, log)
    <3>1. pub[p].step = "failed" /\ f \in PublishSteps
      BY <1>5, <2>3 DEF Rerun, PublishSteps
    <3>2. y \in Runs
      <4>1. pub[p].reruns + 1 \in Nat
        BY <1>1 DEF Runs
      <4>. DEFINE k == pub[p].reruns + 1
      <4>2. y = [pub[p] EXCEPT !.step = f, !.reruns = k]
        OBVIOUS
      <4>. HIDE DEF k, y
      <4>. QED BY <1>1, <3>1, <4>1, <4>2 DEF Runs, k
    <3>3. /\ y.step = f /\ y.job = pub[p].job /\ y.artifact = pub[p].artifact
          /\ y.from = pub[p].from /\ y.receipt = pub[p].receipt
          /\ y.version = pub[p].version /\ y.integrity = pub[p].integrity
      BY <1>1 DEF Runs
    <3>. HIDE DEF y
    <3>. QED BY <1>1, <2>3, <3>1, <3>2, <3>3 DEF RunSound
  <2>5. Publication(p, x) /\ log' = log
    BY <1>5 DEF Rerun
  <2>6. x \in Runs /\ RunSound(x, cand, log)
    BY <2>4 DEF f, y
  <2>. HIDE DEF x
  <2>. QED BY <1>3, <2>5, <2>6
<1>6. CASE Select(p)
  <2>. DEFINE x == [pub[p] EXCEPT !.step = "verify", !.artifact = pub[p].from]
  <2>1. pub[p].from \in Candidates
    BY <1>1, <1>6 DEF Select, RunSound
  <2>2. x \in Runs /\ RunSound(x, cand, log)
    BY <1>1, <1>6, <2>1 DEF Select, Runs, PublishSteps, RunSound
  <2>3. Publication(p, x) /\ log' = log
    BY <1>6 DEF Select
  <2>. HIDE DEF x
  <2>. QED BY <1>3, <2>2, <2>3
<1>7. CASE Verify(p)
  <2>. DEFINE x == [pub[p] EXCEPT !.step = "recheck", !.job = "publish"]
  <2>1. x \in Runs /\ RunSound(x, cand, log)
    BY <1>1, <1>7 DEF Verify, Runs, PublishSteps, Jobs, RunSound
  <2>2. Publication(p, x) /\ log' = log
    BY <1>7 DEF Verify
  <2>. HIDE DEF x
  <2>. QED BY <1>3, <2>1, <2>2
<1>8. CASE Recheck(p)
  <2>1. PICK i \in Reads, j \in Reads :
          /\ IsNew(pub[p].version, i, j)
          /\ Publication(p, [pub[p] EXCEPT !.step = "write", !.seen = j])
    BY <1>8 DEF Recheck
  <2>. DEFINE x == [pub[p] EXCEPT !.step = "write", !.seen = j]
  <2>2. j \in Nat /\ j =< Len(log) /\ pub[p].version > LatestIn(log, j)
    BY <1>2, <2>1 DEF Reads, IsNew, Latest, LatestIn
  <2>3. x \in Runs /\ RunSound(x, cand, log)
    BY <1>1, <1>8, <2>2 DEF Recheck, ArtifactFits, Runs, PublishSteps, RunSound
  <2>4. log' = log
    BY <1>8 DEF Recheck
  <2>. HIDE DEF x
  <2>. QED BY <1>3, <2>1, <2>3, <2>4 DEF x
<1>9. CASE Read(p)
  <2>. DEFINE y == [Stopped(pub[p]) EXCEPT !.receipt = "registry"]
              x == IF pub[p].ok THEN [y EXCEPT !.step = "install", !.job = "consumers"] ELSE y
  <2>1. \E k \in 1..Len(log) :
          log[k].version = pub[p].version /\ log[k].build = pub[p].integrity
    BY <1>9, FitsFound DEF Read
  <2>2. pub[p].step = "read" /\ pub[p].job # "verify"
    BY <1>1, <1>9 DEF Read, RunSound
  <2>3. y \in Runs /\ RunSound(y, cand, log) /\ y.job # "verify"
    BY <1>1, <2>1, <2>2 DEF Stopped, Runs, PublishSteps, RunSound
  <2>4. x \in Runs /\ RunSound(x, cand, log)
    <3>. DEFINE z == [y EXCEPT !.step = "install", !.job = "consumers"]
    <3>1. y.step = "failed"
      BY <1>1 DEF Stopped, Runs
    <3>. HIDE DEF y
    <3>2. z \in Runs /\ RunSound(z, cand, log)
      BY <2>3, <3>1 DEF Runs, PublishSteps, Jobs, RunSound
    <3>. HIDE DEF z
    <3>3. x = y \/ x = z
      BY Zenon DEF z
    <3>. QED BY <2>3, <3>2, <3>3
  <2>5. Publication(p, x) /\ log' = log
    BY <1>9 DEF Read
  <2>. HIDE DEF x
  <2>. QED BY <1>3, <2>4, <2>5
<1>10. CASE ReadsAgain(p)
  <2>. DEFINE x == [pub[p] EXCEPT !.reads = @ + 1]
  <2>1. x \in Runs /\ RunSound(x, cand, log)
    BY <1>1, <1>10 DEF ReadsAgain, Runs, RunSound
  <2>2. Publication(p, x) /\ log' = log
    BY <1>10 DEF ReadsAgain
  <2>. HIDE DEF x
  <2>. QED BY <1>3, <2>1, <2>2
<1>11. CASE Consume(p)
  <2>. DEFINE x == [pub[p] EXCEPT !.step = "done", !.receipt = "complete"]
  <2>1. \E k \in 1..Len(log) :
          log[k].version = pub[p].version /\ log[k].build = pub[p].integrity
    BY <1>11, FitsFound DEF Consume
  <2>2. x \in Runs /\ RunSound(x, cand, log)
    BY <1>1, <1>11, <2>1 DEF Consume, Runs, PublishSteps, RunSound
  <2>3. Publication(p, x) /\ log' = log
    BY <1>11 DEF Consume
  <2>. HIDE DEF x
  <2>. QED BY <1>3, <2>2, <2>3
<1>12. CASE Fails(p)
  <2>. DEFINE x == Stopped(pub[p])
  <2>1. x \in Runs /\ RunSound(x, cand, log)
    BY <1>1, <1>12 DEF Fails, Running, Stopped, Runs, PublishSteps, RunSound
  <2>2. Publication(p, x) /\ log' = log
    BY <1>12 DEF Fails
  <2>. HIDE DEF x
  <2>. QED BY <1>3, <2>1, <2>2
<1>. QED BY <1>4, <1>5, <1>6, <1>7, <1>8, <1>9, <1>10, <1>11, <1>12, WriteKeeps DEF PublishStep

LEMMA CliKeeps == ASSUME Inv, CliPublishes PROVE Inv'
<1>. DEFINE t == evidence.tree
            e == [version |-> evidence.version, build |-> archives[evidence.version],
                  claim |-> t.commit]
<1>1. evidence \in Evidences /\ t \in Trees /\ ~t.dirty
  BY DEF Inv, PackInv, PackType, CliPublishes, Evidences
<1>2. /\ evidence.build \in 1..Len(builds) /\ evidence.version = VersionOf[t.commit]
      /\ archives[evidence.version] = evidence.build /\ builds[evidence.build] = t
  BY DEF Inv, PackInv, Paired, EvidenceTrue, CliPublishes
<1>3. t.commit \in Commits /\ t.commit \in Nat /\ VersionOf[t.commit] \in Nat \ {0}
  BY <1>1, CommitFacts DEF Trees
<1>4. t = Clean(t.commit)
  <2>1. t.dirty \in {TRUE, FALSE}
    BY <1>1 DEF Trees
  <2>2. t.dirty = FALSE
    BY <1>1, <2>1
  <2>. QED BY <1>1, <2>2 DEF Trees, Clean
<1>5. e \in Entries /\ EntrySound(e, builds)
  BY <1>2, <1>3, <1>4, LogFacts DEF Entries, EntrySound
<1>6. log' = Append(log, e)
  BY DEF CliPublishes, Writes
<1>. HIDE DEF e
<1>7. log' \in Seq(Entries) /\ LogKept(log, log') /\ LogSound(log', builds)
  BY <1>5, <1>6, LogFacts, EntryAppended
<1>8. settled' \in Nat
  BY DEF CliPublishes, Inv, ReleaseType
<1>. QED BY <1>7, <1>8, RegistryMoves DEF CliPublishes

LEMMA MainKeeps == ASSUME Inv, Merge \/ CiMovesOn PROVE Inv'
<1>1. PackInv'
  BY PackingStays DEF Inv, Merge, CiMovesOn
<1>2. main' \in Commits
  BY DEF Inv, ReleaseType, Merge, CiMovesOn
<1>3. green' \in BOOLEAN
  BY Zenon DEF Merge, CiMovesOn
<1>4. ReleaseType'
  BY <1>2, <1>3 DEF Inv, ReleaseType, Merge, CiMovesOn, registry
<1>5. builds' = builds /\ cand' = cand /\ pub' = pub /\ log' = log
  BY DEF Merge, CiMovesOn, registry
<1>. QED BY <1>1, <1>4, <1>5 DEF Inv

LEMMA NextKeeps == ASSUME Inv, [Next]_vars PROVE Inv'
<1>1. CASE PackingFirst /\ PackingNext /\ UNCHANGED <<repository, cand, pub, registry>>
  BY <1>1, PackingKeeps, PackingMoves DEF Inv
<1>2. CASE Merge \/ CiMovesOn
  BY <1>2, MainKeeps
<1>3. CASE Propagates
  BY <1>3, LogFacts, RegistryMoves DEF Propagates, Inv, ReleaseType
<1>4. CASE CliPublishes
  BY <1>4, CliKeeps
<1>5. CASE \E c \in Candidates : Expires(c) \/ CandidateStep(c) \/ \E v \in Versions : Prepare(c, v)
  <2>1. \E v : v \in Versions
    BY CommitFacts
  <2>. QED BY <1>5, <2>1, CandidateKeeps
<1>6. CASE \E p \in Publications : (PackingOver /\ Dispatch(p)) \/ Rerun(p) \/ PublishStep(p)
  BY <1>6, PublicationKeeps
<1>7. CASE UNCHANGED vars
  <2>1. PackInv'
    BY <1>7, PackingStays DEF Inv, vars
  <2>. QED BY <1>7, <2>1 DEF vars, Inv, ReleaseType, repository, registry
<1>. QED BY <1>1, <1>2, <1>3, <1>4, <1>5, <1>6, <1>7 DEF Next

-----------------------------------------------------------------------------
\* All of the above holds of every reachable state.
THEOREM ReleaseInvariance == Spec => []Inv
BY Initially, NextKeeps, PTL DEF Spec

\* Evidence in artifacts/ is true of the archive beside it, wherever release:pack was
\* interrupted and however the checkout changed under it (promoteCandidate).
THEOREM EvidenceHolds == Spec => []EvidenceTrue
<1>1. Inv => EvidenceTrue
  BY DEF Inv, PackInv
<1>. QED BY <1>1, ReleaseInvariance, PTL

\* Whatever is on the registry was built from the clean commit it is published as
\* (verifyArtifact, promoteCandidate).
THEOREM PublishedClaimsHold == Spec => []PublishedAsClaimed
<1>1. Inv => PublishedAsClaimed
  BY DEF Inv, LogSound, EntrySound, PublishedAsClaimed
<1>. QED BY <1>1, ReleaseInvariance, PTL

\* A receipt names bytes that the registry holds (readPublishedRegistry).
THEOREM ReceiptsHold == Spec => []ReceiptTrue
<1>1. Inv => ReceiptTrue
  BY DEF Inv, RunsSound, RunSound, ReceiptTrue
<1>. QED BY <1>1, ReleaseInvariance, PTL

LEMMA LatestNatural == ASSUME Inv PROVE Latest(Len(log)) \in Nat
<1>1. log \in Seq(Entries)
  BY LogFacts
<1>2. CASE Len(log) = 0
  BY <1>2 DEF Latest
<1>3. CASE Len(log) # 0
  <2>1. log[Len(log)] \in Entries
    BY <1>1, <1>3
  <2>. QED BY <1>3, <2>1 DEF Latest, Entries
<1>. QED BY <1>2, <1>3

LEMMA WriteRaises ==
  ASSUME Inv, NEW p \in Publications, Write(p), Latest(Len(log))' < Latest(Len(log))
  PROVE  pub[p].seen < Len(log)
<1>1. pub[p] \in Runs /\ RunSound(pub[p], cand, log) /\ pub[p].step = "write"
  BY DEF Inv, ReleaseType, RunsSound, Write
<1>2. log \in Seq(Entries) /\ pub[p].seen \in Nat /\ pub[p].version \in Nat
  BY <1>1, LogFacts DEF Runs
<1>3. pub[p].seen =< Len(log) /\ pub[p].version > LatestIn(log, pub[p].seen)
  BY <1>1 DEF RunSound
<1>4. CASE log' = log
  <2>1. Latest(Len(log))' = Latest(Len(log))
    BY <1>4 DEF Latest
  <2>. QED BY <2>1, LatestNatural
<1>5. CASE Writes(pub[p].version, cand[pub[p].artifact].build, pub[p].sha)
  <2>1. Latest(Len(log))' = pub[p].version
    BY <1>2, <1>5 DEF Writes, Latest
  <2>2. pub[p].seen # Len(log)
    <3>. SUFFICES ASSUME pub[p].seen = Len(log) PROVE FALSE
      OBVIOUS
    <3>1. LatestIn(log, pub[p].seen) = Latest(Len(log))
      BY DEF Latest, LatestIn
    <3>2. pub[p].version < Latest(Len(log)) /\ pub[p].version > Latest(Len(log))
      BY <1>3, <2>1, <3>1
    <3>. QED BY <1>2, <3>2, LatestNatural
  <2>. QED BY <1>2, <1>3, <2>2
<1>. QED BY <1>4, <1>5 DEF Write

\* A run takes latest back only past what its reads had not been shown (validateNewVersion).
THEOREM LatestGoesOn == Spec => NoDowngrade
<1>1. Inv /\ [Next]_vars =>
        [\A p \in Publications :
           Write(p) /\ Latest(Len(log))' < Latest(Len(log)) => pub[p].seen < Len(log)]_vars
  BY WriteRaises
<1>. QED BY <1>1, ReleaseInvariance, PTL DEF Spec, NoDowngrade
=============================================================================
