----------------------------- MODULE ReleaseGate -----------------------------
(***************************************************************************)
(* Runs of .github/workflows/publish-pypi.yml: the build job, which is     *)
(* .github/scripts/szl_pypi_release_gate.py, and the publish job that      *)
(* follows it on a release.  Runs go on side by side, except those of one  *)
(* concurrency group; a job can break at any step and be run again.        *)
(*                                                                         *)
(* A trigger holds what a run is about: the event, the ref, and for every  *)
(* package the version its sources build and the check they would fail     *)
(* ("none", "project", "artifact" or "probe").  A release's ref is a tag,  *)
(* [name, version]; its name is NoName in the form v{version}.  A build is *)
(* the run and the attempt it was made in: two builds differ in bytes.     *)
(***************************************************************************)
EXTENDS Naturals, FiniteSets

CONSTANTS
  Runs, Packages, NoName, Nothing,
  Scenes,        \* [declared, trigger]: SZL_PACKAGES, and a trigger of each run
  MaxBreaks,     \* bound: jobs that break
  MaxReruns      \* bound: jobs or runs started again

Kinds == {"wheel", "sdist"}
Events == {"release", "push", "pull_request"}
Flaws == {"none", "project", "artifact", "probe"}

ASSUME ReleaseAssumption ==
  /\ NoName \notin Packages /\ Nothing \notin Runs \X Nat
  /\ MaxBreaks \in Nat /\ MaxReruns \in Nat
  /\ \A s \in Scenes :
       /\ s.declared \in SUBSET Packages \ {{}} /\ IsFiniteSet(s.declared)
       /\ \A r \in Runs : /\ s.trigger[r].event \in Events
                          /\ \A p \in Packages : LET t == s.trigger[r].tree[p]
                                                 IN  t \in [version : {t.version}, flaw : Flaws]

ASSUME NothingAssumption ==
  \A s \in Scenes, r \in Runs, p \in Packages :
    Nothing \notin [package : Packages, version : {s.trigger[r].tree[p].version},
                   build : Runs \X Nat]

VARIABLES
  scene,
  pc,            \* step of each run
  resume,        \* the job a queued run starts with
  attempt,       \* attempt of each run
  at, todo,      \* package being gated and those still to be gated
  dist,          \* what the pypi-dists artifact of the run holds
  pypi,          \* build whose file PyPI has for a package, version and kind
  breaks, reruns

vars == <<scene, pc, resume, attempt, at, todo, dist, pypi, breaks, reruns>>
loop == <<at, todo>>
faults == <<breaks, reruns>>

Event(r) == scene.trigger[r].event
Ref(r) == scene.trigger[r].ref
Tree(r) == scene.trigger[r].tree[at[r]]
Releasing(r) == Event(r) = "release"
Versions == {t.tree[p].version : t \in {scene.trigger[r] : r \in Runs}, p \in Packages}

Init == /\ scene \in Scenes
        /\ pc = [r \in Runs |-> "idle"]
        /\ resume = [r \in Runs |-> "select"]
        /\ attempt = [r \in Runs |-> 1]
        /\ at = [r \in Runs |-> NoName] /\ todo = [r \in Runs |-> {}]
        /\ dist = [r \in Runs |-> Nothing]
        /\ pypi = [f \in Packages \X Versions \X Kinds |-> Nothing]
        /\ breaks = 0 /\ reruns = 0

Go(r, step) == pc' = [pc EXCEPT ![r] = step]

-----------------------------------------------------------------------------
(* The concurrency group: event and ref.  One run of a group is in         *)
(* progress, one waits; a newer one takes the place of the one that waits. *)
BuildSteps == {"select", "project", "build", "artifact", "bind", "lookup", "probe", "emit"}
PublishSteps == {"wheel", "sdist"}
InProgress(r) == pc[r] \in BuildSteps \cup PublishSteps
Ended(r) == pc[r] \in {"passed", "published", "build_failed", "publish_failed", "cancelled"}
Rivals(r) == {s \in Runs \ {r} : Event(s) = Event(r) /\ Ref(s) = Ref(r)}

(* Mutant: cancel-in-progress.                                             *)
ReplacedInProgress(r) == {s \in Rivals(r) : pc[s] = "queued" \/ InProgress(s)}

Replaced(r) == {s \in Rivals(r) : pc[s] = "queued"}

(* Joins its group, to start with the given job.                           *)
Enqueue(r, job) ==
  /\ pc' = [s \in Runs |-> IF s = r THEN "queued"
                           ELSE IF s \in Replaced(r) THEN "cancelled" ELSE pc[s]]
  /\ resume' = [resume EXCEPT ![r] = job]

Trigger(r) ==
  /\ pc[r] = "idle" /\ Enqueue(r, "select")
  /\ UNCHANGED <<scene, attempt, loop, dist, pypi, faults>>

Begin(r) ==
  /\ pc[r] = "queued" /\ \A s \in Rivals(r) : ~InProgress(s)
  /\ Go(r, resume[r])
  /\ UNCHANGED <<scene, resume, attempt, loop, dist, pypi, faults>>

-----------------------------------------------------------------------------
(* The build job                                                           *)

(* The package of a tag <name>-v<version> where several are declared.      *)
Named(r) == {p \in scene.declared : p = Ref(r).name}

Selected(r) ==
  IF ~Releasing(r) \/ Cardinality(scene.declared) = 1 THEN scene.declared ELSE Named(r)

Select(r) ==
  /\ pc[r] = "select"
  /\ \/ Selected(r) = {} /\ Go(r, "build_failed") /\ UNCHANGED loop
     \/ \E p \in Selected(r) :
          /\ Go(r, "project")
          /\ at' = [at EXCEPT ![r] = p] /\ todo' = [todo EXCEPT ![r] = Selected(r) \ {p}]
  /\ UNCHANGED <<scene, resume, attempt, dist, pypi, faults>>

(* Mutant: tries until the check passes.                                   *)
GateRetrying(r, step, passes, next) ==
  /\ pc[r] = step
  /\ Go(r, IF passes THEN next ELSE step)
  /\ UNCHANGED <<scene, resume, attempt, loop, dist, pypi, faults>>

(* One step of the gate: goes on if its check passes, fails otherwise.     *)
Gate(r, step, passes, next) ==
  /\ pc[r] = step
  /\ Go(r, IF passes THEN next ELSE "build_failed")
  /\ UNCHANGED <<scene, resume, attempt, loop, dist, pypi, faults>>

CheckProject(r) == Gate(r, "project", Tree(r).flaw # "project", "build")
Build(r) == Gate(r, "build", TRUE, "artifact")
CheckArtifacts(r) == Gate(r, "artifact", Tree(r).flaw # "artifact", "bind")

(* ref_name in (tag_expect_single, tag_expect_multi).                      *)
Bound(r) ==
  Releasing(r) => Ref(r).name \in {NoName, at[r]} /\ Ref(r).version = Tree(r).version

Bind(r) == Gate(r, "bind", Bound(r), "lookup")

(* pypi_versions(): "unknown" when PyPI cannot be asked, and its answer    *)
(* may be older than the last upload.                                      *)
Listed(r) == \E kind \in Kinds : pypi[<<at[r], Tree(r).version, kind>>] # Nothing
Answers(r) == {"unknown", "absent"} \cup (IF Listed(r) THEN {"exists"} ELSE {})

Lookup(r) ==
  pc[r] = "lookup" /\ \E answer \in Answers(r) : Gate(r, "lookup", Releasing(r) => answer = "absent", "probe")

Probe(r) == Gate(r, "probe", Tree(r).flaw # "probe", "emit")

Remaining(r, p) == todo[r] \ {p}

(* dist/ and the outputs; the next package, or the end of the job.         *)
Emit(r) ==
  /\ pc[r] = "emit"
  /\ \/ \E p \in todo[r] :
          /\ Go(r, "project")
          /\ at' = [at EXCEPT ![r] = p] /\ todo' = [todo EXCEPT ![r] = Remaining(r, p)]
          /\ UNCHANGED dist
     \/ /\ todo[r] = {} /\ UNCHANGED loop
        /\ IF Releasing(r)
           THEN /\ Go(r, "wheel")
                /\ dist' = [dist EXCEPT ![r] = [package |-> at[r], version |-> Tree(r).version,
                                                build |-> <<r, attempt[r]>>]]
           ELSE Go(r, "passed") /\ UNCHANGED dist
  /\ UNCHANGED <<scene, resume, attempt, pypi, faults>>

-----------------------------------------------------------------------------
(* The publish job: the wheel, then the sdist.  PyPI takes a file whose    *)
(* name is new, says yes to the same bytes and no to others.               *)
File(r, kind) == <<dist[r].package, dist[r].version, kind>>
Taken(r, kind) == pypi[File(r, kind)] \notin {Nothing, dist[r].build}

(* Mutant: skip-existing.                                                  *)
UploadSkipping(r, kind, next) ==
  /\ pc[r] = kind
  /\ Go(r, next)
  /\ pypi' = IF Taken(r, kind) THEN pypi
             ELSE [pypi EXCEPT ![File(r, kind)] = dist[r].build]
  /\ UNCHANGED <<scene, resume, attempt, loop, dist, faults>>

Upload(r, kind, next) ==
  /\ pc[r] = kind
  /\ IF Taken(r, kind) THEN Go(r, "publish_failed") /\ UNCHANGED pypi
     ELSE Go(r, next) /\ pypi' = [pypi EXCEPT ![File(r, kind)] = dist[r].build]
  /\ UNCHANGED <<scene, resume, attempt, loop, dist, faults>>

UploadWheel(r) == Upload(r, "wheel", "sdist")
UploadSdist(r) == Upload(r, "sdist", "published")

-----------------------------------------------------------------------------
(* A runner is lost, a tool fails or a job's time is up.                   *)
Break(r) ==
  /\ InProgress(r) /\ breaks < MaxBreaks
  /\ breaks' = breaks + 1
  /\ Go(r, IF pc[r] \in PublishSteps THEN "publish_failed" ELSE "build_failed")
  /\ UNCHANGED <<scene, resume, attempt, loop, dist, pypi, reruns>>

(* Somebody runs the failed publish job again, on the artifact it had, or  *)
(* the whole run, on the same commit.                                      *)
Rerun(r) ==
  /\ Ended(r) /\ reruns < MaxReruns
  /\ reruns' = reruns + 1
  /\ \/ pc[r] = "publish_failed" /\ Enqueue(r, "wheel") /\ UNCHANGED attempt
     \/ Enqueue(r, "select") /\ attempt' = [attempt EXCEPT ![r] = @ + 1]
  /\ UNCHANGED <<scene, loop, dist, pypi, breaks>>

Step(r) == \/ Begin(r) \/ Select(r) \/ CheckProject(r) \/ Build(r) \/ CheckArtifacts(r)
           \/ Bind(r) \/ Lookup(r) \/ Probe(r) \/ Emit(r) \/ UploadWheel(r) \/ UploadSdist(r)

Done == (\A r \in Runs : Ended(r)) /\ UNCHANGED vars

Next == (\E r \in Runs : Trigger(r) \/ Step(r) \/ Break(r) \/ Rerun(r)) \/ Done

(* GitHub schedules queued runs and ends jobs by their timeout-minutes;    *)
(* nobody has to trigger, break or re-run anything.                        *)
Spec == Init /\ [][Next]_vars /\ \A r \in Runs : WF_vars(Step(r))

-----------------------------------------------------------------------------
(* Every variable keeps its type, and a publish job has an artifact.       *)
TypeOK ==
  /\ \A r \in Runs :
       /\ InProgress(r) \/ Ended(r) \/ pc[r] \in {"idle", "queued"}
       /\ resume[r] \in {"select", "wheel"}
       /\ attempt[r] \in 1..(MaxReruns + 1)
       /\ at[r] \in Packages \cup {NoName} /\ todo[r] \subseteq scene.declared \ {at[r]}
       /\ pc[r] \in PublishSteps => dist[r] # Nothing
  /\ breaks \in 0..MaxBreaks /\ reruns \in 0..MaxReruns

Published == {f \in DOMAIN pypi : pypi[f] # Nothing}
Both(f) == {<<f[1], f[2], kind>> : kind \in Kinds}

(* Two releases may race for one version, as v1 and name-v1 or after a     *)
(* release was published again; jobs may break between two uploads and be  *)
(* run again from either end.  The wheel and the sdist PyPI has of one     *)
(* version still come out of one build (publish-pypi.yml, skip-existing).  *)
FilesFromOneBuild ==
  \A f \in Published : \A g \in Both(f) \cap Published : pypi[f] = pypi[g]

(* What is on PyPI was put there by a release whose tag names the version, *)
(* and the package if it names one or if the repository has several, from  *)
(* sources that pass every check of the gate.                              *)
PublishedAsTagged ==
  \A f \in Published :
    LET t == scene.trigger[pypi[f][1]]
    IN  /\ t.event = "release" /\ t.ref.version = f[2]
        /\ t.ref.name = f[1] \/ (t.ref.name = NoName /\ scene.declared = {f[1]})
        /\ t.tree[f[1]] = [version |-> f[2], flaw |-> "none"]

(* The types, and where what is on PyPI comes from.                        *)
PublishedInv == TypeOK /\ FilesFromOneBuild /\ PublishedAsTagged

(* If no job breaks, no version is left with half of its files once every  *)
(* run has ended, whatever runs were in the way of one another: the run    *)
(* whose wheel is taken is not stopped before its sdist.                   *)
AllOrNothing ==
  breaks = 0 /\ (\A r \in Runs : Ended(r) \/ pc[r] = "idle") =>
    \A f \in Published : Both(f) \subseteq Published

(* A run that has queued ends, or is replaced: a group is never held by a  *)
(* run that is over.                                                       *)
EveryRunEnds == \A r \in Runs : pc[r] = "queued" ~> Ended(r)
=============================================================================
