--------------------------- MODULE ReleaseGateProofs ---------------------------
(***************************************************************************)
(* Theorems about ReleaseGate, for any runs, packages and scenes and any   *)
(* number of broken and repeated jobs.                                     *)
(***************************************************************************)
EXTENDS ReleaseGate, FiniteSetTheorems, TLAPS

(***************************************************************************)
(* The inductive invariant                                                 *)
(***************************************************************************)

Over == {"passed", "published", "build_failed", "publish_failed", "cancelled"}
Steps == {"idle", "queued"} \cup BuildSteps \cup PublishSteps \cup Over
Builds == Runs \X Nat

Types ==
  /\ scene \in Scenes
  /\ pc \in [Runs -> Steps] /\ resume \in [Runs -> {"select", "wheel"}]
  /\ attempt \in [Runs -> Nat]
  /\ at \in [Runs -> Packages \cup {NoName}] /\ todo \in [Runs -> SUBSET scene.declared]
  /\ dist = [r \in Runs |-> dist[r]]
  /\ pypi \in [Packages \X Versions \X Kinds -> Builds \cup {Nothing}]
  /\ breaks \in 0..MaxBreaks /\ reruns \in 0..MaxReruns
  /\ \A r \in Runs : attempt[r] \in 1..(reruns + 1) /\ at[r] \notin todo[r]

(* What the steps passed so far have established of the package at hand; a *)
(* release has one package.                                                *)
AfterSelect == BuildSteps \ {"select"}
AfterProject == AfterSelect \ {"project"}
AfterBind == {"lookup", "probe", "emit"}
AfterArtifact == {"bind"} \cup AfterBind

Gated(r) ==
  /\ pc[r] \in AfterSelect => /\ at[r] \in Selected(r) /\ at[r] \in scene.declared
                              /\ Releasing(r) => todo[r] = {} /\ Selected(r) = {at[r]}
  /\ pc[r] \in AfterProject => Tree(r).flaw # "project"
  /\ pc[r] \in AfterArtifact => Tree(r).flaw # "artifact"
  /\ pc[r] \in AfterBind => Bound(r)
  /\ pc[r] = "emit" => Tree(r).flaw # "probe"

(* What is tagged as the release r triggered, from sources without a flaw. *)
Tagged(r, package, version) ==
  LET t == scene.trigger[r]
  IN  /\ t.event = "release" /\ t.ref.version = version
      /\ t.ref.name = package \/ (t.ref.name = NoName /\ scene.declared = {package})
      /\ t.tree[package] = [version |-> version, flaw |-> "none"]

(* The artifact of a run, once it has one, is a build of its own of the    *)
(* tagged package; publishing needs one.                                   *)
HasDist(r) ==
  /\ dist[r] # Nothing
  /\ dist[r] \in [package : Packages, version : Versions, build : Builds]
  /\ dist[r].build[1] = r
  /\ Tagged(r, dist[r].package, dist[r].version)

Publishing(r) == \/ pc[r] \in PublishSteps \cup {"publish_failed"}
                 \/ pc[r] = "queued" /\ resume[r] = "wheel"

DistInv(r) == /\ dist[r] = Nothing \/ HasDist(r)
              /\ Publishing(r) => dist[r] # Nothing

(* A source distribution is never without the wheel of its build, and a    *)
(* run whose wheel was taken finds it in place.                            *)
WheelFirst ==
  /\ \A p \in Packages, v \in Versions :
       pypi[<<p, v, "sdist">>] # Nothing => pypi[<<p, v, "wheel">>] = pypi[<<p, v, "sdist">>]
  /\ \A r \in Runs : pc[r] = "sdist" => pypi[File(r, "wheel")] = dist[r].build

(* Unless a job broke, the run of a wheel without its source distribution  *)
(* is about to upload that.                                                *)
Halves ==
  breaks = 0 =>
    \A p \in Packages, v \in Versions :
      \/ pypi[<<p, v, "wheel">>] = Nothing
      \/ pypi[<<p, v, "sdist">>] # Nothing
      \/ \E r \in Runs : pc[r] = "sdist" /\ dist[r].package = p /\ dist[r].version = v

RunsInv == \A r \in Runs : Gated(r) /\ DistInv(r)

IInv == Types /\ RunsInv /\ PublishedAsTagged /\ WheelFirst /\ Halves

-----------------------------------------------------------------------------
(***************************************************************************)
(* Steps of a run                                                          *)
(***************************************************************************)

Act(r) == Trigger(r) \/ Step(r) \/ Break(r) \/ Rerun(r)

(* A step of run r leaves every other run where it is, unless that is      *)
(* queued and is replaced.                                                 *)
Only(r) ==
  /\ scene' = scene /\ Versions' = Versions
  /\ \A s \in Runs \ {r} :
       /\ pc'[s] = pc[s] \/ (pc[s] = "queued" /\ pc'[s] = "cancelled")
       /\ resume'[s] = resume[s] /\ attempt'[s] = attempt[s]
       /\ at'[s] = at[s] /\ todo'[s] = todo[s] /\ dist'[s] = dist[s]

LEMMA StepOnly ==
  ASSUME Types, NEW r \in Runs, Act(r)
  PROVE  Only(r)
<1>0. /\ pc \in [Runs -> Steps] /\ resume \in [Runs -> {"select", "wheel"}]
      /\ attempt \in [Runs -> Nat]
      /\ at \in [Runs -> Packages \cup {NoName}] /\ todo \in [Runs -> SUBSET scene.declared]
      /\ dist = [s \in Runs |-> dist[s]]
  BY DEF Types
<1> USE DEF Versions
<1>1. CASE Trigger(r)
  BY <1>1, <1>0 DEF Only, Trigger, Enqueue, Replaced, Rivals, loop, faults
<1>2. CASE Begin(r)
  BY <1>2, <1>0 DEF Only, Begin, Go, loop, faults
<1>3. CASE Select(r)
  BY <1>3, <1>0 DEF Only, Select, Go, loop, faults
<1>4. CASE CheckProject(r)
  BY <1>4, <1>0 DEF Only, CheckProject, Gate, Go, loop, faults
<1>5. CASE Build(r)
  BY <1>5, <1>0 DEF Only, Build, Gate, Go, loop, faults
<1>6. CASE CheckArtifacts(r)
  BY <1>6, <1>0 DEF Only, CheckArtifacts, Gate, Go, loop, faults
<1>7. CASE Bind(r)
  BY <1>7, <1>0 DEF Only, Bind, Gate, Go, loop, faults
<1>8. CASE Lookup(r)
  BY <1>8, <1>0 DEF Only, Lookup, Gate, Go, loop, faults
<1>9. CASE Probe(r)
  BY <1>9, <1>0 DEF Only, Probe, Gate, Go, loop, faults
<1>10. CASE Emit(r)
  BY <1>10, <1>0 DEF Only, Emit, Go, loop, faults
<1>11. CASE UploadWheel(r)
  BY <1>11, <1>0 DEF Only, UploadWheel, Upload, Go, loop, faults
<1>12. CASE UploadSdist(r)
  BY <1>12, <1>0 DEF Only, UploadSdist, Upload, Go, loop, faults
<1>13. CASE Break(r)
  BY <1>13, <1>0 DEF Only, Break, Go, loop, faults
<1>14. CASE Rerun(r)
  BY <1>14, <1>0 DEF Only, Rerun, Enqueue, Replaced, Rivals, loop, faults
<1> QED
  BY <1>1, <1>2, <1>3, <1>4, <1>5, <1>6, <1>7, <1>8, <1>9, <1>10, <1>11, <1>12, <1>13, <1>14
  DEF Act, Step

LEMMA Members ==
  /\ "idle" \in Steps /\ "queued" \in Steps /\ "select" \in Steps /\ "project" \in Steps
  /\ "build" \in Steps /\ "artifact" \in Steps /\ "bind" \in Steps /\ "lookup" \in Steps
  /\ "probe" \in Steps /\ "emit" \in Steps /\ "wheel" \in Steps /\ "sdist" \in Steps
  /\ "passed" \in Steps /\ "published" \in Steps /\ "build_failed" \in Steps
  /\ "publish_failed" \in Steps /\ "cancelled" \in Steps
BY DEF Steps, BuildSteps, PublishSteps, Over

LEMMA StepPc ==
  ASSUME Types, NEW r \in Runs, Act(r)
  PROVE  pc' \in [Runs -> Steps] /\ resume' \in [Runs -> {"select", "wheel"}]
<1>0. pc \in [Runs -> Steps] /\ resume \in [Runs -> {"select", "wheel"}]
  BY DEF Types
<1> USE Members
<1>1. CASE Trigger(r)
  BY <1>1, <1>0 DEF Trigger, Enqueue, Replaced, Rivals
<1>2. CASE Begin(r)
  BY <1>2, <1>0 DEF Begin, Go
<1>3. CASE Select(r)
  BY <1>3, <1>0 DEF Select, Go
<1>4. CASE CheckProject(r)
  BY <1>4, <1>0 DEF CheckProject, Gate, Go
<1>5. CASE Build(r)
  BY <1>5, <1>0 DEF Build, Gate, Go
<1>6. CASE CheckArtifacts(r)
  BY <1>6, <1>0 DEF CheckArtifacts, Gate, Go
<1>7. CASE Bind(r)
  BY <1>7, <1>0 DEF Bind, Gate, Go
<1>8. CASE Lookup(r)
  BY <1>8, <1>0 DEF Lookup, Gate, Go
<1>9. CASE Probe(r)
  BY <1>9, <1>0 DEF Probe, Gate, Go
<1>10. CASE Emit(r)
  BY <1>10, <1>0 DEF Emit, Go
<1>11. CASE UploadWheel(r)
  BY <1>11, <1>0 DEF UploadWheel, Upload, Go
<1>12. CASE UploadSdist(r)
  BY <1>12, <1>0 DEF UploadSdist, Upload, Go
<1>13. CASE Break(r)
  BY <1>13, <1>0 DEF Break, Go
<1>14. CASE Rerun(r)
  BY <1>14, <1>0 DEF Rerun, Enqueue, Replaced, Rivals
<1> QED
  BY <1>1, <1>2, <1>3, <1>4, <1>5, <1>6, <1>7, <1>8, <1>9, <1>10, <1>11, <1>12, <1>13, <1>14
  DEF Act, Step

(* What is selected is declared, and so a package.                         *)
LEMMA SelectedDeclared ==
  ASSUME ReleaseAssumption, Types, NEW r \in Runs
  PROVE  Selected(r) \subseteq scene.declared /\ scene.declared \subseteq Packages
<1>1. scene \in Scenes
  BY DEF Types
<1> QED BY <1>1 DEF ReleaseAssumption, Selected, Named

(* The file a run publishes is one that PyPI can have.                     *)
LEMMA FileExists ==
  ASSUME Types, NEW r \in Runs, HasDist(r), NEW kind \in Kinds
  PROVE  File(r, kind) \in DOMAIN pypi /\ dist[r].build \in Builds
         /\ dist[r].package \in Packages /\ dist[r].version \in Versions
BY DEF Types, HasDist, File

LEMMA StepAt ==
  ASSUME ReleaseAssumption, Types, NEW r \in Runs, Act(r)
  PROVE  /\ at' \in [Runs -> Packages \cup {NoName}] /\ todo' \in [Runs -> SUBSET scene.declared]
         /\ \A s \in Runs : at'[s] \notin todo'[s]
<1>0. /\ at \in [Runs -> Packages \cup {NoName}] /\ todo \in [Runs -> SUBSET scene.declared]
      /\ Selected(r) \subseteq scene.declared /\ scene.declared \subseteq Packages
      /\ \A s \in Runs : at[s] \notin todo[s]
  BY SelectedDeclared DEF Types
<1>1. CASE Trigger(r)
  BY <1>1, <1>0 DEF Trigger, loop, faults
<1>2. CASE Begin(r)
  BY <1>2, <1>0 DEF Begin, loop, faults
<1>3. CASE Select(r)
  <2>1. CASE UNCHANGED loop
    BY <1>0, <2>1 DEF loop
  <2>2. ASSUME NEW p \in Selected(r), at' = [at EXCEPT ![r] = p],
               todo' = [todo EXCEPT ![r] = Selected(r) \ {p}]
        PROVE  /\ at' \in [Runs -> Packages \cup {NoName}]
               /\ todo' \in [Runs -> SUBSET scene.declared]
               /\ \A s \in Runs : at'[s] \notin todo'[s]
    BY <1>0, <2>2
  <2> QED BY <1>3, <2>1, <2>2 DEF Select
<1>4. CASE CheckProject(r)
  BY <1>4, <1>0 DEF CheckProject, Gate, loop, faults
<1>5. CASE Build(r)
  BY <1>5, <1>0 DEF Build, Gate, loop, faults
<1>6. CASE CheckArtifacts(r)
  BY <1>6, <1>0 DEF CheckArtifacts, Gate, loop, faults
<1>7. CASE Bind(r)
  BY <1>7, <1>0 DEF Bind, Gate, loop, faults
<1>8. CASE Lookup(r)
  BY <1>8, <1>0 DEF Lookup, Gate, loop, faults
<1>9. CASE Probe(r)
  BY <1>9, <1>0 DEF Probe, Gate, loop, faults
<1>10. CASE Emit(r)
  <2>1. CASE UNCHANGED loop
    BY <1>0, <2>1 DEF loop
  <2>2. ASSUME NEW p \in todo[r], at' = [at EXCEPT ![r] = p],
               todo' = [todo EXCEPT ![r] = Remaining(r, p)]
        PROVE  /\ at' \in [Runs -> Packages \cup {NoName}]
               /\ todo' \in [Runs -> SUBSET scene.declared]
               /\ \A s \in Runs : at'[s] \notin todo'[s]
    BY <1>0, <2>2 DEF Remaining
  <2> QED BY <1>10, <2>1, <2>2 DEF Emit
<1>11. CASE UploadWheel(r)
  BY <1>11, <1>0 DEF UploadWheel, Upload, loop, faults
<1>12. CASE UploadSdist(r)
  BY <1>12, <1>0 DEF UploadSdist, Upload, loop, faults
<1>13. CASE Break(r)
  BY <1>13, <1>0 DEF Break, loop, faults
<1>14. CASE Rerun(r)
  BY <1>14, <1>0 DEF Rerun, loop, faults
<1> QED
  BY <1>1, <1>2, <1>3, <1>4, <1>5, <1>6, <1>7, <1>8, <1>9, <1>10, <1>11, <1>12, <1>13, <1>14
  DEF Act, Step

(* An attempt is counted when its run is started again.                    *)
LEMMA StepAttempt ==
  ASSUME ReleaseAssumption, Types, NEW r \in Runs, Act(r)
  PROVE  /\ attempt' \in [Runs -> Nat]
         /\ breaks' \in 0..MaxBreaks /\ reruns' \in 0..MaxReruns
         /\ \A s \in Runs : attempt'[s] \in 1..(reruns' + 1)
<1>0. /\ attempt \in [Runs -> Nat] /\ breaks \in 0..MaxBreaks /\ reruns \in 0..MaxReruns
      /\ MaxBreaks \in Nat /\ MaxReruns \in Nat
      /\ \A s \in Runs : attempt[s] \in 1..(reruns + 1)
  BY DEF Types, ReleaseAssumption
<1>15. ASSUME attempt' = attempt, reruns' = reruns, breaks' \in 0..MaxBreaks
       PROVE  /\ attempt' \in [Runs -> Nat]
              /\ breaks' \in 0..MaxBreaks /\ reruns' \in 0..MaxReruns
              /\ \A s \in Runs : attempt'[s] \in 1..(reruns' + 1)
  BY <1>0, <1>15
<1>1. CASE Trigger(r)
  BY <1>1, <1>0, <1>15 DEF Trigger, loop, faults
<1>2. CASE Begin(r)
  BY <1>2, <1>0, <1>15 DEF Begin, loop, faults
<1>3. CASE Select(r)
  BY <1>3, <1>0, <1>15 DEF Select, loop, faults
<1>4. CASE CheckProject(r)
  BY <1>4, <1>0, <1>15 DEF CheckProject, Gate, loop, faults
<1>5. CASE Build(r)
  BY <1>5, <1>0, <1>15 DEF Build, Gate, loop, faults
<1>6. CASE CheckArtifacts(r)
  BY <1>6, <1>0, <1>15 DEF CheckArtifacts, Gate, loop, faults
<1>7. CASE Bind(r)
  BY <1>7, <1>0, <1>15 DEF Bind, Gate, loop, faults
<1>8. CASE Lookup(r)
  BY <1>8, <1>0, <1>15 DEF Lookup, Gate, loop, faults
<1>9. CASE Probe(r)
  BY <1>9, <1>0, <1>15 DEF Probe, Gate, loop, faults
<1>10. CASE Emit(r)
  BY <1>10, <1>0, <1>15 DEF Emit, loop, faults
<1>11. CASE UploadWheel(r)
  BY <1>11, <1>0, <1>15 DEF UploadWheel, Upload, loop, faults
<1>12. CASE UploadSdist(r)
  BY <1>12, <1>0, <1>15 DEF UploadSdist, Upload, loop, faults
<1>13. CASE Break(r)
  <2>1. breaks' \in 0..MaxBreaks
    BY <1>0, <1>13 DEF Break
  <2> QED BY <1>15, <1>13, <2>1 DEF Break
<1>14. CASE Rerun(r)
  <2>1. reruns' = reruns + 1 /\ reruns' \in 0..MaxReruns /\ breaks' = breaks
    BY <1>0, <1>14 DEF Rerun
  <2>2. \A s \in Runs : attempt'[s] \in Nat /\ attempt'[s] \in 1..(reruns' + 1)
    <3> TAKE s \in Runs
    <3>1. attempt'[s] = attempt[s] \/ attempt'[s] = attempt[s] + 1
      BY <1>0, <1>14 DEF Rerun
    <3> QED BY <1>0, <2>1, <3>1
  <2>3. attempt' \in [Runs -> Nat]
    BY <1>0, <1>14 DEF Rerun
  <2> QED BY <1>0, <2>1, <2>2, <2>3
<1> QED
  BY <1>1, <1>2, <1>3, <1>4, <1>5, <1>6, <1>7, <1>8, <1>9, <1>10, <1>11, <1>12, <1>13, <1>14
  DEF Act, Step

(* A build is uploaded where nothing is, or the same.                      *)
Uploads(r, kind) ==
  /\ pc[r] = kind /\ kind \in Kinds /\ ~Taken(r, kind)
  /\ pypi' = [pypi EXCEPT ![File(r, kind)] = dist[r].build]
  /\ pc'[r] = IF kind = "wheel" THEN "sdist" ELSE "published"
  /\ dist' = dist /\ breaks' = breaks

LEMMA StepPypi ==
  ASSUME Types, NEW r \in Runs, Act(r)
  PROVE  \/ pypi' = pypi
         \/ \E kind \in Kinds : Uploads(r, kind)
<1>0. pc \in [Runs -> Steps]
  BY DEF Types
<1>1. CASE Trigger(r)
  BY <1>1, <1>0 DEF Uploads, Kinds, Trigger, loop, faults
<1>2. CASE Begin(r)
  BY <1>2, <1>0 DEF Uploads, Kinds, Begin, Go, loop, faults
<1>3. CASE Select(r)
  BY <1>3, <1>0 DEF Uploads, Kinds, Select, Go, loop, faults
<1>4. CASE CheckProject(r)
  BY <1>4, <1>0 DEF Uploads, Kinds, CheckProject, Gate, Go, loop, faults
<1>5. CASE Build(r)
  BY <1>5, <1>0 DEF Uploads, Kinds, Build, Gate, Go, loop, faults
<1>6. CASE CheckArtifacts(r)
  BY <1>6, <1>0 DEF Uploads, Kinds, CheckArtifacts, Gate, Go, loop, faults
<1>7. CASE Bind(r)
  BY <1>7, <1>0 DEF Uploads, Kinds, Bind, Gate, Go, loop, faults
<1>8. CASE Lookup(r)
  BY <1>8, <1>0 DEF Uploads, Kinds, Lookup, Gate, Go, loop, faults
<1>9. CASE Probe(r)
  BY <1>9, <1>0 DEF Uploads, Kinds, Probe, Gate, Go, loop, faults
<1>10. CASE Emit(r)
  BY <1>10, <1>0 DEF Uploads, Kinds, Emit, Go, loop, faults
<1>11. CASE UploadWheel(r)
  BY <1>11, <1>0 DEF Uploads, Kinds, UploadWheel, Upload, Go, loop, faults
<1>12. CASE UploadSdist(r)
  BY <1>12, <1>0 DEF Uploads, Kinds, UploadSdist, Upload, Go, loop, faults
<1>13. CASE Break(r)
  BY <1>13, <1>0 DEF Uploads, Kinds, Break, Go, loop, faults
<1>14. CASE Rerun(r)
  BY <1>14, <1>0 DEF Uploads, Kinds, Rerun, loop, faults
<1> QED
  BY <1>1, <1>2, <1>3, <1>4, <1>5, <1>6, <1>7, <1>8, <1>9, <1>10, <1>11, <1>12, <1>13, <1>14
  DEF Act, Step

LEMMA StepTypes ==
  ASSUME ReleaseAssumption, Types, RunsInv, NEW r \in Runs, Act(r)
  PROVE  Types'
<1>1. /\ scene' = scene /\ Versions' = Versions /\ scene \in Scenes
      /\ pypi \in [Packages \X Versions \X Kinds -> Builds \cup {Nothing}]
  BY StepOnly DEF Only, Types
<1>2. pypi' \in [Packages \X Versions \X Kinds -> Builds \cup {Nothing}]
  <2>1. CASE pypi' = pypi
    BY <1>1, <2>1
  <2>2. ASSUME NEW kind \in Kinds, Uploads(r, kind)
        PROVE  pypi' \in [Packages \X Versions \X Kinds -> Builds \cup {Nothing}]
    <3>1. HasDist(r)
      BY <2>2 DEF Uploads, RunsInv, DistInv, Publishing, PublishSteps, Kinds
    <3>2. dist[r].build \in Builds
      BY <3>1 DEF HasDist
    <3> QED BY <1>1, <2>2, <3>2 DEF Uploads
  <2> QED BY <2>1, <2>2, StepPypi
<1>3. dist' = [s \in Runs |-> dist'[s]]
  <2>1. dist = [s \in Runs |-> dist[s]]
    BY DEF Types
  <2>2. CASE Trigger(r)
    BY <2>2, <2>1 DEF Trigger, loop, faults
  <2>3. CASE Begin(r)
    BY <2>3, <2>1 DEF Begin, loop, faults
  <2>4. CASE Select(r)
    BY <2>4, <2>1 DEF Select, loop, faults
  <2>5. CASE CheckProject(r)
    BY <2>5, <2>1 DEF CheckProject, Gate, loop, faults
  <2>6. CASE Build(r)
    BY <2>6, <2>1 DEF Build, Gate, loop, faults
  <2>7. CASE CheckArtifacts(r)
    BY <2>7, <2>1 DEF CheckArtifacts, Gate, loop, faults
  <2>8. CASE Bind(r)
    BY <2>8, <2>1 DEF Bind, Gate, loop, faults
  <2>9. CASE Lookup(r)
    BY <2>9, <2>1 DEF Lookup, Gate, loop, faults
  <2>10. CASE Probe(r)
    BY <2>10, <2>1 DEF Probe, Gate, loop, faults
  <2>11. CASE Emit(r)
    BY <2>11, <2>1 DEF Emit, loop, faults
  <2>12. CASE UploadWheel(r)
    BY <2>12, <2>1 DEF UploadWheel, Upload, loop, faults
  <2>13. CASE UploadSdist(r)
    BY <2>13, <2>1 DEF UploadSdist, Upload, loop, faults
  <2>14. CASE Break(r)
    BY <2>14, <2>1 DEF Break, loop, faults
  <2>15. CASE Rerun(r)
    BY <2>15, <2>1 DEF Rerun, loop, faults
  <2> QED
    BY <2>2, <2>3, <2>4, <2>5, <2>6, <2>7, <2>8, <2>9, <2>10, <2>11, <2>12, <2>13, <2>14,
       <2>15
    DEF Act, Step
<1>4. /\ pc' \in [Runs -> Steps] /\ resume' \in [Runs -> {"select", "wheel"}]
      /\ at' \in [Runs -> Packages \cup {NoName}] /\ todo' \in [Runs -> SUBSET scene.declared]
      /\ attempt' \in [Runs -> Nat]
      /\ breaks' \in 0..MaxBreaks /\ reruns' \in 0..MaxReruns
      /\ \A s \in Runs : attempt'[s] \in 1..(reruns' + 1) /\ at'[s] \notin todo'[s]
  BY StepPc, StepAt, StepAttempt
<1> QED BY <1>1, <1>2, <1>3, <1>4 DEF Types

-----------------------------------------------------------------------------
(***************************************************************************)
(* What the gate has established                                           *)
(***************************************************************************)

(* A release has one package: the only one, or the one its tag names.      *)
LEMMA OneSelected ==
  ASSUME ReleaseAssumption, Types, NEW r \in Runs, Releasing(r), NEW p \in Selected(r)
  PROVE  Selected(r) = {p}
<1>1. CASE Cardinality(scene.declared) = 1
  <2>1. IsFiniteSet(scene.declared)
    BY DEF Types, ReleaseAssumption
  <2>2. \E x : scene.declared = {x}
    BY <1>1, <2>1, FS_Singleton
  <2> QED BY <1>1, <2>2 DEF Selected
<1>2. CASE Cardinality(scene.declared) # 1
  BY <1>2 DEF Selected, Named
<1> QED BY <1>1, <1>2

(* A tag that names no package is of a repository with one.                *)
LEMMA NamedOrOnly ==
  ASSUME ReleaseAssumption, Types, NEW r \in Runs, Releasing(r), NEW p \in Selected(r),
         Ref(r).name \in {NoName, p}
  PROVE  Ref(r).name = p \/ (Ref(r).name = NoName /\ scene.declared = {p})
<1>1. scene.declared \subseteq Packages /\ NoName \notin Packages
  BY SelectedDeclared DEF ReleaseAssumption
<1>2. Selected(r) = {p}
  BY OneSelected
<1> QED BY <1>1, <1>2 DEF Selected, Named

LEMMA GatedStays ==
  ASSUME NEW s \in Runs, scene' = scene, at'[s] = at[s], todo'[s] = todo[s],
         pc'[s] = pc[s] \/ pc'[s] \notin AfterSelect, Gated(s)
  PROVE  Gated(s)'
<1>1. /\ Selected(s)' = Selected(s) /\ Releasing(s)' = Releasing(s) /\ Tree(s)' = Tree(s)
      /\ Bound(s)' = Bound(s)
  BY DEF Selected, Named, Releasing, Event, Ref, Tree, Bound
<1>2. AfterProject \subseteq AfterSelect /\ AfterArtifact \subseteq AfterSelect
      /\ AfterBind \subseteq AfterSelect /\ "emit" \in AfterSelect
  BY DEF AfterProject, AfterArtifact, AfterBind, AfterSelect, BuildSteps
<1> QED BY <1>1, <1>2 DEF Gated

LEMMA StepGated ==
  ASSUME ReleaseAssumption, Types, RunsInv, NEW r \in Runs, Act(r), NEW s \in Runs
  PROVE  Gated(s)'
<1>0. /\ pc \in [Runs -> Steps] /\ resume \in [Runs -> {"select", "wheel"}]
      /\ at \in [Runs -> Packages \cup {NoName}] /\ todo \in [Runs -> SUBSET scene.declared]
  BY DEF Types
<1>1. scene' = scene /\ Gated(s) /\ Gated(r)
  BY StepOnly DEF Only, RunsInv
<1>2. CASE s # r
  <2>1. /\ pc'[s] \in {pc[s], "cancelled"} /\ at'[s] = at[s] /\ todo'[s] = todo[s]
    BY <1>2, StepOnly DEF Only
  <2>2. "cancelled" \notin AfterSelect
    BY DEF AfterSelect, BuildSteps
  <2> QED BY <1>1, <2>1, <2>2, GatedStays
<1>3. CASE s = r
  <2>1. /\ "queued" \notin AfterSelect /\ "cancelled" \notin AfterSelect
        /\ "select" \notin AfterSelect /\ "wheel" \notin AfterSelect
        /\ "sdist" \notin AfterSelect /\ "passed" \notin AfterSelect
        /\ "published" \notin AfterSelect /\ "build_failed" \notin AfterSelect
        /\ "publish_failed" \notin AfterSelect
    BY DEF AfterSelect, BuildSteps
  <2>2. ASSUME at' = at, todo' = todo, pc'[r] \notin AfterSelect PROVE Gated(r)'
    BY <1>1, <2>2, GatedStays
  <2>3. /\ Selected(r)' = Selected(r) /\ Releasing(r)' = Releasing(r)
    BY <1>1 DEF Selected, Named, Releasing, Event, Ref
  <2>4. ASSUME at' = at, todo' = todo
        PROVE  Tree(r)' = Tree(r) /\ Bound(r)' = Bound(r)
    BY <1>1, <2>4 DEF Tree, Bound, Releasing, Event, Ref
  <2>5. Gated(r)'
    <3>1. CASE Trigger(r)
      BY <3>1, <1>0, <2>1, <2>2 DEF Trigger, Enqueue, Replaced, Rivals, loop, faults
    <3>2. CASE Begin(r)
      BY <3>2, <1>0, <2>1, <2>2 DEF Begin, Go, loop, faults
    <3>3. CASE Select(r)
      <4>1. CASE pc'[r] = "build_failed" /\ UNCHANGED loop
        BY <2>1, <2>2, <4>1 DEF loop
      <4>2. ASSUME NEW p \in Selected(r), Go(r, "project"), at' = [at EXCEPT ![r] = p],
                   todo' = [todo EXCEPT ![r] = Selected(r) \ {p}]
            PROVE  Gated(r)'
        <5>1. at'[r] = p /\ todo'[r] = Selected(r) \ {p} /\ pc'[r] = "project"
          BY <1>0, <4>2 DEF Go
        <5>2. p \in scene.declared
          BY SelectedDeclared
        <5>3. Releasing(r) => Selected(r) = {p}
          BY OneSelected
        <5>4. "project" \notin AfterProject /\ "project" \notin AfterArtifact
              /\ "project" \notin AfterBind
          BY DEF AfterProject, AfterArtifact, AfterBind, AfterSelect, BuildSteps
        <5> QED BY <1>1, <2>3, <5>1, <5>2, <5>3, <5>4 DEF Gated
      <4> QED BY <1>0, <3>3, <4>1, <4>2 DEF Select, Go
    <3>4. CASE CheckProject(r)
      <4>1. CASE pc'[r] = "build_failed"
        BY <1>0, <3>4, <2>1, <2>2, <4>1 DEF CheckProject, Gate, Go, loop
      <4>2. CASE pc'[r] # "build_failed"
        BY <1>0, <1>1, <3>4, <2>3, <2>4, <4>2
        DEF CheckProject, Gate, Go, loop, Gated, AfterSelect, AfterProject, AfterArtifact,
            AfterBind, BuildSteps
      <4> QED BY <4>1, <4>2
    <3>5. CASE Build(r)
      <4>1. CASE pc'[r] = "build_failed"
        BY <1>0, <3>5, <2>1, <2>2, <4>1 DEF Build, Gate, Go, loop
      <4>2. CASE pc'[r] # "build_failed"
        BY <1>0, <1>1, <3>5, <2>3, <2>4, <4>2
        DEF Build, Gate, Go, loop, Gated, AfterSelect, AfterProject, AfterArtifact,
            AfterBind, BuildSteps
      <4> QED BY <4>1, <4>2
    <3>6. CASE CheckArtifacts(r)
      <4>1. CASE pc'[r] = "build_failed"
        BY <1>0, <3>6, <2>1, <2>2, <4>1 DEF CheckArtifacts, Gate, Go, loop
      <4>2. CASE pc'[r] # "build_failed"
        BY <1>0, <1>1, <3>6, <2>3, <2>4, <4>2
        DEF CheckArtifacts, Gate, Go, loop, Gated, AfterSelect, AfterProject,
            AfterArtifact, AfterBind, BuildSteps
      <4> QED BY <4>1, <4>2
    <3>7. CASE Bind(r)
      <4>1. CASE pc'[r] = "build_failed"
        BY <1>0, <3>7, <2>1, <2>2, <4>1 DEF Bind, Gate, Go, loop
      <4>2. CASE pc'[r] # "build_failed"
        BY <1>0, <1>1, <3>7, <2>3, <2>4, <4>2
        DEF Bind, Gate, Go, loop, Gated, AfterSelect, AfterProject, AfterArtifact,
            AfterBind, BuildSteps
      <4> QED BY <4>1, <4>2
    <3>8. CASE Lookup(r)
      <4>1. CASE pc'[r] = "build_failed"
        BY <1>0, <3>8, <2>1, <2>2, <4>1 DEF Lookup, Gate, Go, loop
      <4>2. CASE pc'[r] # "build_failed"
        BY <1>0, <1>1, <3>8, <2>3, <2>4, <4>2
        DEF Lookup, Gate, Go, loop, Gated, AfterSelect, AfterProject, AfterArtifact,
            AfterBind, BuildSteps
      <4> QED BY <4>1, <4>2
    <3>9. CASE Probe(r)
      <4>1. CASE pc'[r] = "build_failed"
        BY <1>0, <3>9, <2>1, <2>2, <4>1 DEF Probe, Gate, Go, loop
      <4>2. CASE pc'[r] # "build_failed"
        BY <1>0, <1>1, <3>9, <2>3, <2>4, <4>2
        DEF Probe, Gate, Go, loop, Gated, AfterSelect, AfterProject, AfterArtifact,
            AfterBind, BuildSteps
      <4> QED BY <4>1, <4>2
    <3>10. CASE Emit(r)
      <4>1. CASE UNCHANGED loop
        <5>1. pc'[r] \in {"wheel", "passed"} \/ \E p \in todo[r] : todo' = [todo EXCEPT
           ![r] = Remaining(r, p)]
          BY <1>0, <3>10 DEF Emit, Go
        <5>2. ASSUME NEW p \in todo[r], todo' = [todo EXCEPT ![r] = Remaining(r, p)]
              PROVE  FALSE
          BY <1>0, <4>1, <5>2 DEF loop, Remaining
        <5> QED BY <2>1, <2>2, <4>1, <5>1, <5>2 DEF loop
      <4>2. ASSUME NEW p \in todo[r], Go(r, "project"), at' = [at EXCEPT ![r] = p],
                   todo' = [todo EXCEPT ![r] = Remaining(r, p)]
            PROVE  Gated(r)'
        <5>1. at'[r] = p /\ pc'[r] = "project" /\ p \in scene.declared
          BY <1>0, <4>2 DEF Go
        <5>2. ~Releasing(r)
          BY <1>1, <3>10, <4>2 DEF Emit, Gated, AfterSelect, BuildSteps
        <5>3. Selected(r) = scene.declared
          BY <5>2 DEF Selected
        <5>4. "project" \notin AfterProject /\ "project" \notin AfterArtifact
              /\ "project" \notin AfterBind
          BY DEF AfterProject, AfterArtifact, AfterBind, AfterSelect, BuildSteps
        <5> QED BY <1>1, <2>3, <5>1, <5>2, <5>3, <5>4 DEF Gated
      <4> QED BY <3>10, <4>1, <4>2 DEF Emit
    <3>11. CASE UploadWheel(r)
      BY <3>11, <1>0, <2>1, <2>2 DEF UploadWheel, Upload, Go, loop, faults
    <3>12. CASE UploadSdist(r)
      BY <3>12, <1>0, <2>1, <2>2 DEF UploadSdist, Upload, Go, loop, faults
    <3>13. CASE Break(r)
      BY <3>13, <1>0, <2>1, <2>2 DEF Break, Go, loop, faults
    <3>14. CASE Rerun(r)
      BY <3>14, <1>0, <2>1, <2>2 DEF Rerun, Enqueue, Replaced, Rivals, loop, faults
    <3> QED
      BY <3>1, <3>2, <3>3, <3>4, <3>5, <3>6, <3>7, <3>8, <3>9, <3>10, <3>11, <3>12, <3>13,
         <3>14
      DEF Act, Step
  <2> QED BY <1>3, <2>5
<1> QED BY <1>2, <1>3

(* The artifact of a release is what its tag says, as the gate passed it.  *)
LEMMA EmitsTagged ==
  ASSUME ReleaseAssumption, NothingAssumption, Types, RunsInv,
         NEW r \in Runs, pc[r] = "emit", Releasing(r), scene' = scene, Versions' = Versions,
         dist'[r] = [package |-> at[r], version |-> Tree(r).version, build |-> <<r,
            attempt[r]>>]
  PROVE  HasDist(r)'
<1>1. /\ at[r] \in Selected(r) /\ at[r] \in Packages
      /\ Tree(r).flaw \notin {"project", "artifact", "probe"} /\ Bound(r)
  BY SelectedDeclared
  DEF RunsInv, Gated, AfterSelect, AfterProject, AfterArtifact, AfterBind, BuildSteps
<1>2. Tree(r) \in [version : {Tree(r).version}, flaw : Flaws] /\ attempt[r] \in Nat
  BY <1>1 DEF Types, ReleaseAssumption, Tree
<1>3. Tree(r) = [version |-> Tree(r).version, flaw |-> "none"]
  <2>1. Tree(r).flaw = "none"
    BY <1>1, <1>2 DEF Flaws
  <2> QED BY <1>2, <2>1
<1>4. Tagged(r, at[r], Tree(r).version)
  <2>1. scene.trigger[r].event = "release" /\ scene.trigger[r].ref = Ref(r)
        /\ scene.trigger[r].tree[at[r]] = Tree(r)
    BY DEF Releasing, Event, Ref, Tree
  <2>2. Ref(r).version = Tree(r).version /\ Ref(r).name \in {NoName, at[r]}
    BY <1>1 DEF Bound
  <2>3. Ref(r).name = at[r] \/ (Ref(r).name = NoName /\ scene.declared = {at[r]})
    BY <1>1, <2>2, NamedOrOnly
  <2> QED BY <1>3, <2>1, <2>2, <2>3 DEF Tagged
<1>5. Tree(r).version \in Versions
  BY <1>1 DEF Versions, Tree
<1>6. /\ dist'[r] \in [package : Packages, version : {Tree(r).version}, build : Runs \X Nat]
      /\ dist'[r] \in [package : Packages, version : Versions, build : Builds]
      /\ dist'[r].build[1] = r /\ dist'[r].package = at[r]
      /\ dist'[r].version = Tree(r).version
  BY <1>1, <1>2, <1>5 DEF Builds
<1>7. dist'[r] # Nothing
  BY <1>1, <1>6 DEF NothingAssumption, Types, Tree
<1>8. Tagged(r, dist[r].package, dist[r].version)'
  BY <1>4, <1>6 DEF Tagged
<1> QED BY <1>6, <1>7, <1>8 DEF HasDist

LEMMA DistStays ==
  ASSUME NEW s \in Runs, scene' = scene, Versions' = Versions, dist'[s] = dist[s],
     DistInv(s),
         Publishing(s)' => Publishing(s)
  PROVE  DistInv(s)'
<1>1. HasDist(s)' = HasDist(s)
  BY DEF HasDist, Tagged
<1> QED BY <1>1 DEF DistInv

LEMMA StepDist ==
  ASSUME ReleaseAssumption, NothingAssumption, Types, RunsInv, NEW r \in Runs, Act(r),
         NEW s \in Runs
  PROVE  DistInv(s)'
<1>0. /\ pc \in [Runs -> Steps] /\ resume \in [Runs -> {"select", "wheel"}]
      /\ dist = [q \in Runs |-> dist[q]]
  BY DEF Types
<1>1. scene' = scene /\ Versions' = Versions /\ DistInv(s) /\ DistInv(r)
  BY StepOnly DEF Only, RunsInv
<1>2. CASE s # r
  <2>1. /\ pc'[s] \in {pc[s], "cancelled"} /\ resume'[s] = resume[s] /\ dist'[s] = dist[s]
    BY <1>2, StepOnly DEF Only
  <2> QED BY <1>1, <2>1, DistStays DEF Publishing, PublishSteps
<1>3. CASE s = r
  <2>1. ASSUME dist' = dist, Publishing(r)' => Publishing(r) PROVE DistInv(r)'
    BY <1>1, <2>1, DistStays
  <2>2. DistInv(r)'
    <3>1. CASE Trigger(r)
      BY <3>1, <1>0, <2>1
      DEF Publishing, PublishSteps, Trigger, Enqueue, Replaced, Rivals, loop, faults
    <3>2. CASE Begin(r)
      BY <3>2, <1>0, <2>1 DEF Publishing, PublishSteps, Begin, Go, loop, faults
    <3>3. CASE Select(r)
      BY <3>3, <1>0, <2>1 DEF Publishing, PublishSteps, Select, Go, loop, faults
    <3>4. CASE CheckProject(r)
      BY <3>4, <1>0, <2>1 DEF Publishing, PublishSteps, CheckProject, Gate, Go, loop, faults
    <3>5. CASE Build(r)
      BY <3>5, <1>0, <2>1 DEF Publishing, PublishSteps, Build, Gate, Go, loop, faults
    <3>6. CASE CheckArtifacts(r)
      BY <3>6, <1>0, <2>1
      DEF Publishing, PublishSteps, CheckArtifacts, Gate, Go, loop, faults
    <3>7. CASE Bind(r)
      BY <3>7, <1>0, <2>1 DEF Publishing, PublishSteps, Bind, Gate, Go, loop, faults
    <3>8. CASE Lookup(r)
      BY <3>8, <1>0, <2>1 DEF Publishing, PublishSteps, Lookup, Gate, Go, loop, faults
    <3>9. CASE Probe(r)
      BY <3>9, <1>0, <2>1 DEF Publishing, PublishSteps, Probe, Gate, Go, loop, faults
    <3>10. CASE Emit(r)
      <4>1. CASE Releasing(r) /\ todo[r] = {}
        <5>1. dist'[r] = [package |-> at[r], version |-> Tree(r).version,
                          build |-> <<r, attempt[r]>>]
          BY <1>0, <3>10, <4>1 DEF Emit
        <5>2. HasDist(r)'
          BY <1>1, <3>10, <4>1, <5>1, EmitsTagged DEF Emit
        <5> QED BY <5>2 DEF DistInv, HasDist
      <4>2. CASE ~(Releasing(r) /\ todo[r] = {})
        BY <1>0, <2>1, <3>10, <4>2 DEF Emit, Go, Publishing, PublishSteps
      <4> QED BY <4>1, <4>2
    <3>11. CASE UploadWheel(r)
      BY <3>11, <1>0, <2>1
      DEF Publishing, PublishSteps, UploadWheel, Upload, Go, loop, faults
    <3>12. CASE UploadSdist(r)
      BY <3>12, <1>0, <2>1
      DEF Publishing, PublishSteps, UploadSdist, Upload, Go, loop, faults
    <3>13. CASE Break(r)
      BY <3>13, <1>0, <2>1 DEF Publishing, PublishSteps, Break, Go, loop, faults
    <3>14. CASE Rerun(r)
      BY <3>14, <1>0, <2>1
      DEF Publishing, PublishSteps, Rerun, Enqueue, Replaced, Rivals, loop, faults
    <3> QED
      BY <3>1, <3>2, <3>3, <3>4, <3>5, <3>6, <3>7, <3>8, <3>9, <3>10, <3>11, <3>12, <3>13,
         <3>14
      DEF Act, Step
  <2> QED BY <1>3, <2>2
<1> QED BY <1>2, <1>3

-----------------------------------------------------------------------------
(***************************************************************************)
(* What is on PyPI                                                         *)
(***************************************************************************)

(* A run that uploads has an artifact; only its file changes, and that     *)
(* held nothing or the same build before.                                  *)
LEMMA UploadEffect ==
  ASSUME ReleaseAssumption, Types, RunsInv, NEW r \in Runs, NEW kind, Uploads(r, kind)
  PROVE  /\ HasDist(r) /\ kind \in Kinds
         /\ File(r, kind) \in Packages \X Versions \X Kinds
         /\ pypi[File(r, kind)] \in {Nothing, dist[r].build} /\ dist[r].build # Nothing
         /\ pypi'[File(r, kind)] = dist[r].build
         /\ \A f \in Packages \X Versions \X Kinds : f # File(r, kind) => pypi'[f] = pypi[f]
<1>1. HasDist(r)
  BY DEF Uploads, RunsInv, DistInv, Publishing, PublishSteps, Kinds
<1>2. File(r, kind) \in Packages \X Versions \X Kinds /\ dist[r].build \in Builds
  BY <1>1 DEF HasDist, File, Uploads
<1>3. pypi \in [Packages \X Versions \X Kinds -> Builds \cup {Nothing}]
  BY DEF Types
<1>4. dist[r].build # Nothing
  BY <1>2 DEF ReleaseAssumption, Builds
<1> QED BY <1>1, <1>2, <1>3, <1>4 DEF Uploads, Taken

LEMMA TaggedFiles ==
  PublishedAsTagged <=> \A f \in Published : Tagged(pypi[f][1], f[1], f[2])
BY DEF PublishedAsTagged, Tagged

LEMMA StepTagged ==
  ASSUME ReleaseAssumption, Types, RunsInv, PublishedAsTagged, NEW r \in Runs, Act(r)
  PROVE  PublishedAsTagged'
<1>0. /\ pypi \in [Packages \X Versions \X Kinds -> Builds \cup {Nothing}]
      /\ pypi' \in [Packages \X Versions \X Kinds -> Builds \cup {Nothing}]
      /\ scene' = scene
  <2>1. Types' /\ Versions' = Versions /\ scene' = scene
    BY StepTypes, StepOnly DEF Only
  <2> QED BY <2>1 DEF Types, Builds
<1>1. ASSUME NEW f \in Packages \X Versions \X Kinds, pypi'[f] # Nothing
      PROVE  Tagged(pypi'[f][1], f[1], f[2])
  <2>1. CASE pypi'[f] = pypi[f]
    BY <1>0, <1>1, <2>1, TaggedFiles DEF Published
  <2>2. ASSUME NEW kind \in Kinds, Uploads(r, kind), f = File(r, kind)
        PROVE  Tagged(pypi'[f][1], f[1], f[2])
    <3>1. HasDist(r) /\ pypi'[f] = dist[r].build
      BY <2>2, UploadEffect
    <3> QED BY <2>2, <3>1 DEF HasDist, File
  <2>3. CASE pypi'[f] # pypi[f]
    BY <2>2, <2>3, StepPypi, UploadEffect
  <2> QED BY <2>1, <2>3
<1>2. \A f \in Published' : Tagged(pypi'[f][1], f[1], f[2])
  BY <1>0, <1>1 DEF Published
<1>3. \A f \in Published' : Tagged(pypi[f][1], f[1], f[2])'
  BY <1>0, <1>2 DEF Tagged
<1> QED BY <1>3 DEF PublishedAsTagged, Tagged

(* A run gets to its source distribution only by uploading its wheel.      *)
LEMMA ToSdist ==
  ASSUME Types, NEW r \in Runs, Act(r), NEW s \in Runs, pc'[s] = "sdist"
  PROVE  (s = r /\ Uploads(r, "wheel")) \/ (pc[s] = "sdist" /\ dist'[s] = dist[s])
<1>0. /\ pc \in [Runs -> Steps] /\ resume \in [Runs -> {"select", "wheel"}]
  BY DEF Types
<1>1. CASE s # r
  BY <1>1, StepOnly DEF Only
<1>2. CASE s = r
  <2> USE DEF Uploads, Kinds
  <2>1. CASE Trigger(r)
    BY <2>1, <1>0, <1>2 DEF Trigger, Enqueue, Replaced, Rivals, loop, faults
  <2>2. CASE Begin(r)
    BY <2>2, <1>0, <1>2 DEF Begin, Go, loop, faults
  <2>3. CASE Select(r)
    BY <2>3, <1>0, <1>2 DEF Select, Go, loop, faults
  <2>4. CASE CheckProject(r)
    BY <2>4, <1>0, <1>2 DEF CheckProject, Gate, Go, loop, faults
  <2>5. CASE Build(r)
    BY <2>5, <1>0, <1>2 DEF Build, Gate, Go, loop, faults
  <2>6. CASE CheckArtifacts(r)
    BY <2>6, <1>0, <1>2 DEF CheckArtifacts, Gate, Go, loop, faults
  <2>7. CASE Bind(r)
    BY <2>7, <1>0, <1>2 DEF Bind, Gate, Go, loop, faults
  <2>8. CASE Lookup(r)
    BY <2>8, <1>0, <1>2 DEF Lookup, Gate, Go, loop, faults
  <2>9. CASE Probe(r)
    BY <2>9, <1>0, <1>2 DEF Probe, Gate, Go, loop, faults
  <2>10. CASE Emit(r)
    BY <2>10, <1>0, <1>2 DEF Emit, Go, loop, faults
  <2>11. CASE UploadWheel(r)
    BY <2>11, <1>0, <1>2 DEF UploadWheel, Upload, Go, loop, faults
  <2>12. CASE UploadSdist(r)
    BY <2>12, <1>0, <1>2 DEF UploadSdist, Upload, Go, loop, faults
  <2>13. CASE Break(r)
    BY <2>13, <1>0, <1>2 DEF Break, Go, loop, faults
  <2>14. CASE Rerun(r)
    BY <2>14, <1>0, <1>2 DEF Rerun, Enqueue, Replaced, Rivals, loop, faults
  <2> QED
    BY <2>1, <2>2, <2>3, <2>4, <2>5, <2>6, <2>7, <2>8, <2>9, <2>10, <2>11, <2>12, <2>13,
       <2>14
    DEF Act, Step
<1> QED BY <1>1, <1>2

(* Only a break keeps a run from uploading its source distribution, where  *)
(* its wheel was taken.                                                    *)
LEMMA FromSdist ==
  ASSUME ReleaseAssumption, Types, RunsInv, WheelFirst, NEW r \in Runs, Act(r),
         NEW s \in Runs, pc[s] = "sdist", breaks' = 0
  PROVE  (s = r /\ Uploads(r, "sdist")) \/ (pc'[s] = "sdist" /\ dist'[s] = dist[s])
<1>0. /\ pc \in [Runs -> Steps] /\ breaks \in Nat
  BY DEF Types, ReleaseAssumption
<1>1. CASE s # r
  BY <1>1, StepOnly DEF Only
<1>2. CASE s = r
  <2>0. ~Taken(r, "sdist")
    <3>1. HasDist(r)
      BY <1>2 DEF RunsInv, DistInv, Publishing, PublishSteps
    <3>2. dist[r].package \in Packages /\ dist[r].version \in Versions
          /\ pypi[<<dist[r].package, dist[r].version, "wheel">>] = dist[r].build
      BY <1>2, <3>1 DEF HasDist, WheelFirst, File
    <3> QED BY <3>2 DEF WheelFirst, Taken, File
  <2>1. CASE Trigger(r)
    BY <2>1, <1>0, <1>2, <2>0 DEF Trigger, Enqueue, Replaced, Rivals, loop, faults
  <2>2. CASE Begin(r)
    BY <2>2, <1>0, <1>2, <2>0 DEF Begin, Go, loop, faults
  <2>3. CASE Select(r)
    BY <2>3, <1>0, <1>2, <2>0 DEF Select, Go, loop, faults
  <2>4. CASE CheckProject(r)
    BY <2>4, <1>0, <1>2, <2>0 DEF CheckProject, Gate, Go, loop, faults
  <2>5. CASE Build(r)
    BY <2>5, <1>0, <1>2, <2>0 DEF Build, Gate, Go, loop, faults
  <2>6. CASE CheckArtifacts(r)
    BY <2>6, <1>0, <1>2, <2>0 DEF CheckArtifacts, Gate, Go, loop, faults
  <2>7. CASE Bind(r)
    BY <2>7, <1>0, <1>2, <2>0 DEF Bind, Gate, Go, loop, faults
  <2>8. CASE Lookup(r)
    BY <2>8, <1>0, <1>2, <2>0 DEF Lookup, Gate, Go, loop, faults
  <2>9. CASE Probe(r)
    BY <2>9, <1>0, <1>2, <2>0 DEF Probe, Gate, Go, loop, faults
  <2>10. CASE Emit(r)
    BY <2>10, <1>0, <1>2, <2>0 DEF Emit, Go, loop, faults
  <2>11. CASE UploadWheel(r)
    BY <2>11, <1>0, <1>2, <2>0 DEF UploadWheel, Upload, Go, loop, faults
  <2>12. CASE UploadSdist(r)
    BY <2>12, <1>0, <1>2, <2>0 DEF Uploads, Kinds, UploadSdist, Upload, Go, loop, faults
  <2>13. CASE Break(r)
    BY <2>13, <1>0, <1>2, <2>0 DEF Break, Go, loop, faults
  <2>14. CASE Rerun(r)
    BY <2>14, <1>0, <1>2, <2>0 DEF Ended, Rerun, Enqueue, Replaced, Rivals, loop, faults
  <2> QED
    BY <2>1, <2>2, <2>3, <2>4, <2>5, <2>6, <2>7, <2>8, <2>9, <2>10, <2>11, <2>12, <2>13,
       <2>14
    DEF Act, Step
<1> QED BY <1>1, <1>2

LEMMA StepWheelFirst ==
  ASSUME ReleaseAssumption, NothingAssumption, Types, RunsInv, WheelFirst,
         NEW r \in Runs, Act(r)
  PROVE  WheelFirst'
<1> DEFINE Files == Packages \X Versions \X Kinds
           Wheel(s) == pypi[File(s, "wheel")] = dist[s].build
<1>1. /\ Versions' = Versions
      /\ \A f \in Files : pypi[f] \in Builds \cup {Nothing}
      /\ "wheel" \in Kinds /\ "sdist" \in Kinds
  BY StepOnly DEF Types, Only, Kinds
<1>2. ASSUME NEW s \in Runs, pc[s] = "sdist"
      PROVE  /\ File(s, "wheel") \in Files /\ pypi[File(s, "wheel")] = dist[s].build
             /\ dist[s].build # Nothing /\ dist[s].package \in Packages
             /\ dist[s].version \in Versions
  <2>1. HasDist(s)
    BY <1>2 DEF RunsInv, DistInv, Publishing, PublishSteps
  <2> QED BY <1>1, <1>2, <2>1
          DEF HasDist, WheelFirst, File, Builds, ReleaseAssumption
<1>3. CASE pypi' = pypi /\ ~Uploads(r, "wheel")
  <2>1. \A s \in Runs : pc'[s] = "sdist" => pypi'[File(s, "wheel")'] = dist'[s].build
    BY <1>2, <1>3, ToSdist DEF File
  <2>2. \A s \in Runs : pc'[s] = "sdist" => (pypi[File(s, "wheel")] = dist[s].build)'
    BY <2>1
  <2> QED BY <1>1, <1>3, <2>2 DEF WheelFirst
<1>4. CASE Uploads(r, "wheel")
  <2>1. /\ HasDist(r) /\ File(r, "wheel") \in Files
        /\ pypi[File(r, "wheel")] \in {Nothing, dist[r].build}
        /\ pypi'[File(r, "wheel")] = dist[r].build
        /\ \A f \in Files : f # File(r, "wheel") => pypi'[f] = pypi[f]
    BY <1>4, UploadEffect
  <2>2. ASSUME NEW p \in Packages, NEW v \in Versions, pypi'[<<p, v, "sdist">>] # Nothing
        PROVE  pypi'[<<p, v, "wheel">>] = pypi'[<<p, v, "sdist">>]
    <3>1. <<p, v, "sdist">> \in Files /\ <<p, v, "wheel">> \in Files
          /\ <<p, v, "sdist">> # File(r, "wheel")
      BY <1>1 DEF File
    <3>2. pypi'[<<p, v, "sdist">>] = pypi[<<p, v, "sdist">>]
      BY <2>1, <3>1
    <3>3. pypi[<<p, v, "wheel">>] = pypi[<<p, v, "sdist">>]
      BY <2>2, <3>2 DEF WheelFirst
    <3> QED BY <2>1, <2>2, <3>1, <3>2, <3>3
  <2>3. dist' = dist
    BY <1>4 DEF Uploads
  <2>4. ASSUME NEW s \in Runs, pc'[s] = "sdist"
        PROVE  pypi'[File(s, "wheel")] = dist[s].build
    <3>1. CASE s = r
      BY <2>1, <3>1
    <3>2. CASE pc[s] = "sdist"
      BY <1>2, <2>1, <3>2
    <3> QED BY <2>4, <3>1, <3>2, ToSdist
  <2>5. \A s \in Runs : pc'[s] = "sdist" => (pypi[File(s, "wheel")] = dist[s].build)'
    BY <2>3, <2>4 DEF File
  <2> QED BY <1>1, <2>2, <2>5 DEF WheelFirst
<1>5. CASE Uploads(r, "sdist")
  <2>1. /\ HasDist(r) /\ File(r, "sdist") \in Files
        /\ pypi'[File(r, "sdist")] = dist[r].build
        /\ \A f \in Files : f # File(r, "sdist") => pypi'[f] = pypi[f]
        /\ pc[r] = "sdist" /\ dist' = dist
    BY <1>5, UploadEffect, ZenonT(60) DEF Uploads
  <2>2. ASSUME NEW p \in Packages, NEW v \in Versions, pypi'[<<p, v, "sdist">>] # Nothing
        PROVE  pypi'[<<p, v, "wheel">>] = pypi'[<<p, v, "sdist">>]
    <3>1. <<p, v, "sdist">> \in Files /\ <<p, v, "wheel">> \in Files
          /\ <<p, v, "wheel">> # File(r, "sdist")
      BY <1>1 DEF File
    <3>2. pypi'[<<p, v, "wheel">>] = pypi[<<p, v, "wheel">>]
      BY <2>1, <3>1
    <3>3. CASE <<p, v, "sdist">> = File(r, "sdist")
      <4>1. <<p, v, "wheel">> = File(r, "wheel")
        BY <3>3 DEF File
      <4> QED BY <1>2, <2>1, <3>2, <3>3, <4>1
    <3>4. CASE <<p, v, "sdist">> # File(r, "sdist")
      <4>1. pypi'[<<p, v, "sdist">>] = pypi[<<p, v, "sdist">>]
        BY <2>1, <3>1, <3>4
      <4> QED BY <2>2, <3>2, <4>1 DEF WheelFirst
    <3> QED BY <3>3, <3>4
  <2>3. ASSUME NEW s \in Runs, pc'[s] = "sdist"
        PROVE  pypi'[File(s, "wheel")] = dist[s].build
    <3>1. pc[s] = "sdist"
      BY <1>5, <2>3, ToSdist DEF Uploads
    <3>2. File(s, "wheel") # File(r, "sdist")
      BY DEF File
    <3> QED BY <1>2, <2>1, <3>1, <3>2
  <2>4. \A s \in Runs : pc'[s] = "sdist" => (pypi[File(s, "wheel")] = dist[s].build)'
    BY <2>1, <2>3 DEF File
  <2> QED BY <1>1, <2>2, <2>4 DEF WheelFirst
<1> QED BY <1>3, <1>4, <1>5, StepPypi DEF Kinds

LEMMA StepHalves ==
  ASSUME ReleaseAssumption, Types, RunsInv, WheelFirst, Halves, NEW r \in Runs, Act(r)
  PROVE  Halves'
<1> SUFFICES ASSUME breaks' = 0
             PROVE  \A p \in Packages, v \in Versions :
                      \/ pypi'[<<p, v, "wheel">>] = Nothing
                      \/ pypi'[<<p, v, "sdist">>] # Nothing
                      \/ \E s \in Runs : /\ pc'[s] = "sdist" /\ dist'[s].package = p
                                         /\ dist'[s].version = v
  <2>1. Versions' = Versions
    BY StepOnly DEF Only
  <2> QED BY <2>1 DEF Halves
<1> TAKE p \in Packages, v \in Versions
<1>1. breaks = 0
  <2>1. breaks \in Nat /\ MaxBreaks \in Nat
    BY DEF Types, ReleaseAssumption
  <2>2. breaks' = breaks \/ breaks' = breaks + 1
    BY DEF Act, Trigger, Step, Rerun, faults, Begin, Select, CheckProject, Build,
           CheckArtifacts, Bind, Lookup, Probe, Gate, Emit, UploadWheel, UploadSdist,
              Upload,
           Break
  <2> QED BY <2>1, <2>2
<1>2. \/ pypi[<<p, v, "wheel">>] = Nothing
      \/ pypi[<<p, v, "sdist">>] # Nothing
      \/ \E s \in Runs : pc[s] = "sdist" /\ dist[s].package = p /\ dist[s].version = v
  BY <1>1 DEF Halves
<1>3. <<p, v, "wheel">> \in Packages \X Versions \X Kinds
      /\ <<p, v, "sdist">> \in Packages \X Versions \X Kinds
  BY DEF Kinds
<1>4. ASSUME ~Uploads(r, "sdist")
      PROVE  \A s \in Runs : pc[s] = "sdist" => pc'[s] = "sdist" /\ dist'[s] = dist[s]
  BY <1>4, FromSdist
<1>5. CASE pypi' = pypi /\ ~Uploads(r, "sdist")
  BY <1>2, <1>4, <1>5
<1>6. CASE Uploads(r, "wheel")
  <2>0. ~Uploads(r, "sdist") /\ pc'[r] = "sdist" /\ dist' = dist
    BY <1>6 DEF Uploads
  <2>1. \A f \in Packages \X Versions \X Kinds : f # File(r, "wheel") => pypi'[f] = pypi[f]
    BY <1>6, UploadEffect
  <2>2. CASE <<p, v, "wheel">> = File(r, "wheel")
    BY <2>0, <2>2 DEF File
  <2>3. CASE <<p, v, "wheel">> # File(r, "wheel")
    <3>1. <<p, v, "sdist">> # File(r, "wheel")
      BY DEF File
    <3>2. pypi'[<<p, v, "wheel">>] = pypi[<<p, v, "wheel">>]
          /\ pypi'[<<p, v, "sdist">>] = pypi[<<p, v, "sdist">>]
      BY <1>3, <2>1, <2>3, <3>1
    <3> QED BY <1>2, <1>4, <2>0, <3>2
  <2> QED BY <2>2, <2>3
<1>7. CASE Uploads(r, "sdist")
  <2>1. /\ pypi'[File(r, "sdist")] = dist[r].build /\ dist[r].build # Nothing
        /\ \A f \in Packages \X Versions \X Kinds : f # File(r, "sdist") => pypi'[f] = pypi[f]
    BY <1>7, UploadEffect
  <2>2. CASE <<p, v, "sdist">> = File(r, "sdist")
    BY <2>1, <2>2
  <2>3. CASE <<p, v, "sdist">> # File(r, "sdist")
    <3>1. <<p, v, "wheel">> # File(r, "sdist")
      BY DEF File
    <3>2. pypi'[<<p, v, "wheel">>] = pypi[<<p, v, "wheel">>]
          /\ pypi'[<<p, v, "sdist">>] = pypi[<<p, v, "sdist">>]
      BY <1>3, <2>1, <2>3, <3>1
    <3>3. \A s \in Runs :
            pc[s] = "sdist" /\ dist[s].package = p /\ dist[s].version = v =>
              pc'[s] = "sdist" /\ dist'[s] = dist[s]
      BY <2>3, FromSdist DEF File
    <3> QED BY <1>2, <3>2, <3>3
  <2> QED BY <2>2, <2>3
<1> QED BY <1>5, <1>6, <1>7, StepPypi DEF Kinds

-----------------------------------------------------------------------------
(***************************************************************************)
(* The invariant is inductive                                              *)
(***************************************************************************)

LEMMA InitIInv ==
  ASSUME ReleaseAssumption, Init
  PROVE  IInv
<1>1. Types
  <2>1. /\ pc \in [Runs -> Steps] /\ resume \in [Runs -> {"select", "wheel"}]
        /\ attempt \in [Runs -> Nat] /\ at \in [Runs -> Packages \cup {NoName}]
        /\ todo \in [Runs -> SUBSET scene.declared]
        /\ dist = [r \in Runs |-> dist[r]]
    BY Members DEF Init
  <2>2. pypi \in [Packages \X Versions \X Kinds -> Builds \cup {Nothing}]
    BY DEF Init
  <2>3. breaks \in 0..MaxBreaks /\ reruns \in 0..MaxReruns
    BY DEF Init, ReleaseAssumption
  <2>4. \A r \in Runs : attempt[r] \in 1..(reruns + 1) /\ at[r] \notin todo[r]
    BY DEF Init
  <2> QED BY <2>1, <2>2, <2>3, <2>4 DEF Types, Init
<1>2. RunsInv
  BY DEF Init, RunsInv, Gated, DistInv, Publishing, PublishSteps, AfterSelect, AfterProject,
         AfterArtifact, AfterBind, BuildSteps
<1>3. PublishedAsTagged
  BY DEF Init, PublishedAsTagged, Published
<1>4. WheelFirst
  BY DEF Init, WheelFirst, Kinds
<1>5. Halves
  BY DEF Init, Halves, Kinds
<1> QED BY <1>1, <1>2, <1>3, <1>4, <1>5 DEF IInv

LEMMA NextIInv ==
  ASSUME ReleaseAssumption, NothingAssumption, IInv, [Next]_vars
  PROVE  IInv'
<1>1. ASSUME NEW r \in Runs, Act(r) PROVE IInv'
  <2>1. Types /\ RunsInv /\ PublishedAsTagged /\ WheelFirst /\ Halves
    BY DEF IInv
  <2>2. Types' /\ PublishedAsTagged' /\ WheelFirst' /\ Halves'
    BY <1>1, <2>1, StepTypes, StepTagged, StepWheelFirst, StepHalves
  <2>3. RunsInv'
    BY <1>1, <2>1, StepGated, StepDist DEF RunsInv
  <2> QED BY <2>2, <2>3 DEF IInv
<1>2. CASE UNCHANGED vars
  <2>1. Versions' = Versions
    BY <1>2 DEF vars, Versions
  <2>2. Types'
    BY <1>2, <2>1 DEF vars, IInv, Types
  <2>3. \A r \in Runs : Gated(r)' /\ DistInv(r)'
    BY <1>2, <2>1, GatedStays, DistStays DEF vars, IInv, RunsInv, Publishing
  <2>4. PublishedAsTagged' /\ WheelFirst' /\ Halves'
    BY <1>2, <2>1
    DEF vars, IInv, PublishedAsTagged, Published, WheelFirst, Halves, File
  <2> QED BY <2>2, <2>3, <2>4 DEF IInv, RunsInv
<1> QED BY <1>1, <1>2 DEF Next, Act, Done

(***************************************************************************)
(* Theorems                                                                *)
(***************************************************************************)

(* Whatever the runs, the order of their steps and the jobs that break and *)
(* are run again, the gate and PyPI keep to the invariant above.           *)
THEOREM Invariance == Spec => []IInv
<1>1. Init => IInv
  BY InitIInv, ReleaseAssumption
<1>2. IInv /\ [Next]_vars => IInv'
  BY NextIInv, ReleaseAssumption, NothingAssumption
<1> QED BY <1>1, <1>2, PTL DEF Spec

LEMMA TypesAreOk ==
  ASSUME ReleaseAssumption, IInv
  PROVE  TypeOK
<1>1. breaks \in 0..MaxBreaks /\ reruns \in 0..MaxReruns /\ MaxReruns \in Nat
  BY DEF IInv, Types, ReleaseAssumption
<1>2. ASSUME NEW r \in Runs
      PROVE  /\ InProgress(r) \/ Ended(r) \/ pc[r] \in {"idle", "queued"}
             /\ resume[r] \in {"select", "wheel"}
             /\ attempt[r] \in 1..(MaxReruns + 1)
             /\ at[r] \in Packages \cup {NoName} /\ todo[r] \subseteq scene.declared \ {at[r]}
             /\ pc[r] \in PublishSteps => dist[r] # Nothing
  <2>1. /\ pc[r] \in Steps /\ resume[r] \in {"select", "wheel"}
        /\ attempt[r] \in 1..(reruns + 1)
        /\ at[r] \in Packages \cup {NoName} /\ todo[r] \in SUBSET scene.declared
        /\ at[r] \notin todo[r]
    BY DEF IInv, Types
  <2>2. InProgress(r) \/ Ended(r) \/ pc[r] \in {"idle", "queued"}
    BY <2>1 DEF Steps, Over, InProgress, Ended
  <2>3. attempt[r] \in 1..(MaxReruns + 1)
    BY <1>1, <2>1
  <2>4. pc[r] \in PublishSteps => dist[r] # Nothing
    BY DEF IInv, RunsInv, DistInv, Publishing
  <2> QED BY <2>1, <2>2, <2>3, <2>4
<1> QED BY <1>1, <1>2 DEF TypeOK

(* Two kinds of files, and a source distribution never without the wheel   *)
(* of its build.                                                           *)
LEMMA OneBuild ==
  ASSUME IInv
  PROVE  FilesFromOneBuild
<1>1. DOMAIN pypi = Packages \X Versions \X Kinds
  BY DEF IInv, Types
<1> SUFFICES ASSUME NEW f \in Published, NEW g \in Both(f) \cap Published
             PROVE  pypi[f] = pypi[g]
  BY DEF FilesFromOneBuild
<1>2. PICK p \in Packages, v \in Versions, j \in Kinds : f = <<p, v, j>>
  BY <1>1 DEF Published
<1>3. PICK k \in Kinds : g = <<p, v, k>>
  BY <1>2 DEF Both
<1>4. pypi[<<p, v, "sdist">>] # Nothing => pypi[<<p, v, "wheel">>] = pypi[<<p, v, "sdist">>]
  BY DEF IInv, WheelFirst
<1>5. pypi[f] # Nothing /\ pypi[g] # Nothing
  BY DEF Published
<1> QED BY <1>2, <1>3, <1>4, <1>5 DEF Kinds

(* What PyPI has of a version is one build of a release whose tag names    *)
(* it, from sources that pass the gate, however releases race for the      *)
(* version and wherever jobs break and are run again.                      *)
THEOREM OnlyAsTagged == Spec => []PublishedInv
<1>1. IInv => PublishedInv
  BY TypesAreOk, OneBuild, ReleaseAssumption DEF IInv, PublishedInv
<1> QED BY <1>1, Invariance, PTL

(* Without a broken job no version is left with a wheel and no source      *)
(* distribution.                                                           *)
THEOREM BothOrNothing == Spec => []AllOrNothing
<1>1. ASSUME IInv PROVE AllOrNothing
  <2>1. DOMAIN pypi = Packages \X Versions \X Kinds
    BY <1>1 DEF IInv, Types
  <2> SUFFICES ASSUME breaks = 0, \A r \in Runs : Ended(r) \/ pc[r] = "idle",
                      NEW f \in Published, NEW g \in Both(f)
               PROVE  g \in Published
    BY DEF AllOrNothing
  <2>2. PICK p \in Packages, v \in Versions, j \in Kinds : f = <<p, v, j>>
    BY <2>1 DEF Published
  <2>3. PICK k \in Kinds : g = <<p, v, k>>
    BY <2>2 DEF Both
  <2>4. pypi[<<p, v, "sdist">>] # Nothing => pypi[<<p, v, "wheel">>] = pypi[<<p, v,
     "sdist">>]
    BY <1>1 DEF IInv, WheelFirst
  <2>5. \A r \in Runs : pc[r] # "sdist"
    BY DEF Ended
  <2>6. pypi[<<p, v, "wheel">>] # Nothing => pypi[<<p, v, "sdist">>] # Nothing
    BY <1>1, <2>5 DEF IInv, Halves
  <2>7. pypi[f] # Nothing
    BY DEF Published
  <2>8. pypi[g] # Nothing
    BY <2>2, <2>3, <2>4, <2>6, <2>7 DEF Kinds
  <2> QED BY <2>1, <2>3, <2>8 DEF Published
<1> QED BY <1>1, Invariance, PTL

=============================================================================
