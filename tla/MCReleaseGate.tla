---------------------------- MODULE MCReleaseGate ----------------------------
(* Three runs: releases that race for a version of one package, releases of  *)
(* two packages, and readiness runs between them.                            *)
EXTENDS ReleaseGate, TLC
CONSTANTS r1, r2, r3, p, q

Sources(vp, fp, vq, fq) ==
  (p :> [version |-> vp, flaw |-> fp]) @@ (q :> [version |-> vq, flaw |-> fq])
Good == Sources(1, "none", 1, "none")
Tag(name, version) == [name |-> name, version |-> version]
Release(name, version, tree) ==
  [event |-> "release", ref |-> Tag(name, version), tree |-> tree]
Push(tree) == [event |-> "push", ref |-> Tag("main", 0), tree |-> tree]
Pull(tree) == [event |-> "pull_request", ref |-> Tag("1/merge", 0), tree |-> tree]

Scene(declared, a, b, c) == [declared |-> declared, trigger |-> r1 :> a @@ r2 :> b @@ r3 :> c]

Flawed == {Sources(1, flaw, 1, "none") : flaw \in Flaws}
MCScenes ==
  {Scene({p}, Release(NoName, 1, Good), Release(p, 1, t), Release(NoName, 1, Good)) : t \in Flawed}
  \cup {Scene({p}, Release(NoName, 2, t), Release(NoName, 1, t), Push(t)) :
          t \in {Good, Sources(2, "none", 1, "none")}}
  \cup {Scene({p, q}, Release(p, 1, Good), Release(q, 1, Good), other) :
          other \in {Pull(Sources(1, "probe", 1, "none")), Release(NoName, 1, Good), Push(Good)}}
=============================================================================
