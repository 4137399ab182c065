----------------------------- MODULE MCDatabase -----------------------------
(* A small instance of DbMigration for TLC. *)
EXTENDS DbMigration

Version(minor, pre, preVersion) ==
    [major |-> 1, minor |-> minor, patch |-> 0, pre |-> pre, preVersion |-> preVersion]

\* The third came with a release candidate, the second with its release, as
\* files that are merged late do.
Rows == <<Version(0, "release", 0), Version(1, "release", 0), Version(1, "rc", 1)>>
SomeBuilds == {Version(1, "beta", 2), Version(1, "rc", 1)}

CONSTANTS own, other

Bound(redis, sequelize) == [redis |-> redis, sequelize |-> sequelize]
Migrating(model, sqlType, paths) ==
    [model |-> model, sqlType |-> sqlType, paths |-> paths, calls |-> {own, other}, bound |-> Bound(0, 1)]

\* One deployment that does not migrate, with two clients of each entity; the
\* others with one client of Sequelize.
Deployments ==
    { [Migrating("none", "mysql", <<>>) EXCEPT !.calls = {}, !.bound = Bound(2, 2)],
      Migrating("none", "mysql", <<{1, 3}, {2}>>), Migrating("none", "unset", <<{1, 2, 3}>>),
      Migrating("host", "mysql", <<{1, 2, 3}>>),
      Migrating("package", "postgres", <<{1, 2, 3}>>),
      Migrating("package", "postgres", <<{1, 3}, {2}>>) }

\* semverCompare() is the order of Newer, on all small versions.
SmallVersions ==
    [major : 0..1, minor : 0..1, patch : 0..1, pre : {"release", "alpha", "beta", "rc"}, preVersion : 0..1]
Released(v) == v.pre = "release" => v.preVersion = 0

ASSUME SemverIsAnOrder ==
    \A v, w \in {x \in SmallVersions : Released(x)} :
        /\ SemverCompare(v, w) = 1 <=> Newer(v, w)
        /\ SemverCompare(v, w) = -1 <=> Newer(w, v)

Before == {{}, {1}, {1, 2, 3}}
=============================================================================
