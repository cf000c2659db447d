----------------------------- MODULE MCGenerator -----------------------------
(* Small instances of Generator for TLC: two names in one directory, one of *)
(* them in a second directory too, and the interpreter.                    *)
EXTENDS Generator, TLC

Path(dir, name) == [dir |-> dir, name |-> name]
usrA == Path("usr", "a")
usrB == Path("usr", "b")
usrC == Path("usr", "c")
optA == Path("opt", "a")
ld == Path("usr", "ld")

MCPaths == {usrA, usrB, usrC, optA, ld}
MCInodes == {1, 2, 3, 4}
MCPrograms == {"prog"}

NoOperation == {}

Symlink(p) == [kind |-> "symlink", to |-> p]
File(n) == [kind |-> "file", inode |-> n]

\* Every way in which the three paths may be files of their own, hard links to
\* the first, or symbolic links to each other; and paths that are not there, one of
\* which has the name of one that is.
Layouts ==
  {(usrA :> x) @@ (usrB :> y) @@ (optA :> z) @@ (ld :> File(4)) :
     x \in {File(1), Symlink(usrB), Symlink(optA)},
     y \in {File(2), File(1), Symlink(usrA), Symlink(optA)},
     z \in {File(3), Symlink(usrA), Symlink(usrB)}}
  \cup {(usrA :> x) @@ (ld :> File(4)) : x \in {File(1), Symlink(usrB)}}

Rpath(dirs) == [rpath |-> dirs, runpath |-> FALSE]
Plain == Rpath(<<>>)
Origin == Rpath(<<"origin">>)
Outside == Rpath(<<"outside">>)
Runpath == [Plain EXCEPT !.runpath = TRUE]

\* Every list of up to two directories, and a RUNPATH with three of them.
SomeTags ==
  {Rpath(dirs) : dirs \in {<<>>} \cup {<<d>> : d \in Dirs} \cup {<<d, e>> : d, e \in Dirs}}
  \cup {[rpath |-> dirs, runpath |-> TRUE] : dirs \in {<<>>, <<"origin">>, <<"outside">>}}

AllTagged(tags) == [n \in MCInodes |-> tags]

Job(nodes, tags, cli, deps) ==
  [nodes |-> nodes, tags |-> tags, cli |-> cli, deps |-> deps, nss |-> <<>>,
   binaries |-> {}, binaryDeps |-> <<>>, packed |-> {}, prog |-> "prog",
   interp |-> ld, glibc |-> FALSE, strip |-> FALSE]

Some == {usrA, usrB, optA}

\* Every layout, with libraries on the command line, found by ldd, or both.
LinkJobs ==
  {Job(nodes, AllTagged(Plain), cli, deps \o <<ld>>) :
     nodes \in Layouts, cli \in {<<>>} \cup {<<p>> : p \in Some} \cup {<<usrB, usrA>>, <<usrA, usrA>>},
     deps \in {<<>>} \cup {<<p>> : p \in Some} \cup {<<usrA, usrB>>, <<usrB, usrA>>}}

\* Every way the libraries may look for others, stripped or not, with both hooks.
TagJobs ==
  {[Job(nodes, [AllTagged(Plain) EXCEPT ![1] = t, ![2] = u], <<usrB>>, <<usrA, ld>>) EXCEPT
      !.strip = s, !.glibc = g, !.nss = <<usrA, ld>>,
      !.binaries = b, !.binaryDeps = <<optA, usrA, ld>>, !.packed = k] :
     nodes \in {(usrA :> File(1)) @@ (usrB :> y) @@ (optA :> Symlink(usrA)) @@ (ld :> File(4)) :
                  y \in {File(2), File(1)}},
     t \in SomeTags, u \in {Plain, Runpath}, s \in BOOLEAN, g \in BOOLEAN,
     b \in {{}, {Origin, Outside}, {Origin, Runpath}}, k \in {{}, {"a"}}}

AllJobs == LinkJobs \cup TagJobs

\* libfoo.so (b) and libfoo.so.1 (c) are both links to the library (a): one is
\* named on the command line, the other found by ldd.
SharedTail ==
  {Job((usrC :> Symlink(optA)) @@ (usrB :> Symlink(optA)) @@ (optA :> File(3)) @@ (ld :> File(4)),
       AllTagged(Plain), <<usrB>>, <<p, ld>>) : p \in {usrC, optA}}

\* A library whose RPATH lists an absolute directory after one below $ORIGIN, and one
\* of PyInstaller's whose RPATH is absolute.
BadRpaths ==
  {[Job((usrA :> File(1)) @@ (ld :> File(4)),
        [AllTagged(Plain) EXCEPT ![1] = Rpath(<<"origin", "outside">>)], <<>>, <<usrA, ld>>)
      EXCEPT !.binaries = {Outside}]}
=============================================================================
