---------------------------- MODULE MCTarExtract ----------------------------
(* Small instances of TarExtract for TLC: blocks of 2 bytes, an int that   *)
(* wraps at 16, records of 4 blocks.                                       *)
EXTENDS TarExtract

MCNames == {"prog", "lib", "long1", "long2"}
MCLongNames == {"long1", "long2"}

Reg(name, size, zeros) ==
  [type |-> "reg", name |-> name, link |-> "prog", size |-> size, zeros |-> zeros]
Link(type, name, to) ==
  [type |-> type, name |-> name, link |-> to, size |-> 0, zeros |-> FALSE]

\* Empty, part of a block, a block, a block and a byte; half and whole int range.
Sizes == {0, 1, 2, 3}
BigSizes == {8, 14, 15, 17, 18}

Files == {Reg(n, k, FALSE) : n \in {"prog", "long1"}, k \in Sizes}
           \cup {Reg("lib", k, TRUE) : k \in {0, 3}}
Symlinks == {Link("sym", n, t) : n \in {"lib", "long2"}, t \in {"prog", "long1"}}

Singles == {<<m>> : m \in Files \cup Symlinks \cup {Reg("prog", k, z) : k \in BigSizes, z \in BOOLEAN}}
Pairs == {<<a, b>> : a \in Files \cup Symlinks, b \in Files \cup Symlinks}
\* Directories, devices, unknown links and a name that comes twice.
Odd == {<<Link("dir", "lib", "lib"), Link("special", "long1", "lib"), Link("dir", "lib", "lib")>>,
        <<Link("sym", "lib", "lib"), Reg("lib", 1, FALSE)>>,
        <<Link("dir", "lib", "lib"), Reg("lib", 1, FALSE)>>,
        <<Link("lnk", "lib", "prog"), Link("lnk", "prog", "long1")>>}
\* Every kind of member behind one another.
Triples == {<<Reg("long1", 3, FALSE), Link("sym", "long2", "long1"), Reg("prog", k, TRUE)>>
              : k \in {0, 4, 17}}
AllArchives == Singles \cup Pairs \cup Odd \cup Triples \cup {<<>>}

\* Two members for one file.
HardLinked == {<<Reg("prog", 1, FALSE), Link("lnk", "lib", "prog")>>}
OneFile == {<<Reg("prog", 1, FALSE)>>}
=============================================================================
