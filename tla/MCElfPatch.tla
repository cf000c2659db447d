----------------------------- MODULE MCElfPatch -----------------------------
(* Small instances of ElfPatch for TLC: programs whose linkers left them    *)
(* with every kind of library path, and images that nobody prepared.        *)
EXTENDS ElfPatch

Alphabet ==
  {NUL, COLON, "/", "i", "r", "l", "n", "s", "a", "b", "c", "z", "t", "x", "y"}

Entry(tag, val) == [tag |-> tag, val |-> val]
Null == Entry("DT_NULL", 0)
Lib1 == Entry("DT_NEEDED", 1)
Lib2 == Entry("DT_NEEDED", 4)

\* The interpreter's path, a table of strings in which the path "b" at 6 is the end of
\* another string, and something behind it.
Bytes == <<"s", "l", NUL, NUL, "a", "b", NUL, "c", "b", "b", NUL, "z", NUL>>
Image(dyn) ==
  [magic |-> TRUE, phentsize |-> PHDR, shentsize |-> PHDR,
   phdrs |-> <<[type |-> "PT_PHDR", offset |-> 0, filesz |-> 0],
               [type |-> "PT_INTERP", offset |-> 0, filesz |-> 3]>>,
   shdrs |-> <<[name |-> ".dynstr", offset |-> 3, size |-> 8],
               [name |-> ".dynamic", offset |-> 0, size |-> Len(dyn)]>>,
   dyn |-> dyn, bytes |-> Bytes]

Plain == Image(<<Lib1, Lib2, Null, Null>>)
SomePrograms ==
  {Plain, Image(<<Null>>),
    Image(<<Lib1, Entry("DT_RPATH", 6), Lib2, Null>>),
    Image(<<Entry("DT_RUNPATH", 5), Lib2, Null, Null>>),
    Image(<<Entry("DT_RPATH", 2), Lib1, Entry("DT_RUNPATH", 6), Null>>),
    [Plain EXCEPT !.phdrs = <<@[1]>>]}

\* As another version might have prepared it: placeholders for one path or for none, the
\* RPATH given twice, behind the DT_NULL or behind the end of the section.
PreparedAs(interp, rpath) == PatchElf(Plain, Placeholder("i", interp), Placeholder("r", rpath))
Good == PreparedAs(6, 6)
Twice == AddEntry(Good, "DT_RPATH", 4)
Odd ==
  {PreparedAs(6, 3), AddNeeded(PreparedAs(6, 3), LIBNSSFIX), PreparedAs(3, 6), Twice, Plain, remove_rpath(Good),
    Image(<<Lib1, Null, Entry("DT_RPATH", 1)>>),
    [Good EXCEPT !.dyn = <<Null>> \o @], [Good EXCEPT !.shdrs[2].size = 1],
    [Good EXCEPT !.dyn[2].val = 100],
    [Good EXCEPT !.magic = FALSE],
    [Good EXCEPT !.phentsize = "other"],
    [Good EXCEPT !.shentsize = "other"],
    [Good EXCEPT !.phdrs = <<@[1]>>],
    [Good EXCEPT !.phdrs[2].filesz = @ - 1],
    [Good EXCEPT !.shdrs = <<@[1]>>],
    [Good EXCEPT !.shdrs = <<@[2]>>]}

ASSUME OddAreRegular == \A image \in Odd : Regular(image)

Root(n) == [i \in 1..n |-> "t"]
SomeRoots == {Root(n) : n \in 0..5} \cup {<<"t", COLON>>}
SomeNames == {<<"x">>, <<"y">>}
=============================================================================
