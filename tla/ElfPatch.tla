------------------------------ MODULE ElfPatch ------------------------------
(***************************************************************************)
(* The program's paths: staticx gives its copy an interpreter and an RPATH *)
(* that are placeholders (api.py, elf.py); at each launch the bootloader   *)
(* writes the paths of the bundle directory over them, in the file it has  *)
(* extracted (main.c, elfutil.c, mmap.c); the kernel and the dynamic loader*)
(* then read them.                                                         *)
(*                                                                         *)
(* An image is its tables and its bytes, of which only strings matter. The *)
(* lengths of the placeholders and of the paths are scaled down.           *)
(***************************************************************************)
EXTENDS Naturals, Sequences, SequencesExt, FiniteSetsExt

CONSTANTS
  Chars,           \* what a byte may be
  Programs,        \* what users bundle: images as a linker makes them
  OddPrograms,     \* images that staticx has not prepared, or not like this
  Roots,           \* what TMPDIR may be
  Names,           \* what mkdtemp() may choose
  MAX_INTERP_LEN,
  MAX_RPATH_LEN,
  Launches         \* bound: how often a bundle is run

NUL == "NUL"
COLON == ":"
PHDR == "right"                    \* sizeof(Elf_Phdr), sizeof(Elf_Shdr)
ARCHIVE_SECTION == ".staticx.archive"
INTERP_FILENAME == <<"l">>
LIBNSSFIX == <<"n">>

DynTags ==
  {"DT_NULL", "DT_NEEDED", "DT_RPATH", "DT_RUNPATH", "DF_1_NODEFLIB", "removed"}
PhdrType == [type : {"PT_INTERP", "PT_PHDR", "PT_LOAD"}, offset : Nat, filesz : Nat]
ShdrType == [name : {".dynamic", ".dynstr", ".text"}, offset : Nat, size : Nat]
DynType == [tag : DynTags, val : Nat]
ImageType ==
  [magic : BOOLEAN, phentsize : {PHDR, "other"}, shentsize : {PHDR, "other"},
   phdrs : Seq(PhdrType), shdrs : Seq(ShdrType),
   dyn : Seq(DynType),                \* what .dynamic holds, "size" entries of it
   bytes : Seq(Chars)]

ASSUME CharsAssumption ==
  {NUL, "/", "i", "r"} \cup ToSet(INTERP_FILENAME) \cup ToSet(LIBNSSFIX) \subseteq Chars
ASSUME ProgramsAssumption == Programs \cup OddPrograms \subseteq ImageType
\* (A linker makes no empty one. Here set_interp()'s interp_size - 1 would wrap.)
ASSUME InterpAssumption ==
  \A image \in Programs \cup OddPrograms : \A i \in DOMAIN image.phdrs :
    image.phdrs[i].type = "PT_INTERP" => image.phdrs[i].filesz > 0
ASSUME PathsAssumption == Roots \cup Names \subseteq Seq(Chars \ {NUL})
ASSUME LengthsAssumption ==
  MAX_INTERP_LEN \in Nat \ {0} /\ MAX_RPATH_LEN \in Nat \ {0} /\ Launches \in Nat \ {0}
-----------------------------------------------------------------------------
(* Strings in an image. What is mapped behind its end is zero.             *)

Char(image, offset) ==
  IF offset < Len(image.bytes) THEN image.bytes[offset + 1] ELSE NUL
strlen(image, offset) ==
  CHOOSE n \in 0..Len(image.bytes) :
    Char(image, offset + n) = NUL /\ \A k \in 0..(n - 1) : Char(image, offset + k) # NUL
String(image, offset) == [k \in 1..strlen(image, offset) |-> Char(image, offset + k - 1)]

Terminated(string) == Append(string, NUL)

\* (Slip: the terminating NUL is not copied.)
strcpyUnterminated(image, offset, string) ==
  [image EXCEPT !.bytes = [p \in DOMAIN @ |->
     IF p - offset \in 1..Len(string) THEN string[p - offset] ELSE @[p]]]

strcpy(image, offset, string) ==
  LET copied == Terminated(string) IN
  [image EXCEPT !.bytes = [p \in DOMAIN @ |->
     IF p > offset /\ p <= offset + Len(copied) THEN copied[p - offset] ELSE @[p]]]

path_join(p1, p2) == p1 \o <<"/">> \o p2

\* elf_get_proghdr_by_type(), elf_get_section(): the first one, or 0.
elf_get_proghdr_by_type(image, type) ==
  SelectInSeq(image.phdrs, LAMBDA ph : ph.type = type)
elf_get_section_by_name(image, name) ==
  SelectInSeq(image.shdrs, LAMBDA sh : sh.name = name)

SectionOf(image, name) == image.shdrs[elf_get_section_by_name(image, name)]
\* The dynamic entries with a tag that count: those before the DT_NULL.
Tagged(image, tag) ==
  {i \in DOMAIN image.dyn :
     image.dyn[i].tag = tag /\ \A k \in 1..i : image.dyn[k].tag # "DT_NULL"}
TagString(image, i) == String(image, SectionOf(image, ".dynstr").offset + image.dyn[i].val)

\* A dynamic executable as linkers for this machine make it: its table of strings ends
\* with a NUL, and the names of its libraries are in there.
Linked(image) ==
  /\ image.magic /\ image.phentsize = PHDR /\ image.shentsize = PHDR
  /\ elf_get_section_by_name(image, ".dynamic") # 0
  /\ SectionOf(image, ".dynamic").size = Len(image.dyn)
  /\ elf_get_section_by_name(image, ".dynstr") # 0
  /\ LET dynstr == SectionOf(image, ".dynstr")
     IN  /\ dynstr.size > 0 /\ dynstr.offset + dynstr.size <= Len(image.bytes)
         /\ image.bytes[dynstr.offset + dynstr.size] = NUL
         /\ \A i \in Tagged(image, "DT_NEEDED") : image.dyn[i].val < dynstr.size

ASSUME LinkedAssumption ==
  \A image \in Programs : elf_get_proghdr_by_type(image, "PT_INTERP") # 0 => Linked(image)
-----------------------------------------------------------------------------
(* patchelf, as elf.py describes and uses it: strings and tables that must *)
(* grow move to the end of the file.                                       *)

TagsOf(image) == {image.dyn[i].tag : i \in DOMAIN image.dyn}
Size(string) == Len(string) + 1

SetInterpreter(image, interpreter) ==
  [image EXCEPT !.phdrs[elf_get_proghdr_by_type(image, "PT_INTERP")] =
                  [type |-> "PT_INTERP", offset |-> Len(image.bytes), filesz |-> Size(interpreter)],
                !.bytes = @ \o Terminated(interpreter)]

AddEntry(image, tag, val) ==
  [image EXCEPT !.dyn = <<[tag |-> tag, val |-> val]>> \o @,
                !.shdrs[elf_get_section_by_name(image, ".dynamic")].size = @ + 1]

GrowTable(image, string) ==
  LET dynstr == SectionOf(image, ".dynstr")
      table == SubSeq(image.bytes, dynstr.offset + 1, dynstr.offset + dynstr.size)
  IN  [image EXCEPT
         !.bytes = @ \o table \o Terminated(string),
         !.shdrs[elf_get_section_by_name(image, ".dynstr")] =
            [name |-> ".dynstr", offset |-> Len(image.bytes), size |-> @.size + Size(string)]]

AddStringEntry(image, tag, string) ==
  AddEntry(GrowTable(image, string), tag, SectionOf(image, ".dynstr").size)

\* The section stays as large as it is: here the gaps do, with a tag that nobody looks for.
remove_rpath(image) ==
  [image EXCEPT !.dyn = [i \in DOMAIN @ |->
     IF @[i].tag \in {"DT_RPATH", "DT_RUNPATH"} THEN [@[i] EXCEPT !.tag = "removed"] ELSE @[i]]]

\* --force-rpath makes no DT_RPATH of a DT_RUNPATH that is there.
SetRpath(image, rpath, force) ==
  AddStringEntry(remove_rpath(image),
                 IF force /\ "DT_RUNPATH" \notin TagsOf(image) THEN "DT_RPATH" ELSE "DT_RUNPATH",
                 rpath)

NoDefaultLib(image) == AddEntry(image, "DF_1_NODEFLIB", 0)
AddNeeded(image, lib) == AddStringEntry(image, "DT_NEEDED", lib)

\* (Slip: --force-rpath is thought to be enough.)
PatchElfInOneGo(image, interpreter, rpath) ==
  NoDefaultLib(SetRpath(SetInterpreter(image, interpreter), rpath, TRUE))

\* patch_elf() for the program: three runs of patchelf.
PatchElf(image, interpreter, rpath) ==
  NoDefaultLib(SetRpath(SetInterpreter(remove_rpath(image), interpreter), rpath, TRUE))

\* The kernel and the dynamic loader: what they make of an image. The interpreter's path
\* must end where its segment says. With a DT_RUNPATH the DT_RPATH does not count, of
\* several the last one does, and a colon separates paths.
Interpreter(image) ==
  LET ph == image.phdrs[elf_get_proghdr_by_type(image, "PT_INTERP")]
  IN  IF Char(image, ph.offset + ph.filesz - 1) = NUL THEN String(image, ph.offset) ELSE <<>>
SearchPath(image) ==
  LET runpath == Tagged(image, "DT_RUNPATH")
      rpath == Tagged(image, "DT_RPATH")
  IN  IF runpath # {} THEN TagString(image, Max(runpath))
      ELSE IF rpath # {} THEN TagString(image, Max(rpath)) ELSE <<>>
Needed(image) == {TagString(image, i) : i \in Tagged(image, "DT_NEEDED")}
OnlySearchPath(image) == Tagged(image, "DF_1_NODEFLIB") # {}
-----------------------------------------------------------------------------
VARIABLES
  orig_prog,  \* the user's program
  tmpprog,    \* the copy that staticx works on and packs
  made,       \* how it came to be: "odd", or by staticx, "plain" or "glibc"
  output,     \* section headers of the bootloader: with an archive or without
  dir,        \* m_bundle_dir
  prog,       \* the program in the bundle directory
  map,        \* it is mapped
  pc,         \* what is done next, "running" or "ended"
  message,    \* of error(), or "none"
  launched    \* how often the bundle was run

generated == <<orig_prog, tmpprog, made, output>>
launch == <<dir, prog, map>>
vars == <<generated, launch, pc, message, launched>>

Bootloader == <<[name |-> ".text", offset |-> 1, size |-> 1]>>
Archive == [name |-> ARCHIVE_SECTION, offset |-> 2, size |-> 1]
Placeholder(char, n) == [i \in 1..n |-> char]

Init ==
  /\ \/ orig_prog \in Programs /\ made = "plain" /\ pc = "get_prog_interp"
     \/ orig_prog \in OddPrograms /\ made = "odd" /\ pc = "elf_add_section"
  /\ tmpprog = orig_prog
  /\ output = Bootloader
  /\ dir = <<>>
  /\ prog = tmpprog
  /\ map = FALSE
  /\ message = "none"
  /\ launched = 0

Goto(step) == pc' = step /\ UNCHANGED message
Error(text) == pc' = "ended" /\ message' = text /\ UNCHANGED map
-----------------------------------------------------------------------------
(* staticx: generate().                                                    *)

GetProgInterp ==
  /\ pc = "get_prog_interp"
  /\ IF elf_get_proghdr_by_type(orig_prog, "PT_INTERP") = 0
       THEN Error("not a dynamic executable") ELSE Goto("_fixup_prog") /\ UNCHANGED map
  /\ UNCHANGED <<generated, dir, prog, launched>>

FixupProg ==
  /\ pc = "_fixup_prog"
  /\ tmpprog' = PatchElf(tmpprog, Placeholder("i", MAX_INTERP_LEN), Placeholder("r", MAX_RPATH_LEN))
  /\ Goto("run_hooks")
  /\ UNCHANGED <<orig_prog, made, output, launch, launched>>

\* process_glibc_prog() where the program is linked against glibc.
RunHooks ==
  /\ pc = "run_hooks"
  /\ \/ made' = "glibc" /\ tmpprog' = AddNeeded(tmpprog, LIBNSSFIX)
     \/ UNCHANGED <<made, tmpprog>>
  /\ Goto("elf_add_section")
  /\ UNCHANGED <<orig_prog, output, launch, launched>>

\* Or the bootloader is run as it is.
ElfAddSection ==
  /\ pc = "elf_add_section"
  /\ output' \in {output, Append(output, Archive)}
  /\ Goto("bundle")
  /\ UNCHANGED <<orig_prog, tmpprog, made, launch, launched>>
-----------------------------------------------------------------------------
(* The bootloader: create_tmpdir(), extract_archive(), patch_app().        *)

CreateTmpdir ==
  /\ pc = "bundle" /\ launched < Launches
  /\ \E root \in Roots, name \in Names : dir' = path_join(root, name)
  /\ launched' = launched + 1
  /\ Goto("find_archive")
  /\ UNCHANGED <<generated, prog, map>>

FindArchive ==
  /\ pc = "find_archive"
  /\ IF elf_get_section_by_name([shdrs |-> output], ARCHIVE_SECTION) = 0
       THEN Error("Failed to find .staticx.archive section") /\ UNCHANGED prog
       ELSE Goto("mmap_file") /\ prog' = tmpprog /\ UNCHANGED map
  /\ UNCHANGED <<generated, dir, launched>>

\* malloc(), open(), fstat() and mmap() may each fail; and elf_is_valid().
MmapFile ==
  /\ pc = "mmap_file"
  /\ \/ Error("Failed to open, stat or mmap")
     \/ ~prog.magic /\ map' = TRUE /\ pc' = "ended" /\ message' = "Invalid ELF header"
     \/ prog.magic /\ map' = TRUE /\ Goto("set_interp")
  /\ UNCHANGED <<generated, dir, prog, launched>>

\* What set_interp() or set_rpath() says, or "none" and then it writes.
Patch(refusal, patched, next) ==
  /\ IF refusal = "none" THEN Goto(next) /\ prog' = patched /\ UNCHANGED map
                         ELSE Error(refusal) /\ UNCHANGED prog
  /\ UNCHANGED <<generated, dir, launched>>

\* (Slip: the NUL is not counted.)
InterpFitsExactly(ph, new_interp) == Len(new_interp) <= ph.filesz

InterpFits(ph, new_interp) == Len(new_interp) <= ph.filesz - 1

SetInterp ==
  /\ pc = "set_interp"
  /\ LET new_interp == path_join(dir, INTERP_FILENAME)
         at == elf_get_proghdr_by_type(prog, "PT_INTERP")
         ph == prog.phdrs[at]
     IN  Patch(IF prog.phentsize # PHDR THEN "ELF file disagrees with program header size"
               ELSE IF at = 0 THEN "Failed to find PT_INTERP header"
               ELSE IF Char(prog, ph.offset + ph.filesz - 1) # NUL
                      THEN "Current INTERP not NUL terminated"
               ELSE IF ~InterpFits(ph, new_interp) THEN "Current INTERP too small"
               ELSE "none",
               strcpy(prog, ph.offset, new_interp), "set_rpath")

\* The last DT_RPATH before the DT_NULL, or before the end of the section; or 0.
DtRpath(image, ndyn) ==
  LET found == {i \in Tagged(image, "DT_RPATH") : i <= ndyn}
  IN  IF found = {} THEN 0 ELSE Max(found)

\* (Slip: the string may grow up to the end of the table.)
RpathFitsTable(dynstr, val) == Len(dir) < dynstr.size - val

RpathFits(dynstr, val) == Len(dir) <= strlen(prog, dynstr.offset + val)

SetRpathOfProg ==
  /\ pc = "set_rpath"
  /\ LET dynamic == elf_get_section_by_name(prog, ".dynamic")
         at == elf_get_section_by_name(prog, ".dynstr")
         dynstr == prog.shdrs[at]
         dt_rpath == DtRpath(prog, prog.shdrs[dynamic].size)
         val == prog.dyn[dt_rpath].val
     IN  Patch(IF prog.shentsize # PHDR THEN "ELF file disagrees with section size"
               ELSE IF dynamic = 0 \/ at = 0 THEN "Failed to find .dynamic section"
               ELSE IF dt_rpath = 0 THEN "Couldn't find DT_RPATH tag"
               ELSE IF val > dynstr.size THEN "RPATH outside of dynamic strtab!"
               ELSE IF ~RpathFits(dynstr, val) THEN "Current RPATH too small"
               ELSE "none",
               strcpy(prog, dynstr.offset + val, dir), "unmap_file")

\* (Slip: the map is forgotten.)
UnmapNothing ==
  /\ pc = "unmap_file"
  /\ Goto("running")
  /\ UNCHANGED <<generated, launch, launched>>

UnmapFile ==
  /\ pc = "unmap_file"
  /\ map' = FALSE
  /\ Goto("running")
  /\ UNCHANGED <<generated, dir, prog, launched>>

\* The application has ended, or the bootloader has, and what was mapped with it: the
\* bundle may be run again.
Relaunch ==
  /\ pc \in {"running", "ended"} /\ launched \in 1..(Launches - 1)
  /\ pc' = "bundle" /\ message' = "none" /\ map' = FALSE
  /\ UNCHANGED <<generated, dir, prog, launched>>

Over ==
  /\ pc \in {"running", "ended"} /\ launched \in {0, Launches}
  /\ UNCHANGED vars

Next ==
  \/ GetProgInterp \/ FixupProg \/ RunHooks \/ ElfAddSection
  \/ CreateTmpdir \/ FindArchive \/ MmapFile \/ SetInterp \/ SetRpathOfProg \/ UnmapFile
  \/ Relaunch \/ Over

Spec == Init /\ [][Next]_vars
-----------------------------------------------------------------------------
(* Properties.                                                             *)

\* A file that is mapped shared and writable is not executed.
TypeOK ==
  /\ tmpprog \in ImageType /\ prog \in ImageType
  /\ made \in {"plain", "glibc", "odd"}
  /\ map \in BOOLEAN /\ (map => pc \in {"set_interp", "set_rpath", "unmap_file", "ended"})
  /\ dir \in Seq(Chars) /\ launched \in 0..Launches
  /\ pc = "ended" => message # "none"

\* What runs is loaded by the bundle's loader and finds its libraries in the bundle; and
\* what staticx has made in the bundle only, those that it was linked with and libnssfix,
\* whatever paths its linker had given it. A colon in TMPDIR splits the RPATH; nothing
\* in the code minds that.
LoadsFromBundle ==
  pc = "running" =>
    /\ Interpreter(prog) = path_join(dir, INTERP_FILENAME)
    /\ COLON \notin ToSet(dir) /\ Tagged(prog, "DT_RUNPATH") = {} => SearchPath(prog) = dir
    /\ made # "odd" =>
         /\ Tagged(prog, "DT_RUNPATH") = {} /\ OnlySearchPath(prog)
         /\ Needed(prog) = Needed(orig_prog) \cup (IF made = "glibc" THEN {LIBNSSFIX} ELSE {})

\* The placeholders are as long as constants.py says: a bundle starts iff the path of its
\* loader fits the first one, and its directory the second, on every launch alike.
StartsIffItFits ==
  LET fits == Len(path_join(dir, INTERP_FILENAME)) <= MAX_INTERP_LEN /\ Len(dir) <= MAX_RPATH_LEN
  IN  /\ pc = "running" /\ made # "odd" => fits
      /\ /\ pc = "ended" /\ launched > 0 /\ made # "odd" /\ Len(output) > Len(Bootloader)
         /\ message # "Failed to open, stat or mmap"
         => ~fits /\ message \in {"Current INTERP too small", "Current RPATH too small"}

\* The bytes that may change: the interpreter's, and those of the string that set_rpath()
\* takes for the RPATH, as long as it was.
MayChange ==
  LET interp == prog.phdrs[elf_get_proghdr_by_type(prog, "PT_INTERP")]
      dt_rpath == DtRpath(prog, SectionOf(prog, ".dynamic").size)
      rpath == SectionOf(prog, ".dynstr").offset + prog.dyn[dt_rpath].val
  IN  (interp.offset + 1)..(interp.offset + interp.filesz)
        \cup (IF pc \in {"unmap_file", "running"}
                THEN (rpath + 1)..(rpath + strlen(tmpprog, rpath)) ELSE {})

\* Of any image, ours or not, nothing else is overwritten, its length stays, and the
\* tables too; the packed program itself keeps its placeholders.
OnlyPlaceholdersChange ==
  pc \in {"set_rpath", "unmap_file", "running"} =>
    /\ [prog EXCEPT !.bytes = <<>>] = [tmpprog EXCEPT !.bytes = <<>>]
    /\ Len(prog.bytes) = Len(tmpprog.bytes)
    /\ \A p \in DOMAIN prog.bytes \ MayChange : prog.bytes[p] = tmpprog.bytes[p]

\* What makes the properties above inductive: the order of the steps,
InOrder ==
  /\ pc \in {"get_prog_interp", "_fixup_prog", "run_hooks", "elf_add_section", "bundle",
             "find_archive", "mmap_file", "set_interp", "set_rpath", "unmap_file", "running", "ended"}
  /\ pc \in {"get_prog_interp", "_fixup_prog", "run_hooks", "elf_add_section"} =>
       launched = 0 /\ output = Bootloader
  /\ pc \in {"find_archive", "mmap_file", "set_interp", "set_rpath", "unmap_file", "running"}
       => launched > 0
  /\ pc \in {"get_prog_interp", "_fixup_prog"} =>
       made = "plain" /\ orig_prog \in Programs /\ tmpprog = orig_prog
  /\ pc = "_fixup_prog" => elf_get_proghdr_by_type(orig_prog, "PT_INTERP") # 0
  /\ pc = "run_hooks" => made = "plain"
  /\ made = "odd" => tmpprog \in OddPrograms
  /\ dir \in Seq(Chars \ {NUL})
  /\ output \in {Bootloader, Append(Bootloader, Archive)}

\* ... what staticx has packed: room for both paths, each with its end, the RPATH's within
\* the table of strings and apart from the libraries' names, the interpreter's before it,
HasRoom(image, dt) ==
  LET dynstr == SectionOf(image, ".dynstr")
      val == image.dyn[dt].val
  IN  /\ Tagged(image, "DT_RPATH") = {dt}
      /\ val + MAX_RPATH_LEN < dynstr.size
      /\ \A k \in 0..(MAX_RPATH_LEN - 1) : Char(image, dynstr.offset + val + k) # NUL
      /\ Char(image, dynstr.offset + val + MAX_RPATH_LEN) = NUL
      /\ \A i \in Tagged(image, "DT_NEEDED") :
           LET name == image.dyn[i].val IN
           \/ name + strlen(image, dynstr.offset + name) < val
           \/ name > val + MAX_RPATH_LEN

IsPrepared(image) ==
  LET interp == image.phdrs[elf_get_proghdr_by_type(image, "PT_INTERP")]
      dynstr == SectionOf(image, ".dynstr")
  IN  /\ elf_get_proghdr_by_type(image, "PT_INTERP") # 0
      /\ interp.filesz = MAX_INTERP_LEN + 1
      /\ Char(image, interp.offset + MAX_INTERP_LEN) = NUL
      /\ interp.offset + interp.filesz <= dynstr.offset
      /\ Linked(image)
      /\ Tagged(image, "DT_RUNPATH") = {}
      /\ OnlySearchPath(image)
      /\ \E dt \in DOMAIN image.dyn : HasRoom(image, dt)

Packed ==
  made # "odd" /\ (launched > 0 \/ pc \in {"run_hooks", "elf_add_section", "bundle"}) =>
    /\ IsPrepared(tmpprog)
    /\ Needed(tmpprog) = Needed(orig_prog) \cup (IF made = "glibc" THEN {LIBNSSFIX} ELSE {})

\* ... and how far the program in the bundle directory is from it.
WithInterp ==
  strcpy(tmpprog, tmpprog.phdrs[elf_get_proghdr_by_type(tmpprog, "PT_INTERP")].offset,
         path_join(dir, INTERP_FILENAME))

Rpath(image) ==
  SectionOf(image, ".dynstr").offset
    + image.dyn[DtRpath(image, SectionOf(image, ".dynamic").size)].val

\* What an image that staticx has not made must be for its paths to come out right, where it
\* has both: two strings in the file, apart, and the RPATH that set_rpath() takes the one
\* that the dynamic loader takes. (IsPrepared implies it.)
Regular(image) ==
  LET at == elf_get_proghdr_by_type(image, "PT_INTERP")
      interp == image.phdrs[at]
      dt_rpath == DtRpath(image, SectionOf(image, ".dynamic").size)
      rpath == Rpath(image)
      dynstr == SectionOf(image, ".dynstr")
  IN  /\ at # 0 /\ elf_get_section_by_name(image, ".dynamic") # 0
      /\ elf_get_section_by_name(image, ".dynstr") # 0
      /\ dt_rpath # 0 /\ rpath <= dynstr.offset + dynstr.size
      =>
        /\ interp.offset + interp.filesz <= Len(image.bytes)
        /\ rpath + strlen(image, rpath) < Len(image.bytes)
        /\ \/ interp.offset + interp.filesz <= rpath
           \/ rpath + strlen(image, rpath) < interp.offset
        /\ dt_rpath = Max(Tagged(image, "DT_RPATH"))

InterpWritten ==
  LET at == elf_get_proghdr_by_type(tmpprog, "PT_INTERP")
      ph == tmpprog.phdrs[at]
  IN  /\ at # 0
      /\ Len(path_join(dir, INTERP_FILENAME)) <= ph.filesz - 1
      /\ Char(tmpprog, ph.offset + ph.filesz - 1) = NUL

RpathWritten ==
  /\ elf_get_section_by_name(tmpprog, ".dynamic") # 0
  /\ elf_get_section_by_name(tmpprog, ".dynstr") # 0
  /\ DtRpath(tmpprog, SectionOf(tmpprog, ".dynamic").size) # 0
  /\ Rpath(tmpprog) <= SectionOf(tmpprog, ".dynstr").offset + SectionOf(tmpprog, ".dynstr").size
  /\ Len(dir) <= strlen(WithInterp, Rpath(tmpprog))

Patched ==
  /\ pc \in {"mmap_file", "set_interp"} => prog = tmpprog
  /\ pc = "set_rpath" => InterpWritten /\ prog = WithInterp
  /\ pc \in {"unmap_file", "running"} =>
       InterpWritten /\ RpathWritten /\ prog = strcpy(WithInterp, Rpath(tmpprog), dir)

IInv == TypeOK /\ InOrder /\ Packed /\ Patched /\ StartsIffItFits
=============================================================================
