------------------------------ MODULE Generator ------------------------------
(***************************************************************************)
(* Making a bundle: staticx/api.py, class StaticxGenerator, with the hooks *)
(* it runs, from its temporary files to the output.                        *)
(*                                                                         *)
(* A path is a directory and a name; the archive keeps names only. What is *)
(* in an ELF file is told by its inode and by its DT_RPATH, a list of      *)
(* directories, and DT_RUNPATH, present or not. What ldd finds is an input.*)
(***************************************************************************)
EXTENDS Naturals, Sequences, FiniteSets

CONSTANTS
  Paths,    \* records [dir, name]: the paths of libraries on the build host
  Inodes,   \* the regular files among them
  Programs, \* names of user programs
  Jobs,     \* what staticx may be asked to do: see JobType
  Faults,   \* the operations that may fail for a reason of their own
  None      \* no path, no inode

\* Names the generator makes up.
PROG_FILENAME == ".staticx.prog"
INTERP_FILENAME == ".staticx.interp"
LIBNSSFIX == "libnssfix.so"
Reserved == Programs \cup {PROG_FILENAME, INTERP_FILENAME, LIBNSSFIX}

\* The steps in which a call may fail: a tool, a file, ldd, a wrong input ...
Steps == {"mkdtemp", "archive", "bootloader", "prog", "fixup", "hook", "glibc",
          "program", "symlinks", "strip", "store", "objcopy", "move"}

\* ... and the failures that leave something half done.
Operations == Steps \cup {"copy", "rename", "remove"}

\* The directories that a DT_RPATH lists between its colons: "origin", the library's own
\* ($ORIGIN) or one below it; "parent", any path with a ".."; "outside", any other. No
\* directory: no DT_RPATH.
Dirs == {"origin", "parent", "outside"}
Tags == [rpath : Seq(Dirs), runpath : BOOLEAN]

\* A path is a symbolic link or a hard link to an inode.
NodeType == [kind : {"symlink"}, to : Paths] \cup [kind : {"file"}, inode : Inodes]

ASSUME PathsAssumption == IsFiniteSet(Paths)
ASSUME NoneAssumption == None \notin Paths /\ None \notin Inodes
\* Nobody else uses the names that the generator makes up, and no library has the
\* program's. (Of these archive.py looks at one: a program called ".staticx.prog".)
ASSUME ReservedAssumption ==
  /\ \A p \in Paths : p.name \notin Reserved
  /\ Programs \cap {PROG_FILENAME, INTERP_FILENAME, LIBNSSFIX} = {}
ASSUME FaultsAssumption == Faults \subseteq Operations

VARIABLES
  job,      \* the request and the build host; never changes
  pc,       \* what is done next, or "ended"
  then,     \* what is done when the queue of libraries is empty
  queue,    \* libraries still to be added: [path, existOk]
  lib,      \* add_library()'s libpath: [path, copied, inode, tags]
  added,    \* self._added_libs
  members,  \* the archive
  temps,    \* the temporary files and directories that exist
  known,    \* ... and those that the generator's attributes name
  output,   \* the output file: "old", "partial" or "whole"
  result,   \* "none", "ok", or the exception
  touched,  \* history: the paths of the host that a tool has modified
  faulted   \* history: the operations that failed

archive == <<added, members>>
files == <<temps, known, output>>
vars == <<job, pc, then, queue, lib, archive, files, result, touched, faulted>>

NoTags == [rpath |-> <<>>, runpath |-> FALSE]
NoLib == [path |-> None, copied |-> FALSE, inode |-> None, tags |-> NoTags]

\* nodes and tags are the host; cli, binaries, packed, deps and nss what the
\* command line names, what a PyInstaller archive holds (their tags) and its
\* table of contents, and what ldd says of the program, of those binaries and of
\* libnssfix.
IsJob(j) ==
  /\ DOMAIN j.nodes \subseteq Paths /\ \A p \in DOMAIN j.nodes : j.nodes[p] \in NodeType
  /\ j.tags \in [Inodes -> Tags]
  /\ {j.cli, j.deps, j.binaryDeps, j.nss} \subseteq Seq(Paths)
  /\ j.binaries \subseteq Tags
  /\ j.packed \subseteq {p.name : p \in Paths}
  /\ j.prog \in Programs
  /\ j.interp \in Paths
  /\ {j.glibc, j.strip} \subseteq BOOLEAN

ASSUME JobsAssumption == \A j \in Jobs : IsJob(j)

Init ==
  /\ job \in Jobs
  /\ pc = "mkdtemp"
  /\ then = "bootloader"
  /\ queue = <<>>
  /\ lib = NoLib
  /\ added = {}
  /\ members = <<>>
  /\ temps = {}
  /\ known = {}
  /\ output = "old"
  /\ result = "none"
  /\ touched = {}
  /\ faulted = {}
-----------------------------------------------------------------------------
Goto(step) == pc' = step /\ UNCHANGED result

\* An exception leaves the with statement, which cleans up.
Raise(exception) == pc' = "cleanup" /\ result' = exception

Requests(paths, ok) == [i \in 1..Len(paths) |-> [path |-> paths[i], existOk |-> ok]]

AddLibraries(paths, ok, next) ==
  /\ queue' = Requests(paths, ok)
  /\ then' = next
  /\ Goto("libraries")

SymlinkMember(name, to) == [kind |-> "symlink", name |-> name, to |-> to]
FileMember(name, inode, copied, tags) ==
  [kind |-> "file", name |-> name, inode |-> inode, copied |-> copied, tags |-> tags]
HardlinkMember(name, to) == [kind |-> "hardlink", name |-> name, to |-> to]

\* An operation fails for a reason of its own. The first two are in __init__,
\* before the with statement is entered.
Fail(op) ==
  /\ pc = op /\ op \in Faults
  /\ faulted' = faulted \cup {op}
  /\ IF op \in {"mkdtemp", "archive"} THEN pc' = "ended" /\ result' = "Error"
                                       ELSE Raise("Error")
  /\ UNCHANGED <<job, then, queue, lib, archive, files, touched>>

\* __init__: the directory for copies, and the archive. A NamedTemporaryFile goes
\* when it is dropped.
MakeTmpdir ==
  /\ pc = "mkdtemp"
  /\ temps' = {"tmpdir"}
  /\ known' = {"tmpdir"}
  /\ Goto("archive")
  /\ UNCHANGED <<job, then, queue, lib, archive, output, touched, faulted>>

MakeArchive ==
  /\ pc = "archive"
  /\ temps' = temps \cup {"archive"}
  /\ known' = known \cup {"archive"}
  /\ AddLibraries(job.cli, FALSE, "bootloader")
  /\ UNCHANGED <<job, lib, archive, output, touched, faulted>>

\* copy_to_tempfile(delete=False): the copy is the caller's to remove, who learns
\* of it only when it is complete.
CopyToTempfile(step, file, next) ==
  /\ pc = step
  /\ temps' = temps \cup {file}
  /\ \/ /\ known' = known \cup {file}
        /\ Goto(next)
        /\ UNCHANGED faulted
     \/ /\ "copy" \in Faults
        /\ faulted' = faulted \cup {"copy"}
        /\ Raise("Error")
        /\ UNCHANGED known
  /\ UNCHANGED <<job, then, queue, lib, archive, output, touched>>

\* _get_bootloader(), and a copy of the user's program, which _fixup_prog()
\* changes.
CopyBootloader == CopyToTempfile("bootloader", "bootloader", "prog")
CopyProgram == CopyToTempfile("prog", "program", "fixup")

FixupProg ==
  /\ pc = "fixup"
  /\ Goto("hook")
  /\ UNCHANGED <<job, then, queue, lib, archive, files, touched, faulted>>
-----------------------------------------------------------------------------
(* The audit.                                                              *)

\* How the entry begins, and whether there is a ".." anywhere in it: the list is one string.
is_dangerous(rpath) == Head(rpath) # "origin" \/ \E i \in DOMAIN rpath : rpath[i] = "parent"

\* check_library_rpath() raises an UnsupportedRpathError or an UnsupportedRunpathError.
Unsupported(tags, dangerous_only) ==
  \/ tags.rpath # <<>> /\ ~dangerous_only /\ is_dangerous(tags.rpath)
  \/ tags.runpath
-----------------------------------------------------------------------------
(* The hooks, and the program itself.                                      *)

\* _audit_libs() with dangerous_only, and _add_required_deps(). A program that is
\* not PyInstaller's has no such libraries.
PyInstallHook ==
  /\ pc = "hook"
  /\ IF \E tags \in job.binaries : Unsupported(tags, TRUE)
       THEN Raise("Error") /\ UNCHANGED <<queue, then>>
       ELSE AddLibraries(job.binaryDeps, TRUE, "glibc")
  /\ UNCHANGED <<job, lib, archive, files, touched, faulted>>

ProcessGlibcProg ==
  /\ pc = "glibc"
  /\ IF job.glibc
       THEN /\ members' = Append(members, FileMember(LIBNSSFIX, None, TRUE, NoTags))
            /\ AddLibraries(job.nss, TRUE, "program")
       ELSE Goto("program") /\ UNCHANGED <<members, queue, then>>
  /\ UNCHANGED <<job, lib, added, files, touched, faulted>>

\* add_program(), add_interp_symlink(), and then what ldd found.
AddProgram ==
  /\ pc = "program"
  /\ members' = members \o <<FileMember(job.prog, None, TRUE, NoTags),
                            SymlinkMember(PROG_FILENAME, job.prog),
                            SymlinkMember(INTERP_FILENAME, job.interp.name)>>
  /\ AddLibraries(job.deps, TRUE, "objcopy")
  /\ UNCHANGED <<job, lib, added, files, touched, faulted>>
-----------------------------------------------------------------------------
(* add_library().                                                          *)

LibrariesDone ==
  /\ pc = "libraries" /\ queue = <<>>
  /\ Goto(then)
  /\ UNCHANGED <<job, then, queue, lib, archive, files, touched, faulted>>

\* _add_required_deps() passes over what the PyInstaller archive holds already.
IsPacked(request) == then = "glibc" /\ request.path.name \in job.packed

LibraryPacked ==
  /\ pc = "libraries" /\ queue # <<>>
  /\ IsPacked(Head(queue))
  /\ queue' = Tail(queue)
  /\ UNCHANGED <<job, pc, result, then, lib, archive, files, touched, faulted>>

\* A library of this name is in the archive already ...
LibraryExists ==
  /\ pc = "libraries" /\ queue # <<>> /\ ~IsPacked(Head(queue))
  /\ Head(queue).path.name \in added
  /\ IF Head(queue).existOk
       THEN queue' = Tail(queue) /\ UNCHANGED <<pc, result>>
       ELSE Raise("LibExistsError") /\ UNCHANGED queue
  /\ UNCHANGED <<job, then, lib, archive, files, touched, faulted>>

\* ... or not.
AddLibrary ==
  /\ pc = "libraries" /\ queue # <<>> /\ ~IsPacked(Head(queue))
  /\ Head(queue).path.name \notin added
  /\ lib' = [NoLib EXCEPT !.path = Head(queue).path]
  /\ queue' = Tail(queue)
  /\ Goto("symlinks")
  /\ UNCHANGED <<job, then, archive, files, touched, faulted>>

Node == job.nodes[lib.path]
IsLink == lib.path \in DOMAIN job.nodes /\ Node.kind = "symlink"

\* (Slip: only the end of the chain is archived.)
SkipLink ==
  /\ pc = "symlinks" /\ IsLink
  /\ lib' = [lib EXCEPT !.path = Node.to]
  /\ UNCHANGED <<job, pc, result, then, queue, archive, files, touched, faulted>>

\* (Slip: the loop goes on before it has followed the link.)
StayOnLink ==
  /\ pc = "symlinks" /\ IsLink
  /\ LET arcname == lib.path.name
         target == Node.to.name
     IN  IF arcname = target
           THEN UNCHANGED <<lib, pc, result, archive>>
           ELSE /\ lib' = [lib EXCEPT !.path = Node.to]
                /\ members' = Append(members, SymlinkMember(arcname, target))
                /\ IF arcname \in added
                     THEN Raise("NameError") /\ UNCHANGED added
                     ELSE Goto("symlinks") /\ added' = added \cup {arcname}
  /\ UNCHANGED <<job, then, queue, files, touched, faulted>>

\* One turn of _handle_lib_symlinks(). A link to a file of the same name in
\* another directory leaves no trace; any other is added, and then looked up (the
\* message of the InternalError names an undefined variable: a NameError).
FollowSymlink ==
  /\ pc = "symlinks" /\ IsLink
  /\ LET arcname == lib.path.name
         target == Node.to.name
     IN  /\ lib' = [lib EXCEPT !.path = Node.to]
         /\ IF arcname = target
              THEN Goto("symlinks") /\ UNCHANGED archive
              ELSE /\ members' = Append(members, SymlinkMember(arcname, target))
                   /\ IF arcname \in added
                        THEN Raise("NameError") /\ UNCHANGED added
                        ELSE Goto("symlinks") /\ added' = added \cup {arcname}
  /\ UNCHANGED <<job, then, queue, files, touched, faulted>>

\* There is no such file: the audit cannot open it.
LibraryMissing ==
  /\ pc = "symlinks" /\ lib.path \notin DOMAIN job.nodes
  /\ Raise("FileNotFoundError")
  /\ UNCHANGED <<job, then, queue, lib, archive, files, touched, faulted>>

WorkOnCopy(l) == [l EXCEPT !.copied = TRUE]

\* A tool rewrites the file that libpath names.
Modify(l) == touched' = IF l.copied THEN touched ELSE touched \cup {l.path}

\* (Slip: RUNPATH is not looked at.)
AuditRpathOnly ==
  /\ pc = "symlinks" /\ lib.path \in DOMAIN job.nodes /\ ~IsLink
  /\ LET tags == job.tags[Node.inode]
         found == [lib EXCEPT !.inode = Node.inode, !.tags = tags]
     IN  IF tags.rpath = <<>> \/ ~is_dangerous(tags.rpath) THEN lib' = found /\ UNCHANGED touched
         ELSE /\ lib' = [WorkOnCopy(found) EXCEPT !.tags = NoTags]
              /\ Modify(WorkOnCopy(found))
  /\ Goto("strip")
  /\ UNCHANGED <<job, then, queue, archive, files, faulted>>

\* check_library_rpath(); a library that fails it is copied, and the copy loses
\* both entries.
AuditLibrary ==
  /\ pc = "symlinks" /\ lib.path \in DOMAIN job.nodes /\ ~IsLink
  /\ LET tags == job.tags[Node.inode]
         found == [lib EXCEPT !.inode = Node.inode, !.tags = tags]
     IN  IF ~Unsupported(tags, FALSE) THEN lib' = found /\ UNCHANGED touched
         ELSE /\ lib' = [WorkOnCopy(found) EXCEPT !.tags = NoTags]
              /\ Modify(WorkOnCopy(found))
  /\ Goto("strip")
  /\ UNCHANGED <<job, then, queue, archive, files, faulted>>

\* (Slip: the library is stripped where it is.)
StripInPlace ==
  /\ pc = "strip"
  /\ IF job.strip THEN Modify(lib) ELSE UNCHANGED touched
  /\ Goto("store")
  /\ UNCHANGED <<job, then, queue, lib, archive, files, faulted>>

StripLibrary ==
  /\ pc = "strip"
  /\ IF job.strip THEN lib' = WorkOnCopy(lib) /\ Modify(WorkOnCopy(lib))
                  ELSE UNCHANGED <<lib, touched>>
  /\ Goto("store")
  /\ UNCHANGED <<job, then, queue, archive, files, faulted>>

\* tarfile stores a file it has met under another name as a hard link; a copy is
\* a file of its own.
ArchivedAs ==
  {members[i].name : i \in {k \in DOMAIN members :
     /\ members[k].kind = "file" /\ ~members[k].copied /\ ~lib.copied
     /\ members[k].inode = lib.inode}} \ {lib.path.name}

Member ==
  IF ArchivedAs = {}
    THEN FileMember(lib.path.name, lib.inode, lib.copied, lib.tags)
    ELSE HardlinkMember(lib.path.name, CHOOSE n \in ArchivedAs : TRUE)

\* (Slip: what is stored is not entered in _added_libs.)
StoreUnlisted ==
  /\ pc = "store"
  /\ members' = Append(members, Member)
  /\ IF lib.path.name \in added THEN Raise("InternalError") ELSE Goto("libraries")
  /\ UNCHANGED <<job, then, queue, lib, added, files, touched, faulted>>

\* (Slip: the name of the file is not looked up once the links are followed.)
StoreUnchecked ==
  /\ pc = "store"
  /\ members' = Append(members, Member)
  /\ added' = added \cup {lib.path.name}
  /\ Goto("libraries")
  /\ UNCHANGED <<job, then, queue, lib, files, touched, faulted>>

StoreLibrary ==
  /\ pc = "store"
  /\ members' = Append(members, Member)
  /\ IF lib.path.name \in added
       THEN Raise("InternalError") /\ UNCHANGED added
       ELSE Goto("libraries") /\ added' = added \cup {lib.path.name}
  /\ UNCHANGED <<job, then, queue, lib, files, touched, faulted>>

AddLibraryStep ==
  \/ LibrariesDone \/ LibraryPacked \/ LibraryExists \/ AddLibrary
  \/ FollowSymlink \/ LibraryMissing \/ AuditLibrary
  \/ StripLibrary \/ StoreLibrary
-----------------------------------------------------------------------------
(* The output.                                                             *)

\* (Slip: objcopy works on the output itself.)
AppendToOutput ==
  /\ pc = "objcopy"
  /\ output' = "partial"
  /\ Goto("move")
  /\ UNCHANGED <<job, then, queue, lib, archive, temps, known, touched, faulted>>

\* The archive is closed and added to the temporary copy of the bootloader.
AppendArchive ==
  /\ pc = "objcopy"
  /\ Goto("move")
  /\ UNCHANGED <<job, then, queue, lib, archive, files, touched, faulted>>

\* (Slip: tmpoutput keeps its name.)
MoveAndKeep ==
  /\ pc = "move"
  /\ temps' = temps \ {"bootloader"}
  /\ output' = "whole"
  /\ pc' = "cleanup" /\ result' = "ok"
  /\ UNCHANGED <<job, then, queue, lib, archive, known, touched, faulted>>

\* move_file() and tmpoutput = None.
MoveFile ==
  /\ pc = "move"
  /\ temps' = temps \ {"bootloader"}
  /\ known' = known \ {"bootloader"}
  /\ output' = "whole"
  /\ pc' = "cleanup" /\ result' = "ok"
  /\ UNCHANGED <<job, then, queue, lib, archive, touched, faulted>>

\* Where rename() fails, for whatever reason, shutil.move() copies and then unlinks: either
\* may fail. (If neither does, that is MoveFile.)
MoveByCopy ==
  /\ pc = "move" /\ "rename" \in Faults
  /\ output' \in {"partial", "whole"}
  /\ faulted' = faulted \cup {"rename"}
  /\ Raise("Error")
  /\ UNCHANGED <<job, then, queue, lib, archive, temps, known, touched>>

\* (Slip: the program's copy is forgotten.)
CleanupSome ==
  /\ pc = "cleanup"
  /\ temps' = temps \ (known \ {"program"})
  /\ known' = {}
  /\ pc' = "ended"
  /\ UNCHANGED <<job, result, then, queue, lib, archive, output, touched, faulted>>

\* _cleanup(), from a with statement left in whatever way.
Cleanup ==
  /\ pc = "cleanup"
  /\ temps' = temps \ known
  /\ known' = {}
  /\ pc' = "ended"
  /\ UNCHANGED <<job, result, then, queue, lib, archive, output, touched, faulted>>

\* One of its calls fails: what comes after it is not done, but the archive goes
\* with its NamedTemporaryFile.
CleanupError ==
  /\ pc = "cleanup" /\ "remove" \in Faults
  /\ \E left \in {{"tmpdir"}, {"tmpdir", "program"}, {"tmpdir", "program", "bootloader"}} :
       /\ left \cap known # {}
       /\ temps' = temps \ (known \ left)
       /\ known' = known \cap left
  /\ pc' = "ended" /\ result' = "Error"
  /\ faulted' = faulted \cup {"remove"}
  /\ UNCHANGED <<job, then, queue, lib, archive, output, touched>>

Generate ==
  \/ MakeTmpdir \/ MakeArchive \/ CopyBootloader \/ CopyProgram \/ FixupProg
  \/ PyInstallHook \/ ProcessGlibcProg \/ AddProgram
  \/ AddLibraryStep
  \/ AppendArchive \/ MoveFile
  \/ Cleanup

Failure == MoveByCopy \/ CleanupError \/ \E op \in Steps : Fail(op)

Over == pc = "ended" /\ UNCHANGED vars

Next == Generate \/ Failure \/ Over

Spec == Init /\ [][Next]_vars
\* One thread that goes on; nothing need ever fail.
FairSpec == Spec /\ WF_vars(Generate)
-----------------------------------------------------------------------------
(* Properties.                                                             *)

PathNames == {p.name : p \in Paths}
Names == PathNames \cup Reserved
MemberType ==
  [kind : {"symlink", "hardlink"}, name : Names, to : Names]
    \cup [kind : {"file"}, name : Names, inode : Inodes \cup {None}, copied : BOOLEAN, tags : Tags]

TypeOK ==
  /\ IsJob(job)
  /\ pc \in Steps \cup {"libraries", "cleanup", "ended"}
  /\ then \in {"bootloader", "glibc", "program", "objcopy"}
  /\ queue \in Seq([path : Paths, existOk : BOOLEAN])
  /\ lib \in [path : Paths \cup {None}, copied : BOOLEAN, inode : Inodes \cup {None}, tags : Tags]
  /\ pc \in {"symlinks", "strip", "store"} => lib.path \in Paths
  /\ added \subseteq PathNames
  /\ members \in Seq(MemberType)
  /\ known \subseteq temps
  /\ temps \subseteq {"tmpdir", "archive", "bootloader", "program"}
  /\ output \in {"old", "partial", "whole"}
  /\ result \in {"none", "ok", "Error", "LibExistsError", "NameError", "InternalError",
                 "FileNotFoundError"}
  /\ touched \subseteq Paths
  /\ faulted \subseteq Operations

Rng(seq) == {seq[i] : i \in DOMAIN seq}

\* The paths the generator was to make available.
Requested ==
  Rng(job.cli) \cup Rng(job.deps) \cup (IF job.glibc THEN Rng(job.nss) ELSE {})
    \cup {p \in Rng(job.binaryDeps) : p.name \notin job.packed}

\* The inode a path leads to on the host, None if to nothing.
HostFile(path) ==
  LET follow[k \in 0..Cardinality(Paths)] ==
        IF k = 0 THEN path
        ELSE LET p == follow[k - 1] IN
             IF p \in DOMAIN job.nodes /\ job.nodes[p].kind = "symlink"
               THEN job.nodes[p].to ELSE p
      end == follow[Cardinality(Paths)]
  IN  IF end \in DOMAIN job.nodes /\ job.nodes[end].kind = "file"
        THEN job.nodes[end].inode ELSE None

\* The inode a name leads to among the members, None if to nothing.
BundleFile(name) ==
  LET MembersOf(n) == {members[i] : i \in {k \in DOMAIN members : members[k].name = n}}
      follow[k \in 0..Len(members)] ==
        IF k = 0 THEN name
        ELSE LET ms == MembersOf(follow[k - 1]) IN
             IF \E m \in ms : m.kind # "file" THEN (CHOOSE m \in ms : m.kind # "file").to
                                             ELSE follow[k - 1]
      ends == {m \in MembersOf(follow[Len(members)]) : m.kind = "file"}
  IN  IF ends = {} THEN None ELSE (CHOOSE m \in ends : TRUE).inode

\* Files of one name are one file, wherever they are found.
Unambiguous ==
  \A p, q \in DOMAIN job.nodes : p.name = q.name => HostFile(p) = HostFile(q)

\* In a bundle that was made, every name the loader may ask for leads somewhere,
\* and to the very file it leads to on the host unless the host has two of that
\* name: no chain of links is cut, crossed, or closed to a loop by dropping the
\* directories. So does the interpreter's fixed name. (A path that is not there is
\* passed over if its name is in the archive already.)
NamesLeadHome ==
  result = "ok" =>
    /\ \A p \in Requested : BundleFile(p.name) # None
    /\ Unambiguous => \A p \in Requested \cap DOMAIN job.nodes : BundleFile(p.name) = HostFile(p)
    /\ Unambiguous /\ job.interp \in Requested \cap DOMAIN job.nodes =>
         BundleFile(INTERP_FILENAME) = HostFile(job.interp)

\* No name is archived twice: the bootloader would write the second member through
\* or over the first. This is what module TarExtract asks of an ordinary archive.
NoNameTwice ==
  result = "ok" => \A i, j \in DOMAIN members : members[i].name = members[j].name => i = j

\* Where the dynamic loader looks for what a library needs: along its RPATH, and then along
\* the program's, which the bootloader has made the bundle's directory. A RUNPATH takes the
\* place of both, and may list anything.
SearchPath(tags) == IF tags.runpath THEN <<"runpath">> ELSE Append(tags.rpath, "bundle")
InBundle == {"origin", "bundle"}

\* In a bundle that was made the loader always gets to the bundle's directory, from its
\* own libraries and from PyInstaller's; and for the former it looks in the bundle first, and
\* never climbs out of it. (What comes later on the path is LoaderStaysInBundle's matter.)
BundleIsSearched ==
  result = "ok" =>
    /\ \A m \in Rng(members) : m.kind = "file" =>
         LET path == SearchPath(m.tags)
         IN  Head(path) \in InBundle /\ "parent" \notin Rng(path) /\ "bundle" \in Rng(path)
    /\ \A tags \in job.binaries : "bundle" \in Rng(SearchPath(tags))

\* strip and patchelf never modify a library of the build host, whichever of them
\* runs, in whichever order.
HostUntouched == touched = {}

\* However the generation ends no temporary file stays, save when a copy was cut
\* short, __init__ itself failed, or the cleaning up did.
NothingLeftBehind ==
  pc = "ended" /\ faulted \cap {"archive", "copy", "remove"} = {} => temps = {}

\* The output is the old one or a whole new one, and success is reported just for
\* the latter, unless shutil.move() had to copy it and failed.
OutputOldOrWhole ==
  /\ output = "partial" => "rename" \in faulted
  /\ result = "ok" => output = "whole"
  /\ output = "whole" => result = "ok" \/ faulted \cap {"rename", "remove"} # {}

\* What makes the properties above inductive. While nothing has gone wrong:
Working == pc \notin {"cleanup", "ended"}

\* ... the steps come in order,
InOrder ==
  /\ pc \in {"mkdtemp", "archive", "bootloader", "prog", "fixup", "hook"} => then = "bootloader"
  /\ pc = "glibc" => then = "glibc"
  /\ pc = "program" => then \in {"glibc", "program"}
  /\ Working => result = "none"

\* ... the attributes name every temporary file,
FilesKnown ==
  /\ pc = "mkdtemp" => temps = {}
  /\ pc # "ended" => temps = known \/ "copy" \in faulted

\* ... the output is as it was,
OutputUntouched == result = "none" => output = "old"

\* ... whatever is archived, or about to be, has been audited, and so have PyInstaller's
\* libraries from the hook on,
Audited ==
  /\ \A i \in DOMAIN members : members[i].kind = "file" => ~Unsupported(members[i].tags, FALSE)
  /\ pc \in {"strip", "store"} => ~Unsupported(lib.tags, FALSE)
HookPassed == then # "bootloader" => \A tags \in job.binaries : ~Unsupported(tags, TRUE)

\* ... and _added_libs tells the names in the archive, those apart that the generator
\* makes up, each of which has its step.
NamesKnown ==
  Working =>
    /\ \A i, j \in DOMAIN members : members[i].name = members[j].name => i = j
    /\ \A i \in DOMAIN members : LET name == members[i].name IN
         \/ name \in added
         \/ name = LIBNSSFIX /\ then \in {"program", "objcopy"}
         \/ name \in {job.prog, PROG_FILENAME, INTERP_FILENAME} /\ then = "objcopy"

\* For NamesLeadHome: a library is on its way from AddLibrary to StoreLibrary;
Chaining == pc \in {"symlinks", "strip", "store"}

\* members i to l are links, each to the next one's name, up to l;
Linked(i) == members[i].kind = "symlink" /\ members[i].name \in PathNames
Chain(i, l) == \A k \in i..(l - 1) : Linked(k) /\ members[k + 1].name = members[k].to

\* member l is the file, or another name of it;
Gives(l, inode) ==
  \/ members[l].kind = "file" /\ members[l].inode = inode
  \/ /\ members[l].kind = "hardlink"
     /\ \E j \in DOMAIN members : /\ members[j].kind = "file" /\ members[j].inode = inode
                                  /\ members[j].name = members[l].to

\* a member leads, through those archived right after it, to what a path of its name
\* leads to on the host,
Settled(i) ==
  \E l \in i..Len(members), q \in DOMAIN job.nodes :
    /\ Chain(i, l) /\ Gives(l, HostFile(q))
    /\ q.name = members[i].name /\ HostFile(q) # None

\* or it will, once the library that is on its way is stored;
OnTheWay(i) ==
  /\ Chaining
  /\ Chain(i, Len(members)) /\ Linked(Len(members)) /\ members[Len(members)].to = lib.path.name
  /\ \E q \in DOMAIN job.nodes :
       /\ q.name = members[i].name
       /\ HostFile(lib.path) # None => HostFile(q) = HostFile(lib.path)

\* so does every library and link in the archive, and _added_libs lists no others;
Placed == \A i \in DOMAIN members : members[i].name \in added => Settled(i) \/ OnTheWay(i)
Listed == \A name \in added : \E i \in DOMAIN members : members[i].name = name

\* what was audited is the file at the end of the links;
LibFound ==
  pc \in {"strip", "store"} =>
    /\ lib.path \in DOMAIN job.nodes /\ job.nodes[lib.path].kind = "file"
    /\ lib.inode = job.nodes[lib.path].inode

\* and each list of libraries has been seen to, or is being so in its phase, told by
\* what comes next.
Waiting(p) ==
  \/ \E k \in DOMAIN queue : queue[k].path = p
  \/ Chaining /\ p.name = lib.path.name
Got(p, phase) == p.name \in added \/ (then = phase /\ Waiting(p))

Phases ==
  /\ pc # "libraries" /\ ~Chaining => queue = <<>>
  /\ pc \notin {"mkdtemp", "archive"} => \A p \in Rng(job.cli) : Got(p, "bootloader")
  /\ then \in {"glibc", "program", "objcopy"} =>
       \A p \in Rng(job.binaryDeps) : p.name \in job.packed \/ Got(p, "glibc")
  /\ then \in {"program", "objcopy"} /\ job.glibc => \A p \in Rng(job.nss) : Got(p, "program")
  /\ then = "objcopy" =>
       /\ \A p \in Rng(job.deps) : Got(p, "objcopy")
       /\ \E i \in DOMAIN members : members[i] = SymlinkMember(INTERP_FILENAME, job.interp.name)
  /\ pc = "program" /\ job.glibc => then = "program"
  /\ pc \in {"objcopy", "move"} \/ result = "ok" => then = "objcopy"

HomeInv == Working \/ result = "ok" => LibFound /\ Placed /\ Listed /\ Phases

IInv ==
  /\ TypeOK
  /\ InOrder /\ FilesKnown /\ OutputUntouched /\ Audited /\ HookPassed /\ NamesKnown
  /\ HomeInv
  /\ NoNameTwice /\ HostUntouched /\ NothingLeftBehind /\ OutputOldOrWhole

\* Links of one name that lead in a circle.
SameNameLoop ==
  \E S \in SUBSET DOMAIN job.nodes :
    /\ S # {}
    /\ \A p \in S : /\ job.nodes[p].kind = "symlink"
                   /\ job.nodes[p].to \in S /\ job.nodes[p].to.name = p.name

\* The generation ends, whatever circles other links form: a name met again is an
\* error. (Links of one name in a circle are followed for ever.)
ComesToAnEnd == ~SameNameLoop => <>(pc = "ended")
-----------------------------------------------------------------------------
(* What the documentation says, and the code does not do.                  *)

\* api.py:158 says of add_library that the library "will be added with its base
\* name" and that "Symlinks will also be added and followed": no layout of links
\* that leads to files should trip the internal checks.
NoInternalError == result \notin {"InternalError", "NameError"}

\* docs/rpath.rst:31 says that it is StaticX's way "to only execute code included in the
\* bundled archive", why it (36) "will strip RPATH/RUNPATH entries from any library added
\* to the archive", and allows RPATH in PyInstaller's (42) "as long as the path is relative
\* to $ORIGIN": no library of a bundle may send the loader anywhere else.
LoaderStaysInBundle ==
  result = "ok" =>
    \A tags \in {m.tags : m \in {n \in Rng(members) : n.kind = "file"}} \cup job.binaries :
      Rng(SearchPath(tags)) \subseteq InBundle
=============================================================================
