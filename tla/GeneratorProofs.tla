--------------------------- MODULE GeneratorProofs ---------------------------
(***************************************************************************)
(* Proofs about module Generator: its types, and the inductive invariant   *)
(* IInv part by part, with the safety properties that follow from it. Where*)
(* names lead takes the most: what HostFile and BundleFile compute, when   *)
(* the links they follow end.                                              *)
(***************************************************************************)
EXTENDS Generator, SequenceInduction, SequenceTheorems, FiniteSetTheorems, TLAPS

-----------------------------------------------------------------------------
(* Sequences that grow.                                                    *)

LEMMA AppendFacts ==
  ASSUME NEW S, NEW s \in Seq(S), NEW e \in S
  PROVE  /\ Append(s, e) \in Seq(S)
         /\ DOMAIN Append(s, e) = DOMAIN s \cup {Len(s) + 1}
         /\ Len(s) + 1 \notin DOMAIN s
         /\ Append(s, e)[Len(s) + 1] = e
         /\ \A i \in DOMAIN s : Append(s, e)[i] = s[i]
OBVIOUS

LEMMA ConcatThree ==
  ASSUME NEW S, NEW s \in Seq(S), NEW a \in S, NEW b \in S, NEW c \in S
  PROVE  s \o <<a, b, c>> = Append(Append(Append(s, a), b), c)
<1>1. <<a, b, c>> \in Seq(S) /\ Len(<<a, b, c>>) = 3
  OBVIOUS
<1>2. <<a, b, c>>[1] = a /\ <<a, b, c>>[2] = b /\ <<a, b, c>>[3] = c
  OBVIOUS
<1>3. s \o <<a, b, c>> \in Seq(S) /\ Len(s \o <<a, b, c>>) = Len(s) + 3
  BY <1>1
<1>4. /\ Append(Append(Append(s, a), b), c) \in Seq(S)
      /\ Len(Append(Append(Append(s, a), b), c)) = Len(s) + 3
  OBVIOUS
<1>5. \A i \in 1..(Len(s) + 3) :
        (s \o <<a, b, c>>)[i] = Append(Append(Append(s, a), b), c)[i]
  BY <1>1, <1>2
<1>6. QED BY <1>3, <1>4, <1>5, SeqEqual

-----------------------------------------------------------------------------
(* The job and the archive's members.                                      *)

Request == [path : Paths, existOk : BOOLEAN]

\* What a job holds.
LEMMA JobFacts ==
  ASSUME NEW j, IsJob(j)
  PROVE  /\ j.cli \in Seq(Paths) /\ j.deps \in Seq(Paths)
         /\ j.binaryDeps \in Seq(Paths) /\ j.nss \in Seq(Paths)
         /\ j.prog \in Programs /\ j.interp \in Paths
         /\ j.tags \in [Inodes -> Tags]
         /\ \A p \in DOMAIN j.nodes : p \in Paths /\ j.nodes[p] \in NodeType
BY DEF IsJob

\* The requests for a list of paths.
LEMMA RequestsType ==
  ASSUME NEW paths \in Seq(Paths), NEW ok \in BOOLEAN
  PROVE  Requests(paths, ok) \in Seq(Request)
<1>1. Len(paths) \in Nat /\ \A i \in 1..Len(paths) : paths[i] \in Paths
  OBVIOUS
<1>2. \A i \in 1..Len(paths) : [path |-> paths[i], existOk |-> ok] \in Request
  BY <1>1 DEF Request
<1>3. QED BY <1>1, <1>2 DEF Requests

\* The head and the tail of a queue.
LEMMA QueueFacts ==
  ASSUME NEW q \in Seq(Request), q # <<>>
  PROVE  Head(q) \in Request /\ Head(q).path \in Paths /\ Tail(q) \in Seq(Request)
<1>1. Head(q) \in Request /\ Tail(q) \in Seq(Request)
  OBVIOUS
<1>2. QED BY <1>1 DEF Request

\* A libpath, and what may be changed in it.
LibType == [path : Paths \cup {None}, copied : BOOLEAN, inode : Inodes \cup {None}, tags : Tags]

Found(l, inode, tags) == [l EXCEPT !.inode = inode, !.tags = tags]

LEMMA LibFacts ==
  /\ NoLib \in LibType
  /\ \A l \in LibType, p \in Paths :
       /\ [l EXCEPT !.path = p] \in LibType
       /\ [l EXCEPT !.path = p].path = p
  /\ \A l \in LibType, n \in Inodes, t \in Tags :
       /\ Found(l, n, t) \in LibType
       /\ Found(l, n, t).path = l.path
       /\ Found(l, n, t).tags = t
  /\ \A l \in LibType :
       /\ WorkOnCopy(l) \in LibType
       /\ WorkOnCopy(l).copied
       /\ WorkOnCopy(l).path = l.path
       /\ WorkOnCopy(l).tags = l.tags
       /\ [WorkOnCopy(l) EXCEPT !.tags = NoTags] \in LibType
       /\ [WorkOnCopy(l) EXCEPT !.tags = NoTags].path = l.path
       /\ [WorkOnCopy(l) EXCEPT !.tags = NoTags].tags = NoTags
<1>1. NoTags \in Tags
  BY DEF NoTags, Tags
<1>2. NoLib \in LibType
  BY <1>1 DEF NoLib, LibType
<1>3. ASSUME NEW l \in LibType, NEW p \in Paths
      PROVE  [l EXCEPT !.path = p] \in LibType /\ [l EXCEPT !.path = p].path = p
  BY DEF LibType
<1>4. ASSUME NEW l \in LibType, NEW n \in Inodes, NEW t \in Tags
      PROVE  /\ Found(l, n, t) \in LibType
             /\ Found(l, n, t).path = l.path
             /\ Found(l, n, t).tags = t
  BY DEF LibType, Found
<1>5. ASSUME NEW l \in LibType
      PROVE  /\ WorkOnCopy(l) \in LibType
             /\ WorkOnCopy(l).copied
             /\ WorkOnCopy(l).path = l.path
             /\ WorkOnCopy(l).tags = l.tags
  BY DEF LibType, WorkOnCopy
<1>6. ASSUME NEW l \in LibType
      PROVE  /\ [l EXCEPT !.tags = NoTags] \in LibType
             /\ [l EXCEPT !.tags = NoTags].path = l.path
             /\ [l EXCEPT !.tags = NoTags].tags = NoTags
  BY <1>1 DEF LibType
<1>7. QED BY <1>2, <1>3, <1>4, <1>5, <1>6

\* Every kind of member is one.
LEMMA MemberFacts ==
  ASSUME NEW name \in Names
  PROVE  /\ \A to \in Names : /\ SymlinkMember(name, to) \in MemberType
                              /\ HardlinkMember(name, to) \in MemberType
         /\ \A inode \in Inodes \cup {None}, copied \in BOOLEAN, tags \in Tags :
              FileMember(name, inode, copied, tags) \in MemberType
BY DEF SymlinkMember, HardlinkMember, FileMember, MemberType

LEMMA TagFacts == NoTags \in Tags /\ ~Unsupported(NoTags, FALSE)
BY DEF NoTags, Tags, Unsupported

LEMMA NameFacts ==
  /\ \A p \in Paths : p.name \in PathNames
  /\ PathNames \subseteq Names
  /\ Programs \cup {PROG_FILENAME, INTERP_FILENAME, LIBNSSFIX} \subseteq Names
BY DEF PathNames, Names, Reserved

\* What is archived is a member.
LEMMA MemberMember ==
  ASSUME TypeOK, lib.path \in Paths
  PROVE  Member \in MemberType
<1>1. lib.path.name \in Names
  BY NameFacts
<1>2. CASE ArchivedAs = {}
  BY <1>1, <1>2, MemberFacts DEF Member, TypeOK
<1>3. CASE ArchivedAs # {}
  <2>1. ArchivedAs \subseteq Names
    <3>1. \A i \in DOMAIN members : members[i] \in MemberType
      BY DEF TypeOK
    <3>2. \A m \in MemberType : m.name \in Names
      BY DEF MemberType
    <3>3. QED BY <3>1, <3>2 DEF ArchivedAs
  <2>2. (CHOOSE n \in ArchivedAs : TRUE) \in Names
    BY <1>3, <2>1
  <2>3. QED BY <1>1, <1>3, <2>2, MemberFacts DEF Member
<1>4. QED BY <1>2, <1>3

-----------------------------------------------------------------------------
(* Types.                                                                  *)

\* The types hold at the start.
LEMMA TypeInit == Init => TypeOK
<1> SUFFICES ASSUME Init PROVE TypeOK
  OBVIOUS
<1>1. IsJob(job)
  BY JobsAssumption DEF Init
<1>2. QED BY <1>1, TagFacts DEF Init, TypeOK, Steps, NoLib

\* Each step of the generation keeps them.
LEMMA TypeGenerate == TypeOK /\ Generate => TypeOK'
<1> SUFFICES ASSUME TypeOK, Generate PROVE TypeOK'
  OBVIOUS
<1> USE DEF archive, files, Goto, Raise, AddLibraries
<1>0. /\ IsJob(job) /\ (job' = job => IsJob(job)')
      /\ queue \in Seq(Request) /\ lib \in LibType
      /\ members \in Seq(MemberType) /\ added \subseteq PathNames
  BY DEF TypeOK, Request, LibType
<1>1. CASE MakeTmpdir
  BY <1>0, <1>1 DEF MakeTmpdir, TypeOK, Steps
<1>2. CASE MakeArchive
  <2>1. queue' \in Seq(Request)
    BY <1>0, <1>2, JobFacts, RequestsType DEF MakeArchive
  <2>2. QED BY <1>0, <1>2, <2>1 DEF MakeArchive, TypeOK, Request, Steps
<1>3. CASE CopyBootloader
  BY <1>0, <1>3, ZenonT(60) DEF CopyBootloader, CopyToTempfile, TypeOK, Steps, Operations
<1>4. CASE CopyProgram
  BY <1>0, <1>4, ZenonT(60) DEF CopyProgram, CopyToTempfile, TypeOK, Steps, Operations
<1>5. CASE FixupProg
  BY <1>0, <1>5 DEF FixupProg, TypeOK, Steps
<1>6. CASE PyInstallHook
  <2>1. queue' \in Seq(Request)
    BY <1>0, <1>6, JobFacts, RequestsType DEF PyInstallHook
  <2>2. QED BY <1>0, <1>6, <2>1, ZenonT(60) DEF PyInstallHook, TypeOK, Request, Steps
<1>7. CASE ProcessGlibcProg
  <2>1. queue' \in Seq(Request)
    BY <1>0, <1>7, JobFacts, RequestsType DEF ProcessGlibcProg
  <2>2. members' \in Seq(MemberType)
    <3>1. FileMember(LIBNSSFIX, None, TRUE, NoTags) \in MemberType
      BY MemberFacts, TagFacts, NameFacts
    <3>2. Append(members, FileMember(LIBNSSFIX, None, TRUE, NoTags)) \in Seq(MemberType)
      BY <1>0, <3>1, AppendFacts
    <3>3. QED BY <1>0, <1>7, <3>2 DEF ProcessGlibcProg
  <2>3. QED BY <1>0, <1>7, <2>1, <2>2, ZenonT(60) DEF ProcessGlibcProg, TypeOK, Request, Steps
<1>8. CASE AddProgram
  <2>1. queue' \in Seq(Request)
    BY <1>0, <1>8, JobFacts, RequestsType DEF AddProgram
  <2>2. members' \in Seq(MemberType)
    <3> DEFINE prog == FileMember(job.prog, None, TRUE, NoTags)
               fixed == SymlinkMember(PROG_FILENAME, job.prog)
               interp == SymlinkMember(INTERP_FILENAME, job.interp.name)
    <3>1. prog \in MemberType /\ fixed \in MemberType /\ interp \in MemberType
      BY <1>0, JobFacts, MemberFacts, TagFacts, NameFacts
    <3>2. members' = members \o <<prog, fixed, interp>>
      BY <1>8 DEF AddProgram
    <3> HIDE DEF prog, fixed, interp
    <3>3. members \o <<prog, fixed, interp>> \in Seq(MemberType)
      BY <1>0, <3>1, ConcatThree, AppendFacts
    <3>4. QED BY <3>2, <3>3
  <2>3. QED BY <1>0, <1>8, <2>1, <2>2 DEF AddProgram, TypeOK, Request, Steps
<1>9. CASE LibrariesDone
  BY <1>0, <1>9 DEF LibrariesDone, TypeOK, Steps
<1>10. CASE LibraryPacked
  <2>1. queue' \in Seq(Request)
    BY <1>0, <1>10, QueueFacts DEF LibraryPacked
  <2>2. QED BY <1>0, <1>10, <2>1 DEF LibraryPacked, TypeOK, Request
<1>11. CASE LibraryExists
  <2>1. queue' \in Seq(Request)
    BY <1>0, <1>11, QueueFacts DEF LibraryExists
  <2>2. QED BY <1>0, <1>11, <2>1 DEF LibraryExists, TypeOK, Request
<1>12. CASE AddLibrary
  <2>1. queue' \in Seq(Request) /\ Head(queue).path \in Paths
    BY <1>0, <1>12, QueueFacts DEF AddLibrary
  <2>2. lib' \in LibType /\ lib'.path \in Paths
    BY <1>12, <2>1, LibFacts DEF AddLibrary
  <2>3. QED BY <1>0, <1>12, <2>1, <2>2 DEF AddLibrary, TypeOK, Request, LibType, Steps
<1>13. CASE FollowSymlink
  <2>1. Node.to \in Paths /\ lib.path \in Paths
    BY <1>0, <1>13, JobFacts DEF FollowSymlink, IsLink, Node, NodeType, TypeOK
  <2>2. /\ lib.path.name \in PathNames
        /\ SymlinkMember(lib.path.name, Node.to.name) \in MemberType
    BY <2>1, NameFacts, MemberFacts
  <2>3. lib' \in LibType /\ lib'.path \in Paths
    BY <1>0, <1>13, <2>1, LibFacts DEF FollowSymlink
  <2>4. members' \in Seq(MemberType) /\ added' \subseteq PathNames
    <3>1. members' \in {members, Append(members, SymlinkMember(lib.path.name, Node.to.name))}
      BY <1>13 DEF FollowSymlink
    <3>2. added' \in {added, added \cup {lib.path.name}}
      BY <1>13 DEF FollowSymlink
    <3>3. Append(members, SymlinkMember(lib.path.name, Node.to.name)) \in Seq(MemberType)
      BY <1>0, <2>2, AppendFacts
    <3>4. QED BY <1>0, <2>2, <3>1, <3>2, <3>3
  <2>5. /\ pc' \in Steps \cup {"libraries", "cleanup", "ended"}
        /\ result' \in {"none", "ok", "Error", "LibExistsError", "NameError", "InternalError",
                       "FileNotFoundError"}
    BY <1>13 DEF FollowSymlink, TypeOK, Steps
  <2>6. UNCHANGED <<job, then, queue, known, temps, output, touched, faulted>>
    BY <1>13 DEF FollowSymlink
  <2>7. QED BY <1>0, <2>3, <2>4, <2>5, <2>6 DEF TypeOK, LibType
<1>14. CASE LibraryMissing
  BY <1>0, <1>14 DEF LibraryMissing, TypeOK
<1>15. CASE AuditLibrary
  <2>1. Node.inode \in Inodes /\ lib.path \in Paths
    BY <1>0, <1>15, JobFacts DEF AuditLibrary, IsLink, Node, NodeType, TypeOK
  <2>2. job.tags[Node.inode] \in Tags
    BY <1>0, <2>1, JobFacts
  <2> DEFINE found == Found(lib, Node.inode, job.tags[Node.inode])
  <2>3. found \in LibType /\ found.path = lib.path
    BY <1>0, <2>1, <2>2, LibFacts
  <2>4. /\ lib' = IF ~Unsupported(job.tags[Node.inode], FALSE) THEN found
                  ELSE [WorkOnCopy(found) EXCEPT !.tags = NoTags]
        /\ touched' = touched \/ touched' = IF WorkOnCopy(found).copied THEN touched
                                            ELSE touched \cup {WorkOnCopy(found).path}
        /\ pc' = "strip"
        /\ UNCHANGED <<job, then, queue, archive, files, faulted, result>>
    BY <1>15 DEF AuditLibrary, Modify, Found
  <2> HIDE DEF found
  <2>5. lib' \in LibType /\ lib'.path \in Paths /\ touched' = touched
    BY <2>1, <2>3, <2>4, LibFacts
  <2> HIDE DEF found
  <2>6. pc' = "strip" /\ UNCHANGED <<job, then, queue, archive, files, faulted, result>>
    BY <2>4
  <2>7. QED BY <1>0, <2>5, <2>6, SMTT(30) DEF TypeOK, LibType, Steps
<1>16. CASE StripLibrary
  <2>1. lib' \in LibType /\ lib'.path = lib.path /\ touched' = touched
    BY <1>0, <1>16, LibFacts DEF StripLibrary, Modify
  <2>2. QED BY <1>0, <1>16, <2>1 DEF StripLibrary, TypeOK, LibType, Steps
<1>17. CASE StoreLibrary
  <2>1. lib.path \in Paths /\ Member \in MemberType
    BY <1>17, MemberMember DEF StoreLibrary, TypeOK
  <2>2. members' \in Seq(MemberType) /\ added' \subseteq PathNames
    BY <1>0, <1>17, <2>1, NameFacts DEF StoreLibrary
  <2>3. QED BY <1>0, <1>17, <2>2 DEF StoreLibrary, TypeOK
<1>18. CASE AppendArchive
  BY <1>0, <1>18 DEF AppendArchive, TypeOK, Steps
<1>19. CASE MoveFile
  BY <1>0, <1>19 DEF MoveFile, TypeOK
<1>20. CASE Cleanup
  BY <1>0, <1>20 DEF Cleanup, TypeOK
<1>21. QED
  BY <1>1, <1>2, <1>3, <1>4, <1>5, <1>6, <1>7, <1>8, <1>9, <1>10, <1>11, <1>12,
     <1>13, <1>14, <1>15, <1>16, <1>17, <1>18, <1>19, <1>20
  DEF Generate, AddLibraryStep

\* Every other step keeps them too.
LEMMA TypeNext == TypeOK /\ [Next]_vars => TypeOK'
<1> SUFFICES ASSUME TypeOK, [Next]_vars PROVE TypeOK'
  OBVIOUS
<1> USE DEF archive, files, Raise
<1>0. job' = job => IsJob(job)'
  BY DEF TypeOK
<1>1. CASE Generate
  BY <1>1, TypeGenerate
<1>2. CASE MoveByCopy
  BY <1>0, <1>2 DEF MoveByCopy, TypeOK, Operations
<1>3. CASE CleanupError
  BY <1>0, <1>3 DEF CleanupError, TypeOK, Operations
<1>4. ASSUME NEW op \in Steps, Fail(op) PROVE TypeOK'
  BY <1>0, <1>4 DEF Fail, TypeOK, Operations
<1>5. CASE UNCHANGED vars
  BY <1>0, <1>5 DEF vars, TypeOK
<1>6. QED
  BY <1>1, <1>2, <1>3, <1>4, <1>5 DEF Next, Failure, Over

\* Every variable has its type, in every state of every job.
THEOREM TypeCorrect == Spec => []TypeOK
<1>1. QED BY TypeInit, TypeNext, PTL DEF Spec
-----------------------------------------------------------------------------
(* Control, temporary files and the output.                                *)

\* The steps come in their order.
LEMMA InOrderNext == TypeOK /\ InOrder /\ [Next]_vars => InOrder'
<1> SUFFICES ASSUME TypeOK, InOrder, [Next]_vars PROVE InOrder'
  OBVIOUS
<1> USE DEF InOrder, Working, archive, files, Goto, Raise, AddLibraries
<1>1. CASE MakeTmpdir \/ MakeArchive
  BY <1>1 DEF MakeTmpdir, MakeArchive
<1>2. CASE CopyBootloader \/ CopyProgram
  BY <1>2 DEF CopyBootloader, CopyProgram, CopyToTempfile
<1>3. CASE FixupProg \/ PyInstallHook
  BY <1>3 DEF FixupProg, PyInstallHook
<1>4. CASE ProcessGlibcProg \/ AddProgram
  BY <1>4 DEF ProcessGlibcProg, AddProgram
<1>5. CASE AddLibraryStep
  <2>1. CASE LibrariesDone
    BY <1>5, <2>1 DEF LibrariesDone, TypeOK
  <2>2. QED
    BY <1>5, <2>1 DEF AddLibraryStep, LibraryPacked, LibraryExists, AddLibrary, FollowSymlink,
       LibraryMissing, AuditLibrary, StripLibrary, StoreLibrary
<1>6. CASE AppendArchive \/ MoveFile \/ Cleanup \/ Failure
  BY <1>6 DEF AppendArchive, MoveFile, Cleanup, Failure, MoveByCopy, CleanupError, Fail
<1>7. CASE UNCHANGED vars
  BY <1>7 DEF vars
<1>8. QED
  BY <1>1, <1>2, <1>3, <1>4, <1>5, <1>6, <1>7 DEF Next, Generate, Over

\* The steps that leave the temporary files and the output alone.
LEMMA LibraryStepsLeaveFiles ==
  ASSUME TypeOK, AddLibraryStep
  PROVE  /\ UNCHANGED <<temps, known, output, faulted>>
         /\ pc \notin {"mkdtemp", "cleanup", "ended"} /\ pc' \notin {"mkdtemp", "ended"}
         /\ result' # "ok" \/ UNCHANGED result
BY DEF TypeOK, AddLibraryStep, LibrariesDone, LibraryPacked, LibraryExists, AddLibrary, FollowSymlink,
   LibraryMissing, AuditLibrary, StripLibrary, StoreLibrary, files, Goto, Raise

\* The attributes name every temporary file, and cleaning up removes what they name.
LEMMA FilesNext ==
  TypeOK /\ FilesKnown /\ NothingLeftBehind /\ [Next]_vars => (FilesKnown /\ NothingLeftBehind)'
<1> SUFFICES ASSUME TypeOK, FilesKnown, NothingLeftBehind, [Next]_vars
             PROVE  (FilesKnown /\ NothingLeftBehind)'
  OBVIOUS
<1> USE DEF FilesKnown, NothingLeftBehind, archive, files, Goto, Raise, AddLibraries
<1>1. CASE MakeTmpdir \/ MakeArchive
  BY <1>1 DEF MakeTmpdir, MakeArchive
<1>2. CASE CopyBootloader \/ CopyProgram
  BY <1>2 DEF CopyBootloader, CopyProgram, CopyToTempfile
<1>3. CASE FixupProg \/ PyInstallHook \/ ProcessGlibcProg \/ AddProgram \/ AppendArchive
  BY <1>3 DEF FixupProg, PyInstallHook, ProcessGlibcProg, AddProgram, AppendArchive
<1>4. CASE AddLibraryStep
  BY <1>4, LibraryStepsLeaveFiles
<1>5. CASE MoveFile
  BY <1>5 DEF MoveFile
<1>6. CASE Cleanup
  BY <1>6 DEF Cleanup, TypeOK
<1>7. CASE MoveByCopy \/ CleanupError
  BY <1>7 DEF MoveByCopy, CleanupError
<1>8. ASSUME NEW op \in Steps, Fail(op) PROVE (FilesKnown /\ NothingLeftBehind)'
  BY <1>8 DEF Fail, Steps
<1>9. CASE UNCHANGED vars
  BY <1>9 DEF vars
<1>10. QED
  BY <1>1, <1>2, <1>3, <1>4, <1>5, <1>6, <1>7, <1>8, <1>9 DEF Next, Generate, Failure, Over

\* The output is written by the last step but one, and by nothing else.
LEMMA OutputNext ==
  TypeOK /\ InOrder /\ OutputUntouched /\ OutputOldOrWhole /\ [Next]_vars
    => (OutputUntouched /\ OutputOldOrWhole)'
<1> SUFFICES ASSUME TypeOK, InOrder, OutputUntouched, OutputOldOrWhole, [Next]_vars
             PROVE  (OutputUntouched /\ OutputOldOrWhole)'
  OBVIOUS
<1> USE DEF InOrder, Working, OutputUntouched, OutputOldOrWhole, archive, files, Goto, Raise,
            AddLibraries
<1>1. CASE MakeTmpdir \/ MakeArchive
  BY <1>1 DEF MakeTmpdir, MakeArchive
<1>2. CASE CopyBootloader \/ CopyProgram
  BY <1>2 DEF CopyBootloader, CopyProgram, CopyToTempfile
<1>3. CASE FixupProg \/ PyInstallHook \/ ProcessGlibcProg \/ AddProgram \/ AppendArchive
  BY <1>3 DEF FixupProg, PyInstallHook, ProcessGlibcProg, AddProgram, AppendArchive
<1>4. CASE AddLibraryStep
  BY <1>4, LibraryStepsLeaveFiles
<1>5. CASE MoveFile
  BY <1>5 DEF MoveFile
<1>6. CASE Cleanup
  BY <1>6 DEF Cleanup
<1>7. CASE MoveByCopy \/ CleanupError
  BY <1>7 DEF MoveByCopy, CleanupError
<1>8. ASSUME NEW op \in Steps, Fail(op) PROVE (OutputUntouched /\ OutputOldOrWhole)'
  BY <1>8 DEF Fail, Steps
<1>9. CASE UNCHANGED vars
  BY <1>9 DEF vars
<1>10. QED
  BY <1>1, <1>2, <1>3, <1>4, <1>5, <1>6, <1>7, <1>8, <1>9 DEF Next, Generate, Failure, Over

\* A tool is only ever given a copy.
LEMMA HostNext == TypeOK /\ HostUntouched /\ [Next]_vars => HostUntouched'
<1> SUFFICES ASSUME TypeOK, HostUntouched, [Next]_vars PROVE HostUntouched'
  OBVIOUS
<1> USE DEF HostUntouched
<1>1. CASE AuditLibrary
  <2> DEFINE found == Found(lib, Node.inode, job.tags[Node.inode])
  <2>1. found \in LibType
    <3>1. lib \in LibType /\ lib.path \in Paths /\ IsJob(job)
      BY <1>1 DEF AuditLibrary, TypeOK, LibType
    <3>2. Node.inode \in Inodes
      BY <1>1, <3>1, JobFacts DEF AuditLibrary, IsLink, Node, NodeType
    <3>3. QED BY <3>1, <3>2, JobFacts, LibFacts
  <2>2. touched' = touched \/ touched' = IF WorkOnCopy(found).copied THEN touched
                                         ELSE touched \cup {WorkOnCopy(found).path}
    BY <1>1 DEF AuditLibrary, Modify, Found
  <2> HIDE DEF found
  <2>3. QED BY <2>1, <2>2, LibFacts
<1>2. CASE StripLibrary
  <2>1. lib \in LibType
    BY DEF TypeOK, LibType
  <2>2. QED BY <1>2, <2>1, LibFacts DEF StripLibrary, Modify
<1>3. CASE MakeTmpdir \/ MakeArchive \/ CopyBootloader \/ CopyProgram \/ FixupProg
           \/ PyInstallHook \/ ProcessGlibcProg \/ AddProgram
  BY <1>3 DEF MakeTmpdir, MakeArchive, CopyBootloader, CopyProgram, CopyToTempfile, FixupProg,
     PyInstallHook, ProcessGlibcProg, AddProgram
<1>4. CASE LibrariesDone \/ LibraryPacked \/ LibraryExists \/ AddLibrary \/ FollowSymlink
           \/ LibraryMissing \/ StoreLibrary
  BY <1>4 DEF LibrariesDone, LibraryPacked, LibraryExists, AddLibrary, FollowSymlink,
     LibraryMissing, StoreLibrary
<1>5. CASE AppendArchive \/ MoveFile \/ Cleanup \/ Failure \/ UNCHANGED vars
  BY <1>5 DEF AppendArchive, MoveFile, Cleanup, Failure, MoveByCopy, CleanupError, Fail, vars
<1>6. QED
  BY <1>1, <1>2, <1>3, <1>4, <1>5 DEF Next, Generate, AddLibraryStep, Over

-----------------------------------------------------------------------------
(* What the archive holds.                                                 *)

\* What a step appends to the archive: nothing; libnssfix; the program's members; a
\* symbolic link; or a library.
LEMMA MembersGrow ==
  ASSUME TypeOK, [Next]_vars
  PROVE  \/ UNCHANGED members
         \/ ProcessGlibcProg /\ members' = Append(members, FileMember(LIBNSSFIX, None, TRUE, NoTags))
         \/ AddProgram
         \/ /\ FollowSymlink
            /\ members' = Append(members, SymlinkMember(lib.path.name, Node.to.name))
         \/ StoreLibrary
<1> USE DEF archive
<1>1. CASE Failure \/ Over \/ UNCHANGED vars
  BY <1>1 DEF Failure, MoveByCopy, CleanupError, Fail, Over, vars
<1>2. CASE AddLibraryStep
  BY <1>2 DEF AddLibraryStep, LibrariesDone, LibraryPacked, LibraryExists, AddLibrary,
     FollowSymlink, LibraryMissing, AuditLibrary, StripLibrary
<1>3. CASE MakeTmpdir \/ MakeArchive \/ CopyBootloader \/ CopyProgram \/ FixupProg
           \/ PyInstallHook \/ AppendArchive \/ MoveFile \/ Cleanup
  BY <1>3 DEF MakeTmpdir, MakeArchive, CopyBootloader, CopyProgram, CopyToTempfile, FixupProg,
     PyInstallHook, AppendArchive, MoveFile, Cleanup
<1>4. CASE ProcessGlibcProg
  BY <1>4 DEF ProcessGlibcProg
<1>5. QED
  BY <1>1, <1>2, <1>3, <1>4 DEF Next, Generate

\* What the program adds, one member after the other.
LEMMA ProgramMembers ==
  ASSUME TypeOK, AddProgram
  PROVE  LET prog == FileMember(job.prog, None, TRUE, NoTags)
             fixed == SymlinkMember(PROG_FILENAME, job.prog)
             interp == SymlinkMember(INTERP_FILENAME, job.interp.name)
         IN  /\ prog \in MemberType /\ fixed \in MemberType /\ interp \in MemberType
             /\ members' = Append(Append(Append(members, prog), fixed), interp)
<1> DEFINE prog == FileMember(job.prog, None, TRUE, NoTags)
           fixed == SymlinkMember(PROG_FILENAME, job.prog)
           interp == SymlinkMember(INTERP_FILENAME, job.interp.name)
<1>1. IsJob(job) /\ members \in Seq(MemberType)
  BY DEF TypeOK
<1>2. prog \in MemberType /\ fixed \in MemberType /\ interp \in MemberType
  BY <1>1, JobFacts, MemberFacts, TagFacts, NameFacts
<1>3. members' = members \o <<prog, fixed, interp>>
  BY DEF AddProgram
<1> HIDE DEF prog, fixed, interp
<1>4. members' = Append(Append(Append(members, prog), fixed), interp)
  BY <1>1, <1>2, <1>3, ConcatThree
<1>5. QED BY <1>2, <1>4 DEF prog, fixed, interp

\* What a link and a library add.
LEMMA LinkMember ==
  ASSUME TypeOK, FollowSymlink
  PROVE  SymlinkMember(lib.path.name, Node.to.name) \in MemberType /\ lib.path \in Paths
<1>1. Node.to \in Paths /\ lib.path \in Paths
  BY JobFacts DEF FollowSymlink, IsLink, Node, NodeType, TypeOK
<1>2. QED BY <1>1, NameFacts, MemberFacts

LEMMA StoredMember ==
  ASSUME TypeOK, StoreLibrary
  PROVE  /\ Member \in MemberType /\ lib.path \in Paths
         /\ Member.name = lib.path.name
         /\ Member.kind = "file" => Member.tags = lib.tags
         /\ members' = Append(members, Member)
<1>1. lib.path \in Paths /\ members' = Append(members, Member)
  BY DEF StoreLibrary, TypeOK
<1>2. Member \in MemberType
  BY <1>1, MemberMember
<1>3. Member.name = lib.path.name /\ (Member.kind = "file" => Member.tags = lib.tags)
  BY DEF Member, FileMember, HardlinkMember
<1>4. QED BY <1>1, <1>2, <1>3

\* A sequence that only good members are appended to holds none but good ones.
LEMMA AppendGood ==
  ASSUME NEW S, NEW s \in Seq(S), NEW e \in S, NEW G,
         \A i \in DOMAIN s : s[i] \in G, e \in G
  PROVE  \A i \in DOMAIN Append(s, e) : Append(s, e)[i] \in G
BY AppendFacts

\* What is archived has been audited.
LEMMA AuditedNext == TypeOK /\ Audited /\ [Next]_vars => Audited'
<1> SUFFICES ASSUME TypeOK, Audited, [Next]_vars PROVE Audited'
  OBVIOUS
<1> DEFINE Good == {m \in MemberType : m.kind = "file" => ~Unsupported(m.tags, FALSE)}
<1>1. members \in Seq(MemberType) /\ \A i \in DOMAIN members : members[i] \in Good
  <2>1. members \in Seq(MemberType)
    BY DEF TypeOK
  <2>2. ASSUME NEW i \in DOMAIN members PROVE members[i] \in Good
    <3>1. members[i] \in MemberType
      BY <2>1
    <3>2. members[i].kind = "file" => ~Unsupported(members[i].tags, FALSE)
      BY DEF Audited
    <3>3. QED BY <3>1, <3>2
  <2>3. QED BY <2>1, <2>2
<1>2. \A i \in DOMAIN members' : members'[i] \in Good
  <2>1. CASE UNCHANGED members
    BY <1>1, <2>1
  <2>2. CASE members' = Append(members, FileMember(LIBNSSFIX, None, TRUE, NoTags))
    <3> DEFINE m == FileMember(LIBNSSFIX, None, TRUE, NoTags)
    <3>1. m \in MemberType
      BY MemberFacts, TagFacts, NameFacts
    <3>2. m.tags = NoTags
      BY DEF FileMember
    <3>3. m \in Good
      BY <3>1, <3>2, TagFacts
    <3> HIDE DEF m, Good
    <3>4. \A i \in DOMAIN Append(members, m) : Append(members, m)[i] \in Good
      BY <1>1, <3>1, <3>3, AppendGood
    <3>5. QED BY <2>2, <3>4 DEF m
  <2>3. CASE AddProgram
    <3> DEFINE prog == FileMember(job.prog, None, TRUE, NoTags)
               fixed == SymlinkMember(PROG_FILENAME, job.prog)
               interp == SymlinkMember(INTERP_FILENAME, job.interp.name)
    <3>1. /\ prog \in MemberType /\ fixed \in MemberType /\ interp \in MemberType
          /\ members' = Append(Append(Append(members, prog), fixed), interp)
      BY <2>3, ProgramMembers
    <3>2. prog.tags = NoTags /\ fixed.kind = "symlink" /\ interp.kind = "symlink"
      BY DEF FileMember, SymlinkMember
    <3>3. prog \in Good /\ fixed \in Good /\ interp \in Good
      BY <3>1, <3>2, TagFacts
    <3> HIDE DEF prog, fixed, interp, Good
    <3> DEFINE one == Append(members, prog)
               two == Append(one, fixed)
    <3>4. one \in Seq(MemberType) /\ \A i \in DOMAIN one : one[i] \in Good
      BY <1>1, <3>1, <3>3, AppendGood, AppendFacts
    <3> HIDE DEF one
    <3>5. two \in Seq(MemberType) /\ \A i \in DOMAIN two : two[i] \in Good
      BY <3>1, <3>3, <3>4, AppendGood, AppendFacts
    <3> HIDE DEF two
    <3>6. \A i \in DOMAIN Append(two, interp) : Append(two, interp)[i] \in Good
      BY <3>1, <3>3, <3>5, AppendGood
    <3>7. QED BY <3>1, <3>6 DEF one, two
  <2>4. CASE FollowSymlink /\ members' = Append(members, SymlinkMember(lib.path.name, Node.to.name))
    <3> DEFINE m == SymlinkMember(lib.path.name, Node.to.name)
    <3>1. m \in MemberType /\ m.kind = "symlink"
      BY <2>4, LinkMember DEF SymlinkMember
    <3>2. m \in Good
      BY <3>1
    <3> HIDE DEF m, Good
    <3>3. QED BY <1>1, <2>4, <3>1, <3>2, AppendGood DEF m
  <2>5. CASE StoreLibrary
    <3>1. Member \in MemberType /\ members' = Append(members, Member)
      BY <2>5, StoredMember
    <3>2. ~Unsupported(lib.tags, FALSE)
      BY <2>5 DEF Audited, StoreLibrary
    <3>3. Member \in Good
      BY <2>5, <3>1, <3>2, StoredMember
    <3> HIDE DEF Good
    <3>4. QED BY <1>1, <3>1, <3>3, AppendGood
  <2>6. QED BY <2>1, <2>2, <2>3, <2>4, <2>5, MembersGrow
<1>3. (pc \in {"strip", "store"} => ~Unsupported(lib.tags, FALSE))'
  <2>1. CASE AuditLibrary
    <3> DEFINE found == Found(lib, Node.inode, job.tags[Node.inode])
    <3>1. found \in LibType /\ found.tags = job.tags[Node.inode]
      <4>1. lib \in LibType /\ lib.path \in Paths /\ IsJob(job)
        BY <2>1 DEF AuditLibrary, TypeOK, LibType
      <4>2. Node.inode \in Inodes
        BY <2>1, <4>1, JobFacts DEF AuditLibrary, IsLink, Node, NodeType
      <4>3. QED BY <4>1, <4>2, JobFacts, LibFacts
    <3>2. lib' = IF ~Unsupported(job.tags[Node.inode], FALSE) THEN found
                 ELSE [WorkOnCopy(found) EXCEPT !.tags = NoTags]
      BY <2>1 DEF AuditLibrary, Found
    <3> HIDE DEF found
    <3>3. QED BY <3>1, <3>2, LibFacts, TagFacts
  <2>2. CASE StripLibrary
    <3>1. lib \in LibType
      BY DEF TypeOK, LibType
    <3>2. QED BY <2>2, <3>1, LibFacts DEF StripLibrary, Audited
  <2>3. CASE LibrariesDone
    BY <2>3 DEF LibrariesDone, TypeOK, Goto
  <2>4. CASE FollowSymlink
    BY <2>4 DEF FollowSymlink, Goto, Raise
  <2>5. CASE LibraryPacked \/ LibraryExists \/ AddLibrary \/ LibraryMissing \/ StoreLibrary
    BY <2>5 DEF LibraryPacked, LibraryExists, AddLibrary, LibraryMissing, StoreLibrary, Goto, Raise
  <2>6. CASE MakeTmpdir \/ MakeArchive \/ CopyBootloader \/ CopyProgram \/ FixupProg
             \/ PyInstallHook \/ ProcessGlibcProg \/ AddProgram
    BY <2>6 DEF MakeTmpdir, MakeArchive, CopyBootloader, CopyProgram, CopyToTempfile, FixupProg,
       PyInstallHook, ProcessGlibcProg, AddProgram, AddLibraries, Goto, Raise
  <2>7. CASE AppendArchive \/ MoveFile \/ Cleanup \/ Failure
    BY <2>7 DEF AppendArchive, MoveFile, Cleanup, Failure, MoveByCopy, CleanupError, Fail, Goto, Raise
  <2>8. CASE UNCHANGED vars
    BY <2>8 DEF vars, Audited
  <2>9. QED
    BY <2>1, <2>2, <2>3, <2>4, <2>5, <2>6, <2>7, <2>8 DEF Next, Generate, AddLibraryStep, Over
<1>4. QED BY <1>2, <1>3 DEF Audited

\* The hook is behind whatever is added after it, and it lets no RUNPATH by.
LEMMA HookNext == TypeOK /\ InOrder /\ HookPassed /\ [Next]_vars => HookPassed'
<1> SUFFICES ASSUME TypeOK, InOrder, HookPassed, [Next]_vars PROVE HookPassed'
  OBVIOUS
<1>1. CASE then' = then /\ job' = job
  BY <1>1 DEF HookPassed
<1>2. CASE MakeArchive
  BY <1>2 DEF MakeArchive, AddLibraries, HookPassed
<1>3. CASE PyInstallHook
  BY <1>3 DEF PyInstallHook, HookPassed
<1>4. CASE ProcessGlibcProg
  BY <1>4 DEF ProcessGlibcProg, AddLibraries, InOrder, HookPassed
<1>5. CASE AddProgram
  BY <1>5 DEF AddProgram, AddLibraries, InOrder, HookPassed
<1>6. CASE AddLibraryStep
  <2>1. then' = then /\ job' = job
    BY <1>6 DEF AddLibraryStep, LibrariesDone, LibraryPacked, LibraryExists, AddLibrary,
       FollowSymlink, LibraryMissing, AuditLibrary, StripLibrary, StoreLibrary
  <2>2. QED BY <1>1, <2>1
<1>7. CASE MakeTmpdir \/ CopyBootloader \/ CopyProgram \/ FixupProg
           \/ AppendArchive \/ MoveFile \/ Cleanup \/ Failure \/ UNCHANGED vars
  <2>1. then' = then /\ job' = job
    BY <1>7 DEF MakeTmpdir, CopyBootloader, CopyProgram, CopyToTempfile, FixupProg,
       AppendArchive, MoveFile, Cleanup, Failure, MoveByCopy, CleanupError, Fail, vars
  <2>2. QED BY <1>1, <2>1
<1>8. QED
  BY <1>2, <1>3, <1>4, <1>5, <1>6, <1>7 DEF Next, Generate, Over

-----------------------------------------------------------------------------
(* The names in the archive.                                               *)

Apart(s) == \A i, j \in DOMAIN s : s[i].name = s[j].name => i = j

LEMMA AppendApart ==
  ASSUME NEW S, NEW s \in Seq(S), NEW e \in S, Apart(s),
         \A i \in DOMAIN s : s[i].name # e.name
  PROVE  Apart(Append(s, e))
<1>1. /\ DOMAIN Append(s, e) = DOMAIN s \cup {Len(s) + 1}
      /\ Append(s, e)[Len(s) + 1] = e
      /\ \A i \in DOMAIN s : Append(s, e)[i] = s[i]
  BY AppendFacts
<1>2. ASSUME NEW i \in DOMAIN Append(s, e), NEW j \in DOMAIN Append(s, e),
             Append(s, e)[i].name = Append(s, e)[j].name
      PROVE  i = j
  <2>1. CASE i \in DOMAIN s /\ j \in DOMAIN s
    BY <1>1, <1>2, <2>1 DEF Apart
  <2>2. CASE i = Len(s) + 1 \/ j = Len(s) + 1
    BY <1>1, <1>2, <2>2
  <2>3. QED BY <1>1, <2>1, <2>2
<1>3. QED BY <1>2 DEF Apart

\* Names of members that are all in a set, and the set grown by the one appended.
LEMMA AppendNames ==
  ASSUME NEW S, NEW s \in Seq(S), NEW e \in S, NEW N, \A i \in DOMAIN s : s[i].name \in N
  PROVE  \A i \in DOMAIN Append(s, e) : Append(s, e)[i].name \in N \cup {e.name}
BY AppendFacts

\* The names that the generator has made up when the queue leads to a step, and those of
\* the members.
Made(step) ==
  (IF step \in {"program", "objcopy"} THEN {LIBNSSFIX} ELSE {})
    \cup (IF step = "objcopy" THEN {job.prog, PROG_FILENAME, INTERP_FILENAME} ELSE {})

LEMMA NamesKnownIs ==
  NamesKnown <=> (Working => /\ Apart(members)
                             /\ \A i \in DOMAIN members : members[i].name \in added \cup Made(then))
BY DEF NamesKnown, Apart, Made

LEMMA NamesKnownIsPrime ==
  NamesKnown' <=> (Working' => /\ Apart(members')
                               /\ \A i \in DOMAIN members' : members'[i].name \in added' \cup Made(then)')
BY DEF NamesKnown, Apart, Made

LEMMA NamesApart ==
  ASSUME IsJob(job)
  PROVE  /\ PathNames \cap {job.prog, PROG_FILENAME, INTERP_FILENAME, LIBNSSFIX} = {}
         /\ job.prog \notin {PROG_FILENAME, INTERP_FILENAME, LIBNSSFIX}
         /\ PROG_FILENAME # INTERP_FILENAME /\ PROG_FILENAME # LIBNSSFIX
         /\ INTERP_FILENAME # LIBNSSFIX
<1>1. job.prog \in Programs
  BY JobFacts
<1>2. PROG_FILENAME # INTERP_FILENAME /\ PROG_FILENAME # LIBNSSFIX /\ INTERP_FILENAME # LIBNSSFIX
  BY DEF PROG_FILENAME, INTERP_FILENAME, LIBNSSFIX
<1>3. QED BY <1>1, <1>2, ReservedAssumption DEF PathNames, Reserved

\* When the archive does not grow, neither do the made-up names, and the others stay.
LEMMA NamesStay ==
  ASSUME TypeOK, InOrder, [Next]_vars, UNCHANGED members, Working'
  PROVE  /\ Working /\ added' = added /\ Made(then) \subseteq Made(then)'
<1> USE DEF Working, Made, archive, files, Goto, Raise, AddLibraries
<1>1. CASE MakeTmpdir \/ MakeArchive
  BY <1>1 DEF MakeTmpdir, MakeArchive, InOrder
<1>2. CASE CopyBootloader \/ CopyProgram
  BY <1>2 DEF CopyBootloader, CopyProgram, CopyToTempfile
<1>3. CASE FixupProg \/ PyInstallHook \/ AppendArchive \/ MoveFile \/ Cleanup
  BY <1>3 DEF FixupProg, PyInstallHook, AppendArchive, MoveFile, Cleanup, InOrder
<1>4. CASE ProcessGlibcProg
  BY <1>4 DEF ProcessGlibcProg, InOrder
<1>5. CASE AddProgram
  BY <1>5 DEF AddProgram, InOrder
<1>6. CASE FollowSymlink
  <2>1. members # Append(members, SymlinkMember(lib.path.name, Node.to.name))
    BY <1>6, LinkMember, AppendFacts DEF TypeOK
  <2>2. QED BY <1>6, <2>1 DEF FollowSymlink
<1>7. CASE StoreLibrary
  <2>1. members # Append(members, Member)
    BY <1>7, StoredMember, AppendFacts DEF TypeOK
  <2>2. QED BY <1>7, <2>1, StoredMember
<1>8. CASE LibrariesDone \/ LibraryPacked \/ LibraryExists \/ AddLibrary
           \/ LibraryMissing \/ AuditLibrary \/ StripLibrary
  BY <1>8 DEF LibrariesDone, LibraryPacked, LibraryExists, AddLibrary, LibraryMissing,
     AuditLibrary, StripLibrary
<1>9. CASE Failure \/ UNCHANGED vars
  BY <1>9 DEF Failure, MoveByCopy, CleanupError, Fail, vars
<1>10. QED
  BY <1>1, <1>2, <1>3, <1>4, <1>5, <1>6, <1>7, <1>8, <1>9
  DEF Next, Generate, AddLibraryStep, Over

\* A name is archived when it is not there yet, or the generation has failed.
LEMMA NamesNext == TypeOK /\ InOrder /\ NamesKnown /\ [Next]_vars => NamesKnown'
<1> SUFFICES ASSUME TypeOK, InOrder, NamesKnown, [Next]_vars, Working'
             PROVE  /\ Apart(members')
                    /\ \A i \in DOMAIN members' : members'[i].name \in added' \cup Made(then)'
  BY NamesKnownIsPrime
<1>1. members \in Seq(MemberType) /\ IsJob(job) /\ added \subseteq PathNames
  BY DEF TypeOK
<1>2. Working => /\ Apart(members)
                 /\ \A i \in DOMAIN members : members[i].name \in added \cup Made(then)
  BY NamesKnownIs
<1>3. CASE UNCHANGED members
  BY <1>2, <1>3, NamesStay
<1>4. CASE ProcessGlibcProg /\ members' = Append(members, FileMember(LIBNSSFIX, None, TRUE, NoTags))
  <2> DEFINE m == FileMember(LIBNSSFIX, None, TRUE, NoTags)
  <2>1. m \in MemberType /\ m.name = LIBNSSFIX
    BY MemberFacts, TagFacts, NameFacts DEF FileMember
  <2>2. Working /\ then = "glibc" /\ added' = added /\ LIBNSSFIX \in Made(then)'
    <3>1. pc = "glibc" /\ then = "glibc"
      BY <1>4 DEF ProcessGlibcProg, InOrder
    <3>2. job.glibc /\ then' = "program" /\ added' = added
      <4>1. members # Append(members, m)
        <5> HIDE DEF m
        <5>1. QED BY <1>1, <2>1, AppendFacts
      <4>2. QED BY <1>4, <4>1 DEF ProcessGlibcProg, AddLibraries
    <3>3. QED BY <3>1, <3>2 DEF Working, Made
  <2>3. \A i \in DOMAIN members : members[i].name \in added
    BY <1>2, <2>2 DEF Made
  <2> HIDE DEF m
  <2>4. Apart(Append(members, m))
    BY <1>1, <1>2, <2>1, <2>2, <2>3, AppendApart, NamesApart
  <2>5. \A i \in DOMAIN Append(members, m) : Append(members, m)[i].name \in added \cup {LIBNSSFIX}
    BY <1>1, <2>1, <2>3, AppendNames
  <2>6. QED BY <1>4, <2>2, <2>4, <2>5 DEF m
<1>5. CASE AddProgram
  <2> DEFINE prog == FileMember(job.prog, None, TRUE, NoTags)
             fixed == SymlinkMember(PROG_FILENAME, job.prog)
             interp == SymlinkMember(INTERP_FILENAME, job.interp.name)
  <2>1. /\ prog \in MemberType /\ fixed \in MemberType /\ interp \in MemberType
        /\ members' = Append(Append(Append(members, prog), fixed), interp)
    BY <1>5, ProgramMembers
  <2>2. prog.name = job.prog /\ fixed.name = PROG_FILENAME /\ interp.name = INTERP_FILENAME
    BY DEF FileMember, SymlinkMember
  <2> HIDE DEF prog, fixed, interp
  <2>3. /\ Working /\ then \in {"glibc", "program"} /\ added' = added /\ then' = "objcopy"
        /\ job' = job
    BY <1>5 DEF AddProgram, InOrder, Working, AddLibraries
  <2>4. \A i \in DOMAIN members : members[i].name \in added \cup {LIBNSSFIX}
    BY <1>2, <2>3 DEF Made
  <2> DEFINE one == Append(members, prog)
             two == Append(one, fixed)
             N == added \cup {LIBNSSFIX}
  <2>5. /\ one \in Seq(MemberType) /\ Apart(one)
        /\ \A i \in DOMAIN one : one[i].name \in N \cup {job.prog}
    <3>1. job.prog \notin N
      BY <1>1, NamesApart
    <3> HIDE DEF N
    <3>2. \A i \in DOMAIN members : members[i].name \in N /\ members[i].name # prog.name
      BY <2>2, <2>4, <3>1 DEF N
    <3>3. QED BY <1>1, <1>2, <2>1, <2>2, <2>3, <3>2, AppendFacts, AppendApart, AppendNames
  <2> HIDE DEF one
  <2>6. /\ two \in Seq(MemberType) /\ Apart(two)
        /\ \A i \in DOMAIN two : two[i].name \in (N \cup {job.prog}) \cup {PROG_FILENAME}
    <3>1. PROG_FILENAME \notin N \cup {job.prog}
      BY <1>1, NamesApart
    <3> HIDE DEF N
    <3>2. \A i \in DOMAIN one : one[i].name # fixed.name
      BY <2>2, <2>5, <3>1
    <3>3. QED BY <2>1, <2>2, <2>5, <3>2, AppendFacts, AppendApart, AppendNames
  <2> HIDE DEF two
  <2>7. /\ Apart(Append(two, interp))
        /\ \A i \in DOMAIN Append(two, interp) :
             Append(two, interp)[i].name
               \in ((N \cup {job.prog}) \cup {PROG_FILENAME}) \cup {INTERP_FILENAME}
    <3>1. INTERP_FILENAME \notin (N \cup {job.prog}) \cup {PROG_FILENAME}
      BY <1>1, NamesApart
    <3> HIDE DEF N
    <3>2. \A i \in DOMAIN two : two[i].name # interp.name
      BY <2>2, <2>6, <3>1
    <3>3. QED BY <2>1, <2>2, <2>6, <3>2, AppendFacts, AppendApart, AppendNames
  <2>8. Made(then)' = {LIBNSSFIX} \cup {job.prog, PROG_FILENAME, INTERP_FILENAME}
    BY <2>3 DEF Made
  <2>9. QED BY <2>1, <2>3, <2>7, <2>8 DEF one, two
<1>6. CASE FollowSymlink /\ members' = Append(members, SymlinkMember(lib.path.name, Node.to.name))
  <2> DEFINE m == SymlinkMember(lib.path.name, Node.to.name)
  <2>1. m \in MemberType /\ m.name = lib.path.name /\ lib.path.name \in PathNames
    BY <1>6, LinkMember, NameFacts DEF SymlinkMember
  <2>2. Working /\ lib.path.name \notin added /\ added' = added \cup {lib.path.name}
    <3>1. members # Append(members, m)
      BY <1>1, <2>1, AppendFacts
    <3>2. QED BY <1>6, <3>1 DEF FollowSymlink, Working, Raise, archive
  <2>3. then' = then /\ job' = job
    BY <1>6 DEF FollowSymlink
  <2> HIDE DEF m
  <2>4. lib.path.name \notin added \cup Made(then)
    BY <1>1, <2>1, <2>2, NamesApart DEF Made
  <2>5. Apart(Append(members, m))
    BY <1>1, <1>2, <2>1, <2>2, <2>4, AppendApart
  <2>6. \A i \in DOMAIN Append(members, m) :
          Append(members, m)[i].name \in (added \cup Made(then)) \cup {lib.path.name}
    BY <1>1, <1>2, <2>1, <2>2, AppendNames
  <2>7. Made(then)' = Made(then)
    BY <2>3 DEF Made
  <2>8. QED BY <1>6, <2>2, <2>5, <2>6, <2>7 DEF m
<1>7. CASE StoreLibrary
  <2>1. /\ Member \in MemberType /\ Member.name = lib.path.name /\ lib.path.name \in PathNames
        /\ members' = Append(members, Member)
    BY <1>7, StoredMember, NameFacts
  <2>2. Working /\ lib.path.name \notin added /\ added' = added \cup {lib.path.name}
    BY <1>7 DEF StoreLibrary, Working, Raise
  <2>3. then' = then /\ job' = job
    BY <1>7 DEF StoreLibrary
  <2>4. lib.path.name \notin added \cup Made(then)
    BY <1>1, <2>1, <2>2, NamesApart DEF Made
  <2>5. Apart(Append(members, Member))
    BY <1>1, <1>2, <2>1, <2>2, <2>4, AppendApart
  <2>6. \A i \in DOMAIN Append(members, Member) :
          Append(members, Member)[i].name \in (added \cup Made(then)) \cup {lib.path.name}
    BY <1>1, <1>2, <2>1, <2>2, AppendNames
  <2>7. Made(then)' = Made(then)
    BY <2>3 DEF Made
  <2>8. QED BY <2>1, <2>2, <2>5, <2>6, <2>7
<1>8. QED BY <1>3, <1>4, <1>5, <1>6, <1>7, MembersGrow

\* An archive that is done has been apart all along.
LEMMA NoNameTwiceNext ==
  TypeOK /\ InOrder /\ NamesKnown /\ NoNameTwice /\ [Next]_vars => NoNameTwice'
<1> SUFFICES ASSUME TypeOK, InOrder, NamesKnown, NoNameTwice, [Next]_vars, result' = "ok"
             PROVE  Apart(members')
  BY DEF NoNameTwice, Apart
<1>1. CASE MoveFile
  <2>1. Working /\ members' = members
    BY <1>1 DEF MoveFile, Working, archive
  <2>2. QED BY <2>1, NamesKnownIs
<1>2. CASE ~MoveFile
  <2>1. result = "ok"
    BY <1>2 DEF Next, Generate, MakeTmpdir, MakeArchive, CopyBootloader, CopyProgram,
       CopyToTempfile, FixupProg, PyInstallHook, ProcessGlibcProg, AddProgram, AddLibraryStep,
       LibrariesDone, LibraryPacked, LibraryExists, AddLibrary, FollowSymlink, LibraryMissing,
       AuditLibrary, StripLibrary, StoreLibrary, AppendArchive, Cleanup, Failure, MoveByCopy,
       CleanupError, Fail, Over, vars, Goto, Raise, AddLibraries
  <2>2. pc \in {"cleanup", "ended"}
    BY <2>1 DEF InOrder, Working
  <2>3. UNCHANGED members
    BY <2>2, MembersGrow DEF ProcessGlibcProg, AddProgram, FollowSymlink, StoreLibrary
  <2>4. QED BY <2>1, <2>3 DEF NoNameTwice, Apart
<1>3. QED BY <1>1, <1>2

-----------------------------------------------------------------------------
(* Following links.                                                        *)

\* What comes of x when g is applied to it k times.
Iterates(g, x, n, f) == \A k \in 0..n : f[k] = IF k = 0 THEN x ELSE g[f[k - 1]]

\* There is a function of all of them.
LEMMA IterExists ==
  ASSUME NEW S, NEW g \in [S -> S], NEW x \in S, NEW n \in Nat
  PROVE  \E f \in [0..n -> S] : Iterates(g, x, n, f)
<1> DEFINE T == {m \in Nat : \E f \in [0..m -> S] : Iterates(g, x, m, f)}
<1>1. 0 \in T
  <2>1. [k \in 0..0 |-> x] \in [0..0 -> S] /\ Iterates(g, x, 0, [k \in 0..0 |-> x])
    BY DEF Iterates
  <2>2. QED
    BY <2>1
<1>2. ASSUME NEW m \in Nat, m \in T PROVE m + 1 \in T
  <2>1. PICK f \in [0..m -> S] : Iterates(g, x, m, f)
    BY <1>2
  <2> DEFINE h == [k \in 0..(m + 1) |-> IF k = m + 1 THEN g[f[m]] ELSE f[k]]
  <2>2. h \in [0..(m + 1) -> S]
    OBVIOUS
  <2>3. ASSUME NEW k \in 0..(m + 1)
        PROVE  h[k] = IF k = 0 THEN x ELSE g[h[k - 1]]
    <3>1. CASE k = m + 1
      <4>1. k # 0 /\ k - 1 = m /\ h[k] = g[f[m]] /\ h[m] = f[m]
        BY <3>1
      <4>2. QED
        BY <4>1
    <3>2. CASE k # m + 1
      <4>1. k \in 0..m /\ h[k] = f[k]
        BY <3>2
      <4>2. k # 0 => k - 1 \in 0..m /\ h[k - 1] = f[k - 1]
        BY <4>1
      <4>3. QED
        BY <2>1, <4>1, <4>2 DEF Iterates
    <3>3. QED
      BY <3>1, <3>2
  <2> HIDE DEF h
  <2>4. Iterates(g, x, m + 1, h)
    BY <2>3 DEF Iterates
  <2>5. QED
    BY <2>2, <2>4
<1> HIDE DEF T
<1>3. Nat \subseteq T
  BY <1>1, <1>2, SetInduction
<1>4. n \in T
  BY <1>3
<1>5. QED
  BY <1>4 DEF T

\* What does not change any more stays.
LEMMA IterStays ==
  ASSUME NEW g, NEW x, NEW n, NEW f, n \in Nat, Iterates(g, x, n, f),
         NEW m, m \in 0..n, g[f[m]] = f[m]
  PROVE  \A k \in m..n : f[k] = f[m]
<1> DEFINE T == {j \in Nat : m + j <= n => f[m + j] = f[m]}
<1>1. 0 \in T
  OBVIOUS
<1>2. ASSUME NEW j \in Nat, j \in T PROVE j + 1 \in T
  <2> SUFFICES ASSUME m + (j + 1) <= n PROVE f[m + (j + 1)] = f[m]
    OBVIOUS
  <2>1. m + j <= n /\ m + (j + 1) \in 0..n /\ m + (j + 1) # 0 /\ (m + (j + 1)) - 1 = m + j
    OBVIOUS
  <2>2. f[m + j] = f[m]
    BY <1>2, <2>1
  <2>3. f[m + (j + 1)] = g[f[m + j]]
    BY <2>1 DEF Iterates
  <2>4. QED
    BY <2>2, <2>3
<1> HIDE DEF T
<1>3. Nat \subseteq T
  BY <1>1, <1>2, SetInduction
<1>4. ASSUME NEW k \in m..n PROVE f[k] = f[m]
  <2>1. k - m \in Nat /\ m + (k - m) = k /\ k <= n
    OBVIOUS
  <2>2. k - m \in T
    BY <1>3, <2>1
  <2>3. QED
    BY <2>1, <2>2 DEF T
<1>5. QED
  BY <1>4

\* What is met twice comes again and again.
LEMMA IterRepeats ==
  ASSUME NEW g, NEW x, NEW n, NEW f, n \in Nat, Iterates(g, x, n, f),
         NEW i, NEW j, i \in 0..n, j \in 0..n, i < j, f[i] = f[j]
  PROVE  f[i + (n - j)] = f[n]
<1> DEFINE T == {t \in Nat : j + t <= n => f[i + t] = f[j + t]}
<1>1. 0 \in T
  OBVIOUS
<1>2. ASSUME NEW t \in Nat, t \in T PROVE t + 1 \in T
  <2> SUFFICES ASSUME j + (t + 1) <= n PROVE f[i + (t + 1)] = f[j + (t + 1)]
    OBVIOUS
  <2>1. /\ j + t <= n /\ j + (t + 1) \in 0..n /\ j + (t + 1) # 0 /\ (j + (t + 1)) - 1 = j + t
        /\ i + (t + 1) \in 0..n /\ i + (t + 1) # 0 /\ (i + (t + 1)) - 1 = i + t
    OBVIOUS
  <2>2. f[i + t] = f[j + t]
    BY <1>2, <2>1
  <2>3. f[j + (t + 1)] = g[f[j + t]] /\ f[i + (t + 1)] = g[f[i + t]]
    BY <2>1 DEF Iterates
  <2>4. QED
    BY <2>2, <2>3
<1> HIDE DEF T
<1>3. Nat \subseteq T
  BY <1>1, <1>2, SetInduction
<1>4. n - j \in Nat /\ j + (n - j) = n /\ n <= n
  OBVIOUS
<1>5. n - j \in T
  BY <1>3, <1>4
<1>6. QED
  BY <1>4, <1>5 DEF T

\* A chain of links that ends does so before it has met every path.
LEMMA EndsEarly ==
  ASSUME NEW S, IsFiniteSet(S), NEW g, NEW x, NEW n \in Nat, n = Cardinality(S), n > 0,
         NEW f \in [0..n -> S], Iterates(g, x, n, f), g[f[n]] = f[n]
  PROVE  f[n - 1] = f[n]
<1> SUFFICES ASSUME f[n - 1] # f[n] PROVE FALSE
  OBVIOUS
<1>1. ASSUME NEW m \in 0..(n - 1) PROVE g[f[m]] # f[m]
  <2> SUFFICES ASSUME g[f[m]] = f[m] PROVE FALSE
    OBVIOUS
  <2>1. m \in 0..n /\ n - 1 \in m..n /\ n \in m..n
    OBVIOUS
  <2>2. \A k \in m..n : f[k] = f[m]
    BY <2>1, IterStays
  <2>3. QED
    BY <2>1, <2>2
<1>2. ASSUME NEW i \in 0..n, NEW j \in 0..n, i < j PROVE f[i] # f[j]
  <2> SUFFICES ASSUME f[i] = f[j] PROVE FALSE
    OBVIOUS
  <2>1. i + (n - j) \in 0..(n - 1)
    BY <1>2
  <2>2. f[i + (n - j)] = f[n]
    <3>1. Iterates(g, x, n, f) /\ n \in Nat /\ i \in 0..n /\ j \in 0..n /\ i < j /\ f[i] = f[j]
      BY <1>2
    <3>2. QED
      BY <3>1, IterRepeats, SMTT(30)
  <2>3. QED
    BY <1>1, <2>1, <2>2
<1>3. \A i, j \in 0..n : i # j => f[i] # f[j]
  <2>1. \A i, j \in 0..n : i # j => i < j \/ j < i
    OBVIOUS
  <2>2. QED
    BY <1>2, <2>1
<1>4. f \in Injection(0..n, S)
  BY <1>3 DEF Injection, IsInjective
<1>5. Cardinality(0..n) <= Cardinality(S)
  BY <1>4, FS_Injection
<1>6. Cardinality(0..n) = n + 1
  BY FS_Interval
<1>7. QED
  BY <1>5, <1>6

\* Where a path leads on the host in one step.
NextNode ==
  [p \in Paths |-> IF p \in DOMAIN job.nodes /\ job.nodes[p].kind = "symlink"
                     THEN job.nodes[p].to ELSE p]

\* A node of the host is a link to a path, or a file, which leads no further.
LEMMA NextNodeIs ==
  ASSUME IsJob(job)
  PROVE  /\ NextNode \in [Paths -> Paths]
         /\ \A p \in DOMAIN job.nodes :
              /\ p \in Paths
              /\ job.nodes[p].kind = "symlink" => job.nodes[p].to \in Paths /\ NextNode[p] = job.nodes[p].to
              /\ job.nodes[p].kind = "file" => job.nodes[p].inode \in Inodes /\ NextNode[p] = p
              /\ job.nodes[p].kind \in {"symlink", "file"}
<1>1. ASSUME NEW p \in DOMAIN job.nodes
      PROVE  /\ p \in Paths /\ job.nodes[p].kind \in {"symlink", "file"}
             /\ job.nodes[p].kind = "symlink" => job.nodes[p].to \in Paths
             /\ job.nodes[p].kind = "file" => job.nodes[p].inode \in Inodes
  BY JobFacts DEF NodeType
<1>2. NextNode \in [Paths -> Paths]
  BY <1>1 DEF NextNode
<1>3. QED
  BY <1>1, <1>2 DEF NextNode

\* HostFile() follows the links as often as there are paths.
LEMMA HostFileIs ==
  ASSUME IsJob(job), NEW path \in Paths
  PROVE  \E f \in [0..Cardinality(Paths) -> Paths] :
           /\ Iterates(NextNode, path, Cardinality(Paths), f)
           /\ HostFile(path) = LET end == f[Cardinality(Paths)] IN
                IF end \in DOMAIN job.nodes /\ job.nodes[end].kind = "file"
                  THEN job.nodes[end].inode ELSE None
<1> DEFINE N == Cardinality(Paths)
           Is(f) == f = [k \in 0..N |->
             IF k = 0 THEN path
             ELSE LET p == f[k - 1] IN
                  IF p \in DOMAIN job.nodes /\ job.nodes[p].kind = "symlink"
                    THEN job.nodes[p].to ELSE p]
           follow == CHOOSE f : Is(f)
<1>1. N \in Nat
  BY PathsAssumption, FS_CardinalityType
<1>2. NextNode \in [Paths -> Paths]
  BY NextNodeIs
<1> HIDE DEF N
<1>3. PICK f \in [0..N -> Paths] : Iterates(NextNode, path, N, f)
  BY <1>1, <1>2, IterExists
<1>4. ASSUME NEW k \in 0..N
      PROVE  f[k] = IF k = 0 THEN path
                    ELSE LET p == f[k - 1] IN
                         IF p \in DOMAIN job.nodes /\ job.nodes[p].kind = "symlink"
                           THEN job.nodes[p].to ELSE p
  <2>1. CASE k = 0
    BY <1>3, <2>1 DEF Iterates
  <2>2. CASE k # 0
    <3>1. k - 1 \in 0..N
      BY <1>1, <2>2
    <3>2. f[k] = NextNode[f[k - 1]] /\ f[k - 1] \in Paths
      BY <1>3, <2>2, <3>1 DEF Iterates
    <3>3. QED
      BY <2>2, <3>2 DEF NextNode
  <2>3. QED
    BY <2>1, <2>2
<1>5. Is(f)
  BY <1>4
<1>6. Is(follow)
  <2> HIDE DEF Is
  <2>1. QED
    BY <1>5
<1> HIDE DEF follow
<1> DEFINE T == {k \in Nat : k <= N => follow[k] = f[k]}
<1>7. 0 \in T
  BY <1>1, <1>5, <1>6
<1>8. ASSUME NEW k \in Nat, k \in T PROVE k + 1 \in T
  <2> SUFFICES ASSUME k + 1 <= N PROVE follow[k + 1] = f[k + 1]
    OBVIOUS
  <2>1. follow[k] = f[k] /\ k + 1 \in 0..N /\ k + 1 # 0 /\ (k + 1) - 1 = k
    BY <1>1, <1>8
  <2>2. follow[k + 1] = LET p == follow[k] IN
                        IF p \in DOMAIN job.nodes /\ job.nodes[p].kind = "symlink"
                          THEN job.nodes[p].to ELSE p
    BY <1>6, <2>1
  <2>3. QED
    BY <1>4, <2>1, <2>2
<1>9. follow[N] = f[N]
  <2> HIDE DEF T
  <2>1. Nat \subseteq T
    BY <1>7, <1>8, SetInduction
  <2>2. N \in T
    BY <1>1, <2>1
  <2>3. QED
    BY <1>1, <2>2 DEF T
<1>10. HostFile(path) = LET end == follow[N] IN
         IF end \in DOMAIN job.nodes /\ job.nodes[end].kind = "file"
           THEN job.nodes[end].inode ELSE None
  BY DEF HostFile, follow, N
<1>11. QED
  BY <1>3, <1>9, <1>10 DEF N

\* A file is what it leads to.
LEMMA HostFileOfFile ==
  ASSUME IsJob(job), NEW p \in DOMAIN job.nodes, job.nodes[p].kind = "file"
  PROVE  HostFile(p) = job.nodes[p].inode /\ HostFile(p) # None
<1> DEFINE N == Cardinality(Paths)
<1>1. p \in Paths /\ NextNode[p] = p /\ job.nodes[p].inode \in Inodes
  BY NextNodeIs
<1>2. N \in Nat
  BY PathsAssumption, FS_CardinalityType
<1>3. PICK f \in [0..N -> Paths] :
           /\ Iterates(NextNode, p, N, f)
           /\ HostFile(p) = LET end == f[N] IN
                IF end \in DOMAIN job.nodes /\ job.nodes[end].kind = "file"
                  THEN job.nodes[end].inode ELSE None
  BY <1>1, HostFileIs
<1> HIDE DEF N
<1>4. 0 \in 0..N /\ N \in 0..N
  BY <1>2
<1>5. f[0] = p
  BY <1>3, <1>4 DEF Iterates
<1>6. \A k \in 0..N : f[k] = f[0]
  BY <1>1, <1>2, <1>3, <1>4, <1>5, IterStays
<1>7. f[N] = p
  BY <1>4, <1>5, <1>6
<1>8. QED
  BY <1>1, <1>3, <1>7, NoneAssumption

\* A link leads where the path leads that it names.
LEMMA HostFileOfLink ==
  ASSUME IsJob(job), NEW p \in DOMAIN job.nodes, job.nodes[p].kind = "symlink",
         HostFile(job.nodes[p].to) # None
  PROVE  HostFile(p) = HostFile(job.nodes[p].to)
<1> DEFINE N == Cardinality(Paths)
           q == job.nodes[p].to
           EndOf(x) == IF x \in DOMAIN job.nodes /\ job.nodes[x].kind = "file"
                         THEN job.nodes[x].inode ELSE None
<1>1. p \in Paths /\ q \in Paths /\ NextNode[p] = q
  BY NextNodeIs
<1>2. N \in Nat
  BY PathsAssumption, FS_CardinalityType
<1>3. N > 0
  <2>1. Cardinality({p}) = 1 /\ {p} \in SUBSET Paths
    BY <1>1, FS_Singleton
  <2>2. Cardinality({p}) <= N
    BY <2>1, PathsAssumption, FS_Subset
  <2>3. QED
    BY <1>2, <2>1, <2>2
<1>4. PICK f \in [0..N -> Paths] : Iterates(NextNode, p, N, f) /\ HostFile(p) = EndOf(f[N])
  BY <1>1, HostFileIs
<1>5. PICK h \in [0..N -> Paths] : Iterates(NextNode, q, N, h) /\ HostFile(q) = EndOf(h[N])
  BY <1>1, HostFileIs
<1>6. N = Cardinality(Paths)
  OBVIOUS
<1> HIDE DEF N
<1>7. NextNode[h[N]] = h[N]
  <2>1. h[N] \in DOMAIN job.nodes /\ job.nodes[h[N]].kind = "file"
    BY <1>5
  <2>2. QED
    BY <2>1, NextNodeIs
<1>8. h[N - 1] = h[N]
  BY <1>2, <1>3, <1>5, <1>6, <1>7, PathsAssumption, EndsEarly
<1> HIDE DEF q, EndOf
<1> DEFINE T == {k \in Nat : k + 1 <= N => f[k + 1] = h[k]}
<1>9. 0 \in T
  <2>1. 1 \in 0..N /\ 0 \in 0..N /\ 1 # 0 /\ 1 - 1 = 0 /\ 0 + 1 = 1
    BY <1>2, <1>3
  <2>2. f[1] = NextNode[f[0]] /\ f[0] = p /\ h[0] = q
    BY <1>4, <1>5, <2>1 DEF Iterates
  <2>3. QED
    BY <1>1, <2>1, <2>2
<1>10. ASSUME NEW k \in Nat, k \in T PROVE k + 1 \in T
  <2> SUFFICES ASSUME (k + 1) + 1 <= N PROVE f[(k + 1) + 1] = h[k + 1]
    OBVIOUS
  <2>1. /\ (k + 1) + 1 \in 0..N /\ (k + 1) + 1 # 0 /\ ((k + 1) + 1) - 1 = k + 1
        /\ k + 1 \in 0..N /\ k + 1 # 0 /\ (k + 1) - 1 = k /\ k + 1 <= N
    BY <1>2
  <2>2. f[(k + 1) + 1] = NextNode[f[k + 1]] /\ h[k + 1] = NextNode[h[k]]
    BY <1>4, <1>5, <2>1 DEF Iterates
  <2>3. QED
    BY <1>10, <2>1, <2>2
<1>11. f[N] = h[N - 1]
  <2> HIDE DEF T
  <2>1. Nat \subseteq T
    BY <1>9, <1>10, SetInduction
  <2>2. N - 1 \in Nat /\ (N - 1) + 1 = N /\ N <= N
    BY <1>2, <1>3
  <2>3. N - 1 \in T
    BY <2>1, <2>2
  <2>4. QED
    BY <2>2, <2>3 DEF T
<1>12. QED
  BY <1>4, <1>5, <1>8, <1>11 DEF q

-----------------------------------------------------------------------------
(* Following names in the archive.                                         *)

\* The members of a name, and where a name leads in one step.
MembersOf(n) == {members[i] : i \in {k \in DOMAIN members : members[k].name = n}}

NextName ==
  [n \in Names |-> IF \E m \in MembersOf(n) : m.kind # "file"
                     THEN (CHOOSE m \in MembersOf(n) : m.kind # "file").to ELSE n]

\* A member has a name and a kind, and leads to a name unless it is a file.
LEMMA MemberKinds ==
  ASSUME members \in Seq(MemberType), NEW i \in DOMAIN members
  PROVE  /\ members[i] \in MemberType /\ members[i].name \in Names
         /\ members[i].kind \in {"symlink", "hardlink", "file"}
         /\ members[i].kind # "file" => members[i].to \in Names
<1>1. members[i] \in MemberType
  OBVIOUS
<1>2. QED
  BY <1>1 DEF MemberType

\* What a name leads to is a name.
LEMMA NextNameType ==
  ASSUME members \in Seq(MemberType)
  PROVE  NextName \in [Names -> Names]
<1>1. ASSUME NEW n \in Names, NEW m \in MembersOf(n), m.kind # "file" PROVE m.to \in Names
  BY <1>1, MemberKinds DEF MembersOf
<1>2. ASSUME NEW n \in Names, \E m \in MembersOf(n) : m.kind # "file"
      PROVE  (CHOOSE m \in MembersOf(n) : m.kind # "file").to \in Names
  <2> DEFINE c == CHOOSE m \in MembersOf(n) : m.kind # "file"
  <2>1. c \in MembersOf(n) /\ c.kind # "file"
    BY <1>2
  <2> HIDE DEF c
  <2>2. c.to \in Names
    BY <1>1, <2>1
  <2>3. QED
    BY <2>2 DEF c
<1>3. QED
  BY <1>2 DEF NextName

\* When no name is there twice, a name leads where its one member leads.
LEMMA NextNameIs ==
  ASSUME members \in Seq(MemberType), Apart(members), NEW i, i \in DOMAIN members
  PROVE  /\ MembersOf(members[i].name) = {members[i]}
         /\ members[i].kind = "file" => NextName[members[i].name] = members[i].name
         /\ members[i].kind # "file" => NextName[members[i].name] = members[i].to
<1>1. MembersOf(members[i].name) = {members[i]}
  BY DEF MembersOf, Apart
<1>2. members[i].name \in Names
  BY MemberKinds
<1>3. CASE members[i].kind = "file"
  BY <1>1, <1>2, <1>3 DEF NextName
<1>4. CASE members[i].kind # "file"
  <2>1. (CHOOSE m \in {members[i]} : m.kind # "file") = members[i]
    BY <1>4
  <2>2. QED
    BY <1>1, <1>2, <1>4, <2>1 DEF NextName
<1>5. QED
  BY <1>1, <1>3, <1>4

\* BundleFile() follows a name as often as there are members.
LEMMA BundleFileIs ==
  ASSUME members \in Seq(MemberType), NEW name \in Names
  PROVE  \E f \in [0..Len(members) -> Names] :
           /\ Iterates(NextName, name, Len(members), f)
           /\ BundleFile(name) = LET ends == {m \in MembersOf(f[Len(members)]) : m.kind = "file"} IN
                IF ends = {} THEN None ELSE (CHOOSE m \in ends : TRUE).inode
<1> DEFINE N == Len(members)
           Is(f) == f = [k \in 0..N |->
             IF k = 0 THEN name
             ELSE LET ms == MembersOf(f[k - 1]) IN
                  IF \E m \in ms : m.kind # "file" THEN (CHOOSE m \in ms : m.kind # "file").to
                                                  ELSE f[k - 1]]
           follow == CHOOSE f : Is(f)
           Ends(n) == {m \in MembersOf(n) : m.kind = "file"}
<1>1. N \in Nat
  OBVIOUS
<1>2. NextName \in [Names -> Names]
  BY NextNameType
<1>3. BundleFile(name) = IF Ends(follow[N]) = {} THEN None ELSE (CHOOSE m \in Ends(follow[N]) : TRUE).inode
  BY DEF BundleFile, MembersOf
<1> HIDE DEF N
<1>4. PICK f \in [0..N -> Names] : Iterates(NextName, name, N, f)
  BY <1>1, <1>2, IterExists
<1>5. ASSUME NEW k \in 0..N
      PROVE  f[k] = IF k = 0 THEN name
                    ELSE LET ms == MembersOf(f[k - 1]) IN
                         IF \E m \in ms : m.kind # "file" THEN (CHOOSE m \in ms : m.kind # "file").to
                                                         ELSE f[k - 1]
  <2>1. CASE k = 0
    BY <1>4, <2>1 DEF Iterates
  <2>2. CASE k # 0
    <3>1. k - 1 \in 0..N
      BY <1>1, <2>2
    <3>2. f[k] = NextName[f[k - 1]] /\ f[k - 1] \in Names
      BY <1>4, <2>2, <3>1 DEF Iterates
    <3>3. QED
      BY <2>2, <3>2 DEF NextName
  <2>3. QED
    BY <2>1, <2>2
<1>6. Is(f)
  BY <1>5
<1>7. Is(follow)
  <2> HIDE DEF Is
  <2>1. QED
    BY <1>6
<1> HIDE DEF follow
<1> DEFINE T == {k \in Nat : k <= N => follow[k] = f[k]}
<1>8. 0 \in T
  BY <1>1, <1>6, <1>7
<1>9. ASSUME NEW k \in Nat, k \in T PROVE k + 1 \in T
  <2> SUFFICES ASSUME k + 1 <= N PROVE follow[k + 1] = f[k + 1]
    OBVIOUS
  <2>1. follow[k] = f[k] /\ k + 1 \in 0..N /\ k + 1 # 0 /\ (k + 1) - 1 = k
    BY <1>1, <1>9
  <2>2. follow[k + 1] = LET ms == MembersOf(follow[k]) IN
                         IF \E m \in ms : m.kind # "file" THEN (CHOOSE m \in ms : m.kind # "file").to
                                                         ELSE follow[k]
    BY <1>7, <2>1
  <2>3. QED
    BY <1>5, <2>1, <2>2
<1>10. follow[N] = f[N]
  <2> HIDE DEF T
  <2>1. Nat \subseteq T
    BY <1>8, <1>9, SetInduction
  <2>2. N \in T
    BY <1>1, <2>1
  <2>3. QED
    BY <1>1, <2>2 DEF T
<1>11. QED
  BY <1>3, <1>4, <1>10 DEF N

\* Once a file's name is reached, the file is what the name leads to.
LEMMA BundleFileOf ==
  ASSUME members \in Seq(MemberType), Apart(members), NEW name \in Names,
         NEW j, j \in DOMAIN members, members[j].kind = "file",
         \A f \in [0..Len(members) -> Names] : Iterates(NextName, name, Len(members), f) =>
           \E m \in 0..Len(members) : f[m] = members[j].name
  PROVE  BundleFile(name) = members[j].inode
<1> DEFINE N == Len(members)
           Ends(n) == {m \in MembersOf(n) : m.kind = "file"}
<1>1. PICK f \in [0..N -> Names] :
           /\ Iterates(NextName, name, N, f)
           /\ BundleFile(name) = IF Ends(f[N]) = {} THEN None ELSE (CHOOSE m \in Ends(f[N]) : TRUE).inode
  BY BundleFileIs
<1>2. N \in Nat
  OBVIOUS
<1>3. PICK m \in 0..N : f[m] = members[j].name
  BY <1>1
<1> HIDE DEF N
<1>4. NextName[f[m]] = f[m]
  BY <1>3, NextNameIs
<1>5. \A k \in m..N : f[k] = f[m]
  BY <1>1, <1>2, <1>3, <1>4, IterStays, SMTT(30)
<1>6. f[N] = members[j].name
  <2>1. N \in m..N
    BY <1>2, <1>3
  <2>2. QED
    BY <1>3, <1>5, <2>1
<1>7. MembersOf(f[N]) = {members[j]}
  BY <1>6, NextNameIs
<1>8. Ends(f[N]) = {members[j]}
  BY <1>7
<1> HIDE DEF Ends
<1>9. (CHOOSE x \in {members[j]} : TRUE) = members[j]
  OBVIOUS
<1>10. QED
  BY <1>1, <1>8, <1>9

\* Following a chain of links in the archive.
LEMMA ChainSteps ==
  ASSUME members \in Seq(MemberType), Apart(members), NEW name,
         NEW f, Iterates(NextName, name, Len(members), f),
         NEW i, NEW l, NEW s, i \in DOMAIN members, l \in i..Len(members), Chain(i, l),
         s \in Nat, f[s] = members[i].name,
         NEW t, t = s + (l - i), t <= Len(members)
  PROVE  f[t] = members[l].name
<1> DEFINE T == {k \in Nat : i + k <= l => f[s + k] = members[i + k].name}
<1>1. i \in Nat /\ i > 0 /\ l \in Nat /\ i <= l /\ Len(members) \in Nat /\ l <= Len(members)
  OBVIOUS
<1>2. 0 \in T
  BY <1>1
<1>3. ASSUME NEW k \in Nat, k \in T PROVE k + 1 \in T
  <2> SUFFICES ASSUME i + (k + 1) <= l PROVE f[s + (k + 1)] = members[i + (k + 1)].name
    OBVIOUS
  <2>1. /\ i + k \in i..(l - 1) /\ i + k \in 1..Len(members) /\ (i + k) + 1 = i + (k + 1)
        /\ i + k <= l
        /\ s + (k + 1) \in 0..Len(members) /\ s + (k + 1) # 0 /\ (s + (k + 1)) - 1 = s + k
    BY <1>1, SMTT(30)
  <2>2. i + k \in DOMAIN members
    BY <2>1
  <2>3. members[i + k].kind = "symlink" /\ members[i + (k + 1)].name = members[i + k].to
    BY <2>1 DEF Chain, Linked
  <2>4. NextName[members[i + k].name] = members[i + (k + 1)].name
    BY <2>2, <2>3, NextNameIs
  <2>5. f[s + k] = members[i + k].name
    BY <1>3, <2>1
  <2>6. f[s + (k + 1)] = NextName[f[s + k]]
    BY <2>1 DEF Iterates
  <2>7. QED
    BY <2>4, <2>5, <2>6
<1>4. l - i \in Nat /\ i + (l - i) = l /\ l <= l
  BY <1>1
<1>5. l - i \in T
  <2> HIDE DEF T
  <2>1. Nat \subseteq T
    BY <1>2, <1>3, SetInduction
  <2>2. QED
    BY <1>4, <2>1
<1>6. QED
  BY <1>4, <1>5

\* What a name leads to that is a step or more before a chain.
LEMMA ChainLeads ==
  ASSUME members \in Seq(MemberType), Apart(members), NEW name, name \in Names,
         NEW i, NEW l, NEW s, NEW e,
         i \in DOMAIN members, l \in i..Len(members), Chain(i, l), Gives(l, e),
         s \in Nat, s + (l - i) + 1 <= Len(members),
         \A f : Iterates(NextName, name, Len(members), f) => f[s] = members[i].name
  PROVE  BundleFile(name) = e
<1>1. i \in Nat /\ i > 0 /\ l \in Nat /\ i <= l /\ Len(members) \in Nat /\ l <= Len(members)
      /\ l \in DOMAIN members
  OBVIOUS
<1>2. ASSUME NEW f, Iterates(NextName, name, Len(members), f)
      PROVE  f[s + (l - i)] = members[l].name
  <2>1. PICK t \in Nat : t = s + (l - i)
    BY <1>1
  <2>2. t <= Len(members) /\ f[s] = members[i].name
    BY <1>1, <1>2, <2>1
  <2>3. f[t] = members[l].name
    BY <1>2, <2>1, <2>2, ChainSteps
  <2>4. QED
    BY <2>1, <2>3
<1>3. s + (l - i) \in 0..Len(members)
  BY <1>1, SMTT(30)
<1>4. CASE members[l].kind = "file" /\ members[l].inode = e
  <2>1. \A f \in [0..Len(members) -> Names] : Iterates(NextName, name, Len(members), f) =>
          \E m \in 0..Len(members) : f[m] = members[l].name
    BY <1>2, <1>3
  <2>2. BundleFile(name) = members[l].inode
    BY <1>1, <1>4, <2>1, BundleFileOf
  <2>3. QED
    BY <1>4, <2>2
<1>5. CASE members[l].kind = "hardlink"
  <2>1. PICK j \in DOMAIN members : /\ members[j].kind = "file" /\ members[j].inode = e
                                    /\ members[j].name = members[l].to
    BY <1>5 DEF Gives
  <2>2. NextName[members[l].name] = members[j].name
    BY <1>1, <1>5, <2>1, NextNameIs
  <2>3. ASSUME NEW f, Iterates(NextName, name, Len(members), f)
        PROVE  f[s + (l - i) + 1] = members[j].name
    <3>1. /\ s + (l - i) + 1 \in 0..Len(members) /\ s + (l - i) + 1 # 0
          /\ (s + (l - i) + 1) - 1 = s + (l - i)
      BY <1>1, SMTT(30)
    <3>2. f[s + (l - i) + 1] = NextName[f[s + (l - i)]]
      BY <2>3, <3>1 DEF Iterates
    <3>3. QED
      BY <1>2, <2>2, <2>3, <3>2
  <2>4. s + (l - i) + 1 \in 0..Len(members)
    BY <1>1
  <2>5. \A f \in [0..Len(members) -> Names] : Iterates(NextName, name, Len(members), f) =>
          \E m \in 0..Len(members) : f[m] = members[j].name
    BY <2>3, <2>4
  <2>6. BundleFile(name) = members[j].inode
    BY <2>1, <2>5, BundleFileOf
  <2>7. QED
    BY <2>1, <2>6
<1>6. QED
  BY <1>4, <1>5 DEF Gives

\* A member that is settled leads to what a path of its name leads to; so does a link
\* to it that no path has the name of.
LEMMA SettledLeads ==
  ASSUME members \in Seq(MemberType), Apart(members), NEW i, i \in DOMAIN members, Settled(i)
  PROVE  \E q \in DOMAIN job.nodes :
           /\ q.name = members[i].name /\ HostFile(q) # None
           /\ BundleFile(members[i].name) = HostFile(q)
           /\ \A k \in DOMAIN members :
                members[k].kind = "symlink" /\ members[k].name \notin PathNames
                  /\ members[k].to = members[i].name => BundleFile(members[k].name) = HostFile(q)
<1>1. PICK l \in i..Len(members), q \in DOMAIN job.nodes :
        /\ Chain(i, l) /\ Gives(l, HostFile(q))
        /\ q.name = members[i].name /\ HostFile(q) # None
  BY DEF Settled
<1>2. i \in Nat /\ i > 0 /\ l \in Nat /\ i <= l /\ Len(members) \in Nat /\ l <= Len(members)
  OBVIOUS
<1>3. BundleFile(members[i].name) = HostFile(q)
  <2>1. \A f : Iterates(NextName, members[i].name, Len(members), f) => f[0] = members[i].name
    BY <1>2 DEF Iterates
  <2>2. 0 \in Nat /\ 0 + (l - i) + 1 <= Len(members)
    BY <1>2
  <2>3. members[i].name \in Names
    BY MemberKinds
  <2>4. QED
    BY <1>1, <2>1, <2>2, <2>3, ChainLeads
<1>4. ASSUME NEW k \in DOMAIN members, members[k].kind = "symlink", members[k].name \notin PathNames,
             members[k].to = members[i].name
      PROVE  BundleFile(members[k].name) = HostFile(q)
  <2>1. k \notin i..(l - 1)
    BY <1>1, <1>4 DEF Chain, Linked
  <2>2. k # l
    BY <1>1, <1>4 DEF Gives
  <2>3. k \in Nat /\ k > 0 /\ k <= Len(members)
    BY <1>2
  <2>4. 1 \in Nat /\ 1 + (l - i) + 1 <= Len(members)
    BY <1>2, <2>1, <2>2, <2>3
  <2>5. NextName[members[k].name] = members[i].name
    BY <1>4, NextNameIs
  <2>6. ASSUME NEW f, Iterates(NextName, members[k].name, Len(members), f)
        PROVE  f[1] = members[i].name
    <3>1. 0 \in 0..Len(members) /\ 1 \in 0..Len(members) /\ 1 # 0 /\ 1 - 1 = 0
      BY <1>2, <2>4
    <3>2. f[0] = members[k].name /\ f[1] = NextName[f[0]]
      BY <2>6, <3>1 DEF Iterates
    <3>3. QED
      BY <2>5, <3>2
  <2>7. members[k].name \in Names
    BY MemberKinds
  <2>8. QED
    BY <1>1, <2>4, <2>6, <2>7, ChainLeads
<1>5. QED
  BY <1>1, <1>3, <1>4

\* What was to be made available has been seen to in the end ...
LEMMA RequestedIsAdded ==
  ASSUME TypeOK, InOrder, HomeInv, result = "ok", NEW p \in Requested
  PROVE  p.name \in added
<1>1. pc \in {"cleanup", "ended"}
  BY DEF InOrder, Working
<1>2. Phases
  BY DEF HomeInv
<1>3. queue = <<>> /\ ~Chaining /\ then = "objcopy"
  BY <1>1, <1>2 DEF Phases, Chaining
<1>4. ASSUME NEW phase, Got(p, phase) PROVE p.name \in added
  BY <1>3, <1>4 DEF Got, Waiting
<1>5. \/ p \in Rng(job.cli) \/ p \in Rng(job.deps)
      \/ job.glibc /\ p \in Rng(job.nss)
      \/ p \in Rng(job.binaryDeps) /\ p.name \notin job.packed
  BY DEF Requested
<1>6. \/ Got(p, "bootloader") \/ Got(p, "glibc") \/ Got(p, "program") \/ Got(p, "objcopy")
  BY <1>1, <1>2, <1>3, <1>5 DEF Phases
<1>7. QED
  BY <1>4, <1>6

\* ... and is where it should be.
LEMMA HomeIsReached == IInv => NamesLeadHome
<1> SUFFICES ASSUME IInv, result = "ok" PROVE NamesLeadHome
  BY DEF NamesLeadHome
<1>1. TypeOK /\ InOrder /\ HomeInv /\ members \in Seq(MemberType) /\ IsJob(job)
  BY DEF IInv, TypeOK
<1>2. Apart(members)
  BY DEF IInv, NoNameTwice, Apart
<1>3. Placed /\ Listed /\ Phases /\ ~Chaining
  <2>1. pc \in {"cleanup", "ended"}
    BY <1>1 DEF InOrder, Working
  <2>2. QED
    BY <1>1, <2>1 DEF HomeInv, Chaining
<1>4. ASSUME NEW p \in Requested
      PROVE  \E q \in DOMAIN job.nodes :
           /\ q.name = p.name /\ HostFile(q) # None
           /\ BundleFile(p.name) = HostFile(q)
           /\ \A k \in DOMAIN members :
                members[k].kind = "symlink" /\ members[k].name \notin PathNames
                  /\ members[k].to = p.name => BundleFile(members[k].name) = HostFile(q)
  <2>1. p.name \in added
    BY <1>1, RequestedIsAdded
  <2>2. PICK i \in DOMAIN members : members[i].name = p.name
    BY <1>3, <2>1 DEF Listed
  <2>3. Settled(i)
    BY <1>3, <2>1, <2>2 DEF Placed, OnTheWay
  <2>4. QED
    BY <1>1, <1>2, <2>2, <2>3, SettledLeads
<1>5. ASSUME NEW p \in Requested PROVE BundleFile(p.name) # None
  BY <1>4
<1>6. ASSUME Unambiguous, NEW p \in Requested \cap DOMAIN job.nodes
      PROVE  BundleFile(p.name) = HostFile(p)
  <2>1. PICK q \in DOMAIN job.nodes : q.name = p.name /\ BundleFile(p.name) = HostFile(q)
    BY <1>4
  <2>2. HostFile(p) = HostFile(q)
    BY <1>6, <2>1 DEF Unambiguous
  <2>3. QED
    BY <2>1, <2>2
<1>7. ASSUME Unambiguous, job.interp \in Requested \cap DOMAIN job.nodes
      PROVE  BundleFile(INTERP_FILENAME) = HostFile(job.interp)
  <2>1. PICK q \in DOMAIN job.nodes :
           /\ q.name = job.interp.name
           /\ \A k \in DOMAIN members :
                members[k].kind = "symlink" /\ members[k].name \notin PathNames
                  /\ members[k].to = job.interp.name => BundleFile(members[k].name) = HostFile(q)
    BY <1>4, <1>7
  <2>2. PICK k \in DOMAIN members : members[k] = SymlinkMember(INTERP_FILENAME, job.interp.name)
    BY <1>3 DEF Phases
  <2>3. INTERP_FILENAME \notin PathNames
    BY <1>1, NamesApart
  <2>4. members[k].kind = "symlink" /\ members[k].name = INTERP_FILENAME
        /\ members[k].to = job.interp.name
    BY <2>2 DEF SymlinkMember
  <2>5. BundleFile(INTERP_FILENAME) = HostFile(q)
    BY <2>1, <2>3, <2>4
  <2>6. HostFile(job.interp) = HostFile(q)
    BY <1>7, <2>1 DEF Unambiguous
  <2>7. QED
    BY <2>5, <2>6
<1>8. QED
  BY <1>5, <1>6, <1>7 DEF NamesLeadHome

-----------------------------------------------------------------------------
(* The lists of libraries, phase by phase.                                 *)

\* What becomes of the archive: nothing in it changes.
LEMMA ArchiveGrows ==
  ASSUME TypeOK, [Next]_vars
  PROVE  /\ members \in Seq(MemberType) /\ members' \in Seq(MemberType)
         /\ Len(members) <= Len(members')
         /\ \A i \in DOMAIN members : i \in DOMAIN members' /\ members'[i] = members[i]
<1>1. members \in Seq(MemberType) /\ members' \in Seq(MemberType)
  BY TypeNext DEF TypeOK
<1> DEFINE Extends(s, t) == Len(s) <= Len(t) /\ \A i \in DOMAIN s : i \in DOMAIN t /\ t[i] = s[i]
<1>2. ASSUME NEW s \in Seq(MemberType), NEW m \in MemberType
      PROVE  Append(s, m) \in Seq(MemberType) /\ Extends(s, Append(s, m))
  OBVIOUS
<1>3. ASSUME NEW s \in Seq(MemberType), NEW t \in Seq(MemberType), NEW u \in Seq(MemberType),
             Extends(s, t), Extends(t, u)
      PROVE  Extends(s, u)
  BY <1>3
<1> HIDE DEF Extends
<1>4. CASE UNCHANGED members
  <2>1. Extends(members, members)
    BY <1>1 DEF Extends
  <2>2. QED
    BY <1>1, <1>4, <2>1 DEF Extends
<1>5. CASE members' = Append(members, FileMember(LIBNSSFIX, None, TRUE, NoTags))
  <2>1. FileMember(LIBNSSFIX, None, TRUE, NoTags) \in MemberType
    BY MemberFacts, TagFacts, NameFacts
  <2>2. QED
    BY <1>1, <1>2, <1>5, <2>1 DEF Extends
<1>6. CASE AddProgram
  <2> DEFINE prog == FileMember(job.prog, None, TRUE, NoTags)
             fixed == SymlinkMember(PROG_FILENAME, job.prog)
             interp == SymlinkMember(INTERP_FILENAME, job.interp.name)
             one == Append(members, prog)
             two == Append(one, fixed)
             three == Append(two, interp)
  <2>1. prog \in MemberType /\ fixed \in MemberType /\ interp \in MemberType /\ members' = three
    BY <1>6, ProgramMembers
  <2> HIDE DEF prog, fixed, interp
  <2>2. one \in Seq(MemberType) /\ Extends(members, one)
    BY <1>1, <1>2, <2>1
  <2> HIDE DEF one
  <2>3. two \in Seq(MemberType) /\ Extends(one, two)
    BY <1>2, <2>1, <2>2
  <2> HIDE DEF two
  <2>4. three \in Seq(MemberType) /\ Extends(two, three)
    BY <1>2, <2>1, <2>3
  <2> HIDE DEF three
  <2>5. Extends(members, two)
    BY <1>1, <1>3, <2>2, <2>3
  <2>6. Extends(members, three)
    BY <1>1, <1>3, <2>3, <2>4, <2>5
  <2>7. QED
    BY <1>1, <2>1, <2>6 DEF Extends
<1>7. CASE FollowSymlink /\ members' = Append(members, SymlinkMember(lib.path.name, Node.to.name))
  <2>1. SymlinkMember(lib.path.name, Node.to.name) \in MemberType
    BY <1>7, LinkMember
  <2>2. QED
    BY <1>1, <1>2, <1>7, <2>1 DEF Extends
<1>8. CASE StoreLibrary
  <2>1. Member \in MemberType /\ members' = Append(members, Member)
    BY <1>8, StoredMember
  <2>2. QED
    BY <1>1, <1>2, <2>1 DEF Extends
<1>9. QED
  BY <1>4, <1>5, <1>6, <1>7, <1>8, MembersGrow

\* The invariant is about generations that have not failed, and those have not before.
LEMMA NotFailed ==
  ASSUME TypeOK, InOrder, [Next]_vars, (Working \/ result = "ok")'
  PROVE  (Working \/ result = "ok") /\ job' = job /\ ~Failure /\ ~LibraryMissing
<1> USE DEF Working, archive, files, Goto, Raise, AddLibraries
<1>1. ASSUME Failure
      PROVE  (Working \/ result = "ok") /\ job' = job
  BY <1>1 DEF Failure, MoveByCopy, CleanupError, Fail
<1>2. ASSUME MakeTmpdir \/ MakeArchive \/ CopyBootloader \/ CopyProgram \/ FixupProg
             \/ PyInstallHook \/ ProcessGlibcProg \/ AddProgram
      PROVE  (Working \/ result = "ok") /\ job' = job
  BY <1>2 DEF MakeTmpdir, MakeArchive, CopyBootloader, CopyProgram, CopyToTempfile, FixupProg,
     PyInstallHook, ProcessGlibcProg, AddProgram
<1>3. ASSUME LibrariesDone \/ LibraryPacked \/ LibraryExists \/ AddLibrary
      PROVE  (Working \/ result = "ok") /\ job' = job
  BY <1>3 DEF LibrariesDone, LibraryPacked, LibraryExists, AddLibrary
<1>4. ASSUME FollowSymlink \/ LibraryMissing \/ AuditLibrary \/ StripLibrary \/ StoreLibrary
      PROVE  (Working \/ result = "ok") /\ job' = job
  BY <1>4 DEF FollowSymlink, LibraryMissing, AuditLibrary, StripLibrary, StoreLibrary
<1>5. ASSUME AppendArchive \/ MoveFile \/ Cleanup
      PROVE  (Working \/ result = "ok") /\ job' = job
  BY <1>5 DEF AppendArchive, MoveFile, Cleanup
<1>6. ASSUME UNCHANGED vars
      PROVE  (Working \/ result = "ok") /\ job' = job
  BY <1>6 DEF vars
<1>7. (Working \/ result = "ok") /\ job' = job
  BY <1>1, <1>2, <1>3, <1>4, <1>5, <1>6 DEF Next, Generate, AddLibraryStep, Over
<1>8. ~Failure
  BY DEF Failure, MoveByCopy, CleanupError, Fail
<1>9. ~LibraryMissing
  BY DEF LibraryMissing
<1>10. QED
  BY <1>7, <1>8, <1>9

\* Every path of a list waits to be added when its requests are queued.
LEMMA RequestsWait ==
  ASSUME NEW paths \in Seq(Paths), NEW ok, queue' = Requests(paths, ok), NEW p \in Rng(paths)
  PROVE  Waiting(p)'
<1>1. PICK k \in DOMAIN paths : p = paths[k]
  BY DEF Rng
<1>2. k \in DOMAIN Requests(paths, ok) /\ Requests(paths, ok)[k].path = p
  BY <1>1 DEF Requests
<1>3. QED
  BY <1>2 DEF Waiting

\* When the queue is empty and no library on its way, what was got is in the archive.
LEMMA NothingWaits ==
  ASSUME queue = <<>>, ~Chaining, NEW p, NEW phase, Got(p, phase)
  PROVE  p.name \in added
BY DEF Got, Waiting

\* What waits, waits in the queue's tail unless it is its head.
LEMMA TailWaits ==
  ASSUME queue \in Seq(Request), queue # <<>>, queue' = Tail(queue), ~Chaining, NEW p, Waiting(p)
  PROVE  p = Head(queue).path \/ Waiting(p)'
<1>1. PICK k \in DOMAIN queue : queue[k].path = p
  BY DEF Waiting
<1>2. CASE k = 1
  BY <1>1, <1>2
<1>3. CASE k # 1
  <2>1. k - 1 \in DOMAIN Tail(queue) /\ Tail(queue)[k - 1] = queue[k]
    BY <1>3
  <2>2. QED
    BY <1>1, <2>1 DEF Waiting
<1>4. QED
  BY <1>2, <1>3

\* Within a phase what waits goes on waiting or is got.
LEMMA PhaseGoesOn ==
  ASSUME TypeOK, Phases, [Next]_vars, job' = job, then' = then, added \subseteq added',
         pc' \notin {"mkdtemp", "archive"} => pc \notin {"mkdtemp", "archive"},
         \A p : Waiting(p) =>
           Waiting(p)' \/ p.name \in added' \/ (then = "glibc" /\ p.name \in job.packed),
         (pc # "libraries" /\ ~Chaining => queue = <<>>)',
         (pc = "program" /\ job.glibc => then = "program")',
         (pc \in {"objcopy", "move"} \/ result = "ok" => then = "objcopy")'
  PROVE  Phases'
<1>1. ASSUME NEW p, NEW phase, Got(p, phase), phase # "glibc"
      PROVE  Got(p, phase)'
  BY <1>1 DEF Got
<1>2. ASSUME NEW p, Got(p, "glibc")
      PROVE  p.name \in job.packed \/ Got(p, "glibc")'
  BY <1>2 DEF Got
<1>3. pc' \notin {"mkdtemp", "archive"} => \A p \in Rng(job.cli) : Got(p, "bootloader")'
  BY <1>1 DEF Phases
<1>4. then \in {"glibc", "program", "objcopy"} =>
        \A p \in Rng(job.binaryDeps) : p.name \in job.packed \/ Got(p, "glibc")'
  BY <1>2 DEF Phases
<1>5. then \in {"program", "objcopy"} /\ job.glibc => \A p \in Rng(job.nss) : Got(p, "program")'
  BY <1>1 DEF Phases
<1>6. then = "objcopy" => \A p \in Rng(job.deps) : Got(p, "objcopy")'
  BY <1>1 DEF Phases
<1>7. then = "objcopy" =>
        \E i \in DOMAIN members' : members'[i] = SymlinkMember(INTERP_FILENAME, job.interp.name)
  BY ArchiveGrows DEF Phases
<1>8. QED
  BY <1>3, <1>4, <1>5, <1>6, <1>7, SMTT(30) DEF Phases

\* What the audit and strip make of the libpath: it names the same file, told by its
\* inode.
LEMMA AuditedLib ==
  ASSUME TypeOK, AuditLibrary
  PROVE  /\ pc' = "strip" /\ lib'.path = lib.path /\ lib'.inode = job.nodes[lib.path].inode
         /\ lib.path \in DOMAIN job.nodes /\ job.nodes[lib.path].kind = "file"
<1> DEFINE found == Found(lib, Node.inode, job.tags[Node.inode])
<1>1. lib \in LibType /\ lib.path \in DOMAIN job.nodes /\ IsJob(job)
  BY DEF AuditLibrary, TypeOK, LibType
<1>2. job.nodes[lib.path].kind = "file" /\ Node.inode \in Inodes
  BY <1>1, JobFacts DEF AuditLibrary, IsLink, Node, NodeType
<1>3. found \in LibType /\ found.path = lib.path /\ found.inode = Node.inode
  <2>1. job.tags[Node.inode] \in Tags
    BY <1>1, <1>2, JobFacts
  <2>2. QED
    BY <1>1, <1>2, <2>1, LibFacts DEF Found, LibType
<1>4. lib' = IF ~Unsupported(job.tags[Node.inode], FALSE) THEN found
             ELSE [WorkOnCopy(found) EXCEPT !.tags = NoTags]
  BY DEF AuditLibrary, Found
<1> HIDE DEF found
<1>5. lib'.path = lib.path /\ lib'.inode = Node.inode
  BY <1>3, <1>4 DEF WorkOnCopy, LibType
<1>6. QED
  BY <1>1, <1>2, <1>5 DEF AuditLibrary, Goto, Node

\* ... and so does what strip makes of it.
LEMMA StrippedLib ==
  ASSUME TypeOK, StripLibrary
  PROVE  pc' = "store" /\ lib'.path = lib.path /\ lib'.inode = lib.inode
<1>1. lib \in LibType
  BY DEF TypeOK, LibType
<1>2. QED
  BY <1>1 DEF StripLibrary, WorkOnCopy, LibType, Goto

\* The steps between the phases.
LEMMA PhaseBegins ==
  ASSUME TypeOK, InOrder, Phases, [Next]_vars,
         MakeArchive \/ PyInstallHook \/ (ProcessGlibcProg /\ job.glibc) \/ AddProgram,
         Working'
  PROVE  Phases'
<1> USE DEF AddLibraries, Goto, Raise, files, archive
<1>1. /\ job' = job /\ added' = added /\ pc' = "libraries" /\ result' = result /\ result = "none"
      /\ queue = <<>> /\ ~Chaining
  BY DEF MakeArchive, PyInstallHook, ProcessGlibcProg, AddProgram, Phases, Chaining, InOrder, Working
<1>2. IsJob(job)
  BY DEF TypeOK
<1>3. ASSUME NEW p, NEW phase, NEW next, Got(p, phase) PROVE Got(p, next)'
  BY <1>1, <1>3, NothingWaits DEF Got
<1>4. CASE MakeArchive
  <2>1. then' = "bootloader" /\ queue' = Requests(job.cli, FALSE)
    BY <1>4 DEF MakeArchive
  <2>2. \A p \in Rng(job.cli) : Got(p, "bootloader")'
    BY <1>2, <2>1, JobFacts, RequestsWait DEF Got
  <2>3. QED
    BY <1>1, <2>1, <2>2 DEF Phases
<1>5. CASE PyInstallHook
  <2>1. then' = "glibc" /\ queue' = Requests(job.binaryDeps, TRUE) /\ pc = "hook"
    BY <1>1, <1>5 DEF PyInstallHook
  <2>2. \A p \in Rng(job.binaryDeps) : Got(p, "glibc")'
    BY <1>2, <2>1, JobFacts, RequestsWait DEF Got
  <2>3. \A p \in Rng(job.cli) : Got(p, "bootloader")'
    BY <1>3, <2>1 DEF Phases
  <2>4. QED
    BY <1>1, <2>1, <2>2, <2>3 DEF Phases
<1>6. CASE ProcessGlibcProg /\ job.glibc
  <2>1. then' = "program" /\ queue' = Requests(job.nss, TRUE) /\ pc = "glibc" /\ then = "glibc"
    BY <1>1, <1>6 DEF ProcessGlibcProg, InOrder
  <2>2. \A p \in Rng(job.nss) : Got(p, "program")'
    BY <1>2, <2>1, JobFacts, RequestsWait DEF Got
  <2>3. /\ \A p \in Rng(job.cli) : Got(p, "bootloader")'
        /\ \A p \in Rng(job.binaryDeps) : p.name \in job.packed \/ Got(p, "glibc")'
    BY <1>3, <2>1 DEF Phases
  <2>4. QED
    BY <1>1, <2>1, <2>2, <2>3 DEF Phases
<1>7. CASE AddProgram
  <2>1. /\ then' = "objcopy" /\ queue' = Requests(job.deps, TRUE) /\ pc = "program"
        /\ then \in {"glibc", "program"}
    BY <1>1, <1>7 DEF AddProgram, InOrder
  <2>2. \A p \in Rng(job.deps) : Got(p, "objcopy")'
    BY <1>2, <2>1, JobFacts, RequestsWait DEF Got
  <2>3. /\ \A p \in Rng(job.cli) : Got(p, "bootloader")'
        /\ \A p \in Rng(job.binaryDeps) : p.name \in job.packed \/ Got(p, "glibc")'
        /\ job.glibc => \A p \in Rng(job.nss) : Got(p, "program")'
    BY <1>3, <2>1 DEF Phases
  <2>4. \E i \in DOMAIN members' : members'[i] = SymlinkMember(INTERP_FILENAME, job.interp.name)
    <3> DEFINE prog == FileMember(job.prog, None, TRUE, NoTags)
               fixed == SymlinkMember(PROG_FILENAME, job.prog)
               interp == SymlinkMember(INTERP_FILENAME, job.interp.name)
               two == Append(Append(members, prog), fixed)
    <3>1. /\ prog \in MemberType /\ fixed \in MemberType /\ interp \in MemberType
          /\ members' = Append(two, interp)
      BY <1>7, ProgramMembers
    <3> HIDE DEF prog, fixed, interp
    <3>2. two \in Seq(MemberType)
      <4>1. members \in Seq(MemberType)
        BY DEF TypeOK
      <4>2. Append(members, prog) \in Seq(MemberType)
        BY <3>1, <4>1
      <4>3. QED
        BY <3>1, <4>2
    <3> HIDE DEF two
    <3>3. Len(two) + 1 \in DOMAIN Append(two, interp) /\ Append(two, interp)[Len(two) + 1] = interp
      BY <3>1, <3>2, AppendFacts
    <3>4. \E i \in DOMAIN members' : members'[i] = interp
      BY <3>1, <3>3
    <3>5. QED
      BY <3>4 DEF interp
  <2>5. QED
    BY <1>1, <2>1, <2>2, <2>3, <2>4 DEF Phases
<1>8. QED
  BY <1>4, <1>5, <1>6, <1>7

\* The lists are seen to in their order, each to its end.
LEMMA PhasesNext ==
  ASSUME TypeOK, InOrder, Phases, [Next]_vars, (Working \/ result = "ok")'
  PROVE  Phases'
<1> USE DEF archive, files, Goto, Raise, AddLibraries
<1>1. (Working \/ result = "ok") /\ job' = job /\ ~Failure /\ ~LibraryMissing
  BY NotFailed
<1>2. queue \in Seq(Request)
  BY DEF TypeOK, Request
<1>3. CASE MakeArchive \/ PyInstallHook \/ (ProcessGlibcProg /\ job.glibc) \/ AddProgram
  <2>1. Working'
    BY <1>3 DEF MakeArchive, PyInstallHook, ProcessGlibcProg, AddProgram, Working, InOrder
  <2>2. QED
    BY <1>3, <2>1, PhaseBegins
<1>4. CASE \/ MakeTmpdir \/ CopyBootloader \/ CopyProgram \/ FixupProg
           \/ (ProcessGlibcProg /\ ~job.glibc) \/ AppendArchive \/ MoveFile \/ Cleanup
           \/ UNCHANGED vars
  <2>1. /\ then' = then /\ queue' = queue /\ lib' = lib /\ added' = added
        /\ (Chaining' <=> Chaining) /\ (pc' = "libraries" <=> pc = "libraries")
        /\ pc' \notin {"mkdtemp", "archive"} => pc \notin {"mkdtemp", "archive"}
    <3>1. CASE MakeTmpdir \/ FixupProg \/ AppendArchive \/ MoveFile \/ Cleanup
      BY <3>1 DEF MakeTmpdir, FixupProg, AppendArchive, MoveFile, Cleanup, Chaining
    <3>2. CASE CopyBootloader \/ CopyProgram
      BY <1>1, <3>2 DEF CopyBootloader, CopyProgram, CopyToTempfile, Chaining, Working
    <3>3. CASE ProcessGlibcProg /\ ~job.glibc
      BY <3>3 DEF ProcessGlibcProg, Chaining
    <3>4. CASE UNCHANGED vars
      BY <3>4 DEF vars, Chaining
    <3>5. QED
      BY <1>4, <3>1, <3>2, <3>3, <3>4
  <2>2. /\ pc' = "program" /\ job.glibc => pc = "program"
        /\ pc' \in {"objcopy", "move"} \/ result' = "ok" => pc \in {"objcopy", "move"} \/ result = "ok"
    <3>1. CASE MakeTmpdir \/ FixupProg \/ AppendArchive \/ MoveFile \/ Cleanup
      BY <3>1 DEF MakeTmpdir, FixupProg, AppendArchive, MoveFile, Cleanup
    <3>2. CASE CopyBootloader \/ CopyProgram
      BY <3>2 DEF CopyBootloader, CopyProgram, CopyToTempfile
    <3>3. CASE ProcessGlibcProg /\ ~job.glibc
      BY <3>3 DEF ProcessGlibcProg
    <3>4. CASE UNCHANGED vars
      BY <3>4 DEF vars
    <3>5. QED
      BY <1>4, <3>1, <3>2, <3>3, <3>4
  <2>3. \A p : Waiting(p) => Waiting(p)'
    BY <2>1 DEF Waiting
  <2>4. (pc # "libraries" /\ ~Chaining => queue = <<>>)'
    BY <2>1 DEF Phases
  <2>5. /\ (pc = "program" /\ job.glibc => then = "program")'
        /\ (pc \in {"objcopy", "move"} \/ result = "ok" => then = "objcopy")'
    BY <1>1, <2>1, <2>2 DEF Phases
  <2>6. added \subseteq added'
    BY <2>1
  <2>7. QED
    BY <1>1, <2>1, <2>3, <2>4, <2>5, <2>6, PhaseGoesOn
<1>5. CASE LibrariesDone
  <2>1. /\ then' = then /\ queue = <<>> /\ queue' = <<>> /\ added' = added /\ pc' = then
        /\ pc = "libraries" /\ result' = result /\ ~Chaining
    BY <1>5 DEF LibrariesDone, Chaining
  <2>2. \A p : ~Waiting(p)
    BY <2>1 DEF Waiting
  <2>3. then \in {"bootloader", "glibc", "program", "objcopy"} /\ result = "none"
    BY <2>1 DEF TypeOK, InOrder, Working
  <2>4. (pc # "libraries" /\ ~Chaining => queue = <<>>)'
    BY <2>1
  <2>5. /\ (pc = "program" /\ job.glibc => then = "program")'
        /\ (pc \in {"objcopy", "move"} \/ result = "ok" => then = "objcopy")'
    BY <2>1, <2>3
  <2>6. added \subseteq added' /\ (pc' \notin {"mkdtemp", "archive"} => pc \notin {"mkdtemp", "archive"})
    BY <2>1
  <2>7. QED
    BY <1>1, <2>1, <2>2, <2>4, <2>5, <2>6, PhaseGoesOn
<1>6. CASE LibraryPacked \/ LibraryExists \/ AddLibrary
  <2>1. /\ then' = then /\ pc = "libraries" /\ queue # <<>> /\ queue' = Tail(queue) /\ added' = added
        /\ pc' \in {"libraries", "symlinks"} /\ ~Chaining /\ result' = result
    BY <1>6 DEF LibraryPacked, LibraryExists, AddLibrary, Chaining, Working
  <2>2. \/ then = "glibc" /\ Head(queue).path.name \in job.packed
        \/ Head(queue).path.name \in added'
        \/ Chaining' /\ lib'.path = Head(queue).path
    <3>1. CASE LibraryPacked
      BY <3>1 DEF LibraryPacked, IsPacked
    <3>2. CASE LibraryExists
      BY <3>2, <2>1 DEF LibraryExists
    <3>3. CASE AddLibrary
      <4>1. lib' = [NoLib EXCEPT !.path = Head(queue).path] /\ pc' = "symlinks"
        BY <3>3 DEF AddLibrary
      <4>2. lib'.path = Head(queue).path
        BY <4>1 DEF NoLib
      <4>3. QED
        BY <4>1, <4>2 DEF Chaining
    <3>4. QED
      BY <1>6, <3>1, <3>2, <3>3
  <2>3. ASSUME NEW p, Waiting(p)
        PROVE  Waiting(p)' \/ p.name \in added' \/ (then = "glibc" /\ p.name \in job.packed)
    <3>1. p = Head(queue).path \/ Waiting(p)'
      BY <1>2, <2>1, <2>3, TailWaits
    <3>2. CASE p = Head(queue).path
      BY <2>2, <3>2 DEF Waiting
    <3>3. QED
      BY <3>1, <3>2
  <2>4. result' = "none"
    BY <2>1 DEF InOrder, Working
  <2>5. /\ (pc # "libraries" /\ ~Chaining => queue = <<>>)'
        /\ (pc = "program" /\ job.glibc => then = "program")'
        /\ (pc \in {"objcopy", "move"} \/ result = "ok" => then = "objcopy")'
    BY <2>1, <2>4 DEF Chaining
  <2>6. added \subseteq added' /\ (pc' \notin {"mkdtemp", "archive"} => pc \notin {"mkdtemp", "archive"})
    BY <2>1
  <2>7. QED
    BY <1>1, <2>1, <2>3, <2>5, <2>6, PhaseGoesOn
<1>7. CASE FollowSymlink \/ AuditLibrary \/ StripLibrary \/ StoreLibrary
  <2>1. /\ then' = then /\ queue' = queue /\ added \subseteq added' /\ Chaining
        /\ pc' \in {"symlinks", "strip", "store", "libraries"} /\ result' = result /\ Working
    <3>1. CASE FollowSymlink
      BY <1>1, <3>1 DEF FollowSymlink, Chaining, Working
    <3>2. CASE AuditLibrary \/ StripLibrary
      BY <1>1, <3>2 DEF AuditLibrary, StripLibrary, Chaining, Working
    <3>3. CASE StoreLibrary
      BY <1>1, <3>3 DEF StoreLibrary, Chaining, Working
    <3>4. QED
      BY <1>7, <3>1, <3>2, <3>3
  <2>2. lib.path.name \in added' \/ (Chaining' /\ lib'.path.name = lib.path.name)
    <3>1. CASE FollowSymlink
      <4>1. lib.path.name = Node.to.name \/ lib.path.name \in added'
        BY <1>1, <3>1 DEF FollowSymlink, Working
      <4>2. lib' = [lib EXCEPT !.path = Node.to] /\ lib \in LibType
        BY <3>1 DEF FollowSymlink, TypeOK, LibType
      <4>3. lib'.path = Node.to
        BY <4>2 DEF LibType
      <4>4. lib.path.name = Node.to.name => pc' = "symlinks"
        BY <3>1 DEF FollowSymlink
      <4>5. QED
        BY <4>1, <4>3, <4>4 DEF Chaining
    <3>2. CASE AuditLibrary
      <4>1. lib'.path = lib.path /\ pc' = "strip"
        BY <3>2, AuditedLib
      <4>2. QED
        BY <4>1 DEF Chaining
    <3>3. CASE StripLibrary
      <4>1. lib'.path = lib.path /\ pc' = "store"
        BY <3>3, StrippedLib
      <4>2. QED
        BY <4>1 DEF Chaining
    <3>4. CASE StoreLibrary
      BY <1>1, <3>4 DEF StoreLibrary, Working
    <3>5. QED
      BY <1>7, <3>1, <3>2, <3>3, <3>4
  <2>3. ASSUME NEW p, Waiting(p) PROVE Waiting(p)' \/ p.name \in added'
    BY <2>1, <2>2, <2>3 DEF Waiting
  <2>4. result' = "none"
    BY <2>1 DEF InOrder
  <2>5. /\ (pc # "libraries" /\ ~Chaining => queue = <<>>)'
        /\ (pc = "program" /\ job.glibc => then = "program")'
        /\ (pc \in {"objcopy", "move"} \/ result = "ok" => then = "objcopy")'
        /\ pc \notin {"mkdtemp", "archive"}
    BY <2>1, <2>4 DEF Chaining
  <2>6. QED
    BY <1>1, <2>1, <2>3, <2>5, PhaseGoesOn
<1>8. CASE AddLibraryStep
  BY <1>1, <1>5, <1>6, <1>7, <1>8 DEF AddLibraryStep
<1>9. CASE ProcessGlibcProg
  BY <1>3, <1>4, <1>9
<1>10. CASE Generate
  <2>1. CASE MakeTmpdir \/ CopyBootloader \/ CopyProgram \/ FixupProg
    BY <1>4, <2>1
  <2>2. CASE AppendArchive \/ MoveFile \/ Cleanup
    BY <1>4, <2>2
  <2>3. CASE MakeArchive \/ PyInstallHook \/ AddProgram
    BY <1>3, <2>3
  <2>4. QED
    BY <1>8, <1>9, <1>10, <2>1, <2>2, <2>3 DEF Generate
<1>11. QED
  BY <1>1, <1>4, <1>10 DEF Next, Over

-----------------------------------------------------------------------------
(* Every link and library in its place.                                    *)

\* The host does not change.
LEMMA HostStays ==
  ASSUME job' = job, NEW p
  PROVE  HostFile(p)' = HostFile(p)
BY DEF HostFile

\* A chain is as long as it was, whatever comes after it.
LEMMA ChainStays ==
  ASSUME TypeOK, [Next]_vars, NEW i, i \in DOMAIN members, NEW l, l \in i..Len(members), Chain(i, l)
  PROVE  Chain(i, l)'
<1>1. ASSUME NEW k \in i..(l - 1)
      PROVE  Linked(k)' /\ members'[k + 1].name = members'[k].to
  <2>1. k \in DOMAIN members /\ k + 1 \in DOMAIN members
    BY ArchiveGrows
  <2>2. members'[k] = members[k] /\ members'[k + 1] = members[k + 1]
    BY <2>1, ArchiveGrows
  <2>3. Linked(k) /\ members[k + 1].name = members[k].to
    BY DEF Chain
  <2>4. QED
    BY <2>2, <2>3 DEF Linked
<1>2. QED
  BY <1>1 DEF Chain

\* A member that is settled stays so.
LEMMA SettledStays ==
  ASSUME TypeOK, [Next]_vars, job' = job, NEW i, i \in DOMAIN members, Settled(i)
  PROVE  Settled(i)'
<1>1. PICK l \in i..Len(members), q \in DOMAIN job.nodes :
        /\ Chain(i, l) /\ Gives(l, HostFile(q))
        /\ q.name = members[i].name /\ HostFile(q) # None
  BY DEF Settled
<1>2. /\ members \in Seq(MemberType) /\ members' \in Seq(MemberType) /\ Len(members) <= Len(members')
      /\ \A k \in DOMAIN members : k \in DOMAIN members' /\ members'[k] = members[k]
  BY ArchiveGrows
<1>3. l \in i..Len(members') /\ l \in DOMAIN members
  BY <1>2
<1>4. Chain(i, l)'
  BY <1>1, ChainStays
<1>5. Gives(l, HostFile(q))'
  <2>1. HostFile(q)' = HostFile(q)
    BY HostStays
  <2>2. CASE members[l].kind = "file" /\ members[l].inode = HostFile(q)
    BY <1>2, <1>3, <2>1, <2>2 DEF Gives
  <2>3. CASE members[l].kind = "hardlink"
    <3>1. PICK j \in DOMAIN members : /\ members[j].kind = "file" /\ members[j].inode = HostFile(q)
                                      /\ members[j].name = members[l].to
      BY <1>1, <2>3 DEF Gives
    <3>2. j \in DOMAIN members' /\ members'[j] = members[j] /\ members'[l] = members[l]
      BY <1>2, <1>3
    <3>3. QED
      BY <2>1, <2>3, <3>1, <3>2 DEF Gives
  <2>4. QED
    BY <1>1, <2>2, <2>3 DEF Gives
<1>6. q \in DOMAIN job'.nodes /\ q.name = members'[i].name /\ HostFile(q)' # None
  BY <1>1, <1>2, HostStays
<1>7. QED
  BY <1>3, <1>4, <1>5, <1>6 DEF Settled

\* What was audited is what the links led to.
LEMMA LibFoundNext ==
  ASSUME TypeOK, LibFound, [Next]_vars, job' = job
  PROVE  LibFound'
<1> USE DEF Goto, Raise, AddLibraries
<1>1. CASE AuditLibrary
  BY <1>1, AuditedLib DEF LibFound
<1>2. CASE StripLibrary
  BY <1>2, StrippedLib DEF LibFound, StripLibrary
<1>3. CASE LibrariesDone \/ LibraryPacked \/ LibraryExists \/ AddLibrary \/ FollowSymlink
           \/ LibraryMissing \/ StoreLibrary
  BY <1>3 DEF LibrariesDone, LibraryPacked, LibraryExists, AddLibrary, FollowSymlink,
     LibraryMissing, StoreLibrary, TypeOK, LibFound
<1>4. CASE MakeTmpdir \/ MakeArchive \/ CopyBootloader \/ CopyProgram \/ FixupProg
           \/ PyInstallHook \/ ProcessGlibcProg \/ AddProgram
  BY <1>4 DEF MakeTmpdir, MakeArchive, CopyBootloader, CopyProgram, CopyToTempfile, FixupProg,
     PyInstallHook, ProcessGlibcProg, AddProgram, LibFound
<1>5. CASE AppendArchive \/ MoveFile \/ Cleanup \/ Failure
  BY <1>5 DEF AppendArchive, MoveFile, Cleanup, Failure, MoveByCopy, CleanupError, Fail, LibFound
<1>6. CASE UNCHANGED vars
  BY <1>6 DEF vars, LibFound
<1>7. QED
  BY <1>1, <1>2, <1>3, <1>4, <1>5, <1>6 DEF Next, Generate, AddLibraryStep, Over

\* What becomes of _added_libs: a link or a library gives it the name of the member that
\* it appends.
LEMMA AddedGrows ==
  ASSUME TypeOK, InOrder, [Next]_vars, (Working \/ result = "ok")'
  PROVE  \/ /\ UNCHANGED <<members, added>>
            /\ Chaining => Chaining' /\ (UNCHANGED lib \/ AuditLibrary \/ StripLibrary \/ FollowSymlink)
         \/ UNCHANGED added /\ ~Chaining /\ (ProcessGlibcProg \/ AddProgram)
         \/ /\ FollowSymlink \/ StoreLibrary
            /\ lib.path.name \notin added /\ added' = added \cup {lib.path.name}
<1> USE DEF archive, files, Goto, Raise, AddLibraries
<1>1. CASE Failure \/ LibraryMissing
  BY <1>1, NotFailed
<1>2. CASE MakeTmpdir \/ MakeArchive \/ FixupProg \/ PyInstallHook \/ AppendArchive \/ MoveFile
           \/ Cleanup
  BY <1>2 DEF MakeTmpdir, MakeArchive, FixupProg, PyInstallHook, AppendArchive, MoveFile, Cleanup,
     Chaining
<1>3. CASE CopyBootloader \/ CopyProgram
  BY <1>3 DEF CopyBootloader, CopyProgram, CopyToTempfile, Chaining
<1>4. CASE ProcessGlibcProg \/ AddProgram
  BY <1>4 DEF ProcessGlibcProg, AddProgram, Chaining
<1>5. CASE LibrariesDone \/ LibraryPacked \/ LibraryExists \/ AddLibrary
  BY <1>5 DEF LibrariesDone, LibraryPacked, LibraryExists, AddLibrary, Chaining
<1>6. CASE AuditLibrary \/ StripLibrary
  BY <1>6 DEF AuditLibrary, StripLibrary, Chaining
<1>7. CASE FollowSymlink
  <2>1. result = "none" /\ pc = "symlinks"
    BY <1>7 DEF FollowSymlink, InOrder, Working
  <2>2. CASE lib.path.name = Node.to.name
    BY <1>7, <2>1, <2>2 DEF FollowSymlink, Chaining
  <2>3. CASE lib.path.name # Node.to.name
    BY <1>7, <2>1, <2>3 DEF FollowSymlink, Working
  <2>4. QED
    BY <2>2, <2>3
<1>8. CASE StoreLibrary
  BY <1>8 DEF StoreLibrary, Working
<1>9. CASE UNCHANGED vars
  BY <1>9 DEF vars, Chaining
<1>10. QED
  BY <1>1, <1>2, <1>3, <1>4, <1>5, <1>6, <1>7, <1>8, <1>9 DEF Next, Generate, AddLibraryStep, Over

\* The names in _added_libs are those of members.
LEMMA ListedNext ==
  ASSUME TypeOK, InOrder, Listed, [Next]_vars, (Working \/ result = "ok")'
  PROVE  Listed'
<1>1. ASSUME NEW name \in added PROVE \E i \in DOMAIN members' : members'[i].name = name
  BY ArchiveGrows DEF Listed
<1>2. CASE UNCHANGED added
  BY <1>1, <1>2 DEF Listed
<1>3. CASE /\ FollowSymlink \/ StoreLibrary
           /\ lib.path.name \notin added /\ added' = added \cup {lib.path.name}
  <2>1. \E m \in MemberType : m.name = lib.path.name /\ members' = Append(members, m)
    <3>1. CASE StoreLibrary
      BY <3>1, StoredMember
    <3>2. CASE FollowSymlink
      <4> DEFINE m == SymlinkMember(lib.path.name, Node.to.name)
      <4>1. m \in MemberType /\ m.name = lib.path.name
        BY <3>2, LinkMember DEF SymlinkMember
      <4>2. members' = Append(members, m)
        BY <1>3, <3>2 DEF FollowSymlink, archive
      <4> HIDE DEF m
      <4>3. QED
        BY <4>1, <4>2
    <3>3. QED
      BY <1>3, <3>1, <3>2
  <2>2. PICK m \in MemberType : m.name = lib.path.name /\ members' = Append(members, m)
    BY <2>1
  <2>3. members \in Seq(MemberType)
    BY DEF TypeOK
  <2>4. Len(members) + 1 \in DOMAIN members' /\ members'[Len(members) + 1] = m
    BY <2>2, <2>3, AppendFacts
  <2>5. QED
    BY <1>1, <1>3, <2>2, <2>4 DEF Listed
<1>4. QED
  BY <1>2, <1>3, AddedGrows

\* Where the path leads that the libpath has got.
LEMMA HostOfLibStays ==
  ASSUME job' = job, NEW p, lib'.path = p
  PROVE  HostFile(lib.path)' = HostFile(p)
BY DEF HostFile

\* A link that was on its way to a path is on its way to what has that path's name, and
\* leads to the same file.
LEMMA StaysOnTheWay ==
  ASSUME TypeOK, [Next]_vars, job' = job, UNCHANGED members, Chaining',
         NEW p, lib'.path = p, p.name = lib.path.name,
         HostFile(p) # None => HostFile(lib.path) = HostFile(p),
         NEW i, i \in DOMAIN members, OnTheWay(i)
  PROVE  OnTheWay(i)'
<1>1. PICK q \in DOMAIN job.nodes :
        /\ q.name = members[i].name
        /\ HostFile(lib.path) # None => HostFile(q) = HostFile(lib.path)
  BY DEF OnTheWay
<1>2. HostFile(q)' = HostFile(q) /\ HostFile(lib.path)' = HostFile(p)
  BY HostStays, HostOfLibStays
<1>3. q \in DOMAIN job'.nodes /\ q.name = members'[i].name
  BY <1>1
<1>4. HostFile(lib.path)' # None => HostFile(q)' = HostFile(lib.path)'
  BY <1>1, <1>2
<1>5. Chain(i, Len(members))'
  BY DEF OnTheWay, Chain, Linked
<1>6. Linked(Len(members))' /\ members'[Len(members')].to = lib'.path.name
  BY DEF OnTheWay, Linked
<1>7. QED
  BY <1>3, <1>4, <1>5, <1>6 DEF OnTheWay

\* When a member is appended that has the name of the libpath, what was on its way gets a
\* step further.
LEMMA ChainGrows ==
  ASSUME members \in Seq(MemberType), NEW m \in MemberType, members' = Append(members, m),
         m.name = lib.path.name, NEW i, i \in DOMAIN members, OnTheWay(i)
  PROVE  Chain(i, Len(members))' /\ Len(members') = Len(members) + 1 /\ i \in 1..Len(members)
<1>1. Chain(i, Len(members)) /\ Linked(Len(members)) /\ members[Len(members)].to = m.name
  BY DEF OnTheWay
<1>2. /\ Len(members') = Len(members) + 1 /\ members'[Len(members) + 1] = m
      /\ \A k \in 1..Len(members) : members'[k] = members[k]
      /\ i \in 1..Len(members) /\ Len(members) \in Nat
  OBVIOUS
<1>3. ASSUME NEW k \in i..(Len(members') - 1)
      PROVE  Linked(k)' /\ members'[k + 1].name = members'[k].to
  <2>1. k \in 1..Len(members)
    BY <1>2
  <2>2. CASE k = Len(members)
    BY <1>1, <1>2, <2>1, <2>2 DEF Linked
  <2>3. CASE k # Len(members)
    <3>1. k \in i..(Len(members) - 1) /\ k + 1 \in 1..Len(members)
      BY <1>2, <2>1, <2>3
    <3>2. Linked(k) /\ members[k + 1].name = members[k].to
      BY <1>1, <3>1 DEF Chain
    <3>3. QED
      BY <1>2, <2>1, <3>1, <3>2 DEF Linked
  <2>4. QED
    BY <2>2, <2>3
<1>4. QED
  BY <1>2, <1>3 DEF Chain

\* What a link appends to the archive is on its way, like all that was.
LEMMA LinkOnTheWay ==
  ASSUME TypeOK, [Next]_vars, job' = job, FollowSymlink, Chaining',
         members' = Append(members, SymlinkMember(lib.path.name, Node.to.name)),
         NEW i, i \in DOMAIN members', i \in DOMAIN members => OnTheWay(i)
  PROVE  OnTheWay(i)'
<1> DEFINE m == SymlinkMember(lib.path.name, Node.to.name)
<1>1. PICK p, q : p = Node.to /\ q = lib.path
  OBVIOUS
<1>2. /\ m \in MemberType /\ m.name = q.name /\ m.kind = "symlink" /\ m.to = p.name
      /\ q.name \in PathNames
  BY <1>1, LinkMember, NameFacts DEF SymlinkMember
<1>3. q \in DOMAIN job.nodes /\ job.nodes[q].kind = "symlink" /\ job.nodes[q].to = p /\ IsJob(job)
  BY <1>1 DEF FollowSymlink, IsLink, Node, TypeOK
<1>4. lib'.path = p
  <2>1. lib' = [lib EXCEPT !.path = Node.to] /\ lib \in LibType
    BY DEF FollowSymlink, TypeOK, LibType
  <2>2. QED
    BY <1>1, <2>1 DEF LibType
<1>5. members' = Append(members, m) /\ members \in Seq(MemberType)
  BY DEF TypeOK
<1>6. HostFile(p) # None => HostFile(q) = HostFile(p)
  BY <1>3, HostFileOfLink
<1> HIDE DEF m
<1>7. PICK n \in Nat : n = Len(members) + 1
  BY <1>5
<1>8. Len(members') = n /\ members'[n] = m /\ (i \notin DOMAIN members => i = n)
  BY <1>2, <1>5, <1>7
<1>9. Linked(Len(members))' /\ members'[Len(members')].to = lib'.path.name
  BY <1>2, <1>4, <1>8 DEF Linked
<1>10. HostFile(lib.path)' = HostFile(p)
  BY <1>4, HostOfLibStays
<1>11. CASE i \in DOMAIN members
  <2>1. OnTheWay(i)
    BY <1>11
  <2>2. PICK r \in DOMAIN job.nodes :
          r.name = members[i].name /\ (HostFile(q) # None => HostFile(r) = HostFile(q))
    BY <1>1, <2>1 DEF OnTheWay
  <2>3. HostFile(r)' = HostFile(r)
    BY HostStays
  <2>4. HostFile(lib.path)' # None => HostFile(r)' = HostFile(lib.path)'
    BY <1>6, <1>10, <2>2, <2>3
  <2>5. members'[i] = members[i]
    BY <1>2, <1>5, <1>11, AppendFacts
  <2>6. Chain(i, Len(members))'
    BY <1>1, <1>2, <1>5, <1>11, <2>1, ChainGrows
  <2>7. QED
    BY <1>9, <2>2, <2>4, <2>5, <2>6 DEF OnTheWay
<1>12. CASE i = n
  <2>1. Chain(i, Len(members))'
    BY <1>7, <1>8, <1>12 DEF Chain
  <2>2. HostFile(q)' = HostFile(q)
    BY HostStays
  <2>3. HostFile(lib.path)' # None => HostFile(q)' = HostFile(lib.path)'
    BY <1>6, <1>10, <2>2
  <2>4. q \in DOMAIN job'.nodes /\ q.name = members'[i].name
    BY <1>2, <1>3, <1>8, <1>12
  <2>5. QED
    BY <1>9, <2>1, <2>3, <2>4 DEF OnTheWay
<1>13. QED
  BY <1>8, <1>11, <1>12

\* When the library is stored, the member it is stored as is settled, and so is all that
\* was on its way to it.
LEMMA StoreSettles ==
  ASSUME TypeOK, LibFound, [Next]_vars, job' = job, StoreLibrary,
         NEW i, i \in DOMAIN members', i \in DOMAIN members => OnTheWay(i)
  PROVE  Settled(i)'
<1>1. PICK q, e : q = lib.path /\ e = HostFile(q)
  OBVIOUS
<1>2. /\ q \in DOMAIN job.nodes /\ job.nodes[q].kind = "file" /\ lib.inode = job.nodes[q].inode
      /\ IsJob(job) /\ members \in Seq(MemberType)
  BY <1>1 DEF StoreLibrary, LibFound, TypeOK
<1>3. e = lib.inode /\ e # None
  BY <1>1, <1>2, HostFileOfFile
<1>4. Member \in MemberType /\ Member.name = q.name /\ members' = Append(members, Member)
  BY <1>1, StoredMember
<1>5. PICK n \in Nat : n = Len(members) + 1
  BY <1>2
<1>6. Len(members') = n /\ members'[n] = Member /\ n \in DOMAIN members'
      /\ (i \notin DOMAIN members => i = n)
  BY <1>2, <1>4, <1>5
<1>7. Gives(n, e)'
  <2>1. CASE ArchivedAs = {}
    BY <1>3, <1>6, <2>1 DEF Gives, Member, FileMember
  <2>2. CASE ArchivedAs # {}
    <3>1. PICK to : to = CHOOSE x \in ArchivedAs : TRUE
      OBVIOUS
    <3>2. to \in ArchivedAs
      BY <2>2, <3>1
    <3>3. PICK j \in DOMAIN members :
            members[j].name = to /\ members[j].kind = "file" /\ members[j].inode = lib.inode
      BY <3>2 DEF ArchivedAs
    <3>4. Member.kind = "hardlink" /\ Member.to = to
      BY <2>2, <3>1 DEF Member, HardlinkMember
    <3>5. j \in DOMAIN members' /\ members'[j] = members[j]
      BY ArchiveGrows
    <3>6. QED
      BY <1>3, <1>6, <3>3, <3>4, <3>5 DEF Gives
  <2>3. QED
    BY <2>1, <2>2
<1>8. CASE i \in DOMAIN members
  <2>1. OnTheWay(i)
    BY <1>8
  <2>2. PICK r \in DOMAIN job.nodes : r.name = members[i].name /\ HostFile(r) = e
    BY <1>1, <1>3, <2>1 DEF OnTheWay
  <2>3. HostFile(r)' = e
    BY <2>2, HostStays
  <2>4. members'[i] = members[i]
    BY <1>2, <1>4, <1>8, AppendFacts
  <2>5. Chain(i, Len(members))' /\ i \in 1..Len(members)
    BY <1>1, <1>2, <1>4, <1>8, <2>1, ChainGrows
  <2>6. Chain(i, n)' /\ n \in i..Len(members')
    BY <1>5, <1>6, <2>5
  <2>7. Gives(n, HostFile(r))'
    BY <1>7, <2>3 DEF Gives
  <2>8. r \in DOMAIN job'.nodes /\ r.name = members'[i].name /\ HostFile(r)' # None
    BY <1>3, <2>2, <2>3, <2>4
  <2>9. QED
    BY <2>6, <2>7, <2>8 DEF Settled
<1>9. CASE i = n
  <2>1. Chain(n, n)' /\ n \in i..Len(members')
    BY <1>5, <1>6, <1>9 DEF Chain
  <2>2. HostFile(q)' = e
    BY <1>1, HostStays
  <2>3. Gives(n, HostFile(q))'
    BY <1>7, <2>2 DEF Gives
  <2>4. q \in DOMAIN job'.nodes /\ q.name = members'[i].name /\ HostFile(q)' # None
    BY <1>2, <1>3, <1>4, <1>6, <1>9, <2>2
  <2>5. QED
    BY <1>9, <2>1, <2>3, <2>4 DEF Settled
<1>10. QED
  BY <1>6, <1>8, <1>9

\* A member whose name _added_libs has got in a step is not an old one.
LEMMA OldNames ==
  ASSUME TypeOK, NamesKnown, Working, lib.path \in Paths, lib.path.name \notin added,
         added' = added \cup {lib.path.name},
         NEW i, i \in DOMAIN members, members[i].name \in added'
  PROVE  members[i].name \in added
<1>1. members[i].name \in added \cup Made(then)
  BY NamesKnownIs
<1>2. lib.path.name \notin Made(then)
  BY NamesApart, NameFacts DEF TypeOK, Made
<1>3. QED
  BY <1>1, <1>2

\* Every link and every library is where it should be, or on its way.
LEMMA PlacedNext ==
  ASSUME TypeOK, InOrder, NamesKnown, LibFound, Placed, [Next]_vars, (Working \/ result = "ok")'
  PROVE  Placed'
<1>1. (Working \/ result = "ok") /\ job' = job
  BY NotFailed
<1>2. members \in Seq(MemberType) /\ IsJob(job) /\ added \subseteq PathNames
  BY DEF TypeOK
<1> SUFFICES ASSUME NEW i, i \in DOMAIN members', members'[i].name \in added'
             PROVE  Settled(i)' \/ OnTheWay(i)'
  BY DEF Placed
<1>3. ASSUME i \in DOMAIN members, members[i].name \in added, ~OnTheWay(i)
      PROVE  Settled(i)'
  BY <1>1, <1>3, SettledStays DEF Placed
<1>4. CASE /\ UNCHANGED <<members, added>>
           /\ Chaining => Chaining' /\ (UNCHANGED lib \/ AuditLibrary \/ StripLibrary \/ FollowSymlink)
  <2>1. i \in DOMAIN members /\ members[i].name \in added
    BY <1>4
  <2>2. CASE ~OnTheWay(i)
    BY <1>3, <2>1, <2>2
  <2>3. CASE OnTheWay(i)
    <3>1. Chaining' /\ (UNCHANGED lib \/ AuditLibrary \/ StripLibrary \/ FollowSymlink)
      BY <1>4, <2>3 DEF OnTheWay
    <3>2. PICK p : p = lib'.path
      OBVIOUS
    <3>3. CASE UNCHANGED lib \/ AuditLibrary \/ StripLibrary
      <4>1. p = lib.path
        BY <3>2, <3>3, AuditedLib, StrippedLib
      <4>2. QED
        BY <1>1, <1>4, <2>1, <2>3, <3>1, <3>2, <4>1, StaysOnTheWay
    <3>4. CASE FollowSymlink
      <4>1. p = Node.to
        <5>1. lib' = [lib EXCEPT !.path = Node.to] /\ lib \in LibType
          BY <3>4 DEF FollowSymlink, TypeOK, LibType
        <5>2. QED
          BY <3>2, <5>1 DEF LibType
      <4>2. p.name = lib.path.name
        <5>1. members # Append(members, SymlinkMember(lib.path.name, Node.to.name))
          BY <1>2, <3>4, LinkMember, AppendFacts
        <5>2. QED
          BY <1>4, <3>4, <4>1, <5>1 DEF FollowSymlink
      <4>3. HostFile(p) # None => HostFile(lib.path) = HostFile(p)
        <5>1. PICK q : q = lib.path
          OBVIOUS
        <5>2. q \in DOMAIN job.nodes /\ job.nodes[q].kind = "symlink" /\ job.nodes[q].to = p
          BY <3>4, <4>1, <5>1 DEF FollowSymlink, IsLink, Node
        <5>3. QED
          BY <1>2, <5>1, <5>2, HostFileOfLink
      <4>4. QED
        BY <1>1, <1>4, <2>1, <2>3, <3>1, <3>2, <4>2, <4>3, StaysOnTheWay
    <3>5. QED
      BY <3>1, <3>3, <3>4
  <2>4. QED
    BY <2>2, <2>3
<1>5. CASE UNCHANGED added /\ ~Chaining /\ (ProcessGlibcProg \/ AddProgram)
  <2>1. i \in DOMAIN members
    <3>1. PICK N : N = {job.prog, PROG_FILENAME, INTERP_FILENAME, LIBNSSFIX}
      OBVIOUS
    <3>2. members'[i].name \notin N
      BY <1>2, <1>5, <3>1, NamesApart
    <3>3. \A s \in Seq(MemberType), m \in MemberType :
            \A k \in DOMAIN Append(s, m) : k \in DOMAIN s \/ Append(s, m)[k] = m
      OBVIOUS
    <3>4. CASE UNCHANGED members
      BY <3>4
    <3>5. CASE members' = Append(members, FileMember(LIBNSSFIX, None, TRUE, NoTags))
      <4> DEFINE m == FileMember(LIBNSSFIX, None, TRUE, NoTags)
      <4>1. m \in MemberType
        BY MemberFacts, TagFacts, NameFacts
      <4>2. m.name \in N
        BY <3>1 DEF FileMember
      <4> HIDE DEF m
      <4>3. QED
        BY <1>2, <3>2, <3>3, <3>5, <4>1, <4>2 DEF m
    <3>6. CASE AddProgram
      <4> DEFINE prog == FileMember(job.prog, None, TRUE, NoTags)
                 fixed == SymlinkMember(PROG_FILENAME, job.prog)
                 interp == SymlinkMember(INTERP_FILENAME, job.interp.name)
                 one == Append(members, prog)
                 two == Append(one, fixed)
      <4>1. /\ prog \in MemberType /\ fixed \in MemberType /\ interp \in MemberType
            /\ members' = Append(two, interp)
        BY <3>6, ProgramMembers
      <4>2. prog.name \in N /\ fixed.name \in N /\ interp.name \in N
        BY <3>1 DEF FileMember, SymlinkMember
      <4> HIDE DEF prog, fixed, interp
      <4>3. one \in Seq(MemberType)
        BY <1>2, <4>1
      <4>4. two \in Seq(MemberType)
        <5> HIDE DEF one
        <5>1. QED
          BY <4>1, <4>3
      <4>5. \A k \in DOMAIN one : k \in DOMAIN members \/ one[k] = prog
        BY <1>2, <3>3, <4>1
      <4>6. \A k \in DOMAIN two : k \in DOMAIN one \/ two[k] = fixed
        <5> HIDE DEF one
        <5>1. QED
          BY <3>3, <4>1, <4>3
      <4>7. i \in DOMAIN two \/ members'[i] = interp
        <5> HIDE DEF two
        <5>1. QED
          BY <3>3, <4>1, <4>4
      <4>8. members'[i] = two[i] \/ i \notin DOMAIN two
        <5> HIDE DEF two
        <5>1. QED
          BY <4>1, <4>4, AppendFacts
      <4>9. two[i] = one[i] \/ i \notin DOMAIN one
        <5> HIDE DEF one
        <5>1. QED
          BY <4>1, <4>3, AppendFacts
      <4> HIDE DEF one, two
      <4>10. QED
        BY <3>2, <4>2, <4>5, <4>6, <4>7, <4>8, <4>9
    <3>7. QED
      BY <1>5, <3>4, <3>5, <3>6 DEF ProcessGlibcProg
  <2>2. members[i].name \in added
    BY <1>5, <2>1, ArchiveGrows
  <2>3. QED
    BY <1>3, <1>5, <2>1, <2>2 DEF OnTheWay
<1>6. CASE /\ FollowSymlink \/ StoreLibrary
           /\ lib.path.name \notin added /\ added' = added \cup {lib.path.name}
  <2>1. Working /\ lib.path \in Paths
    BY <1>6, LinkMember, StoredMember DEF FollowSymlink, StoreLibrary, Working
  <2>2. i \in DOMAIN members => members[i].name \in added
    <3>1. i \in DOMAIN members => members[i].name \in added'
      BY ArchiveGrows
    <3>2. QED
      BY <1>6, <2>1, <3>1, OldNames
  <2>3. CASE i \in DOMAIN members /\ ~OnTheWay(i)
    BY <1>3, <2>2, <2>3
  <2>4. CASE i \in DOMAIN members => OnTheWay(i)
    <3>1. CASE FollowSymlink
      <4>1. Chaining' /\ members' = Append(members, SymlinkMember(lib.path.name, Node.to.name))
        BY <1>1, <1>6, <3>1, NotFailed DEF FollowSymlink, archive, Chaining, Goto, Raise, Working
      <4>2. QED
        BY <1>1, <2>4, <3>1, <4>1, LinkOnTheWay
    <3>2. CASE StoreLibrary
      BY <1>1, <2>4, <3>2, StoreSettles
    <3>3. QED
      BY <1>6, <3>1, <3>2
  <2>5. QED
    BY <2>3, <2>4
<1>7. QED
  BY <1>4, <1>5, <1>6, AddedGrows

\* While nothing has failed, and when all has succeeded.
LEMMA HomeNext == TypeOK /\ InOrder /\ NamesKnown /\ HomeInv /\ [Next]_vars => HomeInv'
<1> SUFFICES ASSUME TypeOK, InOrder, NamesKnown, HomeInv, [Next]_vars, (Working \/ result = "ok")'
             PROVE  (LibFound /\ Placed /\ Listed /\ Phases)'
  BY DEF HomeInv
<1>1. (Working \/ result = "ok") /\ job' = job
  BY NotFailed
<1>2. LibFound /\ Placed /\ Listed /\ Phases
  BY <1>1 DEF HomeInv
<1>3. QED
  BY <1>1, <1>2, LibFoundNext, PlacedNext, ListedNext, PhasesNext

\* At the start there is nothing to be in its place.
LEMMA HomeInit == Init => HomeInv
BY DEF Init, HomeInv, LibFound, Placed, Listed, Phases, Chaining

-----------------------------------------------------------------------------
(* The theorems.                                                           *)

\* The parts together.
LEMMA Inductive == Spec => []IInv
<1>1. Init => IInv
  <2> SUFFICES ASSUME Init PROVE IInv
    OBVIOUS
  <2>1. TypeOK
    BY TypeInit
  <2>2. InOrder /\ FilesKnown /\ OutputUntouched /\ Audited /\ HookPassed /\ NamesKnown
    BY DEF Init, InOrder, FilesKnown, OutputUntouched, Audited, HookPassed, NamesKnown
  <2>3. NoNameTwice /\ HostUntouched /\ NothingLeftBehind /\ OutputOldOrWhole
    BY DEF Init, NoNameTwice, HostUntouched, NothingLeftBehind, OutputOldOrWhole
  <2>4. QED BY <2>1, <2>2, <2>3, HomeInit DEF IInv
<1>2. IInv /\ [Next]_vars => IInv'
  BY TypeNext, InOrderNext, FilesNext, OutputNext, HostNext, AuditedNext, HookNext, NamesNext,
     HomeNext, NoNameTwiceNext DEF IInv
<1>3. QED BY <1>1, <1>2, PTL DEF Spec

\* The invariant of run "generator" that the properties below follow from, whatever the
\* host's files, the job and the failures.
THEOREM InvariantCorrect == Spec => []IInv
BY Inductive

\* No name is archived twice: _added_libs, looked at before each link and each library,
\* is enough to keep them apart, and from the names that the generator makes up.
THEOREM NamesAreApart == Spec => []NoNameTwice
<1>1. IInv => NoNameTwice
  BY DEF IInv
<1>2. QED BY <1>1, Inductive, PTL

\* Every name the loader may ask for leads, through the archive's links, to the file it leads
\* to on the host (to one of that name, if the host has several), however the host's links
\* run and in whatever order libraries are added; so does the interpreter's fixed name.
THEOREM NamesAreHome == Spec => []NamesLeadHome
<1>1. QED BY HomeIsReached, Inductive, PTL

\* What passes check_library_rpath() lets the loader come to the bundle's directory ...
LEMMA BundleOnPath ==
  ASSUME NEW tags, tags \in Tags, ~tags.runpath
  PROVE  "bundle" \in Rng(SearchPath(tags))
<1>1. /\ tags.rpath \in Seq(Dirs)
      /\ SearchPath(tags) = Append(tags.rpath, "bundle")
  BY DEF Tags, SearchPath
<1>2. /\ Len(tags.rpath) + 1 \in DOMAIN Append(tags.rpath, "bundle")
      /\ Append(tags.rpath, "bundle")[Len(tags.rpath) + 1] = "bundle"
  BY <1>1
<1>3. QED BY <1>1, <1>2 DEF Rng

\* ... and with is_dangerous() begin in it, and not climb out of it.
LEMMA PathBeginsInBundle ==
  ASSUME NEW tags, tags \in Tags, ~Unsupported(tags, FALSE)
  PROVE  /\ Head(SearchPath(tags)) \in InBundle
         /\ "parent" \notin Rng(SearchPath(tags))
<1> DEFINE rpath == tags.rpath
           path == Append(rpath, "bundle")
<1>1. rpath \in Seq(Dirs) /\ ~tags.runpath /\ SearchPath(tags) = path
  BY DEF Tags, Unsupported, SearchPath
<1>2. rpath # <<>> => Head(rpath) = "origin" /\ \A i \in DOMAIN rpath : rpath[i] # "parent"
  BY DEF Unsupported, is_dangerous
<1> HIDE DEF rpath
<1>3. Head(path) = IF rpath = <<>> THEN "bundle" ELSE Head(rpath)
  BY <1>1
<1>4. \A i \in DOMAIN path : path[i] = "bundle" \/ (i \in DOMAIN rpath /\ path[i] = rpath[i] /\ rpath # <<>>)
  BY <1>1
<1>5. \A i \in DOMAIN path : path[i] # "parent"
  BY <1>2, <1>4
<1> HIDE DEF path
<1>6. QED BY <1>1, <1>2, <1>3, <1>5 DEF InBundle, Rng

\* In every bundle the loader gets to the bundle's directory, from whatever library, begins
\* there with those that staticx has added, and does not climb out of it.
THEOREM LoaderGetsToBundle == Spec => []BundleIsSearched
<1>1. IInv => BundleIsSearched
  <2> SUFFICES ASSUME IInv, result = "ok" PROVE BundleIsSearched
    BY DEF BundleIsSearched
  <2>1. ASSUME NEW m \in Rng(members), m.kind = "file"
        PROVE  /\ Head(SearchPath(m.tags)) \in InBundle /\ "parent" \notin Rng(SearchPath(m.tags))
               /\ "bundle" \in Rng(SearchPath(m.tags))
    <3>1. m \in MemberType
      BY <2>1 DEF IInv, TypeOK, Rng
    <3>2. m.tags \in Tags
      BY <2>1, <3>1 DEF MemberType
    <3>3. ~Unsupported(m.tags, FALSE)
      BY <2>1 DEF IInv, Audited, Rng
    <3>4. ~m.tags.runpath
      BY <3>3 DEF Unsupported
    <3>5. QED BY <3>2, <3>3, <3>4, BundleOnPath, PathBeginsInBundle
  <2>2. ASSUME NEW tags \in job.binaries PROVE "bundle" \in Rng(SearchPath(tags))
    <3>1. then = "objcopy"
      BY DEF IInv, HomeInv, Phases
    <3>2. tags \in Tags /\ ~tags.runpath
      BY <3>1 DEF IInv, TypeOK, IsJob, HookPassed, Unsupported
    <3>3. QED BY <3>2, BundleOnPath
  <2>3. QED BY <2>1, <2>2 DEF BundleIsSearched
<1>2. QED BY <1>1, Inductive, PTL

\* strip and patchelf are only ever given copies of the host's libraries.
THEOREM HostIsUntouched == Spec => []HostUntouched
<1>1. IInv => HostUntouched
  BY DEF IInv
<1>2. QED BY <1>1, Inductive, PTL

\* Unless a copy, __init__ or the cleaning up failed, no temporary file outlives the
\* generation.
THEOREM LeavesNothingBehind == Spec => []NothingLeftBehind
<1>1. IInv => NothingLeftBehind
  BY DEF IInv
<1>2. QED BY <1>1, Inductive, PTL

\* The output is the old one or the whole new one, and success means the latter.
THEOREM OutputIsOldOrWhole == Spec => []OutputOldOrWhole
<1>1. IInv => OutputOldOrWhole
  BY DEF IInv
<1>2. QED BY <1>1, Inductive, PTL

=============================================================================
