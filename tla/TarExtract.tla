----------------------------- MODULE TarExtract -----------------------------
(***************************************************************************)
(* Unpacking the archive: bootloader/extract.c and the reading half of the *)
(* libtar it drives. A tar stream is a sequence of blocks; what the stream *)
(* says of a member (its header, long names, data blocks) is told apart by *)
(* the kind of a block, as the magic numbers and the type flag do.         *)
(*                                                                         *)
(* The packer's side, staticx/archive.py and Python's tarfile, is here as  *)
(* the definition of the streams an archive can be (Encode), which may     *)
(* have lost its end on the way.                                           *)
(***************************************************************************)
EXTENDS Integers, Sequences, SequencesExt

CONSTANTS
  Names,       \* names of members
  LongNames,   \* those that do not fit the 100 bytes of a header's field
  Archives,    \* the sequences of members to unpack: see MemberType
  CwdFiles,    \* the names that happen to exist in the current directory
  BlockSize,   \* T_BLOCKSIZE, scaled down
  IntModulus,  \* 2^32, scaled down: the range of the int in oct_to_int
  RecordSize,  \* blocks to which tarfile pads an archive
  Cuts,        \* whether the archive may have lost its end
  None         \* no long name

ASSUME NamesAssumption == LongNames \subseteq Names /\ CwdFiles \subseteq Names
ASSUME SizesAssumption ==
  /\ BlockSize \in Nat \ {0}
  /\ IntModulus \in Nat \ {0} /\ IntModulus % 2 = 0 /\ BlockSize <= IntModulus \div 2
  /\ RecordSize \in Nat \ {0}
ASSUME CutsAssumption == Cuts \in BOOLEAN
ASSUME NoneAssumption == None \notin Names

\* What tarfile is told to store. "zeros" says that its data blocks start with
\* a zero byte, as a header that ends an archive does.
MemberType ==
  [type : {"reg", "sym", "lnk", "dir", "special"}, name : Names, link : Names,
   size : Nat, zeros : BOOLEAN]

ASSUME ArchivesAssumption == Archives \subseteq Seq(MemberType)
-----------------------------------------------------------------------------
(* The stream, as tarfile writes it in GNU_FORMAT.                         *)

BlocksFor(bytes) == (bytes + BlockSize - 1) \div BlockSize

Blank == [kind |-> "blank"]
Header(type, name, link, size) ==
  [kind |-> "header", type |-> type, name |-> name, link |-> link, size |-> size]

\* The bytes of a long name: always two blocks of it here.
TextSize == 2 * BlockSize
LongField(type, text) ==
  <<Header(type, "@LongLink", None, TextSize)>>
    \o [i \in 1..BlocksFor(TextSize) |-> [kind |-> "text", text |-> text]]

\* A field of the header holds the beginning of a long name.
Field(name) == IF name \in LongNames THEN "cut off" ELSE name

Data(m) ==
  IF m.type # "reg" THEN <<>>
  ELSE [i \in 1..BlocksFor(m.size) |->
         [kind |-> IF m.zeros THEN "blank" ELSE "data", of |-> m.name, part |-> i]]

Encode(m) ==
  (IF m.link \in LongNames /\ m.type \in {"sym", "lnk"}
     THEN LongField("longlink", m.link) ELSE <<>>)
  \o (IF m.name \in LongNames THEN LongField("longname", m.name) ELSE <<>>)
  \o <<Header(m.type, Field(m.name), Field(m.link),
              IF m.type = "reg" THEN m.size ELSE 0)>>
  \o Data(m)

\* The blocks of the first n members, and of the whole archive: two blank blocks
\* end it, and more fill up the last record.
Prefix(ms, n) == FlattenSeq([i \in 1..n |-> Encode(ms[i])])

Padded(blocks) ==
  LET n == Len(blocks) + 2
      missing == (RecordSize - (n % RecordSize)) % RecordSize
  IN  blocks \o [i \in 1..(2 + missing) |-> Blank]

Stream(ms) == Padded(Prefix(ms, Len(ms)))
-----------------------------------------------------------------------------
VARIABLES
  members,  \* the archive
  stream,   \* its blocks, those that are left of it
  cut,      \* its end is lost ...
  ragged,   \* ... and part of one more block is left
  xz,       \* it is compressed
  early,    \* the decoder reports the stream's end along with its last bytes
  xzdec,    \* the context's decoder: "decoder" or "uninitialised"
  pos,      \* blocks read so far
  pc,       \* "header", "longlink", "longname", "dispatch", "data", "close",
            \* "done", "failed", "crashed"
  stage,    \* how often th_read has called th_read_internal: "first" time, after
            \* a long "link", after a long "name"
  blanks,   \* num_zero_blocks
  left,     \* blocks still to be read of a long name
  longlink, longname, \* th_buf.gnu_longlink, gnu_longname
  header,   \* th_buf
  tree,     \* the destination directory: a function from names to nodes
  full      \* history: write() came up short: the device is full, or the request is
            \* beyond what one call writes

input == <<members, stream, cut, ragged, xz, early, xzdec>>
buffer == <<longlink, longname, header>>
vars == <<input, pos, pc, stage, blanks, left, buffer, tree, full>>

NoHeader == Header("none", None, None, 0)

Init ==
  /\ members \in Archives
  /\ xz \in BOOLEAN
  /\ early \in (IF xz THEN BOOLEAN ELSE {FALSE})
  /\ \E n \in 0..Len(Stream(members)) :
       /\ stream = SubSeq(Stream(members), 1, n)
       /\ cut = (n < Len(Stream(members)))
       /\ cut => Cuts
       /\ ragged \in (IF cut THEN BOOLEAN ELSE {FALSE})
  /\ xzdec = IF xz THEN "decoder" ELSE "uninitialised"   \* exctx_new()
  /\ pos = 0
  /\ pc = "header"
  /\ stage = "first"
  /\ blanks = 0
  /\ left = 0
  /\ longlink = None
  /\ longname = None
  /\ header = NoHeader
  /\ tree = <<>>
  /\ full = FALSE
-----------------------------------------------------------------------------
(* The read functions. What n blocks' worth of a read ends in: "full",     *)
(* "none" (it returned 0), "short", or "fatal" (error(2, ...)).            *)

MemRead(n) ==
  IF pos + n <= Len(stream) THEN "full"
  ELSE IF pos = Len(stream) /\ ~ragged THEN "none"
  ELSE "short"

\* (Slip: a stream without an end is taken to end there.)
XzReadLenient(n) ==
  IF n = 0 \/ pos + n < Len(stream) \/ (pos + n = Len(stream) /\ (cut \/ ~early))
    THEN "full" ELSE "none"

\* xz_read() runs the decoder until the buffer is full and returns 0 at the end
\* of the stream, even if it has filled the buffer by then. A truncated stream
\* has no end: the decoder reports XZ_BUF_ERROR.
XzRead(n) ==
  IF n = 0 \/ pos + n < Len(stream) THEN "full"
  ELSE IF cut THEN IF pos + n = Len(stream) THEN "full" ELSE "fatal"
  ELSE IF pos + n = Len(stream) /\ ~early THEN "full"
  ELSE "none"

Read(n) == IF xz THEN XzRead(n) ELSE MemRead(n)

Fail == pc' = "failed"

\* th_read_internal() returned 0. That is the end if it was the first call.
EndOfArchive == pc' = IF stage = "first" THEN "close" ELSE "failed"

SameHeader == UNCHANGED <<input, stage, left, buffer, tree, full>>

\* (Slip: the end of the stream is not told from a block to be skipped.)
ReadOn ==
  /\ pc = "header"
  /\ Read(1) # "full"
  /\ UNCHANGED <<pos, blanks, pc>>
  /\ SameHeader

\* The next block cannot be read: the end of the stream passes for the end of
\* the archive, anything else is an error.
ReadNothing ==
  /\ pc = "header"
  /\ Read(1) # "full"
  /\ IF Read(1) = "none" THEN EndOfArchive ELSE Fail
  /\ UNCHANGED <<pos, blanks>>
  /\ SameHeader

\* The second blank block ends the archive.
ReadBlank ==
  /\ pc = "header"
  /\ Read(1) = "full" /\ stream[pos + 1].kind = "blank"
  /\ pos' = pos + 1
  /\ blanks' = blanks + 1
  /\ IF blanks' >= 2 THEN EndOfArchive ELSE UNCHANGED pc
  /\ SameHeader

\* Data taken for a header: its checksum is wrong.
ReadGarbage ==
  /\ pc = "header"
  /\ Read(1) = "full" /\ stream[pos + 1].kind \notin {"blank", "header"}
  /\ pos' = pos + 1
  /\ Fail
  /\ UNCHANGED blanks
  /\ SameHeader

\* A long link name comes before a long name comes before the member's own header.
ReadHeader ==
  /\ pc = "header"
  /\ Read(1) = "full" /\ stream[pos + 1].kind = "header"
  /\ pos' = pos + 1
  /\ header' = stream[pos + 1]
  /\ pc' = CASE header'.type = "longlink" /\ stage = "first" -> "longlink"
             [] header'.type = "longname" /\ stage \in {"first", "link"} -> "longname"
             [] OTHER -> "dispatch"
  /\ left' = BlocksFor(header'.size)
  /\ blanks' = 0
  /\ UNCHANGED <<input, stage, longlink, longname, tree, full>>

\* (Slip: one block too many is read.)
ReadTooMuch ==
  /\ pc \in {"longlink", "longname"}
  /\ IF Read(1) = "full"
       THEN /\ pos' = pos + 1
            /\ left' = left - 1
            /\ stage' = IF pc = "longlink" THEN "link" ELSE "name"
            /\ pc' = IF left = 0 THEN "header" ELSE pc
            /\ UNCHANGED <<longlink, longname>>
       ELSE Fail /\ UNCHANGED <<pos, left, longlink, longname, stage>>
  /\ UNCHANGED <<input, blanks, header, tree, full>>

ReadLongName ==
  /\ pc \in {"longlink", "longname"}
  /\ IF Read(1) = "full"
       THEN LET b == stream[pos + 1]
                text == IF b.kind = "text" THEN b.text ELSE "garbage"
            IN  /\ pos' = pos + 1
                /\ left' = left - 1
                /\ longlink' = IF pc = "longlink" THEN text ELSE longlink
                /\ longname' = IF pc = "longname" THEN text ELSE longname
                /\ stage' = IF pc = "longlink" THEN "link" ELSE "name"
                /\ pc' = IF left = 1 THEN "header" ELSE pc
       ELSE Fail /\ UNCHANGED <<pos, left, longlink, longname, stage>>
  /\ UNCHANGED <<input, blanks, header, tree, full>>
-----------------------------------------------------------------------------
(* tar_extract_file(): the switchboard and its functions. The names are    *)
(* flat, so the parent of every one is the destination directory.          *)

Path == IF longname # None THEN longname ELSE header.name
LinkName == IF longlink # None THEN longlink ELSE header.link

Put(node, name) ==
  [n \in DOMAIN tree \cup {name} |-> IF n = name THEN node ELSE tree[n]]

File(data, bytes) == [kind |-> "file", data |-> data, bytes |-> bytes]
Symlink(to) == [kind |-> "symlink", to |-> to]

\* Where an open() of a name ends up, following symbolic links; a chain longer
\* than there are names is a loop.
Resolve(name) ==
  LET follow[k \in 0..Len(members)] ==
        IF k = 0 THEN name
        ELSE LET n == follow[k - 1] IN
             IF n \in DOMAIN tree /\ tree[n].kind = "symlink" THEN tree[n].to ELSE n
      end == follow[Len(members)]
  IN  IF end \in DOMAIN tree /\ tree[end].kind = "symlink" THEN None ELSE end

\* (Slip: the long names of the last member stay.)
KeepLongNames ==
  /\ pc' = "header" /\ stage' = "first" /\ blanks' = 0
  /\ header' = NoHeader
  /\ UNCHANGED <<longlink, longname>>

\* th_read() starts over: the long names of the last member are forgotten.
NextMember ==
  /\ pc' = "header" /\ stage' = "first" /\ blanks' = 0
  /\ longlink' = None /\ longname' = None /\ header' = NoHeader

\* One member is done, or the whole extraction has failed.
Extracted(ok, newTree) ==
  /\ pc = "dispatch"
  /\ IF ok THEN NextMember /\ tree' = newTree
           ELSE Fail /\ UNCHANGED <<stage, blanks, buffer, tree>>
  /\ UNCHANGED <<input, pos, left, full>>

\* A name that exists, whatever it is, is given the directory's mode.
ExtractDir ==
  /\ header.type = "dir"
  /\ IF Path \in DOMAIN tree
       THEN Extracted(Resolve(Path) \in DOMAIN tree, tree)
       ELSE Extracted(TRUE, Put([kind |-> "dir"], Path))

\* The target of link() is taken relative to the current directory.
ExtractHardlink ==
  /\ header.type = "lnk"
  /\ Extracted(LinkName \in CwdFiles /\ Path \notin DOMAIN tree,
               Put([kind |-> "foreign"], Path))

\* What was there is unlinked first.
ExtractSymlink ==
  /\ header.type = "sym"
  /\ Extracted(~(Path \in DOMAIN tree /\ tree[Path].kind = "dir"),
               Put(Symlink(LinkName), Path))

\* Devices and fifos; mknod() of a device wants privileges.
ExtractSpecial ==
  /\ header.type = "special"
  /\ \E allowed \in BOOLEAN :
       Extracted(allowed /\ Path \notin DOMAIN tree, Put([kind |-> "special"], Path))

\* tar_extract_regfile() refuses what is not a regular file, and creates or
\* truncates the file, through a symbolic link if there is one (open() of a fifo
\* would block) ...
OpenRegfile ==
  /\ pc = "dispatch" /\ header.type \notin {"dir", "lnk", "sym", "special"}
  /\ LET name == Resolve(Path) IN
       /\ ~(name \in DOMAIN tree /\ tree[name].kind = "special")
       /\ IF \/ header.type # "reg"
             \/ name = None
             \/ name \in DOMAIN tree /\ tree[name].kind = "dir"
            THEN Fail /\ UNCHANGED tree
            ELSE pc' = "data" /\ tree' = Put(File(<<>>, 0), name)
  /\ UNCHANGED <<input, pos, stage, blanks, left, buffer, full>>

\* ... and then reads whole blocks and writes the file's bytes at one go. The
\* size has been through an int: one that looks negative is too big to allocate,
\* unless rounding it up to a block wraps to 0.
Size == header.size % IntModulus
Negative == Size >= IntModulus \div 2
ToRead == IF Size > IntModulus - BlockSize THEN 0 ELSE BlocksFor(Size)

\* (Slip: an empty buffer is taken for a failed malloc().)
RefuseEmpty ==
  /\ pc = "data"
  /\ LET n == ToRead
         ok == ~Negative /\ Read(n) = "full" /\ n > 0
     IN  \/ /\ ok
            /\ pos' = pos + n
            /\ NextMember
            /\ tree' = Put(File(SubSeq(stream, pos + 1, pos + n), Size), Resolve(Path))
         \/ /\ ~ok
            /\ Fail
            /\ UNCHANGED <<pos, stage, blanks, buffer, tree>>
  /\ UNCHANGED <<input, left, full>>

\* A write() of "minus one" bytes fails with just that result, and passes.
TransferData ==
  /\ pc = "data"
  /\ LET n == ToRead
         read == (Negative => n = 0) /\ Read(n) = "full"
         bytes == IF Negative THEN 0 ELSE Size
     IN  \/ /\ read /\ (Negative => Size = IntModulus - 1)
            /\ pos' = pos + n
            /\ NextMember
            /\ tree' = Put(File(SubSeq(stream, pos + 1, pos + n), bytes), Resolve(Path))
            /\ UNCHANGED full
         \/ /\ read /\ Size \notin {0, IntModulus - 1}
            /\ full' = TRUE
            /\ Fail
            /\ pos' = pos + n
            /\ UNCHANGED <<stage, blanks, buffer, tree>>
         \/ /\ ~read
            /\ Fail
            /\ UNCHANGED <<pos, stage, blanks, buffer, tree, full>>
  /\ UNCHANGED <<input, left>>

\* tar_close() and common_close(), which ends a decoder that an uncompressed
\* archive never had.
Close ==
  /\ pc = "close"
  /\ pc' \in IF xzdec = "decoder" THEN {"done"} ELSE {"done", "crashed"}
  /\ UNCHANGED <<input, pos, stage, blanks, left, buffer, tree, full>>

Step ==
  \/ ReadNothing \/ ReadBlank \/ ReadGarbage \/ ReadHeader \/ ReadLongName
  \/ ExtractDir \/ ExtractHardlink \/ ExtractSymlink \/ ExtractSpecial
  \/ OpenRegfile \/ TransferData
  \/ Close

Over == pc \in {"done", "failed", "crashed"} /\ UNCHANGED vars

Next == Step \/ Over

Spec == Init /\ [][Next]_vars
FairSpec == Spec /\ WF_vars(Step)
-----------------------------------------------------------------------------
(* Properties.                                                             *)

TypeOK ==
  /\ pos \in 0..Len(stream)
  /\ pc \in {"header", "longlink", "longname", "dispatch", "data", "close",
             "done", "failed", "crashed"}
  /\ stage \in {"first", "link", "name"}
  /\ blanks \in 0..2
  /\ left \in Nat
  /\ {longlink, longname} \subseteq Names \cup {None, "garbage"}
  /\ DOMAIN tree \subseteq Names
  /\ \A n \in DOMAIN tree :
       \/ tree[n] \in [kind : {"dir", "special", "foreign"}]
       \/ tree[n].kind = "symlink" /\ tree[n].to \in Names
       \/ tree[n].kind = "file" /\ tree[n].bytes \in 0..(IntModulus \div 2 - 1)
  /\ full \in BOOLEAN

\* An archive the packer writes when no two members have one name and none has
\* two names, of files so small (below 4 GiB - 1) that the int which holds the
\* size neither wraps nor looks like the result of a failed write().
Ordinary ==
  /\ \A i, j \in DOMAIN members : members[i].name = members[j].name => i = j
  /\ \A i \in DOMAIN members :
       members[i].type \in {"reg", "sym"} /\ members[i].size < IntModulus - 1

NodeOf(m) ==
  IF m.type = "reg" THEN File(Data(m), m.size) ELSE Symlink(m.link)

\* The directory holds the first n members, each as it was archived, and no more.
Unpacked(n) ==
  /\ DOMAIN tree = {members[i].name : i \in 1..n}
  /\ \A i \in 1..n : tree[members[i].name] = NodeOf(members[i])

\* Whenever th_read starts on a member, the bytes read are those of the members
\* before it, and these are what the directory holds: rounding sizes up to blocks,
\* skipping long names and empty files never lose the place.
InSync ==
  Ordinary /\ pc = "header" /\ stage = "first" /\ blanks = 0 =>
    \E n \in 0..Len(members) : pos = Len(Prefix(members, n)) /\ Unpacked(n)

\* An archive that is accepted has been unpacked whole, each name, link and byte
\* of it, however much of the stream was lost; only an uncompressed one that ends
\* exactly where a header would start passes for a shorter archive.
AcceptedIsWhole ==
  Ordinary /\ pc \in {"close", "done"} =>
    \E n \in 0..Len(members) :
      /\ Unpacked(n)
      /\ n < Len(members) => ~xz /\ ~ragged /\ Len(stream) = Len(Prefix(members, n))

\* An archive of files below 2 GiB that has lost nothing is accepted, compressed
\* or not, wherever the decoder reports the end.
WholeIsAccepted ==
  (/\ Ordinary /\ ~cut /\ ~full
   /\ \A i \in DOMAIN members : members[i].size < IntModulus \div 2)
    => pc # "failed"

\* Whatever the archive is and wherever it is cut, the extraction comes to an end.
ComesToAnEnd == <>(pc \in {"done", "failed", "crashed"})
-----------------------------------------------------------------------------
(* What a comment or the documentation says, and the code does not do.     *)

\* extract.c:26 says that the context's decoder is "NULL otherwise", and
\* common_close() counts on it.
ClosesCleanly == pc # "crashed"

\* docs/introduction.rst:6 says that the bootloader will extract the archive. It
\* cannot when the packer met the same file under two names, which tarfile then
\* stores as a hard link.
EveryArchiveExtracts == ~cut /\ ~full => pc # "failed"
=============================================================================
