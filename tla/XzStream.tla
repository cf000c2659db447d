------------------------------ MODULE XzStream ------------------------------
(***************************************************************************)
(* The .xz container: libxz/xz_dec_stream.c in the multi-call mode in which*)
(* bootloader/extract.c drives it. The caller hands over input and room for*)
(* output in whatever portions; the decoder stops wherever it runs out of  *)
(* either and goes on from there in the next call.                         *)
(*                                                                         *)
(* Everything is scaled down: a byte has four bits, three of them in an    *)
(* integer of variable length (VLI), checks and magic numbers have one or  *)
(* two bytes. The chain of filters is reduced to what it does with the two *)
(* buffers: it may read without writing, write without reading and, with a *)
(* BCJ filter, hold back what it has decoded. The packer, Python's lzma, is*)
(* here as the definition of the streams (Encode).                         *)
(***************************************************************************)
EXTENDS Naturals, Sequences, SequencesExt

CONSTANTS
  Cases,     \* pairs of a description of a stream, see StreamType, and of what
             \* happens to it on its way
  Flips,     \* what a corrupt byte may be off by
  Offers,    \* how many more bytes of input a call may bring
  Rooms,     \* how many bytes of output a call may allow
  BcjHold    \* how many bytes a BCJ filter holds back

ASSUME CallerAssumption == Offers \subseteq Nat /\ Rooms \subseteq Nat
ASSUME BcjAssumption == BcjHold \in Nat \ {0}
-----------------------------------------------------------------------------
(* The format.                                                             *)

Byte == 0..15
VLI_BASE == 8
VLI_BYTES_MAX == 2
VLI_UNKNOWN == 64          \* more than any VLI
CHECK_BYTES == 2           \* of a CRC32
CHECK_VALUES == 256

HEADER_MAGIC == <<15, 7>>
FOOTER_MAGIC == <<9>>
STREAM_HEADER_SIZE == 5    \* the Stream Footer's too
XZ_CHECK_CRC32 == 1
BCJ_ID == 4
LZMA2_ID == 3
LZMA2_END == 0
CHUNK_MAX == 4             \* the last valid control byte
DICT_VALID == 9            \* dictionary sizes: the last one there is ...
DICT_MAX == 5              \* ... and the last one the caller allows

CrcStep(crc, byte) == (crc * 5 + byte + 1) % CHECK_VALUES
xz_crc32(bytes, crc) == FoldLeft(CrcStep, crc, bytes)
CrcByte(crc, k) == (crc \div 16 ^ k) % 16
CrcField(crc) == [k \in 1..CHECK_BYTES |-> CrcByte(crc, k - 1)]

\* What a VLI can hold, and what LZMA2 data is: it ends with the end mark.
Vli == 0..(VLI_UNKNOWN - 1)
Lzma2Data == {data \in Seq(Byte) : /\ data # <<>>
                                   /\ \A i \in DOMAIN data : data[i] = LZMA2_END <=> i = Len(data)}

\* How a description says that something is wrong: see Verdict.
BlockType ==
  [reserved : BOOLEAN,       \* an undefined flag
   compressed : Vli \cup {VLI_UNKNOWN}, uncompressed : Vli \cup {VLI_UNKNOWN},  \* as declared
   filters : {<<>>} \cup {<<id>> : id \in Byte},   \* the filter before LZMA2
   dict : Byte,
   header_padding : Byte, padding : Byte,   \* what the paddings are made of
   data : Lzma2Data,
   error : 0..1]             \* added to the check

StreamType ==
  [magic : BOOLEAN, check : Byte, blocks : Seq(BlockType),
   count : Vli, records : Seq(Vli \X Vli), backward : 0..1, footcheck : Byte]

ASSUME FlipsAssumption == Flips \subseteq Byte \ {0}

EncodeVli(n) == IF n < VLI_BASE THEN <<n>> ELSE <<VLI_BASE + (n % VLI_BASE), n \div VLI_BASE>>
Pad(bytes, byte) == bytes \o [i \in 1..((4 - (Len(bytes) % 4)) % 4) |-> byte]
Checked(bytes) == bytes \o CrcField(xz_crc32(bytes, 0))

\* A control byte of LZMA2 stands for a chunk: 1 gives nothing, 2 a byte, ...
Chunk(control) == [i \in 1..(control - 1) |-> control]
Contents(data) == FlattenSeq([i \in 1..(Len(data) - 1) |-> Chunk(data[i])])

BlockHeader(blk) ==
  LET flags == Len(blk.filters) + (IF blk.compressed = VLI_UNKNOWN THEN 0 ELSE 2)
                 + (IF blk.uncompressed = VLI_UNKNOWN THEN 0 ELSE 4)
                 + (IF blk.reserved THEN 8 ELSE 0)
      Size(n) == IF n = VLI_UNKNOWN THEN <<>> ELSE EncodeVli(n)
      fields == <<flags>> \o Size(blk.compressed) \o Size(blk.uncompressed)
                  \o (IF blk.filters = <<>> THEN <<>> ELSE <<blk.filters[1], 0>>)
                  \o <<LZMA2_ID, 1, blk.dict>>
      size == ((1 + Len(fields) + CHECK_BYTES + 3) \div 4) * 4
      padding == [i \in 1..(size - 1 - Len(fields) - CHECK_BYTES) |-> blk.header_padding]
  IN  Checked(<<size \div 4 - 1>> \o fields \o padding)

CheckSize(check) == IF check = XZ_CHECK_CRC32 THEN CHECK_BYTES ELSE 0

EncodeBlock(blk, check) ==
  BlockHeader(blk) \o Pad(blk.data, blk.padding)
    \o (IF check = XZ_CHECK_CRC32
          THEN CrcField(xz_crc32(Contents(blk.data), blk.error)) ELSE <<>>)

Record(blk, check) ==
  <<Len(BlockHeader(blk)) + Len(blk.data) + CheckSize(check), Len(Contents(blk.data))>>

EncodeIndex(d) ==
  Pad(<<0>> \o EncodeVli(d.count)
        \o FlattenSeq([i \in DOMAIN d.records |->
                         EncodeVli(d.records[i][1]) \o EncodeVli(d.records[i][2])]), 0)

BackwardSize(d) == Len(EncodeIndex(d)) \div 4 + d.backward
EncodeFooter(d) ==
  LET fields == <<BackwardSize(d), d.footcheck>>
  IN  CrcField(xz_crc32(fields, 0)) \o fields \o FOOTER_MAGIC

Encode(d) ==
  (IF d.magic THEN HEADER_MAGIC ELSE Reverse(HEADER_MAGIC)) \o Checked(<<d.check>>)
    \o FlattenSeq([i \in DOMAIN d.blocks |-> EncodeBlock(d.blocks[i], d.check)])
    \o Checked(EncodeIndex(d))
    \o EncodeFooter(d)

ASSUME CasesAssumption ==
  /\ Cases \subseteq StreamType \X {"none", "cut", "corrupt"}
  /\ \A c \in Cases : BackwardSize(c[1]) \in Byte

Content(d) == FlattenSeq([i \in DOMAIN d.blocks |-> Contents(d.blocks[i].data)])

\* What is to be said of a stream that is wrong in one place at most.
Unsupported(blk) ==
  \/ blk.reserved
  \/ blk.filters \notin {<<>>, <<BCJ_ID>>}
  \/ blk.dict > DICT_VALID
  \/ blk.header_padding # 0
BlockOK(blk) ==
  /\ blk.compressed \in {VLI_UNKNOWN, Len(blk.data)}
  /\ blk.uncompressed \in {VLI_UNKNOWN, Len(Contents(blk.data))}
  /\ \A i \in DOMAIN blk.data : blk.data[i] <= CHUNK_MAX
  /\ blk.padding = 0 /\ blk.error = 0

Verdict(d) ==
  IF ~d.magic THEN "XZ_FORMAT_ERROR"
  ELSE IF d.check > XZ_CHECK_CRC32 \/ \E i \in DOMAIN d.blocks : Unsupported(d.blocks[i])
    THEN "XZ_OPTIONS_ERROR"
  ELSE IF \E i \in DOMAIN d.blocks : d.blocks[i].dict > DICT_MAX THEN "XZ_MEMLIMIT_ERROR"
  ELSE IF /\ \A i \in DOMAIN d.blocks : BlockOK(d.blocks[i])
          /\ d.records = [i \in DOMAIN d.blocks |-> Record(d.blocks[i], d.check)]
          /\ d.count = Len(d.blocks) /\ d.backward = 0 /\ d.footcheck = d.check
    THEN "XZ_STREAM_END"
  ELSE "XZ_DATA_ERROR"
-----------------------------------------------------------------------------
VARIABLES
  content,  \* what was packed ...
  verdict,  \* ... what is to be said of the stream ...
  harm,     \* ... and what happened to it
  input,    \* the bytes that came of it
  b,        \* struct xz_buf; "out" is all output so far, "room" what may follow
  s,        \* struct xz_dec
  start,    \* in_start and out_start of xz_dec_run()
  pc,       \* "caller", or "main": in dec_main()
  ret,      \* what the last call returned
  idle      \* history: calls in a row that made no progress

source == <<content, verdict, harm, input>>
vars == <<source, b, s, start, pc, ret, idle>>

NoHash == [unpadded |-> 0, uncompressed |-> 0, crc32 |-> <<>>]
NewFilter == [left |-> 0, byte |-> 0, ready |-> <<>>, ended |-> FALSE]

\* xz_dec_reset(); the fields it leaves alone are set before they are used.
NewDecoder ==
  [sequence |-> "SEQ_STREAM_HEADER", pos |-> 0, vli |-> 0, crc |-> 0,
   in_start |-> 0, out_start |-> 0, check_type |-> 0, allow_buf_error |-> FALSE,
   block_header |-> [compressed |-> 0, uncompressed |-> 0, size |-> 0],
   block |-> [compressed |-> 0, uncompressed |-> 0, count |-> 0, hash |-> NoHash],
   index |-> [sequence |-> "SEQ_INDEX_COUNT", size |-> 0, count |-> 0, hash |-> NoHash],
   temp |-> [size |-> STREAM_HEADER_SIZE, buf |-> <<>>],
   bcj_active |-> FALSE, filter |-> NewFilter]

Init ==
  /\ \E c \in Cases :
       LET bytes == Encode(c[1]) IN
       /\ content = Content(c[1]) /\ verdict = Verdict(c[1]) /\ harm = c[2]
       /\ \/ harm = "none" /\ input = bytes
          \/ harm = "cut" /\ \E n \in 0..(Len(bytes) - 1) : input = SubSeq(bytes, 1, n)
          \/ harm = "corrupt" /\ \E i \in DOMAIN bytes, k \in Flips :
                                  input = [bytes EXCEPT ![i] = (@ + k) % 16]
  /\ b = [in_pos |-> 0, in_size |-> 0, out |-> <<>>, room |-> 0]
  /\ s = NewDecoder
  /\ start = [in_pos |-> 0, out_pos |-> 0]
  /\ pc = "caller"
  /\ ret = "none"
  /\ idle = 0
-----------------------------------------------------------------------------
(* Going on and returning.                                                 *)

At(sequence) == pc = "main" /\ s.sequence = sequence
More == b.in_pos < b.in_size
Next1 == input[b.in_pos + 1]
Taken(n) == [b EXCEPT !.in_pos = @ + n]

Continue(xz, buf) ==
  /\ s' = xz
  /\ b' = buf
  /\ UNCHANGED <<source, start, pc, ret, idle>>

\* (Slip: the decoder never says that it is stuck.)
ReturnNeverStuck(xz, buf, result) ==
  /\ s' = xz
  /\ b' = buf
  /\ ret' = result
  /\ idle' = 0
  /\ pc' = "caller"
  /\ UNCHANGED <<source, start>>

\* The rest of xz_dec_run(): only the second call in a row that makes no progress
\* is told so.
Return(xz, buf, result) ==
  LET stuck == result = "XZ_OK" /\ buf.in_pos = start.in_pos /\ Len(buf.out) = start.out_pos
  IN  /\ s' = [xz EXCEPT !.allow_buf_error = stuck]
      /\ b' = buf
      /\ ret' = IF stuck /\ s.allow_buf_error THEN "XZ_BUF_ERROR" ELSE result
      /\ idle' = IF stuck THEN idle + 1 ELSE 0
      /\ pc' = "caller"
      /\ UNCHANGED <<source, start>>

\* The caller goes on as long as it is told that all is well, as xz_read() does.
Call ==
  /\ pc = "caller" /\ ret \in {"none", "XZ_OK"}
  /\ \E n \in Offers, room \in Rooms :
       b' = [b EXCEPT !.in_size = IF @ + n < Len(input) THEN @ + n ELSE Len(input),
                      !.room = room]
  /\ start' = [in_pos |-> b.in_pos, out_pos |-> Len(b.out)]
  /\ s' = [s EXCEPT !.in_start = b.in_pos, !.out_start = Len(b.out)]
  /\ pc' = "main"
  /\ UNCHANGED <<source, ret, idle>>

\* fill_temp(): what is missing in the buffer is here, or only some of it.
Missing == s.temp.size - Len(s.temp.buf)
TempFills == Missing <= b.in_size - b.in_pos
TempFilled == s.temp.buf \o SubSeq(input, b.in_pos + 1, b.in_pos + Missing)

FillSome ==
  /\ pc = "main" /\ ~TempFills
  /\ s.sequence \in {"SEQ_STREAM_HEADER", "SEQ_BLOCK_HEADER", "SEQ_STREAM_FOOTER"}
  /\ Return([s EXCEPT !.temp.buf = @ \o SubSeq(input, b.in_pos + 1, b.in_size)],
            [b EXCEPT !.in_pos = b.in_size], "XZ_OK")

\* Nothing is left of the input: try again in the next call.
WaitForInput(sequences) ==
  /\ pc = "main" /\ s.sequence \in sequences /\ ~More
  /\ Return(s, b, "XZ_OK")
-----------------------------------------------------------------------------
(* Stream Header and Block Header.                                         *)

dec_stream_header(buf) ==
  IF SubSeq(buf, 1, 2) # HEADER_MAGIC THEN "XZ_FORMAT_ERROR"
  ELSE IF CrcField(xz_crc32(<<buf[3]>>, 0)) # SubSeq(buf, 4, 5) THEN "XZ_DATA_ERROR"
  ELSE IF buf[3] > XZ_CHECK_CRC32 THEN "XZ_OPTIONS_ERROR"
  ELSE "XZ_OK"

StreamHeader ==
  /\ At("SEQ_STREAM_HEADER") /\ TempFills
  /\ LET result == dec_stream_header(TempFilled)
         xz == [s EXCEPT !.temp.buf = <<>>, !.sequence = "SEQ_BLOCK_START"]
     IN  IF result = "XZ_OK"
           THEN Continue([xz EXCEPT !.check_type = TempFilled[3]], Taken(Missing))
           ELSE Return(xz, Taken(Missing), result)

\* A zero byte is the first one of the Index, any other the size of a Block Header.
BlockStart ==
  /\ At("SEQ_BLOCK_START") /\ More
  /\ IF Next1 = 0
       THEN Continue([s EXCEPT !.in_start = b.in_pos, !.sequence = "SEQ_INDEX"], Taken(1))
       ELSE LET size == (Next1 + 1) * 4
            IN  Continue([s EXCEPT !.block_header.size = size,
                                   !.temp = [size |-> size, buf |-> <<>>],
                                   !.sequence = "SEQ_BLOCK_HEADER"], b)

\* dec_vli() on a complete buffer: the value at place p and the place after it, or
\* place 0 for none.
VliAt(buf, p) ==
  IF p = 0 \/ p > Len(buf) THEN [value |-> 0, next |-> 0]
  ELSE IF buf[p] < VLI_BASE THEN [value |-> buf[p], next |-> p + 1]
  ELSE IF p + 1 > Len(buf) \/ buf[p + 1] >= VLI_BASE \/ buf[p + 1] = 0
         THEN [value |-> 0, next |-> 0]
  ELSE [value |-> buf[p] - VLI_BASE + VLI_BASE * buf[p + 1], next |-> p + 2]

HasBit(flags, bit) == (flags \div bit) % 2 = 1

\* dec_block_header(): what it returns and the fields it sets, from the buffer
\* without its check.
ParseBlockHeader(buf) ==
  LET flags == buf[2]
      Field(bit, p) == IF HasBit(flags, bit) THEN VliAt(buf, p)
                                             ELSE [value |-> VLI_UNKNOWN, next |-> p]
      compressed == Field(2, 3)
      uncompressed == Field(4, compressed.next)
      bcj == uncompressed.next
      lzma2 == IF HasBit(flags, 1) THEN bcj + 2 ELSE bcj
      Left(p) == Len(buf) + 1 - p
      result ==
        IF HasBit(flags, 8) THEN "XZ_OPTIONS_ERROR"
        ELSE IF compressed.next = 0 \/ uncompressed.next = 0 THEN "XZ_DATA_ERROR"
        ELSE IF HasBit(flags, 1) /\ (Left(bcj) < 2 \/ buf[bcj] # BCJ_ID \/ buf[bcj + 1] # 0)
               THEN "XZ_OPTIONS_ERROR"
        ELSE IF Left(lzma2) < 2 THEN "XZ_DATA_ERROR"
        ELSE IF buf[lzma2] # LZMA2_ID \/ buf[lzma2 + 1] # 1 THEN "XZ_OPTIONS_ERROR"
        ELSE IF Left(lzma2 + 2) < 1 THEN "XZ_DATA_ERROR"
        ELSE IF buf[lzma2 + 2] > DICT_VALID THEN "XZ_OPTIONS_ERROR"
        ELSE IF buf[lzma2 + 2] > DICT_MAX THEN "XZ_MEMLIMIT_ERROR"
        ELSE "XZ_OK"
  IN  [result |-> result, compressed |-> compressed.value,
       uncompressed |-> uncompressed.value, bcj |-> HasBit(flags, 1),
       padded |-> \A p \in (lzma2 + 3)..Len(buf) : buf[p] = 0]

DecBlockHeader ==
  /\ At("SEQ_BLOCK_HEADER") /\ TempFills
  /\ LET size == s.temp.size - CHECK_BYTES
         buf == SubSeq(TempFilled, 1, size)
         header == ParseBlockHeader(buf)
         xz == [s EXCEPT !.temp = [size |-> size, buf |-> <<>>]]
     IN  IF CrcField(xz_crc32(buf, 0)) # SubSeq(TempFilled, size + 1, s.temp.size)
           THEN Return(xz, Taken(Missing), "XZ_DATA_ERROR")
         ELSE IF header.result # "XZ_OK" THEN Return(xz, Taken(Missing), header.result)
         ELSE IF ~header.padded THEN Return(xz, Taken(Missing), "XZ_OPTIONS_ERROR")
         ELSE Continue([xz EXCEPT
                          !.block_header = [size |-> @.size, compressed |-> header.compressed,
                                            uncompressed |-> header.uncompressed],
                          !.block.compressed = 0, !.block.uncompressed = 0,
                          !.bcj_active = header.bcj,
                          !.filter = NewFilter,
                          !.in_start = b.in_pos + Missing, !.out_start = Len(b.out),
                          !.sequence = "SEQ_BLOCK_UNCOMPRESS"],
                       Taken(Missing))

\* There is no memory for the dictionary: xz_dec_lzma2_reset() allocates one for
\* every Block.
NoMemory ==
  /\ At("SEQ_BLOCK_HEADER") /\ TempFills
  /\ LET size == s.temp.size - CHECK_BYTES
         buf == SubSeq(TempFilled, 1, size)
     IN  /\ CrcField(xz_crc32(buf, 0)) = SubSeq(TempFilled, size + 1, s.temp.size)
         /\ ParseBlockHeader(buf).result = "XZ_OK"
         /\ Return([s EXCEPT !.temp = [size |-> size, buf |-> <<>>]], Taken(Missing), "XZ_MEM_ERROR")
-----------------------------------------------------------------------------
(* The filters, and dec_block() around them.                               *)

\* What is decoded and may be written.
Held == IF s.bcj_active /\ ~s.filter.ended THEN BcjHold ELSE 0
Ready == Len(s.filter.ready) > Held

\* (Slip: a filter that has filled the output looks no further.)
StalledWhenFull == b.room = 0
\* No room is left for what is decoded.
Stalled == b.room = 0 /\ s.filter.ready # <<>>

\* The rest of dec_block() when the filters have returned: count, check, and, at
\* the end of the Block, enter its sizes into the hash.
BlockReturn(xz, buf, result) ==
  LET compressed == xz.block.compressed + buf.in_pos - xz.in_start
      uncompressed == xz.block.uncompressed + Len(buf.out) - xz.out_start
      header == xz.block_header
      crc == IF xz.check_type = XZ_CHECK_CRC32
               THEN xz_crc32(SubSeq(buf.out, xz.out_start + 1, Len(buf.out)), xz.crc) ELSE xz.crc
      counted == [xz EXCEPT !.block.compressed = compressed, !.block.uncompressed = uncompressed,
                            !.crc = crc]
      unpadded == xz.block.hash.unpadded + header.size + compressed + CheckSize(xz.check_type)
      total == xz.block.hash.uncompressed + uncompressed
      hashed == [counted EXCEPT
                   !.block.hash = [unpadded |-> unpadded, uncompressed |-> total,
                                   crc32 |-> Append(@.crc32, <<unpadded, total>>)],
                   !.block.count = @ + 1, !.sequence = "SEQ_BLOCK_PADDING"]
  IN  IF compressed > header.compressed \/ uncompressed > header.uncompressed
        THEN Return(counted, buf, "XZ_DATA_ERROR")
      ELSE IF result # "XZ_STREAM_END" THEN Return(counted, buf, result)
      ELSE IF \/ header.compressed \notin {VLI_UNKNOWN, compressed}
              \/ header.uncompressed \notin {VLI_UNKNOWN, uncompressed}
        THEN Return(counted, buf, "XZ_DATA_ERROR")
      ELSE Continue(hashed, buf)

FilterPauses ==
  /\ At("SEQ_BLOCK_UNCOMPRESS")
  /\ Stalled \/ (~Ready /\ s.filter.left = 0 /\ ~s.filter.ended /\ ~More)
  /\ BlockReturn(s, b, "XZ_OK")

FilterReads ==
  /\ At("SEQ_BLOCK_UNCOMPRESS") /\ More
  /\ ~Ready /\ ~Stalled /\ s.filter.left = 0 /\ ~s.filter.ended
  /\ IF Next1 > CHUNK_MAX THEN BlockReturn(s, Taken(1), "XZ_DATA_ERROR")
     ELSE IF Next1 = LZMA2_END THEN Continue([s EXCEPT !.filter.ended = TRUE], Taken(1))
     ELSE Continue([s EXCEPT !.filter.left = Next1 - 1, !.filter.byte = Next1], Taken(1))

FilterDecodes ==
  /\ At("SEQ_BLOCK_UNCOMPRESS")
  /\ ~Ready /\ ~Stalled /\ s.filter.left > 0
  /\ Continue([s EXCEPT !.filter.left = @ - 1, !.filter.ready = Append(@, s.filter.byte)], b)

FilterWrites ==
  /\ At("SEQ_BLOCK_UNCOMPRESS") /\ Ready /\ b.room > 0
  /\ Continue([s EXCEPT !.filter.ready = Tail(@)],
              [b EXCEPT !.out = Append(@, Head(s.filter.ready)), !.room = @ - 1])

FilterEnds ==
  /\ At("SEQ_BLOCK_UNCOMPRESS") /\ s.filter.ended /\ s.filter.ready = <<>>
  /\ BlockReturn(s, b, "XZ_STREAM_END")
-----------------------------------------------------------------------------
(* Block Padding, Check, Index and Stream Footer.                          *)

Misaligned == s.block.compressed % 4 # 0

BlockPadding ==
  /\ At("SEQ_BLOCK_PADDING")
  /\ IF ~Misaligned THEN Continue([s EXCEPT !.sequence = "SEQ_BLOCK_CHECK"], b)
     ELSE /\ More
          /\ IF Next1 # 0 THEN Return(s, Taken(1), "XZ_DATA_ERROR")
                          ELSE Continue([s EXCEPT !.block.compressed = @ + 1], Taken(1))

\* (Slip: the position in the CRC is left to the next field.)
KeepPos(xz) ==
  /\ More
  /\ IF Next1 # CrcByte(s.crc, s.pos) THEN Return(s, Taken(1), "XZ_DATA_ERROR")
     ELSE IF s.pos + 1 < CHECK_BYTES THEN Continue([s EXCEPT !.pos = @ + 1], Taken(1))
     ELSE Continue([xz EXCEPT !.crc = 0], Taken(1))

\* crc_validate(), a byte at a time; xz is what is done when all of it matches.
CrcValidate(xz) ==
  /\ More
  /\ IF Next1 # CrcByte(s.crc, s.pos) THEN Return(s, Taken(1), "XZ_DATA_ERROR")
     ELSE IF s.pos + 1 < CHECK_BYTES THEN Continue([s EXCEPT !.pos = @ + 1], Taken(1))
     ELSE Continue([xz EXCEPT !.crc = 0, !.pos = 0], Taken(1))

BlockCheck ==
  /\ At("SEQ_BLOCK_CHECK")
  /\ IF s.check_type = XZ_CHECK_CRC32
       THEN CrcValidate([s EXCEPT !.sequence = "SEQ_BLOCK_START"])
       ELSE Continue([s EXCEPT !.sequence = "SEQ_BLOCK_START"], b)

\* index_update(): what this call has read of the Index.
Updated(xz, buf) ==
  [xz EXCEPT !.index.size = @ + (buf.in_pos - xz.in_start),
             !.crc = xz_crc32(SubSeq(input, xz.in_start + 1, buf.in_pos), @)]

\* (Slip: what was read before the input ran out is forgotten.)
IndexWaitsUncounted ==
  /\ At("SEQ_INDEX") /\ ~More
  /\ Return(s, b, "XZ_OK")

IndexWaits ==
  /\ At("SEQ_INDEX") /\ ~More
  /\ Return(Updated(s, b), b, "XZ_OK")

\* A field of the Index is complete.
IndexField(xz) ==
  LET value == xz.vli
      index == xz.index
      total == index.hash.uncompressed + value
      next ==
        CASE index.sequence = "SEQ_INDEX_COUNT" ->
               [index EXCEPT !.count = value, !.sequence = "SEQ_INDEX_UNPADDED"]
          [] index.sequence = "SEQ_INDEX_UNPADDED" ->
               [index EXCEPT !.hash.unpadded = @ + value, !.sequence = "SEQ_INDEX_UNCOMPRESSED"]
          [] index.sequence = "SEQ_INDEX_UNCOMPRESSED" ->
               [index EXCEPT !.hash = [unpadded |-> @.unpadded, uncompressed |-> total,
                                       crc32 |-> Append(@.crc32, <<@.unpadded, total>>)],
                             !.count = @ - 1, !.sequence = "SEQ_INDEX_UNPADDED"]
  IN  IF index.sequence = "SEQ_INDEX_COUNT" /\ value # xz.block.count
        THEN Return([xz EXCEPT !.index.count = value], Taken(1), "XZ_DATA_ERROR")
        ELSE Continue([xz EXCEPT !.index = next,
                                 !.sequence = IF next.count = 0 THEN "SEQ_INDEX_PADDING" ELSE @],
                      Taken(1))

\* dec_index(): one byte of dec_vli(), lowest digits first.
DecIndex ==
  /\ At("SEQ_INDEX") /\ More
  /\ LET vli == (IF s.pos = 0 THEN 0 ELSE s.vli) + (Next1 % VLI_BASE) * VLI_BASE ^ s.pos
         bad == IF Next1 < VLI_BASE THEN Next1 = 0 /\ s.pos # 0 ELSE s.pos + 1 = VLI_BYTES_MAX
         xz == [s EXCEPT !.vli = vli, !.pos = IF Next1 < VLI_BASE THEN 0 ELSE @ + 1]
     IN  IF bad THEN Return(Updated(xz, Taken(1)), Taken(1), "XZ_DATA_ERROR")
         ELSE IF Next1 < VLI_BASE THEN IndexField(xz)
         ELSE Continue(xz, Taken(1))

IndexMisaligned == (s.index.size + b.in_pos - s.in_start) % 4 # 0

IndexPaddingWaits ==
  /\ At("SEQ_INDEX_PADDING") /\ IndexMisaligned /\ ~More
  /\ Return(Updated(s, b), b, "XZ_OK")

\* The hashes over the sizes of the Blocks and over the Records are compared.
IndexComplete ==
  /\ At("SEQ_INDEX_PADDING") /\ ~IndexMisaligned
  /\ IF s.block.hash # s.index.hash THEN Return(Updated(s, b), b, "XZ_DATA_ERROR")
     ELSE Continue([Updated(s, b) EXCEPT !.sequence = "SEQ_INDEX_CRC32"], b)

IndexPadding ==
  /\ At("SEQ_INDEX_PADDING") /\ IndexMisaligned /\ More
  /\ IF Next1 # 0 THEN Return(s, Taken(1), "XZ_DATA_ERROR") ELSE Continue(s, Taken(1))

IndexCrc32 ==
  /\ At("SEQ_INDEX_CRC32")
  /\ CrcValidate([s EXCEPT !.temp.size = STREAM_HEADER_SIZE, !.sequence = "SEQ_STREAM_FOOTER"])

\* dec_stream_footer()
FooterOK(buf) ==
  /\ SubSeq(buf, 5, 5) = FOOTER_MAGIC
  /\ CrcField(xz_crc32(SubSeq(buf, 3, 4), 0)) = SubSeq(buf, 1, 2)
  /\ buf[3] = s.index.size \div 4
  /\ buf[4] = s.check_type

StreamFooter ==
  /\ At("SEQ_STREAM_FOOTER") /\ TempFills
  /\ Return([s EXCEPT !.temp.buf = <<>>], Taken(Missing),
            IF FooterOK(TempFilled) THEN "XZ_STREAM_END" ELSE "XZ_DATA_ERROR")

Wait ==
  \/ WaitForInput({"SEQ_BLOCK_START", "SEQ_INDEX_CRC32"})
  \/ Misaligned /\ WaitForInput({"SEQ_BLOCK_PADDING"})
  \/ s.check_type = XZ_CHECK_CRC32 /\ WaitForInput({"SEQ_BLOCK_CHECK"})
  \/ IndexWaits \/ IndexPaddingWaits

dec_main ==
  \/ FillSome \/ StreamHeader \/ BlockStart \/ DecBlockHeader \/ NoMemory
  \/ FilterPauses \/ FilterReads \/ FilterDecodes \/ FilterWrites \/ FilterEnds
  \/ BlockPadding \/ BlockCheck
  \/ DecIndex \/ IndexPadding \/ IndexComplete \/ IndexCrc32
  \/ StreamFooter
  \/ Wait

Done == pc = "caller" /\ ret \notin {"none", "XZ_OK"} /\ UNCHANGED vars

Next == Call \/ dec_main \/ Done

Spec == Init /\ [][Next]_vars
\* One thread; xz_read() calls again for as long as all is well.
FairSpec == Spec /\ WF_vars(Next)
-----------------------------------------------------------------------------
(* Properties.                                                             *)

Sequences == {"SEQ_STREAM_HEADER", "SEQ_BLOCK_START", "SEQ_BLOCK_HEADER",
  "SEQ_BLOCK_UNCOMPRESS", "SEQ_BLOCK_PADDING", "SEQ_BLOCK_CHECK", "SEQ_INDEX",
  "SEQ_INDEX_PADDING", "SEQ_INDEX_CRC32", "SEQ_STREAM_FOOTER"}
Errors == {"XZ_MEM_ERROR", "XZ_MEMLIMIT_ERROR", "XZ_FORMAT_ERROR", "XZ_OPTIONS_ERROR",
  "XZ_DATA_ERROR"}
Results == {"none", "XZ_OK", "XZ_STREAM_END", "XZ_BUF_ERROR"} \cup Errors

TypeOK ==
  /\ pc \in {"caller", "main"} /\ ret \in Results
  /\ b.in_pos \in 0..b.in_size /\ b.in_size \in 0..Len(input)
  /\ b.out \in Seq(Byte) /\ b.room \in Nat
  /\ s.sequence \in Sequences
  /\ s.pos \in 0..VLI_BYTES_MAX
  /\ s.pos # 0 => s.sequence \in {"SEQ_BLOCK_CHECK", "SEQ_INDEX", "SEQ_INDEX_CRC32"}
  /\ s.crc \in 0..(CHECK_VALUES - 1)
  /\ s.check_type \in {0, XZ_CHECK_CRC32}
  /\ s.in_start \in 0..b.in_pos /\ s.out_start \in 0..Len(b.out)
  /\ Len(s.temp.buf) <= s.temp.size
  /\ s.index.count <= s.block.count \/ ret = "XZ_DATA_ERROR"
  /\ Len(s.filter.ready) <= BcjHold + 1

Over == pc = "caller" /\ ret \notin {"none", "XZ_OK", "XZ_BUF_ERROR", "XZ_MEM_ERROR"}

\* What a stream is said to be never depends on the portions in which it came or
\* was let out: a good one is good, a bad one bad for what is bad about it, one
\* that was cut is neither. One bad byte may mean anything but a good stream.
VerdictIsRight ==
  Over => CASE harm = "none" -> ret = verdict
            [] harm = "cut" -> ret \in Errors /\ ret = verdict
            [] harm = "corrupt" -> ret # "XZ_STREAM_END"

busy == pc # "caller"
Contract == INSTANCE Decoder WITH
  size <- IF harm = "cut" THEN Len(input) + 1 ELSE Len(input),
  sound <- harm # "corrupt" /\ verdict = "XZ_STREAM_END",
  given <- b.in_size,
  used <- IF busy THEN start.in_pos ELSE b.in_pos,
  out <- IF busy THEN SubSeq(b.out, 1, start.out_pos) ELSE b.out,
  room <- IF busy THEN b.room + Len(b.out) - start.out_pos ELSE 0

\* The container hides what it is made of: of a good stream, whole or cut, the content
\* comes out and nothing else, in any portions, and its end is told by the call that
\* writes the last byte; of any stream, a call pauses for want of input or room only, and
\* the decoder says that it is stuck (xz.h:99) just when two calls have done nothing.
ImplementsDecoder == Contract!Spec

\* A caller that goes on for as long as all is well is not kept for ever, whatever
\* the stream, and even if it never brings what is missing.
CallerIsReleased == <>(ret \notin {"none", "XZ_OK"})
=============================================================================
