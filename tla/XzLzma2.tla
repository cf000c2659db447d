------------------------------- MODULE XzLzma2 -------------------------------
(***************************************************************************)
(* libxz/xz_dec_lzma2.c in multi-call mode: chunks, the dictionary, and the*)
(* way LZMA symbols are read across the ends of what the caller brings.    *)
(* Module XzFilters puts the BCJ filter and the caller around it.          *)
(*                                                                         *)
(* The range coder's arithmetic is left out. What remains of it is what it *)
(* needs: a symbol costs a number of bytes; it is decoded as it was encoded*)
(* iff all bytes of the chunk so far were the right ones, as many symbols  *)
(* had been learned from, and the bytes of the dictionary that choose the  *)
(* probabilities were the same. Otherwise anything may come out (Garbage). *)
(* Sizes, tables and the constants for input and buffers are scaled down.  *)
(***************************************************************************)
EXTENDS Naturals, Sequences, SequencesExt

CONSTANTS
  Streams,  \* the streams, see StreamType
  Garbage   \* symbols that wrong bytes may decode to

RC_INIT_BYTES == 2      \* (5)
LZMA_IN_REQUIRED == 3   \* (21) a symbol costs up to LZMA_IN_REQUIRED - 1 bytes
SIZE_BASE == 4          \* (256) of the sizes of a chunk
PROPS_MAX == 1          \* the properties are only the mask for positions
REPS == 4
JUNK == 99              \* a byte that was never written

\* A symbol costs "inner" bytes and, if "due", one more when the next one begins: the
\* range has become too small, and rc_normalize() is called before a bit is decoded.
SymbolType ==
  {symbol \in [kind : {"literal", "match", "rep"},
               byte : Nat,
               dist : Nat,              \* of a match; of a "rep": which of the latest
               len : Nat \ {0},
               inner : 0..(LZMA_IN_REQUIRED - 2), due : 0..1] :
     symbol.kind = "rep" => symbol.dist < REPS}

\* A chunk that is copied has data: what is stored is their size, less one.
ChunkType ==
  {chunk \in [control : Nat, data : Seq(Nat), symbols : Seq(SymbolType), props : Nat,
              more : 0..1, less : 0..1,         \* wrong in the declared content size
              longer : 0..1, shorter : 0..1] :  \* ... or in the declared chunk size
     chunk.control < 8 => chunk.data # <<>>}

BlockType == [bcj : BOOLEAN, dict : Nat \ {0}, chunks : Seq(ChunkType)]
StreamType == [blocks : Seq(BlockType) \ {<<>>}, verdict : {"good", "bad", "unsure"}]

ASSUME StreamsAssumption == Streams \subseteq StreamType
ASSUME GarbageAssumption == Garbage \subseteq SymbolType
-----------------------------------------------------------------------------
(* What was encoded: the packer, on a history without bound.               *)

\* len bytes from dist + 1 bytes back; they may run into themselves.
CopyOf(history, dist, len) ==
  LET from == Len(history) - dist
  IN  [i \in 1..len |-> IF from > 0 THEN history[from + ((i - 1) % (dist + 1))] ELSE JUNK]

IsLzma(chunk) == chunk.control >= 8
HasProps(chunk) == chunk.control >= 12
ResetsDict(chunk) == chunk.control = 1 \/ chunk.control >= 14
ResetsState(chunk) == chunk.control >= 10

NewModel == [reps |-> <<0, 0, 0, 0>>, literal |-> TRUE, learned |-> 0]

\* The chunks so far: history since the last reset of the dictionary, the model, and of
\* each LZMA chunk its size and its symbols with what they depend on.
Begin(plans) ==
  [history |-> <<>>, model |-> NewModel, mask |-> 0, content |-> <<>>, bytes |-> <<>>,
   plans |-> plans]

\* One more symbol, with what it depends on.
LongerPlan(plan, symbol, context) ==
  [plan EXCEPT !.size = @ + symbol.inner + symbol.due,
               !.steps = Append(@, [symbol |-> symbol, context |-> context])]

EncodeSymbol(e, symbol) ==
  LET n == Len(e.history)
      dist == IF symbol.kind = "rep" THEN e.model.reps[symbol.dist + 1] ELSE symbol.dist
      new == IF symbol.kind = "literal" THEN <<symbol.byte>>
             ELSE CopyOf(e.history, dist, symbol.len)
      Behind(d) == IF d < n THEN e.history[n - d] ELSE 0
      reps == CASE symbol.kind = "literal" -> e.model.reps
                [] symbol.kind = "match" -> <<dist>> \o SubSeq(e.model.reps, 1, REPS - 1)
                [] symbol.kind = "rep" -> <<dist>> \o RemoveAt(e.model.reps, symbol.dist + 1)
      context == [position |-> n % (e.mask + 1), learned |-> e.model.learned,
                  before |-> IF symbol.kind # "literal" THEN <<>>
                             ELSE IF e.model.literal THEN <<Behind(0)>>
                             ELSE <<Behind(0), Behind(e.model.reps[1])>>]
  IN  [e EXCEPT !.history = @ \o new, !.content = @ \o new,
                !.model = [reps |-> reps, literal |-> symbol.kind = "literal",
                           learned |-> @.learned + 1],
                !.plans[Len(e.plans)] = LongerPlan(@, symbol, context)]

\* The j-th byte of the n-th chunk with symbols.
Mark(n, j) == 100 * n + j
Digits(size) == <<size \div SIZE_BASE, size % SIZE_BASE>>

EncodeChunk(e, chunk) ==
  LET history == IF ResetsDict(chunk) THEN <<>> ELSE e.history
      model == IF ResetsState(chunk) THEN NewModel ELSE e.model
      mask == IF HasProps(chunk) THEN chunk.props ELSE e.mask
      n == Len(e.plans) + 1
      coded == FoldLeft(EncodeSymbol,
                 [e EXCEPT !.history = history, !.model = model, !.mask = mask,
                           !.plans = Append(@, [size |-> RC_INIT_BYTES, steps |-> <<>>])],
                 chunk.symbols)
      whole == Len(coded.content) - Len(e.content) - 1 + chunk.more - chunk.less
      size == coded.plans[n].size
      header == <<chunk.control + whole \div SIZE_BASE ^ 2>> \o Digits(whole % SIZE_BASE ^ 2)
                  \o Digits(size - 1 + chunk.longer - chunk.shorter)
                  \o (IF HasProps(chunk) THEN <<chunk.props>> ELSE <<>>)
  IN  IF IsLzma(chunk)
        THEN [coded EXCEPT !.bytes = @ \o header \o [j \in 1..size |-> Mark(n, j)]]
        ELSE [e EXCEPT !.history = history \o chunk.data, !.content = @ \o chunk.data,
                       !.bytes = @ \o <<chunk.control>> \o Digits(Len(chunk.data) - 1) \o chunk.data]

EncodeBlock(e, block) ==
  LET coded == FoldLeft(EncodeChunk, Begin(e.plans), block.chunks)
  IN  [contents |-> Append(e.contents, coded.content),
       bytes |-> e.bytes \o coded.bytes \o <<0>>, plans |-> coded.plans]

Pack(blocks) == FoldLeft(EncodeBlock, [contents |-> <<>>, bytes |-> <<>>, plans |-> <<>>], blocks)

\* The Index follows a stream's last Block; the decoder may look at it, no more.
Trailer == [i \in 1..LZMA_IN_REQUIRED |-> 7]
-----------------------------------------------------------------------------
VARIABLES
  stream, \* what was packed, as Blocks, plans and content, and what is to be said of it
  input,  \* its bytes as they come
  b,      \* struct xz_buf: "out" is what is in the output buffer, "room" what may follow
  z,      \* struct xz_dec_lzma2, and in "ret" what xz_dec_lzma2_run() returned
  raw,    \* history: all bytes decoded since the last reset of the dictionary
  pc      \* "run": in xz_dec_lzma2_run(), "main": in lzma_main(), "flush": before dict_flush(),
          \* "returned"; or the caller's

\* xz_dec_lzma2_create(): the memory is not cleared. Only need_props is ever read before
\* it is set.
NewDecoder(need_props) ==
  [sequence |-> "SEQ_CONTROL", next_sequence |-> "SEQ_COPY", uncompressed |-> 0, compressed |-> 0,
   need_dict_reset |-> TRUE, need_props |-> need_props,
   dict |-> [buf |-> <<>>, start |-> 0, pos |-> 0, full |-> 0, limit |-> 0, end |-> 0],
   lzma |-> [reps |-> <<0, 0, 0, 0>>, literal |-> TRUE, learned |-> 0, len |-> 0, pos_mask |-> 0],
   rc |-> [code |-> <<>>, due |-> 0, decoded |-> 0, init_bytes_left |-> RC_INIT_BYTES,
           src |-> "in", in |-> <<>>, in_pos |-> 0, in_limit |-> 0],
   temp |-> <<>>, ret |-> "XZ_OK"]

\* (Slip: what the last Block knew of the dictionary is kept.)
ResetDecoderKeeps(x, size) ==
  [x EXCEPT !.dict.buf = [i \in 0..(size - 1) |-> JUNK], !.dict.end = size,
            !.lzma.len = 0, !.sequence = "SEQ_CONTROL", !.temp = <<>>]

\* xz_dec_lzma2_reset(), before every Block. dict.allocated is never set, so that there
\* is a new dictionary every time; the rest of its fields wait for dict_reset().
ResetDecoder(x, size) ==
  [x EXCEPT !.dict.buf = [i \in 0..(size - 1) |-> JUNK], !.dict.end = size,
            !.lzma.len = 0, !.sequence = "SEQ_CONTROL", !.need_dict_reset = TRUE,
            !.temp = <<>>]

Goto(label, x, buf) ==
  /\ pc' = label /\ z' = x /\ b' = buf
  /\ UNCHANGED <<stream, input>>

Lzma2Returns(x, buf, result) ==
  /\ Goto("returned", [x EXCEPT !.ret = result], buf)
  /\ UNCHANGED raw

Loop(x, buf) == Goto("run", x, buf) /\ UNCHANGED raw
LzmaMain(x, buf) == Goto("main", x, buf) /\ UNCHANGED raw
Lzma2LzmaReturns(x, buf) == Goto("flush", x, buf) /\ UNCHANGED raw

Running(sequence) == pc = "run" /\ z.sequence = sequence
Avail(buf) == buf.in_size - buf.in_pos
Next1 == input[b.in_pos + 1]
Taken(buf, n) == [buf EXCEPT !.in_pos = @ + n]
Ahead(n) == SubSeq(input, b.in_pos + 1, b.in_pos + n)
-----------------------------------------------------------------------------
(* The dictionary.                                                         *)

dict_reset(dict) == [dict EXCEPT !.start = 0, !.pos = 0, !.limit = 0, !.full = 0]

dict_limit(dict, out_max) ==
  [dict EXCEPT !.limit = IF dict.end - dict.pos <= out_max THEN dict.end ELSE dict.pos + out_max]

has_space(dict) == dict.pos < dict.limit

\* Where the byte is that lies dist bytes behind the last one.
Back(dict, dist) ==
  (IF dist >= dict.pos THEN dict.pos + dict.end ELSE dict.pos) - dist - 1
dict_get(dict, dist) == IF dict.full > 0 THEN dict.buf[Back(dict, dist)] ELSE 0

\* bytes[i] at pos + i - 1: there is room for them.
Written(dict, bytes) ==
  LET pos == dict.pos + Len(bytes) IN
  [dict EXCEPT !.buf = [p \in DOMAIN @ |-> IF p >= dict.pos /\ p < pos
                                             THEN bytes[p - dict.pos + 1] ELSE @[p]],
               !.pos = pos, !.full = IF @ < pos THEN pos ELSE @]

dict_put(dict, byte) == Written(dict, <<byte>>)

InDictionary(dict, dist) == dist < dict.full /\ dist < dict.end

\* (Slip: reads on behind the end of the buffer instead of at its beginning.)
RepeatedBytesUnwrapped(dict, len, dist) ==
  [i \in 1..len |->
     LET back == Back(dict, dist) + ((i - 1) % (dist + 1))
     IN  IF back < dict.end THEN dict.buf[back] ELSE JUNK]

\* dict_repeat()'s loop: a byte it has just written may be the next one it reads, once
\* for every dist + 1 bytes.
RepeatedBytes(dict, len, dist) ==
  [i \in 1..len |-> dict.buf[(Back(dict, dist) + ((i - 1) % (dist + 1))) % dict.end]]

\* dict_repeat() where the distance is valid: as much of the match as there is space for.
DictRepeat(x, buf) ==
  LET left == Min({x.dict.limit - x.dict.pos, x.lzma.len})
      dist == x.lzma.reps[1]
  IN  /\ Goto("main", [x EXCEPT !.dict = Written(@, RepeatedBytes(x.dict, left, dist)),
                                !.lzma.len = @ - left], buf)
      /\ raw' = raw \o CopyOf(raw, dist, left)
-----------------------------------------------------------------------------
(* Symbols: lzma_main() and the range decoder.                             *)

rc_reset(x) ==
  [x EXCEPT !.rc.code = <<>>, !.rc.due = 0, !.rc.decoded = 0, !.rc.init_bytes_left = RC_INIT_BYTES]

lzma_reset(x) ==
  rc_reset([x EXCEPT !.lzma.reps = <<0, 0, 0, 0>>, !.lzma.literal = TRUE, !.lzma.learned = 0])

\* What the range decoder reads next. temp is cleared behind the end of the chunk.
RcByte(p) ==
  IF z.rc.src = "temp" THEN IF p <= Len(z.rc.in) THEN z.rc.in[p] ELSE 0
  ELSE IF p <= Len(input) THEN input[p] ELSE 0
RcRead(n) ==
  [z.rc EXCEPT !.code = @ \o [i \in 1..n |-> RcByte(z.rc.in_pos + i)], !.in_pos = @ + n]

exceeded == z.rc.in_pos > z.rc.in_limit

\* The encoded chunk that the range decoder is in, by the first byte it read.
Plans == stream.plans
Chunk(code) == IF code = <<>> THEN 0 ELSE code[1] \div 100
OnTrack(code) ==
  /\ Chunk(code) \in DOMAIN Plans
  /\ Len(code) <= Plans[Chunk(code)].size
  /\ \A j \in DOMAIN code : code[j] = Mark(Chunk(code), j)

\* What the probabilities are chosen by: lzma_literal_probs() and its callers.
Context(x, literal) ==
  [position |-> x.dict.pos % (x.lzma.pos_mask + 1), learned |-> x.lzma.learned,
   before |-> IF ~literal THEN <<>>
              ELSE IF x.lzma.literal THEN <<dict_get(x.dict, 0)>>
              ELSE <<dict_get(x.dict, 0), dict_get(x.dict, x.lzma.reps[1])>>]

Decodable ==
  LET k == z.rc.decoded + 1
      steps == Plans[Chunk(z.rc.code)].steps
      step == steps[k]
  IN  IF /\ OnTrack(z.rc.code) /\ k <= Len(steps)
         /\ OnTrack(RcRead(z.rc.due + step.symbol.inner).code)
         /\ step.context = Context(z, step.symbol.kind = "literal")
        THEN {step.symbol} ELSE Garbage

lzma_rep_match(reps, n) ==
  LET rep0 == reps[1] rep1 == reps[2] rep2 == reps[3] rep3 == reps[4] IN
  CASE n = 0 -> reps
    [] n = 1 -> <<rep1, rep0, rep2, rep3>>
    [] n = 2 -> <<rep2, rep0, rep1, rep3>>
    [] n = 3 -> <<rep3, rep0, rep1, rep2>>

lzma_match(reps, dist) == <<dist, reps[1], reps[2], reps[3]>>

\* The match that the dictionary, or the room for output, was too small for.
MainRepeat ==
  /\ pc = "main" /\ has_space(z.dict) /\ z.lzma.len > 0
  /\ DictRepeat(z, b)

\* One round of the loop.
MainSymbol ==
  /\ pc = "main" /\ has_space(z.dict) /\ z.lzma.len = 0 /\ ~exceeded
  /\ \E symbol \in Decodable :
       LET literal == symbol.kind = "literal"
           rc == [RcRead(z.rc.due + symbol.inner) EXCEPT !.due = symbol.due, !.decoded = @ + 1]
           reps == CASE literal -> z.lzma.reps
                     [] symbol.kind = "match" -> lzma_match(z.lzma.reps, symbol.dist)
                     [] symbol.kind = "rep" -> lzma_rep_match(z.lzma.reps, symbol.dist)
           lzma == [z.lzma EXCEPT !.reps = reps, !.literal = literal, !.learned = @ + 1,
                                  !.len = IF literal THEN 0 ELSE symbol.len]
           x == [z EXCEPT !.rc = rc, !.lzma = lzma]
       IN  IF literal THEN /\ Goto("main", [x EXCEPT !.dict = dict_put(@, symbol.byte)], b)
                           /\ raw' = Append(raw, symbol.byte)
           ELSE IF InDictionary(z.dict, reps[1]) THEN DictRepeat(x, b)
           ELSE Lzma2Returns(x, b, "XZ_DATA_ERROR")
-----------------------------------------------------------------------------
(* lzma2_lzma(): symbols are decoded out of the caller's buffer as long as *)
(* LZMA_IN_REQUIRED bytes are left there; the rest is kept in temp until   *)
(* the next call brings enough to go on.                                   *)

\* rc_is_finished() at the end of all that was encoded; elsewhere it may happen.
Finished(x) ==
  LET n == Chunk(x.rc.code) IN
  IF /\ OnTrack(x.rc.code) /\ Len(x.rc.code) = Plans[n].size
     /\ x.rc.decoded = Len(Plans[n].steps)
    THEN {TRUE} ELSE BOOLEAN

\* (Slip: goes round again although too little is left to decode from.)
OutIsFull(x, buf) == buf.room = 0

\* No more can be decoded in this call.
CannotGoOn(x, buf) == buf.room = 0 \/ (Avail(buf) = 0 /\ Len(x.temp) < x.compressed)

\* dict_flush(), and the rest of SEQ_LZMA_RUN.
Flush ==
  /\ pc = "flush"
  /\ LET dict == z.dict
         n == dict.pos - dict.start
         pos == IF dict.pos = dict.end THEN 0 ELSE dict.pos
         x == [z EXCEPT !.dict.pos = pos, !.dict.start = pos, !.uncompressed = @ - n]
         buf == [b EXCEPT !.out = @ \o [i \in 1..n |-> dict.buf[dict.start + i - 1]], !.room = @ - n]
     IN  IF x.uncompressed = 0
           THEN \E finished \in Finished(x) :
                  IF x.compressed > 0 \/ x.lzma.len > 0 \/ ~finished
                    THEN Lzma2Returns(x, buf, "XZ_DATA_ERROR")
                    ELSE Loop(rc_reset([x EXCEPT !.sequence = "SEQ_CONTROL"]), buf)
         ELSE IF CannotGoOn(x, buf) THEN Lzma2Returns(x, buf, "XZ_OK")
         ELSE Loop(x, buf)

\* (Slip: temp takes all there is of the input.)
KeepRestAll(x, buf) ==
  LET n == IF Avail(buf) < LZMA_IN_REQUIRED THEN Avail(buf) ELSE 0
  IN  Lzma2LzmaReturns(IF n > 0 THEN [x EXCEPT !.temp = SubSeq(input, buf.in_pos + 1, buf.in_pos + n)]
                                ELSE x, Taken(buf, n))

\* Too little is left to decode from: keep what is of this chunk.
KeepRest(x, buf) ==
  LET n == Min({Avail(buf), x.compressed})
  IN  IF Avail(buf) < LZMA_IN_REQUIRED
        THEN Lzma2LzmaReturns([x EXCEPT !.temp = SubSeq(input, buf.in_pos + 1, buf.in_pos + n)],
                              Taken(buf, n))
        ELSE Lzma2LzmaReturns(x, buf)

\* (Slip: goes on up to the end of the input.)
InLimitAtTheEnd(x, buf) == Min({buf.in_pos + x.compressed, buf.in_size - 1})

\* Up to where a symbol may begin.
InLimit(x, buf) ==
  IF Avail(buf) >= x.compressed + LZMA_IN_REQUIRED
    THEN buf.in_pos + x.compressed ELSE buf.in_size - LZMA_IN_REQUIRED

DecodeInput(x, buf) ==
  IF Avail(buf) >= LZMA_IN_REQUIRED
    THEN LzmaMain([x EXCEPT !.rc.src = "in", !.rc.in_pos = buf.in_pos, !.rc.in_limit = InLimit(x, buf)],
                  buf)
    ELSE KeepRest(x, buf)

LzmaRun ==
  /\ Running("SEQ_LZMA_RUN")
  /\ LET x == [z EXCEPT !.dict = dict_limit(@, Min({b.room, z.uncompressed}))]
         tmp == Min({2 * LZMA_IN_REQUIRED - Len(z.temp), z.compressed - Len(z.temp), Avail(b)})
         temp == z.temp \o Ahead(tmp)
     IN  IF z.temp = <<>> /\ z.compressed > 0 THEN DecodeInput(x, b)
         ELSE IF Len(temp) # z.compressed /\ Len(temp) < LZMA_IN_REQUIRED
           THEN Lzma2LzmaReturns([x EXCEPT !.temp = temp], Taken(b, tmp))
         ELSE LzmaMain([x EXCEPT !.rc.src = "temp", !.rc.in = temp, !.rc.in_pos = 0,
                                 !.rc.in_limit = IF Len(temp) = z.compressed THEN Len(temp)
                                                 ELSE Len(temp) - LZMA_IN_REQUIRED], b)

\* lzma_main() returns to where it was called.
MainReturns ==
  /\ pc = "main" /\ (~has_space(z.dict) \/ (z.lzma.len = 0 /\ exceeded))
  /\ LET rc == [RcRead(z.rc.due) EXCEPT !.due = 0]
         n == IF z.rc.src = "temp" THEN rc.in_pos ELSE rc.in_pos - b.in_pos
         x == [z EXCEPT !.rc = rc, !.compressed = @ - n]
         size == Len(z.temp)
     IN  IF n > (IF z.rc.src = "temp" THEN Len(rc.in) ELSE z.compressed)
           THEN Lzma2Returns([z EXCEPT !.rc = rc], b, "XZ_DATA_ERROR")
         ELSE IF z.rc.src = "in" THEN KeepRest(x, Taken(b, n))
         ELSE IF n < size THEN Lzma2LzmaReturns([x EXCEPT !.temp = SubSeq(@, n + 1, size)], b)
         ELSE DecodeInput([x EXCEPT !.temp = <<>>], Taken(b, n - size))
-----------------------------------------------------------------------------
(* Chunks: the other states of xz_dec_lzma2_run().                         *)

RunOutOfInput ==
  /\ pc = "run" /\ Avail(b) = 0 /\ z.sequence # "SEQ_LZMA_RUN"
  /\ Lzma2Returns(z, b, "XZ_OK")

Control ==
  /\ Running("SEQ_CONTROL") /\ Avail(b) > 0
  /\ LET control == Next1
         fresh == control >= 14 \/ control = 1
         x == IF fresh THEN [z EXCEPT !.need_props = TRUE, !.need_dict_reset = FALSE,
                                      !.dict = dict_reset(@)]
                       ELSE z
         lzma == [x EXCEPT !.uncompressed = (control % 2) * SIZE_BASE ^ 2,
                           !.sequence = "SEQ_UNCOMPRESSED_1"]
         result ==
           CASE control = 0 -> "XZ_STREAM_END"
             [] control > 0 /\ x.need_dict_reset -> "XZ_DATA_ERROR"
             [] ~x.need_dict_reset /\ control \in 3..7 -> "XZ_DATA_ERROR"
             [] ~x.need_dict_reset /\ control \in 8..11 /\ x.need_props -> "XZ_DATA_ERROR"
             [] OTHER -> "XZ_OK"
         next ==
           CASE control < 8 -> [x EXCEPT !.sequence = "SEQ_COMPRESSED_0", !.next_sequence = "SEQ_COPY"]
             [] control >= 12 -> [lzma EXCEPT !.need_props = FALSE, !.next_sequence = "SEQ_PROPERTIES"]
             [] control \in 10..11 -> lzma_reset([lzma EXCEPT !.next_sequence = "SEQ_LZMA_PREPARE"])
             [] control \in 8..9 -> [lzma EXCEPT !.next_sequence = "SEQ_LZMA_PREPARE"]
     IN  IF result = "XZ_OK" THEN /\ Goto("run", next, Taken(b, 1))
                                  /\ raw' = IF fresh THEN <<>> ELSE raw
                             ELSE Lzma2Returns(x, Taken(b, 1), result)

Sizes ==
  /\ pc = "run" /\ Avail(b) > 0
  /\ LET To(x, sequence) == Loop([x EXCEPT !.sequence = sequence], Taken(b, 1)) IN
     \/ /\ z.sequence = "SEQ_UNCOMPRESSED_1"
        /\ To([z EXCEPT !.uncompressed = @ + Next1 * SIZE_BASE], "SEQ_UNCOMPRESSED_2")
     \/ /\ z.sequence = "SEQ_UNCOMPRESSED_2"
        /\ To([z EXCEPT !.uncompressed = @ + Next1 + 1], "SEQ_COMPRESSED_0")
     \/ /\ z.sequence = "SEQ_COMPRESSED_0"
        /\ To([z EXCEPT !.compressed = Next1 * SIZE_BASE], "SEQ_COMPRESSED_1")
     \/ /\ z.sequence = "SEQ_COMPRESSED_1"
        /\ To([z EXCEPT !.compressed = @ + Next1 + 1], z.next_sequence)

\* SEQ_LZMA_PREPARE, with rc_read_init().
Prepare(x, buf) ==
  LET n == Min({x.rc.init_bytes_left, Avail(buf)})
      read == [x EXCEPT !.rc.code = @ \o SubSeq(input, buf.in_pos + 1, buf.in_pos + n),
                        !.rc.init_bytes_left = @ - n]
  IN  IF x.compressed < RC_INIT_BYTES THEN Lzma2Returns(x, buf, "XZ_DATA_ERROR")
      ELSE IF read.rc.init_bytes_left > 0 THEN Lzma2Returns(read, Taken(buf, n), "XZ_OK")
      ELSE Loop([read EXCEPT !.compressed = @ - RC_INIT_BYTES, !.sequence = "SEQ_LZMA_RUN"],
                Taken(buf, n))

Properties ==
  /\ Running("SEQ_PROPERTIES") /\ Avail(b) > 0
  /\ IF Next1 > PROPS_MAX THEN Lzma2Returns(z, Taken(b, 1), "XZ_DATA_ERROR")
     ELSE Prepare(lzma_reset([z EXCEPT !.lzma.pos_mask = Next1, !.sequence = "SEQ_LZMA_PREPARE"]),
                  Taken(b, 1))

PrepareAgain == Running("SEQ_LZMA_PREPARE") /\ Avail(b) > 0 /\ Prepare(z, b)

\* dict_uncompressed(): one round of its loop.
Copy ==
  /\ Running("SEQ_COPY") /\ Avail(b) > 0
  /\ LET n == Min({Avail(b), b.room, z.dict.end - z.dict.pos, z.compressed})
         bytes == Ahead(n)
         dict == Written(z.dict, bytes)
         pos == IF dict.pos = dict.end THEN 0 ELSE dict.pos
         x == [z EXCEPT !.dict = [dict EXCEPT !.pos = pos, !.start = pos], !.compressed = @ - n]
         buf == [Taken(b, n) EXCEPT !.out = @ \o bytes, !.room = @ - n]
     IN  /\ raw' = raw \o bytes
         /\ IF x.compressed = 0 THEN Goto("run", [x EXCEPT !.sequence = "SEQ_CONTROL"], buf)
            ELSE IF Avail(buf) > 0 /\ buf.room > 0 THEN Goto("run", x, buf)
            ELSE Goto("returned", [x EXCEPT !.ret = "XZ_OK"], buf)

xz_dec_lzma2_run ==
  \/ RunOutOfInput
  \/ Control \/ Sizes \/ Properties \/ PrepareAgain \/ Copy
  \/ LzmaRun \/ MainRepeat \/ MainSymbol \/ MainReturns \/ Flush
=============================================================================
