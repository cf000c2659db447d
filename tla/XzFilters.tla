------------------------------ MODULE XzFilters ------------------------------
(***************************************************************************)
(* The chain of filters under xz_dec_run(): LZMA2 (module XzLzma2), the x86*)
(* BCJ filter of libxz/xz_dec_bcj.c behind it where a Block has one, and   *)
(* around them what dec_block() and xz_dec_run() do with the two buffers.  *)
(* Headers, paddings and sums between the Blocks are module XzStream's;    *)
(* here one Block follows the other.                                       *)
(*                                                                         *)
(* BCJ works in place, on the output or on a small buffer of its own, and  *)
(* has to hold back what it cannot convert before it has seen more. It is  *)
(* scaled down to an operand of two bytes, of which it converts the lower. *)
(***************************************************************************)
EXTENDS XzLzma2

CONSTANTS
  Corrupted, \* streams in which one byte may be another
  Offers,   \* how many more bytes of input a call may bring
  Rooms     \* how many bytes of output a call may allow

ASSUME CorruptedAssumption == Corrupted \subseteq Streams
ASSUME CallerAssumption == Offers \subseteq Nat /\ Rooms \subseteq Nat

LOOK_AHEAD == 2                       \* (4) bytes of the operand
TEMP_SIZE == 1 + 2 * LOOK_AHEAD       \* (16) Alignment + 2 * Look-ahead
OPCODE == 14
MsByte(byte) == byte \in {0, 15}      \* bcj_x86_test_msbyte()
-----------------------------------------------------------------------------
(* The filter.                                                             *)

NewBcj ==
  [ret |-> "XZ_OK", pos |-> 0, prev_mask |-> FALSE, temp |-> <<>>, filtered |-> 0,
   out_start |-> 0, out |-> <<>>, room |-> 0, at |-> "none"]

\* bcj_x86() on what follows the first "done" bytes: the bytes, how many more of them are
\* filtered, and prev_mask, by which an opcode that was not converted makes it harder for
\* the next one, as it may be part of its operand.
bcj_x86(g, bytes, done) ==
  LET size == Len(bytes) - done
      At(i) == bytes[done + i]
      opcodes == {i \in 1..(size - LOOK_AHEAD) : At(i) = OPCODE}
      Seen(converted) == {i \in opcodes : converted \cap (i - LOOK_AHEAD)..(i - 1) = {}}
      Left(converted) == Seen(converted) \ converted
      Masked(converted, i) == IF i = 1 THEN g.prev_mask ELSE i - 1 \in Left(converted)
      \* What the loop converts on its way: i is decided by what it did before i.
      all == CHOOSE converted \in SUBSET opcodes :
               converted = {i \in Seen(converted) :
                              /\ MsByte(At(i + LOOK_AHEAD))
                              /\ ~(Masked(converted, i) /\ MsByte(At(i + LOOK_AHEAD - 1)))}
      filtered == Max({size - LOOK_AHEAD} \cup {i + LOOK_AHEAD : i \in all})
      Dest(i) == (At(i + 1) - (g.pos + i + LOOK_AHEAD)) % 16
  IN  IF size <= LOOK_AHEAD THEN [bytes |-> bytes, filtered |-> 0, prev_mask |-> g.prev_mask]
      ELSE [bytes |-> [p \in DOMAIN bytes |-> IF p - done - 1 \in all THEN Dest(p - done - 1)
                                                                    ELSE bytes[p]],
            filtered |-> filtered, prev_mask |-> filtered \in Left(all)]

\* (Slip: the position is counted from the beginning of every piece.)
ApplyHere(g, filtered) ==
  [g EXCEPT !.pos = filtered.filtered, !.prev_mask = filtered.prev_mask]

\* bcj_apply(): how far the Block is filtered.
Apply(g, filtered) ==
  [g EXCEPT !.pos = @ + filtered.filtered, !.prev_mask = filtered.prev_mask]

Filtered(block, content) == IF block.bcj THEN bcj_x86(NewBcj, content, 0).bytes ELSE content
-----------------------------------------------------------------------------
VARIABLES
  f,       \* struct xz_dec_bcj; "at": which call of xz_dec_lzma2_run() is under way
  block,   \* the Block
  start,   \* in_start and out_start of xz_dec_run(), and what the call began with
  ret,     \* what the last call returned
  stuck    \* calls in a row that made no progress; one is allow_buf_error

caller == <<f, block, start, ret, stuck>>
vars == <<stream, input, b, z, raw, pc, caller>>

Flip(byte) == IF byte < 16 THEN (byte + 1) % 16 ELSE JUNK
NoCall == [in_pos |-> 0, out |-> <<>>, room |-> 0]

Init ==
  /\ \E t \in Streams :
       LET packed == Pack(t.blocks)
           bytes == packed.bytes \o Trailer
           Is(verdict) == stream =
             [filters |-> [k \in DOMAIN t.blocks |-> [bcj |-> t.blocks[k].bcj, dict |-> t.blocks[k].dict]],
              plans |-> packed.plans, size |-> Len(packed.bytes), verdict |-> verdict,
              content |-> FlattenSeq([k \in DOMAIN t.blocks |->
                                        Filtered(t.blocks[k], packed.contents[k])])]
       IN  \/ Is(t.verdict) /\ input = bytes
           \/ t \in Corrupted /\ Is("unsure") /\ \E i \in DOMAIN packed.bytes :
                                               input = [bytes EXCEPT ![i] = Flip(@)]
  /\ \E need_props \in BOOLEAN :
       z = ResetDecoder(NewDecoder(need_props), stream.filters[1].dict)
  /\ b = [in_pos |-> 0, in_size |-> 0, out |-> <<>>, room |-> 0]
  /\ raw = <<>>
  /\ f = NewBcj
  /\ block = 1
  /\ start = NoCall
  /\ pc = "caller"
  /\ ret = "none"
  /\ stuck = 0

\* The caller goes on as long as it is told that all is well, as xz_read() does.
Call ==
  /\ pc = "caller" /\ ret \in {"none", "XZ_OK"}
  /\ \E n \in Offers, room \in Rooms :
       /\ b' = [b EXCEPT !.in_size = Min({@ + n, Len(input)}), !.room = room]
       /\ start' = [in_pos |-> b.in_pos, out |-> b.out, room |-> room]
  /\ pc' = "dec_block"
  /\ UNCHANGED <<stream, input, z, raw, f, block, ret, stuck>>

\* The end of xz_dec_run().
Return(buf, result) ==
  LET idle == result = "XZ_OK" /\ buf.in_pos = start.in_pos /\ buf.out = start.out
  IN  /\ b' = buf /\ pc' = "caller"
      /\ ret' = IF idle /\ stuck = 1 THEN "XZ_BUF_ERROR" ELSE result
      /\ stuck' = IF idle THEN stuck + 1 ELSE 0
      /\ start' = NoCall
      /\ UNCHANGED <<stream, input, raw>>

\* The filters have returned to dec_block(). After a Block's end the next one follows in
\* the same call, with filters that are reset, if there is memory for its dictionary.
BlockReturns(g, buf, result) ==
  IF result = "XZ_STREAM_END" /\ block < Len(stream.filters)
    THEN \/ /\ z' = ResetDecoder(z, stream.filters[block + 1].dict)
            /\ f' = NewBcj
            /\ block' = block + 1
            /\ pc' = "dec_block" /\ b' = buf
            /\ UNCHANGED <<stream, input, raw, start, ret, stuck>>
         \/ Return(buf, "XZ_MEM_ERROR") /\ f' = g /\ UNCHANGED <<z, block>>
    ELSE Return(buf, result) /\ f' = g /\ UNCHANGED <<z, block>>

CallLzma2(g, buf) ==
  /\ f' = g /\ b' = buf /\ pc' = "run"
  /\ UNCHANGED <<stream, input, z, raw, block, start, ret, stuck>>
-----------------------------------------------------------------------------
(* dec_block() and xz_dec_bcj_run().                                       *)

DecBlock ==
  /\ pc = "dec_block" /\ ~stream.filters[block].bcj
  /\ CallLzma2(f, b)

PlainReturns ==
  /\ pc = "returned" /\ ~stream.filters[block].bcj
  /\ BlockReturns(f, b, z.ret)

\* bcj_flush()
Flushed(g, buf) ==
  LET n == Min({g.filtered, buf.room})
  IN  [f |-> [g EXCEPT !.filtered = @ - n, !.temp = SubSeq(@, n + 1, Len(@))],
       b |-> [buf EXCEPT !.out = @ \o SubSeq(g.temp, 1, n), !.room = @ - n]]

\* The output has no room for more than what is in temp: decode into temp.
BcjToTemp(g, buf) ==
  IF buf.room > 0
    THEN CallLzma2([g EXCEPT !.at = "temp", !.out = buf.out, !.room = buf.room],
                   [buf EXCEPT !.out = g.temp, !.room = TEMP_SIZE - Len(g.temp)])
    ELSE BlockReturns(g, buf, g.ret)

BcjRun ==
  /\ pc = "dec_block" /\ stream.filters[block].bcj
  /\ LET flushed == Flushed(f, b)
         g == flushed.f
         buf == flushed.b
     IN  IF g.filtered > 0 THEN BlockReturns(g, buf, "XZ_OK")
         ELSE IF f.filtered > 0 /\ g.ret = "XZ_STREAM_END" THEN BlockReturns(g, buf, "XZ_STREAM_END")
         ELSE IF Len(g.temp) < buf.room \/ g.temp = <<>>
           THEN CallLzma2([g EXCEPT !.at = "direct", !.out_start = Len(buf.out)],
                          [buf EXCEPT !.out = @ \o g.temp, !.room = @ - Len(g.temp)])
         ELSE BcjToTemp(g, buf)

\* LZMA2 has decoded into the output: filter it there, and take back what is not filtered.
DirectReturns ==
  /\ pc = "returned" /\ stream.filters[block].bcj /\ f.at = "direct"
  /\ LET filtered == bcj_x86(f, b.out, f.out_start)
         done == f.out_start + filtered.filtered
         g == [Apply(f, filtered) EXCEPT !.ret = z.ret]
         all == [b EXCEPT !.out = filtered.bytes]
         held == SubSeq(filtered.bytes, done + 1, Len(filtered.bytes))
         kept == [g EXCEPT !.temp = held]
         buf == [b EXCEPT !.out = SubSeq(filtered.bytes, 1, done), !.room = @ + Len(held)]
     IN  IF z.ret \notin {"XZ_OK", "XZ_STREAM_END"} THEN BlockReturns([f EXCEPT !.ret = z.ret], b, z.ret)
         ELSE IF z.ret = "XZ_STREAM_END" THEN BlockReturns(g, all, "XZ_STREAM_END")
         ELSE IF b.room > 0 THEN BlockReturns(kept, buf, "XZ_OK")
         ELSE BcjToTemp(kept, buf)

TempReturns ==
  /\ pc = "returned" /\ stream.filters[block].bcj /\ f.at = "temp"
  /\ LET back == [b EXCEPT !.out = f.out, !.room = f.room]
         filtered == bcj_x86(f, b.out, f.filtered)
         g == [Apply(f, filtered) EXCEPT
                 !.ret = z.ret, !.temp = filtered.bytes, !.out = <<>>,
                 !.filtered = IF z.ret = "XZ_STREAM_END" THEN Len(b.out) ELSE @ + filtered.filtered]
         flushed == Flushed(g, back)
     IN  IF z.ret \notin {"XZ_OK", "XZ_STREAM_END"}
           THEN BlockReturns([f EXCEPT !.ret = z.ret, !.temp = b.out], back, z.ret)
         ELSE IF flushed.f.filtered > 0 THEN BlockReturns(flushed.f, flushed.b, "XZ_OK")
         ELSE BlockReturns(flushed.f, flushed.b, z.ret)

dec_block ==
  \/ DecBlock \/ PlainReturns
  \/ BcjRun \/ DirectReturns \/ TempReturns
  \/ xz_dec_lzma2_run /\ UNCHANGED caller

Done == pc = "caller" /\ ret \notin {"none", "XZ_OK"} /\ UNCHANGED vars

Next == Call \/ dec_block \/ Done

Spec == Init /\ [][Next]_vars
\* One thread; a call that is made goes on. This is WF_vars(dec_block) written out:
\* dec_block is enabled just within a call, and every step of it changes something.
FairSpec == Spec /\ ([]<>(pc = "caller") \/ []<><<pc # "caller">>_vars)
-----------------------------------------------------------------------------
(* Properties.                                                             *)

Results == {"none", "XZ_OK", "XZ_STREAM_END", "XZ_BUF_ERROR", "XZ_MEM_ERROR", "XZ_DATA_ERROR"}

\* What xz_dec_lzma2.c:27-35 says of the dictionary, where it is true: until the first
\* chunk of a Block the positions are those of the last one.
TypeOK ==
  /\ pc \in {"caller", "dec_block", "run", "main", "flush", "returned"} /\ ret \in Results
  /\ b.in_pos \in 0..b.in_size /\ b.in_size \in 0..Len(input) /\ b.room \in Nat
  /\ z.need_dict_reset \/ LET d == z.dict IN
       /\ d.start <= d.pos /\ d.pos <= d.full /\ d.full <= d.end
       /\ pc \notin {"main", "flush"} => d.pos < d.end \/ z.ret = "XZ_DATA_ERROR"
       /\ pc = "main" => d.limit <= d.end
  /\ Len(z.temp) <= z.compressed
  /\ z.lzma.len > 0 => z.uncompressed > 0 \/ z.ret = "XZ_DATA_ERROR"
  /\ f.filtered <= Len(f.temp) /\ Len(f.temp) <= TEMP_SIZE
  /\ stuck \in 0..2

\* The dictionary is the last bytes decoded, whatever was copied, matched, wrapped or
\* pending, in what portions and with which resets: a distance that is allowed leads to
\* the byte that lies so far back, and never into memory that was not written.
DictionaryIsHistory ==
  ~z.need_dict_reset =>
    /\ z.dict.full = Min({Len(raw), z.dict.end})
    /\ \A dist \in 0..(z.dict.full - 1) : dict_get(z.dict, dist) = raw[Len(raw) - dist]

\* Nothing is checked per byte: LZMA_IN_REQUIRED, 3 * LZMA_IN_REQUIRED bytes of temp and
\* dict_limit() have to be enough for whatever the bytes decode to.
StaysInBuffers ==
  /\ z.rc.in_pos <= (IF z.rc.src = "temp" THEN 3 * LZMA_IN_REQUIRED ELSE b.in_size)
  /\ pc \in {"main", "flush"} => z.dict.pos <= z.dict.limit /\ z.dict.pos - z.dict.start <= b.room

\* A chunk that lacks a reset, has no such properties, reaches back too far or is not of
\* the size it says never passes, wherever the input was split.
BadIsNoticed == stream.verdict = "bad" => ret # "XZ_STREAM_END"

busy == pc # "caller"
Contract == INSTANCE Decoder WITH
  content <- stream.content, size <- stream.size, sound <- stream.verdict = "good",
  given <- b.in_size,
  used <- IF busy THEN start.in_pos ELSE b.in_pos,
  out <- IF busy THEN start.out ELSE b.out,
  room <- start.room, idle <- stuck

\* Seen from its caller the chain of filters is a decoder: what a sound stream holds comes
\* out as it is, and a call pauses only for want of input or room, although LZMA2 keeps
\* input and BCJ output back.
ImplementsDecoder == Contract!Spec

\* No stream keeps a call for ever: xz_dec_lzma2_run() goes round again without having
\* read or written whenever it expects the next round to.
CallsReturn == []<>(pc = "caller")
=============================================================================
