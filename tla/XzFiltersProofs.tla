-------------------------- MODULE XzFiltersProofs ---------------------------
(***************************************************************************)
(* Proofs about XzFilters, for every set of streams, every way to corrupt  *)
(* a byte, every dictionary size and every way to cut the input and the    *)
(* output into portions.                                                   *)
(***************************************************************************)
EXTENDS XzFilters, XzLzma2Proofs

-----------------------------------------------------------------------------
(* The invariant.                                                          *)

\* struct xz_dec_bcj.
BcjType ==
  [ret : {"XZ_OK", "XZ_STREAM_END", "XZ_DATA_ERROR"}, pos : Nat, prev_mask : BOOLEAN,
   temp : Seq(Nat), filtered : Nat, out_start : Nat, out : Seq(Nat), room : Nat,
   at : {"none", "direct", "temp"}]

\* What is in temp fits there, and what is filtered is in it.
BcjOK(g) == g \in BcjType /\ g.filtered <= Len(g.temp) /\ Len(g.temp) <= TEMP_SIZE

\* What BCJ relies on when LZMA2 returns to it.
BcjCalls(g, buf) ==
  /\ g.filtered = 0
  /\ g.at \in {"direct", "temp"}
  /\ g.at = "direct" => g.out_start <= Len(buf.out)
  /\ g.at = "temp" => Len(buf.out) + buf.room = TEMP_SIZE

\* What the caller and dec_block() have been told: a call goes on only while all is well.
CallInv ==
  /\ pc \in {"caller", "dec_block", "run", "main", "flush", "returned"} /\ ret \in Results
  /\ pc # "caller" => ret \in {"none", "XZ_OK"}
  /\ Alive(z) \/ pc = "returned" \/ (pc = "caller" /\ ret = "XZ_DATA_ERROR")
  /\ stuck \in 0..2 /\ (stuck = 2 => pc = "caller" /\ ret = "XZ_BUF_ERROR")
  /\ block \in 1..Len(stream.filters)

\* The inductive invariant.
IInv ==
  /\ StreamInv
  /\ BufferOK(b)
  /\ raw \in Seq(Nat)
  /\ Sound(pc, z, b, raw)
  /\ BcjOK(f)
  /\ InLzma2(pc) /\ stream.filters[block].bcj => BcjCalls(f, b)
  /\ CallInv

-----------------------------------------------------------------------------
(* bcj_x86(): there is one way to decide what is converted.                *)

\* The opcodes that none of C conceals, and that C is all of them whose operand is plain, or
\* doubtful behind no other.
Unconcealed(opcodes, C) == {i \in opcodes : C \cap ((i - LOOK_AHEAD)..(i - 1)) = {}}
AllConverted(C, opcodes, plain, doubtful, before) ==
  \A i \in opcodes :
    i \in C <=> /\ i \in Unconcealed(opcodes, C) /\ i \in plain
               /\ ~(/\ i = 1 => i \in before
                    /\ i # 1 => i - 1 \in Unconcealed(opcodes, C) \ C
                    /\ i \in doubtful)

\* bcj_x86() decides from left to right: there is one set of opcodes that it converts.
LEMMA ConvertedExists ==
  ASSUME NEW m \in Nat, NEW opcodes \in SUBSET (1..m), NEW plain, NEW doubtful, NEW before
  PROVE  \E C \in SUBSET opcodes : AllConverted(C, opcodes, plain, doubtful, before)
<1> DEFINE Free(C, i) == C \cap ((i - LOOK_AHEAD)..(i - 1)) = {}
           Missed(C, i) == i \in opcodes /\ Free(C, i) /\ i \notin C
           Mask(C, i) == IF i = 1 THEN i \in before ELSE Missed(C, i - 1)
           Converts(C, i) == Free(C, i) /\ i \in plain /\ ~(Mask(C, i) /\ i \in doubtful)
           Right(C, n) == \A i \in opcodes : i <= n => (i \in C <=> Converts(C, i))
           Known == {n \in Nat : \E C \in SUBSET opcodes : Right(C, n) /\ \A i \in C : i <= n}
<1>1. \A i \in opcodes : i \in Nat /\ 1 <= i /\ i <= m
  OBVIOUS
<1>2. ASSUME NEW C \in SUBSET opcodes, NEW D \in SUBSET opcodes, NEW i \in Nat,
             \A j \in opcodes : j < i => (j \in C <=> j \in D)
      PROVE  Free(C, i) <=> Free(D, i)
  <2>1. \A j \in C \cup D : j \in (i - LOOK_AHEAD)..(i - 1) => (j \in C <=> j \in D)
    BY <1>1, <1>2 DEF LOOK_AHEAD
  <2>2. QED
    BY <2>1
<1> HIDE DEF Free
<1>3. ASSUME NEW C \in SUBSET opcodes, NEW D \in SUBSET opcodes, NEW i \in opcodes,
             \A j \in opcodes : j < i => (j \in C <=> j \in D)
      PROVE  Converts(C, i) <=> Converts(D, i)
  <2>1. Free(C, i) <=> Free(D, i)
    BY <1>1, <1>2, <1>3
  <2>2. i # 1 => (Missed(C, i - 1) <=> Missed(D, i - 1))
    <3> SUFFICES ASSUME i # 1 PROVE Missed(C, i - 1) <=> Missed(D, i - 1)
      OBVIOUS
    <3>1. i - 1 \in Nat /\ i - 1 < i /\ \A j \in opcodes : j < i - 1 => j < i
      BY <1>1
    <3>2. Free(C, i - 1) <=> Free(D, i - 1)
      BY <1>2, <1>3, <3>1
    <3>3. QED
      BY <1>3, <3>1, <3>2
  <2> HIDE DEF Missed
  <2>3. QED
    BY <2>1, <2>2
<1> HIDE DEF Converts
<1>4. 0 \in Known
  <2>1. Right({}, 0)
    BY <1>1
  <2>2. QED
    BY <2>1
<1>5. ASSUME NEW n \in Nat, n \in Known PROVE n + 1 \in Known
  <2>1. PICK C \in SUBSET opcodes : Right(C, n) /\ \A i \in C : i <= n
    BY <1>5
  <2> DEFINE D == IF n + 1 \in opcodes /\ Converts(C, n + 1) THEN C \cup {n + 1} ELSE C
  <2>2. D \in SUBSET opcodes /\ \A i \in D : i <= n + 1
    BY <1>1, <2>1
  <2>3. \A j \in opcodes : j <= n => (j \in C <=> j \in D)
    BY <1>1
  <2>4. n + 1 \in D <=> n + 1 \in opcodes /\ Converts(C, n + 1)
    <3>1. n + 1 \notin C
      BY <1>1, <2>1
    <3>2. QED
      BY <3>1
  <2> HIDE DEF D
  <2>5. ASSUME NEW i \in opcodes, i <= n + 1 PROVE i \in D <=> Converts(D, i)
    <3>1. \A j \in opcodes : j < i => (j \in C <=> j \in D)
      BY <1>1, <2>3, <2>5
    <3>2. Converts(C, i) <=> Converts(D, i)
      BY <1>3, <2>2, <3>1
    <3>3. CASE i = n + 1
      BY <2>4, <2>5, <3>2, <3>3
    <3>4. CASE i # n + 1
      <4>1. i <= n
        BY <1>1, <2>5, <3>4
      <4>2. QED
        BY <2>1, <2>3, <3>2, <4>1
    <3>5. QED
      BY <3>3, <3>4
  <2>6. Right(D, n + 1)
    BY <2>5
  <2> HIDE DEF Right
  <2>7. QED
    BY <2>2, <2>6
<1>6. Nat \subseteq Known
  <2> HIDE DEF Known
  <2>1. QED
    BY <1>4, <1>5, SetInduction
<1>7. PICK C \in SUBSET opcodes : Right(C, m)
  BY <1>6
<1>8. \A i \in opcodes : i \in C <=> Converts(C, i)
  BY <1>1, <1>7
<1>9. AllConverted(C, opcodes, plain, doubtful, before)
  BY <1>8 DEF Converts, Free, AllConverted, Unconcealed
<1>10. QED
  BY <1>9

\* bcj_x86() keeps the length, and leaves no more than its look-ahead unfiltered.
LEMMA BcjX86Is ==
  ASSUME NEW g \in BcjType, NEW bytes \in Seq(Nat), NEW done \in Nat, done <= Len(bytes)
  PROVE  LET r == bcj_x86(g, bytes, done) IN
         /\ r.bytes \in Seq(Nat) /\ Len(r.bytes) = Len(bytes)
         /\ r.filtered \in Nat /\ r.prev_mask \in BOOLEAN
         /\ done + r.filtered <= Len(bytes)
         /\ Len(bytes) - (done + r.filtered) <= LOOK_AHEAD
<1> DEFINE size == Len(bytes) - done
           At(i) == bytes[done + i]
           opcodes == {i \in 1..(size - LOOK_AHEAD) : At(i) = OPCODE}
           Seen(converted) == {i \in opcodes : converted \cap ((i - LOOK_AHEAD)..(i - 1)) = {}}
           Left(converted) == Seen(converted) \ converted
           Masked(converted, i) == IF i = 1 THEN g.prev_mask ELSE i - 1 \in Left(converted)
           all == CHOOSE converted \in SUBSET opcodes :
                    converted = {i \in Seen(converted) :
                                   /\ MsByte(At(i + LOOK_AHEAD))
                                   /\ ~(Masked(converted, i) /\ MsByte(At(i + LOOK_AHEAD - 1)))}
           filtered == Max({size - LOOK_AHEAD} \cup {i + LOOK_AHEAD : i \in all})
           Dest(i) == (At(i + 1) - (g.pos + i + LOOK_AHEAD)) % 16
           new == [p \in DOMAIN bytes |-> IF p - done - 1 \in all THEN Dest(p - done - 1) ELSE bytes[p]]
           r == bcj_x86(g, bytes, done)
<1>1. r = IF size <= LOOK_AHEAD THEN [bytes |-> bytes, filtered |-> 0, prev_mask |-> g.prev_mask]
          ELSE [bytes |-> new, filtered |-> filtered, prev_mask |-> filtered \in Left(all)]
  BY DEF bcj_x86
<1> HIDE DEF r
<1>2. Len(bytes) \in Nat /\ g.prev_mask \in BOOLEAN /\ g.pos \in Nat
  BY DEF BcjType
<1>3. CASE size <= LOOK_AHEAD
  <2>1. r.bytes = bytes /\ r.filtered = 0 /\ r.prev_mask = g.prev_mask
    BY <1>1, <1>3
  <2>2. done + 0 <= Len(bytes) /\ Len(bytes) - (done + 0) <= LOOK_AHEAD
    BY <1>2, <1>3
  <2>3. QED
    BY <1>2, <2>1, <2>2 DEF r
<1>4. CASE ~(size <= LOOK_AHEAD)
  <2>1. PICK s \in Nat : s = size /\ s > 2
    BY <1>2, <1>4 DEF LOOK_AHEAD
  <2>2. PICK m \in Nat : m = size - LOOK_AHEAD /\ m = s - 2
    BY <2>1 DEF LOOK_AHEAD
  <2>3. opcodes \in SUBSET (1..m)
    BY <2>2
  <2> HIDE DEF opcodes
  <2>4. all \in SUBSET opcodes
    <3> DEFINE plain == {i \in opcodes : MsByte(At(i + LOOK_AHEAD))}
               doubtful == {i \in opcodes : MsByte(At(i + LOOK_AHEAD - 1))}
               before == {i \in opcodes : g.prev_mask}
    <3> HIDE DEF plain, doubtful, before
    <3>1. PICK C \in SUBSET opcodes : AllConverted(C, opcodes, plain, doubtful, before)
      BY <2>3, ConvertedExists
    <3>2. C = {i \in Seen(C) : /\ MsByte(At(i + LOOK_AHEAD))
                               /\ ~(Masked(C, i) /\ MsByte(At(i + LOOK_AHEAD - 1)))}
      <4> HIDE DEF At
      <4>1. Seen(C) = Unconcealed(opcodes, C)
        BY DEF Unconcealed
      <4> HIDE DEF Seen
      <4>2. ASSUME NEW i \in opcodes
            PROVE  i \in C <=> /\ i \in Seen(C) /\ MsByte(At(i + LOOK_AHEAD))
                              /\ ~(Masked(C, i) /\ MsByte(At(i + LOOK_AHEAD - 1)))
        BY <3>1, <4>1 DEF AllConverted, plain, doubtful, before
      <4>3. \A i \in Seen(C) : i \in opcodes
        BY <4>1 DEF Unconcealed
      <4> HIDE DEF Masked
      <4>4. QED
        BY <4>2, <4>3
    <3> HIDE DEF Seen, Masked, At
    <3>3. QED
      BY <3>2
  <2> HIDE DEF all
  <2>5. \A i \in all : i \in 1..m
    BY <2>3, <2>4
  <2>6. filtered \in Nat /\ m <= filtered /\ filtered <= s
    <3> DEFINE S == {m} \cup {i + 2 : i \in all}
    <3>1. filtered = Max(S)
      BY <2>2 DEF LOOK_AHEAD
    <3>2. S \subseteq 0..s /\ S # {} /\ m \in S
      BY <2>2, <2>5
    <3> HIDE DEF S, filtered
    <3>3. Max(S) \in S /\ \A i \in S : i <= Max(S)
      BY <3>2, MaxIs
    <3>4. Max(S) \in 0..s /\ m <= Max(S)
      BY <3>2, <3>3
    <3>5. QED
      BY <3>1, <3>4
  <2> HIDE DEF filtered
  <2>7. new \in Seq(Nat) /\ Len(new) = Len(bytes)
    <3>1. DOMAIN bytes = 1..Len(bytes)
      OBVIOUS
    <3>2. ASSUME NEW p \in 1..Len(bytes) PROVE new[p] \in Nat
      <4>1. new[p] = IF p - done - 1 \in all THEN Dest(p - done - 1) ELSE bytes[p]
        BY <3>1
      <4>2. bytes[p] \in Nat
        BY ElementOfSeq
      <4>3. ASSUME p - done - 1 \in all PROVE Dest(p - done - 1) \in Nat
        <5>1. PICK i \in 1..m : i = p - done - 1
          BY <2>5, <4>3
        <5>2. done + (i + 1) \in 1..Len(bytes)
          BY <1>2, <2>1, <2>2, <5>1
        <5>3. PICK at \in Nat : at = bytes[done + (i + 1)]
          BY <5>2, ElementOfSeq
        <5>4. PICK q \in Int : q = at - (g.pos + i + LOOK_AHEAD)
          BY <1>2 DEF LOOK_AHEAD
        <5>5. q % 16 \in Nat
          OBVIOUS
        <5>6. QED
          BY <5>1, <5>3, <5>4, <5>5
      <4> HIDE DEF Dest, new
      <4>4. QED
        BY <4>1, <4>2, <4>3
    <3>3. new = [p \in 1..Len(bytes) |-> new[p]]
      BY <3>1
    <3> HIDE DEF new
    <3>4. QED
      BY <1>2, <3>2, <3>3
  <2> HIDE DEF new, Left
  <2>8. r.bytes = new /\ r.filtered = filtered
    BY <1>1, <1>4
  <2>9. r.prev_mask \in BOOLEAN
    BY <1>1, <1>4
  <2>10. done + filtered <= Len(bytes) /\ Len(bytes) - (done + filtered) <= LOOK_AHEAD
    <3>1. PICK l \in Nat : l = Len(bytes) /\ l = s + done
      BY <1>2, <2>1
    <3>2. m = s - 2
      BY <2>2
    <3>3. done + filtered <= l /\ l - (done + filtered) <= 2
      BY <2>6, <3>1, <3>2
    <3>4. QED
      BY <3>1, <3>3 DEF LOOK_AHEAD
  <2>11. QED
    BY <2>6, <2>7, <2>8, <2>9, <2>10 DEF r
<1>5. QED
  BY <1>3, <1>4

-----------------------------------------------------------------------------
(* Where calls return and Blocks end.                                      *)

\* Out of lzma_main() the decoder is sound wherever the caller is, as the input only grows.
LEMMA IdleSound ==
  ASSUME NEW label, ~Decoding(label), NEW other, ~Decoding(other), NEW x, NEW buf, NEW to, NEW history,
         Sound(label, x, buf, history), buf.in_size \in Nat, to.in_size \in Nat, buf.in_size <= to.in_size
  PROVE  Sound(other, x, to, history)
<1>1. Typed(x) /\ DictInv(label, x, history) /\ ChunkInv(x) /\ RcInv(label, x, buf)
  BY DEF Sound
<1>2. DictInv(other, x, history)
  BY <1>1 DEF DictInv
<1>3. RoundInv(other, x, to)
  BY DEF RoundInv
<1>4. RcInv(other, x, to)
  <2>1. x.rc.in_pos <= (IF x.rc.src = "temp" THEN 3 * LZMA_IN_REQUIRED ELSE buf.in_size)
    BY <1>1 DEF RcInv
  <2>2. x.rc.in_pos \in Nat
    BY <1>1, Fields DEF RcType
  <2>3. x.rc.in_pos <= (IF x.rc.src = "temp" THEN 3 * LZMA_IN_REQUIRED ELSE to.in_size)
    BY <2>1, <2>2
  <2>4. other # "main"
    BY DEF Decoding
  <2>5. QED
    BY <2>3, <2>4 DEF RcInv
<1>5. QED
  BY <1>1, <1>2, <1>3, <1>4 DEF Sound

\* The fields of struct xz_dec_bcj by their types.
LEMMA BcjFields ==
  ASSUME NEW g, BcjOK(g)
  PROVE  /\ g \in BcjType /\ g.ret \in {"XZ_OK", "XZ_STREAM_END", "XZ_DATA_ERROR"}
         /\ g.pos \in Nat /\ g.temp \in Seq(Nat) /\ Len(g.temp) \in Nat /\ g.filtered \in Nat
         /\ g.out_start \in Nat /\ g.out \in Seq(Nat) /\ g.room \in Nat
         /\ g.filtered <= Len(g.temp) /\ Len(g.temp) <= TEMP_SIZE
BY DEF BcjOK, BcjType

\* A new Block begins with nothing known.
LEMMA ResetDecoderSound ==
  ASSUME NEW x, Typed(x), NEW size \in Nat \ {0}, NEW buf, BufferOK(buf), NEW history,
         x.rc.in_pos <= (IF x.rc.src = "temp" THEN 3 * LZMA_IN_REQUIRED ELSE buf.in_size)
  PROVE  Sound("run", ResetDecoder(x, size), buf, history) /\ ResetDecoder(x, size).ret = x.ret
<1> DEFINE junk == [i \in 0..(size - 1) |-> JUNK]
           d == [x.dict EXCEPT !.buf = junk, !.end = size]
           l == [x.lzma EXCEPT !.len = 0]
           y == ResetDecoder(x, size)
<1>1. PICK old \in Nat \ {0} : old = x.dict.end /\ x.dict \in DictType(old) /\ x \in DecoderType(old)
  BY Fields DEF Typed
<1>2. junk \in [0..(size - 1) -> Nat]
  BY DEF JUNK
<1> HIDE DEF junk
<1>3. d \in DictType(size) /\ d.end = size
  <2>1. PICK e \in DictType(old) : e = x.dict
    BY <1>1
  <2>2. d = [e EXCEPT !.buf = junk, !.end = size]
    BY <2>1
  <2> HIDE DEF d
  <2>3. QED
    BY <1>2, <2>2 DEF DictType
<1>4. l \in LzmaType /\ l.len = 0
  <2>1. PICK m \in LzmaType : m = x.lzma
    BY Fields
  <2>2. l = [m EXCEPT !.len = 0]
    BY <2>1
  <2> HIDE DEF l
  <2>3. QED
    BY <2>2 DEF LzmaType
<1>5. PICK q \in DecoderType(old) : q = x
  BY <1>1
<1>6. y = [q EXCEPT !.dict = d, !.lzma = l, !.sequence = "SEQ_CONTROL", !.need_dict_reset = TRUE,
                    !.temp = <<>>]
  BY <1>5 DEF ResetDecoder, DecoderType, junk
<1> HIDE DEF y, d, l
<1>7. /\ Typed(y) /\ y.dict = d /\ y.lzma = l /\ y.rc = q.rc /\ y.ret = q.ret
      /\ y.sequence = "SEQ_CONTROL" /\ y.need_dict_reset = TRUE /\ y.temp = <<>>
  <2>1. <<>> \in Seq(Nat)
    OBVIOUS
  <2>2. QED
    BY <1>3, <1>4, <1>6, <2>1 DEF Typed, DecoderType, ChunkStates
<1>8. y.rc.in_pos <= (IF y.rc.src = "temp" THEN 3 * LZMA_IN_REQUIRED ELSE buf.in_size)
  BY <1>5, <1>7
<1>9. Sound("run", y, buf, history)
  BY <1>4, <1>7, <1>8, SoundOutside
<1>10. QED
  BY <1>5, <1>7, <1>9 DEF y

\* Around xz_dec_lzma2_run(): where dec_block() and xz_dec_bcj_run() decide.
Deciding == IInv /\ pc \in {"dec_block", "returned"}
Decided(buf) == BufferOK(buf) /\ buf.in_size = b.in_size

\* What is known there.
LEMMA AtDecision ==
  ASSUME Deciding, NEW buf, Decided(buf), NEW label, ~Decoding(label)
  PROVE  /\ StreamInv /\ BufferOK(b) /\ raw \in Seq(Nat) /\ Typed(z)
         /\ Sound(label, z, buf, raw)
         /\ z.rc.in_pos <= (IF z.rc.src = "temp" THEN 3 * LZMA_IN_REQUIRED ELSE buf.in_size)
         /\ ret \in {"none", "XZ_OK"} /\ stuck \in {0, 1} /\ block \in 1..Len(stream.filters)
<1>1. StreamInv /\ BufferOK(b) /\ raw \in Seq(Nat) /\ Sound(pc, z, b, raw) /\ CallInv
  BY DEF Deciding, IInv
<1>2. pc # "caller" /\ ~Decoding(pc)
  BY DEF Deciding, Decoding
<1>3. ret \in {"none", "XZ_OK"} /\ stuck \in {0, 1} /\ block \in 1..Len(stream.filters)
  BY <1>1, <1>2 DEF CallInv
<1>4. Sound(label, z, buf, raw)
  <2>1. b.in_size \in Nat /\ buf.in_size = b.in_size
    BY <1>1, BufFields DEF Decided
  <2>2. QED
    BY <1>1, <1>2, <2>1, IdleSound
<1>5. QED
  BY <1>1, <1>3, <1>4 DEF Sound, RcInv

\* xz_dec_run() returns to its caller.
LEMMA ReturnSound ==
  ASSUME Deciding, NEW g, BcjOK(g), NEW buf, Decided(buf),
         NEW result \in {"XZ_OK", "XZ_STREAM_END", "XZ_MEM_ERROR", "XZ_DATA_ERROR"},
         Alive(z) \/ result = "XZ_DATA_ERROR",
         Return(buf, result), f' = g, UNCHANGED <<z, block>>
  PROVE  IInv'
<1>1. /\ StreamInv /\ raw \in Seq(Nat) /\ Sound("caller", z, buf, raw)
      /\ stuck \in {0, 1} /\ block \in 1..Len(stream.filters)
  BY AtDecision DEF Decoding
<1>2. /\ b' = buf /\ pc' = "caller" /\ stream' = stream /\ input' = input /\ raw' = raw
      /\ z' = z /\ block' = block /\ f' = g
  BY DEF Return
<1>3. StreamInv' /\ BufferOK(b)' /\ (raw \in Seq(Nat))' /\ BcjOK(f)'
  BY <1>1, <1>2 DEF StreamInv, BufferOK, BcjOK, Decided
<1>4. Sound(pc', z', b', raw')
  BY <1>1, <1>2
<1>5. /\ ret' \in Results /\ stuck' \in 0..2 /\ (stuck' = 2 => ret' = "XZ_BUF_ERROR")
      /\ Alive(z') \/ ret' = "XZ_DATA_ERROR"
  <2> DEFINE idle == result = "XZ_OK" /\ buf.in_pos = start.in_pos /\ buf.out = start.out
  <2>1. /\ ret' = IF idle /\ stuck = 1 THEN "XZ_BUF_ERROR" ELSE result
        /\ stuck' = IF idle THEN stuck + 1 ELSE 0
    BY DEF Return
  <2>2. CASE idle
    BY <1>1, <1>2, <2>1, <2>2 DEF Results
  <2>3. CASE ~idle
    BY <1>1, <1>2, <2>1, <2>3 DEF Results
  <2>4. QED
    BY <2>2, <2>3
<1>6. CallInv'
  BY <1>1, <1>2, <1>5 DEF CallInv
<1>7. ~InLzma2(pc')
  BY <1>2 DEF InLzma2
<1>8. QED
  BY <1>3, <1>4, <1>6, <1>7 DEF IInv

\* A Block ends, and another begins or none, or the call returns.
LEMMA BlockReturnsSound ==
  ASSUME Deciding, NEW g, BcjOK(g), NEW buf, Decided(buf),
         NEW result \in {"XZ_OK", "XZ_STREAM_END", "XZ_DATA_ERROR"},
         Alive(z) \/ result = "XZ_DATA_ERROR",
         BlockReturns(g, buf, result)
  PROVE  IInv'
<1>1. CASE Return(buf, result) /\ f' = g /\ UNCHANGED <<z, block>>
  BY <1>1, ReturnSound
<1>2. CASE result = "XZ_STREAM_END" /\ Return(buf, "XZ_MEM_ERROR") /\ f' = g /\ UNCHANGED <<z, block>>
  BY <1>2, ReturnSound
<1>3. CASE /\ result = "XZ_STREAM_END" /\ block < Len(stream.filters)
           /\ z' = ResetDecoder(z, stream.filters[block + 1].dict)
           /\ f' = NewBcj
           /\ block' = block + 1
           /\ pc' = "dec_block" /\ b' = buf
           /\ UNCHANGED <<stream, input, raw, start, ret, stuck>>
  <2>1. /\ StreamInv /\ raw \in Seq(Nat) /\ Typed(z)
        /\ z.rc.in_pos <= (IF z.rc.src = "temp" THEN 3 * LZMA_IN_REQUIRED ELSE buf.in_size)
        /\ ret \in {"none", "XZ_OK"} /\ stuck \in {0, 1} /\ block \in 1..Len(stream.filters)
    <3>1. ~Decoding("caller")
      BY DEF Decoding
    <3>2. QED
      BY <3>1, AtDecision
  <2>2. block + 1 \in 1..Len(stream.filters)
    <3>1. Len(stream.filters) \in Nat
      BY <2>1 DEF StreamInv
    <3>2. QED
      BY <1>3, <2>1, <3>1
  <2>3. PICK size \in Nat \ {0} : size = stream.filters[block + 1].dict
    <3>1. stream.filters[block + 1] \in [bcj : BOOLEAN, dict : Nat \ {0}]
      BY <2>1, <2>2, ElementOfSeq, ZenonT(60) DEF StreamInv
    <3>2. QED
      BY <3>1
  <2>4. Sound("run", z', buf, raw) /\ Alive(z')
    <3>1. BufferOK(buf)
      BY DEF Decided
    <3>2. Sound("run", ResetDecoder(z, size), buf, raw) /\ ResetDecoder(z, size).ret = z.ret
      BY <2>1, <3>1, ResetDecoderSound
    <3>3. QED
      BY <1>3, <2>3, <3>2 DEF Alive
  <2>5. Sound(pc', z', b', raw')
    <3>1. buf.in_size \in Nat
      BY BufFields DEF Decided
    <3>2. ~Decoding("run") /\ ~Decoding("dec_block") /\ buf.in_size <= buf.in_size
      BY <3>1 DEF Decoding
    <3>3. Sound("dec_block", z', buf, raw)
      BY <2>4, <3>1, <3>2, IdleSound
    <3>4. QED
      BY <1>3, <3>3
  <2>6. StreamInv' /\ BufferOK(b)' /\ (raw \in Seq(Nat))'
    BY <1>3, <2>1 DEF StreamInv, BufferOK, Decided
  <2>7. BcjOK(f)'
    <3>1. BcjOK(NewBcj)
      <4>1. <<>> \in Seq(Nat) /\ Len(<<>>) = 0
        OBVIOUS
      <4>2. QED
        BY <4>1 DEF BcjOK, NewBcj, BcjType, TEMP_SIZE, LOOK_AHEAD
    <3>2. QED
      BY <1>3, <3>1 DEF BcjOK
  <2>8. CallInv'
    BY <1>3, <2>1, <2>2, <2>4 DEF CallInv, Results
  <2>9. ~InLzma2(pc')
    BY <1>3 DEF InLzma2
  <2>10. QED
    BY <2>5, <2>6, <2>7, <2>8, <2>9 DEF IInv
<1>4. QED
  BY <1>1, <1>2, <1>3 DEF BlockReturns

\* A call of xz_dec_lzma2_run().
LEMMA CallLzma2Sound ==
  ASSUME Deciding, NEW g, BcjOK(g), NEW buf, Decided(buf), Alive(z),
         stream.filters[block].bcj => BcjCalls(g, buf),
         CallLzma2(g, buf)
  PROVE  IInv'
<1>1. /\ StreamInv /\ raw \in Seq(Nat) /\ Sound("run", z, buf, raw)
      /\ ret \in {"none", "XZ_OK"} /\ stuck \in {0, 1} /\ block \in 1..Len(stream.filters)
  <2>1. ~Decoding("run")
    BY DEF Decoding
  <2>2. QED
    BY <2>1, AtDecision
<1>2. /\ b' = buf /\ pc' = "run" /\ stream' = stream /\ input' = input /\ raw' = raw
      /\ z' = z /\ block' = block /\ f' = g /\ ret' = ret /\ stuck' = stuck
  BY DEF CallLzma2
<1>3. StreamInv' /\ BufferOK(b)' /\ (raw \in Seq(Nat))' /\ BcjOK(f)'
  BY <1>1, <1>2 DEF StreamInv, BufferOK, BcjOK, Decided
<1>4. Sound(pc', z', b', raw')
  BY <1>1, <1>2
<1>5. CallInv'
  BY <1>1, <1>2 DEF CallInv, Results
<1>6. stream'.filters[block'].bcj => BcjCalls(f', b')
  BY <1>2
<1>7. QED
  BY <1>3, <1>4, <1>5, <1>6 DEF IInv, BcjCalls

-----------------------------------------------------------------------------
(* xz_dec_bcj_run().                                                       *)

\* bcj_flush() gives out what is filtered and leaves the rest.
LEMMA FlushedIs ==
  ASSUME NEW g, BcjOK(g), NEW buf, BufferOK(buf)
  PROVE  LET flushed == Flushed(g, buf) IN
         /\ BcjOK(flushed.f) /\ BufferOK(flushed.b) /\ flushed.b.in_size = buf.in_size
         /\ flushed.f.ret = g.ret /\ flushed.f.at = g.at
<1>1. /\ g \in BcjType /\ g.temp \in Seq(Nat) /\ Len(g.temp) \in Nat /\ g.filtered \in Nat
      /\ g.filtered <= Len(g.temp) /\ Len(g.temp) <= TEMP_SIZE /\ buf.room \in Nat
      /\ buf \in BufType
  BY BcjFields, BufFields
<1> DEFINE n == Min({g.filtered, buf.room})
<1>2. n \in Nat /\ n <= g.filtered /\ n <= buf.room
  <2>1. PICK i \in Nat, j \in Nat : i = g.filtered /\ j = buf.room
    BY <1>1
  <2>2. Min({i, j}) = IF i <= j THEN i ELSE j
    BY MinOfTwo
  <2>3. n = Min({i, j})
    BY <2>1
  <2> HIDE DEF n
  <2>4. QED
    BY <2>1, <2>2, <2>3
<1> DEFINE h == [g EXCEPT !.filtered = @ - n, !.temp = SubSeq(@, n + 1, Len(@))]
           to == [buf EXCEPT !.out = @ \o SubSeq(g.temp, 1, n), !.room = @ - n]
<1>3. Flushed(g, buf).f = h /\ Flushed(g, buf).b = to
  BY DEF Flushed
<1> HIDE DEF n
<1>4. PICK l \in Nat, k \in Nat, left \in Nat :
        l = Len(g.temp) /\ k = g.filtered - n /\ left = l - n /\ k <= left /\ left <= l
  <2>1. PICK l \in Nat, i \in Nat : l = Len(g.temp) /\ i = g.filtered
    BY <1>1
  <2>2. n <= i /\ i <= l
    BY <1>1, <1>2, <2>1
  <2>3. i - n \in Nat /\ l - n \in Nat /\ i - n <= l - n /\ l - n <= l
    BY <1>2, <2>2
  <2>4. QED
    BY <2>1, <2>3
<1>5. PICK temp \in Seq(Nat) : temp = SubSeq(g.temp, n + 1, Len(g.temp)) /\ Len(temp) = left
  <2>1. n + left = Len(g.temp)
    BY <1>2, <1>4
  <2>2. SubSeq(g.temp, n + 1, n + left) \in Seq(Nat) /\ Len(SubSeq(g.temp, n + 1, n + left)) = left
    BY <1>1, <1>2, <2>1, SubTyped
  <2>3. QED
    BY <2>1, <2>2
<1>6. PICK head \in Seq(Nat) : head = SubSeq(g.temp, 1, n) /\ Len(head) = n
  <2>1. 0 + n <= Len(g.temp)
    BY <1>1, <1>2
  <2>2. SubSeq(g.temp, 0 + 1, 0 + n) \in Seq(Nat) /\ Len(SubSeq(g.temp, 0 + 1, 0 + n)) = n
    BY <1>1, <1>2, <2>1, SubTyped, SMTT(30)
  <2>3. 0 + 1 = 1 /\ 0 + n = n
    BY <1>2
  <2>4. QED
    BY <2>2, <2>3
<1>7. BcjOK(h) /\ h.ret = g.ret /\ h.at = g.at
  <2>1. PICK q \in BcjType : q = g
    BY <1>1
  <2>2. h = [q EXCEPT !.filtered = k, !.temp = temp]
    BY <1>4, <1>5, <2>1
  <2> HIDE DEF h
  <2>3. h \in BcjType /\ h.filtered = k /\ h.temp = temp /\ h.ret = q.ret /\ h.at = q.at
    BY <2>2 DEF BcjType
  <2>4. l <= TEMP_SIZE
    BY <1>1, <1>4
  <2>5. left <= TEMP_SIZE
    BY <1>4, <2>4 DEF TEMP_SIZE, LOOK_AHEAD
  <2>6. QED
    BY <1>4, <1>5, <2>1, <2>3, <2>5 DEF BcjOK
<1>8. BufferOK(to) /\ to.in_size = buf.in_size
  <2>1. PICK t \in BufType : t = buf
    BY <1>1
  <2>2. to = [t EXCEPT !.out = @ \o head, !.room = @ - n]
    BY <1>6, <2>1
  <2> HIDE DEF to
  <2>3. to = [in_pos |-> t.in_pos, in_size |-> t.in_size, out |-> t.out \o head, room |-> t.room - n]
    BY <2>2 DEF BufType
  <2>4. BufferOK(t) /\ n <= t.room
    BY <1>2, <2>1
  <2>5. QED
    BY <1>2, <1>6, <2>1, <2>3, <2>4, PutOut
<1> HIDE DEF h, to
<1>9. QED
  BY <1>3, <1>7, <1>8

\* Into temp, which has room for what it does not hold.
LEMMA BcjToTempSound ==
  ASSUME Deciding, NEW g, BcjOK(g), g.filtered = 0, NEW buf, Decided(buf), Alive(z),
         BcjToTemp(g, buf)
  PROVE  IInv'
<1>1. CASE buf.room > 0
  <2> DEFINE h == [g EXCEPT !.at = "temp", !.out = buf.out, !.room = buf.room]
             to == [buf EXCEPT !.out = g.temp, !.room = TEMP_SIZE - Len(g.temp)]
  <2>1. CallLzma2(h, to)
    BY <1>1 DEF BcjToTemp
  <2>2. /\ g \in BcjType /\ g.temp \in Seq(Nat) /\ Len(g.temp) \in Nat /\ Len(g.temp) <= TEMP_SIZE
    BY BcjFields
  <2>3. PICK t \in BufType : t = buf /\ BufferOK(t)
    BY BufFields DEF Decided
  <2>4. BcjOK(h) /\ h.filtered = 0 /\ h.at = "temp" /\ h.temp = g.temp
    <3>1. PICK q \in BcjType : q = g
      BY <2>2
    <3>2. PICK out \in Seq(Nat), room \in Nat : out = t.out /\ room = t.room
      BY DEF BufType
    <3>3. h = [q EXCEPT !.at = "temp", !.out = out, !.room = room]
      BY <2>3, <3>1, <3>2
    <3> HIDE DEF h
    <3>4. h \in BcjType /\ h.filtered = q.filtered /\ h.at = "temp" /\ h.temp = q.temp
      BY <3>3 DEF BcjType
    <3>5. QED
      BY <3>1, <3>4 DEF BcjOK
  <2>5. PICK room \in Nat : room = TEMP_SIZE - Len(g.temp) /\ Len(g.temp) + room = TEMP_SIZE
    <3>1. PICK l \in Nat : l = Len(g.temp)
      BY <2>2
    <3>2. l <= 5
      BY <2>2, <3>1 DEF TEMP_SIZE, LOOK_AHEAD
    <3>3. 5 - l \in Nat /\ l + (5 - l) = 5
      BY <3>2
    <3>4. TEMP_SIZE = 5
      BY DEF TEMP_SIZE, LOOK_AHEAD
    <3>5. QED
      BY <3>1, <3>3, <3>4
  <2>6. /\ to \in BufType /\ to.in_pos = t.in_pos /\ to.in_size = t.in_size
        /\ to.out = g.temp /\ to.room = room
    <3>1. PICK temp \in Seq(Nat) : temp = g.temp
      BY <2>2
    <3>2. to = [t EXCEPT !.out = temp, !.room = room]
      BY <2>3, <2>5, <3>1
    <3> HIDE DEF to
    <3>3. QED
      BY <3>1, <3>2 DEF BufType
  <2> HIDE DEF h, to
  <2>7. Decided(to)
    BY <2>3, <2>6 DEF Decided, BufferOK
  <2>8. BcjCalls(h, to)
    BY <2>4, <2>5, <2>6 DEF BcjCalls
  <2>9. QED
    BY <2>1, <2>4, <2>7, <2>8, CallLzma2Sound
<1>2. CASE ~(buf.room > 0)
  <2>1. BlockReturns(g, buf, g.ret)
    BY <1>2 DEF BcjToTemp
  <2>2. g.ret \in {"XZ_OK", "XZ_STREAM_END", "XZ_DATA_ERROR"}
    BY BcjFields
  <2>3. QED
    BY <2>1, <2>2, BlockReturnsSound
<1>3. QED
  BY <1>1, <1>2

\* xz_dec_bcj_run() until it calls LZMA2 or returns.
LEMMA BcjRunSound ==
  ASSUME IInv, BcjRun
  PROVE  IInv'
<1> DEFINE g == Flushed(f, b).f
           buf == Flushed(f, b).b
<1>1. /\ pc = "dec_block" /\ stream.filters[block].bcj
      /\ IF g.filtered > 0 THEN BlockReturns(g, buf, "XZ_OK")
         ELSE IF f.filtered > 0 /\ g.ret = "XZ_STREAM_END" THEN BlockReturns(g, buf, "XZ_STREAM_END")
         ELSE IF Len(g.temp) < buf.room \/ g.temp = <<>>
           THEN CallLzma2([g EXCEPT !.at = "direct", !.out_start = Len(buf.out)],
                          [buf EXCEPT !.out = @ \o g.temp, !.room = @ - Len(g.temp)])
         ELSE BcjToTemp(g, buf)
  BY DEF BcjRun
<1>2. Deciding /\ BcjOK(f) /\ BufferOK(b) /\ Alive(z)
  BY <1>1 DEF Deciding, IInv, CallInv
<1>3. BcjOK(g) /\ Decided(buf)
  BY <1>2, FlushedIs DEF Decided
<1> HIDE DEF g, buf
<1>4. CASE BlockReturns(g, buf, "XZ_OK") \/ BlockReturns(g, buf, "XZ_STREAM_END")
  BY <1>2, <1>3, <1>4, BlockReturnsSound
<1>5. /\ g \in BcjType /\ g.temp \in Seq(Nat) /\ Len(g.temp) \in Nat /\ g.filtered \in Nat
      /\ BufferOK(buf) /\ buf \in BufType /\ buf.room \in Nat /\ Len(buf.out) \in Nat /\ buf.out \in Seq(Nat)
  BY <1>3, BcjFields, BufFields DEF Decided
<1>6. CASE BcjToTemp(g, buf) /\ ~(g.filtered > 0)
  <2>1. g.filtered = 0
    BY <1>5, <1>6
  <2>2. QED
    BY <1>2, <1>3, <1>6, <2>1, BcjToTempSound
<1> DEFINE h == [g EXCEPT !.at = "direct", !.out_start = Len(buf.out)]
           to == [buf EXCEPT !.out = @ \o g.temp, !.room = @ - Len(g.temp)]
<1>7. CASE CallLzma2(h, to) /\ ~(g.filtered > 0) /\ (Len(g.temp) < buf.room \/ g.temp = <<>>)
  <2>1. BcjOK(h) /\ h.filtered = 0 /\ h.at = "direct" /\ h.out_start = Len(buf.out)
    <3>1. PICK q \in BcjType : q = g
      BY <1>5
    <3>2. PICK l \in Nat : l = Len(buf.out)
      BY <1>5
    <3>3. h = [q EXCEPT !.at = "direct", !.out_start = l]
      BY <3>1, <3>2
    <3>4. q.filtered = 0
      BY <1>5, <1>7, <3>1
    <3> HIDE DEF h
    <3>5. h \in BcjType /\ h.filtered = 0 /\ h.at = "direct" /\ h.out_start = l /\ h.temp = q.temp
      BY <3>3, <3>4 DEF BcjType
    <3>6. QED
      BY <1>3, <3>1, <3>2, <3>4, <3>5 DEF BcjOK
  <2>2. /\ BufferOK(to) /\ to.in_size = buf.in_size /\ Len(buf.out) <= Len(to.out)
    <3>1. PICK t \in BufType : t = buf
      BY <1>5
    <3>2. PICK n \in Nat : n = Len(g.temp) /\ n <= buf.room
      <4>1. CASE g.temp = <<>>
        <5>1. Len(g.temp) = 0
          BY <4>1
        <5>2. QED
          BY <1>5, <5>1
      <4>2. CASE Len(g.temp) < buf.room
        BY <1>5, <4>2
      <4>3. QED
        BY <1>7, <4>1, <4>2
    <3>3. PICK temp \in Seq(Nat) : temp = g.temp /\ Len(temp) = n
      BY <1>5, <3>2
    <3>4. to = [t EXCEPT !.out = @ \o temp, !.room = @ - n]
      BY <3>1, <3>2, <3>3
    <3> HIDE DEF to
    <3>5. to = [in_pos |-> t.in_pos, in_size |-> t.in_size, out |-> t.out \o temp, room |-> t.room - n]
      BY <3>4 DEF BufType
    <3>6. BufferOK(t) /\ n <= t.room
      BY <1>5, <3>1, <3>2
    <3>7. BufferOK(to) /\ OutGrows(t, to) /\ to.in_size = t.in_size
      BY <3>3, <3>5, <3>6, PutOut
    <3>8. QED
      BY <1>5, <3>1, <3>7, BufFields DEF OutGrows
  <2> HIDE DEF h, to
  <2>3. Decided(to)
    BY <1>3, <2>2 DEF Decided
  <2>4. BcjCalls(h, to)
    BY <2>1, <2>2 DEF BcjCalls
  <2>5. QED
    BY <1>2, <1>7, <2>1, <2>3, <2>4, CallLzma2Sound
<1> HIDE DEF h, to
<1>8. QED
  BY <1>1, <1>4, <1>6, <1>7 DEF h, to

\* The result of xz_dec_lzma2_run(), on which the filter decides.
LEMMA AtReturn ==
  ASSUME IInv, pc = "returned", stream.filters[block].bcj
  PROVE  /\ Deciding /\ BcjOK(f) /\ BcjCalls(f, b) /\ BufferOK(b) /\ Decided(b)
         /\ z.ret \in {"XZ_OK", "XZ_STREAM_END", "XZ_DATA_ERROR"}
         /\ Alive(z) \/ z.ret = "XZ_DATA_ERROR"
<1>1. /\ BcjOK(f) /\ BcjCalls(f, b) /\ BufferOK(b) /\ Sound(pc, z, b, raw)
  BY DEF IInv, InLzma2
<1>2. z.ret \in {"XZ_OK", "XZ_STREAM_END", "XZ_DATA_ERROR"}
  BY <1>1 DEF Sound, Typed, DecoderType
<1>3. QED
  BY <1>1, <1>2 DEF Deciding, Decided, Alive

\* What bcj_apply() leaves of the filter.
LEMMA ApplyIs ==
  ASSUME NEW g, BcjOK(g), NEW r, r.filtered \in Nat, r.prev_mask \in BOOLEAN,
         NEW result \in {"XZ_OK", "XZ_STREAM_END", "XZ_DATA_ERROR"}
  PROVE  LET h == [Apply(g, r) EXCEPT !.ret = result] IN
         /\ BcjOK(h) /\ h.filtered = g.filtered /\ h.temp = g.temp /\ h.out = g.out /\ h.room = g.room
<1> DEFINE h == [Apply(g, r) EXCEPT !.ret = result]
<1>1. PICK q \in BcjType : q = g
  BY BcjFields
<1>2. PICK pos \in Nat : pos = g.pos + r.filtered
  BY BcjFields
<1>3. PICK mask \in BOOLEAN : mask = r.prev_mask
  OBVIOUS
<1>4. h = [q EXCEPT !.pos = pos, !.prev_mask = mask, !.ret = result]
  BY <1>1, <1>2, <1>3 DEF Apply
<1> HIDE DEF h
<1>5. h \in BcjType /\ h.filtered = q.filtered /\ h.temp = q.temp /\ h.out = q.out /\ h.room = q.room
  BY <1>4 DEF BcjType
<1>6. QED
  BY <1>1, <1>5 DEF BcjOK, h

\* The output is filtered where it is, and what is not filtered is taken back into temp.
LEMMA DirectReturnsSound ==
  ASSUME IInv, DirectReturns
  PROVE  IInv'
<1> DEFINE filtered == bcj_x86(f, b.out, f.out_start)
           done == f.out_start + filtered.filtered
           g == [Apply(f, filtered) EXCEPT !.ret = z.ret]
           all == [b EXCEPT !.out = filtered.bytes]
           held == SubSeq(filtered.bytes, done + 1, Len(filtered.bytes))
           kept == [g EXCEPT !.temp = held]
           buf == [b EXCEPT !.out = SubSeq(filtered.bytes, 1, done), !.room = @ + Len(held)]
           failed == [f EXCEPT !.ret = z.ret]
<1>1. /\ pc = "returned" /\ stream.filters[block].bcj /\ f.at = "direct"
      /\ IF z.ret \notin {"XZ_OK", "XZ_STREAM_END"} THEN BlockReturns(failed, b, z.ret)
         ELSE IF z.ret = "XZ_STREAM_END" THEN BlockReturns(g, all, "XZ_STREAM_END")
         ELSE IF b.room > 0 THEN BlockReturns(kept, buf, "XZ_OK")
         ELSE BcjToTemp(kept, buf)
  BY DEF DirectReturns
<1>2. /\ Deciding /\ BcjOK(f) /\ BcjCalls(f, b) /\ BufferOK(b) /\ Decided(b)
      /\ z.ret \in {"XZ_OK", "XZ_STREAM_END", "XZ_DATA_ERROR"}
      /\ Alive(z) \/ z.ret = "XZ_DATA_ERROR"
  BY <1>1, AtReturn
<1>3. f.filtered = 0 /\ f.out_start <= Len(b.out) /\ f \in BcjType /\ f.out_start \in Nat
      /\ b.out \in Seq(Nat) /\ b \in BufType /\ Len(b.out) \in Nat
  BY <1>1, <1>2, BcjFields, BufFields DEF BcjCalls
<1>4. /\ filtered.bytes \in Seq(Nat) /\ Len(filtered.bytes) = Len(b.out)
      /\ filtered.filtered \in Nat /\ filtered.prev_mask \in BOOLEAN
      /\ f.out_start + filtered.filtered <= Len(b.out)
      /\ Len(b.out) - (f.out_start + filtered.filtered) <= LOOK_AHEAD
  BY <1>3, BcjX86Is
<1> HIDE DEF filtered
<1>5. PICK bytes \in Seq(Nat) : bytes = filtered.bytes
  BY <1>4
<1>6. PICK d \in Nat, k \in Nat : d = done /\ d + k = Len(bytes) /\ k <= LOOK_AHEAD
  <2>1. PICK o \in Nat, n \in Nat, l \in Nat : o = f.out_start /\ n = filtered.filtered /\ l = Len(b.out)
    BY <1>3, <1>4
  <2>2. o + n \in Nat /\ o + n <= l
    BY <1>4, <2>1
  <2>3. l - (o + n) \in Nat /\ (o + n) + (l - (o + n)) = l
    BY <2>2
  <2>4. l = Len(bytes) /\ done = o + n
    BY <1>4, <1>5, <2>1
  <2>5. l - (o + n) <= LOOK_AHEAD
    BY <1>4, <2>1
  <2>6. QED
    BY <2>2, <2>3, <2>4, <2>5
<1>7. BcjOK(g) /\ g.filtered = 0
  BY <1>2, <1>3, <1>4, ApplyIs
<1>8. BcjOK(failed)
  <2>1. PICK q \in BcjType, r \in {"XZ_OK", "XZ_STREAM_END", "XZ_DATA_ERROR"} : q = f /\ r = z.ret
    BY <1>2, <1>3
  <2>2. failed = [q EXCEPT !.ret = r]
    BY <2>1
  <2> HIDE DEF failed
  <2>3. failed \in BcjType /\ failed.filtered = q.filtered /\ failed.temp = q.temp
    BY <2>2 DEF BcjType
  <2>4. QED
    BY <1>2, <2>1, <2>3 DEF BcjOK
<1>9. CASE BlockReturns(failed, b, z.ret)
  <2> HIDE DEF failed
  <2>1. QED
    BY <1>2, <1>8, <1>9, BlockReturnsSound
<1>10. PICK t \in BufType : t = b
  BY <1>3
<1>11. Decided(all)
  <2>1. all = [t EXCEPT !.out = bytes]
    BY <1>5, <1>10
  <2> HIDE DEF all
  <2>2. all \in BufType /\ all.in_pos = t.in_pos /\ all.in_size = t.in_size
    BY <2>1 DEF BufType
  <2>3. QED
    BY <1>2, <1>10, <2>2 DEF Decided, BufferOK
<1>12. CASE BlockReturns(g, all, "XZ_STREAM_END") /\ z.ret = "XZ_STREAM_END"
  <2>1. Alive(z)
    BY <1>12 DEF Alive
  <2> HIDE DEF g, all
  <2>2. QED
    BY <1>2, <1>7, <1>11, <1>12, <2>1, BlockReturnsSound
<1>13. held \in Seq(Nat) /\ Len(held) = k
  <2>1. SubSeq(bytes, d + 1, d + k) \in Seq(Nat) /\ Len(SubSeq(bytes, d + 1, d + k)) = k
    <3>1. d + k <= Len(bytes)
      BY <1>6
    <3>2. QED
      BY <3>1, SubTyped
  <2>2. QED
    BY <1>5, <1>6, <2>1
<1>14. PICK out \in Seq(Nat) : out = SubSeq(filtered.bytes, 1, done)
  <2>1. SubSeq(bytes, 0 + 1, 0 + d) \in Seq(Nat)
    <3>1. 0 \in Nat /\ 0 + d <= Len(bytes)
      <4>1. Len(bytes) \in Nat
        OBVIOUS
      <4>2. QED
        BY <1>6, <4>1
    <3>2. QED
      BY <3>1, SubTyped, Zenon
  <2>2. 0 + 1 = 1 /\ 0 + d = d
    OBVIOUS
  <2>3. QED
    BY <1>5, <1>6, <2>1, <2>2
<1> HIDE DEF held, done
<1>15. BcjOK(kept) /\ kept.filtered = 0
  <2> HIDE DEF g
  <2>1. PICK q \in BcjType, temp \in Seq(Nat) : q = g /\ temp = held
    BY <1>7, <1>13, BcjFields
  <2>2. kept = [q EXCEPT !.temp = temp]
    BY <2>1
  <2> HIDE DEF kept
  <2>3. kept \in BcjType /\ kept.filtered = q.filtered /\ kept.temp = temp
    BY <2>2 DEF BcjType
  <2>4. TEMP_SIZE = 5 /\ LOOK_AHEAD = 2
    BY DEF TEMP_SIZE, LOOK_AHEAD
  <2>5. 0 <= k /\ k <= TEMP_SIZE
    BY <1>6, <2>4
  <2>6. QED
    BY <1>7, <1>13, <2>1, <2>3, <2>5 DEF BcjOK
<1>16. Decided(buf)
  <2>1. PICK room \in Nat : room = t.room + Len(held)
    BY <1>13 DEF BufType
  <2>2. buf = [t EXCEPT !.out = out, !.room = room]
    BY <1>10, <1>14, <2>1
  <2> HIDE DEF buf
  <2>3. buf \in BufType /\ buf.in_pos = t.in_pos /\ buf.in_size = t.in_size
    BY <2>2 DEF BufType
  <2>4. QED
    BY <1>2, <1>10, <2>3 DEF Decided, BufferOK
<1> HIDE DEF kept, buf
<1>17. CASE BlockReturns(kept, buf, "XZ_OK") /\ z.ret = "XZ_OK"
  <2>1. Alive(z)
    BY <1>17 DEF Alive
  <2>2. QED
    BY <1>2, <1>15, <1>16, <1>17, <2>1, BlockReturnsSound
<1>18. CASE BcjToTemp(kept, buf) /\ z.ret = "XZ_OK"
  <2>1. Alive(z)
    BY <1>18 DEF Alive
  <2>2. QED
    BY <1>2, <1>15, <1>16, <1>18, <2>1, BcjToTempSound
<1> HIDE DEF failed, g, all
<1>19. QED
  BY <1>1, <1>2, <1>9, <1>12, <1>17, <1>18

\* temp is filtered, and given out as far as it goes.
LEMMA TempReturnsSound ==
  ASSUME IInv, TempReturns
  PROVE  IInv'
<1> DEFINE back == [b EXCEPT !.out = f.out, !.room = f.room]
           filtered == bcj_x86(f, b.out, f.filtered)
           applied == [Apply(f, filtered) EXCEPT !.ret = z.ret]
           g == [Apply(f, filtered) EXCEPT
                   !.ret = z.ret, !.temp = filtered.bytes, !.out = <<>>,
                   !.filtered = IF z.ret = "XZ_STREAM_END" THEN Len(b.out) ELSE @ + filtered.filtered]
           flushed == Flushed(g, back)
           failed == [f EXCEPT !.ret = z.ret, !.temp = b.out]
<1>1. /\ pc = "returned" /\ stream.filters[block].bcj /\ f.at = "temp"
      /\ IF z.ret \notin {"XZ_OK", "XZ_STREAM_END"} THEN BlockReturns(failed, back, z.ret)
         ELSE IF flushed.f.filtered > 0 THEN BlockReturns(flushed.f, flushed.b, "XZ_OK")
         ELSE BlockReturns(flushed.f, flushed.b, z.ret)
  BY DEF TempReturns
<1>2. /\ Deciding /\ BcjOK(f) /\ BcjCalls(f, b) /\ BufferOK(b) /\ Decided(b)
      /\ z.ret \in {"XZ_OK", "XZ_STREAM_END", "XZ_DATA_ERROR"}
      /\ Alive(z) \/ z.ret = "XZ_DATA_ERROR"
  BY <1>1, AtReturn
<1>3. /\ f.filtered = 0 /\ Len(b.out) + b.room = TEMP_SIZE /\ f \in BcjType
      /\ b.out \in Seq(Nat) /\ b \in BufType /\ Len(b.out) \in Nat /\ b.room \in Nat
  BY <1>1, <1>2, BcjFields, BufFields DEF BcjCalls
<1>4. Len(b.out) <= TEMP_SIZE
  <2>1. PICK l \in Nat, r \in Nat : l = Len(b.out) /\ r = b.room
    BY <1>3
  <2>2. l <= l + r
    OBVIOUS
  <2>3. QED
    BY <1>3, <2>1, <2>2
<1>5. /\ filtered.bytes \in Seq(Nat) /\ Len(filtered.bytes) = Len(b.out)
      /\ filtered.filtered \in Nat /\ filtered.prev_mask \in BOOLEAN
      /\ f.filtered + filtered.filtered <= Len(b.out)
  <2>1. 0 \in Nat /\ f.filtered <= Len(b.out) /\ f.filtered \in Nat
    BY <1>3
  <2>2. QED
    BY <1>3, <2>1, BcjX86Is
<1> HIDE DEF filtered
<1>6. PICK t \in BufType : t = b
  BY <1>3
<1>7. PICK q \in BcjType : q = f
  BY <1>3
<1>8. Decided(back)
  <2>1. PICK out \in Seq(Nat), room \in Nat : out = q.out /\ room = q.room
    BY DEF BcjType
  <2>2. back = [t EXCEPT !.out = out, !.room = room]
    BY <1>6, <1>7, <2>1
  <2> HIDE DEF back
  <2>3. back \in BufType /\ back.in_pos = t.in_pos /\ back.in_size = t.in_size
    BY <2>2 DEF BufType
  <2>4. QED
    BY <1>2, <1>6, <2>3 DEF Decided, BufferOK
<1> HIDE DEF back
<1>9. PICK result \in {"XZ_OK", "XZ_STREAM_END", "XZ_DATA_ERROR"} : result = z.ret
  BY <1>2
<1>10. PICK bytes \in Seq(Nat), out \in Seq(Nat) : bytes = filtered.bytes /\ out = b.out
  BY <1>3, <1>5
<1>11. BcjOK(failed)
  <2>1. failed = [q EXCEPT !.ret = result, !.temp = out]
    BY <1>7, <1>9, <1>10
  <2> HIDE DEF failed
  <2>2. failed \in BcjType /\ failed.filtered = q.filtered /\ failed.temp = out
    BY <2>1 DEF BcjType
  <2>3. failed.filtered <= Len(out) /\ Len(out) <= TEMP_SIZE
    BY <1>3, <1>4, <1>7, <1>10, <2>2
  <2>4. QED
    BY <2>2, <2>3 DEF BcjOK
<1> HIDE DEF failed
<1>12. CASE BlockReturns(failed, back, z.ret)
  BY <1>2, <1>8, <1>11, <1>12, BlockReturnsSound
<1>13. BcjOK(applied) /\ applied.filtered = 0
  BY <1>2, <1>3, <1>5, ApplyIs
<1>14. PICK n \in Nat : /\ n = IF z.ret = "XZ_STREAM_END" THEN Len(b.out) ELSE filtered.filtered
                        /\ n <= Len(b.out)
  BY <1>3, <1>5
<1>15. BcjOK(g)
  <2>1. PICK a \in BcjType : a = applied
    BY <1>13, BcjFields
  <2>2. <<>> \in Seq(Nat)
    OBVIOUS
  <2>3. g = [a EXCEPT !.temp = bytes, !.out = <<>>, !.filtered = n]
    <3>1. Apply(f, filtered) = [q EXCEPT !.pos = @ + filtered.filtered, !.prev_mask = filtered.prev_mask]
      BY <1>7 DEF Apply
    <3>2. Apply(f, filtered).filtered = 0
      BY <1>3, <1>7, <3>1 DEF BcjType
    <3>3. 0 + filtered.filtered = filtered.filtered
      BY <1>5
    <3>4. n = IF z.ret = "XZ_STREAM_END" THEN Len(b.out)
              ELSE Apply(f, filtered).filtered + filtered.filtered
      BY <1>14, <3>2, <3>3
    <3>5. PICK p \in Nat, mask \in BOOLEAN : p = q.pos + filtered.filtered /\ mask = filtered.prev_mask
      BY <1>5, SMTT(30) DEF BcjType
    <3>6. Apply(f, filtered) = [q EXCEPT !.pos = p, !.prev_mask = mask]
      BY <3>1, <3>5
    <3>7. g = [[q EXCEPT !.pos = p, !.prev_mask = mask] EXCEPT
                 !.ret = result, !.temp = bytes, !.out = <<>>, !.filtered = n]
      BY <1>9, <1>10, <3>4, <3>6
    <3>8. a = [[q EXCEPT !.pos = p, !.prev_mask = mask] EXCEPT !.ret = result]
      BY <1>9, <2>1, <3>6
    <3> HIDE DEF g
    <3>9. QED
      BY <3>7, <3>8 DEF BcjType
  <2> HIDE DEF g
  <2>4. g \in BcjType /\ g.filtered = n /\ g.temp = bytes
    BY <2>2, <2>3 DEF BcjType
  <2>5. n <= Len(bytes) /\ Len(bytes) <= TEMP_SIZE
    BY <1>4, <1>5, <1>10, <1>14
  <2>6. QED
    BY <2>4, <2>5 DEF BcjOK
<1> HIDE DEF g
<1>16. BcjOK(flushed.f) /\ Decided(flushed.b)
  <2>1. BufferOK(back) /\ back.in_size = b.in_size
    BY <1>8 DEF Decided
  <2>2. QED
    BY <1>15, <2>1, FlushedIs DEF Decided
<1> HIDE DEF flushed
<1>17. CASE z.ret \in {"XZ_OK", "XZ_STREAM_END"} /\ BlockReturns(flushed.f, flushed.b, "XZ_OK")
  <2>1. Alive(z)
    BY <1>17 DEF Alive
  <2>2. QED
    BY <1>2, <1>16, <1>17, <2>1, BlockReturnsSound
<1>18. CASE z.ret \in {"XZ_OK", "XZ_STREAM_END"} /\ BlockReturns(flushed.f, flushed.b, z.ret)
  BY <1>2, <1>16, <1>18, BlockReturnsSound
<1>19. QED
  BY <1>1, <1>12, <1>17, <1>18

-----------------------------------------------------------------------------
(* The steps together.                                                     *)

\* dec_block() of a Block without BCJ.
LEMMA PlainSound ==
  ASSUME IInv, DecBlock \/ PlainReturns
  PROVE  IInv'
<1>1. CASE DecBlock
  <2>1. /\ pc = "dec_block" /\ ~stream.filters[block].bcj /\ CallLzma2(f, b)
    BY <1>1 DEF DecBlock
  <2>2. Deciding /\ BcjOK(f) /\ Decided(b) /\ Alive(z)
    BY <2>1 DEF Deciding, Decided, IInv, CallInv
  <2>3. QED
    BY <2>1, <2>2, CallLzma2Sound
<1>2. CASE PlainReturns
  <2>1. pc = "returned" /\ BlockReturns(f, b, z.ret)
    BY <1>2 DEF PlainReturns
  <2>2. /\ Deciding /\ BcjOK(f) /\ Decided(b) /\ Sound(pc, z, b, raw)
    BY <2>1 DEF Deciding, Decided, IInv
  <2>3. z.ret \in {"XZ_OK", "XZ_STREAM_END", "XZ_DATA_ERROR"}
    BY <2>2, SMTT(30) DEF Sound, Typed, DecoderType
  <2>4. QED
    BY <2>1, <2>2, <2>3, BlockReturnsSound DEF Alive
<1>3. QED
  BY <1>1, <1>2

\* Where the steps of xz_dec_lzma2_run() begin.
LEMMA Lzma2Begins ==
  ASSUME xz_dec_lzma2_run
  PROVE  pc \in {"run", "main", "flush"}
BY Zenon DEF xz_dec_lzma2_run, RunOutOfInput, Control, Sizes, Properties, PrepareAgain, Copy, LzmaRun,
       MainRepeat, MainSymbol, MainReturns, Flush, Running

\* A step of LZMA2 among the filters.
LEMMA Lzma2Sound ==
  ASSUME IInv, xz_dec_lzma2_run, UNCHANGED caller
  PROVE  IInv'
<1>1. pc \in {"run", "main", "flush"}
  BY Lzma2Begins
<1>2. Before
  BY <1>1 DEF Before, IInv, CallInv
<1>3. After
  BY <1>2, Lzma2Step
<1>4. /\ stream' = stream /\ input' = input /\ f' = f /\ block' = block /\ ret' = ret /\ stuck' = stuck
  BY <1>3 DEF After, caller
<1>5. /\ StreamInv /\ BufferOK(b) /\ BcjOK(f) /\ CallInv
      /\ stream.filters[block].bcj => BcjCalls(f, b)
  BY <1>1 DEF IInv, InLzma2
<1>6. /\ InLzma2(pc') /\ Sound(pc', z', b', raw') /\ BufferOK(b') /\ raw' \in Seq(Nat)
      /\ Alive(z') \/ pc' = "returned"
      /\ OutGrows(b, b')
  BY <1>3 DEF After
<1>7. StreamInv' /\ BufferOK(b)' /\ BcjOK(f)'
  BY <1>4, <1>5, <1>6 DEF StreamInv, BufferOK, BcjOK
<1>8. CallInv'
  BY <1>1, <1>4, <1>5, <1>6 DEF CallInv, InLzma2
<1>9. ASSUME stream'.filters[block'].bcj PROVE BcjCalls(f', b')
  <2>1. BcjCalls(f, b)
    BY <1>4, <1>5, <1>9
  <2>2. Len(b'.out) + b'.room = Len(b.out) + b.room /\ Len(b'.out) >= Len(b.out)
    BY <1>6 DEF OutGrows
  <2>3. f.out_start \in Nat /\ Len(b.out) \in Nat /\ Len(b'.out) \in Nat
    BY <1>5, <1>6, BcjFields, BufFields
  <2>4. f.out_start <= Len(b.out) => f.out_start <= Len(b'.out)
    BY <2>2, <2>3
  <2>5. QED
    BY <1>4, <2>1, <2>2, <2>4 DEF BcjCalls
<1>10. QED
  BY <1>6, <1>7, <1>8, <1>9 DEF IInv, BcjCalls

\* xz_dec_run() is called with more input and some room.
LEMMA CallSound ==
  ASSUME IInv, Call
  PROVE  IInv'
<1>1. /\ StreamInv /\ BufferOK(b) /\ BcjOK(f) /\ CallInv /\ raw \in Seq(Nat) /\ Sound(pc, z, b, raw)
  BY DEF IInv
<1>2. PICK n \in Offers, room \in Rooms :
        b' = [b EXCEPT !.in_size = Min({@ + n, Len(input)}), !.room = room]
  BY Zenon DEF Call
<1>3. /\ pc = "caller" /\ ret \in {"none", "XZ_OK"} /\ pc' = "dec_block"
      /\ stream' = stream /\ input' = input /\ z' = z /\ raw' = raw /\ f' = f /\ block' = block
      /\ ret' = ret /\ stuck' = stuck
  BY DEF Call
<1>4. n \in Nat /\ room \in Nat
  BY CallerAssumption
<1>5. PICK t \in BufType : t = b /\ t.in_size \in Nat /\ t.in_pos \in Nat /\ t.in_pos <= t.in_size
                           /\ t.in_size <= Len(input)
  BY <1>1, BufFields
<1>6. Len(input) \in Nat
  BY <1>1 DEF StreamInv
<1>7. PICK size \in Nat : /\ size = Min({t.in_size + n, Len(input)})
                          /\ t.in_size <= size /\ size <= Len(input)
  <2>1. PICK i \in Nat, l \in Nat : i = t.in_size + n /\ l = Len(input)
    BY <1>4, <1>5, <1>6
  <2>2. Min({i, l}) = IF i <= l THEN i ELSE l
    BY MinOfTwo
  <2>3. t.in_size <= i /\ t.in_size <= l
    BY <1>4, <1>5, <2>1
  <2>4. QED
    BY <2>1, <2>2, <2>3
<1>8. b' = [t EXCEPT !.in_size = size, !.room = room]
  BY <1>2, <1>5, <1>7
<1>9. PICK to \in BufType : to = b' /\ to.in_pos = t.in_pos /\ to.in_size = size
  <2>1. [t EXCEPT !.in_size = size, !.room = room] \in BufType
    BY <1>4 DEF BufType
  <2>2. QED
    BY <1>8, <2>1 DEF BufType
<1>10. BufferOK(to)
  BY <1>5, <1>7, <1>9 DEF BufferOK
<1>11. Sound("dec_block", z, to, raw)
  <2>1. ~Decoding("caller") /\ ~Decoding("dec_block") /\ Sound("caller", z, b, raw)
    BY <1>1, <1>3 DEF Decoding
  <2>2. b.in_size \in Nat /\ to.in_size \in Nat /\ b.in_size <= to.in_size
    BY <1>5, <1>7, <1>9
  <2>3. QED
    BY <2>1, <2>2, IdleSound
<1>12. StreamInv' /\ BufferOK(b)' /\ BcjOK(f)'
  BY <1>1, <1>3, <1>9, <1>10 DEF StreamInv, BufferOK, BcjOK
<1>13. CallInv'
  BY <1>1, <1>3 DEF CallInv, Results
<1>14. ~InLzma2(pc')
  BY <1>3 DEF InLzma2
<1>15. QED
  BY <1>1, <1>3, <1>9, <1>11, <1>12, <1>13, <1>14 DEF IInv

\* Every step keeps the invariant.
LEMMA StepCorrect ==
  ASSUME IInv, [Next]_vars
  PROVE  IInv'
<1>1. CASE Call
  BY <1>1, CallSound
<1>2. CASE DecBlock \/ PlainReturns
  BY <1>2, PlainSound
<1>3. CASE BcjRun
  BY <1>3, BcjRunSound
<1>4. CASE DirectReturns
  BY <1>4, DirectReturnsSound
<1>5. CASE TempReturns
  BY <1>5, TempReturnsSound
<1>6. CASE xz_dec_lzma2_run /\ UNCHANGED caller
  BY <1>6, Lzma2Sound
<1>7. CASE UNCHANGED vars
  <2>1. /\ stream' = stream /\ input' = input /\ b' = b /\ z' = z /\ raw' = raw /\ pc' = pc
        /\ f' = f /\ block' = block /\ start' = start /\ ret' = ret /\ stuck' = stuck
    BY <1>7 DEF vars, caller
  <2>2. QED
    BY <2>1 DEF IInv, StreamInv, BufferOK, BcjOK, BcjCalls, CallInv, InLzma2
<1>8. QED
  BY <1>1, <1>2, <1>3, <1>4, <1>5, <1>6, <1>7 DEF Next, dec_block, Done

-----------------------------------------------------------------------------
(* The beginning, and the theorems.                                        *)

\* xz_dec_lzma2_create() and the first reset make a decoder that is sound.
LEMMA FirstDecoder ==
  ASSUME NEW need_props \in BOOLEAN, NEW size \in Nat \ {0}, NEW buf, BufferOK(buf), NEW history
  PROVE  LET x == ResetDecoder(NewDecoder(need_props), size) IN
         Sound("caller", x, buf, history) /\ Alive(x)
<1> DEFINE junk == [i \in 0..(size - 1) |-> JUNK]
           x == ResetDecoder(NewDecoder(need_props), size)
           d == [buf |-> junk, start |-> 0, pos |-> 0, full |-> 0, limit |-> 0, end |-> size]
           l == [reps |-> <<0, 0, 0, 0>>, literal |-> TRUE, learned |-> 0, len |-> 0, pos_mask |-> 0]
           r == [code |-> <<>>, due |-> 0, decoded |-> 0, init_bytes_left |-> RC_INIT_BYTES,
                 src |-> "in", in |-> <<>>, in_pos |-> 0, in_limit |-> 0]
<1>1. x = [sequence |-> "SEQ_CONTROL", next_sequence |-> "SEQ_COPY", uncompressed |-> 0, compressed |-> 0,
           need_dict_reset |-> TRUE, need_props |-> need_props, dict |-> d, lzma |-> l, rc |-> r,
           temp |-> <<>>, ret |-> "XZ_OK"]
  <2> DEFINE d0 == [buf |-> <<>>, start |-> 0, pos |-> 0, full |-> 0, limit |-> 0, end |-> 0]
             n == NewDecoder(need_props)
  <2>1. n = [sequence |-> "SEQ_CONTROL", next_sequence |-> "SEQ_COPY", uncompressed |-> 0, compressed |-> 0,
             need_dict_reset |-> TRUE, need_props |-> need_props, dict |-> d0, lzma |-> l, rc |-> r,
             temp |-> <<>>, ret |-> "XZ_OK"]
    BY DEF NewDecoder
  <2> HIDE DEF junk
  <2>2. [[d0 EXCEPT !.buf = junk] EXCEPT !.end = size] = d
    <3>1. PICK dict \in [buf : {<<>>, junk}, start : {0}, pos : {0}, full : {0}, limit : {0}, end : Nat] : dict = d0
      OBVIOUS
    <3>2. [dict EXCEPT !.buf = junk] = [buf |-> junk, start |-> 0, pos |-> 0, full |-> 0, limit |-> 0, end |-> 0]
      BY <3>1
    <3>3. PICK next \in [buf : {<<>>, junk}, start : {0}, pos : {0}, full : {0}, limit : {0}, end : Nat] :
            next = [dict EXCEPT !.buf = junk]
      BY <3>2
    <3>4. [next EXCEPT !.end = size] = d
      <4>1. next = [buf |-> junk, start |-> 0, pos |-> 0, full |-> 0, limit |-> 0, end |-> 0]
        BY <3>2, <3>3
      <4>2. QED
        BY <4>1
    <3>5. QED
      BY <3>1, <3>3, <3>4
  <2>3. [l EXCEPT !.len = 0] = l
    OBVIOUS
  <2> HIDE DEF d0, d, l, r
  <2>4. x = [n EXCEPT !.dict = [[n.dict EXCEPT !.buf = junk] EXCEPT !.end = size],
                      !.lzma = [n.lzma EXCEPT !.len = 0], !.sequence = "SEQ_CONTROL",
                      !.need_dict_reset = TRUE, !.temp = <<>>]
    BY <2>1 DEF ResetDecoder, junk
  <2> HIDE DEF n, x
  <2>5. n.dict = d0 /\ n.lzma = l
    BY <2>1
  <2>6. x = [n EXCEPT !.dict = d, !.lzma = l, !.sequence = "SEQ_CONTROL",
                      !.need_dict_reset = TRUE, !.temp = <<>>]
    BY <2>2, <2>3, <2>4, <2>5
  <2>7. QED
    BY <2>1, <2>6
<1>2. <<>> \in Seq(Nat)
  OBVIOUS
<1>3. d \in DictType(size) /\ d.end = size
  <2>1. junk \in [0..(size - 1) -> Nat]
    BY DEF JUNK
  <2> HIDE DEF junk
  <2>2. QED
    BY <2>1 DEF DictType
<1>4. l \in LzmaType /\ l.len = 0
  BY DEF LzmaType
<1>5. r \in RcType /\ r.in_pos = 0 /\ r.src = "in"
  BY <1>2 DEF RcType, RC_INIT_BYTES
<1> HIDE DEF x, d, l, r
<1>6. /\ Typed(x) /\ x.sequence = "SEQ_CONTROL" /\ x.need_dict_reset = TRUE /\ x.temp = <<>>
      /\ x.lzma = l /\ x.rc = r /\ x.ret = "XZ_OK"
  BY <1>1, <1>2, <1>3, <1>4, <1>5 DEF Typed, DecoderType, ChunkStates
<1>7. buf.in_size \in Nat /\ buf.in_size <= buf.in_size
  BY BufFields
<1>8. x.rc.in_pos <= (IF x.rc.src = "temp" THEN 3 * LZMA_IN_REQUIRED ELSE buf.in_size)
  BY <1>5, <1>6, <1>7
<1>9. Sound("run", x, buf, history)
  BY <1>4, <1>6, <1>8, SoundOutside
<1>10. ~Decoding("run") /\ ~Decoding("caller")
  BY DEF Decoding
<1>11. Sound("caller", x, buf, history)
  BY <1>7, <1>9, <1>10, IdleSound
<1>12. QED
  BY <1>6, <1>11 DEF Alive, x

\* The invariant holds of every stream, sound, bad or corrupted, before the first call.
LEMMA InitCorrect ==
  ASSUME Init
  PROVE  IInv
<1> DEFINE bytes(t) == Pack(t.blocks).bytes \o Trailer
<1>1. PICK t \in Streams :
        /\ stream.filters = [k \in DOMAIN t.blocks |-> [bcj |-> t.blocks[k].bcj, dict |-> t.blocks[k].dict]]
        /\ stream.plans = Pack(t.blocks).plans
        /\ \/ input = bytes(t)
           \/ \E i \in DOMAIN Pack(t.blocks).bytes : input = [bytes(t) EXCEPT ![i] = Flip(@)]
  <2>1. PICK t \in Streams :
          \E verdict, content :
            /\ stream = [filters |-> [k \in DOMAIN t.blocks |->
                                      [bcj |-> t.blocks[k].bcj, dict |-> t.blocks[k].dict]],
                         plans |-> Pack(t.blocks).plans, size |-> Len(Pack(t.blocks).bytes),
                         verdict |-> verdict, content |-> content]
            /\ \/ input = bytes(t)
               \/ \E i \in DOMAIN Pack(t.blocks).bytes : input = [bytes(t) EXCEPT ![i] = Flip(@)]
    BY Zenon DEF Init
  <2>2. QED
    BY <2>1
<1>2. /\ b = [in_pos |-> 0, in_size |-> 0, out |-> <<>>, room |-> 0]
      /\ raw = <<>> /\ f = NewBcj /\ block = 1 /\ pc = "caller" /\ ret = "none" /\ stuck = 0
  BY DEF Init
<1>3. PICK blocks \in Seq(BlockType) \ {<<>>} : blocks = t.blocks
  BY <1>1, StreamsAssumption DEF StreamType
<1>4. stream.filters \in Seq([bcj : BOOLEAN, dict : Nat \ {0}]) \ {<<>>}
  <2> DEFINE filters == [k \in 1..Len(blocks) |-> [bcj |-> blocks[k].bcj, dict |-> blocks[k].dict]]
  <2>1. ASSUME NEW k \in 1..Len(blocks)
        PROVE  filters[k] \in [bcj : BOOLEAN, dict : Nat \ {0}]
    <3>1. blocks[k] \in BlockType
      BY ElementOfSeq
    <3>2. QED
      BY <3>1 DEF BlockType
  <2>2. DOMAIN blocks = 1..Len(blocks) /\ Len(blocks) \in Nat /\ Len(blocks) # 0
    OBVIOUS
  <2>3. stream.filters = filters
    BY <1>1, <1>3, <2>2
  <2>4. filters = [k \in 1..Len(blocks) |-> filters[k]]
    OBVIOUS
  <2> HIDE DEF filters
  <2>5. filters \in Seq([bcj : BOOLEAN, dict : Nat \ {0}]) /\ Len(filters) = Len(blocks)
    BY <2>1, <2>2, <2>4, SMTT(30)
  <2>6. QED
    BY <2>2, <2>3, <2>5
<1>5. /\ Pack(t.blocks).bytes \in Seq(Nat)
      /\ \A n \in DOMAIN stream.plans : \A k \in 1..Len(stream.plans[n].steps) :
           stream.plans[n].steps[k].symbol \in SymbolType
  BY <1>1, Packed
<1>6. bytes(t) \in Seq(Nat)
  <2>1. Trailer \in Seq(Nat)
    BY DEF Trailer, LZMA_IN_REQUIRED
  <2>2. QED
    BY <1>5, <2>1, ConcatIs
<1> HIDE DEF bytes
<1>7. input \in Seq(Nat)
  <2>1. CASE input = bytes(t)
    BY <1>6, <2>1
  <2>2. CASE \E i \in DOMAIN Pack(t.blocks).bytes : input = [bytes(t) EXCEPT ![i] = Flip(@)]
    <3>1. PICK i : input = [bytes(t) EXCEPT ![i] = Flip(@)]
      BY <2>2
    <3>2. PICK s \in Seq(Nat) : s = bytes(t)
      BY <1>6
    <3> DEFINE flipped == Flip(s[i])
    <3> HIDE DEF flipped
    <3>0. input = [s EXCEPT ![i] = flipped]
      BY <3>1, <3>2 DEF flipped
    <3>3. ASSUME NEW byte \in Nat PROVE Flip(byte) \in Nat
      BY DEF Flip, JUNK
    <3>4. ASSUME NEW j \in 1..Len(s) PROVE input[j] \in Nat
      <4>1. s[j] \in Nat
        BY ElementOfSeq
      <4>2. input[j] = IF j = i THEN Flip(s[j]) ELSE s[j]
        BY <3>0 DEF flipped
      <4>3. QED
        BY <3>3, <4>1, <4>2
    <3>5. input = [j \in 1..Len(s) |-> input[j]] /\ Len(s) \in Nat
      <4>1. DOMAIN s = 1..Len(s) /\ Len(s) \in Nat
        OBVIOUS
      <4>2. PICK dom : dom = 1..Len(s)
        OBVIOUS
      <4>3. input = [j \in dom |-> input[j]]
        BY <3>0, <4>1, <4>2
      <4>4. QED
        BY <4>1, <4>2, <4>3
    <3>6. QED
      BY <3>4, <3>5
  <2>3. QED
    BY <1>1, <2>1, <2>2
<1>8. StreamInv
  BY <1>4, <1>5, <1>7 DEF StreamInv
<1>9. BufferOK(b) /\ raw \in Seq(Nat)
  <2>1. <<>> \in Seq(Nat) /\ Len(input) \in Nat
    BY <1>7
  <2>2. QED
    BY <1>2, <2>1 DEF BufferOK, BufType
<1>10. 1 \in 1..Len(stream.filters)
  BY <1>4
<1>11. PICK size \in Nat \ {0} : size = stream.filters[1].dict
  <2>1. stream.filters[1] \in [bcj : BOOLEAN, dict : Nat \ {0}]
    BY <1>4, <1>10, ElementOfSeq
  <2>2. QED
    BY <2>1
<1>12. Sound("caller", z, b, raw) /\ Alive(z)
  <2>1. PICK need_props \in BOOLEAN : z = ResetDecoder(NewDecoder(need_props), size)
    BY <1>11 DEF Init
  <2>2. QED
    BY <1>9, <2>1, FirstDecoder
<1>13. BcjOK(f)
  <2>1. <<>> \in Seq(Nat) /\ Len(<<>>) = 0
    OBVIOUS
  <2>2. QED
    BY <1>2, <2>1 DEF BcjOK, NewBcj, BcjType, TEMP_SIZE, LOOK_AHEAD
<1>14. CallInv
  BY <1>2, <1>10, <1>12 DEF CallInv, Results
<1>15. ~InLzma2(pc)
  BY <1>2 DEF InLzma2
<1>16. QED
  BY <1>2, <1>8, <1>9, <1>12, <1>13, <1>14, <1>15 DEF IInv

\* The state a stream leaves the decoder in is the one described above (IInv), whatever is
\* decoded and in what portions.
THEOREM InvariantCorrect == Spec => []IInv
<1>1. Init => IInv
  BY InitCorrect
<1>2. IInv /\ [Next]_vars => IInv'
  BY StepCorrect
<1>3. QED
  BY <1>1, <1>2, PTL DEF Spec

\* xz_dec_lzma2.c:27-35: the positions in the dictionary are in their order, what is kept of
\* the input is of the chunk, and BCJ's small buffer is large enough.
THEOREM TypeCorrect == Spec => []TypeOK
<1>1. IInv => TypeOK
  <2> SUFFICES ASSUME IInv PROVE TypeOK
    OBVIOUS
  <2>1. /\ StreamInv /\ BufferOK(b) /\ BcjOK(f) /\ CallInv /\ Typed(z)
        /\ DictInv(pc, z, raw) /\ RoundInv(pc, z, b) /\ ChunkInv(z)
    BY DEF IInv, Sound
  <2>2. /\ pc \in {"caller", "dec_block", "run", "main", "flush", "returned"} /\ ret \in Results
        /\ stuck \in 0..2
    BY <2>1 DEF CallInv
  <2>3. b.in_pos \in 0..b.in_size /\ b.in_size \in 0..Len(input) /\ b.room \in Nat
    <3>1. Len(input) \in Nat
      BY <2>1 DEF StreamInv
    <3>2. QED
      BY <2>1, <3>1, BufFields
  <2>4. ASSUME ~z.need_dict_reset
        PROVE  LET d == z.dict IN
               /\ d.start <= d.pos /\ d.pos <= d.full /\ d.full <= d.end
               /\ pc \notin {"main", "flush"} => d.pos < d.end \/ z.ret = "XZ_DATA_ERROR"
               /\ pc = "main" => d.limit <= d.end
    BY <2>1, <2>4 DEF DictInv, Holds, RoundInv, Decoding, Alive
  <2>5. Len(z.temp) <= z.compressed
    BY <2>1 DEF ChunkInv
  <2>6. z.lzma.len > 0 => z.uncompressed > 0 \/ z.ret = "XZ_DATA_ERROR"
    BY <2>1 DEF ChunkInv, Alive
  <2>7. f.filtered <= Len(f.temp) /\ Len(f.temp) <= TEMP_SIZE
    BY <2>1 DEF BcjOK
  <2>8. QED
    BY <2>2, <2>3, <2>4, <2>5, <2>6, <2>7 DEF TypeOK
<1>2. QED
  BY <1>1, InvariantCorrect, PTL

\* dict_put(), dict_repeat(), dict_uncompressed(), dict_reset() and dict_flush() between them
\* keep the dictionary the end of what was decoded since its reset: a distance that
\* dict_repeat() lets through leads to the byte that lies so far back.
THEOREM DictionaryIsRight == Spec => []DictionaryIsHistory
<1>1. IInv => DictionaryIsHistory
  <2> SUFFICES ASSUME IInv, ~z.need_dict_reset
               PROVE  /\ z.dict.full = Min({Len(raw), z.dict.end})
                      /\ \A dist \in 0..(z.dict.full - 1) : dict_get(z.dict, dist) = raw[Len(raw) - dist]
    BY DEF DictionaryIsHistory
  <2>1. Typed(z) /\ Holds(z.dict, raw) /\ raw \in Seq(Nat)
    BY DEF IInv, Sound, DictInv
  <2>2. PICK size \in Nat \ {0} : size = z.dict.end /\ z.dict \in DictType(size)
    BY <2>1, Fields
  <2>3. PICK full \in Nat, l \in Nat : full = z.dict.full /\ l = Len(raw)
    BY <2>1, <2>2 DEF DictType
  <2>4. full <= size /\ full <= l /\ (full < size => full = l)
    BY <2>1, <2>2, <2>3 DEF Holds
  <2>5. full = Min({l, size})
    <3>1. Min({l, size}) = IF l <= size THEN l ELSE size
      BY MinOfTwo
    <3>2. QED
      BY <2>4, <3>1
  <2>6. ASSUME NEW dist \in 0..(full - 1)
        PROVE  dict_get(z.dict, dist) = raw[Len(raw) - dist]
    <3>1. full > 0
      BY <2>3, <2>6
    <3>2. dict_get(z.dict, dist) = z.dict.buf[Back(z.dict, dist)]
      BY <2>3, <3>1 DEF dict_get
    <3>3. z.dict.buf[Back(z.dict, dist)] = raw[Len(raw) - dist]
      BY <2>1, <2>3, <2>6 DEF Holds
    <3>4. QED
      BY <3>2, <3>3
  <2>7. QED
    BY <2>2, <2>3, <2>5, <2>6
<1>2. QED
  BY <1>1, InvariantCorrect, PTL

\* No byte is checked against a buffer: the margin of LZMA_IN_REQUIRED bytes, 3 * LZMA_IN_REQUIRED
\* bytes of temp.buf and dict_limit() keep every read and every write inside.
THEOREM BuffersSuffice == Spec => []StaysInBuffers
<1>1. IInv => StaysInBuffers
  <2> SUFFICES ASSUME IInv PROVE StaysInBuffers
    OBVIOUS
  <2>1. Typed(z) /\ DictInv(pc, z, raw) /\ RoundInv(pc, z, b) /\ RcInv(pc, z, b) /\ BufferOK(b)
    BY DEF IInv, Sound
  <2>2. z.rc.in_pos <= (IF z.rc.src = "temp" THEN 3 * LZMA_IN_REQUIRED ELSE b.in_size)
    BY <2>1 DEF RcInv
  <2>3. ASSUME pc \in {"main", "flush"}
        PROVE  z.dict.pos <= z.dict.limit /\ z.dict.pos - z.dict.start <= b.room
    <3>1. z.dict.pos \in Nat /\ z.dict.limit \in Nat /\ z.dict.start \in Nat /\ b.room \in Nat
      BY <2>1, Fields, BufFields DEF DictType
    <3>2. z.dict.pos <= z.dict.limit /\ z.dict.limit - z.dict.start <= b.room
      BY <2>1, <2>3 DEF RoundInv, Decoding
    <3>3. QED
      BY <3>1, <3>2
  <2>4. QED
    BY <2>2, <2>3 DEF StaysInBuffers
<1>2. QED
  BY <1>1, InvariantCorrect, PTL
=============================================================================
