--------------------------- MODULE XzLzma2Proofs ----------------------------
(***************************************************************************)
(* What a step of xz_dec_lzma2_run() keeps: the dictionary holds the end of*)
(* what was decoded since its reset, the round that is under way fits into *)
(* the dictionary, the output and the chunk, and the range decoder reads no*)
(* further than there is input. Lzma2Step says so of every step; module    *)
(* XzFiltersProofs makes an invariant of it. The last sections are about   *)
(* what is decoded: whatever is packed are bytes, and symbols (Packed).    *)
(***************************************************************************)
EXTENDS XzLzma2, SequenceInduction, SequenceTheorems, TLAPS

-----------------------------------------------------------------------------
(* What a decoder is made of, and what is known of it at each label.       *)

\* Of the dictionary: n is its size.
DictType(n) ==
  [buf : [0..(n - 1) -> Nat], start : Nat, pos : Nat, full : Nat, limit : Nat, end : {n}]
\* The LZMA decoder, the range decoder, the states of a chunk, the LZMA2 decoder.
LzmaType ==
  [reps : Nat \X Nat \X Nat \X Nat, literal : BOOLEAN, learned : Nat, len : Nat, pos_mask : Nat]
RcType ==
  [code : Seq(Nat), due : {0, 1}, decoded : Nat, init_bytes_left : Nat,
   src : {"in", "temp"}, in : Seq(Nat), in_pos : Nat, in_limit : Nat]
ChunkStates ==
  {"SEQ_CONTROL", "SEQ_UNCOMPRESSED_1", "SEQ_UNCOMPRESSED_2", "SEQ_COMPRESSED_0",
   "SEQ_COMPRESSED_1", "SEQ_PROPERTIES", "SEQ_LZMA_PREPARE", "SEQ_LZMA_RUN", "SEQ_COPY"}
DecoderType(n) ==
  [sequence : ChunkStates, next_sequence : {"SEQ_PROPERTIES", "SEQ_LZMA_PREPARE", "SEQ_COPY"},
   uncompressed : Nat, compressed : Nat, need_dict_reset : BOOLEAN, need_props : BOOLEAN,
   dict : DictType(n), lzma : LzmaType, rc : RcType, temp : Seq(Nat),
   ret : {"XZ_OK", "XZ_STREAM_END", "XZ_DATA_ERROR"}]
BufType == [in_pos : Nat, in_size : Nat, out : Seq(Nat), room : Nat]
Typed(x) == x.dict.end \in Nat \ {0} /\ x \in DecoderType(x.dict.end)
Alive(x) == x.ret # "XZ_DATA_ERROR"
Decoding(label) == label \in {"main", "flush"}

\* The buffer holds the end of the history, the last byte before pos.
Holds(d, history) ==
  /\ d.pos <= d.full /\ d.full <= d.end
  /\ d.full = d.end \/ d.full = d.pos
  /\ d.full <= Len(history) /\ (d.full < d.end => d.full = Len(history))
  /\ \A dist \in 0..(d.full - 1) : d.buf[Back(d, dist)] = history[Len(history) - dist]

\* Until a Block's first chunk nothing is known of the dictionary; then it is the history's end.
DictInv(label, x, history) ==
  IF x.need_dict_reset THEN x.sequence = "SEQ_CONTROL" /\ ~Decoding(label)
  ELSE /\ Holds(x.dict, history) /\ x.dict.start <= x.dict.pos
       /\ ~Decoding(label) /\ Alive(x) => x.dict.start = x.dict.pos /\ x.dict.pos < x.dict.end

\* What may be decoded in this round fits everywhere.
RoundInv(label, x, buf) ==
  Decoding(label) =>
    /\ x.sequence = "SEQ_LZMA_RUN"
    /\ x.dict.pos <= x.dict.limit /\ x.dict.limit <= x.dict.end
    /\ x.dict.limit - x.dict.start <= buf.room
    /\ x.dict.limit - x.dict.start <= x.uncompressed

\* What the states of a chunk leave to the next ones.
ChunkInv(x) ==
  /\ Len(x.temp) <= x.compressed /\ Len(x.temp) < LZMA_IN_REQUIRED
  /\ Alive(x) =>
       /\ x.sequence # "SEQ_LZMA_RUN" => x.temp = <<>> /\ x.lzma.len = 0
       /\ x.sequence \in {"SEQ_UNCOMPRESSED_1", "SEQ_UNCOMPRESSED_2"} => x.next_sequence # "SEQ_COPY"
       /\ x.sequence \in {"SEQ_COMPRESSED_0", "SEQ_COMPRESSED_1"} /\ x.next_sequence # "SEQ_COPY"
            => x.uncompressed > 0
       /\ x.sequence \in {"SEQ_PROPERTIES", "SEQ_LZMA_PREPARE", "SEQ_LZMA_RUN"} => x.uncompressed > 0
       /\ x.lzma.len > 0 => InDictionary(x.dict, x.lzma.reps[1])

\* Where the range decoder reads.
RcInv(label, x, buf) ==
  LET rc == x.rc IN
  /\ rc.in_pos <= (IF rc.src = "temp" THEN 3 * LZMA_IN_REQUIRED ELSE buf.in_size)
  /\ label = "main" =>
       /\ rc.in_pos <= rc.in_limit + LZMA_IN_REQUIRED - 1
       /\ rc.src = "in" =>
            /\ x.temp = <<>> /\ buf.in_pos <= rc.in_pos
            /\ rc.in_limit + LZMA_IN_REQUIRED <= buf.in_size
       /\ rc.src = "temp" =>
            /\ rc.in_limit <= Len(rc.in) /\ Len(rc.in) <= 2 * LZMA_IN_REQUIRED
            /\ Len(rc.in) <= x.compressed
            /\ Len(x.temp) <= Len(rc.in) /\ Len(rc.in) - Len(x.temp) <= Avail(buf)

\* The LZMA2 decoder is sound at this label with x, buf and history.
Sound(label, x, buf, history) ==
  /\ Typed(x)
  /\ DictInv(label, x, history)
  /\ RoundInv(label, x, buf)
  /\ ChunkInv(x)
  /\ RcInv(label, x, buf)

\* What the stream is made of: at least one Block, symbols the model knows, bytes.
StreamInv ==
  /\ stream.filters \in Seq([bcj : BOOLEAN, dict : Nat \ {0}]) \ {<<>>}
  /\ \A n \in DOMAIN stream.plans : \A k \in 1..Len(stream.plans[n].steps) :
       stream.plans[n].steps[k].symbol \in SymbolType
  /\ input \in Seq(Nat)

\* struct xz_buf: the caller gives no more than there is.
BufferOK(buf) ==
  buf \in BufType /\ buf.in_pos <= buf.in_size /\ buf.in_size <= Len(input)

-----------------------------------------------------------------------------
(* The dictionary: where a distance leads, and what writing does to it.    *)

\* The least of two numbers.
LEMMA MinOfTwo ==
  ASSUME NEW a \in Int, NEW c \in Int
  PROVE  Min({a, c}) = IF a <= c THEN a ELSE c
BY DEF Min

\* The least of three.
LEMMA MinOfThree ==
  ASSUME NEW a \in Nat, NEW c \in Nat, NEW d \in Nat
  PROVE  /\ Min({a, c, d}) \in {a, c, d}
         /\ Min({a, c, d}) <= a /\ Min({a, c, d}) <= c /\ Min({a, c, d}) <= d
<1>1. \E x \in {a, c, d} : \A y \in {a, c, d} : x <= y
  OBVIOUS
<1>2. QED
  BY <1>1 DEF Min

\* The least of four.
LEMMA MinOfFour ==
  ASSUME NEW a \in Nat, NEW c \in Nat, NEW d \in Nat, NEW e \in Nat
  PROVE  /\ Min({a, c, d, e}) \in {a, c, d, e}
         /\ Min({a, c, d, e}) <= a /\ Min({a, c, d, e}) <= c
         /\ Min({a, c, d, e}) <= d /\ Min({a, c, d, e}) <= e
<1>1. \E x \in {a, c, d, e} : \A y \in {a, c, d, e} : x <= y
  OBVIOUS
<1>2. QED
  BY <1>1 DEF Min

\* Where dict_get() looks: inside of the buffer, and behind pos round its end.
LEMMA BackIs ==
  ASSUME NEW n \in Nat, NEW d \in DictType(n), d.pos <= d.full, d.full <= n, d.full = n \/ d.full = d.pos,
         NEW dist \in Nat, dist < d.full
  PROVE  /\ Back(d, dist) \in 0..(n - 1)
         /\ dist < d.pos => Back(d, dist) = d.pos - dist - 1
         /\ dist >= d.pos => Back(d, dist) = d.pos + n - dist - 1
<1>1. PICK pos \in Nat, full \in Nat : pos = d.pos /\ full = d.full /\ d.end = n
  BY DEF DictType
<1>2. Back(d, dist) = (IF dist >= pos THEN pos + n ELSE pos) - dist - 1
  BY <1>1 DEF Back
<1>3. pos <= full /\ full <= n /\ (full = n \/ full = pos) /\ dist < full
  BY <1>1
<1>4. QED
  BY <1>1, <1>2, <1>3

\* What n bytes that are written leave in the buffer, byte by byte.
LEMMA WrittenIs ==
  ASSUME NEW n \in Nat, NEW d \in DictType(n), NEW bytes \in Seq(Nat), d.pos + Len(bytes) <= n
  PROVE  /\ Written(d, bytes) \in DictType(n)
         /\ Written(d, bytes).start = d.start
         /\ Written(d, bytes).limit = d.limit
         /\ Written(d, bytes).pos = d.pos + Len(bytes)
         /\ Written(d, bytes).full = IF d.full < d.pos + Len(bytes) THEN d.pos + Len(bytes) ELSE d.full
         /\ \A p \in 0..(n - 1) :
              Written(d, bytes).buf[p] = IF p >= d.pos /\ p < d.pos + Len(bytes)
                                           THEN bytes[p - d.pos + 1] ELSE d.buf[p]
<1> DEFINE pos == d.pos + Len(bytes)
           buf == [p \in DOMAIN d.buf |-> IF p >= d.pos /\ p < pos THEN bytes[p - d.pos + 1] ELSE d.buf[p]]
<1>1. d.pos \in Nat /\ d.full \in Nat /\ Len(bytes) \in Nat
  BY DEF DictType
<1>2. pos \in Nat
  BY <1>1
<1>3. d.buf \in [0..(n - 1) -> Nat]
  BY DEF DictType
<1>4. ASSUME NEW p \in 0..(n - 1) PROVE buf[p] \in Nat
  <2>1. CASE p >= d.pos /\ p < pos
    <3>1. p - d.pos + 1 \in 1..Len(bytes)
      BY <1>1, <2>1
    <3>2. bytes[p - d.pos + 1] \in Nat
      BY <3>1, ElementOfSeq
    <3>3. buf[p] = bytes[p - d.pos + 1]
      BY <1>3, <2>1
    <3>4. QED
      BY <3>2, <3>3
  <2>2. CASE ~(p >= d.pos /\ p < pos)
    BY <1>3, <2>2
  <2>3. QED
    BY <2>1, <2>2
<1>5. buf \in [0..(n - 1) -> Nat]
  <2>1. DOMAIN buf = 0..(n - 1)
    BY <1>3
  <2>2. QED
    BY <1>4, <2>1
<1>7. Written(d, bytes) = [d EXCEPT !.buf = buf, !.pos = pos, !.full = IF @ < pos THEN pos ELSE @]
  BY DEF Written
<1>8. \A p \in 0..(n - 1) : buf[p] = IF p >= d.pos /\ p < d.pos + Len(bytes)
                                       THEN bytes[p - d.pos + 1] ELSE d.buf[p]
  BY <1>3
<1> HIDE DEF buf
<1>9. Written(d, bytes) \in DictType(n) /\ Written(d, bytes).buf = buf
  BY <1>1, <1>2, <1>5, <1>7 DEF DictType
<1>10. /\ Written(d, bytes).start = d.start
       /\ Written(d, bytes).limit = d.limit
       /\ Written(d, bytes).pos = pos
       /\ Written(d, bytes).full = IF d.full < pos THEN pos ELSE d.full
  BY <1>7 DEF DictType
<1>11. QED
  BY <1>8, <1>9, <1>10

\* What is written is the last of the history.
LEMMA WrittenHolds ==
  ASSUME NEW n \in Nat, NEW d \in DictType(n), NEW history \in Seq(Nat), Holds(d, history),
         NEW bytes \in Seq(Nat), d.pos + Len(bytes) <= n
  PROVE  Holds(Written(d, bytes), history \o bytes)
<1>1. PICK w : w = Written(d, bytes)
  OBVIOUS
<1>2. PICK pos \in Nat, full \in Nat, m \in Nat, l \in Nat :
        pos = d.pos /\ full = d.full /\ m = Len(bytes) /\ l = Len(history)
  BY DEF DictType
<1>3. /\ w \in DictType(n) /\ w.pos = pos + m
      /\ w.full = IF full < pos + m THEN pos + m ELSE full
      /\ \A p \in 0..(n - 1) :
           w.buf[p] = IF p >= pos /\ p < pos + m THEN bytes[p - pos + 1] ELSE d.buf[p]
  <2>1. /\ w \in DictType(n) /\ w.pos = d.pos + Len(bytes)
        /\ w.full = IF d.full < d.pos + Len(bytes) THEN d.pos + Len(bytes) ELSE d.full
        /\ \A p \in 0..(n - 1) :
             w.buf[p] = IF p >= d.pos /\ p < d.pos + Len(bytes) THEN bytes[p - d.pos + 1] ELSE d.buf[p]
    <3>1. /\ Written(d, bytes) \in DictType(n) /\ Written(d, bytes).pos = d.pos + Len(bytes)
          /\ Written(d, bytes).full = IF d.full < d.pos + Len(bytes) THEN d.pos + Len(bytes) ELSE d.full
          /\ \A p \in 0..(n - 1) :
               Written(d, bytes).buf[p] = IF p >= d.pos /\ p < d.pos + Len(bytes)
                                            THEN bytes[p - d.pos + 1] ELSE d.buf[p]
      BY WrittenIs
    <3>2. QED
      BY <1>1, <3>1
  <2>2. QED
    BY <1>2, <2>1
<1>4. d.end = n /\ w.end = n
  BY <1>3 DEF DictType
<1>5. /\ pos <= full /\ full <= n /\ pos + m <= n
      /\ full = n \/ full = pos
      /\ full <= l /\ (full < n => full = l)
      /\ \A dist \in 0..(full - 1) : d.buf[Back(d, dist)] = history[l - dist]
  BY <1>2, <1>4 DEF Holds
<1>6. PICK h \in Seq(Nat) : /\ h = history \o bytes /\ Len(h) = l + m
                            /\ \A i \in 1..l : h[i] = history[i]
                            /\ \A i \in 1..m : h[l + i] = bytes[i]
  <2>1. /\ history \o bytes \in Seq(Nat) /\ Len(history \o bytes) = Len(history) + Len(bytes)
        /\ \A i \in 1..Len(history) : (history \o bytes)[i] = history[i]
        /\ \A i \in 1..Len(bytes) : (history \o bytes)[Len(history) + i] = bytes[i]
    OBVIOUS
  <2>2. QED
    BY <1>2, <2>1
<1>7. PICK top \in Nat : /\ top = w.full /\ top = IF full < pos + m THEN pos + m ELSE full
  BY <1>3
<1>8. /\ w.pos <= top /\ top <= n /\ (top = n \/ top = w.pos)
      /\ top <= l + m /\ (top < n => top = l + m)
  BY <1>3, <1>5, <1>7
<1>9. ASSUME NEW dist \in 0..(top - 1)
      PROVE  w.buf[Back(w, dist)] = h[l + m - dist]
  <2>0. dist \in Nat /\ dist < top /\ dist < w.full
    BY <1>7
  <2>1. PICK at \in 0..(n - 1) :
          /\ at = Back(w, dist)
          /\ dist < pos + m => at = pos + m - dist - 1
          /\ dist >= pos + m => at = pos + m + n - dist - 1
    <3>1. w.pos <= w.full /\ w.full <= n /\ (w.full = n \/ w.full = w.pos)
      BY <1>7, <1>8
    <3>2. /\ Back(w, dist) \in 0..(n - 1)
          /\ dist < w.pos => Back(w, dist) = w.pos - dist - 1
          /\ dist >= w.pos => Back(w, dist) = w.pos + n - dist - 1
      BY <1>3, <2>0, <3>1, BackIs
    <3>3. QED
      BY <1>3, <3>2
  <2>2. w.buf[at] = IF at >= pos /\ at < pos + m THEN bytes[at - pos + 1] ELSE d.buf[at]
    BY <1>3
  <2>3. CASE dist < m
    <3>1. at >= pos /\ at < pos + m /\ at - pos + 1 = m - dist
      BY <2>0, <2>1, <2>3
    <3>2. w.buf[at] = bytes[m - dist]
      BY <2>2, <3>1
    <3>3. m - dist \in 1..m /\ l + (m - dist) = l + m - dist
      BY <2>0, <2>3
    <3>4. h[l + (m - dist)] = bytes[m - dist]
      BY <1>6, <3>3
    <3>5. QED
      BY <2>1, <3>2, <3>3, <3>4
  <2>4. CASE dist >= m
    <3>1. PICK k \in Nat : k = dist - m
      BY <2>0, <2>4
    <3>2. k < full
      BY <1>5, <1>7, <2>0, <3>1, SMTT(30)
    <3>3. PICK from \in 0..(n - 1) :
            /\ from = Back(d, k)
            /\ k < pos => from = pos - k - 1
            /\ k >= pos => from = pos + n - k - 1
      <4>1. d.pos <= d.full /\ d.full <= n /\ (d.full = n \/ d.full = d.pos) /\ k < d.full
        BY <1>2, <1>5, <3>2
      <4>2. /\ Back(d, k) \in 0..(n - 1)
            /\ k < d.pos => Back(d, k) = d.pos - k - 1
            /\ k >= d.pos => Back(d, k) = d.pos + n - k - 1
        BY <4>1, BackIs
      <4>3. QED
        BY <1>2, <4>2
    <3>4. from = at
      BY <2>1, <3>1, <3>3
    <3>5. ~(at >= pos /\ at < pos + m)
      <4>1. CASE k < pos
        BY <3>3, <3>4, <4>1
      <4>2. CASE k >= pos
        BY <1>5, <1>7, <2>0, <3>1, <3>2, <3>3, <3>4, <4>2
      <4>3. QED
        BY <4>1, <4>2
    <3>6. w.buf[at] = d.buf[Back(d, k)]
      BY <2>2, <3>3, <3>4, <3>5
    <3>7. k \in 0..(full - 1) /\ l - k \in 1..l /\ l - k = l + m - dist
      BY <1>5, <3>1, <3>2
    <3>8. d.buf[Back(d, k)] = history[l - k] /\ h[l - k] = history[l - k]
      BY <1>5, <1>6, <3>7
    <3>9. QED
      BY <2>1, <3>6, <3>7, <3>8
  <2>5. QED
    BY <2>0, <2>3, <2>4
<1>10. Holds(w, h)
  BY <1>4, <1>6, <1>7, <1>8, <1>9, SMTT(30) DEF Holds
<1>11. QED
  BY <1>1, <1>6, <1>10

-----------------------------------------------------------------------------
(* dict_repeat(), dict_reset() and the way round.                          *)

\* dict_repeat() copies what the history repeats.
LEMMA RepeatedIs ==
  ASSUME NEW n \in Nat, NEW d \in DictType(n), NEW history \in Seq(Nat), Holds(d, history),
         NEW dist \in Nat, dist < d.full, NEW len \in Nat
  PROVE  /\ RepeatedBytes(d, len, dist) \in Seq(Nat)
         /\ Len(RepeatedBytes(d, len, dist)) = len
         /\ RepeatedBytes(d, len, dist) = CopyOf(history, dist, len)
<1>1. PICK pos \in Nat, full \in Nat, l \in Nat :
        pos = d.pos /\ full = d.full /\ l = Len(history)
  BY DEF DictType
<1>2. d.end = n
  BY DEF DictType
<1>3. /\ pos <= full /\ full <= n
      /\ full = n \/ full = pos
      /\ full <= l
      /\ \A k \in 0..(full - 1) : d.buf[Back(d, k)] = history[l - k]
  BY <1>1, <1>2 DEF Holds
<1>4. d.buf \in [0..(n - 1) -> Nat]
  BY DEF DictType
<1>5. d.pos <= d.full /\ d.full <= n /\ (d.full = n \/ d.full = d.pos)
  BY <1>1, <1>3
<1>6. ASSUME NEW k \in Nat, k < full
      PROVE  /\ Back(d, k) \in 0..(n - 1)
             /\ k < pos => Back(d, k) = pos - k - 1
             /\ k >= pos => Back(d, k) = pos + n - k - 1
  <2>1. k < d.full
    BY <1>1, <1>6
  <2>2. /\ Back(d, k) \in 0..(n - 1)
        /\ k < d.pos => Back(d, k) = d.pos - k - 1
        /\ k >= d.pos => Back(d, k) = d.pos + n - k - 1
    BY <1>5, <2>1, BackIs
  <2>3. QED
    BY <1>1, <2>2
<1>7. dist < full
  BY <1>1
<1>8. ASSUME NEW j \in 0..dist
      PROVE  /\ d.buf[(Back(d, dist) + j) % d.end] = history[l - dist + j]
             /\ d.buf[(Back(d, dist) + j) % d.end] \in Nat
  <2>1. PICK k \in Nat : k = dist - j
    OBVIOUS
  <2>2. k < full
    BY <1>7, <2>1
  <2>3. PICK from \in 0..(n - 1) :
          /\ from = Back(d, dist)
          /\ dist < pos => from = pos - dist - 1
          /\ dist >= pos => from = pos + n - dist - 1
    BY <1>6, <1>7
  <2>4. PICK to \in 0..(n - 1) :
          /\ to = Back(d, k)
          /\ k < pos => to = pos - k - 1
          /\ k >= pos => to = pos + n - k - 1
    BY <1>6, <2>2
  <2>5. from + j = to \/ from + j = n + to
    <3>1. k <= dist /\ j = dist - k /\ k \in Nat /\ j \in Nat
      BY <2>1
    <3>2. CASE dist < pos
      BY <2>3, <2>4, <3>1, <3>2
    <3>3. CASE dist >= pos /\ k < pos
      BY <2>3, <2>4, <3>1, <3>3
    <3>4. CASE dist >= pos /\ k >= pos
      BY <2>3, <2>4, <3>1, <3>4
    <3>5. QED
      BY <3>2, <3>3, <3>4
  <2>6. n > 0 /\ to % n = to /\ (n + to) % n = to
    <3>1. n > 0
      BY <2>4
    <3>2. PICK t \in Nat : t = to /\ t < n
      BY <2>4
    <3>3. t % n = t /\ (n + t) % n = t
      BY <3>1, <3>2
    <3>4. QED
      BY <3>1, <3>2, <3>3
  <2>7. (from + j) % n = to
    BY <2>5, <2>6
  <2>8. d.buf[to] = history[l - k]
    <3>1. k \in 0..(full - 1)
      BY <2>2
    <3>2. QED
      BY <1>3, <2>4, <3>1
  <2>9. l - k = l - dist + j
    BY <2>1
  <2>10. QED
    BY <1>2, <1>4, <2>3, <2>4, <2>7, <2>8, <2>9
<1>9. ASSUME NEW i \in 1..len PROVE (i - 1) % (dist + 1) \in 0..dist
  OBVIOUS
<1> DEFINE r == [i \in 1..len |-> d.buf[(Back(d, dist) + ((i - 1) % (dist + 1))) % d.end]]
           c == [i \in 1..len |-> IF l - dist > 0 THEN history[(l - dist) + ((i - 1) % (dist + 1))] ELSE JUNK]
<1>10. l - dist > 0
  BY <1>3, <1>7
<1>11. ASSUME NEW i \in 1..len
       PROVE  r[i] \in Nat /\ r[i] = c[i]
  <2>1. PICK j \in 0..dist : j = (i - 1) % (dist + 1)
    BY <1>9
  <2>2. r[i] = d.buf[(Back(d, dist) + j) % d.end]
    BY <2>1
  <2>3. c[i] = history[l - dist + j]
    BY <1>10, <2>1
  <2>4. QED
    BY <1>8, <2>2, <2>3
<1>12. RepeatedBytes(d, len, dist) = r
  BY DEF RepeatedBytes
<1>13. CopyOf(history, dist, len) = c
  BY <1>1 DEF CopyOf
<1>14. r = c
  BY <1>11
<1>15. r \in Seq(Nat) /\ Len(r) = len
  <2>1. DOMAIN r = 1..len /\ \A i \in 1..len : r[i] \in Nat
    BY <1>11
  <2> HIDE DEF r
  <2>2. r = [i \in 1..len |-> r[i]]
    BY <1>12 DEF r
  <2>3. QED
    BY <2>1, <2>2, SMTT(30)
<1> HIDE DEF r, c
<1>16. QED
  BY <1>12, <1>13, <1>14, <1>15

\* A dictionary that is reset knows nothing.
LEMMA ResetHolds ==
  ASSUME NEW n \in Nat, NEW d \in DictType(n)
  PROVE  /\ dict_reset(d) \in DictType(n)
         /\ dict_reset(d).start = 0 /\ dict_reset(d).pos = 0
         /\ Holds(dict_reset(d), <<>>)
<1>1. /\ dict_reset(d) \in DictType(n)
      /\ dict_reset(d).start = 0 /\ dict_reset(d).pos = 0 /\ dict_reset(d).full = 0
      /\ dict_reset(d).end = n
  BY DEF dict_reset, DictType
<1>2. Len(<<>>) = 0 /\ 0..(0 - 1) = {}
  OBVIOUS
<1>3. QED
  BY <1>1, <1>2 DEF Holds

\* To go on from the beginning of a buffer that is full takes nothing back.
LEMMA WrapHolds ==
  ASSUME NEW n \in Nat \ {0}, NEW d \in DictType(n), NEW history, Holds(d, history),
         NEW e \in DictType(n), e.buf = d.buf, e.full = d.full,
         e.pos = IF d.pos = d.end THEN 0 ELSE d.pos
  PROVE  Holds(e, history) /\ e.pos < e.end
<1>1. d.pos \in Nat /\ d.full \in Nat /\ d.end = n /\ e.end = n
  BY DEF DictType
<1>2. d.pos <= d.full /\ d.full <= n /\ (d.full = n \/ d.full = d.pos)
  BY <1>1 DEF Holds
<1>3. e.pos <= e.full /\ (e.full = e.end \/ e.full = e.pos) /\ e.pos < e.end
  BY <1>1, <1>2
<1>4. ASSUME NEW dist \in 0..(d.full - 1) PROVE Back(e, dist) = Back(d, dist)
  <2>1. CASE d.pos = n
    <3>1. e.pos = 0 /\ dist \in Nat /\ dist < d.pos
      BY <1>1, <1>2, <2>1
    <3>2. QED
      BY <1>1, <2>1, <3>1 DEF Back
  <2>2. CASE d.pos # n
    BY <1>1, <2>2 DEF Back
  <2>3. QED
    BY <2>1, <2>2
<1>5. QED
  BY <1>1, <1>3, <1>4 DEF Holds

\* Only pos, full and what is behind them count.
LEMMA SameHolds ==
  ASSUME NEW d, NEW history, Holds(d, history),
         NEW e, e.buf = d.buf, e.pos = d.pos, e.full = d.full, e.end = d.end
  PROVE  Holds(e, history)
BY DEF Holds, Back

-----------------------------------------------------------------------------
(* Buffers and steps of xz_dec_lzma2_run() in general.                     *)

\* A call of xz_dec_lzma2_run() is under way, or has just returned.
InLzma2(label) == label \in {"run", "main", "flush", "returned"}

\* Before and after a step of xz_dec_lzma2_run(); the caller loses no room that is not used.
Before ==
  StreamInv /\ BufferOK(b) /\ raw \in Seq(Nat) /\ Sound(pc, z, b, raw) /\ Alive(z)
OutGrows(from, to) ==
  Len(to.out) + to.room = Len(from.out) + from.room /\ Len(to.out) >= Len(from.out)
After ==
  /\ UNCHANGED <<stream, input>>
  /\ InLzma2(pc') /\ Sound(pc', z', b', raw') /\ BufferOK(b') /\ raw' \in Seq(Nat)
  /\ Alive(z') \/ pc' = "returned"
  /\ OutGrows(b, b')

\* The fields of a decoder by their types.
LEMMA Fields ==
  ASSUME NEW x, Typed(x)
  PROVE  /\ x.dict.end \in Nat \ {0} /\ x.dict \in DictType(x.dict.end)
         /\ x.sequence \in ChunkStates /\ x.next_sequence \in {"SEQ_PROPERTIES", "SEQ_LZMA_PREPARE", "SEQ_COPY"}
         /\ x.uncompressed \in Nat /\ x.compressed \in Nat
         /\ x.need_dict_reset \in BOOLEAN /\ x.need_props \in BOOLEAN
         /\ x.lzma \in LzmaType /\ x.rc \in RcType /\ x.temp \in Seq(Nat) /\ Len(x.temp) \in Nat
BY DEF Typed, DecoderType

\* The fields of struct xz_buf by their types.
LEMMA BufFields ==
  ASSUME NEW buf, BufferOK(buf)
  PROVE  /\ buf \in BufType /\ buf.in_pos \in Nat /\ buf.in_size \in Nat /\ buf.room \in Nat
         /\ buf.out \in Seq(Nat) /\ Len(buf.out) \in Nat
         /\ buf.in_pos <= buf.in_size /\ buf.in_size <= Len(input)
         /\ Avail(buf) \in Nat /\ Avail(buf) = buf.in_size - buf.in_pos
BY DEF BufferOK, BufType, Avail

\* Reading takes input that is there.
LEMMA TakenOK ==
  ASSUME NEW buf, BufferOK(buf), NEW n \in Nat, n <= Avail(buf)
  PROVE  /\ BufferOK(Taken(buf, n)) /\ OutGrows(buf, Taken(buf, n))
         /\ Taken(buf, n).in_pos = buf.in_pos + n /\ Taken(buf, n).in_size = buf.in_size
         /\ Taken(buf, n).out = buf.out /\ Taken(buf, n).room = buf.room
         /\ Avail(Taken(buf, n)) = Avail(buf) - n
<1>1. /\ Taken(buf, n).in_pos = buf.in_pos + n /\ Taken(buf, n).in_size = buf.in_size
      /\ Taken(buf, n).out = buf.out /\ Taken(buf, n).room = buf.room
      /\ Taken(buf, n) \in BufType
  BY BufFields, SMTT(30) DEF Taken, BufType, BufferOK
<1>2. QED
  BY <1>1, BufFields DEF BufferOK, OutGrows, Avail

\* The next byte, if there is one, and the next ones.
LEMMA Next1IsByte ==
  ASSUME input \in Seq(Nat), BufferOK(b), Avail(b) > 0
  PROVE  Next1 \in Nat
<1>1. b.in_pos + 1 \in 1..Len(input)
  BY BufFields
<1>2. QED
  BY <1>1, ElementOfSeq DEF Next1

\* A piece of a sequence.
LEMMA SubTyped ==
  ASSUME NEW s \in Seq(Nat), NEW p \in Nat, NEW n \in Nat, p + n <= Len(s)
  PROVE  SubSeq(s, p + 1, p + n) \in Seq(Nat) /\ Len(SubSeq(s, p + 1, p + n)) = n
<1>1. SubSeq(s, p + 1, p + n) \in Seq(Nat)
  BY SubSeqProperties
<1>2. Len(SubSeq(s, p + 1, p + n)) = n
  OBVIOUS
<1>3. QED
  BY <1>1, <1>2

\* A piece of the input is a sequence of bytes.
LEMMA SubInput ==
  ASSUME input \in Seq(Nat), NEW buf, BufferOK(buf), NEW n \in Nat, n <= Avail(buf)
  PROVE  /\ SubSeq(input, buf.in_pos + 1, buf.in_pos + n) \in Seq(Nat)
         /\ Len(SubSeq(input, buf.in_pos + 1, buf.in_pos + n)) = n
<1>1. PICK p \in Nat : p = buf.in_pos /\ p + n <= Len(input)
  BY BufFields
<1>2. SubSeq(input, p + 1, p + n) \in Seq(Nat) /\ Len(SubSeq(input, p + 1, p + n)) = n
  BY <1>1, SubTyped
<1>3. QED
  BY <1>1, <1>2

\* A step goes to where the decoder is sound.
LEMMA GotoSound ==
  ASSUME NEW label, NEW x, NEW buf, NEW history,
         InLzma2(label), Sound(label, x, buf, history), BufferOK(buf), history \in Seq(Nat),
         Alive(x) \/ label = "returned", OutGrows(b, buf),
         Goto(label, x, buf), raw' = history
  PROVE  After
BY DEF Goto, After

\* xz_dec_lzma2_run() may return from the top of its loop.
LEMMA ReturnsSound ==
  ASSUME NEW x, NEW buf, NEW history, Sound("run", x, buf, history), Alive(x),
         NEW result \in {"XZ_OK", "XZ_STREAM_END", "XZ_DATA_ERROR"}
  PROVE  Sound("returned", [x EXCEPT !.ret = result], buf, history)
<1> DEFINE y == [x EXCEPT !.ret = result]
<1>1. Typed(x) /\ DictInv("run", x, history) /\ ChunkInv(x) /\ RcInv("run", x, buf)
  BY DEF Sound
<1>2. /\ y.dict = x.dict /\ y.lzma = x.lzma /\ y.rc = x.rc /\ y.temp = x.temp
      /\ y.sequence = x.sequence /\ y.next_sequence = x.next_sequence
      /\ y.uncompressed = x.uncompressed /\ y.compressed = x.compressed
      /\ y.need_dict_reset = x.need_dict_reset /\ y.ret = result
      /\ Typed(y)
  BY <1>1 DEF Typed, DecoderType
<1> HIDE DEF y
<1>3. DictInv("returned", y, history)
  BY <1>1, <1>2 DEF DictInv, Decoding, Alive
<1>4. RoundInv("returned", y, buf)
  BY DEF RoundInv, Decoding
<1>5. ChunkInv(y)
  BY <1>1, <1>2 DEF ChunkInv, Alive
<1>6. RcInv("returned", y, buf)
  BY <1>1, <1>2 DEF RcInv
<1>7. Sound("returned", y, buf, history)
  BY <1>2, <1>3, <1>4, <1>5, <1>6 DEF Sound
<1>8. QED
  BY <1>7 DEF y

\* The same with the result that is returned.
LEMMA Lzma2ReturnsSound ==
  ASSUME NEW x, NEW buf, NEW result \in {"XZ_OK", "XZ_STREAM_END", "XZ_DATA_ERROR"},
         Sound("run", x, buf, raw), Alive(x), BufferOK(buf), raw \in Seq(Nat), OutGrows(b, buf),
         Lzma2Returns(x, buf, result)
  PROVE  After
<1>1. Sound("returned", [x EXCEPT !.ret = result], buf, raw)
  BY ReturnsSound
<1>2. QED
  BY <1>1, GotoSound DEF Lzma2Returns, InLzma2

\* A buffer whose output is the same has lost none.
LEMMA OutStays ==
  ASSUME NEW buf, BufferOK(buf)
  PROVE  OutGrows(buf, buf)
BY BufFields DEF OutGrows

\* To wait for more input changes nothing.
LEMMA RunOutOfInputSound ==
  ASSUME Before, RunOutOfInput
  PROVE  After
BY Lzma2ReturnsSound, OutStays DEF Before, RunOutOfInput

\* Round again, from where the decoder is sound.
LEMMA LoopSound ==
  ASSUME NEW x, NEW buf, Sound("run", x, buf, raw), Alive(x), BufferOK(buf), raw \in Seq(Nat),
         OutGrows(b, buf), Loop(x, buf)
  PROVE  After
BY GotoSound DEF Loop, InLzma2

\* What the top of the loop needs, if there is no chunk being decoded.
LEMMA SoundOutside ==
  ASSUME NEW x, NEW buf, NEW history, Typed(x), BufferOK(buf),
         x.sequence # "SEQ_LZMA_RUN", x.temp = <<>>, x.lzma.len = 0,
         x.need_dict_reset => x.sequence = "SEQ_CONTROL",
         ~x.need_dict_reset => /\ Holds(x.dict, history)
                               /\ x.dict.start = x.dict.pos /\ x.dict.pos < x.dict.end,
         x.sequence \in {"SEQ_UNCOMPRESSED_1", "SEQ_UNCOMPRESSED_2"} => x.next_sequence # "SEQ_COPY",
         x.sequence \in {"SEQ_COMPRESSED_0", "SEQ_COMPRESSED_1"} /\ x.next_sequence # "SEQ_COPY"
           => x.uncompressed > 0,
         x.sequence \in {"SEQ_PROPERTIES", "SEQ_LZMA_PREPARE"} => x.uncompressed > 0,
         x.rc.in_pos <= (IF x.rc.src = "temp" THEN 3 * LZMA_IN_REQUIRED ELSE buf.in_size)
  PROVE  Sound("run", x, buf, history)
<1>1. x.dict.pos \in Nat /\ x.dict.start \in Nat /\ x.compressed \in Nat
  BY Fields DEF DictType
<1>2. DictInv("run", x, history)
  BY <1>1 DEF DictInv, Decoding
<1>3. RoundInv("run", x, buf)
  BY DEF RoundInv, Decoding
<1>4. ChunkInv(x)
  BY <1>1 DEF ChunkInv, LZMA_IN_REQUIRED
<1>5. RcInv("run", x, buf)
  BY DEF RcInv
<1>6. QED
  BY <1>2, <1>3, <1>4, <1>5 DEF Sound

-----------------------------------------------------------------------------
(* The bytes before a chunk's data.                                        *)

\* What is known at the top of the loop outside a chunk that is being decoded.
LEMMA Outside ==
  ASSUME Before, pc = "run", z.sequence # "SEQ_LZMA_RUN"
  PROVE  /\ Typed(z) /\ BufferOK(b) /\ input \in Seq(Nat) /\ raw \in Seq(Nat) /\ Alive(z)
         /\ z.temp = <<>> /\ z.lzma.len = 0
         /\ z.need_dict_reset => z.sequence = "SEQ_CONTROL"
         /\ ~z.need_dict_reset => /\ Holds(z.dict, raw)
                                  /\ z.dict.start = z.dict.pos /\ z.dict.pos < z.dict.end
         /\ z.sequence \in {"SEQ_UNCOMPRESSED_1", "SEQ_UNCOMPRESSED_2"} => z.next_sequence # "SEQ_COPY"
         /\ z.sequence \in {"SEQ_COMPRESSED_0", "SEQ_COMPRESSED_1"} /\ z.next_sequence # "SEQ_COPY"
              => z.uncompressed > 0
         /\ z.sequence \in {"SEQ_PROPERTIES", "SEQ_LZMA_PREPARE"} => z.uncompressed > 0
         /\ z.rc.in_pos <= (IF z.rc.src = "temp" THEN 3 * LZMA_IN_REQUIRED ELSE b.in_size)
BY DEF Before, StreamInv, Sound, DictInv, Decoding, ChunkInv, RcInv

\* A byte of the sizes of a chunk.
LEMMA SizesSound ==
  ASSUME Before, Sizes
  PROVE  After
<1>1. pc = "run" /\ Avail(b) > 0 /\ z.sequence # "SEQ_LZMA_RUN"
  BY DEF Sizes
<1> DEFINE buf == Taken(b, 1)
<1>2. Typed(z) /\ BufferOK(b) /\ raw \in Seq(Nat) /\ Next1 \in Nat
  BY <1>1, Outside, Next1IsByte
<1>3. BufferOK(buf) /\ OutGrows(b, buf) /\ buf.in_size = b.in_size
  BY <1>1, <1>2, TakenOK, BufFields
<1>4. z.uncompressed \in Nat /\ z.compressed \in Nat /\ SIZE_BASE \in Nat
  BY <1>2, Fields DEF SIZE_BASE
<1> HIDE DEF buf
<1>5. ASSUME NEW u \in Nat, NEW c \in Nat, NEW next,
             next \in {"SEQ_UNCOMPRESSED_2", "SEQ_COMPRESSED_0", "SEQ_COMPRESSED_1", z.next_sequence},
             ~z.need_dict_reset,
             next = "SEQ_UNCOMPRESSED_2" => z.next_sequence # "SEQ_COPY",
             next # "SEQ_UNCOMPRESSED_2" /\ z.next_sequence # "SEQ_COPY" => u > 0,
             Loop([z EXCEPT !.uncompressed = u, !.compressed = c, !.sequence = next], buf)
      PROVE  After
  <2> DEFINE x == [z EXCEPT !.uncompressed = u, !.compressed = c, !.sequence = next]
  <2>1. next \in ChunkStates /\ next \notin {"SEQ_LZMA_RUN", "SEQ_CONTROL", "SEQ_UNCOMPRESSED_1"}
    BY <1>2, <1>5, Fields DEF ChunkStates
  <2>2. /\ Typed(x)
        /\ x.dict = z.dict /\ x.lzma = z.lzma /\ x.rc = z.rc /\ x.temp = z.temp /\ x.ret = z.ret
        /\ x.next_sequence = z.next_sequence /\ x.need_dict_reset = z.need_dict_reset
        /\ x.sequence = next /\ x.uncompressed = u /\ x.compressed = c
    BY <1>2, <2>1 DEF Typed, DecoderType
  <2>a. Loop(x, buf)
    BY <1>5
  <2> HIDE DEF x
  <2>3. z.next_sequence = "SEQ_COPY" \/ z.next_sequence \in {"SEQ_PROPERTIES", "SEQ_LZMA_PREPARE"}
    BY <1>2, Fields
  <2>4. Sound("run", x, buf, raw)
    BY <1>1, <1>2, <1>3, <1>5, <2>1, <2>2, <2>3, Outside, SoundOutside
  <2>5. Alive(x)
    BY <1>1, <2>2, Outside DEF Alive
  <2>6. QED
    BY <1>2, <1>3, <2>a, <2>4, <2>5, LoopSound
<1>6. ~z.need_dict_reset
  BY <1>1, Outside DEF Sizes
<1>7. CASE /\ z.sequence = "SEQ_UNCOMPRESSED_1"
           /\ Loop([[z EXCEPT !.uncompressed = @ + Next1 * SIZE_BASE] EXCEPT !.sequence = "SEQ_UNCOMPRESSED_2"], buf)
  <2>1. z.uncompressed + Next1 * SIZE_BASE \in Nat
    BY <1>2, <1>4
  <2>2. [[z EXCEPT !.uncompressed = @ + Next1 * SIZE_BASE] EXCEPT !.sequence = "SEQ_UNCOMPRESSED_2"]
          = [z EXCEPT !.uncompressed = z.uncompressed + Next1 * SIZE_BASE, !.compressed = z.compressed,
                      !.sequence = "SEQ_UNCOMPRESSED_2"]
    BY <1>2 DEF Typed, DecoderType
  <2>3. z.next_sequence # "SEQ_COPY"
    BY <1>1, <1>7, Outside
  <2>4. QED
    BY <1>4, <1>5, <1>6, <1>7, <2>1, <2>2, <2>3, Zenon
<1>8. CASE /\ z.sequence = "SEQ_UNCOMPRESSED_2"
           /\ Loop([[z EXCEPT !.uncompressed = @ + Next1 + 1] EXCEPT !.sequence = "SEQ_COMPRESSED_0"], buf)
  <2>1. z.uncompressed + Next1 + 1 \in Nat /\ z.uncompressed + Next1 + 1 > 0
    BY <1>2, <1>4
  <2>2. [[z EXCEPT !.uncompressed = @ + Next1 + 1] EXCEPT !.sequence = "SEQ_COMPRESSED_0"]
          = [z EXCEPT !.uncompressed = z.uncompressed + Next1 + 1, !.compressed = z.compressed,
                      !.sequence = "SEQ_COMPRESSED_0"]
    BY <1>2 DEF Typed, DecoderType
  <2>3. QED
    BY <1>4, <1>5, <1>6, <1>8, <2>1, <2>2, Zenon
<1>9. CASE /\ z.sequence = "SEQ_COMPRESSED_0"
           /\ Loop([[z EXCEPT !.compressed = Next1 * SIZE_BASE] EXCEPT !.sequence = "SEQ_COMPRESSED_1"], buf)
  <2>1. Next1 * SIZE_BASE \in Nat
    BY <1>2, <1>4
  <2>2. [[z EXCEPT !.compressed = Next1 * SIZE_BASE] EXCEPT !.sequence = "SEQ_COMPRESSED_1"]
          = [z EXCEPT !.uncompressed = z.uncompressed, !.compressed = Next1 * SIZE_BASE,
                      !.sequence = "SEQ_COMPRESSED_1"]
    BY <1>2 DEF Typed, DecoderType
  <2>3. z.next_sequence # "SEQ_COPY" => z.uncompressed > 0
    BY <1>1, <1>9, Outside
  <2>4. QED
    BY <1>4, <1>5, <1>6, <1>9, <2>1, <2>2, <2>3, Zenon
<1>10. CASE /\ z.sequence = "SEQ_COMPRESSED_1"
            /\ Loop([[z EXCEPT !.compressed = @ + Next1 + 1] EXCEPT !.sequence = z.next_sequence], buf)
  <2>1. z.compressed + Next1 + 1 \in Nat
    BY <1>2, <1>4
  <2>2. [[z EXCEPT !.compressed = @ + Next1 + 1] EXCEPT !.sequence = z.next_sequence]
          = [z EXCEPT !.uncompressed = z.uncompressed, !.compressed = z.compressed + Next1 + 1,
                      !.sequence = z.next_sequence]
    BY <1>2 DEF Typed, DecoderType
  <2>3. z.next_sequence # "SEQ_COPY" => z.uncompressed > 0
    BY <1>1, <1>10, Outside
  <2>4. z.next_sequence # "SEQ_UNCOMPRESSED_2"
    BY <1>2, Fields
  <2>5. QED
    BY <1>4, <1>5, <1>6, <1>10, <2>1, <2>2, <2>3, <2>4, Zenon
<1>11. QED
  BY <1>7, <1>8, <1>9, <1>10 DEF Sizes, buf

\* lzma_reset() sets what the range decoder and the model begin with.
LEMMA ResetIs ==
  ASSUME NEW x, Typed(x)
  PROVE  /\ Typed(lzma_reset(x)) /\ Typed(rc_reset(x))
         /\ \A y \in {lzma_reset(x), rc_reset(x)} :
              /\ y.dict = x.dict /\ y.temp = x.temp /\ y.ret = x.ret /\ y.lzma.len = x.lzma.len
              /\ y.next_sequence = x.next_sequence /\ y.sequence = x.sequence
              /\ y.uncompressed = x.uncompressed /\ y.compressed = x.compressed
              /\ y.need_dict_reset = x.need_dict_reset
              /\ y.rc.in_pos = x.rc.in_pos /\ y.rc.src = x.rc.src
<1> DEFINE m == [x EXCEPT !.lzma.reps = <<0, 0, 0, 0>>, !.lzma.literal = TRUE, !.lzma.learned = 0]
<1>2. /\ Typed(m) /\ m.dict = x.dict /\ m.temp = x.temp /\ m.ret = x.ret /\ m.lzma.len = x.lzma.len
      /\ m.next_sequence = x.next_sequence /\ m.sequence = x.sequence
      /\ m.uncompressed = x.uncompressed /\ m.compressed = x.compressed
      /\ m.need_dict_reset = x.need_dict_reset /\ m.rc = x.rc
  <2>1. <<0, 0, 0, 0>> \in Nat \X Nat \X Nat \X Nat
    OBVIOUS
  <2>2. QED
    BY <2>1 DEF Typed, DecoderType, LzmaType
<1>3. ASSUME NEW y, Typed(y)
      PROVE  /\ Typed(rc_reset(y))
             /\ rc_reset(y).dict = y.dict /\ rc_reset(y).temp = y.temp /\ rc_reset(y).ret = y.ret
             /\ rc_reset(y).lzma = y.lzma
             /\ rc_reset(y).next_sequence = y.next_sequence /\ rc_reset(y).sequence = y.sequence
             /\ rc_reset(y).uncompressed = y.uncompressed /\ rc_reset(y).compressed = y.compressed
             /\ rc_reset(y).need_dict_reset = y.need_dict_reset
             /\ rc_reset(y).rc.in_pos = y.rc.in_pos /\ rc_reset(y).rc.src = y.rc.src
  <2>1. PICK r \in RcType : /\ r = [y.rc EXCEPT !.code = <<>>, !.due = 0, !.decoded = 0,
                                               !.init_bytes_left = RC_INIT_BYTES]
                            /\ r.in_pos = y.rc.in_pos /\ r.src = y.rc.src
    <3> DEFINE r == [y.rc EXCEPT !.code = <<>>, !.due = 0, !.decoded = 0,
                                 !.init_bytes_left = RC_INIT_BYTES]
    <3>1. y.rc \in RcType
      BY <1>3, Fields
    <3>2. <<>> \in Seq(Nat)
      OBVIOUS
    <3>3. r \in RcType /\ r.in_pos = y.rc.in_pos /\ r.src = y.rc.src
      <4>1. PICK q \in RcType : q = y.rc
        BY <3>1
      <4>2. PICK n \in Nat : n = RC_INIT_BYTES
        BY DEF RC_INIT_BYTES
      <4>3. r = [q EXCEPT !.code = <<>>, !.due = 0, !.decoded = 0, !.init_bytes_left = n]
        BY <4>1, <4>2
      <4> HIDE DEF r
      <4>4. QED
        BY <3>2, <4>1, <4>3 DEF RcType
    <3>4. QED
      BY <3>3
  <2>2. rc_reset(y) = [y EXCEPT !.rc = r]
    BY <1>3, <2>1 DEF rc_reset, Typed, DecoderType
  <2>3. QED
    BY <1>3, <2>1, <2>2 DEF Typed, DecoderType
<1>4. lzma_reset(x) = rc_reset(m)
  BY DEF lzma_reset
<1> HIDE DEF m
<1>5. QED
  BY <1>2, <1>3, <1>4

\* The control byte: the end of the Block, a chunk that is copied or one to decode.
LEMMA ControlSound ==
  ASSUME Before, Control
  PROVE  After
<1>1. pc = "run" /\ z.sequence = "SEQ_CONTROL" /\ Avail(b) > 0
  BY DEF Control, Running
<1> DEFINE buf == Taken(b, 1)
           fresh == Next1 >= 14 \/ Next1 = 1
           reset == [z EXCEPT !.need_props = TRUE, !.need_dict_reset = FALSE, !.dict = dict_reset(@)]
           x == IF fresh THEN reset ELSE z
           history == IF fresh THEN <<>> ELSE raw
           lzma == [x EXCEPT !.uncompressed = (Next1 % 2) * SIZE_BASE ^ 2,
                             !.sequence = "SEQ_UNCOMPRESSED_1"]
           result ==
             CASE Next1 = 0 -> "XZ_STREAM_END"
               [] Next1 > 0 /\ x.need_dict_reset -> "XZ_DATA_ERROR"
               [] ~x.need_dict_reset /\ Next1 \in 3..7 -> "XZ_DATA_ERROR"
               [] ~x.need_dict_reset /\ Next1 \in 8..11 /\ x.need_props -> "XZ_DATA_ERROR"
               [] OTHER -> "XZ_OK"
           next ==
             CASE Next1 < 8 -> [x EXCEPT !.sequence = "SEQ_COMPRESSED_0", !.next_sequence = "SEQ_COPY"]
               [] Next1 >= 12 -> [lzma EXCEPT !.need_props = FALSE, !.next_sequence = "SEQ_PROPERTIES"]
               [] Next1 \in 10..11 -> lzma_reset([lzma EXCEPT !.next_sequence = "SEQ_LZMA_PREPARE"])
               [] Next1 \in 8..9 -> [lzma EXCEPT !.next_sequence = "SEQ_LZMA_PREPARE"]
<1>2. /\ Typed(z) /\ BufferOK(b) /\ input \in Seq(Nat) /\ raw \in Seq(Nat) /\ Alive(z)
      /\ z.temp = <<>> /\ z.lzma.len = 0
      /\ ~z.need_dict_reset => /\ Holds(z.dict, raw)
                               /\ z.dict.start = z.dict.pos /\ z.dict.pos < z.dict.end
      /\ z.rc.in_pos <= (IF z.rc.src = "temp" THEN 3 * LZMA_IN_REQUIRED ELSE b.in_size)
  BY <1>1, Outside
<1>3. BufferOK(buf) /\ OutGrows(b, buf) /\ buf.in_size = b.in_size
  BY <1>1, <1>2, TakenOK, BufFields
<1>4. Next1 \in Nat
  BY <1>1, <1>2, Next1IsByte
<1>5. IF result = "XZ_OK" THEN Goto("run", next, buf) /\ raw' = history
                          ELSE Lzma2Returns(x, buf, result)
  BY DEF Control
<1>6. /\ Typed(x) /\ x.temp = <<>> /\ x.lzma.len = 0 /\ x.ret = z.ret /\ x.rc = z.rc
      /\ x.sequence = "SEQ_CONTROL"
      /\ ~x.need_dict_reset => /\ Holds(x.dict, history)
                               /\ x.dict.start = x.dict.pos /\ x.dict.pos < x.dict.end
      /\ fresh => ~x.need_dict_reset
      /\ x.need_dict_reset \in BOOLEAN
      /\ history \in Seq(Nat)
  <2>1. CASE fresh
    <3>1. PICK n \in Nat \ {0} : n = z.dict.end /\ z.dict \in DictType(n)
      BY <1>2, Fields
    <3>2. PICK d \in DictType(n) : d = dict_reset(z.dict) /\ d.start = 0 /\ d.pos = 0 /\ Holds(d, <<>>)
      BY <3>1, ResetHolds
    <3>3. d.end = n
      BY DEF DictType
    <3>4. reset = [z EXCEPT !.need_props = TRUE, !.need_dict_reset = FALSE, !.dict = d]
      BY <3>2
    <3>5. /\ reset.dict = d /\ reset.temp = z.temp /\ reset.lzma = z.lzma /\ reset.ret = z.ret
          /\ reset.rc = z.rc /\ reset.sequence = z.sequence /\ reset.need_dict_reset = FALSE
          /\ reset \in DecoderType(n)
      BY <1>2, <3>1, <3>4 DEF Typed, DecoderType
    <3> HIDE DEF reset
    <3>6. Typed(reset)
      BY <3>3, <3>5 DEF Typed
    <3>7. x = reset /\ history = <<>>
      BY <2>1
    <3> HIDE DEF x, history
    <3>8. <<>> \in Seq(Nat)
      OBVIOUS
    <3>9. QED
      <4>1. x.dict = d /\ Holds(x.dict, history)
        BY <3>2, <3>5, <3>7
      <4>2. x.dict.start = x.dict.pos /\ x.dict.pos < x.dict.end
        BY <3>2, <3>3, <4>1
      <4> HIDE DEF fresh
      <4>3. QED
        BY <1>1, <1>2, <3>5, <3>6, <3>7, <3>8, <4>1, <4>2
  <2>2. CASE ~fresh
    <3>1. x = z /\ history = raw
      BY <2>2
    <3> HIDE DEF x, history, fresh
    <3>2. z.need_dict_reset \in BOOLEAN
      BY <1>2, Fields
    <3>3. QED
      BY <1>1, <1>2, <2>2, <3>1, <3>2
  <2>3. QED
    BY <2>1, <2>2
<1>7. x = z \/ fresh
  OBVIOUS
<1>8. ~fresh => history = raw
  OBVIOUS
<1> HIDE DEF x, history, buf
<1>9. CASE result # "XZ_OK"
  <2>1. Lzma2Returns(x, buf, result)
    BY <1>5, <1>9
  <2>2. result \in {"XZ_OK", "XZ_STREAM_END", "XZ_DATA_ERROR"}
    OBVIOUS
  <2>3. ~fresh
    BY <1>4, <1>6, <1>9
  <2> HIDE DEF result, fresh
  <2>4. Sound("run", x, buf, history)
    BY <1>2, <1>3, <1>6, SoundOutside
  <2>5. QED
    BY <1>2, <1>3, <1>6, <1>8, <2>1, <2>2, <2>3, <2>4, Lzma2ReturnsSound DEF Alive
<1>10. CASE result = "XZ_OK"
  <2>1. Goto("run", next, buf) /\ raw' = history
    BY <1>5, <1>10
  <2>2. ~x.need_dict_reset /\ Next1 > 0
    BY <1>4, <1>6, <1>10
  <2> HIDE DEF result, fresh
  <2>3. (Next1 % 2) * SIZE_BASE ^ 2 \in Nat
    <3>1. SIZE_BASE ^ 2 = 16
      BY DEF SIZE_BASE
    <3>2. Next1 % 2 \in Nat
      BY <1>4
    <3>3. QED
      BY <3>1, <3>2
  <2>4. PICK u \in Nat : u = (Next1 % 2) * SIZE_BASE ^ 2
    BY <2>3
  <2>5. /\ Typed(next)
        /\ next.dict = x.dict /\ next.temp = x.temp /\ next.ret = x.ret /\ next.lzma.len = x.lzma.len
        /\ next.need_dict_reset = x.need_dict_reset
        /\ next.rc.in_pos = x.rc.in_pos /\ next.rc.src = x.rc.src
        /\ \/ next.sequence = "SEQ_COMPRESSED_0" /\ next.next_sequence = "SEQ_COPY"
           \/ next.sequence = "SEQ_UNCOMPRESSED_1" /\ next.next_sequence # "SEQ_COPY"
    <3>1. lzma = [x EXCEPT !.uncompressed = u, !.sequence = "SEQ_UNCOMPRESSED_1"]
      BY <2>4
    <3>2. /\ Typed(lzma)
          /\ lzma.dict = x.dict /\ lzma.temp = x.temp /\ lzma.ret = x.ret /\ lzma.lzma = x.lzma
          /\ lzma.need_dict_reset = x.need_dict_reset /\ lzma.rc = x.rc
          /\ lzma.sequence = "SEQ_UNCOMPRESSED_1"
      BY <1>6, <3>1 DEF Typed, DecoderType, ChunkStates
    <3> HIDE DEF lzma
    <3> DEFINE prepare == [lzma EXCEPT !.next_sequence = "SEQ_LZMA_PREPARE"]
    <3>3. /\ Typed(prepare)
          /\ prepare.dict = x.dict /\ prepare.temp = x.temp /\ prepare.ret = x.ret /\ prepare.lzma = x.lzma
          /\ prepare.need_dict_reset = x.need_dict_reset /\ prepare.rc = x.rc
          /\ prepare.sequence = "SEQ_UNCOMPRESSED_1" /\ prepare.next_sequence = "SEQ_LZMA_PREPARE"
      BY <3>2 DEF Typed, DecoderType
    <3>4. CASE Next1 < 8
      <4>1. next = [x EXCEPT !.sequence = "SEQ_COMPRESSED_0", !.next_sequence = "SEQ_COPY"]
        BY <1>4, <3>4
      <4> HIDE DEF next
      <4>2. QED
        BY <1>6, <4>1 DEF Typed, DecoderType, ChunkStates
    <3>5. CASE Next1 >= 12
      <4>1. next = [lzma EXCEPT !.need_props = FALSE, !.next_sequence = "SEQ_PROPERTIES"]
        BY <1>4, <3>5
      <4> HIDE DEF next
      <4>2. QED
        BY <3>2, <4>1 DEF Typed, DecoderType
    <3>6. CASE Next1 \in 10..11
      <4>1. next = lzma_reset(prepare)
        BY <1>4, <3>6
      <4> HIDE DEF next, prepare
      <4>2. QED
        BY <3>3, <4>1, ResetIs
    <3>7. CASE Next1 \in 8..9
      <4>1. next = prepare
        BY <1>4, <3>7
      <4> HIDE DEF next, prepare
      <4>2. QED
        BY <3>3, <4>1
    <3>8. QED
      BY <1>4, <3>4, <3>5, <3>6, <3>7
  <2> HIDE DEF next
  <2>6. Sound("run", next, buf, history)
    BY <1>2, <1>3, <1>6, <2>2, <2>5, SoundOutside
  <2>7. QED
    BY <1>2, <1>3, <1>6, <2>1, <2>5, <2>6, GotoSound DEF Alive, InLzma2
<1>11. QED
  BY <1>9, <1>10

-----------------------------------------------------------------------------
(* Properties and the range decoder's first bytes.                         *)

\* rc_read_init(), in the state in which a chunk's data begin.
LEMMA PrepareSound ==
  ASSUME NEW x, NEW buf, Typed(x), BufferOK(buf), input \in Seq(Nat), raw \in Seq(Nat), Alive(x),
         OutGrows(b, buf), buf.in_size = b.in_size,
         x.sequence = "SEQ_LZMA_PREPARE", x.uncompressed > 0, x.temp = <<>>, x.lzma.len = 0,
         ~x.need_dict_reset, Holds(x.dict, raw), x.dict.start = x.dict.pos, x.dict.pos < x.dict.end,
         x.rc.in_pos <= (IF x.rc.src = "temp" THEN 3 * LZMA_IN_REQUIRED ELSE buf.in_size),
         Prepare(x, buf)
  PROVE  After
<1> DEFINE n == Min({x.rc.init_bytes_left, Avail(buf)})
           bytes == SubSeq(input, buf.in_pos + 1, buf.in_pos + n)
           read == [x EXCEPT !.rc.code = @ \o bytes, !.rc.init_bytes_left = @ - n]
           run == [read EXCEPT !.compressed = @ - RC_INIT_BYTES, !.sequence = "SEQ_LZMA_RUN"]
<1>1. IF x.compressed < RC_INIT_BYTES THEN Lzma2Returns(x, buf, "XZ_DATA_ERROR")
      ELSE IF read.rc.init_bytes_left > 0 THEN Lzma2Returns(read, Taken(buf, n), "XZ_OK")
      ELSE Loop(run, Taken(buf, n))
  BY DEF Prepare
<1>2. x.rc \in RcType /\ x.rc.init_bytes_left \in Nat /\ x.rc.code \in Seq(Nat) /\ Avail(buf) \in Nat
      /\ x.compressed \in Nat
  BY Fields, BufFields DEF RcType
<1>3. n \in Nat /\ n <= Avail(buf) /\ n <= x.rc.init_bytes_left
  <2>1. PICK i \in Nat, j \in Nat : i = x.rc.init_bytes_left /\ j = Avail(buf)
    BY <1>2
  <2>2. Min({i, j}) = IF i <= j THEN i ELSE j
    BY MinOfTwo
  <2>3. n = Min({i, j})
    BY <2>1
  <2> HIDE DEF n
  <2>4. QED
    BY <2>1, <2>2, <2>3
<1>4. bytes \in Seq(Nat)
  BY <1>3, SubInput
<1> HIDE DEF n, bytes
<1>5. PICK r \in RcType : /\ r = [x.rc EXCEPT !.code = x.rc.code \o bytes, !.init_bytes_left = x.rc.init_bytes_left - n]
                          /\ r.in_pos = x.rc.in_pos /\ r.src = x.rc.src
  <2> DEFINE r == [x.rc EXCEPT !.code = x.rc.code \o bytes, !.init_bytes_left = x.rc.init_bytes_left - n]
  <2>1. PICK q \in RcType : q = x.rc
    BY <1>2
  <2>2. PICK left \in Nat : left = x.rc.init_bytes_left - n
    BY <1>2, <1>3
  <2>3. PICK code \in Seq(Nat) : code = x.rc.code \o bytes
    <3>1. \A s, t \in Seq(Nat) : s \o t \in Seq(Nat)
      OBVIOUS
    <3>2. QED
      BY <1>2, <1>4, <3>1
  <2>4. r = [q EXCEPT !.code = code, !.init_bytes_left = left]
    BY <2>1, <2>2, <2>3
  <2> HIDE DEF r
  <2>5. r \in RcType /\ r.in_pos = q.in_pos /\ r.src = q.src
    BY <2>4 DEF RcType
  <2>6. QED
    BY <2>1, <2>5 DEF r
<1>6. read = [x EXCEPT !.rc = r]
  BY <1>5 DEF Typed, DecoderType
<1> HIDE DEF read
<1>7. /\ Typed(read)
      /\ read.dict = x.dict /\ read.temp = x.temp /\ read.ret = x.ret /\ read.lzma = x.lzma
      /\ read.uncompressed = x.uncompressed /\ read.compressed = x.compressed
      /\ read.need_dict_reset = x.need_dict_reset /\ read.sequence = x.sequence
      /\ read.rc = r
  BY <1>6 DEF Typed, DecoderType
<1>8. /\ BufferOK(Taken(buf, n)) /\ OutGrows(b, Taken(buf, n)) /\ Taken(buf, n).in_size = b.in_size
  BY <1>3, TakenOK, BufFields DEF OutGrows
<1>9. Alive(read)
  BY <1>7 DEF Alive
<1>10. CASE x.compressed < RC_INIT_BYTES
  <2>1. Sound("run", x, buf, raw)
    BY SoundOutside
  <2>2. QED
    BY <1>1, <1>10, <2>1, Lzma2ReturnsSound
<1>11. CASE ~(x.compressed < RC_INIT_BYTES) /\ read.rc.init_bytes_left > 0
  <2>1. Sound("run", read, Taken(buf, n), raw)
    BY <1>5, <1>7, <1>8, SoundOutside
  <2>2. QED
    BY <1>1, <1>8, <1>9, <1>11, <2>1, Lzma2ReturnsSound
<1>12. CASE ~(x.compressed < RC_INIT_BYTES) /\ ~(read.rc.init_bytes_left > 0)
  <2>1. PICK c \in Nat : c = x.compressed - RC_INIT_BYTES
    BY <1>2, <1>12 DEF RC_INIT_BYTES
  <2>2. run = [read EXCEPT !.compressed = c, !.sequence = "SEQ_LZMA_RUN"]
    BY <1>7, <2>1
  <2> HIDE DEF run
  <2>3. /\ Typed(run)
        /\ run.dict = x.dict /\ run.temp = x.temp /\ run.ret = x.ret /\ run.lzma = x.lzma
        /\ run.uncompressed = x.uncompressed /\ run.compressed = c
        /\ run.need_dict_reset = x.need_dict_reset /\ run.sequence = "SEQ_LZMA_RUN" /\ run.rc = r
    BY <1>7, <2>2 DEF Typed, DecoderType, ChunkStates
  <2>4. DictInv("run", run, raw)
    <3>1. run.dict.start \in Nat /\ run.dict.pos \in Nat
      BY <2>3, Fields DEF DictType
    <3>2. QED
      BY <2>3, <3>1 DEF DictInv, Decoding
  <2>5. RoundInv("run", run, Taken(buf, n))
    BY DEF RoundInv, Decoding
  <2>6. ChunkInv(run)
    BY <2>1, <2>3 DEF ChunkInv, LZMA_IN_REQUIRED
  <2>7. RcInv("run", run, Taken(buf, n))
    BY <1>5, <1>8, <2>3, TakenOK, <1>3 DEF RcInv
  <2>8. Sound("run", run, Taken(buf, n), raw) /\ Alive(run)
    BY <2>3, <2>4, <2>5, <2>6, <2>7 DEF Sound, Alive
  <2>9. QED
    BY <1>1, <1>8, <1>12, <2>8, LoopSound
<1>13. QED
  BY <1>10, <1>11, <1>12

\* The same, where a call goes on with it.
LEMMA PrepareAgainSound ==
  ASSUME Before, PrepareAgain
  PROVE  After
<1>1. pc = "run" /\ z.sequence = "SEQ_LZMA_PREPARE" /\ Prepare(z, b)
  BY DEF PrepareAgain, Running
<1>2. OutGrows(b, b)
  BY <1>1, Outside, OutStays
<1>3. QED
  BY <1>1, <1>2, Outside, PrepareSound

\* The properties byte, and the reset that comes with it.
LEMMA PropertiesSound ==
  ASSUME Before, Properties
  PROVE  After
<1>1. pc = "run" /\ z.sequence = "SEQ_PROPERTIES" /\ Avail(b) > 0
  BY DEF Properties, Running
<1> DEFINE buf == Taken(b, 1)
           x == [z EXCEPT !.lzma.pos_mask = Next1, !.sequence = "SEQ_LZMA_PREPARE"]
<1>2. IF Next1 > PROPS_MAX THEN Lzma2Returns(z, buf, "XZ_DATA_ERROR") ELSE Prepare(lzma_reset(x), buf)
  BY DEF Properties
<1>3. /\ Typed(z) /\ BufferOK(b) /\ input \in Seq(Nat) /\ raw \in Seq(Nat) /\ Alive(z)
      /\ z.temp = <<>> /\ z.lzma.len = 0
      /\ ~z.need_dict_reset
      /\ Holds(z.dict, raw) /\ z.dict.start = z.dict.pos /\ z.dict.pos < z.dict.end
      /\ z.uncompressed > 0
      /\ z.rc.in_pos <= (IF z.rc.src = "temp" THEN 3 * LZMA_IN_REQUIRED ELSE b.in_size)
  BY <1>1, Outside
<1>4. BufferOK(buf) /\ OutGrows(b, buf) /\ buf.in_size = b.in_size
  BY <1>1, <1>3, TakenOK, BufFields
<1>5. Next1 \in Nat
  BY <1>1, <1>3, Next1IsByte
<1> HIDE DEF buf
<1>6. CASE Next1 > PROPS_MAX
  <2>1. Sound("run", z, buf, raw)
    BY <1>1, <1>3, <1>4, SoundOutside
  <2>2. QED
    BY <1>2, <1>3, <1>4, <1>6, <2>1, Lzma2ReturnsSound
<1>7. CASE ~(Next1 > PROPS_MAX)
  <2>1. /\ Typed(x) /\ x.dict = z.dict /\ x.temp = z.temp /\ x.ret = z.ret /\ x.lzma.len = z.lzma.len
        /\ x.uncompressed = z.uncompressed /\ x.need_dict_reset = z.need_dict_reset
        /\ x.sequence = "SEQ_LZMA_PREPARE" /\ x.rc = z.rc
    BY <1>3, <1>5 DEF Typed, DecoderType, LzmaType, ChunkStates
  <2>2. Prepare(lzma_reset(x), buf)
    BY <1>2, <1>7
  <2> HIDE DEF x
  <2>3. PICK y : y = lzma_reset(x)
    OBVIOUS
  <2>4. /\ Typed(y) /\ y.dict = z.dict /\ y.temp = z.temp /\ y.ret = z.ret /\ y.lzma.len = z.lzma.len
        /\ y.uncompressed = z.uncompressed /\ y.need_dict_reset = z.need_dict_reset
        /\ y.sequence = "SEQ_LZMA_PREPARE" /\ y.rc.in_pos = z.rc.in_pos /\ y.rc.src = z.rc.src
    BY <2>1, <2>3, ResetIs
  <2>5. Prepare(y, buf) /\ Alive(y)
    BY <1>3, <2>2, <2>3, <2>4 DEF Alive
  <2>6. QED
    BY <1>3, <1>4, <2>4, <2>5, PrepareSound
<1>8. QED
  BY <1>6, <1>7

-----------------------------------------------------------------------------
(* dict_uncompressed(): a chunk that is copied.                            *)

\* Two sequences, one behind the other.
LEMMA ConcatIs ==
  ASSUME NEW s \in Seq(Nat), NEW t \in Seq(Nat)
  PROVE  s \o t \in Seq(Nat) /\ Len(s \o t) = Len(s) + Len(t)
OBVIOUS

\* A dictionary typed for its size is one of the decoder's.
LEMMA WithDict ==
  ASSUME NEW x, Typed(x), NEW d \in DictType(x.dict.end)
  PROVE  LET y == [x EXCEPT !.dict = d] IN
         /\ Typed(y)
         /\ y.dict = d /\ y.lzma = x.lzma /\ y.rc = x.rc /\ y.temp = x.temp /\ y.ret = x.ret
         /\ y.sequence = x.sequence /\ y.next_sequence = x.next_sequence
         /\ y.uncompressed = x.uncompressed /\ y.compressed = x.compressed
         /\ y.need_dict_reset = x.need_dict_reset
<1>1. d.end = x.dict.end
  BY DEF DictType
<1>2. QED
  BY <1>1 DEF Typed, DecoderType

\* The output takes what there is room for.
LEMMA PutOut ==
  ASSUME NEW buf, BufferOK(buf), NEW bytes \in Seq(Nat), NEW n \in Nat, n = Len(bytes), n <= buf.room,
         NEW to, to = [in_pos |-> buf.in_pos, in_size |-> buf.in_size,
                       out |-> buf.out \o bytes, room |-> buf.room - n]
  PROVE  /\ BufferOK(to) /\ OutGrows(buf, to) /\ Avail(to) = Avail(buf)
         /\ to.in_pos = buf.in_pos /\ to.in_size = buf.in_size
         /\ to.room = buf.room - n
<1>1. PICK out \in Seq(Nat) : out = buf.out \o bytes /\ Len(out) = Len(buf.out) + n
  BY BufFields, ConcatIs
<1>2. PICK room \in Nat : room = buf.room - n
  BY BufFields
<1>3. to = [in_pos |-> buf.in_pos, in_size |-> buf.in_size, out |-> out, room |-> room]
  BY <1>1, <1>2
<1>4. /\ to \in BufType /\ to.in_pos = buf.in_pos /\ to.in_size = buf.in_size
      /\ to.out = out /\ to.room = room
  BY <1>3, BufFields DEF BufType
<1>5. BufferOK(to) /\ Avail(to) = Avail(buf)
  BY <1>4, BufFields DEF BufferOK, Avail
<1>6. Len(to.out) + to.room = Len(buf.out) + buf.room /\ Len(to.out) >= Len(buf.out)
  <2>1. PICK l \in Nat, r \in Nat : l = Len(buf.out) /\ r = buf.room
    BY BufFields
  <2>2. Len(to.out) = l + n /\ to.room = r - n
    BY <1>1, <1>2, <1>4, <2>1
  <2>3. (l + n) + (r - n) = l + r /\ l + n >= l
    OBVIOUS
  <2>4. QED
    BY <2>1, <2>2, <2>3
<1>7. QED
  BY <1>2, <1>4, <1>5, <1>6 DEF OutGrows

\* Output that has grown twice has grown.
LEMMA GrowsOn ==
  ASSUME NEW from, NEW over, NEW to, BufferOK(from), BufferOK(over), BufferOK(to),
         OutGrows(from, over), OutGrows(over, to)
  PROVE  OutGrows(from, to)
BY BufFields, SMTT(30) DEF OutGrows

\* A copied chunk's bytes go into the dictionary and out.
LEMMA CopySound ==
  ASSUME Before, Copy
  PROVE  After
<1>1. pc = "run" /\ z.sequence = "SEQ_COPY" /\ Avail(b) > 0
  BY DEF Copy, Running
<1> DEFINE n == Min({Avail(b), b.room, z.dict.end - z.dict.pos, z.compressed})
           bytes == Ahead(n)
           dict == Written(z.dict, bytes)
           pos == IF dict.pos = dict.end THEN 0 ELSE dict.pos
           d == [dict EXCEPT !.pos = pos, !.start = pos]
           x == [z EXCEPT !.dict = d, !.compressed = @ - n]
           buf == [Taken(b, n) EXCEPT !.out = @ \o bytes, !.room = @ - n]
<1>2. /\ raw' = raw \o bytes
      /\ IF x.compressed = 0 THEN Goto("run", [x EXCEPT !.sequence = "SEQ_CONTROL"], buf)
         ELSE IF Avail(buf) > 0 /\ buf.room > 0 THEN Goto("run", x, buf)
         ELSE Goto("returned", [x EXCEPT !.ret = "XZ_OK"], buf)
  BY DEF Copy
<1>3. /\ Typed(z) /\ BufferOK(b) /\ input \in Seq(Nat) /\ raw \in Seq(Nat) /\ Alive(z)
      /\ z.temp = <<>> /\ z.lzma.len = 0
      /\ ~z.need_dict_reset
      /\ Holds(z.dict, raw) /\ z.dict.start = z.dict.pos /\ z.dict.pos < z.dict.end
      /\ z.rc.in_pos <= (IF z.rc.src = "temp" THEN 3 * LZMA_IN_REQUIRED ELSE b.in_size)
  BY <1>1, Outside
<1>4. PICK size \in Nat \ {0} : size = z.dict.end /\ z.dict \in DictType(size)
  BY <1>3, Fields
<1>5. z.dict.pos \in Nat /\ z.compressed \in Nat /\ z.dict.end - z.dict.pos \in Nat
      /\ Avail(b) \in Nat /\ b.room \in Nat
  BY <1>3, <1>4, Fields, BufFields, SMTT(30) DEF DictType
<1>6. n \in Nat /\ n <= Avail(b) /\ n <= b.room /\ z.dict.pos + n <= size /\ n <= z.compressed
  <2>1. /\ n \in {Avail(b), b.room, z.dict.end - z.dict.pos, z.compressed}
        /\ n <= Avail(b) /\ n <= b.room
        /\ n <= z.dict.end - z.dict.pos /\ n <= z.compressed
    <3>1. PICK i \in Nat, j \in Nat, k \in Nat, m \in Nat :
            i = Avail(b) /\ j = b.room /\ k = z.dict.end - z.dict.pos /\ m = z.compressed
      BY <1>5
    <3>2. n = Min({i, j, k, m})
      BY <3>1
    <3> HIDE DEF n
    <3>3. /\ Min({i, j, k, m}) \in {i, j, k, m}
          /\ Min({i, j, k, m}) <= i /\ Min({i, j, k, m}) <= j
          /\ Min({i, j, k, m}) <= k /\ Min({i, j, k, m}) <= m
      BY MinOfFour
    <3>4. QED
      BY <3>1, <3>2, <3>3
  <2> HIDE DEF n
  <2>2. QED
    BY <1>4, <1>5, <2>1
<1> HIDE DEF n
<1>7. bytes \in Seq(Nat) /\ Len(bytes) = n
  BY <1>3, <1>6, SubInput DEF Ahead
<1> HIDE DEF bytes
<1>8. dict \in DictType(size) /\ Holds(dict, raw \o bytes)
  BY <1>3, <1>4, <1>6, <1>7, WrittenIs, WrittenHolds
<1> HIDE DEF dict
<1>9. PICK history \in Seq(Nat) : history = raw \o bytes
  BY <1>3, <1>7, ConcatIs
<1>10. /\ d \in DictType(size) /\ d.end = size /\ d.start = d.pos
       /\ Holds(d, history) /\ d.pos < d.end
  <2>1. dict.pos \in Nat /\ dict.end = size
    BY <1>8 DEF DictType
  <2>2. pos \in Nat
    BY <2>1
  <2>3. /\ d \in DictType(size) /\ d.buf = dict.buf /\ d.full = dict.full
        /\ d.pos = pos /\ d.start = pos /\ d.end = dict.end
    BY <1>8, <2>2 DEF DictType
  <2>4. d.pos = IF dict.pos = dict.end THEN 0 ELSE dict.pos
    BY <2>3
  <2> HIDE DEF d, pos
  <2>5. Holds(d, history) /\ d.pos < d.end
    BY <1>8, <1>9, <2>3, <2>4, WrapHolds
  <2>6. QED
    BY <2>1, <2>3, <2>5
<1> HIDE DEF d
<1>11. PICK c \in Nat : c = z.compressed - n
  BY <1>5, <1>6
<1>12. x = [[z EXCEPT !.dict = d] EXCEPT !.compressed = c]
  BY <1>11, <1>3 DEF Typed, DecoderType
<1> HIDE DEF x
<1>13. /\ Typed(x)
       /\ x.dict = d /\ x.lzma = z.lzma /\ x.rc = z.rc /\ x.temp = z.temp /\ x.ret = z.ret
       /\ x.sequence = "SEQ_COPY" /\ x.compressed = c
       /\ x.need_dict_reset = z.need_dict_reset
  <2> DEFINE y == [z EXCEPT !.dict = d]
  <2>1. /\ Typed(y)
        /\ y.dict = d /\ y.lzma = z.lzma /\ y.rc = z.rc /\ y.temp = z.temp /\ y.ret = z.ret
        /\ y.sequence = z.sequence
        /\ y.need_dict_reset = z.need_dict_reset
    <3>1. d \in DictType(z.dict.end)
      BY <1>4, <1>10
    <3>2. QED
      BY <1>3, <3>1, WithDict, ZenonT(60)
  <2> HIDE DEF y
  <2>2. x = [y EXCEPT !.compressed = c]
    BY <1>12 DEF y
  <2>3. QED
    BY <1>1, <2>1, <2>2 DEF Typed, DecoderType
<1>14. BufferOK(buf) /\ OutGrows(b, buf) /\ buf.in_size = b.in_size
  <2>1. BufferOK(Taken(b, n)) /\ OutGrows(b, Taken(b, n)) /\ Taken(b, n).in_size = b.in_size
        /\ Taken(b, n).room = b.room
    BY <1>3, <1>6, TakenOK
  <2>2. PICK t \in BufType : t = Taken(b, n)
    BY <2>1 DEF BufferOK
  <2>3. buf = [in_pos |-> t.in_pos, in_size |-> t.in_size, out |-> t.out \o bytes, room |-> t.room - n]
    <3>1. buf = [t EXCEPT !.out = @ \o bytes, !.room = @ - n]
      BY <2>2
    <3> HIDE DEF buf
    <3>2. QED
      BY <3>1 DEF BufType
  <2> HIDE DEF buf
  <2>4. BufferOK(buf) /\ OutGrows(t, buf) /\ buf.in_size = t.in_size
    <3>1. n \in Nat /\ bytes \in Seq(Nat) /\ n = Len(bytes) /\ BufferOK(t) /\ n <= t.room
      BY <1>6, <1>7, <2>1, <2>2
    <3>2. QED
      BY <2>3, <3>1, PutOut
  <2>5. QED
    BY <1>3, <2>1, <2>2, <2>3, <2>4, GrowsOn
<1> HIDE DEF buf
<1>15. Sound("run", x, buf, history) /\ Alive(x)
  BY <1>3, <1>10, <1>13, <1>14, SoundOutside DEF Alive
<1>a. raw' = history
  BY <1>2, <1>9
<1>16. CASE Goto("run", [x EXCEPT !.sequence = "SEQ_CONTROL"], buf)
  <2> DEFINE y == [x EXCEPT !.sequence = "SEQ_CONTROL"]
  <2>1. /\ Typed(y)
        /\ y.dict = d /\ y.lzma = z.lzma /\ y.rc = z.rc /\ y.temp = z.temp /\ y.ret = z.ret
        /\ y.sequence = "SEQ_CONTROL"
        /\ y.need_dict_reset = z.need_dict_reset
    BY <1>13 DEF Typed, DecoderType, ChunkStates
  <2>2. Goto("run", y, buf)
    BY <1>16
  <2> HIDE DEF y
  <2>3. Sound("run", y, buf, history) /\ Alive(y)
    BY <1>3, <1>10, <1>14, <2>1, SoundOutside DEF Alive
  <2>4. QED
    BY <1>a, <1>14, <2>2, <2>3, GotoSound DEF InLzma2
<1>17. CASE Goto("run", x, buf)
  BY <1>a, <1>14, <1>15, <1>17, GotoSound DEF InLzma2
<1>18. CASE Goto("returned", [x EXCEPT !.ret = "XZ_OK"], buf)
  <2>1. Sound("returned", [x EXCEPT !.ret = "XZ_OK"], buf, history)
    BY <1>15, ReturnsSound
  <2>2. QED
    BY <1>a, <1>14, <1>18, <2>1, GotoSound DEF InLzma2
<1>19. QED
  BY <1>2, <1>16, <1>17, <1>18

-----------------------------------------------------------------------------
(* lzma2_lzma(): between the input and temp.buf.                           *)

\* In lzma2_lzma(), what does not depend on where the range decoder reads.
Round(x, room, history) ==
  /\ Typed(x) /\ Alive(x) /\ x.sequence = "SEQ_LZMA_RUN" /\ ~x.need_dict_reset
  /\ Holds(x.dict, history)
  /\ x.dict.start <= x.dict.pos /\ x.dict.pos <= x.dict.limit /\ x.dict.limit <= x.dict.end
  /\ x.dict.limit - x.dict.start <= room /\ x.dict.limit - x.dict.start <= x.uncompressed
  /\ x.uncompressed > 0
  /\ x.lzma.len > 0 => InDictionary(x.dict, x.lzma.reps[1])

\* What Sound says inside of a round, taken apart.
LEMMA Inside ==
  ASSUME NEW label, Decoding(label), NEW x, NEW buf, NEW history,
         Sound(label, x, buf, history), Alive(x)
  PROVE  /\ Round(x, buf.room, history)
         /\ Len(x.temp) <= x.compressed /\ Len(x.temp) < LZMA_IN_REQUIRED
         /\ RcInv(label, x, buf)
BY DEF Sound, Round, DictInv, RoundInv, ChunkInv

\* Put together.
LEMMA SoundInside ==
  ASSUME NEW label, Decoding(label), NEW x, NEW buf, NEW history,
         Round(x, buf.room, history),
         Len(x.temp) <= x.compressed, Len(x.temp) < LZMA_IN_REQUIRED,
         RcInv(label, x, buf)
  PROVE  Sound(label, x, buf, history) /\ Alive(x)
<1>1. DictInv(label, x, history)
  BY DEF Round, DictInv
<1>2. RoundInv(label, x, buf)
  BY DEF Round, RoundInv
<1>3. ChunkInv(x)
  BY DEF Round, ChunkInv
<1>4. QED
  BY <1>1, <1>2, <1>3 DEF Round, Sound

\* The round stays the same as long as the dictionary, the match and the sizes do.
LEMMA SameRound ==
  ASSUME NEW x, NEW room, NEW history, Round(x, room, history),
         NEW y, Typed(y), y.dict = x.dict, y.lzma = x.lzma, y.ret = x.ret, y.sequence = x.sequence,
         y.need_dict_reset = x.need_dict_reset, y.uncompressed = x.uncompressed
  PROVE  Round(y, room, history)
BY DEF Round, Alive

\* Other fields than these.
LEMMA WithTemp ==
  ASSUME NEW x, Typed(x), NEW temp \in Seq(Nat)
  PROVE  LET y == [x EXCEPT !.temp = temp] IN
         /\ Typed(y) /\ y.dict = x.dict /\ y.lzma = x.lzma /\ y.ret = x.ret /\ y.sequence = x.sequence
         /\ y.need_dict_reset = x.need_dict_reset /\ y.uncompressed = x.uncompressed
         /\ y.compressed = x.compressed /\ y.rc = x.rc /\ y.temp = temp
BY DEF Typed, DecoderType

\* To dict_flush(), from where the range decoder has read no further than it may.
LEMMA FlushNext ==
  ASSUME NEW x, NEW buf, Round(x, buf.room, raw),
         Len(x.temp) <= x.compressed, Len(x.temp) < LZMA_IN_REQUIRED,
         x.rc.in_pos <= (IF x.rc.src = "temp" THEN 3 * LZMA_IN_REQUIRED ELSE buf.in_size),
         BufferOK(buf), raw \in Seq(Nat), OutGrows(b, buf),
         Lzma2LzmaReturns(x, buf)
  PROVE  After
<1>1. RcInv("flush", x, buf)
  BY DEF RcInv
<1>2. Sound("flush", x, buf, raw) /\ Alive(x)
  BY <1>1, SoundInside DEF Decoding
<1>3. QED
  BY <1>2, GotoSound DEF Lzma2LzmaReturns, InLzma2

\* lzma2_lzma() keeps input that is too short for a symbol in temp.buf.
LEMMA KeepRestSound ==
  ASSUME NEW x, NEW buf, Round(x, buf.room, raw),
         Len(x.temp) <= x.compressed, Len(x.temp) < LZMA_IN_REQUIRED,
         x.rc.in_pos <= (IF x.rc.src = "temp" THEN 3 * LZMA_IN_REQUIRED ELSE buf.in_size),
         BufferOK(buf), input \in Seq(Nat), raw \in Seq(Nat), OutGrows(b, buf),
         KeepRest(x, buf)
  PROVE  After
<1>1. CASE Avail(buf) < LZMA_IN_REQUIRED
  <2> DEFINE n == Min({Avail(buf), x.compressed})
             temp == SubSeq(input, buf.in_pos + 1, buf.in_pos + n)
             y == [x EXCEPT !.temp = temp]
             to == Taken(buf, n)
  <2>1. Lzma2LzmaReturns(y, to)
    BY <1>1 DEF KeepRest
  <2>2. Typed(x) /\ x.compressed \in Nat /\ Avail(buf) \in Nat
    BY Fields, BufFields DEF Round
  <2>3. n \in Nat /\ n <= Avail(buf) /\ n <= x.compressed
    <3>1. PICK i \in Nat, j \in Nat : i = Avail(buf) /\ j = x.compressed
      BY <2>2
    <3>2. Min({i, j}) = IF i <= j THEN i ELSE j
      BY MinOfTwo
    <3>3. n = Min({i, j})
      BY <3>1
    <3> HIDE DEF n
    <3>4. QED
      BY <3>1, <3>2, <3>3
  <2> HIDE DEF n
  <2>4. temp \in Seq(Nat) /\ Len(temp) = n
    BY <2>3, SubInput
  <2>5. n < LZMA_IN_REQUIRED
    BY <1>1, <2>2, <2>3 DEF LZMA_IN_REQUIRED
  <2>6. /\ BufferOK(to) /\ OutGrows(b, to) /\ to.in_size = buf.in_size /\ to.room = buf.room
    BY <2>3, TakenOK DEF OutGrows
  <2> HIDE DEF temp, to
  <2>7. /\ Typed(y) /\ y.dict = x.dict /\ y.lzma = x.lzma /\ y.ret = x.ret /\ y.sequence = x.sequence
        /\ y.need_dict_reset = x.need_dict_reset /\ y.uncompressed = x.uncompressed
        /\ y.compressed = x.compressed /\ y.rc = x.rc /\ y.temp = temp
    BY <2>2, <2>4, WithTemp
  <2> HIDE DEF y
  <2>8. Round(y, to.room, raw)
    BY <2>6, <2>7, SameRound
  <2>9. QED
    BY <2>1, <2>3, <2>4, <2>5, <2>6, <2>7, <2>8, FlushNext
<1>2. CASE ~(Avail(buf) < LZMA_IN_REQUIRED)
  BY <1>2, FlushNext DEF KeepRest
<1>3. QED
  BY <1>1, <1>2

\* Into lzma_main().
LEMMA MainNext ==
  ASSUME NEW x, NEW buf, Round(x, buf.room, raw),
         Len(x.temp) <= x.compressed, Len(x.temp) < LZMA_IN_REQUIRED,
         RcInv("main", x, buf),
         BufferOK(buf), raw \in Seq(Nat), OutGrows(b, buf),
         LzmaMain(x, buf)
  PROVE  After
<1>1. Sound("main", x, buf, raw) /\ Alive(x)
  BY SoundInside DEF Decoding
<1>2. QED
  BY <1>1, GotoSound DEF LzmaMain, InLzma2

\* lzma2_lzma() decodes from the input, or has too little of it.
LEMMA DecodeInputSound ==
  ASSUME NEW x, NEW buf, Round(x, buf.room, raw), x.temp = <<>>,
         x.rc.in_pos <= (IF x.rc.src = "temp" THEN 3 * LZMA_IN_REQUIRED ELSE buf.in_size),
         BufferOK(buf), input \in Seq(Nat), raw \in Seq(Nat), OutGrows(b, buf),
         DecodeInput(x, buf)
  PROVE  After
<1>1. Typed(x) /\ x.compressed \in Nat /\ x.rc \in RcType
  BY Fields DEF Round
<1>2. Len(x.temp) <= x.compressed /\ Len(x.temp) < LZMA_IN_REQUIRED
  BY <1>1 DEF LZMA_IN_REQUIRED
<1>3. CASE Avail(buf) >= LZMA_IN_REQUIRED
  <2> DEFINE limit == InLimit(x, buf)
             rc == [x.rc EXCEPT !.src = "in", !.in_pos = buf.in_pos, !.in_limit = limit]
             y == [x EXCEPT !.rc.src = "in", !.rc.in_pos = buf.in_pos, !.rc.in_limit = limit]
  <2>1. LzmaMain(y, buf)
    BY <1>3 DEF DecodeInput
  <2>2. buf.in_pos \in Nat /\ buf.in_size \in Nat /\ Avail(buf) = buf.in_size - buf.in_pos
    BY BufFields
  <2>3. limit \in Nat /\ buf.in_pos <= limit /\ limit + LZMA_IN_REQUIRED <= buf.in_size
    BY <1>1, <1>3, <2>2, SMTT(30) DEF InLimit, LZMA_IN_REQUIRED
  <2> HIDE DEF limit
  <2>4. rc \in RcType /\ rc.src = "in" /\ rc.in_pos = buf.in_pos /\ rc.in_limit = limit
    <3>1. PICK q \in RcType : q = x.rc
      BY <1>1
    <3>2. PICK p \in Nat : p = buf.in_pos
      BY <2>2
    <3>3. rc = [q EXCEPT !.src = "in", !.in_pos = p, !.in_limit = limit]
      BY <3>1, <3>2
    <3> HIDE DEF rc
    <3>4. QED
      BY <2>3, <3>2, <3>3 DEF RcType
  <2>5. y = [x EXCEPT !.rc = rc, !.compressed = x.compressed]
    BY <1>1 DEF Typed, DecoderType
  <2> HIDE DEF rc, y
  <2>6. /\ Typed(y) /\ y.dict = x.dict /\ y.lzma = x.lzma /\ y.ret = x.ret /\ y.sequence = x.sequence
        /\ y.need_dict_reset = x.need_dict_reset /\ y.uncompressed = x.uncompressed
        /\ y.compressed = x.compressed /\ y.rc = rc /\ y.temp = x.temp
    BY <1>1, <2>4, <2>5 DEF Typed, DecoderType
  <2>7. Round(y, buf.room, raw)
    BY <2>6, SameRound
  <2>8. RcInv("main", y, buf)
    BY <2>2, <2>3, <2>4, <2>6 DEF RcInv, LZMA_IN_REQUIRED
  <2>9. QED
    BY <1>2, <2>1, <2>6, <2>7, <2>8, MainNext
<1>4. CASE ~(Avail(buf) >= LZMA_IN_REQUIRED)
  BY <1>2, <1>4, KeepRestSound DEF DecodeInput
<1>5. QED
  BY <1>3, <1>4

\* dict_limit(): as much as fits.
LEMMA LimitIs ==
  ASSUME NEW n \in Nat, NEW d \in DictType(n), d.pos <= n, NEW max \in Nat
  PROVE  /\ dict_limit(d, max) \in DictType(n)
         /\ dict_limit(d, max).buf = d.buf /\ dict_limit(d, max).start = d.start
         /\ dict_limit(d, max).pos = d.pos /\ dict_limit(d, max).full = d.full
         /\ dict_limit(d, max).end = n
         /\ d.pos <= dict_limit(d, max).limit /\ dict_limit(d, max).limit <= n
         /\ dict_limit(d, max).limit - d.pos <= max
<1> DEFINE limit == IF d.end - d.pos <= max THEN d.end ELSE d.pos + max
<1>1. d.pos \in Nat /\ d.end = n
  BY DEF DictType
<1>2. limit \in Nat /\ d.pos <= limit /\ limit <= n /\ limit - d.pos <= max
  BY <1>1
<1>3. dict_limit(d, max) = [d EXCEPT !.limit = limit]
  BY DEF dict_limit
<1> HIDE DEF limit
<1>4. QED
  BY <1>1, <1>2, <1>3 DEF DictType

\* A round of lzma2_lzma(): dict_limit(), then what is in temp.buf or the input.
LEMMA LzmaRunSound ==
  ASSUME Before, LzmaRun
  PROVE  After
<1>1. pc = "run" /\ z.sequence = "SEQ_LZMA_RUN"
  BY DEF LzmaRun, Running
<1>2. /\ Typed(z) /\ Alive(z) /\ BufferOK(b) /\ input \in Seq(Nat) /\ raw \in Seq(Nat)
      /\ ~z.need_dict_reset /\ Holds(z.dict, raw)
      /\ z.dict.start = z.dict.pos /\ z.dict.pos < z.dict.end
      /\ z.uncompressed > 0 /\ Len(z.temp) <= z.compressed /\ Len(z.temp) < LZMA_IN_REQUIRED
      /\ z.lzma.len > 0 => InDictionary(z.dict, z.lzma.reps[1])
      /\ z.rc.in_pos <= (IF z.rc.src = "temp" THEN 3 * LZMA_IN_REQUIRED ELSE b.in_size)
  BY <1>1 DEF Before, StreamInv, Sound, DictInv, Decoding, ChunkInv, RcInv
<1>3. PICK size \in Nat \ {0} : size = z.dict.end /\ z.dict \in DictType(size)
  BY <1>2, Fields
<1>4. /\ z.uncompressed \in Nat /\ b.room \in Nat /\ z.compressed \in Nat /\ Avail(b) \in Nat
      /\ z.temp \in Seq(Nat) /\ Len(z.temp) \in Nat /\ z.rc \in RcType
      /\ z.dict.pos \in Nat
  BY <1>2, <1>3, Fields, BufFields DEF DictType
<1> DEFINE max == Min({b.room, z.uncompressed})
           d == dict_limit(z.dict, max)
           x == [z EXCEPT !.dict = d]
           tmp == Min({2 * LZMA_IN_REQUIRED - Len(z.temp), z.compressed - Len(z.temp), Avail(b)})
           temp == z.temp \o Ahead(tmp)
           limit == IF Len(temp) = z.compressed THEN Len(temp) ELSE Len(temp) - LZMA_IN_REQUIRED
           main == [x EXCEPT !.rc.src = "temp", !.rc.in = temp, !.rc.in_pos = 0, !.rc.in_limit = limit]
<1>5. IF z.temp = <<>> /\ z.compressed > 0 THEN DecodeInput(x, b)
      ELSE IF Len(temp) # z.compressed /\ Len(temp) < LZMA_IN_REQUIRED
        THEN Lzma2LzmaReturns([x EXCEPT !.temp = temp], Taken(b, tmp))
      ELSE LzmaMain(main, b)
  BY DEF LzmaRun
<1>6. max \in Nat /\ max <= b.room /\ max <= z.uncompressed
  <2>1. PICK i \in Nat, j \in Nat : i = b.room /\ j = z.uncompressed
    BY <1>4
  <2>2. Min({i, j}) = IF i <= j THEN i ELSE j
    BY MinOfTwo
  <2>3. max = Min({i, j})
    BY <2>1
  <2> HIDE DEF max
  <2>4. QED
    BY <2>1, <2>2, <2>3
<1> HIDE DEF max
<1>7. /\ d \in DictType(size) /\ d.buf = z.dict.buf /\ d.start = z.dict.start
      /\ d.pos = z.dict.pos /\ d.full = z.dict.full /\ d.end = size
      /\ d.pos <= d.limit /\ d.limit <= size /\ d.limit - d.pos <= max /\ d.limit \in Nat
  <2>1. z.dict.pos <= size
    BY <1>2, <1>3, <1>4
  <2>2. /\ d \in DictType(size) /\ d.buf = z.dict.buf /\ d.start = z.dict.start
        /\ d.pos = z.dict.pos /\ d.full = z.dict.full /\ d.end = size
        /\ d.pos <= d.limit /\ d.limit <= size /\ d.limit - d.pos <= max
    BY <1>3, <1>6, <2>1, LimitIs
  <2> HIDE DEF d
  <2>3. QED
    BY <2>2 DEF DictType
<1> HIDE DEF d
<1>8. /\ Typed(x)
      /\ x.dict = d /\ x.lzma = z.lzma /\ x.rc = z.rc /\ x.temp = z.temp /\ x.ret = z.ret
      /\ x.sequence = z.sequence
      /\ x.uncompressed = z.uncompressed /\ x.compressed = z.compressed
      /\ x.need_dict_reset = z.need_dict_reset
  BY <1>2, <1>3, <1>7 DEF Typed, DecoderType
<1> HIDE DEF x
<1>9. Round(x, b.room, raw)
  <2>1. Holds(x.dict, raw)
    BY <1>2, <1>3, <1>7, <1>8, SameHolds
  <2>2. x.lzma.len > 0 => InDictionary(x.dict, x.lzma.reps[1])
    BY <1>2, <1>3, <1>7, <1>8 DEF InDictionary
  <2>3. /\ x.dict.start <= x.dict.pos /\ x.dict.pos <= x.dict.limit /\ x.dict.limit <= x.dict.end
        /\ x.dict.limit - x.dict.start <= b.room /\ x.dict.limit - x.dict.start <= x.uncompressed
    BY <1>2, <1>4, <1>6, <1>7, <1>8, SMTT(30)
  <2>4. QED
    BY <1>1, <1>2, <1>8, <2>1, <2>2, <2>3 DEF Round, Alive
<1>10. OutGrows(b, b)
  BY <1>2, OutStays
<1>11. CASE z.temp = <<>> /\ z.compressed > 0
  <2>1. DecodeInput(x, b)
    BY <1>5, <1>11
  <2>2. x.temp = <<>>
    BY <1>8, <1>11
  <2>3. QED
    BY <1>2, <1>8, <1>9, <1>10, <2>1, <2>2, DecodeInputSound
<1>12. /\ tmp \in Nat /\ tmp <= 2 * LZMA_IN_REQUIRED - Len(z.temp)
       /\ tmp <= z.compressed - Len(z.temp) /\ tmp <= Avail(b)
  <2>1. PICK i \in Nat, j \in Nat, k \in Nat :
          i = 2 * LZMA_IN_REQUIRED - Len(z.temp) /\ j = z.compressed - Len(z.temp) /\ k = Avail(b)
    <3>1. PICK l \in Nat, c \in Nat : l = Len(z.temp) /\ c = z.compressed
      BY <1>4
    <3>2. l <= c /\ l < 3
      BY <1>2, <3>1 DEF LZMA_IN_REQUIRED
    <3>3. 2 * 3 - l \in Nat /\ c - l \in Nat
      BY <3>2
    <3>4. QED
      BY <1>4, <3>1, <3>3 DEF LZMA_IN_REQUIRED
  <2>2. tmp = Min({i, j, k})
    BY <2>1
  <2> HIDE DEF tmp
  <2>3. /\ Min({i, j, k}) \in {i, j, k}
        /\ Min({i, j, k}) <= i /\ Min({i, j, k}) <= j /\ Min({i, j, k}) <= k
    BY MinOfThree
  <2>4. QED
    BY <2>1, <2>2, <2>3
<1> HIDE DEF tmp
<1>13. temp \in Seq(Nat) /\ Len(temp) = Len(z.temp) + tmp
  <2>1. Ahead(tmp) \in Seq(Nat) /\ Len(Ahead(tmp)) = tmp
    BY <1>2, <1>12, SubInput DEF Ahead
  <2>2. QED
    BY <1>4, <2>1, ConcatIs
<1> HIDE DEF temp
<1>a. /\ Len(temp) \in Nat /\ Len(z.temp) <= Len(temp) /\ Len(temp) - Len(z.temp) <= Avail(b)
      /\ Len(temp) <= z.compressed /\ Len(temp) <= 2 * LZMA_IN_REQUIRED
  <2>1. PICK l \in Nat, c \in Nat, t \in Nat : l = Len(z.temp) /\ c = z.compressed /\ t = tmp
    BY <1>4, <1>12
  <2>2. l + t <= c /\ l + t <= 2 * LZMA_IN_REQUIRED
    BY <1>12, <2>1 DEF LZMA_IN_REQUIRED
  <2>3. l + t \in Nat /\ l <= l + t /\ (l + t) - l = t
    OBVIOUS
  <2>4. QED
    BY <1>12, <1>13, <2>1, <2>2, <2>3
<1>14. CASE ~(z.temp = <<>> /\ z.compressed > 0) /\ Len(temp) # z.compressed /\ Len(temp) < LZMA_IN_REQUIRED
  <2> DEFINE y == [x EXCEPT !.temp = temp]
             to == Taken(b, tmp)
  <2>1. Lzma2LzmaReturns(y, to)
    BY <1>5, <1>14
  <2>2. BufferOK(to) /\ OutGrows(b, to) /\ to.in_size = b.in_size /\ to.room = b.room
    BY <1>2, <1>12, TakenOK
  <2>3. /\ Typed(y) /\ y.dict = x.dict /\ y.lzma = x.lzma /\ y.ret = x.ret /\ y.sequence = x.sequence
        /\ y.need_dict_reset = x.need_dict_reset /\ y.uncompressed = x.uncompressed
        /\ y.compressed = x.compressed /\ y.rc = x.rc /\ y.temp = temp
    BY <1>8, <1>13, WithTemp
  <2> HIDE DEF y, to
  <2>4. Round(y, to.room, raw)
    BY <1>9, <2>2, <2>3, SameRound
  <2>5. Len(y.temp) <= y.compressed /\ Len(y.temp) < LZMA_IN_REQUIRED
    BY <1>a, <1>8, <1>14, <2>3
  <2>6. QED
    BY <1>2, <1>8, <2>1, <2>2, <2>3, <2>4, <2>5, FlushNext
<1>15. CASE ~(z.temp = <<>> /\ z.compressed > 0) /\ ~(Len(temp) # z.compressed /\ Len(temp) < LZMA_IN_REQUIRED)
  <2>1. LzmaMain(main, b)
    BY <1>5, <1>15
  <2>2. limit \in Nat /\ limit <= Len(temp) /\ Len(temp) <= z.compressed
        /\ Len(temp) <= 2 * LZMA_IN_REQUIRED
    BY <1>a, <1>15 DEF LZMA_IN_REQUIRED
  <2> DEFINE rc == [x.rc EXCEPT !.src = "temp", !.in = temp, !.in_pos = 0, !.in_limit = limit]
  <2> HIDE DEF limit
  <2>3. rc \in RcType /\ rc.src = "temp" /\ rc.in_pos = 0 /\ rc.in_limit = limit /\ rc.in = temp
    <3>1. PICK q \in RcType : q = x.rc
      BY <1>4, <1>8
    <3>2. rc = [q EXCEPT !.src = "temp", !.in = temp, !.in_pos = 0, !.in_limit = limit]
      BY <3>1
    <3> HIDE DEF rc
    <3>3. QED
      BY <1>13, <2>2, <3>2 DEF RcType
  <2>4. main = [x EXCEPT !.rc = rc]
    BY <1>8 DEF Typed, DecoderType
  <2> HIDE DEF rc, main
  <2>5. /\ Typed(main) /\ main.dict = x.dict /\ main.lzma = x.lzma /\ main.ret = x.ret
        /\ main.sequence = x.sequence /\ main.need_dict_reset = x.need_dict_reset
        /\ main.uncompressed = x.uncompressed /\ main.compressed = x.compressed
        /\ main.rc = rc /\ main.temp = x.temp
    BY <1>8, <2>3, <2>4 DEF Typed, DecoderType
  <2>6. Round(main, b.room, raw)
    BY <1>9, <2>5, SameRound
  <2>7. RcInv("main", main, b)
    <3>1. /\ main.temp = z.temp /\ main.rc.src = "temp" /\ main.rc.in_pos = 0 /\ main.rc.in_limit = limit
          /\ main.rc.in = temp /\ main.compressed = z.compressed
      BY <1>8, <2>3, <2>5
    <3>2. Len(z.temp) <= Len(temp) /\ Len(temp) - Len(z.temp) <= Avail(b)
      BY <1>a
    <3>3. QED
      BY <2>2, <3>1, <3>2 DEF RcInv, LZMA_IN_REQUIRED
  <2>8. Len(main.temp) <= main.compressed /\ Len(main.temp) < LZMA_IN_REQUIRED
    BY <1>2, <1>8, <2>5
  <2>9. QED
    BY <1>2, <1>10, <2>1, <2>6, <2>7, <2>8, MainNext
<1>16. QED
  BY <1>11, <1>14, <1>15

-----------------------------------------------------------------------------
(* lzma_main(): the range decoder, matches that are pending.               *)

\* What the range decoder reads are bytes.
LEMMA RcReadIs ==
  ASSUME z.rc \in RcType, input \in Seq(Nat), NEW n \in Nat
  PROVE  /\ RcRead(n) \in RcType
         /\ RcRead(n).in_pos = z.rc.in_pos + n
         /\ RcRead(n).src = z.rc.src /\ RcRead(n).in = z.rc.in /\ RcRead(n).in_limit = z.rc.in_limit
<1>1. PICK rc \in RcType : rc = z.rc
  OBVIOUS
<1>2. rc.in_pos \in Nat /\ rc.in \in Seq(Nat) /\ rc.code \in Seq(Nat)
  BY DEF RcType
<1>3. ASSUME NEW p \in Nat \ {0} PROVE RcByte(p) \in Nat
  <2>1. p <= Len(rc.in) => rc.in[p] \in Nat
    BY <1>2, ElementOfSeq
  <2>2. p <= Len(input) => input[p] \in Nat
    BY ElementOfSeq
  <2>3. QED
    BY <1>1, <2>1, <2>2 DEF RcByte
<1> DEFINE bytes == [i \in 1..n |-> RcByte(z.rc.in_pos + i)]
<1>4. bytes \in Seq(Nat)
  <2>1. \A i \in 1..n : z.rc.in_pos + i \in Nat \ {0}
    BY <1>1, <1>2
  <2>2. \A i \in 1..n : RcByte(z.rc.in_pos + i) \in Nat
    BY <1>3, <2>1
  <2>3. QED
    BY <2>2
<1> HIDE DEF bytes
<1>5. PICK code \in Seq(Nat) : code = rc.code \o bytes
  BY <1>2, <1>4, ConcatIs
<1>6. PICK p \in Nat : p = rc.in_pos + n
  BY <1>2
<1> DEFINE read == [rc EXCEPT !.code = code, !.in_pos = p]
<1>7. RcRead(n) = read
  BY <1>1, <1>5, <1>6 DEF RcRead, bytes
<1>8. read \in RcType /\ read.in_pos = p /\ read.src = rc.src /\ read.in = rc.in /\ read.in_limit = rc.in_limit
  BY DEF RcType
<1> HIDE DEF read
<1>9. QED
  BY <1>1, <1>6, <1>7, <1>8

\* What lzma_main() and its caller know when they begin.
LEMMA InMain ==
  ASSUME Before, pc = "main"
  PROVE  /\ Round(z, b.room, raw) /\ BufferOK(b) /\ input \in Seq(Nat) /\ raw \in Seq(Nat)
         /\ Len(z.temp) <= z.compressed /\ Len(z.temp) < LZMA_IN_REQUIRED
         /\ RcInv("main", z, b)
         /\ Typed(z) /\ z.rc \in RcType
<1>1. Decoding("main")
  BY DEF Decoding
<1>2. Round(z, b.room, raw) /\ BufferOK(b) /\ input \in Seq(Nat) /\ raw \in Seq(Nat)
      /\ Len(z.temp) <= z.compressed /\ Len(z.temp) < LZMA_IN_REQUIRED
      /\ RcInv("main", z, b)
  BY <1>1, Inside DEF Before, StreamInv
<1>3. Typed(z)
  BY <1>2 DEF Round
<1>4. QED
  BY <1>2, <1>3, Fields

\* To fail is always safe.
LEMMA FailSound ==
  ASSUME NEW x, NEW buf, Typed(x), ~x.need_dict_reset, Holds(x.dict, raw),
         x.dict.start <= x.dict.pos, Len(x.temp) <= x.compressed, Len(x.temp) < LZMA_IN_REQUIRED,
         x.rc.in_pos <= (IF x.rc.src = "temp" THEN 3 * LZMA_IN_REQUIRED ELSE buf.in_size),
         BufferOK(buf), raw \in Seq(Nat), OutGrows(b, buf),
         Lzma2Returns(x, buf, "XZ_DATA_ERROR")
  PROVE  After
<1> DEFINE y == [x EXCEPT !.ret = "XZ_DATA_ERROR"]
<1>1. Goto("returned", y, buf) /\ raw' = raw
  BY DEF Lzma2Returns
<1>2. /\ y.dict = x.dict /\ y.lzma = x.lzma /\ y.rc = x.rc /\ y.temp = x.temp
      /\ y.compressed = x.compressed
      /\ y.need_dict_reset = x.need_dict_reset /\ y.ret = "XZ_DATA_ERROR"
      /\ Typed(y)
  BY DEF Typed, DecoderType
<1> HIDE DEF y
<1>3. DictInv("returned", y, raw)
  BY <1>2 DEF DictInv, Decoding, Alive
<1>4. RoundInv("returned", y, buf) /\ RcInv("returned", y, buf)
  BY <1>2 DEF RoundInv, Decoding, RcInv
<1>5. ChunkInv(y)
  BY <1>2 DEF ChunkInv, Alive
<1>6. Sound("returned", y, buf, raw)
  BY <1>2, <1>3, <1>4, <1>5 DEF Sound
<1>7. QED
  BY <1>1, <1>6, GotoSound DEF InLzma2

\* As much of a match as there is space for.
LEMMA DictRepeatSound ==
  ASSUME NEW x, Round(x, b.room, raw), x.lzma.len > 0, has_space(x.dict),
         Len(x.temp) <= x.compressed, Len(x.temp) < LZMA_IN_REQUIRED,
         RcInv("main", x, b), BufferOK(b), raw \in Seq(Nat),
         DictRepeat(x, b)
  PROVE  After
<1> DEFINE left == Min({x.dict.limit - x.dict.pos, x.lzma.len})
           dist == x.lzma.reps[1]
           bytes == RepeatedBytes(x.dict, left, dist)
           d == Written(x.dict, bytes)
           y == [x EXCEPT !.dict = d, !.lzma.len = @ - left]
<1>1. Goto("main", y, b) /\ raw' = raw \o CopyOf(raw, dist, left)
  BY DEF DictRepeat
<1>2. /\ Typed(x) /\ Holds(x.dict, raw) /\ InDictionary(x.dict, dist)
      /\ x.dict.pos < x.dict.limit /\ x.dict.limit <= x.dict.end /\ x.dict.start <= x.dict.pos
  BY DEF Round, has_space
<1>3. PICK size \in Nat \ {0} : size = x.dict.end /\ x.dict \in DictType(size)
  BY <1>2, Fields
<1>4. x.lzma \in LzmaType /\ x.lzma.len \in Nat /\ dist \in Nat /\ x.dict.pos \in Nat /\ x.dict.limit \in Nat
      /\ x.dict.full \in Nat
  BY <1>2, <1>3, Fields DEF LzmaType, DictType
<1>5. left \in Nat /\ left <= x.dict.limit - x.dict.pos /\ left <= x.lzma.len
  <2>1. PICK i \in Nat, j \in Nat : i = x.dict.limit - x.dict.pos /\ j = x.lzma.len
    BY <1>2, <1>4
  <2>2. Min({i, j}) = IF i <= j THEN i ELSE j
    BY MinOfTwo
  <2>3. left = Min({i, j})
    BY <2>1
  <2> HIDE DEF left
  <2>4. QED
    BY <2>1, <2>2, <2>3
<1> HIDE DEF left, dist
<1>6. dist < x.dict.full
  BY <1>2 DEF InDictionary
<1>7. bytes \in Seq(Nat) /\ Len(bytes) = left /\ bytes = CopyOf(raw, dist, left)
  BY <1>2, <1>3, <1>4, <1>5, <1>6, RepeatedIs
<1> HIDE DEF bytes
<1>8. x.dict.pos + left <= x.dict.limit /\ x.dict.pos + left <= size
  BY <1>2, <1>3, <1>4, <1>5, SMTT(30)
<1>9. PICK history \in Seq(Nat) : history = raw \o bytes
  BY <1>7, ConcatIs
<1>10. /\ d \in DictType(size) /\ d.start = x.dict.start /\ d.limit = x.dict.limit
       /\ d.pos = x.dict.pos + left
       /\ d.full = IF x.dict.full < x.dict.pos + left THEN x.dict.pos + left ELSE x.dict.full
       /\ Holds(d, history)
  <2>1. x.dict.pos + Len(bytes) <= size
    BY <1>7, <1>8
  <2>2. /\ d \in DictType(size) /\ d.start = x.dict.start /\ d.limit = x.dict.limit
        /\ d.pos = x.dict.pos + Len(bytes)
        /\ d.full = IF x.dict.full < x.dict.pos + Len(bytes) THEN x.dict.pos + Len(bytes) ELSE x.dict.full
    BY <1>3, <1>7, <2>1, WrittenIs
  <2>3. Holds(d, raw \o bytes)
    BY <1>2, <1>3, <1>7, <2>1, WrittenHolds
  <2> HIDE DEF d
  <2>4. QED
    BY <1>7, <1>9, <2>2, <2>3
<1> HIDE DEF d
<1>11. d.end = size
  BY <1>10 DEF DictType
<1>12. PICK l \in LzmaType : /\ l = [x.lzma EXCEPT !.len = @ - left]
                             /\ l.reps = x.lzma.reps
  <2>1. PICK q \in LzmaType : q = x.lzma
    BY <1>4
  <2>2. PICK m \in Nat : m = x.lzma.len - left
    BY <1>4, <1>5
  <2> DEFINE l == [q EXCEPT !.len = m]
  <2>3. l \in LzmaType /\ l.reps = q.reps
    BY DEF LzmaType
  <2>4. l = [x.lzma EXCEPT !.len = @ - left]
    BY <2>1, <2>2
  <2> HIDE DEF l
  <2>5. QED
    BY <2>1, <2>3, <2>4
<1>13. y = [x EXCEPT !.dict = d, !.lzma = l]
  BY <1>2, <1>12 DEF Typed, DecoderType
<1> HIDE DEF y
<1>14. /\ Typed(y)
       /\ y.dict = d /\ y.lzma = l /\ y.rc = x.rc /\ y.temp = x.temp /\ y.ret = x.ret
       /\ y.sequence = x.sequence
       /\ y.uncompressed = x.uncompressed /\ y.compressed = x.compressed
       /\ y.need_dict_reset = x.need_dict_reset
  BY <1>2, <1>3, <1>10, <1>11, <1>13 DEF Typed, DecoderType
<1>15. Round(y, b.room, history)
  <2>1. InDictionary(y.dict, y.lzma.reps[1])
    <3>1. y.lzma.reps[1] = dist /\ y.dict = d
      BY <1>12, <1>14 DEF dist
    <3>2. dist < size /\ x.dict.full <= d.full
      BY <1>2, <1>3, <1>4, <1>5, <1>10, SMTT(30) DEF InDictionary
    <3>3. d.full \in Nat
      BY <1>10 DEF DictType
    <3>4. dist < d.full
      BY <1>4, <1>6, <3>2, <3>3
    <3>5. QED
      BY <1>11, <3>1, <3>2, <3>4 DEF InDictionary
  <2>2. /\ y.dict.start <= y.dict.pos /\ y.dict.pos <= y.dict.limit /\ y.dict.limit <= y.dict.end
        /\ y.dict.limit - y.dict.start = x.dict.limit - x.dict.start
    <3>1. x.dict.start \in Nat /\ x.dict.start <= x.dict.pos + left
      BY <1>2, <1>3, <1>4, <1>5, SMTT(30) DEF DictType
    <3>2. QED
      BY <1>2, <1>3, <1>8, <1>10, <1>11, <1>14, <3>1
  <2>3. QED
    BY <1>10, <1>14, <2>1, <2>2 DEF Round, Alive
<1>16. RcInv("main", y, b)
  BY <1>14 DEF RcInv
<1>17. Sound("main", y, b, history) /\ Alive(y)
  BY <1>14, <1>15, <1>16, SoundInside DEF Decoding
<1>18. raw' = history /\ OutGrows(b, b)
  BY <1>1, <1>7, <1>9, OutStays
<1>19. QED
  BY <1>1, <1>17, <1>18, GotoSound DEF InLzma2

\* The match that was pending goes on in lzma_main().
LEMMA MainRepeatSound ==
  ASSUME Before, MainRepeat
  PROVE  After
BY InMain, DictRepeatSound DEF MainRepeat

-----------------------------------------------------------------------------
(* lzma_main(): symbols.                                                   *)

\* The fields of a symbol.
LEMMA SymbolFields ==
  ASSUME NEW symbol \in SymbolType
  PROVE  /\ symbol.kind \in {"literal", "match", "rep"}
         /\ symbol.byte \in Nat /\ symbol.dist \in Nat /\ symbol.len \in Nat \ {0}
         /\ symbol.inner \in Nat /\ symbol.inner <= 1 /\ symbol.due \in {0, 1}
         /\ symbol.kind = "rep" => symbol.dist < 4
<1>1. /\ symbol.kind \in {"literal", "match", "rep"}
      /\ symbol.byte \in Nat /\ symbol.dist \in Nat /\ symbol.len \in Nat \ {0}
      /\ symbol.inner \in 0..(3 - 2) /\ symbol.due \in 0..1
      /\ symbol.kind = "rep" => symbol.dist < 4
  BY Zenon DEF SymbolType, LZMA_IN_REQUIRED, REPS
<1>2. QED
  BY <1>1

\* Whatever comes out is a symbol.
LEMMA DecodableIs ==
  ASSUME StreamInv, z.rc \in RcType, NEW symbol \in Decodable
  PROVE  symbol \in SymbolType
<1> DEFINE n == Chunk(z.rc.code)
           k == z.rc.decoded + 1
           steps == Plans[n].steps
<1>1. symbol \in Garbage \/ /\ n \in DOMAIN Plans /\ k <= Len(steps)
                            /\ symbol = steps[k].symbol
  BY Zenon DEF Decodable, OnTrack
<1>2. CASE symbol \in Garbage
  BY <1>2, GarbageAssumption
<1>3. CASE n \in DOMAIN Plans /\ k <= Len(steps) /\ symbol = steps[k].symbol
  <2>1. k \in Nat \ {0}
    BY DEF RcType
  <2> HIDE DEF n, k
  <2>2. k \in 1..Len(steps)
    BY <1>3, <2>1
  <2>3. QED
    BY <1>3, <2>2 DEF StreamInv, Plans
<1>4. QED
  BY <1>1, <1>2, <1>3, SMTT(30)

\* The distances of a match, and what the model has learned.
LEMMA MatchIs ==
  ASSUME NEW lzma \in LzmaType, NEW n \in Nat
  PROVE  /\ lzma_match(lzma.reps, n) \in Nat \X Nat \X Nat \X Nat
         /\ n < 4 => lzma_rep_match(lzma.reps, n) \in Nat \X Nat \X Nat \X Nat
<1>1. lzma.reps \in Nat \X Nat \X Nat \X Nat
  BY DEF LzmaType
<1>2. lzma.reps[1] \in Nat /\ lzma.reps[2] \in Nat /\ lzma.reps[3] \in Nat /\ lzma.reps[4] \in Nat
  BY <1>1
<1>3. lzma_match(lzma.reps, n) \in Nat \X Nat \X Nat \X Nat
  BY <1>2 DEF lzma_match
<1>4. ASSUME n < 4 PROVE lzma_rep_match(lzma.reps, n) \in Nat \X Nat \X Nat \X Nat
  <2>1. n = 0 \/ n = 1 \/ n = 2 \/ n = 3
    BY <1>4
  <2>2. CASE n = 0
    BY <1>1, <2>2 DEF lzma_rep_match
  <2>3. CASE n = 1
    BY <1>2, <2>3 DEF lzma_rep_match
  <2>4. CASE n = 2
    BY <1>2, <2>4 DEF lzma_rep_match
  <2>5. CASE n = 3
    BY <1>2, <2>5 DEF lzma_rep_match
  <2>6. QED
    BY <2>1, <2>2, <2>3, <2>4, <2>5
<1>5. QED
  BY <1>3, <1>4

\* What RcInv says in lzma_main(), by the buffer.
LEMMA RcInvIs ==
  ASSUME NEW x, NEW buf
  PROVE  RcInv("main", x, buf) <=>
           /\ x.rc.in_pos <= (IF x.rc.src = "temp" THEN 3 * LZMA_IN_REQUIRED ELSE buf.in_size)
           /\ x.rc.in_pos <= x.rc.in_limit + LZMA_IN_REQUIRED - 1
           /\ x.rc.src = "in" =>
                /\ x.temp = <<>> /\ buf.in_pos <= x.rc.in_pos
                /\ x.rc.in_limit + LZMA_IN_REQUIRED <= buf.in_size
           /\ x.rc.src = "temp" =>
                /\ x.rc.in_limit <= Len(x.rc.in) /\ Len(x.rc.in) <= 2 * LZMA_IN_REQUIRED
                /\ Len(x.rc.in) <= x.compressed
                /\ Len(x.temp) <= Len(x.rc.in) /\ Len(x.rc.in) - Len(x.temp) <= Avail(buf)
BY DEF RcInv

\* The decoder that has read a symbol and learned from it, before anything is written.
ReadSymbol(symbol, reps) ==
  [z EXCEPT !.rc = [RcRead(z.rc.due + symbol.inner) EXCEPT !.due = symbol.due, !.decoded = @ + 1],
            !.lzma = [z.lzma EXCEPT !.reps = reps, !.literal = symbol.kind = "literal", !.learned = @ + 1,
                                    !.len = IF symbol.kind = "literal" THEN 0 ELSE symbol.len]]

\* The decoder after a symbol: where it reads, and what it knows, has changed.
LEMMA AfterSymbol ==
  ASSUME Before, pc = "main", z.lzma.len = 0, ~exceeded,
         NEW symbol \in SymbolType,
         NEW reps \in Nat \X Nat \X Nat \X Nat
  PROVE  LET x == ReadSymbol(symbol, reps)
         IN  /\ Typed(x) /\ x.dict = z.dict /\ x.temp = z.temp /\ x.ret = z.ret
             /\ x.sequence = z.sequence
             /\ x.uncompressed = z.uncompressed /\ x.compressed = z.compressed
             /\ x.need_dict_reset = z.need_dict_reset
             /\ x.lzma.reps = reps
             /\ x.lzma.len = IF symbol.kind = "literal" THEN 0 ELSE symbol.len
             /\ RcInv("main", x, b)
<1> DEFINE literal == symbol.kind = "literal"
           len == IF literal THEN 0 ELSE symbol.len
           rc == [RcRead(z.rc.due + symbol.inner) EXCEPT !.due = symbol.due, !.decoded = @ + 1]
           lzma == [z.lzma EXCEPT !.reps = reps, !.literal = literal, !.learned = @ + 1, !.len = len]
           x == [z EXCEPT !.rc = rc, !.lzma = lzma]
<1>l. literal \in BOOLEAN /\ len \in Nat
  BY SymbolFields
<1> HIDE DEF literal, len
<1>1. /\ BufferOK(b) /\ input \in Seq(Nat) /\ RcInv("main", z, b) /\ Typed(z) /\ z.rc \in RcType
      /\ z.lzma \in LzmaType
  BY InMain, Fields
<1>2. PICK n \in Nat : n = z.rc.due + symbol.inner /\ n <= 2
  <2>1. PICK d \in Nat : d = z.rc.due /\ d <= 1
    BY <1>1, SMTT(30) DEF RcType
  <2>2. PICK i \in Nat : i = symbol.inner /\ i <= 1
    BY SymbolFields
  <2>3. QED
    BY <2>1, <2>2
<1>3. PICK read \in RcType :
        /\ read = RcRead(n) /\ read.in_pos = z.rc.in_pos + n
        /\ read.src = z.rc.src /\ read.in = z.rc.in /\ read.in_limit = z.rc.in_limit
  BY <1>1, RcReadIs
<1>4. PICK due \in {0, 1} : due = symbol.due
  BY SymbolFields
<1>a. PICK decoded \in Nat : decoded = read.decoded + 1
  BY DEF RcType
<1>5. rc = [read EXCEPT !.due = due, !.decoded = decoded]
  BY <1>a, <1>2, <1>3, <1>4
<1> HIDE DEF rc
<1>6. rc \in RcType /\ rc.in_pos = read.in_pos /\ rc.src = read.src /\ rc.in = read.in /\ rc.in_limit = read.in_limit
  BY <1>5 DEF RcType
<1>7. PICK q \in LzmaType : q = z.lzma
  BY <1>1
<1>b. PICK learned \in Nat : learned = q.learned + 1
  BY DEF LzmaType
<1>8. lzma = [q EXCEPT !.reps = reps, !.literal = literal, !.learned = learned, !.len = len]
  BY <1>b, <1>7
<1> HIDE DEF lzma
<1>9. lzma \in LzmaType /\ lzma.reps = reps /\ lzma.len = len
  BY <1>l, <1>8 DEF LzmaType
<1>10. /\ Typed(x) /\ x.dict = z.dict /\ x.temp = z.temp /\ x.ret = z.ret /\ x.sequence = z.sequence
       /\ x.uncompressed = z.uncompressed /\ x.compressed = z.compressed
       /\ x.need_dict_reset = z.need_dict_reset
       /\ x.lzma = lzma /\ x.rc = rc
  BY <1>1, <1>6, <1>9 DEF Typed, DecoderType
<1> HIDE DEF x
<1>11. RcInv("main", x, b)
  <2>1. PICK p \in Nat, limit \in Nat : p = z.rc.in_pos /\ limit = z.rc.in_limit
    BY <1>1 DEF RcType
  <2>2. p <= limit
    BY <2>1 DEF exceeded
  <2>3. rc.in_pos = p + n /\ rc.in_limit = limit /\ rc.src = z.rc.src /\ rc.in = z.rc.in
    BY <1>3, <1>6, <2>1
  <2>4. /\ z.rc.src = "in" =>
             /\ z.temp = <<>> /\ b.in_pos <= z.rc.in_pos
             /\ z.rc.in_limit + LZMA_IN_REQUIRED <= b.in_size
        /\ z.rc.src = "temp" =>
             /\ z.rc.in_limit <= Len(z.rc.in) /\ Len(z.rc.in) <= 2 * LZMA_IN_REQUIRED
             /\ Len(z.rc.in) <= z.compressed
             /\ Len(z.temp) <= Len(z.rc.in) /\ Len(z.rc.in) - Len(z.temp) <= Avail(b)
    BY <1>1, RcInvIs
  <2>5. z.rc.src \in {"in", "temp"} /\ z.rc.in \in Seq(Nat) /\ Len(z.rc.in) \in Nat
        /\ b.in_size \in Nat /\ b.in_pos \in Nat
    <3>1. BufferOK(b) /\ z.rc \in RcType
      BY <1>1
    <3>2. z.rc.src \in {"in", "temp"} /\ z.rc.in \in Seq(Nat)
      BY <3>1 DEF RcType
    <3>3. QED
      BY <3>1, <3>2, BufFields
  <2>6. CASE z.rc.src = "in"
    <3>1. b.in_pos <= p /\ limit + 3 <= b.in_size
      BY <2>1, <2>4, <2>6 DEF LZMA_IN_REQUIRED
    <3>2. p + n <= b.in_size /\ p + n <= limit + 3 - 1 /\ b.in_pos <= p + n
      <4>1. PICK i \in Nat, j \in Nat : i = b.in_pos /\ j = b.in_size
        BY <2>5
      <4>2. i <= p /\ limit + 3 <= j /\ n <= 2 /\ p <= limit
        BY <1>2, <2>2, <3>1, <4>1
      <4>3. p + n <= j /\ p + n <= limit + 3 - 1 /\ i <= p + n
        BY <4>2
      <4>4. QED
        BY <4>1, <4>3
    <3>3. /\ x.rc.in_pos <= b.in_size /\ x.rc.in_pos <= x.rc.in_limit + LZMA_IN_REQUIRED - 1
          /\ b.in_pos <= x.rc.in_pos
      BY <1>10, <2>3, <3>2 DEF LZMA_IN_REQUIRED
    <3>4. x.temp = <<>> /\ x.rc.in_limit + LZMA_IN_REQUIRED <= b.in_size /\ x.rc.src = "in"
      BY <1>10, <2>1, <2>3, <2>4, <2>6
    <3>5. QED
      BY <3>3, <3>4, RcInvIs
  <2>7. CASE z.rc.src = "temp"
    <3>1. PICK l \in Nat : l = Len(z.rc.in)
      BY <2>5
    <3>2. limit <= l /\ l <= 6
      BY <2>1, <2>4, <2>7, <3>1 DEF LZMA_IN_REQUIRED
    <3>3. p + n <= 9 /\ p + n <= limit + 3 - 1
      BY <1>2, <2>2, <3>2
    <3>4. x.rc.in_pos <= 3 * LZMA_IN_REQUIRED /\ x.rc.in_pos <= x.rc.in_limit + LZMA_IN_REQUIRED - 1
      BY <1>10, <2>3, <3>3 DEF LZMA_IN_REQUIRED
    <3>5. x.rc.in = z.rc.in /\ x.temp = z.temp /\ x.compressed = z.compressed
          /\ x.rc.in_limit = z.rc.in_limit /\ x.rc.src = "temp"
      BY <1>10, <2>1, <2>3, <2>7
    <3>6. QED
      BY <2>4, <2>7, <3>4, <3>5, RcInvIs
  <2>8. QED
    BY <2>5, <2>6, <2>7
<1>12. QED
  BY <1>9, <1>10, <1>11 DEF x, lzma, rc, len, literal, ReadSymbol

\* dict_put() in the decoder.
PutByte(x, byte) == [x EXCEPT !.dict = dict_put(@, byte)]

\* A byte is decoded.
LEMMA LiteralSound ==
  ASSUME Before, pc = "main", has_space(z.dict),
         NEW x, Typed(x), x.dict = z.dict, x.temp = z.temp, x.ret = z.ret, x.sequence = z.sequence,
         x.uncompressed = z.uncompressed, x.compressed = z.compressed,
         x.need_dict_reset = z.need_dict_reset, x.lzma.len = 0, RcInv("main", x, b),
         NEW byte \in Nat,
         Goto("main", PutByte(x, byte), b), raw' = Append(raw, byte)
  PROVE  After
<1>1. /\ Round(z, b.room, raw) /\ BufferOK(b) /\ raw \in Seq(Nat)
      /\ Len(z.temp) <= z.compressed /\ Len(z.temp) < LZMA_IN_REQUIRED
  BY InMain
<1>2. PICK size \in Nat \ {0} : size = x.dict.end /\ x.dict \in DictType(size)
  BY Fields
<1>3. PICK pos \in Nat, limit \in Nat, first \in Nat :
        pos = x.dict.pos /\ limit = x.dict.limit /\ first = x.dict.start
  BY <1>2 DEF DictType
<1>4. pos < limit /\ limit <= size /\ first <= pos
  BY <1>1, <1>2, <1>3 DEF has_space, Round
<1> DEFINE d == dict_put(x.dict, byte)
           y == PutByte(x, byte)
<1>5. PICK history \in Seq(Nat) : history = raw \o <<byte>> /\ history = Append(raw, byte)
  <2>1. Append(raw, byte) \in Seq(Nat) /\ raw \o <<byte>> = Append(raw, byte)
    BY <1>1
  <2>2. QED
    BY <2>1
<1>6. /\ d \in DictType(size) /\ d.start = first /\ d.limit = limit /\ d.pos = pos + 1
      /\ Holds(d, history)
  <2>1. <<byte>> \in Seq(Nat) /\ Len(<<byte>>) = 1
    OBVIOUS
  <2>2. PICK bytes \in Seq(Nat) : bytes = <<byte>> /\ Len(bytes) = 1
    BY <2>1
  <2>3. x.dict.pos + Len(bytes) <= size
    BY <1>3, <1>4, <2>2
  <2>4. d = Written(x.dict, bytes)
    BY <2>2 DEF dict_put
  <2>5. Holds(x.dict, raw)
    BY <1>1 DEF Round
  <2> HIDE DEF d
  <2>6. Holds(d, raw \o bytes)
    BY <1>1, <1>2, <2>3, <2>4, <2>5, WrittenHolds
  <2>7. d \in DictType(size) /\ d.start = x.dict.start /\ d.limit = x.dict.limit
        /\ d.pos = x.dict.pos + Len(bytes)
    BY <1>2, <2>3, <2>4, WrittenIs
  <2>8. QED
    BY <1>3, <1>5, <2>2, <2>6, <2>7
<1> HIDE DEF d
<1>7. /\ Typed(y)
      /\ y.dict = d /\ y.lzma = x.lzma /\ y.rc = x.rc /\ y.temp = x.temp /\ y.ret = x.ret
      /\ y.sequence = x.sequence
      /\ y.uncompressed = x.uncompressed /\ y.compressed = x.compressed
      /\ y.need_dict_reset = x.need_dict_reset
  <2>1. PICK q \in DecoderType(size) : q = x
    BY <1>2 DEF Typed
  <2>2. y = [q EXCEPT !.dict = d]
    BY <2>1 DEF PutByte, d
  <2>3. d.end = size /\ q.dict.end = size
    BY <1>2, <1>6, <2>1 DEF DictType
  <2> HIDE DEF y
  <2>4. QED
    BY <1>2, <1>6, <2>1, <2>2, <2>3 DEF Typed, DecoderType
<1> HIDE DEF y
<1>8. Goto("main", y, b)
  BY DEF y
<1>9. d.end = size
  BY <1>6 DEF DictType
<1>10. Round(y, b.room, history)
  <2>1. /\ y.dict.start <= y.dict.pos /\ y.dict.pos <= y.dict.limit /\ y.dict.limit <= y.dict.end
        /\ y.dict.limit - y.dict.start = x.dict.limit - x.dict.start
    <3>1. first <= pos + 1 /\ pos + 1 <= limit
      BY <1>4
    <3>2. QED
      BY <1>3, <1>4, <1>6, <1>7, <1>9, <3>1
  <2>2. x.dict.limit - x.dict.start <= b.room /\ x.dict.limit - x.dict.start <= x.uncompressed
    BY <1>1 DEF Round
  <2>3. y.lzma.len = 0
    BY <1>7
  <2>4. QED
    BY <1>1, <1>6, <1>7, <2>1, <2>2, <2>3 DEF Round, Alive
<1>11. RcInv("main", y, b)
  BY <1>7, RcInvIs
<1>12. Sound("main", y, b, history) /\ Alive(y)
  BY <1>1, <1>7, <1>10, <1>11, SoundInside DEF Decoding
<1>13. raw' = history /\ OutGrows(b, b)
  BY <1>1, <1>5, OutStays
<1>14. QED
  BY <1>1, <1>8, <1>12, <1>13, GotoSound DEF InLzma2

\* A match, if it does not reach back too far.
LEMMA MatchSound ==
  ASSUME Before, pc = "main", has_space(z.dict),
         NEW x, Typed(x), x.dict = z.dict, x.temp = z.temp, x.ret = z.ret, x.sequence = z.sequence,
         x.uncompressed = z.uncompressed, x.compressed = z.compressed,
         x.need_dict_reset = z.need_dict_reset, x.lzma.len > 0, RcInv("main", x, b),
         IF InDictionary(z.dict, x.lzma.reps[1]) THEN DictRepeat(x, b)
         ELSE Lzma2Returns(x, b, "XZ_DATA_ERROR")
  PROVE  After
<1>1. /\ Round(z, b.room, raw) /\ BufferOK(b) /\ raw \in Seq(Nat)
      /\ Len(z.temp) <= z.compressed /\ Len(z.temp) < LZMA_IN_REQUIRED
  BY InMain
<1>2. OutGrows(b, b)
  BY <1>1, OutStays
<1>3. CASE InDictionary(z.dict, x.lzma.reps[1])
  <2>1. Round(x, b.room, raw)
    BY <1>1, <1>3 DEF Round, Alive
  <2>2. QED
    BY <1>1, <1>3, <2>1, DictRepeatSound
<1>4. CASE ~InDictionary(z.dict, x.lzma.reps[1])
  <2>1. Lzma2Returns(x, b, "XZ_DATA_ERROR")
    BY <1>4
  <2>2. x.rc.in_pos <= (IF x.rc.src = "temp" THEN 3 * LZMA_IN_REQUIRED ELSE b.in_size)
    BY RcInvIs
  <2>3. ~x.need_dict_reset /\ Holds(x.dict, raw) /\ x.dict.start <= x.dict.pos
    BY <1>1 DEF Round
  <2>4. QED
    BY <1>1, <1>2, <2>1, <2>2, <2>3, FailSound
<1>5. QED
  BY <1>3, <1>4

\* lzma_main() decodes a symbol.
LEMMA MainSymbolSound ==
  ASSUME Before, MainSymbol
  PROVE  After
<1>1. pc = "main" /\ has_space(z.dict) /\ z.lzma.len = 0 /\ ~exceeded
  BY DEF MainSymbol
<1>2. z.rc \in RcType /\ z.lzma \in LzmaType /\ Typed(z)
  BY <1>1, InMain, Fields
<1> DEFINE Reps(symbol) ==
             CASE symbol.kind = "literal" -> z.lzma.reps
               [] symbol.kind = "match" -> lzma_match(z.lzma.reps, symbol.dist)
               [] symbol.kind = "rep" -> lzma_rep_match(z.lzma.reps, symbol.dist)
<1>3. PICK symbol \in Decodable :
        LET x == ReadSymbol(symbol, Reps(symbol)) IN
        IF symbol.kind = "literal"
          THEN /\ Goto("main", PutByte(x, symbol.byte), b)
               /\ raw' = Append(raw, symbol.byte)
        ELSE IF InDictionary(z.dict, Reps(symbol)[1]) THEN DictRepeat(x, b)
        ELSE Lzma2Returns(x, b, "XZ_DATA_ERROR")
  BY Zenon DEF MainSymbol, ReadSymbol, PutByte
<1>4. symbol \in SymbolType
  BY <1>2, DecodableIs DEF Before
<1>5. /\ symbol.kind \in {"literal", "match", "rep"}
      /\ symbol.byte \in Nat /\ symbol.dist \in Nat /\ symbol.len \in Nat \ {0}
      /\ symbol.kind = "rep" => symbol.dist < 4
  BY <1>4, SymbolFields
<1>6. PICK reps \in Nat \X Nat \X Nat \X Nat : reps = Reps(symbol)
  <2>1. z.lzma.reps \in Nat \X Nat \X Nat \X Nat
    BY <1>2 DEF LzmaType
  <2>2. CASE symbol.kind = "literal"
    BY <2>1, <2>2
  <2>3. CASE symbol.kind = "match"
    BY <1>2, <1>5, <2>3, MatchIs
  <2>4. CASE symbol.kind = "rep"
    BY <1>2, <1>5, <2>4, MatchIs
  <2>5. QED
    BY <1>5, <2>2, <2>3, <2>4
<1> HIDE DEF Reps
<1>7. CASE symbol.kind = "literal"
  <2> DEFINE x == ReadSymbol(symbol, reps)
  <2>1. /\ Typed(x) /\ x.dict = z.dict /\ x.temp = z.temp /\ x.ret = z.ret /\ x.sequence = z.sequence
        /\ x.uncompressed = z.uncompressed /\ x.compressed = z.compressed
        /\ x.need_dict_reset = z.need_dict_reset
        /\ x.lzma.len = 0
        /\ RcInv("main", x, b)
    BY <1>1, <1>4, <1>7, AfterSymbol
  <2>4. x = ReadSymbol(symbol, Reps(symbol))
    BY <1>6
  <2>5. Goto("main", PutByte(x, symbol.byte), b) /\ raw' = Append(raw, symbol.byte)
    BY <1>3, <1>7, <2>4
  <2> HIDE DEF x
  <2>6. QED
    BY <1>1, <1>5, <2>1, <2>5, LiteralSound
<1>8. CASE symbol.kind # "literal"
  <2> DEFINE x == ReadSymbol(symbol, reps)
  <2>1. /\ Typed(x) /\ x.dict = z.dict /\ x.temp = z.temp /\ x.ret = z.ret /\ x.sequence = z.sequence
        /\ x.uncompressed = z.uncompressed /\ x.compressed = z.compressed
        /\ x.need_dict_reset = z.need_dict_reset
        /\ x.lzma.reps = reps /\ x.lzma.len = symbol.len
        /\ RcInv("main", x, b)
    BY <1>1, <1>4, <1>8, AfterSymbol
  <2>4. x = ReadSymbol(symbol, Reps(symbol))
    BY <1>6
  <2>5. IF InDictionary(z.dict, reps[1]) THEN DictRepeat(x, b)
        ELSE Lzma2Returns(x, b, "XZ_DATA_ERROR")
    BY <1>3, <1>6, <1>8, <2>4
  <2> HIDE DEF x
  <2>6. x.lzma.len > 0
    BY <1>5, <2>1
  <2>7. IF InDictionary(z.dict, x.lzma.reps[1]) THEN DictRepeat(x, b)
        ELSE Lzma2Returns(x, b, "XZ_DATA_ERROR")
    BY <2>1, <2>5
  <2>8. QED
    BY <1>1, <2>1, <2>6, <2>7, MatchSound
<1>9. QED
  BY <1>7, <1>8

-----------------------------------------------------------------------------
(* The end of lzma_main(), and dict_flush().                               *)

\* The range decoder normalizes once more before lzma_main() returns.
LEMMA LastRead ==
  ASSUME Before, pc = "main"
  PROVE  LET rc == [RcRead(z.rc.due) EXCEPT !.due = 0] IN
         /\ rc \in RcType /\ rc.src = z.rc.src /\ rc.in = z.rc.in
         /\ z.rc.in_pos <= rc.in_pos
         /\ rc.src = "in" => z.temp = <<>> /\ b.in_pos <= rc.in_pos /\ rc.in_pos <= b.in_size
         /\ rc.src = "temp" =>
              /\ rc.in_pos <= 3 * LZMA_IN_REQUIRED /\ Len(rc.in) <= z.compressed
              /\ Len(z.temp) <= Len(rc.in) /\ Len(rc.in) - Len(z.temp) <= Avail(b)
<1> DEFINE rc == [RcRead(z.rc.due) EXCEPT !.due = 0]
<1>1. /\ BufferOK(b) /\ input \in Seq(Nat) /\ RcInv("main", z, b) /\ z.rc \in RcType
  BY InMain
<1>2. PICK n \in Nat : n = z.rc.due /\ n <= 1
  BY <1>1 DEF RcType
<1>3. PICK read \in RcType :
        /\ read = RcRead(n) /\ read.in_pos = z.rc.in_pos + n
        /\ read.src = z.rc.src /\ read.in = z.rc.in
  BY <1>1, RcReadIs
<1>4. rc = [read EXCEPT !.due = 0]
  BY <1>2, <1>3
<1> HIDE DEF rc
<1>5. rc \in RcType /\ rc.in_pos = read.in_pos /\ rc.src = read.src /\ rc.in = read.in
  BY <1>4 DEF RcType
<1>6. /\ z.rc.in_pos <= z.rc.in_limit + LZMA_IN_REQUIRED - 1
      /\ z.rc.src = "in" =>
           /\ z.temp = <<>> /\ b.in_pos <= z.rc.in_pos
           /\ z.rc.in_limit + LZMA_IN_REQUIRED <= b.in_size
      /\ z.rc.src = "temp" =>
           /\ z.rc.in_limit <= Len(z.rc.in) /\ Len(z.rc.in) <= 2 * LZMA_IN_REQUIRED
           /\ Len(z.rc.in) <= z.compressed
           /\ Len(z.temp) <= Len(z.rc.in) /\ Len(z.rc.in) - Len(z.temp) <= Avail(b)
  BY <1>1, RcInvIs
<1>7. PICK p \in Nat, limit \in Nat, l \in Nat, i \in Nat, j \in Nat :
        p = z.rc.in_pos /\ limit = z.rc.in_limit /\ l = Len(z.rc.in) /\ i = b.in_pos /\ j = b.in_size
  <2>1. z.rc.in_pos \in Nat /\ z.rc.in_limit \in Nat /\ z.rc.in \in Seq(Nat)
    BY <1>1 DEF RcType
  <2>2. Len(z.rc.in) \in Nat
    BY <2>1
  <2>3. QED
    BY <1>1, <2>1, <2>2, BufFields
<1>8. p <= limit + 2 /\ rc.in_pos = p + n /\ p <= p + n
  BY <1>3, <1>5, <1>6, <1>7 DEF LZMA_IN_REQUIRED
<1>9. CASE rc.src = "in"
  <2>1. z.temp = <<>> /\ i <= p /\ limit + 3 <= j
    BY <1>3, <1>5, <1>6, <1>7, <1>9 DEF LZMA_IN_REQUIRED
  <2>2. i <= p + n /\ p + n <= j
    BY <1>2, <1>8, <2>1
  <2>3. QED
    BY <1>3, <1>5, <1>7, <1>8, <1>9, <2>1, <2>2 DEF rc
<1>10. CASE rc.src = "temp"
  <2>1. limit <= l /\ l <= 6
    BY <1>3, <1>5, <1>6, <1>7, <1>10 DEF LZMA_IN_REQUIRED
  <2>2. p + n <= 3 * 3
    BY <1>2, <1>8, <2>1
  <2>3. rc.in_pos <= 3 * LZMA_IN_REQUIRED
    BY <1>8, <2>2 DEF LZMA_IN_REQUIRED
  <2>4. QED
    BY <1>3, <1>5, <1>6, <1>7, <1>8, <1>10, <2>3 DEF rc
<1>11. rc.src \in {"in", "temp"}
  BY <1>5 DEF RcType
<1>12. QED
  BY <1>9, <1>10, <1>11 DEF rc

\* The end of lzma_main().
LEMMA MainReturnsSound ==
  ASSUME Before, MainReturns
  PROVE  After
<1>1. pc = "main"
  BY DEF MainReturns
<1> DEFINE rc == [RcRead(z.rc.due) EXCEPT !.due = 0]
           n == IF z.rc.src = "temp" THEN rc.in_pos ELSE rc.in_pos - b.in_pos
           y == [z EXCEPT !.rc = rc]
           x == [z EXCEPT !.rc = rc, !.compressed = @ - n]
           size == Len(z.temp)
<1>2. IF n > (IF z.rc.src = "temp" THEN Len(rc.in) ELSE z.compressed)
        THEN Lzma2Returns(y, b, "XZ_DATA_ERROR")
      ELSE IF z.rc.src = "in" THEN KeepRest(x, Taken(b, n))
      ELSE IF n < size THEN Lzma2LzmaReturns([x EXCEPT !.temp = SubSeq(z.temp, n + 1, size)], b)
      ELSE DecodeInput([x EXCEPT !.temp = <<>>], Taken(b, n - size))
  BY DEF MainReturns
<1>3. /\ Round(z, b.room, raw) /\ BufferOK(b) /\ input \in Seq(Nat) /\ raw \in Seq(Nat)
      /\ Len(z.temp) <= z.compressed /\ Len(z.temp) < LZMA_IN_REQUIRED
      /\ Typed(z) /\ z.compressed \in Nat /\ z.temp \in Seq(Nat) /\ Len(z.temp) \in Nat
  BY <1>1, InMain, Fields
<1>4. OutGrows(b, b)
  BY <1>3, OutStays
<1>5. /\ rc \in RcType /\ rc.src = z.rc.src /\ rc.in = z.rc.in
      /\ rc.src = "in" => z.temp = <<>> /\ b.in_pos <= rc.in_pos /\ rc.in_pos <= b.in_size
      /\ rc.src = "temp" =>
           /\ rc.in_pos <= 3 * LZMA_IN_REQUIRED /\ Len(rc.in) <= z.compressed
           /\ Len(z.temp) <= Len(rc.in) /\ Len(rc.in) - Len(z.temp) <= Avail(b)
  BY <1>1, LastRead
<1> HIDE DEF rc
<1>6. rc.in_pos \in Nat /\ rc.in \in Seq(Nat) /\ Len(rc.in) \in Nat /\ rc.src \in {"in", "temp"}
  BY <1>5 DEF RcType
<1>7. rc.in_pos <= (IF rc.src = "temp" THEN 3 * LZMA_IN_REQUIRED ELSE b.in_size)
  BY <1>5, <1>6
<1>8. /\ Typed(y) /\ y.dict = z.dict /\ y.lzma = z.lzma /\ y.ret = z.ret /\ y.sequence = z.sequence
      /\ y.need_dict_reset = z.need_dict_reset /\ y.uncompressed = z.uncompressed
      /\ y.compressed = z.compressed /\ y.rc = rc /\ y.temp = z.temp
  BY <1>3, <1>5 DEF Typed, DecoderType
<1>9. CASE n > (IF z.rc.src = "temp" THEN Len(rc.in) ELSE z.compressed)
  <2>1. Lzma2Returns(y, b, "XZ_DATA_ERROR")
    BY <1>2, <1>9
  <2> HIDE DEF y
  <2>2. ~y.need_dict_reset /\ Holds(y.dict, raw) /\ y.dict.start <= y.dict.pos
    BY <1>3, <1>8 DEF Round
  <2>3. QED
    BY <1>3, <1>4, <1>7, <1>8, <2>1, <2>2, FailSound
<1> DEFINE fits == n <= (IF z.rc.src = "temp" THEN Len(rc.in) ELSE z.compressed)
<1>10. ASSUME n \in Nat, fits, n <= z.compressed
       PROVE  /\ Round(x, b.room, raw) /\ Typed(x)
              /\ x.compressed = z.compressed - n /\ x.rc = rc /\ x.temp = z.temp
  <2>1. PICK c \in Nat : c = z.compressed - n
    BY <1>3, <1>10
  <2> HIDE DEF n
  <2>2. x = [z EXCEPT !.rc = rc, !.compressed = c]
    BY <1>3, <2>1 DEF Typed, DecoderType
  <2> HIDE DEF x
  <2>3. /\ Typed(x) /\ x.dict = z.dict /\ x.lzma = z.lzma /\ x.ret = z.ret /\ x.sequence = z.sequence
        /\ x.need_dict_reset = z.need_dict_reset /\ x.uncompressed = z.uncompressed
        /\ x.compressed = c /\ x.rc = rc /\ x.temp = z.temp
    BY <1>3, <1>5, <2>2 DEF Typed, DecoderType
  <2>4. Round(x, b.room, raw)
    BY <1>3, <2>3, SameRound
  <2>5. QED
    BY <2>1, <2>3, <2>4
<1>11. CASE fits /\ z.rc.src = "in"
  <2>1. n = rc.in_pos - b.in_pos /\ z.temp = <<>> /\ n \in Nat /\ n <= z.compressed /\ n <= Avail(b)
    <3>1. PICK i \in Nat, j \in Nat, p \in Nat : i = b.in_pos /\ j = b.in_size /\ p = rc.in_pos
      BY <1>3, <1>6, BufFields
    <3>2. z.temp = <<>> /\ i <= p /\ p <= j /\ n = p - i /\ Avail(b) = j - i
      BY <1>3, <1>5, <1>11, <3>1, BufFields
    <3>3. p - i \in Nat /\ p - i <= j - i
      BY <3>2
    <3>4. QED
      BY <1>11, <3>1, <3>2, <3>3
  <2>2. KeepRest(x, Taken(b, n))
    <3>1. ~(n > (IF z.rc.src = "temp" THEN Len(rc.in) ELSE z.compressed))
      BY <1>3, <1>11, <2>1
    <3>2. QED
      BY <1>2, <1>11, <3>1
  <2>3. /\ Round(x, b.room, raw) /\ x.compressed = z.compressed - n /\ x.rc = rc /\ x.temp = z.temp
    BY <1>10, <1>11, <2>1
  <2> HIDE DEF x, n
  <2>4. /\ BufferOK(Taken(b, n)) /\ OutGrows(b, Taken(b, n))
        /\ Taken(b, n).in_size = b.in_size /\ Taken(b, n).room = b.room
    BY <1>3, <2>1, TakenOK
  <2> DEFINE to == Taken(b, n)
  <2>5. KeepRest(x, to) /\ Round(x, to.room, raw) /\ BufferOK(to) /\ OutGrows(b, to)
        /\ x.rc.in_pos <= (IF x.rc.src = "temp" THEN 3 * LZMA_IN_REQUIRED ELSE to.in_size)
    BY <1>7, <2>2, <2>3, <2>4
  <2> HIDE DEF to
  <2>6. Len(x.temp) <= x.compressed /\ Len(x.temp) < LZMA_IN_REQUIRED
    <3>1. Len(x.temp) = 0 /\ z.compressed - n \in Nat
      BY <1>3, <2>1, <2>3
    <3>2. QED
      BY <2>3, <3>1 DEF LZMA_IN_REQUIRED
  <2>7. QED
    BY <1>3, <2>5, <2>6, KeepRestSound
<1>12. CASE fits /\ z.rc.src = "temp"
  <2>1. PICK p \in Nat, l \in Nat, s \in Nat, c \in Nat, a \in Nat :
          p = rc.in_pos /\ l = Len(rc.in) /\ s = Len(z.temp) /\ c = z.compressed /\ a = Avail(b)
    BY <1>3, <1>6, BufFields
  <2>2. n = p /\ p <= l /\ l <= c /\ s <= l /\ l - s <= a /\ s <= c
    BY <1>3, <1>5, <1>12, <2>1
  <2>3. ~(n > (IF z.rc.src = "temp" THEN Len(rc.in) ELSE z.compressed))
    BY <1>12, <2>1, <2>2
  <2>4. IF n < size THEN Lzma2LzmaReturns([x EXCEPT !.temp = SubSeq(z.temp, n + 1, size)], b)
        ELSE DecodeInput([x EXCEPT !.temp = <<>>], Taken(b, n - size))
    BY <1>2, <1>12, <2>3
  <2>5. n \in Nat /\ n <= z.compressed
    BY <2>1, <2>2
  <2>6. /\ Round(x, b.room, raw) /\ Typed(x) /\ x.compressed = c - p /\ x.rc = rc /\ x.temp = z.temp
    BY <1>10, <1>12, <2>1, <2>2, <2>5
  <2>7. n = p /\ size = s
    BY <2>1, <2>2
  <2> HIDE DEF x, n, size
  <2>8. CASE p < s
    <3> DEFINE temp == SubSeq(z.temp, p + 1, s)
               w == [x EXCEPT !.temp = temp]
    <3>1. Lzma2LzmaReturns(w, b)
      BY <2>4, <2>7, <2>8
    <3>2. temp \in Seq(Nat) /\ Len(temp) = s - p
      <4>1. PICK k \in Nat : k = s - p
        BY <2>8
      <4>2. p + k = s /\ p + k <= Len(z.temp)
        BY <2>1, <4>1
      <4>3. SubSeq(z.temp, p + 1, p + k) \in Seq(Nat) /\ Len(SubSeq(z.temp, p + 1, p + k)) = k
        BY <1>3, <4>2, SubTyped
      <4>4. QED
        BY <4>1, <4>2, <4>3
    <3> HIDE DEF temp
    <3>3. /\ Typed(w) /\ w.dict = x.dict /\ w.lzma = x.lzma /\ w.ret = x.ret /\ w.sequence = x.sequence
          /\ w.need_dict_reset = x.need_dict_reset /\ w.uncompressed = x.uncompressed
          /\ w.compressed = x.compressed /\ w.rc = x.rc /\ w.temp = temp
      BY <2>6, <3>2, WithTemp
    <3> HIDE DEF w
    <3>4. Round(w, b.room, raw)
      BY <2>6, <3>3, SameRound
    <3>5. Len(w.temp) <= w.compressed /\ Len(w.temp) < LZMA_IN_REQUIRED
      <4>1. s - p <= c - p /\ s - p <= s /\ s < 3
        BY <1>3, <2>1, <2>2, SMTT(30) DEF LZMA_IN_REQUIRED
      <4>2. s - p < 3
        BY <4>1
      <4>3. QED
        BY <2>6, <3>2, <3>3, <4>1, <4>2 DEF LZMA_IN_REQUIRED
    <3>6. w.rc.in_pos <= (IF w.rc.src = "temp" THEN 3 * LZMA_IN_REQUIRED ELSE b.in_size)
      BY <1>7, <2>6, <3>3
    <3>7. QED
      BY <1>3, <1>4, <3>1, <3>4, <3>5, <3>6, FlushNext
  <2>9. CASE ~(p < s)
    <3> DEFINE w == [x EXCEPT !.temp = <<>>]
               to == Taken(b, p - s)
    <3>1. DecodeInput(w, to)
      BY <2>4, <2>7, <2>9
    <3>2. PICK k \in Nat : k = p - s /\ k <= Avail(b)
      <4>1. p - s \in Nat /\ p - s <= a
        BY <2>2, <2>9
      <4>2. QED
        BY <2>1, <4>1
    <3>3. to = Taken(b, k)
      BY <3>2
    <3> HIDE DEF to
    <3>4. BufferOK(to) /\ OutGrows(b, to) /\ to.in_size = b.in_size /\ to.room = b.room
      BY <1>3, <3>2, <3>3, TakenOK
    <3>5. /\ Typed(w) /\ w.dict = x.dict /\ w.lzma = x.lzma /\ w.ret = x.ret /\ w.sequence = x.sequence
          /\ w.need_dict_reset = x.need_dict_reset /\ w.uncompressed = x.uncompressed
          /\ w.compressed = x.compressed /\ w.rc = x.rc /\ w.temp = <<>>
      <4>1. <<>> \in Seq(Nat)
        OBVIOUS
      <4>2. QED
        BY <2>6, <4>1, WithTemp
    <3> HIDE DEF w
    <3>6. Round(w, to.room, raw)
      BY <2>6, <3>4, <3>5, SameRound
    <3>7. w.rc.in_pos <= (IF w.rc.src = "temp" THEN 3 * LZMA_IN_REQUIRED ELSE to.in_size)
      BY <1>7, <2>6, <3>4, <3>5
    <3>8. QED
      BY <1>3, <3>1, <3>4, <3>5, <3>6, <3>7, DecodeInputSound
  <2>10. QED
    BY <2>8, <2>9
<1>13. n \in Int /\ (fits \/ n > (IF z.rc.src = "temp" THEN Len(rc.in) ELSE z.compressed))
  <2>1. b.in_pos \in Nat
    BY <1>3, BufFields
  <2>2. n \in Int
    BY <1>6, <2>1
  <2> HIDE DEF n
  <2>3. (IF z.rc.src = "temp" THEN Len(rc.in) ELSE z.compressed) \in Nat
    BY <1>3, <1>6
  <2>4. QED
    BY <2>2, <2>3
<1>14. z.rc.src \in {"in", "temp"}
  BY <1>5, <1>6
<1>15. QED
  BY <1>9, <1>11, <1>12, <1>13, <1>14

\* dict_flush() puts out what was decoded in this round.
FlushOut(n) ==
  [b EXCEPT !.out = @ \o [i \in 1..n |-> z.dict.buf[z.dict.start + i - 1]], !.room = @ - n]

\* Its output is no more than there was room for.
LEMMA FlushOutIs ==
  ASSUME Before, pc = "flush"
  PROVE  LET n == z.dict.pos - z.dict.start
             buf == FlushOut(n)
         IN  /\ n \in Nat /\ n <= z.uncompressed
             /\ BufferOK(buf) /\ OutGrows(b, buf) /\ buf.in_size = b.in_size
<1>1. /\ Round(z, b.room, raw) /\ BufferOK(b)
  BY Inside DEF Before, Decoding
<1>2. PICK size \in Nat \ {0} : size = z.dict.end /\ z.dict \in DictType(size)
  BY <1>1, Fields DEF Round
<1>3. PICK pos \in Nat, limit \in Nat, first \in Nat, u \in Nat, room \in Nat :
        /\ pos = z.dict.pos /\ limit = z.dict.limit /\ first = z.dict.start
        /\ u = z.uncompressed /\ room = b.room
  <2>1. z.dict.pos \in Nat /\ z.dict.limit \in Nat /\ z.dict.start \in Nat
    BY <1>2 DEF DictType
  <2>2. z.uncompressed \in Nat /\ b.room \in Nat
    BY <1>1, Fields, BufFields DEF Round
  <2>3. QED
    BY <2>1, <2>2
<1>4. first <= pos /\ pos <= limit /\ limit <= size /\ limit - first <= room /\ limit - first <= u
  BY <1>1, <1>2, <1>3 DEF Round
<1>5. PICK n \in Nat : n = pos - first /\ n <= room /\ n <= u
  <2>1. pos - first \in Nat /\ pos - first <= room /\ pos - first <= u
    BY <1>4
  <2>2. QED
    BY <2>1
<1>6. n = z.dict.pos - z.dict.start
  BY <1>3, <1>5
<1> DEFINE bytes == [i \in 1..n |-> z.dict.buf[z.dict.start + i - 1]]
<1>7. bytes \in Seq(Nat) /\ Len(bytes) = n
  <2>1. PICK d \in DictType(size) : d = z.dict
    BY <1>2
  <2>2. d.buf \in [0..(size - 1) -> Nat]
    BY DEF DictType
  <2>3. ASSUME NEW i \in 1..n PROVE d.buf[first + i - 1] \in Nat
    <3>1. first + i - 1 \in 0..(size - 1)
      BY <1>4, <1>5
    <3>2. QED
      BY <2>2, <3>1
  <2>4. bytes = [i \in 1..n |-> d.buf[first + i - 1]]
    BY <1>3, <2>1
  <2> HIDE DEF bytes
  <2>5. QED
    BY <2>3, <2>4
<1> DEFINE buf == FlushOut(n)
<1>8. buf = [in_pos |-> b.in_pos, in_size |-> b.in_size, out |-> b.out \o bytes, room |-> b.room - n]
  <2>1. PICK t \in BufType : t = b
    BY <1>1, BufFields
  <2>2. buf = [t EXCEPT !.out = @ \o bytes, !.room = @ - n]
    BY <2>1 DEF FlushOut
  <2> HIDE DEF buf, bytes
  <2>3. buf = [in_pos |-> t.in_pos, in_size |-> t.in_size, out |-> t.out \o bytes, room |-> t.room - n]
    BY <2>2 DEF BufType
  <2>4. QED
    BY <2>1, <2>3
<1> HIDE DEF buf, bytes
<1>9. BufferOK(buf) /\ OutGrows(b, buf) /\ buf.in_size = b.in_size
  <2>1. n <= b.room
    BY <1>3, <1>5
  <2>2. QED
    BY <1>1, <1>7, <1>8, <2>1, PutOut
<1>10. QED
  BY <1>3, <1>5, <1>6, <1>9 DEF buf

\* What lzma2_lzma() and the loop around it do after lzma_main().
LEMMA FlushSound ==
  ASSUME Before, Flush
  PROVE  After
<1>1. pc = "flush"
  BY Zenon DEF Flush
<1> DEFINE n == z.dict.pos - z.dict.start
           pos == IF z.dict.pos = z.dict.end THEN 0 ELSE z.dict.pos
           d == [z.dict EXCEPT !.pos = pos, !.start = pos]
           x == [z EXCEPT !.dict.pos = pos, !.dict.start = pos, !.uncompressed = @ - n]
           buf == FlushOut(n)
           done == [x EXCEPT !.sequence = "SEQ_CONTROL"]
<1>2. IF x.uncompressed = 0
        THEN \E finished \in Finished(x) :
               IF x.compressed > 0 \/ x.lzma.len > 0 \/ ~finished
                 THEN Lzma2Returns(x, buf, "XZ_DATA_ERROR")
                 ELSE Loop(rc_reset(done), buf)
      ELSE IF CannotGoOn(x, buf) THEN Lzma2Returns(x, buf, "XZ_OK")
      ELSE Loop(x, buf)
  BY Zenon DEF Flush, FlushOut
<1>3. /\ n \in Nat /\ n <= z.uncompressed
      /\ BufferOK(buf) /\ OutGrows(b, buf) /\ buf.in_size = b.in_size
  BY <1>1, FlushOutIs
<1> HIDE DEF buf, n
<1>4. /\ Round(z, b.room, raw) /\ BufferOK(b) /\ raw \in Seq(Nat) /\ input \in Seq(Nat)
      /\ Len(z.temp) <= z.compressed /\ Len(z.temp) < LZMA_IN_REQUIRED
      /\ RcInv("flush", z, b)
  BY <1>1, Inside DEF Before, Decoding, StreamInv
<1>5. /\ Typed(z) /\ Holds(z.dict, raw) /\ ~z.need_dict_reset /\ Alive(z)
      /\ z.sequence = "SEQ_LZMA_RUN"
      /\ z.lzma.len > 0 => InDictionary(z.dict, z.lzma.reps[1])
  BY <1>4 DEF Round
<1>6. PICK size \in Nat \ {0} : size = z.dict.end /\ z.dict \in DictType(size)
  BY <1>5, Fields
<1>7. z.uncompressed \in Nat /\ z.compressed \in Nat /\ z.temp \in Seq(Nat) /\ z.rc \in RcType
      /\ z.lzma \in LzmaType
  BY <1>5, Fields
<1>8. /\ d \in DictType(size) /\ d.buf = z.dict.buf /\ d.full = z.dict.full /\ d.end = size
      /\ d.pos = pos /\ d.start = pos
  <2>1. PICK e \in DictType(size) : e = z.dict
    BY <1>6
  <2>2. pos \in Nat
    BY <2>1 DEF DictType
  <2> HIDE DEF pos
  <2>3. d = [e EXCEPT !.pos = pos, !.start = pos]
    BY <2>1
  <2> HIDE DEF d
  <2>4. d \in DictType(size) /\ d.buf = e.buf /\ d.full = e.full /\ d.end = e.end /\ d.pos = pos /\ d.start = pos
    BY <2>2, <2>3 DEF DictType
  <2>5. QED
    BY <1>6, <2>1, <2>4
<1>9. Holds(d, raw) /\ d.start = d.pos /\ d.pos < d.end
  <2>1. d.pos = IF z.dict.pos = z.dict.end THEN 0 ELSE z.dict.pos
    BY <1>8
  <2> HIDE DEF d, pos
  <2>2. QED
    BY <1>5, <1>6, <1>8, <2>1, WrapHolds
<1>10. PICK u \in Nat : u = z.uncompressed - n
  BY <1>3, <1>7
<1>11. /\ Typed(x) /\ x.dict = d /\ x.lzma = z.lzma /\ x.ret = z.ret /\ x.sequence = z.sequence
       /\ x.need_dict_reset = z.need_dict_reset /\ x.uncompressed = u
       /\ x.compressed = z.compressed /\ x.rc = z.rc /\ x.temp = z.temp
  <2>1. PICK y \in DecoderType(size) : y = z
    BY <1>5, <1>6 DEF Typed
  <2>2. x = [y EXCEPT !.dict = d, !.uncompressed = u]
    BY <1>10, <2>1 DEF DecoderType, DictType
  <2> HIDE DEF x, d
  <2>3. QED
    BY <1>6, <1>8, <2>1, <2>2 DEF Typed, DecoderType
<1> HIDE DEF x, d
<1>12. z.rc.in_pos <= (IF z.rc.src = "temp" THEN 3 * LZMA_IN_REQUIRED ELSE b.in_size)
  BY <1>4 DEF RcInv
<1>13. x.rc.in_pos <= (IF x.rc.src = "temp" THEN 3 * LZMA_IN_REQUIRED ELSE buf.in_size)
  BY <1>3, <1>11, <1>12
<1>14. CASE Lzma2Returns(x, buf, "XZ_DATA_ERROR")
  <2>1. ~x.need_dict_reset /\ Holds(x.dict, raw) /\ x.dict.start <= x.dict.pos
    <3>1. x.dict.pos \in Nat
      BY <1>8, <1>11 DEF DictType
    <3>2. QED
      BY <1>5, <1>9, <1>11, <3>1
  <2>2. Len(x.temp) <= x.compressed /\ Len(x.temp) < LZMA_IN_REQUIRED
    BY <1>4, <1>11
  <2>3. QED
    BY <1>3, <1>4, <1>11, <1>13, <1>14, <2>1, <2>2, FailSound
<1>15. ASSUME x.uncompressed # 0
       PROVE  Sound("run", x, buf, raw) /\ Alive(x)
  <2>1. DictInv("run", x, raw)
    <3>1. x.dict.pos \in Nat
      BY <1>8, <1>11 DEF DictType
    <3>2. QED
      BY <1>5, <1>9, <1>11, <3>1 DEF DictInv, Decoding
  <2>2. RoundInv("run", x, buf) /\ RcInv("run", x, buf)
    BY <1>13 DEF RoundInv, RcInv, Decoding
  <2>3. x.lzma.len > 0 => InDictionary(x.dict, x.lzma.reps[1])
    BY <1>5, <1>6, <1>8, <1>11 DEF InDictionary
  <2>4. ChunkInv(x)
    <3>1. x.uncompressed > 0
      BY <1>11, <1>15
    <3>2. QED
      BY <1>4, <1>5, <1>11, <2>3, <3>1 DEF ChunkInv
  <2>5. QED
    BY <1>5, <1>11, <2>1, <2>2, <2>4 DEF Sound, Alive
<1>16. CASE Lzma2Returns(x, buf, "XZ_OK") /\ x.uncompressed # 0
  BY <1>3, <1>4, <1>15, <1>16, Lzma2ReturnsSound
<1>17. CASE Loop(x, buf) /\ x.uncompressed # 0
  BY <1>3, <1>4, <1>15, <1>17, LoopSound
<1>18. CASE Loop(rc_reset(done), buf) /\ ~(x.compressed > 0) /\ ~(x.lzma.len > 0)
  <2>1. /\ Typed(done) /\ done.dict = d /\ done.lzma = z.lzma /\ done.ret = z.ret
        /\ done.sequence = "SEQ_CONTROL" /\ done.need_dict_reset = z.need_dict_reset
        /\ done.rc = z.rc /\ done.temp = z.temp
    BY <1>11 DEF Typed, DecoderType, ChunkStates
  <2> HIDE DEF done
  <2> DEFINE y == rc_reset(done)
  <2>2. /\ Typed(y) /\ y.dict = d /\ y.temp = z.temp /\ y.ret = z.ret /\ y.lzma.len = z.lzma.len
        /\ y.sequence = "SEQ_CONTROL" /\ y.need_dict_reset = z.need_dict_reset
        /\ y.rc.in_pos = z.rc.in_pos /\ y.rc.src = z.rc.src
    BY <2>1, ResetIs
  <2>3. Loop(y, buf)
    BY <1>18
  <2> HIDE DEF y
  <2>4. z.temp = <<>> /\ z.lzma.len = 0
    <3>1. z.compressed = 0 /\ z.lzma.len \in Nat /\ ~(z.lzma.len > 0)
      BY <1>7, <1>11, <1>18 DEF LzmaType
    <3>2. Len(z.temp) = 0
      BY <1>4, <1>7, <3>1
    <3>3. QED
      BY <1>7, <3>1, <3>2
  <2>5. y.rc.in_pos <= (IF y.rc.src = "temp" THEN 3 * LZMA_IN_REQUIRED ELSE buf.in_size)
    BY <1>3, <1>12, <2>2
  <2>6. Sound("run", y, buf, raw) /\ Alive(y)
    BY <1>3, <1>5, <1>9, <2>2, <2>4, <2>5, SoundOutside DEF Alive
  <2>7. QED
    BY <1>3, <1>4, <2>3, <2>6, LoopSound
<1>19. QED
  BY <1>2, <1>14, <1>16, <1>17, <1>18

\* Every step of xz_dec_lzma2_run() keeps the decoder sound.
LEMMA Lzma2Step ==
  ASSUME Before, xz_dec_lzma2_run
  PROVE  After
<1>1. \/ RunOutOfInput
      \/ Control \/ Sizes \/ Properties \/ PrepareAgain \/ Copy
      \/ LzmaRun \/ MainRepeat \/ MainSymbol \/ MainReturns \/ Flush
  BY DEF xz_dec_lzma2_run
<1>2. QED
  BY <1>1, RunOutOfInputSound, ControlSound, SizesSound, PropertiesSound, PrepareAgainSound,
     CopySound, LzmaRunSound, MainRepeatSound, MainSymbolSound, MainReturnsSound, FlushSound

-----------------------------------------------------------------------------
(* The encoders are folds: what their steps keep, they keep.               *)

\* Symbols, folded into a chunk's encoder.
LEMMA FoldSymbols ==
  ASSUME NEW T, NEW E, NEW base \in T, NEW n \in Nat, NEW seq \in [1..n -> E],
         \A e \in T, x \in E : EncodeSymbol(e, x) \in T
  PROVE  FoldLeft(EncodeSymbol, base, seq) \in T
<1> DEFINE Is(g) == g = [s \in SUBSET (1..n) |->
                    IF s = {} THEN base ELSE EncodeSymbol(g[s \ {Max(s)}], seq[Max(s)])]
           c == CHOOSE g : Is(g)
<1>1. FoldLeft(EncodeSymbol, base, seq) = c[1..n]
  <2>1. DOMAIN seq = 1..n
    OBVIOUS
  <2>2. QED
    BY <2>1 DEF FoldLeft, MapThenFoldSet
<1>2. PICK op \in [T \X E -> T] : \A e \in T, x \in E : op[<<e, x>>] = EncodeSymbol(e, x)
  <2> DEFINE o == [p \in T \X E |-> EncodeSymbol(p[1], p[2])]
  <2>1. o \in [T \X E -> T] /\ \A e \in T, x \in E : o[<<e, x>>] = EncodeSymbol(e, x)
    OBVIOUS
  <2> HIDE DEF o
  <2>2. QED
    BY <2>1
<1>3. PICK g : Folding(T, op, seq, base, n, g)
  BY FoldExists
<1>4. ASSUME NEW s \in SUBSET (1..n)
      PROVE  g[s] = IF s = {} THEN base ELSE EncodeSymbol(g[s \ {Max(s)}], seq[Max(s)])
  <2>1. CASE s = {}
    BY <1>3, <2>1 DEF Folding, FoldStep
  <2>2. CASE s # {}
    <3>1. g[s \ {Max(s)}] \in T /\ seq[Max(s)] \in E
      BY <1>3, <2>2, MaxOfIndices DEF Folding
    <3>2. g[s] = op[<<g[s \ {Max(s)}], seq[Max(s)]>>]
      BY <1>3, <2>2 DEF Folding, FoldStep
    <3>3. QED
      BY <1>2, <2>2, <3>1, <3>2
  <2>3. QED
    BY <2>1, <2>2
<1>5. Is(g)
  BY <1>3, <1>4 DEF Folding
<1>6. Is(c)
  <2> HIDE DEF Is
  <2>1. QED
    BY <1>5
<1>7. c[{}] = base
  <2>1. {} \in SUBSET (1..n)
    OBVIOUS
  <2> HIDE DEF c
  <2>2. QED
    BY <1>6, <2>1
<1>8. ASSUME NEW k \in Nat, k + 1 <= n, c[1..k] \in T PROVE c[1..(k + 1)] \in T
  <2> HIDE DEF c
  <2>1. PICK s \in SUBSET (1..n) : s = 1..(k + 1)
    BY <1>8, PrefixIs
  <2>2. s # {} /\ Max(s) = k + 1 /\ s \ {k + 1} = 1..k /\ k + 1 \in 1..n
    BY <1>8, <2>1, PrefixIs
  <2>3. c[s] = EncodeSymbol(c[1..k], seq[k + 1])
    BY <1>6, <2>2
  <2>4. QED
    BY <1>8, <2>1, <2>2, <2>3
<1>9. c[1..n] \in T
  <2> HIDE DEF c
  <2>1. QED
    BY <1>7, <1>8, FoldStays
<1>10. QED
  BY <1>1, <1>9

\* Chunks, folded into a Block's encoder.
LEMMA FoldChunks ==
  ASSUME NEW T, NEW E, NEW base \in T, NEW n \in Nat, NEW seq \in [1..n -> E],
         \A e \in T, x \in E : EncodeChunk(e, x) \in T
  PROVE  FoldLeft(EncodeChunk, base, seq) \in T
<1> DEFINE Is(g) == g = [s \in SUBSET (1..n) |->
                    IF s = {} THEN base ELSE EncodeChunk(g[s \ {Max(s)}], seq[Max(s)])]
           c == CHOOSE g : Is(g)
<1>1. FoldLeft(EncodeChunk, base, seq) = c[1..n]
  <2>1. DOMAIN seq = 1..n
    OBVIOUS
  <2>2. QED
    BY <2>1 DEF FoldLeft, MapThenFoldSet
<1>2. PICK op \in [T \X E -> T] : \A e \in T, x \in E : op[<<e, x>>] = EncodeChunk(e, x)
  <2> DEFINE o == [p \in T \X E |-> EncodeChunk(p[1], p[2])]
  <2>1. o \in [T \X E -> T] /\ \A e \in T, x \in E : o[<<e, x>>] = EncodeChunk(e, x)
    OBVIOUS
  <2> HIDE DEF o
  <2>2. QED
    BY <2>1
<1>3. PICK g : Folding(T, op, seq, base, n, g)
  BY FoldExists
<1>4. ASSUME NEW s \in SUBSET (1..n)
      PROVE  g[s] = IF s = {} THEN base ELSE EncodeChunk(g[s \ {Max(s)}], seq[Max(s)])
  <2>1. CASE s = {}
    BY <1>3, <2>1 DEF Folding, FoldStep
  <2>2. CASE s # {}
    <3>1. g[s \ {Max(s)}] \in T /\ seq[Max(s)] \in E
      BY <1>3, <2>2, MaxOfIndices DEF Folding
    <3>2. g[s] = op[<<g[s \ {Max(s)}], seq[Max(s)]>>]
      BY <1>3, <2>2 DEF Folding, FoldStep
    <3>3. QED
      BY <1>2, <2>2, <3>1, <3>2
  <2>3. QED
    BY <2>1, <2>2
<1>5. Is(g)
  BY <1>3, <1>4 DEF Folding
<1>6. Is(c)
  <2> HIDE DEF Is
  <2>1. QED
    BY <1>5
<1>7. c[{}] = base
  <2>1. {} \in SUBSET (1..n)
    OBVIOUS
  <2> HIDE DEF c
  <2>2. QED
    BY <1>6, <2>1
<1>8. ASSUME NEW k \in Nat, k + 1 <= n, c[1..k] \in T PROVE c[1..(k + 1)] \in T
  <2> HIDE DEF c
  <2>1. PICK s \in SUBSET (1..n) : s = 1..(k + 1)
    BY <1>8, PrefixIs
  <2>2. s # {} /\ Max(s) = k + 1 /\ s \ {k + 1} = 1..k /\ k + 1 \in 1..n
    BY <1>8, <2>1, PrefixIs
  <2>3. c[s] = EncodeChunk(c[1..k], seq[k + 1])
    BY <1>6, <2>2
  <2>4. QED
    BY <1>8, <2>1, <2>2, <2>3
<1>9. c[1..n] \in T
  <2> HIDE DEF c
  <2>1. QED
    BY <1>7, <1>8, FoldStays
<1>10. QED
  BY <1>1, <1>9

\* Blocks, folded into what is packed.
LEMMA FoldBlocks ==
  ASSUME NEW T, NEW E, NEW base \in T, NEW n \in Nat, NEW seq \in [1..n -> E],
         \A e \in T, x \in E : EncodeBlock(e, x) \in T
  PROVE  FoldLeft(EncodeBlock, base, seq) \in T
<1> DEFINE Is(g) == g = [s \in SUBSET (1..n) |->
                    IF s = {} THEN base ELSE EncodeBlock(g[s \ {Max(s)}], seq[Max(s)])]
           c == CHOOSE g : Is(g)
<1>1. FoldLeft(EncodeBlock, base, seq) = c[1..n]
  <2>1. DOMAIN seq = 1..n
    OBVIOUS
  <2>2. QED
    BY <2>1 DEF FoldLeft, MapThenFoldSet
<1>2. PICK op \in [T \X E -> T] : \A e \in T, x \in E : op[<<e, x>>] = EncodeBlock(e, x)
  <2> DEFINE o == [p \in T \X E |-> EncodeBlock(p[1], p[2])]
  <2>1. o \in [T \X E -> T] /\ \A e \in T, x \in E : o[<<e, x>>] = EncodeBlock(e, x)
    OBVIOUS
  <2> HIDE DEF o
  <2>2. QED
    BY <2>1
<1>3. PICK g : Folding(T, op, seq, base, n, g)
  BY FoldExists
<1>4. ASSUME NEW s \in SUBSET (1..n)
      PROVE  g[s] = IF s = {} THEN base ELSE EncodeBlock(g[s \ {Max(s)}], seq[Max(s)])
  <2>1. CASE s = {}
    BY <1>3, <2>1 DEF Folding, FoldStep
  <2>2. CASE s # {}
    <3>1. g[s \ {Max(s)}] \in T /\ seq[Max(s)] \in E
      BY <1>3, <2>2, MaxOfIndices DEF Folding
    <3>2. g[s] = op[<<g[s \ {Max(s)}], seq[Max(s)]>>]
      BY <1>3, <2>2 DEF Folding, FoldStep
    <3>3. QED
      BY <1>2, <2>2, <3>1, <3>2
  <2>3. QED
    BY <2>1, <2>2
<1>5. Is(g)
  BY <1>3, <1>4 DEF Folding
<1>6. Is(c)
  <2> HIDE DEF Is
  <2>1. QED
    BY <1>5
<1>7. c[{}] = base
  <2>1. {} \in SUBSET (1..n)
    OBVIOUS
  <2> HIDE DEF c
  <2>2. QED
    BY <1>6, <2>1
<1>8. ASSUME NEW k \in Nat, k + 1 <= n, c[1..k] \in T PROVE c[1..(k + 1)] \in T
  <2> HIDE DEF c
  <2>1. PICK s \in SUBSET (1..n) : s = 1..(k + 1)
    BY <1>8, PrefixIs
  <2>2. s # {} /\ Max(s) = k + 1 /\ s \ {k + 1} = 1..k /\ k + 1 \in 1..n
    BY <1>8, <2>1, PrefixIs
  <2>3. c[s] = EncodeBlock(c[1..k], seq[k + 1])
    BY <1>6, <2>2
  <2>4. QED
    BY <1>8, <2>1, <2>2, <2>3
<1>9. c[1..n] \in T
  <2> HIDE DEF c
  <2>1. QED
    BY <1>7, <1>8, FoldStays
<1>10. QED
  BY <1>1, <1>9

-----------------------------------------------------------------------------
(* The packer: what it makes of symbols, of chunks and of Blocks.          *)

\* What the packer knows: the model, what a symbol depends on, a chunk's plan, a Block so far.
RepsType == {reps \in Seq(Nat) : Len(reps) = REPS}
ModelType == [reps : RepsType, literal : BOOLEAN, learned : Nat]
ContextType == [position : Nat, learned : Nat, before : Seq(Nat)]
StepType == [symbol : SymbolType, context : ContextType]
PlanType == [size : Nat, steps : Seq(StepType)]
EncoderType ==
  [history : Seq(Nat), model : ModelType, mask : Nat, content : Seq(Nat), bytes : Seq(Nat),
   plans : Seq(PlanType)]
\* Within its n-th chunk of symbols, with at least l bytes of content.
Encoders(l, n) ==
  {e \in EncoderType :
     Len(e.content) >= l /\ Len(e.plans) = n /\ e.plans[n].size >= RC_INIT_BYTES}

\* What a match copies are bytes of the history.
LEMMA CopyIs ==
  ASSUME NEW history \in Seq(Nat), NEW dist \in Nat, NEW len \in Nat
  PROVE  CopyOf(history, dist, len) \in Seq(Nat)
<1> DEFINE from == Len(history) - dist
           Byte(i) == IF from > 0 THEN history[from + ((i - 1) % (dist + 1))] ELSE JUNK
<1>1. ASSUME NEW i \in 1..len PROVE Byte(i) \in Nat
  <2>1. CASE from > 0
    <3>1. PICK m \in 0..dist : m = (i - 1) % (dist + 1)
      <4>1. (i - 1) % (dist + 1) \in 0..dist
        OBVIOUS
      <4>2. QED
        BY <4>1
    <3>2. from + m \in 1..Len(history)
      BY <2>1, <3>1
    <3>3. QED
      BY <2>1, <3>1, <3>2, ElementOfSeq
  <2>2. CASE ~(from > 0)
    BY <2>2 DEF JUNK
  <2>3. QED
    BY <2>1, <2>2
<1>2. CopyOf(history, dist, len) = [i \in 1..len |-> Byte(i)]
  BY DEF CopyOf
<1> HIDE DEF Byte
<1>3. QED
  BY <1>1, <1>2

\* A piece of a sequence, from one place to another.
LEMMA PieceIs ==
  ASSUME NEW s \in Seq(Nat), NEW from \in Nat \ {0}, NEW to \in Nat, from <= to + 1, to <= Len(s)
  PROVE  SubSeq(s, from, to) \in Seq(Nat) /\ Len(SubSeq(s, from, to)) = to + 1 - from
<1>1. PICK n \in Nat, p \in Nat : from = p + 1 /\ to = p + n
  <2>1. to + 1 - from \in Nat /\ from - 1 \in Nat
    OBVIOUS
  <2>2. from = (from - 1) + 1 /\ to = (from - 1) + (to + 1 - from)
    OBVIOUS
  <2>3. QED
    BY <2>1, <2>2
<1>2. SubSeq(s, p + 1, p + n) \in Seq(Nat) /\ Len(SubSeq(s, p + 1, p + n)) = n
  BY <1>1, SubTyped
<1>3. QED
  BY <1>1, <1>2

\* What remains of four numbers without one.
LEMMA OneLess ==
  ASSUME NEW s \in Seq(Nat), Len(s) = 4
  PROVE  /\ SubSeq(s, 1, 3) \in Seq(Nat) /\ Len(SubSeq(s, 1, 3)) = 3
         /\ \A k \in 1..4 : /\ s[k] \in Nat
                            /\ RemoveAt(s, k) \in Seq(Nat) /\ Len(RemoveAt(s, k)) = 3
<1>1. SubSeq(s, 1, 3) \in Seq(Nat) /\ Len(SubSeq(s, 1, 3)) = 3
  <2>1. 1 \in Nat \ {0} /\ 3 \in Nat /\ 1 <= 3 + 1 /\ 3 <= Len(s)
    OBVIOUS
  <2>2. SubSeq(s, 1, 3) \in Seq(Nat)
    BY <2>1, PieceIs
  <2>3. Len(SubSeq(s, 1, 3)) = 3
    OBVIOUS
  <2>4. QED
    BY <2>2, <2>3
<1>2. ASSUME NEW k \in 1..4
      PROVE  s[k] \in Nat /\ RemoveAt(s, k) \in Seq(Nat) /\ Len(RemoveAt(s, k)) = 3
  <2>1. s[k] \in Nat
    BY ElementOfSeq
  <2>2. SubSeq(s, 1, k - 1) \in Seq(Nat) /\ Len(SubSeq(s, 1, k - 1)) = k - 1
    <3>1. 1 \in Nat \ {0} /\ k - 1 \in Nat /\ 1 <= (k - 1) + 1 /\ k - 1 <= Len(s)
      OBVIOUS
    <3>2. SubSeq(s, 1, k - 1) \in Seq(Nat)
      BY <3>1, PieceIs
    <3>3. Len(SubSeq(s, 1, k - 1)) = k - 1
      OBVIOUS
    <3>4. QED
      BY <3>2, <3>3
  <2>3. SubSeq(s, k + 1, 4) \in Seq(Nat) /\ Len(SubSeq(s, k + 1, 4)) = 4 - k
    <3>1. k + 1 \in Nat \ {0} /\ 4 \in Nat /\ k + 1 <= 4 + 1 /\ 4 <= Len(s)
      OBVIOUS
    <3>2. SubSeq(s, k + 1, 4) \in Seq(Nat)
      BY <3>1, PieceIs
    <3>3. Len(SubSeq(s, k + 1, 4)) = 4 - k
      OBVIOUS
    <3>4. QED
      BY <3>2, <3>3
  <2>4. RemoveAt(s, k) = SubSeq(s, 1, k - 1) \o SubSeq(s, k + 1, 4)
    BY DEF RemoveAt
  <2>5. QED
    BY <2>1, <2>2, <2>3, <2>4
<1>3. QED
  BY <1>1, <1>2

\* The latest distances stay four numbers.
LEMMA RepsStay ==
  ASSUME NEW reps \in RepsType, NEW dist \in Nat
  PROVE  /\ <<dist>> \o SubSeq(reps, 1, REPS - 1) \in RepsType
         /\ \A k \in 1..REPS : reps[k] \in Nat /\ <<dist>> \o RemoveAt(reps, k) \in RepsType
<1>1. PICK s \in Seq(Nat) : s = reps /\ Len(s) = REPS
  BY DEF RepsType
<1>2. REPS = 4 /\ REPS - 1 = 3
  BY DEF REPS
<1>3. ASSUME NEW t \in Seq(Nat), Len(t) = 3 PROVE <<dist>> \o t \in RepsType
  <2>1. <<dist>> \in Seq(Nat) /\ Len(<<dist>>) = 1
    OBVIOUS
  <2>2. <<dist>> \o t \in Seq(Nat) /\ Len(<<dist>> \o t) = 1 + 3
    BY <1>3, <2>1, ConcatIs
  <2>3. QED
    <3>1. Len(<<dist>> \o t) = REPS
      BY <1>2, <2>2
    <3>2. QED
      BY <2>2, <3>1 DEF RepsType
<1>4. QED
  BY <1>1, <1>2, <1>3, OneLess

\* The plan of a chunk with one more symbol.
LEMMA LongerPlanIs ==
  ASSUME NEW plan \in PlanType, NEW symbol \in SymbolType, NEW context \in ContextType
  PROVE  LongerPlan(plan, symbol, context) \in PlanType /\ LongerPlan(plan, symbol, context).size >= plan.size
<1>1. symbol.inner \in Nat /\ symbol.due \in Nat
  BY SymbolFields
<1>2. PICK size \in Nat : size = plan.size + symbol.inner + symbol.due /\ size >= plan.size
  BY <1>1 DEF PlanType
<1>3. PICK s \in StepType : s = [symbol |-> symbol, context |-> context]
  BY DEF StepType
<1>4. PICK steps \in Seq(StepType) : steps = Append(plan.steps, s)
  <2>1. plan.steps \in Seq(StepType)
    BY DEF PlanType
  <2>2. Append(plan.steps, s) \in Seq(StepType)
    BY <2>1, AppendProperties
  <2>3. QED
    BY <2>2
<1>5. LongerPlan(plan, symbol, context) = [plan EXCEPT !.size = size, !.steps = steps]
  BY <1>2, <1>3, <1>4 DEF LongerPlan, PlanType
<1>6. QED
  BY <1>2, <1>5 DEF PlanType

\* A symbol leaves the encoder one.
LEMMA SymbolEncoded ==
  ASSUME NEW l \in Nat, NEW n \in Nat \ {0}, NEW e \in Encoders(l, n), NEW symbol \in SymbolType
  PROVE  EncodeSymbol(e, symbol) \in Encoders(l, n)
<1> DEFINE h == e.history
           dist == IF symbol.kind = "rep" THEN e.model.reps[symbol.dist + 1] ELSE symbol.dist
           new == IF symbol.kind = "literal" THEN <<symbol.byte>> ELSE CopyOf(h, dist, symbol.len)
           Behind(d) == IF d < Len(h) THEN h[Len(h) - d] ELSE 0
           reps == CASE symbol.kind = "literal" -> e.model.reps
                     [] symbol.kind = "match" -> <<dist>> \o SubSeq(e.model.reps, 1, REPS - 1)
                     [] symbol.kind = "rep" -> <<dist>> \o RemoveAt(e.model.reps, symbol.dist + 1)
           before == IF symbol.kind # "literal" THEN <<>>
                     ELSE IF e.model.literal THEN <<Behind(0)>>
                     ELSE <<Behind(0), Behind(e.model.reps[1])>>
           context == [position |-> Len(h) % (e.mask + 1), learned |-> e.model.learned, before |-> before]
           model == [reps |-> reps, literal |-> symbol.kind = "literal", learned |-> e.model.learned + 1]
           plan == LongerPlan(e.plans[n], symbol, context)
<1>1. /\ e \in EncoderType /\ Len(e.content) >= l /\ Len(e.plans) = n
      /\ e.plans[n].size >= RC_INIT_BYTES
  BY DEF Encoders
<1>2. /\ h \in Seq(Nat) /\ e.model \in ModelType /\ e.mask \in Nat /\ e.content \in Seq(Nat)
      /\ e.bytes \in Seq(Nat) /\ e.plans \in Seq(PlanType)
  BY <1>1 DEF EncoderType
<1>3. /\ symbol.kind \in {"literal", "match", "rep"} /\ symbol.byte \in Nat /\ symbol.dist \in Nat
      /\ symbol.len \in Nat /\ (symbol.kind = "rep" => symbol.dist + 1 \in 1..REPS)
  BY DEF SymbolType, REPS
<1>4. e.model.reps \in RepsType /\ e.model.literal \in BOOLEAN /\ e.model.learned \in Nat
  BY <1>2 DEF ModelType
<1>5. dist \in Nat
  BY <1>3, <1>4, RepsStay
<1>6. reps \in RepsType
  <2> HIDE DEF dist
  <2>1. QED
    BY <1>3, <1>4, <1>5, RepsStay
<1>7. new \in Seq(Nat)
  <2> HIDE DEF dist
  <2>1. symbol.kind = "literal" => <<symbol.byte>> \in Seq(Nat)
    BY <1>3
  <2>2. CopyOf(h, dist, symbol.len) \in Seq(Nat)
    BY <1>2, <1>3, <1>5, CopyIs
  <2>3. QED
    BY <2>1, <2>2
<1>8. \A d \in Nat : Behind(d) \in Nat
  <2> SUFFICES ASSUME NEW d \in Nat, d < Len(h) PROVE h[Len(h) - d] \in Nat
    OBVIOUS
  <2>1. Len(h) - d \in 1..Len(h)
    BY <1>2
  <2>2. QED
    BY <1>2, <2>1, ElementOfSeq
<1>9. before \in Seq(Nat)
  <2>1. e.model.reps[1] \in Nat
    <3>1. 1 \in 1..REPS
      BY DEF REPS
    <3>2. QED
      BY <1>4, <1>5, <3>1, RepsStay
  <2> HIDE DEF Behind
  <2>2. Behind(0) \in Nat /\ Behind(e.model.reps[1]) \in Nat
    BY <1>8, <2>1
  <2>3. QED
    BY <2>2
<1>10. context \in ContextType
  <2>1. Len(h) % (e.mask + 1) \in Nat
    BY <1>2
  <2> HIDE DEF before, h
  <2>2. QED
    BY <1>4, <1>9, <2>1 DEF ContextType
<1>11. model \in ModelType
  <2> HIDE DEF reps
  <2>1. QED
    BY <1>4, <1>6 DEF ModelType
<1>12. e.plans[n] \in PlanType
  BY <1>1, <1>2, ElementOfSeq
<1>13. plan \in PlanType /\ plan.size >= RC_INIT_BYTES
  <2> HIDE DEF context
  <2>1. plan \in PlanType /\ plan.size >= e.plans[n].size
    BY <1>10, <1>12, LongerPlanIs
  <2>2. e.plans[n].size \in Nat /\ plan.size \in Nat /\ RC_INIT_BYTES \in Nat
    BY <1>12, <2>1 DEF PlanType, RC_INIT_BYTES
  <2> HIDE DEF plan
  <2>3. QED
    BY <1>1, <2>1, <2>2
<1> DEFINE history == h \o new
           content == e.content \o new
           plans == [e.plans EXCEPT ![n] = plan]
<1>14. EncodeSymbol(e, symbol) =
         [e EXCEPT !.history = history, !.content = content, !.model = model, !.plans = plans]
  <2>1. EncodeSymbol(e, symbol) =
          [e EXCEPT !.history = @ \o new, !.content = @ \o new,
                    !.model = [reps |-> reps, literal |-> symbol.kind = "literal",
                               learned |-> @.learned + 1],
                    !.plans[Len(e.plans)] = LongerPlan(@, symbol, context)]
    BY DEF EncodeSymbol
  <2> HIDE DEF reps, context, new, history, h
  <2>2. QED
    BY <1>1, <2>1 DEF EncoderType, history, h
<1> HIDE DEF new, h, model, plan, plans
<1>15. history \in Seq(Nat) /\ content \in Seq(Nat) /\ Len(content) >= l
  BY <1>1, <1>2, <1>7
<1>16. plans \in Seq(PlanType) /\ Len(plans) = n /\ plans[n] = plan
  BY <1>1, <1>2, <1>13 DEF plans
<1> HIDE DEF history, content
<1>17. EncodeSymbol(e, symbol) \in EncoderType
  BY <1>1, <1>11, <1>14, <1>15, <1>16 DEF EncoderType
<1>18. QED
  BY <1>1, <1>13, <1>14, <1>15, <1>16, <1>17 DEF Encoders, EncoderType

\* Sizes are written as bytes.
LEMMA DigitsAre ==
  ASSUME NEW size \in Nat
  PROVE  Digits(size) \in Seq(Nat)
<1>1. size \div SIZE_BASE \in Nat /\ size % SIZE_BASE \in Nat
  BY DEF SIZE_BASE
<1>2. QED
  BY <1>1 DEF Digits

\* Of a size that is a little less than nothing.
LEMMA SmallSize ==
  ASSUME NEW k \in Nat, NEW m \in Nat, k >= m, NEW more \in Nat, NEW less \in Nat, less <= 1,
         NEW control \in Nat, control >= 8
  PROVE  LET w == k - m - 1 + more - less IN control + w \div 16 \in Nat /\ w % 16 \in Nat
<1>1. PICK w \in Int : w = k - m - 1 + more - less
  OBVIOUS
<1>2. w + 2 >= 0
  BY <1>1
<1>3. w \div 16 \in Int
  OBVIOUS
<1>4. w \div 16 >= -1
  BY <1>2
<1>5. w % 16 \in Nat
  OBVIOUS
<1>6. control + w \div 16 \in Nat
  BY <1>3, <1>4
<1>7. QED
  BY <1>1, <1>5, <1>6

\* Of a size that is not so small.
LEMMA StoredSize ==
  ASSUME NEW k \in Nat, k >= 2, NEW longer \in Nat, NEW shorter \in Nat, shorter <= 1
  PROVE  k - 1 + longer - shorter \in Nat
OBVIOUS

\* Bytes behind bytes.
LEMMA FourConcat ==
  ASSUME NEW q \in Seq(Nat), NEW r \in Seq(Nat), NEW s \in Seq(Nat), NEW t \in Seq(Nat)
  PROVE  q \o r \o s \o t \in Seq(Nat)
BY ConcatIs

\* The model begins as one.
LEMMA NewModelIs == NewModel \in ModelType
<1>1. <<0, 0, 0, 0>> \in Seq(Nat) /\ Len(<<0, 0, 0, 0>>) = 4
  OBVIOUS
<1>2. <<0, 0, 0, 0>> \in RepsType
  BY <1>1 DEF RepsType, REPS
<1>3. QED
  BY <1>2 DEF NewModel, ModelType

\* A chunk leaves the encoder one.
LEMMA ChunkEncoded ==
  ASSUME NEW e \in EncoderType, NEW chunk \in ChunkType
  PROVE  EncodeChunk(e, chunk) \in EncoderType
<1> DEFINE history == IF ResetsDict(chunk) THEN <<>> ELSE e.history
           model == IF ResetsState(chunk) THEN NewModel ELSE e.model
           mask == IF HasProps(chunk) THEN chunk.props ELSE e.mask
           n == Len(e.plans) + 1
           l == Len(e.content)
           start == [e EXCEPT !.history = history, !.model = model, !.mask = mask,
                              !.plans = Append(@, [size |-> RC_INIT_BYTES, steps |-> <<>>])]
           coded == FoldLeft(EncodeSymbol, start, chunk.symbols)
           whole == Len(coded.content) - Len(e.content) - 1 + chunk.more - chunk.less
           size == coded.plans[n].size
           header == <<chunk.control + whole \div SIZE_BASE ^ 2>>
                     \o Digits(whole % SIZE_BASE ^ 2)
                     \o Digits(size - 1 + chunk.longer - chunk.shorter)
                     \o (IF HasProps(chunk) THEN <<chunk.props>> ELSE <<>>)
           marks == [j \in 1..size |-> Mark(n, j)]
<1>1. /\ chunk.control \in Nat /\ chunk.data \in Seq(Nat) /\ chunk.symbols \in Seq(SymbolType)
      /\ chunk.props \in Nat /\ chunk.more \in 0..1 /\ chunk.less \in 0..1
      /\ chunk.longer \in 0..1 /\ chunk.shorter \in 0..1
      /\ (chunk.control < 8 => chunk.data # <<>>)
  BY Zenon DEF ChunkType
<1>2. /\ e.history \in Seq(Nat) /\ e.model \in ModelType /\ e.mask \in Nat /\ e.content \in Seq(Nat)
      /\ e.bytes \in Seq(Nat) /\ e.plans \in Seq(PlanType)
  BY DEF EncoderType
<1>3. history \in Seq(Nat) /\ mask \in Nat /\ n \in Nat \ {0} /\ l \in Nat
  BY <1>1, <1>2
<1>4. model \in ModelType
  BY <1>2, NewModelIs
<1>5. start \in Encoders(l, n)
  <2>1. PICK plan \in PlanType : plan = [size |-> RC_INIT_BYTES, steps |-> <<>>] /\ plan.size >= RC_INIT_BYTES
    <3>1. <<>> \in Seq(StepType) /\ RC_INIT_BYTES \in Nat
      BY DEF RC_INIT_BYTES
    <3>2. [size |-> RC_INIT_BYTES, steps |-> <<>>] \in PlanType
      BY <3>1 DEF PlanType
    <3>3. RC_INIT_BYTES >= RC_INIT_BYTES
      BY <3>1
    <3>4. QED
      BY <3>2, <3>3
  <2>2. PICK plans \in Seq(PlanType) : plans = Append(e.plans, plan) /\ Len(plans) = n /\ plans[n] = plan
    <3>1. Append(e.plans, plan) \in Seq(PlanType)
      BY <1>2, AppendProperties
    <3>2. Len(Append(e.plans, plan)) = n /\ Append(e.plans, plan)[n] = plan
      BY <1>2
    <3>3. QED
      BY <3>1, <3>2
  <2> HIDE DEF history, model, mask
  <2>3. start = [e EXCEPT !.history = history, !.model = model, !.mask = mask, !.plans = plans]
    BY <2>1, <2>2
  <2> HIDE DEF start, n, l
  <2>4. start \in EncoderType /\ start.content = e.content /\ start.plans = plans
    BY <1>3, <1>4, <2>2, <2>3 DEF EncoderType
  <2>5. Len(start.content) >= l
    BY <1>2, <2>4 DEF l
  <2>6. QED
    BY <2>1, <2>2, <2>4, <2>5 DEF Encoders
<1> HIDE DEF start, history, model, mask
<1>6. coded \in Encoders(l, n)
  <2> DEFINE T == Encoders(l, n)
  <2>1. \A x \in T, symbol \in SymbolType : EncodeSymbol(x, symbol) \in T
    BY <1>3, SymbolEncoded
  <2>2. PICK k \in Nat : chunk.symbols \in [1..k -> SymbolType]
    BY <1>1
  <2> HIDE DEF T, n, l
  <2>3. start \in T
    BY <1>5 DEF T
  <2>4. coded \in T
    BY <2>1, <2>2, <2>3, FoldSymbols
  <2>5. QED
    BY <2>4 DEF T
<1> HIDE DEF coded
<1>7. /\ coded \in EncoderType /\ Len(coded.content) >= l /\ Len(coded.plans) = n
      /\ size >= RC_INIT_BYTES /\ coded.bytes \in Seq(Nat) /\ Len(coded.content) \in Nat
  BY <1>6 DEF Encoders, EncoderType
<1>8. size \in Nat
  <2>1. coded.plans \in Seq(PlanType)
    BY <1>7 DEF EncoderType
  <2>2. coded.plans[n] \in PlanType
    BY <1>3, <1>7, <2>1, ElementOfSeq
  <2>3. QED
    BY <2>2 DEF PlanType
<1>9. CASE IsLzma(chunk)
  <2>1. chunk.control >= 8
    BY <1>9 DEF IsLzma
  <2>2. PICK p \in Nat, m \in Nat : p = Len(coded.content) /\ m = Len(e.content) /\ p >= m
    BY <1>3, <1>7
  <2>3. chunk.control + whole \div SIZE_BASE ^ 2 \in Nat /\ whole % SIZE_BASE ^ 2 \in Nat
    <3>1. PICK more \in Nat, less \in Nat : more = chunk.more /\ less = chunk.less /\ less <= 1
      BY <1>1
    <3>2. SIZE_BASE ^ 2 = 16
      BY DEF SIZE_BASE
    <3> DEFINE w == p - m - 1 + more - less
    <3>3. chunk.control + w \div 16 \in Nat /\ w % 16 \in Nat
      BY <1>1, <2>1, <2>2, <3>1, SmallSize
    <3>4. w = whole
      BY <2>2, <3>1
    <3> HIDE DEF w, whole
    <3>5. QED
      BY <3>2, <3>3, <3>4
  <2>4. size - 1 + chunk.longer - chunk.shorter \in Nat
    <3>1. PICK k \in Nat, longer \in Nat, shorter \in Nat :
            k = size /\ longer = chunk.longer /\ shorter = chunk.shorter /\ k >= 2 /\ shorter <= 1
      BY <1>1, <1>7, <1>8 DEF RC_INIT_BYTES
    <3>2. k - 1 + longer - shorter \in Nat
      BY <3>1, StoredSize
    <3>3. QED
      BY <3>1, <3>2
  <2>5. marks \in Seq(Nat)
    <3>1. \A j \in 1..size : Mark(n, j) \in Nat
      BY <1>3, <1>8 DEF Mark
    <3>2. QED
      BY <1>8, <3>1
  <2>6. header \in Seq(Nat)
    <3>1. <<chunk.control + whole \div SIZE_BASE ^ 2>> \in Seq(Nat)
      <4>1. PICK k \in Nat : k = chunk.control + whole \div SIZE_BASE ^ 2
        BY <2>3
      <4>2. <<k>> \in Seq(Nat)
        OBVIOUS
      <4>3. QED
        BY <4>1, <4>2
    <3>2. Digits(whole % SIZE_BASE ^ 2) \in Seq(Nat)
      BY <2>3, DigitsAre
    <3>3. Digits(size - 1 + chunk.longer - chunk.shorter) \in Seq(Nat)
      BY <2>4, DigitsAre
    <3>4. (IF HasProps(chunk) THEN <<chunk.props>> ELSE <<>>) \in Seq(Nat)
      BY <1>1
    <3>5. QED
      BY <3>1, <3>2, <3>3, <3>4, FourConcat
  <2>7. EncodeChunk(e, chunk) = [coded EXCEPT !.bytes = @ \o header \o marks]
    BY <1>9 DEF EncodeChunk, coded, start, history, model, mask
  <2> HIDE DEF header, marks
  <2>8. PICK bytes \in Seq(Nat) : bytes = coded.bytes \o header \o marks
    BY <1>7, <2>5, <2>6, ConcatIs
  <2>9. EncodeChunk(e, chunk) = [coded EXCEPT !.bytes = bytes]
    BY <2>7, <2>8
  <2>10. QED
    BY <1>7, <2>9 DEF EncoderType
<1>10. CASE ~IsLzma(chunk)
  <2>1. chunk.data # <<>>
    BY <1>1, <1>10 DEF IsLzma
  <2>2. Len(chunk.data) - 1 \in Nat
    BY <1>1, <2>1
  <2>3. Digits(Len(chunk.data) - 1) \in Seq(Nat) /\ <<chunk.control>> \in Seq(Nat)
    BY <1>1, <2>2, DigitsAre
  <2>4. PICK h \in Seq(Nat), content \in Seq(Nat), bytes \in Seq(Nat) :
          /\ h = history \o chunk.data /\ content = e.content \o chunk.data
          /\ bytes = e.bytes \o <<chunk.control>> \o Digits(Len(chunk.data) - 1) \o chunk.data
    <3>1. history \o chunk.data \in Seq(Nat) /\ e.content \o chunk.data \in Seq(Nat)
      BY <1>1, <1>2, <1>3, ConcatIs
    <3>2. e.bytes \o <<chunk.control>> \o Digits(Len(chunk.data) - 1) \o chunk.data \in Seq(Nat)
      BY <1>1, <1>2, <2>3, FourConcat
    <3>3. QED
      BY <3>1, <3>2
  <2>5. EncodeChunk(e, chunk) =
          [e EXCEPT !.history = history \o chunk.data, !.content = @ \o chunk.data,
                    !.bytes = @ \o <<chunk.control>> \o Digits(Len(chunk.data) - 1) \o chunk.data]
    BY <1>10 DEF EncodeChunk, history
  <2>6. EncodeChunk(e, chunk) = [e EXCEPT !.history = h, !.content = content, !.bytes = bytes]
    BY <2>4, <2>5
  <2>7. QED
    BY <2>6 DEF EncoderType
<1>11. QED
  BY <1>9, <1>10

\* What has been packed so far.
PackType == [contents : Seq(Seq(Nat)), bytes : Seq(Nat), plans : Seq(PlanType)]

\* A Block of chunks is bytes, a content and plans; so are some.
LEMMA BlockEncoded ==
  ASSUME NEW e \in PackType, NEW block \in BlockType
  PROVE  EncodeBlock(e, block) \in PackType
<1> DEFINE coded == FoldLeft(EncodeChunk, Begin(e.plans), block.chunks)
<1>1. /\ e.contents \in Seq(Seq(Nat)) /\ e.bytes \in Seq(Nat) /\ e.plans \in Seq(PlanType)
      /\ block.chunks \in Seq(ChunkType)
  BY DEF PackType, BlockType
<1>2. Begin(e.plans) \in EncoderType
  <2>1. <<>> \in Seq(Nat)
    OBVIOUS
  <2>2. QED
    BY <1>1, <2>1, NewModelIs DEF Begin, EncoderType
<1>3. coded \in EncoderType
  <2>1. \A x \in EncoderType, chunk \in ChunkType : EncodeChunk(x, chunk) \in EncoderType
    BY ChunkEncoded
  <2>2. PICK k \in Nat : block.chunks \in [1..k -> ChunkType]
    <3>1. PICK s \in Seq(ChunkType) : s = block.chunks
      BY <1>1
    <3>2. Len(s) \in Nat /\ s \in [1..Len(s) -> ChunkType]
      OBVIOUS
    <3>3. QED
      BY <3>1, <3>2
  <2>3. QED
    BY <1>2, <2>1, <2>2, FoldChunks
<1> HIDE DEF coded
<1>4. coded.content \in Seq(Nat) /\ coded.bytes \in Seq(Nat) /\ coded.plans \in Seq(PlanType)
  BY <1>3 DEF EncoderType
<1>5. PICK contents \in Seq(Seq(Nat)), bytes \in Seq(Nat) :
        contents = Append(e.contents, coded.content) /\ bytes = e.bytes \o coded.bytes \o <<0>>
  <2>1. Append(e.contents, coded.content) \in Seq(Seq(Nat))
    BY <1>1, <1>4, AppendProperties
  <2>2. <<0>> \in Seq(Nat)
    OBVIOUS
  <2>3. e.bytes \o coded.bytes \o <<0>> \in Seq(Nat)
    BY <1>1, <1>4, <2>2, ConcatIs
  <2>4. QED
    BY <2>1, <2>3
<1>6. EncodeBlock(e, block) = [contents |-> contents, bytes |-> bytes, plans |-> coded.plans]
  BY <1>5 DEF EncodeBlock, coded
<1>7. QED
  BY <1>4, <1>6 DEF PackType

\* What the packer makes of a stream are bytes, and the symbols of its plans are symbols.
LEMMA Packed ==
  ASSUME NEW t \in Streams
  PROVE  /\ Pack(t.blocks).bytes \in Seq(Nat)
         /\ LET plans == Pack(t.blocks).plans IN
            \A n \in DOMAIN plans : \A k \in 1..Len(plans[n].steps) :
              plans[n].steps[k].symbol \in SymbolType
<1> DEFINE nothing == [contents |-> <<>>, bytes |-> <<>>, plans |-> <<>>]
           packed == Pack(t.blocks)
<1>1. nothing \in PackType
  <2>1. <<>> \in Seq(Seq(Nat)) /\ <<>> \in Seq(Nat) /\ <<>> \in Seq(PlanType)
    OBVIOUS
  <2>2. QED
    BY <2>1 DEF PackType
<1>2. t.blocks \in Seq(BlockType)
  BY StreamsAssumption DEF StreamType
<1>3. packed \in PackType
  <2>1. \A x \in PackType, block \in BlockType : EncodeBlock(x, block) \in PackType
    BY BlockEncoded
  <2>2. PICK k \in Nat : t.blocks \in [1..k -> BlockType]
    BY <1>2
  <2> HIDE DEF nothing
  <2>3. FoldLeft(EncodeBlock, nothing, t.blocks) \in PackType
    BY <1>1, <2>1, <2>2, FoldBlocks
  <2>4. QED
    BY <2>3 DEF Pack, nothing
<1> HIDE DEF packed
<1>4. packed.bytes \in Seq(Nat) /\ packed.plans \in Seq(PlanType)
  BY <1>3 DEF PackType
<1>5. ASSUME NEW n \in DOMAIN packed.plans, NEW k \in 1..Len(packed.plans[n].steps)
      PROVE  packed.plans[n].steps[k].symbol \in SymbolType
  <2>1. packed.plans[n] \in PlanType
    BY <1>4
  <2>2. packed.plans[n].steps \in Seq(StepType)
    BY <2>1 DEF PlanType
  <2>3. packed.plans[n].steps[k] \in StepType
    BY <2>2
  <2>4. QED
    BY <2>3 DEF StepType
<1>6. QED
  BY <1>4, <1>5 DEF packed
=============================================================================
