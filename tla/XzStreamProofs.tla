--------------------------- MODULE XzStreamProofs ---------------------------
(***************************************************************************)
(* Proofs about XzStream, for every stream of the format, whole, cut or    *)
(* corrupt, in any portions and with any room: types and buffers of all of *)
(* them, and of a good one that it is followed, byte by byte, from the     *)
(* first to the last, so that the container implements module Decoder.     *)
(***************************************************************************)
EXTENDS XzStream, SequenceInduction, SequenceTheorems, TLAPS

-----------------------------------------------------------------------------
(* Bytes and sums.                                                         *)

\* Two sequences one behind the other, and a piece of one.
LEMMA ConcatIs ==
  ASSUME NEW T, NEW u \in Seq(T), NEW v \in Seq(T)
  PROVE  /\ u \o v \in Seq(T) /\ Len(u \o v) = Len(u) + Len(v)
         /\ \A i \in 1..Len(u) : (u \o v)[i] = u[i]
         /\ \A i \in 1..Len(v) : (u \o v)[Len(u) + i] = v[i]
OBVIOUS

\* What a sequence is made of.
LEMMA ElementIs ==
  ASSUME NEW T, NEW u \in Seq(T), NEW i \in 1..Len(u)
  PROVE  u[i] \in T
OBVIOUS

\* One element more.
LEMMA AppendIs ==
  ASSUME NEW T, NEW u \in Seq(T), NEW e \in T
  PROVE  /\ Append(u, e) \in Seq(T) /\ Len(Append(u, e)) = Len(u) + 1 /\ Len(u) \in Nat
         /\ \A i \in 1..Len(u) : Append(u, e)[i] = u[i]
         /\ Append(u, e)[Len(u) + 1] = e
OBVIOUS

\* One element less.
LEMMA TailIs ==
  ASSUME NEW T, NEW u \in Seq(T), Len(u) > 0
  PROVE  /\ Tail(u) \in Seq(T) /\ Len(Tail(u)) = Len(u) - 1 /\ Len(u) \in Nat
         /\ Head(u) \in T /\ Head(u) = u[1]
         /\ \A i \in 1..(Len(u) - 1) : Tail(u)[i] = u[i + 1]
<1>1. /\ Tail(u) \in Seq(T) /\ Len(Tail(u)) = Len(u) - 1 /\ Len(u) \in Nat
      /\ Head(u) = u[1]
      /\ \A i \in 1..(Len(u) - 1) : Tail(u)[i] = u[i + 1]
  OBVIOUS
<1>2. 1 \in 1..Len(u)
  OBVIOUS
<1>3. QED
  BY <1>1, <1>2

\* The elements after the first m, up to the n-th.
LEMMA PieceIs ==
  ASSUME NEW T, NEW u \in Seq(T), NEW m \in Nat, NEW n \in Nat, m <= n, n <= Len(u)
  PROVE  /\ SubSeq(u, m + 1, n) \in Seq(T) /\ Len(SubSeq(u, m + 1, n)) = n - m
         /\ \A i \in 1..(n - m) : SubSeq(u, m + 1, n)[i] = u[m + i]
<1>1. PICK w : w = SubSeq(u, m + 1, n)
  OBVIOUS
<1>2. w \in Seq(T) /\ Len(w) = n - m
  BY <1>1
<1>3. \A i \in 1..(n - m) : w[i] = u[m + i]
  BY <1>1
<1>4. QED
  BY <1>1, <1>2, <1>3

\* A sum and a byte give a sum.
LEMMA CrcStepIs ==
  ASSUME NEW crc \in Nat, NEW byte \in Nat
  PROVE  CrcStep(crc, byte) \in 0..(CHECK_VALUES - 1) /\ CrcStep(crc, byte) \in Nat
BY DEF CrcStep, CHECK_VALUES

\* c[k] is the sum when k bytes have been added.
Sums(bytes, base, c) ==
  /\ c \in [0..Len(bytes) -> Nat] /\ c[0] = base
  /\ \A k \in 1..Len(bytes) : c[k] = CrcStep(c[k - 1], bytes[k])

\* The sums are what is folded, step by step.
LEMMA CrcFold ==
  ASSUME NEW bytes \in Seq(Nat), NEW base \in Nat
  PROVE  \E c : Sums(bytes, base, c) /\ xz_crc32(bytes, base) = c[Len(bytes)]
<1> DEFINE n == Len(bytes)
           Is(g) == g = [is \in SUBSET (1..n) |->
                    IF is = {} THEN base ELSE CrcStep(g[is \ {Max(is)}], bytes[Max(is)])]
           f == CHOOSE g : Is(g)
<1>1. xz_crc32(bytes, base) = f[1..n]
  <2>1. DOMAIN bytes = 1..n
    OBVIOUS
  <2>2. QED
    BY <2>1 DEF xz_crc32, FoldLeft, MapThenFoldSet
<1>2. PICK op \in [Nat \X Nat -> Nat] : \A e \in Nat, x \in Nat : op[<<e, x>>] = CrcStep(e, x)
  <2> DEFINE o == [p \in Nat \X Nat |-> CrcStep(p[1], p[2])]
  <2>1. ASSUME NEW e \in Nat, NEW x \in Nat PROVE CrcStep(e, x) \in Nat
    BY CrcStepIs DEF CHECK_VALUES
  <2>2. o \in [Nat \X Nat -> Nat] /\ \A e \in Nat, x \in Nat : o[<<e, x>>] = CrcStep(e, x)
    BY <2>1
  <2> HIDE DEF o
  <2>3. QED
    BY <2>2
<1>3. n \in Nat
  OBVIOUS
<1>4. PICK g : Folding(Nat, op, bytes, base, n, g)
  <2>1. n \in Nat /\ bytes \in [1..n -> Nat]
    OBVIOUS
  <2>2. QED
    BY <2>1, FoldExists
<1>5. ASSUME NEW is \in SUBSET (1..n)
      PROVE  g[is] = IF is = {} THEN base ELSE CrcStep(g[is \ {Max(is)}], bytes[Max(is)])
  <2>1. CASE is = {}
    BY <1>4, <2>1 DEF Folding, FoldStep
  <2>2. CASE is # {}
    <3>1. Max(is) \in 1..n /\ is \ {Max(is)} \in SUBSET (1..n)
      BY <1>3, <2>2, MaxOfIndices
    <3>2. g[is \ {Max(is)}] \in Nat /\ bytes[Max(is)] \in Nat
      BY <1>4, <3>1 DEF Folding
    <3>3. g[is] = op[<<g[is \ {Max(is)}], bytes[Max(is)]>>]
      BY <1>4, <2>2 DEF Folding, FoldStep
    <3>4. QED
      BY <1>2, <2>2, <3>2, <3>3
  <2>3. QED
    BY <2>1, <2>2
<1>6. Is(g)
  BY <1>4, <1>5 DEF Folding
<1>7. Is(f)
  <2> HIDE DEF Is
  <2>1. QED
    BY <1>6
<1>8. f[{}] = base
  <2>1. {} \in SUBSET (1..n)
    OBVIOUS
  <2> HIDE DEF f
  <2>2. QED
    BY <1>7, <2>1
<1>9. ASSUME NEW k \in Nat, k + 1 <= n PROVE f[1..(k + 1)] = CrcStep(f[1..k], bytes[k + 1])
  <2> HIDE DEF f
  <2>1. PICK is \in SUBSET (1..n) : is = 1..(k + 1)
    BY <1>3, <1>9, PrefixIs
  <2>2. is # {} /\ Max(is) = k + 1 /\ is \ {k + 1} = 1..k /\ k + 1 \in 1..n
    BY <1>3, <1>9, <2>1, PrefixIs
  <2>3. f[is] = CrcStep(f[1..k], bytes[k + 1])
    BY <1>7, <2>2
  <2>4. QED
    BY <2>1, <2>3
<1> DEFINE c == [k \in 0..n |-> f[1..k]]
           S == {k \in Nat : k <= n => f[1..k] \in Nat}
<1> HIDE DEF f
<1>10. 1..0 = {}
  OBVIOUS
<1>11. 0 \in S
  BY <1>8, <1>10
<1>12. ASSUME NEW k \in Nat, k \in S PROVE k + 1 \in S
  <2> SUFFICES ASSUME k + 1 <= n PROVE f[1..(k + 1)] \in Nat
    OBVIOUS
  <2>1. bytes[k + 1] \in Nat /\ f[1..k] \in Nat
    BY <1>12
  <2>2. CrcStep(f[1..k], bytes[k + 1]) \in Nat
    BY <2>1, CrcStepIs DEF CHECK_VALUES
  <2>3. QED
    BY <1>9, <2>2
<1>13. Nat \subseteq S
  <2> HIDE DEF S
  <2>1. QED
    BY <1>11, <1>12, SetInduction
<1>14. c \in [0..n -> Nat]
  BY <1>13
<1>15. ASSUME NEW k \in 1..n PROVE c[k] = CrcStep(c[k - 1], bytes[k])
  <2>1. k - 1 \in Nat /\ (k - 1) + 1 = k /\ k - 1 \in 0..n /\ k \in 0..n
    OBVIOUS
  <2>2. f[1..((k - 1) + 1)] = CrcStep(f[1..(k - 1)], bytes[(k - 1) + 1])
    BY <1>9, <2>1
  <2>3. QED
    BY <2>1, <2>2
<1>16. c[0] = base /\ c[n] = f[1..n]
  BY <1>8, <1>10
<1> HIDE DEF c
<1>17. Sums(bytes, base, c)
  BY <1>14, <1>15, <1>16 DEF Sums
<1>18. QED
  BY <1>1, <1>16, <1>17

\* There is one such sequence of sums.
LEMMA SumsAgree ==
  ASSUME NEW u, NEW v, NEW c, NEW e, NEW p, NEW q, Sums(u, p, c), Sums(v, q, e),
         NEW m \in Nat, NEW n \in Nat, m + n <= Len(u), n <= Len(v), Len(u) \in Nat, Len(v) \in Nat,
         c[m] = q, \A i \in 1..n : u[m + i] = v[i]
  PROVE  c[m + n] = e[n]
<1> DEFINE S == {k \in Nat : k <= n => c[m + k] = e[k]}
<1>1. 0 \in S
  BY DEF Sums
<1>2. ASSUME NEW k \in Nat, k \in S PROVE k + 1 \in S
  <2> SUFFICES ASSUME k + 1 <= n PROVE c[m + (k + 1)] = e[k + 1]
    OBVIOUS
  <2>1. m + (k + 1) \in 1..Len(u) /\ (m + (k + 1)) - 1 = m + k
    OBVIOUS
  <2>2. c[m + (k + 1)] = CrcStep(c[m + k], u[m + (k + 1)])
    BY <2>1 DEF Sums
  <2>3. k + 1 \in 1..Len(v) /\ (k + 1) - 1 = k /\ k + 1 \in 1..n
    OBVIOUS
  <2>4. e[k + 1] = CrcStep(e[k], v[k + 1])
    BY <2>3 DEF Sums
  <2>5. c[m + k] = e[k] /\ u[m + (k + 1)] = v[k + 1]
    BY <1>2, <2>3
  <2>6. QED
    BY <2>2, <2>4, <2>5
<1>3. n \in S
  <2> HIDE DEF S
  <2>1. QED
    BY <1>1, <1>2, SetInduction
<1>4. QED
  BY <1>3

\* A sum goes on where the last one ended.
LEMMA CrcConcat ==
  ASSUME NEW u \in Seq(Nat), NEW v \in Seq(Nat), NEW base \in Nat
  PROVE  xz_crc32(u \o v, base) = xz_crc32(v, xz_crc32(u, base))
<1>1. PICK w : w = u \o v
  OBVIOUS
<1>2. /\ w \in Seq(Nat) /\ Len(w) = Len(u) + Len(v)
      /\ \A i \in 1..Len(u) : w[i] = u[i]
      /\ \A i \in 1..Len(v) : w[Len(u) + i] = v[i]
  BY <1>1
<1>3. PICK c : Sums(w, base, c) /\ xz_crc32(w, base) = c[Len(w)]
  BY <1>2, CrcFold
<1>4. PICK e : Sums(u, base, e) /\ xz_crc32(u, base) = e[Len(u)]
  BY CrcFold
<1>5. e[Len(u)] \in Nat
  BY <1>4 DEF Sums
<1>6. PICK g : Sums(v, e[Len(u)], g) /\ xz_crc32(v, e[Len(u)]) = g[Len(v)]
  BY <1>5, CrcFold
<1>7. c[0 + Len(u)] = e[Len(u)]
  <2>1. PICK n \in Nat, m \in Nat : n = Len(u) /\ m = 0
    OBVIOUS
  <2>2. /\ m + n <= Len(w) /\ n <= Len(u) /\ Len(w) \in Nat /\ Len(u) \in Nat
        /\ \A i \in 1..n : w[m + i] = u[i]
        /\ Sums(w, base, c) /\ Sums(u, base, e) /\ c[m] = base
    BY <1>2, <1>3, <1>4, <2>1 DEF Sums
  <2>3. c[m + n] = e[n]
    BY <2>2, SumsAgree
  <2>4. QED
    BY <2>1, <2>3
<1>8. c[Len(u)] = e[Len(u)]
  BY <1>7
<1>9. c[Len(u) + Len(v)] = g[Len(v)]
  <2>1. PICK m \in Nat, n \in Nat, middle \in Nat : m = Len(u) /\ n = Len(v) /\ middle = e[m]
    BY <1>5
  <2>2. /\ m + n <= Len(w) /\ n <= Len(v) /\ Len(w) \in Nat /\ Len(v) \in Nat /\ Sums(v, middle, g) /\ c[m] = middle
        /\ \A i \in 1..n : w[m + i] = v[i]
        /\ w \in Seq(Nat) /\ Sums(w, base, c)
    BY <1>2, <1>3, <1>6, <1>8, <2>1
  <2>3. c[m + n] = g[n]
    BY <2>2, SumsAgree
  <2>4. QED
    BY <2>1, <2>3
<1>10. QED
  BY <1>1, <1>2, <1>3, <1>4, <1>6, <1>9

\* Nothing added; and a sum of bytes is one of CHECK_VALUES.
LEMMA CrcIs ==
  ASSUME NEW bytes \in Seq(Nat), NEW base \in 0..(CHECK_VALUES - 1)
  PROVE  /\ xz_crc32(<<>>, base) = base
         /\ xz_crc32(bytes, base) \in 0..(CHECK_VALUES - 1)
<1>1. base \in Nat /\ <<>> \in Seq(Nat) /\ Len(<<>>) = 0
  BY DEF CHECK_VALUES
<1>2. PICK c : Sums(<<>>, base, c) /\ xz_crc32(<<>>, base) = c[0]
  BY <1>1, CrcFold
<1>3. PICK e : Sums(bytes, base, e) /\ xz_crc32(bytes, base) = e[Len(bytes)]
  BY <1>1, CrcFold
<1>4. CASE Len(bytes) = 0
  BY <1>2, <1>3, <1>4 DEF Sums
<1>5. CASE Len(bytes) # 0
  <2>1. PICK n \in Nat : n = Len(bytes)
    OBVIOUS
  <2>2. n \in 1..n /\ n - 1 \in 0..n
    BY <1>5, <2>1
  <2>3. e \in [0..n -> Nat] /\ e[n] = CrcStep(e[n - 1], bytes[n]) /\ bytes[n] \in Nat
    BY <1>3, <2>1, <2>2 DEF Sums
  <2>4. CrcStep(e[n - 1], bytes[n]) \in 0..(CHECK_VALUES - 1)
    BY <2>2, <2>3, CrcStepIs
  <2>5. QED
    BY <1>2, <1>3, <2>1, <2>3, <2>4 DEF Sums
<1>6. QED
  BY <1>4, <1>5

\* A sum is written as two bytes.
LEMMA CrcFieldIs ==
  ASSUME NEW crc \in Nat
  PROVE  /\ CrcByte(crc, 0) \in Byte /\ CrcByte(crc, 1) \in Byte
         /\ CrcField(crc) = <<CrcByte(crc, 0), CrcByte(crc, 1)>>
         /\ CrcField(crc) \in Seq(Byte) /\ Len(CrcField(crc)) = CHECK_BYTES
<1>1. 16 ^ 0 = 1 /\ 16 ^ 1 = 16
  OBVIOUS
<1>2. CrcByte(crc, 0) \in Byte /\ CrcByte(crc, 1) \in Byte
  BY <1>1 DEF CrcByte, Byte
<1>3. CrcField(crc) = [k \in 1..2 |-> CrcByte(crc, k - 1)]
  BY DEF CrcField, CHECK_BYTES
<1>4. CrcField(crc) = <<CrcByte(crc, 0), CrcByte(crc, 1)>>
  <2>1. [k \in 1..2 |-> CrcByte(crc, k - 1)][1] = CrcByte(crc, 0)
        /\ [k \in 1..2 |-> CrcByte(crc, k - 1)][2] = CrcByte(crc, 1)
    OBVIOUS
  <2>2. QED
    BY <1>3, <2>1
<1>5. QED
  BY <1>2, <1>4 DEF CHECK_BYTES

-----------------------------------------------------------------------------
(* The invariant of types and buffers.                                     *)

HashType == [unpadded : Nat, uncompressed : Nat, crc32 : Seq(Nat \X Nat)]
IndexSequences == {"SEQ_INDEX_COUNT", "SEQ_INDEX_UNPADDED", "SEQ_INDEX_UNCOMPRESSED"}
HeaderType == [compressed : 0..VLI_UNKNOWN, uncompressed : 0..VLI_UNKNOWN, size : Nat]
CountsType == [compressed : Nat, uncompressed : Nat, count : Nat, hash : HashType]
IndexType == [sequence : IndexSequences, size : Nat, count : Nat, hash : HashType]
TempType == [size : Nat, buf : Seq(Byte)]
FilterType == [left : Nat, byte : Byte, ready : Seq(Byte), ended : BOOLEAN]
DecoderType ==
  [sequence : Sequences, pos : 0..VLI_BYTES_MAX, vli : Nat, crc : 0..(CHECK_VALUES - 1),
   in_start : Nat, out_start : Nat, check_type : {0, XZ_CHECK_CRC32}, allow_buf_error : BOOLEAN,
   block_header : HeaderType, block : CountsType, index : IndexType, temp : TempType,
   bcj_active : BOOLEAN, filter : FilterType]
BufType == [in_pos : Nat, in_size : Nat, out : Seq(Byte), room : Nat]

\* A decoder between two cases of the switch, and what it has to do with the buffers.
Typed(x, buf) ==
  /\ x \in DecoderType
  /\ x.in_start <= buf.in_pos /\ x.out_start <= Len(buf.out)
  /\ x.pos # 0 => x.sequence \in {"SEQ_BLOCK_CHECK", "SEQ_INDEX", "SEQ_INDEX_CRC32"}
  /\ Len(x.temp.buf) <= x.temp.size
  /\ Len(x.filter.ready) <= BcjHold + 1

InTemp == {"SEQ_STREAM_HEADER", "SEQ_BLOCK_HEADER", "SEQ_STREAM_FOOTER"}
AfterBlocks == {"SEQ_INDEX", "SEQ_INDEX_PADDING", "SEQ_INDEX_CRC32", "SEQ_STREAM_FOOTER"}

\* What more is known as long as all is well.
Going(x) ==
  /\ x.pos < VLI_BYTES_MAX
  /\ x.pos # 0 /\ x.sequence = "SEQ_BLOCK_CHECK" => x.check_type = XZ_CHECK_CRC32
  /\ x.sequence \in {"SEQ_STREAM_HEADER", "SEQ_STREAM_FOOTER"} => x.temp.size = STREAM_HEADER_SIZE
  /\ x.sequence = "SEQ_BLOCK_HEADER" => x.temp.size >= 8
  /\ x.sequence \notin InTemp => x.temp.buf = <<>>
  /\ x.index.count <= x.block.count
  /\ x.sequence = "SEQ_INDEX" /\ x.index.sequence # "SEQ_INDEX_COUNT" => x.index.count > 0
  /\ x.sequence \notin AfterBlocks => x.index.sequence = "SEQ_INDEX_COUNT" /\ x.index.count = 0

BufferOK(buf) ==
  /\ buf \in BufType
  /\ buf.in_pos <= buf.in_size /\ buf.in_size <= Len(input)

\* What the caller has been told, and where the call began.
CallInv ==
  /\ pc \in {"caller", "main"} /\ ret \in Results
  /\ idle \in 0..2 /\ s.allow_buf_error = (idle # 0)
  /\ (idle = 2) = (ret = "XZ_BUF_ERROR")
  /\ start \in [in_pos : Nat, out_pos : Nat]
  /\ pc = "main" => /\ ret \in {"none", "XZ_OK"}
                    /\ start.in_pos <= b.in_pos /\ start.out_pos <= Len(b.out)
  /\ s.index.count <= s.block.count \/ ret = "XZ_DATA_ERROR"
  /\ ret \in {"none", "XZ_OK", "XZ_BUF_ERROR"} => Going(s)

\* The inductive invariant of any stream.
TypeInv ==
  /\ input \in Seq(Byte)
  /\ BufferOK(b)
  /\ Typed(s, b)
  /\ CallInv

-----------------------------------------------------------------------------
(* How a step of dec_main() ends: it goes on, or the call returns.         *)

\* The buffers afterwards: input is taken, output is added.
Grows(buf) ==
  /\ BufferOK(buf)
  /\ buf.in_size = b.in_size /\ b.in_pos <= buf.in_pos
  /\ Len(b.out) <= Len(buf.out) /\ \A i \in 1..Len(b.out) : buf.out[i] = b.out[i]
  /\ buf.room + Len(buf.out) = b.room + Len(b.out)

Goes(x, buf) ==
  Typed(x, buf) /\ Grows(buf) /\ x.allow_buf_error = s.allow_buf_error /\ Going(x)

\* What a call waits for: input, or room for what is decoded.
Waits(x, buf) ==
  \/ buf.in_pos = buf.in_size
  \/ x.sequence = "SEQ_BLOCK_UNCOMPRESS" /\ buf.room = 0 /\ x.filter.ready # <<>>

Stops(x, buf, result) ==
  /\ Typed(x, buf) /\ Grows(buf) /\ x.allow_buf_error = s.allow_buf_error
  /\ result \in Errors \cup {"XZ_OK", "XZ_STREAM_END"}
  /\ result = "XZ_OK" => Going(x) /\ Waits(x, buf)
  /\ result # "XZ_DATA_ERROR" => x.index.count <= x.block.count

Outcome ==
  \/ \E x, buf : Continue(x, buf) /\ Goes(x, buf)
  \/ \E x, buf, result : Return(x, buf, result) /\ Stops(x, buf, result)

\* Within a call.
InMain == TypeInv /\ pc = "main"

\* What dec_main() finds.
LEMMA InMainIs ==
  ASSUME InMain
  PROVE  /\ Typed(s, b) /\ Going(s) /\ BufferOK(b) /\ input \in Seq(Byte) /\ Grows(b)
         /\ s \in DecoderType /\ b \in BufType /\ Goes(s, b)
<1>1. Typed(s, b) /\ Going(s) /\ BufferOK(b) /\ input \in Seq(Byte)
  BY DEF InMain, TypeInv, CallInv
<1>2. Grows(b)
  BY <1>1 DEF Grows, BufferOK, BufType
<1>3. QED
  BY <1>1, <1>2 DEF BufferOK, Typed, Goes

\* Input is taken.
LEMMA TakenIs ==
  ASSUME InMain, NEW n \in Nat, n <= b.in_size - b.in_pos
  PROVE  /\ Grows(Taken(n)) /\ Taken(n).in_pos = b.in_pos + n /\ Taken(n).out = b.out
         /\ Taken(n).in_size = b.in_size /\ Taken(n).room = b.room
<1>1. BufferOK(b) /\ b \in BufType
  BY InMainIs
<1>2. /\ Taken(n) \in BufType /\ Taken(n).in_pos = b.in_pos + n /\ Taken(n).out = b.out
      /\ Taken(n).in_size = b.in_size /\ Taken(n).room = b.room
  BY <1>1 DEF Taken, BufType
<1>3. QED
  BY <1>1, <1>2 DEF Grows, BufferOK, BufType

\* The next byte.
LEMMA NextByte ==
  ASSUME InMain, More
  PROVE  /\ Next1 \in Byte /\ Grows(Taken(1)) /\ Taken(1).in_pos = b.in_pos + 1
         /\ Taken(1).out = b.out /\ Taken(1).in_size = b.in_size /\ Taken(1).room = b.room
<1>1. /\ b.in_pos \in Nat /\ b.in_size \in Nat /\ b.in_size <= Len(input) /\ input \in Seq(Byte)
      /\ b.in_pos < b.in_size
  BY InMainIs DEF BufferOK, BufType, More
<1>2. b.in_pos + 1 \in 1..Len(input)
  BY <1>1
<1>3. Next1 \in Byte
  BY <1>1, <1>2 DEF Next1
<1>4. 1 <= b.in_size - b.in_pos
  BY <1>1
<1>5. QED
  BY <1>3, <1>4, TakenIs

\* Nothing more is there: the call waits as it is.
LEMMA WaitsOK ==
  ASSUME InMain, ~More, Return(s, b, "XZ_OK")
  PROVE  Outcome
<1>1. b.in_pos = b.in_size
  BY InMainIs DEF More, BufferOK, BufType
<1>2. Stops(s, b, "XZ_OK")
  BY <1>1, InMainIs DEF Stops, Going, Waits
<1>3. QED
  BY <1>2 DEF Outcome

\* Waiting in any of the states that do so.
LEMMA WaitForInputOK ==
  ASSUME InMain, NEW sequences, WaitForInput(sequences)
  PROVE  Outcome
BY WaitsOK DEF WaitForInput

\* fill_temp()
LEMMA TempIs ==
  ASSUME InMain, s.sequence \in {"SEQ_STREAM_HEADER", "SEQ_BLOCK_HEADER", "SEQ_STREAM_FOOTER"}, TempFills
  PROVE  /\ Missing \in Nat /\ Grows(Taken(Missing)) /\ Taken(Missing).in_pos = b.in_pos + Missing
         /\ Taken(Missing).out = b.out /\ Taken(Missing).room = b.room
         /\ Taken(Missing).in_size = b.in_size
         /\ TempFilled \in Seq(Byte) /\ Len(TempFilled) = s.temp.size
<1>1. /\ s.temp.size \in Nat /\ s.temp.buf \in Seq(Byte) /\ Len(s.temp.buf) <= s.temp.size
  BY InMainIs DEF Typed, DecoderType, TempType
<1>2. Missing \in Nat /\ Missing = s.temp.size - Len(s.temp.buf)
  BY <1>1 DEF Missing
<1>3. Missing <= b.in_size - b.in_pos
  BY DEF TempFills
<1>4. /\ b.in_pos \in Nat /\ b.in_size \in Nat /\ b.in_size <= Len(input) /\ input \in Seq(Byte)
  BY InMainIs DEF BufferOK, BufType
<1>5. PICK w : w = SubSeq(input, b.in_pos + 1, b.in_pos + Missing)
  OBVIOUS
<1>6. w \in Seq(Byte) /\ Len(w) = Missing
  BY <1>2, <1>3, <1>4, <1>5, SMTT(30)
<1>7. TempFilled \in Seq(Byte) /\ Len(TempFilled) = s.temp.size
  BY <1>1, <1>2, <1>5, <1>6 DEF TempFilled
<1>8. QED
  BY <1>2, <1>3, <1>7, TakenIs

\* fill_temp(), when the buffer does not get full.
LEMMA FillSomeOK ==
  ASSUME InMain, FillSome
  PROVE  Outcome
<1> DEFINE x == [s EXCEPT !.temp.buf = @ \o SubSeq(input, b.in_pos + 1, b.in_size)]
           buf == [b EXCEPT !.in_pos = b.in_size]
<1>1. s \in DecoderType /\ s.temp \in TempType /\ Len(s.temp.buf) <= s.temp.size
  BY InMainIs DEF Typed, DecoderType
<1>2. /\ s.temp.size \in Nat /\ s.temp.buf \in Seq(Byte)
      /\ b.in_pos \in Nat /\ b.in_size \in Nat /\ b.in_size <= Len(input) /\ input \in Seq(Byte)
      /\ b.in_pos <= b.in_size
  BY <1>1, InMainIs DEF BufferOK, BufType, TempType
<1>3. PICK u : u = SubSeq(input, b.in_pos + 1, b.in_size)
  OBVIOUS
<1>4. u \in Seq(Byte) /\ Len(u) = b.in_size - b.in_pos
  BY <1>2, <1>3
<1>5. b.in_size - b.in_pos < s.temp.size - Len(s.temp.buf)
  BY <1>1, <1>2 DEF FillSome, TempFills, Missing
<1>6. PICK v : v = s.temp.buf \o u
  OBVIOUS
<1>7. v \in Seq(Byte) /\ Len(v) <= s.temp.size
  <2>1. PICK w \in Seq(Byte) : w = s.temp.buf
    BY <1>2
  <2>2. v \in Seq(Byte) /\ Len(v) = Len(w) + Len(u)
    BY <1>4, <1>6, <2>1, ConcatIs
  <2>3. QED
    BY <1>2, <1>4, <1>5, <2>1, <2>2
<1>8. x = [s EXCEPT !.temp.buf = v]
  BY <1>3, <1>6
<1> HIDE DEF x
<1>9. PICK y : y = [s.temp EXCEPT !.buf = v]
  OBVIOUS
<1>10. y \in TempType /\ y.buf = v /\ y.size = s.temp.size
  BY <1>1, <1>7, <1>9 DEF TempType
<1>11. x = [s EXCEPT !.temp = y]
  BY <1>8, <1>9
<1>12. /\ buf \in BufType /\ buf.in_pos = b.in_size /\ buf.out = b.out /\ buf.in_size = b.in_size
       /\ buf.room = b.room
  BY <1>2, InMainIs DEF BufType
<1>13. Return(x, buf, "XZ_OK")
  BY DEF FillSome, x
<1> HIDE DEF buf
<1>14. Grows(buf)
  BY <1>2, <1>12, InMainIs DEF Grows, BufferOK, BufType
<1>15. /\ x \in DecoderType /\ x.temp = y
       /\ x.sequence = s.sequence /\ x.pos = s.pos /\ x.index = s.index /\ x.block = s.block
       /\ x.in_start = s.in_start /\ x.out_start = s.out_start /\ x.filter = s.filter
       /\ x.allow_buf_error = s.allow_buf_error
  BY <1>1, <1>10, <1>11 DEF DecoderType
<1>16. Typed(x, buf)
  BY <1>2, <1>7, <1>10, <1>12, <1>15, InMainIs DEF Typed, DecoderType
<1>17. Going(x)
  <2>1. s.sequence \in InTemp /\ s.sequence # "SEQ_BLOCK_CHECK"
    BY DEF FillSome, InTemp
  <2>2. QED
    BY <1>10, <1>15, <2>1, InMainIs DEF Going
<1>18. Stops(x, buf, "XZ_OK")
  BY <1>12, <1>14, <1>15, <1>16, <1>17, InMainIs DEF Stops, Going, Waits
<1>19. QED
  BY <1>13, <1>18 DEF Outcome

\* The cases of the switch, one by one.
LEMMA StreamHeaderOK ==
  ASSUME InMain, StreamHeader
  PROVE  Outcome
<1> DEFINE result == dec_stream_header(TempFilled)
           xz == [s EXCEPT !.temp.buf = <<>>, !.sequence = "SEQ_BLOCK_START"]
           x == [xz EXCEPT !.check_type = TempFilled[3]]
<1>1. /\ s \in DecoderType /\ s.temp \in TempType /\ s.sequence = "SEQ_STREAM_HEADER" /\ TempFills
      /\ Typed(s, b) /\ Going(s) /\ b \in BufType
  BY InMainIs DEF Typed, DecoderType, StreamHeader, At
<1>2. PICK n, buf : n = Missing /\ buf = Taken(n)
  OBVIOUS
<1>3. /\ n \in Nat /\ Grows(buf) /\ buf.in_pos = b.in_pos + n /\ buf.out = b.out
      /\ TempFilled \in Seq(Byte) /\ Len(TempFilled) = 5
  BY <1>1, <1>2, TempIs DEF Going, STREAM_HEADER_SIZE
<1>4. TempFilled[3] \in Byte
  <2>1. 3 \in 1..Len(TempFilled)
    BY <1>3
  <2>2. QED
    BY <1>3, <2>1, ElementIs
<1>5. PICK y : y = [s.temp EXCEPT !.buf = <<>>]
  OBVIOUS
<1>6. y \in TempType /\ y.buf = <<>> /\ y.size = s.temp.size /\ y.size \in Nat
  <2>1. s.temp = [size |-> s.temp.size, buf |-> s.temp.buf] /\ s.temp.size \in Nat
    BY <1>1 DEF TempType
  <2>2. y = [size |-> s.temp.size, buf |-> <<>>]
    BY <1>5, <2>1
  <2>3. QED
    BY <2>1, <2>2 DEF TempType
<1>7. xz = [s EXCEPT !.temp = y, !.sequence = "SEQ_BLOCK_START"]
  BY <1>5
<1> HIDE DEF xz
<1>8. /\ xz \in DecoderType /\ xz.temp = y /\ xz.sequence = "SEQ_BLOCK_START"
      /\ xz.pos = s.pos /\ xz.index = s.index /\ xz.block = s.block
      /\ xz.in_start = s.in_start /\ xz.out_start = s.out_start /\ xz.filter = s.filter
      /\ xz.allow_buf_error = s.allow_buf_error
  BY <1>1, <1>6, <1>7 DEF DecoderType, Sequences
<1>9. s.pos = 0
  BY <1>1 DEF Typed
<1>10. b.in_pos \in Nat /\ s.in_start \in Nat
  BY <1>1 DEF BufType, DecoderType
<1>11. Typed(xz, buf)
  BY <1>1, <1>3, <1>6, <1>8, <1>9, <1>10 DEF Typed
<1>12. CASE result = "XZ_OK"
  <2>1. Continue(x, buf)
    BY <1>2, <1>12 DEF StreamHeader, xz
  <2>2. TempFilled[3] \in {0, XZ_CHECK_CRC32}
    BY <1>4, <1>12 DEF dec_stream_header, XZ_CHECK_CRC32, Byte
  <2>3. /\ x \in DecoderType /\ x.temp = y /\ x.sequence = "SEQ_BLOCK_START"
        /\ x.pos = s.pos /\ x.index = s.index /\ x.block = s.block
        /\ x.in_start = s.in_start /\ x.out_start = s.out_start /\ x.filter = s.filter
        /\ x.allow_buf_error = s.allow_buf_error
    BY <1>8, <2>2 DEF DecoderType
  <2> HIDE DEF x
  <2>4. Typed(x, buf)
    BY <1>1, <1>3, <1>6, <2>3, <1>9, <1>10 DEF Typed
  <2>5. Going(x)
    BY <1>1, <1>6, <2>3 DEF Going, AfterBlocks, InTemp
  <2>6. QED
    BY <1>3, <2>1, <2>3, <2>4, <2>5 DEF Outcome, Goes
<1>13. CASE result # "XZ_OK"
  <2>1. Return(xz, buf, result)
    BY <1>2, <1>13 DEF StreamHeader, xz
  <2>2. result \in {"XZ_FORMAT_ERROR", "XZ_DATA_ERROR", "XZ_OPTIONS_ERROR"}
    BY <1>13 DEF dec_stream_header
  <2>3. Stops(xz, buf, result)
    <3> HIDE DEF result
    <3>1. QED
      BY <1>1, <1>3, <1>8, <1>11, <2>2 DEF Stops, Errors, Going
  <2> HIDE DEF result
  <2>4. QED
    BY <2>1, <2>3 DEF Outcome
<1>14. QED
  BY <1>12, <1>13

\* The first byte of a Block, or of the Index.
LEMMA BlockStartOK ==
  ASSUME InMain, BlockStart
  PROVE  Outcome
<1>1. /\ s \in DecoderType /\ s.sequence = "SEQ_BLOCK_START" /\ More /\ s.pos = 0
      /\ Typed(s, b) /\ Going(s) /\ b \in BufType /\ b.in_pos \in Nat /\ b.out \in Seq(Byte)
  BY InMainIs DEF Typed, DecoderType, BlockStart, At, BufType
<1>2. /\ Next1 \in Byte /\ Grows(Taken(1)) /\ Taken(1).in_pos = b.in_pos + 1 /\ Taken(1).out = b.out
  BY <1>1, NextByte
<1>3. CASE Next1 = 0
  <2> DEFINE x == [s EXCEPT !.in_start = b.in_pos, !.sequence = "SEQ_INDEX"]
             buf == Taken(1)
  <2>1. Continue(x, buf)
    BY <1>3 DEF BlockStart
  <2> HIDE DEF buf
  <2>2. /\ x \in DecoderType /\ x.temp = s.temp /\ x.sequence = "SEQ_INDEX"
        /\ x.pos = s.pos /\ x.index = s.index /\ x.block = s.block
        /\ x.in_start = b.in_pos /\ x.out_start = s.out_start /\ x.filter = s.filter
        /\ x.allow_buf_error = s.allow_buf_error
    BY <1>1 DEF DecoderType, Sequences
  <2> HIDE DEF x
  <2>3. Typed(x, buf)
    BY <1>1, <1>2, <2>2 DEF Typed, buf
  <2>4. Going(x)
    BY <1>1, <2>2 DEF Going, AfterBlocks, InTemp
  <2>5. QED
    BY <1>2, <2>1, <2>2, <2>3, <2>4 DEF Outcome, Goes, buf
<1>4. CASE Next1 # 0
  <2> DEFINE size == (Next1 + 1) * 4
             x == [s EXCEPT !.block_header.size = size, !.temp = [size |-> size, buf |-> <<>>],
                            !.sequence = "SEQ_BLOCK_HEADER"]
  <2>1. Continue(x, b)
    BY <1>4 DEF BlockStart
  <2>2. size \in Nat /\ size >= 8
    BY <1>2, <1>4 DEF Byte
  <2> HIDE DEF size
  <2>3. PICK y, h : y = [size |-> size, buf |-> <<>>] /\ h = [s.block_header EXCEPT !.size = size]
    OBVIOUS
  <2>4. y \in TempType /\ h \in HeaderType
    BY <1>1, <2>2, <2>3 DEF DecoderType, TempType, HeaderType
  <2>5. x = [s EXCEPT !.block_header = h, !.temp = y, !.sequence = "SEQ_BLOCK_HEADER"]
    BY <2>3
  <2> HIDE DEF x
  <2>6. /\ x \in DecoderType /\ x.temp = y /\ x.sequence = "SEQ_BLOCK_HEADER"
        /\ x.pos = s.pos /\ x.index = s.index /\ x.block = s.block
        /\ x.in_start = s.in_start /\ x.out_start = s.out_start /\ x.filter = s.filter
        /\ x.allow_buf_error = s.allow_buf_error
    BY <1>1, <2>4, <2>5 DEF DecoderType, Sequences
  <2>7. Typed(x, b)
    BY <1>1, <2>2, <2>3, <2>6 DEF Typed
  <2>8. Going(x)
    BY <1>1, <2>2, <2>3, <2>6 DEF Going, AfterBlocks, InTemp
  <2>9. QED
    BY InMainIs, <2>1, <2>6, <2>7, <2>8 DEF Outcome, Goes
<1>5. QED
  BY <1>3, <1>4

\* dec_vli() on a complete buffer keeps to what a VLI can hold.
LEMMA VliAtIs ==
  ASSUME NEW buf \in Seq(Byte), NEW p \in Nat
  PROVE  VliAt(buf, p).value \in Vli /\ VliAt(buf, p).next \in Nat
<1>1. CASE p = 0 \/ p > Len(buf)
  BY <1>1 DEF VliAt, Vli, VLI_UNKNOWN
<1>2. CASE ~(p = 0 \/ p > Len(buf)) /\ buf[p] < VLI_BASE
  <2>1. buf[p] \in Byte
    BY <1>2, ElementIs
  <2>2. VliAt(buf, p) = [value |-> buf[p], next |-> p + 1]
    BY <1>2 DEF VliAt
  <2>3. QED
    BY <2>1, <2>2 DEF Vli, VLI_UNKNOWN, Byte
<1>3. CASE ~(p = 0 \/ p > Len(buf)) /\ ~(buf[p] < VLI_BASE)
  <2>1. CASE p + 1 > Len(buf) \/ buf[p + 1] >= VLI_BASE \/ buf[p + 1] = 0
    BY <1>3, <2>1 DEF VliAt, Vli, VLI_UNKNOWN
  <2>2. CASE ~(p + 1 > Len(buf) \/ buf[p + 1] >= VLI_BASE \/ buf[p + 1] = 0)
    <3>1. p \in 1..Len(buf) /\ p + 1 \in 1..Len(buf)
      BY <1>3, <2>2
    <3>2. buf[p] \in Byte /\ buf[p + 1] \in Byte
      BY <3>1, ElementIs
    <3>3. VliAt(buf, p) = [value |-> buf[p] - VLI_BASE + VLI_BASE * buf[p + 1], next |-> p + 2]
      BY <1>3, <2>2 DEF VliAt
    <3>4. PICK v, w : v = buf[p] /\ w = buf[p + 1]
      OBVIOUS
    <3>5. v - VLI_BASE + VLI_BASE * w \in Vli
      <4>1. v \in Byte /\ w \in Byte /\ ~(v < VLI_BASE) /\ ~(w >= VLI_BASE)
        BY <1>3, <2>2, <3>2, <3>4
      <4>2. QED
        BY <4>1 DEF Vli, VLI_UNKNOWN, VLI_BASE, Byte
    <3>6. QED
      BY <3>3, <3>4, <3>5
  <2>3. QED
    BY <2>1, <2>2
<1>4. QED
  BY <1>1, <1>2, <1>3

\* dec_block_header() gives one of four results, and sizes that a VLI can hold.
LEMMA ParseIs ==
  ASSUME NEW buf \in Seq(Byte)
  PROVE  /\ ParseBlockHeader(buf).result
              \in {"XZ_OK", "XZ_OPTIONS_ERROR", "XZ_DATA_ERROR", "XZ_MEMLIMIT_ERROR"}
         /\ ParseBlockHeader(buf).compressed \in 0..VLI_UNKNOWN
         /\ ParseBlockHeader(buf).uncompressed \in 0..VLI_UNKNOWN
         /\ ParseBlockHeader(buf).bcj \in BOOLEAN
<1> DEFINE Field(bit, p) == IF HasBit(buf[2], bit) THEN VliAt(buf, p)
                                               ELSE [value |-> VLI_UNKNOWN, next |-> p]
           compressed == Field(2, 3)
           uncompressed == Field(4, compressed.next)
<1>1. ASSUME NEW bit, NEW p \in Nat
      PROVE  Field(bit, p).value \in 0..VLI_UNKNOWN /\ Field(bit, p).next \in Nat
  BY <1>1, VliAtIs DEF Vli, VLI_UNKNOWN
<1>2. compressed.value \in 0..VLI_UNKNOWN /\ compressed.next \in Nat
  BY <1>1
<1>3. uncompressed.value \in 0..VLI_UNKNOWN
  <2> HIDE DEF compressed, Field
  <2>1. QED
    BY <1>1, <1>2
<1>4. /\ ParseBlockHeader(buf).compressed = compressed.value
      /\ ParseBlockHeader(buf).uncompressed = uncompressed.value
      /\ ParseBlockHeader(buf).bcj = HasBit(buf[2], 1)
  BY DEF ParseBlockHeader
<1>5. ParseBlockHeader(buf).result
        \in {"XZ_OK", "XZ_OPTIONS_ERROR", "XZ_DATA_ERROR", "XZ_MEMLIMIT_ERROR"}
  BY DEF ParseBlockHeader
<1>6. QED
  <2> HIDE DEF compressed, uncompressed
  <2>1. QED
    BY <1>2, <1>3, <1>4, <1>5 DEF HasBit

HeaderRead(n, buf, y, size, bytes, xz) ==
  /\ n = Missing /\ buf = Taken(n) /\ size = s.temp.size - CHECK_BYTES
  /\ bytes = SubSeq(TempFilled, 1, size) /\ bytes \in Seq(Byte) /\ Len(bytes) = size
  /\ xz = [s EXCEPT !.temp = [size |-> size, buf |-> <<>>]]
  /\ n \in Nat /\ Grows(buf) /\ buf.in_pos = b.in_pos + n /\ buf.out = b.out
  /\ size \in Nat
  /\ xz = [s EXCEPT !.temp = y] /\ y \in TempType /\ y.size = size /\ y.buf = <<>>
  /\ xz \in DecoderType /\ xz.temp = y
  /\ xz.index = s.index /\ xz.block = s.block /\ xz.allow_buf_error = s.allow_buf_error
  /\ Typed(xz, buf)
  /\ \A error \in Errors : Stops(xz, buf, error)

\* A Block Header is in the buffer.
LEMMA HeaderIs ==
  ASSUME InMain, At("SEQ_BLOCK_HEADER"), TempFills
  PROVE  \E n, buf, y, size, bytes, xz : HeaderRead(n, buf, y, size, bytes, xz)
<1>1. /\ s \in DecoderType /\ s.sequence = "SEQ_BLOCK_HEADER" /\ s.pos = 0
      /\ Typed(s, b) /\ Going(s) /\ b \in BufType /\ b.in_pos \in Nat /\ b.out \in Seq(Byte)
      /\ s.in_start \in Nat
  BY InMainIs DEF Typed, DecoderType, At, BufType
<1>2. PICK n, buf, size : n = Missing /\ buf = Taken(n) /\ size = s.temp.size - CHECK_BYTES
  OBVIOUS
<1>3. /\ n \in Nat /\ Grows(buf) /\ buf.in_pos = b.in_pos + n /\ buf.out = b.out
      /\ TempFilled \in Seq(Byte) /\ Len(TempFilled) = s.temp.size
  BY <1>1, <1>2, TempIs
<1>4. s.temp.size \in Nat /\ s.temp.size >= 8
  BY <1>1 DEF DecoderType, TempType, Going
<1>5. size \in Nat /\ size <= Len(TempFilled)
  BY <1>2, <1>3, <1>4 DEF CHECK_BYTES
<1>6. PICK bytes : bytes = SubSeq(TempFilled, 1, size)
  OBVIOUS
<1>7. bytes \in Seq(Byte) /\ Len(bytes) = size
  <2>1. PICK t \in Seq(Byte) : t = TempFilled
    BY <1>3
  <2>2. bytes = SubSeq(t, 1, size) /\ size <= Len(t)
    BY <1>5, <1>6, <2>1
  <2>3. QED
    BY <1>5, <2>2
<1>8. PICK y, xz : y = [size |-> size, buf |-> <<>>] /\ xz = [s EXCEPT !.temp = y]
  OBVIOUS
<1>9. y \in TempType /\ y.size = size /\ y.buf = <<>>
  BY <1>5, <1>8 DEF TempType
<1>10. /\ xz \in DecoderType /\ xz.temp = y /\ xz.sequence = s.sequence
       /\ xz.pos = s.pos /\ xz.index = s.index /\ xz.block = s.block
       /\ xz.in_start = s.in_start /\ xz.out_start = s.out_start /\ xz.filter = s.filter
       /\ xz.allow_buf_error = s.allow_buf_error
  BY <1>1, <1>8, <1>9 DEF DecoderType
<1>11. Typed(xz, buf)
  BY <1>1, <1>3, <1>5, <1>9, <1>10 DEF Typed
<1>12. ASSUME NEW error \in Errors PROVE Stops(xz, buf, error)
  BY <1>1, <1>3, <1>10, <1>11 DEF Stops, Errors, Going
<1>13. QED
  BY <1>2, <1>3, <1>5, <1>6, <1>7, <1>8, <1>9, <1>10, <1>11, <1>12 DEF HeaderRead

\* xz_dec_lzma2_reset() finds no memory.
LEMMA NoMemoryOK ==
  ASSUME InMain, NoMemory
  PROVE  Outcome
<1>1. At("SEQ_BLOCK_HEADER") /\ TempFills
  BY DEF NoMemory
<1>2. PICK n, buf, y, size, bytes, xz : HeaderRead(n, buf, y, size, bytes, xz)
  BY <1>1, HeaderIs
<1>3. Return(xz, buf, "XZ_MEM_ERROR") /\ "XZ_MEM_ERROR" \in Errors
  BY <1>2 DEF NoMemory, Errors, HeaderRead
<1>4. QED
  BY <1>2, <1>3 DEF Outcome, HeaderRead

\* A Block Header is complete.
LEMMA DecBlockHeaderOK ==
  ASSUME InMain, DecBlockHeader
  PROVE  Outcome
<1>1. At("SEQ_BLOCK_HEADER") /\ TempFills
  BY DEF DecBlockHeader
<1>2. PICK n, buf, y, size, bytes, xz : HeaderRead(n, buf, y, size, bytes, xz)
  BY <1>1, HeaderIs
<1> USE DEF HeaderRead
<1> DEFINE header == ParseBlockHeader(bytes)
           x == [xz EXCEPT
                  !.block_header = [size |-> @.size, compressed |-> header.compressed,
                                    uncompressed |-> header.uncompressed],
                  !.block.compressed = 0, !.block.uncompressed = 0,
                  !.bcj_active = header.bcj,
                  !.filter = NewFilter,
                  !.in_start = b.in_pos + n, !.out_start = Len(b.out),
                  !.sequence = "SEQ_BLOCK_UNCOMPRESS"]
<1>3. PICK crcs : crcs = (CrcField(xz_crc32(bytes, 0)) # SubSeq(TempFilled, size + 1, s.temp.size))
  OBVIOUS
<1>4. IF crcs THEN Return(xz, buf, "XZ_DATA_ERROR")
      ELSE IF header.result # "XZ_OK" THEN Return(xz, buf, header.result)
      ELSE IF ~header.padded THEN Return(xz, buf, "XZ_OPTIONS_ERROR")
      ELSE Continue(x, buf)
  BY <1>2, <1>3 DEF DecBlockHeader
<1>5. /\ header.result \in {"XZ_OK", "XZ_OPTIONS_ERROR", "XZ_DATA_ERROR", "XZ_MEMLIMIT_ERROR"}
      /\ header.compressed \in 0..VLI_UNKNOWN /\ header.uncompressed \in 0..VLI_UNKNOWN
      /\ header.bcj \in BOOLEAN
  BY <1>2, ParseIs
<1> HIDE DEF header
<1>6. PICK h, k : /\ h = [size |-> xz.block_header.size, compressed |-> header.compressed,
                          uncompressed |-> header.uncompressed]
                  /\ k = [xz.block EXCEPT !.compressed = 0, !.uncompressed = 0]
  OBVIOUS
<1>7. /\ x = [xz EXCEPT !.block_header = h, !.block = k, !.bcj_active = header.bcj,
                        !.filter = NewFilter, !.in_start = b.in_pos + n, !.out_start = Len(b.out),
                        !.sequence = "SEQ_BLOCK_UNCOMPRESS"]
  BY <1>6
<1> HIDE DEF x
<1>8. h \in HeaderType /\ k \in CountsType /\ k.count = xz.block.count
  <2>1. xz.block_header \in HeaderType /\ xz.block \in CountsType
    BY <1>2 DEF DecoderType
  <2>2. QED
    BY <1>5, <1>6, <2>1 DEF HeaderType, CountsType
<1>9. NewFilter \in FilterType /\ NewFilter.ready = <<>> /\ Len(<<>>) = 0
  BY DEF NewFilter, FilterType, Byte
<1>10. b \in BufType /\ b.in_pos \in Nat /\ b.out \in Seq(Byte) /\ Len(b.out) \in Nat /\ b.in_pos + n \in Nat
  BY <1>2, InMainIs DEF BufType
<1>11. /\ x \in DecoderType /\ x.temp = y /\ x.sequence = "SEQ_BLOCK_UNCOMPRESS"
       /\ x.pos = xz.pos /\ x.index = s.index /\ x.block = k
       /\ x.in_start = b.in_pos + n /\ x.out_start = Len(b.out) /\ x.filter = NewFilter
       /\ x.allow_buf_error = s.allow_buf_error
  BY <1>2, <1>5, <1>7, <1>8, <1>9, <1>10 DEF DecoderType, Sequences
<1>12. s.pos = 0 /\ xz.pos = s.pos
  <2>1. s \in DecoderType /\ s.pos = 0
    BY <1>1, InMainIs DEF Typed, At
  <2>2. QED
    BY <1>2, <2>1 DEF DecoderType
<1>13. Typed(x, buf)
  BY <1>2, <1>9, <1>10, <1>11, <1>12, BcjAssumption DEF Typed
<1>14. Going(x)
  <2>1. s.index.count <= s.block.count /\ s.index.sequence = "SEQ_INDEX_COUNT" /\ s.index.count = 0
    BY <1>1, InMainIs DEF Going, AfterBlocks, InTemp, At
  <2>2. QED
    BY <1>2, <1>8, <1>11, <1>12, <2>1 DEF Going, AfterBlocks, InTemp, VLI_BYTES_MAX
<1>15. CASE crcs \/ header.result # "XZ_OK" \/ ~header.padded
  <2>1. PICK error \in Errors : Return(xz, buf, error)
    BY <1>4, <1>5, <1>15 DEF Errors
  <2>2. QED
    BY <1>2, <2>1 DEF Outcome
<1>16. CASE ~(crcs \/ header.result # "XZ_OK" \/ ~header.padded)
  BY <1>2, <1>4, <1>11, <1>13, <1>14, <1>16 DEF Outcome, Goes
<1>17. QED
  BY <1>15, <1>16

\* Bytes are numbers.
LEMMA BytesAreNumbers ==
  ASSUME NEW u \in Seq(Byte)
  PROVE  u \in Seq(Nat)
<1>1. \A i \in 1..Len(u) : u[i] \in Nat
  BY DEF Byte
<1>2. QED
  BY <1>1

\* A CRC over a piece of a buffer.
LEMMA CrcOK ==
  ASSUME NEW u \in Seq(Byte), NEW m \in Nat, NEW n \in Nat, m <= n, n <= Len(u),
         NEW base \in 0..(CHECK_VALUES - 1)
  PROVE  xz_crc32(SubSeq(u, m + 1, n), base) \in 0..(CHECK_VALUES - 1)
<1>1. SubSeq(u, m + 1, n) \in Seq(Byte)
  BY PieceIs
<1>2. QED
  BY <1>1, BytesAreNumbers, CrcIs

\* The rest of dec_block(), whatever the filters returned.
LEMMA BlockReturnOK ==
  ASSUME InMain, At("SEQ_BLOCK_UNCOMPRESS"), NEW buf, Grows(buf), NEW result,
         result \in {"XZ_OK", "XZ_DATA_ERROR", "XZ_STREAM_END"},
         result = "XZ_OK" => Waits(s, buf),
         BlockReturn(s, buf, result)
  PROVE  Outcome
<1> DEFINE compressed == s.block.compressed + buf.in_pos - s.in_start
           uncompressed == s.block.uncompressed + Len(buf.out) - s.out_start
           header == s.block_header
           crc == IF s.check_type = XZ_CHECK_CRC32
                  THEN xz_crc32(SubSeq(buf.out, s.out_start + 1, Len(buf.out)), s.crc) ELSE s.crc
           counted == [s EXCEPT !.block.compressed = compressed, !.block.uncompressed = uncompressed,
                            !.crc = crc]
           unpadded == s.block.hash.unpadded + header.size + compressed + CheckSize(s.check_type)
           total == s.block.hash.uncompressed + uncompressed
           hashed == [counted EXCEPT
                   !.block.hash = [unpadded |-> unpadded, uncompressed |-> total,
                                   crc32 |-> Append(@.crc32, <<unpadded, total>>)],
                   !.block.count = @ + 1, !.sequence = "SEQ_BLOCK_PADDING"]
           tooMuch == compressed > header.compressed \/ uncompressed > header.uncompressed
           differs == \/ header.compressed \notin {VLI_UNKNOWN, compressed}
                      \/ header.uncompressed \notin {VLI_UNKNOWN, uncompressed}
<1>1. /\ s \in DecoderType /\ s.sequence = "SEQ_BLOCK_UNCOMPRESS" /\ s.pos = 0
      /\ Typed(s, b) /\ Going(s) /\ b \in BufType /\ b.in_pos \in Nat /\ b.out \in Seq(Byte)
      /\ s.in_start \in Nat /\ s.out_start \in Nat /\ s.block \in CountsType
      /\ s.block_header \in HeaderType /\ s.crc \in 0..(CHECK_VALUES - 1)
      /\ s.in_start <= b.in_pos /\ s.out_start <= Len(b.out)
  BY InMainIs DEF Typed, DecoderType, At, BufType
<1>2. /\ buf.in_pos \in Nat /\ buf.out \in Seq(Byte) /\ s.in_start <= buf.in_pos
      /\ s.out_start <= Len(buf.out) /\ b.in_pos <= buf.in_pos /\ Len(b.out) <= Len(buf.out)
      /\ Len(buf.out) \in Nat
  BY <1>1 DEF Grows, BufferOK, BufType
<1>3. IF tooMuch THEN Return(counted, buf, "XZ_DATA_ERROR")
      ELSE IF result # "XZ_STREAM_END" THEN Return(counted, buf, result)
      ELSE IF differs THEN Return(counted, buf, "XZ_DATA_ERROR")
      ELSE Continue(hashed, buf)
  BY DEF BlockReturn
<1>4. compressed \in Nat /\ uncompressed \in Nat
  <2>1. s.block.compressed \in Nat /\ s.block.uncompressed \in Nat
    BY <1>1 DEF CountsType
  <2>2. ASSUME NEW i \in Nat, NEW m \in Nat, NEW n \in Nat, n <= m PROVE i + m - n \in Nat
    BY <2>2
  <2>3. QED
    BY <1>1, <1>2, <2>1, <2>2
<1>5. crc \in 0..(CHECK_VALUES - 1)
  <2>1. xz_crc32(SubSeq(buf.out, s.out_start + 1, Len(buf.out)), s.crc) \in 0..(CHECK_VALUES - 1)
    BY <1>1, <1>2, CrcOK
  <2>2. QED
    BY <1>1, <2>1
<1> HIDE DEF compressed, uncompressed, crc
<1>6. unpadded \in Nat /\ total \in Nat
  <2>1. s.block.hash \in HashType
    BY <1>1 DEF CountsType
  <2>2. /\ s.block.hash.unpadded \in Nat /\ s.block.hash.uncompressed \in Nat /\ header.size \in Nat
        /\ CheckSize(s.check_type) \in Nat
    BY <1>1, <2>1 DEF HashType, HeaderType, CheckSize, CHECK_BYTES
  <2>3. QED
    BY <1>4, <2>2
<1> HIDE DEF unpadded, total
<1>7. PICK k : k = [s.block EXCEPT !.compressed = compressed, !.uncompressed = uncompressed]
  OBVIOUS
<1>8. k \in CountsType /\ k.count = s.block.count /\ k.hash = s.block.hash
  BY <1>1, <1>4, <1>7 DEF CountsType
<1>9. counted = [s EXCEPT !.block = k, !.crc = crc]
  BY <1>7, Zenon
<1> HIDE DEF counted
<1>10. /\ counted \in DecoderType /\ counted.temp = s.temp /\ counted.sequence = s.sequence
       /\ counted.pos = s.pos /\ counted.index = s.index /\ counted.block = k
       /\ counted.in_start = s.in_start /\ counted.out_start = s.out_start
       /\ counted.filter = s.filter /\ counted.allow_buf_error = s.allow_buf_error
  BY <1>1, <1>5, <1>8, <1>9 DEF DecoderType
<1>11. Typed(counted, buf)
  BY <1>1, <1>2, <1>10 DEF Typed
<1>12. Going(counted)
  BY <1>1, <1>8, <1>10 DEF Going
<1>13. Waits(s, buf) => Waits(counted, buf)
  BY <1>10 DEF Waits
<1>14. ASSUME NEW r, r \in {"XZ_DATA_ERROR", "XZ_OK"}, r = "XZ_OK" => r = result
       PROVE  Stops(counted, buf, r)
  <2>1. r \in Errors \cup {"XZ_OK", "XZ_STREAM_END"}
    BY <1>14 DEF Errors
  <2>2. r # "XZ_DATA_ERROR" => counted.index.count <= counted.block.count
    BY <1>12 DEF Going
  <2>3. QED
    BY <1>10, <1>11, <1>12, <1>14, <1>13, <2>1, <2>2 DEF Stops
<1>15. PICK hash : hash = [unpadded |-> unpadded, uncompressed |-> total,
                           crc32 |-> Append(s.block.hash.crc32, <<unpadded, total>>)]
  OBVIOUS
<1>16. hash \in HashType
  <2>1. s.block.hash.crc32 \in Seq(Nat \X Nat)
    BY <1>1 DEF CountsType, HashType
  <2>2. <<unpadded, total>> \in Nat \X Nat
    BY <1>6
  <2>3. PICK p : p = <<unpadded, total>>
    OBVIOUS
  <2>4. Append(s.block.hash.crc32, p) \in Seq(Nat \X Nat)
    BY <2>1, <2>2, <2>3, AppendIs
  <2>5. QED
    BY <1>6, <1>15, <2>3, <2>4 DEF HashType
<1>17. PICK n \in Nat : n = s.block.count + 1 /\ s.block.count \in Nat
  <2>1. s.block.count \in Nat
    BY <1>1 DEF CountsType
  <2>2. QED
    BY <2>1
<1>18. PICK m : m = [k EXCEPT !.hash = hash, !.count = n]
  OBVIOUS
<1>19. m \in CountsType /\ m.count = s.block.count + 1 /\ s.block.count \in Nat
  BY <1>8, <1>16, <1>17, <1>18 DEF CountsType
<1>20. hashed = [counted EXCEPT !.block = m, !.sequence = "SEQ_BLOCK_PADDING"]
  <2>1. counted.block.hash = s.block.hash /\ counted.block = k
    BY <1>8, <1>10
  <2>2. hashed = [counted EXCEPT !.block = [[counted.block EXCEPT !.hash =
                     [unpadded |-> unpadded, uncompressed |-> total,
                      crc32 |-> Append(counted.block.hash.crc32, <<unpadded, total>>)]] EXCEPT !.count = @ + 1],
                   !.sequence = "SEQ_BLOCK_PADDING"]
    BY <1>10 DEF DecoderType, CountsType
  <2> HIDE DEF hashed
  <2>3. hashed = [counted EXCEPT !.block = [[k EXCEPT !.hash = hash] EXCEPT !.count = @ + 1],
                   !.sequence = "SEQ_BLOCK_PADDING"]
    BY <1>15, <2>1, <2>2
  <2>4. m = [[k EXCEPT !.hash = hash] EXCEPT !.count = @ + 1]
    BY <1>8, <1>17, <1>18 DEF CountsType
  <2>5. QED
    BY <2>3, <2>4
<1> HIDE DEF hashed
<1>21. /\ hashed \in DecoderType /\ hashed.temp = s.temp /\ hashed.sequence = "SEQ_BLOCK_PADDING"
       /\ hashed.pos = s.pos /\ hashed.index = s.index /\ hashed.block = m
       /\ hashed.in_start = s.in_start /\ hashed.out_start = s.out_start
       /\ hashed.filter = s.filter /\ hashed.allow_buf_error = s.allow_buf_error
  BY <1>10, <1>19, <1>20 DEF DecoderType, Sequences
<1>22. Typed(hashed, buf)
  BY <1>1, <1>2, <1>21 DEF Typed
<1>23. Going(hashed)
  <2>1. s.index.count <= s.block.count + 1
    BY <1>1, <1>19 DEF Going, DecoderType, IndexType
  <2>2. QED
    BY <1>1, <1>19, <1>21, <2>1 DEF Going, AfterBlocks, InTemp
<1>24. \/ \E r \in {"XZ_DATA_ERROR", "XZ_OK"} : (r = "XZ_OK" => r = result) /\ Return(counted, buf, r)
       \/ Continue(hashed, buf)
  <2> HIDE DEF tooMuch, differs
  <2>1. QED
    BY <1>3
<1>25. QED
  BY <1>14, <1>21, <1>22, <1>23, <1>24 DEF Outcome, Goes

\* The filters.
LEMMA FilterPausesOK ==
  ASSUME InMain, FilterPauses
  PROVE  Outcome
<1>1. Grows(b) /\ BufferOK(b)
  BY InMainIs
<1>2. Waits(s, b)
  BY <1>1 DEF FilterPauses, Stalled, More, BufferOK, BufType, Waits, At
<1>3. At("SEQ_BLOCK_UNCOMPRESS") /\ BlockReturn(s, b, "XZ_OK")
  BY DEF FilterPauses
<1>4. QED
  BY <1>1, <1>2, <1>3, BlockReturnOK

\* The filters are through with the Block.
LEMMA FilterEndsOK ==
  ASSUME InMain, FilterEnds
  PROVE  Outcome
<1>1. Grows(b)
  BY InMainIs
<1>2. At("SEQ_BLOCK_UNCOMPRESS") /\ BlockReturn(s, b, "XZ_STREAM_END")
  BY DEF FilterEnds
<1>3. QED
  BY <1>1, <1>2, BlockReturnOK

\* While a filter works nothing but its state changes.
LEMMA FilterOK ==
  ASSUME InMain, At("SEQ_BLOCK_UNCOMPRESS"), NEW f \in FilterType, Len(f.ready) <= BcjHold + 1,
         NEW buf, Grows(buf), Continue([s EXCEPT !.filter = f], buf)
  PROVE  Outcome
<1>1. /\ s \in DecoderType /\ s.sequence = "SEQ_BLOCK_UNCOMPRESS"
      /\ Typed(s, b) /\ Going(s) /\ b \in BufType
      /\ s.in_start \in Nat /\ s.out_start \in Nat /\ b.in_pos \in Nat /\ b.out \in Seq(Byte)
  BY InMainIs DEF Typed, DecoderType, At, BufType
<1>2. PICK x : x = [s EXCEPT !.filter = f]
  OBVIOUS
<1>3. /\ x \in DecoderType /\ x.temp = s.temp /\ x.sequence = s.sequence
      /\ x.pos = s.pos /\ x.index = s.index /\ x.block = s.block
      /\ x.in_start = s.in_start /\ x.out_start = s.out_start
      /\ x.filter = f /\ x.allow_buf_error = s.allow_buf_error
  BY <1>1, <1>2 DEF DecoderType
<1>4. /\ buf.in_pos \in Nat /\ b.in_pos <= buf.in_pos /\ Len(b.out) <= Len(buf.out) /\ Len(buf.out) \in Nat
  BY DEF Grows, BufferOK, BufType
<1>5. Typed(x, buf)
  BY <1>1, <1>3, <1>4 DEF Typed
<1>6. Going(x)
  BY <1>1, <1>3 DEF Going
<1>7. QED
  BY <1>2, <1>3, <1>5, <1>6 DEF Outcome, Goes

\* A control byte is read.
LEMMA FilterReadsOK ==
  ASSUME InMain, FilterReads
  PROVE  Outcome
<1>1. /\ s \in DecoderType /\ At("SEQ_BLOCK_UNCOMPRESS") /\ More /\ s.filter \in FilterType
      /\ Len(s.filter.ready) <= BcjHold + 1
  BY InMainIs DEF Typed, DecoderType, FilterReads
<1>2. Next1 \in Byte /\ Grows(Taken(1))
  BY <1>1, NextByte
<1>3. CASE Next1 > CHUNK_MAX
  <2>1. BlockReturn(s, Taken(1), "XZ_DATA_ERROR")
    BY <1>3 DEF FilterReads
  <2>2. QED
    BY <1>1, <1>2, <2>1, BlockReturnOK
<1>4. CASE ~(Next1 > CHUNK_MAX) /\ Next1 = LZMA2_END
  <2>1. PICK f : f = [s.filter EXCEPT !.ended = TRUE]
    OBVIOUS
  <2>2. f \in FilterType /\ f.ready = s.filter.ready
    BY <1>1, <2>1 DEF FilterType
  <2>3. Continue([s EXCEPT !.filter = f], Taken(1))
    BY <1>4, <2>1 DEF FilterReads
  <2>4. QED
    BY <1>1, <1>2, <2>2, <2>3, FilterOK
<1>5. CASE ~(Next1 > CHUNK_MAX) /\ Next1 # LZMA2_END
  <2>1. PICK f : f = [s.filter EXCEPT !.left = Next1 - 1, !.byte = Next1]
    OBVIOUS
  <2>2. Next1 - 1 \in Nat
    BY <1>2, <1>5 DEF Byte, LZMA2_END
  <2>3. f \in FilterType /\ f.ready = s.filter.ready
    BY <1>1, <1>2, <2>1, <2>2 DEF FilterType
  <2>4. Continue([s EXCEPT !.filter = f], Taken(1))
    <3>1. Continue([s EXCEPT !.filter.left = Next1 - 1, !.filter.byte = Next1], Taken(1))
      BY <1>5 DEF FilterReads
    <3>2. [s EXCEPT !.filter.left = Next1 - 1, !.filter.byte = Next1] = [s EXCEPT !.filter = f]
      BY <2>1
    <3>3. QED
      BY <3>1, <3>2
  <2>5. QED
    BY <1>1, <1>2, <2>3, <2>4, FilterOK
<1>6. QED
  BY <1>3, <1>4, <1>5

\* A byte is decoded.
LEMMA FilterDecodesOK ==
  ASSUME InMain, FilterDecodes
  PROVE  Outcome
<1>1. /\ s \in DecoderType /\ At("SEQ_BLOCK_UNCOMPRESS") /\ s.filter \in FilterType
      /\ Len(s.filter.ready) <= BcjHold /\ s.filter.left > 0 /\ s.filter.left \in Nat
      /\ s.filter.ready \in Seq(Byte) /\ s.filter.byte \in Byte
  BY InMainIs, BcjAssumption DEF Typed, DecoderType, FilterDecodes, FilterType, Ready, Held
<1>2. PICK v : v = Append(s.filter.ready, s.filter.byte)
  OBVIOUS
<1>3. v \in Seq(Byte) /\ Len(v) = Len(s.filter.ready) + 1 /\ Len(s.filter.ready) \in Nat
  BY <1>1, <1>2, AppendIs
<1>4. PICK f, n : n = s.filter.left - 1 /\ f = [s.filter EXCEPT !.left = n, !.ready = v]
  BY Zenon
<1>5. f \in FilterType /\ f.ready = v
  <2>1. n \in Nat
    BY <1>1, <1>4
  <2>2. QED
    BY <1>1, <1>3, <1>4, <2>1 DEF FilterType
<1>6. Continue([s EXCEPT !.filter = f], b)
  <2>1. Continue([s EXCEPT !.filter.left = @ - 1, !.filter.ready = Append(@, s.filter.byte)], b)
    BY DEF FilterDecodes
  <2>2. [s EXCEPT !.filter.left = @ - 1, !.filter.ready = Append(@, s.filter.byte)]
        = [s EXCEPT !.filter = f]
    BY <1>2, <1>4
  <2>3. QED
    BY <2>1, <2>2
<1>7. Len(f.ready) <= BcjHold + 1
  BY <1>1, <1>3, <1>5, BcjAssumption
<1>8. QED
  BY <1>1, <1>5, <1>6, <1>7, FilterOK, InMainIs

\* A byte is put out.
LEMMA FilterWritesOK ==
  ASSUME InMain, FilterWrites
  PROVE  Outcome
<1>1. /\ s \in DecoderType /\ At("SEQ_BLOCK_UNCOMPRESS") /\ s.filter \in FilterType
      /\ Len(s.filter.ready) <= BcjHold + 1 /\ Len(s.filter.ready) > 0
      /\ s.filter.ready \in Seq(Byte) /\ b.room > 0 /\ BufferOK(b) /\ b \in BufType
      /\ b.out \in Seq(Byte) /\ b.room \in Nat
  BY InMainIs, BcjAssumption DEF Typed, DecoderType, FilterWrites, FilterType, Ready, Held, BufferOK, BufType
<1>2. PICK v, h : v = Tail(s.filter.ready) /\ h = Head(s.filter.ready)
  OBVIOUS
<1>3. v \in Seq(Byte) /\ Len(v) = Len(s.filter.ready) - 1 /\ Len(s.filter.ready) \in Nat /\ h \in Byte
  BY <1>1, <1>2, TailIs
<1>4. PICK f : f = [s.filter EXCEPT !.ready = v]
  OBVIOUS
<1>5. f \in FilterType /\ f.ready = v
  BY <1>1, <1>3, <1>4 DEF FilterType
<1>6. PICK w : w = Append(b.out, h)
  OBVIOUS
<1>7. w \in Seq(Byte) /\ Len(w) = Len(b.out) + 1 /\ \A i \in 1..Len(b.out) : w[i] = b.out[i]
  BY <1>1, <1>3, <1>6, AppendIs
<1>8. PICK buf, n : n = b.room - 1 /\ buf = [b EXCEPT !.out = w, !.room = n]
  BY Zenon
<1>9. /\ buf \in BufType /\ buf.in_pos = b.in_pos /\ buf.out = w /\ buf.in_size = b.in_size
      /\ buf.room = b.room - 1
  <2>1. n \in Nat
    BY <1>1, <1>8
  <2>2. QED
    BY <1>1, <1>7, <1>8, <2>1 DEF BufType
<1>10. Grows(buf)
  <2>1. Len(b.out) \in Nat
    BY <1>1
  <2>2. BufferOK(buf)
    BY <1>1, <1>9 DEF BufferOK
  <2>3. b.in_pos <= buf.in_pos
    BY <1>1, <1>9 DEF BufType
  <2>4. Len(b.out) <= Len(buf.out)
    BY <1>7, <1>9, <2>1
  <2>5. buf.room + Len(buf.out) = b.room + Len(b.out)
    <3>1. PICK i \in Nat, j \in Nat : i = b.room /\ j = Len(b.out)
      BY <1>1, <2>1
    <3>2. (i - 1) + (j + 1) = i + j
      OBVIOUS
    <3>3. QED
      BY <1>7, <1>9, <3>1, <3>2
  <2>6. QED
    BY <1>7, <1>9, <2>2, <2>3, <2>4, <2>5 DEF Grows
<1>11. Continue([s EXCEPT !.filter = f], buf)
  <2>1. Continue([s EXCEPT !.filter.ready = Tail(@)],
              [b EXCEPT !.out = Append(@, Head(s.filter.ready)), !.room = @ - 1])
    BY DEF FilterWrites
  <2>2. /\ [s EXCEPT !.filter.ready = Tail(@)] = [s EXCEPT !.filter = f]
        /\ [b EXCEPT !.out = Append(@, Head(s.filter.ready)), !.room = @ - 1] = buf
    BY <1>2, <1>4, <1>6, <1>8
  <2>3. QED
    BY <2>1, <2>2
<1>12. QED
  BY <1>1, <1>3, <1>5, <1>10, <1>11, FilterOK, BcjAssumption

\* What a step that changes nothing but numbers of the decoder has to keep.
SameBut(x) ==
  /\ x.temp = s.temp /\ x.index = s.index /\ x.filter = s.filter
  /\ x.in_start = s.in_start /\ x.out_start = s.out_start /\ x.allow_buf_error = s.allow_buf_error

\* A byte that is wrong.
LEMMA RejectsOK ==
  ASSUME InMain, More, Return(s, Taken(1), "XZ_DATA_ERROR")
  PROVE  Outcome
<1>1. Typed(s, b) /\ b.in_pos \in Nat /\ s.in_start \in Nat
  BY InMainIs DEF BufType, DecoderType
<1>2. Grows(Taken(1)) /\ Taken(1).in_pos = b.in_pos + 1 /\ Taken(1).out = b.out
  BY NextByte
<1>3. Typed(s, Taken(1))
  BY <1>1, <1>2 DEF Typed
<1>4. Stops(s, Taken(1), "XZ_DATA_ERROR")
  BY <1>2, <1>3 DEF Stops, Errors
<1>5. QED
  BY <1>4 DEF Outcome

\* A byte of Block Padding.
LEMMA BlockPaddingOK ==
  ASSUME InMain, BlockPadding
  PROVE  Outcome
<1>1. /\ s \in DecoderType /\ s.sequence = "SEQ_BLOCK_PADDING" /\ s.pos = 0
      /\ Typed(s, b) /\ Going(s) /\ Grows(b) /\ b.in_pos \in Nat /\ s.in_start \in Nat
      /\ s.block \in CountsType
  BY InMainIs DEF Typed, DecoderType, At, BufType, BlockPadding
<1>2. CASE ~Misaligned
  <2>1. PICK x : x = [s EXCEPT !.sequence = "SEQ_BLOCK_CHECK"]
    OBVIOUS
  <2>2. x \in DecoderType /\ SameBut(x) /\ x.sequence = "SEQ_BLOCK_CHECK" /\ x.pos = 0 /\ x.block = s.block
    BY <1>1, <2>1 DEF DecoderType, SameBut, Sequences
  <2>3. Typed(x, b) /\ Going(x)
    BY <1>1, <2>2 DEF SameBut, Typed, Going, InTemp, AfterBlocks
  <2>4. Continue(x, b)
    BY <1>2, <2>1 DEF BlockPadding
  <2>5. QED
    BY <1>1, <2>2, <2>3, <2>4 DEF Outcome, Goes, SameBut
<1>3. CASE Misaligned /\ Next1 # 0
  <2>1. More /\ Return(s, Taken(1), "XZ_DATA_ERROR")
    BY <1>3 DEF BlockPadding
  <2>2. QED
    BY <2>1, RejectsOK
<1>4. CASE Misaligned /\ Next1 = 0
  <2>1. More
    BY <1>4 DEF BlockPadding
  <2>2. Grows(Taken(1)) /\ Taken(1).in_pos = b.in_pos + 1 /\ Taken(1).out = b.out
    BY <2>1, NextByte
  <2>3. PICK n \in Nat : n = s.block.compressed + 1
    BY <1>1 DEF CountsType
  <2>4. PICK k, x : k = [s.block EXCEPT !.compressed = n] /\ x = [s EXCEPT !.block = k]
    OBVIOUS
  <2>5. k \in CountsType /\ k.count = s.block.count
    BY <1>1, <2>4 DEF CountsType
  <2>6. /\ x \in DecoderType /\ SameBut(x) /\ x.sequence = s.sequence /\ x.pos = 0 /\ x.block = k
    BY <1>1, <2>4, <2>5 DEF DecoderType, SameBut
  <2>7. Typed(x, Taken(1))
    BY <1>1, <2>2, <2>6 DEF SameBut, Typed
  <2>8. Going(x)
    BY <1>1, <2>5, <2>6 DEF SameBut, Going
  <2>9. Continue(x, Taken(1))
    <3>1. Continue([s EXCEPT !.block.compressed = @ + 1], Taken(1))
      BY <1>4 DEF BlockPadding
    <3>2. [s EXCEPT !.block.compressed = @ + 1] = x
      BY <2>3, <2>4
    <3>3. QED
      BY <3>1, <3>2
  <2>10. QED
    BY <2>2, <2>6, <2>7, <2>8, <2>9 DEF Outcome, Goes, SameBut
<1>5. QED
  BY <1>2, <1>3, <1>4

\* crc_validate()
LEMMA CrcValidateOK ==
  ASSUME InMain, s.sequence \in {"SEQ_BLOCK_CHECK", "SEQ_INDEX_CRC32"}, NEW xz,
         s.sequence = "SEQ_BLOCK_CHECK" => s.check_type = XZ_CHECK_CRC32,
         Goes([xz EXCEPT !.crc = 0, !.pos = 0], b), CrcValidate(xz)
  PROVE  Outcome
<1>1. /\ s \in DecoderType /\ s.pos \in Nat
      /\ Typed(s, b) /\ Going(s) /\ b.in_pos \in Nat /\ s.in_start \in Nat
  BY InMainIs DEF Typed, DecoderType, BufType, VLI_BYTES_MAX
<1>2. More
  BY DEF CrcValidate
<1>3. Grows(Taken(1)) /\ Taken(1).in_pos = b.in_pos + 1 /\ Taken(1).out = b.out
  BY <1>2, NextByte
<1>4. CASE Next1 # CrcByte(s.crc, s.pos)
  <2>1. Return(s, Taken(1), "XZ_DATA_ERROR")
    BY <1>4 DEF CrcValidate
  <2>2. QED
    BY <1>2, <2>1, RejectsOK
<1>5. CASE Next1 = CrcByte(s.crc, s.pos) /\ s.pos + 1 < CHECK_BYTES
  <2>1. PICK n \in 0..VLI_BYTES_MAX : n = s.pos + 1 /\ n < VLI_BYTES_MAX
    BY <1>1, <1>5 DEF CHECK_BYTES, VLI_BYTES_MAX
  <2>2. PICK x : x = [s EXCEPT !.pos = n]
    OBVIOUS
  <2>3. /\ x \in DecoderType /\ SameBut(x) /\ x.sequence = s.sequence /\ x.pos = n /\ x.block = s.block
        /\ x.check_type = s.check_type
    BY <1>1, <2>2 DEF DecoderType, SameBut
  <2>4. Typed(x, Taken(1))
    BY <1>1, <1>3, <2>3 DEF SameBut, Typed
  <2>5. Going(x)
    BY <1>1, <2>1, <2>3 DEF SameBut, Going
  <2>6. Continue(x, Taken(1))
    BY <1>5, <2>1, <2>2 DEF CrcValidate
  <2>7. QED
    BY <1>3, <2>3, <2>4, <2>5, <2>6 DEF Outcome, Goes, SameBut
<1>6. CASE Next1 = CrcByte(s.crc, s.pos) /\ ~(s.pos + 1 < CHECK_BYTES)
  <2>1. PICK x : x = [xz EXCEPT !.crc = 0, !.pos = 0]
    OBVIOUS
  <2>2. Typed(x, b) /\ Going(x) /\ x.allow_buf_error = s.allow_buf_error /\ x \in DecoderType
    BY <2>1 DEF Goes, Typed
  <2>3. Typed(x, Taken(1))
    <3>1. x.in_start \in Nat
      BY <2>2 DEF DecoderType
    <3>2. QED
      BY <1>1, <1>3, <2>2, <3>1 DEF Typed
  <2>4. Continue(x, Taken(1))
    BY <1>6, <2>1 DEF CrcValidate
  <2>5. QED
    BY <1>3, <2>2, <2>3, <2>4 DEF Outcome, Goes
<1>7. QED
  BY <1>4, <1>5, <1>6

\* The Check, where there is one.
LEMMA BlockCheckOK ==
  ASSUME InMain, BlockCheck
  PROVE  Outcome
<1>1. /\ s \in DecoderType /\ s.sequence = "SEQ_BLOCK_CHECK"
      /\ Typed(s, b) /\ Going(s) /\ Grows(b)
  BY InMainIs DEF At, BlockCheck
<1>2. PICK x : x = [s EXCEPT !.sequence = "SEQ_BLOCK_START"]
  OBVIOUS
<1>3. PICK y : y = [x EXCEPT !.crc = 0, !.pos = 0]
  OBVIOUS
<1>4. /\ x \in DecoderType /\ SameBut(x) /\ x.sequence = "SEQ_BLOCK_START" /\ x.pos = s.pos /\ x.block = s.block
  BY <1>1, <1>2 DEF DecoderType, SameBut, Sequences
<1>5. /\ y \in DecoderType /\ SameBut(y) /\ y.sequence = "SEQ_BLOCK_START" /\ y.pos = 0 /\ y.block = s.block
  <2>1. 0 \in 0..VLI_BYTES_MAX /\ 0 \in 0..(CHECK_VALUES - 1)
    BY DEF VLI_BYTES_MAX, CHECK_VALUES
  <2>2. QED
    BY <1>3, <1>4, <2>1 DEF DecoderType, SameBut
<1>6. ASSUME NEW z, z \in {x, y}, z.pos = 0 PROVE Goes(z, b)
  <2>1. z \in DecoderType /\ SameBut(z) /\ z.sequence = "SEQ_BLOCK_START" /\ z.pos = 0 /\ z.block = s.block
    BY <1>4, <1>5, <1>6
  <2>2. Typed(z, b) /\ Going(z)
    BY <1>1, <2>1 DEF SameBut, Typed, Going, InTemp, AfterBlocks, VLI_BYTES_MAX
  <2>3. QED
    BY <1>1, <2>1, <2>2 DEF Goes, SameBut
<1>7. CASE s.check_type = XZ_CHECK_CRC32
  <2>1. CrcValidate(x)
    BY <1>2, <1>7 DEF BlockCheck
  <2>2. Goes(y, b)
    BY <1>5, <1>6
  <2>3. QED
    BY <1>1, <1>3, <1>7, <2>1, <2>2, CrcValidateOK, Zenon
<1>8. CASE s.check_type # XZ_CHECK_CRC32
  <2>1. Continue(x, b)
    BY <1>2, <1>8 DEF BlockCheck
  <2>2. s.pos = 0
    BY <1>1, <1>8 DEF Typed, Going
  <2>3. QED
    BY <1>4, <1>6, <2>1, <2>2 DEF Outcome
<1>9. QED
  BY <1>7, <1>8

\* index_update()
LEMMA UpdatedIs ==
  ASSUME NEW xz \in DecoderType, NEW buf, buf.in_pos \in Nat, xz.in_start <= buf.in_pos,
         buf.in_pos <= Len(input), input \in Seq(Byte)
  PROVE  LET x == Updated(xz, buf) IN
         /\ x \in DecoderType
         /\ x.temp = xz.temp /\ x.filter = xz.filter /\ x.block = xz.block
         /\ x.in_start = xz.in_start /\ x.out_start = xz.out_start
         /\ x.allow_buf_error = xz.allow_buf_error /\ x.pos = xz.pos /\ x.sequence = xz.sequence
         /\ x.check_type = xz.check_type
         /\ x.index.count = xz.index.count /\ x.index.sequence = xz.index.sequence
         /\ x.index.hash = xz.index.hash
         /\ x.index.size = xz.index.size + (buf.in_pos - xz.in_start)
         /\ x.crc = xz_crc32(SubSeq(input, xz.in_start + 1, buf.in_pos), xz.crc)
<1>1. xz.index \in IndexType /\ xz.in_start \in Nat /\ xz.crc \in 0..(CHECK_VALUES - 1)
  BY DEF DecoderType
<1>2. PICK n : n = xz.index.size + (buf.in_pos - xz.in_start)
  OBVIOUS
<1>3. n \in Nat
  <2>1. xz.index.size \in Nat /\ buf.in_pos - xz.in_start \in Nat
    BY <1>1 DEF IndexType
  <2>2. QED
    BY <1>2, <2>1
<1>4. PICK crc : crc = xz_crc32(SubSeq(input, xz.in_start + 1, buf.in_pos), xz.crc)
  OBVIOUS
<1>5. crc \in 0..(CHECK_VALUES - 1)
  BY <1>1, <1>4, CrcOK
<1>6. PICK i, x : i = [xz.index EXCEPT !.size = n] /\ x = [xz EXCEPT !.index = i, !.crc = crc]
  BY Zenon
<1>7. i \in IndexType /\ i.size = n /\ i.count = xz.index.count /\ i.sequence = xz.index.sequence
      /\ i.hash = xz.index.hash
  BY <1>1, <1>3, <1>6 DEF IndexType
<1>8. Updated(xz, buf) = x
  BY <1>2, <1>4, <1>6 DEF Updated
<1>9. /\ x \in DecoderType
      /\ x.temp = xz.temp /\ x.filter = xz.filter /\ x.block = xz.block
      /\ x.in_start = xz.in_start /\ x.out_start = xz.out_start
      /\ x.allow_buf_error = xz.allow_buf_error /\ x.pos = xz.pos /\ x.sequence = xz.sequence
      /\ x.check_type = xz.check_type
      /\ x.index = i /\ x.crc = crc
  BY <1>5, <1>6, <1>7 DEF DecoderType
<1>10. QED
  BY <1>2, <1>4, <1>7, <1>8, <1>9

\* In the Index as it is, with the numbers brought up to date.
LEMMA UpdatedOK ==
  ASSUME InMain, s.sequence \in {"SEQ_INDEX", "SEQ_INDEX_PADDING"}
  PROVE  Typed(Updated(s, b), b) /\ Going(Updated(s, b))
         /\ Updated(s, b).allow_buf_error = s.allow_buf_error
<1>1. /\ s \in DecoderType /\ Typed(s, b) /\ Going(s) /\ BufferOK(b) /\ b.in_pos \in Nat
      /\ b.in_pos <= Len(input) /\ input \in Seq(Byte) /\ s.in_start <= b.in_pos
  BY InMainIs DEF Typed, BufferOK, BufType
<1>2. PICK x : x = Updated(s, b)
  OBVIOUS
<1>3. /\ x \in DecoderType
      /\ x.temp = s.temp /\ x.filter = s.filter /\ x.block = s.block
      /\ x.in_start = s.in_start /\ x.out_start = s.out_start
      /\ x.allow_buf_error = s.allow_buf_error /\ x.pos = s.pos /\ x.sequence = s.sequence
      /\ x.index.count = s.index.count /\ x.index.sequence = s.index.sequence
  BY <1>1, <1>2, UpdatedIs
<1>4. Typed(x, b)
  BY <1>1, <1>3 DEF Typed
<1>5. Going(x)
  BY <1>1, <1>3 DEF Going
<1>6. QED
  BY <1>2, <1>3, <1>4, <1>5

\* Waiting in the Index counts what this call has read of it.
LEMMA IndexWaitsOK ==
  ASSUME InMain, IndexWaits \/ IndexPaddingWaits
  PROVE  Outcome
<1>1. /\ s.sequence \in {"SEQ_INDEX", "SEQ_INDEX_PADDING"} /\ ~More
      /\ Return(Updated(s, b), b, "XZ_OK")
  BY DEF IndexWaits, IndexPaddingWaits, At
<1>2. b.in_pos = b.in_size /\ Grows(b)
  BY <1>1, InMainIs DEF More, BufferOK, BufType
<1>3. Typed(Updated(s, b), b) /\ Going(Updated(s, b)) /\ Updated(s, b).allow_buf_error = s.allow_buf_error
  BY <1>1, UpdatedOK
<1>4. Stops(Updated(s, b), b, "XZ_OK")
  BY <1>2, <1>3 DEF Stops, Going, Waits
<1>5. QED
  BY <1>1, <1>4 DEF Outcome

\* The Records are compared with the Blocks.
LEMMA IndexCompleteOK ==
  ASSUME InMain, IndexComplete
  PROVE  Outcome
<1>1. s.sequence = "SEQ_INDEX_PADDING" /\ Grows(b)
  BY InMainIs DEF IndexComplete, At
<1>2. PICK y : y = Updated(s, b)
  OBVIOUS
<1>3. Typed(y, b) /\ Going(y) /\ y.allow_buf_error = s.allow_buf_error /\ y \in DecoderType
  BY <1>1, <1>2, UpdatedOK DEF Typed
<1>4. CASE s.block.hash # s.index.hash
  <2>1. Return(y, b, "XZ_DATA_ERROR")
    BY <1>2, <1>4 DEF IndexComplete
  <2>2. Stops(y, b, "XZ_DATA_ERROR")
    BY <1>1, <1>3 DEF Stops, Errors
  <2>3. QED
    BY <2>1, <2>2 DEF Outcome
<1>5. CASE s.block.hash = s.index.hash
  <2>1. PICK x : x = [y EXCEPT !.sequence = "SEQ_INDEX_CRC32"]
    OBVIOUS
  <2>2. Continue(x, b)
    BY <1>2, <1>5, <2>1 DEF IndexComplete
  <2>3. y.sequence = "SEQ_INDEX_PADDING"
    <3>1. /\ s \in DecoderType /\ b.in_pos \in Nat
          /\ b.in_pos <= Len(input) /\ input \in Seq(Byte) /\ s.in_start <= b.in_pos
      BY InMainIs DEF Typed, BufferOK, BufType
    <3>2. QED
      BY <1>1, <1>2, <3>1, UpdatedIs
  <2>4. /\ x \in DecoderType
        /\ x.temp = y.temp /\ x.filter = y.filter /\ x.block = y.block
        /\ x.in_start = y.in_start /\ x.out_start = y.out_start
        /\ x.allow_buf_error = y.allow_buf_error /\ x.pos = y.pos /\ x.sequence = "SEQ_INDEX_CRC32"
        /\ x.index = y.index
    BY <1>3, <2>1 DEF DecoderType, Sequences
  <2>5. Typed(x, b)
    BY <1>3, <2>4 DEF Typed
  <2>6. Going(x)
    BY <1>3, <2>3, <2>4 DEF Going, InTemp, AfterBlocks
  <2>7. QED
    BY <1>1, <1>3, <2>2, <2>4, <2>5, <2>6 DEF Outcome, Goes
<1>6. QED
  BY <1>4, <1>5

\* A byte of Index Padding.
LEMMA IndexPaddingOK ==
  ASSUME InMain, IndexPadding
  PROVE  Outcome
<1>1. More /\ Typed(s, b) /\ Going(s) /\ b.in_pos \in Nat /\ s.in_start \in Nat
  BY InMainIs DEF IndexPadding, BufType, DecoderType
<1>2. CASE Next1 # 0
  BY <1>1, <1>2, RejectsOK DEF IndexPadding
<1>3. CASE Next1 = 0
  <2>1. Grows(Taken(1)) /\ Taken(1).in_pos = b.in_pos + 1 /\ Taken(1).out = b.out
    BY <1>1, NextByte
  <2>2. Typed(s, Taken(1))
    BY <1>1, <2>1 DEF Typed
  <2>3. Continue(s, Taken(1))
    BY <1>3 DEF IndexPadding
  <2>4. QED
    BY <1>1, <2>1, <2>2, <2>3 DEF Outcome, Goes
<1>4. QED
  BY <1>2, <1>3

\* The CRC32 of the Index.
LEMMA IndexCrc32OK ==
  ASSUME InMain, IndexCrc32
  PROVE  Outcome
<1>1. /\ s \in DecoderType /\ s.sequence = "SEQ_INDEX_CRC32" /\ s.temp.buf = <<>> /\ s.temp \in TempType
      /\ Typed(s, b) /\ Going(s) /\ Grows(b)
  BY InMainIs DEF IndexCrc32, At, Going, InTemp, DecoderType
<1>2. PICK y : y = [s.temp EXCEPT !.size = STREAM_HEADER_SIZE]
  OBVIOUS
<1>3. y \in TempType /\ y.size = STREAM_HEADER_SIZE /\ y.buf = <<>> /\ STREAM_HEADER_SIZE \in Nat
      /\ Len(<<>>) <= STREAM_HEADER_SIZE
  BY <1>1, <1>2 DEF TempType, STREAM_HEADER_SIZE
<1>4. PICK xz : xz = [s EXCEPT !.temp.size = STREAM_HEADER_SIZE, !.sequence = "SEQ_STREAM_FOOTER"]
  OBVIOUS
<1>5. xz = [s EXCEPT !.temp = y, !.sequence = "SEQ_STREAM_FOOTER"]
  BY <1>2, <1>4
<1>6. PICK x : x = [xz EXCEPT !.crc = 0, !.pos = 0]
  OBVIOUS
<1>7. 0 \in 0..VLI_BYTES_MAX /\ 0 \in 0..(CHECK_VALUES - 1) /\ "SEQ_STREAM_FOOTER" \in Sequences
  BY DEF VLI_BYTES_MAX, CHECK_VALUES, Sequences
<1>8. x = [s EXCEPT !.temp = y, !.sequence = "SEQ_STREAM_FOOTER", !.crc = 0, !.pos = 0]
  BY <1>5, <1>6
<1>9. /\ x \in DecoderType
      /\ x.temp = y /\ x.filter = s.filter /\ x.block = s.block
      /\ x.in_start = s.in_start /\ x.out_start = s.out_start
      /\ x.allow_buf_error = s.allow_buf_error /\ x.pos = 0 /\ x.sequence = "SEQ_STREAM_FOOTER"
      /\ x.index = s.index
  BY <1>1, <1>3, <1>7, <1>8 DEF DecoderType
<1>10. Typed(x, b)
  BY <1>1, <1>3, <1>9 DEF Typed
<1>11. Going(x)
  BY <1>1, <1>3, <1>9 DEF Going, InTemp, AfterBlocks, VLI_BYTES_MAX
<1>12. Goes(x, b)
  BY <1>1, <1>9, <1>10, <1>11 DEF Goes
<1>13. CrcValidate(xz)
  BY <1>4 DEF IndexCrc32
<1>14. QED
  BY <1>1, <1>6, <1>12, <1>13, CrcValidateOK, Zenon

\* The Stream Footer.
LEMMA StreamFooterOK ==
  ASSUME InMain, StreamFooter
  PROVE  Outcome
<1>1. /\ s \in DecoderType /\ s.sequence = "SEQ_STREAM_FOOTER" /\ TempFills /\ s.temp \in TempType
      /\ Typed(s, b) /\ Going(s) /\ b.in_pos \in Nat /\ s.in_start \in Nat /\ s.temp.size \in Nat
  BY InMainIs DEF StreamFooter, At, DecoderType, BufType, TempType
<1>2. PICK n, buf : n = Missing /\ buf = Taken(n)
  OBVIOUS
<1>3. /\ n \in Nat /\ Grows(buf) /\ buf.in_pos = b.in_pos + n /\ buf.out = b.out
  BY <1>1, <1>2, TempIs
<1>4. PICK y, x : y = [s.temp EXCEPT !.buf = <<>>] /\ x = [s EXCEPT !.temp = y]
  OBVIOUS
<1>5. y \in TempType /\ y.buf = <<>> /\ y.size = s.temp.size /\ Len(<<>>) <= y.size
  <2>1. s.temp = [size |-> s.temp.size, buf |-> s.temp.buf] /\ s.temp.size \in Nat
    BY <1>1 DEF TempType
  <2>2. y = [size |-> s.temp.size, buf |-> <<>>]
    BY <1>4, <2>1
  <2>3. QED
    BY <2>1, <2>2 DEF TempType
<1>6. /\ x \in DecoderType
      /\ x.temp = y /\ x.filter = s.filter /\ x.block = s.block
      /\ x.in_start = s.in_start /\ x.out_start = s.out_start
      /\ x.allow_buf_error = s.allow_buf_error /\ x.pos = s.pos /\ x.sequence = s.sequence
      /\ x.index = s.index
  BY <1>1, <1>4, <1>5 DEF DecoderType
<1>7. Typed(x, buf)
  BY <1>1, <1>3, <1>5, <1>6 DEF Typed
<1>8. PICK result : result = IF FooterOK(TempFilled) THEN "XZ_STREAM_END" ELSE "XZ_DATA_ERROR"
  OBVIOUS
<1>9. Return(x, buf, result)
  BY <1>2, <1>4, <1>8 DEF StreamFooter
<1>10. Stops(x, buf, result)
  BY <1>1, <1>3, <1>6, <1>7, <1>8 DEF Stops, Errors, Going
<1>11. QED
  BY <1>9, <1>10 DEF Outcome

\* All that wait.
LEMMA WaitOK ==
  ASSUME InMain, Wait
  PROVE  Outcome
BY WaitForInputOK, IndexWaitsOK DEF Wait

\* A number of the Index is complete.
LEMMA IndexFieldOK ==
  ASSUME InMain, At("SEQ_INDEX"), More, NEW vli \in Nat,
         IndexField([s EXCEPT !.vli = vli, !.pos = 0])
  PROVE  Outcome
<1>1. /\ s \in DecoderType /\ s.sequence = "SEQ_INDEX" /\ s.index \in IndexType /\ s.block \in CountsType
      /\ Typed(s, b) /\ Going(s) /\ b.in_pos \in Nat /\ s.in_start \in Nat
  BY InMainIs DEF At, DecoderType, BufType, TempType
<1>2. Grows(Taken(1)) /\ Taken(1).in_pos = b.in_pos + 1 /\ Taken(1).out = b.out
  BY NextByte
<1>3. PICK xz : xz = [s EXCEPT !.vli = vli, !.pos = 0]
  OBVIOUS
<1>4. 0 \in 0..VLI_BYTES_MAX
  BY DEF VLI_BYTES_MAX
<1>5. /\ xz \in DecoderType /\ SameBut(xz) /\ xz.sequence = "SEQ_INDEX" /\ xz.pos = 0 /\ xz.block = s.block
      /\ xz.vli = vli
  BY <1>1, <1>3, <1>4 DEF DecoderType, SameBut
<1>6. /\ s.index.hash \in HashType /\ s.index.count \in Nat /\ s.block.count \in Nat
      /\ s.index.sequence \in IndexSequences /\ s.index.count <= s.block.count
  BY <1>1 DEF IndexType, CountsType, Going
\* Whatever becomes of the state of the Index, the decoder is typed.
<1>7. ASSUME NEW i \in IndexType, NEW sequence \in {"SEQ_INDEX", "SEQ_INDEX_PADDING"}
      PROVE  LET x == [xz EXCEPT !.index = i, !.sequence = sequence]
             IN  /\ Typed(x, Taken(1)) /\ x.allow_buf_error = s.allow_buf_error
                 /\ x.index = i /\ x.block = s.block
                 /\ /\ i.count <= s.block.count
                    /\ sequence = "SEQ_INDEX" /\ i.sequence # "SEQ_INDEX_COUNT" => i.count > 0
                    => Going(x)
  <2>1. PICK x : x = [xz EXCEPT !.index = i, !.sequence = sequence]
    OBVIOUS
  <2>2. /\ x \in DecoderType
        /\ x.temp = s.temp /\ x.filter = s.filter /\ x.block = s.block
        /\ x.in_start = s.in_start /\ x.out_start = s.out_start
        /\ x.allow_buf_error = s.allow_buf_error /\ x.pos = 0 /\ x.sequence = sequence
        /\ x.index = i
    BY <1>5, <2>1 DEF DecoderType, SameBut, Sequences
  <2>3. Typed(x, Taken(1))
    BY <1>1, <1>2, <2>2 DEF Typed
  <2>4. /\ i.count <= s.block.count
        /\ sequence = "SEQ_INDEX" /\ i.sequence # "SEQ_INDEX_COUNT" => i.count > 0
        => Going(x)
    BY <1>1, <2>2 DEF Going, InTemp, AfterBlocks, VLI_BYTES_MAX
  <2>5. QED
    BY <2>1, <2>2, <2>3, <2>4
<1>8. CASE s.index.sequence = "SEQ_INDEX_COUNT" /\ vli # s.block.count
  <2>1. PICK i : i = [s.index EXCEPT !.count = vli]
    OBVIOUS
  <2>2. i \in IndexType
    BY <1>1, <2>1 DEF IndexType
  <2>3. PICK x : x = [xz EXCEPT !.index = i, !.sequence = "SEQ_INDEX"]
    OBVIOUS
  <2>4. Typed(x, Taken(1)) /\ x.allow_buf_error = s.allow_buf_error
    BY <1>7, <2>2, <2>3, Zenon
  <2>5. Return(x, Taken(1), "XZ_DATA_ERROR")
    <3>1. Return([xz EXCEPT !.index.count = vli], Taken(1), "XZ_DATA_ERROR")
      BY <1>3, <1>5, <1>8 DEF IndexField, SameBut
    <3>2. [xz EXCEPT !.index.count = vli] = x
      BY <1>5, <2>1, <2>3 DEF SameBut, DecoderType
    <3>3. QED
      BY <3>1, <3>2
  <2>6. Stops(x, Taken(1), "XZ_DATA_ERROR")
    BY <1>2, <2>4 DEF Stops, Errors
  <2>7. QED
    BY <2>5, <2>6 DEF Outcome
<1>9. CASE ~(s.index.sequence = "SEQ_INDEX_COUNT" /\ vli # s.block.count)
  <2> DEFINE total == s.index.hash.uncompressed + vli
             next ==
        CASE s.index.sequence = "SEQ_INDEX_COUNT" ->
               [s.index EXCEPT !.count = vli, !.sequence = "SEQ_INDEX_UNPADDED"]
          [] s.index.sequence = "SEQ_INDEX_UNPADDED" ->
               [s.index EXCEPT !.hash.unpadded = @ + vli, !.sequence = "SEQ_INDEX_UNCOMPRESSED"]
          [] s.index.sequence = "SEQ_INDEX_UNCOMPRESSED" ->
               [s.index EXCEPT !.hash = [unpadded |-> @.unpadded, uncompressed |-> total,
                                       crc32 |-> Append(@.crc32, <<@.unpadded, total>>)],
                             !.count = @ - 1, !.sequence = "SEQ_INDEX_UNPADDED"]
             sequence == IF next.count = 0 THEN "SEQ_INDEX_PADDING" ELSE "SEQ_INDEX"
             x == [xz EXCEPT !.index = next, !.sequence = sequence]
  <2>1. Continue(x, Taken(1))
    BY <1>3, <1>5, <1>9 DEF IndexField, SameBut
  <2>2. next \in IndexType /\ next.count <= s.block.count
        /\ (next.count = 0 \/ next.count > 0)
    <3>1. CASE s.index.sequence = "SEQ_INDEX_COUNT"
      <4>1. next = [s.index EXCEPT !.count = vli, !.sequence = "SEQ_INDEX_UNPADDED"]
        BY <3>1
      <4> HIDE DEF next
      <4>2. next \in IndexType /\ next.count = vli
        BY <1>1, <4>1 DEF IndexType, IndexSequences
      <4>3. QED
        BY <1>6, <1>9, <3>1, <4>2
    <3>2. CASE s.index.sequence = "SEQ_INDEX_UNPADDED"
      <4>1. next = [s.index EXCEPT !.hash.unpadded = @ + vli, !.sequence = "SEQ_INDEX_UNCOMPRESSED"]
        BY <3>2
      <4>2. PICK n \in Nat : n = s.index.hash.unpadded + vli
        BY <1>6 DEF HashType
      <4>3. PICK hash : hash = [s.index.hash EXCEPT !.unpadded = n]
        OBVIOUS
      <4>4. hash \in HashType
        BY <1>6, <4>3 DEF HashType
      <4>5. next = [s.index EXCEPT !.hash = hash, !.sequence = "SEQ_INDEX_UNCOMPRESSED"]
        BY <4>1, <4>2, <4>3
      <4> HIDE DEF next
      <4>6. next \in IndexType /\ next.count = s.index.count
        BY <1>1, <4>4, <4>5 DEF IndexType, IndexSequences
      <4>7. QED
        BY <1>6, <4>6
    <3>3. CASE s.index.sequence = "SEQ_INDEX_UNCOMPRESSED"
      <4>1. next = [s.index EXCEPT !.hash = [unpadded |-> @.unpadded, uncompressed |-> total,
                                       crc32 |-> Append(@.crc32, <<@.unpadded, total>>)],
                             !.count = @ - 1, !.sequence = "SEQ_INDEX_UNPADDED"]
        BY <3>3
      <4>2. s.index.count > 0
        BY <1>1, <3>3 DEF Going
      <4>3. PICK n \in Nat : n = s.index.count - 1
        BY <1>6, <4>2
      <4>4. total \in Nat /\ s.index.hash.unpadded \in Nat /\ s.index.hash.crc32 \in Seq(Nat \X Nat)
        BY <1>6 DEF HashType
      <4>5. PICK p \in Nat \X Nat : p = <<s.index.hash.unpadded, total>>
        BY <4>4
      <4>6. PICK v : v = Append(s.index.hash.crc32, p)
        OBVIOUS
      <4>7. v \in Seq(Nat \X Nat)
        BY <4>4, <4>6, AppendIs
      <4> HIDE DEF total
      <4>8. PICK hash : hash = [unpadded |-> s.index.hash.unpadded, uncompressed |-> total, crc32 |-> v]
        OBVIOUS
      <4>9. hash \in HashType
        BY <4>4, <4>7, <4>8 DEF HashType
      <4>10. next = [s.index EXCEPT !.hash = hash, !.count = n, !.sequence = "SEQ_INDEX_UNPADDED"]
        BY <4>1, <4>3, <4>5, <4>6, <4>8
      <4> HIDE DEF next
      <4>11. next \in IndexType /\ next.count = n
        BY <1>1, <4>3, <4>9, <4>10 DEF IndexType, IndexSequences
      <4>12. QED
        BY <1>6, <4>3, <4>11
    <3>4. QED
      BY <1>6, <3>1, <3>2, <3>3 DEF IndexSequences
  <2> HIDE DEF next
  <2>3. Typed(x, Taken(1)) /\ x.allow_buf_error = s.allow_buf_error /\ Going(x)
    BY <1>7, <2>2, Zenon
  <2> HIDE DEF x
  <2>4. QED
    BY <1>2, <2>1, <2>3 DEF Outcome, Goes
<1>10. QED
  BY <1>8, <1>9

\* A byte of a number of the Index.
LEMMA DecIndexOK ==
  ASSUME InMain, DecIndex
  PROVE  Outcome
<1> DEFINE vli == (IF s.pos = 0 THEN 0 ELSE s.vli) + (Next1 % VLI_BASE) * VLI_BASE ^ s.pos
           bad == IF Next1 < VLI_BASE THEN Next1 = 0 /\ s.pos # 0 ELSE s.pos + 1 = VLI_BYTES_MAX
           xz == [s EXCEPT !.vli = vli, !.pos = IF Next1 < VLI_BASE THEN 0 ELSE @ + 1]
<1>1. /\ s \in DecoderType /\ s.sequence = "SEQ_INDEX" /\ More /\ At("SEQ_INDEX")
      /\ Typed(s, b) /\ Going(s) /\ b.in_pos \in Nat /\ s.in_start \in Nat /\ s.vli \in Nat
      /\ s.pos \in 0..1
  BY InMainIs DEF At, DecoderType, BufType, DecIndex, Going, VLI_BYTES_MAX
<1>2. /\ Next1 \in Byte /\ Grows(Taken(1)) /\ Taken(1).in_pos = b.in_pos + 1 /\ Taken(1).out = b.out
      /\ Taken(1).in_pos \in Nat /\ Taken(1).in_pos <= Len(input)
  BY <1>1, NextByte DEF Grows, BufferOK, BufType
<1>3. vli \in Nat
  <2>1. 8 ^ 0 = 1 /\ 8 ^ 1 = 8
    OBVIOUS
  <2>2. VLI_BASE ^ s.pos \in Nat
    <3>1. CASE s.pos = 0
      <4>1. VLI_BASE ^ s.pos = 8 ^ 0
        BY <3>1 DEF VLI_BASE
      <4>2. QED
        BY <2>1, <4>1
    <3>2. CASE s.pos = 1
      <4>1. VLI_BASE ^ s.pos = 8 ^ 1
        BY <3>2 DEF VLI_BASE
      <4>2. QED
        BY <2>1, <4>1
    <3>3. QED
      BY <1>1, <3>1, <3>2
  <2>3. Next1 % VLI_BASE \in Nat
    BY <1>2 DEF VLI_BASE, Byte
  <2>4. PICK i \in Nat, j \in Nat : i = Next1 % VLI_BASE /\ j = VLI_BASE ^ s.pos
    BY <2>2, <2>3
  <2>5. i * j \in Nat
    OBVIOUS
  <2>6. QED
    BY <1>1, <2>4, <2>5
<1>4. IF bad THEN Return(Updated(xz, Taken(1)), Taken(1), "XZ_DATA_ERROR")
      ELSE IF Next1 < VLI_BASE THEN IndexField(xz)
      ELSE Continue(xz, Taken(1))
  BY DEF DecIndex
<1> HIDE DEF vli
<1>5. PICK n : n = IF Next1 < VLI_BASE THEN 0 ELSE s.pos + 1
  OBVIOUS
<1>6. n \in 0..VLI_BYTES_MAX /\ (~bad => n < VLI_BYTES_MAX)
  BY <1>1, <1>5 DEF VLI_BYTES_MAX
<1>7. xz = [s EXCEPT !.vli = vli, !.pos = n]
  BY <1>5
<1> HIDE DEF xz, bad
<1>8. /\ xz \in DecoderType /\ SameBut(xz) /\ xz.sequence = "SEQ_INDEX" /\ xz.pos = n /\ xz.block = s.block
  BY <1>1, <1>3, <1>6, <1>7 DEF DecoderType, SameBut
<1>9. CASE bad
  <2>1. Return(Updated(xz, Taken(1)), Taken(1), "XZ_DATA_ERROR")
    BY <1>4, <1>9
  <2>2. PICK x : x = Updated(xz, Taken(1))
    OBVIOUS
  <2>3. xz.in_start <= Taken(1).in_pos /\ input \in Seq(Byte)
    BY <1>1, <1>2, <1>8, InMainIs DEF Typed, SameBut
  <2>4. /\ x \in DecoderType /\ SameBut([x EXCEPT !.index = s.index])
        /\ x.sequence = "SEQ_INDEX" /\ x.pos = n /\ x.temp = s.temp /\ x.filter = s.filter
        /\ x.in_start = s.in_start /\ x.out_start = s.out_start /\ x.allow_buf_error = s.allow_buf_error
    <3>1. /\ x \in DecoderType
          /\ x.temp = xz.temp /\ x.filter = xz.filter
          /\ x.in_start = xz.in_start /\ x.out_start = xz.out_start
          /\ x.allow_buf_error = xz.allow_buf_error /\ x.pos = xz.pos /\ x.sequence = xz.sequence
      BY <1>2, <1>8, <2>2, <2>3, UpdatedIs
    <3>2. QED
      BY <1>8, <3>1 DEF SameBut, DecoderType
  <2>5. Typed(x, Taken(1))
    BY <1>1, <1>2, <2>4 DEF Typed
  <2>6. Stops(x, Taken(1), "XZ_DATA_ERROR")
    BY <1>2, <2>4, <2>5 DEF Stops, Errors
  <2>7. QED
    BY <2>1, <2>2, <2>6 DEF Outcome
<1>10. CASE ~bad /\ Next1 < VLI_BASE
  <2>1. IndexField([s EXCEPT !.vli = vli, !.pos = 0])
    BY <1>4, <1>5, <1>7, <1>10
  <2>2. QED
    BY <1>1, <1>3, <2>1, IndexFieldOK, Zenon
<1>11. CASE ~bad /\ ~(Next1 < VLI_BASE)
  <2>1. Continue(xz, Taken(1))
    BY <1>4, <1>11
  <2>2. Typed(xz, Taken(1))
    BY <1>1, <1>2, <1>8 DEF Typed, SameBut
  <2>3. Going(xz)
    BY <1>1, <1>6, <1>8, <1>11 DEF Going, SameBut
  <2>4. QED
    BY <1>2, <1>8, <2>1, <2>2, <2>3 DEF Outcome, Goes, SameBut
<1>12. QED
  BY <1>9, <1>10, <1>11

\* The whole of dec_main().
LEMMA MainOK ==
  ASSUME TypeInv, dec_main
  PROVE  Outcome
<1>1. InMain
  BY DEF InMain, dec_main, FillSome, StreamHeader, BlockStart, DecBlockHeader, NoMemory, FilterPauses,
    FilterReads, FilterDecodes, FilterWrites, FilterEnds, BlockPadding, BlockCheck, DecIndex,
    IndexPadding, IndexComplete, IndexCrc32, StreamFooter, Wait, WaitForInput, IndexWaits,
    IndexPaddingWaits, At
<1>2. QED
  BY <1>1, FillSomeOK, StreamHeaderOK, BlockStartOK, DecBlockHeaderOK, NoMemoryOK, FilterPausesOK,
    FilterReadsOK, FilterDecodesOK, FilterWritesOK, FilterEndsOK, BlockPaddingOK, BlockCheckOK,
    DecIndexOK, IndexPaddingOK, IndexCompleteOK, IndexCrc32OK, StreamFooterOK, WaitOK
    DEF dec_main

-----------------------------------------------------------------------------
(* The format.                                                             *)

\* w lies at place p of u.
Lies(u, p, w) ==
  /\ p + Len(w) <= Len(u)
  /\ \A i \in 1..Len(w) : u[p + i] = w[i]

\* Where a sequence lies, its parts do.
LEMMA LiesSplit ==
  ASSUME NEW T, NEW u \in Seq(T), NEW v \in Seq(T), NEW w \in Seq(T), NEW p \in Nat,
         Lies(u, p, v \o w)
  PROVE  Lies(u, p, v) /\ Lies(u, p + Len(v), w)
<1>1. PICK z : z = v \o w
  OBVIOUS
<1>2. /\ Len(z) = Len(v) + Len(w)
      /\ \A i \in 1..Len(v) : z[i] = v[i]
      /\ \A i \in 1..Len(w) : z[Len(v) + i] = w[i]
  BY <1>1, ConcatIs
<1>3. p + Len(z) <= Len(u) /\ \A i \in 1..Len(z) : u[p + i] = z[i]
  BY <1>1 DEF Lies
<1>4. PICK m \in Nat, n \in Nat, k \in Nat : m = Len(v) /\ n = Len(w) /\ k = Len(u)
  OBVIOUS
<1>5. ASSUME NEW i \in 1..m PROVE u[p + i] = v[i]
  <2>1. i \in 1..Len(z)
    BY <1>2, <1>4
  <2>2. QED
    BY <1>2, <1>3, <1>4, <2>1
<1>6. ASSUME NEW i \in 1..n PROVE u[(p + m) + i] = w[i]
  <2>1. m + i \in 1..Len(z) /\ p + (m + i) = (p + m) + i
    BY <1>2, <1>4
  <2>2. u[p + (m + i)] = z[m + i] /\ z[m + i] = w[i]
    BY <1>2, <1>3, <1>4, <2>1
  <2>3. QED
    BY <2>1, <2>2
<1>7. p + m <= k /\ (p + m) + n <= k
  BY <1>2, <1>3, <1>4
<1>8. QED
  BY <1>4, <1>5, <1>6, <1>7 DEF Lies

\* What lies in a part lies in the whole.
LEMMA LiesWithin ==
  ASSUME NEW T, NEW u \in Seq(T), NEW v \in Seq(T), NEW w \in Seq(T), NEW p \in Nat, NEW q \in Nat,
         Lies(u, p, v), Lies(v, q, w)
  PROVE  Lies(u, p + q, w)
<1>1. PICK m \in Nat, n \in Nat, k \in Nat : m = Len(v) /\ n = Len(w) /\ k = Len(u)
  OBVIOUS
<1>2. ASSUME NEW i \in 1..n PROVE u[(p + q) + i] = w[i]
  <2>1. q + i \in 1..m /\ p + (q + i) = (p + q) + i
    BY <1>1 DEF Lies
  <2>2. u[p + (q + i)] = v[q + i] /\ v[q + i] = w[i]
    BY <1>1, <2>1 DEF Lies
  <2>3. QED
    BY <2>1, <2>2
<1>3. q + n <= m /\ p + m <= k
  BY <1>1 DEF Lies
<1>4. (p + q) + n <= k
  BY <1>3
<1>5. QED
  BY <1>1, <1>2, <1>4 DEF Lies

\* The whole of it, and pieces behind one another.
LEMMA LiesSelf ==
  ASSUME NEW T, NEW u \in Seq(T)
  PROVE  Lies(u, 0, u)
BY DEF Lies

\* Both parts of a sequence lie in it.
LEMMA LiesConcat ==
  ASSUME NEW T, NEW u \in Seq(T), NEW v \in Seq(T)
  PROVE  Lies(u \o v, 0, u) /\ Lies(u \o v, Len(u), v)
<1>1. u \o v \in Seq(T) /\ 0 + Len(u) = Len(u)
  OBVIOUS
<1>2. Lies(u \o v, 0, u \o v)
  BY <1>1, LiesSelf
<1>3. Lies(u \o v, 0, u) /\ Lies(u \o v, 0 + Len(u), v)
  BY <1>1, <1>2, LiesSplit
<1>4. QED
  BY <1>1, <1>3

\* A number of variable length.
LEMMA EncodeVliIs ==
  ASSUME NEW n \in Vli
  PROVE  /\ EncodeVli(n) \in Seq(Byte) /\ Len(EncodeVli(n)) \in 1..2
         /\ n < VLI_BASE => EncodeVli(n) = <<n>> /\ Len(EncodeVli(n)) = 1
         /\ n >= VLI_BASE =>
              /\ Len(EncodeVli(n)) = 2
              /\ EncodeVli(n)[1] = VLI_BASE + (n % VLI_BASE) /\ EncodeVli(n)[2] = n \div VLI_BASE
              /\ n \div VLI_BASE \in 1..7 /\ n % VLI_BASE \in 0..7
              /\ n = (n % VLI_BASE) + VLI_BASE * (n \div VLI_BASE)
<1>1. n \in 0..63
  BY DEF Vli, VLI_UNKNOWN
<1>2. CASE n < VLI_BASE
  <2>1. EncodeVli(n) = <<n>> /\ n \in Byte
    BY <1>1, <1>2 DEF EncodeVli, VLI_BASE, Byte
  <2>2. PICK v : v = <<n>>
    OBVIOUS
  <2>3. v \in Seq(Byte) /\ Len(v) = 1
    BY <2>1, <2>2
  <2>4. QED
    BY <1>1, <1>2, <2>1, <2>2, <2>3 DEF VLI_BASE
<1>3. CASE n >= VLI_BASE
  <2>1. PICK q, r : q = n \div 8 /\ r = n % 8
    OBVIOUS
  <2>2. q \in 1..7 /\ r \in 0..7 /\ n = r + 8 * q
    BY <1>1, <1>3, <2>1 DEF VLI_BASE
  <2>3. EncodeVli(n) = <<8 + r, q>>
    BY <1>1, <1>3, <2>1 DEF EncodeVli, VLI_BASE
  <2>4. 8 + r \in Byte /\ q \in Byte
    BY <2>2 DEF Byte
  <2>5. PICK v : v = <<8 + r, q>>
    OBVIOUS
  <2>6. v \in Seq(Byte) /\ Len(v) = 2 /\ v[1] = 8 + r /\ v[2] = q
    BY <2>4, <2>5
  <2>7. EncodeVli(n) = v /\ n \div VLI_BASE = q /\ n % VLI_BASE = r
    BY <2>1, <2>3, <2>5 DEF VLI_BASE
  <2>8. VLI_BASE + r = 8 + r /\ n = r + VLI_BASE * q /\ ~(n < VLI_BASE) /\ 2 \in 1..2
    BY <1>1, <1>3, <2>2 DEF VLI_BASE
  <2>9. QED
    BY <2>2, <2>6, <2>7, <2>8
<1>4. QED
  BY <1>1, <1>2, <1>3 DEF VLI_BASE

\* n times the same.
Repeated(byte, n) == [i \in 1..n |-> byte]

\* A byte again and again.
LEMMA RepeatedIs ==
  ASSUME NEW T, NEW e \in T, NEW n \in Nat
  PROVE  Repeated(e, n) \in Seq(T) /\ Len(Repeated(e, n)) = n /\ \A i \in 1..n : Repeated(e, n)[i] = e
BY DEF Repeated

\* Up to the next multiple of four.
LEMMA PadIs ==
  ASSUME NEW u \in Seq(Byte), NEW byte \in Byte
  PROVE  \E n \in 0..3 : /\ Pad(u, byte) = u \o Repeated(byte, n)
                         /\ Pad(u, byte) \in Seq(Byte) /\ Len(Pad(u, byte)) = Len(u) + n
                         /\ Len(Pad(u, byte)) % 4 = 0
                         /\ \A m \in Nat : m < n => (Len(u) + m) % 4 # 0
                         /\ Lies(Pad(u, byte), 0, u) /\ Lies(Pad(u, byte), Len(u), Repeated(byte, n))
<1>1. PICK m, n : m = Len(u) /\ m \in Nat /\ n = (4 - (m % 4)) % 4
  OBVIOUS
<1>2. n \in 0..3 /\ (m + n) % 4 = 0 /\ \A k \in Nat : k < n => (m + k) % 4 # 0
  BY <1>1
<1>3. PICK r : r = Repeated(byte, n)
  OBVIOUS
<1>4. r \in Seq(Byte) /\ Len(r) = n
  <2>1. n \in Nat
    BY <1>2
  <2>2. QED
    BY <1>3, <2>1, RepeatedIs
<1>5. Pad(u, byte) = u \o r
  BY <1>1, <1>3 DEF Pad, Repeated
<1>6. u \o r \in Seq(Byte) /\ Len(u \o r) = m + n
  BY <1>1, <1>4, ConcatIs
<1>7. Lies(u \o r, 0, u) /\ Lies(u \o r, Len(u), r)
  BY <1>4, LiesConcat
<1>8. QED
  BY <1>1, <1>2, <1>3, <1>5, <1>6, <1>7

\* With the check behind it.
LEMMA CheckedIs ==
  ASSUME NEW u \in Seq(Byte)
  PROVE  /\ Checked(u) = u \o CrcField(xz_crc32(u, 0))
         /\ xz_crc32(u, 0) \in 0..(CHECK_VALUES - 1) /\ xz_crc32(u, 0) \in Nat
         /\ CrcField(xz_crc32(u, 0)) \in Seq(Byte) /\ Len(CrcField(xz_crc32(u, 0))) = CHECK_BYTES
         /\ Checked(u) \in Seq(Byte) /\ Len(Checked(u)) = Len(u) + CHECK_BYTES
<1>1. u \in Seq(Nat) /\ 0 \in 0..(CHECK_VALUES - 1)
  BY BytesAreNumbers DEF CHECK_VALUES
<1>2. xz_crc32(u, 0) \in 0..(CHECK_VALUES - 1) /\ xz_crc32(u, 0) \in Nat
  <2>1. xz_crc32(u, 0) \in 0..(CHECK_VALUES - 1)
    BY <1>1, CrcIs
  <2>2. \A i \in 0..(CHECK_VALUES - 1) : i \in Nat
    BY DEF CHECK_VALUES
  <2>3. QED
    BY <2>1, <2>2
<1>3. PICK f : f = CrcField(xz_crc32(u, 0))
  OBVIOUS
<1>4. f \in Seq(Byte) /\ Len(f) = CHECK_BYTES
  BY <1>2, <1>3, CrcFieldIs
<1>5. u \o f \in Seq(Byte) /\ Len(u \o f) = Len(u) + Len(f)
  BY <1>4, ConcatIs
<1>6. QED
  BY <1>2, <1>3, <1>4, <1>5 DEF Checked

-----------------------------------------------------------------------------
(* Block Headers as the packer writes them.                                *)

\* The fields of a Block Header.
SizeField(n) == IF n = VLI_UNKNOWN THEN <<>> ELSE EncodeVli(n)
FilterField(blk) == IF blk.filters = <<>> THEN <<>> ELSE <<blk.filters[1], 0>>
Lzma2Field(blk) == <<LZMA2_ID, 1, blk.dict>>
Flags(blk) ==
  Len(blk.filters) + (IF blk.compressed = VLI_UNKNOWN THEN 0 ELSE 2)
    + (IF blk.uncompressed = VLI_UNKNOWN THEN 0 ELSE 4) + (IF blk.reserved THEN 8 ELSE 0)
Fields(blk) ==
  <<Flags(blk)>> \o SizeField(blk.compressed) \o SizeField(blk.uncompressed) \o FilterField(blk)
    \o Lzma2Field(blk)
HeaderSize(blk) == ((1 + Len(Fields(blk)) + CHECK_BYTES + 3) \div 4) * 4
HeaderBody(blk) ==
  <<HeaderSize(blk) \div 4 - 1>> \o Fields(blk)
    \o Repeated(blk.header_padding, HeaderSize(blk) - 1 - Len(Fields(blk)) - CHECK_BYTES)

\* A Block Header is its body and a CRC32 over it.
LEMMA HeaderIsChecked ==
  ASSUME NEW blk
  PROVE  BlockHeader(blk) = Checked(HeaderBody(blk))
BY DEF BlockHeader, HeaderBody, HeaderSize, Fields, Flags, SizeField, FilterField, Lzma2Field, Repeated

\* A size in the Block Header: there, or left out.
LEMMA SizeFieldIs ==
  ASSUME NEW n \in Vli \cup {VLI_UNKNOWN}
  PROVE  /\ SizeField(n) \in Seq(Byte) /\ Len(SizeField(n)) \in 0..2
         /\ n = VLI_UNKNOWN => SizeField(n) = <<>> /\ Len(SizeField(n)) = 0
         /\ n # VLI_UNKNOWN => n \in Vli /\ SizeField(n) = EncodeVli(n)
<1>1. CASE n = VLI_UNKNOWN
  BY <1>1 DEF SizeField
<1>2. CASE n # VLI_UNKNOWN
  <2>1. n \in Vli /\ SizeField(n) = EncodeVli(n)
    BY <1>2 DEF SizeField
  <2>2. EncodeVli(n) \in Seq(Byte) /\ Len(EncodeVli(n)) \in 1..2
    BY <2>1, EncodeVliIs
  <2>3. QED
    BY <1>2, <2>1, <2>2
<1>3. QED
  BY <1>1, <1>2

\* The flags say which fields there are.
LEMMA FlagsAre ==
  ASSUME NEW blk \in BlockType
  PROVE  /\ Flags(blk) \in Byte
         /\ HasBit(Flags(blk), 1) = (blk.filters # <<>>)
         /\ HasBit(Flags(blk), 2) = (blk.compressed # VLI_UNKNOWN)
         /\ HasBit(Flags(blk), 4) = (blk.uncompressed # VLI_UNKNOWN)
         /\ HasBit(Flags(blk), 8) = blk.reserved
         /\ FilterField(blk) \in Seq(Byte)
         /\ Len(FilterField(blk)) = IF blk.filters = <<>> THEN 0 ELSE 2
         /\ Lzma2Field(blk) \in Seq(Byte) /\ Len(Lzma2Field(blk)) = 3
<1>1. /\ blk.filters \in {<<>>} \cup {<<id>> : id \in Byte} /\ blk.reserved \in BOOLEAN /\ blk.dict \in Byte
  BY DEF BlockType
<1>2. PICK f \in 0..1 : f = Len(blk.filters) /\ (f = 1) = (blk.filters # <<>>)
  <2>1. CASE blk.filters = <<>>
    BY <2>1
  <2>2. CASE blk.filters # <<>>
    <3>1. PICK id \in Byte : blk.filters = <<id>>
      BY <1>1, <2>2
    <3>2. Len(blk.filters) = 1
      BY <3>1
    <3>3. QED
      BY <2>2, <3>2
  <2>3. QED
    BY <2>1, <2>2
<1>3. PICK c \in 0..1 : (c = 1) = (blk.compressed # VLI_UNKNOWN)
  <2>1. CASE blk.compressed = VLI_UNKNOWN
    BY <2>1
  <2>2. CASE blk.compressed # VLI_UNKNOWN
    BY <2>2
  <2>3. QED
    BY <2>1, <2>2
<1>4. PICK u \in 0..1 : (u = 1) = (blk.uncompressed # VLI_UNKNOWN)
  <2>1. CASE blk.uncompressed = VLI_UNKNOWN
    BY <2>1
  <2>2. CASE blk.uncompressed # VLI_UNKNOWN
    BY <2>2
  <2>3. QED
    BY <2>1, <2>2
<1>5. PICK r \in 0..1 : (blk.reserved => r = 1) /\ (~blk.reserved => r = 0)
  <2>1. CASE blk.reserved
    BY <2>1
  <2>2. CASE ~blk.reserved
    BY <2>2
  <2>3. QED
    BY <2>1, <2>2
<1>6. Flags(blk) = f + 2 * c + 4 * u + 8 * r
  <2>1. (IF blk.compressed = VLI_UNKNOWN THEN 0 ELSE 2) = 2 * c
    BY <1>3
  <2>2. (IF blk.uncompressed = VLI_UNKNOWN THEN 0 ELSE 4) = 4 * u
    BY <1>4
  <2>3. (IF blk.reserved THEN 8 ELSE 0) = 8 * r
    <3>1. CASE blk.reserved
      BY <1>5, <3>1
    <3>2. CASE ~blk.reserved
      BY <1>5, <3>2
    <3>3. QED
      BY <3>1, <3>2
  <2>4. QED
    BY <1>2, <2>1, <2>2, <2>3 DEF Flags
<1>7. PICK n : n = f + 2 * c + 4 * u + 8 * r
  OBVIOUS
<1>8. /\ n \in Byte /\ (n \div 1) % 2 = f /\ (n \div 2) % 2 = c /\ (n \div 4) % 2 = u
      /\ (n \div 8) % 2 = r
  BY <1>7 DEF Byte
<1>9. /\ Flags(blk) \in Byte
      /\ HasBit(Flags(blk), 1) = (blk.filters # <<>>)
      /\ HasBit(Flags(blk), 2) = (blk.compressed # VLI_UNKNOWN)
      /\ HasBit(Flags(blk), 4) = (blk.uncompressed # VLI_UNKNOWN)
      /\ HasBit(Flags(blk), 8) = blk.reserved
  <2>1. /\ HasBit(n, 1) = (f = 1) /\ HasBit(n, 2) = (c = 1) /\ HasBit(n, 4) = (u = 1)
        /\ HasBit(n, 8) = (r = 1)
    BY <1>8 DEF HasBit
  <2>2. Flags(blk) = n /\ n \in Byte
    BY <1>6, <1>7, <1>8
  <2>3. HasBit(n, 8) = blk.reserved
    <3>1. CASE blk.reserved
      BY <1>5, <2>1, <3>1
    <3>2. CASE ~blk.reserved
      <4>1. blk.reserved = FALSE
        BY <1>1, <3>2
      <4>2. ~HasBit(n, 8)
        BY <1>5, <1>8, <3>2 DEF HasBit
      <4>3. HasBit(n, 8) = FALSE
        BY <4>2 DEF HasBit
      <4>4. QED
        BY <4>1, <4>3
    <3>3. QED
      BY <3>1, <3>2
  <2>4. QED
    BY <1>2, <1>3, <1>4, <2>1, <2>2, <2>3
<1>10. FilterField(blk) \in Seq(Byte) /\ Len(FilterField(blk)) = IF blk.filters = <<>> THEN 0 ELSE 2
  <2>1. CASE blk.filters = <<>>
    BY <2>1 DEF FilterField
  <2>2. CASE blk.filters # <<>>
    <3>1. PICK id \in Byte : blk.filters = <<id>>
      BY <1>1, <2>2
    <3>2. blk.filters[1] = id
      BY <3>1
    <3>3. PICK v : v = <<id, 0>>
      OBVIOUS
    <3>4. v \in Seq(Byte) /\ Len(v) = 2
      BY <3>3 DEF Byte
    <3>5. FilterField(blk) = v
      BY <2>2, <3>2, <3>3 DEF FilterField
    <3>6. QED
      BY <2>2, <3>4, <3>5
  <2>3. QED
    BY <2>1, <2>2
<1>11. Lzma2Field(blk) \in Seq(Byte) /\ Len(Lzma2Field(blk)) = 3
  <2>1. PICK e \in Byte : e = blk.dict
    BY <1>1
  <2>2. <<LZMA2_ID, 1, e>> \in Seq(Byte) /\ Len(<<LZMA2_ID, 1, e>>) = 3
    BY DEF LZMA2_ID, Byte
  <2>3. QED
    BY <2>1, <2>2 DEF Lzma2Field
<1>12. QED
  BY <1>9, <1>10, <1>11

\* Where the fields are.
HeaderLayout(blk, n, a, u, f) ==
  /\ n \in 1..3 /\ a \in 0..2 /\ u \in 0..2 /\ f \in {0, 2}
  /\ a = Len(SizeField(blk.compressed)) /\ u = Len(SizeField(blk.uncompressed))
  /\ f = Len(FilterField(blk))
  /\ HeaderBody(blk) \in Seq(Byte) /\ Len(HeaderBody(blk)) + CHECK_BYTES = (n + 1) * 4
  /\ HeaderBody(blk)[1] = n /\ HeaderBody(blk)[2] = Flags(blk)
  /\ Lies(HeaderBody(blk), 2, SizeField(blk.compressed))
  /\ Lies(HeaderBody(blk), 2 + a, SizeField(blk.uncompressed))
  /\ Lies(HeaderBody(blk), 2 + a + u, FilterField(blk))
  /\ Lies(HeaderBody(blk), 2 + a + u + f, Lzma2Field(blk))
  /\ \A p \in (6 + a + u + f)..Len(HeaderBody(blk)) : HeaderBody(blk)[p] = blk.header_padding

\* The body of a Block Header fills it up to the CRC32.
LEMMA HeaderBodyIs ==
  ASSUME NEW blk \in BlockType
  PROVE  \E n, a, u, f : HeaderLayout(blk, n, a, u, f)
<1>1. PICK A \in Seq(Byte), U \in Seq(Byte), F \in Seq(Byte), L \in Seq(Byte) :
        /\ A = SizeField(blk.compressed) /\ U = SizeField(blk.uncompressed)
        /\ F = FilterField(blk) /\ L = Lzma2Field(blk)
        /\ Len(A) \in 0..2 /\ Len(U) \in 0..2 /\ Len(F) \in {0, 2} /\ Len(L) = 3
  <2>1. blk.compressed \in Vli \cup {VLI_UNKNOWN} /\ blk.uncompressed \in Vli \cup {VLI_UNKNOWN}
    BY DEF BlockType
  <2>2. /\ SizeField(blk.compressed) \in Seq(Byte) /\ Len(SizeField(blk.compressed)) \in 0..2
        /\ SizeField(blk.uncompressed) \in Seq(Byte) /\ Len(SizeField(blk.uncompressed)) \in 0..2
    BY <2>1, SizeFieldIs
  <2>3. QED
    BY <2>2, FlagsAre
<1>2. PICK G \in Seq(Byte) : G = <<Flags(blk)>> /\ Len(G) = 1 /\ G[1] = Flags(blk)
  <2>1. PICK e \in Byte : e = Flags(blk)
    BY FlagsAre
  <2>2. <<e>> \in Seq(Byte) /\ Len(<<e>>) = 1 /\ <<e>>[1] = e
    OBVIOUS
  <2>3. QED
    BY <2>1, <2>2
<1>3. PICK a, u, f : a = Len(A) /\ u = Len(U) /\ f = Len(F)
  OBVIOUS
<1>4. /\ G \o A \in Seq(Byte) /\ Len(G \o A) = 1 + a
      /\ (G \o A) \o U \in Seq(Byte) /\ Len((G \o A) \o U) = 1 + a + u
  BY <1>2, <1>3, ConcatIs
<1>5. PICK V \in Seq(Byte) : V = (G \o A) \o U /\ Len(V) = 1 + a + u
  BY <1>4
<1>6. PICK X \in Seq(Byte) : X = V \o F /\ Len(X) = 1 + a + u + f
  <2>1. V \o F \in Seq(Byte) /\ Len(V \o F) = Len(V) + Len(F)
    BY ConcatIs
  <2>2. QED
    BY <1>3, <1>5, <2>1
<1>7. Fields(blk) = X \o L
  BY <1>1, <1>2, <1>5, <1>6 DEF Fields
<1>8. PICK W \in Seq(Byte) : W = Fields(blk) /\ Len(W) = 4 + a + u + f
  <2>1. X \o L \in Seq(Byte) /\ Len(X \o L) = Len(X) + Len(L)
    BY ConcatIs
  <2>2. Len(X) + Len(L) = 4 + a + u + f
    BY <1>1, <1>3, <1>6
  <2>3. QED
    BY <1>7, <2>1, <2>2
<1>9. PICK size : size = HeaderSize(blk)
  OBVIOUS
<1>10. PICK n, m : n = size \div 4 - 1 /\ m = size - 1 - Len(W) - CHECK_BYTES
  OBVIOUS
<1>11. /\ a \in 0..2 /\ u \in 0..2 /\ f \in {0, 2}
  BY <1>1, <1>3
<1>12. n \in 1..3 /\ m \in 0..3 /\ size = (n + 1) * 4 /\ 1 + Len(W) + m + CHECK_BYTES = size
  <2>1. PICK l \in 4..10 : l = Len(W)
    BY <1>8, <1>11
  <2>2. size = ((1 + l + 2 + 3) \div 4) * 4 /\ m = size - 1 - l - 2
    BY <1>8, <1>9, <1>10, <2>1 DEF HeaderSize, CHECK_BYTES
  <2>3. PICK q : q = (6 + l) \div 4
    OBVIOUS
  <2>4. q \in 2..4 /\ 4 * q <= 6 + l /\ 6 + l < 4 * q + 4
    BY <2>3
  <2>5. size = q * 4
    BY <2>2, <2>3
  <2>6. (q * 4) \div 4 = q
    BY <2>4
  <2>7. n = q - 1
    BY <1>10, <2>5, <2>6
  <2>8. n \in 1..3 /\ size = (n + 1) * 4
    BY <2>4, <2>5, <2>7
  <2>9. m = q * 4 - 3 - l
    BY <2>1, <2>2, <2>4, <2>5
  <2>10. m \in 0..3 /\ 1 + l + m + 2 = q * 4
    BY <2>1, <2>4, <2>9
  <2>11. QED
    BY <2>1, <2>5, <2>8, <2>10 DEF CHECK_BYTES
<1>13. PICK N \in Seq(Byte) : N = <<n>> /\ Len(N) = 1 /\ N[1] = n
  <2>1. n \in Byte
    BY <1>12 DEF Byte
  <2>2. <<n>> \in Seq(Byte) /\ Len(<<n>>) = 1 /\ <<n>>[1] = n
    BY <2>1
  <2>3. QED
    BY <2>2
<1>14. PICK P \in Seq(Byte) : /\ P = Repeated(blk.header_padding, m) /\ Len(P) = m
                              /\ \A i \in 1..m : P[i] = blk.header_padding
  <2>1. blk.header_padding \in Byte /\ m \in Nat
    BY <1>12 DEF BlockType
  <2>2. QED
    BY <2>1, RepeatedIs, ZenonT(60)
<1>15. PICK B : B = HeaderBody(blk)
  OBVIOUS
<1>16. B = (N \o W) \o P
  BY <1>8, <1>9, <1>10, <1>13, <1>14, <1>15 DEF HeaderBody
<1>17. /\ N \o W \in Seq(Byte) /\ Len(N \o W) = 1 + Len(W)
       /\ B \in Seq(Byte) /\ Len(B) = (1 + Len(W)) + m
  BY <1>13, <1>14, <1>16, ConcatIs
<1>18. Lies(B, 0, (N \o W) \o P)
  BY <1>16, <1>17, LiesSelf
<1>19. Lies(B, 0, N \o W) /\ Lies(B, 0 + (1 + Len(W)), P)
  BY <1>17, <1>18, LiesSplit
<1>20. Lies(B, 0, N) /\ Lies(B, 1, X \o L)
  <2>1. Lies(B, 0, N) /\ Lies(B, 0 + 1, W)
    BY <1>13, <1>17, <1>19, LiesSplit
  <2>2. 0 + 1 = 1
    OBVIOUS
  <2>3. QED
    BY <1>7, <1>8, <2>1, <2>2
<1>21. Lies(B, 1, X) /\ Lies(B, 1 + (1 + a + u + f), L)
  BY <1>6, <1>17, <1>20, LiesSplit
<1>22. Lies(B, 1, V) /\ Lies(B, 1 + (1 + a + u), F)
  BY <1>5, <1>6, <1>17, <1>21, LiesSplit
<1>23. Lies(B, 1, G \o A) /\ Lies(B, 1 + (1 + a), U)
  BY <1>4, <1>5, <1>17, <1>22, LiesSplit
<1>24. Lies(B, 1, G) /\ Lies(B, 1 + 1, A)
  BY <1>2, <1>17, <1>23, LiesSplit
<1>25. B[0 + 1] = N[1] /\ B[1 + 1] = G[1]
  BY <1>2, <1>13, <1>20, <1>24 DEF Lies
<1>26. /\ 1 + (1 + a + u + f) = 2 + a + u + f /\ 1 + (1 + a + u) = 2 + a + u /\ 1 + (1 + a) = 2 + a
       /\ Len(B) + CHECK_BYTES = (n + 1) * 4
       /\ 0 + (1 + Len(W)) = 5 + a + u + f
  BY <1>8, <1>11, <1>12, <1>17 DEF CHECK_BYTES
<1>27. ASSUME NEW p \in (6 + a + u + f)..Len(B) PROVE B[p] = blk.header_padding
  <2>1. PICK k \in Nat : k = 5 + a + u + f
    BY <1>11
  <2>2. p - k \in 1..m /\ k + (p - k) = p /\ Len(B) = k + m
    BY <1>8, <1>11, <1>12, <1>17, <2>1
  <2>3. B[k + (p - k)] = P[p - k]
    BY <1>14, <1>19, <1>26, <2>1, <2>2 DEF Lies
  <2>4. QED
    BY <1>14, <2>2, <2>3
<1>28. HeaderLayout(blk, n, a, u, f)
  BY <1>1, <1>2, <1>3, <1>11, <1>12, <1>13, <1>15, <1>17, <1>21, <1>22, <1>23, <1>24, <1>25, <1>26, <1>27, SMTT(30)
    DEF HeaderLayout
<1>29. QED
  BY <1>28

\* What is written is read back.
LEMMA VliIsRead ==
  ASSUME NEW buf \in Seq(Byte), NEW p \in Nat, NEW n \in Vli, Lies(buf, p, EncodeVli(n))
  PROVE  VliAt(buf, p + 1) = [value |-> n, next |-> p + 1 + Len(EncodeVli(n))]
<1>1. PICK k \in Nat : k = Len(buf)
  OBVIOUS
<1>2. PICK v \in Seq(Byte) : v = EncodeVli(n)
  BY EncodeVliIs
<1>3. p + Len(v) <= k /\ \A i \in 1..Len(v) : buf[p + i] = v[i]
  BY <1>1, <1>2 DEF Lies
<1>4. n \in 0..63
  BY DEF Vli, VLI_UNKNOWN
<1>5. CASE n < VLI_BASE
  <2>1. v = <<n>> /\ Len(v) = 1
    BY <1>2, <1>5, EncodeVliIs
  <2>2. v[1] = n /\ 1 \in 1..Len(v)
    BY <2>1
  <2>3. buf[p + 1] = n /\ p + 1 <= k
    BY <1>3, <2>1, <2>2
  <2>4. p + 1 # 0 /\ ~(p + 1 > k)
    BY <1>1, <2>3
  <2>5. VliAt(buf, p + 1) = [value |-> n, next |-> (p + 1) + 1]
    BY <1>1, <1>5, <2>3, <2>4 DEF VliAt
  <2>6. QED
    BY <1>2, <2>1, <2>5
<1>6. CASE n >= VLI_BASE
  <2>1. PICK q, r : q = n \div VLI_BASE /\ r = n % VLI_BASE
    OBVIOUS
  <2>2. Len(v) = 2 /\ v[1] = VLI_BASE + r /\ v[2] = q /\ q \in 1..7 /\ r \in 0..7 /\ n = r + VLI_BASE * q
    BY <1>2, <1>6, <2>1, EncodeVliIs
  <2>3. 1 \in 1..Len(v) /\ 2 \in 1..Len(v)
    BY <2>2
  <2>4. buf[p + 1] = VLI_BASE + r /\ buf[p + 2] = q /\ p + 2 <= k
    BY <1>3, <2>2, <2>3
  <2>5. (p + 1) + 1 = p + 2 /\ ~(p + 1 = 0 \/ p + 1 > k) /\ ~(p + 2 > k)
    BY <2>4
  <2>6. ~(VLI_BASE + r < VLI_BASE) /\ ~(q >= VLI_BASE) /\ q # 0
        /\ (VLI_BASE + r) - VLI_BASE + VLI_BASE * q = n
    BY <2>2 DEF VLI_BASE
  <2>7. PICK j \in Nat : j = p + 1
    OBVIOUS
  <2>8. /\ ~(j = 0 \/ j > Len(buf)) /\ ~(j + 1 > Len(buf))
        /\ buf[j] = VLI_BASE + r /\ buf[j + 1] = q
    BY <1>1, <2>4, <2>5, <2>7
  <2>9. VliAt(buf, j) = [value |-> (VLI_BASE + r) - VLI_BASE + VLI_BASE * q, next |-> j + 2]
    <3>1. ~(buf[j] < VLI_BASE) /\ ~(buf[j + 1] >= VLI_BASE) /\ buf[j + 1] # 0
      BY <2>6, <2>8
    <3>2. VliAt(buf, j) = [value |-> buf[j] - VLI_BASE + VLI_BASE * buf[j + 1], next |-> j + 2]
      BY <2>8, <3>1 DEF VliAt
    <3>3. PICK g, h : g = buf[j] /\ h = buf[j + 1]
      OBVIOUS
    <3>4. VliAt(buf, j) = [value |-> g - VLI_BASE + VLI_BASE * h, next |-> j + 2]
      BY <3>2, <3>3
    <3>5. g = VLI_BASE + r /\ h = q
      BY <2>8, <3>3
    <3>6. QED
      BY <3>4, <3>5
  <2>10. QED
    BY <1>2, <2>2, <2>6, <2>7, <2>9
<1>7. QED
  BY <1>4, <1>5, <1>6 DEF VLI_BASE

\* A Block Header is understood.
LEMMA HeaderIsRead ==
  ASSUME NEW blk \in BlockType, ~Unsupported(blk), ~(blk.dict > DICT_MAX)
  PROVE  /\ ParseBlockHeader(HeaderBody(blk)).result = "XZ_OK"
         /\ ParseBlockHeader(HeaderBody(blk)).compressed = blk.compressed
         /\ ParseBlockHeader(HeaderBody(blk)).uncompressed = blk.uncompressed
         /\ ParseBlockHeader(HeaderBody(blk)).padded
<1>1. PICK n, a, u, f : HeaderLayout(blk, n, a, u, f)
  BY HeaderBodyIs
<1>2. PICK B \in Seq(Byte) : B = HeaderBody(blk)
  BY <1>1 DEF HeaderLayout
<1>3. /\ n \in 1..3 /\ a \in 0..2 /\ u \in 0..2 /\ f \in {0, 2} /\ Len(B) \in Nat
      /\ a = Len(SizeField(blk.compressed)) /\ u = Len(SizeField(blk.uncompressed))
      /\ f = Len(FilterField(blk)) /\ B[2] = Flags(blk)
      /\ Lies(B, 2, SizeField(blk.compressed)) /\ Lies(B, 2 + a, SizeField(blk.uncompressed))
      /\ Lies(B, 2 + a + u, FilterField(blk)) /\ Lies(B, 2 + a + u + f, Lzma2Field(blk))
      /\ \A p \in (6 + a + u + f)..Len(B) : B[p] = blk.header_padding
  BY <1>1, <1>2 DEF HeaderLayout
<1>4. PICK flags : flags = B[2]
  OBVIOUS
<1> DEFINE Field(bit, p) == IF HasBit(flags, bit) THEN VliAt(B, p)
                                               ELSE [value |-> VLI_UNKNOWN, next |-> p]
           compressed == Field(2, 3)
           uncompressed == Field(4, compressed.next)
           bcj == uncompressed.next
           lzma2 == IF HasBit(flags, 1) THEN bcj + 2 ELSE bcj
<1>5. /\ HasBit(flags, 1) = (blk.filters # <<>>)
      /\ HasBit(flags, 2) = (blk.compressed # VLI_UNKNOWN)
      /\ HasBit(flags, 4) = (blk.uncompressed # VLI_UNKNOWN)
      /\ HasBit(flags, 8) = blk.reserved
  BY <1>3, <1>4, FlagsAre
<1>6. /\ blk.compressed \in Vli \cup {VLI_UNKNOWN} /\ blk.uncompressed \in Vli \cup {VLI_UNKNOWN}
      /\ blk.filters \in {<<>>} \cup {<<id>> : id \in Byte} /\ blk.dict \in Byte
  BY DEF BlockType
<1>7. ASSUME NEW e \in Vli \cup {VLI_UNKNOWN}, NEW p \in Nat, Lies(B, p, SizeField(e)), NEW bit,
             HasBit(flags, bit) = (e # VLI_UNKNOWN)
      PROVE  Field(bit, p + 1) = [value |-> e, next |-> p + 1 + Len(SizeField(e))]
  <2>1. CASE e = VLI_UNKNOWN
    <3>1. Len(SizeField(e)) = 0
      BY <2>1, SizeFieldIs
    <3>2. QED
      <4>1. ~HasBit(flags, bit)
        BY <1>7, <2>1 DEF HasBit
      <4>2. p + 1 + Len(SizeField(e)) = p + 1
        BY <3>1
      <4>3. QED
        BY <2>1, <4>1, <4>2
  <2>2. CASE e # VLI_UNKNOWN
    <3>1. e \in Vli /\ SizeField(e) = EncodeVli(e)
      BY <2>2, SizeFieldIs
    <3>2. VliAt(B, p + 1) = [value |-> e, next |-> p + 1 + Len(EncodeVli(e))]
      BY <1>7, <3>1, VliIsRead
    <3>3. QED
      BY <1>7, <2>2, <3>1, <3>2
  <2>3. QED
    BY <2>1, <2>2
<1>8. compressed = [value |-> blk.compressed, next |-> 3 + a]
  <2>1. Field(2, 2 + 1) = [value |-> blk.compressed, next |-> 2 + 1 + Len(SizeField(blk.compressed))]
    <3> HIDE DEF Field
    <3>1. QED
      BY <1>3, <1>5, <1>6, <1>7
  <2>2. 2 + 1 = 3
    OBVIOUS
  <2> HIDE DEF Field
  <2>3. QED
    BY <1>3, <2>1, <2>2
<1>9. uncompressed = [value |-> blk.uncompressed, next |-> 3 + a + u]
  <2>1. 2 + a \in Nat
    BY <1>3
  <2> HIDE DEF Field, compressed
  <2>2. Field(4, 2 + a + 1) = [value |-> blk.uncompressed, next |-> 2 + a + 1 + Len(SizeField(blk.uncompressed))]
    BY <1>3, <1>5, <1>6, <1>7, <2>1
  <2>3. 2 + a + 1 = 3 + a /\ compressed.next = 3 + a
    BY <1>3, <1>8
  <2>4. QED
    BY <1>3, <2>2, <2>3
<1> HIDE DEF compressed, uncompressed, Field
<1>10. f = IF blk.filters = <<>> THEN 0 ELSE 2
  BY <1>3, FlagsAre
<1>11. bcj = 3 + a + u /\ lzma2 = 3 + a + u + f
  <2>1. bcj = 3 + a + u
    BY <1>9
  <2> HIDE DEF bcj
  <2>2. CASE blk.filters = <<>>
    <3>1. ~HasBit(flags, 1) /\ f = 0
      BY <1>5, <1>10, <2>2 DEF HasBit
    <3>2. lzma2 = bcj
      BY <3>1
    <3>3. QED
      BY <1>3, <2>1, <3>1, <3>2
  <2>3. CASE blk.filters # <<>>
    <3>1. HasBit(flags, 1) /\ f = 2
      BY <1>5, <1>10, <2>3
    <3>2. lzma2 = bcj + 2
      BY <3>1
    <3>3. QED
      BY <1>3, <2>1, <3>1, <3>2
  <2>4. QED
    BY <2>2, <2>3
<1> HIDE DEF bcj, lzma2
<1>12. HasBit(flags, 1) => B[bcj] = BCJ_ID /\ B[bcj + 1] = 0
  <2> SUFFICES ASSUME blk.filters # <<>> PROVE B[bcj] = BCJ_ID /\ B[bcj + 1] = 0
    BY <1>5
  <2>1. blk.filters = <<BCJ_ID>>
    BY DEF Unsupported
  <2>2. PICK v : v = FilterField(blk)
    OBVIOUS
  <2>3. v = <<BCJ_ID, 0>>
    BY <2>1, <2>2 DEF FilterField
  <2>4. Len(v) = 2 /\ v[1] = BCJ_ID /\ v[2] = 0 /\ 1 \in 1..Len(v) /\ 2 \in 1..Len(v)
    BY <2>3
  <2>5. B[(2 + a + u) + 1] = BCJ_ID /\ B[(2 + a + u) + 2] = 0
    BY <1>3, <2>2, <2>4 DEF Lies
  <2>6. (2 + a + u) + 1 = 3 + a + u /\ (2 + a + u) + 2 = 3 + a + u + 1
    BY <1>3
  <2>7. QED
    BY <1>11, <2>5, <2>6
<1>13. /\ B[lzma2] = LZMA2_ID /\ B[lzma2 + 1] = 1 /\ B[lzma2 + 2] = blk.dict
       /\ lzma2 + 2 <= Len(B)
  <2>1. PICK v : v = Lzma2Field(blk)
    OBVIOUS
  <2>2. Len(v) = 3 /\ v[1] = LZMA2_ID /\ v[2] = 1 /\ v[3] = blk.dict
        /\ 1 \in 1..Len(v) /\ 2 \in 1..Len(v) /\ 3 \in 1..Len(v)
    BY <2>1 DEF Lzma2Field
  <2>3. PICK k \in Nat : k = 2 + a + u + f
    BY <1>3
  <2>4. B[k + 1] = LZMA2_ID /\ B[k + 2] = 1 /\ B[k + 3] = blk.dict /\ k + 3 <= Len(B)
    BY <1>3, <2>1, <2>2, <2>3 DEF Lies
  <2>5. lzma2 = k + 1 /\ lzma2 + 1 = k + 2 /\ lzma2 + 2 = k + 3
    BY <1>3, <1>11, <2>3
  <2>6. QED
    BY <2>4, <2>5
<1>14. ~(blk.dict > DICT_VALID) /\ ~blk.reserved /\ blk.header_padding = 0
  BY DEF Unsupported
<1>15. compressed.next # 0 /\ uncompressed.next # 0
  BY <1>3, <1>8, <1>9
<1>16. /\ ~(Len(B) + 1 - bcj < 2) /\ ~(Len(B) + 1 - lzma2 < 2) /\ ~(Len(B) + 1 - (lzma2 + 2) < 1)
  BY <1>3, <1>11, <1>13
<1>17. /\ ParseBlockHeader(B).compressed = compressed.value
       /\ ParseBlockHeader(B).uncompressed = uncompressed.value
       /\ ParseBlockHeader(B).padded = \A p \in (lzma2 + 3)..Len(B) : B[p] = 0
  BY <1>4 DEF ParseBlockHeader, compressed, uncompressed, Field, bcj, lzma2
<1>18. \A p \in (lzma2 + 3)..Len(B) : B[p] = 0
  <2>1. lzma2 + 3 = 6 + a + u + f
    BY <1>3, <1>11
  <2>2. QED
    BY <1>3, <1>14, <2>1
<1>19. ParseBlockHeader(B).result = "XZ_OK"
  <2>1. ParseBlockHeader(B).result =
          IF HasBit(flags, 8) THEN "XZ_OPTIONS_ERROR"
          ELSE IF compressed.next = 0 \/ uncompressed.next = 0 THEN "XZ_DATA_ERROR"
          ELSE IF HasBit(flags, 1) /\ (Len(B) + 1 - bcj < 2 \/ B[bcj] # BCJ_ID \/ B[bcj + 1] # 0)
                 THEN "XZ_OPTIONS_ERROR"
          ELSE IF Len(B) + 1 - lzma2 < 2 THEN "XZ_DATA_ERROR"
          ELSE IF B[lzma2] # LZMA2_ID \/ B[lzma2 + 1] # 1 THEN "XZ_OPTIONS_ERROR"
          ELSE IF Len(B) + 1 - (lzma2 + 2) < 1 THEN "XZ_DATA_ERROR"
          ELSE IF B[lzma2 + 2] > DICT_VALID THEN "XZ_OPTIONS_ERROR"
          ELSE IF B[lzma2 + 2] > DICT_MAX THEN "XZ_MEMLIMIT_ERROR"
          ELSE "XZ_OK"
    BY <1>4 DEF ParseBlockHeader, compressed, uncompressed, Field, bcj, lzma2
  <2>2. QED
    BY <1>5, <1>12, <1>13, <1>14, <1>15, <1>16, <2>1
<1>20. QED
  BY <1>2, <1>8, <1>9, <1>17, <1>18, <1>19

-----------------------------------------------------------------------------
(* Blocks and the Index as the packer writes them.                         *)

\* The pieces of which a stream is made.
Chunks(data) == [i \in 1..(Len(data) - 1) |-> Chunk(data[i])]
CheckField(blk, check) ==
  IF check = XZ_CHECK_CRC32 THEN CrcField(xz_crc32(Contents(blk.data), blk.error)) ELSE <<>>
Blocks(d) == [i \in DOMAIN d.blocks |-> EncodeBlock(d.blocks[i], d.check)]
BlockContents(d) == [i \in DOMAIN d.blocks |-> Contents(d.blocks[i].data)]
RecordFields(d) ==
  [i \in DOMAIN d.records |-> EncodeVli(d.records[i][1]) \o EncodeVli(d.records[i][2])]
Magic(d) == IF d.magic THEN HEADER_MAGIC ELSE Reverse(HEADER_MAGIC)
HeaderFields(d) == Magic(d) \o Checked(<<d.check>>)
IndexFields(d) == <<0>> \o EncodeVli(d.count) \o FlattenSeq(RecordFields(d))

\* A chunk is a byte a number of times.
LEMMA ChunkIs ==
  ASSUME NEW control \in Byte
  PROVE  /\ Chunk(control) \in Seq(Byte)
         /\ control # 0 => Chunk(control) = Repeated(control, control - 1)
<1>1. CASE control = 0
  <2>1. 1..(0 - 1) = {} /\ 1..0 = {}
    OBVIOUS
  <2>2. [i \in 1..(0 - 1) |-> control] = [i \in 1..0 |-> control]
    BY <2>1
  <2>3. [i \in 1..0 |-> control] \in Seq(Byte)
    OBVIOUS
  <2>4. QED
    BY <1>1, <2>2, <2>3 DEF Chunk
<1>2. CASE control # 0
  <2>1. control - 1 \in Nat
    BY <1>2 DEF Byte
  <2>2. Repeated(control, control - 1) \in Seq(Byte)
    BY <2>1, RepeatedIs
  <2>3. Chunk(control) = Repeated(control, control - 1)
    BY DEF Chunk, Repeated
  <2>4. QED
    BY <2>2, <2>3
<1>3. QED
  BY <1>1, <1>2

\* What LZMA2 data is, and what it holds.
LEMMA ContentsAre ==
  ASSUME NEW data \in Lzma2Data
  PROVE  /\ data \in Seq(Byte) /\ Len(data) \in Nat \ {0} /\ data[Len(data)] = LZMA2_END
         /\ \A i \in 1..(Len(data) - 1) : data[i] \in Byte \ {LZMA2_END}
         /\ Chunks(data) \in Seq(Seq(Byte)) /\ Len(Chunks(data)) = Len(data) - 1
         /\ Contents(data) = FlattenSeq(Chunks(data))
         /\ Contents(data) = Flat(Chunks(data), Len(data) - 1)
         /\ Contents(data) \in Seq(Byte)
<1>1. data \in Seq(Byte) /\ data # <<>> /\ \A i \in DOMAIN data : data[i] = LZMA2_END <=> i = Len(data)
  BY DEF Lzma2Data
<1>2. PICK n : n = Len(data)
  OBVIOUS
<1>3. n \in Nat \ {0} /\ DOMAIN data = 1..n
  BY <1>1, <1>2
<1>4. data[n] = LZMA2_END
  BY <1>1, <1>2, <1>3
<1>5. \A i \in 1..(n - 1) : data[i] \in Byte \ {LZMA2_END}
  <2> TAKE i \in 1..(n - 1)
  <2>1. i \in 1..n /\ i # n
    BY <1>3
  <2>2. data[i] \in Byte
    BY <1>1, <1>2, <2>1, ElementIs
  <2>3. QED
    BY <1>1, <1>2, <1>3, <2>1, <2>2
<1>6. PICK t : t = Chunks(data)
  OBVIOUS
<1>7. \A i \in 1..(n - 1) : Chunk(data[i]) \in Seq(Byte)
  BY <1>5, ChunkIs
<1>8. t = [i \in 1..(n - 1) |-> Chunk(data[i])]
  BY <1>2, <1>6 DEF Chunks
<1>9. n - 1 \in Nat
  BY <1>3
<1>10. t \in Seq(Seq(Byte)) /\ Len(t) = n - 1
  BY <1>7, <1>8, <1>9
<1>11. Contents(data) = FlattenSeq(t)
  BY <1>6 DEF Contents, Chunks
<1>12. FlattenSeq(t) = Flat(t, n - 1) /\ Flat(t, n - 1) \in Seq(Byte)
  <2>1. n - 1 \in 0..Len(t)
    BY <1>9, <1>10
  <2>2. QED
    BY <1>10, <2>1, FlatIs
<1>13. QED
  BY <1>1, <1>2, <1>3, <1>4, <1>5, <1>6, <1>10, <1>11, <1>12

\* The size of a Block Header is what its first byte says.
LEMMA BlockHeaderIs ==
  ASSUME NEW blk \in BlockType
  PROVE  /\ HeaderBody(blk) \in Seq(Byte)
         /\ BlockHeader(blk) = HeaderBody(blk) \o CrcField(xz_crc32(HeaderBody(blk), 0))
         /\ BlockHeader(blk) \in Seq(Byte)
         /\ \E n \in 1..3 : /\ Len(BlockHeader(blk)) = (n + 1) * 4
                            /\ Len(HeaderBody(blk)) = (n + 1) * 4 - CHECK_BYTES
                            /\ BlockHeader(blk)[1] = n
<1>1. PICK n, a, u, f : HeaderLayout(blk, n, a, u, f)
  BY HeaderBodyIs
<1>2. PICK B \in Seq(Byte) : B = HeaderBody(blk)
  BY <1>1 DEF HeaderLayout
<1>3. n \in 1..3 /\ Len(B) + CHECK_BYTES = (n + 1) * 4 /\ B[1] = n /\ Len(B) \in Nat
  BY <1>1, <1>2 DEF HeaderLayout
<1>4. PICK H : H = BlockHeader(blk)
  OBVIOUS
<1>5. H = B \o CrcField(xz_crc32(B, 0)) /\ H \in Seq(Byte) /\ Len(H) = Len(B) + CHECK_BYTES
      /\ CrcField(xz_crc32(B, 0)) \in Seq(Byte)
  BY <1>2, <1>4, CheckedIs, HeaderIsChecked
<1>6. 1 \in 1..Len(B) /\ Len(B) = (n + 1) * 4 - CHECK_BYTES
  BY <1>3 DEF CHECK_BYTES
<1>7. H[1] = n
  BY <1>3, <1>5, <1>6, ConcatIs
<1>8. QED
  BY <1>2, <1>3, <1>4, <1>5, <1>6, <1>7

\* Where a piece of many lies.
LEMMA LiesFlat ==
  ASSUME NEW T, NEW t \in Seq(Seq(T)), NEW u \in Seq(T), NEW p \in Nat, Lies(u, p, FlattenSeq(t)),
         NEW n \in 0..(Len(t) - 1)
  PROVE  /\ Flat(t, n) \in Seq(T) /\ t[n + 1] \in Seq(T)
         /\ Len(Flat(t, n + 1)) = Len(Flat(t, n)) + Len(t[n + 1])
         /\ Lies(u, p + Len(Flat(t, n)), t[n + 1])
<1>1. n \in 0..Len(t) /\ n + 1 \in 0..Len(t) /\ n + 1 \in 1..Len(t)
  OBVIOUS
<1>2. t[n + 1] \in Seq(T)
  BY <1>1, ElementIs
<1>3. PICK rest \in Seq(T) : FlattenSeq(t) = Flat(t, n + 1) \o rest
  BY <1>1, FlatGrows
<1>4. Flat(t, n) \in Seq(T) /\ Flat(t, n + 1) \in Seq(T) /\ Flat(t, n + 1) = Flat(t, n) \o t[n + 1]
  BY <1>1, FlatIs
<1>5. Len(Flat(t, n + 1)) = Len(Flat(t, n)) + Len(t[n + 1])
  BY <1>2, <1>4, ConcatIs
<1>6. Lies(u, p, Flat(t, n + 1) \o rest)
  BY <1>3
<1>7. Lies(u, p, Flat(t, n + 1))
  BY <1>4, <1>6, LiesSplit
<1>8. Lies(u, p, Flat(t, n) \o t[n + 1])
  BY <1>4, <1>7
<1>9. Lies(u, p + Len(Flat(t, n)), t[n + 1])
  BY <1>2, <1>4, <1>8, LiesSplit
<1>10. QED
  BY <1>2, <1>4, <1>5, <1>9

\* The Check, where there is one, has two bytes.
LEMMA CheckFieldIs ==
  ASSUME NEW blk \in BlockType, NEW check
  PROVE  /\ CheckField(blk, check) \in Seq(Byte)
         /\ Len(CheckField(blk, check)) = CheckSize(check)
         /\ CheckSize(check) \in {0, CHECK_BYTES}
<1>1. blk.data \in Lzma2Data /\ blk.error \in 0..(CHECK_VALUES - 1)
  BY DEF BlockType, CHECK_VALUES
<1>2. Contents(blk.data) \in Seq(Nat)
  BY <1>1, ContentsAre, BytesAreNumbers
<1>3. xz_crc32(Contents(blk.data), blk.error) \in 0..(CHECK_VALUES - 1)
  BY <1>1, <1>2, CrcIs
<1>4. \A i \in 0..(CHECK_VALUES - 1) : i \in Nat
  BY DEF CHECK_VALUES
<1>5. PICK f : f = CrcField(xz_crc32(Contents(blk.data), blk.error))
  OBVIOUS
<1>6. f \in Seq(Byte) /\ Len(f) = CHECK_BYTES
  BY <1>3, <1>4, <1>5, CrcFieldIs
<1>7. QED
  BY <1>5, <1>6 DEF CheckField, CheckSize

\* A Block.
LEMMA EncodeBlockIs ==
  ASSUME NEW blk \in BlockType, NEW check
  PROVE  /\ EncodeBlock(blk, check) \in Seq(Byte)
         /\ Len(EncodeBlock(blk, check))
              = Len(BlockHeader(blk)) + Len(Pad(blk.data, blk.padding)) + CheckSize(check)
         /\ Lies(EncodeBlock(blk, check), 0, BlockHeader(blk))
         /\ Lies(EncodeBlock(blk, check), Len(BlockHeader(blk)), Pad(blk.data, blk.padding))
         /\ Lies(EncodeBlock(blk, check), Len(BlockHeader(blk)) + Len(Pad(blk.data, blk.padding)),
                 CheckField(blk, check))
         /\ Pad(blk.data, blk.padding) \in Seq(Byte)
<1>1. PICK H \in Seq(Byte) : H = BlockHeader(blk)
  BY BlockHeaderIs
<1>2. PICK P \in Seq(Byte) : P = Pad(blk.data, blk.padding)
  <2>1. blk.data \in Seq(Byte) /\ blk.padding \in Byte
    <3>1. blk.data \in Lzma2Data /\ blk.padding \in Byte
      BY DEF BlockType
    <3>2. QED
      BY <3>1, ContentsAre
  <2>2. QED
    BY <2>1, PadIs
<1>3. PICK C \in Seq(Byte) : C = CheckField(blk, check) /\ Len(C) = CheckSize(check)
  BY CheckFieldIs
<1>4. H \o P \in Seq(Byte) /\ Len(H \o P) = Len(H) + Len(P)
  BY ConcatIs
<1>5. (H \o P) \o C \in Seq(Byte) /\ Len((H \o P) \o C) = Len(H) + Len(P) + Len(C)
  BY <1>4, ConcatIs
<1>6. EncodeBlock(blk, check) = (H \o P) \o C
  BY <1>1, <1>2, <1>3 DEF EncodeBlock, CheckField
<1>7. Lies((H \o P) \o C, 0, H \o P) /\ Lies((H \o P) \o C, Len(H) + Len(P), C)
  BY <1>4, LiesConcat
<1>8. Lies((H \o P) \o C, 0, H) /\ Lies((H \o P) \o C, 0 + Len(H), P)
  BY <1>4, <1>5, <1>7, LiesSplit
<1>9. 0 + Len(H) = Len(H)
  OBVIOUS
<1>10. QED
  BY <1>1, <1>2, <1>3, <1>5, <1>6, <1>7, <1>8, <1>9

\* The Index.
LEMMA IndexFieldsAre ==
  ASSUME NEW d \in StreamType
  PROVE  /\ RecordFields(d) \in Seq(Seq(Byte)) /\ Len(RecordFields(d)) = Len(d.records)
         /\ \A i \in 1..Len(d.records) :
              /\ d.records[i][1] \in Vli /\ d.records[i][2] \in Vli
              /\ RecordFields(d)[i] = EncodeVli(d.records[i][1]) \o EncodeVli(d.records[i][2])
         /\ IndexFields(d) \in Seq(Byte) /\ FlattenSeq(RecordFields(d)) \in Seq(Byte)
         /\ EncodeVli(d.count) \in Seq(Byte) /\ d.count \in Vli
         /\ Len(IndexFields(d)) = 1 + Len(EncodeVli(d.count)) + Len(FlattenSeq(RecordFields(d)))
         /\ IndexFields(d)[1] = 0
         /\ Lies(IndexFields(d), 1, EncodeVli(d.count))
         /\ Lies(IndexFields(d), 1 + Len(EncodeVli(d.count)), FlattenSeq(RecordFields(d)))
         /\ EncodeIndex(d) = Pad(IndexFields(d), 0)
<1>1. d.records \in Seq(Vli \X Vli) /\ d.count \in Vli
  BY DEF StreamType
<1>2. PICK n \in Nat : n = Len(d.records)
  BY <1>1
<1>3. ASSUME NEW i \in 1..n
      PROVE  /\ d.records[i][1] \in Vli /\ d.records[i][2] \in Vli
             /\ EncodeVli(d.records[i][1]) \o EncodeVli(d.records[i][2]) \in Seq(Byte)
  <2>1. d.records[i] \in Vli \X Vli
    BY <1>1, <1>2, ElementIs
  <2>2. d.records[i][1] \in Vli /\ d.records[i][2] \in Vli
    BY <2>1
  <2>3. EncodeVli(d.records[i][1]) \in Seq(Byte) /\ EncodeVli(d.records[i][2]) \in Seq(Byte)
    BY <2>2, EncodeVliIs
  <2>4. QED
    BY <2>2, <2>3, ConcatIs
<1>4. PICK t : t = RecordFields(d)
  OBVIOUS
<1>5. t = [i \in 1..n |-> EncodeVli(d.records[i][1]) \o EncodeVli(d.records[i][2])]
  <2>1. DOMAIN d.records = 1..n
    BY <1>1, <1>2
  <2>2. QED
    BY <1>4, <2>1 DEF RecordFields
<1>6. t \in Seq(Seq(Byte)) /\ Len(t) = n
      /\ \A i \in 1..n : t[i] = EncodeVli(d.records[i][1]) \o EncodeVli(d.records[i][2])
  BY <1>3, <1>5
<1>7. PICK R \in Seq(Byte) : R = FlattenSeq(t)
  <2>1. Len(t) \in 0..Len(t)
    BY <1>6
  <2>2. QED
    BY <1>6, <2>1, FlatIs
<1>8. PICK V \in Seq(Byte) : V = EncodeVli(d.count)
  BY <1>1, EncodeVliIs
<1>9. PICK Z \in Seq(Byte) : Z = <<0>> /\ Len(Z) = 1 /\ Z[1] = 0
  <2>1. <<0>> \in Seq(Byte) /\ Len(<<0>>) = 1 /\ <<0>>[1] = 0
    BY DEF Byte
  <2>2. QED
    BY <2>1
<1>10. Z \o V \in Seq(Byte) /\ Len(Z \o V) = 1 + Len(V)
  BY <1>9, ConcatIs
<1>11. (Z \o V) \o R \in Seq(Byte) /\ Len((Z \o V) \o R) = 1 + Len(V) + Len(R)
  BY <1>10, ConcatIs, SMTT(30)
<1>12. PICK F \in Seq(Byte) : F = (Z \o V) \o R
  BY <1>11
<1>13. F = IndexFields(d)
  BY <1>4, <1>7, <1>8, <1>9, <1>12 DEF IndexFields
<1>14. Lies(F, 0, Z \o V) /\ Lies(F, 1 + Len(V), R)
  BY <1>10, <1>12, LiesConcat
<1>15. Lies(F, 0, Z) /\ Lies(F, 0 + 1, V)
  BY <1>9, <1>14, LiesSplit
<1>16. 0 + 1 = 1 /\ F[0 + 1] = Z[1]
  BY <1>9, <1>15 DEF Lies
<1>17. EncodeIndex(d) = Pad(F, 0)
  BY <1>13 DEF EncodeIndex, IndexFields, RecordFields
<1>18. QED
  BY <1>1, <1>2, <1>3, <1>4, <1>6, <1>7, <1>8, <1>9, <1>11, <1>12, <1>13, <1>14, <1>15, <1>16, <1>17

\* Where the parts of a stream are.
BlockAt(d, k) == STREAM_HEADER_SIZE + Len(Flat(Blocks(d), k))
IndexAt(d) == BlockAt(d, Len(d.blocks))
FooterAt(d) == IndexAt(d) + Len(EncodeIndex(d)) + CHECK_BYTES

\* The Blocks of a stream, and their contents.
LEMMA BlocksAre ==
  ASSUME NEW d \in StreamType
  PROVE  /\ Blocks(d) \in Seq(Seq(Byte)) /\ Len(Blocks(d)) = Len(d.blocks)
         /\ BlockContents(d) \in Seq(Seq(Byte)) /\ Len(BlockContents(d)) = Len(d.blocks)
         /\ Len(d.blocks) \in Nat
         /\ \A i \in 1..Len(d.blocks) :
              /\ d.blocks[i] \in BlockType /\ d.blocks[i].data \in Lzma2Data
              /\ Blocks(d)[i] = EncodeBlock(d.blocks[i], d.check)
              /\ BlockContents(d)[i] = Contents(d.blocks[i].data)
         /\ Content(d) = FlattenSeq(BlockContents(d)) /\ Content(d) \in Seq(Byte)
<1>1. d.blocks \in Seq(BlockType)
  BY DEF StreamType
<1>2. PICK n \in Nat : n = Len(d.blocks) /\ DOMAIN d.blocks = 1..n
  BY <1>1
<1>3. ASSUME NEW i \in 1..n
      PROVE  /\ d.blocks[i] \in BlockType /\ d.blocks[i].data \in Lzma2Data
             /\ EncodeBlock(d.blocks[i], d.check) \in Seq(Byte)
             /\ Contents(d.blocks[i].data) \in Seq(Byte)
  <2>1. d.blocks[i] \in BlockType
    BY <1>1, <1>2, ElementIs
  <2>2. d.blocks[i].data \in Lzma2Data
    BY <2>1 DEF BlockType
  <2>3. QED
    BY <2>1, <2>2, EncodeBlockIs, ContentsAre
<1>4. PICK t, c : t = Blocks(d) /\ c = BlockContents(d)
  OBVIOUS
<1>5. /\ t = [i \in 1..n |-> EncodeBlock(d.blocks[i], d.check)]
      /\ c = [i \in 1..n |-> Contents(d.blocks[i].data)]
  BY <1>2, <1>4 DEF Blocks, BlockContents
<1>6. t \in Seq(Seq(Byte)) /\ Len(t) = n
      /\ \A i \in 1..n : t[i] = EncodeBlock(d.blocks[i], d.check)
  BY <1>3, <1>5
<1>7. c \in Seq(Seq(Byte)) /\ Len(c) = n
      /\ \A i \in 1..n : c[i] = Contents(d.blocks[i].data)
  BY <1>3, <1>5
<1>8. Content(d) = FlattenSeq(c)
  BY <1>4 DEF Content, BlockContents
<1>9. FlattenSeq(c) \in Seq(Byte)
  <2>1. Len(c) \in 0..Len(c)
    BY <1>7
  <2>2. QED
    BY <1>7, <2>1, FlatIs
<1>10. QED
  BY <1>2, <1>3, <1>4, <1>6, <1>7, <1>8, <1>9

\* The Stream Header and the Stream Footer.
LEMMA HeaderFieldsAre ==
  ASSUME NEW d \in StreamType
  PROVE  /\ HeaderFields(d) \in Seq(Byte) /\ Len(HeaderFields(d)) = STREAM_HEADER_SIZE
         /\ d.magic => HeaderFields(d)[1] = HEADER_MAGIC[1] /\ HeaderFields(d)[2] = HEADER_MAGIC[2]
         /\ HeaderFields(d)[3] = d.check
         /\ HeaderFields(d)[4] = CrcByte(xz_crc32(<<d.check>>, 0), 0)
         /\ HeaderFields(d)[5] = CrcByte(xz_crc32(<<d.check>>, 0), 1)
<1>1. d.magic \in BOOLEAN /\ d.check \in Byte
  BY DEF StreamType
<1>2. PICK M0 : M0 = Magic(d)
  OBVIOUS
<1>3. PICK M \in Seq(Byte) : M = M0 /\ Len(M) = 2 /\ (d.magic => M = HEADER_MAGIC)
  <2>1. HEADER_MAGIC \in Seq(Byte) /\ Len(HEADER_MAGIC) = 2
    BY DEF HEADER_MAGIC, Byte
  <2>2. Reverse(HEADER_MAGIC) = [i \in 1..2 |-> HEADER_MAGIC[(2 - i) + 1]]
    BY <2>1 DEF Reverse
  <2>3. ASSUME NEW i \in 1..2 PROVE HEADER_MAGIC[(2 - i) + 1] \in Byte
    <3>1. (2 - i) + 1 \in 1..Len(HEADER_MAGIC)
      BY <2>1
    <3>2. QED
      BY <2>1, <3>1, ElementIs
  <2>4. Reverse(HEADER_MAGIC) \in Seq(Byte) /\ Len(Reverse(HEADER_MAGIC)) = 2
    BY <2>2, <2>3
  <2>5. QED
    BY <1>2, <2>1, <2>4 DEF Magic
<1>4. PICK C \in Seq(Byte) : C = <<d.check>> /\ Len(C) = 1 /\ C[1] = d.check
  <2>1. <<d.check>> \in Seq(Byte) /\ Len(<<d.check>>) = 1 /\ <<d.check>>[1] = d.check
    BY <1>1
  <2>2. QED
    BY <2>1
<1>5. PICK K0 : K0 = CrcField(xz_crc32(C, 0))
  OBVIOUS
<1>6. PICK K \in Seq(Byte) :
      /\ K = K0 /\ Checked(C) = C \o K /\ Checked(C) \in Seq(Byte) /\ Len(Checked(C)) = 3
      /\ K \in Seq(Byte) /\ Len(K) = 2 /\ xz_crc32(C, 0) \in Nat
  <2>1. /\ Checked(C) = C \o K0 /\ Checked(C) \in Seq(Byte) /\ Len(Checked(C)) = Len(C) + CHECK_BYTES
        /\ K0 \in Seq(Byte) /\ Len(K0) = CHECK_BYTES /\ xz_crc32(C, 0) \in Nat
    BY <1>5, CheckedIs
  <2>2. CHECK_BYTES = 2 /\ Len(C) + CHECK_BYTES = 3
    BY <1>4 DEF CHECK_BYTES
  <2>3. QED
    BY <2>1, <2>2
<1>7. K = <<CrcByte(xz_crc32(C, 0), 0), CrcByte(xz_crc32(C, 0), 1)>>
  BY <1>5, <1>6, CrcFieldIs
<1>8. K[1] = CrcByte(xz_crc32(C, 0), 0) /\ K[2] = CrcByte(xz_crc32(C, 0), 1)
  BY <1>7
<1>9. PICK V \in Seq(Byte) : V = C \o K /\ Len(V) = 3
  BY <1>6
<1>10. V[1] = d.check /\ V[2] = K[1] /\ V[3] = K[2]
  <2>1. 1 \in 1..Len(C) /\ 1 \in 1..Len(K) /\ 2 \in 1..Len(K) /\ Len(C) + 1 = 2 /\ Len(C) + 2 = 3
    BY <1>4, <1>6
  <2>2. V[1] = C[1] /\ V[Len(C) + 1] = K[1] /\ V[Len(C) + 2] = K[2]
    <3>1. \A i \in 1..Len(C) : V[i] = C[i]
      BY <1>9, ConcatIs
    <3>2. \A i \in 1..Len(K) : V[Len(C) + i] = K[i]
      BY <1>9, ConcatIs
    <3>3. QED
      BY <2>1, <3>1, <3>2
  <2>3. QED
    BY <1>4, <2>1, <2>2
<1>11. PICK H : H = M \o V
  OBVIOUS
<1>12. H \in Seq(Byte) /\ Len(H) = 5
  <2>1. H \in Seq(Byte) /\ Len(H) = Len(M) + Len(V)
    BY <1>3, <1>11, ConcatIs
  <2>2. QED
    BY <1>3, <1>9, <2>1
<1>13. /\ H[1] = M[1] /\ H[2] = M[2] /\ H[3] = V[1] /\ H[4] = V[2] /\ H[5] = V[3]
  <2>1. 1 \in 1..Len(M) /\ 2 \in 1..Len(M) /\ 1 \in 1..Len(V) /\ 2 \in 1..Len(V) /\ 3 \in 1..Len(V)
        /\ Len(M) + 1 = 3 /\ Len(M) + 2 = 4 /\ Len(M) + 3 = 5
    BY <1>3, <1>9
  <2>2. H[1] = M[1] /\ H[2] = M[2] /\ H[Len(M) + 1] = V[1] /\ H[Len(M) + 2] = V[2] /\ H[Len(M) + 3] = V[3]
    <3>1. \A i \in 1..Len(M) : H[i] = M[i]
      BY <1>11, ConcatIs
    <3>2. \A i \in 1..Len(V) : H[Len(M) + i] = V[i]
      BY <1>9, <1>11, ConcatIs
    <3>3. QED
      BY <2>1, <3>1, <3>2
  <2>3. QED
    BY <2>1, <2>2
<1>14. H = HeaderFields(d)
  <2>1. V = Checked(C) /\ M = Magic(d)
    BY <1>2, <1>3, <1>6, <1>9
  <2>2. QED
    BY <1>4, <1>11, <2>1 DEF HeaderFields
<1>15. QED
  BY <1>3, <1>4, <1>8, <1>10, <1>12, <1>13, <1>14 DEF STREAM_HEADER_SIZE

\* The fields of the Stream Footer.
LEMMA FooterFieldsAre ==
  ASSUME NEW d \in StreamType, BackwardSize(d) \in Byte
  PROVE  LET F == EncodeFooter(d)
             fields == <<BackwardSize(d), d.footcheck>>
         IN  /\ F \in Seq(Byte) /\ Len(F) = STREAM_HEADER_SIZE
             /\ SubSeq(F, 1, 2) = CrcField(xz_crc32(fields, 0))
             /\ SubSeq(F, 3, 4) = fields
             /\ F[3] = BackwardSize(d) /\ F[4] = d.footcheck
             /\ SubSeq(F, 5, 5) = FOOTER_MAGIC
<1>1. d.footcheck \in Byte
  BY DEF StreamType
<1>2. PICK C \in Seq(Byte) : /\ C = <<BackwardSize(d), d.footcheck>> /\ Len(C) = 2
                             /\ C[1] = BackwardSize(d) /\ C[2] = d.footcheck
  <2>1. PICK e \in Byte, g \in Byte : e = BackwardSize(d) /\ g = d.footcheck
    BY <1>1
  <2>2. <<e, g>> \in Seq(Byte) /\ Len(<<e, g>>) = 2 /\ <<e, g>>[1] = e /\ <<e, g>>[2] = g
    OBVIOUS
  <2>3. QED
    BY <2>1, <2>2
<1>3. Len(C) = 2
  BY <1>2
<1>4. PICK K \in Seq(Byte) : K = CrcField(xz_crc32(C, 0)) /\ Len(K) = 2
  <2>1. CrcField(xz_crc32(C, 0)) \in Seq(Byte) /\ Len(CrcField(xz_crc32(C, 0))) = CHECK_BYTES
    BY CheckedIs
  <2>2. QED
    BY <2>1 DEF CHECK_BYTES
<1>5. Len(K) = 2
  BY <1>4
<1>6. PICK M \in Seq(Byte) : M = FOOTER_MAGIC /\ Len(M) = 1
  <2>1. FOOTER_MAGIC \in Seq(Byte) /\ Len(FOOTER_MAGIC) = 1
    BY DEF FOOTER_MAGIC, Byte
  <2>2. QED
    BY <2>1
<1>7. PICK V \in Seq(Byte) : V = K \o C /\ Len(V) = 4
  <2>1. K \o C \in Seq(Byte) /\ Len(K \o C) = 4
    <3>1. K \o C \in Seq(Byte) /\ Len(K \o C) = Len(K) + Len(C)
      BY ConcatIs
    <3>2. QED
      BY <1>3, <1>5, <3>1
  <2>2. QED
    BY <2>1
<1>8. PICK F \in Seq(Byte) : F = V \o M /\ Len(F) = 5
  <2>1. V \o M \in Seq(Byte) /\ Len(V \o M) = 5
    <3>1. V \o M \in Seq(Byte) /\ Len(V \o M) = Len(V) + Len(M)
      BY ConcatIs
    <3>2. QED
      BY <1>6, <1>7, <3>1
  <2>2. QED
    BY <2>1
<1>9. F = EncodeFooter(d)
  BY <1>2, <1>4, <1>6, <1>7, <1>8 DEF EncodeFooter
<1>10. V[1] = K[1] /\ V[2] = K[2] /\ V[3] = C[1] /\ V[4] = C[2]
  <2>1. 1 \in 1..Len(K) /\ 2 \in 1..Len(K) /\ 1 \in 1..Len(C) /\ 2 \in 1..Len(C)
        /\ Len(K) + 1 = 3 /\ Len(K) + 2 = 4
    BY <1>3, <1>5
  <2>2. V[1] = K[1] /\ V[2] = K[2] /\ V[Len(K) + 1] = C[1] /\ V[Len(K) + 2] = C[2]
    <3>1. \A i \in 1..Len(K) : V[i] = K[i]
      BY <1>7, ConcatIs
    <3>2. \A i \in 1..Len(C) : V[Len(K) + i] = C[i]
      BY <1>7, ConcatIs
    <3>3. QED
      BY <2>1, <3>1, <3>2
  <2>3. QED
    BY <2>1, <2>2
<1>11. F[1] = K[1] /\ F[2] = K[2] /\ F[3] = C[1] /\ F[4] = C[2] /\ F[5] = M[1]
  <2>1. 1 \in 1..Len(V) /\ 2 \in 1..Len(V) /\ 3 \in 1..Len(V) /\ 4 \in 1..Len(V) /\ 1 \in 1..Len(M)
        /\ Len(V) + 1 = 5
    BY <1>6, <1>7
  <2>2. F[1] = V[1] /\ F[2] = V[2] /\ F[3] = V[3] /\ F[4] = V[4] /\ F[Len(V) + 1] = M[1]
    <3>1. \A i \in 1..Len(V) : F[i] = V[i]
      BY <1>8, ConcatIs
    <3>2. \A i \in 1..Len(M) : F[Len(V) + i] = M[i]
      BY <1>8, ConcatIs
    <3>3. QED
      BY <2>1, <3>1, <3>2
  <2>3. QED
    BY <1>10, <2>1, <2>2
<1>12. SubSeq(F, 1, 2) = K
  <2>1. PICK w : w = SubSeq(F, 1, 2)
    OBVIOUS
  <2>2. w \in Seq(Byte) /\ Len(w) = 2 /\ w[1] = F[1] /\ w[2] = F[2]
    BY <1>8, <2>1
  <2>3. w = K
    <3>1. w[1] = K[1] /\ w[2] = K[2] /\ Len(w) = Len(K) /\ 1..Len(K) = {1, 2}
      BY <1>5, <1>11, <2>2
    <3>2. \A i \in 1..Len(K) : w[i] = K[i]
      BY <3>1
    <3>3. QED
      BY <2>2, <3>1, <3>2, SeqEqual
  <2>4. QED
    BY <2>1, <2>3
<1>13. SubSeq(F, 3, 4) = C
  <2>1. PICK w : w = SubSeq(F, 3, 4)
    OBVIOUS
  <2>2. w \in Seq(Byte) /\ Len(w) = 2 /\ w[1] = F[3] /\ w[2] = F[4]
    BY <1>8, <2>1
  <2>3. w = C
    <3>1. w[1] = C[1] /\ w[2] = C[2] /\ Len(w) = Len(C) /\ 1..Len(C) = {1, 2}
      BY <1>3, <1>11, <2>2
    <3>2. \A i \in 1..Len(C) : w[i] = C[i]
      BY <3>1
    <3>3. QED
      BY <2>2, <3>1, <3>2, SeqEqual
  <2>4. QED
    BY <2>1, <2>3
<1>14. SubSeq(F, 5, 5) = M
  <2>1. PICK w : w = SubSeq(F, 5, 5)
    OBVIOUS
  <2>2. w \in Seq(Byte) /\ Len(w) = 1 /\ w[1] = F[5]
    BY <1>8, <2>1
  <2>3. w = M
    <3>1. w[1] = M[1] /\ Len(w) = Len(M) /\ 1..Len(M) = {1}
      BY <1>6, <1>11, <2>2
    <3>2. \A i \in 1..Len(M) : w[i] = M[i]
      BY <3>1
    <3>3. QED
      BY <2>2, <3>1, <3>2, SeqEqual
  <2>4. QED
    BY <2>1, <2>3
<1>15. QED
  BY <1>2, <1>4, <1>6, <1>8, <1>9, <1>11, <1>12, <1>13, <1>14 DEF STREAM_HEADER_SIZE

\* The whole stream.
LEMMA EncodeIs ==
  ASSUME NEW d \in StreamType, BackwardSize(d) \in Byte
  PROVE  /\ Encode(d) \in Seq(Byte)
         /\ EncodeIndex(d) \in Seq(Byte) /\ Checked(EncodeIndex(d)) \in Seq(Byte)
         /\ Lies(Encode(d), 0, HeaderFields(d))
         /\ Lies(Encode(d), STREAM_HEADER_SIZE, FlattenSeq(Blocks(d)))
         /\ Lies(Encode(d), IndexAt(d), Checked(EncodeIndex(d)))
         /\ Lies(Encode(d), FooterAt(d), EncodeFooter(d))
         /\ IndexAt(d) \in Nat /\ FooterAt(d) \in Nat
         /\ Len(Encode(d)) = FooterAt(d) + STREAM_HEADER_SIZE
<1>1. PICK H \in Seq(Byte) : H = HeaderFields(d) /\ Len(H) = STREAM_HEADER_SIZE
  BY HeaderFieldsAre
<1>2. PICK B \in Seq(Byte) : B = FlattenSeq(Blocks(d)) /\ B = Flat(Blocks(d), Len(d.blocks))
  <2>1. Blocks(d) \in Seq(Seq(Byte)) /\ Len(Blocks(d)) = Len(d.blocks) /\ Len(d.blocks) \in Nat
    BY BlocksAre
  <2>2. Len(Blocks(d)) \in 0..Len(Blocks(d))
    BY <2>1
  <2>3. QED
    BY <2>1, <2>2, FlatIs
<1>3. PICK X \in Seq(Byte) : X = EncodeIndex(d)
  <2>1. IndexFields(d) \in Seq(Byte) /\ EncodeIndex(d) = Pad(IndexFields(d), 0) /\ 0 \in Byte
    BY IndexFieldsAre DEF Byte
  <2>2. QED
    BY <2>1, PadIs
<1>4. PICK I \in Seq(Byte) : I = Checked(X) /\ Len(I) = Len(X) + CHECK_BYTES
  BY CheckedIs
<1>5. PICK F \in Seq(Byte) : F = EncodeFooter(d) /\ Len(F) = STREAM_HEADER_SIZE
  BY FooterFieldsAre
<1>6. PICK V \in Seq(Byte) : V = H \o B /\ Len(V) = Len(H) + Len(B)
  BY ConcatIs
<1>7. PICK W \in Seq(Byte) : W = V \o I /\ Len(W) = Len(V) + Len(I)
  BY ConcatIs
<1>8. PICK E \in Seq(Byte) : E = W \o F /\ Len(E) = Len(W) + Len(F)
  BY ConcatIs
<1>9. E = Encode(d)
  BY <1>1, <1>2, <1>3, <1>4, <1>5, <1>6, <1>7, <1>8, Zenon DEF Encode, HeaderFields, Magic, Blocks
<1>10. Lies(E, 0, W) /\ Lies(E, Len(W), F)
  BY <1>8, LiesConcat
<1>11. Lies(E, 0, V) /\ Lies(E, 0 + Len(V), I)
  BY <1>7, <1>10, LiesSplit
<1>12. Lies(E, 0, H) /\ Lies(E, 0 + Len(H), B)
  BY <1>6, <1>11, LiesSplit
<1>13. IndexAt(d) = Len(V) /\ FooterAt(d) = Len(W)
  BY <1>1, <1>2, <1>3, <1>4, <1>6, <1>7 DEF IndexAt, BlockAt, FooterAt, CHECK_BYTES
<1>14. 0 + Len(V) = Len(V) /\ 0 + Len(H) = Len(H) /\ Len(V) \in Nat /\ Len(W) \in Nat
  OBVIOUS
<1>15. QED
  BY <1>1, <1>2, <1>3, <1>4, <1>5, <1>8, <1>9, <1>10, <1>11, <1>12, <1>13, <1>14

-----------------------------------------------------------------------------
(* Types.                                                                  *)

\* What comes of a stream.
LEMMA InputIs ==
  ASSUME Init
  PROVE  input \in Seq(Byte)
<1>1. PICK c \in Cases :
        \/ input = Encode(c[1])
        \/ \E n \in 0..(Len(Encode(c[1])) - 1) : input = SubSeq(Encode(c[1]), 1, n)
        \/ \E i \in DOMAIN Encode(c[1]), k \in Flips :
              input = [Encode(c[1]) EXCEPT ![i] = (@ + k) % 16]
  BY DEF Init
<1>2. c[1] \in StreamType /\ BackwardSize(c[1]) \in Byte
  BY CasesAssumption
<1>3. PICK u \in Seq(Byte) : u = Encode(c[1])
  BY <1>2, EncodeIs
<1>4. CASE input = u
  BY <1>4
<1>5. ASSUME NEW n \in 0..(Len(u) - 1), input = SubSeq(u, 1, n)
      PROVE  input \in Seq(Byte)
  BY <1>5
<1>6. ASSUME NEW i \in DOMAIN u, NEW k \in Flips, input = [u EXCEPT ![i] = (@ + k) % 16]
      PROVE  input \in Seq(Byte)
  <2>1. u[i] \in Byte /\ k \in Byte
    BY FlipsAssumption
  <2>2. PICK e : e = (u[i] + k) % 16
    OBVIOUS
  <2>3. e \in Byte
    <3>1. PICK m \in Nat, l \in Nat : m = u[i] /\ l = k
      BY <2>1 DEF Byte
    <3>2. PICK n \in Nat : n = m + l
      OBVIOUS
    <3>3. n % 16 \in 0..15
      OBVIOUS
    <3>4. e = n % 16
      BY <2>2, <3>1, <3>2
    <3>5. QED
      BY <3>3, <3>4 DEF Byte
  <2>4. input = [u EXCEPT ![i] = e]
    BY <1>6, <2>2
  <2>5. QED
    BY <2>3, <2>4
<1>7. QED
  BY <1>1, <1>3, <1>4, <1>5, <1>6

\* The types of xz_dec_reset().
LEMMA NewDecoderIs ==
  /\ NewDecoder \in DecoderType /\ NewDecoder.allow_buf_error = FALSE
  /\ Going(NewDecoder)
  /\ NewDecoder.in_start = 0 /\ NewDecoder.out_start = 0 /\ NewDecoder.pos = 0
  /\ NewDecoder.temp.buf = <<>> /\ NewDecoder.temp.size = STREAM_HEADER_SIZE
  /\ NewDecoder.filter.ready = <<>>
  /\ NewDecoder.index.count = 0 /\ NewDecoder.block.count = 0
<1>1. <<>> \in Seq(Byte)
  OBVIOUS
<1>2. <<>> \in Seq(Nat \X Nat)
  OBVIOUS
<1>3. NoHash \in HashType
  BY <1>2 DEF NoHash, HashType
<1>4. /\ NewFilter \in FilterType
  BY <1>1 DEF NewFilter, FilterType, Byte
<1>5. [size |-> STREAM_HEADER_SIZE, buf |-> <<>>] \in TempType
  BY <1>1 DEF TempType, STREAM_HEADER_SIZE
<1>6. [compressed |-> 0, uncompressed |-> 0, count |-> 0, hash |-> NoHash] \in CountsType
  BY <1>3 DEF CountsType
<1>7. [sequence |-> "SEQ_INDEX_COUNT", size |-> 0, count |-> 0, hash |-> NoHash] \in IndexType
  BY <1>3 DEF IndexType, IndexSequences
<1>8. [compressed |-> 0, uncompressed |-> 0, size |-> 0] \in HeaderType
  BY DEF HeaderType, VLI_UNKNOWN
<1>9. NewDecoder \in DecoderType
  BY <1>4, <1>5, <1>6, <1>7, <1>8
     DEF NewDecoder, DecoderType, Sequences, VLI_BYTES_MAX, CHECK_VALUES
<1>10. QED
  BY <1>9 DEF NewDecoder, Going, NewFilter, VLI_BYTES_MAX, STREAM_HEADER_SIZE, InTemp, AfterBlocks

\* The types hold before the first call ...
LEMMA TypeStarts ==
  ASSUME Init
  PROVE  TypeInv
<1>1. input \in Seq(Byte) /\ Len(input) \in Nat
  BY InputIs
<1>2. b \in BufType /\ b.in_pos = 0 /\ b.in_size = 0 /\ b.out = <<>> /\ Len(b.out) = 0
  <2>1. <<>> \in Seq(Byte) /\ Len(<<>>) = 0
    OBVIOUS
  <2>2. QED
    BY <2>1 DEF Init, BufType
<1>3. BufferOK(b)
  BY <1>1, <1>2 DEF BufferOK
<1>4. s = NewDecoder
  BY DEF Init
<1>5. PICK e1 : e1 = <<>> /\ Len(e1) = 0
  OBVIOUS
<1>6. Typed(s, b)
  <2>1. 0 <= STREAM_HEADER_SIZE /\ 0 <= BcjHold + 1
    BY BcjAssumption DEF STREAM_HEADER_SIZE
  <2>2. QED
    BY <1>2, <1>4, <1>5, <2>1, NewDecoderIs DEF Typed
<1>7. CallInv
  <2>1. /\ start = [in_pos |-> 0, out_pos |-> 0] /\ pc = "caller" /\ ret = "none" /\ idle = 0
    BY DEF Init
  <2>2. start \in [in_pos : Nat, out_pos : Nat] /\ ret \in Results /\ ret # "XZ_BUF_ERROR"
    BY <2>1 DEF Results
  <2>3. s.allow_buf_error = FALSE /\ s.index.count <= s.block.count /\ Going(s)
    BY <1>4, NewDecoderIs
  <2>4. (idle # 0) = FALSE /\ (idle = 2) = FALSE /\ (ret = "XZ_BUF_ERROR") = FALSE /\ idle \in 0..2
    BY <2>1
  <2>5. QED
    BY <2>1, <2>2, <2>3, <2>4 DEF CallInv
<1>8. QED
  BY <1>1, <1>3, <1>6, <1>7 DEF TypeInv

\* The caller.
LEMMA CallKeeps ==
  ASSUME TypeInv, Call
  PROVE  /\ TypeInv' /\ b'.in_pos = b.in_pos /\ b'.out = b.out /\ b'.in_size \in Nat /\ b'.room \in Nat
         /\ b.in_size <= b'.in_size /\ b'.in_size <= Len(input)
         /\ s' = [s EXCEPT !.in_start = b.in_pos, !.out_start = Len(b.out)]
         /\ start' = [in_pos |-> b.in_pos, out_pos |-> Len(b.out)]
<1>1. PICK n \in Offers, room \in Rooms :
        b' = [b EXCEPT !.in_size = IF @ + n < Len(input) THEN @ + n ELSE Len(input),
                       !.room = room]
  BY Zenon DEF Call
<1>2. n \in Nat /\ room \in Nat
  BY CallerAssumption
<1>3. /\ BufferOK(b) /\ b \in BufType /\ input \in Seq(Byte) /\ Len(input) \in Nat /\ Typed(s, b)
      /\ Going(s) /\ s \in DecoderType
  BY DEF TypeInv, BufferOK, Call, CallInv, Typed
<1>4. PICK m : m = IF b.in_size + n < Len(input) THEN b.in_size + n ELSE Len(input)
  OBVIOUS
<1>5. m \in Nat /\ b.in_size <= m /\ m <= Len(input)
  BY <1>2, <1>3, <1>4 DEF BufferOK, BufType
<1>6. b' = [b EXCEPT !.in_size = m, !.room = room]
  BY <1>1, <1>4
<1>7. b' \in BufType /\ b'.in_pos = b.in_pos /\ b'.out = b.out /\ b'.in_size = m /\ b'.room = room
  BY <1>2, <1>3, <1>5, <1>6 DEF BufType
<1>8. UNCHANGED <<source, ret, idle>> /\ input' = input /\ ret' = ret /\ idle' = idle
  BY DEF Call, source
<1>9. BufferOK(b)'
  BY <1>3, <1>5, <1>7, <1>8 DEF BufferOK, BufType
<1>10. s' = [s EXCEPT !.in_start = b.in_pos, !.out_start = Len(b.out)] /\ pc' = "main"
       /\ ret \in {"none", "XZ_OK"} /\ start' = [in_pos |-> b.in_pos, out_pos |-> Len(b.out)]
  BY DEF Call
<1>11. PICK p \in Nat, q \in Nat : p = b.in_pos /\ q = Len(b.out)
  BY <1>3 DEF BufType
<1>12. s' = [s EXCEPT !.in_start = p, !.out_start = q]
  BY <1>10, <1>11
<1>13. /\ s' \in DecoderType /\ s'.in_start = p /\ s'.out_start = q
       /\ s'.pos = s.pos /\ s'.sequence = s.sequence /\ s'.temp = s.temp /\ s'.filter = s.filter
       /\ s'.index = s.index /\ s'.block = s.block /\ s'.allow_buf_error = s.allow_buf_error
       /\ s'.check_type = s.check_type
  BY <1>3, <1>12 DEF DecoderType
<1>14. Typed(s, b)'
  <2>1. Typed(s', b')
    BY <1>3, <1>7, <1>11, <1>13 DEF Typed
  <2>2. QED
    BY <2>1 DEF Typed, DecoderType
<1>15. Going(s)'
  <2>1. Going(s')
    BY <1>3, <1>13 DEF Going
  <2>2. QED
    BY <2>1 DEF Going
<1>16. CallInv'
  <2>1. start' \in [in_pos : Nat, out_pos : Nat] /\ start'.in_pos = b'.in_pos /\ start'.out_pos = Len(b'.out)
        /\ p <= p /\ q <= q
    BY <1>7, <1>10, <1>11
  <2>2. QED
    BY <1>7, <1>8, <1>10, <1>11, <1>13, <1>15, <2>1 DEF TypeInv, CallInv
<1>17. TypeInv'
  BY <1>3, <1>8, <1>9, <1>14, <1>16 DEF TypeInv
<1>18. QED
  BY <1>5, <1>7, <1>10, <1>17, <1>2

\* ... when dec_main() goes on ...
LEMMA ContinueKeeps ==
  ASSUME TypeInv, pc = "main", NEW x, NEW buf, Continue(x, buf), Goes(x, buf)
  PROVE  TypeInv'
<1>1. /\ s' = x /\ b' = buf /\ input' = input /\ start' = start /\ pc' = pc /\ ret' = ret /\ idle' = idle
  BY DEF Continue, source
<1>2. BufferOK(b') /\ Typed(s', b') /\ Going(s')
  BY <1>1 DEF Goes, Grows
<1>3. /\ ret \in {"none", "XZ_OK"} /\ start.in_pos <= b.in_pos /\ start.out_pos <= Len(b.out)
      /\ start \in [in_pos : Nat, out_pos : Nat] /\ b \in BufType
  BY DEF TypeInv, CallInv, BufferOK
<1>4. b.in_pos <= b'.in_pos /\ Len(b.out) <= Len(b'.out) /\ s'.allow_buf_error = s.allow_buf_error
      /\ b' \in BufType
  BY <1>1, <1>2 DEF Goes, Grows, BufferOK
<1>5. start.in_pos <= b'.in_pos /\ start.out_pos <= Len(b'.out)
  <2>1. start.in_pos \in Nat /\ start.out_pos \in Nat /\ b.in_pos \in Nat /\ b'.in_pos \in Nat
        /\ Len(b.out) \in Nat /\ Len(b'.out) \in Nat
    BY <1>3, <1>4 DEF BufType
  <2>2. QED
    BY <1>3, <1>4, <2>1
<1>6. CallInv'
  BY <1>1, <1>2, <1>3, <1>4, <1>5 DEF TypeInv, CallInv, Going
<1>7. BufferOK(b)' /\ Typed(s, b)'
  BY <1>1, <1>2 DEF BufferOK, Typed, BufType, DecoderType
<1>8. QED
  BY <1>1, <1>6, <1>7 DEF TypeInv

\* ... when the call returns: idle calls are counted, and two are told ...
LEMMA ReturnKeeps ==
  ASSUME TypeInv, pc = "main", NEW x, NEW buf, NEW result, Return(x, buf, result),
         Stops(x, buf, result)
  PROVE  /\ TypeInv' /\ pc' = "caller" /\ b' = buf /\ s'.filter = x.filter
         /\ s'.sequence = x.sequence
<1> DEFINE stuck == result = "XZ_OK" /\ buf.in_pos = start.in_pos /\ Len(buf.out) = start.out_pos
<1>1. /\ s' = [x EXCEPT !.allow_buf_error = stuck] /\ b' = buf /\ input' = input /\ start' = start
      /\ pc' = "caller" /\ ret' = (IF stuck /\ s.allow_buf_error THEN "XZ_BUF_ERROR" ELSE result)
      /\ idle' = (IF stuck THEN idle + 1 ELSE 0)
  BY DEF Return, source
<1>2. stuck \in BOOLEAN /\ (stuck => result = "XZ_OK")
  OBVIOUS
<1> HIDE DEF stuck
<1>3. /\ x \in DecoderType /\ Typed(x, buf) /\ BufferOK(buf)
      /\ result \in Errors \cup {"XZ_OK", "XZ_STREAM_END"}
      /\ (result = "XZ_OK" => Going(x)) /\ (result # "XZ_DATA_ERROR" => x.index.count <= x.block.count)
  BY DEF Stops, Grows, Typed
<1>4. /\ ret \in {"none", "XZ_OK"} /\ idle \in 0..2 /\ s.allow_buf_error = (idle # 0)
      /\ (idle = 2) = (ret = "XZ_BUF_ERROR") /\ start \in [in_pos : Nat, out_pos : Nat]
  BY DEF TypeInv, CallInv
<1>5. idle \in 0..1
  BY <1>4
<1>6. /\ s' \in DecoderType /\ s'.allow_buf_error = stuck
      /\ s'.in_start = x.in_start /\ s'.out_start = x.out_start
      /\ s'.pos = x.pos /\ s'.sequence = x.sequence /\ s'.temp = x.temp /\ s'.filter = x.filter
      /\ s'.index = x.index /\ s'.block = x.block
      /\ s'.check_type = x.check_type
  BY <1>1, <1>2, <1>3 DEF DecoderType
<1>7. Typed(s', b')
  BY <1>1, <1>3, <1>6 DEF Typed
<1>8. Going(x) => Going(s')
  BY <1>6 DEF Going
<1>9. ret' \in Results /\ (ret' \in {"XZ_OK", "XZ_BUF_ERROR"} => Going(s'))
  <2>1. result # "XZ_BUF_ERROR"
    BY <1>3 DEF Errors
  <2>2. QED
    BY <1>1, <1>2, <1>3, <1>8, <2>1 DEF Results
<1>10. idle' \in 0..2 /\ s'.allow_buf_error = (idle' # 0) /\ (idle' = 2) = (ret' = "XZ_BUF_ERROR")
  <2>1. CASE ~stuck
    <3>1. idle' = 0 /\ ret' = result /\ result # "XZ_BUF_ERROR" /\ s'.allow_buf_error = FALSE
      BY <1>1, <1>3, <1>6, <2>1 DEF Errors
    <3>2. /\ idle' \in 0..2 /\ (idle' # 0) = FALSE /\ (idle' = 2) = FALSE
          /\ (ret' = "XZ_BUF_ERROR") = FALSE
      BY <3>1
    <3>3. QED
      BY <3>1, <3>2
  <2>2. CASE stuck
    <3>1. s'.allow_buf_error = TRUE /\ idle' = idle + 1 /\ result = "XZ_OK"
      BY <1>1, <1>2, <1>6, <2>2
    <3>2. CASE idle = 0
      <4>1. ~s.allow_buf_error
        BY <1>4, <3>2
      <4>2. ret' = "XZ_OK" /\ idle' = 1
        BY <1>1, <3>1, <3>2, <4>1
      <4>3. /\ idle' \in 0..2 /\ (idle' # 0) = TRUE /\ (idle' = 2) = FALSE
            /\ (ret' = "XZ_BUF_ERROR") = FALSE
        BY <4>2
      <4>4. QED
        BY <3>1, <4>3
    <3>3. CASE idle = 1
      <4>1. s.allow_buf_error
        BY <1>4, <3>3
      <4>2. ret' = "XZ_BUF_ERROR" /\ idle' = 2
        BY <1>1, <2>2, <3>1, <3>3, <4>1
      <4>3. /\ idle' \in 0..2 /\ (idle' # 0) = TRUE /\ (idle' = 2) = TRUE
            /\ (ret' = "XZ_BUF_ERROR") = TRUE
        BY <4>2
      <4>4. QED
        BY <3>1, <4>3
    <3>4. QED
      BY <1>5, <3>2, <3>3
  <2>3. QED
    BY <2>1, <2>2
<1>11. s'.index.count <= s'.block.count \/ ret' = "XZ_DATA_ERROR"
  <2>1. CASE result = "XZ_DATA_ERROR"
    BY <1>1, <1>2, <2>1
  <2>2. CASE result # "XZ_DATA_ERROR"
    BY <1>3, <1>6, <2>2
  <2>3. QED
    BY <2>1, <2>2
<1>12. ret' # "none"
  BY <1>1, <1>3 DEF Errors
<1>13. CallInv'
  BY <1>1, <1>4, <1>9, <1>10, <1>11, <1>12 DEF CallInv, Going
<1>14. BufferOK(b)' /\ Typed(s, b)'
  BY <1>1, <1>3, <1>7 DEF BufferOK, Typed, BufType, DecoderType
<1>15. QED
  BY <1>1, <1>6, <1>13, <1>14 DEF TypeInv

\* ... and so in every step.
LEMMA TypeKept ==
  ASSUME TypeInv, [Next]_vars
  PROVE  TypeInv'
<1>1. CASE Call
  BY <1>1, CallKeeps
<1>2. CASE dec_main
  <2>1. pc = "main"
    BY <1>2 DEF dec_main, At, FillSome, WaitForInput, Wait, StreamHeader, BlockStart, DecBlockHeader,
       NoMemory, FilterPauses, FilterReads, FilterDecodes, FilterWrites, FilterEnds, BlockPadding,
       BlockCheck, DecIndex, IndexPadding, IndexComplete, IndexCrc32, StreamFooter, IndexWaits,
       IndexPaddingWaits
  <2>2. QED
    BY <1>2, <2>1, MainOK, ContinueKeeps, ReturnKeeps DEF Outcome
<1>3. CASE UNCHANGED vars
  BY <1>3 DEF vars, source, TypeInv, BufferOK, Typed, CallInv, Going
<1>4. CASE Done
  BY <1>3, <1>4 DEF Done
<1>5. QED
  BY <1>1, <1>2, <1>3, <1>4 DEF Next

\* They are those that the runs check.
LEMMA TypesAreOK ==
  ASSUME TypeInv
  PROVE  TypeOK
<1>1. /\ s \in DecoderType /\ b \in BufType /\ input \in Seq(Byte)
      /\ b.in_pos <= b.in_size /\ b.in_size <= Len(input)
      /\ s.in_start <= b.in_pos /\ s.out_start <= Len(b.out)
  BY DEF TypeInv, Typed, BufferOK
<1>2. s.in_start \in 0..b.in_pos /\ s.out_start \in 0..Len(b.out)
  BY <1>1 DEF DecoderType, BufType
<1>3. b.in_pos \in 0..b.in_size /\ b.in_size \in 0..Len(input)
  BY <1>1 DEF BufType
<1>4. QED
  BY <1>1, <1>2, <1>3 DEF TypeInv, Typed, CallInv, TypeOK, DecoderType, BufType

\* The variables keep their types and the decoder stays within its buffers: never more
\* Records than Blocks, no more held back than BcjHold + 1, no position of a field kept
\* where the next field would find it, for every stream, whole, cut or corrupt.
THEOREM TypeCorrect == Spec => []TypeOK
<1>1. Init => TypeInv
  BY TypeStarts
<1>2. TypeInv /\ [Next]_vars => TypeInv'
  BY TypeKept
<1>3. TypeInv => TypeOK
  BY TypesAreOK
<1>4. QED
  BY <1>1, <1>2, <1>3, PTL DEF Spec

-----------------------------------------------------------------------------
(* How a good stream is followed.                                          *)

GoodBlock(blk) == ~Unsupported(blk) /\ ~(blk.dict > DICT_MAX) /\ BlockOK(blk)
GoodStream(d) ==
  /\ d \in StreamType /\ d.magic /\ d.check \in {0, XZ_CHECK_CRC32}
  /\ \A k \in DOMAIN d.blocks : GoodBlock(d.blocks[k])
  /\ d.records = [k \in DOMAIN d.blocks |-> Record(d.blocks[k], d.check)]
  /\ d.count = Len(d.blocks) /\ d.backward = 0 /\ d.footcheck = d.check
  /\ BackwardSize(d) \in Byte

ContentTo(d, k) == Flat(BlockContents(d), k)
\* Where the data of a Block is, and where its paddings end.
DataAt(d, k) == BlockAt(d, k) + Len(BlockHeader(d.blocks[k + 1]))
PaddedTo(d, k) == DataAt(d, k) + Len(Pad(d.blocks[k + 1].data, d.blocks[k + 1].padding))
Least(m, n) == IF m <= n THEN m ELSE n

\* A hash over the first k records and n bytes of the next.
Before(h, k) == IF k = 1 THEN <<0, 0>> ELSE h.crc32[k - 1]
HashIs(h, t, k, n) ==
  /\ h \in HashType /\ Len(h.crc32) = k
  /\ \A i \in 1..k : h.crc32[i] = <<Before(h, i)[1] + t[i][1], Before(h, i)[2] + t[i][2]>>
  /\ h.unpadded = Before(h, k + 1)[1] + n /\ h.uncompressed = Before(h, k + 1)[2]

\* k Blocks are decoded.
BlocksDone(d, x, k) ==
  x.check_type = d.check /\ x.block.count = k /\ HashIs(x.block.hash, d.records, k, 0)
Fresh(x) == x.index.hash = NoHash /\ x.index.size = 0

\* What is in the buffer for headers.
InBuf(d, x, buf, p) ==
  /\ Len(x.temp.buf) < x.temp.size /\ buf.in_pos = p + Len(x.temp.buf)
  /\ \A i \in 1..Len(x.temp.buf) : x.temp.buf[i] = Encode(d)[p + i]

InStreamHeader(d, x, buf) ==
  /\ x.sequence = "SEQ_STREAM_HEADER" /\ x.pos = 0 /\ x.crc = 0
  /\ InBuf(d, x, buf, 0) /\ buf.out = <<>>
  /\ x.block.count = 0 /\ x.block.hash = NoHash /\ Fresh(x)

AtBlockStart(d, x, buf, k) ==
  /\ x.sequence = "SEQ_BLOCK_START" /\ x.pos = 0 /\ x.crc = 0
  /\ buf.in_pos = BlockAt(d, k) /\ buf.out = ContentTo(d, k)
  /\ BlocksDone(d, x, k) /\ Fresh(x)

InBlockHeader(d, x, buf, k) ==
  /\ x.sequence = "SEQ_BLOCK_HEADER" /\ x.pos = 0 /\ x.crc = 0
  /\ x.temp.size = Len(BlockHeader(d.blocks[k + 1])) /\ x.block_header.size = x.temp.size
  /\ InBuf(d, x, buf, BlockAt(d, k)) /\ buf.out = ContentTo(d, k)
  /\ BlocksDone(d, x, k) /\ Fresh(x)

\* i bytes of the data are read; the chunks they stand for are put out, or ready, or
\* about to be decoded.
Decodes(d, x, buf, k, i) ==
  LET data == d.blocks[k + 1].data IN
  /\ i \in 0..Len(data) /\ buf.in_pos = DataAt(d, k) + i
  /\ x.filter.ended = (i = Len(data))
  /\ x.filter.left > 0 => i \in 1..(Len(data) - 1) /\ x.filter.byte = data[i] /\ ~x.filter.ended
  /\ (buf.out \o x.filter.ready) \o Repeated(x.filter.byte, x.filter.left)
       = ContentTo(d, k) \o Flat(Chunks(data), Least(i, Len(data) - 1))

\* What is counted and checked ends at p and q.
Counts(d, x, buf, k, p, q) ==
  /\ p \in DataAt(d, k)..buf.in_pos /\ x.block.compressed = p - DataAt(d, k)
  /\ q \in Len(ContentTo(d, k))..Len(buf.out) /\ x.block.uncompressed = q - Len(ContentTo(d, k))
  /\ x.crc = IF d.check = XZ_CHECK_CRC32
               THEN xz_crc32(SubSeq(buf.out, Len(ContentTo(d, k)) + 1, q), 0) ELSE 0

InBlock(d, x, buf, p, q, k, i) ==
  LET blk == d.blocks[k + 1] IN
  /\ x.sequence = "SEQ_BLOCK_UNCOMPRESS" /\ x.pos = 0
  /\ x.block_header = [compressed |-> blk.compressed, uncompressed |-> blk.uncompressed,
                       size |-> Len(BlockHeader(blk))]
  /\ Decodes(d, x, buf, k, i) /\ Counts(d, x, buf, k, p, q)
  /\ BlocksDone(d, x, k) /\ Fresh(x)

BlockCrc(d, k) ==
  IF d.check = XZ_CHECK_CRC32 THEN xz_crc32(Contents(d.blocks[k + 1].data), 0) ELSE 0

\* The data is decoded and n bytes of what follows it are read.
InBlockPadding(d, x, buf, k, n) ==
  /\ x.sequence = "SEQ_BLOCK_PADDING" /\ x.pos = 0 /\ x.crc = BlockCrc(d, k)
  /\ x.block.compressed = Len(d.blocks[k + 1].data) + n
  /\ buf.in_pos = DataAt(d, k) + (Len(d.blocks[k + 1].data) + n)
  /\ buf.in_pos <= PaddedTo(d, k) /\ buf.out = ContentTo(d, k + 1)
  /\ BlocksDone(d, x, k + 1) /\ Fresh(x)

InBlockCheck(d, x, buf, k) ==
  /\ x.sequence = "SEQ_BLOCK_CHECK" /\ x.crc = BlockCrc(d, k)
  /\ buf.in_pos = PaddedTo(d, k) + x.pos /\ buf.out = ContentTo(d, k + 1)
  /\ BlocksDone(d, x, k + 1) /\ Fresh(x)

\* Where the fields of the Index are, and what is in them.
RecordAt(d, r) == IndexAt(d) + 1 + Len(EncodeVli(d.count)) + Len(Flat(RecordFields(d), r))
FieldAt(d, sequence, r) ==
  IF sequence = "SEQ_INDEX_COUNT" THEN IndexAt(d) + 1
  ELSE IF sequence = "SEQ_INDEX_UNPADDED" THEN RecordAt(d, r)
  ELSE RecordAt(d, r) + Len(EncodeVli(d.records[r + 1][1]))
FieldIs(d, sequence, r) ==
  IF sequence = "SEQ_INDEX_COUNT" THEN d.count
  ELSE IF sequence = "SEQ_INDEX_UNPADDED" THEN d.records[r + 1][1]
  ELSE d.records[r + 1][2]

\* All Blocks are decoded, and the bytes of the Index up to p are counted.
AtIndex(d, x, buf, p) ==
  /\ buf.out = Content(d) /\ BlocksDone(d, x, Len(d.blocks))
  /\ p \in IndexAt(d)..buf.in_pos
  /\ x.index.size = p - IndexAt(d)
  /\ x.crc = xz_crc32(SubSeq(Encode(d), IndexAt(d) + 1, p), 0)

InIndex(d, x, buf, p, r) ==
  LET sequence == x.index.sequence
      number == FieldIs(d, sequence, r)
  IN  /\ x.sequence = "SEQ_INDEX" /\ AtIndex(d, x, buf, p)
      /\ IF sequence = "SEQ_INDEX_COUNT"
           THEN r = 0
           ELSE r < Len(d.blocks) /\ x.index.count = Len(d.blocks) - r
      /\ HashIs(x.index.hash, d.records, r,
                IF sequence = "SEQ_INDEX_UNCOMPRESSED" THEN d.records[r + 1][1] ELSE 0)
      /\ x.pos < Len(EncodeVli(number)) /\ buf.in_pos = FieldAt(d, sequence, r) + x.pos
      /\ x.pos # 0 => x.vli = number % VLI_BASE

InIndexPadding(d, x, buf, p, n) ==
  /\ x.sequence = "SEQ_INDEX_PADDING" /\ x.pos = 0 /\ AtIndex(d, x, buf, p)
  /\ HashIs(x.index.hash, d.records, Len(d.blocks), 0)
  /\ buf.in_pos = IndexAt(d) + (Len(IndexFields(d)) + n)
  /\ buf.in_pos <= IndexAt(d) + Len(EncodeIndex(d))

InIndexCrc32(d, x, buf) ==
  /\ x.sequence = "SEQ_INDEX_CRC32" /\ x.crc = xz_crc32(EncodeIndex(d), 0)
  /\ x.index.size = Len(EncodeIndex(d)) /\ x.check_type = d.check
  /\ buf.in_pos = IndexAt(d) + Len(EncodeIndex(d)) + x.pos /\ buf.out = Content(d)

InStreamFooter(d, x, buf) ==
  /\ x.sequence = "SEQ_STREAM_FOOTER" /\ x.pos = 0
  /\ x.index.size = Len(EncodeIndex(d)) /\ x.check_type = d.check
  /\ InBuf(d, x, buf, FooterAt(d)) /\ buf.out = Content(d)

Follows(d, x, buf, p, q) ==
  \/ InStreamHeader(d, x, buf)
  \/ \E k \in 0..Len(d.blocks) : AtBlockStart(d, x, buf, k)
  \/ \E k \in 0..(Len(d.blocks) - 1) : InBlockHeader(d, x, buf, k)
  \/ \E k \in 0..(Len(d.blocks) - 1), i \in 0..buf.in_pos : InBlock(d, x, buf, p, q, k, i)
  \/ \E k \in 0..(Len(d.blocks) - 1), n \in 0..3 : InBlockPadding(d, x, buf, k, n)
  \/ \E k \in 0..(Len(d.blocks) - 1) : InBlockCheck(d, x, buf, k)
  \/ \E r \in 0..Len(d.blocks) : InIndex(d, x, buf, p, r)
  \/ \E n \in 0..3 : InIndexPadding(d, x, buf, p, n)
  \/ InIndexCrc32(d, x, buf)
  \/ InStreamFooter(d, x, buf)

\* What came of it on its way.
Arrives(d) ==
  /\ content = Content(d)
  /\ Len(input) <= Len(Encode(d)) /\ \A i \in 1..Len(input) : input[i] = Encode(d)[i]
  /\ harm \in {"none", "cut"} /\ (Len(input) = Len(Encode(d)) <=> harm # "cut")

\* u is where w begins.
Begins(u, w) == \E rest \in Seq(Byte) : w = u \o rest

State(d) ==
  /\ ret \in {"none", "XZ_OK", "XZ_BUF_ERROR", "XZ_MEM_ERROR", "XZ_STREAM_END"}
  /\ pc = "main" => Follows(d, s, b, s.in_start, s.out_start)
  /\ pc = "caller" /\ ret \in {"none", "XZ_OK", "XZ_BUF_ERROR"}
       => Follows(d, s, b, b.in_pos, Len(b.out))
  /\ pc = "caller" /\ ret = "XZ_STREAM_END" => b.in_pos = Len(Encode(d)) /\ b.out = Content(d)
  /\ ret = "XZ_MEM_ERROR" => Begins(b.out, Content(d))

Sound == harm # "corrupt" /\ verdict = "XZ_STREAM_END"
SoundInv ==
  Sound => \E c \in Cases : GoodStream(c[1]) /\ Arrives(c[1]) /\ State(c[1])

\* A good stream, from the outside.
LEMMA GoodStreamIs ==
  ASSUME NEW d, GoodStream(d)
  PROVE  /\ d \in StreamType /\ Len(d.blocks) \in Nat /\ BackwardSize(d) \in Byte
         /\ Encode(d) \in Seq(Byte) /\ IndexAt(d) \in Nat /\ FooterAt(d) \in Nat
         /\ Len(Encode(d)) = FooterAt(d) + STREAM_HEADER_SIZE
         /\ Len(EncodeIndex(d)) \in Nat /\ EncodeIndex(d) \in Seq(Byte)
         /\ FooterAt(d) = IndexAt(d) + Len(EncodeIndex(d)) + CHECK_BYTES
         /\ IndexAt(d) = BlockAt(d, Len(d.blocks))
         /\ BlockAt(d, 0) = STREAM_HEADER_SIZE
         /\ ContentTo(d, 0) = <<>> /\ ContentTo(d, Len(d.blocks)) = Content(d)
         /\ Content(d) \in Seq(Byte)
         /\ \A k \in 0..Len(d.blocks) :
              /\ BlockAt(d, k) \in Nat /\ BlockAt(d, k) <= IndexAt(d)
              /\ ContentTo(d, k) \in Seq(Byte)
              /\ \E rest \in Seq(Byte) : Content(d) = ContentTo(d, k) \o rest
<1>1. d \in StreamType /\ BackwardSize(d) \in Byte
  BY DEF GoodStream
<1>2. /\ Blocks(d) \in Seq(Seq(Byte)) /\ Len(Blocks(d)) = Len(d.blocks)
      /\ BlockContents(d) \in Seq(Seq(Byte)) /\ Len(BlockContents(d)) = Len(d.blocks)
      /\ Len(d.blocks) \in Nat
      /\ Content(d) = FlattenSeq(BlockContents(d)) /\ Content(d) \in Seq(Byte)
  BY <1>1, BlocksAre
<1>3. PICK t \in Seq(Seq(Byte)), c \in Seq(Seq(Byte)), n \in Nat :
        /\ t = Blocks(d) /\ c = BlockContents(d) /\ n = Len(d.blocks) /\ Len(t) = n /\ Len(c) = n
  BY <1>2
<1>4. /\ Flat(t, 0) = <<>> /\ Flat(c, 0) = <<>> /\ Flat(c, n) = FlattenSeq(c)
      /\ \A k \in 0..n : Flat(t, k) \in Seq(Byte) /\ Flat(c, k) \in Seq(Byte)
  BY <1>3, FlatIs
<1>5. ASSUME NEW k \in 0..n
      PROVE  /\ Len(Flat(t, k)) \in Nat /\ Len(Flat(t, k)) <= Len(Flat(t, n))
             /\ \E rest \in Seq(Byte) : FlattenSeq(c) = Flat(c, k) \o rest
  <2>1. PICK rest \in Seq(Byte) : FlattenSeq(t) = Flat(t, k) \o rest
    BY <1>3, FlatGrows
  <2>2. FlattenSeq(t) = Flat(t, n) /\ Flat(t, k) \in Seq(Byte)
    BY <1>3, <1>4, FlatIs
  <2>3. Len(Flat(t, n)) = Len(Flat(t, k)) + Len(rest) /\ Len(Flat(t, k)) \in Nat /\ Len(rest) \in Nat
    <3>1. PICK f \in Seq(Byte) : f = Flat(t, k)
      BY <2>2
    <3>2. Len(f \o rest) = Len(f) + Len(rest) /\ Len(f) \in Nat /\ Len(rest) \in Nat
      BY ConcatIs
    <3>3. QED
      BY <2>1, <2>2, <3>1, <3>2
  <2>4. Len(Flat(t, k)) <= Len(Flat(t, n))
    BY <2>3
  <2>5. \E r \in Seq(Byte) : FlattenSeq(c) = Flat(c, k) \o r
    BY <1>3, FlatGrows
  <2>6. QED
    BY <2>3, <2>4, <2>5
<1>6. /\ Encode(d) \in Seq(Byte) /\ IndexAt(d) \in Nat /\ FooterAt(d) \in Nat
      /\ Len(Encode(d)) = FooterAt(d) + STREAM_HEADER_SIZE /\ EncodeIndex(d) \in Seq(Byte)
      /\ Len(EncodeIndex(d)) \in Nat
  BY <1>1, EncodeIs
<1>7. IndexAt(d) = BlockAt(d, n)
  BY <1>3 DEF IndexAt
<1>8. BlockAt(d, 0) = STREAM_HEADER_SIZE
  BY <1>3, <1>4 DEF BlockAt, STREAM_HEADER_SIZE
<1>9. ASSUME NEW k \in 0..n
      PROVE  BlockAt(d, k) \in Nat /\ BlockAt(d, k) <= IndexAt(d)
  <2>1. n \in 0..n
    OBVIOUS
  <2>2. BlockAt(d, k) = 5 + Len(Flat(t, k)) /\ IndexAt(d) = 5 + Len(Flat(t, n))
    BY <1>3, <1>7 DEF BlockAt, STREAM_HEADER_SIZE
  <2>3. Len(Flat(t, k)) \in Nat /\ Len(Flat(t, n)) \in Nat /\ Len(Flat(t, k)) <= Len(Flat(t, n))
    BY <1>5, <2>1
  <2>4. QED
    BY <2>2, <2>3
<1>10. FooterAt(d) = IndexAt(d) + Len(EncodeIndex(d)) + CHECK_BYTES
  BY DEF FooterAt
<1>11. QED
  BY <1>1, <1>2, <1>3, <1>4, <1>5, <1>6, <1>7, <1>8, <1>9, <1>10 DEF ContentTo

\* A Block of it.
LEMMA GoodBlockIs ==
  ASSUME NEW d, GoodStream(d), NEW k \in 0..(Len(d.blocks) - 1), NEW blk, blk = d.blocks[k + 1]
  PROVE  /\ blk \in BlockType /\ blk.data \in Lzma2Data /\ GoodBlock(blk)
         /\ BlockHeader(blk) \in Seq(Byte)
         /\ \E n \in 1..3 : Len(BlockHeader(blk)) = (n + 1) * 4 /\ BlockHeader(blk)[1] = n
         /\ BlockAt(d, k) \in Nat /\ DataAt(d, k) \in Nat /\ PaddedTo(d, k) \in Nat
         /\ DataAt(d, k) = BlockAt(d, k) + Len(BlockHeader(blk))
         /\ PaddedTo(d, k) = DataAt(d, k) + Len(Pad(blk.data, 0))
         /\ Pad(blk.data, 0) \in Seq(Byte)
         /\ BlockAt(d, k + 1) = PaddedTo(d, k) + CheckSize(d.check)
         /\ BlockAt(d, k + 1) <= IndexAt(d) /\ k + 1 \in 0..Len(d.blocks)
         /\ Lies(Encode(d), BlockAt(d, k), BlockHeader(blk))
         /\ Lies(Encode(d), DataAt(d, k), Pad(blk.data, 0))
         /\ Lies(Encode(d), PaddedTo(d, k), CheckField(blk, d.check))
         /\ ContentTo(d, k) \in Seq(Byte) /\ Contents(blk.data) \in Seq(Byte)
         /\ ContentTo(d, k + 1) = ContentTo(d, k) \o Contents(blk.data)
         /\ d.records[k + 1] = Record(blk, d.check)
<1>1. d \in StreamType /\ BackwardSize(d) \in Byte /\ Len(d.blocks) \in Nat /\ k + 1 \in 1..Len(d.blocks)
      /\ k \in Nat
  BY GoodStreamIs
<1>2. /\ Blocks(d) \in Seq(Seq(Byte)) /\ Len(Blocks(d)) = Len(d.blocks)
      /\ BlockContents(d) \in Seq(Seq(Byte)) /\ Len(BlockContents(d)) = Len(d.blocks)
      /\ blk \in BlockType /\ blk.data \in Lzma2Data
      /\ Blocks(d)[k + 1] = EncodeBlock(blk, d.check)
      /\ BlockContents(d)[k + 1] = Contents(blk.data)
  BY <1>1, BlocksAre
<1>3. DOMAIN d.blocks = 1..Len(d.blocks)
  BY <1>1 DEF StreamType
<1>4. GoodBlock(blk) /\ d.records[k + 1] = Record(blk, d.check)
  BY <1>1, <1>3 DEF GoodStream
<1>5. blk.padding = 0
  BY <1>4 DEF GoodBlock, BlockOK
<1>6. /\ BlockHeader(blk) \in Seq(Byte)
      /\ \E n \in 1..3 : Len(BlockHeader(blk)) = (n + 1) * 4 /\ BlockHeader(blk)[1] = n
  BY <1>2, BlockHeaderIs
<1>7. PICK u \in Seq(Byte) : u = EncodeBlock(blk, d.check)
  BY <1>2, EncodeBlockIs
<1>8. PICK H \in Seq(Byte), P \in Seq(Byte), C \in Seq(Byte) :
        /\ H = BlockHeader(blk) /\ P = Pad(blk.data, 0) /\ C = CheckField(blk, d.check)
        /\ Len(C) = CheckSize(d.check) /\ Len(u) = Len(H) + Len(P) + Len(C)
        /\ Lies(u, 0, H) /\ Lies(u, Len(H), P) /\ Lies(u, Len(H) + Len(P), C)
  <2>1. CheckField(blk, d.check) \in Seq(Byte) /\ Len(CheckField(blk, d.check)) = CheckSize(d.check)
    BY <1>2, CheckFieldIs
  <2>2. Pad(blk.data, 0) \in Seq(Byte)
    BY <1>2, <1>5, EncodeBlockIs
  <2>3. /\ Len(u) = Len(BlockHeader(blk)) + Len(Pad(blk.data, 0)) + CheckSize(d.check)
        /\ Lies(u, 0, BlockHeader(blk)) /\ Lies(u, Len(BlockHeader(blk)), Pad(blk.data, 0))
        /\ Lies(u, Len(BlockHeader(blk)) + Len(Pad(blk.data, 0)), CheckField(blk, d.check))
    BY <1>2, <1>5, <1>7, EncodeBlockIs
  <2>4. QED
    BY <1>6, <2>1, <2>2, <2>3
<1>9. PICK t \in Seq(Seq(Byte)) : t = Blocks(d) /\ Len(t) = Len(d.blocks) /\ t[k + 1] = u
  BY <1>2, <1>7
<1>10. PICK E \in Seq(Byte) : E = Encode(d) /\ Lies(E, STREAM_HEADER_SIZE, FlattenSeq(t))
  BY <1>1, <1>9, EncodeIs
<1>11. PICK p \in Nat : p = STREAM_HEADER_SIZE
  BY DEF STREAM_HEADER_SIZE
<1>12. k \in 0..(Len(t) - 1)
  BY <1>9
<1>13. /\ Flat(t, k) \in Seq(Byte) /\ Len(Flat(t, k + 1)) = Len(Flat(t, k)) + Len(t[k + 1])
       /\ Lies(E, p + Len(Flat(t, k)), t[k + 1])
  BY <1>10, <1>11, <1>12, LiesFlat
<1>14. PICK l \in Nat, h \in Nat, m \in Nat, c \in Nat :
         l = Len(Flat(t, k)) /\ h = Len(H) /\ m = Len(P) /\ c = Len(C)
  BY <1>13
<1>15. PICK a \in Nat : a = p + l
  OBVIOUS
<1>16. Lies(E, a, u)
  BY <1>9, <1>13, <1>14, <1>15
<1>17. h + m \in Nat /\ Lies(u, h, P) /\ Lies(u, h + m, C) /\ Lies(u, 0, H)
  BY <1>8, <1>14
<1>18. Lies(E, a + 0, H) /\ Lies(E, a + h, P) /\ Lies(E, a + (h + m), C)
  BY <1>16, <1>17, LiesWithin
<1>19. BlockAt(d, k) = a
  BY <1>9, <1>11, <1>14, <1>15 DEF BlockAt
<1>20. DataAt(d, k) = a + h
  BY <1>8, <1>14, <1>19 DEF DataAt
<1>21. PaddedTo(d, k) = (a + h) + m
  BY <1>5, <1>8, <1>14, <1>20 DEF PaddedTo
<1>22. BlockAt(d, k + 1) = ((a + h) + m) + c
  <2>1. Len(Flat(t, k + 1)) = l + Len(u) /\ Len(u) = h + m + c
    BY <1>8, <1>9, <1>13, <1>14
  <2>2. QED
    BY <1>9, <1>11, <1>15, <2>1 DEF BlockAt
<1>23. a + 0 = a /\ a + (h + m) = (a + h) + m
  OBVIOUS
<1>24. BlockAt(d, k + 1) <= IndexAt(d) /\ k + 1 \in 0..Len(d.blocks) /\ k \in 0..Len(d.blocks)
  <2>1. k + 1 \in 0..Len(d.blocks) /\ k \in 0..Len(d.blocks)
    BY <1>1
  <2>2. QED
    BY <2>1, GoodStreamIs
<1>25. ContentTo(d, k) \in Seq(Byte) /\ ContentTo(d, k + 1) = ContentTo(d, k) \o Contents(blk.data)
  <2>1. k \in 0..(Len(BlockContents(d)) - 1)
    BY <1>2
  <2>2. Flat(BlockContents(d), k + 1) = Flat(BlockContents(d), k) \o BlockContents(d)[k + 1]
    BY <1>2, <2>1, FlatIs
  <2>3. QED
    BY <1>2, <1>24, <2>2, GoodStreamIs DEF ContentTo
<1>26. Contents(blk.data) \in Seq(Byte)
  BY <1>2, ContentsAre
<1>27. a \in Nat /\ a + h \in Nat /\ (a + h) + m \in Nat
  OBVIOUS
<1>28. DataAt(d, k) = BlockAt(d, k) + Len(BlockHeader(blk)) /\ PaddedTo(d, k) = DataAt(d, k) + Len(Pad(blk.data, 0))
       /\ BlockAt(d, k + 1) = PaddedTo(d, k) + CheckSize(d.check)
  BY <1>8, <1>14, <1>19, <1>20, <1>21, <1>22
<1>29. /\ Lies(Encode(d), BlockAt(d, k), BlockHeader(blk))
       /\ Lies(Encode(d), DataAt(d, k), Pad(blk.data, 0))
       /\ Lies(Encode(d), PaddedTo(d, k), CheckField(blk, d.check))
  BY <1>8, <1>10, <1>18, <1>19, <1>20, <1>21, <1>23
<1>30. BlockAt(d, k) \in Nat /\ DataAt(d, k) \in Nat /\ PaddedTo(d, k) \in Nat /\ Pad(blk.data, 0) \in Seq(Byte)
  BY <1>8, <1>19, <1>20, <1>21, <1>27
<1>31. QED
  BY <1>2, <1>4, <1>6, <1>24, <1>25, <1>26, <1>28, <1>29, <1>30

\* What is so of a Block that is right.
LEMMA GoodSizesAre ==
  ASSUME NEW d, GoodStream(d), NEW k \in 0..(Len(d.blocks) - 1), NEW blk, blk = d.blocks[k + 1]
  PROVE  /\ blk.compressed \in {VLI_UNKNOWN, Len(blk.data)} /\ Len(blk.data) \in Vli
         /\ blk.uncompressed \in {VLI_UNKNOWN, Len(Contents(blk.data))} /\ Len(Contents(blk.data)) \in Vli
         /\ \A i \in 1..Len(blk.data) : blk.data[i] <= CHUNK_MAX
         /\ d.records[k + 1][1] = Len(BlockHeader(blk)) + Len(blk.data) + CheckSize(d.check)
         /\ d.records[k + 1][2] = Len(Contents(blk.data))
         /\ d.records[k + 1][1] \in Vli
         /\ blk.error = 0
<1>1. GoodBlock(blk) /\ d.records[k + 1] = Record(blk, d.check) /\ blk.data \in Lzma2Data /\ blk \in BlockType
  BY GoodBlockIs
<1>2. d \in StreamType /\ k + 1 \in 1..Len(d.blocks) /\ Len(d.blocks) \in Nat
  BY GoodStreamIs
<1>3. blk.data \in Seq(Byte) /\ DOMAIN blk.data = 1..Len(blk.data) /\ Len(blk.data) \in Nat
  BY <1>1, ContentsAre
<1>4. /\ d.records[k + 1][1] = Len(BlockHeader(blk)) + Len(blk.data) + CheckSize(d.check)
      /\ d.records[k + 1][2] = Len(Contents(blk.data))
  BY <1>1 DEF Record
<1>5. Len(d.records) = Len(d.blocks)
  <2>1. d.records = [i \in 1..Len(d.blocks) |-> Record(d.blocks[i], d.check)]
    BY <1>2 DEF GoodStream, StreamType
  <2>2. QED
    BY <1>2, <2>1
<1>6. d.records[k + 1][1] \in Vli /\ d.records[k + 1][2] \in Vli
  BY <1>2, <1>5, IndexFieldsAre
<1>7. Len(blk.data) \in Vli
  <2>1. BlockHeader(blk) \in Seq(Byte) /\ CheckSize(d.check) \in Nat
    BY GoodBlockIs DEF CheckSize, CHECK_BYTES
  <2>2. PICK h \in Nat, c \in Nat, n \in Nat : h = Len(BlockHeader(blk)) /\ c = CheckSize(d.check) /\ n = Len(blk.data)
    BY <1>3, <2>1
  <2>3. h + n + c \in 0..63
    <3>1. d.records[k + 1][1] = h + n + c
      BY <1>4, <2>2
    <3>2. QED
      BY <1>6, <3>1 DEF Vli, VLI_UNKNOWN
  <2>4. n \in 0..63
    BY <2>3
  <2>5. QED
    BY <2>2, <2>4 DEF Vli, VLI_UNKNOWN
<1>8. QED
  BY <1>1, <1>3, <1>4, <1>6, <1>7 DEF GoodBlock, BlockOK

\* The Blocks are what the verdict is about.
LEMMA VerdictIs ==
  ASSUME NEW d \in StreamType, BackwardSize(d) \in Byte, Verdict(d) = "XZ_STREAM_END"
  PROVE  GoodStream(d)
<1>1. /\ d.magic /\ ~(d.check > XZ_CHECK_CRC32)
      /\ \A i \in DOMAIN d.blocks : ~Unsupported(d.blocks[i]) /\ ~(d.blocks[i].dict > DICT_MAX)
      /\ \A i \in DOMAIN d.blocks : BlockOK(d.blocks[i])
      /\ d.records = [i \in DOMAIN d.blocks |-> Record(d.blocks[i], d.check)]
      /\ d.count = Len(d.blocks) /\ d.backward = 0 /\ d.footcheck = d.check
  <2>1. d.magic /\ ~(d.check > XZ_CHECK_CRC32 \/ \E i \in DOMAIN d.blocks : Unsupported(d.blocks[i]))
        /\ ~(\E i \in DOMAIN d.blocks : d.blocks[i].dict > DICT_MAX)
    BY DEF Verdict
  <2>2. /\ \A i \in DOMAIN d.blocks : BlockOK(d.blocks[i])
        /\ d.records = [i \in DOMAIN d.blocks |-> Record(d.blocks[i], d.check)]
        /\ d.count = Len(d.blocks) /\ d.backward = 0 /\ d.footcheck = d.check
    BY <2>1 DEF Verdict
  <2>3. QED
    BY <2>1, <2>2
<1>2. d.check \in 0..15
  BY DEF StreamType, Byte
<1>3. d.check \in {0, XZ_CHECK_CRC32}
  BY <1>1, <1>2 DEF XZ_CHECK_CRC32
<1>4. \A i \in DOMAIN d.blocks : GoodBlock(d.blocks[i])
  BY <1>1 DEF GoodBlock
<1>5. QED
  BY <1>1, <1>3, <1>4, Zenon DEF GoodStream

-----------------------------------------------------------------------------
(* Hashes over sizes.                                                      *)

\* What is so before a Record.
LEMMA BeforeIs ==
  ASSUME NEW h \in HashType, NEW k \in 1..(Len(h.crc32) + 1)
  PROVE  Before(h, k)[1] \in Nat /\ Before(h, k)[2] \in Nat
<1>1. h.crc32 \in Seq(Nat \X Nat)
  BY DEF HashType
<1>2. PICK c \in Seq(Nat \X Nat) : c = h.crc32
  BY <1>1
<1>3. CASE k = 1
  BY <1>3 DEF Before
<1>4. CASE k # 1
  <2>1. k - 1 \in 1..Len(c)
    BY <1>2, <1>4
  <2>2. c[k - 1] \in Nat \X Nat
    BY <2>1, ElementIs
  <2>3. Before(h, k) = c[k - 1]
    BY <1>2, <1>4 DEF Before
  <2>4. QED
    BY <2>2, <2>3
<1>5. QED
  BY <1>3, <1>4

\* Hashes over the same are the same.
LEMMA HashesAgree ==
  ASSUME NEW t, NEW k \in Nat, NEW h, NEW g, HashIs(h, t, k, 0), HashIs(g, t, k, 0)
  PROVE  h = g
<1>1. /\ h \in HashType /\ g \in HashType /\ Len(h.crc32) = k /\ Len(g.crc32) = k
      /\ h.crc32 \in Seq(Nat \X Nat) /\ g.crc32 \in Seq(Nat \X Nat)
  BY DEF HashIs, HashType
<1> DEFINE S == {n \in Nat : \A i \in 1..k : i <= n => h.crc32[i] = g.crc32[i]}
<1>2. 0 \in S
  OBVIOUS
<1>3. ASSUME NEW n \in Nat, n \in S PROVE n + 1 \in S
  <2>1. ASSUME NEW i \in 1..k, i <= n + 1 PROVE h.crc32[i] = g.crc32[i]
    <3>1. CASE i <= n
      BY <1>3, <3>1
    <3>2. CASE ~(i <= n)
      <4>1. Before(h, i) = Before(g, i)
        <5>1. CASE i = 1
          BY <5>1 DEF Before
        <5>2. CASE i # 1
          <6>1. i - 1 \in 1..k /\ i - 1 <= n
            BY <2>1, <5>2
          <6>2. h.crc32[i - 1] = g.crc32[i - 1]
            BY <1>3, <6>1
          <6>3. QED
            BY <5>2, <6>2 DEF Before
        <5>3. QED
          BY <5>1, <5>2
      <4>2. QED
        BY <4>1 DEF HashIs
    <3>3. QED
      BY <3>1, <3>2
  <2>2. QED
    BY <2>1
<1> HIDE DEF S
<1>4. Nat \subseteq S
  BY <1>2, <1>3, SetInduction
<1>5. \A i \in 1..k : h.crc32[i] = g.crc32[i]
  BY <1>4 DEF S
<1>6. h.crc32 = g.crc32
  <2>1. PICK u \in Seq(Nat \X Nat), v \in Seq(Nat \X Nat) : u = h.crc32 /\ v = g.crc32
    BY <1>1
  <2>2. Len(u) = Len(v) /\ \A i \in 1..Len(u) : u[i] = v[i]
    BY <1>1, <1>5, <2>1
  <2>3. u = v
    BY <2>2, SeqEqual
  <2>4. QED
    BY <2>1, <2>3
<1>7. Before(h, k + 1) = Before(g, k + 1)
  BY <1>6 DEF Before
<1>8. /\ Before(h, k + 1)[1] \in Nat /\ Before(h, k + 1)[2] \in Nat
  <2>1. k + 1 \in 1..(Len(h.crc32) + 1)
    BY <1>1
  <2>2. QED
    BY <1>1, <2>1, BeforeIs
<1>9. h.unpadded = g.unpadded /\ h.uncompressed = g.uncompressed
  BY <1>7, <1>8 DEF HashIs
<1>10. QED
  BY <1>1, <1>6, <1>9, SMTT(30) DEF HashType

\* A new hash is over nothing.
LEMMA HashStarts ==
  ASSUME NEW t
  PROVE  HashIs(NoHash, t, 0, 0)
<1>1. <<>> \in Seq(Nat \X Nat) /\ Len(<<>>) = 0
  OBVIOUS
<1>2. NoHash \in HashType
  BY <1>1 DEF NoHash, HashType
<1>3. Before(NoHash, 0 + 1) = <<0, 0>>
  BY DEF Before
<1>4. QED
  BY <1>1, <1>2, <1>3 DEF HashIs, NoHash

\* The first number of a Record is added ...
LEMMA HashAdds ==
  ASSUME NEW t, NEW k \in Nat, NEW h, HashIs(h, t, k, 0), NEW n \in Nat
  PROVE  HashIs([h EXCEPT !.unpadded = @ + n], t, k, n)
<1>1. h \in HashType /\ h.unpadded \in Nat /\ h.crc32 \in Seq(Nat \X Nat)
  BY DEF HashIs, HashType
<1>2. PICK m \in Nat : m = h.unpadded + n
  BY <1>1
<1>3. PICK g : g = [h EXCEPT !.unpadded = m]
  OBVIOUS
<1>4. g \in HashType /\ g.unpadded = m /\ g.uncompressed = h.uncompressed /\ g.crc32 = h.crc32
  BY <1>1, <1>3 DEF HashType
<1>5. \A i \in Nat : Before(g, i) = Before(h, i)
  BY <1>4 DEF Before
<1>6. h.unpadded = Before(h, k + 1)[1] + 0 /\ k + 1 \in Nat /\ Before(h, k + 1)[1] \in Nat
  <2>1. k + 1 \in 1..(Len(h.crc32) + 1)
    BY DEF HashIs
  <2>2. QED
    BY <1>1, <2>1, BeforeIs DEF HashIs
<1>7. g.unpadded = Before(g, k + 1)[1] + n
  BY <1>2, <1>4, <1>5, <1>6
<1>8. HashIs(g, t, k, n)
  BY <1>4, <1>5, <1>6, <1>7 DEF HashIs
<1>9. QED
  BY <1>2, <1>3, <1>8

\* ... or all of it.
LEMMA HashAppends ==
  ASSUME NEW t, NEW k \in Nat, NEW n \in Nat, NEW h, HashIs(h, t, k, n), NEW m \in Nat, NEW v \in Nat,
         t[k + 1][1] = n + m, t[k + 1][2] = v
  PROVE  HashIs([unpadded |-> h.unpadded + m, uncompressed |-> h.uncompressed + v,
                 crc32 |-> Append(h.crc32, <<h.unpadded + m, h.uncompressed + v>>)], t, k + 1, 0)
<1>1. /\ h \in HashType /\ h.unpadded \in Nat /\ h.uncompressed \in Nat /\ h.crc32 \in Seq(Nat \X Nat)
      /\ Len(h.crc32) = k
  BY DEF HashIs, HashType
<1>2. PICK a \in Nat, e \in Nat : a = h.unpadded + m /\ e = h.uncompressed + v
  BY <1>1, SMTT(30)
<1>3. PICK c \in Seq(Nat \X Nat) : c = h.crc32 /\ Len(c) = k
  BY <1>1
<1>4. PICK f \in Nat \X Nat : f = <<a, e>> /\ f[1] = a /\ f[2] = e
  <2>1. <<a, e>> \in Nat \X Nat /\ <<a, e>>[1] = a /\ <<a, e>>[2] = e
    OBVIOUS
  <2>2. QED
    BY <2>1
<1>5. PICK l \in Seq(Nat \X Nat) : /\ l = Append(c, f) /\ Len(l) = k + 1 /\ l[k + 1] = f
                                   /\ \A i \in 1..k : l[i] = c[i]
  <2>1. /\ Append(c, f) \in Seq(Nat \X Nat) /\ Len(Append(c, f)) = Len(c) + 1
        /\ \A i \in 1..Len(c) : Append(c, f)[i] = c[i]
        /\ Append(c, f)[Len(c) + 1] = f
    BY AppendIs
  <2>2. QED
    BY <1>3, <2>1
<1>6. PICK g : g = [unpadded |-> a, uncompressed |-> e, crc32 |-> l]
  OBVIOUS
<1>7. g \in HashType /\ g.unpadded = a /\ g.uncompressed = e /\ g.crc32 = l
  BY <1>6 DEF HashType
<1>8. \A i \in 1..(k + 1) : Before(g, i) = Before(h, i)
  <2> TAKE i \in 1..(k + 1)
  <2>1. CASE i = 1
    BY <2>1 DEF Before
  <2>2. CASE i # 1
    <3>1. i - 1 \in 1..k
      BY <2>2, SMTT(30)
    <3>2. l[i - 1] = c[i - 1]
      BY <1>5, <3>1
    <3>3. QED
      BY <1>3, <1>7, <2>2, <3>2 DEF Before
  <2>3. QED
    BY <2>1, <2>2
<1>9. k + 1 \in 1..(Len(h.crc32) + 1) /\ k + 1 \in 1..(k + 1)
  BY <1>1
<1>10. /\ Before(h, k + 1)[1] \in Nat /\ Before(h, k + 1)[2] \in Nat
       /\ h.unpadded = Before(h, k + 1)[1] + n /\ h.uncompressed = Before(h, k + 1)[2]
  BY <1>1, <1>9, BeforeIs DEF HashIs
<1>11. /\ a = Before(g, k + 1)[1] + t[k + 1][1] /\ e = Before(g, k + 1)[2] + t[k + 1][2]
  <2>1. PICK p \in Nat, q \in Nat : p = Before(h, k + 1)[1] /\ q = Before(h, k + 1)[2]
    BY <1>10
  <2>2. a = (p + n) + m /\ e = q + v
    BY <1>2, <1>10, <2>1
  <2>3. a = p + (n + m)
    BY <2>2
  <2>4. Before(g, k + 1) = Before(h, k + 1)
    BY <1>8, <1>9
  <2>5. QED
    BY <2>1, <2>2, <2>3, <2>4
<1>12. ASSUME NEW i \in 1..(k + 1)
       PROVE  g.crc32[i] = <<Before(g, i)[1] + t[i][1], Before(g, i)[2] + t[i][2]>>
  <2>1. CASE i = k + 1
    BY <1>4, <1>5, <1>7, <1>11, <2>1
  <2>2. CASE i # k + 1
    <3>1. i \in 1..k
      BY <2>2
    <3>2. g.crc32[i] = h.crc32[i]
      BY <1>3, <1>5, <1>7, <3>1
    <3>3. h.crc32[i] = <<Before(h, i)[1] + t[i][1], Before(h, i)[2] + t[i][2]>>
      BY <3>1 DEF HashIs
    <3>4. QED
      BY <1>8, <3>2, <3>3
  <2>3. QED
    BY <2>1, <2>2
<1>13. Before(g, (k + 1) + 1) = f
  <2>1. (k + 1) + 1 # 1 /\ ((k + 1) + 1) - 1 = k + 1
    OBVIOUS
  <2>2. QED
    BY <1>5, <1>7, <2>1 DEF Before
<1>14. HashIs(g, t, k + 1, 0)
  <2>1. g.unpadded = Before(g, (k + 1) + 1)[1] + 0 /\ g.uncompressed = Before(g, (k + 1) + 1)[2]
    BY <1>4, <1>7, <1>13
  <2>2. QED
    BY <1>5, <1>7, <1>12, <2>1 DEF HashIs
<1>15. QED
  BY <1>2, <1>3, <1>4, <1>5, <1>6, <1>14

\* A sum goes on where it was.
LEMMA CrcGoesOn ==
  ASSUME NEW u \in Seq(Byte), NEW m \in Nat, NEW n \in Nat, NEW l \in Nat, m <= n, n <= l, l <= Len(u)
  PROVE  xz_crc32(SubSeq(u, n + 1, l), xz_crc32(SubSeq(u, m + 1, n), 0)) = xz_crc32(SubSeq(u, m + 1, l), 0)
<1>1. PICK v \in Seq(Byte), w \in Seq(Byte), z \in Seq(Byte) :
        /\ v = SubSeq(u, m + 1, n) /\ w = SubSeq(u, n + 1, l) /\ z = SubSeq(u, m + 1, l)
        /\ Len(v) = n - m /\ Len(w) = l - n /\ Len(z) = l - m
        /\ \A i \in 1..(n - m) : v[i] = u[m + i]
        /\ \A i \in 1..(l - n) : w[i] = u[n + i]
        /\ \A i \in 1..(l - m) : z[i] = u[m + i]
  <2>1. n <= Len(u) /\ m <= l
    OBVIOUS
  <2>2. /\ SubSeq(u, m + 1, n) \in Seq(Byte) /\ Len(SubSeq(u, m + 1, n)) = n - m
        /\ \A i \in 1..(n - m) : SubSeq(u, m + 1, n)[i] = u[m + i]
    BY <2>1, PieceIs
  <2>3. /\ SubSeq(u, n + 1, l) \in Seq(Byte) /\ Len(SubSeq(u, n + 1, l)) = l - n
        /\ \A i \in 1..(l - n) : SubSeq(u, n + 1, l)[i] = u[n + i]
    BY PieceIs
  <2>4. /\ SubSeq(u, m + 1, l) \in Seq(Byte) /\ Len(SubSeq(u, m + 1, l)) = l - m
        /\ \A i \in 1..(l - m) : SubSeq(u, m + 1, l)[i] = u[m + i]
    BY <2>1, PieceIs
  <2>5. QED
    BY <2>2, <2>3, <2>4
<1>2. z = v \o w
  <2>1. PICK y \in Seq(Byte) : /\ y = v \o w /\ Len(y) = Len(v) + Len(w)
                               /\ \A i \in 1..Len(v) : y[i] = v[i]
                               /\ \A i \in 1..Len(w) : y[Len(v) + i] = w[i]
    <3>1. /\ v \o w \in Seq(Byte) /\ Len(v \o w) = Len(v) + Len(w)
          /\ \A i \in 1..Len(v) : (v \o w)[i] = v[i]
          /\ \A i \in 1..Len(w) : (v \o w)[Len(v) + i] = w[i]
      BY ConcatIs
    <3>2. QED
      BY <3>1
  <2>2. Len(y) = l - m
    BY <1>1, <2>1
  <2>3. ASSUME NEW i \in 1..(l - m) PROVE y[i] = z[i]
    <3>1. CASE i <= n - m
      <4>1. i \in 1..(n - m) /\ i \in 1..Len(v)
        BY <1>1, <3>1
      <4>2. QED
        BY <1>1, <2>1, <4>1
    <3>2. CASE ~(i <= n - m)
      <4>1. PICK j \in 1..(l - n) : j = i - (n - m)
        BY <3>2
      <4>2. Len(v) + j = i /\ n + j = m + i /\ j \in 1..Len(w)
        BY <1>1, <4>1
      <4>3. y[i] = w[j] /\ w[j] = u[n + j] /\ z[i] = u[m + i]
        BY <1>1, <2>1, <4>1, <4>2
      <4>4. QED
        BY <4>2, <4>3
    <3>3. QED
      BY <3>1, <3>2
  <2>4. y = z
    BY <1>1, <2>2, <2>3, SeqEqual
  <2>5. QED
    BY <2>1, <2>4
<1>3. v \in Seq(Nat) /\ w \in Seq(Nat)
  BY BytesAreNumbers
<1>4. xz_crc32(v \o w, 0) = xz_crc32(w, xz_crc32(v, 0))
  BY <1>3, CrcConcat
<1>5. QED
  BY <1>1, <1>2, <1>4

-----------------------------------------------------------------------------
(* The steps on a good stream.                                             *)

\* Within a call, on a good stream.
InGood(d) ==
  InMain /\ GoodStream(d) /\ Arrives(d) /\ Follows(d, s, b, s.in_start, s.out_start)

GoodOutcome(d) ==
  \/ \E x, buf : Continue(x, buf) /\ Follows(d, x, buf, x.in_start, x.out_start)
  \/ \E x, buf : Return(x, buf, "XZ_OK") /\ Follows(d, x, buf, buf.in_pos, Len(buf.out))
  \/ \E x, buf : Return(x, buf, "XZ_STREAM_END") /\ buf.in_pos = Len(Encode(d)) /\ buf.out = Content(d)
  \/ \E x, buf : Return(x, buf, "XZ_MEM_ERROR") /\ buf.out = b.out

\* What the decoder finds inside a good stream.
LEMMA InGoodIs ==
  ASSUME NEW d, InGood(d)
  PROVE  /\ InMain /\ GoodStream(d) /\ Arrives(d) /\ Follows(d, s, b, s.in_start, s.out_start)
         /\ s \in DecoderType /\ b \in BufType /\ b.in_pos \in Nat /\ b.in_size \in Nat
         /\ b.out \in Seq(Byte) /\ b.room \in Nat
         /\ b.in_pos <= b.in_size /\ b.in_size <= Len(input) /\ input \in Seq(Byte)
         /\ Len(input) \in Nat /\ Len(input) <= Len(Encode(d))
         /\ \A i \in 1..Len(input) : input[i] = Encode(d)[i]
BY InMainIs DEF InGood, BufferOK, BufType, Arrives

\* The next byte is the one that was packed.
LEMMA NextIs ==
  ASSUME NEW d, InGood(d), More
  PROVE  /\ Next1 = Encode(d)[b.in_pos + 1] /\ Next1 \in Byte
         /\ Taken(1).in_pos = b.in_pos + 1 /\ Taken(1).out = b.out /\ Taken(1).room = b.room
<1>1. b.in_pos + 1 \in 1..Len(input)
  BY InGoodIs DEF More
<1>2. Next1 = Encode(d)[b.in_pos + 1]
  BY <1>1, InGoodIs DEF Next1
<1>3. QED
  BY <1>2, NextByte, InGoodIs

\* A pair in a sequence.
LEMMA PairIs ==
  ASSUME NEW T, NEW u \in Seq(T), NEW m \in Nat, m + 2 <= Len(u)
  PROVE  SubSeq(u, m + 1, m + 2) = <<u[m + 1], u[m + 2]>>
<1>1. m <= m + 2 /\ m + 2 \in Nat /\ (m + 2) - m = 2
  OBVIOUS
<1>2. /\ SubSeq(u, m + 1, m + 2) \in Seq(T) /\ Len(SubSeq(u, m + 1, m + 2)) = 2
      /\ \A i \in 1..2 : SubSeq(u, m + 1, m + 2)[i] = u[m + i]
  BY <1>1, PieceIs
<1>3. PICK e \in T, f \in T : e = u[m + 1] /\ f = u[m + 2]
  <2>1. m + 1 \in 1..Len(u) /\ m + 2 \in 1..Len(u)
    OBVIOUS
  <2>2. QED
    BY <2>1, ElementIs
<1>4. PICK v \in Seq(T) : v = <<e, f>> /\ Len(v) = 2 /\ v[1] = e /\ v[2] = f
  <2>1. <<e, f>> \in Seq(T) /\ Len(<<e, f>>) = 2 /\ <<e, f>>[1] = e /\ <<e, f>>[2] = f
    OBVIOUS
  <2>2. QED
    BY <2>1
<1>5. PICK w \in Seq(T) : w = SubSeq(u, m + 1, m + 2) /\ Len(w) = 2 /\ \A i \in 1..2 : w[i] = u[m + i]
  BY <1>2
<1>6. \A i \in 1..2 : w[i] = v[i]
  <2> TAKE i \in 1..2
  <2>1. CASE i = 1
    BY <1>3, <1>4, <1>5, <2>1
  <2>2. CASE i = 2
    BY <1>3, <1>4, <1>5, <2>2
  <2>3. QED
    BY <2>1, <2>2
<1>7. w = v
  BY <1>4, <1>5, <1>6, SeqEqual
<1>8. QED
  BY <1>3, <1>4, <1>5, <1>7

\* The buffer for headers is filled, or filled further.
LEMMA FilledIs ==
  ASSUME NEW d, InGood(d), s.sequence \in InTemp, TempFills, NEW p \in Nat, InBuf(d, s, b, p)
  PROVE  /\ TempFilled \in Seq(Byte) /\ Len(TempFilled) = s.temp.size /\ s.temp.size \in Nat
         /\ \A i \in 1..s.temp.size : TempFilled[i] = Encode(d)[p + i]
         /\ Taken(Missing).in_pos = p + s.temp.size /\ Taken(Missing).out = b.out
         /\ p + s.temp.size <= Len(Encode(d))
<1>1. /\ s.temp.size \in Nat /\ s.temp.buf \in Seq(Byte) /\ Len(s.temp.buf) < s.temp.size
      /\ b.in_pos = p + Len(s.temp.buf)
      /\ \A i \in 1..Len(s.temp.buf) : s.temp.buf[i] = Encode(d)[p + i]
  BY InGoodIs DEF InBuf, DecoderType, TempType
<1>2. PICK w \in Seq(Byte), l \in Nat, n \in Nat, size \in Nat, a \in Nat :
        w = s.temp.buf /\ l = Len(w) /\ n = Missing /\ size = s.temp.size /\ a = b.in_pos
  <2>1. PICK w \in Seq(Byte) : w = s.temp.buf
    BY <1>1
  <2>2. Len(w) \in Nat /\ Len(w) < s.temp.size
    BY <1>1, <2>1
  <2>3. Missing \in Nat
    BY <1>1, <2>1, <2>2 DEF Missing
  <2>4. QED
    BY <1>1, <2>1, <2>2, <2>3, InGoodIs
<1>3. PICK m \in Nat, z \in Nat : /\ n = size - l /\ l < size /\ a = p + l /\ n <= z - a
                                /\ z <= m /\ m = Len(input) /\ z = b.in_size
  BY <1>1, <1>2, InGoodIs DEF Missing, TempFills
<1>4. a + n <= m /\ a + n = p + size /\ a <= a + n /\ a + n \in Nat
  BY <1>3
<1>5. a + n <= Len(input) /\ l = Len(w)
  BY <1>2, <1>3, <1>4
<1>6. PICK v \in Seq(Byte) : v = SubSeq(input, a + 1, a + n) /\ Len(v) = n
                             /\ \A i \in 1..n : v[i] = input[a + i]
  <2>1. input \in Seq(Byte) /\ (a + n) - a = n
    BY InGoodIs
  <2>2. /\ SubSeq(input, a + 1, a + n) \in Seq(Byte) /\ Len(SubSeq(input, a + 1, a + n)) = n
        /\ \A i \in 1..n : SubSeq(input, a + 1, a + n)[i] = input[a + i]
    BY <1>4, <1>5, <2>1, PieceIs
  <2>3. QED
    BY <2>2
<1>7. Len(v) = n
  BY <1>6
<1>8. TempFilled = w \o v
  BY <1>2, <1>6 DEF TempFilled
<1>9. PICK u \in Seq(Byte) : /\ u = w \o v /\ Len(u) = l + n
                             /\ \A i \in 1..l : u[i] = w[i]
                             /\ \A i \in 1..n : u[l + i] = v[i]
  <2>1. /\ w \o v \in Seq(Byte) /\ Len(w \o v) = Len(w) + Len(v)
        /\ \A i \in 1..Len(w) : (w \o v)[i] = w[i]
        /\ \A i \in 1..Len(v) : (w \o v)[Len(w) + i] = v[i]
    BY ConcatIs
  <2>2. QED
    BY <1>5, <1>7, <2>1
<1>10. ASSUME NEW i \in 1..size PROVE u[i] = Encode(d)[p + i]
  <2>1. CASE i <= l
    <3>1. i \in 1..l
      BY <2>1
    <3>2. QED
      BY <1>1, <1>2, <1>9, <3>1
  <2>2. CASE ~(i <= l)
    <3>1. PICK j \in 1..n : j = i - l
      BY <1>3, <2>2
    <3>2. l + j = i /\ a + j = p + i /\ a + j \in 1..Len(input)
      <4>1. l + j = i /\ a + j = p + i /\ a + j \in 1..m
        BY <1>3, <1>4, <3>1
      <4>2. QED
        BY <1>3, <4>1
    <3>3. u[i] = input[a + j]
      BY <1>6, <1>9, <3>1, <3>2
    <3>4. input[a + j] = Encode(d)[a + j]
      BY <3>2, InGoodIs
    <3>5. QED
      BY <3>2, <3>3, <3>4
  <2>3. QED
    BY <2>1, <2>2
<1>11. Taken(Missing).in_pos = a + n /\ Taken(Missing).out = b.out
  BY <1>2, InGoodIs DEF Taken, BufType
<1>12. p + size <= Len(Encode(d)) /\ Len(u) = size
  <2>1. Len(Encode(d)) \in Nat
    BY GoodStreamIs, InGoodIs
  <2>2. QED
    <3>1. m <= Len(Encode(d)) /\ Len(u) = l + n
      BY <1>3, <1>9, InGoodIs
    <3>2. QED
      BY <1>3, <1>4, <2>1, <3>1
<1>13. QED
  BY <1>2, <1>4, <1>8, <1>9, <1>10, <1>11, <1>12

\* Part of a header goes to the buffer.
LEMMA FillSomeGood ==
  ASSUME NEW d, InGood(d), FillSome
  PROVE  GoodOutcome(d)
<1> DEFINE x == [s EXCEPT !.temp.buf = @ \o SubSeq(input, b.in_pos + 1, b.in_size)]
           buf == [b EXCEPT !.in_pos = b.in_size]
<1>1. Return(x, buf, "XZ_OK") /\ s.sequence \in InTemp /\ ~TempFills
  BY DEF FillSome, InTemp
<1>2. buf.in_pos = b.in_size /\ buf.out = b.out
  BY InGoodIs DEF BufType
<1>3. /\ s.temp.size \in Nat /\ s.temp.buf \in Seq(Byte) /\ s.temp \in TempType
  BY InGoodIs DEF DecoderType, TempType
<1>4. PICK w \in Seq(Byte), l \in Nat, size \in Nat, a \in Nat, z \in Nat :
        w = s.temp.buf /\ l = Len(w) /\ size = s.temp.size /\ a = b.in_pos /\ z = b.in_size
  BY <1>3, InGoodIs
<1>5. a <= z /\ z <= Len(input) /\ Len(input) \in Nat /\ Len(input) <= Len(Encode(d)) /\ z - a \in Nat
  BY <1>4, InGoodIs
<1>6. PICK v \in Seq(Byte) : v = SubSeq(input, a + 1, z) /\ Len(v) = z - a
                             /\ \A i \in 1..(z - a) : v[i] = input[a + i]
  <2>1. input \in Seq(Byte)
    BY InGoodIs
  <2>2. /\ SubSeq(input, a + 1, z) \in Seq(Byte) /\ Len(SubSeq(input, a + 1, z)) = z - a
        /\ \A i \in 1..(z - a) : SubSeq(input, a + 1, z)[i] = input[a + i]
    BY <1>5, <2>1, PieceIs
  <2>3. QED
    BY <2>2
<1>7. l = Len(w) /\ Len(v) = z - a
  BY <1>4, <1>6
<1>8. PICK u \in Seq(Byte) : /\ u = w \o v /\ Len(u) = l + (z - a)
                             /\ \A i \in 1..l : u[i] = w[i]
                             /\ \A i \in 1..(z - a) : u[l + i] = v[i]
  <2>1. /\ w \o v \in Seq(Byte) /\ Len(w \o v) = Len(w) + Len(v)
        /\ \A i \in 1..Len(w) : (w \o v)[i] = w[i]
        /\ \A i \in 1..Len(v) : (w \o v)[Len(w) + i] = v[i]
    BY ConcatIs
  <2>2. QED
    BY <1>7, <2>1
<1>9. PICK y : y = [s.temp EXCEPT !.buf = u]
  OBVIOUS
<1>10. y \in TempType /\ y.buf = u /\ y.size = size
  BY <1>3, <1>4, <1>9 DEF TempType
<1>11. x = [s EXCEPT !.temp = y]
  BY <1>4, <1>6, <1>8, <1>9
<1> HIDE DEF x, buf
<1>12. /\ x.temp = y /\ x.sequence = s.sequence /\ x.pos = s.pos /\ x.crc = s.crc
       /\ x.block = s.block /\ x.index = s.index /\ x.block_header = s.block_header
       /\ x.check_type = s.check_type
  BY <1>11, InGoodIs DEF DecoderType
<1>13. ASSUME NEW p \in Nat, InBuf(d, s, b, p) PROVE InBuf(d, x, buf, p)
  <2>1. l < size /\ a = p + l /\ \A i \in 1..l : w[i] = Encode(d)[p + i]
    BY <1>4, <1>13 DEF InBuf
  <2>2. ~(size - l <= z - a)
    BY <1>1, <1>4 DEF TempFills, Missing
  <2>3. Len(u) < size /\ z = p + Len(u)
    BY <1>5, <1>8, <2>1, <2>2
  <2>4. ASSUME NEW i \in 1..Len(u) PROVE u[i] = Encode(d)[p + i]
    <3>1. CASE i <= l
      <4>1. i \in 1..l
        BY <3>1
      <4>2. QED
        BY <1>8, <2>1, <4>1
    <3>2. CASE ~(i <= l)
      <4>1. PICK j \in 1..(z - a) : j = i - l
        BY <1>8, <3>2
      <4>2. l + j = i /\ a + j = p + i /\ a + j \in 1..Len(input)
        BY <1>5, <2>1, <4>1
      <4>3. u[i] = input[a + j]
        BY <1>6, <1>8, <4>1, <4>2
      <4>4. input[a + j] = Encode(d)[a + j]
        BY <4>2, InGoodIs
      <4>5. QED
        BY <4>2, <4>3, <4>4
    <3>3. QED
      BY <3>1, <3>2
  <2>5. QED
    BY <1>2, <1>4, <1>10, <1>12, <2>3, <2>4 DEF InBuf
<1>14. Follows(d, x, buf, buf.in_pos, Len(buf.out))
  <2>1. CASE InStreamHeader(d, s, b)
    <3>1. InBuf(d, x, buf, 0)
      BY <1>13, <2>1 DEF InStreamHeader
    <3>2. InStreamHeader(d, x, buf)
      BY <1>2, <1>12, <2>1, <3>1 DEF InStreamHeader, Fresh
    <3>3. QED
      BY <3>2 DEF Follows
  <2>2. ASSUME NEW k \in 0..(Len(d.blocks) - 1), InBlockHeader(d, s, b, k)
        PROVE  Follows(d, x, buf, buf.in_pos, Len(buf.out))
    <3>1. BlockAt(d, k) \in Nat
      <4>1. Len(d.blocks) \in Nat
        BY GoodStreamIs, InGoodIs
      <4>2. QED
        BY <4>1, GoodBlockIs, InGoodIs
    <3>2. InBuf(d, x, buf, BlockAt(d, k))
      BY <1>13, <2>2, <3>1 DEF InBlockHeader
    <3>3. InBlockHeader(d, x, buf, k)
      BY <1>2, <1>4, <1>10, <1>12, <2>2, <3>2 DEF InBlockHeader, Fresh, BlocksDone
    <3>4. QED
      BY <3>3 DEF Follows
  <2>3. CASE InStreamFooter(d, s, b)
    <3>1. FooterAt(d) \in Nat
      BY GoodStreamIs, InGoodIs
    <3>2. InBuf(d, x, buf, FooterAt(d))
      BY <1>13, <2>3, <3>1 DEF InStreamFooter
    <3>3. InStreamFooter(d, x, buf)
      BY <1>2, <1>12, <2>3, <3>2 DEF InStreamFooter
    <3>4. QED
      BY <3>3 DEF Follows
  <2>4. QED
    BY <1>1, <2>1, <2>2, <2>3, InGoodIs
       DEF Follows, InTemp, AtBlockStart, InBlock, InBlockPadding, InBlockCheck, InIndex, InIndexPadding,
           InIndexCrc32
<1>15. QED
  BY <1>1, <1>14 DEF GoodOutcome

-----------------------------------------------------------------------------
(* Headers of a good stream.                                               *)

\* The case of the switch says which it is.
LEMMA WhichIs ==
  ASSUME NEW d, NEW x, NEW buf, NEW p, NEW q, Follows(d, x, buf, p, q)
  PROVE  /\ x.sequence = "SEQ_STREAM_HEADER" => InStreamHeader(d, x, buf)
         /\ x.sequence = "SEQ_BLOCK_START" => \E k \in 0..Len(d.blocks) : AtBlockStart(d, x, buf, k)
         /\ x.sequence = "SEQ_BLOCK_HEADER" =>
              \E k \in 0..(Len(d.blocks) - 1) : InBlockHeader(d, x, buf, k)
         /\ x.sequence = "SEQ_BLOCK_UNCOMPRESS" =>
              \E k \in 0..(Len(d.blocks) - 1), i \in 0..buf.in_pos : InBlock(d, x, buf, p, q, k, i)
         /\ x.sequence = "SEQ_BLOCK_PADDING" =>
              \E k \in 0..(Len(d.blocks) - 1), n \in 0..3 : InBlockPadding(d, x, buf, k, n)
         /\ x.sequence = "SEQ_BLOCK_CHECK" =>
              \E k \in 0..(Len(d.blocks) - 1) : InBlockCheck(d, x, buf, k)
         /\ x.sequence = "SEQ_INDEX" => \E r \in 0..Len(d.blocks) : InIndex(d, x, buf, p, r)
         /\ x.sequence = "SEQ_INDEX_PADDING" => \E n \in 0..3 : InIndexPadding(d, x, buf, p, n)
         /\ x.sequence = "SEQ_INDEX_CRC32" => InIndexCrc32(d, x, buf)
         /\ x.sequence = "SEQ_STREAM_FOOTER" => InStreamFooter(d, x, buf)
<1>1. /\ InStreamHeader(d, x, buf) => x.sequence = "SEQ_STREAM_HEADER"
      /\ \A k : AtBlockStart(d, x, buf, k) => x.sequence = "SEQ_BLOCK_START"
      /\ \A k : InBlockHeader(d, x, buf, k) => x.sequence = "SEQ_BLOCK_HEADER"
      /\ \A k, i : InBlock(d, x, buf, p, q, k, i) => x.sequence = "SEQ_BLOCK_UNCOMPRESS"
      /\ \A k, n : InBlockPadding(d, x, buf, k, n) => x.sequence = "SEQ_BLOCK_PADDING"
      /\ \A k : InBlockCheck(d, x, buf, k) => x.sequence = "SEQ_BLOCK_CHECK"
      /\ \A r : InIndex(d, x, buf, p, r) => x.sequence = "SEQ_INDEX"
      /\ \A n : InIndexPadding(d, x, buf, p, n) => x.sequence = "SEQ_INDEX_PADDING"
      /\ InIndexCrc32(d, x, buf) => x.sequence = "SEQ_INDEX_CRC32"
      /\ InStreamFooter(d, x, buf) => x.sequence = "SEQ_STREAM_FOOTER"
  BY DEF InStreamHeader, AtBlockStart, InBlockHeader, InBlock, InBlockPadding, InBlockCheck, InIndex,
         InIndexPadding, InIndexCrc32, InStreamFooter
<1>2. QED
  BY <1>1 DEF Follows

\* The Stream Header of a good stream is accepted.
LEMMA StreamHeaderGood ==
  ASSUME NEW d, InGood(d), StreamHeader
  PROVE  GoodOutcome(d)
<1>1. s.sequence = "SEQ_STREAM_HEADER" /\ TempFills /\ s.sequence \in InTemp
  BY DEF StreamHeader, At, InTemp
<1>2. InStreamHeader(d, s, b) /\ s.temp.size = STREAM_HEADER_SIZE
  BY <1>1, InGoodIs, WhichIs, InMainIs DEF Going
<1>3. /\ TempFilled \in Seq(Byte) /\ Len(TempFilled) = STREAM_HEADER_SIZE
      /\ \A i \in 1..STREAM_HEADER_SIZE : TempFilled[i] = Encode(d)[0 + i]
      /\ Taken(Missing).in_pos = 0 + STREAM_HEADER_SIZE /\ Taken(Missing).out = b.out
  <2>1. InBuf(d, s, b, 0)
    BY <1>2 DEF InStreamHeader
  <2>2. QED
    BY <1>1, <1>2, <2>1, FilledIs
<1>4. d \in StreamType /\ BackwardSize(d) \in Byte /\ d.magic /\ d.check \in {0, XZ_CHECK_CRC32}
  BY InGoodIs DEF GoodStream
<1>5. PICK F \in Seq(Byte) : F = HeaderFields(d) /\ Len(F) = STREAM_HEADER_SIZE
  BY <1>4, HeaderFieldsAre
<1>6. \A i \in 1..STREAM_HEADER_SIZE : Encode(d)[0 + i] = F[i]
  BY <1>4, <1>5, EncodeIs DEF Lies
<1>7. TempFilled = F
  BY <1>3, <1>5, <1>6, SeqEqual
<1>8. /\ F[1] = HEADER_MAGIC[1] /\ F[2] = HEADER_MAGIC[2] /\ F[3] = d.check
      /\ F[4] = CrcByte(xz_crc32(<<d.check>>, 0), 0) /\ F[5] = CrcByte(xz_crc32(<<d.check>>, 0), 1)
  BY <1>4, <1>5, HeaderFieldsAre
<1>9. SubSeq(F, 1, 2) = HEADER_MAGIC
  <2>1. 0 + 2 <= Len(F) /\ 0 + 1 = 1 /\ 0 + 2 = 2
    BY <1>5 DEF STREAM_HEADER_SIZE
  <2>2. SubSeq(F, 0 + 1, 0 + 2) = <<F[0 + 1], F[0 + 2]>>
    BY <2>1, PairIs
  <2>3. SubSeq(F, 1, 2) = <<F[1], F[2]>>
    BY <2>1, <2>2
  <2>4. F[1] = 15 /\ F[2] = 7
    BY <1>8 DEF HEADER_MAGIC
  <2>5. QED
    BY <2>3, <2>4 DEF HEADER_MAGIC
<1>10. CrcField(xz_crc32(<<F[3]>>, 0)) = SubSeq(F, 4, 5)
  <2>1. 3 + 2 <= Len(F) /\ 3 + 1 = 4 /\ 3 + 2 = 5
    BY <1>5 DEF STREAM_HEADER_SIZE
  <2>2. SubSeq(F, 3 + 1, 3 + 2) = <<F[3 + 1], F[3 + 2]>>
    BY <2>1, PairIs
  <2>3. SubSeq(F, 4, 5) = <<F[4], F[5]>>
    BY <2>1, <2>2
  <2>4. PICK u \in Seq(Byte) : u = <<d.check>>
    <3>1. d.check \in Byte
      BY <1>4 DEF StreamType
    <3>2. <<d.check>> \in Seq(Byte)
      BY <3>1
    <3>3. QED
      BY <3>2
  <2>5. xz_crc32(u, 0) \in Nat
    BY CheckedIs
  <2>6. CrcField(xz_crc32(u, 0)) = <<CrcByte(xz_crc32(u, 0), 0), CrcByte(xz_crc32(u, 0), 1)>>
    BY <2>5, CrcFieldIs
  <2>7. QED
    BY <1>8, <2>3, <2>4, <2>6
<1>11. dec_stream_header(F) = "XZ_OK"
  <2>1. ~(F[3] > XZ_CHECK_CRC32)
    BY <1>4, <1>8 DEF XZ_CHECK_CRC32
  <2>2. QED
    BY <1>9, <1>10, <2>1 DEF dec_stream_header
<1> DEFINE z == [s EXCEPT !.temp.buf = <<>>, !.sequence = "SEQ_BLOCK_START"]
           x == [z EXCEPT !.check_type = F[3]]
<1>12. Continue(x, Taken(Missing))
  BY <1>7, <1>11 DEF StreamHeader
<1>13. PICK y : y = [s.temp EXCEPT !.buf = <<>>]
  OBVIOUS
<1>14. x = [[s EXCEPT !.temp = y, !.sequence = "SEQ_BLOCK_START"] EXCEPT !.check_type = d.check]
  BY <1>8, <1>13
<1> HIDE DEF x, z
<1>15. /\ x.sequence = "SEQ_BLOCK_START" /\ x.check_type = d.check /\ x.pos = s.pos /\ x.crc = s.crc
       /\ x.block = s.block /\ x.index = s.index
  BY <1>14, InGoodIs DEF DecoderType
<1>16. AtBlockStart(d, x, Taken(Missing), 0)
  <2>1. BlockAt(d, 0) = 0 + STREAM_HEADER_SIZE /\ ContentTo(d, 0) = <<>>
    BY GoodStreamIs, InGoodIs DEF STREAM_HEADER_SIZE
  <2>2. HashIs(s.block.hash, d.records, 0, 0) /\ s.block.count = 0
    BY <1>2, HashStarts DEF InStreamHeader
  <2>3. QED
    BY <1>2, <1>3, <1>15, <2>1, <2>2 DEF InStreamHeader, AtBlockStart, BlocksDone, Fresh
<1>17. 0 \in 0..Len(d.blocks)
  BY GoodStreamIs, InGoodIs
<1>18. Follows(d, x, Taken(Missing), x.in_start, x.out_start)
  BY <1>16, <1>17 DEF Follows
<1>19. QED
  BY <1>12, <1>18 DEF GoodOutcome

\* The first byte of the Index.
LEMMA IndexBegins ==
  ASSUME NEW d, GoodStream(d)
  PROVE  /\ EncodeIndex(d)[1] = 0 /\ Encode(d)[IndexAt(d) + 1] = 0
         /\ Lies(Encode(d), IndexAt(d), EncodeIndex(d))
         /\ Lies(Encode(d), IndexAt(d), IndexFields(d))
         /\ IndexFields(d) \in Seq(Byte) /\ Len(IndexFields(d)) \in Nat
         /\ \E n \in 0..3 : /\ Len(EncodeIndex(d)) = Len(IndexFields(d)) + n
                            /\ Lies(Encode(d), IndexAt(d) + Len(IndexFields(d)), Repeated(0, n))
                            /\ (Len(IndexFields(d)) + n) % 4 = 0
                            /\ \A m \in Nat : m < n => (Len(IndexFields(d)) + m) % 4 # 0
         /\ Lies(Encode(d), IndexAt(d) + Len(EncodeIndex(d)), CrcField(xz_crc32(EncodeIndex(d), 0)))
<1>1. /\ d \in StreamType /\ BackwardSize(d) \in Byte /\ IndexAt(d) \in Nat /\ Encode(d) \in Seq(Byte)
      /\ EncodeIndex(d) \in Seq(Byte)
  BY GoodStreamIs
<1>2. PICK E \in Seq(Byte), I \in Seq(Byte), F \in Seq(Byte), p \in Nat :
        E = Encode(d) /\ I = EncodeIndex(d) /\ F = IndexFields(d) /\ p = IndexAt(d)
  BY <1>1, IndexFieldsAre
<1>3. PICK C \in Seq(Byte) : C = CrcField(xz_crc32(I, 0)) /\ Checked(I) = I \o C
  BY CheckedIs
<1>4. Lies(E, p, I \o C)
  BY <1>1, <1>2, <1>3, EncodeIs
<1>5. Lies(E, p, I) /\ Lies(E, p + Len(I), C)
  BY <1>4, LiesSplit
<1>6. I = Pad(F, 0) /\ F[1] = 0 /\ Len(F) >= 1 /\ Len(F) \in Nat
  <2>1. /\ I = Pad(F, 0) /\ F[1] = 0
        /\ Len(F) = 1 + Len(EncodeVli(d.count)) + Len(FlattenSeq(RecordFields(d)))
        /\ EncodeVli(d.count) \in Seq(Byte) /\ FlattenSeq(RecordFields(d)) \in Seq(Byte)
    BY <1>1, <1>2, IndexFieldsAre
  <2>2. Len(EncodeVli(d.count)) \in Nat /\ Len(FlattenSeq(RecordFields(d))) \in Nat
    BY <2>1
  <2>3. QED
    BY <2>1, <2>2
<1>7. PICK n \in 0..3 : /\ Len(I) = Len(F) + n /\ (Len(F) + n) % 4 = 0
                        /\ \A m \in Nat : m < n => (Len(F) + m) % 4 # 0
                        /\ Lies(I, 0, F) /\ Lies(I, Len(F), Repeated(0, n))
  <2>1. 0 \in Byte
    BY DEF Byte
  <2>2. PICK n \in 0..3 : /\ Pad(F, 0) = F \o Repeated(0, n)
                          /\ Pad(F, 0) \in Seq(Byte) /\ Len(Pad(F, 0)) = Len(F) + n
                          /\ Len(Pad(F, 0)) % 4 = 0
                          /\ \A m \in Nat : m < n => (Len(F) + m) % 4 # 0
                          /\ Lies(Pad(F, 0), 0, F) /\ Lies(Pad(F, 0), Len(F), Repeated(0, n))
    BY <2>1, PadIs
  <2>3. QED
    <3>1. (Len(F) + n) % 4 = 0
      BY <2>2
    <3>2. I = Pad(F, 0)
      BY <1>6
    <3>3. QED
      BY <2>2, <3>1, <3>2
<1>8. Repeated(0, n) \in Seq(Byte)
  <2>1. 0 \in Byte /\ n \in Nat
    BY DEF Byte
  <2>2. QED
    BY <2>1, RepeatedIs
<1>9. Lies(E, p + 0, F) /\ Lies(E, p + Len(F), Repeated(0, n))
  BY <1>5, <1>6, <1>7, <1>8, LiesWithin
<1>10. p + 0 = p
  OBVIOUS
<1>11. 1 \in 1..Len(F)
  BY <1>6
<1>12. I[0 + 1] = F[1] /\ E[p + 1] = F[1]
  BY <1>7, <1>9, <1>10, <1>11 DEF Lies
<1>13. EncodeIndex(d)[1] = 0 /\ Encode(d)[IndexAt(d) + 1] = 0
  BY <1>2, <1>6, <1>12
<1>14. QED
  BY <1>2, <1>3, <1>5, <1>6, <1>7, <1>9, <1>10, <1>13

\* A Block or the Index begins where one does.
LEMMA BlockStartGood ==
  ASSUME NEW d, InGood(d), BlockStart
  PROVE  GoodOutcome(d)
<1>1. s.sequence = "SEQ_BLOCK_START" /\ More
  BY DEF BlockStart, At
<1>2. PICK k \in 0..Len(d.blocks) : AtBlockStart(d, s, b, k)
  BY <1>1, InGoodIs, WhichIs
<1>3. /\ Next1 = Encode(d)[BlockAt(d, k) + 1] /\ Next1 \in Byte
      /\ Taken(1).in_pos = BlockAt(d, k) + 1 /\ Taken(1).out = b.out
  BY <1>1, <1>2, NextIs DEF AtBlockStart
<1>4. GoodStream(d) /\ Len(d.blocks) \in Nat
  BY GoodStreamIs, InGoodIs
<1>5. /\ s.check_type = d.check /\ s.block.count = k /\ HashIs(s.block.hash, d.records, k, 0)
      /\ s.index.hash = NoHash /\ s.index.size = 0 /\ s.pos = 0 /\ s.crc = 0
      /\ b.in_pos = BlockAt(d, k) /\ b.out = ContentTo(d, k)
  BY <1>2 DEF AtBlockStart, BlocksDone, Fresh
<1>6. CASE k = Len(d.blocks)
  <2>1. Next1 = 0
    BY <1>3, <1>4, <1>6, IndexBegins, GoodStreamIs
  <2> DEFINE x == [s EXCEPT !.in_start = b.in_pos, !.sequence = "SEQ_INDEX"]
  <2>2. Continue(x, Taken(1))
    BY <2>1 DEF BlockStart
  <2>3. /\ x.sequence = "SEQ_INDEX" /\ x.in_start = b.in_pos /\ x.check_type = s.check_type /\ x.block = s.block
        /\ x.index = s.index /\ x.pos = s.pos /\ x.crc = s.crc
    BY InGoodIs DEF DecoderType
  <2> HIDE DEF x
  <2>4. s.index.sequence = "SEQ_INDEX_COUNT"
    BY <1>1, InGoodIs, InMainIs DEF Going, AfterBlocks
  <2>5. PICK p \in Nat : p = IndexAt(d) /\ b.in_pos = p /\ Taken(1).in_pos = p + 1
    BY <1>3, <1>4, <1>5, <1>6, GoodStreamIs
  <2>6. AtIndex(d, x, Taken(1), x.in_start)
    <3>1. b.out = Content(d)
      BY <1>4, <1>5, <1>6, GoodStreamIs
    <3>2. SubSeq(Encode(d), p + 1, p) = <<>>
      BY <1>4, GoodStreamIs
    <3>3. xz_crc32(<<>>, 0) = 0
      <4>1. 0 \in 0..(CHECK_VALUES - 1) /\ <<>> \in Seq(Nat)
        BY DEF CHECK_VALUES
      <4>2. QED
        BY <4>1, CrcIs
    <3>4. p \in p..(p + 1) /\ p - p = 0
      OBVIOUS
    <3>5. QED
      BY <1>3, <1>5, <1>6, <2>3, <2>5, <3>1, <3>2, <3>3, <3>4 DEF AtIndex, BlocksDone
  <2>7. Len(EncodeVli(d.count)) \in 1..2
    <3>1. d.count \in Vli
      BY <1>4, GoodStreamIs, IndexFieldsAre
    <3>2. QED
      BY <3>1, EncodeVliIs
  <2>8. HashIs(s.index.hash, d.records, 0, 0)
    BY <1>5, HashStarts
  <2>9. 0 < Len(EncodeVli(d.count)) /\ (p + 1) + 0 = p + 1
    <3>1. PICK l \in 1..2 : l = Len(EncodeVli(d.count))
      BY <2>7
    <3>2. 0 < l /\ (p + 1) + 0 = p + 1
      OBVIOUS
    <3>3. QED
      BY <3>1, <3>2
  <2>10. InIndex(d, x, Taken(1), x.in_start, 0)
    BY <1>5, <2>3, <2>4, <2>5, <2>6, <2>8, <2>9 DEF InIndex, FieldIs, FieldAt
  <2>11. 0 \in 0..Len(d.blocks)
    BY <1>4
  <2>12. Follows(d, x, Taken(1), x.in_start, x.out_start)
    BY <2>10, <2>11 DEF Follows
  <2>13. QED
    BY <2>2, <2>12 DEF GoodOutcome
<1>7. CASE k # Len(d.blocks)
  <2>1. k \in 0..(Len(d.blocks) - 1)
    BY <1>4, <1>7
  <2>2. PICK n \in 1..3 : Len(BlockHeader(d.blocks[k + 1])) = (n + 1) * 4 /\ BlockHeader(d.blocks[k + 1])[1] = n
    BY <1>4, <2>1, GoodBlockIs
  <2>3. Lies(Encode(d), BlockAt(d, k), BlockHeader(d.blocks[k + 1])) /\ BlockAt(d, k) \in Nat
    BY <1>4, <2>1, GoodBlockIs
  <2>4. 1 \in 1..Len(BlockHeader(d.blocks[k + 1]))
    BY <2>2
  <2>5. Next1 = n
    BY <1>3, <2>2, <2>3, <2>4 DEF Lies
  <2> DEFINE size == (Next1 + 1) * 4
             x == [s EXCEPT !.block_header.size = size,
                            !.temp = [size |-> size, buf |-> <<>>],
                            !.sequence = "SEQ_BLOCK_HEADER"]
  <2>6. Next1 # 0
    BY <2>5
  <2>7. Continue(x, b)
    BY <2>6 DEF BlockStart
  <2>8. size = Len(BlockHeader(d.blocks[k + 1])) /\ 0 < size
    BY <2>2, <2>5
  <2>9. PICK y : y = [s.block_header EXCEPT !.size = size]
    OBVIOUS
  <2>10. y.size = size
    BY <2>9, InGoodIs DEF DecoderType, HeaderType
  <2>11. PICK l : l = [size |-> size, buf |-> <<>>]
    OBVIOUS
  <2>12. x = [s EXCEPT !.block_header = y, !.temp = l, !.sequence = "SEQ_BLOCK_HEADER"]
    BY <2>9, <2>11
  <2> HIDE DEF x, size
  <2>13. /\ x.sequence = "SEQ_BLOCK_HEADER" /\ x.block_header = y /\ x.temp = l
         /\ x.check_type = s.check_type /\ x.block = s.block /\ x.index = s.index /\ x.pos = s.pos /\ x.crc = s.crc
    BY <2>12, InGoodIs DEF DecoderType
  <2>14. l.size = size /\ l.buf = <<>> /\ Len(l.buf) = 0
    BY <2>11
  <2>15. InBuf(d, x, b, BlockAt(d, k))
    BY <1>5, <2>3, <2>8, <2>13, <2>14 DEF InBuf
  <2>16. InBlockHeader(d, x, b, k)
    BY <1>5, <2>8, <2>10, <2>13, <2>14, <2>15 DEF InBlockHeader, BlocksDone, Fresh
  <2>17. Follows(d, x, b, x.in_start, x.out_start)
    BY <2>1, <2>16 DEF Follows
  <2>18. QED
    BY <2>7, <2>17 DEF GoodOutcome
<1>8. QED
  BY <1>6, <1>7

\* A Block Header is whole.
HeaderHere(d, k, blk, size, bytes) ==
  /\ blk = d.blocks[k + 1] /\ InBlockHeader(d, s, b, k)
  /\ size = s.temp.size - CHECK_BYTES /\ size \in Nat
  /\ bytes = SubSeq(TempFilled, 1, size) /\ bytes = HeaderBody(blk)
  /\ CrcField(xz_crc32(bytes, 0)) = SubSeq(TempFilled, size + 1, s.temp.size)
  /\ ParseBlockHeader(bytes).result = "XZ_OK" /\ ParseBlockHeader(bytes).padded
  /\ ParseBlockHeader(bytes).compressed = blk.compressed
  /\ ParseBlockHeader(bytes).uncompressed = blk.uncompressed
  /\ Taken(Missing).in_pos = DataAt(d, k) /\ Taken(Missing).out = b.out
  /\ b.in_pos + Missing = DataAt(d, k)

\* The Block Header in the buffer is the packer's.
LEMMA HeaderIsHere ==
  ASSUME NEW d, InGood(d), At("SEQ_BLOCK_HEADER"), TempFills
  PROVE  \E k \in 0..(Len(d.blocks) - 1) : \E blk, size, bytes : HeaderHere(d, k, blk, size, bytes)
<1>1. s.sequence = "SEQ_BLOCK_HEADER" /\ s.sequence \in InTemp
  BY DEF At, InTemp
<1>2. PICK k \in 0..(Len(d.blocks) - 1) : InBlockHeader(d, s, b, k)
  BY <1>1, InGoodIs, WhichIs
<1>3. PICK blk : blk = d.blocks[k + 1]
  OBVIOUS
<1>4. /\ blk \in BlockType /\ GoodBlock(blk) /\ BlockHeader(blk) \in Seq(Byte) /\ BlockAt(d, k) \in Nat
      /\ DataAt(d, k) = BlockAt(d, k) + Len(BlockHeader(blk))
      /\ Lies(Encode(d), BlockAt(d, k), BlockHeader(blk))
  <2>1. GoodStream(d)
    BY DEF InGood
  <2>2. QED
    BY <1>3, <2>1, GoodBlockIs, SMTT(30)
<1>5. s.temp.size = Len(BlockHeader(blk)) /\ InBuf(d, s, b, BlockAt(d, k))
  BY <1>2, <1>3 DEF InBlockHeader
<1>6. /\ TempFilled \in Seq(Byte) /\ Len(TempFilled) = s.temp.size
      /\ \A i \in 1..s.temp.size : TempFilled[i] = Encode(d)[BlockAt(d, k) + i]
      /\ Taken(Missing).in_pos = BlockAt(d, k) + s.temp.size /\ Taken(Missing).out = b.out
  BY <1>1, <1>4, <1>5, FilledIs
<1>7. TempFilled = BlockHeader(blk)
  <2>1. \A i \in 1..Len(BlockHeader(blk)) : TempFilled[i] = BlockHeader(blk)[i]
    BY <1>4, <1>5, <1>6 DEF Lies
  <2>2. QED
    BY <1>4, <1>5, <1>6, <2>1, SeqEqual
<1>8. PICK B \in Seq(Byte), n \in 1..3 :
        /\ B = HeaderBody(blk) /\ BlockHeader(blk) = B \o CrcField(xz_crc32(B, 0))
        /\ Len(BlockHeader(blk)) = (n + 1) * 4 /\ Len(B) = (n + 1) * 4 - CHECK_BYTES
  BY <1>4, BlockHeaderIs
<1>9. PICK C \in Seq(Byte) : C = CrcField(xz_crc32(B, 0)) /\ Len(C) = CHECK_BYTES
  BY CheckedIs
<1>10. PICK u \in Seq(Byte) : u = TempFilled /\ u = B \o C
  BY <1>6, <1>7, <1>8, <1>9
<1>11. PICK size \in Nat : size = Len(B)
  OBVIOUS
<1>12. /\ Len(u) = size + 2 /\ Len(C) = 2 /\ \A i \in 1..size : u[i] = B[i]
       /\ \A i \in 1..2 : u[size + i] = C[i]
  <2>1. /\ Len(B \o C) = Len(B) + Len(C) /\ \A i \in 1..Len(B) : (B \o C)[i] = B[i]
        /\ \A i \in 1..Len(C) : (B \o C)[Len(B) + i] = C[i]
    BY ConcatIs
  <2>2. Len(C) = 2
    BY <1>9 DEF CHECK_BYTES
  <2>3. QED
    BY <1>10, <1>11, <2>1, <2>2
<1>13. SubSeq(u, 1, size) = B
  <2>1. 0 <= size /\ size <= Len(u) /\ 0 + 1 = 1 /\ size - 0 = size /\ 0 \in Nat
    BY <1>12
  <2>2. /\ SubSeq(u, 0 + 1, size) \in Seq(Byte) /\ Len(SubSeq(u, 0 + 1, size)) = size - 0
        /\ \A i \in 1..(size - 0) : SubSeq(u, 0 + 1, size)[i] = u[0 + i]
    BY <2>1, PieceIs
  <2>3. PICK w \in Seq(Byte) : w = SubSeq(u, 1, size) /\ Len(w) = size /\ \A i \in 1..size : w[i] = u[i]
    <3>1. \A i \in 1..size : 0 + i = i
      OBVIOUS
    <3>2. SubSeq(u, 1, size) \in Seq(Byte) /\ Len(SubSeq(u, 1, size)) = size
      BY <2>1, <2>2
    <3>3. \A i \in 1..size : SubSeq(u, 1, size)[i] = u[i]
      BY <2>1, <2>2, <3>1
    <3>4. QED
      BY <3>2, <3>3
  <2>4. \A i \in 1..Len(B) : w[i] = B[i]
    BY <1>11, <1>12, <2>3
  <2>5. w = B
    BY <1>11, <2>3, <2>4, SeqEqual
  <2>6. QED
    BY <2>3, <2>5
<1>14. SubSeq(u, size + 1, size + 2) = C
  <2>1. size <= size + 2 /\ size + 2 <= Len(u) /\ (size + 2) - size = 2 /\ size + 2 \in Nat
    BY <1>12
  <2>2. /\ SubSeq(u, size + 1, size + 2) \in Seq(Byte) /\ Len(SubSeq(u, size + 1, size + 2)) = 2
        /\ \A i \in 1..2 : SubSeq(u, size + 1, size + 2)[i] = u[size + i]
    BY <2>1, PieceIs
  <2>3. PICK w \in Seq(Byte) : w = SubSeq(u, size + 1, size + 2) /\ Len(w) = 2 /\ \A i \in 1..2 : w[i] = C[i]
    BY <1>12, <2>2
  <2>4. w = C
    BY <1>12, <2>3, SeqEqual
  <2>5. QED
    BY <2>3, <2>4
<1>15. s.temp.size = size + 2 /\ s.temp.size - CHECK_BYTES = size
  <2>1. s.temp.size = size + 2
    BY <1>6, <1>10, <1>12
  <2>2. QED
    BY <2>1 DEF CHECK_BYTES
<1>16. /\ ParseBlockHeader(B).result = "XZ_OK" /\ ParseBlockHeader(B).padded
       /\ ParseBlockHeader(B).compressed = blk.compressed
       /\ ParseBlockHeader(B).uncompressed = blk.uncompressed
  BY <1>4, <1>8, HeaderIsRead DEF GoodBlock
<1>17. b.in_pos + Missing = DataAt(d, k) /\ Taken(Missing).in_pos = DataAt(d, k)
  <2>1. Taken(Missing).in_pos = b.in_pos + Missing
    BY InGoodIs, SMTT(30) DEF Taken, BufType
  <2>2. QED
    BY <1>4, <1>5, <1>6, <2>1
<1>18. HeaderHere(d, k, blk, size, B)
  BY <1>2, <1>3, <1>6, <1>8, <1>9, <1>10, <1>13, <1>14, <1>15, <1>16, <1>17 DEF HeaderHere
<1>19. QED
  BY <1>18

\* Lack of memory is the one thing that may stop a good stream.
LEMMA NoMemoryGood ==
  ASSUME NEW d, InGood(d), NoMemory
  PROVE  GoodOutcome(d)
<1>1. At("SEQ_BLOCK_HEADER") /\ TempFills
  BY DEF NoMemory
<1>2. Taken(Missing).out = b.out
  BY <1>1, HeaderIsHere DEF HeaderHere
<1>3. \E x : Return(x, Taken(Missing), "XZ_MEM_ERROR")
  BY DEF NoMemory
<1>4. QED
  BY <1>2, <1>3 DEF GoodOutcome

\* The Block Header of a good stream is accepted.
LEMMA DecBlockHeaderGood ==
  ASSUME NEW d, InGood(d), DecBlockHeader
  PROVE  GoodOutcome(d)
<1>1. At("SEQ_BLOCK_HEADER") /\ TempFills
  BY DEF DecBlockHeader
<1>2. PICK k \in 0..(Len(d.blocks) - 1) : \E blk, size, bytes : HeaderHere(d, k, blk, size, bytes)
  BY <1>1, HeaderIsHere
<1>3. PICK blk, size, bytes : HeaderHere(d, k, blk, size, bytes)
  BY <1>2
<1>4. /\ blk = d.blocks[k + 1] /\ InBlockHeader(d, s, b, k)
      /\ size = s.temp.size - CHECK_BYTES /\ size \in Nat /\ bytes = SubSeq(TempFilled, 1, size)
      /\ CrcField(xz_crc32(bytes, 0)) = SubSeq(TempFilled, size + 1, s.temp.size)
      /\ ParseBlockHeader(bytes).result = "XZ_OK" /\ ParseBlockHeader(bytes).padded
      /\ ParseBlockHeader(bytes).compressed = blk.compressed
      /\ ParseBlockHeader(bytes).uncompressed = blk.uncompressed
      /\ Taken(Missing).in_pos = DataAt(d, k) /\ Taken(Missing).out = b.out
      /\ b.in_pos + Missing = DataAt(d, k)
  BY <1>3 DEF HeaderHere
<1> DEFINE header == ParseBlockHeader(bytes)
           xz == [s EXCEPT !.temp = [size |-> size, buf |-> <<>>]]
           x == [xz EXCEPT
                  !.block_header = [size |-> @.size, compressed |-> header.compressed,
                                    uncompressed |-> header.uncompressed],
                  !.block.compressed = 0, !.block.uncompressed = 0,
                  !.bcj_active = header.bcj,
                  !.filter = NewFilter,
                  !.in_start = b.in_pos + Missing, !.out_start = Len(b.out),
                  !.sequence = "SEQ_BLOCK_UNCOMPRESS"]
<1>5. Continue(x, Taken(Missing))
  BY <1>4, Zenon DEF DecBlockHeader
<1>6. PICK l, h, c, bcj, i, o :
        /\ l = [size |-> size, buf |-> <<>>]
        /\ h = [size |-> s.block_header.size, compressed |-> header.compressed,
                uncompressed |-> header.uncompressed]
        /\ c = [s.block EXCEPT !.compressed = 0, !.uncompressed = 0]
        /\ bcj = header.bcj /\ i = b.in_pos + Missing /\ o = Len(b.out)
  OBVIOUS
<1>7. xz = [s EXCEPT !.temp = l]
  BY <1>6
<1>8. /\ xz.block_header = s.block_header /\ xz.block = s.block
      /\ xz.check_type = s.check_type /\ xz.pos = s.pos /\ xz.crc = s.crc /\ xz.index = s.index
  BY <1>7, InGoodIs DEF DecoderType
<1>9. x = [xz EXCEPT !.block_header = h, !.block = c, !.bcj_active = bcj, !.filter = NewFilter,
                     !.in_start = i, !.out_start = o, !.sequence = "SEQ_BLOCK_UNCOMPRESS"]
  BY <1>6, <1>8
<1> HIDE DEF x, xz, header
<1>10. /\ x.block_header = h /\ x.block = c /\ x.filter = NewFilter /\ x.in_start = i /\ x.out_start = o
       /\ x.sequence = "SEQ_BLOCK_UNCOMPRESS" /\ x.check_type = s.check_type /\ x.pos = s.pos /\ x.crc = s.crc
       /\ x.index = s.index
  <2>1. x = [s EXCEPT !.temp = l, !.block_header = h, !.block = c, !.bcj_active = bcj, !.filter = NewFilter,
                     !.in_start = i, !.out_start = o, !.sequence = "SEQ_BLOCK_UNCOMPRESS"]
    BY <1>7, <1>9
  <2>2. QED
    BY <2>1, InGoodIs DEF DecoderType
<1>11. /\ c.compressed = 0 /\ c.uncompressed = 0 /\ c.count = s.block.count /\ c.hash = s.block.hash
  BY <1>6, InGoodIs DEF DecoderType, CountsType
<1>12. /\ s.pos = 0 /\ s.crc = 0 /\ s.block_header.size = Len(BlockHeader(blk))
       /\ b.out = ContentTo(d, k) /\ BlocksDone(d, s, k) /\ Fresh(s)
  BY <1>4 DEF InBlockHeader
<1>13. PICK data \in Seq(Byte), n \in Nat, p \in Nat :
         /\ data = blk.data /\ n = Len(data) /\ n # 0 /\ p = DataAt(d, k)
         /\ Len(Chunks(data)) = n - 1 /\ Chunks(data) \in Seq(Seq(Byte))
  <2>1. blk.data \in Lzma2Data /\ DataAt(d, k) \in Nat
    BY <1>4, InGoodIs, GoodBlockIs
  <2>2. QED
    BY <2>1, ContentsAre
<1>14. PICK C \in Seq(Byte), m \in Nat : C = ContentTo(d, k) /\ m = Len(C)
  <2>1. ContentTo(d, k) \in Seq(Byte)
    BY <1>4, InGoodIs, GoodBlockIs
  <2>2. PICK C \in Seq(Byte) : C = ContentTo(d, k)
    BY <2>1
  <2>3. Len(C) \in Nat
    OBVIOUS
  <2>4. QED
    BY <2>2, <2>3
<1>15. Decodes(d, x, Taken(Missing), k, 0)
  <2>1. NewFilter.left = 0 /\ NewFilter.ready = <<>> /\ NewFilter.ended = FALSE
    BY DEF NewFilter
  <2>2. 0 \in 0..n /\ p + 0 = p /\ (0 = n) = FALSE /\ Least(0, n - 1) = 0 /\ ~(0 > 0)
    BY <1>13 DEF Least
  <2>3. Repeated(NewFilter.byte, 0) = <<>>
    <3>1. 1..0 = {}
      OBVIOUS
    <3>2. QED
      BY <3>1 DEF Repeated
  <2>4. Flat(Chunks(data), 0) = <<>>
    BY <1>13, FlatIs
  <2>5. (C \o <<>>) \o <<>> = C \o <<>>
    OBVIOUS
  <2>6. (b.out \o NewFilter.ready) \o Repeated(NewFilter.byte, NewFilter.left)
          = ContentTo(d, k) \o Flat(Chunks(data), Least(0, n - 1))
    BY <1>12, <1>14, <2>1, <2>2, <2>3, <2>4, <2>5
  <2>7. QED
    BY <1>4, <1>10, <1>13, <2>1, <2>2, <2>6 DEF Decodes
<1>16. Counts(d, x, Taken(Missing), k, i, o)
  <2>1. i = p /\ o = m /\ p \in p..p /\ m \in m..m /\ p - p = 0 /\ m - m = 0
    BY <1>4, <1>6, <1>12, <1>13, <1>14
  <2>2. SubSeq(C, m + 1, m) = <<>>
    BY <1>14
  <2>3. xz_crc32(<<>>, 0) = 0
    <3>1. 0 \in 0..(CHECK_VALUES - 1) /\ <<>> \in Seq(Nat)
      BY DEF CHECK_VALUES
    <3>2. QED
      BY <3>1, CrcIs
  <2>4. (IF d.check = XZ_CHECK_CRC32
           THEN xz_crc32(SubSeq(b.out, Len(ContentTo(d, k)) + 1, o), 0) ELSE 0) = 0
    BY <1>12, <1>14, <2>1, <2>2, <2>3
  <2>5. Taken(Missing).in_pos = p /\ Len(Taken(Missing).out) = m /\ x.crc = 0
    BY <1>4, <1>10, <1>12, <1>13, <1>14
  <2>6. QED
    BY <1>4, <1>10, <1>11, <1>13, <1>14, <2>1, <2>4, <2>5 DEF Counts
<1>17. InBlock(d, x, Taken(Missing), x.in_start, x.out_start, k, 0)
  <2>1. h = [compressed |-> blk.compressed, uncompressed |-> blk.uncompressed,
             size |-> Len(BlockHeader(blk))]
    BY <1>4, <1>6, <1>12 DEF header
  <2>2. BlocksDone(d, x, k) /\ Fresh(x)
    BY <1>10, <1>11, <1>12 DEF BlocksDone, Fresh
  <2>3. QED
    BY <1>4, <1>10, <1>12, <1>15, <1>16, <2>1, <2>2 DEF InBlock
<1>18. 0 \in 0..Taken(Missing).in_pos
  BY <1>4, <1>13
<1>19. Follows(d, x, Taken(Missing), x.in_start, x.out_start)
  BY <1>17, <1>18 DEF Follows
<1>20. QED
  BY <1>5, <1>19 DEF GoodOutcome

-----------------------------------------------------------------------------
(* The data of a good Block.                                               *)

\* The same of sequences that have names.
LEMMA JoinedIs ==
  ASSUME NEW T, NEW u \in Seq(T), NEW v \in Seq(T), NEW w, w = u \o v, NEW l, l = Len(u), NEW m, m = Len(v)
  PROVE  /\ w \in Seq(T) /\ Len(w) = l + m
         /\ \A i \in 1..l : w[i] = u[i]
         /\ \A i \in 1..m : w[l + i] = v[i]
BY ConcatIs

\* AppendIs, with a name for the result.
LEMMA AppendedIs ==
  ASSUME NEW T, NEW u \in Seq(T), NEW e \in T, NEW w, w = Append(u, e), NEW l, l = Len(u)
  PROVE  /\ w \in Seq(T) /\ Len(w) = l + 1 /\ w[l + 1] = e
         /\ \A i \in 1..l : w[i] = u[i]
BY AppendIs

\* PieceIs, with a name for the result.
LEMMA PiecedIs ==
  ASSUME NEW T, NEW u \in Seq(T), NEW m \in Nat, NEW n \in Nat, m <= n, n <= Len(u),
         NEW w, w = SubSeq(u, m + 1, n)
  PROVE  /\ w \in Seq(T) /\ Len(w) = n - m
         /\ \A i \in 1..(n - m) : w[i] = u[m + i]
BY PieceIs

\* One more of the same.
Decoded(u, r, e, n) == (u \o r) \o Repeated(e, n)

\* A byte decoded is one that was to come.
LEMMA OneIsDecoded ==
  ASSUME NEW T, NEW u \in Seq(T), NEW r \in Seq(T), NEW e \in T, NEW n \in Nat, n > 0
  PROVE  Decoded(u, Append(r, e), e, n - 1) = Decoded(u, r, e, n)
<1>1. PICK l, m : l = Len(u) /\ m = Len(r)
  OBVIOUS
<1>2. l \in Nat /\ m \in Nat /\ n - 1 \in Nat
  BY <1>1
<1>3. PICK z, v, w, a, c, f, g :
        /\ z = Append(r, e) /\ v = u \o z /\ w = u \o r /\ a = Repeated(e, n - 1) /\ c = Repeated(e, n)
        /\ f = v \o a /\ g = w \o c
  OBVIOUS
<1>4. z \in Seq(T) /\ Len(z) = m + 1 /\ z[m + 1] = e /\ \A i \in 1..m : z[i] = r[i]
  BY <1>1, <1>3, AppendedIs
<1>5. /\ v \in Seq(T) /\ Len(v) = l + (m + 1) /\ \A i \in 1..l : v[i] = u[i]
      /\ \A i \in 1..(m + 1) : v[l + i] = z[i]
  <2>1. PICK k : k = m + 1
    OBVIOUS
  <2>2. v = u \o z /\ l = Len(u) /\ k = Len(z) /\ z \in Seq(T)
    BY <1>1, <1>3, <1>4, <2>1
  <2>3. /\ v \in Seq(T) /\ Len(v) = l + k /\ \A i \in 1..l : v[i] = u[i]
        /\ \A i \in 1..k : v[l + i] = z[i]
    BY <2>2, JoinedIs
  <2>4. QED
    BY <2>1, <2>3
<1>6. /\ w \in Seq(T) /\ Len(w) = l + m /\ \A i \in 1..l : w[i] = u[i]
      /\ \A i \in 1..m : w[l + i] = r[i]
  BY <1>1, <1>3, JoinedIs
<1>7. /\ a \in Seq(T) /\ Len(a) = n - 1 /\ \A i \in 1..(n - 1) : a[i] = e
      /\ c \in Seq(T) /\ Len(c) = n /\ \A i \in 1..n : c[i] = e
  BY <1>2, <1>3, RepeatedIs
<1>8. /\ f \in Seq(T) /\ Len(f) = (l + (m + 1)) + (n - 1)
      /\ \A i \in 1..(l + (m + 1)) : f[i] = v[i]
      /\ \A i \in 1..(n - 1) : f[(l + (m + 1)) + i] = a[i]
  <2>1. PICK k, h : k = l + (m + 1) /\ h = n - 1
    OBVIOUS
  <2>2. f = v \o a /\ k = Len(v) /\ h = Len(a) /\ v \in Seq(T) /\ a \in Seq(T)
    BY <1>3, <1>5, <1>7, <2>1
  <2>3. /\ f \in Seq(T) /\ Len(f) = k + h /\ \A i \in 1..k : f[i] = v[i]
        /\ \A i \in 1..h : f[k + i] = a[i]
    BY <2>2, JoinedIs
  <2>4. QED
    BY <2>1, <2>3
<1>9. /\ g \in Seq(T) /\ Len(g) = (l + m) + n
      /\ \A i \in 1..(l + m) : g[i] = w[i]
      /\ \A i \in 1..n : g[(l + m) + i] = c[i]
  <2>1. PICK k : k = l + m
    OBVIOUS
  <2>2. g = w \o c /\ k = Len(w) /\ n = Len(c) /\ w \in Seq(T) /\ c \in Seq(T)
    BY <1>3, <1>6, <1>7, <2>1
  <2>3. /\ g \in Seq(T) /\ Len(g) = k + n /\ \A i \in 1..k : g[i] = w[i]
        /\ \A i \in 1..n : g[k + i] = c[i]
    BY <2>2, JoinedIs
  <2>4. QED
    BY <2>1, <2>3
<1>10. Len(f) = Len(g) /\ Len(f) = l + m + n
  BY <1>2, <1>8, <1>9
<1>11. ASSUME NEW i \in 1..(l + m + n) PROVE f[i] = g[i]
  <2>1. CASE i <= l
    <3>1. i \in 1..l /\ i \in 1..(l + (m + 1)) /\ i \in 1..(l + m)
      BY <1>2, <2>1
    <3>2. QED
      BY <1>5, <1>6, <1>8, <1>9, <3>1
  <2>2. CASE l < i /\ i <= l + m
    <3>1. PICK j : j = i - l
      OBVIOUS
    <3>2. j \in 1..m /\ l + j = i /\ j \in 1..(m + 1) /\ i \in 1..(l + (m + 1)) /\ i \in 1..(l + m)
      BY <1>2, <2>2, <3>1
    <3>3. f[i] = v[i] /\ v[l + j] = z[j] /\ z[j] = r[j]
      BY <1>4, <1>5, <1>8, <3>2
    <3>4. g[i] = w[i] /\ w[l + j] = r[j]
      BY <1>6, <1>9, <3>2
    <3>5. QED
      BY <3>2, <3>3, <3>4
  <2>3. CASE l + m < i
    <3>1. PICK j : j = i - (l + m)
      OBVIOUS
    <3>2. j \in 1..n /\ (l + m) + j = i
      BY <1>2, <2>3, <3>1
    <3>3. g[i] = e
      BY <1>7, <1>9, <3>2
    <3>4. CASE j = 1
      <4>1. i = l + (m + 1) /\ i \in 1..(l + (m + 1)) /\ m + 1 \in 1..(m + 1)
        BY <1>2, <3>2, <3>4
      <4>2. f[i] = v[l + (m + 1)] /\ v[l + (m + 1)] = z[m + 1]
        BY <1>5, <1>8, <4>1
      <4>3. QED
        BY <1>4, <3>3, <4>2
    <3>5. CASE j # 1
      <4>1. PICK h : h = j - 1
        OBVIOUS
      <4>2. h \in 1..(n - 1) /\ (l + (m + 1)) + h = i
        BY <1>2, <3>2, <3>5, <4>1
      <4>3. f[i] = a[h] /\ a[h] = e
        BY <1>7, <1>8, <4>2
      <4>4. QED
        BY <3>3, <4>3
    <3>6. QED
      BY <3>4, <3>5
  <2>4. QED
    BY <1>2, <2>1, <2>2, <2>3
<1>12. f = g
  BY <1>8, <1>9, <1>10, <1>11, SeqEqual
<1>13. QED
  BY <1>3, <1>12 DEF Decoded

\* One is written.
LEMMA OneIsWritten ==
  ASSUME NEW T, NEW u \in Seq(T), NEW r \in Seq(T), Len(r) > 0
  PROVE  Append(u, Head(r)) \o Tail(r) = u \o r
<1>1. PICK l, m, z, e, v, f, g :
        /\ l = Len(u) /\ m = Len(r) /\ z = Tail(r) /\ e = Head(r) /\ v = Append(u, e)
        /\ f = v \o z /\ g = u \o r
  OBVIOUS
<1>2. l \in Nat /\ m \in Nat /\ m > 0 /\ m - 1 \in Nat
  <2>1. Len(u) \in Nat /\ Len(r) \in Nat
    OBVIOUS
  <2>2. QED
    BY <1>1, <2>1
<1>3. /\ z \in Seq(T) /\ Len(z) = m - 1 /\ e \in T /\ e = r[1]
      /\ \A i \in 1..(m - 1) : z[i] = r[i + 1]
  BY <1>1, TailIs
<1>4. v \in Seq(T) /\ Len(v) = l + 1 /\ v[l + 1] = e /\ \A i \in 1..l : v[i] = u[i]
  BY <1>1, <1>3, AppendedIs
<1>5. /\ f \in Seq(T) /\ Len(f) = (l + 1) + (m - 1) /\ \A i \in 1..(l + 1) : f[i] = v[i]
      /\ \A i \in 1..(m - 1) : f[(l + 1) + i] = z[i]
  <2>1. PICK k, h : k = l + 1 /\ h = m - 1
    OBVIOUS
  <2>2. f = v \o z /\ k = Len(v) /\ h = Len(z) /\ v \in Seq(T) /\ z \in Seq(T)
    BY <1>1, <1>3, <1>4, <2>1
  <2>3. /\ f \in Seq(T) /\ Len(f) = k + h /\ \A i \in 1..k : f[i] = v[i]
        /\ \A i \in 1..h : f[k + i] = z[i]
    BY <2>2, JoinedIs
  <2>4. QED
    BY <2>1, <2>3
<1>6. /\ g \in Seq(T) /\ Len(g) = l + m /\ \A i \in 1..l : g[i] = u[i]
      /\ \A i \in 1..m : g[l + i] = r[i]
  BY <1>1, JoinedIs
<1>7. Len(f) = Len(g) /\ Len(f) = l + m
  BY <1>2, <1>5, <1>6
<1>8. ASSUME NEW i \in 1..(l + m) PROVE f[i] = g[i]
  <2>1. CASE i <= l
    <3>1. i \in 1..l /\ i \in 1..(l + 1)
      BY <1>2, <2>1
    <3>2. QED
      BY <1>4, <1>5, <1>6, <3>1
  <2>2. CASE i = l + 1
    <3>1. i \in 1..(l + 1) /\ 1 \in 1..m
      BY <1>2, <2>2
    <3>2. f[i] = e /\ g[l + 1] = r[1]
      BY <1>4, <1>5, <1>6, <2>2, <3>1
    <3>3. QED
      BY <1>3, <2>2, <3>2
  <2>3. CASE l + 1 < i
    <3>1. PICK j : j = i - (l + 1)
      OBVIOUS
    <3>2. j \in 1..(m - 1) /\ (l + 1) + j = i /\ l + (j + 1) = i /\ j + 1 \in 1..m
      BY <1>2, <2>3, <3>1
    <3>3. f[i] = z[j] /\ g[i] = r[j + 1]
      <4>1. f[(l + 1) + j] = z[j] /\ g[l + (j + 1)] = r[j + 1]
        BY <1>5, <1>6, <3>2
      <4>2. QED
        BY <3>2, <4>1
    <3>4. QED
      BY <1>3, <3>2, <3>3
  <2>4. QED
    BY <1>2, <2>1, <2>2, <2>3
<1>9. f = g
  BY <1>5, <1>6, <1>7, <1>8, SeqEqual
<1>10. QED
  BY <1>1, <1>9

\* What is written later does not change what was there.
LEMMA PieceStays ==
  ASSUME NEW T, NEW u \in Seq(T), NEW e \in T, NEW m \in Nat, NEW n \in Nat, m <= n, n <= Len(u)
  PROVE  SubSeq(Append(u, e), m + 1, n) = SubSeq(u, m + 1, n)
<1>1. PICK v, l, a, c :
        v = Append(u, e) /\ l = Len(u) /\ a = SubSeq(v, m + 1, n) /\ c = SubSeq(u, m + 1, n)
  OBVIOUS
<1>2. v \in Seq(T) /\ Len(v) = l + 1 /\ \A i \in 1..l : v[i] = u[i]
  BY <1>1, AppendedIs
<1>3. l \in Nat /\ n <= l /\ n <= Len(v)
  BY <1>1, <1>2
<1>4. a \in Seq(T) /\ Len(a) = n - m /\ \A i \in 1..(n - m) : a[i] = v[m + i]
  BY <1>1, <1>2, <1>3, PiecedIs
<1>5. c \in Seq(T) /\ Len(c) = n - m /\ \A i \in 1..(n - m) : c[i] = u[m + i]
  BY <1>1, PiecedIs
<1>6. \A i \in 1..(n - m) : a[i] = c[i]
  <2> TAKE i \in 1..(n - m)
  <2>1. m + i \in 1..l
    BY <1>3
  <2>2. QED
    BY <1>2, <1>4, <1>5, <2>1
<1>7. a = c
  BY <1>4, <1>5, <1>6, SeqEqual
<1>8. QED
  BY <1>1, <1>7

\* Pieces may be put together in any order.
Joins(u, v, w) == w = u \o v

\* It does not matter what is put together first.
LEMMA Associates ==
  ASSUME NEW T, NEW u \in Seq(T), NEW v \in Seq(T), NEW w \in Seq(T), NEW a, Joins(u, v, a),
         NEW c, Joins(v, w, c), NEW f, Joins(a, w, f)
  PROVE  Joins(u, c, f) /\ f \in Seq(T) /\ a \in Seq(T) /\ c \in Seq(T)
<1>1. PICK l, m, n, lm, mn, g :
        /\ l = Len(u) /\ m = Len(v) /\ n = Len(w) /\ lm = l + m /\ mn = m + n
        /\ a = u \o v /\ c = v \o w /\ f = a \o w /\ g = u \o c
  BY DEF Joins
<1>2. l \in Nat /\ m \in Nat /\ n \in Nat
  <2>1. Len(u) \in Nat /\ Len(v) \in Nat /\ Len(w) \in Nat
    OBVIOUS
  <2>2. QED
    BY <1>1, <2>1
<1>3. /\ a \in Seq(T) /\ Len(a) = lm /\ \A i \in 1..l : a[i] = u[i]
      /\ \A i \in 1..m : a[l + i] = v[i]
  BY <1>1, JoinedIs
<1>4. /\ c \in Seq(T) /\ Len(c) = mn /\ \A i \in 1..m : c[i] = v[i]
      /\ \A i \in 1..n : c[m + i] = w[i]
  BY <1>1, JoinedIs
<1>5. /\ f \in Seq(T) /\ Len(f) = lm + n /\ \A i \in 1..lm : f[i] = a[i]
      /\ \A i \in 1..n : f[lm + i] = w[i]
  BY <1>1, <1>3, JoinedIs
<1>6. /\ g \in Seq(T) /\ Len(g) = l + mn /\ \A i \in 1..l : g[i] = u[i]
      /\ \A i \in 1..mn : g[l + i] = c[i]
  BY <1>1, <1>4, JoinedIs
<1>7. Len(f) = Len(g) /\ Len(f) = l + m + n
  BY <1>1, <1>2, <1>5, <1>6
<1>8. ASSUME NEW i \in 1..(l + m + n) PROVE f[i] = g[i]
  <2>1. CASE i <= l
    <3>1. i \in 1..l /\ i \in 1..lm
      BY <1>1, <1>2, <2>1
    <3>2. QED
      BY <1>3, <1>5, <1>6, <3>1
  <2>2. CASE l < i /\ i <= lm
    <3>1. PICK j : j = i - l
      OBVIOUS
    <3>2. j \in 1..m /\ l + j = i /\ j \in 1..mn /\ i \in 1..lm
      BY <1>1, <1>2, <2>2, <3>1
    <3>3. f[i] = a[i] /\ a[l + j] = v[j] /\ g[l + j] = c[j] /\ c[j] = v[j]
      BY <1>3, <1>4, <1>5, <1>6, <3>2
    <3>4. QED
      BY <3>2, <3>3
  <2>3. CASE lm < i
    <3>1. PICK j, h : j = i - lm /\ h = m + j
      OBVIOUS
    <3>2. j \in 1..n /\ lm + j = i /\ h \in 1..mn /\ l + h = i
      BY <1>1, <1>2, <2>3, <3>1
    <3>3. f[lm + j] = w[j] /\ g[l + h] = c[h] /\ c[m + j] = w[j]
      BY <1>4, <1>5, <1>6, <3>2
    <3>4. QED
      BY <3>1, <3>2, <3>3
  <2>4. QED
    BY <1>1, <1>2, <2>1, <2>2, <2>3
<1>9. f = g
  BY <1>5, <1>6, <1>7, <1>8, SeqEqual
<1>10. QED
  BY <1>1, <1>3, <1>4, <1>5, <1>9 DEF Joins

\* The data of a good Block.
DataOf(d, k) == d.blocks[k + 1].data

\* The data of a good Block: where it lies and which chunks it stands for.
LEMMA DataIs ==
  ASSUME NEW d, GoodStream(d), NEW k \in 0..(Len(d.blocks) - 1)
  PROVE  /\ DataOf(d, k) \in Seq(Byte) /\ Len(DataOf(d, k)) \in Nat /\ Len(DataOf(d, k)) # 0
         /\ Chunks(DataOf(d, k)) \in Seq(Seq(Byte)) /\ Len(Chunks(DataOf(d, k))) = Len(DataOf(d, k)) - 1
         /\ DataAt(d, k) \in Nat /\ PaddedTo(d, k) \in Nat /\ DataAt(d, k) + Len(DataOf(d, k)) <= PaddedTo(d, k)
         /\ \A i \in 1..Len(DataOf(d, k)) :
              /\ Encode(d)[DataAt(d, k) + i] = DataOf(d, k)[i] /\ DataOf(d, k)[i] \in Byte
              /\ DataOf(d, k)[i] <= CHUNK_MAX /\ (DataOf(d, k)[i] = LZMA2_END <=> i = Len(DataOf(d, k)))
         /\ \A i \in 1..(Len(DataOf(d, k)) - 1) : Chunks(DataOf(d, k))[i] = Repeated(DataOf(d, k)[i], DataOf(d, k)[i] - 1)
         /\ ContentTo(d, k) \in Seq(Byte) /\ Len(ContentTo(d, k)) \in Nat
         /\ ContentTo(d, k + 1) = ContentTo(d, k) \o Flat(Chunks(DataOf(d, k)), Len(DataOf(d, k)) - 1)
<1>1. PICK blk : blk = d.blocks[k + 1]
  OBVIOUS
<1>2. /\ blk \in BlockType /\ DataOf(d, k) \in Lzma2Data /\ DataAt(d, k) \in Nat /\ PaddedTo(d, k) \in Nat
      /\ PaddedTo(d, k) = DataAt(d, k) + Len(Pad(DataOf(d, k), 0)) /\ Pad(DataOf(d, k), 0) \in Seq(Byte)
      /\ Lies(Encode(d), DataAt(d, k), Pad(DataOf(d, k), 0))
      /\ ContentTo(d, k) \in Seq(Byte)
      /\ ContentTo(d, k + 1) = ContentTo(d, k) \o Contents(DataOf(d, k))
  <2>1. blk \in BlockType /\ blk.data \in Lzma2Data /\ DataAt(d, k) \in Nat /\ PaddedTo(d, k) \in Nat
    BY <1>1, GoodBlockIs
  <2>2. /\ PaddedTo(d, k) = DataAt(d, k) + Len(Pad(blk.data, 0)) /\ Pad(blk.data, 0) \in Seq(Byte)
        /\ Lies(Encode(d), DataAt(d, k), Pad(blk.data, 0))
    BY <1>1, GoodBlockIs, ZenonT(60)
  <2>3. /\ ContentTo(d, k) \in Seq(Byte)
        /\ ContentTo(d, k + 1) = ContentTo(d, k) \o Contents(blk.data)
    <3>1. ContentTo(d, k) \in Seq(Byte)
      BY <1>1, GoodBlockIs
    <3>2. PICK t \in Seq(Seq(Byte)) : t = BlockContents(d) /\ Len(t) = Len(d.blocks) /\ t[k + 1] = Contents(blk.data)
      <4>1. d \in StreamType /\ Len(d.blocks) \in Nat
        BY GoodStreamIs
      <4>2. k + 1 \in 1..Len(d.blocks)
        BY <4>1
      <4>3. /\ BlockContents(d) \in Seq(Seq(Byte)) /\ Len(BlockContents(d)) = Len(d.blocks)
            /\ BlockContents(d)[k + 1] = Contents(d.blocks[k + 1].data)
        BY <4>1, <4>2, BlocksAre
      <4>4. QED
        BY <1>1, <4>3
    <3>3. k \in 0..(Len(t) - 1)
      BY <3>2
    <3>4. Flat(t, k + 1) = Flat(t, k) \o t[k + 1]
      BY <3>3, FlatIs
    <3>5. ContentTo(d, k + 1) = ContentTo(d, k) \o Contents(blk.data)
      BY <3>2, <3>4 DEF ContentTo
    <3>6. QED
      BY <3>1, <3>5
  <2>4. QED
    BY <1>1, <2>1, <2>2, <2>3 DEF DataOf
<1>3. /\ DataOf(d, k) \in Seq(Byte) /\ Len(DataOf(d, k)) \in Nat \ {0} /\ DataOf(d, k)[Len(DataOf(d, k))] = LZMA2_END
      /\ \A i \in 1..(Len(DataOf(d, k)) - 1) : DataOf(d, k)[i] \in Byte \ {LZMA2_END}
      /\ Chunks(DataOf(d, k)) \in Seq(Seq(Byte)) /\ Len(Chunks(DataOf(d, k))) = Len(DataOf(d, k)) - 1
      /\ Contents(DataOf(d, k)) = Flat(Chunks(DataOf(d, k)), Len(DataOf(d, k)) - 1)
  BY <1>2, ContentsAre
<1>4. PICK n \in Nat, z \in Seq(Byte) :
        /\ z = Pad(DataOf(d, k), 0) /\ Len(z) = Len(DataOf(d, k)) + n /\ Lies(z, 0, DataOf(d, k))
  <2>1. 0 \in Byte
    BY DEF Byte
  <2>2. PICK n \in 0..3 : /\ Pad(DataOf(d, k), 0) \in Seq(Byte) /\ Len(Pad(DataOf(d, k), 0)) = Len(DataOf(d, k)) + n
                          /\ Lies(Pad(DataOf(d, k), 0), 0, DataOf(d, k))
    BY <1>3, <2>1, PadIs
  <2>3. n \in Nat
    OBVIOUS
  <2>4. QED
    BY <2>2, <2>3
<1>5. PICK l \in Nat, p \in Nat : l = Len(DataOf(d, k)) /\ l # 0 /\ p = DataAt(d, k)
  BY <1>2, <1>3
<1>6. ASSUME NEW i \in 1..l PROVE Encode(d)[p + i] = DataOf(d, k)[i]
  <2>1. i \in 1..Len(z) /\ i \in 1..Len(DataOf(d, k)) /\ 0 + i = i
    BY <1>4, <1>5
  <2>2. z[0 + i] = DataOf(d, k)[i]
    BY <1>4, <2>1 DEF Lies
  <2>3. Encode(d)[p + i] = z[i]
    BY <1>2, <1>4, <1>5, <2>1 DEF Lies
  <2>4. QED
    BY <2>1, <2>2, <2>3
<1>7. ASSUME NEW i \in 1..l PROVE /\ DataOf(d, k)[i] \in Byte /\ DataOf(d, k)[i] <= CHUNK_MAX
                                  /\ (DataOf(d, k)[i] = LZMA2_END <=> i = l)
  <2>1. DataOf(d, k)[i] \in Byte
    BY <1>3, <1>5, ElementIs
  <2>2. DataOf(d, k)[i] <= CHUNK_MAX
    BY <1>1, <1>5, GoodSizesAre DEF DataOf
  <2>3. CASE i = l
    BY <1>3, <1>5, <2>1, <2>2, <2>3
  <2>4. CASE i # l
    <3>1. i \in 1..(l - 1)
      BY <1>5, <2>4
    <3>2. DataOf(d, k)[i] # LZMA2_END
      BY <1>3, <1>5, <3>1
    <3>3. QED
      BY <2>1, <2>2, <2>4, <3>2
  <2>5. QED
    BY <2>3, <2>4
<1>8. ASSUME NEW i \in 1..(l - 1) PROVE Chunks(DataOf(d, k))[i] = Repeated(DataOf(d, k)[i], DataOf(d, k)[i] - 1)
  <2>1. DataOf(d, k)[i] \in Byte /\ DataOf(d, k)[i] # 0
    BY <1>3, <1>5 DEF LZMA2_END
  <2>2. Chunks(DataOf(d, k))[i] = Chunk(DataOf(d, k)[i])
    BY <1>5 DEF Chunks
  <2>3. QED
    BY <2>1, <2>2, ChunkIs
<1>9. DataAt(d, k) + Len(DataOf(d, k)) <= PaddedTo(d, k)
  <2>1. PaddedTo(d, k) = p + (l + n)
    BY <1>2, <1>4, <1>5
  <2>2. p + l <= p + (l + n)
    OBVIOUS
  <2>3. QED
    BY <1>5, <2>1, <2>2
<1>10. Len(ContentTo(d, k)) \in Nat
  BY <1>2
<1>11. QED
  BY <1>2, <1>3, <1>5, <1>6, <1>7, <1>8, <1>9, <1>10

\* What is put out is the beginning of the content, and what is ready or left of a
\* chunk comes after it.
LEMMA OutIs ==
  ASSUME NEW d, GoodStream(d), NEW x \in DecoderType, NEW buf \in BufType,
         NEW k \in 0..(Len(d.blocks) - 1), NEW i, Decodes(d, x, buf, k, i)
  PROVE  \E rest \in Seq(Byte) : /\ ContentTo(d, k + 1) = buf.out \o rest
                                 /\ x.filter.ready # <<>> => rest # <<>>
<1>1. /\ DataOf(d, k) \in Seq(Byte) /\ Len(DataOf(d, k)) \in Nat /\ Len(DataOf(d, k)) # 0
      /\ Chunks(DataOf(d, k)) \in Seq(Seq(Byte)) /\ Len(Chunks(DataOf(d, k))) = Len(DataOf(d, k)) - 1
      /\ ContentTo(d, k) \in Seq(Byte)
      /\ ContentTo(d, k + 1) = ContentTo(d, k) \o Flat(Chunks(DataOf(d, k)), Len(DataOf(d, k)) - 1)
  <2>1. /\ DataOf(d, k) \in Seq(Byte) /\ Len(DataOf(d, k)) \in Nat /\ Len(DataOf(d, k)) # 0
        /\ Chunks(DataOf(d, k)) \in Seq(Seq(Byte)) /\ Len(Chunks(DataOf(d, k))) = Len(DataOf(d, k)) - 1
    BY DataIs
  <2>2. /\ ContentTo(d, k) \in Seq(Byte)
        /\ ContentTo(d, k + 1) = ContentTo(d, k) \o Flat(Chunks(DataOf(d, k)), Len(DataOf(d, k)) - 1)
    BY DataIs
  <2>3. QED
    BY <2>1, <2>2
<1>2. PICK j : j = Least(i, Len(DataOf(d, k)) - 1)
  OBVIOUS
<1>3. j \in 0..(Len(DataOf(d, k)) - 1)
  <2>1. i \in 0..Len(DataOf(d, k))
    BY DEF Decodes, DataOf
  <2>2. QED
    BY <1>1, <1>2, <2>1 DEF Least
<1>4. PICK c \in Seq(Seq(Byte)) : c = Chunks(DataOf(d, k)) /\ Len(c) = Len(DataOf(d, k)) - 1
  BY <1>1
<1>5. PICK more \in Seq(Byte) : FlattenSeq(c) = Flat(c, j) \o more
  <2>1. j \in 0..Len(c)
    BY <1>3, <1>4
  <2>2. QED
    BY <2>1, FlatGrows
<1>6. FlattenSeq(c) = Flat(c, Len(DataOf(d, k)) - 1) /\ Flat(c, j) \in Seq(Byte)
  BY <1>3, <1>4, FlatIs
<1>7. PICK o \in Seq(Byte), r \in Seq(Byte), e \in Seq(Byte) :
        o = buf.out /\ r = x.filter.ready /\ e = Repeated(x.filter.byte, x.filter.left)
  <2>1. x.filter \in FilterType
    BY DEF DecoderType
  <2>2. x.filter.byte \in Byte /\ x.filter.left \in Nat /\ x.filter.ready \in Seq(Byte)
    BY <2>1 DEF FilterType
  <2>3. Repeated(x.filter.byte, x.filter.left) \in Seq(Byte)
    BY <2>2, RepeatedIs, Zenon
  <2>4. QED
    BY <2>2, <2>3 DEF BufType
<1>8. PICK u \in Seq(Byte), f \in Seq(Byte) : u = ContentTo(d, k) /\ f = Flat(c, j)
  BY <1>1, <1>6
<1>9. (o \o r) \o e = u \o f
  BY <1>2, <1>4, <1>7, <1>8 DEF Decodes, DataOf
<1>10. PICK v, w, a, uf, fm, g, h : /\ Joins(e, more, v) /\ Joins(r, v, w) /\ Joins(o, r, a)
                                   /\ Joins(u, f, uf) /\ Joins(f, more, fm)
                                   /\ Joins(uf, more, g) /\ Joins(a, v, h)
  BY DEF Joins
<1>11. Joins(o, w, ContentTo(d, k + 1)) /\ v \in Seq(Byte) /\ w \in Seq(Byte)
  <2>1. Joins(u, fm, g)
    BY <1>10, Associates
  <2>2. a \in Seq(Byte) /\ v \in Seq(Byte)
    BY <1>10, ConcatIs DEF Joins
  <2>3. Joins(a, e, uf)
    BY <1>9, <1>10 DEF Joins
  <2>4. Joins(a, v, g)
    BY <1>10, <2>2, <2>3, Associates
  <2>5. h = g
    BY <1>10, <2>4 DEF Joins
  <2>6. Joins(o, w, h) /\ w \in Seq(Byte)
    <3>1. w \in Seq(Byte)
      BY <1>10, <2>2, ConcatIs DEF Joins
    <3>2. QED
      BY <1>10, <2>2, <3>1, Associates
  <2>7. fm = FlattenSeq(c)
    BY <1>5, <1>8, <1>10 DEF Joins
  <2>8. ContentTo(d, k + 1) = u \o fm
    BY <1>1, <1>4, <1>6, <1>8, <2>7
  <2>9. ContentTo(d, k + 1) = g
    BY <2>1, <2>8 DEF Joins
  <2>10. QED
    BY <2>2, <2>5, <2>6, <2>9
<1>12. x.filter.ready # <<>> => w # <<>>
  <2>1. SUFFICES ASSUME r # <<>> PROVE w # <<>>
    BY <1>7
  <2>2. Len(r) # 0 /\ Len(r) \in Nat /\ Len(v) \in Nat
    BY <1>11, <2>1
  <2>3. Len(w) = Len(r) + Len(v)
    <3>1. w = r \o v
      BY <1>10 DEF Joins
    <3>2. QED
      BY <1>11, <3>1, ConcatIs
  <2>4. Len(w) # 0
    BY <2>2, <2>3
  <2>5. QED
    BY <2>4
<1>13. QED
  BY <1>7, <1>11, <1>12 DEF Joins

\* Where the decoder is in a Block.
LEMMA InBlockIs ==
  ASSUME NEW d, InGood(d), At("SEQ_BLOCK_UNCOMPRESS")
  PROVE  \E k \in 0..(Len(d.blocks) - 1), i \in 0..b.in_pos :
           /\ InBlock(d, s, b, s.in_start, s.out_start, k, i)
           /\ Decodes(d, s, b, k, i) /\ i \in 0..Len(DataOf(d, k)) /\ b.in_pos = DataAt(d, k) + i
           /\ s.filter.ended = (i = Len(DataOf(d, k)))
           /\ Counts(d, s, b, k, s.in_start, s.out_start)
<1>1. s.sequence = "SEQ_BLOCK_UNCOMPRESS"
  BY DEF At
<1>2. PICK k \in 0..(Len(d.blocks) - 1), i \in 0..b.in_pos : InBlock(d, s, b, s.in_start, s.out_start, k, i)
  BY <1>1, InGoodIs, WhichIs
<1>3. Decodes(d, s, b, k, i) /\ Counts(d, s, b, k, s.in_start, s.out_start)
  BY <1>2 DEF InBlock
<1>4. /\ i \in 0..Len(DataOf(d, k)) /\ b.in_pos = DataAt(d, k) + i
      /\ s.filter.ended = (i = Len(DataOf(d, k)))
  BY <1>3 DEF Decodes, DataOf
<1>5. QED
  BY <1>2, <1>3, <1>4

\* The types of the filter.
LEMMA FilterIs ==
  ASSUME NEW d, InGood(d)
  PROVE  /\ s.filter \in FilterType /\ s.filter.left \in Nat /\ s.filter.byte \in Byte
         /\ s.filter.ready \in Seq(Byte) /\ s.filter.ended \in BOOLEAN
BY InGoodIs DEF DecoderType, FilterType

\* A number between two is between the first and a third that is no less.
LEMMA Widens ==
  ASSUME NEW m \in Nat, NEW n \in Nat, NEW l \in Nat, n <= l, NEW z \in m..n
  PROVE  z \in m..l
OBVIOUS

\* A step of the filters.
LEMMA FilterGoes ==
  ASSUME NEW d, InGood(d), At("SEQ_BLOCK_UNCOMPRESS"), NEW k \in 0..(Len(d.blocks) - 1), NEW i,
         InBlock(d, s, b, s.in_start, s.out_start, k, i),
         NEW f \in FilterType, NEW buf \in BufType, NEW x, x = [s EXCEPT !.filter = f], Continue(x, buf),
         NEW j, Decodes(d, x, buf, k, j), b.in_pos <= buf.in_pos, Len(b.out) <= Len(buf.out),
         SubSeq(buf.out, Len(ContentTo(d, k)) + 1, s.out_start)
           = SubSeq(b.out, Len(ContentTo(d, k)) + 1, s.out_start)
  PROVE  GoodOutcome(d)
<1>1. /\ x.sequence = s.sequence /\ x.block_header = s.block_header /\ x.block = s.block /\ x.pos = s.pos
      /\ x.crc = s.crc /\ x.check_type = s.check_type /\ x.index = s.index /\ x.filter = f
      /\ x.in_start = s.in_start /\ x.out_start = s.out_start
  BY InGoodIs DEF DecoderType
<1>2. Counts(d, s, b, k, s.in_start, s.out_start)
  BY DEF InBlock
<1>3. /\ DataAt(d, k) \in Nat /\ Len(ContentTo(d, k)) \in Nat /\ b.in_pos \in Nat /\ Len(b.out) \in Nat
      /\ buf.in_pos \in Nat /\ Len(buf.out) \in Nat /\ Len(DataOf(d, k)) \in Nat
  <2>1. DataAt(d, k) \in Nat /\ Len(ContentTo(d, k)) \in Nat /\ Len(DataOf(d, k)) \in Nat
    BY InGoodIs, DataIs
  <2>2. QED
    BY <2>1, InGoodIs, SMTT(30) DEF BufType
<1>4. Counts(d, x, buf, k, x.in_start, x.out_start)
  <2>1. s.in_start \in DataAt(d, k)..b.in_pos /\ s.out_start \in Len(ContentTo(d, k))..Len(b.out)
    BY <1>2 DEF Counts
  <2>2. s.in_start \in DataAt(d, k)..buf.in_pos /\ s.out_start \in Len(ContentTo(d, k))..Len(buf.out)
    BY <1>3, <2>1, Widens
  <2>3. QED
    BY <1>1, <1>2, <2>2 DEF Counts
<1>5. InBlock(d, x, buf, x.in_start, x.out_start, k, j)
  BY <1>1, <1>4 DEF InBlock, BlocksDone, Fresh
<1>6. j \in 0..buf.in_pos
  <2>1. j \in 0..Len(DataOf(d, k)) /\ buf.in_pos = DataAt(d, k) + j
    BY DEF Decodes, DataOf
  <2>2. QED
    BY <1>3, <2>1
<1>7. Follows(d, x, buf, x.in_start, x.out_start)
  BY <1>5, <1>6 DEF Follows
<1>8. QED
  BY <1>7 DEF GoodOutcome

\* A byte of a good Block is decoded.
LEMMA FilterDecodesGood ==
  ASSUME NEW d, InGood(d), FilterDecodes
  PROVE  GoodOutcome(d)
<1>1. At("SEQ_BLOCK_UNCOMPRESS") /\ s.filter.left > 0
  BY DEF FilterDecodes
<1>2. PICK k \in 0..(Len(d.blocks) - 1), i \in 0..b.in_pos :
           InBlock(d, s, b, s.in_start, s.out_start, k, i) /\ Decodes(d, s, b, k, i)
  BY <1>1, InBlockIs
<1>3. /\ s.filter \in FilterType /\ s.filter.left \in Nat /\ s.filter.byte \in Byte
      /\ s.filter.ready \in Seq(Byte)
  BY FilterIs
<1>4. PICK n \in Nat, e \in Byte, r \in Seq(Byte), o \in Seq(Byte) :
        n = s.filter.left /\ e = s.filter.byte /\ r = s.filter.ready /\ o = b.out /\ n > 0
  BY <1>1, <1>3, InGoodIs
<1>5. PICK w \in Seq(Byte) : w = Append(r, e)
  <2>1. Append(r, e) \in Seq(Byte)
    BY AppendIs
  <2>2. QED
    BY <2>1
<1>6. PICK f : f = [s.filter EXCEPT !.left = n - 1, !.ready = w]
  OBVIOUS
<1>7. f \in FilterType /\ f.left = n - 1 /\ f.byte = e /\ f.ready = w /\ f.ended = s.filter.ended
  <2>1. n - 1 \in Nat
    BY <1>4
  <2>2. QED
    BY <1>3, <1>4, <1>6, <2>1 DEF FilterType
<1>8. PICK x : x = [s EXCEPT !.filter = f]
  OBVIOUS
<1>9. Continue(x, b)
  <2>1. x = [s EXCEPT !.filter.left = @ - 1, !.filter.ready = Append(@, s.filter.byte)]
    BY <1>4, <1>5, <1>6, <1>8, InGoodIs DEF DecoderType
  <2>2. QED
    BY <2>1, Zenon DEF FilterDecodes
<1>10. x.filter = f
  BY <1>8, InGoodIs DEF DecoderType
<1>11. Decoded(o, w, e, n - 1) = Decoded(o, r, e, n)
  BY <1>4, <1>5, OneIsDecoded, SMTT(30)
<1>12. Decodes(d, x, b, k, i)
  <2>1. (o \o w) \o Repeated(e, n - 1) = (o \o r) \o Repeated(e, n)
    BY <1>11 DEF Decoded
  <2>2. QED
    BY <1>2, <1>4, <1>7, <1>10, <2>1 DEF Decodes
<1>13. b \in BufType /\ b.in_pos <= b.in_pos /\ Len(b.out) <= Len(b.out)
  <2>1. Len(b.out) \in Nat /\ b.in_pos \in Nat
    BY InGoodIs
  <2>2. QED
    BY <2>1, InGoodIs
<1>14. QED
  BY <1>1, <1>2, <1>7, <1>8, <1>9, <1>12, <1>13, FilterGoes

\* A byte of a good Block is put out.
LEMMA FilterWritesGood ==
  ASSUME NEW d, InGood(d), FilterWrites
  PROVE  GoodOutcome(d)
<1>1. At("SEQ_BLOCK_UNCOMPRESS") /\ Ready /\ b.room > 0
  BY DEF FilterWrites
<1>2. PICK k \in 0..(Len(d.blocks) - 1), i \in 0..b.in_pos :
           /\ InBlock(d, s, b, s.in_start, s.out_start, k, i) /\ Decodes(d, s, b, k, i)
           /\ Counts(d, s, b, k, s.in_start, s.out_start)
  BY <1>1, InBlockIs
<1>3. /\ s.filter \in FilterType /\ s.filter.left \in Nat /\ s.filter.byte \in Byte
      /\ s.filter.ready \in Seq(Byte)
  BY FilterIs
<1>4. PICK r \in Seq(Byte), o \in Seq(Byte) : r = s.filter.ready /\ o = b.out /\ Len(r) > 0
  <2>1. Held \in Nat /\ Len(s.filter.ready) > Held /\ Len(s.filter.ready) \in Nat
    BY <1>1, <1>3, BcjAssumption DEF Ready, Held
  <2>2. Len(s.filter.ready) > 0
    BY <2>1
  <2>3. QED
    BY <1>3, <2>2, InGoodIs
<1>5. PICK e \in Byte, w \in Seq(Byte) : e = Head(r) /\ w = Tail(r)
  <2>1. Tail(r) \in Seq(Byte) /\ Head(r) \in Byte
    BY <1>4, TailIs
  <2>2. QED
    BY <2>1
<1>6. PICK v \in Seq(Byte) : v = Append(o, e) /\ Len(v) = Len(o) + 1
  <2>1. Append(o, e) \in Seq(Byte) /\ Len(Append(o, e)) = Len(o) + 1
    BY AppendIs
  <2>2. QED
    BY <2>1
<1>7. PICK f : f = [s.filter EXCEPT !.ready = w]
  OBVIOUS
<1>8. f \in FilterType /\ f.left = s.filter.left /\ f.byte = s.filter.byte /\ f.ready = w /\ f.ended = s.filter.ended
  BY <1>3, <1>7 DEF FilterType
<1>9. PICK x, buf : x = [s EXCEPT !.filter = f] /\ buf = [b EXCEPT !.out = v, !.room = b.room - 1]
  OBVIOUS
<1>10. Continue(x, buf)
  <2>1. x = [s EXCEPT !.filter.ready = Tail(@)]
    BY <1>4, <1>5, <1>7, <1>9, InGoodIs DEF DecoderType
  <2>2. buf = [b EXCEPT !.out = Append(@, Head(s.filter.ready)), !.room = @ - 1]
    BY <1>4, <1>5, <1>6, <1>9, InGoodIs DEF BufType
  <2>3. QED
    BY <2>1, <2>2, Zenon DEF FilterWrites
<1>11. x.filter = f
  BY <1>9, InGoodIs DEF DecoderType
<1>12. buf \in BufType /\ buf.out = v /\ buf.in_pos = b.in_pos
  <2>1. b.room - 1 \in Nat /\ b \in BufType
    BY <1>1, InGoodIs
  <2>2. QED
    BY <1>9, <2>1 DEF BufType
<1>13. v \o w = o \o r
  <2>1. Append(o, Head(r)) \o Tail(r) = o \o r
    BY <1>4, OneIsWritten
  <2>2. QED
    BY <1>5, <1>6, <2>1
<1>14. Decodes(d, x, buf, k, i)
  BY <1>2, <1>4, <1>8, <1>11, <1>12, <1>13 DEF Decodes
<1>15. b.in_pos <= buf.in_pos /\ Len(b.out) <= Len(buf.out)
  <2>1. Len(b.out) \in Nat /\ b.in_pos \in Nat
    BY InGoodIs
  <2>2. QED
    BY <1>4, <1>6, <1>12, <2>1
<1>16. SubSeq(buf.out, Len(ContentTo(d, k)) + 1, s.out_start) = SubSeq(b.out, Len(ContentTo(d, k)) + 1, s.out_start)
  <2>1. PICK m \in Nat, n \in Nat : m = Len(ContentTo(d, k)) /\ n = s.out_start /\ m <= n /\ n <= Len(o)
    <3>1. Len(ContentTo(d, k)) \in Nat /\ Len(o) \in Nat
      BY InGoodIs, DataIs
    <3>2. s.out_start \in Len(ContentTo(d, k))..Len(o)
      BY <1>2, <1>4 DEF Counts
    <3>3. QED
      BY <3>1, <3>2
  <2>2. SubSeq(v, m + 1, n) = SubSeq(o, m + 1, n)
    <3>1. SubSeq(Append(o, e), m + 1, n) = SubSeq(o, m + 1, n)
      <4>1. m <= n /\ n <= Len(o)
        BY <2>1
      <4>2. QED
        BY <4>1, PieceStays, Zenon
    <3>2. QED
      BY <1>6, <3>1
  <2>3. QED
    BY <1>4, <1>12, <2>1, <2>2
<1>17. QED
  BY <1>1, <1>2, <1>8, <1>9, <1>10, <1>12, <1>14, <1>15, <1>16, FilterGoes

\* A control byte that is no end mark.
LEMMA NotEnd ==
  ASSUME NEW c \in Byte, c # LZMA2_END
  PROVE  c \in Nat /\ c # 0 /\ c - 1 \in Nat
BY DEF Byte, LZMA2_END

\* w is what comes of the first i bytes of the data.
Comes(d, k, i, w) ==
  w = ContentTo(d, k) \o Flat(Chunks(DataOf(d, k)), Least(i, Len(DataOf(d, k)) - 1))

\* A chunk begins, or the data ends.
LEMMA ChunkBegins ==
  ASSUME NEW d, GoodStream(d), NEW k \in 0..(Len(d.blocks) - 1), NEW i \in Nat, i < Len(DataOf(d, k)),
         NEW w \in Seq(Byte), NEW byte, Comes(d, k, i, w \o Repeated(byte, 0)),
         NEW c, c = DataOf(d, k)[i + 1]
  PROVE  /\ c = LZMA2_END => i + 1 = Len(DataOf(d, k)) /\ Comes(d, k, i + 1, w \o Repeated(byte, 0))
         /\ c # LZMA2_END => i + 1 < Len(DataOf(d, k)) /\ Comes(d, k, i + 1, w \o Repeated(c, c - 1))
<1>1. PICK l \in Nat : l = Len(DataOf(d, k)) /\ l # 0
  BY DataIs
<1>2. i + 1 \in 1..l
  BY <1>1
<1>3. c \in Byte /\ (c = LZMA2_END <=> i + 1 = l)
  BY <1>1, <1>2, DataIs
<1>4. CASE c = LZMA2_END
  <2>1. i + 1 = l /\ Least(i, l - 1) = l - 1 /\ Least(i + 1, l - 1) = l - 1
    BY <1>1, <1>3, <1>4 DEF Least
  <2>2. QED
    BY <1>1, <1>4, <2>1 DEF Comes
<1>5. CASE c # LZMA2_END
  <2>1. i + 1 < l /\ Least(i, l - 1) = i /\ Least(i + 1, l - 1) = i + 1 /\ i + 1 \in 1..(l - 1)
    BY <1>1, <1>2, <1>3, <1>5 DEF Least
  <2>2. PICK t \in Seq(Seq(Byte)) : t = Chunks(DataOf(d, k)) /\ Len(t) = l - 1
    BY <1>1, DataIs
  <2>3. i \in 0..(Len(t) - 1) /\ i \in 0..Len(t)
    BY <1>1, <2>1, <2>2
  <2>4. /\ Flat(t, i) \in Seq(Byte) /\ Flat(t, i + 1) = Flat(t, i) \o t[i + 1]
    BY <2>3, FlatIs
  <2>5. t[i + 1] = Repeated(c, c - 1)
    BY <1>1, <2>1, <2>2, DataIs
  <2>6. PICK u \in Seq(Byte) : u = ContentTo(d, k)
    BY DataIs
  <2>7. PICK f \in Seq(Byte) : f = Flat(t, i)
    BY <2>4
  <2>8. PICK r \in Seq(Byte) : r = Repeated(c, c - 1)
    <3>1. c \in Byte
      BY <1>3
    <3>2. c - 1 \in Nat
      BY <1>5, <3>1, NotEnd
    <3>3. Repeated(c, c - 1) \in Seq(Byte)
      BY <3>1, <3>2, RepeatedIs
    <3>4. QED
      BY <3>3
  <2>9. Repeated(byte, 0) = <<>>
    <3>1. 1..0 = {}
      OBVIOUS
    <3>2. QED
      BY <3>1 DEF Repeated
  <2>10. PICK fr, g : Joins(f, r, fr) /\ Joins(w, r, g)
    BY DEF Joins
  <2>11. Joins(u, f, w)
    <3>1. w \o <<>> = u \o f
      BY <1>1, <2>1, <2>2, <2>6, <2>7, <2>9 DEF Comes
    <3>2. w \o <<>> = w
      OBVIOUS
    <3>3. QED
      BY <3>1, <3>2 DEF Joins
  <2>12. Joins(u, fr, g)
    BY <2>10, <2>11, Associates
  <2>13. g = w \o Repeated(c, c - 1)
    BY <2>8, <2>10 DEF Joins
  <2>14. fr = Flat(t, i + 1)
    BY <2>4, <2>5, <2>7, <2>8, <2>10 DEF Joins
  <2>15. g = u \o Flat(t, i + 1)
    BY <2>12, <2>14 DEF Joins
  <2>16. Comes(d, k, i + 1, w \o Repeated(c, c - 1))
    BY <1>1, <2>1, <2>2, <2>6, <2>13, <2>15 DEF Comes
  <2>17. i + 1 < Len(DataOf(d, k))
    BY <1>1, <2>1
  <2>18. QED
    BY <1>5, <2>16, <2>17
<1>6. QED
  BY <1>4, <1>5

\* A control byte of a good Block is accepted.
LEMMA FilterReadsGood ==
  ASSUME NEW d, InGood(d), FilterReads
  PROVE  GoodOutcome(d)
<1>1. At("SEQ_BLOCK_UNCOMPRESS") /\ More /\ s.filter.left = 0 /\ ~s.filter.ended
  BY DEF FilterReads
<1>2. PICK k \in 0..(Len(d.blocks) - 1), i \in 0..b.in_pos :
           /\ InBlock(d, s, b, s.in_start, s.out_start, k, i) /\ Decodes(d, s, b, k, i)
           /\ i \in 0..Len(DataOf(d, k)) /\ b.in_pos = DataAt(d, k) + i
           /\ s.filter.ended = (i = Len(DataOf(d, k)))
  BY <1>1, InBlockIs
<1>3. /\ s.filter \in FilterType /\ s.filter.byte \in Byte /\ s.filter.ready \in Seq(Byte)
  BY FilterIs
<1>4. PICK l \in Nat, p \in Nat : l = Len(DataOf(d, k)) /\ p = DataAt(d, k) /\ i \in Nat /\ i < l
  <2>1. Len(DataOf(d, k)) \in Nat /\ DataAt(d, k) \in Nat
    BY InGoodIs, DataIs
  <2>2. i \in 0..Len(DataOf(d, k)) /\ i # Len(DataOf(d, k))
    BY <1>1, <1>2
  <2>3. QED
    BY <2>1, <2>2
<1>5. i + 1 \in 1..l
  BY <1>4
<1>6. PICK c : c = DataOf(d, k)[i + 1]
  OBVIOUS
<1>7. c \in Byte /\ c <= CHUNK_MAX /\ (c = LZMA2_END <=> i + 1 = l) /\ Encode(d)[p + (i + 1)] = c
  <2>1. i + 1 \in 1..Len(DataOf(d, k)) /\ GoodStream(d)
    BY <1>4, <1>5, InGoodIs
  <2>2. PICK j \in 1..Len(DataOf(d, k)) : j = i + 1
    BY <2>1
  <2>3. /\ Encode(d)[DataAt(d, k) + j] = DataOf(d, k)[j] /\ DataOf(d, k)[j] \in Byte
        /\ DataOf(d, k)[j] <= CHUNK_MAX /\ (DataOf(d, k)[j] = LZMA2_END <=> j = Len(DataOf(d, k)))
    BY <2>1, DataIs
  <2>4. QED
    BY <1>4, <1>6, <2>2, <2>3
<1>8. Next1 = c /\ Taken(1).in_pos = p + (i + 1) /\ Taken(1).out = b.out
  <2>1. b.in_pos + 1 = p + (i + 1)
    BY <1>2, <1>4
  <2>2. Next1 = Encode(d)[b.in_pos + 1] /\ Taken(1).in_pos = b.in_pos + 1 /\ Taken(1).out = b.out
    BY <1>1, NextIs
  <2>3. QED
    BY <1>7, <2>1, <2>2
<1>9. ~(Next1 > CHUNK_MAX)
  BY <1>7, <1>8 DEF Byte, CHUNK_MAX
<1>10. PICK w \in Seq(Byte), byte \in Byte : w = b.out \o s.filter.ready /\ byte = s.filter.byte
  <2>1. b.out \o s.filter.ready \in Seq(Byte)
    BY <1>3, InGoodIs, ConcatIs
  <2>2. QED
    BY <1>3, <2>1
<1>11. Comes(d, k, i, w \o Repeated(byte, 0))
  BY <1>1, <1>2, <1>4, <1>10 DEF Decodes, DataOf, Comes
<1>12. /\ c = LZMA2_END => Comes(d, k, i + 1, w \o Repeated(byte, 0))
       /\ c # LZMA2_END => i + 1 < l /\ Comes(d, k, i + 1, w \o Repeated(c, c - 1))
  <2>1. i \in Nat /\ i < Len(DataOf(d, k)) /\ GoodStream(d)
    BY <1>4, InGoodIs
  <2>2. QED
    BY <1>4, <1>6, <1>11, <2>1, ChunkBegins
<1>13. Taken(1) \in BufType /\ b.in_pos <= Taken(1).in_pos /\ Len(b.out) <= Len(Taken(1).out)
  <2>1. Grows(Taken(1))
    BY <1>1, InGoodIs, NextByte
  <2>2. QED
    BY <2>1 DEF Grows, BufferOK
<1>14. CASE c = LZMA2_END
  <2>1. PICK f, x : f = [s.filter EXCEPT !.ended = TRUE] /\ x = [s EXCEPT !.filter = f]
    OBVIOUS
  <2>2. f \in FilterType /\ f.left = 0 /\ f.byte = byte /\ f.ready = s.filter.ready /\ f.ended = TRUE
    BY <1>1, <1>3, <1>10, <2>1 DEF FilterType
  <2>3. x.filter = f
    BY <2>1, InGoodIs DEF DecoderType
  <2>4. Continue(x, Taken(1))
    <3>1. x = [s EXCEPT !.filter.ended = TRUE]
      BY <2>1, InGoodIs DEF DecoderType
    <3>2. Next1 = LZMA2_END
      BY <1>8, <1>14, SMTT(30)
    <3>3. QED
      BY <1>9, <3>1, <3>2, Zenon DEF FilterReads
  <2>5. Decodes(d, x, Taken(1), k, i + 1)
    <3>1. i + 1 \in 0..l /\ ~(f.left > 0) /\ (i + 1 = l) = TRUE
      BY <1>5, <1>7, <1>14, <2>2
    <3>2. (b.out \o s.filter.ready) \o Repeated(byte, 0)
             = ContentTo(d, k) \o Flat(Chunks(DataOf(d, k)), Least(i + 1, l - 1))
      BY <1>4, <1>10, <1>12, <1>14 DEF Comes
    <3>3. QED
      BY <1>4, <1>8, <2>2, <2>3, <3>1, <3>2 DEF Decodes, DataOf
  <2>6. QED
    BY <1>1, <1>2, <1>8, <1>13, <2>1, <2>2, <2>4, <2>5, FilterGoes
<1>15. CASE c # LZMA2_END
  <2>1. c - 1 \in Nat
    BY <1>7, <1>15 DEF Byte, LZMA2_END
  <2>2. PICK f, x : f = [s.filter EXCEPT !.left = c - 1, !.byte = c] /\ x = [s EXCEPT !.filter = f]
    OBVIOUS
  <2>3. f \in FilterType /\ f.left = c - 1 /\ f.byte = c /\ f.ready = s.filter.ready /\ f.ended = FALSE
    <3>1. s.filter.ended = FALSE
      BY <1>1, FilterIs
    <3>2. QED
      BY <1>3, <1>7, <2>1, <2>2, <3>1 DEF FilterType
  <2>4. x.filter = f
    BY <2>2, InGoodIs DEF DecoderType
  <2>5. Continue(x, Taken(1))
    <3>1. x = [s EXCEPT !.filter.left = Next1 - 1, !.filter.byte = Next1]
      BY <1>8, <2>2, InGoodIs, Zenon DEF DecoderType
    <3>2. Next1 # LZMA2_END
      BY <1>8, <1>15
    <3>3. QED
      BY <1>9, <3>1, <3>2, Zenon DEF FilterReads
  <2>6. Decodes(d, x, Taken(1), k, i + 1)
    <3>1. i + 1 \in 0..l /\ i + 1 \in 1..(l - 1) /\ (i + 1 = l) = FALSE
      BY <1>5, <1>12, <1>15
    <3>2. (b.out \o s.filter.ready) \o Repeated(c, c - 1)
             = ContentTo(d, k) \o Flat(Chunks(DataOf(d, k)), Least(i + 1, l - 1))
      BY <1>4, <1>10, <1>12, <1>15 DEF Comes
    <3>3. QED
      BY <1>4, <1>6, <1>8, <2>3, <2>4, <3>1, <3>2, Zenon DEF Decodes, DataOf
  <2>7. QED
    BY <1>1, <1>2, <1>8, <1>13, <2>2, <2>3, <2>5, <2>6, FilterGoes
<1>16. QED
  BY <1>14, <1>15

-----------------------------------------------------------------------------
(* What is counted and checked of a good Block.                            *)

\* What dec_block() counts and checks when the filters have returned.
NowCompressed == s.block.compressed + b.in_pos - s.in_start
NowUncompressed == s.block.uncompressed + Len(b.out) - s.out_start
NowCrc ==
  IF s.check_type = XZ_CHECK_CRC32
    THEN xz_crc32(SubSeq(b.out, s.out_start + 1, Len(b.out)), s.crc) ELSE s.crc
Counted ==
  [s EXCEPT !.block.compressed = NowCompressed, !.block.uncompressed = NowUncompressed, !.crc = NowCrc]

\* The content up to a Block is no longer than that up to the next.
LEMMA ContentGrows ==
  ASSUME NEW d, GoodStream(d), NEW k \in 0..(Len(d.blocks) - 1)
  PROVE  /\ Contents(DataOf(d, k)) \in Seq(Byte)
         /\ Contents(DataOf(d, k)) = Flat(Chunks(DataOf(d, k)), Len(DataOf(d, k)) - 1)
         /\ ContentTo(d, k) \in Seq(Byte)
         /\ Joins(ContentTo(d, k), Contents(DataOf(d, k)), ContentTo(d, k + 1))
         /\ Len(ContentTo(d, k + 1)) = Len(ContentTo(d, k)) + Len(Contents(DataOf(d, k)))
         /\ Len(ContentTo(d, k)) \in Nat /\ Len(Contents(DataOf(d, k))) \in Vli
<1>1. PICK blk : blk = d.blocks[k + 1]
  OBVIOUS
<1>2. blk.data \in Lzma2Data /\ blk.data = DataOf(d, k)
  BY <1>1, GoodBlockIs DEF DataOf
<1>3. /\ Contents(DataOf(d, k)) \in Seq(Byte)
      /\ Contents(DataOf(d, k)) = Flat(Chunks(DataOf(d, k)), Len(DataOf(d, k)) - 1)
  BY <1>2, ContentsAre
<1>4. /\ ContentTo(d, k) \in Seq(Byte)
      /\ ContentTo(d, k + 1) = ContentTo(d, k) \o Flat(Chunks(DataOf(d, k)), Len(DataOf(d, k)) - 1)
  BY DataIs
<1>5. Joins(ContentTo(d, k), Contents(DataOf(d, k)), ContentTo(d, k + 1))
  BY <1>3, <1>4 DEF Joins
<1>6. Len(ContentTo(d, k + 1)) = Len(ContentTo(d, k)) + Len(Contents(DataOf(d, k)))
  BY <1>3, <1>4, <1>5, ConcatIs DEF Joins
<1>7. Len(Contents(blk.data)) \in Vli
  BY <1>1, GoodSizesAre
<1>8. Len(ContentTo(d, k)) \in Nat
  BY <1>4
<1>9. QED
  BY <1>2, <1>3, <1>4, <1>5, <1>6, <1>7, <1>8

\* A check over the bytes from place m + 1 to n.
CrcFrom(u, m, n, base) == xz_crc32(SubSeq(u, m + 1, n), base)

\* The CRC32 over what has been put out of a Block, in one piece or two.
LEMMA CrcOver ==
  ASSUME NEW u \in Seq(Byte), NEW m \in Nat, NEW n \in Nat, NEW l \in Nat, m <= n, n <= l, l <= Len(u)
  PROVE  CrcFrom(u, n, l, CrcFrom(u, m, n, 0)) = CrcFrom(u, m, l, 0)
<1>1. xz_crc32(SubSeq(u, n + 1, l), xz_crc32(SubSeq(u, m + 1, n), 0)) = xz_crc32(SubSeq(u, m + 1, l), 0)
  BY CrcGoesOn, Zenon
<1>2. QED
  BY <1>1, Zenon DEF CrcFrom

\* A place as the number of bytes before it.
LEMMA Differences ==
  ASSUME NEW m \in Nat, NEW n \in Nat, NEW q, q \in m..n
  PROVE  (q - m) + n - q = n - m /\ n - m \in Nat /\ q \in Nat /\ m <= q /\ q <= n
OBVIOUS

\* What has been counted of a Block, as numbers.
LEMMA CountsAre ==
  ASSUME NEW d, InGood(d), At("SEQ_BLOCK_UNCOMPRESS"), NEW k \in 0..(Len(d.blocks) - 1), NEW i,
         InBlock(d, s, b, s.in_start, s.out_start, k, i)
  PROVE  /\ i \in Nat /\ NowCompressed = i
         /\ NowUncompressed = Len(b.out) - Len(ContentTo(d, k)) /\ NowUncompressed \in Nat
         /\ NowCrc = IF d.check = XZ_CHECK_CRC32
                       THEN xz_crc32(SubSeq(b.out, Len(ContentTo(d, k)) + 1, Len(b.out)), 0) ELSE 0
         /\ s.block_header.compressed \in {VLI_UNKNOWN, Len(DataOf(d, k))}
         /\ s.block_header.uncompressed \in {VLI_UNKNOWN, Len(Contents(DataOf(d, k)))}
         /\ s.block_header.size = Len(BlockHeader(d.blocks[k + 1]))
         /\ ~(NowCompressed > s.block_header.compressed)
         /\ ~(NowUncompressed > s.block_header.uncompressed)
<1>1. /\ Decodes(d, s, b, k, i) /\ Counts(d, s, b, k, s.in_start, s.out_start) /\ s.check_type = d.check
  BY DEF InBlock, BlocksDone
<1>2. i \in 0..Len(DataOf(d, k)) /\ b.in_pos = DataAt(d, k) + i
  BY <1>1 DEF Decodes, DataOf
<1>3. PICK o \in Seq(Byte) : o = b.out
  BY InGoodIs
<1>4. PICK l \in Nat, a \in Nat, m \in Nat : l = Len(DataOf(d, k)) /\ a = DataAt(d, k) /\ m = Len(ContentTo(d, k))
  BY InGoodIs, DataIs
<1>5. PICK n \in Nat, q \in Nat, p \in Nat : n = Len(o) /\ q = s.out_start /\ p = s.in_start
  <2>1. s.out_start \in Nat /\ s.in_start \in Nat /\ Len(o) \in Nat
    BY InGoodIs DEF DecoderType
  <2>2. QED
    BY <2>1
<1>6. /\ p \in a..(a + i) /\ s.block.compressed = p - a
      /\ q \in m..n /\ s.block.uncompressed = q - m
      /\ s.crc = IF d.check = XZ_CHECK_CRC32 THEN CrcFrom(o, m, q, 0) ELSE 0
  BY <1>1, <1>2, <1>3, <1>4, <1>5 DEF Counts, CrcFrom
<1>7. i \in Nat /\ NowCompressed = i
  <2>1. i \in Nat
    BY <1>2, <1>4
  <2>2. (p - a) + (a + i) - p = i
    BY <1>4, <1>5, <2>1
  <2>3. QED
    BY <1>2, <1>4, <1>5, <1>6, <2>1, <2>2 DEF NowCompressed
<1>8. NowUncompressed = n - m /\ n - m \in Nat
  <2>1. (q - m) + n - q = n - m /\ n - m \in Nat
    BY <1>6, Differences
  <2>2. QED
    BY <1>3, <1>5, <1>6, <2>1 DEF NowUncompressed
<1>9. NowCrc = IF d.check = XZ_CHECK_CRC32 THEN CrcFrom(o, m, n, 0) ELSE 0
  <2>1. CASE d.check = XZ_CHECK_CRC32
    <3>1. m <= q /\ q <= n /\ n <= Len(o)
      BY <1>5, <1>6, Differences
    <3>2. CrcFrom(o, q, n, CrcFrom(o, m, q, 0)) = CrcFrom(o, m, n, 0)
      BY <3>1, CrcOver
    <3>3. NowCrc = CrcFrom(o, q, n, CrcFrom(o, m, q, 0))
      BY <1>1, <1>3, <1>5, <1>6, <2>1 DEF NowCrc, CrcFrom
    <3>4. QED
      BY <2>1, <3>2, <3>3
  <2>2. CASE d.check # XZ_CHECK_CRC32
    BY <1>1, <1>6, <2>2 DEF NowCrc
  <2>3. QED
    BY <2>1, <2>2
<1>10. PICK blk : blk = d.blocks[k + 1]
  OBVIOUS
<1>11. /\ blk.compressed \in {VLI_UNKNOWN, Len(blk.data)} /\ Len(blk.data) \in Vli
       /\ blk.uncompressed \in {VLI_UNKNOWN, Len(Contents(blk.data))} /\ Len(Contents(blk.data)) \in Vli
  <2>1. GoodStream(d)
    BY InGoodIs
  <2>2. QED
    BY <1>10, <2>1, GoodSizesAre
<1>12. blk.data = DataOf(d, k)
  BY <1>10 DEF DataOf
<1>13. /\ s.block_header.compressed = blk.compressed /\ s.block_header.uncompressed = blk.uncompressed
       /\ s.block_header.size = Len(BlockHeader(blk))
  BY <1>10 DEF InBlock
<1>14. ~(NowCompressed > s.block_header.compressed)
  <2>1. l \in 0..63 /\ i <= l
    <3>1. l \in Vli
      BY <1>4, <1>11, <1>12
    <3>2. i <= l
      BY <1>2, <1>4
    <3>3. QED
      BY <3>1, <3>2 DEF Vli, VLI_UNKNOWN
  <2>2. blk.compressed = 64 \/ blk.compressed = l
    BY <1>4, <1>11, <1>12 DEF VLI_UNKNOWN
  <2>3. ~(i > blk.compressed)
    BY <1>7, <2>1, <2>2
  <2>4. QED
    BY <1>7, <1>13, <2>3
<1>15. ~(NowUncompressed > s.block_header.uncompressed)
  <2>1. PICK rest \in Seq(Byte) : ContentTo(d, k + 1) = b.out \o rest
    BY <1>1, InGoodIs, OutIs
  <2>2. Len(ContentTo(d, k + 1)) = n + Len(rest) /\ Len(rest) \in Nat
    <3>1. ContentTo(d, k + 1) = o \o rest
      BY <1>3, <2>1
    <3>2. QED
      BY <1>5, <3>1, ConcatIs
  <2>3. PICK z \in 0..63 : z = Len(Contents(DataOf(d, k)))
    BY <1>11, <1>12 DEF Vli, VLI_UNKNOWN
  <2>4. Len(ContentTo(d, k + 1)) = m + z
    BY <1>4, <2>3, InGoodIs, ContentGrows
  <2>5. n - m <= z
    BY <1>4, <1>5, <2>3, <2>2, <2>4
  <2>6. blk.uncompressed = 64 \/ blk.uncompressed = z
    BY <1>11, <1>12, <2>3 DEF VLI_UNKNOWN
  <2>7. ~(n - m > blk.uncompressed)
    <3>1. ASSUME NEW e \in Nat, NEW v \in 0..63, e <= v, NEW u, u = 64 \/ u = v PROVE ~(e > u)
      BY <3>1
    <3>2. n - m \in Nat
      BY <1>8
    <3>3. QED
      BY <2>3, <2>5, <2>6, <3>1, <3>2
  <2>8. QED
    BY <1>8, <1>13, <2>7
<1>16. QED
  BY <1>3, <1>4, <1>5, <1>7, <1>8, <1>9, <1>10, <1>11, <1>12, <1>13, <1>14, <1>15 DEF CrcFrom

\* What dec_block() has counted when the filters return is what has come and gone.
LEMMA CountedIs ==
  ASSUME NEW d, InGood(d), NowCompressed \in Nat, NowUncompressed \in Nat
  PROVE  /\ Counted.sequence = s.sequence /\ Counted.pos = s.pos /\ Counted.block_header = s.block_header
         /\ Counted.check_type = s.check_type /\ Counted.index = s.index /\ Counted.filter = s.filter
         /\ Counted.crc = NowCrc
         /\ Counted.block = [s.block EXCEPT !.compressed = NowCompressed, !.uncompressed = NowUncompressed]
         /\ Counted.block.compressed = NowCompressed /\ Counted.block.uncompressed = NowUncompressed
         /\ Counted.block.count = s.block.count /\ Counted.block.hash = s.block.hash
<1>1. PICK c : c = [s.block EXCEPT !.compressed = NowCompressed, !.uncompressed = NowUncompressed]
  OBVIOUS
<1>2. Counted = [s EXCEPT !.block = c, !.crc = NowCrc]
  BY <1>1 DEF Counted
<1>3. /\ Counted.sequence = s.sequence /\ Counted.pos = s.pos /\ Counted.block_header = s.block_header
      /\ Counted.check_type = s.check_type /\ Counted.index = s.index /\ Counted.filter = s.filter
      /\ Counted.crc = NowCrc /\ Counted.block = c
  BY <1>2, InGoodIs DEF DecoderType
<1>4. c.compressed = NowCompressed /\ c.uncompressed = NowUncompressed /\ c.count = s.block.count /\ c.hash = s.block.hash
  BY <1>1, InGoodIs DEF DecoderType, CountsType
<1>5. QED
  BY <1>1, <1>3, <1>4

\* A pause within a good Block counts no byte twice and loses none.
LEMMA FilterPausesGood ==
  ASSUME NEW d, InGood(d), FilterPauses
  PROVE  GoodOutcome(d)
<1>1. At("SEQ_BLOCK_UNCOMPRESS") /\ BlockReturn(s, b, "XZ_OK")
  BY DEF FilterPauses
<1>2. PICK k \in 0..(Len(d.blocks) - 1), i \in 0..b.in_pos :
           InBlock(d, s, b, s.in_start, s.out_start, k, i) /\ Decodes(d, s, b, k, i) /\ b.in_pos = DataAt(d, k) + i
  BY <1>1, InBlockIs
<1>3. /\ i \in Nat /\ NowCompressed = i
      /\ NowUncompressed = Len(b.out) - Len(ContentTo(d, k)) /\ NowUncompressed \in Nat
      /\ NowCrc = IF d.check = XZ_CHECK_CRC32
                       THEN xz_crc32(SubSeq(b.out, Len(ContentTo(d, k)) + 1, Len(b.out)), 0) ELSE 0
      /\ ~(NowCompressed > s.block_header.compressed) /\ ~(NowUncompressed > s.block_header.uncompressed)
  BY <1>1, <1>2, CountsAre
<1>4. Return(Counted, b, "XZ_OK")
  BY <1>1, <1>3, Zenon DEF BlockReturn, Counted, NowCompressed, NowUncompressed, NowCrc
<1>5. /\ Counted.sequence = s.sequence /\ Counted.pos = s.pos /\ Counted.block_header = s.block_header
      /\ Counted.check_type = s.check_type /\ Counted.index = s.index /\ Counted.filter = s.filter
      /\ Counted.crc = NowCrc
      /\ Counted.block.compressed = NowCompressed /\ Counted.block.uncompressed = NowUncompressed
      /\ Counted.block.count = s.block.count /\ Counted.block.hash = s.block.hash
  BY <1>3, CountedIs, SMTT(30)
<1>6. Decodes(d, Counted, b, k, i)
  BY <1>2, <1>5 DEF Decodes
<1>7. Counts(d, Counted, b, k, b.in_pos, Len(b.out))
  <2>1. /\ DataAt(d, k) \in Nat /\ Len(ContentTo(d, k)) \in Nat /\ Len(b.out) \in Nat
    BY InGoodIs, DataIs
  <2>2. b.in_pos \in DataAt(d, k)..b.in_pos /\ b.in_pos - DataAt(d, k) = i
    BY <1>2, <1>3, <2>1
  <2>3. Len(b.out) \in Len(ContentTo(d, k))..Len(b.out)
    BY <1>3, <2>1
  <2>4. QED
    BY <1>3, <1>5, <2>2, <2>3 DEF Counts
<1>8. InBlock(d, Counted, b, b.in_pos, Len(b.out), k, i)
  BY <1>2, <1>5, <1>6, <1>7 DEF InBlock, BlocksDone, Fresh
<1>9. Follows(d, Counted, b, b.in_pos, Len(b.out))
  BY <1>8 DEF Follows
<1>10. QED
  BY <1>4, <1>9 DEF GoodOutcome

\* At the end of a Block its sizes are entered into the hash.
NowUnpadded == s.block.hash.unpadded + s.block_header.size + NowCompressed + CheckSize(s.check_type)
NowTotal == s.block.hash.uncompressed + NowUncompressed
Hashed ==
  [Counted EXCEPT !.block.hash = [unpadded |-> NowUnpadded, uncompressed |-> NowTotal,
                                  crc32 |-> Append(@.crc32, <<NowUnpadded, NowTotal>>)],
                  !.block.count = @ + 1, !.sequence = "SEQ_BLOCK_PADDING"]

\* When its data is at its end, all of a Block's content is out.
LEMMA BlockEnds ==
  ASSUME BlockReturn(s, b, "XZ_STREAM_END"),
         ~(NowCompressed > s.block_header.compressed), ~(NowUncompressed > s.block_header.uncompressed),
         s.block_header.compressed \in {VLI_UNKNOWN, NowCompressed},
         s.block_header.uncompressed \in {VLI_UNKNOWN, NowUncompressed}
  PROVE  Continue(Hashed, b)
<1> DEFINE toomuch == NowCompressed > s.block_header.compressed \/ NowUncompressed > s.block_header.uncompressed
           differs == \/ s.block_header.compressed \notin {VLI_UNKNOWN, NowCompressed}
                      \/ s.block_header.uncompressed \notin {VLI_UNKNOWN, NowUncompressed}
<1>1. IF toomuch THEN Return(Counted, b, "XZ_DATA_ERROR")
      ELSE IF "XZ_STREAM_END" # "XZ_STREAM_END" THEN Return(Counted, b, "XZ_STREAM_END")
      ELSE IF differs THEN Return(Counted, b, "XZ_DATA_ERROR")
      ELSE Continue(Hashed, b)
  BY Zenon DEF BlockReturn, Hashed, Counted, NowCompressed, NowUncompressed, NowCrc, NowUnpadded, NowTotal
<1>2. ~toomuch /\ ~differs
  BY Zenon
<1> HIDE DEF toomuch, differs
<1>3. QED
  BY <1>1, <1>2

\* A good Block adds its Record to the hash.
LEMMA HashedIs ==
  ASSUME NEW d, InGood(d), NowCompressed \in Nat, NowUncompressed \in Nat
  PROVE  /\ Hashed.sequence = "SEQ_BLOCK_PADDING" /\ Hashed.pos = s.pos
         /\ Hashed.check_type = s.check_type /\ Hashed.index = s.index /\ Hashed.crc = NowCrc
         /\ Hashed.block.compressed = NowCompressed /\ Hashed.block.count = s.block.count + 1
         /\ Hashed.block.hash = [unpadded |-> NowUnpadded, uncompressed |-> NowTotal,
                                 crc32 |-> Append(s.block.hash.crc32, <<NowUnpadded, NowTotal>>)]
<1>1. PICK h : h = [unpadded |-> NowUnpadded, uncompressed |-> NowTotal,
                    crc32 |-> Append(s.block.hash.crc32, <<NowUnpadded, NowTotal>>)]
  OBVIOUS
<1>2. PICK c : c = [s.block EXCEPT !.compressed = NowCompressed, !.uncompressed = NowUncompressed]
  OBVIOUS
<1>3. c.compressed = NowCompressed /\ c.count = s.block.count /\ c.hash = s.block.hash /\ c \in CountsType
  BY <1>2, InGoodIs DEF DecoderType, CountsType
<1>4. PICK m : m = [[c EXCEPT !.hash = h] EXCEPT !.count = @ + 1]
  OBVIOUS
<1>5. m.compressed = NowCompressed /\ m.count = s.block.count + 1 /\ m.hash = h
  BY <1>3, <1>4 DEF CountsType
<1>6. Counted = [s EXCEPT !.block = c, !.crc = NowCrc]
  BY <1>2 DEF Counted
<1>7. PICK x : x = Counted
  OBVIOUS
<1>8. /\ x.block = c /\ x.crc = NowCrc /\ x.pos = s.pos /\ x.check_type = s.check_type /\ x.index = s.index
      /\ DOMAIN x = DOMAIN s
  BY <1>6, <1>7, InGoodIs DEF DecoderType
<1>9. Hashed = [x EXCEPT !.block = m, !.sequence = "SEQ_BLOCK_PADDING"]
  <2>1. Hashed = [x EXCEPT !.block = [[x.block EXCEPT !.hash =
                     [unpadded |-> NowUnpadded, uncompressed |-> NowTotal,
                      crc32 |-> Append(x.block.hash.crc32, <<NowUnpadded, NowTotal>>)]] EXCEPT !.count = @ + 1],
                   !.sequence = "SEQ_BLOCK_PADDING"]
    BY <1>3, <1>7, <1>8, InGoodIs DEF Hashed, DecoderType, CountsType
  <2>2. QED
    BY <1>1, <1>3, <1>4, <1>8, <2>1
<1>10. /\ Hashed.sequence = "SEQ_BLOCK_PADDING" /\ Hashed.pos = x.pos
       /\ Hashed.check_type = x.check_type /\ Hashed.index = x.index /\ Hashed.crc = x.crc
       /\ Hashed.block = m
  <2>1. DOMAIN x = DOMAIN [sequence |-> 0, pos |-> 0, vli |-> 0, crc |-> 0,
   in_start |-> 0, out_start |-> 0, check_type |-> 0, allow_buf_error |-> FALSE,
   block_header |-> 0, block |-> 0, index |-> 0, temp |-> 0, bcj_active |-> FALSE, filter |-> 0]
    BY <1>8, InGoodIs DEF DecoderType
  <2>2. QED
    BY <1>9, <2>1
<1>11. QED
  BY <1>1, <1>5, <1>8, <1>10

\* Sizes that add up to the first number of a Record.
LEMMA SumOf ==
  ASSUME NEW g \in Nat, NEW h \in Nat, NEW m \in Nat, NEW c \in Nat
  PROVE  g + h + m + c = g + (h + m + c) /\ h + m + c = 0 + (h + m + c) /\ h + m + c \in Nat
OBVIOUS

\* The sizes of a good Block are those that its header declares.
LEMMA WholeIs ==
  ASSUME NEW u \in Seq(Byte), NEW v \in Seq(Byte), NEW w, Joins(u, v, w)
  PROVE  SubSeq(w, Len(u) + 1, Len(w)) = v
<1>1. PICK m \in Nat, n \in Nat : m = Len(u) /\ n = Len(w)
  BY ConcatIs DEF Joins
<1>2. PICK l \in Nat : l = Len(v)
  OBVIOUS
<1>3. /\ w \in Seq(Byte) /\ n = m + l /\ \A i \in 1..l : w[m + i] = v[i]
  BY <1>1, <1>2, ConcatIs DEF Joins
<1>4. PICK z : z = SubSeq(w, m + 1, n)
  OBVIOUS
<1>5. m <= n /\ n <= Len(w) /\ n - m = l
  BY <1>1, <1>3
<1>6. z \in Seq(Byte) /\ Len(z) = l /\ \A i \in 1..l : z[i] = w[m + i]
  BY <1>3, <1>4, <1>5, PieceIs
<1>7. z = v
  <2>1. \A i \in 1..Len(v) : z[i] = v[i]
    BY <1>2, <1>3, <1>6
  <2>2. QED
    BY <1>2, <1>6, <2>1, SeqEqual
<1>8. QED
  BY <1>1, <1>4, <1>7

\* When the filters have ended all of the data is read and its contents are put out.
LEMMA EndIs ==
  ASSUME NEW d, InGood(d), At("SEQ_BLOCK_UNCOMPRESS"), s.filter.ended, s.filter.ready = <<>>,
         NEW k \in 0..(Len(d.blocks) - 1), NEW i,
         Decodes(d, s, b, k, i), s.filter.ended = (i = Len(DataOf(d, k)))
  PROVE  i = Len(DataOf(d, k)) /\ b.out = ContentTo(d, k + 1)
<1>1. i = Len(DataOf(d, k)) /\ s.filter.left = 0
  <2>1. s.filter.left > 0 => ~s.filter.ended
    BY DEF Decodes
  <2>2. s.filter.left \in Nat
    BY FilterIs
  <2>3. i = Len(DataOf(d, k))
    OBVIOUS
  <2>4. ~(s.filter.left > 0)
    BY <2>1
  <2>5. QED
    BY <2>2, <2>3, <2>4
<1>2. (b.out \o s.filter.ready) \o Repeated(s.filter.byte, s.filter.left)
       = ContentTo(d, k) \o Flat(Chunks(DataOf(d, k)), Least(i, Len(DataOf(d, k)) - 1))
  BY DEF Decodes, DataOf
<1>3. Least(i, Len(DataOf(d, k)) - 1) = Len(DataOf(d, k)) - 1
  <2>1. Len(DataOf(d, k)) \in Nat
    BY InGoodIs, DataIs
  <2>2. QED
    BY <1>1, <2>1 DEF Least
<1>4. ContentTo(d, k) \o Flat(Chunks(DataOf(d, k)), Len(DataOf(d, k)) - 1) = ContentTo(d, k + 1)
  BY InGoodIs, DataIs
<1>5. (b.out \o s.filter.ready) \o Repeated(s.filter.byte, s.filter.left) = b.out
  <2>1. Repeated(s.filter.byte, s.filter.left) = <<>>
    BY <1>1 DEF Repeated
  <2>2. b.out \in Seq(Byte)
    BY InGoodIs
  <2>3. b.out \o <<>> = b.out
    BY <2>2
  <2>4. QED
    BY <2>1, <2>3
<1>6. QED
  BY <1>1, <1>2, <1>3, <1>4, <1>5

\* At the end of a Block its sizes are what the Record says.
LEMMA FilterEndsGood ==
  ASSUME NEW d, InGood(d), FilterEnds
  PROVE  GoodOutcome(d)
<1>1. At("SEQ_BLOCK_UNCOMPRESS") /\ s.filter.ended /\ s.filter.ready = <<>> /\ BlockReturn(s, b, "XZ_STREAM_END")
  BY DEF FilterEnds
<1>2. PICK k \in 0..(Len(d.blocks) - 1), i \in 0..b.in_pos :
           /\ InBlock(d, s, b, s.in_start, s.out_start, k, i) /\ Decodes(d, s, b, k, i)
           /\ b.in_pos = DataAt(d, k) + i /\ s.filter.ended = (i = Len(DataOf(d, k)))
  BY <1>1, InBlockIs
<1>3. i = Len(DataOf(d, k)) /\ b.out = ContentTo(d, k + 1)
  BY <1>1, <1>2, EndIs
<1>4. /\ i \in Nat /\ NowCompressed = i
      /\ NowUncompressed = Len(b.out) - Len(ContentTo(d, k)) /\ NowUncompressed \in Nat
      /\ NowCrc = IF d.check = XZ_CHECK_CRC32
                       THEN xz_crc32(SubSeq(b.out, Len(ContentTo(d, k)) + 1, Len(b.out)), 0) ELSE 0
      /\ s.block_header.compressed \in {VLI_UNKNOWN, Len(DataOf(d, k))}
      /\ s.block_header.uncompressed \in {VLI_UNKNOWN, Len(Contents(DataOf(d, k)))}
      /\ s.block_header.size = Len(BlockHeader(d.blocks[k + 1]))
      /\ ~(NowCompressed > s.block_header.compressed) /\ ~(NowUncompressed > s.block_header.uncompressed)
  BY <1>1, <1>2, CountsAre
<1>5. /\ Contents(DataOf(d, k)) \in Seq(Byte) /\ ContentTo(d, k) \in Seq(Byte)
      /\ Joins(ContentTo(d, k), Contents(DataOf(d, k)), ContentTo(d, k + 1))
      /\ Len(ContentTo(d, k + 1)) = Len(ContentTo(d, k)) + Len(Contents(DataOf(d, k)))
      /\ Len(ContentTo(d, k)) \in Nat /\ Len(Contents(DataOf(d, k))) \in Vli
  BY InGoodIs, ContentGrows
<1>6. NowUncompressed = Len(Contents(DataOf(d, k)))
  BY <1>3, <1>4, <1>5 DEF Vli, VLI_UNKNOWN
<1>7. NowCrc = BlockCrc(d, k)
  <2>1. SubSeq(b.out, Len(ContentTo(d, k)) + 1, Len(b.out)) = Contents(DataOf(d, k))
    BY <1>3, <1>5, WholeIs
  <2>2. QED
    BY <1>4, <2>1 DEF BlockCrc, DataOf
<1>8. Continue(Hashed, b)
  BY <1>1, <1>3, <1>4, <1>6, BlockEnds
<1>9. /\ Hashed.sequence = "SEQ_BLOCK_PADDING" /\ Hashed.pos = s.pos
      /\ Hashed.check_type = s.check_type /\ Hashed.index = s.index /\ Hashed.crc = NowCrc
      /\ Hashed.block.compressed = NowCompressed /\ Hashed.block.count = s.block.count + 1
      /\ Hashed.block.hash = [unpadded |-> NowUnpadded, uncompressed |-> NowTotal,
                              crc32 |-> Append(s.block.hash.crc32, <<NowUnpadded, NowTotal>>)]
  BY <1>4, HashedIs
<1>10. /\ s.check_type = d.check /\ s.block.count = k /\ HashIs(s.block.hash, d.records, k, 0)
       /\ Fresh(s) /\ s.pos = 0
  BY <1>2 DEF InBlock, BlocksDone
<1>11. HashIs(Hashed.block.hash, d.records, k + 1, 0)
  <2>1. PICK m : m = s.block_header.size + NowCompressed + CheckSize(s.check_type)
    OBVIOUS
  <2>2. PICK h : h = s.block.hash
    OBVIOUS
  <2>3. h.unpadded \in Nat /\ h.uncompressed \in Nat
    BY <2>2, InGoodIs DEF DecoderType, CountsType, HashType
  <2>4. s.block_header.size \in Nat /\ CheckSize(s.check_type) \in Nat
    BY InGoodIs DEF DecoderType, HeaderType, CheckSize, CHECK_BYTES
  <2>5. m \in Nat /\ NowUnpadded = h.unpadded + m /\ m = 0 + m
    <3>1. PICK z \in Nat, c \in Nat, w \in Nat :
             z = s.block_header.size /\ c = CheckSize(s.check_type) /\ w = NowCompressed
      BY <1>4, <2>4
    <3>2. PICK g \in Nat : g = h.unpadded
      BY <2>3
    <3>3. m = z + w + c /\ NowUnpadded = g + z + w + c
      BY <2>1, <2>2, <3>1, <3>2 DEF NowUnpadded
    <3>4. g + z + w + c = g + (z + w + c) /\ z + w + c = 0 + (z + w + c) /\ z + w + c \in Nat
      <4>1. z \in Nat /\ w \in Nat /\ c \in Nat /\ g \in Nat
        BY <3>1, <3>2, Zenon
      <4>2. QED
        BY <4>1
    <3>5. m \in Nat /\ NowUnpadded = g + m /\ m = 0 + m
      BY <3>3, <3>4, Zenon
    <3>6. QED
      BY <3>2, <3>5
  <2>6. d.records[k + 1][1] = 0 + m /\ d.records[k + 1][2] = NowUncompressed
    <3>1. d.records[k + 1][1] = Len(BlockHeader(d.blocks[k + 1])) + Len(DataOf(d, k)) + CheckSize(d.check)
      BY InGoodIs, GoodSizesAre DEF DataOf
    <3>2. d.records[k + 1][2] = Len(Contents(DataOf(d, k)))
      BY InGoodIs, GoodSizesAre DEF DataOf
    <3>3. m = Len(BlockHeader(d.blocks[k + 1])) + Len(DataOf(d, k)) + CheckSize(d.check)
      BY <1>3, <1>4, <1>10, <2>1
    <3>4. QED
      BY <1>6, <2>5, <3>1, <3>2, <3>3
  <2>7. HashIs([unpadded |-> h.unpadded + m, uncompressed |-> h.uncompressed + NowUncompressed,
                crc32 |-> Append(h.crc32, <<h.unpadded + m, h.uncompressed + NowUncompressed>>)],
               d.records, k + 1, 0)
    <3>1. PICK v \in Nat : v = NowUncompressed
      BY <1>4
    <3>2. HashIs(h, d.records, k, 0) /\ k \in Nat
      BY <1>10, <2>2
    <3>3. 0 \in Nat
      OBVIOUS
    <3>4. QED
      BY <2>5, <2>6, <3>1, <3>2, <3>3, HashAppends, Zenon
  <2>8. NowTotal = h.uncompressed + NowUncompressed
    BY <2>2 DEF NowTotal
  <2>9. QED
    BY <1>9, <2>2, <2>5, <2>7, <2>8
<1>12. BlocksDone(d, Hashed, k + 1) /\ Fresh(Hashed)
  BY <1>9, <1>10, <1>11 DEF BlocksDone, Fresh
<1>13. InBlockPadding(d, Hashed, b, k, 0)
  <2>1. /\ DataAt(d, k) \in Nat /\ Len(DataOf(d, k)) \in Nat
        /\ DataAt(d, k) + Len(DataOf(d, k)) <= PaddedTo(d, k)
    BY InGoodIs, DataIs
  <2>2. Len(DataOf(d, k)) + 0 = Len(DataOf(d, k))
    BY <2>1
  <2>3. Hashed.block.compressed = Len(DataOf(d, k)) + 0 /\ b.in_pos = DataAt(d, k) + (Len(DataOf(d, k)) + 0)
        /\ b.in_pos <= PaddedTo(d, k)
    BY <1>2, <1>3, <1>4, <1>9, <2>1, <2>2
  <2>4. QED
    BY <1>3, <1>7, <1>9, <1>10, <1>12, <2>3 DEF InBlockPadding, DataOf
<1>14. Follows(d, Hashed, b, Hashed.in_start, Hashed.out_start)
  BY <1>13 DEF Follows
<1>15. QED
  BY <1>8, <1>14 DEF GoodOutcome

-----------------------------------------------------------------------------
(* What follows the data of a good Block.                                  *)

\* A step of a good stream that does not return.
LEMMA GoesOn ==
  ASSUME NEW d, NEW x, NEW buf, Continue(x, buf), Follows(d, x, buf, x.in_start, x.out_start)
  PROVE  GoodOutcome(d)
BY DEF GoodOutcome

\* The padding of a Block is there as long as its size is not a multiple of four.
LEMMA PaddingIs ==
  ASSUME NEW d, GoodStream(d), NEW k \in 0..(Len(d.blocks) - 1)
  PROVE  \E l \in 0..3 : /\ PaddedTo(d, k) = DataAt(d, k) + (Len(DataOf(d, k)) + l)
                         /\ (Len(DataOf(d, k)) + l) % 4 = 0
                         /\ \A m \in Nat : m < l => (Len(DataOf(d, k)) + m) % 4 # 0
                         /\ \A m \in 1..l : Encode(d)[DataAt(d, k) + (Len(DataOf(d, k)) + m)] = 0
<1>1. PICK blk : blk = d.blocks[k + 1]
  OBVIOUS
<1>2. PICK u \in Seq(Byte) : u = DataOf(d, k) /\ u = blk.data
  BY <1>1, DataIs DEF DataOf
<1>3. 0 \in Byte
  BY DEF Byte
<1>4. PICK l \in 0..3 : /\ Pad(u, 0) = u \o Repeated(0, l) /\ Pad(u, 0) \in Seq(Byte)
                        /\ Len(Pad(u, 0)) = Len(u) + l /\ Len(Pad(u, 0)) % 4 = 0
                        /\ \A m \in Nat : m < l => (Len(u) + m) % 4 # 0
                        /\ Lies(Pad(u, 0), Len(u), Repeated(0, l))
  BY <1>3, PadIs
<1>5. PaddedTo(d, k) = DataAt(d, k) + Len(Pad(u, 0)) /\ Lies(Encode(d), DataAt(d, k), Pad(u, 0))
  BY <1>1, <1>2, GoodBlockIs, SMTT(30)
<1>6. Lies(Encode(d), DataAt(d, k) + Len(u), Repeated(0, l))
  <2>1. /\ Encode(d) \in Seq(Byte) /\ DataAt(d, k) \in Nat /\ Len(u) \in Nat
        /\ Repeated(0, l) \in Seq(Byte)
    <3>1. Encode(d) \in Seq(Byte)
      BY GoodStreamIs
    <3>2. DataAt(d, k) \in Nat /\ Len(u) \in Nat
      BY <1>2, DataIs
    <3>3. l \in Nat /\ Repeated(0, l) \in Seq(Byte)
      <4>1. l \in Nat
        BY <1>4
      <4>2. QED
        BY <1>3, <4>1, RepeatedIs
    <3>4. QED
      BY <3>1, <3>2, <3>3
  <2>2. QED
    BY <1>4, <1>5, <2>1, LiesWithin
<1>7. ASSUME NEW m \in 1..l PROVE Encode(d)[DataAt(d, k) + (Len(u) + m)] = 0
  <2>1. Len(Repeated(0, l)) = l /\ Repeated(0, l)[m] = 0
    BY <1>3, <1>4, RepeatedIs
  <2>2. Encode(d)[DataAt(d, k) + Len(u) + m] = 0
    BY <1>6, <2>1 DEF Lies
  <2>3. DataAt(d, k) + Len(u) + m = DataAt(d, k) + (Len(u) + m)
    BY <1>2, DataIs, SMTT(30)
  <2>4. QED
    BY <2>2, <2>3
<1>8. QED
  BY <1>2, <1>4, <1>5, <1>7

\* Padding goes on for as long as the size is misaligned.
LEMMA MorePadding ==
  ASSUME NEW c \in Nat, NEW l \in 0..3, NEW n \in 0..3, (c + l) % 4 = 0,
         \A m \in Nat : m < l => (c + m) % 4 # 0, n <= l
  PROVE  /\ (c + n) % 4 # 0 => n < l /\ n + 1 \in 1..l /\ n + 1 \in 0..3
         /\ (c + n) % 4 = 0 => n = l
<1>1. n < l \/ n = l
  OBVIOUS
<1>2. n < l => (c + n) % 4 # 0
  BY <1>1
<1>3. n = l => (c + n) % 4 = 0
  OBVIOUS
<1>4. n < l => n + 1 \in 1..l /\ n + 1 \in 0..3
  OBVIOUS
<1>5. QED
  BY <1>1, <1>2, <1>3, <1>4

\* Block Padding
LEMMA BlockPaddingGood ==
  ASSUME NEW d, InGood(d), BlockPadding
  PROVE  GoodOutcome(d)
<1>1. At("SEQ_BLOCK_PADDING") /\ s.sequence = "SEQ_BLOCK_PADDING"
  BY DEF BlockPadding, At
<1>2. PICK k \in 0..(Len(d.blocks) - 1), n \in 0..3 : InBlockPadding(d, s, b, k, n)
  BY <1>1, InGoodIs, WhichIs
<1>3. PICK c \in Nat, a \in Nat : c = Len(DataOf(d, k)) /\ a = DataAt(d, k)
  BY InGoodIs, DataIs
<1>4. /\ s.pos = 0 /\ s.crc = BlockCrc(d, k) /\ s.block.compressed = c + n /\ b.in_pos = a + (c + n)
      /\ b.in_pos <= PaddedTo(d, k) /\ b.out = ContentTo(d, k + 1) /\ BlocksDone(d, s, k + 1) /\ Fresh(s)
  BY <1>2, <1>3 DEF InBlockPadding, DataOf
<1>5. PICK l \in 0..3 : /\ PaddedTo(d, k) = a + (c + l) /\ (c + l) % 4 = 0
                        /\ \A m \in Nat : m < l => (c + m) % 4 # 0
                        /\ \A m \in 1..l : Encode(d)[a + (c + m)] = 0
  BY <1>3, InGoodIs, PaddingIs, ZenonT(60)
<1>6. n <= l
  <2>1. a + (c + n) <= a + (c + l)
    BY <1>4, <1>5
  <2>2. QED
    BY <1>3, <2>1
<1>7. CASE ~Misaligned
  <2>1. PICK x : x = [s EXCEPT !.sequence = "SEQ_BLOCK_CHECK"]
    OBVIOUS
  <2>2. Continue(x, b)
    BY <1>7, <2>1, Zenon DEF BlockPadding
  <2>3. /\ x.sequence = "SEQ_BLOCK_CHECK" /\ x.crc = s.crc /\ x.pos = s.pos /\ x.check_type = s.check_type
        /\ x.block = s.block /\ x.index = s.index
    BY <2>1, InGoodIs DEF DecoderType
  <2>4. b.in_pos = PaddedTo(d, k) + 0
    <3>1. (c + n) % 4 = 0
      BY <1>4, <1>7 DEF Misaligned
    <3>2. n = l
      BY <1>5, <1>6, <3>1, MorePadding
    <3>3. a + (c + l) = a + (c + l) + 0
      OBVIOUS
    <3>4. QED
      BY <1>4, <1>5, <3>2, <3>3
  <2>5. InBlockCheck(d, x, b, k)
    BY <1>4, <2>3, <2>4 DEF InBlockCheck, BlocksDone, Fresh
  <2>6. Follows(d, x, b, x.in_start, x.out_start)
    BY <2>5 DEF Follows
  <2>7. QED
    BY <2>2, <2>6, GoesOn
<1>8. CASE Misaligned
  <2>1. More
    BY <1>8, Zenon DEF BlockPadding
  <2>2. n + 1 \in 1..l /\ n + 1 \in 0..3
    <3>1. (c + n) % 4 # 0
      BY <1>4, <1>8 DEF Misaligned
    <3>2. QED
      BY <1>5, <1>6, <3>1, MorePadding
  <2>3. b.in_pos + 1 = a + (c + (n + 1))
    BY <1>4
  <2>4. Next1 = 0
    BY <1>5, <2>1, <2>2, <2>3, NextIs
  <2>5. PICK y : y = [s.block EXCEPT !.compressed = @ + 1]
    OBVIOUS
  <2>6. y.compressed = s.block.compressed + 1 /\ y.count = s.block.count /\ y.hash = s.block.hash
    BY <2>5, InGoodIs DEF DecoderType, CountsType
  <2>7. PICK x : x = [s EXCEPT !.block = y]
    OBVIOUS
  <2>8. Continue(x, Taken(1))
    <3>1. Continue([s EXCEPT !.block.compressed = @ + 1], Taken(1))
      BY <1>8, <2>4, Zenon DEF BlockPadding
    <3>2. x = [s EXCEPT !.block.compressed = @ + 1]
      BY <2>5, <2>7
    <3>3. QED
      BY <3>1, <3>2
  <2>9. /\ x.sequence = "SEQ_BLOCK_PADDING" /\ x.crc = s.crc /\ x.pos = s.pos /\ x.check_type = s.check_type
        /\ x.block = y /\ x.index = s.index
    BY <1>1, <2>7, InGoodIs DEF DecoderType
  <2>10. PICK buf : buf = Taken(1)
    OBVIOUS
  <2>11. buf.in_pos = a + (c + (n + 1)) /\ buf.out = b.out
    BY <2>1, <2>3, <2>10, NextIs
  <2>12. y.compressed = c + (n + 1)
    BY <1>4, <2>6
  <2>13. buf.in_pos <= PaddedTo(d, k)
    BY <1>5, <2>2, <2>11
  <2>14. PICK j \in 0..3 : j = n + 1
    BY <2>2
  <2>15. InBlockPadding(d, x, buf, k, j)
    BY <1>3, <1>4, <2>6, <2>9, <2>11, <2>12, <2>13, <2>14 DEF InBlockPadding, BlocksDone, Fresh, DataOf
  <2>16. Follows(d, x, buf, x.in_start, x.out_start)
    BY <2>15 DEF Follows
  <2>17. QED
    BY <2>8, <2>10, <2>16, GoesOn
<1>9. QED
  BY <1>7, <1>8

\* What Going() says of the places inside a field.
LEMMA GoingIs ==
  ASSUME NEW d, InGood(d)
  PROVE  /\ s.pos \in Nat /\ s.pos < VLI_BYTES_MAX /\ s.crc \in 0..(CHECK_VALUES - 1) /\ s.crc \in Nat
         /\ s.pos # 0 /\ s.sequence = "SEQ_BLOCK_CHECK" => s.check_type = XZ_CHECK_CRC32
         /\ s.sequence \notin InTemp => s.temp.buf = <<>>
         /\ s.sequence \in {"SEQ_STREAM_HEADER", "SEQ_STREAM_FOOTER"} => s.temp.size = STREAM_HEADER_SIZE
<1>1. Going(s) /\ s \in DecoderType
  BY InGoodIs, InMainIs
<1>2. s.pos \in Nat /\ s.crc \in 0..(CHECK_VALUES - 1) /\ s.crc \in Nat
  BY <1>1 DEF DecoderType, VLI_BYTES_MAX, CHECK_VALUES
<1>3. QED
  BY <1>1, <1>2 DEF Going

\* The check is compared with what lies in the stream.
LEMMA CheckGood ==
  ASSUME NEW d, InGood(d), NEW z, CrcValidate(z), NEW p \in Nat, NEW pos \in Nat, pos = s.pos,
         b.in_pos = p + pos, Lies(Encode(d), p, CrcField(s.crc))
  PROVE  /\ Taken(1).in_pos = p + (pos + 1) /\ Taken(1).out = b.out
         /\ \/ pos = 0 /\ Continue([s EXCEPT !.pos = @ + 1], Taken(1))
            \/ pos = 1 /\ Continue([z EXCEPT !.crc = 0, !.pos = 0], Taken(1))
<1>1. More
  BY DEF CrcValidate
<1>2. pos = 0 \/ pos = 1
  BY GoingIs DEF VLI_BYTES_MAX
<1>3. Next1 = CrcByte(s.crc, pos)
  <2>1. Next1 = Encode(d)[p + (pos + 1)]
    <3>1. p + pos + 1 = p + (pos + 1)
      OBVIOUS
    <3>2. QED
      BY <1>1, <3>1, NextIs
  <2>2. /\ CrcField(s.crc) = <<CrcByte(s.crc, 0), CrcByte(s.crc, 1)>> /\ Len(CrcField(s.crc)) = 2
    BY GoingIs, CrcFieldIs DEF CHECK_BYTES
  <2>3. pos + 1 \in 1..2 /\ CrcField(s.crc)[pos + 1] = CrcByte(s.crc, pos)
    BY <1>2, <2>2
  <2>4. QED
    BY <2>1, <2>2, <2>3 DEF Lies
<1>4. Taken(1).in_pos = p + (pos + 1) /\ Taken(1).out = b.out
  <2>1. p + pos + 1 = p + (pos + 1)
    OBVIOUS
  <2>2. QED
    BY <1>1, <2>1, NextIs
<1>5. IF s.pos + 1 < CHECK_BYTES THEN Continue([s EXCEPT !.pos = @ + 1], Taken(1))
      ELSE Continue([z EXCEPT !.crc = 0, !.pos = 0], Taken(1))
  BY <1>3, Zenon DEF CrcValidate
<1>6. (s.pos + 1 < CHECK_BYTES) = (pos = 0)
  BY <1>2 DEF CHECK_BYTES
<1>7. QED
  BY <1>2, <1>4, <1>5, <1>6

\* Block Check
LEMMA BlockCheckGood ==
  ASSUME NEW d, InGood(d), BlockCheck
  PROVE  GoodOutcome(d)
<1>1. At("SEQ_BLOCK_CHECK") /\ s.sequence = "SEQ_BLOCK_CHECK" /\ s \in DecoderType
  BY InGoodIs DEF BlockCheck, At
<1>2. PICK k \in 0..(Len(d.blocks) - 1) : InBlockCheck(d, s, b, k)
  BY <1>1, InGoodIs, WhichIs
<1>3. PICK p \in Nat, pos \in Nat : p = PaddedTo(d, k) /\ pos = s.pos
  BY InGoodIs, DataIs, GoingIs
<1>4. /\ s.crc = BlockCrc(d, k) /\ b.in_pos = p + pos /\ b.out = ContentTo(d, k + 1)
      /\ BlocksDone(d, s, k + 1) /\ Fresh(s) /\ s.check_type = d.check
  BY <1>2, <1>3 DEF InBlockCheck, BlocksDone
<1>5. /\ BlockAt(d, k + 1) = p + CheckSize(d.check) /\ k + 1 \in 0..Len(d.blocks)
      /\ Lies(Encode(d), p, CheckField(d.blocks[k + 1], d.check))
  BY <1>3, InGoodIs, GoodBlockIs
<1>6. PICK z : z = [s EXCEPT !.sequence = "SEQ_BLOCK_START"]
  OBVIOUS
<1>7. /\ z.sequence = "SEQ_BLOCK_START" /\ z.pos = s.pos /\ z.crc = s.crc /\ z.check_type = s.check_type
      /\ z.block = s.block /\ z.index = s.index /\ z \in DecoderType
  BY <1>1, <1>6 DEF DecoderType, Sequences
<1>8. CASE s.check_type = XZ_CHECK_CRC32
  <2>1. CrcValidate(z)
    BY <1>6, <1>8, Zenon DEF BlockCheck
  <2>2. CheckField(d.blocks[k + 1], d.check) = CrcField(s.crc)
    <3>1. d.blocks[k + 1].error = 0
      BY InGoodIs, GoodSizesAre
    <3>2. QED
      BY <1>4, <1>8, <3>1 DEF CheckField, BlockCrc
  <2>3. /\ Taken(1).in_pos = p + (pos + 1) /\ Taken(1).out = b.out
        /\ \/ pos = 0 /\ Continue([s EXCEPT !.pos = @ + 1], Taken(1))
           \/ pos = 1 /\ Continue([z EXCEPT !.crc = 0, !.pos = 0], Taken(1))
    <3>1. Lies(Encode(d), p, CrcField(s.crc))
      BY <1>4, <1>5, <2>2
    <3>2. b.in_pos = p + pos /\ pos = s.pos
      BY <1>3, <1>4
    <3>3. QED
      BY <2>1, <3>1, <3>2, CheckGood, Zenon
  <2>4. CASE pos = 0 /\ Continue([s EXCEPT !.pos = @ + 1], Taken(1))
    <3>1. PICK x : x = [s EXCEPT !.pos = @ + 1]
      OBVIOUS
    <3>2. /\ x.sequence = s.sequence /\ x.pos = pos + 1 /\ x.crc = s.crc /\ x.check_type = s.check_type
          /\ x.block = s.block /\ x.index = s.index
      BY <1>1, <1>3, <3>1 DEF DecoderType
    <3>3. InBlockCheck(d, x, Taken(1), k)
      BY <1>1, <1>3, <1>4, <2>3, <3>2 DEF InBlockCheck, BlocksDone, Fresh
    <3>4. Follows(d, x, Taken(1), x.in_start, x.out_start)
      BY <3>3 DEF Follows
    <3>5. Continue(x, Taken(1))
      BY <2>4, <3>1
    <3>6. QED
      BY <3>4, <3>5, GoesOn
  <2>5. CASE pos = 1 /\ Continue([z EXCEPT !.crc = 0, !.pos = 0], Taken(1))
    <3>1. PICK x : x = [z EXCEPT !.crc = 0, !.pos = 0]
      OBVIOUS
    <3>2. /\ x.sequence = z.sequence /\ x.pos = 0 /\ x.crc = 0 /\ x.check_type = z.check_type
          /\ x.block = z.block /\ x.index = z.index
      BY <1>7, <3>1 DEF DecoderType
    <3>3. Taken(1).in_pos = BlockAt(d, k + 1)
      BY <1>4, <1>5, <1>8, <2>3, <2>5 DEF CheckSize, CHECK_BYTES
    <3>4. AtBlockStart(d, x, Taken(1), k + 1)
      BY <1>4, <1>7, <2>3, <3>2, <3>3 DEF AtBlockStart, BlocksDone, Fresh
    <3>5. Follows(d, x, Taken(1), x.in_start, x.out_start)
      BY <1>5, <3>4 DEF Follows
    <3>6. Continue(x, Taken(1))
      BY <2>5, <3>1
    <3>7. QED
      BY <3>5, <3>6, GoesOn
  <2>6. QED
    BY <2>3, <2>4, <2>5
<1>9. CASE s.check_type # XZ_CHECK_CRC32
  <2>1. Continue(z, b)
    BY <1>6, <1>9, Zenon DEF BlockCheck
  <2>2. s.pos = 0 /\ s.crc = 0
    BY <1>1, <1>4, <1>9, GoingIs DEF BlockCrc
  <2>3. b.in_pos = BlockAt(d, k + 1)
    BY <1>3, <1>4, <1>5, <1>9, <2>2 DEF CheckSize
  <2>4. AtBlockStart(d, z, b, k + 1)
    BY <1>4, <1>7, <2>2, <2>3 DEF AtBlockStart, BlocksDone, Fresh
  <2>5. Follows(d, z, b, z.in_start, z.out_start)
    BY <1>5, <2>4 DEF Follows
  <2>6. QED
    BY <2>1, <2>5, GoesOn
<1>10. QED
  BY <1>8, <1>9

\* The CRC32 of the Index
LEMMA IndexCrc32Good ==
  ASSUME NEW d, InGood(d), IndexCrc32
  PROVE  GoodOutcome(d)
<1>1. At("SEQ_INDEX_CRC32") /\ s.sequence = "SEQ_INDEX_CRC32" /\ s \in DecoderType
  BY InGoodIs DEF IndexCrc32, At
<1>2. InIndexCrc32(d, s, b)
  BY <1>1, InGoodIs, WhichIs
<1>3. PICK p \in Nat, pos \in Nat : p = IndexAt(d) + Len(EncodeIndex(d)) /\ pos = s.pos
  <2>1. IndexAt(d) \in Nat /\ Len(EncodeIndex(d)) \in Nat
    BY InGoodIs, GoodStreamIs
  <2>2. QED
    BY <2>1, GoingIs
<1>4. /\ s.crc = xz_crc32(EncodeIndex(d), 0) /\ s.index.size = Len(EncodeIndex(d)) /\ s.check_type = d.check
      /\ b.in_pos = p + pos /\ b.out = Content(d)
  BY <1>2, <1>3 DEF InIndexCrc32
<1>5. Lies(Encode(d), p, CrcField(s.crc))
  BY <1>3, <1>4, InGoodIs, IndexBegins
<1>6. PICK y : y = [s.temp EXCEPT !.size = STREAM_HEADER_SIZE]
  OBVIOUS
<1>7. y.size = STREAM_HEADER_SIZE /\ y.buf = <<>> /\ y \in TempType
  BY <1>1, <1>6, GoingIs DEF DecoderType, TempType, InTemp, STREAM_HEADER_SIZE
<1>8. PICK z : z = [s EXCEPT !.temp = y, !.sequence = "SEQ_STREAM_FOOTER"]
  OBVIOUS
<1>9. /\ z.sequence = "SEQ_STREAM_FOOTER" /\ z.check_type = s.check_type /\ z.temp = y
      /\ z.index = s.index /\ z \in DecoderType
  BY <1>1, <1>7, <1>8 DEF DecoderType, Sequences
<1>10. CrcValidate(z)
  <2>1. z = [s EXCEPT !.temp.size = STREAM_HEADER_SIZE, !.sequence = "SEQ_STREAM_FOOTER"]
    BY <1>6, <1>8
  <2>2. QED
    BY <2>1, Zenon DEF IndexCrc32
<1>11. /\ Taken(1).in_pos = p + (pos + 1) /\ Taken(1).out = b.out
       /\ \/ pos = 0 /\ Continue([s EXCEPT !.pos = @ + 1], Taken(1))
          \/ pos = 1 /\ Continue([z EXCEPT !.crc = 0, !.pos = 0], Taken(1))
  BY <1>3, <1>4, <1>5, <1>10, CheckGood, ZenonT(60)
<1>12. CASE pos = 0 /\ Continue([s EXCEPT !.pos = @ + 1], Taken(1))
  <2>1. PICK x : x = [s EXCEPT !.pos = @ + 1]
    OBVIOUS
  <2>2. /\ x.sequence = s.sequence /\ x.pos = pos + 1 /\ x.crc = s.crc /\ x.check_type = s.check_type
        /\ x.index = s.index
    BY <1>1, <1>3, <2>1 DEF DecoderType
  <2>3. InIndexCrc32(d, x, Taken(1))
    BY <1>1, <1>3, <1>4, <1>11, <2>2 DEF InIndexCrc32
  <2>4. Follows(d, x, Taken(1), x.in_start, x.out_start)
    BY <2>3 DEF Follows
  <2>5. Continue(x, Taken(1))
    BY <1>12, <2>1
  <2>6. QED
    BY <2>4, <2>5, GoesOn
<1>13. CASE pos = 1 /\ Continue([z EXCEPT !.crc = 0, !.pos = 0], Taken(1))
  <2>1. PICK x : x = [z EXCEPT !.crc = 0, !.pos = 0]
    OBVIOUS
  <2>2. /\ x.sequence = z.sequence /\ x.pos = 0 /\ x.check_type = z.check_type /\ x.temp = z.temp
        /\ x.index = z.index
    BY <1>9, <2>1 DEF DecoderType
  <2>3. PICK buf : buf = Taken(1)
    OBVIOUS
  <2>4. buf.in_pos = FooterAt(d) + 0
    <3>1. FooterAt(d) = p + CHECK_BYTES /\ FooterAt(d) \in Nat
      BY <1>3, InGoodIs, GoodStreamIs
    <3>2. QED
      BY <1>11, <1>13, <2>3, <3>1 DEF CHECK_BYTES
  <2>5. InBuf(d, x, buf, FooterAt(d))
    <3>1. x.temp.buf = <<>> /\ Len(x.temp.buf) = 0 /\ x.temp.size = STREAM_HEADER_SIZE
      BY <1>7, <1>9, <2>2
    <3>2. 0 < STREAM_HEADER_SIZE
      BY DEF STREAM_HEADER_SIZE
    <3>3. QED
      BY <2>4, <3>1, <3>2 DEF InBuf
  <2>6. InStreamFooter(d, x, buf)
    BY <1>4, <1>9, <1>11, <2>2, <2>3, <2>5 DEF InStreamFooter
  <2>7. Follows(d, x, buf, x.in_start, x.out_start)
    BY <2>6 DEF Follows
  <2>8. Continue(x, buf)
    BY <1>13, <2>1, <2>3
  <2>9. QED
    BY <2>7, <2>8, GoesOn
<1>14. QED
  BY <1>11, <1>12, <1>13

\* A piece of what lies in a sequence.
LEMMA LiesPiece ==
  ASSUME NEW u \in Seq(Byte), NEW w \in Seq(Byte), NEW p \in Nat, Lies(u, p, w), NEW n, n = p + Len(w)
  PROVE  SubSeq(u, p + 1, n) = w /\ n \in Nat /\ p <= n /\ n <= Len(u)
<1>1. PICK l \in Nat : l = Len(w)
  OBVIOUS
<1>2. n \in Nat /\ n = p + l /\ p <= n /\ n - p = l /\ n <= Len(u)
  BY <1>1 DEF Lies
<1>3. PICK z : z = SubSeq(u, p + 1, n)
  OBVIOUS
<1>4. z \in Seq(Byte) /\ Len(z) = l /\ \A i \in 1..l : z[i] = u[p + i]
  BY <1>2, <1>3, PieceIs
<1>5. \A i \in 1..Len(w) : z[i] = w[i]
  BY <1>1, <1>4 DEF Lies
<1>6. z = w
  BY <1>1, <1>4, <1>5, SeqEqual
<1>7. QED
  BY <1>2, <1>3, <1>6

\* Stream Footer
LEMMA StreamFooterGood ==
  ASSUME NEW d, InGood(d), StreamFooter
  PROVE  GoodOutcome(d)
<1>1. /\ s.sequence = "SEQ_STREAM_FOOTER" /\ s.sequence \in InTemp /\ TempFills
      /\ s.temp.size = STREAM_HEADER_SIZE /\ GoodStream(d)
  BY InGoodIs, GoingIs DEF StreamFooter, At, InTemp
<1>2. InStreamFooter(d, s, b)
  BY <1>1, InGoodIs, WhichIs
<1>3. /\ s.index.size = Len(EncodeIndex(d)) /\ s.check_type = d.check
      /\ InBuf(d, s, b, FooterAt(d)) /\ b.out = Content(d)
  BY <1>2 DEF InStreamFooter
<1>4. FooterAt(d) \in Nat /\ Len(EncodeIndex(d)) \in Nat /\ Len(Encode(d)) = FooterAt(d) + STREAM_HEADER_SIZE
  BY <1>1, GoodStreamIs
<1>5. /\ TempFilled \in Seq(Byte) /\ Len(TempFilled) = STREAM_HEADER_SIZE
      /\ \A i \in 1..STREAM_HEADER_SIZE : TempFilled[i] = Encode(d)[FooterAt(d) + i]
      /\ Taken(Missing).in_pos = Len(Encode(d)) /\ Taken(Missing).out = b.out
  BY <1>1, <1>3, <1>4, FilledIs
<1>6. d \in StreamType /\ BackwardSize(d) \in Byte /\ d.backward = 0 /\ d.footcheck = d.check
  BY <1>1 DEF GoodStream
<1>7. PICK F : F = EncodeFooter(d)
  OBVIOUS
<1>8. /\ F \in Seq(Byte) /\ Len(F) = STREAM_HEADER_SIZE
      /\ SubSeq(F, 1, 2) = CrcField(xz_crc32(SubSeq(F, 3, 4), 0))
      /\ F[3] = BackwardSize(d) /\ F[4] = d.footcheck /\ SubSeq(F, 5, 5) = FOOTER_MAGIC
  BY <1>6, <1>7, FooterFieldsAre
<1>9. Lies(Encode(d), FooterAt(d), F)
  BY <1>6, <1>7, EncodeIs
<1>10. TempFilled = F
  <2>1. \A i \in 1..Len(F) : TempFilled[i] = F[i]
    BY <1>5, <1>8, <1>9 DEF Lies
  <2>2. QED
    BY <1>5, <1>8, <2>1, SeqEqual
<1>11. BackwardSize(d) = s.index.size \div 4
  <2>1. Len(EncodeIndex(d)) \div 4 \in Nat
    BY <1>4
  <2>2. QED
    BY <1>3, <1>6, <2>1 DEF BackwardSize
<1>12. FooterOK(TempFilled)
  BY <1>3, <1>6, <1>8, <1>10, <1>11 DEF FooterOK
<1>13. PICK x : x = [s EXCEPT !.temp.buf = <<>>]
  OBVIOUS
<1>14. Return(x, Taken(Missing), "XZ_STREAM_END")
  BY <1>12, <1>13, Zenon DEF StreamFooter
<1>15. QED
  BY <1>3, <1>5, <1>14, Zenon DEF GoodOutcome

\* Pauses that change nothing.
LEMMA PauseGood ==
  ASSUME NEW d, InGood(d), Return(s, b, "XZ_OK"),
         s.sequence \in {"SEQ_BLOCK_START", "SEQ_INDEX_CRC32", "SEQ_BLOCK_PADDING", "SEQ_BLOCK_CHECK"}
  PROVE  GoodOutcome(d)
<1>1. Follows(d, s, b, s.in_start, s.out_start)
  BY InGoodIs
<1>2. Follows(d, s, b, b.in_pos, Len(b.out))
  BY <1>1, WhichIs DEF Follows
<1>3. QED
  BY <1>2 DEF GoodOutcome

\* What a call has read of the Index is added to its size and to its check.
LEMMA UpdatedGood ==
  ASSUME NEW d, InGood(d), AtIndex(d, s, b, s.in_start)
  PROVE  LET x == Updated(s, b) IN
         /\ AtIndex(d, x, b, b.in_pos)
         /\ x.pos = s.pos /\ x.sequence = s.sequence /\ x.vli = s.vli /\ x \in DecoderType
         /\ x.index.count = s.index.count /\ x.index.sequence = s.index.sequence
         /\ x.index.hash = s.index.hash
<1>1. /\ s \in DecoderType /\ s.in_start \in Nat /\ b.in_pos \in Nat /\ s.in_start <= b.in_pos
      /\ b.in_pos <= Len(input) /\ input \in Seq(Byte) /\ Len(input) <= Len(Encode(d)) /\ Len(input) \in Nat
      /\ \A i \in 1..Len(input) : input[i] = Encode(d)[i]
  <2>1. Typed(s, b)
    BY InGoodIs, InMainIs
  <2>2. s.in_start <= b.in_pos
    BY <2>1 DEF Typed
  <2>3. s.in_start \in Nat
    BY InGoodIs DEF DecoderType
  <2>4. QED
    BY <2>2, <2>3, InGoodIs
<1>2. PICK x : x = Updated(s, b)
  OBVIOUS
<1>3. /\ x \in DecoderType /\ x.block = s.block /\ x.check_type = s.check_type
      /\ x.pos = s.pos /\ x.sequence = s.sequence
      /\ x.index.count = s.index.count /\ x.index.sequence = s.index.sequence /\ x.index.hash = s.index.hash
      /\ x.index.size = s.index.size + (b.in_pos - s.in_start)
      /\ x.crc = xz_crc32(SubSeq(input, s.in_start + 1, b.in_pos), s.crc)
  BY <1>1, <1>2, UpdatedIs
<1>4. x.vli = s.vli
  BY <1>1, <1>2 DEF Updated, DecoderType
<1>5. /\ b.out = Content(d) /\ BlocksDone(d, s, Len(d.blocks)) /\ s.in_start \in IndexAt(d)..b.in_pos
      /\ s.index.size = s.in_start - IndexAt(d)
      /\ s.crc = xz_crc32(SubSeq(Encode(d), IndexAt(d) + 1, s.in_start), 0)
  BY DEF AtIndex
<1>6. PICK u \in Seq(Byte) : u = Encode(d)
  BY InGoodIs, GoodStreamIs
<1>7. PICK a \in Nat, p \in Nat, q \in Nat : a = IndexAt(d) /\ p = s.in_start /\ q = b.in_pos
  BY <1>1, InGoodIs, GoodStreamIs
<1>8. a <= p /\ p <= q /\ q <= Len(u) /\ q <= Len(input)
  BY <1>1, <1>5, <1>6, <1>7
<1>9. x.index.size = b.in_pos - IndexAt(d) /\ b.in_pos \in IndexAt(d)..b.in_pos
  <2>1. p - a + (q - p) = q - a /\ q \in a..q
    BY <1>8
  <2>2. QED
    BY <1>3, <1>5, <1>7, <2>1
<1>10. SubSeq(input, p + 1, q) = SubSeq(u, p + 1, q)
  <2>1. PICK v, w : v = SubSeq(input, p + 1, q) /\ w = SubSeq(u, p + 1, q)
    OBVIOUS
  <2>2. v \in Seq(Byte) /\ Len(v) = q - p /\ \A i \in 1..(q - p) : v[i] = input[p + i]
    BY <1>1, <1>8, <2>1, PieceIs
  <2>3. w \in Seq(Byte) /\ Len(w) = q - p /\ \A i \in 1..(q - p) : w[i] = u[p + i]
    BY <1>8, <2>1, PieceIs
  <2>4. ASSUME NEW i \in 1..(q - p) PROVE v[i] = w[i]
    <3>1. p + i \in 1..Len(input)
      BY <1>1, <1>8
    <3>2. QED
      BY <1>1, <1>6, <2>2, <2>3, <3>1
  <2>5. v = w
    BY <2>2, <2>3, <2>4, SeqEqual
  <2>6. QED
    BY <2>1, <2>5
<1>11. x.crc = CrcFrom(u, p, q, CrcFrom(u, a, p, 0))
  BY <1>3, <1>5, <1>6, <1>7, <1>10 DEF CrcFrom
<1>12. CrcFrom(u, p, q, CrcFrom(u, a, p, 0)) = CrcFrom(u, a, q, 0)
  BY <1>8, CrcOver
<1>13. x.crc = xz_crc32(SubSeq(Encode(d), IndexAt(d) + 1, b.in_pos), 0)
  BY <1>6, <1>7, <1>11, <1>12 DEF CrcFrom
<1>14. AtIndex(d, x, b, b.in_pos)
  BY <1>3, <1>5, <1>9, <1>13 DEF AtIndex, BlocksDone
<1>15. QED
  BY <1>2, <1>3, <1>4, <1>14

\* Input ends within a number of the Index: what was read is counted.
LEMMA IndexWaitsGood ==
  ASSUME NEW d, InGood(d), IndexWaits
  PROVE  GoodOutcome(d)
<1>1. s.sequence = "SEQ_INDEX" /\ Return(Updated(s, b), b, "XZ_OK")
  BY DEF IndexWaits, At
<1>2. PICK r \in 0..Len(d.blocks) : InIndex(d, s, b, s.in_start, r)
  BY <1>1, InGoodIs, WhichIs
<1>3. AtIndex(d, s, b, s.in_start)
  BY <1>2 DEF InIndex
<1>4. PICK x : x = Updated(s, b)
  OBVIOUS
<1>5. /\ AtIndex(d, x, b, b.in_pos)
      /\ x.pos = s.pos /\ x.sequence = s.sequence /\ x.vli = s.vli
      /\ x.index.count = s.index.count /\ x.index.sequence = s.index.sequence
      /\ x.index.hash = s.index.hash
  BY <1>3, <1>4, UpdatedGood
<1>6. InIndex(d, x, b, b.in_pos, r)
  BY <1>2, <1>5 DEF InIndex
<1>7. Follows(d, x, b, b.in_pos, Len(b.out))
  BY <1>6 DEF Follows
<1>8. QED
  BY <1>1, <1>4, <1>7 DEF GoodOutcome

\* Input ends within the Index Padding.
LEMMA IndexPaddingWaitsGood ==
  ASSUME NEW d, InGood(d), IndexPaddingWaits
  PROVE  GoodOutcome(d)
<1>1. s.sequence = "SEQ_INDEX_PADDING" /\ Return(Updated(s, b), b, "XZ_OK")
  BY DEF IndexPaddingWaits, At
<1>2. PICK n \in 0..3 : InIndexPadding(d, s, b, s.in_start, n)
  BY <1>1, InGoodIs, WhichIs
<1>3. AtIndex(d, s, b, s.in_start)
  BY <1>2 DEF InIndexPadding
<1>4. PICK x : x = Updated(s, b)
  OBVIOUS
<1>5. /\ AtIndex(d, x, b, b.in_pos)
      /\ x.pos = s.pos /\ x.sequence = s.sequence /\ x.index.hash = s.index.hash
  BY <1>3, <1>4, UpdatedGood
<1>6. InIndexPadding(d, x, b, b.in_pos, n)
  BY <1>2, <1>5 DEF InIndexPadding
<1>7. Follows(d, x, b, b.in_pos, Len(b.out))
  BY <1>6 DEF Follows
<1>8. QED
  BY <1>1, <1>4, <1>7 DEF GoodOutcome

\* All that wait, on a good stream.
LEMMA WaitGood ==
  ASSUME NEW d, InGood(d), Wait
  PROVE  GoodOutcome(d)
<1>1. ASSUME NEW sequences, WaitForInput(sequences),
             sequences \subseteq {"SEQ_BLOCK_START", "SEQ_INDEX_CRC32", "SEQ_BLOCK_PADDING", "SEQ_BLOCK_CHECK"}
      PROVE  GoodOutcome(d)
  BY <1>1, PauseGood DEF WaitForInput
<1>2. QED
  BY <1>1, IndexWaitsGood, IndexPaddingWaitsGood DEF Wait

-----------------------------------------------------------------------------
(* The Index of a good stream.                                             *)

\* What is counted of the Index stays so while more of it is read.
LEMMA AtIndexStays ==
  ASSUME NEW d, InGood(d), AtIndex(d, s, b, s.in_start), More
  PROVE  /\ AtIndex(d, s, Taken(1), s.in_start) /\ Taken(1).in_pos = b.in_pos + 1
         /\ IndexAt(d) \in Nat /\ s.in_start \in Nat /\ b.in_pos \in Nat
<1>1. b.in_pos \in Nat /\ IndexAt(d) \in Nat /\ s.in_start \in Nat
  BY InGoodIs, GoodStreamIs DEF DecoderType
<1>2. Taken(1).in_pos = b.in_pos + 1 /\ Taken(1).out = b.out
  BY NextIs
<1>3. s.in_start \in IndexAt(d)..b.in_pos
  BY DEF AtIndex
<1>4. s.in_start \in IndexAt(d)..(b.in_pos + 1)
  BY <1>1, <1>3
<1>5. QED
  BY <1>1, <1>2, <1>4 DEF AtIndex

\* Adding what lies between two places.
LEMMA Counting ==
  ASSUME NEW a \in Nat, NEW c \in Nat, NEW n \in Nat, NEW p, p \in a..(a + (c + n))
  PROVE  (p - a) + (a + (c + n)) - p = c + n
OBVIOUS

\* What follows the fields of the Index.
LEMMA InPaddingIs ==
  ASSUME NEW d, InGood(d), At("SEQ_INDEX_PADDING")
  PROVE  \E n \in 0..3 : \E c \in Nat, a \in Nat, l \in 0..3 :
           /\ InIndexPadding(d, s, b, s.in_start, n) /\ AtIndex(d, s, b, s.in_start)
           /\ c = Len(IndexFields(d)) /\ a = IndexAt(d) /\ b.in_pos = a + (c + n)
           /\ Len(EncodeIndex(d)) = c + l /\ Lies(Encode(d), a + c, Repeated(0, l))
           /\ IndexMisaligned => n < l /\ n + 1 \in 1..l /\ n + 1 \in 0..3
           /\ ~IndexMisaligned => n = l
<1>1. s.sequence = "SEQ_INDEX_PADDING"
  BY DEF At
<1>2. PICK n \in 0..3 : InIndexPadding(d, s, b, s.in_start, n)
  BY <1>1, InGoodIs, WhichIs
<1>3. PICK c \in Nat, a \in Nat : c = Len(IndexFields(d)) /\ a = IndexAt(d)
  BY InGoodIs, IndexBegins, GoodStreamIs
<1>4. PICK l \in 0..3 : /\ Len(EncodeIndex(d)) = c + l /\ Lies(Encode(d), a + c, Repeated(0, l))
                        /\ (c + l) % 4 = 0 /\ \A m \in Nat : m < l => (c + m) % 4 # 0
  BY <1>3, InGoodIs, IndexBegins
<1>5. /\ AtIndex(d, s, b, s.in_start) /\ b.in_pos = a + (c + n) /\ b.in_pos <= a + (c + l)
  BY <1>2, <1>3, <1>4 DEF InIndexPadding
<1>6. n <= l
  <2>1. a + (c + n) <= a + (c + l)
    BY <1>5
  <2>2. QED
    BY <1>3, <2>1
<1>7. IndexMisaligned = ((c + n) % 4 # 0)
  <2>1. s.in_start \in a..(a + (c + n)) /\ s.index.size = s.in_start - a
    BY <1>3, <1>5 DEF AtIndex
  <2>2. PICK p \in a..(a + (c + n)) : p = s.in_start
    BY <2>1
  <2>3. n \in Nat
    OBVIOUS
  <2>4. (p - a) + (a + (c + n)) - p = c + n
    BY <1>3, <2>2, <2>3, Counting
  <2>5. QED
    BY <1>5, <2>1, <2>2, <2>4 DEF IndexMisaligned
<1>8. QED
  BY <1>2, <1>3, <1>4, <1>5, <1>6, <1>7, MorePadding, ZenonT(60)

\* The Index Padding of a good stream is accepted.
LEMMA IndexPaddingGood ==
  ASSUME NEW d, InGood(d), IndexPadding
  PROVE  GoodOutcome(d)
<1>1. At("SEQ_INDEX_PADDING") /\ IndexMisaligned /\ More
  BY DEF IndexPadding
<1>2. PICK n \in 0..3 : \E c \in Nat, a \in Nat, l \in 0..3 :
           /\ InIndexPadding(d, s, b, s.in_start, n) /\ AtIndex(d, s, b, s.in_start)
           /\ c = Len(IndexFields(d)) /\ a = IndexAt(d) /\ b.in_pos = a + (c + n)
           /\ Len(EncodeIndex(d)) = c + l /\ Lies(Encode(d), a + c, Repeated(0, l))
           /\ n < l /\ n + 1 \in 1..l /\ n + 1 \in 0..3
  BY <1>1, InPaddingIs
<1>3. PICK c \in Nat, a \in Nat, l \in 0..3 :
           /\ InIndexPadding(d, s, b, s.in_start, n) /\ AtIndex(d, s, b, s.in_start)
           /\ c = Len(IndexFields(d)) /\ a = IndexAt(d) /\ b.in_pos = a + (c + n)
           /\ Len(EncodeIndex(d)) = c + l /\ Lies(Encode(d), a + c, Repeated(0, l))
           /\ n < l /\ n + 1 \in 1..l /\ n + 1 \in 0..3
  BY <1>2
<1>4. Next1 = 0
  <2>1. Len(Repeated(0, l)) = l /\ Repeated(0, l)[n + 1] = 0
    BY <1>3 DEF Repeated
  <2>2. Encode(d)[a + c + (n + 1)] = 0
    BY <1>3, <2>1 DEF Lies
  <2>3. a + c + (n + 1) = a + (c + n) + 1
    BY <1>3
  <2>4. QED
    BY <1>1, <1>3, <2>2, <2>3, NextIs
<1>5. Continue(s, Taken(1))
  BY <1>4, Zenon DEF IndexPadding
<1>6. AtIndex(d, s, Taken(1), s.in_start) /\ Taken(1).in_pos = b.in_pos + 1
  BY <1>1, <1>3, AtIndexStays
<1>7. PICK j \in 0..3 : j = n + 1
  BY <1>3
<1>8. Taken(1).in_pos = a + (c + j) /\ Taken(1).in_pos <= a + Len(EncodeIndex(d))
  <2>1. a + (c + n) + 1 = a + (c + j) /\ a + (c + j) <= a + (c + l)
    BY <1>3, <1>7
  <2>2. QED
    BY <1>3, <1>6, <2>1
<1>9. InIndexPadding(d, s, Taken(1), s.in_start, j)
  BY <1>3, <1>6, <1>8 DEF InIndexPadding
<1>10. Follows(d, s, Taken(1), s.in_start, s.out_start)
  BY <1>9 DEF Follows
<1>11. QED
  BY <1>5, <1>10, GoesOn

\* The Records of a good stream are the Blocks', so that the hashes agree.
LEMMA IndexCompleteGood ==
  ASSUME NEW d, InGood(d), IndexComplete
  PROVE  GoodOutcome(d)
<1>1. At("SEQ_INDEX_PADDING") /\ ~IndexMisaligned /\ GoodStream(d)
  BY InGoodIs DEF IndexComplete
<1>2. PICK n \in 0..3 : \E c \in Nat, a \in Nat, l \in 0..3 :
           /\ InIndexPadding(d, s, b, s.in_start, n) /\ AtIndex(d, s, b, s.in_start)
           /\ c = Len(IndexFields(d)) /\ a = IndexAt(d) /\ b.in_pos = a + (c + n)
           /\ Len(EncodeIndex(d)) = c + l /\ n = l
  BY <1>1, InPaddingIs
<1>3. /\ InIndexPadding(d, s, b, s.in_start, n) /\ AtIndex(d, s, b, s.in_start)
      /\ b.in_pos = IndexAt(d) + Len(EncodeIndex(d))
  BY <1>2
<1>4. s.block.hash = s.index.hash
  <2>1. HashIs(s.index.hash, d.records, Len(d.blocks), 0)
    BY <1>3 DEF InIndexPadding
  <2>2. HashIs(s.block.hash, d.records, Len(d.blocks), 0)
    BY <1>3 DEF AtIndex, BlocksDone
  <2>3. Len(d.blocks) \in Nat
    BY <1>1, GoodStreamIs
  <2>4. QED
    BY <2>1, <2>2, <2>3, HashesAgree
<1>5. PICK y : y = Updated(s, b)
  OBVIOUS
<1>6. /\ AtIndex(d, y, b, b.in_pos) /\ y.pos = s.pos /\ y \in DecoderType
  BY <1>3, <1>5, UpdatedGood
<1>7. PICK x : x = [y EXCEPT !.sequence = "SEQ_INDEX_CRC32"]
  OBVIOUS
<1>8. Continue(x, b)
  BY <1>4, <1>5, <1>7, Zenon DEF IndexComplete
<1>9. /\ x.sequence = "SEQ_INDEX_CRC32" /\ x.crc = y.crc /\ x.index = y.index /\ x.pos = s.pos
      /\ x.check_type = y.check_type
  BY <1>6, <1>7 DEF DecoderType
<1>10. y.crc = xz_crc32(EncodeIndex(d), 0)
  <2>1. Lies(Encode(d), IndexAt(d), EncodeIndex(d)) /\ EncodeIndex(d) \in Seq(Byte) /\ IndexAt(d) \in Nat
        /\ Encode(d) \in Seq(Byte)
    BY <1>1, IndexBegins, GoodStreamIs
  <2>2. SubSeq(Encode(d), IndexAt(d) + 1, b.in_pos) = EncodeIndex(d)
    BY <1>3, <2>1, LiesPiece, SMTT(30)
  <2>3. y.crc = xz_crc32(SubSeq(Encode(d), IndexAt(d) + 1, b.in_pos), 0)
    BY <1>6 DEF AtIndex
  <2>4. QED
    BY <2>2, <2>3
<1>11. y.index.size = Len(EncodeIndex(d))
  <2>1. y.index.size = b.in_pos - IndexAt(d)
    BY <1>6 DEF AtIndex
  <2>2. IndexAt(d) \in Nat /\ Len(EncodeIndex(d)) \in Nat
    BY <1>1, GoodStreamIs
  <2>3. QED
    BY <1>3, <2>1, <2>2
<1>12. s.pos = 0
  BY <1>3 DEF InIndexPadding
<1>13. b.in_pos = IndexAt(d) + Len(EncodeIndex(d)) + x.pos
  <2>1. IndexAt(d) \in Nat /\ Len(EncodeIndex(d)) \in Nat
    BY <1>1, GoodStreamIs
  <2>2. QED
    BY <1>3, <1>9, <1>12, <2>1
<1>14. y.check_type = d.check /\ b.out = Content(d)
  BY <1>6 DEF AtIndex, BlocksDone
<1>15. InIndexCrc32(d, x, b)
  BY <1>9, <1>10, <1>11, <1>13, <1>14 DEF InIndexCrc32
<1>16. Follows(d, x, b, x.in_start, x.out_start)
  BY <1>15 DEF Follows
<1>17. QED
  BY <1>8, <1>16, GoesOn

\* Where the number of Records lies, where the Records begin, and where they end.
LEMMA CountLies ==
  ASSUME NEW d, GoodStream(d)
  PROVE  /\ d.count \in Vli /\ d.count = Len(d.blocks) /\ Len(d.blocks) \in Nat /\ IndexAt(d) \in Nat
         /\ Lies(Encode(d), IndexAt(d) + 1, EncodeVli(d.count))
         /\ Lies(Encode(d), IndexAt(d) + 1 + Len(EncodeVli(d.count)), FlattenSeq(RecordFields(d)))
         /\ IndexAt(d) + 1 + Len(EncodeVli(d.count)) \in Nat
         /\ RecordAt(d, 0) = IndexAt(d) + 1 + Len(EncodeVli(d.count))
         /\ RecordAt(d, Len(d.blocks)) = IndexAt(d) + Len(IndexFields(d))
         /\ Len(RecordFields(d)) = Len(d.blocks)
<1>1. d \in StreamType /\ d.count = Len(d.blocks) /\ Len(d.records) = Len(d.blocks) /\ Len(d.blocks) \in Nat
  <2>1. d \in StreamType /\ d.count = Len(d.blocks)
        /\ d.records = [k \in DOMAIN d.blocks |-> Record(d.blocks[k], d.check)]
    BY DEF GoodStream
  <2>2. Len(d.blocks) \in Nat /\ DOMAIN d.blocks = 1..Len(d.blocks)
    BY <2>1 DEF StreamType
  <2>3. QED
    BY <2>1, <2>2
<1>2. PICK t \in Seq(Seq(Byte)) : t = RecordFields(d)
  BY <1>1, IndexFieldsAre
<1>3. PICK V \in Seq(Byte) : V = EncodeVli(d.count)
  BY <1>1, IndexFieldsAre
<1>4. PICK R \in Seq(Byte) : R = FlattenSeq(t)
  BY <1>1, <1>2, IndexFieldsAre
<1>5. PICK F \in Seq(Byte) : F = IndexFields(d)
  BY <1>1, IndexFieldsAre
<1>6. /\ Len(t) = Len(d.blocks) /\ d.count \in Vli /\ Len(F) = 1 + Len(V) + Len(R)
      /\ Lies(F, 1, V) /\ Lies(F, 1 + Len(V), R)
  BY <1>1, <1>2, <1>3, <1>4, <1>5, IndexFieldsAre
<1>7. PICK E \in Seq(Byte), a \in Nat : E = Encode(d) /\ a = IndexAt(d) /\ Lies(E, a, F)
  BY <1>5, GoodStreamIs, IndexBegins
<1>8. PICK v \in Nat, r \in Nat : v = Len(V) /\ r = Len(R)
  BY <1>3, <1>4
<1>9. Lies(E, a + 1, V)
  <2>1. 1 \in Nat
    OBVIOUS
  <2>2. QED
    BY <1>6, <1>7, <2>1, LiesWithin
<1>10. Lies(E, a + (1 + v), R)
  <2>1. 1 + v \in Nat
    OBVIOUS
  <2>2. Lies(F, 1 + v, R)
    BY <1>6, <1>8
  <2>3. QED
    BY <1>7, <2>1, <2>2, LiesWithin
<1>11. a + (1 + v) = a + 1 + v /\ a + 1 + v \in Nat /\ a + 1 + v + 0 = a + 1 + v
  OBVIOUS
<1>12. Flat(t, 0) = <<>> /\ Flat(t, Len(t)) = R
  BY <1>4, FlatIs
<1>13. RecordAt(d, 0) = a + 1 + v
  <2>1. Len(Flat(t, 0)) = 0
    BY <1>12
  <2>2. QED
    BY <1>2, <1>3, <1>7, <1>8, <1>11, <2>1 DEF RecordAt
<1>14. RecordAt(d, Len(d.blocks)) = a + Len(F)
  <2>1. RecordAt(d, Len(d.blocks)) = a + 1 + v + r
    BY <1>2, <1>3, <1>6, <1>7, <1>8, <1>12 DEF RecordAt
  <2>2. a + 1 + v + r = a + (1 + v + r)
    OBVIOUS
  <2>3. QED
    BY <1>6, <1>8, <2>1, <2>2
<1>15. QED
  BY <1>1, <1>2, <1>3, <1>4, <1>5, <1>6, <1>7, <1>8, <1>9, <1>10, <1>11, <1>13, <1>14

\* Behind a Record of m and n is the next one.
NextRecord(d, r, m, n) == RecordAt(d, r + 1) = RecordAt(d, r) + Len(EncodeVli(m)) + Len(EncodeVli(n))

\* Where the two numbers of a Record lie in the stream.
LEMMA RecordLies ==
  ASSUME NEW d, GoodStream(d), NEW r \in 0..(Len(d.blocks) - 1),
         NEW m, m = d.records[r + 1][1], NEW n, n = d.records[r + 1][2]
  PROVE  /\ m \in Vli /\ n \in Vli /\ RecordAt(d, r) \in Nat
         /\ Lies(Encode(d), RecordAt(d, r), EncodeVli(m))
         /\ Lies(Encode(d), RecordAt(d, r) + Len(EncodeVli(m)), EncodeVli(n))
         /\ RecordAt(d, r) + Len(EncodeVli(m)) \in Nat
         /\ NextRecord(d, r, m, n)
<1>1. /\ Lies(Encode(d), IndexAt(d) + 1 + Len(EncodeVli(d.count)), FlattenSeq(RecordFields(d)))
      /\ IndexAt(d) + 1 + Len(EncodeVli(d.count)) \in Nat
      /\ Len(RecordFields(d)) = Len(d.blocks) /\ Len(d.blocks) \in Nat
  BY CountLies
<1>2. PICK p \in Nat : p = IndexAt(d) + 1 + Len(EncodeVli(d.count))
  BY <1>1
<1>3. d \in StreamType /\ Len(d.records) = Len(d.blocks)
  <2>1. d \in StreamType /\ d.records = [k \in DOMAIN d.blocks |-> Record(d.blocks[k], d.check)]
    BY DEF GoodStream
  <2>2. DOMAIN d.blocks = 1..Len(d.blocks)
    BY <2>1 DEF StreamType
  <2>3. QED
    BY <1>1, <2>1, <2>2
<1>4. PICK t \in Seq(Seq(Byte)) : t = RecordFields(d)
  BY <1>3, IndexFieldsAre
<1>5. m \in Vli /\ n \in Vli /\ t[r + 1] = EncodeVli(m) \o EncodeVli(n)
  <2>1. r + 1 \in 1..Len(d.records)
    BY <1>1, <1>3
  <2>2. QED
    BY <1>3, <1>4, <2>1, IndexFieldsAre
<1>6. PICK u \in Seq(Byte), v \in Seq(Byte) : u = EncodeVli(m) /\ v = EncodeVli(n)
  BY <1>5, EncodeVliIs
<1>7. PICK E \in Seq(Byte) : E = Encode(d)
  BY GoodStreamIs
<1>8. /\ Flat(t, r) \in Seq(Byte) /\ Len(Flat(t, r + 1)) = Len(Flat(t, r)) + Len(t[r + 1])
      /\ Lies(E, p + Len(Flat(t, r)), t[r + 1])
  <2>1. r \in 0..(Len(t) - 1)
    BY <1>1, <1>4
  <2>2. Lies(E, p, FlattenSeq(t))
    BY <1>1, <1>2, <1>4, <1>7
  <2>3. QED
    BY <2>1, <2>2, LiesFlat
<1>9. PICK f \in Nat : f = Len(Flat(t, r))
  BY <1>8
<1>10. PICK a \in Nat : a = p + f
  OBVIOUS
<1>11. RecordAt(d, r) = a
  BY <1>2, <1>4, <1>9, <1>10 DEF RecordAt
<1>12. Lies(E, a, u \o v)
  BY <1>5, <1>6, <1>8, <1>9, <1>10
<1>13. Lies(E, a, u) /\ Lies(E, a + Len(u), v)
  BY <1>12, LiesSplit
<1>14. PICK g \in Nat, h \in Nat : g = Len(u) /\ h = Len(v)
  BY <1>6
<1>15. Len(t[r + 1]) = g + h
  BY <1>5, <1>6, <1>14, ConcatIs
<1>16. RecordAt(d, r + 1) = p + (f + (g + h))
  BY <1>2, <1>4, <1>8, <1>9, <1>15 DEF RecordAt
<1>17. p + (f + (g + h)) = (p + f) + g + h
  OBVIOUS
<1>18. a + g \in Nat
  OBVIOUS
<1>19. QED
  <2>1. NextRecord(d, r, m, n)
    BY <1>6, <1>10, <1>11, <1>14, <1>16, <1>17 DEF NextRecord
  <2>2. QED
    BY <1>5, <1>6, <1>7, <1>10, <1>11, <1>13, <1>14, <1>18, <2>1

\* One byte of a number of the Index is read.
LEMMA VliGoesOn ==
  ASSUME NEW d, InGood(d), DecIndex, NEW n \in Vli, NEW p \in Nat, Lies(Encode(d), p, EncodeVli(n)),
         s.pos < Len(EncodeVli(n)), b.in_pos = p + s.pos, s.pos # 0 => s.vli = n % VLI_BASE
  PROVE  \/ /\ s.pos = 0 /\ 1 < Len(EncodeVli(n)) /\ Taken(1).in_pos = p + 1
            /\ Continue([s EXCEPT !.vli = n % VLI_BASE, !.pos = 1], Taken(1))
         \/ /\ Taken(1).in_pos = p + Len(EncodeVli(n))
            /\ IndexField([s EXCEPT !.vli = n, !.pos = 0])
<1> DEFINE vli == (IF s.pos = 0 THEN 0 ELSE s.vli) + (Next1 % VLI_BASE) * VLI_BASE ^ s.pos
           bad == IF Next1 < VLI_BASE THEN Next1 = 0 /\ s.pos # 0 ELSE s.pos + 1 = VLI_BYTES_MAX
           xz == [s EXCEPT !.vli = vli, !.pos = IF Next1 < VLI_BASE THEN 0 ELSE @ + 1]
<1>1. IF bad THEN Return(Updated(xz, Taken(1)), Taken(1), "XZ_DATA_ERROR")
      ELSE IF Next1 < VLI_BASE THEN IndexField(xz)
      ELSE Continue(xz, Taken(1))
  BY DEF DecIndex
<1>2. xz = [s EXCEPT !.vli = vli, !.pos = IF Next1 < VLI_BASE THEN 0 ELSE s.pos + 1]
  OBVIOUS
<1>3. vli = (IF s.pos = 0 THEN 0 ELSE s.vli) + (Next1 % VLI_BASE) * VLI_BASE ^ s.pos
  OBVIOUS
<1>4. bad = IF Next1 < VLI_BASE THEN Next1 = 0 /\ s.pos # 0 ELSE s.pos + 1 = VLI_BYTES_MAX
  OBVIOUS
<1> HIDE DEF vli, bad, xz
<1>5. More
  BY DEF DecIndex
<1>6. PICK c : c = Next1
  OBVIOUS
<1>7. PICK u \in Seq(Byte) : u = EncodeVli(n)
  BY EncodeVliIs
<1>8. PICK pos \in 0..1 : pos = s.pos
  BY GoingIs DEF VLI_BYTES_MAX
<1>9. c = u[pos + 1] /\ c \in Byte /\ Taken(1).in_pos = p + (pos + 1)
  <2>1. c = Encode(d)[b.in_pos + 1] /\ c \in Byte /\ Taken(1).in_pos = b.in_pos + 1
    BY <1>5, <1>6, NextIs
  <2>2. p + pos + 1 = p + (pos + 1)
    OBVIOUS
  <2>3. pos + 1 \in 1..Len(u)
    BY <1>7, <1>8
  <2>4. Encode(d)[p + (pos + 1)] = u[pos + 1]
    BY <1>7, <2>3 DEF Lies
  <2>5. QED
    BY <1>8, <2>1, <2>2, <2>4
<1>10. 8 ^ 0 = 1 /\ 8 ^ 1 = 8
  OBVIOUS
<1>11. CASE n < VLI_BASE
  <2>1. u = <<n>> /\ Len(u) = 1
    BY <1>7, <1>11, EncodeVliIs
  <2>2. pos = 0 /\ c = n
    BY <1>7, <1>8, <1>9, <2>1
  <2>3. ~bad
    BY <1>4, <1>6, <1>8, <1>11, <2>2
  <2>4. vli = n
    <3>1. vli = 0 + (n % 8) * 8 ^ 0
      BY <1>3, <1>6, <1>8, <2>2 DEF VLI_BASE
    <3>2. n \in Nat /\ n < 8
      BY <1>11 DEF Vli, VLI_UNKNOWN, VLI_BASE
    <3>3. n % 8 = n /\ 0 + n * 1 = n
      BY <3>2
    <3>4. QED
      BY <1>10, <3>1, <3>3
  <2>5. xz = [s EXCEPT !.vli = n, !.pos = 0]
    BY <1>2, <1>6, <1>11, <2>2, <2>4
  <2>6. IndexField(xz)
    BY <1>1, <1>6, <1>11, <2>2, <2>3
  <2>7. Taken(1).in_pos = p + Len(EncodeVli(n))
    BY <1>7, <1>9, <2>1, <2>2
  <2>8. QED
    BY <2>5, <2>6, <2>7
<1>12. CASE n >= VLI_BASE
  <2>1. /\ Len(u) = 2 /\ u[1] = VLI_BASE + (n % VLI_BASE) /\ u[2] = n \div VLI_BASE
        /\ n \div VLI_BASE \in 1..7 /\ n % VLI_BASE \in 0..7
        /\ n = (n % VLI_BASE) + VLI_BASE * (n \div VLI_BASE)
    BY <1>7, <1>12, EncodeVliIs
  <2>2. PICK m \in 0..7, h \in 1..7 : m = n % VLI_BASE /\ h = n \div VLI_BASE
    BY <2>1
  <2>3. u[1] = 8 + m /\ u[2] = h /\ n = m + 8 * h
    BY <2>1, <2>2 DEF VLI_BASE
  <2>4. CASE pos = 0
    <3>1. c = 8 + m /\ ~(c < VLI_BASE)
      BY <1>9, <2>3, <2>4 DEF VLI_BASE
    <3>2. ~bad
      <4>1. s.pos + 1 # VLI_BYTES_MAX
        BY <1>8, <2>4 DEF VLI_BYTES_MAX
      <4>2. QED
        BY <1>4, <1>6, <3>1, <4>1
    <3>3. vli = m
      <4>1. vli = 0 + (c % 8) * 8 ^ 0
        BY <1>3, <1>6, <1>8, <2>4 DEF VLI_BASE
      <4>2. (8 + m) % 8 = m /\ 0 + m * 1 = m
        OBVIOUS
      <4>3. QED
        BY <1>10, <3>1, <4>1, <4>2
    <3>4. xz = [s EXCEPT !.vli = m, !.pos = 1]
      <4>1. xz = [s EXCEPT !.vli = vli, !.pos = s.pos + 1]
        BY <1>2, <1>6, <3>1
      <4>2. s.pos + 1 = 1
        BY <1>8, <2>4
      <4>3. QED
        BY <3>3, <4>1, <4>2
    <3>5. Continue(xz, Taken(1))
      BY <1>1, <1>6, <3>1, <3>2
    <3>6. Taken(1).in_pos = p + 1 /\ s.pos = 0 /\ 1 < Len(EncodeVli(n))
      BY <1>7, <1>8, <1>9, <2>1, <2>4
    <3>7. QED
      BY <2>2, <3>4, <3>5, <3>6
  <2>5. CASE pos = 1
    <3>1. c = h /\ c < VLI_BASE /\ c # 0
      BY <1>9, <2>3, <2>5 DEF VLI_BASE
    <3>2. ~bad
      BY <1>4, <1>6, <3>1
    <3>3. vli = n
      <4>1. s.vli = m
        BY <1>8, <2>2, <2>5
      <4>2. vli = m + (h % 8) * 8 ^ 1
        BY <1>3, <1>6, <1>8, <2>5, <3>1, <4>1 DEF VLI_BASE
      <4>3. h % 8 = h /\ m + h * 8 = m + 8 * h
        OBVIOUS
      <4>4. QED
        BY <1>10, <2>3, <4>2, <4>3
    <3>4. xz = [s EXCEPT !.vli = n, !.pos = 0]
      BY <1>2, <1>6, <3>1, <3>3
    <3>5. IndexField(xz)
      BY <1>1, <1>6, <3>1, <3>2
    <3>6. Taken(1).in_pos = p + Len(EncodeVli(n))
      BY <1>7, <1>9, <2>1, <2>5
    <3>7. QED
      BY <3>4, <3>5, <3>6
  <2>6. QED
    BY <2>4, <2>5
<1>13. QED
  <2>1. n < VLI_BASE \/ n >= VLI_BASE
    BY DEF Vli, VLI_UNKNOWN, VLI_BASE
  <2>2. QED
    BY <1>11, <1>12, <2>1

\* A VLI is a number.
LEMMA VliIsNumber ==
  ASSUME NEW n \in Vli
  PROVE  n \in Nat /\ Len(EncodeVli(n)) \in 1..2 /\ 0 < Len(EncodeVli(n))
<1>1. n \in Nat
  BY DEF Vli, VLI_UNKNOWN
<1>2. PICK l \in 1..2 : l = Len(EncodeVli(n))
  BY EncodeVliIs
<1>3. 0 < l
  OBVIOUS
<1>4. QED
  BY <1>1, <1>2, <1>3

\* After a number of the Index: its state is i now.
After(n, i) ==
  [s EXCEPT !.vli = n, !.pos = 0, !.index = i,
            !.sequence = IF i.count = 0 THEN "SEQ_INDEX_PADDING" ELSE "SEQ_INDEX"]

\* What a complete field leaves alone.
LEMMA AfterIs ==
  ASSUME NEW d, InGood(d), NEW n, NEW i
  PROVE  /\ After(n, i).pos = 0 /\ After(n, i).index = i
         /\ After(n, i).sequence = IF i.count = 0 THEN "SEQ_INDEX_PADDING" ELSE "SEQ_INDEX"
         /\ After(n, i).crc = s.crc /\ After(n, i).check_type = s.check_type /\ After(n, i).block = s.block
         /\ After(n, i).in_start = s.in_start /\ After(n, i).out_start = s.out_start
BY InGoodIs DEF After, DecoderType

\* The number of Records is complete and right.
LEMMA AfterCount ==
  ASSUME NEW d, InGood(d), At("SEQ_INDEX"), NEW n, n = s.block.count,
         IndexField([s EXCEPT !.vli = n, !.pos = 0]), s.index.sequence = "SEQ_INDEX_COUNT"
  PROVE  Continue(After(n, [s.index EXCEPT !.count = n, !.sequence = "SEQ_INDEX_UNPADDED"]), Taken(1))
<1>1. PICK z : z = [s EXCEPT !.vli = n, !.pos = 0]
  OBVIOUS
<1>2. /\ z.vli = n /\ z.index = s.index /\ z.block = s.block /\ z.sequence = "SEQ_INDEX"
      /\ z.index.sequence = "SEQ_INDEX_COUNT" /\ IndexField(z)
  BY <1>1, InGoodIs DEF DecoderType, At
<1>3. PICK i : i = [z.index EXCEPT !.count = n, !.sequence = "SEQ_INDEX_UNPADDED"]
  OBVIOUS
<1>4. Continue([z EXCEPT !.index = i, !.sequence = IF i.count = 0 THEN "SEQ_INDEX_PADDING" ELSE @], Taken(1))
  BY <1>2, <1>3 DEF IndexField
<1>5. [z EXCEPT !.index = i, !.sequence = IF i.count = 0 THEN "SEQ_INDEX_PADDING" ELSE @] = After(n, i)
  BY <1>1, <1>2, InGoodIs DEF After, DecoderType
<1>6. QED
  BY <1>2, <1>3, <1>4, <1>5

\* The first number of a Record is complete.
LEMMA AfterUnpadded ==
  ASSUME NEW d, InGood(d), At("SEQ_INDEX"), NEW n,
         IndexField([s EXCEPT !.vli = n, !.pos = 0]), s.index.sequence = "SEQ_INDEX_UNPADDED"
  PROVE  Continue(After(n, [s.index EXCEPT !.hash.unpadded = @ + n, !.sequence = "SEQ_INDEX_UNCOMPRESSED"]),
                  Taken(1))
<1>1. PICK z : z = [s EXCEPT !.vli = n, !.pos = 0]
  OBVIOUS
<1>2. /\ z.vli = n /\ z.index = s.index /\ z.block = s.block /\ z.sequence = "SEQ_INDEX"
      /\ z.index.sequence = "SEQ_INDEX_UNPADDED" /\ IndexField(z)
  BY <1>1, InGoodIs DEF DecoderType, At
<1>3. PICK i : i = [z.index EXCEPT !.hash.unpadded = @ + n, !.sequence = "SEQ_INDEX_UNCOMPRESSED"]
  OBVIOUS
<1>4. Continue([z EXCEPT !.index = i, !.sequence = IF i.count = 0 THEN "SEQ_INDEX_PADDING" ELSE @], Taken(1))
  BY <1>2, <1>3 DEF IndexField
<1>5. [z EXCEPT !.index = i, !.sequence = IF i.count = 0 THEN "SEQ_INDEX_PADDING" ELSE @] = After(n, i)
  BY <1>1, <1>2, InGoodIs DEF After, DecoderType
<1>6. QED
  BY <1>2, <1>3, <1>4, <1>5

\* The second number of a Record is complete.
LEMMA AfterUncompressed ==
  ASSUME NEW d, InGood(d), At("SEQ_INDEX"), NEW n,
         IndexField([s EXCEPT !.vli = n, !.pos = 0]), s.index.sequence = "SEQ_INDEX_UNCOMPRESSED",
         NEW h, h = s.index.hash
  PROVE  Continue(After(n, [s.index EXCEPT
                              !.hash = [unpadded |-> h.unpadded, uncompressed |-> h.uncompressed + n,
                                        crc32 |-> Append(h.crc32, <<h.unpadded, h.uncompressed + n>>)],
                              !.count = @ - 1, !.sequence = "SEQ_INDEX_UNPADDED"]), Taken(1))
<1>1. PICK z : z = [s EXCEPT !.vli = n, !.pos = 0]
  OBVIOUS
<1>2. /\ z.vli = n /\ z.index = s.index /\ z.block = s.block /\ z.sequence = "SEQ_INDEX"
      /\ z.index.sequence = "SEQ_INDEX_UNCOMPRESSED" /\ IndexField(z)
  BY <1>1, InGoodIs DEF DecoderType, At
<1>3. PICK i : i = [z.index EXCEPT
                      !.hash = [unpadded |-> @.unpadded, uncompressed |-> z.index.hash.uncompressed + n,
                                crc32 |-> Append(@.crc32, <<@.unpadded, z.index.hash.uncompressed + n>>)],
                      !.count = @ - 1, !.sequence = "SEQ_INDEX_UNPADDED"]
  OBVIOUS
<1>4. Continue([z EXCEPT !.index = i, !.sequence = IF i.count = 0 THEN "SEQ_INDEX_PADDING" ELSE @], Taken(1))
  BY <1>2, <1>3 DEF IndexField
<1>5. [z EXCEPT !.index = i, !.sequence = IF i.count = 0 THEN "SEQ_INDEX_PADDING" ELSE @] = After(n, i)
  BY <1>1, <1>2, InGoodIs DEF After, DecoderType
<1>6. i = [s.index EXCEPT
             !.hash = [unpadded |-> h.unpadded, uncompressed |-> h.uncompressed + n,
                       crc32 |-> Append(h.crc32, <<h.unpadded, h.uncompressed + n>>)],
             !.count = @ - 1, !.sequence = "SEQ_INDEX_UNPADDED"]
  BY <1>2, <1>3, InGoodIs DEF DecoderType, IndexType
<1>7. QED
  BY <1>4, <1>5, <1>6

\* The Index goes on with a Record, or with its padding.
LEMMA IndexGoesOn ==
  ASSUME NEW d, InGood(d), NEW x, NEW buf, Continue(x, buf), AtIndex(d, s, buf, s.in_start),
         NEW n, NEW i, x = After(n, i), NEW r \in 0..Len(d.blocks), i.count = Len(d.blocks) - r,
         i.size = s.index.size, i.sequence = "SEQ_INDEX_UNPADDED", HashIs(i.hash, d.records, r, 0),
         buf.in_pos = RecordAt(d, r)
  PROVE  GoodOutcome(d)
<1>1. /\ x.pos = 0 /\ x.index = i
      /\ x.sequence = IF i.count = 0 THEN "SEQ_INDEX_PADDING" ELSE "SEQ_INDEX"
      /\ x.crc = s.crc /\ x.check_type = s.check_type /\ x.block = s.block
      /\ x.in_start = s.in_start /\ x.out_start = s.out_start
  BY AfterIs
<1>2. AtIndex(d, x, buf, s.in_start)
  BY <1>1 DEF AtIndex, BlocksDone
<1>3. /\ GoodStream(d) /\ Len(d.blocks) \in Nat /\ IndexAt(d) \in Nat
      /\ RecordAt(d, Len(d.blocks)) = IndexAt(d) + Len(IndexFields(d))
  BY InGoodIs, CountLies
<1>4. CASE i.count = 0
  <2>1. r = Len(d.blocks)
    BY <1>3, <1>4
  <2>2. PICK c \in Nat, l \in 0..3 : c = Len(IndexFields(d)) /\ Len(EncodeIndex(d)) = c + l
    BY <1>3, IndexBegins
  <2>3. buf.in_pos = IndexAt(d) + (c + 0) /\ buf.in_pos <= IndexAt(d) + Len(EncodeIndex(d))
    BY <1>3, <2>1, <2>2
  <2>4. InIndexPadding(d, x, buf, s.in_start, 0)
    BY <1>1, <1>2, <1>4, <2>1, <2>2, <2>3 DEF InIndexPadding
  <2>5. Follows(d, x, buf, x.in_start, x.out_start)
    BY <1>1, <2>4 DEF Follows
  <2>6. QED
    BY <2>5, GoesOn
<1>5. CASE i.count # 0
  <2>1. r \in 0..(Len(d.blocks) - 1) /\ r < Len(d.blocks)
    BY <1>3, <1>5
  <2>2. RecordAt(d, r) \in Nat /\ d.records[r + 1][1] \in Vli
    BY <1>3, <2>1, RecordLies
  <2>3. 0 < Len(EncodeVli(d.records[r + 1][1])) /\ RecordAt(d, r) + 0 = RecordAt(d, r)
    <3>1. PICK v \in Vli : v = d.records[r + 1][1]
      BY <2>2
    <3>2. 0 < Len(EncodeVli(v))
      BY VliIsNumber
    <3>3. QED
      BY <2>2, <3>1, <3>2
  <2>4. FieldAt(d, "SEQ_INDEX_UNPADDED", r) = RecordAt(d, r)
        /\ FieldIs(d, "SEQ_INDEX_UNPADDED", r) = d.records[r + 1][1]
    BY DEF FieldAt, FieldIs
  <2>5. InIndex(d, x, buf, s.in_start, r)
    BY <1>1, <1>2, <1>5, <2>1, <2>3, <2>4 DEF InIndex
  <2>6. Follows(d, x, buf, x.in_start, x.out_start)
    BY <1>1, <2>5 DEF Follows
  <2>7. QED
    BY <2>6, GoesOn
<1>6. QED
  BY <1>4, <1>5

\* Which number of the Index is read, and where it lies.
LEMMA FieldLies ==
  ASSUME NEW d, GoodStream(d), NEW x \in DecoderType, NEW buf, NEW z, NEW r \in 0..Len(d.blocks),
         InIndex(d, x, buf, z, r),
         NEW n, n = FieldIs(d, x.index.sequence, r), NEW p, p = FieldAt(d, x.index.sequence, r)
  PROVE  n \in Vli /\ p \in Nat /\ Lies(Encode(d), p, EncodeVli(n)) /\ Len(EncodeVli(n)) \in 1..2
<1>1. x.index.sequence \in IndexSequences
  BY DEF DecoderType, IndexType
<1>2. CASE x.index.sequence = "SEQ_INDEX_COUNT"
  <2>1. n = d.count /\ p = IndexAt(d) + 1
    BY <1>2 DEF FieldIs, FieldAt
  <2>2. d.count \in Vli /\ IndexAt(d) \in Nat /\ Lies(Encode(d), IndexAt(d) + 1, EncodeVli(d.count))
    BY CountLies
  <2>3. QED
    BY <2>1, <2>2, EncodeVliIs
<1>3. CASE x.index.sequence # "SEQ_INDEX_COUNT"
  <2>1. r < Len(d.blocks) /\ Len(d.blocks) \in Nat
    BY <1>3, GoodStreamIs DEF InIndex
  <2>2. r \in 0..(Len(d.blocks) - 1)
    BY <2>1
  <2>3. PICK u, v : u = d.records[r + 1][1] /\ v = d.records[r + 1][2]
    OBVIOUS
  <2>4. /\ u \in Vli /\ v \in Vli /\ RecordAt(d, r) \in Nat
        /\ Lies(Encode(d), RecordAt(d, r), EncodeVli(u))
        /\ Lies(Encode(d), RecordAt(d, r) + Len(EncodeVli(u)), EncodeVli(v))
        /\ RecordAt(d, r) + Len(EncodeVli(u)) \in Nat
    BY <2>2, <2>3, RecordLies
  <2>5. CASE x.index.sequence = "SEQ_INDEX_UNPADDED"
    <3>1. n = u /\ p = RecordAt(d, r)
      BY <2>3, <2>5 DEF FieldIs, FieldAt
    <3>2. QED
      BY <2>4, <3>1, EncodeVliIs
  <2>6. CASE x.index.sequence = "SEQ_INDEX_UNCOMPRESSED"
    <3>1. n = v /\ p = RecordAt(d, r) + Len(EncodeVli(u))
      BY <2>3, <2>6 DEF FieldIs, FieldAt
    <3>2. QED
      BY <2>4, <3>1, EncodeVliIs
  <2>7. QED
    BY <1>1, <1>3, <2>5, <2>6 DEF IndexSequences
<1>4. QED
  BY <1>2, <1>3

\* The number of Records is that of the Blocks.
LEMMA CountGood ==
  ASSUME NEW d, InGood(d), At("SEQ_INDEX"), More, NEW r \in 0..Len(d.blocks),
         InIndex(d, s, b, s.in_start, r), s.index.sequence = "SEQ_INDEX_COUNT",
         NEW n, n = FieldIs(d, s.index.sequence, r),
         Taken(1).in_pos = FieldAt(d, s.index.sequence, r) + Len(EncodeVli(n)),
         IndexField([s EXCEPT !.vli = n, !.pos = 0])
  PROVE  GoodOutcome(d)
<1>1. /\ AtIndex(d, s, b, s.in_start) /\ r = 0 /\ HashIs(s.index.hash, d.records, r, 0)
      /\ n = d.count /\ FieldAt(d, s.index.sequence, r) = IndexAt(d) + 1
  BY DEF InIndex, FieldIs, FieldAt
<1>2. d.count = Len(d.blocks) /\ Len(d.blocks) \in Nat
      /\ RecordAt(d, 0) = IndexAt(d) + 1 + Len(EncodeVli(d.count))
  BY InGoodIs, CountLies
<1>3. n = s.block.count
  BY <1>1, <1>2 DEF AtIndex, BlocksDone
<1>4. PICK i : i = [s.index EXCEPT !.count = n, !.sequence = "SEQ_INDEX_UNPADDED"]
  OBVIOUS
<1>5. i.count = n /\ i.sequence = "SEQ_INDEX_UNPADDED" /\ i.size = s.index.size /\ i.hash = s.index.hash
  BY <1>4, InGoodIs DEF DecoderType, IndexType
<1>6. PICK x, buf : x = After(n, i) /\ buf = Taken(1)
  BY SMTT(30)
<1>7. Continue(x, buf)
  BY <1>3, <1>4, <1>6, AfterCount, Zenon
<1>8. AtIndex(d, s, buf, s.in_start) /\ buf.in_pos = RecordAt(d, r)
  BY <1>1, <1>2, <1>6, AtIndexStays
<1>9. i.count = Len(d.blocks) - r
  BY <1>1, <1>2, <1>5
<1>10. HashIs(i.hash, d.records, r, 0)
  BY <1>1, <1>5
<1>11. QED
  BY <1>5, <1>6, <1>7, <1>8, <1>9, <1>10, IndexGoesOn

\* The first number of a Record is added to the hash.
LEMMA UnpaddedGood ==
  ASSUME NEW d, InGood(d), At("SEQ_INDEX"), More, NEW r \in 0..Len(d.blocks),
         InIndex(d, s, b, s.in_start, r), s.index.sequence = "SEQ_INDEX_UNPADDED",
         NEW n, n = FieldIs(d, s.index.sequence, r),
         Taken(1).in_pos = FieldAt(d, s.index.sequence, r) + Len(EncodeVli(n)),
         IndexField([s EXCEPT !.vli = n, !.pos = 0])
  PROVE  GoodOutcome(d)
<1>1. /\ AtIndex(d, s, b, s.in_start) /\ HashIs(s.index.hash, d.records, r, 0)
      /\ n = d.records[r + 1][1] /\ FieldAt(d, s.index.sequence, r) = RecordAt(d, r)
      /\ r < Len(d.blocks) /\ s.index.count = Len(d.blocks) - r
  BY DEF InIndex, FieldIs, FieldAt
<1>2. GoodStream(d) /\ Len(d.blocks) \in Nat
  BY InGoodIs, GoodStreamIs
<1>3. PICK m : m = d.records[r + 1][2]
  OBVIOUS
<1>4. r \in 0..(Len(d.blocks) - 1)
  BY <1>1, <1>2
<1>5. n \in Vli /\ m \in Vli /\ RecordAt(d, r) + Len(EncodeVli(n)) \in Nat
  BY <1>1, <1>2, <1>3, <1>4, RecordLies
<1>6. PICK h : h = [s.index.hash EXCEPT !.unpadded = @ + n]
  OBVIOUS
<1>7. HashIs(h, d.records, r, n)
  <2>1. n \in Nat /\ r \in Nat
    BY <1>2, <1>5, VliIsNumber
  <2>2. QED
    BY <1>1, <1>6, <2>1, HashAdds
<1>8. PICK i : i = [s.index EXCEPT !.hash = h, !.sequence = "SEQ_INDEX_UNCOMPRESSED"]
  OBVIOUS
<1>9. /\ i.count = s.index.count /\ i.sequence = "SEQ_INDEX_UNCOMPRESSED" /\ i.size = s.index.size
      /\ i.hash = h
  BY <1>8, InGoodIs DEF DecoderType, IndexType
<1>10. i = [s.index EXCEPT !.hash.unpadded = @ + n, !.sequence = "SEQ_INDEX_UNCOMPRESSED"]
  BY <1>6, <1>8
<1>11. PICK x, buf : x = After(n, i) /\ buf = Taken(1)
  BY SMTT(30)
<1>12. Continue(x, buf)
  BY <1>10, <1>11, AfterUnpadded, Zenon
<1>13. /\ x.pos = 0 /\ x.index = i
       /\ x.sequence = IF i.count = 0 THEN "SEQ_INDEX_PADDING" ELSE "SEQ_INDEX"
       /\ x.crc = s.crc /\ x.check_type = s.check_type /\ x.block = s.block
       /\ x.in_start = s.in_start /\ x.out_start = s.out_start
  BY <1>11, AfterIs
<1>14. AtIndex(d, s, buf, s.in_start)
  BY <1>1, <1>11, AtIndexStays
<1>15. AtIndex(d, x, buf, s.in_start)
  BY <1>9, <1>13, <1>14 DEF AtIndex, BlocksDone
<1>16. x.sequence = "SEQ_INDEX"
  BY <1>1, <1>2, <1>9, <1>13
<1>17. PICK p : p = FieldAt(d, "SEQ_INDEX_UNCOMPRESSED", r)
  OBVIOUS
<1>18. p = RecordAt(d, r) + Len(EncodeVli(n)) /\ p \in Nat /\ FieldIs(d, "SEQ_INDEX_UNCOMPRESSED", r) = m
  BY <1>1, <1>3, <1>5, <1>17 DEF FieldAt, FieldIs
<1>19. buf.in_pos = p + 0
  BY <1>1, <1>11, <1>18
<1>20. 0 < Len(EncodeVli(m))
  <2>1. m \in Vli
    BY <1>5
  <2>2. QED
    BY <2>1, VliIsNumber
<1>21. InIndex(d, x, buf, s.in_start, r)
  BY <1>1, <1>7, <1>9, <1>13, <1>15, <1>16, <1>17, <1>18, <1>19, <1>20 DEF InIndex
<1>22. Follows(d, x, buf, x.in_start, x.out_start)
  BY <1>13, <1>21 DEF Follows
<1>23. QED
  BY <1>11, <1>12, <1>22, GoesOn

\* The second one completes the Record.
LEMMA UncompressedGood ==
  ASSUME NEW d, InGood(d), At("SEQ_INDEX"), More, NEW r \in 0..Len(d.blocks),
         InIndex(d, s, b, s.in_start, r), s.index.sequence = "SEQ_INDEX_UNCOMPRESSED",
         NEW n, n = FieldIs(d, s.index.sequence, r),
         Taken(1).in_pos = FieldAt(d, s.index.sequence, r) + Len(EncodeVli(n)),
         IndexField([s EXCEPT !.vli = n, !.pos = 0])
  PROVE  GoodOutcome(d)
<1>1. PICK m : m = d.records[r + 1][1]
  OBVIOUS
<1>2. /\ AtIndex(d, s, b, s.in_start) /\ HashIs(s.index.hash, d.records, r, m)
      /\ n = d.records[r + 1][2]
      /\ FieldAt(d, s.index.sequence, r) = RecordAt(d, r) + Len(EncodeVli(m))
      /\ r < Len(d.blocks) /\ s.index.count = Len(d.blocks) - r
  BY <1>1 DEF InIndex, FieldIs, FieldAt
<1>3. GoodStream(d) /\ Len(d.blocks) \in Nat
  BY InGoodIs, GoodStreamIs
<1>4. r \in 0..(Len(d.blocks) - 1)
  BY <1>2, <1>3
<1>5. n \in Vli /\ m \in Vli /\ RecordAt(d, r + 1) = RecordAt(d, r) + Len(EncodeVli(m)) + Len(EncodeVli(n))
  <2>1. n = d.records[r + 1][2]
    BY <1>2
  <2>2. n \in Vli /\ m \in Vli
    BY <1>1, <1>3, <1>4, <2>1, RecordLies
  <2>3. RecordAt(d, r + 1) = RecordAt(d, r) + Len(EncodeVli(m)) + Len(EncodeVli(n))
    <3>1. NextRecord(d, r, m, n)
      BY <1>1, <1>3, <1>4, <2>1, RecordLies
    <3>2. QED
      BY <3>1 DEF NextRecord
  <2>4. QED
    BY <2>2, <2>3
<1>6. PICK h : h = s.index.hash
  OBVIOUS
<1>7. PICK g : g = [unpadded |-> h.unpadded, uncompressed |-> h.uncompressed + n,
                    crc32 |-> Append(h.crc32, <<h.unpadded, h.uncompressed + n>>)]
  OBVIOUS
<1>8. HashIs(g, d.records, r + 1, 0)
  <2>1. n \in Nat /\ m \in Nat /\ r \in Nat /\ 0 \in Nat
    BY <1>3, <1>5, VliIsNumber
  <2>2. h.unpadded \in Nat
    BY <1>6, InGoodIs DEF DecoderType, IndexType, HashType
  <2>3. h.unpadded + 0 = h.unpadded
    BY <2>2
  <2>4. d.records[r + 1][1] = m + 0
    BY <1>1, <2>1
  <2>5. d.records[r + 1][2] = n /\ HashIs(h, d.records, r, m)
    BY <1>2, <1>6
  <2>6. HashIs([unpadded |-> h.unpadded + 0, uncompressed |-> h.uncompressed + n,
                crc32 |-> Append(h.crc32, <<h.unpadded + 0, h.uncompressed + n>>)], d.records, r + 1, 0)
    BY <2>1, <2>4, <2>5, HashAppends, Zenon
  <2>7. QED
    BY <1>7, <2>3, <2>6
<1>9. PICK i : i = [s.index EXCEPT !.hash = g, !.count = @ - 1, !.sequence = "SEQ_INDEX_UNPADDED"]
  OBVIOUS
<1>10. /\ i.count = s.index.count - 1 /\ i.sequence = "SEQ_INDEX_UNPADDED" /\ i.size = s.index.size
       /\ i.hash = g
  BY <1>9, InGoodIs DEF DecoderType, IndexType
<1>11. PICK x, buf : x = After(n, i) /\ buf = Taken(1)
  OBVIOUS
<1>12. Continue(x, buf)
  <2>1. i = [s.index EXCEPT
               !.hash = [unpadded |-> h.unpadded, uncompressed |-> h.uncompressed + n,
                         crc32 |-> Append(h.crc32, <<h.unpadded, h.uncompressed + n>>)],
               !.count = @ - 1, !.sequence = "SEQ_INDEX_UNPADDED"]
    BY <1>7, <1>9
  <2>2. QED
    BY <1>6, <1>11, <2>1, AfterUncompressed, Zenon
<1>13. AtIndex(d, s, buf, s.in_start) /\ buf.in_pos = RecordAt(d, r + 1)
  BY <1>2, <1>5, <1>11, AtIndexStays
<1>14. PICK t \in 0..Len(d.blocks) : t = r + 1 /\ i.count = Len(d.blocks) - t
  BY <1>2, <1>3, <1>4, <1>10, SMTT(30)
<1>15. HashIs(i.hash, d.records, t, 0) /\ buf.in_pos = RecordAt(d, t)
  BY <1>8, <1>10, <1>13, <1>14
<1>16. QED
  BY <1>10, <1>11, <1>12, <1>13, <1>14, <1>15, IndexGoesOn

\* One byte of the Index
LEMMA DecIndexGood ==
  ASSUME NEW d, InGood(d), DecIndex
  PROVE  GoodOutcome(d)
<1>1. At("SEQ_INDEX") /\ More /\ s.sequence = "SEQ_INDEX"
  BY DEF DecIndex, At
<1>2. PICK r \in 0..Len(d.blocks) : InIndex(d, s, b, s.in_start, r)
  BY <1>1, InGoodIs, WhichIs
<1>3. PICK n, p : n = FieldIs(d, s.index.sequence, r) /\ p = FieldAt(d, s.index.sequence, r)
  OBVIOUS
<1>4. n \in Vli /\ p \in Nat /\ Lies(Encode(d), p, EncodeVli(n))
  BY <1>2, <1>3, InGoodIs, FieldLies
<1>5. s.pos < Len(EncodeVli(n)) /\ b.in_pos = p + s.pos /\ (s.pos # 0 => s.vli = n % VLI_BASE)
  BY <1>2, <1>3, SMTT(30) DEF InIndex
<1>6. \/ /\ s.pos = 0 /\ 1 < Len(EncodeVli(n)) /\ Taken(1).in_pos = p + 1
         /\ Continue([s EXCEPT !.vli = n % VLI_BASE, !.pos = 1], Taken(1))
      \/ /\ Taken(1).in_pos = p + Len(EncodeVli(n))
         /\ IndexField([s EXCEPT !.vli = n, !.pos = 0])
  BY <1>4, <1>5, VliGoesOn, Zenon
<1>7. CASE /\ s.pos = 0 /\ 1 < Len(EncodeVli(n)) /\ Taken(1).in_pos = p + 1
           /\ Continue([s EXCEPT !.vli = n % VLI_BASE, !.pos = 1], Taken(1))
  <2>1. PICK x : x = [s EXCEPT !.vli = n % VLI_BASE, !.pos = 1]
    OBVIOUS
  <2>2. /\ x.pos = 1 /\ x.vli = n % VLI_BASE /\ x.index = s.index /\ x.sequence = s.sequence
        /\ x.crc = s.crc /\ x.check_type = s.check_type /\ x.block = s.block
        /\ x.in_start = s.in_start /\ x.out_start = s.out_start
    BY <2>1, InGoodIs DEF DecoderType
  <2>3. AtIndex(d, s, b, s.in_start)
    BY <1>2 DEF InIndex
  <2>4. PICK buf : buf = Taken(1)
    OBVIOUS
  <2>5. AtIndex(d, s, buf, s.in_start)
    BY <1>1, <2>3, <2>4, AtIndexStays
  <2>6. AtIndex(d, x, buf, s.in_start)
    BY <2>2, <2>5 DEF AtIndex, BlocksDone
  <2>7. InIndex(d, x, buf, s.in_start, r)
    BY <1>1, <1>2, <1>3, <1>7, <2>2, <2>4, <2>6 DEF InIndex
  <2>8. Follows(d, x, buf, x.in_start, x.out_start)
    BY <2>2, <2>7, SMTT(30) DEF Follows
  <2>9. QED
    BY <1>7, <2>1, <2>4, <2>8, GoesOn
<1>8. CASE /\ Taken(1).in_pos = p + Len(EncodeVli(n))
           /\ IndexField([s EXCEPT !.vli = n, !.pos = 0])
  <2>1. s.index.sequence \in IndexSequences
    BY InGoodIs DEF DecoderType, IndexType
  <2>2. QED
    BY <1>1, <1>2, <1>3, <1>8, <2>1, CountGood, UnpaddedGood, UncompressedGood, Zenon DEF IndexSequences
<1>9. QED
  BY <1>6, <1>7, <1>8

\* dec_main() on a good stream
LEMMA MainGood ==
  ASSUME NEW d, InGood(d), dec_main
  PROVE  GoodOutcome(d)
BY FillSomeGood, StreamHeaderGood, BlockStartGood, DecBlockHeaderGood, NoMemoryGood, FilterPausesGood,
  FilterReadsGood, FilterDecodesGood, FilterWritesGood, FilterEndsGood, BlockPaddingGood, BlockCheckGood,
  DecIndexGood, IndexPaddingGood, IndexCompleteGood, IndexCrc32Good, StreamFooterGood, WaitGood
  DEF dec_main

-----------------------------------------------------------------------------
(* What has come out of a good stream, and what is to come.                *)

\* What follows a good stream does not depend on the rest of the state.
SameState(x, y) ==
  /\ y.sequence = x.sequence /\ y.pos = x.pos /\ y.vli = x.vli /\ y.crc = x.crc
  /\ y.check_type = x.check_type /\ y.block_header = x.block_header /\ y.block = x.block
  /\ y.index = x.index /\ y.temp = x.temp /\ y.filter = x.filter

\* So a good stream is still followed when only other fields change.
LEMMA FollowsStays ==
  ASSUME NEW d, NEW x, NEW y, SameState(x, y), NEW v, NEW w, w.in_pos = v.in_pos, w.out = v.out,
         NEW p, NEW q, Follows(d, x, v, p, q)
  PROVE  Follows(d, y, w, p, q)
<1>1. /\ InStreamHeader(d, x, v) => InStreamHeader(d, y, w)
      /\ \A k : AtBlockStart(d, x, v, k) => AtBlockStart(d, y, w, k)
      /\ \A k : InBlockHeader(d, x, v, k) => InBlockHeader(d, y, w, k)
  BY DEF SameState, InStreamHeader, AtBlockStart, InBlockHeader, InBuf, BlocksDone, Fresh
<1>2. \A k, i : InBlock(d, x, v, p, q, k, i) => InBlock(d, y, w, p, q, k, i)
  <2>1. \A k, i : Decodes(d, x, v, k, i) => Decodes(d, y, w, k, i)
    BY Zenon DEF SameState, Decodes
  <2>2. \A k : Counts(d, x, v, k, p, q) => Counts(d, y, w, k, p, q)
    BY Zenon DEF SameState, Counts
  <2>3. \A k : BlocksDone(d, x, k) => BlocksDone(d, y, k)
    BY Zenon DEF SameState, BlocksDone
  <2>4. QED
    BY <2>1, <2>2, <2>3 DEF SameState, InBlock, Fresh
<1>3. /\ \A k, n : InBlockPadding(d, x, v, k, n) => InBlockPadding(d, y, w, k, n)
      /\ \A k : InBlockCheck(d, x, v, k) => InBlockCheck(d, y, w, k)
  BY DEF SameState, InBlockPadding, InBlockCheck, BlocksDone, Fresh
<1>4. AtIndex(d, x, v, p) => AtIndex(d, y, w, p)
  BY DEF SameState, AtIndex, BlocksDone
<1>5. /\ \A r : InIndex(d, x, v, p, r) => InIndex(d, y, w, p, r)
      /\ \A n : InIndexPadding(d, x, v, p, n) => InIndexPadding(d, y, w, p, n)
  BY <1>4, Zenon DEF SameState, InIndex, InIndexPadding
<1>6. /\ InIndexCrc32(d, x, v) => InIndexCrc32(d, y, w)
      /\ InStreamFooter(d, x, v) => InStreamFooter(d, y, w)
  BY DEF SameState, InIndexCrc32, InStreamFooter, InBuf
<1>7. QED
  BY <1>1, <1>2, <1>3, <1>5, <1>6, Zenon DEF Follows

\* What begins as another sequence does is a prefix of it.
LEMMA StartsWith ==
  ASSUME NEW T, NEW u \in Seq(T), NEW w \in Seq(T), NEW l, l = Len(u), l <= Len(w),
         \A i \in 1..l : w[i] = u[i]
  PROVE  SubSeq(u, 1, l) = SubSeq(w, 1, l) /\ IsPrefix(u, w) /\ (l = Len(w) => u = w)
<1>1. PICK x, y : x = SubSeq(u, 0 + 1, l) /\ y = SubSeq(w, 0 + 1, l)
  OBVIOUS
<1>2. l \in Nat /\ 0 <= l /\ l - 0 = l /\ l <= Len(u)
  OBVIOUS
<1>3. x \in Seq(T) /\ Len(x) = l - 0 /\ \A i \in 1..(l - 0) : x[i] = u[0 + i]
  BY <1>1, <1>2, PieceIs
<1>4. y \in Seq(T) /\ Len(y) = l - 0 /\ \A i \in 1..(l - 0) : y[i] = w[0 + i]
  BY <1>1, <1>2, PieceIs
<1>5. \A i \in 1..Len(x) : x[i] = y[i]
  BY <1>2, <1>3, <1>4
<1>6. x = y
  BY <1>3, <1>4, <1>5, SeqEqual
<1>7. SubSeq(u, 1, l) = SubSeq(w, 1, l)
  BY <1>1, <1>6
<1>8. ASSUME l = Len(w) PROVE u = w
  <2>1. \A i \in 1..Len(u) : u[i] = w[i]
    OBVIOUS
  <2>2. QED
    BY <1>8, <2>1, SeqEqual
<1>9. IsPrefix(u, w)
  BY <1>7 DEF IsPrefix
<1>10. QED
  BY <1>7, <1>8, <1>9

\* What something begins with is a prefix of it, and shorter or the whole.
LEMMA BeginsIs ==
  ASSUME NEW u \in Seq(Byte), NEW w, Begins(u, w)
  PROVE  w \in Seq(Byte) /\ IsPrefix(u, w) /\ (Len(u) < Len(w) \/ u = w)
<1>1. PICK rest \in Seq(Byte) : w = u \o rest
  BY DEF Begins
<1>2. PICK l \in Nat, m \in Nat : l = Len(u) /\ m = Len(rest)
  OBVIOUS
<1>3. w \in Seq(Byte) /\ Len(w) = l + m /\ \A i \in 1..l : w[i] = u[i]
  BY <1>1, <1>2, ConcatIs
<1>4. IsPrefix(u, w)
  <2>1. l <= Len(w)
    BY <1>2, <1>3
  <2>2. QED
    BY <1>2, <1>3, <2>1, StartsWith
<1>5. Len(u) < Len(w) \/ u = w
  <2>1. CASE m = 0
    <3>1. Len(rest) = 0
      BY <1>2, <2>1
    <3>2. rest = <<>>
      BY <3>1
    <3>3. QED
      BY <1>1, <3>2
  <2>2. CASE m # 0
    BY <1>2, <1>3, <2>2
  <2>3. QED
    BY <2>1, <2>2
<1>6. QED
  BY <1>3, <1>4, <1>5

\* The content begins with nothing, with itself and with that of its first Blocks.
LEMMA ContentBegins ==
  ASSUME NEW d, GoodStream(d)
  PROVE  /\ Begins(<<>>, Content(d)) /\ Begins(Content(d), Content(d))
         /\ \A k \in 0..Len(d.blocks) : Begins(ContentTo(d, k), Content(d))
<1>1. Content(d) \in Seq(Byte) /\ <<>> \in Seq(Byte)
  BY GoodStreamIs
<1>2. Content(d) = <<>> \o Content(d) /\ Content(d) = Content(d) \o <<>>
  BY <1>1
<1>3. \A k \in 0..Len(d.blocks) : \E rest \in Seq(Byte) : Content(d) = ContentTo(d, k) \o rest
  BY GoodStreamIs
<1>4. QED
  BY <1>1, <1>2, <1>3 DEF Begins

\* Of a good stream a part of the content is put out, and more of it is to come when some
\* is ready.
LEMMA OutBegins ==
  ASSUME NEW d, GoodStream(d), NEW x \in DecoderType, NEW buf \in BufType, NEW p, NEW q,
         Follows(d, x, buf, p, q)
  PROVE  /\ Begins(buf.out, Content(d))
         /\ x.sequence = "SEQ_BLOCK_UNCOMPRESS" /\ x.filter.ready # <<>> => Len(buf.out) < Len(Content(d))
<1>1. \A k \in 0..(Len(d.blocks) - 1) : k \in 0..Len(d.blocks) /\ k + 1 \in 0..Len(d.blocks)
  BY GoodStreamIs
<1>2. ASSUME NEW k \in 0..(Len(d.blocks) - 1), NEW i, Decodes(d, x, buf, k, i)
      PROVE  /\ Begins(buf.out, Content(d))
             /\ x.filter.ready # <<>> => Len(buf.out) < Len(Content(d))
  <2>1. PICK r \in Seq(Byte) : ContentTo(d, k + 1) = buf.out \o r /\ (x.filter.ready # <<>> => r # <<>>)
    BY <1>2, OutIs
  <2>2. PICK t \in Seq(Byte) : Content(d) = ContentTo(d, k + 1) \o t
    BY <1>1, GoodStreamIs
  <2>3. PICK u \in Seq(Byte) : u = buf.out
    BY DEF BufType
  <2>4. PICK z : Joins(r, t, z)
    BY DEF Joins
  <2>5. PICK c : Joins(u, r, c) /\ Joins(c, t, Content(d))
    BY <2>1, <2>2, <2>3 DEF Joins
  <2>6. Joins(u, z, Content(d)) /\ z \in Seq(Byte)
    BY <2>4, <2>5, Associates
  <2>7. Begins(u, Content(d))
    BY <2>6 DEF Joins, Begins
  <2>8. ASSUME r # <<>> PROVE Len(u) < Len(Content(d))
    <3>1. PICK l \in Nat, m \in Nat, n \in Nat : l = Len(u) /\ m = Len(r) /\ n = Len(t)
      OBVIOUS
    <3>2. m # 0
      BY <2>8, <3>1
    <3>3. Len(z) = m + n
      BY <2>4, <3>1, ConcatIs DEF Joins
    <3>4. Len(Content(d)) = l + Len(z)
      BY <2>6, <3>1, ConcatIs DEF Joins
    <3>5. QED
      BY <3>1, <3>2, <3>3, <3>4
  <2>9. QED
    BY <2>1, <2>3, <2>7, <2>8
<1>3. CASE InStreamHeader(d, x, buf)
  BY <1>3, ContentBegins DEF InStreamHeader
<1>4. ASSUME NEW k \in 0..Len(d.blocks), AtBlockStart(d, x, buf, k)
      PROVE  Begins(buf.out, Content(d)) /\ x.sequence # "SEQ_BLOCK_UNCOMPRESS"
  BY <1>4, ContentBegins DEF AtBlockStart
<1>5. ASSUME NEW k \in 0..(Len(d.blocks) - 1), InBlockHeader(d, x, buf, k)
      PROVE  Begins(buf.out, Content(d)) /\ x.sequence # "SEQ_BLOCK_UNCOMPRESS"
  BY <1>1, <1>5, ContentBegins DEF InBlockHeader
<1>6. ASSUME NEW k \in 0..(Len(d.blocks) - 1), NEW n, InBlockPadding(d, x, buf, k, n)
      PROVE  Begins(buf.out, Content(d)) /\ x.sequence # "SEQ_BLOCK_UNCOMPRESS"
  BY <1>1, <1>6, ContentBegins DEF InBlockPadding
<1>7. ASSUME NEW k \in 0..(Len(d.blocks) - 1), InBlockCheck(d, x, buf, k)
      PROVE  Begins(buf.out, Content(d)) /\ x.sequence # "SEQ_BLOCK_UNCOMPRESS"
  BY <1>1, <1>7, ContentBegins DEF InBlockCheck
<1>8. ASSUME NEW r, InIndex(d, x, buf, p, r)
      PROVE  Begins(buf.out, Content(d)) /\ x.sequence # "SEQ_BLOCK_UNCOMPRESS"
  BY <1>8, ContentBegins DEF InIndex, AtIndex
<1>9. ASSUME NEW n, InIndexPadding(d, x, buf, p, n)
      PROVE  Begins(buf.out, Content(d)) /\ x.sequence # "SEQ_BLOCK_UNCOMPRESS"
  BY <1>9, ContentBegins DEF InIndexPadding, AtIndex
<1>10. CASE InIndexCrc32(d, x, buf)
  BY <1>10, ContentBegins DEF InIndexCrc32
<1>11. CASE InStreamFooter(d, x, buf)
  BY <1>11, ContentBegins DEF InStreamFooter
<1>12. ASSUME NEW k \in 0..(Len(d.blocks) - 1), NEW i, InBlock(d, x, buf, p, q, k, i)
       PROVE  Decodes(d, x, buf, k, i)
  BY <1>12 DEF InBlock
<1>13. QED
  BY <1>2, <1>3, <1>4, <1>5, <1>6, <1>7, <1>8, <1>9, <1>10, <1>11, <1>12, Zenon
    DEF Follows, InStreamHeader, InIndexCrc32, InStreamFooter

\* Where the parts of a stream end, as arithmetic.
LEMMA Early ==
  ASSUME NEW a \in Nat, NEW i \in Nat, NEW f \in Nat, NEW e, f = a + i + CHECK_BYTES,
         e = f + STREAM_HEADER_SIZE, NEW p \in Nat, p <= a + i + 1
  PROVE  p < e
BY DEF CHECK_BYTES, STREAM_HEADER_SIZE

\* ... and within a Block ...
LEMMA EarlyBlock ==
  ASSUME NEW p \in Nat, NEW q \in Nat, NEW c \in Nat, c <= 2, NEW n \in Nat, n = q + c,
         NEW a \in Nat, n <= a, p <= q + 1, NEW i \in Nat
  PROVE  p <= a + i + 1
OBVIOUS

\* ... and within a number.
LEMMA EarlyNumber ==
  ASSUME NEW f \in Nat, NEW m \in Nat, NEW n \in Nat, m < n, NEW e \in Nat, f + n <= e
  PROVE  f + m < e
OBVIOUS

\* As long as a good stream is followed, some of it is still to be read.
LEMMA Followed ==
  ASSUME NEW d, GoodStream(d), NEW x \in DecoderType, NEW buf \in BufType, Going(x), NEW p, NEW q,
         Follows(d, x, buf, p, q)
  PROVE  buf.in_pos < Len(Encode(d))
<1>1. /\ IndexAt(d) \in Nat /\ Len(EncodeIndex(d)) \in Nat /\ FooterAt(d) \in Nat
      /\ FooterAt(d) = IndexAt(d) + Len(EncodeIndex(d)) + CHECK_BYTES
      /\ Len(Encode(d)) = FooterAt(d) + STREAM_HEADER_SIZE
      /\ Len(d.blocks) \in Nat
  BY GoodStreamIs
<1>2. buf.in_pos \in Nat
  BY DEF BufType
<1>3. ASSUME buf.in_pos <= IndexAt(d) + Len(EncodeIndex(d)) + 1 PROVE buf.in_pos < Len(Encode(d))
  BY <1>1, <1>2, <1>3, Early
<1>4. x.pos \in Nat /\ x.pos < 2 /\ x.temp \in TempType /\ Len(x.temp.buf) \in Nat /\ x.temp.size \in Nat
  BY DEF DecoderType, TempType, Going, VLI_BYTES_MAX
<1>5. CASE InStreamHeader(d, x, buf)
  <2>1. buf.in_pos = 0 + Len(x.temp.buf) /\ Len(x.temp.buf) < 5
    BY <1>5 DEF InStreamHeader, InBuf, Going, STREAM_HEADER_SIZE
  <2>2. buf.in_pos < 5
    BY <1>4, <2>1
  <2>3. FooterAt(d) + STREAM_HEADER_SIZE >= 5
    BY <1>1 DEF STREAM_HEADER_SIZE
  <2>4. QED
    BY <1>1, <1>2, <2>2, <2>3
<1>6. ASSUME NEW k \in 0..Len(d.blocks), AtBlockStart(d, x, buf, k) PROVE buf.in_pos < Len(Encode(d))
  <2>1. buf.in_pos <= IndexAt(d)
    BY <1>6, GoodStreamIs DEF AtBlockStart
  <2>2. QED
    BY <1>1, <1>2, <1>3, <2>1
<1>7. ASSUME NEW k \in 0..(Len(d.blocks) - 1)
      PROVE  /\ PaddedTo(d, k) \in Nat /\ DataAt(d, k) \in Nat /\ DataAt(d, k) <= PaddedTo(d, k)
             /\ \A n \in Nat : n <= PaddedTo(d, k) + 1 => n < Len(Encode(d))
  <2>1. PICK blk : blk = d.blocks[k + 1]
    OBVIOUS
  <2>2. /\ PaddedTo(d, k) \in Nat /\ BlockAt(d, k + 1) = PaddedTo(d, k) + CheckSize(d.check)
        /\ BlockAt(d, k + 1) <= IndexAt(d)
    BY <1>7, <2>1, GoodBlockIs
  <2>3. CheckSize(d.check) \in Nat /\ CheckSize(d.check) <= 2
    BY DEF CheckSize, CHECK_BYTES
  <2>4. PICK c : c = CheckSize(d.check)
    OBVIOUS
  <2>5. PICK m : m = BlockAt(d, k + 1)
    OBVIOUS
  <2>6. m \in Nat
    BY <2>2, <2>3, <2>4, <2>5
  <2>7. \A n \in Nat : n <= PaddedTo(d, k) + 1 => n <= IndexAt(d) + Len(EncodeIndex(d)) + 1
    BY <1>1, <2>2, <2>3, <2>4, <2>5, <2>6, EarlyBlock
  <2>8. \A n \in Nat : n <= PaddedTo(d, k) + 1 => n < Len(Encode(d))
    BY <1>1, <2>7, Early
  <2>9. DataAt(d, k) \in Nat /\ DataAt(d, k) + Len(DataOf(d, k)) <= PaddedTo(d, k) /\ Len(DataOf(d, k)) \in Nat
    BY <1>7, DataIs
  <2>10. QED
    BY <2>2, <2>8, <2>9
<1>8. ASSUME NEW k \in 0..(Len(d.blocks) - 1), InBlockHeader(d, x, buf, k) PROVE buf.in_pos < Len(Encode(d))
  <2>1. /\ buf.in_pos = BlockAt(d, k) + Len(x.temp.buf) /\ Len(x.temp.buf) < x.temp.size
        /\ x.temp.size = Len(BlockHeader(d.blocks[k + 1]))
    BY <1>8 DEF InBlockHeader, InBuf
  <2>2. BlockAt(d, k) \in Nat /\ DataAt(d, k) = BlockAt(d, k) + x.temp.size
    BY <1>8, <2>1, GoodBlockIs
  <2>3. buf.in_pos <= DataAt(d, k)
    BY <1>4, <2>1, <2>2, SMTT(30)
  <2>4. buf.in_pos <= PaddedTo(d, k) + 1
    BY <1>2, <1>7, <2>3
  <2>5. QED
    BY <1>2, <1>7, <2>4
<1>9. ASSUME NEW k \in 0..(Len(d.blocks) - 1), NEW i, InBlock(d, x, buf, p, q, k, i)
      PROVE  buf.in_pos < Len(Encode(d))
  <2>1. i \in 0..Len(DataOf(d, k)) /\ buf.in_pos = DataAt(d, k) + i
    BY <1>9 DEF InBlock, Decodes, DataOf
  <2>2. DataAt(d, k) \in Nat /\ DataAt(d, k) + Len(DataOf(d, k)) <= PaddedTo(d, k) /\ Len(DataOf(d, k)) \in Nat
    BY <1>9, DataIs
  <2>3. buf.in_pos <= PaddedTo(d, k) + 1
    BY <1>7, <2>1, <2>2
  <2>4. QED
    BY <1>2, <1>7, <2>3
<1>10. ASSUME NEW k \in 0..(Len(d.blocks) - 1), NEW n, InBlockPadding(d, x, buf, k, n)
       PROVE  buf.in_pos < Len(Encode(d))
  <2>1. buf.in_pos <= PaddedTo(d, k)
    BY <1>10 DEF InBlockPadding
  <2>2. buf.in_pos <= PaddedTo(d, k) + 1
    BY <1>2, <1>7, <2>1
  <2>3. QED
    BY <1>2, <1>7, <2>2
<1>11. ASSUME NEW k \in 0..(Len(d.blocks) - 1), InBlockCheck(d, x, buf, k) PROVE buf.in_pos < Len(Encode(d))
  <2>1. buf.in_pos = PaddedTo(d, k) + x.pos
    BY <1>11 DEF InBlockCheck
  <2>2. buf.in_pos <= PaddedTo(d, k) + 1
    BY <1>4, <1>7, <2>1
  <2>3. QED
    BY <1>2, <1>7, <2>2
<1>12. ASSUME NEW r \in 0..Len(d.blocks), InIndex(d, x, buf, p, r) PROVE buf.in_pos < Len(Encode(d))
  <2>1. PICK n, f : n = FieldIs(d, x.index.sequence, r) /\ f = FieldAt(d, x.index.sequence, r)
    OBVIOUS
  <2>2. f \in Nat /\ Lies(Encode(d), f, EncodeVli(n)) /\ Len(EncodeVli(n)) \in 1..2
    BY <1>12, <2>1, FieldLies
  <2>3. x.pos < Len(EncodeVli(n)) /\ buf.in_pos = f + x.pos
    BY <1>12, <2>1 DEF InIndex
  <2>4. f + Len(EncodeVli(n)) <= Len(Encode(d)) /\ Len(EncodeVli(n)) \in Nat /\ Len(Encode(d)) \in Nat
    BY <1>1, <2>2 DEF Lies, STREAM_HEADER_SIZE
  <2>5. QED
    BY <1>4, <2>2, <2>3, <2>4, EarlyNumber
<1>13. ASSUME NEW n, InIndexPadding(d, x, buf, p, n) PROVE buf.in_pos < Len(Encode(d))
  <2>1. buf.in_pos <= IndexAt(d) + Len(EncodeIndex(d))
    BY <1>13 DEF InIndexPadding
  <2>2. QED
    BY <1>1, <1>2, <1>3, <2>1
<1>14. CASE InIndexCrc32(d, x, buf)
  <2>1. buf.in_pos = IndexAt(d) + Len(EncodeIndex(d)) + x.pos
    BY <1>14 DEF InIndexCrc32
  <2>2. QED
    BY <1>1, <1>3, <1>4, <2>1
<1>15. CASE InStreamFooter(d, x, buf)
  <2>1. buf.in_pos = FooterAt(d) + Len(x.temp.buf) /\ Len(x.temp.buf) < STREAM_HEADER_SIZE
    BY <1>15 DEF InStreamFooter, InBuf, Going
  <2>2. QED
    BY <1>1, <1>4, <2>1 DEF STREAM_HEADER_SIZE
<1>16. QED
  BY <1>5, <1>6, <1>8, <1>9, <1>10, <1>11, <1>12, <1>13, <1>14, <1>15, Zenon DEF Follows

-----------------------------------------------------------------------------
(* A good stream is followed from the first call to the last.              *)

\* Before the first call a good stream is at its Stream Header.
LEMMA SoundStarts ==
  ASSUME Init
  PROVE  SoundInv
<1>1. PICK c \in Cases :
        /\ content = Content(c[1]) /\ verdict = Verdict(c[1]) /\ harm = c[2]
        /\ \/ harm = "none" /\ input = Encode(c[1])
           \/ harm = "cut" /\ \E n \in 0..(Len(Encode(c[1])) - 1) : input = SubSeq(Encode(c[1]), 1, n)
           \/ harm = "corrupt"
  BY DEF Init
<1>2. PICK d : d = c[1]
  OBVIOUS
<1>3. d \in StreamType /\ BackwardSize(d) \in Byte
  BY <1>2, CasesAssumption
<1>4. SUFFICES ASSUME Sound PROVE GoodStream(d) /\ Arrives(d) /\ State(d)
  BY <1>2 DEF SoundInv
<1>5. GoodStream(d)
  BY <1>1, <1>2, <1>3, <1>4, VerdictIs DEF Sound
<1>6. PICK u \in Seq(Byte) : u = Encode(d)
  BY <1>5, GoodStreamIs
<1>7. Arrives(d)
  <2>1. CASE harm = "none"
    <3>1. input = u
      BY <1>1, <1>2, <1>6, <2>1
    <3>2. Len(input) <= Len(u) /\ \A i \in 1..Len(input) : input[i] = u[i]
      BY <3>1
    <3>3. QED
      BY <1>1, <1>2, <1>6, <2>1, <3>1, <3>2 DEF Arrives
  <2>2. CASE harm = "cut"
    <3>1. PICK n \in 0..(Len(u) - 1) : input = SubSeq(u, 1, n)
      BY <1>1, <1>2, <1>6, <2>2
    <3>2. Len(input) = n /\ n < Len(u) /\ \A i \in 1..n : input[i] = u[i]
      <4>1. PICK v : v = SubSeq(u, 0 + 1, n)
        OBVIOUS
      <4>2. n \in Nat /\ 0 <= n /\ n <= Len(u) /\ n < Len(u)
        OBVIOUS
      <4>3. Len(v) = n - 0 /\ \A i \in 1..(n - 0) : v[i] = u[0 + i]
        BY <4>1, <4>2, PieceIs
      <4>4. v = input
        BY <3>1, <4>1
      <4>5. n - 0 = n /\ \A i \in 1..n : 0 + i = i
        OBVIOUS
      <4>6. QED
        BY <4>2, <4>3, <4>4, <4>5
    <3>3. Len(input) <= Len(u) /\ Len(input) # Len(u)
      BY <3>2
    <3>4. QED
      BY <1>1, <1>2, <1>6, <2>2, <3>2, <3>3 DEF Arrives
  <2>3. QED
    BY <1>1, <1>4, <2>1, <2>2 DEF Sound
<1>8. State(d)
  <2>1. s = NewDecoder /\ pc = "caller" /\ ret = "none" /\ b.in_pos = 0 /\ b.out = <<>>
    BY DEF Init
  <2>2. InBuf(d, NewDecoder, b, 0)
    <3>1. Len(<<>>) = 0 /\ 0 < STREAM_HEADER_SIZE
      BY DEF STREAM_HEADER_SIZE
    <3>2. NewDecoder.temp.buf = <<>> /\ NewDecoder.temp.size = STREAM_HEADER_SIZE
      BY DEF NewDecoder
    <3>3. QED
      BY <2>1, <3>1, <3>2 DEF InBuf
  <2>3. InStreamHeader(d, NewDecoder, b)
    BY <2>1, <2>2 DEF InStreamHeader, NewDecoder, Fresh
  <2>4. QED
    BY <2>1, <2>3 DEF State, Follows
<1>9. QED
  BY <1>5, <1>7, <1>8

\* A call begins where the last one ended.
LEMMA CallFollows ==
  ASSUME TypeInv, Call, NEW d, GoodStream(d), State(d)
  PROVE  State(d)'
<1>1. /\ pc = "caller" /\ pc' = "main" /\ ret \in {"none", "XZ_OK"} /\ ret' = ret
  BY DEF Call
<1>2. Follows(d, s, b, b.in_pos, Len(b.out))
  BY <1>1 DEF State
<1>3. /\ b'.in_pos = b.in_pos /\ b'.out = b.out /\ s' = [s EXCEPT !.in_start = b.in_pos, !.out_start = Len(b.out)]
  BY CallKeeps
<1>4. s \in DecoderType
  BY DEF TypeInv, Typed
<1>5. SameState(s, s') /\ s'.in_start = b.in_pos /\ s'.out_start = Len(b.out)
  BY <1>3, <1>4 DEF SameState, DecoderType
<1>6. Follows(d, s', b', b.in_pos, Len(b.out))
  <2>1. PICK v, w : v = b /\ w = b'
    OBVIOUS
  <2>2. w.in_pos = v.in_pos /\ w.out = v.out
    BY <1>3, <2>1
  <2>3. QED
    BY <1>2, <1>5, <2>1, <2>2, FollowsStays
<1>7. Follows(d, s', b', s'.in_start, s'.out_start)
  BY <1>5, <1>6, SMTT(30)
<1>8. QED
  BY <1>1, <1>7 DEF State

\* dec_main() runs within a call.
LEMMA InMainNow ==
  ASSUME dec_main
  PROVE  pc = "main"
BY DEF dec_main, At, FillSome, WaitForInput, Wait, StreamHeader, BlockStart, DecBlockHeader,
   NoMemory, FilterPauses, FilterReads, FilterDecodes, FilterWrites, FilterEnds, BlockPadding,
   BlockCheck, DecIndex, IndexPadding, IndexComplete, IndexCrc32, StreamFooter, IndexWaits,
   IndexPaddingWaits

\* Every step of the decoder on a good stream keeps to it.
LEMMA MainFollows ==
  ASSUME TypeInv, TypeInv', dec_main, NEW d, GoodStream(d), Arrives(d), State(d)
  PROVE  State(d)'
<1>1. pc = "main" /\ ret \in {"none", "XZ_OK"}
  BY InMainNow DEF TypeInv, CallInv
<1>2. GoodOutcome(d)
  BY <1>1, MainGood DEF InGood, InMain, State
<1>3. ASSUME NEW x, NEW buf, Continue(x, buf), Follows(d, x, buf, x.in_start, x.out_start)
      PROVE  State(d)'
  <2>1. s' = x /\ b' = buf /\ pc' = pc /\ ret' = ret
    BY <1>3 DEF Continue
  <2>2. Follows(d, s', b', s'.in_start, s'.out_start)
    BY <1>3, <2>1
  <2>3. QED
    BY <1>1, <2>1, <2>2 DEF State
<1>4. ASSUME NEW x, NEW buf, Return(x, buf, "XZ_OK"), Follows(d, x, buf, buf.in_pos, Len(buf.out))
      PROVE  State(d)'
  <2>1. PICK stuck \in BOOLEAN : s' = [x EXCEPT !.allow_buf_error = stuck]
    BY <1>4 DEF Return
  <2>2. b' = buf /\ pc' = "caller" /\ ret' \in {"XZ_OK", "XZ_BUF_ERROR"}
    BY <1>4 DEF Return
  <2>3. s' \in DecoderType
    BY DEF TypeInv, Typed
  <2>4. SameState(x, s')
    BY <2>1, <2>3 DEF SameState, DecoderType
  <2>5. Follows(d, s', b', buf.in_pos, Len(buf.out))
    BY <1>4, <2>2, <2>4, FollowsStays
  <2>6. Follows(d, s', b', b'.in_pos, Len(b'.out))
    BY <2>2, <2>5
  <2>7. QED
    BY <2>2, <2>6 DEF State
<1>5. ASSUME NEW x, NEW buf, Return(x, buf, "XZ_STREAM_END"), buf.in_pos = Len(Encode(d)),
             buf.out = Content(d)
      PROVE  State(d)'
  <2>1. b' = buf /\ pc' = "caller" /\ ret' = "XZ_STREAM_END"
    BY <1>5 DEF Return
  <2>2. QED
    BY <1>5, <2>1 DEF State
<1>6. ASSUME NEW x, NEW buf, Return(x, buf, "XZ_MEM_ERROR"), buf.out = b.out
      PROVE  State(d)'
  <2>1. b' = buf /\ pc' = "caller" /\ ret' = "XZ_MEM_ERROR"
    BY <1>6 DEF Return
  <2>2. Follows(d, s, b, s.in_start, s.out_start) /\ s \in DecoderType /\ b \in BufType
    BY <1>1 DEF State, TypeInv, Typed, BufferOK
  <2>3. Begins(b'.out, Content(d))
    BY <1>6, <2>1, <2>2, OutBegins
  <2>4. QED
    BY <2>1, <2>3 DEF State
<1>7. QED
  BY <1>2, <1>3, <1>4, <1>5, <1>6 DEF GoodOutcome

\* The stream is not changed while it is read.
LEMMA SourceStays ==
  ASSUME [Next]_vars, TypeInv
  PROVE  content' = content /\ verdict' = verdict /\ harm' = harm /\ input' = input
<1>1. CASE dec_main
  BY <1>1, InMainNow, MainOK DEF Outcome, Continue, Return, source
<1>2. QED
  BY <1>1, Zenon DEF Next, Call, Done, vars, source

\* Every step keeps to a good stream.
LEMMA SoundKept ==
  ASSUME TypeInv, SoundInv, [Next]_vars
  PROVE  SoundInv'
<1>1. TypeInv'
  BY TypeKept
<1>2. content' = content /\ verdict' = verdict /\ harm' = harm /\ input' = input
  BY SourceStays
<1>3. ASSUME Sound PROVE \E c \in Cases : GoodStream(c[1]) /\ Arrives(c[1])' /\ State(c[1])'
  <2>1. PICK c \in Cases : GoodStream(c[1]) /\ Arrives(c[1]) /\ State(c[1])
    BY <1>3 DEF SoundInv
  <2>2. PICK d : d = c[1]
    OBVIOUS
  <2>3. GoodStream(d) /\ Arrives(d) /\ State(d)
    BY <2>1, <2>2
  <2>4. Arrives(d)'
    BY <1>2, <2>3 DEF Arrives
  <2>5. State(d)'
    <3>1. CASE Call
      BY <2>3, <3>1, CallFollows
    <3>2. CASE dec_main
      BY <1>1, <2>3, <3>2, MainFollows
    <3>3. CASE UNCHANGED <<b, s, pc, ret>>
      <4>1. State(d)' <=> State(d)
        BY <3>3 DEF State
      <4>2. QED
        BY <2>3, <4>1
    <3>4. QED
      BY <3>1, <3>2, <3>3 DEF Next, Done, vars
  <2>6. QED
    BY <2>2, <2>3, <2>4, <2>5
<1>4. Sound' <=> Sound
  BY <1>2 DEF Sound
<1>5. QED
  BY <1>3, <1>4 DEF SoundInv

\* The decoder is at the same place of a good stream as the packer was, for every stream,
\* however it is handed over: what is checked, counted and put out is that of the packer.
THEOREM InvariantCorrect == Spec => [](TypeInv /\ SoundInv)
<1>1. Init => TypeInv /\ SoundInv
  BY TypeStarts, SoundStarts
<1>2. TypeInv /\ SoundInv /\ [Next]_vars => (TypeInv /\ SoundInv)'
  BY TypeKept, SoundKept
<1>3. QED
  BY <1>1, <1>2, PTL DEF Spec

-----------------------------------------------------------------------------
(* What the container promises.                                            *)

Size == IF harm = "cut" THEN Len(input) + 1 ELSE Len(input)

\* What SoundInv says of a good stream without a word about its format.
SoundPromise ==
  Sound =>
    /\ ret \in {"none", "XZ_OK", "XZ_BUF_ERROR", "XZ_MEM_ERROR", "XZ_STREAM_END"}
    /\ pc = "caller" => IsPrefix(b.out, content)
    /\ pc = "caller" /\ ret \in {"none", "XZ_OK", "XZ_BUF_ERROR"} =>
         /\ b.in_pos < Size
         /\ s.sequence = "SEQ_BLOCK_UNCOMPRESS" /\ s.filter.ready # <<>> => Len(b.out) < Len(content)
    /\ pc = "caller" /\ ret = "XZ_STREAM_END" => b.out = content /\ b.in_pos = Size /\ harm = "none"

\* It follows from the invariant.
LEMMA PromiseHolds == TypeInv /\ SoundInv => SoundPromise
<1> SUFFICES ASSUME TypeInv, SoundInv, Sound PROVE SoundPromise
  BY DEF SoundPromise
<1>1. PICK c \in Cases : GoodStream(c[1]) /\ Arrives(c[1]) /\ State(c[1])
  BY DEF SoundInv
<1>2. PICK d : d = c[1]
  OBVIOUS
<1>3. GoodStream(d) /\ Arrives(d) /\ State(d) /\ content = Content(d)
  BY <1>1, <1>2 DEF Arrives
<1>4. /\ s \in DecoderType /\ b \in BufType /\ b.out \in Seq(Byte) /\ b.in_pos \in Nat /\ b.in_size \in Nat
      /\ b.in_pos <= b.in_size /\ b.in_size <= Len(input) /\ input \in Seq(Byte) /\ Len(input) \in Nat
  BY DEF TypeInv, Typed, BufferOK, BufType
<1>5. Content(d) \in Seq(Byte) /\ Len(Encode(d)) \in Nat
  BY <1>3, GoodStreamIs DEF STREAM_HEADER_SIZE
<1>6. /\ harm \in {"none", "cut"} /\ Len(input) <= Len(Encode(d))
      /\ Len(input) = Len(Encode(d)) <=> harm # "cut"
  BY <1>3 DEF Arrives
<1>7. ASSUME b.in_pos < Len(Encode(d)) PROVE b.in_pos < Size
  BY <1>4, <1>5, <1>6, <1>7 DEF Size
<1>8. ASSUME b.in_pos = Len(Encode(d)) PROVE b.in_pos = Size /\ harm = "none"
  BY <1>4, <1>5, <1>6, <1>8 DEF Size
<1>9. ASSUME pc = "caller", ret \in {"none", "XZ_OK", "XZ_BUF_ERROR"}
      PROVE  /\ Begins(b.out, Content(d)) /\ b.in_pos < Size
             /\ s.sequence = "SEQ_BLOCK_UNCOMPRESS" /\ s.filter.ready # <<>> => Len(b.out) < Len(content)
  <2>1. Follows(d, s, b, b.in_pos, Len(b.out)) /\ Going(s)
    BY <1>3, <1>9 DEF State, TypeInv, CallInv
  <2>2. b.in_pos < Len(Encode(d))
    BY <1>3, <1>4, <2>1, Followed
  <2>3. QED
    BY <1>3, <1>4, <1>7, <2>1, <2>2, OutBegins
<1>10. ASSUME pc = "caller", ret = "XZ_STREAM_END"
       PROVE  Begins(b.out, Content(d)) /\ b.out = content /\ b.in_pos = Size /\ harm = "none"
  <2>1. b.in_pos = Len(Encode(d)) /\ b.out = Content(d)
    BY <1>3, <1>10 DEF State
  <2>2. QED
    BY <1>3, <1>8, <2>1, ContentBegins
<1>11. ret \in {"none", "XZ_OK", "XZ_BUF_ERROR", "XZ_MEM_ERROR", "XZ_STREAM_END"}
  BY <1>3 DEF State
<1>12. ASSUME pc = "caller" PROVE IsPrefix(b.out, content)
  <2>1. Begins(b.out, Content(d))
    BY <1>3, <1>9, <1>10, <1>11, <1>12 DEF State
  <2>2. QED
    BY <1>3, <1>4, <2>1, BeginsIs
<1>13. QED
  BY <1>9, <1>10, <1>11, <1>12 DEF SoundPromise

\* A stream that is what its packer made, or the start of it, is never found to be bad, and
\* found to be whole only when it is; a decoder that has an answer at all has this one.
THEOREM SoundVerdict == Spec => [](Sound => VerdictIsRight)
<1>1. TypeInv /\ SoundInv => (Sound => VerdictIsRight)
  <2> SUFFICES ASSUME TypeInv, SoundInv, Sound, Over
               PROVE  harm = "none" /\ ret = verdict
    BY DEF VerdictIsRight, Sound
  <2>1. ret = "XZ_STREAM_END" /\ pc = "caller"
    BY PromiseHolds DEF SoundPromise, Over
  <2>2. QED
    BY <2>1, PromiseHolds DEF SoundPromise, Sound
<1>2. QED
  BY <1>1, InvariantCorrect, PTL

-----------------------------------------------------------------------------
(* The container implements the abstract decoder.                          *)

\* What the caller has seen: a call in progress has shown nothing yet.
Used == IF busy THEN start.in_pos ELSE b.in_pos
Out == IF busy THEN SubSeq(b.out, 1, start.out_pos) ELSE b.out
Room == IF busy THEN b.room + Len(b.out) - start.out_pos ELSE 0

\* The container begins as a decoder does.
LEMMA RefinesInit == TypeInv /\ Init => Contract!Init
<1> SUFFICES ASSUME TypeInv, Init PROVE Contract!Init
  OBVIOUS
<1>1. Len(input) \in Nat
  BY DEF TypeInv
<1>2. pc = "caller" /\ ret = "none" /\ idle = 0 /\ b = [in_pos |-> 0, in_size |-> 0, out |-> <<>>, room |-> 0]
  BY DEF Init
<1>3. ~busy /\ b.in_pos = 0 /\ b.in_size = 0 /\ b.out = <<>>
  BY <1>2 DEF busy
<1>4. (harm # "corrupt" /\ verdict = "XZ_STREAM_END") \in BOOLEAN
  OBVIOUS
<1>5. (IF harm = "cut" THEN Len(input) + 1 ELSE Len(input)) \in Nat
  BY <1>1
<1>6. QED
  BY <1>2, <1>3, <1>4, <1>5 DEF Contract!Init, busy

\* A caller brings input and room.
LEMMA RefinesCall ==
  ASSUME TypeInv, Call
  PROVE  Contract!Call
<1>1. /\ pc = "caller" /\ pc' = "main" /\ ret \in {"none", "XZ_OK"}
      /\ ret' = ret /\ idle' = idle /\ content' = content /\ verdict' = verdict /\ harm' = harm
      /\ input' = input
  BY DEF Call, source
<1>2. /\ b'.in_pos = b.in_pos /\ b'.out = b.out /\ b'.in_size \in Nat /\ b'.room \in Nat
      /\ b.in_size <= b'.in_size /\ start' = [in_pos |-> b.in_pos, out_pos |-> Len(b.out)]
  BY CallKeeps
<1>3. b.out \in Seq(Byte) /\ Len(b.out) \in Nat
  BY DEF TypeInv, BufferOK, BufType
<1>4. start'.in_pos = b.in_pos /\ start'.out_pos = Len(b.out) /\ SubSeq(b.out, 1, Len(b.out)) = b.out
  BY <1>2, <1>3
<1>5. ~busy /\ busy'
  BY <1>1 DEF busy
<1>6. Used' = Used /\ Out' = Out
  BY <1>2, <1>4, <1>5 DEF Used, Out
<1>7. Room' \in Nat
  <2>1. Room' = b'.room + Len(b.out) - Len(b.out)
    BY <1>2, <1>4, <1>5 DEF Room
  <2>2. QED
    BY <1>2, <1>3, <2>1
<1>8. b.in_size \in Nat /\ b'.in_size >= b.in_size
  BY <1>2 DEF TypeInv, BufferOK, BufType
<1>9. QED
  BY <1>1, <1>2, <1>5, <1>6, <1>7, <1>8, Zenon DEF Contract!Call, Contract!stream, Used, Out, Room

\* What happens within a call is not seen.
LEMMA RefinesContinue ==
  ASSUME TypeInv, pc = "main", NEW x, NEW buf, Continue(x, buf), Goes(x, buf)
  PROVE  UNCHANGED Contract!vars
<1>1. /\ b' = buf /\ start' = start /\ pc' = pc /\ ret' = ret /\ idle' = idle
      /\ content' = content /\ verdict' = verdict /\ harm' = harm /\ input' = input
  BY DEF Continue, source
<1>2. busy /\ busy'
  BY <1>1 DEF busy
<1>3. /\ buf.in_size = b.in_size /\ buf.room + Len(buf.out) = b.room + Len(b.out)
      /\ Len(b.out) <= Len(buf.out) /\ \A i \in 1..Len(b.out) : buf.out[i] = b.out[i]
      /\ buf.out \in Seq(Byte) /\ b.out \in Seq(Byte) /\ buf.room \in Nat /\ b.room \in Nat
      /\ start.out_pos \in Nat /\ start.out_pos <= Len(b.out)
  BY DEF Goes, Grows, BufferOK, BufType, TypeInv, CallInv
<1>4. SubSeq(buf.out, 1, start.out_pos) = SubSeq(b.out, 1, start.out_pos)
  <2>1. PICK u \in Seq(Byte), w \in Seq(Byte), l \in Nat : u = b.out /\ w = buf.out /\ l = start.out_pos
    BY <1>3
  <2>2. 0 <= l /\ l <= Len(u) /\ l <= Len(w) /\ l - 0 = l
    BY <1>3, <2>1
  <2>3. PICK y, z : y = SubSeq(u, 0 + 1, l) /\ z = SubSeq(w, 0 + 1, l)
    OBVIOUS
  <2>4. y \in Seq(Byte) /\ Len(y) = l - 0 /\ \A i \in 1..(l - 0) : y[i] = u[0 + i]
    BY <2>2, <2>3, PieceIs
  <2>5. z \in Seq(Byte) /\ Len(z) = l - 0 /\ \A i \in 1..(l - 0) : z[i] = w[0 + i]
    BY <2>2, <2>3, PieceIs
  <2>6. \A i \in 1..l : w[i] = u[i]
    BY <1>3, <2>1, <2>2
  <2>7. \A i \in 1..Len(z) : z[i] = y[i]
    BY <2>2, <2>4, <2>5, <2>6
  <2>8. z = y
    BY <2>4, <2>5, <2>7, SeqEqual
  <2>9. QED
    BY <2>1, <2>3, <2>8
<1>5. Used' = Used /\ Out' = Out /\ Room' = Room
  <2>1. Used' = Used
    BY <1>1, <1>2 DEF Used
  <2>2. Out' = Out
    BY <1>1, <1>2, <1>4 DEF Out
  <2>3. Room = b.room + (Len(b.out) - start.out_pos)
    BY <1>2 DEF Room
  <2>4. Room' = b'.room + (Len(b'.out) - start'.out_pos)
    BY <1>2 DEF Room
  <2>5. b'.room + (Len(b'.out) - start'.out_pos) = b.room + (Len(b.out) - start.out_pos)
    <3>1. PICK m \in Nat, n \in Nat, k \in Nat, l \in Nat, o \in Nat :
            /\ m = b.room /\ n = Len(b.out) /\ k = buf.room /\ l = Len(buf.out)
            /\ o = start.out_pos
      BY <1>3
    <3>2. k + l = m + n
      BY <1>3, <3>1
    <3>3. k + (l - o) = m + (n - o)
      BY <3>2
    <3>4. QED
      BY <1>1, <3>1, <3>3
  <2>6. Room' = Room
    BY <2>3, <2>4, <2>5
  <2>7. QED
    BY <2>1, <2>2, <2>6
<1>6. QED
  BY <1>1, <1>2, <1>3, <1>5, Zenon DEF Contract!vars, Used, Out, Room

\* Room used up is output gained.
LEMMA RoomIs ==
  ASSUME NEW l \in Nat, NEW n \in Nat, NEW o \in Nat, NEW r \in Nat, NEW m \in Nat, o <= n,
         m + l = r + n
  PROVE  /\ l <= o + (r + (n - o))
         /\ l = o + (r + (n - o)) <=> m = 0
OBVIOUS

\* What is shown during a call.
LEMMA RoomHere ==
  ASSUME TypeInv, pc = "main"
  PROVE  Out \in Seq(Byte) /\ Room \in Nat
<1>1. /\ b.out \in Seq(Byte) /\ Len(b.out) \in Nat /\ b.room \in Nat /\ busy
      /\ start.out_pos \in Nat /\ start.out_pos <= Len(b.out)
  BY DEF TypeInv, BufferOK, BufType, CallInv, busy
<1>2. Out = SubSeq(b.out, 1, start.out_pos) /\ Room = b.room + (Len(b.out) - start.out_pos)
  BY <1>1 DEF Out, Room
<1>3. QED
  BY <1>1, <1>2, SMTT(30)

\* What the end of a call shows.
Shows(buf, result) ==
  /\ busy /\ busy' = FALSE
  /\ b' = buf /\ buf.in_size = b.in_size
  /\ Used = start.in_pos /\ Used' = buf.in_pos /\ Used' \in Used..b.in_size
  /\ Out' = buf.out /\ IsPrefix(Out, Out') /\ Len(Out') <= Len(Out) + Room
  /\ Out' = Out <=> Len(buf.out) = start.out_pos
  /\ Room' = 0 /\ Len(Out') = Len(Out) + Room <=> buf.room = 0
  /\ content' = content /\ verdict' = verdict /\ harm' = harm /\ input' = input

\* The end of a call shows what the call has done.
LEMMA ReturnShows ==
  ASSUME TypeInv, pc = "main", NEW x, NEW buf, NEW result, Return(x, buf, result),
         Stops(x, buf, result)
  PROVE  Shows(buf, result)
<1>1. /\ b' = buf /\ pc' = "caller"
      /\ content' = content /\ verdict' = verdict /\ harm' = harm /\ input' = input
  BY DEF Return, source
<1>2. busy /\ ~busy' /\ busy' = FALSE
  BY <1>1 DEF busy
<1>3. /\ buf.in_size = b.in_size /\ buf.room + Len(buf.out) = b.room + Len(b.out)
      /\ Len(b.out) <= Len(buf.out) /\ \A i \in 1..Len(b.out) : buf.out[i] = b.out[i]
      /\ buf.in_pos <= buf.in_size /\ b.in_pos <= buf.in_pos
  BY DEF Stops, Grows, BufferOK
<1>4. /\ buf.in_pos \in Nat /\ b.in_pos \in Nat /\ b.in_size \in Nat
      /\ buf.out \in Seq(Byte) /\ b.out \in Seq(Byte) /\ buf.room \in Nat /\ b.room \in Nat
  BY DEF Stops, Grows, BufferOK, BufType, TypeInv
<1>5. /\ start.in_pos \in Nat /\ start.out_pos \in Nat
      /\ start.in_pos <= b.in_pos /\ start.out_pos <= Len(b.out)
  BY DEF TypeInv, CallInv
<1>6. PICK u \in Seq(Byte), w \in Seq(Byte), l \in Nat, n \in Nat, o \in Nat :
        u = b.out /\ w = buf.out /\ l = Len(w) /\ n = Len(u) /\ o = start.out_pos
  BY <1>4, <1>5
<1>7. PICK y : y = SubSeq(u, 0 + 1, o)
  OBVIOUS
<1>8. o <= n /\ n <= l /\ 0 <= o /\ o <= Len(u) /\ o <= Len(w) /\ o - 0 = o
  BY <1>3, <1>5, <1>6
<1>9. y \in Seq(Byte) /\ Len(y) = o /\ \A i \in 1..o : w[i] = y[i]
  <2>1. y \in Seq(Byte) /\ Len(y) = o - 0 /\ \A i \in 1..(o - 0) : y[i] = u[0 + i]
    BY <1>7, <1>8, PieceIs
  <2>2. \A i \in 1..n : w[i] = u[i]
    BY <1>3, <1>6
  <2>3. \A i \in 1..o : i \in 1..n /\ 0 + i = i
    BY <1>8
  <2>4. QED
    BY <1>8, <2>1, <2>2, <2>3
<1>10. IsPrefix(y, w) /\ (o = Len(w) => y = w)
  BY <1>8, <1>9, StartsWith
<1>11. Out = y /\ Out' = w
  BY <1>1, <1>2, <1>6, <1>7 DEF Out
<1>12. Used = start.in_pos /\ Used' = buf.in_pos /\ Used' \in Used..b.in_size
  <2>1. Used = start.in_pos /\ Used' = buf.in_pos
    BY <1>1, <1>2 DEF Used
  <2>2. buf.in_pos \in start.in_pos..b.in_size
    BY <1>3, <1>4, <1>5, SMTT(30)
  <2>3. QED
    BY <2>1, <2>2
<1>13. Room' = 0 /\ Room = b.room + (n - o)
  BY <1>2, <1>6 DEF Room
<1>14. Out' = Out <=> l = o
  BY <1>6, <1>9, <1>10, <1>11
<1>15. Len(Out') <= Len(Out) + Room /\ (Len(Out') = Len(Out) + Room <=> buf.room = 0)
  <2>1. buf.room + l = b.room + n
    BY <1>3, <1>6
  <2>2. l <= o + (b.room + (n - o)) /\ (l = o + (b.room + (n - o)) <=> buf.room = 0)
    BY <1>4, <1>8, <2>1, RoomIs, SMTT(30)
  <2>3. QED
    BY <1>6, <1>9, <1>11, <1>13, <2>2
<1>16. QED
  BY <1>1, <1>2, <1>3, <1>6, <1>10, <1>11, <1>12, <1>13, <1>14, <1>15 DEF Shows

\* The end of a call is one of the four that there are.
LEMMA RefinesReturn ==
  ASSUME TypeInv, TypeInv', SoundPromise', pc = "main", NEW x, NEW buf, NEW result,
         Return(x, buf, result), Stops(x, buf, result)
  PROVE  Contract!Pause \/ Contract!Stuck \/ Contract!End \/ Contract!Fail
<1>1. Shows(buf, result)
  BY ReturnShows
<1> DEFINE stuck == result = "XZ_OK" /\ buf.in_pos = start.in_pos /\ Len(buf.out) = start.out_pos
<1>2. /\ ret' = (IF stuck /\ s.allow_buf_error THEN "XZ_BUF_ERROR" ELSE result)
      /\ idle' = (IF stuck THEN idle + 1 ELSE 0) /\ pc' = "caller" /\ b' = buf
  BY DEF Return
<1>3. stuck <=> result = "XZ_OK" /\ Used' = Used /\ Out' = Out
  BY <1>1 DEF Shows
<1>4. s'.filter = x.filter /\ s'.sequence = x.sequence
  BY ReturnKeeps
<1>5. /\ result \in Errors \cup {"XZ_OK", "XZ_STREAM_END"}
      /\ result = "XZ_OK" => Waits(x, buf)
  BY DEF Stops
<1>6. /\ idle \in 0..2 /\ idle # 2 /\ s.allow_buf_error = (idle # 0)
      /\ idle' \in 0..2 /\ (idle' = 2) = (ret' = "XZ_BUF_ERROR")
  BY DEF TypeInv, CallInv
<1>7. (Sound' <=> Sound) /\ Size' = Size
  BY <1>1 DEF Shows, Sound, Size
<1>8. b'.in_pos <= b.in_size /\ b.in_size <= Len(input) /\ b.in_size \in Nat /\ b'.in_pos \in Nat
      /\ Len(input) \in Nat
  BY <1>1, <1>2 DEF Shows, TypeInv, BufferOK, BufType
<1>9. Used' <= Size
  BY <1>1, <1>2, <1>8 DEF Shows, Size
<1>10. Contract!Progress
  <2>1. Sound => IsPrefix(Out', content)
    BY <1>1, <1>2, <1>7 DEF Shows, SoundPromise
  <2>2. \A u, w : IsPrefix(u, w) => Contract!IsPrefix(u, w)
    BY DEF IsPrefix, Contract!IsPrefix
  <2>3. QED
    BY <1>1, <1>9, <2>1, <2>2 DEF Shows, Contract!Progress, Used, Out, Room, Sound, Size
<1>11. Contract!Answer(ret')
  BY <1>1, <1>2, <1>10 DEF Shows, Contract!Answer, Contract!stream, Room
<1> HIDE DEF stuck
<1>12. CASE ret' = "XZ_OK"
  <2>1. result = "XZ_OK" /\ Waits(x, buf)
    BY <1>2, <1>5, <1>12
  <2>2. Used' = b.in_size \/ Len(Out') = Len(Out) + Room
    BY <1>1, <2>1 DEF Shows, Waits
  <2>3. idle' = IF Used' = Used /\ Out' = Out THEN idle + 1 ELSE 0
    BY <1>2, <1>3, <2>1
  <2>4. idle' < 2
    BY <1>6, <1>12
  <2>5. ASSUME Sound, b.in_size >= Size PROVE Len(Out') < Len(content)
    <3>1. /\ b'.in_pos < Size
          /\ s'.sequence = "SEQ_BLOCK_UNCOMPRESS" /\ s'.filter.ready # <<>> => Len(b'.out) < Len(content)
      BY <1>1, <1>2, <1>7, <1>12, <2>5 DEF Shows, SoundPromise
    <3>2. Size \in Nat
      BY <1>8 DEF Size
    <3>3. buf.in_pos # buf.in_size
      BY <1>1, <1>2, <1>8, <2>5, <3>1, <3>2 DEF Shows
    <3>4. QED
      BY <1>1, <1>2, <1>4, <2>1, <3>1, <3>3 DEF Shows, Waits
  <2>6. Contract!Pause
    BY <1>11, <1>12, <2>2, <2>3, <2>4, <2>5 DEF Contract!Pause, Used, Out, Room, Sound, Size
  <2>7. QED
    BY <2>6
<1>13. CASE ret' = "XZ_BUF_ERROR"
  <2>1. result # "XZ_BUF_ERROR"
    BY <1>5 DEF Errors
  <2>2. stuck /\ s.allow_buf_error
    BY <1>2, <1>13, <2>1
  <2>3. result = "XZ_OK" /\ Waits(x, buf) /\ Used' = Used /\ Out' = Out
    BY <1>3, <1>5, <2>2
  <2>4. idle = 1 /\ idle' = 2
    <3>1. idle # 0
      BY <1>6, <2>2, Zenon
    <3>2. idle' = idle + 1
      BY <1>2, <2>2
    <3>3. QED
      BY <1>6, <3>1, <3>2
  <2>5. Used = b.in_size \/ Room = 0
    <3>1. CASE buf.room = 0
      <4>1. Len(Out) = Len(Out) + Room
        BY <1>1, <2>3, <3>1 DEF Shows
      <4>2. Out \in Seq(Byte) /\ Room \in Nat
        BY RoomHere
      <4>3. Len(Out) \in Nat
        BY <4>2
      <4>4. QED
        BY <4>1, <4>2, <4>3
    <3>2. CASE buf.in_pos = buf.in_size
      BY <1>1, <2>3, <3>2 DEF Shows
    <3>3. QED
      BY <2>3, <3>1, <3>2 DEF Waits
  <2>6. ASSUME Sound PROVE b.in_size < Size \/ Len(Out) < Len(content)
    <3>1. /\ b'.in_pos < Size
          /\ s'.sequence = "SEQ_BLOCK_UNCOMPRESS" /\ s'.filter.ready # <<>> => Len(b'.out) < Len(content)
      BY <1>1, <1>2, <1>7, <1>13, <2>6 DEF Shows, SoundPromise
    <3>2. QED
      BY <1>1, <1>2, <1>4, <2>3, <3>1 DEF Shows, Waits
  <2>7. Contract!Stuck
    BY <1>11, <1>13, <2>3, <2>4, <2>5, <2>6 DEF Contract!Stuck, Used, Out, Room, Sound, Size
  <2>8. QED
    BY <2>7
<1>14. CASE ret' = "XZ_STREAM_END"
  <2>1. result = "XZ_STREAM_END" /\ ~stuck
    BY <1>2, <1>3, <1>14
  <2>2. idle' = 0
    BY <1>2, <2>1
  <2>3. Sound => Out' = content' /\ Used' = Size
    BY <1>1, <1>2, <1>7, <1>14 DEF Shows, SoundPromise
  <2>4. content' = content
    BY <1>1 DEF Shows
  <2>5. Contract!End
    BY <1>11, <1>14, <2>2, <2>3, <2>4 DEF Contract!End, Used, Out, Sound, Size
  <2>6. QED
    BY <2>5
<1>15. CASE ret' \in Errors
  <2>1. result # "XZ_OK"
    BY <1>2, <1>15 DEF Errors
  <2>2. idle' = 0
    BY <1>2, <1>3, <2>1
  <2>3. Sound => ret' = "XZ_MEM_ERROR"
    BY <1>7, <1>15 DEF SoundPromise, Errors
  <2>4. ret' \in Contract!Errors
    BY <1>15 DEF Errors, Contract!Errors
  <2>5. Contract!Fail
    BY <1>11, <2>2, <2>3, <2>4 DEF Contract!Fail, Sound
  <2>6. QED
    BY <2>5
<1>16. QED
  BY <1>2, <1>5, <1>12, <1>13, <1>14, <1>15

\* Every step is one of a decoder's, or is not seen.
LEMMA RefinesNext == TypeInv /\ SoundInv /\ TypeInv' /\ SoundInv' /\ [Next]_vars => [Contract!Next]_(Contract!vars)
<1> SUFFICES ASSUME TypeInv, SoundInv, TypeInv', SoundInv', [Next]_vars
             PROVE  Contract!Next \/ UNCHANGED Contract!vars
  OBVIOUS
<1>1. CASE Call
  BY <1>1, RefinesCall DEF Contract!Next
<1>2. CASE dec_main
  <2>1. pc = "main" /\ Outcome
    BY <1>2, InMainNow, MainOK
  <2>2. SoundPromise'
    BY PromiseHolds, PTL
  <2>3. QED
    BY <2>1, <2>2, RefinesContinue, RefinesReturn, Zenon DEF Outcome, Contract!Next
<1>3. CASE UNCHANGED vars
  BY <1>3 DEF vars, source, busy, Contract!vars
<1>4. CASE Done
  BY <1>3, <1>4 DEF Done
<1>5. QED
  BY <1>1, <1>2, <1>3, <1>4 DEF Next

\* The container is a decoder as its caller knows it, for every stream, portion and room.
THEOREM Refinement == Spec => ImplementsDecoder
<1>1. TypeInv /\ Init => Contract!Init
  BY RefinesInit
<1>2. TypeInv /\ SoundInv /\ TypeInv' /\ SoundInv' /\ [Next]_vars => [Contract!Next]_(Contract!vars)
  BY RefinesNext
<1>3. QED
  BY <1>1, <1>2, InvariantCorrect, PTL DEF Spec, ImplementsDecoder, Contract!Spec

=============================================================================
