--------------------------- MODULE TarExtractProofs ---------------------------
(***************************************************************************)
(* Proofs about TarExtract, for every archive, every size of a block, of a *)
(* record and of an int, and wherever the stream is cut.                   *)
(***************************************************************************)
EXTENDS TarExtract, SequenceInduction, SequenceTheorems, TLAPS

-----------------------------------------------------------------------------
(* Blocks, and how a member is laid out in them.                           *)

Kinds == {"reg", "sym", "lnk", "dir", "special"}
BlockType ==
  {Blank}
  \cup [kind : {"header"}, type : Kinds \cup {"longlink", "longname"},
        name : Names \cup {"cut off", "@LongLink"}, link : Names \cup {"cut off", None}, size : Nat]
  \cup [kind : {"text"}, text : Names]
  \cup [kind : {"blank", "data"}, of : Names, part : Nat]

LEMMA Concat ==
  ASSUME NEW T, NEW s \in Seq(T), NEW t \in Seq(T)
  PROVE  /\ s \o t \in Seq(T)
         /\ Len(s \o t) = Len(s) + Len(t)
         /\ \A i \in 1..Len(s) : (s \o t)[i] = s[i]
         /\ \A i \in 1..Len(t) : (s \o t)[Len(s) + i] = t[i]
OBVIOUS

LEMMA BlocksType ==
  ASSUME NEW bytes \in Nat
  PROVE  BlocksFor(bytes) \in Nat
  BY SizesAssumption DEF BlocksFor

LEMMA BlocksOfText == BlocksFor(TextSize) = 2 /\ TextSize \in Nat
  BY SizesAssumption DEF BlocksFor, TextSize

LEMMA BlocksOfNone == BlocksFor(0) = 0
  BY SizesAssumption DEF BlocksFor

\* What precedes a member's own header.
LongLink(m) == m.link \in LongNames /\ m.type \in {"sym", "lnk"}
LongName(m) == m.name \in LongNames
LinkPart(m) == IF LongLink(m) THEN 3 ELSE 0
NamePart(m) == IF LongName(m) THEN 3 ELSE 0
Own(m) == LinkPart(m) + NamePart(m) + 1
HeaderOf(m) == Header(m.type, Field(m.name), Field(m.link), IF m.type = "reg" THEN m.size ELSE 0)

\* A long name is a header and two blocks.
LEMMA LongFieldIs ==
  ASSUME NEW type \in {"longlink", "longname"}, NEW text \in Names
  PROVE  /\ LongField(type, text) \in Seq(BlockType)
         /\ Len(LongField(type, text)) = 3
         /\ LongField(type, text)[1] = Header(type, "@LongLink", None, TextSize)
         /\ LongField(type, text)[2] = [kind |-> "text", text |-> text]
         /\ LongField(type, text)[3] = [kind |-> "text", text |-> text]
<1> DEFINE h == Header(type, "@LongLink", None, TextSize)
           t == [kind |-> "text", text |-> text]
           f == [i \in 1..2 |-> t]
<1>1. h \in BlockType /\ t \in BlockType
  BY BlocksOfText, Zenon DEF BlockType, Header
<1>2. LongField(type, text) = <<h>> \o f
  BY BlocksOfText DEF LongField
<1> HIDE DEF h, t
<1>3. <<h>> \in Seq(BlockType) /\ f \in Seq(BlockType) /\ Len(f) = 2
  BY <1>1
<1>4. QED
  BY <1>2, <1>3 DEF h, t

LEMMA DataIs ==
  ASSUME NEW m \in MemberType
  PROVE  /\ Data(m) \in Seq(BlockType)
         /\ \A i \in 1..Len(Data(m)) : Data(m)[i].kind \in {"blank", "data"}
         /\ Len(Data(m)) = IF m.type = "reg" THEN BlocksFor(m.size) ELSE 0
<1>1. m.size \in Nat /\ m.name \in Names
  BY DEF MemberType
<1>2. BlocksFor(m.size) \in Nat
  BY <1>1, BlocksType
<1>3. CASE m.type # "reg"
  BY <1>3 DEF Data
<1>4. CASE m.type = "reg"
  <2> DEFINE n == BlocksFor(m.size)
             d(i) == [kind |-> IF m.zeros THEN "blank" ELSE "data", of |-> m.name, part |-> i]
  <2>1. Data(m) = [i \in 1..n |-> d(i)]
    BY <1>4 DEF Data
  <2>2. ASSUME NEW i \in 1..n PROVE d(i) \in BlockType /\ d(i).kind \in {"blank", "data"}
    <3>1. m.zeros \in BOOLEAN
      BY DEF MemberType
    <3>2. d(i).kind \in {"blank", "data"}
          /\ d(i) \in [kind : {"blank", "data"}, of : Names, part : Nat]
      BY <1>1, <3>1
    <3>3. QED
      BY <3>2, Zenon DEF BlockType
  <2> HIDE DEF n, d
  <2>3. n \in Nat
    BY <1>2 DEF n
  <2>4. Data(m) \in Seq(BlockType) /\ Len(Data(m)) = n /\ \A i \in 1..n : Data(m)[i] = d(i)
    BY <2>1, <2>2, <2>3
  <2>5. QED
    BY <1>4, <2>2, <2>3, <2>4 DEF n
<1>5. QED
  BY <1>3, <1>4

\* What Encode(m) is made of.
LEMMA EncodeIs ==
  ASSUME NEW m \in MemberType
  PROVE  /\ Encode(m) \in Seq(BlockType)
         /\ Len(Encode(m)) = Own(m) + Len(Data(m))
         /\ Encode(m)[Own(m)] = HeaderOf(m)
         /\ \A i \in 1..Len(Data(m)) : Encode(m)[Own(m) + i] = Data(m)[i]
         /\ LongLink(m) => /\ Encode(m)[1] = Header("longlink", "@LongLink", None, TextSize)
                           /\ Encode(m)[2] = [kind |-> "text", text |-> m.link]
                           /\ Encode(m)[3] = [kind |-> "text", text |-> m.link]
         /\ LongName(m) => /\ Encode(m)[LinkPart(m) + 1] = Header("longname", "@LongLink", None, TextSize)
                           /\ Encode(m)[LinkPart(m) + 2] = [kind |-> "text", text |-> m.name]
                           /\ Encode(m)[LinkPart(m) + 3] = [kind |-> "text", text |-> m.name]
<1> DEFINE A == IF LongLink(m) THEN LongField("longlink", m.link) ELSE <<>>
           B == IF LongName(m) THEN LongField("longname", m.name) ELSE <<>>
           C == <<HeaderOf(m)>>
           D == Data(m)
<1>1. Encode(m) = A \o B \o C \o D
  BY DEF Encode, LongLink, LongName, HeaderOf
<1>2. m.link \in Names /\ m.name \in Names
  BY DEF MemberType
<1>3. HeaderOf(m) \in BlockType
  <2>1. m.type \in Kinds /\ m.size \in Nat
    BY DEF MemberType, Kinds
  <2>2. /\ Field(m.name) \in Names \cup {"cut off", "@LongLink"}
        /\ Field(m.link) \in Names \cup {"cut off", None}
    BY <1>2, Zenon DEF Field
  <2>3. QED
    BY <2>1, <2>2, Zenon DEF HeaderOf, Header, BlockType
<1>4. A \in Seq(BlockType) /\ Len(A) = LinkPart(m)
  <2>1. /\ LongField("longlink", m.link) \in Seq(BlockType)
        /\ Len(LongField("longlink", m.link)) = 3
    BY <1>2, LongFieldIs
  <2>2. CASE LongLink(m)
    <3>1. A = LongField("longlink", m.link) /\ LinkPart(m) = 3
      BY <2>2 DEF LinkPart
    <3>2. QED
      BY <2>1, <3>1
  <2>3. CASE ~LongLink(m)
    <3>1. A = <<>> /\ LinkPart(m) = 0
      BY <2>3 DEF LinkPart
    <3> HIDE DEF A, B
    <3>2. QED
      BY <3>1
  <2>4. QED
    BY <2>2, <2>3
<1>5. B \in Seq(BlockType) /\ Len(B) = NamePart(m)
  <2>1. /\ LongField("longname", m.name) \in Seq(BlockType)
        /\ Len(LongField("longname", m.name)) = 3
    BY <1>2, LongFieldIs
  <2>2. CASE LongName(m)
    <3>1. B = LongField("longname", m.name) /\ NamePart(m) = 3
      BY <2>2 DEF NamePart
    <3>2. QED
      BY <2>1, <3>1
  <2>3. CASE ~LongName(m)
    <3>1. B = <<>> /\ NamePart(m) = 0
      BY <2>3 DEF NamePart
    <3> HIDE DEF A, B
    <3>2. QED
      BY <3>1
  <2>4. QED
    BY <2>2, <2>3
<1>6. D \in Seq(BlockType)
  BY DataIs
<1>7. C \in Seq(BlockType) /\ Len(C) = 1 /\ C[1] = HeaderOf(m)
  BY <1>3
<1>8. LongLink(m) => /\ A[1] = Header("longlink", "@LongLink", None, TextSize)
                     /\ A[2] = [kind |-> "text", text |-> m.link]
                     /\ A[3] = [kind |-> "text", text |-> m.link]
                     /\ Len(A) = 3
  BY <1>2, LongFieldIs
<1>9. LongName(m) => /\ B[1] = Header("longname", "@LongLink", None, TextSize)
                     /\ B[2] = [kind |-> "text", text |-> m.name]
                     /\ B[3] = [kind |-> "text", text |-> m.name]
                     /\ Len(B) = 3
  BY <1>2, LongFieldIs
<1> HIDE DEF A, B, C, D
<1>10. /\ A \o B \o C \o D \in Seq(BlockType)
       /\ Len(A \o B \o C \o D) = Len(A) + Len(B) + 1 + Len(D)
       /\ (A \o B \o C \o D)[Len(A) + Len(B) + 1] = C[1]
       /\ \A i \in 1..Len(D) : (A \o B \o C \o D)[Len(A) + Len(B) + 1 + i] = D[i]
       /\ \A i \in 1..Len(A) : (A \o B \o C \o D)[i] = A[i]
       /\ \A i \in 1..Len(B) : (A \o B \o C \o D)[Len(A) + i] = B[i]
  <2> DEFINE X == A \o B
             Y == X \o C
             Z == Y \o D
  <2>1. /\ X \in Seq(BlockType) /\ Len(X) = Len(A) + Len(B)
        /\ \A i \in 1..Len(A) : X[i] = A[i]
        /\ \A i \in 1..Len(B) : X[Len(A) + i] = B[i]
    BY <1>4, <1>5
  <2> HIDE DEF X
  <2>2. /\ Y \in Seq(BlockType) /\ Len(Y) = Len(X) + 1
        /\ \A i \in 1..Len(X) : Y[i] = X[i]
        /\ \A i \in 1..Len(C) : Y[Len(X) + i] = C[i]
    <3>0. X \in Seq(BlockType) /\ C \in Seq(BlockType)
      BY <1>7, <2>1
    <3>1. Y \in Seq(BlockType) /\ Len(Y) = Len(X) + Len(C)
      BY <3>0
    <3>2. /\ \A i \in 1..Len(X) : Y[i] = X[i]
          /\ \A i \in 1..Len(C) : Y[Len(X) + i] = C[i]
      BY <3>0
    <3>3. QED
      BY <1>7, <3>1, <3>2
  <2> HIDE DEF Y
  <2>3. /\ Z \in Seq(BlockType) /\ Len(Z) = Len(Y) + Len(D)
        /\ \A i \in 1..Len(Y) : Z[i] = Y[i]
        /\ \A i \in 1..Len(D) : Z[Len(Y) + i] = D[i]
    BY <1>6, <2>2
  <2> HIDE DEF Z
  <2>4. Len(A) \in Nat /\ Len(B) \in Nat /\ Len(D) \in Nat
    BY <1>4, <1>5, <1>6
  <2>5. Z \in Seq(BlockType) /\ Len(Z) = Len(A) + Len(B) + 1 + Len(D)
    BY <2>1, <2>2, <2>3, <2>4
  <2>6. Z[Len(A) + Len(B) + 1] = C[1]
    <3>1. Y[Len(X) + 1] = C[1] /\ Len(X) + 1 \in 1..Len(Y)
      BY <1>7, <2>1, <2>2, <2>4
    <3>2. QED
      BY <2>1, <2>3, <3>1
  <2>7. \A i \in 1..Len(D) : Z[Len(A) + Len(B) + 1 + i] = D[i]
    BY <2>1, <2>2, <2>3, <2>4
  <2>8. ASSUME NEW i \in 1..Len(A) PROVE Z[i] = A[i]
    <3>1. i \in 1..Len(X) /\ i \in 1..Len(Y)
      BY <2>1, <2>2, <2>4
    <3>2. QED
      BY <2>1, <2>2, <2>3, <3>1
  <2>9. ASSUME NEW i \in 1..Len(B) PROVE Z[Len(A) + i] = B[i]
    <3>1. Len(A) + i \in 1..Len(X) /\ Len(A) + i \in 1..Len(Y)
      BY <2>1, <2>2, <2>4
    <3>2. QED
      BY <2>1, <2>2, <2>3, <3>1
  <2>10. QED
    BY <2>5, <2>6, <2>7, <2>8, <2>9 DEF X, Y, Z
<1>11. LongLink(m) => \A i \in {1, 2, 3} : Encode(m)[i] = A[i]
  <2>0. Len(A) = 3 => \A i \in {1, 2, 3} : i \in 1..Len(A)
    OBVIOUS
  <2>1. LongLink(m) => \A i \in {1, 2, 3} : i \in 1..Len(A)
    BY <1>8, <2>0
  <2>2. QED
    BY <1>1, <1>10, <2>1
<1>12. LongName(m) => \A i \in {1, 2, 3} : Encode(m)[LinkPart(m) + i] = B[i]
  <2>0. Len(B) = 3 => \A i \in {1, 2, 3} : i \in 1..Len(B)
    OBVIOUS
  <2>1. LongName(m) => \A i \in {1, 2, 3} : i \in 1..Len(B)
    BY <1>9, <2>0
  <2>2. QED
    BY <1>1, <1>4, <1>10, <2>1
<1>13. /\ Encode(m) \in Seq(BlockType)
       /\ Len(Encode(m)) = Own(m) + Len(Data(m))
       /\ Encode(m)[Own(m)] = HeaderOf(m)
       /\ \A i \in 1..Len(Data(m)) : Encode(m)[Own(m) + i] = Data(m)[i]
  BY <1>1, <1>4, <1>5, <1>7, <1>10 DEF D, Own
<1>14. QED
  BY <1>8, <1>9, <1>11, <1>12, <1>13

LEMMA PrefixMore ==
  ASSUME NEW ms \in Seq(MemberType), NEW n \in Nat, n < Len(ms)
  PROVE  /\ Prefix(ms, n) \in Seq(BlockType)
         /\ Prefix(ms, n + 1) \in Seq(BlockType)
         /\ Prefix(ms, n + 1) = Prefix(ms, n) \o Encode(ms[n + 1])
<1> DEFINE t == [i \in 1..(n + 1) |-> Encode(ms[i])]
           u == [i \in 1..n |-> Encode(ms[i])]
<1>1. \A i \in 1..(n + 1) : Encode(ms[i]) \in Seq(BlockType)
  <2> SUFFICES ASSUME NEW i \in 1..(n + 1) PROVE Encode(ms[i]) \in Seq(BlockType)
    OBVIOUS
  <2>1. i \in 1..Len(ms)
    OBVIOUS
  <2>2. ms[i] \in MemberType
    BY <2>1
  <2>3. QED
    BY <2>2, EncodeIs
<1>2. /\ t \in [1..(n + 1) -> Seq(BlockType)]
      /\ u \in [1..n -> Seq(BlockType)]
      /\ \A i \in 1..n : u[i] = t[i]
      /\ t[n + 1] = Encode(ms[n + 1])
  BY <1>1
<1>3. Prefix(ms, n + 1) = FlattenSeq(t) /\ Prefix(ms, n) = FlattenSeq(u)
  BY DEF Prefix
<1> HIDE DEF t, u
<1>4. FlattenSeq(u) \in Seq(BlockType) /\ FlattenSeq(t) = FlattenSeq(u) \o t[n + 1]
  BY <1>2, FlattenMore
<1>5. t[n + 1] \in Seq(BlockType)
  BY <1>2
<1>6. FlattenSeq(u) \o t[n + 1] \in Seq(BlockType)
  BY <1>4, <1>5, Concat
<1>7. QED
  BY <1>2, <1>3, <1>4, <1>6

LEMMA PrefixNone ==
  ASSUME NEW ms
  PROVE  Prefix(ms, 0) = <<>>
BY DEF Prefix, FlattenSeq

\* Where member n + 1 begins: behind the blocks of n members.
Base(ms, n) == Len(Prefix(ms, n))

LEMMA PrefixType ==
  ASSUME NEW ms \in Seq(MemberType), NEW n \in 0..Len(ms)
  PROVE  Prefix(ms, n) \in Seq(BlockType) /\ Base(ms, n) \in Nat
<1>1. CASE n = 0
  <2>1. Prefix(ms, n) = <<>>
    BY <1>1, PrefixNone
  <2>2. <<>> \in Seq(BlockType) /\ Len(<<>>) = 0
    OBVIOUS
  <2>3. QED
    BY <2>1, <2>2 DEF Base
<1>2. CASE n # 0
  <2>1. n - 1 \in Nat /\ n - 1 < Len(ms) /\ (n - 1) + 1 = n
    BY <1>2
  <2>2. Prefix(ms, n) \in Seq(BlockType)
    BY <2>1, PrefixMore
  <2>3. QED
    BY <2>2 DEF Base
<1>3. QED
  BY <1>1, <1>2

\* A longer prefix goes on as a shorter one begins.
LEMMA PrefixGrows ==
  ASSUME NEW ms \in Seq(MemberType), NEW n \in 0..Len(ms), NEW k \in n..Len(ms)
  PROVE  /\ Base(ms, n) <= Base(ms, k)
         /\ \A p \in 1..Base(ms, n) : Prefix(ms, k)[p] = Prefix(ms, n)[p]
<1> DEFINE Grows(j) == /\ Base(ms, n) <= Base(ms, j)
                       /\ \A p \in 1..Base(ms, n) : Prefix(ms, j)[p] = Prefix(ms, n)[p]
           S == {j \in Nat : n + j <= Len(ms) => Grows(n + j)}
<1>1. 0 \in S
  BY PrefixType
<1>2. ASSUME NEW j \in Nat, j \in S PROVE j + 1 \in S
  <2> SUFFICES ASSUME n + (j + 1) <= Len(ms) PROVE Grows(n + (j + 1))
    OBVIOUS
  <2>1. Grows(n + j) /\ n + j \in 0..Len(ms) /\ n + j < Len(ms) /\ n + (j + 1) = (n + j) + 1
    BY <1>2
  <2>2. /\ Prefix(ms, n + j) \in Seq(BlockType)
        /\ Prefix(ms, (n + j) + 1) = Prefix(ms, n + j) \o Encode(ms[(n + j) + 1])
    BY <2>1, PrefixMore
  <2>3. Encode(ms[(n + j) + 1]) \in Seq(BlockType)
    <3>1. (n + j) + 1 \in 1..Len(ms)
      BY <2>1
    <3>2. ms[(n + j) + 1] \in MemberType
      BY <3>1
    <3>3. QED
      BY <3>2, EncodeIs
  <2>4. Base(ms, n) \in Nat
    BY PrefixType
  <2>5. /\ Base(ms, n + j) \in Nat /\ Base(ms, n + j) <= Base(ms, (n + j) + 1)
        /\ \A p \in 1..Base(ms, n + j) : Prefix(ms, (n + j) + 1)[p] = Prefix(ms, n + j)[p]
    BY <2>2, <2>3 DEF Base
  <2>6. \A p \in 1..Base(ms, n) : p \in 1..Base(ms, n + j)
    BY <2>1, <2>4, <2>5
  <2>7. QED
    <3>1. ASSUME NEW p \in 1..Base(ms, n)
          PROVE  Prefix(ms, (n + j) + 1)[p] = Prefix(ms, n)[p]
      <4>1. Prefix(ms, n + j)[p] = Prefix(ms, n)[p]
        BY <2>1
      <4>2. QED
        BY <2>5, <2>6, <4>1
    <3>2. Base(ms, (n + j) + 1) \in Nat
      <4>1. (n + j) + 1 \in 0..Len(ms)
        BY <2>1
      <4>2. QED
        BY <4>1, PrefixType
    <3>3. Base(ms, n) <= Base(ms, (n + j) + 1)
      BY <2>1, <2>4, <2>5, <3>2
    <3>4. n + (j + 1) = (n + j) + 1
      OBVIOUS
    <3>5. QED
      BY <3>1, <3>3, <3>4
<1>3. k - n \in S /\ k - n \in Nat /\ n + (k - n) = k
  <2> HIDE DEF S
  <2>1. k - n \in Nat
    OBVIOUS
  <2>2. QED
    BY <1>1, <1>2, <2>1, SetInduction
<1>4. QED
  BY <1>3

-----------------------------------------------------------------------------
(* The whole stream, and where in it a member lies.                        *)

\* Two blank blocks at least behind all members.
LEMMA PaddedIs ==
  ASSUME NEW bs \in Seq(BlockType)
  PROVE  /\ Padded(bs) \in Seq(BlockType)
         /\ Len(Padded(bs)) \in Nat /\ Len(Padded(bs)) >= Len(bs) + 2
         /\ \A p \in 1..Len(bs) : Padded(bs)[p] = bs[p]
         /\ \A p \in (Len(bs) + 1)..Len(Padded(bs)) : Padded(bs)[p] = Blank
<1> DEFINE missing == (RecordSize - ((Len(bs) + 2) % RecordSize)) % RecordSize
           fill == [i \in 1..(2 + missing) |-> Blank]
<1>1. missing \in Nat
  BY SizesAssumption
<1>2. Padded(bs) = bs \o fill
  BY DEF Padded
<1>3. Blank \in BlockType
  BY Zenon DEF BlockType
<1> HIDE DEF missing
<1>4. fill \in Seq(BlockType) /\ Len(fill) = 2 + missing /\ \A i \in 1..Len(fill) : fill[i] = Blank
  BY <1>1, <1>3
<1> HIDE DEF fill
<1>5. /\ bs \o fill \in Seq(BlockType)
      /\ Len(bs \o fill) = Len(bs) + Len(fill)
      /\ \A i \in 1..Len(bs) : (bs \o fill)[i] = bs[i]
      /\ \A i \in 1..Len(fill) : (bs \o fill)[Len(bs) + i] = fill[i]
  <2>1. fill \in Seq(BlockType)
    BY <1>4
  <2>2. QED
    BY <2>1, Concat
<1>6. ASSUME NEW p \in (Len(bs) + 1)..Len(Padded(bs))
      PROVE  Padded(bs)[p] = Blank
  <2>1. p - Len(bs) \in 1..Len(fill) /\ Len(bs) + (p - Len(bs)) = p
    BY <1>1, <1>2, <1>4, <1>5
  <2>2. (bs \o fill)[Len(bs) + (p - Len(bs))] = fill[p - Len(bs)]
    BY <1>5, <2>1
  <2>3. QED
    BY <1>2, <1>4, <2>1, <2>2
<1>7. QED
  BY <1>1, <1>2, <1>4, <1>5, <1>6

LEMMA StreamIs ==
  ASSUME NEW ms \in Seq(MemberType)
  PROVE  /\ Stream(ms) \in Seq(BlockType)
         /\ Len(Stream(ms)) \in Nat
         /\ Base(ms, Len(ms)) \in Nat /\ Base(ms, Len(ms)) + 2 <= Len(Stream(ms))
         /\ \A p \in 1..Base(ms, Len(ms)) : Stream(ms)[p] = Prefix(ms, Len(ms))[p]
         /\ \A p \in (Base(ms, Len(ms)) + 1)..Len(Stream(ms)) : Stream(ms)[p] = Blank
<1>1. Prefix(ms, Len(ms)) \in Seq(BlockType) /\ Base(ms, Len(ms)) \in Nat
  BY PrefixType, Len(ms) \in 0..Len(ms)
<1>2. QED
  BY <1>1, PaddedIs DEF Stream, Base

\* Block k of member n + 1 is where it is to be.
LEMMA MemberAt ==
  ASSUME NEW ms \in Seq(MemberType), NEW n \in Nat, n < Len(ms)
  PROVE  /\ ms[n + 1] \in MemberType
         /\ Base(ms, n) \in Nat
         /\ Len(Encode(ms[n + 1])) \in Nat
         /\ Base(ms, n + 1) = Base(ms, n) + Len(Encode(ms[n + 1]))
         /\ Base(ms, n + 1) <= Base(ms, Len(ms))
         /\ \A k \in 1..Len(Encode(ms[n + 1])) :
              Stream(ms)[Base(ms, n) + k] = Encode(ms[n + 1])[k]
<1> DEFINE e == Encode(ms[n + 1])
           L == Len(ms)
<1>1. n \in 0..L /\ n + 1 \in 0..L /\ n + 1 \in 1..L /\ L \in (n + 1)..L /\ L \in 0..L
  OBVIOUS
<1>2. ms[n + 1] \in MemberType
  BY <1>1
<1>3. e \in Seq(BlockType) /\ Len(e) \in Nat
  <2>1. Encode(ms[n + 1]) \in Seq(BlockType)
    BY <1>2, EncodeIs
  <2> HIDE DEF e
  <2>2. e \in Seq(BlockType)
    BY <2>1 DEF e
  <2>3. QED
    BY <2>2
<1>4. Prefix(ms, n) \in Seq(BlockType) /\ Base(ms, n) \in Nat
  BY <1>1, PrefixType
<1>5. Prefix(ms, n + 1) = Prefix(ms, n) \o e
  BY PrefixMore
<1> HIDE DEF e, L
<1>6. /\ Base(ms, n + 1) = Base(ms, n) + Len(e)
      /\ \A k \in 1..Len(e) : Prefix(ms, n + 1)[Base(ms, n) + k] = e[k]
  BY <1>3, <1>4, <1>5, Concat DEF Base
<1>7. /\ Base(ms, n + 1) <= Base(ms, L)
      /\ \A p \in 1..Base(ms, n + 1) : Prefix(ms, L)[p] = Prefix(ms, n + 1)[p]
  BY <1>1, PrefixGrows DEF L
<1>8. Base(ms, L) \in Nat /\ \A p \in 1..Base(ms, L) : Stream(ms)[p] = Prefix(ms, L)[p]
  BY StreamIs DEF L
<1>9. ASSUME NEW k \in 1..Len(e)
      PROVE  Stream(ms)[Base(ms, n) + k] = e[k]
  <2>1. Base(ms, n) + k \in 1..Base(ms, n + 1) /\ Base(ms, n) + k \in 1..Base(ms, L)
    BY <1>3, <1>4, <1>6, <1>7, <1>8
  <2>2. /\ Stream(ms)[Base(ms, n) + k] = Prefix(ms, L)[Base(ms, n) + k]
        /\ Prefix(ms, L)[Base(ms, n) + k] = Prefix(ms, n + 1)[Base(ms, n) + k]
    BY <1>7, <1>8, <2>1
  <2>3. QED
    BY <1>6, <2>2
<1>10. QED
  BY <1>2, <1>3, <1>4, <1>6, <1>7, <1>9 DEF e, L

\* What is at the places of member n + 1 ...
Lies(ms, n, m, base) ==
  /\ m \in MemberType /\ base \in Nat
  /\ LinkPart(m) = IF LongLink(m) THEN 3 ELSE 0
  /\ Own(m) = LinkPart(m) + (IF LongName(m) THEN 3 ELSE 0) + 1
  /\ Own(m) \in Nat /\ LinkPart(m) \in Nat /\ Len(Data(m)) \in Nat
  /\ Base(ms, n + 1) = base + Own(m) + Len(Data(m))
  /\ Base(ms, n + 1) + 2 <= Len(Stream(ms))
  /\ Base(ms, n + 1) \in Nat /\ Len(Stream(ms)) \in Nat
  /\ Stream(ms)[base + Own(m)] = HeaderOf(m)
  /\ \A i \in 1..Len(Data(m)) : Stream(ms)[base + Own(m) + i] = Data(m)[i]
  /\ LongLink(m) => /\ Stream(ms)[base + 1] = Header("longlink", "@LongLink", None, TextSize)
                    /\ Stream(ms)[base + 2] = [kind |-> "text", text |-> m.link]
                    /\ Stream(ms)[base + 3] = [kind |-> "text", text |-> m.link]
  /\ LongName(m) =>
       /\ Stream(ms)[base + LinkPart(m) + 1] = Header("longname", "@LongLink", None, TextSize)
       /\ Stream(ms)[base + LinkPart(m) + 2] = [kind |-> "text", text |-> m.name]
       /\ Stream(ms)[base + LinkPart(m) + 3] = [kind |-> "text", text |-> m.name]

LEMMA BlocksOf ==
  ASSUME NEW ms \in Seq(MemberType), NEW n \in Nat, n < Len(ms)
  PROVE  Lies(ms, n, ms[n + 1], Base(ms, n))
<1> DEFINE m == ms[n + 1]
           base == Base(ms, n)
<1> DEFINE e == Encode(m)
           d == Data(m)
<1>1. /\ m \in MemberType /\ base \in Nat /\ Len(e) \in Nat
      /\ Base(ms, n + 1) = base + Len(e)
      /\ Base(ms, n + 1) <= Base(ms, Len(ms))
      /\ \A k \in 1..Len(e) : Stream(ms)[base + k] = e[k]
  BY MemberAt
<1>2. Base(ms, Len(ms)) \in Nat /\ Base(ms, Len(ms)) + 2 <= Len(Stream(ms))
      /\ Len(Stream(ms)) \in Nat
  BY StreamIs
<1>3. LinkPart(m) \in Nat /\ NamePart(m) \in Nat /\ Own(m) = LinkPart(m) + NamePart(m) + 1
      /\ (LongLink(m) => LinkPart(m) = 3) /\ (LongName(m) => NamePart(m) = 3)
  BY DEF LinkPart, NamePart, Own
<1>4. d \in Seq(BlockType) /\ Len(d) \in Nat
  BY <1>1, DataIs
<1>5. Len(e) = Own(m) + Len(d)
  BY <1>1, EncodeIs
<1>6. /\ e[Own(m)] = HeaderOf(m)
      /\ \A i \in 1..Len(d) : e[Own(m) + i] = d[i]
      /\ LongLink(m) => /\ e[1] = Header("longlink", "@LongLink", None, TextSize)
                        /\ e[2] = [kind |-> "text", text |-> m.link]
                        /\ e[3] = [kind |-> "text", text |-> m.link]
      /\ LongName(m) => /\ e[LinkPart(m) + 1] = Header("longname", "@LongLink", None, TextSize)
                        /\ e[LinkPart(m) + 2] = [kind |-> "text", text |-> m.name]
                        /\ e[LinkPart(m) + 3] = [kind |-> "text", text |-> m.name]
  BY <1>1, EncodeIs
<1> HIDE DEF e, d, m, base
<1>7. Stream(ms)[base + Own(m)] = HeaderOf(m)
  <2>1. Own(m) \in 1..Len(e)
    BY <1>3, <1>4, <1>5
  <2>2. QED
    BY <1>1, <1>6, <2>1
<1>8. ASSUME NEW i \in 1..Len(d) PROVE Stream(ms)[base + Own(m) + i] = d[i]
  <2>1. Own(m) + i \in 1..Len(e) /\ base + (Own(m) + i) = base + Own(m) + i
    BY <1>1, <1>3, <1>4, <1>5, SMTT(30)
  <2>2. Stream(ms)[base + (Own(m) + i)] = e[Own(m) + i]
    BY <1>1, <2>1
  <2>3. QED
    BY <1>6, <2>1, <2>2
<1>9. ASSUME LongLink(m), NEW i \in {1, 2, 3} PROVE Stream(ms)[base + i] = e[i]
  <2>1. i \in 1..Len(e)
    BY <1>3, <1>4, <1>5, <1>9
  <2>2. QED
    BY <1>1, <2>1
<1>10. ASSUME LongName(m), NEW i \in {1, 2, 3}
       PROVE  Stream(ms)[base + LinkPart(m) + i] = e[LinkPart(m) + i]
  <2>1. LinkPart(m) + i \in 1..Len(e) /\ base + (LinkPart(m) + i) = base + LinkPart(m) + i
    <3>1. base \in Nat /\ Len(e) = LinkPart(m) + 3 + 1 + Len(d)
      BY <1>1, <1>3, <1>5, <1>10
    <3>2. LinkPart(m) + i \in 1..Len(e)
      BY <1>3, <1>4, <3>1, SMTT(30)
    <3>3. base + (LinkPart(m) + i) = base + LinkPart(m) + i
      BY <1>3, <3>1
    <3>4. QED
      BY <3>2, <3>3
  <2>2. Stream(ms)[base + (LinkPart(m) + i)] = e[LinkPart(m) + i]
    BY <1>1, <2>1
  <2>3. QED
    BY <2>1, <2>2
<1>11. LongLink(m) => /\ Stream(ms)[base + 1] = Header("longlink", "@LongLink", None, TextSize)
                      /\ Stream(ms)[base + 2] = [kind |-> "text", text |-> m.link]
                      /\ Stream(ms)[base + 3] = [kind |-> "text", text |-> m.link]
  BY <1>6, <1>9
<1>12. LongName(m) =>
         /\ Stream(ms)[base + LinkPart(m) + 1] = Header("longname", "@LongLink", None, TextSize)
         /\ Stream(ms)[base + LinkPart(m) + 2] = [kind |-> "text", text |-> m.name]
         /\ Stream(ms)[base + LinkPart(m) + 3] = [kind |-> "text", text |-> m.name]
  BY <1>6, <1>10
<1>13. Base(ms, n + 1) = base + Own(m) + Len(d) /\ Base(ms, n + 1) + 2 <= Len(Stream(ms))
       /\ Own(m) \in Nat
  <2>1. base \in Nat /\ Base(ms, n + 1) = base + Len(e) /\ Base(ms, n + 1) <= Base(ms, Len(ms))
    BY <1>1
  <2>2. Base(ms, n + 1) = base + Own(m) + Len(d)
    BY <1>3, <1>4, <1>5, <2>1
  <2>3. Base(ms, n + 1) + 2 <= Len(Stream(ms))
    BY <1>2, <1>3, <1>4, <2>1, <2>2
  <2>4. QED
    BY <1>3, <2>2, <2>3
<1>14. /\ LinkPart(m) = IF LongLink(m) THEN 3 ELSE 0
       /\ Own(m) = LinkPart(m) + (IF LongName(m) THEN 3 ELSE 0) + 1
       /\ Base(ms, n + 1) \in Nat
  BY <1>1 DEF Own, LinkPart, NamePart
<1>15. Lies(ms, n, m, base)
  BY <1>1, <1>2, <1>3, <1>4, <1>7, <1>8, <1>11, <1>12, <1>13, <1>14 DEF d, Lies
<1>16. QED
  BY <1>15 DEF m, base

-----------------------------------------------------------------------------
(* The inductive invariant.                                                *)

\* The stream is the archive's, as far as it goes.
InputInv ==
  /\ members \in Archives
  /\ stream \in Seq(BlockType)
  /\ Len(stream) \in Nat /\ Len(stream) <= Len(Stream(members))
  /\ \A p \in 1..Len(stream) : stream[p] = Stream(members)[p]
  /\ cut \in BOOLEAN /\ (~cut => Len(stream) = Len(Stream(members)))
  /\ ragged \in BOOLEAN /\ (ragged => cut)
  /\ xz \in BOOLEAN /\ early \in BOOLEAN

\* So many members are unpacked, and these blocks of the next one have been read.
Begun(n) == n < Len(members) /\ (Ordinary => Unpacked(n))
LinkRead(m) == longlink = IF LongLink(m) THEN m.link ELSE None
NameRead(m) == longname = IF LongName(m) THEN m.name ELSE None

InLongLink(n, m, base) ==
  /\ pc = "longlink" /\ blanks = 0 /\ LongLink(m)
  /\ left \in {1, 2} /\ pos = base + 3 - left
  /\ stage = (IF left = 2 THEN "first" ELSE "link")
  /\ longname = None

BehindLongLink(n, m, base) ==
  /\ pc = "header" /\ stage = "link" /\ blanks = 0 /\ LongLink(m)
  /\ pos = base + 3
  /\ LinkRead(m) /\ longname = None

InLongName(n, m, base) ==
  /\ pc = "longname" /\ blanks = 0 /\ LongName(m)
  /\ left \in {1, 2} /\ pos = base + LinkPart(m) + 3 - left
  /\ stage = (IF left = 1 THEN "name" ELSE IF LongLink(m) THEN "link" ELSE "first")
  /\ LinkRead(m)

BehindLongName(n, m, base) ==
  /\ pc = "header" /\ stage = "name" /\ blanks = 0 /\ LongName(m)
  /\ pos = base + LinkPart(m) + 3
  /\ LinkRead(m) /\ NameRead(m)

BehindHeader(n, m, base) ==
  /\ pos = base + Own(m)
  /\ header = HeaderOf(m)
  /\ LinkRead(m) /\ NameRead(m)

\* Members that are not ordinary may leave the reader among the data of the last one,
\* which it then takes for headers; two blank blocks of it would end the archive.
BetweenMembers(n) ==
  /\ pc = "header" /\ stage = "first" /\ blanks \in {0, 1}
  /\ longlink = None /\ longname = None
  /\ n = Len(members) \/ pos <= Base(members, n)
  /\ \A p \in (pos + 1)..Base(members, n) : Stream(members)[p].kind \in {"blank", "data"}
  /\ Ordinary => /\ Unpacked(n)
                 /\ IF blanks = 0 THEN pos = Base(members, n)
                    ELSE n = Len(members) /\ pos >= Base(members, n)

\* The file of the member at hand is open; of ordinary members, it is a new one.
Opened(n, m) ==
  /\ m.type = "reg"
  /\ Resolve(Path) \in DOMAIN tree
  /\ Ordinary => /\ Resolve(Path) = m.name
                 /\ DOMAIN tree = {members[i].name : i \in 1..n} \cup {m.name}
                 /\ \A i \in 1..n : tree[members[i].name] = NodeOf(members[i])

InMember(n, m, base) ==
  \/ Begun(n) /\ InLongLink(n, m, base)
  \/ Begun(n) /\ BehindLongLink(n, m, base)
  \/ Begun(n) /\ InLongName(n, m, base)
  \/ Begun(n) /\ BehindLongName(n, m, base)
  \/ Begun(n) /\ pc = "dispatch" /\ BehindHeader(n, m, base)
  \/ n < Len(members) /\ pc = "data" /\ BehindHeader(n, m, base) /\ Opened(n, m)

Accepted(n) ==
  /\ pc \in {"close", "done", "crashed"}
  /\ Ordinary => /\ Unpacked(n)
                 /\ n < Len(members) => ~xz /\ ~ragged /\ Len(stream) = Base(members, n)

\* Nothing can have gone wrong with these.
Whole ==
  /\ Ordinary /\ ~cut /\ ~full
  /\ \A i \in DOMAIN members : members[i].size < IntModulus \div 2

IInv ==
  /\ InputInv
  /\ TypeOK
  /\ \/ \E n \in 0..Len(members) :
          BetweenMembers(n) \/ Accepted(n) \/ InMember(n, members[n + 1], Base(members, n))
     \/ pc = "failed" /\ ~Whole

LEMMA InputFacts ==
  ASSUME InputInv
  PROVE  /\ members \in Seq(MemberType) /\ Len(members) \in Nat
         /\ Len(Stream(members)) \in Nat
         /\ Base(members, Len(members)) \in Nat
         /\ Base(members, Len(members)) + 2 <= Len(Stream(members))
         /\ ~cut => Len(stream) = Len(Stream(members))
<1>1. members \in Seq(MemberType)
  BY ArchivesAssumption DEF InputInv
<1>2. Len(members) \in Nat
  BY <1>1
<1>3. /\ Len(Stream(members)) \in Nat
      /\ Base(members, Len(members)) \in Nat
      /\ Base(members, Len(members)) + 2 <= Len(Stream(members))
  BY <1>1, StreamIs
<1>4. ~cut => Len(stream) = Len(Stream(members))
  BY <1>3 DEF InputInv
<1>5. QED
  BY <1>1, <1>2, <1>3, <1>4

LEMMA InputNext ==
  ASSUME InputInv, UNCHANGED input
  PROVE  InputInv'
BY DEF InputInv, input

-----------------------------------------------------------------------------
(* Reading.                                                                *)

LEMMA ReadFull ==
  ASSUME InputInv, pos \in 0..Len(stream), NEW n \in Nat, Read(n) = "full"
  PROVE  pos + n \in 0..Len(stream)
BY DEF InputInv, Read, XzRead, MemRead

LEMMA ReadNone ==
  ASSUME InputInv, pos \in 0..Len(stream), Read(1) = "none"
  PROVE  \/ ~xz /\ ~ragged /\ pos = Len(stream)
         \/ xz /\ ~cut /\ pos + 1 >= Len(stream)
BY DEF InputInv, Read, XzRead, MemRead

LEMMA ReadsAll ==
  ASSUME InputInv, pos \in 0..Len(stream), ~cut, NEW n \in Nat
  PROVE  /\ Read(1) \in {"full", "none"}
         /\ pos + n < Len(stream) => Read(n) = "full"
BY DEF InputInv, Read, XzRead, MemRead

\* The blocks of member n + 1.
LEMMA AtMember ==
  ASSUME InputInv, NEW n \in Nat, n < Len(members)
  PROVE  Lies(members, n, members[n + 1], Base(members, n))
BY InputFacts, BlocksOf

-----------------------------------------------------------------------------
(* The reader moves on.                                                    *)

\* What depends on nothing but the archive, or on that and the directory.
LEMMA SameInput ==
  ASSUME UNCHANGED input
  PROVE  /\ Ordinary' <=> Ordinary
         /\ UNCHANGED <<members, stream, cut, ragged, xz, early>>
         /\ Whole' => (full' = full => Whole)
BY DEF input, Ordinary, Whole

LEMMA SameTree ==
  ASSUME UNCHANGED <<members, tree>>
  PROVE  \A n : Unpacked(n)' <=> Unpacked(n)
BY DEF Unpacked

\* The place of a state with something still to be read.
Reading(n) == BetweenMembers(n) \/ InMember(n, members[n + 1], Base(members, n))

LEMMA Where ==
  ASSUME IInv, pc \notin {"failed", "close", "done", "crashed"}
  PROVE  \E n \in 0..Len(members) : Reading(n)
BY DEF IInv, Accepted, Reading

\* What follows of a header's blocks.
LEMMA AtHeader ==
  ASSUME InputInv, pos \in 0..Len(stream), pc = "header", NEW n \in 0..Len(members), Reading(n)
  PROVE  \/ BetweenMembers(n)
         \/ n < Len(members) /\ BehindLongLink(n, members[n + 1], Base(members, n))
         \/ n < Len(members) /\ BehindLongName(n, members[n + 1], Base(members, n))
BY DEF Reading, InMember, Begun, InLongLink, InLongName

\* In front of a member, or behind its long names, there is a header.
LEMMA HeaderFollows ==
  ASSUME InputInv, pos \in 0..Len(stream), NEW n \in Nat, n < Len(members),
         \/ pos = Base(members, n)
         \/ BehindLongLink(n, members[n + 1], Base(members, n))
         \/ BehindLongName(n, members[n + 1], Base(members, n))
  PROVE  /\ Stream(members)[pos + 1].kind = "header"
         /\ pos + 2 < Len(Stream(members))
<1> DEFINE m == members[n + 1]
           base == Base(members, n)
<1>1. Lies(members, n, m, base)
  BY AtMember
<1>2. Header("longlink", "@LongLink", None, TextSize).kind = "header"
  BY DEF Header
<1>3. Header("longname", "@LongLink", None, TextSize).kind = "header"
  BY DEF Header
<1>4. HeaderOf(m).kind = "header"
  BY DEF HeaderOf, Header
<1> HIDE DEF m, base
<1>5. /\ base \in Nat /\ LinkPart(m) \in Nat /\ Own(m) \in Nat
      /\ base + Own(m) + 2 <= Len(Stream(members)) /\ Len(Stream(members)) \in Nat
      /\ LinkPart(m) = IF LongLink(m) THEN 3 ELSE 0
      /\ Own(m) = LinkPart(m) + (IF LongName(m) THEN 3 ELSE 0) + 1
  <2>1. /\ base \in Nat /\ LinkPart(m) \in Nat /\ Own(m) \in Nat /\ Len(Data(m)) \in Nat
        /\ Base(members, n + 1) = base + Own(m) + Len(Data(m))
        /\ Base(members, n + 1) + 2 <= Len(Stream(members)) /\ Len(Stream(members)) \in Nat
    BY <1>1 DEF Lies
  <2>2. base + Own(m) + 2 <= Len(Stream(members))
    BY <2>1, SMTT(30)
  <2>3. /\ LinkPart(m) = IF LongLink(m) THEN 3 ELSE 0
        /\ Own(m) = LinkPart(m) + (IF LongName(m) THEN 3 ELSE 0) + 1
    BY <1>1 DEF Lies
  <2>4. QED
    BY <2>1, <2>2, <2>3
<1>6. /\ Stream(members)[base + Own(m)].kind = "header"
      /\ LongLink(m) => Stream(members)[base + 1].kind = "header"
      /\ LongName(m) => Stream(members)[base + LinkPart(m) + 1].kind = "header"
  BY <1>1, <1>2, <1>3, <1>4 DEF Lies
<1>7. \/ pos = base
      \/ pos = base + 3 /\ LongLink(m)
      \/ pos = base + LinkPart(m) + 3 /\ LongName(m)
  BY DEF m, base, BehindLongLink, BehindLongName
<1>8. \/ pos + 1 = base + 1 /\ LongLink(m)
      \/ pos + 1 = base + LinkPart(m) + 1 /\ LongName(m)
      \/ pos + 1 = base + Own(m)
  BY <1>5, <1>7
<1>9. Stream(members)[pos + 1].kind = "header"
  BY <1>6, <1>8
<1>10. pos + 2 < Len(Stream(members))
  BY <1>5, <1>8
<1>11. QED
  BY <1>9, <1>10

\* Behind the last member there is nothing but blank blocks.
LEMMA BlankFollows ==
  ASSUME InputInv, pos \in 0..Len(stream), pos >= Base(members, Len(members)),
         pos + 1 <= Len(stream)
  PROVE  stream[pos + 1] = Blank
<1>1. members \in Seq(MemberType) /\ Base(members, Len(members)) \in Nat
      /\ Len(Stream(members)) \in Nat
  BY InputFacts
<1>2. pos + 1 \in (Base(members, Len(members)) + 1)..Len(Stream(members))
      /\ pos + 1 \in 1..Len(stream)
  BY <1>1 DEF InputInv
<1>3. Stream(members)[pos + 1] = Blank
  BY <1>1, <1>2, StreamIs
<1>4. QED
  BY <1>2, <1>3 DEF InputInv

\* No member's end lies behind the last one's.
LEMMA BaseInside ==
  ASSUME InputInv, NEW n \in 0..Len(members)
  PROVE  Base(members, n) \in Nat /\ Base(members, n) <= Base(members, Len(members))
<1>1. members \in Seq(MemberType) /\ Len(members) \in n..Len(members)
  BY InputFacts
<1>2. QED
  BY <1>1, PrefixType, PrefixGrows

\* No member is read to its end without the blank blocks behind it.
LEMMA ReadNothingInv ==
  ASSUME IInv, ReadNothing
  PROVE  IInv'
<1>1. /\ pc = "header" /\ Read(1) # "full"
      /\ UNCHANGED <<input, stage, left, buffer, tree, full, pos, blanks>>
      /\ IF Read(1) = "none" THEN EndOfArchive ELSE Fail
  BY DEF ReadNothing, SameHeader
<1>2. InputInv /\ TypeOK /\ pos \in 0..Len(stream)
  BY DEF IInv, TypeOK
<1>3. UNCHANGED <<members, stream, cut, ragged, xz, early>> /\ (Ordinary' <=> Ordinary) /\ (Whole' => Whole)
  BY <1>1, SameInput
<1>4. InputInv' /\ \A n : Unpacked(n)' <=> Unpacked(n)
  BY <1>1, <1>2, <1>3, InputNext, SameTree
<1>5. TypeOK'
  BY <1>1, <1>2, <1>3 DEF TypeOK, EndOfArchive, Fail, buffer
<1>6. PICK n \in 0..Len(members) : Reading(n)
  BY <1>1, Where
<1>7. Base(members, n) \in Nat /\ Base(members, n) <= Base(members, Len(members))
      /\ Len(members) \in Nat
  BY <1>2, <1>6, BaseInside, InputFacts
<1>8. ~cut => Read(1) = "none" /\ pos + 1 >= Len(Stream(members))
  <2>1. ~cut => Len(stream) = Len(Stream(members)) /\ Len(stream) \in Nat
    BY <1>2, InputFacts DEF InputInv
  <2>2. ~cut => Read(1) \in {"full", "none"} /\ (pos + 1 < Len(stream) => Read(1) = "full")
    BY <1>2, ReadsAll
  <2>3. QED
    BY <1>1, <1>2, <2>1, <2>2
<1>9. CASE BetweenMembers(n)
  <2>1. CASE Read(1) = "none"
    <3>1. pc' = "close"
      BY <1>1, <1>9, <2>1 DEF EndOfArchive, BetweenMembers
    <3>2. \/ ~xz /\ ~ragged /\ pos = Len(stream)
          \/ xz /\ ~cut /\ pos + 1 >= Len(stream)
      BY <1>2, <2>1, ReadNone
    <3>3. ASSUME Ordinary, n < Len(members)
          PROVE  ~xz /\ ~ragged /\ Len(stream) = Base(members, n)
      <4>1. pos = Base(members, n)
        BY <1>9, <3>3 DEF BetweenMembers
      <4>2. ~(xz /\ ~cut)
        BY <1>2, <1>7, <1>8, <4>1, InputFacts
      <4>3. QED
        BY <3>2, <4>1, <4>2
    <3>4. Accepted(n)'
      BY <1>3, <1>4, <1>9, <3>1, <3>3 DEF Accepted, BetweenMembers
    <3>5. QED
      BY <1>3, <1>4, <1>5, <3>4 DEF IInv
  <2>2. CASE Read(1) # "none"
    BY <1>1, <1>3, <1>4, <1>5, <1>8, <2>2 DEF IInv, Fail, Whole
  <2>3. QED
    BY <2>1, <2>2
<1>10. CASE n < Len(members) /\ (\/ BehindLongLink(n, members[n + 1], Base(members, n))
                                 \/ BehindLongName(n, members[n + 1], Base(members, n)))
  <2>1. pos + 2 < Len(Stream(members))
    BY <1>2, <1>7, <1>10, HeaderFollows
  <2>2. cut
    <3>1. Len(Stream(members)) \in Nat
      BY <1>2, InputFacts
    <3>2. QED
      BY <1>2, <1>8, <2>1, <3>1 DEF InputInv
  <2>3. stage # "first"
    BY <1>10 DEF BehindLongLink, BehindLongName
  <2>4. pc' = "failed"
    BY <1>1, <2>3 DEF EndOfArchive, Fail
  <2>5. QED
    BY <1>3, <1>4, <1>5, <2>2, <2>4 DEF IInv, Whole
<1>11. QED
  BY <1>1, <1>2, <1>6, <1>9, <1>10, AtHeader

\* Of ordinary members, a block that is no header lies behind the last one.
LEMMA NoHeaderFollows ==
  ASSUME InputInv, pos \in 0..Len(stream), pos + 1 <= Len(stream),
         NEW n \in 0..Len(members), pc = "header", Reading(n),
         stream[pos + 1].kind # "header"
  PROVE  /\ BetweenMembers(n)
         /\ n = Len(members) \/ pos + 1 <= Base(members, n)
         /\ Ordinary => n = Len(members) /\ pos >= Base(members, n)
<1>1. Stream(members)[pos + 1].kind # "header" /\ pos \in Nat /\ Len(members) \in Nat
  <2>1. pos + 1 \in 1..Len(stream) /\ pos \in Nat
    BY DEF InputInv
  <2>2. QED
    BY <2>1, InputFacts DEF InputInv
<1>2. Base(members, n) \in Nat
  BY BaseInside
<1>3. n < Len(members) => /\ pos # Base(members, n)
                          /\ ~BehindLongLink(n, members[n + 1], Base(members, n))
                          /\ ~BehindLongName(n, members[n + 1], Base(members, n))
  BY <1>1, HeaderFollows
<1>4. BetweenMembers(n)
  BY <1>3, AtHeader
<1>5. n = Len(members) \/ pos + 1 <= Base(members, n)
  BY <1>1, <1>2, <1>3, <1>4 DEF BetweenMembers
<1>6. Ordinary => n = Len(members) /\ pos >= Base(members, n)
  BY <1>1, <1>2, <1>3, <1>4 DEF BetweenMembers
<1>7. QED
  BY <1>4, <1>5, <1>6

LEMMA ReadBlankInv ==
  ASSUME IInv, ReadBlank
  PROVE  IInv'
<1>1. /\ pc = "header" /\ Read(1) = "full" /\ stream[pos + 1].kind = "blank"
      /\ pos' = pos + 1 /\ blanks' = blanks + 1
      /\ IF blanks' >= 2 THEN EndOfArchive ELSE UNCHANGED pc
      /\ UNCHANGED <<input, stage, left, buffer, tree, full>>
  BY DEF ReadBlank, SameHeader
<1>2. InputInv /\ TypeOK /\ pos \in 0..Len(stream)
  BY DEF IInv, TypeOK
<1>3. UNCHANGED <<members, stream, cut, ragged, xz, early>> /\ (Ordinary' <=> Ordinary)
  BY <1>1, SameInput
<1>4. InputInv' /\ \A n : Unpacked(n)' <=> Unpacked(n)
  BY <1>1, <1>2, <1>3, InputNext, SameTree
<1>5. pos + 1 \in 0..Len(stream) /\ pos + 1 <= Len(stream) /\ pos \in Nat
  BY <1>1, <1>2, ReadFull DEF InputInv
<1>6. PICK n \in 0..Len(members) : Reading(n)
  BY <1>1, Where
<1>7. /\ BetweenMembers(n)
      /\ n = Len(members) \/ pos + 1 <= Base(members, n)
      /\ Ordinary => n = Len(members) /\ pos >= Base(members, n)
  BY <1>1, <1>2, <1>5, <1>6, NoHeaderFollows
<1>8. blanks \in {0, 1} /\ stage = "first"
  BY <1>7 DEF BetweenMembers
<1>9. pc' = IF blanks = 1 THEN "close" ELSE "header"
  BY <1>1, <1>8 DEF EndOfArchive
<1>10. TypeOK'
  BY <1>1, <1>2, <1>3, <1>5, <1>8, <1>9 DEF TypeOK, buffer
<1>11. CASE blanks = 1
  <2>1. Accepted(n)'
    BY <1>3, <1>4, <1>7, <1>9, <1>11 DEF Accepted, BetweenMembers
  <2>2. QED
    BY <1>3, <1>4, <1>10, <2>1 DEF IInv
<1>12. CASE blanks = 0
  <2>1. Base(members, n) \in Nat /\ UNCHANGED Base(members, n)
    BY <1>2, <1>3, BaseInside DEF Base, Prefix
  <2>2. \A p \in (pos' + 1)..Base(members, n) : p \in (pos + 1)..Base(members, n)
    BY <1>1, <1>5, <2>1
  <2>3. UNCHANGED Stream(members)
    BY <1>3 DEF Stream, Prefix
  <2>4. (Ordinary => Unpacked(n)) /\ \A p \in (pos + 1)..Base(members, n) : Stream(members)[p].kind \in {"blank", "data"}
    BY <1>7 DEF BetweenMembers
  <2>5. pc' = "header" /\ stage' = "first" /\ blanks' = 1 /\ longlink' = None /\ longname' = None
    BY <1>1, <1>7, <1>8, <1>9, <1>12 DEF BetweenMembers, buffer
  <2>6. Ordinary => n = Len(members) /\ pos' >= Base(members, n)
    BY <1>1, <1>5, <1>7, <2>1
  <2>7. BetweenMembers(n)'
    BY <1>1, <1>3, <1>4, <1>7, <2>1, <2>2, <2>3, <2>4, <2>5, <2>6 DEF BetweenMembers
  <2>8. QED
    BY <1>3, <1>4, <1>10, <2>7 DEF IInv
<1>13. QED
  BY <1>8, <1>11, <1>12

LEMMA ReadGarbageInv ==
  ASSUME IInv, ReadGarbage
  PROVE  IInv'
<1>1. /\ pc = "header" /\ Read(1) = "full" /\ stream[pos + 1].kind \notin {"blank", "header"}
      /\ pos' = pos + 1 /\ pc' = "failed"
      /\ UNCHANGED <<input, stage, left, buffer, tree, full, blanks>>
  BY DEF ReadGarbage, SameHeader, Fail
<1>2. InputInv /\ TypeOK /\ pos \in 0..Len(stream)
  BY DEF IInv, TypeOK
<1>3. UNCHANGED <<members, stream, cut, ragged, xz, early>> /\ (Whole' => Whole)
  BY <1>1, SameInput
<1>4. InputInv'
  BY <1>1, <1>2, InputNext
<1>5. pos + 1 \in 0..Len(stream) /\ pos + 1 <= Len(stream)
  BY <1>1, <1>2, ReadFull DEF InputInv
<1>6. TypeOK'
  BY <1>1, <1>2, <1>3, <1>5 DEF TypeOK, buffer
<1>7. PICK n \in 0..Len(members) : Reading(n)
  BY <1>1, Where
<1>8. ASSUME Ordinary PROVE FALSE
  <2>1. pos >= Base(members, Len(members))
    BY <1>1, <1>2, <1>5, <1>7, <1>8, NoHeaderFollows
  <2>2. stream[pos + 1] = Blank
    BY <1>2, <1>5, <2>1, BlankFollows
  <2>3. QED
    BY <1>1, <2>2 DEF Blank
<1>9. QED
  BY <1>1, <1>3, <1>4, <1>6, <1>8 DEF IInv, Whole

\* A header that is read is the next one that the member has.
LEMMA HeaderRead ==
  ASSUME InputInv, pos \in 0..Len(stream), pos + 1 <= Len(stream),
         NEW n \in 0..Len(members), pc = "header", Reading(n),
         stream[pos + 1].kind = "header"
  PROVE  /\ n < Len(members) /\ Begun(n)
         /\ \/ /\ pos = Base(members, n) /\ stage = "first"
               /\ longlink = None /\ longname = None
            \/ BehindLongLink(n, members[n + 1], Base(members, n))
            \/ BehindLongName(n, members[n + 1], Base(members, n))
<1>1. /\ pos + 1 \in 1..Len(stream) /\ pos \in Nat /\ Len(members) \in Nat
      /\ Stream(members)[pos + 1].kind = "header" /\ Base(members, n) \in Nat
  <2>1. pos + 1 \in 1..Len(stream) /\ pos \in Nat
    BY DEF InputInv
  <2>2. QED
    BY <2>1, InputFacts, BaseInside DEF InputInv
<1>2. CASE BetweenMembers(n)
  <2>1. pos >= Base(members, n)
    <3>1. ~(Stream(members)[pos + 1].kind \in {"blank", "data"})
      BY <1>1
    <3>2. pos + 1 \notin (pos + 1)..Base(members, n)
      BY <1>2, <3>1 DEF BetweenMembers
    <3>3. QED
      BY <1>1, <3>2
  <2>2. n # Len(members)
    <3>1. n = Len(members) => stream[pos + 1] = Blank
      BY <2>1, BlankFollows
    <3>2. QED
      BY <3>1 DEF Blank
  <2>3. pos = Base(members, n) /\ n < Len(members)
    BY <1>1, <1>2, <2>1, <2>2 DEF BetweenMembers
  <2>4. QED
    BY <1>2, <2>3 DEF BetweenMembers, Begun
<1>3. CASE ~BetweenMembers(n)
  BY <1>3 DEF Reading, InMember, InLongLink, InLongName, Begun
<1>4. QED
  BY <1>2, <1>3

\* The three headers that there may be: a long link's, a long name's, the member's.
LEMMA NextHeader ==
  ASSUME InputInv, NEW n \in Nat, n < Len(members), NEW m, m = members[n + 1],
         NEW base, base = Base(members, n),
         \/ /\ pos = base /\ stage = "first"
            /\ longlink = None /\ longname = None
         \/ BehindLongLink(n, m, base)
         \/ BehindLongName(n, m, base)
  PROVE  \/ /\ Stream(members)[pos + 1] = Header("longlink", "@LongLink", None, TextSize)
            /\ LongLink(m) /\ pos = base /\ stage = "first" /\ longname = None
         \/ /\ Stream(members)[pos + 1] = Header("longname", "@LongLink", None, TextSize)
            /\ LongName(m) /\ pos = base + LinkPart(m)
            /\ stage = (IF LongLink(m) THEN "link" ELSE "first")
            /\ LinkRead(m) /\ longname = None
         \/ /\ Stream(members)[pos + 1] = HeaderOf(m)
            /\ pos + 1 = base + Own(m)
            /\ LinkRead(m) /\ NameRead(m)
<1>1. Lies(members, n, m, base)
  BY AtMember
<1>2. /\ base \in Nat /\ LinkPart(m) \in Nat
      /\ LinkPart(m) = IF LongLink(m) THEN 3 ELSE 0
      /\ Own(m) = LinkPart(m) + (IF LongName(m) THEN 3 ELSE 0) + 1
  BY <1>1 DEF Lies
<1>3. /\ Stream(members)[base + Own(m)] = HeaderOf(m)
      /\ LongLink(m) => Stream(members)[base + 1] = Header("longlink", "@LongLink", None, TextSize)
      /\ LongName(m) => Stream(members)[base + LinkPart(m) + 1] = Header("longname", "@LongLink", None, TextSize)
  BY <1>1 DEF Lies
<1>4. CASE pos = base /\ stage = "first" /\ longlink = None /\ longname = None
  <2>1. CASE LongLink(m)
    BY <1>3, <1>4, <2>1
  <2>2. CASE ~LongLink(m) /\ LongName(m)
    <3>1. pos = base + LinkPart(m) /\ pos + 1 = base + LinkPart(m) + 1
      BY <1>2, <1>4, <2>2
    <3>2. QED
      BY <1>3, <1>4, <2>2, <3>1 DEF LinkRead
  <2>3. CASE ~LongLink(m) /\ ~LongName(m)
    <3>1. pos + 1 = base + Own(m)
      BY <1>2, <1>4, <2>3
    <3>2. QED
      BY <1>3, <1>4, <2>3, <3>1 DEF LinkRead, NameRead
  <2>4. QED
    BY <2>1, <2>2, <2>3
<1>5. CASE BehindLongLink(n, m, base)
  <2>1. LongLink(m) /\ pos = base + 3 /\ stage = "link" /\ LinkRead(m) /\ longname = None
    BY <1>5 DEF BehindLongLink
  <2>2. CASE LongName(m)
    <3>1. pos = base + LinkPart(m) /\ pos + 1 = base + LinkPart(m) + 1
      BY <1>2, <2>1
    <3>2. QED
      BY <1>3, <2>1, <2>2, <3>1
  <2>3. CASE ~LongName(m)
    <3>1. pos + 1 = base + Own(m)
      BY <1>2, <2>1, <2>3
    <3>2. QED
      BY <1>3, <2>1, <2>3, <3>1 DEF NameRead
  <2>4. QED
    BY <2>2, <2>3
<1>6. CASE BehindLongName(n, m, base)
  <2>1. LongName(m) /\ pos = base + LinkPart(m) + 3 /\ LinkRead(m) /\ NameRead(m)
    BY <1>6 DEF BehindLongName
  <2>2. pos + 1 = base + Own(m)
    BY <1>2, <2>1
  <2>3. QED
    BY <1>3, <2>1, <2>2
<1>7. QED
  BY <1>4, <1>5, <1>6

LEMMA ReadHeaderInv ==
  ASSUME IInv, ReadHeader
  PROVE  IInv'
<1>1. /\ pc = "header" /\ Read(1) = "full" /\ stream[pos + 1].kind = "header"
      /\ pos' = pos + 1 /\ header' = stream[pos + 1]
      /\ pc' = CASE header'.type = "longlink" /\ stage = "first" -> "longlink"
                 [] header'.type = "longname" /\ stage \in {"first", "link"} -> "longname"
                 [] OTHER -> "dispatch"
      /\ left' = BlocksFor(header'.size) /\ blanks' = 0
      /\ UNCHANGED <<input, stage, longlink, longname, tree, full>>
  BY DEF ReadHeader
<1>2. InputInv /\ TypeOK /\ pos \in 0..Len(stream)
  BY DEF IInv, TypeOK
<1>3. UNCHANGED <<members, stream, cut, ragged, xz, early>> /\ (Ordinary' <=> Ordinary)
  BY <1>1, SameInput
<1>4. InputInv' /\ \A n : Unpacked(n)' <=> Unpacked(n)
  BY <1>1, <1>2, <1>3, InputNext, SameTree
<1>5. /\ pos + 1 \in 0..Len(stream) /\ pos + 1 <= Len(stream) /\ pos \in Nat
      /\ stream[pos + 1] = Stream(members)[pos + 1]
  <2>1. pos + 1 \in 0..Len(stream) /\ pos + 1 <= Len(stream) /\ pos \in Nat
    BY <1>1, <1>2, ReadFull DEF InputInv
  <2>2. pos + 1 \in 1..Len(stream)
    BY <1>2, <2>1 DEF InputInv
  <2>3. QED
    BY <1>2, <2>1, <2>2 DEF InputInv
<1>6. PICK n \in 0..Len(members) : Reading(n)
  BY <1>1, Where
<1>7. n \in Nat /\ n + 1 \in 1..Len(members) /\ n < Len(members) /\ Begun(n)
  <2>1. n < Len(members) /\ Begun(n) /\ Len(members) \in Nat
    BY <1>1, <1>2, <1>5, <1>6, HeaderRead, InputFacts
  <2>2. QED
    BY <1>6, <2>1
<1>8. PICK m : m = members[n + 1]
  OBVIOUS
<1>9. PICK base : base = Base(members, n)
  OBVIOUS
<1>10. \/ /\ pos = base /\ stage = "first"
          /\ longlink = None /\ longname = None
       \/ BehindLongLink(n, m, base)
       \/ BehindLongName(n, m, base)
  BY <1>1, <1>2, <1>5, <1>6, <1>8, <1>9, HeaderRead
<1>11. \/ /\ header' = Header("longlink", "@LongLink", None, TextSize)
          /\ LongLink(m) /\ pos = base /\ stage = "first" /\ longname = None
       \/ /\ header' = Header("longname", "@LongLink", None, TextSize)
          /\ LongName(m) /\ pos = base + LinkPart(m)
          /\ stage = (IF LongLink(m) THEN "link" ELSE "first")
          /\ LinkRead(m) /\ longname = None
       \/ /\ header' = HeaderOf(m)
          /\ pos + 1 = base + Own(m)
          /\ LinkRead(m) /\ NameRead(m)
  BY <1>1, <1>2, <1>5, <1>7, <1>8, <1>9, <1>10, NextHeader
<1>12. Lies(members, n, m, base)
  BY <1>2, <1>7, <1>8, <1>9, AtMember
<1>13. m \in MemberType /\ base \in Nat /\ LinkPart(m) \in Nat
  BY <1>12 DEF Lies
<1>14. Begun(n)' /\ m = members'[n + 1] /\ base = Base(members, n)'
  BY <1>3, <1>4, <1>7, <1>8, <1>9 DEF Begun, Base, Prefix
<1>15. IInv' \/ ~(InMember(n, m, base)' /\ left' \in Nat /\ blanks' \in 0..2 /\ pc' \in {"longlink", "longname", "dispatch"})
  <2> SUFFICES ASSUME InMember(n, m, base)', left' \in Nat,
                      pc' \in {"longlink", "longname", "dispatch"}
               PROVE  IInv'
    OBVIOUS
  <2>1. TypeOK'
    BY <1>1, <1>2, <1>3, <1>5 DEF TypeOK
  <2>2. n \in 0..Len(members')
    BY <1>3, <1>6
  <2>3. InMember(n, members[n + 1], Base(members, n))'
    BY <1>14
  <2>4. QED
    BY <1>4, <2>1, <2>2, <2>3 DEF IInv
<1>16. CASE header' = Header("longlink", "@LongLink", None, TextSize)
            /\ LongLink(m) /\ pos = base /\ stage = "first" /\ longname = None
  <2>1. header'.type = "longlink" /\ header'.size = TextSize
    BY <1>16 DEF Header
  <2>2. pc' = "longlink" /\ left' = 2
    BY <1>1, <1>16, <2>1, BlocksOfText
  <2>3. pos' = base + 3 - left'
    BY <1>1, <1>13, <1>16, <2>2
  <2>4. InLongLink(n, m, base)'
    BY <1>1, <1>16, <2>2, <2>3 DEF InLongLink
  <2>5. QED
    BY <1>1, <1>14, <1>15, <2>2, <2>4 DEF InMember
<1>17. CASE header' = Header("longname", "@LongLink", None, TextSize)
            /\ LongName(m) /\ pos = base + LinkPart(m)
            /\ stage = (IF LongLink(m) THEN "link" ELSE "first")
            /\ LinkRead(m) /\ longname = None
  <2>1. header'.type = "longname" /\ header'.size = TextSize
    BY <1>17 DEF Header
  <2>2. pc' = "longname" /\ left' = 2
    BY <1>1, <1>17, <2>1, BlocksOfText
  <2>3. pos' = base + LinkPart(m) + 3 - left'
    BY <1>1, <1>13, <1>17, <2>2
  <2>4. InLongName(n, m, base)'
    BY <1>1, <1>17, <2>2, <2>3 DEF InLongName, LinkRead
  <2>5. QED
    BY <1>1, <1>14, <1>15, <2>2, <2>4 DEF InMember
<1>18. CASE header' = HeaderOf(m) /\ pos + 1 = base + Own(m) /\ LinkRead(m) /\ NameRead(m)
  <2>1. header'.type \in Kinds /\ header'.size \in Nat
    BY <1>13, <1>18 DEF Header, HeaderOf, MemberType, Kinds
  <2>2. pc' = "dispatch" /\ left' \in Nat
    BY <1>1, <2>1, BlocksType DEF Kinds
  <2>3. BehindHeader(n, m, base)'
    BY <1>1, <1>18 DEF BehindHeader, LinkRead, NameRead
  <2>4. QED
    BY <1>1, <1>14, <1>15, <2>2, <2>3 DEF InMember
<1>19. QED
  BY <1>11, <1>16, <1>17, <1>18

LEMMA ReadLongNameInv ==
  ASSUME IInv, ReadLongName
  PROVE  IInv'
<1>1. /\ pc \in {"longlink", "longname"}
      /\ UNCHANGED <<input, blanks, header, tree, full>>
  BY DEF ReadLongName
<1>2. InputInv /\ TypeOK /\ pos \in 0..Len(stream)
  BY DEF IInv, TypeOK
<1>3. UNCHANGED <<members, stream, cut, ragged, xz, early>> /\ (Ordinary' <=> Ordinary) /\ (Whole' => Whole)
  BY <1>1, SameInput
<1>4. InputInv' /\ \A n : Unpacked(n)' <=> Unpacked(n)
  BY <1>1, <1>2, <1>3, InputNext, SameTree
<1>5. PICK n \in 0..Len(members) : Reading(n)
  BY <1>1, Where
<1>6. PICK m : m = members[n + 1]
  OBVIOUS
<1>7. PICK base : base = Base(members, n)
  OBVIOUS
<1>8. Begun(n) /\ (InLongLink(n, m, base) \/ InLongName(n, m, base))
  BY <1>1, <1>5, <1>6, <1>7 DEF Reading, BetweenMembers, InMember, BehindLongLink, BehindLongName
<1>9. n \in Nat /\ n < Len(members) /\ Len(members) \in Nat
  BY <1>2, <1>5, <1>8, InputFacts DEF Begun
<1>10. Lies(members, n, m, base)
  BY <1>2, <1>6, <1>7, <1>9, AtMember
<1>11. /\ m \in MemberType /\ base \in Nat /\ LinkPart(m) \in Nat /\ Own(m) \in Nat
       /\ LinkPart(m) = IF LongLink(m) THEN 3 ELSE 0
       /\ Own(m) = LinkPart(m) + (IF LongName(m) THEN 3 ELSE 0) + 1
       /\ base + Own(m) + 2 <= Len(Stream(members)) /\ Len(Stream(members)) \in Nat
  <2>1. /\ m \in MemberType /\ base \in Nat /\ LinkPart(m) \in Nat /\ Own(m) \in Nat
        /\ Len(Data(m)) \in Nat /\ Base(members, n + 1) = base + Own(m) + Len(Data(m))
        /\ Base(members, n + 1) + 2 <= Len(Stream(members)) /\ Len(Stream(members)) \in Nat
        /\ LinkPart(m) = IF LongLink(m) THEN 3 ELSE 0
        /\ Own(m) = LinkPart(m) + (IF LongName(m) THEN 3 ELSE 0) + 1
    BY <1>10 DEF Lies
  <2>2. base + Own(m) + 2 <= Len(Stream(members))
    BY <2>1
  <2>3. QED
    BY <2>1, <2>2
<1>12. Begun(n)' /\ m = members'[n + 1] /\ base = Base(members, n)' /\ n \in 0..Len(members')
  BY <1>3, <1>4, <1>5, <1>6, <1>7, <1>8 DEF Begun, Base, Prefix
<1>13. left \in {1, 2} /\ \/ LongLink(m) /\ pos = base + 3 - left
                          \/ LongName(m) /\ pos = base + LinkPart(m) + 3 - left
  BY <1>8 DEF InLongLink, InLongName
<1>14. pos + 1 < Len(Stream(members))
  BY <1>11, <1>13
<1>15. CASE Read(1) # "full"
  <2>1. cut
    BY <1>2, <1>14, <1>15, ReadsAll, InputFacts
  <2>2. pc' = "failed" /\ UNCHANGED <<pos, left, longlink, longname, stage>>
    BY <1>15 DEF ReadLongName, Fail
  <2>3. TypeOK'
    BY <1>1, <1>2, <1>3, <2>2 DEF TypeOK
  <2>4. QED
    BY <1>3, <1>4, <2>1, <2>2, <2>3 DEF IInv, Whole
<1>16. CASE Read(1) = "full"
  <2>1. /\ pos + 1 \in 0..Len(stream) /\ pos \in Nat
        /\ stream[pos + 1] = Stream(members)[pos + 1]
    <3>1. pos + 1 \in 0..Len(stream) /\ pos + 1 <= Len(stream) /\ pos \in Nat
      BY <1>2, <1>16, ReadFull DEF InputInv
    <3>2. pos + 1 \in 1..Len(stream)
      BY <1>2, <3>1 DEF InputInv
    <3>3. QED
      BY <1>2, <3>1, <3>2 DEF InputInv
  <2> DEFINE text == IF stream[pos + 1].kind = "text" THEN stream[pos + 1].text ELSE "garbage"
  <2>2. /\ pos' = pos + 1 /\ left' = left - 1
        /\ longlink' = (IF pc = "longlink" THEN text ELSE longlink)
        /\ longname' = (IF pc = "longname" THEN text ELSE longname)
        /\ stage' = (IF pc = "longlink" THEN "link" ELSE "name")
        /\ pc' = IF left = 1 THEN "header" ELSE pc
    BY <1>16 DEF ReadLongName
  <2> HIDE DEF text
  <2>3. ASSUME InLongLink(n, m, base)
       PROVE  InMember(n, m, base)' /\ {longlink', longname'} \subseteq Names \cup {None, "garbage"}
    <3>1. pc = "longlink" /\ LongLink(m) /\ pos = base + 3 - left /\ blanks = 0 /\ longname = None
      BY <2>3 DEF InLongLink
    <3>2. stream[pos + 1] = [kind |-> "text", text |-> m.link]
      <4>1. pos + 1 = base + 2 \/ pos + 1 = base + 3
        BY <1>11, <1>13, <3>1
      <4>2. /\ Stream(members)[base + 2] = [kind |-> "text", text |-> m.link]
            /\ Stream(members)[base + 3] = [kind |-> "text", text |-> m.link]
        BY <1>10, <3>1 DEF Lies
      <4>3. QED
        BY <2>1, <4>1, <4>2
    <3>3. text = m.link /\ m.link \in Names /\ m.link \in Names
      BY <1>11, <3>2 DEF text, MemberType
    <3>4. ASSUME left = 1 PROVE InMember(n, m, base)'
      <4>1. pos' = base + 3
        BY <1>11, <2>2, <3>1, <3>4
      <4>2. BehindLongLink(n, m, base)'
        BY <1>1, <2>2, <3>1, <3>3, <3>4, <4>1 DEF BehindLongLink, LinkRead, NameRead
      <4>3. QED
        BY <1>12, <4>2 DEF InMember
    <3>5. ASSUME left = 2 PROVE InMember(n, m, base)'
      <4>1. pos' = base + 3 - left' /\ left' = 1
        BY <1>11, <2>2, <3>1, <3>5
      <4>2. InLongLink(n, m, base)'
        BY <1>1, <2>2, <3>1, <3>5, <4>1 DEF InLongLink, LinkRead
      <4>3. QED
        BY <1>12, <4>2 DEF InMember
    <3>6. InMember(n, m, base)'
      BY <1>13, <3>4, <3>5
    <3>7. {longlink', longname'} \subseteq Names \cup {None, "garbage"}
      BY <2>2, <3>1, <3>3 DEF LinkRead
    <3>8. QED
      BY <3>6, <3>7
  <2>4. ASSUME InLongName(n, m, base)
       PROVE  InMember(n, m, base)' /\ {longlink', longname'} \subseteq Names \cup {None, "garbage"}
    <3>1. pc = "longname" /\ LongName(m) /\ pos = base + LinkPart(m) + 3 - left /\ blanks = 0
          /\ LinkRead(m)
      BY <2>4 DEF InLongName
    <3>2. stream[pos + 1] = [kind |-> "text", text |-> m.name]
      <4>1. pos + 1 = base + LinkPart(m) + 2 \/ pos + 1 = base + LinkPart(m) + 3
        BY <1>11, <1>13, <3>1
      <4>2. /\ Stream(members)[base + LinkPart(m) + 2] = [kind |-> "text", text |-> m.name]
            /\ Stream(members)[base + LinkPart(m) + 3] = [kind |-> "text", text |-> m.name]
        BY <1>10, <3>1 DEF Lies
      <4>3. QED
        BY <2>1, <4>1, <4>2
    <3>3. text = m.name /\ m.name \in Names /\ m.link \in Names
      BY <1>11, <3>2 DEF text, MemberType
    <3>4. ASSUME left = 1 PROVE InMember(n, m, base)'
      <4>1. pos' = base + LinkPart(m) + 3
        BY <1>11, <2>2, <3>1, <3>4
      <4>2. BehindLongName(n, m, base)'
        BY <1>1, <2>2, <3>1, <3>3, <3>4, <4>1 DEF BehindLongName, LinkRead, NameRead
      <4>3. QED
        BY <1>12, <4>2 DEF InMember
    <3>5. ASSUME left = 2 PROVE InMember(n, m, base)'
      <4>1. pos' = base + LinkPart(m) + 3 - left' /\ left' = 1
        BY <1>11, <2>2, <3>1, <3>5
      <4>2. InLongName(n, m, base)'
        BY <1>1, <2>2, <3>1, <3>5, <4>1 DEF InLongName, LinkRead
      <4>3. QED
        BY <1>12, <4>2 DEF InMember
    <3>6. InMember(n, m, base)'
      BY <1>13, <3>4, <3>5
    <3>7. {longlink', longname'} \subseteq Names \cup {None, "garbage"}
      BY <2>2, <3>1, <3>3 DEF LinkRead
    <3>8. QED
      BY <3>6, <3>7
  <2>5. InMember(n, m, base)' /\ {longlink', longname'} \subseteq Names \cup {None, "garbage"}
    BY <1>8, <2>3, <2>4
  <2>6. left' \in Nat /\ stage' \in {"link", "name"}
        /\ pc' \in {"header", "longlink", "longname"} /\ pos' \in 0..Len(stream)
    BY <1>1, <1>13, <2>1, <2>2
  <2>7. TypeOK'
    BY <1>1, <1>2, <1>3, <2>5, <2>6 DEF TypeOK
  <2>8. InMember(n, members[n + 1], Base(members, n))'
    BY <1>12, <2>5
  <2>9. QED
    BY <1>4, <1>12, <2>7, <2>8 DEF IInv
<1>17. QED
  BY <1>15, <1>16

-----------------------------------------------------------------------------
(* What has been read of a member is the member's.                         *)

\* The name and the link of a member, long or not.
LEMMA PathIs ==
  ASSUME NEW n, NEW m \in MemberType, NEW base, BehindHeader(n, m, base)
  PROVE  /\ Path = m.name
         /\ header.type = m.type /\ header.size = (IF m.type = "reg" THEN m.size ELSE 0)
         /\ m.type \in {"sym", "lnk"} => LinkName = m.link
<1>1. /\ m.name \in Names /\ m.link \in Names
      /\ header = HeaderOf(m) /\ LinkRead(m) /\ NameRead(m)
  BY DEF BehindHeader, MemberType
<1>2. /\ header.type = m.type /\ header.size = (IF m.type = "reg" THEN m.size ELSE 0)
      /\ header.name = Field(m.name) /\ header.link = Field(m.link)
  BY <1>1 DEF HeaderOf, Header
<1>3. Path = m.name
  <2>1. CASE LongName(m)
    <3>1. longname = m.name /\ m.name # None
      BY <1>1, <2>1, NoneAssumption DEF NameRead
    <3>2. QED
      BY <3>1 DEF Path
  <2>2. CASE ~LongName(m)
    BY <1>1, <1>2, <2>2, Zenon DEF NameRead, Path, Field, LongName
  <2>3. QED
    BY <2>1, <2>2
<1>4. ASSUME m.type \in {"sym", "lnk"} PROVE LinkName = m.link
  <2>1. CASE LongLink(m)
    <3>1. longlink = m.link /\ m.link # None
      BY <1>1, <2>1, NoneAssumption DEF LinkRead
    <3>2. QED
      BY <3>1 DEF LinkName
  <2>2. CASE ~LongLink(m)
    BY <1>1, <1>2, <1>4, <2>2, Zenon DEF LinkRead, LinkName, Field, LongLink
  <2>3. QED
    BY <2>1, <2>2
<1>5. QED
  BY <1>2, <1>3, <1>4

-----------------------------------------------------------------------------
(* The directory.                                                          *)

NodeOK(x) ==
  \/ x \in [kind : {"dir", "special", "foreign"}]
  \/ x.kind = "symlink" /\ x.to \in Names
  \/ x.kind = "file" /\ x.bytes \in 0..(IntModulus \div 2 - 1)
TreeOK(t) == DOMAIN t \subseteq Names /\ \A k \in DOMAIN t : NodeOK(t[k])

LEMMA PutIs ==
  ASSUME NEW node, NEW name
  PROVE  /\ DOMAIN Put(node, name) = DOMAIN tree \cup {name}
         /\ Put(node, name)[name] = node
         /\ \A k \in DOMAIN tree : k # name => Put(node, name)[k] = tree[k]
BY DEF Put

LEMMA PutOK ==
  ASSUME TreeOK(tree), NEW node, NEW name \in Names, NodeOK(node)
  PROVE  TreeOK(Put(node, name))
<1>1. ASSUME NEW k \in DOMAIN Put(node, name)
      PROVE  k \in Names /\ NodeOK(Put(node, name)[k])
  <2>1. CASE k = name
    BY <2>1, PutIs
  <2>2. CASE k # name
    <3>0. DOMAIN Put(node, name) = DOMAIN tree \cup {name}
      BY PutIs
    <3>1. k \in DOMAIN tree
      BY <2>2, <3>0
    <3>2. Put(node, name)[k] = tree[k]
      BY <2>2, <3>1 DEF Put
    <3>3. QED
      BY <3>1, <3>2 DEF TreeOK
  <2>3. QED
    BY <2>1, <2>2
<1>2. QED
  BY <1>1 DEF TreeOK

\* In front of member n + 1, an ordinary one, its name is free.
LEMMA NameIsFree ==
  ASSUME Ordinary, NEW n \in Nat, n < Len(members), members \in Seq(MemberType)
  PROVE  members[n + 1].name \notin {members[i].name : i \in 1..n}
<1>1. DOMAIN members = 1..Len(members) /\ Len(members) \in Nat
  OBVIOUS
<1>2. ASSUME NEW i \in 1..n PROVE members[i].name # members[n + 1].name
  <2>1. i \in DOMAIN members /\ n + 1 \in DOMAIN members /\ i # n + 1
    BY <1>1
  <2>2. QED
    BY <2>1 DEF Ordinary
<1>3. QED
  BY <1>2

\* The directory has one member more.
LEMMA OneMore ==
  ASSUME NEW n \in Nat, NEW m, m = members[n + 1], UNCHANGED members,
         DOMAIN tree' = {members[i].name : i \in 1..n} \cup {m.name},
         \A i \in 1..n : tree'[members[i].name] = NodeOf(members[i]),
         tree'[m.name] = NodeOf(m)
  PROVE  Unpacked(n + 1)'
<1>1. 1..(n + 1) = (1..n) \cup {n + 1}
  OBVIOUS
<1>2. {members[i].name : i \in 1..(n + 1)} = {members[i].name : i \in 1..n} \cup {m.name}
  BY <1>1
<1>3. \A i \in 1..(n + 1) : tree'[members[i].name] = NodeOf(members[i])
  BY <1>1
<1>4. QED
  BY <1>2, <1>3 DEF Unpacked

\* A member is done, or the extraction is over.
LEMMA MemberDone ==
  ASSUME IInv, NEW n \in Nat, n < Len(members), NEW m, m = members[n + 1],
         UNCHANGED input, full' \in BOOLEAN, left' \in Nat, pos' \in 0..Len(stream),
         \/ /\ NextMember /\ TreeOK(tree')
            /\ pos' <= Base(members, n + 1)
            /\ pos' >= Base(members, n) + Own(m)
            /\ Ordinary => Unpacked(n + 1)' /\ pos' = Base(members, n + 1)
         \/ /\ Fail /\ UNCHANGED <<stage, blanks, buffer, tree>>
            /\ ~Whole'
  PROVE  IInv'
<1>1. InputInv /\ TypeOK
  BY DEF IInv
<1>2. UNCHANGED <<members, stream, cut, ragged, xz, early>> /\ (Ordinary' <=> Ordinary)
  BY SameInput
<1>3. InputInv'
  BY <1>1, InputNext
<1>4. CASE Fail /\ UNCHANGED <<stage, blanks, buffer, tree>> /\ ~Whole'
  <2>1. TypeOK'
    BY <1>1, <1>2, <1>4 DEF TypeOK, Fail, buffer
  <2>2. QED
    BY <1>3, <1>4, <2>1 DEF IInv, Fail
<1>5. CASE /\ NextMember /\ TreeOK(tree')
           /\ pos' <= Base(members, n + 1)
           /\ pos' >= Base(members, n) + Own(m)
           /\ Ordinary => Unpacked(n + 1)' /\ pos' = Base(members, n + 1)
  <2> DEFINE base == Base(members, n)
             next == Base(members, n + 1)
  <2>0. /\ pc' = "header" /\ stage' = "first" /\ blanks' = 0
        /\ longlink' = None /\ longname' = None
    BY <1>5 DEF NextMember
  <2>1. TypeOK'
    BY <1>1, <1>2, <1>5, <2>0 DEF TypeOK, TreeOK, NodeOK
  <2>2. Lies(members, n, m, base)
    BY <1>1, AtMember
  <2>3. UNCHANGED next /\ UNCHANGED Stream(members)
    BY <1>2 DEF Base, Prefix, Stream
  <2>4. ASSUME NEW p \in (pos' + 1)..next
        PROVE  Stream(members)[p].kind \in {"blank", "data"}
    <3> HIDE DEF base, next
    <3>1. base \in Nat /\ Own(m) \in Nat /\ Len(Data(m)) \in Nat
          /\ next = base + Own(m) + Len(Data(m))
          /\ m \in MemberType
      BY <2>2 DEF Lies, next
    <3>2. pos' \in Nat /\ pos' >= base + Own(m)
      BY <1>1, <1>5 DEF base, InputInv
    <3>3. p - (base + Own(m)) \in 1..Len(Data(m)) /\ base + Own(m) + (p - (base + Own(m))) = p
      <4>1. PICK own \in Nat : own = base + Own(m)
        BY <3>1
      <4>2. PICK data \in Nat : data = Len(Data(m))
        BY <3>1
      <4>3. PICK from \in Nat : from = pos'
        BY <3>2
      <4>4. next = own + data /\ from >= own /\ p \in (from + 1)..next
        BY <3>1, <3>2, <4>1, <4>2, <4>3
      <4>5. p - own \in 1..data /\ own + (p - own) = p
        BY <4>4
      <4>6. QED
        BY <4>1, <4>2, <4>5
    <3>4. Stream(members)[base + Own(m) + (p - (base + Own(m)))] = Data(m)[p - (base + Own(m))]
      BY <2>2, <3>3 DEF Lies
    <3>5. Data(m)[p - (base + Own(m))].kind \in {"blank", "data"}
      BY <3>1, <3>3, DataIs
    <3>6. QED
      BY <3>3, <3>4, <3>5
  <2> HIDE DEF base, next
  <2>5. n + 1 \in 0..Len(members')
    BY <1>1, <1>2, InputFacts
  <2>6. BetweenMembers(n + 1)'
    <3>1. pos' <= next /\ (Ordinary => Unpacked(n + 1)' /\ pos' = next)
      BY <1>5 DEF next
    <3>2. \A p \in (pos' + 1)..next : Stream(members')[p].kind \in {"blank", "data"}
      BY <2>4, <1>2
    <3>3. Base(members', n + 1) = next
      BY <2>3, <1>2 DEF next
    <3>4. pos' <= Base(members', n + 1)
      BY <3>1, <3>3
    <3>5. \A p \in (pos' + 1)..Base(members', n + 1) : Stream(members')[p].kind \in {"blank", "data"}
      BY <3>2, <3>3
    <3>6. Ordinary' => Unpacked(n + 1)' /\ pos' = Base(members', n + 1)
      BY <1>2, <3>1, <3>3
    <3>7. QED
      BY <2>0, <3>4, <3>5, <3>6 DEF BetweenMembers
  <2>7. QED
    BY <1>3, <2>1, <2>5, <2>6 DEF IInv
<1>6. QED
  BY <1>4, <1>5

-----------------------------------------------------------------------------
(* tar_extract_file(): members without data.                               *)

LEMMA AtDispatch ==
  ASSUME IInv, pc = "dispatch"
  PROVE  \E n \in 0..Len(members) :
           /\ n < Len(members) /\ (Ordinary => Unpacked(n))
           /\ BehindHeader(n, members[n + 1], Base(members, n))
<1>1. PICK n \in 0..Len(members) : Reading(n)
  BY Where
<1>2. /\ n < Len(members) /\ (Ordinary => Unpacked(n))
      /\ BehindHeader(n, members[n + 1], Base(members, n))
  BY <1>1 DEF Reading, BetweenMembers, InMember, InLongLink, BehindLongLink, InLongName,
              BehindLongName, Begun
<1>3. QED
  BY <1>2

\* What is known there. A member without data ends with its header.
LEMMA Dispatched ==
  ASSUME IInv, pc = "dispatch"
  PROVE  \E n \in Nat, m \in MemberType :
           /\ n < Len(members) /\ m = members[n + 1] /\ (Ordinary => Unpacked(n))
           /\ BehindHeader(n, m, Base(members, n))
           /\ Path = m.name /\ m.name \in Names /\ m.link \in Names
           /\ header.type = m.type
           /\ header.size = (IF m.type = "reg" THEN m.size ELSE 0)
           /\ m.type \in {"sym", "lnk"} => LinkName = m.link
           /\ pos = Base(members, n) + Own(m)
           /\ m.type # "reg" => pos = Base(members, n + 1)
           /\ Ordinary => m.type \in {"reg", "sym"} /\ m.name \notin DOMAIN tree
<1>1. InputInv /\ TypeOK
  BY DEF IInv
<1>2. PICK n \in 0..Len(members) :
           /\ n < Len(members) /\ (Ordinary => Unpacked(n))
           /\ BehindHeader(n, members[n + 1], Base(members, n))
  BY AtDispatch
<1>3. PICK m : m = members[n + 1]
  OBVIOUS
<1>4. Len(members) \in Nat /\ members \in Seq(MemberType)
  BY <1>1, InputFacts
<1>5. n \in Nat /\ n + 1 \in DOMAIN members
  BY <1>2, <1>4
<1>6. Lies(members, n, m, Base(members, n))
  BY <1>1, <1>2, <1>3, <1>5, AtMember
<1>7. m \in MemberType
  BY <1>6 DEF Lies
<1>8. pos = Base(members, n) + Own(m)
  BY <1>2, <1>3 DEF BehindHeader
<1>9. m.type # "reg" => pos = Base(members, n + 1)
  <2>1. m.type # "reg" => Len(Data(m)) = 0
    BY <1>7, DataIs
  <2>2. /\ Base(members, n + 1) = Base(members, n) + Own(m) + Len(Data(m))
        /\ Base(members, n) \in Nat /\ Own(m) \in Nat
    BY <1>6 DEF Lies
  <2>3. QED
    BY <1>8, <2>1, <2>2
<1>10. Ordinary => m.type \in {"reg", "sym"} /\ m.name \notin DOMAIN tree
  <2>1. Ordinary => m.type \in {"reg", "sym"}
    BY <1>3, <1>5 DEF Ordinary
  <2>2. Ordinary => m.name \notin {members[i].name : i \in 1..n}
    BY <1>2, <1>3, <1>4, <1>5, NameIsFree
  <2>3. QED
    BY <1>2, <2>1, <2>2 DEF Unpacked
<1>11. m.name \in Names /\ m.link \in Names
  BY <1>7 DEF MemberType
<1>12. /\ Path = m.name
       /\ header.type = m.type /\ header.size = (IF m.type = "reg" THEN m.size ELSE 0)
       /\ m.type \in {"sym", "lnk"} => LinkName = m.link
  BY <1>2, <1>3, <1>7, PathIs
<1>13. QED
  BY <1>2, <1>3, <1>5, <1>7, <1>8, <1>9, <1>10, <1>11, <1>12

LEMMA TreeTyped == TypeOK => TreeOK(tree)
BY DEF TypeOK, TreeOK, NodeOK

\* Members without data.
LEMMA ExtractInv ==
  ASSUME IInv, ExtractDir \/ ExtractHardlink \/ ExtractSymlink \/ ExtractSpecial
  PROVE  IInv'
<1>1. pc = "dispatch" /\ UNCHANGED <<input, pos, left, full>>
  BY DEF ExtractDir, ExtractHardlink, ExtractSymlink, ExtractSpecial, Extracted
<1>2. InputInv /\ TypeOK
  BY DEF IInv
<1>3. PICK n \in Nat, m \in MemberType :
           /\ n < Len(members) /\ m = members[n + 1] /\ (Ordinary => Unpacked(n))
           /\ BehindHeader(n, m, Base(members, n))
           /\ Path = m.name /\ m.name \in Names /\ m.link \in Names
           /\ header.type = m.type
           /\ header.size = (IF m.type = "reg" THEN m.size ELSE 0)
           /\ m.type \in {"sym", "lnk"} => LinkName = m.link
           /\ pos = Base(members, n) + Own(m)
           /\ m.type # "reg" => pos = Base(members, n + 1)
           /\ Ordinary => m.type \in {"reg", "sym"} /\ m.name \notin DOMAIN tree
  BY <1>1, Dispatched
<1>4. UNCHANGED <<members, stream>> /\ (Ordinary' <=> Ordinary) /\ (Whole' => Ordinary)
  <2>1. UNCHANGED <<members, stream>> /\ (Ordinary' <=> Ordinary)
    BY <1>1, SameInput
  <2>2. QED
    BY <2>1 DEF Whole
<1>5. m.type # "reg"
  BY <1>3 DEF ExtractDir, ExtractHardlink, ExtractSymlink, ExtractSpecial
<1>6. \/ Fail /\ UNCHANGED <<stage, blanks, buffer, tree>> /\ ~Ordinary
      \/ /\ NextMember /\ TreeOK(tree')
         /\ Ordinary => tree' = Put(Symlink(m.link), m.name) /\ m.type = "sym"
  <2>0. TreeOK(tree)
    BY <1>2, TreeTyped
  <2>1. CASE ExtractDir
    <3>1. m.type = "dir" /\ ~Ordinary
      BY <1>3, <2>1 DEF ExtractDir
    <3>2. NodeOK([kind |-> "dir"])
      BY DEF NodeOK
    <3>3. TreeOK(Put([kind |-> "dir"], m.name))
      BY <1>3, <2>0, <3>2, PutOK
    <3>4. \/ Fail /\ UNCHANGED <<stage, blanks, buffer, tree>>
          \/ NextMember /\ tree' \in {tree, Put([kind |-> "dir"], m.name)}
      BY <1>3, <2>1 DEF ExtractDir, Extracted
    <3>5. QED
      BY <2>0, <3>1, <3>3, <3>4
  <2>2. CASE ExtractHardlink
    <3>1. m.type = "lnk" /\ ~Ordinary
      BY <1>3, <2>2 DEF ExtractHardlink
    <3>2. NodeOK([kind |-> "foreign"])
      BY DEF NodeOK
    <3>3. TreeOK(Put([kind |-> "foreign"], m.name))
      BY <1>3, <2>0, <3>2, PutOK
    <3>4. \/ Fail /\ UNCHANGED <<stage, blanks, buffer, tree>>
          \/ NextMember /\ tree' = Put([kind |-> "foreign"], m.name)
      BY <1>3, <2>2 DEF ExtractHardlink, Extracted
    <3>5. QED
      BY <3>1, <3>3, <3>4
  <2>3. CASE ExtractSymlink
    <3>1. m.type = "sym" /\ LinkName = m.link
      BY <1>3, <2>3 DEF ExtractSymlink
    <3>2. NodeOK(Symlink(m.link))
      BY <1>3 DEF NodeOK, Symlink
    <3>3. TreeOK(Put(Symlink(m.link), m.name))
      BY <1>3, <2>0, <3>2, PutOK
    <3>4. \/ /\ m.name \in DOMAIN tree
             /\ Fail /\ UNCHANGED <<stage, blanks, buffer, tree>>
          \/ NextMember /\ tree' = Put(Symlink(m.link), m.name)
      BY <1>3, <2>3, <3>1 DEF ExtractSymlink, Extracted
    <3>5. QED
      BY <1>3, <3>1, <3>3, <3>4
  <2>4. CASE ExtractSpecial
    <3>1. m.type = "special" /\ ~Ordinary
      BY <1>3, <2>4 DEF ExtractSpecial
    <3>2. NodeOK([kind |-> "special"])
      BY DEF NodeOK
    <3>3. TreeOK(Put([kind |-> "special"], m.name))
      BY <1>3, <2>0, <3>2, PutOK
    <3>4. \/ Fail /\ UNCHANGED <<stage, blanks, buffer, tree>>
          \/ NextMember /\ tree' = Put([kind |-> "special"], m.name)
      BY <1>3, <2>4 DEF ExtractSpecial, Extracted
    <3>5. QED
      BY <3>1, <3>3, <3>4
  <2>5. QED
    BY <2>1, <2>2, <2>3, <2>4
<1>7. CASE Fail /\ UNCHANGED <<stage, blanks, buffer, tree>> /\ ~Ordinary
  BY <1>1, <1>2, <1>3, <1>4, <1>7, MemberDone DEF TypeOK
<1>8. CASE /\ NextMember /\ TreeOK(tree')
           /\ Ordinary => tree' = Put(Symlink(m.link), m.name) /\ m.type = "sym"
  <2>1. ASSUME Ordinary PROVE Unpacked(n + 1)'
    <3>1. tree' = Put(Symlink(m.link), m.name) /\ m.type = "sym" /\ Unpacked(n)
          /\ m.name \notin DOMAIN tree
      BY <1>3, <1>8, <2>1
    <3>2. DOMAIN tree = {members[i].name : i \in 1..n}
          /\ \A i \in 1..n : tree[members[i].name] = NodeOf(members[i])
      BY <3>1 DEF Unpacked
    <3>3. DOMAIN tree' = {members[i].name : i \in 1..n} \cup {m.name} /\ tree'[m.name] = NodeOf(m)
      BY <3>1, <3>2, PutIs DEF NodeOf
    <3>4. ASSUME NEW i \in 1..n PROVE tree'[members[i].name] = NodeOf(members[i])
      <4>1. members[i].name \in DOMAIN tree /\ members[i].name # m.name
        BY <3>1, <3>2
      <4>2. QED
        BY <3>1, <3>2, <4>1 DEF Put
    <3>5. QED
      BY <1>3, <1>4, <3>3, <3>4, OneMore
  <2>2. pos' = pos /\ pos' = Base(members, n + 1) /\ pos' \in 0..Len(stream) /\ pos' \in Nat
    BY <1>1, <1>2, <1>3, <1>5 DEF TypeOK, InputInv
  <2>3. pos' <= Base(members, n + 1) /\ pos' >= Base(members, n) + Own(m)
    BY <1>3, <2>2
  <2>4. full' \in BOOLEAN /\ left' \in Nat
    BY <1>1, <1>2 DEF TypeOK
  <2>5. QED
    BY <1>1, <1>3, <1>8, <2>1, <2>2, <2>3, <2>4, MemberDone
<1>9. QED
  BY <1>6, <1>7, <1>8

-----------------------------------------------------------------------------
(* Resolve: following symbolic links.                                      *)

Hop(t, x) == IF x \in DOMAIN t /\ t[x].kind = "symlink" THEN t[x].to ELSE x

\* Resolve() in a directory t, with chains of n links at most.
ResolveIn(t, n, name) ==
  LET follow[k \in 0..n] == IF k = 0 THEN name ELSE Hop(t, follow[k - 1])
  IN  IF follow[n] \in DOMAIN t /\ t[follow[n]].kind = "symlink" THEN None ELSE follow[n]

LEMMA ResolveIs ==
  ASSUME NEW name
  PROVE  Resolve(name) = ResolveIn(tree, Len(members), name)
BY DEF Resolve, ResolveIn, Hop

LEMMA HopType ==
  ASSUME NEW t, TreeOK(t), NEW x \in Names
  PROVE  Hop(t, x) \in Names
<1>1. CASE x \in DOMAIN t /\ t[x].kind = "symlink"
  <2>1. NodeOK(t[x])
    BY <1>1 DEF TreeOK
  <2>2. t[x].to \in Names
    BY <1>1, <2>1 DEF NodeOK
  <2>3. QED
    BY <1>1, <2>2 DEF Hop
<1>2. CASE ~(x \in DOMAIN t /\ t[x].kind = "symlink")
  BY <1>2 DEF Hop
<1>3. QED
  BY <1>1, <1>2

\* f follows n links from a name.
Follows(t, n, name, f) ==
  \A k \in 0..n : f[k] = IF k = 0 THEN name ELSE Hop(t, f[k - 1])
Chain(t, n, name, f) == f \in [0..n -> Names] /\ Follows(t, n, name, f)
SameHops(t, u) == \A x : Hop(u, x) = Hop(t, x)

LEMMA ChainExists ==
  ASSUME NEW t, TreeOK(t), NEW n \in Nat, NEW name \in Names
  PROVE  \E f : Chain(t, n, name, f)
<1> DEFINE S == {k \in Nat : \E f : Chain(t, k, name, f)}
<1>1. 0 \in S
  <2>1. Chain(t, 0, name, [k \in 0..0 |-> name])
    BY DEF Chain, Follows
  <2>2. QED
    BY <2>1
<1>2. ASSUME NEW k \in Nat, k \in S PROVE k + 1 \in S
  <2>1. PICK f : Chain(t, k, name, f)
    BY <1>2
  <2> DEFINE g == [i \in 0..(k + 1) |-> IF i = k + 1 THEN Hop(t, f[k]) ELSE f[i]]
  <2>2. f[k] \in Names /\ Hop(t, f[k]) \in Names
    BY <2>1, HopType DEF Chain
  <2>3. ASSUME NEW i \in 0..(k + 1)
        PROVE  g[i] \in Names /\ g[i] = IF i = 0 THEN name ELSE Hop(t, g[i - 1])
    <3>1. CASE i = k + 1
      BY <2>2, <3>1
    <3>2. CASE i # k + 1
      <4>1. i \in 0..k /\ g[i] = f[i] /\ (i # 0 => i - 1 \in 0..k /\ g[i - 1] = f[i - 1])
        BY <3>2
      <4>2. f[i] \in Names /\ f[i] = IF i = 0 THEN name ELSE Hop(t, f[i - 1])
        BY <2>1, <4>1 DEF Chain, Follows
      <4>3. QED
        BY <4>1, <4>2
    <3>3. QED
      BY <3>1, <3>2
  <2>4. g \in [0..(k + 1) -> Names]
    BY <2>3
  <2> HIDE DEF g
  <2>5. Chain(t, k + 1, name, g)
    BY <2>3, <2>4 DEF Chain, Follows
  <2>6. QED
    BY <2>5
<1>3. n \in S
  <2> HIDE DEF S
  <2>1. QED
    BY <1>1, <1>2, SetInduction
<1>4. QED
  BY <1>3

\* Two directories with the same links have the same chains.
LEMMA SameChain ==
  ASSUME NEW t, NEW u, NEW n \in Nat, NEW name, NEW f, NEW g,
         Follows(t, n, name, f), Follows(u, n, name, g), SameHops(t, u)
  PROVE  g[n] = f[n]
<1> DEFINE S == {k \in Nat : k <= n => g[k] = f[k]}
<1>1. 0 \in S
  <2>1. 0 \in 0..n
    OBVIOUS
  <2>2. QED
    BY <2>1 DEF Follows
<1>2. ASSUME NEW k \in Nat, k \in S PROVE k + 1 \in S
  <2> SUFFICES ASSUME k + 1 <= n PROVE g[k + 1] = f[k + 1]
    OBVIOUS
  <2>1. k \in 0..n /\ k + 1 \in 0..n /\ k + 1 # 0 /\ (k + 1) - 1 = k /\ g[k] = f[k]
    BY <1>2
  <2>2. g[k + 1] = Hop(u, g[k]) /\ f[k + 1] = Hop(t, f[k])
    BY <2>1 DEF Follows
  <2>3. QED
    BY <2>1, <2>2 DEF SameHops
<1>3. n \in S
  <2> HIDE DEF S
  <2>1. QED
    BY <1>1, <1>2, SetInduction
<1>4. QED
  BY <1>3

\* Resolve() is where such a chain ends.
LEMMA ResolveBy ==
  ASSUME NEW t, TreeOK(t), NEW n \in Nat, NEW name \in Names
  PROVE  \E f : /\ Chain(t, n, name, f)
                /\ ResolveIn(t, n, name) =
                     IF f[n] \in DOMAIN t /\ t[f[n]].kind = "symlink" THEN None ELSE f[n]
<1> DEFINE Is(f) == f = [k \in 0..n |-> IF k = 0 THEN name ELSE Hop(t, f[k - 1])]
           c == CHOOSE f : Is(f)
<1>1. PICK f : Chain(t, n, name, f)
  BY ChainExists
<1>2. Is(f)
  BY <1>1 DEF Chain, Follows
<1>3. Is(c)
  <2> HIDE DEF Is
  <2>1. QED
    BY <1>2
<1>4. ResolveIn(t, n, name) = IF c[n] \in DOMAIN t /\ t[c[n]].kind = "symlink" THEN None ELSE c[n]
  BY DEF ResolveIn
<1> HIDE DEF c
<1>5. Follows(t, n, name, c) /\ Follows(t, n, name, f) /\ SameHops(t, t)
  BY <1>1, <1>3 DEF Follows, Chain, SameHops
<1> HIDE DEF Is
<1>6. c[n] = f[n]
  BY <1>5, SameChain
<1>7. QED
  BY <1>1, <1>4, <1>6

LEMMA ResolveType ==
  ASSUME NEW t, TreeOK(t), NEW n \in Nat, NEW name \in Names
  PROVE  \/ ResolveIn(t, n, name) = None
         \/ /\ ResolveIn(t, n, name) \in Names
            /\ Hop(t, ResolveIn(t, n, name)) = ResolveIn(t, n, name)
<1>1. PICK f : /\ Chain(t, n, name, f)
               /\ ResolveIn(t, n, name) =
                    IF f[n] \in DOMAIN t /\ t[f[n]].kind = "symlink" THEN None ELSE f[n]
  BY ResolveBy
<1>2. f[n] \in Names
  BY <1>1 DEF Chain
<1>3. QED
  BY <1>1, <1>2 DEF Hop

\* What is not a symbolic link is where it leads to.
LEMMA ResolveStill ==
  ASSUME NEW t, TreeOK(t), NEW n \in Nat, NEW name \in Names,
         ~(name \in DOMAIN t /\ t[name].kind = "symlink")
  PROVE  ResolveIn(t, n, name) = name
<1>1. PICK f : /\ Chain(t, n, name, f)
               /\ ResolveIn(t, n, name) =
                    IF f[n] \in DOMAIN t /\ t[f[n]].kind = "symlink" THEN None ELSE f[n]
  BY ResolveBy
<1> DEFINE S == {k \in Nat : k <= n => f[k] = name}
<1>2. 0 \in S
  BY <1>1 DEF Chain, Follows
<1>3. ASSUME NEW k \in Nat, k \in S PROVE k + 1 \in S
  <2> SUFFICES ASSUME k + 1 <= n PROVE f[k + 1] = name
    OBVIOUS
  <2>1. k + 1 \in 0..n /\ k + 1 # 0 /\ (k + 1) - 1 = k /\ f[k] = name
    BY <1>3
  <2>2. f[k + 1] = Hop(t, f[k])
    BY <1>1, <2>1 DEF Chain, Follows
  <2>3. QED
    BY <2>1, <2>2 DEF Hop
<1>4. f[n] = name
  <2>1. n \in S
    <3> HIDE DEF S
    <3>1. QED
      BY <1>2, <1>3, SetInduction
  <2>2. QED
    BY <2>1
<1>5. QED
  BY <1>1, <1>4

\* A file that open() has made is where its name led before.
LEMMA ResolveOpened ==
  ASSUME NEW t, TreeOK(t), NEW u, TreeOK(u), NEW n \in Nat, NEW name \in Names,
         ResolveIn(t, n, name) # None,
         DOMAIN u = DOMAIN t \cup {ResolveIn(t, n, name)},
         u[ResolveIn(t, n, name)].kind # "symlink",
         \A k \in DOMAIN t : k # ResolveIn(t, n, name) => u[k] = t[k]
  PROVE  ResolveIn(u, n, name) = ResolveIn(t, n, name)
<1> DEFINE e == ResolveIn(t, n, name)
<1>1. PICK f : /\ Chain(t, n, name, f)
               /\ e = IF f[n] \in DOMAIN t /\ t[f[n]].kind = "symlink" THEN None ELSE f[n]
  BY ResolveBy
<1>2. PICK g : /\ Chain(u, n, name, g)
               /\ ResolveIn(u, n, name) =
                    IF g[n] \in DOMAIN u /\ u[g[n]].kind = "symlink" THEN None ELSE g[n]
  BY ResolveBy
<1>3. Hop(t, e) = e
  BY ResolveType
<1> HIDE DEF e
<1>4. /\ e # None /\ DOMAIN u = DOMAIN t \cup {e} /\ u[e].kind # "symlink"
      /\ \A k \in DOMAIN t : k # e => u[k] = t[k]
  BY DEF e
<1>5. ASSUME NEW x PROVE Hop(u, x) = Hop(t, x)
  <2>1. CASE x = e
    BY <1>3, <1>4, <2>1 DEF Hop
  <2>2. CASE x # e
    BY <1>4, <2>2 DEF Hop
  <2>3. QED
    BY <2>1, <2>2
<1>6. g[n] = f[n]
  <2>1. Follows(t, n, name, f) /\ Follows(u, n, name, g) /\ SameHops(t, u)
    BY <1>1, <1>2, <1>5 DEF Chain, SameHops
  <2>2. QED
    BY <2>1, SameChain
<1>7. f[n] = e
  BY <1>1, <1>4
<1>8. ResolveIn(u, n, name) = e
  BY <1>2, <1>4, <1>6, <1>7
<1>9. QED
  BY <1>8 DEF e

-----------------------------------------------------------------------------
(* tar_extract_regfile().                                                  *)

LEMMA BlocksGrow ==
  ASSUME NEW i \in Nat, NEW j \in Nat, i <= j
  PROVE  BlocksFor(i) <= BlocksFor(j)
BY SizesAssumption DEF BlocksFor

LEMMA OpenRegfileInv ==
  ASSUME IInv, OpenRegfile
  PROVE  IInv'
<1>1. /\ pc = "dispatch" /\ header.type \notin {"dir", "lnk", "sym", "special"}
      /\ UNCHANGED <<input, pos, stage, blanks, left, buffer, full>>
  BY DEF OpenRegfile
<1>2. InputInv /\ TypeOK /\ TreeOK(tree)
  BY TreeTyped DEF IInv
<1>3. PICK n \in Nat, m \in MemberType :
           /\ n < Len(members) /\ m = members[n + 1] /\ (Ordinary => Unpacked(n))
           /\ BehindHeader(n, m, Base(members, n))
           /\ Path = m.name /\ m.name \in Names /\ m.link \in Names
           /\ header.type = m.type
           /\ header.size = (IF m.type = "reg" THEN m.size ELSE 0)
           /\ m.type \in {"sym", "lnk"} => LinkName = m.link
           /\ pos = Base(members, n) + Own(m)
           /\ m.type # "reg" => pos = Base(members, n + 1)
           /\ Ordinary => m.type \in {"reg", "sym"} /\ m.name \notin DOMAIN tree
  BY <1>1, Dispatched
<1>4. UNCHANGED <<members, stream>> /\ (Ordinary' <=> Ordinary) /\ (Whole' => Ordinary)
  <2>1. UNCHANGED <<members, stream>> /\ (Ordinary' <=> Ordinary)
    BY <1>1, SameInput
  <2>2. QED
    BY <2>1 DEF Whole
<1>5. m.type = "reg"
  BY <1>1, <1>3 DEF MemberType
<1>6. PICK name : name = Resolve(Path)
  OBVIOUS
<1>7. name = ResolveIn(tree, Len(members), m.name) /\ Len(members) \in Nat
  BY <1>2, <1>3, <1>6, ResolveIs, InputFacts
<1>8. name = None \/ name \in Names
  BY <1>2, <1>3, <1>7, ResolveType
<1>9. Ordinary => name = m.name /\ name \notin DOMAIN tree
  BY <1>2, <1>3, <1>7, ResolveStill
<1>10. \/ Fail /\ UNCHANGED tree /\ ~Ordinary
       \/ name # None /\ pc' = "data" /\ tree' = Put(File(<<>>, 0), name)
  <2>1. Ordinary => name # None
    BY <1>3, <1>9, NoneAssumption
  <2>2. IF \/ header.type # "reg"
           \/ name = None
           \/ name \in DOMAIN tree /\ tree[name].kind = "dir"
          THEN Fail /\ UNCHANGED tree
          ELSE pc' = "data" /\ tree' = Put(File(<<>>, 0), name)
    BY <1>6 DEF OpenRegfile
  <2>3. QED
    BY <1>3, <1>5, <1>9, <2>1, <2>2
<1>11. CASE Fail /\ UNCHANGED tree /\ ~Ordinary
  BY <1>1, <1>2, <1>3, <1>4, <1>11, MemberDone DEF TypeOK
<1>12. CASE name # None /\ pc' = "data" /\ tree' = Put(File(<<>>, 0), name)
  <2>1. NodeOK(File(<<>>, 0)) /\ File(<<>>, 0).kind = "file"
    BY SizesAssumption DEF NodeOK, File
  <2>2. name \in Names /\ TreeOK(tree')
    BY <1>2, <1>8, <1>12, <2>1, PutOK
  <2>3. /\ DOMAIN tree' = DOMAIN tree \cup {name} /\ tree'[name] = File(<<>>, 0)
        /\ \A k \in DOMAIN tree : k # name => tree'[k] = tree[k]
    BY <1>12 DEF Put
  <2>4. ResolveIn(tree', Len(members), m.name) = name
    <3>1. tree'[name].kind # "symlink"
      BY <2>1, <2>3
    <3>2. QED
      BY <1>2, <1>3, <1>7, <1>12, <2>2, <2>3, <3>1, ResolveOpened
  <2>5. Resolve(Path)' = name
    <3>1. Path' = Path
      BY <1>1 DEF Path, buffer
    <3>2. Resolve(Path)' = ResolveIn(tree', Len(members'), Path')
      BY DEF Resolve, ResolveIn, Hop
    <3>3. QED
      BY <1>3, <1>4, <2>4, <3>1, <3>2
  <2>6. Opened(n, m)'
    <3>1. name \in DOMAIN tree'
      BY <2>3
    <3>2. ASSUME Ordinary
          PROVE  /\ name = m.name
                 /\ DOMAIN tree' = {members[i].name : i \in 1..n} \cup {m.name}
                 /\ \A i \in 1..n : tree'[members[i].name] = NodeOf(members[i])
      <4>1. Unpacked(n) /\ name = m.name /\ name \notin DOMAIN tree
        BY <1>3, <1>9, <3>2
      <4>2. DOMAIN tree = {members[i].name : i \in 1..n}
            /\ \A i \in 1..n : tree[members[i].name] = NodeOf(members[i])
        BY <4>1 DEF Unpacked
      <4>3. \A i \in 1..n : members[i].name \in DOMAIN tree /\ members[i].name # name
        BY <4>1, <4>2
      <4>4. QED
        BY <2>3, <4>1, <4>2, <4>3
    <3>3. QED
      BY <1>4, <1>5, <2>5, <3>1, <3>2 DEF Opened
  <2>7. BehindHeader(n, m, Base(members, n))'
    BY <1>1, <1>3, <1>4 DEF BehindHeader, buffer, LinkRead, NameRead, Base, Prefix
  <2>8. TypeOK'
    BY <1>1, <1>2, <1>4, <1>12, <2>2 DEF TypeOK, TreeOK, NodeOK, buffer
  <2>9. InMember(n, members[n + 1], Base(members, n))' /\ n \in 0..Len(members')
    BY <1>3, <1>4, <1>7, <1>12, <2>6, <2>7 DEF InMember
  <2>10. InputInv'
    BY <1>1, <1>2, InputNext
  <2>11. QED
    BY <2>8, <2>9, <2>10 DEF IInv
<1>13. QED
  BY <1>1, <1>10, <1>11, <1>12

\* The size that has been through an int, and what is read of a file for it.
LEMMA SizeIs ==
  ASSUME header.size \in Nat
  PROVE  /\ Size \in 0..(IntModulus - 1) /\ Size <= header.size
         /\ header.size < IntModulus => Size = header.size
         /\ ToRead \in Nat /\ ToRead <= BlocksFor(header.size)
         /\ ~Negative => Size \in 0..(IntModulus \div 2 - 1) /\ ToRead = BlocksFor(Size)
<1>1. /\ Size \in 0..(IntModulus - 1) /\ Size <= header.size
      /\ header.size < IntModulus => Size = header.size
  BY SizesAssumption DEF Size
<1>2. BlocksFor(Size) \in Nat /\ BlocksFor(Size) <= BlocksFor(header.size)
      /\ BlocksFor(header.size) \in Nat
  BY <1>1, BlocksType, BlocksGrow
<1>3. ToRead \in Nat /\ ToRead <= BlocksFor(header.size)
  BY <1>2 DEF ToRead
<1>4. ASSUME ~Negative PROVE Size \in 0..(IntModulus \div 2 - 1) /\ ToRead = BlocksFor(Size)
  <2>1. Size < IntModulus \div 2 /\ IntModulus \div 2 \in Nat
        /\ IntModulus = 2 * (IntModulus \div 2) /\ BlockSize <= IntModulus \div 2
             /\ BlockSize \in Nat
    BY <1>1, <1>4, SizesAssumption DEF Negative
  <2>2. ~(Size > IntModulus - BlockSize)
    BY <1>1, <2>1
  <2>3. QED
    BY <1>1, <2>1, <2>2 DEF ToRead
<1>5. QED
  BY <1>1, <1>3, <1>4

LEMMA AtData ==
  ASSUME IInv, pc = "data"
  PROVE  \E n \in Nat, m \in MemberType :
           /\ n < Len(members) /\ m = members[n + 1]
           /\ Opened(n, m) /\ m.type = "reg"
           /\ Path = m.name /\ m.size \in Nat /\ header.size = m.size
           /\ pos = Base(members, n) + Own(m)
           /\ Lies(members, n, m, Base(members, n))
<1>1. InputInv
  BY DEF IInv
<1>2. PICK n \in 0..Len(members) : Reading(n)
  BY Where
<1>3. /\ n < Len(members) /\ Opened(n, members[n + 1])
      /\ BehindHeader(n, members[n + 1], Base(members, n))
  BY <1>2 DEF Reading, BetweenMembers, InMember, InLongLink, BehindLongLink, InLongName,
              BehindLongName
<1>4. PICK m : m = members[n + 1]
  OBVIOUS
<1>5. n \in Nat
  BY <1>1, <1>2, InputFacts
<1>6. Lies(members, n, m, Base(members, n))
  BY <1>1, <1>3, <1>4, <1>5, AtMember
<1>7. m \in MemberType
  BY <1>6 DEF Lies
<1>8. pos = Base(members, n) + Own(m)
  BY <1>3, <1>4 DEF BehindHeader
<1>9. m.type = "reg" /\ m.size \in Nat
  BY <1>3, <1>4, <1>7 DEF Opened, MemberType
<1>10. Path = m.name /\ header.size = m.size
  BY <1>3, <1>4, <1>7, <1>9, PathIs
<1>11. QED
  BY <1>3, <1>4, <1>5, <1>6, <1>7, <1>8, <1>9, <1>10

LEMMA SubSeqIs ==
  ASSUME NEW S, NEW s \in Seq(S), NEW from \in Nat, NEW by \in Nat, from + by <= Len(s)
  PROVE  /\ SubSeq(s, from + 1, from + by) \in Seq(S)
         /\ Len(SubSeq(s, from + 1, from + by)) = by
         /\ \A i \in 1..by : SubSeq(s, from + 1, from + by)[i] = s[from + i]
BY SMTT(30)

\* An ordinary member's data blocks are read whole; of others, no more than theirs.
LEMMA TransferDataInv ==
  ASSUME IInv, TransferData
  PROVE  IInv'
<1>1. pc = "data" /\ UNCHANGED <<input, left>>
  BY DEF TransferData
<1>2. InputInv /\ TypeOK /\ TreeOK(tree)
  BY TreeTyped DEF IInv
<1>3. PICK n \in Nat, m \in MemberType :
           /\ n < Len(members) /\ m = members[n + 1]
           /\ Opened(n, m) /\ m.type = "reg"
           /\ Path = m.name /\ m.size \in Nat /\ header.size = m.size
           /\ pos = Base(members, n) + Own(m)
           /\ Lies(members, n, m, Base(members, n))
  BY <1>1, AtData
<1>4. /\ UNCHANGED <<members, stream>> /\ (Ordinary' <=> Ordinary)
      /\ Whole' => full' = FALSE /\ (full' = full => Whole)
  <2>1. UNCHANGED <<members, stream>> /\ (Ordinary' <=> Ordinary) /\ (Whole' => (full' = full => Whole))
    BY <1>1, SameInput
  <2>2. Whole' => ~full'
    BY DEF Whole
  <2>3. QED
    BY <2>1, <2>2
<1>5. PICK base : base = Base(members, n)
  OBVIOUS
<1>6. PICK next : next = Base(members, n + 1)
  OBVIOUS
<1>7. /\ base \in Nat /\ Own(m) \in Nat /\ Len(Data(m)) = BlocksFor(m.size)
           /\ BlocksFor(m.size) \in Nat
      /\ next = base + Own(m) + BlocksFor(m.size)
      /\ next + 2 <= Len(Stream(members)) /\ Len(Stream(members)) \in Nat
      /\ pos = base + Own(m) /\ pos \in 0..Len(stream)
  <2>1. /\ base \in Nat /\ Own(m) \in Nat
        /\ next = base + Own(m) + Len(Data(m))
        /\ next + 2 <= Len(Stream(members)) /\ Len(Stream(members)) \in Nat
    BY <1>3, <1>5, <1>6 DEF Lies
  <2>2. Len(Data(m)) = BlocksFor(m.size) /\ BlocksFor(m.size) \in Nat
    BY <1>3, DataIs, BlocksType
  <2>3. QED
    BY <1>2, <1>3, <1>5, <2>1, <2>2 DEF TypeOK
<1>8. /\ Size \in 0..(IntModulus - 1)
      /\ m.size < IntModulus => Size = m.size
      /\ ToRead \in Nat /\ ToRead <= BlocksFor(m.size)
      /\ ~Negative => Size \in 0..(IntModulus \div 2 - 1) /\ ToRead = BlocksFor(Size)
  BY <1>3, SizeIs
<1>9. Ordinary => m.size < IntModulus - 1 /\ Size = m.size
  <2>1. Ordinary => m.size < IntModulus - 1
    <3>1. members \in Seq(MemberType)
      BY <1>2, InputFacts
    <3>2. n + 1 \in DOMAIN members
      BY <1>3, <3>1
    <3>3. QED
      BY <1>3, <3>2 DEF Ordinary
  <2>2. IntModulus \in Nat
    BY SizesAssumption
  <2>3. QED
    BY <1>3, <1>8, <2>1, <2>2
<1> DEFINE read == (Negative => ToRead = 0) /\ Read(ToRead) = "full"
           bytes == IF Negative THEN 0 ELSE Size
<1>10. \/ /\ read /\ (Negative => Size = IntModulus - 1)
          /\ pos' = pos + ToRead
          /\ NextMember
          /\ tree' = Put(File(SubSeq(stream, pos + 1, pos + ToRead), bytes), Resolve(Path))
          /\ UNCHANGED full
       \/ /\ read
          /\ full' = TRUE
          /\ Fail
          /\ pos' = pos + ToRead
          /\ UNCHANGED <<stage, blanks, buffer, tree>>
       \/ /\ ~read
          /\ Fail
          /\ UNCHANGED <<pos, stage, blanks, buffer, tree, full>>
  BY DEF TransferData
<1>11. read => pos + ToRead \in 0..Len(stream)
  BY <1>2, <1>7, <1>8, ReadFull
<1>12. left' \in Nat
  BY <1>1, <1>2 DEF TypeOK
<1> HIDE DEF read, bytes
<1>13. CASE /\ read /\ (Negative => Size = IntModulus - 1)
            /\ pos' = pos + ToRead
            /\ NextMember
            /\ tree' = Put(File(SubSeq(stream, pos + 1, pos + ToRead), bytes), Resolve(Path))
            /\ UNCHANGED full
  <2>1. bytes \in 0..(IntModulus \div 2 - 1)
    BY <1>8, SizesAssumption DEF bytes
  <2>2. Resolve(Path) \in DOMAIN tree /\ Resolve(Path) \in Names
    BY <1>2, <1>3 DEF Opened, TreeOK
  <2>3. TreeOK(tree')
    <3>1. NodeOK(File(SubSeq(stream, pos + 1, pos + ToRead), bytes))
      BY <2>1 DEF NodeOK, File
    <3>2. QED
      BY <1>2, <1>13, <2>2, <3>1, PutOK
  <2>4. pos' <= next /\ pos' >= base + Own(m)
    <3>1. PICK at \in Nat : at = base + Own(m)
      BY <1>7
    <3>2. PICK most \in Nat : most = BlocksFor(m.size)
      BY <1>7
    <3>3. PICK by \in Nat : by = ToRead
      BY <1>8
    <3>4. pos' = at + by /\ by <= most /\ next = at + most
      <4>1. pos' = pos + ToRead
        BY <1>13
      <4>2. pos = at /\ next = at + BlocksFor(m.size)
        BY <1>7, <3>1
      <4>3. QED
        BY <1>8, <3>2, <3>3, <4>1, <4>2
    <3>5. QED
      BY <3>1, <3>4
  <2>5. ASSUME Ordinary PROVE Unpacked(n + 1)' /\ pos' = next
    <3>1. ~Negative /\ Size = m.size /\ ToRead = BlocksFor(m.size)
      BY <1>8, <1>9, <1>13, <2>5
    <3>2. pos' = next
      BY <1>7, <1>13, <3>1
    <3>3. SubSeq(stream, pos + 1, pos + ToRead) = Data(m)
      <4>1. Data(m) \in Seq(BlockType) /\ Len(Data(m)) = ToRead /\ ToRead \in Nat
        BY <1>3, <1>7, <1>8, <3>1, DataIs
      <4>2. pos + ToRead \in 0..Len(stream) /\ Len(stream) \in Nat /\ pos \in Nat
        BY <1>2, <1>7, <1>11, <1>13 DEF InputInv
      <4>3. ASSUME NEW i \in 1..ToRead PROVE stream[pos + i] = Data(m)[i]
        <5>1. pos + i \in 1..Len(stream) /\ i \in 1..Len(Data(m))
          BY <4>1, <4>2
        <5>2. stream[pos + i] = Stream(members)[pos + i]
          BY <1>2, <5>1 DEF InputInv
        <5>3. Stream(members)[base + Own(m) + i] = Data(m)[i]
          BY <1>3, <1>5, <5>1 DEF Lies
        <5>4. QED
          BY <1>7, <5>2, <5>3
      <4>4. /\ SubSeq(stream, pos + 1, pos + ToRead) \in Seq(BlockType)
            /\ Len(SubSeq(stream, pos + 1, pos + ToRead)) = ToRead
            /\ \A i \in 1..ToRead : SubSeq(stream, pos + 1, pos + ToRead)[i] = stream[pos + i]
        <5>1. stream \in Seq(BlockType)
          BY <1>2 DEF InputInv
        <5>2. PICK from \in Nat : from = pos
          BY <4>2
        <5>3. PICK by \in Nat : by = ToRead
          BY <4>1
        <5>4. from + by <= Len(stream)
          BY <4>2, <5>2, <5>3
        <5>5. /\ SubSeq(stream, from + 1, from + by) \in Seq(BlockType)
              /\ Len(SubSeq(stream, from + 1, from + by)) = by
              /\ \A i \in 1..by : SubSeq(stream, from + 1, from + by)[i] = stream[from + i]
          BY <5>1, <5>4, SubSeqIs
        <5>6. QED
          BY <5>2, <5>3, <5>5
      <4>5. QED
        <5>1. PICK got : got = SubSeq(stream, pos + 1, pos + ToRead)
          OBVIOUS
        <5>2. PICK by \in Nat : by = ToRead
          BY <4>1
        <5>3. /\ got \in Seq(BlockType) /\ Len(got) = by
              /\ Data(m) \in Seq(BlockType) /\ Len(Data(m)) = by
              /\ \A i \in 1..by : got[i] = Data(m)[i]
          BY <4>1, <4>3, <4>4, <5>1, <5>2
        <5>4. got = Data(m)
          BY <5>3, SeqEqual
        <5>5. QED
          BY <5>1, <5>4
    <3>4. bytes = m.size
      BY <3>1 DEF bytes
    <3>5. /\ Resolve(Path) = m.name
          /\ DOMAIN tree = {members[i].name : i \in 1..n} \cup {m.name}
          /\ \A i \in 1..n : tree[members[i].name] = NodeOf(members[i])
      BY <1>3, <2>5 DEF Opened
    <3>6. tree' = Put(NodeOf(m), m.name)
      BY <1>3, <1>13, <3>3, <3>4, <3>5 DEF NodeOf
    <3>7. m.name \notin {members[i].name : i \in 1..n}
      <4>1. members \in Seq(MemberType)
        BY <1>2, InputFacts
      <4>2. QED
        BY <1>3, <2>5, <4>1, NameIsFree
    <3>8. DOMAIN tree' = {members[i].name : i \in 1..n} \cup {m.name} /\ tree'[m.name] = NodeOf(m)
      BY <3>5, <3>6 DEF Put
    <3>9. ASSUME NEW i \in 1..n PROVE tree'[members[i].name] = NodeOf(members[i])
      <4>1. members[i].name \in DOMAIN tree /\ members[i].name # m.name
        BY <3>5, <3>7
      <4>2. QED
        BY <3>5, <3>6, <4>1 DEF Put
    <3>10. QED
      BY <1>3, <1>4, <3>2, <3>8, <3>9, OneMore
  <2>6. pos' \in 0..Len(stream) /\ full' \in BOOLEAN
    BY <1>2, <1>11, <1>13 DEF TypeOK
  <2>7. /\ NextMember /\ TreeOK(tree')
        /\ pos' <= Base(members, n + 1)
        /\ pos' >= Base(members, n) + Own(m)
        /\ Ordinary => Unpacked(n + 1)' /\ pos' = Base(members, n + 1)
    BY <1>5, <1>6, <1>13, <2>3, <2>4, <2>5
  <2>8. QED
    BY <1>1, <1>3, <1>12, <2>6, <2>7, MemberDone
<1>14. CASE /\ read
            /\ full' = TRUE
            /\ Fail
            /\ pos' = pos + ToRead
            /\ UNCHANGED <<stage, blanks, buffer, tree>>
  <2>1. ~Whole' /\ full' \in BOOLEAN /\ pos' \in 0..Len(stream)
    BY <1>4, <1>11, <1>14
  <2>2. QED
    BY <1>1, <1>3, <1>12, <1>14, <2>1, MemberDone
<1>15. CASE /\ ~read
            /\ Fail
            /\ UNCHANGED <<pos, stage, blanks, buffer, tree, full>>
  <2>1. ASSUME Whole PROVE FALSE
    <3>1. Ordinary /\ ~cut /\ m.size < IntModulus \div 2
      <4>1. members \in Seq(MemberType)
        BY <1>2, InputFacts
      <4>2. n + 1 \in DOMAIN members
        BY <1>3, <4>1
      <4>3. QED
        BY <1>3, <2>1, <4>2 DEF Whole
    <3>2. ~Negative
      BY <1>3, <1>9, <3>1, SizesAssumption DEF Negative
    <3>3. pos + ToRead < Len(stream)
      <4>1. Len(stream) = Len(Stream(members))
        BY <1>2, <3>1, InputFacts
      <4>2. QED
        BY <1>7, <1>8, <4>1, SMTT(30)
    <3>4. Read(ToRead) = "full"
      BY <1>2, <1>7, <1>8, <3>1, <3>3, ReadsAll
    <3>5. QED
      BY <1>15, <3>2, <3>4 DEF read
  <2>2. ~Whole' /\ full' \in BOOLEAN /\ pos' \in 0..Len(stream)
    BY <1>2, <1>4, <1>7, <1>15, <2>1 DEF TypeOK
  <2>3. QED
    BY <1>1, <1>3, <1>12, <1>15, <2>2, MemberDone
<1>16. QED
  BY <1>10, <1>13, <1>14, <1>15

LEMMA CloseInv ==
  ASSUME IInv, Close
  PROVE  IInv'
<1>1. /\ pc = "close" /\ pc' \in {"done", "crashed"}
      /\ UNCHANGED <<input, pos, stage, blanks, left, buffer, tree, full>>
  BY DEF Close
<1>2. InputInv /\ TypeOK
  BY DEF IInv
<1>3. UNCHANGED <<members, stream, cut, ragged, xz, early>> /\ (Ordinary' <=> Ordinary)
  BY <1>1, SameInput
<1>4. InputInv' /\ \A n : Unpacked(n)' <=> Unpacked(n)
  BY <1>1, <1>2, <1>3, InputNext, SameTree
<1>5. TypeOK'
  BY <1>1, <1>2, <1>3 DEF TypeOK, buffer
<1>6. PICK n \in 0..Len(members) : Accepted(n)
  <2>1. \A n \in 0..Len(members) : ~BetweenMembers(n) /\ ~InMember(n, members[n + 1], Base(members, n))
    BY <1>1 DEF BetweenMembers, InMember, InLongLink, BehindLongLink, InLongName, BehindLongName
  <2>2. QED
    BY <1>1, <2>1 DEF IInv
<1>7. Accepted(n)'
  BY <1>1, <1>3, <1>4, <1>6 DEF Accepted, Base, Prefix
<1>8. QED
  BY <1>3, <1>4, <1>5, <1>7 DEF IInv

LEMMA StutterInv ==
  ASSUME IInv, UNCHANGED vars
  PROVE  IInv'
<1>1. /\ UNCHANGED <<members, stream, cut, ragged, xz, early>>
      /\ UNCHANGED <<pos, pc, stage, blanks, left, longlink, longname, header, tree, full>>
      /\ UNCHANGED input
  BY DEF vars, input, buffer
<1>2. InputInv' /\ \A n : Unpacked(n)' <=> Unpacked(n)
  BY <1>1, InputNext, SameTree DEF IInv
<1>3. (Ordinary' <=> Ordinary) /\ (Whole' => Whole) /\ (TypeOK => TypeOK')
  BY <1>1, SameInput DEF TypeOK
<1>4. \A n : /\ (BetweenMembers(n) => BetweenMembers(n)')
             /\ (Accepted(n) => Accepted(n)')
  BY <1>1, <1>2, <1>3 DEF BetweenMembers, Accepted, Base, Prefix, Stream
<1>5. \A n, m : Opened(n, m) => Opened(n, m)'
  <2>1. UNCHANGED Path
    BY <1>1 DEF Path
  <2>2. /\ Resolve(Path) = ResolveIn(tree, Len(members), Path)
        /\ Resolve(Path)' = ResolveIn(tree', Len(members'), Path')
    BY DEF Resolve, ResolveIn, Hop
  <2>3. Resolve(Path)' = Resolve(Path)
    BY <1>1, <2>1, <2>2
  <2>4. QED
    BY <1>1, <1>3, <2>3 DEF Opened
<1>6. \A n, m, base : InMember(n, m, base) => InMember(n, m, base)'
  BY <1>1, <1>2, <1>3, <1>5 DEF InMember, Begun, InLongLink, BehindLongLink, InLongName,
     BehindLongName, BehindHeader, LinkRead, NameRead
<1>7. \A n : InMember(n, members[n + 1], Base(members, n)) => InMember(n, members[n + 1], Base(members, n))'
  BY <1>1, <1>6 DEF Base, Prefix
<1>8. QED
  BY <1>1, <1>2, <1>3, <1>4, <1>7 DEF IInv

LEMMA InitInv ==
  ASSUME Init
  PROVE  IInv
<1>1. PICK n \in 0..Len(Stream(members)) :
        /\ stream = SubSeq(Stream(members), 1, n)
        /\ cut = (n < Len(Stream(members)))
        /\ ragged \in (IF cut THEN BOOLEAN ELSE {FALSE})
  BY DEF Init
<1>2. /\ members \in Archives /\ xz \in BOOLEAN /\ early \in BOOLEAN
      /\ pos = 0 /\ pc = "header" /\ stage = "first" /\ blanks = 0 /\ left = 0
      /\ longlink = None /\ longname = None /\ tree = <<>> /\ full = FALSE
  BY DEF Init
<1>3. members \in Seq(MemberType) /\ Stream(members) \in Seq(BlockType)
      /\ Len(Stream(members)) \in Nat /\ Len(members) \in Nat
  BY <1>2, ArchivesAssumption, StreamIs
<1>4. /\ Len(stream) = n /\ n \in Nat
      /\ \A p \in 1..Len(stream) : stream[p] = Stream(members)[p]
  BY <1>1, <1>3
<1>5. InputInv
  <2>1. stream \in Seq(BlockType)
    BY <1>1, <1>3
  <2>2. cut \in BOOLEAN /\ (~cut => n = Len(Stream(members)))
    <3> DEFINE short == n < Len(Stream(members))
    <3>1. cut \in BOOLEAN /\ (short => cut)
      <4>1. cut = short
        BY <1>1
      <4>2. short \in BOOLEAN
        OBVIOUS
      <4> HIDE DEF short
      <4>3. CASE short = TRUE
        BY <4>1, <4>3
      <4>4. CASE short = FALSE
        BY <4>1, <4>4
      <4>5. QED
        BY <4>2, <4>3, <4>4
    <3>2. n < Len(Stream(members)) => cut
      BY <3>1
    <3>3. n \in 0..Len(Stream(members))
      OBVIOUS
    <3>4. QED
      BY <1>3, <3>1, <3>2, <3>3
  <2>3. ragged \in BOOLEAN /\ (ragged => cut)
    BY <1>1
  <2>4. Len(stream) \in Nat /\ Len(stream) <= Len(Stream(members))
    BY <1>3, <1>4
  <2>5. QED
    BY <1>2, <1>4, <2>1, <2>2, <2>3, <2>4 DEF InputInv
<1>6. DOMAIN tree = {} /\ {members[i].name : i \in 1..0} = {}
  BY <1>2
<1>7. TypeOK
  <2>1. pos \in 0..Len(stream)
    BY <1>2, <1>4
  <2>2. DOMAIN tree \subseteq Names /\ \A k \in DOMAIN tree : FALSE
    BY <1>6
  <2>3. {longlink, longname} \subseteq Names \cup {None, "garbage"}
    BY <1>2
  <2>4. /\ pc \in {"header", "longlink", "longname", "dispatch", "data", "close",
                   "done", "failed", "crashed"}
        /\ stage \in {"first", "link", "name"}
        /\ blanks \in 0..2 /\ left \in Nat
    BY <1>2
  <2>5. full \in BOOLEAN
    BY <1>2
  <2>6. QED
    BY <2>1, <2>2, <2>3, <2>4, <2>5 DEF TypeOK
<1>8. Base(members, 0) = 0
  BY PrefixNone DEF Base
<1>9. Unpacked(0)
  BY <1>6 DEF Unpacked
<1>10. BetweenMembers(0)
  BY <1>2, <1>8, <1>9 DEF BetweenMembers
<1>11. 0 \in 0..Len(members)
  BY <1>3
<1>12. QED
  BY <1>5, <1>7, <1>10, <1>11 DEF IInv

LEMMA NextInv ==
  ASSUME IInv, [Next]_vars
  PROVE  IInv'
BY ReadNothingInv, ReadBlankInv, ReadGarbageInv, ReadHeaderInv, ReadLongNameInv, ExtractInv,
   OpenRegfileInv, TransferDataInv, CloseInv, StutterInv DEF Next, Step, Over

-----------------------------------------------------------------------------
(* The theorems.                                                           *)

\* The inductive invariant. The stream is the archive's as far as it goes, and the reader is
\* between two members, inside one that it knows the kind of, or through; unless an ordinary
\* archive is at hand, it may have strayed into the data of a file too big for an int. Of
\* ordinary members those before the reader's place are what the directory holds.
THEOREM InvariantCorrect == Spec => []IInv
<1>1. Init => IInv
  BY InitInv
<1>2. IInv /\ [Next]_vars => IInv'
  BY NextInv
<1>3. QED
  BY <1>1, <1>2, PTL DEF Spec

\* The variables keep their types: of any archive, only its names get into the directory,
\* and no file's bytes exceed what an int counts.
THEOREM TypeCorrect == Spec => []TypeOK
<1>1. IInv => TypeOK
  BY DEF IInv
<1>2. QED
  BY <1>1, InvariantCorrect, PTL

LEMMA SyncFromInv == IInv => InSync
<1> SUFFICES ASSUME IInv, Ordinary, pc = "header", stage = "first", blanks = 0
             PROVE  \E n \in 0..Len(members) : pos = Len(Prefix(members, n)) /\ Unpacked(n)
  BY DEF InSync
<1>1. PICK n \in 0..Len(members) : Reading(n)
  BY Where
<1>2. BetweenMembers(n)
  BY <1>1 DEF Reading, InMember, InLongLink, BehindLongLink, InLongName, BehindLongName
<1>3. QED
  BY <1>2 DEF BetweenMembers, Base

\* th_read() starts on a member exactly where that member's blocks begin, with the members
\* before it unpacked, whatever their names' and sizes' lengths: nothing that
\* tar_extract_regfile() or th_read() rounds, skips or reads twice loses the place.
THEOREM ReaderKeepsItsPlace == Spec => []InSync
<1>1. QED
  BY SyncFromInv, InvariantCorrect, PTL

LEMMA WholeFromInv == IInv => AcceptedIsWhole
<1> SUFFICES ASSUME IInv, Ordinary, pc \in {"close", "done"}
             PROVE  \E n \in 0..Len(members) :
                      /\ Unpacked(n)
                      /\ n < Len(members) => ~xz /\ ~ragged /\ Len(stream) = Len(Prefix(members, n))
  BY DEF AcceptedIsWhole
<1>1. PICK n \in 0..Len(members) : Accepted(n)
  <2>1. \A n \in 0..Len(members) : ~BetweenMembers(n) /\ ~InMember(n, members[n + 1], Base(members, n))
    BY DEF BetweenMembers, InMember, InLongLink, BehindLongLink, InLongName, BehindLongName
  <2>2. QED
    BY <2>1 DEF IInv
<1>2. QED
  BY <1>1 DEF Accepted, Base

\* No cut makes extract.c accept what is not whole, but where an uncompressed archive ends
\* between two members.
THEOREM WhatIsAcceptedIsWhole == Spec => []AcceptedIsWhole
<1>1. QED
  BY WholeFromInv, InvariantCorrect, PTL

LEMMA AcceptsFromInv == IInv => WholeIsAccepted
<1> SUFFICES ASSUME IInv, Whole PROVE pc # "failed"
  BY DEF WholeIsAccepted, Whole
<1>1. QED
  BY DEF IInv, BetweenMembers, Accepted, InMember, InLongLink, BehindLongLink, InLongName,
     BehindLongName

\* A whole archive of files below 2 GiB is never refused: what xz_read() loses at the
\* stream's end is only a blank block, in every layout that tarfile can write.
THEOREM WhatIsWholeIsAccepted == Spec => []WholeIsAccepted
<1>1. QED
  BY AcceptsFromInv, InvariantCorrect, PTL

===============================================================================
