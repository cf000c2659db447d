--------------------------- MODULE ElfPatchProofs ---------------------------
(***************************************************************************)
(* Proofs about ElfPatch, for every program, every image that staticx has  *)
(* not prepared, all directories and all lengths of the placeholders.      *)
(***************************************************************************)
EXTENDS ElfPatch, SequenceInduction, SequenceTheorems, TLAPS

-----------------------------------------------------------------------------
(* Numbers: the greatest of one.                                           *)

LEMMA MaxOfOne ==
  ASSUME NEW n \in Nat
  PROVE  Max({n}) = n
BY DEF Max
-----------------------------------------------------------------------------
(* Strings in images: strlen() and what it finds.                          *)

LEMMA CharType ==
  ASSUME NEW image, image.bytes \in Seq(Chars), NEW at \in Nat
  PROVE  Char(image, at) \in Chars
<1>1. NUL \in Chars
  BY CharsAssumption
<1>2. CASE at < Len(image.bytes)
  <2>1. at + 1 \in 1..Len(image.bytes)
    BY <1>2
  <2>2. image.bytes[at + 1] \in Chars
    BY <2>1, ElementOfSeq
  <2>3. QED
    BY <1>2, <2>2 DEF Char
<1>3. CASE ~(at < Len(image.bytes))
  BY <1>1, <1>3 DEF Char
<1>4. QED
  BY <1>2, <1>3

\* "n characters stand here, and then a NUL."
Ends(image, at, n) ==
  Char(image, at + n) = NUL /\ \A k \in 0..(n - 1) : Char(image, at + k) # NUL

LEMMA EndsOnce ==
  ASSUME NEW image, NEW at \in Nat, NEW m \in Nat, NEW n \in Nat,
         Ends(image, at, m), Ends(image, at, n)
  PROVE  m = n
<1>1. ~(m < n)
  BY DEF Ends
<1>2. ~(n < m)
  BY DEF Ends
<1>3. QED
  BY <1>1, <1>2

LEMMA StrlenEnds ==
  ASSUME NEW image, image.bytes \in Seq(Chars), NEW at \in Nat
  PROVE  strlen(image, at) \in Nat /\ Ends(image, at, strlen(image, at))
<1> DEFINE T == {n \in 0..Len(image.bytes) : Char(image, at + n) = NUL}
<1>1. Len(image.bytes) \in T
  BY DEF Char
<1>2. PICK m \in T : \A k \in T : m <= k
  <2>1. T \subseteq Nat /\ T # {}
    BY <1>1
  <2>2. QED
    BY <2>1, NatMin
<1>3. m \in 0..Len(image.bytes) /\ Ends(image, at, m)
  <2>1. ASSUME NEW k \in 0..(m - 1)
        PROVE  Char(image, at + k) # NUL
    BY <1>2
  <2>2. QED
    BY <1>2, <2>1 DEF Ends
<1>4. strlen(image, at) =
        CHOOSE n \in 0..Len(image.bytes) : Ends(image, at, n)
  BY DEF strlen, Ends
<1>5. QED
  BY <1>3, <1>4

LEMMA StrlenIs ==
  ASSUME NEW image, image.bytes \in Seq(Chars), NEW at \in Nat, NEW n \in Nat,
         Ends(image, at, n)
  PROVE  strlen(image, at) = n
BY StrlenEnds, EndsOnce

\* "This string stands here."
Holds(image, at, string) ==
  /\ Char(image, at + Len(string)) = NUL
  /\ \A k \in 1..Len(string) : Char(image, at + k - 1) = string[k] /\ string[k] # NUL

LEMMA HeldString ==
  ASSUME NEW image, image.bytes \in Seq(Chars), NEW at \in Nat, NEW string \in Seq(Chars),
         Holds(image, at, string)
  PROVE  strlen(image, at) = Len(string) /\ String(image, at) = string
<1>1. Ends(image, at, Len(string))
  <2>1. ASSUME NEW k \in 0..(Len(string) - 1)
        PROVE  Char(image, at + k) # NUL
    <3>1. k + 1 \in 1..Len(string) /\ at + (k + 1) - 1 = at + k
      OBVIOUS
    <3>2. QED
      BY <3>1 DEF Holds
  <2>2. QED
    BY <2>1 DEF Holds, Ends
<1>2. strlen(image, at) = Len(string)
  BY <1>1, StrlenIs
<1>3. String(image, at) = [k \in 1..Len(string) |-> string[k]]
  BY <1>2 DEF String, Holds
<1>4. QED
  BY <1>2, <1>3

LEMMA SameString ==
  ASSUME NEW image, image.bytes \in Seq(Chars), NEW at \in Nat,
         NEW other, other.bytes \in Seq(Chars), NEW there \in Nat,
         \A k \in 0..strlen(image, at) : Char(other, there + k) = Char(image, at + k)
  PROVE  /\ strlen(other, there) = strlen(image, at)
         /\ String(other, there) = String(image, at)
<1>1. strlen(image, at) \in Nat /\ Ends(image, at, strlen(image, at))
  BY StrlenEnds
<1>2. Ends(other, there, strlen(image, at))
  BY <1>1 DEF Ends
<1>3. strlen(other, there) = strlen(image, at)
  BY <1>1, <1>2, StrlenIs
<1>4. ASSUME NEW k \in 1..strlen(image, at)
      PROVE  Char(other, there + k - 1) = Char(image, at + k - 1)
  <2>1. k - 1 \in 0..strlen(image, at) /\ there + (k - 1) = there + k - 1 /\ at + (k - 1) = at + k - 1
    BY <1>1
  <2>2. QED
    BY <2>1
<1>5. QED
  BY <1>3, <1>4 DEF String
-----------------------------------------------------------------------------
(* Images with the same tables, and strcpy() into one.                     *)

SameTables(one, other) ==
  /\ one.magic = other.magic /\ one.phentsize = other.phentsize /\ one.shentsize = other.shentsize
  /\ one.phdrs = other.phdrs /\ one.shdrs = other.shdrs /\ one.dyn = other.dyn

LEMMA SameIndices ==
  ASSUME NEW one, NEW other, SameTables(one, other), NEW name
  PROVE  /\ elf_get_proghdr_by_type(one, name) = elf_get_proghdr_by_type(other, name)
         /\ elf_get_section_by_name(one, name) = elf_get_section_by_name(other, name)
         /\ SectionOf(one, name) = SectionOf(other, name)
         /\ Tagged(one, name) = Tagged(other, name)
         /\ \A n \in Nat : DtRpath(one, n) = DtRpath(other, n)
BY DEF SameTables, elf_get_proghdr_by_type, elf_get_section_by_name, SectionOf, Tagged, DtRpath,
       SelectInSeq

LEMMA TerminatedIs ==
  ASSUME NEW string \in Seq(Chars)
  PROVE  /\ Terminated(string) \in Seq(Chars) /\ Len(Terminated(string)) = Len(string) + 1
         /\ \A k \in 1..Len(string) : Terminated(string)[k] = string[k]
         /\ Terminated(string)[Len(string) + 1] = NUL
<1>1. NUL \in Chars
  BY CharsAssumption
<1>2. QED
  BY <1>1, AppendProperties DEF Terminated

LEMMA StrcpyBytes ==
  ASSUME NEW image \in ImageType, NEW at \in Nat, NEW string \in Seq(Chars)
  PROVE  /\ strcpy(image, at, string) \in ImageType
         /\ SameTables(strcpy(image, at, string), image)
         /\ Len(strcpy(image, at, string).bytes) = Len(image.bytes)
         /\ \A p \in 1..Len(image.bytes) :
              strcpy(image, at, string).bytes[p] =
                IF p > at /\ p <= at + Len(string) + 1 THEN Terminated(string)[p - at]
                                                      ELSE image.bytes[p]
<1> DEFINE copied == Terminated(string)
           bytes == [p \in 1..Len(image.bytes) |->
                       IF p > at /\ p <= at + Len(string) + 1 THEN copied[p - at] ELSE image.bytes[p]]
<1>1. image.bytes \in Seq(Chars) /\ DOMAIN image.bytes = 1..Len(image.bytes)
  BY DEF ImageType
<1>2. copied \in Seq(Chars) /\ Len(copied) = Len(string) + 1
  BY TerminatedIs
<1>3. strcpy(image, at, string) = [image EXCEPT !.bytes = bytes]
  <2>1. bytes = [p \in DOMAIN image.bytes |->
                   IF p > at /\ p <= at + Len(copied) THEN copied[p - at] ELSE image.bytes[p]]
    BY <1>1, <1>2
  <2>2. QED
    BY <2>1 DEF strcpy
<1>4. bytes \in Seq(Chars) /\ Len(bytes) = Len(image.bytes)
  <2>1. ASSUME NEW p \in 1..Len(image.bytes)
        PROVE  bytes[p] \in Chars
    <3>1. CASE p > at /\ p <= at + Len(string) + 1
      <4>1. p - at \in 1..Len(copied)
        BY <1>2, <3>1
      <4>2. copied[p - at] \in Chars
        BY <1>2, <4>1, ElementOfSeq
      <4>3. QED
        BY <3>1, <4>2
    <3>2. CASE ~(p > at /\ p <= at + Len(string) + 1)
      BY <1>1, <3>2, ElementOfSeq
    <3>3. QED
      BY <3>1, <3>2
  <2>2. Len(image.bytes) \in Nat
    BY <1>1
  <2>3. bytes \in [1..Len(image.bytes) -> Chars]
    BY <2>1
  <2>4. QED
    BY <2>2, <2>3, LenProperties, SeqDef
<1> HIDE DEF bytes
<1>5. [image EXCEPT !.bytes = bytes] \in ImageType
  BY <1>4 DEF ImageType
<1>6. SameTables([image EXCEPT !.bytes = bytes], image) /\ [image EXCEPT !.bytes = bytes].bytes = bytes
  BY DEF ImageType, SameTables
<1>7. QED
  BY <1>3, <1>4, <1>5, <1>6 DEF bytes

\* Elsewhere nothing changes; here there is the string.
LEMMA StrcpyElsewhere ==
  ASSUME NEW image \in ImageType, NEW at \in Nat, NEW string \in Seq(Chars),
         NEW x \in Nat, x < at \/ x > at + Len(string)
  PROVE  Char(strcpy(image, at, string), x) = Char(image, x)
<1>1. Len(image.bytes) \in Nat /\ Len(string) \in Nat
  BY DEF ImageType
<1>2. ASSUME x < Len(image.bytes)
      PROVE  strcpy(image, at, string).bytes[x + 1] = image.bytes[x + 1]
  <2>1. x + 1 \in 1..Len(image.bytes) /\ ~(x + 1 > at /\ x + 1 <= at + Len(string) + 1)
    BY <1>1, <1>2
  <2>2. QED
    BY <2>1, StrcpyBytes
<1>3. QED
  BY <1>2, StrcpyBytes DEF Char

LEMMA StrcpyEnds ==
  ASSUME NEW image \in ImageType, NEW at \in Nat, NEW string \in Seq(Chars)
  PROVE  Char(strcpy(image, at, string), at + Len(string)) = NUL
<1>1. Len(image.bytes) \in Nat /\ Len(string) \in Nat
  BY DEF ImageType
<1>2. ASSUME at + Len(string) < Len(image.bytes)
      PROVE  strcpy(image, at, string).bytes[at + Len(string) + 1] = NUL
  <2>1. PICK p \in 1..Len(image.bytes) :
          /\ p = at + Len(string) + 1 /\ p - at = Len(string) + 1
          /\ p > at /\ p <= at + Len(string) + 1
    BY <1>1, <1>2
  <2>2. Terminated(string)[Len(string) + 1] = NUL
    BY TerminatedIs
  <2>3. strcpy(image, at, string).bytes[p] = Terminated(string)[p - at]
    BY <2>1, StrcpyBytes
  <2>4. QED
    BY <2>1, <2>2, <2>3
<1>3. QED
  BY <1>2, StrcpyBytes DEF Char

LEMMA StrcpyHolds ==
  ASSUME NEW image \in ImageType, NEW at \in Nat, NEW string \in Seq(Chars \ {NUL}),
         at + Len(string) < Len(image.bytes)
  PROVE  Holds(strcpy(image, at, string), at, string)
<1>1. string \in Seq(Chars) /\ Len(image.bytes) \in Nat /\ Len(string) \in Nat
  BY DEF ImageType
<1>2. ASSUME NEW k \in 1..Len(string)
      PROVE  /\ Char(strcpy(image, at, string), at + k - 1) = string[k]
             /\ string[k] # NUL
  <2>1. PICK p \in 1..Len(image.bytes) :
          /\ p = at + k - 1 + 1 /\ p - at = k /\ p > at /\ p <= at + Len(string) + 1
          /\ at + k - 1 < Len(image.bytes)
    BY <1>1
  <2>2. Terminated(string)[k] = string[k]
    BY <1>1, TerminatedIs
  <2>3. strcpy(image, at, string).bytes[p] = Terminated(string)[p - at]
    BY <1>1, <2>1, StrcpyBytes
  <2>4. string[k] \in Chars \ {NUL}
    BY ElementOfSeq
  <2>5. QED
    BY <1>1, <2>1, <2>2, <2>3, <2>4, StrcpyBytes DEF Char
<1>3. QED
  BY <1>1, <1>2, StrcpyEnds DEF Holds

-----------------------------------------------------------------------------
(* Tables: what is found in them, and what patchelf does to them.          *)

LEMMA SectionFound ==
  ASSUME NEW image \in ImageType, NEW name, elf_get_section_by_name(image, name) # 0
  PROVE  /\ elf_get_section_by_name(image, name) \in 1..Len(image.shdrs)
         /\ SectionOf(image, name) \in ShdrType
         /\ SectionOf(image, name).name = name
<1> DEFINE I == {i \in 1..Len(image.shdrs) : image.shdrs[i].name = name}
<1>1. elf_get_section_by_name(image, name) = IF I # {} THEN Min(I) ELSE 0
  BY DEF elf_get_section_by_name, SelectInSeq
<1>2. I # {} /\ I \subseteq Nat
  BY <1>1
<1>3. \E m \in I : \A k \in I : m <= k
  BY <1>2, NatMin
<1>4. Min(I) \in I
  BY <1>3 DEF Min
<1>5. elf_get_section_by_name(image, name) \in I
  BY <1>1, <1>2, <1>4
<1>6. image.shdrs \in Seq(ShdrType)
  BY DEF ImageType
<1>7. QED
  BY <1>5, <1>6, ElementOfSeq DEF SectionOf

LEMMA HeaderFound ==
  ASSUME NEW image \in ImageType, NEW type, elf_get_proghdr_by_type(image, type) # 0
  PROVE  /\ elf_get_proghdr_by_type(image, type) \in 1..Len(image.phdrs)
         /\ image.phdrs[elf_get_proghdr_by_type(image, type)] \in PhdrType
         /\ image.phdrs[elf_get_proghdr_by_type(image, type)].type = type
<1> DEFINE I == {i \in 1..Len(image.phdrs) : image.phdrs[i].type = type}
<1>1. elf_get_proghdr_by_type(image, type) = IF I # {} THEN Min(I) ELSE 0
  BY DEF elf_get_proghdr_by_type, SelectInSeq
<1>2. I # {} /\ I \subseteq Nat
  BY <1>1
<1>3. \E m \in I : \A k \in I : m <= k
  BY <1>2, NatMin
<1>4. Min(I) \in I
  BY <1>3 DEF Min
<1>5. elf_get_proghdr_by_type(image, type) \in I
  BY <1>1, <1>2, <1>4
<1>6. image.phdrs \in Seq(PhdrType)
  BY DEF ImageType
<1>7. QED
  BY <1>5, <1>6, ElementOfSeq

\* A section header that is changed, but not its name, is still found, and so are the others.
LEMMA SectionChanged ==
  ASSUME NEW image \in ImageType, NEW other \in ImageType, NEW changed, NEW header \in ShdrType,
         elf_get_section_by_name(image, changed) # 0, header.name = changed,
         other.shdrs = [image.shdrs EXCEPT ![elf_get_section_by_name(image, changed)] = header]
  PROVE  /\ \A name : elf_get_section_by_name(other, name) = elf_get_section_by_name(image, name)
         /\ SectionOf(other, changed) = header
         /\ \A name : name # changed /\ elf_get_section_by_name(image, name) # 0
                        => SectionOf(other, name) = SectionOf(image, name)
<1> DEFINE at == elf_get_section_by_name(image, changed)
<1>1. /\ at \in 1..Len(image.shdrs) /\ image.shdrs[at].name = changed
  BY SectionFound DEF SectionOf
<1>2. image.shdrs \in Seq(ShdrType)
  BY DEF ImageType
<1>3. DOMAIN other.shdrs = DOMAIN image.shdrs /\ Len(other.shdrs) = Len(image.shdrs)
  BY <1>2, ExceptSeq, <1>1
<1>4. \A i \in 1..Len(image.shdrs) : other.shdrs[i].name = image.shdrs[i].name
  BY <1>1, <1>2
<1>5. ASSUME NEW name
      PROVE  elf_get_section_by_name(other, name) = elf_get_section_by_name(image, name)
  <2>1. {i \in 1..Len(other.shdrs) : other.shdrs[i].name = name} =
          {i \in 1..Len(image.shdrs) : image.shdrs[i].name = name}
    BY <1>3, <1>4
  <2>2. QED
    BY <2>1 DEF elf_get_section_by_name, SelectInSeq
<1>6. SectionOf(other, changed) = header
  BY <1>1, <1>2, <1>5 DEF SectionOf
<1>7. ASSUME NEW name, name # changed, elf_get_section_by_name(image, name) # 0
      PROVE  SectionOf(other, name) = SectionOf(image, name)
  <2>1. image.shdrs[elf_get_section_by_name(image, name)].name = name
    BY <1>7, SectionFound DEF SectionOf
  <2>2. elf_get_section_by_name(image, name) # at /\ elf_get_section_by_name(image, name) \in 1..Len(image.shdrs)
    BY <1>1, <1>7, <2>1, SectionFound
  <2>3. QED
    BY <1>2, <1>5, <2>2 DEF SectionOf
<1>8. QED
  BY <1>5, <1>6, <1>7

\* What image and other agree in, but for the section headers, the entries and the bytes.
SameHeader(one, other) ==
  /\ one.magic = other.magic /\ one.phentsize = other.phentsize /\ one.shentsize = other.shentsize
  /\ one.phdrs = other.phdrs

LEMMA SameHeaderIndex ==
  ASSUME NEW one, NEW other, SameHeader(one, other), NEW type
  PROVE  elf_get_proghdr_by_type(one, type) = elf_get_proghdr_by_type(other, type)
BY DEF SameHeader, elf_get_proghdr_by_type, SelectInSeq

LEMMA GrownHeader ==
  \A sh \in ShdrType, n \in Nat :
    LET new == [sh EXCEPT !.size = @ + n]
    IN  new \in ShdrType /\ new.name = sh.name /\ new.offset = sh.offset /\ new.size = sh.size + n
BY DEF ShdrType

LEMMA EntryAdded ==
  ASSUME NEW image \in ImageType, NEW tag \in DynTags \ {"DT_NULL"}, NEW val \in Nat,
         elf_get_section_by_name(image, ".dynamic") # 0,
         NEW new, new = AddEntry(image, tag, val)
  PROVE  /\ new \in ImageType
         /\ SameHeader(new, image) /\ new.bytes = image.bytes
         /\ Len(new.dyn) = Len(image.dyn) + 1
         /\ new.dyn[1] = [tag |-> tag, val |-> val]
         /\ \A i \in 1..Len(image.dyn) : new.dyn[i + 1] = image.dyn[i]
         /\ \A name : elf_get_section_by_name(new, name) = elf_get_section_by_name(image, name)
         /\ SectionOf(new, ".dynamic").size = SectionOf(image, ".dynamic").size + 1
         /\ \A name : name # ".dynamic" /\ elf_get_section_by_name(image, name) # 0
                        => SectionOf(new, name) = SectionOf(image, name)
<1> DEFINE at == elf_get_section_by_name(image, ".dynamic")
           entry == [tag |-> tag, val |-> val]
           dyn == <<entry>> \o image.dyn
           header == [image.shdrs[at] EXCEPT !.size = @ + 1]
           shdrs == [image.shdrs EXCEPT ![at] = header]
<1>1. at \in 1..Len(image.shdrs) /\ image.shdrs[at] \in ShdrType /\ image.shdrs[at].name = ".dynamic"
  BY SectionFound DEF SectionOf
<1>2. header \in ShdrType /\ header.name = ".dynamic" /\ header.size = image.shdrs[at].size + 1
  BY <1>1, GrownHeader
<1>3. new = [image EXCEPT !.dyn = dyn, !.shdrs = shdrs]
  BY DEF AddEntry
<1>4. entry \in DynType /\ image.dyn \in Seq(DynType) /\ image.shdrs \in Seq(ShdrType)
  BY DEF DynType, ImageType
<1>5. /\ dyn \in Seq(DynType) /\ Len(dyn) = Len(image.dyn) + 1
      /\ dyn[1] = entry /\ \A i \in 1..Len(image.dyn) : dyn[i + 1] = image.dyn[i]
  BY <1>4
<1> HIDE DEF entry, header
<1>6. shdrs \in Seq(ShdrType)
  BY <1>1, <1>2, <1>4, ExceptSeq
<1> HIDE DEF dyn
<1>7. new \in ImageType /\ SameHeader(new, image) /\ new.bytes = image.bytes /\ new.dyn = dyn
      /\ new.shdrs = shdrs
  <2> HIDE DEF shdrs
  <2>1. QED
    BY <1>3, <1>5, <1>6 DEF ImageType, SameHeader
<1>8. /\ \A name : elf_get_section_by_name(new, name) = elf_get_section_by_name(image, name)
      /\ SectionOf(new, ".dynamic") = header
      /\ \A name : name # ".dynamic" /\ elf_get_section_by_name(image, name) # 0
                     => SectionOf(new, name) = SectionOf(image, name)
  BY <1>2, <1>7, SectionChanged
<1>9. SectionOf(new, ".dynamic").size = SectionOf(image, ".dynamic").size + 1
  BY <1>2, <1>8 DEF SectionOf
<1>10. QED
  BY <1>5, <1>7, <1>8, <1>9 DEF entry

\* An entry in front: the others move by one, and count as before.
LEMMA TaggedAdded ==
  ASSUME NEW image \in ImageType, NEW tag \in DynTags \ {"DT_NULL"}, NEW val \in Nat,
         NEW new \in ImageType,
         Len(new.dyn) = Len(image.dyn) + 1,
         new.dyn[1] = [tag |-> tag, val |-> val],
         \A i \in 1..Len(image.dyn) : new.dyn[i + 1] = image.dyn[i],
         NEW t
  PROVE  Tagged(new, t) = {i + 1 : i \in Tagged(image, t)} \cup (IF t = tag THEN {1} ELSE {})
<1>1. Len(image.dyn) \in Nat /\ DOMAIN image.dyn = 1..Len(image.dyn) /\ DOMAIN new.dyn = 1..Len(new.dyn)
  BY DEF ImageType
<1>2. 1 \in Tagged(new, t) <=> t = tag
  <2>1. new.dyn[1].tag = tag
    OBVIOUS
  <2>2. \A k \in 1..1 : new.dyn[k].tag # "DT_NULL"
    BY <2>1
  <2>3. QED
    BY <1>1, <2>1, <2>2 DEF Tagged
<1>3. ASSUME NEW i \in 1..Len(image.dyn)
      PROVE  i + 1 \in Tagged(new, t) <=> i \in Tagged(image, t)
  <2>1. (\A k \in 1..(i + 1) : new.dyn[k].tag # "DT_NULL") <=>
          (\A k \in 1..i : image.dyn[k].tag # "DT_NULL")
    <3>1. ASSUME \A k \in 1..(i + 1) : new.dyn[k].tag # "DT_NULL", NEW k \in 1..i
          PROVE  image.dyn[k].tag # "DT_NULL"
      <4>1. k + 1 \in 1..(i + 1) /\ k \in 1..Len(image.dyn)
        BY <1>1
      <4>2. QED
        BY <3>1, <4>1
    <3>2. ASSUME \A k \in 1..i : image.dyn[k].tag # "DT_NULL", NEW k \in 1..(i + 1)
          PROVE  new.dyn[k].tag # "DT_NULL"
      <4>1. CASE k = 1
        BY <4>1
      <4>2. CASE k # 1
        <5>1. k - 1 \in 1..i /\ k - 1 \in 1..Len(image.dyn) /\ (k - 1) + 1 = k
          BY <1>1, <4>2
        <5>2. QED
          BY <3>2, <5>1
      <4>3. QED
        BY <4>1, <4>2
    <3>3. QED
      BY <3>1, <3>2
  <2>2. i + 1 \in DOMAIN new.dyn /\ new.dyn[i + 1].tag = image.dyn[i].tag
    BY <1>1
  <2>3. QED
    BY <1>1, <2>1, <2>2 DEF Tagged
<1>4. ASSUME NEW j \in Tagged(new, t)
      PROVE  j = 1 \/ \E i \in 1..Len(image.dyn) : j = i + 1
  <2>1. j \in 1..(Len(image.dyn) + 1)
    BY <1>1 DEF Tagged
  <2>2. j = 1 \/ (j - 1 \in 1..Len(image.dyn) /\ j = (j - 1) + 1)
    BY <1>1, <2>1
  <2>3. QED
    BY <2>2
<1>5. Tagged(image, t) \subseteq 1..Len(image.dyn)
  BY <1>1 DEF Tagged
<1>6. QED
  BY <1>2, <1>3, <1>4, <1>5

Joined(bytes, table, string) == bytes \o table \o Terminated(string)

LEMMA JoinedAt ==
  ASSUME NEW bytes \in Seq(Chars), NEW table \in Seq(Chars), NEW string \in Seq(Chars)
  PROVE  /\ Joined(bytes, table, string) \in Seq(Chars)
         /\ Len(Joined(bytes, table, string)) = Len(bytes) + Len(table) + Len(string) + 1
         /\ \A p \in 1..Len(Joined(bytes, table, string)) :
              Joined(bytes, table, string)[p] =
                IF p <= Len(bytes) THEN bytes[p]
                ELSE IF p <= Len(bytes) + Len(table) THEN table[p - Len(bytes)]
                ELSE Terminated(string)[p - (Len(bytes) + Len(table))]
<1> DEFINE two == bytes \o table
           last == Terminated(string)
<1>1. last \in Seq(Chars) /\ Len(last) = Len(string) + 1
  BY TerminatedIs
<1>2. /\ two \in Seq(Chars) /\ Len(two) = Len(bytes) + Len(table)
      /\ \A p \in 1..(Len(bytes) + Len(table)) :
           two[p] = IF p <= Len(bytes) THEN bytes[p] ELSE table[p - Len(bytes)]
  BY ConcatProperties
<1>3. Joined(bytes, table, string) = two \o last
  BY DEF Joined
<1> HIDE DEF two, last
<1>4. two \in Seq(Chars) /\ last \in Seq(Chars)
  BY <1>1, <1>2
<1>5. /\ two \o last \in Seq(Chars) /\ Len(two \o last) = Len(two) + Len(last)
      /\ \A p \in 1..(Len(two) + Len(last)) :
           (two \o last)[p] = IF p <= Len(two) THEN two[p] ELSE last[p - Len(two)]
  BY <1>4, ConcatProperties
<1>6. Len(bytes) \in Nat /\ Len(table) \in Nat /\ Len(string) \in Nat
  OBVIOUS
<1>7. QED
  BY <1>1, <1>2, <1>3, <1>5, <1>6 DEF last

\* Bytes, then a part of them again, then a string.
Moved(bytes, from, size, string) == Joined(bytes, SubSeq(bytes, from + 1, from + size), string)

IsMoved(new, bytes, from, size, string) ==
  /\ new \in Seq(Chars)
  /\ Len(new) = Len(bytes) + size + Len(string) + 1
  /\ \A p \in 1..Len(new) :
       new[p] = IF p <= Len(bytes) THEN bytes[p]
                ELSE IF p <= Len(bytes) + size THEN bytes[from + (p - Len(bytes))]
                ELSE Terminated(string)[p - (Len(bytes) + size)]

LEMMA TableMoved ==
  ASSUME NEW bytes \in Seq(Chars), NEW from \in Nat, NEW size \in Nat, from + size <= Len(bytes),
         NEW string \in Seq(Chars)
  PROVE  IsMoved(Moved(bytes, from, size, string), bytes, from, size, string)
<1> DEFINE m == from + 1
           n == from + size
           table == SubSeq(bytes, m, n)
           new == Joined(bytes, table, string)
<1>1. m \in Int /\ n \in Int /\ n - m + 1 = size /\ (IF m <= n THEN n - m + 1 ELSE 0) = size
  OBVIOUS
<1>2. \A k \in 1..size : m + k - 1 = from + k
  OBVIOUS
<1>3. \A p \in m..n : bytes[p] \in Chars
  BY ElementOfSeq
<1> HIDE DEF m, n
<1>4. /\ table \in Seq(Chars)
      /\ Len(table) = IF m <= n THEN n - m + 1 ELSE 0
      /\ \A k \in 1..(n - m + 1) : table[k] = bytes[m + k - 1]
  BY <1>1, <1>3, SubSeqProperties
<1> HIDE DEF table
<1>5. table \in Seq(Chars) /\ Len(table) = size /\ \A k \in 1..size : table[k] = bytes[from + k]
  BY <1>1, <1>2, <1>4
<1>6. /\ new \in Seq(Chars)
      /\ Len(new) = Len(bytes) + Len(table) + Len(string) + 1
      /\ \A p \in 1..Len(new) :
              new[p] = IF p <= Len(bytes) THEN bytes[p]
                       ELSE IF p <= Len(bytes) + Len(table) THEN table[p - Len(bytes)]
                       ELSE Terminated(string)[p - (Len(bytes) + Len(table))]
  <2>1. table \in Seq(Chars)
    BY <1>5
  <2>2. QED
    BY <2>1, JoinedAt
<1> HIDE DEF new
<1>7. /\ new \in Seq(Chars)
      /\ Len(new) = Len(bytes) + size + Len(string) + 1
      /\ \A p \in 1..Len(new) :
              new[p] = IF p <= Len(bytes) THEN bytes[p]
                       ELSE IF p <= Len(bytes) + size THEN bytes[from + (p - Len(bytes))]
                       ELSE Terminated(string)[p - (Len(bytes) + size)]
  BY <1>5, <1>6, SMTT(30)
<1>8. QED
  BY <1>7 DEF IsMoved, Moved, new, table, m, n
\* The table of strings, copied to the end of the file, with a string after it.
LEMMA TableGrown ==
  ASSUME NEW image \in ImageType, NEW string \in Seq(Chars \ {NUL}),
         elf_get_section_by_name(image, ".dynstr") # 0,
         SectionOf(image, ".dynstr").offset + SectionOf(image, ".dynstr").size <= Len(image.bytes),
         NEW new, new = GrowTable(image, string)
  PROVE  LET old == SectionOf(image, ".dynstr")
             end == Len(image.bytes)
         IN  /\ new \in ImageType
             /\ SameHeader(new, image) /\ new.dyn = image.dyn
             /\ \A name : elf_get_section_by_name(new, name) = elf_get_section_by_name(image, name)
             /\ \A name : name # ".dynstr" /\ elf_get_section_by_name(image, name) # 0
                            => SectionOf(new, name) = SectionOf(image, name)
             /\ SectionOf(new, ".dynstr").offset = end
             /\ SectionOf(new, ".dynstr").size = old.size + Len(string) + 1
             /\ Len(new.bytes) = end + old.size + Len(string) + 1
             /\ \A x \in 0..(end - 1) : Char(new, x) = Char(image, x)
             /\ \A k \in 0..(old.size - 1) : Char(new, end + k) = Char(image, old.offset + k)
             /\ Holds(new, end + old.size, string)
<1> DEFINE at == elf_get_section_by_name(image, ".dynstr")
           old == SectionOf(image, ".dynstr")
           end == Len(image.bytes)
           bytes == Joined(image.bytes, SubSeq(image.bytes, old.offset + 1, old.offset + old.size), string)
           header == [name |-> ".dynstr", offset |-> end, size |-> old.size + Size(string)]
           shdrs == [image.shdrs EXCEPT ![at] = header]
<1>1. at \in 1..Len(image.shdrs) /\ old \in ShdrType /\ old = image.shdrs[at]
  BY SectionFound DEF SectionOf
<1>2. /\ image.bytes \in Seq(Chars) /\ image.shdrs \in Seq(ShdrType) /\ string \in Seq(Chars)
      /\ end \in Nat /\ Len(string) \in Nat /\ old.offset \in Nat /\ old.size \in Nat
  <2>1. image.bytes \in Seq(Chars) /\ image.shdrs \in Seq(ShdrType) /\ string \in Seq(Chars)
    BY DEF ImageType
  <2>2. old.offset \in Nat /\ old.size \in Nat
    BY <1>1 DEF ShdrType
  <2>3. QED
    BY <2>1, <2>2
<1>3. /\ bytes \in Seq(Chars)
      /\ Len(bytes) = end + old.size + Len(string) + 1
      /\ \A p \in 1..Len(bytes) :
           bytes[p] = IF p <= end THEN image.bytes[p]
                      ELSE IF p <= end + old.size THEN image.bytes[old.offset + (p - end)]
                      ELSE Terminated(string)[p - (end + old.size)]
  <2>1. PICK b \in Seq(Chars) : b = image.bytes
    BY <1>2
  <2>2. PICK from \in Nat, size \in Nat : from = old.offset /\ size = old.size /\ from + size <= Len(b)
    BY <1>2, <2>1
  <2>3. string \in Seq(Chars) /\ from + size <= Len(b)
    BY <1>2, <2>2
  <2>4. IsMoved(Moved(b, from, size, string), b, from, size, string)
    BY <2>3, TableMoved
  <2>5. QED
    BY <2>1, <2>2, <2>4 DEF Moved, IsMoved
<1>4. new = [image EXCEPT !.bytes = bytes, !.shdrs = shdrs]
  BY <1>1 DEF GrowTable, Joined, Size
<1>5. header \in ShdrType /\ header.name = ".dynstr" /\ header.offset = end
        /\ header.size = old.size + Len(string) + 1
  BY <1>2 DEF ShdrType, Size
<1> HIDE DEF header, bytes
<1>6. shdrs \in Seq(ShdrType)
  BY <1>1, <1>2, <1>5, ExceptSeq
<1>7. new \in ImageType /\ SameHeader(new, image) /\ new.dyn = image.dyn
        /\ new.bytes = bytes /\ new.shdrs = shdrs
  <2> HIDE DEF shdrs
  <2>1. QED
    BY <1>3, <1>4, <1>6 DEF ImageType, SameHeader
<1>8. /\ \A name : elf_get_section_by_name(new, name) = elf_get_section_by_name(image, name)
      /\ SectionOf(new, ".dynstr") = header
      /\ \A name : name # ".dynstr" /\ elf_get_section_by_name(image, name) # 0
                     => SectionOf(new, name) = SectionOf(image, name)
  BY <1>5, <1>7, SectionChanged
<1>9. ASSUME NEW x \in 0..(end - 1)
      PROVE  Char(new, x) = Char(image, x)
  <2>1. x + 1 \in 1..Len(bytes) /\ x + 1 <= end /\ x < end /\ x < Len(bytes)
    BY <1>2, <1>3, SMTT(30)
  <2>2. bytes[x + 1] = image.bytes[x + 1]
    BY <1>3, <2>1
  <2>3. QED
    BY <1>7, <2>1, <2>2 DEF Char
<1>10. ASSUME NEW k \in 0..(old.size - 1)
       PROVE  Char(new, end + k) = Char(image, old.offset + k)
  <2>1. PICK p \in 1..Len(bytes) :
          /\ p = end + k + 1 /\ ~(p <= end) /\ p <= end + old.size
          /\ old.offset + (p - end) = old.offset + k + 1
          /\ end + k < Len(bytes) /\ old.offset + k < end
    <3>1. end + k + 1 \in 1..Len(bytes) /\ ~(end + k + 1 <= end) /\ end + k + 1 <= end + old.size
      BY <1>2, <1>3, SMTT(30)
    <3>2. old.offset + ((end + k + 1) - end) = old.offset + k + 1
      <4>1. old.offset \in Nat /\ end \in Nat /\ old.size \in Nat
        BY <1>2
      <4> HIDE DEF end, old
      <4>2. QED
        BY <4>1, SMTT(30)
    <3>3. end + k < Len(bytes) /\ old.offset + k < end
      BY <1>2, <1>3, SMTT(30)
    <3> HIDE DEF end, old, bytes
    <3>4. QED
      BY <3>1, <3>2, <3>3
  <2>2. bytes[p] = image.bytes[old.offset + (p - end)]
    BY <1>3, <2>1
  <2>3. QED
    BY <1>7, <2>1, <2>2 DEF Char
<1>11. Holds(new, end + old.size, string)
  <2> DEFINE there == end + old.size
  <2>1. there \in Nat /\ Len(bytes) = there + Len(string) + 1
    BY <1>2, <1>3
  <2>2. \A p \in 1..Len(bytes) : p > there => bytes[p] = Terminated(string)[p - there]
    BY <1>2, <1>3, SMTT(30)
  <2> HIDE DEF there
  <2>3. ASSUME NEW k \in 1..(Len(string) + 1)
        PROVE  Char(new, there + k - 1) = Terminated(string)[k]
    <3>1. PICK p \in 1..Len(bytes) : p = there + k - 1 + 1 /\ p > there /\ p - there = k
                                       /\ there + k - 1 < Len(bytes)
      BY <1>2, <2>1
    <3>2. bytes[p] = Terminated(string)[k]
      BY <2>2, <3>1
    <3>3. QED
      BY <1>7, <3>1, <3>2 DEF Char
  <2>4. /\ \A k \in 1..Len(string) : Terminated(string)[k] = string[k]
        /\ Terminated(string)[Len(string) + 1] = NUL
    BY <1>2, TerminatedIs
  <2>5. \A k \in 1..Len(string) : string[k] # NUL
    BY ElementOfSeq
  <2>6. Char(new, there + Len(string)) = NUL
    <3>1. PICK k \in 1..(Len(string) + 1) : k = Len(string) + 1 /\ there + k - 1 = there + Len(string)
      BY <1>2, <2>1
    <3>2. QED
      BY <2>3, <2>4, <3>1
  <2>7. Holds(new, there, string)
    BY <1>2, <2>3, <2>4, <2>5, <2>6 DEF Holds
  <2>8. QED
    BY <2>7 DEF there
<1>12. QED
  BY <1>5, <1>7, <1>8, <1>3, <1>9, <1>10, <1>11

\* "A table of this size that ends with a NUL stands here", "and a copy of it there."
TableAt(image, from, size) ==
  from + size <= Len(image.bytes) /\ image.bytes[from + size] = NUL
CopiedTo(new, there, image, from, size) ==
  \A k \in 0..(size - 1) : Char(new, there + k) = Char(image, from + k)

\* A string in a table that ends with a NUL ends in the table, and where the table has a
\* copy it has one.
LEMMA StringsMoved ==
  ASSUME NEW image \in ImageType, NEW new \in ImageType,
         NEW from \in Nat, NEW size \in Nat, NEW there \in Nat,
         TableAt(image, from, size), CopiedTo(new, there, image, from, size),
         NEW val \in Nat, val < size
  PROVE  /\ val + strlen(image, from + val) < size
         /\ strlen(new, there + val) = strlen(image, from + val)
         /\ String(new, there + val) = String(image, from + val)
<1> DEFINE n == strlen(image, from + val)
<1>1. image.bytes \in Seq(Chars) /\ new.bytes \in Seq(Chars) /\ from + val \in Nat /\ there + val \in Nat
  BY DEF ImageType
<1>2. n \in Nat /\ Ends(image, from + val, n)
  BY <1>1, StrlenEnds
<1>table. from + size <= Len(image.bytes) /\ image.bytes[from + size] = NUL
  BY DEF TableAt
<1>3. Char(image, from + size - 1) = NUL
  <2>1. PICK x \in Nat : x = from + size - 1 /\ x + 1 = from + size /\ x < Len(image.bytes)
    BY <1>1, <1>table
  <2>2. QED
    BY <1>table, <2>1 DEF Char
<1> HIDE DEF n
<1>4. val + n < size
  <2>1. SUFFICES ASSUME size - 1 - val < n PROVE FALSE
    BY <1>2
  <2>2. PICK k \in 0..(n - 1) : k = size - 1 - val /\ from + val + k = from + size - 1
    BY <1>2, <2>1
  <2>3. Char(image, from + val + k) # NUL
    BY <1>2 DEF Ends
  <2>4. QED
    BY <1>3, <2>2, <2>3
<1>5. ASSUME NEW k \in 0..n
      PROVE  Char(new, there + val + k) = Char(image, from + val + k)
  <2>1. PICK j \in 0..(size - 1) : there + j = there + val + k /\ from + j = from + val + k
    <3>1. val + k \in 0..(size - 1)
      BY <1>2, <1>4
    <3>2. there + (val + k) = there + val + k /\ from + (val + k) = from + val + k
      BY <1>2
    <3>3. QED
      BY <3>1, <3>2
  <2>2. QED
    BY <2>1 DEF CopiedTo
<1>6. /\ strlen(new, there + val) = strlen(image, from + val)
      /\ String(new, there + val) = String(image, from + val)
  <2>1. PICK a \in Nat, b \in Nat : a = from + val /\ b = there + val
    BY <1>1
  <2>2. \A k \in 0..strlen(image, a) : Char(new, b + k) = Char(image, a + k)
    BY <1>5, <2>1 DEF n
  <2>3. strlen(new, b) = strlen(image, a) /\ String(new, b) = String(image, a)
    BY <1>1, <2>2, SameString
  <2>4. QED
    BY <2>1, <2>3
<1>7. QED
  BY <1>4, <1>6 DEF n

\* The string that an entry has in a linked image, and where another image has it.
LEMMA NeededMoved ==
  ASSUME NEW image \in ImageType, Linked(image), NEW new \in ImageType,
         elf_get_section_by_name(new, ".dynstr") # 0,
         LET old == SectionOf(image, ".dynstr")
             now == SectionOf(new, ".dynstr")
         IN  CopiedTo(new, now.offset, image, old.offset, old.size),
         NEW i \in Tagged(image, "DT_NEEDED"), NEW j, new.dyn[j].val = image.dyn[i].val
  PROVE  LET old == SectionOf(image, ".dynstr")
             now == SectionOf(new, ".dynstr")
             val == image.dyn[i].val
         IN  /\ val \in Nat /\ val + strlen(image, old.offset + val) < old.size
             /\ strlen(new, now.offset + val) = strlen(image, old.offset + val)
             /\ TagString(new, j) = TagString(image, i)
<1> DEFINE old == SectionOf(image, ".dynstr")
           now == SectionOf(new, ".dynstr")
           val == image.dyn[i].val
<1>1. old \in ShdrType /\ now \in ShdrType
  BY SectionFound DEF Linked
<1>2. i \in 1..Len(image.dyn) /\ image.dyn \in Seq(DynType)
  BY DEF Tagged, ImageType
<1>3. val \in Nat
  <2>1. image.dyn[i] \in DynType
    BY <1>2, ElementOfSeq
  <2>2. QED
    BY <2>1 DEF DynType
<1>4. val < old.size /\ TableAt(image, old.offset, old.size)
  BY DEF Linked, TableAt
<1>5. old.offset \in Nat /\ old.size \in Nat /\ now.offset \in Nat
  BY <1>1 DEF ShdrType
<1>6. CopiedTo(new, now.offset, image, old.offset, old.size)
  OBVIOUS
<1>7. PICK from \in Nat, size \in Nat, there \in Nat, v \in Nat :
        from = old.offset /\ size = old.size /\ there = now.offset /\ v = val
  BY <1>3, <1>5
<1>8. v < size /\ TableAt(image, from, size) /\ CopiedTo(new, there, image, from, size)
  BY <1>4, <1>6, <1>7
<1>9. /\ v + strlen(image, from + v) < size
      /\ strlen(new, there + v) = strlen(image, from + v)
      /\ String(new, there + v) = String(image, from + v)
  BY <1>8, StringsMoved
<1>10. QED
  BY <1>3, <1>7, <1>9 DEF TagString

\* Nor does it matter how many entries there are before.
LEMMA NeededKept ==
  ASSUME NEW image \in ImageType, Linked(image), NEW new \in ImageType,
         elf_get_section_by_name(new, ".dynstr") # 0,
         LET old == SectionOf(image, ".dynstr")
             now == SectionOf(new, ".dynstr")
         IN  CopiedTo(new, now.offset, image, old.offset, old.size),
         NEW more \in Nat,
         \A i \in Tagged(image, "DT_NEEDED") : new.dyn[i + more].val = image.dyn[i].val
  PROVE  {TagString(new, i + more) : i \in Tagged(image, "DT_NEEDED")} = Needed(image)
<1>1. ASSUME NEW i \in Tagged(image, "DT_NEEDED")
      PROVE  TagString(new, i + more) = TagString(image, i)
  BY NeededMoved
<1>2. QED
  BY <1>1 DEF Needed

\* Tags and values of the entries of new are those of image, but for one more in front.
OneMore(new, image, tag, val) ==
  /\ Len(new.dyn) = Len(image.dyn) + 1
  /\ new.dyn[1] = [tag |-> tag, val |-> val]
  /\ \A i \in 1..Len(image.dyn) : new.dyn[i + 1] = image.dyn[i]
  /\ \A t : Tagged(new, t) = {i + 1 : i \in Tagged(image, t)} \cup (IF t = tag THEN {1} ELSE {})

LEMMA TaggedRange ==
  ASSUME NEW image \in ImageType, NEW t, NEW i \in Tagged(image, t)
  PROVE  i \in 1..Len(image.dyn) /\ i \in Nat /\ image.dyn[i].val \in Nat /\ image.dyn[i].tag = t
<1>1. i \in 1..Len(image.dyn) /\ image.dyn \in Seq(DynType) /\ image.dyn[i].tag = t
  BY DEF Tagged, ImageType
<1>2. image.dyn[i] \in DynType
  BY <1>1, ElementOfSeq
<1>3. QED
  BY <1>1, <1>2 DEF DynType

\* --add-needed and --set-rpath: what becomes of the tables.
LEMMA StringEntryAdded ==
  ASSUME NEW image \in ImageType, Linked(image),
         NEW tag \in DynTags \ {"DT_NULL"}, NEW string \in Seq(Chars \ {NUL}),
         NEW new, new = AddStringEntry(image, tag, string)
  PROVE  LET old == SectionOf(image, ".dynstr")
             now == SectionOf(new, ".dynstr")
         IN  /\ new \in ImageType /\ SameHeader(new, image) /\ Linked(new)
             /\ OneMore(new, image, tag, old.size)
             /\ now.offset = Len(image.bytes) /\ now.size = old.size + Len(string) + 1
             /\ \A x \in 0..(Len(image.bytes) - 1) : Char(new, x) = Char(image, x)
             /\ CopiedTo(new, now.offset, image, old.offset, old.size)
             /\ Holds(new, now.offset + old.size, string)
             /\ Needed(new) = Needed(image) \cup (IF tag = "DT_NEEDED" THEN {string} ELSE {})
<1> DEFINE old == SectionOf(image, ".dynstr")
           end == Len(image.bytes)
           grown == GrowTable(image, string)
           now == SectionOf(new, ".dynstr")
<1>1. /\ elf_get_section_by_name(image, ".dynstr") # 0
      /\ elf_get_section_by_name(image, ".dynamic") # 0
      /\ old.offset + old.size <= end /\ old.size > 0
      /\ SectionOf(image, ".dynamic").size = Len(image.dyn)
  BY DEF Linked
<1>2. old \in ShdrType /\ old.offset \in Nat /\ old.size \in Nat /\ end \in Nat /\ Len(string) \in Nat
  <2>1. old \in ShdrType
    BY <1>1, SectionFound
  <2>2. image.bytes \in Seq(Chars) /\ string \in Seq(Chars)
    BY DEF ImageType
  <2>3. QED
    BY <2>1, <2>2 DEF ShdrType
<1>3. /\ grown \in ImageType
      /\ SameHeader(grown, image) /\ grown.dyn = image.dyn
      /\ \A name : elf_get_section_by_name(grown, name) = elf_get_section_by_name(image, name)
      /\ SectionOf(grown, ".dynamic") = SectionOf(image, ".dynamic")
      /\ SectionOf(grown, ".dynstr").offset = end
      /\ SectionOf(grown, ".dynstr").size = old.size + Len(string) + 1
      /\ Len(grown.bytes) = end + old.size + Len(string) + 1
      /\ \A x \in 0..(end - 1) : Char(grown, x) = Char(image, x)
      /\ \A k \in 0..(old.size - 1) : Char(grown, end + k) = Char(image, old.offset + k)
      /\ Holds(grown, end + old.size, string)
  BY <1>1, TableGrown
<1> HIDE DEF grown
<1>4. new = AddEntry(grown, tag, old.size)
  BY DEF AddStringEntry, grown
<1>5. /\ new \in ImageType
      /\ SameHeader(new, grown) /\ new.bytes = grown.bytes
      /\ Len(new.dyn) = Len(grown.dyn) + 1
      /\ new.dyn[1] = [tag |-> tag, val |-> old.size]
      /\ \A i \in 1..Len(grown.dyn) : new.dyn[i + 1] = grown.dyn[i]
      /\ \A name : elf_get_section_by_name(new, name) = elf_get_section_by_name(grown, name)
      /\ SectionOf(new, ".dynamic").size = SectionOf(grown, ".dynamic").size + 1
      /\ now = SectionOf(grown, ".dynstr")
  <2>1. elf_get_section_by_name(grown, ".dynamic") # 0 /\ elf_get_section_by_name(grown, ".dynstr") # 0
    BY <1>1, <1>3
  <2>2. grown \in ImageType /\ old.size \in Nat
    BY <1>2, <1>3
  <2> HIDE DEF old
  <2>3. QED
    BY <1>4, <2>1, <2>2, EntryAdded
<1>6. SameHeader(new, image)
  BY <1>3, <1>5 DEF SameHeader
<1>7. OneMore(new, image, tag, old.size)
  <2>1. /\ Len(new.dyn) = Len(image.dyn) + 1 /\ new.dyn[1] = [tag |-> tag, val |-> old.size]
        /\ \A i \in 1..Len(image.dyn) : new.dyn[i + 1] = image.dyn[i]
    BY <1>3, <1>5
  <2>2. ASSUME NEW t
        PROVE  Tagged(new, t) = {i + 1 : i \in Tagged(image, t)} \cup (IF t = tag THEN {1} ELSE {})
    <3>1. new \in ImageType /\ old.size \in Nat
      BY <1>2, <1>5
    <3> HIDE DEF old
    <3>2. QED
      BY <2>1, <3>1, TaggedAdded, SMTT(30)
  <2>3. QED
    BY <2>1, <2>2 DEF OneMore
<1>8. /\ now.offset = end /\ now.size = old.size + Len(string) + 1
      /\ \A x \in 0..(end - 1) : Char(new, x) = Char(image, x)
      /\ CopiedTo(new, now.offset, image, old.offset, old.size)
      /\ Holds(new, now.offset + old.size, string)
  BY <1>3, <1>5, SMTT(30) DEF Char, CopiedTo, Holds
<1>9. ASSUME NEW i \in Tagged(new, "DT_NEEDED")
      PROVE  \/ \E j \in Tagged(image, "DT_NEEDED") : i = j + 1
             \/ i = 1 /\ tag = "DT_NEEDED"
  BY <1>7 DEF OneMore
<1>10. ASSUME NEW j \in Tagged(image, "DT_NEEDED")
       PROVE  new.dyn[j + 1].val = image.dyn[j].val
  BY <1>7, TaggedRange DEF OneMore
<1>11. Linked(new)
  <2>1. new.magic /\ new.phentsize = PHDR /\ new.shentsize = PHDR
    BY <1>6 DEF SameHeader, Linked
  <2>2. /\ elf_get_section_by_name(new, ".dynamic") # 0
        /\ SectionOf(new, ".dynamic").size = Len(new.dyn)
        /\ elf_get_section_by_name(new, ".dynstr") # 0
    BY <1>1, <1>3, <1>5, <1>7 DEF OneMore
  <2>3. now.size > 0 /\ now.offset + now.size = Len(new.bytes)
    <3>1. /\ now.offset = end /\ now.size = old.size + Len(string) + 1
          /\ Len(new.bytes) = end + old.size + Len(string) + 1
      BY <1>3, <1>5, <1>8
    <3>2. old.size \in Nat /\ end \in Nat /\ Len(string) \in Nat
      BY <1>2
    <3> HIDE DEF old, now, end
    <3>3. now.size > 0
      BY <3>1, <3>2
    <3>4. QED
      BY <3>1, <3>2, <3>3
  <2>4. new.bytes[now.offset + now.size] = NUL
    <3>1. /\ now.offset = end /\ now.size = old.size + Len(string) + 1
          /\ old.size \in Nat /\ end \in Nat /\ Len(string) \in Nat
          /\ now.offset + now.size = Len(new.bytes)
      BY <1>2, <1>8, <2>3
    <3>2. Char(new, now.offset + old.size + Len(string)) = NUL
      BY <1>8 DEF Holds
    <3> HIDE DEF old, now, end
    <3>3. PICK x \in Nat : x = now.offset + old.size + Len(string) /\ x + 1 = now.offset + now.size
                             /\ x < Len(new.bytes)
      <4>1. now.offset + old.size + Len(string) \in Nat
        BY <3>1
      <4>2. now.offset + old.size + Len(string) + 1 = now.offset + now.size
        BY <3>1
      <4>3. now.offset + old.size + Len(string) < Len(new.bytes)
        BY <3>1, <4>1, <4>2
      <4>4. QED
        BY <4>1, <4>2, <4>3
    <3>4. QED
      BY <3>2, <3>3 DEF Char
  <2>5. ASSUME NEW i \in Tagged(new, "DT_NEEDED")
        PROVE  new.dyn[i].val < now.size
    <3>1. CASE i = 1 /\ tag = "DT_NEEDED"
      BY <1>2, <1>7, <1>8, <3>1 DEF OneMore
    <3>2. ASSUME NEW j \in Tagged(image, "DT_NEEDED"), i = j + 1
          PROVE  new.dyn[i].val < now.size
      <4>1. image.dyn[j].val < old.size /\ image.dyn[j].val \in Nat
        BY TaggedRange DEF Linked
      <4>2. QED
        BY <1>2, <1>8, <1>10, <3>2, <4>1
    <3>3. QED
      BY <1>9, <3>1, <3>2
  <2>6. QED
    BY <2>1, <2>2, <2>3, <2>4, <2>5, <1>3, <1>5 DEF Linked
<1>12. Needed(new) = Needed(image) \cup (IF tag = "DT_NEEDED" THEN {string} ELSE {})
  <2>1. {TagString(new, i + 1) : i \in Tagged(image, "DT_NEEDED")} = Needed(image)
    <3>1. elf_get_section_by_name(new, ".dynstr") # 0 /\ new \in ImageType
      BY <1>1, <1>3, <1>5
    <3>2. CopiedTo(new, SectionOf(new, ".dynstr").offset, image,
                   SectionOf(image, ".dynstr").offset, SectionOf(image, ".dynstr").size)
      BY <1>8
    <3>3. QED
      BY <1>10, <3>1, <3>2, NeededKept
  <2>2. Needed(new) = {TagString(new, i + 1) : i \in Tagged(image, "DT_NEEDED")}
                        \cup (IF tag = "DT_NEEDED" THEN {TagString(new, 1)} ELSE {})
    BY <1>7 DEF OneMore, Needed
  <2>3. TagString(new, 1) = string
    <3>1. new.bytes \in Seq(Chars) /\ string \in Seq(Chars) /\ now.offset + old.size \in Nat
      <4>1. now.offset \in Nat /\ old.size \in Nat
        BY <1>2, <1>8
      <4>2. now.offset + old.size \in Nat
        BY <4>1
      <4>3. QED
        BY <1>5, <4>2 DEF ImageType
    <3>2. String(new, now.offset + old.size) = string
      BY <1>8, <3>1, HeldString
    <3>3. new.dyn[1].val = old.size
      BY <1>5
    <3>4. QED
      BY <3>2, <3>3 DEF TagString
  <2>4. QED
    BY <2>1, <2>2, <2>3
<1>13. QED
  BY <1>5, <1>6, <1>7, <1>8, <1>11, <1>12

\* --remove-rpath, and what it leaves alone.
LEMMA RpathRemoved ==
  ASSUME NEW image \in ImageType, NEW new, new = remove_rpath(image)
  PROVE  /\ new \in ImageType /\ SameHeader(new, image)
         /\ new.shdrs = image.shdrs /\ new.bytes = image.bytes
         /\ Len(new.dyn) = Len(image.dyn)
         /\ \A i \in 1..Len(image.dyn) : new.dyn[i].val = image.dyn[i].val
         /\ \A t : t \notin {"DT_RPATH", "DT_RUNPATH", "removed"} => Tagged(new, t) = Tagged(image, t)
         /\ Tagged(new, "DT_RPATH") = {} /\ "DT_RUNPATH" \notin TagsOf(new)
<1> DEFINE Retagged(d) ==
             IF d.tag \in {"DT_RPATH", "DT_RUNPATH"} THEN [d EXCEPT !.tag = "removed"] ELSE d
           dyn == [i \in DOMAIN image.dyn |-> Retagged(image.dyn[i])]
<1>1. image.dyn \in Seq(DynType) /\ Len(image.dyn) \in Nat /\ DOMAIN image.dyn = 1..Len(image.dyn)
  BY DEF ImageType
<1>2. \A d \in DynType :
        /\ Retagged(d) \in DynType /\ Retagged(d).val = d.val
        /\ Retagged(d).tag = IF d.tag \in {"DT_RPATH", "DT_RUNPATH"} THEN "removed" ELSE d.tag
  BY DEF DynType, DynTags
<1> HIDE DEF Retagged
<1>3. \A i \in 1..Len(image.dyn) : image.dyn[i] \in DynType
  BY <1>1, ElementOfSeq
<1>4. dyn \in Seq(DynType) /\ Len(dyn) = Len(image.dyn)
  <2>1. dyn \in [1..Len(image.dyn) -> DynType]
    BY <1>1, <1>2, <1>3
  <2>2. QED
    BY <1>1, <2>1, LenProperties, SeqDef
<1>5. \A i \in 1..Len(image.dyn) :
        /\ dyn[i].val = image.dyn[i].val
        /\ dyn[i].tag = IF image.dyn[i].tag \in {"DT_RPATH", "DT_RUNPATH"} THEN "removed"
                                                                        ELSE image.dyn[i].tag
  BY <1>1, <1>2, <1>3
<1>6. new = [image EXCEPT !.dyn = dyn]
  BY DEF remove_rpath, Retagged
<1> HIDE DEF dyn
<1>7. /\ new \in ImageType /\ SameHeader(new, image)
      /\ new.shdrs = image.shdrs /\ new.bytes = image.bytes /\ new.dyn = dyn
  BY <1>4, <1>6 DEF ImageType, SameHeader
<1>8. DOMAIN new.dyn = 1..Len(image.dyn)
  BY <1>4, <1>7
<1>9. \A i \in 1..Len(image.dyn) : \A k \in 1..i :
        k \in 1..Len(image.dyn) /\ (new.dyn[k].tag # "DT_NULL" <=> image.dyn[k].tag # "DT_NULL")
  <2>1. ASSUME NEW i \in 1..Len(image.dyn), NEW k \in 1..i
        PROVE  k \in 1..Len(image.dyn)
    BY <1>1
  <2>2. QED
    BY <2>1, <1>5, <1>7
<1>10. ASSUME NEW t, t \notin {"DT_RPATH", "DT_RUNPATH", "removed"}
       PROVE  Tagged(new, t) = Tagged(image, t)
  <2>1. \A i \in 1..Len(image.dyn) : new.dyn[i].tag = t <=> image.dyn[i].tag = t
    BY <1>5, <1>7, <1>10
  <2>2. QED
    BY <1>1, <1>8, <1>9, <2>1 DEF Tagged
<1>11. \A i \in 1..Len(image.dyn) : new.dyn[i].tag \notin {"DT_RPATH", "DT_RUNPATH"}
  BY <1>5, <1>7
<1>12. Tagged(new, "DT_RPATH") = {} /\ "DT_RUNPATH" \notin TagsOf(new)
  BY <1>8, <1>11 DEF Tagged, TagsOf
<1>13. QED
  BY <1>4, <1>5, <1>7, <1>10, <1>12

LEMMA RpathRemovedLinked ==
  ASSUME NEW image \in ImageType, Linked(image), NEW new, new = remove_rpath(image)
  PROVE  Linked(new) /\ Needed(new) = Needed(image)
<1>1. /\ new \in ImageType /\ SameHeader(new, image)
      /\ new.shdrs = image.shdrs /\ new.bytes = image.bytes
      /\ Len(new.dyn) = Len(image.dyn)
      /\ \A i \in 1..Len(image.dyn) : new.dyn[i].val = image.dyn[i].val
      /\ Tagged(new, "DT_NEEDED") = Tagged(image, "DT_NEEDED")
  BY RpathRemoved
<1>2. \A name : /\ elf_get_section_by_name(new, name) = elf_get_section_by_name(image, name)
                /\ SectionOf(new, name) = SectionOf(image, name)
  BY <1>1 DEF elf_get_section_by_name, SectionOf, SelectInSeq
<1>3. \A i \in Tagged(image, "DT_NEEDED") : new.dyn[i].val = image.dyn[i].val
  BY <1>1, TaggedRange
<1>4. Linked(new)
  BY <1>1, <1>2, <1>3 DEF Linked, SameHeader
<1>5. Needed(new) = Needed(image)
  <2>1. \A i \in Tagged(image, "DT_NEEDED") : i + 0 = i
    BY TaggedRange
  <2>2. \A i \in Tagged(image, "DT_NEEDED") : new.dyn[i + 0].val = image.dyn[i].val
    BY <1>3, <2>1
  <2>3. elf_get_section_by_name(new, ".dynstr") # 0
    BY <1>2 DEF Linked
  <2>4. CopiedTo(new, SectionOf(new, ".dynstr").offset, image,
                 SectionOf(image, ".dynstr").offset, SectionOf(image, ".dynstr").size)
    BY <1>1, <1>2 DEF CopiedTo, Char
  <2>5. {TagString(new, i + 0) : i \in Tagged(image, "DT_NEEDED")} = Needed(image)
    BY <1>1, <2>2, <2>3, <2>4, NeededKept
  <2>6. QED
    BY <1>1, <2>1, <2>5 DEF Needed
<1>6. QED
  BY <1>4, <1>5

\* --set-interpreter, and what it leaves alone.
NewInterp(new, image, interpreter) ==
  LET at == elf_get_proghdr_by_type(image, "PT_INTERP")
      end == Len(image.bytes)
  IN  /\ new \in ImageType
      /\ new.magic = image.magic /\ new.phentsize = image.phentsize
      /\ new.shentsize = image.shentsize /\ new.shdrs = image.shdrs /\ new.dyn = image.dyn
      /\ elf_get_proghdr_by_type(new, "PT_INTERP") = at
      /\ new.phdrs[at].offset = end /\ new.phdrs[at].filesz = Len(interpreter) + 1
      /\ Len(new.bytes) = end + Len(interpreter) + 1
      /\ \A x \in 0..(end - 1) : Char(new, x) = Char(image, x)
      /\ Char(new, end + Len(interpreter)) = NUL

LEMMA InterpreterSet ==
  ASSUME NEW image \in ImageType, NEW interpreter \in Seq(Chars \ {NUL}),
         elf_get_proghdr_by_type(image, "PT_INTERP") # 0,
         NEW new, new = SetInterpreter(image, interpreter)
  PROVE  NewInterp(new, image, interpreter)
<1> DEFINE at == elf_get_proghdr_by_type(image, "PT_INTERP")
           end == Len(image.bytes)
           header == [type |-> "PT_INTERP", offset |-> end, filesz |-> Size(interpreter)]
           phdrs == [image.phdrs EXCEPT ![at] = header]
           bytes == image.bytes \o Terminated(interpreter)
<1>1. at \in 1..Len(image.phdrs) /\ image.phdrs[at].type = "PT_INTERP"
  BY HeaderFound
<1>2. /\ image.bytes \in Seq(Chars) /\ image.phdrs \in Seq(PhdrType) /\ interpreter \in Seq(Chars)
      /\ end \in Nat /\ Len(interpreter) \in Nat
  BY DEF ImageType
<1>3. /\ header \in PhdrType /\ header.type = "PT_INTERP" /\ header.offset = end
      /\ header.filesz = Len(interpreter) + 1
  BY <1>2 DEF PhdrType, Size
<1>4. new = [image EXCEPT !.phdrs = phdrs, !.bytes = bytes]
  BY DEF SetInterpreter
<1>5. /\ Terminated(interpreter) \in Seq(Chars) /\ Len(Terminated(interpreter)) = Len(interpreter) + 1
      /\ Terminated(interpreter)[Len(interpreter) + 1] = NUL
  BY <1>2, TerminatedIs
<1>6. /\ bytes \in Seq(Chars) /\ Len(bytes) = end + Len(interpreter) + 1
      /\ \A p \in 1..Len(bytes) :
           bytes[p] = IF p <= end THEN image.bytes[p] ELSE Terminated(interpreter)[p - end]
  <2>1. PICK b \in Seq(Chars), t \in Seq(Chars) :
          b = image.bytes /\ t = Terminated(interpreter) /\ Len(t) = Len(interpreter) + 1
    BY <1>2, <1>5
  <2>2. /\ b \o t \in Seq(Chars) /\ Len(b \o t) = Len(b) + Len(t)
        /\ \A p \in 1..(Len(b) + Len(t)) : (b \o t)[p] = IF p <= Len(b) THEN b[p] ELSE t[p - Len(b)]
    BY ConcatProperties
  <2>3. b \o t = bytes
    BY <2>1
  <2> HIDE DEF bytes
  <2>4. Len(bytes) = end + Len(interpreter) + 1 /\ Len(bytes) = Len(b) + Len(t)
    <3>1. Len(bytes) = Len(b) + Len(t) /\ Len(b) = end
      BY <2>1, <2>2, <2>3
    <3>2. Len(b) + Len(t) = end + Len(interpreter) + 1
      <4>1. end \in Nat /\ Len(interpreter) \in Nat
        BY <1>2
      <4>2. Len(t) = Len(interpreter) + 1 /\ Len(b) = end
        BY <2>1, <3>1
      <4> HIDE DEF end
      <4>3. QED
        BY <4>1, <4>2
    <3>3. QED
      BY <3>1, <3>2
  <2>5. QED
    BY <2>1, <2>2, <2>3, <2>4
<1> HIDE DEF header, bytes
<1>7. phdrs \in Seq(PhdrType)
  BY <1>1, <1>2, <1>3, ExceptSeq
<1>8. /\ new \in ImageType
      /\ new.magic = image.magic /\ new.phentsize = image.phentsize
      /\ new.shentsize = image.shentsize /\ new.shdrs = image.shdrs /\ new.dyn = image.dyn
      /\ new.bytes = bytes /\ new.phdrs = phdrs
  <2> HIDE DEF phdrs
  <2>1. QED
    BY <1>4, <1>6, <1>7 DEF ImageType
<1>9. new.phdrs[at] = header /\ Len(new.phdrs) = Len(image.phdrs)
        /\ \A i \in 1..Len(image.phdrs) : new.phdrs[i].type = image.phdrs[i].type
  <2>1. DOMAIN phdrs = DOMAIN image.phdrs /\ Len(phdrs) = Len(image.phdrs)
    BY <1>1, <1>2, <1>7
  <2>2. \A i \in 1..Len(image.phdrs) : phdrs[i].type = image.phdrs[i].type
    BY <1>1, <1>2, <1>3
  <2>3. phdrs[at] = header
    BY <1>1, <1>2
  <2>4. QED
    BY <1>8, <2>1, <2>2, <2>3
<1>10. elf_get_proghdr_by_type(new, "PT_INTERP") = at
  <2>1. {i \in 1..Len(new.phdrs) : new.phdrs[i].type = "PT_INTERP"} =
          {i \in 1..Len(image.phdrs) : image.phdrs[i].type = "PT_INTERP"}
    BY <1>9
  <2>2. QED
    BY <2>1 DEF elf_get_proghdr_by_type, SelectInSeq
<1>11. ASSUME NEW x \in 0..(end - 1)
       PROVE  Char(new, x) = Char(image, x)
  <2>1. x + 1 \in 1..Len(bytes) /\ x + 1 <= end /\ x < end /\ x < Len(bytes)
    BY <1>2, <1>6
  <2>2. bytes[x + 1] = image.bytes[x + 1]
    BY <1>6, <2>1
  <2>3. QED
    BY <1>8, <2>1, <2>2 DEF Char
<1>12. Char(new, end + Len(interpreter)) = NUL
  <2>1. PICK p \in 1..Len(bytes) :
          p = end + Len(interpreter) + 1 /\ ~(p <= end) /\ p - end = Len(interpreter) + 1
            /\ end + Len(interpreter) < Len(bytes)
    <3>1. end + Len(interpreter) + 1 = Len(bytes) /\ end + Len(interpreter) + 1 \in Nat \ {0}
      BY <1>2, <1>6
    <3>2. /\ ~(end + Len(interpreter) + 1 <= end)
          /\ (end + Len(interpreter) + 1) - end = Len(interpreter) + 1
          /\ end + Len(interpreter) < end + Len(interpreter) + 1
      <4>1. end \in Nat /\ Len(interpreter) \in Nat
        BY <1>2
      <4> HIDE DEF end
      <4>2. QED
        BY <4>1
    <3>3. end + Len(interpreter) + 1 \in 1..Len(bytes)
      BY <3>1
    <3>4. QED
      BY <3>1, <3>2, <3>3
  <2>2. bytes[p] = NUL
    BY <1>5, <1>6, <2>1
  <2>3. QED
    BY <1>8, <2>1, <2>2 DEF Char
<1>13. QED
  BY <1>3, <1>6, <1>8, <1>9, <1>10, <1>11, <1>12 DEF NewInterp

LEMMA InterpreterSetLinked ==
  ASSUME NEW image \in ImageType, Linked(image), NEW interpreter \in Seq(Chars \ {NUL}),
         elf_get_proghdr_by_type(image, "PT_INTERP") # 0,
         NEW new, new = SetInterpreter(image, interpreter)
  PROVE  Linked(new) /\ Needed(new) = Needed(image)
<1> DEFINE old == SectionOf(image, ".dynstr")
<1>1. /\ new \in ImageType
      /\ new.magic = image.magic /\ new.phentsize = image.phentsize
      /\ new.shentsize = image.shentsize /\ new.shdrs = image.shdrs /\ new.dyn = image.dyn
      /\ Len(new.bytes) = Len(image.bytes) + Len(interpreter) + 1
      /\ \A x \in 0..(Len(image.bytes) - 1) : Char(new, x) = Char(image, x)
  BY InterpreterSet DEF NewInterp
<1>2. \A name : /\ elf_get_section_by_name(new, name) = elf_get_section_by_name(image, name)
                /\ SectionOf(new, name) = SectionOf(image, name)
                /\ Tagged(new, name) = Tagged(image, name)
  BY <1>1 DEF elf_get_section_by_name, SectionOf, SelectInSeq, Tagged
<1>3. /\ old.offset \in Nat /\ old.size \in Nat /\ old.size > 0
      /\ old.offset + old.size <= Len(image.bytes)
      /\ Len(image.bytes) \in Nat /\ Len(interpreter) \in Nat
  <2>1. old \in ShdrType
    BY SectionFound DEF Linked
  <2>2. QED
    BY <2>1 DEF Linked, ShdrType, ImageType
<1> HIDE DEF old
<1>4. CopiedTo(new, old.offset, image, old.offset, old.size)
  <2>1. ASSUME NEW k \in 0..(old.size - 1)
        PROVE  old.offset + k \in 0..(Len(image.bytes) - 1)
    BY <1>3, SMTT(30)
  <2>2. QED
    BY <1>1, <2>1 DEF CopiedTo
<1>5. old.offset + old.size <= Len(new.bytes) /\ new.bytes[old.offset + old.size] = NUL
  <2>1. PICK x \in 0..(Len(image.bytes) - 1) : x + 1 = old.offset + old.size
                                                  /\ x < Len(image.bytes) /\ x < Len(new.bytes)
    <3>1. old.offset + old.size - 1 \in 0..(Len(image.bytes) - 1)
      BY <1>3, SMTT(30)
    <3>2. (old.offset + old.size - 1) + 1 = old.offset + old.size
      BY <1>3
    <3>3. Len(image.bytes) < Len(new.bytes)
      BY <1>1, <1>3
    <3>4. QED
      BY <1>1, <1>3, <3>1, <3>2, <3>3, SMTT(30)
  <2>2. image.bytes[x + 1] = NUL
    BY <2>1 DEF Linked, old
  <2>3. Char(new, x) = Char(image, x)
    BY <1>1
  <2>4. new.bytes[x + 1] = NUL
    BY <2>1, <2>2, <2>3 DEF Char
  <2>5. old.offset + old.size <= Len(new.bytes)
    BY <1>1, <1>3
  <2>6. QED
    BY <2>1, <2>4, <2>5
<1>6. Linked(new)
  BY <1>1, <1>2, <1>5 DEF Linked, old
<1>7. Needed(new) = Needed(image)
  <2>1. \A i \in Tagged(image, "DT_NEEDED") : i \in Nat /\ i + 0 = i
    BY TaggedRange
  <2>2. \A i \in Tagged(image, "DT_NEEDED") : new.dyn[i + 0].val = image.dyn[i].val
    BY <1>1, <2>1
  <2>3. elf_get_section_by_name(new, ".dynstr") # 0
    BY <1>2 DEF Linked
  <2>4. CopiedTo(new, SectionOf(new, ".dynstr").offset, image,
                 SectionOf(image, ".dynstr").offset, SectionOf(image, ".dynstr").size)
    BY <1>2, <1>4 DEF old
  <2>5. {TagString(new, i + 0) : i \in Tagged(image, "DT_NEEDED")} = Needed(image)
    BY <1>1, <2>2, <2>3, <2>4, NeededKept, SMTT(30)
  <2>6. QED
    BY <1>2, <2>1, <2>5 DEF Needed
<1>8. QED
  BY <1>6, <1>7

\* The flag that only search paths count.
LEMMA NoDefaultLibAdded ==
  ASSUME NEW image \in ImageType, Linked(image), NEW new, new = NoDefaultLib(image)
  PROVE  /\ new \in ImageType /\ SameHeader(new, image) /\ new.bytes = image.bytes
         /\ SectionOf(new, ".dynstr") = SectionOf(image, ".dynstr")
         /\ OneMore(new, image, "DF_1_NODEFLIB", 0)
         /\ Linked(new) /\ Needed(new) = Needed(image)
<1>1. /\ elf_get_section_by_name(image, ".dynstr") # 0
      /\ elf_get_section_by_name(image, ".dynamic") # 0
      /\ SectionOf(image, ".dynamic").size = Len(image.dyn)
  BY DEF Linked
<1>2. new = AddEntry(image, "DF_1_NODEFLIB", 0) /\ "DF_1_NODEFLIB" \in DynTags \ {"DT_NULL"} /\ 0 \in Nat
  BY DEF NoDefaultLib, DynTags
<1>3. /\ new \in ImageType
      /\ SameHeader(new, image) /\ new.bytes = image.bytes
      /\ Len(new.dyn) = Len(image.dyn) + 1
      /\ new.dyn[1] = [tag |-> "DF_1_NODEFLIB", val |-> 0]
      /\ \A i \in 1..Len(image.dyn) : new.dyn[i + 1] = image.dyn[i]
      /\ \A name : elf_get_section_by_name(new, name) = elf_get_section_by_name(image, name)
      /\ SectionOf(new, ".dynamic").size = SectionOf(image, ".dynamic").size + 1
      /\ SectionOf(new, ".dynstr") = SectionOf(image, ".dynstr")
  BY <1>1, <1>2, EntryAdded
<1>4. \A t : Tagged(new, t) = {i + 1 : i \in Tagged(image, t)} \cup (IF t = "DF_1_NODEFLIB" THEN {1} ELSE {})
  BY <1>2, <1>3, TaggedAdded
<1>5. OneMore(new, image, "DF_1_NODEFLIB", 0)
  BY <1>3, <1>4 DEF OneMore
<1>6. Tagged(new, "DT_NEEDED") = {i + 1 : i \in Tagged(image, "DT_NEEDED")}
  BY <1>4
<1>7. \A i \in Tagged(image, "DT_NEEDED") : new.dyn[i + 1].val = image.dyn[i].val
  BY <1>3, TaggedRange
<1>8. Linked(new)
  BY <1>1, <1>3, <1>6, <1>7 DEF Linked, SameHeader
<1>9. {TagString(new, i + 1) : i \in Tagged(image, "DT_NEEDED")} = Needed(image)
  <2>1. CopiedTo(new, SectionOf(new, ".dynstr").offset, image,
                 SectionOf(image, ".dynstr").offset, SectionOf(image, ".dynstr").size)
    BY <1>3 DEF CopiedTo, Char
  <2>2. elf_get_section_by_name(new, ".dynstr") # 0
    BY <1>1, <1>3
  <2>3. QED
    BY <1>3, <1>7, <2>1, <2>2, NeededKept
<1>10. QED
  BY <1>3, <1>5, <1>6, <1>8, <1>9, ZenonT(60) DEF Needed

\* One more entry, and the table of strings copied: there is as much room as before.
LEMMA RoomKept ==
  ASSUME NEW image \in ImageType, Linked(image), NEW new \in ImageType, Linked(new),
         NEW dt \in 1..Len(image.dyn), HasRoom(image, dt),
         NEW tag \in {"DT_NEEDED", "DF_1_NODEFLIB"}, NEW val \in Nat, OneMore(new, image, tag, val),
         tag = "DT_NEEDED" => val = SectionOf(image, ".dynstr").size,
         SectionOf(new, ".dynstr").size >= SectionOf(image, ".dynstr").size,
         CopiedTo(new, SectionOf(new, ".dynstr").offset, image,
                  SectionOf(image, ".dynstr").offset, SectionOf(image, ".dynstr").size)
  PROVE  HasRoom(new, dt + 1)
<1> DEFINE old == SectionOf(image, ".dynstr")
           now == SectionOf(new, ".dynstr")
           rpath == image.dyn[dt].val
<1>1. /\ old.offset \in Nat /\ old.size \in Nat /\ now.offset \in Nat /\ now.size \in Nat
      /\ elf_get_section_by_name(new, ".dynstr") # 0
  <2>1. old \in ShdrType /\ now \in ShdrType
    BY SectionFound DEF Linked
  <2>2. QED
    BY <2>1 DEF ShdrType, Linked
<1>2. rpath \in Nat /\ MAX_RPATH_LEN \in Nat \ {0}
  <2>1. dt \in Tagged(image, "DT_RPATH")
    BY DEF HasRoom
  <2>2. QED
    BY <2>1, TaggedRange, LengthsAssumption
<1>3. /\ Tagged(image, "DT_RPATH") = {dt}
      /\ rpath + MAX_RPATH_LEN < old.size
      /\ \A k \in 0..(MAX_RPATH_LEN - 1) : Char(image, old.offset + rpath + k) # NUL
      /\ Char(image, old.offset + rpath + MAX_RPATH_LEN) = NUL
  BY DEF HasRoom
<1>4. new.dyn[dt + 1].val = rpath
  BY DEF OneMore
<1>5. Tagged(new, "DT_RPATH") = {dt + 1}
  BY <1>3 DEF OneMore
<1>6. now.size >= old.size
  OBVIOUS
<1>7. CopiedTo(new, now.offset, image, old.offset, old.size)
  OBVIOUS
<1>8. ASSUME NEW i \in Tagged(new, "DT_NEEDED")
      PROVE  LET name == new.dyn[i].val IN
             \/ name + strlen(new, now.offset + name) < rpath
             \/ name > rpath + MAX_RPATH_LEN
  <2>1. CASE i = 1 /\ tag = "DT_NEEDED"
    <3>1. new.dyn[1].val = old.size
      BY <2>1 DEF OneMore
    <3>2. QED
      BY <1>1, <1>2, <1>3, <2>1, <3>1
  <2>2. ASSUME NEW j \in Tagged(image, "DT_NEEDED"), i = j + 1
        PROVE  LET name == new.dyn[i].val IN
               \/ name + strlen(new, now.offset + name) < rpath
               \/ name > rpath + MAX_RPATH_LEN
    <3>1. new.dyn[i].val = image.dyn[j].val
      BY <2>2, TaggedRange DEF OneMore
    <3>2. strlen(new, now.offset + image.dyn[j].val) = strlen(image, old.offset + image.dyn[j].val)
      BY <1>1, <1>7, <3>1, NeededMoved
    <3>3. \/ image.dyn[j].val + strlen(image, old.offset + image.dyn[j].val) < rpath
          \/ image.dyn[j].val > rpath + MAX_RPATH_LEN
      BY DEF HasRoom
    <3>4. QED
      BY <3>1, <3>2, <3>3
  <2>3. \/ i = 1 /\ tag = "DT_NEEDED"
        \/ \E j \in Tagged(image, "DT_NEEDED") : i = j + 1
    BY DEF OneMore
  <2>4. QED
    BY <2>1, <2>2, <2>3
<1> HIDE DEF old, now, rpath
<1>9. ASSUME NEW k \in 0..MAX_RPATH_LEN
      PROVE  Char(new, now.offset + rpath + k) = Char(image, old.offset + rpath + k)
  <2>1. rpath + k \in 0..(old.size - 1)
    BY <1>1, <1>2, <1>3
  <2>2. /\ now.offset + (rpath + k) = now.offset + rpath + k
        /\ old.offset + (rpath + k) = old.offset + rpath + k
    BY <1>1, <1>2
  <2>3. Char(new, now.offset + (rpath + k)) = Char(image, old.offset + (rpath + k))
    BY <1>7, <2>1 DEF CopiedTo
  <2>4. QED
    BY <2>2, <2>3
<1>10. \A k \in 0..(MAX_RPATH_LEN - 1) : Char(new, now.offset + rpath + k) # NUL
  BY <1>2, <1>3, <1>9
<1>11. Char(new, now.offset + rpath + MAX_RPATH_LEN) = NUL
  BY <1>2, <1>3, <1>9
<1>12. rpath + MAX_RPATH_LEN < now.size
  BY <1>1, <1>2, <1>3, <1>6
<1>13. QED
  BY <1>4, <1>5, <1>8, <1>10, <1>11, <1>12 DEF HasRoom, old, now, rpath

-----------------------------------------------------------------------------
(* What staticx makes is prepared, and stays so.                           *)

LEMMA PatchedElfIsPrepared ==
  ASSUME NEW image \in ImageType, Linked(image),
         elf_get_proghdr_by_type(image, "PT_INTERP") # 0,
         NEW interpreter \in Seq(Chars \ {NUL}), Len(interpreter) = MAX_INTERP_LEN,
         NEW rpath \in Seq(Chars \ {NUL}), Len(rpath) = MAX_RPATH_LEN,
         NEW new, new = PatchElf(image, interpreter, rpath)
  PROVE  new \in ImageType /\ IsPrepared(new) /\ Needed(new) = Needed(image)
<1> DEFINE a == remove_rpath(image)
           b == SetInterpreter(a, interpreter)
           c == remove_rpath(b)
           d == AddStringEntry(c, "DT_RPATH", rpath)
           e == NoDefaultLib(d)
           at == elf_get_proghdr_by_type(image, "PT_INTERP")
           end == Len(a.bytes)
<1>1. /\ a \in ImageType /\ SameHeader(a, image) /\ Linked(a) /\ Needed(a) = Needed(image)
      /\ "DT_RUNPATH" \notin TagsOf(a)
  BY RpathRemoved, RpathRemovedLinked
<1>2. elf_get_proghdr_by_type(a, "PT_INTERP") = at
  BY <1>1, SameHeaderIndex
<1> HIDE DEF a
<1>3. /\ b \in ImageType /\ Linked(b) /\ Needed(b) = Needed(a)
      /\ elf_get_proghdr_by_type(b, "PT_INTERP") = at
      /\ b.phdrs[at].offset = end /\ b.phdrs[at].filesz = MAX_INTERP_LEN + 1
      /\ Len(b.bytes) = end + MAX_INTERP_LEN + 1
      /\ Char(b, end + MAX_INTERP_LEN) = NUL
      /\ b.dyn = a.dyn
  <2>1. elf_get_proghdr_by_type(a, "PT_INTERP") # 0 /\ a \in ImageType /\ Linked(a)
    BY <1>1, <1>2
  <2> HIDE DEF b
  <2>2. b = SetInterpreter(a, interpreter)
    BY DEF b
  <2>3. NewInterp(b, a, interpreter)
    BY <2>1, <2>2, InterpreterSet
  <2>4. Linked(b) /\ Needed(b) = Needed(a)
    BY <2>1, <2>2, InterpreterSetLinked
  <2>5. QED
    BY <1>2, <2>3, <2>4 DEF NewInterp
<1> HIDE DEF b
<1>4. /\ c \in ImageType /\ SameHeader(c, b) /\ c.bytes = b.bytes
      /\ Linked(c) /\ Needed(c) = Needed(b)
      /\ Tagged(c, "DT_RPATH") = {} /\ "DT_RUNPATH" \notin TagsOf(c)
  BY <1>3, RpathRemoved, RpathRemovedLinked
<1>5. Tagged(c, "DT_RUNPATH") = {}
  BY <1>4 DEF Tagged, TagsOf
<1>6. new = e
  <2>1. "DT_RUNPATH" \notin TagsOf(b)
    BY <1>1, <1>3 DEF TagsOf
  <2>2. SetRpath(b, rpath, TRUE) = d
    BY <2>1 DEF SetRpath
  <2>3. QED
    BY <2>2 DEF PatchElf, a, b
<1> HIDE DEF c
<1> DEFINE old == SectionOf(c, ".dynstr")
<1>7. old \in ShdrType /\ old.size \in Nat /\ old.size > 0 /\ old.offset \in Nat
        /\ old.offset + old.size <= Len(c.bytes)
  <2>1. old \in ShdrType
    BY <1>4, SectionFound DEF Linked
  <2>2. QED
    BY <1>4, <2>1 DEF Linked, ShdrType
<1>8. /\ d \in ImageType /\ SameHeader(d, c) /\ Linked(d)
      /\ OneMore(d, c, "DT_RPATH", old.size)
      /\ SectionOf(d, ".dynstr").offset = Len(c.bytes)
      /\ SectionOf(d, ".dynstr").size = old.size + MAX_RPATH_LEN + 1
      /\ \A x \in 0..(Len(c.bytes) - 1) : Char(d, x) = Char(c, x)
      /\ CopiedTo(d, SectionOf(d, ".dynstr").offset, c, old.offset, old.size)
      /\ Holds(d, SectionOf(d, ".dynstr").offset + old.size, rpath)
      /\ Needed(d) = Needed(c)
  <2>1. PICK tag \in DynTags \ {"DT_NULL"} : tag = "DT_RPATH"
    BY DEF DynTags
  <2>2. d = AddStringEntry(c, tag, rpath) /\ tag # "DT_NEEDED"
    BY <2>1
  <2> HIDE DEF d, old
  <2>3. /\ d \in ImageType /\ SameHeader(d, c) /\ Linked(d)
        /\ OneMore(d, c, tag, SectionOf(c, ".dynstr").size)
        /\ SectionOf(d, ".dynstr").offset = Len(c.bytes)
        /\ SectionOf(d, ".dynstr").size = SectionOf(c, ".dynstr").size + Len(rpath) + 1
        /\ \A x \in 0..(Len(c.bytes) - 1) : Char(d, x) = Char(c, x)
        /\ CopiedTo(d, SectionOf(d, ".dynstr").offset, c, SectionOf(c, ".dynstr").offset,
                    SectionOf(c, ".dynstr").size)
        /\ Holds(d, SectionOf(d, ".dynstr").offset + SectionOf(c, ".dynstr").size, rpath)
        /\ Needed(d) = Needed(c) \cup (IF tag = "DT_NEEDED" THEN {rpath} ELSE {})
    BY <1>4, <2>2, StringEntryAdded
  <2>4. QED
    BY <2>1, <2>2, <2>3 DEF old
<1> HIDE DEF d
<1> DEFINE now == SectionOf(d, ".dynstr")
<1>9. Len(c.bytes) = end + MAX_INTERP_LEN + 1 /\ end \in Nat /\ MAX_INTERP_LEN \in Nat
        /\ MAX_RPATH_LEN \in Nat \ {0}
  BY <1>1, <1>3, <1>4, LengthsAssumption DEF ImageType
<1>10. HasRoom(d, 1)
  <2>1. d.dyn[1].val = old.size
    BY <1>8 DEF OneMore
  <2>2. Tagged(d, "DT_RPATH") = {1}
    BY <1>4, <1>8 DEF OneMore
  <2>3. old.size + MAX_RPATH_LEN < now.size
    BY <1>7, <1>8, <1>9
  <2>4. ASSUME NEW k \in 0..(MAX_RPATH_LEN - 1)
        PROVE  Char(d, now.offset + old.size + k) # NUL
    <3>1. now.offset \in Nat /\ old.size \in Nat
      BY <1>7, <1>8, <1>9
    <3> HIDE DEF now, old
    <3>2. PICK j \in 1..MAX_RPATH_LEN : now.offset + old.size + j - 1 = now.offset + old.size + k
      <4>1. k + 1 \in 1..MAX_RPATH_LEN /\ now.offset + old.size + (k + 1) - 1 = now.offset + old.size + k
        BY <1>9, <3>1
      <4>2. QED
        BY <4>1
    <3>3. QED
      BY <1>8, <3>2 DEF Holds, now, old
  <2>5. Char(d, now.offset + old.size + MAX_RPATH_LEN) = NUL
    BY <1>8 DEF Holds
  <2>6. ASSUME NEW i \in Tagged(d, "DT_NEEDED")
        PROVE  d.dyn[i].val + strlen(d, now.offset + d.dyn[i].val) < old.size
    <3>1. PICK j \in Tagged(c, "DT_NEEDED") : i = j + 1
      BY <1>8 DEF OneMore
    <3>2. d.dyn[i].val = c.dyn[j].val
      BY <1>4, <1>8, <3>1, TaggedRange DEF OneMore
    <3>3. elf_get_section_by_name(d, ".dynstr") # 0
      BY <1>8 DEF Linked
    <3>4. /\ c.dyn[j].val + strlen(c, old.offset + c.dyn[j].val) < old.size
          /\ strlen(d, now.offset + c.dyn[j].val) = strlen(c, old.offset + c.dyn[j].val)
      BY <1>4, <1>8, <3>2, <3>3, NeededMoved
    <3>5. QED
      BY <3>2, <3>4
  <2>7. QED
    BY <2>1, <2>2, <2>3, <2>4, <2>5, <2>6 DEF HasRoom
<1>11. /\ e \in ImageType /\ SameHeader(e, d) /\ e.bytes = d.bytes
       /\ SectionOf(e, ".dynstr") = SectionOf(d, ".dynstr")
       /\ OneMore(e, d, "DF_1_NODEFLIB", 0)
       /\ Linked(e) /\ Needed(e) = Needed(d)
  BY <1>8, NoDefaultLibAdded
<1> HIDE DEF e
<1>12. HasRoom(e, 1 + 1)
  <2>1. 1 \in 1..Len(d.dyn)
    BY <1>8, <1>10, TaggedRange DEF HasRoom
  <2>2. CopiedTo(e, SectionOf(e, ".dynstr").offset, d,
                 SectionOf(d, ".dynstr").offset, SectionOf(d, ".dynstr").size)
    BY <1>11 DEF CopiedTo, Char
  <2>3. SectionOf(e, ".dynstr").size >= SectionOf(d, ".dynstr").size
    BY <1>7, <1>8, <1>9, <1>11
  <2>4. QED
    BY <1>8, <1>10, <1>11, <2>1, <2>2, <2>3, RoomKept
<1>13. \E dt \in DOMAIN e.dyn : HasRoom(e, dt)
  <2>1. 1 + 1 \in Tagged(e, "DT_RPATH")
    BY <1>12 DEF HasRoom
  <2>2. 1 + 1 \in DOMAIN e.dyn
    BY <2>1 DEF Tagged
  <2>3. QED
    BY <1>12, <2>2
<1>14. Tagged(e, "DT_RUNPATH") = {} /\ OnlySearchPath(e)
  <2>1. Tagged(d, "DT_RUNPATH") = {}
    BY <1>5, <1>8 DEF OneMore
  <2>2. QED
    BY <1>11, <2>1 DEF OneMore, OnlySearchPath
<1>15. /\ elf_get_proghdr_by_type(e, "PT_INTERP") = at
       /\ e.phdrs[at].offset = end /\ e.phdrs[at].filesz = MAX_INTERP_LEN + 1
  <2>1. e.phdrs = b.phdrs /\ SameHeader(e, b)
    BY <1>4, <1>8, <1>11 DEF SameHeader
  <2>2. QED
    BY <1>3, <2>1, SameHeaderIndex
<1>16. Char(e, end + MAX_INTERP_LEN) = NUL
  <2>1. end + MAX_INTERP_LEN \in 0..(Len(c.bytes) - 1)
    BY <1>9
  <2>2. Char(d, end + MAX_INTERP_LEN) = Char(c, end + MAX_INTERP_LEN)
    BY <1>8, <2>1
  <2>3. Char(e, end + MAX_INTERP_LEN) = Char(d, end + MAX_INTERP_LEN)
    BY <1>11 DEF Char
  <2>4. Char(c, end + MAX_INTERP_LEN) = Char(b, end + MAX_INTERP_LEN)
    BY <1>4 DEF Char
  <2>5. QED
    BY <1>3, <2>2, <2>3, <2>4
<1>17. e.phdrs[at].offset + e.phdrs[at].filesz <= SectionOf(e, ".dynstr").offset
  <2>1. end + (MAX_INTERP_LEN + 1) <= Len(c.bytes)
    <3>1. end \in Nat /\ MAX_INTERP_LEN \in Nat /\ Len(c.bytes) = end + MAX_INTERP_LEN + 1
      BY <1>9
    <3> HIDE DEF end
    <3>2. QED
      BY <3>1
  <2>2. QED
    BY <1>8, <1>11, <1>15, <2>1
<1>18. IsPrepared(e)
  BY <1>2, <1>11, <1>13, <1>14, <1>15, <1>16, <1>17 DEF IsPrepared
<1>19. QED
  BY <1>1, <1>3, <1>4, <1>6, <1>8, <1>11, <1>18

LEMMA AddNeededIsPrepared ==
  ASSUME NEW image \in ImageType, IsPrepared(image), NEW lib \in Seq(Chars \ {NUL}),
         NEW new, new = AddNeeded(image, lib)
  PROVE  new \in ImageType /\ IsPrepared(new) /\ Needed(new) = Needed(image) \cup {lib}
<1> DEFINE at == elf_get_proghdr_by_type(image, "PT_INTERP")
           interp == image.phdrs[at]
           old == SectionOf(image, ".dynstr")
           now == SectionOf(new, ".dynstr")
<1>1. /\ at # 0 /\ interp.filesz = MAX_INTERP_LEN + 1
      /\ Char(image, interp.offset + MAX_INTERP_LEN) = NUL
      /\ interp.offset + interp.filesz <= old.offset
      /\ Linked(image) /\ Tagged(image, "DT_RUNPATH") = {} /\ OnlySearchPath(image)
  BY DEF IsPrepared
<1>2. PICK dt \in DOMAIN image.dyn : HasRoom(image, dt)
  BY DEF IsPrepared
<1>3. /\ new \in ImageType /\ SameHeader(new, image) /\ Linked(new)
      /\ OneMore(new, image, "DT_NEEDED", old.size)
      /\ now.offset = Len(image.bytes) /\ now.size = old.size + Len(lib) + 1
      /\ \A x \in 0..(Len(image.bytes) - 1) : Char(new, x) = Char(image, x)
      /\ CopiedTo(new, now.offset, image, old.offset, old.size)
      /\ Needed(new) = Needed(image) \cup {lib}
  <2>1. "DT_NEEDED" \in DynTags \ {"DT_NULL"} /\ new = AddStringEntry(image, "DT_NEEDED", lib)
    BY DEF DynTags, AddNeeded
  <2>2. QED
    BY <1>1, <2>1, StringEntryAdded
<1>4. /\ old.size \in Nat /\ old.size > 0 /\ old.offset \in Nat
      /\ old.offset + old.size <= Len(image.bytes) /\ Len(lib) \in Nat /\ Len(image.bytes) \in Nat
      /\ interp.offset \in Nat /\ MAX_INTERP_LEN \in Nat
  <2>1. old \in ShdrType /\ interp \in PhdrType
    BY <1>1, SectionFound, HeaderFound DEF Linked
  <2>2. QED
    <3>1. interp.offset \in Nat /\ old.size \in Nat /\ old.offset \in Nat
      BY <2>1 DEF ShdrType, PhdrType
    <3>2. old.size > 0 /\ old.offset + old.size <= Len(image.bytes)
      BY <1>1 DEF Linked
    <3>3. Len(lib) \in Nat /\ Len(image.bytes) \in Nat /\ MAX_INTERP_LEN \in Nat
      BY LengthsAssumption DEF ImageType
    <3>4. QED
      BY <3>1, <3>2, <3>3
<1>5. HasRoom(new, dt + 1)
  <2>1. dt \in 1..Len(image.dyn)
    BY DEF ImageType
  <2>2. now.size >= old.size
    BY <1>3, <1>4
  <2>3. QED
    BY <1>1, <1>2, <1>3, <1>4, <2>1, <2>2, RoomKept
<1>6. \E i \in DOMAIN new.dyn : HasRoom(new, i)
  <2>1. dt + 1 \in Tagged(new, "DT_RPATH")
    BY <1>5 DEF HasRoom
  <2>2. QED
    BY <1>5, <2>1 DEF Tagged
<1>7. Tagged(new, "DT_RUNPATH") = {} /\ OnlySearchPath(new)
  <2>1. \A t : t # "DT_NEEDED" => Tagged(new, t) = {i + 1 : i \in Tagged(image, t)}
    BY <1>3 DEF OneMore
  <2>2. Tagged(new, "DT_RUNPATH") = {}
    BY <1>1, <2>1
  <2>3. PICK i : i \in Tagged(image, "DF_1_NODEFLIB")
    BY <1>1 DEF OnlySearchPath
  <2>4. i + 1 \in Tagged(new, "DF_1_NODEFLIB")
    BY <2>1, <2>3
  <2>5. QED
    BY <2>2, <2>4 DEF OnlySearchPath
<1>8. elf_get_proghdr_by_type(new, "PT_INTERP") = at /\ new.phdrs[at] = interp
  BY <1>3, SameHeaderIndex DEF SameHeader
<1>9. Char(new, interp.offset + MAX_INTERP_LEN) = NUL
  <2>1. interp.offset + MAX_INTERP_LEN \in 0..(Len(image.bytes) - 1)
    <3>1. /\ interp.filesz = MAX_INTERP_LEN + 1 /\ interp.offset + interp.filesz <= old.offset
          /\ old.offset + old.size <= Len(image.bytes) /\ old.size > 0
      BY <1>1, <1>4
    <3>2. interp.offset \in Nat /\ MAX_INTERP_LEN \in Nat /\ old.offset \in Nat /\ old.size \in Nat
            /\ Len(image.bytes) \in Nat
      BY <1>4
    <3> HIDE DEF interp, old
    <3>3. interp.offset + MAX_INTERP_LEN < Len(image.bytes)
      BY <3>1, <3>2
    <3>4. QED
      BY <3>2, <3>3
  <2>2. QED
    BY <1>1, <1>3, <2>1
<1>10. interp.offset + interp.filesz <= now.offset
  <2>1. /\ interp.filesz = MAX_INTERP_LEN + 1 /\ interp.offset + interp.filesz <= old.offset
        /\ old.offset + old.size <= Len(image.bytes) /\ old.size > 0
        /\ now.offset = Len(image.bytes)
    BY <1>1, <1>3, <1>4
  <2> HIDE DEF interp, old, now
  <2>2. QED
    BY <1>4, <2>1
<1>11. QED
  BY <1>1, <1>3, <1>6, <1>7, <1>8, <1>9, <1>10 DEF IsPrepared

-----------------------------------------------------------------------------
(* Paths, the RPATH that is taken, and both placeholders.                  *)

LEMMA PathsTyped ==
  /\ INTERP_FILENAME \in Seq(Chars \ {NUL}) /\ Len(INTERP_FILENAME) = 1
  /\ LIBNSSFIX \in Seq(Chars \ {NUL})
  /\ \A p1, p2 \in Seq(Chars \ {NUL}) :
       path_join(p1, p2) \in Seq(Chars \ {NUL}) /\ path_join(p1, p2) \in Seq(Chars)
<1>1. "/" \in Chars \ {NUL} /\ "l" \in Chars \ {NUL} /\ "n" \in Chars \ {NUL}
  <2>1. "l" \in ToSet(INTERP_FILENAME) /\ "n" \in ToSet(LIBNSSFIX)
    BY DEF ToSet, INTERP_FILENAME, LIBNSSFIX
  <2>2. QED
    BY <2>1, CharsAssumption DEF NUL
<1>2. <<"/">> \in Seq(Chars \ {NUL}) /\ <<"l">> \in Seq(Chars \ {NUL}) /\ <<"n">> \in Seq(Chars \ {NUL})
  BY <1>1
<1>3. ASSUME NEW p1 \in Seq(Chars \ {NUL}), NEW p2 \in Seq(Chars \ {NUL})
      PROVE  path_join(p1, p2) \in Seq(Chars \ {NUL}) /\ path_join(p1, p2) \in Seq(Chars)
  <2>1. p1 \o <<"/">> \in Seq(Chars \ {NUL})
    BY <1>2, ConcatProperties
  <2>2. (p1 \o <<"/">>) \o p2 \in Seq(Chars \ {NUL})
    BY <2>1, ConcatProperties
  <2>3. QED
    BY <2>2 DEF path_join
<1>4. QED
  BY <1>2, <1>3 DEF INTERP_FILENAME, LIBNSSFIX

LEMMA PlaceholdersTyped ==
  /\ Placeholder("i", MAX_INTERP_LEN) \in Seq(Chars \ {NUL})
  /\ Len(Placeholder("i", MAX_INTERP_LEN)) = MAX_INTERP_LEN
  /\ Placeholder("r", MAX_RPATH_LEN) \in Seq(Chars \ {NUL})
  /\ Len(Placeholder("r", MAX_RPATH_LEN)) = MAX_RPATH_LEN
<1>1. "i" \in Chars \ {NUL} /\ "r" \in Chars \ {NUL} /\ MAX_INTERP_LEN \in Nat /\ MAX_RPATH_LEN \in Nat
  BY CharsAssumption, LengthsAssumption DEF NUL
<1>2. ASSUME NEW char \in Chars \ {NUL}, NEW n \in Nat
      PROVE  Placeholder(char, n) \in Seq(Chars \ {NUL}) /\ Len(Placeholder(char, n)) = n
  <2>1. Placeholder(char, n) \in [1..n -> Chars \ {NUL}]
    BY DEF Placeholder
  <2>2. QED
    BY <2>1, SeqDef, LenProperties
<1>3. QED
  BY <1>1, <1>2

LEMMA NatMax ==
  ASSUME NEW n \in Nat, NEW T, T \subseteq 1..n, T # {}
  PROVE  Max(T) \in T
<1> DEFINE U == {u \in Nat : \A k \in T : k <= u}
<1>1. n \in U
  OBVIOUS
<1>2. PICK m \in U : \A u \in U : m <= u
  <2>1. U \subseteq Nat /\ U # {}
    BY <1>1
  <2>2. QED
    BY <2>1, NatMin
<1>3. m \in T
  <2>1. SUFFICES ASSUME m \notin T PROVE FALSE
    OBVIOUS
  <2>2. m # 0
    <3>1. PICK k : k \in T
      OBVIOUS
    <3>2. k \in 1..n /\ m \in Nat /\ k <= m
      BY <3>1
    <3>3. QED
      BY <3>2
  <2>3. m - 1 \in U
    <3>1. m - 1 \in Nat
      BY <2>2
    <3>2. ASSUME NEW k \in T
          PROVE  k <= m - 1
      <4>1. k <= m /\ k # m /\ k \in Nat
        BY <2>1
      <4>2. QED
        BY <3>1, <4>1
    <3>3. QED
      BY <3>1, <3>2
  <2>4. QED
    BY <1>2, <2>3
<1>4. QED
  BY <1>3 DEF Max

LEMMA DtRpathFound ==
  ASSUME NEW image \in ImageType, NEW n \in Nat, DtRpath(image, n) # 0
  PROVE  DtRpath(image, n) \in Tagged(image, "DT_RPATH")
<1> DEFINE found == {i \in Tagged(image, "DT_RPATH") : i <= n}
<1>1. found # {} /\ DtRpath(image, n) = Max(found)
  BY DEF DtRpath
<1>2. found \subseteq 1..Len(image.dyn) /\ Len(image.dyn) \in Nat
  BY DEF Tagged, ImageType
<1>3. Max(found) \in found
  BY <1>1, <1>2, NatMax
<1>4. QED
  BY <1>1, <1>3

\* Where set_rpath() writes is in an image, whatever image it is.
LEMMA RpathTyped ==
  ASSUME NEW image \in ImageType,
         elf_get_section_by_name(image, ".dynamic") # 0,
         elf_get_section_by_name(image, ".dynstr") # 0,
         DtRpath(image, SectionOf(image, ".dynamic").size) # 0
  PROVE  Rpath(image) \in Nat
<1>1. SectionOf(image, ".dynamic") \in ShdrType /\ SectionOf(image, ".dynstr") \in ShdrType
  BY SectionFound
<1>2. SectionOf(image, ".dynamic").size \in Nat /\ SectionOf(image, ".dynstr").offset \in Nat
  BY <1>1 DEF ShdrType
<1>3. DtRpath(image, SectionOf(image, ".dynamic").size) \in Tagged(image, "DT_RPATH")
  BY <1>2, DtRpathFound
<1>4. image.dyn[DtRpath(image, SectionOf(image, ".dynamic").size)].val \in Nat
  BY <1>3, TaggedRange
<1>5. QED
  BY <1>2, <1>4 DEF Rpath

\* In what staticx has packed that is the placeholder.
LEMMA PreparedRpath ==
  ASSUME NEW image \in ImageType, IsPrepared(image)
  PROVE  LET dt == DtRpath(image, SectionOf(image, ".dynamic").size)
             dynstr == SectionOf(image, ".dynstr")
         IN  /\ dt # 0 /\ dt \in Tagged(image, "DT_RPATH") /\ HasRoom(image, dt)
             /\ elf_get_section_by_name(image, ".dynamic") # 0
             /\ elf_get_section_by_name(image, ".dynstr") # 0
             /\ dynstr.offset \in Nat /\ dynstr.size \in Nat
             /\ image.dyn[dt].val \in Nat /\ image.dyn[dt].val + MAX_RPATH_LEN < dynstr.size
             /\ Rpath(image) = dynstr.offset + image.dyn[dt].val
             /\ Rpath(image) + MAX_RPATH_LEN < Len(image.bytes)
             /\ Ends(image, Rpath(image), MAX_RPATH_LEN)
<1>1. PICK dt \in DOMAIN image.dyn : HasRoom(image, dt)
  BY DEF IsPrepared
<1>2. /\ Linked(image) /\ elf_get_section_by_name(image, ".dynamic") # 0
      /\ elf_get_section_by_name(image, ".dynstr") # 0
      /\ SectionOf(image, ".dynamic").size = Len(image.dyn)
  BY DEF IsPrepared, Linked
<1>3. Tagged(image, "DT_RPATH") = {dt} /\ dt \in 1..Len(image.dyn) /\ dt \in Nat /\ image.dyn[dt].val \in Nat
  BY <1>1, TaggedRange DEF HasRoom
<1>4. DtRpath(image, SectionOf(image, ".dynamic").size) = dt
  <2>1. {i \in Tagged(image, "DT_RPATH") : i <= Len(image.dyn)} = {dt}
    BY <1>3
  <2>2. QED
    BY <1>2, <1>3, <2>1, MaxOfOne DEF DtRpath
<1> DEFINE dynstr == SectionOf(image, ".dynstr")
           val == image.dyn[dt].val
<1>5. dynstr.offset \in Nat /\ dynstr.size \in Nat /\ dynstr.offset + dynstr.size <= Len(image.bytes)
  <2>1. dynstr \in ShdrType
    BY <1>2, SectionFound
  <2>2. QED
    BY <1>2, <2>1 DEF ShdrType, Linked
<1>6. Rpath(image) = dynstr.offset + val
  BY <1>4 DEF Rpath
<1>7. val + MAX_RPATH_LEN < dynstr.size
  BY <1>1 DEF HasRoom
<1>8. Ends(image, Rpath(image), MAX_RPATH_LEN)
  BY <1>1, <1>6 DEF HasRoom, Ends
<1>9. dynstr.offset + val + MAX_RPATH_LEN < Len(image.bytes)
  <2>1. Len(image.bytes) \in Nat /\ MAX_RPATH_LEN \in Nat /\ val \in Nat
    BY <1>3, LengthsAssumption DEF ImageType
  <2> HIDE DEF dynstr, val
  <2>2. QED
    BY <1>5, <1>7, <2>1
<1>10. QED
  BY <1>1, <1>2, <1>3, <1>4, <1>5, <1>6, <1>7, <1>8, <1>9

\* A path that fits the interpreter's placeholder does not reach the table of strings.
LEMMA InterpApart ==
  ASSUME NEW image \in ImageType, IsPrepared(image),
         NEW path \in Seq(Chars), Len(path) <= MAX_INTERP_LEN,
         NEW new,
         new = strcpy(image, image.phdrs[elf_get_proghdr_by_type(image, "PT_INTERP")].offset, path)
  PROVE  /\ new \in ImageType /\ SameTables(new, image) /\ Len(new.bytes) = Len(image.bytes)
         /\ \A x \in Nat : x >= SectionOf(image, ".dynstr").offset => Char(new, x) = Char(image, x)
         /\ strlen(new, Rpath(image)) = MAX_RPATH_LEN
<1> DEFINE at == elf_get_proghdr_by_type(image, "PT_INTERP")
           interp == image.phdrs[at]
           dynstr == SectionOf(image, ".dynstr")
<1>1. /\ at # 0 /\ interp.filesz = MAX_INTERP_LEN + 1
      /\ interp.offset + interp.filesz <= dynstr.offset
  BY DEF IsPrepared
<1>2. interp.offset \in Nat /\ dynstr.offset \in Nat /\ MAX_INTERP_LEN \in Nat
        /\ MAX_RPATH_LEN \in Nat /\ Len(path) \in Nat
  <2>1. interp \in PhdrType
    BY <1>1, HeaderFound
  <2>2. QED
    BY <2>1, PreparedRpath, LengthsAssumption DEF PhdrType
<1>3. new \in ImageType /\ SameTables(new, image) /\ Len(new.bytes) = Len(image.bytes)
  BY <1>2, StrcpyBytes
<1>4. ASSUME NEW x \in Nat, x >= dynstr.offset
      PROVE  Char(new, x) = Char(image, x)
  <2>1. x > interp.offset + Len(path)
    BY <1>1, <1>2, <1>4
  <2>2. QED
    BY <1>2, <2>1, StrcpyElsewhere
<1>5. Rpath(image) \in Nat /\ Rpath(image) >= dynstr.offset /\ Ends(image, Rpath(image), MAX_RPATH_LEN)
  <2>1. /\ Rpath(image) = dynstr.offset + image.dyn[DtRpath(image, SectionOf(image, ".dynamic").size)].val
        /\ image.dyn[DtRpath(image, SectionOf(image, ".dynamic").size)].val \in Nat
        /\ Ends(image, Rpath(image), MAX_RPATH_LEN)
    BY PreparedRpath
  <2> HIDE DEF dynstr
  <2>2. QED
    BY <1>2, <2>1
<1>6. \A k \in 0..MAX_RPATH_LEN : Char(new, Rpath(image) + k) = Char(image, Rpath(image) + k)
  <2>1. ASSUME NEW k \in 0..MAX_RPATH_LEN
        PROVE  Rpath(image) + k \in Nat /\ Rpath(image) + k >= dynstr.offset
    <3>1. dynstr.offset \in Nat /\ Rpath(image) \in Nat /\ Rpath(image) >= dynstr.offset /\ k \in Nat
      BY <1>2, <1>5
    <3> HIDE DEF dynstr
    <3>2. QED
      BY <3>1
  <2>2. QED
    BY <1>4, <2>1
<1>7. Ends(new, Rpath(image), MAX_RPATH_LEN)
  BY <1>2, <1>5, <1>6 DEF Ends
<1>8. strlen(new, Rpath(image)) = MAX_RPATH_LEN
  <2>1. new.bytes \in Seq(Chars)
    BY <1>3 DEF ImageType
  <2>2. QED
    BY <1>2, <1>5, <1>7, <2>1, StrlenIs
<1>9. QED
  BY <1>3, <1>4, <1>8

-----------------------------------------------------------------------------
(* The inductive invariant.                                                *)

\* The program that is still to be written to is the packed one, but for its interpreter.
LEMMA InterpWrittenTyped ==
  ASSUME IInv, InterpWritten
  PROVE  WithInterp \in ImageType /\ SameTables(WithInterp, tmpprog)
           /\ Len(WithInterp.bytes) = Len(tmpprog.bytes)
<1> DEFINE ph == tmpprog.phdrs[elf_get_proghdr_by_type(tmpprog, "PT_INTERP")]
           path == path_join(dir, INTERP_FILENAME)
<1>1. tmpprog \in ImageType /\ dir \in Seq(Chars \ {NUL})
  BY DEF IInv, TypeOK, InOrder
<1>2. ph.offset \in Nat
  <2>1. ph \in PhdrType
    BY <1>1, HeaderFound DEF InterpWritten
  <2>2. QED
    BY <2>1 DEF PhdrType
<1>3. path \in Seq(Chars)
  BY <1>1, PathsTyped
<1> HIDE DEF ph, path
<1>4. /\ strcpy(tmpprog, ph.offset, path) \in ImageType
      /\ SameTables(strcpy(tmpprog, ph.offset, path), tmpprog)
      /\ Len(strcpy(tmpprog, ph.offset, path).bytes) = Len(tmpprog.bytes)
  BY <1>1, <1>2, <1>3, StrcpyBytes
<1>5. QED
  BY <1>4 DEF WithInterp, ph, path

LEMMA InitIInv ==
  Init => IInv
<1> SUFFICES ASSUME Init PROVE IInv
  OBVIOUS
<1>1. TypeOK
  <2>1. tmpprog \in ImageType /\ prog \in ImageType
    BY ProgramsAssumption DEF Init
  <2>2. dir \in Seq(Chars)
    BY DEF Init
  <2>3. launched \in 0..Launches
    BY LengthsAssumption DEF Init
  <2>4. QED
    BY <2>1, <2>2, <2>3 DEF Init, TypeOK
<1>2. InOrder
  BY DEF Init, InOrder
<1>3. Packed /\ Patched /\ StartsIffItFits
  BY DEF Init, Packed, Patched, StartsIffItFits
<1>4. QED
  BY <1>1, <1>2, <1>3 DEF IInv

\* What staticx does to the copy.
LEMMA FixupProgKeeps ==
  ASSUME IInv, FixupProg
  PROVE  IInv'
<1> USE DEF FixupProg, Goto, generated, launch
<1>1. /\ tmpprog = orig_prog /\ orig_prog \in Programs /\ made = "plain" /\ launched = 0
      /\ tmpprog \in ImageType
      /\ elf_get_proghdr_by_type(tmpprog, "PT_INTERP") # 0
  BY DEF IInv, InOrder, TypeOK
<1>2. Linked(tmpprog)
  BY <1>1, LinkedAssumption
<1>3. tmpprog' \in ImageType /\ IsPrepared(tmpprog') /\ Needed(tmpprog') = Needed(tmpprog)
  <2>1. tmpprog' = PatchElf(tmpprog, Placeholder("i", MAX_INTERP_LEN), Placeholder("r", MAX_RPATH_LEN))
    OBVIOUS
  <2>2. QED
    BY <1>1, <1>2, <2>1, PlaceholdersTyped, PatchedElfIsPrepared
<1>4. TypeOK'
  BY <1>3 DEF IInv, TypeOK
<1>5. InOrder'
  BY <1>1 DEF IInv, InOrder
<1>6. Packed'
  BY <1>1, <1>3 DEF Packed
<1>7. Patched' /\ StartsIffItFits'
  BY <1>1 DEF Patched, StartsIffItFits
<1>8. QED
  BY <1>4, <1>5, <1>6, <1>7 DEF IInv

LEMMA RunHooksKeeps ==
  ASSUME IInv, RunHooks
  PROVE  IInv'
<1> USE DEF RunHooks, Goto, launch
<1>1. made = "plain" /\ launched = 0 /\ tmpprog \in ImageType
  BY DEF IInv, InOrder, TypeOK
<1>2. IsPrepared(tmpprog) /\ Needed(tmpprog) = Needed(orig_prog)
  BY <1>1 DEF IInv, Packed
<1>3. /\ tmpprog' \in ImageType /\ made' \in {"plain", "glibc"} /\ IsPrepared(tmpprog')
      /\ Needed(tmpprog') = Needed(orig_prog) \cup (IF made' = "glibc" THEN {LIBNSSFIX} ELSE {})
  <2>1. CASE made' = "glibc" /\ tmpprog' = AddNeeded(tmpprog, LIBNSSFIX)
    BY <1>1, <1>2, <2>1, PathsTyped, AddNeededIsPrepared
  <2>2. CASE UNCHANGED <<made, tmpprog>>
    BY <1>1, <1>2, <2>2
  <2>3. QED
    BY <2>1, <2>2
<1>4. TypeOK'
  BY <1>3 DEF IInv, TypeOK
<1>5. InOrder'
  BY <1>1, <1>3 DEF IInv, InOrder
<1>6. Packed'
  BY <1>3 DEF Packed
<1>7. Patched' /\ StartsIffItFits'
  BY <1>1 DEF Patched, StartsIffItFits
<1>8. QED
  BY <1>4, <1>5, <1>6, <1>7 DEF IInv

\* What does not fit is longer than the placeholder.
LEMMA InterpTooLong ==
  ASSUME NEW ph, NEW path, Len(path) \in Nat,
         ph.filesz = MAX_INTERP_LEN + 1, ~InterpFits(ph, path)
  PROVE  Len(path) > MAX_INTERP_LEN
<1>1. MAX_INTERP_LEN \in Nat
  BY LengthsAssumption
<1>2. ~(Len(path) <= (MAX_INTERP_LEN + 1) - 1)
  BY DEF InterpFits
<1>3. QED
  BY <1>1, <1>2

\* What set_interp() does and says.
LEMMA SetInterpKeeps ==
  ASSUME IInv, SetInterp
  PROVE  IInv'
<1> DEFINE path == path_join(dir, INTERP_FILENAME)
           at == elf_get_proghdr_by_type(prog, "PT_INTERP")
           ph == prog.phdrs[at]
<1>1. /\ pc = "set_interp" /\ prog = tmpprog /\ tmpprog \in ImageType /\ launched > 0
      /\ dir \in Seq(Chars \ {NUL}) /\ path \in Seq(Chars)
  BY PathsTyped, Zenon DEF SetInterp, IInv, InOrder, Patched, TypeOK
<1>2. UNCHANGED <<generated, dir, launched>>
  BY Zenon DEF SetInterp, Patch
<1>3. \/ /\ prog.phentsize = PHDR /\ at # 0
         /\ Char(prog, ph.offset + ph.filesz - 1) = NUL
         /\ InterpFits(ph, path)
         /\ pc' = "set_rpath" /\ prog' = strcpy(prog, ph.offset, path) /\ UNCHANGED <<map, message>>
      \/ /\ pc' = "ended" /\ prog' = prog /\ UNCHANGED map
         /\ \/ prog.phentsize # PHDR /\ message' = "ELF file disagrees with program header size"
            \/ at = 0 /\ message' = "Failed to find PT_INTERP header"
            \/ Char(prog, ph.offset + ph.filesz - 1) # NUL
                 /\ message' = "Current INTERP not NUL terminated"
            \/ ~InterpFits(ph, path) /\ message' = "Current INTERP too small"
  BY Zenon DEF SetInterp, Patch, Goto, Error
<1>4. CASE /\ at # 0 /\ Char(prog, ph.offset + ph.filesz - 1) = NUL
           /\ InterpFits(ph, path)
           /\ pc' = "set_rpath" /\ prog' = strcpy(prog, ph.offset, path) /\ UNCHANGED <<map, message>>
  <2>1. ph \in PhdrType /\ ph.offset \in Nat /\ ph.filesz \in Nat /\ Len(path) \in Nat
    <3>1. ph \in PhdrType
      BY <1>1, <1>4, HeaderFound
    <3>2. QED
      BY <1>1, <3>1 DEF PhdrType
  <2>2. Len(path) <= ph.filesz - 1
    BY <1>4 DEF InterpFits
  <2>3. (InterpWritten /\ prog = WithInterp)'
    BY <1>1, <1>2, <1>4, <2>2 DEF generated, InterpWritten, WithInterp
  <2>4. prog' \in ImageType
    BY <1>1, <1>4, <2>1, StrcpyBytes
  <2>5. TypeOK'
    BY <1>1, <1>2, <1>4, <2>4 DEF generated, IInv, TypeOK
  <2>6. InOrder' /\ Packed'
    BY <1>1, <1>2, <1>4 DEF generated, IInv, InOrder, Packed
  <2>7. Patched'
    BY <1>4, <2>3 DEF Patched
  <2>8. StartsIffItFits'
    BY <1>4 DEF StartsIffItFits
  <2>9. QED
    BY <2>5, <2>6, <2>7, <2>8 DEF IInv
<1>5. CASE /\ pc' = "ended" /\ prog' = prog /\ UNCHANGED map
           /\ \/ prog.phentsize # PHDR /\ message' = "ELF file disagrees with program header size"
              \/ at = 0 /\ message' = "Failed to find PT_INTERP header"
              \/ Char(prog, ph.offset + ph.filesz - 1) # NUL
                   /\ message' = "Current INTERP not NUL terminated"
              \/ ~InterpFits(ph, path) /\ message' = "Current INTERP too small"
  <2>1. ASSUME made # "odd"
        PROVE  Len(path) > MAX_INTERP_LEN /\ message' = "Current INTERP too small"
    <3>1. /\ prog.phentsize = PHDR /\ at # 0 /\ ph.filesz = MAX_INTERP_LEN + 1
          /\ Char(prog, ph.offset + MAX_INTERP_LEN) = NUL
      BY <1>1, <2>1 DEF IInv, Packed, IsPrepared, Linked
    <3>2. ph.offset \in Nat /\ MAX_INTERP_LEN \in Nat
      <4>1. ph \in PhdrType
        BY <1>1, <3>1, HeaderFound
      <4>2. QED
        BY <4>1, LengthsAssumption DEF PhdrType
    <3>3. ph.offset + ph.filesz - 1 = ph.offset + MAX_INTERP_LEN /\ ph.filesz - 1 = MAX_INTERP_LEN
      <4> HIDE DEF ph
      <4>1. QED
        BY <3>1, <3>2
    <3>4. ~InterpFits(ph, path) /\ message' = "Current INTERP too small"
      BY <1>5, <3>1, <3>3, Zenon
    <3>5. Len(path) \in Nat
      BY <1>1
    <3>6. Len(path) > MAX_INTERP_LEN
      BY <3>1, <3>4, <3>5, InterpTooLong
    <3>7. QED
      BY <3>4, <3>6
  <2>2. message' # "none" /\ message' # "Failed to open, stat or mmap"
    BY <1>5, Zenon
  <2>3. TypeOK'
    BY <1>1, <1>2, <1>5, <2>2, Zenon DEF generated, IInv, TypeOK
  <2>4. InOrder' /\ Packed' /\ Patched'
    BY <1>1, <1>2, <1>5, Zenon DEF generated, IInv, InOrder, Packed, Patched
  <2>5. StartsIffItFits'
    <3>1. MAX_INTERP_LEN \in Nat /\ Len(path) \in Nat
      BY <1>1, LengthsAssumption
    <3>2. made' # "odd" => ~(Len(path) <= MAX_INTERP_LEN) /\ message' = "Current INTERP too small"
      <4>1. made' = made
        BY <1>2 DEF generated
      <4>2. made # "odd" => Len(path) > MAX_INTERP_LEN /\ message' = "Current INTERP too small"
        BY <2>1, Zenon
      <4> HIDE DEF path
      <4>3. Len(path) > MAX_INTERP_LEN => ~(Len(path) <= MAX_INTERP_LEN)
        BY <3>1
      <4>4. QED
        BY <4>1, <4>2, <4>3, Zenon
    <3>3. QED
      BY <1>2, <1>5, <3>2, Zenon DEF StartsIffItFits
  <2>6. QED
    BY <2>3, <2>4, <2>5 DEF IInv
<1>6. QED
  BY <1>3, <1>4, <1>5, Zenon

\* What set_rpath() does and says.
LEMMA SetRpathKeeps ==
  ASSUME IInv, SetRpathOfProg
  PROVE  IInv'
<1> DEFINE dynamic == elf_get_section_by_name(prog, ".dynamic")
           at == elf_get_section_by_name(prog, ".dynstr")
           dynstr == prog.shdrs[at]
           dt_rpath == DtRpath(prog, prog.shdrs[dynamic].size)
           val == prog.dyn[dt_rpath].val
           path == path_join(dir, INTERP_FILENAME)
<1>1. /\ pc = "set_rpath" /\ prog = WithInterp /\ InterpWritten /\ launched > 0
      /\ prog \in ImageType /\ tmpprog \in ImageType /\ SameTables(prog, tmpprog)
      /\ dir \in Seq(Chars \ {NUL}) /\ dir \in Seq(Chars) /\ path \in Seq(Chars)
  BY InterpWrittenTyped, PathsTyped, Zenon DEF SetRpathOfProg, IInv, InOrder, Patched, TypeOK
<1>2. UNCHANGED <<generated, dir, launched>>
  BY Zenon DEF SetRpathOfProg, Patch
<1>3. \/ /\ prog.shentsize = PHDR /\ dynamic # 0 /\ at # 0 /\ dt_rpath # 0
         /\ ~(val > dynstr.size) /\ RpathFits(dynstr, val)
         /\ pc' = "unmap_file" /\ prog' = strcpy(prog, dynstr.offset + val, dir)
         /\ UNCHANGED <<map, message>>
      \/ /\ pc' = "ended" /\ prog' = prog /\ UNCHANGED map
         /\ \/ prog.shentsize # PHDR /\ message' = "ELF file disagrees with section size"
            \/ (dynamic = 0 \/ at = 0) /\ message' = "Failed to find .dynamic section"
            \/ dt_rpath = 0 /\ message' = "Couldn't find DT_RPATH tag"
            \/ val > dynstr.size /\ message' = "RPATH outside of dynamic strtab!"
            \/ ~RpathFits(dynstr, val) /\ message' = "Current RPATH too small"
  BY Zenon DEF SetRpathOfProg, Patch, Goto, Error
<1>4. /\ \A name : elf_get_section_by_name(tmpprog, name) = elf_get_section_by_name(prog, name)
      /\ \A name : SectionOf(tmpprog, name) = SectionOf(prog, name)
      /\ \A n \in Nat : DtRpath(tmpprog, n) = DtRpath(prog, n)
      /\ tmpprog.dyn = prog.dyn
  BY <1>1, SameIndices DEF SameTables
<1>5. SectionOf(prog, ".dynamic").size = prog.shdrs[dynamic].size /\ SectionOf(prog, ".dynstr") = dynstr
  BY DEF SectionOf
<1>6. ASSUME dynamic # 0
      PROVE  DtRpath(tmpprog, SectionOf(tmpprog, ".dynamic").size) = dt_rpath
  <2>1. SectionOf(prog, ".dynamic").size \in Nat
    <3>1. SectionOf(prog, ".dynamic") \in ShdrType
      BY <1>1, <1>6, SectionFound
    <3>2. QED
      BY <3>1 DEF ShdrType
  <2>2. QED
    BY <1>4, <1>5, <2>1
<1>7. ASSUME dynamic # 0
      PROVE  Rpath(tmpprog) = dynstr.offset + val
  <2>1. Rpath(tmpprog) = SectionOf(tmpprog, ".dynstr").offset + tmpprog.dyn[dt_rpath].val
    BY <1>6, <1>7 DEF Rpath
  <2>2. SectionOf(tmpprog, ".dynstr") = dynstr /\ tmpprog.dyn[dt_rpath].val = val
    BY <1>4, <1>5, SMTT(30)
  <2> HIDE DEF dynstr, val
  <2>3. QED
    BY <2>1, <2>2
<1>8. CASE /\ dynamic # 0 /\ at # 0 /\ dt_rpath # 0
           /\ ~(val > dynstr.size) /\ RpathFits(dynstr, val)
           /\ pc' = "unmap_file" /\ prog' = strcpy(prog, dynstr.offset + val, dir)
           /\ UNCHANGED <<map, message>>
  <2>1. /\ dynamic # 0 /\ at # 0 /\ dt_rpath # 0
        /\ ~(val > dynstr.size) /\ RpathFits(dynstr, val)
    BY <1>8, Zenon
  <2>2. pc' = "unmap_file" /\ UNCHANGED map /\ UNCHANGED message
    BY <1>8, Zenon
  <2>3. prog' = strcpy(prog, dynstr.offset + val, dir)
    BY <1>8, Zenon
  <2>4. /\ elf_get_section_by_name(prog, ".dynamic") = dynamic
        /\ elf_get_section_by_name(prog, ".dynstr") = at
        /\ DtRpath(prog, SectionOf(prog, ".dynamic").size) = dt_rpath
        /\ SectionOf(prog, ".dynstr") = dynstr /\ prog.dyn[dt_rpath].val = val
    BY DEF SectionOf
  <2>5. /\ DtRpath(tmpprog, SectionOf(tmpprog, ".dynamic").size) = dt_rpath
        /\ Rpath(tmpprog) = dynstr.offset + val
    BY <1>6, <1>7, <2>1
  <2> HIDE DEF dynamic, at, dynstr, dt_rpath, val, path
  <2>6. /\ elf_get_section_by_name(tmpprog, ".dynamic") # 0
        /\ elf_get_section_by_name(tmpprog, ".dynstr") # 0
        /\ DtRpath(tmpprog, SectionOf(tmpprog, ".dynamic").size) # 0
    BY <1>4, <2>1, <2>4, <2>5
  <2>7. Rpath(tmpprog) \in Nat
    BY <1>1, <2>6, RpathTyped
  <2>8. prog' = strcpy(WithInterp, Rpath(tmpprog), dir) /\ prog' \in ImageType
    <3>1. prog' = strcpy(prog, Rpath(tmpprog), dir)
      BY <2>3, <2>5
    <3>2. strcpy(prog, Rpath(tmpprog), dir) \in ImageType
      BY <1>1, <2>7, StrcpyBytes
    <3>3. QED
      BY <1>1, <3>1, <3>2
  <2>9. RpathWritten
    <3>1. SectionOf(tmpprog, ".dynstr") = dynstr
      BY <1>4, <2>4
    <3>2. dynstr.offset + val <= dynstr.offset + dynstr.size
      <4>1. SectionOf(prog, ".dynamic") \in ShdrType /\ dynstr \in ShdrType
        BY <1>1, <2>1, <2>4, SectionFound
      <4>2. SectionOf(prog, ".dynamic").size \in Nat /\ dynstr.offset \in Nat /\ dynstr.size \in Nat
        BY <4>1 DEF ShdrType
      <4>3. dt_rpath \in Tagged(prog, "DT_RPATH")
        BY <1>1, <2>1, <2>4, <4>2, DtRpathFound
      <4>4. val \in Nat
        BY <1>1, <2>4, <4>3, TaggedRange
      <4>5. QED
        BY <2>1, <4>2, <4>4
    <3>3. Len(dir) <= strlen(WithInterp, Rpath(tmpprog))
      BY <1>1, <2>1, <2>5 DEF RpathFits
    <3>4. QED
      BY <2>5, <2>6, <3>1, <3>2, <3>3 DEF RpathWritten
  <2>10. (InterpWritten /\ RpathWritten /\ prog = strcpy(WithInterp, Rpath(tmpprog), dir))'
    <3>1. UNCHANGED <<tmpprog, dir>>
      BY <1>2 DEF generated
    <3>2. QED
      BY <1>1, <2>8, <2>9, <3>1 DEF InterpWritten, RpathWritten, WithInterp
  <2>11. TypeOK'
    <3>1. UNCHANGED <<tmpprog, made, dir, launched>>
      BY <1>2 DEF generated
    <3>2. TypeOK /\ pc = "set_rpath"
      BY <1>1 DEF IInv
    <3>3. QED
      BY <2>2, <2>8, <3>1, <3>2 DEF TypeOK
  <2>12. InOrder' /\ Packed'
    BY <1>1, <1>2, <2>2 DEF generated, IInv, InOrder, Packed
  <2>13. Patched'
    BY <2>2, <2>10 DEF Patched
  <2>14. StartsIffItFits'
    BY <2>2 DEF StartsIffItFits
  <2>15. QED
    BY <2>11, <2>12, <2>13, <2>14 DEF IInv
<1>9. CASE /\ pc' = "ended" /\ prog' = prog /\ UNCHANGED map
           /\ \/ prog.shentsize # PHDR /\ message' = "ELF file disagrees with section size"
              \/ (dynamic = 0 \/ at = 0) /\ message' = "Failed to find .dynamic section"
              \/ dt_rpath = 0 /\ message' = "Couldn't find DT_RPATH tag"
              \/ val > dynstr.size /\ message' = "RPATH outside of dynamic strtab!"
              \/ ~RpathFits(dynstr, val) /\ message' = "Current RPATH too small"
  <2>1. ASSUME made # "odd"
        PROVE  ~(Len(dir) <= MAX_RPATH_LEN) /\ message' = "Current RPATH too small"
    <3>1. IsPrepared(tmpprog)
      BY <1>1, <2>1 DEF IInv, Packed
    <3>2. prog.shentsize = PHDR
      BY <1>1, <3>1 DEF SameTables, IsPrepared, Linked
    <3>3. dynamic # 0 /\ at # 0 /\ dt_rpath # 0
      BY <1>1, <1>4, <1>6, <3>1, PreparedRpath
    <3>4. ~(val > dynstr.size)
      <4>1. /\ val \in Nat /\ dynstr.size \in Nat /\ val + MAX_RPATH_LEN < dynstr.size
            /\ MAX_RPATH_LEN \in Nat
        BY <1>1, <1>4, <1>5, <1>6, <3>1, <3>3, PreparedRpath, LengthsAssumption
      <4> HIDE DEF val, dynstr
      <4>2. QED
        BY <4>1
    <3>5. strlen(prog, dynstr.offset + val) = MAX_RPATH_LEN
      <4>1. Len(path) <= MAX_INTERP_LEN
        <5>1. tmpprog.phdrs[elf_get_proghdr_by_type(tmpprog, "PT_INTERP")].filesz - 1 = MAX_INTERP_LEN
          BY <3>1, LengthsAssumption DEF IsPrepared
        <5>2. QED
          BY <1>1, <5>1 DEF InterpWritten
      <4>2. strlen(WithInterp, Rpath(tmpprog)) = MAX_RPATH_LEN
        BY <1>1, <3>1, <4>1, InterpApart DEF WithInterp
      <4>3. QED
        BY <1>1, <1>7, <3>3, <4>2
    <3>6. QED
      BY <1>9, <3>2, <3>3, <3>4, <3>5, Zenon DEF RpathFits
  <2>2. message' # "none" /\ message' # "Failed to open, stat or mmap"
    BY <1>9, Zenon
  <2>3. TypeOK'
    BY <1>1, <1>2, <1>9, <2>2, Zenon DEF generated, IInv, TypeOK
  <2>4. InOrder' /\ Packed' /\ Patched'
    BY <1>1, <1>2, <1>9, Zenon DEF generated, IInv, InOrder, Packed, Patched
  <2>5. StartsIffItFits'
    BY <1>2, <1>9, <2>1, Zenon DEF StartsIffItFits, generated
  <2>6. QED
    BY <2>3, <2>4, <2>5 DEF IInv
<1>10. QED
  BY <1>3, <1>8, <1>9, Zenon

\* What runs fits: both paths were written.
LEMMA WrittenFits ==
  ASSUME IInv, pc = "unmap_file", made # "odd"
  PROVE  Len(path_join(dir, INTERP_FILENAME)) <= MAX_INTERP_LEN /\ Len(dir) <= MAX_RPATH_LEN
<1>1. /\ InterpWritten /\ RpathWritten /\ launched > 0
      /\ tmpprog \in ImageType /\ IsPrepared(tmpprog) /\ dir \in Seq(Chars \ {NUL})
  BY DEF IInv, InOrder, Patched, Packed, TypeOK
<1>2. Len(path_join(dir, INTERP_FILENAME)) <= MAX_INTERP_LEN
  <2>1. tmpprog.phdrs[elf_get_proghdr_by_type(tmpprog, "PT_INTERP")].filesz - 1 = MAX_INTERP_LEN
    BY <1>1, LengthsAssumption DEF IsPrepared
  <2>2. QED
    BY <1>1, <2>1 DEF InterpWritten
<1>3. path_join(dir, INTERP_FILENAME) \in Seq(Chars)
  BY <1>1, PathsTyped
<1>4. strlen(WithInterp, Rpath(tmpprog)) = MAX_RPATH_LEN
  BY <1>1, <1>2, <1>3, InterpApart DEF WithInterp
<1>5. QED
  BY <1>1, <1>2, <1>4 DEF RpathWritten

LEMMA NextIInv ==
  IInv /\ [Next]_vars => IInv'
<1> SUFFICES ASSUME IInv, [Next]_vars PROVE IInv'
  OBVIOUS
<1> USE DEF Goto, Error, generated, launch
<1>1. CASE GetProgInterp
  <2>1. TypeOK' /\ InOrder'
    BY <1>1, Zenon DEF GetProgInterp, IInv, TypeOK, InOrder
  <2>2. launched' = 0 /\ pc' \in {"_fixup_prog", "ended"}
    BY <1>1, Zenon DEF GetProgInterp, IInv, InOrder
  <2>3. Packed' /\ Patched' /\ StartsIffItFits'
    BY <2>2 DEF Packed, Patched, StartsIffItFits
  <2>4. QED
    BY <2>1, <2>3 DEF IInv
<1>2. CASE FixupProg
  BY <1>2, FixupProgKeeps
<1>3. CASE RunHooks
  BY <1>3, RunHooksKeeps
<1>4. CASE ElfAddSection
  <2>1. TypeOK' /\ InOrder'
    BY <1>4 DEF ElfAddSection, IInv, TypeOK, InOrder
  <2>2. Packed' /\ Patched' /\ StartsIffItFits'
    BY <1>4 DEF ElfAddSection, IInv, InOrder, Packed, Patched, StartsIffItFits
  <2>3. QED
    BY <2>1, <2>2 DEF IInv
<1>5. CASE CreateTmpdir
  <2>1. dir' \in Seq(Chars \ {NUL}) /\ dir' \in Seq(Chars)
    BY <1>5, PathsTyped, PathsAssumption DEF CreateTmpdir
  <2>2. launched' \in 0..Launches /\ launched' > 0
    BY <1>5, LengthsAssumption DEF CreateTmpdir, IInv, TypeOK
  <2>3. TypeOK' /\ InOrder'
    BY <1>5, <2>1, <2>2 DEF CreateTmpdir, IInv, TypeOK, InOrder
  <2>4. Packed'
    BY <1>5 DEF CreateTmpdir, IInv, Packed
  <2>5. Patched' /\ StartsIffItFits'
    BY <1>5 DEF CreateTmpdir, Patched, StartsIffItFits
  <2>6. QED
    BY <2>3, <2>4, <2>5 DEF IInv
<1>6. CASE FindArchive
  <2>1. output \in {Bootloader, Append(Bootloader, Archive)} /\ pc = "find_archive" /\ launched > 0
    BY <1>6, Zenon DEF FindArchive, IInv, InOrder
  <2>2. ASSUME pc' = "ended"
        PROVE  output = Bootloader
    <3>1. SUFFICES ASSUME output = Append(Bootloader, Archive) PROVE FALSE
      BY <2>1
    <3>2. elf_get_section_by_name([shdrs |-> output], ARCHIVE_SECTION) = 0
      BY <1>6, <2>2, Zenon DEF FindArchive
    <3>3. Len(output) = 2 /\ output[2].name = ARCHIVE_SECTION
      BY <3>1 DEF Bootloader, Archive
    <3> DEFINE I == {i \in 1..2 : output[i].name = ARCHIVE_SECTION}
    <3>4. I # {} /\ I \subseteq Nat
      BY <3>3
    <3>5. \E m \in I : \A k \in I : m <= k
      BY <3>4, NatMin
    <3>6. Min(I) \in I
      BY <3>5 DEF Min
    <3>7. elf_get_section_by_name([shdrs |-> output], ARCHIVE_SECTION) = Min(I)
      BY <3>3, <3>4 DEF elf_get_section_by_name, SelectInSeq
    <3>8. QED
      BY <3>2, <3>6, <3>7
  <2>3. TypeOK'
    BY <1>6, Zenon DEF FindArchive, IInv, TypeOK
  <2>4. InOrder' /\ Packed'
    BY <1>6, Zenon DEF FindArchive, IInv, InOrder, Packed
  <2>5. Patched'
    BY <1>6, Zenon DEF FindArchive, IInv, Patched
  <2>6. StartsIffItFits'
    <3>1. pc' # "running" /\ (pc' = "ended" => ~(Len(output') > Len(Bootloader)))
      <4>1. ~(Len(Bootloader) > Len(Bootloader))
        BY DEF Bootloader
      <4>2. QED
        BY <1>6, <2>2, <4>1, Zenon DEF FindArchive
    <3>2. QED
      BY <3>1, Zenon DEF StartsIffItFits
  <2>7. QED
    BY <2>3, <2>4, <2>5, <2>6 DEF IInv
<1>7. CASE MmapFile
  <2>1. pc = "mmap_file" /\ prog = tmpprog /\ launched > 0
    BY <1>7, Zenon DEF MmapFile, IInv, InOrder, Patched
  <2>2. made # "odd" => prog.magic
    BY <2>1 DEF IInv, Packed, IsPrepared, Linked
  <2>3. TypeOK'
    BY <1>7, Zenon DEF MmapFile, IInv, TypeOK
  <2>4. InOrder' /\ Packed'
    BY <1>7, Zenon DEF MmapFile, IInv, InOrder, Packed
  <2>5. Patched'
    BY <1>7, <2>1, Zenon DEF MmapFile, Patched
  <2>6. StartsIffItFits'
    BY <1>7, <2>2, Zenon DEF MmapFile, StartsIffItFits
  <2>7. QED
    BY <2>3, <2>4, <2>5, <2>6 DEF IInv
<1>8. CASE SetInterp
  BY <1>8, SetInterpKeeps
<1>9. CASE SetRpathOfProg
  BY <1>9, SetRpathKeeps
<1>10. CASE UnmapFile
  <2>1. TypeOK'
    BY <1>10 DEF UnmapFile, IInv, TypeOK
  <2>2. InOrder' /\ Packed'
    BY <1>10 DEF UnmapFile, IInv, InOrder, Packed
  <2>3. Patched'
    BY <1>10 DEF UnmapFile, IInv, Patched, InterpWritten, RpathWritten, WithInterp
  <2>4. StartsIffItFits'
    BY <1>10, WrittenFits DEF UnmapFile, StartsIffItFits
  <2>5. QED
    BY <2>1, <2>2, <2>3, <2>4 DEF IInv
<1>11. CASE Relaunch
  <2>1. launched > 0
    BY <1>11 DEF Relaunch, IInv, TypeOK
  <2>2. TypeOK' /\ InOrder'
    BY <1>11 DEF Relaunch, IInv, TypeOK, InOrder
  <2>3. Packed'
    BY <1>11, <2>1 DEF Relaunch, IInv, Packed
  <2>4. Patched' /\ StartsIffItFits'
    BY <1>11 DEF Relaunch, Patched, StartsIffItFits
  <2>5. QED
    BY <2>2, <2>3, <2>4 DEF IInv
<1>12. CASE Over \/ UNCHANGED vars
  <2>1. UNCHANGED vars
    BY <1>12 DEF Over
  <2>2. TypeOK' /\ InOrder' /\ Packed'
    BY <2>1 DEF vars, IInv, TypeOK, InOrder, Packed
  <2>3. Patched' /\ StartsIffItFits'
    BY <2>1, Zenon DEF vars, IInv, Patched, StartsIffItFits, InterpWritten, RpathWritten, WithInterp
  <2>4. QED
    BY <2>2, <2>3 DEF IInv
<1>13. QED
  BY <1>1, <1>2, <1>3, <1>4, <1>5, <1>6, <1>7, <1>8, <1>9, <1>10, <1>11, <1>12 DEF Next

\* The invariant holds in every state that staticx and the bootloader reach, however the
\* programs and the images are made and whatever the directories and lengths are.
THEOREM InvariantCorrect == Spec => []IInv
<1>1. Init => IInv
  BY InitIInv
<1>2. IInv /\ [Next]_vars => IInv'
  BY NextIInv
<1>3. QED
  BY <1>1, <1>2, PTL DEF Spec

\* What the variables hold; and while the program is mapped for writing, it does not run.
THEOREM TypeCorrect == Spec => []TypeOK
<1>1. IInv => TypeOK
  BY DEF IInv
<1>2. QED
  BY <1>1, InvariantCorrect, PTL

\* A bundle starts if and only if its directory's path and its loader's fit the placeholders
\* that constants.py sizes: set_interp() and set_rpath() refuse nothing else that staticx
\* has made, and nothing that does not fit gets past them.
THEOREM StartsIfItFits == Spec => []StartsIffItFits
<1>1. IInv => StartsIffItFits
  BY DEF IInv
<1>2. QED
  BY <1>1, InvariantCorrect, PTL

-----------------------------------------------------------------------------
(* What is overwritten.                                                    *)

LEMMA SameButBytes ==
  ASSUME NEW one \in ImageType, NEW other \in ImageType, SameTables(one, other)
  PROVE  [one EXCEPT !.bytes = <<>>] = [other EXCEPT !.bytes = <<>>]
BY DEF ImageType, SameTables

\* Two strings, the second where strlen() finds room for it: it stays inside of the one that
\* stands there, or inside of the first.
LEMMA TwiceWritten ==
  ASSUME NEW image \in ImageType,
         NEW at \in Nat, NEW path \in Seq(Chars), NEW rpath \in Nat, NEW string \in Seq(Chars),
         NEW one, one = strcpy(image, at, path),
         NEW two, two = strcpy(one, rpath, string),
         Len(string) <= strlen(one, rpath),
         NEW p \in 1..Len(image.bytes),
         ~(p > at /\ p <= at + Len(path) + 1),
         ~(p > rpath /\ p <= rpath + strlen(image, rpath))
  PROVE  two.bytes[p] = image.bytes[p]
<1> DEFINE S1 == strlen(image, rpath)
           S2 == strlen(one, rpath)
<1>1. /\ one \in ImageType /\ Len(one.bytes) = Len(image.bytes)
      /\ one.bytes[p] = image.bytes[p]
  BY StrcpyBytes
<1>2. image.bytes \in Seq(Chars) /\ one.bytes \in Seq(Chars) /\ Len(image.bytes) \in Nat
  BY <1>1 DEF ImageType
<1>3. /\ S1 \in Nat /\ S2 \in Nat /\ Ends(image, rpath, S1) /\ Ends(one, rpath, S2)
      /\ Len(string) \in Nat /\ Len(path) \in Nat
  <2>1. S1 \in Nat /\ Ends(image, rpath, S1)
    BY <1>2, StrlenEnds
  <2>2. S2 \in Nat /\ Ends(one, rpath, S2)
    BY <1>2, StrlenEnds
  <2>3. QED
    BY <2>1, <2>2
<1>4. Len(string) <= S2 /\ ~(p > rpath /\ p <= rpath + S1)
  OBVIOUS
<1>5. two.bytes[p] = IF p > rpath /\ p <= rpath + Len(string) + 1
                       THEN Terminated(string)[p - rpath] ELSE one.bytes[p]
  <2>1. p \in 1..Len(one.bytes)
    BY <1>1
  <2>2. \A q \in 1..Len(one.bytes) :
          two.bytes[q] = IF q > rpath /\ q <= rpath + Len(string) + 1
                           THEN Terminated(string)[q - rpath] ELSE one.bytes[q]
    BY <1>1, StrcpyBytes, ZenonT(60)
  <2>3. QED
    BY <2>1, <2>2
<1> HIDE DEF S1, S2
<1>6. CASE ~(p > rpath /\ p <= rpath + Len(string) + 1)
  BY <1>1, <1>5, <1>6
<1>7. CASE p > rpath /\ p <= rpath + Len(string) + 1
  <2>1. p > rpath + S1 /\ S1 <= Len(string)
    BY <1>3, <1>4, <1>7
  <2>2. Char(image, rpath + S1) = NUL /\ Char(one, rpath + S2) = NUL
    BY <1>3 DEF Ends
  <2>3. CASE S1 = S2
    <3>1. Len(string) = S1 /\ p = rpath + Len(string) + 1 /\ p - rpath = Len(string) + 1
      BY <1>3, <1>4, <1>7, <2>1, <2>3
    <3>2. Terminated(string)[Len(string) + 1] = NUL
      BY TerminatedIs
    <3>3. two.bytes[p] = NUL
      BY <1>5, <1>7, <3>1, <3>2
    <3>4. PICK x \in Nat : x = rpath + S1 /\ x + 1 = p /\ x < Len(image.bytes)
      BY <1>2, <1>3, <3>1
    <3>5. image.bytes[p] = NUL
      BY <2>2, <3>4 DEF Char
    <3>6. QED
      BY <3>3, <3>5
  <2>4. CASE S1 # S2
    <3>1. S1 < S2
      BY <1>3, <1>4, <2>1, <2>4
    <3>2. Char(one, rpath + S1) # NUL
      <4>1. S1 \in 0..(S2 - 1)
        BY <1>3, <3>1
      <4>2. QED
        BY <1>3, <4>1 DEF Ends
    <3>3. ~(rpath + S1 < at \/ rpath + S1 > at + Len(path))
      <4>1. rpath + S1 \in Nat
        BY <1>3
      <4>2. Char(one, rpath + S1) # Char(image, rpath + S1)
        BY <2>2, <3>2
      <4>3. QED
        BY <4>1, <4>2, StrcpyElsewhere
    <3>4. Char(one, at + Len(path)) = NUL
      BY StrcpyEnds
    <3>5. at + Len(path) >= rpath + S2
      <4>1. SUFFICES ASSUME at + Len(path) < rpath + S2 PROVE FALSE
        BY <1>3
      <4>2. PICK k \in 0..(S2 - 1) : rpath + k = at + Len(path)
        <5>1. at + Len(path) - rpath \in 0..(S2 - 1)
          BY <1>3, <3>3, <4>1
        <5>2. rpath + (at + Len(path) - rpath) = at + Len(path)
          BY <1>3
        <5>3. QED
          BY <5>1, <5>2
      <4>3. Char(one, rpath + k) # NUL
        BY <1>3 DEF Ends
      <4>4. QED
        BY <3>4, <4>2, <4>3
    <3>6. p > at /\ p <= at + Len(path) + 1
      BY <1>3, <1>4, <1>7, <2>1, <3>3, <3>5
    <3>7. QED
      BY <3>6
  <2>5. QED
    BY <2>3, <2>4
<1>8. QED
  BY <1>6, <1>7

LEMMA OnlyPlaceholders ==
  IInv => OnlyPlaceholdersChange
<1> SUFFICES ASSUME IInv, pc \in {"set_rpath", "unmap_file", "running"}
             PROVE  /\ [prog EXCEPT !.bytes = <<>>] = [tmpprog EXCEPT !.bytes = <<>>]
                    /\ Len(prog.bytes) = Len(tmpprog.bytes)
                    /\ \A p \in DOMAIN prog.bytes \ MayChange : prog.bytes[p] = tmpprog.bytes[p]
  BY DEF OnlyPlaceholdersChange
<1> DEFINE at == elf_get_proghdr_by_type(tmpprog, "PT_INTERP")
           ph == tmpprog.phdrs[at]
           path == path_join(dir, INTERP_FILENAME)
           written == (ph.offset + 1)..(ph.offset + ph.filesz)
<1>1. /\ InterpWritten /\ tmpprog \in ImageType /\ prog \in ImageType
      /\ dir \in Seq(Chars) /\ path \in Seq(Chars)
  BY PathsTyped DEF IInv, Patched, TypeOK, InOrder
<1>2. WithInterp \in ImageType /\ SameTables(WithInterp, tmpprog)
        /\ Len(WithInterp.bytes) = Len(tmpprog.bytes)
  BY <1>1, InterpWrittenTyped
<1>3. ph.offset \in Nat /\ ph.filesz \in Nat /\ Len(path) \in Nat /\ Len(path) <= ph.filesz - 1
  <2>1. ph \in PhdrType
    BY <1>1, HeaderFound DEF InterpWritten
  <2>2. QED
    BY <1>1, <2>1 DEF PhdrType, InterpWritten
<1>4. WithInterp = strcpy(tmpprog, ph.offset, path)
  BY DEF WithInterp
<1> DEFINE R == Rpath(tmpprog)
<1>5. CASE pc = "set_rpath"
  <2>1. prog = WithInterp
    BY <1>5 DEF IInv, Patched
  <2>2. written \subseteq MayChange
    BY <1>2, <2>1, SameIndices DEF MayChange, SameTables
  <2>3. ASSUME NEW p \in DOMAIN prog.bytes \ MayChange
        PROVE  prog.bytes[p] = tmpprog.bytes[p]
    <3>1. p \in 1..Len(tmpprog.bytes) /\ p \in Nat
      BY <1>1, <1>2, <2>1 DEF ImageType
    <3>2. p \notin written
      BY <2>2
    <3>3. ~(p > ph.offset /\ p <= ph.offset + Len(path) + 1)
      <4> HIDE DEF ph, path
      <4>1. QED
        BY <1>3, <3>1, <3>2
    <3>4. ph.offset \in Nat /\ path \in Seq(Chars)
      BY <1>1, <1>3
    <3>5. strcpy(tmpprog, ph.offset, path).bytes[p] = tmpprog.bytes[p]
      <4> HIDE DEF ph, path
      <4>1. QED
        BY <1>1, <3>1, <3>3, <3>4, StrcpyBytes
    <3>6. QED
      BY <1>4, <2>1, <3>5
  <2>4. QED
    BY <1>1, <1>2, <2>1, <2>3, SameButBytes
<1>6. CASE pc \in {"unmap_file", "running"}
  <2>1. RpathWritten /\ prog = strcpy(WithInterp, R, dir)
    BY <1>6 DEF IInv, Patched
  <2>2. R \in Nat
    BY <1>1, <2>1, RpathTyped DEF RpathWritten
  <2>3. SameTables(prog, WithInterp) /\ Len(prog.bytes) = Len(WithInterp.bytes)
    BY <1>1, <1>2, <2>1, <2>2, StrcpyBytes
  <2>4. SameTables(prog, tmpprog) /\ Len(prog.bytes) = Len(tmpprog.bytes)
    BY <1>2, <2>3 DEF SameTables
  <2>5. MayChange = written \cup (R + 1)..(R + strlen(tmpprog, R))
    <3>1. /\ \A name : elf_get_section_by_name(prog, name) = elf_get_section_by_name(tmpprog, name)
          /\ \A name : SectionOf(prog, name) = SectionOf(tmpprog, name)
          /\ \A n \in Nat : DtRpath(prog, n) = DtRpath(tmpprog, n)
          /\ elf_get_proghdr_by_type(prog, "PT_INTERP") = at
      BY <2>4, SameIndices
    <3>2. SectionOf(tmpprog, ".dynamic").size \in Nat
      <4>1. SectionOf(tmpprog, ".dynamic") \in ShdrType
        BY <1>1, <2>1, SectionFound DEF RpathWritten
      <4>2. QED
        BY <4>1 DEF ShdrType
    <3>3. SectionOf(prog, ".dynstr").offset
            + prog.dyn[DtRpath(prog, SectionOf(prog, ".dynamic").size)].val = R
      BY <2>4, <3>1, <3>2 DEF Rpath, SameTables
    <3>4. prog.phdrs = tmpprog.phdrs
      BY <2>4 DEF SameTables
    <3>5. QED
      BY <1>6, <3>1, <3>3, <3>4 DEF MayChange
  <2>6. ASSUME NEW p \in DOMAIN prog.bytes \ MayChange
        PROVE  prog.bytes[p] = tmpprog.bytes[p]
    <3>1. p \in 1..Len(tmpprog.bytes) /\ p \in Nat
      BY <1>1, <2>4 DEF ImageType
    <3>2. p \notin written /\ p \notin (R + 1)..(R + strlen(tmpprog, R))
      BY <2>5
    <3>3. ~(p > ph.offset /\ p <= ph.offset + Len(path) + 1)
      <4> HIDE DEF ph, path
      <4>1. QED
        BY <1>3, <3>1, <3>2
    <3>4. strlen(tmpprog, R) \in Nat
      <4>1. tmpprog.bytes \in Seq(Chars)
        BY <1>1 DEF ImageType
      <4>2. QED
        BY <2>2, <4>1, StrlenEnds
    <3>5. ~(p > R /\ p <= R + strlen(tmpprog, R))
      <4> HIDE DEF R
      <4>1. QED
        BY <2>2, <3>1, <3>2, <3>4
    <3>6. Len(dir) <= strlen(WithInterp, R)
      BY <2>1 DEF RpathWritten
    <3> HIDE DEF ph, path, R
    <3>7. QED
      BY <1>1, <1>3, <1>4, <2>1, <2>2, <3>1, <3>3, <3>5, <3>6, TwiceWritten, SMTT(30)
  <2>7. QED
    BY <1>1, <2>4, <2>6, SameButBytes
<1>7. QED
  BY <1>5, <1>6

\* Of any image that lies in an archive, whoever has prepared it and however its strings
\* overlap, set_interp() and set_rpath() overwrite the interpreter's path and the string
\* that is taken for the RPATH, and nothing else: strlen() and strcpy() never run past them.
THEOREM OnlyThePlaceholdersChange == Spec => []OnlyPlaceholdersChange
BY OnlyPlaceholders, InvariantCorrect, PTL

-----------------------------------------------------------------------------
(* What the kernel and the dynamic loader find.                            *)

LEMMA HeldElsewhere ==
  ASSUME NEW image \in ImageType, NEW at \in Nat, NEW string \in Seq(Chars), Holds(image, at, string),
         NEW rpath \in Nat, NEW other \in Seq(Chars),
         at + Len(string) < rpath \/ rpath + Len(other) < at
  PROVE  Holds(strcpy(image, rpath, other), at, string)
<1> DEFINE new == strcpy(image, rpath, other)
<1>1. Len(string) \in Nat /\ Len(other) \in Nat
  OBVIOUS
<1>2. ASSUME NEW x \in Nat, x >= at, x <= at + Len(string)
      PROVE  Char(new, x) = Char(image, x)
  <2>1. x < rpath \/ x > rpath + Len(other)
    BY <1>1, <1>2
  <2>2. QED
    BY <2>1, StrcpyElsewhere
<1>3. Char(new, at + Len(string)) = Char(image, at + Len(string))
  <2>1. at + Len(string) \in Nat /\ at + Len(string) >= at /\ at + Len(string) <= at + Len(string)
    BY <1>1
  <2>2. QED
    BY <1>2, <2>1
<1>4. \A k \in 1..Len(string) : Char(new, at + k - 1) = Char(image, at + k - 1)
  <2>1. ASSUME NEW k \in 1..Len(string)
        PROVE  at + k - 1 \in Nat /\ at + k - 1 >= at /\ at + k - 1 <= at + Len(string)
    BY <1>1
  <2>2. QED
    BY <1>2, <2>1
<1>5. QED
  BY <1>3, <1>4 DEF Holds

LEMMA RegularRuns ==
  ASSUME IInv, pc = "running", Regular(tmpprog)
  PROVE  /\ Interpreter(prog) = path_join(dir, INTERP_FILENAME)
         /\ Tagged(prog, "DT_RUNPATH") = {} => SearchPath(prog) = dir
<1> DEFINE at == elf_get_proghdr_by_type(tmpprog, "PT_INTERP")
           ph == tmpprog.phdrs[at]
           path == path_join(dir, INTERP_FILENAME)
           R == Rpath(tmpprog)
           S == strlen(tmpprog, R)
           dt == DtRpath(tmpprog, SectionOf(tmpprog, ".dynamic").size)
<1>1. /\ InterpWritten /\ RpathWritten /\ prog = strcpy(WithInterp, R, dir)
      /\ tmpprog \in ImageType /\ prog \in ImageType
      /\ dir \in Seq(Chars \ {NUL}) /\ dir \in Seq(Chars)
      /\ path \in Seq(Chars \ {NUL}) /\ path \in Seq(Chars)
  BY PathsTyped DEF IInv, Patched, TypeOK, InOrder
<1>2. /\ WithInterp \in ImageType /\ SameTables(WithInterp, tmpprog)
      /\ Len(WithInterp.bytes) = Len(tmpprog.bytes)
      /\ WithInterp = strcpy(tmpprog, ph.offset, path)
  BY <1>1, InterpWrittenTyped DEF WithInterp
<1>3. /\ at # 0 /\ dt # 0 /\ R \in Nat
      /\ ph.offset + ph.filesz <= Len(tmpprog.bytes)
      /\ R + S < Len(tmpprog.bytes)
      /\ ph.offset + ph.filesz <= R \/ R + S < ph.offset
      /\ dt = Max(Tagged(tmpprog, "DT_RPATH"))
      /\ Len(dir) <= strlen(WithInterp, R)
      /\ Len(path) <= ph.filesz - 1
      /\ Char(tmpprog, ph.offset + ph.filesz - 1) = NUL
  BY <1>1, RpathTyped DEF Regular, InterpWritten, RpathWritten
<1>4. ph.offset \in Nat /\ ph.filesz \in Nat /\ Len(path) \in Nat /\ Len(dir) \in Nat
        /\ Len(tmpprog.bytes) \in Nat
  <2>1. ph \in PhdrType
    BY <1>1, <1>3, HeaderFound
  <2>2. ph.offset \in Nat /\ ph.filesz \in Nat
    BY <2>1 DEF PhdrType
  <2>3. tmpprog.bytes \in Seq(Chars)
    BY <1>1 DEF ImageType
  <2>4. QED
    BY <1>1, <2>2, <2>3
<1>5. S \in Nat /\ Ends(tmpprog, R, S)
  <2>1. tmpprog.bytes \in Seq(Chars)
    BY <1>1 DEF ImageType
  <2>2. QED
    BY <1>3, <2>1, StrlenEnds
<1>6. /\ elf_get_proghdr_by_type(prog, "PT_INTERP") = at /\ prog.phdrs = tmpprog.phdrs
      /\ SectionOf(prog, ".dynstr") = SectionOf(tmpprog, ".dynstr") /\ prog.dyn = tmpprog.dyn
      /\ \A tag : Tagged(prog, tag) = Tagged(tmpprog, tag)
  <2>1. SameTables(prog, WithInterp)
    BY <1>1, <1>2, <1>3, StrcpyBytes
  <2>2. SameTables(prog, tmpprog)
    BY <1>2, <2>1 DEF SameTables
  <2>3. QED
    BY <2>2, SameIndices DEF SameTables
<1> HIDE DEF at, ph, path, R, S, dt
<1> DEFINE o == ph.offset
           n == ph.filesz
<1>7. o \in Nat /\ n \in Nat /\ Len(path) <= n - 1 /\ o + n <= Len(tmpprog.bytes)
        /\ (o + n <= R \/ R + S < o) /\ Char(tmpprog, o + n - 1) = NUL
        /\ WithInterp = strcpy(tmpprog, o, path)
  BY <1>2, <1>3, <1>4
<1> HIDE DEF o, n
<1>8. \* The interpreter's path lies elsewhere than the RPATH, which is as long as it was.
      S = strlen(WithInterp, R) /\ Len(dir) <= S
  <2>1. ASSUME NEW k \in 0..S
        PROVE  Char(WithInterp, R + k) = Char(tmpprog, R + k)
    <3>1. R + k \in Nat /\ (R + k < o \/ R + k > o + Len(path))
      BY <1>3, <1>4, <1>5, <1>7
    <3>2. QED
      BY <1>1, <1>7, <3>1, StrcpyElsewhere
  <2>2. Ends(WithInterp, R, S)
    BY <1>5, <2>1 DEF Ends
  <2>3. WithInterp.bytes \in Seq(Chars)
    BY <1>2 DEF ImageType
  <2>4. QED
    BY <1>3, <1>5, <2>2, <2>3, StrlenIs
<1>9. Holds(prog, o, path)
  <2>1. Holds(WithInterp, o, path)
    <3>1. o + Len(path) < Len(tmpprog.bytes)
      BY <1>4, <1>7
    <3>2. QED
      BY <1>1, <1>7, <3>1, StrcpyHolds
  <2>2. o + Len(path) < R \/ R + Len(dir) < o
    BY <1>3, <1>4, <1>5, <1>7, <1>8
  <2>3. QED
    BY <1>1, <1>2, <1>3, <1>7, <2>1, <2>2, HeldElsewhere
<1>10. Char(prog, o + n - 1) = NUL
  <2>1. o + n - 1 \in Nat /\ (o + n - 1 < R \/ o + n - 1 > R + Len(dir))
    BY <1>3, <1>4, <1>5, <1>7, <1>8
  <2>2. Char(prog, o + n - 1) = Char(WithInterp, o + n - 1)
    BY <1>1, <1>2, <1>3, <2>1, StrcpyElsewhere
  <2>3. Char(WithInterp, o + n - 1) = NUL
    <3>1. CASE Len(path) = n - 1
      <4>1. o + n - 1 = o + Len(path)
        BY <1>4, <1>7, <3>1
      <4>2. QED
        BY <1>1, <1>7, <4>1, StrcpyEnds, ZenonT(60)
    <3>2. CASE Len(path) # n - 1
      <4>1. o + n - 1 > o + Len(path)
        BY <1>4, <1>7, <3>2
      <4>2. QED
        BY <1>1, <1>7, <2>1, <4>1, StrcpyElsewhere
    <3>3. QED
      BY <3>1, <3>2
  <2>4. QED
    BY <2>2, <2>3
<1>11. Holds(prog, R, dir)
  <2>1. R + Len(dir) < Len(WithInterp.bytes)
    BY <1>2, <1>3, <1>4, <1>5, <1>8
  <2>2. QED
    BY <1>1, <1>2, <1>3, <2>1, StrcpyHolds
<1>12. prog.bytes \in Seq(Chars)
  BY <1>1 DEF ImageType
<1>13. Interpreter(prog) = path
  <2>1. String(prog, o) = path
    BY <1>1, <1>7, <1>9, <1>12, HeldString
  <2>2. prog.phdrs[elf_get_proghdr_by_type(prog, "PT_INTERP")] = ph
    BY <1>6 DEF ph
  <2>3. QED
    BY <1>10, <2>1, <2>2 DEF Interpreter, o, n
<1>14. ASSUME Tagged(prog, "DT_RUNPATH") = {}
       PROVE  SearchPath(prog) = dir
  <2>1. String(prog, R) = dir
    BY <1>1, <1>3, <1>11, <1>12, HeldString
  <2>2. Tagged(prog, "DT_RPATH") # {}
    <3>1. SectionOf(tmpprog, ".dynamic").size \in Nat
      <4>1. SectionOf(tmpprog, ".dynamic") \in ShdrType
        BY <1>1, SectionFound DEF RpathWritten
      <4>2. QED
        BY <4>1 DEF ShdrType
    <3>2. dt \in Tagged(tmpprog, "DT_RPATH")
      BY <1>1, <1>3, <3>1, DtRpathFound DEF dt
    <3>3. QED
      BY <1>6, <3>2
  <2>3. TagString(prog, Max(Tagged(prog, "DT_RPATH"))) = dir
    BY <1>3, <1>6, <2>1 DEF TagString, Rpath, R, dt
  <2>4. QED
    BY <1>14, <2>2, <2>3 DEF SearchPath
<1>15. QED
  BY <1>13, <1>14 DEF path

LEMMA PreparedIsRegular ==
  ASSUME NEW image \in ImageType, IsPrepared(image)
  PROVE  Regular(image)
<1> DEFINE interp == image.phdrs[elf_get_proghdr_by_type(image, "PT_INTERP")]
           dynstr == SectionOf(image, ".dynstr")
           dt == DtRpath(image, SectionOf(image, ".dynamic").size)
           R == Rpath(image)
<1>1. /\ dt \in Tagged(image, "DT_RPATH") /\ HasRoom(image, dt)
      /\ dynstr.offset \in Nat /\ dynstr.size \in Nat
      /\ R = dynstr.offset + image.dyn[dt].val /\ image.dyn[dt].val \in Nat
      /\ R + MAX_RPATH_LEN < Len(image.bytes) /\ Ends(image, R, MAX_RPATH_LEN)
  BY PreparedRpath
<1>2. /\ interp.filesz = MAX_INTERP_LEN + 1 /\ interp.offset + interp.filesz <= dynstr.offset
      /\ elf_get_proghdr_by_type(image, "PT_INTERP") # 0
      /\ dynstr.offset + dynstr.size <= Len(image.bytes)
  BY DEF IsPrepared, Linked
<1>3. interp.offset \in Nat /\ MAX_INTERP_LEN \in Nat /\ MAX_RPATH_LEN \in Nat /\ Len(image.bytes) \in Nat
  <2>1. interp \in PhdrType
    BY <1>2, HeaderFound
  <2>2. QED
    BY <2>1, LengthsAssumption DEF PhdrType, ImageType
<1>4. dt = Max(Tagged(image, "DT_RPATH"))
  <2>1. Tagged(image, "DT_RPATH") = {dt} /\ dt \in Nat
    BY <1>1, TaggedRange DEF HasRoom
  <2>2. QED
    BY <2>1, MaxOfOne
<1>5. interp.offset + interp.filesz <= Len(image.bytes) /\ interp.offset + interp.filesz <= R
  <2>1. interp.offset + interp.filesz \in Nat
    BY <1>2, <1>3
  <2>2. image.dyn[dt].val \in Nat /\ R = dynstr.offset + image.dyn[dt].val
    BY <1>1
  <2> HIDE DEF interp, dynstr, R, dt
  <2>3. QED
    BY <1>1, <1>2, <1>3, <2>1, <2>2, SMTT(30)
<1>6. strlen(image, R) = MAX_RPATH_LEN
  <2>1. image.bytes \in Seq(Chars) /\ R \in Nat
    <3>1. dynstr.offset + image.dyn[dt].val \in Nat
      BY <1>1
    <3>2. QED
      BY <1>1, <3>1 DEF ImageType
  <2>2. QED
    BY <1>1, <1>3, <2>1, StrlenIs
<1>7. QED
  BY <1>1, <1>4, <1>5, <1>6 DEF Regular

\* The libraries that staticx's programs need keep their names.
LEMMA NamesKept ==
  ASSUME IInv, pc = "running", IsPrepared(tmpprog)
  PROVE  /\ Needed(prog) = Needed(tmpprog)
         /\ \A tag : Tagged(prog, tag) = Tagged(tmpprog, tag)
<1> DEFINE R == Rpath(tmpprog)
           dynstr == SectionOf(tmpprog, ".dynstr")
           dt == DtRpath(tmpprog, SectionOf(tmpprog, ".dynamic").size)
           path == path_join(dir, INTERP_FILENAME)
<1>1. /\ InterpWritten /\ RpathWritten /\ prog = strcpy(WithInterp, R, dir)
      /\ tmpprog \in ImageType /\ prog \in ImageType /\ dir \in Seq(Chars) /\ path \in Seq(Chars)
  BY PathsTyped DEF IInv, Patched, TypeOK, InOrder
<1>2. Len(path) <= MAX_INTERP_LEN
  <2>1. tmpprog.phdrs[elf_get_proghdr_by_type(tmpprog, "PT_INTERP")].filesz - 1 = MAX_INTERP_LEN
    BY LengthsAssumption DEF IsPrepared
  <2>2. QED
    BY <1>1, <2>1 DEF InterpWritten
<1>3. /\ WithInterp \in ImageType /\ SameTables(WithInterp, tmpprog)
      /\ \A x \in Nat : x >= dynstr.offset => Char(WithInterp, x) = Char(tmpprog, x)
      /\ strlen(WithInterp, R) = MAX_RPATH_LEN
  BY <1>1, <1>2, InterpApart DEF WithInterp
<1>4. Len(dir) <= MAX_RPATH_LEN /\ Len(dir) \in Nat /\ MAX_RPATH_LEN \in Nat
  BY <1>1, <1>3, LengthsAssumption DEF RpathWritten
<1>5. /\ HasRoom(tmpprog, dt) /\ dynstr.offset \in Nat /\ tmpprog.dyn[dt].val \in Nat
      /\ R = dynstr.offset + tmpprog.dyn[dt].val
  BY <1>1, PreparedRpath
<1>6. R \in Nat
  <2>1. dynstr.offset + tmpprog.dyn[dt].val \in Nat
    BY <1>5
  <2>2. QED
    BY <1>5, <2>1
<1>7. SameTables(prog, tmpprog)
  <2>1. SameTables(prog, WithInterp)
    BY <1>1, <1>3, <1>6, StrcpyBytes
  <2>2. QED
    BY <1>3, <2>1 DEF SameTables
<1>8. /\ SectionOf(prog, ".dynstr") = dynstr /\ prog.dyn = tmpprog.dyn
      /\ \A tag : Tagged(prog, tag) = Tagged(tmpprog, tag)
  BY <1>7, SameIndices DEF SameTables
<1>9. tmpprog.bytes \in Seq(Chars) /\ prog.bytes \in Seq(Chars)
  BY <1>1 DEF ImageType
<1>10. ASSUME NEW i \in Tagged(tmpprog, "DT_NEEDED")
       PROVE  TagString(prog, i) = TagString(tmpprog, i)
  <2> DEFINE name == tmpprog.dyn[i].val
             val == tmpprog.dyn[dt].val
             there == dynstr.offset + name
             n == strlen(tmpprog, there)
  <2>1. name \in Nat /\ val \in Nat /\ dynstr.offset \in Nat /\ R = dynstr.offset + val
    BY <1>1, <1>5, TaggedRange
  <2>2. there \in Nat
    BY <2>1
  <2>3. n \in Nat
    BY <1>9, <2>2, StrlenEnds
  <2>4. name + n < val \/ name > val + MAX_RPATH_LEN
    BY <1>5 DEF HasRoom
  <2> HIDE DEF R, name, val, n
  <2>5. ASSUME NEW k \in 0..n
        PROVE  Char(prog, there + k) = Char(tmpprog, there + k)
    <3>1. /\ there + k \in Nat /\ there + k >= dynstr.offset
          /\ there + k < R \/ there + k > R + Len(dir)
      <4>1. PICK d \in Nat : d = dynstr.offset /\ there = d + name /\ R = d + val
        BY <2>1
      <4>2. name \in Nat /\ val \in Nat /\ n \in Nat /\ k \in Nat /\ k <= n
        BY <2>1, <2>3
      <4> HIDE DEF dynstr, there
      <4>3. d + name + k < d + val \/ d + name + k > d + val + Len(dir)
        BY <1>4, <2>4, <4>2
      <4>4. d + name + k \in Nat /\ d + name + k >= d
        BY <4>2
      <4>5. QED
        BY <4>1, <4>3, <4>4
    <3> HIDE DEF there
    <3>2. Char(prog, there + k) = Char(WithInterp, there + k)
      BY <1>1, <1>3, <1>6, <3>1, StrcpyElsewhere
    <3>3. QED
      BY <1>3, <3>1, <3>2
  <2>6. String(prog, there) = String(tmpprog, there)
    <3> HIDE DEF there
    <3>1. \A k \in 0..strlen(tmpprog, there) : Char(prog, there + k) = Char(tmpprog, there + k)
      BY <2>5 DEF n
    <3>2. QED
      BY <1>9, <2>2, <3>1, SameString
  <2>7. QED
    BY <1>8, <2>6 DEF TagString, name
<1>11. QED
  BY <1>8, <1>10 DEF Needed

LEMMA OursLoad ==
  ASSUME IInv, made # "odd"
  PROVE  LoadsFromBundle
<1> SUFFICES ASSUME pc = "running" PROVE LoadsFromBundle
  BY DEF LoadsFromBundle
<1>1. /\ launched > 0 /\ tmpprog \in ImageType /\ IsPrepared(tmpprog)
      /\ Needed(tmpprog) = Needed(orig_prog) \cup (IF made = "glibc" THEN {LIBNSSFIX} ELSE {})
  BY DEF IInv, InOrder, Packed, TypeOK
<1>2. /\ Interpreter(prog) = path_join(dir, INTERP_FILENAME)
      /\ Tagged(prog, "DT_RUNPATH") = {} => SearchPath(prog) = dir
  BY <1>1, PreparedIsRegular, RegularRuns
<1>3. Needed(prog) = Needed(tmpprog) /\ \A tag : Tagged(prog, tag) = Tagged(tmpprog, tag)
  BY <1>1, NamesKept
<1>4. Tagged(prog, "DT_RUNPATH") = {} /\ OnlySearchPath(prog)
  BY <1>1, <1>3 DEF IsPrepared, OnlySearchPath
<1>5. QED
  BY <1>1, <1>2, <1>3, <1>4 DEF LoadsFromBundle

\* Whatever runs out of a bundle that staticx has made is loaded by the bundle's own loader
\* and finds its libraries in the bundle directory and nowhere else, under the names that it
\* was linked with: patchelf's three runs leave none of its linker's paths behind.
THEOREM WhatStaticxMadeLoads == Spec => [](made # "odd" => LoadsFromBundle)
<1>1. IInv => (made # "odd" => LoadsFromBundle)
  BY OursLoad
<1>2. QED
  BY <1>1, InvariantCorrect, PTL

\* And so is every image that staticx has not made, if its two strings lie apart from each
\* other in the file and its section ends where its entries do. (If they share bytes,
\* set_rpath() writes over the path that set_interp() has written.)
THEOREM WhatIsRegularLoads ==
  ASSUME \A image \in OddPrograms : Regular(image)
  PROVE  Spec => []LoadsFromBundle
<1>1. IInv => LoadsFromBundle
  <2>1. CASE made # "odd"
    BY <2>1, OursLoad
  <2>2. CASE made = "odd"
    <3>1. ASSUME IInv
          PROVE  Regular(tmpprog)
      BY <2>2, <3>1 DEF IInv, InOrder
    <3>2. QED
      BY <2>2, <3>1, RegularRuns DEF LoadsFromBundle
  <2>3. QED
    BY <2>1, <2>2
<1>2. QED
  BY <1>1, InvariantCorrect, PTL

=============================================================================
