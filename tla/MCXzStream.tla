----------------------------- MODULE MCXzStream -----------------------------
(* Small instances of XzStream for TLC: streams of up to three Blocks, good *)
(* ones and ones that are wrong in one place.                               *)
EXTENDS XzStream

Block(data, filters, sizes) ==
  [reserved |-> FALSE,
   compressed |-> IF sizes THEN Len(data) ELSE VLI_UNKNOWN,
   uncompressed |-> IF sizes THEN Len(Contents(data)) ELSE VLI_UNKNOWN,
   filters |-> filters, dict |-> 2, header_padding |-> 0, padding |-> 0,
   data |-> data, error |-> 0]

Good(check, blocks) ==
  [magic |-> TRUE, check |-> check, blocks |-> blocks, count |-> Len(blocks),
   records |-> [i \in DOMAIN blocks |-> Record(blocks[i], check)],
   backward |-> 0, footcheck |-> check]

\* Chunks of no byte, of one, of several; data with and without padding; with and
\* without a BCJ filter and declared sizes.
Empty == Block(<<0>>, <<>>, TRUE)
Silent == Block(<<1, 1, 0>>, <<BCJ_ID>>, FALSE)
Short == Block(<<2, 0>>, <<>>, FALSE)
Aligned == Block(<<3, 1, 2, 0>>, <<>>, TRUE)
Filtered == Block(<<2, 4, 2, 1, 0>>, <<BCJ_ID>>, TRUE)

GoodStreams ==
  {Good(1, bs) : bs \in {<<>>, <<Silent>>, <<Short, Filtered>>, <<Filtered, Aligned>>,
                         <<Silent, Empty, Short>>}}
  \cup {Good(0, bs) : bs \in {<<Aligned>>, <<Short, Filtered>>}}

Base == Good(1, <<Short, Filtered>>)
With(block) == Good(1, <<block>>)

\* Wrong in the stream ...
BadStreams ==
  {[Base EXCEPT !.magic = FALSE], [Base EXCEPT !.check = 2], [Base EXCEPT !.check = 0],
   [Base EXCEPT !.count = 1], [Base EXCEPT !.count = 3], [Base EXCEPT !.backward = 1],
   [Base EXCEPT !.footcheck = 0],
   [Base EXCEPT !.records = <<@[2], @[1]>>],
   [Base EXCEPT !.records[1][1] = @ + 1, !.records[2][1] = @ - 1],
   [Base EXCEPT !.records[2][2] = @ + 1]}
\* ... or in a Block.
BadBlocks ==
  {With([Filtered EXCEPT !.reserved = TRUE]),
   With([Filtered EXCEPT !.filters = <<BCJ_ID + 1>>]),
   With([Filtered EXCEPT !.dict = DICT_MAX + 1]), With([Filtered EXCEPT !.dict = DICT_VALID + 1]),
   With([Short EXCEPT !.header_padding = 1]), With([Filtered EXCEPT !.padding = 1]),
   With([Filtered EXCEPT !.data[2] = CHUNK_MAX + 1, !.uncompressed = VLI_UNKNOWN]),
   With([Filtered EXCEPT !.error = 1])}
  \cup {With([Filtered EXCEPT !.compressed = @ + k]) : k \in {1, 2}}
  \cup {With([Filtered EXCEPT !.compressed = @ - 1])}
  \cup {With([Filtered EXCEPT !.uncompressed = @ + 1]), With([Filtered EXCEPT !.uncompressed = @ - 1])}

AllStreams == GoodStreams \cup BadStreams \cup BadBlocks
AllCases ==
  (AllStreams \X {"none"}) \cup ({With(Filtered)} \X {"cut", "corrupt"})

SomeFlips == {8}
SomeOffers == {0, 1, 100}
SomeRooms == {0, 2}
=============================================================================
