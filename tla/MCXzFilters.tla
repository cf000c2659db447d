---------------------------- MODULE MCXzFilters ----------------------------
(* Small instances of XzFilters for TLC: streams of one or two Blocks with a *)
(* dictionary of four or six bytes, good ones and ones that are wrong in one *)
(* place.                                                                    *)
EXTENDS XzFilters

Symbol(kind, byte, dist, len, cost) ==
  [kind |-> kind, byte |-> byte, dist |-> dist, len |-> len, inner |-> cost[1], due |-> cost[2]]
Free == <<0, 0>>
Now == <<1, 0>>
Later == <<0, 1>>
Both == <<1, 1>>
Lit(byte, cost) == Symbol("literal", byte, 0, 1, cost)
Match(dist, len, cost) == Symbol("match", 0, dist, len, cost)
Rep(n, len, cost) == Symbol("rep", 0, n, len, cost)

Lzma(control, props, symbols) ==
  [control |-> control, data |-> <<>>, symbols |-> symbols, props |-> props,
   more |-> 0, less |-> 0, longer |-> 0, shorter |-> 0]
Uncompressed(control, data) ==
  [control |-> control, data |-> data, symbols |-> <<>>, props |-> 0,
   more |-> 0, less |-> 0, longer |-> 0, shorter |-> 0]

Block(dict, chunks) == [bcj |-> FALSE, dict |-> dict, chunks |-> chunks]
Bcj(dict, chunks) == [bcj |-> TRUE, dict |-> dict, chunks |-> chunks]
Is(verdict, blocks) == [blocks |-> blocks, verdict |-> verdict]

\* A copy, a match longer than the dictionary that runs into itself, a literal behind it.
Wrapping ==
  Block(4, <<Uncompressed(1, <<1, 2, 3>>),
             Lzma(12, 1, <<Match(2, 6, Both), Lit(5, Later), Match(0, 2, Free)>>)>>)
\* All four latest distances, in one chunk and in the next; a reset of the state.
Repeating ==
  Block(6, <<Lzma(14, 0, <<Lit(1, Now), Lit(2, Free), Lit(3, Both), Lit(4, Now), Match(3, 2, Later),
                           Match(2, 2, Now), Match(1, 2, Both), Match(0, 1, Free), Rep(3, 2, Now)>>),
             Lzma(8, 0, <<Rep(2, 1, Later), Rep(3, 1, Now), Lit(6, Both), Rep(1, 2, Free)>>),
             Lzma(10, 0, <<Match(5, 7, Now), Rep(0, 1, Later)>>)>>)
Copied == Block(4, <<Uncompressed(1, <<9, 8, 7, 6, 5>>), Uncompressed(2, <<4>>)>>)
\* For BCJ: operands that end with a chunk, follow one another, overlap, end the Block.
Calls ==
  Bcj(6, <<Uncompressed(1, <<1, 14, 5, 0, 14, 14, 15>>),
           Lzma(12, 1, <<Match(3, 4, Both), Lit(15, Now), Lit(14, Free), Lit(2, Later)>>)>>)
Brief == Bcj(4, <<Uncompressed(1, <<14, 3>>)>>)
Far == Bcj(4, <<Uncompressed(1, <<3, 14, 5, 15, 1, 2, 14, 14, 0, 14, 6, 0>>)>>)

Good ==
  {Is("good", <<Wrapping>>), Is("good", <<Repeating>>), Is("good", <<Copied, Wrapping>>),
    Is("good", <<Calls>>), Is("good", <<Far, Brief, Copied>>)}

First == Lzma(14, 0, <<Lit(1, Now), Lit(2, Later)>>)
Then == Lzma(8, 0, <<Match(1, 3, Both)>>)
Bad ==
  {Is("bad", <<Copied, Block(4, <<Uncompressed(2, <<1>>)>>)>>),       \* no reset of the dictionary
    Is("bad", <<Block(4, <<First>>), Block(4, <<[First EXCEPT !.control = 12]>>)>>),
    Is("bad", <<Block(4, <<First, Uncompressed(1, <<1>>), Then>>)>>),  \* no properties
    Is("bad", <<Block(4, <<[First EXCEPT !.props = 2]>>)>>),
    Is("bad", <<Block(4, <<First, Uncompressed(3, <<1>>)>>)>>),        \* no such chunk
    Is("bad", <<Block(4, <<First, [Then EXCEPT !.symbols[1].dist = 2]>>)>>),  \* too far back
    Is("bad", <<Block(4, <<First, Uncompressed(1, <<1>>), Lzma(12, 0, <<Match(1, 1, Now)>>)>>)>>),
    Is("bad", <<Block(4, <<First, [Then EXCEPT !.longer = 1]>>)>>),
    Is("bad", <<Block(4, <<First, [Then EXCEPT !.shorter = 1]>>)>>),
    Is("bad", <<Block(4, <<First, [Then EXCEPT !.less = 1]>>)>>)}
Unsure == {Is("unsure", <<Block(4, <<First, [Then EXCEPT !.more = 1]>>)>>)}

AllStreams == Good \cup Bad \cup Unsure
SomeCorrupted == {Is("good", <<Wrapping>>)}
SomeGarbage == {Lit(3, Both), Match(1, 3, Later), Rep(1, 1, Free)}
SomeOffers == {1, 4, 100}
SomeRooms == {0, 1, 6}
=============================================================================
