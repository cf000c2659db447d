------------------------------- MODULE Decoder -------------------------------
(***************************************************************************)
(* What xz_dec_run() promises its caller (xz_dec_stream.c:750-774 and      *)
(* xz.h:60-130), whatever is inside: a sound stream comes out as it went   *)
(* in, in any portions; the decoder pauses only for want of input or room; *)
(* it says that it is stuck just when two calls in a row have done nothing.*)
(* XzStream (the container) and XzFilters (LZMA2 and BCJ) implement it.    *)
(***************************************************************************)
EXTENDS Naturals, Sequences, SequencesExt

VARIABLES
  content,  \* what was packed
  size,     \* the bytes it was packed in
  sound,    \* the stream is as the packer left it, but its end may be missing
  given,    \* bytes of it that the caller has brought so far
  used,     \* ... and those the decoder has taken
  out,      \* what it has put out
  room,     \* how much more it may in this call
  busy,     \* a call is under way
  ret,      \* what the last one returned
  idle      \* calls in a row that did nothing

vars == <<content, size, sound, given, used, out, room, busy, ret, idle>>
stream == <<content, size, sound>>

Errors == {"XZ_MEM_ERROR", "XZ_MEMLIMIT_ERROR", "XZ_FORMAT_ERROR", "XZ_OPTIONS_ERROR",
  "XZ_DATA_ERROR"}

Init ==
  /\ size \in Nat /\ sound \in BOOLEAN
  /\ given = 0 /\ used = 0 /\ out = <<>> /\ room = 0
  /\ busy = FALSE /\ ret = "none" /\ idle = 0

Call ==
  /\ ~busy /\ ret \in {"none", "XZ_OK"}
  /\ busy' = TRUE
  /\ given' \in Nat /\ given' >= given
  /\ room' \in Nat
  /\ UNCHANGED <<stream, used, out, ret, idle>>

\* What a call may take and put out.
Progress ==
  /\ used' \in used..given
  /\ IsPrefix(out, out') /\ Len(out') <= Len(out) + room
  /\ sound => IsPrefix(out', content) /\ used' <= size

Answer(result) ==
  /\ busy /\ busy' = FALSE
  /\ Progress
  /\ ret' = result
  /\ room' = 0
  /\ UNCHANGED <<stream, given>>

\* Idle once, a caller may have brought nothing; idle twice, it is stuck. With all of a
\* sound stream at hand a pause means that there is more content to come: who asks for
\* just as much as there is learns of the end by the same call, and xz_read() relies
\* on it (module TarExtract).
Pause ==
  /\ Answer("XZ_OK")
  /\ used' = given \/ Len(out') = Len(out) + room
  /\ idle' = IF used' = used /\ out' = out THEN idle + 1 ELSE 0
  /\ idle' < 2
  /\ sound /\ given >= size => Len(out') < Len(content)

Stuck ==
  /\ Answer("XZ_BUF_ERROR")
  /\ idle = 1 /\ idle' = 2
  /\ used' = used /\ out' = out
  /\ used = given \/ room = 0
  /\ sound => given < size \/ Len(out) < Len(content)

End ==
  /\ Answer("XZ_STREAM_END")
  /\ idle' = 0
  /\ sound => out' = content /\ used' = size

Fail ==
  /\ \E error \in Errors : Answer(error) /\ (sound => error = "XZ_MEM_ERROR")
  /\ idle' = 0

Next == Call \/ Pause \/ Stuck \/ End \/ Fail

Spec == Init /\ [][Next]_vars
=============================================================================
