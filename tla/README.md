# staticx: models, checks and proofs

staticx bundles a dynamic executable and its shared libraries into one
executable: the *generator* (Python, `staticx/`) packs them into a tar archive
and appends it to a *bootloader* (C, `bootloader/`, with the vendored `libtar/`
and `libxz/`); the bootloader unpacks the archive into a temporary directory,
patches the program there, runs it in a child process, forwards signals to it,
waits, removes the directory and ends as the program ended.

This directory holds TLA+ modules for the parts of it that can go wrong in ways
a test hardly reaches, the TLC configurations that check them, and TLAPS proofs.

## 1. Inventory

| Component | State | Operations | What is hard |
|---|---|---|---|
| **bootloader: life of a program** (`main.c`, `util.c`, `error.c`) | bundle directory, `child_pid`, `wstatus`, signal dispositions, environment | identify, create_tmpdir, extract_archive, get_real_prog_path, patch_app, setup_environment, run_app (fork, sigaction, waitpid, restore), sig_handler, cleanup_bundle_dir, return or raise | a handler that may run between any two steps; a child and its descendants; every call may fail; what the environment hands down (ignored signals, ignored SIGCHLD) |
| **bootloader: unpacking** (`extract.c`, `libtar/`) | position in the archive, header buffer with long names, decoder, destination directory | mem_read, xz_read, th_read, tar_extract_*, tar_close | keeping one's place; truncated input; sizes through an `int`; where the decoder reports the end |
| **bootloader: patching** (`elfutil.c`, `mmap.c`, set_interp, set_rpath) | mapped ELF image | find and overwrite PT_INTERP and DT_RPATH | boundaries of strings and tables; agreement with what the generator had patchelf prepare (`elf.py`, `constants.py`) |
| **libxz: container** (`xz_dec_stream.c`) | position in the .xz format, sizes and sums so far, the caller's two buffers | xz_dec_run over any split of input and output | resuming anywhere; end and error reports |
| **libxz: filters** (`xz_dec_lzma2.c`, `xz_dec_bcj.c`) | chunk header, dictionary, the input kept between calls, latest distances; bytes BCJ holds back | xz_dec_lzma2_run, lzma2_lzma, lzma_main, dict_*, xz_dec_bcj_run | input and output that end anywhere, a dictionary that wraps with a match pending, resets that may be missing, reading without checking for the end |
| **generator: libraries** (`api.py`, hooks) | `_added_libs`, members of the archive, temporary copies | add_library, _handle_lib_symlinks, check_library_rpath, hooks | many paths to one file, chains of symbolic links, libraries found several times; an RPATH is a list of directories and audited as one string |
| **generator: output** (`api.py`, `archive.py`, `utils.py`) | temporary files, archive, output | generate, _cleanup | a failure at each step |
| libnssfix, command line, `extract.py`, build scripts | none or trivial | | |

The generator's archive is the bootloader's input (module TarExtract has both
sides of the format). Unpacking is one phase of the bootloader's life (module
Bootloader has it as file-by-file steps that may fail anywhere). The bootloader
and the application share the bundle directory, the process group and signals.
The program in the bundle has been prepared by the generator for the patching by
the bootloader; the kernel and the dynamic loader read the outcome (module
ElfPatch has all three). xz_dec_run() calls the filters on the caller's own
buffers; container and filters each keep state between calls.

What makes the components correct:

* life of a program: the application never lives without its whole, patched
  bundle; the caller sees the application's status and nothing made up; the
  directory is removed; signals reach the application and nobody else; the
  bootloader ends after it;
* unpacking: what is accepted is what was packed, what was packed is accepted,
  and it ends whatever the input is;
* decoding: the content does not depend on how input and output are portioned; the
  decoder calls itself stuck, finished or broken only when it is; corruption is
  noticed; no buffer is overrun; no call goes on for ever;
* patching: what starts is loaded from its bundle and nowhere else, it starts
  whenever the paths fit, and nothing but the placeholders is overwritten;
* libraries: every name the loader will look for leads to the file it leads to
  on the build host; nothing packed redirects the loader elsewhere; files of the
  host are not modified.

## 2. Modules

| Module | Models | Correspondence |
|---|---|---|
| `Launcher` | the promise of the bootloader to its caller, in five variables | no code of its own: `Bootloader` implements it |
| `Bootloader` | `main.c`, `util.c`, `error.c` | `pc` is the next call of main(); `childPid`, `wstatus` are the C variables; `disposition`, `pending`, `frames` are what the kernel and the stack hold of signals; one action per call, `FatalError` for each call that ends in `error(2, ...)` |
| `BootloaderProofs` | theorems about it | |
| `MCBootloader` | instances | |
| `TarExtract` | `extract.c`, `libtar`; `archive.py` and Python's tarfile as the definition of the streams (`Encode`, `Stream`) | a stream is a sequence of blocks; `pos` the blocks read, `stage` the call of th_read_internal that th_read is in, `longlink`/`longname`/`header` the fields of `th_buf`, `tree` the destination |
| `TarExtractProofs` | theorems about it | |
| `MCTarExtract` | instances | |
| `Generator` | `api.py` (class StaticxGenerator), both hooks, the moving and deleting helpers of `utils.py` | `pc` is the next step of generate(); `queue` the libraries that a loop has still to hand to add_library, `then` what follows the loop, `lib` add_library's `libpath` and the copy it works on; `added` is `_added_libs`, `members` the archive, `temps` the temporary files that exist and `known` those the attributes name, which is what `_cleanup` goes by. The host's files are `job.nodes` (paths to inodes or links), what ldd and the hooks find are inputs |
| `GeneratorProofs` | theorems about it | |
| `MCGenerator` | instances | |
| `XzStream` | `xz_dec_stream.c` as `xz_read` of `extract.c` drives it; Python's lzma as the definition of the streams (`Encode`) | `b` is `struct xz_buf` (`out` all output so far, `room` what may follow), `s` is `struct xz_dec`; one action per case of dec_main's switch, with its loops byte by byte; `Return` is the rest of xz_dec_run (the counting of calls without progress), `Call` the caller |
| `XzStreamProofs` | theorems about it | |
| `MCXzStream` | instances | |
| `XzLzma2` | `xz_dec_lzma2.c` in multi-call mode | `z` is `struct xz_dec_lzma2` with `dict`, `rc`, `temp` (as long as its `size`), `sequence` and the rest under their C names; `b` is `struct xz_buf`; `pc` says in which of xz_dec_lzma2_run, lzma_main and dict_flush control is. One action per case of the switch, `MainSymbol` per round of lzma_main's loop. `raw` is history: all that was decoded since the last reset of the dictionary |
| `XzFilters` | `xz_dec_bcj.c` (x86) around `XzLzma2`, with what dec_block and xz_dec_run do | `f` is `struct xz_dec_bcj`, `f.at` the call of xz_dec_lzma2_run it waits for; `Call` and `Return` are the caller's side of xz_dec_run |
| `XzLzma2Proofs`, `XzFiltersProofs` | lemmas about each step of LZMA2; those about BCJ and the caller, and the theorems | |
| `MCXzFilters` | instances | |
| `Decoder` | the promise of xz_dec_run to its caller | no code of its own: `XzStream` and `XzFilters` implement it |
| `ElfPatch` | `patch_elf` and its callers (`elf.py`, `api.py`, the glibc hook); find_archive, patch_app, set_interp, set_rpath, `elfutil.c`, `mmap.c`; then execve and the dynamic loader as readers | an image is its program headers, section headers, dynamic entries and bytes; `tmpprog` is the program as it is packed, `prog` as it is extracted and then mapped; one action per step of generate() and per function of the bootloader |
| `ElfPatchProofs` | theorems about it | |
| `MCElfPatch` | instances | |
| `SequenceInduction` | lemmas for the proofs: induction over a set of numbers, and with it what FlattenSeq and FoldLeft make of a sequence | |

In each module a definition whose comment calls it a slip (`ForgetToPatch`,
`RestoreOnlySigint`, ...) is not part of the specification: it is a way the code
could plausibly be wrong, and `PROJECT.json` ("mutants") says which property
notices it.

The modules meet at these places. `Bootloader!ExtractMember` and `ExtractDone`
are what `TarExtract` says of a stream that is accepted: all its names are there.
`Bootloader!PatchApp` is one step of which `ElfPatch` has the inside.
`TarExtract`'s choice of where the decoder reports the end of a compressed stream
(the read that returns the last byte, or the one after) is what `Decoder!Pause`
leaves. `XzStream` has a chain of filters that reads, decodes, holds back
and writes; `XzFilters` has the real one and no container: both implement `Decoder`.
`Generator!NoNameTwice` is the assumption `TarExtract!Ordinary` makes of the
archive. Composed in one state space are LZMA2 with BCJ and their caller, and the
generator's patching with the bootloader's and the loader; elsewhere these are
agreements by definition and by property.

## 3. Runs

`tlc -config X.cfg M` for each row; every one takes from seconds to two minutes.

| Run | Question |
|---|---|
| `bootloader` | Whatever is inherited, sent or fails: does the bundle outlive the application (`BundleOutlivesApp`), is the exit status one that is accounted for (`StatusIsAccountedFor`), is the directory gone in the end (`CleansUpBehindItself`), is the application left alone only by force (`OrphansOnlyByForce`), who gets forwarded signals (`StraysOnlyAfterReaping`), does a signal that was inherited ignored end the bootloader (`IgnoredSignalsSpare`)? Does main() implement `Launcher`? Does a caught signal reach the application (`TerminationReachesApp`), does the bootloader end after it (`EndsAfterApp`)? The run also checks the inductive invariant `IInv` of the proofs |
| `tar_extract` | Does the reader keep its place (`InSync`), accept only what it unpacked whole (`AcceptedIsWhole`), accept every whole archive (`WholeIsAccepted`), end on every input (`ComesToAnEnd`)? |
| `generator` | Does every name lead in the bundle where it leads on the host (`NamesLeadHome`), once (`NoNameTwice`); does the loader always get to the bundle, and begin there with its own libraries (`BundleIsSearched`); are the host's libraries (`HostUntouched`), the old output (`OutputOldOrWhole`) and the temporary directory (`NothingLeftBehind`) left as they should be; does it end (`ComesToAnEnd`)? The run also checks the proofs' `IInv` |
| `xz_stream` | Does the verdict depend on the portions (`VerdictIsRight`); is the container a `Decoder` to its caller, with the content as it was, pauses only for want of input or room, XZ_BUF_ERROR only when stuck, and the end reported with the last byte (`ImplementsDecoder`); is the caller released (`CallerIsReleased`)? |
| `xz_filters` | Is the dictionary the last bytes decoded, whatever wraps or is pending (`DictionaryIsHistory`); do the allowances for reading ahead suffice (`StaysInBuffers`); are chunks without their resets, properties or sizes noticed (`BadIsNoticed`); is the chain of filters a `Decoder`, although LZMA2 keeps input and BCJ output back (`ImplementsDecoder`); does every call return (`CallsReturn`)? |
| `elf_patch` | Is what starts loaded from its bundle (`LoadsFromBundle`), does it start just when the paths fit (`StartsIffItFits`), is nothing else overwritten (`OnlyPlaceholdersChange`)? The run also checks the proofs' `IInv` |
| `bootloader_storm`, `bootloader_cleanup`, `tar_close`, `tar_hardlink`, `generator_links`, `generator_audit` | One statement each of the documentation or a comment that the code does not keep: section 6 |

Bounds, and why they are enough:

* **Bootloader**: four signals, one for each way they can be treated (two
  forwarded, one that may be inherited ignored, one uncatchable); `MaxSignals` = 2
  sent from outside, which is what it takes to interrupt a handler with the
  other signal and to have one signal wait while its own handler runs; the
  signals the handler and raise() send are not bounded. Two archive members, so
  that extraction and removal have a middle; one name the application may create
  behind nftw's back; exit statuses 0 and another; all operations may fail; all
  combinations of a kept bundle, ignored SIGCHLD and strays, and the inherited
  dispositions with a kept bundle or not. That the safety properties hold in
  every other environment is proved (section 5).
* **TarExtract**: blocks of two bytes, so that a file may be empty, part of a
  block, a block, or more; an int that wraps at 16, so that a size may be negative
  or wrap to something small; records of 4 blocks; up to three members of all
  kinds in all pairs, cut at every block and within one (`ragged`).
* **Generator**: three paths, two of which share a name in different
  directories, in every combination of files, hard links and symbolic links: this
  has chains, circles, shared ends, names that come twice; and paths that are not
  there, one of them with the name of one that is, which add_library passes over.
  Every RPATH of up to two directories of three kinds, which is what it takes to hide one
  behind another, and RUNPATHs with and without one, with and without stripping and
  hooks. Every operation may fail in every step, failing deletions included, and
  rename() on any file system.
* **XzStream**: bytes of 4 bits, of which an integer uses 3 and a second byte at
  most; checks of two bytes, headers of five. Of a stream it is taken for granted that the
  data of a Block ends with its end mark, that sizes and counts fit a VLI, and that the
  Footer's size of the Index fits its field. Streams of none to three Blocks,
  with chunks that give no byte, one or several, with and without padding, BCJ
  filter and declared sizes; 23 streams that are wrong in just one place; one stream
  cut behind each of its bytes and one with each byte changed. A call brings
  nothing, one byte or the rest, and has room for nothing or two bytes: with one
  byte at a time the decoder stops in every state there is. The CRC is a
  toy polynomial: with the error patterns used it misses none of them, which is what is
  needed of it here, and a real one would not tell the states apart better.
* **XzLzma2, XzFilters**: the constants keep their relations. A symbol costs at most
  2 bytes (20) and LZMA_IN_REQUIRED is one more, so that input ends before, in and
  behind a symbol; the first 2 bytes (5) of a chunk fill the range decoder; a
  dictionary of 4 or 6 bytes is shorter than the matches, the chunks and the content.
  Five good streams: copies, matches that run into themselves over the end of the
  dictionary, all four latest distances within a chunk and across chunks and resets,
  two and three Blocks, BCJ operands at the ends of chunks, calls and Blocks; ten
  with a chunk that is wrong, and one that declares a byte too much, which the range
  coder may take for sound; one stream with any byte changed. A call brings one,
  four or all bytes and has room for none, one or six: there are calls that end
  in each state. What wrong bytes decode to is any of three symbols.
* **ElfPatch**: placeholders of 6 bytes (256), directories from 2 to 7; six programs
  with none, one or both of DT_RPATH and DT_RUNPATH, strings that share their end with
  another's, no interpreter; seventeen images as nobody prepared them, one for each
  check of set_interp and set_rpath; two launches, the second from the packed
  program again.

## 4. Fairness

* `Bootloader`: `WF(BootloaderStep)`, the kernel goes on running a process that
  can run, handler or main program; `WF(ChildStep)`, likewise the child until it
  is the application, with signals that kill it taken when they have come.
  Nothing says that the application ends or that anybody sends a signal;
  `EndsAfterApp` starts from an application that has ended. It excludes
  descendants that write into the directory for ever, and the storm of section 6.
* `TarExtract`: `WF(Step)`: one thread without waiting.
* `Generator`: `WF(Generate)`: one thread; `Failure` is not fair, nothing need
  fail. Links of one name in a circle are excluded from `ComesToAnEnd`: the code
  follows them for ever, but a host with such links has no library to follow.
* `XzStream`: `WF(Next)`: one thread, and `xz_read` calls again for as long as
  the decoder says XZ_OK. What a call brings is left to chance: `CallerIsReleased`
  holds though the caller may never bring the missing input, because two calls in
  a row without progress end in XZ_BUF_ERROR.

* `XzFilters`: `[]<>(pc = "caller") \/ []<><<pc # "caller">>_vars`, which is
  `WF(dec_block)` written out (within a call a step is always possible, and each changes
  something): one thread. The caller need not call again; `CallsReturn` is about
  the loop within one call.
* `ElfPatch` has no liveness: straight-line code.

## 5. Proofs

What TLC shows for the instances of section 3 is proved here for every value of the
constants: `tlapm` checks six components' theorems. Each goes the same way: an
inductive invariant `IInv` holds at the start and is kept by every step; the properties
follow from it. Runs check three of the six. Those of `TarExtractProofs`,
`XzFiltersProofs` and `XzStreamProofs` are stated in the terms of their lemmas. The first
two were given to TLC once for the instances of `tar_extract` and `xz_filters`, where all
129,047 and all 573,366 states satisfy them, the third for small ones of `xz_stream`. A proof that the steps keep it has a lemma or a case per action.

### The bootloader's control (`BootloaderProofs`)

For every set of signals, files, exit codes, faults and environments and every bound
`MaxSignals`:

| Theorem | |
|---|---|
| `TypeCorrect` | `Spec => []TypeOK` |
| `Invariance` | `Spec => []IInv` |
| `BundleSafe`, `StatusFaithful`, `CleanUpComplete`, `NoOtherOrphans`, `HandlerTargets`, `IgnoredStaysHarmless` | the six safety properties of run `bootloader` |
| `Refinement` | `Spec => ImplementsLauncher` |

They rest on the named ASSUMEs of `Bootloader` (SIGINT and SIGTERM are signals and
catchable, exit codes are bytes, the application's own names are not the
archive's, an uncatchable signal is not inherited as ignored, None is no status),
which TLC evaluates for the instances.

The safety properties are not inductive. `IInv` adds what the main program relies
on at each step:

* `TypeInv`: types; only the forwarded signals have the handler; past waitpid
  there is a status (so that raise() has a signal to raise);
* `ControlInv`: there is a child exactly after fork, it has been reaped exactly
  after waitpid succeeded, child_pid says so until `child_pid = 0`, no handler is
  set before the fork, and the status known is the child's;
* `BundleInv`: what is in the directory at each step up to the fork, and that nothing
  is removed before waitpid. Without it `BundleOutlivesApp` is not kept by the fork;
* `SignalInv`: whatever is pending or being handled was sent from outside, or is
  the signal of raise(); after restore_sig_handler no handler is left. Without
  it death by a signal could not be accounted for;
* `ResultInv`: the statements about the end;
* `SparingInv`: a disposition inherited as ignored stays so unless the signal is one of
  those forwarded, and those are handled or ignored until the child is reaped. Without
  it nothing is known of what raise() or a pending signal meets.

The proof that a step keeps one of these parts has a step per action that can
disturb it; the actions that cannot are handled in one. `Refinement` maps the child's
state to "none", "alive", "ended", and the directory to "none", "partial",
"whole", "gone"; each action is then one of `Launcher`'s or a stutter, which needs
`IInv` for the fork (the directory is whole), the removal (the status is known)
and the end.

### The generator (`GeneratorProofs`)

For every host (any paths, inodes, links between them, tags), every job, every program's
name and every set of steps that may fail:

| Theorem | |
|---|---|
| `TypeCorrect`, `InvariantCorrect` | `Spec => []TypeOK`, `Spec => []IInv` |
| `NamesAreApart` | `Spec => []NoNameTwice` |
| `NamesAreHome` | `Spec => []NamesLeadHome` |
| `LoaderGetsToBundle` | `Spec => []BundleIsSearched` |
| `HostIsUntouched` | `Spec => []HostUntouched` |
| `LeavesNothingBehind` | `Spec => []NothingLeftBehind` |
| `OutputIsOldOrWhole` | `Spec => []OutputOldOrWhole` |

The assumptions say what an input is, and one more: no library has one of the names that
the generator makes up (`ReservedAssumption`), nor has the program one of these three
names: `NoNameTwice` would be false otherwise. archive.py looks at one of them. That the
host has finitely many paths (`PathsAssumption`) is what ends the following of its links.

What makes the properties inductive:

* `TypeOK` says more than types: in the steps that work on a library there is one;
* `InOrder`: which loop's end comes when, without which nothing keeps add_program or the
  glibc hook from adding their members again;
* `FilesKnown`: the attributes name all temporary files unless a copy was cut short, which
  is what makes `_cleanup` enough;
* `OutputUntouched`: nothing is written before the last step;
* `Audited`: all members are what check_library_rpath lets by, and from its audit on so is
  the library at hand, whichever way it took through patching and stripping; `HookPassed`:
  so are PyInstaller's libraries, with `dangerous_only`, from the hook on. What this
  means to the loader is another matter: it reads directories (`SearchPath`) where the
  audit reads a string, and `PathBeginsInBundle` and `BundleOnPath` say how far the one
  follows from the other. That the loader stays in the bundle does not: section 6;
* `NamesKnown`: while nothing has gone wrong names are apart, and each name in the archive
  is in `_added_libs`, or it is a made-up one whose step is over. The check of
  `_added_libs` before a member is added needs the converse to be enough;
* `HomeInv`, for `NamesLeadHome`: every link and library in the archive is `Settled`, that
  is the members right after it lead on, link by link, to a file (or to another name of
  one) that a path of its name leads to on the host; or it is `OnTheWay`, which the library
  at hand will settle when it is stored (`Placed`). What `_added_libs` lists is there
  (`Listed`), and each list of libraries has been seen to when its phase is over, by paths
  that are in the archive, are waiting, or are in the PyInstaller archive (`Phases`).

What `HostFile` and `BundleFile` compute is the other half of that proof. Both follow links
as often as there are paths or members. `EndsEarly` is the pigeonhole argument that on the
host this is once more than any chain needs that ends, hence that a link leads where the
path it names leads (`HostFileOfLink`), which is what makes a turn of the loop over the
links keep `OnTheWay`. In the archive the members of a chain lie one behind the other, so
that it is no longer than the archive (`ChainLeads`), with the interpreter's name before
it. A path that does not exist leads nowhere on the host, but add_library passes over it
when its name is in the archive: therefore `NamesLeadHome` compares only paths that are
there.

### Unpacking (`TarExtractProofs`)

For every set of archives (any sequences of members: files, links, directories, devices;
any names, any of them long), every size of a block, of a record and of an int, compressed
or not, and a stream that ends anywhere:

| Theorem | |
|---|---|
| `TypeCorrect`, `InvariantCorrect` | `Spec => []TypeOK`, `Spec => []IInv` |
| `ReaderKeepsItsPlace` | `Spec => []InSync` |
| `WhatIsAcceptedIsWhole` | `Spec => []AcceptedIsWhole` |
| `WhatIsWholeIsAccepted` | `Spec => []WholeIsAccepted` |

The assumptions are `TarExtract`'s: a block is not empty and fits an int's positive
half, an int has an even number of values, a record has at least one block, `None` is no
name. `Ordinary` and what else the properties presuppose are part of the properties.

A stream is `FlattenSeq` of what `Encode` makes of the members, so the proof has two
halves. The first says what lies where. FlattenSeq is defined by a recursive
function, of which it must be shown that there is one; the library's induction
theorems cannot be used, but that a set of numbers has a least element can
(`NatMin` in `SequenceInduction`), and induction for a *set* follows (`SetInduction`). From
it: one sequence more is one concatenation more (`FlattenMore`), a longer prefix goes
on as a shorter one begins (`PrefixGrows`), and `BlocksOf`: behind the blocks of n members
there are, of member n + 1, three blocks for a long link and three for a long name if
it has them, its header, its data, and at least two blocks more.

The second half follows the reader. `IInv` is `InputInv` (the stream is the archive's, as
far as it goes), `TypeOK`, and one of

* `BetweenMembers(n)`: th_read begins. Of ordinary members, with no blank block seen yet,
  `pos` is where member n + 1 begins; a first blank block lies behind all members. Of
  others only this much is known: what lies between here and the next header is
  data. A size that wraps in the int makes the reader stop short of the file's end, and
  it takes the rest for headers;
* `InMember(n)`: in or behind a long link, in or behind a long name, at the switchboard, or
  with the file open, always at a known distance from the member's beginning. `stage`,
  `longlink`, `longname` are what that place implies, which is why nothing is left over
  from the member before;
* `Accepted(n)`: through, with n members unpacked;
* failed, and then the archive was not `Whole`.

What makes the data arrive is that the size is below the int's range: then what
tar_extract_regfile() reads is what BlocksFor() says, and just the blocks of `Data`
(`TransferDataInv`). What makes the names arrive is that between open() and write() the
name still leads to the new file: `Resolve`, a recursion over a chain of links, is not
changed by a new file at the end of the chain (`ResolveOpened`, by induction again).

### Patching (`ElfPatchProofs`)

For every program and image, every interpreter's name, directory and name of a
temporary directory over any alphabet, and both lengths of placeholders:

| Theorem | |
|---|---|
| `TypeCorrect`, `InvariantCorrect` | `Spec => []TypeOK`, `Spec => []IInv` |
| `StartsIfItFits` | `Spec => []StartsIffItFits` |
| `OnlyThePlaceholdersChange` | `Spec => []OnlyPlaceholdersChange`, of any image |
| `WhatStaticxMadeLoads` | `Spec => [](made # "odd" => LoadsFromBundle)` |
| `WhatIsRegularLoads` | `Spec => []LoadsFromBundle` if every image of other makers is `Regular` |

The assumptions: programs are images; a PT_INTERP is not empty (with an empty one
set_interp's `interp_size - 1` wraps); no path has a NUL in it; a program with an
interpreter is `Linked` as a linker does it: its sections are there, `.dynamic` is as
long as its entries, `.dynstr` lies in the file and ends with a NUL, the names that
DT_NEEDED entries give begin in it.

`IInv` is `TypeOK`, `StartsIffItFits` and

* `InOrder`: the order of the steps and what may be packed by then;
* `Packed`: what patchelf has prepared (`IsPrepared`): one DT_RPATH, a string of
  MAX_RPATH_LEN bytes inside the table that shares no byte with a needed library's
  name, no DT_RUNPATH, an interpreter of just MAX_INTERP_LEN + 1 bytes that ends in front
  of the table, and the needed names that were there. It is followed through each of
  patchelf's calls: what is appended, what moves, that strings move with their table
  (`StringEntryAdded`, `StringsMoved`, `NeededKept`);
* `Patched`: at each step of the bootloader the program is the packed one with no, one or
  two `strcpy`s, and the checks that were passed before them.

`OnlyPlaceholdersChange` holds even of images in which the two strings overlap, and there
the proof has its one surprise: writing the interpreter's path may lengthen the string
that set_rpath() then measures, so that it allows more than the old RPATH's length; but
what it gains lies in the interpreter's segment (`TwiceWritten`).

`LoadsFromBundle` is about what *staticx has made*, for which it needs nothing. For
other images it is false when the strings overlap, when one of them leaves the file or
when `.dynamic` is cut off in front of a later DT_RPATH: set_rpath() then overwrites the
path that set_interp() has written, or the loader takes another string. `Regular`
excludes just these; TLC evaluates it for the odd images of `MCElfPatch`.

### LZMA2 and BCJ (`XzLzma2Proofs`, `XzFiltersProofs`)

For every set of streams (any Blocks with any sizes of dictionaries, any chunks with any
control bytes, sizes and symbols, sound or not), any byte of them changed, whatever
wrong bytes decode to, and every way the caller portions input and output:

| Theorem | |
|---|---|
| `TypeCorrect`, `InvariantCorrect` | `Spec => []TypeOK`, `Spec => []IInv` |
| `DictionaryIsRight` | `Spec => []DictionaryIsHistory` |
| `BuffersSuffice` | `Spec => []StaysInBuffers` |

The assumptions say what a stream is (`StreamsAssumption`: at least one Block, a
dictionary is not empty, a chunk that is copied has data), that garbage is decoded as
symbols (`GarbageAssumption`), and what the caller brings are numbers
(`CallerAssumption`). The scaled-down constants (LZMA_IN_REQUIRED, TEMP_SIZE, ...) are
definitions, so that here the theorems speak of the model's sizes; that a symbol costs less
than LZMA_IN_REQUIRED bytes is part of what a symbol is.

`DictionaryIsHistory` is an invariant of the buffer's contents, and by itself not inductive:
that a match copies what lies where it should needs the positions, and they need the
round's and the chunk's sizes. `Sound(label, x, buf, history)` has all that is known of
the decoder `x` when control is at `label`:

* `DictInv`: until a Block's first chunk nothing is known of the dictionary and only
  a control byte can be read; then it `Holds` the end of the history, and outside of a
  round nothing waits to be flushed and there is space (dict_repeat relies on the latter);
* `RoundInv`: in lzma_main(), and until dict_flush(), what is left of the round
  fits into the dictionary, the output and the chunk. Without it neither the
  subtraction from `uncompressed` nor the copy into the output is safe;
* `ChunkInv`: input is kept, and a match is pending, only while symbols are decoded;
  what the states of a header leave to the next one; a match that is pending has a
  distance that is still inside, which is why it may go on without being checked again;
* `RcInv`: the range decoder has read no further than `in_limit` and one symbol; reading
  from temp, no more of it stems from the caller than the caller has brought, which is what
  makes lzma2_lzma()'s `in_pos += rc.in_pos - temp.size` come out right.

`Lzma2Step` says that every step of xz_dec_lzma2_run() leads from a sound state to a sound
one, with no room of the output lost. The dictionary's part rests on three lemmas:
`BackIs` (where a distance leads, around the end of the buffer), `WrittenHolds` (bytes
that are written are the last of the history, and those before stay unless overwritten)
and `RepeatedIs` (a match that runs into itself, and over the end, copies what
dict_get() would have found byte by byte).

`IInv` adds the caller and BCJ: a call goes on only while all is well (`CallInv`), and
while LZMA2 is called BCJ has nothing filtered left and knows where its own bytes begin
(`BcjCalls`), so that what it takes back into temp fits there. bcj_x86() is defined by a
CHOOSE of the set of opcodes that are converted, as each is decided by those before it;
`ConvertedExists` proves that there is one, by induction from left to right.

That what is decoded are symbols and bytes has to be proved of the packer, whose
encoders are folds. FoldLeft is defined by a recursive function, of which `FoldExists`
shows that there is one and `FoldStays` that it stays in a set that its steps stay in;
`FoldSymbols`, `FoldChunks` and `FoldBlocks` say so of the three encoders (one lemma for
each, as a lemma cannot take an operator), and `Packed` of whole streams.

### The container (`XzStreamProofs`)

For every set of streams of the format (any Blocks, of any data, with or without the BCJ
filter, declared sizes, padding and checks), whole, cut anywhere or with any byte changed,
and every way the caller portions input and output:

| Theorem | |
|---|---|
| `TypeCorrect` | `Spec => []TypeOK` |
| `InvariantCorrect` | `Spec => [](TypeInv /\ SoundInv)` |
| `SoundVerdict` | `Spec => [](Sound => VerdictIsRight)`: what was packed is accepted, and of a stream that was cut nothing is said |
| `Refinement` | `Spec => ImplementsDecoder` |

The assumptions say what a stream is (`CasesAssumption`, with `Lzma2Data`, `Vli` and
`BackwardSize`; no more than section 3 says), what may become of a byte
(`FlipsAssumption`), that the caller brings numbers (`CallerAssumption`) and that BCJ holds
back at least one byte (`BcjAssumption`). Checks of two
bytes and integers of up to two are definitions, so that here, too, the theorems speak of
the model's sizes.

`Refinement` is about all streams: on a bad or corrupt one the caller's buffers are
respected, a call pauses only for want of input or room, and XZ_BUF_ERROR follows just
two idle calls. `TypeInv` is all that this needs. It is `TypeOK` and

* `Going`: what one part of the format must leave to the next as long as no error is
  reported. `pos` is behind no field it counts, `temp` is empty where it is not filled, and
  while a Record is read there are fewer Records than Blocks;
* `CallInv`: `allow_buf_error` is set just after a call that did nothing, and a second one
  in a row is what reports XZ_BUF_ERROR. When a call returns XZ_OK it `Waits`.

There is one lemma per action of dec_main, which says that it goes on or returns as it
should (`Outcome`), and one for the counting in xz_dec_run().

Of a good stream `Decoder` promises the content, and there the proof goes like that of
`TarExtractProofs`. Its first half says what lies where: `Encode(d)` is the header,
the Blocks, the Index and the footer one behind the other (`BlockAt`, `DataAt`,
`PaddedTo`, `IndexAt`, `FooterAt`), and reading inverts writing:
`VliIsRead` for integers, whether their bytes come in one call or two, `HeaderIsRead` for
Block Headers with their optional fields, and `CrcConcat` for a sum that is continued with
each portion.

The second half follows the decoder. `SoundInv` says that it is at one of ten places of
the format (`Follows`), from `InStreamHeader` to `InStreamFooter`. Each says where in
the stream the input is, what is out, and what is known of the counts, sums and hashes, as
functions of `in_start` and `out_start`: what a call has read since then is counted when it
returns, or where the part ends, whichever comes first. This is the reason why nothing is
counted twice or not at all. In particular

* `Decodes`: the bytes of a Block's data that are read stand for chunks of which some are
  out, some ready, and one is being decoded; BCJ may hold back the last ones;
* `Counts`: `compressed` and `uncompressed` are what was read and put out up to the start of
  this call, and the check's sum is that of the same bytes;
* `HashIs`: the sums of the Blocks' hash are those of the Records up to this Block, and the
  Index's hash is that of the Records read, so that the two are equal at the end of the
  Index and at no time before is the Index's larger (which dec_index would refuse).

`GoodOutcome` is `Outcome` for good streams, again with one lemma per action: it goes on to
the next place, pauses at this one, or reports the end with all input read and all content
out. An error is no outcome but for a failing allocation. `Followed` makes of a place that
not all of the input has been read before the end, so that a cut stream is never accepted,
and `OutBegins` that what is out is the start of the content.

### What stays model-checked

* Liveness (`TerminationReachesApp`, `EndsAfterApp`, `ComesToAnEnd`,
  `CallerIsReleased`, `CallsReturn`): fairness and ENABLED are out of the prover's reach.
* `XzStream`'s `VerdictIsRight` for bad and corrupt streams. It is true of the instances,
  which are wrong in one place; of a stream that is wrong in several the first place
  decides, and of a corrupt one whether its CRC happens to be right.
* `XzFilters`' `BadIsNoticed`, which goes by the verdict that the instance gives a stream:
  as a theorem it would first need a definition of a bad one. `XzFilters`'
  `ImplementsDecoder`, which needs to know of each byte read what `Pack` meant by it, across
  chunks, resets and two filters.

## 6. Where code and documentation differ

1. `bootloader_storm`: a SIGINT or SIGTERM between `child_pid = 0` (main.c:358)
   and the restoring of the handlers runs `kill(0, signum)`: the whole process group
   is signalled, the bootloader among them, whose handler does the same again,
   and it never ends nor cleans up.
2. `bootloader_cleanup`: with SIGCHLD inherited as ignored waitpid fails
   (ECHILD), and the bootloader ends with status 2 and leaves the directory.
3. `tar_close`: for an uncompressed archive `ctx->xzdec` is what malloc returned
   and xz_dec_end gets it; the comment on the field says "NULL otherwise".
4. `tar_hardlink`: a file that tarfile met under two names is archived as a hard link,
   which the bootloader resolves in the current directory instead of its own.
5. `generator_links`: two links to one library end in an InternalError, a chain that
   comes back to a name in a NameError (the message names an undefined variable).
6. `generator_audit`: the bundle of this run's only job shows two differences at once, in
   the RPATH of a library that was added and in that of one of PyInstaller's.
   * For the former, is_dangerous looks at how the whole list begins.
     `$ORIGIN/lib:/usr/local/lib` is kept, and as a bundle has no directory `lib`, the
     loader looks in the target's /usr/local/lib before the bundle. The documentation says
     that RPATH and RUNPATH of any added library are stripped, so that only code of the
     bundle runs; the code strips what fails the audit.
   * For the latter, check_library_rpath with `dangerous_only` lets every RPATH pass,
     absolute ones too; the documentation allows those below $ORIGIN.

Of smaller disagreements, met on the way and without consequence, the modules keep
what the code does: xz_dec_lzma2.c:33 says `pos <= limit` is always true of the
dictionary, but dict_uncompressed moves pos and no limit; :36 says `allocated <=
size`, and `allocated` is never set, so that every Block allocates anew; :241 says
need_dict_reset "is false before the first chunk", where it is true.

## 7. Not modelled

* The range coder's arithmetic: a symbol is decoded as it was encoded iff the
  bytes so far, the number of symbols learned from and the bytes of the dictionary
  that choose the probabilities are the right ones; otherwise anything comes out. That
  rc_bit inverts the encoder is taken as given, and so are the literal coder's lc
  and lp, of which only the mask for positions is left.
* The other architectures' BCJ filters: stateless conversions, of which one is built at
  a time; the x86 filter's operand is scaled down to two bytes, and one of the three
  reasons of its mask not to convert is left.
* xz_dec_lzma2_reset's refusals (dictionaries larger than allowed) are in `XzStream`.
* ELF images whose tables lead out of the file: the bootloader does not check them, and
  neither patchelf nor the generator makes them. An RPATH whose offset is just the
  size of .dynstr passes set_rpath's check; no linker writes one.
* RPATHs that is_dangerous takes for something else than the loader does: `${ORIGIN}`,
  which is removed although it is harmless; `$ORIGINAL`, which only begins like
  `$ORIGIN`; an empty one. What a RUNPATH lists: none is kept. RPATHs that a library
  inherits from the library that needs it: they are lists of the same kind.
* Stripping before patching, and strings that patchelf finds room for in place: it is
  modelled as always moving what grows. `--remove-rpath` leaves its entry's place in
  `.dynamic`, retagged, where patchelf closes the gap: nobody looks for the tag.
* CRC64 and XZ_DEC_ANY_CHECK, which the build leaves out; the decoder's single-call mode,
  which nobody uses.
* The bootloader stops reading at the archive's second blank block: a
  compressed archive that lost only what follows (padding, Index, footer) passes.
  `TarExtract` has this (`AcceptedIsWhole` is about the members).
* Sizes of exactly 4 GiB - 1: the int is -1, like a failed write(); `Ordinary`
  leaves them out.
* File modes, times and owners, device numbers, nested directories (staticx
  archives flat names); names of any length only where they are patched. A
  relative TMPDIR; a colon in it is modelled, and splits the RPATH.
* The parsing of ldd's output, strip and objcopy: results and failures are inputs. The
  command line, version strings, `extract.py`, libnssfix, listing functions of libtar,
  build scripts and tests: without state of their own or out of the program.

## 8. Plan

Done: `Launcher`, `Bootloader`, `Generator`, `TarExtract`, `ElfPatch`, `XzLzma2` with
`XzFilters`, `XzStream`, all with proofs; `Decoder`. Next:

1. `XzFilters` implements `Decoder` for a sound stream without BCJ: `raw` is a prefix of
   what `Pack` encoded, from `OnTrack` at every symbol.
2. `Unpack`: an abstract reader that `TarExtract` implements and `Bootloader`'s
   extraction steps are an instance of.
