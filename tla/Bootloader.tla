----------------------------- MODULE Bootloader -----------------------------
(***************************************************************************)
(* The life of a bundled program: bootloader/main.c, from the temporary    *)
(* directory to the exit status, as one process among others.              *)
(*                                                                         *)
(* Four parties take steps: the bootloader's main program (pc), its signal *)
(* handler, which may interrupt the main program between any two steps,    *)
(* the child process that becomes the user's application, and the rest of  *)
(* the machine, which sends signals and may write into the directory.      *)
(*                                                                         *)
(* The bundle directory is the set of the names in it; what is in a file,  *)
(* and how the archive is read, is the business of module TarExtract.      *)
(***************************************************************************)
EXTENDS Naturals, Sequences

CONSTANTS
  Signals,     \* the signals that may arrive; their default action is death
  Uncatchable, \* those that no process can ignore or handle (SIGKILL)
  Archive,     \* the names tar_extract_all creates in the bundle directory
  AppFiles,    \* other names the application may create and remove there
  ExitCodes,   \* the exit statuses the application chooses from
  Faults,      \* the operations that may fail
  Environments,\* what the bootloader may inherit: see EnvironmentType
  MaxSignals,  \* bound: signals sent by the rest of the machine
  None         \* no status yet

Forwarded == {"SIGINT", "SIGTERM"}

\* The steps that end in error(2, ...) when the call they make fails ...
FatalSteps == {"mkdtemp", "extract", "realpath", "patch", "setenv", "fork",
               "catch_int", "catch_term", "restore_int", "restore_term"}

\* ... and the other calls that may fail.
Operations == FatalSteps \cup {"execv", "remove"}

EnvironmentType ==
  [keep      : BOOLEAN,   \* STATICX_KEEP_TEMPS is set
   identify  : BOOLEAN,   \* STATICX_BOOTLOADER_IDENTIFY is set
   noZombies : BOOLEAN,   \* SIGCHLD was inherited ignored
   strays    : BOOLEAN,   \* the application leaves descendants behind
   inherited : [Signals -> {"default", "ignore"}]]

ASSUME SignalsAssumption ==
  /\ Forwarded \subseteq Signals
  /\ Uncatchable \subseteq Signals \ Forwarded
ASSUME CodesAssumption == ExitCodes \subseteq 0..255
ASSUME FilesAssumption == Archive \cap AppFiles = {}
ASSUME FaultsAssumption == Faults \subseteq Operations
ASSUME EnvironmentsAssumption ==
  /\ Environments \subseteq EnvironmentType
  /\ \A e \in Environments, s \in Uncatchable : e.inherited[s] = "default"
ASSUME MaxSignalsAssumption == MaxSignals \in Nat

Exited(code) == [how |-> "exited", what |-> code]
KilledBy(sig) == [how |-> "signaled", what |-> sig]

\* What waitpid can report of a process that ended.
Statuses == {Exited(c) : c \in ExitCodes \cup {0, 2, 3}}
              \cup {KilledBy(s) : s \in Signals}

ASSUME NoneAssumption == None \notin Statuses

VARIABLES
  env,          \* what was inherited; never changes
  pc,           \* the main program's next step, or "terminated"
  childPid,     \* static pid_t child_pid: "zero" or "child"
  wstatus,      \* the main program's wstatus, None before waitpid wrote it
  status,       \* how the bootloader ended
  disposition,  \* of each signal, in the bootloader
  pending,      \* signals that have reached the bootloader, not yet taken
  frames,       \* running invocations of sig_handler, innermost last
  child,        \* "none", "forked", "running", "zombie", "reaped"
  outcome,      \* how the child ended
  childPending, \* signals that have reached the child, not yet taken
  dir,          \* the bundle directory: "none", "made", "removed"
  files,        \* the names in it
  patched,      \* patch_app has rewritten the program's interpreter and rpath
  walk,         \* the names the running nftw() has still to visit
  sent,         \* history: number of signals sent by the rest of the machine
  hits,         \* history: the signals that ever reached the bootloader
  failed,       \* history: the operations that failed
  targets       \* history: whom sig_handler has sent signals to

main    == <<pc, wstatus, status>>
signals == <<disposition, pending, frames, hits>>
process == <<child, outcome, childPending>>
bundle  == <<dir, files, patched, walk>>
vars == <<env, main, childPid, signals, process, bundle, sent, failed, targets>>

Alive == child \in {"forked", "running"}
Ended == child \in {"zombie", "reaped"}
Terminated == pc = "terminated"

Init ==
  /\ env \in Environments
  /\ pc = "identify"
  /\ childPid = "zero"
  /\ wstatus = None
  /\ status = None
  /\ disposition = env.inherited
  /\ pending = {}
  /\ frames = <<>>
  /\ child = "none"
  /\ outcome = None
  /\ childPending = {}
  /\ dir = "none"
  /\ files = {}
  /\ patched = FALSE
  /\ walk = {}
  /\ sent = 0
  /\ hits = {}
  /\ failed = {}
  /\ targets = {}
-----------------------------------------------------------------------------
(* The main program. It runs only when no handler does, and a signal that  *)
(* has reached the process is taken before its next step.                  *)

At(step) == pc = step /\ frames = <<>> /\ pending = {}

Goto(step) == pc' = step /\ UNCHANGED <<wstatus, status>>

Exit(st) == pc' = "terminated" /\ status' = st /\ UNCHANGED wstatus

\* identify(): a bootloader that staticx runs to learn its version stops here.
IdentifyStep ==
  /\ At("identify")
  /\ IF env.identify THEN Exit(Exited(0)) ELSE Goto("mkdtemp")
  /\ UNCHANGED <<env, childPid, signals, process, bundle, sent, failed, targets>>

\* Every call whose failure ends in error(2, ...): exit, and nothing is undone.
FatalError ==
  \E step \in FatalSteps \cap Faults :
    /\ At(step)
    /\ Exit(Exited(2))
    /\ failed' = failed \cup {step}
    /\ UNCHANGED <<env, childPid, signals, process, bundle, sent, targets>>

CreateTmpdir ==
  /\ At("mkdtemp")
  /\ dir' = "made"
  /\ Goto("extract")
  /\ UNCHANGED <<env, childPid, signals, process, files, patched, walk,
                 sent, failed, targets>>

ExtractMember ==
  /\ At("extract")
  /\ \E f \in Archive \ files : files' = files \cup {f}
  /\ UNCHANGED <<env, main, childPid, signals, process, dir, patched, walk,
                 sent, failed, targets>>

ExtractDone ==
  /\ At("extract")
  /\ Archive \subseteq files
  /\ Goto("realpath")
  /\ UNCHANGED <<env, childPid, signals, process, bundle, sent, failed, targets>>

\* (Slip: the program is started without being patched.)
ForgetToPatch ==
  /\ At("realpath")
  /\ Goto("setenv")
  /\ UNCHANGED <<env, childPid, signals, process, bundle, sent, failed, targets>>

GetRealProgPath ==
  /\ At("realpath")
  /\ Goto("patch")
  /\ UNCHANGED <<env, childPid, signals, process, bundle, sent, failed, targets>>

PatchApp ==
  /\ At("patch")
  /\ patched' = TRUE
  /\ Goto("setenv")
  /\ UNCHANGED <<env, childPid, signals, process, dir, files, walk,
                 sent, failed, targets>>

\* (Slip: the handlers are set before the fork.)
HandlersBeforeFork ==
  /\ At("setenv")
  /\ disposition' = [disposition EXCEPT !["SIGTERM"] = "forward"]
  /\ Goto("fork")
  /\ UNCHANGED <<env, childPid, pending, frames, hits, process, bundle,
                 sent, failed, targets>>

SetupEnvironment ==
  /\ At("setenv")
  /\ Goto("fork")
  /\ UNCHANGED <<env, childPid, signals, process, bundle, sent, failed, targets>>

\* (Slip: the result of fork() is not compared with -1.)
ForkUnchecked ==
  /\ At("fork")
  /\ child' \in {"forked", "none"}
  /\ childPid' = IF child' = "none" THEN "minus one" ELSE "child"
  /\ Goto("catch_int")
  /\ UNCHANGED <<env, signals, outcome, childPending, bundle, sent, failed, targets>>

\* The child starts with the dispositions the bootloader has now: the inherited
\* ones, for the handlers are set only afterwards.
Fork ==
  /\ At("fork")
  /\ child' = "forked"
  /\ childPid' = "child"
  /\ Goto("catch_int")
  /\ UNCHANGED <<env, signals, outcome, childPending, bundle, sent, failed, targets>>

Sigaction(step, sig, to, next) ==
  /\ At(step)
  /\ disposition' = [disposition EXCEPT ![sig] = to]
  /\ Goto(next)
  /\ UNCHANGED <<env, childPid, pending, frames, hits, process, bundle,
                 sent, failed, targets>>

SetupSigHandler ==
  \/ Sigaction("catch_int", "SIGINT", "forward", "catch_term")
  \/ Sigaction("catch_term", "SIGTERM", "forward", "wait")

\* waitpid returns the status of a child that has ended ...
Wait ==
  /\ At("wait")
  /\ child = "zombie"
  /\ child' = "reaped"
  /\ wstatus' = outcome
  /\ pc' = "forget"
  /\ UNCHANGED <<env, status, childPid, signals, outcome, childPending, bundle,
                 sent, failed, targets>>

\* (Slip: EINTR ends the wait, with wstatus still zero ...)
TakeInterruptForEnd ==
  /\ At("interrupted")
  /\ wstatus' = Exited(0)
  /\ pc' = "forget"
  /\ UNCHANGED <<env, status, childPid, signals, process, bundle, sent, failed, targets>>

\* (... or is an error like any other.)
TakeInterruptForError ==
  /\ At("interrupted")
  /\ Exit(Exited(2))
  /\ failed' = failed \cup {"waitpid"}
  /\ UNCHANGED <<env, childPid, signals, process, bundle, sent, targets>>

\* ... is interrupted by a handler, errno == EINTR, and called again ...
WaitAgain ==
  /\ At("interrupted")
  /\ Goto("wait")
  /\ UNCHANGED <<env, childPid, signals, process, bundle, sent, failed, targets>>

\* (Slip: every error of waitpid is taken for EINTR.)
WaitForEver ==
  /\ At("wait")
  /\ child = "reaped"
  /\ UNCHANGED vars

\* ... or fails for want of a child: with SIGCHLD ignored the kernel reaps it.
WaitError ==
  /\ At("wait")
  /\ child = "reaped"
  /\ Exit(Exited(2))
  /\ failed' = failed \cup {"waitpid"}
  /\ UNCHANGED <<env, childPid, signals, process, bundle, sent, targets>>

ForgetChild ==
  /\ At("forget")
  /\ childPid' = "zero"
  /\ Goto("restore_int")
  /\ UNCHANGED <<env, signals, process, bundle, sent, failed, targets>>

\* (Slip: only the first of the two handlers is restored.)
RestoreOnlySigint ==
  \/ Sigaction("restore_int", "SIGINT", "default", "restore_term")
  \/ Sigaction("restore_term", "SIGINT", "default", "cleanup")

RestoreSigHandler ==
  \/ Sigaction("restore_int", "SIGINT", "default", "restore_term")
  \/ Sigaction("restore_term", "SIGTERM", "default", "cleanup")
-----------------------------------------------------------------------------
(* cleanup_bundle_dir(): nftw() removes what it finds, children before     *)
(* their directory, and stops at the first remove() that fails; a failure  *)
(* is printed and changes nothing else.                                    *)

\* (Slip: the signal is raised before the directory is removed.)
RaiseBeforeCleanup ==
  /\ At("cleanup")
  /\ IF env.keep \/ wstatus.how = "signaled"
       THEN Goto("mirror") /\ UNCHANGED walk
       ELSE Goto("remove") /\ walk' = files
  /\ UNCHANGED <<env, childPid, signals, process, dir, files, patched,
                 sent, failed, targets>>

CleanupBundleDir ==
  /\ At("cleanup")
  /\ IF env.keep THEN Goto("mirror") /\ UNCHANGED walk
                 ELSE Goto("remove") /\ walk' = files
  /\ UNCHANGED <<env, childPid, signals, process, dir, files, patched,
                 sent, failed, targets>>

RemoveFile ==
  /\ At("remove")
  /\ \E f \in walk \cap files : files' = files \ {f} /\ walk' = walk \ {f}
  /\ UNCHANGED <<env, main, childPid, signals, process, dir, patched,
                 sent, failed, targets>>

RemoveDir ==
  /\ At("remove")
  /\ walk = {} /\ files = {}
  /\ dir' = "removed"
  /\ Goto("mirror")
  /\ UNCHANGED <<env, childPid, signals, process, files, patched, walk,
                 sent, failed, targets>>

\* A remove() fails: a name is gone already, a name came after the directory
\* was read, or for a reason of the file system's own.
RemoveError ==
  /\ At("remove")
  /\ \/ walk \ files # {}
     \/ walk = {} /\ files # {}
     \/ "remove" \in Faults
  /\ failed' = failed \cup {"remove"}
  /\ Goto("mirror")
  /\ walk' = {}
  /\ UNCHANGED <<env, childPid, signals, process, dir, files, patched,
                 sent, targets>>

\* (Slip: success is reported whatever the child's exit status was.)
ReturnZero ==
  /\ At("mirror")
  /\ wstatus.how = "exited"
  /\ Exit(Exited(0))
  /\ UNCHANGED <<env, childPid, signals, process, bundle, sent, failed, targets>>

\* The end of main(): return the child's exit status ...
ReturnCode ==
  /\ At("mirror")
  /\ wstatus.how = "exited"
  /\ Exit(wstatus)
  /\ UNCHANGED <<env, childPid, signals, process, bundle, sent, failed, targets>>

\* (Slip: the default action is restored first, whatever was inherited.)
RaiseByDefault ==
  /\ At("mirror")
  /\ wstatus.how = "signaled"
  /\ pending' = {wstatus.what}
  /\ disposition' = [disposition EXCEPT ![wstatus.what] = "default"]
  /\ Goto("raised")
  /\ UNCHANGED <<env, childPid, frames, hits, process, bundle, sent, failed, targets>>

\* ... or raise() the signal it died of ...
Raise ==
  /\ At("mirror")
  /\ wstatus.how = "signaled"
  /\ pending' = IF disposition[wstatus.what] = "ignore" THEN {} ELSE {wstatus.what}
  /\ Goto("raised")
  /\ UNCHANGED <<env, childPid, disposition, frames, hits, process, bundle,
                 sent, failed, targets>>

\* ... which does nothing when the signal was inherited ignored.
UnexpectedCase ==
  /\ At("raised")
  /\ Exit(Exited(2))
  /\ failed' = failed \cup {"raise"}
  /\ UNCHANGED <<env, childPid, signals, process, bundle, sent, targets>>

MainStep ==
  \/ IdentifyStep \/ FatalError
  \/ CreateTmpdir \/ ExtractMember \/ ExtractDone \/ GetRealProgPath
  \/ PatchApp \/ SetupEnvironment \/ Fork \/ SetupSigHandler
  \/ Wait \/ WaitAgain \/ WaitError \/ ForgetChild \/ RestoreSigHandler
  \/ CleanupBundleDir \/ RemoveFile \/ RemoveDir \/ RemoveError
  \/ ReturnCode \/ Raise \/ UnexpectedCase
-----------------------------------------------------------------------------
(* Signals, as the bootloader takes them. A signal is blocked while its own *)
(* handler runs, another one is not: sa_mask is empty.                      *)

Blocked(s) == \E i \in DOMAIN frames : frames[i] = s

DefaultAction ==
  \E s \in pending :
    /\ ~Terminated
    /\ disposition[s] = "default"
    /\ Exit(KilledBy(s))
    /\ UNCHANGED <<env, childPid, signals, process, bundle, sent, failed, targets>>

EnterHandler ==
  \E s \in pending :
    /\ ~Terminated
    /\ disposition[s] = "forward"
    /\ ~Blocked(s)
    /\ pending' = pending \ {s}
    /\ frames' = Append(frames, s)
    /\ pc' = IF pc = "wait" THEN "interrupted" ELSE pc
    /\ UNCHANGED <<env, wstatus, status, childPid, disposition, hits, process,
                   bundle, sent, failed, targets>>

\* (Slip: the handler drops a signal that comes before the child's execv.)
ForwardAfterExec ==
  /\ ~Terminated
  /\ frames # <<>>
  /\ LET s == frames[Len(frames)] IN
       /\ frames' = SubSeq(frames, 1, Len(frames) - 1)
       /\ childPending' = IF child = "running" THEN childPending \cup {s} ELSE childPending
  /\ UNCHANGED <<env, main, childPid, disposition, pending, hits, child, outcome,
                 bundle, sent, failed, targets>>

\* sig_handler(): kill(child_pid, signum) and return. kill(0, ...) signals the
\* whole process group, the bootloader included.
SigHandler ==
  /\ ~Terminated
  /\ frames # <<>>
  /\ LET s == frames[Len(frames)] IN
       /\ frames' = SubSeq(frames, 1, Len(frames) - 1)
       /\ IF childPid = "zero"
            THEN /\ pending' = pending \cup {s}
                 /\ targets' = targets \cup {"group"}
                 /\ UNCHANGED childPending
            ELSE /\ childPending' = IF Alive THEN childPending \cup {s} ELSE childPending
                 /\ targets' = targets \cup {IF child = "reaped" THEN "stranger" ELSE "child"}
                 /\ UNCHANGED pending
  /\ UNCHANGED <<env, main, childPid, disposition, hits, child, outcome, bundle,
                 sent, failed>>

BootloaderStep == MainStep \/ DefaultAction \/ EnterHandler \/ SigHandler
-----------------------------------------------------------------------------
(* The child process.                                                      *)

\* The kernel keeps the status of a dead child for waitpid unless SIGCHLD is
\* ignored.
ChildEnds(st) ==
  /\ child' = IF env.noZombies THEN "reaped" ELSE "zombie"
  /\ outcome' = st
  /\ childPending' = {}
  /\ UNCHANGED <<env, main, childPid, signals, bundle, sent, failed, targets>>

Execv ==
  /\ child = "forked"
  /\ child' = "running"
  /\ UNCHANGED <<env, main, childPid, signals, outcome, childPending, bundle,
                 sent, failed, targets>>

ExecvError ==
  /\ child = "forked" /\ "execv" \in Faults
  /\ ChildEnds(Exited(3))

\* A signal reaches a child that is still a copy of the bootloader.
ForkedChildSignal ==
  /\ child = "forked"
  /\ \E s \in childPending :
       \/ env.inherited[s] = "default" /\ ChildEnds(KilledBy(s))
       \/ /\ env.inherited[s] = "ignore"
          /\ childPending' = childPending \ {s}
          /\ UNCHANGED <<env, main, childPid, signals, child, outcome, bundle,
                         sent, failed, targets>>

\* The application dies of a signal, or handles or ignores it.
AppSignal ==
  /\ child = "running"
  /\ \E s \in childPending :
       \/ ChildEnds(KilledBy(s))
       \/ /\ s \notin Uncatchable
          /\ childPending' = childPending \ {s}
          /\ UNCHANGED <<env, main, childPid, signals, child, outcome, bundle,
                         sent, failed, targets>>

AppExits ==
  /\ child = "running"
  /\ \E st \in {Exited(c) : c \in ExitCodes} \cup {KilledBy(s) : s \in Signals} :
       ChildEnds(st)

\* The application, or a descendant that outlives it, creates or removes one of
\* its own files; a running nftw() may see the new name or miss it.
AppWrites ==
  /\ dir = "made"
  /\ child = "running" \/ (env.strays /\ Ended)
  /\ \E f \in AppFiles :
       \/ /\ f \notin files
          /\ files' = files \cup {f}
          /\ walk' \in IF pc = "remove" THEN {walk, walk \cup {f}} ELSE {walk}
       \/ /\ f \in files
          /\ files' = files \ {f}
          /\ walk' \in {walk, walk \ {f}}
  /\ UNCHANGED <<env, main, childPid, signals, process, dir, patched,
                 sent, failed, targets>>

ChildStep == Execv \/ ExecvError \/ ForkedChildSignal \/ AppSignal
-----------------------------------------------------------------------------
(* The rest of the machine: a signal sent to the bootloader, or, from the  *)
(* terminal, to the whole foreground process group, child included.        *)

SendSignal ==
  /\ ~Terminated
  /\ sent < MaxSignals
  /\ sent' = sent + 1
  /\ \E s \in Signals :
       /\ hits' = hits \cup {s}
       /\ pending' = IF disposition[s] = "ignore" THEN pending ELSE pending \cup {s}
       /\ \/ UNCHANGED childPending
          \/ Alive /\ childPending' = childPending \cup {s}
  /\ UNCHANGED <<env, main, childPid, disposition, frames, child, outcome, bundle,
                 failed, targets>>

\* Nothing is left to happen.
Over == Terminated /\ ~Alive /\ UNCHANGED vars

Next ==
  \/ BootloaderStep
  \/ ChildStep \/ AppExits \/ AppWrites
  \/ SendSignal
  \/ Over

\* The scheduler runs the bootloader and a forked child that can run. The
\* application need never end, and nobody need ever send a signal.
Fairness == WF_vars(BootloaderStep) /\ WF_vars(ChildStep)

Spec == Init /\ [][Next]_vars
FairSpec == Spec /\ Fairness
-----------------------------------------------------------------------------
(* Properties.                                                             *)

TypeOK ==
  /\ env \in Environments
  /\ pc \in FatalSteps \cup {"identify", "wait", "interrupted", "forget", "cleanup",
                            "remove", "mirror", "raised", "terminated"}
  /\ childPid \in {"zero", "child"}
  /\ wstatus \in Statuses \cup {None}
  /\ status \in Statuses \cup {None}
  /\ disposition \in [Signals -> {"default", "ignore", "forward"}]
  /\ pending \subseteq Signals
  /\ frames \in Seq(Forwarded)
  /\ child \in {"none", "forked", "running", "zombie", "reaped"}
  /\ outcome \in Statuses \cup {None}
  /\ childPending \subseteq Signals
  /\ dir \in {"none", "made", "removed"}
  /\ files \subseteq Archive \cup AppFiles
  /\ patched \in BOOLEAN
  /\ walk \subseteq Archive \cup AppFiles
  /\ sent \in 0..MaxSignals
  /\ hits \subseteq Signals
  /\ failed \subseteq Operations \cup {"waitpid", "raise"}
  /\ targets \subseteq {"child", "group", "stranger"}

\* From fork() until it ends, the application has its whole bundle, patched,
\* whatever the bootloader does or dies of meanwhile: cleanup_bundle_dir comes
\* only after waitpid has reported the end.
BundleOutlivesApp ==
  Alive => dir = "made" /\ Archive \subseteq files /\ patched

\* The bootloader's own end is always the application's, save for an error it
\* met, a run that only asked for its identity, or a signal that was really sent
\* to it: nothing it does to itself (kill, raise) makes up an outcome.
StatusIsAccountedFor ==
  status # None =>
    \/ status = wstatus /\ wstatus = outcome
    \/ status = Exited(2) /\ failed # {}
    \/ status = Exited(0) /\ env.identify /\ dir = "none"
    \/ status.how = "signaled" /\ status.what \in hits

\* A bootloader that ends without an error, and of no signal sent to it, has
\* removed its bundle directory, or was told to keep it by STATICX_KEEP_TEMPS.
CleansUpBehindItself ==
  (/\ status # None /\ failed = {} /\ ~env.identify
   /\ status.how = "exited" \/ status.what \notin hits)
    => dir = IF env.keep THEN "made" ELSE "removed"

\* The bootloader ends before its application only when a signal kills it or
\* sigaction fails: every other path goes through waitpid.
OrphansOnlyByForce ==
  status # None /\ Alive =>
    \/ status.how = "signaled" /\ status.what \in hits
    \/ status = Exited(2) /\ failed \cap {"catch_int", "catch_term"} # {}

\* sig_handler signals somebody other than the child only when waitpid has
\* already reaped it: while the child exists it is the one who is signalled.
StraysOnlyAfterReaping ==
  targets \subseteq {"child"} \/ child = "reaped"

\* A signal that was inherited ignored (nohup, a script's background job) kills the
\* bootloader only after its application has ended, and only if it was forwarded:
\* restore_sig_handler does not restore what was inherited, but SIG_DFL.
IgnoredSignalsSpare ==
  status # None /\ status.how = "signaled" /\ env.inherited[status.what] = "ignore" =>
    status.what \in Forwarded /\ child = "reaped"

\* A termination signal that reaches the bootloader while its handler is set is
\* passed on to the application, unless one of the two ends first.
TerminationReachesApp ==
  \A s \in Forwarded :
    (s \in pending /\ disposition[s] = "forward" /\ Alive)
      ~> (s \in childPending \/ ~Alive \/ Terminated)

\* The handler runs with child_pid already 0 and signals its own process group,
\* itself included, which sets the signal pending again: this never ends.
Storm == frames # <<>> /\ childPid = "zero"

\* Once the application has ended the bootloader ends too, unless descendants
\* keep its directory busy or a termination signal hits between child_pid = 0
\* and restore_sig_handler.
EndsAfterApp ==
  (Ended /\ ~env.strays) ~> (Terminated \/ Storm)

\* The bundle directory's state as module Launcher sees it.
Home ==
  CASE dir = "none" -> "none"
    [] dir = "removed" -> "gone"
    [] dir = "made" -> IF patched /\ Archive \subseteq files THEN "whole" ELSE "partial"

L == INSTANCE Launcher WITH
  Outcomes <- Statuses,
  Deaths <- {KilledBy(s) : s \in Signals},
  GaveUp <- Exited(2),
  Identified <- Exited(0),
  app <- IF child = "none" THEN "none" ELSE IF Alive THEN "alive" ELSE "ended",
  home <- Home,
  known <- wstatus # None,
  result <- status

\* main() implements the promise of module Launcher.
ImplementsLauncher == L!Spec
-----------------------------------------------------------------------------
(* The inductive invariant from which module BootloaderProofs derives the  *)
(* safety properties: each conjunct says what else must hold, at each of   *)
(* the main program's steps, for them to be kept.                          *)

Before == {"identify", "mkdtemp", "extract", "realpath", "patch", "setenv", "fork"}
Armed == {"catch_int", "catch_term", "wait", "interrupted"}
After == {"forget", "restore_int", "restore_term", "cleanup", "remove", "mirror",
          "raised"}

\* Handlers are set between the fork and waitpid, and for two signals only.
OnlyForwardedAreCaught ==
  \A s \in Signals : disposition[s] = "forward" => s \in Forwarded

StatusIsKnown ==
  /\ Ended => outcome # None
  /\ pc \in After => wstatus # None

ControlInv ==
  /\ Terminated <=> status # None
  /\ pc \in Before => /\ child = "none"
                      /\ frames = <<>>
                      /\ \A s \in Signals : disposition[s] # "forward"
  /\ pc \in Armed => child # "none" /\ wstatus = None
  /\ pc \in Armed \cup {"forget"} => childPid = "child"
  /\ pc \in After => child = "reaped"
  /\ wstatus # None => wstatus = outcome /\ child = "reaped"

BundleInv ==
  /\ pc \in {"identify", "mkdtemp"} => dir = "none"
  /\ pc \in {"identify", "mkdtemp", "extract", "realpath", "patch"} => ~patched
  /\ pc \in (Before \cup Armed \cup After)
             \ {"identify", "mkdtemp", "mirror", "raised"} => dir = "made"
  /\ pc \in {"realpath", "patch", "setenv", "fork"} => Archive \subseteq files
  /\ pc \in {"setenv", "fork"} => patched
  /\ pc = "remove" => ~env.keep
  /\ pc \in {"mirror", "raised"} /\ failed = {} =>
       dir = IF env.keep THEN "made" ELSE "removed"
  /\ BundleOutlivesApp

SignalInv ==
  /\ \A s \in pending :
       s \in hits \/ (pc \in {"raised", "terminated"} /\ wstatus = KilledBy(s))
  /\ \A i \in DOMAIN frames : frames[i] \in hits
  /\ pc = "restore_term" => disposition["SIGINT"] = "default"
  /\ pc \in {"cleanup", "remove", "mirror", "raised"} =>
       \A s \in Signals : disposition[s] # "forward"
  /\ StraysOnlyAfterReaping

ResultInv == StatusIsAccountedFor /\ CleansUpBehindItself /\ OrphansOnlyByForce

\* What was inherited ignored stays so, but for the forwarded signals, and those are
\* handled until the child is reaped.
SparingInv ==
  /\ \A s \in Signals : env.inherited[s] = "ignore" =>
       \/ disposition[s] = "ignore"
       \/ s \in Forwarded /\ (disposition[s] = "forward" \/ child = "reaped")
  /\ IgnoredSignalsSpare

TypeInv == TypeOK /\ OnlyForwardedAreCaught /\ StatusIsKnown

IInv == TypeInv /\ ControlInv /\ BundleInv /\ SignalInv /\ ResultInv /\ SparingInv
-----------------------------------------------------------------------------
(* What the documentation says, and the code does not do: violated.        *)

\* docs/introduction.rst:7 says the bootloader will launch the executable "and
\* clean up after it exits": once it has, the bootloader comes to an end.
EndsOnceAppHasEnded == (Ended /\ ~env.strays) ~> Terminated

\* The same page, of the directory: with no failing call and no signal, the bundle is gone at the end.
CleansUpAfterItExits ==
  Terminated /\ Ended /\ failed \cap Operations = {} /\ hits = {} /\ ~env.keep
    => dir = "removed"
=============================================================================
