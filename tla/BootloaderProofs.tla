-------------------------- MODULE BootloaderProofs --------------------------
(***************************************************************************)
(* Proofs about module Bootloader: its type invariant, the inductive       *)
(* invariant that ties the program counter to the child, the directory and *)
(* the signals, and the safety properties that follow from it.             *)
(***************************************************************************)
EXTENDS Bootloader, TLAPS

-----------------------------------------------------------------------------
(* Wait statuses.                                                          *)

\* What a status is made of can be read back from it.
LEMMA StatusFacts ==
  /\ Exited(0) \in Statuses /\ Exited(2) \in Statuses /\ Exited(3) \in Statuses
  /\ \A c \in ExitCodes : Exited(c) \in Statuses
  /\ \A s \in Signals : KilledBy(s) \in Statuses
  /\ \A c : Exited(c).how = "exited"
  /\ \A s : KilledBy(s).how = "signaled" /\ KilledBy(s).what = s
  /\ \A st \in Statuses : st # None
  /\ \A st \in Statuses : st.how = "signaled" =>
       st.what \in Signals /\ st = KilledBy(st.what)
<1>1. /\ \A c : Exited(c).how = "exited"
      /\ \A s : KilledBy(s).how = "signaled" /\ KilledBy(s).what = s
  BY DEF Exited, KilledBy
<1>2. \A st \in Statuses : st # None
  BY NoneAssumption
<1>3. /\ \A c \in ExitCodes \cup {0, 2, 3} : Exited(c) \in Statuses
      /\ \A s \in Signals : KilledBy(s) \in Statuses
  BY DEF Statuses
<1>4. ASSUME NEW st \in Statuses, st.how = "signaled"
      PROVE  st.what \in Signals /\ st = KilledBy(st.what)
  <2>1. \A c : st # Exited(c)
    BY <1>1, <1>4
  <2>2. PICK s \in Signals : st = KilledBy(s)
    BY <2>1 DEF Statuses
  <2>3. QED BY <1>1, <2>2
<1>5. QED BY <1>1, <1>2, <1>3, <1>4

-----------------------------------------------------------------------------
(* Types. A handler's frame holds a forwarded signal because only those    *)
(* ever get the disposition "forward", and raise() has a signal to raise   *)
(* because the main program is past waitpid.                               *)

\* What an environment record holds.
LEMMA EnvironmentFacts ==
  \A e \in Environments :
    e.inherited \in [Signals -> {"default", "ignore"}]
  BY EnvironmentsAssumption DEF EnvironmentType

\* The types hold when main() is entered.
LEMMA TypeInit == Init => TypeInv
<1> SUFFICES ASSUME Init PROVE TypeInv
  OBVIOUS
<1>1. disposition \in [Signals -> {"default", "ignore"}]
  BY EnvironmentFacts DEF Init
<1>2. frames \in Seq(Forwarded)
  BY DEF Init
<1>3. sent \in 0..MaxSignals
  BY MaxSignalsAssumption DEF Init
<1>4. TypeOK
  BY <1>1, <1>2, <1>3 DEF Init, TypeOK
<1>5. OnlyForwardedAreCaught
  BY <1>1 DEF OnlyForwardedAreCaught
<1>6. StatusIsKnown
  BY DEF Init, StatusIsKnown, Ended, After
<1>7. QED BY <1>4, <1>5, <1>6 DEF TypeInv

\* Each step of the main program keeps the types.
LEMMA TypeMain == TypeInv /\ MainStep => TypeInv'
<1> SUFFICES ASSUME TypeInv, MainStep PROVE TypeInv'
  OBVIOUS
<1> USE DEF TypeInv, TypeOK, OnlyForwardedAreCaught, StatusIsKnown, Ended, After,
            main, signals, process, bundle, At, Goto, Exit, FatalSteps
<1>1. CASE IdentifyStep
  BY <1>1, StatusFacts DEF IdentifyStep
<1>2. CASE FatalError
  BY <1>2, StatusFacts DEF FatalError, Operations
<1>3. CASE CreateTmpdir
  BY <1>3 DEF CreateTmpdir
<1>4. CASE ExtractMember
  BY <1>4 DEF ExtractMember
<1>5. CASE ExtractDone
  BY <1>5 DEF ExtractDone
<1>6. CASE GetRealProgPath
  BY <1>6 DEF GetRealProgPath
<1>7. CASE PatchApp
  BY <1>7 DEF PatchApp
<1>8. CASE SetupEnvironment
  BY <1>8 DEF SetupEnvironment
<1>9. CASE Fork
  BY <1>9 DEF Fork
<1>10. CASE SetupSigHandler
  <2>1. CASE Sigaction("catch_int", "SIGINT", "forward", "catch_term")
    BY <2>1, ZenonT(60) DEF Sigaction, Forwarded
  <2>2. CASE Sigaction("catch_term", "SIGTERM", "forward", "wait")
    BY <2>2, ZenonT(60) DEF Sigaction, Forwarded
  <2>3. QED BY <1>10, <2>1, <2>2 DEF SetupSigHandler
<1>11. CASE Wait
  BY <1>11 DEF Wait
<1>12. CASE WaitAgain
  BY <1>12 DEF WaitAgain
<1>13. CASE WaitError
  BY <1>13, StatusFacts DEF WaitError
<1>14. CASE ForgetChild
  BY <1>14 DEF ForgetChild
<1>15. CASE RestoreSigHandler
  <2>1. CASE Sigaction("restore_int", "SIGINT", "default", "restore_term")
    BY <2>1, ZenonT(60) DEF Sigaction
  <2>2. CASE Sigaction("restore_term", "SIGTERM", "default", "cleanup")
    BY <2>2, ZenonT(60) DEF Sigaction
  <2>3. QED BY <1>15, <2>1, <2>2 DEF RestoreSigHandler
<1>16. CASE CleanupBundleDir
  BY <1>16 DEF CleanupBundleDir
<1>17. CASE RemoveFile
  BY <1>17 DEF RemoveFile
<1>18. CASE RemoveDir
  BY <1>18 DEF RemoveDir
<1>19. CASE RemoveError
  BY <1>19 DEF RemoveError, Operations
<1>20. CASE ReturnCode
  BY <1>20 DEF ReturnCode
<1>21. CASE Raise
  BY <1>21, StatusFacts DEF Raise
<1>22. CASE UnexpectedCase
  BY <1>22, StatusFacts DEF UnexpectedCase
<1>23. QED
  BY <1>1, <1>2, <1>3, <1>4, <1>5, <1>6, <1>7, <1>8, <1>9, <1>10, <1>11, <1>12,
     <1>13, <1>14, <1>15, <1>16, <1>17, <1>18, <1>19, <1>20, <1>21, <1>22
  DEF MainStep

\* Every other step keeps them too.
LEMMA TypeNext == TypeInv /\ [Next]_vars => TypeInv'
<1> SUFFICES ASSUME TypeInv, [Next]_vars PROVE TypeInv'
  OBVIOUS
<1>1. CASE MainStep
  BY <1>1, TypeMain
<1> USE DEF TypeInv, TypeOK, OnlyForwardedAreCaught, StatusIsKnown, Ended, After,
            main, signals, process, bundle
<1>2. CASE DefaultAction
  BY <1>2, StatusFacts DEF DefaultAction, Exit
<1>3. CASE EnterHandler
  <2>1. PICK s \in pending : /\ disposition[s] = "forward"
                             /\ pending' = pending \ {s}
                             /\ frames' = Append(frames, s)
                             /\ pc' = IF pc = "wait" THEN "interrupted" ELSE pc
    BY <1>3 DEF EnterHandler
  <2>2. frames' \in Seq(Forwarded)
    BY <2>1
  <2>3. QED BY <1>3, <2>1, <2>2 DEF EnterHandler
<1>4. CASE SigHandler
  <2>1. frames # <<>>
    BY <1>4 DEF SigHandler
  <2>2. /\ Len(frames) \in 1..Len(frames)
        /\ frames[Len(frames)] \in Signals
        /\ SubSeq(frames, 1, Len(frames) - 1) \in Seq(Forwarded)
    BY <2>1, SignalsAssumption
  <2>3. frames' \in Seq(Forwarded)
    BY <1>4, <2>2 DEF SigHandler
  <2>4. childPending' \subseteq Signals /\ pending' \subseteq Signals
    BY <1>4, <2>2 DEF SigHandler
  <2>5. targets' \subseteq {"child", "group", "stranger"}
    BY <1>4 DEF SigHandler
  <2>6. UNCHANGED <<env, main, childPid, disposition, hits, child, outcome, bundle,
                    sent, failed>>
    BY <1>4 DEF SigHandler
  <2>7. QED BY <2>3, <2>4, <2>5, <2>6
<1>5. ASSUME NEW st \in Statuses, ChildEnds(st) PROVE TypeInv'
  BY <1>5, StatusFacts DEF ChildEnds
<1>6. CASE ChildStep
  <2>1. CASE Execv
    BY <2>1 DEF Execv
  <2>2. CASE ExecvError
    BY <2>2, <1>5, StatusFacts DEF ExecvError
  <2>3. CASE ForkedChildSignal
    BY <2>3, <1>5, StatusFacts, ZenonT(60) DEF ForkedChildSignal
  <2>4. CASE AppSignal
    BY <2>4, <1>5, StatusFacts, ZenonT(60) DEF AppSignal
  <2>5. QED BY <1>6, <2>1, <2>2, <2>3, <2>4 DEF ChildStep
<1>7. CASE AppExits
  BY <1>7, <1>5, StatusFacts DEF AppExits
<1>8. CASE AppWrites
  BY <1>8 DEF AppWrites
<1>9. CASE SendSignal
  BY <1>9, MaxSignalsAssumption DEF SendSignal
<1>10. CASE Over
  BY <1>10 DEF Over, vars
<1>11. CASE UNCHANGED vars
  BY <1>11 DEF vars
<1>12. QED
  BY <1>1, <1>2, <1>3, <1>4, <1>6, <1>7, <1>8, <1>9, <1>10, <1>11
  DEF Next, BootloaderStep

\* The type invariant, for every set of signals, files and faults.
THEOREM TypeCorrect == Spec => []TypeOK
<1>1. TypeInv => TypeOK
  BY DEF TypeInv
<1>2. QED BY <1>1, TypeInit, TypeNext, PTL DEF Spec

-----------------------------------------------------------------------------
(* What a step of the child may change, whichever step it is.              *)

ChildMoves ==
  /\ UNCHANGED <<env, main, childPid, signals, bundle, sent, failed, targets>>
  /\ \/ child = "forked" /\ child' = "running" /\ UNCHANGED outcome
     \/ Alive /\ child' \in {"zombie", "reaped"} /\ outcome' \in Statuses
     \/ Alive /\ UNCHANGED <<child, outcome>>

\* What the child's own steps can change: its state, its outcome, its signals.
LEMMA ChildEffect == TypeOK /\ (ChildStep \/ AppExits) => ChildMoves
<1> SUFFICES ASSUME TypeOK, ChildStep \/ AppExits PROVE ChildMoves
  OBVIOUS
<1>1. ASSUME NEW st \in Statuses, Alive, ChildEnds(st) PROVE ChildMoves
  BY <1>1 DEF ChildEnds, ChildMoves
<1>2. CASE Execv
  BY <1>2 DEF Execv, ChildMoves
<1>3. CASE ExecvError
  BY <1>1, <1>3, StatusFacts DEF ExecvError, Alive
<1>4. CASE ForkedChildSignal
  BY <1>1, <1>4, StatusFacts DEF ForkedChildSignal, Alive, ChildMoves, TypeOK
<1>5. CASE AppSignal
  BY <1>1, <1>5, StatusFacts DEF AppSignal, Alive, ChildMoves, TypeOK
<1>6. CASE AppExits
  BY <1>1, <1>6, StatusFacts DEF AppExits, Alive
<1>7. QED BY <1>2, <1>3, <1>4, <1>5, <1>6 DEF ChildStep

-----------------------------------------------------------------------------
(* Control: where the main program is tells what the child is.             *)

\* What main() knows of the child at each of its steps stays true.
LEMMA ControlNext == TypeInv /\ ControlInv /\ [Next]_vars => ControlInv'
<1> SUFFICES ASSUME TypeInv, ControlInv, [Next]_vars PROVE ControlInv'
  OBVIOUS
<1> USE DEF TypeInv, TypeOK, StatusIsKnown, ControlInv, Terminated, Ended,
            Before, Armed, After, FatalSteps, main, signals, process, bundle
<1>1. CASE MainStep
  <2> USE DEF At, Goto, Exit
  <2>1. CASE IdentifyStep
    BY <2>1, StatusFacts DEF IdentifyStep
  <2>2. CASE FatalError
    BY <2>2, StatusFacts DEF FatalError
  <2>3. CASE CreateTmpdir
    BY <2>3 DEF CreateTmpdir
  <2>4. CASE ExtractMember
    BY <2>4 DEF ExtractMember
  <2>5. CASE ExtractDone
    BY <2>5 DEF ExtractDone
  <2>6. CASE GetRealProgPath
    BY <2>6 DEF GetRealProgPath
  <2>7. CASE PatchApp
    BY <2>7 DEF PatchApp
  <2>8. CASE SetupEnvironment
    BY <2>8 DEF SetupEnvironment
  <2>9. CASE Fork
    BY <2>9 DEF Fork
  <2>10. CASE SetupSigHandler
    BY <2>10 DEF SetupSigHandler, Sigaction
  <2>11. CASE Wait
    BY <2>11 DEF Wait
  <2>12. CASE WaitAgain
    BY <2>12 DEF WaitAgain
  <2>13. CASE WaitError
    BY <2>13, StatusFacts DEF WaitError
  <2>14. CASE ForgetChild
    BY <2>14 DEF ForgetChild
  <2>15. CASE RestoreSigHandler
    BY <2>15 DEF RestoreSigHandler, Sigaction
  <2>16. CASE CleanupBundleDir
    BY <2>16 DEF CleanupBundleDir
  <2>17. CASE RemoveFile
    BY <2>17 DEF RemoveFile
  <2>18. CASE RemoveDir
    BY <2>18 DEF RemoveDir
  <2>19. CASE RemoveError
    BY <2>19 DEF RemoveError
  <2>20. CASE ReturnCode
    BY <2>20 DEF ReturnCode
  <2>21. CASE Raise
    BY <2>21 DEF Raise
  <2>22. CASE UnexpectedCase
    BY <2>22, StatusFacts DEF UnexpectedCase
  <2>23. QED
    BY <1>1, <2>1, <2>2, <2>3, <2>4, <2>5, <2>6, <2>7, <2>8, <2>9, <2>10, <2>11,
       <2>12, <2>13, <2>14, <2>15, <2>16, <2>17, <2>18, <2>19, <2>20, <2>21, <2>22
    DEF MainStep
<1>2. CASE DefaultAction
  BY <1>2, StatusFacts DEF DefaultAction, Exit
<1>3. CASE EnterHandler
  BY <1>3 DEF EnterHandler
<1>4. CASE SigHandler
  BY <1>4 DEF SigHandler
<1>5. CASE ChildStep \/ AppExits
  BY <1>5, ChildEffect DEF ChildMoves, Alive
<1>6. CASE AppWrites
  BY <1>6 DEF AppWrites
<1>7. CASE SendSignal
  BY <1>7 DEF SendSignal
<1>8. CASE UNCHANGED vars
  BY <1>8 DEF vars
<1>9. QED
  BY <1>1, <1>2, <1>3, <1>4, <1>5, <1>6, <1>7, <1>8 DEF Next, BootloaderStep, Over

-----------------------------------------------------------------------------
(* The directory: it is whole before the fork, and nothing takes it apart  *)
(* before the child is reaped. The names an application creates are not    *)
(* those of the archive.                                                   *)

\* What main() knows of the bundle directory at each of its steps stays true.
LEMMA BundleNext ==
  TypeInv /\ ControlInv /\ BundleInv /\ [Next]_vars => BundleInv'
<1> SUFFICES ASSUME TypeInv, ControlInv, BundleInv, [Next]_vars PROVE BundleInv'
  OBVIOUS
<1> USE DEF TypeInv, TypeOK, ControlInv, BundleInv, BundleOutlivesApp, Alive,
            Before, Armed, After, FatalSteps, main, signals, process, bundle
<1>1. CASE MainStep
  <2> USE DEF At, Goto, Exit
  <2>1. CASE IdentifyStep
    BY <2>1 DEF IdentifyStep
  <2>2. CASE FatalError
    BY <2>2 DEF FatalError
  <2>3. CASE CreateTmpdir
    BY <2>3 DEF CreateTmpdir
  <2>4. CASE ExtractMember
    BY <2>4 DEF ExtractMember
  <2>5. CASE ExtractDone
    BY <2>5 DEF ExtractDone
  <2>6. CASE GetRealProgPath
    BY <2>6 DEF GetRealProgPath
  <2>7. CASE PatchApp
    BY <2>7 DEF PatchApp
  <2>8. CASE SetupEnvironment
    BY <2>8 DEF SetupEnvironment
  <2>9. CASE Fork
    BY <2>9 DEF Fork
  <2>10. CASE SetupSigHandler
    BY <2>10 DEF SetupSigHandler, Sigaction
  <2>11. CASE Wait
    BY <2>11 DEF Wait
  <2>12. CASE WaitAgain
    BY <2>12 DEF WaitAgain
  <2>13. CASE WaitError
    BY <2>13 DEF WaitError
  <2>14. CASE ForgetChild
    BY <2>14 DEF ForgetChild
  <2>15. CASE RestoreSigHandler
    BY <2>15 DEF RestoreSigHandler, Sigaction
  <2>16. CASE CleanupBundleDir
    BY <2>16 DEF CleanupBundleDir
  <2>17. CASE RemoveFile
    BY <2>17 DEF RemoveFile
  <2>18. CASE RemoveDir
    BY <2>18 DEF RemoveDir
  <2>19. CASE RemoveError
    BY <2>19 DEF RemoveError
  <2>20. CASE ReturnCode
    BY <2>20 DEF ReturnCode
  <2>21. CASE Raise
    BY <2>21 DEF Raise
  <2>22. CASE UnexpectedCase
    BY <2>22 DEF UnexpectedCase
  <2>23. QED
    BY <1>1, <2>1, <2>2, <2>3, <2>4, <2>5, <2>6, <2>7, <2>8, <2>9, <2>10, <2>11,
       <2>12, <2>13, <2>14, <2>15, <2>16, <2>17, <2>18, <2>19, <2>20, <2>21, <2>22
    DEF MainStep
<1>2. CASE DefaultAction
  BY <1>2 DEF DefaultAction, Exit
<1>3. CASE EnterHandler
  BY <1>3 DEF EnterHandler
<1>4. CASE SigHandler
  BY <1>4 DEF SigHandler
<1>5. CASE ChildStep \/ AppExits
  BY <1>5, ChildEffect DEF ChildMoves
<1>6. CASE AppWrites
  <2>1. Archive \subseteq files => Archive \subseteq files'
    BY <1>6, FilesAssumption DEF AppWrites
  <2>2. QED BY <1>6, <2>1 DEF AppWrites
<1>7. CASE SendSignal
  BY <1>7 DEF SendSignal
<1>8. CASE UNCHANGED vars
  BY <1>8 DEF vars
<1>9. QED
  BY <1>1, <1>2, <1>3, <1>4, <1>5, <1>6, <1>7, <1>8 DEF Next, BootloaderStep, Over

-----------------------------------------------------------------------------
(* Signals: one that is pending or being handled was sent by somebody, but *)
(* for the one raise() sends, which no handler can take any more.          *)

\* Handlers, pending signals and the handler's targets stay accounted for.
LEMMA SignalNext ==
  TypeInv /\ ControlInv /\ SignalInv /\ [Next]_vars => SignalInv'
<1> SUFFICES ASSUME TypeInv, ControlInv, SignalInv, [Next]_vars PROVE SignalInv'
  OBVIOUS
<1> USE DEF TypeInv, TypeOK, OnlyForwardedAreCaught, StatusIsKnown, ControlInv,
            SignalInv, StraysOnlyAfterReaping, Terminated, Before, Armed, After,
            FatalSteps, main, signals, process, bundle
<1>1. CASE MainStep
  <2> USE DEF At, Goto, Exit
  <2>1. CASE IdentifyStep
    BY <2>1 DEF IdentifyStep
  <2>2. CASE FatalError
    BY <2>2 DEF FatalError
  <2>3. CASE CreateTmpdir
    BY <2>3 DEF CreateTmpdir
  <2>4. CASE ExtractMember
    BY <2>4 DEF ExtractMember
  <2>5. CASE ExtractDone
    BY <2>5 DEF ExtractDone
  <2>6. CASE GetRealProgPath
    BY <2>6 DEF GetRealProgPath
  <2>7. CASE PatchApp
    BY <2>7 DEF PatchApp
  <2>8. CASE SetupEnvironment
    BY <2>8 DEF SetupEnvironment
  <2>9. CASE Fork
    BY <2>9 DEF Fork
  <2>10. CASE SetupSigHandler
    BY <2>10 DEF SetupSigHandler, Sigaction
  <2>11. CASE Wait
    BY <2>11 DEF Wait
  <2>12. CASE WaitAgain
    BY <2>12 DEF WaitAgain
  <2>13. CASE WaitError
    BY <2>13 DEF WaitError
  <2>14. CASE ForgetChild
    BY <2>14 DEF ForgetChild
  <2>15. CASE RestoreSigHandler
    <3>1. CASE Sigaction("restore_int", "SIGINT", "default", "restore_term")
      BY <3>1, SignalsAssumption DEF Sigaction, Forwarded
    <3>2. CASE Sigaction("restore_term", "SIGTERM", "default", "cleanup")
      BY <3>2, SignalsAssumption DEF Sigaction, Forwarded
    <3>3. QED BY <2>15, <3>1, <3>2 DEF RestoreSigHandler
  <2>16. CASE CleanupBundleDir
    BY <2>16 DEF CleanupBundleDir
  <2>17. CASE RemoveFile
    BY <2>17 DEF RemoveFile
  <2>18. CASE RemoveDir
    BY <2>18 DEF RemoveDir
  <2>19. CASE RemoveError
    BY <2>19 DEF RemoveError
  <2>20. CASE ReturnCode
    BY <2>20 DEF ReturnCode
  <2>21. CASE Raise
    BY <2>21, StatusFacts DEF Raise
  <2>22. CASE UnexpectedCase
    BY <2>22 DEF UnexpectedCase
  <2>23. QED
    BY <1>1, <2>1, <2>2, <2>3, <2>4, <2>5, <2>6, <2>7, <2>8, <2>9, <2>10, <2>11,
       <2>12, <2>13, <2>14, <2>15, <2>16, <2>17, <2>18, <2>19, <2>20, <2>21, <2>22
    DEF MainStep
<1>2. CASE DefaultAction
  BY <1>2 DEF DefaultAction, Exit
<1>3. CASE EnterHandler
  BY <1>3 DEF EnterHandler
<1>4. CASE SigHandler
  <2>1. frames # <<>> /\ ~Terminated
    BY <1>4 DEF SigHandler
  <2> DEFINE s == frames[Len(frames)]
  <2>2. Len(frames) \in DOMAIN frames /\ s \in hits
    BY <2>1
  <2>3. \A i \in DOMAIN frames' : i \in DOMAIN frames /\ frames'[i] = frames[i]
    BY <1>4, <2>2 DEF SigHandler
  <2>4. pending' \subseteq pending \cup {s}
    BY <1>4 DEF SigHandler
  <2>5. StraysOnlyAfterReaping'
    <3>1. pc \notin Before
      BY <2>1
    <3>2. childPid = "zero" => child = "reaped"
      BY <2>1, <3>1
    <3>3. QED BY <1>4, <3>2 DEF SigHandler
  <2>6. UNCHANGED <<main, disposition, hits, child>>
    BY <1>4 DEF SigHandler
  <2>7. QED BY <2>2, <2>3, <2>4, <2>5, <2>6
<1>5. CASE ChildStep \/ AppExits
  BY <1>5, ChildEffect DEF ChildMoves, Alive
<1>6. CASE AppWrites
  BY <1>6 DEF AppWrites
<1>7. CASE SendSignal
  BY <1>7 DEF SendSignal
<1>8. CASE UNCHANGED vars
  BY <1>8 DEF vars
<1>9. QED
  BY <1>1, <1>2, <1>3, <1>4, <1>5, <1>6, <1>7, <1>8 DEF Next, BootloaderStep, Over

-----------------------------------------------------------------------------
(* Results: how the bootloader ended, given how it came to its last step.  *)

\* The three properties of the bootloader's end are kept by every step.
LEMMA ResultNext == IInv /\ [Next]_vars => ResultInv'
<1> SUFFICES ASSUME IInv, [Next]_vars PROVE ResultInv'
  OBVIOUS
<1> USE DEF IInv, TypeInv, TypeOK, OnlyForwardedAreCaught, StatusIsKnown, ControlInv,
            BundleInv, SignalInv, ResultInv, StatusIsAccountedFor,
            CleansUpBehindItself, OrphansOnlyByForce, Terminated, Alive,
            Before, Armed, After, FatalSteps, main, signals, process, bundle
<1>1. CASE MainStep
  <2> USE DEF At, Goto, Exit
  <2>1. CASE IdentifyStep
    BY <2>1, StatusFacts DEF IdentifyStep
  <2>2. CASE FatalError
    BY <2>2, StatusFacts DEF FatalError
  <2>3. CASE CreateTmpdir
    BY <2>3 DEF CreateTmpdir
  <2>4. CASE ExtractMember
    BY <2>4 DEF ExtractMember
  <2>5. CASE ExtractDone
    BY <2>5 DEF ExtractDone
  <2>6. CASE GetRealProgPath
    BY <2>6 DEF GetRealProgPath
  <2>7. CASE PatchApp
    BY <2>7 DEF PatchApp
  <2>8. CASE SetupEnvironment
    BY <2>8 DEF SetupEnvironment
  <2>9. CASE Fork
    BY <2>9 DEF Fork
  <2>10. CASE SetupSigHandler
    BY <2>10 DEF SetupSigHandler, Sigaction
  <2>11. CASE Wait
    BY <2>11 DEF Wait
  <2>12. CASE WaitAgain
    BY <2>12 DEF WaitAgain
  <2>13. CASE WaitError
    BY <2>13, StatusFacts DEF WaitError
  <2>14. CASE ForgetChild
    BY <2>14 DEF ForgetChild
  <2>15. CASE RestoreSigHandler
    BY <2>15 DEF RestoreSigHandler, Sigaction
  <2>16. CASE CleanupBundleDir
    BY <2>16 DEF CleanupBundleDir
  <2>17. CASE RemoveFile
    BY <2>17 DEF RemoveFile
  <2>18. CASE RemoveDir
    BY <2>18 DEF RemoveDir
  <2>19. CASE RemoveError
    BY <2>19 DEF RemoveError
  <2>20. CASE ReturnCode
    BY <2>20, StatusFacts DEF ReturnCode
  <2>21. CASE Raise
    BY <2>21 DEF Raise
  <2>22. CASE UnexpectedCase
    BY <2>22, StatusFacts DEF UnexpectedCase
  <2>23. QED
    BY <1>1, <2>1, <2>2, <2>3, <2>4, <2>5, <2>6, <2>7, <2>8, <2>9, <2>10, <2>11,
       <2>12, <2>13, <2>14, <2>15, <2>16, <2>17, <2>18, <2>19, <2>20, <2>21, <2>22
    DEF MainStep
<1>2. CASE DefaultAction
  BY <1>2, StatusFacts DEF DefaultAction, Exit
<1>3. CASE EnterHandler
  BY <1>3 DEF EnterHandler
<1>4. CASE SigHandler
  BY <1>4 DEF SigHandler
<1>5. CASE ChildStep \/ AppExits
  BY <1>5, ChildEffect DEF ChildMoves
<1>6. CASE AppWrites
  BY <1>6 DEF AppWrites
<1>7. CASE SendSignal
  BY <1>7 DEF SendSignal
<1>8. CASE UNCHANGED vars
  BY <1>8 DEF vars
<1>9. QED
  BY <1>1, <1>2, <1>3, <1>4, <1>5, <1>6, <1>7, <1>8 DEF Next, BootloaderStep, Over

-----------------------------------------------------------------------------
(* Signals inherited ignored: the handlers hide it, restore_sig_handler    *)
(* forgets it, and neither before the child was reaped.                    *)

\* No step takes the default action of such a signal while the child may live.
LEMMA SparingNext ==
  TypeInv /\ ControlInv /\ SparingInv /\ [Next]_vars => SparingInv'
<1> SUFFICES ASSUME TypeInv, ControlInv, SparingInv, [Next]_vars PROVE SparingInv'
  OBVIOUS
<1> USE DEF TypeInv, TypeOK, ControlInv, SparingInv, IgnoredSignalsSpare, Terminated, Alive,
            Before, Armed, After, Forwarded, FatalSteps, main, signals, process, bundle
<1>1. CASE MainStep
  <2> USE DEF At, Goto, Exit
  <2>1. CASE IdentifyStep
    BY <2>1, StatusFacts DEF IdentifyStep
  <2>2. CASE FatalError
    BY <2>2, StatusFacts DEF FatalError
  <2>3. CASE CreateTmpdir
    BY <2>3 DEF CreateTmpdir
  <2>4. CASE ExtractMember
    BY <2>4 DEF ExtractMember
  <2>5. CASE ExtractDone
    BY <2>5 DEF ExtractDone
  <2>6. CASE GetRealProgPath
    BY <2>6 DEF GetRealProgPath
  <2>7. CASE PatchApp
    BY <2>7 DEF PatchApp
  <2>8. CASE SetupEnvironment
    BY <2>8 DEF SetupEnvironment
  <2>9. CASE Fork
    BY <2>9 DEF Fork
  <2>10. CASE SetupSigHandler
    BY <2>10 DEF SetupSigHandler, Sigaction
  <2>11. CASE Wait
    BY <2>11 DEF Wait
  <2>12. CASE WaitAgain
    BY <2>12 DEF WaitAgain
  <2>13. CASE WaitError
    BY <2>13, StatusFacts DEF WaitError
  <2>14. CASE ForgetChild
    BY <2>14 DEF ForgetChild
  <2>15. CASE RestoreSigHandler
    BY <2>15 DEF RestoreSigHandler, Sigaction
  <2>16. CASE CleanupBundleDir
    BY <2>16 DEF CleanupBundleDir
  <2>17. CASE RemoveFile
    BY <2>17 DEF RemoveFile
  <2>18. CASE RemoveDir
    BY <2>18 DEF RemoveDir
  <2>19. CASE RemoveError
    BY <2>19 DEF RemoveError
  <2>20. CASE ReturnCode
    BY <2>20 DEF ReturnCode
  <2>21. CASE Raise
    BY <2>21 DEF Raise
  <2>22. CASE UnexpectedCase
    BY <2>22, StatusFacts DEF UnexpectedCase
  <2>23. QED
    BY <1>1, <2>1, <2>2, <2>3, <2>4, <2>5, <2>6, <2>7, <2>8, <2>9, <2>10, <2>11,
       <2>12, <2>13, <2>14, <2>15, <2>16, <2>17, <2>18, <2>19, <2>20, <2>21, <2>22
    DEF MainStep
<1>2. CASE DefaultAction
  BY <1>2, StatusFacts DEF DefaultAction, Exit
<1>3. CASE EnterHandler
  BY <1>3 DEF EnterHandler
<1>4. CASE SigHandler
  BY <1>4 DEF SigHandler
<1>5. CASE ChildStep \/ AppExits
  BY <1>5, ChildEffect DEF ChildMoves
<1>6. CASE AppWrites
  BY <1>6 DEF AppWrites
<1>7. CASE SendSignal
  BY <1>7 DEF SendSignal
<1>8. CASE UNCHANGED vars
  BY <1>8 DEF vars
<1>9. QED
  BY <1>1, <1>2, <1>3, <1>4, <1>5, <1>6, <1>7, <1>8 DEF Next, BootloaderStep, Over

-----------------------------------------------------------------------------
(* The invariant, and what follows from it.                                *)

\* The inductive invariant holds when main() is entered ...
LEMMA InvInit == Init => IInv
<1> SUFFICES ASSUME Init PROVE IInv
  OBVIOUS
<1>1. TypeInv
  BY TypeInit
<1>2. \A s \in Signals : disposition[s] # "forward"
  BY EnvironmentFacts DEF Init
<1>3. ControlInv
  BY <1>2, NoneAssumption DEF Init, ControlInv, Terminated, Before, Armed, After
<1>4. BundleInv
  BY DEF Init, BundleInv, BundleOutlivesApp, Alive, Before, Armed, After
<1>5. SignalInv
  BY DEF Init, SignalInv, StraysOnlyAfterReaping
<1>6. ResultInv
  BY DEF Init, ResultInv, StatusIsAccountedFor, CleansUpBehindItself,
         OrphansOnlyByForce
<1>7. SparingInv
  BY EnvironmentFacts DEF Init, SparingInv, IgnoredSignalsSpare
<1>8. QED BY <1>1, <1>3, <1>4, <1>5, <1>6, <1>7 DEF IInv

\* ... is kept by every step ...
LEMMA InvNext == IInv /\ [Next]_vars => IInv'
  BY TypeNext, ControlNext, BundleNext, SignalNext, ResultNext, SparingNext DEF IInv

\* ... and so always holds: main() is where it believes it is.
THEOREM Invariance == Spec => []IInv
  BY InvInit, InvNext, PTL DEF Spec

\* While the application lives its bundle is whole: main.c removes nothing
\* before waitpid has reported the end.
THEOREM BundleSafe == Spec => []BundleOutlivesApp
<1>1. IInv => BundleOutlivesApp
  BY DEF IInv, BundleInv
<1>2. QED BY <1>1, Invariance, PTL

\* The bootloader's end is the application's, an error's, or a sent signal's.
THEOREM StatusFaithful == Spec => []StatusIsAccountedFor
<1>1. IInv => StatusIsAccountedFor
  BY DEF IInv, ResultInv
<1>2. QED BY <1>1, Invariance, PTL

\* Without an error or a signal the directory is removed, or kept on request.
THEOREM CleanUpComplete == Spec => []CleansUpBehindItself
<1>1. IInv => CleansUpBehindItself
  BY DEF IInv, ResultInv
<1>2. QED BY <1>1, Invariance, PTL

\* A living application loses its bootloader only to a signal or to sigaction.
THEOREM NoOtherOrphans == Spec => []OrphansOnlyByForce
<1>1. IInv => OrphansOnlyByForce
  BY DEF IInv, ResultInv
<1>2. QED BY <1>1, Invariance, PTL

\* A forwarded signal goes astray only after the child was reaped.
THEOREM HandlerTargets == Spec => []StraysOnlyAfterReaping
<1>1. IInv => StraysOnlyAfterReaping
  BY DEF IInv, SignalInv
<1>2. QED BY <1>1, Invariance, PTL

\* A signal inherited ignored does not part a living application from its bootloader.
THEOREM IgnoredStaysHarmless == Spec => []IgnoredSignalsSpare
<1>1. IInv => IgnoredSignalsSpare
  BY DEF IInv, SparingInv
<1>2. QED BY <1>1, Invariance, PTL

-----------------------------------------------------------------------------
(* Refinement: under the mapping of module Bootloader every step is a step *)
(* of module Launcher or leaves the mapped state alone.                    *)

\* A bootloader that starts is an abstract launcher that starts.
LEMMA RefinesInit == Init => L!Init
  BY DEF Init, L!Init, Home, Alive

\* Every step of the bootloader, its child or the machine is a step of the
\* abstract launcher, or changes nothing that it can see.
LEMMA RefinesNext == IInv /\ [Next]_vars => L!Next \/ UNCHANGED L!vars
<1> SUFFICES ASSUME IInv, [Next]_vars PROVE L!Next \/ UNCHANGED L!vars
  OBVIOUS
<1> USE DEF IInv, TypeInv, TypeOK, StatusIsKnown, ControlInv, BundleInv,
            BundleOutlivesApp, Home, Alive, Ended, Terminated,
            Before, Armed, After, FatalSteps, main, signals, process, bundle
<1>1. CASE MainStep
  <2> USE DEF At, Goto, Exit, L!vars, L!Next
  <2>1. CASE IdentifyStep
    BY <2>1 DEF IdentifyStep, L!Identify
  <2>2. CASE FatalError
    BY <2>2 DEF FatalError, L!GiveUp
  <2>3. CASE CreateTmpdir
    BY <2>3 DEF CreateTmpdir, L!Prepare
  <2>4. CASE ExtractMember
    BY <2>4 DEF ExtractMember
  <2>5. CASE ExtractDone
    BY <2>5 DEF ExtractDone
  <2>6. CASE GetRealProgPath
    BY <2>6 DEF GetRealProgPath
  <2>7. CASE PatchApp
    BY <2>7 DEF PatchApp, L!Prepare
  <2>8. CASE SetupEnvironment
    BY <2>8 DEF SetupEnvironment
  <2>9. CASE Fork
    BY <2>9 DEF Fork, L!Launch
  <2>10. CASE SetupSigHandler
    BY <2>10 DEF SetupSigHandler, Sigaction
  <2>11. CASE Wait
    BY <2>11 DEF Wait, L!Learn
  <2>12. CASE WaitAgain
    BY <2>12 DEF WaitAgain
  <2>13. CASE WaitError
    BY <2>13 DEF WaitError, L!GiveUp
  <2>14. CASE ForgetChild
    BY <2>14 DEF ForgetChild
  <2>15. CASE RestoreSigHandler
    BY <2>15 DEF RestoreSigHandler, Sigaction
  <2>16. CASE CleanupBundleDir
    BY <2>16 DEF CleanupBundleDir
  <2>17. CASE RemoveFile
    BY <2>17 DEF RemoveFile, L!CleanUp
  <2>18. CASE RemoveDir
    BY <2>18 DEF RemoveDir, L!CleanUp
  <2>19. CASE RemoveError
    BY <2>19 DEF RemoveError
  <2>20. CASE ReturnCode
    BY <2>20 DEF ReturnCode, L!Finish
  <2>21. CASE Raise
    BY <2>21 DEF Raise
  <2>22. CASE UnexpectedCase
    BY <2>22 DEF UnexpectedCase, L!GiveUp
  <2>23. QED
    BY <1>1, <2>1, <2>2, <2>3, <2>4, <2>5, <2>6, <2>7, <2>8, <2>9, <2>10, <2>11,
       <2>12, <2>13, <2>14, <2>15, <2>16, <2>17, <2>18, <2>19, <2>20, <2>21, <2>22
    DEF MainStep
<1> USE DEF L!vars
<1>2. CASE DefaultAction
  BY <1>2 DEF DefaultAction, Exit, L!Next, L!Killed
<1>3. CASE EnterHandler
  BY <1>3 DEF EnterHandler
<1>4. CASE SigHandler
  BY <1>4 DEF SigHandler
<1>5. CASE ChildStep \/ AppExits
  BY <1>5, ChildEffect DEF ChildMoves, L!Next, L!End
<1>6. CASE AppWrites
  <2>1. Archive \subseteq files <=> Archive \subseteq files'
    BY <1>6, FilesAssumption DEF AppWrites
  <2>2. QED BY <1>6, <2>1 DEF AppWrites
<1>7. CASE SendSignal
  BY <1>7 DEF SendSignal
<1>8. CASE UNCHANGED vars
  BY <1>8 DEF vars
<1>9. QED
  BY <1>1, <1>2, <1>3, <1>4, <1>5, <1>6, <1>7, <1>8 DEF Next, BootloaderStep, Over

\* main() implements the promise of module Launcher.
THEOREM Refinement == Spec => ImplementsLauncher
<1>1. Init => L!Init
  BY RefinesInit
<1>2. IInv /\ [Next]_vars => [L!Next]_(L!vars)
  BY RefinesNext
<1>3. QED BY <1>1, <1>2, Invariance, PTL DEF Spec, ImplementsLauncher, L!Spec
=============================================================================
