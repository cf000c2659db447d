------------------------------ MODULE Launcher ------------------------------
(***************************************************************************)
(* What a bundled program promises the one who starts it, with nothing     *)
(* said of signals, handlers or system calls: it fills a directory of its  *)
(* own, starts the application only when that directory is whole, leaves   *)
(* it whole for as long as the application lives, and ends with the        *)
(* application's own outcome unless it had to give up or was killed.       *)
(* bootloader/main.c:main is shown to implement it (module Bootloader).    *)
(***************************************************************************)
CONSTANTS
  Outcomes,   \* the ways a process can end
  Deaths,     \* those of them that are death by a signal
  GaveUp,     \* the outcome of a launcher that met an error: exit status 2
  Identified, \* the outcome of a launcher that was only asked who it is
  None        \* "has not ended"

VARIABLES
  app,      \* "none", "alive", "ended"
  outcome,  \* how the application ended, or None
  home,     \* the directory: "none", "partial", "whole", "gone"
  known,    \* whether the launcher has learnt the outcome
  result    \* how the launcher ended, or None

vars == <<app, outcome, home, known, result>>

Init ==
  /\ app = "none"
  /\ outcome = None
  /\ home = "none"
  /\ known = FALSE
  /\ result = None

\* Filling the directory comes before the application.
Prepare ==
  /\ result = None /\ app = "none"
  /\ \/ home = "none" /\ home' = "partial"
     \/ home = "partial" /\ home' = "whole"
  /\ UNCHANGED <<app, outcome, known, result>>

Launch ==
  /\ result = None /\ app = "none" /\ home = "whole"
  /\ app' = "alive"
  /\ UNCHANGED <<outcome, home, known, result>>

\* The application ends by itself, whatever became of the launcher.
End(o) ==
  /\ app = "alive"
  /\ app' = "ended"
  /\ outcome' = o
  /\ UNCHANGED <<home, known, result>>

Learn ==
  /\ result = None /\ app = "ended" /\ ~known
  /\ known' = TRUE
  /\ UNCHANGED <<app, outcome, home, result>>

\* Only a directory whose application is known to have ended is taken down.
CleanUp ==
  /\ result = None /\ known
  /\ \/ home = "whole" /\ home' \in {"partial", "gone"}
     \/ home = "partial" /\ home' = "gone"
  /\ UNCHANGED <<app, outcome, known, result>>

Finish ==
  /\ result = None /\ known
  /\ result' = outcome
  /\ UNCHANGED <<app, outcome, home, known>>

GiveUp ==
  /\ result = None
  /\ result' = GaveUp
  /\ UNCHANGED <<app, outcome, home, known>>

Identify ==
  /\ result = None /\ home = "none" /\ app = "none"
  /\ result' = Identified
  /\ UNCHANGED <<app, outcome, home, known>>

Killed ==
  /\ result = None
  /\ result' \in Deaths
  /\ UNCHANGED <<app, outcome, home, known>>

Next ==
  \/ Prepare \/ Launch \/ Learn \/ CleanUp
  \/ Finish \/ GiveUp \/ Identify \/ Killed
  \/ \E o \in Outcomes : End(o)

Spec == Init /\ [][Next]_vars
=============================================================================
