---------------------------- MODULE MCBootloader ----------------------------
(* Small instances of Bootloader for TLC.                                  *)
EXTENDS Bootloader

MCSignals == {"SIGINT", "SIGTERM", "SIGHUP", "SIGKILL"}
MCUncatchable == {"SIGKILL"}
MCArchive == {"prog", "lib"}
MCAppFiles == {"scratch"}
MCExitCodes == {0, 7}

NoFaults == {}
AllFaults == Operations

Ignoring(S) == [s \in MCSignals |-> IF s \in S THEN "ignore" ELSE "default"]

\* A shell's foreground job, one started by nohup, and a background job of a
\* script: nothing, SIGHUP or SIGINT ignored.
Inheritances == {Ignoring({}), Ignoring({"SIGHUP"}), Ignoring({"SIGINT"})}

Plain == [keep |-> FALSE, identify |-> FALSE, noZombies |-> FALSE,
          strays |-> FALSE, inherited |-> Ignoring({})]

\* Each flag with each other, and each inheritance with and without cleaning up.
SomeEnvironments ==
  {[Plain EXCEPT !.identify = TRUE]}
    \cup {[Plain EXCEPT !.keep = keep, !.noZombies = noZombies, !.strays = strays] :
             keep \in BOOLEAN, noZombies \in BOOLEAN, strays \in BOOLEAN}
    \cup {[Plain EXCEPT !.keep = keep, !.inherited = inherited] :
             keep \in BOOLEAN, inherited \in Inheritances}

IgnoresChildDeath == {[Plain EXCEPT !.noZombies = TRUE]}
OnlyPlain == {Plain}
=============================================================================
