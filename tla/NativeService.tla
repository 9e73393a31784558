---------------------------- MODULE NativeService ----------------------------
(***************************************************************************)
(* The background service of a connection as internal/service keeps it     *)
(* with the manager of each platform: the steps of an install, a stop and  *)
(* an uninstall, in the order of the code, and what each step does.        *)
(*                                                                         *)
(* The managers are systemd for the system and for a user ("user"),        *)
(* launchd for the system and for a user ("agent"), the Windows service    *)
(* control manager ("scm") and the task scheduler of a Windows user.       *)
(***************************************************************************)
EXTENDS Sequences

Managers == {"systemd", "user", "launchd", "agent", "scm", "tasks"}
Systemd == {"systemd", "user"}
Launchd == {"launchd", "agent"}
Windows == {"scm", "tasks"}

\* What is kept of a service: its program, the manager's record of it, whether
\* the manager starts it with the machine, and whether it keeps it running.
Absent == [program |-> FALSE, record |-> FALSE, enabled |-> FALSE, wanted |-> FALSE]

-----------------------------------------------------------------------------
(* The steps.                                                              *)

linuxInstall == <<"copying", "recording", "enabling", "starting">>
linuxUserInstall == <<"copying", "recording", "enabling", "starting">>
darwinInstall == <<"copying", "recording", "enabling", "starting">>
\* A job that is loaded is unloaded first.
darwinUserInstall == <<"copying", "recording", "halting", "enabling", "starting">>
\* The image of a program that runs cannot be replaced.
windowsInstall == <<"halting", "disabling", "copying", "recording", "starting">>
userInstall == <<"disabling", "halting", "copying", "recording", "starting">>

linuxStop == <<"disabling", "halting">>
linuxUserStop == <<"disabling", "halting">>
darwinStop == <<"disabling", "halting">>
darwinUserStop == <<"disabling", "halting">>
windowsUserStopTask == <<"disabling", "halting">>
stopAndDisableWindows == <<"halting", "disabling">>

linuxUninstall == <<"disabling", "halting", "unrecording", "unprogramming">>
linuxUserUninstall == <<"disabling", "halting", "unrecording", "unprogramming">>
\* launchd remembers that a label is disabled; that is taken back.
darwinUninstall == <<"disabling", "halting", "enabling", "unrecording", "unprogramming">>
darwinUserUninstall == <<"disabling", "halting", "unrecording", "unprogramming">>
windowsUserUninstall == <<"disabling", "halting", "unrecording", "unprogramming">>
windowsUninstall == <<"halting", "disabling", "unrecording", "unprogramming">>

InstallSteps(manager) ==
    CASE manager = "systemd" -> linuxInstall
      [] manager = "user"    -> linuxUserInstall
      [] manager = "launchd" -> darwinInstall
      [] manager = "agent"   -> darwinUserInstall
      [] manager = "tasks"   -> userInstall
      [] OTHER               -> windowsInstall

StopSteps(manager) ==
    CASE manager = "systemd" -> linuxStop
      [] manager = "user"    -> linuxUserStop
      [] manager = "launchd" -> darwinStop
      [] manager = "agent"   -> darwinUserStop
      [] manager = "tasks"   -> windowsUserStopTask
      [] OTHER               -> stopAndDisableWindows

UninstallSteps(manager) ==
    CASE manager = "systemd" -> linuxUninstall
      [] manager = "user"    -> linuxUserUninstall
      [] manager = "launchd" -> darwinUninstall
      [] manager = "agent"   -> darwinUserUninstall
      [] manager = "tasks"   -> windowsUserUninstall
      [] OTHER               -> windowsUninstall

-----------------------------------------------------------------------------
(* What they do.                                                           *)

\* The manager knows the service: of a job that is loaded launchd does without
\* the record.
Known(manager, s) == s.record \/ manager \in Launchd

\* Mutant: it is started with the machine still.
Disabled_Boot(manager, s) ==
    IF Known(manager, s) THEN [s EXCEPT !.wanted = @ /\ manager \notin Windows] ELSE s
\* A service that is disabled is not started with the machine, and on Windows not
\* once more either; systemd and launchd go on with the one they run.
Disabled(manager, s) ==
    IF Known(manager, s)
      THEN [s EXCEPT !.enabled = FALSE, !.wanted = @ /\ manager \notin Windows]
      ELSE s

\* A service that was told to stop is not run again, unless, with the Windows
\* manager, it ends with an error.
Halted(manager, s) ==
    IF Known(manager, s)
      THEN {[s EXCEPT !.wanted = again] : again \in IF manager = "scm" THEN {FALSE, s.wanted}
                                                                     ELSE {FALSE}}
      ELSE {s}

Startable(manager, s) == s.record /\ (s.enabled \/ manager \in Systemd)

\* On Windows a new record has the service started with the machine.
Recorded(manager, s) == [s EXCEPT !.record = TRUE, !.enabled = @ \/ manager \in Windows]

Effects(manager, step, s) ==
    CASE step = "copying"       -> {[s EXCEPT !.program = TRUE]}
      [] step = "recording"     -> {Recorded(manager, s)}
      [] step = "enabling"      -> {[s EXCEPT !.enabled = s.record]}
      [] step = "starting"      -> {[s EXCEPT !.wanted = @ \/ Startable(manager, s)]}
      [] step = "disabling"     -> {Disabled(manager, s)}
      [] step = "halting"       -> Halted(manager, s)
      [] step = "unrecording"   -> {[s EXCEPT !.record = FALSE]}
      [] step = "unprogramming" -> {[s EXCEPT !.program = FALSE]}

=============================================================================
