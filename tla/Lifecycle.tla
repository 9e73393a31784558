------------------------------ MODULE Lifecycle ------------------------------
(***************************************************************************)
(* One saved connection of one user, and the commands on it: pair, resume, *)
(* a foreground connection, stop, stop --uninstall, delete and the refresh *)
(* after an update (src/internal/cli), the control endpoint of the process *)
(* that runs it (src/internal/localctl), its saved pair (config/store.go)  *)
(* and its background service (src/internal/service).                      *)
(*                                                                         *)
(* A process that runs the connection is a terminal's or the manager's.    *)
(* Either takes the lock of the profile, clears a stale endpoint away, and *)
(* serves until it is cancelled.  A command in another terminal asks it to *)
(* stop, stops and disables the service, and looks until the endpoint is   *)
(* gone.                                                                   *)
(***************************************************************************)
EXTENDS Integers, Sequences, FiniteSets, NativeService

CONSTANTS
    Terminal,       \* where a user gives commands, one after the other
    Job,            \* the process of the background service
    Command,        \* the commands users give
    Platforms,      \* the service managers a machine may have
    MaxCommands,    \* commands given
    MaxTroubles,    \* crashes, restarts of the machine, failures of a step
    None            \* no process, no command

Processes == Terminal \cup {Job}
Starting == {"pair", "resume", "foreground", "refresh"}
Stopping == {"stop", "uninstall", "delete"}

ASSUME LifecycleAssumption ==
    /\ Job \notin Terminal
    /\ None \notin Processes \cup Starting \cup Stopping
    /\ Command \subseteq Starting \cup Stopping
    /\ Platforms \subseteq Managers
    /\ MaxCommands \in Nat
    /\ MaxTroubles \in Nat

VARIABLES
    manager,    \* the service manager of the machine
    saved,      \* the profile of the pair is stored
    service,    \* what is kept of its background service
    doing,      \* where each process is
    command,    \* what a terminal was told
    holder,     \* the process that holds the lock of the profile
    endpoint,   \* the process that made the control socket now in the directory
    alone,      \* commands that no starting command has overlapped
    calm,       \* what the last stopping command that succeeded alone achieved
    given, troubles

lifecycleVars == <<manager, saved, service, doing, command, holder, endpoint, alone, calm,
                   given, troubles>>

lock == <<holder, endpoint>>
told == <<command, alone, calm, given>>

\* The steps of a process that runs the connection, then those of a command.
Rising == {"begun", "network", "locking", "preparing", "removing", "binding"}
Running == {"serving", "cancelled"}
Falling == {"unlocking", "ending"}
ServiceSteps == {"copying", "recording", "enabling", "starting",
                 "disabling", "halting", "unrecording", "unprogramming"}
CommandSteps == ServiceSteps \cup {"writing", "asking", "confirming", "forgetting"}

\* What a command does with the service.
StepsOf(c) ==
    CASE c \in {"pair", "resume", "refresh"} -> InstallSteps(manager)
      [] c = "stop" -> StopSteps(manager)
      [] OTHER      -> UninstallSteps(manager)

\* Where a command stands in that, and what comes next; when a stop is done with
\* the service, it looks whether the connection is gone.
Place(t) ==
    LET steps == StepsOf(command[t])
    IN  CHOOSE i \in 1..Len(steps) : steps[i] = doing[t]
Following(t) ==
    LET steps == StepsOf(command[t])
    IN  IF Place(t) < Len(steps) THEN steps[Place(t) + 1] ELSE "confirming"

Connects(p) == IF p = Job THEN TRUE ELSE command[p] = "foreground"
Held == {"preparing", "removing", "binding", "serving", "cancelled", "unlocking"}

\* The endpoint answers: the process that made it still listens.
Live == endpoint # None /\ doing[endpoint] \in Running

\* Two commands at once have undone each other's steps, or are about to: one that
\* starts the connection runs, or one that stops it and met such a command, or the
\* manager runs, or would start, a service whose record is gone.
Overlaps(t) ==
    \/ command[t] \in Starting /\ doing[t] \in Rising \cup CommandSteps
    \/ command[t] \in Stopping /\ t \notin alone
Disturbed ==
    \/ ~service.record /\ (service.wanted \/ doing[Job] # "idle")
    \/ \E t \in Terminal : Overlaps(t)

LifecycleInit ==
    /\ manager \in Platforms
    /\ saved = FALSE
    /\ service = Absent
    /\ doing = [p \in Processes |-> "idle"]
    /\ command = [t \in Terminal |-> None]
    /\ holder = None
    /\ endpoint = None
    /\ alone = {}
    /\ calm = "no"
    /\ given = 0 /\ troubles = 0

Goes(p, step) == doing' = [doing EXCEPT ![p] = step]

\* A process ends: a terminal waits for its next command.
Over(p) ==
    /\ Goes(p, "idle")
    /\ command' = IF p \in Terminal THEN [command EXCEPT ![p] = None] ELSE command
    /\ alone' = alone \ {p}

Trouble ==
    /\ troubles < MaxTroubles
    /\ troubles' = troubles + 1

----------------------------------------------------------------------------
(* Commands.                                                               *)

Begin(t, c) ==
    /\ doing[t] = "idle"
    /\ given < MaxCommands
    /\ given' = given + 1
    /\ Goes(t, "begun")
    /\ command' = [command EXCEPT ![t] = c]
    /\ IF c \in Starting
         THEN alone' = {} /\ calm' = "no"
         ELSE /\ alone' = IF Disturbed THEN alone ELSE alone \cup {t}
              /\ calm' = calm
    /\ UNCHANGED <<manager, saved, service, lock, troubles>>

\* The profile is read: resume and a foreground connection need one, pairing
\* refuses to replace one (with --replace it goes on, as resume does), delete has
\* nothing to do without one.
Read(p) ==
    /\ doing[p] = "begun"
    /\ p \in Terminal => command[p] \in {"pair", "resume", "foreground", "delete"}
    /\ IF saved = (p \in Terminal => command[p] # "pair")
         THEN /\ Goes(p, IF p \in Terminal /\ command[p] = "delete" THEN "asking" ELSE "network")
              /\ UNCHANGED <<command, alone>>
         ELSE Over(p)
    /\ UNCHANGED <<manager, saved, service, lock, calm, given, troubles>>

StopBegins(t) ==
    /\ doing[t] = "begun"
    /\ command[t] \in {"stop", "uninstall"}
    /\ Goes(t, "asking")
    /\ UNCHANGED <<manager, saved, service, lock, told, troubles>>

\* The refresh after an update reinstalls the services that are active now, and
\* those that systemd reports as failed, stopped by their user or not.
Snapshot(t) ==
    /\ doing[t] = "begun"
    /\ command[t] = "refresh"
    /\ \/ /\ saved /\ service.record
          /\ service.wanted \/ manager \in Systemd
          /\ Goes(t, Head(StepsOf("refresh")))
          /\ UNCHANGED <<command, alone>>
       \/ /\ ~(saved /\ service.record /\ service.wanted)
          /\ Over(t)
    /\ UNCHANGED <<manager, saved, service, lock, calm, given, troubles>>

\* The network helper answers.  A pairing takes its time here as well.
NetworkReady(p) ==
    /\ doing[p] = "network"
    /\ Goes(p, IF Connects(p) THEN "locking" ELSE "writing")
    /\ UNCHANGED <<manager, saved, service, lock, told, troubles>>

----------------------------------------------------------------------------
(* Installing, starting, stopping and removing the service.                *)

Write(t) ==
    /\ doing[t] = "writing"
    /\ saved' = TRUE
    /\ Goes(t, Head(StepsOf(command[t])))
    /\ UNCHANGED <<manager, service, lock, told, troubles>>

\* A step that is for the files or the policy of the service only.
ServiceStep(t) ==
    /\ doing[t] \in ServiceSteps \ {"halting", "starting"}
    /\ service' \in Effects(manager, doing[t], service)
    /\ Goes(t, Following(t))
    /\ UNCHANGED <<manager, saved, lock, told, troubles>>

\* The manager ends the process of the service: it cleans up in time, or is
\* killed and leaves its socket.
EndsJob ==
    /\ holder' = IF holder = Job THEN None ELSE holder
    /\ \E left \in {endpoint, IF endpoint = Job THEN None ELSE endpoint} : endpoint' = left

Halt(t) ==
    /\ doing[t] = "halting"
    /\ service' \in Effects(manager, "halting", service)
    /\ IF Known(manager, service)
         THEN EndsJob /\ doing' = [doing EXCEPT ![t] = Following(t), ![Job] = "idle"]
         ELSE Goes(t, Following(t)) /\ UNCHANGED lock
    /\ UNCHANGED <<manager, saved, told, troubles>>

\* A running service is replaced by the new program.
Start(t) ==
    /\ doing[t] = "starting"
    /\ service' \in Effects(manager, "starting", service)
    /\ IF Startable(manager, service)
         THEN EndsJob /\ doing' = [doing EXCEPT ![t] = "idle", ![Job] = "begun"]
         ELSE Goes(t, "idle") /\ UNCHANGED lock
    /\ command' = [command EXCEPT ![t] = None]
    /\ alone' = alone \ {t}
    /\ UNCHANGED <<manager, saved, calm, given, troubles>>

\* After the running process was asked, the service is looked up: without a
\* record there is nothing to stop, but a copy of the program may be left.
AfterAsking(t) ==
    IF service.record THEN Head(StepsOf(command[t]))
    ELSE IF service.program /\ command[t] # "stop" THEN "unprogramming"
    ELSE "confirming"

\* The process that listens is cancelled, unless it does not answer in time.
Ask(t) ==
    /\ doing[t] = "asking"
    /\ \E heard \in IF Live THEN {{}, {endpoint}} ELSE {{}} :
          doing' = [p \in Processes |-> IF p = t THEN AfterAsking(t)
                                        ELSE IF p \in heard THEN "cancelled"
                                        ELSE doing[p]]
    /\ UNCHANGED <<manager, saved, service, lock, told, troubles>>

\* The connection is known to have stopped once its endpoint is absent or
\* refuses a connection.
Confirm(t) ==
    /\ doing[t] = "confirming"
    /\ ~Live
    /\ IF command[t] = "delete"
         THEN Goes(t, "forgetting") /\ UNCHANGED <<command, alone, calm>>
         ELSE /\ Over(t)
              /\ calm' = IF t \in alone /\ calm = "no" THEN "stopped" ELSE calm
    /\ UNCHANGED <<manager, saved, service, lock, given, troubles>>

\* Still there after fifteen seconds.
ConfirmTimesOut(t) ==
    /\ doing[t] = "confirming"
    /\ Live
    /\ Over(t)
    /\ UNCHANGED <<manager, saved, service, lock, calm, given, troubles>>

Forget(t) ==
    /\ doing[t] = "forgetting"
    /\ saved' = FALSE
    /\ Over(t)
    /\ calm' = IF t \in alone THEN "deleted" ELSE calm
    /\ UNCHANGED <<manager, service, lock, given, troubles>>

\* A step fails, or the user interrupts the command: what was done stays.
Fails(t) ==
    /\ Trouble
    /\ doing[t] \in (CommandSteps \ {"asking"}) \cup {"network"}
    /\ Over(t)
    /\ UNCHANGED <<manager, saved, service, lock, calm, given>>

----------------------------------------------------------------------------
(* The process that runs the connection.                                   *)

JobStarts ==
    /\ service.wanted
    /\ doing[Job] = "idle"
    /\ Goes(Job, "begun")
    /\ UNCHANGED <<manager, saved, service, lock, told, troubles>>

TakeLock(p) ==
    /\ doing[p] = "locking"
    /\ IF holder = None
         THEN /\ holder' = p
              /\ Goes(p, "preparing")
              /\ UNCHANGED <<command, alone>>
         ELSE /\ Over(p)
              /\ UNCHANGED holder
    /\ UNCHANGED <<manager, saved, service, endpoint, calm, given, troubles>>

\* A socket in the way is dialled: one that answers belongs to a process that
\* runs, one that refuses was left behind.
Prepare(p) ==
    /\ doing[p] = "preparing"
    /\ IF Live
         THEN /\ Over(p)
              /\ holder' = None
         ELSE /\ Goes(p, IF endpoint = None THEN "binding" ELSE "removing")
              /\ UNCHANGED <<command, alone, holder>>
    /\ UNCHANGED <<manager, saved, service, endpoint, calm, given, troubles>>

RemoveStale(p) ==
    /\ doing[p] = "removing"
    /\ endpoint' = None
    /\ Goes(p, "binding")
    /\ UNCHANGED <<manager, saved, service, holder, told, troubles>>

\* Binding fails if a socket has appeared.
Bind(p) ==
    /\ doing[p] = "binding"
    /\ IF endpoint = None
         THEN /\ endpoint' = p
              /\ Goes(p, "serving")
              /\ UNCHANGED <<command, alone, holder>>
         ELSE /\ Over(p)
              /\ holder' = None
              /\ UNCHANGED endpoint
    /\ UNCHANGED <<manager, saved, service, calm, given, troubles>>

\* Interrupted by its user, or the tunnel fails.
Cancel(p) ==
    /\ doing[p] = "serving"
    /\ IF p = Job THEN Trouble ELSE UNCHANGED troubles
    /\ Goes(p, "cancelled")
    /\ UNCHANGED <<manager, saved, service, lock, told>>

\* Mutant: the lock is given up before the socket is removed.
CloseListener_UnlocksFirst(p) ==
    /\ doing[p] \in {"cancelled", "unlocking"}
    /\ IF doing[p] = "cancelled"
         THEN holder' = None /\ Goes(p, "unlocking") /\ UNCHANGED endpoint
         ELSE endpoint' = None /\ Goes(p, "ending") /\ UNCHANGED holder
    /\ UNCHANGED <<manager, saved, service, told, troubles>>

\* Closing the listener removes whatever socket has its path.
CloseListener(p) ==
    /\ doing[p] = "cancelled"
    /\ endpoint' = None
    /\ Goes(p, "unlocking")
    /\ UNCHANGED <<manager, saved, service, holder, told, troubles>>

Unlock(p) ==
    /\ doing[p] = "unlocking"
    /\ holder' = None
    /\ Goes(p, "ending")
    /\ UNCHANGED <<manager, saved, service, endpoint, told, troubles>>

\* The tunnel is down and the process returns.  The manager starts a service
\* again that ended with an error; a restart policy may take the end of a
\* cancelled process for success.
Return(p) ==
    /\ doing[p] = "ending"
    /\ Over(p)
    /\ \E again \in {service.wanted, p # Job /\ service.wanted} :
          service' = [service EXCEPT !.wanted = again]
    /\ UNCHANGED <<manager, saved, lock, calm, given, troubles>>

Dies(p) ==
    /\ Trouble
    /\ Connects(p)
    /\ doing[p] \in Rising \cup Running \cup Falling
    /\ Over(p)
    /\ holder' = IF holder = p THEN None ELSE holder
    /\ UNCHANGED <<manager, saved, service, endpoint, calm, given>>

\* The machine restarts.  Sockets stay in the directory, locks do not.
Reboot ==
    /\ Trouble
    /\ doing' = [p \in Processes |-> "idle"]
    /\ command' = [t \in Terminal |-> None]
    /\ alone' = {}
    /\ holder' = None
    /\ service' = [service EXCEPT !.wanted = service.enabled /\ service.record]
    /\ UNCHANGED <<manager, saved, endpoint, calm, given>>

----------------------------------------------------------------------------

\* A process that runs the connection goes on by itself.
Advance(p) ==
    \/ Read(p) \/ NetworkReady(p) \/ TakeLock(p) \/ Prepare(p) \/ RemoveStale(p)
    \/ Bind(p) \/ CloseListener(p) \/ Unlock(p) \/ Return(p)

\* Every step of a command has a time limit.
Proceed(t) ==
    \/ StopBegins(t) \/ Snapshot(t) \/ Write(t) \/ ServiceStep(t) \/ Halt(t) \/ Start(t)
    \/ Ask(t) \/ Confirm(t) \/ ConfirmTimesOut(t) \/ Forget(t)

LifecycleNext ==
    \/ \E t \in Terminal :
          \/ \E c \in Command : Begin(t, c)
          \/ Proceed(t)
          \/ Fails(t)
    \/ \E p \in Processes : Advance(p) \/ Cancel(p) \/ Dies(p)
    \/ JobStarts
    \/ Reboot

LifecycleSpec == LifecycleInit /\ [][LifecycleNext]_lifecycleVars

----------------------------------------------------------------------------

\* Every variable has its type, and the lock of the profile is held by a process
\* on its way from taking it to giving it back: no way out of starting, no crash
\* and no restart leaves it taken.
LifecycleTypeOK ==
    /\ manager \in Platforms
    /\ saved \in BOOLEAN
    /\ service \in [program : BOOLEAN, record : BOOLEAN, enabled : BOOLEAN, wanted : BOOLEAN]
    /\ doing \in [Processes -> {"idle"} \cup Rising \cup Running \cup Falling \cup CommandSteps]
    /\ command \in [Terminal -> Command \cup {None}]
    /\ holder \in Processes \cup {None}
    /\ endpoint \in Processes \cup {None}
    /\ alone \subseteq Terminal
    /\ calm \in {"no", "stopped", "deleted"}
    /\ given \in 0..MaxCommands
    /\ troubles \in 0..MaxTroubles
    /\ holder # None => doing[holder] \in Held /\ Connects(holder)

\* A process that serves the connection can be reached: the socket in the
\* directory is its own, and neither one that starts nor one that ends beside
\* it has removed it or put another in its place.
EndpointIsOwn ==
    \A p \in Processes :
        doing[p] = "serving" => endpoint = p /\ holder = p

\* What was stopped stays stopped: once a stop or a delete has succeeded, and
\* nothing has started the connection since or meanwhile, no process serves it
\* or is about to, and neither the manager nor the next start of the machine
\* brings one back.
StopHolds ==
    calm # "no" =>
        /\ ~service.wanted /\ ~(service.enabled /\ service.record)
        /\ doing[Job] = "idle"
        /\ \A t \in Terminal : command[t] = "foreground" => doing[t] \in Falling

\* A connection that was deleted has left nothing: no pair, no record of the
\* service and no copy of the program, whichever earlier attempt failed where.
DeletedLeavesNothing ==
    calm = "deleted" => ~saved /\ ~service.record /\ ~service.program

\* What a stop and a delete promise, as long as nobody starts the connection anew.
EndsHold == StopHolds /\ DeletedLeavesNothing

=============================================================================
