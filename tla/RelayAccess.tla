----------------------------- MODULE RelayAccess -----------------------------
(***************************************************************************)
(* How a runner keeps its access to the relay: the lease it registers for  *)
(* its relay key (Client.Run of internal/client/run.go, the lease table of *)
(* internal/control/control.go) and the relay connection that is admitted  *)
(* for five minutes at a time (internal/server/server.go).                 *)
(*                                                                         *)
(* Time passes in ticks of the five seconds between two looks of the       *)
(* renewal loop; the three periods are constants in ticks.                 *)
(***************************************************************************)
EXTENDS Integers, FiniteSets

CONSTANTS
    Runner,         \* runners, each with a device and a relay key of its own
    Lease,          \* the ten minutes of a lease
    Renewal,        \* the five minutes after which it is renewed
    Admission,      \* the five minutes of a relay connection
    Slots,          \* Config.MaxRelayConnections
    MaxTroubles     \* bound

VARIABLES
    on,         \* runners that run
    serving,    \* the server runs
    disabled,   \* runners whose device is revoked
    lease,      \* ticks left of the lease of each key
    due,        \* ticks left until nextRenewal
    session,    \* ticks left of the relay connection, 0: not connected
    looked,     \* runners whose loop looked since the last tick
    heard,      \* those of them that did so after the server last started
    unsure,     \* runners whose last registration failed
    cutIn,      \* ticks since the device was revoked
    troubles

relayAccessVars ==
    <<on, serving, disabled, lease, due, session, looked, heard, unsure, cutIn, troubles>>

ASSUME RelayAccessAssumption ==
    /\ Lease \in Nat /\ Renewal \in Nat \ {0} /\ Admission \in Nat \ {0} /\ Renewal < Lease
    /\ Slots \in Nat /\ MaxTroubles \in Nat

Online == {r \in Runner : session[r] > 0}
Trouble == troubles < MaxTroubles /\ troubles' = troubles + 1
-----------------------------------------------------------------------------
\* The request reaches the service and is answered.
Granted(r) ==
    /\ lease' = [lease EXCEPT ![r] = Lease]
    /\ due' = [due EXCEPT ![r] = Renewal]
    /\ unsure' = unsure \ {r}
NotGranted(r) ==
    /\ IF serving /\ r \notin disabled THEN Trouble ELSE UNCHANGED troubles
    /\ unsure' = unsure \cup {r}
    /\ UNCHANGED lease

\* Run registers before it does anything else; a server that cannot be reached
\* is no reason to stop, one that refuses the device is.
StartRunner(r) ==
    /\ r \notin on
    /\ serving => r \notin disabled
    /\ on' = on \cup {r}
    /\ looked' = looked \cup {r}
    /\ heard' = heard \cup {r}
    /\ \/ serving /\ r \notin disabled /\ Granted(r) /\ UNCHANGED troubles
       \/ NotGranted(r) /\ due' = [due EXCEPT ![r] = Renewal]
    /\ UNCHANGED <<serving, disabled, session, cutIn>>

StopRunner(r) ==
    /\ Trouble
    /\ r \in on
    /\ on' = on \ {r}
    /\ session' = [session EXCEPT ![r] = 0]
    /\ UNCHANGED <<serving, disabled, lease, due, looked, heard, unsure, cutIn>>

\* Mutant: the lease is renewed by the clock only.
Look_ByClock(r) ==
    /\ r \in on /\ r \notin looked
    /\ looked' = looked \cup {r}
    /\ heard' = heard \cup {r}
    /\ IF due[r] > 0
         THEN UNCHANGED <<lease, due, unsure, troubles>>
         ELSE \/ serving /\ r \notin disabled /\ Granted(r) /\ UNCHANGED troubles
              \/ NotGranted(r) /\ UNCHANGED due
    /\ UNCHANGED <<on, serving, disabled, session, cutIn>>
\* One round of the renewal loop.
Look(r) ==
    /\ r \in on /\ r \notin looked
    /\ looked' = looked \cup {r}
    /\ heard' = heard \cup {r}
    /\ IF due[r] > 0 /\ session[r] > 0
         THEN UNCHANGED <<lease, due, unsure, troubles>>
         ELSE \/ serving /\ r \notin disabled /\ Granted(r) /\ UNCHANGED troubles
              \/ NotGranted(r) /\ UNCHANGED due
    /\ UNCHANGED <<on, serving, disabled, session, cutIn>>

AdmissionLeft(r) == session[r] - 1

\* admit: AllowedRelayKey.
Admits(r) == r \notin disabled /\ lease[r] > 0

\* The relay worker of the Bind connects again.
Connect(r) ==
    /\ r \in on
    /\ serving
    /\ session[r] = 0
    /\ Cardinality(Online) < Slots
    /\ Admits(r)
    /\ session' = [session EXCEPT ![r] = Admission]
    /\ UNCHANGED <<on, serving, disabled, lease, due, looked, heard, unsure, cutIn, troubles>>

ConnectionLost(r) ==
    /\ Trouble
    /\ session[r] > 0
    /\ session' = [session EXCEPT ![r] = 0]
    /\ UNCHANGED <<on, serving, disabled, lease, due, looked, heard, unsure, cutIn>>

\* Leases are not saved.
ServerStops ==
    /\ Trouble
    /\ serving
    /\ serving' = FALSE
    /\ lease' = [r \in Runner |-> 0]
    /\ session' = [r \in Runner |-> 0]
    /\ UNCHANGED <<on, disabled, due, looked, heard, unsure, cutIn>>

ServerStarts ==
    /\ ~serving
    /\ serving' = TRUE
    /\ heard' = {}
    /\ UNCHANGED <<on, disabled, lease, due, session, looked, unsure, cutIn, troubles>>

\* RevokeDevice takes the lease away; a relay connection is not touched.
Disable(r) ==
    /\ serving
    /\ r \notin disabled
    /\ disabled' = disabled \cup {r}
    /\ lease' = [lease EXCEPT ![r] = 0]
    /\ cutIn' = [cutIn EXCEPT ![r] = 0]
    /\ UNCHANGED <<on, serving, due, session, looked, heard, unsure, troubles>>

Less(n) == IF n > 0 THEN n - 1 ELSE 0
Tick ==
    /\ on \subseteq looked
    /\ looked' = {}
    /\ heard' = {}
    /\ lease' = [r \in Runner |-> Less(lease[r])]
    /\ due' = [r \in Runner |-> Less(due[r])]
    /\ session' = [r \in Runner |-> IF session[r] > 0 THEN AdmissionLeft(r) ELSE 0]
    /\ cutIn' = [r \in Runner |->
                   IF r \in disabled /\ cutIn[r] < Admission THEN cutIn[r] + 1 ELSE cutIn[r]]
    /\ UNCHANGED <<on, serving, disabled, unsure, troubles>>
-----------------------------------------------------------------------------
RelayAccessInit ==
    /\ on = {}
    /\ serving = TRUE
    /\ disabled = {}
    /\ lease = [r \in Runner |-> 0]
    /\ due = [r \in Runner |-> 0]
    /\ session = [r \in Runner |-> 0]
    /\ looked = {}
    /\ heard = {}
    /\ unsure = {}
    /\ cutIn = [r \in Runner |-> 0]
    /\ troubles = 0

RelayAccessNext ==
    \/ \E r \in Runner : \/ StartRunner(r) \/ StopRunner(r) \/ Look(r)
                         \/ Connect(r) \/ ConnectionLost(r) \/ Disable(r)
    \/ ServerStops \/ ServerStarts \/ Tick

RelayAccessSpec == RelayAccessInit /\ [][RelayAccessNext]_relayAccessVars
-----------------------------------------------------------------------------
RelayAccessTypeOK ==
    /\ {on, disabled, looked, unsure} \subseteq SUBSET Runner
    /\ heard \subseteq looked
    /\ serving \in BOOLEAN
    /\ lease \in [Runner -> 0..Lease]
    /\ due \in [Runner -> 0..Renewal]
    /\ session \in [Runner -> 0..Admission]
    /\ cutIn \in [Runner -> 0..Admission]
    /\ troubles \in 0..MaxTroubles

\* A runner that has looked, and whose registrations are answered, can always
\* be admitted: its lease is there while it is connected and whenever it is
\* not, after a restart of the server as after its own.
AlwaysAdmissible ==
    \A r \in on : (serving /\ r \in heard /\ r \notin disabled /\ r \notin unsure)
                       => lease[r] > 0 /\ lease[r] >= due[r]

\* "Authorization leases are never valid indefinitely": the relay serves a
\* revoked device for the rest of one admission period at most.
RevokedIsCutOff == \A r \in disabled : session[r] + cutIn[r] <= Admission

\* A device has the relay as long as it may, and not much longer.
AccessFollowsLease == AlwaysAdmissible /\ RevokedIsCutOff

\* A runner whose device is not revoked gets back to the relay again and again.
RelayRegained == \A r \in Runner : []<>(session[r] > 0 \/ r \in disabled)
=============================================================================
