------------------------------ MODULE NetHelper ------------------------------
(***************************************************************************)
(* The network helper and the interface it sets up: src/internal/nethelper *)
(* (helper.go, ipc_unix.go, ipc_windows.go) and src/internal/platform.     *)
(*                                                                         *)
(* A client without privileges connects to the helper service of its user  *)
(* and asks for one point-to-point interface.  The helper takes a lock     *)
(* that all helpers of the machine share, checks the routes, creates the   *)
(* interface, configures it step by step, gives the lock back, and bridges *)
(* packets until either side ends; then it takes the lock again and undoes *)
(* the steps in reverse.  A client with privileges calls the same platform *)
(* code itself, without the lock.                                          *)
(***************************************************************************)
EXTENDS Integers, Sequences, FiniteSets

CONSTANTS
    Session,    \* connections a client may make, one after the other
    RootedSets, \* which sessions' clients may have the privileges themselves
    Helper,     \* the helper services, one for each enrolled user
    Slots,      \* sessions one helper serves at once (eight in the code)
    Config,     \* what clients ask for: [name, local, peer]
    Plan,       \* the setup steps of the platform, in order
    OtherRoutes,\* addresses the machine's other routes cover
    Up,         \* what an interface that is up has, beside addresses
    Nobody      \* no session, no configuration

Link == {c.name : c \in Config}
Address == UNION {{c.local, c.peer} : c \in Config}
Steps == {"link", "mtu", "address", "route", "pair"}

ASSUME NetHelperAssumption ==
    /\ RootedSets \subseteq SUBSET Session
    /\ Slots \in Nat \ {0}
    /\ \A c \in Config : c.local # c.peer
    /\ Plan \in Seq(Steps)
    /\ Up \notin Address
    /\ IsFiniteSet(Session)
    /\ Nobody \notin Session \cup Config \cup Helper

\* What clients on each platform run, in order (platform_linux.go,
\* platform_darwin.go, platform_windows.go).
LinuxPlan == <<"address", "link", "route">>
DarwinPlan == <<"pair">>
WindowsPlan == <<"link", "mtu", "address", "route">>

VARIABLES
    rooted,     \* the sessions whose client has the privileges itself
    serving,    \* the helpers that accept connections
    host,       \* the helper that serves a session
    condition,  \* where a session is
    request,    \* the configuration it works on
    applied,    \* the steps whose inverse its cleanup still holds
    gone,       \* the sessions whose connection is closed
    network,    \* the session that holds the network lock
    link        \* the interfaces of the machine: who created them, what they hold

helperVars == <<rooted, serving, host, condition, request, applied, gone, network, link>>

Phases == {"idle", "reading", "waiting", "checking", "creating", "stepping",
           "undoing", "bridging", "leaving", "tearing", "astray", "closed"}

\* A session in one of these phases has created an interface.  An "astray" one
\* had: its device was closed before its cleanup.
Owning == {"stepping", "undoing", "bridging", "leaving", "tearing"}

\* A session in one of these phases works under the network lock.
Locked == {"checking", "creating", "stepping", "undoing", "tearing"}

\* In one of these phases the worker has yet to use the connection of its client.
Attended == {"reading", "waiting", "checking", "creating", "stepping", "bridging"}

NoLink == [owner |-> Nobody, holds |-> {}]

Adds(step, c) ==
    CASE step = "link"    -> {Up}
      [] step = "address" -> {c.local}
      [] step = "route"   -> {c.peer}
      [] step = "pair"    -> {c.local, c.peer}
      [] OTHER            -> {}

\* What the inverse of a step may take from an interface that holds so much: what
\* the step added, and with the link whatever depends on it; or nothing.
Takes(step, c, held) ==
    {{}} \cup IF step = "link" THEN {{Up} \cup lost : lost \in SUBSET held}
                              ELSE {Adds(step, c)}

Mine(s) == link[request[s].name].owner = s

\* The sessions a helper process works for.
Served(h) == {s \in Session : host[s] = h}

HelperInit ==
    /\ rooted \in RootedSets
    /\ serving = {}
    /\ host = [s \in Session |-> Nobody]
    /\ condition = [s \in Session |-> "idle"]
    /\ request = [s \in Session |-> Nobody]
    /\ applied = [s \in Session |-> 0]
    /\ gone = {}
    /\ network = Nobody
    /\ link = [n \in Link |-> NoLink]

----------------------------------------------------------------------------
(* The machine.                                                            *)

\* The routes the machine shows cover the address: one of its own, or the
\* address or the route of an interface.  A default route covers nothing.
Covered(a) == a \in OtherRoutes \/ \E n \in Link : a \in link[n].holds

\* Closing the device removes the interface, its addresses and its routes.
Closing(s) ==
    link' = IF Mine(s) THEN [link EXCEPT ![request[s].name] = NoLink] ELSE link

GiveBack(s) == network' = IF network = s THEN Nobody ELSE network

\* The connection is closed, the worker returns and its slot is free.
Ends(s) ==
    /\ condition' = [condition EXCEPT ![s] = "idle"]
    /\ host' = [host EXCEPT ![s] = Nobody]
    /\ request' = [request EXCEPT ![s] = Nobody]
    /\ applied' = [applied EXCEPT ![s] = 0]
    /\ gone' = gone \ {s}

Moves(s, p) == condition' = [condition EXCEPT ![s] = p]

----------------------------------------------------------------------------
(* A session.                                                              *)

\* The helper accepts the connection of its user and has a slot for it.
Accept(s, h) ==
    /\ condition[s] = "idle"
    /\ s \notin rooted
    /\ h \in serving
    /\ Cardinality(Served(h)) < Slots
    /\ Moves(s, "reading")
    /\ host' = [host EXCEPT ![s] = h]
    /\ UNCHANGED <<rooted, serving, request, applied, gone, network, link>>

\* A check, a request that is refused, or none within ten seconds.
Dismiss(s) ==
    /\ condition[s] = "reading"
    /\ Ends(s)
    /\ UNCHANGED <<rooted, serving, network, link>>

AskHelper(s, c) ==
    /\ condition[s] = "reading"
    /\ s \notin gone
    /\ Moves(s, "waiting")
    /\ request' = [request EXCEPT ![s] = c]
    /\ UNCHANGED <<rooted, serving, host, applied, gone, network, link>>

\* The network lock, polled every 20 ms.
TakeNetworkLock(s) ==
    /\ condition[s] = "waiting"
    /\ network = Nobody
    /\ network' = s
    /\ Moves(s, "checking")
    /\ UNCHANGED <<rooted, serving, host, request, applied, gone, link>>

\* Setup, and the wait for the lock with it, is given up after 30 seconds, or
\* when the service stops.
LockTimesOut(s) ==
    /\ condition[s] = "waiting"
    /\ network # Nobody
    /\ Ends(s)
    /\ UNCHANGED <<rooted, serving, network, link>>

\* A client with privileges sets the interface up itself.
OpenItself(s, c) ==
    /\ condition[s] = "idle"
    /\ s \in rooted
    /\ Moves(s, "checking")
    /\ request' = [request EXCEPT ![s] = c]
    /\ UNCHANGED <<rooted, serving, host, applied, gone, network, link>>

\* No route covers either address, and no interface has the name.
RoutesFree(s) ==
    /\ condition[s] = "checking"
    /\ ~Covered(request[s].local) /\ ~Covered(request[s].peer)
    /\ link[request[s].name] = NoLink
    /\ Moves(s, "creating")
    /\ UNCHANGED <<rooted, serving, host, request, applied, gone, network, link>>

\* A route or the name is taken, or the interface cannot be created.
Refused(s) ==
    /\ condition[s] \in {"checking", "creating"}
    /\ Ends(s)
    /\ GiveBack(s)
    /\ UNCHANGED <<rooted, serving, link>>

Create(s) ==
    /\ condition[s] = "creating"
    /\ link[request[s].name].owner = Nobody
    /\ link' = [link EXCEPT ![request[s].name] = [owner |-> s, holds |-> {}]]
    /\ Moves(s, "stepping")
    /\ UNCHANGED <<rooted, serving, host, request, applied, gone, network>>

\* The next step succeeds, and its inverse joins the cleanup.
Apply(s) ==
    /\ condition[s] = "stepping"
    /\ applied[s] < Len(Plan)
    /\ link' = [link EXCEPT ![request[s].name].holds =
                            @ \cup Adds(Plan[applied[s] + 1], request[s])]
    /\ applied' = [applied EXCEPT ![s] = @ + 1]
    /\ UNCHANGED <<rooted, serving, host, condition, request, gone, network>>

\* The next step fails, or the time is over: whatever it did is not undone by
\* itself, everything before it is.
ApplyFails(s) ==
    /\ condition[s] = "stepping"
    /\ applied[s] < Len(Plan)
    /\ \E done \in SUBSET Adds(Plan[applied[s] + 1], request[s]) :
          link' = [link EXCEPT ![request[s].name].holds = @ \cup done]
    /\ Moves(s, "undoing")
    /\ UNCHANGED <<rooted, serving, host, request, applied, gone, network>>

\* Windows does not let the address be used within five seconds.
NeverReady(s) ==
    /\ condition[s] = "stepping"
    /\ Plan = WindowsPlan /\ applied[s] = Len(Plan)
    /\ Moves(s, "undoing")
    /\ UNCHANGED <<rooted, serving, host, request, applied, gone, network, link>>

\* The interface is ready: the lock is given back and the client is told.  A
\* client that has gone cannot be told.
Opened(s) ==
    /\ condition[s] = "stepping"
    /\ applied[s] = Len(Plan)
    /\ Moves(s, IF s \in gone THEN "leaving" ELSE "bridging")
    /\ GiveBack(s)
    /\ UNCHANGED <<rooted, serving, host, request, applied, gone, link>>

\* The connection reads an error, and the bridge ends.
BridgeEnds(s) ==
    /\ condition[s] = "bridging"
    /\ s \in gone
    /\ Moves(s, "leaving")
    /\ UNCHANGED <<rooted, serving, host, request, applied, gone, network, link>>

\* The interface fails or the client sends what is no packet of the pair; the
\* helper closes the connection and ends the bridge.
BridgeFails(s) ==
    /\ condition[s] = "bridging"
    /\ s \notin rooted
    /\ Moves(s, "leaving")
    /\ gone' = gone \cup {s}
    /\ UNCHANGED <<rooted, serving, host, request, applied, network, link>>

\* The interface of a client with privileges fails: WireGuard closes the device
\* by itself, and the deferred cleanup comes when its name is free already.
DeviceFails(s) ==
    /\ condition[s] \in {"bridging", "leaving", "tearing"}
    /\ s \in rooted
    /\ Closing(s)
    /\ Moves(s, "astray")
    /\ gone' = gone \cup {s}
    /\ UNCHANGED <<rooted, serving, host, request, applied, network>>

\* Teardown is under the lock again, whatever has been cancelled meanwhile.
TakeLockAgain(s) ==
    /\ condition[s] = "leaving"
    /\ s \notin rooted => network = Nobody
    /\ network' = IF s \in rooted THEN network ELSE s
    /\ Moves(s, "tearing")
    /\ UNCHANGED <<rooted, serving, host, request, applied, gone, link>>

\* Mutant: what the device held is thought gone with the session.
TeardownTimesOut_Forgets(s) ==
    /\ condition[s] = "leaving"
    /\ s \notin rooted
    /\ network # Nobody
    /\ Moves(s, "closed")
    /\ UNCHANGED <<rooted, serving, host, request, applied, gone, network, link>>

\* Without the lock within 15 seconds the device is closed and nothing undone.
TeardownTimesOut(s) ==
    /\ condition[s] = "leaving"
    /\ s \notin rooted
    /\ network # Nobody
    /\ Closing(s)
    /\ Moves(s, "closed")
    /\ UNCHANGED <<rooted, serving, host, request, applied, gone, network>>

\* The inverse of the last step still held runs, on the interface of that
\* name, whoever made it; a command that fails, or runs out of the ten seconds,
\* is passed over.
Undo(s) ==
    /\ condition[s] \in {"undoing", "tearing", "astray"}
    /\ applied[s] > 0
    /\ applied' = [applied EXCEPT ![s] = @ - 1]
    /\ \E undone \in Takes(Plan[applied[s]], request[s], link[request[s].name].holds) :
          link' = [link EXCEPT ![request[s].name].holds = @ \ undone]
    /\ UNCHANGED <<rooted, serving, host, condition, request, gone, network>>

\* Mutant: the name is free before the cleanup is over.
CloseDevice_First(s) ==
    /\ condition[s] \in {"undoing", "tearing", "astray"}
    /\ Mine(s) \/ applied[s] = 0
    /\ Closing(s)
    /\ IF applied[s] > 0
         THEN UNCHANGED <<condition, host, request, applied, gone, network>>
         ELSE /\ GiveBack(s)
              /\ IF condition[s] = "undoing"
                   THEN Ends(s)
                   ELSE Moves(s, "closed") /\ UNCHANGED <<host, request, applied, gone>>
    /\ UNCHANGED <<rooted, serving>>

\* The first thing the cleanup was given comes last: the device is closed.
CloseDevice(s) ==
    /\ condition[s] \in {"undoing", "tearing", "astray"}
    /\ applied[s] = 0
    /\ Closing(s)
    /\ GiveBack(s)
    /\ IF condition[s] = "undoing"
         THEN Ends(s)
         ELSE Moves(s, "closed") /\ UNCHANGED <<host, request, applied, gone>>
    /\ UNCHANGED <<rooted, serving>>

\* The three workers of the bridge have ended: the reader of the interface
\* once the device is closed, the reader of the connection once that is.
WorkersEnd(s) ==
    /\ condition[s] = "closed"
    /\ ~Mine(s)
    /\ Ends(s)
    /\ UNCHANGED <<rooted, serving, network, link>>

\* The client closes its device, gives up waiting, or is gone.
ClientGoes(s) ==
    /\ condition[s] \in IF s \in rooted THEN {"bridging"} ELSE Attended
    /\ s \notin gone
    /\ gone' = gone \cup {s}
    /\ UNCHANGED <<rooted, serving, host, condition, request, applied, network, link>>

----------------------------------------------------------------------------
(* A helper service.                                                       *)

\* The lock of the user's endpoint is free: no earlier process of this service
\* is left.
HelperStarts(h) ==
    /\ h \notin serving
    /\ Served(h) = {}
    /\ serving' = serving \cup {h}
    /\ UNCHANGED <<rooted, host, condition, request, applied, gone, network, link>>

\* The service stops: it accepts no more, closes its connections and waits.
HelperStops(h) ==
    /\ h \in serving
    /\ serving' = serving \ {h}
    /\ gone' = gone \cup {s \in Served(h) : condition[s] \in Attended}
    /\ UNCHANGED <<rooted, host, condition, request, applied, network, link>>

\* A process dies, and the system closes what it had open: the lock, the
\* connections and the devices.
SessionsDie(dead) ==
    /\ condition' = [s \in Session |-> IF s \in dead THEN "idle" ELSE condition[s]]
    /\ host' = [s \in Session |-> IF s \in dead THEN Nobody ELSE host[s]]
    /\ request' = [s \in Session |-> IF s \in dead THEN Nobody ELSE request[s]]
    /\ applied' = [s \in Session |-> IF s \in dead THEN 0 ELSE applied[s]]
    /\ gone' = gone \ dead
    /\ network' = IF network \in dead THEN Nobody ELSE network
    /\ link' = [n \in Link |-> IF link[n].owner \in dead THEN NoLink ELSE link[n]]

HelperCrashes(h) ==
    /\ h \in serving \/ Served(h) # {}
    /\ SessionsDie(Served(h))
    /\ serving' = serving \ {h}
    /\ UNCHANGED rooted

ClientDies(s) ==
    /\ s \in rooted
    /\ condition[s] # "idle"
    /\ SessionsDie({s})
    /\ UNCHANGED <<rooted, serving>>

\* What a worker does once it is free to: every wait and every command in it
\* has a time limit.
Serve(s) ==
    \/ Dismiss(s) \/ TakeNetworkLock(s) \/ LockTimesOut(s) \/ RoutesFree(s) \/ Refused(s)
    \/ Create(s) \/ Apply(s) \/ ApplyFails(s) \/ NeverReady(s) \/ Opened(s) \/ BridgeEnds(s)
    \/ TakeLockAgain(s) \/ TeardownTimesOut(s) \/ Undo(s) \/ CloseDevice(s)
    \/ WorkersEnd(s)

HelperNext ==
    \/ \E s \in Session :
          \/ Serve(s)
          \/ \E h \in Helper : Accept(s, h)
          \/ \E c \in Config : AskHelper(s, c) \/ OpenItself(s, c)
          \/ BridgeFails(s) \/ DeviceFails(s)
          \/ ClientGoes(s)
          \/ ClientDies(s)
    \/ \E h \in Helper : HelperStarts(h) \/ HelperStops(h) \/ HelperCrashes(h)

HelperSpec == HelperInit /\ [][HelperNext]_helperVars

----------------------------------------------------------------------------

\* Every variable has its type; the lock is held by a session that works under
\* it, and a helper serves no more sessions than it has slots.
NetHelperTypeOK ==
    /\ rooted \in RootedSets
    /\ serving \subseteq Helper
    /\ host \in [Session -> Helper \cup {Nobody}]
    /\ condition \in [Session -> Phases]
    /\ request \in [Session -> Config \cup {Nobody}]
    /\ applied \in [Session -> 0..Len(Plan)]
    /\ gone \subseteq Session
    /\ network \in Session \cup {Nobody}
    /\ link \in [Link -> [owner : Session \cup {Nobody}, holds : SUBSET (Address \cup {Up})]]
    /\ network # Nobody => condition[network] \in Locked
    /\ \A h \in Helper : Cardinality(Served(h)) <= Slots

\* Two sessions of helpers never have an address in common, their own or a
\* peer's: the check of the routes and the setup of one are over before the
\* check of the other, whichever users' services they run in.
DisjointAddresses ==
    \A m, n \in Link :
        /\ m # n
        /\ link[m].owner \in Session \ rooted
        /\ link[n].owner \in Session \ rooted
        => link[m].holds \cap link[n].holds \cap Address = {}

\* An interface, with its addresses and its routes, exists only while the
\* session that made it is setting it up, using it or taking it down: no
\* failed step, no undo that was skipped and no lock that came too late leaves
\* one behind.
NothingLeft ==
    \A n \in Link :
        IF link[n].owner = Nobody
          THEN link[n].holds = {}
          ELSE /\ condition[link[n].owner] \in Owning
               /\ request[link[n].owner].name = n

\* Interfaces of sessions neither collide nor outlive them.
InterfacesKept == DisjointAddresses /\ NothingLeft

\* An interface is changed by a step of the session that made it; by another one
\* only if that lost its device to WireGuard before its cleanup, whose inverse
\* commands name the interface and meet whoever has the name by then.  These may
\* take from it, but it stays its owner's.  No helper's session does this.
OnlyItsOwn ==
    [][ \A n \in Link :
          (link[n].owner # Nobody /\ link'[n] # link[n])
          => LET s == link[n].owner
             IN  \/ applied'[s] # applied[s] \/ condition'[s] # condition[s]
                 \/ /\ link'[n].owner = s /\ link'[n].holds \subseteq link[n].holds
                    /\ \E t \in rooted :
                          /\ condition[t] = "astray" /\ request[t].name = n
                          /\ applied'[t] < applied[t] ]_helperVars

=============================================================================
