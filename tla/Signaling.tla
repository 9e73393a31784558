------------------------------ MODULE Signaling ------------------------------
(***************************************************************************)
(* How two runners agree on a direct path: maintainDirect and              *)
(* runICENegotiation of internal/client/run.go, the sockets and channels   *)
(* of api.go, and the ICE agents of internal/transport/ice.go, which both  *)
(* sides drive for one pair.                                               *)
(*                                                                         *)
(* The rendezvous service is the abstract form of PeerSockets: a slot per  *)
(* side, readiness announced after the slot is taken, frames forwarded     *)
(* between the two slots, a holder that leaves reported to the other.  A   *)
(* session of module Session is the pair of sockets whose hellos it was    *)
(* made from: a frame opens under the same two only.                       *)
(*                                                                         *)
(* Sockets and generations are fresh each time; an identifier is taken     *)
(* again only when nothing in the system refers to it, and it does not     *)
(* matter which.  A fault is whatever a working network and a running      *)
(* program would not do; there are MaxFaults of them.                      *)
(***************************************************************************)
EXTENDS Integers, Sequences, FiniteSets

CONSTANTS
    HostSocket, GuestSocket,    \* identifiers of sockets of either side
    Generation,                 \* identifiers of generations
    RelayOnlyRuns,              \* bound: which sides may be run with --relay-only
    Backlog,                    \* capacity of socket.incoming
    MaxFaults,                  \* bound
    Nil

VARIABLES
    relayOnly,  \* RunOptions.RelayOnly of the sides, never changed
    at,         \* where maintainDirect of each side is
    sock,       \* its socket
    sess,       \* the socket of the peer whose hello it accepted
    gen,        \* generation of the attempt under way
    agents,     \* {<<side, generation>>}: ICE agents not closed
    active,     \* activeICE.agent
    path,       \* the direct path of each side's Bind
    linked,     \* generations whose connectivity checks succeeded
    alive,      \* sockets that still carry messages
    seat,       \* the service's slot of each side
    inbox,      \* messages on their way to a socket, or waiting in it
    news,       \* readiness events the service has yet to queue
    faults,
    replaced    \* some socket took the slot of one that had not left it

clientVars == <<at, sock, sess, gen>>
iceVars == <<agents, active, path, linked>>
netVars == <<alive, seat, inbox, news>>
signalingVars == <<relayOnly, clientVars, iceVars, netVars, faults, replaced>>

Side == {"host", "guest"}
Peer(s) == IF s = "host" THEN "guest" ELSE "host"
SocketOf(s) == IF s = "host" THEN HostSocket ELSE GuestSocket
Socket == HostSocket \cup GuestSocket
SideOf(c) == IF c \in HostSocket THEN "host" ELSE "guest"

Up == [kind |-> "up"]
Down == [kind |-> "down"]
HelloOf(c) == [kind |-> "hello", from |-> c]
\* iceMessage, sealed for the session of two sockets.
Ice(c, d, g, off) == [kind |-> "ice", from |-> c, to |-> d, gen |-> g, disabled |-> off]
Packet == {Up, Down} \cup {HelloOf(c) : c \in Socket}
          \cup [kind : {"ice"}, from : Socket, to : Socket, gen : Generation, disabled : BOOLEAN]

ASSUME SocketAssumption ==
    HostSocket \cap GuestSocket = {} /\ Nil \notin Socket \cup Generation
ASSUME SignalingBounds ==
    RelayOnlyRuns \subseteq SUBSET Side /\ Backlog \in Nat \ {0} /\ MaxFaults \in Nat
-----------------------------------------------------------------------------
(* The service and the network.                                            *)

Fault == faults < MaxFaults /\ faults' = faults + 1

\* Mutant: the reader of a socket never gives up.
Delivered_Unbounded(box, c, m) == IF c \notin alive THEN box ELSE [box EXCEPT ![c] = Append(@, m)]
\* What is queued for a socket: nothing if it is gone; a reader that finds its
\* channel full closes the socket.
Delivered(box, c, m) ==
    IF c \notin alive \/ Len(box[c]) >= Backlog THEN box ELSE [box EXCEPT ![c] = Append(@, m)]
Overflown(c) == IF c \in alive /\ Len(inbox[c]) >= Backlog THEN {c} ELSE {}

\* A frame is forwarded if its sender holds its slot and the other is held.
Send(c, m) ==
    LET to == seat[Peer(SideOf(c))]
    IN  IF c \in alive /\ seat[SideOf(c)] = c /\ to # Nil
          THEN inbox' = Delivered(inbox, to, m) /\ alive' = alive \ Overflown(to)
          ELSE UNCHANGED <<inbox, alive>>

\* The service queues a readiness event after it let its lock go.
Announce(c) ==
    /\ news[c] # <<>>
    /\ inbox' = Delivered(inbox, Head(news[c]), Up)
    /\ alive' = alive \ Overflown(Head(news[c]))
    /\ news' = [news EXCEPT ![c] = Tail(@)]
    /\ UNCHANGED <<relayOnly, replaced, clientVars, iceVars, seat, faults>>

\* The service notices that a socket is gone; the other side is told if the
\* socket still held its slot.
Vacate(c) ==
    LET other == seat[Peer(SideOf(c))]
    IN  /\ seat[SideOf(c)] = c
        /\ c \notin alive
        /\ news[c] = <<>>
        /\ seat' = [seat EXCEPT ![SideOf(c)] = Nil]
        /\ IF other # Nil
             THEN inbox' = Delivered(inbox, other, Down) /\ alive' = alive \ Overflown(other)
             ELSE UNCHANGED <<inbox, alive>>
        /\ UNCHANGED <<relayOnly, replaced, clientVars, iceVars, news, faults>>

\* The network, or the service, drops a connection.
SocketBreaks(c) ==
    /\ Fault
    /\ c \in alive
    /\ alive' = alive \ {c}
    /\ UNCHANGED <<relayOnly, replaced, clientVars, iceVars, seat, inbox, news>>
-----------------------------------------------------------------------------
(* maintainDirect up to an authenticated channel.                          *)

\* An agent serves one attempt; closing it closes its sockets and what it
\* connected.
NewAgent(s, g) == agents' = agents \cup {<<s, g>>}
CloseAgents(s, gs) == agents' = agents \ ({s} \X gs)

Message(s) == Head(inbox[sock[s]])
HasMessage(s) == inbox[sock[s]] # <<>>
Take(s) == inbox' = [inbox EXCEPT ![sock[s]] = Tail(@)]

\* Nothing refers to the socket any more.
Unused(c) ==
    /\ c \notin alive
    /\ \A s \in Side : c \notin {sock[s], sess[s], seat[s]}
    /\ \A d \in Socket :
         /\ \A i \in DOMAIN news[d] : d # c /\ news[d][i] # c
         /\ \A i \in DOMAIN inbox[d] :
              inbox[d][i].kind \in {"hello", "ice"} => inbox[d][i].from # c
Taken(s) == seat[s] # Nil /\ seat[s] \in alive

\* The service has dealt with every lost socket, and a runner that reads with
\* what it was told of it.  Both do so at once, and a runner pauses for a second
\* and more before it dials: to dial earlier counts as a fault.  Only then can
\* a socket take the slot of one that has stopped and not left yet, of which the
\* other side is told nothing (RemainingPeerIsTold of PeerSockets).
Settled ==
    \A s \in Side :
        /\ seat[s] # Nil => seat[s] \in alive /\ news[seat[s]] = <<>>
        /\ at[s] \in {"waiting", "greeting", "asking", "listening"} =>
             \A i \in DOMAIN inbox[sock[s]] : inbox[sock[s]][i] # Down

Dial(s, c) ==
    /\ at[s] = "dialing"
    /\ ~Taken(s)
    /\ Unused(c) /\ c = CHOOSE d \in SocketOf(s) : Unused(d)
    /\ IF Settled THEN UNCHANGED faults ELSE Fault
    /\ replaced' = (replaced \/ seat[s] # Nil)
    /\ at' = [at EXCEPT ![s] = "waiting"]
    /\ sock' = [sock EXCEPT ![s] = c]
    /\ alive' = alive \cup {c}
    /\ seat' = [seat EXCEPT ![s] = c]
    /\ news' = [news EXCEPT ![c] = IF Taken(Peer(s)) THEN <<c, seat[Peer(s)]>> ELSE <<>>]
    /\ UNCHANGED <<relayOnly, sess, gen, iceVars, inbox>>

DialRefused(s) ==
    /\ at[s] = "dialing"
    /\ IF seat[s] # Nil THEN UNCHANGED faults ELSE Fault
    /\ at' = [at EXCEPT ![s] = "pausing"]
    /\ UNCHANGED <<relayOnly, replaced, sock, sess, gen, iceVars, netVars>>

Redial(s) ==
    /\ at[s] = "pausing"
    /\ at' = [at EXCEPT ![s] = "dialing"]
    /\ UNCHANGED <<relayOnly, replaced, sock, sess, gen, iceVars, netVars, faults>>

\* Mutant: an error ends the direct path too.
GiveUp_ClosesActive(s) ==
    /\ at' = [at EXCEPT ![s] = "pausing"]
    /\ sock' = [sock EXCEPT ![s] = Nil]
    /\ sess' = [sess EXCEPT ![s] = Nil]
    /\ gen' = [gen EXCEPT ![s] = Nil]
    /\ CloseAgents(s, {gen[s], active[s]})
    /\ path' = [path EXCEPT ![s] = Nil]
    /\ alive' = alive \ {sock[s]}
    /\ inbox' = [inbox EXCEPT ![sock[s]] = <<>>]
    /\ UNCHANGED <<relayOnly, replaced, active, linked, seat, news>>
\* Any error: the attempt's agent and the socket are closed, a pause follows.
\* A direct path that works stays.
GiveUp(s) ==
    /\ at' = [at EXCEPT ![s] = "pausing"]
    /\ sock' = [sock EXCEPT ![s] = Nil]
    /\ sess' = [sess EXCEPT ![s] = Nil]
    /\ gen' = [gen EXCEPT ![s] = Nil]
    /\ CloseAgents(s, {gen[s]})
    /\ alive' = alive \ {sock[s]}
    /\ inbox' = [inbox EXCEPT ![sock[s]] = <<>>]
    /\ UNCHANGED <<relayOnly, replaced, active, path, linked, seat, news>>

\* The readiness event of this socket is still on its way.
Unannounced(c) == \E d \in Socket : \E i \in DOMAIN news[d] : news[d][i] = c

\* socket.waitPeer, and the hello that newChannel sends first.  A hello that
\* overtakes the readiness event of its addressee, which the service queues
\* at once, counts as a fault.
WaitPeer(s) ==
    /\ at[s] = "waiting"
    /\ HasMessage(s)
    /\ Message(s) = Up
    /\ at' = [at EXCEPT ![s] = "greeting"]
    /\ IF Unannounced(seat[Peer(s)]) THEN Fault ELSE UNCHANGED faults
    /\ LET rest == [inbox EXCEPT ![sock[s]] = Tail(@)]
           to == seat[Peer(s)]
       IN  IF sock[s] \in alive /\ seat[s] = sock[s] /\ to # Nil
             THEN /\ inbox' = Delivered(rest, to, HelloOf(sock[s]))
                  /\ alive' = alive \ Overflown(to)
             ELSE inbox' = rest /\ UNCHANGED alive
    /\ UNCHANGED <<relayOnly, replaced, sock, sess, gen, iceVars, seat, news>>

\* socket.read passes over connected=true.
Reading == {"greeting", "asking", "listening"}
\* Mutant: it passes over connected=false as well.
SkipUp_Any(s) ==
    /\ at[s] \in Reading
    /\ HasMessage(s)
    /\ Message(s) \in {Up, Down}
    /\ Take(s)
    /\ UNCHANGED <<relayOnly, replaced, clientVars, iceVars, alive, seat, news, faults>>
SkipUp(s) ==
    /\ at[s] \in Reading
    /\ HasMessage(s)
    /\ Message(s) = Up
    /\ Take(s)
    /\ UNCHANGED <<relayOnly, replaced, clientVars, iceVars, alive, seat, news, faults>>

Greeted(s) ==
    /\ at[s] = "greeting"
    /\ HasMessage(s)
    /\ Message(s).kind = "hello"
    /\ sess' = [sess EXCEPT ![s] = Message(s).from]
    /\ at' = [at EXCEPT ![s] = IF s = "host" THEN "checking" ELSE "listening"]
    /\ Take(s)
    /\ UNCHANGED <<relayOnly, replaced, sock, gen, iceVars, alive, seat, news, faults>>

\* channel.recv: only a frame of this very session opens.
Opens(s) ==
    /\ Message(s).kind = "ice"
    /\ Message(s).from = sess[s]
    /\ Message(s).to = sock[s]

\* What a reader does not expect ends its connection; so does a socket whose
\* messages stop, when nothing waits in it or what did was lost.
Unexpected(s) ==
    \/ at[s] = "waiting" /\ Message(s) # Up
    \/ at[s] = "greeting" /\ Message(s).kind \in {"down", "ice"}
    \/ at[s] \in {"asking", "listening"} /\ Message(s) # Up /\ ~Opens(s)
    \/ at[s] = "asking" /\ Opens(s) /\ Message(s).gen # gen[s]
ReadFails(s) ==
    /\ at[s] \in Reading \cup {"waiting"}
    /\ \/ HasMessage(s) /\ Unexpected(s)
       \/ sock[s] \notin alive
    /\ GiveUp(s)
    /\ UNCHANGED faults
-----------------------------------------------------------------------------
(* runICENegotiation.                                                      *)

Idle(g) ==
    /\ \A s \in Side : g \notin {gen[s], active[s], path[s]}
    /\ \A s \in Side : <<s, g>> \notin agents
    /\ \A c \in Socket : \A i \in DOMAIN inbox[c] :
         inbox[c][i].kind = "ice" => inbox[c][i].gen # g

\* The host looks for a direct path before it reads anything.
StartAttempt(g) ==
    /\ at["host"] = "checking"
    /\ path["host"] = Nil
    /\ Idle(g) /\ g = CHOOSE h \in Generation : Idle(h)
    /\ IF "host" \in relayOnly
         THEN /\ at' = [at EXCEPT !["host"] = "quiet"]
              /\ Send(sock["host"], Ice(sock["host"], sess["host"], g, TRUE))
              /\ UNCHANGED <<gen, agents, linked>>
         ELSE /\ at' = [at EXCEPT !["host"] = "gathering"]
              /\ gen' = [gen EXCEPT !["host"] = g]
              /\ NewAgent("host", g)
              /\ linked' = linked \ {g}
              /\ UNCHANGED <<inbox, alive>>
    /\ UNCHANGED <<relayOnly, replaced, sock, sess, active, path, seat, news, faults>>

\* The word that there will be no offer cannot be sent.
RefusalFails ==
    /\ at["host"] = "checking"
    /\ path["host"] = Nil
    /\ "host" \in relayOnly
    /\ sock["host"] \notin alive
    /\ GiveUp("host")
    /\ UNCHANGED faults

\* Mutant: the host does not wait for the answer to its offer.
SendOffer_NoAnswer(s) ==
    /\ at[s] = "gathering"
    /\ sock[s] \in alive
    /\ at' = [at EXCEPT ![s] = "connecting"]
    /\ Send(sock[s], Ice(sock[s], sess[s], gen[s], FALSE))
    /\ UNCHANGED <<relayOnly, replaced, sock, sess, gen, iceVars, seat, news, faults>>
\* LocalOffer returns, and the offer is sent.
SendOffer(s) ==
    /\ at[s] = "gathering"
    /\ sock[s] \in alive
    /\ at' = [at EXCEPT ![s] = IF s = "host" THEN "asking" ELSE "connecting"]
    /\ Send(sock[s], Ice(sock[s], sess[s], gen[s], FALSE))
    /\ UNCHANGED <<relayOnly, replaced, sock, sess, gen, iceVars, seat, news, faults>>

\* Candidates cannot be gathered, or the offer cannot be written.
OfferFails(s) ==
    /\ at[s] = "gathering"
    /\ IF sock[s] \in alive THEN Fault ELSE UNCHANGED faults
    /\ GiveUp(s)

\* The host reads the answer to its offer.
ReadAnswer ==
    /\ at["host"] = "asking"
    /\ HasMessage("host")
    /\ Opens("host")
    /\ Message("host").gen = gen["host"]
    /\ Take("host")
    /\ IF Message("host").disabled
         THEN /\ at' = [at EXCEPT !["host"] = "resting"]
              /\ CloseAgents("host", {gen["host"]})
              /\ gen' = [gen EXCEPT !["host"] = Nil]
         ELSE /\ at' = [at EXCEPT !["host"] = "connecting"]
              /\ UNCHANGED <<agents, gen>>
    /\ UNCHANGED <<relayOnly, replaced, sock, sess, active, path, linked, alive, seat, news,
                   faults>>

\* The guest reads an offer.
ReadOffer ==
    LET m == Message("guest")
        rest == [inbox EXCEPT ![sock["guest"]] = Tail(@)]
    IN  /\ at["guest"] = "listening"
        /\ HasMessage("guest")
        /\ Opens("guest")
        /\ IF m.disabled
             THEN inbox' = rest /\ UNCHANGED <<at, gen, agents, alive>>
             ELSE IF "guest" \in relayOnly
             THEN /\ IF /\ sock["guest"] \in alive /\ seat["guest"] = sock["guest"]
                        /\ seat["host"] # Nil
                       THEN /\ inbox' = Delivered(rest, seat["host"],
                                                  Ice(sock["guest"], sess["guest"], m.gen, TRUE))
                            /\ alive' = alive \ Overflown(seat["host"])
                       ELSE inbox' = rest /\ UNCHANGED alive
                  /\ UNCHANGED <<at, gen, agents>>
             ELSE /\ inbox' = rest
                  /\ at' = [at EXCEPT !["guest"] = "gathering"]
                  /\ gen' = [gen EXCEPT !["guest"] = m.gen]
                  /\ NewAgent("guest", m.gen)
                  /\ UNCHANGED alive
        /\ UNCHANGED <<relayOnly, replaced, sock, sess, active, path, linked, seat, news, faults>>

\* The agents of both sides check connectivity at the same time and nominate.
Nominate(g) ==
    /\ g \notin linked
    /\ \A s \in Side : at[s] = "connecting" /\ gen[s] = g
    /\ linked' = linked \cup {g}
    /\ UNCHANGED <<relayOnly, replaced, clientVars, agents, active, path, netVars, faults>>

\* Connect returns: SetDirect, then activeICE.replace.
Connected(s) ==
    /\ at[s] = "connecting"
    /\ gen[s] \in linked
    /\ <<Peer(s), gen[s]>> \in agents
    /\ path' = [path EXCEPT ![s] = gen[s]]
    /\ active' = [active EXCEPT ![s] = gen[s]]
    /\ CloseAgents(s, {active[s]})
    /\ gen' = [gen EXCEPT ![s] = Nil]
    /\ at' = [at EXCEPT ![s] = IF s = "host" THEN "resting" ELSE "listening"]
    /\ UNCHANGED <<relayOnly, replaced, sock, sess, linked, netVars, faults>>

\* The answer can still come in time, or the checks still succeed.
OnItsWay(s) ==
    LET o == Peer(s) g == gen[s]
        Carries(c) == \E i \in DOMAIN inbox[c] : inbox[c][i].kind = "ice" /\ inbox[c][i].gen = g
    IN  IF at[s] = "asking"
          THEN \/ Carries(sock[s])
               \/ at[o] = "gathering" /\ gen[o] = g
               \/ sock[o] # Nil /\ Carries(sock[o])
          ELSE /\ <<o, g>> \in agents
               /\ \/ g \in linked
                  \/ at[o] = "connecting"
                  \/ at[o] = "asking" /\ Carries(sock[o])

\* The 45 seconds of the attempt are over, or the checks fail.
AttemptFails(s) ==
    /\ at[s] \in {"asking", "connecting"}
    /\ IF OnItsWay(s) THEN Fault ELSE UNCHANGED faults
    /\ GiveUp(s)

\* The host's pause of ten seconds, in which it reads nothing either.
Rest ==
    /\ at["host"] = "resting"
    /\ at' = [at EXCEPT !["host"] = "checking"]
    /\ UNCHANGED <<relayOnly, replaced, sock, sess, gen, iceVars, netVars, faults>>

\* Consent expires: monitoredICEConn closes the connection and with it the
\* agent, and the Bind retires the path.
PathLost(s) ==
    /\ path[s] # Nil
    /\ IF {<<s, path[s]>>, <<Peer(s), path[s]>>} \subseteq agents THEN Fault ELSE UNCHANGED faults
    /\ path' = [path EXCEPT ![s] = Nil]
    /\ CloseAgents(s, {path[s]})
    /\ UNCHANGED <<relayOnly, replaced, clientVars, active, linked, netVars>>

\* The runner's context ends: every defer of Run.
Stop(s) ==
    /\ Fault
    /\ at[s] # "gone"
    /\ at' = [at EXCEPT ![s] = "gone"]
    /\ sock' = [sock EXCEPT ![s] = Nil]
    /\ sess' = [sess EXCEPT ![s] = Nil]
    /\ gen' = [gen EXCEPT ![s] = Nil]
    /\ CloseAgents(s, {gen[s], active[s]})
    /\ active' = [active EXCEPT ![s] = Nil]
    /\ path' = [path EXCEPT ![s] = Nil]
    /\ alive' = alive \ {sock[s]}
    /\ inbox' = [c \in Socket |-> IF c = sock[s] THEN <<>> ELSE inbox[c]]
    /\ UNCHANGED <<relayOnly, replaced, linked, seat, news>>

Start(s) ==
    /\ at[s] = "gone"
    /\ at' = [at EXCEPT ![s] = "dialing"]
    /\ UNCHANGED <<relayOnly, replaced, sock, sess, gen, iceVars, netVars, faults>>
-----------------------------------------------------------------------------
SignalingInit ==
    /\ relayOnly \in RelayOnlyRuns
    /\ at = [s \in Side |-> "dialing"]
    /\ sock = [s \in Side |-> Nil]
    /\ sess = [s \in Side |-> Nil]
    /\ gen = [s \in Side |-> Nil]
    /\ agents = {}
    /\ active = [s \in Side |-> Nil]
    /\ path = [s \in Side |-> Nil]
    /\ linked = {}
    /\ alive = {}
    /\ seat = [s \in Side |-> Nil]
    /\ inbox = [c \in Socket |-> <<>>]
    /\ news = [c \in Socket |-> <<>>]
    /\ faults = 0
    /\ replaced = FALSE

Connecting(s) ==
    \/ \E c \in SocketOf(s) : Dial(s, c)
    \/ DialRefused(s) \/ Redial(s)
    \/ WaitPeer(s) \/ SkipUp(s) \/ Greeted(s) \/ ReadFails(s)
Negotiating(s) == SendOffer(s) \/ OfferFails(s) \/ Connected(s) \/ AttemptFails(s)
Hosting == \/ \E g \in Generation : StartAttempt(g)
           \/ RefusalFails \/ ReadAnswer \/ Rest
Serving(c) == Announce(c) \/ Vacate(c)

SignalingNext ==
    \/ \E s \in Side : Connecting(s) \/ Negotiating(s) \/ PathLost(s) \/ Stop(s) \/ Start(s)
    \/ Hosting \/ ReadOffer
    \/ \E g \in Generation : Nominate(g)
    \/ \E c \in Socket : Serving(c) \/ SocketBreaks(c)

SignalingSpec == SignalingInit /\ [][SignalingNext]_signalingVars
-----------------------------------------------------------------------------
SignalingTypeOK ==
    /\ relayOnly \in RelayOnlyRuns
    /\ at \in [Side -> {"dialing", "waiting", "greeting", "checking", "gathering", "asking",
                        "connecting", "resting", "listening", "quiet", "pausing", "gone"}]
    /\ sock \in [Side -> Socket \cup {Nil}]
    /\ sess \in [Side -> Socket \cup {Nil}]
    /\ gen \in [Side -> Generation \cup {Nil}]
    /\ agents \subseteq Side \X Generation
    /\ active \in [Side -> Generation \cup {Nil}]
    /\ path \in [Side -> Generation \cup {Nil}]
    /\ linked \subseteq Generation
    /\ alive \subseteq Socket
    /\ seat \in [Side -> Socket \cup {Nil}]
    /\ inbox \in [Socket -> Seq(Packet)]
    /\ \A c \in Socket : Len(inbox[c]) <= Backlog
    /\ news \in [Socket -> Seq(Socket)]
    /\ faults \in 0..MaxFaults
    /\ replaced \in BOOLEAN

\* No agent leaks: whatever fails, an agent that runs belongs to the attempt
\* under way or to the last that succeeded, and the direct path is the latter's.
AgentsAccounted ==
    /\ \A s \in Side, g \in Generation : <<s, g>> \in agents => g \in {gen[s], active[s]}
    /\ \A s \in Side : path[s] # Nil => path[s] = active[s] /\ <<s, path[s]>> \in agents

\* Two runners in one session that both check connectivity do so for the same
\* generation: no answer is ever taken for that to another offer.
SameAttempt ==
    (\A s \in Side : at[s] = "connecting" /\ sess[s] = sock[Peer(s)]) => gen["host"] = gen["guest"]

\* A path whose other end is alive joins the two runners: the peer uses it too
\* or is about to.
PathsJoin ==
    \A s \in Side :
        (path[s] # Nil /\ <<Peer(s), path[s]>> \in agents)
            => \/ path[Peer(s)] = path[s]
               \/ gen[Peer(s)] = path[s] /\ at[Peer(s)] = "connecting"

\* With a side that allows the relay only nobody ever uses a direct path.
RelayOnlyKept ==
    relayOnly # {} => agents \subseteq {"host"} \X Generation /\ \A s \in Side : path[s] = Nil

\* What either runner uses at any time: no agent leaks, no path joins two
\* attempts, no path at all beside a runner that asked for the relay.
PathsSound == AgentsAccounted /\ SameAttempt /\ PathsJoin /\ RelayOnlyKept

\* "Reconnecting control must not close a working tunnel": unless a runner or
\* the network fails, a path both ends of which are open is not given up.
WorkingPathKept ==
    [][\A s \in Side :
          (path[s] # Nil /\ <<Peer(s), path[s]>> \in agents /\ faults' = faults)
              => path'[s] = path[s]]_signalingVars

\* Once nothing fails any more, both runners come to use the same direct path,
\* whatever state signaling was left in; but a runner whose peer's socket was
\* replaced without a word can wait for the peer's hello for ever, as the peer
\* does for an offer.
Joined == path["host"] # Nil /\ path["host"] = path["guest"]
Converges == relayOnly = {} /\ []~replaced => <>[]Joined
=============================================================================
