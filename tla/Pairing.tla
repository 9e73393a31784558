------------------------------- MODULE Pairing -------------------------------
(***************************************************************************)
(* Two users pair their devices: Client.Pair and negotiateAddresses of     *)
(* internal/client/pair.go, with the exchange of internal/secure/pair.go   *)
(* inside.  The host opens a room for a code and shows the code, the guest *)
(* types it; over the sockets of the room they run the key exchange, greet *)
(* in a secure session, swap identities, agree on virtual addresses and    *)
(* submit the pair ID until the service calls it committed.                *)
(*                                                                         *)
(* A root secret is known by the two calls of Pair it was made in: it is   *)
(* the same for both sides only if their frames answered each other and    *)
(* their codes were the same.  The service is the abstract one of          *)
(* Rendezvous and PeerSockets.  A fault is a lost connection or answer, a  *)
(* room that expires, or a call that runs out of time although its         *)
(* counterpart is there; there are MaxMishaps of them.                     *)
(***************************************************************************)
EXTENDS Integers, Sequences, FiniteSets

CONSTANTS
    Room,               \* rooms
    TakenRooms,         \* bound: rooms of other users
    Secret,             \* the secret halves of codes
    MaxCalls,           \* bound: calls of Pair of either side
    RoomTries,          \* rooms a host tries
    AddressTries,       \* proposals either side sits through
    Width,              \* bits of an address
    MinBits,            \* the shortest prefix that is taken
    Private,            \* the private and shared addresses
    Networks,           \* bound: prefixes given with --network
    MaxMishaps,
    Unset

VARIABLES
    calls,      \* calls of Pair begun by either side
    stage,      \* where the call of either side is
    code,       \* its code
    shown,      \* codes a host has shown
    tries,      \* rooms, then proposals tried
    root,       \* its secret: the two calls it was made in
    network,    \* the host's PairOptions.Network
    offer,      \* addresses under negotiation
    wire,       \* messages on their way to either side
    open,       \* rooms of these users in the service
    slot,       \* sides connected to a room
    commit,     \* hostCommit and guestCommit of the rooms
    pairs,      \* pairs of the service
    ready,      \* ghost: what a side was ready to store when it submitted
    mishaps

callVars == <<calls, stage, code, shown, tries, root, network, offer, ready>>
serviceVars == <<wire, open, slot, commit, pairs>>
pairingVars == <<callVars, serviceVars, mishaps>>

Party == {"host", "guest"}
Counterpart(s) == IF s = "host" THEN "guest" ELSE "host"
Code == [room : Room, secret : Secret]
Root == [host : 1..MaxCalls, guest : 1..MaxCalls]

\* The addresses that k bits tell apart.
Block[k \in 0..Width] == IF k = 0 THEN 1 ELSE 2 * Block[k - 1]
Address == 0..(Block[Width] - 1)

ASSUME PairingAssumption ==
    /\ TakenRooms \subseteq Room /\ Private \subseteq Address
    /\ MaxCalls \in Nat /\ RoomTries \in Nat /\ AddressTries \in Nat \ {0} /\ MaxMishaps \in Nat
    /\ Width \in Nat /\ MinBits \in 0..Width
    /\ Networks \subseteq [addr : Address, bits : 0..Width]
    /\ Unset \notin Code \cup Root
-----------------------------------------------------------------------------
(* Addresses.                                                              *)

Size(n) == Block[Width - n.bits]
Masked(n) == n.addr - (n.addr % Size(n))
PrefixLast(n) == Masked(n) + Size(n) - 1

\* The check of --network, made of the address as it was given.
Admitted(n) == n.bits <= Width - 2 /\ n.bits >= MinBits /\ {n.addr, PrefixLast(n)} \subseteq Private

\* The second and third address of a random block of four.
RandomPairs(n) ==
    {[host |-> Masked(n) + x - (x % 4) + 1, guest |-> Masked(n) + x - (x % 4) + 2] :
        x \in 0..(Size(n) - 1)}

\* What a guest accepts to hear of.
Sound(a) == a.host # a.guest /\ {a.host, a.guest} \subseteq Private
-----------------------------------------------------------------------------
(* The order of messages.                                                  *)

\* What either side waits for, and what comes after it.
After == [host |-> [up |-> "ke1", ke1 |-> "ke3", ke3 |-> "guestMAC", guestMAC |-> "hello",
                    hello |-> "identity", identity |-> "offering"],
          guest |-> [up |-> "ke2", ke2 |-> "hostMAC", hostMAC |-> "hello",
                     hello |-> "identity", identity |-> "listening"]]

\* What it sends as soon as it has it.
Reply == [host |-> [up |-> <<>>, ke1 |-> <<"ke2">>, ke3 |-> <<>>,
                    guestMAC |-> <<"hostMAC", "hello">>,
                    hello |-> <<"identity">>, identity |-> <<>>],
          guest |-> [up |-> <<"ke1">>, ke2 |-> <<"ke3", "guestMAC">>, hostMAC |-> <<"hello">>,
                     hello |-> <<"identity">>, identity |-> <<>>]]

Body(s, r) == [call |-> calls[s], secret |-> code[s].secret, root |-> r]
Plain(k) == [kind |-> k]
Framed(k, b) == [kind |-> k, body |-> b]
\* What a side says of addresses inside the session, sealed under its secret.
Spoken(s, k, v) == [kind |-> k, body |-> Body(s, root[s]), says |-> v]

Addressing == {"offering", "proposed", "listening"}
Ended == {"idle", "done", "failed"}
Waiting(s) == stage[s] \in DOMAIN After[s]
InRoom(s) == code[s] # Unset /\ s \in slot[code[s].room]
InTouch(s) == InRoom(s) /\ slot[code[s].room] = Party
HasFrame(s) == wire[s] # <<>>
Received(s) == Head(wire[s])

\* Frames go to the other side of the room if both are there.
Sent(s, w, frames) == IF InTouch(s) THEN [w EXCEPT ![Counterpart(s)] = @ \o frames] ELSE w

Mishap == mishaps < MaxMishaps /\ mishaps' = mishaps + 1

\* The socket of a side leaves its room, and the other is told.
Left(s) == IF InRoom(s) THEN [slot EXCEPT ![code[s].room] = @ \ {s}] ELSE slot
Told(s) == [Sent(s, wire, <<Plain("down")>>) EXCEPT ![s] = <<>>]

Fail(s) ==
    /\ stage' = [stage EXCEPT ![s] = "failed"]
    /\ wire' = Told(s)
    /\ slot' = Left(s)
    /\ UNCHANGED <<calls, code, shown, tries, root, network, offer, ready, open, commit, pairs>>
-----------------------------------------------------------------------------
(* Codes and rooms.                                                        *)

Begin(s) ==
    /\ stage[s] \in {"idle", "failed"}
    /\ calls[s] < MaxCalls
    /\ calls' = [calls EXCEPT ![s] = @ + 1]
    /\ tries' = [tries EXCEPT ![s] = 0]
    /\ root' = [root EXCEPT ![s] = Unset]
    /\ offer' = [offer EXCEPT ![s] = Unset]
    /\ wire' = [wire EXCEPT ![s] = <<>>]

\* The host generates a code.
BeginHost(c, n) ==
    /\ Begin("host")
    /\ code' = [code EXCEPT !["host"] = c]
    /\ network' = n
    /\ stage' = [stage EXCEPT !["host"] = "creating"]
    /\ UNCHANGED <<shown, ready, open, slot, commit, pairs, mishaps>>

\* The guest types the code that was shown, with one slip at most.
BeginGuest(c) ==
    /\ Begin("guest")
    /\ \E d \in shown : c.room = d.room
    /\ code' = [code EXCEPT !["guest"] = c]
    /\ stage' = [stage EXCEPT !["guest"] = "dialing"]
    /\ UNCHANGED <<shown, network, ready, open, slot, commit, pairs, mishaps>>

\* The room is the host's; a room that exists is answered by another code.
CreateRoom(c) ==
    LET room == code["host"].room
    IN  /\ stage["host"] = "creating"
        /\ IF room \in open \cup TakenRooms
             THEN /\ tries' = [tries EXCEPT !["host"] = @ + 1]
                  /\ IF tries["host"] + 1 < RoomTries
                       THEN code' = [code EXCEPT !["host"] = c] /\ UNCHANGED stage
                       ELSE stage' = [stage EXCEPT !["host"] = "failed"] /\ UNCHANGED code
                  /\ UNCHANGED <<open, slot, commit, shown>>
             ELSE /\ c = code["host"]
                  /\ open' = open \cup {room}
                  /\ commit' = [commit EXCEPT ![room] = [s \in Party |-> Unset]]
                  /\ shown' = shown \cup {code["host"]}
                  /\ stage' = [stage EXCEPT !["host"] = "dialing"]
                  /\ tries' = [tries EXCEPT !["host"] = 0]
                  /\ UNCHANGED <<code, slot>>
        /\ UNCHANGED <<calls, root, network, offer, ready, wire, pairs, mishaps>>

\* A room that exists is the end if the user gave the code.
RoomRefused ==
    /\ stage["host"] = "creating"
    /\ code["host"].room \in open \cup TakenRooms
    /\ Fail("host")
    /\ UNCHANGED mishaps

\* The socket to the room; with the second of the two both are told.
Enter(s) ==
    LET room == code[s].room
    IN  /\ stage[s] = "dialing"
        /\ room \in open
        /\ s \notin slot[room]
        /\ slot' = [slot EXCEPT ![room] = @ \cup {s}]
        /\ stage' = [stage EXCEPT ![s] = "up"]
        /\ wire' = IF Counterpart(s) \in slot[room]
                     THEN [p \in Party |-> Append(wire[p], Plain("up"))] ELSE wire
        /\ UNCHANGED <<calls, code, shown, tries, root, network, offer, ready, open, commit,
                       pairs, mishaps>>

EnterFails(s) ==
    /\ stage[s] = "dialing"
    /\ IF code[s].room \in open /\ s \notin slot[code[s].room] THEN Mishap ELSE UNCHANGED mishaps
    /\ Fail(s)
-----------------------------------------------------------------------------
(* The key exchange and what follows in the secure session.                *)

\* KE2 opens under the secret of the code only, KE3 and the MACs of both sides
\* fit one transcript only, and so does what the session seals.
Genuine(s, m) ==
    CASE m.kind \in {"up", "ke1"} -> TRUE
      [] m.kind = "ke2" -> m.body.secret = code[s].secret /\ m.body.root.guest = calls[s]
      [] OTHER -> m.body.root = root[s] /\ m.body.secret = code[s].secret

\* The secret is settled for the host when it has answered KE1, for the guest
\* when it has opened KE2.
RootAfter(s, m) ==
    CASE m.kind = "ke1" -> [host |-> calls["host"], guest |-> m.body.call]
      [] m.kind = "ke2" -> m.body.root
      [] OTHER -> root[s]

\* The next frame is of the kind and opens under what the side knows.
Heard(s, k) == HasFrame(s) /\ Received(s).kind = k /\ Genuine(s, Received(s))
Expected(s) == Waiting(s) /\ Heard(s, stage[s])

Exchange(s) ==
    /\ Expected(s)
    /\ LET m == Received(s)
           r == RootAfter(s, m)
           sent == Reply[s][m.kind]
       IN  /\ root' = [root EXCEPT ![s] = r]
           /\ stage' = [stage EXCEPT ![s] = After[s][@]]
           /\ wire' = Sent(s, [wire EXCEPT ![s] = Tail(@)],
                           [i \in DOMAIN sent |-> Framed(sent[i], Body(s, r))])
    /\ UNCHANGED <<calls, code, shown, tries, network, offer, ready, open, slot, commit,
                   pairs, mishaps>>

\* Anything else that arrives ends the call: another frame, one that does not
\* open, the loss of the peer.
Disturbed(s) ==
    /\ HasFrame(s)
    /\ \/ Waiting(s) /\ ~Expected(s)
       \/ stage[s] = "proposed" /\ ~Heard(s, "reply")
       \/ stage[s] = "listening" /\ ~Heard(s, "proposal")
    /\ Fail(s)
    /\ UNCHANGED mishaps

SocketLost(s) ==
    /\ Mishap
    /\ Waiting(s) \/ stage[s] \in Addressing
    /\ Fail(s)
-----------------------------------------------------------------------------
(* negotiateAddresses.                                                     *)

\* The host's --network is refused.
NetworkRefused ==
    /\ stage["host"] = "offering"
    /\ ~Admitted(network)
    /\ Fail("host")
    /\ UNCHANGED mishaps

\* The host draws two addresses; if they are in use here it draws again.
Propose(a, free) ==
    /\ stage["host"] = "offering"
    /\ Admitted(network)
    /\ tries["host"] < AddressTries
    /\ IF free
         THEN /\ offer' = [offer EXCEPT !["host"] = a]
              /\ stage' = [stage EXCEPT !["host"] = "proposed"]
              /\ wire' = Sent("host", wire, <<Spoken("host", "proposal", a)>>)
              /\ UNCHANGED tries
         ELSE /\ tries' = [tries EXCEPT !["host"] = @ + 1]
              /\ UNCHANGED <<offer, stage, wire>>
    /\ UNCHANGED <<calls, code, shown, root, network, ready, open, slot, commit, pairs, mishaps>>

Prepared(s, a) ==
    ready' = ready \cup {[party |-> s, root |-> root[s], code |-> code[s], addresses |-> a]}

\* The guest's turn.
Consider(free) ==
    LET a == Received("guest").says
    IN  /\ stage["guest"] = "listening"
        /\ tries["guest"] < AddressTries
        /\ Heard("guest", "proposal")
        /\ Sound(a)
        /\ wire' = Sent("guest", [wire EXCEPT !["guest"] = Tail(@)],
                        <<Spoken("guest", "reply", free)>>)
        /\ IF free
             THEN /\ offer' = [offer EXCEPT !["guest"] = a]
                  /\ stage' = [stage EXCEPT !["guest"] = "committing"]
                  /\ Prepared("guest", a)
                  /\ UNCHANGED tries
             ELSE /\ tries' = [tries EXCEPT !["guest"] = @ + 1]
                  /\ UNCHANGED <<offer, stage, ready>>
        /\ UNCHANGED <<calls, code, shown, root, network, open, slot, commit, pairs, mishaps>>

HearReply ==
    /\ stage["host"] = "proposed"
    /\ Heard("host", "reply")
    /\ wire' = [wire EXCEPT !["host"] = Tail(@)]
    /\ IF Received("host").says
         THEN /\ stage' = [stage EXCEPT !["host"] = "committing"]
              /\ Prepared("host", offer["host"])
              /\ UNCHANGED <<tries, offer>>
         ELSE /\ stage' = [stage EXCEPT !["host"] = "offering"]
              /\ tries' = [tries EXCEPT !["host"] = @ + 1]
              /\ offer' = [offer EXCEPT !["host"] = Unset]
              /\ UNCHANGED ready
    /\ UNCHANGED <<calls, code, shown, root, network, open, slot, commit, pairs, mishaps>>

\* A proposal no guest hears of, or no further one on either side.
NegotiationFails(s) ==
    /\ \/ s = "guest" /\ stage[s] = "listening" /\ Heard(s, "proposal")
          /\ ~Sound(Received(s).says)
       \/ stage[s] \in {"offering", "listening"} /\ tries[s] >= AddressTries
    /\ Fail(s)
    /\ UNCHANGED mishaps
-----------------------------------------------------------------------------
(* Submission of the pair ID.                                              *)

Commits(s) == [commit[code[s].room] EXCEPT ![s] = root[s]]
Conflict(s) ==
    LET held == commit[code[s].room]
    IN  \/ held[s] \notin {Unset, root[s]}
        \/ held["host"] = held["guest"] /\ held["host"] \notin {Unset, root[s]}
InService(s) == code[s].room \in open

\* What the service does with a submission.
Submitted(s) ==
    IF InService(s) /\ ~Conflict(s)
      THEN /\ commit' = [commit EXCEPT ![code[s].room] = Commits(s)]
           /\ pairs' = pairs \cup {r \in {root[s]} : \A p \in Party : Commits(s)[p] = r}
      ELSE UNCHANGED <<commit, pairs>>
Committed(s) ==
    IF InService(s) THEN ~Conflict(s) /\ \A p \in Party : Commits(s)[p] = root[s]
                    ELSE root[s] \in pairs
Refused(s) == IF InService(s) THEN Conflict(s) ELSE root[s] \notin pairs

\* Mutant: the pairing is complete as soon as the submission is taken.
Submit_Once(s) ==
    /\ stage[s] = "committing"
    /\ Submitted(s)
    /\ stage' = [stage EXCEPT ![s] = IF Refused(s) THEN "failed" ELSE "done"]
    /\ wire' = Told(s)
    /\ slot' = Left(s)
    /\ UNCHANGED <<calls, code, shown, tries, root, network, offer, ready, open, mishaps>>
\* One round of the loop.
Submit(s) ==
    /\ stage[s] = "committing"
    /\ Submitted(s)
    /\ IF Committed(s) \/ Refused(s)
         THEN /\ stage' = [stage EXCEPT ![s] = IF Committed(s) THEN "done" ELSE "failed"]
              /\ wire' = Told(s)
              /\ slot' = Left(s)
         ELSE UNCHANGED <<stage, wire, slot>>
    /\ UNCHANGED <<calls, code, shown, tries, root, network, offer, ready, open, mishaps>>

\* The answer is lost, and with it the call.
AnswerLost(s) ==
    /\ Mishap
    /\ stage[s] = "committing"
    /\ Submitted(s)
    /\ stage' = [stage EXCEPT ![s] = "failed"]
    /\ wire' = Told(s)
    /\ slot' = Left(s)
    /\ UNCHANGED <<calls, code, shown, tries, root, network, offer, ready, open>>

\* The counterpart has gone, or was never there.
Abandoned(s) ==
    /\ stage[s] \notin Ended
    /\ \/ Waiting(s) /\ ~HasFrame(s) /\ ~InTouch(s)
       \/ stage[s] = "committing" /\ root[Counterpart(s)] # root[s]
       \/ stage[s] = "committing" /\ stage[Counterpart(s)] = "failed"

\* The ten minutes of the call, or the ninety seconds of the key exchange.
TimesOut(s) ==
    /\ stage[s] \notin Ended
    /\ IF Abandoned(s) THEN UNCHANGED mishaps ELSE Mishap
    /\ Fail(s)

\* Its lifetime over, the room goes with its sockets.
RoomExpires(room) ==
    /\ Mishap
    /\ room \in open
    /\ open' = open \ {room}
    /\ slot' = [slot EXCEPT ![room] = {}]
    /\ commit' = [commit EXCEPT ![room] = [s \in Party |-> Unset]]
    /\ wire' = [s \in Party |->
                  IF s \in slot[room] THEN Append(wire[s], Plain("down")) ELSE wire[s]]
    /\ UNCHANGED <<callVars, pairs>>
-----------------------------------------------------------------------------
PairingInit ==
    /\ calls = [s \in Party |-> 0]
    /\ stage = [s \in Party |-> "idle"]
    /\ code = [s \in Party |-> Unset]
    /\ shown = {}
    /\ tries = [s \in Party |-> 0]
    /\ root = [s \in Party |-> Unset]
    /\ network \in Networks
    /\ offer = [s \in Party |-> Unset]
    /\ wire = [s \in Party |-> <<>>]
    /\ open = {}
    /\ slot = [room \in Room |-> {}]
    /\ commit = [room \in Room |-> [s \in Party |-> Unset]]
    /\ pairs = {}
    /\ ready = {}
    /\ mishaps = 0

Working(s) ==
    \/ Enter(s) \/ EnterFails(s) \/ Exchange(s) \/ Disturbed(s) \/ NegotiationFails(s) \/ Submit(s)
    \/ Abandoned(s) /\ TimesOut(s)
HostWorks ==
    \/ \E c \in Code : CreateRoom(c)
    \/ RoomRefused \/ NetworkRefused \/ HearReply
    \/ \E a \in RandomPairs(network), free \in BOOLEAN : Propose(a, free)
GuestWorks == \E free \in BOOLEAN : Consider(free)

PairingNext ==
    \/ \E s \in Party : Working(s) \/ TimesOut(s) \/ SocketLost(s) \/ AnswerLost(s)
    \/ HostWorks \/ GuestWorks
    \/ \E c \in Code : BeginGuest(c) \/ \E n \in Networks : BeginHost(c, n)
    \/ \E room \in Room : RoomExpires(room)

PairingSpec == PairingInit /\ [][PairingNext]_pairingVars
-----------------------------------------------------------------------------
PairingTypeOK ==
    /\ calls \in [Party -> 0..MaxCalls]
    /\ \A s \in Party :
         stage[s] \in DOMAIN After[s] \cup Addressing
                        \cup {"idle", "creating", "dialing", "committing", "done", "failed"}
    /\ code \in [Party -> Code \cup {Unset}]
    /\ shown \subseteq Code
    /\ tries \in [Party -> Nat]
    /\ \A s \in Party : stage[s] # "failed" =>
         tries[s] <= IF stage[s] = "creating" THEN RoomTries ELSE AddressTries
    /\ root \in [Party -> Root \cup {Unset}]
    /\ network \in Networks
    /\ open \subseteq Room
    /\ slot \in [Room -> SUBSET Party]
    /\ commit \in [Room -> [Party -> Root \cup {Unset}]]
    /\ pairs \subseteq Root
    /\ mishaps \in 0..MaxMishaps

\* "Both parties must durably commit the same authenticated pair ID before either
\* considers pairing complete": when a call succeeds its pair is in the service,
\* and the counterpart was ready to store the same root and addresses.
CompleteForBoth ==
    \A s \in Party : stage[s] = "done" =>
        /\ root[s] \in pairs
        /\ [party |-> Counterpart(s), root |-> root[s], code |-> code[s],
            addresses |-> offer[s]] \in ready

\* Two sides never come out of one exchange with different ideas of it, and
\* never out of different codes.
OneExchangeOneResult ==
    \A x, y \in ready : x.root = y.root => x.code = y.code /\ x.addresses = y.addresses

\* If nothing is lost and nobody runs out of time, both calls end alike; a
\* lost answer is the one thing that pairs a device with a peer that gave up.
EndAlike ==
    (mishaps = 0 /\ \A s \in Party : stage[s] \in {"done", "failed"})
        => stage["host"] = stage["guest"]

\* The addresses agreed on are private, two different ones, and neither the
\* first nor the last of the host's prefix.
AgreedAddresses ==
    stage["host"] \in {"committing", "done"} =>
        /\ offer["host"].host # offer["host"].guest
        /\ \A s \in Party : /\ offer["host"][s] \in Private
                            /\ offer["host"][s] > Masked(network)
                            /\ offer["host"][s] < PrefixLast(network)

\* What two users who pair can rely on, whatever is lost on the way.
PairingAgrees == CompleteForBoth /\ OneExchangeOneResult /\ EndAlike /\ AgreedAddresses

\* Nobody waits for a counterpart that waits for him: every call ends.
CallsEnd == <>[](\A s \in Party : stage[s] \in Ended)
=============================================================================
