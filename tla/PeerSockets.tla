----------------------------- MODULE PeerSockets -----------------------------
(***************************************************************************)
(* The WebSockets of one room or one pair on the rendezvous service: the   *)
(* socket handlers, forwarding, detaching and stopping of                  *)
(* internal/control/control.go over the wsPeer of websocket.go.            *)
(*                                                                         *)
(* A connection is one HTTP request that becomes one wsPeer.  Its life is  *)
(*   new -> accepting -> placed -> serving -> leaving -> gone              *)
(* "accepting": checked under mu, upgrading without it.  "placed": in its  *)
(* slot, the handler announcing readiness without mu.  "serving": reader,  *)
(* writer and supervisor run.  "leaving": detached, the supervisor telling *)
(* the other side without mu.  Whatever a goroutine of a connection does   *)
(* after it let mu go is in todo, one enqueue after the other.             *)
(*                                                                         *)
(* Removable tells a room (expires, may be created again under its code)   *)
(* from a pair (stays).  Connections are never reused.                     *)
(***************************************************************************)
EXTENDS Integers, Sequences, FiniteSets

CONSTANTS
    HostConn, GuestConn,    \* connection attempts of the two devices
    Removable,              \* TRUE for a room, FALSE for a pair
    QueueSize,              \* messageQueueSize
    MaxSends,               \* bound: messages a client sends per connection
    Revocable,              \* bound: roles whose device may be revoked
    MayClose,               \* bound: whether the service may be closed
    None

VARIABLES
    present,    \* the room or pair is in its table
    slot,       \* hostConn and guestConn
    pc,         \* where each connection is in its life
    dead,       \* connections whose done channel is closed
    todo,       \* enqueues a connection's goroutine still has to do
    stream,     \* everything ever put in a connection's send queue
    sent,       \* how much of it the write loop has sent
    sends,      \* messages the client has sent on a connection
    barred,     \* roles whose device is revoked
    tostop,     \* connections a caller is about to stop, without mu
    closing     \* Server.Close: "no", "waiting" in peerWG.Wait, "done"

vars == <<present, slot, pc, dead, todo, stream, sent, sends, barred, tostop, closing>>

Conn == HostConn \cup GuestConn
Role == {"host", "guest"}
RoleOf(c) == IF c \in HostConn THEN "host" ELSE "guest"
OtherRole(r) == IF r = "host" THEN "guest" ELSE "host"

\* peerEvent(true), peerEvent(false) and a forwarded frame.  "of" is the
\* connection it is about or from; clients do not see it.
Message == [kind : {"up", "down", "data"}, of : Conn]
Enqueue == [to : Conn, msg : Message]

ASSUME ConnAssumption ==
    /\ HostConn \cap GuestConn = {}
    /\ None \notin HostConn \cup GuestConn
ASSUME BoundAssumption ==
    /\ Removable \in BOOLEAN
    /\ QueueSize \in Nat \ {0}
    /\ MaxSends \in Nat
    /\ Revocable \subseteq {"host", "guest"}
    /\ MayClose \in BOOLEAN
-----------------------------------------------------------------------------
Closed == closing # "no"

\* A slot whose socket is nil or stopped does not count as connected.
Connected(r) == slot[r] # None /\ slot[r] \notin dead
BothConnected == Connected("host") /\ Connected("guest")

\* Mutant: the check forgets the revocation.
Admissible_Revoked(c) ==
    /\ present
    /\ ~Closed
    /\ ~Connected(RoleOf(c))
\* validateRoomSlot, and the same checks of handlePairSocket.
Admissible(c) ==
    /\ present
    /\ ~Closed
    /\ RoleOf(c) \notin barred
    /\ ~Connected(RoleOf(c))

Event(kind, c) == [kind |-> kind, of |-> c]
Put(c, m) == [to |-> c, msg |-> m]
-----------------------------------------------------------------------------
(* The socket handlers.                                                    *)

\* First half, under mu: authorisation before the upgrade.
CheckSlot(c) ==
    /\ pc[c] = "new"
    /\ pc' = [pc EXCEPT ![c] = IF Admissible(c) THEN "accepting" ELSE "gone"]
    /\ UNCHANGED <<present, slot, dead, todo, stream, sent, sends, barred, tostop, closing>>

\* The upgrade itself fails, or the second check does.
AcceptFails(c) ==
    /\ pc[c] = "accepting"
    /\ pc' = [pc EXCEPT ![c] = "gone"]
    /\ dead' = dead \cup {c}
    /\ UNCHANGED <<present, slot, todo, stream, sent, sends, barred, tostop, closing>>

\* Mutant: only the connection that was waiting is told.
Announcement_OtherOnly(c) ==
    LET other == slot[OtherRole(RoleOf(c))]
    IN  IF Connected(OtherRole(RoleOf(c))) THEN <<Put(other, Event("up", c))>> ELSE <<>>

\* What the handler enqueues, itself first, once it let mu go.
Announcement(c) ==
    LET other == slot[OtherRole(RoleOf(c))]
    IN  IF Connected(OtherRole(RoleOf(c)))
          THEN <<Put(c, Event("up", other)), Put(other, Event("up", c))>>
          ELSE <<>>

\* Second half, under mu again: the recheck, the slot, peerWG.Add.
Place(c) ==
    /\ pc[c] = "accepting"
    /\ Admissible(c)
    /\ slot' = [slot EXCEPT ![RoleOf(c)] = c]
    /\ todo' = [todo EXCEPT ![c] = Announcement(c)]
    /\ pc' = [pc EXCEPT ![c] = "placed"]
    /\ UNCHANGED <<present, dead, stream, sent, sends, barred, tostop, closing>>

\* startPeer: reader and writer start only after the announcement.
Serve(c) ==
    /\ pc[c] = "placed"
    /\ todo[c] = <<>>
    /\ pc' = [pc EXCEPT ![c] = "serving"]
    /\ UNCHANGED <<present, slot, dead, todo, stream, sent, sends, barred, tostop, closing>>
-----------------------------------------------------------------------------
(* wsPeer.                                                                 *)

\* enqueue: nothing to a stopped peer, and a full queue stops the peer.
DoEnqueue(c) ==
    /\ todo[c] # <<>>
    /\ LET to == Head(todo[c]).to
           full == Len(stream[to]) - sent[to] >= QueueSize
       IN  /\ stream' = IF to \in dead \/ full THEN stream
                        ELSE [stream EXCEPT ![to] = Append(@, Head(todo[c]).msg)]
           /\ dead' = IF full THEN dead \cup {to} ELSE dead
    /\ todo' = [todo EXCEPT ![c] = Tail(@)]
    /\ UNCHANGED <<present, slot, pc, sent, sends, barred, tostop, closing>>

\* writeLoop.
WriteNext(c) ==
    /\ pc[c] = "serving"
    /\ c \notin dead
    /\ sent[c] < Len(stream[c])
    /\ sent' = [sent EXCEPT ![c] = @ + 1]
    /\ UNCHANGED <<present, slot, pc, dead, todo, stream, sends, barred, tostop, closing>>

\* readLoop reads a valid frame and forwards it: the source must still hold
\* its slot and both sides be connected.  A client sends only once the first
\* message it read was connected=true (socket.waitPeer).
Forward(c) ==
    LET other == slot[OtherRole(RoleOf(c))]
    IN  /\ pc[c] = "serving"
        /\ c \notin dead
        /\ todo[c] = <<>>
        /\ sends[c] < MaxSends
        /\ sent[c] > 0
        /\ stream[c][1].kind = "up"
        /\ sends' = [sends EXCEPT ![c] = @ + 1]
        /\ todo' = IF present /\ slot[RoleOf(c)] = c /\ BothConnected
                     THEN [todo EXCEPT ![c] = <<Put(other, Event("data", c))>>]
                     ELSE todo
        /\ UNCHANGED <<present, slot, pc, dead, stream, sent, barred, tostop, closing>>

\* The client goes away, a read, write or ping fails, the rate is exceeded, a
\* frame is invalid: stop().
Break(c) ==
    /\ pc[c] = "serving"
    /\ c \notin dead
    /\ dead' = dead \cup {c}
    /\ UNCHANGED <<present, slot, pc, todo, stream, sent, sends, barred, tostop, closing>>

\* The supervisor sees the server's context end.
ContextEnds(c) ==
    /\ pc[c] = "serving"
    /\ Closed
    /\ c \notin dead
    /\ dead' = dead \cup {c}
    /\ UNCHANGED <<present, slot, pc, todo, stream, sent, sends, barred, tostop, closing>>

\* Mutant: detaching empties the slot whoever holds it now.
Detach_AnySource(c) ==
    LET r == RoleOf(c)
        other == slot[OtherRole(r)]
    IN  /\ pc[c] = "serving"
        /\ c \in dead
        /\ todo[c] = <<>>
        /\ slot' = [slot EXCEPT ![r] = None]
        /\ todo' = IF slot[r] # None /\ other # None
                     THEN [todo EXCEPT ![c] = <<Put(other, Event("down", c))>>]
                     ELSE todo
        /\ pc' = [pc EXCEPT ![c] = "leaving"]
        /\ UNCHANGED <<present, dead, stream, sent, sends, barred, tostop, closing>>

\* Mutant: the other side is told only if both sides are still running.
Detach_BothRunning(c) ==
    LET r == RoleOf(c)
        other == slot[OtherRole(r)]
    IN  /\ pc[c] = "serving"
        /\ c \in dead
        /\ todo[c] = <<>>
        /\ IF slot[r] = c
             THEN /\ slot' = [slot EXCEPT ![r] = None]
                  /\ todo' = IF ~BothConnected THEN todo
                             ELSE [todo EXCEPT ![c] = <<Put(other, Event("down", c))>>]
             ELSE UNCHANGED <<slot, todo>>
        /\ pc' = [pc EXCEPT ![c] = "leaving"]
        /\ UNCHANGED <<present, dead, stream, sent, sends, barred, tostop, closing>>

\* Mutant: a connection that lost its slot is never released.
Detach_HolderOnly(c) ==
    LET r == RoleOf(c)
        other == slot[OtherRole(r)]
    IN  /\ pc[c] = "serving"
        /\ c \in dead
        /\ todo[c] = <<>>
        /\ slot[r] = c
        /\ slot' = [slot EXCEPT ![r] = None]
        /\ todo' = IF other = None THEN todo
                   ELSE [todo EXCEPT ![c] = <<Put(other, Event("down", c))>>]
        /\ pc' = [pc EXCEPT ![c] = "leaving"]
        /\ UNCHANGED <<present, dead, stream, sent, sends, barred, tostop, closing>>

\* The supervisor, its loops ended: detachRoom or detachPair under mu.  The
\* other side is told only if this connection still held its slot.
Detach(c) ==
    LET r == RoleOf(c)
        other == slot[OtherRole(r)]
    IN  /\ pc[c] = "serving"
        /\ c \in dead
        /\ todo[c] = <<>>
        /\ IF slot[r] = c
             THEN /\ slot' = [slot EXCEPT ![r] = None]
                  /\ todo' = IF other = None THEN todo
                             ELSE [todo EXCEPT ![c] = <<Put(other, Event("down", c))>>]
             ELSE UNCHANGED <<slot, todo>>
        /\ pc' = [pc EXCEPT ![c] = "leaving"]
        /\ UNCHANGED <<present, dead, stream, sent, sends, barred, tostop, closing>>

\* peerWG.Done.
Leave(c) ==
    /\ pc[c] = "leaving"
    /\ todo[c] = <<>>
    /\ pc' = [pc EXCEPT ![c] = "gone"]
    /\ UNCHANGED <<present, slot, dead, todo, stream, sent, sends, barred, tostop, closing>>
-----------------------------------------------------------------------------
(* Removal, revocation and Close: all collect under mu and stop without.   *)

Held == {slot[r] : r \in Role} \ {None}
Empty == [r \in Role |-> None]

\* cleanupExpired and removeExpiredRoomsLocked.
RemoveRoom ==
    /\ Removable
    /\ ~Closed
    /\ present
    /\ present' = FALSE
    /\ slot' = Empty
    /\ tostop' = tostop \cup Held
    /\ UNCHANGED <<pc, dead, todo, stream, sent, sends, barred, closing>>

\* handleCreateRoom by the same host under a code used before.
CreateRoomAgain ==
    /\ Removable
    /\ ~Closed
    /\ ~present
    /\ "host" \notin barred
    /\ present' = TRUE
    /\ UNCHANGED <<slot, pc, dead, todo, stream, sent, sends, barred, tostop, closing>>

\* RevokeDevice, its save done: the device's rooms go with all their sockets,
\* of a pair only the device's own socket is stopped.
RevokeDevice(r) ==
    /\ ~Closed
    /\ r \in Revocable \ barred
    /\ barred' = barred \cup {r}
    /\ IF Removable
         THEN /\ present' = FALSE
              /\ slot' = Empty
              /\ tostop' = tostop \cup Held
         ELSE /\ tostop' = tostop \cup ({slot[r]} \ {None})
              /\ UNCHANGED <<present, slot>>
    /\ UNCHANGED <<pc, dead, todo, stream, sent, sends, closing>>

StopCollected(c) ==
    /\ c \in tostop
    /\ tostop' = tostop \ {c}
    /\ dead' = dead \cup {c}
    /\ UNCHANGED <<present, slot, pc, todo, stream, sent, sends, barred, closing>>

\* Close up to peerWG.Wait; a pair stays but loses its sockets.
CloseBegins ==
    /\ MayClose
    /\ ~Closed
    /\ closing' = "waiting"
    /\ present' = (present /\ ~Removable)
    /\ slot' = Empty
    /\ tostop' = tostop \cup Held
    /\ UNCHANGED <<pc, dead, todo, stream, sent, sends, barred>>

\* Mutant: Close does not wait for connections that are still placed.
CloseReturns_ServingOnly ==
    /\ closing = "waiting"
    /\ tostop = {}
    /\ \A c \in Conn : pc[c] \notin {"serving", "leaving"}
    /\ closing' = "done"
    /\ UNCHANGED <<present, slot, pc, dead, todo, stream, sent, sends, barred, tostop>>

\* Close returns: all collected peers stopped, and peerWG at zero.
CloseReturns ==
    /\ closing = "waiting"
    /\ tostop = {}
    /\ \A c \in Conn : pc[c] \notin {"placed", "serving", "leaving"}
    /\ closing' = "done"
    /\ UNCHANGED <<present, slot, pc, dead, todo, stream, sent, sends, barred, tostop>>
-----------------------------------------------------------------------------
Init ==
    /\ present = TRUE
    /\ slot = Empty
    /\ pc = [c \in Conn |-> "new"]
    /\ dead = {}
    /\ todo = [c \in Conn |-> <<>>]
    /\ stream = [c \in Conn |-> <<>>]
    /\ sent = [c \in Conn |-> 0]
    /\ sends = [c \in Conn |-> 0]
    /\ barred = {}
    /\ tostop = {}
    /\ closing = "no"

\* The steps of the service's own goroutines, which it always takes.
ServerStep(c) ==
    \/ AcceptFails(c) \/ Place(c) \/ Serve(c) \/ DoEnqueue(c) \/ WriteNext(c)
    \/ ContextEnds(c) \/ Detach(c) \/ Leave(c) \/ StopCollected(c)

Next ==
    \/ \E c \in Conn : ServerStep(c) \/ CheckSlot(c) \/ Forward(c) \/ Break(c)
    \/ \E r \in Role : RevokeDevice(r)
    \/ RemoveRoom \/ CreateRoomAgain
    \/ CloseBegins \/ CloseReturns

Spec == Init /\ [][Next]_vars

\* The Go scheduler runs every goroutine that can run.  Nothing is assumed of
\* the clients, of the network or of the administrator.
Fairness ==
    /\ \A c \in Conn : WF_vars(ServerStep(c))
    /\ WF_vars(CloseReturns)

FairSpec == Spec /\ Fairness
-----------------------------------------------------------------------------
(* Properties.                                                             *)

TypeOK ==
    /\ present \in BOOLEAN
    /\ slot \in [Role -> Conn \cup {None}]
    /\ pc \in [Conn -> {"new", "accepting", "placed", "serving", "leaving", "gone"}]
    /\ dead \subseteq Conn
    /\ todo \in [Conn -> Seq(Enqueue)]
    /\ stream \in [Conn -> Seq(Message)]
    /\ sent \in [Conn -> Nat]
    /\ sends \in [Conn -> 0..MaxSends]
    /\ barred \subseteq Role
    /\ tostop \subseteq Conn
    /\ closing \in {"no", "waiting", "done"}

\* No stray socket: a connection that runs and that nobody is about to stop
\* holds its slot.  So two concurrent handshakes never both win, an old
\* connection that detaches late does not evict its successor, and whoever
\* revokes, expires or closes finds every socket there is.
NoStraySocket ==
    \A c \in Conn :
        (pc[c] \in {"placed", "serving"} /\ c \notin dead \cup tostop /\ ~Closed)
            => slot[RoleOf(c)] = c

\* Once the sockets RevokeDevice collected are stopped, no socket of the
\* device runs, not even one that was being upgraded meanwhile.
RevokedIsSilenced ==
    tostop = {} =>
        \A c \in Conn : (pc[c] \in {"placed", "serving"} /\ RoleOf(c) \in barred) => c \in dead

\* After Close returned no goroutine of a connection that entered a slot is
\* left, and nothing is left to be enqueued.
CloseIsFinal ==
    closing = "done" =>
        \A c \in Conn : pc[c] \in {"new", "accepting", "gone"} /\ todo[c] = <<>>

\* Two connections that serve the two slots and have nothing pending have
\* both been told of each other, in whatever order they arrived.
WasTold(c, x) == \E i \in DOMAIN stream[c] : stream[c][i] = Event("up", x)
ReadinessAnnounced ==
    LET h == slot["host"] g == slot["guest"]
    IN  (BothConnected /\ pc[h] = "serving" /\ pc[g] = "serving")
            => WasTold(h, g) /\ WasTold(g, h)

\* A connection that stopped is detached and forgotten.
StoppedIsDetached ==
    \A c \in Conn : (pc[c] \in {"placed", "serving"} /\ c \in dead) ~> (pc[c] = "gone")

\* Close returns.
CloseTerminates == (closing = "waiting") ~> (closing = "done")

\* Nobody waits for a peer that is gone: if the other side of a running
\* connection stopped, it is told so, or told of the successor, or stops too.
PeerLearns(c, x) ==
    \/ c \in dead
    \/ \E i \in DOMAIN stream[c] : stream[c][i] = Event("down", x)
    \/ \E y \in Conn \ {x} : RoleOf(y) = RoleOf(x) /\ WasTold(c, y)
LossIsSignalled ==
    \A h \in HostConn, g \in GuestConn :
        /\ (slot["host"] = h /\ slot["guest"] = g /\ g \in dead) ~> PeerLearns(h, g)
        /\ (slot["host"] = h /\ slot["guest"] = g /\ h \in dead) ~> PeerLearns(g, h)

\* The comment in detachRoom and detachPair: a stopped source "still occupied
\* a slot, so the remaining peer must receive connected=false".  (It is told
\* connected=true a second time if a successor took the slot first.)
RemainingPeerIsTold ==
    \A h \in HostConn, g \in GuestConn :
        (WasTold(h, g) /\ slot["host"] = h /\ slot["guest"] = g /\ g \in dead)
            ~> \/ h \in dead
               \/ \E i \in DOMAIN stream[h] : stream[h][i].kind = "down"

\* The comment in handleRoomSocket: the readiness event is "a strict
\* first-message barrier" for the newly connected client.
FirstMessageIsReadiness ==
    \A c \in Conn : stream[c] # <<>> => stream[c][1].kind # "data"
=============================================================================
