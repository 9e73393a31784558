------------------------- MODULE PeerSocketsProofs -------------------------
(***************************************************************************)
(* Proofs about the sockets of module PeerSockets, for any number of       *)
(* connection attempts, any queue size and any bounds.                     *)
(***************************************************************************)
EXTENDS PeerSockets, TLAPS

-----------------------------------------------------------------------------
(* The inductive invariant.                                                *)

Running(c) == pc[c] \in {"placed", "serving"}

\* A running connection of a revoked device is stopped or about to be.
RevokedInv ==
    \A c \in Conn : (Running(c) /\ RoleOf(c) \in barred) => c \in dead \cup tostop

\* Only connections between their slot and their end have enqueues to do.
TodoInv ==
    \A c \in Conn : pc[c] \in {"new", "accepting", "gone"} => todo[c] = <<>>

\* The goroutine of y, still before its loops, has yet to tell c of x.
WillTell(y, c, x) ==
    pc[y] = "placed" /\ \E i \in DOMAIN todo[y] : todo[y][i] = Put(c, Event("up", x))

\* Two connected sockets have been told of each other or are going to be, by
\* the one of them that came second.
ToldOrPending(c, x) == WasTold(c, x) \/ WillTell(c, c, x) \/ WillTell(x, c, x)
ReadinessInv ==
    BothConnected => /\ ToldOrPending(slot["host"], slot["guest"])
                     /\ ToldOrPending(slot["guest"], slot["host"])

IInv ==
    /\ TypeOK
    /\ NoStraySocket
    /\ RevokedInv
    /\ TodoInv
    /\ CloseIsFinal
-----------------------------------------------------------------------------
LEMMA Roles ==
    /\ \A c \in Conn : RoleOf(c) \in Role
    /\ \A r \in Role : OtherRole(r) \in Role /\ OtherRole(r) # r
    /\ None \notin Conn
  BY ConnAssumption DEF RoleOf, OtherRole, Role, Conn

\* The announcement of a handler is a sequence of enqueues to connections.
LEMMA AnnouncementType ==
    ASSUME TypeOK, NEW c \in Conn
    PROVE  Announcement(c) \in Seq(Enqueue)
<1> DEFINE other == slot[OtherRole(RoleOf(c))]
<1>1. CASE ~Connected(OtherRole(RoleOf(c)))
  BY <1>1 DEF Announcement
<1>2. CASE Connected(OtherRole(RoleOf(c)))
  <2>1. other \in Conn
    BY <1>2, Roles DEF Connected, TypeOK
  <2>2. Put(c, Event("up", other)) \in Enqueue /\ Put(other, Event("up", c)) \in Enqueue
    BY <2>1 DEF Put, Event, Enqueue, Message
  <2>3. Announcement(c) = <<Put(c, Event("up", other)), Put(other, Event("up", c))>>
    BY <1>2 DEF Announcement
  <2> QED BY <2>2, <2>3
<1> QED BY <1>1, <1>2

LEMMA TypeStep ==
    ASSUME TypeOK, [Next]_vars
    PROVE  TypeOK'
<1> USE Roles
<1>1. ASSUME NEW c \in Conn, CheckSlot(c) PROVE TypeOK'
  BY <1>1 DEF CheckSlot, TypeOK
<1>2. ASSUME NEW c \in Conn, AcceptFails(c) PROVE TypeOK'
  BY <1>2 DEF AcceptFails, TypeOK
<1>3. ASSUME NEW c \in Conn, Place(c) PROVE TypeOK'
  <2>1. todo' \in [Conn -> Seq(Enqueue)]
    BY <1>3, AnnouncementType DEF Place, TypeOK
  <2>2. slot' \in [Role -> Conn \cup {None}]
    BY <1>3 DEF Place, TypeOK
  <2> QED BY <1>3, <2>1, <2>2 DEF Place, TypeOK
<1>4. ASSUME NEW c \in Conn, Serve(c) PROVE TypeOK'
  BY <1>4 DEF Serve, TypeOK
<1>5. ASSUME NEW c \in Conn, DoEnqueue(c) PROVE TypeOK'
  <2>1. Head(todo[c]) \in Enqueue /\ Tail(todo[c]) \in Seq(Enqueue)
    BY <1>5 DEF DoEnqueue, TypeOK
  <2>2. Head(todo[c]).to \in Conn /\ Head(todo[c]).msg \in Message
    BY <2>1 DEF Enqueue
  <2>3. todo' \in [Conn -> Seq(Enqueue)]
    BY <1>5, <2>1 DEF DoEnqueue, TypeOK
  <2>4. stream' \in [Conn -> Seq(Message)]
    BY <1>5, <2>2 DEF DoEnqueue, TypeOK
  <2>5. dead' \subseteq Conn
    BY <1>5, <2>2 DEF DoEnqueue, TypeOK
  <2> QED BY <1>5, <2>3, <2>4, <2>5 DEF DoEnqueue, TypeOK
<1>6. ASSUME NEW c \in Conn, WriteNext(c) PROVE TypeOK'
  BY <1>6 DEF WriteNext, TypeOK
<1>7. ASSUME NEW c \in Conn, Forward(c) PROVE TypeOK'
  <2>1. todo' \in [Conn -> Seq(Enqueue)]
    <3> DEFINE other == slot[OtherRole(RoleOf(c))]
    <3>1. BothConnected => other \in Conn
      BY DEF BothConnected, Connected, TypeOK, OtherRole, RoleOf, Role
    <3>2. BothConnected => <<Put(other, Event("data", c))>> \in Seq(Enqueue)
      BY <3>1 DEF Put, Event, Enqueue, Message
    <3>3. \/ todo' = todo
          \/ BothConnected /\ todo' = [todo EXCEPT ![c] = <<Put(other, Event("data", c))>>]
      BY <1>7 DEF Forward
    <3> QED BY <3>2, <3>3 DEF TypeOK
  <2>2. sends' \in [Conn -> 0..MaxSends]
    BY <1>7, BoundAssumption DEF Forward, TypeOK
  <2> QED BY <1>7, <2>1, <2>2 DEF Forward, TypeOK
<1>8. ASSUME NEW c \in Conn, Break(c) \/ ContextEnds(c) PROVE TypeOK'
  BY <1>8 DEF Break, ContextEnds, TypeOK
<1>9. ASSUME NEW c \in Conn, Detach(c) PROVE TypeOK'
  <2> DEFINE other == slot[OtherRole(RoleOf(c))]
  <2>1. other # None => <<Put(other, Event("down", c))>> \in Seq(Enqueue)
    BY DEF Put, Event, Enqueue, Message, TypeOK
  <2>2. \/ todo' = todo
        \/ other # None /\ todo' = [todo EXCEPT ![c] = <<Put(other, Event("down", c))>>]
    BY <1>9 DEF Detach
  <2>3. todo' \in [Conn -> Seq(Enqueue)]
    BY <2>1, <2>2 DEF TypeOK
  <2>4. slot' \in [Role -> Conn \cup {None}]
    BY <1>9 DEF Detach, TypeOK
  <2> QED BY <1>9, <2>3, <2>4 DEF Detach, TypeOK
<1>10. ASSUME NEW c \in Conn, Leave(c) \/ StopCollected(c) PROVE TypeOK'
  BY <1>10 DEF Leave, StopCollected, TypeOK
<1>11. Held \subseteq Conn /\ Empty \in [Role -> Conn \cup {None}]
  BY DEF Held, Empty, TypeOK
<1>12. CASE RemoveRoom \/ CreateRoomAgain
  BY <1>11, <1>12 DEF RemoveRoom, CreateRoomAgain, TypeOK
<1>13. ASSUME NEW r \in Role, RevokeDevice(r) PROVE TypeOK'
  <2>1. {slot[r]} \ {None} \subseteq Conn
    BY DEF TypeOK
  <2> QED BY <1>11, <1>13, <2>1 DEF RevokeDevice, TypeOK
<1>14. CASE CloseBegins \/ CloseReturns
  BY <1>11, <1>14, BoundAssumption DEF CloseBegins, CloseReturns, TypeOK
<1>15. CASE UNCHANGED vars
  BY <1>15 DEF vars, TypeOK
<1> QED
  BY <1>1, <1>2, <1>3, <1>4, <1>5, <1>6, <1>7, <1>8, <1>9, <1>10, <1>12, <1>13, <1>14,
     <1>15 DEF Next, ServerStep

\* No step leaves a running connection that nobody is about to stop without
\* its slot.
LEMMA SlotStep ==
    ASSUME IInv, [Next]_vars
    PROVE  NoStraySocket'
<1> USE Roles DEF IInv
<1> SUFFICES ASSUME NEW x \in Conn,
                    pc'[x] \in {"placed", "serving"}, x \notin dead' \cup tostop',
                    closing' = "no"
             PROVE  slot'[RoleOf(x)] = x
  BY DEF NoStraySocket, Closed
<1>1. ASSUME pc[x] \in {"placed", "serving"}, dead \subseteq dead',
             x \in tostop => x \in tostop' \cup dead', closing = "no",
             slot[RoleOf(x)] = x => slot'[RoleOf(x)] = x
      PROVE  slot'[RoleOf(x)] = x
  BY <1>1 DEF NoStraySocket, Closed
<1>2. ASSUME NEW c \in Conn, CheckSlot(c) \/ AcceptFails(c) \/ Serve(c) \/ DoEnqueue(c)
             \/ WriteNext(c) \/ Forward(c)
      PROVE  slot'[RoleOf(x)] = x
  BY <1>1, <1>2 DEF CheckSlot, AcceptFails, Serve, DoEnqueue, WriteNext, Forward, TypeOK
<1>3. ASSUME NEW c \in Conn, Break(c) \/ ContextEnds(c) \/ StopCollected(c) \/ Leave(c)
      PROVE  slot'[RoleOf(x)] = x
  BY <1>1, <1>3 DEF Break, ContextEnds, StopCollected, Leave, TypeOK
<1>4. ASSUME NEW c \in Conn, Place(c) PROVE slot'[RoleOf(x)] = x
  <2>1. /\ slot' = [slot EXCEPT ![RoleOf(c)] = c]
        /\ pc' = [pc EXCEPT ![c] = "placed"]
        /\ ~Connected(RoleOf(c))
        /\ UNCHANGED <<dead, tostop, closing>>
    BY <1>4 DEF Place, Admissible
  <2>2. CASE x = c
    BY <2>1, <2>2 DEF TypeOK
  <2>3. CASE x # c /\ RoleOf(x) # RoleOf(c)
    BY <1>1, <2>1, <2>3 DEF TypeOK
  <2>4. CASE x # c /\ RoleOf(x) = RoleOf(c)
    <3>1. pc[x] \in {"placed", "serving"} /\ x \notin dead \cup tostop /\ closing = "no"
      BY <2>1, <2>4 DEF TypeOK
    <3>2. slot[RoleOf(c)] = x
      BY <2>4, <3>1 DEF NoStraySocket, Closed
    <3> QED BY <2>1, <3>1, <3>2 DEF Connected
  <2> QED BY <2>2, <2>3, <2>4
<1>5. ASSUME NEW c \in Conn, Detach(c) PROVE slot'[RoleOf(x)] = x
  <2>1. /\ slot' = slot \/ (slot[RoleOf(c)] = c /\ slot' = [slot EXCEPT ![RoleOf(c)] = None])
        /\ pc' = [pc EXCEPT ![c] = "leaving"]
        /\ c \in dead
        /\ UNCHANGED <<dead, tostop, closing>>
    BY <1>5 DEF Detach
  <2>2. x # c
    BY <2>1
  <2>3. pc[x] \in {"placed", "serving"}
    BY <2>1, <2>2 DEF TypeOK
  <2>4. slot[RoleOf(x)] = x => slot'[RoleOf(x)] = x
    BY <2>1, <2>2 DEF TypeOK
  <2> QED BY <1>1, <2>1, <2>3, <2>4
<1>6. ASSUME UNCHANGED <<pc, dead, closing>>, tostop' = tostop \cup Held
      PROVE  slot'[RoleOf(x)] = x
  <2>1. slot[RoleOf(x)] = x
    BY <1>6 DEF NoStraySocket, Closed
  <2>2. x \in Held
    BY <2>1 DEF Held
  <2> QED BY <1>6, <2>2
<1>7. CASE RemoveRoom
  BY <1>6, <1>7 DEF RemoveRoom
<1>8. ASSUME NEW r \in Role, RevokeDevice(r) PROVE slot'[RoleOf(x)] = x
  <2>1. CASE Removable
    BY <1>6, <1>8, <2>1 DEF RevokeDevice
  <2>2. CASE ~Removable
    BY <1>1, <1>8, <2>2 DEF RevokeDevice
  <2> QED BY <2>1, <2>2
<1>9. CASE CreateRoomAgain \/ CloseReturns \/ CloseBegins
  BY <1>1, <1>9 DEF CreateRoomAgain, CloseReturns, CloseBegins
<1>10. CASE UNCHANGED vars
  BY <1>1, <1>10 DEF vars
<1> QED
  BY <1>2, <1>3, <1>4, <1>5, <1>7, <1>8, <1>9, <1>10 DEF Next, ServerStep

\* No step lets a revoked device have a running connection nobody stops.
LEMMA RevokedStep ==
    ASSUME IInv, [Next]_vars
    PROVE  RevokedInv'
<1> USE Roles DEF IInv
<1> SUFFICES ASSUME NEW x \in Conn, pc'[x] \in {"placed", "serving"}, RoleOf(x) \in barred'
             PROVE  x \in dead' \cup tostop'
  BY DEF RevokedInv, Running
<1>1. ASSUME pc[x] \in {"placed", "serving"}, barred' = barred,
             dead \subseteq dead', tostop \subseteq tostop' \cup dead'
      PROVE  x \in dead' \cup tostop'
  BY <1>1 DEF RevokedInv, Running
<1>2. ASSUME NEW c \in Conn, CheckSlot(c) \/ AcceptFails(c) \/ Serve(c) \/ DoEnqueue(c)
             \/ WriteNext(c) \/ Forward(c)
      PROVE  x \in dead' \cup tostop'
  BY <1>1, <1>2 DEF CheckSlot, AcceptFails, Serve, DoEnqueue, WriteNext, Forward, TypeOK
<1>3. ASSUME NEW c \in Conn, Break(c) \/ ContextEnds(c) \/ StopCollected(c) \/ Leave(c)
      PROVE  x \in dead' \cup tostop'
  BY <1>1, <1>3 DEF Break, ContextEnds, StopCollected, Leave, TypeOK
<1>4. ASSUME NEW c \in Conn, Place(c) PROVE x \in dead' \cup tostop'
  <2>1. /\ pc' = [pc EXCEPT ![c] = "placed"]
        /\ RoleOf(c) \notin barred
        /\ UNCHANGED <<dead, tostop, barred>>
    BY <1>4 DEF Place, Admissible
  <2>2. x # c
    BY <2>1
  <2> QED BY <1>1, <2>1, <2>2 DEF TypeOK
<1>5. ASSUME NEW c \in Conn, Detach(c) PROVE x \in dead' \cup tostop'
  BY <1>1, <1>5 DEF Detach, TypeOK
<1>6. CASE RemoveRoom \/ CreateRoomAgain \/ CloseReturns \/ CloseBegins
  BY <1>1, <1>6 DEF RemoveRoom, CreateRoomAgain, CloseReturns, CloseBegins
<1>7. ASSUME NEW r \in Role, RevokeDevice(r) PROVE x \in dead' \cup tostop'
  <2>1. /\ UNCHANGED <<pc, dead>> /\ ~Closed /\ barred' = barred \cup {r}
        /\ tostop \subseteq tostop'
        /\ {slot[r]} \ {None} \subseteq tostop'
    BY <1>7 DEF RevokeDevice, Held
  <2>2. CASE RoleOf(x) \in barred
    BY <2>1, <2>2 DEF RevokedInv, Running
  <2>3. CASE RoleOf(x) = r /\ x \notin dead \cup tostop
    BY <2>1, <2>3 DEF NoStraySocket
  <2> QED BY <2>1, <2>2, <2>3
<1>8. CASE UNCHANGED vars
  BY <1>1, <1>8 DEF vars
<1> QED
  BY <1>2, <1>3, <1>4, <1>5, <1>6, <1>7, <1>8 DEF Next, ServerStep

\* No step leaves work to a connection outside its life on the service, and
\* after Close none enters it.
LEMMA FinalStep ==
    ASSUME IInv, [Next]_vars
    PROVE  TodoInv' /\ CloseIsFinal'
<1> USE Roles DEF IInv
<1> DEFINE Good == TodoInv' /\ CloseIsFinal'
<1>1. ASSUME NEW c \in Conn, CheckSlot(c) \/ AcceptFails(c) \/ Leave(c) PROVE Good
  BY <1>1 DEF CheckSlot, AcceptFails, Leave, TypeOK, TodoInv, CloseIsFinal
<1>2. ASSUME NEW c \in Conn, Place(c) PROVE Good
  BY <1>2 DEF Place, Admissible, Closed, TypeOK, TodoInv, CloseIsFinal
<1>3. ASSUME NEW c \in Conn, Serve(c) PROVE Good
  BY <1>3 DEF Serve, TypeOK, TodoInv, CloseIsFinal
<1>4. ASSUME NEW c \in Conn, DoEnqueue(c) PROVE Good
  <2>1. todo[c] # <<>> /\ todo' = [todo EXCEPT ![c] = Tail(@)] /\ UNCHANGED <<pc, closing>>
    BY <1>4 DEF DoEnqueue
  <2>2. pc[c] \notin {"new", "accepting", "gone"} /\ closing # "done"
    BY <2>1 DEF TodoInv, CloseIsFinal
  <2> QED BY <2>1, <2>2 DEF TodoInv, CloseIsFinal, TypeOK
<1>5. ASSUME NEW c \in Conn, Forward(c) PROVE Good
  <2>1. /\ pc[c] = "serving" /\ UNCHANGED <<pc, closing>>
        /\ \A y \in Conn \ {c} : todo'[y] = todo[y]
    BY <1>5 DEF Forward, TypeOK
  <2>2. closing # "done"
    BY <2>1 DEF CloseIsFinal
  <2> QED BY <2>1, <2>2 DEF TodoInv, CloseIsFinal
<1>6. ASSUME NEW c \in Conn, Detach(c) PROVE Good
  <2>1. /\ pc[c] = "serving" /\ UNCHANGED closing
        /\ pc' = [pc EXCEPT ![c] = "leaving"]
        /\ \A y \in Conn \ {c} : todo'[y] = todo[y]
    BY <1>6 DEF Detach, TypeOK
  <2>2. closing # "done"
    BY <2>1 DEF CloseIsFinal
  <2> QED BY <2>1, <2>2 DEF TodoInv, CloseIsFinal, TypeOK
<1>7. ASSUME UNCHANGED <<pc, todo>>, closing' = "done" => closing = "done" PROVE Good
  BY <1>7 DEF TodoInv, CloseIsFinal
<1>8. ASSUME NEW c \in Conn, WriteNext(c) \/ Break(c) \/ ContextEnds(c) \/ StopCollected(c)
      PROVE Good
  BY <1>7, <1>8 DEF WriteNext, Break, ContextEnds, StopCollected
<1>9. CASE RemoveRoom \/ CreateRoomAgain \/ CloseBegins
  BY <1>7, <1>9 DEF RemoveRoom, CreateRoomAgain, CloseBegins
<1>10. ASSUME NEW r \in Role, RevokeDevice(r) PROVE Good
  BY <1>7, <1>10 DEF RevokeDevice
<1>11. CASE CloseReturns
  BY <1>11 DEF CloseReturns, TodoInv, CloseIsFinal, TypeOK
<1>12. CASE UNCHANGED vars
  BY <1>7, <1>12 DEF vars
<1> QED
  BY <1>1, <1>2, <1>3, <1>4, <1>5, <1>6, <1>8, <1>9, <1>10, <1>11, <1>12
     DEF Next, ServerStep

\* What a running connection has been told, or is going to be told by a
\* goroutine that is not past its announcement, stays so.
LEMMA ToldStays ==
    ASSUME IInv, [Next]_vars, NEW c \in Conn, NEW x \in Conn, c \notin dead',
           ToldOrPending(c, x)
    PROVE  ToldOrPending(c, x)'
<1> USE Roles DEF IInv
<1>1. ASSUME stream' = stream,
             \A y \in Conn : pc[y] = "placed" => pc'[y] = "placed" /\ todo'[y] = todo[y]
      PROVE  ToldOrPending(c, x)'
  BY <1>1 DEF ToldOrPending, WasTold, WillTell
<1>2. ASSUME NEW y \in Conn, CheckSlot(y) \/ AcceptFails(y) \/ Leave(y) PROVE ToldOrPending(c, x)'
  BY <1>1, <1>2 DEF CheckSlot, AcceptFails, Leave, TypeOK
<1>3. ASSUME NEW y \in Conn, Place(y) PROVE ToldOrPending(c, x)'
  BY <1>1, <1>3 DEF Place, TypeOK
<1>4. ASSUME NEW y \in Conn, Serve(y) PROVE ToldOrPending(c, x)'
  <2>1. /\ todo[y] = <<>> /\ UNCHANGED <<todo, stream>>
        /\ \A z \in Conn \ {y} : pc'[z] = pc[z]
    BY <1>4 DEF Serve, TypeOK
  <2>2. ~WillTell(y, c, x)
    BY <2>1 DEF WillTell
  <2> QED BY <2>1, <2>2 DEF ToldOrPending, WasTold, WillTell
<1>5. ASSUME NEW y \in Conn, DoEnqueue(y) PROVE ToldOrPending(c, x)'
  <2> DEFINE e == Head(todo[y])
             full == Len(stream[e.to]) - sent[e.to] >= QueueSize
  <2>1. /\ todo[y] # <<>> /\ todo' = [todo EXCEPT ![y] = Tail(@)] /\ UNCHANGED pc
        /\ stream' = IF e.to \in dead \/ full THEN stream
                     ELSE [stream EXCEPT ![e.to] = Append(@, e.msg)]
        /\ dead' = IF full THEN dead \cup {e.to} ELSE dead
    BY <1>5 DEF DoEnqueue
  <2>2. todo[y] \in Seq(Enqueue) /\ e \in Enqueue /\ e.to \in Conn /\ e.msg \in Message
    <3>1. todo[y] \in Seq(Enqueue)
      BY DEF TypeOK
    <3>2. e \in Enqueue
      BY <2>1, <3>1
    <3> QED BY <3>1, <3>2 DEF Enqueue
  <2>3. WasTold(c, x) => WasTold(c, x)'
    <3>1. CASE stream' = stream
      BY <3>1 DEF WasTold
    <3>2. CASE stream' = [stream EXCEPT ![e.to] = Append(@, e.msg)]
      <4>1. stream[c] \in Seq(Message)
        BY DEF TypeOK
      <4>2. stream'[c] = stream[c] \/ stream'[c] = Append(stream[c], e.msg)
        BY <2>2, <3>2 DEF TypeOK
      <4> SUFFICES ASSUME NEW i \in DOMAIN stream[c], stream[c][i] = Event("up", x)
                   PROVE  WasTold(c, x)'
        BY DEF WasTold
      <4>3. i \in 1..Len(stream[c]) /\ Len(stream[c]) \in Nat
        BY <4>1
      <4>4. e.msg \in Message
        BY <2>2
      <4> HIDE DEF e
      <4>5. i \in DOMAIN stream'[c] /\ stream'[c][i] = stream[c][i]
        BY <4>1, <4>2, <4>3, <4>4
      <4> QED BY <4>5 DEF WasTold, Event
    <3> QED BY <2>1, <3>1, <3>2
  <2>4. ASSUME NEW z \in {c, x}, WillTell(z, c, x) PROVE WillTell(z, c, x)' \/ WasTold(c, x)'
    <3>1. CASE z # y
      BY <2>1, <2>4, <3>1 DEF WillTell, TypeOK
    <3>2. CASE z = y
      <4>1. PICK i \in DOMAIN todo[y] : todo[y][i] = Put(c, Event("up", x))
        BY <2>4, <3>2 DEF WillTell
      <4>2. CASE i = 1
        <5>1. e = Put(c, Event("up", x))
          BY <2>2, <4>1, <4>2
        <5>2. e.to = c /\ e.msg = Event("up", x)
          BY <5>1 DEF Put
        <5>3. ~full /\ c \notin dead
          BY <2>1, <5>2
        <5>4. stream'[c] = Append(stream[c], Event("up", x)) /\ stream[c] \in Seq(Message)
          BY <2>1, <5>2, <5>3 DEF TypeOK
        <5>5. Event("up", x) \in Message
          BY DEF Event, Message
        <5>6. Len(stream[c]) + 1 \in DOMAIN stream'[c]
              /\ stream'[c][Len(stream[c]) + 1] = Event("up", x)
          BY <5>4, <5>5
        <5> QED BY <5>6 DEF WasTold
      <4>3. CASE i # 1
        <5>1. i - 1 \in DOMAIN Tail(todo[y]) /\ Tail(todo[y])[i - 1] = todo[y][i]
          BY <2>1, <2>2, <4>1, <4>3
        <5>2. todo'[y] = Tail(todo[y]) /\ pc'[y] = "placed"
          BY <2>1, <2>4, <3>2 DEF WillTell, TypeOK
        <5> QED BY <3>2, <4>1, <5>1, <5>2 DEF WillTell
      <4> QED BY <4>2, <4>3
    <3> QED BY <3>1, <3>2
  <2> QED BY <2>3, <2>4 DEF ToldOrPending
<1>6. ASSUME NEW y \in Conn,
             WriteNext(y) \/ Break(y) \/ ContextEnds(y) \/ StopCollected(y)
      PROVE ToldOrPending(c, x)'
  BY <1>1, <1>6 DEF WriteNext, Break, ContextEnds, StopCollected
<1>7. ASSUME NEW y \in Conn, Forward(y) PROVE ToldOrPending(c, x)'
  <2>1. pc[y] = "serving" /\ UNCHANGED <<pc, stream>> /\ \A z \in Conn \ {y} : todo'[z] = todo[z]
    BY <1>7 DEF Forward, TypeOK
  <2> QED BY <1>1, <2>1
<1>8. ASSUME NEW y \in Conn, Detach(y) PROVE ToldOrPending(c, x)'
  <2>1. /\ pc[y] = "serving" /\ UNCHANGED stream
        /\ \A z \in Conn \ {y} : todo'[z] = todo[z] /\ pc'[z] = pc[z]
    BY <1>8 DEF Detach, TypeOK
  <2> QED BY <1>1, <2>1
<1>9. CASE RemoveRoom \/ CreateRoomAgain \/ CloseBegins \/ CloseReturns
  BY <1>1, <1>9 DEF RemoveRoom, CreateRoomAgain, CloseBegins, CloseReturns
<1>10. ASSUME NEW r \in Role, RevokeDevice(r) PROVE ToldOrPending(c, x)'
  BY <1>1, <1>10 DEF RevokeDevice
<1>11. CASE UNCHANGED vars
  BY <1>1, <1>11 DEF vars
<1> QED
  BY <1>2, <1>3, <1>4, <1>5, <1>6, <1>7, <1>8, <1>9, <1>10, <1>11 DEF Next, ServerStep

\* A step after which both slots are filled and running either fills one of
\* them or found them so.
LEMMA ConnectedStep ==
    ASSUME IInv, [Next]_vars, BothConnected'
    PROVE  \/ \E c \in Conn : Place(c)
           \/ UNCHANGED slot /\ BothConnected
<1> USE Roles DEF IInv
<1> DEFINE Good == UNCHANGED slot /\ BothConnected
<1>1. slot'["host"] # None /\ slot'["guest"] # None
  BY DEF BothConnected, Connected
<1>2. ASSUME slot' = slot, dead \subseteq dead' PROVE Good
  BY <1>2 DEF BothConnected, Connected
<1>3. ASSUME NEW c \in Conn, CheckSlot(c) \/ AcceptFails(c) \/ Serve(c) \/ DoEnqueue(c)
             \/ WriteNext(c) \/ Forward(c)
      PROVE  Good
  BY <1>2, <1>3 DEF CheckSlot, AcceptFails, Serve, DoEnqueue, WriteNext, Forward
<1>4. ASSUME NEW c \in Conn, Break(c) \/ ContextEnds(c) \/ StopCollected(c) \/ Leave(c)
      PROVE  Good
  BY <1>2, <1>4 DEF Break, ContextEnds, StopCollected, Leave
<1>5. ASSUME NEW c \in Conn, Detach(c) PROVE Good
  <2>1. RoleOf(c) \in {"host", "guest"}
    BY DEF RoleOf
  <2> QED BY <1>1, <1>2, <1>5, <2>1 DEF Detach, TypeOK, Role
<1>6. CASE RemoveRoom \/ CloseBegins
  BY <1>1, <1>6 DEF RemoveRoom, CloseBegins, Empty, Role
<1>7. CASE CreateRoomAgain \/ CloseReturns \/ UNCHANGED vars
  BY <1>2, <1>7 DEF CreateRoomAgain, CloseReturns, vars
<1>8. ASSUME NEW r \in Role, RevokeDevice(r) PROVE Good
  BY <1>1, <1>2, <1>8 DEF RevokeDevice, Empty, Role
<1> QED
  BY <1>3, <1>4, <1>5, <1>6, <1>7, <1>8 DEF Next, ServerStep

LEMMA ReadinessStep ==
    ASSUME IInv, ReadinessInv, [Next]_vars
    PROVE  ReadinessInv'
<1> USE Roles DEF IInv
<1> SUFFICES ASSUME BothConnected'
             PROVE  /\ ToldOrPending(slot["host"], slot["guest"])'
                    /\ ToldOrPending(slot["guest"], slot["host"])'
  BY DEF ReadinessInv
<1>1. /\ slot'["host"] \in Conn /\ slot'["host"] \notin dead'
      /\ slot'["guest"] \in Conn /\ slot'["guest"] \notin dead'
  BY TypeStep DEF BothConnected, Connected, TypeOK, Role
<1>2. CASE UNCHANGED slot /\ BothConnected
  <2>1. /\ ToldOrPending(slot["host"], slot["guest"])
        /\ ToldOrPending(slot["guest"], slot["host"])
    BY <1>2 DEF ReadinessInv
  <2>2. slot["host"] = slot'["host"] /\ slot["guest"] = slot'["guest"]
    BY <1>2
  <2> DEFINE h == slot["host"]
             g == slot["guest"]
  <2>3. h \in Conn /\ g \in Conn /\ h \notin dead' /\ g \notin dead'
    BY <1>1, <2>2
  <2> QED BY <2>1, <2>2, <2>3, ToldStays DEF ToldOrPending, WasTold, WillTell
<1>3. ASSUME NEW c \in Conn, Place(c)
      PROVE  /\ ToldOrPending(slot["host"], slot["guest"])'
             /\ ToldOrPending(slot["guest"], slot["host"])'
  <2> DEFINE other == slot[OtherRole(RoleOf(c))]
  <2>1. /\ slot'[RoleOf(c)] = c /\ slot'[OtherRole(RoleOf(c))] = other
        /\ pc'[c] = "placed" /\ todo'[c] = Announcement(c) /\ dead' = dead
    BY <1>3 DEF Place, TypeOK
  <2>2. other # None /\ other \notin dead
    BY <1>1, <2>1 DEF RoleOf, OtherRole
  <2>3. todo'[c] = <<Put(c, Event("up", other)), Put(other, Event("up", c))>>
    BY <2>1, <2>2 DEF Announcement, Connected
  <2>4. /\ 1 \in DOMAIN todo'[c] /\ todo'[c][1] = Put(c, Event("up", other))
        /\ 2 \in DOMAIN todo'[c] /\ todo'[c][2] = Put(other, Event("up", c))
    BY <2>3
  <2>5. /\ \E i \in DOMAIN todo'[c] : todo'[c][i] = Put(c, Event("up", other))
        /\ \E i \in DOMAIN todo'[c] : todo'[c][i] = Put(other, Event("up", c))
    BY <2>4
  <2>6. CASE RoleOf(c) = "host"
    <3>1. slot'["host"] = c /\ slot'["guest"] = other
      BY <2>1, <2>6 DEF OtherRole
    <3> QED BY <2>1, <2>5, <3>1 DEF ToldOrPending, WillTell
  <2>7. CASE RoleOf(c) = "guest"
    <3>1. slot'["guest"] = c /\ slot'["host"] = other
      BY <2>1, <2>7 DEF OtherRole
    <3> QED BY <2>1, <2>5, <3>1 DEF ToldOrPending, WillTell
  <2> QED BY <2>6, <2>7 DEF RoleOf
<1> QED BY <1>2, <1>3, ConnectedStep
-----------------------------------------------------------------------------
(* The theorems.                                                           *)

\* Every reachable state satisfies the inductive invariant.
THEOREM Inductive == Spec => []IInv
<1>1. Init => IInv
  <2> SUFFICES ASSUME Init PROVE IInv
    OBVIOUS
  <2>1. TypeOK
    BY BoundAssumption, Roles DEF Init, TypeOK, Empty
  <2> QED BY <2>1 DEF Init, IInv, NoStraySocket, RevokedInv, Running, TodoInv, CloseIsFinal
<1>2. IInv /\ [Next]_vars => IInv'
  BY TypeStep, SlotStep, RevokedStep, FinalStep DEF IInv
<1> QED BY <1>1, <1>2, PTL DEF Spec

\* The variables have their types.
THEOREM TypeCorrect == Spec => []TypeOK
<1>1. IInv => TypeOK
  BY DEF IInv
<1> QED BY <1>1, Inductive, PTL

\* A running connection holds its slot unless somebody is about to stop it.
THEOREM SlotsAreOwned == Spec => []NoStraySocket
<1>1. IInv => NoStraySocket
  BY DEF IInv
<1> QED BY <1>1, Inductive, PTL

\* Once RevokeDevice has stopped what it collected, the device has no socket.
THEOREM RevocationSilences == Spec => []RevokedIsSilenced
<1>1. IInv => RevokedIsSilenced
  BY DEF IInv, RevokedInv, Running, RevokedIsSilenced
<1> QED BY <1>1, Inductive, PTL

\* After Close returned no goroutine of a placed connection is left.
THEOREM CloseIsTheEnd == Spec => []CloseIsFinal
<1>1. IInv => CloseIsFinal
  BY DEF IInv
<1> QED BY <1>1, Inductive, PTL

\* Two sockets that serve the two sides have been told of each other.
THEOREM ReadinessIsAnnounced == Spec => []ReadinessAnnounced
<1>1. Init => ReadinessInv
  BY DEF Init, ReadinessInv, BothConnected, Connected, Empty, Role
<1>2. IInv /\ ReadinessInv /\ [Next]_vars => ReadinessInv'
  BY ReadinessStep
<1>3. ReadinessInv => ReadinessAnnounced
  BY DEF ReadinessInv, ReadinessAnnounced, ToldOrPending, WillTell
<1> QED BY <1>1, <1>2, <1>3, Inductive, PTL DEF Spec
=============================================================================
