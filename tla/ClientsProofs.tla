---------------------------- MODULE ClientsProofs ----------------------------
(*****************************************************************************)
(* Proofs about the access to the relay, RelayAccess, the signaling of       *)
(* direct paths, Signaling, and the state graph of all parts of a client,    *)
(* MCClients, with those of SessionProofs and PairingProofs: for any number  *)
(* of runners, sockets, generations and faults, and any periods with the     *)
(* renewal shorter than the lease.                                           *)
(*****************************************************************************)
EXTENDS MCClients, SessionProofs, PairingProofs, TLAPS

-----------------------------------------------------------------------------
(*****************************************************************************)
(* RelayAccess: a lease that was granted in answer to the last registration  *)
(* runs no shorter than the time to the next renewal: both only go down      *)
(* together, and the one event that takes a lease early, a stop of the       *)
(* server, takes the relay connections with it, so that the next look        *)
(* registers again.                                                          *)
(*****************************************************************************)
\* While a runner is connected, or has a lease at all, the lease outlasts the time
\* to its renewal, unless its last registration failed or its device is revoked.
Covered(r) == lease[r] > 0 \/ (session[r] > 0 /\ r \notin disabled)
LeaseOutlasts == \A r \in Runner : Covered(r) /\ r \notin unsure => lease[r] >= due[r]

RelayInv == RelayAccessTypeOK /\ LeaseOutlasts /\ AlwaysAdmissible /\ RevokedIsCutOff

USE RelayAccessAssumption
-----------------------------------------------------------------------------

LEMMA RelayStarts == RelayAccessInit => RelayInv
<1> SUFFICES ASSUME RelayAccessInit PROVE RelayInv
  OBVIOUS
<1>1. RelayAccessTypeOK
  BY DEF RelayAccessInit, RelayAccessTypeOK
<1>2. LeaseOutlasts /\ AlwaysAdmissible /\ RevokedIsCutOff
  BY DEF RelayAccessInit, LeaseOutlasts, Covered, AlwaysAdmissible, RevokedIsCutOff
<1> QED BY <1>1, <1>2 DEF RelayInv

\* The types; a lease and an admission are never longer than their periods.
LEMMA RelayTypes ==
    ASSUME RelayAccessTypeOK, [RelayAccessNext]_relayAccessVars
    PROVE  RelayAccessTypeOK'
<1> USE DEF RelayAccessTypeOK
<1>1. ASSUME NEW r \in Runner, StartRunner(r) PROVE RelayAccessTypeOK'
  BY <1>1 DEF StartRunner, Granted, NotGranted, Trouble
<1>2. ASSUME NEW r \in Runner, StopRunner(r) PROVE RelayAccessTypeOK'
  BY <1>2 DEF StopRunner, Trouble
<1>3. ASSUME NEW r \in Runner, Look(r) PROVE RelayAccessTypeOK'
  <2>1. looked' = looked \cup {r} /\ heard' = heard \cup {r}
        /\ UNCHANGED <<on, serving, disabled, session, cutIn>>
    BY <1>3 DEF Look
  <2>2. unsure' \in SUBSET Runner /\ lease' \in [Runner -> 0..Lease]
        /\ due' \in [Runner -> 0..Renewal] /\ troubles' \in 0..MaxTroubles
    BY <1>3 DEF Look, Granted, NotGranted, Trouble
  <2> QED BY <2>1, <2>2
<1>4. ASSUME NEW r \in Runner, Connect(r) PROVE RelayAccessTypeOK'
  BY <1>4 DEF Connect
<1>5. ASSUME NEW r \in Runner, ConnectionLost(r) PROVE RelayAccessTypeOK'
  BY <1>5 DEF ConnectionLost, Trouble
<1>6. ASSUME NEW r \in Runner, Disable(r) PROVE RelayAccessTypeOK'
  BY <1>6 DEF Disable
<1>7. CASE ServerStops
  <2>1. serving' \in BOOLEAN /\ UNCHANGED <<on, disabled, due, looked, heard, unsure, cutIn>>
    BY <1>7 DEF ServerStops
  <2>2. lease' \in [Runner -> 0..Lease] /\ session' \in [Runner -> 0..Admission]
    BY <1>7 DEF ServerStops
  <2>3. troubles' \in 0..MaxTroubles
    BY <1>7 DEF ServerStops, Trouble
  <2> QED BY <2>1, <2>2, <2>3
<1>8. CASE ServerStarts
  BY <1>8 DEF ServerStarts
<1>9. CASE Tick
  BY <1>9 DEF Tick, Less, AdmissionLeft
<1>10. CASE UNCHANGED relayAccessVars
  BY <1>10 DEF relayAccessVars
<1> QED BY <1>1, <1>2, <1>3, <1>4, <1>5, <1>6, <1>7, <1>8, <1>9, <1>10 DEF RelayAccessNext

\* A lease outlasts the time to its renewal, and a runner that looks renews one
\* that is over.
LEMMA RelayLeases ==
    ASSUME RelayInv, [RelayAccessNext]_relayAccessVars
    PROVE  LeaseOutlasts' /\ AlwaysAdmissible'
<1> USE DEF RelayInv, RelayAccessTypeOK, LeaseOutlasts, Covered, AlwaysAdmissible
<1>1. ASSUME NEW r \in Runner, StartRunner(r) PROVE LeaseOutlasts' /\ AlwaysAdmissible'
  BY <1>1 DEF StartRunner, Granted, NotGranted
<1>2. ASSUME NEW r \in Runner, StopRunner(r) PROVE LeaseOutlasts' /\ AlwaysAdmissible'
  BY <1>2 DEF StopRunner
<1>3. ASSUME NEW r \in Runner, Look(r) PROVE LeaseOutlasts' /\ AlwaysAdmissible'
  BY <1>3 DEF Look, Granted, NotGranted
<1>4. ASSUME NEW r \in Runner, Connect(r) PROVE LeaseOutlasts' /\ AlwaysAdmissible'
  BY <1>4 DEF Connect, Admits
<1>5. ASSUME NEW r \in Runner, ConnectionLost(r) PROVE LeaseOutlasts' /\ AlwaysAdmissible'
  BY <1>5 DEF ConnectionLost
<1>6. ASSUME NEW r \in Runner, Disable(r) PROVE LeaseOutlasts' /\ AlwaysAdmissible'
  BY <1>6 DEF Disable
<1>7. CASE ServerStops
  BY <1>7 DEF ServerStops
<1>8. CASE ServerStarts
  BY <1>8 DEF ServerStarts
<1>9. CASE Tick
  BY <1>9 DEF Tick, Less, AdmissionLeft
<1>10. CASE UNCHANGED relayAccessVars
  BY <1>10 DEF relayAccessVars
<1> QED BY <1>1, <1>2, <1>3, <1>4, <1>5, <1>6, <1>7, <1>8, <1>9, <1>10 DEF RelayAccessNext

\* A revoked device is not admitted again, and what is left of its admission and
\* the time since are no more than one admission.
LEMMA RelayRevocation ==
    ASSUME RelayInv, [RelayAccessNext]_relayAccessVars
    PROVE  RevokedIsCutOff'
<1> USE DEF RelayInv, RelayAccessTypeOK, RevokedIsCutOff
<1>1. ASSUME NEW r \in Runner,
             StartRunner(r) \/ StopRunner(r) \/ Look(r) \/ ConnectionLost(r)
      PROVE  RevokedIsCutOff'
  BY <1>1 DEF StartRunner, StopRunner, Look, ConnectionLost
<1>2. ASSUME NEW r \in Runner, Connect(r) PROVE RevokedIsCutOff'
  BY <1>2 DEF Connect, Admits
<1>3. ASSUME NEW r \in Runner, Disable(r) PROVE RevokedIsCutOff'
  BY <1>3 DEF Disable
<1>4. CASE ServerStops
  BY <1>4 DEF ServerStops
<1>5. CASE ServerStarts
  BY <1>5 DEF ServerStarts
<1>6. CASE Tick
  BY <1>6 DEF Tick, AdmissionLeft
<1>7. CASE UNCHANGED relayAccessVars
  BY <1>7 DEF relayAccessVars
<1> QED BY <1>1, <1>2, <1>3, <1>4, <1>5, <1>6, <1>7 DEF RelayAccessNext

LEMMA RelayAlways == RelayAccessSpec => []RelayInv
<1>1. RelayInv /\ [RelayAccessNext]_relayAccessVars => RelayInv'
  BY RelayTypes, RelayLeases, RelayRevocation DEF RelayInv
<1> QED BY <1>1, RelayStarts, PTL DEF RelayAccessSpec

\* The variables keep their types.
THEOREM RelayAccessTypeCorrect == RelayAccessSpec => []RelayAccessTypeOK
<1>1. RelayInv => RelayAccessTypeOK
  BY DEF RelayInv
<1> QED BY <1>1, RelayAlways, PTL

\* For any number of runners and any periods: a runner that looks and is answered
\* has a lease whenever the server might ask, and a revoked device keeps the relay
\* for one admission at most.
THEOREM AccessIsBoundToLease == RelayAccessSpec => []AccessFollowsLease
<1>1. RelayInv => AccessFollowsLease
  BY DEF RelayInv, AccessFollowsLease
<1> QED BY <1>1, RelayAlways, PTL

HIDE RelayAccessAssumption

-----------------------------------------------------------------------------
(* What two runners and what is under way between them have to do with one   *)
(* another.                                                                  *)

\* The steps of an attempt, and those of a runner that has a socket.
Attempting == {"gathering", "asking", "connecting"}
Unconnected == {"dialing", "pausing", "gone"}
InSession == Attempting \cup {"checking", "resting", "listening", "quiet"}

\* A runner has a socket of its own while it is connected, a peer once it was
\* greeted, and a generation during an attempt.
PlaceInv ==
    /\ at["guest"] \notin {"checking", "asking", "resting", "quiet"}
    /\ at["host"] # "listening"
    /\ \A s \in Side :
        /\ sock[s] \in SocketOf(s) \cup {Nil}
        /\ seat[s] \in SocketOf(s) \cup {Nil}
        /\ sock[s] = Nil <=> at[s] \in Unconnected
        /\ gen[s] # Nil <=> at[s] \in Attempting
        /\ sess[s] # Nil <=> at[s] \in InSession

\* An offer waits in a socket of the guest, an answer in one of the host.
Proposes(m) == m.kind = "ice" /\ ~m.disabled

\* Agents, paths and generations of a side: those of the attempt under way are not
\* those of the last that succeeded, and the host attempts nothing that has a path.
OwnInv ==
    /\ AgentsAccounted
    /\ \A s \in Side :
        /\ gen[s] # Nil => gen[s] # active[s] /\ <<s, gen[s]>> \in agents
        /\ active[s] # Nil /\ path[s] = Nil => <<s, active[s]>> \notin agents
        /\ path[s] # Nil => path[s] \in linked
    /\ gen["host"] # Nil => path["host"] = Nil

\* The generations a guest has taken up, and those that were connected.
Learned == linked \cup {gen["guest"], active["guest"]}

\* An offer has not been taken up, and there is one of a generation.
OfferInv ==
    \A d \in GuestSocket : \A i \in DOMAIN inbox[d] : Proposes(inbox[d][i]) =>
        /\ inbox[d][i].gen \notin Learned
        /\ \A e \in GuestSocket : \A j \in DOMAIN inbox[e] :
              Proposes(inbox[e][j]) /\ inbox[e][j].gen = inbox[d][i].gen => e = d /\ j = i

\* Nobody has heard of a generation before it is offered.
FreshInv ==
    at["host"] = "gathering" =>
        /\ gen["host"] \notin Learned
        /\ \A c \in Socket : \A i \in DOMAIN inbox[c] :
              inbox[c][i].kind = "ice" => inbox[c][i].gen # gen["host"]

\* What the checks have connected was offered and answered.
LinkedInv ==
    \A s \in Side : gen[s] \in linked => at[s] = "connecting"

\* In one session, while the host waits for the answer to its offer or checks
\* connectivity: the offer is the last, and comes from its socket; once it is
\* answered the guest has read all of them, and attempts that one or none.
NoOffers(c, d) == \A i \in DOMAIN inbox[d] : Proposes(inbox[d][i]) => inbox[d][i].from # c
Answered(c, d, g) ==
    \E i \in DOMAIN inbox[c] :
        /\ Proposes(inbox[c][i]) /\ inbox[c][i].gen = g
        /\ inbox[c][i].from = d /\ inbox[c][i].to = c
OriginInv ==
    at["host"] \in {"asking", "connecting"} =>
        \A d \in GuestSocket : \A i \in DOMAIN inbox[d] :
            Proposes(inbox[d][i]) /\ inbox[d][i].gen = gen["host"] =>
                inbox[d][i].from = sock["host"]
AnswerInv ==
    LET c == sock["host"]
        d == sock["guest"]
        g == gen["host"]
    IN  at["host"] \in {"asking", "connecting"} /\ sess["host"] = d =>
          /\ \A i, j \in DOMAIN inbox[d] :
                /\ i < j
                /\ Proposes(inbox[d][i]) /\ inbox[d][i].gen = g
                /\ Proposes(inbox[d][j])
                => inbox[d][j].from # c
          /\ gen["guest"] = g /\ sess["guest"] = c => NoOffers(c, d)
          /\ at["host"] = "connecting" \/ Answered(c, d, g) =>
                /\ sess["guest"] = c
                /\ gen["guest"] \in {g, Nil}
                /\ NoOffers(c, d)

\* Beside a side that allows the relay only the guest attempts nothing and nothing
\* is connected.
RelayOnlyInv ==
    relayOnly # {} =>
        /\ linked = {}
        /\ gen["guest"] = Nil
        /\ \A s \in Side : active[s] = Nil
        /\ "host" \in relayOnly =>
              /\ gen["host"] = Nil
              /\ \A d \in GuestSocket : \A i \in DOMAIN inbox[d] : ~Proposes(inbox[d][i])

PathInv ==
    /\ SignalingTypeOK /\ PlaceInv /\ OwnInv /\ OfferInv /\ FreshInv
    /\ LinkedInv /\ OriginInv /\ AnswerInv /\ PathsJoin /\ RelayOnlyInv

\* What becomes of the sockets in a step: of any the first message may be taken,
\* and one message may be put at the end of one.
Moves(to, m) ==
    \A c \in Socket : \E k \in {0, 1} : \A i \in DOMAIN inbox'[c] :
        \/ i + k \in DOMAIN inbox[c] /\ inbox'[c][i] = inbox[c][i + k]
        \/ c = to /\ i = Len(inbox'[c]) /\ inbox'[c][i] = m

LEMMA Boxes ==
    ASSUME NEW q \in Seq(Packet), NEW m \in Packet
    PROVE  /\ DOMAIN q = 1..Len(q) /\ Len(q) \in Nat
           /\ Append(q, m) \in Seq(Packet) /\ Len(Append(q, m)) = Len(q) + 1
           /\ DOMAIN Append(q, m) = 1..(Len(q) + 1)
           /\ \A i \in 1..Len(q) : Append(q, m)[i] = q[i]
           /\ Append(q, m)[Len(q) + 1] = m
           /\ q # <<>> => /\ Len(q) >= 1 /\ Head(q) = q[1] /\ Head(q) \in Packet
                          /\ Tail(q) \in Seq(Packet) /\ Len(Tail(q)) = Len(q) - 1
                          /\ DOMAIN Tail(q) = 1..(Len(q) - 1)
                          /\ \A i \in 1..(Len(q) - 1) : Tail(q)[i] = q[i + 1]
OBVIOUS

LEMMA LastOrNot ==
    \A n \in Nat : \A i \in 1..n : i = n \/ (i \in 1..(n - 1) /\ i + 1 \in 1..n)
OBVIOUS

LEMMA MovesBy ==
    ASSUME inbox \in [Socket -> Seq(Packet)], NEW to, NEW m \in Packet,
           \A c \in Socket :
               \/ inbox'[c] = inbox[c]
               \/ inbox'[c] = <<>>
               \/ inbox'[c] = Tail(inbox[c]) /\ inbox[c] # <<>>
               \/ c = to /\ inbox'[c] = Append(inbox[c], m)
               \/ c = to /\ inbox'[c] = Append(Tail(inbox[c]), m) /\ inbox[c] # <<>>
    PROVE  Moves(to, m)
<1> SUFFICES ASSUME NEW c \in Socket
             PROVE  \E k \in {0, 1} : \A i \in DOMAIN inbox'[c] :
                        \/ i + k \in DOMAIN inbox[c] /\ inbox'[c][i] = inbox[c][i + k]
                        \/ c = to /\ i = Len(inbox'[c]) /\ inbox'[c][i] = m
    BY DEF Moves
<1> DEFINE q == inbox[c]
           r == inbox'[c]
<1>1. q \in Seq(Packet)
      OBVIOUS
<1>2. CASE c = to
  <2>1. \/ r = q
        \/ r = <<>>
        \/ r = Tail(q) /\ q # <<>>
        \/ r = Append(q, m)
        \/ r = Append(Tail(q), m) /\ q # <<>>
        BY <1>2
  <2> HIDE DEF q, r
  <2>2. CASE r = q
    <3>1. \A i \in DOMAIN r : i + 0 \in DOMAIN q /\ r[i] = q[i + 0]
          BY <1>1, <2>2, Boxes
    <3> QED BY <3>1 DEF q, r
  <2>3. CASE r = <<>>
        BY <2>3 DEF q, r
  <2>4. CASE r = Tail(q) /\ q # <<>>
    <3>1. \A i \in DOMAIN r : i + 1 \in DOMAIN q /\ r[i] = q[i + 1]
          BY <1>1, <2>4, Boxes
    <3> QED BY <3>1 DEF q, r
  <2>5. CASE r = Append(q, m)
    <3>1. \A i \in DOMAIN r : \/ i + 0 \in DOMAIN q /\ r[i] = q[i + 0]
                              \/ i = Len(r) /\ r[i] = m
          BY <1>1, <2>5, Boxes
    <3> QED BY <1>2, <3>1 DEF q, r
  <2>6. CASE r = Append(Tail(q), m) /\ q # <<>>
    <3> DEFINE t == Tail(q)
    <3>2. t \in Seq(Packet) /\ Len(t) = Len(q) - 1
          /\ \A i \in 1..(Len(q) - 1) : t[i] = q[i + 1]
          BY <1>1, <2>6, Boxes
    <3>3. r = Append(t, m)
          BY <2>6
    <3> HIDE DEF t
    <3>4. Len(r) = Len(t) + 1 /\ DOMAIN r = 1..(Len(t) + 1)
          /\ (\A i \in 1..Len(t) : r[i] = t[i]) /\ r[Len(t) + 1] = m
          BY <3>2, <3>3, Boxes
    <3>5. DOMAIN q = 1..Len(q) /\ Len(q) \in Nat
          BY <1>1, Boxes
    <3>1. \A i \in DOMAIN r : \/ i + 1 \in DOMAIN q /\ r[i] = q[i + 1]
                              \/ i = Len(r) /\ r[i] = m
      <4>1. Len(r) = Len(q) /\ DOMAIN r = 1..Len(q) /\ r[Len(q)] = m
            BY <3>2, <3>4, <3>5
      <4>2. \A i \in 1..(Len(q) - 1) : r[i] = q[i + 1]
            BY <3>2, <3>4, <3>5
      <4>3. \A i \in 1..Len(q) : i = Len(q) \/ (i \in 1..(Len(q) - 1) /\ i + 1 \in 1..Len(q))
            BY <3>5, LastOrNot
      <4> QED BY <3>5, <4>1, <4>2, <4>3
    <3> QED BY <1>2, <3>1 DEF q, r
  <2> QED BY <2>1, <2>2, <2>3, <2>4, <2>5, <2>6
<1>3. CASE c # to
  <2>1. \/ r = q
        \/ r = <<>>
        \/ r = Tail(q) /\ q # <<>>
        BY <1>3
  <2> HIDE DEF q, r
  <2>2. CASE r = q
    <3>1. \A i \in DOMAIN r : i + 0 \in DOMAIN q /\ r[i] = q[i + 0]
          BY <1>1, <2>2, Boxes
    <3> QED BY <3>1 DEF q, r
  <2>3. CASE r = <<>>
        BY <2>3 DEF q, r
  <2>4. CASE r = Tail(q) /\ q # <<>>
    <3>1. \A i \in DOMAIN r : i + 1 \in DOMAIN q /\ r[i] = q[i + 1]
          BY <1>1, <2>4, Boxes
    <3> QED BY <3>1 DEF q, r
  <2> QED BY <2>1, <2>2, <2>3, <2>4
<1> QED BY <1>2, <1>3

LEMMA DeliveredBoxes ==
    ASSUME NEW box \in [Socket -> Seq(Packet)], \A d \in Socket : Len(box[d]) <= Backlog,
           NEW c \in Socket, NEW m \in Packet
    PROVE  /\ Delivered(box, c, m) \in [Socket -> Seq(Packet)]
           /\ \A d \in Socket : Len(Delivered(box, c, m)[d]) <= Backlog
           /\ \A d \in Socket \ {c} : Delivered(box, c, m)[d] = box[d]
           /\ Delivered(box, c, m)[c] \in {box[c], Append(box[c], m)}
<1>0. Len(box[c]) \in Nat /\ Backlog \in Nat
      BY Boxes, SignalingBounds
<1>1. CASE c \notin alive \/ Len(box[c]) >= Backlog
      BY <1>1 DEF Delivered
<1>2. CASE c \in alive /\ Len(box[c]) < Backlog
  <2>1. Delivered(box, c, m) = [box EXCEPT ![c] = Append(box[c], m)]
        BY <1>0, <1>2 DEF Delivered
  <2>2. box[c] \in Seq(Packet)
        OBVIOUS
  <2>3. Append(box[c], m) \in Seq(Packet) /\ Len(Append(box[c], m)) = Len(box[c]) + 1
        /\ Len(box[c]) \in Nat
        BY <2>2, Boxes
  <2>4. Len(Append(box[c], m)) <= Backlog
        BY <1>0, <1>2, <2>3
  <2> HIDE DEF Delivered
  <2> QED BY <2>1, <2>3, <2>4
<1> QED BY <1>0, <1>1, <1>2

-----------------------------------------------------------------------------
(* What is under way, and what is made of it.                                *)

\* An offer is one of its kind.
LEMMA OfferDistinct ==
    ASSUME OfferInv, NEW to, NEW m, Moves(to, m), inbox' \in [Socket -> Seq(Packet)],
           to \in GuestSocket /\ Proposes(m) =>
               \A d \in GuestSocket : \A i \in DOMAIN inbox[d] :
                   Proposes(inbox[d][i]) => inbox[d][i].gen # m.gen,
           NEW d \in GuestSocket, NEW i \in DOMAIN inbox'[d], Proposes(inbox'[d][i]),
           NEW e \in GuestSocket, NEW j \in DOMAIN inbox'[e], Proposes(inbox'[e][j]),
           inbox'[e][j].gen = inbox'[d][i].gen
    PROVE  e = d /\ j = i
<1> USE DEF OfferInv
<1>1. PICK k \in {0, 1} : \A x \in DOMAIN inbox'[d] :
          \/ x + k \in DOMAIN inbox[d] /\ inbox'[d][x] = inbox[d][x + k]
          \/ d = to /\ x = Len(inbox'[d]) /\ inbox'[d][x] = m
      BY DEF Moves, Socket
<1>2. PICK l \in {0, 1} : \A x \in DOMAIN inbox'[e] :
          \/ x + l \in DOMAIN inbox[e] /\ inbox'[e][x] = inbox[e][x + l]
          \/ e = to /\ x = Len(inbox'[e]) /\ inbox'[e][x] = m
      BY DEF Moves, Socket
<1>3. i \in Int /\ j \in Int
      BY DEF Socket
<1>4. \/ /\ i + k \in DOMAIN inbox[d] /\ inbox'[d][i] = inbox[d][i + k]
      \/ d = to /\ i = Len(inbox'[d]) /\ inbox'[d][i] = m
      BY <1>1
<1>5. CASE e = d
  <2>1. \/ /\ j + k \in DOMAIN inbox[d] /\ inbox'[d][j] = inbox[d][j + k]
        \/ d = to /\ j = Len(inbox'[d]) /\ inbox'[d][j] = m
        BY <1>1, <1>5
  <2>2. CASE /\ i + k \in DOMAIN inbox[d] /\ inbox'[d][i] = inbox[d][i + k]
             /\ j + k \in DOMAIN inbox[d] /\ inbox'[d][j] = inbox[d][j + k]
    <3>1. j + k = i + k
          BY <1>5, <2>2
    <3> QED BY <1>3, <1>5, <3>1
  <2> QED BY <1>4, <1>5, <2>1, <2>2
<1>6. CASE e # d
  <2>1. \/ /\ j + l \in DOMAIN inbox[e] /\ inbox'[e][j] = inbox[e][j + l]
        \/ e = to /\ j = Len(inbox'[e]) /\ inbox'[e][j] = m
        BY <1>2
  <2>2. CASE d = to /\ inbox'[d][i] = m
    <3>1. e # to
          BY <1>6, <2>2
    <3>2. j + l \in DOMAIN inbox[e] /\ inbox'[e][j] = inbox[e][j + l]
          BY <2>1, <3>1
    <3>3. to \in GuestSocket /\ Proposes(m)
          BY <2>2
    <3> QED BY <2>2, <3>2, <3>3
  <2>3. CASE i + k \in DOMAIN inbox[d] /\ inbox'[d][i] = inbox[d][i + k]
    <3>1. CASE e = to /\ inbox'[e][j] = m
          BY <2>3, <3>1
    <3>2. CASE j + l \in DOMAIN inbox[e] /\ inbox'[e][j] = inbox[e][j + l]
          BY <1>6, <2>3, <3>2
    <3> QED BY <2>1, <3>1, <3>2
  <2> QED BY <1>4, <2>2, <2>3
<1> QED BY <1>5, <1>6

\* What the guest has heard of grows by what is offered to no one.
LEMMA OfferKept ==
    ASSUME OfferInv, NEW to, NEW m, Moves(to, m), inbox' \in [Socket -> Seq(Packet)],
           \A d \in GuestSocket : \A i \in DOMAIN inbox[d] :
               Proposes(inbox[d][i]) => inbox[d][i].gen \notin Learned',
           to \in GuestSocket /\ Proposes(m) =>
               /\ m.gen \notin Learned'
               /\ \A d \in GuestSocket : \A i \in DOMAIN inbox[d] :
                     Proposes(inbox[d][i]) => inbox[d][i].gen # m.gen
    PROVE  OfferInv'
<1>1. ASSUME NEW d \in GuestSocket, NEW i \in DOMAIN inbox'[d], Proposes(inbox'[d][i])
      PROVE  inbox'[d][i].gen \notin Learned'
      BY <1>1 DEF Moves, Socket
<1>2. ASSUME NEW d \in GuestSocket, NEW i \in DOMAIN inbox'[d], Proposes(inbox'[d][i]),
             NEW e \in GuestSocket, NEW j \in DOMAIN inbox'[e], Proposes(inbox'[e][j]),
             inbox'[e][j].gen = inbox'[d][i].gen
      PROVE  e = d /\ j = i
      BY <1>2, OfferDistinct
<1> QED BY <1>1, <1>2 DEF OfferInv, Proposes

LEMMA FreshKept ==
    ASSUME FreshInv,
           at'["host"] = "gathering" =>
               /\ at["host"] = "gathering" /\ gen'["host"] = gen["host"]
               /\ gen["host"] \notin Learned',
           NEW to, NEW m, Moves(to, m),
           at["host"] = "gathering" /\ m.kind = "ice" => m.gen # gen["host"]
    PROVE  FreshInv'
BY DEF FreshInv, Moves

LEMMA OriginKept ==
    ASSUME OriginInv, NEW to, NEW m, Moves(to, m),
           at'["host"] \in {"asking", "connecting"} =>
               /\ at["host"] \in {"asking", "connecting"}
               /\ gen'["host"] = gen["host"] /\ sock'["host"] = sock["host"]
               /\ to \in GuestSocket => ~Proposes(m)
    PROVE  OriginInv'
BY DEF OriginInv, Moves, Socket

LEMMA RelayKept ==
    ASSUME RelayOnlyInv, NEW to, NEW m, Moves(to, m), relayOnly' = relayOnly,
           relayOnly # {} =>
               /\ linked' = {} /\ gen'["guest"] = Nil
               /\ \A s \in Side : active'[s] = Nil
               /\ "host" \in relayOnly => /\ gen'["host"] = Nil
                                          /\ to \in GuestSocket => ~Proposes(m)
    PROVE  RelayOnlyInv'
BY DEF RelayOnlyInv, Moves, Socket

LEMMA AnsweredBy ==
    ASSUME NEW c, NEW d, NEW g, NEW i \in DOMAIN inbox[c], Proposes(inbox[c][i]),
           inbox[c][i].gen = g, inbox[c][i].from = d, inbox[c][i].to = c
    PROVE  Answered(c, d, g)
BY DEF Answered

\* Neither side begins anything that touches the answer.
LEMMA AnswerKept ==
    ASSUME AnswerInv, PlaceInv, NEW to, NEW m, Moves(to, m),
           inbox' \in [Socket -> Seq(Packet)],
           sock["host"] \in HostSocket \cup {Nil}, sock["guest"] \in GuestSocket \cup {Nil},
           at'["host"] \in {"asking", "connecting"} /\ sess'["host"] = sock'["guest"] =>
               /\ at["host"] \in {"asking", "connecting"} /\ sess["host"] = sock["guest"]
               /\ gen'["host"] = gen["host"]
               /\ sock'["host"] = sock["host"] /\ sock'["guest"] = sock["guest"]
               /\ sess["guest"] # Nil => sess'["guest"] = sess["guest"]
               /\ gen'["guest"] \in {gen["guest"], Nil} /\ gen["host"] # Nil
               /\ at'["host"] = "connecting" =>
                     \/ at["host"] = "connecting"
                     \/ Answered(sock["host"], sock["guest"], gen["host"])
               /\ to \in GuestSocket => ~Proposes(m)
               /\ to = sock["host"] /\ Proposes(m) /\ m.gen = gen["host"] /\ m.to = sock["host"]
                     => gen["guest"] = gen["host"] /\ sess["guest"] = sock["host"]
    PROVE  AnswerInv'
<1> DEFINE c == sock["host"]
           d == sock["guest"]
           g == gen["host"]
<1> SUFFICES ASSUME at'["host"] \in {"asking", "connecting"}, sess'["host"] = sock'["guest"]
             PROVE  /\ \A i, j \in DOMAIN inbox'[d] :
                          /\ i < j
                          /\ Proposes(inbox'[d][i]) /\ inbox'[d][i].gen = g
                          /\ Proposes(inbox'[d][j])
                          => inbox'[d][j].from # c
                    /\ gen'["guest"] = g /\ sess'["guest"] = c => NoOffers(c, d)'
                    /\ at'["host"] = "connecting" \/ Answered(c, d, g)' =>
                          /\ sess'["guest"] = c
                          /\ gen'["guest"] \in {g, Nil}
                          /\ NoOffers(c, d)'
    BY DEF AnswerInv, NoOffers, Answered, Proposes
<1>1. /\ at["host"] \in {"asking", "connecting"} /\ sess["host"] = d
      /\ gen'["host"] = g /\ sock'["host"] = c /\ sock'["guest"] = d
      /\ sess["guest"] # Nil => sess'["guest"] = sess["guest"]
      /\ gen'["guest"] \in {gen["guest"], Nil} /\ g # Nil
      /\ to \in GuestSocket => ~Proposes(m)
      /\ to = c /\ Proposes(m) /\ m.gen = g /\ m.to = c
             => gen["guest"] = g /\ sess["guest"] = c
      /\ at'["host"] = "connecting" => at["host"] = "connecting" \/ Answered(c, d, g)
      OBVIOUS
<1>2. c \in HostSocket /\ d \in GuestSocket
      BY <1>1 DEF PlaceInv, Side, Unconnected, InSession, Attempting, SocketOf
<1>0. c # Nil /\ (gen["guest"] # Nil => sess["guest"] # Nil)
      BY <1>2, SocketAssumption DEF Socket, PlaceInv, Side, InSession
<1>3. /\ \A i, j \in DOMAIN inbox[d] :
             /\ i < j
             /\ Proposes(inbox[d][i]) /\ inbox[d][i].gen = g
             /\ Proposes(inbox[d][j])
             => inbox[d][j].from # c
      /\ gen["guest"] = g /\ sess["guest"] = c => NoOffers(c, d)
      /\ at["host"] = "connecting" \/ Answered(c, d, g) =>
             /\ sess["guest"] = c
             /\ gen["guest"] \in {g, Nil}
             /\ NoOffers(c, d)
      BY <1>1 DEF AnswerInv
<1>4. PICK k \in {0, 1} : \A i \in DOMAIN inbox'[d] :
          \/ i + k \in DOMAIN inbox[d] /\ inbox'[d][i] = inbox[d][i + k]
          \/ d = to /\ inbox'[d][i] = m
      BY <1>2 DEF Moves, Socket
<1>5. \A i \in DOMAIN inbox'[d] : Proposes(inbox'[d][i]) =>
          i + k \in DOMAIN inbox[d] /\ inbox'[d][i] = inbox[d][i + k]
      BY <1>1, <1>2, <1>4
<1>6. \A i, j \in DOMAIN inbox'[d] : i < j => i + k < j + k
  <2>1. inbox'[d] \in Seq(Packet)
        BY <1>2 DEF Socket
  <2>2. DOMAIN inbox'[d] \subseteq Nat
        BY <2>1
  <2>3. \A i, j \in Nat : i < j => i + k < j + k
        OBVIOUS
  <2> QED BY <2>2, <2>3
<1>7. NoOffers(c, d) => NoOffers(c, d)'
      BY <1>1, <1>5 DEF NoOffers
<1>8. Answered(c, d, g)' => Answered(c, d, g) \/ (gen["guest"] = g /\ sess["guest"] = c)
  <2>1. PICK h \in {0, 1} : \A i \in DOMAIN inbox'[c] :
            \/ i + h \in DOMAIN inbox[c] /\ inbox'[c][i] = inbox[c][i + h]
            \/ c = to /\ inbox'[c][i] = m
        BY <1>2 DEF Moves, Socket
  <2>2. SUFFICES ASSUME NEW i \in DOMAIN inbox'[c], Proposes(inbox'[c][i]),
                        inbox'[c][i].gen = g, inbox'[c][i].from = d, inbox'[c][i].to = c
                 PROVE  Answered(c, d, g) \/ (gen["guest"] = g /\ sess["guest"] = c)
        BY <1>1 DEF Answered, Proposes
  <2>3. CASE i + h \in DOMAIN inbox[c] /\ inbox'[c][i] = inbox[c][i + h]
    <3>1. /\ Proposes(inbox[c][i + h]) /\ inbox[c][i + h].gen = g
          /\ inbox[c][i + h].from = d /\ inbox[c][i + h].to = c
          BY <2>2, <2>3 DEF Proposes
    <3>2. i + h \in DOMAIN inbox[c]
          BY <2>3
    <3> QED BY <3>1, <3>2, AnsweredBy
  <2>4. CASE c = to /\ inbox'[c][i] = m
        BY <1>1, <2>2, <2>4
  <2> QED BY <2>1, <2>3, <2>4
<1>9. \A i, j \in DOMAIN inbox'[d] :
          /\ i < j
          /\ Proposes(inbox'[d][i]) /\ inbox'[d][i].gen = g
          /\ Proposes(inbox'[d][j])
          => inbox'[d][j].from # c
      BY <1>3, <1>5, <1>6
<1>10. gen'["guest"] = g /\ sess'["guest"] = c => NoOffers(c, d)'
      BY <1>0, <1>1, <1>3, <1>7
<1>11. at'["host"] = "connecting" \/ Answered(c, d, g)' =>
           /\ sess'["guest"] = c
           /\ gen'["guest"] \in {g, Nil}
           /\ NoOffers(c, d)'
  <2>1. at["host"] = "connecting" \/ Answered(c, d, g) =>
            sess["guest"] = c /\ gen["guest"] \in {g, Nil} /\ NoOffers(c, d)
        BY <1>3
  <2>2. gen["guest"] = g /\ sess["guest"] = c =>
            sess["guest"] = c /\ gen["guest"] \in {g, Nil} /\ NoOffers(c, d)
        BY <1>3
  <2> HIDE DEF c, d, g
  <2> QED BY <1>0, <1>1, <1>7, <1>8, <2>1, <2>2
<1> QED BY <1>9, <1>10, <1>11

-----------------------------------------------------------------------------
(* What the steps do to the sockets.                                         *)

Wired(to, m) ==
    /\ inbox' \in [Socket -> Seq(Packet)]
    /\ \A c \in Socket : Len(inbox'[c]) <= Backlog
    /\ Moves(to, m)

LEMMA SideOfSocket ==
    ASSUME PlaceInv, NEW s \in Side, sock[s] # Nil
    PROVE  sock[s] \in Socket /\ SideOf(sock[s]) = s
BY SocketAssumption DEF PlaceInv, Side, SocketOf, Socket, SideOf

LEMMA Packets ==
    /\ Up \in Packet /\ Down \in Packet
    /\ \A c \in Socket : HelloOf(c) \in Packet
    /\ \A c, d \in Socket, g \in Generation, off \in BOOLEAN : Ice(c, d, g, off) \in Packet
BY DEF Packet, Up, Down, HelloOf, Ice

LEMMA PacketKinds ==
    ASSUME NEW m \in Packet
    PROVE  /\ m.kind \in {"up", "down", "hello", "ice"}
           /\ m.kind = "hello" => m.from \in Socket
           /\ m.kind = "ice" => /\ m.from \in Socket /\ m.to \in Socket
                                /\ m.gen \in Generation /\ m.gen # Nil /\ m.disabled \in BOOLEAN
BY SocketAssumption DEF Packet, Up, Down, HelloOf

LEMMA StillWired ==
    ASSUME SignalingTypeOK, inbox' = inbox, NEW to, NEW m \in Packet
    PROVE  Wired(to, m)
BY MovesBy DEF Wired, SignalingTypeOK

LEMMA TakeWired ==
    ASSUME SignalingTypeOK, NEW s, sock[s] \in Socket, HasMessage(s), Take(s)
    PROVE  Wired(Nil, Down)
<1> DEFINE x == sock[s]
<1>1. inbox \in [Socket -> Seq(Packet)] /\ inbox[x] # <<>> /\ inbox' = [inbox EXCEPT ![x] = Tail(@)]
      BY DEF SignalingTypeOK, HasMessage, Take
<1>2. Tail(inbox[x]) \in Seq(Packet) /\ Len(Tail(inbox[x])) = Len(inbox[x]) - 1
      /\ Len(inbox[x]) \in Nat
      BY <1>1, Boxes, Packets
<1>3. Len(inbox[x]) <= Backlog /\ Backlog \in Nat
      BY SignalingBounds DEF SignalingTypeOK
<1> HIDE DEF x
<1>4. inbox' \in [Socket -> Seq(Packet)]
      BY <1>1, <1>2
<1>5. \A c \in Socket : inbox'[c] = inbox[c] \/ (inbox'[c] = Tail(inbox[c]) /\ inbox[c] # <<>>)
      BY <1>1
<1>6. Len(inbox'[x]) <= Backlog
  <2>1. x \in Socket
        BY DEF x
  <2>2. inbox'[x] = Tail(inbox[x])
        BY <1>1, <2>1
  <2>3. \A n, b \in Nat : n <= b => n - 1 <= b
        OBVIOUS
  <2> QED BY <1>2, <1>3, <2>2, <2>3
<1>7. \A c \in Socket : Len(inbox'[c]) <= Backlog
      BY <1>1, <1>6 DEF SignalingTypeOK
<1>8. Moves(Nil, Down)
      BY <1>1, <1>5, MovesBy, Packets
<1> QED BY <1>4, <1>7, <1>8 DEF Wired

LEMMA DeliverWired ==
    ASSUME SignalingTypeOK, NEW c \in Socket, NEW m \in Packet, inbox' = Delivered(inbox, c, m)
    PROVE  Wired(c, m)
<1>1. inbox \in [Socket -> Seq(Packet)] /\ \A d \in Socket : Len(inbox[d]) <= Backlog
      BY DEF SignalingTypeOK
<1>2. /\ inbox' \in [Socket -> Seq(Packet)]
      /\ \A d \in Socket : Len(inbox'[d]) <= Backlog
      /\ \A d \in Socket \ {c} : inbox'[d] = inbox[d]
      /\ inbox'[c] \in {inbox[c], Append(inbox[c], m)}
      BY <1>1, DeliveredBoxes
<1>3. Moves(c, m)
  <2>1. ASSUME NEW d \in Socket
        PROVE  \/ inbox'[d] = inbox[d]
               \/ d = c /\ inbox'[d] = Append(inbox[d], m)
        BY <1>2
  <2> QED BY <1>1, <2>1, MovesBy
<1> QED BY <1>2, <1>3 DEF Wired

LEMMA SendWired ==
    ASSUME SignalingTypeOK, NEW c, NEW m \in Packet, Send(c, m),
           seat[Peer(SideOf(c))] \in Socket \cup {Nil}
    PROVE  Wired(seat[Peer(SideOf(c))], m) /\ alive' \subseteq alive
BY StillWired, DeliverWired DEF Send

\* The first message is taken and an answer sent.
LEMMA AnswerWired ==
    ASSUME SignalingTypeOK, NEW s, sock[s] \in Socket, HasMessage(s),
           NEW c \in Socket, NEW m \in Packet,
           inbox' = Delivered([inbox EXCEPT ![sock[s]] = Tail(@)], c, m)
    PROVE  Wired(c, m)
<1> DEFINE x == sock[s]
           rest == [inbox EXCEPT ![x] = Tail(@)]
<1>1. inbox \in [Socket -> Seq(Packet)] /\ inbox[x] # <<>> /\ x \in Socket
      /\ \A d \in Socket : Len(inbox[d]) <= Backlog
      BY DEF SignalingTypeOK, HasMessage
<1>2. Tail(inbox[x]) \in Seq(Packet) /\ Len(Tail(inbox[x])) = Len(inbox[x]) - 1
      /\ Len(inbox[x]) \in Nat
      BY <1>1, Boxes, Packets
<1>3. Len(inbox[x]) <= Backlog /\ Backlog \in Nat
      BY <1>1, SignalingBounds
<1>4. Len(Tail(inbox[x])) <= Backlog
  <2>1. \A n, b \in Nat : n <= b => n - 1 <= b
        OBVIOUS
  <2> QED BY <1>2, <1>3, <2>1
<1> HIDE DEF x
<1>5. rest \in [Socket -> Seq(Packet)]
      BY <1>1, <1>2
<1>6. rest[x] = Tail(inbox[x]) /\ \A d \in Socket \ {x} : rest[d] = inbox[d]
      BY <1>1
<1> HIDE DEF rest
<1>7. \A d \in Socket : Len(rest[d]) <= Backlog
      BY <1>1, <1>4, <1>6
<1>8. inbox' = Delivered(rest, c, m)
      BY DEF rest, x
<1>9. /\ inbox' \in [Socket -> Seq(Packet)]
      /\ \A d \in Socket : Len(inbox'[d]) <= Backlog
      /\ \A d \in Socket \ {c} : inbox'[d] = rest[d]
      /\ inbox'[c] \in {rest[c], Append(rest[c], m)}
  <2>1. /\ Delivered(rest, c, m) \in [Socket -> Seq(Packet)]
        /\ \A d \in Socket : Len(Delivered(rest, c, m)[d]) <= Backlog
        /\ \A d \in Socket \ {c} : Delivered(rest, c, m)[d] = rest[d]
        /\ Delivered(rest, c, m)[c] \in {rest[c], Append(rest[c], m)}
        BY <1>5, <1>7, DeliveredBoxes, Zenon
  <2> QED BY <1>8, <2>1
<1>10. ASSUME NEW d \in Socket
       PROVE  \/ inbox'[d] = inbox[d]
              \/ inbox'[d] = Tail(inbox[d]) /\ inbox[d] # <<>>
              \/ d = c /\ inbox'[d] = Append(inbox[d], m)
              \/ d = c /\ inbox'[d] = Append(Tail(inbox[d]), m) /\ inbox[d] # <<>>
  <2>1. rest[d] = inbox[d] \/ (rest[d] = Tail(inbox[d]) /\ inbox[d] # <<>>)
        BY <1>1, <1>6
  <2>2. inbox'[d] = rest[d] \/ (d = c /\ inbox'[d] = Append(rest[d], m))
        BY <1>9
  <2> QED BY <2>1, <2>2
<1>11. Moves(c, m)
       BY <1>1, <1>10, MovesBy
<1> QED BY <1>9, <1>11 DEF Wired

\* The messages of a socket that is closed are gone.
LEMMA ClearWired ==
    ASSUME SignalingTypeOK, NEW x,
           \/ inbox' = [inbox EXCEPT ![x] = <<>>]
           \/ inbox' = [c \in Socket |-> IF c = x THEN <<>> ELSE inbox[c]]
    PROVE  Wired(Nil, Down)
<1>1. inbox \in [Socket -> Seq(Packet)] /\ \A d \in Socket : Len(inbox[d]) <= Backlog
      BY DEF SignalingTypeOK
<1>2. inbox' \in [Socket -> Seq(Packet)]
  <2>1. <<>> \in Seq(Packet)
        OBVIOUS
  <2> QED BY <1>1, <2>1
<1>3. \A c \in Socket : inbox'[c] = inbox[c] \/ inbox'[c] = <<>>
      BY <1>1
<1>4. Len(<<>>) <= Backlog
      BY SignalingBounds
<1>5. Moves(Nil, Down)
      BY <1>1, <1>3, MovesBy, Packets
<1> QED BY <1>1, <1>2, <1>3, <1>4, <1>5 DEF Wired

-----------------------------------------------------------------------------
(* Steps that no attempt takes part in.                                      *)

LEMMA QuietKeeps ==
    ASSUME PathInv, SignalingTypeOK', PlaceInv', NEW to, NEW m, Wired(to, m), ~Proposes(m),
           at["host"] = "gathering" /\ m.kind = "ice" => m.gen # gen["host"],
           UNCHANGED <<relayOnly, gen, iceVars>>,
           \A s \in Side : at'[s] = at[s] \/ {at[s], at'[s]} \cap Attempting = {},
           at'["host"] \in Attempting => sock'["host"] = sock["host"],
           at'["host"] \in Attempting /\ sess'["host"] = sock'["guest"] =>
               /\ sock' = sock /\ sess'["host"] = sess["host"]
               /\ sess["guest"] # Nil => sess'["guest"] = sess["guest"]
    PROVE  PathInv'
<1> USE DEF Attempting
<1>1. /\ PlaceInv /\ OwnInv /\ OfferInv /\ FreshInv /\ LinkedInv /\ OriginInv
      /\ AnswerInv /\ PathsJoin /\ RelayOnlyInv
      /\ gen' = gen /\ agents' = agents /\ active' = active /\ path' = path /\ linked' = linked
      /\ relayOnly' = relayOnly /\ Moves(to, m) /\ inbox' \in [Socket -> Seq(Packet)]
      /\ ~Proposes(m)
      BY DEF PathInv, iceVars, Wired
<1>2. OwnInv'
      BY <1>1 DEF OwnInv, AgentsAccounted
<1>3. PathsJoin'
      BY <1>1 DEF PathsJoin, Side, Peer
<1>4. LinkedInv'
      BY <1>1, SocketAssumption DEF LinkedInv, PlaceInv, PathInv, SignalingTypeOK
<1>5. OfferInv'
  <2>1. \A d \in GuestSocket : \A i \in DOMAIN inbox[d] :
            Proposes(inbox[d][i]) => inbox[d][i].gen \notin Learned'
        BY <1>1 DEF OfferInv, Learned
  <2> QED BY <1>1, <2>1, OfferKept
<1>6. FreshInv'
  <2>1. at'["host"] = "gathering" => at["host"] = "gathering"
        BY DEF Side
  <2>2. at["host"] = "gathering" => gen["host"] \notin Learned
        BY <1>1 DEF FreshInv
  <2>3. at'["host"] = "gathering" =>
            /\ at["host"] = "gathering" /\ gen'["host"] = gen["host"]
            /\ gen["host"] \notin Learned'
        BY <1>1, <2>1, <2>2 DEF Learned
  <2>4. at["host"] = "gathering" /\ m.kind = "ice" => m.gen # gen["host"]
        OBVIOUS
  <2> QED BY <1>1, <2>3, <2>4, FreshKept
<1>7. OriginInv'
  <2>1. at'["host"] \in {"asking", "connecting"} => at["host"] \in {"asking", "connecting"}
        BY DEF Side
  <2> QED BY <1>1, <2>1, OriginKept
<1>8. RelayOnlyInv'
  <2>1. relayOnly # {} =>
            /\ linked = {} /\ gen["guest"] = Nil
            /\ \A s \in Side : active[s] = Nil
            /\ "host" \in relayOnly => gen["host"] = Nil
        BY <1>1 DEF RelayOnlyInv
  <2> QED BY <1>1, <2>1, RelayKept
<1>9. AnswerInv'
  <2>1. at'["host"] \in {"asking", "connecting"} => at'["host"] = at["host"]
        BY DEF Side
  <2>2. at["host"] \in {"asking", "connecting"} => gen["host"] # Nil
        BY <1>1 DEF PlaceInv, Side
  <2>3. sock["host"] \in HostSocket \cup {Nil} /\ sock["guest"] \in GuestSocket \cup {Nil}
        BY <1>1 DEF PlaceInv, Side, SocketOf
  <2> QED BY <1>1, <2>1, <2>2, <2>3, AnswerKept
<1> QED BY <1>1, <1>2, <1>3, <1>4, <1>5, <1>6, <1>7, <1>8, <1>9 DEF PathInv

LEMMA PlaceKept ==
    ASSUME PlaceInv, NEW s \in Side,
           \A t \in Side \ {s} : /\ at'[t] = at[t] /\ sock'[t] = sock[t] /\ seat'[t] = seat[t]
                                 /\ gen'[t] = gen[t] /\ sess'[t] = sess[t],
           s = "guest" => at'[s] \notin {"checking", "asking", "resting", "quiet"},
           s = "host" => at'[s] # "listening",
           sock'[s] \in SocketOf(s) \cup {Nil}, seat'[s] \in SocketOf(s) \cup {Nil},
           sock'[s] = Nil <=> at'[s] \in Unconnected,
           gen'[s] # Nil <=> at'[s] \in Attempting,
           sess'[s] # Nil <=> at'[s] \in InSession
    PROVE  PlaceInv'
<1>1. \A t \in Side :
        /\ sock'[t] \in SocketOf(t) \cup {Nil}
        /\ seat'[t] \in SocketOf(t) \cup {Nil}
        /\ sock'[t] = Nil <=> at'[t] \in Unconnected
        /\ gen'[t] # Nil <=> at'[t] \in Attempting
        /\ sess'[t] # Nil <=> at'[t] \in InSession
      BY DEF PlaceInv
<1>2. /\ at'["guest"] \notin {"checking", "asking", "resting", "quiet"}
      /\ at'["host"] # "listening"
      BY DEF PlaceInv, Side
<1> QED BY <1>1, <1>2 DEF PlaceInv

LEMMA SeatOfPeer ==
    ASSUME SignalingTypeOK, NEW c
    PROVE  seat[Peer(SideOf(c))] \in Socket \cup {Nil}
BY DEF SignalingTypeOK, Peer, SideOf, Side

LEMMA FaultTyped ==
    ASSUME faults \in 0..MaxFaults, Fault \/ faults' = faults
    PROVE  faults' \in 0..MaxFaults
BY SignalingBounds DEF Fault

LEMMA OverflownAlive == \A c : Overflown(c) \subseteq alive
BY DEF Overflown

LEMMA AnnounceKeeps ==
    ASSUME PathInv, NEW c \in Socket, Announce(c)
    PROVE  PathInv'
<1>1. SignalingTypeOK /\ PlaceInv
      BY DEF PathInv
<1>2. news \in [Socket -> Seq(Socket)] /\ news[c] # <<>>
      BY <1>1 DEF SignalingTypeOK, Announce
<1>3. Head(news[c]) \in Socket /\ Tail(news[c]) \in Seq(Socket)
      BY <1>2
<1>4. Wired(Head(news[c]), Up)
      BY <1>1, <1>3, DeliverWired, Packets DEF Announce
<1>5. SignalingTypeOK'
  <2>1. news' \in [Socket -> Seq(Socket)]
        BY <1>2, <1>3 DEF Announce
  <2>2. alive' \subseteq Socket
        BY <1>1 DEF Announce, SignalingTypeOK
  <2> QED BY <1>1, <1>4, <2>1, <2>2 DEF Announce, SignalingTypeOK, Wired, clientVars, iceVars
<1>6. PlaceInv'
      BY <1>1 DEF PlaceInv, Announce, clientVars
<1> QED BY <1>4, <1>5, <1>6, QuietKeeps DEF Announce, clientVars, iceVars, Up, Proposes,
               Proposes

LEMMA VacateKeeps ==
    ASSUME PathInv, NEW c \in Socket, Vacate(c)
    PROVE  PathInv'
<1> DEFINE other == seat[Peer(SideOf(c))]
<1>1. SignalingTypeOK /\ PlaceInv
      BY DEF PathInv
<1>2. Wired(other, Down)
      BY <1>1, SeatOfPeer, StillWired, DeliverWired, Packets DEF Vacate
<1>3. SignalingTypeOK'
  <2>1. seat' \in [Side -> Socket \cup {Nil}]
        BY <1>1 DEF Vacate, SignalingTypeOK, SideOf, Side
  <2>2. alive' \subseteq Socket
        BY <1>1 DEF Vacate, SignalingTypeOK
  <2> QED BY <1>1, <1>2, <2>1, <2>2 DEF Vacate, SignalingTypeOK, Wired, clientVars, iceVars
<1>4. PlaceInv'
      BY <1>1 DEF PlaceInv, Vacate, clientVars
<1> QED BY <1>2, <1>3, <1>4, QuietKeeps DEF Vacate, clientVars, iceVars, Down, Proposes

LEMMA BreaksKeeps ==
    ASSUME PathInv, NEW c \in Socket, SocketBreaks(c)
    PROVE  PathInv'
<1>1. SignalingTypeOK /\ PlaceInv
      BY DEF PathInv
<1>2. Wired(Nil, Down)
      BY <1>1, StillWired, Packets DEF SocketBreaks
<1>3. SignalingTypeOK'
      BY <1>1, FaultTyped DEF SocketBreaks, SignalingTypeOK, clientVars, iceVars
<1>4. PlaceInv'
      BY <1>1 DEF PlaceInv, SocketBreaks, clientVars
<1> QED BY <1>2, <1>3, <1>4, QuietKeeps DEF SocketBreaks, clientVars, iceVars, Down, Proposes

LEMMA SkipUpKeeps ==
    ASSUME PathInv, NEW s \in Side, SkipUp(s)
    PROVE  PathInv'
<1>1. SignalingTypeOK /\ PlaceInv
      BY DEF PathInv
<1>2. sock[s] \in Socket
      BY <1>1 DEF PlaceInv, SkipUp, Reading, Unconnected, SocketOf, Socket
<1>3. Wired(Nil, Down)
      BY <1>1, <1>2, TakeWired DEF SkipUp
<1>4. SignalingTypeOK'
      BY <1>1, <1>3 DEF SkipUp, SignalingTypeOK, Wired, clientVars, iceVars
<1>5. PlaceInv'
      BY <1>1 DEF PlaceInv, SkipUp, clientVars
<1> QED BY <1>3, <1>4, <1>5, QuietKeeps DEF SkipUp, clientVars, iceVars, Down, Proposes

LEMMA DialKeeps ==
    ASSUME PathInv, NEW s \in Side, NEW c \in SocketOf(s), Dial(s, c)
    PROVE  PathInv'
<1>1. SignalingTypeOK /\ PlaceInv /\ c \in Socket /\ s \in {"host", "guest"}
      BY DEF PathInv, SocketOf, Socket, Side
<1>2. /\ at[s] = "dialing" /\ Unused(c)
      /\ at' = [at EXCEPT ![s] = "waiting"] /\ sock' = [sock EXCEPT ![s] = c]
      /\ sess' = sess /\ gen' = gen /\ alive' = alive \cup {c} /\ inbox' = inbox
      /\ seat' = [seat EXCEPT ![s] = c] /\ relayOnly' = relayOnly
      /\ replaced' = (replaced \/ seat[s] # Nil)
      /\ news' = [news EXCEPT ![c] = IF Taken(Peer(s)) THEN <<c, seat[Peer(s)]>> ELSE <<>>]
      /\ UNCHANGED iceVars
      BY DEF Dial
<1>3. Wired(Nil, Down)
      BY <1>1, <1>2, StillWired, Packets
<1>4. SignalingTypeOK'
  <2>1. news' \in [Socket -> Seq(Socket)]
    <3>1. Taken(Peer(s)) => seat[Peer(s)] \in Socket
          BY <1>1, SocketAssumption DEF SignalingTypeOK, Taken, Peer, Side
    <3>2. <<c, seat[Peer(s)]>> \in Seq(Socket) \/ ~Taken(Peer(s))
          BY <1>1, <3>1
    <3>3. <<>> \in Seq(Socket)
          OBVIOUS
    <3>4. news \in [Socket -> Seq(Socket)]
          BY <1>1 DEF SignalingTypeOK
    <3> QED BY <1>1, <1>2, <3>2, <3>3, <3>4
  <2>2. faults' \in 0..MaxFaults
        BY <1>1, FaultTyped DEF Dial, SignalingTypeOK
  <2>3. at' \in [Side -> {"dialing", "waiting", "greeting", "checking", "gathering", "asking",
                          "connecting", "resting", "listening", "quiet", "pausing", "gone"}]
        /\ sock' \in [Side -> Socket \cup {Nil}] /\ seat' \in [Side -> Socket \cup {Nil}]
        BY <1>1, <1>2 DEF SignalingTypeOK
  <2>4. replaced' \in BOOLEAN
        BY <1>1, <1>2 DEF SignalingTypeOK
  <2>5. alive' \subseteq Socket
        BY <1>1, <1>2 DEF SignalingTypeOK
  <2> QED BY <1>1, <1>2, <1>3, <2>1, <2>2, <2>3, <2>4, <2>5 DEF SignalingTypeOK, Wired, iceVars
<1>5. PlaceInv'
  <2>1. /\ at'[s] = "waiting" /\ sock'[s] = c
        /\ \A t \in Side \ {s} : at'[t] = at[t] /\ sock'[t] = sock[t]
        /\ seat'[s] = c /\ \A t \in Side \ {s} : seat'[t] = seat[t]
        BY <1>1, <1>2 DEF SignalingTypeOK
  <2>2. c # Nil /\ gen[s] = Nil /\ sess[s] = Nil
        BY <1>1, <1>2, SocketAssumption DEF PlaceInv, Attempting, InSession
  <2> QED BY <1>1, <1>2, <2>1, <2>2
          DEF PlaceInv, Side, SocketOf, Socket, Attempting, Unconnected, InSession
<1>6. c # sess["host"] /\ c # sess["guest"]
      BY <1>2 DEF Unused, Side
<1>7. /\ \A t \in Side : at'[t] = at[t] \/ {at[t], at'[t]} \cap Attempting = {}
      /\ at'["host"] \in Attempting => sock'["host"] = sock["host"]
      /\ at'["host"] \in Attempting /\ sess'["host"] = sock'["guest"] => sock' = sock
      BY <1>1, <1>2, <1>6 DEF SignalingTypeOK, Side, Attempting
<1> QED BY <1>1, <1>2, <1>3, <1>4, <1>5, <1>7, QuietKeeps DEF Down, Proposes

\* The steps between the sockets of a side.
LEMMA PauseKeeps ==
    ASSUME PathInv, NEW s \in Side, DialRefused(s) \/ Redial(s) \/ Start(s)
    PROVE  PathInv'
<1>1. SignalingTypeOK /\ PlaceInv /\ s \in {"host", "guest"}
      BY DEF PathInv, Side
<1>2. /\ at[s] \in {"dialing", "pausing", "gone"}
      /\ \E a \in {"dialing", "pausing"} : at' = [at EXCEPT ![s] = a]
      /\ UNCHANGED <<relayOnly, replaced, sock, sess, gen, iceVars, netVars>>
      /\ Fault \/ faults' = faults
      BY DEF DialRefused, Redial, Start
<1>3. Wired(Nil, Down)
      BY <1>1, <1>2, StillWired, Packets DEF netVars
<1>4. /\ at'[s] \in {"dialing", "pausing"} /\ \A t \in Side \ {s} : at'[t] = at[t]
      /\ at' \in [Side -> {"dialing", "waiting", "greeting", "checking", "gathering", "asking",
                           "connecting", "resting", "listening", "quiet", "pausing", "gone"}]
      BY <1>1, <1>2 DEF SignalingTypeOK
<1>5. SignalingTypeOK'
      BY <1>1, <1>2, <1>4, FaultTyped DEF SignalingTypeOK, iceVars, netVars
<1>6. PlaceInv'
  <2>1. sock[s] = Nil /\ gen[s] = Nil /\ sess[s] = Nil /\ seat[s] \in SocketOf(s) \cup {Nil}
        BY <1>1, <1>2 DEF PlaceInv, Attempting, Unconnected, InSession
  <2> QED BY <1>1, <1>2, <1>4, <2>1, PlaceKept
          DEF Attempting, Unconnected, InSession, netVars
<1>7. \A t \in Side : at'[t] = at[t] \/ {at[t], at'[t]} \cap Attempting = {}
      BY <1>2, <1>4 DEF Attempting
<1> QED BY <1>2, <1>3, <1>5, <1>6, <1>7, QuietKeeps DEF Down, Proposes

LEMMA RestKeeps ==
    ASSUME PathInv, Rest
    PROVE  PathInv'
<1>1. SignalingTypeOK /\ PlaceInv
      BY DEF PathInv
<1>2. /\ at["host"] = "resting" /\ at' = [at EXCEPT !["host"] = "checking"]
      /\ UNCHANGED <<relayOnly, replaced, sock, sess, gen, iceVars, netVars, faults>>
      BY DEF Rest
<1>3. Wired(Nil, Down)
      BY <1>1, <1>2, StillWired, Packets DEF netVars
<1>4. /\ at'["host"] = "checking" /\ at'["guest"] = at["guest"]
      /\ at' \in [Side -> {"dialing", "waiting", "greeting", "checking", "gathering", "asking",
                           "connecting", "resting", "listening", "quiet", "pausing", "gone"}]
      BY <1>1, <1>2 DEF SignalingTypeOK, Side
<1>5. SignalingTypeOK'
      BY <1>1, <1>2, <1>4 DEF SignalingTypeOK, iceVars, netVars
<1>6. PlaceInv'
  <2>1. /\ sock["host"] # Nil /\ gen["host"] = Nil /\ sess["host"] # Nil /\ "host" \in Side
        /\ sock["host"] \in SocketOf("host") \cup {Nil}
        /\ seat["host"] \in SocketOf("host") \cup {Nil}
        BY <1>1, <1>2 DEF PlaceInv, Attempting, Unconnected, InSession, Side
  <2> QED BY <1>1, <1>2, <1>4, <2>1, PlaceKept
          DEF Attempting, Unconnected, InSession, netVars
<1>7. \A t \in Side : at'[t] = at[t] \/ {at[t], at'[t]} \cap Attempting = {}
      BY <1>2, <1>4 DEF Attempting, Side
<1> QED BY <1>2, <1>3, <1>5, <1>6, <1>7, QuietKeeps DEF Down, Proposes, Attempting

LEMMA WaitPeerKeeps ==
    ASSUME PathInv, NEW s \in Side, WaitPeer(s)
    PROVE  PathInv'
<1> DEFINE to == seat[Peer(s)]
           m == HelloOf(sock[s])
<1>1. SignalingTypeOK /\ PlaceInv /\ s \in {"host", "guest"}
      BY DEF PathInv, Side
<1>2. /\ at[s] = "waiting" /\ HasMessage(s) /\ at' = [at EXCEPT ![s] = "greeting"]
      /\ UNCHANGED <<relayOnly, replaced, sock, sess, gen, iceVars, seat, news>>
      /\ Fault \/ faults' = faults
      BY DEF WaitPeer
<1>3. sock[s] \in Socket
      BY <1>1, <1>2 DEF PlaceInv, Unconnected, SocketOf, Socket
<1>4. /\ \/ to \in Socket /\ inbox' = Delivered([inbox EXCEPT ![sock[s]] = Tail(@)], to, m)
         \/ Take(s)
      /\ alive' \subseteq alive
  <2>1. to \in Socket \cup {Nil}
        BY <1>1 DEF SignalingTypeOK, Peer, Side
  <2> QED BY <2>1 DEF WaitPeer, Take
<1>5. \E x, y : Wired(x, y) /\ y.kind # "ice"
  <2>1. m \in Packet /\ m.kind # "ice" /\ Down.kind # "ice"
        BY <1>3, Packets DEF HelloOf, Down
  <2>2. CASE Take(s)
        BY <1>1, <1>2, <1>3, <2>1, <2>2, TakeWired
  <2>3. CASE to \in Socket /\ inbox' = Delivered([inbox EXCEPT ![sock[s]] = Tail(@)], to, m)
        BY <1>1, <1>2, <1>3, <2>1, <2>3, AnswerWired
  <2> QED BY <1>4, <2>2, <2>3
<1>6. /\ at'[s] = "greeting" /\ \A t \in Side \ {s} : at'[t] = at[t]
      /\ at' \in [Side -> {"dialing", "waiting", "greeting", "checking", "gathering", "asking",
                           "connecting", "resting", "listening", "quiet", "pausing", "gone"}]
      BY <1>1, <1>2 DEF SignalingTypeOK
<1>7. SignalingTypeOK'
      BY <1>1, <1>2, <1>4, <1>5, <1>6, FaultTyped DEF SignalingTypeOK, iceVars, Wired
<1>8. PlaceInv'
      BY <1>1, <1>2, <1>6 DEF PlaceInv, Side, Attempting, Unconnected, InSession
<1>9. \A t \in Side : at'[t] = at[t] \/ {at[t], at'[t]} \cap Attempting = {}
      BY <1>2, <1>6 DEF Attempting
<1> QED BY <1>2, <1>5, <1>7, <1>8, <1>9, QuietKeeps DEF Proposes

LEMMA GreetedKeeps ==
    ASSUME PathInv, NEW s \in Side, Greeted(s)
    PROVE  PathInv'
<1>1. SignalingTypeOK /\ PlaceInv /\ s \in {"host", "guest"}
      BY DEF PathInv, Side
<1>2. /\ at[s] = "greeting" /\ HasMessage(s) /\ Message(s).kind = "hello" /\ Take(s)
      /\ sess' = [sess EXCEPT ![s] = Message(s).from]
      /\ at' = [at EXCEPT ![s] = IF s = "host" THEN "checking" ELSE "listening"]
      /\ UNCHANGED <<relayOnly, replaced, sock, gen, iceVars, alive, seat, news, faults>>
      BY DEF Greeted
<1>3. sock[s] \in Socket
      BY <1>1, <1>2 DEF PlaceInv, Unconnected, SocketOf, Socket
<1>4. Wired(Nil, Down)
      BY <1>1, <1>2, <1>3, TakeWired
<1>5. Message(s).from \in Socket
  <2>1. inbox[sock[s]] \in Seq(Packet) /\ inbox[sock[s]] # <<>>
        BY <1>1, <1>2, <1>3 DEF SignalingTypeOK, HasMessage
  <2>2. Message(s) \in Packet
        BY <2>1 DEF Message
  <2> QED BY <1>2, <2>2, PacketKinds
<1>6. /\ at'[s] = IF s = "host" THEN "checking" ELSE "listening"
      /\ \A t \in Side \ {s} : at'[t] = at[t] /\ sess'[t] = sess[t]
      /\ at' \in [Side -> {"dialing", "waiting", "greeting", "checking", "gathering", "asking",
                           "connecting", "resting", "listening", "quiet", "pausing", "gone"}]
      /\ sess'[s] = Message(s).from /\ sess' \in [Side -> Socket \cup {Nil}]
      BY <1>1, <1>2, <1>5 DEF SignalingTypeOK
<1>7. SignalingTypeOK'
      BY <1>1, <1>2, <1>4, <1>6 DEF SignalingTypeOK, iceVars, Wired
<1>8. sess[s] = Nil /\ sess'[s] # Nil
      BY <1>1, <1>2, <1>5, <1>6, SocketAssumption DEF PlaceInv, InSession, Attempting
<1>9. PlaceInv'
      BY <1>1, <1>2, <1>6, <1>8 DEF PlaceInv, Side, Attempting, Unconnected, InSession
<1>10. \A t \in Side : at'[t] = at[t] \/ {at[t], at'[t]} \cap Attempting = {}
      BY <1>2, <1>6 DEF Attempting
<1>11. at'["host"] \in Attempting /\ sess'["host"] = sock'["guest"] =>
           /\ sess'["host"] = sess["host"]
           /\ sess["guest"] # Nil => sess'["guest"] = sess["guest"]
       BY <1>1, <1>6, <1>8 DEF Attempting, Side
<1> QED BY <1>2, <1>4, <1>7, <1>9, <1>10, <1>11, QuietKeeps DEF Down, Proposes

-----------------------------------------------------------------------------
(* Steps that end an attempt.                                                *)

LEMMA LeaveKeeps ==
    ASSUME PathInv, NEW s \in Side, SignalingTypeOK', PlaceInv', OwnInv', PathsJoin',
           Wired(Nil, Down), relayOnly' = relayOnly, linked' = linked,
           at'[s] \notin InSession, gen'[s] = Nil,
           \A t \in Side \ {s} :
               at'[t] = at[t] /\ sock'[t] = sock[t] /\ sess'[t] = sess[t] /\ gen'[t] = gen[t],
           sock'[s] = Nil, sess'[s] = Nil,
           \A t \in Side : active'[t] \in {active[t], Nil}
    PROVE  PathInv'
<1> USE DEF Attempting, InSession
<1>1. /\ SignalingTypeOK /\ PlaceInv /\ OfferInv /\ FreshInv /\ LinkedInv /\ OriginInv
      /\ AnswerInv /\ RelayOnlyInv /\ s \in {"host", "guest"}
      /\ Moves(Nil, Down) /\ inbox' \in [Socket -> Seq(Packet)] /\ ~Proposes(Down)
      /\ Down.kind # "ice" /\ linked' = linked
      BY DEF PathInv, Wired, Proposes, Down, Side
<1>2. /\ at'["host"] \in Attempting =>
             s = "guest" /\ at'["host"] = at["host"] /\ gen'["host"] = gen["host"]
             /\ sock'["host"] = sock["host"] /\ sess'["host"] = sess["host"]
      /\ gen'["guest"] \in {gen["guest"], Nil}
      /\ active'["guest"] \in {active["guest"], Nil}
      BY <1>1 DEF Side
<1>3. Learned' \subseteq Learned \cup {Nil}
      BY <1>1, <1>2 DEF Learned
<1>4. LinkedInv'
      BY <1>1, SocketAssumption DEF LinkedInv, SignalingTypeOK
<1>5. OfferInv'
  <2>1. ASSUME NEW d \in GuestSocket, NEW i \in DOMAIN inbox[d], Proposes(inbox[d][i])
        PROVE  inbox[d][i].gen \notin Learned'
    <3>1. inbox[d][i] \in Packet
          BY <1>1 DEF SignalingTypeOK, Socket
    <3>2. inbox[d][i].gen # Nil
          BY <2>1, <3>1, PacketKinds DEF Proposes
    <3> QED BY <1>1, <1>3, <2>1, <3>2 DEF OfferInv
  <2>2. Nil \in GuestSocket => FALSE
        BY SocketAssumption DEF Socket
  <2> QED BY <1>1, <2>1, <2>2, OfferKept
<1>6. FreshInv'
  <2>1. at'["host"] = "gathering" =>
            /\ at["host"] = "gathering" /\ gen'["host"] = gen["host"]
            /\ gen["host"] \notin Learned'
    <3>1. at'["host"] = "gathering" => at["host"] = "gathering" /\ gen["host"] # Nil
          BY <1>1, <1>2 DEF PlaceInv, Side
    <3> QED BY <1>1, <1>2, <1>3, <3>1 DEF FreshInv
  <2> QED BY <1>1, <2>1, FreshKept
<1>7. OriginInv'
      BY <1>1, <1>2, OriginKept
<1>8. RelayOnlyInv'
  <2>1. relayOnly # {} =>
            /\ linked = {} /\ gen["guest"] = Nil
            /\ \A t \in Side : active[t] = Nil
            /\ "host" \in relayOnly => gen["host"] = Nil
        BY <1>1 DEF RelayOnlyInv
  <2>2. gen'["host"] \in {gen["host"], Nil}
        BY <1>1 DEF Side
  <2>3. relayOnly # {} =>
            /\ linked' = {} /\ gen'["guest"] = Nil
            /\ \A t \in Side : active'[t] = Nil
            /\ "host" \in relayOnly => gen'["host"] = Nil
        BY <1>1, <1>2, <2>1, <2>2
  <2> QED BY <1>1, <2>3, RelayKept
<1>9. AnswerInv'
  <2>1. at["host"] \in {"asking", "connecting"} => gen["host"] # Nil /\ sess["host"] # Nil
        BY <1>1 DEF PlaceInv, Side
  <2>2. sock["host"] \in HostSocket \cup {Nil} /\ sock["guest"] \in GuestSocket \cup {Nil}
        BY <1>1 DEF PlaceInv, Side, SocketOf
  <2>3. at'["host"] \in {"asking", "connecting"} /\ sess'["host"] = sock'["guest"] => FALSE
        BY <1>1, <1>2, <2>1
  <2> QED BY <1>1, <1>2, <2>1, <2>2, <2>3, AnswerKept
<1> QED BY <1>1, <1>4, <1>5, <1>6, <1>7, <1>8, <1>9 DEF PathInv

LEMMA GiveUpKeeps ==
    ASSUME PathInv, NEW s \in Side, GiveUp(s), Fault \/ faults' = faults
    PROVE  PathInv'
<1>1. /\ SignalingTypeOK /\ PlaceInv /\ OwnInv /\ AgentsAccounted /\ PathsJoin
      /\ s \in {"host", "guest"}
      BY DEF PathInv, OwnInv, Side
<1>2. /\ at' = [at EXCEPT ![s] = "pausing"] /\ sock' = [sock EXCEPT ![s] = Nil]
      /\ sess' = [sess EXCEPT ![s] = Nil] /\ gen' = [gen EXCEPT ![s] = Nil]
      /\ agents' = agents \ ({s} \X {gen[s]}) /\ alive' = alive \ {sock[s]}
      /\ UNCHANGED <<relayOnly, replaced, active, path, linked, seat, news>>
      BY DEF GiveUp, CloseAgents
<1>3. Wired(Nil, Down)
      BY <1>1, ClearWired DEF GiveUp
<1>4. /\ at'[s] = "pausing" /\ sock'[s] = Nil /\ sess'[s] = Nil /\ gen'[s] = Nil
      /\ \A t \in Side \ {s} : /\ at'[t] = at[t] /\ sock'[t] = sock[t]
                               /\ sess'[t] = sess[t] /\ gen'[t] = gen[t]
      BY <1>1, <1>2 DEF SignalingTypeOK
<1>5. SignalingTypeOK'
  <2>1. /\ at' \in [Side -> {"dialing", "waiting", "greeting", "checking", "gathering", "asking",
                             "connecting", "resting", "listening", "quiet", "pausing", "gone"}]
        /\ sock' \in [Side -> Socket \cup {Nil}] /\ sess' \in [Side -> Socket \cup {Nil}]
        /\ gen' \in [Side -> Generation \cup {Nil}]
        BY <1>1, <1>2 DEF SignalingTypeOK
  <2>2. agents' \subseteq Side \X Generation /\ alive' \subseteq Socket
        BY <1>1, <1>2 DEF SignalingTypeOK
  <2> QED BY <1>1, <1>2, <1>3, <2>1, <2>2, FaultTyped DEF SignalingTypeOK, Wired
<1>6. PlaceInv'
  <2>1. seat[s] \in SocketOf(s) \cup {Nil}
        BY <1>1 DEF PlaceInv
  <2> QED BY <1>1, <1>2, <1>4, <2>1, PlaceKept DEF Attempting, Unconnected, InSession
<1>7. \A t \in Side : \A g : <<t, g>> \in agents' <=>
          <<t, g>> \in agents /\ (t # s \/ g # gen[s])
      BY <1>2
<1>8. OwnInv'
  <2>1. ASSUME NEW t \in Side
        PROVE  /\ \A g \in Generation : <<t, g>> \in agents' => g \in {gen'[t], active'[t]}
               /\ path'[t] # Nil => path'[t] = active'[t] /\ <<t, path'[t]>> \in agents'
               /\ gen'[t] # Nil => gen'[t] # active'[t] /\ <<t, gen'[t]>> \in agents'
               /\ active'[t] # Nil /\ path'[t] = Nil => <<t, active'[t]>> \notin agents'
               /\ path'[t] # Nil => path'[t] \in linked'
    <3>1. /\ \A g \in Generation : <<t, g>> \in agents => g \in {gen[t], active[t]}
          /\ path[t] # Nil => path[t] = active[t] /\ <<t, path[t]>> \in agents
          /\ gen[t] # Nil => gen[t] # active[t] /\ <<t, gen[t]>> \in agents
          /\ active[t] # Nil /\ path[t] = Nil => <<t, active[t]>> \notin agents
          /\ path[t] # Nil => path[t] \in linked
          BY <1>1 DEF OwnInv, AgentsAccounted
    <3>2. t = s \/ gen'[t] = gen[t]
          BY <1>4
    <3> QED BY <1>2, <1>4, <1>7, <3>1, <3>2
  <2>2. gen'["host"] # Nil => path'["host"] = Nil
        BY <1>1, <1>2, <1>4 DEF OwnInv, Side
  <2> QED BY <2>1, <2>2 DEF OwnInv, AgentsAccounted
<1>9. PathsJoin'
  <2>1. ASSUME NEW t \in Side, path'[t] # Nil, <<Peer(t), path'[t]>> \in agents'
        PROVE  \/ path'[Peer(t)] = path'[t]
               \/ gen'[Peer(t)] = path'[t] /\ at'[Peer(t)] = "connecting"
    <3>1. path[t] # Nil /\ <<Peer(t), path[t]>> \in agents /\ Peer(t) \in Side
          /\ (Peer(t) # s \/ path[t] # gen[s])
          BY <1>2, <1>7, <2>1 DEF Peer, Side
    <3>2. \/ path[Peer(t)] = path[t]
          \/ gen[Peer(t)] = path[t] /\ at[Peer(t)] = "connecting"
          BY <1>1, <3>1 DEF PathsJoin
    <3> QED BY <1>2, <1>4, <3>1, <3>2
  <2> QED BY <2>1 DEF PathsJoin
<1> QED BY <1>2, <1>3, <1>4, <1>5, <1>6, <1>8, <1>9, LeaveKeeps
        DEF InSession, Attempting

LEMMA StopKeeps ==
    ASSUME PathInv, NEW s \in Side, Stop(s)
    PROVE  PathInv'
<1>1. /\ SignalingTypeOK /\ PlaceInv /\ OwnInv /\ AgentsAccounted /\ PathsJoin
      /\ s \in {"host", "guest"}
      BY DEF PathInv, OwnInv, Side
<1>2. /\ at' = [at EXCEPT ![s] = "gone"] /\ sock' = [sock EXCEPT ![s] = Nil]
      /\ sess' = [sess EXCEPT ![s] = Nil] /\ gen' = [gen EXCEPT ![s] = Nil]
      /\ active' = [active EXCEPT ![s] = Nil] /\ path' = [path EXCEPT ![s] = Nil]
      /\ agents' = agents \ ({s} \X {gen[s], active[s]}) /\ alive' = alive \ {sock[s]}
      /\ UNCHANGED <<relayOnly, replaced, linked, seat, news>> /\ Fault
      BY DEF Stop, CloseAgents
<1>3. Wired(Nil, Down)
      BY <1>1, ClearWired DEF Stop
<1>4. /\ at'[s] = "gone" /\ sock'[s] = Nil /\ sess'[s] = Nil /\ gen'[s] = Nil
      /\ active'[s] = Nil /\ path'[s] = Nil
      /\ \A t \in Side \ {s} : /\ at'[t] = at[t] /\ sock'[t] = sock[t]
                               /\ sess'[t] = sess[t] /\ gen'[t] = gen[t]
                               /\ active'[t] = active[t] /\ path'[t] = path[t]
      BY <1>1, <1>2 DEF SignalingTypeOK
<1>5. SignalingTypeOK'
  <2>1. /\ at' \in [Side -> {"dialing", "waiting", "greeting", "checking", "gathering", "asking",
                             "connecting", "resting", "listening", "quiet", "pausing", "gone"}]
        /\ sock' \in [Side -> Socket \cup {Nil}] /\ sess' \in [Side -> Socket \cup {Nil}]
        /\ gen' \in [Side -> Generation \cup {Nil}]
        /\ active' \in [Side -> Generation \cup {Nil}] /\ path' \in [Side -> Generation \cup {Nil}]
        BY <1>1, <1>2 DEF SignalingTypeOK
  <2>2. agents' \subseteq Side \X Generation /\ alive' \subseteq Socket
        BY <1>1, <1>2 DEF SignalingTypeOK
  <2> QED BY <1>1, <1>2, <1>3, <2>1, <2>2, FaultTyped DEF SignalingTypeOK, Wired
<1>6. PlaceInv'
  <2>1. seat[s] \in SocketOf(s) \cup {Nil}
        BY <1>1 DEF PlaceInv
  <2> QED BY <1>1, <1>2, <1>4, <2>1, PlaceKept DEF Attempting, Unconnected, InSession
<1>7. \A t \in Side : \A g : <<t, g>> \in agents' <=>
          <<t, g>> \in agents /\ (t # s \/ (g # gen[s] /\ g # active[s]))
      BY <1>2
<1>8. OwnInv'
  <2>1. ASSUME NEW t \in Side
        PROVE  /\ \A g \in Generation : <<t, g>> \in agents' => g \in {gen'[t], active'[t]}
               /\ path'[t] # Nil => path'[t] = active'[t] /\ <<t, path'[t]>> \in agents'
               /\ gen'[t] # Nil => gen'[t] # active'[t] /\ <<t, gen'[t]>> \in agents'
               /\ active'[t] # Nil /\ path'[t] = Nil => <<t, active'[t]>> \notin agents'
               /\ path'[t] # Nil => path'[t] \in linked'
    <3>1. /\ \A g \in Generation : <<t, g>> \in agents => g \in {gen[t], active[t]}
          /\ path[t] # Nil => path[t] = active[t] /\ <<t, path[t]>> \in agents
          /\ gen[t] # Nil => gen[t] # active[t] /\ <<t, gen[t]>> \in agents
          /\ active[t] # Nil /\ path[t] = Nil => <<t, active[t]>> \notin agents
          /\ path[t] # Nil => path[t] \in linked
          BY <1>1 DEF OwnInv, AgentsAccounted
    <3> QED BY <1>2, <1>4, <1>7, <3>1
  <2>2. gen'["host"] # Nil => path'["host"] = Nil
        BY <1>1, <1>2, <1>4 DEF OwnInv, Side
  <2> QED BY <2>1, <2>2 DEF OwnInv, AgentsAccounted
<1>9. PathsJoin'
  <2>1. ASSUME NEW t \in Side, path'[t] # Nil, <<Peer(t), path'[t]>> \in agents'
        PROVE  \/ path'[Peer(t)] = path'[t]
               \/ gen'[Peer(t)] = path'[t] /\ at'[Peer(t)] = "connecting"
    <3>1. path[t] # Nil /\ <<Peer(t), path[t]>> \in agents /\ Peer(t) \in Side /\ t # s
          /\ path'[t] = path[t]
          /\ (Peer(t) # s \/ (path[t] # gen[s] /\ path[t] # active[s]))
          BY <1>4, <1>7, <2>1 DEF Peer, Side
    <3>2. \/ path[Peer(t)] = path[t]
          \/ gen[Peer(t)] = path[t] /\ at[Peer(t)] = "connecting"
          BY <1>1, <3>1 DEF PathsJoin
    <3>3. path[s] # Nil => path[s] = active[s]
          BY <1>1 DEF AgentsAccounted
    <3> QED BY <1>4, <3>1, <3>2, <3>3
  <2> QED BY <2>1 DEF PathsJoin
<1>10. \A t \in Side : active'[t] \in {active[t], Nil}
       BY <1>4
<1> QED BY <1>2, <1>3, <1>4, <1>5, <1>6, <1>8, <1>9, <1>10, LeaveKeeps
        DEF InSession, Attempting

-----------------------------------------------------------------------------
(* Steps of the agents.                                                      *)

LEMMA PathLostKeeps ==
    ASSUME PathInv, NEW s \in Side, PathLost(s)
    PROVE  PathInv'
<1>1. SignalingTypeOK /\ PlaceInv /\ OwnInv /\ AgentsAccounted /\ PathsJoin
      /\ s \in {"host", "guest"} /\ OfferInv /\ FreshInv /\ LinkedInv /\ OriginInv
      /\ AnswerInv /\ RelayOnlyInv
      BY DEF PathInv, OwnInv, Side
<1>2. /\ path[s] # Nil /\ path' = [path EXCEPT ![s] = Nil]
      /\ agents' = agents \ ({s} \X {path[s]})
      /\ UNCHANGED <<relayOnly, replaced, clientVars, active, linked, netVars>>
      /\ Fault \/ faults' = faults
      BY DEF PathLost, CloseAgents
<1>3. path'[s] = Nil /\ \A t \in Side \ {s} : path'[t] = path[t]
      BY <1>1, <1>2 DEF SignalingTypeOK
<1>4. \A t \in Side : \A g : <<t, g>> \in agents' <=>
          <<t, g>> \in agents /\ (t # s \/ g # path[s])
      BY <1>2
<1>5. SignalingTypeOK'
  <2>1. path' \in [Side -> Generation \cup {Nil}] /\ agents' \subseteq Side \X Generation
        BY <1>1, <1>2 DEF SignalingTypeOK
  <2> QED BY <1>1, <1>2, <2>1, FaultTyped DEF SignalingTypeOK, clientVars, netVars
<1>6. OwnInv'
  <2>1. ASSUME NEW t \in Side
        PROVE  /\ \A g \in Generation : <<t, g>> \in agents' => g \in {gen[t], active[t]}
               /\ path'[t] # Nil => path'[t] = active[t] /\ <<t, path'[t]>> \in agents'
               /\ gen[t] # Nil => gen[t] # active[t] /\ <<t, gen[t]>> \in agents'
               /\ active[t] # Nil /\ path'[t] = Nil => <<t, active[t]>> \notin agents'
               /\ path'[t] # Nil => path'[t] \in linked
    <3>1. /\ \A g \in Generation : <<t, g>> \in agents => g \in {gen[t], active[t]}
          /\ path[t] # Nil => path[t] = active[t] /\ <<t, path[t]>> \in agents
          /\ gen[t] # Nil => gen[t] # active[t] /\ <<t, gen[t]>> \in agents
          /\ active[t] # Nil /\ path[t] = Nil => <<t, active[t]>> \notin agents
          /\ path[t] # Nil => path[t] \in linked
          BY <1>1 DEF OwnInv, AgentsAccounted
    <3> QED BY <1>2, <1>3, <1>4, <3>1
  <2>2. gen["host"] # Nil => path'["host"] = Nil
        BY <1>1, <1>3 DEF OwnInv, Side
  <2>3. gen' = gen /\ active' = active /\ linked' = linked
        BY <1>2 DEF clientVars
  <2> QED BY <2>1, <2>2, <2>3 DEF OwnInv, AgentsAccounted
<1>7. PathsJoin'
  <2>1. ASSUME NEW t \in Side, path'[t] # Nil, <<Peer(t), path'[t]>> \in agents'
        PROVE  \/ path'[Peer(t)] = path'[t]
               \/ gen[Peer(t)] = path'[t] /\ at[Peer(t)] = "connecting"
    <3>1. path[t] # Nil /\ <<Peer(t), path[t]>> \in agents /\ Peer(t) \in Side /\ t # s
          /\ path'[t] = path[t]
          /\ (Peer(t) # s \/ path[t] # path[s])
          BY <1>3, <1>4, <2>1 DEF Peer, Side
    <3>2. \/ path[Peer(t)] = path[t]
          \/ gen[Peer(t)] = path[t] /\ at[Peer(t)] = "connecting"
          BY <1>1, <3>1 DEF PathsJoin
    <3> QED BY <1>3, <3>1, <3>2
  <2>2. gen' = gen /\ at' = at
        BY <1>2 DEF clientVars
  <2> QED BY <2>1, <2>2 DEF PathsJoin
<1>8. /\ PlaceInv' /\ OfferInv' /\ FreshInv' /\ LinkedInv' /\ OriginInv' /\ RelayOnlyInv'
      BY <1>1, <1>2 DEF PlaceInv, OfferInv, FreshInv, LinkedInv, OriginInv, RelayOnlyInv,
                        Learned, clientVars, netVars
<1>9. AnswerInv'
      BY <1>1, <1>2 DEF AnswerInv, NoOffers, Answered, clientVars, netVars
<1> QED BY <1>5, <1>6, <1>7, <1>8, <1>9 DEF PathInv

LEMMA NominateKeeps ==
    ASSUME PathInv, NEW g \in Generation, Nominate(g)
    PROVE  PathInv'
<1>1. SignalingTypeOK /\ PlaceInv /\ OwnInv /\ AgentsAccounted /\ PathsJoin
      /\ OfferInv /\ FreshInv /\ LinkedInv /\ OriginInv /\ AnswerInv /\ RelayOnlyInv
      BY DEF PathInv, OwnInv
<1>2. /\ \A s \in Side : at[s] = "connecting" /\ gen[s] = g
      /\ linked' = linked \cup {g} /\ g # Nil
      /\ relayOnly' = relayOnly /\ replaced' = replaced /\ at' = at /\ sock' = sock
      /\ sess' = sess /\ gen' = gen /\ agents' = agents /\ active' = active /\ path' = path
      /\ UNCHANGED <<alive, seat, inbox, news, faults>>
      BY SocketAssumption DEF Nominate, clientVars, netVars
<1>3. SignalingTypeOK' /\ PlaceInv' /\ AgentsAccounted' /\ PathsJoin' /\ OriginInv'
      BY <1>1, <1>2 DEF SignalingTypeOK, PlaceInv, AgentsAccounted, PathsJoin, OriginInv
<1>4. OwnInv'
      BY <1>1, <1>2, <1>3 DEF OwnInv
<1>5. Learned' = Learned
      BY <1>2 DEF Learned, Side
<1>6. OfferInv' /\ LinkedInv'
      BY <1>1, <1>2, <1>5 DEF OfferInv, LinkedInv
<1>7. FreshInv'
      BY <1>2 DEF FreshInv, Side
<1>8. AnswerInv'
      BY <1>1, <1>2 DEF AnswerInv, NoOffers, Answered
<1>9. RelayOnlyInv'
      BY <1>1, <1>2 DEF RelayOnlyInv, Side
<1> QED BY <1>3, <1>4, <1>6, <1>7, <1>8, <1>9 DEF PathInv

LEMMA ConnectedKeeps ==
    ASSUME PathInv, NEW s \in Side, Connected(s)
    PROVE  PathInv'
<1>1. SignalingTypeOK /\ PlaceInv /\ OwnInv /\ AgentsAccounted /\ PathsJoin
      /\ s \in {"host", "guest"} /\ OfferInv /\ FreshInv /\ LinkedInv /\ OriginInv
      /\ AnswerInv /\ RelayOnlyInv
      BY DEF PathInv, OwnInv, Side
<1>2. /\ at[s] = "connecting" /\ gen[s] \in linked /\ <<Peer(s), gen[s]>> \in agents
      /\ path' = [path EXCEPT ![s] = gen[s]] /\ active' = [active EXCEPT ![s] = gen[s]]
      /\ agents' = agents \ ({s} \X {active[s]}) /\ gen' = [gen EXCEPT ![s] = Nil]
      /\ at' = [at EXCEPT ![s] = IF s = "host" THEN "resting" ELSE "listening"]
      /\ UNCHANGED <<relayOnly, replaced, sock, sess, linked, netVars, faults>>
      BY DEF Connected, CloseAgents
<1>3. /\ path'[s] = gen[s] /\ active'[s] = gen[s] /\ gen'[s] = Nil
      /\ at'[s] = IF s = "host" THEN "resting" ELSE "listening"
      /\ \A t \in Side \ {s} : /\ path'[t] = path[t] /\ active'[t] = active[t]
                               /\ gen'[t] = gen[t] /\ at'[t] = at[t]
      BY <1>1, <1>2 DEF SignalingTypeOK
<1>4. \A t \in Side : \A g : <<t, g>> \in agents' <=>
          <<t, g>> \in agents /\ (t # s \/ g # active[s])
      BY <1>2
<1>5. /\ gen[s] \in Generation /\ gen[s] # Nil /\ gen[s] # active[s] /\ <<s, gen[s]>> \in agents
      BY <1>1, <1>2, SocketAssumption DEF SignalingTypeOK, OwnInv
<1>6. SignalingTypeOK'
  <2>1. /\ at' \in [Side -> {"dialing", "waiting", "greeting", "checking", "gathering", "asking",
                             "connecting", "resting", "listening", "quiet", "pausing", "gone"}]
        /\ path' \in [Side -> Generation \cup {Nil}] /\ active' \in [Side -> Generation \cup {Nil}]
        /\ gen' \in [Side -> Generation \cup {Nil}]
        BY <1>1, <1>2, <1>5 DEF SignalingTypeOK
  <2>2. agents' \subseteq Side \X Generation
        BY <1>1, <1>2 DEF SignalingTypeOK
  <2> QED BY <1>1, <1>2, <2>1, <2>2 DEF SignalingTypeOK, netVars
<1>7. PlaceInv'
  <2>1. /\ seat[s] \in SocketOf(s) \cup {Nil} /\ sock[s] \in SocketOf(s) \cup {Nil}
        /\ sock[s] # Nil /\ sess[s] # Nil
        BY <1>1, <1>2 DEF PlaceInv, Unconnected, InSession, Attempting
  <2> QED BY <1>1, <1>2, <1>3, <2>1, PlaceKept
          DEF Attempting, Unconnected, InSession, netVars
<1>8. OwnInv'
  <2>1. ASSUME NEW t \in Side
        PROVE  /\ \A g \in Generation : <<t, g>> \in agents' => g \in {gen'[t], active'[t]}
               /\ path'[t] # Nil => path'[t] = active'[t] /\ <<t, path'[t]>> \in agents'
               /\ gen'[t] # Nil => gen'[t] # active'[t] /\ <<t, gen'[t]>> \in agents'
               /\ active'[t] # Nil /\ path'[t] = Nil => <<t, active'[t]>> \notin agents'
               /\ path'[t] # Nil => path'[t] \in linked'
    <3>1. /\ \A g \in Generation : <<t, g>> \in agents => g \in {gen[t], active[t]}
          /\ path[t] # Nil => path[t] = active[t] /\ <<t, path[t]>> \in agents
          /\ gen[t] # Nil => gen[t] # active[t] /\ <<t, gen[t]>> \in agents
          /\ active[t] # Nil /\ path[t] = Nil => <<t, active[t]>> \notin agents
          /\ path[t] # Nil => path[t] \in linked
          BY <1>1 DEF OwnInv, AgentsAccounted
    <3> QED BY <1>2, <1>3, <1>4, <1>5, <3>1
  <2>2. gen'["host"] # Nil => path'["host"] = Nil
        BY <1>1, <1>3 DEF OwnInv, Side
  <2> QED BY <2>1, <2>2 DEF OwnInv, AgentsAccounted
<1>9. PathsJoin'
  <2>1. ASSUME NEW t \in Side, path'[t] # Nil, <<Peer(t), path'[t]>> \in agents'
        PROVE  \/ path'[Peer(t)] = path'[t]
               \/ gen'[Peer(t)] = path'[t] /\ at'[Peer(t)] = "connecting"
    <3>1. CASE t = s
      <4>1. Peer(t) \in Side \ {s} /\ path'[t] = gen[s] /\ <<Peer(t), gen[s]>> \in agents
            BY <1>1, <1>2, <1>3, <3>1 DEF Peer, Side
      <4>2. gen[s] \in {gen[Peer(t)], active[Peer(t)]}
            BY <1>1, <1>5, <4>1 DEF AgentsAccounted
      <4>3. CASE gen[s] = gen[Peer(t)]
            BY <1>1, <1>2, <1>3, <4>1, <4>3 DEF LinkedInv
      <4>4. CASE gen[s] = active[Peer(t)]
        <5>1. path[Peer(t)] # Nil
              BY <1>1, <1>5, <4>1, <4>4 DEF OwnInv
        <5>2. path[Peer(t)] = active[Peer(t)]
              BY <1>1, <4>1, <5>1 DEF AgentsAccounted
        <5> QED BY <1>3, <4>1, <4>4, <5>2
      <4> QED BY <4>2, <4>3, <4>4
    <3>2. CASE t # s
      <4>1. /\ path'[t] = path[t] /\ Peer(t) = s /\ <<s, path[t]>> \in agents
            /\ path[t] # active[s] /\ path[t] # Nil
            BY <1>1, <1>3, <1>4, <2>1, <3>2 DEF Peer, Side
      <4>2. path[s] = path[t] \/ gen[s] = path[t]
            BY <1>1, <4>1 DEF PathsJoin
      <4>3. path[s] # Nil => path[s] = active[s]
            BY <1>1 DEF AgentsAccounted
      <4> QED BY <1>3, <4>1, <4>2, <4>3
    <3> QED BY <3>1, <3>2
  <2> QED BY <2>1 DEF PathsJoin
<1>10. Learned' \subseteq Learned \cup {Nil}
       BY <1>1, <1>2, <1>3 DEF Learned, Side
<1>11. LinkedInv'
       BY <1>1, <1>2, <1>3, SocketAssumption DEF LinkedInv, SignalingTypeOK
<1>12. inbox' = inbox /\ sock' = sock /\ sess' = sess /\ linked' = linked /\ relayOnly' = relayOnly
       BY <1>2 DEF netVars
<1>13. OfferInv'
  <2>1. ASSUME NEW d \in GuestSocket, NEW i \in DOMAIN inbox[d], Proposes(inbox[d][i])
        PROVE  inbox[d][i].gen \notin Learned'
    <3>1. inbox[d][i] \in Packet
          BY <1>1 DEF SignalingTypeOK, Socket
    <3>2. inbox[d][i].gen # Nil
          BY <2>1, <3>1, PacketKinds DEF Proposes
    <3> QED BY <1>1, <1>10, <2>1, <3>2 DEF OfferInv
  <2> QED BY <1>1, <1>12, <2>1 DEF OfferInv
<1>14. FreshInv'
  <2>1. at'["host"] = "gathering" =>
            at["host"] = "gathering" /\ gen'["host"] = gen["host"] /\ gen["host"] # Nil
        BY <1>1, <1>3 DEF Side, PlaceInv, Attempting
  <2> QED BY <1>1, <1>10, <1>12, <2>1 DEF FreshInv
<1>15. OriginInv'
  <2>1. at'["host"] \in {"asking", "connecting"} =>
            at["host"] \in {"asking", "connecting"} /\ gen'["host"] = gen["host"]
        BY <1>1, <1>3 DEF Side
  <2> QED BY <1>1, <1>12, <2>1 DEF OriginInv
<1>16. RelayOnlyInv'
       BY <1>1, <1>2, <1>12 DEF RelayOnlyInv
<1>17. AnswerInv'
  <2>1. at'["host"] \in {"asking", "connecting"} =>
            /\ s = "guest" /\ at'["host"] = at["host"] /\ gen'["host"] = gen["host"]
            /\ gen["host"] # Nil /\ gen'["guest"] = Nil
        BY <1>1, <1>3 DEF Side, PlaceInv, Attempting
  <2> QED BY <1>1, <1>12, <2>1 DEF AnswerInv, NoOffers, Answered
<1> QED BY <1>6, <1>7, <1>8, <1>9, <1>11, <1>13, <1>14, <1>15, <1>16, <1>17 DEF PathInv

-----------------------------------------------------------------------------
(* Steps of a negotiation.                                                   *)

LEMMA StartAttemptKeeps ==
    ASSUME PathInv, NEW g \in Generation, StartAttempt(g)
    PROVE  PathInv'
<1>1. SignalingTypeOK /\ PlaceInv /\ OwnInv /\ AgentsAccounted /\ PathsJoin
      /\ OfferInv /\ FreshInv /\ LinkedInv /\ OriginInv /\ AnswerInv /\ RelayOnlyInv
      BY DEF PathInv, OwnInv
<1>2. /\ at["host"] = "checking" /\ path["host"] = Nil /\ Idle(g)
      /\ UNCHANGED <<relayOnly, replaced, sock, sess, active, path, seat, news, faults>>
      BY DEF StartAttempt
<1>3. /\ sock["host"] \in Socket /\ sess["host"] \in Socket /\ gen["host"] = Nil
      /\ sock["host"] # Nil /\ sess["host"] # Nil /\ "host" \in Side
      /\ sock["host"] \in SocketOf("host") \cup {Nil}
      /\ seat["host"] \in SocketOf("host") \cup {Nil}
      BY <1>1, <1>2, SocketAssumption
         DEF PlaceInv, SignalingTypeOK, Side, Attempting, Unconnected, InSession
<1>4. CASE "host" \in relayOnly
  <2> DEFINE m == Ice(sock["host"], sess["host"], g, TRUE)
             to == seat[Peer(SideOf(sock["host"]))]
  <2>1. /\ at' = [at EXCEPT !["host"] = "quiet"] /\ Send(sock["host"], m)
        /\ UNCHANGED <<gen, agents, linked>>
        BY <1>4 DEF StartAttempt
  <2>2. m \in Packet /\ ~Proposes(m)
        BY <1>3, Packets DEF Proposes, Ice
  <2> HIDE DEF m
  <2>3. Wired(to, m) /\ alive' \subseteq alive
        BY <1>1, <2>1, <2>2, SeatOfPeer, SendWired
  <2>4. /\ at'["host"] = "quiet" /\ \A t \in Side \ {"host"} : at'[t] = at[t]
        /\ at' \in [Side -> {"dialing", "waiting", "greeting", "checking", "gathering", "asking",
                             "connecting", "resting", "listening", "quiet", "pausing", "gone"}]
        BY <1>1, <1>3, <2>1 DEF SignalingTypeOK
  <2>5. SignalingTypeOK'
        BY <1>1, <1>2, <2>1, <2>3, <2>4 DEF SignalingTypeOK, Wired
  <2>6. PlaceInv'
        BY <1>1, <1>2, <1>3, <2>1, <2>4, PlaceKept DEF Attempting, Unconnected, InSession
  <2>7. /\ \A s \in Side : at'[s] = at[s] \/ {at[s], at'[s]} \cap Attempting = {}
        /\ at'["host"] \notin Attempting /\ at["host"] # "gathering"
        BY <1>2, <2>4 DEF Attempting
  <2>8. UNCHANGED <<relayOnly, gen, iceVars>>
        BY <1>2, <2>1 DEF iceVars
  <2> QED BY <2>2, <2>3, <2>5, <2>6, <2>7, <2>8, QuietKeeps
<1>5. CASE "host" \notin relayOnly
  <2>1. /\ at' = [at EXCEPT !["host"] = "gathering"] /\ gen' = [gen EXCEPT !["host"] = g]
        /\ agents' = agents \cup {<<"host", g>>} /\ linked' = linked \ {g}
        /\ inbox' = inbox /\ alive' = alive
        BY <1>5 DEF StartAttempt, NewAgent
  <2>2. /\ at'["host"] = "gathering" /\ at'["guest"] = at["guest"]
        /\ gen'["host"] = g /\ gen'["guest"] = gen["guest"] /\ g # Nil
        BY <1>1, <2>1, SocketAssumption DEF SignalingTypeOK, Side
  <2>3. SignalingTypeOK'
    <3>1. /\ at' \in [Side -> {"dialing", "waiting", "greeting", "checking", "gathering",
                               "asking", "connecting", "resting", "listening", "quiet",
                               "pausing", "gone"}]
          /\ gen' \in [Side -> Generation \cup {Nil}]
          BY <1>1, <2>1 DEF SignalingTypeOK
    <3>2. agents' \subseteq Side \X Generation
          BY <1>1, <1>3, <2>1 DEF SignalingTypeOK
    <3> QED BY <1>1, <1>2, <2>1, <3>1, <3>2 DEF SignalingTypeOK
  <2>4. PlaceInv'
    <3>1. \A t \in Side \ {"host"} : at'[t] = at[t] /\ gen'[t] = gen[t]
          BY <2>2 DEF Side
    <3> QED BY <1>1, <1>2, <1>3, <2>2, <3>1, PlaceKept
            DEF Attempting, Unconnected, InSession
  <2>5. /\ \A s \in Side : g \notin {gen[s], active[s], path[s]} /\ <<s, g>> \notin agents
        /\ \A c \in Socket : \A i \in DOMAIN inbox[c] :
              inbox[c][i].kind = "ice" => inbox[c][i].gen # g
        BY <1>2 DEF Idle
  <2>6. OwnInv'
    <3>1. ASSUME NEW t \in Side
          PROVE  /\ \A h \in Generation : <<t, h>> \in agents' => h \in {gen'[t], active[t]}
                 /\ path[t] # Nil => path[t] = active[t] /\ <<t, path[t]>> \in agents'
                 /\ gen'[t] # Nil => gen'[t] # active[t] /\ <<t, gen'[t]>> \in agents'
                 /\ active[t] # Nil /\ path[t] = Nil => <<t, active[t]>> \notin agents'
                 /\ path[t] # Nil => path[t] \in linked'
      <4>1. /\ \A h \in Generation : <<t, h>> \in agents => h \in {gen[t], active[t]}
            /\ path[t] # Nil => path[t] = active[t] /\ <<t, path[t]>> \in agents
            /\ gen[t] # Nil => gen[t] # active[t] /\ <<t, gen[t]>> \in agents
            /\ active[t] # Nil /\ path[t] = Nil => <<t, active[t]>> \notin agents
            /\ path[t] # Nil => path[t] \in linked
            BY <1>1 DEF OwnInv, AgentsAccounted
      <4>2. (t = "host" /\ gen'[t] = g /\ gen[t] = Nil) \/ (t # "host" /\ gen'[t] = gen[t])
            BY <1>3, <2>2 DEF Side
      <4>3. \A h : <<t, h>> \in agents' <=> <<t, h>> \in agents \/ (t = "host" /\ h = g)
            BY <2>1
      <4>4. /\ g # active[t] /\ g # path[t]
            /\ path[t] # Nil => path[t] \in linked'
            BY <2>1, <2>5, <4>1
      <4>5. CASE t = "host"
            BY <4>1, <4>2, <4>3, <4>4, <4>5, SocketAssumption
      <4>6. CASE t # "host"
            BY <4>1, <4>2, <4>3, <4>4, <4>6
      <4> QED BY <4>5, <4>6
    <3> QED BY <1>2, <3>1 DEF OwnInv, AgentsAccounted
  <2>7. PathsJoin'
    <3>1. ASSUME NEW t \in Side, path[t] # Nil, <<Peer(t), path[t]>> \in agents'
          PROVE  \/ path[Peer(t)] = path[t]
                 \/ gen'[Peer(t)] = path[t] /\ at'[Peer(t)] = "connecting"
      <4>1. <<Peer(t), path[t]>> \in agents
            BY <2>1, <2>5, <3>1
      <4>2. \/ path[Peer(t)] = path[t]
            \/ gen[Peer(t)] = path[t] /\ at[Peer(t)] = "connecting"
            BY <1>1, <3>1, <4>1 DEF PathsJoin
      <4> QED BY <1>2, <2>2, <4>2 DEF Peer
    <3> QED BY <1>2, <3>1 DEF PathsJoin
  <2>8. LinkedInv'
    <3>1. gen["guest"] \in linked => at["guest"] = "connecting"
          BY <1>1 DEF LinkedInv, Side
    <3> QED BY <2>1, <2>2, <3>1 DEF LinkedInv, Side
  <2>9. OfferInv'
    <3>1. Learned' \subseteq Learned
          BY <1>2, <2>1, <2>2 DEF Learned
    <3> QED BY <1>1, <2>1, <3>1 DEF OfferInv
  <2>10. FreshInv'
         BY <1>2, <2>1, <2>2, <2>5 DEF FreshInv, Learned, Side
  <2>11. OriginInv' /\ AnswerInv'
         BY <2>2 DEF OriginInv, AnswerInv
  <2>12. RelayOnlyInv'
    <3>1. relayOnly # {} => /\ linked = {} /\ gen["guest"] = Nil
                            /\ \A s \in Side : active[s] = Nil
          BY <1>1 DEF RelayOnlyInv
    <3> QED BY <1>2, <1>5, <2>1, <2>2, <3>1 DEF RelayOnlyInv
  <2> QED BY <2>3, <2>4, <2>6, <2>7, <2>8, <2>9, <2>10, <2>11, <2>12 DEF PathInv
<1> QED BY <1>4, <1>5

LEMMA SendOfferKeeps ==
    ASSUME PathInv, NEW s \in Side, SendOffer(s)
    PROVE  PathInv'
<1> DEFINE m == Ice(sock[s], sess[s], gen[s], FALSE)
           to == seat[Peer(s)]
<1>1. SignalingTypeOK /\ PlaceInv /\ OwnInv /\ AgentsAccounted /\ PathsJoin
      /\ s \in {"host", "guest"} /\ OfferInv /\ FreshInv /\ LinkedInv /\ OriginInv
      /\ AnswerInv /\ RelayOnlyInv
      BY DEF PathInv, OwnInv, Side
<1>2. /\ at[s] = "gathering" /\ Send(sock[s], m)
      /\ at' = [at EXCEPT ![s] = IF s = "host" THEN "asking" ELSE "connecting"]
      /\ relayOnly' = relayOnly /\ replaced' = replaced /\ sock' = sock /\ sess' = sess
      /\ gen' = gen /\ agents' = agents /\ active' = active /\ path' = path
      /\ linked' = linked /\ seat' = seat /\ news' = news /\ faults' = faults
      BY DEF SendOffer, iceVars
<1>3. /\ sock[s] \in Socket /\ sess[s] \in Socket /\ gen[s] \in Generation
      /\ sock[s] # Nil /\ sess[s] # Nil /\ gen[s] # Nil /\ SideOf(sock[s]) = s
      /\ sock[s] \in SocketOf(s) \cup {Nil} /\ seat[s] \in SocketOf(s) \cup {Nil}
  <2>1. sock[s] # Nil /\ sess[s] # Nil /\ gen[s] # Nil
        /\ sock[s] \in SocketOf(s) \cup {Nil} /\ seat[s] \in SocketOf(s) \cup {Nil}
        BY <1>1, <1>2 DEF PlaceInv, Attempting, Unconnected, InSession
  <2>2. sock[s] \in Socket /\ SideOf(sock[s]) = s
        BY <1>1, <2>1, SideOfSocket
  <2> QED BY <1>1, <2>1, <2>2 DEF SignalingTypeOK
<1>4. /\ m \in Packet /\ Proposes(m) /\ m.kind = "ice"
      /\ m.gen = gen[s] /\ m.from = sock[s] /\ m.to = sess[s]
      BY <1>3, Packets DEF Proposes, Ice
<1>5. Wired(to, m) /\ alive' \subseteq alive /\ to \in SocketOf(Peer(s)) \cup {Nil}
  <2>1. to = seat[Peer(SideOf(sock[s]))] /\ to \in SocketOf(Peer(s)) \cup {Nil}
        BY <1>1, <1>3 DEF PlaceInv, Peer, Side
  <2> HIDE DEF m
  <2> QED BY <1>1, <1>2, <1>4, <2>1, SeatOfPeer, SendWired
<1> HIDE DEF m, to
<1>6. /\ at'[s] = IF s = "host" THEN "asking" ELSE "connecting"
      /\ \A t \in Side \ {s} : at'[t] = at[t]
      /\ at' \in [Side -> {"dialing", "waiting", "greeting", "checking", "gathering", "asking",
                           "connecting", "resting", "listening", "quiet", "pausing", "gone"}]
      BY <1>1, <1>2 DEF SignalingTypeOK
<1>7. SignalingTypeOK'
      BY <1>1, <1>2, <1>5, <1>6 DEF SignalingTypeOK, Wired
<1>8. PlaceInv'
      BY <1>1, <1>2, <1>3, <1>6, PlaceKept DEF Attempting, Unconnected, InSession
<1>9. OwnInv'
      BY <1>1, <1>2 DEF OwnInv, AgentsAccounted
<1>10. PathsJoin'
       BY <1>1, <1>2, <1>6 DEF PathsJoin, Peer, Side
<1>11. Learned' = Learned /\ Moves(to, m) /\ inbox' \in [Socket -> Seq(Packet)]
       BY <1>2, <1>5 DEF Learned, Wired
<1>12. /\ sock["host"] \in HostSocket \cup {Nil} /\ sock["guest"] \in GuestSocket \cup {Nil}
       BY <1>1 DEF PlaceInv, Side, SocketOf
<1>13. CASE s = "guest"
  <2>1. to \notin GuestSocket
        BY <1>5, <1>13, SocketAssumption DEF Peer, SocketOf, Socket
  <2>2. at'["guest"] = "connecting" /\ at'["host"] = at["host"]
        BY <1>6, <1>13 DEF Side
  <2>3. OfferInv'
    <3>1. \A d \in GuestSocket : \A i \in DOMAIN inbox[d] :
              Proposes(inbox[d][i]) => inbox[d][i].gen \notin Learned'
          BY <1>1, <1>11 DEF OfferInv
    <3> QED BY <1>1, <1>11, <2>1, <3>1, OfferKept
  <2>4. FreshInv'
    <3>1. at["host"] = "gathering" => gen["host"] \notin Learned' /\ m.gen # gen["host"]
          BY <1>1, <1>4, <1>11, <1>13 DEF FreshInv, Learned
    <3> QED BY <1>1, <1>2, <1>11, <2>2, <3>1, FreshKept
  <2>5. LinkedInv'
        BY <1>1, <1>2, <2>2 DEF LinkedInv, Side
  <2>6. OriginInv'
        BY <1>1, <1>2, <1>11, <2>1, <2>2, OriginKept
  <2>7. RelayOnlyInv'
    <3>1. relayOnly = {}
          BY <1>1, <1>3, <1>13 DEF RelayOnlyInv
    <3> QED BY <1>2, <3>1 DEF RelayOnlyInv
  <2>8. AnswerInv'
    <3>1. at["host"] \in {"asking", "connecting"} => gen["host"] # Nil
          BY <1>1 DEF PlaceInv, Side, Attempting
    <3> QED BY <1>1, <1>2, <1>4, <1>11, <1>12, <1>13, <2>1, <2>2, <3>1, AnswerKept
  <2> QED BY <1>7, <1>8, <1>9, <1>10, <2>3, <2>4, <2>5, <2>6, <2>7, <2>8 DEF PathInv
<1>14. CASE s = "host"
  <2> DEFINE c == sock["host"]
             d == sock["guest"]
             g == gen["host"]
  <2>1. at'["host"] = "asking" /\ at'["guest"] = at["guest"] /\ m.gen = g /\ m.from = c
        BY <1>4, <1>6, <1>14 DEF Side
  <2>2. /\ g \notin Learned /\ g # Nil
        /\ \A x \in Socket : \A i \in DOMAIN inbox[x] :
              inbox[x][i].kind = "ice" => inbox[x][i].gen # g
        BY <1>1, <1>2, <1>3, <1>14 DEF FreshInv
  <2>3. OfferInv'
    <3>1. \A x \in GuestSocket : \A i \in DOMAIN inbox[x] :
              Proposes(inbox[x][i]) =>
                  inbox[x][i].gen \notin Learned' /\ inbox[x][i].gen # m.gen
          BY <1>1, <1>11, <2>1, <2>2 DEF OfferInv, Proposes, Socket
    <3>2. m.gen \notin Learned'
          BY <1>11, <2>1, <2>2
    <3> QED BY <1>1, <1>11, <3>1, <3>2, OfferKept
  <2>4. FreshInv'
        BY <2>1 DEF FreshInv
  <2>5. LinkedInv'
    <3>1. g \notin linked
          BY <2>2 DEF Learned
    <3>2. gen["guest"] \in linked => at["guest"] = "connecting"
          BY <1>1 DEF LinkedInv, Side
    <3> QED BY <1>2, <2>1, <3>1, <3>2 DEF LinkedInv, Side
  \* Only what was just sent is of the attempt.
  <2>6. \A x \in Socket : \A i \in DOMAIN inbox'[x] :
            Proposes(inbox'[x][i]) /\ inbox'[x][i].gen = g =>
                x = to /\ i = Len(inbox'[x]) /\ inbox'[x][i] = m
        BY <1>11, <2>2 DEF Moves, Proposes
  <2>7. OriginInv'
        BY <1>2, <2>1, <2>6 DEF OriginInv, Socket
  <2>8. RelayOnlyInv'
    <3>1. "host" \notin relayOnly
          BY <1>1, <2>2 DEF RelayOnlyInv
    <3> QED BY <1>1, <1>2, <3>1 DEF RelayOnlyInv
  <2>9. AnswerInv'
    <3>0. SUFFICES ASSUME sess["host"] = d
                   PROVE  AnswerInv'
          BY <1>2 DEF AnswerInv
    <3>1. c \in HostSocket /\ d \in GuestSocket
          BY <1>3, <1>12, <1>14, <3>0
    <3>2. to \notin HostSocket
          BY <1>5, <1>14, SocketAssumption DEF Peer, SocketOf, Socket
    <3>3. \A i, j \in DOMAIN inbox'[d] :
              /\ i < j
              /\ Proposes(inbox'[d][i]) /\ inbox'[d][i].gen = g
              /\ Proposes(inbox'[d][j])
              => inbox'[d][j].from # c
      <4>1. d \in Socket /\ inbox'[d] \in Seq(Packet)
            BY <1>11, <3>1 DEF Socket
      <4>2. \A i, j \in DOMAIN inbox'[d] : i < j => i # Len(inbox'[d])
            BY <4>1
      <4> QED BY <2>6, <4>1, <4>2
    <3>4. gen["guest"] # g
          BY <2>2 DEF Learned
    <3>5. ~Answered(c, d, g)'
      <4>1. \A i \in DOMAIN inbox'[c] : ~(Proposes(inbox'[c][i]) /\ inbox'[c][i].gen = g)
            BY <2>6, <3>1, <3>2 DEF Socket
      <4> QED BY <1>2, <4>1 DEF Answered
    <3> QED BY <1>2, <2>1, <3>3, <3>4, <3>5 DEF AnswerInv
  <2> QED BY <1>7, <1>8, <1>9, <1>10, <2>3, <2>4, <2>5, <2>7, <2>8, <2>9 DEF PathInv
<1> QED BY <1>1, <1>13, <1>14

\* The first message of a runner that reads in a session.
LEMMA OpenedMessage ==
    ASSUME SignalingTypeOK, NEW s, sock[s] \in Socket, HasMessage(s), Opens(s)
    PROVE  /\ 1 \in DOMAIN inbox[sock[s]] /\ Message(s) = inbox[sock[s]][1]
           /\ Message(s) \in Packet /\ Message(s).gen \in Generation /\ Message(s).gen # Nil
           /\ Message(s).from = sess[s] /\ Message(s).to = sock[s]
           /\ Message(s).kind = "ice"
<1>1. inbox[sock[s]] \in Seq(Packet) /\ inbox[sock[s]] # <<>>
      BY DEF SignalingTypeOK, HasMessage
<1>2. /\ 1 \in DOMAIN inbox[sock[s]] /\ Message(s) = inbox[sock[s]][1]
      /\ Message(s) \in Packet
      BY <1>1 DEF Message
<1> QED BY <1>2, PacketKinds DEF Opens

LEMMA ReadAnswerKeeps ==
    ASSUME PathInv, ReadAnswer
    PROVE  PathInv'
<1> DEFINE m == Message("host")
<1>1. SignalingTypeOK /\ PlaceInv /\ OwnInv /\ AgentsAccounted /\ PathsJoin
      /\ OfferInv /\ FreshInv /\ LinkedInv /\ OriginInv /\ AnswerInv /\ RelayOnlyInv
      BY DEF PathInv, OwnInv
<1>2. /\ at["host"] = "asking" /\ HasMessage("host") /\ Opens("host") /\ m.gen = gen["host"]
      /\ Take("host")
      /\ relayOnly' = relayOnly /\ replaced' = replaced /\ sock' = sock /\ sess' = sess
      /\ active' = active /\ path' = path /\ linked' = linked
      /\ alive' = alive /\ seat' = seat /\ news' = news /\ faults' = faults
      BY DEF ReadAnswer
<1>3. IF m.disabled
        THEN /\ at' = [at EXCEPT !["host"] = "resting"]
             /\ agents' = agents \ ({"host"} \X {gen["host"]})
             /\ gen' = [gen EXCEPT !["host"] = Nil]
        ELSE at' = [at EXCEPT !["host"] = "connecting"] /\ agents' = agents /\ gen' = gen
      BY DEF ReadAnswer, CloseAgents
<1>4. /\ sock["host"] \in Socket /\ sock["host"] # Nil /\ sess["host"] # Nil
      /\ gen["host"] # Nil /\ "host" \in Side /\ gen["host"] \notin linked
      /\ sock["host"] \in HostSocket \cup {Nil} /\ sock["guest"] \in GuestSocket \cup {Nil}
      /\ seat["host"] \in SocketOf("host") \cup {Nil}
      /\ sock["host"] \in SocketOf("host") \cup {Nil}
      BY <1>1, <1>2
         DEF PlaceInv, LinkedInv, Side, SocketOf, Socket, Attempting, Unconnected, InSession
<1>5. Wired(Nil, Down) /\ ~Proposes(Down) /\ Down.kind # "ice"
      BY <1>1, <1>2, <1>4, TakeWired DEF Proposes, Down
<1>6. Moves(Nil, Down) /\ inbox' \in [Socket -> Seq(Packet)]
      BY <1>5 DEF Wired
<1> HIDE DEF m
<1>7. /\ at'["host"] = IF m.disabled THEN "resting" ELSE "connecting"
      /\ gen'["host"] = IF m.disabled THEN Nil ELSE gen["host"]
      /\ \A t \in Side \ {"host"} : at'[t] = at[t] /\ gen'[t] = gen[t]
      /\ at' \in [Side -> {"dialing", "waiting", "greeting", "checking", "gathering", "asking",
                           "connecting", "resting", "listening", "quiet", "pausing", "gone"}]
      /\ gen' \in [Side -> Generation \cup {Nil}]
      BY <1>1, <1>3, <1>4 DEF SignalingTypeOK
<1>8. /\ at'["guest"] = at["guest"] /\ gen'["guest"] = gen["guest"]
      BY <1>7 DEF Side
<1>9. \A t \in Side : \A g : <<t, g>> \in agents' <=>
          <<t, g>> \in agents /\ (t # "host" \/ ~m.disabled \/ g # gen["host"])
      BY <1>3
<1>10. SignalingTypeOK'
  <2>1. agents' \subseteq Side \X Generation
        BY <1>1, <1>3 DEF SignalingTypeOK
  <2> QED BY <1>1, <1>2, <1>5, <1>7, <2>1 DEF SignalingTypeOK, Wired
<1>11. PlaceInv'
       BY <1>1, <1>2, <1>4, <1>7, PlaceKept DEF Attempting, Unconnected, InSession
<1>12. OwnInv'
  <2>1. ASSUME NEW t \in Side
        PROVE  /\ \A g \in Generation : <<t, g>> \in agents' => g \in {gen'[t], active[t]}
               /\ path[t] # Nil => path[t] = active[t] /\ <<t, path[t]>> \in agents'
               /\ gen'[t] # Nil => gen'[t] # active[t] /\ <<t, gen'[t]>> \in agents'
               /\ active[t] # Nil /\ path[t] = Nil => <<t, active[t]>> \notin agents'
               /\ path[t] # Nil => path[t] \in linked
    <3>1. /\ \A g \in Generation : <<t, g>> \in agents => g \in {gen[t], active[t]}
          /\ path[t] # Nil => path[t] = active[t] /\ <<t, path[t]>> \in agents
          /\ gen[t] # Nil => gen[t] # active[t] /\ <<t, gen[t]>> \in agents
          /\ active[t] # Nil /\ path[t] = Nil => <<t, active[t]>> \notin agents
          /\ path[t] # Nil => path[t] \in linked
          BY <1>1 DEF OwnInv, AgentsAccounted
    <3>2. (t = "host" /\ m.disabled /\ gen'[t] = Nil) \/
          ((t # "host" \/ ~m.disabled) /\ gen'[t] = gen[t])
          BY <1>7
    <3> QED BY <1>4, <1>9, <3>1, <3>2
  <2>2. gen'["host"] # Nil => path["host"] = Nil
        BY <1>1, <1>7 DEF OwnInv
  <2> QED BY <1>2, <2>1, <2>2 DEF OwnInv, AgentsAccounted
<1>13. PathsJoin'
  <2>1. ASSUME NEW t \in Side, path[t] # Nil, <<Peer(t), path[t]>> \in agents'
        PROVE  \/ path[Peer(t)] = path[t]
               \/ gen'[Peer(t)] = path[t] /\ at'[Peer(t)] = "connecting"
    <3>1. /\ <<Peer(t), path[t]>> \in agents /\ Peer(t) \in Side
          BY <1>9, <2>1 DEF Peer, Side
    <3>2. \/ path[Peer(t)] = path[t]
          \/ gen[Peer(t)] = path[t] /\ at[Peer(t)] = "connecting"
          BY <1>1, <2>1, <3>1 DEF PathsJoin
    <3> QED BY <1>2, <1>7, <3>1, <3>2
  <2> QED BY <1>2, <2>1 DEF PathsJoin
<1>14. LinkedInv'
  <2>1. gen["guest"] \in linked => at["guest"] = "connecting"
        BY <1>1 DEF LinkedInv, Side
  <2>2. Nil \notin linked
        BY <1>1, SocketAssumption DEF SignalingTypeOK
  <2> QED BY <1>2, <1>4, <1>7, <1>8, <2>1, <2>2 DEF LinkedInv, Side
<1>15. Learned' = Learned
       BY <1>2, <1>8 DEF Learned
<1>16. OfferInv'
  <2>1. \A d \in GuestSocket : \A i \in DOMAIN inbox[d] :
            Proposes(inbox[d][i]) => inbox[d][i].gen \notin Learned'
        BY <1>1, <1>15 DEF OfferInv
  <2>2. Nil \notin GuestSocket
        BY SocketAssumption DEF Socket
  <2> QED BY <1>1, <1>6, <2>1, <2>2, OfferKept
<1>17. FreshInv'
       BY <1>7 DEF FreshInv
<1>18. OriginInv'
  <2>1. at'["host"] \in {"asking", "connecting"} => gen'["host"] = gen["host"]
        BY <1>7
  <2> QED BY <1>1, <1>2, <1>5, <1>6, <2>1, OriginKept
<1>19. RelayOnlyInv'
  <2>1. relayOnly # {} =>
            /\ linked' = {} /\ gen'["guest"] = Nil
            /\ \A t \in Side : active'[t] = Nil
            /\ "host" \in relayOnly => gen'["host"] = Nil
        BY <1>1, <1>2, <1>7, <1>8 DEF RelayOnlyInv
  <2> QED BY <1>1, <1>2, <1>5, <1>6, <2>1, RelayKept
<1>20. AnswerInv'
  <2>1. at'["host"] = "connecting" /\ sess["host"] = sock["guest"] =>
            Answered(sock["host"], sock["guest"], gen["host"])
    <3>1. /\ 1 \in DOMAIN inbox[sock["host"]] /\ m = inbox[sock["host"]][1]
          /\ m.from = sess["host"] /\ m.to = sock["host"] /\ m.kind = "ice"
          BY <1>1, <1>2, <1>4, OpenedMessage DEF m
    <3>2. at'["host"] = "connecting" => Proposes(m)
          BY <1>7, <3>1 DEF Proposes
    <3> QED BY <1>2, <3>1, <3>2 DEF Answered
  <2>2. at'["host"] \in {"asking", "connecting"} =>
            at'["host"] = "connecting" /\ gen'["host"] = gen["host"]
        BY <1>7
  <2>3. Nil # sock["host"] /\ Nil \notin GuestSocket
        BY <1>4, SocketAssumption DEF Socket
  <2> QED BY <1>1, <1>2, <1>4, <1>5, <1>6, <1>8, <2>1, <2>2, <2>3, AnswerKept
<1> QED BY <1>10, <1>11, <1>12, <1>13, <1>14, <1>16, <1>17, <1>18, <1>19, <1>20 DEF PathInv

LEMMA ReadOfferKeeps ==
    ASSUME PathInv, ReadOffer
    PROVE  PathInv'
<1> DEFINE m == Message("guest")
           c == sock["host"]
           d == sock["guest"]
<1>1. SignalingTypeOK /\ PlaceInv /\ OwnInv /\ AgentsAccounted /\ PathsJoin
      /\ OfferInv /\ FreshInv /\ LinkedInv /\ OriginInv /\ AnswerInv /\ RelayOnlyInv
      BY DEF PathInv, OwnInv
<1>2. /\ at["guest"] = "listening" /\ HasMessage("guest") /\ Opens("guest")
      /\ relayOnly' = relayOnly /\ replaced' = replaced /\ sock' = sock /\ sess' = sess
      /\ active' = active /\ path' = path /\ linked' = linked
      /\ seat' = seat /\ news' = news /\ faults' = faults
      BY DEF ReadOffer
<1>3. /\ d \in GuestSocket /\ d \in Socket /\ sess["guest"] \in Socket /\ d # Nil
      /\ sess["guest"] # Nil /\ gen["guest"] = Nil /\ "guest" \in Side /\ "host" \in Side
      /\ c \in HostSocket \cup {Nil} /\ seat["host"] \in HostSocket \cup {Nil}
      /\ seat["guest"] \in SocketOf("guest") \cup {Nil}
      BY <1>1, <1>2 DEF PlaceInv, SignalingTypeOK, Side, SocketOf, Socket,
                        Attempting, Unconnected, InSession
<1>4. /\ 1 \in DOMAIN inbox[d] /\ m = inbox[d][1] /\ m \in Packet /\ m.gen \in Generation
      /\ m.gen # Nil /\ m.from = sess["guest"] /\ m.to = d /\ m.kind = "ice"
      BY <1>1, <1>2, <1>3, OpenedMessage
<1>5. CASE m.disabled \/ "guest" \in relayOnly
  <2> DEFINE n == Ice(d, sess["guest"], m.gen, TRUE)
  <2>1. /\ UNCHANGED <<at, gen, agents>> /\ alive' \subseteq alive
        /\ \/ Take("guest")
           \/ /\ seat["host"] # Nil
              /\ inbox' = Delivered([inbox EXCEPT ![d] = Tail(@)], seat["host"], n)
        BY <1>5 DEF ReadOffer, Take
  <2>2. /\ n \in Packet /\ ~Proposes(n) /\ n.gen = m.gen
        /\ Down \in Packet /\ ~Proposes(Down) /\ Down.kind # "ice"
        BY <1>3, <1>4, Packets DEF Proposes, Ice, Down
  <2> HIDE DEF n, m
  <2>3. at["host"] = "gathering" => m.gen # gen["host"]
        BY <1>1, <1>3, <1>4 DEF FreshInv
  <2>4. \E x, y : /\ Wired(x, y) /\ ~Proposes(y)
                  /\ at["host"] = "gathering" /\ y.kind = "ice" => y.gen # gen["host"]
    <3>1. CASE Take("guest")
          BY <1>1, <1>2, <1>3, <2>2, <3>1, TakeWired
    <3>2. CASE /\ seat["host"] # Nil
               /\ inbox' = Delivered([inbox EXCEPT ![d] = Tail(@)], seat["host"], n)
      <4>1. Wired(seat["host"], n)
            BY <1>1, <1>2, <1>3, <2>2, <3>2, AnswerWired DEF Socket
      <4> QED BY <2>2, <2>3, <4>1
    <3> QED BY <2>1, <3>1, <3>2
  <2>5. SignalingTypeOK'
        BY <1>1, <1>2, <2>1, <2>4 DEF SignalingTypeOK, Wired
  <2>6. PlaceInv'
        BY <1>1, <1>2, <2>1 DEF PlaceInv
  <2>7. /\ \A s \in Side : at'[s] = at[s] \/ {at[s], at'[s]} \cap Attempting = {}
        /\ UNCHANGED <<relayOnly, gen, iceVars>>
        BY <1>2, <2>1 DEF iceVars
  <2> QED BY <1>2, <2>4, <2>5, <2>6, <2>7, QuietKeeps
<1>6. CASE ~m.disabled /\ "guest" \notin relayOnly
  <2>1. /\ inbox' = [inbox EXCEPT ![d] = Tail(@)] /\ Take("guest")
        /\ at' = [at EXCEPT !["guest"] = "gathering"] /\ gen' = [gen EXCEPT !["guest"] = m.gen]
        /\ agents' = agents \cup {<<"guest", m.gen>>} /\ alive' = alive
        BY <1>6 DEF ReadOffer, NewAgent, Take
  <2>2. /\ Proposes(m) /\ m.gen \notin Learned
        /\ \A e \in GuestSocket : \A j \in DOMAIN inbox[e] :
              Proposes(inbox[e][j]) /\ inbox[e][j].gen = m.gen => e = d /\ j = 1
    <3>1. Proposes(m)
          BY <1>4, <1>6 DEF Proposes
    <3> QED BY <1>1, <1>3, <1>4, <3>1 DEF OfferInv
  <2>3. Wired(Nil, Down) /\ Moves(Nil, Down) /\ inbox' \in [Socket -> Seq(Packet)]
        /\ ~Proposes(Down) /\ Down.kind # "ice"
    <3>1. Wired(Nil, Down)
          BY <1>1, <1>2, <1>3, <2>1, TakeWired
    <3> QED BY <3>1 DEF Wired, Proposes, Down
  \* What is left of the socket it was taken from.
  <2>4. /\ \A e \in Socket : e # d => inbox'[e] = inbox[e]
        /\ \A i \in DOMAIN inbox'[d] : /\ i \in Nat \ {0} /\ i + 1 \in DOMAIN inbox[d]
                                       /\ inbox'[d][i] = inbox[d][i + 1]
    <3>1. inbox \in [Socket -> Seq(Packet)] /\ inbox[d] # <<>> /\ inbox[d] \in Seq(Packet)
          BY <1>1, <1>2, <1>3 DEF SignalingTypeOK, HasMessage
    <3>2. inbox'[d] = Tail(inbox[d]) /\ \A e \in Socket : e # d => inbox'[e] = inbox[e]
          BY <1>3, <2>1, <3>1
    <3> DEFINE q == inbox[d]
               r == inbox'[d]
    <3>3. q \in Seq(Packet) /\ q # <<>> /\ r = Tail(q) /\ Down \in Packet
          BY <3>1, <3>2, Packets
    <3> HIDE DEF q, r
    <3>4. \A i \in DOMAIN r : i \in Nat \ {0} /\ i + 1 \in DOMAIN q /\ r[i] = q[i + 1]
          BY <3>3, Boxes
    <3> QED BY <3>2, <3>4 DEF q, r
  <2> HIDE DEF m
  <2>5. /\ at'["guest"] = "gathering" /\ at'["host"] = at["host"]
        /\ gen'["guest"] = m.gen /\ gen'["host"] = gen["host"]
        /\ \A t \in Side \ {"guest"} : at'[t] = at[t] /\ gen'[t] = gen[t]
        BY <1>1, <1>3, <2>1 DEF SignalingTypeOK
  <2>6. SignalingTypeOK'
    <3>1. /\ at' \in [Side -> {"dialing", "waiting", "greeting", "checking", "gathering",
                               "asking", "connecting", "resting", "listening", "quiet",
                               "pausing", "gone"}]
          /\ gen' \in [Side -> Generation \cup {Nil}]
          BY <1>1, <1>3, <1>4, <2>1 DEF SignalingTypeOK
    <3>2. agents' \subseteq Side \X Generation
          BY <1>1, <1>3, <1>4, <2>1 DEF SignalingTypeOK
    <3> QED BY <1>1, <1>2, <2>1, <2>3, <3>1, <3>2 DEF SignalingTypeOK, Wired
  <2>7. PlaceInv'
    <3>1. d \in SocketOf("guest") \cup {Nil}
          BY <1>3 DEF SocketOf
    <3> QED BY <1>1, <1>2, <1>3, <1>4, <2>5, <3>1, PlaceKept
            DEF Attempting, Unconnected, InSession
  <2>8. m.gen # active["guest"] /\ m.gen \notin linked
        BY <2>2 DEF Learned
  <2>9. OwnInv'
    <3>1. ASSUME NEW t \in Side
          PROVE  /\ \A h \in Generation : <<t, h>> \in agents' => h \in {gen'[t], active[t]}
                 /\ path[t] # Nil => path[t] = active[t] /\ <<t, path[t]>> \in agents'
                 /\ gen'[t] # Nil => gen'[t] # active[t] /\ <<t, gen'[t]>> \in agents'
                 /\ active[t] # Nil /\ path[t] = Nil => <<t, active[t]>> \notin agents'
                 /\ path[t] # Nil => path[t] \in linked
      <4>1. /\ \A h \in Generation : <<t, h>> \in agents => h \in {gen[t], active[t]}
            /\ path[t] # Nil => path[t] = active[t] /\ <<t, path[t]>> \in agents
            /\ gen[t] # Nil => gen[t] # active[t] /\ <<t, gen[t]>> \in agents
            /\ active[t] # Nil /\ path[t] = Nil => <<t, active[t]>> \notin agents
            /\ path[t] # Nil => path[t] \in linked
            BY <1>1 DEF OwnInv, AgentsAccounted
      <4>3. \A h : <<t, h>> \in agents' <=> <<t, h>> \in agents \/ (t = "guest" /\ h = m.gen)
            BY <2>1
      <4>5. CASE t = "guest"
            BY <1>3, <2>5, <2>8, <4>1, <4>3, <4>5, SocketAssumption
      <4>6. CASE t # "guest"
            BY <2>5, <4>1, <4>3, <4>6
      <4> QED BY <4>5, <4>6
    <3>2. gen'["host"] # Nil => path["host"] = Nil
          BY <1>1, <2>5 DEF OwnInv
    <3> QED BY <1>2, <3>1, <3>2 DEF OwnInv, AgentsAccounted
  <2>10. PathsJoin'
    <3>1. ASSUME NEW t \in Side, path[t] # Nil, <<Peer(t), path[t]>> \in agents'
          PROVE  \/ path[Peer(t)] = path[t]
                 \/ gen'[Peer(t)] = path[t] /\ at'[Peer(t)] = "connecting"
      <4>1. path[t] # m.gen
            BY <1>1, <2>8, <3>1 DEF OwnInv
      <4>2. <<Peer(t), path[t]>> \in agents
            BY <2>1, <3>1, <4>1
      <4>3. \/ path[Peer(t)] = path[t]
            \/ gen[Peer(t)] = path[t] /\ at[Peer(t)] = "connecting"
            BY <1>1, <3>1, <4>2 DEF PathsJoin
      <4> QED BY <1>3, <2>5, <3>1, <4>3 DEF Peer
    <3> QED BY <1>2, <3>1 DEF PathsJoin
  <2>11. LinkedInv'
    <3>1. gen["host"] \in linked => at["host"] = "connecting"
          BY <1>1, <1>3 DEF LinkedInv
    <3> QED BY <1>2, <2>5, <2>8, <3>1 DEF LinkedInv, Side
  <2>12. Learned' \subseteq Learned \cup {m.gen}
         BY <1>2, <2>5 DEF Learned
  <2>13. OfferInv'
    <3>1. ASSUME NEW e \in GuestSocket, NEW i \in DOMAIN inbox'[e], Proposes(inbox'[e][i])
          PROVE  inbox'[e][i].gen \notin Learned'
      <4>1. PICK j \in DOMAIN inbox[e] : inbox'[e][i] = inbox[e][j] /\ (e = d => j # 1)
        <5>1. CASE e = d
          <6>1. i \in Nat \ {0} /\ i + 1 \in DOMAIN inbox[d] /\ inbox'[d][i] = inbox[d][i + 1]
                BY <2>4, <5>1
          <6> QED BY <5>1, <6>1
        <5>2. CASE e # d
              BY <2>4, <5>2 DEF Socket
        <5> QED BY <5>1, <5>2
      <4>2. inbox[e][j].gen \notin Learned
            BY <1>1, <3>1, <4>1 DEF OfferInv
      <4>3. inbox[e][j].gen # m.gen
            BY <2>2, <3>1, <4>1
      <4> QED BY <2>12, <4>1, <4>2, <4>3
    <3>2. Nil \notin GuestSocket
          BY SocketAssumption DEF Socket
    <3>3. ASSUME NEW e \in GuestSocket, NEW i \in DOMAIN inbox'[e], Proposes(inbox'[e][i]),
                 NEW f \in GuestSocket, NEW j \in DOMAIN inbox'[f], Proposes(inbox'[f][j]),
                 inbox'[f][j].gen = inbox'[e][i].gen
          PROVE  f = e /\ j = i
          BY <1>1, <2>3, <3>2, <3>3, OfferDistinct
    <3> QED BY <3>1, <3>3 DEF OfferInv, Proposes
  <2>14. FreshInv'
    <3>1. at["host"] = "gathering" => gen["host"] \notin Learned' /\ gen["host"] # Nil
      <4>1. at["host"] = "gathering" => gen["host"] \notin Learned /\ gen["host"] # m.gen
            BY <1>1, <1>3, <1>4 DEF FreshInv
      <4>2. at["host"] = "gathering" => gen["host"] # Nil
            BY <1>1, <1>3 DEF PlaceInv, Attempting
      <4> QED BY <2>12, <4>1, <4>2
    <3> QED BY <1>1, <2>3, <2>5, <3>1, FreshKept
  <2>15. OriginInv'
    <3>1. Nil \notin GuestSocket
          BY SocketAssumption DEF Socket
    <3> QED BY <1>1, <1>2, <2>3, <2>5, <3>1, OriginKept
  <2>16. RelayOnlyInv'
    <3>1. relayOnly = {}
      <4>1. "host" \notin relayOnly
            BY <1>1, <1>3, <1>4, <2>2 DEF RelayOnlyInv
      <4>2. relayOnly \subseteq Side
            BY <1>1, SignalingBounds DEF SignalingTypeOK
      <4> QED BY <1>6, <4>1, <4>2 DEF Side
    <3> QED BY <1>2, <3>1 DEF RelayOnlyInv
  <2>17. AnswerInv'
    <3> DEFINE g == gen["host"]
    <3>0. SUFFICES ASSUME at["host"] \in {"asking", "connecting"}, sess["host"] = d
                   PROVE  AnswerInv'
          BY <1>2, <2>5 DEF AnswerInv
    <3>1. /\ \A i, j \in DOMAIN inbox[d] :
                /\ i < j
                /\ Proposes(inbox[d][i]) /\ inbox[d][i].gen = g
                /\ Proposes(inbox[d][j])
                => inbox[d][j].from # c
          /\ at["host"] = "connecting" \/ Answered(c, d, g) => NoOffers(c, d) /\ sess["guest"] = c
          BY <1>1, <3>0 DEF AnswerInv
    <3>2. /\ c # Nil /\ c \in Socket /\ c # d
          BY <1>1, <1>3, <3>0, SocketAssumption DEF PlaceInv, Unconnected, Socket
    <3>3. \A i, j \in DOMAIN inbox'[d] :
              /\ i < j
              /\ Proposes(inbox'[d][i]) /\ inbox'[d][i].gen = g
              /\ Proposes(inbox'[d][j])
              => inbox'[d][j].from # c
      <4>1. ASSUME NEW i \in DOMAIN inbox'[d], NEW j \in DOMAIN inbox'[d], i < j,
                   Proposes(inbox'[d][i]), inbox'[d][i].gen = g, Proposes(inbox'[d][j])
            PROVE  inbox'[d][j].from # c
        <5>1. /\ i \in Nat /\ j \in Nat /\ i + 1 \in DOMAIN inbox[d] /\ j + 1 \in DOMAIN inbox[d]
              /\ inbox'[d][i] = inbox[d][i + 1] /\ inbox'[d][j] = inbox[d][j + 1]
              BY <2>4
        <5>2. i + 1 < j + 1
              BY <4>1, <5>1
        <5> QED BY <3>1, <4>1, <5>1, <5>2
      <4> QED BY <4>1
    <3>4. m.gen = g /\ sess["guest"] = c => NoOffers(c, d)'
      <4>1. SUFFICES ASSUME m.gen = g, NEW j \in DOMAIN inbox'[d], Proposes(inbox'[d][j])
                     PROVE  inbox'[d][j].from # c
            BY <1>2 DEF NoOffers, Proposes
      <4>2. /\ j + 1 \in DOMAIN inbox[d] /\ j \in Nat \ {0} /\ inbox'[d][j] = inbox[d][j + 1]
            BY <2>4
      <4>3. 1 < j + 1
            BY <4>2
      <4> QED BY <1>4, <2>2, <3>1, <4>1, <4>2, <4>3
    <3>5. at["host"] = "asking" /\ ~Answered(c, d, g)
      <4>1. ~(NoOffers(c, d) /\ sess["guest"] = c)
            BY <1>4, <2>2 DEF NoOffers
      <4> QED BY <3>0, <3>1, <4>1
    <3>6. ~Answered(c, d, g)'
      <4>1. inbox'[c] = inbox[c]
            BY <2>4, <3>2
      <4> QED BY <1>2, <2>5, <3>5, <4>1 DEF Answered
    <3> QED BY <1>2, <2>5, <3>3, <3>4, <3>5, <3>6 DEF AnswerInv
  <2> QED BY <2>6, <2>7, <2>9, <2>10, <2>11, <2>13, <2>14, <2>15, <2>16, <2>17 DEF PathInv
<1> QED BY <1>5, <1>6

-----------------------------------------------------------------------------
(* The invariant of the two runners, and what it is for.                     *)

LEMMA PathInvInit == SignalingInit => PathInv
<1> SUFFICES ASSUME SignalingInit PROVE PathInv
    OBVIOUS
<1> USE DEF SignalingInit
<1>1. \A c \in Socket : inbox[c] = <<>>
      OBVIOUS
<1>2. \A c \in Socket : DOMAIN inbox[c] = {}
      BY <1>1
<1>3. SignalingTypeOK
  <2>1. inbox \in [Socket -> Seq(Packet)] /\ news \in [Socket -> Seq(Socket)]
    <3>1. <<>> \in Seq(Packet) /\ <<>> \in Seq(Socket)
          OBVIOUS
    <3> QED BY <3>1
  <2>2. \A c \in Socket : Len(inbox[c]) <= Backlog
        BY <1>1, SignalingBounds
  <2>3. /\ at \in [Side -> {"dialing", "waiting", "greeting", "checking", "gathering", "asking",
                           "connecting", "resting", "listening", "quiet", "pausing", "gone"}]
        /\ sock \in [Side -> Socket \cup {Nil}] /\ sess \in [Side -> Socket \cup {Nil}]
        /\ gen \in [Side -> Generation \cup {Nil}] /\ active \in [Side -> Generation \cup {Nil}]
        /\ path \in [Side -> Generation \cup {Nil}] /\ seat \in [Side -> Socket \cup {Nil}]
        OBVIOUS
  <2>4. faults \in 0..MaxFaults
        BY SignalingBounds
  <2> QED BY <2>1, <2>2, <2>3, <2>4 DEF SignalingTypeOK
<1>4. PlaceInv
      BY DEF PlaceInv, Side, Attempting, Unconnected, InSession
<1>5. OwnInv /\ LinkedInv /\ PathsJoin
      BY DEF OwnInv, AgentsAccounted, LinkedInv, PathsJoin, Side
<1>6. OfferInv /\ FreshInv /\ OriginInv
      BY <1>2 DEF OfferInv, FreshInv, OriginInv, Side, Socket
<1>7. AnswerInv
      BY DEF AnswerInv, Side
<1>8. RelayOnlyInv
      BY <1>2 DEF RelayOnlyInv, Side, Socket
<1> QED BY <1>3, <1>4, <1>5, <1>6, <1>7, <1>8 DEF PathInv

LEMMA PathInvNext ==
    ASSUME PathInv, [SignalingNext]_signalingVars
    PROVE  PathInv'
<1>1. CASE UNCHANGED signalingVars
  <2>1. SignalingTypeOK' /\ PlaceInv' /\ OwnInv' /\ PathsJoin' /\ LinkedInv' /\ RelayOnlyInv'
        BY <1>1 DEF PathInv, SignalingTypeOK, PlaceInv, OwnInv, AgentsAccounted, PathsJoin,
                    LinkedInv, RelayOnlyInv, signalingVars, clientVars, iceVars, netVars
  <2>2. OfferInv' /\ FreshInv' /\ OriginInv' /\ AnswerInv'
        BY <1>1 DEF PathInv, OfferInv, FreshInv, OriginInv, AnswerInv, Learned, NoOffers,
               Answered,
                    signalingVars, clientVars, iceVars, netVars
  <2> QED BY <2>1, <2>2 DEF PathInv
<1>2. ASSUME NEW s \in Side, Connecting(s)
      PROVE  PathInv'
  <2>1. CASE ReadFails(s)
        BY <2>1, GiveUpKeeps DEF ReadFails
  <2>2. CASE \E c \in SocketOf(s) : Dial(s, c)
        BY <2>2, DialKeeps
  <2>3. CASE DialRefused(s) \/ Redial(s)
        BY <2>3, PauseKeeps
  <2> QED BY <1>2, <2>1, <2>2, <2>3, WaitPeerKeeps, SkipUpKeeps, GreetedKeeps DEF Connecting
<1>3. ASSUME NEW s \in Side, Negotiating(s)
      PROVE  PathInv'
  <2>1. CASE OfferFails(s) \/ AttemptFails(s)
        BY <2>1, GiveUpKeeps DEF OfferFails, AttemptFails
  <2> QED BY <1>3, <2>1, SendOfferKeeps, ConnectedKeeps DEF Negotiating
<1>4. ASSUME NEW s \in Side, PathLost(s) \/ Stop(s) \/ Start(s)
      PROVE  PathInv'
      BY <1>4, PathLostKeeps, StopKeeps, PauseKeeps
<1>5. CASE Hosting \/ ReadOffer
  <2>1. CASE RefusalFails
        BY <2>1, GiveUpKeeps DEF RefusalFails, Side
  <2> QED BY <1>5, <2>1, StartAttemptKeeps, ReadAnswerKeeps, RestKeeps, ReadOfferKeeps
             DEF Hosting
<1>6. ASSUME NEW c \in Socket, Serving(c) \/ SocketBreaks(c)
      PROVE  PathInv'
      BY <1>6, AnnounceKeeps, VacateKeeps, BreaksKeeps DEF Serving
<1> QED BY <1>1, <1>2, <1>3, <1>4, <1>5, <1>6, NominateKeeps DEF SignalingNext

LEMMA PathInvAlways == SignalingSpec => []PathInv
<1>1. PathInv /\ [SignalingNext]_signalingVars => PathInv'
      BY PathInvNext
<1> QED BY <1>1, PathInvInit, PTL DEF SignalingSpec

\* Two sockets whose hellos were exchanged and runners that both check: the answer
\* the host read was to its last offer.
LEMMA PathInvSound == PathInv => PathsSound
<1> SUFFICES ASSUME PathInv PROVE PathsSound
    OBVIOUS
<1>1. AgentsAccounted /\ PathsJoin
      BY DEF PathInv, OwnInv
<1>2. SameAttempt
  <2>1. SUFFICES ASSUME \A s \in Side : at[s] = "connecting" /\ sess[s] = sock[Peer(s)]
                 PROVE  gen["host"] = gen["guest"]
        BY DEF SameAttempt
  <2>2. /\ at["host"] = "connecting" /\ sess["host"] = sock["guest"] /\ at["guest"] = "connecting"
        BY <2>1 DEF Side, Peer
  <2>3. gen["guest"] \in {gen["host"], Nil}
        BY <2>2 DEF PathInv, AnswerInv
  <2>4. gen["guest"] # Nil
        BY <2>2 DEF PathInv, PlaceInv, Side, Attempting
  <2> QED BY <2>3, <2>4
<1>3. RelayOnlyKept
  <2>1. SUFFICES ASSUME relayOnly # {}
                 PROVE  /\ agents \subseteq {"host"} \X Generation
                        /\ \A s \in Side : path[s] = Nil
        BY DEF RelayOnlyKept
  <2>2. linked = {} /\ gen["guest"] = Nil /\ \A s \in Side : active[s] = Nil
        BY <2>1 DEF PathInv, RelayOnlyInv
  <2>3. agents \subseteq Side \X Generation
        BY DEF PathInv, SignalingTypeOK
  <2>4. \A g \in Generation : <<"guest", g>> \notin agents
        BY <2>2, <1>1, SocketAssumption DEF AgentsAccounted, Side
  <2> QED BY <2>2, <2>3, <2>4, <1>1 DEF AgentsAccounted, Side
<1> QED BY <1>1, <1>2, <1>3 DEF PathsSound

\* Type correctness of the two runners, their agents, the service's slots and the
\* messages between them: no socket holds more than its channel (api.go, readLoop).
THEOREM SignalingTypeCorrect == SignalingSpec => []SignalingTypeOK
<1>1. PathInv => SignalingTypeOK
      BY DEF PathInv
<1> QED BY <1>1, PathInvAlways, PTL

\* No agent leaks, the answer the host takes is to its last offer, a direct path
\* joins the two runners, and none is used beside a runner that asked for the
\* relay (runICENegotiation and maintainDirect of run.go, ice.go).
THEOREM DirectPathsSound == SignalingSpec => []PathsSound
BY PathInvAlways, PathInvSound, PTL

\* Reconnecting control, or an attempt that fails, never closes a direct path that
\* both ends keep (maintainDirect of run.go): only what a working network and a
\* running program would not do ends one.
THEOREM WorkingPathStays == SignalingSpec => WorkingPathKept
<1> DEFINE Kept == \A s \in Side :
                       (path[s] # Nil /\ <<Peer(s), path[s]>> \in agents /\ faults' = faults)
                           => path'[s] = path[s]
<1>1. ASSUME PathInv, [SignalingNext]_signalingVars
      PROVE  [Kept]_signalingVars
  <2> SUFFICES ASSUME SignalingNext, NEW s \in Side, path[s] # Nil,
                      <<Peer(s), path[s]>> \in agents, faults' = faults
               PROVE  path'[s] = path[s]
      BY <1>1
  <2>1. \A n \in 0..MaxFaults : n + 1 # n
        BY SignalingBounds
  <2>2. ~Fault
        BY <1>1, <2>1 DEF Fault, PathInv, SignalingTypeOK
  <2>3. CASE path' = path
        BY <2>3
  <2>4. ASSUME NEW t \in Side, PathLost(t)
        PROVE  path'[s] = path[s]
    <3>1. /\ path' = [path EXCEPT ![t] = Nil] /\ path[t] # Nil
          /\ ~({<<t, path[t]>>, <<Peer(t), path[t]>>} \subseteq agents)
          BY <2>2, <2>4 DEF PathLost
    <3>2. <<t, path[t]>> \in agents
          BY <1>1, <3>1 DEF PathInv, OwnInv, AgentsAccounted
    <3>3. t # s
          BY <3>1, <3>2
    <3> QED BY <1>1, <3>1, <3>3 DEF PathInv, SignalingTypeOK
  <2>5. ASSUME NEW t \in Side, Connected(t)
        PROVE  path'[s] = path[s]
    <3>1. /\ path' = [path EXCEPT ![t] = gen[t]] /\ at[t] = "connecting" /\ gen[t] # Nil
          /\ gen[t] \in linked
          BY <1>1, <2>5 DEF Connected, PathInv, PlaceInv, Attempting
    <3>2. t # s
      <4>1. SUFFICES ASSUME t = s PROVE FALSE
            OBVIOUS
      <4>2. t = "guest"
            BY <1>1, <3>1, <4>1 DEF PathInv, OwnInv, Side
      <4>3. \/ path["host"] = path["guest"]
            \/ gen["host"] = path["guest"] /\ at["host"] = "connecting"
            BY <1>1, <4>1, <4>2 DEF PathInv, PathsJoin, Peer
      <4>4. /\ gen["guest"] \in Generation /\ gen["guest"] # active["guest"]
            /\ <<"host", gen["guest"]>> \in agents /\ path["guest"] = active["guest"]
            /\ path["guest"] # Nil
        <5>1. gen["guest"] \in Generation
              BY <1>1, <3>1, <4>1, <4>2 DEF PathInv, SignalingTypeOK
        <5>2. <<"host", gen["guest"]>> \in agents
              BY <2>5, <4>1, <4>2 DEF Connected, Peer
        <5> QED BY <1>1, <3>1, <4>1, <4>2, <5>1, <5>2
                DEF PathInv, OwnInv, AgentsAccounted, Side
      <4>5. gen["guest"] \in {gen["host"], active["host"]}
            BY <1>1, <4>4 DEF PathInv, OwnInv, AgentsAccounted, Side
      <4>6. /\ gen["host"] # Nil => path["host"] = Nil
            /\ path["host"] # Nil => path["host"] = active["host"]
            /\ active["host"] # Nil /\ path["host"] = Nil => <<"host", active["host"]>> \notin agents
            BY <1>1 DEF PathInv, OwnInv, AgentsAccounted, Side
      <4> QED BY <3>1, <4>1, <4>2, <4>3, <4>4, <4>5, <4>6
    <3> QED BY <1>1, <3>1, <3>2 DEF PathInv, SignalingTypeOK
  <2> QED BY <2>2, <2>3, <2>4, <2>5
          DEF SignalingNext, Connecting, Negotiating, Hosting, Serving, Dial, DialRefused, Redial,
              WaitPeer, SkipUp, Greeted, ReadFails, SendOffer, OfferFails, AttemptFails, Stop,
              Start, StartAttempt, RefusalFails, ReadAnswer, Rest, ReadOffer, Nominate, Announce,
              Vacate, SocketBreaks, GiveUp, iceVars
<1>2. [][PathInv /\ [SignalingNext]_signalingVars => [Kept]_signalingVars]_signalingVars
      BY <1>1, PTL
<1> QED BY <1>1, PathInvAlways, PTL DEF SignalingSpec, WorkingPathKept

-----------------------------------------------------------------------------
(* The client: its parts in one state graph.                                 *)

LEMMA SessionOfClients == [ClientsNext]_clientsVars => [Next]_vars
BY DEF ClientsNext, clientsVars

LEMMA PairingOfClients == [ClientsNext]_clientsVars => [PairingNext]_pairingVars
BY DEF ClientsNext, clientsVars

LEMMA SignalingOfClients == [ClientsNext]_clientsVars => [SignalingNext]_signalingVars
BY DEF ClientsNext, clientsVars

LEMMA RelayAccessOfClients == [ClientsNext]_clientsVars => [RelayAccessNext]_relayAccessVars
BY DEF ClientsNext, clientsVars

\* In the state graph of all parts each part behaves as it does by itself.
THEOREM PartsOfClients ==
    ClientsSpec => Spec /\ PairingSpec /\ SignalingSpec /\ RelayAccessSpec
<1>1. ClientsInit => Init /\ PairingInit /\ SignalingInit /\ RelayAccessInit
      BY DEF ClientsInit
<1> QED BY <1>1, SessionOfClients, PairingOfClients, SignalingOfClients, RelayAccessOfClients, PTL
       DEF ClientsSpec, Spec, PairingSpec, SignalingSpec, RelayAccessSpec

\* Whatever the parts of a client do in between each other, every variable of every
\* part keeps its type.
THEOREM ClientsTypeCorrect == ClientsSpec => []ClientsTypeOK
<1>1. TypeOK /\ PairingTypeOK /\ SignalingTypeOK /\ RelayAccessTypeOK => ClientsTypeOK
      BY DEF ClientsTypeOK
<1> QED BY <1>1, PartsOfClients, TypeCorrect, PairingTypeCorrect, SignalingTypeCorrect,
           RelayAccessTypeCorrect, PTL
=============================================================================
