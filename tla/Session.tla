------------------------------ MODULE Session ------------------------------
(***************************************************************************)
(* The encrypted control sessions of internal/secure/session.go.           *)
(*                                                                         *)
(* Every reconnection of the two clients of a pair makes a new Session on  *)
(* each side from the same root secret and context; the rendezvous service *)
(* may lose, repeat, reorder or hold back what they send, and may hand a   *)
(* frame of one session to the next.  A session is named by its random     *)
(* challenge.  Encryption is ideal: a frame opens only under the key, role *)
(* and sequence number it was sealed with.                                 *)
(*                                                                         *)
(* The 64-bit word recvBits is the set of the positions of its ones.       *)
(***************************************************************************)
EXTENDS Integers, Sequences

CONSTANTS
    HostSession, GuestSession,  \* sessions created by the two sides
    Msg,                        \* plaintexts
    Window,                     \* sessionReplayWindow
    MaxSeq,                     \* ^uint64(0)
    None

VARIABLES
    hello,      \* sessions whose Hello has been made, and so may arrive
    peer,       \* whose challenge AcceptHello took; ready once there is one
    closed,     \* sessions that were closed
    nextSend,   \* the next sequence number Seal uses
    window,     \* haveRecv, highest and recvBits
    net,        \* every data frame ever sealed; none is ever used up
    delivered   \* history: the frames Open returned, in order

vars == <<hello, peer, closed, nextSend, window, net, delivered>>

Sess == HostSession \cup GuestSession
RoleOf(s) == IF s \in HostSession THEN "host" ELSE "guest"

\* Traffic keys are derived from the two challenges, one for each direction.
Key == [host : HostSession, guest : GuestSession]
Frame == [key : Key, role : {"host", "guest"}, seq : Nat, msg : Msg, by : Sess]
WindowState == [have : BOOLEAN, highest : Nat, bits : SUBSET (0..(Window - 1))]

ASSUME SessionAssumption ==
    /\ HostSession \cap GuestSession = {}
    /\ None \notin Sess
ASSUME WindowAssumption == Window \in Nat \ {0}
ASSUME SeqAssumption == MaxSeq \in Nat
-----------------------------------------------------------------------------
(* The replay window.                                                      *)

\* sequenceAvailable.
Available(w, seq) ==
    \/ ~w.have
    \/ seq > w.highest
    \/ w.highest - seq < Window /\ (w.highest - seq) \notin w.bits

\* Ones shifted out of the word are lost.
ShiftLeft(bits, n) == {b + n : b \in bits} \cap (0..(Window - 1))

\* Mutant: a jump ahead does not move the ones.
Mark_NoShift(w, seq) ==
    IF ~w.have
      THEN [have |-> TRUE, highest |-> seq, bits |-> {0}]
      ELSE IF seq > w.highest
        THEN [w EXCEPT !.highest = seq, !.bits = @ \cup {0}]
        ELSE [w EXCEPT !.bits = @ \cup {w.highest - seq}]
\* markSequence, for a sequence number that is available.
Mark(w, seq) ==
    IF ~w.have
      THEN [have |-> TRUE, highest |-> seq, bits |-> {0}]
      ELSE IF seq > w.highest
        THEN [w EXCEPT !.highest = seq,
                       !.bits = ShiftLeft(w.bits, seq - w.highest) \cup {0}]
        ELSE [w EXCEPT !.bits = @ \cup {w.highest - seq}]
-----------------------------------------------------------------------------
Ready(s) == s \notin closed /\ peer[s] # None

KeyOf(s) == IF s \in HostSession THEN [host |-> s, guest |-> peer[s]]
                                 ELSE [host |-> peer[s], guest |-> s]

\* Hello draws the challenge; calling it again returns the same frame.
Hello(s) ==
    /\ s \notin closed
    /\ hello' = hello \cup {s}
    /\ UNCHANGED <<peer, closed, nextSend, window, net, delivered>>

\* AcceptHello: once, after the own Hello, and only from the other role.
AcceptHello(s, t) ==
    /\ s \notin closed
    /\ s \in hello
    /\ peer[s] = None
    /\ t \in hello
    /\ RoleOf(t) # RoleOf(s)
    /\ peer' = [peer EXCEPT ![s] = t]
    /\ UNCHANGED <<hello, closed, nextSend, window, net, delivered>>

\* Mutant: a session does not stop at the last sequence number.
Seal_NoLimit(s, m) ==
    /\ Ready(s)
    /\ net' = net \cup {[key |-> KeyOf(s), role |-> RoleOf(s), seq |-> nextSend[s],
                         msg |-> m, by |-> s]}
    /\ nextSend' = [nextSend EXCEPT ![s] = (@ + 1) % (MaxSeq + 1)]
    /\ UNCHANGED <<hello, peer, closed, window, delivered>>

\* The counter is an unsigned integer of fixed width, with MaxSeq its largest
\* value: without the check it would wrap to 0.
Seal(s, m) ==
    /\ Ready(s)
    /\ nextSend[s] # MaxSeq
    /\ net' = net \cup {[key |-> KeyOf(s), role |-> RoleOf(s), seq |-> nextSend[s],
                         msg |-> m, by |-> s]}
    /\ nextSend' = [nextSend EXCEPT ![s] = (@ + 1) % (MaxSeq + 1)]
    /\ UNCHANGED <<hello, peer, closed, window, delivered>>

Authentic(s, f) == f.key = KeyOf(s)

\* Mutant: the window moves before the frame is authenticated.
Open_MarksFirst(s, f) ==
    /\ Ready(s)
    /\ f.role # RoleOf(s)
    /\ Available(window[s], f.seq)
    /\ window' = [window EXCEPT ![s] = Mark(@, f.seq)]
    /\ delivered' = IF Authentic(s, f) THEN [delivered EXCEPT ![s] = Append(@, f)]
                    ELSE delivered
    /\ UNCHANGED <<hello, peer, closed, nextSend, net>>

\* Mutant: the direction is not part of what is authenticated.
Open_AnyRole(s, f) ==
    /\ Ready(s)
    /\ Available(window[s], f.seq)
    /\ Authentic(s, f)
    /\ window' = [window EXCEPT ![s] = Mark(@, f.seq)]
    /\ delivered' = [delivered EXCEPT ![s] = Append(@, f)]
    /\ UNCHANGED <<hello, peer, closed, nextSend, net>>

\* A frame that is refused leaves the session as it was.
Open(s, f) ==
    /\ Ready(s)
    /\ f.role # RoleOf(s)
    /\ Available(window[s], f.seq)
    /\ Authentic(s, f)
    /\ window' = [window EXCEPT ![s] = Mark(@, f.seq)]
    /\ delivered' = [delivered EXCEPT ![s] = Append(@, f)]
    /\ UNCHANGED <<hello, peer, closed, nextSend, net>>

Close(s) ==
    /\ s \notin closed
    /\ closed' = closed \cup {s}
    /\ UNCHANGED <<hello, peer, nextSend, window, net, delivered>>
-----------------------------------------------------------------------------
Init ==
    /\ hello = {}
    /\ peer = [s \in Sess |-> None]
    /\ closed = {}
    /\ nextSend = [s \in Sess |-> 0]
    /\ window = [s \in Sess |-> [have |-> FALSE, highest |-> 0, bits |-> {}]]
    /\ net = {}
    /\ delivered = [s \in Sess |-> <<>>]

Next ==
    \/ \E s \in Sess : Hello(s) \/ Close(s)
    \/ \E s, t \in Sess : AcceptHello(s, t)
    \/ \E s \in Sess, m \in Msg : Seal(s, m)
    \/ \E s \in Sess, f \in net : Open(s, f)

Spec == Init /\ [][Next]_vars
-----------------------------------------------------------------------------
(* Properties.                                                             *)

TypeOK ==
    /\ hello \subseteq Sess
    /\ peer \in [Sess -> Sess \cup {None}]
    /\ closed \subseteq Sess
    /\ nextSend \in [Sess -> 0..MaxSeq]
    /\ window \in [Sess -> WindowState]
    /\ net \subseteq Frame
    /\ delivered \in [Sess -> Seq(Frame)]

SeqsOf(s) == {delivered[s][i].seq : i \in DOMAIN delivered[s]}

\* The window is exact: Open has room for a sequence number if and only if no
\* frame with that number was returned and it is less than a window behind
\* the highest that was.  So nothing is returned twice, nothing in reach is
\* refused, and frames that fail authentication do not move the window.
WindowExact ==
    \A s \in Sess, n \in 0..MaxSeq :
        Available(window[s], n) <=>
            /\ n \notin SeqsOf(s)
            /\ \A k \in SeqsOf(s) : k < n + Window

\* However often the network repeats a frame, a session returns it once.
NoReplay ==
    \A s \in Sess : \A i, j \in DOMAIN delivered[s] :
        delivered[s][i].seq = delivered[s][j].seq => i = j

\* What a session returns was sealed by the very session it took the hello
\* of, and that session took its hello: frames of earlier or later sessions
\* of the same pair never get through, nor do a session's own.
PeersAgree ==
    \A s \in Sess : \A i \in DOMAIN delivered[s] :
        LET t == delivered[s][i].by
        IN  t = peer[s] /\ peer[t] = s

\* No nonce is used for two messages: under one key and in one direction a
\* sequence number belongs to one frame, whatever sessions derived that key.
NonceOnce ==
    \A f, g \in net : (f.key = g.key /\ f.role = g.role /\ f.seq = g.seq) => f = g
=============================================================================
