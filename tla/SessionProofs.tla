---------------------------- MODULE SessionProofs ----------------------------
(*****************************************************************************)
(* Proofs about Session, for any number of sessions, any window and any      *)
(* bound on sequence numbers.  The window is exact because its bits are the  *)
(* distances from the highest number to the numbers returned; sessions do    *)
(* not mix because a frame's key names both challenges and its role the one  *)
(* that sealed it.                                                           *)
(*****************************************************************************)
EXTENDS Session, TLAPS

-----------------------------------------------------------------------------
(* Sessions.                                                                 *)

\* The other side of a session is one of the other role.
PeerInv == \A s \in Sess : peer[s] # None => RoleOf(peer[s]) # RoleOf(s)

\* The window says exactly which of the last numbers were returned.
Exact(w, D) ==
    /\ w.have <=> D # {}
    /\ w.have => w.highest \in D /\ \A k \in D : k <= w.highest
    /\ \A b \in 0..(Window - 1) : b \in w.bits <=> w.have /\ w.highest - b \in D
WindowInv == \A s \in Sess : Exact(window[s], SeqsOf(s))

\* A frame was sealed by a ready session with a number it has used up.
NetInv ==
    \A f \in net :
        /\ peer[f.by] # None
        /\ f.role = RoleOf(f.by)
        /\ f.key = KeyOf(f.by)
        /\ f.seq < nextSend[f.by]

DeliveredInv ==
    \A s \in Sess : \A i \in DOMAIN delivered[s] :
        /\ delivered[s][i] \in net
        /\ peer[s] # None
        /\ delivered[s][i].key = KeyOf(s)
        /\ delivered[s][i].role # RoleOf(s)

IInv == TypeOK /\ PeerInv /\ WindowInv /\ NetInv /\ NonceOnce /\ DeliveredInv /\ NoReplay

USE SessionAssumption, WindowAssumption, SeqAssumption
-----------------------------------------------------------------------------
(* The replay window.                                                        *)

\* A window that is exact accepts what has not been returned and is in reach.
LEMMA ExactAvailable ==
    ASSUME NEW w \in WindowState, NEW D \in SUBSET Nat, Exact(w, D), NEW n \in Nat
    PROVE  Available(w, n) <=> n \notin D /\ \A k \in D : k < n + Window
<1>1. CASE ~w.have
  BY <1>1 DEF Available, Exact
<1>2. CASE w.have /\ n > w.highest
  BY <1>2 DEF Available, Exact, WindowState
<1>3. CASE w.have /\ n <= w.highest /\ w.highest - n >= Window
  <2>1. w.highest \in D /\ ~(w.highest < n + Window)
    BY <1>3 DEF Exact, WindowState
  <2> QED BY <1>3, <2>1 DEF Available, WindowState
<1>4. CASE w.have /\ n <= w.highest /\ w.highest - n < Window
  <2>1. w.highest - n \in 0..(Window - 1) /\ w.highest - (w.highest - n) = n
    BY <1>4 DEF WindowState
  <2>2. (w.highest - n) \in w.bits <=> n \in D
    BY <1>4, <2>1 DEF Exact
  <2>3. \A k \in D : k < n + Window
    BY <1>4 DEF Exact, WindowState
  <2>4. ~(n > w.highest)
    BY <1>4 DEF WindowState
  <2> QED BY <1>4, <2>2, <2>3, <2>4 DEF Available
<1> QED BY <1>1, <1>2, <1>3, <1>4 DEF WindowState

\* Marking an available number keeps the window exact.
LEMMA MarkExact ==
    ASSUME NEW w \in WindowState, NEW D \in SUBSET Nat, Exact(w, D),
           NEW n \in Nat, Available(w, n)
    PROVE  /\ Mark(w, n) \in WindowState
           /\ Exact(Mark(w, n), D \cup {n})
<1> DEFINE v == Mark(w, n)
<1>1. CASE ~w.have
  <2>1. v = [have |-> TRUE, highest |-> n, bits |-> {0}]
    BY <1>1 DEF Mark
  <2>2. D = {}
    BY <1>1 DEF Exact
  <2>3. v \in WindowState
    BY <2>1 DEF WindowState
  <2>4. v.have /\ v.highest = n /\ v.bits = {0}
    BY <2>1
  <2>5. \A b \in 0..(Window - 1) : b \in {0} <=> n - b \in {n}
    OBVIOUS
  <2>6. Exact(v, D \cup {n})
    <3> HIDE DEF v
    <3> QED BY <2>2, <2>4, <2>5 DEF Exact
  <2> QED BY <2>3, <2>6
<1>2. CASE w.have /\ n > w.highest
  <2> DEFINE m == n - w.highest
  <2>1. v = [w EXCEPT !.highest = n, !.bits = ShiftLeft(w.bits, m) \cup {0}]
    BY <1>2 DEF Mark
  <2>2. v.have = w.have /\ v.highest = n /\ v.bits = ShiftLeft(w.bits, m) \cup {0}
    BY <2>1 DEF WindowState
  <2>3. v \in WindowState
    <3>1. ShiftLeft(w.bits, m) \cup {0} \in SUBSET (0..(Window - 1))
      BY DEF ShiftLeft
    <3> HIDE DEF m
    <3> QED BY <2>1, <3>1 DEF WindowState
  <2>4. \A k \in D \cup {n} : k <= n
    BY <1>2 DEF Exact, WindowState
  <2>5. ASSUME NEW b \in 0..(Window - 1)
        PROVE  b \in v.bits <=> n - b \in D \cup {n}
    <3>1. CASE b = 0
      BY <2>2, <3>1
    <3>2. CASE b > 0 /\ b < m
      <4>1. ~(n - b \in D)
        BY <1>2, <3>2 DEF Exact, WindowState
      <4>2. b \notin ShiftLeft(w.bits, m)
        BY <3>2 DEF ShiftLeft, WindowState
      <4> QED BY <2>2, <3>2, <4>1, <4>2
    <3>3. CASE b > 0 /\ b >= m
      <4>1. b - m \in 0..(Window - 1) /\ w.highest - (b - m) = n - b
        BY <1>2, <3>3 DEF WindowState
      <4>2. b \in ShiftLeft(w.bits, m) <=> b - m \in w.bits
        BY <1>2, <3>3 DEF ShiftLeft, WindowState
      <4>3. b - m \in w.bits <=> n - b \in D
        BY <1>2, <4>1 DEF Exact
      <4> QED BY <2>2, <3>3, <4>2, <4>3
    <3>4. b \in Nat /\ m \in Nat
      BY <1>2 DEF WindowState
    <3> HIDE DEF v, m
    <3> QED BY <3>1, <3>2, <3>3, <3>4
  <2>6. \A b \in 0..(Window - 1) : b \in v.bits <=> n - b \in D \cup {n}
    BY <2>5
  <2>7. Exact(v, D \cup {n})
    <3> HIDE DEF v
    <3> QED BY <1>2, <2>2, <2>4, <2>6 DEF Exact
  <2> QED BY <2>3, <2>7
<1>3. CASE w.have /\ n <= w.highest
  <2> DEFINE d == w.highest - n
  <2>1. d \in 0..(Window - 1)
    BY <1>3 DEF Available, WindowState
  <2>2. v = [w EXCEPT !.bits = @ \cup {d}]
    BY <1>3 DEF Mark, WindowState
  <2>3. v.have = w.have /\ v.highest = w.highest /\ v.bits = w.bits \cup {d}
    BY <2>2 DEF WindowState
  <2>4. v \in WindowState
    BY <2>1, <2>2 DEF WindowState
  <2>5. ASSUME NEW b \in 0..(Window - 1)
        PROVE  b \in v.bits <=> w.highest - b \in D \cup {n}
    <3>1. b = d <=> w.highest - b = n
      BY DEF WindowState
    <3> HIDE DEF d
    <3> QED BY <1>3, <2>3, <3>1 DEF Exact
  <2>6. w.highest \in D \cup {n} /\ \A k \in D \cup {n} : k <= w.highest
    BY <1>3 DEF Exact
  <2>7. \A b \in 0..(Window - 1) : b \in v.bits <=> w.highest - b \in D \cup {n}
    BY <2>5
  <2>8. Exact(v, D \cup {n})
    <3> HIDE DEF v, d
    <3> QED BY <1>3, <2>3, <2>6, <2>7 DEF Exact
  <2> QED BY <2>4, <2>8
<1> QED BY <1>1, <1>2, <1>3 DEF WindowState
-----------------------------------------------------------------------------
(* The steps.                                                                *)

\* What Open adds to the numbers a session returned.
LEMMA SeqsAppend ==
    ASSUME TypeOK, NEW s \in Sess, NEW f \in Frame,
           delivered' = [delivered EXCEPT ![s] = Append(@, f)]
    PROVE  /\ SeqsOf(s)' = SeqsOf(s) \cup {f.seq}
           /\ \A t \in Sess \ {s} : SeqsOf(t)' = SeqsOf(t)
<1>1. delivered[s] \in Seq(Frame) /\ delivered'[s] = Append(delivered[s], f)
  BY DEF TypeOK
<1>2. \A t \in Sess \ {s} : delivered'[t] = delivered[t]
  BY DEF TypeOK
<1>3. /\ DOMAIN delivered'[s] = DOMAIN delivered[s] \cup {Len(delivered[s]) + 1}
      /\ \A i \in DOMAIN delivered[s] : delivered'[s][i] = delivered[s][i]
      /\ delivered'[s][Len(delivered[s]) + 1] = f
  BY <1>1
<1> QED BY <1>2, <1>3 DEF SeqsOf

LEMMA SeqsSame ==
    ASSUME UNCHANGED delivered
    PROVE  \A s \in Sess : SeqsOf(s)' = SeqsOf(s)
BY DEF SeqsOf

LEMMA SeqsType ==
    ASSUME TypeOK, NEW s \in Sess
    PROVE  SeqsOf(s) \in SUBSET Nat
<1>1. delivered[s] \in Seq(Frame)
  BY DEF TypeOK
<1>2. \A i \in DOMAIN delivered[s] : delivered[s][i] \in Frame
  BY <1>1
<1> QED BY <1>2 DEF SeqsOf, Frame

LEMMA KeyType ==
    ASSUME TypeOK, PeerInv, NEW s \in Sess, peer[s] # None
    PROVE  KeyOf(s) \in Key
BY DEF TypeOK, PeerInv, KeyOf, Key, RoleOf, Sess

\* All but SealStep and OpenStep leave the frames and the windows alone.
LEMMA QuietStep ==
    ASSUME IInv, UNCHANGED <<nextSend, window, net, delivered>>,
           hello' \subseteq Sess, closed' \subseteq Sess,
           peer' \in [Sess -> Sess \cup {None}], PeerInv',
           \A s \in Sess : peer[s] # None => peer'[s] = peer[s]
    PROVE  IInv'
<1>1. \A s \in Sess : peer[s] # None => KeyOf(s)' = KeyOf(s)
  BY DEF KeyOf
<1>2. TypeOK' /\ NonceOnce' /\ NoReplay'
  BY DEF IInv, TypeOK, NonceOnce, NoReplay
<1>5. WindowInv'
  BY SeqsSame DEF IInv, WindowInv, Exact
<1>3. NetInv'
  BY <1>1 DEF IInv, NetInv, TypeOK, Frame
<1>4. DeliveredInv'
  BY <1>1 DEF IInv, DeliveredInv
<1> QED BY <1>2, <1>3, <1>4, <1>5 DEF IInv

\* Below the largest sequence number the counter does not wrap.
LEMMA NoWrap ==
    ASSUME NEW n \in 0..MaxSeq, n # MaxSeq
    PROVE  (n + 1) % (MaxSeq + 1) = n + 1
BY SeqAssumption

LEMMA SealStep ==
    ASSUME IInv, NEW s \in Sess, NEW m \in Msg, Seal(s, m)
    PROVE  IInv'
<1> DEFINE f == [key |-> KeyOf(s), role |-> RoleOf(s), seq |-> nextSend[s],
                 msg |-> m, by |-> s]
<1>1. /\ peer[s] # None /\ nextSend[s] # MaxSeq /\ net' = net \cup {f}
      /\ nextSend' = [nextSend EXCEPT ![s] = @ + 1]
      /\ UNCHANGED <<hello, peer, closed, window, delivered>>
  <2>1. nextSend[s] # MaxSeq /\ nextSend[s] \in 0..MaxSeq
    BY DEF Seal, IInv, TypeOK
  <2>2. (nextSend[s] + 1) % (MaxSeq + 1) = nextSend[s] + 1
    BY <2>1, NoWrap
  <2> QED BY <2>1, <2>2 DEF Seal, Ready
<1>2. f \in Frame
  <2>1. KeyOf(s) \in Key /\ RoleOf(s) \in {"host", "guest"} /\ nextSend[s] \in Nat
    BY <1>1, KeyType DEF IInv, TypeOK, RoleOf
  <2> QED BY <2>1 DEF Frame
<1>3. TypeOK'
  BY <1>1, <1>2 DEF IInv, TypeOK
<1>4. \A t \in Sess : KeyOf(t)' = KeyOf(t)
  BY <1>1 DEF KeyOf
<1>5. WindowInv'
  BY <1>1, SeqsSame DEF IInv, WindowInv, Exact
<1>9. PeerInv' /\ NoReplay' /\ DeliveredInv'
  BY <1>1, <1>4 DEF IInv, PeerInv, NoReplay, DeliveredInv
<1>6. ASSUME NEW g \in net PROVE g.key = f.key /\ g.role = f.role => g.seq < f.seq
  <2>1. g.by \in Sess /\ g.role = RoleOf(g.by) /\ g.key = KeyOf(g.by) /\ g.seq < nextSend[g.by]
    BY <1>6 DEF IInv, NetInv, TypeOK, Frame
  <2>2. ASSUME g.key = f.key, g.role = f.role PROVE g.by = s
    BY <2>1, <2>2 DEF KeyOf, RoleOf, Sess
  <2> QED BY <2>1, <2>2
<1>7. NetInv'
  <2>1. ASSUME NEW g \in net PROVE g.seq < nextSend'[g.by] /\ g.by \in Sess
    BY <1>1, <2>1 DEF IInv, NetInv, TypeOK, Frame
  <2>2. f.by = s /\ f.seq < nextSend'[s] /\ f.key = KeyOf(s) /\ f.role = RoleOf(s)
    BY <1>1 DEF IInv, TypeOK
  <2> HIDE DEF f
  <2> QED BY <1>1, <1>4, <2>1, <2>2 DEF IInv, NetInv, RoleOf
<1>8. NonceOnce'
  <2>1. \A g \in net : g.seq \in Nat /\ f.seq \in Nat
    BY <1>2 DEF IInv, TypeOK, Frame
  <2> HIDE DEF f
  <2> QED BY <1>1, <1>6, <2>1 DEF IInv, NonceOnce
<1> QED BY <1>3, <1>5, <1>7, <1>8, <1>9 DEF IInv

LEMMA OpenStep ==
    ASSUME IInv, NEW s \in Sess, NEW f \in net, Open(s, f)
    PROVE  IInv'
<1>1. /\ peer[s] # None /\ f.role # RoleOf(s) /\ Available(window[s], f.seq)
      /\ f.key = KeyOf(s)
      /\ window' = [window EXCEPT ![s] = Mark(@, f.seq)]
      /\ delivered' = [delivered EXCEPT ![s] = Append(@, f)]
      /\ UNCHANGED <<hello, peer, closed, nextSend, net>>
  BY DEF Open, Ready, Authentic
<1>2. f \in Frame /\ f.seq \in Nat
  BY DEF IInv, TypeOK, Frame
<1>3. window[s] \in WindowState /\ SeqsOf(s) \in SUBSET Nat /\ Exact(window[s], SeqsOf(s))
  BY SeqsType DEF IInv, TypeOK, WindowInv
<1>4. Mark(window[s], f.seq) \in WindowState
      /\ Exact(Mark(window[s], f.seq), SeqsOf(s) \cup {f.seq})
  BY <1>1, <1>2, <1>3, MarkExact
<1>5. SeqsOf(s)' = SeqsOf(s) \cup {f.seq} /\ \A t \in Sess \ {s} : SeqsOf(t)' = SeqsOf(t)
  BY <1>1, <1>2, SeqsAppend DEF IInv
<1>6. delivered'[s] = Append(delivered[s], f) /\ delivered[s] \in Seq(Frame)
  BY <1>1 DEF IInv, TypeOK
<1>7. \A t \in Sess \ {s} : delivered'[t] = delivered[t]
  BY <1>1 DEF IInv, TypeOK
<1>8. TypeOK'
  <2>1. delivered' \in [Sess -> Seq(Frame)]
    BY <1>1, <1>2 DEF IInv, TypeOK
  <2>2. window' \in [Sess -> WindowState]
    BY <1>1, <1>4 DEF IInv, TypeOK
  <2> QED BY <1>1, <2>1, <2>2 DEF IInv, TypeOK
<1>9. WindowInv'
  <2>1. window'[s] = Mark(window[s], f.seq) /\ \A t \in Sess \ {s} : window'[t] = window[t]
    BY <1>1 DEF IInv, TypeOK
  <2>2. Exact(window'[s], SeqsOf(s)')
    BY <1>4, <1>5, <2>1
  <2>3. ASSUME NEW t \in Sess \ {s} PROVE Exact(window'[t], SeqsOf(t)')
    BY <1>5, <2>1 DEF IInv, WindowInv
  <2> QED BY <2>2, <2>3 DEF WindowInv, Exact
<1>10. \A t \in Sess : KeyOf(t)' = KeyOf(t)
  BY <1>1 DEF KeyOf
<1>11. PeerInv' /\ NetInv' /\ NonceOnce'
  BY <1>1, <1>10 DEF IInv, PeerInv, NetInv, NonceOnce, TypeOK, Frame
<1>12. /\ DOMAIN delivered'[s] = DOMAIN delivered[s] \cup {Len(delivered[s]) + 1}
       /\ \A i \in DOMAIN delivered[s] : delivered'[s][i] = delivered[s][i]
       /\ delivered'[s][Len(delivered[s]) + 1] = f
  BY <1>6
<1>13. DeliveredInv'
  <2>1. ASSUME NEW t \in Sess, NEW i \in DOMAIN delivered'[t]
        PROVE  \/ t = s /\ delivered'[t][i] = f
               \/ i \in DOMAIN delivered[t] /\ delivered'[t][i] = delivered[t][i]
    BY <1>7, <1>12
  <2> QED BY <1>1, <1>10, <2>1 DEF IInv, DeliveredInv
<1>14. f.seq \notin SeqsOf(s)
  BY <1>1, <1>2, <1>3, ExactAvailable
<1>15. NoReplay'
  <2>1. \A i \in DOMAIN delivered[s] : delivered[s][i].seq # f.seq
    BY <1>14 DEF SeqsOf
  <2>2. \A i, j \in DOMAIN delivered'[s] :
            delivered'[s][i].seq = delivered'[s][j].seq => i = j
    BY <1>12, <2>1 DEF IInv, NoReplay
  <2> QED BY <1>7, <2>2 DEF IInv, NoReplay
<1> QED BY <1>8, <1>9, <1>11, <1>13, <1>15 DEF IInv

LEMMA NextStep == IInv /\ [Next]_vars => IInv'
<1> SUFFICES ASSUME IInv, [Next]_vars PROVE IInv'
  OBVIOUS
<1>1. ASSUME NEW s \in Sess, Hello(s) PROVE IInv'
  BY <1>1, QuietStep DEF Hello, IInv, TypeOK, PeerInv
<1>2. ASSUME NEW s \in Sess, Close(s) PROVE IInv'
  BY <1>2, QuietStep DEF Close, IInv, TypeOK, PeerInv
<1>3. ASSUME NEW s \in Sess, NEW t \in Sess, AcceptHello(s, t) PROVE IInv'
  <2>1. /\ peer' = [peer EXCEPT ![s] = t] /\ RoleOf(t) # RoleOf(s) /\ peer[s] = None
        /\ UNCHANGED <<hello, closed, nextSend, window, net, delivered>>
    BY <1>3 DEF AcceptHello
  <2>2. PeerInv'
    BY <2>1 DEF IInv, TypeOK, PeerInv, RoleOf
  <2>3. \A x \in Sess : peer[x] # None => peer'[x] = peer[x]
    BY <2>1 DEF IInv, TypeOK
  <2> QED BY <2>1, <2>2, <2>3, QuietStep DEF IInv, TypeOK
<1>4. CASE UNCHANGED vars
  BY <1>4, QuietStep DEF vars, IInv, TypeOK, PeerInv
<1> QED BY <1>1, <1>2, <1>3, <1>4, SealStep, OpenStep DEF Next

LEMMA InitStep == Init => IInv
BY DEF Init, IInv, TypeOK, PeerInv, WindowInv, Exact, SeqsOf, NetInv, NonceOnce,
       DeliveredInv, NoReplay, WindowState
-----------------------------------------------------------------------------
THEOREM Inductive == Spec => []IInv
BY InitStep, NextStep, PTL DEF Spec

\* Every variable keeps its type; the window's bits stay in their word.
THEOREM TypeCorrect == Spec => []TypeOK
<1>1. IInv => TypeOK
  BY DEF IInv
<1> QED BY <1>1, Inductive, PTL

\* The replay window of session.go is exact, for any width.
THEOREM WindowIsExact == Spec => []WindowExact
<1>1. ASSUME IInv PROVE WindowExact
  <2> SUFFICES ASSUME NEW s \in Sess, NEW n \in 0..MaxSeq
               PROVE  Available(window[s], n) <=>
                        n \notin SeqsOf(s) /\ \A k \in SeqsOf(s) : k < n + Window
    BY DEF WindowExact
  <2>1. window[s] \in WindowState /\ SeqsOf(s) \in SUBSET Nat /\ Exact(window[s], SeqsOf(s))
    BY <1>1, SeqsType DEF IInv, TypeOK, WindowInv
  <2> QED BY <2>1, ExactAvailable
<1> QED BY <1>1, Inductive, PTL

\* A session returns no frame twice, whatever the network repeats.
THEOREM NothingReplayed == Spec => []NoReplay
<1>1. IInv => NoReplay
  BY DEF IInv
<1> QED BY <1>1, Inductive, PTL

\* A session returns only what the one session it agreed with sealed.
THEOREM SessionsAgree == Spec => []PeersAgree
<1>1. ASSUME IInv PROVE PeersAgree
  <2> SUFFICES ASSUME NEW s \in Sess, NEW i \in DOMAIN delivered[s]
               PROVE  /\ delivered[s][i].by = peer[s]
                      /\ peer[delivered[s][i].by] = s
    BY DEF PeersAgree
  <2> DEFINE f == delivered[s][i]
  <2>1. f \in net /\ f.key = KeyOf(s) /\ f.role # RoleOf(s)
    BY <1>1 DEF IInv, DeliveredInv
  <2>2. f.by \in Sess /\ f.role = RoleOf(f.by) /\ f.key = KeyOf(f.by)
    BY <1>1, <2>1 DEF IInv, NetInv, TypeOK, Frame
  <2> HIDE DEF f
  <2>3. f.by = peer[s] /\ peer[f.by] = s
    BY <2>1, <2>2 DEF KeyOf, RoleOf, Sess
  <2> QED BY <2>3 DEF f
<1> QED BY <1>1, Inductive, PTL

\* Seal uses no nonce twice, whichever sessions derived the key.
THEOREM NoncesUsedOnce == Spec => []NonceOnce
<1>1. IInv => NonceOnce
  BY DEF IInv
<1> QED BY <1>1, Inductive, PTL
=============================================================================
