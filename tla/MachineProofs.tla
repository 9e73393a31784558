---------------------------- MODULE MachineProofs ----------------------------
(*****************************************************************************)
(* Proofs about the network helper, NetHelper, the life of a connection and  *)
(* its service, Lifecycle, and the state graph of all parts of a machine,    *)
(* MCMachine, with those of UpdateProofs: for any number of sessions,        *)
(* helpers and configurations, any plan of setup steps, any platforms,       *)
(* terminals and commands.                                                   *)
(*****************************************************************************)
EXTENDS MCMachine, UpdateProofs, FiniteSetTheorems, TLAPS

-----------------------------------------------------------------------------
(*****************************************************************************)
(* NetHelper: an interface belongs to the one session that is in a phase     *)
(* that owns one, so cleaning up needs no trust in the steps that failed:    *)
(* closing the device is enough.  Of the sessions of helpers only one at a   *)
(* time is under the network lock, so what its check of the routes found     *)
(* free stays free of the others until its setup is over.                    *)
(*****************************************************************************)
\* A session that owns an interface has one, under the name it asked for, with
\* no more than its own two addresses.
OwnerInv ==
    \A s \in Session :
        /\ condition[s] \notin {"idle", "reading"} => request[s] \in Config
        /\ condition[s] \notin Owning \cup {"closed", "astray"} => applied[s] = 0
        /\ condition[s] = "astray" => s \in rooted
        /\ condition[s] \in Owning =>
              /\ Mine(s)
              /\ link[request[s].name].holds \subseteq {request[s].local, request[s].peer, Up}

\* A helper's session that works under the lock has it; one whose client has the
\* privileges neither waits for it nor has it.
LockInv ==
    /\ network \notin rooted
    /\ \A s \in rooted : condition[s] \notin {"reading", "waiting"}
    /\ \A s \in Session \ rooted : condition[s] \in Locked => network = s

\* What the check of the routes found free of other helpers' sessions stays so.
FreeInv ==
    \A s \in Session \ rooted : condition[s] \in {"creating", "stepping"} =>
        \A n \in Link : link[n].owner \in (Session \ rooted) \ {s} =>
            link[n].holds \cap {request[s].local, request[s].peer} = {}

HelperInv ==
    NetHelperTypeOK /\ NothingLeft /\ DisjointAddresses /\ OwnerInv /\ LockInv /\ FreeInv

USE NetHelperAssumption
-----------------------------------------------------------------------------
\* A helper that takes up no session has no more than it had.
LEMMA SlotsKept ==
    ASSUME HelperInv, \A u \in Helper : Served(u)' \subseteq Served(u)
    PROVE  \A u \in Helper : Cardinality(Served(u)') <= Slots
<1> SUFFICES ASSUME NEW u \in Helper PROVE Cardinality(Served(u)') <= Slots
  OBVIOUS
<1>1. IsFiniteSet(Served(u)) /\ IsFiniteSet(Served(u)')
  BY FS_Subset DEF Served
<1>2. Cardinality(Served(u)') <= Cardinality(Served(u))
  BY <1>1, FS_Subset
<1>3. Cardinality(Served(u)) <= Slots
  BY DEF HelperInv, NetHelperTypeOK
<1>4. Cardinality(Served(u)) \in Nat /\ Cardinality(Served(u)') \in Nat
  BY <1>1, FS_CardinalityType
<1> QED BY <1>2, <1>3, <1>4

\* A session that owns an interface owns the one of its name and no other.
LEMMA OneEach ==
    ASSUME HelperInv, NEW t \in Session, condition[t] \in Owning
    PROVE  /\ request[t] \in Config /\ request[t].name \in Link
           /\ \A n \in Link : link[n].owner = t <=> n = request[t].name
<1>1. request[t] \in Config /\ Mine(t)
  BY DEF HelperInv, OwnerInv, Owning
<1>2. t # Nobody /\ request[t].name \in Link
  BY <1>1 DEF Link
<1> QED BY <1>1, <1>2 DEF HelperInv, NothingLeft, Mine

\* Closing the device of such a session frees the interfaces of this session.
LEMMA ClosingFrees ==
    ASSUME HelperInv, NEW t \in Session, condition[t] \in Owning, Closing(t)
    PROVE  link' = [n \in Link |-> IF link[n].owner \in {t} THEN NoLink ELSE link[n]]
<1> DEFINE freed == [n \in Link |-> IF link[n].owner \in {t} THEN NoLink ELSE link[n]]
<1>1. /\ request[t].name \in Link
      /\ \A n \in Link : link[n].owner = t <=> n = request[t].name
  BY OneEach
<1>2. link' = [link EXCEPT ![request[t].name] = NoLink]
  BY <1>1 DEF Closing, Mine
<1>3. link \in [Link -> [owner : Session \cup {Nobody}, holds : SUBSET (Address \cup {Up})]]
  BY DEF HelperInv, NetHelperTypeOK
<1>4. \A n \in Link : link'[n] = freed[n]
  BY <1>1, <1>2, <1>3
<1>5. link' = [n \in Link |-> link'[n]] /\ freed = [n \in Link |-> freed[n]]
  BY <1>2, <1>3
<1> QED BY <1>4, <1>5

\* Sessions end, and their interfaces with them.
LEMMA FreedKeeps ==
    ASSUME HelperInv, NEW dead \in SUBSET Session,
           rooted' = rooted,
           link' = [n \in Link |-> IF link[n].owner \in dead THEN NoLink ELSE link[n]],
           \A s \in Session \ dead : /\ condition'[s] = condition[s]
                                     /\ request'[s] = request[s]
                                     /\ applied'[s] = applied[s],
           \A s \in dead : \/ condition'[s] = "idle" /\ applied'[s] = 0
                           \/ condition'[s] = "closed" /\ request'[s] \in Config
                           \/ condition'[s] = "astray" /\ request'[s] \in Config /\ s \in rooted
    PROVE  /\ link' \in [Link -> [owner : Session \cup {Nobody}, holds : SUBSET (Address \cup {Up})]]
           /\ NothingLeft' /\ DisjointAddresses' /\ OwnerInv' /\ FreeInv'
<1>1. link \in [Link -> [owner : Session \cup {Nobody}, holds : SUBSET (Address \cup {Up})]]
  BY DEF HelperInv, NetHelperTypeOK
<1>2. NoLink \in [owner : Session \cup {Nobody}, holds : SUBSET (Address \cup {Up})]
  BY DEF NoLink
<1>3. link' \in [Link -> [owner : Session \cup {Nobody}, holds : SUBSET (Address \cup {Up})]]
  BY <1>1, <1>2
<1>4. \A n \in Link : IF link[n].owner \in dead
                        THEN link'[n].owner = Nobody /\ link'[n].holds = {}
                        ELSE link'[n] = link[n]
  BY DEF NoLink
<1>5. Nobody \notin Session
  OBVIOUS
<1>6. NothingLeft'
  <2> SUFFICES ASSUME NEW n \in Link
               PROVE  IF link'[n].owner = Nobody THEN link'[n].holds = {}
                      ELSE /\ condition'[link'[n].owner] \in Owning
                           /\ request'[link'[n].owner].name = n
    BY DEF NothingLeft
  <2>1. CASE link[n].owner \in dead
    BY <1>4, <2>1
  <2>2. CASE link[n].owner = Nobody
    BY <1>4, <1>5, <2>2 DEF HelperInv, NothingLeft
  <2>3. CASE link[n].owner \in Session \ dead
    BY <1>4, <1>5, <2>3 DEF HelperInv, NothingLeft
  <2> QED BY <1>1, <2>1, <2>2, <2>3
<1>7. DisjointAddresses'
  BY <1>4, <1>5 DEF HelperInv, DisjointAddresses
<1>8. OwnerInv'
  <2> SUFFICES ASSUME NEW s \in Session
               PROVE  /\ condition'[s] \notin {"idle", "reading"} => request'[s] \in Config
                      /\ condition'[s] \notin Owning \cup {"closed", "astray"} => applied'[s] = 0
                      /\ condition'[s] = "astray" => s \in rooted
                      /\ condition'[s] \in Owning =>
                            /\ link'[request'[s].name].owner = s
                            /\ link'[request'[s].name].holds
                                  \subseteq {request'[s].local, request'[s].peer, Up}
    BY DEF OwnerInv, Mine
  <2>1. CASE s \in dead
    BY <2>1 DEF Owning
  <2>2. CASE s \notin dead
    <3>1. /\ condition'[s] = condition[s] /\ request'[s] = request[s]
          /\ applied'[s] = applied[s]
      BY <2>2
    <3>2. /\ condition[s] \notin {"idle", "reading"} => request[s] \in Config
          /\ condition[s] \notin Owning \cup {"closed", "astray"} => applied[s] = 0
          /\ condition[s] = "astray" => s \in rooted
      BY DEF HelperInv, OwnerInv
    <3>3. CASE condition[s] \in Owning
      <4>1. /\ request[s].name \in Link /\ link[request[s].name].owner = s
            /\ link[request[s].name].holds \subseteq {request[s].local, request[s].peer, Up}
        BY <3>3, OneEach DEF HelperInv, OwnerInv
      <4>2. link'[request[s].name] = link[request[s].name]
        BY <1>4, <2>2, <4>1
      <4> QED BY <3>1, <3>2, <4>1, <4>2
    <3> QED BY <3>1, <3>2, <3>3
  <2> QED BY <2>1, <2>2
<1>9. FreeInv'
  <2> SUFFICES ASSUME NEW s \in Session \ rooted, condition'[s] \in {"creating", "stepping"},
                      NEW n \in Link, link'[n].owner \in (Session \ rooted) \ {s}
               PROVE  link'[n].holds \cap {request'[s].local, request'[s].peer} = {}
    BY DEF FreeInv
  <2>1. s \notin dead /\ condition[s] \in {"creating", "stepping"} /\ request'[s] = request[s]
    OBVIOUS
  <2>2. link'[n] = link[n]
    BY <1>4, <1>5
  <2> QED BY <2>1, <2>2 DEF HelperInv, FreeInv
<1> QED BY <1>3, <1>6, <1>7, <1>8, <1>9

\* A setup step succeeds, or fails half way: the interface gets addresses of its
\* session, which hold the lock if a helper serves it.
LEMMA SteppedKeeps ==
    ASSUME HelperInv, NEW t \in Session, condition[t] = "stepping",
           NEW done \in SUBSET {request[t].local, request[t].peer, Up},
           link' = [link EXCEPT ![request[t].name].holds = @ \cup done],
           rooted' = rooted, request' = request,
           \A s \in Session : s # t => condition'[s] = condition[s],
           condition'[t] \in {"stepping", "undoing"}
    PROVE  /\ link' \in [Link -> [owner : Session \cup {Nobody}, holds : SUBSET (Address \cup {Up})]]
           /\ NothingLeft' /\ DisjointAddresses' /\ FreeInv'
<1> DEFINE a == request[t].name
<1>1. /\ request[t] \in Config /\ a \in Link
      /\ \A n \in Link : link[n].owner = t <=> n = a
  BY OneEach DEF Owning
<1>2. link \in [Link -> [owner : Session \cup {Nobody}, holds : SUBSET (Address \cup {Up})]]
  BY DEF HelperInv, NetHelperTypeOK
<1>3. done \subseteq Address \cup {Up}
  BY <1>1 DEF Address
<1>4. /\ link' \in [Link -> [owner : Session \cup {Nobody}, holds : SUBSET (Address \cup {Up})]]
      /\ \A n \in Link : n # a => link'[n] = link[n]
      /\ link'[a].owner = t /\ link'[a].holds = link[a].holds \cup done
  BY <1>1, <1>2, <1>3
<1>5. link'[a].holds \subseteq {request[t].local, request[t].peer, Up}
  <2>1. link[a].holds \subseteq {request[t].local, request[t].peer, Up}
    BY DEF HelperInv, OwnerInv, Owning
  <2> QED BY <1>4, <2>1
<1>6. t # Nobody /\ condition'[t] \in Owning
  BY DEF Owning
<1> HIDE DEF a
<1>7. NothingLeft'
  <2> SUFFICES ASSUME NEW n \in Link
               PROVE  IF link'[n].owner = Nobody THEN link'[n].holds = {}
                      ELSE /\ condition'[link'[n].owner] \in Owning
                           /\ request[link'[n].owner].name = n
    BY DEF NothingLeft
  <2>1. CASE n = a
    BY <1>4, <1>6, <2>1 DEF a
  <2>2. CASE n # a
    BY <1>1, <1>2, <1>4, <2>2 DEF HelperInv, NothingLeft
  <2> QED BY <2>1, <2>2
<1>8. t \in Session \ rooted => \A n \in Link :
          n # a /\ link[n].owner \in Session \ rooted
          => link[n].holds \cap link'[a].holds \cap Address = {}
  <2> SUFFICES ASSUME t \in Session \ rooted,
                      NEW n \in Link, n # a, link[n].owner \in Session \ rooted
               PROVE  link[n].holds \cap {request[t].local, request[t].peer} = {}
    BY <1>5
  <2>1. link[n].owner # t
    BY <1>1
  <2> QED BY <2>1 DEF HelperInv, FreeInv
<1>9. DisjointAddresses'
  <2> SUFFICES ASSUME NEW m \in Link, NEW n \in Link, m # n,
                      link'[m].owner \in Session \ rooted, link'[n].owner \in Session \ rooted
               PROVE  link'[m].holds \cap link'[n].holds \cap Address = {}
    BY DEF DisjointAddresses
  <2>1. CASE m # a /\ n # a
    BY <1>4, <2>1 DEF HelperInv, DisjointAddresses
  <2>2. CASE m = a
    BY <1>4, <1>8, <2>2
  <2>3. CASE n = a
    BY <1>4, <1>8, <2>3
  <2> QED BY <2>1, <2>2, <2>3
<1>10. FreeInv'
  <2> SUFFICES ASSUME NEW s \in Session \ rooted, condition'[s] \in {"creating", "stepping"},
                      NEW n \in Link, link'[n].owner \in (Session \ rooted) \ {s}
               PROVE  link'[n].holds \cap {request[s].local, request[s].peer} = {}
    BY DEF FreeInv
  <2>1. condition[s] \in {"creating", "stepping"}
    OBVIOUS
  <2>2. CASE n # a
    BY <1>4, <2>1, <2>2 DEF HelperInv, FreeInv
  <2>3. CASE n = a
    <3>1. t \in Session \ rooted /\ s # t
      BY <1>4, <2>3
    <3>2. network = t /\ network = s
      BY <2>1, <3>1 DEF HelperInv, LockInv, Locked
    <3> QED BY <3>1, <3>2
  <2> QED BY <2>2, <2>3
<1> QED BY <1>4, <1>7, <1>9, <1>10

-----------------------------------------------------------------------------
(* Every step keeps the invariant.                                           *)

\* A session joins the ones its helper serves, of which there was one too few.
LEMMA AcceptKeeps ==
    ASSUME HelperInv, NEW t \in Session, NEW h \in Helper, Accept(t, h)
    PROVE  HelperInv'
<1>1. NetHelperTypeOK'
  <2>1. \A u \in Helper : Cardinality(Served(u)') <= Slots
    <3> SUFFICES ASSUME NEW u \in Helper PROVE Cardinality(Served(u)') <= Slots
      OBVIOUS
    <3>1. IsFiniteSet(Served(u)) /\ Cardinality(Served(u)) \in Nat
      BY FS_Subset, FS_CardinalityType DEF Served
    <3>2. CASE u = h
      <4>1. Served(u)' = Served(u) \cup {t} /\ Cardinality(Served(u)) < Slots
        BY <3>2 DEF Accept, Served, HelperInv, NetHelperTypeOK
      <4>2. Cardinality(Served(u)') \in {Cardinality(Served(u)), Cardinality(Served(u)) + 1}
        BY <3>1, <4>1, FS_AddElement
      <4> QED BY <3>1, <4>1, <4>2
    <3>3. CASE u # h
      <4>1. Served(u)' \subseteq Served(u)
        BY <3>3 DEF Accept, Served, HelperInv, NetHelperTypeOK
      <4>2. Cardinality(Served(u)') <= Cardinality(Served(u)) /\ Cardinality(Served(u)') \in Nat
        BY <3>1, <4>1, FS_Subset, FS_CardinalityType
      <4> QED BY <3>1, <4>2 DEF HelperInv, NetHelperTypeOK
    <3> QED BY <3>2, <3>3
  <2> QED BY <2>1 DEF Accept, Moves, HelperInv, NetHelperTypeOK, Phases, Locked
<1>2. NothingLeft'
  BY DEF Accept, Moves, HelperInv, NothingLeft, Owning
<1>3. DisjointAddresses'
  BY DEF Accept, Moves, HelperInv, DisjointAddresses
<1>4. OwnerInv'
  BY DEF Accept, Moves, HelperInv, OwnerInv, Mine, Owning
<1>5. LockInv'
  BY DEF Accept, Moves, HelperInv, LockInv, Locked
<1>6. FreeInv'
  BY DEF Accept, Moves, HelperInv, FreeInv
<1> QED BY <1>1, <1>2, <1>3, <1>4, <1>5, <1>6 DEF HelperInv

\* A session that was never asked for an interface has none.
LEMMA DismissKeeps ==
    ASSUME HelperInv, NEW t \in Session, Dismiss(t)
    PROVE  HelperInv'
<1>1. \A u \in Helper : Served(u)' \subseteq Served(u)
  BY DEF Dismiss, Ends, Served, HelperInv, NetHelperTypeOK
<1>2. NetHelperTypeOK'
  BY <1>1, SlotsKept DEF Dismiss, Ends, HelperInv, NetHelperTypeOK, Phases, Locked
<1>3. NothingLeft'
  BY DEF Dismiss, Ends, HelperInv, NothingLeft, Owning
<1>4. DisjointAddresses'
  BY DEF Dismiss, Ends, HelperInv, DisjointAddresses
<1>5. OwnerInv'
  BY DEF Dismiss, Ends, HelperInv, OwnerInv, Mine, Owning
<1>6. LockInv'
  BY DEF Dismiss, Ends, HelperInv, LockInv, Locked
<1>7. FreeInv'
  BY DEF Dismiss, Ends, HelperInv, FreeInv
<1> QED BY <1>2, <1>3, <1>4, <1>5, <1>6, <1>7 DEF HelperInv

LEMMA AskHelperKeeps ==
    ASSUME HelperInv, NEW t \in Session, NEW c \in Config, AskHelper(t, c)
    PROVE  HelperInv'
<1>1. \A u \in Helper : Served(u)' \subseteq Served(u)
  BY DEF AskHelper, Moves, Served, HelperInv, NetHelperTypeOK
<1>2. NetHelperTypeOK'
  BY <1>1, SlotsKept DEF AskHelper, Moves, HelperInv, NetHelperTypeOK, Phases, Locked
<1>3. NothingLeft'
  BY DEF AskHelper, Moves, HelperInv, NothingLeft, Owning
<1>4. DisjointAddresses'
  BY DEF AskHelper, Moves, HelperInv, DisjointAddresses
<1>5. OwnerInv'
  BY DEF AskHelper, Moves, HelperInv, NetHelperTypeOK, NothingLeft, OwnerInv, Mine,
         NoLink, Link, Owning
<1>6. LockInv'
  BY DEF AskHelper, Moves, HelperInv, LockInv, Locked
<1>7. FreeInv'
  BY DEF AskHelper, Moves, HelperInv, FreeInv
<1> QED BY <1>2, <1>3, <1>4, <1>5, <1>6, <1>7 DEF HelperInv

\* The lock goes to the session that will work under it.
LEMMA TakeNetworkLockKeeps ==
    ASSUME HelperInv, NEW t \in Session, TakeNetworkLock(t)
    PROVE  HelperInv'
<1>1. \A u \in Helper : Served(u)' \subseteq Served(u)
  BY DEF TakeNetworkLock, Moves, Served, HelperInv, NetHelperTypeOK
<1>2. NetHelperTypeOK'
  BY <1>1, SlotsKept DEF TakeNetworkLock, Moves, HelperInv, NetHelperTypeOK, Phases, Locked
<1>3. NothingLeft'
  BY DEF TakeNetworkLock, Moves, HelperInv, NothingLeft, Owning
<1>4. DisjointAddresses'
  BY DEF TakeNetworkLock, Moves, HelperInv, DisjointAddresses
<1>5. OwnerInv'
  BY DEF TakeNetworkLock, Moves, HelperInv, OwnerInv, Mine, Owning
<1>6. LockInv'
  BY DEF TakeNetworkLock, Moves, HelperInv, LockInv, Locked
<1>7. FreeInv'
  BY DEF TakeNetworkLock, Moves, HelperInv, FreeInv
<1> QED BY <1>2, <1>3, <1>4, <1>5, <1>6, <1>7 DEF HelperInv

\* A session without the lock has no interface yet.
LEMMA LockTimesOutKeeps ==
    ASSUME HelperInv, NEW t \in Session, LockTimesOut(t)
    PROVE  HelperInv'
<1>1. \A u \in Helper : Served(u)' \subseteq Served(u)
  BY DEF LockTimesOut, Ends, Served, HelperInv, NetHelperTypeOK
<1>2. NetHelperTypeOK'
  BY <1>1, SlotsKept DEF LockTimesOut, Ends, HelperInv, NetHelperTypeOK, Phases, Locked
<1>3. NothingLeft'
  BY DEF LockTimesOut, Ends, HelperInv, NothingLeft, Owning
<1>4. DisjointAddresses'
  BY DEF LockTimesOut, Ends, HelperInv, DisjointAddresses
<1>5. OwnerInv'
  BY DEF LockTimesOut, Ends, HelperInv, NetHelperTypeOK, OwnerInv, Mine, Owning
<1>6. LockInv'
  BY DEF LockTimesOut, Ends, HelperInv, LockInv, Locked
<1>7. FreeInv'
  BY DEF LockTimesOut, Ends, HelperInv, FreeInv
<1> QED BY <1>2, <1>3, <1>4, <1>5, <1>6, <1>7 DEF HelperInv

\* A client with privileges works without the lock.
LEMMA OpenItselfKeeps ==
    ASSUME HelperInv, NEW t \in Session, NEW c \in Config, OpenItself(t, c)
    PROVE  HelperInv'
<1>1. \A u \in Helper : Served(u)' \subseteq Served(u)
  BY DEF OpenItself, Moves, Served, HelperInv, NetHelperTypeOK
<1>2. NetHelperTypeOK'
  BY <1>1, SlotsKept DEF OpenItself, Moves, HelperInv, NetHelperTypeOK, Phases, Locked
<1>3. NothingLeft'
  BY DEF OpenItself, Moves, HelperInv, NothingLeft, Owning
<1>4. DisjointAddresses'
  BY DEF OpenItself, Moves, HelperInv, DisjointAddresses
<1>5. OwnerInv'
  BY DEF OpenItself, Moves, HelperInv, NetHelperTypeOK, NothingLeft, OwnerInv, Mine,
         NoLink, Link, Owning
<1>6. LockInv'
  BY DEF OpenItself, Moves, HelperInv, LockInv, Locked
<1>7. FreeInv'
  BY DEF OpenItself, Moves, HelperInv, FreeInv
<1> QED BY <1>2, <1>3, <1>4, <1>5, <1>6, <1>7 DEF HelperInv

\* What the machine's routes do not cover, no interface has.
LEMMA RoutesFreeKeeps ==
    ASSUME HelperInv, NEW t \in Session, RoutesFree(t)
    PROVE  HelperInv'
<1>1. \A u \in Helper : Served(u)' \subseteq Served(u)
  BY DEF RoutesFree, Moves, Served, HelperInv, NetHelperTypeOK
<1>2. NetHelperTypeOK'
  BY <1>1, SlotsKept DEF RoutesFree, Moves, Covered, HelperInv, NetHelperTypeOK, Phases, Locked
<1>3. NothingLeft'
  BY DEF RoutesFree, Moves, Covered, HelperInv, NothingLeft, Owning
<1>4. DisjointAddresses'
  BY DEF RoutesFree, Moves, Covered, HelperInv, DisjointAddresses
<1>5. OwnerInv'
  BY DEF RoutesFree, Moves, Covered, HelperInv, OwnerInv, Mine, Owning
<1>6. LockInv'
  BY DEF RoutesFree, Moves, Covered, HelperInv, LockInv, Locked
<1>7. FreeInv'
  BY DEF RoutesFree, Moves, Covered, HelperInv, FreeInv
<1> QED BY <1>2, <1>3, <1>4, <1>5, <1>6, <1>7 DEF HelperInv

\* A session that is refused gives back the lock and leaves no interface.
LEMMA RefusedKeeps ==
    ASSUME HelperInv, NEW t \in Session, Refused(t)
    PROVE  HelperInv'
<1>1. \A u \in Helper : Served(u)' \subseteq Served(u)
  BY DEF Refused, Ends, Served, HelperInv, NetHelperTypeOK
<1>2. NetHelperTypeOK'
  BY <1>1, SlotsKept DEF Refused, Ends, GiveBack, HelperInv, NetHelperTypeOK, Phases
<1>3. NothingLeft'
  BY DEF Refused, Ends, GiveBack, HelperInv, NothingLeft, Owning
<1>4. DisjointAddresses'
  BY DEF Refused, Ends, GiveBack, HelperInv, DisjointAddresses
<1>5. OwnerInv'
  BY DEF Refused, Ends, GiveBack, HelperInv, NetHelperTypeOK, OwnerInv, Mine, Owning
<1>6. LockInv'
  BY DEF Refused, Ends, GiveBack, HelperInv, NetHelperTypeOK, LockInv, Locked
<1>7. FreeInv'
  BY DEF Refused, Ends, GiveBack, HelperInv, NetHelperTypeOK, FreeInv
<1> QED BY <1>2, <1>3, <1>4, <1>5, <1>6, <1>7 DEF HelperInv

\* The interface is created under the name that was free.
LEMMA CreateKeeps ==
    ASSUME HelperInv, NEW t \in Session, Create(t)
    PROVE  HelperInv'
<1>1. \A u \in Helper : Served(u)' \subseteq Served(u)
  BY DEF Create, Moves, Served, HelperInv, NetHelperTypeOK
<1>2. NetHelperTypeOK'
  BY <1>1, SlotsKept DEF Create, Moves, HelperInv, NetHelperTypeOK, Phases, Locked
<1>3. NothingLeft'
  BY DEF Create, Moves, HelperInv, NetHelperTypeOK, NothingLeft, Owning
<1>4. DisjointAddresses'
  BY DEF Create, Moves, HelperInv, DisjointAddresses
<1>5. OwnerInv'
  <2>1. request[t] \in Config /\ request[t].name \in Link
    BY DEF Create, HelperInv, OwnerInv, Link
  <2>2. \A n \in Link : link'[n] = IF n = request[t].name THEN [owner |-> t, holds |-> {}]
                                                         ELSE link[n]
    BY <2>1 DEF Create, HelperInv, NetHelperTypeOK
  <2>3. \A s \in Session : condition[s] \in Owning =>
           request[s].name \in Link /\ request[s].name # request[t].name
    BY OneEach DEF Create
  <2>4. \A s \in Session : condition'[s] = IF s = t THEN "stepping" ELSE condition[s]
    BY DEF Create, Moves, HelperInv, NetHelperTypeOK
  <2> QED BY <2>1, <2>2, <2>3, <2>4 DEF Create, HelperInv, OwnerInv, Mine, Owning
<1>6. LockInv'
  BY DEF Create, Moves, HelperInv, LockInv, Locked
<1>7. FreeInv'
  BY DEF Create, Moves, HelperInv, FreeInv
<1> QED BY <1>2, <1>3, <1>4, <1>5, <1>6, <1>7 DEF HelperInv

\* A step gives the interface addresses that were free.
LEMMA ApplyKeeps ==
    ASSUME HelperInv, NEW t \in Session, Apply(t)
    PROVE  HelperInv'
<1>1. \A u \in Helper : Served(u)' \subseteq Served(u)
  BY DEF Apply, Served, HelperInv, NetHelperTypeOK
<1>2. /\ link' \in [Link -> [owner : Session \cup {Nobody}, holds : SUBSET (Address \cup {Up})]]
      /\ NothingLeft' /\ DisjointAddresses' /\ FreeInv'
  <2>1. /\ condition[t] = "stepping" /\ rooted' = rooted /\ request' = request
        /\ condition'[t] \in {"stepping", "undoing"}
        /\ \A s \in Session : s # t => condition'[s] = condition[s]
    BY DEF Apply, HelperInv, NetHelperTypeOK
  <2>2. \E done \in SUBSET {request[t].local, request[t].peer, Up} :
           link' = [link EXCEPT ![request[t].name].holds = @ \cup done]
    BY DEF Apply, Adds
  <2> QED BY <2>1, <2>2, SteppedKeeps
<1>3. NetHelperTypeOK'
  BY <1>1, <1>2, SlotsKept DEF Apply, HelperInv, NetHelperTypeOK, Phases, Locked
<1>4. NothingLeft'
  BY <1>2
<1>5. DisjointAddresses'
  BY <1>2
<1>6. OwnerInv'
  BY DEF Apply, Adds, HelperInv, OwnerInv, Mine, Owning
<1>7. LockInv'
  BY DEF Apply, Adds, HelperInv, LockInv, Locked
<1>8. FreeInv'
  BY <1>2
<1> QED BY <1>3, <1>4, <1>5, <1>6, <1>7, <1>8 DEF HelperInv

\* So does a step that fails, as far as it came.
LEMMA ApplyFailsKeeps ==
    ASSUME HelperInv, NEW t \in Session, ApplyFails(t)
    PROVE  HelperInv'
<1>1. \A u \in Helper : Served(u)' \subseteq Served(u)
  BY DEF ApplyFails, Moves, Served, HelperInv, NetHelperTypeOK
<1>2. /\ link' \in [Link -> [owner : Session \cup {Nobody}, holds : SUBSET (Address \cup {Up})]]
      /\ NothingLeft' /\ DisjointAddresses' /\ FreeInv'
  <2>1. /\ condition[t] = "stepping" /\ rooted' = rooted /\ request' = request
        /\ condition'[t] \in {"stepping", "undoing"}
        /\ \A s \in Session : s # t => condition'[s] = condition[s]
    BY DEF ApplyFails, Moves, HelperInv, NetHelperTypeOK
  <2>2. \E done \in SUBSET {request[t].local, request[t].peer, Up} :
           link' = [link EXCEPT ![request[t].name].holds = @ \cup done]
    BY DEF ApplyFails, Adds
  <2> QED BY <2>1, <2>2, SteppedKeeps
<1>3. NetHelperTypeOK'
  BY <1>1, <1>2, SlotsKept DEF ApplyFails, Moves, HelperInv, NetHelperTypeOK, Phases, Locked
<1>4. NothingLeft'
  BY <1>2
<1>5. DisjointAddresses'
  BY <1>2
<1>6. OwnerInv'
  BY DEF ApplyFails, Moves, Adds, HelperInv, OwnerInv, Mine, Owning
<1>7. LockInv'
  BY DEF ApplyFails, Moves, Adds, HelperInv, LockInv, Locked
<1>8. FreeInv'
  BY <1>2
<1> QED BY <1>3, <1>4, <1>5, <1>6, <1>7, <1>8 DEF HelperInv

\* An address that is never ready is undone with the rest.
LEMMA NeverReadyKeeps ==
    ASSUME HelperInv, NEW t \in Session, NeverReady(t)
    PROVE  HelperInv'
<1>1. \A u \in Helper : Served(u)' \subseteq Served(u)
  BY DEF NeverReady, Moves, Served, HelperInv, NetHelperTypeOK
<1>2. NetHelperTypeOK'
  BY <1>1, SlotsKept DEF NeverReady, Moves, HelperInv, NetHelperTypeOK, Phases, Locked
<1>3. NothingLeft'
  BY DEF NeverReady, Moves, HelperInv, NothingLeft, Owning
<1>4. DisjointAddresses'
  BY DEF NeverReady, Moves, HelperInv, DisjointAddresses
<1>5. OwnerInv'
  BY DEF NeverReady, Moves, HelperInv, OwnerInv, Mine, Owning
<1>6. LockInv'
  BY DEF NeverReady, Moves, HelperInv, NetHelperTypeOK, LockInv, Locked
<1>7. FreeInv'
  BY DEF NeverReady, Moves, HelperInv, FreeInv
<1> QED BY <1>2, <1>3, <1>4, <1>5, <1>6, <1>7 DEF HelperInv

\* The lock is given back when the setup is over.
LEMMA OpenedKeeps ==
    ASSUME HelperInv, NEW t \in Session, Opened(t)
    PROVE  HelperInv'
<1>1. \A u \in Helper : Served(u)' \subseteq Served(u)
  BY DEF Opened, Moves, Served, HelperInv, NetHelperTypeOK
<1>2. NetHelperTypeOK'
  BY <1>1, SlotsKept DEF Opened, Moves, GiveBack, HelperInv, NetHelperTypeOK, Phases
<1>3. NothingLeft'
  BY DEF Opened, Moves, GiveBack, HelperInv, NothingLeft, Owning
<1>4. DisjointAddresses'
  BY DEF Opened, Moves, GiveBack, HelperInv, DisjointAddresses
<1>5. OwnerInv'
  BY DEF Opened, Moves, GiveBack, HelperInv, OwnerInv, Mine, Owning
<1>6. LockInv'
  BY DEF Opened, Moves, GiveBack, HelperInv, NetHelperTypeOK, LockInv, Locked
<1>7. FreeInv'
  BY DEF Opened, Moves, GiveBack, HelperInv, FreeInv
<1> QED BY <1>2, <1>3, <1>4, <1>5, <1>6, <1>7 DEF HelperInv

LEMMA BridgeEndsKeeps ==
    ASSUME HelperInv, NEW t \in Session, BridgeEnds(t)
    PROVE  HelperInv'
<1>1. \A u \in Helper : Served(u)' \subseteq Served(u)
  BY DEF BridgeEnds, Moves, Served, HelperInv, NetHelperTypeOK
<1>2. NetHelperTypeOK'
  BY <1>1, SlotsKept DEF BridgeEnds, Moves, HelperInv, NetHelperTypeOK, Phases, Locked
<1>3. NothingLeft'
  BY DEF BridgeEnds, Moves, HelperInv, NothingLeft, Owning
<1>4. DisjointAddresses'
  BY DEF BridgeEnds, Moves, HelperInv, DisjointAddresses
<1>5. OwnerInv'
  BY DEF BridgeEnds, Moves, HelperInv, OwnerInv, Mine, Owning
<1>6. LockInv'
  BY DEF BridgeEnds, Moves, HelperInv, LockInv, Locked
<1>7. FreeInv'
  BY DEF BridgeEnds, Moves, HelperInv, FreeInv
<1> QED BY <1>2, <1>3, <1>4, <1>5, <1>6, <1>7 DEF HelperInv

LEMMA BridgeFailsKeeps ==
    ASSUME HelperInv, NEW t \in Session, BridgeFails(t)
    PROVE  HelperInv'
<1>1. \A u \in Helper : Served(u)' \subseteq Served(u)
  BY DEF BridgeFails, Moves, Served, HelperInv, NetHelperTypeOK
<1>2. NetHelperTypeOK'
  BY <1>1, SlotsKept DEF BridgeFails, Moves, HelperInv, NetHelperTypeOK, Phases, Locked
<1>3. NothingLeft'
  BY DEF BridgeFails, Moves, HelperInv, NothingLeft, Owning
<1>4. DisjointAddresses'
  BY DEF BridgeFails, Moves, HelperInv, DisjointAddresses
<1>5. OwnerInv'
  BY DEF BridgeFails, Moves, HelperInv, OwnerInv, Mine, Owning
<1>6. LockInv'
  BY DEF BridgeFails, Moves, HelperInv, LockInv, Locked
<1>7. FreeInv'
  BY DEF BridgeFails, Moves, HelperInv, FreeInv
<1> QED BY <1>2, <1>3, <1>4, <1>5, <1>6, <1>7 DEF HelperInv

\* A device that WireGuard closes frees its interface before the cleanup.
LEMMA DeviceFailsKeeps ==
    ASSUME HelperInv, NEW t \in Session, DeviceFails(t)
    PROVE  HelperInv'
<1>1. \A u \in Helper : Served(u)' \subseteq Served(u)
  BY DEF DeviceFails, Moves, Closing, Served, HelperInv, NetHelperTypeOK
<1>2. /\ link' \in [Link -> [owner : Session \cup {Nobody}, holds : SUBSET (Address \cup {Up})]]
      /\ NothingLeft' /\ DisjointAddresses' /\ OwnerInv' /\ FreeInv'
  <2>1. condition[t] \in Owning /\ Closing(t)
    BY DEF DeviceFails, Owning
  <2>2. link' = [n \in Link |-> IF link[n].owner \in {t} THEN NoLink ELSE link[n]]
    BY <2>1, ClosingFrees
  <2>3. /\ rooted' = rooted
        /\ \A s \in Session \ {t} : /\ condition'[s] = condition[s]
                                   /\ request'[s] = request[s]
                                   /\ applied'[s] = applied[s]
    BY DEF DeviceFails, Moves, HelperInv, NetHelperTypeOK
  <2>4. condition'[t] = "astray" /\ request'[t] \in Config /\ t \in rooted
    BY <2>1, OneEach DEF DeviceFails, Moves, HelperInv, NetHelperTypeOK
  <2>5. {t} \in SUBSET Session
        /\ \A s \in {t} :
              \/ condition'[s] = "idle" /\ applied'[s] = 0
              \/ condition'[s] = "closed" /\ request'[s] \in Config
              \/ condition'[s] = "astray" /\ request'[s] \in Config /\ s \in rooted
    BY <2>4
  <2> QED BY <2>2, <2>3, <2>5, FreedKeeps
<1>3. NetHelperTypeOK'
  <2>1. network # t
    BY DEF DeviceFails, HelperInv, LockInv
  <2>2. condition' \in [Session -> Phases] /\ gone' \subseteq Session
    BY DEF DeviceFails, Moves, Phases, HelperInv, NetHelperTypeOK
  <2>3. network' # Nobody => condition'[network'] \in Locked
    BY <2>1 DEF DeviceFails, Moves, HelperInv, NetHelperTypeOK
  <2> QED BY <1>1, <1>2, <2>2, <2>3, SlotsKept DEF DeviceFails, HelperInv, NetHelperTypeOK
<1>4. NothingLeft'
  BY <1>2
<1>5. DisjointAddresses'
  BY <1>2
<1>6. OwnerInv'
  BY <1>2
<1>7. LockInv'
  BY DEF DeviceFails, Moves, Closing, HelperInv, LockInv, Locked
<1>8. FreeInv'
  BY <1>2
<1> QED BY <1>3, <1>4, <1>5, <1>6, <1>7, <1>8 DEF HelperInv

\* The lock is taken again for the teardown.
LEMMA TakeLockAgainKeeps ==
    ASSUME HelperInv, NEW t \in Session, TakeLockAgain(t)
    PROVE  HelperInv'
<1>1. \A u \in Helper : Served(u)' \subseteq Served(u)
  BY DEF TakeLockAgain, Moves, Served, HelperInv, NetHelperTypeOK
<1>2. NetHelperTypeOK'
  BY <1>1, SlotsKept DEF TakeLockAgain, Moves, HelperInv, NetHelperTypeOK, Phases, Locked
<1>3. NothingLeft'
  BY DEF TakeLockAgain, Moves, HelperInv, NothingLeft, Owning
<1>4. DisjointAddresses'
  BY DEF TakeLockAgain, Moves, HelperInv, DisjointAddresses
<1>5. OwnerInv'
  BY DEF TakeLockAgain, Moves, HelperInv, OwnerInv, Mine, Owning
<1>6. LockInv'
  BY DEF TakeLockAgain, Moves, HelperInv, LockInv, Locked
<1>7. FreeInv'
  BY DEF TakeLockAgain, Moves, HelperInv, FreeInv
<1> QED BY <1>2, <1>3, <1>4, <1>5, <1>6, <1>7 DEF HelperInv

\* Without the lock the device is closed all the same, and the interface with it.
LEMMA TeardownTimesOutKeeps ==
    ASSUME HelperInv, NEW t \in Session, TeardownTimesOut(t)
    PROVE  HelperInv'
<1>1. \A u \in Helper : Served(u)' \subseteq Served(u)
  BY DEF TeardownTimesOut, Moves, Closing, Served, HelperInv, NetHelperTypeOK
<1>2. /\ link' \in [Link -> [owner : Session \cup {Nobody}, holds : SUBSET (Address \cup {Up})]]
      /\ NothingLeft' /\ DisjointAddresses' /\ OwnerInv' /\ FreeInv'
  <2>1. condition[t] \in Owning /\ Closing(t)
    BY DEF TeardownTimesOut, Owning
  <2>2. link' = [n \in Link |-> IF link[n].owner \in {t} THEN NoLink ELSE link[n]]
    BY <2>1, ClosingFrees
  <2>3. /\ rooted' = rooted
        /\ \A s \in Session \ {t} : /\ condition'[s] = condition[s]
                                   /\ request'[s] = request[s]
                                   /\ applied'[s] = applied[s]
    BY DEF TeardownTimesOut, Moves, HelperInv, NetHelperTypeOK
  <2>4. \/ condition'[t] = "idle" /\ applied'[t] = 0
        \/ condition'[t] = "closed" /\ request'[t] \in Config
    BY <2>1, OneEach DEF TeardownTimesOut, Moves, HelperInv, NetHelperTypeOK
  <2>5. {t} \in SUBSET Session
        /\ \A s \in {t} : \/ condition'[s] = "idle" /\ applied'[s] = 0
                          \/ condition'[s] = "closed" /\ request'[s] \in Config
                          \/ condition'[s] = "astray" /\ request'[s] \in Config /\ s \in rooted
    BY <2>4
  <2> QED BY <2>2, <2>3, <2>5, FreedKeeps
<1>3. NetHelperTypeOK'
  BY <1>1, <1>2, SlotsKept DEF TeardownTimesOut, Moves, Phases, Locked, HelperInv, NetHelperTypeOK
<1>4. NothingLeft'
  BY <1>2
<1>5. DisjointAddresses'
  BY <1>2
<1>6. OwnerInv'
  BY <1>2
<1>7. LockInv'
  BY DEF TeardownTimesOut, Moves, Closing, HelperInv, LockInv, Locked
<1>8. FreeInv'
  BY <1>2
<1> QED BY <1>3, <1>4, <1>5, <1>6, <1>7, <1>8 DEF HelperInv

\* An inverse takes from the interface of that name, whoever made it.
LEMMA UndoKeeps ==
    ASSUME HelperInv, NEW t \in Session, Undo(t)
    PROVE  HelperInv'
<1>1. \A u \in Helper : Served(u)' \subseteq Served(u)
  BY DEF Undo, Served, HelperInv, NetHelperTypeOK
<1>2. NetHelperTypeOK'
  <2>1. link' \in [Link -> [owner : Session \cup {Nobody}, holds : SUBSET (Address \cup {Up})]]
    <3>1. PICK removed \in Takes(Plan[applied[t]], request[t], link[request[t].name].holds) :
             link' = [link EXCEPT ![request[t].name].holds = @ \ removed]
      BY DEF Undo
    <3>2. request[t].name \in Link
      BY DEF Undo, HelperInv, OwnerInv, Link
    <3> DEFINE was == link[request[t].name]
               is == [was EXCEPT !.holds = @ \ removed]
    <3>3. was \in [owner : Session \cup {Nobody}, holds : SUBSET (Address \cup {Up})]
      BY <3>2 DEF HelperInv, NetHelperTypeOK
    <3>4. is \in [owner : Session \cup {Nobody}, holds : SUBSET (Address \cup {Up})]
      BY <3>3
    <3>5. link' = [link EXCEPT ![request[t].name] = is]
      BY <3>1
    <3> HIDE DEF is
    <3> QED BY <3>4, <3>5 DEF HelperInv, NetHelperTypeOK
  <2>2. applied' \in [Session -> 0..Len(Plan)]
    BY DEF Undo, HelperInv, NetHelperTypeOK
  <2> QED BY <1>1, <2>1, <2>2, SlotsKept DEF Undo, HelperInv, NetHelperTypeOK
<1>3. NothingLeft'
  BY DEF Undo, HelperInv, NothingLeft, Owning
<1>4. DisjointAddresses'
  BY DEF Undo, HelperInv, DisjointAddresses
<1>5. OwnerInv'
  <2>1. UNCHANGED <<rooted, condition, request>> /\ condition[t] \in Owning \cup {"astray"}
    BY DEF Undo, Owning
  <2>2. \A s \in Session : s # t => applied'[s] = applied[s]
    BY DEF Undo, HelperInv, NetHelperTypeOK
  <2>3. \A n \in Link : link'[n].owner = link[n].owner /\ link'[n].holds \subseteq link[n].holds
    BY DEF Undo, HelperInv, NetHelperTypeOK
  <2>4. \A s \in Session : condition[s] \in Owning => request[s].name \in Link
    BY DEF HelperInv, OwnerInv, Link, Owning
  <2> QED BY <2>1, <2>2, <2>3, <2>4 DEF HelperInv, OwnerInv, Mine
<1>6. LockInv'
  BY DEF Undo, HelperInv, LockInv, Locked
<1>7. FreeInv'
  BY DEF Undo, HelperInv, FreeInv
<1> QED BY <1>2, <1>3, <1>4, <1>5, <1>6, <1>7 DEF HelperInv

\* The end of a cleanup frees the interface and the lock.
LEMMA CloseDeviceKeeps ==
    ASSUME HelperInv, NEW t \in Session, CloseDevice(t)
    PROVE  HelperInv'
<1>1. \A u \in Helper : Served(u)' \subseteq Served(u)
  BY DEF CloseDevice, Closing, Ends, Moves, Served, HelperInv, NetHelperTypeOK
<1>2. /\ link' \in [Link -> [owner : Session \cup {Nobody}, holds : SUBSET (Address \cup {Up})]]
      /\ NothingLeft' /\ DisjointAddresses' /\ OwnerInv' /\ FreeInv'
  <2>1. condition[t] \in Owning \cup {"astray"} /\ Closing(t) /\ request[t] \in Config
    BY DEF CloseDevice, Owning, HelperInv, OwnerInv
  <2>2. link' = [n \in Link |-> IF link[n].owner \in {t} THEN NoLink ELSE link[n]]
    <3>1. CASE condition[t] \in Owning
      BY <2>1, <3>1, ClosingFrees
    <3>2. CASE condition[t] = "astray"
      <4>1. \A n \in Link : link[n].owner # t
        BY <3>2 DEF HelperInv, NothingLeft, Owning
      <4>2. link' = link
        BY <2>1, <4>1 DEF Closing, Mine, Link
      <4> QED BY <4>1, <4>2 DEF HelperInv, NetHelperTypeOK
    <3> QED BY <2>1, <3>1, <3>2
  <2>3. /\ rooted' = rooted
        /\ \A s \in Session \ {t} : /\ condition'[s] = condition[s]
                                   /\ request'[s] = request[s]
                                   /\ applied'[s] = applied[s]
    BY DEF CloseDevice, Ends, Moves, HelperInv, NetHelperTypeOK
  <2>4. \/ condition'[t] = "idle" /\ applied'[t] = 0
        \/ condition'[t] = "closed" /\ request'[t] \in Config
    BY <2>1 DEF CloseDevice, Ends, Moves, HelperInv, NetHelperTypeOK
  <2>5. {t} \in SUBSET Session
        /\ \A s \in {t} : \/ condition'[s] = "idle" /\ applied'[s] = 0
                          \/ condition'[s] = "closed" /\ request'[s] \in Config
                          \/ condition'[s] = "astray" /\ request'[s] \in Config /\ s \in rooted
    BY <2>4
  <2> QED BY <2>2, <2>3, <2>5, FreedKeeps
<1>3. NetHelperTypeOK'
  <2>1. /\ network' \in Session \cup {Nobody} /\ network' # t
        /\ network' # Nobody => network' = network
    BY DEF CloseDevice, GiveBack, HelperInv, NetHelperTypeOK
  <2>2. /\ condition' \in [Session -> Phases]
        /\ \A s \in Session : s # t => condition'[s] = condition[s]
    <3>1. \E p \in {"idle", "closed"} : condition' = [condition EXCEPT ![t] = p]
      BY DEF CloseDevice, Ends, Moves
    <3> QED BY <3>1 DEF Phases, HelperInv, NetHelperTypeOK
  <2>3. network' # Nobody => condition'[network'] \in Locked
    BY <2>1, <2>2 DEF HelperInv, NetHelperTypeOK
  <2>4. /\ host' \in [Session -> Helper \cup {Nobody}]
        /\ request' \in [Session -> Config \cup {Nobody}]
        /\ applied' \in [Session -> 0..Len(Plan)]
        /\ gone' \subseteq Session
    <3>1. CASE UNCHANGED <<host, request, applied, gone>>
      BY <3>1 DEF HelperInv, NetHelperTypeOK
    <3>2. CASE Ends(t)
      BY <3>2 DEF Ends, HelperInv, NetHelperTypeOK
    <3> QED BY <3>1, <3>2 DEF CloseDevice
  <2> QED BY <1>1, <1>2, <2>1, <2>2, <2>3, <2>4, SlotsKept
          DEF CloseDevice, HelperInv, NetHelperTypeOK
<1>4. NothingLeft'
  BY <1>2
<1>5. DisjointAddresses'
  BY <1>2
<1>6. OwnerInv'
  BY <1>2
<1>7. LockInv'
  BY DEF CloseDevice, Closing, GiveBack, Ends, Moves, HelperInv, NetHelperTypeOK,
         LockInv, Locked
<1>8. FreeInv'
  BY <1>2
<1> QED BY <1>3, <1>4, <1>5, <1>6, <1>7, <1>8 DEF HelperInv

LEMMA WorkersEndKeeps ==
    ASSUME HelperInv, NEW t \in Session, WorkersEnd(t)
    PROVE  HelperInv'
<1>1. \A u \in Helper : Served(u)' \subseteq Served(u)
  BY DEF WorkersEnd, Ends, Served, HelperInv, NetHelperTypeOK
<1>2. NetHelperTypeOK'
  BY <1>1, SlotsKept DEF WorkersEnd, Ends, HelperInv, NetHelperTypeOK, Phases, Locked
<1>3. NothingLeft'
  BY DEF WorkersEnd, Ends, HelperInv, NothingLeft, Owning
<1>4. DisjointAddresses'
  BY DEF WorkersEnd, Ends, HelperInv, DisjointAddresses
<1>5. OwnerInv'
  BY DEF WorkersEnd, Ends, HelperInv, NetHelperTypeOK, OwnerInv, Mine, Owning
<1>6. LockInv'
  BY DEF WorkersEnd, Ends, HelperInv, LockInv, Locked
<1>7. FreeInv'
  BY DEF WorkersEnd, Ends, HelperInv, FreeInv
<1> QED BY <1>2, <1>3, <1>4, <1>5, <1>6, <1>7 DEF HelperInv

LEMMA ClientGoesKeeps ==
    ASSUME HelperInv, NEW t \in Session, ClientGoes(t)
    PROVE  HelperInv'
<1>1. \A u \in Helper : Served(u)' \subseteq Served(u)
  BY DEF ClientGoes, Served, HelperInv, NetHelperTypeOK
<1>2. NetHelperTypeOK'
  BY <1>1, SlotsKept DEF ClientGoes, HelperInv, NetHelperTypeOK, Phases
<1>3. NothingLeft'
  BY DEF ClientGoes, HelperInv, NothingLeft, Owning
<1>4. DisjointAddresses'
  BY DEF ClientGoes, HelperInv, DisjointAddresses
<1>5. OwnerInv'
  BY DEF ClientGoes, HelperInv, OwnerInv, Mine, Owning
<1>6. LockInv'
  BY DEF ClientGoes, HelperInv, LockInv, Locked
<1>7. FreeInv'
  BY DEF ClientGoes, HelperInv, FreeInv
<1> QED BY <1>2, <1>3, <1>4, <1>5, <1>6, <1>7 DEF HelperInv

\* The system closes the devices of processes that die.
LEMMA DyingKeeps ==
    ASSUME HelperInv, NEW dead \in SUBSET Session, SessionsDie(dead),
           rooted' = rooted, serving' \subseteq serving
    PROVE  HelperInv'
<1>1. /\ \A s \in dead : condition'[s] = "idle" /\ applied'[s] = 0
      /\ \A s \in Session \ dead : /\ condition'[s] = condition[s]
                                   /\ request'[s] = request[s]
                                   /\ applied'[s] = applied[s]
      /\ \A s \in Session : host'[s] = IF s \in dead THEN Nobody ELSE host[s]
  BY DEF SessionsDie
<1>2. /\ link' \in [Link -> [owner : Session \cup {Nobody}, holds : SUBSET (Address \cup {Up})]]
      /\ NothingLeft' /\ DisjointAddresses' /\ OwnerInv' /\ FreeInv'
  <2>1. link' = [n \in Link |-> IF link[n].owner \in dead THEN NoLink ELSE link[n]]
    BY DEF SessionsDie
  <2> QED BY <1>1, <2>1, FreedKeeps
<1>3. /\ network' \in Session \cup {Nobody}
      /\ network' # Nobody => network' = network /\ network \notin dead
  BY DEF SessionsDie, HelperInv, NetHelperTypeOK
<1>4. condition' \in [Session -> Phases]
  BY DEF SessionsDie, Phases, HelperInv, NetHelperTypeOK
<1>5. \A u \in Helper : Served(u)' \subseteq Served(u)
  <2>1. \A s \in Session : s \notin dead => condition'[s] = condition[s]
    BY <1>1
  <2>2. ASSUME NEW u \in Helper, NEW s \in Served(u)' PROVE s \in Served(u)
    <3>1. s \in Session /\ host'[s] = u /\ u # Nobody
      BY <2>2 DEF Served
    <3>2. s \notin dead
      BY <1>1, <3>1
    <3> QED BY <1>1, <2>2, <3>1, <3>2 DEF Served
  <2> QED BY <2>2
<1>6. NetHelperTypeOK'
  <2>1. /\ host' \in [Session -> Helper \cup {Nobody}]
        /\ request' \in [Session -> Config \cup {Nobody}]
        /\ applied' \in [Session -> 0..Len(Plan)]
    BY DEF SessionsDie, HelperInv, NetHelperTypeOK
  <2>2. gone' \subseteq Session /\ serving' \subseteq Helper /\ rooted' \in RootedSets
    BY DEF SessionsDie, HelperInv, NetHelperTypeOK
  <2>3. network' # Nobody => condition'[network'] \in Locked
    BY <1>1, <1>3 DEF HelperInv, NetHelperTypeOK
  <2> QED BY <1>2, <1>3, <1>4, <1>5, <2>1, <2>2, <2>3, SlotsKept DEF NetHelperTypeOK
<1>7. LockInv'
  <2>1. network' \notin rooted
    BY <1>3 DEF HelperInv, NetHelperTypeOK, LockInv
  <2>2. \A s \in Session : condition'[s] = condition[s] \/ condition'[s] = "idle"
    BY <1>1
  <2>3. \A s \in rooted : condition'[s] \notin {"reading", "waiting"}
    BY <2>2 DEF HelperInv, NetHelperTypeOK, LockInv
  <2>4. ASSUME NEW s \in Session \ rooted, condition'[s] \in Locked PROVE network' = s
    <3>1. s \notin dead /\ network = s
      BY <1>1, <2>2, <2>4 DEF HelperInv, LockInv, Locked
    <3> QED BY <3>1 DEF SessionsDie
  <2> QED BY <2>1, <2>3, <2>4 DEF LockInv
<1> QED BY <1>2, <1>6, <1>7 DEF HelperInv

LEMMA ClientDiesKeeps ==
    ASSUME HelperInv, NEW t \in Session, ClientDies(t)
    PROVE  HelperInv'
<1>1. {t} \in SUBSET Session
  OBVIOUS
<1>2. SessionsDie({t}) /\ rooted' = rooted /\ serving' \subseteq serving
  BY DEF ClientDies
<1> QED BY <1>1, <1>2, DyingKeeps

LEMMA HelperStartsKeeps ==
    ASSUME HelperInv, NEW h \in Helper, HelperStarts(h)
    PROVE  HelperInv'
<1>1. \A u \in Helper : Served(u)' \subseteq Served(u)
  BY DEF HelperStarts, Served, HelperInv, NetHelperTypeOK
<1>2. NetHelperTypeOK'
  BY <1>1, SlotsKept DEF HelperStarts, HelperInv, NetHelperTypeOK, Phases
<1>3. NothingLeft'
  BY DEF HelperStarts, HelperInv, NothingLeft, Owning
<1>4. DisjointAddresses'
  BY DEF HelperStarts, HelperInv, DisjointAddresses
<1>5. OwnerInv'
  BY DEF HelperStarts, HelperInv, OwnerInv, Mine, Owning
<1>6. LockInv'
  BY DEF HelperStarts, HelperInv, LockInv, Locked
<1>7. FreeInv'
  BY DEF HelperStarts, HelperInv, FreeInv
<1> QED BY <1>2, <1>3, <1>4, <1>5, <1>6, <1>7 DEF HelperInv

\* A service that stops leaves its sessions to end by themselves.
LEMMA HelperStopsKeeps ==
    ASSUME HelperInv, NEW h \in Helper, HelperStops(h)
    PROVE  HelperInv'
<1>1. \A u \in Helper : Served(u)' \subseteq Served(u)
  BY DEF HelperStops, Served, HelperInv, NetHelperTypeOK
<1>2. NetHelperTypeOK'
  <2>1. gone' \subseteq Session
    BY DEF HelperStops, Served, HelperInv, NetHelperTypeOK
  <2> QED BY <1>1, <2>1, SlotsKept DEF HelperStops, HelperInv, NetHelperTypeOK
<1>3. NothingLeft'
  BY DEF HelperStops, HelperInv, NothingLeft, Owning
<1>4. DisjointAddresses'
  BY DEF HelperStops, HelperInv, DisjointAddresses
<1>5. OwnerInv'
  BY DEF HelperStops, HelperInv, OwnerInv, Mine, Owning
<1>6. LockInv'
  BY DEF HelperStops, HelperInv, LockInv, Locked
<1>7. FreeInv'
  BY DEF HelperStops, HelperInv, FreeInv
<1> QED BY <1>2, <1>3, <1>4, <1>5, <1>6, <1>7 DEF HelperInv

\* All the sessions of a helper die with it.
LEMMA HelperCrashesKeeps ==
    ASSUME HelperInv, NEW h \in Helper, HelperCrashes(h)
    PROVE  HelperInv'
<1>1. Served(h) \in SUBSET Session
  BY DEF Served
<1>2. SessionsDie(Served(h)) /\ rooted' = rooted /\ serving' \subseteq serving
  BY DEF HelperCrashes
<1> QED BY <1>1, <1>2, DyingKeeps

-----------------------------------------------------------------------------

LEMMA HelperStartsInv == HelperInit => HelperInv
<1> SUFFICES ASSUME HelperInit PROVE HelperInv
  OBVIOUS
<1>1. \A h \in Helper : Cardinality(Served(h)) <= Slots
  <2>1. \A h \in Helper : Served(h) = {}
    BY DEF HelperInit, Served
  <2>2. Cardinality({}) = 0
    BY FS_EmptySet
  <2>3. 0 <= Slots
    OBVIOUS
  <2> QED BY <2>1, <2>2, <2>3, Zenon
<1>2. NetHelperTypeOK
  BY <1>1 DEF HelperInit, NetHelperTypeOK, Phases, NoLink
<1>3. NothingLeft /\ DisjointAddresses
  BY DEF HelperInit, NothingLeft, DisjointAddresses, NoLink
<1>4. OwnerInv /\ LockInv /\ FreeInv
  BY DEF HelperInit, OwnerInv, LockInv, FreeInv, Owning, Locked
<1> QED BY <1>2, <1>3, <1>4 DEF HelperInv

LEMMA HelperStep == HelperInv /\ [HelperNext]_helperVars => HelperInv'
<1> SUFFICES ASSUME HelperInv, [HelperNext]_helperVars PROVE HelperInv'
  OBVIOUS
<1>1. ASSUME NEW s \in Session, Serve(s) PROVE HelperInv'
  BY <1>1, DismissKeeps, TakeNetworkLockKeeps, LockTimesOutKeeps, RoutesFreeKeeps,
     RefusedKeeps, CreateKeeps, ApplyKeeps, ApplyFailsKeeps, NeverReadyKeeps, OpenedKeeps,
     BridgeEndsKeeps, TakeLockAgainKeeps, TeardownTimesOutKeeps, UndoKeeps,
     CloseDeviceKeeps, WorkersEndKeeps
     DEF Serve
<1>2. ASSUME NEW s \in Session,
             \/ \E h \in Helper : Accept(s, h)
             \/ \E c \in Config : AskHelper(s, c) \/ OpenItself(s, c)
             \/ BridgeFails(s) \/ DeviceFails(s) \/ ClientGoes(s) \/ ClientDies(s)
      PROVE HelperInv'
  BY <1>2, AcceptKeeps, AskHelperKeeps, OpenItselfKeeps, BridgeFailsKeeps, DeviceFailsKeeps,
     ClientGoesKeeps, ClientDiesKeeps
<1>3. ASSUME NEW h \in Helper, HelperStarts(h) \/ HelperStops(h) \/ HelperCrashes(h)
      PROVE HelperInv'
  BY <1>3, HelperStartsKeeps, HelperStopsKeeps, HelperCrashesKeeps
<1>4. CASE UNCHANGED helperVars
  BY <1>4 DEF helperVars, HelperInv, NetHelperTypeOK, NothingLeft, DisjointAddresses,
              OwnerInv, LockInv, FreeInv, Mine, Served
<1> QED BY <1>1, <1>2, <1>3, <1>4 DEF HelperNext

LEMMA HelperAlways == HelperSpec => []HelperInv
  BY HelperStartsInv, HelperStep, PTL DEF HelperSpec

\* The variables keep their types: the lock is with a session that works under it,
\* and no helper serves more sessions than it has slots.
THEOREM NetHelperTypeCorrect == HelperSpec => []NetHelperTypeOK
<1>1. HelperInv => NetHelperTypeOK
  BY DEF HelperInv
<1> QED BY <1>1, HelperAlways, PTL

\* Whatever steps fail, run out of time or are skipped, and whoever dies: an
\* interface is there only for a session that is at work on it, and those of two
\* helpers' sessions have no address in common.
THEOREM InterfacesAreKept == HelperSpec => []InterfacesKept
<1>1. HelperInv => InterfacesKept
  BY DEF HelperInv, InterfacesKept
<1> QED BY <1>1, HelperAlways, PTL

\* An inverse command of a session that lost its device: it takes from the
\* interface of that name, and its owner has it still.
Strays(n) ==
    /\ link'[n].owner = link[n].owner /\ link'[n].holds \subseteq link[n].holds
    /\ \E t \in rooted :
          /\ condition[t] = "astray" /\ request[t].name = n
          /\ applied'[t] < applied[t]

\* A step that changes an interface somebody owns is one of its owner, or such a
\* command, or the owner's process dies.
LEMMA OwnerChanges ==
    ASSUME HelperInv, [HelperNext]_helperVars,
           NEW n \in Link, link[n].owner # Nobody, link'[n] # link[n]
    PROVE  \/ applied'[link[n].owner] # applied[link[n].owner]
           \/ condition'[link[n].owner] # condition[link[n].owner]
           \/ Strays(n)
<1> DEFINE s == link[n].owner
<1>1. s \in Session /\ condition[s] \in Owning /\ request[s].name = n
  BY DEF HelperInv, NetHelperTypeOK, NothingLeft
<1>2. \A t \in Session : condition[t] \in Owning /\ request[t].name = n => t = s
  BY OneEach
<1> HIDE DEF s
<1>3. \A t \in Session : t = s =>
        /\ \A p : Moves(t, p) /\ p # condition[t] => condition'[s] # condition[s]
        /\ Ends(t) => condition'[s] # condition[s]
  BY <1>1 DEF Moves, Ends, Owning, HelperInv, NetHelperTypeOK
<1>4. \A dead \in SUBSET Session : SessionsDie(dead) => s \in dead
  BY <1>1 DEF SessionsDie, s
<1>5. \A dead \in SUBSET Session : SessionsDie(dead) => condition'[s] # condition[s]
  BY <1>1, <1>4 DEF SessionsDie, Owning
<1>6. ASSUME NEW t \in Session, Create(t) PROVE condition'[s] # condition[s]
  <2>1. request[t].name # n
    BY <1>1, <1>6 DEF Create, s
  <2> QED BY <1>6, <2>1 DEF Create
<1>7. ASSUME NEW t \in Session, Apply(t) \/ (Undo(t) /\ condition[t] # "astray")
      PROVE  applied'[s] # applied[s]
  <2>1. condition[t] \in Owning
    BY <1>7 DEF Apply, Undo, Owning
  <2>2. request[t].name = n
    <3>1. \E r : link' = [link EXCEPT ![request[t].name] = r]
      BY <1>7 DEF Apply, Undo
    <3> QED BY <3>1 DEF HelperInv, NetHelperTypeOK
  <2>3. t = s /\ applied[s] \in Nat
    BY <1>1, <1>2, <2>1, <2>2 DEF HelperInv, NetHelperTypeOK
  <2> QED BY <1>7, <2>3 DEF Apply, Undo, HelperInv, NetHelperTypeOK
<1>8. ASSUME NEW t \in Session, Undo(t), condition[t] = "astray" PROVE Strays(n)
  <2>1. t \in rooted
    BY <1>8 DEF HelperInv, OwnerInv
  <2>2. PICK taken \in Takes(Plan[applied[t]], request[t], link[request[t].name].holds) :
           link' = [link EXCEPT ![request[t].name].holds = @ \ taken]
    BY <1>8 DEF Undo
  <2>3. request[t].name = n
    BY <2>2 DEF HelperInv, NetHelperTypeOK
  <2>4. link'[n].owner = link[n].owner /\ link'[n].holds \subseteq link[n].holds
    BY <2>2, <2>3 DEF HelperInv, NetHelperTypeOK
  <2>5. applied'[t] < applied[t]
    BY <1>8 DEF Undo, HelperInv, NetHelperTypeOK
  <2> QED BY <1>8, <2>1, <2>3, <2>4, <2>5 DEF Strays
<1>9. ASSUME NEW t \in Session,
             ApplyFails(t) \/ DeviceFails(t) \/ TeardownTimesOut(t) \/ CloseDevice(t)
      PROVE  condition'[s] # condition[s]
  <2>2. request[t].name = n
    <3>1. link' = link \/ \E r : link' = [link EXCEPT ![request[t].name] = r]
      BY <1>9 DEF ApplyFails, DeviceFails, TeardownTimesOut, CloseDevice, Closing
    <3> QED BY <3>1 DEF HelperInv, NetHelperTypeOK
  <2>1. condition[t] \in Owning
    <3>1. condition[t] = "astray" => ~Mine(t)
      BY <2>2 DEF HelperInv, NothingLeft, Owning, Mine
    <3>2. condition[t] # "astray" \/ ~CloseDevice(t)
      BY <3>1 DEF CloseDevice, Closing
    <3> QED BY <1>9, <3>2 DEF ApplyFails, DeviceFails, TeardownTimesOut, CloseDevice, Owning
  <2>3. t = s
    BY <1>2, <2>1, <2>2
  <2> QED BY <1>3, <1>9, <2>3 DEF ApplyFails, DeviceFails, TeardownTimesOut, CloseDevice
<1>10. ASSUME NEW t \in Session, ClientDies(t) PROVE condition'[s] # condition[s]
  BY <1>5, <1>10 DEF ClientDies
<1>11. ASSUME NEW h \in Helper, HelperCrashes(h) PROVE condition'[s] # condition[s]
  BY <1>5, <1>11 DEF HelperCrashes, Served
<1>12. ASSUME NEW t \in Session, Serve(t)
       PROVE  applied'[s] # applied[s] \/ condition'[s] # condition[s] \/ Strays(n)
  BY <1>6, <1>7, <1>9, <1>8, <1>12 DEF Serve, Dismiss, TakeNetworkLock, LockTimesOut, RoutesFree,
     Refused, NeverReady, Opened, BridgeEnds, TakeLockAgain, WorkersEnd
<1>13. HelperNext
  BY DEF helperVars
<1>14. \A t \in Session : (\E h \in Helper : Accept(t, h)) => link' = link
  BY DEF Accept
<1>15. \A t \in Session : (\E c \in Config : AskHelper(t, c) \/ OpenItself(t, c)) => link' = link
  BY DEF AskHelper, OpenItself
<1>16. \A t \in Session : BridgeFails(t) \/ ClientGoes(t) => link' = link
  BY DEF BridgeFails, ClientGoes
<1>17. \A h \in Helper : HelperStarts(h) \/ HelperStops(h) => link' = link
  BY DEF HelperStarts, HelperStops
<1> QED BY <1>9, <1>10, <1>11, <1>12, <1>13, <1>14, <1>15, <1>16, <1>17 DEF HelperNext, s

\* The commands of a cleanup, which name their interface, meet the interface of
\* another session only if they are those of a client with privileges whose
\* device WireGuard has closed; and then they leave it its owner.  Those of a
\* helper's session never do, whatever name it has.
THEOREM OnlyItsOwnChanges == HelperSpec => OnlyItsOwn
<1>1. HelperInv /\ [HelperNext]_helperVars =>
        [ \A n \in Link :
             (link[n].owner # Nobody /\ link'[n] # link[n])
             => LET s == link[n].owner
                IN  \/ applied'[s] # applied[s] \/ condition'[s] # condition[s]
                    \/ /\ link'[n].owner = s /\ link'[n].holds \subseteq link[n].holds
                       /\ \E t \in rooted :
                             /\ condition[t] = "astray" /\ request[t].name = n
                             /\ applied'[t] < applied[t] ]_helperVars
  BY OwnerChanges DEF Strays
<1> QED BY <1>1, HelperAlways, PTL DEF HelperSpec, OnlyItsOwn

HIDE NetHelperAssumption

-----------------------------------------------------------------------------
(*****************************************************************************)
(* Lifecycle: who is between taking the lock and giving it back holds it,    *)
(* so there is one process that serves, with its socket in the directory.    *)
(* What a command has to bring about is done by its steps in their order,    *)
(* each of them undone by the command of another terminal only.              *)
(*****************************************************************************)
\* A terminal that does something to the service is at a step of its command's list.
OnList(t) ==
    \E i \in 1..Len(StepsOf(command[t])) : StepsOf(command[t])[i] = doing[t]

\* Where a terminal is fits what it was told.
FlowAt(t) ==
    /\ doing[t] = "idle" <=> command[t] = None
    /\ doing[t] \in ServiceSteps => OnList(t)
    /\ doing[t] = "network" => command[t] \in {"pair", "resume", "foreground"}
    /\ doing[t] \in (Rising \ {"begun", "network"}) \cup Running \cup Falling =>
          command[t] = "foreground"
    /\ doing[t] \in CommandSteps => command[t] # "foreground"
    /\ doing[t] = "asking" => command[t] \in Stopping
    /\ doing[t] = "forgetting" => command[t] = "delete"
    /\ doing[t] = "writing" => command[t] \in {"pair", "resume"}
FlowInv == doing[Job] \notin CommandSteps /\ \A t \in Terminal : FlowAt(t)

\* Who is between taking the lock and giving it back holds it, and who listens has
\* its socket in the directory.
HoldInv ==
    \A p \in Processes :
        /\ doing[p] \in Held => holder = p
        /\ doing[p] \in Running => endpoint = p

\* Nothing runs the service, or would.
Quiet == ~service.wanted /\ doing[Job] = "idle" /\ ~(service.enabled /\ service.record)

AfterHalting == {"unrecording", "unprogramming", "confirming", "forgetting"}

\* While a command is alone, nobody starts the connection, whoever else stops it is
\* alone too, and what is left of a service that has no record does not run.
AloneInv ==
    alone # {} =>
        /\ \A t \in Terminal : command[t] \in Starting => doing[t] \in Running \cup Falling
        /\ \A t \in Terminal : command[t] \in Stopping => t \in alone
        /\ ~service.record => ~service.wanted /\ doing[Job] = "idle"

\* What a command that is alone has achieved when it is at a step.
ReachedInv ==
    \A t \in alone :
        /\ command[t] \in Stopping
        /\ doing[t] = "halting" => ~(service.enabled /\ service.record)
        /\ doing[t] \in AfterHalting => Quiet
        /\ doing[t] = "unprogramming" => ~service.record
        /\ doing[t] \in {"confirming", "forgetting"} /\ command[t] # "stop" =>
              ~service.record /\ ~service.program
        /\ doing[t] = "forgetting" =>
              \A u \in Terminal : command[u] = "foreground" => doing[u] \in Falling

\* What was achieved lasts.
CalmInv ==
    calm # "no" =>
        /\ Quiet
        /\ \A t \in Terminal : command[t] \in Starting => doing[t] \in Falling
        /\ calm = "deleted" => ~saved /\ ~service.record /\ ~service.program

ConnectionInv == LifecycleTypeOK /\ FlowInv /\ HoldInv
StopInv == AloneInv /\ ReachedInv /\ CalmInv

\* The lists of steps name steps of the service, and an uninstall ends with the
\* program.
LEMMA ListsOfSteps ==
    ASSUME manager \in Managers, NEW c
    PROVE  /\ StepsOf(c) \in Seq(ServiceSteps)
           /\ Len(StepsOf(c)) >= 1
           /\ c \notin {"pair", "resume", "refresh", "stop"} =>
                 \E i \in 1..Len(StepsOf(c)) : StepsOf(c)[i] = "unprogramming"
<1>1. linuxInstall \in Seq(ServiceSteps) /\ Len(linuxInstall) >= 1
      BY DEF linuxInstall, ServiceSteps
<1>2. linuxUserInstall \in Seq(ServiceSteps) /\ Len(linuxUserInstall) >= 1
      BY DEF linuxUserInstall, ServiceSteps
<1>3. darwinInstall \in Seq(ServiceSteps) /\ Len(darwinInstall) >= 1
      BY DEF darwinInstall, ServiceSteps
<1>4. darwinUserInstall \in Seq(ServiceSteps) /\ Len(darwinUserInstall) >= 1
      BY DEF darwinUserInstall, ServiceSteps
<1>5. windowsInstall \in Seq(ServiceSteps) /\ Len(windowsInstall) >= 1
      BY DEF windowsInstall, ServiceSteps
<1>6. userInstall \in Seq(ServiceSteps) /\ Len(userInstall) >= 1
      BY DEF userInstall, ServiceSteps
<1>7. InstallSteps(manager) \in Seq(ServiceSteps) /\ Len(InstallSteps(manager)) >= 1
      BY <1>1, <1>2, <1>3, <1>4, <1>5, <1>6 DEF InstallSteps
<1>8. StopSteps(manager) \in Seq(ServiceSteps) /\ Len(StopSteps(manager)) >= 1
  <2>1. linuxStop \in Seq(ServiceSteps) /\ Len(linuxStop) >= 1
        BY DEF linuxStop, ServiceSteps
  <2>2. linuxUserStop \in Seq(ServiceSteps) /\ Len(linuxUserStop) >= 1
        BY DEF linuxUserStop, ServiceSteps
  <2>3. darwinStop \in Seq(ServiceSteps) /\ Len(darwinStop) >= 1
        BY DEF darwinStop, ServiceSteps
  <2>4. darwinUserStop \in Seq(ServiceSteps) /\ Len(darwinUserStop) >= 1
        BY DEF darwinUserStop, ServiceSteps
  <2>5. windowsUserStopTask \in Seq(ServiceSteps) /\ Len(windowsUserStopTask) >= 1
        BY DEF windowsUserStopTask, ServiceSteps
  <2>6. stopAndDisableWindows \in Seq(ServiceSteps) /\ Len(stopAndDisableWindows) >= 1
        BY DEF stopAndDisableWindows, ServiceSteps
  <2> QED BY <2>1, <2>2, <2>3, <2>4, <2>5, <2>6 DEF StopSteps
<1>9. UninstallSteps(manager) \in Seq(ServiceSteps) /\ Len(UninstallSteps(manager)) >= 1
  <2>1. linuxUninstall \in Seq(ServiceSteps) /\ Len(linuxUninstall) >= 1
        BY DEF linuxUninstall, ServiceSteps
  <2>2. linuxUserUninstall \in Seq(ServiceSteps) /\ Len(linuxUserUninstall) >= 1
        BY DEF linuxUserUninstall, ServiceSteps
  <2>3. darwinUninstall \in Seq(ServiceSteps) /\ Len(darwinUninstall) >= 1
        BY DEF darwinUninstall, ServiceSteps
  <2>4. darwinUserUninstall \in Seq(ServiceSteps) /\ Len(darwinUserUninstall) >= 1
        BY DEF darwinUserUninstall, ServiceSteps
  <2>5. windowsUserUninstall \in Seq(ServiceSteps) /\ Len(windowsUserUninstall) >= 1
        BY DEF windowsUserUninstall, ServiceSteps
  <2>6. windowsUninstall \in Seq(ServiceSteps) /\ Len(windowsUninstall) >= 1
        BY DEF windowsUninstall, ServiceSteps
  <2> QED BY <2>1, <2>2, <2>3, <2>4, <2>5, <2>6 DEF UninstallSteps
<1>10. \E i \in 1..Len(UninstallSteps(manager)) : UninstallSteps(manager)[i] = "unprogramming"
  <2>1. UninstallSteps(manager) \in
            {linuxUninstall, linuxUserUninstall, darwinUninstall,
             darwinUserUninstall, windowsUserUninstall, windowsUninstall}
        BY DEF UninstallSteps
  <2>2. Len(darwinUninstall) = 5 /\ darwinUninstall[5] = "unprogramming"
        BY DEF darwinUninstall
  <2>3. /\ Len(linuxUninstall) = 4 /\ linuxUninstall[4] = "unprogramming"
        /\ Len(linuxUserUninstall) = 4 /\ linuxUserUninstall[4] = "unprogramming"
        /\ Len(darwinUserUninstall) = 4 /\ darwinUserUninstall[4] = "unprogramming"
        /\ Len(windowsUserUninstall) = 4 /\ windowsUserUninstall[4] = "unprogramming"
        /\ Len(windowsUninstall) = 4 /\ windowsUninstall[4] = "unprogramming"
        BY DEF linuxUninstall, linuxUserUninstall, darwinUserUninstall,
               windowsUserUninstall, windowsUninstall
  <2>4. \/ /\ Len(UninstallSteps(manager)) = 4
           /\ UninstallSteps(manager)[4] = "unprogramming"
        \/ /\ Len(UninstallSteps(manager)) = 5
           /\ UninstallSteps(manager)[5] = "unprogramming"
        BY <2>1, <2>2, <2>3
  <2>5. 4 \in 1..4 /\ 5 \in 1..5
        OBVIOUS
  <2> QED BY <2>4, <2>5
<1> QED BY <1>7, <1>8, <1>9, <1>10 DEF StepsOf

\* What comes next in a list is a step of the list, or the look at the end.
LEMMA FollowingIsNext ==
    ASSUME manager \in Managers, NEW t,
           NEW k \in 1..Len(StepsOf(command[t])), StepsOf(command[t])[k] = doing[t]
    PROVE  \/ Following(t) = "confirming"
           \/ /\ Following(t) \in ServiceSteps
              /\ \E i \in 1..Len(StepsOf(command[t])) : StepsOf(command[t])[i] = Following(t)
<1> DEFINE steps == StepsOf(command[t])
<1>1. steps \in Seq(ServiceSteps)
      BY ListsOfSteps
<1>2. Place(t) = CHOOSE i \in 1..Len(steps) : steps[i] = doing[t]
      BY DEF Place
<1>3. Following(t) = IF Place(t) < Len(steps) THEN steps[Place(t) + 1] ELSE "confirming"
      BY DEF Following
<1> HIDE DEF steps
<1>4. Place(t) \in 1..Len(steps)
      BY <1>2 DEF steps
<1>5. Len(steps) \in Nat
      BY <1>1
<1>6. CASE Place(t) < Len(steps)
  <2>1. Place(t) + 1 \in 1..Len(steps)
        BY <1>4, <1>5, <1>6
  <2>2. Following(t) = steps[Place(t) + 1]
        BY <1>3, <1>6
  <2>3. steps[Place(t) + 1] \in ServiceSteps
        BY <1>1, <2>1
  <2> QED BY <2>1, <2>2, <2>3 DEF steps
<1>7. CASE ~(Place(t) < Len(steps))
      BY <1>3, <1>7
<1> QED BY <1>6, <1>7

LEMMA FirstStep ==
    ASSUME manager \in Managers, NEW c
    PROVE  /\ Head(StepsOf(c)) \in ServiceSteps
           /\ \E i \in 1..Len(StepsOf(c)) : StepsOf(c)[i] = Head(StepsOf(c))
<1> DEFINE steps == StepsOf(c)
<1>1. steps \in Seq(ServiceSteps) /\ Len(steps) >= 1
      BY ListsOfSteps
<1> HIDE DEF steps
<1>2. 1 \in 1..Len(steps) /\ Head(steps) = steps[1]
      BY <1>1
<1>3. steps[1] \in ServiceSteps
      BY <1>1, <1>2
<1> QED BY <1>2, <1>3 DEF steps


LEMMA StaysOnList ==
    ASSUME NEW t, manager' = manager, command'[t] = command[t]
    PROVE  OnList(t)' <=> \E i \in 1..Len(StepsOf(command[t])) :
                              StepsOf(command[t])[i] = doing'[t]
BY DEF OnList, StepsOf, InstallSteps, StopSteps, UninstallSteps

\* A terminal left alone, one that waits, and one whose step is not the service's.
LEMMA FlowStays ==
    ASSUME NEW t, FlowAt(t), manager' = manager,
           command'[t] = command[t], doing'[t] = doing[t]
    PROVE  FlowAt(t)'
BY StaysOnList DEF FlowAt, OnList

LEMMA FlowIdle ==
    ASSUME NEW t, command'[t] = None, doing'[t] = "idle"
    PROVE  FlowAt(t)'
BY DEF FlowAt, Rising, Running, Falling, CommandSteps, ServiceSteps

LEMMA FlowMoves ==
    ASSUME NEW t, command'[t] # None, doing'[t] # "idle",
           doing'[t] \in Rising \cup Running \cup Falling \cup (CommandSteps \ ServiceSteps),
           doing'[t] = "network" => command'[t] \in {"pair", "resume", "foreground"},
           doing'[t] \in (Rising \ {"begun", "network"}) \cup Running \cup Falling =>
               command'[t] = "foreground",
           doing'[t] \in CommandSteps => command'[t] # "foreground",
           doing'[t] = "asking" => command'[t] \in Stopping,
           doing'[t] = "forgetting" => command'[t] = "delete",
           doing'[t] = "writing" => command'[t] \in {"pair", "resume"}
    PROVE  FlowAt(t)'
BY DEF FlowAt, Rising, Running, Falling, CommandSteps, ServiceSteps

LEMMA FlowOnList ==
    ASSUME NEW t, manager' = manager, command'[t] = command[t],
           command[t] \notin {None, "foreground"}, doing'[t] \in ServiceSteps,
           \E i \in 1..Len(StepsOf(command[t])) : StepsOf(command[t])[i] = doing'[t]
    PROVE  FlowAt(t)'
BY StaysOnList DEF FlowAt, Rising, Running, Falling, CommandSteps, ServiceSteps

\* Whoever moves, the flow of the other terminals is as it was.
LEMMA FlowAfter ==
    ASSUME FlowInv, NEW p, manager' = manager, doing'[Job] \notin CommandSteps,
           \A t \in Terminal \ {p} : doing'[t] = doing[t] /\ command'[t] = command[t],
           p \in Terminal => FlowAt(p)'
    PROVE  FlowInv'
BY FlowStays DEF FlowInv

\* The next step of a command is one its list has.
NextOn(t, move) ==
    /\ move \in ServiceSteps \cup {"confirming"}
    /\ move \in ServiceSteps =>
          \E i \in 1..Len(StepsOf(command[t])) : StepsOf(command[t])[i] = move

LEMMA FollowingOn ==
    ASSUME ConnectionInv, NEW t \in Terminal, doing[t] \in ServiceSteps
    PROVE  NextOn(t, Following(t)) /\ command[t] \notin {None, "foreground"}
<1>1. manager \in Managers
      BY LifecycleAssumption DEF ConnectionInv, LifecycleTypeOK
<1>2. OnList(t) /\ command[t] # "foreground"
      BY DEF ConnectionInv, FlowInv, FlowAt, CommandSteps
<1>3. command[t] # None
      BY DEF ConnectionInv, FlowInv, FlowAt, ServiceSteps
<1>4. PICK k \in 1..Len(StepsOf(command[t])) : StepsOf(command[t])[k] = doing[t]
      BY <1>2 DEF OnList
<1>5. \/ Following(t) = "confirming"
      \/ /\ Following(t) \in ServiceSteps
         /\ \E i \in 1..Len(StepsOf(command[t])) : StepsOf(command[t])[i] = Following(t)
      BY <1>1, <1>4, FollowingIsNext
<1> QED BY <1>2, <1>3, <1>5 DEF NextOn, ServiceSteps

LEMMA FirstOn ==
    ASSUME ConnectionInv, NEW t
    PROVE  NextOn(t, Head(StepsOf(command[t])))
BY FirstStep, LifecycleAssumption DEF ConnectionInv, LifecycleTypeOK, NextOn

LEMMA AfterAskingOn ==
    ASSUME ConnectionInv, NEW t \in Terminal, doing[t] = "asking"
    PROVE  NextOn(t, AfterAsking(t)) /\ command[t] \notin {None, "foreground"}
<1>1. manager \in Managers
      BY LifecycleAssumption DEF ConnectionInv, LifecycleTypeOK
<1>2. command[t] \in Stopping
      BY DEF ConnectionInv, FlowInv, FlowAt
<1>3. command[t] # "stop" =>
        \E i \in 1..Len(StepsOf(command[t])) : StepsOf(command[t])[i] = "unprogramming"
      BY <1>1, <1>2, ListsOfSteps DEF Stopping
<1>4. NextOn(t, AfterAsking(t))
      BY <1>3, FirstOn DEF AfterAsking, NextOn, ServiceSteps
<1>5. command[t] # None
      BY DEF ConnectionInv, FlowInv, FlowAt
<1> QED BY <1>2, <1>4, <1>5 DEF Stopping

LEMMA FlowGoesOn ==
    ASSUME NEW t, NEW move, manager' = manager, command'[t] = command[t],
           command[t] \notin {None, "foreground"}, doing'[t] = move, NextOn(t, move)
    PROVE  FlowAt(t)'
<1>1. CASE move \in ServiceSteps
      BY <1>1, FlowOnList DEF NextOn
<1>2. CASE move = "confirming"
      BY <1>2, FlowMoves DEF Rising, Running, Falling, CommandSteps, ServiceSteps
<1> QED BY <1>1, <1>2 DEF NextOn


LEMMA BeginKeeps ==
    ASSUME ConnectionInv, NEW t \in Terminal, NEW c \in Command, Begin(t, c)
    PROVE  ConnectionInv'
<1> USE LifecycleAssumption DEF ConnectionInv
<1>1. LifecycleTypeOK'
      BY DEF LifecycleTypeOK, Connects, Begin, Goes, lock, Processes, Rising, Held
<1>2. FlowInv'
      BY FlowStays, FlowIdle, FlowMoves DEF FlowInv, LifecycleTypeOK, Begin, Goes, Processes,
             Rising, Running, Falling, ServiceSteps, CommandSteps
<1>3. HoldInv'
      BY DEF HoldInv, Begin, Goes, lock, Running, Held
<1> QED BY <1>1, <1>2, <1>3

LEMMA ReadKeeps ==
    ASSUME ConnectionInv, NEW p \in Processes, Read(p)
    PROVE  ConnectionInv'
<1> USE LifecycleAssumption DEF ConnectionInv
<1>1. LifecycleTypeOK'
      BY DEF LifecycleTypeOK, Connects, Read, Goes, Over, lock, Processes, Rising, Held,
             CommandSteps
<1>2. p \in Terminal => FlowAt(p)'
      BY FlowIdle, FlowMoves DEF FlowInv, FlowAt, LifecycleTypeOK, Read, Goes, Over, Rising,
             Running, Falling, Starting, ServiceSteps, CommandSteps
<1>3. FlowInv'
      BY <1>2, FlowAfter DEF FlowInv, LifecycleTypeOK, Read, Goes, Over, Processes,
             ServiceSteps, CommandSteps
<1>4. HoldInv'
      BY DEF HoldInv, LifecycleTypeOK, Read, Goes, Over, lock, Running, Held
<1> QED BY <1>1, <1>3, <1>4

LEMMA StopBeginsKeeps ==
    ASSUME ConnectionInv, NEW t \in Terminal, StopBegins(t)
    PROVE  ConnectionInv'
<1> USE LifecycleAssumption DEF ConnectionInv
<1>1. LifecycleTypeOK'
      BY DEF LifecycleTypeOK, Connects, StopBegins, Goes, lock, told, CommandSteps
<1>2. t \in Terminal => FlowAt(t)'
      BY FlowIdle, FlowMoves DEF FlowInv, FlowAt, LifecycleTypeOK, StopBegins, Goes, told,
             Rising, Running, Falling, Starting, ServiceSteps
<1>3. FlowInv'
      BY <1>2, FlowAfter DEF FlowInv, StopBegins, Goes, told
<1>4. HoldInv'
      BY DEF HoldInv, StopBegins, Goes, lock, Running, Held
<1> QED BY <1>1, <1>3, <1>4

LEMMA SnapshotKeeps ==
    ASSUME ConnectionInv, NEW t \in Terminal, Snapshot(t)
    PROVE  ConnectionInv'
<1> USE LifecycleAssumption DEF ConnectionInv
<1> DEFINE first == Head(StepsOf("refresh"))
<1>0. NextOn(t, first) /\ command[t] \notin {None, "foreground"}
      BY FirstOn DEF FlowInv, FlowAt, Snapshot
<1> HIDE DEF first
<1>1. CASE Goes(t, first) /\ UNCHANGED <<command, alone>>
  <2>1. doing' = [doing EXCEPT ![t] = first] /\ UNCHANGED <<command, alone>>
        BY <1>1 DEF Goes
  <2>2. LifecycleTypeOK'
        BY <1>0, <2>1 DEF NextOn, LifecycleTypeOK, Snapshot, lock, Connects, CommandSteps,
               Processes
  <2>3. FlowAt(t)'
        BY <1>0, <2>1, FlowGoesOn DEF LifecycleTypeOK, Snapshot, Processes
  <2>4. FlowInv'
        BY <2>1, <2>3, FlowAfter DEF FlowInv, LifecycleTypeOK, Snapshot, Processes
  <2>5. HoldInv'
        BY <1>0, <2>1 DEF NextOn, HoldInv, Snapshot, lock, Held, Running, ServiceSteps
  <2> QED BY <2>2, <2>4, <2>5
<1>2. CASE Over(t)
  <2>1. LifecycleTypeOK'
        BY <1>2 DEF LifecycleTypeOK, Snapshot, Over, Goes, lock, Held, Connects, Processes
  <2>2. FlowInv'
        BY <1>2, FlowIdle, FlowAfter DEF FlowInv, LifecycleTypeOK, Snapshot, Over, Goes,
               Processes
  <2>3. HoldInv'
        BY <1>2 DEF HoldInv, LifecycleTypeOK, Snapshot, Over, Goes, lock, Held, Running
  <2> QED BY <2>1, <2>2, <2>3
<1> QED BY <1>1, <1>2 DEF Snapshot, first


LEMMA NetworkReadyKeeps ==
    ASSUME ConnectionInv, NEW p \in Processes, NetworkReady(p)
    PROVE  ConnectionInv'
<1> USE LifecycleAssumption DEF ConnectionInv
<1>1. LifecycleTypeOK'
      BY DEF LifecycleTypeOK, Connects, NetworkReady, Goes, lock, told, Rising, Held,
             CommandSteps
<1>2. p \in Terminal => FlowAt(p)'
      BY FlowIdle, FlowMoves DEF FlowInv, FlowAt, Connects, NetworkReady, Goes, told, Rising,
             Running, Falling, ServiceSteps, CommandSteps
<1>3. FlowInv'
      BY <1>2, FlowAfter DEF FlowInv, NetworkReady, Goes, told, Connects, ServiceSteps,
             CommandSteps
<1>4. HoldInv'
      BY DEF HoldInv, NetworkReady, Goes, lock, Running, Held
<1> QED BY <1>1, <1>3, <1>4

LEMMA WriteKeeps ==
    ASSUME ConnectionInv, NEW t \in Terminal, Write(t)
    PROVE  ConnectionInv'
<1> USE LifecycleAssumption DEF ConnectionInv
<1> DEFINE move == Head(StepsOf(command[t]))
<1>0. NextOn(t, move) /\ command[t] \notin {None, "foreground"}
      BY FirstOn DEF FlowInv, FlowAt, Write, CommandSteps, ServiceSteps
<1> HIDE DEF move
<1>1. LifecycleTypeOK'
      BY <1>0 DEF move, NextOn, LifecycleTypeOK, Connects, Write, Goes, lock, told, CommandSteps
<1>2. FlowAt(t)'
      BY <1>0, FlowGoesOn DEF move, LifecycleTypeOK, Write, Goes, told, Processes
<1>3. FlowInv'
      BY <1>2, FlowAfter DEF FlowInv, Write, Goes, told
<1>4. HoldInv'
      BY <1>0 DEF move, NextOn, HoldInv, Write, Goes, lock, Running, Held, ServiceSteps
<1> QED BY <1>1, <1>3, <1>4

LEMMA EffectsTyped ==
    ASSUME LifecycleTypeOK, NEW move \in ServiceSteps, NEW s \in Effects(manager, move, service)
    PROVE  s \in [program : BOOLEAN, record : BOOLEAN, enabled : BOOLEAN, wanted : BOOLEAN]
<1>1. service \in [program : BOOLEAN, record : BOOLEAN, enabled : BOOLEAN, wanted : BOOLEAN]
      BY DEF LifecycleTypeOK
<1>2. CASE move \in {"copying", "enabling", "unrecording", "unprogramming"}
      BY <1>1, <1>2 DEF Effects
<1>3. CASE move = "recording"
      BY <1>1, <1>3 DEF Effects, Recorded
<1>4. CASE move = "starting"
      BY <1>1, <1>4 DEF Effects, Startable
<1>5. CASE move = "disabling"
      BY <1>1, <1>5 DEF Effects, Disabled
<1>6. CASE move = "halting"
      BY <1>1, <1>6 DEF Effects, Halted
<1> QED BY <1>2, <1>3, <1>4, <1>5, <1>6 DEF ServiceSteps

LEMMA ServiceStepKeeps ==
    ASSUME ConnectionInv, NEW t \in Terminal, ServiceStep(t)
    PROVE  ConnectionInv'
<1> USE LifecycleAssumption DEF ConnectionInv
<1> DEFINE move == Following(t)
<1>0. NextOn(t, move) /\ command[t] \notin {None, "foreground"}
      BY FollowingOn DEF ServiceStep
<1> HIDE DEF move
<1>1. doing' = [doing EXCEPT ![t] = move]
      BY DEF ServiceStep, Goes, move
<1>2. service' \in [program : BOOLEAN, record : BOOLEAN, enabled : BOOLEAN, wanted : BOOLEAN]
      BY EffectsTyped DEF ServiceStep
<1>3. LifecycleTypeOK'
      BY <1>0, <1>1, <1>2 DEF NextOn, LifecycleTypeOK, ServiceStep, lock, told, Connects,
             CommandSteps
<1>4. FlowAt(t)'
      BY <1>0, <1>1, FlowGoesOn DEF LifecycleTypeOK, ServiceStep, told, Processes
<1>5. FlowInv'
      BY <1>1, <1>4, FlowAfter DEF FlowInv, LifecycleTypeOK, ServiceStep, told, Processes
<1>6. HoldInv'
      BY <1>0, <1>1 DEF NextOn, HoldInv, ServiceStep, lock, Held, Running, ServiceSteps
<1> QED BY <1>3, <1>5, <1>6


LEMMA HaltKeeps ==
    ASSUME ConnectionInv, NEW t \in Terminal, Halt(t)
    PROVE  ConnectionInv'
<1> USE LifecycleAssumption DEF ConnectionInv
<1> DEFINE move == Following(t)
<1>0. NextOn(t, move) /\ command[t] \notin {None, "foreground"}
      BY FollowingOn DEF Halt, ServiceSteps
<1> HIDE DEF move
<1>1. service' \in [program : BOOLEAN, record : BOOLEAN, enabled : BOOLEAN, wanted : BOOLEAN]
      BY EffectsTyped DEF Halt, ServiceSteps
<1>2. \/ UNCHANGED lock /\ doing' = [doing EXCEPT ![t] = move]
      \/ EndsJob /\ doing' = [doing EXCEPT ![t] = move, ![Job] = "idle"]
      BY DEF Halt, Goes, move
<1>3. LifecycleTypeOK'
      BY <1>0, <1>1, <1>2 DEF NextOn, LifecycleTypeOK, Halt, EndsJob, lock, told, Held,
             Connects, ServiceSteps, CommandSteps, Processes
<1>4. FlowAt(t)'
      BY <1>0, <1>2, FlowGoesOn DEF LifecycleTypeOK, Halt, told, Processes
<1>5. FlowInv'
      BY <1>2, <1>4, FlowAfter
      DEF FlowInv, LifecycleTypeOK, Halt, told, Processes, CommandSteps, ServiceSteps
<1>6. HoldInv'
      BY <1>0, <1>2 DEF NextOn, HoldInv, LifecycleTypeOK, EndsJob, lock, Held, Running,
             ServiceSteps, Processes
<1> QED BY <1>3, <1>5, <1>6

LEMMA StartKeeps ==
    ASSUME ConnectionInv, NEW t \in Terminal, Start(t)
    PROVE  ConnectionInv'
<1> USE LifecycleAssumption DEF ConnectionInv
<1>1. LifecycleTypeOK'
      BY DEF LifecycleTypeOK, FlowInv, FlowAt, Connects, Start, Goes, lock, EndsJob, Startable,
             Effects, Rising, Running, Falling
<1>2. FlowInv'
      BY FlowStays, FlowIdle, FlowMoves DEF FlowInv, LifecycleTypeOK, Start, Goes, Processes,
             ServiceSteps, CommandSteps
<1>3. HoldInv'
      BY DEF HoldInv, LifecycleTypeOK, Start, Goes, lock, EndsJob, Running, Held
<1> QED BY <1>1, <1>2, <1>3

LEMMA AskKeeps ==
    ASSUME ConnectionInv, NEW t \in Terminal, Ask(t)
    PROVE  ConnectionInv'
<1> USE LifecycleAssumption DEF ConnectionInv
<1> DEFINE move == AfterAsking(t)
<1>0. NextOn(t, move) /\ command[t] \notin {None, "foreground"}
      BY AfterAskingOn DEF Ask
<1> HIDE DEF move
\* Who is asked serves and goes down.
<1>1. PICK heard \in {{}, {endpoint}} :
          /\ heard = {} \/ Live
          /\ doing' = [p \in Processes |-> IF p = t THEN move
                                           ELSE IF p \in heard THEN "cancelled"
                                           ELSE doing[p]]
      BY DEF Ask, move
<1>2. \A p \in Processes : doing'[p] = IF p = t THEN move
                                       ELSE IF p \in heard THEN "cancelled"
                                       ELSE doing[p]
      BY <1>1
<1>3. \A p \in heard : p = endpoint /\ doing[p] \in Running
      BY <1>1 DEF Live
<1>4. UNCHANGED <<manager, saved, service, lock, told, troubles>>
      BY DEF Ask
<1>5. LifecycleTypeOK'
      BY <1>0, <1>1, <1>3, <1>4 DEF NextOn, LifecycleTypeOK, lock, told, Held, Running,
             Connects, ServiceSteps, CommandSteps, Processes
<1>6. FlowInv'
  <2>1. ASSUME NEW u \in Terminal
        PROVE  FlowAt(u)'
    <3>1. CASE u = t
          BY <1>0, <1>2, <1>4, <3>1, FlowGoesOn DEF told, Processes
    <3>2. CASE u # t /\ u \notin heard
          BY <1>2, <1>4, <3>2, FlowStays DEF FlowInv, told, Processes
    <3>3. CASE u # t /\ u \in heard
      <4>1. doing'[u] = "cancelled"
            BY <1>2, <3>3 DEF Processes
      <4>2. command'[u] = "foreground"
            BY <1>3, <1>4, <3>3 DEF FlowInv, FlowAt, told
      <4>3. None # "foreground"
            BY <1>3, <3>3, <4>2, <1>4 DEF FlowInv, FlowAt, told, Running
      <4> QED BY <4>1, <4>2, <4>3, FlowMoves
              DEF Rising, Running, Falling, CommandSteps, ServiceSteps
    <3> QED BY <3>1, <3>2, <3>3
  <2>2. doing'[Job] \notin CommandSteps
        BY <1>2 DEF FlowInv, CommandSteps, ServiceSteps, Processes
  <2> QED BY <2>1, <2>2 DEF FlowInv
<1>7. HoldInv'
      BY <1>0, <1>2, <1>3, <1>4 DEF NextOn, HoldInv, lock, Held, Running, ServiceSteps,
             Processes
<1> QED BY <1>5, <1>6, <1>7

LEMMA ConfirmKeeps ==
    ASSUME ConnectionInv, NEW t \in Terminal, Confirm(t)
    PROVE  ConnectionInv'
<1> USE LifecycleAssumption DEF ConnectionInv
<1>1. LifecycleTypeOK'
      BY DEF LifecycleTypeOK, FlowInv, FlowAt, Connects, Confirm, Goes, Over, lock, Processes,
             CommandSteps
<1>2. t \in Terminal => FlowAt(t)'
      BY FlowIdle, FlowMoves DEF FlowInv, FlowAt, LifecycleTypeOK, Confirm, Goes, Over,
             Processes, Rising, Running, Falling, ServiceSteps
<1>3. FlowInv'
      BY <1>2, FlowAfter DEF FlowInv, LifecycleTypeOK, Confirm, Goes, Over, Processes
<1>4. HoldInv'
      BY DEF HoldInv, LifecycleTypeOK, Confirm, Goes, Over, lock, Running, Held
<1> QED BY <1>1, <1>3, <1>4

LEMMA ConfirmTimesOutKeeps ==
    ASSUME ConnectionInv, NEW t \in Terminal, ConfirmTimesOut(t)
    PROVE  ConnectionInv'
<1> USE LifecycleAssumption DEF ConnectionInv
<1>1. LifecycleTypeOK'
      BY DEF LifecycleTypeOK, FlowInv, FlowAt, Connects, ConfirmTimesOut, Goes, Over, lock,
             Processes, Rising, Running, Falling
<1>2. FlowInv'
      BY FlowStays, FlowIdle, FlowMoves DEF FlowInv, LifecycleTypeOK, ConfirmTimesOut, Goes,
             Over, Processes
<1>3. HoldInv'
      BY DEF HoldInv, ConfirmTimesOut, Goes, Over, lock, Running, Held
<1> QED BY <1>1, <1>2, <1>3

LEMMA ForgetKeeps ==
    ASSUME ConnectionInv, NEW t \in Terminal, Forget(t)
    PROVE  ConnectionInv'
<1> USE LifecycleAssumption DEF ConnectionInv
<1>1. LifecycleTypeOK'
      BY DEF LifecycleTypeOK, FlowInv, FlowAt, Connects, Forget, Goes, Over, lock, Processes
<1>2. FlowInv'
      BY FlowStays, FlowIdle, FlowMoves DEF FlowInv, LifecycleTypeOK, Forget, Goes, Over,
             Processes
<1>3. HoldInv'
      BY DEF HoldInv, Forget, Goes, Over, lock, Running, Held
<1> QED BY <1>1, <1>2, <1>3

LEMMA FailsKeeps ==
    ASSUME ConnectionInv, NEW t \in Terminal, Fails(t)
    PROVE  ConnectionInv'
<1> USE LifecycleAssumption DEF ConnectionInv
<1>1. LifecycleTypeOK'
      BY DEF LifecycleTypeOK, FlowInv, FlowAt, Connects, Fails, Goes, Over, lock, Trouble,
             Processes, Held
<1>2. FlowInv'
      BY FlowStays, FlowIdle, FlowMoves DEF FlowInv, LifecycleTypeOK, Fails, Goes, Over,
             Processes
<1>3. HoldInv'
      BY DEF HoldInv, Fails, Goes, Over, lock, Running, Held
<1> QED BY <1>1, <1>2, <1>3

LEMMA JobStartsKeeps ==
    ASSUME ConnectionInv, JobStarts
    PROVE  ConnectionInv'
<1> USE LifecycleAssumption DEF ConnectionInv
<1>1. LifecycleTypeOK'
      BY DEF LifecycleTypeOK, Connects, JobStarts, Goes, lock, told, Rising, Held
<1>2. FlowInv'
      BY FlowStays, FlowIdle, FlowMoves DEF FlowInv, JobStarts, Goes, told, ServiceSteps,
             CommandSteps
<1>3. HoldInv'
      BY DEF HoldInv, JobStarts, Goes, lock, Running, Held
<1> QED BY <1>1, <1>2, <1>3

LEMMA TakeLockKeeps ==
    ASSUME ConnectionInv, NEW p \in Processes, TakeLock(p)
    PROVE  ConnectionInv'
<1> USE LifecycleAssumption DEF ConnectionInv
<1>1. LifecycleTypeOK'
      BY DEF LifecycleTypeOK, FlowInv, FlowAt, Connects, TakeLock, Goes, Over, Processes,
             Rising, Held
<1>2. p \in Terminal => FlowAt(p)'
      BY FlowIdle, FlowMoves DEF FlowInv, FlowAt, LifecycleTypeOK, TakeLock, Goes, Over,
             ServiceSteps, CommandSteps
<1>3. FlowInv'
      BY <1>2, FlowAfter DEF FlowInv, LifecycleTypeOK, TakeLock, Goes, Over, Processes,
             ServiceSteps, CommandSteps
<1>4. HoldInv'
      BY DEF HoldInv, LifecycleTypeOK, TakeLock, Goes, Over, Running, Held
<1> QED BY <1>1, <1>3, <1>4

LEMMA PrepareKeeps ==
    ASSUME ConnectionInv, NEW p \in Processes, Prepare(p)
    PROVE  ConnectionInv'
<1> USE LifecycleAssumption DEF ConnectionInv
<1>1. LifecycleTypeOK'
      BY DEF LifecycleTypeOK, Connects, Prepare, Goes, Over, Rising, Held
<1>2. p \in Terminal => FlowAt(p)'
      BY FlowIdle, FlowMoves DEF FlowInv, FlowAt, LifecycleTypeOK, Prepare, Goes, Over,
             ServiceSteps, CommandSteps
<1>3. FlowInv'
      BY <1>2, FlowAfter DEF FlowInv, LifecycleTypeOK, Prepare, Goes, Over, Processes,
             ServiceSteps, CommandSteps
<1>4. HoldInv'
      BY DEF HoldInv, LifecycleTypeOK, Prepare, Goes, Over, Running, Held
<1> QED BY <1>1, <1>3, <1>4

LEMMA RemoveStaleKeeps ==
    ASSUME ConnectionInv, NEW p \in Processes, RemoveStale(p)
    PROVE  ConnectionInv'
<1> USE LifecycleAssumption DEF ConnectionInv
<1>1. LifecycleTypeOK'
      BY DEF LifecycleTypeOK, Connects, RemoveStale, Goes, told, Rising, Held
<1>2. p \in Terminal => FlowAt(p)'
      BY FlowIdle, FlowMoves DEF FlowInv, FlowAt, LifecycleTypeOK, RemoveStale, Goes, told,
             ServiceSteps, CommandSteps
<1>3. FlowInv'
      BY <1>2, FlowAfter DEF FlowInv, RemoveStale, Goes, told, ServiceSteps, CommandSteps
<1>4. HoldInv'
      BY DEF HoldInv, RemoveStale, Goes, Running, Held
<1> QED BY <1>1, <1>3, <1>4

LEMMA BindKeeps ==
    ASSUME ConnectionInv, NEW p \in Processes, Bind(p)
    PROVE  ConnectionInv'
<1> USE LifecycleAssumption DEF ConnectionInv
<1>1. LifecycleTypeOK'
      BY DEF LifecycleTypeOK, Connects, Bind, Goes, Over, Running, Held
<1>2. p \in Terminal => FlowAt(p)'
      BY FlowIdle, FlowMoves DEF FlowInv, FlowAt, LifecycleTypeOK, Bind, Goes, Over,
             ServiceSteps, CommandSteps
<1>3. FlowInv'
      BY <1>2, FlowAfter DEF FlowInv, LifecycleTypeOK, Bind, Goes, Over, Processes,
             ServiceSteps, CommandSteps
<1>4. HoldInv'
      BY DEF HoldInv, LifecycleTypeOK, Bind, Goes, Over, Running, Held
<1> QED BY <1>1, <1>3, <1>4

LEMMA CancelKeeps ==
    ASSUME ConnectionInv, NEW p \in Processes, Cancel(p)
    PROVE  ConnectionInv'
<1> USE LifecycleAssumption DEF ConnectionInv
<1>1. LifecycleTypeOK'
      BY DEF LifecycleTypeOK, Connects, Cancel, Goes, lock, told, Trouble, Running, Held
<1>2. p \in Terminal => FlowAt(p)'
      BY FlowIdle, FlowMoves DEF FlowInv, FlowAt, LifecycleTypeOK, Cancel, Goes, told,
             ServiceSteps, CommandSteps
<1>3. FlowInv'
      BY <1>2, FlowAfter DEF FlowInv, Cancel, Goes, told, ServiceSteps, CommandSteps
<1>4. HoldInv'
      BY DEF HoldInv, Cancel, Goes, lock, Running, Held
<1> QED BY <1>1, <1>3, <1>4

LEMMA CloseListenerKeeps ==
    ASSUME ConnectionInv, NEW p \in Processes, CloseListener(p)
    PROVE  ConnectionInv'
<1> USE LifecycleAssumption DEF ConnectionInv
<1>1. LifecycleTypeOK'
      BY DEF LifecycleTypeOK, Connects, CloseListener, Goes, told, Falling, Held
<1>2. p \in Terminal => FlowAt(p)'
      BY FlowIdle, FlowMoves DEF FlowInv, FlowAt, LifecycleTypeOK, CloseListener, Goes, told,
             ServiceSteps, CommandSteps
<1>3. FlowInv'
      BY <1>2, FlowAfter DEF FlowInv, CloseListener, Goes, told, ServiceSteps, CommandSteps
<1>4. HoldInv'
      BY DEF HoldInv, LifecycleTypeOK, CloseListener, Goes, Running, Held
<1> QED BY <1>1, <1>3, <1>4

LEMMA UnlockKeeps ==
    ASSUME ConnectionInv, NEW p \in Processes, Unlock(p)
    PROVE  ConnectionInv'
<1> USE LifecycleAssumption DEF ConnectionInv
<1>1. LifecycleTypeOK'
      BY DEF LifecycleTypeOK, Unlock, Goes, told, Falling
<1>2. p \in Terminal => FlowAt(p)'
      BY FlowIdle, FlowMoves DEF FlowInv, FlowAt, LifecycleTypeOK, Unlock, Goes, told,
             ServiceSteps, CommandSteps
<1>3. FlowInv'
      BY <1>2, FlowAfter DEF FlowInv, Unlock, Goes, told, ServiceSteps, CommandSteps
<1>4. HoldInv'
      BY DEF HoldInv, LifecycleTypeOK, Unlock, Goes, Running, Held
<1> QED BY <1>1, <1>3, <1>4

LEMMA ProcessReturnKeeps ==
    ASSUME ConnectionInv, NEW p \in Processes, Return(p)
    PROVE  ConnectionInv'
<1> USE LifecycleAssumption DEF ConnectionInv
<1>1. LifecycleTypeOK'
  <2>1. holder # None =>
            holder # p /\ holder \in Processes /\ doing[holder] \in Held /\ Connects(holder)
        BY DEF LifecycleTypeOK, Return, Held
  <2>2. holder' # None => doing'[holder'] \in Held /\ Connects(holder)'
        BY <2>1 DEF LifecycleTypeOK, Connects, Return, Goes, Over, lock, Processes
  <2>3. /\ doing' \in [Processes -> {"idle"} \cup Rising \cup Running \cup Falling
                                      \cup CommandSteps]
        /\ command' \in [Terminal -> Command \cup {None}]
        BY DEF LifecycleTypeOK, Return, Goes, Over
  <2>4. service' \in [program : BOOLEAN, record : BOOLEAN, enabled : BOOLEAN,
                      wanted : BOOLEAN]
        BY DEF LifecycleTypeOK, Return
  <2> QED BY <2>2, <2>3, <2>4 DEF LifecycleTypeOK, Return, Over, lock
<1>2. FlowInv'
      BY FlowStays, FlowIdle, FlowMoves DEF FlowInv, LifecycleTypeOK, Return, Goes, Over,
             ServiceSteps, CommandSteps
<1>3. HoldInv'
      BY DEF HoldInv, Return, Goes, Over, lock, Running, Held
<1> QED BY <1>1, <1>2, <1>3

LEMMA DiesKeeps ==
    ASSUME ConnectionInv, NEW p \in Processes, Dies(p)
    PROVE  ConnectionInv'
<1> USE LifecycleAssumption DEF ConnectionInv
<1>1. LifecycleTypeOK'
      BY DEF LifecycleTypeOK, Connects, Dies, Goes, Over, Trouble
<1>2. FlowInv'
      BY FlowStays, FlowIdle, FlowMoves DEF FlowInv, LifecycleTypeOK, Dies, Goes, Over,
             ServiceSteps, CommandSteps
<1>3. HoldInv'
      BY DEF HoldInv, LifecycleTypeOK, Dies, Goes, Over, Running, Held
<1> QED BY <1>1, <1>2, <1>3

LEMMA RebootKeeps ==
    ASSUME ConnectionInv, Reboot
    PROVE  ConnectionInv'
<1> USE LifecycleAssumption DEF ConnectionInv
<1>1. LifecycleTypeOK'
      BY DEF LifecycleTypeOK, Reboot, Trouble
<1>2. FlowInv'
      BY FlowStays, FlowIdle, FlowMoves DEF FlowInv, Reboot, Processes, ServiceSteps,
             CommandSteps
<1>3. HoldInv'
      BY DEF HoldInv, Reboot, Running, Held
<1> QED BY <1>1, <1>2, <1>3

LEMMA ConnectionInitHolds == LifecycleInit => ConnectionInv
<1> SUFFICES ASSUME LifecycleInit PROVE ConnectionInv
    OBVIOUS
<1> USE LifecycleAssumption DEF LifecycleInit
<1>1. LifecycleTypeOK
  <2>1. /\ doing \in [Processes -> {"idle"} \cup Rising \cup Running \cup Falling \cup CommandSteps]
        /\ command \in [Terminal -> Command \cup {None}]
        BY DEF Processes
  <2>2. given \in 0..MaxCommands /\ troubles \in 0..MaxTroubles
        OBVIOUS
  <2>3. service \in [program : BOOLEAN, record : BOOLEAN, enabled : BOOLEAN, wanted : BOOLEAN]
        BY DEF Absent
  <2> QED BY <2>1, <2>2, <2>3 DEF LifecycleTypeOK
<1>2. \A t \in Terminal : FlowAt(t)
      BY DEF FlowAt, Processes, Rising, Running, Falling, CommandSteps, ServiceSteps
<1>3. doing[Job] \notin CommandSteps
      BY DEF Processes, CommandSteps, ServiceSteps
<1>4. HoldInv
      BY DEF HoldInv, Held, Running
<1> QED BY <1>1, <1>2, <1>3, <1>4 DEF ConnectionInv, FlowInv

LEMMA ConnectionStutter ==
    ASSUME ConnectionInv, UNCHANGED lifecycleVars
    PROVE  ConnectionInv'
<1> USE DEF lifecycleVars
<1>1. LifecycleTypeOK'
      BY DEF ConnectionInv, LifecycleTypeOK, Connects
<1>2. FlowInv'
      BY FlowStays DEF ConnectionInv, FlowInv
<1>3. HoldInv'
      BY DEF ConnectionInv, HoldInv
<1> QED BY <1>1, <1>2, <1>3 DEF ConnectionInv

LEMMA ConnectionStep ==
    ASSUME ConnectionInv, [LifecycleNext]_lifecycleVars
    PROVE  ConnectionInv'
<1>1. ASSUME NEW t \in Terminal, NEW c \in Command, Begin(t, c)
      PROVE  ConnectionInv'
      BY <1>1, BeginKeeps
<1>2. ASSUME NEW t \in Terminal, Proceed(t)
      PROVE  ConnectionInv'
      BY <1>2, StopBeginsKeeps, SnapshotKeeps, WriteKeeps, ServiceStepKeeps, HaltKeeps,
         StartKeeps, AskKeeps, ConfirmKeeps, ConfirmTimesOutKeeps, ForgetKeeps DEF Proceed
<1>3. ASSUME NEW t \in Terminal, Fails(t)
      PROVE  ConnectionInv'
      BY <1>3, FailsKeeps
<1>4. ASSUME NEW p \in Processes, Advance(p)
      PROVE  ConnectionInv'
      BY <1>4, ReadKeeps, NetworkReadyKeeps, TakeLockKeeps, PrepareKeeps, RemoveStaleKeeps,
         BindKeeps, CloseListenerKeeps, UnlockKeeps, ProcessReturnKeeps DEF Advance
<1>5. ASSUME NEW p \in Processes, Cancel(p) \/ Dies(p)
      PROVE  ConnectionInv'
      BY <1>5, CancelKeeps, DiesKeeps
<1> QED BY <1>1, <1>2, <1>3, <1>4, <1>5, JobStartsKeeps, RebootKeeps, ConnectionStutter
        DEF LifecycleNext

\* Every variable of the life of a connection keeps its type, and its lock is held
\* only by a process on its way from taking it to giving it back, whatever the
\* managers, terminals, commands, crashes and restarts.
THEOREM LifecycleTypeCorrect == LifecycleSpec => []LifecycleTypeOK
<1>1. LifecycleInit => ConnectionInv
      BY ConnectionInitHolds
<1>2. ConnectionInv /\ [LifecycleNext]_lifecycleVars => ConnectionInv'
      BY ConnectionStep
<1>3. ConnectionInv => LifecycleTypeOK
      BY DEF ConnectionInv
<1> QED BY <1>1, <1>2, <1>3, PTL DEF LifecycleSpec

LEMMA EndpointFollows == ConnectionInv => EndpointIsOwn
BY DEF ConnectionInv, HoldInv, EndpointIsOwn, Held, Running

\* A process that serves a connection, a terminal's or the service manager's, can
\* be reached: the socket in the directory is its own and it holds the lock.
THEOREM ServedIsReachable == LifecycleSpec => []EndpointIsOwn
<1>1. LifecycleInit => ConnectionInv
      BY ConnectionInitHolds
<1>2. ConnectionInv /\ [LifecycleNext]_lifecycleVars => ConnectionInv'
      BY ConnectionStep
<1>3. ConnectionInv => EndpointIsOwn
      BY EndpointFollows
<1> QED BY <1>1, <1>2, <1>3, PTL DEF LifecycleSpec

-----------------------------------------------------------------------------
(* What was stopped stays stopped.  The Windows manager may run a service    *)
(* again that was told to stop, and launchd enables a label once more while  *)
(* it is removed; of the other managers the four below all keep the promise. *)

Tame == Platforms \cap {"scm", "launchd"} = {}

LEMMA StepsAlone ==
    ASSUME Tame, LifecycleTypeOK
    PROVE  /\ StepsOf("stop") = <<"disabling", "halting">>
           /\ \A c \in {"uninstall", "delete"} :
                 StepsOf(c) = <<"disabling", "halting", "unrecording", "unprogramming">>
<1>1. manager \in {"systemd", "user", "agent", "tasks"}
      BY LifecycleAssumption DEF Tame, LifecycleTypeOK, Managers
<1>2. StopSteps(manager) = <<"disabling", "halting">>
      BY <1>1 DEF StopSteps, linuxStop, linuxUserStop, darwinUserStop, windowsUserStopTask
<1>3. UninstallSteps(manager) = <<"disabling", "halting", "unrecording", "unprogramming">>
      BY <1>1 DEF UninstallSteps, linuxUninstall, linuxUserUninstall, darwinUserUninstall,
             windowsUserUninstall
<1> QED BY <1>2, <1>3 DEF StepsOf

\* The order of a stop and of an uninstall.
LEMMA FollowingAlone ==
    ASSUME Tame, ConnectionInv, NEW t \in Terminal, command[t] \in Stopping,
           doing[t] \in ServiceSteps
    PROVE  \/ doing[t] = "disabling" /\ Following(t) = "halting"
           \/ doing[t] = "halting" /\ command[t] = "stop" /\ Following(t) = "confirming"
           \/ doing[t] = "halting" /\ command[t] # "stop" /\ Following(t) = "unrecording"
           \/ /\ doing[t] = "unrecording" /\ command[t] # "stop"
              /\ Following(t) = "unprogramming"
           \/ /\ doing[t] = "unprogramming" /\ command[t] # "stop"
              /\ Following(t) = "confirming"
<1> DEFINE steps == StepsOf(command[t])
<1>1. \/ command[t] = "stop" /\ steps = <<"disabling", "halting">>
      \/ command[t] # "stop"
         /\ steps = <<"disabling", "halting", "unrecording", "unprogramming">>
      BY StepsAlone DEF ConnectionInv, Stopping
<1>2. PICK k \in 1..Len(steps) : steps[k] = doing[t]
      BY DEF ConnectionInv, FlowInv, FlowAt, OnList
<1>3. Place(t) = CHOOSE i \in 1..Len(steps) : steps[i] = doing[t]
      BY DEF Place
<1>4. Following(t) = IF Place(t) < Len(steps) THEN steps[Place(t) + 1] ELSE "confirming"
      BY DEF Following
<1> HIDE DEF steps
<1>5. \A i \in 1..Len(steps) : steps[i] = doing[t] => i = k
      BY <1>1, <1>2
<1>6. Place(t) = k
      BY <1>2, <1>3, <1>5
<1>7. CASE command[t] = "stop" /\ steps = <<"disabling", "halting">>
  <2>1. k \in 1..2
        BY <1>2, <1>7
  <2>2. CASE k = 1
        BY <1>2, <1>4, <1>6, <1>7, <2>2
  <2>3. CASE k = 2
        BY <1>2, <1>4, <1>6, <1>7, <2>3
  <2> QED BY <2>1, <2>2, <2>3
<1>8. CASE command[t] # "stop"
           /\ steps = <<"disabling", "halting", "unrecording", "unprogramming">>
  <2>1. k \in 1..4
        BY <1>2, <1>8
  <2>2. CASE k = 1
        BY <1>2, <1>4, <1>6, <1>8, <2>2
  <2>3. CASE k = 2
        BY <1>2, <1>4, <1>6, <1>8, <2>3
  <2>4. CASE k = 3
        BY <1>2, <1>4, <1>6, <1>8, <2>4
  <2>5. CASE k = 4
        BY <1>2, <1>4, <1>6, <1>8, <2>5
  <2> QED BY <2>1, <2>2, <2>3, <2>4, <2>5
<1> QED BY <1>1, <1>7, <1>8

LEMMA BeginStops ==
    ASSUME Tame, ConnectionInv, StopInv, NEW t \in Terminal, NEW c \in Command, Begin(t, c)
    PROVE  StopInv'
<1> USE LifecycleAssumption DEF ConnectionInv, StopInv
<1>1. AloneInv'
      BY DEF AloneInv, ReachedInv, CalmInv, LifecycleTypeOK, FlowInv, FlowAt, Begin, Goes,
             Disturbed, Overlaps, Processes, Rising, Running, Falling
<1>2. ReachedInv'
      BY DEF AloneInv, ReachedInv, CalmInv, LifecycleTypeOK, FlowInv, FlowAt, Begin, Goes,
             Starting, AfterHalting, Quiet
<1>3. CalmInv'
      BY DEF AloneInv, ReachedInv, CalmInv, LifecycleTypeOK, FlowInv, FlowAt, Begin, Goes, Quiet
<1> QED BY <1>1, <1>2, <1>3

LEMMA ReadStops ==
    ASSUME Tame, ConnectionInv, StopInv, NEW p \in Processes, Read(p)
    PROVE  StopInv'
<1> USE LifecycleAssumption DEF ConnectionInv, StopInv
<1>1. AloneInv'
      BY DEF AloneInv, ReachedInv, CalmInv, LifecycleTypeOK, Read, Goes, Over, Processes,
             Running, Falling
<1>2. ReachedInv'
      BY DEF AloneInv, ReachedInv, CalmInv, LifecycleTypeOK, Read, Goes, Over, Processes,
             Falling, Starting, AfterHalting, Quiet
<1>3. CalmInv'
      BY DEF AloneInv, ReachedInv, CalmInv, LifecycleTypeOK, Read, Goes, Over, Processes,
             Falling, Quiet
<1> QED BY <1>1, <1>2, <1>3

LEMMA StopBeginsStops ==
    ASSUME Tame, ConnectionInv, StopInv, NEW t \in Terminal, StopBegins(t)
    PROVE  StopInv'
<1> USE LifecycleAssumption DEF ConnectionInv, StopInv
<1>1. AloneInv'
      BY DEF AloneInv, ReachedInv, CalmInv, LifecycleTypeOK, FlowInv, FlowAt, StopBegins, Goes,
             told
<1>2. ReachedInv'
      BY DEF AloneInv, ReachedInv, CalmInv, LifecycleTypeOK, StopBegins, Goes, told,
             AfterHalting, Quiet
<1>3. CalmInv'
      BY DEF AloneInv, ReachedInv, CalmInv, LifecycleTypeOK, FlowInv, FlowAt, StopBegins, Goes,
             told, Quiet
<1> QED BY <1>1, <1>2, <1>3

LEMMA SnapshotStops ==
    ASSUME Tame, ConnectionInv, StopInv, NEW t \in Terminal, Snapshot(t)
    PROVE  StopInv'
<1> USE LifecycleAssumption DEF ConnectionInv, StopInv
<1>1. AloneInv'
      BY DEF AloneInv, ReachedInv, CalmInv, LifecycleTypeOK, FlowInv, FlowAt, Snapshot, Goes,
             Over, Processes
<1>2. ReachedInv'
      BY DEF AloneInv, ReachedInv, CalmInv, LifecycleTypeOK, FlowInv, FlowAt, Snapshot, Over,
             Starting
<1>3. CalmInv'
      BY DEF AloneInv, ReachedInv, CalmInv, LifecycleTypeOK, FlowInv, FlowAt, Snapshot, Starting
<1> QED BY <1>1, <1>2, <1>3

LEMMA NetworkReadyStops ==
    ASSUME Tame, ConnectionInv, StopInv, NEW p \in Processes, NetworkReady(p)
    PROVE  StopInv'
<1> USE LifecycleAssumption DEF ConnectionInv, StopInv
<1>1. AloneInv'
      BY DEF AloneInv, ReachedInv, CalmInv, LifecycleTypeOK, FlowInv, NetworkReady, Goes, told,
             Running, Falling
<1>2. ReachedInv'
      BY DEF AloneInv, ReachedInv, CalmInv, LifecycleTypeOK, FlowInv, FlowAt, NetworkReady,
             Goes, told, Running, Falling, Starting, Quiet
<1>3. CalmInv'
      BY DEF AloneInv, ReachedInv, CalmInv, LifecycleTypeOK, FlowInv, NetworkReady, Goes, told,
             Falling, Quiet
<1> QED BY <1>1, <1>2, <1>3

LEMMA WriteStops ==
    ASSUME Tame, ConnectionInv, StopInv, NEW t \in Terminal, Write(t)
    PROVE  StopInv'
<1> USE LifecycleAssumption DEF ConnectionInv, StopInv
<1>1. AloneInv'
      BY DEF AloneInv, ReachedInv, CalmInv, LifecycleTypeOK, FlowInv, FlowAt, Write, Goes, told
<1>2. ReachedInv'
      BY DEF AloneInv, ReachedInv, CalmInv, LifecycleTypeOK, FlowInv, FlowAt, Write, told,
             Starting
<1>3. CalmInv'
      BY DEF AloneInv, ReachedInv, CalmInv, LifecycleTypeOK, FlowInv, FlowAt, Write, told,
             Starting
<1> QED BY <1>1, <1>2, <1>3

\* What the steps of a stop and of an uninstall do to the service: they only take.
LEMMA EffectsTake ==
    ASSUME Tame, LifecycleTypeOK,
           NEW move \in {"disabling", "halting", "unrecording", "unprogramming"},
           NEW s \in Effects(manager, move, service)
    PROVE  /\ s \in [program : BOOLEAN, record : BOOLEAN, enabled : BOOLEAN, wanted : BOOLEAN]
           /\ s.wanted => service.wanted
           /\ s.enabled => service.enabled
           /\ s.record => service.record
           /\ s.program => service.program
           /\ move \in {"disabling", "halting"} => s.record = service.record
           /\ move = "disabling" => ~(s.enabled /\ s.record)
           /\ move = "halting" => ~(s.record /\ s.wanted)
           /\ move = "unrecording" => ~s.record
           /\ move = "unprogramming" => ~s.program
<1>1. manager # "scm" /\ manager # "launchd"
      BY DEF Tame, LifecycleTypeOK
<1>2. CASE move = "disabling"
      BY <1>1, <1>2 DEF LifecycleTypeOK, Effects, Known, Disabled
<1>3. CASE move = "halting"
  <2>1. s \in {service, [service EXCEPT !.wanted = FALSE]}
        /\ (service.record => s = [service EXCEPT !.wanted = FALSE])
        BY <1>1, <1>3 DEF Effects, Known, Halted
  <2>2. service \in [program : BOOLEAN, record : BOOLEAN, enabled : BOOLEAN, wanted : BOOLEAN]
        BY DEF LifecycleTypeOK
  <2> QED BY <1>3, <2>1, <2>2
<1>4. CASE move \in {"unrecording", "unprogramming"}
      BY <1>4 DEF LifecycleTypeOK, Effects
<1> QED BY <1>2, <1>3, <1>4

LEMMA ServiceStepStops ==
    ASSUME Tame, ConnectionInv, StopInv, NEW t \in Terminal, ServiceStep(t)
    PROVE  StopInv'
<1> USE LifecycleAssumption DEF ConnectionInv, StopInv
<1> DEFINE move == Following(t)
<1>1. /\ UNCHANGED <<saved, lock, told, troubles>>
      /\ doing' = [doing EXCEPT ![t] = move]
      /\ doing[t] \in ServiceSteps \ {"halting", "starting"}
      /\ service' \in Effects(manager, doing[t], service)
      BY DEF ServiceStep, Goes
<1>2. command[t] \in Starting \cup Stopping
      BY <1>1 DEF LifecycleTypeOK, FlowInv, FlowAt, ServiceSteps
<1>3. CASE command[t] \in Starting
  <2>1. alone = {} /\ calm = "no"
        BY <1>1, <1>3 DEF AloneInv, CalmInv, Running, Falling, ServiceSteps
  <2> QED BY <1>1, <2>1 DEF AloneInv, ReachedInv, CalmInv, told
<1>4. CASE command[t] \in Stopping
  <2>1. \/ doing[t] = "disabling" /\ move = "halting"
        \/ doing[t] = "unrecording" /\ move = "unprogramming" /\ command[t] # "stop"
        \/ doing[t] = "unprogramming" /\ move = "confirming" /\ command[t] # "stop"
        BY <1>1, <1>4, FollowingAlone
  <2>2. /\ service'.wanted => service.wanted
        /\ service'.enabled => service.enabled
        /\ service'.record => service.record
        /\ service'.program => service.program
        /\ doing[t] = "disabling" => service'.record = service.record
        /\ doing[t] = "disabling" => ~(service'.enabled /\ service'.record)
        /\ doing[t] = "unrecording" => ~service'.record
        /\ doing[t] = "unprogramming" => ~service'.program
        BY <1>1, <2>1, EffectsTake
  <2> HIDE DEF move
  <2>3. /\ \A p \in Processes : doing'[p] = IF p = t THEN move ELSE doing[p]
        /\ UNCHANGED <<saved, command, alone, calm>>
        /\ Job # t
        BY <1>1 DEF LifecycleTypeOK, told, Processes
  <2>4. Quiet => Quiet'
        BY <2>2, <2>3 DEF Quiet, Processes
  <2>5. AloneInv'
        BY <1>4, <2>1, <2>2, <2>3 DEF AloneInv, ReachedInv, AfterHalting, Quiet, Processes,
               Starting, Stopping
  <2>6. ReachedInv'
    <3> SUFFICES ASSUME NEW u \in alone
                 PROVE  /\ command[u] \in Stopping
                        /\ doing'[u] = "halting" => ~(service'.enabled /\ service'.record)
                        /\ doing'[u] \in AfterHalting => Quiet'
                        /\ doing'[u] = "unprogramming" => ~service'.record
                        /\ doing'[u] \in {"confirming", "forgetting"} /\ command[u] # "stop" =>
                              ~service'.record /\ ~service'.program
                        /\ doing'[u] = "forgetting" =>
                              \A w \in Terminal : command[w] = "foreground" => doing'[w] \in Falling
        BY <2>3 DEF ReachedInv
    <3>1. /\ command[u] \in Stopping
          /\ doing[u] = "halting" => ~(service.enabled /\ service.record)
          /\ doing[u] \in AfterHalting => Quiet
          /\ doing[u] = "unprogramming" => ~service.record
          /\ doing[u] \in {"confirming", "forgetting"} /\ command[u] # "stop" =>
                ~service.record /\ ~service.program
          /\ doing[u] = "forgetting" =>
                \A w \in Terminal : command[w] = "foreground" => doing[w] \in Falling
          BY DEF ReachedInv
    <3>2. u \in Terminal /\ u \in Processes
          BY DEF LifecycleTypeOK, Processes
    <3>3. \A w \in Terminal : command[w] = "foreground" => doing'[w] = doing[w]
          BY <1>4, <2>3 DEF Stopping, Processes
    <3>4. CASE u = t
          BY <2>1, <2>2, <2>3, <2>4, <3>1, <3>2, <3>4 DEF AfterHalting
    <3>5. CASE u # t
          BY <2>2, <2>3, <2>4, <3>1, <3>2, <3>3, <3>5 DEF AfterHalting
    <3> QED BY <3>4, <3>5
  <2>7. CalmInv'
        BY <1>4, <2>1, <2>2, <2>3, <2>4 DEF CalmInv, Processes, Starting, Stopping
  <2> QED BY <2>5, <2>6, <2>7
<1> QED BY <1>2, <1>3, <1>4

LEMMA HaltStops ==
    ASSUME Tame, ConnectionInv, StopInv, NEW t \in Terminal, Halt(t)
    PROVE  StopInv'
<1> USE LifecycleAssumption DEF ConnectionInv, StopInv
<1> DEFINE move == Following(t)
<1>1. /\ UNCHANGED <<manager, saved, told, troubles>>
      /\ doing[t] = "halting"
      /\ service' \in Effects(manager, "halting", service)
      /\ IF Known(manager, service)
           THEN doing' = [doing EXCEPT ![t] = move, ![Job] = "idle"]
           ELSE doing' = [doing EXCEPT ![t] = move]
      BY DEF Halt, Goes
<1>2. command[t] \in Starting \cup Stopping
      BY <1>1 DEF LifecycleTypeOK, FlowInv, FlowAt
<1>3. CASE command[t] \in Starting
  <2>1. alone = {} /\ calm = "no"
        BY <1>1, <1>3 DEF AloneInv, CalmInv, Running, Falling
  <2> QED BY <1>1, <2>1 DEF AloneInv, ReachedInv, CalmInv, told
<1>4. CASE command[t] \in Stopping
  <2>1. move \in {"confirming", "unrecording"} /\ (move = "confirming" <=> command[t] = "stop")
        BY <1>1, <1>4, FollowingAlone DEF ServiceSteps
  <2>2. /\ service'.wanted => service.wanted
        /\ service'.enabled => service.enabled
        /\ service'.record = service.record
        /\ service'.program => service.program
        /\ ~(service'.record /\ service'.wanted)
        BY <1>1, EffectsTake
  <2>3. /\ service.record => doing'[Job] = "idle"
        /\ doing[Job] = "idle" => doing'[Job] = "idle"
        BY <1>1 DEF Known, LifecycleTypeOK, Processes
  <2> HIDE DEF move
  <2>4. /\ \A u \in Terminal : doing'[u] = IF u = t THEN move ELSE doing[u]
        /\ UNCHANGED <<saved, command, alone, calm>>
        BY <1>1 DEF LifecycleTypeOK, told, Processes
  <2>5. Quiet => Quiet'
        BY <2>2, <2>3 DEF Quiet
  <2>6. t \in alone => Quiet'
        BY <1>1, <2>2, <2>3 DEF Quiet, AloneInv, ReachedInv
  <2>7. AloneInv'
        BY <1>4, <2>2, <2>3, <2>4 DEF AloneInv, Starting, Stopping
  <2>8. ReachedInv'
        BY <1>4, <2>1, <2>2, <2>4, <2>5, <2>6 DEF LifecycleTypeOK, AloneInv, ReachedInv,
               AfterHalting, Falling, Stopping
  <2>9. CalmInv'
        BY <1>4, <2>2, <2>4, <2>5 DEF CalmInv, Starting, Stopping
  <2> QED BY <2>7, <2>8, <2>9
<1> QED BY <1>2, <1>3, <1>4

LEMMA StartStops ==
    ASSUME Tame, ConnectionInv, StopInv, NEW t \in Terminal, Start(t)
    PROVE  StopInv'
<1> USE LifecycleAssumption DEF ConnectionInv, StopInv
<1>1. doing[t] = "starting" /\ alone' = alone \ {t} /\ calm' = calm
      BY DEF Start
<1>2. command[t] \in Starting \cup Stopping
      BY <1>1 DEF LifecycleTypeOK, FlowInv, FlowAt
<1>3. command[t] \in Starting
      BY <1>1, <1>2, FollowingAlone DEF ServiceSteps
<1>4. alone = {} /\ calm = "no"
      BY <1>1, <1>3 DEF AloneInv, CalmInv, Running, Falling
<1> QED BY <1>1, <1>4 DEF AloneInv, ReachedInv, CalmInv

LEMMA AskStops ==
    ASSUME Tame, ConnectionInv, StopInv, NEW t \in Terminal, Ask(t)
    PROVE  StopInv'
<1> USE LifecycleAssumption DEF ConnectionInv, StopInv
<1>1. AloneInv'
      BY StepsAlone DEF AloneInv, ReachedInv, CalmInv, LifecycleTypeOK, FlowInv, FlowAt, Ask,
             told, Live, Processes, Running, Falling
<1>2. ReachedInv'
      BY StepsAlone DEF AloneInv, ReachedInv, CalmInv, LifecycleTypeOK, FlowInv, FlowAt, Ask,
             told, Live, AfterAsking, Processes, Running, Falling, Stopping, AfterHalting, Quiet
<1>3. CalmInv'
      BY StepsAlone DEF AloneInv, ReachedInv, CalmInv, LifecycleTypeOK, FlowInv, FlowAt, Ask,
             told, Live, Processes, Running, Falling, Quiet
<1> QED BY <1>1, <1>2, <1>3

LEMMA ConfirmStops ==
    ASSUME Tame, ConnectionInv, StopInv, NEW t \in Terminal, Confirm(t)
    PROVE  StopInv'
<1> USE LifecycleAssumption DEF ConnectionInv, StopInv
<1>1. AloneInv'
      BY DEF AloneInv, ReachedInv, CalmInv, LifecycleTypeOK, FlowInv, FlowAt, Confirm, Goes,
             Over, Processes
<1>2. ReachedInv'
      BY DEF AloneInv, ReachedInv, CalmInv, LifecycleTypeOK, FlowInv, HoldInv, Confirm, Goes,
             Over, Live, Processes, Starting, Quiet
<1>3. CalmInv'
      BY DEF AloneInv, ReachedInv, CalmInv, LifecycleTypeOK, FlowInv, FlowAt, HoldInv, Confirm,
             Goes, Over, Live, Processes, AfterHalting, Quiet
<1> QED BY <1>1, <1>2, <1>3

LEMMA ConfirmTimesOutStops ==
    ASSUME Tame, ConnectionInv, StopInv, NEW t \in Terminal, ConfirmTimesOut(t)
    PROVE  StopInv'
<1> USE LifecycleAssumption DEF ConnectionInv, StopInv
<1>1. AloneInv'
      BY DEF AloneInv, ReachedInv, CalmInv, LifecycleTypeOK, FlowInv, ConfirmTimesOut, Goes,
             Over
<1>2. ReachedInv'
      BY DEF AloneInv, ReachedInv, CalmInv, LifecycleTypeOK, FlowInv, FlowAt, ConfirmTimesOut,
             Goes, Over, Live, Processes, Running, Quiet
<1>3. CalmInv'
      BY DEF AloneInv, ReachedInv, CalmInv, LifecycleTypeOK, FlowInv, ConfirmTimesOut, Goes,
             Over, Quiet
<1> QED BY <1>1, <1>2, <1>3

LEMMA ForgetStops ==
    ASSUME Tame, ConnectionInv, StopInv, NEW t \in Terminal, Forget(t)
    PROVE  StopInv'
<1> USE LifecycleAssumption DEF ConnectionInv, StopInv
<1>1. /\ doing[t] = "forgetting" /\ ~saved'
      /\ service' = service /\ alone' = alone \ {t}
      /\ calm' = IF t \in alone THEN "deleted" ELSE calm
      BY DEF Forget, Over
<1>2. /\ \A p \in Processes : doing'[p] = IF p = t THEN "idle" ELSE doing[p]
      /\ \A u \in Terminal : command'[u] = IF u = t THEN None ELSE command[u]
      /\ Job # t
      BY DEF Forget, Over, Goes, LifecycleTypeOK, Processes
<1>3. Quiet => Quiet'
      BY <1>1, <1>2 DEF Quiet, Processes
<1>4. AloneInv'
      BY <1>1, <1>2 DEF AloneInv, Processes, Starting, Stopping
<1>5. ReachedInv'
      BY <1>1, <1>2, <1>3 DEF ReachedInv, LifecycleTypeOK, Processes, Starting, Stopping
<1>6. CalmInv'
  <2>1. CASE t \in alone
    <3>1. Quiet' /\ ~service'.record /\ ~service'.program
      <4>1. command[t] # "stop"
            BY <1>1 DEF FlowInv, FlowAt
      <4> QED BY <1>1, <1>3, <2>1, <4>1 DEF ReachedInv, AfterHalting
    <3>2. \A u \in Terminal : command'[u] \in Starting => doing'[u] \in Falling
      <4>1. \A u \in Terminal : command[u] \in Starting => command[u] = "foreground"
            BY <2>1 DEF AloneInv, FlowInv, FlowAt
      <4> QED BY <1>1, <1>2, <2>1, <4>1 DEF ReachedInv, Processes, Starting
    <3> QED BY <1>1, <2>1, <3>1, <3>2 DEF CalmInv
  <2>2. CASE t \notin alone
        BY <1>1, <1>2, <1>3, <2>2 DEF CalmInv, Processes, Starting
  <2> QED BY <2>1, <2>2
<1> QED BY <1>4, <1>5, <1>6

LEMMA FailsStops ==
    ASSUME Tame, ConnectionInv, StopInv, NEW t \in Terminal, Fails(t)
    PROVE  StopInv'
<1> USE LifecycleAssumption DEF ConnectionInv, StopInv
<1>1. AloneInv'
      BY DEF AloneInv, ReachedInv, CalmInv, LifecycleTypeOK, FlowInv, Fails, Goes, Over
<1>2. ReachedInv'
      BY DEF AloneInv, ReachedInv, CalmInv, LifecycleTypeOK, FlowInv, Fails, Goes, Over,
             Starting, Quiet
<1>3. CalmInv'
      BY DEF AloneInv, ReachedInv, CalmInv, LifecycleTypeOK, FlowInv, Fails, Goes, Over, Quiet
<1> QED BY <1>1, <1>2, <1>3

LEMMA JobStartsStops ==
    ASSUME Tame, ConnectionInv, StopInv, JobStarts
    PROVE  StopInv'
<1> USE LifecycleAssumption DEF ConnectionInv, StopInv
<1>1. AloneInv'
      BY DEF AloneInv, ReachedInv, CalmInv, LifecycleTypeOK, JobStarts, Goes, told
<1>2. ReachedInv'
      BY DEF AloneInv, ReachedInv, CalmInv, LifecycleTypeOK, JobStarts, Goes, told, Quiet
<1>3. CalmInv'
      BY DEF AloneInv, ReachedInv, CalmInv, LifecycleTypeOK, JobStarts, told, Quiet
<1> QED BY <1>1, <1>2, <1>3

LEMMA TakeLockStops ==
    ASSUME Tame, ConnectionInv, StopInv, NEW p \in Processes, TakeLock(p)
    PROVE  StopInv'
<1> USE LifecycleAssumption DEF ConnectionInv, StopInv
<1>1. AloneInv'
      BY DEF AloneInv, ReachedInv, CalmInv, LifecycleTypeOK, TakeLock, Goes, Over, Processes,
             Running, Falling
<1>2. ReachedInv'
      BY DEF AloneInv, ReachedInv, CalmInv, LifecycleTypeOK, FlowInv, FlowAt, TakeLock, Goes,
             Over, Processes, Rising, Running, Falling, Starting, Quiet
<1>3. CalmInv'
      BY DEF AloneInv, ReachedInv, CalmInv, LifecycleTypeOK, TakeLock, Goes, Over, Processes,
             Falling, Quiet
<1> QED BY <1>1, <1>2, <1>3

LEMMA PrepareStops ==
    ASSUME Tame, ConnectionInv, StopInv, NEW p \in Processes, Prepare(p)
    PROVE  StopInv'
<1> USE LifecycleAssumption DEF ConnectionInv, StopInv
<1>1. AloneInv'
      BY DEF AloneInv, ReachedInv, CalmInv, LifecycleTypeOK, FlowInv, HoldInv, Prepare, Goes,
             Over, Live, Processes, Falling
<1>2. ReachedInv'
      BY DEF AloneInv, ReachedInv, CalmInv, LifecycleTypeOK, FlowInv, FlowAt, HoldInv, Prepare,
             Goes, Over, Live, Processes, Rising, Falling, Starting, Quiet
<1>3. CalmInv'
      BY DEF AloneInv, ReachedInv, CalmInv, LifecycleTypeOK, FlowInv, Prepare, Goes, Over,
             Processes, Falling, Quiet
<1> QED BY <1>1, <1>2, <1>3

LEMMA RemoveStaleStops ==
    ASSUME Tame, ConnectionInv, StopInv, NEW p \in Processes, RemoveStale(p)
    PROVE  StopInv'
<1> USE LifecycleAssumption DEF ConnectionInv, StopInv
<1>1. AloneInv'
      BY DEF AloneInv, ReachedInv, CalmInv, LifecycleTypeOK, RemoveStale, Goes, told, Running,
             Falling
<1>2. ReachedInv'
      BY DEF AloneInv, ReachedInv, CalmInv, LifecycleTypeOK, FlowInv, FlowAt, RemoveStale, Goes,
             told, Rising, Running, Falling, Starting, Quiet
<1>3. CalmInv'
      BY DEF AloneInv, ReachedInv, CalmInv, LifecycleTypeOK, RemoveStale, Goes, told, Falling,
             Quiet
<1> QED BY <1>1, <1>2, <1>3

LEMMA BindStops ==
    ASSUME Tame, ConnectionInv, StopInv, NEW p \in Processes, Bind(p)
    PROVE  StopInv'
<1> USE LifecycleAssumption DEF ConnectionInv, StopInv
<1>1. AloneInv'
      BY DEF AloneInv, ReachedInv, CalmInv, LifecycleTypeOK, Bind, Goes, Over, Processes,
             Running
<1>2. ReachedInv'
      BY DEF AloneInv, ReachedInv, CalmInv, LifecycleTypeOK, FlowInv, FlowAt, HoldInv, Bind,
             Goes, Over, Processes, Rising, Falling, Starting, Quiet
<1>3. CalmInv'
      BY DEF AloneInv, ReachedInv, CalmInv, LifecycleTypeOK, Bind, Goes, Over, Processes,
             Falling, Quiet
<1> QED BY <1>1, <1>2, <1>3

LEMMA CancelStops ==
    ASSUME Tame, ConnectionInv, StopInv, NEW p \in Processes, Cancel(p)
    PROVE  StopInv'
<1> USE LifecycleAssumption DEF ConnectionInv, StopInv
<1>1. AloneInv'
      BY DEF AloneInv, ReachedInv, CalmInv, LifecycleTypeOK, FlowInv, Cancel, Goes, told,
             Running
<1>2. ReachedInv'
      BY DEF AloneInv, ReachedInv, CalmInv, LifecycleTypeOK, FlowInv, FlowAt, Cancel, Goes,
             told, Running, Falling, Stopping, Quiet
<1>3. CalmInv'
      BY DEF AloneInv, ReachedInv, CalmInv, LifecycleTypeOK, FlowInv, Cancel, Goes, told,
             Falling, Quiet
<1> QED BY <1>1, <1>2, <1>3

LEMMA CloseListenerStops ==
    ASSUME Tame, ConnectionInv, StopInv, NEW p \in Processes, CloseListener(p)
    PROVE  StopInv'
<1> USE LifecycleAssumption DEF ConnectionInv, StopInv
<1>1. AloneInv'
      BY DEF AloneInv, ReachedInv, CalmInv, LifecycleTypeOK, CloseListener, Goes, told, Falling
<1>2. ReachedInv'
      BY DEF AloneInv, ReachedInv, CalmInv, LifecycleTypeOK, FlowInv, FlowAt, CloseListener,
             Goes, told, Running, Falling, Stopping, Quiet
<1>3. CalmInv'
      BY DEF AloneInv, ReachedInv, CalmInv, LifecycleTypeOK, CloseListener, Goes, told, Falling,
             Quiet
<1> QED BY <1>1, <1>2, <1>3

LEMMA UnlockStops ==
    ASSUME Tame, ConnectionInv, StopInv, NEW p \in Processes, Unlock(p)
    PROVE  StopInv'
<1> USE LifecycleAssumption DEF ConnectionInv, StopInv
<1>1. AloneInv'
      BY DEF AloneInv, ReachedInv, CalmInv, LifecycleTypeOK, Unlock, Goes, told, Falling
<1>2. ReachedInv'
      BY DEF AloneInv, ReachedInv, CalmInv, LifecycleTypeOK, FlowInv, FlowAt, Unlock, Goes,
             told, Falling, Stopping, Quiet
<1>3. CalmInv'
      BY DEF AloneInv, ReachedInv, CalmInv, LifecycleTypeOK, Unlock, Goes, told, Falling, Quiet
<1> QED BY <1>1, <1>2, <1>3

LEMMA ReturnStops ==
    ASSUME Tame, ConnectionInv, StopInv, NEW p \in Processes, Return(p)
    PROVE  StopInv'
<1> USE LifecycleAssumption DEF ConnectionInv, StopInv
<1>1. AloneInv'
      BY DEF AloneInv, ReachedInv, CalmInv, LifecycleTypeOK, Return, Goes, Over
<1>2. ReachedInv'
      BY DEF AloneInv, ReachedInv, CalmInv, LifecycleTypeOK, FlowInv, FlowAt, Return, Goes,
             Over, Falling, Quiet
<1>3. CalmInv'
      BY DEF AloneInv, ReachedInv, CalmInv, LifecycleTypeOK, Return, Goes, Over, Quiet
<1> QED BY <1>1, <1>2, <1>3

LEMMA DiesStops ==
    ASSUME Tame, ConnectionInv, StopInv, NEW p \in Processes, Dies(p)
    PROVE  StopInv'
<1> USE LifecycleAssumption DEF ConnectionInv, StopInv
<1>1. AloneInv'
      BY DEF AloneInv, ReachedInv, CalmInv, LifecycleTypeOK, FlowInv, FlowAt, Dies, Goes, Over
<1>2. ReachedInv'
      BY DEF AloneInv, ReachedInv, CalmInv, LifecycleTypeOK, FlowInv, FlowAt, Dies, Goes, Over,
             Connects, Quiet
<1>3. CalmInv'
      BY DEF AloneInv, ReachedInv, CalmInv, LifecycleTypeOK, FlowInv, FlowAt, Dies, Goes, Over,
             Quiet
<1> QED BY <1>1, <1>2, <1>3

LEMMA RebootStops ==
    ASSUME Tame, ConnectionInv, StopInv, Reboot
    PROVE  StopInv'
<1> USE LifecycleAssumption DEF ConnectionInv, StopInv
<1>1. AloneInv'
      BY DEF AloneInv, ReachedInv, CalmInv, LifecycleTypeOK, FlowInv, Reboot
<1>2. ReachedInv'
      BY DEF AloneInv, ReachedInv, CalmInv, LifecycleTypeOK, FlowInv, Reboot
<1>3. CalmInv'
      BY DEF AloneInv, ReachedInv, CalmInv, LifecycleTypeOK, FlowInv, Reboot, Processes, Quiet
<1> QED BY <1>1, <1>2, <1>3

LEMMA StopsStep ==
    ASSUME Tame, ConnectionInv, StopInv, [LifecycleNext]_lifecycleVars
    PROVE  StopInv'
<1>1. ASSUME NEW t \in Terminal, NEW c \in Command, Begin(t, c)
      PROVE  StopInv'
      BY <1>1, BeginStops
<1>2. ASSUME NEW t \in Terminal, Proceed(t)
      PROVE  StopInv'
      BY <1>2, StopBeginsStops, SnapshotStops, WriteStops, ServiceStepStops, HaltStops,
         StartStops, AskStops, ConfirmStops, ConfirmTimesOutStops, ForgetStops DEF Proceed
<1>3. ASSUME NEW t \in Terminal, Fails(t)
      PROVE  StopInv'
      BY <1>3, FailsStops
<1>4. ASSUME NEW p \in Processes, Advance(p)
      PROVE  StopInv'
      BY <1>4, ReadStops, NetworkReadyStops, TakeLockStops, PrepareStops, RemoveStaleStops,
         BindStops, CloseListenerStops, UnlockStops, ReturnStops DEF Advance
<1>5. ASSUME NEW p \in Processes, Cancel(p) \/ Dies(p)
      PROVE  StopInv'
      BY <1>5, CancelStops, DiesStops
<1>6. ASSUME UNCHANGED lifecycleVars
      PROVE  StopInv'
      BY <1>6 DEF StopInv, AloneInv, ReachedInv, CalmInv, Quiet, lifecycleVars
<1> QED BY <1>1, <1>2, <1>3, <1>4, <1>5, <1>6, JobStartsStops, RebootStops DEF LifecycleNext

LEMMA StopsInit == LifecycleInit => StopInv
BY DEF LifecycleInit, StopInv, AloneInv, ReachedInv, CalmInv

LEMMA StopsFollow == ConnectionInv /\ StopInv => EndsHold
BY DEF ConnectionInv, StopInv, CalmInv, Quiet, EndsHold, StopHolds, DeletedLeavesNothing,
       Starting

\* With systemd, launchd for a user or the task scheduler: once a stop or a delete
\* that no other command disturbed has succeeded, and until the connection is
\* started anew, nothing serves it, is about to or brings it back, and a delete has
\* left nothing, whichever of its steps failed before and wherever the machine was
\* restarted.
THEOREM EndsAreFinal ==
    ASSUME Tame
    PROVE  LifecycleSpec => []EndsHold
<1>1. LifecycleInit => ConnectionInv /\ StopInv
      BY ConnectionInitHolds, StopsInit
<1>2. ConnectionInv /\ StopInv /\ [LifecycleNext]_lifecycleVars => (ConnectionInv /\ StopInv)'
      BY Tame, ConnectionStep, StopsStep
<1>3. ConnectionInv /\ StopInv => EndsHold
      BY StopsFollow
<1> QED BY <1>1, <1>2, <1>3, PTL DEF LifecycleSpec

-----------------------------------------------------------------------------
(* The machine: its parts in one state graph.                                *)

LEMMA HelperOfMachine == [MachineNext]_machineVars => [HelperNext]_helperVars
BY DEF MachineNext, machineVars

LEMMA LifecycleOfMachine == [MachineNext]_machineVars => [LifecycleNext]_lifecycleVars
BY DEF MachineNext, machineVars

LEMMA UpdateOfMachine == [MachineNext]_machineVars => [UpdateNext]_updateVars
BY DEF MachineNext, machineVars

LEMMA HandoffOfMachine == [MachineNext]_machineVars => [HandoffNext]_handoffVars
BY DEF MachineNext, machineVars

\* In the state graph of all parts each part behaves as it does by itself: its
\* steps are those of its specification, and the steps of the others leave it alone.
THEOREM PartsOfMachine ==
    MachineSpec => HelperSpec /\ LifecycleSpec /\ UpdateSpec /\ HandoffSpec
<1>1. MachineInit => HelperInit /\ LifecycleInit /\ UpdateInit /\ HandoffInit
      BY DEF MachineInit
<1> QED BY <1>1, HelperOfMachine, LifecycleOfMachine, UpdateOfMachine, HandoffOfMachine, PTL
       DEF MachineSpec, HelperSpec, LifecycleSpec, UpdateSpec, HandoffSpec

\* Whatever the parts of a machine do in between each other, every variable of every
\* part keeps its type.
THEOREM MachineTypeCorrect == MachineSpec => []MachineTypeOK
<1>1. NetHelperTypeOK /\ LifecycleTypeOK /\ UpdateTypeOK /\ HandoffTypeOK => MachineTypeOK
      BY DEF MachineTypeOK
<1> QED BY <1>1, PartsOfMachine, NetHelperTypeCorrect, LifecycleTypeCorrect, UpdateTypeCorrect,
           HandoffTypeCorrect, PTL
=============================================================================
