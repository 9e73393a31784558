-------------------------- MODULE RendezvousProofs --------------------------
(***************************************************************************)
(* Proofs about the registry of module Rendezvous, for any number of       *)
(* devices, rooms, pair IDs and relay keys and any limits: what is durable *)
(* and that it implements PairRegistry, who holds leases and how many,     *)
(* that room counters are exact, and that what was saved can be loaded.    *)
(***************************************************************************)
EXTENDS Rendezvous, FiniteSetTheorems, TLAPS

-----------------------------------------------------------------------------
(* The inductive invariant.                                                *)

\* What the handler inside saveStateLocked has done and will have to undo.
\* A commit's room is still there, both its submissions are the pair's ID, and
\* when the commit created the pair no other room relies on it.
SavingInv ==
    /\ saving # Idle => up
    /\ saving.op = "login" => saving.dev \in devices
    /\ saving.op = "revoke" =>
         /\ saving.dev \in revoked
         /\ \A k \in RelayKey :
              saving.removed[k] # None => saving.removed[k].owner = saving.dev
    /\ saving.op = "commit" =>
         LET rm == rooms[saving.room]
         IN  /\ rm # None
             /\ rm.hostCommit = saving.pair
             /\ rm.guestCommit = saving.pair
             /\ rm.guest # None
             /\ saving.dev \in {rm.host, rm.guest}
             /\ pairs[saving.pair] = [host |-> rm.host, guest |-> rm.guest]
             /\ {saving.oldHost, saving.oldGuest} \subseteq {None, saving.pair}
             /\ saving.created =>
                  /\ None \in {saving.oldHost, saving.oldGuest}
                  /\ \A r \in RoomId \ {saving.room} :
                       rooms[r] # None => CommittedId(rooms[r]) # saving.pair

\* A room's two sides differ, each submission it records was made by the
\* device on that side, and an ID both submitted is bound to the two.
RoomInv(r) ==
    LET rm == rooms[r]
    IN  rm # None =>
          /\ rm.host # rm.guest
          /\ rm.guest = None => rm.guestCommit = None
          /\ rm.hostCommit # None => <<rm.host, r, rm.hostCommit>> \in asked
          /\ rm.guestCommit # None => <<rm.guest, r, rm.guestCommit>> \in asked
          /\ CommittedId(rm) # None =>
               pairs[CommittedId(rm)] = [host |-> rm.host, guest |-> rm.guest]

\* A revoked device owns no lease, and has rooms only while its revocation is
\* being saved.
RevokedInv ==
    \A d \in revoked :
        /\ LeasesOf(leases, d) = {}
        /\ RoomsOf(d) # {} => saving.op = "revoke" /\ saving.dev = d

\* What the file holds while a handler is on its way to the rename: memory
\* without the handler's change.
UnsavedImage ==
    [devices |-> IF saving.op = "login" THEN devices \ {saving.dev} ELSE devices,
     revoked |-> IF saving.op = "revoke" THEN revoked \ {saving.dev} ELSE revoked,
     pairs |-> IF saving.op = "commit" /\ saving.created
               THEN [pairs EXCEPT ![saving.pair] = None] ELSE pairs]

DiskInv ==
    up => disk = IF saving = Idle \/ saving.renamed THEN MemoryImage ELSE UnsavedImage

IInv ==
    /\ TypeOK
    /\ SavingInv
    /\ \A r \in RoomId : RoomInv(r)
    /\ RevokedInv
    /\ DiskInv
    /\ AnswersDurable
-----------------------------------------------------------------------------
(* Type correctness.                                                       *)

\* Taking any rooms away leaves every counter a natural number.
LEMMA CountsWithoutType ==
    ASSUME TypeOK, NEW R \in SUBSET RoomId
    PROVE  CountsWithout(R) \in [Device -> Nat]
<1>1. SUFFICES ASSUME NEW d \in Device
               PROVE  (IF roomCounts[d] > Cardinality(HostedBy(d, R))
                       THEN roomCounts[d] - Cardinality(HostedBy(d, R)) ELSE 0) \in Nat
  BY DEF CountsWithout
<1>2. IsFiniteSet(HostedBy(d, R))
  BY FS_Subset, FiniteAssumption DEF HostedBy
<1>3. Cardinality(HostedBy(d, R)) \in Nat
  BY <1>2, FS_CardinalityType
<1>4. roomCounts[d] \in Nat
  BY DEF TypeOK
<1> QED BY <1>3, <1>4

\* What is kept of the rooms and of the leases is well typed.
LEMMA KeptType ==
    ASSUME TypeOK
    PROVE  /\ \A R : Without(R) \in [RoomId -> Room \cup {None}]
           /\ LiveLeases \in [RelayKey -> Lease \cup {None}]
           /\ ExpiredRooms \in SUBSET RoomId
           /\ \A d : RoomsOf(d) \in SUBSET RoomId
           /\ MemoryImage \in Image
  BY DEF TypeOK, Without, LiveLeases, ExpiredRooms, RoomsOf, MemoryImage, Image

\* Recording a submission keeps a room a room.
LEMMA SubmittedType ==
    ASSUME NEW rm \in Room, NEW d, NEW p \in PairId
    PROVE  Submitted(rm, d, p) \in Room
  BY DEF Submitted, Room

\* Which handler saves is told by its op.
LEMMA SavingKind ==
    ASSUME TypeOK
    PROVE  /\ saving = Idle <=> saving.op = "idle"
           /\ saving = Idle \/ saving.op \in {"login", "revoke", "commit"}
           /\ saving.op = "login" => saving \in LoginSave
           /\ saving.op = "revoke" => saving \in RevokeSave
           /\ saving.op = "commit" => saving \in CommitSave
  BY DEF TypeOK, Idle, LoginSave, RevokeSave, CommitSave

\* Every step keeps the types.
LEMMA TypeStep ==
    ASSUME TypeOK, SavingInv, [Next]_vars
    PROVE  TypeOK'
<1>1. CASE FirstStart
  BY <1>1 DEF TypeOK, FirstStart, MemoryFrom, EmptyImage, Image, NoRooms,
              ZeroCounts, NoPairs, NoLeases
<1>2. CASE Start
  BY <1>2 DEF TypeOK, Start, MemoryFrom, Image, NoRooms, ZeroCounts, NoLeases
<1>3. CASE Stopped
  BY <1>3 DEF TypeOK, Stopped, MemoryFrom, EmptyImage, NoRooms, ZeroCounts,
              NoPairs, NoLeases
<1>4. CASE Close
  BY <1>3, <1>4 DEF Close
<1>5. CASE Crash
  BY <1>3, <1>5 DEF Crash
<1>6. CASE Rename
  BY <1>6, KeptType DEF TypeOK, Rename, memory, Idle, LoginSave, RevokeSave, CommitSave
<1>7. CASE LoginSaveFails
  BY <1>7 DEF TypeOK, LoginSaveFails
<1>8. CASE RevokeSaveFails
  BY <1>8 DEF TypeOK, RevokeSaveFails, Idle, LoginSave, RevokeSave, CommitSave
<1>9. CASE CommitSaveFails
  <2>1. saving \in CommitSave
    BY <1>9 DEF TypeOK, CommitSaveFails, Idle, LoginSave, RevokeSave, CommitSave
  <2>2. rooms' \in [RoomId -> Room \cup {None}]
    <3>1. rooms[saving.room] \in Room
      BY <1>9, <2>1 DEF TypeOK, SavingInv, CommitSaveFails, CommitSave
    <3>2. [rooms[saving.room] EXCEPT !.hostCommit = saving.oldHost,
                                     !.guestCommit = saving.oldGuest] \in Room
      BY <2>1, <3>1 DEF CommitSave, Room
    <3>3. rooms' = [rooms EXCEPT ![saving.room] =
                      [rooms[saving.room] EXCEPT !.hostCommit = saving.oldHost,
                                                 !.guestCommit = saving.oldGuest]]
      BY <1>9, <2>1 DEF TypeOK, CommitSaveFails, CommitSave
    <3> QED BY <2>1, <3>2, <3>3 DEF TypeOK, CommitSave
  <2>3. pairs' \in [PairId -> Pair \cup {None}]
    BY <1>9, <2>1 DEF TypeOK, CommitSaveFails, CommitSave
  <2> QED BY <1>9, <2>2, <2>3 DEF TypeOK, CommitSaveFails
<1>10. CASE LoginSaved
  BY <1>10 DEF TypeOK, LoginSaved, memory, Answers, Idle, LoginSave, RevokeSave, CommitSave
<1>11. CASE RevokeSaved
  <2>1. saving.dev \in Device
    BY <1>11 DEF TypeOK, RevokeSaved, Idle, LoginSave, RevokeSave, CommitSave
  <2>2. roomCounts' \in [Device -> Nat] /\ rooms' \in [RoomId -> Room \cup {None}]
    BY <1>11, CountsWithoutType, KeptType DEF RevokeSaved
  <2> QED BY <1>11, <2>1, <2>2 DEF TypeOK, RevokeSaved, Answers
<1>12. CASE CommitSaved
  BY <1>12 DEF TypeOK, CommitSaved, memory, Answers, Idle, LoginSave, RevokeSave, CommitSave
<1>13. CASE CleanupExpired
  <2>1. roomCounts' \in [Device -> Nat]
    BY <1>13, CountsWithoutType, KeptType DEF CleanupExpired
  <2> QED BY <1>13, <2>1, KeptType DEF TypeOK, CleanupExpired
<1>14. ASSUME NEW d \in Device, Login(d) PROVE TypeOK'
  BY <1>14 DEF TypeOK, Login, LoginSave
<1>15. ASSUME NEW d \in Device, Authenticate(d) PROVE TypeOK'
  BY <1>15 DEF TypeOK, Authenticate, memory
<1>16. ASSUME NEW d \in Device, RequestRefused(d) PROVE TypeOK'
  BY <1>16 DEF TypeOK, RequestRefused, memory
<1>17. ASSUME NEW d \in Device, Revoke(d) PROVE TypeOK'
  BY <1>17 DEF TypeOK, Revoke, RevokeSave
<1>18. ASSUME NEW d \in Device, NEW r \in RoomId, CreateRoom(d, r) PROVE TypeOK'
  <2> DEFINE kept == Without(ExpiredRooms)
             counts == CountsWithout(ExpiredRooms)
             new == [host |-> d, guest |-> None, hostCommit |-> None,
                     guestCommit |-> None, expired |-> FALSE]
  <2>1. kept \in [RoomId -> Room \cup {None}] /\ counts \in [Device -> Nat]
    BY CountsWithoutType, KeptType
  <2>2. new \in Room
    BY DEF Room
  <2>3. authed' \subseteq Device
    BY <1>18 DEF TypeOK, CreateRoom, Handling
  <2>4. \/ rooms' = kept /\ roomCounts' = counts
        \/ rooms' = [kept EXCEPT ![r] = new] /\ roomCounts' = [counts EXCEPT ![d] = @ + 1]
    BY <1>18 DEF CreateRoom
  <2>5. rooms' \in [RoomId -> Room \cup {None}] /\ roomCounts' \in [Device -> Nat]
    <3> HIDE DEF kept, counts, new
    <3> QED BY <2>1, <2>2, <2>4
  <2> QED BY <1>18, <2>3, <2>5 DEF TypeOK, CreateRoom
<1>19. ASSUME NEW d \in Device, NEW r \in RoomId, JoinRoom(d, r) PROVE TypeOK'
  BY <1>19 DEF TypeOK, JoinRoom, Handling, LiveRoom, Room
<1>20. ASSUME NEW d \in Device, NEW r \in RoomId, NEW p \in PairId,
              CommitRetried(d, r, p)
       PROVE TypeOK'
  BY <1>20 DEF TypeOK, CommitRetried, Handling, memory, Answers
<1>21. ASSUME NEW d \in Device, NEW r \in RoomId, NEW p \in PairId,
              CommitHalf(d, r, p)
       PROVE TypeOK'
  <2>1. rooms' \in [RoomId -> Room \cup {None}]
    BY <1>21, SubmittedType DEF TypeOK, CommitHalf, MayCommit, LiveRoom
  <2> QED BY <1>21, <2>1 DEF TypeOK, CommitHalf, Handling
<1>22. ASSUME NEW d \in Device, NEW r \in RoomId, NEW p \in PairId,
              CommitBoth(d, r, p)
       PROVE TypeOK'
  <2> DEFINE rm == Submitted(rooms[r], d, p)
  <2>1. rooms[r] \in Room
    BY <1>22 DEF TypeOK, CommitBoth, MayCommit, LiveRoom
  <2>2. rm \in Room
    BY <2>1, SubmittedType
  <2>3. rm.guest # None
    BY <1>22, NoneAssumption DEF CommitBoth, CommittedId
  <2>4. [host |-> rm.host, guest |-> rm.guest] \in Pair
    BY <2>2, <2>3 DEF Room, Pair
  <2>5. rooms' \in [RoomId -> Room \cup {None}] /\ pairs' \in [PairId -> Pair \cup {None}]
    BY <1>22, <2>2, <2>4 DEF TypeOK, CommitBoth
  <2>6. saving' \in CommitSave
    BY <1>22, <2>1 DEF CommitBoth, CommitSave, Room
  <2> QED BY <1>22, <2>5, <2>6 DEF TypeOK, CommitBoth, Handling
<1>23. ASSUME NEW d \in Device, NEW k \in RelayKey, RegisterKey(d, k) PROVE TypeOK'
  BY <1>23, KeptType DEF TypeOK, RegisterKey, Handling, Lease
<1>24. ASSUME NEW k \in RelayKey, DropLease(k) PROVE TypeOK'
  BY <1>24 DEF TypeOK, DropLease
<1>25. ASSUME NEW k \in RelayKey, LeaseTimesOut(k) PROVE TypeOK'
  BY <1>25 DEF TypeOK, LeaseTimesOut, Lease
<1>26. ASSUME NEW r \in RoomId, RoomTimesOut(r) PROVE TypeOK'
  BY <1>26 DEF TypeOK, RoomTimesOut, LiveRoom, Room
<1>27. CASE UNCHANGED vars
  BY <1>27 DEF TypeOK, vars, memory
<1> QED
  BY <1>1, <1>2, <1>4, <1>5, <1>6, <1>7, <1>8, <1>9, <1>10, <1>11, <1>12, <1>13,
     <1>14, <1>15, <1>16, <1>17, <1>18, <1>19, <1>20, <1>21, <1>22, <1>23, <1>24,
     <1>25, <1>26, <1>27 DEF Next
-----------------------------------------------------------------------------
(* The inductive invariant holds initially and is kept by every step.      *)

LEMMA InitIInv == Init => IInv
<1> SUFFICES ASSUME Init PROVE IInv
  OBVIOUS
<1>1. TypeOK
  BY DEF Init, TypeOK, NoRooms, ZeroCounts, NoPairs, NoLeases
<1>2. SavingInv
  BY DEF Init, SavingInv, Idle
<1>3. \A r \in RoomId : RoomInv(r)
  BY DEF Init, NoRooms, RoomInv
<1>4. RevokedInv /\ DiskInv /\ AnswersDurable
  BY DEF Init, RevokedInv, DiskInv, AnswersDurable
<1> QED BY <1>1, <1>2, <1>3, <1>4 DEF IInv

\* The pair of a room both of whose sides submitted the same ID exists.
LEMMA CommittedPair ==
    ASSUME IInv, NEW r \in RoomId, rooms[r] # None, CommittedId(rooms[r]) # None
    PROVE  /\ pairs[CommittedId(rooms[r])] # None
           /\ pairs[CommittedId(rooms[r])] \in Pair
           /\ CommittedId(rooms[r]) = rooms[r].hostCommit
           /\ CommittedId(rooms[r]) = rooms[r].guestCommit
           /\ rooms[r].guest # None
<1>1. rooms[r] \in Room /\ RoomInv(r)
  BY DEF IInv, TypeOK
<1>2. /\ CommittedId(rooms[r]) = rooms[r].hostCommit
      /\ CommittedId(rooms[r]) = rooms[r].guestCommit
      /\ rooms[r].guest # None
  BY DEF CommittedId
<1>3. [host |-> rooms[r].host, guest |-> rooms[r].guest] \in Pair
  BY <1>1, <1>2 DEF Room, Pair
<1>4. pairs[CommittedId(rooms[r])] = [host |-> rooms[r].host, guest |-> rooms[r].guest]
  BY <1>1 DEF RoomInv
<1> QED BY <1>2, <1>3, <1>4, NoneAssumption

\* Every step keeps what is known of the handler that saves.
LEMMA SavingStep ==
    ASSUME IInv, [Next]_vars
    PROVE  SavingInv'
<1> USE SavingKind DEF IInv
<1>1. CASE saving' = Idle
  BY <1>1 DEF SavingInv, Idle
<1>2. CASE Rename
  <2>1. saving' = [saving EXCEPT !.renamed = TRUE]
    BY <1>2 DEF Rename
  <2>2. /\ saving'.op = saving.op
        /\ saving.op = "login" => saving'.dev = saving.dev
        /\ saving.op = "revoke" => saving'.dev = saving.dev /\ saving'.removed = saving.removed
        /\ saving.op = "commit" =>
             /\ saving'.dev = saving.dev
             /\ saving'.room = saving.room
             /\ saving'.pair = saving.pair
             /\ saving'.created = saving.created
             /\ saving'.oldHost = saving.oldHost
             /\ saving'.oldGuest = saving.oldGuest
    BY <1>2, <2>1 DEF Rename, LoginSave, RevokeSave, CommitSave
  <2>3. UNCHANGED <<up, devices, revoked, rooms, pairs>>
    BY <1>2 DEF Rename, memory
  <2>4. saving'.op = "login" => saving'.dev \in devices'
    BY <2>2, <2>3 DEF SavingInv
  <2>5. saving'.op = "revoke" =>
         /\ saving'.dev \in revoked'
         /\ \A k \in RelayKey :
              saving'.removed[k] # None => saving'.removed[k].owner = saving'.dev
    BY <2>2, <2>3 DEF SavingInv
  <2>6. CASE saving'.op = "commit"
    BY <1>2, <2>2, <2>3, <2>6 DEF SavingInv, Rename, CommittedId
  <2> QED BY <1>2, <2>2, <2>3, <2>4, <2>5, <2>6 DEF SavingInv, Rename
<1>3. ASSUME NEW r \in RoomId, RoomTimesOut(r) PROVE SavingInv'
  <2>1. /\ rooms[r] \in Room
        /\ rooms' = [rooms EXCEPT ![r].expired = TRUE]
        /\ UNCHANGED <<up, devices, revoked, pairs, saving>>
    BY <1>3 DEF TypeOK, RoomTimesOut, LiveRoom
  <2>2. \A x \in RoomId :
          /\ rooms'[x] = None <=> rooms[x] = None
          /\ rooms[x] # None =>
               /\ rooms'[x].host = rooms[x].host
               /\ rooms'[x].guest = rooms[x].guest
               /\ rooms'[x].hostCommit = rooms[x].hostCommit
               /\ rooms'[x].guestCommit = rooms[x].guestCommit
    BY <2>1, NoneAssumption DEF TypeOK, Room
  <2>3. CASE saving.op = "commit"
    <3>1. saving \in CommitSave
      BY <2>3
    <3> QED BY <2>1, <2>2, <2>3, <3>1 DEF SavingInv, CommitSave, CommittedId
  <2>4. CASE saving.op # "commit"
    BY <2>1, <2>4 DEF SavingInv
  <2> QED BY <2>3, <2>4
<1>4. ASSUME NEW d \in Device, Login(d) PROVE SavingInv'
  BY <1>4 DEF Login, SavingInv, MuFree
<1>5. ASSUME NEW d \in Device, Revoke(d) PROVE SavingInv'
  <2>1. \A k \in RelayKey : saving'.removed[k] # None => saving'.removed[k].owner = d
    BY <1>5 DEF Revoke, LeasesOf
  <2> QED BY <1>5, <2>1 DEF Revoke, SavingInv, MuFree
<1>6. ASSUME NEW d \in Device, NEW r \in RoomId, NEW p \in PairId, CommitBoth(d, r, p)
      PROVE SavingInv'
  <2> DEFINE rm == Submitted(rooms[r], d, p)
  <2>1. rooms[r] \in Room /\ RoomInv(r)
    BY <1>6 DEF TypeOK, CommitBoth, MayCommit, LiveRoom
  <2>2. /\ rm.host = rooms[r].host
        /\ rm.guest = rooms[r].guest
        /\ IF d = rm.host THEN rm.hostCommit = p /\ rm.guestCommit = rooms[r].guestCommit
                          ELSE rm.guestCommit = p /\ rm.hostCommit = rooms[r].hostCommit
    BY <2>1 DEF Submitted, Room
  <2>3. rm.hostCommit = p /\ rm.guestCommit = p /\ rm.guest # None
    BY <1>6, NoneAssumption DEF CommitBoth, CommittedId
  <2>4. /\ saving'.op = "commit"
        /\ saving'.dev = d
        /\ saving'.room = r
        /\ saving'.pair = p
        /\ saving'.created <=> pairs[p] = None
        /\ saving'.oldHost = rooms[r].hostCommit
        /\ saving'.oldGuest = rooms[r].guestCommit
        /\ up'
    BY <1>6 DEF CommitBoth, Handling, MuFree
  <2>5. /\ rooms' = [rooms EXCEPT ![r] = rm]
        /\ pairs' = [pairs EXCEPT ![p] = [host |-> rm.host, guest |-> rm.guest]]
    BY <1>6 DEF CommitBoth
  <2>6. rooms'[r] = rm /\ pairs'[p] = [host |-> rm.host, guest |-> rm.guest]
    BY <2>5 DEF TypeOK
  <2>7. rm # None
    BY <2>1, SubmittedType, NoneAssumption
  <2>8. {rooms[r].hostCommit, rooms[r].guestCommit} \subseteq {None, p}
    BY <1>6, <2>1, <2>2, <2>3 DEF CommitBoth, MayCommit
  <2>9. d \in {rm.host, rm.guest}
    BY <1>6, <2>2 DEF CommitBoth, MayCommit
  <2>10. ASSUME pairs[p] = None
         PROVE  /\ None \in {rooms[r].hostCommit, rooms[r].guestCommit}
                /\ \A x \in RoomId \ {r} : rooms'[x] # None => CommittedId(rooms'[x]) # p
    <3>1. \A x \in RoomId : rooms[x] # None => CommittedId(rooms[x]) # p
      BY <2>10, CommittedPair, NoneAssumption
    <3>2. \A x \in RoomId \ {r} : rooms'[x] = rooms[x]
      BY <2>5 DEF TypeOK
    <3>3. CommittedId(rooms[r]) # p
      BY <2>1, <3>1, NoneAssumption
    <3> QED BY <2>2, <2>3, <2>8, <3>1, <3>2, <3>3 DEF CommittedId
  <2> QED BY <2>3, <2>4, <2>6, <2>7, <2>8, <2>9, <2>10 DEF SavingInv, CommittedId
<1>7. ASSUME UNCHANGED <<up, devices, revoked, rooms, pairs, saving>>
      PROVE SavingInv'
  BY <1>7 DEF SavingInv, CommittedId
<1> QED
  <2>1. saving = Idle /\ UNCHANGED saving => SavingInv'
    BY <1>1
  <2>2. CASE FirstStart \/ Start
    BY <2>1, <2>2 DEF FirstStart, Start, SavingInv
  <2>3. CASE Close \/ Crash
    BY <1>1, <2>3 DEF Close, Crash, Stopped
  <2>4. CASE LoginSaveFails \/ RevokeSaveFails \/ CommitSaveFails
             \/ LoginSaved \/ RevokeSaved \/ CommitSaved
    BY <1>1, <2>4 DEF LoginSaveFails, RevokeSaveFails, CommitSaveFails,
                      LoginSaved, RevokeSaved, CommitSaved
  <2>5. CASE CleanupExpired
    BY <2>1, <2>5 DEF CleanupExpired, MuFree
  <2>6. ASSUME NEW d \in Device, Authenticate(d) \/ RequestRefused(d) PROVE SavingInv'
    BY <2>1, <2>6 DEF Authenticate, RequestRefused, MuFree
  <2>7. ASSUME NEW d \in Device, NEW r \in RoomId, CreateRoom(d, r) \/ JoinRoom(d, r)
        PROVE SavingInv'
    BY <2>1, <2>7 DEF CreateRoom, JoinRoom, Handling, MuFree
  <2>8. ASSUME NEW d \in Device, NEW r \in RoomId, NEW p \in PairId,
               CommitRetried(d, r, p) \/ CommitHalf(d, r, p)
        PROVE SavingInv'
    BY <2>1, <2>8 DEF CommitRetried, CommitHalf, Handling, MuFree
  <2>9. ASSUME NEW d \in Device, NEW k \in RelayKey, RegisterKey(d, k) PROVE SavingInv'
    BY <2>1, <2>9 DEF RegisterKey, Handling, MuFree
  <2>10. ASSUME NEW k \in RelayKey, DropLease(k) \/ LeaseTimesOut(k) PROVE SavingInv'
    BY <1>7, <2>10 DEF DropLease, LeaseTimesOut
  <2>11. CASE UNCHANGED vars
    BY <1>7, <2>11 DEF vars, memory
  <2> QED
    BY <1>2, <1>3, <1>4, <1>5, <1>6, <2>2, <2>3, <2>4, <2>5, <2>6, <2>7, <2>8, <2>9,
       <2>10, <2>11 DEF Next

\* Every step keeps what is known of the rooms.
LEMMA RoomStep ==
    ASSUME IInv, [Next]_vars, NEW x \in RoomId
    PROVE  RoomInv(x)'
<1> USE SavingKind DEF IInv
<1> SUFFICES ASSUME rooms'[x] # None PROVE RoomInv(x)'
  BY DEF RoomInv
<1>1. ASSUME rooms'[x] = rooms[x], UNCHANGED <<asked, pairs>>
      PROVE  RoomInv(x)'
  BY <1>1 DEF RoomInv, CommittedId
<1>2. ASSUME NEW R, rooms' = Without(R), UNCHANGED <<asked, pairs>>
      PROVE  RoomInv(x)'
  BY <1>1, <1>2 DEF Without
<1>3. ASSUME rooms' = NoRooms
      PROVE  RoomInv(x)'
  BY <1>3 DEF NoRooms
<1>4. ASSUME NEW d \in Device, NEW r \in RoomId, CreateRoom(d, r) PROVE RoomInv(x)'
  <2> DEFINE kept == Without(ExpiredRooms)
             new == [host |-> d, guest |-> None, hostCommit |-> None,
                     guestCommit |-> None, expired |-> FALSE]
  <2>1. UNCHANGED <<asked, pairs>>
    BY <1>4 DEF CreateRoom
  <2>2. rooms' = kept \/ rooms' = [kept EXCEPT ![r] = new]
    BY <1>4 DEF CreateRoom
  <2>3. CASE rooms'[x] = kept[x]
    BY <1>1, <2>1, <2>3 DEF Without
  <2>4. CASE rooms'[x] = new
    BY <2>4, NoneAssumption DEF RoomInv, CommittedId
  <2>5. kept \in [RoomId -> Room \cup {None}]
    BY KeptType
  <2> QED
    <3> HIDE DEF kept, new
    <3> QED BY <2>2, <2>3, <2>4, <2>5
<1>5. ASSUME NEW d \in Device, NEW r \in RoomId, JoinRoom(d, r) PROVE RoomInv(x)'
  <2>1. /\ rooms[r] \in Room /\ RoomInv(r)
        /\ rooms[r].host # d /\ rooms[r].guest \in {None, d}
        /\ rooms' = [rooms EXCEPT ![r].guest = d]
        /\ UNCHANGED <<asked, pairs>>
    BY <1>5 DEF TypeOK, JoinRoom, LiveRoom
  <2>2. CASE x = r
    <3>1. /\ rooms'[r].host = rooms[r].host
          /\ rooms'[r].guest = d
          /\ rooms'[r].hostCommit = rooms[r].hostCommit
          /\ rooms'[r].guestCommit = rooms[r].guestCommit
      BY <2>1 DEF TypeOK, Room
    <3>2. CASE rooms[r].guest = None
      BY <2>1, <2>2, <3>1, <3>2, NoneAssumption DEF RoomInv, CommittedId
    <3>3. CASE rooms[r].guest = d
      BY <2>1, <2>2, <3>1, <3>3, NoneAssumption DEF RoomInv, CommittedId
    <3> QED BY <2>1, <3>2, <3>3
  <2>3. CASE x # r
    BY <1>1, <2>1, <2>3 DEF TypeOK
  <2> QED BY <2>2, <2>3
<1>6. ASSUME NEW r \in RoomId, RoomTimesOut(r) PROVE RoomInv(x)'
  <2>1. /\ rooms[r] \in Room /\ RoomInv(r)
        /\ rooms' = [rooms EXCEPT ![r].expired = TRUE]
        /\ UNCHANGED <<asked, pairs>>
    BY <1>6 DEF TypeOK, RoomTimesOut, LiveRoom
  <2>2. CASE x = r
    <3>1. /\ rooms'[r].host = rooms[r].host
          /\ rooms'[r].guest = rooms[r].guest
          /\ rooms'[r].hostCommit = rooms[r].hostCommit
          /\ rooms'[r].guestCommit = rooms[r].guestCommit
      BY <2>1 DEF TypeOK, Room
    <3>2. rooms[r] # None
      BY <2>1, NoneAssumption
    <3> QED BY <2>1, <2>2, <3>1, <3>2 DEF RoomInv, CommittedId
  <2>3. CASE x # r
    BY <1>1, <2>1, <2>3 DEF TypeOK
  <2> QED BY <2>2, <2>3
<1>7. ASSUME NEW d \in Device, NEW r \in RoomId, NEW p \in PairId,
             CommitHalf(d, r, p) \/ CommitBoth(d, r, p)
      PROVE RoomInv(x)'
  <2> DEFINE rm == Submitted(rooms[r], d, p)
  <2>1. /\ rooms[r] \in Room /\ RoomInv(r)
        /\ MayCommit(d, r, p)
        /\ rooms' = [rooms EXCEPT ![r] = rm]
        /\ asked' = asked \cup {<<d, r, p>>}
    BY <1>7 DEF TypeOK, CommitHalf, CommitBoth, MayCommit, LiveRoom
  <2>2. \/ UNCHANGED pairs /\ CommittedId(rm) # p
        \/ /\ pairs' = [pairs EXCEPT ![p] = [host |-> rm.host, guest |-> rm.guest]]
           /\ CommittedId(rm) = p
    BY <1>7 DEF CommitHalf, CommitBoth
  <2>3. /\ rm.host = rooms[r].host
        /\ rm.guest = rooms[r].guest
        /\ IF d = rm.host THEN rm.hostCommit = p /\ rm.guestCommit = rooms[r].guestCommit
                          ELSE rm.guestCommit = p /\ rm.hostCommit = rooms[r].hostCommit
    BY <2>1 DEF Submitted, Room
  <2>4. d \in {rm.host, rm.guest}
    BY <2>1, <2>3 DEF MayCommit
  <2>5. rooms[r] # None
    BY <2>1, NoneAssumption
  <2>6. CASE x = r
    <3>1. rooms'[r] = rm
      BY <2>1 DEF TypeOK
    <3>2. /\ rm.host # rm.guest
          /\ rm.guest = None => rm.guestCommit = None
          /\ rm.hostCommit # None => <<rm.host, r, rm.hostCommit>> \in asked'
          /\ rm.guestCommit # None => <<rm.guest, r, rm.guestCommit>> \in asked'
      BY <2>1, <2>3, <2>4, <2>5, NoneAssumption DEF RoomInv
    <3>3. CommittedId(rm) \in {None, p}
      BY <2>3 DEF CommittedId
    <3>4. CommittedId(rm) # None => pairs'[CommittedId(rm)] = [host |-> rm.host, guest |-> rm.guest]
      BY <2>2, <3>3 DEF TypeOK
    <3> QED
      <4> HIDE DEF rm
      <4> QED BY <2>6, <3>1, <3>2, <3>4 DEF RoomInv
  <2>7. CASE x # r
    <3>1. rooms'[x] = rooms[x]
      BY <2>1, <2>7 DEF TypeOK
    <3>2. CASE CommittedId(rooms[x]) # p
      <4>1. CommittedId(rooms[x]) # None => pairs'[CommittedId(rooms[x])] = pairs[CommittedId(rooms[x])]
        <5> SUFFICES ASSUME CommittedId(rooms[x]) # None
                     PROVE  pairs'[CommittedId(rooms[x])] = pairs[CommittedId(rooms[x])]
          OBVIOUS
        <5>1. rooms[x] \in Room
          BY <3>1 DEF TypeOK
        <5>2. CommittedId(rooms[x]) \in PairId
          BY <5>1 DEF CommittedId, Room
        <5> QED BY <2>2, <3>2, <5>2 DEF TypeOK
      <4> QED BY <2>1, <3>1, <4>1 DEF RoomInv
    <3>3. CASE CommittedId(rooms[x]) = p
      <4>1. pairs[p] = [host |-> rooms[r].host, guest |-> rooms[r].guest]
        BY <2>1, <3>1, <3>3, CommittedPair, NoneAssumption DEF MayCommit
      <4>2. UNCHANGED pairs
        BY <2>2, <2>3, <4>1 DEF TypeOK
      <4> QED BY <2>1, <3>1, <4>2 DEF RoomInv
    <3> QED BY <3>2, <3>3
  <2> QED BY <2>6, <2>7
<1>8. CASE CommitSaveFails
  <2> DEFINE r == saving.room
             p == saving.pair
  <2>1. saving \in CommitSave /\ r \in RoomId /\ p \in PairId
    BY <1>8 DEF CommitSaveFails, CommitSave
  <2>2. rooms[r] \in Room /\ RoomInv(r)
    BY <1>8, <2>1 DEF TypeOK, CommitSaveFails, SavingInv
  <2>3. /\ rooms[r].hostCommit = p /\ rooms[r].guestCommit = p /\ rooms[r].guest # None
        /\ {saving.oldHost, saving.oldGuest} \subseteq {None, p}
        /\ saving.created => None \in {saving.oldHost, saving.oldGuest}
        /\ saving.created =>
             \A y \in RoomId \ {r} : rooms[y] # None => CommittedId(rooms[y]) # p
    BY <1>8 DEF CommitSaveFails, SavingInv
  <2>4. /\ rooms' = [rooms EXCEPT ![r].hostCommit = saving.oldHost,
                                  ![r].guestCommit = saving.oldGuest]
        /\ pairs' = IF saving.created THEN [pairs EXCEPT ![p] = None] ELSE pairs
        /\ asked' = asked
    BY <1>8 DEF CommitSaveFails
  <2>5. CASE x = r
    <3>1. /\ rooms'[r].host = rooms[r].host
          /\ rooms'[r].guest = rooms[r].guest
          /\ rooms'[r].hostCommit = saving.oldHost
          /\ rooms'[r].guestCommit = saving.oldGuest
      BY <2>1, <2>2, <2>4 DEF TypeOK, Room
    <3>2. rooms[r] # None
      BY <2>2, NoneAssumption
    <3>3. CommittedId(rooms'[r]) # None => UNCHANGED pairs /\ CommittedId(rooms'[r]) = p
      BY <2>3, <2>4, <3>1 DEF CommittedId
    <3>4. CommittedId(rooms[r]) = p /\ p # None
      BY <2>1, <2>3, NoneAssumption DEF CommittedId
    <3>5. UNCHANGED asked
      BY <2>4
    <3> HIDE DEF r, p
    <3> QED BY <2>2, <2>3, <2>5, <3>1, <3>2, <3>3, <3>4, <3>5 DEF RoomInv
  <2>6. CASE x # r
    <3>1. rooms'[x] = rooms[x]
      BY <2>1, <2>4, <2>6 DEF TypeOK
    <3>2. saving.created => CommittedId(rooms[x]) # p
      BY <2>3, <2>6, <3>1
    <3>3. CommittedId(rooms[x]) # None => pairs'[CommittedId(rooms[x])] = pairs[CommittedId(rooms[x])]
      <4> SUFFICES ASSUME CommittedId(rooms[x]) # None
                   PROVE  pairs'[CommittedId(rooms[x])] = pairs[CommittedId(rooms[x])]
        OBVIOUS
      <4>1. rooms[x] \in Room
        BY <3>1 DEF TypeOK
      <4>2. CommittedId(rooms[x]) \in PairId
        BY <4>1 DEF CommittedId, Room
      <4> QED BY <2>1, <2>4, <3>2, <4>2 DEF TypeOK
    <3>4. UNCHANGED asked
      BY <2>4
    <3> HIDE DEF r, p
    <3> QED BY <3>1, <3>3, <3>4 DEF RoomInv
  <2> QED BY <2>5, <2>6
<1> QED
  <2>1. CASE FirstStart \/ Start \/ Close \/ Crash
    BY <1>3, <2>1 DEF FirstStart, Start, MemoryFrom, Close, Crash, Stopped
  <2>2. CASE RevokeSaved \/ CleanupExpired
    BY <1>2, <2>2 DEF RevokeSaved, CleanupExpired
  <2>3. ASSUME UNCHANGED <<rooms, asked, pairs>> PROVE RoomInv(x)'
    BY <1>1, <2>3
  <2>4. CASE Rename \/ LoginSaveFails \/ RevokeSaveFails \/ LoginSaved \/ CommitSaved
    BY <2>3, <2>4 DEF Rename, LoginSaveFails, RevokeSaveFails, LoginSaved, CommitSaved, memory
  <2>5. ASSUME NEW d \in Device,
               Login(d) \/ Authenticate(d) \/ RequestRefused(d) \/ Revoke(d)
        PROVE RoomInv(x)'
    BY <2>3, <2>5 DEF Login, Authenticate, RequestRefused, Revoke, memory
  <2>6. ASSUME NEW d \in Device, NEW r \in RoomId, NEW p \in PairId, CommitRetried(d, r, p)
        PROVE RoomInv(x)'
    BY <2>3, <2>6 DEF CommitRetried, memory
  <2>7. ASSUME NEW d \in Device, NEW k \in RelayKey, RegisterKey(d, k) PROVE RoomInv(x)'
    BY <2>3, <2>7 DEF RegisterKey
  <2>8. ASSUME NEW k \in RelayKey, DropLease(k) \/ LeaseTimesOut(k) PROVE RoomInv(x)'
    BY <2>3, <2>8 DEF DropLease, LeaseTimesOut
  <2>9. CASE UNCHANGED vars
    BY <2>3, <2>9 DEF vars, memory
  <2> QED
    BY <1>4, <1>5, <1>6, <1>7, <1>8, <2>1, <2>2, <2>4, <2>5, <2>6, <2>7, <2>8, <2>9 DEF Next

\* Every step keeps revoked devices without leases and rooms.
LEMMA RevokedStep ==
    ASSUME IInv, [Next]_vars
    PROVE  RevokedInv'
<1> USE SavingKind DEF IInv
<1>1. ASSUME revoked' \subseteq revoked,
             \A d \in revoked' : LeasesOf(leases', d) \subseteq LeasesOf(leases, d),
             \A d \in revoked' : RoomsOf(d)' \subseteq RoomsOf(d),
             saving.op = "revoke" => saving'.op = "revoke" /\ saving'.dev = saving.dev
      PROVE  RevokedInv'
  BY <1>1 DEF RevokedInv
<1>2. ASSUME UNCHANGED <<revoked, rooms, leases>>,
             saving.op = "revoke" => saving'.op = "revoke" /\ saving'.dev = saving.dev
      PROVE  RevokedInv'
  BY <1>1, <1>2 DEF RoomsOf
<1>3. CASE FirstStart \/ Start \/ Close \/ Crash
  <2>1. rooms' = NoRooms /\ leases' = NoLeases
    BY <1>3 DEF FirstStart, Start, Close, Crash, Stopped, MemoryFrom
  <2> QED BY <2>1 DEF RevokedInv, NoRooms, NoLeases, RoomsOf, LeasesOf
<1>4. CASE Rename
  <2>1. saving.op = "revoke" => saving'.op = "revoke" /\ saving'.dev = saving.dev
    BY <1>4 DEF Rename, RevokeSave
  <2> QED BY <1>2, <1>4, <2>1 DEF Rename, memory
<1>5. CASE LoginSaveFails \/ LoginSaved \/ CommitSaved
  BY <1>2, <1>5 DEF LoginSaveFails, LoginSaved, CommitSaved, memory
<1>6. CASE CommitSaveFails
  <2>1. saving \in CommitSave /\ rooms[saving.room] \in Room
    BY <1>6 DEF CommitSaveFails, SavingInv, TypeOK, CommitSave
  <2>2. rooms' = [rooms EXCEPT ![saving.room].hostCommit = saving.oldHost,
                               ![saving.room].guestCommit = saving.oldGuest]
    BY <1>6 DEF CommitSaveFails
  <2>3. \A d : RoomsOf(d)' \subseteq RoomsOf(d)
    BY <2>1, <2>2, NoneAssumption DEF RoomsOf, TypeOK, CommitSave, Room
  <2>4. /\ UNCHANGED <<revoked, leases>>
        /\ saving.op = "revoke" => saving'.op = "revoke" /\ saving'.dev = saving.dev
    BY <1>6 DEF CommitSaveFails
  <2> QED BY <1>1, <2>3, <2>4
<1>7. CASE RevokeSaveFails
  <2>1. saving \in RevokeSave
    BY <1>7 DEF RevokeSaveFails
  <2>2. \A k \in RelayKey : saving.removed[k] # None => saving.removed[k].owner = saving.dev
    BY <1>7 DEF RevokeSaveFails, SavingInv
  <2>3. revoked' = revoked \ {saving.dev} /\ UNCHANGED rooms
    BY <1>7 DEF RevokeSaveFails
  <2>4. leases' = [k \in RelayKey |->
                     IF saving.removed[k] # None THEN saving.removed[k] ELSE leases[k]]
    BY <1>7 DEF RevokeSaveFails
  <2>5. \A d \in revoked' : LeasesOf(leases', d) \subseteq LeasesOf(leases, d)
    BY <2>2, <2>3, <2>4 DEF LeasesOf
  <2> QED BY <2>3, <2>5 DEF RevokedInv, RoomsOf
<1>8. CASE RevokeSaved
  <2>1. /\ rooms' = Without(RoomsOf(saving.dev))
        /\ UNCHANGED <<revoked, leases>>
    BY <1>8 DEF RevokeSaved
  <2>2. \A d \in revoked : RoomsOf(d)' = {}
    BY <2>1 DEF RevokedInv, RoomsOf, Without
  <2> QED BY <2>1, <2>2 DEF RevokedInv
<1>9. CASE CleanupExpired
  <2>1. /\ rooms' = Without(ExpiredRooms)
        /\ leases' = LiveLeases
        /\ UNCHANGED <<revoked, saving>>
    BY <1>9 DEF CleanupExpired
  <2>2. \A d : RoomsOf(d)' \subseteq RoomsOf(d)
    BY <2>1 DEF RoomsOf, Without
  <2>3. \A d : LeasesOf(leases', d) \subseteq LeasesOf(leases, d)
    BY <2>1 DEF LeasesOf, LiveLeases
  <2> QED BY <1>1, <2>1, <2>2, <2>3
<1>10. ASSUME NEW d \in Device, Login(d) \/ Authenticate(d) \/ RequestRefused(d)
       PROVE RevokedInv'
  BY <1>2, <1>10 DEF Login, Authenticate, RequestRefused, MuFree, memory
<1>11. ASSUME NEW d \in Device, Revoke(d) PROVE RevokedInv'
  <2>1. /\ saving = Idle
        /\ revoked' = revoked \cup {d}
        /\ saving'.op = "revoke" /\ saving'.dev = d
        /\ leases' = [k \in RelayKey |-> IF k \in LeasesOf(leases, d) THEN None ELSE leases[k]]
        /\ UNCHANGED rooms
    BY <1>11 DEF Revoke, MuFree
  <2>2. \A e : LeasesOf(leases', e) \subseteq LeasesOf(leases, e)
    BY <2>1 DEF LeasesOf
  <2>3. LeasesOf(leases', d) = {}
    BY <2>1 DEF LeasesOf
  <2> QED BY <2>1, <2>2, <2>3 DEF RevokedInv, RoomsOf
<1>12. ASSUME NEW d \in Device, NEW r \in RoomId, CreateRoom(d, r) PROVE RevokedInv'
  <2> DEFINE kept == Without(ExpiredRooms)
             new == [host |-> d, guest |-> None, hostCommit |-> None,
                     guestCommit |-> None, expired |-> FALSE]
  <2>1. /\ rooms' = kept \/ rooms' = [kept EXCEPT ![r] = new]
        /\ d \notin revoked
        /\ UNCHANGED <<revoked, leases, saving>>
    BY <1>12 DEF CreateRoom, Handling
  <2>2. \A x \in RoomId : rooms'[x] = None \/ rooms'[x] = rooms[x] \/ rooms'[x] = new
    <3>1. kept \in [RoomId -> Room \cup {None}] /\ \A x \in RoomId : kept[x] \in {None, rooms[x]}
      BY KeptType DEF Without
    <3> HIDE DEF kept, new
    <3> QED BY <2>1, <3>1
  <2>3. \A e \in revoked : RoomsOf(e)' \subseteq RoomsOf(e)
    BY <2>1, <2>2, NoneAssumption DEF RoomsOf, TypeOK
  <2> QED BY <1>1, <2>1, <2>3
<1>13. ASSUME NEW d \in Device, NEW r \in RoomId, JoinRoom(d, r) PROVE RevokedInv'
  <2>1. /\ rooms[r] \in Room
        /\ d \notin revoked
        /\ rooms' = [rooms EXCEPT ![r].guest = d]
        /\ UNCHANGED <<revoked, leases, saving>>
    BY <1>13 DEF JoinRoom, Handling, LiveRoom, TypeOK
  <2>2. \A e \in revoked : RoomsOf(e)' \subseteq RoomsOf(e)
    BY <2>1, NoneAssumption DEF RoomsOf, TypeOK, Room
  <2> QED BY <1>1, <2>1, <2>2
<1>14. ASSUME NEW d \in Device, NEW r \in RoomId, NEW p \in PairId,
              CommitHalf(d, r, p) \/ CommitBoth(d, r, p)
       PROVE RevokedInv'
  <2>1. /\ rooms[r] \in Room
        /\ rooms' = [rooms EXCEPT ![r] = Submitted(rooms[r], d, p)]
        /\ saving.op # "revoke"
        /\ UNCHANGED <<revoked, leases>>
    BY <1>14 DEF CommitHalf, CommitBoth, MayCommit, LiveRoom, TypeOK, Handling, MuFree
  <2>2. /\ Submitted(rooms[r], d, p).host = rooms[r].host
        /\ Submitted(rooms[r], d, p).guest = rooms[r].guest
    BY <2>1 DEF Submitted, Room
  <2>3. \A e : RoomsOf(e)' \subseteq RoomsOf(e)
    BY <2>1, <2>2, NoneAssumption DEF RoomsOf, TypeOK
  <2> QED BY <1>1, <2>1, <2>3
<1>15. ASSUME NEW d \in Device, NEW r \in RoomId, NEW p \in PairId, CommitRetried(d, r, p)
       PROVE RevokedInv'
  BY <1>2, <1>15 DEF CommitRetried, memory
<1>16. ASSUME NEW d \in Device, NEW k \in RelayKey, RegisterKey(d, k) PROVE RevokedInv'
  <2>1. /\ d \notin revoked
        /\ leases' = [LiveLeases EXCEPT ![k] = [owner |-> d, expired |-> FALSE]]
        /\ UNCHANGED <<revoked, rooms, saving>>
    BY <1>16 DEF RegisterKey, Handling
  <2>2. \A e \in revoked : LeasesOf(leases', e) \subseteq LeasesOf(leases, e)
    BY <2>1 DEF LeasesOf, LiveLeases
  <2> QED BY <1>1, <2>1, <2>2 DEF RoomsOf
<1>17. ASSUME NEW k \in RelayKey, DropLease(k) PROVE RevokedInv'
  <2>1. /\ leases' = [leases EXCEPT ![k] = None]
        /\ UNCHANGED <<revoked, rooms, saving>>
    BY <1>17 DEF DropLease
  <2>2. \A e : LeasesOf(leases', e) \subseteq LeasesOf(leases, e)
    BY <2>1 DEF LeasesOf, TypeOK
  <2> QED BY <1>1, <2>1, <2>2 DEF RoomsOf
<1>18. ASSUME NEW k \in RelayKey, LeaseTimesOut(k) PROVE RevokedInv'
  <2>1. /\ leases[k] \in Lease
        /\ leases' = [leases EXCEPT ![k].expired = TRUE]
        /\ UNCHANGED <<revoked, rooms, saving>>
    BY <1>18 DEF LeaseTimesOut, TypeOK
  <2>2. \A e : LeasesOf(leases', e) \subseteq LeasesOf(leases, e)
    BY <2>1, NoneAssumption DEF LeasesOf, TypeOK, Lease
  <2> QED BY <1>1, <2>1, <2>2 DEF RoomsOf
<1>19. ASSUME NEW r \in RoomId, RoomTimesOut(r) PROVE RevokedInv'
  <2>1. /\ rooms[r] \in Room
        /\ rooms' = [rooms EXCEPT ![r].expired = TRUE]
        /\ UNCHANGED <<revoked, leases, saving>>
    BY <1>19 DEF RoomTimesOut, LiveRoom, TypeOK
  <2>2. \A e : RoomsOf(e)' \subseteq RoomsOf(e)
    BY <2>1, NoneAssumption DEF RoomsOf, TypeOK, Room
  <2> QED BY <1>1, <2>1, <2>2
<1>20. CASE UNCHANGED vars
  BY <1>2, <1>20 DEF vars, memory
<1> QED
  BY <1>3, <1>4, <1>5, <1>6, <1>7, <1>8, <1>9, <1>10, <1>11, <1>12, <1>13, <1>14,
     <1>15, <1>16, <1>17, <1>18, <1>19, <1>20 DEF Next

\* Every step keeps the relation between the state file and memory.
LEMMA DiskStep ==
    ASSUME IInv, [Next]_vars
    PROVE  DiskInv'
<1> USE SavingKind DEF IInv
<1>1. ASSUME UNCHANGED <<up, devices, revoked, pairs, saving, disk>>
      PROVE  DiskInv'
  BY <1>1 DEF DiskInv, MemoryImage, UnsavedImage
<1>2. CASE FirstStart \/ Start
  <2>1. saving' = Idle /\ disk' \in Image
    BY <1>2 DEF FirstStart, Start, SavingInv, TypeOK, EmptyImage, Image, NoPairs
  <2>2. devices' = disk'.devices /\ revoked' = disk'.revoked /\ pairs' = disk'.pairs
    BY <1>2 DEF FirstStart, Start, MemoryFrom
  <2> QED BY <2>1, <2>2 DEF DiskInv, MemoryImage, Image
<1>3. CASE Close \/ Crash
  BY <1>3 DEF Close, Crash, Stopped, DiskInv
<1>4. CASE Rename
  <2>1. saving'.renamed
    BY <1>4 DEF Rename, LoginSave, RevokeSave, CommitSave
  <2> QED BY <1>4, <2>1 DEF Rename, DiskInv, MemoryImage, memory
<1>5. CASE LoginSaveFails \/ RevokeSaveFails \/ CommitSaveFails
  <2>1. disk = UnsavedImage /\ disk' = disk /\ saving' = Idle
    BY <1>5 DEF LoginSaveFails, RevokeSaveFails, CommitSaveFails, DiskInv
  <2>2. CASE LoginSaveFails
    <3>1. /\ UnsavedImage = [devices |-> devices \ {saving.dev}, revoked |-> revoked, pairs |-> pairs]
          /\ devices' = devices \ {saving.dev} /\ UNCHANGED <<revoked, pairs>>
      BY <2>2 DEF LoginSaveFails, UnsavedImage
    <3> QED BY <2>1, <3>1 DEF DiskInv, MemoryImage
  <2>3. CASE RevokeSaveFails
    <3>1. /\ UnsavedImage = [devices |-> devices, revoked |-> revoked \ {saving.dev}, pairs |-> pairs]
          /\ revoked' = revoked \ {saving.dev} /\ UNCHANGED <<devices, pairs>>
      BY <2>3 DEF RevokeSaveFails, UnsavedImage
    <3> QED BY <2>1, <3>1 DEF DiskInv, MemoryImage
  <2>4. CASE CommitSaveFails
    <3>1. /\ UnsavedImage = [devices |-> devices, revoked |-> revoked,
                             pairs |-> IF saving.created
                                       THEN [pairs EXCEPT ![saving.pair] = None] ELSE pairs]
          /\ pairs' = IF saving.created THEN [pairs EXCEPT ![saving.pair] = None] ELSE pairs
          /\ UNCHANGED <<devices, revoked>>
      BY <2>4 DEF CommitSaveFails, UnsavedImage
    <3> QED BY <2>1, <3>1 DEF DiskInv, MemoryImage
  <2> QED BY <1>5, <2>2, <2>3, <2>4
<1>6. CASE LoginSaved \/ RevokeSaved \/ CommitSaved
  BY <1>6 DEF LoginSaved, RevokeSaved, CommitSaved, DiskInv, MemoryImage, memory
<1>7. ASSUME NEW d \in Device, Login(d) PROVE DiskInv'
  <2>1. /\ disk' = MemoryImage
        /\ saving'.op = "login" /\ saving'.dev = d /\ ~saving'.renamed /\ saving' # Idle
        /\ devices' = devices \cup {d} /\ d \notin devices
        /\ UNCHANGED <<revoked, pairs>>
    BY <1>7 DEF Login, MuFree, DiskInv, Idle
  <2>2. devices' \ {d} = devices
    BY <2>1
  <2> QED BY <2>1, <2>2 DEF DiskInv, MemoryImage, UnsavedImage
<1>8. ASSUME NEW d \in Device, Revoke(d) PROVE DiskInv'
  <2>1. /\ disk' = MemoryImage
        /\ saving'.op = "revoke" /\ saving'.dev = d /\ ~saving'.renamed /\ saving' # Idle
        /\ revoked' = revoked \cup {d} /\ d \notin revoked
        /\ UNCHANGED <<devices, pairs>>
    BY <1>8 DEF Revoke, MuFree, DiskInv, Idle
  <2>2. revoked' \ {d} = revoked
    BY <2>1
  <2> QED BY <2>1, <2>2 DEF DiskInv, MemoryImage, UnsavedImage
<1>9. ASSUME NEW d \in Device, NEW r \in RoomId, NEW p \in PairId, CommitBoth(d, r, p)
      PROVE DiskInv'
  <2> DEFINE rm == Submitted(rooms[r], d, p)
  <2>1. /\ disk' = MemoryImage
        /\ saving'.op = "commit" /\ saving'.pair = p /\ ~saving'.renamed /\ saving' # Idle
        /\ saving'.created <=> pairs[p] = None
        /\ UNCHANGED <<devices, revoked>>
    BY <1>9 DEF CommitBoth, Handling, MuFree, DiskInv, Idle
  <2>2. rooms[r] \in Room
    BY <1>9 DEF CommitBoth, MayCommit, LiveRoom, TypeOK
  <2>3. rm.host = rooms[r].host /\ rm.guest = rooms[r].guest
    BY <2>2 DEF Submitted, Room
  <2>4. /\ pairs' = [pairs EXCEPT ![p] = [host |-> rm.host, guest |-> rm.guest]]
        /\ pairs[p] \in {None, [host |-> rm.host, guest |-> rm.guest]}
    BY <1>9, <2>3 DEF CommitBoth, MayCommit
  <2>5. pairs = IF saving'.created THEN [pairs' EXCEPT ![p] = None] ELSE pairs'
    <3> HIDE DEF rm
    <3> QED BY <2>1, <2>4 DEF TypeOK
  <2> QED BY <2>1, <2>5 DEF DiskInv, MemoryImage, UnsavedImage
<1> QED
  <2>1. CASE CleanupExpired \/ UNCHANGED vars
    BY <1>1, <2>1 DEF CleanupExpired, vars, memory
  <2>2. ASSUME NEW d \in Device, Authenticate(d) \/ RequestRefused(d) PROVE DiskInv'
    BY <1>1, <2>2 DEF Authenticate, RequestRefused, memory
  <2>3. ASSUME NEW d \in Device, NEW r \in RoomId, CreateRoom(d, r) \/ JoinRoom(d, r)
        PROVE DiskInv'
    BY <1>1, <2>3 DEF CreateRoom, JoinRoom
  <2>4. ASSUME NEW d \in Device, NEW r \in RoomId, NEW p \in PairId,
               CommitRetried(d, r, p) \/ CommitHalf(d, r, p)
        PROVE DiskInv'
    BY <1>1, <2>4 DEF CommitRetried, CommitHalf, memory
  <2>5. ASSUME NEW d \in Device, NEW k \in RelayKey, RegisterKey(d, k) PROVE DiskInv'
    BY <1>1, <2>5 DEF RegisterKey
  <2>6. ASSUME NEW k \in RelayKey, DropLease(k) \/ LeaseTimesOut(k) PROVE DiskInv'
    BY <1>1, <2>6 DEF DropLease, LeaseTimesOut
  <2>7. ASSUME NEW r \in RoomId, RoomTimesOut(r) PROVE DiskInv'
    BY <1>1, <2>7 DEF RoomTimesOut
  <2> QED
    BY <1>2, <1>3, <1>4, <1>5, <1>6, <1>7, <1>8, <1>9, <2>1, <2>2, <2>3, <2>4, <2>5,
       <2>6, <2>7 DEF Next

\* Only the first start and the rename write the state file.
LEMMA DiskWriters ==
    ASSUME [Next]_vars
    PROVE  FirstStart \/ Rename \/ UNCHANGED disk
<1>1. CASE Start \/ Close \/ Crash \/ CleanupExpired \/ UNCHANGED vars
  BY <1>1 DEF Start, Close, Crash, Stopped, CleanupExpired, vars
<1>2. CASE LoginSaveFails \/ RevokeSaveFails \/ CommitSaveFails
           \/ LoginSaved \/ RevokeSaved \/ CommitSaved
  BY <1>2 DEF LoginSaveFails, RevokeSaveFails, CommitSaveFails,
              LoginSaved, RevokeSaved, CommitSaved
<1>3. ASSUME NEW d \in Device,
             Login(d) \/ Authenticate(d) \/ RequestRefused(d) \/ Revoke(d)
      PROVE UNCHANGED disk
  BY <1>3 DEF Login, Authenticate, RequestRefused, Revoke
<1>4. ASSUME NEW d \in Device, NEW r \in RoomId, CreateRoom(d, r) \/ JoinRoom(d, r)
      PROVE UNCHANGED disk
  BY <1>4 DEF CreateRoom, JoinRoom
<1>5. ASSUME NEW d \in Device, NEW r \in RoomId, NEW p \in PairId,
             CommitRetried(d, r, p) \/ CommitHalf(d, r, p) \/ CommitBoth(d, r, p)
      PROVE UNCHANGED disk
  BY <1>5 DEF CommitRetried, CommitHalf, CommitBoth
<1>6. ASSUME NEW d \in Device, NEW k \in RelayKey, RegisterKey(d, k) PROVE UNCHANGED disk
  BY <1>6 DEF RegisterKey
<1>7. ASSUME NEW k \in RelayKey, DropLease(k) \/ LeaseTimesOut(k) PROVE UNCHANGED disk
  BY <1>7 DEF DropLease, LeaseTimesOut
<1>8. ASSUME NEW r \in RoomId, RoomTimesOut(r) PROVE UNCHANGED disk
  BY <1>8 DEF RoomTimesOut
<1> QED
  BY <1>1, <1>2, <1>3, <1>4, <1>5, <1>6, <1>7, <1>8 DEF Next

\* Nothing in the state file is ever taken back.
LEMMA DiskGrows ==
    ASSUME IInv, [Next]_vars, disk # None
    PROVE  /\ disk' # None
           /\ disk.devices \subseteq disk'.devices
           /\ disk.revoked \subseteq disk'.revoked
           /\ \A p \in PairId : disk.pairs[p] # None => disk'.pairs[p] = disk.pairs[p]
<1> USE SavingKind DEF IInv
<1>1. CASE Rename
  <2>1. disk = UnsavedImage /\ disk' = MemoryImage
    BY <1>1 DEF Rename, DiskInv
  <2>2. MemoryImage # None
    BY KeptType, NoneAssumption
  <2>3. UnsavedImage.devices \subseteq devices /\ UnsavedImage.revoked \subseteq revoked
    BY DEF UnsavedImage
  <2>4. \A p \in PairId : UnsavedImage.pairs[p] # None => UnsavedImage.pairs[p] = pairs[p]
    BY DEF UnsavedImage, TypeOK
  <2> QED BY <2>1, <2>2, <2>3, <2>4 DEF MemoryImage
<1>2. CASE FirstStart
  BY <1>2 DEF FirstStart
<1> QED BY <1>1, <1>2, DiskWriters

\* What has to hold of the file for an answer to be durable.
AnswerDurable(a, img) ==
    /\ img # None
    /\ a.what = "enrolled" => a.dev \in img.devices
    /\ a.what = "revoked" => a.dev \in img.revoked
    /\ a.what = "committed" => /\ img.pairs[a.pair] # None
                               /\ a.dev \in {img.pairs[a.pair].host, img.pairs[a.pair].guest}

\* Every answer given is durable, those of this step included.
LEMMA AnswersStep ==
    ASSUME IInv, [Next]_vars
    PROVE  AnswersDurable'
<1> USE SavingKind DEF IInv
<1> SUFFICES ASSUME NEW a \in told' PROVE AnswerDurable(a, disk')
  BY DEF AnswersDurable, AnswerDurable
<1>1. CASE a \in told
  <2>1. AnswerDurable(a, disk)
    BY <1>1 DEF AnswersDurable, AnswerDurable
  <2>2. a.what = "committed" => a.pair \in PairId
    BY <1>1 DEF TypeOK, Answers
  <2> QED BY <2>1, <2>2, DiskGrows DEF AnswerDurable
<1>2. CASE told' # told /\ (LoginSaved \/ RevokeSaved \/ CommitSaved)
  <2>1. disk' = MemoryImage /\ disk' # None
    BY <1>2, KeptType, NoneAssumption
       DEF LoginSaved, RevokeSaved, CommitSaved, DiskInv
  <2>2. CASE LoginSaved
    BY <1>1, <2>1, <2>2 DEF LoginSaved, AnswerDurable, SavingInv, MemoryImage
  <2>3. CASE RevokeSaved
    BY <1>1, <2>1, <2>3 DEF RevokeSaved, AnswerDurable, SavingInv, MemoryImage
  <2>4. CASE CommitSaved
    <3>1. a \in told \/ a = [what |-> "committed", dev |-> saving.dev, pair |-> saving.pair]
      BY <2>4 DEF CommitSaved
    <3>2. saving \in CommitSave /\ rooms[saving.room] \in Room
      BY <2>4 DEF CommitSaved, SavingInv, TypeOK, CommitSave
    <3>3. /\ pairs[saving.pair] = [host |-> rooms[saving.room].host,
                                   guest |-> rooms[saving.room].guest]
          /\ rooms[saving.room].guest # None
          /\ saving.dev \in {rooms[saving.room].host, rooms[saving.room].guest}
      BY <2>4 DEF CommitSaved, SavingInv
    <3>4. pairs[saving.pair] # None
      <4>1. pairs[saving.pair] \in Pair
        BY <3>2, <3>3 DEF Room, Pair
      <4> QED BY <4>1, NoneAssumption
    <3> QED BY <1>1, <2>1, <3>1, <3>3, <3>4 DEF AnswerDurable, MemoryImage
  <2> QED BY <1>2, <2>2, <2>3, <2>4
<1>3. ASSUME NEW d \in Device, NEW r \in RoomId, NEW p \in PairId, CommitRetried(d, r, p)
      PROVE AnswerDurable(a, disk')
  <2>1. disk' = MemoryImage /\ disk' # None
    BY <1>3, KeptType, NoneAssumption DEF CommitRetried, Handling, MuFree, DiskInv
  <2> QED BY <1>1, <1>3, <2>1 DEF CommitRetried, AnswerDurable, MemoryImage
<1> QED
  <2>1. UNCHANGED told => AnswerDurable(a, disk')
    BY <1>1
  <2>2. CASE FirstStart \/ Start \/ Close \/ Crash \/ CleanupExpired \/ Rename \/ UNCHANGED vars
    BY <2>1, <2>2 DEF FirstStart, Start, Close, Crash, Stopped, CleanupExpired, Rename, vars
  <2>3. CASE LoginSaveFails \/ RevokeSaveFails \/ CommitSaveFails
    BY <2>1, <2>3 DEF LoginSaveFails, RevokeSaveFails, CommitSaveFails
  <2>4. ASSUME NEW d \in Device,
               Login(d) \/ Authenticate(d) \/ RequestRefused(d) \/ Revoke(d)
        PROVE UNCHANGED told
    BY <2>4 DEF Login, Authenticate, RequestRefused, Revoke
  <2>5. ASSUME NEW d \in Device, NEW r \in RoomId,
               CreateRoom(d, r) \/ JoinRoom(d, r)
        PROVE UNCHANGED told
    BY <2>5 DEF CreateRoom, JoinRoom
  <2>6. ASSUME NEW d \in Device, NEW r \in RoomId, NEW p \in PairId,
               CommitHalf(d, r, p) \/ CommitBoth(d, r, p)
        PROVE UNCHANGED told
    BY <2>6 DEF CommitHalf, CommitBoth
  <2>7. ASSUME NEW d \in Device, NEW k \in RelayKey, RegisterKey(d, k) PROVE UNCHANGED told
    BY <2>7 DEF RegisterKey
  <2>8. ASSUME NEW k \in RelayKey, DropLease(k) \/ LeaseTimesOut(k) PROVE UNCHANGED told
    BY <2>8 DEF DropLease, LeaseTimesOut
  <2>9. ASSUME NEW r \in RoomId, RoomTimesOut(r) PROVE UNCHANGED told
    BY <2>9 DEF RoomTimesOut
  <2> QED
    BY <1>2, <1>3, <2>1, <2>2, <2>3, <2>4, <2>5, <2>6, <2>7, <2>8, <2>9 DEF Next
-----------------------------------------------------------------------------
(* The theorems.                                                           *)

\* Every reachable state satisfies the inductive invariant.
THEOREM Inductive == Spec => []IInv
<1>1. IInv /\ [Next]_vars => IInv'
  BY TypeStep, SavingStep, RoomStep, RevokedStep, DiskStep, AnswersStep DEF IInv
<1> QED BY InitIInv, <1>1, PTL DEF Spec

\* The variables have their types.
THEOREM TypeCorrect == Spec => []TypeOK
<1>1. IInv => TypeOK
  BY DEF IInv
<1> QED BY <1>1, Inductive, PTL

\* Whenever the registry's lock is free, the state file is what memory says,
\* whichever saves failed or succeeded before.
THEOREM Durable == Spec => []MemoryIsDurable
<1>1. IInv => MemoryIsDurable
  BY DEF IInv, DiskInv, MemoryIsDurable, MuFree
<1> QED BY <1>1, Inductive, PTL

\* Enrolment, revocation and commit answers outlive every crash.
THEOREM AnswersOutliveCrashes == Spec => []AnswersDurable
<1>1. IInv => AnswersDurable
  BY DEF IInv
<1> QED BY <1>1, Inductive, PTL

\* After a revocation no room and no lease is left to the device.
THEOREM RevocationComplete == Spec => []RevokedHoldsNothing
<1>1. IInv => RevokedHoldsNothing
  BY SavingKind DEF IInv, RevokedInv, RevokedHoldsNothing, MuFree
<1> QED BY <1>1, Inductive, PTL

\* A room both sides committed is backed by a durable pair.
THEOREM CommitsDurable == Spec => []CommittedRoomIsDurable
<1>1. ASSUME IInv, MuFree PROVE disk.pairs = pairs
  BY <1>1 DEF IInv, DiskInv, MuFree, MemoryImage
<1>2. IInv => CommittedRoomIsDurable
  BY <1>1 DEF IInv, RoomInv, CommittedRoomIsDurable
<1> QED BY <1>2, Inductive, PTL
-----------------------------------------------------------------------------
(* The refinement.                                                         *)

\* A step that leaves submissions, file and answers alone is a stutter.
LEMMA Stutter ==
    ASSUME UNCHANGED <<asked, disk, told>>
    PROVE  UNCHANGED Registry!vars
  BY DEF Registry!vars, NoPairs

\* Whoever is being handled is not barred, and the file is what memory says.
LEMMA HandledNotBarred ==
    ASSUME IInv, NEW d, Handling(d)
    PROVE  disk # None /\ d \notin disk.revoked /\ disk = MemoryImage
<1>1. disk = MemoryImage
  BY DEF IInv, DiskInv, Handling, MuFree
<1> QED BY <1>1, KeptType, NoneAssumption DEF IInv, Handling, MemoryImage

\* Every step of the service is a step of the abstract registry or a stutter.
LEMMA RegistryStep ==
    ASSUME IInv, [Next]_vars
    PROVE  [Registry!Next]_Registry!vars
<1> USE SavingKind DEF IInv
<1>1. CASE FirstStart
  <2>1. disk = None /\ disk' = EmptyImage /\ disk' # None /\ UNCHANGED <<asked, told>>
    BY <1>1, NoneAssumption DEF FirstStart, EmptyImage, Image, NoPairs
  <2> QED BY <2>1 DEF Registry!vars, EmptyImage, NoPairs
<1>2. CASE Rename
  <2>1. disk = UnsavedImage /\ disk' = MemoryImage /\ UNCHANGED <<asked, told>>
    BY <1>2 DEF Rename, DiskInv
  <2>2. disk # None /\ disk' # None
    <3>1. UnsavedImage \in Image
      BY DEF UnsavedImage, Image, TypeOK
    <3> QED BY <2>1, <3>1, KeptType, NoneAssumption
  <2>3. CASE saving.op = "login"
    <3>1. disk'.pairs = disk.pairs /\ disk'.revoked = disk.revoked
      BY <2>1, <2>3 DEF UnsavedImage, MemoryImage
    <3> QED BY <2>1, <2>2, <3>1 DEF Registry!vars
  <2>4. CASE saving.op = "revoke"
    <3>1. saving.dev \in Device
      BY <2>4 DEF RevokeSave
    <3>2. disk'.pairs = disk.pairs /\ disk'.revoked = disk.revoked \cup {saving.dev}
      BY <2>1, <2>4 DEF UnsavedImage, MemoryImage, SavingInv
    <3>3. Registry!Bar(saving.dev)
      BY <2>1, <2>2, <3>2 DEF Registry!Bar
    <3> QED BY <3>1, <3>3 DEF Registry!Next
  <2>5. CASE saving.op = "commit" /\ ~saving.created
    <3>1. disk'.pairs = disk.pairs /\ disk'.revoked = disk.revoked
      BY <2>1, <2>5 DEF UnsavedImage, MemoryImage
    <3> QED BY <2>1, <2>2, <3>1 DEF Registry!vars
  <2>6. CASE saving.op = "commit" /\ saving.created
    <3> DEFINE p == saving.pair
               h == rooms[saving.room].host
               g == rooms[saving.room].guest
    <3>1. saving \in CommitSave /\ rooms[saving.room] \in Room /\ RoomInv(saving.room)
      BY <2>6 DEF SavingInv, TypeOK, CommitSave
    <3>2. /\ p \in PairId /\ h \in Device /\ g \in Device /\ h # g
          /\ rooms[saving.room].hostCommit = p /\ rooms[saving.room].guestCommit = p
          /\ pairs[p] = [host |-> h, guest |-> g]
      BY <2>6, <3>1, NoneAssumption DEF SavingInv, CommitSave, Room, RoomInv
    <3>3. <<h, saving.room, p>> \in asked /\ <<g, saving.room, p>> \in asked
      BY <3>1, <3>2, NoneAssumption DEF RoomInv
    <3>4. {<<h, p>>, <<g, p>>} \subseteq {<<a[1], a[3]>> : a \in asked}
      BY <3>3
    <3>5. {h, g} \cap revoked = {}
      <4>1. saving.room \in RoomsOf(h) /\ saving.room \in RoomsOf(g)
        BY <3>1, NoneAssumption DEF RoomsOf, CommitSave
      <4> QED BY <2>6, <4>1 DEF RevokedInv
    <3>6. disk.revoked = revoked /\ disk'.revoked = revoked /\ disk'.pairs = pairs
          /\ disk.pairs = [pairs EXCEPT ![p] = None]
      BY <2>1, <2>6 DEF UnsavedImage, MemoryImage
    <3>7. disk.pairs[p] = None /\ disk'.pairs = [disk.pairs EXCEPT ![p] = [host |-> h, guest |-> g]]
      <4> HIDE DEF p, h, g
      <4> QED BY <3>2, <3>6 DEF TypeOK
    <3>8. Registry!Bind(p, h, g)
      <4> HIDE DEF p, h, g
      <4> QED BY <2>1, <2>2, <3>2, <3>4, <3>5, <3>6, <3>7 DEF Registry!Bind
    <3> QED BY <3>2, <3>8 DEF Registry!Next
  <2> QED BY <1>2, <2>3, <2>4, <2>5, <2>6 DEF Rename
<1>3. CASE LoginSaved \/ RevokeSaved
  <2>1. /\ UNCHANGED <<asked, disk>>
        /\ \/ told' = told \cup {[what |-> "enrolled", dev |-> saving.dev]}
           \/ told' = told \cup {[what |-> "revoked", dev |-> saving.dev]}
    BY <1>3 DEF LoginSaved, RevokeSaved
  <2>2. {b \in told' : b.what = "committed"} = {b \in told : b.what = "committed"}
    BY <2>1
  <2> QED BY <2>1, <2>2 DEF Registry!vars, NoPairs
<1>4. ASSUME NEW d \in Device, NEW p \in PairId,
             disk # None, d \notin disk.revoked, disk.pairs[p] # None,
             d \in {disk.pairs[p].host, disk.pairs[p].guest},
             told' = told \cup {[what |-> "committed", dev |-> d, pair |-> p]},
             UNCHANGED <<asked, disk>>
      PROVE  Registry!Next
  <2>1. {b \in told' : b.what = "committed"}
          = {b \in told : b.what = "committed"} \cup {[what |-> "committed", dev |-> d, pair |-> p]}
    BY <1>4
  <2>2. {<<a.dev, a.pair>> : a \in {b \in told' : b.what = "committed"}}
          = {<<a.dev, a.pair>> : a \in {b \in told : b.what = "committed"}} \cup {<<d, p>>}
    <3> DEFINE x == [what |-> "committed", dev |-> d, pair |-> p]
               old == {b \in told : b.what = "committed"}
               new == {b \in told' : b.what = "committed"}
    <3>1. x.dev = d /\ x.pair = p /\ new = old \cup {x}
      BY <2>1
    <3> HIDE DEF x, old, new
    <3>2. {<<a.dev, a.pair>> : a \in new} = {<<a.dev, a.pair>> : a \in old} \cup {<<x.dev, x.pair>>}
      BY <3>1, Zenon
    <3> QED BY <3>1, <3>2, Zenon DEF old, new
  <2>3. Registry!Answer(d, p)
    BY <1>4, <2>2 DEF Registry!Answer, NoPairs
  <2> QED BY <2>3 DEF Registry!Next
<1>5. CASE CommitSaved
  <2>1. /\ saving.op = "commit" /\ saving.renamed /\ disk = MemoryImage
        /\ told' = told \cup {[what |-> "committed", dev |-> saving.dev, pair |-> saving.pair]}
        /\ UNCHANGED <<asked, disk>>
    BY <1>5 DEF CommitSaved, DiskInv
  <2>2. saving \in CommitSave /\ rooms[saving.room] \in Room
    BY <2>1 DEF SavingInv, TypeOK, CommitSave
  <2>3. /\ pairs[saving.pair] = [host |-> rooms[saving.room].host,
                                 guest |-> rooms[saving.room].guest]
        /\ rooms[saving.room].guest # None
        /\ saving.dev \in {rooms[saving.room].host, rooms[saving.room].guest}
    BY <2>1 DEF SavingInv
  <2>4. pairs[saving.pair] # None
    <3>1. pairs[saving.pair] \in Pair
      BY <2>2, <2>3 DEF Room, Pair
    <3> QED BY <3>1, NoneAssumption
  <2>5. saving.dev \notin revoked
    <3>1. saving.room \in RoomsOf(saving.dev)
      BY <2>2, <2>3, NoneAssumption DEF RoomsOf, CommitSave
    <3> QED BY <2>1, <3>1 DEF RevokedInv
  <2>6. saving.dev \in Device /\ saving.pair \in PairId /\ disk # None
    BY <2>1, <2>2, KeptType, NoneAssumption DEF CommitSave
  <2> QED BY <1>4, <2>1, <2>3, <2>4, <2>5, <2>6 DEF MemoryImage
<1>6. ASSUME NEW d \in Device, NEW r \in RoomId, NEW p \in PairId, CommitRetried(d, r, p)
      PROVE Registry!Next
  BY <1>4, <1>6, HandledNotBarred DEF CommitRetried, MemoryImage
<1>7. ASSUME NEW d \in Device, NEW r \in RoomId, NEW p \in PairId,
             CommitHalf(d, r, p) \/ CommitBoth(d, r, p)
      PROVE Registry!Next
  <2>1. /\ disk # None /\ d \notin disk.revoked
        /\ asked' = asked \cup {<<d, r, p>>}
        /\ UNCHANGED <<disk, told>>
    BY <1>7, HandledNotBarred DEF CommitHalf, CommitBoth
  <2>2. {<<a[1], a[3]>> : a \in asked'} = {<<a[1], a[3]>> : a \in asked} \cup {<<d, p>>}
    <3> DEFINE x == <<d, r, p>>
    <3>1. x[1] = d /\ x[3] = p /\ asked' = asked \cup {x}
      BY <2>1
    <3> HIDE DEF x
    <3>2. {<<a[1], a[3]>> : a \in asked'} = {<<a[1], a[3]>> : a \in asked} \cup {<<x[1], x[3]>>}
      BY <3>1, Zenon
    <3> QED BY <3>1, <3>2, Zenon
  <2>3. Registry!Submit(d, p)
    BY <2>1, <2>2 DEF Registry!Submit, NoPairs
  <2> QED BY <2>3 DEF Registry!Next
<1> QED
  <2> USE Stutter
  <2>1. CASE Start \/ Close \/ Crash \/ CleanupExpired \/ UNCHANGED vars
    BY <2>1 DEF Start, Close, Crash, Stopped, CleanupExpired, vars
  <2>2. CASE LoginSaveFails \/ RevokeSaveFails \/ CommitSaveFails
    BY <2>2 DEF LoginSaveFails, RevokeSaveFails, CommitSaveFails
  <2>3. ASSUME NEW d \in Device,
               Login(d) \/ Authenticate(d) \/ RequestRefused(d) \/ Revoke(d)
        PROVE UNCHANGED Registry!vars
    BY <2>3 DEF Login, Authenticate, RequestRefused, Revoke
  <2>4. ASSUME NEW d \in Device, NEW r \in RoomId,
               CreateRoom(d, r) \/ JoinRoom(d, r)
        PROVE UNCHANGED Registry!vars
    BY <2>4 DEF CreateRoom, JoinRoom
  <2>5. ASSUME NEW d \in Device, NEW k \in RelayKey, RegisterKey(d, k)
        PROVE UNCHANGED Registry!vars
    BY <2>5 DEF RegisterKey
  <2>6. ASSUME NEW k \in RelayKey, DropLease(k) \/ LeaseTimesOut(k)
        PROVE UNCHANGED Registry!vars
    BY <2>6 DEF DropLease, LeaseTimesOut
  <2>7. ASSUME NEW r \in RoomId, RoomTimesOut(r) PROVE UNCHANGED Registry!vars
    BY <2>7 DEF RoomTimesOut
  <2> QED
    BY <1>1, <1>2, <1>3, <1>5, <1>6, <1>7, <2>1, <2>2, <2>3, <2>4, <2>5, <2>6, <2>7
       DEF Next

\* The service implements the abstract registry: durable bindings are made
\* once, by consent of both devices, and only told when they are durable.
THEOREM Implements == Spec => ImplementsRegistry
<1>1. Init => Registry!Init
  BY DEF Init, Registry!Init, NoPairs
<1>2. IInv /\ [Next]_vars => [Registry!Next]_Registry!vars
  BY RegistryStep
<1> QED BY <1>1, <1>2, Inductive, PTL DEF Spec, ImplementsRegistry, Registry!Spec

-----------------------------------------------------------------------------
(* Relay leases.                                                           *)

HeldBy(d) == {k \in RelayKey : Held(k) # None /\ Held(k).owner = d}

\* A stopped service has no leases; while a revocation is being saved the
\* leases it took away are nowhere else; a device holds no more than its share.
LeaseInv ==
    /\ ~up => leases = NoLeases
    /\ saving.op = "revoke" =>
         \A k \in RelayKey : saving.removed[k] # None => leases[k] = None
    /\ \A d \in Device : Cardinality(HeldBy(d)) <= MaxRelayKeys

\* What one step may do to who holds k.
Keeps(k) ==
    (up' /\ Held(k) # None /\ ~Held(k).expired)
        => \/ Held(k).owner \in disk'.revoked
           \/ Held(k)' # None /\ Held(k)'.owner = Held(k).owner
NoNewHolder(k) ==
    Held(k)' # None => Held(k) # None /\ Held(k)'.owner = Held(k).owner

\* No step but a registration gives a key a holder, and none takes it away
\* from its holder unless the lease has expired or the holder is revoked.
LEMMA HeldStep ==
    ASSUME IInv, LeaseInv, [Next]_vars, NEW k \in RelayKey
    PROVE  /\ Keeps(k)
           /\ NoNewHolder(k) \/ \E d \in Device : RegisterKey(d, k)
<1> USE SavingKind DEF IInv
<1> DEFINE Good == Keeps(k) /\ NoNewHolder(k)
<1>1. ASSUME UNCHANGED leases,
             saving'.op = "revoke" <=> saving.op = "revoke",
             saving.op = "revoke" => saving'.removed = saving.removed
      PROVE  Good
  <2>1. Held(k)' = Held(k)
    BY <1>1 DEF Held
  <2> QED BY <2>1 DEF Keeps, NoNewHolder
<1>2. UNCHANGED <<leases, saving>> => Good
  BY <1>1
<1>3. CASE FirstStart \/ Start \/ Close \/ Crash
  <2>1. Held(k)' = None
    BY <1>3 DEF FirstStart, Start, Close, Crash, Stopped, MemoryFrom, Held, NoLeases,
                SavingInv, Idle
  <2>2. up' => Held(k) = None
    BY <1>3 DEF FirstStart, Start, Close, Crash, Stopped, LeaseInv, Held, NoLeases,
                SavingInv, Idle
  <2> QED BY <2>1, <2>2 DEF Keeps, NoNewHolder
<1>4. CASE Rename
  <2>1. /\ saving'.op = saving.op
        /\ saving.op = "revoke" => saving'.removed = saving.removed
    BY <1>4 DEF Rename, LoginSave, RevokeSave, CommitSave
  <2> QED BY <1>1, <1>4, <2>1 DEF Rename, memory
<1>5. CASE LoginSaveFails \/ CommitSaveFails \/ LoginSaved \/ CommitSaved
  BY <1>1, <1>5 DEF LoginSaveFails, CommitSaveFails, LoginSaved, CommitSaved, memory, Idle
<1>6. CASE RevokeSaveFails
  <2>1. Held(k)' = Held(k)
    BY <1>6 DEF RevokeSaveFails, Held, Idle
  <2> QED BY <2>1 DEF Keeps, NoNewHolder
<1>7. CASE RevokeSaved
  <2>1. Held(k)' = leases[k]
    BY <1>7 DEF RevokeSaved, Held, Idle
  <2>2. saving.dev \in disk'.revoked
    BY <1>7 DEF RevokeSaved, SavingInv, DiskInv, MemoryImage
  <2>3. /\ saving.removed[k] # None => saving.removed[k].owner = saving.dev
        /\ saving.removed[k] # None => leases[k] = None
    BY <1>7 DEF RevokeSaved, SavingInv, LeaseInv
  <2> QED BY <1>7, <2>1, <2>2, <2>3 DEF Keeps, NoNewHolder, Held, RevokeSaved
<1>8. CASE CleanupExpired
  BY <1>8 DEF CleanupExpired, Keeps, NoNewHolder, Held, MuFree, LiveLeases
<1>9. ASSUME NEW d \in Device, Login(d) PROVE Good
  BY <1>1, <1>9 DEF Login, MuFree
<1>10. ASSUME NEW d \in Device, Revoke(d) PROVE Good
  <2>1. Held(k)' = Held(k)
    BY <1>10 DEF Revoke, MuFree, Held
  <2> QED BY <2>1 DEF Keeps, NoNewHolder
<1>11. ASSUME NEW d \in Device, NEW r \in RoomId, NEW p \in PairId, CommitBoth(d, r, p)
       PROVE Good
  BY <1>1, <1>11 DEF CommitBoth, Handling, MuFree
<1>12. ASSUME NEW d \in Device, NEW j \in RelayKey, RegisterKey(d, j)
       PROVE Keeps(k) /\ (NoNewHolder(k) \/ RegisterKey(d, k))
  <2>1. /\ LiveLeases[j] = None \/ LiveLeases[j].owner = d
        /\ leases' = [LiveLeases EXCEPT ![j] = [owner |-> d, expired |-> FALSE]]
        /\ saving.op = "idle" /\ UNCHANGED saving
    BY <1>12 DEF RegisterKey, Handling, MuFree
  <2>2. Held(k) = leases[k] /\ Held(k)' = leases'[k]
    BY <2>1 DEF Held
  <2>3. CASE k # j
    BY <2>1, <2>2, <2>3 DEF Keeps, NoNewHolder, LiveLeases
  <2>4. CASE k = j
    <3>1. leases'[k] = [owner |-> d, expired |-> FALSE]
      BY <2>1, <2>4 DEF LiveLeases
    <3>2. leases'[k] # None
      <4>1. leases'[k] \in Lease
        BY <3>1 DEF Lease
      <4> QED BY <4>1, NoneAssumption
    <3> QED BY <1>12, <2>1, <2>2, <2>4, <3>1, <3>2 DEF Keeps, LiveLeases
  <2> QED BY <2>3, <2>4
<1>13. ASSUME NEW j \in RelayKey, DropLease(j) PROVE Good
  <2>1. /\ leases[j] # None
        /\ leases[j].owner \in revoked \/ leases[j].expired
        /\ leases' = [leases EXCEPT ![j] = None]
        /\ saving.op = "idle" /\ UNCHANGED saving
    BY <1>13 DEF DropLease, Admitted, MuFree
  <2>2. leases[j].owner \notin revoked
    BY <2>1 DEF RevokedInv, LeasesOf
  <2>3. Held(k) = leases[k] /\ Held(k)' = leases'[k]
    BY <2>1 DEF Held
  <2> QED BY <2>1, <2>2, <2>3 DEF Keeps, NoNewHolder, TypeOK
<1>14. ASSUME NEW j \in RelayKey, LeaseTimesOut(j) PROVE Good
  <2>1. /\ leases[j] \in Lease
        /\ leases' = [leases EXCEPT ![j].expired = TRUE]
        /\ UNCHANGED saving
    BY <1>14 DEF LeaseTimesOut, TypeOK
  <2>2. /\ leases'[k] = None <=> leases[k] = None
        /\ leases[k] # None => leases'[k].owner = leases[k].owner
    BY <2>1, NoneAssumption DEF TypeOK, Lease
  <2> QED BY <2>1, <2>2 DEF Keeps, NoNewHolder, Held
<1> QED
  <2>1. CASE UNCHANGED vars
    BY <1>2, <2>1 DEF vars, memory
  <2>2. ASSUME NEW d \in Device, Authenticate(d) \/ RequestRefused(d) PROVE Good
    BY <1>2, <2>2 DEF Authenticate, RequestRefused, memory
  <2>3. ASSUME NEW d \in Device, NEW r \in RoomId, CreateRoom(d, r) \/ JoinRoom(d, r)
        PROVE Good
    BY <1>2, <2>3 DEF CreateRoom, JoinRoom
  <2>4. ASSUME NEW d \in Device, NEW r \in RoomId, NEW p \in PairId,
               CommitRetried(d, r, p) \/ CommitHalf(d, r, p)
        PROVE Good
    BY <1>2, <2>4 DEF CommitRetried, CommitHalf, memory
  <2>5. ASSUME NEW r \in RoomId, RoomTimesOut(r) PROVE Good
    BY <1>2, <2>5 DEF RoomTimesOut
  <2> HIDE DEF Keeps, NoNewHolder
  <2> QED
    BY <1>3, <1>4, <1>5, <1>6, <1>7, <1>8, <1>9, <1>10, <1>11, <1>12, <1>13, <1>14,
       <2>1, <2>2, <2>3, <2>4, <2>5 DEF Next

\* The share of leases of a device is a number.
LEMMA HeldByFinite ==
    ASSUME NEW d
    PROVE  /\ IsFiniteSet(HeldBy(d)) /\ Cardinality(HeldBy(d)) \in Nat
           /\ IsFiniteSet(HeldBy(d))' /\ Cardinality(HeldBy(d))' \in Nat
           /\ MaxRelayKeys \in Nat
<1>1. HeldBy(d) \in SUBSET RelayKey /\ HeldBy(d)' \in SUBSET RelayKey
  BY DEF HeldBy
<1>2. IsFiniteSet(HeldBy(d)) /\ IsFiniteSet(HeldBy(d)')
  BY <1>1, FS_Subset, FiniteAssumption
<1>3. Cardinality(HeldBy(d)) \in Nat /\ Cardinality(HeldBy(d)') \in Nat
  BY <1>2, FS_CardinalityType
<1> QED BY <1>2, <1>3, LimitAssumption

\* While no revocation is being saved, what is held is what the map holds.
LEMMA HeldIsMap ==
    ASSUME saving.op # "revoke", NEW d
    PROVE  HeldBy(d) = LeasesOf(leases, d)
  BY DEF HeldBy, LeasesOf, Held

\* Every step keeps what is known of the leases.
LEMMA LeaseStep ==
    ASSUME IInv, LeaseInv, [Next]_vars
    PROVE  LeaseInv'
<1> USE SavingKind DEF IInv
<1>1. \A d \in Device : (Cardinality(HeldBy(d)) <= MaxRelayKeys)'
  <2> SUFFICES ASSUME NEW d \in Device
               PROVE  Cardinality(HeldBy(d))' <= MaxRelayKeys
    OBVIOUS
  <2>1. CASE HeldBy(d)' \subseteq HeldBy(d)
    <3>1. Cardinality(HeldBy(d)') <= Cardinality(HeldBy(d))
      BY <2>1, HeldByFinite, FS_Subset
    <3> QED BY <3>1, HeldByFinite DEF LeaseInv
  <2>2. ASSUME NEW e \in Device, NEW j \in RelayKey, RegisterKey(e, j)
        PROVE  Cardinality(HeldBy(d)') <= MaxRelayKeys
    <3>1. /\ leases' = [LiveLeases EXCEPT ![j] = [owner |-> e, expired |-> FALSE]]
          /\ saving.op # "revoke" /\ saving'.op # "revoke"
          /\ IF LiveLeases[j] = None
               THEN Cardinality(LeasesOf(LiveLeases, e)) < MaxRelayKeys
               ELSE LiveLeases[j].owner = e
      BY <2>2 DEF RegisterKey, Handling, MuFree
    <3>2. [owner |-> e, expired |-> FALSE] # None
      <4>1. [owner |-> e, expired |-> FALSE] \in Lease
        BY DEF Lease
      <4> QED BY <4>1, NoneAssumption
    <3>3. /\ LeasesOf(LiveLeases, d) \subseteq HeldBy(d)
          /\ HeldBy(d)' = LeasesOf(leases', d)
      BY <3>1, HeldIsMap DEF HeldBy, LeasesOf, LiveLeases, Held
    <3>4. CASE d # e \/ LiveLeases[j] # None
      <4>1. HeldBy(d)' \subseteq HeldBy(d)
        BY <3>1, <3>2, <3>3, <3>4 DEF LeasesOf, LiveLeases
      <4> QED BY <2>1, <4>1
    <3>5. CASE d = e /\ LiveLeases[j] = None
      <4> DEFINE L == LeasesOf(LiveLeases, d)
      <4>1. HeldBy(d)' = L \cup {j} /\ j \notin L
        BY <3>1, <3>2, <3>3, <3>5 DEF LeasesOf, LiveLeases
      <4>2. IsFiniteSet(L)
        BY <3>3, HeldByFinite, FS_Subset
      <4>3. Cardinality(L) \in Nat /\ Cardinality(L \cup {j}) = Cardinality(L) + 1
        BY <4>1, <4>2, FS_CardinalityType, FS_AddElement
      <4>4. Cardinality(L) < MaxRelayKeys
        BY <3>1, <3>5
      <4> HIDE DEF L
      <4> QED BY <4>1, <4>3, <4>4, HeldByFinite
    <3> QED BY <3>4, <3>5
  <2>3. CASE \A k \in RelayKey : NoNewHolder(k)
    <3>1. HeldBy(d)' \subseteq HeldBy(d)
      BY <2>3 DEF NoNewHolder, HeldBy
    <3> QED BY <2>1, <3>1
  <2> QED BY <2>2, <2>3, HeldStep
<1> DEFINE Rest == /\ ~up => leases = NoLeases
                   /\ saving.op = "revoke" =>
                        \A k \in RelayKey : saving.removed[k] # None => leases[k] = None
<1>2. Rest'
  <2>1. up' /\ saving' = Idle => Rest'
    BY DEF Idle
  <2>2. UNCHANGED <<up, leases, saving>> => Rest'
    BY DEF LeaseInv
  <2>3. CASE FirstStart \/ Start
    BY <2>1, <2>3 DEF FirstStart, Start, SavingInv
  <2>4. CASE Close \/ Crash
    BY <2>4 DEF Close, Crash, Stopped, MemoryFrom, Idle
  <2>5. CASE Rename
    <3>1. /\ saving'.op = saving.op /\ UNCHANGED leases /\ up'
          /\ saving.op = "revoke" => saving'.removed = saving.removed
      BY <2>5 DEF Rename, memory, LoginSave, RevokeSave, CommitSave
    <3> QED BY <3>1 DEF LeaseInv
  <2>6. CASE LoginSaveFails \/ RevokeSaveFails \/ CommitSaveFails
    BY <2>1, <2>6 DEF LoginSaveFails, RevokeSaveFails, CommitSaveFails
  <2>7. CASE LoginSaved \/ RevokeSaved \/ CommitSaved
    BY <2>1, <2>7 DEF LoginSaved, RevokeSaved, CommitSaved
  <2>8. CASE CleanupExpired
    BY <2>1, <2>8 DEF CleanupExpired, MuFree
  <2>9. ASSUME NEW d \in Device, Login(d) PROVE Rest'
    BY <2>9 DEF Login, MuFree
  <2>10. ASSUME NEW d \in Device, Authenticate(d) \/ RequestRefused(d) PROVE Rest'
    BY <2>1, <2>10 DEF Authenticate, RequestRefused, MuFree
  <2>11. ASSUME NEW d \in Device, Revoke(d) PROVE Rest'
    BY <2>11 DEF Revoke, MuFree
  <2>12. ASSUME NEW d \in Device, NEW r \in RoomId, CreateRoom(d, r) \/ JoinRoom(d, r)
         PROVE Rest'
    BY <2>1, <2>12 DEF CreateRoom, JoinRoom, Handling, MuFree
  <2>13. ASSUME NEW d \in Device, NEW r \in RoomId, NEW p \in PairId,
                CommitRetried(d, r, p) \/ CommitHalf(d, r, p)
         PROVE Rest'
    BY <2>1, <2>13 DEF CommitRetried, CommitHalf, Handling, MuFree
  <2>14. ASSUME NEW d \in Device, NEW r \in RoomId, NEW p \in PairId, CommitBoth(d, r, p)
         PROVE Rest'
    BY <2>14 DEF CommitBoth, Handling, MuFree
  <2>15. ASSUME NEW d \in Device, NEW k \in RelayKey, RegisterKey(d, k) PROVE Rest'
    BY <2>1, <2>15 DEF RegisterKey, Handling, MuFree
  <2>16. ASSUME NEW k \in RelayKey, DropLease(k) PROVE Rest'
    BY <2>1, <2>16 DEF DropLease, MuFree
  <2>17. ASSUME NEW k \in RelayKey, LeaseTimesOut(k) PROVE Rest'
    BY <2>17 DEF LeaseTimesOut, LeaseInv, NoLeases, TypeOK
  <2>18. ASSUME NEW r \in RoomId, RoomTimesOut(r) PROVE Rest'
    BY <2>2, <2>18 DEF RoomTimesOut
  <2>19. CASE UNCHANGED vars
    BY <2>2, <2>19 DEF vars, memory
  <2> HIDE DEF Rest
  <2> QED
    BY <2>3, <2>4, <2>5, <2>6, <2>7, <2>8, <2>9, <2>10, <2>11, <2>12, <2>13, <2>14,
       <2>15, <2>16, <2>17, <2>18, <2>19 DEF Next
<1> QED BY <1>1, <1>2 DEF LeaseInv

\* The inductive invariant with its part about leases.
LEMMA LeaseInductive == Spec => [](IInv /\ LeaseInv)
<1>1. Init => LeaseInv
  <2> SUFFICES ASSUME Init PROVE LeaseInv
    OBVIOUS
  <2>1. \A d \in Device : HeldBy(d) = {}
    BY DEF Init, HeldBy, Held, NoLeases, Idle
  <2> QED BY <2>1, HeldByFinite, FS_EmptySet DEF LeaseInv, Init, Idle
<1>2. IInv /\ LeaseInv /\ [Next]_vars => LeaseInv'
  BY LeaseStep
<1> QED BY <1>1, <1>2, Inductive, PTL DEF Spec

\* No device ever holds more relay keys than its share.
THEOREM LeasesLimited == Spec => []LeaseLimit
<1>1. ASSUME IInv, LeaseInv PROVE LeaseLimit
  <2> SUFFICES ASSUME NEW d \in Device
               PROVE  Cardinality(LeasesOf(leases, d)) <= MaxRelayKeys
    BY DEF LeaseLimit
  <2>1. LeasesOf(leases, d) \subseteq HeldBy(d)
    BY <1>1 DEF LeaseInv, LeasesOf, HeldBy, Held
  <2>2. /\ IsFiniteSet(LeasesOf(leases, d))
        /\ Cardinality(LeasesOf(leases, d)) <= Cardinality(HeldBy(d))
    BY <2>1, HeldByFinite, FS_Subset
  <2>3. Cardinality(LeasesOf(leases, d)) \in Nat
    BY <2>2, FS_CardinalityType
  <2> QED BY <1>1, <2>2, <2>3, HeldByFinite DEF LeaseInv
<1> QED BY <1>1, LeaseInductive, PTL

\* A lease is its owner's until it expires or the owner is durably revoked.
THEOREM LeasesKept == Spec => LeaseKept
<1>1. IInv /\ LeaseInv /\ [Next]_vars =>
        [\A k \in RelayKey :
          (up' /\ Held(k) # None /\ ~Held(k).expired)
              => \/ Held(k).owner \in disk'.revoked
                 \/ Held(k)' # None /\ Held(k)'.owner = Held(k).owner]_vars
  BY HeldStep DEF Keeps
<1> QED BY <1>1, LeaseInductive, PTL DEF Spec, LeaseKept
-----------------------------------------------------------------------------
(* Room counters.                                                          *)

\* The rooms of rs that d hosts.
Hosts(rs, d) == {r \in RoomId : rs[r] # None /\ rs[r].host = d}

LEMMA HostsFinite ==
    ASSUME NEW rs, NEW d
    PROVE  IsFiniteSet(Hosts(rs, d)) /\ Cardinality(Hosts(rs, d)) \in Nat
<1>1. Hosts(rs, d) \in SUBSET RoomId
  BY DEF Hosts
<1> QED BY <1>1, FS_Subset, FS_CardinalityType, FiniteAssumption

\* The property in these terms.
LEMMA CountsAreHosts ==
    RoomCountsExact <=> \A d \in Device : roomCounts[d] = Cardinality(Hosts(rooms, d))
<1>1. \A d : HostedBy(d, {r \in RoomId : rooms[r] # None}) = Hosts(rooms, d)
  BY DEF HostedBy, Hosts
<1> QED BY <1>1 DEF RoomCountsExact

\* The counters stay exact when any set of existing rooms is removed.
LEMMA CountsWithoutExact ==
    ASSUME RoomCountsExact, NEW R \in SUBSET RoomId, \A r \in R : rooms[r] # None,
           NEW d \in Device
    PROVE  CountsWithout(R)[d] = Cardinality(Hosts(Without(R), d))
<1> DEFINE H == Hosts(rooms, d)
<1>1. Hosts(Without(R), d) = H \ R
  BY DEF Hosts, Without
<1>2. HostedBy(d, R) = H \cap R
  BY DEF Hosts, HostedBy
<1>3. IsFiniteSet(H) /\ Cardinality(H) \in Nat
  BY HostsFinite
<1>4. Cardinality(H \ R) = Cardinality(H) - Cardinality(H \cap R)
  <2> HIDE DEF H
  <2> QED BY <1>3, FS_Difference
<1>5. Cardinality(H \cap R) \in Nat /\ Cardinality(H \ R) \in Nat
  <2> HIDE DEF H
  <2>1. H \cap R \in SUBSET H /\ H \ R \in SUBSET H
    OBVIOUS
  <2>2. IsFiniteSet(H \cap R) /\ IsFiniteSet(H \ R)
    BY <1>3, <2>1, FS_Subset
  <2> QED BY <2>2, FS_CardinalityType
<1>6. roomCounts[d] = Cardinality(H)
  BY CountsAreHosts
<1>7. CountsWithout(R)[d] = IF roomCounts[d] > Cardinality(HostedBy(d, R))
                            THEN roomCounts[d] - Cardinality(HostedBy(d, R)) ELSE 0
  BY DEF CountsWithout
<1> HIDE DEF H
<1> QED BY <1>1, <1>2, <1>3, <1>4, <1>5, <1>6, <1>7

\* Every step keeps the counters exact.
LEMMA CountStep ==
    ASSUME IInv, RoomCountsExact, [Next]_vars
    PROVE  RoomCountsExact'
<1> USE SavingKind DEF IInv
<1> SUFFICES ASSUME NEW d \in Device
             PROVE  roomCounts'[d] = Cardinality(Hosts(rooms', d))
  <2>1. RoomCountsExact' <=> \A d \in Device : roomCounts'[d] = Cardinality(Hosts(rooms', d))
    <3>1. \A d : HostedBy(d, {r \in RoomId : rooms[r] # None})' = Hosts(rooms', d)
      BY DEF HostedBy, Hosts
    <3> QED BY <3>1 DEF RoomCountsExact
  <2> QED BY <2>1
<1> DEFINE Exact == roomCounts'[d] = Cardinality(Hosts(rooms', d))
<1>1. ASSUME UNCHANGED roomCounts,
             \A r \in RoomId : /\ rooms'[r] = None <=> rooms[r] = None
                               /\ rooms[r] # None => rooms'[r].host = rooms[r].host
      PROVE  Exact
  <2>1. Hosts(rooms', d) = Hosts(rooms, d)
    BY <1>1 DEF Hosts
  <2> QED BY <1>1, <2>1, CountsAreHosts
<1>2. UNCHANGED <<rooms, roomCounts>> => Exact
  BY <1>1
<1>3. CASE FirstStart \/ Start \/ Close \/ Crash
  <2>1. rooms' = NoRooms /\ roomCounts' = ZeroCounts
    BY <1>3 DEF FirstStart, Start, Close, Crash, Stopped, MemoryFrom
  <2>2. Hosts(rooms', d) = {}
    BY <2>1 DEF Hosts, NoRooms
  <2> QED BY <2>1, <2>2, FS_EmptySet DEF ZeroCounts
<1>4. CASE CommitSaveFails
  <2>1. saving \in CommitSave /\ rooms[saving.room] \in Room
    BY <1>4 DEF CommitSaveFails, SavingInv, TypeOK, CommitSave
  <2>2. /\ rooms' = [rooms EXCEPT ![saving.room].hostCommit = saving.oldHost,
                                  ![saving.room].guestCommit = saving.oldGuest]
        /\ UNCHANGED roomCounts
    BY <1>4 DEF CommitSaveFails
  <2>3. /\ rooms'[saving.room] = [rooms[saving.room] EXCEPT !.hostCommit = saving.oldHost,
                                                            !.guestCommit = saving.oldGuest]
        /\ \A r \in RoomId \ {saving.room} : rooms'[r] = rooms[r]
    BY <2>1, <2>2 DEF TypeOK, CommitSave
  <2>4. /\ rooms'[saving.room] \in Room
        /\ rooms'[saving.room].host = rooms[saving.room].host
    BY <2>1, <2>3 DEF Room, CommitSave
  <2> QED BY <1>1, <2>1, <2>2, <2>3, <2>4, NoneAssumption
<1>5. CASE RevokeSaved
  <2>1. /\ rooms' = Without(RoomsOf(saving.dev))
        /\ roomCounts' = CountsWithout(RoomsOf(saving.dev))
    BY <1>5 DEF RevokeSaved
  <2> QED BY <2>1, CountsWithoutExact DEF RoomsOf
<1>6. CASE CleanupExpired
  <2>1. /\ rooms' = Without(ExpiredRooms)
        /\ roomCounts' = CountsWithout(ExpiredRooms)
    BY <1>6 DEF CleanupExpired
  <2> QED BY <2>1, CountsWithoutExact DEF ExpiredRooms
<1>7. ASSUME NEW e \in Device, NEW r \in RoomId, CreateRoom(e, r) PROVE Exact
  <2> DEFINE kept == Without(ExpiredRooms)
             counts == CountsWithout(ExpiredRooms)
             new == [host |-> e, guest |-> None, hostCommit |-> None,
                     guestCommit |-> None, expired |-> FALSE]
  <2>1. \A x \in Device : counts[x] = Cardinality(Hosts(kept, x))
    BY CountsWithoutExact DEF ExpiredRooms
  <2>2. kept \in [RoomId -> Room \cup {None}] /\ counts \in [Device -> Nat]
    BY KeptType, CountsWithoutType
  <2>3. \/ rooms' = kept /\ roomCounts' = counts
        \/ /\ rooms' = [kept EXCEPT ![r] = new] /\ roomCounts' = [counts EXCEPT ![e] = @ + 1]
           /\ kept[r] = None
    BY <1>7 DEF CreateRoom
  <2>4. new # None /\ new.host = e
    <3>1. new \in Room
      BY DEF Room
    <3> QED BY <3>1, NoneAssumption
  <2> HIDE DEF kept, counts, new
  <2>5. CASE rooms' = kept /\ roomCounts' = counts
    BY <2>1, <2>5
  <2>6. CASE /\ rooms' = [kept EXCEPT ![r] = new] /\ roomCounts' = [counts EXCEPT ![e] = @ + 1]
             /\ kept[r] = None
    <3>1. CASE d = e
      <4>1. Hosts(rooms', d) = Hosts(kept, d) \cup {r} /\ r \notin Hosts(kept, d)
        BY <2>2, <2>4, <2>6, <3>1 DEF Hosts
      <4>2. Cardinality(Hosts(rooms', d)) = Cardinality(Hosts(kept, d)) + 1
        BY <4>1, HostsFinite, FS_AddElement
      <4> QED BY <2>1, <2>2, <2>6, <3>1, <4>2
    <3>2. CASE d # e
      <4>1. Hosts(rooms', d) = Hosts(kept, d)
        BY <2>2, <2>4, <2>6, <3>2 DEF Hosts
      <4> QED BY <2>1, <2>2, <2>6, <3>2, <4>1
    <3> QED BY <3>1, <3>2
  <2> QED BY <2>3, <2>5, <2>6
<1>8. ASSUME NEW e \in Device, NEW r \in RoomId, JoinRoom(e, r) PROVE Exact
  <2>1. /\ rooms[r] \in Room
        /\ rooms' = [rooms EXCEPT ![r].guest = e]
        /\ UNCHANGED roomCounts
    BY <1>8 DEF JoinRoom, LiveRoom, TypeOK
  <2>2. rooms'[r] \in Room /\ rooms'[r].host = rooms[r].host
    BY <2>1 DEF TypeOK, Room
  <2> QED BY <1>1, <2>1, <2>2, NoneAssumption DEF TypeOK
<1>9. ASSUME NEW e \in Device, NEW r \in RoomId, NEW p \in PairId,
             CommitHalf(e, r, p) \/ CommitBoth(e, r, p)
      PROVE Exact
  <2>1. /\ rooms[r] \in Room
        /\ rooms' = [rooms EXCEPT ![r] = Submitted(rooms[r], e, p)]
        /\ UNCHANGED roomCounts
    BY <1>9 DEF CommitHalf, CommitBoth, MayCommit, LiveRoom, TypeOK
  <2>2. Submitted(rooms[r], e, p) \in Room
    BY <2>1, SubmittedType
  <2>3. Submitted(rooms[r], e, p).host = rooms[r].host
    BY <2>1 DEF Submitted, Room
  <2> QED BY <1>1, <2>1, <2>2, <2>3, NoneAssumption DEF TypeOK
<1>10. ASSUME NEW r \in RoomId, RoomTimesOut(r) PROVE Exact
  <2>1. /\ rooms[r] \in Room
        /\ rooms' = [rooms EXCEPT ![r].expired = TRUE]
        /\ UNCHANGED roomCounts
    BY <1>10 DEF RoomTimesOut, LiveRoom, TypeOK
  <2>2. rooms'[r] \in Room /\ rooms'[r].host = rooms[r].host
    BY <2>1 DEF TypeOK, Room
  <2> QED BY <1>1, <2>1, <2>2, NoneAssumption DEF TypeOK
<1> QED
  <2>1. CASE Rename \/ LoginSaveFails \/ RevokeSaveFails \/ LoginSaved \/ CommitSaved
             \/ UNCHANGED vars
    BY <1>2, <2>1 DEF Rename, LoginSaveFails, RevokeSaveFails, LoginSaved, CommitSaved,
                      vars, memory
  <2>2. ASSUME NEW e \in Device,
               Login(e) \/ Authenticate(e) \/ RequestRefused(e) \/ Revoke(e)
        PROVE Exact
    BY <1>2, <2>2 DEF Login, Authenticate, RequestRefused, Revoke, memory
  <2>3. ASSUME NEW e \in Device, NEW r \in RoomId, NEW p \in PairId, CommitRetried(e, r, p)
        PROVE Exact
    BY <1>2, <2>3 DEF CommitRetried, memory
  <2>4. ASSUME NEW e \in Device, NEW k \in RelayKey, RegisterKey(e, k) PROVE Exact
    BY <1>2, <2>4 DEF RegisterKey
  <2>5. ASSUME NEW k \in RelayKey, DropLease(k) \/ LeaseTimesOut(k) PROVE Exact
    BY <1>2, <2>5 DEF DropLease, LeaseTimesOut
  <2> QED
    BY <1>3, <1>4, <1>5, <1>6, <1>7, <1>8, <1>9, <1>10, <2>1, <2>2, <2>3, <2>4, <2>5 DEF Next

\* The counter that limits a host is exactly the number of its open rooms.
THEOREM CountsExact == Spec => []RoomCountsExact
<1>1. Init => RoomCountsExact
  <2> SUFFICES ASSUME Init, NEW d \in Device
               PROVE  roomCounts[d] = Cardinality(Hosts(rooms, d))
    BY CountsAreHosts
  <2>1. Hosts(rooms, d) = {}
    BY DEF Init, Hosts, NoRooms
  <2> QED BY <2>1, FS_EmptySet DEF Init, ZeroCounts
<1>2. IInv /\ RoomCountsExact /\ [Next]_vars => RoomCountsExact'
  BY CountStep
<1> QED BY <1>1, <1>2, Inductive, PTL DEF Spec
-----------------------------------------------------------------------------
(* The state file.                                                         *)

\* Devices that stay enrolled even if the login being saved fails.
Enrolled == IF saving.op = "login" THEN devices \ {saving.dev} ELSE devices

\* Everything the service remembers names enrolled devices.
MemberInv ==
    /\ ~up => devices = {}
    /\ authed \subseteq Enrolled
    /\ \A r \in RoomId : rooms[r] # None => /\ rooms[r].host \in Enrolled
                                            /\ rooms[r].guest \in Enrolled \cup {None}
    /\ \A p \in BoundPairs(pairs) : {pairs[p].host, pairs[p].guest} \subseteq Enrolled

\* Sets of pairs are finite.
LEMMA PairsFinite ==
    ASSUME NEW ps, NEW d
    PROVE  /\ IsFiniteSet(BoundPairs(ps)) /\ Cardinality(BoundPairs(ps)) \in Nat
           /\ IsFiniteSet(PairsOf(ps, d)) /\ Cardinality(PairsOf(ps, d)) \in Nat
<1>1. BoundPairs(ps) \in SUBSET PairId /\ PairsOf(ps, d) \in SUBSET PairId
  BY DEF BoundPairs, PairsOf
<1> QED BY <1>1, FS_Subset, FS_CardinalityType, FiniteAssumption

LEMMA EmptyLoadable == Loadable(EmptyImage)
<1>1. /\ EmptyImage.devices = {}
      /\ BoundPairs(EmptyImage.pairs) = {}
  BY DEF EmptyImage, NoPairs, BoundPairs
<1> QED BY <1>1, FS_EmptySet, LimitAssumption DEF Loadable

\* Every step keeps the members enrolled.
LEMMA MemberStep ==
    ASSUME IInv, MemberInv, DiskLoadable, [Next]_vars
    PROVE  MemberInv'
<1> USE SavingKind DEF IInv
<1>1. ASSUME Enrolled \subseteq Enrolled',
             up' \/ UNCHANGED <<up, devices>>,
             authed' \subseteq authed,
             \A r \in RoomId : rooms'[r] # None =>
                                 /\ rooms[r] # None
                                 /\ rooms'[r].host = rooms[r].host
                                 /\ rooms'[r].guest = rooms[r].guest,
             \A p \in PairId : pairs'[p] \in {None, pairs[p]}
      PROVE  MemberInv'
  <2>1. authed' \subseteq Enrolled' /\ (~up' => devices' = {})
    BY <1>1 DEF MemberInv
  <2>2. \A r \in RoomId : rooms'[r] # None => /\ rooms'[r].host \in Enrolled'
                                              /\ rooms'[r].guest \in Enrolled' \cup {None}
    BY <1>1 DEF MemberInv
  <2>3. \A p \in BoundPairs(pairs') : {pairs'[p].host, pairs'[p].guest} \subseteq Enrolled'
    BY <1>1 DEF MemberInv, BoundPairs
  <2> QED BY <2>1, <2>2, <2>3 DEF MemberInv
<1>2. ASSUME Enrolled \subseteq Enrolled', up' \/ UNCHANGED <<up, devices>>,
             authed' \subseteq authed, UNCHANGED <<rooms, pairs>>
      PROVE  MemberInv'
  BY <1>1, <1>2
<1>3. CASE Close \/ Crash
  BY <1>3 DEF Close, Crash, Stopped, MemoryFrom, EmptyImage, MemberInv, NoRooms, NoPairs,
              BoundPairs
<1>4. CASE FirstStart \/ Start
  <2>1. /\ up' /\ authed' = authed /\ saving = Idle /\ saving' = Idle /\ devices = {}
        /\ rooms' = NoRooms /\ devices' = disk'.devices /\ pairs' = disk'.pairs
        /\ Loadable(disk')
    BY <1>4, EmptyLoadable DEF FirstStart, Start, MemoryFrom, SavingInv, MemberInv
  <2>2. authed' = {} /\ Enrolled' = disk'.devices
    BY <2>1 DEF MemberInv, Enrolled, Idle
  <2> QED BY <2>1, <2>2 DEF MemberInv, NoRooms, Loadable
<1>5. CASE Rename
  <2>1. saving'.op = saving.op /\ (saving.op = "login" => saving'.dev = saving.dev)
    BY <1>5 DEF Rename, LoginSave, RevokeSave, CommitSave
  <2> QED BY <1>2, <1>5, <2>1 DEF Rename, memory, Enrolled
<1>6. CASE LoginSaveFails \/ LoginSaved
  BY <1>2, <1>6 DEF LoginSaveFails, LoginSaved, memory, Enrolled, Idle
<1>7. CASE RevokeSaveFails \/ CommitSaved
  BY <1>2, <1>7 DEF RevokeSaveFails, CommitSaved, memory, Enrolled, Idle
<1>8. CASE CommitSaveFails
  <2>1. saving \in CommitSave /\ rooms[saving.room] \in Room
    BY <1>8 DEF CommitSaveFails, SavingInv, TypeOK, CommitSave
  <2>2. /\ rooms' = [rooms EXCEPT ![saving.room].hostCommit = saving.oldHost,
                                  ![saving.room].guestCommit = saving.oldGuest]
        /\ pairs' = IF saving.created THEN [pairs EXCEPT ![saving.pair] = None] ELSE pairs
        /\ up' /\ UNCHANGED <<devices, authed>> /\ saving'.op # "login"
    BY <1>8 DEF CommitSaveFails, Idle
  <2>3. /\ rooms'[saving.room] = [rooms[saving.room] EXCEPT !.hostCommit = saving.oldHost,
                                                            !.guestCommit = saving.oldGuest]
        /\ \A r \in RoomId \ {saving.room} : rooms'[r] = rooms[r]
    BY <2>1, <2>2 DEF TypeOK, CommitSave
  <2>4. /\ rooms'[saving.room].guest = rooms[saving.room].guest
        /\ rooms'[saving.room].host = rooms[saving.room].host
    BY <2>1, <2>3 DEF Room, CommitSave
  <2>5. \A p \in PairId : pairs'[p] \in {None, pairs[p]}
    BY <2>2 DEF TypeOK
  <2>6. Enrolled \subseteq Enrolled'
    BY <2>2 DEF Enrolled
  <2> QED BY <1>1, <2>1, <2>2, <2>3, <2>4, <2>5, <2>6, NoneAssumption
<1>9. CASE RevokeSaved \/ CleanupExpired
  <2>1. \E R : rooms' = Without(R)
    BY <1>9 DEF RevokeSaved, CleanupExpired
  <2>2. up' /\ UNCHANGED <<devices, authed, pairs>> /\ saving'.op # "login"
    BY <1>9 DEF RevokeSaved, CleanupExpired, MuFree, Idle
  <2> QED BY <1>1, <2>1, <2>2 DEF Without, Enrolled
<1>10. ASSUME NEW d \in Device, Login(d) PROVE MemberInv'
  <2>1. Enrolled' = devices /\ Enrolled = devices
    BY <1>10 DEF Login, MuFree, Enrolled
  <2> QED BY <1>2, <1>10, <2>1 DEF Login, MuFree
<1>11. ASSUME NEW d \in Device, Authenticate(d) PROVE MemberInv'
  <2>1. /\ d \in devices /\ saving.op # "login"
        /\ authed' = authed \cup {d}
        /\ UNCHANGED <<up, devices, rooms, pairs, saving>>
    BY <1>11 DEF Authenticate, MuFree, memory
  <2> QED BY <2>1 DEF MemberInv, Enrolled
<1>12. ASSUME NEW d \in Device, RequestRefused(d) \/ Revoke(d) PROVE MemberInv'
  BY <1>2, <1>12 DEF RequestRefused, Revoke, MuFree, memory, Enrolled
<1>13. ASSUME NEW d \in Device, NEW r \in RoomId, CreateRoom(d, r) PROVE MemberInv'
  <2> DEFINE kept == Without(ExpiredRooms)
             new == [host |-> d, guest |-> None, hostCommit |-> None,
                     guestCommit |-> None, expired |-> FALSE]
  <2>1. /\ rooms' = kept \/ rooms' = [kept EXCEPT ![r] = new]
        /\ d \in authed /\ authed' = authed \ {d}
        /\ UNCHANGED <<up, devices, pairs, saving>>
    BY <1>13 DEF CreateRoom, Handling
  <2>2. \A x \in RoomId : rooms'[x] = None \/ rooms'[x] = rooms[x] \/ rooms'[x] = new
    <3>1. kept \in [RoomId -> Room \cup {None}] /\ \A x \in RoomId : kept[x] \in {None, rooms[x]}
      BY KeptType DEF Without
    <3> HIDE DEF kept, new
    <3> QED BY <2>1, <3>1
  <2>3. d \in Enrolled /\ Enrolled' = Enrolled
    BY <2>1 DEF MemberInv, Enrolled
  <2> QED BY <2>1, <2>2, <2>3 DEF MemberInv
<1>14. ASSUME NEW d \in Device, NEW r \in RoomId, JoinRoom(d, r) PROVE MemberInv'
  <2>1. /\ rooms[r] \in Room
        /\ rooms' = [rooms EXCEPT ![r].guest = d]
        /\ d \in authed /\ authed' = authed \ {d}
        /\ UNCHANGED <<up, devices, pairs, saving>>
    BY <1>14 DEF JoinRoom, Handling, LiveRoom, TypeOK
  <2>2. rooms'[r].host = rooms[r].host /\ rooms'[r].guest = d
    BY <2>1 DEF TypeOK, Room
  <2>3. d \in Enrolled /\ Enrolled' = Enrolled
    BY <2>1 DEF MemberInv, Enrolled
  <2>4. \A x \in RoomId \ {r} : rooms'[x] = rooms[x]
    BY <2>1 DEF TypeOK
  <2> QED BY <2>1, <2>2, <2>3, <2>4, NoneAssumption DEF MemberInv
<1>15. ASSUME NEW d \in Device, NEW r \in RoomId, NEW p \in PairId,
              CommitHalf(d, r, p) \/ CommitBoth(d, r, p)
       PROVE MemberInv'
  <2> DEFINE rm == Submitted(rooms[r], d, p)
  <2>1. /\ rooms[r] \in Room /\ up /\ saving.op # "login" /\ saving'.op # "login"
        /\ rooms' = [rooms EXCEPT ![r] = rm]
        /\ authed' = authed \ {d}
        /\ UNCHANGED <<up, devices>>
    BY <1>15 DEF CommitHalf, CommitBoth, MayCommit, LiveRoom, TypeOK, Handling, MuFree
  <2>2. \/ UNCHANGED pairs
        \/ /\ pairs' = [pairs EXCEPT ![p] = [host |-> rm.host, guest |-> rm.guest]]
           /\ CommittedId(rm) = p
    BY <1>15 DEF CommitHalf, CommitBoth
  <2>3. rm.host = rooms[r].host /\ rm.guest = rooms[r].guest
    BY <2>1 DEF Submitted, Room
  <2>4. CommittedId(rm) = p => rm.guest # None
    BY NoneAssumption DEF CommittedId
  <2>5. /\ rooms[r] # None
        /\ rooms'[r].host = rooms[r].host /\ rooms'[r].guest = rooms[r].guest
        /\ \A x \in RoomId \ {r} : rooms'[x] = rooms[x]
    BY <2>1, <2>3, NoneAssumption DEF TypeOK
  <2>6. Enrolled' = Enrolled /\ Enrolled = devices
    BY <2>1 DEF Enrolled
  <2>7. \A x \in BoundPairs(pairs') : {pairs'[x].host, pairs'[x].guest} \subseteq Enrolled
    <3>1. CASE UNCHANGED pairs
      BY <3>1 DEF MemberInv
    <3>2. CASE /\ pairs' = [pairs EXCEPT ![p] = [host |-> rm.host, guest |-> rm.guest]]
               /\ CommittedId(rm) = p
      <4>1. rm.host \in Enrolled /\ rm.guest \in Enrolled
        BY <2>3, <2>4, <2>5, <3>2 DEF MemberInv
      <4> HIDE DEF rm
      <4>2. /\ pairs'[p].host = rm.host /\ pairs'[p].guest = rm.guest
            /\ \A x \in PairId \ {p} : pairs'[x] = pairs[x]
        BY <3>2 DEF TypeOK
      <4> QED BY <4>1, <4>2 DEF MemberInv, BoundPairs
    <3> QED BY <2>2, <3>1, <3>2
  <2>8. \A x \in RoomId : rooms'[x] # None => /\ rooms'[x].host \in Enrolled
                                              /\ rooms'[x].guest \in Enrolled \cup {None}
    BY <2>5 DEF MemberInv
  <2>9. authed' \subseteq Enrolled
    BY <2>1 DEF MemberInv
  <2> HIDE DEF rm
  <2> QED BY <2>1, <2>6, <2>7, <2>8, <2>9 DEF MemberInv
<1>16. ASSUME NEW d \in Device, NEW r \in RoomId, NEW p \in PairId, CommitRetried(d, r, p)
       PROVE MemberInv'
  BY <1>2, <1>16 DEF CommitRetried, Handling, memory, Enrolled
<1>17. ASSUME NEW d \in Device, NEW k \in RelayKey, RegisterKey(d, k) PROVE MemberInv'
  BY <1>2, <1>17 DEF RegisterKey, Handling, Enrolled
<1>18. ASSUME NEW k \in RelayKey, DropLease(k) \/ LeaseTimesOut(k) PROVE MemberInv'
  BY <1>2, <1>18 DEF DropLease, LeaseTimesOut, Enrolled
<1>19. ASSUME NEW r \in RoomId, RoomTimesOut(r) PROVE MemberInv'
  <2>1. /\ rooms[r] \in Room
        /\ rooms' = [rooms EXCEPT ![r].expired = TRUE]
        /\ UNCHANGED <<up, devices, authed, pairs, saving>>
    BY <1>19 DEF RoomTimesOut, LiveRoom, TypeOK
  <2>2. /\ rooms'[r].host = rooms[r].host /\ rooms'[r].guest = rooms[r].guest
        /\ \A x \in RoomId \ {r} : rooms'[x] = rooms[x]
    BY <2>1 DEF TypeOK, Room
  <2> QED BY <1>1, <2>1, <2>2, NoneAssumption DEF Enrolled
<1>20. CASE UNCHANGED vars
  BY <1>2, <1>20 DEF vars, memory, Enrolled
<1> QED
  BY <1>3, <1>4, <1>5, <1>6, <1>7, <1>8, <1>9, <1>10, <1>11, <1>12, <1>13, <1>14,
     <1>15, <1>16, <1>17, <1>18, <1>19, <1>20 DEF Next

\* What is in memory can be loaded if its parts are within the limits.
LEMMA MemoryLoads ==
    ASSUME Cardinality(devices') <= MaxDevices,
           Cardinality(BoundPairs(pairs')) <= MaxPairs,
           \A p \in BoundPairs(pairs') :
              /\ pairs'[p].host # pairs'[p].guest
              /\ {pairs'[p].host, pairs'[p].guest} \subseteq devices',
           \A d \in devices' : Cardinality(PairsOf(pairs', d)) <= MaxPairsPerDevice
    PROVE  Loadable(MemoryImage)'
BY DEF Loadable, MemoryImage

\* Memory can always be saved in a form loadState accepts.
LEMMA LoadStep ==
    ASSUME IInv, MemberInv, Loadable(MemoryImage), DiskLoadable, [Next]_vars
    PROVE  Loadable(MemoryImage)'
<1> USE SavingKind DEF IInv
<1> DEFINE Good == Loadable(MemoryImage)'
<1>1. UNCHANGED <<devices, pairs>> => Good
  BY DEF Loadable, MemoryImage, BoundPairs, PairsOf
<1>2. CASE FirstStart \/ Close \/ Crash
  <2>1. devices' = EmptyImage.devices /\ pairs' = EmptyImage.pairs
    BY <1>2 DEF FirstStart, Close, Crash, Stopped, MemoryFrom
  <2> QED BY <2>1, EmptyLoadable DEF Loadable, MemoryImage, BoundPairs, PairsOf
<1>3. CASE Start
  BY <1>3 DEF Start, MemoryFrom, Loadable, MemoryImage, BoundPairs, PairsOf
<1>4. CASE LoginSaveFails
  <2>1. devices' = devices \ {saving.dev} /\ pairs' = pairs /\ saving.op = "login"
    BY <1>4 DEF LoginSaveFails
  <2>2. IsFiniteSet(devices)
    BY FS_Subset, FiniteAssumption DEF TypeOK
  <2>3. /\ Cardinality(devices') <= Cardinality(devices)
        /\ Cardinality(devices') \in Nat /\ Cardinality(devices) \in Nat
    BY <2>1, <2>2, FS_Subset, FS_CardinalityType
  <2>4. Cardinality(devices) <= MaxDevices /\ MaxDevices \in Nat
    BY LimitAssumption DEF Loadable, MemoryImage
  <2>5. \A p \in BoundPairs(pairs) : {pairs[p].host, pairs[p].guest} \subseteq devices'
    BY <2>1 DEF MemberInv, Enrolled
  <2>6. Cardinality(devices') <= MaxDevices
    BY <2>3, <2>4
  <2> QED BY <2>1, <2>5, <2>6 DEF Loadable, MemoryImage
<1>5. ASSUME NEW d \in Device, Login(d) PROVE Good
  <2>1. /\ devices' = devices \cup {d} /\ d \notin devices /\ UNCHANGED pairs
        /\ Cardinality(devices) < MaxDevices /\ saving = Idle
    BY <1>5 DEF Login, MuFree
  <2>2. IsFiniteSet(devices) /\ Cardinality(devices) \in Nat
    BY FS_Subset, FS_CardinalityType, FiniteAssumption DEF TypeOK
  <2>3. Cardinality(devices') = Cardinality(devices) + 1
    BY <2>1, <2>2, FS_AddElement
  <2>4. Cardinality(devices') <= MaxDevices
    BY <2>1, <2>2, <2>3, LimitAssumption
  <2>5. Cardinality(PairsOf(pairs, d)) <= MaxPairsPerDevice
    <3>1. PairsOf(pairs, d) = {}
      BY <2>1 DEF PairsOf, MemberInv, Enrolled, Idle
    <3> QED BY <3>1, FS_EmptySet, LimitAssumption
  <2> QED BY <2>1, <2>4, <2>5 DEF Loadable, MemoryImage
<1>6. CASE CommitSaveFails
  <2>1. /\ pairs' = IF saving.created THEN [pairs EXCEPT ![saving.pair] = None] ELSE pairs
        /\ UNCHANGED devices
    BY <1>6 DEF CommitSaveFails
  <2>2. \A p \in BoundPairs(pairs') : p \in BoundPairs(pairs) /\ pairs'[p] = pairs[p]
    BY <2>1 DEF TypeOK, BoundPairs
  <2>3. Cardinality(BoundPairs(pairs')) <= MaxPairs
    <3>1. BoundPairs(pairs') \in SUBSET BoundPairs(pairs)
      BY <2>2
    <3>2. Cardinality(BoundPairs(pairs')) <= Cardinality(BoundPairs(pairs))
      BY <3>1, PairsFinite, FS_Subset
    <3>3. Cardinality(BoundPairs(pairs)) <= MaxPairs /\ MaxPairs \in Nat
      BY LimitAssumption DEF Loadable, MemoryImage
    <3> QED BY <3>2, <3>3, PairsFinite
  <2>4. ASSUME NEW d \in devices
        PROVE  Cardinality(PairsOf(pairs', d)) <= MaxPairsPerDevice
    <3>1. PairsOf(pairs', d) \in SUBSET PairsOf(pairs, d)
      BY <2>2 DEF PairsOf
    <3>2. Cardinality(PairsOf(pairs', d)) <= Cardinality(PairsOf(pairs, d))
      BY <3>1, PairsFinite, FS_Subset
    <3>3. Cardinality(PairsOf(pairs, d)) <= MaxPairsPerDevice /\ MaxPairsPerDevice \in Nat
      BY LimitAssumption DEF Loadable, MemoryImage
    <3> QED BY <3>2, <3>3, PairsFinite
  <2>5. \A p \in BoundPairs(pairs') :
          /\ pairs'[p].host # pairs'[p].guest
          /\ {pairs'[p].host, pairs'[p].guest} \subseteq devices
    BY <2>2 DEF Loadable, MemoryImage
  <2>6. Cardinality(devices) <= MaxDevices
    BY DEF Loadable, MemoryImage
  <2> QED BY <2>1, <2>3, <2>4, <2>5, <2>6, MemoryLoads
<1>7. ASSUME NEW d \in Device, NEW r \in RoomId, NEW p \in PairId, CommitBoth(d, r, p)
      PROVE Good
  <2> DEFINE rm == Submitted(rooms[r], d, p)
             new == [host |-> rm.host, guest |-> rm.guest]
  <2>1. /\ rooms[r] \in Room /\ RoomInv(r) /\ rooms[r] # None
        /\ pairs[p] \in {None, [host |-> rooms[r].host, guest |-> rooms[r].guest]}
        /\ pairs' = [pairs EXCEPT ![p] = new]
        /\ CommittedId(rm) = p
        /\ pairs[p] = None => PairRoom(rm)
        /\ UNCHANGED devices /\ saving = Idle
    BY <1>7, NoneAssumption DEF CommitBoth, MayCommit, LiveRoom, TypeOK, Handling, MuFree
  <2>2. rm.host = rooms[r].host /\ rm.guest = rooms[r].guest
    BY <2>1 DEF Submitted, Room
  <2>3. rm.guest # None
    BY <2>1, NoneAssumption DEF CommittedId
  <2>4. /\ rm.host # rm.guest
        /\ {rm.host, rm.guest} \subseteq devices
        /\ new # None
    <3>1. rm.host \in devices /\ rm.guest \in devices /\ rm.host # rm.guest
      BY <2>1, <2>2, <2>3 DEF MemberInv, Enrolled, Idle, RoomInv
    <3>2. new \in Pair
      BY <3>1 DEF Pair, TypeOK
    <3> QED BY <3>1, <3>2, NoneAssumption
  <2>5. CASE pairs[p] # None
    <3>1. pairs' = pairs
      BY <2>1, <2>2, <2>5 DEF TypeOK
    <3> QED BY <1>1, <2>1, <3>1
  <2>6. CASE pairs[p] = None
    <3>1. PairRoom(rm)
      BY <2>1, <2>6
    <3> HIDE DEF rm
    <3>2. /\ pairs'[p] = new /\ new.host = rm.host /\ new.guest = rm.guest
          /\ \A x \in PairId \ {p} : pairs'[x] = pairs[x]
      BY <2>1 DEF TypeOK
    <3> HIDE DEF new
    <3>3. BoundPairs(pairs') = BoundPairs(pairs) \cup {p} /\ p \notin BoundPairs(pairs)
      BY <2>4, <2>6, <3>2 DEF BoundPairs
    <3>4. \A e : PairsOf(pairs', e) = IF e \in {rm.host, rm.guest}
                                      THEN PairsOf(pairs, e) \cup {p} ELSE PairsOf(pairs, e)
      BY <3>2, <3>3 DEF PairsOf, BoundPairs
    <3>5. Cardinality(BoundPairs(pairs')) <= MaxPairs
      <4>1. Cardinality(BoundPairs(pairs')) = Cardinality(BoundPairs(pairs)) + 1
        BY <3>3, PairsFinite, FS_AddElement
      <4>2. Cardinality(BoundPairs(pairs)) < MaxPairs /\ MaxPairs \in Nat
        BY <3>1, LimitAssumption DEF PairRoom
      <4> QED BY <4>1, <4>2, PairsFinite
    <3>6. ASSUME NEW e \in devices
          PROVE  Cardinality(PairsOf(pairs', e)) <= MaxPairsPerDevice
      <4>1. CASE e \in {rm.host, rm.guest}
        <5>1. Cardinality(PairsOf(pairs', e)) = Cardinality(PairsOf(pairs, e)) + 1
          <6>1. p \notin PairsOf(pairs, e)
            BY <3>3 DEF PairsOf
          <6> QED BY <3>4, <4>1, <6>1, PairsFinite, FS_AddElement
        <5>2. Cardinality(PairsOf(pairs, e)) < MaxPairsPerDevice /\ MaxPairsPerDevice \in Nat
          BY <3>1, <4>1, LimitAssumption DEF PairRoom
        <5> QED BY <5>1, <5>2, PairsFinite
      <4>2. CASE e \notin {rm.host, rm.guest}
        BY <3>4, <4>2 DEF Loadable, MemoryImage
      <4> QED BY <4>1, <4>2
    <3>7. \A x \in BoundPairs(pairs') :
            /\ pairs'[x].host # pairs'[x].guest
            /\ {pairs'[x].host, pairs'[x].guest} \subseteq devices
      BY <2>4, <3>2, <3>3 DEF Loadable, MemoryImage, BoundPairs
    <3>8. Cardinality(devices) <= MaxDevices
      BY DEF Loadable, MemoryImage
    <3> QED BY <2>1, <3>5, <3>6, <3>7, <3>8, MemoryLoads
  <2> QED BY <2>5, <2>6
<1> QED
  <2>1. CASE Rename \/ RevokeSaveFails \/ LoginSaved \/ RevokeSaved \/ CommitSaved
             \/ CleanupExpired \/ UNCHANGED vars
    BY <1>1, <2>1 DEF Rename, RevokeSaveFails, LoginSaved, RevokeSaved, CommitSaved,
                      CleanupExpired, vars, memory
  <2>2. ASSUME NEW d \in Device, Authenticate(d) \/ RequestRefused(d) \/ Revoke(d)
        PROVE Good
    BY <1>1, <2>2 DEF Authenticate, RequestRefused, Revoke, memory
  <2>3. ASSUME NEW d \in Device, NEW r \in RoomId, CreateRoom(d, r) \/ JoinRoom(d, r)
        PROVE Good
    BY <1>1, <2>3 DEF CreateRoom, JoinRoom
  <2>4. ASSUME NEW d \in Device, NEW r \in RoomId, NEW p \in PairId,
               CommitRetried(d, r, p) \/ CommitHalf(d, r, p)
        PROVE Good
    BY <1>1, <2>4 DEF CommitRetried, CommitHalf, memory
  <2>5. ASSUME NEW d \in Device, NEW k \in RelayKey, RegisterKey(d, k) PROVE Good
    BY <1>1, <2>5 DEF RegisterKey
  <2>6. ASSUME NEW k \in RelayKey, DropLease(k) \/ LeaseTimesOut(k) PROVE Good
    BY <1>1, <2>6 DEF DropLease, LeaseTimesOut
  <2>7. ASSUME NEW r \in RoomId, RoomTimesOut(r) PROVE Good
    BY <1>1, <2>7 DEF RoomTimesOut
  <2> QED
    BY <1>2, <1>3, <1>4, <1>5, <1>6, <1>7, <2>1, <2>2, <2>3, <2>4, <2>5, <2>6, <2>7
       DEF Next

\* The file changes only to what is in memory.
LEMMA DiskFromMemory ==
    ASSUME IInv, Loadable(MemoryImage), DiskLoadable, [Next]_vars
    PROVE  DiskLoadable'
<1>1. CASE UNCHANGED disk
  BY <1>1 DEF DiskLoadable, Loadable, BoundPairs, PairsOf
<1>2. CASE FirstStart
  BY <1>2, EmptyLoadable DEF FirstStart, DiskLoadable
<1>3. CASE Rename
  BY <1>3 DEF Rename, DiskLoadable
<1> QED BY <1>1, <1>2, <1>3, DiskWriters

\* Whatever failed and crashed before, the service can start from its file.
THEOREM AlwaysLoadable == Spec => []DiskLoadable
<1>1. Init => MemberInv /\ Loadable(MemoryImage) /\ DiskLoadable
  <2> SUFFICES ASSUME Init PROVE MemberInv /\ Loadable(MemoryImage) /\ DiskLoadable
    OBVIOUS
  <2>1. MemberInv
    BY DEF Init, MemberInv, NoRooms, NoPairs, BoundPairs
  <2>2. MemoryImage = EmptyImage
    BY DEF Init, MemoryImage, EmptyImage
  <2> QED BY <2>1, <2>2, EmptyLoadable DEF Init, DiskLoadable
<1>2. IInv /\ MemberInv /\ Loadable(MemoryImage) /\ DiskLoadable /\ [Next]_vars
        => (MemberInv /\ Loadable(MemoryImage) /\ DiskLoadable)'
  BY MemberStep, LoadStep, DiskFromMemory
<1> QED BY <1>1, <1>2, Inductive, PTL DEF Spec
=============================================================================
