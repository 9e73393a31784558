----------------------------- MODULE Rendezvous -----------------------------
(***************************************************************************)
(* The registry of the rendezvous service: internal/control/control.go and *)
(* state.go without the WebSockets (module PeerSockets has those).         *)
(*                                                                         *)
(* All of it is guarded by one mutex, Server.mu.  A handler runs in two    *)
(* parts: authenticate() looks the device up and lets the lock go; the     *)
(* handler proper takes it again.  A handler that changes durable state    *)
(* holds the lock across saveStateLocked, which writes a temporary file    *)
(* and renames it: here the variable "saving" is the handler that is       *)
(* inside saveStateLocked, no other handler runs meanwhile, and the        *)
(* process may crash before the rename, after it, or anywhere else.        *)
(*                                                                         *)
(* Time is the flag "expired" of a room or lease, raised once at any       *)
(* moment.  Device, room, pair and key identifiers are model values.       *)
(***************************************************************************)
EXTENDS Integers, FiniteSets

CONSTANTS
    Device,             \* device IDs that enrolment may draw
    RoomId,             \* short room codes
    PairId,             \* 64-digit pair IDs derived by the clients
    RelayKey,           \* DERP public keys
    MaxDevices, MaxRooms, MaxRoomsPerDevice,
    MaxPairs, MaxPairsPerDevice, MaxRelayKeys,
    None                \* nil, or the empty string

VARIABLES
    up,           \* the process runs with the state directory locked
    devices,      \* keys of Server.devices
    revoked,      \* those whose Revoked flag is set
    rooms,        \* Server.rooms
    roomCounts,   \* Server.roomCounts
    pairs,        \* Server.pairs, without sockets
    leases,       \* Server.relayKeys
    authed,       \* devices with a request between authenticate and handler
    saving,       \* the handler that holds mu inside saveStateLocked
    disk,         \* contents of state.json, None when there is no file
    asked,        \* history: <<device, room, pair ID>> submissions recorded
    told          \* history: success answers given, see Answers

memory == <<devices, revoked, rooms, roomCounts, pairs, leases>>
vars == <<up, memory, authed, saving, disk, asked, told>>

Pair == [host : Device, guest : Device]
Room == [host : Device, guest : Device \cup {None},
         hostCommit : PairId \cup {None}, guestCommit : PairId \cup {None},
         expired : BOOLEAN]
Lease == [owner : Device, expired : BOOLEAN]
Image == [devices : SUBSET Device, revoked : SUBSET Device,
          pairs : [PairId -> Pair \cup {None}]]

Idle == [op |-> "idle"]
LoginSave == [op : {"login"}, dev : Device, renamed : BOOLEAN]
RevokeSave == [op : {"revoke"}, dev : Device, renamed : BOOLEAN,
               removed : [RelayKey -> Lease \cup {None}]]
CommitSave == [op : {"commit"}, dev : Device, renamed : BOOLEAN,
               room : RoomId, pair : PairId, created : BOOLEAN,
               oldHost : PairId \cup {None}, oldGuest : PairId \cup {None}]

Answers == [what : {"enrolled", "revoked"}, dev : Device]
           \cup [what : {"committed"}, dev : Device, pair : PairId]

ASSUME NoneAssumption ==
    None \notin Device \cup PairId \cup Pair \cup Room \cup Lease \cup Image
\* Identifiers are strings of bounded length.
ASSUME FiniteAssumption ==
    IsFiniteSet(Device) /\ IsFiniteSet(RoomId) /\ IsFiniteSet(PairId) /\ IsFiniteSet(RelayKey)
ASSUME LimitAssumption ==
    {MaxDevices, MaxRooms, MaxRoomsPerDevice, MaxPairs, MaxPairsPerDevice,
     MaxRelayKeys} \subseteq Nat
-----------------------------------------------------------------------------
(* Helpers named after the code's.                                         *)

NoPairs == [p \in PairId |-> None]
NoRooms == [r \in RoomId |-> None]
NoLeases == [k \in RelayKey |-> None]
ZeroCounts == [d \in Device |-> 0]

\* Handlers run only while mu is free.
MuFree == up /\ saving = Idle

\* Mutant: revocations are forgotten.
MemoryImage_Unrevoked == [devices |-> devices, revoked |-> {}, pairs |-> pairs]

\* What saveStateLocked writes.
MemoryImage == [devices |-> devices, revoked |-> revoked, pairs |-> pairs]

BoundPairs(ps) == {p \in PairId : ps[p] # None}
PairsOf(ps, d) == {p \in BoundPairs(ps) : d \in {ps[p].host, ps[p].guest}}

\* The checks of loadState: a file that fails one keeps the service down.
Loadable(img) ==
    /\ Cardinality(img.devices) <= MaxDevices
    /\ Cardinality(BoundPairs(img.pairs)) <= MaxPairs
    /\ \A p \in BoundPairs(img.pairs) :
         /\ img.pairs[p].host # img.pairs[p].guest
         /\ {img.pairs[p].host, img.pairs[p].guest} \subseteq img.devices
    /\ \A d \in img.devices : Cardinality(PairsOf(img.pairs, d)) <= MaxPairsPerDevice

LiveRoom(r) == rooms[r] # None /\ ~rooms[r].expired
ExpiredRooms == {r \in RoomId : rooms[r] # None /\ rooms[r].expired}
RoomsOf(d) == {r \in RoomId : rooms[r] # None /\ d \in {rooms[r].host, rooms[r].guest}}
HostedBy(d, R) == {r \in R : rooms[r].host = d}
Without(R) == [r \in RoomId |-> IF r \in R THEN None ELSE rooms[r]]

\* Mutant: the counter of a host is dropped, not decremented.
CountsWithout_Dropped(R) ==
    [d \in Device |-> IF HostedBy(d, R) = {} THEN roomCounts[d] ELSE 0]

\* decrementRoomCountLocked for the host of every room of R.
CountsWithout(R) ==
    [d \in Device |->
        LET n == Cardinality(HostedBy(d, R))
        IN  IF roomCounts[d] > n THEN roomCounts[d] - n ELSE 0]

\* The pair ID both sides of a room have submitted, else None.
CommittedId(rm) ==
    IF rm.hostCommit = rm.guestCommit /\ rm.guest # None THEN rm.hostCommit ELSE None

LiveLeases == [k \in RelayKey |->
                 IF leases[k] # None /\ leases[k].expired THEN None ELSE leases[k]]
Admitted(k) == leases[k].owner \notin revoked /\ ~leases[k].expired
LeasesOf(ls, d) == {k \in RelayKey : ls[k] # None /\ ls[k].owner = d}
-----------------------------------------------------------------------------
(* The process: New, Close, and a crash at any point.                      *)

MemoryFrom(img) ==
    /\ devices' = img.devices
    /\ revoked' = img.revoked
    /\ pairs' = img.pairs
    /\ rooms' = NoRooms
    /\ roomCounts' = ZeroCounts
    /\ leases' = NoLeases

EmptyImage == [devices |-> {}, revoked |-> {}, pairs |-> NoPairs]

\* New with no state file: the first save must succeed or New fails.
FirstStart ==
    /\ ~up
    /\ disk = None
    /\ disk' = EmptyImage
    /\ MemoryFrom(EmptyImage)
    /\ up' = TRUE
    /\ UNCHANGED <<authed, saving, asked, told>>

\* New with a state file: rooms and relay leases do not survive.
Start ==
    /\ ~up
    /\ disk # None
    /\ Loadable(disk)
    /\ MemoryFrom(disk)
    /\ up' = TRUE
    /\ UNCHANGED <<authed, saving, disk, asked, told>>

Stopped ==
    /\ up' = FALSE
    /\ MemoryFrom(EmptyImage)
    /\ authed' = {}
    /\ saving' = Idle
    /\ UNCHANGED <<disk, asked, told>>

\* Close takes mu, so it never interrupts a save.
Close == MuFree /\ Stopped

Crash == up /\ Stopped
-----------------------------------------------------------------------------
(* saveStateLocked.                                                        *)

Rename ==
    /\ up
    /\ saving # Idle
    /\ ~saving.renamed
    /\ disk' = MemoryImage
    /\ saving' = [saving EXCEPT !.renamed = TRUE]
    /\ UNCHANGED <<up, memory, authed, asked, told>>

\* Mutant: the device of a failed login stays in memory.
LoginSaveFails_NoRollback ==
    /\ up
    /\ saving.op = "login"
    /\ ~saving.renamed
    /\ saving' = Idle
    /\ UNCHANGED <<up, memory, authed, disk, asked, told>>

\* An error before the rename: the handler undoes what it did in memory.
LoginSaveFails ==
    /\ up
    /\ saving.op = "login"
    /\ ~saving.renamed
    /\ devices' = devices \ {saving.dev}
    /\ saving' = Idle
    /\ UNCHANGED <<up, revoked, rooms, roomCounts, pairs, leases, authed, disk, asked, told>>

\* Mutant: a failed revocation loses the device's leases.
RevokeSaveFails_LosesLeases ==
    /\ up
    /\ saving.op = "revoke"
    /\ ~saving.renamed
    /\ revoked' = revoked \ {saving.dev}
    /\ saving' = Idle
    /\ UNCHANGED <<up, devices, rooms, roomCounts, pairs, leases, authed, disk, asked, told>>

RevokeSaveFails ==
    /\ up
    /\ saving.op = "revoke"
    /\ ~saving.renamed
    /\ revoked' = revoked \ {saving.dev}
    /\ leases' = [k \in RelayKey |->
                    IF saving.removed[k] # None THEN saving.removed[k] ELSE leases[k]]
    /\ saving' = Idle
    /\ UNCHANGED <<up, devices, rooms, roomCounts, pairs, authed, disk, asked, told>>

\* Mutant: a failed commit forgets the pair but not the room's submissions.
CommitSaveFails_KeepsSubmissions ==
    /\ up
    /\ saving.op = "commit"
    /\ ~saving.renamed
    /\ pairs' = IF saving.created THEN [pairs EXCEPT ![saving.pair] = None] ELSE pairs
    /\ saving' = Idle
    /\ UNCHANGED <<up, devices, revoked, rooms, roomCounts, leases, authed, disk, asked, told>>

CommitSaveFails ==
    /\ up
    /\ saving.op = "commit"
    /\ ~saving.renamed
    /\ rooms' = [rooms EXCEPT ![saving.room].hostCommit = saving.oldHost,
                              ![saving.room].guestCommit = saving.oldGuest]
    /\ pairs' = IF saving.created THEN [pairs EXCEPT ![saving.pair] = None] ELSE pairs
    /\ saving' = Idle
    /\ UNCHANGED <<up, devices, revoked, roomCounts, leases, authed, disk, asked, told>>

\* The rest of each handler once saveStateLocked returned nil.
LoginSaved ==
    /\ up
    /\ saving.op = "login"
    /\ saving.renamed
    /\ told' = told \cup {[what |-> "enrolled", dev |-> saving.dev]}
    /\ saving' = Idle
    /\ UNCHANGED <<up, memory, authed, disk, asked>>

RevokeSaved ==
    /\ up
    /\ saving.op = "revoke"
    /\ saving.renamed
    /\ rooms' = Without(RoomsOf(saving.dev))
    /\ roomCounts' = CountsWithout(RoomsOf(saving.dev))
    /\ told' = told \cup {[what |-> "revoked", dev |-> saving.dev]}
    /\ saving' = Idle
    /\ UNCHANGED <<up, devices, revoked, pairs, leases, authed, disk, asked>>

CommitSaved ==
    /\ up
    /\ saving.op = "commit"
    /\ saving.renamed
    /\ told' = told \cup {[what |-> "committed", dev |-> saving.dev, pair |-> saving.pair]}
    /\ saving' = Idle
    /\ UNCHANGED <<up, memory, authed, disk, asked>>
-----------------------------------------------------------------------------
(* Requests.                                                               *)

\* handleLogin with the right enrolment token; IDs in use are never drawn.
Login(d) ==
    /\ MuFree
    /\ Cardinality(devices) < MaxDevices
    /\ d \notin devices
    /\ devices' = devices \cup {d}
    /\ saving' = [op |-> "login", dev |-> d, renamed |-> FALSE]
    /\ UNCHANGED <<up, revoked, rooms, roomCounts, pairs, leases, authed, disk, asked, told>>

Authenticate(d) ==
    /\ MuFree
    /\ d \in devices \ revoked
    /\ authed' = authed \cup {d}
    /\ UNCHANGED <<up, memory, saving, disk, asked, told>>

\* Every early return of a handler that changes nothing, and the revocation
\* that a handler finds when it takes mu again.
RequestRefused(d) ==
    /\ MuFree
    /\ d \in authed
    /\ authed' = authed \ {d}
    /\ UNCHANGED <<up, memory, saving, disk, asked, told>>

\* Mutant: the handler trusts authenticate() and does not look again.
Handling_NoRecheck(d) ==
    /\ MuFree
    /\ d \in authed
    /\ authed' = authed \ {d}

\* What every handler proper starts with.
Handling(d) ==
    /\ MuFree
    /\ d \in authed
    /\ d \notin revoked
    /\ authed' = authed \ {d}

\* handleCreateRoom drops expired rooms first, whether or not it then refuses.
CreateRoom(d, r) ==
    LET kept == Without(ExpiredRooms)
        counts == CountsWithout(ExpiredRooms)
        full == \/ Cardinality({x \in RoomId : kept[x] # None}) >= MaxRooms
                \/ counts[d] >= MaxRoomsPerDevice
                \/ kept[r] # None
    IN  /\ Handling(d)
        /\ \/ /\ full
              /\ rooms' = kept
              /\ roomCounts' = counts
           \/ /\ ~full
              /\ rooms' = [kept EXCEPT ![r] =
                            [host |-> d, guest |-> None, hostCommit |-> None,
                             guestCommit |-> None, expired |-> FALSE]]
              /\ roomCounts' = [counts EXCEPT ![d] = @ + 1]
        /\ UNCHANGED <<up, devices, revoked, pairs, leases, saving, disk, asked, told>>

\* handleRoomSocket, guest role: the first device that is not the host takes
\* the guest's place for the life of the room.
JoinRoom(d, r) ==
    /\ Handling(d)
    /\ LiveRoom(r)
    /\ rooms[r].host # d
    /\ rooms[r].guest \in {None, d}
    /\ rooms' = [rooms EXCEPT ![r].guest = d]
    /\ UNCHANGED <<up, devices, revoked, roomCounts, pairs, leases, saving, disk, asked, told>>

\* handleRelayRegister.
RegisterKey(d, k) ==
    /\ Handling(d)
    /\ IF LiveLeases[k] = None
         THEN Cardinality(LeasesOf(LiveLeases, d)) < MaxRelayKeys
         ELSE LiveLeases[k].owner = d
    /\ leases' = [LiveLeases EXCEPT ![k] = [owner |-> d, expired |-> FALSE]]
    /\ UNCHANGED <<up, devices, revoked, rooms, roomCounts, pairs, saving, disk, asked, told>>

\* The answer to a commit whose room is gone: retrying is safe for a member.
CommitRetried(d, r, p) ==
    /\ Handling(d)
    /\ ~LiveRoom(r)
    /\ pairs[p] # None
    /\ d \in {pairs[p].host, pairs[p].guest}
    /\ told' = told \cup {[what |-> "committed", dev |-> d, pair |-> p]}
    /\ UNCHANGED <<up, memory, saving, disk, asked>>

\* The room after d submitted p, for a submission handleCommit accepts.
Submitted(rm, d, p) ==
    IF d = rm.host THEN [rm EXCEPT !.hostCommit = p] ELSE [rm EXCEPT !.guestCommit = p]

\* Mutant: an ID bound to other devices is not refused.
MayCommit_AnyPair(d, r, p) ==
    LET rm == rooms[r]
    IN  /\ LiveRoom(r)
        /\ d \in {rm.host, rm.guest}
        /\ CommittedId(rm) \in {None, p}
        /\ IF d = rm.host THEN rm.hostCommit \in {None, p} ELSE rm.guestCommit \in {None, p}

MayCommit(d, r, p) ==
    LET rm == rooms[r]
    IN  /\ LiveRoom(r)
        /\ d \in {rm.host, rm.guest}
        /\ CommittedId(rm) \in {None, p}
        /\ pairs[p] \in {None, [host |-> rm.host, guest |-> rm.guest]}
        /\ IF d = rm.host THEN rm.hostCommit \in {None, p} ELSE rm.guestCommit \in {None, p}

\* handleCommit for the first of the two submissions.
CommitHalf(d, r, p) ==
    /\ Handling(d)
    /\ MayCommit(d, r, p)
    /\ CommittedId(Submitted(rooms[r], d, p)) # p
    /\ rooms' = [rooms EXCEPT ![r] = Submitted(@, d, p)]
    /\ asked' = asked \cup {<<d, r, p>>}
    /\ UNCHANGED <<up, devices, revoked, roomCounts, pairs, leases, saving, disk, told>>

\* Mutant: only the submitting side's share of pairs is looked at.
PairRoom_HostOnly(rm) ==
    /\ Cardinality(BoundPairs(pairs)) < MaxPairs
    /\ Cardinality(PairsOf(pairs, rm.host)) < MaxPairsPerDevice

PairRoom(rm) ==
    /\ Cardinality(BoundPairs(pairs)) < MaxPairs
    /\ \A d \in {rm.host, rm.guest} : Cardinality(PairsOf(pairs, d)) < MaxPairsPerDevice

\* handleCommit once both submissions agree: create the pair unless it is
\* there, and save in either case.
CommitBoth(d, r, p) ==
    LET rm == Submitted(rooms[r], d, p)
    IN  /\ Handling(d)
        /\ MayCommit(d, r, p)
        /\ CommittedId(rm) = p
        /\ pairs[p] = None => PairRoom(rm)
        /\ rooms' = [rooms EXCEPT ![r] = rm]
        /\ pairs' = [pairs EXCEPT ![p] = [host |-> rm.host, guest |-> rm.guest]]
        /\ asked' = asked \cup {<<d, r, p>>}
        /\ saving' = [op |-> "commit", dev |-> d, renamed |-> FALSE, room |-> r,
                      pair |-> p, created |-> pairs[p] = None,
                      oldHost |-> rooms[r].hostCommit,
                      oldGuest |-> rooms[r].guestCommit]
        /\ UNCHANGED <<up, devices, revoked, roomCounts, leases, disk, told>>

\* RevokeDevice up to its save; leases go before the save, rooms after it.
Revoke(d) ==
    /\ MuFree
    /\ d \in devices \ revoked
    /\ revoked' = revoked \cup {d}
    /\ leases' = [k \in RelayKey |-> IF k \in LeasesOf(leases, d) THEN None ELSE leases[k]]
    /\ saving' = [op |-> "revoke", dev |-> d, renamed |-> FALSE,
                  removed |-> [k \in RelayKey |->
                                 IF k \in LeasesOf(leases, d) THEN leases[k] ELSE None]]
    /\ UNCHANGED <<up, devices, rooms, roomCounts, pairs, authed, disk, asked, told>>

\* AllowedRelayKey drops a lease it finds expired or revoked.
DropLease(k) ==
    /\ MuFree
    /\ leases[k] # None
    /\ ~Admitted(k)
    /\ leases' = [leases EXCEPT ![k] = None]
    /\ UNCHANGED <<up, devices, revoked, rooms, roomCounts, pairs, authed, saving, disk, asked, told>>

\* Mutant: the ticker looks at leases only.
CleanupExpired_LeasesOnly ==
    /\ MuFree
    /\ leases' = LiveLeases
    /\ UNCHANGED <<up, devices, revoked, rooms, roomCounts, pairs, authed, saving, disk, asked, told>>

\* cleanupExpired, once a second.
CleanupExpired ==
    /\ MuFree
    /\ rooms' = Without(ExpiredRooms)
    /\ roomCounts' = CountsWithout(ExpiredRooms)
    /\ leases' = LiveLeases
    /\ UNCHANGED <<up, devices, revoked, pairs, authed, saving, disk, asked, told>>
-----------------------------------------------------------------------------
(* Time.                                                                   *)

RoomTimesOut(r) ==
    /\ LiveRoom(r)
    /\ rooms' = [rooms EXCEPT ![r].expired = TRUE]
    /\ UNCHANGED <<up, devices, revoked, roomCounts, pairs, leases, authed, saving, disk, asked, told>>

LeaseTimesOut(k) ==
    /\ leases[k] # None
    /\ ~leases[k].expired
    /\ leases' = [leases EXCEPT ![k].expired = TRUE]
    /\ UNCHANGED <<up, devices, revoked, rooms, roomCounts, pairs, authed, saving, disk, asked, told>>
-----------------------------------------------------------------------------
Init ==
    /\ up = FALSE
    /\ devices = {}
    /\ revoked = {}
    /\ rooms = NoRooms
    /\ roomCounts = ZeroCounts
    /\ pairs = NoPairs
    /\ leases = NoLeases
    /\ authed = {}
    /\ saving = Idle
    /\ disk = None
    /\ asked = {}
    /\ told = {}

Next ==
    \/ FirstStart \/ Start \/ Close \/ Crash
    \/ Rename
    \/ LoginSaveFails \/ RevokeSaveFails \/ CommitSaveFails
    \/ LoginSaved \/ RevokeSaved \/ CommitSaved
    \/ CleanupExpired
    \/ \E d \in Device : Login(d) \/ Authenticate(d) \/ RequestRefused(d) \/ Revoke(d)
    \/ \E d \in Device, r \in RoomId : CreateRoom(d, r) \/ JoinRoom(d, r)
    \/ \E d \in Device, r \in RoomId, p \in PairId :
         CommitRetried(d, r, p) \/ CommitHalf(d, r, p) \/ CommitBoth(d, r, p)
    \/ \E d \in Device, k \in RelayKey : RegisterKey(d, k)
    \/ \E k \in RelayKey : DropLease(k) \/ LeaseTimesOut(k)
    \/ \E r \in RoomId : RoomTimesOut(r)

Spec == Init /\ [][Next]_vars

\* Go's mutex is starvation-free and the cleanup ticker keeps ticking; the
\* handler inside saveStateLocked runs to its end unless the process crashes.
Fairness ==
    /\ SF_vars(CleanupExpired)
    /\ WF_vars(Rename \/ LoginSaveFails \/ RevokeSaveFails \/ CommitSaveFails)
    /\ WF_vars(LoginSaved \/ RevokeSaved \/ CommitSaved)

FairSpec == Spec /\ Fairness
-----------------------------------------------------------------------------
(* Properties.                                                             *)

TypeOK ==
    /\ up \in BOOLEAN
    /\ devices \subseteq Device
    /\ revoked \subseteq Device
    /\ rooms \in [RoomId -> Room \cup {None}]
    /\ roomCounts \in [Device -> Nat]
    /\ pairs \in [PairId -> Pair \cup {None}]
    /\ leases \in [RelayKey -> Lease \cup {None}]
    /\ authed \subseteq Device
    /\ saving \in {Idle} \cup LoginSave \cup RevokeSave \cup CommitSave
    /\ disk \in Image \cup {None}
    /\ asked \subseteq Device \X RoomId \X PairId
    /\ told \subseteq Answers

\* Whatever saves, failures and crashes happened, the state file passes every
\* check loadState makes, so the service can always start again.
DiskLoadable == disk # None => Loadable(disk)

\* Whenever the lock is free, memory and file agree: a handler whose save
\* failed has undone all it did, one whose save succeeded lost nothing.
MemoryIsDurable == MuFree => disk = MemoryImage

\* A success answer outlives any crash: an enrolled device stays enrolled, a
\* revoked one stays revoked, a committed pair stays bound with the device
\* that was told so as a member.
AnswersDurable ==
    \A a \in told :
        /\ disk # None
        /\ a.what = "enrolled" => a.dev \in disk.devices
        /\ a.what = "revoked" => a.dev \in disk.revoked
        /\ a.what = "committed" => /\ disk.pairs[a.pair] # None
                                   /\ a.dev \in {disk.pairs[a.pair].host,
                                                 disk.pairs[a.pair].guest}

\* The per-device counter that limits open rooms is the number of rooms the
\* device hosts, along every path that creates, expires or removes rooms.
RoomCountsExact ==
    \A d \in Device :
        roomCounts[d] = Cardinality(HostedBy(d, {r \in RoomId : rooms[r] # None}))

\* No device ever holds more relay keys than its share, failed revocations
\* that put leases back included.
LeaseLimit == \A d \in Device : Cardinality(LeasesOf(leases, d)) <= MaxRelayKeys

\* Once RevokeDevice has let go of the lock, the device takes part in no room
\* and owns no lease, and no request that was under way brings one back.
RevokedHoldsNothing ==
    MuFree => \A d \in revoked : RoomsOf(d) = {} /\ LeasesOf(leases, d) = {}

\* A room both of whose sides submitted the same ID is backed by that pair in
\* the state file: a commit whose save failed is not half remembered.
CommittedRoomIsDurable ==
    MuFree => \A r \in RoomId :
        (rooms[r] # None /\ CommittedId(rooms[r]) # None) =>
            disk.pairs[CommittedId(rooms[r])] =
                [host |-> rooms[r].host, guest |-> rooms[r].guest]

\* A relay lease stays its owner's until it expires, the owner's revocation is
\* durable or the service stops: nobody else registers or pushes out its key,
\* and a revocation whose save fails gives it back.
Held(k) == IF saving.op = "revoke" /\ saving.removed[k] # None
           THEN saving.removed[k] ELSE leases[k]

LeaseKept ==
    [][\A k \in RelayKey :
          (up' /\ Held(k) # None /\ ~Held(k).expired)
              => \/ Held(k).owner \in disk'.revoked
                 \/ Held(k)' # None /\ Held(k)'.owner = Held(k).owner]_vars

\* An expired room does not hold its code and its host's share for ever.
ExpiredRoomCollected ==
    \A r \in RoomId : (r \in ExpiredRooms) ~> (r \notin ExpiredRooms)

\* The service implements the abstract registry: its durable bindings are the
\* state file's, a submission counts for whatever room it was made in.
Registry == INSTANCE PairRegistry WITH
    consent <- {<<a[1], a[3]>> : a \in asked},
    bound <- IF disk = None THEN NoPairs ELSE disk.pairs,
    barred <- IF disk = None THEN {} ELSE disk.revoked,
    answered <- {<<a.dev, a.pair>> : a \in {b \in told : b.what = "committed"}}

ImplementsRegistry == Registry!Spec

\* The comment in handleCommit: a commit that took effect can be retried by
\* either member.  (It cannot while another room uses the code again.)
MemberMayRetry ==
    MuFree => \A a \in asked :
        LET d == a[1] p == a[3]
        IN  (d \notin revoked /\ pairs[p] # None /\ d \in {pairs[p].host, pairs[p].guest})
                => ~LiveRoom(a[2]) \/ MayCommit(d, a[2], p)
=============================================================================
