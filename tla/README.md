# TLA+ models of wire-connect

wire-connect joins two devices by a WireGuard tunnel. A rendezvous server lets
them find each other, pairs them by a short code, and relays packets (DERP)
while no direct path (ICE) exists; on each machine a helper sets up the network
interface, a background service keeps the connection, and an updater replaces
the program. This directory holds TLA+ models of its concurrent and
failure-prone parts, the TLC configurations that check them, and proofs that
TLAPS checks. `PROJECT.json` maps every definition to the lines of `src/` it
stands for and lists runs, mutants, hazards and theorems.

    tlc -workers 2 -config RendezvousPairing.cfg MCRendezvous.tla
    tlapm RendezvousProofs.tla

## 1. The system

| Component | State | Operations | What is hard |
|---|---|---|---|
| Rendezvous registry (`internal/control/control.go`, `state.go`) | devices, revocations, rooms and their per-host counters, pairs, relay leases, `state.json` | login, create/join/commit room, register relay key, revoke, expire, load, save | one mutex, but authentication lets it go before the handler; saves fail; the process crashes on either side of the rename; clients retry |
| Rendezvous sockets (`control.go`, `websocket.go`) | two slots per room or pair, a bounded send queue and three goroutines per socket | upgrade, place, announce, forward, detach, revoke, close | upgrades and announcements happen without the lock; successors replace sockets that are not yet detached |
| Request limiters (`control.go`) | fixed windows, token bucket | allow | eviction of a full table |
| Server shell, relay admission (`server/server.go`) | relay slots, admissions | admit, renew, serve, close | renewal of admission against expiring leases |
| Secure session (`secure/session.go`) | challenges, traffic keys, send counter, replay window | Hello, AcceptHello, Seal, Open, Close | frames of earlier connections of the same pair, repeats, order, counter end |
| Pairing cryptography (`secure/pair.go`, `secure/code.go`) | OPAQUE exchange | Pair | message order, both sides reaching one secret |
| Pairing client (`client/pair.go`, `client/api.go`) | the pairing in progress | Pair, negotiateAddresses | either side may fail after the other saved its profile |
| Connection runner (`client/run.go`) | lease renewal, signalling socket, generation | Run, maintainDirect, runICENegotiation | generations, a host that does not read while a path is up, reconnection |
| Packet transport (`transport/bind.go`) | direct path, relay session, receive generations, stop flags | SetDirect, sendOne, relayLoop, WaitRelay, Open, Close, Shutdown | stale snapshots, late drops, Shutdown racing everything |
| ICE agent (`transport/ice.go`) | one negotiation | LocalOffer, Connect, Close | an agent must not outlive its attempt |
| Local control (`localctl/`) | profile lock, socket file | Listen, Status, Stop, Close | sockets left by crashes |
| Commands (`cli/`), profile store (`config/`) | profiles | pair, resume, stop, delete, update | several components in sequence, each of which may fail, from two terminals |
| Network helper (`nethelper/`), interface setup (`platform/`) | sessions, TUN devices, routes | Open, Serve, bridge, rollback | teardown after partial setup, exactly once, in time |
| Background services (`service/`) | the manager's record, the program's copy | Install, Stop, Uninstall | one step of several failing; a manager that starts again what was stopped |
| Helper installation (`netsetup/`), service files | files | Install | permissions |
| Update (`update/`), Windows transaction | executable, journal, backups | Run, Apply, rollback, Cleanup | what is verified against what is installed; a crash between two renames |

How they interact: the pairing client drives the registry over HTTP and a room
socket, runs the pairing exchange through it, agrees on a `pair_id` and commits
it; the runner registers a relay key, keeps a pair socket for signalling over
secure sessions, negotiates ICE over them and hands connections to the packet
transport; the transport keeps a relay session that the server shell admits by
asking the registry. Revocation reaches from the registry into the sockets and
the relay. On a machine, commands write and remove profiles, install and stop
services, and speak to the process that runs a connection through its control
endpoint; that process asks the network helper for its interface. An update
replaces the program and has the services refreshed.

What makes each correct, in a sentence: the registry never forgets what it
answered and never half-applies what it refused; a socket that runs is the one
in its slot, and each side knows whether the other is there; a session returns
each frame once and only frames of its own peer; a pairing that succeeds is
complete for both; two runners come to one path and keep it while it works; the
transport leaks no connection and stops for good; a device has the relay as long
as it may; an interface goes with the session that made it; what was stopped
stays stopped; what is installed is what was verified, and files are replaced
whole or not at all.

## 2. Modules

| Module | Stands for | Proofs |
|---|---|---|
| `Rendezvous` | the registry, with crashes, restarts and failing saves | `RendezvousProofs` |
| `PairRegistry` | what the registry promises about pairs (abstract; `Rendezvous` implements it) | in `RendezvousProofs` |
| `PeerSockets` | the sockets of one room or pair | `PeerSocketsProofs` |
| `Session` | any number of secure sessions of one pair over a bad network | `SessionProofs` |
| `Bind` | the packet transport | `BindProofs` |
| `Pairing` | the two calls of `Pair`, with key exchange, addresses and commits | `PairingProofs` |
| `Signaling` | the two runners' negotiation of direct paths and their agents | `ClientsProofs` |
| `RelayAccess` | relay leases and admissions over time | `ClientsProofs` |
| `NetHelper` | the helper's sessions, the network lock, setup and teardown of interfaces | `MachineProofs` |
| `NativeService` | the steps of the six service managers (operators only) | |
| `Lifecycle` | one connection under the commands of two terminals, its endpoint, service and profile | `MachineProofs` |
| `Update` | one run of the updater | `UpdateProofs` |
| `Handoff` | the Windows replacement of files | `UpdateProofs` |
| `MCRendezvous`, `MCPeerSockets`, `MCBind` | symmetry sets for TLC | |
| `MCClients` | `Session`, `Pairing`, `Signaling`, `RelayAccess` for one run | `ClientsProofs` |
| `MCMachine` | `NetHelper`, `Lifecycle`, `Update`, `Handoff` for one run | `MachineProofs` |

`MCClients` and `MCMachine` put components that share no state into one state
graph: `part` is chosen at the start, only the actions of that part are enabled,
and the variables of the others stay as they are. What a part may find at first
is left open only if it is the chosen one, so the graph is the sum of the parts'
graphs and not their product. Invariants are those of all parts; progress is one
formula with a case for each part. The components proper have safety
specifications (`PairingInit /\ [][PairingNext]_pairingVars` and so on); the
fairness that liveness needs is stated in the MC modules.

### Rendezvous

Variables are named after the fields of `Server`. `saving` is the handler that
holds `Server.mu` inside `saveStateLocked`; while it is not idle no other
handler can run, but the process can crash. A handler is one action up to the
save, then `Rename` or a failure, then the rest of the handler. `authed` is the
gap between `authenticate`, which unlocks, and the handler. Time is a flag
`expired` on rooms and leases raised at any moment, so every order of expiry and
requests is covered. `asked` and `told` are history: submissions the service
recorded and success answers it gave. The two limiters that answer 429 before
any handler runs are left out: a refused request changes nothing.

### PeerSockets

A connection goes through new, accepting (checked, then upgrading without the
lock), placed (in its slot, announcing without the lock), serving, leaving
(detached, telling the other side without the lock), gone. What a goroutine still
enqueues after it let go of the lock is its `todo`, so other goroutines come in
between. `stream` is everything ever accepted by a send queue, `sent` how far
the write loop got; the difference is the queue, which stops the peer when it is
full. The same module is a room (`Removable`: it expires and may be created
again) and a pair.

### Session

Encryption is ideal: a frame opens under exactly the key, role and number it was
sealed with, and a key is the two challenges. `net` only grows, so the network
may deliver any frame any number of times, in any order, to any session.
`recvBits` is the set of positions of its ones; a shift drops positions outside
the word. The counter wraps after `MaxSeq`, the last number of its width, and `Seal`
stops there as in the code.

### Bind

One action is one critical section of `pathMu`, `workerMu` or `lifecycleMu` with
the local work that follows. Goroutines: the caller of `SetDirect` and the reader
it starts (`setter`), `relayLoop` (`loop`), the sender under `sendMu` (`send`),
receive callbacks (`call`, one per generation, which WireGuard calls again after a
packet was `"delivered"` and until it is told that the generation is closed), callers
of `WaitRelay` (`waiter`), and `Shutdown` (`stage`). All generations take from one
queue. A context that ends makes relay reads and dials fail at once
(`Fails`), as the connection was made under it. `current` is the set of
waiters whose copy of the wake channel `signalRelayLocked` has not closed since.
`WaitRelay` and `DropDirect` are exported and used by tests only; they are
modelled because they are part of what the type offers. A `Bind` without relay URL behaves as one whose dials all fail.

### Pairing

Each side's `stage` is the place in `Pair` it has come to; a frame that it sends
goes through the room to the counterpart if that sits in its slot. A root secret
is known by the pair of calls it was made in (`Root`), so that "the same secret"
is equality and a frame of another call does not open. The proposals and replies of
the address negotiation travel inside the session (`channel.send`, `channel.recv`),
so they are sealed like the rest: `Spoken` names the secret, and what does not open
is no proposal and no reply (`Heard`), it ends the call. `code` is what a side
uses; a guest may mistype it. The address negotiation computes with the numbers
of a small address space (`Width` bits, `Private` part), as `pair.go` does with
32 bits. The service is the abstract one: a room has two slots and two
submissions, and expires. `ready` is history: what each side was ready to store
when it submitted. A mishap is a lost connection or answer, a room that expires,
or a deadline that passes although the counterpart is there.

### Signaling

`at` is the place in `maintainDirect` and `runICENegotiation` of each side,
`sock` its pair socket, `inbox` the socket's channel of unread messages (a full
one closes the socket), `news` what a slot change announced and the reader has
not taken yet. A message carries the sockets its session was made of and, where it is an
offer or an answer, its generation. `agents` are the ICE agents that exist,
`linked` the generations whose two agents nominated a pair. A loss of a link, a
failing write, a crash of a runner are faults, of which there are `MaxFaults`;
what follows from them is not a fault. `replaced` records that a socket was
taken over before its loss was announced (the finding `sockets_replaced`), after
which convergence is not promised.

### RelayAccess

Time goes in ticks, the five seconds of the renewal loop; a tick waits for every
running runner to have looked. `lease`, `due` and `session` count down. A stop of the
server takes the leases with it, as they are not saved. `heard`, `unsure` and
`cutIn` are history for the property: who looked since the server last started, whose
registration failed, and how long ago a device was revoked.

### NetHelper

`condition` is where a session is, from the connection of its client to its end;
`applied` how many steps of `Plan` it has applied. `link` is the kernel's table
of interfaces with the addresses and routes they hold. The machine-wide lock is
`network`; setup and teardown wait for it with a time limit, and teardown that
does not get it closes the device only. A client that is root (`rooted`) calls
the platform code itself, without the lock, as the source does. When its interface
fails, WireGuard closes the device before the deferred cleanup runs: the session is
`"astray"`, its name is free, and what it still undoes it undoes on whatever
interface has the name by then (`DeviceFails`, `Undo`). `Takes` is what an inverse
command may take from an interface: with the link down whatever depends on it.
On Windows the last step is followed by a wait that may fail (`NeverReady`).
`LinuxPlan`, `DarwinPlan` and `WindowsPlan` are the plans of the three platforms.

### Lifecycle and NativeService

`NativeService` gives for each of the six managers the list of steps of an install, a
stop and an uninstall, and what a step does to what is kept of a service.
`Lifecycle` runs them for one connection, a step at a time, from two terminals
beside the manager, which starts the service at boot and after a failure. A process
that runs the connection takes the profile's lock, removes a stale endpoint,
binds its own, and undoes that in the order of the code. `calm` says what the
last stop or delete achieved that no starting command overlapped: the
promises of `EndsHold` are about these.

### Update and Handoff

`Update` is the sequential run of the updater against a changing world: the
release may be published anew between metadata and download, files of an offline
update may be exchanged between two reads, a package manager may take over. An
archive is a sequence of entries and stands for its own digest; versions are
compared digit by digit as in the source and judged by their values.

`Handoff` is the file by file replacement on Windows: `target`, `backup` and
`source` are the directory, `records` the list a helper keeps in memory for its
rollback, `attached` the transaction and the helper's copy. Every rename may fail,
and the helper may be interrupted or die between any two steps and be started
again with the same transaction.

## 3. Runs

| Run | Bounds | Question |
|---|---|---|
| `rendezvous_pairing` | 3 devices, 1 room code, 2 pair IDs, 1 pair per device, 4 different submissions | pairing with revocation, failing saves and crashes: answers, revocation, commits, loadability, refinement of `PairRegistry` |
| `rendezvous_leases` | 2 devices, 3 room codes, 2 rooms, 2 keys, 1 key per device, fair | counters, leases through failed revocations, collection of expired rooms |
| `rendezvous_retry` | 2 devices, 1 room, 1 pair | finding: a retry after a restart is refused |
| `sockets_room` | 2 host and 1 guest attempts, queue of 1, revocation, expiry, Close | slots, readiness, silence after revocation, finality of Close |
| `sockets_pair` | 1 host and 2 guest attempts, queue of 1, guest revocable, fair | loss is signalled, stopped sockets are released, Close returns |
| `sockets_replaced` | 1 host and 2 guest attempts, fair | finding: the remaining peer is not told |
| `sockets_barrier` | 1 host and 2 guest attempts | finding: a frame before the readiness event |
| `bind_paths` | 2 direct connections, 2 relay sessions, 1 waiter, 1 send | leaks, mode, wakeups, finality of Shutdown |
| `bind_stops` | 1 direct connection, 1 relay session, 2 generations, queue of 2, 2 packets, fair | Shutdown returns; a callback of a closed generation takes nothing more and returns |
| `clients` | session: 2 host and 1 guest sessions, 2 messages, window 2, numbers to 3, 4 frames; pairing: 2 calls a side, 2 rooms, 1 mishap; signaling: 2 sockets a side, 4 generations, channel of 3, 2 faults; relay: 2 runners, lease 4, renewal and admission 2 ticks, 2 troubles; fair | exact window, no replay, agreement, nonces; both sides of a pairing end alike; paths join one attempt and are kept; access follows the lease; calls end, runners converge, the relay is regained |
| `machine` | helper: 2 sessions, one of which may be root's, 2 helpers of 1 slot, the Windows plan; lifecycle: 2 terminals, 3 commands, 1 trouble, 3 managers; update: 3 modes, 10 archives, 21 versions; handoff: 3 files with any contents, 3 breaks; fair | interfaces leave nothing behind, the endpoint is its process's, an end holds, files are whole or restored, what is installed was verified; what was begun ends |
| `handoff_rollback` | 3 files, 1 break | finding: a rollback removes an executable and calls itself complete |

What the properties of the two composed runs stand for:

* `PathsSound`: no agent outlives its attempt, two runners that connect in one
  session do so for one generation, a path whose other end lives is the peer's
  too, and beside a runner that asked for the relay there is none.
  `WorkingPathKept`: signalling may come and go, a path both ends of which are
  open is given up only through a fault.
* `PairingAgrees`: a call that succeeds left its pair in the service and a
  counterpart that was ready to store the same; one exchange has one result;
  without mishaps both calls end alike; the addresses are two usable ones of the
  host's prefix.
* `AccessFollowsLease`: a runner that looks and is answered can always be
  admitted, after a restart of the server as well; a revoked device keeps the
  relay for one admission at most.
* `InterfacesKept`, `OnlyItsOwn`: interfaces of helper sessions are disjoint, exist only
  while their session does, and are changed by it only. The exception is stated in
  the property: the cleanup of a root client whose device WireGuard closed may take
  something from an interface of the same name, whose owner stays.
* `CallbacksReturn`: once a generation has ended, or Shutdown has begun, none of its
  callbacks that had yet to pass its last check hands over a packet, and each comes
  to return, though packets are queued and the next generation takes them too.
* `EndpointIsOwn`: a process that serves has its own socket in the directory and
  the lock. `EndsHold`: after a stop or a delete that nothing overlapped no
  process serves or is about to, nothing is started again, and a deleted
  connection has left nothing.
* `UpdateTrusted`: what replaces the program is the archive that was read once
  and checked against what was read once; no version below the floor; an archive
  that is taken apart is unambiguous; an installation a package manager took
  over is left alone.
* `HandoffAtomic`: an old file is in its place or its backup until the new one is
  there; a first rollback without failures restores what was to change; success
  leaves new files only.
* `ClientsProgress`, `MachineProgress`: every call of `Pair` ends; two runners
  come to one path once nothing fails and no socket was replaced unnoticed; a
  runner gets back to the relay; a helper session whose client went becomes idle;
  a service that is to run serves, whatever a killed process left; a resumed
  Windows handoff completes.

Why the bounds are enough to be interesting. Three devices are the least in which
a third competes for a room or an ID two others use, and one code with two IDs
makes a room outlive and be outlived by its pair; four submissions
(`FewSubmissions`, a state constraint of this run only) are the two a pair takes
and two more that meet it. Three codes and room for two
rooms, two keys and a share of one of them make the limits bind, and expiry takes a room by both collectors
(the handler of the next creation and the ticker). Two attempts for one slot give
every replacement; a queue of one makes overflow ordinary; the other slot needs
one connection only. With a window of two and numbers up to three there are
numbers inside, at the edge of and behind the window, jumps past it, and the end
of the counter; four frames (`FewFrames`, a state constraint) are all frames of
one session and one more. Two generations
over one queue let packets outlive the one they came in, so that a closed generation has
something to take; two packets fill the queue. Two direct connections give a
successor to be retired by mistake,
two sessions a relay that is lost and replaced. Two calls a side let a frame or a
room of the first meet the second; one mishap is a lost answer, the case the
commit loop is for, and two rooms one of which is another user's make the host try
again. Two sockets a side are a socket and its
successor; their identifiers and those of generations are taken again when
nothing refers to them, so that reconnection is not bounded by them, only by
the faults. A lease of four ticks, renewed after two, is the ratio of the code.
The plan of Windows is the longest of the three and the
only one with a wait behind its last step. Three commands are a start, a stop and a third that meets either; one trouble is a
crash, a reboot or a failing step at any place. Three breaks are a helper that
dies, one that fails in its rollback and one that is cut in the next. The
theorems below remove the bounds for the parts they cover.

Symmetry is used only in runs without liveness, on sets whose members are only
compared. Deadlock is checked for the registry, which can always crash or
restart; the other systems may really come to rest (`CHECK_DEADLOCK FALSE`).

Each property has a mutant in `PROJECT.json`: a plausible bug in a mapped
definition that makes the property fail under the same configuration. The
definitions named `X_Y` directly before `X` are those mutants; no specification
uses them. The type invariants of `Rendezvous`, `PeerSockets` and `Bind` are
not checked by runs: they are theorems. `TypeOK` of `Session` is checked within
`ClientsTypeOK` and a theorem too.

### Fairness

* Registry: the handler inside a save ends (weak fairness); the cleanup ticker
  gets the mutex (strong fairness on `CleanupExpired`: Go's mutex hands itself to
  a waiter that has waited for a millisecond, while other handlers may disable it again and
  again). Nothing is assumed of requests.
* Sockets: every goroutine of the service that can run does. Nothing is assumed
  of clients, network or administrator.
* Bind: runnable goroutines run; a dial ends because of its timeout; the watcher
  started by `New` calls `Shutdown` once the context is done. Nothing obliges a
  connection to break, a packet to arrive or a caller to call; but WireGuard calls a
  receive function again until it reports that it is closed.
* Pairing: a call of `Pair` that can go on does; deadlines make a wait end.
* Signaling: goroutines of a runner run, the service delivers what is in its
  slots, a path whose peer is gone is noticed because consent to send expires,
  two agents that both check succeed before their time is up (the code gives
  them forty-five seconds), and a runner that was stopped is started again by its
  service. Faults are never obliged to happen, nor to stop before their bound.
* Relay: runners look and connect, time passes, a server that stopped is started
  again, by its service manager.
* Helper: a session that has a step to take takes it; lock waits end in time
  because they have limits. Nothing obliges a client to go.
* Lifecycle: processes and commands go on, and the manager starts what it is to
  run. Nothing obliges a user to give a command.
* Handoff: a helper that runs goes on. Nothing obliges anyone to start one again
  after it died; the property speaks of one that was.

## 4. Proofs

All theorems hold for every value of the constants that satisfies the named
assumptions: identifiers are distinct from `None` and its like, sets of identifiers finite
(registry and helper only), sides disjoint, limits natural numbers, queue and window not
empty, the renewal shorter than the lease, the files of a package different ones,
archives and checksum files finite sequences of entries, service managers among the six.
One theorem, `EndsAreFinal`, has a hypothesis beyond these. None assumes fairness: each
is about the component's own safety specification, of which the runs' specifications
are a special case.

* **Registry.** `IInv` adds to the properties what a handler in the middle of a
  save has done and must be able to undo (`SavingInv`), that a room's submissions
  were asked for by its members and that two equal ones are backed by a pair
  (`RoomInv`), that revoked devices hold nothing (`RevokedInv`), and what the file
  holds before and after the rename. Without `SavingInv` a failed save could undo
  somebody else's pair. From it: `TypeCorrect`, `Durable`, `AnswersOutliveCrashes`,
  `RevocationComplete`, `CommitsDurable`, and `Implements`, by which every step
  maps to a step of `PairRegistry` or a stutter. Further invariants add the leases
  (who holds a key counts those a revocation in progress took away),
  the counters and `AlwaysLoadable`.
* **Sockets.** `IInv` adds which goroutines have enqueues left and that a running
  socket of a revoked device is about to be stopped. `ReadinessIsAnnounced` needs
  that the later of two sockets still has the missing events in its `todo`.
* **Session.** `IInv` adds that the window's bits are the distances of the
  returned numbers from the highest, that frames in the network were sealed below
  the sender's counter by the session that owns the key, and that what was
  returned came from there.
* **Bind.** `IInv` adds that `SetDirect` has a single caller, which stages of it
  hold a connection open, that the selected relay is the session `relayLoop`
  serves, and that nothing is selected after the sweep but a session that passed
  the check in `replaceRelay` before. The last is why Shutdown's promise holds
  only after it waited for `relayLoop`, and `FinalState` derives it.
* **Relay access.** `RelayInv` adds `LeaseOutlasts`: while a runner is connected,
  or has a lease at all, the lease is at least as long as the time to its
  renewal, unless its last registration failed or its device is revoked. Both
  only run down together, and a stop of the server, which takes every lease,
  takes the connections too, so that the next look registers again. Hence
  `AccessIsBoundToLease`, for any periods with the renewal shorter than the lease.
* **Network helper.** `HelperInv` adds that a session in a phase that owns an
  interface has the one of its name with no more than its two addresses
  (`OwnerInv`), that only a root client's session is ever `"astray"`, that a helper's
  session that works under the lock has it and a root client's never (`LockInv`), and that what its route check found free stays free of the other
  helpers' sessions until its setup is over (`FreeInv`). Cleaning up therefore needs no
  trust in steps that failed: closing the device is enough. The theorems
  (`InterfacesAreKept`, `OnlyItsOwnChanges`) hold for any plan of steps, the three
  platforms' among them. `OnlyItsOwnChanges` looks at each step that touches a link:
  by `OneEach` the session in an owning phase with that name is its owner, so what is
  left is an inverse command of an `"astray"` session, which only takes (`Strays`).
* **Windows update.** `HandoffInv` says of every phase what the directory holds:
  that backups are old files that are not in their place (`ContentsInv`), that a changed file
  keeps its backup until every file is new (`BackupInv`), that the records a
  rollback works from are true (`RecordInv`), and that before the first rollback
  nothing behind the place reached was touched (`AheadInv`). The invariant
  distinguishes the first rollback (`undone = 1`) because a later one starts from
  what an earlier one left. `HandoffIsAtomic` holds for any number of files.

* **Pairing.** `PairInv` adds that a call that has come past its start has a code and a
  number, and a secret from the answer to the first message of the key exchange
  on, and that a host proposes only while it has tries left. From it
  `PairingTypeCorrect`, for any codes, networks and numbers of calls and tries.
  `AgreeInv` says why two calls agree. Whatever is lost, a secret names the two calls
  it was made in, and the host's side of it was opened with the code of both
  (`RootInv`); within one secret the host has one proposal under way, so that the
  reply it reads answers the addresses it holds (`TurnInv`); a guest is ready to
  store one thing in one call, and the host nothing the guest has not accepted
  (`ReadyInv`); and the service holds only what sides submitted that were ready
  (`ServiceInv`). `CalmInv` holds besides until the first mishap: a host waits whose
  proposal the guest has not read, nothing but replies is on the way to a host that
  proposes, and once the guest is ready its acceptance is the last frame the host has
  to read. It is why two calls of which nothing is lost end alike. From them
  `PairingAgreement`, for any numbers of calls, tries and faults.
* **Signaling.** `PathInv` says which variables are set at which place of a runner
  (`PlaceInv`); that an agent belongs to the attempt its runner is in or to the
  path it uses (`OwnInv`); that offers in an inbox were made by the host in the
  session of that socket and number no attempt it has not begun (`OfferInv`,
  `FreshInv`); that only attempts both runners took part in are linked
  (`LinkedInv`, `OriginInv`); that within a session the offer the host waits on is
  its last, and once it is answered the guest has read all of them and attempts that
  one or none (`AnswerInv`); and what a runner that asked for the relay cannot
  have (`RelayOnlyInv`). A message may be taken from the head of
  an inbox and one put at its end in a step, for which `Moves` states once what
  becomes of a property of all messages. From it `DirectPathsSound` and
  `WorkingPathStays`, for any number of sockets, attempts and faults.
* **Connections.** `ConnectionInv` adds where each command can be in its list of steps
  (`FlowInv`), and that who is between taking the profile lock and giving it back
  holds it, and who listens has its own socket in the directory (`HoldInv`): hence
  `ServedIsReachable`. `StopInv` adds what a command that is alone has achieved
  at each of its steps (`ReachedInv`), that nothing undoes it while it is alone
  (`AloneInv`) and after (`CalmInv`). `EndsAreFinal` has the hypothesis `Tame`: no Windows
  service manager and no launchd daemon, for which `EndsHold` is false (section 5).
* **Update.** `UpdateInv` says what has been checked of metadata, archive and checksum file
  by the time of each step (`ReadInv`), what the entries extracted so far are and
  how large together (`EntriesInv`), and how a run ends (`VerdictInv`). From it
  `UpdatesAreTrusted`, for archives, checksum files and bounds of any size.
  `VersionsOrdered` says of two versions of any length that `compareSemver`, which
  compares digits as text, is negative exactly if the first precedes the second by
  the values of their numbers. The values are defined by recursive functions;
  facts about them are proved with least elements of sets of numbers
  (`LeastNumber`), as no induction theorem can be instantiated.
* **The composed runs.** `PartsOfMachine` and `PartsOfClients`: a behaviour of the composed
  specification satisfies the specification of each part, the refinement
  mapping being the identity. So each theorem about a part holds of the whole;
  `MachineTypeCorrect` and `ClientsTypeCorrect` state it for the types.

Four definitions were wrong and were corrected when the proofs met them. `Pairing` let a
guest take a proposal that another call had sealed, and a host such a reply; both now
name the secret they are sealed under.
`PairingTypeOK` bounded the tries of a call that has failed by the number of addresses,
although joining rooms counts with the same counter and has a bound of its own.
`Disturbed` of `Lifecycle`, which says when a stop promises nothing, left out a service
without record that still runs: with the task scheduler and five commands TLC
finds a stop that a racing resume undid before it began. And `Lifecycle` did not
require that `None` is no name of a command.

The inductive invariants were model-checked first. Only model-checked: liveness
(`ExpiredRoomCollected`, `LossIsSignalled`, `StoppedIsDetached`,
`CloseTerminates`, `ShutdownTerminates`, `CallbacksReturn`, `ClientsProgress`,
`MachineProgress`), which is out of the prover's reach; and the findings.

## 5. Findings

Four places where a comment and the code disagree; each has a run that ends in
the counterexample.

* `sockets_replaced`: a slot whose socket has stopped but not detached may be
  taken; the late detach finds the successor and tells nobody, so the remaining
  peer never hears `connected=false` (`control.go:1018`, comment at 1094).
* `sockets_barrier`: the readiness event is queued without the lock after the
  socket is placed, so a frame forwarded by the other side can be the new
  client's first message (`control.go:919`).
* `rendezvous_retry`: a committed pair's member cannot repeat its commit while
  another room uses the code (`control.go:779`, comment at 776).
* `handoff_rollback`: a file that already has the new contents is recorded as
  put in place without a backup (`replace_windows.go:917`); when a later rename
  fails the rollback removes it and has nothing to put back, yet returns the
  plain cause, which by `update.go:68` means that restoring did not fail. With
  a current executable beside a missing runtime file one failing rename leaves
  no executable.

The first three need two sockets or two rooms within a short time; clients recover by
reconnecting or pairing again. What the first leads to shows in `Signaling`:
after an unnoticed replacement both runners can wait for each other for ever, as
a channel has no read timeout, so `Converges` excludes that case.

Observations, from modelling, that no run claims as a finding:

* Stopping on Windows' service manager halts the service first and disables it
  after (`service_windows.go:290-361`), so a service that ends with an error while it is
  stopped may be restarted by its recovery actions in between; `delete.go:33`
  means to rule that out. The uninstall of a launchd daemon takes the disabled
  mark back before the plist is removed (`service_darwin.go:200-203`); cut there,
  a stopped connection starts again with the machine. `EndsHold` fails for both
  managers in the model, so the run takes `user`, `agent` and `tasks`; `systemd`
  behaves as `user`.
* A pair or resume that races a delete can leave an enabled or running service
  without a record that a later stop does not see; `EndsHold` speaks of ends that
  no such command overlapped. A resume that writes its profile back can bring a
  deleted pair back; two pairings at once overwrite each other's profile; a
  refresh after an update can restart a connection stopped meanwhile.
* The control endpoint and the lock are given back when the process is
  cancelled, before its tunnel is down.
* The check of `--network` looks at the address as given, not masked
  (`pair.go:162`). A client that is root opens an interface without the network
  lock, so its addresses may collide with a helper's (`rooted` in `InterfacesKept`).
* When the interface of a root client fails, WireGuard closes the device
  (`run.go:200`) before the deferred cleanup (`run.go:121-126`) runs the inverse
  commands. They name the interface and run without the network lock
  (`platform.go:377-391`), so they may take the address, the route or the link state
  of an interface that another session has given the name since. `OnlyItsOwn`
  allows that one case and no other.
* A refresh passes over services whose state is stopped, disabled, inactive or
  exited (`manage.go:279`). A systemd unit that was stopped after a failure reports
  `failed`, so the refresh installs and starts it again, although
  "A stopped profile stays stopped until explicit resume" (`manage.go:285`).
* A Windows helper that is interrupted, or cannot look at a file, returns without
  rolling back (`replace_windows.go:869-916`), against `update.go:155-157`. A handoff
  that fails leaves its staged files, helper and transaction behind. A rollback
  under a cancelled context cannot rename.
* Numeric prerelease identifiers with leading zeros are accepted and compare
  equal to those without.

## 6. Not modelled

* Request limiters: one map or bucket under one lock, read and changed within a
  single call; nothing interleaves with it, and the comment at `control.go:1511`
  accepts what eviction does.
* Helper installation (`netsetup/`): a straight list of commands to the service
  manager that nobody competes with, of the kind `NativeService` shows; its
  result enters `Lifecycle` as a step that may fail.
* Service files, endpoints and install paths: permission and ownership checks,
  URL parsing and path resolution keep no state.
* Test utilities: programs of the integration tests.
* Of the modelled components: STUN, TLS and proxy handling of the server shell;
  the gathering and filtering of ICE candidates; status texts, statistics,
  doctor and completion; permission checks of the profile store; HTTP limits and
  redirects of the updater. `PROJECT.json` says so at each component.

Left out for good: parsing, formatting, flags, the operating
system's permission checks, the cryptography itself (ideal here), DERP, STUN, ICE
and WireGuard libraries (external).

Abstractions that limit what the models say: a power loss that loses a
completed rename is not a crash of the model; the bytes, sizes and statistics of
packets are left out; HTTP requests are refused or reach their handler; a pair
socket's service is, in `Signaling`, the abstract form of `PeerSockets`, and the
registry is, in `Pairing`, the abstract form of `Rendezvous`, without a composed
run of both; what setup commands do in the kernel is one record of the interface
table.

## 7. What comes next

1. A refinement of `Pairing` to an atomic agreement on a profile, as far as
   `CompleteForBoth` carries it, and of `NetHelper` to a table of leases of addresses.
2. `Lifecycle` with two connections, whose services and endpoints are their own
   but whose network helper is one.
