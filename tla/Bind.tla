-------------------------------- MODULE Bind --------------------------------
(***************************************************************************)
(* The packet transport of internal/transport/bind.go: one direct path set *)
(* by the negotiating goroutine, one relay session kept by relayLoop, and  *)
(* WireGuard, which opens and closes receive generations and sends.        *)
(*                                                                         *)
(* Goroutines: the caller of SetDirect and, per path, its directReadLoop   *)
(* (setter), relayLoop (loop), the sender holding sendMu (send), a receive *)
(* callback per generation (call), callers of WaitRelay (waiter), and      *)
(* Shutdown, whose stages are stage:                                       *)
(*   no -> stopped -> barred -> deaf -> cancelled -> swept -> waiting      *)
(*   -> done                                                               *)
(* "barred": workersClosed.  "deaf": no generation may open.  "cancelled": *)
(* shutdownCh closed and the context cancelled.  "swept": both paths taken *)
(* out but not closed.  "waiting": in workers.Wait.                        *)
(* A critical section of pathMu is one step; so is what follows it without *)
(* touching shared state.                                                  *)
(***************************************************************************)
EXTENDS Integers, FiniteSets

CONSTANTS
    Path,           \* direct connections, each given to SetDirect once
    Link,           \* relay sessions a dial may bring up
    Waiter,         \* calls of WaitRelay
    Gen,            \* receive generations
    QueueDepth,     \* queueDepth
    MaxPackets,     \* bound: packets that arrive
    MaxSends,       \* bound: calls of sendOne
    None

VARIABLES
    stage, parentDone,
    direct, relay, mode,    \* guarded by pathMu
    open, broken,           \* connections not closed; ones whose I/O fails
    setter, old,            \* SetDirect(p) and the reader it starts
    swept,                  \* paths Shutdown took and still has to close
    loop, link,             \* relayLoop and its session
    waiter, current,        \* the waiters whose snapshot of wake is wake still
    send, viaDirect, viaRelay, sends,
    active, ended, call,    \* receive generations
    inbound, arrived

stopVars == <<stage, parentDone, swept>>
pathVars == <<direct, relay, mode>>
connVars == <<open, broken>>
setVars == <<setter, old>>
loopVars == <<loop, link>>
sendVars == <<send, viaDirect, viaRelay, sends>>
recvVars == <<active, ended, call>>
queueVars == <<inbound, arrived>>
vars == <<stopVars, pathVars, connVars, setVars, loopVars, waiter,
          current, sendVars, recvVars, queueVars>>

Conn == Path \cup Link

ASSUME ConnAssumption == Path \cap Link = {} /\ None \notin Conn \cup Gen
ASSUME BoundAssumption ==
    QueueDepth \in Nat \ {0} /\ MaxPackets \in Nat /\ MaxSends \in Nat
-----------------------------------------------------------------------------
Stopped == stage # "no"
WorkersClosed == stage \notin {"no", "stopped"}
Deaf == stage \notin {"no", "stopped", "barred"}
Cancelled == stage \in {"cancelled", "swept", "waiting", "done"}
CtxDone == parentDone \/ Cancelled

\* Reads and writes fail; a relay connection also ends with the context.
Fails(c) == c \notin open \/ c \in broken \/ (c \in Link /\ CtxDone)

EffectiveMode(d, r, closed) ==
    IF closed THEN "closed" ELSE IF d # None THEN "direct"
    ELSE IF r # None THEN "relay" ELSE "none"

\* updateModeLocked.
UpdateMode == mode' = EffectiveMode(direct', relay', Stopped)

\* Mutant: whatever path is selected is dropped.
Retire_AnyPath(p) ==
    /\ direct' = None
    /\ UNCHANGED relay
    /\ UpdateMode
    /\ open' = open \ {p}
\* Mutant: the mode is left as it was.
Retire_KeepsMode(p) ==
    /\ direct' = IF direct = p THEN None ELSE direct
    /\ UNCHANGED <<relay, mode>>
    /\ open' = open \ {p}
\* dropDirectPath.
Retire(p) ==
    /\ direct' = IF direct = p THEN None ELSE direct
    /\ UNCHANGED relay
    /\ IF direct = p THEN UpdateMode ELSE UNCHANGED mode
    /\ open' = open \ {p}

\* clearRelay and close of a session.
ClearRelay(l) ==
    /\ relay' = IF relay = l THEN None ELSE relay
    /\ current' = IF relay = l THEN {} ELSE current
    /\ UNCHANGED direct
    /\ IF relay = l THEN UpdateMode ELSE UNCHANGED mode
    /\ open' = open \ {l}

\* enqueue: a full queue drops the packet.
Enqueue == inbound' = IF Stopped \/ inbound = QueueDepth THEN inbound ELSE inbound + 1
-----------------------------------------------------------------------------
(* SetDirect, called by one goroutine, and directReadLoop.                 *)

SetDirect(p) ==
    /\ setter[p] = "new"
    /\ \A q \in Path : setter[q] \notin {"checked", "placed", "replaced", "dropping"}
    /\ setter' = [setter EXCEPT ![p] = IF Stopped THEN "refused" ELSE "checked"]
    /\ open' = IF Stopped THEN open ELSE open \cup {p}
    /\ UNCHANGED <<stopVars, pathVars, broken, old, loopVars, waiter, current,
                   sendVars, recvVars, queueVars>>

SetPlace(p) ==
    /\ setter[p] = "checked"
    /\ IF Stopped
         THEN /\ setter' = [setter EXCEPT ![p] = "refused"]
              /\ open' = open \ {p}
              /\ UNCHANGED <<pathVars, old>>
         ELSE /\ setter' = [setter EXCEPT ![p] = "placed"]
              /\ old' = [old EXCEPT ![p] = direct]
              /\ direct' = p
              /\ UNCHANGED <<relay, open>>
              /\ UpdateMode
    /\ UNCHANGED <<stopVars, broken, loopVars, waiter, current, sendVars, recvVars, queueVars>>

SetCloseOld(p) ==
    /\ setter[p] = "placed"
    /\ setter' = [setter EXCEPT ![p] = "replaced"]
    /\ old' = [old EXCEPT ![p] = None]
    /\ open' = open \ {old[p]}
    /\ UNCHANGED <<stopVars, pathVars, broken, loopVars, waiter, current,
                   sendVars, recvVars, queueVars>>

\* Mutant: a reader is started though workers are already waited for.
SetStart_Unchecked(p) ==
    /\ setter[p] = "replaced"
    /\ setter' = [setter EXCEPT ![p] = "reading"]
    /\ UNCHANGED <<stopVars, pathVars, connVars, old, loopVars, waiter, current,
                   sendVars, recvVars, queueVars>>
SetStart(p) ==
    /\ setter[p] = "replaced"
    /\ setter' = [setter EXCEPT ![p] = IF WorkersClosed THEN "dropping" ELSE "reading"]
    /\ UNCHANGED <<stopVars, pathVars, connVars, old, loopVars, waiter, current,
                   sendVars, recvVars, queueVars>>

ReadDirect(p) ==
    /\ setter[p] = "reading"
    /\ ~Fails(p)
    /\ arrived < MaxPackets
    /\ arrived' = arrived + 1
    /\ Enqueue
    /\ UNCHANGED <<stopVars, pathVars, connVars, setVars, loopVars, waiter, current,
                   sendVars, recvVars>>

ReadFails(p) ==
    /\ setter[p] = "reading"
    /\ Fails(p)
    /\ setter' = [setter EXCEPT ![p] = "failing"]
    /\ UNCHANGED <<stopVars, pathVars, connVars, old, loopVars, waiter, current,
                   sendVars, recvVars, queueVars>>

\* The end of a reader, and of a SetDirect that came too late.
DropPath(p) ==
    /\ setter[p] \in {"failing", "dropping"}
    /\ setter' = [setter EXCEPT ![p] = "gone"]
    /\ Retire(p)
    /\ UNCHANGED <<stopVars, broken, old, loopVars, waiter, current, sendVars, recvVars, queueVars>>

DropDirect ==
    /\ direct # None
    /\ direct' = None
    /\ UNCHANGED relay
    /\ UpdateMode
    /\ open' = open \ {direct}
    /\ UNCHANGED <<stopVars, broken, setVars, loopVars, waiter, current, sendVars,
                   recvVars, queueVars>>
-----------------------------------------------------------------------------
(* relayLoop.                                                              *)

LoopTo(at) == loop' = at /\ UNCHANGED link

LoopTurn ==
    /\ \/ loop = "top" /\ LoopTo(IF CtxDone THEN "gone" ELSE "dialing")
       \/ loop = "cleared" /\ LoopTo(IF CtxDone THEN "gone" ELSE "pausing")
       \/ loop = "pausing" /\ LoopTo(IF CtxDone THEN "gone" ELSE "top")
    /\ UNCHANGED <<stopVars, pathVars, connVars, setVars, waiter, current, sendVars,
                   recvVars, queueVars>>

DialFails ==
    /\ loop = "dialing"
    /\ LoopTo("pausing")
    /\ UNCHANGED <<stopVars, pathVars, connVars, setVars, waiter, current, sendVars,
                   recvVars, queueVars>>

\* A session is brought up once; link holds the last.
DialSucceeds(l) ==
    /\ loop = "dialing"
    /\ ~CtxDone
    /\ l \notin open \cup broken
    /\ loop' = "dialed"
    /\ link' = l
    /\ open' = open \cup {l}
    /\ UNCHANGED <<stopVars, pathVars, broken, setVars, waiter, current, sendVars,
                   recvVars, queueVars>>

\* replaceRelay looks at stopped before it takes pathMu.
ReplaceCheck ==
    /\ loop = "dialed"
    /\ LoopTo(IF Stopped THEN "serving" ELSE "placing")
    /\ open' = IF Stopped THEN open \ {link} ELSE open
    /\ UNCHANGED <<stopVars, pathVars, broken, setVars, waiter, current, sendVars,
                   recvVars, queueVars>>

\* Mutant: nobody is woken.
ReplaceRelay_Silent ==
    /\ loop = "placing"
    /\ LoopTo("serving")
    /\ relay' = link
    /\ UNCHANGED direct
    /\ UpdateMode
    /\ open' = open \ {relay}
    /\ UNCHANGED <<stopVars, broken, setVars, waiter, current, sendVars, recvVars, queueVars>>
ReplaceRelay ==
    /\ loop = "placing"
    /\ LoopTo("serving")
    /\ relay' = link
    /\ current' = {}
    /\ UNCHANGED direct
    /\ UpdateMode
    /\ open' = open \ {relay}
    /\ UNCHANGED <<stopVars, broken, setVars, waiter, sendVars, recvVars, queueVars>>

ReceiveRelay ==
    /\ loop = "serving"
    /\ ~Fails(link)
    /\ arrived < MaxPackets
    /\ arrived' = arrived + 1
    /\ Enqueue
    /\ UNCHANGED <<stopVars, pathVars, connVars, setVars, loopVars, waiter, current,
                   sendVars, recvVars>>

RelayEnds ==
    /\ loop = "serving"
    /\ Fails(link)
    /\ LoopTo("cleared")
    /\ ClearRelay(link)
    /\ broken' = broken \cup {link}
    /\ UNCHANGED <<stopVars, setVars, waiter, sendVars, recvVars, queueVars>>
-----------------------------------------------------------------------------
(* sendOne, under sendMu.                                                  *)

SendBegins ==
    /\ send = "idle"
    /\ sends < MaxSends
    /\ sends' = sends + 1
    /\ viaDirect' = direct
    /\ viaRelay' = relay
    /\ send' = IF direct # None THEN "direct" ELSE "relay"
    /\ UNCHANGED <<stopVars, pathVars, connVars, setVars, loopVars, waiter, current,
                   recvVars, queueVars>>

SendDirect ==
    /\ send = "direct"
    /\ IF Fails(viaDirect)
         THEN send' = "relay" /\ Retire(viaDirect) /\ UNCHANGED viaRelay
         ELSE send' = "idle" /\ viaRelay' = None /\ UNCHANGED <<pathVars, open>>
    /\ viaDirect' = None
    /\ UNCHANGED <<stopVars, broken, setVars, loopVars, waiter, current, sends,
                   recvVars, queueVars>>

SendRelay ==
    /\ send = "relay"
    /\ send' = "idle"
    /\ IF viaRelay # None /\ Fails(viaRelay)
         THEN ClearRelay(viaRelay)
         ELSE UNCHANGED <<pathVars, open, current>>
    /\ viaRelay' = None
    /\ UNCHANGED <<stopVars, broken, setVars, loopVars, waiter, viaDirect, sends,
                   recvVars, queueVars>>
-----------------------------------------------------------------------------
(* WaitRelay.                                                              *)

WaitRelay(w) ==
    /\ waiter[w] = "idle"
    /\ waiter' = [waiter EXCEPT ![w] = IF Stopped THEN "closed" ELSE "looking"]
    /\ UNCHANGED <<stopVars, pathVars, connVars, setVars, loopVars, current,
                   sendVars, recvVars, queueVars>>

LookForRelay(w) ==
    /\ waiter[w] = "looking"
    /\ waiter' = [waiter EXCEPT ![w] = IF relay # None THEN "ready" ELSE "waiting"]
    /\ current' = current \cup {w}
    /\ UNCHANGED <<stopVars, pathVars, connVars, setVars, loopVars, sendVars,
                   recvVars, queueVars>>

Woken(w) ==
    /\ waiter[w] = "waiting"
    /\ \/ w \notin current /\ waiter' = [waiter EXCEPT ![w] = "looking"]
       \/ Cancelled /\ waiter' = [waiter EXCEPT ![w] = "closed"]
    /\ UNCHANGED <<stopVars, pathVars, connVars, setVars, loopVars, current,
                   sendVars, recvVars, queueVars>>
-----------------------------------------------------------------------------
(* Open, Close and the receive callback of a generation.                   *)

Open(g) ==
    /\ ~Deaf
    /\ active = None
    /\ call[g] = "new"
    /\ active' = g
    /\ call' = [call EXCEPT ![g] = "called"]
    /\ UNCHANGED <<stopVars, pathVars, connVars, setVars, loopVars, waiter, current,
                   sendVars, ended, queueVars>>

Close ==
    /\ active # None
    /\ active' = None
    /\ ended' = ended \cup {active}
    /\ UNCHANGED <<stopVars, pathVars, connVars, setVars, loopVars, waiter, current,
                   sendVars, call, queueVars>>

\* Mutant: no check after a packet was taken.
ReceiveCheck_BeforeOnly(g) ==
    /\ call[g] \in {"called", "taken"}
    /\ call' = [call EXCEPT ![g] =
                  IF @ = "taken" THEN "delivered"
                  ELSE IF g \in ended \/ Stopped THEN "closed" ELSE "selecting"]
    /\ UNCHANGED <<stopVars, pathVars, connVars, setVars, loopVars, waiter, current,
                   sendVars, active, ended, queueVars>>
\* The check before the select, and the one after a packet was taken, behind
\* which the callback returns the packet.
ReceiveCheck(g) ==
    /\ call[g] \in {"called", "taken"}
    /\ call' = [call EXCEPT ![g] =
                  IF g \in ended \/ Stopped THEN "closed"
                  ELSE IF @ = "called" THEN "selecting" ELSE "delivered"]
    /\ UNCHANGED <<stopVars, pathVars, connVars, setVars, loopVars, waiter, current,
                   sendVars, active, ended, queueVars>>

\* WireGuard calls again until it is told net.ErrClosed.
CallAgain(g) ==
    /\ call[g] = "delivered"
    /\ call' = [call EXCEPT ![g] = "called"]
    /\ UNCHANGED <<stopVars, pathVars, connVars, setVars, loopVars, waiter, current,
                   sendVars, active, ended, queueVars>>

\* The select: any case that is ready.
ReceiveSelect(g) ==
    /\ call[g] = "selecting"
    /\ \/ /\ inbound > 0
          /\ inbound' = inbound - 1
          /\ call' = [call EXCEPT ![g] = "taken"]
       \/ /\ g \in ended \/ Cancelled
          /\ call' = [call EXCEPT ![g] = "closed"]
          /\ UNCHANGED inbound
    /\ UNCHANGED <<stopVars, pathVars, connVars, setVars, loopVars, waiter, current,
                   sendVars, active, ended, arrived>>
-----------------------------------------------------------------------------
(* Shutdown: by a caller at any time, or by the watcher of the context.    *)

StageTo(from, to) == stage = from /\ stage' = to /\ UNCHANGED parentDone

Shutdown ==
    /\ \/ StageTo("no", "stopped")
       \/ StageTo("stopped", "barred")
       \/ StageTo("deaf", "cancelled")
    /\ UNCHANGED <<swept, pathVars, connVars, setVars, loopVars, waiter, current, sendVars,
                   recvVars, queueVars>>

EndGeneration ==
    /\ StageTo("barred", "deaf")
    /\ active' = None
    /\ ended' = ended \cup ({active} \ {None})
    /\ UNCHANGED <<swept, pathVars, connVars, setVars, loopVars, waiter, current, sendVars,
                   call, queueVars>>

Sweep ==
    /\ StageTo("cancelled", "swept")
    /\ swept' = {direct, relay} \ {None}
    /\ direct' = None
    /\ relay' = None
    /\ current' = {}
    /\ UpdateMode
    /\ UNCHANGED <<connVars, setVars, loopVars, waiter, sendVars, recvVars, queueVars>>

\* Mutant: the direct connection is left to its reader.
CloseSwept_RelayOnly ==
    /\ StageTo("swept", "waiting")
    /\ swept' = {}
    /\ open' = open \ (swept \cap Link)
    /\ UNCHANGED <<pathVars, broken, setVars, loopVars, waiter, current, sendVars,
                   recvVars, queueVars>>
CloseSwept ==
    /\ StageTo("swept", "waiting")
    /\ swept' = {}
    /\ open' = open \ swept
    /\ UNCHANGED <<pathVars, broken, setVars, loopVars, waiter, current, sendVars,
                   recvVars, queueVars>>

\* workers.Wait returns.  A SetDirect that came too late is not a worker.
ShutdownReturns ==
    /\ StageTo("waiting", "done")
    /\ loop = "gone"
    /\ \A p \in Path : setter[p] \notin {"reading", "failing"}
    /\ UNCHANGED <<swept, pathVars, connVars, setVars, loopVars, waiter, current, sendVars,
                   recvVars, queueVars>>

ParentCancels ==
    /\ ~parentDone
    /\ parentDone' = TRUE
    /\ UNCHANGED <<stage, swept, pathVars, connVars, setVars, loopVars, waiter, current,
                   sendVars, recvVars, queueVars>>

\* ICE loses consent, or the relay or the network goes away.
Break(c) ==
    /\ c \in open
    /\ broken' = broken \cup {c}
    /\ UNCHANGED <<stopVars, pathVars, open, setVars, loopVars, waiter, current,
                   sendVars, recvVars, queueVars>>
-----------------------------------------------------------------------------
Init ==
    /\ stage = "no"
    /\ parentDone = FALSE
    /\ swept = {}
    /\ direct = None
    /\ relay = None
    /\ mode = "none"
    /\ open = {}
    /\ broken = {}
    /\ setter = [p \in Path |-> "new"]
    /\ old = [p \in Path |-> None]
    /\ loop = "top"
    /\ link = None
    /\ waiter = [w \in Waiter |-> "idle"]
    /\ current = {}
    /\ send = "idle"
    /\ viaDirect = None
    /\ viaRelay = None
    /\ sends = 0
    /\ active = None
    /\ ended = {}
    /\ call = [g \in Gen |-> "new"]
    /\ inbound = 0
    /\ arrived = 0

SetterStep(p) == SetPlace(p) \/ SetCloseOld(p) \/ SetStart(p) \/ ReadFails(p) \/ DropPath(p)
LoopStep == LoopTurn \/ DialFails \/ ReplaceCheck \/ ReplaceRelay \/ RelayEnds
WaiterStep(w) == LookForRelay(w) \/ Woken(w)
ReceiverStep(g) == ReceiveCheck(g) \/ ReceiveSelect(g) \/ CallAgain(g)
ShutdownStep == EndGeneration \/ Sweep \/ CloseSwept \/ ShutdownReturns

Next ==
    \/ \E p \in Path : SetDirect(p) \/ SetterStep(p) \/ ReadDirect(p)
    \/ DropDirect
    \/ LoopStep
    \/ \E l \in Link : DialSucceeds(l)
    \/ ReceiveRelay
    \/ SendBegins \/ SendDirect \/ SendRelay
    \/ \E w \in Waiter : WaitRelay(w) \/ WaiterStep(w)
    \/ \E g \in Gen : Open(g) \/ ReceiverStep(g)
    \/ Close
    \/ Shutdown \/ ShutdownStep
    \/ ParentCancels
    \/ \E c \in Conn : Break(c)

Spec == Init /\ [][Next]_vars

\* Goroutines that can run do; a dial is bounded by its timeout; the watcher
\* of the context calls Shutdown once the context is done.
Fairness ==
    /\ \A p \in Path : WF_vars(SetterStep(p))
    /\ WF_vars(LoopStep)
    /\ \A w \in Waiter : WF_vars(WaiterStep(w))
    /\ \A g \in Gen : WF_vars(ReceiverStep(g))
    /\ WF_vars((Shutdown /\ (CtxDone \/ Stopped)) \/ ShutdownStep)

FairSpec == Spec /\ Fairness
-----------------------------------------------------------------------------
(* Properties.                                                             *)

TypeOK ==
    /\ stage \in {"no", "stopped", "barred", "deaf", "cancelled", "swept", "waiting", "done"}
    /\ parentDone \in BOOLEAN
    /\ swept \subseteq Conn
    /\ direct \in Path \cup {None}
    /\ relay \in Link \cup {None}
    /\ mode \in {"none", "direct", "relay", "closed"}
    /\ open \subseteq Conn
    /\ broken \subseteq Conn
    /\ setter \in [Path -> {"new", "refused", "checked", "placed", "replaced",
                           "reading", "failing", "dropping", "gone"}]
    /\ old \in [Path -> Path \cup {None}]
    /\ loop \in {"top", "dialing", "dialed", "placing", "serving", "cleared", "pausing", "gone"}
    /\ link \in Link \cup {None}
    /\ waiter \in [Waiter -> {"idle", "looking", "waiting", "ready", "closed"}]
    /\ current \subseteq Waiter
    /\ send \in {"idle", "direct", "relay"}
    /\ viaDirect \in Path \cup {None}
    /\ viaRelay \in Link \cup {None}
    /\ sends \in 0..MaxSends
    /\ active \in Gen \cup {None}
    /\ ended \subseteq Gen
    /\ call \in [Gen -> {"new", "called", "selecting", "taken", "delivered", "closed"}]
    /\ inbound \in 0..QueueDepth
    /\ arrived \in 0..MaxPackets

\* No path leaks: an open connection is selected, or SetDirect, relayLoop or
\* Shutdown is about to select or close it.  So a reader or sender that fails
\* late never retires the successor of its path.
NoStrayPath ==
    /\ \A p \in Path \cap open :
         \/ direct = p
         \/ setter[p] = "checked"
         \/ \E q \in Path : setter[q] = "placed" /\ old[q] = p
         \/ p \in swept
    /\ \A l \in Link \cap open :
         relay = l \/ (link = l /\ loop \in {"dialed", "placing"}) \/ l \in swept

\* The mode that Stats reports is the effective path, "closed" once stopped.
ModeFollowsPaths ==
    \/ mode = EffectiveMode(direct, relay, FALSE)
    \/ Stopped /\ mode = "closed"

\* No wakeup is lost: a caller of WaitRelay that still sleeps on the current
\* channel has no relay to be told of.
NoLostWakeup ==
    \A w \in Waiter : (waiter[w] = "waiting" /\ w \in current) => relay = None

\* After Shutdown no path is selected, every relay and every connection that
\* was ever selected is closed, and no reader or relayLoop runs.
ShutdownIsFinal ==
    stage = "done" =>
        /\ direct = None /\ relay = None /\ mode = "closed"
        /\ loop = "gone"
        /\ \A p \in Path : setter[p] \notin {"reading", "failing"}
        /\ \A c \in open : c \in Path /\ setter[c] = "checked"

\* Shutdown returns, also when nothing but the context is cancelled.  (None of
\* the three is ever taken back, so this is a leads-to; and so below.)
ShutdownTerminates == []<>((Stopped \/ parentDone) => stage = "done")

\* Close wins over packets that are queued already: once a generation has
\* ended, or Shutdown has begun, a callback of it that had not passed its last
\* check hands over no packet; and it comes to return net.ErrClosed, whatever
\* is queued and whatever the next generation takes.
CallbacksReturn ==
    /\ [][\A g \in Gen :
            ((g \in ended \/ Stopped) /\ call[g] # "delivered") => call'[g] # "delivered"]_vars
    /\ []<>(\A g \in Gen : (call[g] # "new" /\ active # g) => call[g] = "closed")
=============================================================================
