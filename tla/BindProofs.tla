----------------------------- MODULE BindProofs -----------------------------
(***************************************************************************)
(* Proofs about the packet transport of module Bind, for any number of     *)
(* direct connections, relay sessions, waiting callers and generations.    *)
(***************************************************************************)
EXTENDS Bind, TLAPS

-----------------------------------------------------------------------------
(* The inductive invariant.                                                *)

\* SetDirect has one caller at a time.
Setting == {"checked", "placed", "replaced", "dropping"}
OneSetter ==
    \A p, q \in Path : (setter[p] \in Setting /\ setter[q] \in Setting) => p = q

\* A connection is open only while SetDirect or its reader has it, and never
\* is the old one of its own SetDirect.
PathInv ==
    /\ \A p \in Path : setter[p] \in {"new", "refused", "gone"} => p \notin open
    /\ direct # None => setter[direct] \notin {"new", "refused", "checked", "gone"}
    /\ \A p \in Path : old[p] # p

\* The relay in use is the session relayLoop serves.
RelayInv ==
    /\ relay # None => (relay = link /\ loop = "serving")
    /\ loop \in {"dialed", "placing", "serving"} => link # None

\* From the sweep on no path is selected again, but for a session that passed
\* the check of replaceRelay before.
SweepInv ==
    /\ swept # {} => stage = "swept"
    /\ stage \in {"swept", "waiting", "done"} => (direct = None /\ mode = "closed")

\* What Shutdown waited for stays so.
WorkersGone ==
    stage = "done" =>
        loop = "gone" /\ \A p \in Path : setter[p] \notin {"reading", "failing"}

IInv ==
    /\ TypeOK
    /\ OneSetter
    /\ PathInv
    /\ RelayInv
    /\ SweepInv
    /\ NoStrayPath
    /\ ModeFollowsPaths
    /\ NoLostWakeup
    /\ WorkersGone
-----------------------------------------------------------------------------
LEMMA Names ==
    None \notin Path /\ None \notin Link /\ None \notin Gen /\ Path \cap Link = {}
  BY ConnAssumption DEF Conn

\* The variables keep their types.
LEMMA TypeStep ==
    ASSUME TypeOK, RelayInv, [Next]_vars
    PROVE  TypeOK'
<1> USE BoundAssumption, Names DEF TypeOK, Conn, RelayInv, stopVars, pathVars,
        connVars, setVars, loopVars, sendVars, recvVars, queueVars
<1>1. ASSUME NEW p \in Path, SetDirect(p) PROVE TypeOK'
  BY <1>1 DEF SetDirect
<1>2. ASSUME NEW p \in Path, SetPlace(p) PROVE TypeOK'
  BY <1>2 DEF SetPlace, UpdateMode, EffectiveMode
<1>3. ASSUME NEW p \in Path, SetCloseOld(p) PROVE TypeOK'
  BY <1>3 DEF SetCloseOld
<1>4. ASSUME NEW p \in Path, SetStart(p) PROVE TypeOK'
  BY <1>4 DEF SetStart
<1>5. ASSUME NEW p \in Path, ReadFails(p) PROVE TypeOK'
  BY <1>5 DEF ReadFails
<1>6. ASSUME NEW p \in Path, DropPath(p) PROVE TypeOK'
  BY <1>6 DEF DropPath, Retire, UpdateMode, EffectiveMode
<1>7. ASSUME NEW p \in Path, ReadDirect(p) PROVE TypeOK'
  BY <1>7 DEF ReadDirect, Enqueue
<1>8. CASE DropDirect
  BY <1>8 DEF DropDirect, UpdateMode, EffectiveMode
<1>9. CASE LoopTurn
  BY <1>9 DEF LoopTurn, LoopTo
<1>10. CASE DialFails
  BY <1>10 DEF DialFails, LoopTo
<1>11. CASE ReplaceCheck
  BY <1>11 DEF ReplaceCheck, LoopTo
<1>12. CASE ReplaceRelay
  BY <1>12 DEF ReplaceRelay, LoopTo, UpdateMode, EffectiveMode
<1>13. CASE RelayEnds
  BY <1>13 DEF RelayEnds, LoopTo, ClearRelay, UpdateMode, EffectiveMode
<1>14. ASSUME NEW l \in Link, DialSucceeds(l) PROVE TypeOK'
  BY <1>14 DEF DialSucceeds
<1>15. CASE ReceiveRelay
  BY <1>15 DEF ReceiveRelay, Enqueue
<1>16. CASE SendBegins
  BY <1>16 DEF SendBegins
<1>17. CASE SendDirect
  BY <1>17 DEF SendDirect, Retire, UpdateMode, EffectiveMode
<1>18. CASE SendRelay
  BY <1>18 DEF SendRelay, ClearRelay, UpdateMode, EffectiveMode
<1>19. ASSUME NEW w \in Waiter, WaitRelay(w) PROVE TypeOK'
  BY <1>19 DEF WaitRelay
<1>20. ASSUME NEW w \in Waiter, LookForRelay(w) PROVE TypeOK'
  BY <1>20 DEF LookForRelay
<1>21. ASSUME NEW w \in Waiter, Woken(w) PROVE TypeOK'
  BY <1>21 DEF Woken
<1>22. ASSUME NEW g \in Gen, Open(g) PROVE TypeOK'
  BY <1>22 DEF Open
<1>23. ASSUME NEW g \in Gen, ReceiveCheck(g) PROVE TypeOK'
  BY <1>23 DEF ReceiveCheck
<1>24. ASSUME NEW g \in Gen, ReceiveSelect(g) PROVE TypeOK'
  BY <1>24 DEF ReceiveSelect
<1>25. ASSUME NEW g \in Gen, CallAgain(g) PROVE TypeOK'
  BY <1>25 DEF CallAgain
<1>26. CASE Close
  BY <1>26 DEF Close
<1>27. CASE Shutdown
  BY <1>27 DEF Shutdown, StageTo
<1>28. CASE EndGeneration
  BY <1>28 DEF EndGeneration, StageTo
<1>29. CASE Sweep
  BY <1>29 DEF Sweep, StageTo, UpdateMode, EffectiveMode
<1>30. CASE CloseSwept
  BY <1>30 DEF CloseSwept, StageTo
<1>31. CASE ShutdownReturns
  BY <1>31 DEF ShutdownReturns, StageTo
<1>32. CASE ParentCancels
  BY <1>32 DEF ParentCancels
<1>33. ASSUME NEW c \in Conn, Break(c) PROVE TypeOK'
  BY <1>33 DEF Break
<1>34. CASE UNCHANGED vars
  BY <1>34 DEF vars
<1> QED BY <1>1, <1>2, <1>3, <1>4, <1>5, <1>6, <1>7, <1>8, <1>9, <1>10, <1>11, <1>12,
            <1>13, <1>14, <1>15, <1>16, <1>17, <1>18, <1>19, <1>20, <1>21, <1>22,
            <1>23, <1>24, <1>25, <1>26, <1>27, <1>28, <1>29, <1>30, <1>31, <1>32, <1>33, <1>34
       DEF Next, SetterStep, LoopStep, WaiterStep, ReceiverStep, ShutdownStep

\* Only relayLoop selects a session, and it drops the one it stops serving.
LEMMA RelayStep ==
    ASSUME TypeOK, TypeOK', RelayInv, [Next]_vars
    PROVE  RelayInv'
<1> USE Names DEF RelayInv, stopVars, pathVars, connVars, setVars, loopVars,
        sendVars, recvVars, queueVars
<1>1. ASSUME NEW p \in Path, SetDirect(p) PROVE RelayInv'
  BY <1>1 DEF SetDirect, TypeOK
<1>2. ASSUME NEW p \in Path, SetPlace(p) PROVE RelayInv'
  BY <1>2 DEF SetPlace, TypeOK
<1>3. ASSUME NEW p \in Path, SetCloseOld(p) PROVE RelayInv'
  BY <1>3 DEF SetCloseOld, TypeOK
<1>4. ASSUME NEW p \in Path, SetStart(p) PROVE RelayInv'
  BY <1>4 DEF SetStart, TypeOK
<1>5. ASSUME NEW p \in Path, ReadFails(p) PROVE RelayInv'
  BY <1>5 DEF ReadFails, TypeOK
<1>6. ASSUME NEW p \in Path, DropPath(p) PROVE RelayInv'
  BY <1>6 DEF DropPath, Retire, TypeOK
<1>7. ASSUME NEW p \in Path, ReadDirect(p) PROVE RelayInv'
  BY <1>7 DEF ReadDirect, TypeOK
<1>8. CASE DropDirect
  BY <1>8 DEF DropDirect, TypeOK
<1>9. CASE LoopTurn
  BY <1>9 DEF LoopTurn, LoopTo, TypeOK
<1>10. CASE DialFails
  BY <1>10 DEF DialFails, LoopTo, TypeOK
<1>11. CASE ReplaceCheck
  BY <1>11 DEF ReplaceCheck, LoopTo, TypeOK
<1>12. CASE ReplaceRelay
  BY <1>12 DEF ReplaceRelay, LoopTo, TypeOK
<1>13. CASE RelayEnds
  BY <1>13 DEF RelayEnds, LoopTo, ClearRelay, TypeOK
<1>14. ASSUME NEW l \in Link, DialSucceeds(l) PROVE RelayInv'
  BY <1>14 DEF DialSucceeds, TypeOK
<1>15. CASE ReceiveRelay
  BY <1>15 DEF ReceiveRelay, TypeOK
<1>16. CASE SendBegins
  BY <1>16 DEF SendBegins, TypeOK
<1>17. CASE SendDirect
  BY <1>17 DEF SendDirect, Retire, TypeOK
<1>18. CASE SendRelay
  BY <1>18 DEF SendRelay, ClearRelay, TypeOK
<1>19. ASSUME NEW w \in Waiter, WaitRelay(w) PROVE RelayInv'
  BY <1>19 DEF WaitRelay, TypeOK
<1>20. ASSUME NEW w \in Waiter, LookForRelay(w) PROVE RelayInv'
  BY <1>20 DEF LookForRelay, TypeOK
<1>21. ASSUME NEW w \in Waiter, Woken(w) PROVE RelayInv'
  BY <1>21 DEF Woken, TypeOK
<1>22. ASSUME NEW g \in Gen, Open(g) PROVE RelayInv'
  BY <1>22 DEF Open, TypeOK
<1>23. ASSUME NEW g \in Gen, ReceiveCheck(g) PROVE RelayInv'
  BY <1>23 DEF ReceiveCheck, TypeOK
<1>24. ASSUME NEW g \in Gen, ReceiveSelect(g) PROVE RelayInv'
  BY <1>24 DEF ReceiveSelect, TypeOK
<1>25. ASSUME NEW g \in Gen, CallAgain(g) PROVE RelayInv'
  BY <1>25 DEF CallAgain, TypeOK
<1>26. CASE Close
  BY <1>26 DEF Close, TypeOK
<1>27. CASE Shutdown
  BY <1>27 DEF Shutdown, StageTo, TypeOK
<1>28. CASE EndGeneration
  BY <1>28 DEF EndGeneration, StageTo, TypeOK
<1>29. CASE Sweep
  BY <1>29 DEF Sweep, StageTo, TypeOK
<1>30. CASE CloseSwept
  BY <1>30 DEF CloseSwept, StageTo, TypeOK
<1>31. CASE ShutdownReturns
  BY <1>31 DEF ShutdownReturns, StageTo, TypeOK
<1>32. CASE ParentCancels
  BY <1>32 DEF ParentCancels, TypeOK
<1>33. ASSUME NEW c \in Conn, Break(c) PROVE RelayInv'
  BY <1>33 DEF Break, TypeOK
<1>34. CASE UNCHANGED vars
  BY <1>34 DEF vars
<1> QED BY <1>1, <1>2, <1>3, <1>4, <1>5, <1>6, <1>7, <1>8, <1>9, <1>10, <1>11, <1>12,
            <1>13, <1>14, <1>15, <1>16, <1>17, <1>18, <1>19, <1>20, <1>21, <1>22,
            <1>23, <1>24, <1>25, <1>26, <1>27, <1>28, <1>29, <1>30, <1>31, <1>32, <1>33, <1>34
       DEF Next, SetterStep, LoopStep, WaiterStep, ReceiverStep, ShutdownStep

\* The single caller of SetDirect, and what its stages hold open.
LEMMA SettersStep ==
    ASSUME TypeOK, TypeOK', OneSetter, PathInv, [Next]_vars
    PROVE  OneSetter' /\ PathInv'
<1> USE Names DEF OneSetter, PathInv, Setting, stopVars, pathVars, connVars,
        setVars, loopVars, sendVars, recvVars, queueVars
<1>1. ASSUME NEW p \in Path, SetDirect(p) PROVE OneSetter' /\ PathInv'
  BY <1>1 DEF SetDirect, TypeOK
<1>2. ASSUME NEW p \in Path, SetPlace(p) PROVE OneSetter' /\ PathInv'
  BY <1>2 DEF SetPlace, TypeOK
<1>3. ASSUME NEW p \in Path, SetCloseOld(p) PROVE OneSetter' /\ PathInv'
  BY <1>3 DEF SetCloseOld, TypeOK
<1>4. ASSUME NEW p \in Path, SetStart(p) PROVE OneSetter' /\ PathInv'
  BY <1>4 DEF SetStart, TypeOK
<1>5. ASSUME NEW p \in Path, ReadFails(p) PROVE OneSetter' /\ PathInv'
  BY <1>5 DEF ReadFails, TypeOK
<1>6. ASSUME NEW p \in Path, DropPath(p) PROVE OneSetter' /\ PathInv'
  BY <1>6 DEF DropPath, Retire, TypeOK
<1>7. ASSUME NEW p \in Path, ReadDirect(p) PROVE OneSetter' /\ PathInv'
  BY <1>7 DEF ReadDirect, TypeOK
<1>8. CASE DropDirect
  BY <1>8 DEF DropDirect, TypeOK
<1>9. CASE LoopTurn
  BY <1>9 DEF LoopTurn, LoopTo, TypeOK
<1>10. CASE DialFails
  BY <1>10 DEF DialFails, LoopTo, TypeOK
<1>11. CASE ReplaceCheck
  BY <1>11 DEF ReplaceCheck, LoopTo, TypeOK
<1>12. CASE ReplaceRelay
  BY <1>12 DEF ReplaceRelay, LoopTo, TypeOK
<1>13. CASE RelayEnds
  BY <1>13 DEF RelayEnds, LoopTo, ClearRelay, TypeOK
<1>14. ASSUME NEW l \in Link, DialSucceeds(l) PROVE OneSetter' /\ PathInv'
  BY <1>14 DEF DialSucceeds, TypeOK
<1>15. CASE ReceiveRelay
  BY <1>15 DEF ReceiveRelay, TypeOK
<1>16. CASE SendBegins
  BY <1>16 DEF SendBegins, TypeOK
<1>17. CASE SendDirect
  BY <1>17 DEF SendDirect, Retire, TypeOK
<1>18. CASE SendRelay
  BY <1>18 DEF SendRelay, ClearRelay, TypeOK
<1>19. ASSUME NEW w \in Waiter, WaitRelay(w) PROVE OneSetter' /\ PathInv'
  BY <1>19 DEF WaitRelay, TypeOK
<1>20. ASSUME NEW w \in Waiter, LookForRelay(w) PROVE OneSetter' /\ PathInv'
  BY <1>20 DEF LookForRelay, TypeOK
<1>21. ASSUME NEW w \in Waiter, Woken(w) PROVE OneSetter' /\ PathInv'
  BY <1>21 DEF Woken, TypeOK
<1>22. ASSUME NEW g \in Gen, Open(g) PROVE OneSetter' /\ PathInv'
  BY <1>22 DEF Open, TypeOK
<1>23. ASSUME NEW g \in Gen, ReceiveCheck(g) PROVE OneSetter' /\ PathInv'
  BY <1>23 DEF ReceiveCheck, TypeOK
<1>24. ASSUME NEW g \in Gen, ReceiveSelect(g) PROVE OneSetter' /\ PathInv'
  BY <1>24 DEF ReceiveSelect, TypeOK
<1>25. ASSUME NEW g \in Gen, CallAgain(g) PROVE OneSetter' /\ PathInv'
  BY <1>25 DEF CallAgain, TypeOK
<1>26. CASE Close
  BY <1>26 DEF Close, TypeOK
<1>27. CASE Shutdown
  BY <1>27 DEF Shutdown, StageTo, TypeOK
<1>28. CASE EndGeneration
  BY <1>28 DEF EndGeneration, StageTo, TypeOK
<1>29. CASE Sweep
  BY <1>29 DEF Sweep, StageTo, TypeOK
<1>30. CASE CloseSwept
  BY <1>30 DEF CloseSwept, StageTo, TypeOK
<1>31. CASE ShutdownReturns
  BY <1>31 DEF ShutdownReturns, StageTo, TypeOK
<1>32. CASE ParentCancels
  BY <1>32 DEF ParentCancels, TypeOK
<1>33. ASSUME NEW c \in Conn, Break(c) PROVE OneSetter' /\ PathInv'
  BY <1>33 DEF Break, TypeOK
<1>34. CASE UNCHANGED vars
  BY <1>34 DEF vars
<1> QED BY <1>1, <1>2, <1>3, <1>4, <1>5, <1>6, <1>7, <1>8, <1>9, <1>10, <1>11, <1>12,
            <1>13, <1>14, <1>15, <1>16, <1>17, <1>18, <1>19, <1>20, <1>21, <1>22,
            <1>23, <1>24, <1>25, <1>26, <1>27, <1>28, <1>29, <1>30, <1>31, <1>32, <1>33, <1>34
       DEF Next, SetterStep, LoopStep, WaiterStep, ReceiverStep, ShutdownStep

\* Nothing is selected once the paths were swept.
LEMMA SweepStep ==
    ASSUME TypeOK, SweepInv, [Next]_vars
    PROVE  SweepInv'
<1> USE DEF SweepInv, stopVars, pathVars, connVars, setVars, loopVars, sendVars,
        recvVars, queueVars
<1>1. ASSUME NEW p \in Path, SetDirect(p) PROVE SweepInv'
  BY <1>1 DEF SetDirect, Stopped
<1>2. ASSUME NEW p \in Path, SetPlace(p) PROVE SweepInv'
  BY <1>2 DEF SetPlace, UpdateMode, EffectiveMode, Stopped
<1>3. ASSUME NEW p \in Path, SetCloseOld(p) PROVE SweepInv'
  BY <1>3 DEF SetCloseOld, Stopped
<1>4. ASSUME NEW p \in Path, SetStart(p) PROVE SweepInv'
  BY <1>4 DEF SetStart, Stopped
<1>5. ASSUME NEW p \in Path, ReadFails(p) PROVE SweepInv'
  BY <1>5 DEF ReadFails, Stopped
<1>6. ASSUME NEW p \in Path, DropPath(p) PROVE SweepInv'
  BY <1>6 DEF DropPath, Retire, UpdateMode, EffectiveMode, Stopped
<1>7. ASSUME NEW p \in Path, ReadDirect(p) PROVE SweepInv'
  BY <1>7 DEF ReadDirect, Stopped
<1>8. CASE DropDirect
  BY <1>8 DEF DropDirect, UpdateMode, EffectiveMode, Stopped
<1>9. CASE LoopTurn
  BY <1>9 DEF LoopTurn, LoopTo, Stopped
<1>10. CASE DialFails
  BY <1>10 DEF DialFails, LoopTo, Stopped
<1>11. CASE ReplaceCheck
  BY <1>11 DEF ReplaceCheck, LoopTo, Stopped
<1>12. CASE ReplaceRelay
  BY <1>12 DEF ReplaceRelay, LoopTo, UpdateMode, EffectiveMode, Stopped
<1>13. CASE RelayEnds
  BY <1>13 DEF RelayEnds, LoopTo, ClearRelay, UpdateMode, EffectiveMode, Stopped
<1>14. ASSUME NEW l \in Link, DialSucceeds(l) PROVE SweepInv'
  BY <1>14 DEF DialSucceeds, Stopped
<1>15. CASE ReceiveRelay
  BY <1>15 DEF ReceiveRelay, Stopped
<1>16. CASE SendBegins
  BY <1>16 DEF SendBegins, Stopped
<1>17. CASE SendDirect
  BY <1>17 DEF SendDirect, Retire, UpdateMode, EffectiveMode, Stopped
<1>18. CASE SendRelay
  BY <1>18 DEF SendRelay, ClearRelay, UpdateMode, EffectiveMode, Stopped
<1>19. ASSUME NEW w \in Waiter, WaitRelay(w) PROVE SweepInv'
  BY <1>19 DEF WaitRelay, Stopped
<1>20. ASSUME NEW w \in Waiter, LookForRelay(w) PROVE SweepInv'
  BY <1>20 DEF LookForRelay, Stopped
<1>21. ASSUME NEW w \in Waiter, Woken(w) PROVE SweepInv'
  BY <1>21 DEF Woken, Stopped
<1>22. ASSUME NEW g \in Gen, Open(g) PROVE SweepInv'
  BY <1>22 DEF Open, Stopped
<1>23. ASSUME NEW g \in Gen, ReceiveCheck(g) PROVE SweepInv'
  BY <1>23 DEF ReceiveCheck, Stopped
<1>24. ASSUME NEW g \in Gen, ReceiveSelect(g) PROVE SweepInv'
  BY <1>24 DEF ReceiveSelect, Stopped
<1>25. ASSUME NEW g \in Gen, CallAgain(g) PROVE SweepInv'
  BY <1>25 DEF CallAgain, Stopped
<1>26. CASE Close
  BY <1>26 DEF Close, Stopped
<1>27. CASE Shutdown
  BY <1>27 DEF Shutdown, StageTo, Stopped
<1>28. CASE EndGeneration
  BY <1>28 DEF EndGeneration, StageTo, Stopped
<1>29. CASE Sweep
  BY <1>29 DEF Sweep, StageTo, UpdateMode, EffectiveMode, Stopped
<1>30. CASE CloseSwept
  BY <1>30 DEF CloseSwept, StageTo, Stopped
<1>31. CASE ShutdownReturns
  BY <1>31 DEF ShutdownReturns, StageTo, Stopped
<1>32. CASE ParentCancels
  BY <1>32 DEF ParentCancels, Stopped
<1>33. ASSUME NEW c \in Conn, Break(c) PROVE SweepInv'
  BY <1>33 DEF Break, Stopped
<1>34. CASE UNCHANGED vars
  BY <1>34 DEF vars
<1> QED BY <1>1, <1>2, <1>3, <1>4, <1>5, <1>6, <1>7, <1>8, <1>9, <1>10, <1>11, <1>12,
            <1>13, <1>14, <1>15, <1>16, <1>17, <1>18, <1>19, <1>20, <1>21, <1>22,
            <1>23, <1>24, <1>25, <1>26, <1>27, <1>28, <1>29, <1>30, <1>31, <1>32, <1>33, <1>34
       DEF Next, SetterStep, LoopStep, WaiterStep, ReceiverStep, ShutdownStep

\* Whatever step is taken, each open connection still has somebody to close it.
LEMMA StrayStep ==
    ASSUME TypeOK, SweepInv, NoStrayPath, [Next]_vars
    PROVE  NoStrayPath'
<1> USE Names DEF NoStrayPath, stopVars, pathVars, connVars, setVars, loopVars,
        sendVars, recvVars, queueVars
<1>1. ASSUME NEW p \in Path, SetDirect(p) PROVE NoStrayPath'
  BY <1>1 DEF SetDirect, TypeOK, Conn
<1>2. ASSUME NEW p \in Path, SetPlace(p) PROVE NoStrayPath'
  BY <1>2 DEF SetPlace, TypeOK, Conn
<1>3. ASSUME NEW p \in Path, SetCloseOld(p) PROVE NoStrayPath'
  BY <1>3 DEF SetCloseOld, TypeOK, Conn
<1>4. ASSUME NEW p \in Path, SetStart(p) PROVE NoStrayPath'
  BY <1>4 DEF SetStart, TypeOK, Conn
<1>5. ASSUME NEW p \in Path, ReadFails(p) PROVE NoStrayPath'
  BY <1>5 DEF ReadFails, TypeOK, Conn
<1>6. ASSUME NEW p \in Path, DropPath(p) PROVE NoStrayPath'
  BY <1>6 DEF DropPath, Retire, TypeOK, Conn
<1>7. ASSUME NEW p \in Path, ReadDirect(p) PROVE NoStrayPath'
  BY <1>7 DEF ReadDirect, TypeOK, Conn
<1>8. CASE DropDirect
  BY <1>8 DEF DropDirect, TypeOK, Conn
<1>9. CASE LoopTurn
  BY <1>9 DEF LoopTurn, LoopTo, TypeOK, Conn
<1>10. CASE DialFails
  BY <1>10 DEF DialFails, LoopTo, TypeOK, Conn
<1>11. CASE ReplaceCheck
  BY <1>11 DEF ReplaceCheck, LoopTo, TypeOK, Conn
<1>12. CASE ReplaceRelay
  BY <1>12 DEF ReplaceRelay, LoopTo, TypeOK, Conn
<1>13. CASE RelayEnds
  BY <1>13 DEF RelayEnds, LoopTo, ClearRelay, TypeOK, Conn
<1>14. ASSUME NEW l \in Link, DialSucceeds(l) PROVE NoStrayPath'
  BY <1>14 DEF DialSucceeds, TypeOK, Conn
<1>15. CASE ReceiveRelay
  BY <1>15 DEF ReceiveRelay, TypeOK, Conn
<1>16. CASE SendBegins
  BY <1>16 DEF SendBegins, TypeOK, Conn
<1>17. CASE SendDirect
  BY <1>17 DEF SendDirect, Retire, TypeOK, Conn
<1>18. CASE SendRelay
  BY <1>18 DEF SendRelay, ClearRelay, TypeOK, Conn
<1>19. ASSUME NEW w \in Waiter, WaitRelay(w) PROVE NoStrayPath'
  BY <1>19 DEF WaitRelay, TypeOK, Conn
<1>20. ASSUME NEW w \in Waiter, LookForRelay(w) PROVE NoStrayPath'
  BY <1>20 DEF LookForRelay, TypeOK, Conn
<1>21. ASSUME NEW w \in Waiter, Woken(w) PROVE NoStrayPath'
  BY <1>21 DEF Woken, TypeOK, Conn
<1>22. ASSUME NEW g \in Gen, Open(g) PROVE NoStrayPath'
  BY <1>22 DEF Open, TypeOK, Conn
<1>23. ASSUME NEW g \in Gen, ReceiveCheck(g) PROVE NoStrayPath'
  BY <1>23 DEF ReceiveCheck, TypeOK, Conn
<1>24. ASSUME NEW g \in Gen, ReceiveSelect(g) PROVE NoStrayPath'
  BY <1>24 DEF ReceiveSelect, TypeOK, Conn
<1>25. ASSUME NEW g \in Gen, CallAgain(g) PROVE NoStrayPath'
  BY <1>25 DEF CallAgain, TypeOK, Conn
<1>26. CASE Close
  BY <1>26 DEF Close, TypeOK, Conn
<1>27. CASE Shutdown
  BY <1>27 DEF Shutdown, StageTo, TypeOK, Conn
<1>28. CASE EndGeneration
  BY <1>28 DEF EndGeneration, StageTo, TypeOK, Conn
<1>29. CASE Sweep
  <2>1. /\ swept = {} /\ swept' = {direct, relay} \ {None}
        /\ UNCHANGED <<open, setter, old, loop, link>>
    BY <1>29 DEF Sweep, StageTo, SweepInv
  <2> QED BY <2>1 DEF TypeOK, Conn
<1>30. CASE CloseSwept
  BY <1>30 DEF CloseSwept, StageTo, TypeOK, Conn
<1>31. CASE ShutdownReturns
  BY <1>31 DEF ShutdownReturns, StageTo, TypeOK, Conn
<1>32. CASE ParentCancels
  BY <1>32 DEF ParentCancels, TypeOK, Conn
<1>33. ASSUME NEW c \in Conn, Break(c) PROVE NoStrayPath'
  BY <1>33 DEF Break, TypeOK, Conn
<1>34. CASE UNCHANGED vars
  BY <1>34 DEF vars
<1> QED BY <1>1, <1>2, <1>3, <1>4, <1>5, <1>6, <1>7, <1>8, <1>9, <1>10, <1>11, <1>12,
            <1>13, <1>14, <1>15, <1>16, <1>17, <1>18, <1>19, <1>20, <1>21, <1>22,
            <1>23, <1>24, <1>25, <1>26, <1>27, <1>28, <1>29, <1>30, <1>31, <1>32, <1>33, <1>34
       DEF Next, SetterStep, LoopStep, WaiterStep, ReceiverStep, ShutdownStep

\* Every change of a path updates the mode.
LEMMA ModeStep ==
    ASSUME TypeOK, ModeFollowsPaths, [Next]_vars
    PROVE  ModeFollowsPaths'
<1> USE Names DEF ModeFollowsPaths, Stopped, EffectiveMode, stopVars, pathVars,
        connVars, setVars, loopVars, sendVars, recvVars, queueVars
<1>1. ASSUME NEW p \in Path, SetDirect(p) PROVE ModeFollowsPaths'
  BY <1>1 DEF SetDirect, TypeOK
<1>2. ASSUME NEW p \in Path, SetPlace(p) PROVE ModeFollowsPaths'
  BY <1>2 DEF SetPlace, UpdateMode, TypeOK
<1>3. ASSUME NEW p \in Path, SetCloseOld(p) PROVE ModeFollowsPaths'
  BY <1>3 DEF SetCloseOld, TypeOK
<1>4. ASSUME NEW p \in Path, SetStart(p) PROVE ModeFollowsPaths'
  BY <1>4 DEF SetStart, TypeOK
<1>5. ASSUME NEW p \in Path, ReadFails(p) PROVE ModeFollowsPaths'
  BY <1>5 DEF ReadFails, TypeOK
<1>6. ASSUME NEW p \in Path, DropPath(p) PROVE ModeFollowsPaths'
  BY <1>6 DEF DropPath, Retire, UpdateMode, TypeOK
<1>7. ASSUME NEW p \in Path, ReadDirect(p) PROVE ModeFollowsPaths'
  BY <1>7 DEF ReadDirect, TypeOK
<1>8. CASE DropDirect
  BY <1>8 DEF DropDirect, UpdateMode, TypeOK
<1>9. CASE LoopTurn
  BY <1>9 DEF LoopTurn, LoopTo, TypeOK
<1>10. CASE DialFails
  BY <1>10 DEF DialFails, LoopTo, TypeOK
<1>11. CASE ReplaceCheck
  BY <1>11 DEF ReplaceCheck, LoopTo, TypeOK
<1>12. CASE ReplaceRelay
  BY <1>12 DEF ReplaceRelay, LoopTo, UpdateMode, TypeOK
<1>13. CASE RelayEnds
  BY <1>13 DEF RelayEnds, LoopTo, ClearRelay, UpdateMode, TypeOK
<1>14. ASSUME NEW l \in Link, DialSucceeds(l) PROVE ModeFollowsPaths'
  BY <1>14 DEF DialSucceeds, TypeOK
<1>15. CASE ReceiveRelay
  BY <1>15 DEF ReceiveRelay, TypeOK
<1>16. CASE SendBegins
  BY <1>16 DEF SendBegins, TypeOK
<1>17. CASE SendDirect
  BY <1>17 DEF SendDirect, Retire, UpdateMode, TypeOK
<1>18. CASE SendRelay
  BY <1>18 DEF SendRelay, ClearRelay, UpdateMode, TypeOK
<1>19. ASSUME NEW w \in Waiter, WaitRelay(w) PROVE ModeFollowsPaths'
  BY <1>19 DEF WaitRelay, TypeOK
<1>20. ASSUME NEW w \in Waiter, LookForRelay(w) PROVE ModeFollowsPaths'
  BY <1>20 DEF LookForRelay, TypeOK
<1>21. ASSUME NEW w \in Waiter, Woken(w) PROVE ModeFollowsPaths'
  BY <1>21 DEF Woken, TypeOK
<1>22. ASSUME NEW g \in Gen, Open(g) PROVE ModeFollowsPaths'
  BY <1>22 DEF Open, TypeOK
<1>23. ASSUME NEW g \in Gen, ReceiveCheck(g) PROVE ModeFollowsPaths'
  BY <1>23 DEF ReceiveCheck, TypeOK
<1>24. ASSUME NEW g \in Gen, ReceiveSelect(g) PROVE ModeFollowsPaths'
  BY <1>24 DEF ReceiveSelect, TypeOK
<1>25. ASSUME NEW g \in Gen, CallAgain(g) PROVE ModeFollowsPaths'
  BY <1>25 DEF CallAgain, TypeOK
<1>26. CASE Close
  BY <1>26 DEF Close, TypeOK
<1>27. CASE Shutdown
  BY <1>27 DEF Shutdown, StageTo, TypeOK
<1>28. CASE EndGeneration
  BY <1>28 DEF EndGeneration, StageTo, TypeOK
<1>29. CASE Sweep
  BY <1>29 DEF Sweep, StageTo, UpdateMode, TypeOK
<1>30. CASE CloseSwept
  BY <1>30 DEF CloseSwept, StageTo, TypeOK
<1>31. CASE ShutdownReturns
  BY <1>31 DEF ShutdownReturns, StageTo, TypeOK
<1>32. CASE ParentCancels
  BY <1>32 DEF ParentCancels, TypeOK
<1>33. ASSUME NEW c \in Conn, Break(c) PROVE ModeFollowsPaths'
  BY <1>33 DEF Break, TypeOK
<1>34. CASE UNCHANGED vars
  BY <1>34 DEF vars
<1> QED BY <1>1, <1>2, <1>3, <1>4, <1>5, <1>6, <1>7, <1>8, <1>9, <1>10, <1>11, <1>12,
            <1>13, <1>14, <1>15, <1>16, <1>17, <1>18, <1>19, <1>20, <1>21, <1>22,
            <1>23, <1>24, <1>25, <1>26, <1>27, <1>28, <1>29, <1>30, <1>31, <1>32, <1>33, <1>34
       DEF Next, SetterStep, LoopStep, WaiterStep, ReceiverStep, ShutdownStep

\* A session is selected together with the replacement of the wake channel.
LEMMA WakeStep ==
    ASSUME TypeOK, NoLostWakeup, [Next]_vars
    PROVE  NoLostWakeup'
<1> USE Names DEF NoLostWakeup, stopVars, pathVars, connVars, setVars, loopVars,
        sendVars, recvVars, queueVars
<1>1. ASSUME NEW p \in Path, SetDirect(p) PROVE NoLostWakeup'
  BY <1>1 DEF SetDirect, TypeOK
<1>2. ASSUME NEW p \in Path, SetPlace(p) PROVE NoLostWakeup'
  BY <1>2 DEF SetPlace, TypeOK
<1>3. ASSUME NEW p \in Path, SetCloseOld(p) PROVE NoLostWakeup'
  BY <1>3 DEF SetCloseOld, TypeOK
<1>4. ASSUME NEW p \in Path, SetStart(p) PROVE NoLostWakeup'
  BY <1>4 DEF SetStart, TypeOK
<1>5. ASSUME NEW p \in Path, ReadFails(p) PROVE NoLostWakeup'
  BY <1>5 DEF ReadFails, TypeOK
<1>6. ASSUME NEW p \in Path, DropPath(p) PROVE NoLostWakeup'
  BY <1>6 DEF DropPath, Retire, TypeOK
<1>7. ASSUME NEW p \in Path, ReadDirect(p) PROVE NoLostWakeup'
  BY <1>7 DEF ReadDirect, TypeOK
<1>8. CASE DropDirect
  BY <1>8 DEF DropDirect, TypeOK
<1>9. CASE LoopTurn
  BY <1>9 DEF LoopTurn, LoopTo, TypeOK
<1>10. CASE DialFails
  BY <1>10 DEF DialFails, LoopTo, TypeOK
<1>11. CASE ReplaceCheck
  BY <1>11 DEF ReplaceCheck, LoopTo, TypeOK
<1>12. CASE ReplaceRelay
  BY <1>12 DEF ReplaceRelay, LoopTo, TypeOK
<1>13. CASE RelayEnds
  BY <1>13 DEF RelayEnds, LoopTo, ClearRelay, TypeOK
<1>14. ASSUME NEW l \in Link, DialSucceeds(l) PROVE NoLostWakeup'
  BY <1>14 DEF DialSucceeds, TypeOK
<1>15. CASE ReceiveRelay
  BY <1>15 DEF ReceiveRelay, TypeOK
<1>16. CASE SendBegins
  BY <1>16 DEF SendBegins, TypeOK
<1>17. CASE SendDirect
  BY <1>17 DEF SendDirect, Retire, TypeOK
<1>18. CASE SendRelay
  BY <1>18 DEF SendRelay, ClearRelay, TypeOK
<1>19. ASSUME NEW w \in Waiter, WaitRelay(w) PROVE NoLostWakeup'
  BY <1>19 DEF WaitRelay, TypeOK
<1>20. ASSUME NEW w \in Waiter, LookForRelay(w) PROVE NoLostWakeup'
  BY <1>20 DEF LookForRelay, TypeOK
<1>21. ASSUME NEW w \in Waiter, Woken(w) PROVE NoLostWakeup'
  BY <1>21 DEF Woken, TypeOK
<1>22. ASSUME NEW g \in Gen, Open(g) PROVE NoLostWakeup'
  BY <1>22 DEF Open, TypeOK
<1>23. ASSUME NEW g \in Gen, ReceiveCheck(g) PROVE NoLostWakeup'
  BY <1>23 DEF ReceiveCheck, TypeOK
<1>24. ASSUME NEW g \in Gen, ReceiveSelect(g) PROVE NoLostWakeup'
  BY <1>24 DEF ReceiveSelect, TypeOK
<1>25. ASSUME NEW g \in Gen, CallAgain(g) PROVE NoLostWakeup'
  BY <1>25 DEF CallAgain, TypeOK
<1>26. CASE Close
  BY <1>26 DEF Close, TypeOK
<1>27. CASE Shutdown
  BY <1>27 DEF Shutdown, StageTo, TypeOK
<1>28. CASE EndGeneration
  BY <1>28 DEF EndGeneration, StageTo, TypeOK
<1>29. CASE Sweep
  BY <1>29 DEF Sweep, StageTo, TypeOK
<1>30. CASE CloseSwept
  BY <1>30 DEF CloseSwept, StageTo, TypeOK
<1>31. CASE ShutdownReturns
  BY <1>31 DEF ShutdownReturns, StageTo, TypeOK
<1>32. CASE ParentCancels
  BY <1>32 DEF ParentCancels, TypeOK
<1>33. ASSUME NEW c \in Conn, Break(c) PROVE NoLostWakeup'
  BY <1>33 DEF Break, TypeOK
<1>34. CASE UNCHANGED vars
  BY <1>34 DEF vars
<1> QED BY <1>1, <1>2, <1>3, <1>4, <1>5, <1>6, <1>7, <1>8, <1>9, <1>10, <1>11, <1>12,
            <1>13, <1>14, <1>15, <1>16, <1>17, <1>18, <1>19, <1>20, <1>21, <1>22,
            <1>23, <1>24, <1>25, <1>26, <1>27, <1>28, <1>29, <1>30, <1>31, <1>32, <1>33, <1>34
       DEF Next, SetterStep, LoopStep, WaiterStep, ReceiverStep, ShutdownStep

\* No worker starts once Shutdown has waited for them.
LEMMA WorkersStep ==
    ASSUME TypeOK, WorkersGone, [Next]_vars
    PROVE  WorkersGone'
<1> USE DEF WorkersGone, stopVars, pathVars, connVars, setVars, loopVars, sendVars,
        recvVars, queueVars
<1>1. ASSUME NEW p \in Path, SetDirect(p) PROVE WorkersGone'
  BY <1>1 DEF SetDirect, TypeOK
<1>2. ASSUME NEW p \in Path, SetPlace(p) PROVE WorkersGone'
  BY <1>2 DEF SetPlace, TypeOK
<1>3. ASSUME NEW p \in Path, SetCloseOld(p) PROVE WorkersGone'
  BY <1>3 DEF SetCloseOld, TypeOK
<1>4. ASSUME NEW p \in Path, SetStart(p) PROVE WorkersGone'
  BY <1>4 DEF SetStart, TypeOK, WorkersClosed
<1>5. ASSUME NEW p \in Path, ReadFails(p) PROVE WorkersGone'
  BY <1>5 DEF ReadFails, TypeOK
<1>6. ASSUME NEW p \in Path, DropPath(p) PROVE WorkersGone'
  BY <1>6 DEF DropPath, TypeOK
<1>7. ASSUME NEW p \in Path, ReadDirect(p) PROVE WorkersGone'
  BY <1>7 DEF ReadDirect, TypeOK
<1>8. CASE DropDirect
  BY <1>8 DEF DropDirect, TypeOK
<1>9. CASE LoopTurn
  BY <1>9 DEF LoopTurn, LoopTo, TypeOK
<1>10. CASE DialFails
  BY <1>10 DEF DialFails, LoopTo, TypeOK
<1>11. CASE ReplaceCheck
  BY <1>11 DEF ReplaceCheck, LoopTo, TypeOK
<1>12. CASE ReplaceRelay
  BY <1>12 DEF ReplaceRelay, LoopTo, TypeOK
<1>13. CASE RelayEnds
  BY <1>13 DEF RelayEnds, LoopTo, TypeOK
<1>14. ASSUME NEW l \in Link, DialSucceeds(l) PROVE WorkersGone'
  BY <1>14 DEF DialSucceeds, TypeOK
<1>15. CASE ReceiveRelay
  BY <1>15 DEF ReceiveRelay, TypeOK
<1>16. CASE SendBegins
  BY <1>16 DEF SendBegins, TypeOK
<1>17. CASE SendDirect
  BY <1>17 DEF SendDirect, TypeOK
<1>18. CASE SendRelay
  BY <1>18 DEF SendRelay, TypeOK
<1>19. ASSUME NEW w \in Waiter, WaitRelay(w) PROVE WorkersGone'
  BY <1>19 DEF WaitRelay, TypeOK
<1>20. ASSUME NEW w \in Waiter, LookForRelay(w) PROVE WorkersGone'
  BY <1>20 DEF LookForRelay, TypeOK
<1>21. ASSUME NEW w \in Waiter, Woken(w) PROVE WorkersGone'
  BY <1>21 DEF Woken, TypeOK
<1>22. ASSUME NEW g \in Gen, Open(g) PROVE WorkersGone'
  BY <1>22 DEF Open, TypeOK
<1>23. ASSUME NEW g \in Gen, ReceiveCheck(g) PROVE WorkersGone'
  BY <1>23 DEF ReceiveCheck, TypeOK
<1>24. ASSUME NEW g \in Gen, ReceiveSelect(g) PROVE WorkersGone'
  BY <1>24 DEF ReceiveSelect, TypeOK
<1>25. ASSUME NEW g \in Gen, CallAgain(g) PROVE WorkersGone'
  BY <1>25 DEF CallAgain, TypeOK
<1>26. CASE Close
  BY <1>26 DEF Close, TypeOK
<1>27. CASE Shutdown
  BY <1>27 DEF Shutdown, StageTo, TypeOK
<1>28. CASE EndGeneration
  BY <1>28 DEF EndGeneration, StageTo, TypeOK
<1>29. CASE Sweep
  BY <1>29 DEF Sweep, StageTo, TypeOK
<1>30. CASE CloseSwept
  BY <1>30 DEF CloseSwept, StageTo, TypeOK
<1>31. CASE ShutdownReturns
  BY <1>31 DEF ShutdownReturns, StageTo, TypeOK
<1>32. CASE ParentCancels
  BY <1>32 DEF ParentCancels, TypeOK
<1>33. ASSUME NEW c \in Conn, Break(c) PROVE WorkersGone'
  BY <1>33 DEF Break, TypeOK
<1>34. CASE UNCHANGED vars
  BY <1>34 DEF vars
<1> QED BY <1>1, <1>2, <1>3, <1>4, <1>5, <1>6, <1>7, <1>8, <1>9, <1>10, <1>11, <1>12,
            <1>13, <1>14, <1>15, <1>16, <1>17, <1>18, <1>19, <1>20, <1>21, <1>22,
            <1>23, <1>24, <1>25, <1>26, <1>27, <1>28, <1>29, <1>30, <1>31, <1>32, <1>33, <1>34
       DEF Next, SetterStep, LoopStep, WaiterStep, ReceiverStep, ShutdownStep

\* When Shutdown has returned nothing but connections that SetDirect is about
\* to refuse is open.
LEMMA FinalState ==
    ASSUME IInv
    PROVE  ShutdownIsFinal
<1> SUFFICES ASSUME stage = "done" PROVE ShutdownIsFinal
  BY DEF ShutdownIsFinal
<1>1. loop = "gone" /\ \A p \in Path : setter[p] \notin {"reading", "failing"}
  BY DEF IInv, WorkersGone
<1>2. direct = None /\ mode = "closed" /\ swept = {}
  BY DEF IInv, SweepInv
<1>3. relay = None
  BY <1>1 DEF IInv, RelayInv
<1>4. \A l \in Link \cap open : FALSE
  BY <1>1, <1>2, <1>3, Names DEF IInv, NoStrayPath
<1>5. ASSUME NEW p \in Path \cap open PROVE setter[p] = "checked"
  <2> SUFFICES ASSUME setter[p] # "checked" PROVE FALSE
    OBVIOUS
  <2>1. PICK q \in Path : setter[q] = "placed" /\ old[q] = p
    BY <1>2, Names DEF IInv, NoStrayPath
  <2>2. q # p
    BY <2>1 DEF IInv, PathInv
  <2>3. setter[p] \notin Setting
    BY <2>1, <2>2 DEF IInv, OneSetter, Setting
  <2>4. setter[p] \notin {"new", "refused", "gone"}
    BY DEF IInv, PathInv
  <2> QED BY <1>1, <2>3, <2>4 DEF IInv, TypeOK, Setting
<1>6. open \subseteq Path \cup Link
  BY DEF IInv, TypeOK, Conn
<1> QED BY <1>1, <1>2, <1>3, <1>4, <1>5, <1>6 DEF ShutdownIsFinal

THEOREM Inductive == Spec => []IInv
<1>1. Init => IInv
  <2> SUFFICES ASSUME Init PROVE IInv
    OBVIOUS
  <2>1. TypeOK
    <3>1. /\ setter \in [Path -> {"new", "refused", "checked", "placed", "replaced",
                               "reading", "failing", "dropping", "gone"}]
          /\ old \in [Path -> Path \cup {None}]
      BY DEF Init
    <3>2. /\ waiter \in [Waiter -> {"idle", "looking", "waiting", "ready", "closed"}]
          /\ current \subseteq Waiter
          /\ call \in [Gen -> {"new", "called", "selecting", "taken", "delivered", "closed"}]
      BY DEF Init
    <3>3. inbound \in 0..QueueDepth /\ arrived \in 0..MaxPackets /\ sends \in 0..MaxSends
      BY BoundAssumption DEF Init
    <3> QED BY <3>1, <3>2, <3>3 DEF Init, TypeOK
  <2>2. OneSetter /\ PathInv /\ RelayInv /\ SweepInv
    BY Names DEF Init, OneSetter, Setting, PathInv, RelayInv, SweepInv
  <2>3. NoStrayPath /\ ModeFollowsPaths /\ NoLostWakeup /\ WorkersGone
    BY DEF Init, NoStrayPath, ModeFollowsPaths, EffectiveMode, NoLostWakeup, WorkersGone
  <2> QED BY <2>1, <2>2, <2>3 DEF IInv
<1>2. IInv /\ [Next]_vars => IInv'
  <2> SUFFICES ASSUME IInv, [Next]_vars PROVE IInv'
    OBVIOUS
  <2>1. TypeOK'
    BY TypeStep DEF IInv
  <2>2. OneSetter' /\ PathInv' /\ RelayInv'
    BY <2>1, SettersStep, RelayStep DEF IInv
  <2>3. SweepInv' /\ NoStrayPath' /\ ModeFollowsPaths' /\ NoLostWakeup' /\ WorkersGone'
    BY SweepStep, StrayStep, ModeStep, WakeStep, WorkersStep DEF IInv
  <2> QED BY <2>1, <2>2, <2>3 DEF IInv
<1> QED BY <1>1, <1>2, PTL DEF Spec

\* The variables have their types.
THEOREM TypeCorrect == Spec => []TypeOK
<1>1. IInv => TypeOK
  BY DEF IInv
<1> QED BY <1>1, Inductive, PTL

\* Every open connection is selected or about to be closed: the identity
\* checks of dropDirectPath and clearRelay never retire a successor.
THEOREM PathsAreOwned == Spec => []NoStrayPath
<1>1. IInv => NoStrayPath
  BY DEF IInv
<1> QED BY <1>1, Inductive, PTL

\* The mode Stats reports is that of the selected paths.
THEOREM ModeIsTrue == Spec => []ModeFollowsPaths
<1>1. IInv => ModeFollowsPaths
  BY DEF IInv
<1> QED BY <1>1, Inductive, PTL

\* A caller of WaitRelay that sleeps on the current channel has no relay.
THEOREM WakeupsKept == Spec => []NoLostWakeup
<1>1. IInv => NoLostWakeup
  BY DEF IInv
<1> QED BY <1>1, Inductive, PTL

\* Shutdown leaves no path, no worker and no connection that was selected.
THEOREM ShutdownIsTheEnd == Spec => []ShutdownIsFinal
<1>1. IInv => ShutdownIsFinal
  BY FinalState
<1> QED BY <1>1, Inductive, PTL
=============================================================================
