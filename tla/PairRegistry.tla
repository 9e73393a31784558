---------------------------- MODULE PairRegistry ----------------------------
(***************************************************************************)
(* What the rendezvous service promises about durable pairs, with rooms,   *)
(* memory, the state file and crashes abstracted away.  A pair ID is bound *)
(* once and for ever to an ordered pair of distinct devices, only after    *)
(* both have submitted it, and only while neither is revoked; a device is  *)
(* told that a pair is committed only once it is bound, and never after    *)
(* the device is revoked.                                                  *)
(***************************************************************************)

CONSTANTS Device, PairId, None

VARIABLES
    consent,    \* {<<device, pair ID>>}: submissions the service accepted
    bound,      \* the durable binding of every pair ID, or None
    barred,     \* devices whose revocation is durable
    answered    \* {<<device, pair ID>>}: "committed" answers given

vars == <<consent, bound, barred, answered>>

Init ==
    /\ consent = {}
    /\ bound = [p \in PairId |-> None]
    /\ barred = {}
    /\ answered = {}

Submit(d, p) ==
    /\ d \notin barred
    /\ consent' = consent \cup {<<d, p>>}
    /\ UNCHANGED <<bound, barred, answered>>

Bind(p, h, g) ==
    /\ bound[p] = None
    /\ h # g
    /\ {h, g} \cap barred = {}
    /\ {<<h, p>>, <<g, p>>} \subseteq consent
    /\ bound' = [bound EXCEPT ![p] = [host |-> h, guest |-> g]]
    /\ UNCHANGED <<consent, barred, answered>>

Bar(d) ==
    /\ barred' = barred \cup {d}
    /\ UNCHANGED <<consent, bound, answered>>

Answer(d, p) ==
    /\ d \notin barred
    /\ bound[p] # None
    /\ d \in {bound[p].host, bound[p].guest}
    /\ answered' = answered \cup {<<d, p>>}
    /\ UNCHANGED <<consent, bound, barred>>

Next ==
    \/ \E d \in Device : Bar(d)
    \/ \E d \in Device, p \in PairId : Submit(d, p) \/ Answer(d, p)
    \/ \E p \in PairId, h, g \in Device : Bind(p, h, g)

Spec == Init /\ [][Next]_vars

=============================================================================
