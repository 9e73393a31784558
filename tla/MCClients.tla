------------------------------ MODULE MCClients ------------------------------
(***************************************************************************)
(* The parts of a client, each by itself in one state graph: its encrypted *)
(* session with a peer, how two clients pair, how two runners agree on a   *)
(* direct path, how a runner keeps its access to the relay.  A behaviour   *)
(* is one of the part that was chosen at its start.                        *)
(***************************************************************************)
EXTENDS Session, Pairing, Signaling, RelayAccess

CONSTANT Parts

VARIABLE part

clientsVars == <<part, vars, pairingVars, signalingVars, relayAccessVars>>

MCPrivate == 24..31
MCNetworks == {[addr |-> 24, bits |-> b] : b \in {1, 2, 4}}
ShortestNetwork == [addr |-> 24, bits |-> 4]

\* What a part may be set to is left open only if it is the one chosen.
ClientsInit ==
    /\ part \in Parts
    /\ Init
    /\ PairingInit /\ (part # "pairing" => network = ShortestNetwork)
    /\ SignalingInit /\ (part # "signaling" => relayOnly = {})
    /\ RelayAccessInit

\* Bound: frames sealed.
FewFrames == Cardinality(net) <= 4

ClientsNext ==
    \/ /\ part = "session" /\ Next
       /\ UNCHANGED <<part, pairingVars, signalingVars, relayAccessVars>>
    \/ /\ part = "pairing" /\ PairingNext
       /\ UNCHANGED <<part, vars, signalingVars, relayAccessVars>>
    \/ /\ part = "signaling" /\ SignalingNext
       /\ UNCHANGED <<part, vars, pairingVars, relayAccessVars>>
    \/ /\ part = "relay" /\ RelayAccessNext
       /\ UNCHANGED <<part, vars, pairingVars, signalingVars>>

\* A call of Pair goes on while it can.
PairingFairness ==
    /\ \A s \in Party : WF_pairingVars(part = "pairing" /\ Working(s))
    /\ WF_pairingVars(part = "pairing" /\ HostWorks)
    /\ WF_pairingVars(part = "pairing" /\ GuestWorks)

\* Every goroutine of a runner that can run does, frames arrive, consent that is
\* not renewed expires; the checks of two agents that try succeed before they time
\* out.  A runner that was stopped is started again.
SignalingFairness ==
    /\ \A s \in Side :
         /\ WF_signalingVars(part = "signaling" /\ Connecting(s))
         /\ WF_signalingVars(part = "signaling" /\ Negotiating(s))
         /\ WF_signalingVars(part = "signaling" /\ PathLost(s))
         /\ WF_signalingVars(part = "signaling" /\ Start(s))
    /\ WF_signalingVars(part = "signaling" /\ Hosting)
    /\ WF_signalingVars(part = "signaling" /\ ReadOffer)
    /\ \A g \in Generation : WF_signalingVars(part = "signaling" /\ Nominate(g))
    /\ \A c \in Socket : WF_signalingVars(part = "signaling" /\ Serving(c))

\* Runners look and connect, time goes on, a server that stopped is started again.
RelayAccessFairness ==
    /\ \A r \in Runner :
         /\ WF_relayAccessVars(part = "relay" /\ StartRunner(r))
         /\ WF_relayAccessVars(part = "relay" /\ Look(r))
         /\ WF_relayAccessVars(part = "relay" /\ Connect(r))
    /\ WF_relayAccessVars(part = "relay" /\ Tick)
    /\ WF_relayAccessVars(part = "relay" /\ ServerStarts)

ClientsSpec ==
    /\ ClientsInit /\ [][ClientsNext]_clientsVars
    /\ PairingFairness /\ SignalingFairness /\ RelayAccessFairness
-----------------------------------------------------------------------------
\* The type invariants of the parts: what leaves its type is a window that
\* outgrows its word, a channel longer than its capacity, a negotiation that goes
\* on after its last attempt, a lease longer than one period.
ClientsTypeOK == TypeOK /\ PairingTypeOK /\ SignalingTypeOK /\ RelayAccessTypeOK

\* Every call of Pair ends; two runners come to the same direct path once nothing
\* fails any more; a runner comes back to the relay.
ClientsProgress ==
    /\ part = "pairing" => CallsEnd
    /\ part = "signaling" => Converges
    /\ part = "relay" => RelayRegained
=============================================================================
