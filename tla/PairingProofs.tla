---------------------------- MODULE PairingProofs ----------------------------
(*****************************************************************************)
(* Proofs about Pairing, for any codes, rooms and networks and any numbers   *)
(* of calls, tries and faults.                                               *)
(*                                                                           *)
(* Two calls agree because a secret names the two calls it was made in and   *)
(* was opened with the codes of both, because the host has one proposal      *)
(* under way at a time within one secret, and because a guest is ready to    *)
(* store one thing in one call.  CoreInv says so whatever is lost; CalmInv   *)
(* is what holds besides until the first mishap, and is why two calls of     *)
(* which nothing is lost end alike.                                          *)
(*****************************************************************************)
EXTENDS Pairing, SequenceTheorems, NaturalsInduction, WellFoundedInduction, TLAPS

-----------------------------------------------------------------------------
(* Pairing: what is under way between two calls of Pair.                     *)

\* The frames of the key exchange and of the session that name the exchange.
Sealed == {"ke1", "ke3", "guestMAC", "hostMAC", "hello", "identity"}
Bodies(R) == [call : 1..MaxCalls, secret : Secret, root : R]
Proposals == UNION {RandomPairs(n) : n \in Networks}
RoomFrame ==
    [kind : {"up", "down"}]
    \cup [kind : Sealed, body : Bodies(Root \cup {Unset})]
    \cup [kind : {"ke2"}, body : Bodies(Root)]
    \cup [kind : {"proposal"}, body : Bodies(Root), says : Proposals]
    \cup [kind : {"reply"}, body : Bodies(Root), says : BOOLEAN]

\* The stages in which a side has its secret.
Rooted(s) == {"guestMAC", "hostMAC", "hello", "identity", "committing", "done"} \cup Addressing
             \cup (IF s = "host" THEN {"ke3"} ELSE {})

StageName == {"idle", "creating", "dialing", "up", "ke1", "ke3", "ke2", "guestMAC", "hostMAC",
              "hello", "identity", "offering", "proposed", "listening", "committing", "done",
              "failed"}

\* A call of Pair has a code and a number, and a secret from the answer to KE1 on;
\* a proposal under way is one of those a host makes.
CallInv ==
    /\ stage \in [Party -> StageName]
    /\ wire \in [Party -> Seq(RoomFrame)]
    /\ \A s \in Party :
        /\ stage[s] # "idle" => calls[s] \in 1..MaxCalls /\ code[s] \in Code
        /\ stage[s] \in Rooted(s) => root[s] \in Root
    /\ stage["host"] = "proposed" => tries["host"] < AddressTries

PairInv == PairingTypeOK /\ CallInv

LEMMA FrameKinds ==
    ASSUME NEW m \in RoomFrame
    PROVE  /\ m.kind \in {"up", "down", "ke2", "proposal", "reply"} \cup Sealed
           /\ m.kind \in Sealed => m.body \in Bodies(Root \cup {Unset})
           /\ m.kind \in {"ke2", "proposal", "reply"} => m.body \in Bodies(Root)
BY DEF RoomFrame, Sealed

LEMMA FramesMade ==
    /\ Plain("up") \in RoomFrame /\ Plain("down") \in RoomFrame
    /\ \A k \in Sealed : \A b \in Bodies(Root \cup {Unset}) : Framed(k, b) \in RoomFrame
    /\ \A b \in Bodies(Root) : Framed("ke2", b) \in RoomFrame
    /\ \A b \in Bodies(Root) : \A a \in Proposals :
          [kind |-> "proposal", body |-> b, says |-> a] \in RoomFrame
    /\ \A b \in Bodies(Root) : \A f \in BOOLEAN :
          [kind |-> "reply", body |-> b, says |-> f] \in RoomFrame
BY DEF RoomFrame, Plain, Framed, Sealed

LEMMA Others == \A s \in Party : Counterpart(s) \in Party /\ Counterpart(s) # s
BY DEF Party, Counterpart

LEMMA SentTyped ==
    ASSUME NEW s \in Party, NEW w \in [Party -> Seq(RoomFrame)], NEW frames \in Seq(RoomFrame)
    PROVE  Sent(s, w, frames) \in [Party -> Seq(RoomFrame)]
<1> DEFINE o == Counterpart(s)
<1>1. o \in Party
      BY Others
<1> HIDE DEF o
<1>2. w[o] \o frames \in Seq(RoomFrame)
      BY <1>1
<1>3. [w EXCEPT ![o] = w[o] \o frames] \in [Party -> Seq(RoomFrame)]
      BY <1>1, <1>2
<1> QED BY <1>3 DEF Sent, o

LEMMA OneFrame == \A m \in RoomFrame : <<m>> \in Seq(RoomFrame)
OBVIOUS

LEMMA NoFrame == <<>> \in Seq(RoomFrame)
OBVIOUS

LEMMA ToldTyped ==
    ASSUME PairInv, NEW s \in Party
    PROVE  Told(s) \in [Party -> Seq(RoomFrame)]
<1>1. wire \in [Party -> Seq(RoomFrame)] /\ <<Plain("down")>> \in Seq(RoomFrame)
      BY FramesMade, OneFrame DEF PairInv, CallInv
<1>2. Sent(s, wire, <<Plain("down")>>) \in [Party -> Seq(RoomFrame)]
      BY <1>1, SentTyped
<1> QED BY <1>2, NoFrame DEF Told

LEMMA LeftTyped ==
    ASSUME PairInv, NEW s \in Party
    PROVE  Left(s) \in [Room -> SUBSET Party]
<1>1. slot \in [Room -> SUBSET Party]
      BY DEF PairInv, PairingTypeOK
<1> QED BY <1>1 DEF Left

\* The frame a side reads.
LEMMA ReadTyped ==
    ASSUME PairInv, NEW s \in Party, HasFrame(s)
    PROVE  /\ Received(s) \in RoomFrame
           /\ [wire EXCEPT ![s] = Tail(@)] \in [Party -> Seq(RoomFrame)]
<1>1. wire \in [Party -> Seq(RoomFrame)] /\ wire[s] \in Seq(RoomFrame) /\ wire[s] # <<>>
      BY DEF PairInv, CallInv, HasFrame
<1>2. Head(wire[s]) \in RoomFrame /\ Tail(wire[s]) \in Seq(RoomFrame)
      BY <1>1
<1> QED BY <1>1, <1>2 DEF Received

LEMMA MishapTyped ==
    ASSUME mishaps \in 0..MaxMishaps, Mishap \/ mishaps' = mishaps
    PROVE  mishaps' \in 0..MaxMishaps
BY PairingAssumption DEF Mishap

\* The stages of either side.
StagesOf(s) == DOMAIN After[s] \cup Addressing
                 \cup {"idle", "creating", "dialing", "committing", "done", "failed"}

LEMMA Stages ==
    /\ \A s \in Party : /\ {"up", "hello", "identity"} \subseteq DOMAIN After[s]
                        /\ "creating" \notin DOMAIN After[s] \cup Addressing
                        /\ "proposed" \notin DOMAIN After[s]
                        /\ "failed" \notin DOMAIN After[s] \cup Addressing
                        /\ "idle" \notin DOMAIN After[s] \cup Addressing
                        /\ "up" \notin Rooted(s)
    /\ DOMAIN After["host"] = {"up", "ke1", "ke3", "guestMAC", "hello", "identity"}
    /\ DOMAIN After["guest"] = {"up", "ke2", "hostMAC", "hello", "identity"}
BY DEF After, Addressing, Party, Rooted

LEMMA Staged ==
    ASSUME PairInv, NEW s \in Party, NEW k \in StageName, stage' = [stage EXCEPT ![s] = k]
    PROVE  /\ stage' \in [Party -> StageName] /\ stage'[s] = k
           /\ \A p \in Party \ {s} : stage'[p] = stage[p]
<1>1. stage \in [Party -> StageName]
      BY DEF PairInv, CallInv
<1> QED BY <1>1

LEMMA Named ==
    /\ {"creating", "dialing", "up", "failed", "offering", "proposed", "committing", "done"}
          \subseteq StageName
    /\ {"host", "guest"} \subseteq Party
BY DEF StageName, Party

LEMMA FailKeeps ==
    ASSUME PairInv, NEW s \in Party, Fail(s), stage[s] # "idle",
           Mishap \/ mishaps' = mishaps
    PROVE  PairInv'
<1>1. /\ stage' = [stage EXCEPT ![s] = "failed"] /\ wire' = Told(s) /\ slot' = Left(s)
      /\ UNCHANGED <<calls, code, shown, tries, root, network, offer, ready, open, commit, pairs>>
      BY DEF Fail
<1>2. PairingTypeOK /\ CallInv
      BY DEF PairInv
<1>3. /\ stage' \in [Party -> StageName] /\ stage'[s] = "failed"
      /\ \A p \in Party \ {s} : stage'[p] = stage[p]
      BY <1>1, Named, Staged
<1>4. mishaps' \in 0..MaxMishaps
      BY <1>2, MishapTyped DEF PairingTypeOK
<1>5. slot' \in [Room -> SUBSET Party] /\ wire' \in [Party -> Seq(RoomFrame)]
      BY <1>1, ToldTyped, LeftTyped
<1>6. PairingTypeOK'
      BY <1>1, <1>2, <1>3, <1>4, <1>5 DEF PairingTypeOK
<1>9. \A p \in Party : "failed" \notin Rooted(p)
      BY DEF Rooted, Addressing
<1>7. \A p \in Party :
        /\ stage'[p] # "idle" => calls[p] \in 1..MaxCalls /\ code[p] \in Code
        /\ stage'[p] \in Rooted(p) => root[p] \in Root
      BY <1>2, <1>3, <1>9 DEF CallInv
<1>8. stage'["host"] = "proposed" => tries["host"] < AddressTries
      BY <1>2, <1>3 DEF CallInv, Party
<1> QED BY <1>1, <1>3, <1>5, <1>6, <1>7, <1>8 DEF PairInv, CallInv

LEMMA BeginTyped ==
    ASSUME PairInv, NEW s \in Party, Begin(s)
    PROVE  /\ calls' \in [Party -> 0..MaxCalls] /\ calls'[s] \in 1..MaxCalls
           /\ tries' \in [Party -> Nat] /\ tries'[s] = 0
           /\ root' \in [Party -> Root \cup {Unset}] /\ wire' \in [Party -> Seq(RoomFrame)]
           /\ \A p \in Party \ {s} :
                  calls'[p] = calls[p] /\ tries'[p] = tries[p] /\ root'[p] = root[p]
<1>1. PairingTypeOK /\ CallInv
      BY DEF PairInv
<1>2. /\ calls[s] \in 0..MaxCalls /\ calls[s] < MaxCalls
      /\ calls' = [calls EXCEPT ![s] = @ + 1] /\ tries' = [tries EXCEPT ![s] = 0]
      /\ root' = [root EXCEPT ![s] = Unset] /\ wire' = [wire EXCEPT ![s] = <<>>]
      BY <1>1 DEF Begin, PairingTypeOK
<1>3. calls[s] + 1 \in 1..MaxCalls
      BY <1>2, PairingAssumption
<1>4. calls' \in [Party -> 0..MaxCalls]
      BY <1>1, <1>2, <1>3 DEF PairingTypeOK
<1>5. wire' \in [Party -> Seq(RoomFrame)]
      BY <1>1, <1>2, NoFrame DEF CallInv
<1> QED BY <1>1, <1>2, <1>3, <1>4, <1>5 DEF PairingTypeOK

\* What the service holds, and what neither side keeps for itself.
ServiceTyped ==
    /\ shown \subseteq Code
    /\ network \in Networks
    /\ open \subseteq Room
    /\ slot \in [Room -> SUBSET Party]
    /\ commit \in [Room -> [Party -> Root \cup {Unset}]]
    /\ pairs \subseteq Root
    /\ mishaps \in 0..MaxMishaps

\* What a step of a side leaves of the other.
LEMMA SideKeeps ==
    ASSUME PairInv, NEW s \in Party, stage' \in [Party -> StageName],
           wire' \in [Party -> Seq(RoomFrame)],
           calls' \in [Party -> 0..MaxCalls], code' \in [Party -> Code \cup {Unset}],
           tries' \in [Party -> Nat], root' \in [Party -> Root \cup {Unset}],
           \A p \in Party \ {s} : /\ stage'[p] = stage[p] /\ calls'[p] = calls[p]
                                  /\ code'[p] = code[p] /\ tries'[p] = tries[p]
                                  /\ root'[p] = root[p],
           stage'[s] \in StagesOf(s),
           stage'[s] # "failed" =>
               tries'[s] <= IF stage'[s] = "creating" THEN RoomTries ELSE AddressTries,
           stage'[s] # "idle" => calls'[s] \in 1..MaxCalls /\ code'[s] \in Code,
           stage'[s] \in Rooted(s) => root'[s] \in Root,
           s = "host" /\ stage'[s] = "proposed" => tries'[s] < AddressTries,
           ServiceTyped'
    PROVE  PairInv'
<1>1. PairingTypeOK /\ CallInv
      BY DEF PairInv
<1>2. \A p \in Party :
        /\ stage'[p] \in DOMAIN After[p] \cup Addressing
             \cup {"idle", "creating", "dialing", "committing", "done", "failed"}
        /\ stage'[p] # "failed" =>
             tries'[p] <= IF stage'[p] = "creating" THEN RoomTries ELSE AddressTries
      BY <1>1 DEF PairingTypeOK, StagesOf
<1>3. \A p \in Party :
        /\ stage'[p] # "idle" => calls'[p] \in 1..MaxCalls /\ code'[p] \in Code
        /\ stage'[p] \in Rooted(p) => root'[p] \in Root
      BY <1>1 DEF CallInv
<1>4. stage'["host"] = "proposed" => tries'["host"] < AddressTries
      BY <1>1 DEF CallInv, Party
<1>5. PairingTypeOK'
      BY <1>2 DEF PairingTypeOK, ServiceTyped
<1> QED BY <1>3, <1>4, <1>5 DEF PairInv, CallInv

LEMMA BeginHostKeeps ==
    ASSUME PairInv, NEW c \in Code, NEW n \in Networks, BeginHost(c, n)
    PROVE  PairInv'
<1>1. PairingTypeOK /\ CallInv /\ "host" \in Party
      BY DEF PairInv, Party
<1>2. /\ Begin("host") /\ code' = [code EXCEPT !["host"] = c] /\ network' = n
      /\ stage' = [stage EXCEPT !["host"] = "creating"]
      /\ UNCHANGED <<shown, ready, open, slot, commit, pairs, mishaps>>
      BY DEF BeginHost
<1>3. /\ stage' \in [Party -> StageName] /\ code' \in [Party -> Code \cup {Unset}]
      /\ stage'["host"] = "creating" /\ code'["host"] = c
      /\ \A p \in Party \ {"host"} : stage'[p] = stage[p] /\ code'[p] = code[p]
      BY Named, Staged, <1>1, <1>2 DEF PairingTypeOK, CallInv
<1>4. "creating" \in StagesOf("host") /\ "creating" \notin Rooted("host")
      BY DEF StagesOf, Rooted, Addressing
<1>5. 0 <= RoomTries
      BY PairingAssumption
<1>6. ServiceTyped'
      BY <1>1, <1>2 DEF PairingTypeOK, ServiceTyped
<1>7. /\ calls' \in [Party -> 0..MaxCalls] /\ calls'["host"] \in 1..MaxCalls
      /\ tries' \in [Party -> Nat] /\ tries'["host"] = 0
      /\ root' \in [Party -> Root \cup {Unset}] /\ wire' \in [Party -> Seq(RoomFrame)]
      /\ \A p \in Party \ {"host"} :
            calls'[p] = calls[p] /\ tries'[p] = tries[p] /\ root'[p] = root[p]
      BY <1>1, <1>2, BeginTyped
<1> QED BY <1>1, <1>3, <1>4, <1>5, <1>6, <1>7, SideKeeps

LEMMA BeginGuestKeeps ==
    ASSUME PairInv, NEW c \in Code, BeginGuest(c)
    PROVE  PairInv'
<1>1. PairingTypeOK /\ CallInv /\ "guest" \in Party
      BY DEF PairInv, Party
<1>2. /\ Begin("guest") /\ code' = [code EXCEPT !["guest"] = c]
      /\ stage' = [stage EXCEPT !["guest"] = "dialing"]
      /\ UNCHANGED <<shown, network, ready, open, slot, commit, pairs, mishaps>>
      BY DEF BeginGuest
<1>3. /\ stage' \in [Party -> StageName] /\ code' \in [Party -> Code \cup {Unset}]
      /\ stage'["guest"] = "dialing" /\ code'["guest"] = c
      /\ \A p \in Party \ {"guest"} : stage'[p] = stage[p] /\ code'[p] = code[p]
      BY Named, Staged, <1>1, <1>2 DEF PairingTypeOK, CallInv
<1>4. "dialing" \in StagesOf("guest") /\ "dialing" \notin Rooted("guest")
      BY DEF StagesOf, Rooted, Addressing
<1>5. 0 <= AddressTries
      BY PairingAssumption
<1>6. ServiceTyped'
      BY <1>1, <1>2 DEF PairingTypeOK, ServiceTyped
<1>7. /\ calls' \in [Party -> 0..MaxCalls] /\ calls'["guest"] \in 1..MaxCalls
      /\ tries' \in [Party -> Nat] /\ tries'["guest"] = 0
      /\ root' \in [Party -> Root \cup {Unset}] /\ wire' \in [Party -> Seq(RoomFrame)]
      /\ \A p \in Party \ {"guest"} :
            calls'[p] = calls[p] /\ tries'[p] = tries[p] /\ root'[p] = root[p]
      BY <1>1, <1>2, BeginTyped
<1> QED BY <1>1, <1>3, <1>4, <1>5, <1>6, <1>7, SideKeeps

LEMMA CreateRoomKeeps ==
    ASSUME PairInv, NEW c \in Code, CreateRoom(c)
    PROVE  PairInv'
<1> DEFINE room == code["host"].room
<1>1. PairingTypeOK /\ CallInv /\ "host" \in Party
      BY DEF PairInv, Party
<1>2. /\ stage["host"] = "creating"
      /\ UNCHANGED <<calls, root, network, offer, ready, wire, pairs, mishaps>>
      BY DEF CreateRoom
<1>3. /\ calls["host"] \in 1..MaxCalls /\ code["host"] \in Code /\ tries["host"] \in Nat
      /\ room \in Room /\ slot \in [Room -> SUBSET Party] /\ "creating" \in StagesOf("host")
      BY <1>1, <1>2 DEF CallInv, PairingTypeOK, Code, StagesOf
<1>4. CASE room \in open \cup TakenRooms
  <2>1. /\ tries' = [tries EXCEPT !["host"] = @ + 1]
        /\ \/ /\ tries["host"] + 1 < RoomTries
              /\ code' = [code EXCEPT !["host"] = c] /\ stage' = stage
           \/ stage' = [stage EXCEPT !["host"] = "failed"] /\ code' = code
        /\ UNCHANGED <<open, slot, commit, shown>>
        BY <1>4 DEF CreateRoom
  <2>2. /\ tries' \in [Party -> Nat] /\ tries'["host"] = tries["host"] + 1
        /\ \A p \in Party \ {"host"} : tries'[p] = tries[p]
        BY <1>1, <1>3, <2>1 DEF PairingTypeOK
  <2>3. /\ {"creating", "failed"} \subseteq StagesOf("host")
        /\ {"creating", "failed"} \cap Rooted("host") = {}
        BY DEF StagesOf, Rooted, Addressing
  <2>4. tries["host"] + 1 < RoomTries => tries["host"] + 1 <= RoomTries
        BY <1>3, PairingAssumption
  <2>5. ServiceTyped'
        BY <1>1, <1>2, <2>1 DEF PairingTypeOK, ServiceTyped
  <2>6. calls \in [Party -> 0..MaxCalls] /\ root \in [Party -> Root \cup {Unset}]
        /\ code \in [Party -> Code \cup {Unset}] /\ wire \in [Party -> Seq(RoomFrame)]
        BY <1>1 DEF PairingTypeOK, CallInv
  <2>7. CASE /\ tries["host"] + 1 < RoomTries
             /\ code' = [code EXCEPT !["host"] = c] /\ stage' = stage
    <3>1. /\ code' \in [Party -> Code \cup {Unset}] /\ code'["host"] = c
          /\ \A p \in Party \ {"host"} : code'[p] = code[p]
          BY <1>1, <2>6, <2>7
    <3>2. stage' \in [Party -> StageName] /\ stage'["host"] = "creating"
          BY <1>1, <1>2, <2>7 DEF CallInv
    <3>3. /\ tries'["host"] <= RoomTries /\ stage'["host"] \in StagesOf("host")
          /\ stage'["host"] \notin Rooted("host")
          /\ \A p \in Party \ {"host"} : stage'[p] = stage[p]
          BY <2>2, <2>3, <2>4, <2>7, <3>2
    <3>4. calls' = calls /\ root' = root /\ wire' = wire
          BY <1>2
    <3> QED BY <1>1, <1>3, <2>2, <2>5, <2>6, <3>1, <3>2, <3>3, <3>4, SideKeeps
  <2>8. CASE stage' = [stage EXCEPT !["host"] = "failed"] /\ code' = code
    <3>1. /\ stage' \in [Party -> StageName] /\ stage'["host"] = "failed"
          /\ \A p \in Party \ {"host"} : stage'[p] = stage[p]
          BY <1>1, <2>8, Named, Staged
    <3> QED BY <1>1, <1>2, <1>3, <2>2, <2>3, <2>5, <2>6, <2>8, <3>1, SideKeeps
  <2> QED BY <2>1, <2>7, <2>8
<1>5. CASE room \notin open \cup TakenRooms
  <2>1. /\ open' = open \cup {room} /\ commit' = [commit EXCEPT ![room] = [s \in Party |-> Unset]]
        /\ shown' = shown \cup {code["host"]} /\ stage' = [stage EXCEPT !["host"] = "dialing"]
        /\ tries' = [tries EXCEPT !["host"] = 0] /\ code' = code /\ slot' = slot
        BY <1>5 DEF CreateRoom
  <2>2. /\ tries' \in [Party -> Nat] /\ tries'["host"] = 0
        /\ \A p \in Party \ {"host"} : tries'[p] = tries[p]
        BY <1>1, <2>1 DEF PairingTypeOK
  <2>6. /\ stage' \in [Party -> StageName] /\ stage'["host"] = "dialing"
        /\ \A p \in Party \ {"host"} : stage'[p] = stage[p]
        BY <1>1, <2>1, Named, Staged
  <2>3. "dialing" \in StagesOf("host") /\ "dialing" \notin Rooted("host") /\ 0 <= AddressTries
        BY PairingAssumption DEF StagesOf, Rooted, Addressing
  <2>4. commit' \in [Room -> [Party -> Root \cup {Unset}]]
        BY <1>1, <1>3, <2>1 DEF PairingTypeOK
  <2>5. ServiceTyped'
        BY <1>1, <1>2, <1>3, <2>1, <2>4 DEF PairingTypeOK, ServiceTyped
  <2>7. calls \in [Party -> 0..MaxCalls] /\ root \in [Party -> Root \cup {Unset}]
        /\ code \in [Party -> Code \cup {Unset}] /\ wire \in [Party -> Seq(RoomFrame)]
        BY <1>1 DEF PairingTypeOK, CallInv
  <2> QED BY <1>1, <1>2, <1>3, <2>1, <2>2, <2>3, <2>5, <2>6, <2>7, SideKeeps
<1> QED BY <1>4, <1>5

LEMMA EnterKeeps ==
    ASSUME PairInv, NEW s \in Party, Enter(s)
    PROVE  PairInv'
<1> DEFINE room == code[s].room
<1>1. PairingTypeOK /\ CallInv
      BY DEF PairInv
<1>2. /\ stage[s] = "dialing" /\ stage' = [stage EXCEPT ![s] = "up"]
      /\ slot' = [slot EXCEPT ![room] = @ \cup {s}]
      /\ \/ wire' = [p \in Party |-> Append(wire[p], Plain("up"))]
         \/ wire' = wire
      /\ UNCHANGED <<calls, code, shown, tries, root, network, offer, ready, open, commit,
                     pairs, mishaps>>
      BY DEF Enter
<1>3. /\ stage' \in [Party -> StageName] /\ stage'[s] = "up"
      /\ \A p \in Party \ {s} : stage'[p] = stage[p]
      BY Named, Staged, <1>1, <1>2 DEF CallInv
<1>4. /\ calls[s] \in 1..MaxCalls /\ code[s] \in Code /\ tries[s] <= AddressTries
      BY <1>1, <1>2 DEF CallInv, PairingTypeOK
<1>5. wire' \in [Party -> Seq(RoomFrame)]
  <2>1. wire \in [Party -> Seq(RoomFrame)]
        BY <1>1 DEF CallInv
  <2>2. \A p \in Party : Append(wire[p], Plain("up")) \in Seq(RoomFrame)
        BY <2>1, FramesMade
  <2> QED BY <1>2, <2>1, <2>2
<1>6. slot' \in [Room -> SUBSET Party]
      BY <1>1, <1>2 DEF PairingTypeOK
<1>7. "up" \in StagesOf(s) /\ "up" \notin Rooted(s)
      BY Stages DEF StagesOf
<1>8. ServiceTyped'
      BY <1>1, <1>2, <1>6 DEF PairingTypeOK, ServiceTyped
<1>9. calls \in [Party -> 0..MaxCalls] /\ root \in [Party -> Root \cup {Unset}]
      /\ code \in [Party -> Code \cup {Unset}] /\ tries \in [Party -> Nat]
      BY <1>1 DEF PairingTypeOK
<1> QED BY <1>1, <1>2, <1>3, <1>4, <1>5, <1>7, <1>8, <1>9, SideKeeps

\* What the tables of the exchange hold for a side that waits for a frame of kind k.
Tabled(s, k) ==
    /\ After[s][k] \in StageName \cap StagesOf(s)
    /\ After[s][k] \notin {"idle", "creating", "proposed", "failed"}
    /\ After[s][k] \in Rooted(s) => k \in Rooted(s) \cup {"ke1", "ke2"}
    /\ Reply[s][k] \in Seq(Sealed \cup {"ke2"})
    /\ k # "ke1" => Reply[s][k] \in Seq(Sealed)
    /\ k \notin {"idle", "creating", "failed"}

LEMMA HostTable == \A k \in DOMAIN After["host"] : Tabled("host", k)
<1> SUFFICES ASSUME NEW k \in DOMAIN After["host"] PROVE Tabled("host", k)
    OBVIOUS
<1>1. k \in {"up", "ke1", "ke3", "guestMAC", "hello", "identity"}
      BY DEF After
<1>2. /\ After["host"]["up"] = "ke1" /\ After["host"]["ke1"] = "ke3"
      /\ After["host"]["ke3"] = "guestMAC" /\ After["host"]["guestMAC"] = "hello"
      /\ After["host"]["hello"] = "identity" /\ After["host"]["identity"] = "offering"
      BY DEF After
<1>3. /\ Reply["host"]["up"] = <<>> /\ Reply["host"]["ke1"] = <<"ke2">>
      /\ Reply["host"]["ke3"] = <<>> /\ Reply["host"]["guestMAC"] = <<"hostMAC", "hello">>
      /\ Reply["host"]["hello"] = <<"identity">> /\ Reply["host"]["identity"] = <<>>
      BY DEF Reply
<1>4. /\ After["host"][k] \in StageName
      /\ After["host"][k] \notin {"idle", "creating", "proposed", "failed"}
      /\ k \notin {"idle", "creating", "failed"}
      BY <1>1, <1>2 DEF StageName
<1>5. After["host"][k] \in StagesOf("host")
      BY <1>1, <1>2 DEF StagesOf, Addressing, After
<1>6. After["host"][k] \in Rooted("host") => k \in Rooted("host") \cup {"ke1", "ke2"}
      BY <1>1, <1>2 DEF Rooted, Addressing
<1>7. /\ <<>> \in Seq(Sealed) /\ <<"hostMAC", "hello">> \in Seq(Sealed)
      /\ <<"identity">> \in Seq(Sealed) /\ <<"ke2">> \in Seq(Sealed \cup {"ke2"})
      BY DEF Sealed
<1>8. \A q \in Seq(Sealed) : q \in Seq(Sealed \cup {"ke2"})
      OBVIOUS
<1>9. /\ Reply["host"][k] \in Seq(Sealed \cup {"ke2"})
      /\ k # "ke1" => Reply["host"][k] \in Seq(Sealed)
      BY <1>1, <1>3, <1>7, <1>8
<1> QED BY <1>4, <1>5, <1>6, <1>9 DEF Tabled

LEMMA GuestTable == \A k \in DOMAIN After["guest"] : Tabled("guest", k)
<1> SUFFICES ASSUME NEW k \in DOMAIN After["guest"] PROVE Tabled("guest", k)
    OBVIOUS
<1>1. k \in {"up", "ke2", "hostMAC", "hello", "identity"}
      BY DEF After
<1>2. /\ After["guest"]["up"] = "ke2" /\ After["guest"]["ke2"] = "hostMAC"
      /\ After["guest"]["hostMAC"] = "hello" /\ After["guest"]["hello"] = "identity"
      /\ After["guest"]["identity"] = "listening"
      BY DEF After
<1>3. /\ Reply["guest"]["up"] = <<"ke1">> /\ Reply["guest"]["ke2"] = <<"ke3", "guestMAC">>
      /\ Reply["guest"]["hostMAC"] = <<"hello">> /\ Reply["guest"]["hello"] = <<"identity">>
      /\ Reply["guest"]["identity"] = <<>>
      BY DEF Reply
<1>4. /\ After["guest"][k] \in StageName
      /\ After["guest"][k] \notin {"idle", "creating", "proposed", "failed"}
      /\ k \notin {"idle", "creating", "failed"}
      BY <1>1, <1>2 DEF StageName
<1>5. After["guest"][k] \in StagesOf("guest")
      BY <1>1, <1>2 DEF StagesOf, Addressing, After
<1>6. After["guest"][k] \in Rooted("guest") => k \in Rooted("guest") \cup {"ke1", "ke2"}
      BY <1>1, <1>2 DEF Rooted, Addressing
<1>7. /\ <<>> \in Seq(Sealed) /\ <<"ke3", "guestMAC">> \in Seq(Sealed)
      /\ <<"ke1">> \in Seq(Sealed) /\ <<"identity">> \in Seq(Sealed)
      /\ <<"hello">> \in Seq(Sealed)
      BY DEF Sealed
<1>8. \A q \in Seq(Sealed) : q \in Seq(Sealed \cup {"ke2"})
      OBVIOUS
<1>9. /\ Reply["guest"][k] \in Seq(Sealed \cup {"ke2"})
      /\ k # "ke1" => Reply["guest"][k] \in Seq(Sealed)
      BY <1>1, <1>3, <1>7, <1>8
<1> QED BY <1>4, <1>5, <1>6, <1>9 DEF Tabled

\* The secret a side is left with is one of two calls.
LEMMA RootAfterTyped ==
    ASSUME PairInv, NEW s \in Party, stage[s] # "idle", NEW m \in RoomFrame,
           m.kind = "ke1" => s = "host"
    PROVE  /\ RootAfter(s, m) \in Root \cup {Unset}
           /\ m.kind \in {"ke1", "ke2"} => RootAfter(s, m) \in Root
           /\ m.kind \notin {"ke1", "ke2"} => RootAfter(s, m) = root[s]
<1>1. /\ calls["host"] \in 1..MaxCalls \/ s # "host"
      /\ root[s] \in Root \cup {Unset}
      BY DEF PairInv, PairingTypeOK, CallInv
<1>2. CASE m.kind = "ke1"
  <2>1. m.body \in Bodies(Root \cup {Unset})
        BY <1>2, FrameKinds DEF Sealed
  <2>2. m.body.call \in 1..MaxCalls
        BY <2>1 DEF Bodies
  <2>3. RootAfter(s, m) = [host |-> calls["host"], guest |-> m.body.call]
        BY <1>2 DEF RootAfter
  <2> QED BY <1>1, <1>2, <2>2, <2>3 DEF Root
<1>3. CASE m.kind = "ke2"
  <2>1. m.body \in Bodies(Root)
        BY <1>3, FrameKinds
  <2>2. m.body.root \in Root
        BY <2>1 DEF Bodies
  <2>3. RootAfter(s, m) = m.body.root
        BY <1>3 DEF RootAfter
  <2> QED BY <1>3, <2>2, <2>3
<1>4. CASE m.kind \notin {"ke1", "ke2"}
      BY <1>1, <1>4 DEF RootAfter
<1> QED BY <1>2, <1>3, <1>4

LEMMA FramedTyped ==
    ASSUME NEW b, NEW kinds, NEW sent \in Seq(kinds), \A k \in kinds : Framed(k, b) \in RoomFrame
    PROVE  [i \in DOMAIN sent |-> Framed(sent[i], b)] \in Seq(RoomFrame)
<1>1. DOMAIN sent = 1..Len(sent) /\ Len(sent) \in Nat /\ \A i \in 1..Len(sent) : sent[i] \in kinds
      OBVIOUS
<1> DEFINE q == [i \in 1..Len(sent) |-> Framed(sent[i], b)]
<1>2. \A i \in 1..Len(sent) : Framed(sent[i], b) \in RoomFrame
      BY <1>1
<1>3. q \in [1..Len(sent) -> RoomFrame]
      BY <1>2
<1>4. q \in Seq(RoomFrame)
      BY <1>1, <1>3, SeqDef
<1> QED BY <1>1, <1>4

\* The frames a side sends when it has read the one it waits for.
Answer(s) ==
    LET m == Received(s)
        sent == Reply[s][m.kind]
    IN  [i \in DOMAIN sent |-> Framed(sent[i], Body(s, RootAfter(s, m)))]

LEMMA AnswerTyped ==
    ASSUME PairInv, NEW s \in Party, Waiting(s), HasFrame(s), Received(s).kind = stage[s]
    PROVE  /\ Answer(s) \in Seq(RoomFrame) /\ Tabled(s, stage[s])
           /\ RootAfter(s, Received(s)) \in Root \cup {Unset}
           /\ stage[s] \in {"ke1", "ke2"} => RootAfter(s, Received(s)) \in Root
           /\ stage[s] \notin {"ke1", "ke2"} => RootAfter(s, Received(s)) = root[s]
<1> DEFINE m == Received(s)
           k == stage[s]
           r == RootAfter(s, m)
           b == Body(s, r)
           sent == Reply[s][k]
           frames == [i \in DOMAIN sent |-> Framed(sent[i], b)]
<1>1. PairingTypeOK /\ CallInv
      BY DEF PairInv
<1>2. k \in DOMAIN After[s] /\ m.kind = k
      BY DEF Waiting
<1>3. Tabled(s, k)
      BY <1>2, HostTable, GuestTable DEF Party
<1>4. m \in RoomFrame
      BY ReadTyped
<1>5. m.kind = "ke1" => s = "host"
      BY <1>2, Stages DEF Party
<1>6. k # "idle" /\ calls[s] \in 1..MaxCalls /\ code[s] \in Code
      BY <1>1, <1>3 DEF Tabled, CallInv
<1>7. /\ r \in Root \cup {Unset}
      /\ k \in {"ke1", "ke2"} => r \in Root
      /\ k \notin {"ke1", "ke2"} => r = root[s]
      BY <1>2, <1>4, <1>5, <1>6, RootAfterTyped
<1>8. Answer(s) = frames
      BY <1>2 DEF Answer
<1> HIDE DEF r, m
<1>9. b \in Bodies(Root \cup {Unset}) /\ (r \in Root => b \in Bodies(Root))
      BY <1>6, <1>7 DEF Bodies, Body, Code
<1>10. frames \in Seq(RoomFrame)
  <2> HIDE DEF b, sent, r, k
  <2>1. \A x \in Sealed : Framed(x, b) \in RoomFrame
        BY <1>9, FramesMade
  <2>2. r \in Root => \A x \in Sealed \cup {"ke2"} : Framed(x, b) \in RoomFrame
        BY <1>9, FramesMade
  <2>3. CASE k = "ke1"
    <3>1. sent \in Seq(Sealed \cup {"ke2"})
          BY <1>3 DEF Tabled, sent
    <3>2. \A x \in Sealed \cup {"ke2"} : Framed(x, b) \in RoomFrame
          BY <1>7, <2>2, <2>3
    <3> QED BY <3>1, <3>2, FramedTyped
  <2>4. CASE k # "ke1"
    <3>1. sent \in Seq(Sealed)
          BY <1>3, <2>4 DEF Tabled, sent
    <3> QED BY <2>1, <3>1, FramedTyped
  <2> QED BY <2>3, <2>4
<1> HIDE DEF frames
<1> QED BY <1>3, <1>7, <1>8, <1>10 DEF r, m

LEMMA ExchangeKeeps ==
    ASSUME PairInv, NEW s \in Party, Exchange(s)
    PROVE  PairInv'
<1> DEFINE m == Received(s)
           k == stage[s]
           r == RootAfter(s, m)
           w == [wire EXCEPT ![s] = Tail(@)]
<1>1. PairingTypeOK /\ CallInv
      BY DEF PairInv
<1>2. /\ Waiting(s) /\ HasFrame(s) /\ m.kind = k
      /\ root' = [root EXCEPT ![s] = r] /\ stage' = [stage EXCEPT ![s] = After[s][k]]
      /\ wire' = Sent(s, w, Answer(s))
      /\ UNCHANGED <<calls, code, shown, tries, network, offer, ready, open, slot, commit,
                     pairs, mishaps>>
      BY DEF Exchange, Expected, Heard, Answer
<1>3. /\ Tabled(s, k) /\ Answer(s) \in Seq(RoomFrame) /\ r \in Root \cup {Unset}
      /\ k \in {"ke1", "ke2"} => r \in Root
      /\ k \notin {"ke1", "ke2"} => r = root[s]
      BY <1>2, AnswerTyped
<1>4. w \in [Party -> Seq(RoomFrame)]
      BY <1>2, ReadTyped
<1>5. k # "idle" /\ calls[s] \in 1..MaxCalls /\ code[s] \in Code
      BY <1>1, <1>3 DEF Tabled, CallInv
<1>6. k \in Rooted(s) => root[s] \in Root
      BY <1>1 DEF CallInv
<1> HIDE DEF r, m
<1>7. After[s][k] \in Rooted(s) => r \in Root
  <2> HIDE DEF k
  <2> QED BY <1>3, <1>6 DEF Tabled
<1>8. wire' \in [Party -> Seq(RoomFrame)]
  <2> HIDE DEF w
  <2> QED BY <1>2, <1>3, <1>4, SentTyped
<1>9. /\ stage' \in [Party -> StageName] /\ stage'[s] = After[s][k]
      /\ \A p \in Party \ {s} : stage'[p] = stage[p]
      BY <1>2, <1>3, Staged DEF Tabled
<1>10. /\ root' \in [Party -> Root \cup {Unset}] /\ root'[s] = r
       /\ \A p \in Party \ {s} : root'[p] = root[p]
      BY <1>1, <1>2, <1>3 DEF PairingTypeOK
<1>11. ServiceTyped'
      BY <1>1, <1>2 DEF PairingTypeOK, ServiceTyped
<1>12. /\ calls \in [Party -> 0..MaxCalls] /\ code \in [Party -> Code \cup {Unset}]
       /\ tries \in [Party -> Nat] /\ tries[s] <= AddressTries
      BY <1>1, <1>3 DEF PairingTypeOK, Tabled
<1>13. /\ stage'[s] \in StagesOf(s) /\ stage'[s] # "creating" /\ stage'[s] # "proposed"
       /\ stage'[s] \in Rooted(s) => root'[s] \in Root
      BY <1>3, <1>7, <1>9, <1>10 DEF Tabled
<1> HIDE DEF k, w
<1> QED BY <1>2, <1>5, <1>8, <1>9, <1>10, <1>11, <1>12, <1>13, SideKeeps

LEMMA EndingKeeps ==
    ASSUME PairInv, NEW s \in Party,
           \/ EnterFails(s) \/ Disturbed(s) \/ NegotiationFails(s) \/ TimesOut(s) \/ SocketLost(s)
           \/ s = "host" /\ (RoomRefused \/ NetworkRefused)
    PROVE  PairInv'
<1>1. Fail(s)
      BY DEF EnterFails, Disturbed, NegotiationFails, TimesOut, SocketLost, RoomRefused,
             NetworkRefused
<1>2. Mishap \/ mishaps' = mishaps
      BY DEF EnterFails, Disturbed, NegotiationFails, TimesOut, SocketLost, RoomRefused,
             NetworkRefused
<1>3. "idle" \notin DOMAIN After[s] /\ "idle" \notin Addressing
      BY Stages
<1>4. stage[s] # "idle"
      BY <1>3 DEF EnterFails, Disturbed, NegotiationFails, TimesOut, SocketLost, RoomRefused,
             NetworkRefused, Waiting, Addressing, Ended
<1> QED BY <1>1, <1>2, <1>4, FailKeeps

\* What holds of the fields that a step of negotiation leaves alone.
LEMMA Typed ==
    ASSUME PairInv
    PROVE  /\ calls \in [Party -> 0..MaxCalls] /\ code \in [Party -> Code \cup {Unset}]
           /\ tries \in [Party -> Nat] /\ root \in [Party -> Root \cup {Unset}]
           /\ stage \in [Party -> StageName] /\ wire \in [Party -> Seq(RoomFrame)]
           /\ ServiceTyped
           /\ \A s \in Party : /\ stage[s] \in StagesOf(s)
                               /\ stage[s] # "idle" => calls[s] \in 1..MaxCalls /\ code[s] \in Code
                               /\ stage[s] \in Rooted(s) => root[s] \in Root
                               /\ stage[s] \notin {"failed", "creating"} => tries[s] <= AddressTries
BY DEF PairInv, PairingTypeOK, CallInv, ServiceTyped, StagesOf

\* A step of negotiation: a side that has its secret changes its stage, its count
\* of proposals and what is on the wire.
LEMMA TurnKeeps ==
    ASSUME PairInv, NEW s \in Party, NEW k \in StageName,
           stage[s] \in Addressing \cup {"committing"},
           k \in (Addressing \cap StagesOf(s)) \cup {"committing", "done", "failed"},
           stage' = [stage EXCEPT ![s] = k], wire' \in [Party -> Seq(RoomFrame)],
           tries' \in [Party -> Nat], \A p \in Party \ {s} : tries'[p] = tries[p],
           tries'[s] <= AddressTries, k = "proposed" => tries'[s] < AddressTries,
           UNCHANGED <<calls, code, root>>, ServiceTyped'
    PROVE  PairInv'
<1>1. /\ stage' \in [Party -> StageName] /\ stage'[s] = k
      /\ \A p \in Party \ {s} : stage'[p] = stage[p]
      BY Staged
<1>2. k \in StagesOf(s) /\ k \notin {"idle", "creating"}
      BY DEF StagesOf, Addressing
<1>3. stage[s] \in Rooted(s) /\ stage[s] # "idle"
      BY DEF Rooted, Addressing
<1>4. calls[s] \in 1..MaxCalls /\ code[s] \in Code /\ root[s] \in Root
      BY <1>3, Typed
<1>5. /\ calls \in [Party -> 0..MaxCalls] /\ code \in [Party -> Code \cup {Unset}]
      /\ root \in [Party -> Root \cup {Unset}]
      BY Typed
<1> QED BY <1>1, <1>2, <1>4, <1>5, SideKeeps

LEMMA CountTyped ==
    ASSUME PairInv, NEW s \in Party, tries[s] < AddressTries,
           tries' = [tries EXCEPT ![s] = @ + 1]
    PROVE  /\ tries' \in [Party -> Nat] /\ tries'[s] <= AddressTries
           /\ \A p \in Party \ {s} : tries'[p] = tries[p]
<1>1. tries \in [Party -> Nat] /\ AddressTries \in Nat
      BY Typed, PairingAssumption
<1>2. tries[s] + 1 \in Nat /\ tries[s] + 1 <= AddressTries
      BY <1>1
<1> QED BY <1>1, <1>2

LEMMA Turns ==
    /\ {"offering", "proposed", "listening", "committing", "done", "failed"} \subseteq StageName
    /\ {"offering", "proposed", "listening"} = Addressing
    /\ \A s \in Party : Addressing \subseteq StagesOf(s)
BY DEF StageName, Addressing, StagesOf

LEMMA SpokenTyped ==
    ASSUME PairInv, NEW s \in Party, stage[s] \in Addressing
    PROVE  /\ \A a \in Proposals : Spoken(s, "proposal", a) \in RoomFrame
           /\ \A f \in BOOLEAN : Spoken(s, "reply", f) \in RoomFrame
<1>1. stage[s] # "idle" /\ stage[s] \in Rooted(s)
      BY DEF Rooted, Addressing
<1>2. calls[s] \in 1..MaxCalls /\ code[s] \in Code /\ root[s] \in Root
      BY <1>1, Typed
<1>3. Body(s, root[s]) \in Bodies(Root)
      BY <1>2 DEF Body, Bodies, Code
<1> QED BY <1>3, FramesMade DEF Spoken

LEMMA ProposeKeeps ==
    ASSUME PairInv, NEW a \in RandomPairs(network), NEW free \in BOOLEAN, Propose(a, free)
    PROVE  PairInv'
<1>1. "host" \in Party
      BY DEF Party
<1>2. /\ stage["host"] = "offering" /\ tries["host"] < AddressTries
      /\ UNCHANGED <<calls, code, shown, root, network, ready, open, slot, commit, pairs, mishaps>>
      BY DEF Propose
<1>3. ServiceTyped'
      BY <1>2, Typed DEF ServiceTyped
<1>4. CASE free
  <2>1. /\ stage' = [stage EXCEPT !["host"] = "proposed"] /\ tries' = tries
        /\ wire' = Sent("host", wire, <<Spoken("host", "proposal", a)>>)
        BY <1>4 DEF Propose
  <2>2. network \in Networks
        BY Typed DEF ServiceTyped
  <2>3. a \in Proposals
        BY <2>2 DEF Proposals
  <2>4. <<Spoken("host", "proposal", a)>> \in Seq(RoomFrame)
        BY <1>1, <1>2, <2>3, SpokenTyped, OneFrame DEF Addressing
  <2>5. wire' \in [Party -> Seq(RoomFrame)]
        BY <1>1, <2>1, <2>4, Typed, SentTyped
  <2>6. tries' \in [Party -> Nat] /\ tries'["host"] <= AddressTries
        BY <1>1, <1>2, <2>1, Typed, PairingAssumption
  <2> QED BY <1>1, <1>2, <1>3, <2>1, <2>5, <2>6, Turns, TurnKeeps
<1>5. CASE ~free
  <2>1. tries' = [tries EXCEPT !["host"] = @ + 1] /\ stage' = stage /\ wire' = wire
        BY <1>5 DEF Propose
  <2>2. stage' = [stage EXCEPT !["host"] = "offering"]
        BY <1>1, <1>2, <2>1, Typed
  <2>3. wire' \in [Party -> Seq(RoomFrame)]
        BY <2>1, Typed
  <2>4. /\ tries' \in [Party -> Nat] /\ tries'["host"] <= AddressTries
        /\ \A p \in Party \ {"host"} : tries'[p] = tries[p]
        BY <1>1, <1>2, <2>1, CountTyped
  <2> QED BY <1>1, <1>2, <1>3, <2>2, <2>3, <2>4, Turns, TurnKeeps
<1> QED BY <1>4, <1>5

LEMMA ConsiderKeeps ==
    ASSUME PairInv, NEW free \in BOOLEAN, Consider(free)
    PROVE  PairInv'
<1> DEFINE w == [wire EXCEPT !["guest"] = Tail(@)]
<1>1. "guest" \in Party
      BY DEF Party
<1>2. /\ stage["guest"] = "listening" /\ tries["guest"] < AddressTries /\ HasFrame("guest")
      /\ wire' = Sent("guest", w, <<Spoken("guest", "reply", free)>>)
      /\ UNCHANGED <<calls, code, shown, root, network, open, slot, commit, pairs, mishaps>>
      BY DEF Consider, Heard
<1>3. ServiceTyped'
      BY <1>2, Typed DEF ServiceTyped
<1>4. w \in [Party -> Seq(RoomFrame)] /\ <<Spoken("guest", "reply", free)>> \in Seq(RoomFrame)
      BY <1>1, <1>2, ReadTyped, SpokenTyped, OneFrame DEF Addressing
<1>5. wire' \in [Party -> Seq(RoomFrame)]
  <2> HIDE DEF w
  <2> QED BY <1>1, <1>2, <1>4, SentTyped
<1>6. CASE free
  <2>1. stage' = [stage EXCEPT !["guest"] = "committing"] /\ tries' = tries
        BY <1>6 DEF Consider
  <2>2. tries' \in [Party -> Nat] /\ tries'["guest"] <= AddressTries
        BY <1>1, <1>2, <2>1, Typed, PairingAssumption
  <2> QED BY <1>1, <1>2, <1>3, <1>5, <2>1, <2>2, Turns, TurnKeeps
<1>7. CASE ~free
  <2>1. tries' = [tries EXCEPT !["guest"] = @ + 1] /\ stage' = stage
        BY <1>7 DEF Consider
  <2>2. stage' = [stage EXCEPT !["guest"] = "listening"]
        BY <1>1, <1>2, <2>1, Typed
  <2>3. /\ tries' \in [Party -> Nat] /\ tries'["guest"] <= AddressTries
        /\ \A p \in Party \ {"guest"} : tries'[p] = tries[p]
        BY <1>1, <1>2, <2>1, CountTyped
  <2> QED BY <1>1, <1>2, <1>3, <1>5, <2>2, <2>3, Turns, TurnKeeps
<1> QED BY <1>6, <1>7

LEMMA HearReplyKeeps ==
    ASSUME PairInv, HearReply
    PROVE  PairInv'
<1>1. "host" \in Party
      BY DEF Party
<1>2. /\ stage["host"] = "proposed" /\ HasFrame("host")
      /\ wire' = [wire EXCEPT !["host"] = Tail(@)]
      /\ UNCHANGED <<calls, code, shown, root, network, open, slot, commit, pairs, mishaps>>
      BY DEF HearReply, Heard
<1>3. ServiceTyped'
      BY <1>2, Typed DEF ServiceTyped
<1>4. wire' \in [Party -> Seq(RoomFrame)]
      BY <1>1, <1>2, ReadTyped
<1>5. tries["host"] < AddressTries
      BY <1>2 DEF PairInv, CallInv
<1>6. CASE Received("host").says
  <2>1. stage' = [stage EXCEPT !["host"] = "committing"] /\ tries' = tries
        BY <1>6 DEF HearReply
  <2>2. tries' \in [Party -> Nat] /\ tries'["host"] <= AddressTries
        BY <1>1, <1>5, <2>1, Typed, PairingAssumption
  <2> QED BY <1>1, <1>2, <1>3, <1>4, <2>1, <2>2, Turns, TurnKeeps
<1>7. CASE ~Received("host").says
  <2>1. tries' = [tries EXCEPT !["host"] = @ + 1] /\ stage' = [stage EXCEPT !["host"] = "offering"]
        BY <1>7 DEF HearReply
  <2>2. /\ tries' \in [Party -> Nat] /\ tries'["host"] <= AddressTries
        /\ \A p \in Party \ {"host"} : tries'[p] = tries[p]
        BY <1>1, <1>5, <2>1, CountTyped
  <2> QED BY <1>1, <1>2, <1>3, <1>4, <2>1, <2>2, Turns, TurnKeeps
<1> QED BY <1>6, <1>7

LEMMA SubmittedTyped ==
    ASSUME PairInv, NEW s \in Party, Submitted(s), code[s] \in Code, root[s] \in Root
    PROVE  commit' \in [Room -> [Party -> Root \cup {Unset}]] /\ pairs' \subseteq Root
<1>1. /\ commit \in [Room -> [Party -> Root \cup {Unset}]] /\ pairs \subseteq Root
      /\ code[s].room \in Room
      BY Typed DEF ServiceTyped, Code
<1>2. Commits(s) \in [Party -> Root \cup {Unset}]
      BY <1>1 DEF Commits
<1>3. CASE InService(s) /\ ~Conflict(s)
  <2>1. /\ commit' = [commit EXCEPT ![code[s].room] = Commits(s)]
        /\ pairs' = pairs \cup {r \in {root[s]} : \A p \in Party : Commits(s)[p] = r}
        BY <1>3 DEF Submitted
  <2> QED BY <1>1, <1>2, <2>1
<1>4. CASE ~(InService(s) /\ ~Conflict(s))
      BY <1>1, <1>4 DEF Submitted
<1> QED BY <1>3, <1>4

LEMMA CommittingKeeps ==
    ASSUME PairInv, NEW s \in Party, Submit(s) \/ AnswerLost(s)
    PROVE  PairInv'
<1>1. /\ stage[s] = "committing" /\ Submitted(s)
      /\ UNCHANGED <<calls, code, shown, tries, root, network, offer, ready, open>>
      /\ Mishap \/ mishaps' = mishaps
      BY DEF Submit, AnswerLost
<1>2. calls[s] \in 1..MaxCalls /\ code[s] \in Code /\ root[s] \in Root /\ tries[s] <= AddressTries
      BY <1>1, Typed DEF Rooted
<1>3. commit' \in [Room -> [Party -> Root \cup {Unset}]] /\ pairs' \subseteq Root
      BY <1>1, <1>2, SubmittedTyped
<1>4. PICK k \in {"committing", "done", "failed"} :
         /\ stage' = [stage EXCEPT ![s] = k]
         /\ (wire' = Told(s) /\ slot' = Left(s)) \/ (wire' = wire /\ slot' = slot)
  <2>1. CASE stage' = stage /\ wire' = wire /\ slot' = slot
    <3>1. stage' = [stage EXCEPT ![s] = "committing"]
          BY <1>1, <2>1, Typed
    <3> QED BY <2>1, <3>1
  <2>2. CASE /\ wire' = Told(s) /\ slot' = Left(s)
             /\ \E k \in {"done", "failed"} : stage' = [stage EXCEPT ![s] = k]
        BY <2>2
  <2>3. CASE Submit(s)
        BY <2>1, <2>2, <2>3 DEF Submit
  <2>4. CASE AnswerLost(s)
        BY <2>2, <2>4 DEF AnswerLost
  <2> QED BY <2>3, <2>4
<1>5. wire' \in [Party -> Seq(RoomFrame)] /\ slot' \in [Room -> SUBSET Party]
      BY <1>4, Typed, ToldTyped, LeftTyped DEF ServiceTyped
<1>6. mishaps' \in 0..MaxMishaps
      BY <1>1, Typed, MishapTyped DEF ServiceTyped
<1>7. ServiceTyped'
      BY <1>1, <1>3, <1>5, <1>6, Typed DEF ServiceTyped
<1>8. tries' \in [Party -> Nat] /\ tries' = tries
      BY <1>1, Typed
<1> QED BY <1>1, <1>2, <1>4, <1>5, <1>7, <1>8, Turns, TurnKeeps

LEMMA RoomExpiresKeeps ==
    ASSUME PairInv, NEW room \in Room, RoomExpires(room)
    PROVE  PairInv'
<1>1. /\ open' = open \ {room} /\ slot' = [slot EXCEPT ![room] = {}]
      /\ commit' = [commit EXCEPT ![room] = [s \in Party |-> Unset]]
      /\ wire' = [s \in Party |->
                    IF s \in slot[room] THEN Append(wire[s], Plain("down")) ELSE wire[s]]
      /\ UNCHANGED <<calls, stage, code, shown, tries, root, network, offer, ready, pairs>>
      /\ Mishap
      BY DEF RoomExpires, callVars
<1>2. /\ wire \in [Party -> Seq(RoomFrame)] /\ commit \in [Room -> [Party -> Root \cup {Unset}]]
      /\ slot \in [Room -> SUBSET Party] /\ mishaps \in 0..MaxMishaps
      BY Typed DEF ServiceTyped
<1>3. \A s \in Party : Append(wire[s], Plain("down")) \in Seq(RoomFrame)
      BY <1>2, FramesMade
<1>4. wire' \in [Party -> Seq(RoomFrame)]
      BY <1>1, <1>2, <1>3
<1>5. commit' \in [Room -> [Party -> Root \cup {Unset}]] /\ slot' \in [Room -> SUBSET Party]
      BY <1>1, <1>2
<1>6. mishaps' \in 0..MaxMishaps
      BY <1>1, <1>2, MishapTyped
<1>7. ServiceTyped'
      BY <1>1, <1>5, <1>6, Typed DEF ServiceTyped
<1> QED BY <1>1, <1>4, <1>7 DEF PairInv, PairingTypeOK, CallInv, ServiceTyped

LEMMA PairInitial == PairingInit => PairInv
<1> SUFFICES ASSUME PairingInit PROVE PairInv
    OBVIOUS
<1>1. wire \in [Party -> Seq(RoomFrame)] /\ stage \in [Party -> StageName]
      BY NoFrame DEF PairingInit, StageName
<1>2. commit \in [Room -> [Party -> Root \cup {Unset}]] /\ slot \in [Room -> SUBSET Party]
      BY DEF PairingInit
<1>3. /\ calls \in [Party -> 0..MaxCalls] /\ tries \in [Party -> Nat] /\ mishaps \in 0..MaxMishaps
      /\ \A s \in Party : tries[s] <= AddressTries
      BY PairingAssumption DEF PairingInit
<1>4. \A s \in Party : stage[s] = "idle" /\ "idle" \notin Rooted(s)
      BY DEF PairingInit, Rooted, Addressing
<1>5. "host" \in Party
      BY DEF Party
<1> QED BY <1>1, <1>2, <1>3, <1>4, <1>5 DEF PairingInit, PairInv, PairingTypeOK, CallInv

LEMMA PairStutters == PairInv /\ UNCHANGED pairingVars => PairInv'
BY DEF PairInv, PairingTypeOK, CallInv, pairingVars, callVars, serviceVars

\* Every step of a pairing keeps it.
LEMMA PairPreserved == PairInv /\ [PairingNext]_pairingVars => PairInv'
<1> SUFFICES ASSUME PairInv, [PairingNext]_pairingVars PROVE PairInv'
    OBVIOUS
<1>0. "host" \in Party
      BY DEF Party
<1>1. ASSUME NEW s \in Party, Working(s) \/ TimesOut(s) \/ SocketLost(s) \/ AnswerLost(s)
      PROVE  PairInv'
      BY <1>1, EnterKeeps, ExchangeKeeps, EndingKeeps, CommittingKeeps DEF Working
<1>2. CASE HostWorks
      BY <1>0, <1>2, CreateRoomKeeps, EndingKeeps, HearReplyKeeps, ProposeKeeps DEF HostWorks
<1>3. CASE GuestWorks
      BY <1>3, ConsiderKeeps DEF GuestWorks
<1>4. ASSUME NEW c \in Code, BeginGuest(c) \/ \E n \in Networks : BeginHost(c, n)
      PROVE  PairInv'
      BY <1>4, BeginGuestKeeps, BeginHostKeeps
<1>5. ASSUME NEW room \in Room, RoomExpires(room)
      PROVE  PairInv'
      BY <1>5, RoomExpiresKeeps
<1>6. CASE UNCHANGED pairingVars
      BY <1>6, PairStutters
<1> QED BY <1>1, <1>2, <1>3, <1>4, <1>5, <1>6 DEF PairingNext

\* A pairing stays among its states (PairingTypeOK): a side that waits for a frame
\* has the code, the number and, once agreed, the secret of its call of Pair, and
\* neither side tries more rooms or proposals than pair.go allows.
THEOREM PairingTypeCorrect == PairingSpec => []PairingTypeOK
<1>1. PairInv => PairingTypeOK
      BY DEF PairInv
<1> QED BY <1>1, PairInitial, PairPreserved, PTL DEF PairingSpec

-----------------------------------------------------------------------------
(* The agreement of two calls of Pair.                                       *)

\* The stages from the socket on.
Inside(s) == DOMAIN After[s] \cup Addressing \cup {"committing"}

\* A side in a room is where its call is, and nothing is under way to one that
\* is in none.
SlotInv ==
    \A s \in Party :
        /\ \A room \in Room : s \in slot[room] => stage[s] \in Inside(s) /\ code[s].room = room
        /\ wire[s] # <<>> => stage[s] \in Inside(s)

\* The calls a secret was made in: one that names the present call of a side is
\* the secret of that side, if it has one, and is never the secret of a later one.
\* Naming the host's call it was made for its code.
Names(m) == m.kind \in {"ke2", "proposal", "reply"} \cup (Sealed \ {"ke1"})
On(s) == {wire[s][i] : i \in DOMAIN wire[s]}
RootInv ==
    /\ \A s \in Party :
        /\ stage[s] \notin Rooted(s) \cup {"failed"} => root[s] = Unset
        /\ root[s] # Unset => root[s][s] = calls[s]
    /\ root["guest"] # Unset =>
          /\ root["guest"]["host"] <= calls["host"]
          /\ root["guest"]["host"] = calls["host"] =>
                root["host"] = root["guest"] /\ code["host"] = code["guest"]
    /\ root["host"] # Unset => root["host"]["guest"] <= calls["guest"]
    /\ \A m \in On("guest") : Names(m) =>
          /\ m.body.root \in Root
          /\ m.body.root["host"] <= calls["host"]
          /\ m.body.root["host"] = calls["host"] =>
                /\ root["host"] = m.body.root
                /\ m.body.secret = code["host"].secret
                /\ code["host"].room = code["guest"].room
    /\ \A m \in On("host") : Names(m) =>
          /\ m.body.root \in Root
          /\ m.body.root["guest"] <= calls["guest"]
          /\ m.body.root["guest"] = calls["guest"] => root["guest"] = m.body.root
          /\ m.body.root["host"] <= calls["host"]
          /\ m.body.root["host"] = calls["host"] => root["host"] = m.body.root
    /\ \A m \in On("host") : m.kind = "ke1" => m.body.call <= calls["guest"]

\* Within one secret the host waits for the reply to its last proposal.
Says(s, k, i) == wire[s][i].kind = k /\ wire[s][i].body.root = root["host"]
Entry(p, s) == [party |-> p, root |-> root[s], code |-> code[s], addresses |-> offer[s]]
TurnInv ==
    /\ stage["host"] \in Rooted("host") \ {"proposed", "committing", "done"} =>
          /\ \A i \in DOMAIN wire["guest"] : ~Says("guest", "proposal", i)
          /\ \A i \in DOMAIN wire["host"] : ~Says("host", "reply", i)
    /\ stage["host"] = "proposed" =>
          /\ \A i, j \in DOMAIN wire["guest"] :
                Says("guest", "proposal", i) /\ Says("guest", "proposal", j) => i = j
          /\ \A i, j \in DOMAIN wire["host"] :
                Says("host", "reply", i) /\ Says("host", "reply", j) => i = j
          /\ \A i \in DOMAIN wire["guest"], j \in DOMAIN wire["host"] :
                ~(Says("guest", "proposal", i) /\ Says("host", "reply", j))
          /\ \A i \in DOMAIN wire["guest"] :
                Says("guest", "proposal", i) => wire["guest"][i].says = offer["host"]
          /\ \A i \in DOMAIN wire["host"] :
                Says("host", "reply", i) /\ wire["host"][i].says => Entry("guest", "host") \in ready

\* What a side was ready to store: the host what the guest has accepted, and the
\* guest one thing only in one call.
Twin(x, p) == [party |-> p, root |-> x.root, code |-> x.code, addresses |-> x.addresses]
Entries == [party : Party, root : Root, code : Code, addresses : Proposals]
ReadyInv ==
    /\ ready \subseteq Entries
    /\ \A x \in ready :
        /\ Sound(x.addresses)
        /\ x.root["guest"] <= calls["guest"]
        /\ x.party = "host" => Twin(x, "guest") \in ready
        /\ x.party = "guest" /\ x.root["guest"] = calls["guest"] =>
              stage["guest"] \in {"committing", "done", "failed"}
        /\ \A y \in ready : x.party = "guest" /\ y.party = "guest" /\ y.root = x.root => y = x
    /\ \A s \in Party : stage[s] \in {"committing", "done"} => Entry(s, s) \in ready
    /\ stage["host"] \in {"committing", "done"} => Entry("guest", "host") \in ready

\* What the service holds was submitted by sides that were ready.
WasReady(p, r) == \E x \in ready : x.party = p /\ x.root = r
Backed(room, p) == commit[room][p] # Unset => WasReady(p, commit[room][p])
ServiceInv ==
    /\ \A room \in Room : \A p \in Party : Backed(room, p)
    /\ \A r \in pairs : \A p \in Party : WasReady(p, r)
    /\ \A s \in Party : stage[s] = "done" => root[s] \in pairs

\* A proposal is made of the host's prefix.
ProposalInv ==
    /\ offer \in [Party -> Proposals \cup {Unset}]
    /\ stage["host"] \in {"proposed", "committing", "done"} =>
          offer["host"] \in RandomPairs(network) /\ Admitted(network)

\* The stages of a host that has read the guest's identity.
Speaks == stage["host"] \in {"offering", "proposed", "committing", "done"}

\* A host that has met the guest in a session has the secret of the guest's call,
\* and the guest tells who it is once, before they speak of addresses.
MetInv ==
    /\ stage["host"] \in Rooted("host") \ {"ke3"} /\ root["host"]["guest"] = calls["guest"] =>
          root["guest"] = root["host"]
    /\ \A m \in On("host") : m.kind = "identity" /\ m.body.root["guest"] = calls["guest"] =>
          stage["guest"] \in {"identity", "listening", "committing", "done", "failed"}
    /\ Speaks /\ root["host"]["guest"] = calls["guest"] =>
          stage["guest"] \in {"identity", "listening", "committing", "done", "failed"}

\* As long as nothing was lost: who works is in its room.  Beside a guest that has
\* not given up, nothing follows the identity that it sends, nothing but its replies
\* reaches a host that proposes, and a host waits whose proposal it has not read.
Beside == stage["guest"] # "failed" /\ root["guest"] = root["host"]
Placed == \A s \in Party : stage[s] \in Inside(s) => InRoom(s) /\ code[s].room \in open
TellsLast ==
    Beside /\ stage["host"] \in Rooted("host") \ {"offering", "proposed", "committing", "done"} =>
        \A i \in DOMAIN wire["host"] :
            wire["host"][i].kind = "identity" /\ wire["host"][i].body.root = root["host"] =>
                i = Len(wire["host"])
RepliesOnly ==
    Beside /\ stage["host"] \in {"offering", "proposed"} =>
        \A m \in On("host") : m.kind = "reply" /\ m.body = Body("guest", root["guest"])
HostWaits ==
    stage["guest"] # "failed" =>
        \A m \in On("guest") : m.kind = "proposal" /\ m.body.root["guest"] = calls["guest"] =>
            stage["host"] = "proposed" /\ root["host"] = m.body.root /\ root["guest"] = m.body.root

\* And nobody gives up once he is ready: the guest's reply is the last thing on
\* the way to the host.
Ours == \A x \in ready : x.root = root[x.party] /\ stage[x.party] \in {"committing", "done"}
ReplyComes == Len(wire["host"]) = 1 /\ Heard("host", "reply") /\ Received("host").says
Agreed ==
    stage["guest"] \in {"committing", "done"} =>
        /\ root["host"] = root["guest"]
        /\ stage["host"] \in {"committing", "done"} \/ (stage["host"] = "proposed" /\ ReplyComes)
CalmInv == Placed /\ TellsLast /\ RepliesOnly /\ HostWaits /\ Ours /\ Agreed

CoreInv == SlotInv /\ RootInv /\ TurnInv /\ ReadyInv /\ ServiceInv /\ ProposalInv /\ MetInv
AgreeInv == CoreInv /\ (mishaps = 0 => CalmInv)
-----------------------------------------------------------------------------
(* What is on a wire when a frame is taken from it and others are sent.      *)

LEMMA WireTyped ==
    ASSUME PairInv, NEW s \in Party
    PROVE  wire[s] \in Seq(RoomFrame) /\ DOMAIN wire[s] = 1..Len(wire[s]) /\ Len(wire[s]) \in Nat
<1>1. wire[s] \in Seq(RoomFrame)
      BY DEF PairInv, CallInv
<1> QED BY <1>1

\* The first n frames of a wire are taken, and the others stay before some of F.
Follows(p, n, F) ==
    \A i \in DOMAIN wire'[p] :
        \/ i \in Nat /\ i + n \in DOMAIN wire[p] /\ wire'[p][i] = wire[p][i + n]
        \/ wire'[p][i] \in F

LEMMA Stays ==
    ASSUME PairInv, NEW p \in Party, NEW F, wire'[p] = wire[p]
    PROVE  Follows(p, 0, F)
<1>1. \A i \in DOMAIN wire[p] : i \in Nat /\ i + 0 = i
      BY WireTyped
<1> QED BY <1>1 DEF Follows

LEMMA Clears ==
    ASSUME NEW p \in Party, NEW n, NEW F, wire'[p] = <<>>
    PROVE  Follows(p, n, F)
BY DEF Follows

LEMMA Shifts ==
    ASSUME PairInv, NEW p \in Party, NEW F, wire[p] # <<>>, wire'[p] = Tail(wire[p])
    PROVE  Follows(p, 1, F) /\ Len(wire'[p]) = Len(wire[p]) - 1
<1> DEFINE q == wire[p]
<1>1. q \in Seq(RoomFrame) /\ Len(q) \in Nat /\ q # <<>> /\ DOMAIN q = 1..Len(q)
      BY WireTyped
<1>2. wire'[p] = Tail(q)
      OBVIOUS
<1> HIDE DEF q
<1>3. /\ Len(Tail(q)) = Len(q) - 1 /\ DOMAIN Tail(q) = 1..(Len(q) - 1)
      /\ \A i \in 1..(Len(q) - 1) : Tail(q)[i] = q[i + 1]
      BY <1>1
<1>4. \A i \in 1..(Len(q) - 1) : i \in Nat /\ i + 1 \in 1..Len(q)
      BY <1>1
<1> QED BY <1>1, <1>2, <1>3, <1>4 DEF Follows, q

LEMMA Extends ==
    ASSUME PairInv, NEW p \in Party, NEW f \in Seq(RoomFrame), NEW F,
           \A j \in DOMAIN f : f[j] \in F, wire'[p] = wire[p] \o f
    PROVE  Follows(p, 0, F) /\ Len(wire'[p]) = Len(wire[p]) + Len(f)
<1> DEFINE q == wire[p]
<1>1. /\ q \in Seq(RoomFrame) /\ Len(q) \in Nat /\ DOMAIN q = 1..Len(q)
      /\ Len(f) \in Nat /\ DOMAIN f = 1..Len(f)
      BY WireTyped
<1>2. wire'[p] = q \o f
      OBVIOUS
<1> HIDE DEF q
<1>3. /\ Len(q \o f) = Len(q) + Len(f) /\ DOMAIN (q \o f) = 1..(Len(q) + Len(f))
      /\ \A i \in 1..Len(q) : (q \o f)[i] = q[i]
      /\ \A j \in 1..Len(f) : (q \o f)[Len(q) + j] = f[j]
      BY <1>1
<1>4. ASSUME NEW i \in DOMAIN (q \o f)
      PROVE  \/ i \in Nat /\ i + 0 \in DOMAIN q /\ (q \o f)[i] = q[i + 0]
             \/ (q \o f)[i] \in F
  <2>1. i \in Nat /\ i >= 1 /\ i <= Len(q) + Len(f) /\ i + 0 = i
        BY <1>1, <1>3, <1>4
  <2>2. CASE i <= Len(q)
        BY <1>1, <1>3, <2>1, <2>2
  <2>3. CASE i > Len(q)
    <3> DEFINE j == i - Len(q)
    <3>1. j \in 1..Len(f) /\ Len(q) + j = i
          BY <1>1, <2>1, <2>3
    <3> HIDE DEF j
    <3> QED BY <1>1, <1>3, <3>1
  <2> QED BY <1>1, <2>1, <2>2, <2>3
<1> QED BY <1>2, <1>3, <1>4 DEF Follows, q

\* One frame that is sent comes last.
LEMMA Last ==
    ASSUME PairInv, NEW p \in Party, NEW m \in RoomFrame, wire'[p] = wire[p] \o <<m>>
    PROVE  /\ Follows(p, 0, {m}) /\ Len(wire'[p]) = Len(wire[p]) + 1
           /\ DOMAIN wire'[p] = 1..(Len(wire[p]) + 1)
           /\ \A i \in DOMAIN wire[p] : i # Len(wire[p]) + 1 /\ wire'[p][i] = wire[p][i]
           /\ wire'[p][Len(wire[p]) + 1] = m
<1> DEFINE q == wire[p]
<1>1. /\ q \in Seq(RoomFrame) /\ Len(q) \in Nat /\ DOMAIN q = 1..Len(q)
      BY WireTyped
<1>2. wire'[p] = q \o <<m>>
      OBVIOUS
<1>3. /\ <<m>> \in Seq(RoomFrame) /\ Len(<<m>>) = 1 /\ \A j \in DOMAIN <<m>> : <<m>>[j] \in {m}
      OBVIOUS
<1>4. Follows(p, 0, {m}) /\ Len(wire'[p]) = Len(wire[p]) + 1
      BY <1>3, Extends
<1> HIDE DEF q
<1>5. /\ DOMAIN (q \o <<m>>) = 1..(Len(q) + 1)
      /\ \A i \in 1..Len(q) : (q \o <<m>>)[i] = q[i]
      /\ (q \o <<m>>)[Len(q) + 1] = m
      BY <1>1
<1>6. \A i \in 1..Len(q) : i # Len(q) + 1
      BY <1>1
<1> QED BY <1>1, <1>2, <1>4, <1>5, <1>6 DEF q

\* A frame that is on a wire was there before or was sent.
LEMMA OnFollows ==
    ASSUME NEW p \in Party, NEW n, NEW F, Follows(p, n, F), NEW m \in On(p)'
    PROVE  m \in On(p) \/ m \in F
BY DEF On, Follows

LEMMA HeadOn ==
    ASSUME PairInv, NEW s \in Party, HasFrame(s)
    PROVE  /\ Received(s) \in On(s) /\ Received(s) = wire[s][1] /\ 1 \in DOMAIN wire[s]
           /\ Len(wire[s]) >= 1
<1>1. wire[s] \in Seq(RoomFrame) /\ wire[s] # <<>>
      BY WireTyped DEF HasFrame
<1>2. Head(wire[s]) = wire[s][1] /\ 1 \in DOMAIN wire[s] /\ Len(wire[s]) >= 1
      BY <1>1
<1> QED BY <1>2 DEF Received, On

\* A notice says nothing of a secret.
Notices == {Plain("up"), Plain("down")}
LEMMA NoticesPlain ==
    \A m \in Notices : m.kind \notin {"ke1", "ke2", "proposal", "reply"} \cup Sealed
BY DEF Notices, Plain, Sealed

\* When the call of a side ends the other is told.
LEMMA ToldWires ==
    ASSUME PairInv, NEW s \in Party, wire' = Told(s)
    PROVE  /\ wire'[s] = <<>> /\ Follows(s, 0, Notices) /\ Follows(Counterpart(s), 0, Notices)
           /\ \A p \in Party :
                 wire[p] = <<>> /\ wire'[p] # <<>> => p = Counterpart(s) /\ InTouch(s)
<1> DEFINE o == Counterpart(s)
           d == Plain("down")
<1>1. o \in Party /\ o # s /\ \A p \in Party : p \in {s, o}
      BY DEF Party, Counterpart
<1>2. wire \in [Party -> Seq(RoomFrame)] /\ d \in RoomFrame /\ d \in Notices
      BY FramesMade DEF PairInv, CallInv, Notices
<1>3. /\ wire'[s] = <<>>
      /\ wire'[o] = IF InTouch(s) THEN wire[o] \o <<d>> ELSE wire[o]
  <2> HIDE DEF o, d
  <2>1. Sent(s, wire, <<d>>) = IF InTouch(s) THEN [wire EXCEPT ![o] = @ \o <<d>>] ELSE wire
        BY DEF Sent, o
  <2>2. Sent(s, wire, <<d>>) \in [Party -> Seq(RoomFrame)]
        BY <1>2, SentTyped, OneFrame
  <2>3. wire' = [Sent(s, wire, <<d>>) EXCEPT ![s] = <<>>]
        BY DEF Told, d
  <2> QED BY <1>1, <1>2, <2>1, <2>2, <2>3
<1>4. Follows(o, 0, Notices)
  <2>1. CASE InTouch(s)
    <3>1. Follows(o, 0, {d})
          BY <1>1, <1>2, <1>3, <2>1, Last
    <3> QED BY <1>2, <3>1 DEF Follows
  <2>2. CASE ~InTouch(s)
        BY <1>1, <1>3, <2>2, Stays
  <2> QED BY <2>1, <2>2
<1>5. Follows(s, 0, Notices)
      BY <1>3, Clears
<1> HIDE DEF o
<1> QED BY <1>1, <1>3, <1>4, <1>5 DEF o

-----------------------------------------------------------------------------
(* Steps that leave the calls, their secrets and what they were ready for as *)
(* they are: a side joins its room, or its call ends.                        *)

LEMMA Roots ==
    /\ Rooted("host") = {"ke3", "guestMAC", "hostMAC", "hello", "identity", "offering",
                         "proposed", "listening", "committing", "done"}
    /\ Rooted("guest") = {"guestMAC", "hostMAC", "hello", "identity", "offering",
                          "proposed", "listening", "committing", "done"}
BY DEF Rooted, Addressing

StageStill(p) ==
    \/ stage'[p] = stage[p]
    \/ stage'[p] = "failed"
    \/ stage[p] = "committing" /\ stage'[p] = "done"
    \/ stage[p] = "dialing" /\ stage'[p] = "up"
Still ==
    /\ UNCHANGED <<calls, code, root, network, offer, ready>>
    /\ \A p \in Party : StageStill(p) /\ Follows(p, 0, Notices)

LEMMA NamesSome == \A m \in Notices : ~Names(m)
BY NoticesPlain DEF Names

LEMMA RootStill ==
    ASSUME PairInv, RootInv, Still
    PROVE  RootInv'
<1>1. calls' = calls /\ code' = code /\ root' = root
      BY DEF Still
<1>2. ASSUME NEW p \in Party, stage'[p] \notin Rooted(p) \cup {"failed"}
      PROVE  stage[p] \notin Rooted(p) \cup {"failed"} \/ root[p] = Unset
  <2>1. StageStill(p)
        BY DEF Still
  <2>2. stage[p] = "failed" => stage'[p] = "failed"
        BY <2>1 DEF StageStill
  <2>3. stage[p] \in Rooted(p) => stage'[p] \in Rooted(p) \cup {"failed"}
        BY <2>1, Roots DEF StageStill, Party
  <2> QED BY <1>2, <2>2, <2>3
<1>3. ASSUME NEW p \in Party, NEW m \in On(p)', Names(m) \/ m.kind = "ke1"
      PROVE  m \in On(p)
  <2>1. m \in On(p) \/ m \in Notices
        BY OnFollows DEF Still
  <2> QED BY <1>3, <2>1, NamesSome, NoticesPlain
<1>4. "host" \in Party /\ "guest" \in Party
      BY DEF Party
<1>5. \A p \in Party : /\ stage'[p] \notin Rooted(p) \cup {"failed"} => root'[p] = Unset
                       /\ root'[p] # Unset => root'[p][p] = calls'[p]
      BY <1>1, <1>2 DEF RootInv
<1> QED BY <1>1, <1>3, <1>4, <1>5 DEF RootInv

LEMMA TurnStill ==
    ASSUME PairInv, TurnInv, Still
    PROVE  TurnInv'
<1>1. code' = code /\ root' = root /\ offer' = offer /\ ready' = ready
      BY DEF Still
<1>2. "host" \in Party /\ "guest" \in Party
      BY DEF Party
<1>3. StageStill("host") /\ Follows("guest", 0, Notices) /\ Follows("host", 0, Notices)
      BY <1>2 DEF Still
<1>4. ASSUME NEW s \in Party, NEW i \in DOMAIN wire'[s],
             NEW k \in {"proposal", "reply"}, Says(s, k, i)'
      PROVE  i \in DOMAIN wire[s] /\ wire'[s][i] = wire[s][i] /\ Says(s, k, i)
  <2>1. Follows(s, 0, Notices)
        BY DEF Still
  <2>2. wire'[s][i].kind = k /\ wire'[s][i].body.root = root["host"]
        BY <1>1, <1>4 DEF Says
  <2>3. wire'[s][i] \notin Notices
        BY <2>2, NoticesPlain
  <2>4. i + 0 \in DOMAIN wire[s] /\ wire'[s][i] = wire[s][i + 0] /\ i \in Nat
        BY <2>1, <2>3 DEF Follows
  <2>5. i + 0 = i
        BY <2>4
  <2> QED BY <2>2, <2>4, <2>5 DEF Says
<1>5. Entry("guest", "host")' = Entry("guest", "host")
      BY <1>1 DEF Entry
<1>6. CASE stage'["host"] = stage["host"]
      BY <1>1, <1>2, <1>4, <1>5, <1>6 DEF TurnInv
<1>7. CASE stage'["host"] \in {"failed", "done", "up"}
      BY <1>7, Roots DEF TurnInv
<1> QED BY <1>3, <1>6, <1>7 DEF StageStill

LEMMA ReadyStill ==
    ASSUME PairInv, ReadyInv, Still
    PROVE  ReadyInv'
<1>1. calls' = calls /\ code' = code /\ root' = root /\ offer' = offer /\ ready' = ready
      BY DEF Still
<1>2. \A p \in Party : StageStill(p)
      BY DEF Still
<1>3. "host" \in Party /\ "guest" \in Party
      BY DEF Party
<1>4. \A p \in Party : stage'[p] \in {"committing", "done"} => stage[p] \in {"committing", "done"}
      BY <1>2 DEF StageStill
<1>5. stage["guest"] \in {"committing", "done", "failed"} =>
          stage'["guest"] \in {"committing", "done", "failed"}
      BY <1>2, <1>3 DEF StageStill
<1>6. \A p, s \in Party : Entry(p, s)' = Entry(p, s)
      BY <1>1 DEF Entry
<1> QED BY <1>1, <1>3, <1>4, <1>5, <1>6 DEF ReadyInv, Twin

LEMMA OfferStill ==
    ASSUME PairInv, ProposalInv, Still
    PROVE  ProposalInv'
<1>1. network' = network /\ offer' = offer
      BY DEF Still
<1>2. StageStill("host")
      BY DEF Still, Party
<1>3. stage'["host"] \in {"proposed", "committing", "done"} =>
          stage["host"] \in {"proposed", "committing", "done"}
      BY <1>2 DEF StageStill
<1>4. RandomPairs(network)' = RandomPairs(network) /\ Admitted(network)' = Admitted(network)
      BY <1>1 DEF RandomPairs, Admitted, Masked, PrefixLast, Size
<1> QED BY <1>1, <1>3, <1>4 DEF ProposalInv

LEMMA MetStill ==
    ASSUME PairInv, MetInv, Still
    PROVE  MetInv'
<1>1. calls' = calls /\ root' = root
      BY DEF Still
<1>2. "host" \in Party /\ "guest" \in Party
      BY DEF Party
<1>3. StageStill("host") /\ StageStill("guest") /\ Follows("host", 0, Notices)
      BY <1>2 DEF Still
<1>4. stage'["host"] \in Rooted("host") \ {"ke3"} => stage["host"] \in Rooted("host") \ {"ke3"}
      BY <1>3, Roots DEF StageStill
<1>5. ASSUME NEW m \in On("host")', m.kind = "identity"
      PROVE  m \in On("host")
      BY <1>2, <1>3, <1>5, OnFollows, NoticesPlain DEF Sealed
<1>6. stage["guest"] \in {"identity", "listening", "committing", "done", "failed"} =>
          stage'["guest"] \in {"identity", "listening", "committing", "done", "failed"}
      BY <1>3 DEF StageStill
<1>7. Speaks' => Speaks
      BY <1>3 DEF StageStill, Speaks
<1> QED BY <1>1, <1>4, <1>5, <1>6, <1>7 DEF MetInv

-----------------------------------------------------------------------------
(* Who is in a room.                                                         *)

LEMMA Insides ==
    /\ Inside("host") = {"up", "ke1", "ke3", "guestMAC", "hello", "identity", "offering",
                         "proposed", "listening", "committing"}
    /\ Inside("guest") = {"up", "ke2", "hostMAC", "hello", "identity", "offering", "proposed",
                          "listening", "committing"}
BY Stages DEF Inside, Addressing

LEMMA InsideCoded ==
    ASSUME PairInv, NEW s \in Party, stage[s] \in Inside(s)
    PROVE  code[s] \in Code /\ code[s] # Unset /\ code[s].room \in Room
<1>1. stage[s] # "idle"
      BY Insides DEF Party
<1> QED BY <1>1, Typed, PairingAssumption DEF Code

LEMMA SlotTyped ==
    ASSUME PairInv
    PROVE  slot \in [Room -> SUBSET Party]
BY DEF PairInv, PairingTypeOK

\* Two sides in touch are in one room, each at its place.
LEMMA TouchMeets ==
    ASSUME PairInv, SlotInv, NEW s \in Party, InTouch(s)
    PROVE  /\ \A p \in Party : stage[p] \in Inside(p) /\ code[p].room = code[s].room
           /\ code[s].room \in Room
<1>1. slot[code[s].room] = Party /\ code[s] # Unset
      BY DEF InTouch, InRoom
<1>2. code[s].room \in Room
      BY <1>1, Typed DEF Code
<1> QED BY <1>1, <1>2 DEF SlotInv

LEMMA LeftRooms ==
    ASSUME PairInv, SlotInv, NEW s \in Party, slot' = Left(s)
    PROVE  /\ \A room \in Room : s \notin slot'[room]
           /\ \A p \in Party \ {s} : \A room \in Room : p \in slot'[room] <=> p \in slot[room]
<1>1. slot \in [Room -> SUBSET Party]
      BY SlotTyped
<1>2. ASSUME NEW room \in Room, s \in slot[room]
      PROVE  InRoom(s) /\ code[s].room = room
  <2>1. stage[s] \in Inside(s) /\ code[s].room = room
        BY <1>2 DEF SlotInv
  <2> QED BY <1>2, <2>1, InsideCoded DEF InRoom
<1>3. CASE InRoom(s)
  <2>1. slot' = [slot EXCEPT ![code[s].room] = @ \ {s}]
        BY <1>3 DEF Left
  <2> QED BY <1>1, <1>2, <2>1
<1>4. CASE ~InRoom(s)
      BY <1>2, <1>4 DEF Left
<1> QED BY <1>3, <1>4

LEMMA EndsSlot ==
    ASSUME PairInv, SlotInv, NEW s \in Party, wire' = Told(s), slot' = Left(s), code' = code,
           \A p \in Party \ {s} : stage'[p] = stage[p]
    PROVE  SlotInv'
<1>1. \A p \in Party \ {s} : Inside(p)' = Inside(p)
      BY DEF Inside
<1>2. ASSUME NEW p \in Party, NEW room \in Room, p \in slot'[room]
      PROVE  stage'[p] \in Inside(p) /\ code'[p].room = room
  <2>1. p # s /\ p \in slot[room]
        BY <1>2, LeftRooms
  <2> QED BY <2>1 DEF SlotInv
<1>3. ASSUME NEW p \in Party, wire'[p] # <<>>
      PROVE  stage'[p] \in Inside(p)
  <2>1. p # s
        BY <1>3, ToldWires
  <2>2. stage[p] \in Inside(p)
    <3>1. CASE wire[p] # <<>>
          BY <3>1 DEF SlotInv
    <3>2. CASE wire[p] = <<>>
          BY <1>3, <3>2, ToldWires, TouchMeets
    <3> QED BY <3>1, <3>2
  <2> QED BY <2>1, <2>2
<1> QED BY <1>1, <1>2, <1>3 DEF SlotInv, Inside

LEMMA EndsStill ==
    ASSUME PairInv, NEW s \in Party, NEW k \in {"failed", "done"},
           k = "done" => stage[s] = "committing", stage' = [stage EXCEPT ![s] = k],
           wire' = Told(s), UNCHANGED <<calls, code, root, network, offer, ready>>
    PROVE  Still
<1>1. k \in StageName
      BY DEF StageName
<1>2. stage'[s] = k /\ \A p \in Party \ {s} : stage'[p] = stage[p]
      BY <1>1, Staged
<1>3. \A p \in Party : StageStill(p)
      BY <1>2 DEF StageStill
<1>4. \A p \in Party : p \in {s, Counterpart(s)}
      BY DEF Party, Counterpart
<1> QED BY <1>3, <1>4, ToldWires DEF Still

LEMMA EnterDoes ==
    ASSUME PairInv, SlotInv, NEW s \in Party, Enter(s)
    PROVE  Still /\ SlotInv'
<1> DEFINE room == code[s].room
<1>1. /\ stage[s] = "dialing" /\ room \in open /\ slot' = [slot EXCEPT ![room] = @ \cup {s}]
      /\ stage' = [stage EXCEPT ![s] = "up"]
      /\ wire' = IF Counterpart(s) \in slot[room]
                   THEN [p \in Party |-> Append(wire[p], Plain("up"))] ELSE wire
      /\ UNCHANGED <<calls, code, root, network, offer, ready>>
      BY DEF Enter
<1>2. stage'[s] = "up" /\ \A p \in Party \ {s} : stage'[p] = stage[p]
      BY <1>1, Named, Staged
<1>3. code[s] \in Code /\ room \in Room
      BY <1>1, Typed DEF Code
<1>4. slot \in [Room -> SUBSET Party] /\ \A p \in Party : p \in {s, Counterpart(s)}
      BY SlotTyped DEF Party, Counterpart
<1>5. ASSUME NEW p \in Party
      PROVE  Follows(p, 0, Notices)
  <2>1. Plain("up") \in RoomFrame /\ Plain("up") \in Notices /\ wire[p] \in Seq(RoomFrame)
        BY FramesMade, WireTyped DEF Notices
  <2>2. CASE Counterpart(s) \in slot[room]
    <3>1. wire'[p] = Append(wire[p], Plain("up"))
          BY <1>1, <2>2
    <3>2. wire'[p] = wire[p] \o <<Plain("up")>>
          BY <2>1, <3>1, AppendIsConcat
    <3>3. Follows(p, 0, {Plain("up")})
          BY <2>1, <3>2, Last
    <3> QED BY <2>1, <3>3 DEF Follows
  <2>3. CASE Counterpart(s) \notin slot[room]
        BY <1>1, <2>3, Stays
  <2> QED BY <2>2, <2>3
<1>6. \A p \in Party : StageStill(p)
      BY <1>1, <1>2 DEF StageStill
<1>7. "up" \in Inside(s)
      BY Insides DEF Party
<1>8. ASSUME NEW p \in Party, NEW x \in Room, p \in slot'[x]
      PROVE  stage'[p] \in Inside(p) /\ code'[p].room = x
  <2>1. CASE p = s /\ x = room
        BY <1>1, <1>2, <1>7, <2>1
  <2>2. CASE ~(p = s /\ x = room)
    <3>1. p \in slot[x]
          BY <1>1, <1>3, <1>4, <1>8, <2>2
    <3>2. stage[p] \in Inside(p) /\ code[p].room = x
          BY <3>1 DEF SlotInv
    <3>3. "dialing" \notin Inside(p)
          BY Insides DEF Party
    <3> QED BY <1>1, <1>2, <3>2, <3>3
  <2> QED BY <2>1, <2>2
<1>9. ASSUME NEW p \in Party, wire'[p] # <<>>
      PROVE  stage'[p] \in Inside(p)
  <2>1. CASE p = s
        BY <1>2, <1>7, <2>1
  <2>2. CASE p # s /\ wire[p] # <<>>
        BY <1>2, <2>2 DEF SlotInv
  <2>3. CASE p # s /\ wire[p] = <<>>
    <3>1. p = Counterpart(s) /\ p \in slot[room]
          BY <1>1, <1>4, <1>9, <2>3
    <3>2. stage[p] \in Inside(p)
          BY <1>3, <3>1 DEF SlotInv
    <3> QED BY <1>2, <2>3, <3>2
  <2> QED BY <2>1, <2>2, <2>3
<1>10. Still
      BY <1>1, <1>5, <1>6 DEF Still
<1>11. SlotInv'
      BY <1>8, <1>9 DEF SlotInv, Inside
<1> QED BY <1>10, <1>11

LEMMA ExpiresDoes ==
    ASSUME PairInv, SlotInv, NEW room \in Room, RoomExpires(room)
    PROVE  Still /\ SlotInv'
<1>1. /\ slot' = [slot EXCEPT ![room] = {}]
      /\ wire' = [s \in Party |->
                    IF s \in slot[room] THEN Append(wire[s], Plain("down")) ELSE wire[s]]
      /\ UNCHANGED <<calls, stage, code, root, network, offer, ready>>
      BY DEF RoomExpires, callVars
<1>2. slot \in [Room -> SUBSET Party]
      BY SlotTyped
<1>3. ASSUME NEW p \in Party
      PROVE  Follows(p, 0, Notices)
  <2>1. Plain("down") \in RoomFrame /\ Plain("down") \in Notices /\ wire[p] \in Seq(RoomFrame)
        BY FramesMade, WireTyped DEF Notices
  <2>2. CASE p \in slot[room]
    <3>1. wire'[p] = Append(wire[p], Plain("down"))
          BY <1>1, <2>2
    <3>2. wire'[p] = wire[p] \o <<Plain("down")>>
          BY <2>1, <3>1, AppendIsConcat
    <3>3. Follows(p, 0, {Plain("down")})
          BY <2>1, <3>2, Last
    <3> QED BY <2>1, <3>3 DEF Follows
  <2>3. CASE p \notin slot[room]
        BY <1>1, <2>3, Stays
  <2> QED BY <2>2, <2>3
<1>4. Still
      BY <1>1, <1>3 DEF Still, StageStill
<1>5. \A p \in Party : \A x \in Room : p \in slot'[x] => p \in slot[x]
      BY <1>1, <1>2
<1>6. \A p \in Party : wire'[p] # <<>> => stage[p] \in Inside(p)
      BY <1>1 DEF SlotInv
<1>7. SlotInv'
      BY <1>1, <1>5, <1>6 DEF SlotInv, Inside
<1> QED BY <1>4, <1>7

-----------------------------------------------------------------------------
(* What the service holds.                                                   *)

LEMMA ServiceStays ==
    ASSUME ServiceInv, pairs' = pairs, ready \subseteq ready',
           \A room \in Room : \A p \in Party : commit'[room][p] \in {Unset, commit[room][p]},
           \A s \in Party : stage'[s] = "done" => stage[s] = "done" /\ root'[s] = root[s]
    PROVE  ServiceInv'
<1>1. \A p, r : WasReady(p, r) => WasReady(p, r)'
      BY DEF WasReady
<1>2. ASSUME NEW room \in Room, NEW p \in Party
      PROVE  Backed(room, p)'
  <2>1. CASE commit'[room][p] = Unset
        BY <2>1 DEF Backed
  <2>2. CASE commit'[room][p] = commit[room][p] /\ commit'[room][p] # Unset
    <3>1. \E x \in ready : x.party = p /\ x.root = commit[room][p]
          BY <2>2 DEF ServiceInv, Backed, WasReady
    <3> QED BY <2>2, <3>1 DEF Backed, WasReady
  <2> QED BY <2>1, <2>2
<1>3. \A r \in pairs' : \A p \in Party : WasReady(p, r)'
      BY <1>1 DEF ServiceInv
<1>4. \A s \in Party : stage'[s] = "done" => root'[s] \in pairs'
      BY DEF ServiceInv
<1> QED BY <1>2, <1>3, <1>4 DEF ServiceInv

LEMMA SubmitService ==
    ASSUME PairInv, ReadyInv, ServiceInv, NEW s \in Party, stage[s] = "committing",
           Submitted(s), ready' = ready, root' = root,
           \A p \in Party \ {s} : stage'[p] = stage[p], stage'[s] = "done" => Committed(s)
    PROVE  ServiceInv'
<1> DEFINE room == code[s].room
<1>1. code[s] \in Code /\ root[s] \in Root /\ room \in Room
  <2>1. stage[s] \in Rooted(s) /\ stage[s] # "idle"
        BY Roots DEF Party
  <2> QED BY <2>1, Typed DEF Code
<1>2. WasReady(s, root[s])
  <2>1. Entry(s, s) \in ready
        BY DEF ReadyInv
  <2> QED BY <2>1 DEF WasReady, Entry
<1>3. commit \in [Room -> [Party -> Root \cup {Unset}]] /\ Unset \notin Root
      BY Typed, PairingAssumption DEF ServiceTyped
<1>4. \A p, r : WasReady(p, r) => WasReady(p, r)'
      BY DEF WasReady
<1>5. CASE InService(s) /\ ~Conflict(s)
  <2>1. /\ commit' = [commit EXCEPT ![room] = Commits(s)]
        /\ pairs' = pairs \cup {r \in {root[s]} : \A p \in Party : Commits(s)[p] = r}
        BY <1>5 DEF Submitted
  <2>2. /\ Commits(s)[s] = root[s]
        /\ \A p \in Party \ {s} : Commits(s)[p] = commit[room][p]
        BY <1>1, <1>3 DEF Commits
  <2>3. ASSUME NEW x \in Room, NEW p \in Party
        PROVE  Backed(x, p)'
    <3>1. CASE x = room /\ p = s
      <4>1. commit'[x][p] = root[s]
            BY <1>1, <1>3, <2>1, <2>2, <3>1
      <4> QED BY <1>2, <3>1, <4>1 DEF Backed, WasReady
    <3>2. CASE ~(x = room /\ p = s)
      <4>1. commit'[x][p] = commit[x][p]
            BY <1>1, <1>3, <2>1, <2>2, <3>2
      <4> QED BY <4>1 DEF ServiceInv, Backed, WasReady
    <3> QED BY <3>1, <3>2
  <2>4. ASSUME NEW r \in pairs', NEW p \in Party
        PROVE  WasReady(p, r)
    <3>1. CASE r \in pairs
          BY <3>1 DEF ServiceInv
    <3>2. CASE r \notin pairs
      <4>1. r = root[s] /\ Commits(s)[p] = r
            BY <2>1, <2>4, <3>2
      <4>2. CASE p = s
            BY <1>2, <4>1, <4>2
      <4>3. CASE p # s
            BY <1>1, <1>3, <2>2, <4>1, <4>3 DEF ServiceInv, Backed
      <4> QED BY <4>2, <4>3
    <3> QED BY <3>1, <3>2
  <2>5. ASSUME NEW p \in Party, stage'[p] = "done"
        PROVE  root'[p] \in pairs'
    <3>1. CASE p = s
      <4>1. \A x \in Party : Commits(s)[x] = root[s]
            BY <1>5, <2>5, <3>1 DEF Committed
      <4> QED BY <2>1, <3>1, <4>1
    <3>2. CASE p # s
          BY <2>1, <2>5, <3>2 DEF ServiceInv
    <3> QED BY <3>1, <3>2
  <2> QED BY <1>4, <2>3, <2>4, <2>5 DEF ServiceInv
<1>6. CASE ~(InService(s) /\ ~Conflict(s))
  <2>1. commit' = commit /\ pairs' = pairs
        BY <1>6 DEF Submitted
  <2>2. stage'[s] = "done" => root[s] \in pairs
        BY <1>6 DEF Committed
  <2>3. \A p \in Party : stage'[p] = "done" => root'[p] \in pairs'
        BY <2>1, <2>2 DEF ServiceInv
  <2>4. \A x \in Room : \A p \in Party : Backed(x, p)'
        BY <2>1 DEF ServiceInv, Backed, WasReady
  <2>5. \A r \in pairs' : \A p \in Party : WasReady(p, r)'
        BY <1>4, <2>1 DEF ServiceInv
  <2> QED BY <2>3, <2>4, <2>5 DEF ServiceInv
<1> QED BY <1>5, <1>6

-----------------------------------------------------------------------------
(* A call begins, and a host opens its room.                                 *)

\* What a call is that has not met its counterpart.
LEMMA Apart ==
    ASSUME PairInv, SlotInv, NEW s \in Party, stage[s] \in {"idle", "failed", "creating"}
    PROVE  wire[s] = <<>> /\ On(s) = {} /\ \A room \in Room : s \notin slot[room]
<1>1. stage[s] \notin Inside(s)
      BY Insides DEF Party
<1>2. wire[s] = <<>> /\ \A room \in Room : s \notin slot[room]
      BY <1>1 DEF SlotInv
<1> QED BY <1>2 DEF On

LEMMA Counts ==
    ASSUME PairInv
    PROVE  /\ calls["host"] \in Nat /\ calls["guest"] \in Nat
           /\ \A r \in Root : r["host"] \in Nat /\ r["guest"] \in Nat
           /\ \A p \in Party : root[p] = Unset \/ root[p] \in Root
BY Typed, PairingAssumption DEF Root, Party

LEMMA BeginDoes ==
    ASSUME PairInv, SlotInv, NEW s \in Party, Begin(s)
    PROVE  /\ calls'[s] = calls[s] + 1 /\ root'[s] = Unset /\ wire' = wire
           /\ offer' = [offer EXCEPT ![s] = Unset]
           /\ \A p \in Party \ {s} :
                 calls'[p] = calls[p] /\ root'[p] = root[p] /\ offer'[p] = offer[p]
<1>1. /\ stage[s] \in {"idle", "failed"} /\ calls' = [calls EXCEPT ![s] = @ + 1]
      /\ root' = [root EXCEPT ![s] = Unset] /\ offer' = [offer EXCEPT ![s] = Unset]
      /\ wire' = [wire EXCEPT ![s] = <<>>]
      BY DEF Begin
<1>2. wire[s] = <<>> /\ wire \in [Party -> Seq(RoomFrame)]
      BY <1>1, Apart, Typed
<1>3. wire' = wire
      BY <1>1, <1>2
<1>4. \A p \in Party \ {s} : offer'[p] = offer[p]
      BY <1>1
<1> QED BY <1>1, <1>3, <1>4, Typed

LEMMA BeginHostCore ==
    ASSUME PairInv, CoreInv, NEW c \in Code, NEW n \in Networks, BeginHost(c, n)
    PROVE  CoreInv'
<1>0. SlotInv /\ RootInv /\ TurnInv /\ ReadyInv /\ ServiceInv /\ ProposalInv /\ MetInv
      BY DEF CoreInv
<1>1. /\ Begin("host") /\ code' = [code EXCEPT !["host"] = c]
      /\ stage' = [stage EXCEPT !["host"] = "creating"]
      /\ UNCHANGED <<ready, open, slot, commit, pairs, mishaps>>
      BY DEF BeginHost
<1>2. /\ stage["host"] \in {"idle", "failed"} /\ "host" \in Party /\ "guest" \in Party
      BY <1>1 DEF Begin, Party
<1>3. /\ stage'["host"] = "creating" /\ stage'["guest"] = stage["guest"]
      /\ code'["guest"] = code["guest"]
      BY <1>1, <1>2, Named, Staged, Typed
<1>4. wire["host"] = <<>> /\ On("host") = {} /\ \A room \in Room : "host" \notin slot[room]
      BY <1>0, <1>2, Apart
<1>5. /\ calls'["host"] = calls["host"] + 1 /\ calls'["guest"] = calls["guest"]
      /\ root'["host"] = Unset /\ root'["guest"] = root["guest"]
      /\ offer'["guest"] = offer["guest"] /\ wire' = wire
      /\ offer' = [offer EXCEPT !["host"] = Unset]
      BY <1>0, <1>1, <1>2, BeginDoes
<1>6. \A s \in Party : s = "host" \/ s = "guest"
      BY DEF Party
<1>7. SlotInv'
  <2>1. Inside("guest")' = Inside("guest")
        BY DEF Inside
  <2> QED BY <1>0, <1>1, <1>3, <1>4, <1>5, <1>6, <2>1 DEF SlotInv
<1>8. On("host")' = {} /\ On("guest")' = On("guest")
      BY <1>4, <1>5 DEF On
<1>9. \A r \in Root : r["host"] <= calls["host"] =>
          r["host"] <= calls'["host"] /\ r["host"] # calls'["host"]
      BY <1>5, Counts
<1>10. "creating" \notin Rooted("host")
      BY Roots
<1>11. RootInv'
  <2>1. root'["guest"] # Unset =>
          /\ root'["guest"]["host"] <= calls'["host"]
          /\ root'["guest"]["host"] # calls'["host"]
        BY <1>0, <1>2, <1>5, <1>9, Counts DEF RootInv
  <2>2. \A m \in On("guest")' : Names(m) =>
          /\ m.body.root \in Root
          /\ m.body.root["host"] <= calls'["host"]
          /\ m.body.root["host"] # calls'["host"]
        BY <1>0, <1>8, <1>9 DEF RootInv
  <2>3. \A s \in Party :
          /\ stage'[s] \notin Rooted(s) \cup {"failed"} => root'[s] = Unset
          /\ root'[s] # Unset => root'[s][s] = calls'[s]
        BY <1>0, <1>3, <1>5, <1>6 DEF RootInv
  <2> QED BY <1>5, <1>8, <2>1, <2>2, <2>3 DEF RootInv
<1>12. TurnInv' /\ ProposalInv' /\ MetInv'
  <2>1. offer' \in [Party -> Proposals \cup {Unset}]
        BY <1>0, <1>5 DEF ProposalInv
  <2> QED BY <1>3, <1>8, <1>10, <2>1 DEF TurnInv, ProposalInv, MetInv, Speaks
<1>13. ReadyInv'
  <2>1. Entry("guest", "guest")' = Entry("guest", "guest")
        BY <1>3, <1>5 DEF Entry
  <2> QED BY <1>0, <1>1, <1>3, <1>5, <1>6, <2>1 DEF ReadyInv, Twin
<1>14. ServiceInv'
      BY <1>0, <1>1, <1>3, <1>5, <1>6, ServiceStays
<1> QED BY <1>7, <1>11, <1>12, <1>13, <1>14 DEF CoreInv

LEMMA BeginGuestCore ==
    ASSUME PairInv, CoreInv, NEW c \in Code, BeginGuest(c)
    PROVE  CoreInv'
<1>0. SlotInv /\ RootInv /\ TurnInv /\ ReadyInv /\ ServiceInv /\ ProposalInv /\ MetInv
      BY DEF CoreInv
<1>1. /\ Begin("guest") /\ code' = [code EXCEPT !["guest"] = c]
      /\ stage' = [stage EXCEPT !["guest"] = "dialing"]
      /\ UNCHANGED <<network, ready, open, slot, commit, pairs, mishaps>>
      BY DEF BeginGuest
<1>2. /\ stage["guest"] \in {"idle", "failed"} /\ "host" \in Party /\ "guest" \in Party
      BY <1>1 DEF Begin, Party
<1>3. /\ stage'["guest"] = "dialing" /\ stage'["host"] = stage["host"]
      /\ code'["host"] = code["host"]
      BY <1>1, <1>2, Named, Staged, Typed
<1>4. wire["guest"] = <<>> /\ On("guest") = {} /\ \A room \in Room : "guest" \notin slot[room]
      BY <1>0, <1>2, Apart
<1>5. /\ calls'["guest"] = calls["guest"] + 1 /\ calls'["host"] = calls["host"]
      /\ root'["guest"] = Unset /\ root'["host"] = root["host"]
      /\ offer'["host"] = offer["host"] /\ wire' = wire
      /\ offer' = [offer EXCEPT !["guest"] = Unset]
      BY <1>0, <1>1, <1>2, BeginDoes
<1>6. \A s \in Party : s = "host" \/ s = "guest"
      BY DEF Party
<1>7. SlotInv'
  <2>1. Inside("host")' = Inside("host")
        BY DEF Inside
  <2> QED BY <1>0, <1>1, <1>3, <1>4, <1>5, <1>6, <2>1 DEF SlotInv
<1>8. On("guest")' = {} /\ On("host")' = On("host")
      BY <1>4, <1>5 DEF On
<1>9. \A r \in Root : r["guest"] <= calls["guest"] =>
          r["guest"] <= calls'["guest"] /\ r["guest"] # calls'["guest"]
      BY <1>5, Counts
<1>10. "dialing" \notin Rooted("guest")
      BY Roots
<1>11. root["host"] # Unset =>
          root["host"]["guest"] <= calls'["guest"] /\ root["host"]["guest"] # calls'["guest"]
      BY <1>0, <1>2, <1>5, <1>9, Counts DEF RootInv
<1>12. \A m \in On("host") : Names(m) =>
          /\ m.body.root \in Root
          /\ m.body.root["guest"] <= calls'["guest"]
          /\ m.body.root["guest"] # calls'["guest"]
      BY <1>0, <1>8, <1>9 DEF RootInv
<1>13. RootInv'
  <2>1. \A s \in Party :
          /\ stage'[s] \notin Rooted(s) \cup {"failed"} => root'[s] = Unset
          /\ root'[s] # Unset => root'[s][s] = calls'[s]
        BY <1>0, <1>3, <1>5, <1>6 DEF RootInv
  <2>2. ASSUME NEW m \in On("host"), m.kind = "ke1"
        PROVE  m.body.call <= calls'["guest"]
    <3>1. m \in RoomFrame /\ "ke1" \in Sealed
          BY <1>2, WireTyped DEF On, Sealed
    <3>2. m.body \in Bodies(Root \cup {Unset})
          BY <2>2, <3>1, FrameKinds
    <3>3. m.body.call \in Nat /\ m.body.call <= calls["guest"]
          BY <1>0, <2>2, <3>2, PairingAssumption DEF RootInv, Bodies
    <3> QED BY <1>5, <3>3, Counts
  <2> QED BY <1>0, <1>3, <1>5, <1>8, <1>11, <1>12, <2>1, <2>2 DEF RootInv
<1>14. TurnInv'
  <2>1. Entry("guest", "host")' = Entry("guest", "host")
        BY <1>3, <1>5 DEF Entry
  <2>2. \A s \in Party : \A k \in {"proposal", "reply"} : \A i \in DOMAIN wire[s] :
            Says(s, k, i)' <=> Says(s, k, i)
        BY <1>5 DEF Says
  <2> QED BY <1>0, <1>1, <1>2, <1>3, <1>5, <2>1, <2>2 DEF TurnInv
<1>15. ProposalInv'
  <2>1. RandomPairs(network)' = RandomPairs(network) /\ Admitted(network)' = Admitted(network)
        BY <1>1 DEF RandomPairs, Admitted, Masked, PrefixLast, Size
  <2>2. offer' \in [Party -> Proposals \cup {Unset}]
        BY <1>0, <1>5 DEF ProposalInv
  <2> QED BY <1>0, <1>3, <1>5, <2>1, <2>2 DEF ProposalInv
<1>16. MetInv'
  <2>1. stage["host"] \in Rooted("host") \ {"ke3"} => root["host"] # Unset
        BY <1>2, Typed, PairingAssumption
  <2>2. \A m \in On("host") : m.kind = "identity" => Names(m)
        BY DEF Names, Sealed
  <2>3. Speaks' => stage["host"] \in Rooted("host") \ {"ke3"}
        BY <1>3, Roots DEF Speaks
  <2> QED BY <1>0, <1>3, <1>5, <1>8, <1>11, <1>12, <2>1, <2>2, <2>3 DEF MetInv
<1>17. ReadyInv'
  <2>1. \A p \in Party : Entry(p, "host")' = Entry(p, "host")
        BY <1>3, <1>5 DEF Entry
  <2>2. \A x \in ready : x.root \in Root
        BY <1>0 DEF ReadyInv, Entries
  <2>3. \A x \in ready : x.root["guest"] <= calls'["guest"] /\ x.root["guest"] # calls'["guest"]
        BY <1>0, <1>9, <2>2 DEF ReadyInv
  <2> QED BY <1>0, <1>1, <1>2, <1>3, <1>6, <2>1, <2>3 DEF ReadyInv, Twin
<1>18. ServiceInv'
      BY <1>0, <1>1, <1>3, <1>5, <1>6, ServiceStays
<1> QED BY <1>7, <1>13, <1>14, <1>15, <1>16, <1>17, <1>18 DEF CoreInv

LEMMA CreateRoomCore ==
    ASSUME PairInv, CoreInv, NEW c \in Code, CreateRoom(c)
    PROVE  CoreInv'
<1>0. SlotInv /\ RootInv /\ TurnInv /\ ReadyInv /\ ServiceInv /\ ProposalInv /\ MetInv
      BY DEF CoreInv
<1>1. /\ stage["host"] = "creating"
      /\ UNCHANGED <<calls, root, network, offer, ready, wire, pairs, slot>>
      /\ "host" \in Party /\ "guest" \in Party
      BY DEF CreateRoom, Party
<1>2. PICK k \in {"creating", "failed", "dialing"} : stage' = [stage EXCEPT !["host"] = k]
  <2>1. stage' = stage => stage' = [stage EXCEPT !["host"] = "creating"]
        BY <1>1, Typed
  <2> QED BY <2>1 DEF CreateRoom
<1>3. stage'["host"] = k /\ stage'["guest"] = stage["guest"]
  <2>1. k \in StageName
        BY <1>2 DEF StageName
  <2> QED BY <1>1, <1>2, <2>1, Staged
<1>4. code'["guest"] = code["guest"]
      BY <1>1, Typed DEF CreateRoom
<1>5. k \notin Rooted("host") /\ "creating" \notin Rooted("host") \cup {"failed"}
      BY <1>2, Roots
<1>6. \A s \in Party : s = "host" \/ s = "guest"
      BY DEF Party
<1>7. root["host"] = Unset
      BY <1>0, <1>1, <1>5 DEF RootInv
<1>8. wire["host"] = <<>> /\ On("host") = {} /\ \A room \in Room : "host" \notin slot[room]
      BY <1>0, <1>1, Apart
<1>9. SlotInv'
  <2>1. Inside("guest")' = Inside("guest")
        BY DEF Inside
  <2> QED BY <1>0, <1>1, <1>3, <1>4, <1>6, <1>8, <2>1 DEF SlotInv
<1>10. On("host")' = {} /\ On("guest")' = On("guest")
      BY <1>1, <1>8 DEF On
<1>11. RootInv'
  <2>1. root["guest"] # Unset => root["guest"]["host"] # calls["host"]
        BY <1>0, <1>7 DEF RootInv
  <2>2. \A m \in On("guest") : Names(m) => m.body.root["host"] # calls["host"]
        BY <1>0, <1>7, PairingAssumption DEF RootInv
  <2>3. \A s \in Party :
          /\ stage'[s] \notin Rooted(s) \cup {"failed"} => root'[s] = Unset
          /\ root'[s] # Unset => root'[s][s] = calls'[s]
        BY <1>0, <1>1, <1>3, <1>6, <1>7 DEF RootInv
  <2> QED BY <1>0, <1>1, <1>7, <1>10, <2>1, <2>2, <2>3 DEF RootInv
<1>12. TurnInv' /\ ProposalInv' /\ MetInv'
      BY <1>0, <1>1, <1>2, <1>3, <1>5, <1>10, Roots DEF TurnInv, ProposalInv, MetInv, Speaks
<1>13. ReadyInv'
  <2>1. Entry("guest", "guest")' = Entry("guest", "guest")
        BY <1>1, <1>4 DEF Entry
  <2> QED BY <1>0, <1>1, <1>2, <1>3, <1>6, <2>1 DEF ReadyInv, Twin
<1>14. ServiceInv'
  <2>1. \A room \in Room : \A p \in Party : commit'[room][p] \in {Unset, commit[room][p]}
    <3>1. commit \in [Room -> [Party -> Root \cup {Unset}]]
          BY Typed DEF ServiceTyped
    <3>2. \/ commit' = commit
          \/ commit' = [commit EXCEPT ![code["host"].room] = [s \in Party |-> Unset]]
          BY DEF CreateRoom
    <3> QED BY <3>1, <3>2
  <2> QED BY <1>0, <1>1, <1>2, <1>3, <1>6, <2>1, ServiceStays
<1> QED BY <1>9, <1>11, <1>12, <1>13, <1>14 DEF CoreInv

-----------------------------------------------------------------------------
(* The key exchange and the session.                                         *)

Kinds(s, k) == {Reply[s][k][i] : i \in DOMAIN Reply[s][k]}
Answers(s) == {Framed(x, Body(s, RootAfter(s, Received(s)))) : x \in Kinds(s, stage[s])}

LEMMA HostKinds ==
    /\ Kinds("host", "up") = {} /\ Kinds("host", "ke1") = {"ke2"} /\ Kinds("host", "ke3") = {}
    /\ Kinds("host", "guestMAC") = {"hostMAC", "hello"} /\ Kinds("host", "hello") = {"identity"}
    /\ Kinds("host", "identity") = {}
<1>1. /\ Reply["host"]["up"] = <<>> /\ Reply["host"]["ke1"] = <<"ke2">>
      /\ Reply["host"]["ke3"] = <<>> /\ Reply["host"]["guestMAC"] = <<"hostMAC", "hello">>
      /\ Reply["host"]["hello"] = <<"identity">> /\ Reply["host"]["identity"] = <<>>
      BY DEF Reply
<1> QED BY <1>1 DEF Kinds

LEMMA GuestKinds ==
    /\ Kinds("guest", "up") = {"ke1"} /\ Kinds("guest", "ke2") = {"ke3", "guestMAC"}
    /\ Kinds("guest", "hostMAC") = {"hello"} /\ Kinds("guest", "hello") = {"identity"}
    /\ Kinds("guest", "identity") = {}
<1>1. /\ Reply["guest"]["up"] = <<"ke1">> /\ Reply["guest"]["ke2"] = <<"ke3", "guestMAC">>
      /\ Reply["guest"]["hostMAC"] = <<"hello">> /\ Reply["guest"]["hello"] = <<"identity">>
      /\ Reply["guest"]["identity"] = <<>>
      BY DEF Reply
<1> QED BY <1>1 DEF Kinds

\* A frame is taken from a wire, and frames are sent on the other if the sides
\* are in touch.
LEMMA SentWires ==
    ASSUME PairInv, NEW s \in Party, HasFrame(s), NEW f \in Seq(RoomFrame), NEW F,
           \A j \in DOMAIN f : f[j] \in F,
           wire' = Sent(s, [wire EXCEPT ![s] = Tail(@)], f)
    PROVE  /\ wire'[s] = Tail(wire[s]) /\ Follows(s, 1, {})
           /\ wire'[Counterpart(s)] = IF InTouch(s) THEN wire[Counterpart(s)] \o f
                                                    ELSE wire[Counterpart(s)]
           /\ Follows(Counterpart(s), 0, F)
           /\ \A x \in On(Counterpart(s))' : x \in On(Counterpart(s)) \/ (x \in F /\ InTouch(s))
           /\ On(s)' \subseteq On(s)
<1> DEFINE o == Counterpart(s)
           w == [wire EXCEPT ![s] = Tail(@)]
<1>1. o \in Party /\ o # s
      BY Others
<1>2. w \in [Party -> Seq(RoomFrame)] /\ w[s] = Tail(wire[s]) /\ w[o] = wire[o]
      BY <1>1, ReadTyped, Typed
<1>3. wire' = IF InTouch(s) THEN [w EXCEPT ![o] = @ \o f] ELSE w
      BY DEF Sent
<1>4. wire'[s] = Tail(wire[s]) /\ wire'[o] = IF InTouch(s) THEN wire[o] \o f ELSE wire[o]
  <2> HIDE DEF o, w
  <2> QED BY <1>1, <1>2, <1>3
<1> HIDE DEF o, w
<1>5. Follows(s, 1, {})
      BY <1>4, Shifts DEF HasFrame
<1>6. Follows(o, 0, F)
      BY <1>1, <1>4, Extends, Stays
<1>7. \A x \in On(o)' : x \in On(o) \/ (x \in F /\ InTouch(s))
  <2>1. CASE InTouch(s)
        BY <1>1, <1>6, <2>1, OnFollows
  <2>2. CASE ~InTouch(s)
        BY <1>4, <2>2 DEF On
  <2> QED BY <2>1, <2>2
<1>8. On(s)' \subseteq On(s)
      BY <1>5, OnFollows
<1> QED BY <1>4, <1>5, <1>6, <1>7, <1>8 DEF o

LEMMA ExchangeDoes ==
    ASSUME PairInv, SlotInv, NEW s \in Party, Exchange(s)
    PROVE  /\ stage[s] \in DOMAIN After[s] /\ Received(s).kind = stage[s]
           /\ Genuine(s, Received(s)) /\ Received(s) \in On(s) /\ Received(s) \in RoomFrame
           /\ stage'[s] = After[s][stage[s]] /\ stage'[Counterpart(s)] = stage[Counterpart(s)]
           /\ root'[s] = RootAfter(s, Received(s)) /\ root'[Counterpart(s)] = root[Counterpart(s)]
           /\ stage[s] \in {"ke1", "ke2"} => root'[s] \in Root
           /\ stage[s] \notin {"ke1", "ke2"} => root'[s] = root[s]
           /\ Follows(s, 1, {}) /\ Follows(Counterpart(s), 0, Answers(s))
           /\ On(s)' \subseteq On(s)
           /\ \A x \in On(Counterpart(s))' :
                 x \in On(Counterpart(s)) \/ (x \in Answers(s) /\ InTouch(s))
           /\ SlotInv'
           /\ UNCHANGED <<calls, code, network, offer, ready, slot, commit, pairs>>
<1> DEFINE m == Received(s)
           k == stage[s]
           o == Counterpart(s)
<1>1. /\ Waiting(s) /\ HasFrame(s) /\ m.kind = k /\ Genuine(s, m)
      /\ root' = [root EXCEPT ![s] = RootAfter(s, m)] /\ stage' = [stage EXCEPT ![s] = After[s][k]]
      /\ wire' = Sent(s, [wire EXCEPT ![s] = Tail(@)], Answer(s))
      /\ UNCHANGED <<calls, code, network, offer, ready, slot, commit, pairs>>
      BY DEF Exchange, Expected, Heard, Answer
<1>2. /\ Tabled(s, k) /\ Answer(s) \in Seq(RoomFrame)
      /\ RootAfter(s, m) \in Root \cup {Unset}
      /\ k \in {"ke1", "ke2"} => RootAfter(s, m) \in Root
      /\ k \notin {"ke1", "ke2"} => RootAfter(s, m) = root[s]
      BY <1>1, AnswerTyped
<1>3. m \in On(s) /\ m \in RoomFrame
      BY <1>1, HeadOn, ReadTyped
<1>4. o \in Party /\ o # s /\ \A p \in Party : p = s \/ p = o
      BY DEF Party, Counterpart
<1>5. stage'[s] = After[s][k] /\ stage'[o] = stage[o]
      BY <1>1, <1>2, <1>4, Staged DEF Tabled
<1>6. root'[s] = RootAfter(s, m) /\ root'[o] = root[o]
      BY <1>1, <1>4, Typed
<1>7. \A j \in DOMAIN Answer(s) : Answer(s)[j] \in Answers(s)
      BY <1>1 DEF Answer, Answers, Kinds
<1>8. /\ wire'[o] = IF InTouch(s) THEN wire[o] \o Answer(s) ELSE wire[o]
      /\ Follows(s, 1, {}) /\ Follows(o, 0, Answers(s)) /\ On(s)' \subseteq On(s)
      /\ \A x \in On(o)' : x \in On(o) \/ (x \in Answers(s) /\ InTouch(s))
      BY <1>1, <1>2, <1>7, SentWires
<1>9. After[s][k] \in Inside(s) /\ k \in Inside(s)
  <2>1. CASE s = "host"
    <3>1. k \in {"up", "ke1", "ke3", "guestMAC", "hello", "identity"}
          BY <1>1, <2>1, Stages DEF Waiting
    <3>2. /\ After["host"]["up"] = "ke1" /\ After["host"]["ke1"] = "ke3"
          /\ After["host"]["ke3"] = "guestMAC" /\ After["host"]["guestMAC"] = "hello"
          /\ After["host"]["hello"] = "identity" /\ After["host"]["identity"] = "offering"
          BY DEF After
    <3> QED BY <2>1, <3>1, <3>2, Insides
  <2>2. CASE s = "guest"
    <3>1. k \in {"up", "ke2", "hostMAC", "hello", "identity"}
          BY <1>1, <2>2, Stages DEF Waiting
    <3>2. /\ After["guest"]["up"] = "ke2" /\ After["guest"]["ke2"] = "hostMAC"
          /\ After["guest"]["hostMAC"] = "hello" /\ After["guest"]["hello"] = "identity"
          /\ After["guest"]["identity"] = "listening"
          BY DEF After
    <3> QED BY <2>2, <3>1, <3>2, Insides
  <2> QED BY <2>1, <2>2 DEF Party
<1>10. SlotInv'
  <2>1. \A p \in Party : Inside(p)' = Inside(p)
        BY DEF Inside
  <2>2. wire'[o] # <<>> => stage'[o] \in Inside(o)
    <3>1. CASE InTouch(s)
          BY <1>4, <1>5, <3>1, TouchMeets
    <3>2. CASE ~InTouch(s)
          BY <1>4, <1>5, <1>8, <3>2 DEF SlotInv
    <3> QED BY <3>1, <3>2
  <2>3. ASSUME NEW p \in Party, NEW room \in Room, p \in slot[room]
        PROVE  stage'[p] \in Inside(p) /\ code[p].room = room
        BY <1>4, <1>5, <1>9, <2>3 DEF SlotInv
  <2> HIDE DEF k, o
  <2> QED BY <1>1, <1>4, <1>5, <1>9, <2>1, <2>2, <2>3 DEF SlotInv
<1> QED BY <1>1, <1>2, <1>3, <1>5, <1>6, <1>8, <1>10 DEF Waiting

\* Steps that say nothing of addresses within the secret of the host.
LEMMA TurnShifts ==
    ASSUME PairInv, TurnInv, NEW n \in {0, 1}, NEW l \in {0, 1}, NEW F,
           \A x \in F : x.kind \notin {"proposal", "reply"} \/ x.body.root # root["host"],
           Follows("host", n, F), Follows("guest", l, F),
           root'["host"] = root["host"], offer'["host"] = offer["host"],
           code' = code, ready \subseteq ready',
           \/ stage'["host"] = stage["host"]
           \/ stage'["host"] \notin Rooted("host")
           \/ {stage["host"], stage'["host"]} \subseteq
                 Rooted("host") \ {"proposed", "committing", "done"}
    PROVE  TurnInv'
<1>1. "host" \in Party /\ "guest" \in Party
      BY DEF Party
<1>2. ASSUME NEW i \in DOMAIN wire'["guest"], Says("guest", "proposal", i)'
      PROVE  /\ i \in Nat /\ i + l \in DOMAIN wire["guest"] /\ Says("guest", "proposal", i + l)
             /\ wire'["guest"][i] = wire["guest"][i + l]
  <2>1. wire'["guest"][i].kind = "proposal" /\ wire'["guest"][i].body.root = root["host"]
        BY <1>2 DEF Says
  <2> QED BY <2>1 DEF Follows, Says
<1>3. ASSUME NEW i \in DOMAIN wire'["host"], Says("host", "reply", i)'
      PROVE  /\ i \in Nat /\ i + n \in DOMAIN wire["host"] /\ Says("host", "reply", i + n)
             /\ wire'["host"][i] = wire["host"][i + n]
  <2>1. wire'["host"][i].kind = "reply" /\ wire'["host"][i].body.root = root["host"]
        BY <1>3 DEF Says
  <2> QED BY <2>1 DEF Follows, Says
<1>4. \A i, j \in Nat : (i + l = j + l => i = j) /\ (i + n = j + n => i = j)
      OBVIOUS
<1>5. Entry("guest", "host")' = Entry("guest", "host")
      BY DEF Entry
<1>6. stage'["host"] = "proposed" => stage["host"] = "proposed"
      BY Roots
<1>7. stage'["host"] \in Rooted("host") \ {"proposed", "committing", "done"} =>
          stage["host"] \in Rooted("host") \ {"proposed", "committing", "done"}
      OBVIOUS
<1>8. stage'["host"] \in Rooted("host") \ {"proposed", "committing", "done"} =>
          /\ \A i \in DOMAIN wire'["guest"] : ~Says("guest", "proposal", i)'
          /\ \A i \in DOMAIN wire'["host"] : ~Says("host", "reply", i)'
      BY <1>2, <1>3, <1>7 DEF TurnInv
<1>9. stage'["host"] = "proposed" =>
          /\ \A i, j \in DOMAIN wire'["guest"] :
                Says("guest", "proposal", i)' /\ Says("guest", "proposal", j)' => i = j
          /\ \A i, j \in DOMAIN wire'["host"] :
                Says("host", "reply", i)' /\ Says("host", "reply", j)' => i = j
          /\ \A i \in DOMAIN wire'["guest"], j \in DOMAIN wire'["host"] :
                ~(Says("guest", "proposal", i)' /\ Says("host", "reply", j)')
          /\ \A i \in DOMAIN wire'["guest"] :
                Says("guest", "proposal", i)' => wire'["guest"][i].says = offer["host"]
          /\ \A i \in DOMAIN wire'["host"] :
                Says("host", "reply", i)' /\ wire'["host"][i].says =>
                    Entry("guest", "host") \in ready'
      BY <1>2, <1>3, <1>4, <1>6 DEF TurnInv
<1> QED BY <1>5, <1>8, <1>9 DEF TurnInv

LEMMA HostExchangeCore ==
    ASSUME PairInv, CoreInv, Exchange("host")
    PROVE  CoreInv'
<1> DEFINE m == Received("host")
           k == stage["host"]
           r == RootAfter("host", m)
<1>0. SlotInv /\ RootInv /\ TurnInv /\ ReadyInv /\ ServiceInv /\ ProposalInv /\ MetInv
      BY DEF CoreInv
<1>1. "host" \in Party /\ "guest" \in Party /\ Counterpart("host") = "guest"
      BY DEF Party, Counterpart
<1>2. \A s \in Party : s = "host" \/ s = "guest"
      BY DEF Party
<1>3. /\ k \in {"up", "ke1", "ke3", "guestMAC", "hello", "identity"} /\ m.kind = k
      /\ Genuine("host", m) /\ m \in On("host") /\ m \in RoomFrame
      /\ stage'["host"] = After["host"][k] /\ stage'["guest"] = stage["guest"]
      /\ root'["host"] = r /\ root'["guest"] = root["guest"]
      /\ k = "ke1" => r \in Root
      /\ k # "ke1" => r = root["host"]
      /\ Follows("host", 1, {}) /\ Follows("guest", 0, Answers("host"))
      /\ On("host")' \subseteq On("host")
      /\ \A x \in On("guest")' : x \in On("guest") \/ (x \in Answers("host") /\ InTouch("host"))
      /\ SlotInv'
      /\ UNCHANGED <<calls, code, network, offer, ready, slot, commit, pairs>>
      BY <1>0, <1>1, ExchangeDoes, Stages
<1>4. /\ k = "up" => stage'["host"] = "ke1"
      /\ k = "ke1" => stage'["host"] = "ke3"
      /\ k = "ke3" => stage'["host"] = "guestMAC"
      /\ k = "guestMAC" => stage'["host"] = "hello"
      /\ k = "hello" => stage'["host"] = "identity"
      /\ k = "identity" => stage'["host"] = "offering"
      BY <1>3 DEF After
<1>5. \A x \in Answers("host") :
        /\ x.kind \in {"ke2", "hostMAC", "hello", "identity"} /\ x.body = Body("host", r)
        /\ k \in {"ke1", "guestMAC", "hello"}
  <2>1. Kinds("host", k) \subseteq {"ke2", "hostMAC", "hello", "identity"}
        BY <1>3, HostKinds
  <2>2. Kinds("host", k) # {} => k \in {"ke1", "guestMAC", "hello"}
        BY <1>3, HostKinds
  <2> HIDE DEF k, r
  <2> QED BY <2>1, <2>2 DEF Answers, Framed, r, m, k
<1>6. \A x \in Answers("host") : x.body.root = r /\ x.body.secret = code["host"].secret
      BY <1>5 DEF Body
<1> HIDE DEF r, m
<1>7. k \in {"ke1", "guestMAC", "hello"} => r \in Root /\ r["host"] = calls["host"]
  <2>1. CASE k = "ke1"
        BY <1>3, <2>1 DEF r, m, RootAfter
  <2>2. CASE k \in {"guestMAC", "hello"}
    <3>1. k \in Rooted("host")
          BY <2>2, Roots
    <3> QED BY <1>0, <1>1, <1>3, <2>2, <3>1, Typed, PairingAssumption DEF RootInv
  <2> QED BY <2>1, <2>2
<1>8. InTouch("host") => code["host"].room = code["guest"].room
      BY <1>0, <1>1, TouchMeets
<1>9. calls["host"] \in Nat
      BY Counts
<1>10. k = "ke1" => root["host"] = Unset
      BY <1>0, <1>1, Roots DEF RootInv
\* Nothing that is under way names this call of the host before it has answered.
<1>11. ASSUME k = "ke1"
       PROVE  RootInv' /\ TurnInv' /\ MetInv'
  <2>1. root["guest"] # Unset => root["guest"]["host"] # calls["host"]
        BY <1>0, <1>10, <1>11 DEF RootInv
  <2>2. \A x \in On("guest") \cup On("host") : Names(x) => x.body.root["host"] # calls["host"]
        BY <1>0, <1>10, <1>11, PairingAssumption DEF RootInv
  <2>3. r = [host |-> calls["host"], guest |-> m.body.call] /\ m.body.call <= calls["guest"]
        BY <1>0, <1>3, <1>11 DEF r, RootAfter, RootInv
  <2>4. stage'["host"] = "ke3" /\ "ke3" \in Rooted("host") /\ r # Unset
        BY <1>4, <1>7, <1>11, Roots, PairingAssumption
  <2>5. \A x \in On("guest")' : Names(x) =>
          /\ x.body.root \in Root
          /\ x.body.root["host"] <= calls["host"]
          /\ x.body.root["host"] = calls["host"] =>
                /\ r = x.body.root
                /\ x.body.secret = code["host"].secret
                /\ code["host"].room = code["guest"].room
        BY <1>0, <1>3, <1>6, <1>7, <1>8, <1>9, <1>11, <2>2 DEF RootInv
  <2>6. \A x \in On("host")' : Names(x) =>
          /\ x.body.root \in Root
          /\ x.body.root["guest"] <= calls["guest"]
          /\ x.body.root["guest"] = calls["guest"] => root["guest"] = x.body.root
          /\ x.body.root["host"] <= calls["host"]
          /\ x.body.root["host"] # calls["host"]
        BY <1>0, <1>3, <2>2 DEF RootInv
  <2>7. \A s \in Party :
          /\ stage'[s] \notin Rooted(s) \cup {"failed"} => root'[s] = Unset
          /\ root'[s] # Unset => root'[s][s] = calls[s]
        BY <1>0, <1>2, <1>3, <1>7, <1>11, <2>4 DEF RootInv
  <2>8. RootInv'
        BY <1>0, <1>3, <2>1, <2>3, <2>5, <2>6, <2>7 DEF RootInv
  <2>9. TurnInv'
    <3>1. \A i \in DOMAIN wire'["guest"] : ~Says("guest", "proposal", i)'
      <4>1. SUFFICES ASSUME NEW i \in DOMAIN wire'["guest"], wire'["guest"][i].kind = "proposal",
                            wire'["guest"][i].body.root = r
                     PROVE  FALSE
            BY <1>3 DEF Says
      <4>2. wire'["guest"][i] \in On("guest")'
            BY DEF On
      <4> QED BY <1>3, <1>5, <1>7, <1>11, <2>2, <4>1, <4>2 DEF Names
    <3>2. \A i \in DOMAIN wire'["host"] : ~Says("host", "reply", i)'
      <4>1. SUFFICES ASSUME NEW i \in DOMAIN wire'["host"], wire'["host"][i].kind = "reply",
                            wire'["host"][i].body.root = r
                     PROVE  FALSE
            BY <1>3 DEF Says
      <4>2. wire'["host"][i] \in On("host")'
            BY DEF On
      <4> QED BY <1>3, <1>7, <1>11, <2>2, <4>1, <4>2 DEF Names
    <3> QED BY <2>4, <3>1, <3>2 DEF TurnInv
  <2>10. MetInv'
        BY <1>0, <1>3, <2>4 DEF MetInv, Speaks
  <2> QED BY <1>3, <2>4, <2>8, <2>9, <2>10
<1>12. ASSUME k # "ke1"
       PROVE  RootInv' /\ TurnInv' /\ MetInv'
  <2>1. r = root["host"]
        BY <1>3, <1>12
  <2>2. \A x \in On("guest")' : Names(x) =>
          /\ x.body.root \in Root
          /\ x.body.root["host"] <= calls["host"]
          /\ x.body.root["host"] = calls["host"] =>
                /\ r = x.body.root
                /\ x.body.secret = code["host"].secret
                /\ code["host"].room = code["guest"].room
        BY <1>0, <1>3, <1>5, <1>6, <1>7, <1>8, <1>9, <2>1 DEF RootInv
  <2>3. \A s \in Party :
          /\ stage'[s] \notin Rooted(s) \cup {"failed"} => root'[s] = Unset
          /\ root'[s] # Unset => root'[s][s] = calls[s]
    <3>1. k \in Rooted("host") \/ stage'["host"] = "ke1"
          BY <1>3, <1>4, <1>12, Roots
    <3>2. k \in Rooted("host") => stage'["host"] \in Rooted("host")
          BY <1>3, <1>4, <1>12, Roots
    <3>3. k \notin Rooted("host") => k \notin Rooted("host") \cup {"failed"}
          BY <1>3
    <3> QED BY <1>0, <1>2, <1>3, <2>1, <3>1, <3>2, <3>3 DEF RootInv
  <2>4. RootInv'
        BY <1>0, <1>3, <2>1, <2>2, <2>3 DEF RootInv
  <2>5. TurnInv'
    <3>1. \/ stage'["host"] \notin Rooted("host")
          \/ {k, stage'["host"]} \subseteq Rooted("host") \ {"proposed", "committing", "done"}
          BY <1>3, <1>4, <1>12, Roots
    <3>2. \A x \in Answers("host") : x.kind \notin {"proposal", "reply"}
          BY <1>5
    <3>3. Follows("host", 1, Answers("host"))
          BY <1>3 DEF Follows
    <3> QED BY <1>0, <1>3, <2>1, <3>1, <3>2, <3>3, TurnShifts
  <2>6. MetInv'
    <3>1. stage'["host"] \in Rooted("host") \ {"ke3"} => k \in Rooted("host")
          BY <1>3, <1>4, <1>12, Roots
    <3>2. k = "ke3" /\ root["host"]["guest"] = calls["guest"] => root["guest"] = root["host"]
      <4>1. k = "ke3" => m.body.root = root["host"] /\ Names(m)
            BY <1>3 DEF Genuine, Names, Sealed
      <4> QED BY <1>0, <1>3, <4>1 DEF RootInv
    <3>3. k = "identity" /\ root["host"]["guest"] = calls["guest"] =>
              stage["guest"] \in {"identity", "listening", "committing", "done", "failed"}
      <4>1. k = "identity" => m.body.root = root["host"]
            BY <1>3 DEF Genuine
      <4> QED BY <1>0, <1>3, <4>1 DEF MetInv
    <3>4. Speaks' => k = "identity"
          BY <1>3, <1>4 DEF Speaks
    <3> QED BY <1>0, <1>3, <2>1, <3>1, <3>2, <3>3, <3>4 DEF MetInv
  <2> QED BY <1>3, <2>4, <2>5, <2>6
<1>13. stage'["host"] \notin {"proposed", "committing", "done"}
      BY <1>3, <1>4
<1>14. ProposalInv'
      BY <1>0, <1>3, <1>13 DEF ProposalInv
<1>15. ReadyInv'
  <2>1. Entry("guest", "guest")' = Entry("guest", "guest")
        BY <1>3 DEF Entry
  <2> QED BY <1>0, <1>2, <1>3, <1>13, <2>1 DEF ReadyInv, Twin
<1>16. ServiceInv'
      BY <1>0, <1>2, <1>3, <1>13, ServiceStays
<1>17. RootInv' /\ TurnInv' /\ MetInv'
      BY <1>11, <1>12
<1> QED BY <1>3, <1>14, <1>15, <1>16, <1>17 DEF CoreInv

LEMMA GuestExchangeCore ==
    ASSUME PairInv, CoreInv, Exchange("guest")
    PROVE  CoreInv'
<1> DEFINE m == Received("guest")
           k == stage["guest"]
           r == RootAfter("guest", m)
<1>0. SlotInv /\ RootInv /\ TurnInv /\ ReadyInv /\ ServiceInv /\ ProposalInv /\ MetInv
      BY DEF CoreInv
<1>1. "host" \in Party /\ "guest" \in Party /\ Counterpart("guest") = "host"
      BY DEF Party, Counterpart
<1>2. \A s \in Party : s = "host" \/ s = "guest"
      BY DEF Party
<1>3. /\ k \in {"up", "ke2", "hostMAC", "hello", "identity"} /\ m.kind = k
      /\ Genuine("guest", m) /\ m \in On("guest") /\ m \in RoomFrame
      /\ stage'["guest"] = After["guest"][k] /\ stage'["host"] = stage["host"]
      /\ root'["guest"] = r /\ root'["host"] = root["host"]
      /\ k = "ke2" => r \in Root
      /\ k # "ke2" => r = root["guest"]
      /\ Follows("guest", 1, {}) /\ Follows("host", 0, Answers("guest"))
      /\ On("guest")' \subseteq On("guest")
      /\ \A x \in On("host")' : x \in On("host") \/ (x \in Answers("guest") /\ InTouch("guest"))
      /\ SlotInv'
      /\ UNCHANGED <<calls, code, network, offer, ready, slot, commit, pairs>>
      BY <1>0, <1>1, ExchangeDoes, Stages
<1>4. /\ k = "up" => stage'["guest"] = "ke2"
      /\ k = "ke2" => stage'["guest"] = "hostMAC"
      /\ k = "hostMAC" => stage'["guest"] = "hello"
      /\ k = "hello" => stage'["guest"] = "identity"
      /\ k = "identity" => stage'["guest"] = "listening"
      BY <1>3 DEF After
<1>5. \A x \in Answers("guest") :
        /\ x.kind \in {"ke1", "ke3", "guestMAC", "hello", "identity"}
        /\ x.body = Body("guest", r)
        /\ x.kind = "ke1" <=> k = "up"
        /\ x.kind = "identity" => k = "hello"
  <2>1. /\ Kinds("guest", k) \subseteq {"ke1", "ke3", "guestMAC", "hello", "identity"}
        /\ "identity" \in Kinds("guest", k) => k = "hello"
        /\ "ke1" \in Kinds("guest", k) => k = "up"
        /\ k = "up" => Kinds("guest", k) = {"ke1"}
        BY <1>3, GuestKinds
  <2> HIDE DEF k, r
  <2> QED BY <2>1 DEF Answers, Framed, r, m, k
<1>6. \A x \in Answers("guest") : x.body.root = r /\ x.body.call = calls["guest"]
      BY <1>5 DEF Body
<1> HIDE DEF r, m
<1>7. /\ k = "ke2" => /\ root["guest"] = Unset /\ r = m.body.root
                      /\ m.body.secret = code["guest"].secret /\ r["guest"] = calls["guest"]
                      /\ Names(m)
      /\ k \in {"hostMAC", "hello", "identity"} =>
             r \in Root /\ r["guest"] = calls["guest"] /\ root["guest"] # Unset
  <2>1. CASE k = "ke2"
    <3>1. root["guest"] = Unset
          BY <1>0, <1>1, <2>1, Roots DEF RootInv
    <3> QED BY <1>3, <2>1, <3>1 DEF r, RootAfter, Genuine, Names
  <2>2. CASE k \in {"hostMAC", "hello", "identity"}
    <3>1. k \in Rooted("guest")
          BY <2>2, Roots
    <3> QED BY <1>0, <1>1, <1>3, <2>2, <3>1, Typed, PairingAssumption DEF RootInv
  <2> QED BY <2>1, <2>2
<1>8. calls["guest"] \in Nat
      BY Counts
<1>9. \A x \in Answers("guest") : Names(x) => k \in {"ke2", "hostMAC", "hello"}
      BY <1>3, <1>4, <1>5, GuestKinds DEF Names, Sealed, Answers
\* The secret of the guest is the host's if it was made in its present call.
<1>10. k \in {"ke2", "hostMAC", "hello", "identity"} =>
          /\ r \in Root /\ r["guest"] = calls["guest"] /\ r["host"] <= calls["host"]
          /\ r["host"] = calls["host"] => root["host"] = r /\ code["host"] = code["guest"]
  <2>1. CASE k = "ke2"
    <3>1. /\ r["host"] <= calls["host"]
          /\ r["host"] = calls["host"] =>
                /\ root["host"] = r
                /\ code["host"].secret = code["guest"].secret
                /\ code["host"].room = code["guest"].room
          BY <1>0, <1>3, <1>7, <2>1 DEF RootInv
    <3>2. ASSUME r["host"] = calls["host"]
          PROVE  code["host"] = code["guest"]
      <4>1. root["host"] # Unset
            BY <1>3, <2>1, <3>1, <3>2, PairingAssumption
      <4>2. stage["host"] # "idle"
            BY <1>0, <1>1, <4>1, Roots DEF RootInv
      <4>3. code["host"] \in Code /\ code["guest"] \in Code
            BY <1>1, <2>1, <4>2, Typed
      <4> QED BY <3>1, <3>2, <4>3 DEF Code
    <3> QED BY <1>3, <1>7, <2>1, <3>1, <3>2
  <2>2. CASE k \in {"hostMAC", "hello", "identity"}
        BY <1>0, <1>3, <1>7, <2>2 DEF RootInv
  <2> QED BY <2>1, <2>2
\* Nothing under way to the host names this call before the guest has its secret.
<1>11. \A x \in On("host") :
          k \in {"up", "ke2"} /\ Names(x) => x.body.root["guest"] # calls["guest"]
  <2>1. k \in {"up", "ke2"} => root["guest"] = Unset
        BY <1>0, <1>1, Roots DEF RootInv
  <2> QED BY <1>0, <2>1, PairingAssumption DEF RootInv
<1>12. RootInv'
  <2>1. \A s \in Party :
          /\ stage'[s] \notin Rooted(s) \cup {"failed"} => root'[s] = Unset
          /\ root'[s] # Unset => root'[s][s] = calls[s]
    <3>1. k # "up" => stage'["guest"] \in Rooted("guest")
          BY <1>3, <1>4, Roots
    <3>2. k = "up" => root["guest"] = Unset
          BY <1>0, <1>1, Roots DEF RootInv
    <3> QED BY <1>0, <1>2, <1>3, <1>10, <3>1, <3>2 DEF RootInv
  <2>2. r # Unset => /\ r["host"] <= calls["host"]
                     /\ r["host"] = calls["host"] =>
                           root["host"] = r /\ code["host"] = code["guest"]
        BY <1>0, <1>3, <1>10 DEF RootInv
  <2>3. \A x \in On("host")' : Names(x) =>
          /\ x.body.root \in Root
          /\ x.body.root["guest"] <= calls["guest"]
          /\ x.body.root["guest"] = calls["guest"] => r = x.body.root
          /\ x.body.root["host"] <= calls["host"]
          /\ x.body.root["host"] = calls["host"] => root["host"] = x.body.root
    <3> TAKE x \in On("host")'
    <3> HAVE Names(x)
    <3>1. CASE x \in On("host")
      <4>1. x.body.root["guest"] = calls["guest"] => r = x.body.root
            BY <1>0, <1>3, <1>11, <3>1 DEF RootInv
      <4> QED BY <1>0, <3>1, <4>1 DEF RootInv
    <3>2. CASE x \in Answers("guest")
          BY <1>6, <1>8, <1>9, <1>10, <3>2
    <3> QED BY <1>3, <3>1, <3>2
  <2>4. \A x \in On("host")' : x.kind = "ke1" => x.body.call <= calls["guest"]
        BY <1>0, <1>3, <1>6, <1>8 DEF RootInv
  <2> QED BY <1>0, <1>3, <2>1, <2>2, <2>3, <2>4 DEF RootInv
<1>13. TurnInv'
  <2>1. \A x \in Answers("guest") : x.kind \notin {"proposal", "reply"}
        BY <1>5
  <2>2. Follows("guest", 1, Answers("guest"))
        BY <1>3 DEF Follows
  <2> QED BY <1>0, <1>3, <2>1, <2>2, TurnShifts
<1>14. stage'["guest"] \notin {"committing", "done"}
       /\ k \notin {"committing", "done", "failed"}
      BY <1>3, <1>4
<1>15. ProposalInv'
  <2>1. RandomPairs(network)' = RandomPairs(network) /\ Admitted(network)' = Admitted(network)
        BY <1>3 DEF RandomPairs, Admitted, Masked, PrefixLast, Size
  <2> QED BY <1>0, <1>3, <2>1 DEF ProposalInv
<1>16. ReadyInv'
  <2>1. \A p \in Party : Entry(p, "host")' = Entry(p, "host")
        BY <1>3 DEF Entry
  <2>2. \A x \in ready : ~(x.party = "guest" /\ x.root["guest"] = calls["guest"])
        BY <1>0, <1>14 DEF ReadyInv
  <2> QED BY <1>0, <1>1, <1>2, <1>3, <1>14, <2>1, <2>2 DEF ReadyInv, Twin
<1>17. ServiceInv'
      BY <1>0, <1>2, <1>3, <1>14, ServiceStays
<1>18. MetInv'
  <2>1. stage["host"] \in Rooted("host") \ {"ke3"} /\ root["host"]["guest"] = calls["guest"] =>
            k \notin {"up", "ke2"}
    <3>1. stage["host"] \in Rooted("host") => root["host"] \in Root
          BY <1>1, Typed
    <3>2. k \in {"up", "ke2"} => root["guest"] = Unset
          BY <1>0, <1>1, Roots DEF RootInv
    <3> QED BY <1>0, <3>1, <3>2, PairingAssumption DEF MetInv, Speaks
  <2>2. k \notin {"up", "ke2"} => r = root["guest"]
        BY <1>3
  <2>3. ASSUME NEW x \in On("host")', x.kind = "identity", x.body.root["guest"] = calls["guest"]
        PROVE  stage'["guest"] \in {"identity", "listening", "committing", "done", "failed"}
    <3>1. CASE x \in On("host")
      <4>1. k \in {"identity", "listening", "committing", "done", "failed"}
            BY <1>0, <2>3, <3>1 DEF MetInv, Speaks
      <4> QED BY <1>3, <1>4, <4>1
    <3>2. CASE x \in Answers("guest")
          BY <1>4, <1>5, <2>3, <3>2
    <3> QED BY <1>3, <3>1, <3>2
  <2>4. Speaks' /\ root["host"]["guest"] = calls["guest"] =>
            stage'["guest"] \in {"identity", "listening", "committing", "done", "failed"}
    <3>1. Speaks' => Speaks
          BY <1>3 DEF Speaks
    <3> QED BY <1>0, <1>3, <1>4, <3>1 DEF MetInv
  <2> QED BY <1>0, <1>3, <2>1, <2>2, <2>3, <2>4 DEF MetInv
<1> QED BY <1>3, <1>12, <1>13, <1>15, <1>16, <1>17, <1>18 DEF CoreInv

-----------------------------------------------------------------------------
(* The negotiation of addresses.                                             *)

LEMMA SendWires ==
    ASSUME PairInv, NEW s \in Party, NEW m \in RoomFrame, wire' = Sent(s, wire, <<m>>)
    PROVE  /\ wire'[s] = wire[s]
           /\ wire'[Counterpart(s)] = IF InTouch(s) THEN wire[Counterpart(s)] \o <<m>>
                                                    ELSE wire[Counterpart(s)]
           /\ \A x \in On(Counterpart(s))' : x \in On(Counterpart(s)) \/ (x = m /\ InTouch(s))
           /\ On(s)' = On(s)
<1> DEFINE o == Counterpart(s)
<1>1. o \in Party /\ o # s /\ wire \in [Party -> Seq(RoomFrame)]
      BY Others, Typed
<1>2. wire' = IF InTouch(s) THEN [wire EXCEPT ![o] = @ \o <<m>>] ELSE wire
      BY DEF Sent
<1>3. wire'[s] = wire[s] /\ wire'[o] = IF InTouch(s) THEN wire[o] \o <<m>> ELSE wire[o]
  <2> HIDE DEF o
  <2> QED BY <1>1, <1>2
<1> HIDE DEF o
<1>4. \A x \in On(o)' : x \in On(o) \/ (x = m /\ InTouch(s))
  <2>1. CASE InTouch(s)
    <3>1. Follows(o, 0, {m})
          BY <1>1, <1>3, <2>1, Last
    <3> QED BY <2>1, <3>1, OnFollows, <1>1
  <2>2. CASE ~InTouch(s)
        BY <1>3, <2>2 DEF On
  <2> QED BY <2>1, <2>2
<1>5. On(s)' = On(s)
      BY <1>3 DEF On
<1> QED BY <1>3, <1>4, <1>5 DEF o

\* Nobody's wire is filled but that of a side in touch, which stays where it is.
LEMMA TurnSlot ==
    ASSUME PairInv, SlotInv, NEW s \in Party, stage[s] \in Inside(s), stage'[s] \in Inside(s),
           \A p \in Party \ {s} : stage'[p] = stage[p], UNCHANGED <<code, slot>>,
           wire'[Counterpart(s)] = wire[Counterpart(s)] \/ InTouch(s)
    PROVE  SlotInv'
<1> DEFINE o == Counterpart(s)
<1>1. o \in Party /\ o # s /\ \A p \in Party : p = s \/ p = o
      BY DEF Party, Counterpart
<1>2. \A p \in Party : Inside(p)' = Inside(p)
      BY DEF Inside
<1>3. wire'[o] # <<>> => stage[o] \in Inside(o)
  <2>1. CASE InTouch(s)
        BY <1>1, <2>1, TouchMeets
  <2>2. CASE wire'[o] = wire[o]
        BY <1>1, <2>2 DEF SlotInv
  <2> QED BY <2>1, <2>2
<1>4. ASSUME NEW p \in Party, NEW room \in Room, p \in slot[room]
      PROVE  stage'[p] \in Inside(p) /\ code[p].room = room
      BY <1>1, <1>4 DEF SlotInv
<1> HIDE DEF o
<1> QED BY <1>1, <1>2, <1>3, <1>4 DEF SlotInv

\* What a side that speaks of addresses puts on the wire.
LEMMA SpokenRoots ==
    ASSUME PairInv, CoreInv, NEW s \in Party, stage[s] \in Addressing
    PROVE  /\ root[s] \in Root /\ root[s][s] = calls[s]
           /\ \A k, v : /\ Spoken(s, k, v).kind = k /\ Spoken(s, k, v).says = v
                        /\ Spoken(s, k, v).body = Body(s, root[s])
                        /\ Spoken(s, k, v).body.root = root[s]
                        /\ Spoken(s, k, v).body.secret = code[s].secret
           /\ stage[s] \in Inside(s) /\ code[s] \in Code
<1>1. stage[s] \in Rooted(s) /\ stage[s] \in Inside(s) /\ stage[s] # "idle"
      BY DEF Rooted, Inside, Addressing
<1>2. root[s] \in Root /\ code[s] \in Code
      BY <1>1, Typed
<1>3. root[s][s] = calls[s]
      BY <1>2, PairingAssumption DEF CoreInv, RootInv
<1> QED BY <1>1, <1>2, <1>3 DEF Spoken, Body

LEMMA StillCore ==
    ASSUME PairInv, CoreInv, Still, SlotInv', ServiceInv'
    PROVE  CoreInv'
BY RootStill, TurnStill, ReadyStill, OfferStill, MetStill DEF CoreInv

LEMMA ProposeCore ==
    ASSUME PairInv, CoreInv, NEW a \in RandomPairs(network), NEW free \in BOOLEAN,
           Propose(a, free)
    PROVE  CoreInv'
<1> DEFINE m == Spoken("host", "proposal", a)
<1>0. SlotInv /\ RootInv /\ TurnInv /\ ReadyInv /\ ServiceInv /\ ProposalInv /\ MetInv
      BY DEF CoreInv
<1>1. /\ "host" \in Party /\ "guest" \in Party /\ Counterpart("host") = "guest"
      /\ \A s \in Party : s = "host" \/ s = "guest"
      BY DEF Party, Counterpart
<1>2. /\ stage["host"] = "offering" /\ Admitted(network)
      /\ UNCHANGED <<calls, code, shown, root, network, ready, open, slot, commit, pairs, mishaps>>
      BY DEF Propose
<1>3. CASE ~free
  <2>1. UNCHANGED <<stage, wire, offer>>
        BY <1>3 DEF Propose
  <2>2. Still
        BY <1>2, <2>1, Stays DEF Still, StageStill
  <2>3. SlotInv'
        BY <1>0, <1>2, <2>1 DEF SlotInv, Inside
  <2>4. ServiceInv'
        BY <1>0, <1>2, <2>1, ServiceStays
  <2> QED BY <2>2, <2>3, <2>4, StillCore
<1>4. CASE free
  <2>1. /\ stage' = [stage EXCEPT !["host"] = "proposed"] /\ offer' = [offer EXCEPT !["host"] = a]
        /\ wire' = Sent("host", wire, <<m>>)
        BY <1>4 DEF Propose
  <2>2. stage'["host"] = "proposed" /\ stage'["guest"] = stage["guest"]
        BY <1>1, <2>1, Named, Staged
  <2>3. network \in Networks /\ a \in Proposals
        BY Typed DEF ServiceTyped, Proposals
  <2>4. m \in RoomFrame
        BY <1>1, <1>2, <2>3, SpokenTyped DEF Addressing
  <2>5. /\ root["host"] \in Root /\ root["host"]["host"] = calls["host"]
        /\ m.kind = "proposal" /\ m.says = a /\ m.body.root = root["host"]
        /\ m.body.secret = code["host"].secret /\ stage["host"] \in Inside("host")
        BY <1>1, <1>2, SpokenRoots DEF Addressing
  <2>6. /\ wire'["host"] = wire["host"]
        /\ wire'["guest"] = IF InTouch("host") THEN wire["guest"] \o <<m>> ELSE wire["guest"]
        /\ \A x \in On("guest")' : x \in On("guest") \/ (x = m /\ InTouch("host"))
        /\ On("host")' = On("host")
        BY <1>1, <2>1, <2>4, SendWires
  <2>7. SlotInv'
        BY <1>0, <1>1, <1>2, <2>2, <2>5, <2>6, Insides, TurnSlot
  <2>8. InTouch("host") => code["host"].room = code["guest"].room
        BY <1>0, <1>1, TouchMeets
  <2>9. RootInv'
    <3>1. \A x \in On("guest")' : Names(x) =>
            /\ x.body.root \in Root
            /\ x.body.root["host"] <= calls["host"]
            /\ x.body.root["host"] = calls["host"] =>
                  /\ root["host"] = x.body.root
                  /\ x.body.secret = code["host"].secret
                  /\ code["host"].room = code["guest"].room
          BY <1>0, <2>5, <2>6, <2>8, Counts DEF RootInv
    <3>2. stage'["host"] \in Rooted("host") /\ stage["host"] \in Rooted("host")
          BY <1>2, <2>2, Roots
    <3> HIDE DEF m
    <3> QED BY <1>0, <1>1, <1>2, <2>2, <2>6, <3>1, <3>2 DEF RootInv
  <2>10. offer'["host"] = a
        BY <1>0, <1>1, <2>1 DEF ProposalInv
  <2>11. TurnInv'
    <3>1. /\ \A i \in DOMAIN wire["guest"] : ~Says("guest", "proposal", i)
          /\ \A i \in DOMAIN wire["host"] : ~Says("host", "reply", i)
          BY <1>0, <1>2, Roots DEF TurnInv
    <3>2. \A i \in DOMAIN wire'["host"] : ~Says("host", "reply", i)'
          BY <1>2, <2>6, <3>1 DEF Says
    <3>3. \A i \in DOMAIN wire'["guest"] : Says("guest", "proposal", i)' =>
              i = Len(wire["guest"]) + 1 /\ wire'["guest"][i] = m
      <4>1. CASE InTouch("host")
        <5>1. /\ DOMAIN wire'["guest"] = 1..(Len(wire["guest"]) + 1)
              /\ DOMAIN wire["guest"] = 1..Len(wire["guest"]) /\ Len(wire["guest"]) \in Nat
              /\ \A i \in DOMAIN wire["guest"] : wire'["guest"][i] = wire["guest"][i]
              /\ wire'["guest"][Len(wire["guest"]) + 1] = m
              BY <1>1, <2>4, <2>6, <4>1, Last, WireTyped
        <5>2. \A i \in DOMAIN wire'["guest"] :
                  i \in DOMAIN wire["guest"] \/ i = Len(wire["guest"]) + 1
              BY <5>1
        <5>3. \A i \in DOMAIN wire["guest"] : ~Says("guest", "proposal", i)'
              BY <1>2, <3>1, <5>1 DEF Says
        <5> QED BY <5>1, <5>2, <5>3
      <4>2. CASE ~InTouch("host")
            BY <1>2, <2>6, <3>1, <4>2 DEF Says
      <4> QED BY <4>1, <4>2
    <3> QED BY <2>2, <2>5, <2>10, <3>2, <3>3 DEF TurnInv
  <2>12. ProposalInv'
    <3>1. RandomPairs(network)' = RandomPairs(network) /\ Admitted(network)' = Admitted(network)
          BY <1>2 DEF RandomPairs, Admitted, Masked, PrefixLast, Size
    <3>2. offer' \in [Party -> Proposals \cup {Unset}]
          BY <1>0, <2>1, <2>3 DEF ProposalInv
    <3> QED BY <1>2, <2>10, <3>1, <3>2 DEF ProposalInv
  <2>13. MetInv'
    <3>1. stage["host"] \in Rooted("host") \ {"ke3"}
          BY <1>2, Roots
    <3> QED BY <1>0, <1>2, <2>2, <2>6, <3>1 DEF MetInv, Speaks
  <2>14. ReadyInv'
    <3>1. offer'["guest"] = offer["guest"]
          BY <1>0, <1>1, <2>1 DEF ProposalInv
    <3>2. Entry("guest", "guest")' = Entry("guest", "guest")
          BY <1>2, <3>1 DEF Entry
    <3> QED BY <1>0, <1>1, <1>2, <2>2, <3>2 DEF ReadyInv, Twin
  <2>15. ServiceInv'
        BY <1>0, <1>1, <1>2, <2>2, ServiceStays
  <2> QED BY <2>7, <2>9, <2>11, <2>12, <2>13, <2>14, <2>15 DEF CoreInv
<1> QED BY <1>3, <1>4

LEMMA ConsiderCore ==
    ASSUME PairInv, CoreInv, NEW free \in BOOLEAN, Consider(free)
    PROVE  CoreInv'
<1> DEFINE m == Received("guest")
           t == Spoken("guest", "reply", free)
           e == [party |-> "guest", root |-> root["guest"], code |-> code["guest"],
                 addresses |-> m.says]
<1>0. SlotInv /\ RootInv /\ TurnInv /\ ReadyInv /\ ServiceInv /\ ProposalInv /\ MetInv
      BY DEF CoreInv
<1>1. /\ "host" \in Party /\ "guest" \in Party /\ Counterpart("guest") = "host"
      /\ \A s \in Party : s = "host" \/ s = "guest"
      BY DEF Party, Counterpart
<1>2. /\ stage["guest"] = "listening" /\ Heard("guest", "proposal") /\ Sound(m.says)
      /\ wire' = Sent("guest", [wire EXCEPT !["guest"] = Tail(@)], <<t>>)
      /\ IF free
           THEN /\ offer' = [offer EXCEPT !["guest"] = m.says]
                /\ stage' = [stage EXCEPT !["guest"] = "committing"]
                /\ ready' = ready \cup {e}
           ELSE UNCHANGED <<offer, stage, ready>>
      /\ UNCHANGED <<calls, code, shown, root, network, open, slot, commit, pairs, mishaps>>
      BY DEF Consider, Prepared
<1>3. /\ HasFrame("guest") /\ m.kind = "proposal" /\ m.body.root = root["guest"]
      /\ m.body.secret = code["guest"].secret
      BY <1>2 DEF Heard, Genuine
<1>4. /\ root["guest"] \in Root /\ root["guest"]["guest"] = calls["guest"]
      /\ t.kind = "reply" /\ t.says = free /\ t.body.root = root["guest"]
      /\ stage["guest"] \in Inside("guest") /\ code["guest"] \in Code
      BY <1>1, <1>2, SpokenRoots DEF Addressing
<1>5. t \in RoomFrame
      BY <1>1, <1>2, SpokenTyped DEF Addressing
<1>6. m \in RoomFrame /\ m.says \in Proposals
  <2>1. m \in RoomFrame
        BY <1>1, <1>3, ReadTyped
  <2> HIDE DEF m
  <2> QED BY <1>3, <2>1 DEF RoomFrame, Sealed
<1>7. /\ m \in On("guest") /\ m = wire["guest"][1] /\ 1 \in DOMAIN wire["guest"]
      BY <1>1, <1>3, HeadOn
<1> HIDE DEF m, t
<1>8. /\ Follows("guest", 1, {}) /\ Follows("host", 0, {t}) /\ On("guest")' \subseteq On("guest")
      /\ wire'["guest"] = Tail(wire["guest"])
      /\ wire'["host"] = IF InTouch("guest") THEN wire["host"] \o <<t>> ELSE wire["host"]
      /\ \A x \in On("host")' : x \in On("host") \/ (x \in {t} /\ InTouch("guest"))
  <2>1. <<t>> \in Seq(RoomFrame) /\ \A j \in DOMAIN <<t>> : <<t>>[j] \in {t}
        BY <1>5, OneFrame
  <2>2. wire' = Sent("guest", [wire EXCEPT !["guest"] = Tail(@)], <<t>>)
        BY <1>2
  <2>3. HasFrame("guest") /\ "guest" \in Party
        BY <1>1, <1>3
  <2> QED BY <1>1, <2>1, <2>2, <2>3, SentWires
<1>9. /\ stage'["host"] = stage["host"]
      /\ stage'["guest"] = IF free THEN "committing" ELSE "listening"
      BY <1>1, <1>2, Named, Staged
<1>10. /\ offer' \in [Party -> Proposals \cup {Unset}] /\ offer'["host"] = offer["host"]
       /\ offer'["guest"] = IF free THEN m.says ELSE offer["guest"]
      BY <1>0, <1>1, <1>2, <1>6 DEF ProposalInv
<1>11. ready' = ready \cup (IF free THEN {e} ELSE {})
      BY <1>2
<1>12. \A p \in Party : Entry(p, "host")' = Entry(p, "host")
      BY <1>2, <1>10 DEF Entry
<1>13. SlotInv'
      BY <1>0, <1>1, <1>2, <1>4, <1>8, <1>9, Insides, TurnSlot
<1>14. /\ root["guest"]["host"] <= calls["host"]
       /\ root["guest"]["host"] = calls["host"] =>
             root["host"] = root["guest"] /\ code["host"] = code["guest"]
      BY <1>0, <1>4, PairingAssumption DEF RootInv
<1>15. RootInv'
  <2>1. \A x \in On("host")' : Names(x) =>
          /\ x.body.root \in Root
          /\ x.body.root["guest"] <= calls["guest"]
          /\ x.body.root["guest"] = calls["guest"] => root["guest"] = x.body.root
          /\ x.body.root["host"] <= calls["host"]
          /\ x.body.root["host"] = calls["host"] => root["host"] = x.body.root
        BY <1>0, <1>4, <1>8, <1>14, Counts DEF RootInv
  <2>2. \A x \in On("host")' : x.kind = "ke1" => x.body.call <= calls["guest"]
        BY <1>0, <1>4, <1>8 DEF RootInv
  <2>3. stage["guest"] \in Rooted("guest") /\ stage'["guest"] \in Rooted("guest")
        BY <1>2, <1>9, Roots
  <2>4. \A s \in Party :
          /\ stage'[s] \notin Rooted(s) \cup {"failed"} => root'[s] = Unset
          /\ root'[s] # Unset => root'[s][s] = calls'[s]
        BY <1>0, <1>1, <1>2, <1>9, <2>3 DEF RootInv
  <2> QED BY <1>0, <1>2, <1>8, <2>1, <2>2, <2>4 DEF RootInv
<1>16. TurnInv'
  <2>1. CASE root["guest"] # root["host"]
    <3>1. \A x \in {t} : x.body.root # root["host"]
          BY <1>4, <2>1
    <3>2. Follows("guest", 1, {t})
          BY <1>8 DEF Follows
    <3> QED BY <1>0, <1>2, <1>8, <1>9, <1>10, <1>11, <3>1, <3>2, TurnShifts
  <2>2. CASE root["guest"] = root["host"]
    <3>1. Says("guest", "proposal", 1)
          BY <1>3, <1>7, <2>2 DEF Says
    <3>2. stage["host"] \notin Rooted("host") \ {"proposed", "committing", "done"}
          BY <1>0, <1>7, <3>1 DEF TurnInv
    <3>3. CASE stage["host"] # "proposed"
          BY <1>9, <3>2, <3>3 DEF TurnInv
    <3>4. CASE stage["host"] = "proposed"
      <4>1. code["host"] = code["guest"]
        <5>1. root["host"]["host"] = calls["host"]
              BY <1>0, <1>1, <1>4, <2>2, PairingAssumption DEF RootInv
        <5> QED BY <1>14, <2>2, <5>1
      <4>2. m.says = offer["host"]
            BY <1>0, <1>7, <3>1, <3>4 DEF TurnInv
      <4>3. free => Entry("guest", "host") \in ready'
            BY <1>11, <2>2, <4>1, <4>2 DEF Entry
      <4>4. \A i \in DOMAIN wire'["guest"] : ~Says("guest", "proposal", i)'
        <5>1. ASSUME NEW i \in DOMAIN wire'["guest"], Says("guest", "proposal", i)'
              PROVE  FALSE
          <6>1. i \in Nat /\ i + 1 \in DOMAIN wire["guest"] /\ Says("guest", "proposal", i + 1)
                BY <1>2, <1>8, <5>1 DEF Follows, Says
          <6>2. i + 1 = 1
                BY <1>0, <1>7, <3>1, <3>4, <6>1 DEF TurnInv
          <6>3. i >= 1
                BY <1>1, <1>8, <5>1, <1>3, WireTyped DEF HasFrame
          <6> QED BY <6>1, <6>2, <6>3
        <5> QED BY <5>1
      <4>5. \A i \in DOMAIN wire'["host"] : Says("host", "reply", i)' =>
                i = Len(wire["host"]) + 1 /\ wire'["host"][i] = t
        <5>1. \A i \in DOMAIN wire["host"] : ~Says("host", "reply", i)
              BY <1>0, <1>7, <3>1, <3>4 DEF TurnInv
        <5>2. CASE InTouch("guest")
          <6>1. /\ DOMAIN wire'["host"] = 1..(Len(wire["host"]) + 1)
                /\ DOMAIN wire["host"] = 1..Len(wire["host"]) /\ Len(wire["host"]) \in Nat
                /\ \A i \in DOMAIN wire["host"] : wire'["host"][i] = wire["host"][i]
                /\ wire'["host"][Len(wire["host"]) + 1] = t
                BY <1>1, <1>5, <1>8, <5>2, Last, WireTyped
          <6>2. \A i \in DOMAIN wire'["host"] :
                    i \in DOMAIN wire["host"] \/ i = Len(wire["host"]) + 1
                BY <6>1
          <6>3. \A i \in DOMAIN wire["host"] : ~Says("host", "reply", i)'
                BY <1>2, <5>1, <6>1 DEF Says
          <6> QED BY <6>1, <6>2, <6>3
        <5>3. CASE ~InTouch("guest")
              BY <1>2, <1>8, <5>1, <5>3 DEF Says
        <5> QED BY <5>2, <5>3
      <4>6. Entry("guest", "host")' = Entry("guest", "host")
            BY <1>1, <1>12
      <4>7. \A i \in DOMAIN wire'["host"] :
                Says("host", "reply", i)' /\ wire'["host"][i].says =>
                    Entry("guest", "host") \in ready'
            BY <1>4, <4>3, <4>5
      <4> QED BY <1>9, <3>4, <4>4, <4>5, <4>6, <4>7 DEF TurnInv
    <3> QED BY <3>3, <3>4
  <2> QED BY <2>1, <2>2
<1>17. ReadyInv'
  <2>1. e \in Entries /\ Sound(e.addresses) /\ e.party = "guest" /\ e.root = root["guest"]
        BY <1>1, <1>2, <1>4, <1>6 DEF Entries
  <2>2. \A x \in ready : x.party = "guest" => x.root # root["guest"]
        BY <1>0, <1>2, <1>4 DEF ReadyInv
  <2>3. calls["guest"] \in Nat
        BY Counts
  <2>4. Entry("guest", "guest")' = e \/ ~free
        BY <1>2, <1>10 DEF Entry
  <2>5. \A x : \A p : Twin(x, p)' = Twin(x, p)
        BY DEF Twin
  <2>6. ready' \subseteq Entries /\ ready \subseteq ready'
        BY <1>0, <1>11, <2>1 DEF ReadyInv
  <2>7. ASSUME NEW x \in ready'
        PROVE  /\ Sound(x.addresses)
               /\ x.root["guest"] <= calls["guest"]
               /\ x.party = "host" => Twin(x, "guest") \in ready'
               /\ x.party = "guest" /\ x.root["guest"] = calls["guest"] =>
                     stage'["guest"] \in {"committing", "done", "failed"}
               /\ \A y \in ready' :
                     x.party = "guest" /\ y.party = "guest" /\ y.root = x.root => y = x
    <3>1. CASE x \in ready
      <4>1. /\ Sound(x.addresses)
            /\ x.root["guest"] <= calls["guest"]
            /\ x.party = "host" => Twin(x, "guest") \in ready
            /\ ~(x.party = "guest" /\ x.root["guest"] = calls["guest"])
            /\ \A y \in ready : x.party = "guest" /\ y.party = "guest" /\ y.root = x.root => y = x
            BY <1>0, <1>2, <3>1 DEF ReadyInv
      <4> HIDE DEF e
      <4> QED BY <1>11, <2>1, <2>2, <3>1, <4>1
    <3>2. CASE free /\ x = e
      <4> HIDE DEF e
      <4> QED BY <1>1, <1>4, <1>9, <1>11, <2>1, <2>2, <2>3, <3>2
    <3> QED BY <1>11, <3>1, <3>2
  <2>8. \A s \in Party : stage'[s] \in {"committing", "done"} => Entry(s, s)' \in ready'
    <3> HIDE DEF e
    <3> QED BY <1>0, <1>1, <1>9, <1>11, <1>12, <2>4, <2>6 DEF ReadyInv
  <2>9. stage'["host"] \in {"committing", "done"} => Entry("guest", "host")' \in ready'
        BY <1>0, <1>1, <1>9, <1>12, <2>6 DEF ReadyInv
  <2>10. calls' = calls
        BY <1>2
  <2> QED BY <2>5, <2>6, <2>7, <2>8, <2>9, <2>10 DEF ReadyInv
<1>18. ProposalInv'
  <2>1. RandomPairs(network)' = RandomPairs(network) /\ Admitted(network)' = Admitted(network)
        BY <1>2 DEF RandomPairs, Admitted, Masked, PrefixLast, Size
  <2> QED BY <1>0, <1>9, <1>10, <2>1 DEF ProposalInv
<1>19. MetInv'
      BY <1>0, <1>2, <1>4, <1>8, <1>9 DEF MetInv, Speaks
<1>20. ServiceInv'
  <2>1. ready \subseteq ready'
        BY <1>11
  <2> QED BY <1>0, <1>1, <1>2, <1>9, <2>1, ServiceStays
<1> QED BY <1>13, <1>15, <1>16, <1>17, <1>18, <1>19, <1>20 DEF CoreInv

LEMMA HearReplyCore ==
    ASSUME PairInv, CoreInv, HearReply
    PROVE  CoreInv'
<1> DEFINE m == Received("host")
           e == Entry("host", "host")
<1>0. SlotInv /\ RootInv /\ TurnInv /\ ReadyInv /\ ServiceInv /\ ProposalInv /\ MetInv
      BY DEF CoreInv
<1>1. /\ "host" \in Party /\ "guest" \in Party /\ Counterpart("host") = "guest"
      /\ \A s \in Party : s = "host" \/ s = "guest"
      BY DEF Party, Counterpart
<1>2. /\ stage["host"] = "proposed" /\ Heard("host", "reply")
      /\ wire' = [wire EXCEPT !["host"] = Tail(@)]
      /\ IF m.says
           THEN /\ stage' = [stage EXCEPT !["host"] = "committing"]
                /\ ready' = ready \cup {e} /\ offer' = offer
           ELSE /\ stage' = [stage EXCEPT !["host"] = "offering"]
                /\ offer' = [offer EXCEPT !["host"] = Unset] /\ ready' = ready
      /\ UNCHANGED <<calls, code, shown, root, network, open, slot, commit, pairs, mishaps>>
      BY DEF HearReply, Prepared, Entry
<1>3. HasFrame("host") /\ m.kind = "reply" /\ m.body.root = root["host"]
      BY <1>2 DEF Heard, Genuine
<1>4. m \in On("host") /\ m = wire["host"][1] /\ 1 \in DOMAIN wire["host"]
      BY <1>1, <1>3, HeadOn
<1>5. /\ wire'["host"] = Tail(wire["host"]) /\ wire'["guest"] = wire["guest"]
      BY <1>1, <1>2, Typed
<1>6. /\ Follows("host", 1, {}) /\ On("host")' \subseteq On("host") /\ On("guest")' = On("guest")
  <2>1. Follows("host", 1, {})
        BY <1>1, <1>3, <1>5, Shifts DEF HasFrame
  <2>2. On("host")' \subseteq On("host")
        BY <1>1, <2>1, OnFollows
  <2>3. On("guest")' = On("guest")
        BY <1>5 DEF On
  <2> QED BY <2>1, <2>2, <2>3
<1>7. /\ stage'["guest"] = stage["guest"]
      /\ stage'["host"] = IF m.says THEN "committing" ELSE "offering"
      BY <1>1, <1>2, Named, Staged
<1> HIDE DEF m
<1>8. Says("host", "reply", 1)
      BY <1>3, <1>4 DEF Says
<1>9. \A i \in DOMAIN wire["guest"] : ~Says("guest", "proposal", i)
      BY <1>0, <1>2, <1>4, <1>8 DEF TurnInv
<1>10. m.says => Entry("guest", "host") \in ready
      BY <1>0, <1>2, <1>4, <1>8 DEF TurnInv
<1>11. stage["host"] \in Inside("host") /\ stage'["host"] \in Inside("host")
      BY <1>2, <1>7, Insides
<1>12. SlotInv'
      BY <1>0, <1>1, <1>2, <1>5, <1>7, <1>11, TurnSlot
<1>13. stage["host"] \in Rooted("host") \ {"ke3"} /\ stage'["host"] \in Rooted("host")
      BY <1>2, <1>7, Roots
<1>14. RootInv'
  <2>1. \A s \in Party :
          /\ stage'[s] \notin Rooted(s) \cup {"failed"} => root'[s] = Unset
          /\ root'[s] # Unset => root'[s][s] = calls'[s]
        BY <1>0, <1>1, <1>2, <1>7, <1>13 DEF RootInv
  <2> QED BY <1>0, <1>2, <1>6, <2>1 DEF RootInv
<1>15. TurnInv'
  <2>1. CASE m.says
        BY <1>7, <2>1 DEF TurnInv
  <2>2. CASE ~m.says
    <3>1. stage'["host"] = "offering"
          BY <1>7, <2>2
    <3>2. \A i \in DOMAIN wire'["guest"] : ~Says("guest", "proposal", i)'
          BY <1>2, <1>5, <1>9 DEF Says
    <3>3. ASSUME NEW i \in DOMAIN wire'["host"], Says("host", "reply", i)'
          PROVE  FALSE
      <4>1. i \in Nat /\ i + 1 \in DOMAIN wire["host"] /\ Says("host", "reply", i + 1)
            BY <1>2, <1>6, <3>3 DEF Follows, Says
      <4>2. i + 1 = 1
            BY <1>0, <1>2, <1>4, <1>8, <4>1 DEF TurnInv
      <4>3. i >= 1
            BY <1>1, <1>3, <1>5, <3>3, WireTyped DEF HasFrame
      <4> QED BY <4>1, <4>2, <4>3
    <3> QED BY <3>1, <3>2, <3>3 DEF TurnInv
  <2> QED BY <2>1, <2>2
<1>16. offer'["guest"] = offer["guest"] /\ offer' \in [Party -> Proposals \cup {Unset}]
      BY <1>0, <1>1, <1>2 DEF ProposalInv
<1>17. Entry("guest", "guest")' = Entry("guest", "guest")
      BY <1>2, <1>16 DEF Entry
<1>18. ReadyInv'
  <2>1. CASE m.says
    <3>1. ready' = ready \cup {e} /\ offer' = offer
          BY <1>2, <2>1
    <3>2. Entry("host", "host")' = e /\ Entry("guest", "host")' = Entry("guest", "host")
          BY <1>2, <3>1 DEF Entry
    <3>3. /\ e.party = "host" /\ Twin(e, "guest") = Entry("guest", "host")
          /\ e.addresses = Entry("guest", "host").addresses /\ e.root = Entry("guest", "host").root
          BY DEF Entry, Twin
    <3>4. /\ e \in Entries /\ Sound(e.addresses) /\ e.root["guest"] <= calls["guest"]
      <4>1. Entry("guest", "host") \in Entries /\ Entry("guest", "host") \in ready
            BY <1>0, <1>10, <2>1 DEF ReadyInv
      <4>2. e \in Entries
            BY <1>1, <4>1 DEF Entries, Entry
      <4>3. /\ Sound(Entry("guest", "host").addresses)
            /\ Entry("guest", "host").root["guest"] <= calls["guest"]
            BY <1>0, <4>1 DEF ReadyInv
      <4> QED BY <3>3, <4>2, <4>3
    <3>5. \A x : \A p : Twin(x, p)' = Twin(x, p)
          BY DEF Twin
    <3>6. ready' \subseteq Entries /\ ready \subseteq ready'
          BY <1>0, <3>1, <3>4 DEF ReadyInv
    <3>7. ASSUME NEW x \in ready'
          PROVE  /\ Sound(x.addresses)
                 /\ x.root["guest"] <= calls["guest"]
                 /\ x.party = "host" => Twin(x, "guest") \in ready'
                 /\ x.party = "guest" /\ x.root["guest"] = calls["guest"] =>
                       stage'["guest"] \in {"committing", "done", "failed"}
                 /\ \A y \in ready' :
                       x.party = "guest" /\ y.party = "guest" /\ y.root = x.root => y = x
      <4> HIDE DEF e
      <4>1. CASE x \in ready
            BY <1>0, <1>7, <3>1, <3>3, <4>1 DEF ReadyInv
      <4>2. CASE x = e
            BY <1>10, <2>1, <3>1, <3>3, <3>4, <4>2
      <4> QED BY <3>1, <4>1, <4>2
    <3>8. \A s \in Party : stage'[s] \in {"committing", "done"} => Entry(s, s)' \in ready'
      <4> HIDE DEF e
      <4> QED BY <1>0, <1>1, <1>7, <1>17, <3>1, <3>2, <3>6 DEF ReadyInv
    <3>9. Entry("guest", "host")' \in ready' /\ calls' = calls
          BY <1>2, <1>10, <2>1, <3>2, <3>6
    <3> HIDE DEF e
    <3> QED BY <3>5, <3>6, <3>7, <3>8, <3>9 DEF ReadyInv
  <2>2. CASE ~m.says
        BY <1>0, <1>1, <1>2, <1>7, <1>17, <2>2 DEF ReadyInv, Twin
  <2> QED BY <2>1, <2>2
<1>19. ProposalInv'
  <2>1. RandomPairs(network)' = RandomPairs(network) /\ Admitted(network)' = Admitted(network)
        BY <1>2 DEF RandomPairs, Admitted, Masked, PrefixLast, Size
  <2>2. m.says => offer' = offer
        BY <1>2
  <2> QED BY <1>0, <1>2, <1>7, <1>16, <2>1, <2>2 DEF ProposalInv
<1>20. MetInv'
      BY <1>0, <1>2, <1>6, <1>7, <1>13 DEF MetInv, Speaks
<1>21. ServiceInv'
  <2>1. ready \subseteq ready'
        BY <1>2
  <2> QED BY <1>0, <1>1, <1>2, <1>7, <2>1, ServiceStays
<1> QED BY <1>12, <1>14, <1>15, <1>18, <1>19, <1>20, <1>21 DEF CoreInv

-----------------------------------------------------------------------------
(* The end of a call, and every step.                                        *)

LEMMA EndingCore ==
    ASSUME PairInv, CoreInv, NEW s \in Party, Fail(s)
    PROVE  CoreInv'
<1>0. SlotInv /\ ServiceInv
      BY DEF CoreInv
<1>1. /\ stage' = [stage EXCEPT ![s] = "failed"] /\ wire' = Told(s) /\ slot' = Left(s)
      /\ UNCHANGED <<calls, code, root, network, offer, ready, open, commit, pairs>>
      BY DEF Fail
<1>2. stage'[s] = "failed" /\ \A p \in Party \ {s} : stage'[p] = stage[p]
      BY <1>1, Named, Staged
<1>3. Still /\ SlotInv'
      BY <1>0, <1>1, <1>2, EndsStill, EndsSlot
<1>4. ServiceInv'
      BY <1>0, <1>1, <1>2, ServiceStays
<1> QED BY <1>3, <1>4, StillCore

LEMMA CommittingCore ==
    ASSUME PairInv, CoreInv, NEW s \in Party, Submit(s) \/ AnswerLost(s)
    PROVE  CoreInv'
<1>0. SlotInv /\ ReadyInv /\ ServiceInv
      BY DEF CoreInv
<1>1. /\ stage[s] = "committing" /\ Submitted(s)
      /\ UNCHANGED <<calls, code, root, network, offer, ready, open>>
      BY DEF Submit, AnswerLost
<1>2. CASE stage' = stage /\ wire' = wire /\ slot' = slot
  <2>1. Still
        BY <1>1, <1>2, Stays DEF Still, StageStill
  <2>2. SlotInv'
        BY <1>0, <1>1, <1>2 DEF SlotInv, Inside
  <2>3. ServiceInv'
        BY <1>0, <1>1, <1>2, SubmitService
  <2> QED BY <2>1, <2>2, <2>3, StillCore
<1>3. ASSUME NEW k \in {"done", "failed"}, stage' = [stage EXCEPT ![s] = k],
             wire' = Told(s), slot' = Left(s), k = "done" => Committed(s)
      PROVE  CoreInv'
  <2>1. stage'[s] = k /\ \A p \in Party \ {s} : stage'[p] = stage[p]
        BY <1>3, Named, Staged
  <2>2. Still /\ SlotInv'
        BY <1>0, <1>1, <1>3, <2>1, EndsStill, EndsSlot
  <2>3. ServiceInv'
        BY <1>0, <1>1, <1>3, <2>1, SubmitService
  <2> QED BY <2>2, <2>3, StillCore
<1>4. CASE Submit(s)
  <2>1. CASE Committed(s) \/ Refused(s)
    <3> DEFINE k == IF Committed(s) THEN "done" ELSE "failed"
    <3>1. /\ stage' = [stage EXCEPT ![s] = k] /\ wire' = Told(s) /\ slot' = Left(s)
          BY <1>4, <2>1 DEF Submit
    <3>2. k \in {"done", "failed"} /\ (k = "done" => Committed(s))
          OBVIOUS
    <3> HIDE DEF k
    <3> QED BY <1>3, <3>1, <3>2
  <2>2. CASE ~(Committed(s) \/ Refused(s))
        BY <1>2, <1>4, <2>2 DEF Submit
  <2> QED BY <2>1, <2>2
<1>5. CASE AnswerLost(s)
      BY <1>3, <1>5 DEF AnswerLost
<1> QED BY <1>4, <1>5

LEMMA EnterCore ==
    ASSUME PairInv, CoreInv, NEW s \in Party, Enter(s)
    PROVE  CoreInv'
<1>0. SlotInv /\ ServiceInv
      BY DEF CoreInv
<1>1. /\ stage' = [stage EXCEPT ![s] = "up"] /\ UNCHANGED <<root, ready, commit, pairs>>
      BY DEF Enter
<1>2. stage'[s] = "up" /\ \A p \in Party \ {s} : stage'[p] = stage[p]
      BY <1>1, Named, Staged
<1>3. Still /\ SlotInv'
      BY <1>0, EnterDoes
<1>4. ServiceInv'
      BY <1>0, <1>1, <1>2, ServiceStays
<1> QED BY <1>3, <1>4, StillCore

LEMMA ExpiresCore ==
    ASSUME PairInv, CoreInv, NEW room \in Room, RoomExpires(room)
    PROVE  CoreInv'
<1>0. SlotInv /\ ServiceInv
      BY DEF CoreInv
<1>1. /\ commit' = [commit EXCEPT ![room] = [s \in Party |-> Unset]]
      /\ UNCHANGED <<stage, root, ready, pairs>>
      BY DEF RoomExpires, callVars
<1>2. Still /\ SlotInv'
      BY <1>0, ExpiresDoes
<1>3. \A x \in Room : \A p \in Party : commit'[x][p] \in {Unset, commit[x][p]}
  <2>1. commit \in [Room -> [Party -> Root \cup {Unset}]]
        BY Typed DEF ServiceTyped
  <2> QED BY <1>1, <2>1
<1>4. ServiceInv'
      BY <1>0, <1>1, <1>3, ServiceStays
<1> QED BY <1>2, <1>4, StillCore

LEMMA CoreStutters ==
    ASSUME PairInv, CoreInv, UNCHANGED pairingVars
    PROVE  CoreInv'
<1>0. SlotInv /\ ServiceInv
      BY DEF CoreInv
<1>1. UNCHANGED <<calls, stage, code, root, network, offer, wire, slot, commit, pairs, ready>>
      BY DEF pairingVars, callVars, serviceVars
<1>2. Still
      BY <1>1, Stays DEF Still, StageStill
<1>3. SlotInv'
      BY <1>0, <1>1 DEF SlotInv, Inside
<1>4. ServiceInv'
      BY <1>0, <1>1, ServiceStays
<1> QED BY <1>2, <1>3, <1>4, StillCore

\* Whatever is lost on the way, the two calls of one secret agree.
LEMMA CorePreserved == PairInv /\ CoreInv /\ [PairingNext]_pairingVars => CoreInv'
<1> SUFFICES ASSUME PairInv, CoreInv, [PairingNext]_pairingVars PROVE CoreInv'
    OBVIOUS
<1>0. "host" \in Party /\ \A s \in Party : s = "host" \/ s = "guest"
      BY DEF Party
<1>1. ASSUME NEW s \in Party, Working(s) \/ TimesOut(s) \/ SocketLost(s) \/ AnswerLost(s)
      PROVE  CoreInv'
  <2>1. CASE EnterFails(s) \/ Disturbed(s) \/ NegotiationFails(s) \/ TimesOut(s) \/ SocketLost(s)
    <3>1. Fail(s)
          BY <2>1 DEF EnterFails, Disturbed, NegotiationFails, TimesOut, SocketLost
    <3> QED BY <3>1, EndingCore
  <2>2. CASE Exchange(s)
        BY <1>0, <2>2, HostExchangeCore, GuestExchangeCore
  <2> QED BY <1>1, <2>1, <2>2, EnterCore, CommittingCore DEF Working
<1>2. CASE HostWorks
  <2>1. CASE RoomRefused \/ NetworkRefused
        BY <1>0, <2>1, EndingCore DEF RoomRefused, NetworkRefused
  <2> QED BY <1>2, <2>1, CreateRoomCore, HearReplyCore, ProposeCore DEF HostWorks
<1>3. CASE GuestWorks
      BY <1>3, ConsiderCore DEF GuestWorks
<1>4. ASSUME NEW c \in Code, BeginGuest(c) \/ \E n \in Networks : BeginHost(c, n)
      PROVE  CoreInv'
      BY <1>4, BeginGuestCore, BeginHostCore
<1>5. ASSUME NEW room \in Room, RoomExpires(room)
      PROVE  CoreInv'
      BY <1>5, ExpiresCore
<1>6. CASE UNCHANGED pairingVars
      BY <1>6, CoreStutters
<1> QED BY <1>1, <1>2, <1>3, <1>4, <1>5, <1>6 DEF PairingNext

LEMMA CoreInitial == PairingInit => CoreInv
<1> SUFFICES ASSUME PairingInit PROVE CoreInv
    OBVIOUS
<1>1. /\ \A s \in Party : /\ stage[s] = "idle" /\ root[s] = Unset /\ wire[s] = <<>>
                          /\ "idle" \notin Rooted(s)
      /\ \A room \in Room : slot[room] = {} /\ \A s \in Party : commit[room][s] = Unset
      /\ pairs = {} /\ ready = {} /\ "host" \in Party /\ "guest" \in Party
      BY Roots DEF PairingInit, Party
<1>2. \A s \in Party : On(s) = {}
      BY <1>1 DEF On
<1>3. SlotInv /\ RootInv
      BY <1>1, <1>2 DEF SlotInv, RootInv
<1>4. TurnInv /\ MetInv
      BY <1>1, <1>2 DEF TurnInv, MetInv, Speaks
<1>5. ReadyInv /\ ServiceInv
      BY <1>1 DEF ReadyInv, ServiceInv, Backed
<1>6. ProposalInv
      BY <1>1 DEF ProposalInv, PairingInit
<1> QED BY <1>3, <1>4, <1>5, <1>6 DEF CoreInv

-----------------------------------------------------------------------------
(* Calls of which nothing is lost.                                           *)

LEMMA NoneReady ==
    ASSUME CoreInv, Ours, stage["guest"] \notin {"committing", "done"}
    PROVE  ready = {}
<1>1. \A x \in ready : x.party # "guest"
      BY DEF Ours
<1>2. \A x \in ready : x.party = "host" => Twin(x, "guest") \in ready
      BY DEF CoreInv, ReadyInv
<1>3. \A x \in ready : x.party \in {"host", "guest"}
      BY DEF CoreInv, ReadyInv, Entries, Party
<1>4. \A x : Twin(x, "guest").party = "guest"
      BY DEF Twin
<1> QED BY <1>1, <1>2, <1>3, <1>4

\* No side has said that it is ready yet, and none has it said with this step.
LEMMA NoneTaken ==
    ASSUME CoreInv, Ours, stage["guest"] \notin {"committing", "done"}, ready' = ready,
           stage'["guest"] \notin {"committing", "done"}
    PROVE  Ours' /\ Agreed'
<1>1. ready' = {}
      BY NoneReady
<1> QED BY <1>1 DEF Ours, Agreed

LEMMA PlacedStays ==
    ASSUME PairInv, Placed, open \subseteq open',
           \A p \in Party : stage'[p] \in Inside(p) =>
               /\ stage[p] \in Inside(p) /\ code'[p] = code[p]
               /\ \A room \in Room : p \in slot[room] => p \in slot'[room]
    PROVE  Placed'
<1>1. ASSUME NEW p \in Party, stage'[p] \in Inside(p)
      PROVE  InRoom(p)' /\ code'[p].room \in open'
  <2>1. InRoom(p) /\ code[p].room \in open /\ code[p].room \in Room
        BY <1>1, InsideCoded DEF Placed
  <2> QED BY <1>1, <2>1 DEF InRoom
<1> QED BY <1>1 DEF Placed, Inside

\* A host that is not negotiating beside the guest has nothing under way to it
\* that a guest would hear.
LEMMA NoProposals ==
    ASSUME PairInv, HostWaits, stage["guest"] # "failed" => stage["host"] # "proposed" \/ ~Beside,
           stage'["guest"] # "failed" => stage["guest"] # "failed",
           calls'["guest"] = calls["guest"],
           \A m \in On("guest")' : m \in On("guest") \/ m.kind # "proposal"
    PROVE  HostWaits'
<1>1. ASSUME stage'["guest"] # "failed", NEW m \in On("guest")', m.kind = "proposal",
             m.body.root["guest"] = calls["guest"]
      PROVE  FALSE
  <2>1. m \in On("guest") /\ stage["guest"] # "failed"
        BY <1>1
  <2>2. stage["host"] = "proposed" /\ root["host"] = m.body.root /\ root["guest"] = m.body.root
        BY <1>1, <2>1 DEF HostWaits
  <2> QED BY <2>1, <2>2 DEF Beside
<1> QED BY <1>1 DEF HostWaits

LEMMA BeginHostCalm ==
    ASSUME PairInv, CoreInv, CalmInv, NEW c \in Code, NEW n \in Networks, BeginHost(c, n)
    PROVE  CalmInv'
<1>0. SlotInv /\ Placed /\ HostWaits /\ Ours /\ Agreed
      BY DEF CoreInv, CalmInv
<1>1. /\ Begin("host") /\ code' = [code EXCEPT !["host"] = c]
      /\ stage' = [stage EXCEPT !["host"] = "creating"]
      /\ UNCHANGED <<ready, open, slot, commit, pairs, mishaps>>
      BY DEF BeginHost
<1>2. /\ stage["host"] \in {"idle", "failed"} /\ "host" \in Party /\ "guest" \in Party
      /\ \A s \in Party : s = "host" \/ s = "guest"
      BY <1>1 DEF Begin, Party
<1>3. /\ stage'["host"] = "creating" /\ stage'["guest"] = stage["guest"]
      /\ code'["guest"] = code["guest"]
      BY <1>1, <1>2, Named, Staged, Typed
<1>4. calls'["guest"] = calls["guest"] /\ wire' = wire
      BY <1>0, <1>1, <1>2, BeginDoes
<1>5. "creating" \notin Rooted("host") /\ "creating" \notin Inside("host")
      BY Roots, Insides
<1>6. Placed'
      BY <1>0, <1>1, <1>2, <1>3, <1>5, PlacedStays
<1>7. TellsLast' /\ RepliesOnly'
      BY <1>3, <1>5 DEF TellsLast, RepliesOnly
<1>8. HostWaits'
      BY <1>0, <1>2, <1>3, <1>4, NoProposals DEF On
<1>9. Ours' /\ Agreed'
  <2>1. stage["guest"] \notin {"committing", "done"}
        BY <1>0, <1>2 DEF Agreed
  <2> QED BY <1>0, <1>1, <1>3, <2>1, NoneTaken
<1> QED BY <1>6, <1>7, <1>8, <1>9 DEF CalmInv

LEMMA BeginGuestCalm ==
    ASSUME PairInv, CoreInv, CalmInv, NEW c \in Code, BeginGuest(c)
    PROVE  CalmInv'
<1>0. SlotInv /\ Placed /\ Ours
      BY DEF CoreInv, CalmInv
<1>1. /\ Begin("guest") /\ code' = [code EXCEPT !["guest"] = c]
      /\ stage' = [stage EXCEPT !["guest"] = "dialing"]
      /\ UNCHANGED <<ready, open, slot, commit, pairs, mishaps>>
      BY DEF BeginGuest
<1>2. /\ stage["guest"] \in {"idle", "failed"} /\ "host" \in Party /\ "guest" \in Party
      /\ \A s \in Party : s = "host" \/ s = "guest"
      BY <1>1 DEF Begin, Party
<1>3. /\ stage'["guest"] = "dialing" /\ stage'["host"] = stage["host"]
      /\ code'["host"] = code["host"]
      BY <1>1, <1>2, Named, Staged, Typed
<1>4. /\ wire' = wire /\ wire["guest"] = <<>>
      /\ root'["host"] = root["host"] /\ root'["guest"] = Unset
      BY <1>0, <1>1, <1>2, BeginDoes, Apart
<1>5. "dialing" \notin Inside("guest")
      BY Insides
<1>6. Placed'
      BY <1>0, <1>1, <1>2, <1>3, <1>5, PlacedStays
<1>7. TellsLast' /\ RepliesOnly'
  <2>1. stage["host"] \in Rooted("host") => root["host"] # Unset
        BY <1>2, Typed, PairingAssumption
  <2>2. {"offering", "proposed"} \subseteq Rooted("host")
        BY Roots
  <2> QED BY <1>3, <1>4, <2>1, <2>2 DEF TellsLast, RepliesOnly, Beside
<1>8. HostWaits'
      BY <1>4 DEF HostWaits, On
<1>9. Ours' /\ Agreed'
      BY <1>0, <1>1, <1>2, <1>3, NoneTaken
<1> QED BY <1>6, <1>7, <1>8, <1>9 DEF CalmInv

LEMMA CreateRoomCalm ==
    ASSUME PairInv, CoreInv, CalmInv, NEW c \in Code, CreateRoom(c)
    PROVE  CalmInv'
<1>0. SlotInv /\ Placed /\ HostWaits /\ Ours /\ Agreed
      BY DEF CoreInv, CalmInv
<1>1. /\ stage["host"] = "creating" /\ open \subseteq open'
      /\ UNCHANGED <<calls, root, network, offer, ready, wire, pairs, slot>>
      /\ "host" \in Party /\ "guest" \in Party
      /\ \A s \in Party : s = "host" \/ s = "guest"
      BY DEF CreateRoom, Party
<1>2. PICK k \in {"creating", "failed", "dialing"} : stage' = [stage EXCEPT !["host"] = k]
  <2>1. stage' = stage => stage' = [stage EXCEPT !["host"] = "creating"]
        BY <1>1, Typed
  <2> QED BY <2>1 DEF CreateRoom
<1>3. stage'["host"] = k /\ stage'["guest"] = stage["guest"]
  <2>1. k \in StageName
        BY <1>2 DEF StageName
  <2> QED BY <1>1, <1>2, <2>1, Staged
<1>4. code'["guest"] = code["guest"]
      BY <1>1, Typed DEF CreateRoom
<1>5. k \notin Rooted("host") /\ k \notin Inside("host")
      BY <1>2, Roots, Insides
<1>6. Placed'
      BY <1>0, <1>1, <1>3, <1>4, <1>5, PlacedStays
<1>7. TellsLast' /\ RepliesOnly'
      BY <1>2, <1>3, <1>5 DEF TellsLast, RepliesOnly
<1>8. HostWaits'
      BY <1>0, <1>1, <1>3, NoProposals DEF On
<1>9. Ours' /\ Agreed'
  <2>1. stage["guest"] \notin {"committing", "done"}
        BY <1>0, <1>1 DEF Agreed
  <2> QED BY <1>0, <1>1, <1>3, <2>1, NoneTaken
<1> QED BY <1>6, <1>7, <1>8, <1>9 DEF CalmInv

LEMMA EnterCalm ==
    ASSUME PairInv, CoreInv, CalmInv, NEW s \in Party, Enter(s)
    PROVE  CalmInv'
<1> DEFINE room == code[s].room
<1>0. SlotInv /\ RootInv /\ Placed /\ HostWaits /\ Ours /\ Agreed
      BY DEF CoreInv, CalmInv
<1>1. /\ stage[s] = "dialing" /\ room \in open /\ slot' = [slot EXCEPT ![room] = @ \cup {s}]
      /\ stage' = [stage EXCEPT ![s] = "up"]
      /\ UNCHANGED <<calls, code, root, ready, open>>
      BY DEF Enter
<1>2. stage'[s] = "up" /\ \A p \in Party \ {s} : stage'[p] = stage[p]
      BY <1>1, Named, Staged
<1>3. code[s] \in Code /\ room \in Room /\ code[s] # Unset
      BY <1>1, Typed, PairingAssumption DEF Code
<1>4. \A p \in Party : \A x \in Room :
          (p \in slot[x] => p \in slot'[x]) /\ s \in slot'[room]
      BY <1>1, <1>3, SlotTyped
<1>5. Placed'
  <2>1. ASSUME NEW p \in Party, stage'[p] \in Inside(p)
        PROVE  InRoom(p)' /\ code'[p].room \in open'
    <3>1. CASE p = s
          BY <1>1, <1>3, <1>4, <3>1 DEF InRoom
    <3>2. CASE p # s
      <4>1. /\ stage[p] \in Inside(p) /\ InRoom(p) /\ code[p].room \in open /\ code[p].room \in Room
            BY <1>0, <1>2, <2>1, <3>2, InsideCoded DEF Placed
      <4> QED BY <1>1, <1>4, <4>1 DEF InRoom
    <3> QED BY <3>1, <3>2
  <2> QED BY <2>1 DEF Placed, Inside
<1>6. "host" \in Party /\ "guest" \in Party
      BY DEF Party
<1>7. TellsLast' /\ RepliesOnly'
  <2>1. CASE s = "host"
    <3>1. "up" \notin Rooted("host")
          BY Roots
    <3> QED BY <1>2, <2>1, <3>1 DEF TellsLast, RepliesOnly
  <2>2. CASE s = "guest"
    <3>1. root["guest"] = Unset
          BY <1>0, <1>1, <1>6, <2>2, Roots DEF RootInv
    <3>2. stage["host"] \in Rooted("host") => root["host"] # Unset
          BY <1>6, Typed, PairingAssumption
    <3>3. {"offering", "proposed"} \subseteq Rooted("host") /\ stage'["host"] = stage["host"]
          BY <1>2, <1>6, <2>2, Roots
    <3> QED BY <1>1, <3>1, <3>2, <3>3 DEF TellsLast, RepliesOnly, Beside
  <2> QED BY <2>1, <2>2 DEF Party
<1>8. HostWaits'
  <2>1. \A m \in On("guest")' : m \in On("guest") \/ m.kind # "proposal"
    <3>1. Follows("guest", 0, Notices)
          BY <1>0, <1>6, EnterDoes DEF Still
    <3> QED BY <3>1, <1>6, OnFollows, NoticesPlain
  <2>2. stage["host"] = "proposed" /\ Beside => FALSE
    <3>1. CASE s = "host"
          BY <1>1, <3>1
    <3>2. CASE s = "guest"
      <4>1. root["guest"] = Unset
            BY <1>0, <1>1, <1>6, <3>2, Roots DEF RootInv
      <4>2. stage["host"] = "proposed" => root["host"] # Unset
            BY <1>6, Roots, Typed, PairingAssumption
      <4> QED BY <4>1, <4>2 DEF Beside
    <3> QED BY <3>1, <3>2 DEF Party
  <2>3. stage["guest"] # "failed" \/ stage'["guest"] = "failed"
        BY <1>1, <1>2, <1>6
  <2> QED BY <1>0, <1>1, <2>1, <2>2, <2>3, NoProposals
<1>9. Ours' /\ Agreed'
  <2>1. /\ stage["guest"] \notin {"committing", "done"}
        /\ stage'["guest"] \notin {"committing", "done"}
    <3>1. s = "host" \/ s = "guest"
          BY DEF Party
    <3> QED BY <1>0, <1>1, <1>2, <1>6, <3>1 DEF Agreed
  <2> QED BY <1>0, <1>1, <2>1, NoneTaken
<1> QED BY <1>5, <1>7, <1>8, <1>9 DEF CalmInv

LEMMA GuestEndsCalm ==
    ASSUME PairInv, CoreInv, CalmInv, Fail("guest"), stage["guest"] \notin {"committing", "done"}
    PROVE  CalmInv'
<1>0. SlotInv /\ Placed /\ HostWaits /\ Ours /\ Agreed
      BY DEF CoreInv, CalmInv
<1>1. /\ stage' = [stage EXCEPT !["guest"] = "failed"] /\ slot' = Left("guest")
      /\ UNCHANGED <<calls, code, root, ready, open>> /\ "guest" \in Party
      /\ \A s \in Party : s = "host" \/ s = "guest"
      BY DEF Fail, Party
<1>2. stage'["guest"] = "failed" /\ stage'["host"] = stage["host"]
      BY <1>1, Named, Staged
<1>3. Placed'
  <2>1. "failed" \notin Inside("guest")
        BY Insides
  <2>2. \A room \in Room : "host" \in slot[room] => "host" \in slot'[room]
        BY <1>0, <1>1, LeftRooms DEF Party
  <2> QED BY <1>0, <1>1, <1>2, <2>1, <2>2, PlacedStays
<1>4. TellsLast' /\ RepliesOnly' /\ HostWaits'
      BY <1>2 DEF TellsLast, RepliesOnly, HostWaits, Beside
<1>5. Ours' /\ Agreed'
      BY <1>0, <1>1, <1>2, NoneTaken
<1> QED BY <1>3, <1>4, <1>5 DEF CalmInv

LEMMA HostEndsCalm ==
    ASSUME PairInv, CoreInv, CalmInv, Fail("host"), stage["host"] \notin {"committing", "done"},
           stage["host"] = "proposed" => ~Beside
    PROVE  CalmInv'
<1>0. SlotInv /\ Placed /\ HostWaits /\ Ours /\ Agreed
      BY DEF CoreInv, CalmInv
<1>1. /\ stage' = [stage EXCEPT !["host"] = "failed"] /\ slot' = Left("host")
      /\ wire' = Told("host")
      /\ UNCHANGED <<calls, code, root, ready, open>> /\ "host" \in Party /\ "guest" \in Party
      /\ Counterpart("host") = "guest"
      /\ \A s \in Party : s = "host" \/ s = "guest"
      BY DEF Fail, Party, Counterpart
<1>2. stage'["host"] = "failed" /\ stage'["guest"] = stage["guest"]
      BY <1>1, Named, Staged
<1>3. Placed'
  <2>1. "failed" \notin Inside("host")
        BY Insides
  <2>2. \A room \in Room : "guest" \in slot[room] => "guest" \in slot'[room]
        BY <1>0, <1>1, LeftRooms DEF Party
  <2> QED BY <1>0, <1>1, <1>2, <2>1, <2>2, PlacedStays
<1>4. TellsLast' /\ RepliesOnly'
      BY <1>2, Roots DEF TellsLast, RepliesOnly
<1>5. HostWaits'
  <2>1. \A m \in On("guest")' : m \in On("guest") \/ m.kind # "proposal"
    <3>1. Follows("guest", 0, Notices)
          BY <1>1, ToldWires
    <3> QED BY <1>1, <3>1, OnFollows, NoticesPlain
  <2> QED BY <1>0, <1>1, <1>2, <2>1, NoProposals
<1>6. Ours' /\ Agreed'
  <2>1. stage["guest"] \notin {"committing", "done"}
        BY <1>0 DEF Agreed, Beside
  <2> QED BY <1>0, <1>1, <1>2, <2>1, NoneTaken
<1> QED BY <1>3, <1>4, <1>5, <1>6 DEF CalmInv

\* Beside its guest, a host that has the same secret has the same code.
LEMMA OneCode ==
    ASSUME PairInv, CoreInv, root["guest"] = root["host"], root["host"] # Unset
    PROVE  code["host"] = code["guest"] /\ root["host"]["host"] = calls["host"]
           /\ root["guest"]["guest"] = calls["guest"]
<1>1. "host" \in Party /\ "guest" \in Party
      BY DEF Party
<1>2. root["host"]["host"] = calls["host"] /\ root["guest"]["guest"] = calls["guest"]
      BY <1>1 DEF CoreInv, RootInv
<1> QED BY <1>2 DEF CoreInv, RootInv

LEMMA RootedSet ==
    ASSUME PairInv, NEW s \in Party, stage[s] \in Rooted(s)
    PROVE  root[s] \in Root /\ root[s] # Unset
BY Typed, PairingAssumption

\* Which calls end without a mishap.
LEMMA DisturbedCalm ==
    ASSUME PairInv, CoreInv, CalmInv, NEW s \in Party, Disturbed(s)
    PROVE  CalmInv'
<1>1. /\ Fail(s) /\ HasFrame(s)
      /\ \/ stage[s] \in DOMAIN After[s]
         \/ stage[s] = "proposed" /\ ~Heard(s, "reply")
         \/ stage[s] = "listening"
      BY DEF Disturbed, Waiting
<1>2. CASE s = "guest"
  <2>1. stage["guest"] \notin {"committing", "done"}
        BY <1>1, <1>2, Stages
  <2> QED BY <1>1, <1>2, <2>1, GuestEndsCalm
<1>3. CASE s = "host"
  <2>1. stage["host"] \notin {"committing", "done"}
        BY <1>1, <1>3, Stages
  <2>2. ASSUME stage["host"] = "proposed", Beside
        PROVE  FALSE
    <3>1. "host" \in Party /\ "host" = s /\ "proposed" \in Rooted("host")
          BY <1>3, Roots
    <3>2. root["host"] # Unset /\ root["guest"] = root["host"]
          BY <2>2, <3>1, RootedSet DEF Beside
    <3>3. Received("host") \in On("host")
          BY <1>1, <3>1, HeadOn
    <3>4. /\ Received("host").kind = "reply"
          /\ Received("host").body = Body("guest", root["guest"])
          BY <2>2, <3>3 DEF CalmInv, RepliesOnly
    <3>5. Heard("host", "reply")
          BY <1>1, <1>3, <3>2, <3>4, OneCode DEF Heard, Genuine, Body
    <3>6. ~Heard("host", "reply")
      <4>1. "proposed" \notin DOMAIN After["host"]
            BY <3>1, Stages
      <4> QED BY <1>1, <1>3, <2>2, <4>1
    <3> QED BY <3>5, <3>6
  <2> QED BY <1>1, <1>3, <2>1, <2>2, HostEndsCalm
<1> QED BY <1>2, <1>3 DEF Party

LEMMA AbandonedCalm ==
    ASSUME PairInv, CoreInv, CalmInv, NEW s \in Party, Abandoned(s)
    PROVE  stage[s] \notin {"proposed", "committing", "done"}
<1>0. Ours /\ Agreed /\ ReadyInv
      BY DEF CoreInv, CalmInv
<1>1. /\ stage[s] \notin {"idle", "done", "failed"}
      /\ \/ stage[s] \in DOMAIN After[s]
         \/ stage[s] = "committing" /\ root[Counterpart(s)] # root[s]
         \/ stage[s] = "committing" /\ stage[Counterpart(s)] = "failed"
      BY DEF Abandoned, Waiting, Ended
<1>2. CASE s = "guest"
  <2>1. Counterpart(s) = "host"
        BY <1>2 DEF Counterpart
  <2>2. stage["guest"] # "committing"
        BY <1>0, <1>1, <1>2, <2>1, Stages DEF Agreed
  <2> QED BY <1>1, <1>2, <2>2, Stages
<1>3. CASE s = "host"
  <2>1. Counterpart(s) = "guest"
        BY <1>3 DEF Counterpart
  <2>2. ASSUME stage["host"] = "committing"
        PROVE  FALSE
    <3>1. Entry("guest", "host") \in ready
          BY <1>0, <2>2 DEF ReadyInv
    <3>2. Entry("guest", "host").party = "guest" /\ Entry("guest", "host").root = root["host"]
          BY DEF Entry
    <3>3. root["host"] = root["guest"] /\ stage["guest"] \in {"committing", "done"}
          BY <1>0, <3>1, <3>2 DEF Ours
    <3> QED BY <1>1, <1>3, <2>1, <2>2, <3>3, Stages
  <2> QED BY <1>1, <1>3, <2>2, Stages
<1> QED BY <1>2, <1>3 DEF Party

LEMMA EndingsCalm ==
    ASSUME PairInv, CoreInv, CalmInv, NEW s \in Party,
           \/ EnterFails(s) \/ Disturbed(s) \/ NegotiationFails(s)
           \/ Abandoned(s) /\ TimesOut(s)
           \/ s = "host" /\ (RoomRefused \/ NetworkRefused)
    PROVE  CalmInv'
<1>1. CASE Disturbed(s)
      BY <1>1, DisturbedCalm
<1>2. CASE ~Disturbed(s)
  <2>1. Fail(s)
        BY <1>2 DEF EnterFails, NegotiationFails, TimesOut, RoomRefused, NetworkRefused
  <2>2. stage[s] \notin {"proposed", "committing", "done"}
        BY <1>2, AbandonedCalm DEF EnterFails, NegotiationFails, RoomRefused, NetworkRefused
  <2> QED BY <2>1, <2>2, GuestEndsCalm, HostEndsCalm DEF Party
<1> QED BY <1>1, <1>2

LEMMA SameCalm ==
    ASSUME PairInv, CoreInv, CalmInv,
           UNCHANGED <<calls, stage, code, root, offer, ready, wire, open, slot>>
    PROVE  CalmInv'
<1>1. Placed' /\ TellsLast' /\ RepliesOnly' /\ HostWaits'
      BY DEF CalmInv, Placed, InRoom, Inside, TellsLast, RepliesOnly, HostWaits, Beside, On, Body
<1>2. Ours' /\ Agreed'
      BY DEF CalmInv, Ours, Agreed, ReplyComes, Heard, Received, HasFrame, Genuine
<1> QED BY <1>1, <1>2 DEF CalmInv

LEMMA SubmitCalm ==
    ASSUME PairInv, CoreInv, CalmInv, NEW s \in Party, Submit(s)
    PROVE  CalmInv'
<1>0. SlotInv /\ ReadyInv /\ ServiceInv /\ Placed /\ HostWaits /\ Ours /\ Agreed
      BY DEF CoreInv, CalmInv
<1>1. /\ stage[s] = "committing"
      /\ UNCHANGED <<calls, code, root, offer, ready, open>>
      BY DEF Submit
<1>2. root[s] \in Root /\ root[s] # Unset /\ code[s] \in Code /\ code[s].room \in Room
      /\ stage[s] \in Inside(s)
  <2>1. stage[s] \in Rooted(s) /\ stage[s] \in Inside(s)
        BY <1>1 DEF Rooted, Inside
  <2> QED BY <2>1, RootedSet, InsideCoded
\* Nobody but this call has submitted for its side.
<1>3. ~Refused(s)
  <2>1. InService(s)
        BY <1>0, <1>2 DEF Placed, InService
  <2>2. commit[code[s].room][s] \in {Unset, root[s]}
    <3>1. CASE commit[code[s].room][s] # Unset
      <4>1. WasReady(s, commit[code[s].room][s])
            BY <1>0, <1>2, <3>1 DEF ServiceInv, Backed
      <4> QED BY <1>0, <4>1 DEF WasReady, Ours
    <3> QED BY <3>1
  <2>3. s = "host" \/ s = "guest"
        BY DEF Party
  <2>4. ~Conflict(s)
        BY <2>2, <2>3 DEF Conflict
  <2> QED BY <2>1, <2>4 DEF Refused
<1>4. CASE ~Committed(s)
      BY <1>1, <1>3, <1>4, SameCalm DEF Submit
<1>5. CASE Committed(s)
  <2>1. stage' = [stage EXCEPT ![s] = "done"] /\ wire' = Told(s) /\ slot' = Left(s)
        BY <1>5 DEF Submit
  <2>2. stage'[s] = "done" /\ \A p \in Party \ {s} : stage'[p] = stage[p]
        BY <2>1, Named, Staged
  <2>3. Placed'
    <3>1. "done" \notin Inside(s)
          BY Insides DEF Party
    <3> QED BY <1>0, <1>1, <2>1, <2>2, <3>1, LeftRooms, PlacedStays
  <2>4. WasReady("host", root[s])
    <3>1. "host" \in Party
          BY DEF Party
    <3>2. CASE InService(s)
      <4>1. Commits(s)["host"] = root[s]
            BY <1>5, <3>1, <3>2 DEF Committed
      <4>2. CASE s = "host"
        <5>1. Entry("host", "host") \in ready
              BY <1>0, <1>1, <3>1, <4>2 DEF ReadyInv
        <5> QED BY <4>2, <5>1 DEF WasReady, Entry
      <4>3. CASE s # "host"
        <5>1. commit[code[s].room]["host"] = root[s]
          <6>1. commit[code[s].room] \in [Party -> Root \cup {Unset}]
                BY <1>2, Typed DEF ServiceTyped
          <6> QED BY <3>1, <4>1, <4>3, <6>1 DEF Commits
        <5> QED BY <1>0, <1>2, <3>1, <5>1 DEF ServiceInv, Backed
      <4> QED BY <4>2, <4>3
    <3>3. CASE ~InService(s)
          BY <1>0, <1>5, <3>1, <3>3 DEF Committed, ServiceInv
    <3> QED BY <3>2, <3>3
  <2>5. stage["host"] \in {"committing", "done"}
        BY <1>0, <2>4 DEF WasReady, Ours
  <2>6. stage'["host"] \in {"committing", "done"}
        BY <2>2, <2>5 DEF Party
  <2>7. TellsLast' /\ RepliesOnly'
        BY <2>6 DEF TellsLast, RepliesOnly
  <2>8. HostWaits'
    <3>1. \A p \in Party : Follows(p, 0, Notices)
      <4>1. \A p \in Party : p = s \/ p = Counterpart(s)
            BY DEF Party, Counterpart
      <4> QED BY <2>1, <4>1, ToldWires
    <3>2. \A m \in On("guest")' : m \in On("guest") \/ m.kind # "proposal"
          BY <3>1, OnFollows, NoticesPlain DEF Party
    <3>3. stage'["guest"] # "failed" => stage["guest"] # "failed"
          BY <1>1, <2>2 DEF Party
    <3> QED BY <1>0, <1>1, <2>5, <3>2, <3>3, NoProposals
  <2>9. Ours'
    <3>1. \A p \in Party :
              stage[p] \in {"committing", "done"} => stage'[p] \in {"committing", "done"}
          BY <2>2
    <3>2. \A x \in ready : x.party \in Party
          BY <1>0 DEF ReadyInv, Entries
    <3> QED BY <1>0, <1>1, <3>1, <3>2 DEF Ours
  <2>10. Agreed'
    <3>1. stage'["guest"] \in {"committing", "done"} => stage["guest"] \in {"committing", "done"}
          BY <1>1, <2>2 DEF Party
    <3> QED BY <1>0, <1>1, <2>6, <3>1 DEF Agreed
  <2> QED BY <2>3, <2>7, <2>8, <2>9, <2>10 DEF CalmInv
<1> QED BY <1>4, <1>5

LEMMA HostExchangeCalm ==
    ASSUME PairInv, CoreInv, CalmInv, Exchange("host")
    PROVE  CalmInv'
<1> DEFINE m == Received("host")
           k == stage["host"]
<1>0. SlotInv /\ RootInv /\ Placed /\ TellsLast /\ HostWaits /\ Ours /\ Agreed
      BY DEF CoreInv, CalmInv
<1>1. /\ "host" \in Party /\ "guest" \in Party /\ Counterpart("host") = "guest"
      /\ \A s \in Party : s = "host" \/ s = "guest"
      BY DEF Party, Counterpart
<1>2. /\ k \in {"up", "ke1", "ke3", "guestMAC", "hello", "identity"} /\ m.kind = k
      /\ Genuine("host", m)
      /\ stage'["host"] = After["host"][k] /\ stage'["guest"] = stage["guest"]
      /\ root'["guest"] = root["guest"]
      /\ k # "ke1" => root'["host"] = root["host"]
      /\ k = "ke1" => root'["host"] = [host |-> calls["host"], guest |-> m.body.call]
      /\ \A x \in On("guest")' : x \in On("guest") \/ x \in Answers("host")
      /\ UNCHANGED <<calls, code, ready, slot>>
      BY <1>0, <1>1, ExchangeDoes, Stages DEF RootAfter
<1>3. /\ HasFrame("host") /\ open' = open /\ wire'["host"] = Tail(wire["host"])
  <2>1. /\ Waiting("host") /\ HasFrame("host") /\ open' = open /\ m.kind = k
        /\ wire' = Sent("host", [wire EXCEPT !["host"] = Tail(@)], Answer("host"))
        BY DEF Exchange, Expected, Heard, Answer
  <2>2. /\ Answer("host") \in Seq(RoomFrame)
        /\ \A j \in DOMAIN Answer("host") : Answer("host")[j] \in RoomFrame
        BY <1>1, <2>1, AnswerTyped
  <2> QED BY <1>1, <2>1, <2>2, SentWires
<1>4. /\ k = "up" => stage'["host"] = "ke1"
      /\ k = "ke1" => stage'["host"] = "ke3"
      /\ k = "ke3" => stage'["host"] = "guestMAC"
      /\ k = "guestMAC" => stage'["host"] = "hello"
      /\ k = "hello" => stage'["host"] = "identity"
      /\ k = "identity" => stage'["host"] = "offering"
      BY <1>2 DEF After
<1>5. /\ Follows("host", 1, {})
      /\ Len(wire'["host"]) = Len(wire["host"]) - 1 /\ Len(wire["host"]) \in Nat
      BY <1>1, <1>3, Shifts, WireTyped DEF HasFrame
<1>6. m = wire["host"][1] /\ 1 \in DOMAIN wire["host"]
      BY <1>1, <1>3, HeadOn
<1> HIDE DEF m
<1>7. Placed'
      BY <1>0, <1>1, <1>2, <1>3, Insides, PlacedStays
\* Nobody has the secret of this call before the host has answered.
<1>8. k = "ke1" => ~Beside'
  <2>1. k = "ke1" => root["host"] = Unset
        BY <1>0, <1>1, Roots DEF RootInv
  <2>2. k = "ke1" /\ root["guest"] # Unset => root["guest"]["host"] # calls["host"]
        BY <1>0, <2>1 DEF RootInv
  <2>3. k = "ke1" => root'["host"] # Unset
        BY <1>0, <1>1, ExchangeDoes, PairingAssumption
  <2> QED BY <1>2, <2>2, <2>3 DEF Beside
<1>9. k # "ke1" => (Beside' <=> Beside)
      BY <1>2 DEF Beside
<1>10. TellsLast'
  <2>1. CASE stage'["host"] = "ke1" \/ k = "identity" \/ k = "ke1"
        BY <1>4, <1>8, <2>1, Roots DEF TellsLast
  <2>2. CASE k \in {"ke3", "guestMAC", "hello"}
    <3>1. ASSUME Beside', NEW i \in DOMAIN wire'["host"], wire'["host"][i].kind = "identity",
                 wire'["host"][i].body.root = root'["host"]
          PROVE  i = Len(wire'["host"])
      <4>1. i \in Nat /\ i + 1 \in DOMAIN wire["host"] /\ wire'["host"][i] = wire["host"][i + 1]
            BY <1>5 DEF Follows
      <4>2. Beside /\ k \in Rooted("host") \ {"offering", "proposed", "committing", "done"}
            BY <1>9, <2>2, <3>1, Roots
      <4>3. i + 1 = Len(wire["host"])
            BY <1>0, <1>2, <2>2, <3>1, <4>1, <4>2 DEF TellsLast
      <4> QED BY <1>5, <4>1, <4>3
    <3> QED BY <3>1 DEF TellsLast
  <2> QED BY <1>2, <1>4, <2>1, <2>2
<1>11. RepliesOnly'
  <2>1. ASSUME k = "identity", Beside'
        PROVE  On("host")' = {}
    <3>1. Beside /\ k \in Rooted("host") \ {"offering", "proposed", "committing", "done"}
          BY <1>9, <2>1, Roots
    <3>2. m.body.root = root["host"]
          BY <1>2, <2>1 DEF Genuine
    <3>3. Len(wire["host"]) = 1
          BY <1>0, <1>2, <1>6, <2>1, <3>1, <3>2 DEF TellsLast
    <3>4. ASSUME NEW i \in DOMAIN wire'["host"]
          PROVE  FALSE
      <4>1. Len(wire'["host"]) = 0
            BY <1>5, <3>3
      <4>2. DOMAIN wire'["host"] = 1..Len(wire'["host"])
        <5>1. wire["host"] \in Seq(RoomFrame) /\ wire["host"] # <<>>
              BY <1>1, <1>3, WireTyped DEF HasFrame
        <5> QED BY <1>3, <5>1
      <4> QED BY <3>4, <4>1, <4>2
    <3> QED BY <3>4 DEF On
  <2> QED BY <1>2, <1>4, <2>1 DEF RepliesOnly
<1>12. HostWaits'
  <2>1. \A x \in Answers("host") : x.kind # "proposal"
    <3>1. Kinds("host", k) \subseteq {"ke2", "hostMAC", "hello", "identity"}
          BY <1>2, HostKinds
    <3> HIDE DEF k
    <3> QED BY <3>1 DEF Answers, Framed, k
  <2>2. k # "proposed"
        BY <1>2
  <2> QED BY <1>0, <1>2, <2>1, <2>2, NoProposals
<1>13. Ours' /\ Agreed'
  <2>1. stage["guest"] \notin {"committing", "done"}
        BY <1>0, <1>2 DEF Agreed
  <2> QED BY <1>0, <1>2, <2>1, NoneTaken
<1> QED BY <1>7, <1>10, <1>11, <1>12, <1>13 DEF CalmInv

LEMMA GuestExchangeCalm ==
    ASSUME PairInv, CoreInv, CalmInv, Exchange("guest")
    PROVE  CalmInv'
<1> DEFINE m == Received("guest")
           k == stage["guest"]
           id == Framed("identity", Body("guest", root["guest"]))
<1>0. /\ SlotInv /\ RootInv /\ MetInv
      /\ Placed /\ TellsLast /\ RepliesOnly /\ HostWaits /\ Ours /\ Agreed
      BY DEF CoreInv, CalmInv
<1>1. /\ "host" \in Party /\ "guest" \in Party /\ Counterpart("guest") = "host"
      /\ \A s \in Party : s = "host" \/ s = "guest"
      BY DEF Party, Counterpart
<1>2. /\ k \in {"up", "ke2", "hostMAC", "hello", "identity"} /\ m.kind = k
      /\ Genuine("guest", m)
      /\ stage'["guest"] = After["guest"][k] /\ stage'["host"] = stage["host"]
      /\ root'["host"] = root["host"]
      /\ k # "ke2" => root'["guest"] = root["guest"]
      /\ k = "ke2" => root'["guest"] = m.body.root /\ root'["guest"] \in Root
      /\ On("guest")' \subseteq On("guest")
      /\ UNCHANGED <<calls, code, ready, slot>>
  <2>1. /\ k \in DOMAIN After["guest"] /\ m.kind = k /\ Genuine("guest", m)
        /\ stage'["guest"] = After["guest"][k] /\ stage'["host"] = stage["host"]
        /\ root'["guest"] = RootAfter("guest", m) /\ root'["host"] = root["host"]
        /\ k \in {"ke1", "ke2"} => root'["guest"] \in Root
        /\ k \notin {"ke1", "ke2"} => root'["guest"] = root["guest"]
        /\ On("guest")' \subseteq On("guest")
        /\ UNCHANGED <<calls, code, ready, slot>>
        BY <1>0, <1>1, ExchangeDoes
  <2>2. k \in {"up", "ke2", "hostMAC", "hello", "identity"}
        BY <2>1, Stages
  <2>3. k = "ke2" => RootAfter("guest", m) = m.body.root
        BY <2>1 DEF RootAfter
  <2> HIDE DEF m, k
  <2> QED BY <2>1, <2>2, <2>3
<1>3. /\ Waiting("guest") /\ HasFrame("guest") /\ open' = open
      /\ wire'["host"] = IF InTouch("guest") THEN wire["host"] \o Answer("guest") ELSE wire["host"]
      /\ Answer("guest") \in Seq(RoomFrame)
  <2>1. /\ Waiting("guest") /\ HasFrame("guest") /\ open' = open /\ m.kind = k
        /\ wire' = Sent("guest", [wire EXCEPT !["guest"] = Tail(@)], Answer("guest"))
        BY DEF Exchange, Expected, Heard, Answer
  <2>2. /\ Answer("guest") \in Seq(RoomFrame)
        /\ \A j \in DOMAIN Answer("guest") : Answer("guest")[j] \in RoomFrame
        BY <1>1, <2>1, AnswerTyped
  <2> QED BY <1>1, <2>1, <2>2, SentWires
<1>4. /\ k = "up" => stage'["guest"] = "ke2"
      /\ k = "ke2" => stage'["guest"] = "hostMAC"
      /\ k = "hostMAC" => stage'["guest"] = "hello"
      /\ k = "hello" => stage'["guest"] = "identity"
      /\ k = "identity" => stage'["guest"] = "listening"
      BY <1>2 DEF After
<1>5. k \in {"up", "ke2"} => root["guest"] = Unset
      BY <1>0, <1>1, Roots DEF RootInv
<1>6. k = "ke2" => m.body.root["guest"] = calls["guest"]
      BY <1>2 DEF Genuine
<1>7. k = "hello" => Answer("guest") = <<id>>
  <2>1. ASSUME k = "hello"
        PROVE  Answer("guest") = <<id>>
    <3>1. Reply["guest"]["hello"] = <<"identity">>
          BY DEF Reply
    <3>2. RootAfter("guest", m) = root["guest"]
          BY <1>2, <2>1 DEF RootAfter
    <3>3. Answer("guest") = [i \in DOMAIN <<"identity">> |->
              Framed(<<"identity">>[i], Body("guest", root["guest"]))]
          BY <1>2, <2>1, <3>1, <3>2 DEF Answer
    <3>4. DOMAIN <<"identity">> = 1..1 /\ \A i \in 1..1 : <<"identity">>[i] = "identity"
          OBVIOUS
    <3>5. DOMAIN Answer("guest") = 1..1 /\ Answer("guest")[1] = id
          BY <3>3, <3>4
    <3> DEFINE q == Answer("guest")
    <3>6. q \in Seq(RoomFrame) /\ DOMAIN q = 1..1 /\ q[1] = id
          BY <1>3, <3>5
    <3> HIDE DEF q, id
    <3>7. Len(q) = 1 /\ q = <<id>>
          BY <3>6
    <3> QED BY <3>7 DEF q
  <2> QED BY <2>1
<1>8. k = "identity" => wire'["host"] = wire["host"]
  <2>1. ASSUME k = "identity"
        PROVE  wire["host"] \o Answer("guest") = wire["host"]
    <3>1. Reply["guest"]["identity"] = <<>>
          BY DEF Reply
    <3>2. DOMAIN Answer("guest") = {}
          BY <1>2, <2>1, <3>1 DEF Answer
    <3> DEFINE q == Answer("guest")
               w == wire["host"]
    <3>3. q \in Seq(RoomFrame) /\ DOMAIN q = {} /\ w \in Seq(RoomFrame)
          BY <1>1, <1>3, <3>2, WireTyped
    <3> HIDE DEF q, w
    <3>4. q = <<>> /\ w \o <<>> = w
          BY <3>3
    <3> QED BY <3>4 DEF q, w
  <2> QED BY <1>3, <2>1
<1>9. \A x \in Answers("guest") : x.kind = "identity" => k = "hello"
  <2>1. "identity" \in Kinds("guest", k) => k = "hello"
        BY <1>2, GuestKinds
  <2> HIDE DEF k
  <2> QED BY <2>1 DEF Answers, Framed, k
<1> HIDE DEF m
<1>10. Placed'
      BY <1>0, <1>1, <1>2, <1>3, Insides, PlacedStays
\* What a host has that is beside the guest after this step.
<1>11. Beside' /\ stage["host"] \in Rooted("host") =>
          /\ k # "up" /\ root["host"] \in Root /\ root["host"]["guest"] = calls["guest"]
          /\ k # "ke2" => Beside
          /\ stage["host"] # "ke3" => k # "ke2"
  <2>1. ASSUME Beside', stage["host"] \in Rooted("host")
        PROVE  /\ k # "up" /\ root["host"] \in Root /\ root["host"]["guest"] = calls["guest"]
               /\ k # "ke2" => Beside
               /\ stage["host"] # "ke3" => k # "ke2"
    <3>1. root["host"] \in Root /\ root["host"] # Unset /\ root'["guest"] = root["host"]
          BY <1>1, <1>2, <2>1, RootedSet DEF Beside
    <3>2. k # "up"
          BY <1>2, <1>5, <3>1
    <3>3. root["host"]["guest"] = calls["guest"]
      <4>1. CASE k = "ke2"
            BY <1>2, <1>6, <3>1, <4>1
      <4>2. CASE k # "ke2"
            BY <1>0, <1>1, <1>2, <3>1, <4>2 DEF RootInv
      <4> QED BY <4>1, <4>2
    <3>4. k # "ke2" => Beside
          BY <1>2, <3>1 DEF Beside
    <3>5. stage["host"] # "ke3" => k # "ke2"
          BY <1>0, <1>5, <2>1, <3>1, <3>3 DEF MetInv
    <3> QED BY <3>1, <3>2, <3>3, <3>4, <3>5
  <2> QED BY <2>1
<1>12. TellsLast'
  <2>1. ASSUME Beside',
               stage["host"] \in Rooted("host") \ {"offering", "proposed", "committing", "done"},
               NEW i \in DOMAIN wire'["host"], wire'["host"][i].kind = "identity",
               wire'["host"][i].body.root = root["host"]
        PROVE  i = Len(wire'["host"])
    <3>1. k # "up" /\ root["host"]["guest"] = calls["guest"] /\ (k # "ke2" => Beside)
          BY <1>11, <2>1
    <3>2. k # "identity" =>
              \A x \in On("host") : ~(x.kind = "identity" /\ x.body.root = root["host"])
          BY <1>0, <1>2, <3>1 DEF MetInv
    <3>3. wire'["host"][i] \in On("host")'
          BY DEF On
    <3>4. CASE k \in {"ke2", "hostMAC"}
      <4>1. wire'["host"][i] \in On("host") \/ wire'["host"][i] \in Answers("guest")
            BY <1>0, <1>1, <3>3, ExchangeDoes
      <4> QED BY <1>9, <2>1, <3>2, <3>4, <4>1
    <3>5. CASE k = "hello"
      <4>1. CASE InTouch("guest")
        <5>1. wire'["host"] = wire["host"] \o <<id>>
              BY <1>3, <1>7, <3>5, <4>1
        <5>2. id \in RoomFrame
          <6>1. <<id>> \in Seq(RoomFrame)
                BY <1>3, <1>7, <3>5
          <6> HIDE DEF id
          <6> QED BY <6>1
        <5> HIDE DEF id
        <5>3. /\ Len(wire'["host"]) = Len(wire["host"]) + 1
              /\ DOMAIN wire'["host"] = 1..(Len(wire["host"]) + 1)
              /\ \A j \in DOMAIN wire["host"] : wire'["host"][j] = wire["host"][j]
              BY <1>1, <5>1, <5>2, Last
        <5>4. DOMAIN wire["host"] = 1..Len(wire["host"]) /\ Len(wire["host"]) \in Nat
              BY <1>1, WireTyped
        <5>5. i \notin DOMAIN wire["host"]
              BY <2>1, <3>2, <3>5, <5>3 DEF On
        <5> QED BY <5>3, <5>4, <5>5
      <4>2. CASE ~InTouch("guest")
            BY <1>3, <2>1, <3>2, <3>5, <4>2 DEF On
      <4> QED BY <4>1, <4>2
    <3>6. CASE k = "identity"
          BY <1>0, <1>8, <2>1, <3>1, <3>6 DEF TellsLast
    <3> QED BY <1>2, <3>1, <3>4, <3>5, <3>6
  <2> QED BY <1>2, <2>1 DEF TellsLast
<1>13. RepliesOnly'
  <2>1. ASSUME Beside', stage["host"] \in {"offering", "proposed"}
        PROVE  Beside /\ k = "identity"
    <3>1. stage["host"] \in Rooted("host") /\ stage["host"] # "ke3" /\ Speaks
          BY <2>1, Roots DEF Speaks
    <3>2. k \notin {"up", "ke2"} /\ root["host"]["guest"] = calls["guest"] /\ Beside
          BY <1>11, <2>1, <3>1
    <3> QED BY <1>0, <1>2, <3>1, <3>2 DEF MetInv
  <2>2. k = "identity" => On("host")' = On("host") /\ root'["guest"] = root["guest"]
        BY <1>2, <1>8 DEF On
  <2> QED BY <1>0, <1>2, <2>1, <2>2 DEF RepliesOnly, Body
<1>14. HostWaits'
  <2>1. ASSUME NEW x \in On("guest"), x.kind = "proposal", x.body.root["guest"] = calls["guest"]
        PROVE  /\ stage["host"] = "proposed" /\ root["host"] = x.body.root
               /\ root'["guest"] = x.body.root
    <3>1. /\ stage["host"] = "proposed" /\ root["host"] = x.body.root
          /\ root["guest"] = x.body.root
          BY <1>0, <1>2, <2>1 DEF HostWaits
    <3>2. root["host"] # Unset
          BY <1>1, <3>1, Roots, RootedSet
    <3> QED BY <1>2, <1>5, <3>1, <3>2
  <2> QED BY <1>2, <2>1 DEF HostWaits
<1>15. Ours' /\ Agreed'
      BY <1>0, <1>2, <1>4, NoneTaken
<1> QED BY <1>10, <1>12, <1>13, <1>14, <1>15 DEF CalmInv

LEMMA ProposeCalm ==
    ASSUME PairInv, CoreInv, CalmInv, NEW a \in RandomPairs(network), NEW free \in BOOLEAN,
           Propose(a, free)
    PROVE  CalmInv'
<1> DEFINE m == Spoken("host", "proposal", a)
<1>0. RootInv /\ MetInv /\ Placed /\ RepliesOnly /\ HostWaits /\ Ours /\ Agreed
      BY DEF CoreInv, CalmInv
<1>1. /\ "host" \in Party /\ "guest" \in Party /\ Counterpart("host") = "guest"
      /\ \A s \in Party : s = "host" \/ s = "guest"
      BY DEF Party, Counterpart
<1>2. /\ stage["host"] = "offering"
      /\ UNCHANGED <<calls, code, root, ready, open, slot>>
      BY DEF Propose
<1>3. CASE ~free
  <2>1. UNCHANGED <<stage, wire, offer>>
        BY <1>3 DEF Propose
  <2> QED BY <1>2, <2>1, SameCalm
<1>4. CASE free
  <2>1. /\ stage' = [stage EXCEPT !["host"] = "proposed"] /\ wire' = Sent("host", wire, <<m>>)
        BY <1>4 DEF Propose
  <2>2. stage'["host"] = "proposed" /\ stage'["guest"] = stage["guest"]
        BY <1>1, <2>1, Named, Staged
  <2>3. a \in Proposals
        BY Typed DEF ServiceTyped, Proposals
  <2>4. m \in RoomFrame
        BY <1>1, <1>2, <2>3, SpokenTyped DEF Addressing
  <2>5. root["host"] \in Root /\ m.body.root = root["host"]
        BY <1>1, <1>2, SpokenRoots DEF Addressing
  <2>6. /\ \A x \in On("guest")' : x \in On("guest") \/ x = m
        /\ On("host")' = On("host")
        BY <1>1, <2>1, <2>4, SendWires
  <2> HIDE DEF m
  <2>7. Placed'
        BY <1>0, <1>1, <1>2, <2>2, Insides, PlacedStays
  <2>8. TellsLast'
        BY <2>2 DEF TellsLast
  <2>9. RepliesOnly'
        BY <1>0, <1>2, <2>2, <2>6 DEF RepliesOnly, Beside, Body
  <2>10. HostWaits'
    <3>1. ASSUME NEW x \in On("guest"), stage["guest"] # "failed"
          PROVE  ~(x.kind = "proposal" /\ x.body.root["guest"] = calls["guest"])
          BY <1>0, <1>2, <3>1 DEF HostWaits
    <3>2. root["host"]["guest"] = calls["guest"] => root["guest"] = root["host"]
          BY <1>0, <1>2, Roots DEF MetInv
    <3> QED BY <1>2, <2>2, <2>5, <2>6, <3>1, <3>2 DEF HostWaits
  <2>11. Ours' /\ Agreed'
    <3>1. stage["guest"] \notin {"committing", "done"}
          BY <1>0, <1>2 DEF Agreed
    <3> QED BY <1>0, <1>2, <2>2, <3>1, NoneTaken
  <2> QED BY <2>7, <2>8, <2>9, <2>10, <2>11 DEF CalmInv
<1> QED BY <1>3, <1>4

\* The guest that accepts a proposal is heard by a host that waits for nothing else.
LEMMA ConsiderCalm ==
    ASSUME PairInv, CoreInv, CalmInv, NEW free \in BOOLEAN, Consider(free)
    PROVE  CalmInv'
<1> DEFINE m == Received("guest")
           t == Spoken("guest", "reply", free)
           e == [party |-> "guest", root |-> root["guest"], code |-> code["guest"],
                 addresses |-> m.says]
<1>0. TurnInv /\ RootInv /\ Placed /\ RepliesOnly /\ HostWaits /\ Ours /\ Agreed
      BY DEF CoreInv, CalmInv
<1>1. /\ "host" \in Party /\ "guest" \in Party /\ Counterpart("guest") = "host"
      /\ \A s \in Party : s = "host" \/ s = "guest"
      BY DEF Party, Counterpart
<1>2. /\ stage["guest"] = "listening" /\ Heard("guest", "proposal")
      /\ wire' = Sent("guest", [wire EXCEPT !["guest"] = Tail(@)], <<t>>)
      /\ IF free
           THEN /\ stage' = [stage EXCEPT !["guest"] = "committing"]
                /\ ready' = ready \cup {e}
           ELSE UNCHANGED <<stage, ready>>
      /\ UNCHANGED <<calls, code, root, open, slot>>
      BY DEF Consider, Prepared
<1>3. HasFrame("guest") /\ m.kind = "proposal" /\ m.body.root = root["guest"]
      BY <1>2 DEF Heard, Genuine
<1>4. /\ root["guest"]["guest"] = calls["guest"]
      /\ t.kind = "reply" /\ t.says = free /\ t.body = Body("guest", root["guest"])
      BY <1>1, <1>2, SpokenRoots DEF Addressing
<1>5. t \in RoomFrame
      BY <1>1, <1>2, SpokenTyped DEF Addressing
<1>6. /\ m \in On("guest") /\ m = wire["guest"][1] /\ 1 \in DOMAIN wire["guest"]
      BY <1>1, <1>3, HeadOn
<1>7. e.party = "guest" /\ e.root = root["guest"]
      OBVIOUS
<1> HIDE DEF m, t, e
<1>8. /\ On("guest")' \subseteq On("guest")
      /\ wire'["host"] = IF InTouch("guest") THEN wire["host"] \o <<t>> ELSE wire["host"]
      /\ \A x \in On("host")' : x \in On("host") \/ (x \in {t} /\ InTouch("guest"))
  <2>1. <<t>> \in Seq(RoomFrame) /\ \A j \in DOMAIN <<t>> : <<t>>[j] \in {t}
        BY <1>5, OneFrame
  <2>2. wire' = Sent("guest", [wire EXCEPT !["guest"] = Tail(@)], <<t>>)
        BY <1>2
  <2>3. HasFrame("guest") /\ "guest" \in Party
        BY <1>1, <1>3
  <2> QED BY <1>1, <2>1, <2>2, <2>3, SentWires
<1>9. /\ stage'["host"] = stage["host"]
      /\ stage'["guest"] = IF free THEN "committing" ELSE "listening"
      BY <1>1, <1>2, Named, Staged
<1>10. stage["host"] = "proposed" /\ root["host"] = root["guest"] /\ Beside
      BY <1>0, <1>2, <1>3, <1>4, <1>6 DEF HostWaits, Beside
<1>11. root["host"] # Unset /\ code["host"] = code["guest"]
  <2>1. root["host"] # Unset
        BY <1>1, <1>10, Roots, RootedSet
  <2> QED BY <1>10, <2>1, OneCode
<1>12. Placed'
      BY <1>0, <1>1, <1>2, <1>9, Insides, PlacedStays
<1>13. TellsLast'
      BY <1>9, <1>10 DEF TellsLast
<1>14. RepliesOnly'
  <2>1. \A x \in On("host")' : x.kind = "reply" /\ x.body = Body("guest", root["guest"])
        BY <1>0, <1>4, <1>8, <1>10 DEF RepliesOnly
  <2>2. Body("guest", root["guest"])' = Body("guest", root["guest"])
        BY <1>2 DEF Body
  <2> QED BY <2>1, <2>2 DEF RepliesOnly
<1>15. HostWaits'
      BY <1>0, <1>2, <1>8, <1>9 DEF HostWaits
<1>16. ready = {}
      BY <1>0, <1>2, NoneReady
<1>17. CASE ~free
  <2>1. Ours' /\ Agreed'
        BY <1>0, <1>2, <1>9, <1>17, NoneTaken
  <2> QED BY <1>12, <1>13, <1>14, <1>15, <2>1 DEF CalmInv
<1>18. CASE free
  <2>1. Ours'
        BY <1>2, <1>7, <1>9, <1>16, <1>18 DEF Ours
  \* Both are in the room, and nothing is on the way to the host.
  <2>2. InTouch("guest")
    <3>1. /\ InRoom("host") /\ InRoom("guest") /\ code["guest"].room \in Room
          BY <1>0, <1>1, <1>2, <1>10, Insides, InsideCoded DEF Placed
    <3>2. slot[code["guest"].room] \subseteq Party
          BY <3>1, SlotTyped
    <3> QED BY <1>1, <1>11, <3>1, <3>2 DEF InTouch, InRoom
  <2>3. DOMAIN wire["host"] = {}
    <3>1. Says("guest", "proposal", 1)
          BY <1>3, <1>6, <1>10 DEF Says
    <3>2. ASSUME NEW i \in DOMAIN wire["host"]
          PROVE  FALSE
      <4>1. wire["host"][i].kind = "reply" /\ wire["host"][i].body = Body("guest", root["guest"])
            BY <1>0, <1>10, <3>2 DEF RepliesOnly, On
      <4>2. Says("host", "reply", i)
            BY <1>10, <4>1 DEF Says, Body
      <4> QED BY <1>0, <1>6, <1>10, <3>1, <3>2, <4>2 DEF TurnInv
    <3> QED BY <3>2
  <2>4. Len(wire["host"]) = 0
    <3> DEFINE q == wire["host"]
    <3>1. q \in Seq(RoomFrame) /\ DOMAIN q = {} /\ DOMAIN q = 1..Len(q) /\ Len(q) \in Nat
          BY <1>1, <2>3, WireTyped
    <3> HIDE DEF q
    <3>2. q = <<>>
          BY <3>1
    <3> QED BY <3>2 DEF q
  <2>5. /\ Len(wire'["host"]) = 1 /\ wire'["host"][1] = t /\ 1 \in DOMAIN wire'["host"]
    <3>1. wire'["host"] = wire["host"] \o <<t>>
          BY <1>8, <2>2
    <3> QED BY <1>1, <1>5, <2>4, <3>1, Last
  <2>6. Received("host")' = t /\ HasFrame("host")'
    <3> DEFINE q == wire'["host"]
    <3>1. q = wire["host"] \o <<t>> /\ wire["host"] \in Seq(RoomFrame) /\ Len(q) = 1 /\ q[1] = t
          BY <1>1, <1>8, <2>2, <2>5, WireTyped
    <3>2. q \in Seq(RoomFrame)
          BY <1>5, <3>1
    <3> HIDE DEF q
    <3>3. q # <<>> /\ Head(q) = t
          BY <3>1, <3>2
    <3> QED BY <3>3 DEF q, Received, HasFrame
  <2>7. Genuine("host", Received("host"))'
    <3> DEFINE x == Received("host")'
    <3>1. x.body.root = root'["host"] /\ x.body.secret = code'["host"].secret /\ x.kind = "reply"
          BY <1>2, <1>4, <1>10, <1>11, <2>6 DEF Body
    <3> QED BY <3>1 DEF Genuine
  <2>8. ReplyComes'
        BY <1>4, <1>18, <2>5, <2>6, <2>7 DEF ReplyComes, Heard
  <2>9. Agreed'
        BY <1>2, <1>9, <1>10, <2>8 DEF Agreed
  <2> QED BY <1>12, <1>13, <1>14, <1>15, <2>1, <2>9 DEF CalmInv
<1> QED BY <1>17, <1>18

LEMMA HearReplyCalm ==
    ASSUME PairInv, CoreInv, CalmInv, HearReply
    PROVE  CalmInv'
<1> DEFINE m == Received("host")
           e == Entry("host", "host")
<1>0. TurnInv /\ RootInv /\ ReadyInv /\ Placed /\ RepliesOnly /\ HostWaits /\ Ours /\ Agreed
      BY DEF CoreInv, CalmInv
<1>1. /\ "host" \in Party /\ "guest" \in Party /\ Counterpart("host") = "guest"
      /\ \A s \in Party : s = "host" \/ s = "guest"
      BY DEF Party, Counterpart
<1>2. /\ stage["host"] = "proposed" /\ Heard("host", "reply")
      /\ wire' = [wire EXCEPT !["host"] = Tail(@)]
      /\ IF m.says
           THEN /\ stage' = [stage EXCEPT !["host"] = "committing"] /\ ready' = ready \cup {e}
           ELSE /\ stage' = [stage EXCEPT !["host"] = "offering"] /\ ready' = ready
      /\ UNCHANGED <<calls, code, root, open, slot>>
      BY DEF HearReply, Prepared, Entry
<1>3. HasFrame("host") /\ m.kind = "reply" /\ m.body.root = root["host"]
      BY <1>2 DEF Heard, Genuine
<1>4. m \in On("host") /\ m = wire["host"][1] /\ 1 \in DOMAIN wire["host"]
      BY <1>1, <1>3, HeadOn
<1>5. wire'["host"] = Tail(wire["host"]) /\ wire'["guest"] = wire["guest"]
      BY <1>1, <1>2, Typed
<1>6. On("host")' \subseteq On("host") /\ On("guest")' = On("guest")
  <2>1. Follows("host", 1, {})
        BY <1>1, <1>3, <1>5, Shifts DEF HasFrame
  <2>2. On("host")' \subseteq On("host")
        BY <1>1, <2>1, OnFollows
  <2> QED BY <1>5, <2>2 DEF On
<1>7. /\ stage'["guest"] = stage["guest"]
      /\ stage'["host"] = IF m.says THEN "committing" ELSE "offering"
      BY <1>1, <1>2, Named, Staged
<1>8. ReplyComes => m.says
      BY DEF ReplyComes
<1>9. e.party = "host" /\ e.root = root["host"]
      BY DEF Entry
<1> HIDE DEF m, e
<1>10. Placed'
      BY <1>0, <1>1, <1>2, <1>7, Insides, PlacedStays
<1>11. TellsLast'
      BY <1>7 DEF TellsLast
<1>12. RepliesOnly'
      BY <1>0, <1>2, <1>6, <1>7 DEF RepliesOnly, Beside, Body
<1>13. HostWaits'
  <2>1. Says("host", "reply", 1)
        BY <1>3, <1>4 DEF Says
  <2>2. \A i \in DOMAIN wire["guest"] : ~Says("guest", "proposal", i)
        BY <1>0, <1>2, <1>4, <2>1 DEF TurnInv
  <2>3. ASSUME stage["guest"] # "failed", NEW i \in DOMAIN wire["guest"],
               wire["guest"][i].kind = "proposal",
               wire["guest"][i].body.root["guest"] = calls["guest"]
        PROVE  FALSE
    <3>1. root["host"] = wire["guest"][i].body.root
          BY <1>0, <2>3 DEF HostWaits, On
    <3> QED BY <2>2, <2>3, <3>1 DEF Says
  <2> QED BY <1>2, <1>6, <1>7, <2>3 DEF HostWaits, On
<1>14. CASE m.says
  <2>1. Entry("guest", "host") \in ready
        BY <1>0, <1>2, <1>3, <1>4, <1>14 DEF TurnInv, Says
  <2>2. root["host"] = root["guest"] /\ stage["guest"] \in {"committing", "done"}
    <3>1. Entry("guest", "host").party = "guest" /\ Entry("guest", "host").root = root["host"]
          BY DEF Entry
    <3> QED BY <1>0, <2>1, <3>1 DEF Ours
  <2>3. Ours'
    <3>1. \A x \in ready : x.party \in Party
          BY <1>0 DEF ReadyInv, Entries
    <3> QED BY <1>0, <1>1, <1>2, <1>7, <1>9, <1>14, <3>1 DEF Ours
  <2>4. Agreed'
        BY <1>2, <1>7, <1>14, <2>2 DEF Agreed
  <2> QED BY <1>10, <1>11, <1>12, <1>13, <2>3, <2>4 DEF CalmInv
<1>15. CASE ~m.says
  <2>1. stage["guest"] \notin {"committing", "done"}
        BY <1>0, <1>2, <1>8, <1>15 DEF Agreed
  <2>2. Ours' /\ Agreed'
        BY <1>0, <1>2, <1>7, <1>15, <2>1, NoneTaken
  <2> QED BY <1>10, <1>11, <1>12, <1>13, <2>2 DEF CalmInv
<1> QED BY <1>14, <1>15

\* As long as nothing is lost.
LEMMA CalmPreserved ==
    PairInv /\ CoreInv /\ CalmInv /\ mishaps' = mishaps /\ [PairingNext]_pairingVars => CalmInv'
<1> SUFFICES ASSUME PairInv, CoreInv, CalmInv, mishaps' = mishaps, [PairingNext]_pairingVars
             PROVE  CalmInv'
    OBVIOUS
<1>0. /\ "host" \in Party /\ \A s \in Party : s = "host" \/ s = "guest"
      /\ ~Mishap
  <2>1. mishaps \in Nat
        BY PairingAssumption DEF PairInv, PairingTypeOK
  <2> QED BY <2>1 DEF Party, Mishap
<1>1. ASSUME NEW s \in Party, Working(s) \/ TimesOut(s) \/ SocketLost(s) \/ AnswerLost(s)
      PROVE  CalmInv'
  <2>1. ~SocketLost(s) /\ ~AnswerLost(s)
        BY <1>0 DEF SocketLost, AnswerLost
  <2>2. TimesOut(s) => Abandoned(s)
        BY <1>0 DEF TimesOut
  <2>3. CASE EnterFails(s) \/ Disturbed(s) \/ NegotiationFails(s) \/ TimesOut(s)
        BY <2>2, <2>3, EndingsCalm
  <2>4. CASE Exchange(s)
        BY <1>0, <2>4, HostExchangeCalm, GuestExchangeCalm
  <2> QED BY <1>1, <2>1, <2>3, <2>4, EnterCalm, SubmitCalm DEF Working
<1>2. CASE HostWorks
  <2>1. CASE RoomRefused \/ NetworkRefused
        BY <1>0, <2>1, EndingsCalm
  <2> QED BY <1>2, <2>1, CreateRoomCalm, HearReplyCalm, ProposeCalm DEF HostWorks
<1>3. CASE GuestWorks
      BY <1>3, ConsiderCalm DEF GuestWorks
<1>4. ASSUME NEW c \in Code, BeginGuest(c) \/ \E n \in Networks : BeginHost(c, n)
      PROVE  CalmInv'
      BY <1>4, BeginGuestCalm, BeginHostCalm
<1>5. ASSUME NEW room \in Room, RoomExpires(room)
      PROVE  CalmInv'
      BY <1>0, <1>5 DEF RoomExpires
<1>6. CASE UNCHANGED pairingVars
      BY <1>6, SameCalm DEF pairingVars, callVars, serviceVars
<1> QED BY <1>1, <1>2, <1>3, <1>4, <1>5, <1>6 DEF PairingNext

\* Mishaps are only counted up.
LEMMA MishapsGrow ==
    ASSUME PairInv, [PairingNext]_pairingVars, mishaps' = 0
    PROVE  mishaps = 0
<1>1. mishaps \in Nat
      BY PairingAssumption DEF PairInv, PairingTypeOK
<1>2. Mishap => mishaps' # 0
      BY <1>1 DEF Mishap
<1>3. mishaps' = mishaps \/ Mishap
  <2>1. ASSUME NEW s \in Party, Working(s) \/ TimesOut(s) \/ SocketLost(s) \/ AnswerLost(s)
        PROVE  mishaps' = mishaps \/ Mishap
    <3>1. CASE Enter(s) \/ Exchange(s) \/ Submit(s)
          BY <3>1 DEF Enter, Exchange, Submit
    <3>2. CASE EnterFails(s) \/ Disturbed(s) \/ NegotiationFails(s)
          BY <3>2 DEF EnterFails, Disturbed, NegotiationFails
    <3>3. CASE TimesOut(s) \/ SocketLost(s) \/ AnswerLost(s)
          BY <3>3 DEF TimesOut, SocketLost, AnswerLost
    <3> QED BY <2>1, <3>1, <3>2, <3>3 DEF Working
  <2>2. CASE HostWorks \/ GuestWorks
        BY <2>2 DEF HostWorks, GuestWorks, CreateRoom, RoomRefused, NetworkRefused, HearReply,
                    Propose, Consider
  <2>3. ASSUME NEW c \in Code, BeginGuest(c) \/ \E n \in Networks : BeginHost(c, n)
        PROVE  mishaps' = mishaps
        BY <2>3 DEF BeginGuest, BeginHost
  <2>4. ASSUME NEW room \in Room, RoomExpires(room)
        PROVE  Mishap
        BY <2>4 DEF RoomExpires
  <2>5. CASE UNCHANGED pairingVars
        BY <2>5 DEF pairingVars
  <2> QED BY <2>1, <2>2, <2>3, <2>4, <2>5 DEF PairingNext
<1> QED BY <1>2, <1>3

LEMMA AgreePreserved == PairInv /\ AgreeInv /\ [PairingNext]_pairingVars => AgreeInv'
<1> SUFFICES ASSUME PairInv, AgreeInv, [PairingNext]_pairingVars PROVE AgreeInv'
    OBVIOUS
<1>1. CoreInv'
      BY CorePreserved DEF AgreeInv
<1>2. mishaps' = 0 => CalmInv'
      BY CalmPreserved, MishapsGrow DEF AgreeInv
<1> QED BY <1>1, <1>2 DEF AgreeInv

LEMMA AgreeInitial == PairingInit => AgreeInv
<1> SUFFICES ASSUME PairingInit PROVE CalmInv
    BY CoreInitial DEF AgreeInv
<1>1. /\ ready = {} /\ "host" \in Party /\ "guest" \in Party
      /\ \A s \in Party : stage[s] = "idle" /\ wire[s] = <<>>
      BY DEF PairingInit, Party
<1>2. /\ \A s \in Party : stage[s] \notin Inside(s)
      /\ \A s \in Party : stage[s] \notin Rooted(s)
      /\ {"offering", "proposed"} \subseteq Rooted("host")
      BY <1>1, Insides, Roots DEF Party
<1>3. \A s \in Party : On(s) = {}
      BY <1>1 DEF On
<1> QED BY <1>1, <1>2, <1>3 DEF CalmInv, Placed, TellsLast, RepliesOnly, HostWaits, Ours, Agreed

-----------------------------------------------------------------------------
(* The addresses of a prefix.                                                *)

\* A set of numbers has a least element, unless it is empty.
LEMMA LeastNumber ==
    ASSUME NEW T, T \subseteq Nat, T # {}
    PROVE  \E x \in T : \A y \in T : x <= y
<1>1. PICK x \in T : \A y \in T : ~(<<y, x>> \in OpToRel(<, Nat))
      BY NatLessThanWellFounded, WFMin
<1>2. ASSUME NEW y \in T, y < x PROVE <<y, x>> \in OpToRel(<, Nat)
  <2>1. <<y, x>> \in Nat \X Nat /\ <<y, x>>[1] = y /\ <<y, x>>[2] = x
        OBVIOUS
  <2> QED BY <1>2, <2>1 DEF OpToRel
<1>3. \A y \in T : ~(y < x)
      BY <1>1, <1>2
<1> QED BY <1>3

\* A set that has zero, and with a number the next one, has every number.
LEMMA Induction ==
    ASSUME NEW S, 0 \in S, \A n \in Nat : n \in S => n + 1 \in S
    PROVE  \A n \in Nat : n \in S
<1> DEFINE T == {n \in Nat : n \notin S}
<1>1. SUFFICES ASSUME T # {} PROVE FALSE
      OBVIOUS
<1>2. PICK x \in T : \A y \in T : x <= y
  <2>1. T \subseteq Nat
        OBVIOUS
  <2> HIDE DEF T
  <2> QED BY <1>1, <2>1, LeastNumber
<1>3. x # 0 /\ x - 1 \in Nat
      BY <1>2
<1>4. x - 1 \in S
      BY <1>2, <1>3
<1> QED BY <1>2, <1>3, <1>4

\* The recursion of Block defines a function, which doubles with every bit.
LEMMA BlockDoubles ==
    /\ Block[0] = 1
    /\ \A k \in 1..Width : Block[k] = 2 * Block[k - 1]
    /\ \A k \in 0..Width : Block[k] \in Nat
<1> DEFINE Is(f, m) == f = [k \in 0..m |-> IF k = 0 THEN 1 ELSE 2 * f[k - 1]]
           S == {m \in Nat : \E f : Is(f, m)}
<1>1. 0 \in S
  <2>1. Is([k \in 0..0 |-> 1], 0)
        OBVIOUS
  <2> QED BY <2>1
<1>2. ASSUME NEW m \in Nat, m \in S PROVE m + 1 \in S
  <2>1. PICK f : Is(f, m)
        BY <1>2
  <2> DEFINE g == [k \in 0..(m + 1) |-> IF k = m + 1 THEN 2 * f[m] ELSE f[k]]
  <2>2. Is(g, m + 1)
    <3>1. ASSUME NEW k \in 0..(m + 1)
          PROVE  g[k] = IF k = 0 THEN 1 ELSE 2 * g[k - 1]
          BY <2>1
    <3>2. g = [k \in 0..(m + 1) |-> g[k]]
          OBVIOUS
    <3> HIDE DEF g
    <3> QED BY <3>1, <3>2
  <2> HIDE DEF g, Is
  <2> QED BY <2>2
<1>3. Width \in S
  <2> HIDE DEF S
  <2> QED BY <1>1, <1>2, Induction, PairingAssumption
<1>4. Block = [k \in 0..Width |-> IF k = 0 THEN 1 ELSE 2 * Block[k - 1]]
      BY <1>3 DEF Block
<1>5. 0 \in 0..Width /\ \A k \in 1..Width : k \in 0..Width /\ k # 0
      BY PairingAssumption
<1> DEFINE V == Block
<1>6. V[0] = 1 /\ \A k \in 1..Width : V[k] = 2 * V[k - 1]
  <2>1. V = [k \in 0..Width |-> IF k = 0 THEN 1 ELSE 2 * V[k - 1]]
        BY <1>4
  <2> HIDE DEF V
  <2> QED BY <1>5, <2>1
<1>7. \A k \in 0..Width : V[k] \in Nat
  <2> HIDE DEF V
  <2> DEFINE R == {m \in Nat : m <= Width => V[m] \in Nat}
  <2>1. 0 \in R
        BY <1>6
  <2>2. ASSUME NEW m \in Nat, m \in R PROVE m + 1 \in R
    <3>1. CASE m + 1 <= Width
      <4>1. m + 1 \in 1..Width /\ m <= Width /\ (m + 1) - 1 = m
            BY <3>1, PairingAssumption
      <4> QED BY <1>6, <2>2, <4>1
    <3>2. CASE ~(m + 1 <= Width)
          BY <3>2
    <3> QED BY <3>1, <3>2
  <2>3. \A m \in Nat : m \in R
    <3> HIDE DEF R
    <3> QED BY <2>1, <2>2, Induction
  <2> QED BY <2>3, PairingAssumption
<1> QED BY <1>6, <1>7

\* A prefix that is admitted holds blocks of four.
LEMMA BlocksOfFour ==
    ASSUME NEW n \in Networks, Admitted(n)
    PROVE  \E b \in Nat : Size(n) = 4 * b
<1>1. n.bits \in 0..Width /\ n.bits <= Width - 2 /\ Width \in Nat
      BY PairingAssumption DEF Admitted
<1> DEFINE k == Width - n.bits
<1>2. /\ k \in 1..Width /\ k - 1 \in 1..Width /\ (k - 1) - 1 \in 0..Width
      BY <1>1
<1>3. Block[k] = 2 * Block[k - 1] /\ Block[k - 1] = 2 * Block[(k - 1) - 1]
      /\ Block[(k - 1) - 1] \in Nat
      BY <1>2, BlockDoubles
<1>4. Size(n) = Block[k]
      BY DEF Size
<1> HIDE DEF k
<1> QED BY <1>3, <1>4

\* The addresses of a random block are inside the prefix.
LEMMA RandomInside ==
    ASSUME NEW n \in Networks, Admitted(n), NEW a \in RandomPairs(n)
    PROVE  /\ a.host > Masked(n) /\ a.host < PrefixLast(n)
           /\ a.guest > Masked(n) /\ a.guest < PrefixLast(n)
<1>1. PICK b \in Nat : Size(n) = 4 * b
      BY BlocksOfFour
<1>2. PICK x \in 0..(Size(n) - 1) :
          a = [host |-> Masked(n) + x - (x % 4) + 1, guest |-> Masked(n) + x - (x % 4) + 2]
      BY DEF RandomPairs
<1>3. n.addr \in Nat
  <2>1. Block[Width] \in Nat
        BY BlockDoubles, PairingAssumption
  <2> QED BY <2>1, PairingAssumption DEF Address
<1>4. Size(n) \in Nat /\ Size(n) > 0 /\ x \in Nat
      BY <1>1, <1>2
<1>5. Masked(n) \in Int
  <2> DEFINE z == Size(n)
  <2>1. z \in Nat /\ z > 0
        BY <1>4
  <2> HIDE DEF z
  <2>2. n.addr % z \in 0..(z - 1)
        BY <1>3, <2>1
  <2> QED BY <1>3, <2>2 DEF Masked, z
<1>6. x - (x % 4) >= 0 /\ x - (x % 4) <= 4 * b - 4 /\ x - (x % 4) \in Int
  <2>1. x < 4 * b
        BY <1>1, <1>2
  <2> QED BY <1>4, <2>1
<1>7. PrefixLast(n) = Masked(n) + 4 * b - 1
      BY <1>1, <1>5 DEF PrefixLast
<1> DEFINE y == x - (x % 4)
           lo == Masked(n)
<1>8. a.host = lo + y + 1 /\ a.guest = lo + y + 2
  <2>1. lo + x - (x % 4) = lo + y
        BY <1>4, <1>5
  <2> QED BY <1>2, <2>1
<1>9. y \in Int /\ lo \in Int /\ y >= 0 /\ y <= 4 * b - 4
      BY <1>5, <1>6
<1>10. PrefixLast(n) = lo + 4 * b - 1
      BY <1>7
<1> HIDE DEF y, lo
<1> QED BY <1>8, <1>9, <1>10 DEF lo

-----------------------------------------------------------------------------
(* What two users who pair can rely on.                                      *)

LEMMA BothComplete ==
    ASSUME PairInv, CoreInv
    PROVE  CompleteForBoth
<1> SUFFICES ASSUME NEW s \in Party, stage[s] = "done"
             PROVE  root[s] \in pairs /\ Entry(Counterpart(s), s) \in ready
    BY DEF CompleteForBoth, Entry
<1>0. ReadyInv /\ ServiceInv
      BY DEF CoreInv
<1>1. root[s] \in pairs /\ Entry(s, s) \in ready
      BY <1>0 DEF ServiceInv, ReadyInv
<1>2. CASE s = "host"
      BY <1>0, <1>1, <1>2 DEF ReadyInv, Counterpart
<1>3. CASE s = "guest"
  <2>1. PICK x \in ready : x.party = "host" /\ x.root = root["guest"]
        BY <1>0, <1>1, <1>3 DEF ServiceInv, WasReady, Party
  <2>2. /\ Twin(x, "guest") \in ready /\ Entry("guest", "guest") \in ready
        /\ Twin(x, "guest").party = "guest" /\ Twin(x, "guest").root = root["guest"]
        /\ Entry("guest", "guest").party = "guest" /\ Entry("guest", "guest").root = root["guest"]
        BY <1>0, <1>1, <1>3, <2>1 DEF ReadyInv, Twin, Entry
  <2>3. Twin(x, "guest") = Entry("guest", "guest")
        BY <1>0, <2>2 DEF ReadyInv
  <2>4. x.code = code["guest"] /\ x.addresses = offer["guest"]
        BY <2>3 DEF Twin, Entry
  <2>5. x \in Entries
        BY <1>0 DEF ReadyInv
  <2>6. x = Entry("host", "guest")
        BY <2>1, <2>4, <2>5 DEF Entries, Entry
  <2> QED BY <1>1, <1>3, <2>6 DEF Counterpart
<1> QED BY <1>2, <1>3 DEF Party

LEMMA OneResult ==
    ASSUME PairInv, CoreInv
    PROVE  OneExchangeOneResult
<1>0. ReadyInv
      BY DEF CoreInv
<1> SUFFICES ASSUME NEW x \in ready, NEW y \in ready, x.root = y.root
             PROVE  x.code = y.code /\ x.addresses = y.addresses
    BY DEF OneExchangeOneResult
<1>1. \A z \in ready : \E w \in ready :
          w.party = "guest" /\ w.root = z.root /\ w.code = z.code /\ w.addresses = z.addresses
  <2>1. ASSUME NEW z \in ready
        PROVE  \E w \in ready : w.party = "guest" /\ w.root = z.root /\ w.code = z.code
                                /\ w.addresses = z.addresses
    <3>1. z.party = "host" \/ z.party = "guest"
          BY <1>0 DEF ReadyInv, Entries, Party
    <3>2. CASE z.party = "host"
          BY <1>0, <3>2 DEF ReadyInv, Twin
    <3> QED BY <3>1, <3>2
  <2> QED BY <2>1
<1>2. PICK v \in ready : v.party = "guest" /\ v.root = x.root /\ v.code = x.code
                         /\ v.addresses = x.addresses
      BY <1>1
<1>3. PICK w \in ready : w.party = "guest" /\ w.root = y.root /\ w.code = y.code
                         /\ w.addresses = y.addresses
      BY <1>1
<1>4. v = w
      BY <1>0, <1>2, <1>3 DEF ReadyInv
<1> QED BY <1>2, <1>3, <1>4

LEMMA BothEndAlike ==
    ASSUME PairInv, AgreeInv
    PROVE  EndAlike
<1> SUFFICES ASSUME mishaps = 0, stage["host"] \in {"done", "failed"},
                    stage["guest"] \in {"done", "failed"}
             PROVE  stage["host"] = stage["guest"]
    BY DEF EndAlike, Party
<1>0. ReadyInv /\ Ours /\ Agreed
      BY DEF AgreeInv, CoreInv, CalmInv
<1>1. stage["guest"] = "done" => stage["host"] = "done"
      BY <1>0 DEF Agreed
<1>2. stage["host"] = "done" => stage["guest"] = "done"
  <2>1. Entry("guest", "host").party = "guest"
        BY DEF Entry
  <2> QED BY <1>0, <2>1 DEF ReadyInv, Ours
<1> QED BY <1>1, <1>2

LEMMA AddressesAgreed ==
    ASSUME PairInv, CoreInv
    PROVE  AgreedAddresses
<1> SUFFICES ASSUME stage["host"] \in {"committing", "done"}
             PROVE  /\ offer["host"].host # offer["host"].guest
                    /\ \A s \in Party : /\ offer["host"][s] \in Private
                                        /\ offer["host"][s] > Masked(network)
                                        /\ offer["host"][s] < PrefixLast(network)
    BY DEF AgreedAddresses
<1>0. ReadyInv /\ ProposalInv /\ "host" \in Party
      BY DEF CoreInv, Party
<1>1. Entry("host", "host") \in ready
      BY <1>0 DEF ReadyInv
<1>2. Sound(offer["host"])
      BY <1>0, <1>1 DEF ReadyInv, Entry
<1>3. offer["host"] \in RandomPairs(network) /\ Admitted(network) /\ network \in Networks
      BY <1>0, Typed DEF ProposalInv, ServiceTyped
<1>4. /\ offer["host"].host > Masked(network) /\ offer["host"].host < PrefixLast(network)
      /\ offer["host"].guest > Masked(network) /\ offer["host"].guest < PrefixLast(network)
      BY <1>3, RandomInside
<1> QED BY <1>2, <1>4 DEF Sound, Party

\* Whatever is lost or ends on the way, and for any number of calls: a call of Pair
\* succeeds only with its pair in the service and a counterpart that was ready to
\* store the same, no exchange is understood in two ways, the addresses are private
\* ones inside the host's prefix, and two calls of which nothing is lost end alike.
THEOREM PairingAgreement == PairingSpec => []PairingAgrees
<1>1. PairingInit => PairInv /\ AgreeInv
      BY PairInitial, AgreeInitial
<1>2. PairInv /\ AgreeInv /\ [PairingNext]_pairingVars => (PairInv /\ AgreeInv)'
      BY PairPreserved, AgreePreserved
<1>3. PairInv /\ AgreeInv => PairingAgrees
      BY BothComplete, OneResult, BothEndAlike, AddressesAgreed DEF PairingAgrees, AgreeInv
<1> QED BY <1>1, <1>2, <1>3, PTL DEF PairingSpec
=============================================================================
