--------------------------- MODULE EndpointsProofs ---------------------------
(* Proofs about Endpoints, for all games, ports and addresses.             *)
EXTENDS Endpoints, TLAPS

LEMMA PortsStarted == ASSUME NEW n \in 1 .. Len(StartOrder) PROVE StartOrder[n] \in Ports
  BY StartOrderAssumption

LEMMA InitEstablishes == Init => EndpointInv
  <1> SUFFICES ASSUME Init PROVE EndpointInv
    OBVIOUS
  <1> USE DEF Init
  <1>1. TypeOK
    <2>1. Len(StartOrder) \in Nat
      BY StartOrderAssumption
    <2>2. Silence \in Saying
      BY DEF Silence, Saying
    <2>3. 0 \in 0 .. Len(StartOrder)
      BY <2>1
    <2>4. named \in [Games -> Saying] /\ told \in [Games -> Saying]
      BY <2>2
    <2>5. /\ session \in [Games -> {"away", "accepted", "relaying", "handling"}]
          /\ port \in [Games -> Ports \cup {NoPort}] /\ todo \in [Games -> SUBSET Ports]
          /\ peer \in [Games -> Addresses \cup {NoAddress}]
          /\ ended \in BOOLEAN /\ endpoints \subseteq Ports /\ missed \subseteq Ports
      OBVIOUS
    <2>6. clientEndpoint \in [Ports -> Addresses]
      BY AddressAssumption
    <2> QED
      BY <2>3, <2>4, <2>5, <2>6 DEF TypeOK
  <1>2. AddressesFit
    BY DEF AddressesFit, Announced, Silence
  <1>3. \A g \in Games : SessionFits(g)
    BY DEF SessionFits
  <1> QED
    BY <1>1, <1>2, <1>3 DEF EndpointInv

(* main's steps touch neither an address nor a game.                       *)
LEMMA MainPreserves == EndpointInv /\ Main => EndpointInv'
  <1> SUFFICES ASSUME EndpointInv, Main PROVE EndpointInv'
    OBVIOUS
  <1> USE DEF EndpointInv
  <1>1. Len(StartOrder) \in Nat
    BY StartOrderAssumption
  <1>2. stage = "inserting" => Current \in Ports
    BY <1>1, PortsStarted DEF TypeOK, Current
  <1>3. /\ begun' \in 0 .. Len(StartOrder) /\ stage' \in {"loop", "inserting", "listening"}
        /\ stage' # "loop" => begun' > 0
    BY <1>1 DEF Main, BeginInsert, Insert, Listen, ListenFails, TypeOK, mainVars
  <1>4. ended' \in BOOLEAN /\ endpoints' \subseteq Ports
    BY <1>2 DEF Main, BeginInsert, Insert, Listen, ListenFails, TypeOK
  <1>5. UNCHANGED <<clientEndpoint, gameVars, told, missed>>
    BY DEF Main, BeginInsert, Insert, Listen, ListenFails
  <1>6. AddressesFit' /\ \A g \in Games : SessionFits(g)'
    BY <1>5 DEF AddressesFit, Announced, SessionFits, Connected, gameVars
  <1> QED
    BY <1>3, <1>4, <1>5, <1>6 DEF TypeOK, gameVars

(* What a game's step must do: keep the types, keep the addresses, and fit *)
(* itself; the sessions of the others follow.                              *)
LEMMA OthersUndisturbed ==
    ASSUME EndpointInv, NEW g \in Games, Session(g), NEW h \in Games, h # g
    PROVE  SessionFits(h)'
  <1>1. /\ session'[h] = session[h] /\ port'[h] = port[h] /\ peer'[h] = peer[h]
        /\ todo'[h] = todo[h] /\ told'[h] = told[h]
    BY DEF Session, Connect, Dial, Leave, EndpointAnnouncement, FatalError, Forward,
           ProxyHandlerShip, ProxyHandlerBlock, ProxyHandlerBlocks,
           ProxyHandlerBlockResponse, ProxyHandlerRoom, Receive, EndpointInv, TypeOK, gameVars
  <1>2. missed \subseteq missed'
    BY DEF Session, Connect, Dial, Leave, EndpointAnnouncement, FatalError, Forward,
           ProxyHandlerShip, ProxyHandlerBlock, ProxyHandlerBlocks,
           ProxyHandlerBlockResponse, ProxyHandlerRoom, Receive
  <1> QED
    BY <1>1, <1>2 DEF EndpointInv, SessionFits, Connected

LEMMA ConnectPreserves ==
    ASSUME EndpointInv, NEW g \in Games, NEW p \in Ports, Connect(g, p)
    PROVE  TypeOK' /\ AddressesFit' /\ SessionFits(g)'
  <1> USE DEF EndpointInv, Connect
  <1>1. TypeOK'
    BY DEF TypeOK, mainVars
  <1>2. AddressesFit'
    BY DEF AddressesFit, Announced
  <1>3. SessionFits(g)'
    BY DEF SessionFits, Connected, TypeOK
  <1> QED
    BY <1>1, <1>2, <1>3

(* The address dialed is one announced for the port, or main's default for *)
(* a port that needs no announcement.                                      *)
LEMMA DialPreserves ==
    ASSUME EndpointInv, NEW g \in Games, Dial(g)
    PROVE  TypeOK' /\ AddressesFit' /\ SessionFits(g)'
  <1> USE DEF EndpointInv, Dial
  <1>1. port[g] \in Ports
    BY DEF SessionFits
  <1>2. TypeOK'
    BY <1>1 DEF TypeOK, mainVars
  <1>3. AddressesFit'
    BY DEF AddressesFit, Announced
  <1>4. port[g] \notin missed => clientEndpoint[port[g]] \in Home[port[g]]
    <2>1. CASE port[g] \in EntryPorts
      BY <1>1, <2>1, EntryAssumption DEF AddressesFit
    <2>2. CASE told[g][port[g]] # NoAddress
      BY <1>1, <2>2 DEF AddressesFit, Announced
    <2> QED
      BY <2>1, <2>2 DEF SessionFits
  <1>5. SessionFits(g)'
    BY <1>1, <1>4 DEF SessionFits, Connected, TypeOK
  <1> QED
    BY <1>2, <1>3, <1>5

LEMMA LeavePreserves ==
    ASSUME EndpointInv, NEW g \in Games, Leave(g)
    PROVE  TypeOK' /\ AddressesFit' /\ SessionFits(g)'
  <1> USE DEF EndpointInv, Leave
  <1>1. todo[g] = {}
    BY DEF SessionFits
  <1>2. Silence \in Saying
    BY DEF Silence, Saying
  <1>3. TypeOK'
    BY <1>2 DEF TypeOK, mainVars
  <1>4. ASSUME NEW h \in Games, NEW p \in Ports
        PROVE  /\ named'[h][p] \in {named[h][p], NoAddress}
               /\ p \in todo[h] => named'[h][p] = named[h][p]
    BY <1>1 DEF TypeOK, Silence
  <1>5. AddressesFit'
    BY <1>4 DEF AddressesFit, Announced
  <1>6. SessionFits(g)'
    BY <1>1 DEF SessionFits, Connected, TypeOK
  <1> QED
    BY <1>3, <1>5, <1>6

LEMMA ReceivePreserves ==
    ASSUME EndpointInv, NEW g \in Games, NEW kind, NEW n, Receive(g, kind, n)
    PROVE  TypeOK' /\ AddressesFit' /\ SessionFits(g)'
  <1> USE DEF EndpointInv, Receive
  <1>1. PICK S \in SUBSET Links[port[g]], says \in Saying :
          /\ \A p \in Ports : IF p \in S THEN says[p] \in Home[p] ELSE says[p] = NoAddress
          /\ named' = [named EXCEPT ![g] = says]
          /\ todo' = [todo EXCEPT ![g] = S]
    OBVIOUS
  <1>2. port[g] \in Ports /\ S \in SUBSET Ports
    BY <1>1, AddressAssumption DEF SessionFits
  <1>3. TypeOK'
    BY <1>1, <1>2 DEF TypeOK, mainVars
  <1>4. AddressesFit'
    <2> SUFFICES ASSUME NEW h \in Games, NEW p \in Ports
                 PROVE  /\ named'[h][p] \in Home[p] \cup {NoAddress}
                        /\ p \in todo'[h] => named'[h][p] # NoAddress
                        /\ Announced(h, p)' => Announced(h, p)
      BY DEF AddressesFit
    <2>1. CASE h = g
      <3>1. named'[h][p] = says[p] /\ todo'[h] = S
        BY <1>1, <2>1 DEF TypeOK
      <3>2. p \in S => says[p] # NoAddress
        BY <1>1, AddressAssumption
      <3> QED
        BY <1>1, <3>1, <3>2 DEF Announced
    <2>2. CASE h # g
      BY <1>1, <2>2 DEF TypeOK, AddressesFit, Announced
    <2> QED
      BY <2>1, <2>2
  <1>5. SessionFits(g)'
    BY DEF SessionFits, Connected, TypeOK
  <1> QED
    BY <1>3, <1>4, <1>5

(* An address that is found goes to the proxy of its port; of a refused    *)
(* one the port is remembered.                                             *)
LEMMA EndpointAnnouncementPreserves ==
    ASSUME EndpointInv, NEW g \in Games, NEW p \in Ports, EndpointAnnouncement(g, p)
    PROVE  TypeOK' /\ AddressesFit' /\ SessionFits(g)'
  <1> USE DEF EndpointInv, EndpointAnnouncement
  <1>1. named[g][p] \in Home[p] /\ named[g][p] \in Addresses
    BY AddressAssumption DEF AddressesFit
  <1>2. \/ clientEndpoint' = [clientEndpoint EXCEPT ![p] = named[g][p]] /\ missed' = missed
        \/ clientEndpoint' = clientEndpoint /\ missed' = missed \cup {p}
    OBVIOUS
  <1>3. TypeOK'
    BY <1>1, <1>2 DEF TypeOK, mainVars
  <1>4. \A q \in Ports : \/ clientEndpoint'[q] = clientEndpoint[q]
                         \/ q = p /\ clientEndpoint'[q] \in Home[q]
    BY <1>1, <1>2 DEF TypeOK
  <1>5. p \in missed' \/ clientEndpoint'[p] \in Home[p]
    BY <1>1, <1>2 DEF TypeOK
  <1>6. \A h \in Games, q \in Ports : Announced(h, q)' => Announced(h, q) \/ q = p
    BY DEF Announced, TypeOK
  <1>7. \A h \in Games : todo'[h] \subseteq todo[h]
    BY DEF TypeOK
  <1>8. AddressesFit'
    BY <1>2, <1>4, <1>5, <1>6, <1>7 DEF AddressesFit
  <1>9. SessionFits(g)'
    BY <1>2, <1>7 DEF SessionFits, Connected
  <1> QED
    BY <1>3, <1>8, <1>9

LEMMA ForwardPreserves ==
    ASSUME EndpointInv, NEW g \in Games, Forward(g)
    PROVE  TypeOK' /\ AddressesFit' /\ SessionFits(g)'
  <1> USE DEF EndpointInv, Forward
  <1> DEFINE Now == [p \in Ports |-> IF named[g][p] # NoAddress THEN named[g][p]
                                                                ELSE told[g][p]]
  <1>1. told' = [told EXCEPT ![g] = Now]
    OBVIOUS
  <1>2. Now \in Saying /\ Silence \in Saying
    BY DEF TypeOK, Saying, Silence
  <1> HIDE DEF Now
  <1>3. TypeOK'
    BY <1>1, <1>2 DEF TypeOK, mainVars
  <1>4. ASSUME NEW h \in Games, NEW p \in Ports
        PROVE  /\ told'[h][p] \in {told[h][p], named[h][p]}
               /\ told[h][p] # NoAddress => told'[h][p] # NoAddress
               /\ Announced(h, p)' => Announced(h, p)
               /\ named'[h][p] \in {named[h][p], NoAddress}
               /\ p \in todo[h] => named'[h][p] = named[h][p]
    <2>1. CASE h = g
      BY <1>1, <2>1 DEF TypeOK, Now, Silence, Announced
    <2>2. CASE h # g
      BY <1>1, <2>2 DEF TypeOK, Announced
    <2> QED
      BY <2>1, <2>2
  <1>5. AddressesFit'
    BY <1>4 DEF AddressesFit
  <1>6. SessionFits(g)'
    BY <1>4 DEF SessionFits, Connected, TypeOK
  <1> QED
    BY <1>3, <1>5, <1>6

LEMMA NextPreserves == EndpointInv /\ [Next]_vars => EndpointInv'
  <1> SUFFICES ASSUME EndpointInv, [Next]_vars PROVE EndpointInv'
    OBVIOUS
  <1>1. CASE Main
    BY <1>1, MainPreserves
  <1>2. ASSUME NEW g \in Games, Session(g) PROVE EndpointInv'
    <2>1. TypeOK' /\ AddressesFit' /\ SessionFits(g)'
      <3>1. CASE \E p \in Ports : Connect(g, p)
        BY <3>1, ConnectPreserves
      <3>2. CASE \E p \in Ports : EndpointAnnouncement(g, p)
        BY <3>2, EndpointAnnouncementPreserves
      <3>3. CASE Dial(g)
        BY <3>3, DialPreserves
      <3>4. CASE Leave(g)
        BY <3>4, LeavePreserves
      <3>5. CASE \E kind, n : Receive(g, kind, n)
        BY <3>5, ReceivePreserves
      <3>6. CASE FatalError(g)
        BY <3>6 DEF FatalError, EndpointInv, TypeOK, mainVars, gameVars, AddressesFit,
                    Announced, SessionFits, Connected
      <3>7. CASE Forward(g)
        BY <3>7, ForwardPreserves
      <3> QED
        BY <1>2, <3>1, <3>2, <3>3, <3>4, <3>5, <3>6, <3>7
           DEF Session, ProxyHandlerShip, ProxyHandlerBlock, ProxyHandlerBlocks,
               ProxyHandlerBlockResponse, ProxyHandlerRoom
    <2>2. \A h \in Games \ {g} : SessionFits(h)'
      BY <1>2, OthersUndisturbed
    <2>3. UNCHANGED mainVars
      BY <1>2 DEF Session, Connect, Dial, Leave, EndpointAnnouncement, FatalError, Forward,
             ProxyHandlerShip, ProxyHandlerBlock, ProxyHandlerBlocks,
             ProxyHandlerBlockResponse, ProxyHandlerRoom, Receive
    <2> QED
      BY <2>1, <2>2, <2>3 DEF EndpointInv, mainVars
  <1>3. CASE UNCHANGED vars
    BY <1>3 DEF vars, mainVars, gameVars, EndpointInv, TypeOK, AddressesFit, Announced,
                SessionFits, Connected
  <1> QED
    BY <1>1, <1>2, <1>3 DEF Next

(* The inductive invariant: a proxy dials an address meant for its port, or  *)
(* main's default for it, and no longer the default once a game was sent     *)
(* there (EndpointAnnouncement, Proxy.Connect).                              *)
THEOREM EndpointInvariant == Spec => []EndpointInv
  BY InitEstablishes, NextPreserves, PTL DEF Spec

(* Every variable of Endpoints keeps its type.                               *)
THEOREM TypeCorrect == Spec => []TypeOK
  <1>1. EndpointInv => TypeOK
    BY DEF EndpointInv
  <1> QED
    BY <1>1, EndpointInvariant, PTL

(* A game that was sent to a port with one server reaches that server, for   *)
(* any number of games announcing whatever they are told, and while main is  *)
(* still starting proxies, if no announcement of the port was refused.       *)
THEOREM AnnouncementsFollowed == Spec => []FollowsAnnouncement
  <1>1. EndpointInv => FollowsAnnouncement
    <2> SUFFICES ASSUME EndpointInv, NEW g \in Games, Connected(g), port[g] \notin missed,
                        port[g] \notin EntryPorts
                 PROVE  /\ told[g][port[g]] # NoAddress
                        /\ Home[port[g]] = {told[g][port[g]]} => peer[g] = told[g][port[g]]
      BY DEF FollowsAnnouncement
    <2>1. session[g] # "away" /\ SessionFits(g)
      BY DEF Connected, EndpointInv
    <2> QED
      BY <2>1 DEF SessionFits
  <1> QED
    BY <1>1, EndpointInvariant, PTL
==============================================================================
