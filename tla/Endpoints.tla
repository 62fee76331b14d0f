------------------------------ MODULE Endpoints ------------------------------
(***************************************************************************)
(* The proxies that cmd/pso2-net runs side by side, one for each port of   *)
(* every ship, and the endpoint map they share.  A packet in which the     *)
(* PSO2 server names another server's address is rewritten to name the     *)
(* proxy's own; the address is first announced to the proxy of that port,  *)
(* whose ClientEndpoint then says where it dials next.                     *)
(*                                                                         *)
(* main inserts the proxies into the map and starts them one by one, while *)
(* those started before already look it up: Go stops the process when it   *)
(* sees a map read during a write.  Neither the map nor ClientEndpoint is  *)
(* locked; a torn read of the latter, one address cut to the length of the *)
(* other, is one where nobody listens, and the dial fails (Leave).         *)
(* The relaying of all other packets is ProxySession's subject.            *)
(***************************************************************************)
EXTENDS Naturals, FiniteSets, Sequences

CONSTANTS
    Games,      \* the game clients
    Ports,      \* the ports that main gives a proxy
    StartOrder, \* in this order
    Kind,       \* which handlers the route of a port has
    Addresses,
    Host,       \* hostname(i): where the proxy of a port dials at first
    Home,       \* the addresses at which PSO2 has a server for a port
    Links,      \* the ports whose servers the server of a port names
    EntryPorts, \* the ports a game knows by itself
    NoAddress,  \* nothing was said of a port
    NoPort

ASSUME StartOrderAssumption ==
    /\ StartOrder \in Seq(Ports)
    /\ Ports = {StartOrder[i] : i \in DOMAIN StartOrder}
ASSUME KindAssumption == Kind \in [Ports -> {"ship", "shipBlock", "block"}]
ASSUME AddressAssumption ==
    /\ NoAddress \notin Addresses /\ NoPort \notin Ports
    /\ Host \in [Ports -> Addresses]
    /\ Home \in [Ports -> SUBSET Addresses]
    /\ Links \in [Ports -> SUBSET Ports]
ASSUME EntryAssumption ==
    EntryPorts \subseteq Ports /\ \A p \in EntryPorts : Host[p] \in Home[p]

VARIABLES
    \* main: how many proxies it has begun and done with, where it stands, and
    \* whether the process has ended.
    begun, stage, ended,
    \* The map's keys, and the ClientEndpoint of every proxy.
    endpoints, clientEndpoint,
    \* A game's connection: its state, its port, the address dialed for it, the
    \* addresses named in the packet that is being handled and those of them
    \* that are still to be announced.
    session, port, peer, named, todo,
    \* What each game was told of each port (history: by the server, before the
    \* address was rewritten), and the ports of refused announcements.
    told, missed

mainVars == <<begun, stage>>
gameVars == <<session, port, peer, named, todo>>
vars == <<mainVars, ended, endpoints, clientEndpoint, gameVars, told, missed>>

Saying == [Ports -> Addresses \cup {NoAddress}]
Silence == [p \in Ports |-> NoAddress]

\* Every variable has its type: main never begins more proxies than it has.
TypeOK ==
    /\ begun \in 0 .. Len(StartOrder)
    /\ stage \in {"loop", "inserting", "listening"}
    /\ ended \in BOOLEAN
    /\ endpoints \subseteq Ports
    /\ clientEndpoint \in [Ports -> Addresses]
    /\ session \in [Games -> {"away", "accepted", "relaying", "handling"}]
    /\ port \in [Games -> Ports \cup {NoPort}]
    /\ peer \in [Games -> Addresses \cup {NoAddress}]
    /\ named \in [Games -> Saying]
    /\ todo \in [Games -> SUBSET Ports]
    /\ told \in [Games -> Saying]
    /\ missed \subseteq Ports

Init ==
    /\ begun = 0 /\ stage = "loop" /\ ended = FALSE
    /\ endpoints = {} /\ clientEndpoint = Host
    /\ session = [g \in Games |-> "away"]
    /\ port = [g \in Games |-> NoPort]
    /\ peer = [g \in Games |-> NoAddress]
    /\ named = [g \in Games |-> Silence]
    /\ todo = [g \in Games |-> {}]
    /\ told = [g \in Games |-> Silence]
    /\ missed = {}

-----------------------------------------------------------------------------
(* main.                                                                   *)

Current == StartOrder[begun]

\* The next proxy is made, and its assignment to the map begins.
BeginInsert ==
    /\ stage = "loop" /\ begun < Len(StartOrder)
    /\ stage' = "inserting" /\ begun' = begun + 1
    /\ UNCHANGED <<ended, endpoints, clientEndpoint, gameVars, told, missed>>

Insert ==
    /\ stage = "inserting" /\ stage' = "listening"
    /\ endpoints' = endpoints \cup {Current}
    /\ UNCHANGED <<begun, ended, clientEndpoint, gameVars, told, missed>>

Listen ==
    /\ stage = "listening" /\ stage' = "loop"
    /\ UNCHANGED <<begun, ended, endpoints, clientEndpoint, gameVars, told, missed>>

\* ragequit.
ListenFails ==
    /\ stage = "listening" /\ ended' = TRUE
    /\ UNCHANGED <<mainVars, endpoints, clientEndpoint, gameVars, told, missed>>

Main == BeginInsert \/ Insert \/ Listen \/ ListenFails

Listening ==
    {StartOrder[i] : i \in 1 .. (IF stage = "loop" THEN begun ELSE begun - 1)}

-----------------------------------------------------------------------------
(* The connection of a game.                                               *)

Connect(g, p) ==
    /\ session[g] = "away"
    /\ p \in Listening /\ (p \in EntryPorts \/ told[g][p] # NoAddress)
    /\ session' = [session EXCEPT ![g] = "accepted"]
    /\ port' = [port EXCEPT ![g] = p]
    /\ UNCHANGED <<mainVars, ended, endpoints, clientEndpoint, peer, named, todo,
                   told, missed>>

\* Mutant of Dial: the address the proxy was made with.
DialHost(g) ==
    /\ session[g] = "accepted"
    /\ session' = [session EXCEPT ![g] = "relaying"]
    /\ peer' = [peer EXCEPT ![g] = Host[port[g]]]
    /\ UNCHANGED <<mainVars, ended, endpoints, clientEndpoint, port, named, todo,
                   told, missed>>

Dial(g) ==
    /\ session[g] = "accepted"
    /\ session' = [session EXCEPT ![g] = "relaying"]
    /\ peer' = [peer EXCEPT ![g] = clientEndpoint[port[g]]]
    /\ UNCHANGED <<mainVars, ended, endpoints, clientEndpoint, port, named, todo,
                   told, missed>>

\* The dial fails, a packet cannot be parsed or sent on, or either side hangs up.
Leave(g) ==
    /\ session[g] = "accepted" \/ (session[g] \in {"relaying", "handling"} /\ todo[g] = {})
    /\ session' = [session EXCEPT ![g] = "away"]
    /\ port' = [port EXCEPT ![g] = NoPort]
    /\ peer' = [peer EXCEPT ![g] = NoAddress]
    /\ named' = [named EXCEPT ![g] = Silence]
    /\ UNCHANGED <<mainVars, ended, endpoints, clientEndpoint, todo, told, missed>>

\* A server sends a packet that names servers of at most n ports.
Receive(g, kind, n) ==
    /\ session[g] = "relaying" /\ Kind[port[g]] = kind
    /\ peer[g] \in Home[port[g]]
    /\ \E S \in SUBSET Links[port[g]], says \in Saying :
          /\ S # {} /\ Cardinality(S) <= n
          /\ \A p \in Ports : IF p \in S THEN says[p] \in Home[p] ELSE says[p] = NoAddress
          /\ named' = [named EXCEPT ![g] = says]
          /\ todo' = [todo EXCEPT ![g] = S]
    /\ session' = [session EXCEPT ![g] = "handling"]
    /\ UNCHANGED <<mainVars, ended, endpoints, clientEndpoint, port, peer, told, missed>>

ProxyHandlerShip(g) == Receive(g, "ship", Cardinality(Ports))
ProxyHandlerBlock(g) == Receive(g, "shipBlock", 1)
ProxyHandlerBlocks(g) == Receive(g, "block", Cardinality(Ports))
ProxyHandlerBlockResponse(g) == Receive(g, "block", 1)
ProxyHandlerRoom(g) == Receive(g, "block", 1)

\* What the map lookup may find while main writes to the map.
Found(p) ==
    IF stage = "inserting" /\ p = Current THEN BOOLEAN ELSE {p \in endpoints}

\* Mutant of EndpointAnnouncement: the handler announces to its own proxy.
EndpointAnnouncementOwn(g, p) ==
    /\ p \in todo[g]
    /\ todo' = [todo EXCEPT ![g] = @ \ {p}]
    /\ clientEndpoint' = [clientEndpoint EXCEPT ![port[g]] = named[g][p]]
    /\ UNCHANGED <<mainVars, ended, endpoints, session, port, peer, named, told, missed>>

EndpointAnnouncement(g, p) ==
    /\ p \in todo[g]
    /\ todo' = [todo EXCEPT ![g] = @ \ {p}]
    /\ \E found \in Found(p) :
          IF found
          THEN /\ clientEndpoint' = [clientEndpoint EXCEPT ![p] = named[g][p]]
               /\ UNCHANGED missed
          ELSE /\ missed' = missed \cup {p}
               /\ UNCHANGED clientEndpoint
    /\ UNCHANGED <<mainVars, ended, endpoints, session, port, peer, named, told>>

\* The look-up meets main's write, and the runtime ends the process.
FatalError(g) ==
    /\ todo[g] # {} /\ stage = "inserting"
    /\ ended' = TRUE
    /\ UNCHANGED <<mainVars, endpoints, clientEndpoint, gameVars, told, missed>>

\* All is announced: the rewritten packet goes to the game.
Forward(g) ==
    /\ session[g] = "handling" /\ todo[g] = {}
    /\ told' = [told EXCEPT ![g] =
                  [p \in Ports |-> IF named[g][p] # NoAddress THEN named[g][p] ELSE @[p]]]
    /\ named' = [named EXCEPT ![g] = Silence]
    /\ session' = [session EXCEPT ![g] = "relaying"]
    /\ UNCHANGED <<mainVars, ended, endpoints, clientEndpoint, port, peer, todo, missed>>

Session(g) ==
    \/ \E p \in Ports : Connect(g, p) \/ EndpointAnnouncement(g, p)
    \/ Dial(g) \/ Leave(g)
    \/ ProxyHandlerShip(g) \/ ProxyHandlerBlock(g) \/ ProxyHandlerBlocks(g)
    \/ ProxyHandlerBlockResponse(g) \/ ProxyHandlerRoom(g)
    \/ FatalError(g) \/ Forward(g)

Next == ~ended /\ (Main \/ \E g \in Games : Session(g))

Spec == Init /\ [][Next]_vars

-----------------------------------------------------------------------------
(* Correctness.                                                            *)

Connected(g) == session[g] \in {"relaying", "handling"}

\* Where a port has one server, a game that was sent there reaches it, whatever
\* the other games and main do meanwhile, unless the announcement met a map
\* that did not hold the port yet and was refused with a warning (net.go:59).
FollowsAnnouncement ==
    \A g \in Games : Connected(g) /\ port[g] \notin missed =>
        \/ port[g] \in EntryPorts
        \/ told[g][port[g]] # NoAddress
           /\ (Home[port[g]] = {told[g][port[g]]} => peer[g] = told[g][port[g]])

\* The inductive invariant behind it: a proxy dials an address that was meant for
\* its port or main's default, and no longer the default once a game was sent.
Announced(g, p) ==
    told[g][p] # NoAddress \/ (named[g][p] # NoAddress /\ p \notin todo[g])
AddressesFit ==
    /\ \A p \in Ports : clientEndpoint[p] \in Home[p] \cup {Host[p]}
    /\ \A g \in Games, p \in Ports :
          /\ told[g][p] \in Home[p] \cup {NoAddress}
          /\ named[g][p] \in Home[p] \cup {NoAddress}
          /\ p \in todo[g] => named[g][p] # NoAddress
          /\ Announced(g, p) /\ p \notin missed => clientEndpoint[p] \in Home[p]
SessionFits(g) ==
    /\ session[g] # "handling" => todo[g] = {}
    /\ session[g] # "away" =>
          /\ port[g] \in Ports
          /\ port[g] \in EntryPorts \/ told[g][port[g]] # NoAddress
          /\ Connected(g) /\ port[g] \notin missed => peer[g] \in Home[port[g]]
EndpointInv ==
    /\ TypeOK
    /\ stage # "loop" => begun > 0
    /\ AddressesFit
    /\ \A g \in Games : SessionFits(g)
==============================================================================
