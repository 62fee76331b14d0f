------------------------- MODULE ProxySessionProofs -------------------------
(* Proofs about ProxySession, for every set of sessions and every window.  *)
EXTENDS ProxySession, TLAPS

Pair(s) == {Server(s), Client(s)}

(* The names of connections: each session has two, and each has its twin.  *)
LEMMA ConnNames ==
    /\ \A s \in Sessions : Server(s) \in Conns /\ Client(s) \in Conns
    /\ \A s \in Sessions : Twin(Server(s)) = Client(s) /\ Twin(Client(s)) = Server(s)
    /\ \A s \in Sessions : Server(s) # Client(s)
    /\ \A s, t \in Sessions : s # t => Pair(s) \cap Pair(t) = {}
    /\ \A c \in Conns : c[1] \in Sessions /\ c \in Pair(c[1])
    /\ \A s \in Sessions : \A c \in Pair(s) : c \in Conns /\ c[1] = s
    /\ \A c \in Conns : Twin(c) \in Conns /\ Twin(c) # NoConn
  BY NoConnAssumption DEF Conns, Server, Client, Twin, Pair

LEMMA InitEstablishes == Init => MapOutlivesRoutes
  <1> SUFFICES ASSUME Init PROVE MapOutlivesRoutes
    OBVIOUS
  <1> USE DEF Init
  <1>0. 0 \in 0..Window /\ 0 \in 0..2
    BY WindowAssumption
  <1>1. TypeOK
    BY <1>0 DEF TypeOK, MainStates, RouteStates
  <1>2. DestinationKnown
    BY DEF DestinationKnown
  <1>3. \A s \in Sessions : SessionInv(s)
    <2> SUFFICES ASSUME NEW s \in Sessions PROVE SessionInv(s)
      OBVIOUS
    <2>1. Server(s) \in Conns /\ Client(s) \in Conns
      BY ConnNames
    <2>2. main[s] = "accepting" /\ got[s] = 0
      OBVIOUS
    <2>3. \A c \in {Server(s), Client(s)} :
             connections[c] = NoConn /\ route[c] = "unborn" /\ ~open[c]
      BY <2>1
    <2> HIDE DEF Init
    <2> QED
      BY <2>2, <2>3 DEF SessionInv, Published, Routing
  <1> QED
    BY <1>1, <1>2, <1>3 DEF MapOutlivesRoutes

(* A routing goroutine that runs belongs to a session whose entries are in *)
(* the map.                                                                *)
LEMMA RunningIsPublished ==
    ASSUME MapOutlivesRoutes, NEW c \in Conns,
           route[c] \notin {"unborn", "returned"}
    PROVE  main[c[1]] \in Routing /\ connections[c] = Twin(c)
  <1>1. c[1] \in Sessions /\ c \in Pair(c[1])
    BY ConnNames
  <1>2. SessionInv(c[1])
    BY <1>1 DEF MapOutlivesRoutes
  <1> QED
    BY <1>1, <1>2 DEF SessionInv, Pair, Routing

(* A session of which a step leaves everything alone keeps its invariant.  *)
LEMMA OtherSession ==
    ASSUME NEW t \in Sessions, SessionInv(t),
           main'[t] = main[t], got'[t] = got[t],
           \A c \in Pair(t) : /\ connections'[c] = connections[c]
                              /\ route'[c] = route[c]
                              /\ open'[c] = open[c]
    PROVE  SessionInv(t)'
  BY DEF SessionInv, Pair

(* The goroutine of s changes nothing of the other sessions.               *)
LEMMA MainStepPreserves ==
    ASSUME MapOutlivesRoutes, NEW s \in Sessions, Accept(s) \/ Main(s)
    PROVE  MapOutlivesRoutes'
  <1> USE ConnNames DEF MapOutlivesRoutes
  <1>1. TypeOK'
    <2>1. s \in Sessions /\ Server(s) \in Conns /\ Client(s) \in Conns
      OBVIOUS
    <2>2. CASE Accept(s)
      BY <2>1, <2>2 DEF TypeOK, Accept, MainStep, MainStates, netVars
    <2>3. CASE Dial(s)
      BY <2>1, <2>3 DEF TypeOK, Dial, MainStep, MainStates, netVars
    <2>4. CASE DialFails(s)
      BY <2>1, <2>4 DEF TypeOK, DialFails, MainStep, MainStates, netVars
    <2>5. CASE Publish(s)
      BY <2>1, <2>5 DEF TypeOK, Publish, MainStep, MainStates, netVars
    <2>6. CASE StartRouting(s)
      BY <2>1, <2>6 DEF TypeOK, StartRouting, MainStep, MainStates, netVars, RouteStates
    <2>7. CASE Collect(s)
      <3>1. got[s] \in 0..1
        BY <2>7 DEF TypeOK, SessionInv, Collect, MainStep
      <3> QED
        BY <2>1, <2>7, <3>1 DEF TypeOK, Collect, MainStep, MainStates, netVars, RouteStates
    <2>8. CASE CloseServer(s)
      BY <2>1, <2>8 DEF TypeOK, CloseServer, MainStep, MainStates, netVars
    <2>9. CASE CloseClient(s)
      BY <2>1, <2>9 DEF TypeOK, CloseClient, MainStep, MainStates, netVars
    <2>10. CASE Unpublish(s)
      BY <2>1, <2>10 DEF TypeOK, Unpublish, MainStep, MainStates, netVars
    <2> QED
      BY <2>2, <2>3, <2>4, <2>5, <2>6, <2>7, <2>8, <2>9, <2>10 DEF Main
  <1>2. DestinationKnown'
    <2>1. crashed' = crashed /\ dest' = dest
      BY DEF Main, Accept, Dial, DialFails, Publish, StartRouting, Collect,
             CloseServer, CloseClient, Unpublish
    <2>2. \A c \in Conns : route'[c] = "writing" => route[c] = "writing"
      BY DEF Main, Accept, Dial, DialFails, Publish, StartRouting, Collect,
             CloseServer, CloseClient, Unpublish, MainStep, TypeOK
    <2> QED
      BY <2>1, <2>2 DEF DestinationKnown
  <1>3. ASSUME NEW t \in Sessions, t # s PROVE SessionInv(t)'
    <2>1. \A c \in Pair(t) : c \in Conns /\ c # Server(s) /\ c # Client(s)
      BY <1>3 DEF Pair
    <2>2. main'[t] = main[t] /\ got'[t] = got[t]
      BY <1>3 DEF Main, Accept, Dial, DialFails, Publish, StartRouting, Collect,
             CloseServer, CloseClient, Unpublish, MainStep, TypeOK
    <2>3. \A c \in Pair(t) : connections'[c] = connections[c]
      BY <2>1 DEF Main, Accept, Dial, DialFails, Publish, StartRouting, Collect,
             CloseServer, CloseClient, Unpublish, TypeOK
    <2>4. \A c \in Pair(t) : route'[c] = route[c]
      BY <2>1 DEF Main, Accept, Dial, DialFails, Publish, StartRouting, Collect,
             CloseServer, CloseClient, Unpublish, TypeOK
    <2>5. \A c \in Pair(t) : open'[c] = open[c]
      BY <2>1 DEF Main, Accept, Dial, DialFails, Publish, StartRouting, Collect,
             CloseServer, CloseClient, Unpublish, TypeOK, netVars
    <2> QED
      BY <2>2, <2>3, <2>4, <2>5, OtherSession
  <1>4. SessionInv(s)'
    <2> DEFINE S == Server(s)
               C == Client(s)
    <2>1. S \in Conns /\ C \in Conns /\ S # C
      OBVIOUS
    <2>2. SessionInv(s) /\ TypeOK
      OBVIOUS
    <2>3. CASE Accept(s)
      BY <2>1, <2>2, <2>3 DEF TypeOK, SessionInv, Accept, MainStep, Published, Routing
    <2>4. CASE Dial(s)
      BY <2>1, <2>2, <2>4 DEF TypeOK, SessionInv, Dial, MainStep, Published, Routing
    <2>5. CASE DialFails(s)
      BY <2>1, <2>2, <2>5 DEF TypeOK, SessionInv, DialFails, MainStep, Published, Routing
    <2>6. CASE Publish(s)
      BY <2>1, <2>2, <2>6 DEF TypeOK, SessionInv, Publish, MainStep, Published, Routing, netVars
    <2>7. CASE StartRouting(s)
      BY <2>1, <2>2, <2>7 DEF TypeOK, SessionInv, StartRouting, MainStep, Published, Routing, netVars
    <2>8. CASE Collect(s)
      BY <2>1, <2>2, <2>8 DEF TypeOK, SessionInv, Collect, MainStep, Published, Routing, netVars
    <2>9. CASE CloseServer(s)
      BY <2>1, <2>2, <2>9 DEF TypeOK, SessionInv, CloseServer, MainStep, Published, Routing
    <2>10. CASE CloseClient(s)
      BY <2>1, <2>2, <2>10 DEF TypeOK, SessionInv, CloseClient, MainStep, Published, Routing
    <2>11. CASE Unpublish(s)
      BY <2>1, <2>2, <2>11 DEF TypeOK, SessionInv, Unpublish, MainStep, Published, Routing, netVars
    <2> QED
      BY <2>3, <2>4, <2>5, <2>6, <2>7, <2>8, <2>9, <2>10, <2>11 DEF Main
  <1> QED
    BY <1>1, <1>2, <1>3, <1>4

(* A routing goroutine finds its destination and stays within its session. *)
LEMMA RouteStepPreserves ==
    ASSUME MapOutlivesRoutes, NEW c \in Conns, Route(c)
    PROVE  MapOutlivesRoutes'
  <1> USE DEF MapOutlivesRoutes
  <1>0. route[c] \notin {"unborn", "returned"}
    BY DEF Route, Read, ReadFails, Ignore, HandlerFails, Destination,
           WritePacket, WriteFails, RouteStep
  <1>1. c[1] \in Sessions /\ main[c[1]] \in Routing /\ connections[c] = Twin(c)
    BY <1>0, ConnNames, RunningIsPublished
  <1>2. Twin(c) \in Conns /\ Twin(c) # NoConn
    BY ConnNames
  <1>3. UNCHANGED <<mainVars, connections, open>>
    BY DEF Route, Read, ReadFails, Ignore, HandlerFails, Destination,
           WritePacket, WriteFails, netVars
  <1>4. /\ route'[c] \notin {"unborn", "returned"}
        /\ \A d \in Conns : d # c => route'[d] = route[d] /\ dest'[d] = dest[d]
    BY DEF Route, Read, ReadFails, Ignore, HandlerFails, Destination,
           WritePacket, WriteFails, RouteStep, TypeOK
  <1>5. TypeOK'
    <2>1. CASE Read(c)
      BY <2>1, WindowAssumption DEF TypeOK, Read, RouteStep, RouteStates, mainVars
    <2>2. CASE ReadFails(c)
      BY <2>2 DEF TypeOK, ReadFails, RouteStep, RouteStates, mainVars, netVars
    <2>3. CASE Ignore(c)
      BY <2>3 DEF TypeOK, Ignore, RouteStep, RouteStates, mainVars, netVars
    <2>4. CASE HandlerFails(c)
      BY <2>4 DEF TypeOK, HandlerFails, RouteStep, RouteStates, mainVars, netVars
    <2>5. CASE Destination(c)
      BY <2>5, <1>1, <1>2 DEF TypeOK, Destination, RouteStep, RouteStates, mainVars, netVars
    <2>6. CASE WritePacket(c)
      <3>1. dest[c] = Twin(c)
        BY <2>6 DEF WritePacket, RouteStep, DestinationKnown
      <3> QED
        BY <2>6, <3>1, <1>2, WindowAssumption
        DEF TypeOK, WritePacket, RouteStep, RouteStates, mainVars
    <2>7. CASE WriteFails(c)
      BY <2>7 DEF TypeOK, WriteFails, RouteStep, RouteStates, mainVars, netVars
    <2> QED
      BY <2>1, <2>2, <2>3, <2>4, <2>5, <2>6, <2>7 DEF Route
  <1>6. DestinationKnown'
    <2>1. ~crashed'
      <3>1. CASE Destination(c)
        <4>1. connections[c] # NoConn
          BY <1>1, <1>2
        <4> QED
          BY <3>1, <4>1 DEF Destination
      <3>2. CASE ~Destination(c)
        <4>1. crashed' = crashed
          BY <3>2 DEF Route, Read, ReadFails, Ignore, HandlerFails,
                      WritePacket, WriteFails
        <4> QED
          BY <4>1 DEF DestinationKnown
      <3> QED
        BY <3>1, <3>2
    <2>2. route'[c] = "writing" => dest'[c] = Twin(c)
      BY <1>1 DEF Route, Read, ReadFails, Ignore, HandlerFails, Destination,
             WritePacket, WriteFails, RouteStep, TypeOK
    <2> QED
      BY <2>1, <2>2, <1>4 DEF DestinationKnown
  <1>7. ASSUME NEW t \in Sessions PROVE SessionInv(t)'
    <2>1. Server(t) \in Conns /\ Client(t) \in Conns /\ SessionInv(t)
      BY ConnNames
    <2>2. \A d \in {Server(t), Client(t)} :
             \/ route'[d] = route[d]
             \/ /\ d = c /\ d[1] = t
                /\ main[t] \in Routing
                /\ route[d] \notin {"unborn", "returned"}
                /\ route'[d] \notin {"unborn", "returned"}
      BY <2>1, <1>0, <1>1, <1>4, ConnNames DEF Pair
    <2> QED
      BY <2>1, <2>2, <1>3 DEF SessionInv, mainVars, Routing
  <1> QED
    BY <1>5, <1>6, <1>7

LEMMA PeerStepPreserves ==
    ASSUME MapOutlivesRoutes, NEW c \in Conns, Peer(c)
    PROVE  MapOutlivesRoutes'
  <1>1. UNCHANGED <<mainVars, connections, route, dest, open, crashed>>
    BY DEF Peer, PeerSends, PeerTakes, PeerLeaves
  <1>2. TypeOK'
    <2> USE WindowAssumption DEF MapOutlivesRoutes
    <2>1. CASE PeerSends(c)
      BY <2>1 DEF TypeOK, PeerSends, mainVars
    <2>2. CASE PeerTakes(c)
      BY <2>2 DEF TypeOK, PeerTakes, mainVars
    <2>3. CASE PeerLeaves(c)
      BY <2>3 DEF TypeOK, PeerLeaves, mainVars
    <2> QED
      BY <2>1, <2>2, <2>3 DEF Peer
  <1> QED
    BY <1>1, <1>2 DEF MapOutlivesRoutes, DestinationKnown, SessionInv, mainVars

LEMMA StepPreserves == MapOutlivesRoutes /\ [Next]_vars => MapOutlivesRoutes'
  <1> SUFFICES ASSUME MapOutlivesRoutes, [Next]_vars PROVE MapOutlivesRoutes'
    OBVIOUS
  <1>1. CASE AcceptFails
    BY <1>1 DEF AcceptFails, MapOutlivesRoutes, TypeOK, DestinationKnown,
                SessionInv, netVars
  <1>2. CASE \E s \in Sessions : Accept(s) \/ Main(s)
    BY <1>2, MainStepPreserves
  <1>3. CASE \E c \in Conns : Route(c)
    BY <1>3, RouteStepPreserves
  <1>4. CASE \E c \in Conns : Peer(c)
    BY <1>4, PeerStepPreserves
  <1>5. CASE UNCHANGED vars
    BY <1>5 DEF vars, mainVars, netVars, MapOutlivesRoutes, TypeOK,
                DestinationKnown, SessionInv
  <1> QED
    BY <1>1, <1>2, <1>3, <1>4, <1>5 DEF Next

-----------------------------------------------------------------------------
(* The map holds the entries of a session for as long as a routing         *)
(* goroutine of it may look for them.                                      *)
THEOREM MapInvariant == Spec => []MapOutlivesRoutes
  BY InitEstablishes, StepPreserves, PTL DEF Spec

(* The type invariant.                                                     *)
THEOREM TypeCorrect == Spec => []TypeOK
  <1>1. MapOutlivesRoutes => TypeOK
    BY DEF MapOutlivesRoutes
  <1> QED
    BY <1>1, MapInvariant, PTL

(* However the goroutines of however many sessions interleave, no handler  *)
(* is given a nil destination or that of another session.                  *)
THEOREM DestinationAlwaysKnown == Spec => []DestinationKnown
  <1>1. MapOutlivesRoutes => DestinationKnown
    BY DEF MapOutlivesRoutes
  <1> QED
    BY <1>1, MapInvariant, PTL

(* A session that has ended has left no descriptor, no map entry and no    *)
(* goroutine behind.                                                       *)
THEOREM SessionsLeaveNothing == Spec => []NothingLeaks
  <1>1. MapOutlivesRoutes => NothingLeaks
    BY DEF MapOutlivesRoutes, SessionInv, NothingLeaks, Published, Routing
  <1> QED
    BY <1>1, MapInvariant, PTL
=============================================================================
