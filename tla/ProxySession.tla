---------------------------- MODULE ProxySession ----------------------------
(***************************************************************************)
(* The life of the connections that one net.Proxy relays (net/proxy.go).   *)
(*                                                                         *)
(* Start accepts a connection from the game (the code calls it "server",   *)
(* because the proxy is its server) and dials the PSO2 server (the code    *)
(* calls that connection "client").  Proxy publishes the pair in the map   *)
(* p.connections, starts one routing goroutine per connection, waits for   *)
(* both of them on an unbuffered channel and closes everything.  Handlers  *)
(* that run in a routing goroutine find the other connection through       *)
(* Destination, and dereference what it returns without looking.           *)
(*                                                                         *)
(* Packets carry no content here: what is in them is CipherHandshake's     *)
(* subject.  Every access to the map holds connectionsLock, so each        *)
(* critical section is one step.                                           *)
(***************************************************************************)
EXTENDS Naturals

CONSTANTS Sessions,   \* the connections the listener may accept
          Window,     \* packets a TCP connection buffers in each direction
          NoConn      \* Go's nil *Connection

ASSUME WindowAssumption == Window \in Nat \ {0}

Conns == Sessions \X {"server", "client"}

ASSUME NoConnAssumption == NoConn \notin Conns

Server(s) == <<s, "server">>
Client(s) == <<s, "client">>
Twin(c) == <<c[1], IF c[2] = "server" THEN "client" ELSE "server">>

VARIABLES
    listening,    \* Start has not returned
    main,         \* pc of the goroutine that Start runs for a connection
    got,          \* errors Proxy has received from the channel
    connections,  \* p.connections, nil where there is no entry
    route,        \* pc of the goroutine that runs RoutePackets
    dest,         \* what the running handler got from Destination
    open,         \* the descriptor has not been closed by this process
    gone,         \* the peer has closed or reset its end
    inbox,        \* packets received and not read yet
    outbox,       \* packets written and not taken by the peer yet
    crashed       \* a nil dereference panicked: the process is gone

mainVars == <<listening, main, got>>
netVars == <<open, gone, inbox, outbox>>
vars == <<mainVars, connections, route, dest, netVars, crashed>>

MainStates == {"accepting", "dialing", "publishing", "starting", "collecting",
               "closingServer", "closingClient", "unpublishing", "finished"}
RouteStates == {"unborn", "reading", "routing", "writing", "reporting",
                "returned"}

\* Every variable has its type: a session receives two errors at most, and a full
\* buffer holds no further packet.
TypeOK ==
    /\ listening \in BOOLEAN
    /\ main \in [Sessions -> MainStates]
    /\ got \in [Sessions -> 0..2]
    /\ connections \in [Conns -> Conns \cup {NoConn}]
    /\ route \in [Conns -> RouteStates]
    /\ dest \in [Conns -> Conns \cup {NoConn}]
    /\ open \in [Conns -> BOOLEAN]
    /\ gone \in [Conns -> BOOLEAN]
    /\ inbox \in [Conns -> 0..Window]
    /\ outbox \in [Conns -> 0..Window]
    /\ crashed \in BOOLEAN

Init ==
    /\ listening = TRUE
    /\ main = [s \in Sessions |-> "accepting"]
    /\ got = [s \in Sessions |-> 0]
    /\ connections = [c \in Conns |-> NoConn]
    /\ route = [c \in Conns |-> "unborn"]
    /\ dest = [c \in Conns |-> NoConn]
    /\ open = [c \in Conns |-> FALSE]
    /\ gone = [c \in Conns |-> FALSE]
    /\ inbox = [c \in Conns |-> 0]
    /\ outbox = [c \in Conns |-> 0]
    /\ crashed = FALSE

-----------------------------------------------------------------------------
(* The goroutine that Start runs for a connection.                         *)

MainStep(s, from, to) ==
    /\ main[s] = from
    /\ main' = [main EXCEPT ![s] = to]

Accept(s) ==
    /\ listening
    /\ MainStep(s, "accepting", "dialing")
    /\ open' = [open EXCEPT ![Server(s)] = TRUE]
    /\ UNCHANGED <<listening, got, connections, route, dest, gone, inbox,
                   outbox, crashed>>

\* A listener error ends Start; the sessions it started live on.
AcceptFails ==
    /\ listening
    /\ listening' = FALSE
    /\ UNCHANGED <<main, got, connections, route, dest, netVars, crashed>>

Dial(s) ==
    /\ MainStep(s, "dialing", "publishing")
    /\ open' = [open EXCEPT ![Client(s)] = TRUE]
    /\ UNCHANGED <<listening, got, connections, route, dest, gone, inbox,
                   outbox, crashed>>

DialFails(s) ==
    /\ MainStep(s, "dialing", "finished")
    /\ open' = [open EXCEPT ![Server(s)] = FALSE]
    /\ UNCHANGED <<listening, got, connections, route, dest, gone, inbox,
                   outbox, crashed>>

Publish(s) ==
    /\ MainStep(s, "publishing", "starting")
    /\ connections' = [connections EXCEPT ![Server(s)] = Client(s),
                                          ![Client(s)] = Server(s)]
    /\ UNCHANGED <<listening, got, route, dest, netVars, crashed>>

StartRouting(s) ==
    /\ MainStep(s, "starting", "collecting")
    /\ route' = [route EXCEPT ![Server(s)] = "reading",
                              ![Client(s)] = "reading"]
    /\ UNCHANGED <<listening, got, connections, dest, netVars, crashed>>

\* MUTANT of Collect: both errors are awaited before anything is closed.
CollectBothFirst(s) ==
    /\ MainStep(s, "collecting",
                IF got[s] = 0 THEN "collecting" ELSE "closingServer")
    /\ \E c \in {Server(s), Client(s)} :
          /\ route[c] = "reporting"
          /\ route' = [route EXCEPT ![c] = "returned"]
    /\ got' = [got EXCEPT ![s] = @ + 1]
    /\ UNCHANGED <<listening, connections, dest, netVars, crashed>>

\* e := <-ch: the channel is unbuffered, so sender and receiver move together.
Collect(s) ==
    /\ MainStep(s, "collecting", "closingServer")
    /\ \E c \in {Server(s), Client(s)} :
          /\ route[c] = "reporting"
          /\ route' = [route EXCEPT ![c] = "returned"]
    /\ got' = [got EXCEPT ![s] = @ + 1]
    /\ UNCHANGED <<listening, connections, dest, netVars, crashed>>

CloseServer(s) ==
    /\ MainStep(s, "closingServer", "closingClient")
    /\ open' = [open EXCEPT ![Server(s)] = FALSE]
    /\ UNCHANGED <<listening, got, connections, route, dest, gone, inbox,
                   outbox, crashed>>

\* MUTANT of CloseClient: Proxy goes on after the first error.
CloseClientAndGoOn(s) ==
    /\ MainStep(s, "closingClient", "unpublishing")
    /\ open' = [open EXCEPT ![Client(s)] = FALSE]
    /\ UNCHANGED <<listening, got, connections, route, dest, gone, inbox,
                   outbox, crashed>>

CloseClient(s) ==
    /\ MainStep(s, "closingClient",
                IF got[s] < 2 THEN "collecting" ELSE "unpublishing")
    /\ open' = [open EXCEPT ![Client(s)] = FALSE]
    /\ UNCHANGED <<listening, got, connections, route, dest, gone, inbox,
                   outbox, crashed>>

\* MUTANT of Unpublish: only one of the two entries is deleted.
UnpublishServerOnly(s) ==
    /\ MainStep(s, "unpublishing", "finished")
    /\ connections' = [connections EXCEPT ![Server(s)] = NoConn]
    /\ UNCHANGED <<listening, got, route, dest, netVars, crashed>>

\* Start closes both connections once more after this: they are closed by now.
Unpublish(s) ==
    /\ MainStep(s, "unpublishing", "finished")
    /\ connections' = [connections EXCEPT ![Server(s)] = NoConn,
                                          ![Client(s)] = NoConn]
    /\ UNCHANGED <<listening, got, route, dest, netVars, crashed>>

Main(s) ==
    \/ Dial(s) \/ DialFails(s) \/ Publish(s) \/ StartRouting(s) \/ Collect(s)
    \/ CloseServer(s) \/ CloseClient(s) \/ Unpublish(s)

-----------------------------------------------------------------------------
(* A routing goroutine: RoutePackets of connection c.                      *)

RouteStep(c, from, to) ==
    /\ route[c] = from
    /\ route' = [route EXCEPT ![c] = to]

Read(c) ==
    /\ open[c]
    /\ inbox[c] > 0
    /\ RouteStep(c, "reading", "routing")
    /\ inbox' = [inbox EXCEPT ![c] = @ - 1]
    /\ UNCHANGED <<mainVars, connections, dest, open, gone, outbox, crashed>>

\* MUTANT of ReadFails: the end of the stream is not taken for an error.
ReadFailsUnlessEOF(c) ==
    /\ ~open[c] \/ inbox[c] > 0
    /\ RouteStep(c, "reading", "reporting")
    /\ UNCHANGED <<mainVars, connections, dest, netVars, crashed>>

\* The connection was closed here or by the peer (a reset also loses what is
\* buffered), or the next header holds an invalid packet size.
ReadFails(c) ==
    /\ ~open[c] \/ gone[c] \/ inbox[c] > 0
    /\ RouteStep(c, "reading", "reporting")
    /\ UNCHANGED <<mainVars, connections, dest, netVars, crashed>>

\* No handler took the packet: it is logged and dropped.
Ignore(c) ==
    /\ RouteStep(c, "routing", "reading")
    /\ UNCHANGED <<mainVars, connections, dest, netVars, crashed>>

\* A handler could not parse or rebuild the packet.
HandlerFails(c) ==
    /\ RouteStep(c, "routing", "reporting")
    /\ UNCHANGED <<mainVars, connections, dest, netVars, crashed>>

\* A forwarding handler asks for the other connection; WritePacket of a nil
\* connection dereferences it.
Destination(c) ==
    /\ RouteStep(c, "routing", "writing")
    /\ dest' = [dest EXCEPT ![c] = connections[c]]
    /\ crashed' = (connections[c] = NoConn)
    /\ UNCHANGED <<mainVars, connections, netVars>>

\* Write blocks while the peer does not take what it was sent.
WritePacket(c) ==
    /\ RouteStep(c, "writing", "reading")
    /\ open[dest[c]]
    /\ outbox[dest[c]] < Window
    /\ outbox' = [outbox EXCEPT ![dest[c]] = @ + 1]
    /\ dest' = [dest EXCEPT ![c] = NoConn]
    /\ UNCHANGED <<mainVars, connections, open, gone, inbox, crashed>>

WriteFails(c) ==
    /\ RouteStep(c, "writing", "reporting")
    /\ ~open[dest[c]] \/ gone[dest[c]]
    /\ dest' = [dest EXCEPT ![c] = NoConn]
    /\ UNCHANGED <<mainVars, connections, netVars, crashed>>

Route(c) ==
    \/ Read(c) \/ ReadFails(c) \/ Ignore(c) \/ HandlerFails(c)
    \/ Destination(c) \/ WritePacket(c) \/ WriteFails(c)

-----------------------------------------------------------------------------
(* The two peers: the game and the PSO2 server.                            *)

PeerSends(c) ==
    /\ open[c] /\ ~gone[c] /\ inbox[c] < Window
    /\ inbox' = [inbox EXCEPT ![c] = @ + 1]
    /\ UNCHANGED <<mainVars, connections, route, dest, open, gone, outbox,
                   crashed>>

PeerTakes(c) ==
    /\ open[c] /\ ~gone[c] /\ outbox[c] > 0
    /\ outbox' = [outbox EXCEPT ![c] = @ - 1]
    /\ UNCHANGED <<mainVars, connections, route, dest, open, gone, inbox,
                   crashed>>

PeerLeaves(c) ==
    /\ open[c] /\ ~gone[c]
    /\ gone' = [gone EXCEPT ![c] = TRUE]
    /\ UNCHANGED <<mainVars, connections, route, dest, open, inbox, outbox,
                   crashed>>

Peer(c) == PeerSends(c) \/ PeerTakes(c) \/ PeerLeaves(c)

-----------------------------------------------------------------------------
Next ==
    /\ ~crashed
    /\ \/ AcceptFails
       \/ \E s \in Sessions : Accept(s) \/ Main(s)
       \/ \E c \in Conns : Route(c) \/ Peer(c)

\* The Go scheduler runs every goroutine that can run, and a Read or Write that
\* can return does.  Nothing is assumed of the listener and of the peers.
Fairness ==
    /\ \A s \in Sessions : WF_vars(~crashed /\ Main(s))
    /\ \A c \in Conns : WF_vars(~crashed /\ Route(c))

Spec == Init /\ [][Next]_vars /\ Fairness

-----------------------------------------------------------------------------
(* Correctness.                                                            *)

\* A running handler always finds the connection it forwards to: Destination
\* returns nil to no handler (proxy.go:145, 332 dereference the result), even
\* to one that still runs after its session began to close.
DestinationKnown ==
    /\ ~crashed
    /\ \A c \in Conns : route[c] = "writing" => dest[c] = Twin(c)

\* When the goroutine of a session ends nothing of the session is left: both
\* descriptors are closed, the map has no entry for it (an entry would keep
\* the connections alive for ever) and no routing goroutine is still running
\* or blocked on the channel nobody reads any more (proxy.go:78-92).
NothingLeaks ==
    \A s \in Sessions : main[s] = "finished" =>
        \A c \in {Server(s), Client(s)} :
            /\ ~open[c]
            /\ connections[c] = NoConn
            /\ route[c] \in {"unborn", "returned"}

\* Where the goroutine of s stands determines the rest: the map, the routing
\* goroutines, the errors received and what is still open.
Published == {"starting", "collecting", "closingServer", "closingClient",
              "unpublishing"}
Routing == Published \ {"starting"}

SessionInv(s) ==
    /\ \A c \in {Server(s), Client(s)} :
          /\ connections[c] = IF main[s] \in Published THEN Twin(c) ELSE NoConn
          /\ main[s] \in Routing => route[c] # "unborn"
          /\ main[s] \notin Routing => route[c] \in {"unborn", "returned"}
          /\ main[s] \in {"unpublishing", "finished"} => ~open[c]
    /\ got[s] = (IF route[Server(s)] = "returned" THEN 1 ELSE 0)
                + (IF route[Client(s)] = "returned" THEN 1 ELSE 0)
    /\ main[s] \in {"accepting", "dialing", "publishing", "starting"} =>
          got[s] = 0
    /\ main[s] = "collecting" => got[s] < 2
    /\ main[s] = "unpublishing" => got[s] = 2
    /\ main[s] = "closingClient" => ~open[Server(s)]
    /\ main[s] \in {"accepting", "dialing"} => ~open[Client(s)]

\* The inductive invariant behind DestinationKnown and NothingLeaks: an entry
\* is in the map for as long as a goroutine may ask for it.
MapOutlivesRoutes ==
    /\ TypeOK
    /\ DestinationKnown
    /\ \A s \in Sessions : SessionInv(s)

\* An error on one connection ends the whole session: the goroutine of the
\* other one, which may be blocked in Read or in Write, is freed by the Close
\* that follows the first error (proxy.go:85-86).
ErrorEndsSession ==
    \A c \in Conns : route[c] = "reporting" ~> main[c[1]] = "finished"

\* c's goroutine is blocked writing to a peer that has stopped reading.
Stuck(c) ==
    /\ route[c] = "writing" /\ dest[c] = Twin(c)
    /\ open[Twin(c)] /\ outbox[Twin(c)] = Window

\* When a peer goes away its session ends, whatever point of its set-up it has
\* reached, unless the goroutine that would notice is blocked for ever because
\* the other peer has stopped reading.
PeerLossEndsSession ==
    \A c \in Conns :
        [](gone[c] => <>(main[c[1]] = "finished" \/ []Stuck(c)))
=============================================================================
