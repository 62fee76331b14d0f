--------------------------- MODULE CipherHandshake ---------------------------
(***************************************************************************)
(* What one proxied block connection (ports base+1 .. base+98 of           *)
(* cmd/pso2-net) does to the packets it carries, and how both of its legs  *)
(* become encrypted.                                                       *)
(*                                                                         *)
(* Two goroutines run RoutePackets: "up" reads the connection accepted     *)
(* from the game ("server" in the code) and writes the one dialed to the   *)
(* PSO2 server ("client"), "down" does the reverse.  The game answers the  *)
(* PSO2 server's plain hello with a cipher packet that holds an RC4 key;   *)
(* from then on both ends encrypt everything.  The up goroutine takes the  *)
(* key from that packet, arms the server connection (HandlerCipher), sends *)
(* the packet on under SEGA's public key and then arms the client          *)
(* connection (ProxyHandlerCipher), while the down goroutine goes on       *)
(* reading the client connection.                                          *)
(*                                                                         *)
(* RC4 is a stream cipher: one packet read without the cipher, or a plain  *)
(* one read with it, puts the two keystreams out of step for good.  Both   *)
(* ends of the map entry exist while a goroutine runs: see ProxySession.   *)
(***************************************************************************)
EXTENDS Naturals, Sequences

CONSTANTS MaxSent,        \* packets each peer sends, the first one included
          PublicKeyFits   \* -pub is a 1024 bit key: SetKey succeeds

ASSUME MaxSentAssumption == MaxSent \in Nat \ {0}
ASSUME PublicKeyFitsAssumption == PublicKeyFits \in BOOLEAN

Dirs == {"up", "down"}
From(d) == IF d = "up" THEN "server" ELSE "client"
To(d) == IF d = "up" THEN "client" ELSE "server"

\* Packets are numbered by the peer that sends them.  Number 0 of the game is
\* the cipher packet, number 0 of the PSO2 server its hello.
Ids == 0 .. MaxSent - 1
Garbled == MaxSent

\* rc4: encrypted on the wire.  rsa: whose private key opens the RC4 key that
\* a cipher packet holds.
Packets == [id : Ids \cup {Garbled}, rc4 : BOOLEAN, rsa : {"proxy", "sega", "none"}]
Garbage == [id |-> Garbled, rc4 |-> FALSE, rsa |-> "none"]
Nothing == [id |-> MaxSent + 1, rc4 |-> FALSE, rsa |-> "none"]
IsCipher(d, p) == d = "up" /\ p.id = 0

VARIABLES
    sent,     \* packets the sender of a direction has sent
    rx,       \* packets on their way to the proxy
    tx,       \* packets the proxy has written
    got,      \* packets the receiver of a direction has taken
    pc,       \* where the goroutine of a direction stands
    held,     \* the packet it is handling
    framed,   \* its reads are in step with the sender's packets and keystream
    armed,    \* icipher and ocipher of a connection are set
    closed    \* Proxy has closed both connections

wires == <<sent, rx, tx, got>>
vars == <<wires, pc, held, framed, armed, closed>>

PCs == {"header", "body", "routing", "rekeying", "writing", "arming", "failed"}

\* Every variable has its type: no queue holds what neither peer sent nor a misread
\* stream can give.
TypeOK ==
    /\ sent \in [Dirs -> 0..MaxSent]
    /\ rx \in [Dirs -> Seq(Packets)]
    /\ tx \in [Dirs -> Seq(Packets)]
    /\ got \in [Dirs -> Seq(Packets)]
    /\ pc \in [Dirs -> PCs]
    /\ held \in [Dirs -> Packets \cup {Nothing}]
    /\ framed \in [Dirs -> BOOLEAN]
    /\ armed \in [{"server", "client"} -> BOOLEAN]
    /\ closed \in BOOLEAN

Init ==
    /\ sent = [d \in Dirs |-> 0]
    /\ rx = [d \in Dirs |-> <<>>]
    /\ tx = [d \in Dirs |-> <<>>]
    /\ got = [d \in Dirs |-> <<>>]
    /\ pc = [d \in Dirs |-> "header"]
    /\ held = [d \in Dirs |-> Nothing]
    /\ framed = [d \in Dirs |-> TRUE]
    /\ armed = [c \in {"server", "client"} |-> FALSE]
    /\ closed = FALSE

-----------------------------------------------------------------------------
(* The peers, as the code expects them: the PSO2 server speaks first and   *)
(* the game answers with the key; then each sends when it likes.           *)

\* What the receiver of direction d makes of the i-th packet it gets: the
\* first one must be plain, and open with its RSA key if it holds a key, and
\* the others must continue the RC4 stream.
Understood(d, i, p) ==
    IF p.rc4 = (i > 1) /\ (d = "up" /\ i = 1 => p.rsa = "sega")
    THEN p.id ELSE Garbled

MaySend(d) ==
    \/ d = "down" /\ sent[d] = 0
    \/ d = "down" /\ got["up"] # <<>> /\ Understood("up", 1, got["up"][1]) = 0
    \/ d = "up" /\ got["down"] # <<>>

PeerSends(d) ==
    /\ ~closed /\ sent[d] < MaxSent /\ MaySend(d)
    /\ rx' = [rx EXCEPT ![d] =
                Append(@, [id |-> sent[d], rc4 |-> sent[d] > 0,
                           rsa |-> IF d = "up" /\ sent[d] = 0 THEN "proxy" ELSE "none"])]
    /\ sent' = [sent EXCEPT ![d] = @ + 1]
    /\ UNCHANGED <<tx, got, pc, held, framed, armed, closed>>

PeerTakes(d) ==
    /\ tx[d] # <<>>
    /\ got' = [got EXCEPT ![d] = Append(@, Head(tx[d]))]
    /\ tx' = [tx EXCEPT ![d] = Tail(@)]
    /\ UNCHANGED <<sent, rx, pc, held, framed, armed, closed>>

-----------------------------------------------------------------------------
(* The goroutines.                                                         *)

Step(d, from, to) ==
    /\ pc[d] = from
    /\ pc' = [pc EXCEPT ![d] = to]

InStep(d, p) == framed[d] /\ p.rc4 = armed[From(d)]

\* ReadPacket up to its first look at icipher.
ReadHeader(d) ==
    /\ ~closed /\ rx[d] # <<>>
    /\ InStep(d, Head(rx[d]))
    /\ Step(d, "header", "body")
    /\ held' = [held EXCEPT ![d] = Head(rx[d])]
    /\ rx' = [rx EXCEPT ![d] = Tail(@)]
    /\ UNCHANGED <<sent, tx, got, framed, armed, closed>>

\* A header decoded with the wrong keystream: its size is refused, or is
\* plausible by chance and frames bytes that are no packet.
MisreadHeader(d) ==
    /\ ~closed /\ rx[d] # <<>>
    /\ ~InStep(d, Head(rx[d]))
    /\ \E to \in {"body", "failed"} : Step(d, "header", to)
    /\ held' = [held EXCEPT ![d] = Garbage]
    /\ framed' = [framed EXCEPT ![d] = FALSE]
    /\ rx' = [rx EXCEPT ![d] = Tail(@)]
    /\ UNCHANGED <<sent, tx, got, armed, closed>>

\* ReadPacket's second look at icipher.
ReadBody(d) ==
    /\ ~closed
    /\ Step(d, "body", "routing")
    /\ framed' = [framed EXCEPT ![d] = InStep(d, held[d])]
    /\ held' = [held EXCEPT ![d] = IF InStep(d, @) THEN @ ELSE Garbage]
    /\ UNCHANGED <<wires, armed, closed>>

\* The peer is gone, or Close came first.
ReadFails(d) ==
    /\ \E at \in {"header", "body"} : Step(d, at, "failed")
    /\ UNCHANGED <<wires, held, framed, armed, closed>>

\* Mutant of HandlerCipher: the server connection is left in the clear.
HandlerCipherUnarmed(d) ==
    /\ held[d] # Nothing /\ IsCipher(d, held[d])
    /\ Step(d, "routing", "rekeying")
    /\ UNCHANGED <<wires, held, framed, armed, closed>>

\* Mutant of HandlerCipher: registered without HandlerIgnore, so that the packet
\* goes to no other handler.
HandlerCipherConsumes(d) ==
    /\ held[d] # Nothing /\ IsCipher(d, held[d])
    /\ Step(d, "routing", "header")
    /\ armed' = [armed EXCEPT ![From(d)] = TRUE]
    /\ held' = [held EXCEPT ![d] = Nothing]
    /\ UNCHANGED <<wires, framed, closed>>

\* HandlerIgnore(HandlerCipher(..)), at RoutePriorityHigh: leaves the packet to
\* the next handler.
HandlerCipher(d) ==
    /\ held[d] # Nothing /\ IsCipher(d, held[d])
    /\ Step(d, "routing", "rekeying")
    /\ armed' = [armed EXCEPT ![From(d)] = TRUE]
    /\ UNCHANGED <<wires, held, framed, closed>>

\* The RSA decryption fails or does not give 32 bytes.
HandlerCipherFails(d) ==
    /\ held[d] # Nothing /\ IsCipher(d, held[d])
    /\ Step(d, "routing", "failed")
    /\ UNCHANGED <<wires, held, framed, armed, closed>>

\* Mutant of ProxyHandlerCipher: the client connection is armed too early.
ProxyHandlerCipherArmsFirst(d) ==
    /\ Step(d, "rekeying", "writing")
    /\ held' = [held EXCEPT ![d].rsa = IF PublicKeyFits THEN "sega" ELSE @]
    /\ armed' = [armed EXCEPT ![To(d)] = TRUE]
    /\ UNCHANGED <<wires, framed, closed>>

\* ProxyHandlerCipher up to its WritePacket.  The error of SetKey is dropped,
\* and then the packet goes out under the key it came with.
ProxyHandlerCipher(d) ==
    /\ Step(d, "rekeying", "writing")
    /\ held' = [held EXCEPT ![d].rsa = IF PublicKeyFits THEN "sega" ELSE @]
    /\ UNCHANGED <<wires, framed, armed, closed>>

\* The fallback and the handlers that rewrite addresses.
Fallback(d) ==
    /\ held[d] # Nothing /\ ~IsCipher(d, held[d])
    /\ Step(d, "routing", "writing")
    /\ UNCHANGED <<wires, held, framed, armed, closed>>

\* The mask 0xffff of the fallback matches no packet of type 0.
Ignore(d) ==
    /\ held[d] = Garbage
    /\ Step(d, "routing", "header")
    /\ held' = [held EXCEPT ![d] = Nothing]
    /\ UNCHANGED <<wires, framed, armed, closed>>

WritePacket(d) ==
    /\ ~closed
    /\ Step(d, "writing", IF IsCipher(d, held[d]) THEN "arming" ELSE "header")
    /\ tx' = [tx EXCEPT ![d] = Append(@, [held[d] EXCEPT !.rc4 = armed[To(d)]])]
    /\ held' = [held EXCEPT ![d] = Nothing]
    /\ UNCHANGED <<sent, rx, got, framed, armed, closed>>

WriteFails(d) ==
    /\ Step(d, "writing", "failed")
    /\ UNCHANGED <<wires, held, framed, armed, closed>>

\* Mutant of SetCipher: the connection the packet came from is armed again.
SetCipherSource(d) ==
    /\ Step(d, "arming", "header")
    /\ armed' = [armed EXCEPT ![From(d)] = TRUE]
    /\ UNCHANGED <<wires, held, framed, closed>>

\* dest.SetCipher, the end of ProxyHandlerCipher.
SetCipher(d) ==
    /\ Step(d, "arming", "header")
    /\ armed' = [armed EXCEPT ![To(d)] = TRUE]
    /\ UNCHANGED <<wires, held, framed, closed>>

\* Proxy closes both connections after the first error.
Close ==
    /\ ~closed /\ \E d \in Dirs : pc[d] = "failed"
    /\ closed' = TRUE
    /\ UNCHANGED <<wires, pc, held, framed, armed>>

Handle(d) ==
    \/ HandlerCipher(d) \/ HandlerCipherFails(d) \/ ProxyHandlerCipher(d)
    \/ Fallback(d) \/ Ignore(d)
    \/ WritePacket(d) \/ WriteFails(d) \/ SetCipher(d)

Goroutine(d) ==
    ReadHeader(d) \/ MisreadHeader(d) \/ ReadBody(d) \/ ReadFails(d) \/ Handle(d)

Next ==
    \/ Close
    \/ \E d \in Dirs : Goroutine(d) \/ PeerSends(d) \/ PeerTakes(d)

\* A goroutine whose packet has arrived reads it, and one that handles a packet
\* goes on; Proxy closes.  The peers read what they are sent.
Fairness ==
    /\ WF_vars(Close)
    /\ \A d \in Dirs :
          /\ WF_vars(ReadHeader(d) \/ MisreadHeader(d) \/ ReadBody(d) \/ Handle(d))
          /\ WF_vars(PeerTakes(d))

Spec == Init /\ [][Next]_vars /\ Fairness

-----------------------------------------------------------------------------
(* Correctness.                                                            *)

\* Everything written or taken in a direction, in order.
Written(d) == got[d] \o tx[d]

\* Neither peer ever gets a packet under another cipher than it expects: the
\* cipher packet and the hello plain, all that follows encrypted.  This needs
\* the server connection armed before the key leaves for the PSO2 server
\* (net.go:202-203 by priority), or its answer could reach the game plain.
PeersInStep ==
    \A d \in Dirs : \A i \in 1 .. Len(Written(d)) : Written(d)[i].rc4 = (i > 1)

\* The keystreams of a leg can only be put out of step on the client leg, and
\* the packets read before are forwarded intact and in order.
GarbledOnlyAfterMisreading ==
    /\ framed["up"]
    /\ \A d \in Dirs : framed[d] =>
          \A i \in 1 .. Len(Written(d)) : Written(d)[i].id = i - 1

\* Packets that the goroutine of a direction has read.
Taken(d) == sent[d] - Len(rx[d])

\* What waits for the goroutine is what was sent since, and only the first
\* packet of a direction is plain.
ArrivesInOrder(d) ==
    \A i \in 1 .. Len(rx[d]) :
        /\ rx[d][i].id = Taken(d) + i - 1
        /\ rx[d][i].rc4 = (Taken(d) + i > 1)

\* Where a goroutine stands determines whether it holds a packet.
Handling == {"body", "routing", "rekeying", "writing"}
HoldsOne(d) == pc[d] \in Handling => held[d] # Nothing

\* While its reads are in step, a goroutine has written all that it has read,
\* but for the packet that it holds.
HoldsWhatItRead(d) ==
    IF pc[d] \in Handling
    THEN /\ Len(Written(d)) = Taken(d) - 1
         /\ held[d].id = Taken(d) - 1
         /\ held[d].rc4 = (Taken(d) > 1)
    ELSE pc[d] # "failed" => Len(Written(d)) = Taken(d)

\* Where the up goroutine stands determines which connection is armed: the
\* server connection from HandlerCipher on, the client one from SetCipher on.
KeyInPlace ==
    /\ armed["client"] <=> Len(Written("up")) > 0 /\ pc["up"] # "arming"
    /\ armed["server"] => Taken("up") > 0
    /\ Len(Written("up")) > 0 => armed["server"]
    /\ pc["up"] # "failed" =>
          (armed["server"] <=> Taken("up") > IF pc["up"] \in {"body", "routing"} THEN 1 ELSE 0)
    /\ pc["up"] \in {"rekeying", "arming"} => Taken("up") = 1
    /\ pc["down"] \notin {"rekeying", "arming"}

\* The peers wait for one another: no key before the hello, and nothing more from
\* the PSO2 server before the key.
PeersTakeTurns ==
    /\ sent["up"] > 0 => got["down"] # <<>>
    /\ sent["down"] > 1 => got["up"] # <<>>

\* Why the peers stay in step (proxy.go:287-318, connection.go:37-117): the order
\* in which the key is taken, the connections are armed and the peers answer
\* leaves only an answer of the PSO2 server to be misread, never its hello and
\* nothing that the game sends.
CipherInv ==
    /\ TypeOK /\ PeersInStep /\ GarbledOnlyAfterMisreading
    /\ KeyInPlace /\ PeersTakeTurns
    /\ \A d \in Dirs : ArrivesInOrder(d) /\ HoldsOne(d) /\ (framed[d] => HoldsWhatItRead(d))
    /\ ~framed["down"] => Taken("down") > 1 /\ Len(Written("down")) > 0

\* A key that the game sends is delivered to the PSO2 server, with both legs
\* armed, or the session ends.
KeyDelivered ==
    sent["up"] > 0 ~> \/ closed
                      \/ /\ armed["server"] /\ armed["client"]
                         /\ got["up"] # <<>> /\ Understood("up", 1, got["up"][1]) = 0

\* Each direction seen as a relay of packet numbers.
InFlight(d) ==
    [i \in 1 .. Len(tx[d]) |-> Understood(d, Len(got[d]) + i, tx[d][i])]
       \o (IF held[d] = Nothing THEN <<>> ELSE <<held[d].id>>)
       \o [i \in 1 .. Len(rx[d]) |-> rx[d][i].id]
Arrived(d) == [i \in 1 .. Len(got[d]) |-> Understood(d, i, got[d][i])]

Uplink == INSTANCE Relay WITH Messages <- Ids, pending <- InFlight("up"),
                              delivered <- Arrived("up")
Downlink == INSTANCE Relay WITH Messages <- Ids, pending <- InFlight("down"),
                                delivered <- Arrived("down")

\* The PSO2 server receives what the game sends: in order, once, unaltered.
UplinkRelays == Uplink!Spec

\* The game receives what the PSO2 server sends: in order, once, unaltered.
DownlinkRelays == Downlink!Spec
=============================================================================
