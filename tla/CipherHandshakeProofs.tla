------------------------ MODULE CipherHandshakeProofs ------------------------
(***************************************************************************)
(* Proofs about CipherHandshake, for any number of packets and whether or  *)
(* not the public key fits: the order in which the connections are armed   *)
(* keeps the peers in step, and nothing is forwarded garbled before a      *)
(* packet of the PSO2 server has been misread.                             *)
(***************************************************************************)
EXTENDS CipherHandshake, SequenceTheorems, TLAPS

-----------------------------------------------------------------------------
(* Sequences.                                                              *)

(* Taking the first of the packets on their way to the receiver leaves all  *)
(* that was written to it as it was.                                       *)
LEMMA TakingMovesTheFirst ==
    ASSUME NEW S, NEW g \in Seq(S), NEW t \in Seq(S), t # <<>>
    PROVE  Append(g, Head(t)) \o Tail(t) = g \o t
  <1>1. Head(t) \in S /\ Tail(t) \in Seq(S) /\ Len(Tail(t)) = Len(t) - 1
        /\ \A i \in 1 .. Len(Tail(t)) : Tail(t)[i] = t[i + 1]
    BY HeadTailProperties
  <1>2. /\ Append(g, Head(t)) \in Seq(S)
        /\ Len(Append(g, Head(t))) = Len(g) + 1
        /\ \A i \in 1 .. Len(g) : Append(g, Head(t))[i] = g[i]
        /\ Append(g, Head(t))[Len(g) + 1] = t[1]
    BY <1>1
  <1> DEFINE l == Append(g, Head(t)) \o Tail(t)  r == g \o t
  <1>3. l \in Seq(S) /\ r \in Seq(S) /\ Len(l) = Len(r) /\ Len(r) = Len(g) + Len(t)
    BY <1>1, <1>2, ConcatProperties, LenProperties
  <1>4. ASSUME NEW i \in 1 .. Len(l) PROVE l[i] = r[i]
    <2>0. Len(g) \in Nat /\ Len(t) \in Nat
      BY LenProperties
    <2>1. l[i] = IF i <= Len(g) + 1 THEN Append(g, Head(t))[i] ELSE Tail(t)[i - (Len(g) + 1)]
      BY <1>1, <1>2, <1>3, <2>0, ConcatProperties
    <2>2. r[i] = IF i <= Len(g) THEN g[i] ELSE t[i - Len(g)]
      BY <1>3, <2>0, ConcatProperties
    <2> QED
      BY <2>0, <2>1, <2>2, <1>1, <1>2, <1>3
  <1> HIDE DEF l, r
  <1>5. l = r
    BY <1>3, <1>4, SeqEqual
  <1> QED
    BY <1>5 DEF l, r

(* Writing a packet adds it to what was written.                           *)
LEMMA WritingAppends ==
    ASSUME NEW S, NEW g \in Seq(S), NEW t \in Seq(S), NEW p \in S
    PROVE  /\ g \o Append(t, p) \in Seq(S)
           /\ Len(g \o Append(t, p)) = Len(g \o t) + 1
           /\ \A i \in 1 .. Len(g \o t) : (g \o Append(t, p))[i] = (g \o t)[i]
           /\ (g \o Append(t, p))[Len(g \o t) + 1] = p
  <1>1. g \o t \in Seq(S) /\ <<p>> \in Seq(S)
    BY ConcatProperties
  <1>2. g \o Append(t, p) = Append(g \o t, p)
    <2>1. Append(t, p) = t \o <<p>> /\ Append(g \o t, p) = (g \o t) \o <<p>>
      BY <1>1, AppendIsConcat
    <2>2. (g \o t) \o <<p>> = g \o (t \o <<p>>)
      BY <1>1, ConcatAssociative
    <2> QED
      BY <2>1, <2>2, Zenon
  <1> DEFINE w == g \o t
  <1>3. /\ Append(w, p) \in Seq(S) /\ Len(Append(w, p)) = Len(w) + 1
        /\ \A i \in 1 .. Len(w) : Append(w, p)[i] = w[i]
        /\ Append(w, p)[Len(w) + 1] = p
    <2> HIDE DEF w
    <2>1. w \in Seq(S)
      BY <1>1 DEF w
    <2> QED
      BY <2>1, AppendProperties
  <1> QED
    BY <1>2, <1>3, Zenon

-----------------------------------------------------------------------------
(* What the steps change.                                                  *)

(* All that was written in a direction is a sequence of packets.           *)
LEMMA WrittenType ==
    ASSUME TypeOK, NEW d \in Dirs
    PROVE  Written(d) \in Seq(Packets) /\ Len(Written(d)) \in Nat
  BY ConcatProperties, LenProperties DEF TypeOK, Written

(* What was taken was written.                                             *)
LEMMA TakenWasWritten ==
    ASSUME TypeOK, NEW d \in Dirs, got[d] # <<>>
    PROVE  Len(Written(d)) > 0
  <1>1. got[d] \in Seq(Packets) /\ tx[d] \in Seq(Packets)
    BY DEF TypeOK
  <1>2. Len(got[d]) \in Nat \ {0}
    BY <1>1, EmptySeq
  <1>4. Len(tx[d]) \in Nat
    BY <1>1, LenProperties
  <1>3. Len(got[d] \o tx[d]) = Len(got[d]) + Len(tx[d])
    BY <1>1, ConcatProperties
  <1>5. \A x, y, z : x \in Nat \ {0} /\ y \in Nat /\ z = x + y => z > 0
    OBVIOUS
  <1>6. Len(got[d] \o tx[d]) > 0
    BY <1>2, <1>3, <1>4, <1>5, Zenon
  <1> QED
    BY <1>6, Zenon DEF Written

(* A direction has read at most what was sent.                             *)
LEMMA TakenType ==
    ASSUME TypeOK, NEW d \in Dirs
    PROVE  Taken(d) \in Int /\ Len(rx[d]) \in Nat /\ Taken(d) <= sent[d]
  <1>1. rx[d] \in Seq(Packets) /\ sent[d] \in 0 .. MaxSent
    BY DEF TypeOK
  <1>2. Len(rx[d]) \in Nat /\ sent[d] \in Nat
    BY <1>1, LenProperties, MaxSentAssumption
  <1> QED
    BY <1>2 DEF Taken

(* The server connection is armed only after the hello was written.        *)
LEMMA HelloBeforeKey ==
    ASSUME CipherInv, armed["server"]
    PROVE  Len(Written("down")) > 0
  <1>1. TypeOK /\ Taken("up") > 0 /\ PeersTakeTurns
    BY DEF CipherInv, KeyInPlace
  <1>2. sent["up"] \in Nat
    BY <1>1, MaxSentAssumption DEF TypeOK, Dirs
  <1>3. sent["up"] > 0
    BY <1>1, <1>2, TakenType DEF Dirs
  <1> QED
    BY <1>1, <1>3, TakenWasWritten DEF Dirs, PeersTakeTurns

(* Nor is the client connection, which is armed later.                     *)
LEMMA HelloFirst ==
    ASSUME CipherInv, armed["client"]
    PROVE  armed["server"] /\ Len(Written("down")) > 0
  <1>1. armed["server"]
    BY DEF CipherInv, KeyInPlace
  <1> QED
    BY <1>1, HelloBeforeKey

(* The server connection is armed as soon as the PSO2 server may have sent  *)
(* anything after its hello.                                               *)
LEMMA KeyBeforeMore ==
    ASSUME CipherInv, sent["down"] > 1
    PROVE  armed["server"]
  <1>1. TypeOK /\ PeersTakeTurns /\ KeyInPlace
    BY DEF CipherInv
  <1> QED
    BY <1>1, TakenWasWritten DEF Dirs, PeersTakeTurns, KeyInPlace

-----------------------------------------------------------------------------
(* The type invariant.                                                     *)

(* The packets that the peers and the proxy make.                          *)
LEMMA PacketTypes ==
    /\ Garbage \in Packets
    /\ \A p \in Packets, b \in BOOLEAN : [p EXCEPT !.rc4 = b] \in Packets
    /\ \A p \in Packets : [p EXCEPT !.rsa = "sega"] \in Packets
    /\ \A p \in Packets : p.rc4 \in BOOLEAN
    /\ \A i \in 0 .. MaxSent - 1, r \in {"proxy", "none"} :
          [id |-> i, rc4 |-> i > 0, rsa |-> r] \in Packets
    /\ Nothing \notin Packets
  BY MaxSentAssumption DEF Garbage, Packets, Ids, Garbled, Nothing

(* ProxyHandlerCipher leaves a packet in hand.                              *)
LEMMA Rekeyed ==
    ASSUME NEW d \in Dirs, ProxyHandlerCipher(d), held[d] \in Packets
    PROVE  \E q \in Packets : held' = [held EXCEPT ![d] = q]
  <1> DEFINE q == [held[d] EXCEPT !.rsa = IF PublicKeyFits THEN "sega" ELSE @]
  <1>1. q \in Packets
    BY DEF Packets
  <1>2. held' = [held EXCEPT ![d] = q]
    BY DEF ProxyHandlerCipher
  <1> HIDE DEF q
  <1> QED
    BY <1>1, <1>2

(* Types are kept, and whoever handles a packet holds one.                  *)
LEMMA TypeStep ==
    ASSUME TypeOK, \A d \in Dirs : HoldsOne(d), [Next]_vars
    PROVE  TypeOK' /\ \A d \in Dirs : HoldsOne(d)'
  <1> DEFINE Goal == TypeOK' /\ \A d \in Dirs : HoldsOne(d)'
  <1> USE PacketTypes DEF TypeOK, Dirs, PCs, wires, Step, HoldsOne, Handling
  <1>1. CASE Close
    BY <1>1 DEF Close
  <1>2. ASSUME NEW d \in Dirs, Goroutine(d), d \in Dirs PROVE Goal
    <2>1. CASE ReadHeader(d)
      <3>1. rx[d] \in Seq(Packets) /\ rx[d] # <<>>
        BY <2>1 DEF ReadHeader
      <3>2. Head(rx[d]) \in Packets /\ Tail(rx[d]) \in Seq(Packets)
        BY <3>1, HeadTailProperties
      <3> QED
        BY <2>1, <3>2 DEF ReadHeader
    <2>2. CASE MisreadHeader(d)
      <3>1. rx[d] \in Seq(Packets) /\ rx[d] # <<>>
        BY <2>2 DEF MisreadHeader
      <3>2. Tail(rx[d]) \in Seq(Packets)
        BY <3>1, HeadTailProperties
      <3> QED
        BY <2>2, <3>2, PacketTypes DEF MisreadHeader
    <2>3. CASE ReadBody(d)
      <3>1. InStep(d, held[d]) \in BOOLEAN
        BY DEF InStep
      <3> QED
        BY <2>3, <3>1, PacketTypes DEF ReadBody
    <2>4. CASE ReadFails(d)
      BY <2>4 DEF ReadFails
    <2>5. CASE HandlerCipher(d)
      BY <2>5 DEF HandlerCipher, From
    <2>6. CASE HandlerCipherFails(d)
      BY <2>6 DEF HandlerCipherFails
    <2>7. CASE ProxyHandlerCipher(d)
      <3>1. held[d] \in Packets
        BY <2>7 DEF ProxyHandlerCipher
      <3>2. PICK q \in Packets : held' = [held EXCEPT ![d] = q]
        BY <2>7, <3>1, Rekeyed
      <3>3. held' \in [Dirs -> Packets \cup {Nothing}] /\ held'[d] = q
        BY <3>2
      <3>4. pc' = [pc EXCEPT ![d] = "writing"] /\ UNCHANGED <<wires, framed, armed, closed>>
        BY <2>7 DEF ProxyHandlerCipher
      <3>5. \A c \in Dirs : c # d => held'[c] = held[c]
        BY <3>2
      <3>6. q # Nothing
        BY PacketTypes
      <3> QED
        BY <3>3, <3>4, <3>5, <3>6
    <2>8. CASE Fallback(d)
      BY <2>8 DEF Fallback
    <2>9. CASE Ignore(d)
      BY <2>9 DEF Ignore
    <2>10. CASE WritePacket(d)
      BY <2>10, PacketTypes DEF WritePacket, To
    <2>11. CASE WriteFails(d)
      BY <2>11 DEF WriteFails
    <2>12. CASE SetCipher(d)
      BY <2>12 DEF SetCipher, To
    <2> QED
      BY <1>2, <2>1, <2>2, <2>3, <2>4, <2>5, <2>6, <2>7, <2>8, <2>9, <2>10, <2>11, <2>12
      DEF Goroutine, Handle
  <1>3. ASSUME NEW d \in Dirs, PeerSends(d) PROVE Goal
    <2> DEFINE p == [id |-> sent[d], rc4 |-> sent[d] > 0,
                     rsa |-> IF d = "up" /\ sent[d] = 0 THEN "proxy" ELSE "none"]
    <2>0. sent[d] \in 0 .. MaxSent - 1
      BY <1>3, MaxSentAssumption DEF PeerSends
    <2>1. p \in Packets /\ sent[d] + 1 \in 0 .. MaxSent
      BY <2>0, MaxSentAssumption DEF Packets, Ids
    <2>2. rx' = [rx EXCEPT ![d] = Append(@, p)]
      BY <1>3 DEF PeerSends
    <2> HIDE DEF p
    <2>3. rx' \in [Dirs -> Seq(Packets)]
      BY <2>1, <2>2
    <2> QED
      BY <1>3, <2>1, <2>3 DEF PeerSends
  <1>4. ASSUME NEW d \in Dirs, PeerTakes(d) PROVE Goal
    <2>1. tx[d] \in Seq(Packets) /\ tx[d] # <<>>
      BY <1>4 DEF PeerTakes
    <2>2. Head(tx[d]) \in Packets /\ Tail(tx[d]) \in Seq(Packets)
      BY <2>1, HeadTailProperties
    <2>3. got' \in [Dirs -> Seq(Packets)]
      BY <1>4, <2>2 DEF PeerTakes
    <2> QED
      BY <1>4, <2>2, <2>3 DEF PeerTakes
  <1>5. CASE UNCHANGED vars
    BY <1>5 DEF vars
  <1> QED
    BY <1>1, <1>2, <1>3, <1>4, <1>5 DEF Next

-----------------------------------------------------------------------------
(* The inductive invariant, without the types.                             *)

(* While the packets on the wires stay, it is enough to know where the      *)
(* goroutines stand, what is armed and what is framed.                     *)
LEMMA QuietStep ==
    ASSUME CipherInv, [Next]_vars, UNCHANGED wires, KeyInPlace',
           framed'["up"], \A e \in Dirs : framed'[e] => framed[e] /\ HoldsWhatItRead(e)',
           ~framed'["down"] => Taken("down") > 1 /\ Len(Written("down")) > 0
    PROVE  CipherInv'
  <1>1. TypeOK' /\ \A e \in Dirs : HoldsOne(e)'
    BY TypeStep DEF CipherInv
  <1>2. \A e : Written(e)' = Written(e) /\ Taken(e)' = Taken(e)
    BY DEF Written, Taken, wires
  <1>3. PeersInStep'
    BY <1>2 DEF CipherInv, PeersInStep
  <1>4. GarbledOnlyAfterMisreading'
    BY <1>2 DEF CipherInv, GarbledOnlyAfterMisreading
  <1>5. PeersTakeTurns'
    BY DEF CipherInv, PeersTakeTurns, wires
  <1>6. \A e \in Dirs : ArrivesInOrder(e)'
    BY <1>2 DEF CipherInv, ArrivesInOrder, wires
  <1> QED
    BY <1>1, <1>2, <1>3, <1>4, <1>5, <1>6 DEF CipherInv

(* What the invariant says of the numbers.                                 *)
LEMMA Numbers ==
    ASSUME CipherInv, NEW d \in Dirs
    PROVE  /\ Taken(d) \in Int /\ Taken(d) <= MaxSent /\ Taken(d) <= sent[d]
           /\ Len(Written(d)) \in Nat
           /\ sent[d] \in Nat /\ sent[d] <= MaxSent
           /\ pc[d] \in PCs /\ framed[d] \in BOOLEAN
           /\ armed["client"] \in BOOLEAN /\ armed["server"] \in BOOLEAN
           /\ held[d] \in Packets \cup {Nothing}
  <1>1. TypeOK
    BY DEF CipherInv
  <1>2. sent[d] \in Nat /\ sent[d] <= MaxSent
    BY <1>1, MaxSentAssumption DEF TypeOK
  <1>3. Taken(d) \in Int /\ Taken(d) <= sent[d] /\ Len(Written(d)) \in Nat
    BY <1>1, TakenType, WrittenType
  <1>4. Taken(d) <= MaxSent
    BY <1>2, <1>3, MaxSentAssumption
  <1> QED
    BY <1>1, <1>2, <1>3, <1>4 DEF TypeOK

(* A goroutine that fails, or moves on without touching a cipher.           *)
LEMMA FailingSteps ==
    ASSUME CipherInv, NEW d \in Dirs, [Next]_vars,
           ReadFails(d) \/ HandlerCipherFails(d) \/ WriteFails(d)
    PROVE  CipherInv'
  <1>1. /\ pc[d] \in Handling \cup {"header"} /\ pc' = [pc EXCEPT ![d] = "failed"]
        /\ UNCHANGED <<wires, held, framed, armed, closed>>
    BY DEF ReadFails, HandlerCipherFails, WriteFails, Step, Handling
  <1>2. UNCHANGED wires
    BY <1>1
  <1>3. \A e : Written(e)' = Written(e) /\ Taken(e)' = Taken(e)
    BY <1>2 DEF Written, Taken, wires
  <1>4. pc \in [Dirs -> PCs]
    BY DEF CipherInv, TypeOK
  <1>5. KeyInPlace'
    <2>1. CASE d = "up"
      BY <1>1, <1>3, <1>4, <2>1 DEF CipherInv, KeyInPlace, Dirs, Handling
    <2>2. CASE d = "down"
      BY <1>1, <1>3, <1>4, <2>2 DEF CipherInv, KeyInPlace, Dirs
    <2> QED
      BY <2>1, <2>2 DEF Dirs
  <1>6. ASSUME NEW e \in Dirs, framed'[e] PROVE framed[e] /\ HoldsWhatItRead(e)'
    BY <1>1, <1>3, <1>4, <1>6 DEF CipherInv, HoldsWhatItRead, Handling
  <1>7. framed' = framed
    BY <1>1
  <1> QED
    BY <1>2, <1>5, <1>6, <1>7, QuietStep DEF CipherInv, GarbledOnlyAfterMisreading

(* HandlerCipher has the first packet that the game sent: only the hello may *)
(* have been read in the other direction.                                  *)
LEMMA HandlerCipherStep ==
    ASSUME CipherInv, NEW d \in Dirs, [Next]_vars, HandlerCipher(d)
    PROVE  CipherInv'
  <1>1. UNCHANGED wires /\ pc \in [Dirs -> PCs] /\ TypeOK
    BY DEF HandlerCipher, CipherInv, TypeOK
  <1>2. \A e : Written(e)' = Written(e) /\ Taken(e)' = Taken(e)
    BY <1>1 DEF Written, Taken, wires
  <1>3. d = "up" /\ Taken("up") = 1 /\ Len(Written("up")) = 0
    BY Numbers DEF HandlerCipher, Step, IsCipher, CipherInv, HoldsWhatItRead, Handling,
                   GarbledOnlyAfterMisreading, Dirs
  <1>4. armed'["server"] /\ armed'["client"] = armed["client"]
    BY <1>1, <1>3 DEF HandlerCipher, From, TypeOK
  <1>5. KeyInPlace'
    BY <1>1, <1>2, <1>3, <1>4 DEF HandlerCipher, Step, CipherInv, KeyInPlace, Dirs
  <1>6. ASSUME NEW e \in Dirs, framed'[e] PROVE framed[e] /\ HoldsWhatItRead(e)'
    BY <1>1, <1>2, <1>3, <1>6, Numbers DEF HandlerCipher, Step, CipherInv, HoldsWhatItRead, Handling, Dirs, TypeOK
  <1>7. framed' = framed
    BY DEF HandlerCipher
  <1> QED
    BY <1>1, <1>5, <1>6, <1>7, QuietStep DEF CipherInv, GarbledOnlyAfterMisreading

(* ProxyHandlerCipher changes whose key the packet is under, and nothing     *)
(* that the keystreams depend on.                                          *)
LEMMA ProxyHandlerCipherStep ==
    ASSUME CipherInv, NEW d \in Dirs, [Next]_vars, ProxyHandlerCipher(d)
    PROVE  CipherInv'
  <1>1. UNCHANGED wires /\ pc \in [Dirs -> PCs] /\ TypeOK
    BY DEF ProxyHandlerCipher, CipherInv, TypeOK
  <1>2. \A e : Written(e)' = Written(e) /\ Taken(e)' = Taken(e)
    BY <1>1 DEF Written, Taken, wires
  <1>3. d = "up" /\ Taken("up") = 1 /\ pc["up"] = "rekeying"
    BY DEF ProxyHandlerCipher, Step, CipherInv, KeyInPlace, Dirs
  <1>4. held[d] \in Packets
    BY <1>1, <1>3 DEF CipherInv, HoldsOne, Handling, TypeOK
  <1>5. KeyInPlace'
    BY <1>1, <1>2, <1>3 DEF ProxyHandlerCipher, Step, CipherInv, KeyInPlace, Dirs
  <1> DEFINE q == [held[d] EXCEPT !.rsa = IF PublicKeyFits THEN "sega" ELSE @]
  <1>8. q.id = held[d].id /\ q.rc4 = held[d].rc4
    BY <1>4 DEF Packets
  <1>9. held' = [held EXCEPT ![d] = q]
    BY DEF ProxyHandlerCipher
  <1> HIDE DEF q
  <1>6. ASSUME NEW e \in Dirs, framed'[e] PROVE framed[e] /\ HoldsWhatItRead(e)'
    BY <1>1, <1>2, <1>3, <1>8, <1>9, <1>6, Numbers DEF ProxyHandlerCipher, Step, CipherInv, HoldsWhatItRead, Handling, Dirs, TypeOK
  <1>7. framed' = framed
    BY DEF ProxyHandlerCipher
  <1> QED
    BY <1>1, <1>5, <1>6, <1>7, QuietStep DEF CipherInv, GarbledOnlyAfterMisreading

(* The fallback gets every packet of the game but the first.                *)
LEMMA FallbackStep ==
    ASSUME CipherInv, NEW d \in Dirs, [Next]_vars, Fallback(d)
    PROVE  CipherInv'
  <1>1. UNCHANGED wires /\ pc \in [Dirs -> PCs] /\ TypeOK
    BY DEF Fallback, CipherInv, TypeOK
  <1>2. \A e : Written(e)' = Written(e) /\ Taken(e)' = Taken(e)
    BY <1>1 DEF Written, Taken, wires
  <1>3. d = "up" => Taken("up") > 1
    BY Numbers DEF Fallback, Step, IsCipher, CipherInv, HoldsWhatItRead, Handling,
                   GarbledOnlyAfterMisreading, Dirs
  <1>5. KeyInPlace'
    BY <1>1, <1>2, <1>3, Numbers DEF Fallback, Step, CipherInv, KeyInPlace, Dirs
  <1>6. ASSUME NEW e \in Dirs, framed'[e] PROVE framed[e] /\ HoldsWhatItRead(e)'
    BY <1>1, <1>2, <1>3, <1>6, Numbers DEF Fallback, Step, CipherInv, HoldsWhatItRead, Handling, Dirs, TypeOK
  <1>7. framed' = framed
    BY DEF Fallback
  <1> QED
    BY <1>1, <1>5, <1>6, <1>7, QuietStep DEF CipherInv, GarbledOnlyAfterMisreading

(* Garbage is no packet of the game's: its keystream is in step.             *)
LEMMA IgnoreStep ==
    ASSUME CipherInv, NEW d \in Dirs, [Next]_vars, Ignore(d)
    PROVE  CipherInv'
  <1>1. UNCHANGED wires /\ pc \in [Dirs -> PCs] /\ TypeOK
    BY DEF Ignore, CipherInv, TypeOK
  <1>2. \A e : Written(e)' = Written(e) /\ Taken(e)' = Taken(e)
    BY <1>1 DEF Written, Taken, wires
  <1>3. ~framed[d] /\ d = "down"
    <2>1. held[d].id = MaxSent /\ pc[d] = "routing"
      BY DEF Ignore, Garbage, Garbled, Step
    <2>2. ~framed[d]
      BY <2>1, Numbers, MaxSentAssumption DEF CipherInv, HoldsWhatItRead, Handling
    <2> QED
      BY <2>2 DEF CipherInv, GarbledOnlyAfterMisreading, Dirs
  <1>5. KeyInPlace'
    BY <1>1, <1>2, <1>3 DEF Ignore, Step, CipherInv, KeyInPlace, Dirs
  <1>6. ASSUME NEW e \in Dirs, framed'[e] PROVE framed[e] /\ HoldsWhatItRead(e)'
    BY <1>1, <1>2, <1>3, <1>6, Numbers DEF Ignore, Step, CipherInv, HoldsWhatItRead, Handling, Dirs, TypeOK
  <1>7. framed' = framed
    BY DEF Ignore
  <1> QED
    BY <1>1, <1>5, <1>6, <1>7, QuietStep DEF CipherInv, GarbledOnlyAfterMisreading

(* The client connection is armed after the key was written and by nobody    *)
(* else.                                                                   *)
LEMMA SetCipherStep ==
    ASSUME CipherInv, NEW d \in Dirs, [Next]_vars, SetCipher(d)
    PROVE  CipherInv'
  <1>1. UNCHANGED wires /\ pc \in [Dirs -> PCs] /\ TypeOK
    BY DEF SetCipher, CipherInv, TypeOK
  <1>2. \A e : Written(e)' = Written(e) /\ Taken(e)' = Taken(e)
    BY <1>1 DEF Written, Taken, wires
  <1>3. d = "up" /\ Taken("up") = 1 /\ pc["up"] = "arming" /\ Len(Written("up")) = 1
    BY DEF SetCipher, Step, CipherInv, KeyInPlace, HoldsWhatItRead, Handling,
           GarbledOnlyAfterMisreading, Dirs
  <1>4. armed'["client"] /\ armed'["server"] = armed["server"]
    BY <1>1, <1>3 DEF SetCipher, To, TypeOK
  <1>5. KeyInPlace'
    BY <1>1, <1>2, <1>3, <1>4 DEF SetCipher, Step, CipherInv, KeyInPlace, Dirs
  <1>6. ASSUME NEW e \in Dirs, framed'[e] PROVE framed[e] /\ HoldsWhatItRead(e)'
    BY <1>1, <1>2, <1>3, <1>6, Numbers DEF SetCipher, Step, CipherInv, HoldsWhatItRead, Handling, Dirs, TypeOK
  <1>7. framed' = framed
    BY DEF SetCipher
  <1> QED
    BY <1>1, <1>5, <1>6, <1>7, QuietStep DEF CipherInv, GarbledOnlyAfterMisreading

(* The second look at the cipher: only what follows the hello can be        *)
(* misread.                                                                *)
LEMMA ReadBodyStep ==
    ASSUME CipherInv, NEW d \in Dirs, [Next]_vars, ReadBody(d)
    PROVE  CipherInv'
  <1>1. UNCHANGED wires /\ pc \in [Dirs -> PCs] /\ TypeOK
    BY DEF ReadBody, CipherInv, TypeOK
  <1>2. \A e : Written(e)' = Written(e) /\ Taken(e)' = Taken(e)
    BY <1>1 DEF Written, Taken, wires
  <1>3. pc[d] = "body" /\ pc' = [pc EXCEPT ![d] = "routing"] /\ UNCHANGED armed
        /\ framed' = [framed EXCEPT ![d] = InStep(d, held[d])]
        /\ held' = [held EXCEPT ![d] = IF InStep(d, held[d]) THEN held[d] ELSE Garbage]
    BY DEF ReadBody, Step
  <1>4. framed[d] => /\ Len(Written(d)) = Taken(d) - 1
                     /\ held[d].rc4 = (Taken(d) > 1)
    BY <1>3 DEF CipherInv, HoldsWhatItRead, Handling
  <1>5. KeyInPlace'
    <2>1. CASE d = "up"
      BY <1>2, <1>3, <1>1, <2>1 DEF CipherInv, KeyInPlace, Dirs
    <2>2. CASE d = "down"
      BY <1>2, <1>3, <1>1, <2>2 DEF CipherInv, KeyInPlace, Dirs
    <2> QED
      BY <2>1, <2>2 DEF Dirs
  <1>6. d = "up" => InStep(d, held[d])
    <2>1. SUFFICES ASSUME d = "up" PROVE InStep(d, held[d])
      OBVIOUS
    <2>2. framed["up"] /\ (armed["server"] <=> Taken("up") > 1)
      BY <1>3, <2>1 DEF CipherInv, KeyInPlace, GarbledOnlyAfterMisreading
    <2>3. held["up"].rc4 = armed["server"]
      BY <1>4, <2>1, <2>2, Numbers DEF Dirs
    <2> QED
      BY <2>1, <2>2, <2>3 DEF InStep, From
  <1>7. ASSUME d = "down", ~InStep(d, held[d])
        PROVE  Taken("down") > 1 /\ Len(Written("down")) > 0
    <2>1. CASE ~framed["down"]
      BY <2>1 DEF CipherInv
    <2>2. CASE framed["down"]
      <3>1. /\ Len(Written("down")) = Taken("down") - 1
            /\ held["down"].rc4 = (Taken("down") > 1)
            /\ held["down"].rc4 # armed["client"]
        BY <1>4, <1>7, <2>2 DEF InStep, From
      <3>2. Taken("down") >= 1
        BY <3>1, Numbers DEF Dirs
      <3>3. Taken("down") # 1
        <4>1. SUFFICES ASSUME Taken("down") = 1 PROVE FALSE
          OBVIOUS
        <4>2. armed["client"] /\ Len(Written("down")) = 0
          BY <3>1, <4>1, Numbers DEF Dirs
        <4> QED
          BY <4>2, HelloFirst
      <3> QED
        BY <3>1, <3>2, <3>3, Numbers DEF Dirs
    <2> QED
      BY <2>1, <2>2
  <1>8. framed'["up"] /\ (~framed'["down"] => Taken("down") > 1 /\ Len(Written("down")) > 0)
    BY <1>1, <1>3, <1>6, <1>7 DEF CipherInv, GarbledOnlyAfterMisreading, TypeOK, Dirs
  <1>9. ASSUME NEW e \in Dirs, framed'[e] PROVE framed[e] /\ HoldsWhatItRead(e)'
    <2>1. CASE e = d
      <3>1. InStep(d, held[d]) /\ framed[d]
        BY <1>1, <1>3, <1>9, <2>1 DEF TypeOK, InStep
      <3>2. held'[d] = held[d] /\ pc'[d] = "routing"
        BY <1>1, <1>3, <3>1 DEF TypeOK
      <3> QED
        BY <1>2, <1>3, <3>1, <3>2, <2>1 DEF CipherInv, HoldsWhatItRead, Handling
    <2>2. CASE e # d
      BY <1>1, <1>2, <1>3, <1>9, <2>2 DEF CipherInv, HoldsWhatItRead, Handling, TypeOK
    <2> QED
      BY <2>1, <2>2
  <1> QED
    BY <1>1, <1>5, <1>8, <1>9, QuietStep

(* Close, and steps that change nothing.                                   *)
LEMMA StillSteps ==
    ASSUME CipherInv, [Next]_vars, Close \/ UNCHANGED vars
    PROVE  CipherInv'
  <1>1. UNCHANGED <<wires, pc, held, framed, armed>>
    BY DEF Close, vars
  <1>2. UNCHANGED wires
    BY <1>1
  <1>3. \A e : Written(e)' = Written(e) /\ Taken(e)' = Taken(e)
    BY <1>2 DEF Written, Taken, wires
  <1>4. KeyInPlace' /\ \A e \in Dirs : framed'[e] => framed[e] /\ HoldsWhatItRead(e)'
    BY <1>1, <1>3 DEF CipherInv, KeyInPlace, HoldsWhatItRead
  <1> QED
    BY <1>1, <1>2, <1>4, QuietStep DEF CipherInv, GarbledOnlyAfterMisreading

(* A packet that is sent waits behind those that were sent before it.       *)
LEMMA SendingKeeps ==
    ASSUME CipherInv, NEW d \in Dirs, PeerSends(d)
    PROVE  /\ Len(rx'[d]) = Len(rx[d]) + 1
           /\ \A i \in 1 .. Len(rx[d]) : rx'[d][i] = rx[d][i]
           /\ rx'[d][Len(rx[d]) + 1].id = sent[d]
           /\ rx'[d][Len(rx[d]) + 1].rc4 = (sent[d] > 0)
           /\ Len(rx[d]) \in Nat /\ sent[d] \in 0 .. MaxSent - 1
           /\ \A e \in Dirs : Written(e)' = Written(e) /\ Taken(e)' = Taken(e)
  <1>1. TypeOK
    BY DEF CipherInv
  <1> DEFINE p == [id |-> sent[d], rc4 |-> sent[d] > 0,
                   rsa |-> IF d = "up" /\ sent[d] = 0 THEN "proxy" ELSE "none"]
  <1>2. /\ UNCHANGED <<tx, got, pc, held, framed, armed>>
        /\ rx' = [rx EXCEPT ![d] = Append(@, p)]
        /\ sent' = [sent EXCEPT ![d] = @ + 1]
        /\ MaySend(d)
    BY DEF PeerSends
  <1>3. p.id = sent[d] /\ p.rc4 = (sent[d] > 0)
    OBVIOUS
  <1>4. sent[d] \in 0 .. MaxSent - 1
    BY <1>1, MaxSentAssumption DEF PeerSends, TypeOK
  <1>5. p \in Packets
    BY <1>4, MaxSentAssumption DEF Packets, Ids
  <1> HIDE DEF p
  <1>6. rx[d] \in Seq(Packets) /\ Len(rx[d]) \in Nat
    BY <1>1, LenProperties DEF TypeOK
  <1>7. /\ Len(rx'[d]) = Len(rx[d]) + 1
        /\ \A i \in 1 .. Len(rx[d]) : rx'[d][i] = rx[d][i]
        /\ rx'[d][Len(rx[d]) + 1] = p
    <2>1. rx'[d] = Append(rx[d], p)
      BY <1>1, <1>2 DEF TypeOK
    <2> QED
      BY <2>1, <1>5, <1>6, AppendProperties
  <1>8. \A e \in Dirs : Written(e)' = Written(e) /\ Taken(e)' = Taken(e)
    <2>1. ASSUME NEW e \in Dirs PROVE Taken(e)' = Taken(e)
      <3>1. CASE e = d
        BY <3>1, <1>1, <1>2, <1>4, <1>6, <1>7 DEF Taken, TypeOK
      <3>2. CASE e # d
        BY <3>2, <1>1, <1>2 DEF Taken, TypeOK
      <3> QED
        BY <3>1, <3>2
    <2> QED
      BY <2>1, <1>2 DEF Written
  <1> QED
    BY <1>3, <1>4, <1>6, <1>7, <1>8

(* A packet is sent.                                                       *)
LEMMA PeerSendsStep ==
    ASSUME CipherInv, NEW d \in Dirs, [Next]_vars, PeerSends(d)
    PROVE  CipherInv'
  <1>1. TypeOK /\ TypeOK' /\ \A e \in Dirs : HoldsOne(e)'
    BY TypeStep DEF CipherInv
  <1>2. /\ UNCHANGED <<tx, got, pc, held, framed, armed>> /\ sent' = [sent EXCEPT ![d] = @ + 1]
        /\ rx' \in [Dirs -> Seq(Packets)] /\ (\A e \in Dirs : e # d => rx'[e] = rx[e])
        /\ MaySend(d)
    BY <1>1 DEF PeerSends, TypeOK
  <1>7. /\ Len(rx'[d]) = Len(rx[d]) + 1
        /\ \A i \in 1 .. Len(rx[d]) : rx'[d][i] = rx[d][i]
        /\ rx'[d][Len(rx[d]) + 1].id = sent[d]
        /\ rx'[d][Len(rx[d]) + 1].rc4 = (sent[d] > 0)
        /\ Len(rx[d]) \in Nat /\ sent[d] \in 0 .. MaxSent - 1
    BY SendingKeeps
  <1>8. \A e \in Dirs : Written(e)' = Written(e) /\ Taken(e)' = Taken(e)
    BY SendingKeeps
  <1>9. ASSUME NEW e \in Dirs PROVE ArrivesInOrder(e)'
    <2>1. CASE e = d
      <3>1. Taken(d) = sent[d] - Len(rx[d])
        BY DEF Taken
      <3>2. ASSUME NEW i \in 1 .. Len(rx'[d])
            PROVE  rx'[d][i].id = Taken(d) + i - 1 /\ rx'[d][i].rc4 = (Taken(d) + i > 1)
        <4>1. CASE i = Len(rx[d]) + 1
          BY <4>1, <1>7, <3>1, MaxSentAssumption
        <4>2. CASE i # Len(rx[d]) + 1
          <5>1. i \in 1 .. Len(rx[d])
            BY <4>2, <1>7
          <5> QED
            BY <5>1, <1>7 DEF CipherInv, ArrivesInOrder
        <4> QED
          BY <4>1, <4>2
      <3> QED
        BY <2>1, <3>2, <1>8 DEF ArrivesInOrder
    <2>2. CASE e # d
      <3>1. rx'[e] = rx[e]
        BY <2>2, <1>2
      <3> QED
        BY <3>1, <1>8 DEF CipherInv, ArrivesInOrder
    <2> QED
      BY <2>1, <2>2
  <1>10. PeersInStep' /\ GarbledOnlyAfterMisreading'
    BY <1>2, <1>8 DEF CipherInv, PeersInStep, GarbledOnlyAfterMisreading
  <1>11. PeersTakeTurns'
    <2>1. CASE d = "up"
      BY <2>1, <1>1, <1>2 DEF CipherInv, PeersTakeTurns, MaySend, TypeOK, Dirs
    <2>2. CASE d = "down"
      BY <2>2, <1>1, <1>2 DEF CipherInv, PeersTakeTurns, MaySend, TypeOK, Dirs
    <2> QED
      BY <2>1, <2>2 DEF Dirs
  <1>12. KeyInPlace' /\ \A e \in Dirs : framed'[e] => HoldsWhatItRead(e)'
    BY <1>2, <1>8 DEF CipherInv, KeyInPlace, HoldsWhatItRead, Dirs
  <1> QED
    BY <1>1, <1>2, <1>8, <1>9, <1>10, <1>11, <1>12 DEF CipherInv, Dirs

(* A packet is taken: it stays among what was written.                     *)
LEMMA TakingKeeps ==
    ASSUME CipherInv, NEW d \in Dirs, PeerTakes(d)
    PROVE  \A e \in Dirs : Written(e)' = Written(e) /\ Taken(e)' = Taken(e)
  <1>1. TypeOK
    BY DEF CipherInv
  <1>2. /\ tx[d] # <<>> /\ UNCHANGED <<sent, rx, pc, held, framed, armed>>
        /\ got' = [got EXCEPT ![d] = Append(@, Head(tx[d]))]
        /\ tx' = [tx EXCEPT ![d] = Tail(@)]
    BY DEF PeerTakes
  <1>3. got[d] \in Seq(Packets) /\ tx[d] \in Seq(Packets)
    BY <1>1 DEF TypeOK
  <1>4. ASSUME NEW e \in Dirs PROVE Written(e)' = Written(e)
    <2>1. CASE e = d
      <3>1. got'[d] = Append(got[d], Head(tx[d])) /\ tx'[d] = Tail(tx[d])
        BY <1>1, <1>2 DEF TypeOK
      <3>2. Append(got[d], Head(tx[d])) \o Tail(tx[d]) = got[d] \o tx[d]
        BY <1>2, <1>3, TakingMovesTheFirst
      <3>3. got'[d] \o tx'[d] = got[d] \o tx[d]
        BY <3>1, <3>2, Zenon
      <3> QED
        BY <2>1, <3>3 DEF Written
    <2>2. CASE e # d
      BY <2>2, <1>1, <1>2 DEF TypeOK, Written
    <2> QED
      BY <2>1, <2>2
  <1>5. \A e \in Dirs : Taken(e)' = Taken(e)
    BY <1>2 DEF Taken
  <1> QED
    BY <1>4, <1>5

(* A packet is taken.                                                      *)
LEMMA PeerTakesStep ==
    ASSUME CipherInv, NEW d \in Dirs, [Next]_vars, PeerTakes(d)
    PROVE  CipherInv'
  <1>1. TypeOK /\ TypeOK' /\ \A e \in Dirs : HoldsOne(e)'
    BY TypeStep DEF CipherInv
  <1>2. /\ tx[d] # <<>> /\ UNCHANGED <<sent, rx, pc, held, framed, armed>>
        /\ got' = [got EXCEPT ![d] = Append(@, Head(tx[d]))]
        /\ tx' = [tx EXCEPT ![d] = Tail(@)]
    BY DEF PeerTakes
  <1>3. got[d] \in Seq(Packets) /\ tx[d] \in Seq(Packets)
    BY <1>1 DEF TypeOK
  <1>4. \A e \in Dirs : Written(e)' = Written(e)
    BY TakingKeeps
  <1>5. \A e \in Dirs : Taken(e)' = Taken(e)
    BY TakingKeeps
  <1>6. ASSUME NEW e \in Dirs, got[e] # <<>> PROVE got'[e] # <<>>
    <2>1. CASE e = d
      <3>1. Head(tx[d]) \in Packets
        BY <1>2, <1>3, HeadTailProperties
      <3>2. Append(got[d], Head(tx[d])) # <<>>
        BY <1>3, <3>1, AppendProperties
      <3> QED
        BY <2>1, <3>2, <1>1, <1>2 DEF TypeOK
    <2>2. CASE e # d
      BY <1>6, <2>2, <1>1, <1>2 DEF TypeOK
    <2> QED
      BY <2>1, <2>2
  <1>7. PeersTakeTurns'
    BY <1>2, <1>6 DEF CipherInv, PeersTakeTurns, Dirs
  <1>8. PeersInStep' /\ GarbledOnlyAfterMisreading'
    BY <1>2, <1>4 DEF CipherInv, PeersInStep, GarbledOnlyAfterMisreading
  <1>9. KeyInPlace' /\ \A e \in Dirs : framed'[e] => HoldsWhatItRead(e)'
    BY <1>2, <1>4, <1>5 DEF CipherInv, KeyInPlace, HoldsWhatItRead, Dirs
  <1>10. \A e \in Dirs : ArrivesInOrder(e)'
    BY <1>2, <1>5 DEF CipherInv, ArrivesInOrder
  <1> QED
    BY <1>1, <1>2, <1>4, <1>5, <1>7, <1>8, <1>9, <1>10 DEF CipherInv, Dirs

(* What a goroutine reads is the packet after the last one it has read.     *)
LEMMA ReadingMoves ==
    ASSUME CipherInv, NEW d \in Dirs, rx[d] # <<>>,
           rx' = [rx EXCEPT ![d] = Tail(@)], UNCHANGED <<sent, tx, got>>
    PROVE  /\ \A e \in Dirs : Written(e)' = Written(e)
           /\ Taken(d)' = Taken(d) + 1
           /\ \A e \in Dirs : e # d => Taken(e)' = Taken(e)
           /\ \A e \in Dirs : ArrivesInOrder(e)'
           /\ Head(rx[d]) \in Packets
           /\ Head(rx[d]).id = Taken(d) /\ Head(rx[d]).rc4 = (Taken(d) > 0)
           /\ sent[d] > 0 /\ Taken(d) < sent[d]
  <1>1. TypeOK /\ rx[d] \in Seq(Packets) /\ sent[d] \in Nat
    BY MaxSentAssumption DEF CipherInv, TypeOK
  <1>2. /\ Head(rx[d]) \in Packets /\ Head(rx[d]) = rx[d][1]
        /\ Len(Tail(rx[d])) = Len(rx[d]) - 1 /\ Len(rx[d]) \in Nat
        /\ \A i \in 1 .. Len(Tail(rx[d])) : Tail(rx[d])[i] = rx[d][i + 1]
    BY <1>1, HeadTailProperties, LenProperties
  <1>3. Len(rx[d]) > 0
    BY <1>1, <1>2, EmptySeq
  <1>4. rx'[d] = Tail(rx[d]) /\ \A e \in Dirs : e # d => rx'[e] = rx[e]
    BY <1>1 DEF TypeOK
  <1>14. /\ Len(rx'[d]) = Len(rx[d]) - 1
         /\ \A i \in 1 .. Len(rx'[d]) : rx'[d][i] = rx[d][i + 1]
    BY <1>2, <1>4, Zenon
  <1>15. Len(rx[d]) \in Nat
    BY <1>2
  <1>5. Taken(d)' = Taken(d) + 1 /\ Taken(d) < sent[d]
    <2>1. Taken(d)' = sent[d] - Len(rx'[d])
      BY DEF Taken
    <2>2. Taken(d) = sent[d] - Len(rx[d])
      BY DEF Taken
    <2> QED
      BY <2>1, <2>2, <1>1, <1>3, <1>14, <1>15
  <1>6. \A e \in Dirs : e # d => Taken(e)' = Taken(e)
    BY <1>4 DEF Taken
  <1>7. \A i \in 1 .. Len(rx[d]) : /\ rx[d][i].id = Taken(d) + i - 1
                                   /\ rx[d][i].rc4 = (Taken(d) + i > 1)
    BY DEF CipherInv, ArrivesInOrder
  <1>8. Taken(d) \in Int
    BY Numbers
  <1>9. Head(rx[d]).id = Taken(d) /\ Head(rx[d]).rc4 = (Taken(d) > 0)
    <2>1. rx[d][1].id = Taken(d) + 1 - 1 /\ rx[d][1].rc4 = (Taken(d) + 1 > 1)
      BY <1>2, <1>3, <1>7
    <2> QED
      BY <2>1, <1>2, <1>8
  <1>10. Taken(d) >= 0
    BY <1>2, <1>9, <1>8, MaxSentAssumption DEF Packets, Ids, Garbled
  <1>11. ASSUME NEW e \in Dirs PROVE ArrivesInOrder(e)'
    <2>1. CASE e = d
      <3>1. ASSUME NEW i \in 1 .. Len(rx'[d])
            PROVE  /\ rx'[d][i].id = Taken(d) + 1 + i - 1
                   /\ rx'[d][i].rc4 = (Taken(d) + 1 + i > 1)
        <4>1. i + 1 \in 1 .. Len(rx[d]) /\ rx'[d][i] = rx[d][i + 1]
          BY <1>14, <1>15
        <4>2. /\ rx[d][i + 1].id = Taken(d) + (i + 1) - 1
              /\ rx[d][i + 1].rc4 = (Taken(d) + (i + 1) > 1)
          BY <4>1, <1>7
        <4> QED
          BY <4>1, <4>2, <1>8
      <3> QED
        BY <2>1, <3>1, <1>5, <1>10, <1>8 DEF ArrivesInOrder
    <2>2. CASE e # d
      BY <2>2, <1>4, <1>6 DEF CipherInv, ArrivesInOrder
    <2> QED
      BY <2>1, <2>2
  <1>12. \A e \in Dirs : Written(e)' = Written(e)
    BY DEF Written
  <1>13. sent[d] > 0
    BY <1>1, <1>5, <1>8, <1>10
  <1> QED
    BY <1>2, <1>5, <1>6, <1>9, <1>11, <1>12, <1>13

(* A read in step gives the goroutine the packet that it must write next.   *)
LEMMA ReadHeaderStep ==
    ASSUME CipherInv, NEW d \in Dirs, [Next]_vars, ReadHeader(d)
    PROVE  CipherInv'
  <1>1. TypeOK /\ TypeOK' /\ \A e \in Dirs : HoldsOne(e)'
    BY TypeStep DEF CipherInv
  <1>2. /\ rx[d] # <<>> /\ rx' = [rx EXCEPT ![d] = Tail(@)] /\ UNCHANGED <<sent, tx, got>>
        /\ UNCHANGED <<framed, armed>> /\ framed[d]
        /\ pc[d] = "header" /\ pc' = [pc EXCEPT ![d] = "body"]
        /\ held' = [held EXCEPT ![d] = Head(rx[d])]
    BY DEF ReadHeader, Step, InStep
  <1>3. /\ \A e \in Dirs : Written(e)' = Written(e)
        /\ Taken(d)' = Taken(d) + 1
        /\ \A e \in Dirs : e # d => Taken(e)' = Taken(e)
        /\ \A e \in Dirs : ArrivesInOrder(e)'
        /\ Head(rx[d]).id = Taken(d) /\ Head(rx[d]).rc4 = (Taken(d) > 0)
    BY <1>2, ReadingMoves
  <1>4. PeersInStep' /\ GarbledOnlyAfterMisreading' /\ PeersTakeTurns'
    BY <1>2, <1>3 DEF CipherInv, PeersInStep, GarbledOnlyAfterMisreading, PeersTakeTurns
  <1>5. KeyInPlace'
    <2>1. CASE d = "up"
      BY <2>1, <1>1, <1>2, <1>3, Numbers DEF CipherInv, KeyInPlace, TypeOK, Dirs
    <2>2. CASE d = "down"
      BY <2>2, <1>1, <1>2, <1>3 DEF CipherInv, KeyInPlace, TypeOK, Dirs
    <2> QED
      BY <2>1, <2>2 DEF Dirs
  <1>6. ASSUME NEW e \in Dirs, framed'[e] PROVE HoldsWhatItRead(e)'
    <2>1. CASE e = d
      <3>1. Len(Written(d)) = Taken(d) /\ Taken(d) \in Int
        BY <1>2, Numbers DEF CipherInv, HoldsWhatItRead, Handling
      <3>2. pc'[d] = "body" /\ held'[d] = Head(rx[d])
        BY <1>1, <1>2 DEF TypeOK
      <3> QED
        BY <2>1, <3>1, <3>2, <1>3 DEF HoldsWhatItRead, Handling
    <2>2. CASE e # d
      BY <2>2, <1>1, <1>2, <1>3, <1>6 DEF CipherInv, HoldsWhatItRead, TypeOK
    <2> QED
      BY <2>1, <2>2
  <1>7. ~framed'["down"] => Taken("down")' > 1 /\ Len(Written("down"))' > 0
    BY <1>2, <1>3, Numbers DEF CipherInv, Dirs
  <1> QED
    BY <1>1, <1>3, <1>4, <1>5, <1>6, <1>7 DEF CipherInv

(* A misread header: it is not the hello, and none of the game's.           *)
LEMMA MisreadHeaderStep ==
    ASSUME CipherInv, NEW d \in Dirs, [Next]_vars, MisreadHeader(d)
    PROVE  CipherInv'
  <1>1. TypeOK /\ TypeOK' /\ \A e \in Dirs : HoldsOne(e)'
    BY TypeStep DEF CipherInv
  <1>2. /\ rx[d] # <<>> /\ rx' = [rx EXCEPT ![d] = Tail(@)] /\ UNCHANGED <<sent, tx, got>>
        /\ UNCHANGED armed /\ framed' = [framed EXCEPT ![d] = FALSE]
        /\ pc[d] = "header" /\ held' = [held EXCEPT ![d] = Garbage]
        /\ ~(framed[d] /\ Head(rx[d]).rc4 = armed[From(d)])
    BY DEF MisreadHeader, Step, InStep
  <1>3. PICK to \in {"body", "failed"} : pc' = [pc EXCEPT ![d] = to]
    BY DEF MisreadHeader, Step
  <1>4. /\ \A e \in Dirs : Written(e)' = Written(e)
        /\ Taken(d)' = Taken(d) + 1
        /\ \A e \in Dirs : e # d => Taken(e)' = Taken(e)
        /\ \A e \in Dirs : ArrivesInOrder(e)'
        /\ Head(rx[d]).rc4 = (Taken(d) > 0)
    BY <1>2, ReadingMoves
  <1>5. d = "down"
    <2>1. SUFFICES ASSUME d = "up" PROVE FALSE
      BY DEF Dirs
    <2>2. framed["up"] /\ (armed["server"] <=> Taken("up") > 0)
      BY <1>2, <2>1 DEF CipherInv, KeyInPlace, GarbledOnlyAfterMisreading
    <2>3. Head(rx["up"]).rc4 = armed["server"]
      BY <2>1, <2>2, <1>4, Numbers DEF Dirs
    <2> QED
      BY <1>2, <2>1, <2>2, <2>3 DEF From
  <1>6. Taken("down") > 0 /\ Len(Written("down")) > 0
    <2>1. CASE ~framed["down"]
      BY <2>1, Numbers DEF CipherInv, Dirs
    <2>2. CASE framed["down"]
      <3>1. Len(Written("down")) = Taken("down") /\ Taken("down") \in Nat
        BY <1>2, <1>5, <2>2, Numbers DEF CipherInv, HoldsWhatItRead, Handling, Dirs
      <3>2. Taken("down") # 0
        <4>1. SUFFICES ASSUME Taken("down") = 0 PROVE FALSE
          OBVIOUS
        <4>2. armed["client"]
          BY <1>2, <1>4, <1>5, <2>2, <4>1, Numbers DEF From, Dirs
        <4> QED
          BY <4>1, <4>2, <3>1, HelloFirst
      <3> QED
        BY <3>1, <3>2
    <2> QED
      BY <2>1, <2>2
  <1>11. framed'["up"] /\ (\A e \in Dirs : framed'[e] => framed[e]) /\ framed["up"]
    BY <1>1, <1>2, <1>5 DEF CipherInv, GarbledOnlyAfterMisreading, TypeOK, Dirs
  <1>7. PeersInStep' /\ GarbledOnlyAfterMisreading' /\ PeersTakeTurns'
    BY <1>2, <1>4, <1>11 DEF CipherInv, PeersInStep, GarbledOnlyAfterMisreading, PeersTakeTurns
  <1>8. KeyInPlace'
    BY <1>1, <1>2, <1>3, <1>4, <1>5 DEF CipherInv, KeyInPlace, TypeOK, Dirs
  <1>9. ASSUME NEW e \in Dirs, framed'[e] PROVE HoldsWhatItRead(e)'
    <2>1. e # d
      BY <1>1, <1>2, <1>9 DEF TypeOK
    <2> QED
      BY <2>1, <1>1, <1>2, <1>3, <1>4, <1>9 DEF CipherInv, HoldsWhatItRead, TypeOK
  <1>10. Taken("down")' > 1 /\ Len(Written("down"))' > 0
    BY <1>4, <1>5, <1>6, Numbers DEF Dirs
  <1> QED
    BY <1>1, <1>4, <1>7, <1>8, <1>9, <1>10 DEF CipherInv

(* A packet that is written comes after what was written before.            *)
LEMMA WritingKeepsKey ==
    ASSUME CipherInv, NEW d \in Dirs, WritePacket(d)
    PROVE  /\ Len(Written(d)') = Len(Written(d)) + 1
           /\ \A i \in 1 .. Len(Written(d)) : Written(d)'[i] = Written(d)[i]
           /\ Written(d)'[Len(Written(d)) + 1].id = held[d].id
           /\ Written(d)'[Len(Written(d)) + 1].rsa = held[d].rsa
           /\ Written(d)'[Len(Written(d)) + 1].rc4 = armed[To(d)]
           /\ armed[To(d)] \in BOOLEAN
           /\ \A e \in Dirs : Taken(e)' = Taken(e)
           /\ \A e \in Dirs : e # d => Written(e)' = Written(e)
  <1>1. TypeOK /\ HoldsOne(d)
    BY DEF CipherInv
  <1> DEFINE p == [held[d] EXCEPT !.rc4 = armed[To(d)]]
             to == IF IsCipher(d, held[d]) THEN "arming" ELSE "header"
  <1>2. /\ UNCHANGED <<sent, rx, got, framed, armed>>
        /\ pc[d] = "writing" /\ pc' = [pc EXCEPT ![d] = to]
        /\ tx' = [tx EXCEPT ![d] = Append(@, p)]
    BY DEF WritePacket, Step
  <1>3. held[d] \in Packets
    BY <1>1, <1>2 DEF HoldsOne, Handling, TypeOK
  <1>4. armed[To(d)] \in BOOLEAN
    BY Numbers DEF To
  <1>5. p \in Packets /\ p.id = held[d].id /\ p.rsa = held[d].rsa /\ p.rc4 = armed[To(d)]
    BY <1>3, <1>4 DEF Packets
  <1> HIDE DEF p
  <1>6. /\ Written(d)' \in Seq(Packets)
        /\ Len(Written(d)') = Len(Written(d)) + 1
        /\ \A i \in 1 .. Len(Written(d)) : Written(d)'[i] = Written(d)[i]
        /\ Written(d)'[Len(Written(d)) + 1] = p
    <2>1. got[d] \in Seq(Packets) /\ tx[d] \in Seq(Packets)
      BY <1>1 DEF TypeOK
    <2>2. Written(d)' = got[d] \o Append(tx[d], p)
      <3>1. tx'[d] = Append(tx[d], p) /\ got'[d] = got[d]
        BY <1>1, <1>2 DEF TypeOK
      <3> QED
        BY <3>1 DEF Written
    <2>3. Written(d) = got[d] \o tx[d]
      BY DEF Written
    <2> DEFINE g == got[d]  t == tx[d]
    <2>4. /\ g \o Append(t, p) \in Seq(Packets)
          /\ Len(g \o Append(t, p)) = Len(g \o t) + 1
          /\ \A i \in 1 .. Len(g \o t) : (g \o Append(t, p))[i] = (g \o t)[i]
          /\ (g \o Append(t, p))[Len(g \o t) + 1] = p
      <3> HIDE DEF g, t
      <3>1. g \in Seq(Packets) /\ t \in Seq(Packets)
        BY <2>1 DEF g, t
      <3> QED
        BY <3>1, <1>5, WritingAppends
    <2> QED
      BY <2>2, <2>3, <2>4, Zenon
  <1>7. /\ \A e \in Dirs : Taken(e)' = Taken(e)
        /\ \A e \in Dirs : e # d => Written(e)' = Written(e)
    BY <1>1, <1>2 DEF Taken, Written, TypeOK
  <1> QED
    BY <1>4, <1>5, <1>6, <1>7

(* A packet goes out under the cipher that its receiver expects: the first   *)
(* of a direction plain, the others encrypted.                             *)
LEMMA WritePacketStep ==
    ASSUME CipherInv, NEW d \in Dirs, [Next]_vars, WritePacket(d)
    PROVE  CipherInv'
  <1>1. TypeOK /\ TypeOK' /\ (\A e \in Dirs : HoldsOne(e)') /\ HoldsOne(d)
    BY TypeStep DEF CipherInv
  <1> DEFINE to == IF IsCipher(d, held[d]) THEN "arming" ELSE "header"
  <1>2. /\ UNCHANGED <<sent, rx, got, framed, armed>>
        /\ pc[d] = "writing" /\ pc' = [pc EXCEPT ![d] = to]
    BY DEF WritePacket, Step
  <1>4. armed[To(d)] \in BOOLEAN
    BY WritingKeepsKey
  <1>6. /\ Len(Written(d)') = Len(Written(d)) + 1
        /\ \A i \in 1 .. Len(Written(d)) : Written(d)'[i] = Written(d)[i]
        /\ Written(d)'[Len(Written(d)) + 1].id = held[d].id
        /\ Written(d)'[Len(Written(d)) + 1].rc4 = armed[To(d)]
    BY WritingKeepsKey
  <1>7. /\ \A e \in Dirs : Taken(e)' = Taken(e)
        /\ \A e \in Dirs : e # d => Written(e)' = Written(e)
    BY WritingKeepsKey
  <1>8. /\ Len(Written(d)) \in Nat /\ Taken(d) \in Int
        /\ framed[d] => /\ Len(Written(d)) = Taken(d) - 1
                        /\ held[d].id = Taken(d) - 1
    BY <1>2, Numbers DEF CipherInv, HoldsWhatItRead, Handling
  <1>9. armed[To(d)] <=> Len(Written(d)) > 0
    <2>1. CASE d = "up"
      BY <2>1, <1>2 DEF To, CipherInv, KeyInPlace
    <2>2. CASE d = "down"
      <3>1. To(d) = "server"
        BY <2>2 DEF To
      <3>2. armed["server"] => Len(Written("down")) > 0
        BY HelloBeforeKey
      <3>3. Len(Written("down")) > 0 => armed["server"]
        <4>1. SUFFICES ASSUME Len(Written("down")) > 0 PROVE armed["server"]
          OBVIOUS
        <4>2. Taken("down") > 1
          BY <2>2, <4>1, <1>8 DEF CipherInv
        <4>3. sent["down"] > 1
          BY <4>2, Numbers DEF Dirs
        <4> QED
          BY <4>3, KeyBeforeMore
      <3> QED
        BY <2>2, <3>1, <3>2, <3>3
    <2> QED
      BY <2>1, <2>2 DEF Dirs
  <1>10. PeersInStep'
    <2>1. ASSUME NEW i \in 1 .. Len(Written(d)') PROVE Written(d)'[i].rc4 = (i > 1)
      <3>1. CASE i \in 1 .. Len(Written(d))
        <4>1. Written(d)[i].rc4 = (i > 1)
          BY <3>1 DEF CipherInv, PeersInStep
        <4> QED
          BY <3>1, <4>1, <1>6
      <3>2. CASE i = Len(Written(d)) + 1
        <4>1. armed[To(d)] = (i > 1)
          BY <3>2, <1>4, <1>8, <1>9
        <4> QED
          BY <3>2, <4>1, <1>6
      <3> QED
        BY <3>1, <3>2, <1>6, <1>8
    <2>2. ASSUME NEW e \in Dirs, e # d, NEW i \in 1 .. Len(Written(e)')
          PROVE  Written(e)'[i].rc4 = (i > 1)
      BY <2>2, <1>7 DEF CipherInv, PeersInStep
    <2> QED
      BY <2>1, <2>2 DEF PeersInStep
  <1>11. GarbledOnlyAfterMisreading'
    <2>1. ASSUME framed[d], NEW i \in 1 .. Len(Written(d)') PROVE Written(d)'[i].id = i - 1
      <3>1. CASE i \in 1 .. Len(Written(d))
        <4>1. Written(d)[i].id = i - 1
          BY <3>1, <2>1 DEF CipherInv, GarbledOnlyAfterMisreading
        <4> QED
          BY <3>1, <4>1, <1>6
      <3>2. CASE i = Len(Written(d)) + 1
        BY <3>2, <2>1, <1>6, <1>8
      <3> QED
        BY <3>1, <3>2, <1>6, <1>8
    <2>2. ASSUME NEW e \in Dirs, e # d, framed[e], NEW i \in 1 .. Len(Written(e)')
          PROVE  Written(e)'[i].id = i - 1
      BY <2>2, <1>7 DEF CipherInv, GarbledOnlyAfterMisreading
    <2>3. framed'["up"] /\ UNCHANGED framed
      BY <1>2 DEF CipherInv, GarbledOnlyAfterMisreading
    <2> QED
      BY <2>1, <2>2, <2>3 DEF GarbledOnlyAfterMisreading
  <1>12. pc'[d] = to /\ \A e \in Dirs : e # d => pc'[e] = pc[e] /\ held'[e] = held[e]
    BY <1>1, <1>2 DEF WritePacket, TypeOK
  <1>13. KeyInPlace'
    <2>1. CASE d = "down"
      <3>1. to = "header"
        BY <2>1 DEF IsCipher
      <3> QED
        BY <2>1, <3>1, <1>2, <1>7, <1>12 DEF CipherInv, KeyInPlace, Dirs
    <2>2. CASE d = "up"
      <3>1. /\ Len(Written("up")) = Taken("up") - 1 /\ held["up"].id = Taken("up") - 1
        BY <2>2, <1>8 DEF CipherInv, GarbledOnlyAfterMisreading
      <3>2. pc'["up"] = "arming" <=> Taken("up") = 1
        BY <2>2, <3>1, <1>8, <1>12 DEF IsCipher
      <3>3. pc'["up"] \in {"arming", "header"}
        BY <2>2, <1>12
      <3>4. armed["server"] /\ Taken("up") > 0
        BY <2>2, <3>1, <1>2, <1>8 DEF CipherInv, KeyInPlace
      <3>5. armed["client"] <=> Taken("up") > 1
        BY <2>2, <3>1, <1>2, <1>8 DEF CipherInv, KeyInPlace
      <3>6. Len(Written("up")') = Taken("up") /\ Taken("up")' = Taken("up")
        BY <2>2, <3>1, <1>6, <1>7, <1>8 DEF Dirs
      <3>7. Taken("up") \in Int
        BY <2>2, <1>8
      <3>8. pc'["down"] = pc["down"]
        BY <2>2, <1>12 DEF Dirs
      <3> QED
        BY <1>2, <3>2, <3>3, <3>4, <3>5, <3>6, <3>7, <3>8 DEF CipherInv, KeyInPlace
    <2> QED
      BY <2>1, <2>2 DEF Dirs
  <1>14. ASSUME NEW e \in Dirs, framed'[e] PROVE HoldsWhatItRead(e)'
    <2>1. CASE e = d
      BY <2>1, <1>2, <1>6, <1>7, <1>8, <1>12, <1>14 DEF HoldsWhatItRead, Handling
    <2>2. CASE e # d
      BY <2>2, <1>2, <1>7, <1>12, <1>14 DEF CipherInv, HoldsWhatItRead
    <2> QED
      BY <2>1, <2>2
  <1>15. PeersTakeTurns' /\ \A e \in Dirs : ArrivesInOrder(e)'
    BY <1>2, <1>7 DEF CipherInv, PeersTakeTurns, ArrivesInOrder
  <1>16. ~framed'["down"] => Taken("down")' > 1 /\ Len(Written("down"))' > 0
    <2>1. Taken("down")' = Taken("down") /\ Len(Written("down")') >= Len(Written("down"))
      BY <1>6, <1>7, <1>8, Numbers DEF Dirs
    <2> QED
      BY <2>1, <1>2, Numbers DEF CipherInv, Dirs
  <1> QED
    BY <1>1, <1>10, <1>11, <1>13, <1>14, <1>15, <1>16 DEF CipherInv

-----------------------------------------------------------------------------
(* The theorems.                                                           *)

(* At first nothing was sent, read or armed.                                *)
LEMMA InitHolds == Init => CipherInv
  <1> SUFFICES ASSUME Init PROVE CipherInv
    OBVIOUS
  <1>1. TypeOK
    <2>1. <<>> \in Seq(Packets) /\ 0 \in 0 .. MaxSent
      BY MaxSentAssumption
    <2> QED
      BY <2>1 DEF Init, TypeOK, PCs
  <1>2. ASSUME NEW d \in Dirs PROVE Written(d) = <<>> /\ Len(Written(d)) = 0 /\ Taken(d) = 0
    BY ConcatEmptySeq, EmptySeq DEF Init, Written, Taken
  <1>3. KeyInPlace
    BY <1>2 DEF Init, KeyInPlace, Dirs
  <1>4. PeersInStep /\ GarbledOnlyAfterMisreading /\ PeersTakeTurns
    BY <1>2 DEF Init, PeersInStep, GarbledOnlyAfterMisreading, PeersTakeTurns, Dirs
  <1>5. \A d \in Dirs : ArrivesInOrder(d) /\ HoldsOne(d) /\ HoldsWhatItRead(d)
    BY <1>2 DEF Init, ArrivesInOrder, HoldsOne, HoldsWhatItRead, Handling
  <1> QED
    BY <1>1, <1>3, <1>4, <1>5 DEF CipherInv, Init, Dirs

(* Where the goroutines of a block connection stand determines what is       *)
(* armed, and what each of them has written follows from what it has read    *)
(* (connection.go:37-117, proxy.go:287-318).                               *)
THEOREM CipherInvariant == Spec => []CipherInv
  <1>1. CipherInv /\ [Next]_vars => CipherInv'
    <2> SUFFICES ASSUME CipherInv, [Next]_vars PROVE CipherInv'
      OBVIOUS
    <2>1. CASE Close
      BY <2>1, StillSteps
    <2>2. ASSUME NEW d \in Dirs, Goroutine(d) PROVE CipherInv'
      BY <2>2, ReadHeaderStep, MisreadHeaderStep, ReadBodyStep, FailingSteps,
         HandlerCipherStep, ProxyHandlerCipherStep, FallbackStep, IgnoreStep,
         WritePacketStep, SetCipherStep
      DEF Goroutine, Handle
    <2>3. ASSUME NEW d \in Dirs, PeerSends(d) PROVE CipherInv'
      BY <2>3, PeerSendsStep
    <2>4. ASSUME NEW d \in Dirs, PeerTakes(d) PROVE CipherInv'
      BY <2>4, PeerTakesStep
    <2>5. CASE UNCHANGED vars
      BY <2>5, StillSteps
    <2> QED
      BY <2>1, <2>2, <2>3, <2>4, <2>5 DEF Next
  <1> QED
    BY InitHolds, <1>1, PTL DEF Spec

(* Neither peer gets a packet under another cipher than it expects: the key   *)
(* and the hello plain, everything after them encrypted (net.go:200-204 by   *)
(* priority).                                                              *)
THEOREM PeersStayInStep == Spec => []PeersInStep
  <1>1. CipherInv => PeersInStep
    BY DEF CipherInv
  <1> QED
    BY <1>1, CipherInvariant, PTL

(* What the game sends is never misread, and what was forwarded before a     *)
(* packet of the PSO2 server was misread is what was sent, in order          *)
(* (connection.go:62, 85).                                                 *)
THEOREM NothingGarbledBefore == Spec => []GarbledOnlyAfterMisreading
  <1>1. CipherInv => GarbledOnlyAfterMisreading
    BY DEF CipherInv
  <1> QED
    BY <1>1, CipherInvariant, PTL

-----------------------------------------------------------------------------
(* The uplink as a Relay, where the public key fits.                       *)

(* What the game has sent is written, held or waiting, and the key opens for *)
(* the PSO2 server once it is written.                                     *)
UplinkIntact ==
    /\ pc["up"] \in {"header", "arming"} => held["up"] = Nothing
    /\ held["up"] = Nothing => Len(Written("up")) = Taken("up")
    /\ held["up"] # Nothing => Len(Written("up")) = Taken("up") - 1
                            /\ held["up"].id = Taken("up") - 1
    /\ \A i \in 1 .. Len(Written("up")) : i = 1 => Written("up")[i].rsa = "sega"
    /\ pc["up"] = "writing" /\ Taken("up") = 1 => held["up"].rsa = "sega"

(* The steps of the peers leave what was written and what was read.          *)
LEMMA PeerSteps ==
    ASSUME CipherInv, NEW d \in Dirs, PeerSends(d) \/ PeerTakes(d), NEW e \in Dirs
    PROVE  Written(e)' = Written(e) /\ Taken(e)' = Taken(e)
  <1>1. CASE PeerSends(d)
    BY <1>1, SendingKeeps
  <1>2. CASE PeerTakes(d)
    BY <1>2, TakingKeeps
  <1> QED
    BY <1>1, <1>2

(* Only the game, the PSO2 server and the up goroutine touch the uplink.     *)
LEMMA IntactElsewhere ==
    ASSUME CipherInv, UplinkIntact, Written("up")' = Written("up"), Taken("up")' = Taken("up"),
           pc'["up"] = pc["up"], held'["up"] = held["up"]
    PROVE  UplinkIntact'
  BY DEF UplinkIntact

(* The uplink stays intact whatever else happens.                           *)
LEMMA IntactStep ==
    ASSUME PublicKeyFits, CipherInv, CipherInv', UplinkIntact, [Next]_vars
    PROVE  UplinkIntact'
  <1>0. TypeOK
    BY DEF CipherInv
  <1>1. CASE Close \/ UNCHANGED vars
    BY <1>1, IntactElsewhere DEF Close, vars, wires, Written, Taken
  <1>2. ASSUME Goroutine("down") PROVE UplinkIntact'
    <2>1. /\ rx'["up"] = rx["up"] /\ tx'["up"] = tx["up"] /\ pc'["up"] = pc["up"]
          /\ held'["up"] = held["up"] /\ UNCHANGED <<sent, got>>
      BY <1>0, <1>2 DEF TypeOK, Dirs, Goroutine, Handle, ReadHeader, MisreadHeader, ReadBody,
         ReadFails, HandlerCipher, HandlerCipherFails, ProxyHandlerCipher, Fallback, Ignore,
         WritePacket, WriteFails, SetCipher, Step, wires
    <2> QED
      BY <2>1, IntactElsewhere DEF Written, Taken
  <1>3. ASSUME NEW d \in Dirs, PeerSends(d) \/ PeerTakes(d) PROVE UplinkIntact'
    <2>1. pc'["up"] = pc["up"] /\ held'["up"] = held["up"]
      BY <1>3 DEF PeerSends, PeerTakes
    <2>2. Written("up")' = Written("up") /\ Taken("up")' = Taken("up")
      BY <1>3, PeerSteps DEF Dirs
    <2> QED
      BY <2>1, <2>2, IntactElsewhere
  <1>4. ASSUME Goroutine("up") PROVE UplinkIntact'
    <2>0. /\ pc \in [Dirs -> PCs] /\ held \in [Dirs -> Packets \cup {Nothing}]
          /\ Len(Written("up")) \in Nat /\ Taken("up") \in Int
      BY <1>0, Numbers DEF TypeOK, Dirs
    <2>1. CASE ReadHeader("up")
      <3>1. /\ Written("up")' = Written("up") /\ Taken("up")' = Taken("up") + 1
            /\ Head(rx["up"]).id = Taken("up") /\ Head(rx["up"]) \in Packets
        BY <2>1, ReadingMoves DEF ReadHeader, Dirs
      <3>2. held'["up"] = Head(rx["up"]) /\ pc'["up"] = "body" /\ pc["up"] = "header"
        BY <2>0, <2>1 DEF ReadHeader, Step, Dirs
      <3> QED
        BY <3>1, <3>2, <2>0, PacketTypes DEF UplinkIntact
    <2>2. ~MisreadHeader("up")
      <3>1. SUFFICES ASSUME MisreadHeader("up") PROVE FALSE
        OBVIOUS
      <3>2. framed'["up"] = FALSE
        BY <3>1, <1>0 DEF MisreadHeader, TypeOK, Dirs
      <3> QED
        BY <3>2 DEF CipherInv, GarbledOnlyAfterMisreading
    <2>3. CASE ReadBody("up")
      <3>1. InStep("up", held["up"])
        <4>1. framed'["up"] = InStep("up", held["up"])
          BY <2>3, <1>0 DEF ReadBody, TypeOK, Dirs
        <4> QED
          BY <4>1 DEF CipherInv, GarbledOnlyAfterMisreading
      <3>2. held'["up"] = held["up"] /\ pc'["up"] = "routing" /\ UNCHANGED wires
        BY <2>0, <2>3, <3>1 DEF ReadBody, Step, Dirs
      <3> QED
        BY <3>2 DEF UplinkIntact, wires, Written, Taken
    <2>4. CASE ReadFails("up") \/ HandlerCipher("up") \/ HandlerCipherFails("up") \/ WriteFails("up")
      <3>1. /\ held'["up"] = held["up"] /\ pc'["up"] \in {"failed", "rekeying"} /\ UNCHANGED wires
        BY <2>0, <2>4 DEF ReadFails, HandlerCipher, HandlerCipherFails, WriteFails, Step, Dirs
      <3> QED
        BY <3>1 DEF UplinkIntact, wires, Written, Taken
    <2>5. CASE ProxyHandlerCipher("up")
      <3>1. held["up"] # Nothing /\ held["up"] \in Packets
        BY <2>0, <2>5 DEF ProxyHandlerCipher, Step, CipherInv, HoldsOne, Handling, Dirs
      <3> DEFINE q == [held["up"] EXCEPT !.rsa = "sega"]
      <3>2. q.id = held["up"].id /\ q.rsa = "sega" /\ q \in Packets
        BY <3>1 DEF Packets
      <3>3. q # Nothing
        BY <3>2, PacketTypes
      <3>4. held'["up"] = q /\ pc'["up"] = "writing" /\ UNCHANGED wires
        BY <2>0, <2>5 DEF ProxyHandlerCipher, Step, Dirs
      <3> HIDE DEF q
      <3> QED
        BY <3>1, <3>2, <3>3, <3>4 DEF UplinkIntact, wires, Written, Taken
    <2>6. CASE Fallback("up")
      <3>1. held'["up"] = held["up"] /\ pc'["up"] = "writing" /\ UNCHANGED wires
            /\ held["up"] # Nothing /\ held["up"].id # 0
        BY <2>0, <2>6 DEF Fallback, Step, IsCipher, Dirs
      <3>2. Written("up")' = Written("up") /\ Taken("up")' = Taken("up")
        BY <3>1 DEF wires, Written, Taken
      <3> QED
        BY <3>1, <3>2, <2>0 DEF UplinkIntact
    <2>7. ~Ignore("up")
      <3>1. SUFFICES ASSUME Ignore("up") PROVE FALSE
        OBVIOUS
      <3>2. held["up"] = Garbage /\ held["up"].id = MaxSent
        BY <3>1 DEF Ignore, Garbage, Garbled
      <3>3. held["up"] # Nothing
        BY <3>2, PacketTypes
      <3> QED
        BY <3>2, <3>3, Numbers, MaxSentAssumption DEF UplinkIntact, Dirs
    <2>8. CASE WritePacket("up")
      <3>1. /\ Len(Written("up")') = Len(Written("up")) + 1
            /\ \A i \in 1 .. Len(Written("up")) : Written("up")'[i] = Written("up")[i]
            /\ Written("up")'[Len(Written("up")) + 1].rsa = held["up"].rsa
            /\ Taken("up")' = Taken("up")
        BY <2>8, WritingKeepsKey DEF Dirs
      <3>2. held'["up"] = Nothing /\ pc'["up"] \in {"header", "arming"} /\ pc["up"] = "writing"
        BY <2>0, <2>8 DEF WritePacket, Step, Dirs
      <3>3. held["up"] # Nothing
        BY <3>2 DEF CipherInv, HoldsOne, Handling, Dirs
      <3>4. Len(Written("up")) = Taken("up") - 1
        BY <3>3 DEF UplinkIntact
      <3>5. ASSUME 1 \in 1 .. Len(Written("up")') PROVE Written("up")'[1].rsa = "sega"
        <4>1. CASE Len(Written("up")) = 0
          BY <4>1, <3>1, <3>2, <3>4, <2>0 DEF UplinkIntact
        <4>2. CASE Len(Written("up")) > 0
          BY <4>2, <3>1, <2>0 DEF UplinkIntact
        <4> QED
          BY <4>1, <4>2, <2>0
      <3> QED
        BY <3>1, <3>2, <3>4, <3>5, <2>0 DEF UplinkIntact
    <2>9. CASE SetCipher("up")
      <3>1. held'["up"] = held["up"] /\ pc'["up"] = "header" /\ pc["up"] = "arming" /\ UNCHANGED wires
        BY <2>0, <2>9 DEF SetCipher, Step, Dirs
      <3> QED
        BY <3>1 DEF UplinkIntact, wires, Written, Taken
    <2> QED
      BY <1>4, <2>1, <2>2, <2>3, <2>4, <2>5, <2>6, <2>7, <2>8, <2>9 DEF Goroutine, Handle
  <1> QED
    BY <1>1, <1>2, <1>3, <1>4 DEF Next, Dirs

(* The packets from a to b, as the game numbers them.                        *)
Count(a, b) == [i \in 1 .. b - a |-> a + i - 1]

(* Facts about these sequences of numbers.                                  *)
LEMMA CountIsSeq ==
    ASSUME NEW a \in Nat, NEW b \in Nat, a <= b
    PROVE  Count(a, b) \in Seq(Nat) /\ Len(Count(a, b)) = b - a
  <1>1. Count(a, b) \in [1 .. b - a -> Nat] /\ b - a \in Nat
    BY DEF Count
  <1>2. Count(a, b) \in Seq(Nat)
    BY <1>1, SeqDef
  <1>3. DOMAIN Count(a, b) = 1 .. Len(Count(a, b)) /\ Len(Count(a, b)) \in Nat
    BY <1>2, LenProperties
  <1>4. DOMAIN Count(a, b) = 1 .. b - a
    BY <1>1
  <1> QED
    BY <1>1, <1>2, <1>3, <1>4

(* Consecutive stretches join.                                              *)
LEMMA CountJoins ==
    ASSUME NEW a \in Nat, NEW b \in Nat, NEW c \in Nat, a <= b, b <= c
    PROVE  Count(a, b) \o Count(b, c) = Count(a, c)
  <1> DEFINE x == Count(a, b)  y == Count(b, c)  z == Count(a, c)
  <1>1. /\ x \in Seq(Nat) /\ Len(x) = b - a
        /\ y \in Seq(Nat) /\ Len(y) = c - b
        /\ z \in Seq(Nat) /\ Len(z) = c - a
    <2>1. a <= c
      OBVIOUS
    <2>2. x \in Seq(Nat) /\ Len(x) = b - a
      BY CountIsSeq
    <2>3. y \in Seq(Nat) /\ Len(y) = c - b
      BY CountIsSeq
    <2>4. z \in Seq(Nat) /\ Len(z) = c - a
      BY <2>1, CountIsSeq
    <2> QED
      BY <2>2, <2>3, <2>4, Zenon
  <1>2. /\ \A i \in 1 .. b - a : x[i] = a + i - 1
        /\ \A i \in 1 .. c - b : y[i] = b + i - 1
        /\ \A i \in 1 .. c - a : z[i] = a + i - 1
    BY DEF Count
  <1> HIDE DEF x, y, z
  <1>3. /\ x \o y \in Seq(Nat) /\ Len(x \o y) = Len(x) + Len(y)
        /\ \A i \in 1 .. Len(x) + Len(y) :
              (x \o y)[i] = IF i <= Len(x) THEN x[i] ELSE y[i - Len(x)]
    BY <1>1, ConcatProperties
  <1>4. Len(x \o y) = Len(z)
    BY <1>1, <1>3
  <1>5. ASSUME NEW i \in 1 .. Len(x \o y) PROVE (x \o y)[i] = z[i]
    <2>0. Len(x) + Len(y) = c - a /\ Len(x) = b - a
      BY <1>1
    <2>1. i \in 1 .. c - a /\ (x \o y)[i] = IF i <= b - a THEN x[i] ELSE y[i - (b - a)]
      BY <2>0, <1>3
    <2> QED
      BY <2>1, <1>2
  <1>6. x \o y = z
    BY <1>1, <1>3, <1>4, <1>5, SeqEqual
  <1> QED
    BY <1>6 DEF x, y, z

(* A packet more.                                                           *)
LEMMA CountAppends ==
    ASSUME NEW a \in Nat, NEW b \in Nat, a <= b
    PROVE  Count(a, b + 1) = Append(Count(a, b), b)
  <1> DEFINE x == Count(a, b)  y == Count(a, b + 1)
  <1>1. /\ x \in Seq(Nat) /\ Len(x) = b - a
        /\ y \in Seq(Nat) /\ Len(y) = b + 1 - a
    <2>1. b + 1 \in Nat /\ a <= b + 1
      OBVIOUS
    <2>2. x \in Seq(Nat) /\ Len(x) = b - a
      BY CountIsSeq
    <2>3. y \in Seq(Nat) /\ Len(y) = b + 1 - a
      BY <2>1, CountIsSeq
    <2> QED
      BY <2>2, <2>3, Zenon
  <1>2. /\ \A i \in 1 .. b - a : x[i] = a + i - 1
        /\ \A i \in 1 .. b + 1 - a : y[i] = a + i - 1
    BY DEF Count
  <1> HIDE DEF x, y
  <1>3. /\ Append(x, b) \in Seq(Nat) /\ Len(Append(x, b)) = Len(x) + 1
        /\ \A i \in 1 .. Len(x) : Append(x, b)[i] = x[i]
        /\ Append(x, b)[Len(x) + 1] = b
    BY <1>1, AppendProperties
  <1>4. ASSUME NEW i \in 1 .. Len(y) PROVE y[i] = Append(x, b)[i]
    BY <1>1, <1>2, <1>3
  <1>5. y = Append(x, b)
    BY <1>1, <1>3, <1>4, SeqEqual
  <1> QED
    BY <1>5 DEF x, y

(* A packet less.                                                           *)
LEMMA CountTakes ==
    ASSUME NEW a \in Nat, NEW b \in Nat, a < b
    PROVE  /\ Count(a, b) # <<>> /\ Head(Count(a, b)) = a
           /\ Tail(Count(a, b)) = Count(a + 1, b)
  <1> DEFINE x == Count(a, b)  y == Count(a + 1, b)
  <1>1. /\ x \in Seq(Nat) /\ Len(x) = b - a
        /\ y \in Seq(Nat) /\ Len(y) = b - (a + 1)
    <2>1. a + 1 \in Nat /\ a <= b /\ a + 1 <= b
      OBVIOUS
    <2>2. x \in Seq(Nat) /\ Len(x) = b - a
      BY <2>1, CountIsSeq
    <2>3. y \in Seq(Nat) /\ Len(y) = b - (a + 1)
      BY <2>1, CountIsSeq
    <2> QED
      BY <2>2, <2>3, Zenon
  <1>2. /\ \A i \in 1 .. b - a : x[i] = a + i - 1
        /\ \A i \in 1 .. b - (a + 1) : y[i] = a + 1 + i - 1
    BY DEF Count
  <1> HIDE DEF x, y
  <1>3. x # <<>>
    BY <1>1, EmptySeq
  <1>4. /\ Tail(x) \in Seq(Nat) /\ Len(Tail(x)) = Len(x) - 1
        /\ \A i \in 1 .. Len(Tail(x)) : Tail(x)[i] = x[i + 1]
    BY <1>1, <1>3, HeadTailProperties
  <1>5. Head(x) = a
    BY <1>1, <1>2, <1>3
  <1>6. ASSUME NEW i \in 1 .. Len(y) PROVE y[i] = Tail(x)[i]
    BY <1>1, <1>2, <1>4
  <1>7. Len(y) = Len(Tail(x))
    BY <1>1, <1>4
  <1>8. y = Tail(x)
    BY <1>1, <1>4, <1>6, <1>7, SeqEqual
  <1> QED
    BY <1>3, <1>5, <1>8 DEF x, y

(* What the PSO2 server has received and what is on its way to it are the    *)
(* packets that the game has sent, in order.                               *)
UplinkCounts ==
    /\ Len(got["up"]) \in Nat /\ sent["up"] \in Nat /\ Len(got["up"]) <= sent["up"]
    /\ tx["up"] # <<>> => Len(got["up"]) < sent["up"]
    /\ Arrived("up") = Count(0, Len(got["up"]))
    /\ InFlight("up") = Count(Len(got["up"]), sent["up"])

(* The parts of the uplink join to what the game has sent.                  *)
LEMMA CountsHold ==
    ASSUME PublicKeyFits, CipherInv, UplinkIntact
    PROVE  UplinkCounts
  <1> DEFINE g == got["up"]  t == tx["up"]  r == rx["up"]  w == Written("up")
  <1>1. /\ g \in Seq(Packets) /\ t \in Seq(Packets) /\ r \in Seq(Packets)
        /\ w = g \o t /\ sent["up"] \in Nat
    BY Numbers DEF CipherInv, TypeOK, Written, Dirs
  <1>2. /\ \A i \in 1 .. Len(w) : w[i].rc4 = (i > 1)
        /\ \A i \in 1 .. Len(w) : w[i].id = i - 1
        /\ \A i \in 1 .. Len(w) : i = 1 => w[i].rsa = "sega"
    BY DEF CipherInv, PeersInStep, GarbledOnlyAfterMisreading, UplinkIntact, Dirs
  <1>3. /\ \A i \in 1 .. Len(r) : r[i].id = Taken("up") + i - 1
        /\ Taken("up") = sent["up"] - Len(r)
    BY DEF CipherInv, ArrivesInOrder, Taken, Dirs
  <1>4. Len(w) <= Taken("up") /\ (held["up"] # Nothing => held["up"].id = Taken("up") - 1)
        /\ (held["up"] = Nothing => Len(w) = Taken("up"))
        /\ (held["up"] # Nothing => Len(w) = Taken("up") - 1)
    BY Numbers DEF UplinkIntact, Dirs
  <1> HIDE DEF w
  <1>5. ASSUME NEW i \in 1 .. Len(w) PROVE Understood("up", i, w[i]) = i - 1
    BY <1>2 DEF Understood
  <1> HIDE DEF g, t, r
  <1>6. Len(g) \in Nat /\ Len(t) \in Nat /\ Len(r) \in Nat
    BY <1>1, LenProperties
  <1>7. /\ Len(w) = Len(g) + Len(t)
        /\ \A i \in 1 .. Len(g) + Len(t) : w[i] = IF i <= Len(g) THEN g[i] ELSE t[i - Len(g)]
    BY <1>1, ConcatProperties
  <1>8. ASSUME NEW i \in 1 .. Len(g) PROVE Understood("up", i, g[i]) = i - 1
    <2>1. i \in 1 .. Len(w) /\ w[i] = g[i]
      BY <1>6, <1>7
    <2> QED
      BY <2>1, <1>5
  <1>9. ASSUME NEW i \in 1 .. Len(t) PROVE Understood("up", Len(g) + i, t[i]) = Len(g) + i - 1
    <2>1. Len(g) + i \in 1 .. Len(w) /\ w[Len(g) + i] = t[i]
      BY <1>6, <1>7
    <2> QED
      BY <2>1, <1>5
  <1>10. Arrived("up") = Count(0, Len(g))
    <2>1. Arrived("up") = [i \in 1 .. Len(g) |-> Understood("up", i, g[i])]
      BY DEF Arrived, g
    <2>2. Count(0, Len(g)) = [i \in 1 .. Len(g) |-> i - 1]
      BY <1>6 DEF Count
    <2> QED
      BY <2>1, <2>2, <1>8
  <1>11. Taken("up") \in Nat /\ Len(w) \in Nat /\ Taken("up") <= sent["up"] /\ Len(g) <= Len(w)
    BY <1>1, <1>3, <1>4, <1>6, <1>7
  <1> DEFINE A == [i \in 1 .. Len(t) |-> Understood("up", Len(g) + i, t[i])]
             H == IF held["up"] = Nothing THEN <<>> ELSE <<held["up"].id>>
             R == [i \in 1 .. Len(r) |-> r[i].id]
  <1>12. InFlight("up") = A \o H \o R
    BY DEF InFlight, g, t, r
  <1>13. A = Count(Len(g), Len(w))
    <2>1. Len(w) - Len(g) = Len(t)
      BY <1>6, <1>7
    <2> QED
      BY <2>1, <1>9 DEF Count
  <1>14. H = Count(Len(w), Taken("up"))
    <2>1. CASE held["up"] = Nothing
      <3>1. Taken("up") - Len(w) = 0
        BY <2>1, <1>4, <1>11
      <3>2. Count(Len(w), Taken("up")) = <<>>
        BY <3>1, <1>11 DEF Count
      <3> QED
        BY <2>1, <3>2
    <2>2. CASE held["up"] # Nothing
      <3>1. Taken("up") - Len(w) = 1 /\ held["up"].id = Len(w)
        BY <2>2, <1>4, <1>11
      <3> DEFINE c == Count(Len(w), Taken("up"))
      <3>2. c \in Seq(Nat) /\ Len(c) = 1
        BY <3>1, <1>11, <1>4, CountIsSeq
      <3>3. c[1] = Len(w)
        BY <3>1, <1>11 DEF Count
      <3>4. <<Len(w)>> \in Seq(Nat) /\ Len(<<Len(w)>>) = 1 /\ <<Len(w)>>[1] = Len(w)
        BY <1>11
      <3> HIDE DEF c
      <3>5. c = <<Len(w)>>
        BY <3>2, <3>3, <3>4
      <3> QED
        BY <2>2, <3>1, <3>5 DEF c
    <2> QED
      BY <2>1, <2>2
  <1>15. R = Count(Taken("up"), sent["up"])
    <2>1. sent["up"] - Taken("up") = Len(r)
      BY <1>1, <1>3, <1>6
    <2> QED
      BY <2>1, <1>3 DEF Count
  <1> HIDE DEF A, H, R
  <1>16. A \o H = Count(Len(g), Taken("up"))
    BY <1>13, <1>14, <1>11, <1>4, <1>6, CountJoins
  <1>17. A \o H \o R = Count(Len(g), sent["up"])
    <2>1. Len(g) <= Taken("up")
      BY <1>4, <1>6, <1>11
    <2>2. Count(Len(g), Taken("up")) \o Count(Taken("up"), sent["up"]) = Count(Len(g), sent["up"])
      BY <2>1, <1>1, <1>6, <1>11, CountJoins
    <2> QED
      BY <2>2, <1>15, <1>16, Zenon
  <1>18. t # <<>> => Len(g) < sent["up"]
    <2>1. t # <<>> => Len(t) > 0
      BY <1>1, <1>6, EmptySeq
    <2> QED
      BY <2>1, <1>1, <1>4, <1>6, <1>7, <1>11
  <1>19. Len(g) <= sent["up"]
    <2>1. Len(w) <= Taken("up")
      BY <1>4
    <2> QED
      BY <2>1, <1>1, <1>6, <1>11
  <1>20. InFlight("up") = Count(Len(g), sent["up"])
    BY <1>12, <1>17, Zenon
  <1> QED
    BY <1>1, <1>6, <1>10, <1>18, <1>19, <1>20, Zenon DEF UplinkCounts, g, t

(* Every step sends a packet, delivers one or is none of the Relay's.         *)
LEMMA RelayStep ==
    ASSUME UplinkCounts, UplinkCounts', TypeOK, TypeOK', [Next]_vars
    PROVE  [Uplink!Next]_<<InFlight("up"), Arrived("up")>>
  <1> DEFINE g == Len(got["up"])  n == sent["up"]
  <1>1. /\ g \in Nat /\ n \in Nat /\ g <= n /\ g' \in Nat /\ n' \in Nat /\ g' <= n'
        /\ Arrived("up") = Count(0, g) /\ Arrived("up")' = Count(0, g')
        /\ InFlight("up") = Count(g, n) /\ InFlight("up")' = Count(g', n')
    BY DEF UplinkCounts, Count
  <1>2. CASE PeerSends("up")
    <2>1. g' = g /\ n' = n + 1 /\ n \in Ids
      BY <1>2, MaxSentAssumption DEF PeerSends, TypeOK, Dirs, Ids
    <2>2. Count(g, n + 1) = Append(Count(g, n), n)
      BY <1>1, CountAppends
    <2>3. Uplink!Send(n)
      BY <1>1, <2>1, <2>2 DEF Uplink!Send
    <2> QED
      BY <2>1, <2>3 DEF Uplink!Next
  <1>3. CASE PeerTakes("up")
    <2>1. g' = g + 1 /\ n' = n
      <3>1. tx["up"] \in Seq(Packets) /\ tx["up"] # <<>> /\ got["up"] \in Seq(Packets)
        BY <1>3 DEF PeerTakes, TypeOK, Dirs
      <3>2. Head(tx["up"]) \in Packets
        BY <3>1, HeadTailProperties
      <3>3. got'["up"] = Append(got["up"], Head(tx["up"])) /\ n' = n
        BY <1>3 DEF PeerTakes, TypeOK, Dirs
      <3> QED
        BY <3>1, <3>2, <3>3, AppendProperties
    <2>2. g < n
      BY <1>3 DEF PeerTakes, UplinkCounts
    <2>3. /\ Count(g, n) # <<>> /\ Head(Count(g, n)) = g /\ Tail(Count(g, n)) = Count(g + 1, n)
          /\ Count(0, g + 1) = Append(Count(0, g), g)
      <3>1. 0 \in Nat /\ 0 <= g
        BY <1>1
      <3>2. Count(0, g + 1) = Append(Count(0, g), g)
        BY <1>1, <3>1, CountAppends
      <3>3. Count(g, n) # <<>> /\ Head(Count(g, n)) = g /\ Tail(Count(g, n)) = Count(g + 1, n)
        BY <1>1, <2>2, CountTakes
      <3> QED
        BY <3>2, <3>3
    <2>4. Uplink!Deliver
      BY <1>1, <2>1, <2>3 DEF Uplink!Deliver
    <2> QED
      BY <2>4 DEF Uplink!Next
  <1>4. CASE ~PeerSends("up") /\ ~PeerTakes("up")
    <2>1. g' = g /\ n' = n
      <3>1. CASE Close \/ UNCHANGED vars
        BY <3>1 DEF Close, vars, wires
      <3>2. ASSUME NEW d \in Dirs, Goroutine(d) PROVE g' = g /\ n' = n
        BY <3>2 DEF Goroutine, Handle, ReadHeader, MisreadHeader, ReadBody, ReadFails,
           HandlerCipher, HandlerCipherFails, ProxyHandlerCipher, Fallback, Ignore,
           WritePacket, WriteFails, SetCipher, wires
      <3>3. CASE PeerSends("down") \/ PeerTakes("down")
        BY <3>3 DEF PeerSends, PeerTakes, TypeOK, Dirs
      <3> QED
        BY <1>4, <3>1, <3>2, <3>3 DEF Next, Dirs
    <2> QED
      BY <1>1, <2>1
  <1> QED
    BY <1>2, <1>3, <1>4

(* The uplink implements Relay where SEGA's key has the size that SetKey asks *)
(* for: the PSO2 server receives what the game sends, in order, once and     *)
(* unaltered, whatever happens in the other direction (proxy.go:287-340).    *)
THEOREM UplinkIsRelay ==
    ASSUME PublicKeyFits
    PROVE  Spec => UplinkRelays
  <1>1. Init => UplinkIntact
    <2> SUFFICES ASSUME Init PROVE UplinkIntact
      OBVIOUS
    <2>1. Written("up") = <<>> /\ Len(Written("up")) = 0 /\ Taken("up") = 0
      BY ConcatEmptySeq, EmptySeq DEF Init, Written, Taken, Dirs
    <2> QED
      BY <2>1 DEF Init, UplinkIntact, Dirs
  <1>2. CipherInv /\ CipherInv' /\ UplinkIntact /\ [Next]_vars => UplinkIntact'
    BY IntactStep
  <1>3. CipherInv /\ UplinkIntact => UplinkCounts
    BY CountsHold
  <1>4. CipherInv => TypeOK
    BY DEF CipherInv
  <1>5. UplinkCounts /\ UplinkCounts' /\ TypeOK /\ TypeOK' /\ [Next]_vars
        => [Uplink!Next]_<<InFlight("up"), Arrived("up")>>
    BY RelayStep
  <1>6. Init => Uplink!Init
    <2> SUFFICES ASSUME Init, UplinkCounts PROVE Uplink!Init
      BY <1>1, <1>3, InitHolds
    <2>1. Len(got["up"]) = 0 /\ sent["up"] = 0
      BY DEF Init, Dirs
    <2>2. Count(0, 0) = <<>>
      BY DEF Count
    <2> QED
      BY <2>1, <2>2 DEF UplinkCounts, Uplink!Init
  <1>7. Uplink!Spec <=> Uplink!Init /\ [][Uplink!Next]_<<InFlight("up"), Arrived("up")>>
    BY DEF Uplink!Spec
  <1> QED
    BY <1>1, <1>2, <1>3, <1>4, <1>5, <1>6, <1>7, CipherInvariant, PTL DEF Spec, UplinkRelays
=============================================================================
