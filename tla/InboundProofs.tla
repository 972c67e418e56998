---------------------------- MODULE InboundProofs ----------------------------
(***************************************************************************)
(* Data from one peer, for any number of packets, datagrams and sessions.  *)
(***************************************************************************)
EXTENDS Inbound, FiniteSets, TLAPS

OneListener == \A l, m \in Listener : l = m

(***************************************************************************)
(* What holds with any number of listeners: they handle packets the peer   *)
(* has sent, and a Data packet gets past Decode only if its request        *)
(* parsed.                                                                 *)
(***************************************************************************)
ListenerOK(l) ==
    /\ lpc[l] # "read" => lid[l] \in DOMAIN out
    /\ lpc[l] = "xor" => Deciphered(Msg(l))
    /\ lpc[l] \in {"accept", "emit"} /\ Deciphered(Msg(l)) => Parses(l)
    /\ lpc[l] = "reset" => Msg(l).kind = "Syn"
    /\ lpc[l] = "emit" => Msg(l).kind = "Data"

Inv ==
    /\ TypeOK
    /\ \A l \in Listener : ListenerOK(l)
    /\ acked \subseteq DOMAIN out
    /\ \A k \in DOMAIN delivered : delivered[k].id \in DOMAIN out
    /\ AckedIsHandedOver

\* Every new stream and every listener at work used up one datagram.
Busy == {l \in Listener : lpc[l] # "read"}
StreamCount == IsFiniteSet(Busy) /\ decipher + Cardinality(Busy) <= Len(reads)

\* What Reset needs of it.
Room == \A l \in Listener : lpc[l] = "reset" => decipher < Len(reads)

(***************************************************************************)
(* With one listener, the requests taken from one stream follow each other *)
(* in it: each begins where the one before it ended, or later.             *)
(***************************************************************************)
End(id) == out[id].pos + out[id].size

\* The peer's packets of one session advance in its keystream.
PeerInv ==
    \A a, b \in DOMAIN out : a <= b =>
        /\ out[a].session <= out[b].session
        /\ out[a].session = out[b].session => out[a].pos <= out[b].pos

StreamInv ==
    /\ \A k \in DOMAIN delivered :
          out[delivered[k].id].size > 0 /\ End(delivered[k].id) <= taken[delivered[k].key]
    /\ \A j, k \in DOMAIN delivered : j < k /\ delivered[j].key = delivered[k].key =>
          End(delivered[j].id) <= out[delivered[k].id].pos
    /\ \A l \in Listener : lpc[l] = "xor" => lpos[l] = taken[lkey[l]]
    /\ \A l \in Listener : lpc[l] \in {"accept", "emit"} /\ Deciphered(Msg(l)) =>
          /\ End(lid[l]) <= taken[lkey[l]]
          /\ \A k \in DOMAIN delivered : delivered[k].key = lkey[l] => End(delivered[k].id) <= lpos[l]

(***************************************************************************)
(* Over a reliable network the two ends of the stream move together.       *)
(***************************************************************************)
NoPlainAcks == PrudpVersion = 1 \/ "MultiAck" \notin PeerKinds

\* The peer's place in its keystream after the first n packets.
Position(n) ==
    IF n = 0 THEN 0 ELSE out[n].pos + (IF out[n].kind = "Data" THEN out[n].size ELSE 0)

PeerInStep ==
    \A n \in DOMAIN out :
        out[n].kind \in PeerKinds /\ out[n].pos = IF out[n].kind = "Syn" THEN 0 ELSE Position(n - 1)

\* Where the listener's stream is.
ListenerInStep(l) ==
    /\ lpc[l] # "read" => lid[l] = Len(reads)
    /\ lpc[l] = "read" => taken[decipher] = Position(Len(reads))
    /\ lpc[l] = "decode" => taken[decipher] = Position(lid[l] - 1)
    /\ lpc[l] = "xor" => lkey[l] = decipher /\ lpos[l] = Position(lid[l] - 1)
    /\ lpc[l] \in {"accept", "emit"} /\ Msg(l).kind # "Syn" => taken[decipher] = Position(lid[l])

InStepInv ==
    /\ PeerInStep
    /\ reliable =>
          /\ refused = {} /\ Len(reads) <= Len(out)
          /\ \A o \in Object : o > decipher => taken[o] = 0
          /\ \A l \in Listener : ListenerInStep(l)
-----------------------------------------------------------------------------
\* A packet the peer may send next.
Following(m) ==
    /\ m \in Message /\ m.kind \in PeerKinds
    /\ m.pos = IF m.kind = "Syn" THEN 0 ELSE PeerPos
    /\ m.session = IF m.kind = "Syn" THEN Session + 1 ELSE Session

LEMMA PeerPacket ==
    ASSUME TypeOK, PeerSyn \/ PeerData \/ PeerMultiAck
    PROVE  \E m : Following(m) /\ PeerSends(m)
<1>1. Session \in Nat /\ PeerPos \in Nat
  <2>1. CASE out = <<>>
    BY <2>1 DEF Session, PeerPos
  <2>2. CASE out # <<>>
    <3>1. LastSent \in Message
      BY <2>2 DEF TypeOK, LastSent
    <3> QED
      BY <2>2, <3>1 DEF Session, PeerPos, Message
  <2> QED
    BY <2>1, <2>2
<1>2. CASE PeerSyn
  <2> DEFINE m == [kind |-> "Syn", size |-> 0, pos |-> 0, session |-> Session + 1]
  <2>1. PeerSends(m)
    BY <1>2 DEF PeerSyn
  <2>2. Following(m)
    BY <1>1, <2>1 DEF Following, Message, PeerSends
  <2> QED
    BY <2>1, <2>2
<1>3. CASE PeerData \/ PeerMultiAck
  <2>1. PICK kind \in {"Data", "MultiAck"}, n \in Sizes :
           PeerSends([kind |-> kind, size |-> n, pos |-> PeerPos, session |-> Session])
    BY <1>3 DEF PeerData, PeerMultiAck
  <2> DEFINE m == [kind |-> kind, size |-> n, pos |-> PeerPos, session |-> Session]
  <2>2. Following(m)
    BY <1>1, <2>1, InboundAssumption DEF Following, Message, PeerSends
  <2> QED
    BY <2>1, <2>2
<1> QED
  BY <1>2, <1>3

\* The packets sent before keep their numbers.
LEMMA OneMorePacket ==
    ASSUME TypeOK, NEW m \in Message, PeerSends(m)
    PROVE  /\ out' \in Seq(Message) /\ Len(out) \in Nat /\ Len(out') = Len(out) + 1
           /\ DOMAIN out = 1 .. Len(out) /\ DOMAIN out' = 1 .. Len(out) + 1
           /\ \A a \in DOMAIN out : out'[a] = out[a]
           /\ out'[Len(out) + 1] = m
  BY DEF TypeOK, PeerSends

LEMMA InitInv == Init => Inv
<1> SUFFICES ASSUME Init
             PROVE  Inv
  OBVIOUS
<1>1. TypeOK
  <2>1. /\ out \in Seq(Message) /\ Len(out) <= MaxMessages
        /\ reads \in Seq(Id) /\ Len(reads) <= MaxReads
        /\ delivered \in Seq([id : Id, key : Object])
        /\ decipher \in 0 .. Len(reads)
    BY InboundAssumption DEF Init
  <2>2. 0 \in Object /\ 0 \in 0 .. MaxMessages
    BY InboundAssumption DEF Object
  <2>3. /\ taken \in [Object -> Nat]
        /\ lpc \in [Listener -> {"read", "decode", "xor", "accept", "reset", "emit"}]
        /\ lid \in [Listener -> 0 .. MaxMessages]
        /\ lkey \in [Listener -> Object] /\ lpos \in [Listener -> Nat]
    BY <2>2 DEF Init
  <2> QED
    BY <2>1, <2>3 DEF Init, TypeOK
<1> QED
  BY <1>1 DEF Init, Inv, ListenerOK, AckedIsHandedOver

\* Steps that leave the requests and the listeners about to emit one alone.
LEMMA HandOverKept ==
    ASSUME Inv, UNCHANGED <<delivered, acked>>,
           \A id \in DOMAIN out : out'[id] = out[id],
           \A m \in Listener : lpc[m] = "emit" =>
               lpc'[m] = "emit" /\ lid'[m] = lid[m] /\ lpos'[m] = lpos[m]
    PROVE  AckedIsHandedOver'
<1> SUFFICES ASSUME NEW id \in acked, out[id].kind = "Data", out[id].size > 0
             PROVE  \/ \E k \in DOMAIN delivered : delivered[k].id = id
                    \/ \E m \in Listener : lid'[m] = id /\ lpc'[m] = "emit" /\ Parses(m)'
  BY DEF Inv, AckedIsHandedOver
<1>1. CASE \E k \in DOMAIN delivered : delivered[k].id = id
  BY <1>1
<1>2. CASE \E m \in Listener : lid[m] = id /\ lpc[m] = "emit" /\ Parses(m)
  <2>1. PICK m \in Listener : lid[m] = id /\ lpc[m] = "emit" /\ Parses(m)
    BY <1>2
  <2>2. lid'[m] = id /\ lpc'[m] = "emit" /\ Parses(m)'
    BY <2>1 DEF Inv, Parses, Msg
  <2> QED
    BY <2>2
<1> QED
  BY <1>1, <1>2 DEF Inv, AckedIsHandedOver

LEMMA PeerKeepsInv ==
    ASSUME Inv, PeerSyn \/ PeerData \/ PeerMultiAck
    PROVE  Inv'
<1>1. PICK m : m \in Message /\ PeerSends(m)
  BY PeerPacket DEF Inv, Following
<1>2. /\ out' \in Seq(Message) /\ Len(out') = Len(out) + 1 /\ Len(out) \in Nat
      /\ DOMAIN out \subseteq DOMAIN out'
      /\ \A a \in DOMAIN out : out'[a] = out[a]
  BY <1>1, OneMorePacket DEF Inv
<1>3. UNCHANGED <<reliable, reads, taken, decipher, lpc, lid, lkey, lpos, delivered, acked, refused>>
      /\ Len(out) < MaxMessages
  BY <1>1 DEF PeerSends, local
<1>4. TypeOK'
  BY <1>2, <1>3, InboundAssumption DEF Inv, TypeOK
<1>5. \A l \in Listener : ListenerOK(l)'
  BY <1>2, <1>3 DEF Inv, ListenerOK, Msg, Deciphered, Parses
<1>6. AckedIsHandedOver'
  BY <1>2, <1>3, HandOverKept
<1> QED
  BY <1>2, <1>3, <1>4, <1>5, <1>6 DEF Inv

LEMMA ReadKeepsInv ==
    ASSUME Inv, NEW l \in Listener, Read(l)
    PROVE  Inv'
<1>0. TypeOK
  BY DEF Inv
<1>1. PICK id \in DOMAIN out : reads' = Append(reads, id) /\ lid' = [lid EXCEPT ![l] = id]
  BY Zenon DEF Read
<1>2. /\ lpc[l] = "read" /\ lpc' = [lpc EXCEPT ![l] = "decode"] /\ Len(reads) < MaxReads
      /\ UNCHANGED <<reliable, out, taken, decipher, lkey, lpos, delivered, acked, refused>>
  BY DEF Read, Goto
<1>3. /\ id \in Id /\ reads' \in Seq(Id)
      /\ Len(reads) \in Nat /\ Len(reads') = Len(reads) + 1
  BY <1>0, <1>1, InboundAssumption DEF TypeOK, Id
<1>4. TypeOK'
  <2>1. lpc' \in [Listener -> {"read", "decode", "xor", "accept", "reset", "emit"}] /\ lid' \in [Listener -> 0 .. MaxMessages]
    <3>1. lid' = [lid EXCEPT ![l] = id] /\ lpc' = [lpc EXCEPT ![l] = "decode"]
      BY <1>1, <1>2
    <3>2. id \in 0 .. MaxMessages
      BY <1>3, InboundAssumption DEF Id
    <3>3. /\ lpc \in [Listener -> {"read", "decode", "xor", "accept", "reset", "emit"}]
          /\ lid \in [Listener -> 0 .. MaxMessages]
      BY <1>0, Zenon DEF TypeOK
    <3> QED
      BY <3>1, <3>2, <3>3
  <2>2. Len(reads') <= MaxReads /\ decipher' \in 0 .. Len(reads')
    <3>1. /\ Len(reads) \in Nat /\ Len(reads') = Len(reads) + 1 /\ Len(reads) < MaxReads
          /\ decipher' \in 0 .. Len(reads)
      BY <1>0, <1>2, <1>3, Zenon DEF TypeOK
    <3> QED
      BY <3>1, InboundAssumption
  <2> QED
    BY <1>0, <1>2, <1>3, <2>1, <2>2, Zenon DEF TypeOK
<1>5. ASSUME NEW m \in Listener
      PROVE  ListenerOK(m)'
  BY <1>1, <1>2, Zenon DEF Inv, TypeOK, ListenerOK, Msg, Deciphered, Parses
<1>6. AckedIsHandedOver'
  BY <1>0, <1>1, <1>2, HandOverKept DEF TypeOK
<1> QED
  BY <1>2, <1>4, <1>5, <1>6 DEF Inv

LEMMA DecodeKeepsInv ==
    ASSUME Inv, NEW l \in Listener, DecodePlain(l) \/ DecodeBegin(l) \/ DecodeEnd(l)
    PROVE  Inv'
<1>0. TypeOK /\ \A m \in Listener : ListenerOK(m)
  BY DEF Inv
<1>1. UNCHANGED <<reliable, out, reads, decipher, lid, delivered, acked>>
  BY DEF DecodePlain, DecodeBegin, DecodeEnd, local
<1>2. PICK to \in {"xor", "accept", "read"} : lpc' = [lpc EXCEPT ![l] = to]
  BY DEF DecodePlain, DecodeBegin, DecodeEnd, Goto
<1>3. lpc[l] # "read" /\ lid[l] \in DOMAIN out /\ Msg(l) \in Message /\ lid[l] \in Id
  BY <1>0 DEF DecodePlain, DecodeBegin, DecodeEnd, Goto, TypeOK, ListenerOK, Msg, Id
<1>4. decipher \in Object /\ taken[decipher] \in Nat
  BY <1>0, InboundAssumption, SMTT(30) DEF TypeOK, Object
<1>5. /\ taken' \in [Object -> Nat] /\ lkey' \in [Listener -> Object]
      /\ lpos' \in [Listener -> Nat] /\ refused' \subseteq Id
  <2>1. CASE DecodePlain(l)
    BY <1>0, <2>1 DEF DecodePlain, local, TypeOK
  <2>2. CASE DecodeBegin(l)
    BY <1>0, <1>4, <2>2 DEF DecodeBegin, TypeOK
  <2>3. CASE DecodeEnd(l)
    <3>0. lpos[l] \in Nat
      BY <1>0 DEF TypeOK
    <3>1. lpos[l] + Msg(l).size \in Nat
      BY <1>3, <3>0 DEF Message
    <3>2. taken' \in [Object -> Nat] /\ lkey' = lkey /\ lpos' = lpos
      BY <1>0, <2>3, <3>1 DEF DecodeEnd, local, TypeOK
    <3>3. refused' \subseteq Id
      BY <1>0, <1>3, <2>3 DEF DecodeEnd, TypeOK
    <3> QED
      BY <1>0, <3>2, <3>3 DEF TypeOK
  <2> QED
    BY <2>1, <2>2, <2>3
<1>6. TypeOK'
  <2>1. lpc' \in [Listener -> {"read", "decode", "xor", "accept", "reset", "emit"}]
    BY <1>0, <1>2 DEF TypeOK
  <2> QED
    BY <1>0, <1>1, <1>5, <2>1, Zenon DEF TypeOK
<1>7. ASSUME NEW m \in Listener
      PROVE  ListenerOK(m)'
  <2>1. CASE m = l
    BY <1>0, <1>1, <1>3, <2>1, Zenon
       DEF DecodePlain, DecodeBegin, DecodeEnd, Goto, local, TypeOK, ListenerOK, Msg, Deciphered, Parses
  <2>2. CASE m # l
    <3>1. lpc'[m] = lpc[m] /\ lpos'[m] = lpos[m]
      BY <1>0, <1>2, <2>2, Zenon DEF DecodePlain, DecodeBegin, DecodeEnd, local, TypeOK
    <3> QED
      BY <1>0, <1>1, <3>1 DEF ListenerOK, Msg, Deciphered, Parses
  <2> QED
    BY <2>1, <2>2
<1>8. AckedIsHandedOver'
  <2>1. ASSUME NEW m \in Listener, lpc[m] = "emit"
        PROVE  lpc'[m] = "emit" /\ lpos'[m] = lpos[m]
    <3>1. m # l
      BY <2>1 DEF DecodePlain, DecodeBegin, DecodeEnd, Goto
    <3> QED
      BY <1>0, <1>2, <2>1, <3>1, Zenon DEF DecodePlain, DecodeBegin, DecodeEnd, local, TypeOK
  <2> QED
    BY <1>1, <2>1, HandOverKept, Zenon
<1> QED
  BY <1>1, <1>6, <1>7, <1>8 DEF Inv

\* What EmitData adds to the requests.
LEMMA Hand ==
    ASSUME Inv, NEW l \in Listener, EmitData(l)
    PROVE  /\ lid[l] \in DOMAIN out /\ lid[l] \in Id /\ Len(delivered) \in Nat
           /\ DOMAIN delivered = 1 .. Len(delivered)
           /\ delivered' \in Seq([id : Id, key : Object])
           /\ DOMAIN delivered \subseteq DOMAIN delivered'
           /\ \A k \in DOMAIN delivered : delivered'[k] = delivered[k]
           /\ \/ delivered' = delivered /\ ~(Msg(l).kind = "Data" /\ Msg(l).size > 0)
              \/ /\ Msg(l).kind = "Data" /\ Msg(l).size > 0 /\ Deciphered(Msg(l)) /\ Parses(l)
                 /\ DOMAIN delivered' = 1 .. Len(delivered) + 1
                 /\ delivered'[Len(delivered) + 1].id = lid[l]
                 /\ delivered'[Len(delivered) + 1].key = lkey[l]
<1>1. lid[l] \in DOMAIN out /\ lid[l] \in Id /\ Msg(l) \in Message
  BY DEF EmitData, Goto, Inv, TypeOK, ListenerOK, Msg, Id
<1>2. Len(delivered) \in Nat /\ DOMAIN delivered = 1 .. Len(delivered)
  BY DEF Inv, TypeOK
<1> DEFINE d == [id |-> lid[l], key |-> lkey[l]]
<1>3. d \in [id : Id, key : Object]
  BY <1>1 DEF Inv, TypeOK
<1>4. CASE Msg(l).kind = "Data" /\ Msg(l).size > 0
  <2>1. Deciphered(Msg(l)) /\ Parses(l)
    BY <1>4 DEF EmitData, Goto, Inv, ListenerOK, Deciphered
  <2>2. delivered' = Append(delivered, d)
    BY <1>4, <2>1 DEF EmitData
  <2> HIDE DEF d
  <2>3. /\ delivered' \in Seq([id : Id, key : Object])
        /\ \A k \in DOMAIN delivered : delivered'[k] = delivered[k]
        /\ DOMAIN delivered' = 1 .. Len(delivered) + 1 /\ delivered'[Len(delivered) + 1] = d
    BY <1>3, <2>2, SMTT(30) DEF Inv, TypeOK
  <2>4. d.id = lid[l] /\ d.key = lkey[l]
    BY DEF d
  <2>5. DOMAIN delivered \subseteq DOMAIN delivered'
    BY <1>2, <2>3
  <2> QED
    BY <1>1, <1>2, <1>4, <2>1, <2>3, <2>4, <2>5
<1>5. CASE ~(Msg(l).kind = "Data" /\ Msg(l).size > 0)
  <2>1. delivered' = delivered
    BY <1>5 DEF EmitData, Parses
  <2>2. delivered \in Seq([id : Id, key : Object])
    BY DEF Inv, TypeOK
  <2> QED
    BY <1>1, <1>2, <1>5, <2>1, <2>2, Zenon
<1> QED
  BY <1>4, <1>5, Zenon

\* Where Accept leads.
LEMMA Switch ==
    ASSUME Inv, NEW l \in Listener, Accept(l)
    PROVE  /\ UNCHANGED <<reliable, out, reads, taken, decipher, lid, lkey, lpos, delivered, refused>>
           /\ acked' = acked \cup {id \in {lid[l]} : Msg(l).kind # "MultiAck"}
           /\ lpc[l] = "accept" /\ lid[l] \in DOMAIN out /\ lid[l] \in Id
           /\ \E to \in {"read", "reset", "emit"} :
                 /\ lpc' = [lpc EXCEPT ![l] = to]
                 /\ to = "reset" <=> Msg(l).kind = "Syn"
                 /\ to = "emit" <=> Msg(l).kind = "Data"
<1>1. lpc[l] = "accept" /\ lid[l] \in DOMAIN out /\ lid[l] \in Id /\ Msg(l) \in Message
  BY DEF Accept, Goto, Inv, TypeOK, ListenerOK, Msg, Id
<1>2. Msg(l).kind \in {"Syn", "Data", "MultiAck"}
  BY <1>1 DEF Message
<1>3. \E to \in {"read", "reset", "emit"} :
         /\ lpc' = [lpc EXCEPT ![l] = to]
         /\ to = "reset" <=> Msg(l).kind = "Syn"
         /\ to = "emit" <=> Msg(l).kind = "Data"
  BY <1>2, Zenon DEF Accept, Goto
<1> QED
  BY <1>1, <1>3, Zenon DEF Accept, local

LEMMA AcceptKeepsInv ==
    ASSUME Inv, NEW l \in Listener, Accept(l)
    PROVE  Inv'
<1>0. TypeOK /\ \A m \in Listener : ListenerOK(m)
  BY DEF Inv
<1>1. /\ UNCHANGED <<reliable, out, reads, taken, decipher, lid, lkey, lpos, delivered, refused>>
      /\ acked' = acked \cup {id \in {lid[l]} : Msg(l).kind # "MultiAck"}
      /\ lpc[l] = "accept" /\ lid[l] \in DOMAIN out /\ lid[l] \in Id
  BY Switch, Zenon
<1>2. PICK to \in {"read", "reset", "emit"} :
         /\ lpc' = [lpc EXCEPT ![l] = to]
         /\ to = "reset" <=> Msg(l).kind = "Syn"
         /\ to = "emit" <=> Msg(l).kind = "Data"
  BY Switch
<1>3. TypeOK'
  <2>1. lpc' \in [Listener -> {"read", "decode", "xor", "accept", "reset", "emit"}]
    BY <1>0, <1>2 DEF TypeOK
  <2>2. acked' \subseteq Id
    BY <1>0, <1>1 DEF TypeOK
  <2> QED
    BY <1>0, <1>1, <2>1, <2>2, Zenon DEF TypeOK
<1>4. ASSUME NEW m \in Listener
      PROVE  ListenerOK(m)'
  BY <1>0, <1>1, <1>2, Zenon DEF TypeOK, ListenerOK, Msg, Deciphered, Parses
<1>5. acked' \subseteq DOMAIN out'
  BY <1>1, Zenon DEF Inv
<1>6. AckedIsHandedOver'
  <2> SUFFICES ASSUME NEW id \in acked', out[id].kind = "Data", out[id].size > 0
               PROVE  \/ \E k \in DOMAIN delivered : delivered[k].id = id
                      \/ \E m \in Listener : lid[m] = id /\ lpc'[m] = "emit" /\ Parses(m)
    BY <1>1 DEF AckedIsHandedOver, Parses, Msg
  <2>1. CASE id \in acked
    <3>1. \A m \in Listener : lpc[m] = "emit" => lpc'[m] = "emit"
      BY <1>0, <1>1, <1>2 DEF TypeOK
    <3> QED
      BY <2>1, <3>1 DEF Inv, AckedIsHandedOver
  <2>2. CASE id = lid[l]
    <3>1. Deciphered(Msg(l)) /\ Msg(l).kind = "Data"
      BY <2>2, Zenon DEF Deciphered, Msg
    <3>2. Parses(l)
      BY <1>0, <1>1, <3>1 DEF ListenerOK
    <3>3. lpc'[l] = "emit"
      BY <1>0, <1>2, <3>1 DEF TypeOK
    <3> QED
      BY <2>2, <3>2, <3>3
  <2> QED
    BY <1>1, <2>1, <2>2
<1> QED
  BY <1>1, <1>3, <1>4, <1>5, <1>6 DEF Inv

LEMMA EmitKeepsInv ==
    ASSUME Inv, NEW l \in Listener, EmitData(l)
    PROVE  Inv'
<1>0. TypeOK
  BY DEF Inv
<1>1. /\ UNCHANGED <<reliable, out, reads, taken, decipher, lid, lkey, lpos, acked, refused>>
      /\ lpc[l] = "emit" /\ lpc' = [lpc EXCEPT ![l] = "read"]
  BY DEF EmitData, Goto, local
<1>2. TypeOK'
  <2>1. delivered' \in Seq([id : Id, key : Object])
    BY Hand, Zenon
  <2> QED
    BY <1>0, <1>1, <2>1, Zenon DEF TypeOK
<1>3. ASSUME NEW m \in Listener
      PROVE  ListenerOK(m)'
  BY <1>1, Zenon DEF Inv, TypeOK, ListenerOK, Msg, Deciphered, Parses
<1>4. \A k \in DOMAIN delivered' : delivered'[k].id \in DOMAIN out'
  <2> SUFFICES ASSUME NEW k \in DOMAIN delivered'
               PROVE  delivered'[k].id \in DOMAIN out
    BY <1>1
  <2>1. CASE k \in DOMAIN delivered
    BY <2>1, Hand, Zenon DEF Inv
  <2>2. CASE k \notin DOMAIN delivered
    <3>1. k = Len(delivered) + 1
      BY <2>2, Hand
    <3> QED
      BY <2>2, <3>1, Hand
  <2> QED
    BY <2>1, <2>2
<1>5. AckedIsHandedOver'
  <2> SUFFICES ASSUME NEW id \in acked, out[id].kind = "Data", out[id].size > 0
               PROVE  \/ \E k \in DOMAIN delivered' : delivered'[k].id = id
                      \/ \E m \in Listener : lid[m] = id /\ lpc'[m] = "emit" /\ Parses(m)
    BY <1>1 DEF AckedIsHandedOver, Parses, Msg
  <2>1. CASE \E k \in DOMAIN delivered : delivered[k].id = id
    <3>1. PICK k \in DOMAIN delivered : delivered[k].id = id
      BY <2>1
    <3> QED
      BY <3>1, Hand
  <2>2. CASE id = lid[l]
    <3>1. Len(delivered) + 1 \in DOMAIN delivered' /\ delivered'[Len(delivered) + 1].id = lid[l]
      BY <2>2, Hand DEF Msg
    <3> QED
      BY <2>2, <3>1, Zenon
  <2>3. CASE \E m \in Listener : m # l /\ lid[m] = id /\ lpc[m] = "emit" /\ Parses(m)
    BY <1>0, <1>1, <2>3, Zenon DEF TypeOK
  <2> QED
    BY <2>1, <2>2, <2>3 DEF Inv, AckedIsHandedOver
<1> QED
  BY <1>1, <1>2, <1>3, <1>4, <1>5 DEF Inv

LEMMA ResetKeepsInv ==
    ASSUME Inv, Room, NEW l \in Listener, Reset(l)
    PROVE  Inv'
<1>1. /\ UNCHANGED <<reliable, out, reads, taken, lid, lkey, lpos, delivered, acked, refused>>
      /\ lpc[l] = "reset" /\ lpc' = [lpc EXCEPT ![l] = "read"] /\ decipher' = decipher + 1
  BY DEF Reset, Goto, local
<1>2. TypeOK
  BY DEF Inv
<1>3. decipher' \in 0 .. Len(reads)
  BY <1>1, <1>2 DEF TypeOK, Room
<1>4. TypeOK'
  BY <1>1, <1>2, <1>3, Zenon DEF TypeOK
<1>5. ASSUME NEW m \in Listener
      PROVE  ListenerOK(m)'
  BY <1>1 DEF Inv, TypeOK, ListenerOK, Msg, Deciphered, Parses
<1>6. AckedIsHandedOver'
  BY <1>1, <1>2, HandOverKept DEF TypeOK
<1> QED
  BY <1>1, <1>4, <1>5, <1>6 DEF Inv

LEMMA NextKeepsInv == Inv /\ Room /\ [Next]_vars => Inv'
<1> SUFFICES ASSUME Inv, Room, [Next]_vars
             PROVE  Inv'
  OBVIOUS
<1>1. CASE PeerSyn \/ PeerData \/ PeerMultiAck
  BY <1>1, PeerKeepsInv
<1>2. CASE \E l \in Listener : Read(l) \/ Handle(l)
  BY <1>2, ReadKeepsInv, DecodeKeepsInv, AcceptKeepsInv, EmitKeepsInv, ResetKeepsInv, Zenon DEF Handle
<1>3. CASE UNCHANGED vars
  <2>1. /\ reliable' = reliable /\ out' = out /\ reads' = reads /\ taken' = taken
        /\ decipher' = decipher /\ lpc' = lpc /\ lid' = lid /\ lkey' = lkey /\ lpos' = lpos
        /\ delivered' = delivered /\ acked' = acked /\ refused' = refused
    BY <1>3, Zenon DEF vars, local
  <2>2. TypeOK'
    BY <2>1 DEF Inv, TypeOK
  <2>3. \A l \in Listener : ListenerOK(l)'
    BY <2>1, Zenon DEF Inv, ListenerOK, Msg, Deciphered, Parses
  <2>4. AckedIsHandedOver'
    BY <2>1, HandOverKept, Zenon
  <2> QED
    BY <2>1, <2>2, <2>3, <2>4, Zenon DEF Inv
<1> QED
  BY <1>1, <1>2, <1>3 DEF Next, Stopped

-----------------------------------------------------------------------------
(***************************************************************************)
(* One listener: order.                                                    *)
(***************************************************************************)
LEMMA Splits ==
    ASSUME NEW n \in Nat
    PROVE  /\ \A k \in 1 .. n + 1 : k \in 1 .. n \/ k = n + 1
           /\ \A j, k \in 1 .. n + 1 : j < k => j \in 1 .. n
  OBVIOUS

LEMMA PeerKeepsPeerInv ==
    ASSUME TypeOK, PeerInv, NEW m, Following(m), PeerSends(m)
    PROVE  PeerInv'
<1>1. /\ m \in Message /\ Len(out) \in Nat
      /\ DOMAIN out = 1 .. Len(out) /\ DOMAIN out' = 1 .. Len(out) + 1
      /\ \A a \in DOMAIN out : out'[a] = out[a]
      /\ out'[Len(out) + 1] = m
  BY OneMorePacket DEF Following
<1>2. \A a \in DOMAIN out : out[a] \in Message
  BY DEF TypeOK
<1>3. ASSUME NEW a \in DOMAIN out
      PROVE  out[a].session <= m.session /\ (out[a].session = m.session => out[a].pos <= m.pos)
  <2>1. out # <<>> /\ LastSent = out[Len(out)] /\ Len(out) \in DOMAIN out /\ a <= Len(out)
    BY <1>1, <1>3 DEF LastSent
  <2> DEFINE z == out[Len(out)]
  <2>2. z \in Message /\ out[a] \in Message
    BY <1>2, <2>1
  <2>3. out[a].session <= z.session /\ (out[a].session = z.session => out[a].pos <= z.pos)
    BY <2>1 DEF PeerInv
  <2>4. Session = z.session /\ PeerPos >= z.pos
    BY <2>1, <2>2 DEF Session, PeerPos, Message
  <2>5. PeerPos \in Nat
    BY <2>1, <2>2 DEF PeerPos, Message
  <2> HIDE DEF z
  <2> QED
    <3>1. out[a].session \in Nat /\ z.session \in Nat /\ out[a].pos \in Nat /\ z.pos \in Nat
      BY <2>2, Zenon DEF Message
    <3>2. CASE m.kind = "Syn"
      <4>1. m.session = z.session + 1
        BY <2>4, <3>2, Zenon DEF Following
      <4> QED
        BY <2>3, <3>1, <4>1
    <3>3. CASE m.kind # "Syn"
      <4>1. m.session = z.session /\ m.pos = PeerPos
        BY <2>4, <3>3, Zenon DEF Following
      <4> QED
        BY <2>3, <2>4, <2>5, <3>1, <4>1
    <3> QED
      BY <3>2, <3>3
<1> SUFFICES ASSUME NEW a \in DOMAIN out', NEW b \in DOMAIN out', a <= b
             PROVE  /\ out'[a].session <= out'[b].session
                    /\ out'[a].session = out'[b].session => out'[a].pos <= out'[b].pos
  BY DEF PeerInv
<1>4. CASE b \in DOMAIN out
  BY <1>1, <1>4 DEF PeerInv
<1>5. CASE b = Len(out) + 1 /\ a \in DOMAIN out
  BY <1>1, <1>3, <1>5
<1>6. CASE a = Len(out) + 1 /\ b = Len(out) + 1
  BY <1>1, <1>6 DEF Message
<1>7. (a \in DOMAIN out \/ a = Len(out) + 1) /\ (b \in DOMAIN out \/ b = Len(out) + 1)
  BY <1>1, Splits, Zenon
<1> QED
  BY <1>4, <1>5, <1>6, <1>7, Zenon

LEMMA Ends ==
    ASSUME Inv
    PROVE  /\ \A id \in DOMAIN out : out[id] \in Message /\ End(id) \in Nat
           /\ \A k \in DOMAIN delivered :
                 delivered[k].id \in DOMAIN out /\ delivered[k].key \in Object
<1>1. \A id \in DOMAIN out : out[id] \in Message
  BY DEF Inv, TypeOK
<1>2. \A id \in DOMAIN out : End(id) \in Nat
  BY <1>1 DEF End, Message
<1>3. \A k \in DOMAIN delivered : delivered[k] \in [id : Id, key : Object]
  <2> DEFINE R == [id : Id, key : Object]
  <2>1. delivered \in Seq(R)
    BY DEF Inv, TypeOK
  <2> HIDE DEF R
  <2>2. \A k \in DOMAIN delivered : delivered[k] \in R
    BY <2>1, SMTT(30)
  <2> QED
    BY <2>2 DEF R
<1> QED
  BY <1>1, <1>2, <1>3 DEF Inv

\* What the peer sends later does not touch the streams.
LEMMA PeerKeepsStream ==
    ASSUME Inv, StreamInv, NEW m, Following(m), PeerSends(m)
    PROVE  StreamInv'
<1>1. \A a \in DOMAIN out : out'[a] = out[a]
  BY OneMorePacket DEF Following, Inv
<1>2. UNCHANGED <<taken, lpc, lid, lkey, lpos, delivered>>
  BY DEF PeerSends, local
<1>3. \A l \in Listener : lpc[l] # "read" => lid[l] \in DOMAIN out
  BY DEF Inv, ListenerOK
<1>4. \A k \in DOMAIN delivered : delivered[k].id \in DOMAIN out
  BY DEF Inv
<1>5. \A a \in DOMAIN out : End(a)' = End(a)
  BY <1>1 DEF End
<1> QED
  BY <1>1, <1>2, <1>3, <1>4, <1>5 DEF StreamInv, Msg, Deciphered

LEMMA DecodeEndKeepsStream ==
    ASSUME OneListener, Inv, StreamInv, NEW l \in Listener, DecodeEnd(l)
    PROVE  StreamInv'
<1>1. /\ UNCHANGED <<out, lid, lkey, lpos, delivered>>
      /\ lpc[l] = "xor" /\ lpc' = [lpc EXCEPT ![l] = IF Parses(l) THEN "accept" ELSE "read"]
      /\ taken' = [taken EXCEPT ![lkey[l]] = lpos[l] + Msg(l).size]
  BY Zenon DEF DecodeEnd, Goto, local
<1>2. /\ lpos[l] = taken[lkey[l]] /\ lpos[l] \in Nat /\ lkey[l] \in Object
      /\ Msg(l) \in Message /\ Deciphered(Msg(l))
  BY <1>1, SMTT(30) DEF StreamInv, Inv, TypeOK, ListenerOK, Msg
<1>3. \A o \in Object : taken[o] \in Nat /\ taken'[o] \in Nat /\ taken[o] <= taken'[o]
  BY <1>1, <1>2, SMTT(30) DEF Inv, TypeOK, Message
<1>4. \A id : End(id)' = End(id)
  BY <1>1, Zenon DEF End
<1>5. \A k \in DOMAIN delivered : delivered[k].id \in DOMAIN out /\ delivered[k].key \in Object
  BY Ends, Zenon
<1>6. ASSUME NEW k \in DOMAIN delivered
      PROVE  out[delivered[k].id].size > 0 /\ End(delivered[k].id) <= taken'[delivered[k].key]
  <2> DEFINE e == End(delivered[k].id)
             before == taken[delivered[k].key]
             after == taken'[delivered[k].key]
  <2>1. e \in Nat /\ before \in Nat /\ after \in Nat /\ before <= after
    BY <1>3, <1>5, Ends, Zenon
  <2>2. out[delivered[k].id].size > 0 /\ e <= before
    BY Zenon DEF StreamInv
  <2> HIDE DEF e, before, after
  <2>3. e <= after
    BY <2>1, <2>2
  <2> QED
    BY <2>2, <2>3, Zenon DEF e, after
<1>7. CASE Parses(l)
  <2>1. End(lid[l]) = taken'[lkey[l]]
    BY <1>1, <1>2, <1>7, Zenon DEF End, Parses, Msg, Inv, TypeOK
  <2>2. \A k \in DOMAIN delivered : delivered[k].key = lkey[l] => End(delivered[k].id) <= lpos[l]
    BY <1>2, Zenon DEF StreamInv
  <2>4. \A m \in Listener : m = l /\ lpc'[m] = "accept"
    BY <1>1, <1>7 DEF OneListener, Inv, TypeOK
  <2>5. End(lid[l]) <= taken'[lkey[l]]
    <3> DEFINE after == taken'[lkey[l]]
    <3>1. after \in Nat
      BY <1>2, <1>3, Zenon
    <3> HIDE DEF after
    <3>2. after <= after
      BY <3>1
    <3> QED
      BY <2>1, <3>2, Zenon DEF after
  <2> QED
    BY <1>1, <1>4, <1>6, <2>2, <2>4, <2>5, Zenon DEF StreamInv
<1>8. CASE ~Parses(l)
  <2>1. \A m \in Listener : lpc'[m] = "read"
    BY <1>1, <1>8, Zenon DEF OneListener, Inv, TypeOK
  <2> QED
    BY <1>1, <1>4, <1>6, <2>1, Zenon DEF StreamInv
<1> QED
  BY <1>7, <1>8

LEMMA AcceptKeepsStream ==
    ASSUME OneListener, Inv, StreamInv, NEW l \in Listener, Accept(l)
    PROVE  StreamInv'
<1>1. /\ UNCHANGED <<out, taken, lid, lkey, lpos, delivered>>
      /\ lpc[l] = "accept" /\ lpc'[l] \in {"read", "reset", "emit"}
  <2>1. lpc \in [Listener -> {"read", "decode", "xor", "accept", "reset", "emit"}]
    BY Zenon DEF Inv, TypeOK
  <2>2. PICK to \in {"read", "reset", "emit"} : lpc' = [lpc EXCEPT ![l] = to]
    BY Switch, Zenon
  <2>3. lpc'[l] = to
    BY <2>1, <2>2, Zenon
  <2> QED
    BY <2>3, Switch, Zenon
<1>2. \A id : End(id)' = End(id)
  BY <1>1 DEF End
<1>3. \A m \in Listener : m = l
  BY DEF OneListener
<1> QED
  BY <1>1, <1>2, <1>3, ZenonT(30) DEF StreamInv, Msg, Deciphered

LEMMA EmitKeepsStream ==
    ASSUME OneListener, Inv, StreamInv, NEW l \in Listener, EmitData(l)
    PROVE  StreamInv'
<1>1. /\ UNCHANGED <<out, taken, lid, lkey, lpos>>
      /\ lpc[l] = "emit" /\ \A m \in Listener : lpc'[m] = "read"
  BY ZenonT(30) DEF EmitData, Goto, local, OneListener, Inv, TypeOK
<1>2. \A id : End(id)' = End(id)
  BY <1>1, Zenon DEF End
<1>3. CASE delivered' = delivered
  BY <1>1, <1>2, <1>3, ZenonT(30) DEF StreamInv
<1>4. CASE delivered' # delivered
  <2> DEFINE z == Len(delivered) + 1
  <2>1. /\ Deciphered(Msg(l)) /\ Parses(l) /\ Msg(l).size > 0
        /\ Len(delivered) \in Nat /\ DOMAIN delivered = 1 .. Len(delivered)
        /\ DOMAIN delivered' = 1 .. Len(delivered) + 1
        /\ delivered'[z].id = lid[l] /\ delivered'[z].key = lkey[l]
        /\ \A k \in DOMAIN delivered : delivered'[k] = delivered[k]
    BY <1>4, Hand, Zenon
  <2>2. /\ End(lid[l]) <= taken[lkey[l]] /\ out[lid[l]].size > 0 /\ lpos[l] = out[lid[l]].pos
        /\ \A k \in DOMAIN delivered : delivered[k].key = lkey[l] => End(delivered[k].id) <= lpos[l]
    BY <1>1, <2>1, ZenonT(30) DEF StreamInv, Parses, Msg
  <2>3. \A k \in DOMAIN delivered' : k \in DOMAIN delivered \/ k = z
    BY <2>1, Splits, Zenon
  <2>4. \A j, k \in DOMAIN delivered' : j < k => j \in DOMAIN delivered
    BY <2>1, Splits, Zenon
  <2> HIDE DEF z
  <2>5. \A k \in DOMAIN delivered' :
           out[delivered'[k].id].size > 0 /\ End(delivered'[k].id) <= taken[delivered'[k].key]
    BY <2>1, <2>2, <2>3, Zenon DEF StreamInv
  <2>6. \A j, k \in DOMAIN delivered' : j < k /\ delivered'[j].key = delivered'[k].key =>
           End(delivered'[j].id) <= out[delivered'[k].id].pos
    <3> SUFFICES ASSUME NEW j \in DOMAIN delivered', NEW k \in DOMAIN delivered', j < k,
                        delivered'[j].key = delivered'[k].key
                 PROVE  End(delivered'[j].id) <= out[delivered'[k].id].pos
      BY Zenon
    <3>1. j \in DOMAIN delivered /\ delivered'[j] = delivered[j]
      BY <2>1, <2>4, Zenon
    <3>2. CASE k \in DOMAIN delivered
      BY <2>1, <3>1, <3>2, Zenon DEF StreamInv
    <3>3. CASE k = z
      BY <2>1, <2>2, <3>1, <3>3, Zenon DEF z
    <3> QED
      BY <2>3, <3>2, <3>3, Zenon
  <2> QED
    BY <1>1, <1>2, <2>5, <2>6, Zenon DEF StreamInv
<1> QED
  BY <1>3, <1>4

LEMMA OthersKeepStream ==
    ASSUME OneListener, Inv, StreamInv, NEW l \in Listener,
           Read(l) \/ DecodePlain(l) \/ DecodeBegin(l) \/ Reset(l)
    PROVE  StreamInv'
<1>1. UNCHANGED <<out, taken, delivered>>
  BY Zenon DEF Read, DecodePlain, DecodeBegin, Reset
<1>2. \A id : End(id)' = End(id)
  BY <1>1 DEF End
<1>3. \A m \in Listener : m = l
  BY Zenon DEF OneListener
<1>4. lpc'[l] = "xor" => lpos'[l] = taken[lkey'[l]]
  BY Zenon DEF Read, DecodePlain, DecodeBegin, Reset, Goto, Inv, TypeOK
<1>5. lpc'[l] # "emit" /\ (lpc'[l] = "accept" => ~Deciphered(Msg(l))')
  BY Zenon DEF Read, DecodePlain, DecodeBegin, Reset, Goto, local, Inv, TypeOK, Msg, Deciphered
<1> QED
  BY <1>1, <1>2, <1>3, <1>4, <1>5, Zenon DEF StreamInv

LEMMA NextKeepsOrder ==
    ASSUME OneListener
    PROVE  Inv /\ PeerInv /\ StreamInv /\ [Next]_vars => PeerInv' /\ StreamInv'
<1> SUFFICES ASSUME Inv, PeerInv, StreamInv, [Next]_vars
             PROVE  PeerInv' /\ StreamInv'
  OBVIOUS
<1>1. CASE PeerSyn \/ PeerData \/ PeerMultiAck
  <2>1. PICK m : Following(m) /\ PeerSends(m)
    BY <1>1, PeerPacket DEF Inv
  <2> QED
    BY <2>1, PeerKeepsPeerInv, PeerKeepsStream DEF Inv
<1>2. ASSUME NEW l \in Listener, Read(l) \/ Handle(l)
      PROVE  PeerInv' /\ StreamInv'
  <2>1. out' = out
    BY <1>2 DEF Read, Handle, DecodePlain, DecodeBegin, DecodeEnd, Accept, EmitData, Reset
  <2>2. StreamInv'
    BY <1>2, DecodeEndKeepsStream, AcceptKeepsStream, EmitKeepsStream, OthersKeepStream, Zenon DEF Handle
  <2> QED
    BY <2>1, <2>2, Zenon DEF PeerInv
<1>3. CASE UNCHANGED vars
  BY <1>3, ZenonT(30) DEF vars, local, PeerInv, StreamInv, End, Msg, Deciphered
<1> QED
  BY <1>1, <1>2, <1>3 DEF Next, Stopped

-----------------------------------------------------------------------------
(***************************************************************************)
(* One listener and a reliable network: the streams stay in step.          *)
(***************************************************************************)
LEMMA PeerKeepsInStep ==
    ASSUME Inv, InStepInv, NEW m, Following(m), PeerSends(m)
    PROVE  InStepInv'
<1>1. /\ m \in Message /\ Len(out) \in Nat
      /\ DOMAIN out = 1 .. Len(out) /\ DOMAIN out' = 1 .. Len(out) + 1 /\ Len(out') = Len(out) + 1
      /\ \A a \in DOMAIN out : out'[a] = out[a]
      /\ out'[Len(out) + 1] = m
  BY OneMorePacket DEF Following, Inv
<1>2. UNCHANGED <<reliable, reads, taken, decipher, lpc, lid, lkey, lpos, refused>>
  BY DEF PeerSends, local
<1>3. ASSUME NEW n \in 0 .. Len(out)
      PROVE  Position(n)' = Position(n)
  BY <1>1, <1>3 DEF Position
<1>4. Position(Len(out)) = PeerPos
  <2>1. CASE out = <<>>
    BY <2>1 DEF Position, PeerPos
  <2>2. CASE out # <<>>
    BY <1>1, <2>2 DEF Position, PeerPos, LastSent
  <2> QED
    BY <2>1, <2>2
<1>5. PeerInStep'
  <2> SUFFICES ASSUME NEW n \in DOMAIN out'
               PROVE  /\ out'[n].kind \in PeerKinds
                      /\ out'[n].pos = IF out'[n].kind = "Syn" THEN 0 ELSE Position(n - 1)'
    BY DEF PeerInStep
  <2>1. n - 1 \in 0 .. Len(out)
    BY <1>1
  <2>2. CASE n \in DOMAIN out
    BY <1>1, <1>3, <2>1, <2>2 DEF InStepInv, PeerInStep
  <2>3. CASE n = Len(out) + 1
    <3>1. n - 1 = Len(out)
      BY <1>1, <2>3, SMTT(30)
    <3> QED
      BY <1>1, <1>3, <1>4, <2>1, <2>3, <3>1 DEF Following
  <2> QED
    BY <1>1, <2>2, <2>3
<1>6. ASSUME reliable, NEW l \in Listener
      PROVE  ListenerInStep(l)'
  <2>1. Len(reads) \in 0 .. Len(out) /\ Len(reads) \in Nat
    BY <1>1, <1>6, SMTT(30) DEF Inv, TypeOK, InStepInv
  <2>2. lpc[l] # "read" => lid[l] \in 0 .. Len(out) /\ lid[l] - 1 \in 0 .. Len(out) /\ Msg(l)' = Msg(l)
    <3>1. lpc[l] # "read" => lid[l] \in DOMAIN out
      BY Zenon DEF Inv, ListenerOK
    <3>2. lid' = lid /\ (lid[l] \in DOMAIN out => out'[lid[l]] = out[lid[l]])
      BY <1>1, <1>2, Zenon
    <3>3. lpc[l] # "read" => Msg(l)' = Msg(l)
      BY <3>1, <3>2, Zenon DEF Msg
    <3> QED
      BY <1>1, <3>1, <3>3
  <2>3. ListenerInStep(l)
    BY <1>6, Zenon DEF InStepInv
  <2>4. Position(Len(reads))' = Position(Len(reads))
    <3>1. \A n \in 0 .. Len(out) : Position(n)' = Position(n)
      BY <1>3, Zenon
    <3> QED
      BY <1>2, <2>1, <3>1, Zenon
  <2>5. lpc[l] # "read" =>
            Position(lid[l])' = Position(lid[l]) /\ Position(lid[l] - 1)' = Position(lid[l] - 1)
    <3>1. \A n \in 0 .. Len(out) : Position(n)' = Position(n)
      BY <1>3, Zenon
    <3> QED
      BY <1>2, <2>2, <3>1, Zenon
  <2> QED
    BY <1>2, <2>2, <2>3, <2>4, <2>5, ZenonT(30) DEF ListenerInStep
<1>7. reliable => Len(reads)' <= Len(out)'
  BY <1>1, <1>2 DEF InStepInv, Inv, TypeOK
<1> QED
  BY <1>2, <1>5, <1>6, <1>7 DEF InStepInv

\* The steps of the listener that leave the peer's packets alone.
LEMMA PeerInStepKept ==
    ASSUME PeerInStep, out' = out
    PROVE  PeerInStep' /\ \A n : Position(n)' = Position(n)
  BY DEF PeerInStep, Position

LEMMA ReadKeepsInStep ==
    ASSUME OneListener, Inv, InStepInv, NEW l \in Listener, Read(l)
    PROVE  InStepInv'
<1>1. /\ UNCHANGED <<reliable, out, taken, decipher, lkey, lpos, refused>>
      /\ lpc[l] = "read" /\ lpc' = [lpc EXCEPT ![l] = "decode"]
  BY DEF Read, Goto
<1>2. PICK id \in DOMAIN out : /\ reliable => id = Len(reads) + 1
                               /\ reads' = Append(reads, id) /\ lid' = [lid EXCEPT ![l] = id]
  BY Zenon DEF Read
<1>3. Len(reads') = Len(reads) + 1 /\ Len(reads) \in Nat /\ lid'[l] = id /\ lpc'[l] = "decode"
  BY <1>1, <1>2, InboundAssumption, SMTT(30) DEF Inv, TypeOK, Id
<1>4. ASSUME reliable
      PROVE  Len(reads') <= Len(out) /\ ListenerInStep(l)'
  <2>1. id \in 1 .. Len(out) /\ id = Len(reads')
    BY <1>2, <1>3, <1>4 DEF Inv, TypeOK
  <2>2. id - 1 = Len(reads)
    BY <1>2, <1>3, <1>4
  <2> QED
    BY <1>1, <1>3, <1>4, <2>1, <2>2, PeerInStepKept, SMTT(30) DEF InStepInv, ListenerInStep
<1>5. \A m \in Listener : m = l
  BY DEF OneListener
<1> QED
  BY <1>1, <1>4, <1>5, PeerInStepKept DEF InStepInv

\* What Decode finds for the listener's packet.
LEMMA InPlace ==
    ASSUME Inv, InStepInv, NoPlainAcks, NEW l \in Listener, lpc[l] # "read"
    PROVE  /\ lid[l] \in DOMAIN out /\ lid[l] \in Nat \ {0} /\ Msg(l) \in Message
           /\ Deciphered(Msg(l)) =>
                /\ Msg(l).kind = "Data" /\ Msg(l).pos = Position(lid[l] - 1)
                /\ Position(lid[l]) = Msg(l).pos + Msg(l).size
           /\ ~Deciphered(Msg(l)) /\ Msg(l).kind # "Syn" => Position(lid[l]) = Position(lid[l] - 1)
           /\ Msg(l).kind = "Syn" => Position(lid[l]) = 0
<1>1. lid[l] \in DOMAIN out /\ lid[l] \in Nat \ {0} /\ Msg(l) \in Message
  BY DEF Inv, TypeOK, ListenerOK, Msg
<1>2. /\ Msg(l).kind \in PeerKinds
      /\ Msg(l).pos = IF Msg(l).kind = "Syn" THEN 0 ELSE Position(lid[l] - 1)
  BY <1>1 DEF InStepInv, PeerInStep, Msg
<1>3. Position(lid[l]) = Msg(l).pos + (IF Msg(l).kind = "Data" THEN Msg(l).size ELSE 0)
  BY <1>1 DEF Position, Msg
<1>4. Msg(l).kind \in {"Syn", "Data", "MultiAck"} /\ Msg(l).size \in Nat /\ Msg(l).pos \in Nat
  BY <1>1 DEF Message
<1> QED
  BY <1>1, <1>2, <1>3, <1>4, InboundAssumption DEF NoPlainAcks, Deciphered

LEMMA DecodeKeepsInStep ==
    ASSUME OneListener, NoPlainAcks, Inv, InStepInv, NEW l \in Listener,
           DecodePlain(l) \/ DecodeBegin(l) \/ DecodeEnd(l)
    PROVE  InStepInv'
<1>0. TypeOK
  BY DEF Inv
<1>1. UNCHANGED <<reliable, out, reads, decipher, lid>> /\ lpc[l] # "read"
  BY DEF DecodePlain, DecodeBegin, DecodeEnd, Goto, local
<1>2. Msg(l)' = Msg(l) /\ \A m \in Listener : m = l
  BY <1>1 DEF Msg, OneListener
<1>3. PeerInStep' /\ \A n : Position(n)' = Position(n)
  BY <1>1, PeerInStepKept DEF InStepInv
<1>4. decipher \in Object
  BY <1>0, InboundAssumption DEF TypeOK, Object
<1>5. ASSUME reliable
      PROVE  /\ refused' = {} /\ ListenerInStep(l)'
             /\ \A o \in Object : o > decipher => taken'[o] = 0
  <2>1. /\ refused = {} /\ ListenerInStep(l)
        /\ \A o \in Object : o > decipher => taken[o] = 0
    BY <1>5, Zenon DEF InStepInv
  <2>2. CASE DecodePlain(l)
    <3>1. /\ UNCHANGED <<taken, lkey, lpos, refused>> /\ lpc[l] = "decode" /\ lpc'[l] = "accept"
          /\ ~Deciphered(Msg(l))
      BY <1>0, <2>2, Zenon DEF DecodePlain, Goto, local, TypeOK
    <3> QED
      BY <1>1, <1>2, <1>3, <2>1, <3>1, InPlace DEF ListenerInStep
  <2>3. CASE DecodeBegin(l)
    <3>1. /\ UNCHANGED <<taken, refused>> /\ lpc[l] = "decode" /\ lpc'[l] = "xor"
          /\ lkey'[l] = decipher /\ lpos'[l] = taken[decipher]
      BY <1>0, <2>3 DEF DecodeBegin, Goto, TypeOK
    <3> QED
      BY <1>1, <1>2, <1>3, <2>1, <3>1 DEF ListenerInStep
  <2>4. CASE DecodeEnd(l)
    <3>1. lpc[l] = "xor" /\ lkey[l] = decipher /\ lpos[l] = Position(lid[l] - 1) /\ Deciphered(Msg(l))
      BY <2>1, <2>4, ZenonT(30) DEF DecodeEnd, Goto, ListenerInStep, Inv, ListenerOK
    <3>2. Parses(l)
      BY <1>1, <3>1, InPlace, ZenonT(30) DEF Parses
    <3>3. Position(lid[l]) = lpos[l] + Msg(l).size
      BY <1>1, <3>1, InPlace, Zenon
    <3>4. /\ refused' = refused /\ lpc'[l] = "accept"
          /\ taken' = [taken EXCEPT ![decipher] = Position(lid[l])]
      BY <1>0, <2>4, <3>1, <3>2, <3>3 DEF DecodeEnd, Goto, TypeOK
    <3>5. taken'[decipher] = Position(lid[l])
      BY <1>0, <1>4, <3>4 DEF TypeOK
    <3>6. \A o \in Object : o > decipher => o # decipher
      BY <1>4 DEF Object
    <3>7. \A o \in Object : o > decipher => taken'[o] = 0
      BY <1>0, <1>4, <2>1, <3>4, <3>6 DEF TypeOK
    <3> QED
      BY <1>1, <1>2, <1>3, <2>1, <3>4, <3>5, <3>7, ZenonT(30) DEF ListenerInStep
  <2> QED
    BY <2>2, <2>3, <2>4
<1> QED
  BY <1>1, <1>2, <1>3, <1>5 DEF InStepInv

LEMMA FinishKeepsInStep ==
    ASSUME OneListener, NoPlainAcks, Inv, Room, InStepInv, NEW l \in Listener,
           Accept(l) \/ EmitData(l) \/ Reset(l)
    PROVE  InStepInv'
<1>0. TypeOK
  BY DEF Inv
<1>1. UNCHANGED <<reliable, out, reads, taken, lid, lkey, lpos, refused>> /\ lpc[l] # "read"
  BY Zenon DEF Accept, EmitData, Reset, Goto, local
<1>2. Msg(l)' = Msg(l) /\ \A m \in Listener : m = l
  BY <1>1, Zenon DEF Msg, OneListener
<1>3. PeerInStep' /\ \A n : Position(n)' = Position(n)
  BY <1>1, PeerInStepKept DEF InStepInv
<1>4. ASSUME reliable
      PROVE  ListenerInStep(l)' /\ \A o \in Object : o > decipher' => taken[o] = 0
  <2>1. /\ ListenerInStep(l)
        /\ \A o \in Object : o > decipher => taken[o] = 0
    BY <1>4, Zenon DEF InStepInv
  <2>2. CASE Accept(l)
    <3>1. /\ decipher' = decipher /\ lpc[l] = "accept" /\ lpc'[l] \in {"read", "reset", "emit"}
          /\ lpc'[l] = "reset" <=> Msg(l).kind = "Syn"
      BY <1>0, <2>2, Switch, Zenon DEF TypeOK
    <3> QED
      BY <1>1, <1>2, <1>3, <2>1, <3>1 DEF ListenerInStep
  <2>3. CASE Reset(l)
    <3>1. decipher' = decipher + 1 /\ lpc'[l] = "read" /\ Msg(l).kind = "Syn"
      BY <1>0, <2>3 DEF Reset, Goto, Inv, TypeOK, ListenerOK
    <3>2. decipher \in Nat /\ decipher' \in Object
      <4>1. decipher \in Nat /\ Len(reads) \in Nat /\ Len(reads) <= MaxReads
        BY <1>0 DEF TypeOK
      <4>2. decipher < Len(reads)
        BY <2>3 DEF Reset, Goto, Room
      <4> QED
        BY <3>1, <4>1, <4>2, InboundAssumption DEF Object
    <3>3. taken[decipher'] = 0 /\ \A o \in Object : o > decipher' => taken[o] = 0
      BY <2>1, <3>1, <3>2, SMTT(30) DEF Object
    <3>4. Position(Len(reads)) = 0
      BY <1>1, <2>1, <3>1, InPlace, Zenon DEF ListenerInStep
    <3>5. ListenerInStep(l)'
      <4>1. Position(Len(reads))' = 0 /\ taken'[decipher'] = 0
        BY <1>1, <1>3, <3>3, <3>4, Zenon
      <4> QED
        BY <3>1, <4>1 DEF ListenerInStep
    <3> QED
      BY <3>3, <3>5, Zenon
  <2>4. CASE EmitData(l)
    <3>1. decipher' = decipher /\ lpc[l] = "emit" /\ lpc'[l] = "read" /\ Msg(l).kind = "Data"
      BY <1>0, <2>4, Zenon DEF EmitData, Goto, Inv, TypeOK, ListenerOK
    <3> QED
      BY <1>1, <1>2, <1>3, <2>1, <3>1, ZenonT(30) DEF ListenerInStep
  <2> QED
    BY <2>2, <2>3, <2>4
<1> QED
  BY <1>1, <1>2, <1>3, <1>4 DEF InStepInv

LEMMA NextKeepsInStep ==
    ASSUME OneListener, NoPlainAcks
    PROVE  Inv /\ Room /\ InStepInv /\ [Next]_vars => InStepInv'
<1> SUFFICES ASSUME Inv, Room, InStepInv, [Next]_vars
             PROVE  InStepInv'
  OBVIOUS
<1>1. CASE PeerSyn \/ PeerData \/ PeerMultiAck
  <2>1. PICK m : Following(m) /\ PeerSends(m)
    BY <1>1, PeerPacket DEF Inv
  <2> QED
    BY <2>1, PeerKeepsInStep
<1>2. CASE \E l \in Listener : Read(l) \/ Handle(l)
  BY <1>2, ReadKeepsInStep, DecodeKeepsInStep, FinishKeepsInStep, Zenon DEF Handle
<1>3. CASE UNCHANGED vars
  BY <1>3, Zenon DEF vars, local, InStepInv, PeerInStep, Position, ListenerInStep, Msg
<1> QED
  BY <1>1, <1>2, <1>3 DEF Next, Stopped

-----------------------------------------------------------------------------
(***************************************************************************)
(* Counting the streams.                                                   *)
(***************************************************************************)
INSTANCE FiniteSetTheorems

\* The steps of a listener.
LEMMA BusyStep ==
    ASSUME TypeOK, NEW l \in Listener, Read(l) \/ Handle(l)
    PROVE  /\ lpc[l] = "read" => /\ Busy' = Busy \cup {l} /\ l \notin Busy
                                 /\ decipher' = decipher /\ Len(reads') = Len(reads) + 1
           /\ lpc[l] # "read" => l \in Busy /\ reads' = reads /\
                 \/ decipher' = decipher /\ Busy' \in {Busy, Busy \ {l}}
                 \/ decipher' = decipher + 1 /\ Busy' = Busy \ {l}
<1>1. CASE Read(l)
  <2>1. /\ lpc[l] = "read" /\ lpc' = [lpc EXCEPT ![l] = "decode"] /\ decipher' = decipher
        /\ \E id \in DOMAIN out : reads' = Append(reads, id)
    BY <1>1, Zenon DEF Read, Goto
  <2>2. Busy' = Busy \cup {l} /\ l \notin Busy
    BY <2>1 DEF Busy, TypeOK
  <2>3. Len(reads') = Len(reads) + 1
    BY <2>1 DEF TypeOK
  <2> QED
    BY <2>1, <2>2, <2>3
<1>2. CASE Handle(l)
  <2>1. /\ lpc[l] # "read" /\ reads' = reads
        /\ decipher' = decipher \/ (decipher' = decipher + 1 /\ lpc' = [lpc EXCEPT ![l] = "read"])
    BY <1>2, Zenon DEF Handle, DecodePlain, DecodeBegin, DecodeEnd, Accept, EmitData, Reset, Goto
  <2>2. \E to : lpc' = [lpc EXCEPT ![l] = to]
    BY <1>2, Zenon DEF Handle, DecodePlain, DecodeBegin, DecodeEnd, Accept, EmitData, Reset, Goto
  <2>3. l \in Busy /\ Busy' \in {Busy, Busy \ {l}}
    BY <2>1, <2>2 DEF Busy, TypeOK
  <2>4. lpc' = [lpc EXCEPT ![l] = "read"] => Busy' = Busy \ {l}
    BY DEF Busy, TypeOK
  <2> QED
    BY <2>1, <2>3, <2>4
<1> QED
  BY <1>1, <1>2

LEMMA NextKeepsCount == TypeOK /\ StreamCount /\ [Next]_vars => StreamCount'
<1> SUFFICES ASSUME TypeOK, StreamCount, [Next]_vars
             PROVE  StreamCount'
  OBVIOUS
<1>1. /\ decipher \in Nat /\ Len(reads) \in Nat /\ IsFiniteSet(Busy) /\ Cardinality(Busy) \in Nat
      /\ decipher + Cardinality(Busy) <= Len(reads)
  BY FS_CardinalityType DEF TypeOK, StreamCount
<1>2. ASSUME NEW l \in Listener, Read(l) \/ Handle(l), lpc[l] = "read"
      PROVE  StreamCount'
  <2>1. IsFiniteSet(Busy') /\ Cardinality(Busy') = Cardinality(Busy) + 1
    BY <1>1, <1>2, BusyStep, FS_AddElement, SMTT(30)
  <2> QED
    BY <1>1, <1>2, <2>1, BusyStep, SMTT(30) DEF StreamCount
<1>3. ASSUME NEW l \in Listener, Read(l) \/ Handle(l), lpc[l] # "read"
      PROVE  StreamCount'
  <2>1. IsFiniteSet(Busy \ {l}) /\ Cardinality(Busy \ {l}) = Cardinality(Busy) - 1
    <3>1. l \in Busy
      BY <1>3, BusyStep
    <3> QED
      BY <1>1, <3>1, FS_RemoveElement, Zenon
  <2>2. reads' = reads
    BY <1>3, BusyStep
  <2>3. CASE decipher' = decipher /\ Busy' = Busy
    BY <1>1, <2>2, <2>3 DEF StreamCount
  <2>4. CASE decipher' \in {decipher, decipher + 1} /\ Busy' = Busy \ {l}
    BY <1>1, <2>1, <2>2, <2>4 DEF StreamCount
  <2> QED
    BY <1>3, <2>3, <2>4, BusyStep
<1>4. CASE PeerSyn \/ PeerData \/ PeerMultiAck \/ UNCHANGED vars
  <2>1. UNCHANGED <<lpc, reads, decipher>>
    BY <1>4, Zenon DEF PeerSyn, PeerData, PeerMultiAck, PeerSends, vars
  <2> QED
    BY <2>1 DEF StreamCount, Busy
<1> QED
  BY <1>2, <1>3, <1>4 DEF Next, Stopped

LEMMA CountGivesRoom == TypeOK /\ StreamCount => Room
<1> SUFFICES ASSUME TypeOK, StreamCount, NEW l \in Listener, lpc[l] = "reset"
             PROVE  decipher < Len(reads)
  BY DEF Room
<1>1. l \in Busy /\ IsFiniteSet(Busy)
  BY DEF Busy, StreamCount
<1>2. Cardinality(Busy) \in Nat /\ Cardinality(Busy) # 0
  BY <1>1, FS_CardinalityType, FS_EmptySet
<1> QED
  BY <1>2 DEF TypeOK, StreamCount

LEMMA Invariance == Spec => [](Inv /\ Room)
<1>1. Init => Inv /\ StreamCount
  <2> SUFFICES ASSUME Init
               PROVE  Inv /\ StreamCount
    OBVIOUS
  <2>1. Busy = {} /\ decipher = 0 /\ Len(reads) = 0
    BY DEF Init, Busy
  <2> QED
    BY <2>1, InitInv, FS_EmptySet DEF StreamCount
<1>2. Inv /\ StreamCount => Room
  BY CountGivesRoom, SMTT(30) DEF Inv
<1>3. Inv /\ StreamCount /\ [Next]_vars => Inv' /\ StreamCount'
  BY <1>2, NextKeepsInv, NextKeepsCount DEF Inv
<1> QED
  BY <1>1, <1>2, <1>3, PTL DEF Spec

-----------------------------------------------------------------------------
\* However many listeners there are, every variable keeps its type and Reset
\* makes at most one stream for each datagram read.
THEOREM TypeCorrect == Spec => []TypeOK
  BY Invariance, PTL DEF Inv

\* However many listeners there are and whatever the network does, a Data packet
\* whose acknowledgement was started is one whose request Decode parsed, and it is
\* with the application or with the listener that emits it next.
THEOREM AckedHandedOver == Spec => []AckedIsHandedOver
  BY Invariance, PTL DEF Inv

\* With one listener, whatever is lost, repeated or reordered on the way, the
\* requests of one session reach the application in the order they were sent and
\* none of them twice: only one place in the RC4 stream lets each of them parse.
THEOREM DeliveredInOrder ==
    ASSUME OneListener
    PROVE  Spec => []InOrderOnce
<1>1. Init => PeerInv /\ StreamInv
  <2> SUFFICES ASSUME Init
               PROVE  PeerInv /\ StreamInv
    OBVIOUS
  <2>1. DOMAIN out = {} /\ DOMAIN delivered = {} /\ \A l \in Listener : lpc[l] = "read"
    BY DEF Init
  <2> QED
    BY <2>1 DEF PeerInv, StreamInv
<1>2. Inv /\ PeerInv /\ StreamInv => InOrderOnce
  <2> SUFFICES ASSUME Inv, PeerInv, StreamInv, NEW j \in DOMAIN delivered, NEW k \in DOMAIN delivered,
                      j < k, delivered[j].key = delivered[k].key,
                      out[delivered[j].id].session = out[delivered[k].id].session
               PROVE  delivered[j].id < delivered[k].id
    BY DEF InOrderOnce
  <2> DEFINE a == delivered[j].id
             b == delivered[k].id
  <2>1. a \in DOMAIN out /\ b \in DOMAIN out /\ out[a] \in Message /\ out[b] \in Message
    BY Ends, Zenon
  <2>2. a \in Nat /\ b \in Nat
    BY <2>1, SMTT(30) DEF Inv, TypeOK
  <2>3. out[a].size > 0 /\ out[a].pos + out[a].size <= out[b].pos
    BY Zenon DEF StreamInv, End
  <2>4. ~(b <= a)
    BY <2>1, <2>3 DEF PeerInv, Message
  <2> QED
    BY <2>2, <2>4, SMTT(30)
<1> QED
  BY <1>1, <1>2, Invariance, NextKeepsOrder, PTL DEF Spec

\* With one listener and a network that loses, repeats and reorders nothing,
\* Decode finds the request of every Data packet, over any number of packets and
\* reconnections, if the payloads of aggregate acknowledgements are not run
\* through the stream: in v1, or when the peer sends none.
THEOREM NeverRefused ==
    ASSUME OneListener, NoPlainAcks
    PROVE  Spec => []NothingRefused
<1>1. Init => InStepInv
  <2> SUFFICES ASSUME Init
               PROVE  InStepInv
    OBVIOUS
  <2>1. PeerInStep /\ Len(reads) = 0 /\ Len(out) = 0
    BY DEF Init, PeerInStep
  <2>2. \A o \in Object : taken[o] = 0
    BY DEF Init
  <2>3. taken[decipher] = 0
    <3>1. decipher = 0 /\ 0 \in Object
      BY InboundAssumption DEF Init, Object
    <3> QED
      BY <2>2, <3>1, Zenon
  <2>4. \A l \in Listener : lpc[l] = "read"
    BY Zenon DEF Init
  <2> QED
    BY <2>1, <2>2, <2>3, <2>4 DEF Init, InStepInv, ListenerInStep, Position
<1>2. InStepInv => NothingRefused
  BY DEF InStepInv, NothingRefused
<1> QED
  BY <1>1, <1>2, Invariance, NextKeepsInStep, PTL DEF Spec
=============================================================================
