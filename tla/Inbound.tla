------------------------------- MODULE Inbound -------------------------------
(***************************************************************************)
(* Data packets from one peer to its client object: handleSocketMessage    *)
(* decodes them; Decode runs the payload through the RC4 stream of the     *)
(* client and parses the result as an RMC request; only then is the packet *)
(* acknowledged and handed to the application.  Sequence numbers are not   *)
(* looked at: what keeps the packets in order is the stream alone.         *)
(*                                                                         *)
(* A payload is represented by its length and its place in the keystream   *)
(* of the peer.  Decrypted at another place it is noise, and noise does    *)
(* not pass the test of the RMC length field.                              *)
(***************************************************************************)
EXTENDS Naturals, Sequences

CONSTANTS
    Listener,       \* the goroutines reading the socket
    Networks,       \* TRUE: everything is delivered once, in order; FALSE: anything goes
    PrudpVersion,   \* 0 or 1
    PeerKinds,      \* the kinds of packets the peer sends
    Sizes,          \* payload lengths
    MaxMessages,    \* bound on the packets of the peer
    MaxReads        \* bound on the datagrams read

ASSUME InboundAssumption ==
    /\ Networks \subseteq BOOLEAN /\ PrudpVersion \in {0, 1}
    /\ PeerKinds \subseteq {"Syn", "Data", "MultiAck"}
    /\ Sizes \subseteq Nat /\ MaxMessages \in Nat /\ MaxReads \in Nat

\* A packet of the peer.  "MultiAck" is a Data packet with FlagMultiAck.
Message == [kind : {"Syn", "Data", "MultiAck"}, size : Nat, pos : Nat, session : Nat]
Id == 1 .. MaxMessages
Object == 0 .. MaxReads

VARIABLES
    reliable,   \* whether the network is reliable
    out,        \* the packets the peer has sent, in order
    reads,      \* the numbers of the packets read from the socket, in order
    taken,      \* decipher object -> bytes taken from its keystream
    decipher,   \* client.decipher: the object in use
    lpc,        \* listener -> where it is in handleSocketMessage
    lid,        \* listener -> the packet it handles
    lkey,       \* listener -> the decipher XORKeyStream works on
    lpos,       \* listener -> the position XORKeyStream has read
    delivered,  \* the requests handed to the application, in order
    acked,      \* packets AcknowledgePacket was called for
    refused     \* Data packets whose request did not parse

local == <<lid, lkey, lpos>>
vars == <<reliable, out, reads, taken, decipher, lpc, local, delivered, acked, refused>>

\* In particular, a datagram makes at most one new stream.
TypeOK ==
    /\ reliable \in Networks
    /\ out \in Seq(Message) /\ Len(out) <= MaxMessages
    /\ reads \in Seq(Id) /\ Len(reads) <= MaxReads
    /\ taken \in [Object -> Nat] /\ decipher \in 0 .. Len(reads)
    /\ lpc \in [Listener -> {"read", "decode", "xor", "accept", "reset", "emit"}]
    /\ lid \in [Listener -> 0 .. MaxMessages]
    /\ lkey \in [Listener -> Object] /\ lpos \in [Listener -> Nat]
    /\ delivered \in Seq([id : Id, key : Object])
    /\ acked \subseteq Id /\ refused \subseteq Id

Init ==
    /\ reliable \in Networks
    /\ out = <<>> /\ reads = <<>>
    /\ taken = [o \in Object |-> 0] /\ decipher = 0
    /\ lpc = [l \in Listener |-> "read"]
    /\ lid = [l \in Listener |-> 0]
    /\ lkey = [l \in Listener |-> 0] /\ lpos = [l \in Listener |-> 0]
    /\ delivered = <<>> /\ acked = {} /\ refused = {}

-----------------------------------------------------------------------------
(***************************************************************************)
(* The peer.  A Syn starts its keystream again, with the key the server    *)
(* falls back to; Data takes the next bytes of it.                         *)
(***************************************************************************)
LastSent == out[Len(out)]
Session == IF out = <<>> THEN 0 ELSE LastSent.session
PeerPos == IF out = <<>> THEN 0
           ELSE LastSent.pos + (IF LastSent.kind = "Data" THEN LastSent.size ELSE 0)

PeerSends(m) ==
    /\ m.kind \in PeerKinds /\ Len(out) < MaxMessages
    /\ out' = Append(out, m)
    /\ UNCHANGED <<reliable, reads, taken, decipher, lpc, local, delivered, acked, refused>>

PeerSyn == PeerSends([kind |-> "Syn", size |-> 0, pos |-> 0, session |-> Session + 1])
PeerData ==
    \E n \in Sizes : PeerSends([kind |-> "Data", size |-> n, pos |-> PeerPos, session |-> Session])
PeerMultiAck ==
    \E n \in Sizes : PeerSends([kind |-> "MultiAck", size |-> n, pos |-> PeerPos, session |-> Session])

-----------------------------------------------------------------------------
Goto(l, from, to) == lpc[l] = from /\ lpc' = [lpc EXCEPT ![l] = to]
Msg(l) == out[lid[l]]

\* ReadFromUDP: the next packet, or any packet any number of times.
Read(l) ==
    /\ Goto(l, "read", "decode")
    /\ Len(reads) < MaxReads
    /\ \E id \in DOMAIN out :
          /\ reliable => id = Len(reads) + 1
          /\ reads' = Append(reads, id)
          /\ lid' = [lid EXCEPT ![l] = id]
    /\ UNCHANGED <<reliable, out, taken, decipher, lkey, lpos, delivered, acked, refused>>

\* A slip: the payload of every Data packet is run through the stream.
DecipheredAlways(m) == m.kind # "Syn" /\ m.size > 0

\* In v1 the payload of an aggregate acknowledgement is not encrypted.
Deciphered(m) ==
    /\ m.kind = "Data" \/ (m.kind = "MultiAck" /\ PrudpVersion = 0)
    /\ m.size > 0

\* Decode up to the point where it touches the stream.
DecodePlain(l) ==
    /\ lpc[l] = "decode" /\ ~Deciphered(Msg(l))
    /\ Goto(l, "decode", "accept")
    /\ UNCHANGED <<reliable, out, reads, taken, decipher, local, delivered, acked, refused>>

\* A slip: each payload is decrypted from the start of the keystream.
DecodeBeginAnew(l) ==
    /\ lpc[l] = "decode" /\ Deciphered(Msg(l))
    /\ Goto(l, "decode", "xor")
    /\ lkey' = [lkey EXCEPT ![l] = decipher] /\ lpos' = [lpos EXCEPT ![l] = 0]
    /\ UNCHANGED <<reliable, out, reads, taken, decipher, lid, delivered, acked, refused>>

\* packet.Sender().Decipher().XORKeyStream begins: it reads its position ...
DecodeBegin(l) ==
    /\ lpc[l] = "decode" /\ Deciphered(Msg(l))
    /\ Goto(l, "decode", "xor")
    /\ lkey' = [lkey EXCEPT ![l] = decipher]
    /\ lpos' = [lpos EXCEPT ![l] = taken[decipher]]
    /\ UNCHANGED <<reliable, out, reads, taken, decipher, lid, delivered, acked, refused>>

\* NewRMCRequest parses what was decrypted at the right place.
Parses(l) == Msg(l).kind = "Data" /\ lpos[l] = Msg(l).pos

\* A slip: the error of NewRMCRequest is dropped.
DecodeEndAnyway(l) ==
    /\ Goto(l, "xor", "accept")
    /\ taken' = [taken EXCEPT ![lkey[l]] = lpos[l] + Msg(l).size]
    /\ refused' = refused \cup {id \in {lid[l]} : ~Parses(l)}
    /\ UNCHANGED <<reliable, out, reads, decipher, local, delivered, acked>>

\* ... and writes it back, whatever came out; Decode fails if it does not parse.
DecodeEnd(l) ==
    /\ Goto(l, "xor", IF Parses(l) THEN "accept" ELSE "read")
    /\ taken' = [taken EXCEPT ![lkey[l]] = lpos[l] + Msg(l).size]
    /\ refused' = refused \cup {id \in {lid[l]} : ~Parses(l)}
    /\ UNCHANGED <<reliable, out, reads, decipher, local, delivered, acked>>

\* A slip: the switch has no case for Data.
AcceptNoData(l) ==
    LET m == Msg(l)
    IN  /\ Goto(l, "accept", IF m.kind = "Syn" THEN "reset" ELSE "read")
        /\ acked' = acked \cup {id \in {lid[l]} : m.kind # "MultiAck"}
        /\ UNCHANGED <<reliable, out, reads, taken, decipher, local, delivered, refused>>

\* After Decode: an acknowledgement is dropped; otherwise go AcknowledgePacket,
\* and into the switch.
Accept(l) ==
    LET m == Msg(l)
    IN  /\ Goto(l, "accept", CASE m.kind = "MultiAck" -> "read"
                               [] m.kind = "Syn" -> "reset"
                               [] m.kind = "Data" -> "emit")
        /\ acked' = acked \cup {id \in {lid[l]} : m.kind # "MultiAck"}
        /\ UNCHANGED <<reliable, out, reads, taken, decipher, local, delivered, refused>>

\* case DataPacket: Emit gives the application what Decode made of the payload,
\* which is the peer's request if it was decrypted at the right place.
EmitData(l) ==
    /\ Goto(l, "emit", "read")
    /\ delivered' = IF Msg(l).size > 0 /\ Parses(l)
                    THEN Append(delivered, [id |-> lid[l], key |-> lkey[l]])
                    ELSE delivered
    /\ UNCHANGED <<reliable, out, reads, taken, decipher, local, acked, refused>>

\* A slip: Reset is called once more for a Syn, as if the client were new.
ResetTwice(l) ==
    /\ Goto(l, "reset", "read")
    /\ decipher' = decipher + 2
    /\ UNCHANGED <<reliable, out, reads, taken, local, delivered, acked, refused>>

\* case SynPacket: client.Reset() makes a new decipher from the default key.
Reset(l) ==
    /\ Goto(l, "reset", "read")
    /\ decipher' = decipher + 1
    /\ UNCHANGED <<reliable, out, reads, taken, local, delivered, acked, refused>>

Handle(l) == DecodePlain(l) \/ DecodeBegin(l) \/ DecodeEnd(l) \/ Accept(l) \/ EmitData(l) \/ Reset(l)

\* The bounds are reached and the server waits for input.
Stopped ==
    /\ \A l \in Listener : lpc[l] = "read"
    /\ Len(reads) = MaxReads \/ Len(out) = MaxMessages
    /\ UNCHANGED vars

Next ==
    \/ PeerSyn \/ PeerData \/ PeerMultiAck
    \/ \E l \in Listener : Read(l) \/ Handle(l)
    \/ Stopped

Spec == Init /\ [][Next]_vars

\* Listeners run on, and a reliable network hands them what was sent.
FairSpec == Spec /\ \A l \in Listener : WF_vars(Handle(l)) /\ WF_vars(Read(l))

-----------------------------------------------------------------------------
\* With one stream, the requests of one session of the peer reach the
\* application in the order they were sent and none of them twice, whatever the
\* network repeats or reorders (handleSocketMessage has no other check for it).
InOrderOnce ==
    \A j, k \in DOMAIN delivered :
        /\ j < k
        /\ delivered[j].key = delivered[k].key
        /\ out[delivered[j].id].session = out[delivered[k].id].session
        => delivered[j].id < delivered[k].id

\* A Data packet whose acknowledgement has been started is one whose request
\* parsed, and the application has it or the listener that decoded it is about to
\* emit it: no step of this or another listener comes in between.
AckedIsHandedOver ==
    \A id \in acked : out[id].kind = "Data" /\ out[id].size > 0 =>
        \/ \E k \in DOMAIN delivered : delivered[k].id = id
        \/ \E l \in Listener : lid[l] = id /\ lpc[l] = "emit" /\ Parses(l)

\* What the peer may take for received, because it is acknowledged, reaches the
\* application in the end, whatever the network loses, repeats or reorders.
AckedIsDelivered ==
    \A id \in Id : (id \in acked /\ out[id].kind = "Data" /\ out[id].size > 0)
        ~> (\E k \in DOMAIN delivered : delivered[k].id = id)

\* Decode finds the RMC request of every Data packet that a reliable network
\* brings, over reconnections and with acknowledgements in between.
NothingRefused == reliable => refused = {}

\* Over a reliable network every Data packet is delivered in the end.
AllDelivered ==
    \A id \in Id : (reliable /\ id \in DOMAIN out /\ out[id].kind = "Data" /\ out[id].size > 0)
        ~> (\E k \in DOMAIN delivered : delivered[k].id = id)
=============================================================================
