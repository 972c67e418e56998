---------------------------- MODULE PacketFormat ----------------------------
(***************************************************************************)
(* One remote call on the wire.  A peer sends a packet; the server decodes *)
(* it, section by section, and either acknowledges it or, when it carries  *)
(* an RMC request, answers it with an RMC response; the peer decodes what  *)
(* comes back.  Both ends use Bytes and Decode of packet_v0.go or          *)
(* packet_v1.go.  A datagram may be cut short on its way to the server.    *)
(*                                                                         *)
(* Data is bytes.  The RC4 streams of the two ends are in step here, which *)
(* is the subject of SendPath and Inbound, so that encrypting is some      *)
(* fixed involution; a hash is some fixed function of its input.           *)
(***************************************************************************)
EXTENDS LittleEndian

CONSTANTS
    Settings,       \* what the setters of Server were called with before Listen
    PeerPackets,    \* the packets the peer may send
    Calls,          \* the remote calls it may make
    Methods, Results, ErrorCodes    \* what the application answers

U(width, n) == WriteUInt(256, width, n)

\* s[o : o+n]
Slice(s, o, n) == SubSeq(s, o + 1, o + n)

SynPacket == 0
ConnectPacket == 1
DataPacket == 2
DisconnectPacket == 3
PingPacket == 4
validTypes == {SynPacket, ConnectPacket, DataPacket, DisconnectPacket, PingPacket}

FlagAck == 1
FlagReliable == 2
FlagNeedsAck == 4
FlagHasSize == 8
FlagMultiAck == 512
AllFlags == {FlagAck, FlagReliable, FlagNeedsAck, FlagHasSize, FlagMultiAck}

SettingType == [prudp : {0, 1}, flags : {0, 1}, checksum : {0, 1}, nex : 0 .. 4, friends : BOOLEAN]

Octet == {n \in Nat : n < 256}
Word == {n \in Nat : n < 65536}
UInt32 == {n \in Nat : n \div 65536 < 65536}

WirePacket ==
    [type : 0 .. 7, flags : SUBSET AllFlags, source : Octet, destination : Octet, session : Octet,
     sequence : Word, fragment : Octet, connection : Seq(Octet), payload : Seq(Octet),
     substream : Octet, functions : Nat, initial : Word, substreams : Octet]

CallType == [protocol : Octet, call : UInt32, method : UInt32, parameters : Seq(Octet)]

\* The payload fits its length field, a connection signature has its size, and
\* the bit that marks the method in a response is not set.
ASSUME PacketAssumption ==
    /\ Settings \subseteq SettingType
    /\ PeerPackets \subseteq WirePacket
    /\ \A p \in PeerPackets : Len(p.payload) < 65536 /\ Len(p.connection) = 16
    /\ Calls \subseteq CallType
    /\ Methods \subseteq {n \in Nat : n < 32768} /\ ErrorCodes \subseteq UInt32
    /\ Results \subseteq Seq(Octet) /\ \A r \in Results : Len(r) < 65536 - 14

VARIABLES
    settings,   \* the settings both ends agree on
    hop,        \* which packet is under way: "request", "ack" or "reply"
    ppc,        \* where it is: being made, on the wire, in a section of Decode
    asked,      \* the packet the peer sent
    packet,     \* the packet under way, as handed to Bytes
    wire,       \* what Bytes returned
    datagram,   \* what arrived
    offset,     \* stream.ByteOffset() of the decoder
    got,        \* the fields decoded so far
    response,   \* the RMCResponse the application fills in
    lastSet     \* what its last SetSuccess or SetError asked for

packetVars == <<settings, hop, ppc, asked, packet, wire, datagram, offset, got, response, lastSet>>

-----------------------------------------------------------------------------
(***************************************************************************)
(* Packets and what Bytes makes of them.                                   *)
(***************************************************************************)
NewPacket ==
    [type |-> 0, flags |-> {}, source |-> 0, destination |-> 0, session |-> 0, sequence |-> 0,
     fragment |-> 0, connection |-> <<>>, payload |-> <<>>, substream |-> 0, functions |-> 0,
     initial |-> 0, substreams |-> 0]

\* RC4, at the same position of the keystream at both ends.
XORKeyStream(bytes) == [k \in DOMAIN bytes |-> 255 - bytes[k]]

Total(bytes) ==
    LET total[k \in 0 .. Len(bytes)] == IF k = 0 THEN 0 ELSE total[k - 1] + bytes[k]
    IN  total[Len(bytes)]

\* The sum of every n-th byte, from the k-th on.
Column(bytes, n, k) == Total([i \in 1 .. (Len(bytes) - k) \div n + 1 |-> bytes[n * (i - 1) + k]])

\* HMAC-MD5 under the key made from the access key.
Hmac(bytes, size) == [k \in 1 .. size |-> (Len(bytes) + k * Column(bytes, size, k)) % 256]

\* What the two ends of a session share.
SignatureBase == 300
SessionKey == <<9>>

\* The peer encodes the request, the server what comes back.
Sending == IF hop = "request" THEN "peer" ELSE "server"
Receiving == IF hop = "request" THEN "server" ELSE "peer"

\* Of the client object that an end keeps for the other one, after the handshake:
\* the signature this end has issued, and the one it was given.
ServerConnectionSignature(end, size) == [k \in 1 .. size |-> IF end = "server" THEN 200 ELSE 17]
ClientConnectionSignature(end, size) == [k \in 1 .. size |-> IF end = "server" THEN 17 ELSE 200]

IsEncrypted(p) ==
    /\ p.type = DataPacket
    /\ (IF settings.prudp = 0 THEN FlagAck ELSE FlagMultiAck) \notin p.flags

\* The first lines of Bytes: what it changes in the packet itself.
Sealed(p) ==
    [p EXCEPT !.payload = IF IsEncrypted(p) THEN XORKeyStream(p.payload)
                          ELSE IF settings.prudp = 0 /\ p.type = DataPacket THEN <<>>
                          ELSE p.payload,
              !.flags = IF p.type = DataPacket THEN p.flags \cup {FlagHasSize} ELSE p.flags]

\* Type and flags share a uint16; the type has 3 bits in flags version 0.
TypeSpan == IF settings.flags = 0 THEN 8 ELSE 16
Bit(f, flags) == IF f \in flags THEN f ELSE 0
FlagBits(flags) ==
    Bit(FlagAck, flags) + Bit(FlagReliable, flags) + Bit(FlagNeedsAck, flags)
        + Bit(FlagHasSize, flags) + Bit(FlagMultiAck, flags)
TypeFlags(p) == p.type + TypeSpan * FlagBits(p.flags)
TypeOf(typeFlags) == typeFlags % TypeSpan
FlagsOf(typeFlags) == {f \in AllFlags : ((typeFlags \div TypeSpan) \div f) % 2 = 1}

If(cond, bytes) == IF cond THEN bytes ELSE <<>>

SignatureV0(p) ==
    CASE settings.friends /\ p.type = DataPacket /\ p.payload = <<>> -> <<120, 86, 52, 18>>
      [] settings.friends /\ p.type = DataPacket /\ p.payload # <<>> -> Hmac(p.payload, 4)
      [] ~settings.friends /\ p.type \in {DataPacket, DisconnectPacket} ->
            Hmac(SessionKey \o U(2, p.sequence) \o <<p.fragment>> \o p.payload, 4)
      [] OTHER -> ClientConnectionSignature(Sending, 4)

EncodeOptionsV0(p) ==
    If(p.type = SynPacket, ServerConnectionSignature(Sending, 4))
        \o If(p.type = ConnectPacket, ClientConnectionSignature(Sending, 4))
        \o If(p.type = DataPacket, <<p.fragment>>)
        \o If(FlagHasSize \in p.flags, U(2, Len(p.payload)))

\* The little-endian words are added modulo 2^32, column by column here, then
\* the bytes of the sum and the bytes after the last whole word are added.
CalculateChecksum(data) ==
    LET steps == Len(data) \div 4
        words == SubSeq(data, 1, 4 * steps)
        word[k \in 0 .. 4] == IF k = 0 THEN 0 ELSE (word[k - 1] \div 256) + Column(words, 4, k)
    IN  (SignatureBase + Total(SubSeq(data, 4 * steps + 1, Len(data)))
            + Total([k \in 1 .. 4 |-> word[k] % 256])) % 256

ChecksumSize == IF settings.checksum = 0 THEN 4 ELSE 1

BytesV0(p) ==
    LET body == <<p.source, p.destination>> \o U(2, TypeFlags(p)) \o <<p.session>>
                    \o SignatureV0(p) \o U(2, p.sequence) \o EncodeOptionsV0(p) \o p.payload
    IN  body \o U(ChecksumSize, CalculateChecksum(body))

EncodeOptionsV1(p) ==
    CASE p.type \in {SynPacket, ConnectPacket} ->
            <<0, 4>> \o U(4, p.functions) \o <<1, 16>> \o p.connection
                \o If(p.type = ConnectPacket, <<3, 2>> \o U(2, p.initial)) \o <<4, 1, p.substreams>>
      [] p.type = DataPacket -> <<2, 1, p.fragment>>
      [] OTHER -> <<>>

\* calculateSignature: header[4:], the session key, the base, the connection
\* signature, options and payload.
SignatureV1(header, connectionSignature, options, payload) ==
    Hmac(SubSeq(header, 5, Len(header)) \o SessionKey \o U(4, SignatureBase)
            \o connectionSignature \o options \o payload, 16)

\* A slip: the signature this end has issued.
BytesSignatureOwn(header, options, payload) ==
    SignatureV1(header, ServerConnectionSignature(Sending, 16), options, payload)

\* Bytes signs with the connection signature that its end was given.
BytesSignature(header, options, payload) ==
    SignatureV1(header, ClientConnectionSignature(Sending, 16), options, payload)

BytesV1(p) ==
    LET options == EncodeOptionsV1(p)
        header == <<1, Len(options)>> \o U(2, Len(p.payload)) \o <<p.source, p.destination>>
                    \o U(2, TypeFlags(p)) \o <<p.session, p.substream>> \o U(2, p.sequence)
    IN  <<234, 208>> \o header \o BytesSignature(header, options, p.payload) \o options \o p.payload

-----------------------------------------------------------------------------
(***************************************************************************)
(* RMC messages.                                                           *)
(***************************************************************************)

\* The peer's side of a call, as NewRMCRequest expects it.
RequestBytes(call) ==
    LET body == <<(call.protocol + 128) % 256>> \o U(4, call.call) \o U(4, call.method) \o call.parameters
    IN  U(4, Len(body)) \o body

IsRequest(data) == Len(data) >= 13 /\ Slice(data, 0, 4) = U(4, Len(data) - 4)

NewRMCRequest(data) ==
    [protocol |-> (data[5] + 128) % 256, call |-> ReadUInt(256, Slice(data, 5, 4)),
     method |-> ReadUInt(256, Slice(data, 9, 4)), parameters |-> Slice(data, 13, Len(data) - 13)]

NewRMCResponse(protocolID, callID) ==
    [protocol |-> protocolID, success |-> 0, call |-> callID, method |-> 0, data |-> <<>>, error |-> 0]

\* methodID | 0x8000, for methods below 2^16.
ResponseBytes(r) ==
    LET body == <<r.protocol, r.success>>
            \o IF r.success = 1
               THEN U(4, r.call) \o U(4, (r.method % 32768) + 32768) \o r.data
               ELSE U(4, r.error) \o U(4, r.call)
    IN  U(4, Len(body)) \o body

\* What the peer reads out of a response.
ReadResponse(data) ==
    IF data[6] = 1
    THEN [protocol |-> data[5], call |-> ReadUInt(256, Slice(data, 6, 4)), success |-> TRUE,
          what |-> ReadUInt(256, Slice(data, 10, 4)) - 32768, data |-> Slice(data, 14, Len(data) - 14)]
    ELSE [protocol |-> data[5], call |-> ReadUInt(256, Slice(data, 10, 4)), success |-> FALSE,
          what |-> ReadUInt(256, Slice(data, 6, 4)), data |-> <<>>]
-----------------------------------------------------------------------------
(***************************************************************************)
(* A packet is made, encoded and received.                                 *)
(***************************************************************************)
PacketInit ==
    /\ settings \in Settings
    /\ hop = "request" /\ ppc = "make"
    /\ asked = <<>> /\ packet = NewPacket /\ wire = <<>> /\ datagram = <<>>
    /\ offset = 0 /\ got = <<>> /\ response = <<>> /\ lastSet = <<>>

PeerSends ==
    /\ hop = "request" /\ ppc = "make"
    /\ packet' \in PeerPackets
    /\ asked' = packet'
    /\ ppc' = "encode"
    /\ UNCHANGED <<settings, hop, wire, datagram, offset, got, response, lastSet>>

Encode ==
    /\ ppc = "encode"
    /\ wire' = IF settings.prudp = 0 THEN BytesV0(Sealed(packet)) ELSE BytesV1(Sealed(packet))
    /\ ppc' = "wire"
    /\ UNCHANGED <<settings, hop, asked, packet, datagram, offset, got, response, lastSet>>

\* A packet and the locals of its Decode, before the first section.
Undecoded ==
    [type |-> 0, flags |-> {}, source |-> 0, destination |-> 0, session |-> 0, sequence |-> 0,
     fragment |-> 0, connection |-> <<>>, payload |-> <<>>, substream |-> 0, functions |-> 0,
     initial |-> 0, substreams |-> 0, size |-> 0, optionsLength |-> 0, signature |-> <<>>,
     options |-> <<>>, at |-> 0, request |-> <<>>, verified |-> FALSE]

\* The whole datagram arrives, or the server reads only a part of it.
Arrive ==
    /\ ppc = "wire"
    /\ \E n \in IF hop = "request" THEN 0 .. Len(wire) ELSE {Len(wire)} :
            datagram' = SubSeq(wire, 1, n)
    /\ offset' = 0 /\ got' = Undecoded /\ ppc' = "header"
    /\ UNCHANGED <<settings, hop, asked, packet, wire, response, lastSet>>

-----------------------------------------------------------------------------
(***************************************************************************)
(* Decode, one action per section.                                         *)
(***************************************************************************)
Left == Len(datagram) - offset
At(n) == Slice(datagram, offset, n)
Byte(k) == datagram[k + 1]
UInt16(k) == Byte(k) + 256 * Byte(k + 1)
notDecoder == <<settings, hop, asked, packet, wire, datagram, response, lastSet>>

Decoding(section) == ppc = section /\ UNCHANGED notDecoder
Stop(how) == ppc' = how /\ UNCHANGED <<offset, got>>

\* The setters of the packet for what a section has read.
Filled(fields) == [f \in DOMAIN got |-> IF f \in DOMAIN fields THEN fields[f] ELSE got[f]]
Advance(n, fields, next) == offset' = offset + n /\ got' = Filled(fields) /\ ppc' = next
Pass(next) == ppc' = next /\ UNCHANGED <<offset, got>>

\* A slip: the section is read without looking at what is left.
SectionUnchecked(n, fields, next) == IF Left < n THEN Stop("panic") ELSE Advance(n, fields, next)

\* if len(packet.Data()[stream.ByteOffset():]) < n { return error }
Section(n, fields, next) == IF Left < n THEN Stop("error") ELSE Advance(n, fields, next)

\* The first 11 bytes, of which the length test covers 9.
HeaderV0 ==
    /\ Decoding("header") /\ settings.prudp = 0
    /\ CASE Len(datagram) < 9 -> Stop("error")
         [] Len(datagram) \in 9 .. 10 -> Stop("panic")
         [] OTHER ->
              IF TypeOf(UInt16(2)) \notin validTypes
              THEN Stop("error")
              ELSE Advance(11, [source |-> Byte(0), destination |-> Byte(1), type |-> TypeOf(UInt16(2)),
                                flags |-> FlagsOf(UInt16(2)), session |-> Byte(4),
                                sequence |-> UInt16(9)], "connection")

ConnectionV0 ==
    /\ Decoding("connection") /\ settings.prudp = 0
    /\ IF got.type \in {SynPacket, ConnectPacket}
       THEN Section(4, [connection |-> At(4)], "fragment")
       ELSE Pass("fragment")

FragmentV0 ==
    /\ Decoding("fragment")
    /\ IF got.type = DataPacket THEN Section(1, [fragment |-> Byte(offset)], "size")
                               ELSE Pass("size")

\* Without a size the payload is what is left; the difference is a uint16.
SizeV0 ==
    /\ Decoding("size")
    /\ IF FlagHasSize \in got.flags
       THEN Section(2, [size |-> UInt16(offset)], "payload")
       ELSE Advance(0, [size |-> (Left - ChecksumSize) % 65536], "payload")

\* A slip: whatever is there is taken for the payload.
PayloadUnchecked(next) ==
    /\ Decoding("payload")
    /\ Advance(got.size, [payload |-> SubSeq(datagram, offset + 1, Len(datagram)), request |-> <<>>], next)

\* A Data payload is decrypted and parsed; the packet keeps it encrypted.
Payload(next) ==
    LET payload == At(got.size)
        isCall == /\ got.size > 0 /\ got.type = DataPacket
                  /\ settings.prudp = 1 => FlagMultiAck \notin got.flags
    IN  /\ Decoding("payload")
        /\ IF Left >= got.size /\ isCall /\ ~IsRequest(XORKeyStream(payload))
           THEN Stop("error")
           ELSE Section(got.size,
                        [payload |-> payload,
                         request |-> IF isCall THEN <<NewRMCRequest(XORKeyStream(payload))>> ELSE <<>>],
                        next)

PayloadV0 == settings.prudp = 0 /\ Payload("checksum")

\* A mismatch is printed and otherwise ignored.
ChecksumV0 ==
    /\ Decoding("checksum")
    /\ Section(ChecksumSize,
               [verified |-> At(ChecksumSize) = U(ChecksumSize,
                    CalculateChecksum(Slice(datagram, 0, Len(datagram) - ChecksumSize)))],
               "done")

HeaderV1 ==
    /\ Decoding("header") /\ settings.prudp = 1
    /\ IF \/ Len(datagram) < 30
          \/ Slice(datagram, 0, 2) # <<234, 208>> \/ Byte(2) # 1
          \/ TypeOf(UInt16(8)) \notin validTypes
       THEN Stop("error")
       ELSE Advance(30, [optionsLength |-> Byte(3), size |-> UInt16(4), source |-> Byte(6),
                         destination |-> Byte(7), type |-> TypeOf(UInt16(8)),
                         flags |-> FlagsOf(UInt16(8)), session |-> Byte(10),
                         substream |-> Byte(11), sequence |-> UInt16(12),
                         signature |-> Slice(datagram, 14, 16)], "options")

OptionsV1 ==
    /\ Decoding("options")
    /\ Section(got.optionsLength, [options |-> At(got.optionsLength), at |-> 0], "option")

\* One turn of the loop of decodeOptions.  The announced size counts only for
\* the supported functions, of which the lowest byte is kept, and for the
\* connection signature; an unknown option is not skipped.
OptionV1 ==
    LET o == got.options
        id == o[got.at + 1]
        size == o[got.at + 2]
        width == CASE id \in {0, 1} -> size [] id \in {2, 4} -> 1 [] id = 3 -> 2 [] OTHER -> 0
        value == Slice(o, got.at + 2, width)
        next == got.at + 2 + width
        fields == CASE id = 0 -> [at |-> next, functions |-> value[1]]
                    [] id = 1 -> [at |-> next, connection |-> value]
                    [] id = 2 -> [at |-> next, fragment |-> value[1]]
                    [] id = 3 -> [at |-> next, initial |-> ReadUInt(256, value)]
                    [] id = 4 -> [at |-> next, substreams |-> value[1]]
                    [] OTHER -> [at |-> next]
    IN  /\ Decoding("option")
        /\ CASE got.at = Len(o) -> Pass("payload")
             [] got.at = Len(o) - 1 -> Stop("panic")
             [] OTHER -> IF next > Len(o) \/ (id = 0 /\ size = 0)
                         THEN Stop("panic")
                         ELSE Advance(0, fields, "option")

PayloadV1 == settings.prudp = 1 /\ Payload("verify")

\* Decode expects the signature that its end has issued.  A mismatch is printed
\* and otherwise ignored.
VerifyV1 ==
    /\ Decoding("verify")
    /\ Advance(0, [verified |-> got.signature =
                       SignatureV1(Slice(datagram, 2, 12), ServerConnectionSignature(Receiving, 16),
                                   got.options, got.payload)], "done")

DecodeStep ==
    \/ HeaderV0 \/ ConnectionV0 \/ FragmentV0 \/ SizeV0 \/ PayloadV0 \/ ChecksumV0
    \/ HeaderV1 \/ OptionsV1 \/ OptionV1 \/ PayloadV1 \/ VerifyV1

-----------------------------------------------------------------------------
(***************************************************************************)
(* The server answers.                                                     *)
(***************************************************************************)
Answering ==
    /\ hop = "request" /\ ppc = "done"
    /\ FlagAck \notin got.flags /\ FlagMultiAck \notin got.flags

\* A slip: the number is read after it was cleared.
AckPayloadCleared(p) == If(settings.nex >= 2, <<0, 0>> \o U(2, 0))

\* The payload of an aggregate acknowledgement.
AckPayload(p) == If(settings.nex >= 2, <<0, 0>> \o U(2, p.sequence))

\* What AcknowledgePacket makes of a packet; payload is nil from the server,
\* the application's own for a Connect that had one.
AckOf(p, payload) ==
    LET answer == [NewPacket EXCEPT
            !.source = p.destination, !.destination = p.source, !.type = p.type,
            !.sequence = p.sequence, !.fragment = p.fragment, !.payload = payload]
        aggregate == p.type = DataPacket
        numbered == aggregate /\ settings.nex >= 2
    IN  IF settings.prudp = 0 THEN [answer EXCEPT !.flags = {FlagAck}]
        ELSE [answer EXCEPT
            !.flags = {FlagHasSize, IF aggregate THEN FlagMultiAck ELSE FlagAck},
            !.connection = IF p.type = SynPacket THEN ServerConnectionSignature("server", 16)
                           ELSE [k \in 1 .. 16 |-> 0],
            !.functions = IF p.type \in {SynPacket, ConnectPacket} THEN p.functions ELSE 0,
            !.initial = IF p.type = ConnectPacket THEN 10000 ELSE 0,
            !.sequence = IF numbered THEN 0 ELSE p.sequence,
            !.substream = IF numbered THEN 1 ELSE 0,
            !.payload = IF aggregate THEN AckPayload(p) ELSE payload]

AcknowledgePacket ==
    /\ Answering /\ FlagNeedsAck \in got.flags
    /\ \E payload \in IF got.type = ConnectPacket /\ got.payload # <<>> THEN Results ELSE {<<>>} :
            packet' = AckOf(got, payload)
    /\ hop' = "ack" /\ ppc' = "encode"
    /\ UNCHANGED <<settings, asked, wire, datagram, offset, got, response, lastSet>>

\* A handler of the application starts an answer to the request.
Respond ==
    /\ Answering /\ got.request # <<>>
    /\ response' = NewRMCResponse(got.request[1].protocol, got.request[1].call)
    /\ lastSet' = [success |-> FALSE, what |-> 0, data |-> <<>>]
    /\ ppc' = "respond"
    /\ UNCHANGED <<settings, hop, asked, packet, wire, datagram, offset, got>>

SetSuccess(methodID, data) ==
    /\ ppc = "respond"
    /\ response' = [response EXCEPT !.success = 1, !.method = methodID, !.data = data]
    /\ lastSet' = [success |-> TRUE, what |-> methodID, data |-> data]
    /\ UNCHANGED <<settings, hop, ppc, asked, packet, wire, datagram, offset, got>>

\* A slip: a response that was a success stays one.
SetErrorOnly(errorCode) ==
    /\ ppc = "respond"
    /\ response' = [response EXCEPT !.error = errorCode]
    /\ lastSet' = [success |-> FALSE, what |-> errorCode, data |-> <<>>]
    /\ UNCHANGED <<settings, hop, ppc, asked, packet, wire, datagram, offset, got>>

SetError(errorCode) ==
    /\ ppc = "respond"
    /\ response' = [response EXCEPT !.success = 0, !.error = errorCode]
    /\ lastSet' = [success |-> FALSE, what |-> errorCode, data |-> <<>>]
    /\ UNCHANGED <<settings, hop, ppc, asked, packet, wire, datagram, offset, got>>

\* The handler sends the answer in a Data packet that fits one fragment.
Reply ==
    /\ ppc = "respond"
    /\ packet' = [NewPacket EXCEPT
                      !.type = DataPacket, !.flags = {FlagReliable, FlagNeedsAck}, !.source = 161,
                      !.destination = 175, !.sequence = 1, !.payload = ResponseBytes(response)]
    /\ hop' = "reply" /\ ppc' = "encode"
    /\ UNCHANGED <<settings, asked, wire, datagram, offset, got, response, lastSet>>

PacketStopped == ppc \in {"done", "error", "panic"} /\ UNCHANGED packetVars

PacketNext ==
    \/ PeerSends \/ Encode \/ Arrive \/ DecodeStep
    \/ AcknowledgePacket \/ Respond \/ Reply
    \/ \E methodID \in Methods, data \in Results : SetSuccess(methodID, data)
    \/ \E errorCode \in ErrorCodes : SetError(errorCode)
    \/ PacketStopped

PacketSpec == PacketInit /\ [][PacketNext]_packetVars

-----------------------------------------------------------------------------
(***************************************************************************)
(* Properties.                                                             *)
(***************************************************************************)
SentSignature(p) ==
    CASE settings.prudp = 1 -> p.connection
      [] settings.prudp = 0 /\ p.type = SynPacket -> ServerConnectionSignature(Sending, 4)
      [] settings.prudp = 0 /\ p.type # SynPacket -> ClientConnectionSignature(Sending, 4)

\* A Data payload that is decrypted has to be an RMC message.
Decodable(p) ==
    /\ p.type \in validTypes
    /\ IsEncrypted(p) /\ p.payload # <<>> => IsRequest(p.payload)

\* Decode of what Bytes wrote gives back the packet, for both versions, every
\* packet type and flags version, in both directions: every field that the type
\* puts on the wire, the payload as sent, and a checksum or signature that is
\* found to match.  Only unknown types and Data without an RMC message are refused.
PacketReadsBack ==
    datagram = wire /\ ppc \in {"done", "error", "panic"} =>
        LET p == Sealed(packet)
        IN  /\ ppc = IF Decodable(packet) THEN "done" ELSE "error"
            /\ ppc = "done" =>
                /\ got.verified
                /\ \A f \in {"type", "flags", "source", "destination", "session", "sequence", "payload"} :
                        got[f] = p[f]
                /\ p.type = DataPacket => got.fragment = p.fragment
                /\ p.type \in {SynPacket, ConnectPacket} => got.connection = SentSignature(p)
                /\ settings.prudp = 1 => got.substream = p.substream
                /\ settings.prudp = 1 /\ p.type \in {SynPacket, ConnectPacket} =>
                        got.functions = p.functions % 256 /\ got.substreams = p.substreams
                /\ settings.prudp = 1 /\ p.type = ConnectPacket => got.initial = p.initial

\* However a datagram is cut, Decode reads no byte that is not there, with one
\* exception: the length test of version 0 lets through 9 and 10 bytes, and the
\* header has 11.
DecodeInBounds ==
    ppc = "panic" => settings.prudp = 0 /\ Len(datagram) \in 9 .. 10

\* A packet that states its length, as all of version 1 and Data of version 0
\* do, is decoded whole or refused: no cut datagram passes for a shorter packet.
WholeOrRefused ==
    datagram # wire /\ ppc = "done" =>
        settings.prudp = 0 /\ FlagHasSize \notin Sealed(packet).flags

AckedSequence ==
    IF FlagMultiAck \in got.flags /\ settings.nex >= 2
    THEN ReadUInt(256, Slice(got.payload, 2, 2)) ELSE got.sequence

\* The peer finds in the acknowledgement the number of the packet it sent, in
\* the header or in the payload of an aggregate acknowledgement; the packet is
\* marked as an acknowledgement and does not itself ask for one, so that two
\* ends cannot acknowledge each other for ever.
AckNamesPacket ==
    hop = "ack" /\ ppc = "done" =>
        /\ AckedSequence = asked.sequence /\ got.type = asked.type
        /\ got.source = asked.destination /\ got.destination = asked.source
        /\ got.flags \cap {FlagAck, FlagMultiAck} # {} /\ FlagNeedsAck \notin got.flags

\* A remote call is answered for what it asked: the handler sees the protocol,
\* call, method and parameters that the peer sent, and the peer reads the same
\* protocol and call with what the last SetSuccess or SetError gave, whatever
\* was set before.
CallIsAnswered ==
    \A c \in Calls : ppc # "make" /\ asked.payload = RequestBytes(c) =>
        /\ ppc = "respond" => got.request = <<c>>
        /\ hop = "reply" /\ ppc = "done" =>
               LET r == ReadResponse(XORKeyStream(got.payload))
               IN  /\ r.protocol = c.protocol /\ r.call = c.call
                   /\ [success |-> r.success, what |-> r.what, data |-> r.data] = lastSet
=============================================================================
