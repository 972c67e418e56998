------------------------------ MODULE MCParts -------------------------------
(***************************************************************************)
(* The conversions and the event handlers side by side: a behaviour is a   *)
(* session of one of these parts.  They share no state.                    *)
(***************************************************************************)
EXTENDS PacketFormat, Streams, NexTypes, Kerberos, Events

CONSTANTS x, y

VARIABLE session    \* the part this behaviour is about

partVars == <<session, packetVars, streamVars, stationVars, dateVars, kerberosVars, eventVars>>

MCSettings ==
    [prudp : {0}, flags : {0, 1}, checksum : {0, 1}, nex : {1}, friends : {FALSE}]
        \cup [prudp : {0}, flags : {1}, checksum : {1}, nex : {1}, friends : {TRUE}]
        \cup [prudp : {1}, flags : {0, 1}, checksum : {1}, nex : {1, 2}, friends : {FALSE}]

\* A call of a method whose number needs a second byte, and the shortest request
\* there is, of 13 bytes: a method without parameters.
MCCalls ==
    {[protocol |-> 130, call |-> 77, method |-> 259, parameters |-> <<5>>],
     [protocol |-> 10, call |-> 65536, method |-> 1, parameters |-> <<>>]}

MCPeerFlags == {{FlagNeedsAck, FlagReliable}, {FlagNeedsAck, FlagHasSize}, {FlagAck}, {FlagMultiAck}}

\* Data carries a call, something else or nothing, a Connect may carry a
\* payload; one packet type is unknown.
MCPeerPayloads(type) ==
    CASE type = DataPacket -> {<<>>, <<7, 8>>} \cup {RequestBytes(c) : c \in MCCalls}
      [] type = ConnectPacket -> {<<>>, <<7, 8>>}
      [] OTHER -> {<<>>}

MCPeerPackets ==
    UNION {[type : {type}, flags : MCPeerFlags, source : {175}, destination : {161}, session : {6},
            sequence : {n}, fragment : {3}, connection : {ServerConnectionSignature("peer", 16)},
            payload : MCPeerPayloads(type), substream : {0}, functions : {4}, initial : {n},
            substreams : {1}] : type \in validTypes \cup {5}, n \in {1, 65279}}

MCResults == {<<>>, <<5, 0>>}

Field(type, width, v) == [type |-> type, width |-> width, value |-> v]
Ones(n) == [k \in 1 .. n |-> 1]
Url == Field("string", 0, <<1, 2>>)

\* Every type, empty and not; strings around the limit of their length field;
\* NullData, RVConnectionData and a structure with a parent class.
MCFields ==
    {Field("uint", w, Base^w - 2) : w \in {1, 2, 4, 8}}
        \cup {Field("string", 0, s) : s \in {<<>>, <<1, 0, 2>>, <<3, 0>>, Ones(62), Ones(63), Ones(64)}}
        \cup {Field("list", w, l) : w \in {1, 2, 4, 8}, l \in {<<>>, <<5, 0>>}}
        \cup {Field("buffer", 0, <<1, 0>>), Field("qbuffer", 0, <<0>>)}
        \cup {Field("variant", 0, v) :
                v \in {<<"null">>, <<"sint64", 9>>, <<"sint64", -2>>, <<"double", "bits", 9>>,
                       <<"bool", TRUE>>, <<"string", <<1>>>>, <<"datetime", 3>>, <<"uint64", 4>>}}
        \cup {Field("map", 0, m) :
                m \in {<<>>, <<<<<<1>>, <<"null">>>>, <<<<2>>, <<"string", <<3>>>>>>,
                              <<<<1>>, <<"bool", FALSE>>>>>>}}
        \cup {Field("structure", 0, c) :
                c \in {<<<<>>>>, <<<<Url, Field("uint", 4, 0), Url, Field("uint", 8, 99)>>>>,
                       <<<<Url>>, <<Field("list", 2, <<5>>)>>>>}}
        \cup {Field("structures", 0, <<<<Url>>, <<Url>>>>)}

MCValues == {<<x>>, <<y, x>>}

\* The ends of every unit, and a step from one of them.
MCTimes ==
    [second : {0, 59}, minute : {0, 1, 59}, hour : {0, 1, 23}, day : {1, 2, 31}, month : {1, 12},
     year : {0, 1}]

\* The sessions that are not run start in one state only.
Init ==
    /\ session \in {"packet", "stream", "station", "date", "kerberos", "events"}
    /\ PacketInit /\ StreamInit /\ StationInit /\ DateInit /\ KerberosInit /\ EventInit
    /\ session # "packet" => settings = CHOOSE s \in Settings : TRUE
    /\ session # "events" => version = "v1"
    /\ session # "stream" => nexVersion = CHOOSE v \in NexVersions : TRUE

Next ==
    /\ UNCHANGED session
    /\ \/ session = "packet" /\ PacketNext
             /\ UNCHANGED <<streamVars, stationVars, dateVars, kerberosVars, eventVars>>
       \/ session = "stream" /\ StreamNext
             /\ UNCHANGED <<packetVars, stationVars, dateVars, kerberosVars, eventVars>>
       \/ session = "station" /\ StationNext
             /\ UNCHANGED <<packetVars, streamVars, dateVars, kerberosVars, eventVars>>
       \/ session = "date" /\ Now
             /\ UNCHANGED <<packetVars, streamVars, stationVars, kerberosVars, eventVars>>
       \/ session = "kerberos" /\ KerberosNext
             /\ UNCHANGED <<packetVars, streamVars, stationVars, dateVars, eventVars>>
       \/ session = "events" /\ EventNext
             /\ UNCHANGED <<packetVars, streamVars, stationVars, dateVars, kerberosVars>>

Spec == Init /\ [][Next]_partVars
=============================================================================
