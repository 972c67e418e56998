------------------------------- MODULE Server -------------------------------
(***************************************************************************)
(* The PRUDP server of server.go: the goroutines that read the socket, the *)
(* table of clients they share without a lock, the acknowledgement and     *)
(* event-handler goroutines they start, and the two connection signatures  *)
(* kept in every client object.                                            *)
(*                                                                         *)
(* A goroutine is split into one action per access to state that another   *)
(* goroutine can touch; the statements between two such accesses belong to *)
(* the action that follows them.  Sequence numbers and RC4 streams are the *)
(* subject of SendPath and Inbound and are left out here.                  *)
(*                                                                         *)
(* A definition called "a slip" is a plausible mistake in the code; none   *)
(* is part of the specification, and each must break a named property.     *)
(***************************************************************************)
EXTENDS Naturals, Sequences

CONSTANTS
    Addr,           \* UDP addresses datagrams come from
    Listener,       \* the runtime.NumCPU() goroutines started by Listen
    Datagram,       \* the datagrams peers may send
    MaxDatagrams,   \* bound on the datagrams read in a behaviour
    PrudpVersion,   \* 0 or 1
    FriendsServer,  \* TRUE iff the access key is the Friends server's
    Handled,        \* the events the application has a handler for
    AppCalls,       \* what application handlers may do: see RunHandler
    NoSig           \* a connection signature that Reset has cleared

Types == {"Syn", "Connect", "Data", "Disconnect", "Ping"}

\* A datagram shorter than the header minimum is refused before the sender is
\* looked at ("Short"); any other decoding error comes after ("Bad").
Kinds == Types \cup {"Short", "Bad"}
Flags == {"Ack", "MultiAck", "NeedsAck"}
Events == Types \cup {"Packet"}

\* A connection signature, identified by the peer it belongs to and a number
\* that tells apart the signatures of one peer.
Sig == [owner : Addr, n : Nat]

\* What handleSocketMessage can tell apart about a datagram.
DatagramType == [addr : Addr, kind : Kinds, flags : SUBSET Flags, size : Nat, sig : Sig]

ASSUME ServerAssumption ==
    /\ MaxDatagrams \in Nat
    /\ PrudpVersion \in {0, 1}
    /\ FriendsServer \in BOOLEAN
    /\ Datagram \subseteq DatagramType
    /\ \A d \in Datagram : d.sig.owner = d.addr
    /\ Handled \subseteq Events
    /\ AppCalls \subseteq {"Kick", "Acknowledge"}
    /\ NoSig \notin Sig

(***************************************************************************)
(* Datagrams are numbered in the order they are read.  A client object is  *)
(* named by the number of the datagram it was created for; NoClient is the *)
(* nil pointer that indexing the map with a missing key yields.            *)
(***************************************************************************)
Receipt == 1 .. MaxDatagrams
NoClient == 0

VARIABLES
    received,   \* the datagrams read from the socket so far, in order
    clients,    \* server.clients: address -> client object or NoClient
    serverSig,  \* client object -> client.serverConnectionSignature
    clientSig,  \* client object -> client.clientConnectionSignature
    lpc,        \* listener -> where it is in handleSocketMessage
    lmsg,       \* listener -> number of the datagram it handles
    lclient,    \* listener -> its local variable client
    acks,       \* running AcknowledgePacket calls
    handlers,   \* event-handler goroutines that have not run yet
    sent,       \* every packet written to the socket so far
    crashed     \* a goroutine panicked, or the runtime stopped the process

heap == <<serverSig, clientSig>>
local == <<lpc, lmsg, lclient>>
vars == <<received, clients, heap, local, acks, handlers, sent, crashed>>

HasFlag(d, flag) == flag \in d.flags
MaySig == Sig \cup {NoSig}
Msg(l) == received[lmsg[l]]

\* A slip: clients behind one host share an entry.
DiscriminatorByHost(d) == CHOOSE a \in Addr : TRUE

\* discriminator := addr.String(), the key of server.clients.
Discriminator(d) == d.addr

\* client.Address(): NewClient keeps the source address of its datagram.
Address(c) == received[c].addr

ListenerPC == {"read", "lookup", "create", "fetch", "decode", "resetServerSig",
               "resetClientSig", "connect", "kick", "ping", "emit"}

AckType == [re : Receipt, by : {"server", "app"}, client : Receipt,
            pc : {"start", "sign", "send"}, sign : MaySig, conn : MaySig]
HandlerType == [event : Events, re : Receipt, client : Receipt]
PacketType == [to : Addr, type : Types, flag : Flags, re : Receipt,
               by : {"server", "app"}, sign : MaySig, conn : MaySig]

TypeOK ==
    /\ received \in Seq(Datagram)
    /\ Len(received) <= MaxDatagrams
    /\ clients \in [Addr -> 0 .. Len(received)]
    /\ serverSig \in [Receipt -> MaySig]
    /\ clientSig \in [Receipt -> MaySig]
    /\ lpc \in [Listener -> ListenerPC]
    /\ lmsg \in [Listener -> 0 .. Len(received)]
    /\ lclient \in [Listener -> 0 .. Len(received)]
    /\ acks \subseteq AckType
    /\ handlers \subseteq HandlerType
    /\ sent \subseteq PacketType
    /\ crashed \in BOOLEAN

Init ==
    /\ received = <<>>
    /\ clients = [a \in Addr |-> NoClient]
    /\ serverSig = [c \in Receipt |-> NoSig]
    /\ clientSig = [c \in Receipt |-> NoSig]
    /\ lpc = [l \in Listener |-> "read"]
    /\ lmsg = [l \in Listener |-> 0]
    /\ lclient = [l \in Listener |-> NoClient]
    /\ acks = {}
    /\ handlers = {}
    /\ sent = {}
    /\ crashed = FALSE

-----------------------------------------------------------------------------
(***************************************************************************)
(* handleSocketMessage: from the socket to a decoded packet.               *)
(***************************************************************************)
Goto(l, from, to) ==
    /\ ~crashed
    /\ lpc[l] = from
    /\ lpc' = [lpc EXCEPT ![l] = to]

\* ReadFromUDP.  UDP may lose, repeat and reorder datagrams: any datagram of
\* any peer may be the next one.
Read(l) ==
    /\ Goto(l, "read", "lookup")
    /\ Len(received) < MaxDatagrams
    /\ \E d \in Datagram : received' = Append(received, d)
    /\ lmsg' = [lmsg EXCEPT ![l] = Len(received) + 1]
    /\ UNCHANGED <<clients, heap, lclient, acks, handlers, sent, crashed>>

\* A slip: a client object per datagram.
LookupNothing(l) ==
    /\ Goto(l, "lookup", "create")
    /\ UNCHANGED <<received, clients, heap, lmsg, lclient, acks, handlers, sent, crashed>>

\* if _, ok := server.clients[discriminator]; !ok
Lookup(l) ==
    /\ \/ Goto(l, "lookup", "create") /\ clients[Discriminator(Msg(l))] = NoClient
       \/ Goto(l, "lookup", "fetch") /\ clients[Discriminator(Msg(l))] # NoClient
    /\ UNCHANGED <<received, clients, heap, lmsg, lclient, acks, handlers, sent, crashed>>

\* A slip: the new client is not stored.
CreateUnstored(l) ==
    /\ Goto(l, "create", "fetch")
    /\ UNCHANGED <<received, clients, heap, lmsg, lclient, acks, handlers, sent, crashed>>

\* NewClient ends with Reset, before anyone else knows of the object.
NewClient(c) ==
    /\ serverSig' = [serverSig EXCEPT ![c] = NoSig]
    /\ clientSig' = [clientSig EXCEPT ![c] = NoSig]

\* The new client is stored in the map.
Create(l) ==
    /\ Goto(l, "create", "fetch")
    /\ NewClient(lmsg[l])
    /\ clients' = [clients EXCEPT ![Discriminator(Msg(l))] = lmsg[l]]
    /\ UNCHANGED <<received, lmsg, lclient, acks, handlers, sent, crashed>>

\* client := server.clients[discriminator]
Fetch(l) ==
    /\ Goto(l, "fetch", "decode")
    /\ lclient' = [lclient EXCEPT ![l] = clients[Discriminator(Msg(l))]]
    /\ UNCHANGED <<received, clients, heap, lmsg, acks, handlers, sent, crashed>>

IsAck(d) == HasFlag(d, "Ack") \/ HasFlag(d, "MultiAck")

\* Slips: the flag is not tested; the exception for Connect is left out.
AcknowledgedUnasked(d) == d.kind # "Connect" \/ d.size = 0
AcknowledgedAlways(d) == HasFlag(d, "NeedsAck")

\* The datagrams AcknowledgePacket is called for: a Connect that carries a
\* payload is left to the application, whose answer has a payload too.
Acknowledged(d) == HasFlag(d, "NeedsAck") /\ (d.kind # "Connect" \/ d.size = 0)

NewAck(id, by, c) ==
    [re |-> id, by |-> by, client |-> c, pc |-> "start", sign |-> NoSig, conn |-> NoSig]

\* The switch on packet.Type().
CaseOf(type) ==
    CASE type = "Syn" -> "resetServerSig"
      [] type = "Connect" -> "connect"
      [] type = "Data" -> "emit"
      [] type = "Disconnect" -> "kick"
      [] type = "Ping" -> "ping"

\* The packet is refused by Decode, or is an acknowledgement: back to reading.
Refuse(l) ==
    /\ Goto(l, "decode", "read")
    /\ \/ Msg(l).kind = "Short"
       \/ lclient[l] # NoClient /\ (Msg(l).kind = "Bad" \/ IsAck(Msg(l)))
    /\ UNCHANGED <<received, clients, heap, lmsg, lclient, acks, handlers, sent, crashed>>

\* Decode calls packet.Sender().Server() on a nil client.
NilSender(l) ==
    /\ ~crashed
    /\ lpc[l] = "decode"
    /\ lclient[l] = NoClient
    /\ Msg(l).kind # "Short"
    /\ crashed' = TRUE
    /\ UNCHANGED <<received, clients, heap, local, acks, handlers, sent>>

\* A slip: a packet without a sender is handled like any other.
AcceptWithoutSender(l) ==
    /\ lpc[l] = "decode"
    /\ Msg(l).kind \in Types /\ ~IsAck(Msg(l))
    /\ Goto(l, "decode", CaseOf(Msg(l).kind))
    /\ acks' = acks \cup {NewAck(id, "server", lclient[l]) :
                            id \in {i \in {lmsg[l]} : Acknowledged(Msg(l))}}
    /\ UNCHANGED <<received, clients, heap, lmsg, lclient, handlers, sent, crashed>>

\* The packet is decoded; go server.AcknowledgePacket(packet, nil) if it is due.
Accept(l) ==
    /\ lpc[l] = "decode"
    /\ Msg(l).kind \in Types /\ lclient[l] # NoClient /\ ~IsAck(Msg(l))
    /\ Goto(l, "decode", CaseOf(Msg(l).kind))
    /\ acks' = acks \cup {NewAck(id, "server", lclient[l]) :
                            id \in {i \in {lmsg[l]} : Acknowledged(Msg(l))}}
    /\ UNCHANGED <<received, clients, heap, lmsg, lclient, handlers, sent, crashed>>

-----------------------------------------------------------------------------
(***************************************************************************)
(* handleSocketMessage: one case per packet type, then the events.         *)
(***************************************************************************)

\* case SynPacket: client.Reset() clears the signatures one after the other.
ResetServerSignature(l) ==
    /\ Goto(l, "resetServerSig", "resetClientSig")
    /\ serverSig' = [serverSig EXCEPT ![lclient[l]] = NoSig]
    /\ UNCHANGED <<received, clients, clientSig, lmsg, lclient, acks, handlers, sent, crashed>>

ResetClientSignature(l) ==
    /\ Goto(l, "resetClientSig", "emit")
    /\ clientSig' = [clientSig EXCEPT ![lclient[l]] = NoSig]
    /\ UNCHANGED <<received, clients, serverSig, lmsg, lclient, acks, handlers, sent, crashed>>

\* case ConnectPacket: SetClientConnectionSignature(packet.ConnectionSignature())
Connect(l) ==
    /\ Goto(l, "connect", "emit")
    /\ clientSig' = [clientSig EXCEPT ![lclient[l]] = Msg(l).sig]
    /\ UNCHANGED <<received, clients, serverSig, lmsg, lclient, acks, handlers, sent, crashed>>

\* A slip: the map is made anew.
KickEverybody(c) == clients' = [a \in Addr |-> NoClient]

\* Kick goes by the address of the client, whichever object is stored there.
KickClient(c) == clients' = [clients EXCEPT ![Address(c)] = NoClient]

\* case DisconnectPacket
Disconnect(l) ==
    /\ Goto(l, "kick", "emit")
    /\ KickClient(lclient[l])
    /\ UNCHANGED <<received, heap, lmsg, lclient, acks, handlers, sent, crashed>>

\* Whether the signature of a packet of this type is made from the client's
\* connection signature: always in v1; in v0 other than for Data and, except
\* on the Friends server, Disconnect.
SignsWithConnection(type) ==
    \/ PrudpVersion = 1
    \/ type \notin {"Data", "Disconnect"}
    \/ FriendsServer /\ type = "Disconnect"

Signature(type, c) == IF SignsWithConnection(type) THEN clientSig[c] ELSE NoSig

\* case PingPacket: SendPing.
Ping(l) ==
    /\ Goto(l, "ping", "emit")
    /\ sent' = sent \cup {[to |-> Address(lclient[l]), type |-> "Ping", flag |-> "NeedsAck",
                           re |-> lmsg[l], by |-> "server",
                           sign |-> Signature("Ping", lclient[l]), conn |-> NoSig]}
    /\ UNCHANGED <<received, clients, heap, lmsg, lclient, acks, handlers, crashed>>

\* Emit of the event of the packet's type and of "Packet": each handler is
\* started in a goroutine of its own.
Emit(l) ==
    /\ Goto(l, "emit", "read")
    /\ handlers' = handlers \cup
           {[event |-> e, re |-> lmsg[l], client |-> lclient[l]] :
                e \in {Msg(l).kind, "Packet"} \cap Handled}
    /\ UNCHANGED <<received, clients, heap, lmsg, lclient, acks, sent, crashed>>

-----------------------------------------------------------------------------
(***************************************************************************)
(* AcknowledgePacket, running concurrently with the listener.              *)
(***************************************************************************)

\* A slip: the signature that is kept is not put into the answer.
AckStartUntold(t) ==
    LET fresh == [owner |-> Address(t.client), n |-> t.re]
        isSyn == PrudpVersion = 1 /\ received[t.re].kind = "Syn"
    IN  /\ ~crashed /\ t.pc = "start"
        /\ acks' = (acks \ {t}) \cup {[t EXCEPT !.pc = "sign"]}
        /\ serverSig' = IF isSyn THEN [serverSig EXCEPT ![t.client] = fresh] ELSE serverSig
        /\ UNCHANGED <<received, clients, clientSig, local, handlers, sent, crashed>>

\* In v1 the answer to a Syn carries 16 fresh random bytes, stored first.
AckStart(t) ==
    LET fresh == [owner |-> Address(t.client), n |-> t.re]
        isSyn == PrudpVersion = 1 /\ received[t.re].kind = "Syn"
    IN  /\ ~crashed /\ t.pc = "start"
        /\ acks' = (acks \ {t}) \cup
                {[t EXCEPT !.pc = "sign", !.conn = IF isSyn THEN fresh ELSE NoSig]}
        /\ serverSig' = IF isSyn THEN [serverSig EXCEPT ![t.client] = fresh] ELSE serverSig
        /\ UNCHANGED <<received, clients, clientSig, local, handlers, sent, crashed>>

\* ackPacket.Bytes(): calculateSignature.
AckSign(t) ==
    /\ ~crashed /\ t.pc = "sign"
    /\ acks' = (acks \ {t}) \cup
            {[t EXCEPT !.pc = "send", !.sign = Signature(received[t.re].kind, t.client)]}
    /\ UNCHANGED <<received, clients, heap, local, handlers, sent, crashed>>

\* ackPacket.Bytes(): encodeOptions; in v0 it reads the client once more.
ConnectionOption(t) ==
    CASE PrudpVersion = 0 /\ received[t.re].kind = "Syn" -> serverSig[t.client]
      [] PrudpVersion = 0 /\ received[t.re].kind = "Connect" -> clientSig[t.client]
      [] OTHER -> t.conn

AckFlag(type) == IF PrudpVersion = 1 /\ type = "Data" THEN "MultiAck" ELSE "Ack"

AckPacket(t) ==
    [to |-> Address(t.client), type |-> received[t.re].kind, flag |-> AckFlag(received[t.re].kind),
     re |-> t.re, by |-> t.by, sign |-> t.sign, conn |-> ConnectionOption(t)]

\* A slip: a client that is no longer stored is not answered.
AckSendIfStored(t) ==
    /\ ~crashed /\ t.pc = "send"
    /\ acks' = acks \ {t}
    /\ sent' = sent \cup {p \in {AckPacket(t)} : clients[Address(t.client)] = t.client}
    /\ UNCHANGED <<received, clients, heap, local, handlers, crashed>>

\* SendRaw(sender.Address(), data)
AckSend(t) ==
    /\ ~crashed /\ t.pc = "send"
    /\ acks' = acks \ {t}
    /\ sent' = sent \cup {AckPacket(t)}
    /\ UNCHANGED <<received, clients, heap, local, handlers, crashed>>

AckStep(t) == AckStart(t) \/ AckSign(t) \/ AckSend(t)

-----------------------------------------------------------------------------
(***************************************************************************)
(* Event handlers are application code.  One may return, kick the sender,  *)
(* or, for a Connect with a payload, acknowledge it with a payload.        *)
(***************************************************************************)
HandlerReturns(h) ==
    /\ ~crashed
    /\ handlers' = handlers \ {h}
    /\ UNCHANGED <<received, clients, heap, local, acks, sent, crashed>>

HandlerKicks(h) ==
    /\ ~crashed /\ "Kick" \in AppCalls
    /\ handlers' = handlers \ {h}
    /\ KickClient(h.client)
    /\ UNCHANGED <<received, heap, local, acks, sent, crashed>>

HandlerAcknowledges(h) ==
    /\ ~crashed /\ "Acknowledge" \in AppCalls
    /\ h.event = "Connect" /\ received[h.re].size > 0
    /\ handlers' = handlers \ {h}
    /\ acks' = acks \cup {NewAck(h.re, "app", h.client)}
    /\ UNCHANGED <<received, clients, heap, local, sent, crashed>>

RunHandler(h) == HandlerReturns(h) \/ HandlerKicks(h) \/ HandlerAcknowledges(h)

(***************************************************************************)
(* Two goroutines inside the unlocked map at the same time, one of them to *)
(* write: the Go runtime may notice and stop the process.                  *)
(***************************************************************************)
Accessing(l) == lpc[l] \in {"lookup", "create", "fetch", "kick"}
Writing(l) ==
    \/ lpc[l] = "create"
    \/ lpc[l] = "kick" /\ clients[Address(lclient[l])] # NoClient
HandlerWrites(h) == "Kick" \in AppCalls /\ clients[Address(h.client)] # NoClient

ConcurrentMapFault ==
    /\ ~crashed
    /\ \/ \E l, m \in Listener : l # m /\ Writing(l) /\ Accessing(m)
       \/ \E h \in handlers, l \in Listener : HandlerWrites(h) /\ Accessing(l)
       \/ \E h, g \in handlers : h # g /\ HandlerWrites(h)
    /\ crashed' = TRUE
    /\ UNCHANGED <<received, clients, heap, local, acks, handlers, sent>>

\* Nothing is left to do: the input is used up or the process is gone.
Stopped ==
    /\ \/ crashed
       \/ /\ Len(received) = MaxDatagrams /\ acks = {} /\ handlers = {}
          /\ \A l \in Listener : lpc[l] = "read"
    /\ UNCHANGED vars

-----------------------------------------------------------------------------
Handle(l) ==
    \/ Lookup(l) \/ Create(l) \/ Fetch(l) \/ Refuse(l) \/ NilSender(l) \/ Accept(l)
    \/ ResetServerSignature(l) \/ ResetClientSignature(l) \/ Connect(l)
    \/ Disconnect(l) \/ Ping(l) \/ Emit(l)

Next ==
    \/ \E l \in Listener : Read(l) \/ Handle(l)
    \/ \E t \in acks : AckStep(t)
    \/ \E h \in handlers : RunHandler(h)
    \/ ConcurrentMapFault
    \/ Stopped

Spec == Init /\ [][Next]_vars

\* The Go scheduler runs every runnable goroutine eventually; nothing obliges
\* a peer to send a datagram.
Fairness ==
    /\ \A l \in Listener : WF_vars(Handle(l))
    /\ \A id \in Receipt : WF_vars(\E t \in acks : t.re = id /\ AckStep(t))
    /\ \A id \in Receipt : WF_vars(\E h \in handlers : h.re = id /\ RunHandler(h))

FairSpec == Spec /\ Fairness

-----------------------------------------------------------------------------
(***************************************************************************)
(* Properties.                                                             *)
(***************************************************************************)
IsAckPacket(p) == p.flag \in {"Ack", "MultiAck"}

\* AcknowledgePacket and SendPing answer the peer that asked, whatever has
\* become of the client table since: every packet written goes to the source
\* of the datagram it answers, no acknowledgement is ever answered, and the
\* server by itself acknowledges only what asked for it.
AnswersGoToTheSource ==
    \A p \in sent :
        /\ p.to = received[p.re].addr
        /\ received[p.re].kind \in Types /\ ~IsAck(received[p.re])
        /\ IsAckPacket(p) /\ p.by = "server" => HasFlag(received[p.re], "NeedsAck")

\* A datagram is acknowledged at most once, although handleSocketMessage and
\* the Connect handler of the application both call AcknowledgePacket.
AcknowledgedOnce ==
    \A p, q \in sent : IsAckPacket(p) /\ IsAckPacket(q) /\ p.re = q.re => p = q

OwnedBy(sig, a) == sig # NoSig => sig.owner = a

\* Connection signatures never cross from one peer to another, neither in a
\* client object (orphaned ones included) nor in a packet: the goroutines keep
\* client pointers across steps in which the table changes.
SessionIsolation ==
    /\ \A c \in DOMAIN received : OwnedBy(clientSig[c], Address(c)) /\ OwnedBy(serverSig[c], Address(c))
    /\ \A p \in sent : OwnedBy(p.sign, p.to) /\ OwnedBy(p.conn, p.to)

\* In v1 the server expects from a peer only a signature that it has told this
\* peer, or is about to tell it, in the answer to a Syn.
SignatureIsTold ==
    \A c \in DOMAIN received : serverSig[c] # NoSig =>
        \/ \E p \in sent : p.to = Address(c) /\ p.conn = serverSig[c]
        \/ \E t \in acks : t.client = c /\ t.conn = serverSig[c]

\* Sender returns the packet's sender: handleSocketMessage never decodes a
\* packet with a nil client.
PacketHasSender ==
    \A l \in Listener : lpc[l] = "decode" => lclient[l] # NoClient

\* While a packet is handled its sender is the client the table holds for the
\* address, until Kick takes it out.
SenderIsStored ==
    \A l \in Listener :
        lpc[l] \in {"decode", "resetServerSig", "resetClientSig", "connect", "kick", "ping"} =>
            lclient[l] # NoClient /\ clients[Msg(l).addr] = lclient[l]

\* A stored client is never replaced by another one; it has to be kicked first.
TableStable ==
    [][\A a \in Addr : clients[a] # NoClient /\ clients'[a] # NoClient => clients'[a] = clients[a]]_clients

\* Every packet that asks for an acknowledgement gets one from the server, even
\* if its sender is kicked meanwhile; only a Connect with a payload is left to
\* the application.
OwedAckIsSent ==
    \A id \in Receipt :
        (/\ id \in DOMAIN received /\ received[id].kind \in Types
         /\ "NeedsAck" \in received[id].flags /\ ~IsAck(received[id])
         /\ received[id].kind = "Connect" => received[id].size = 0)
            ~> (crashed \/ \E p \in sent : IsAckPacket(p) /\ p.re = id)

Busy(c) ==
    \/ \E l \in Listener : lpc[l] # "read" /\ lclient[l] = c
    \/ \E t \in acks : t.client = c

\* When the last Syn of a client has been answered and nothing is going on for
\* the client, the signature it was sent is the one kept for it.
AnsweredSignatureIsKept ==
    \A p \in sent :
        LET c == clients[p.to]
        IN  /\ p.type = "Syn" /\ IsAckPacket(p) /\ c # NoClient
            /\ \A i \in DOMAIN received : received[i].kind = "Syn" /\ received[i].addr = p.to => i <= p.re
            /\ c <= p.re /\ ~Busy(c)
            => serverSig[c] = p.conn
=============================================================================
