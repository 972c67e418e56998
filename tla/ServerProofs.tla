---------------------------- MODULE ServerProofs ----------------------------
(***************************************************************************)
(* Safety of the server for any number of listeners, peers and datagrams.  *)
(***************************************************************************)
EXTENDS Server, TLAPS

(***************************************************************************)
(* The inductive invariant.  Goroutines keep the number of a datagram and  *)
(* a client pointer across steps in which the table changes under them;    *)
(* what they rely on is that a client object belongs to one address for    *)
(* ever, and is the one of the source of the datagram they work for.       *)
(***************************************************************************)
Numbers == 1 .. Len(received)

\* The client c is that of the source of datagram id.
Serves(c, id) == c \in Numbers /\ id \in Numbers /\ Address(c) = received[id].addr

\* Datagram id was decoded, and is not an acknowledgement.
Decoded(id) == received[id].kind \in Types /\ ~IsAck(received[id])

TableInv ==
    \A a \in Addr : clients[a] # NoClient => clients[a] \in Numbers /\ Address(clients[a]) = a

ListenerOK(l) ==
    /\ lpc[l] # "read" => lmsg[l] \in Numbers
    /\ lpc[l] \notin {"read", "lookup", "create", "fetch"} /\ lclient[l] # NoClient =>
           Serves(lclient[l], lmsg[l])
    /\ lpc[l] \notin {"read", "lookup", "create", "fetch", "decode"} =>
           lclient[l] # NoClient /\ Decoded(lmsg[l])

ListenerInv == \A l \in Listener : ListenerOK(l)

AckInv ==
    \A t \in acks :
        /\ Serves(t.client, t.re) /\ Decoded(t.re)
        /\ t.by = "server" => HasFlag(received[t.re], "NeedsAck")
        /\ OwnedBy(t.sign, received[t.re].addr) /\ OwnedBy(t.conn, received[t.re].addr)

HandlerInv == \A h \in handlers : Serves(h.client, h.re) /\ Decoded(h.re)

HeapInv ==
    \A c \in Receipt :
        IF c \in Numbers
        THEN OwnedBy(serverSig[c], Address(c)) /\ OwnedBy(clientSig[c], Address(c))
        ELSE serverSig[c] = NoSig /\ clientSig[c] = NoSig

SentInv ==
    \A p \in sent :
        /\ p.re \in Numbers /\ p.to = received[p.re].addr /\ Decoded(p.re)
        /\ IsAckPacket(p) /\ p.by = "server" => HasFlag(received[p.re], "NeedsAck")
        /\ OwnedBy(p.sign, p.to) /\ OwnedBy(p.conn, p.to)

Inv == TypeOK /\ TableInv /\ ListenerInv /\ AckInv /\ HandlerInv /\ HeapInv /\ SentInv

\* What is known of the datagrams.
LEMMA Datagrams ==
    ASSUME NEW d \in Datagram
    PROVE  d \in DatagramType /\ d.addr \in Addr /\ d.sig \in Sig /\ d.sig.owner = d.addr
  BY ServerAssumption DEF DatagramType

LEMMA NumbersAreReceipts ==
    ASSUME TypeOK
    PROVE  /\ Numbers \subseteq Receipt /\ Len(received) \in Nat
           /\ \A i \in Numbers : received[i] \in Datagram /\ received[i].addr \in Addr
<1>1. Len(received) \in Nat /\ \A i \in Numbers : received[i] \in Datagram
  BY DEF TypeOK, Numbers
<1> QED
  BY <1>1, Datagrams, ServerAssumption DEF TypeOK, Numbers, Receipt

LEMMA Known ==
    ASSUME Inv
    PROVE  DOMAIN received = Numbers /\ DOMAIN received \subseteq Receipt
<1>1. DOMAIN received = Numbers
  BY DEF Inv, TypeOK, Numbers
<1> QED
  BY <1>1, NumbersAreReceipts DEF Inv

LEMMA InitInv == Init => Inv
<1> SUFFICES ASSUME Init
             PROVE  Inv
  OBVIOUS
<1> USE DEF Init
<1>1. TypeOK
  <2>1. received \in Seq(Datagram) /\ Len(received) = 0 /\ 0 <= MaxDatagrams
    BY ServerAssumption
  <2>2. /\ clients \in [Addr -> 0 .. Len(received)]
        /\ lmsg \in [Listener -> 0 .. Len(received)]
        /\ lclient \in [Listener -> 0 .. Len(received)]
    BY <2>1 DEF NoClient
  <2>3. serverSig \in [Receipt -> MaySig] /\ clientSig \in [Receipt -> MaySig]
    BY DEF MaySig
  <2>4. lpc \in [Listener -> ListenerPC]
    BY DEF ListenerPC
  <2> QED
    BY <2>1, <2>2, <2>3, <2>4, Zenon DEF TypeOK
<1>2. Numbers = {}
  BY DEF Numbers
<1> QED
  BY <1>1, <1>2 DEF Inv, TableInv, ListenerInv, ListenerOK, AckInv, HandlerInv, HeapInv, SentInv

(***************************************************************************)
(* What a step keeps of the invariant because it leaves the state alone.   *)
(***************************************************************************)
LEMMA Frame ==
    ASSUME Inv, received' = received
    PROVE  /\ clients' = clients => TableInv'
           /\ local' = local => ListenerInv'
           /\ acks' = acks => AckInv'
           /\ handlers' = handlers => HandlerInv'
           /\ heap' = heap => HeapInv'
           /\ sent' = sent => SentInv'
<1> USE DEF Inv, Numbers, Serves, Decoded, Address
<1>1. clients' = clients => TableInv'
  BY DEF TableInv
<1>2. local' = local => ListenerInv'
  BY DEF local, ListenerInv, ListenerOK
<1>3. acks' = acks => AckInv'
  BY DEF AckInv
<1>4. handlers' = handlers => HandlerInv'
  BY DEF HandlerInv
<1>5. heap' = heap => HeapInv'
  BY DEF heap, HeapInv
<1>6. sent' = sent => SentInv'
  BY DEF SentInv
<1> QED
  BY <1>1, <1>2, <1>3, <1>4, <1>5, <1>6

LEMMA OneListener ==
    ASSUME Inv, received' = received, NEW l \in Listener,
           lpc' = [lpc EXCEPT ![l] = lpc'[l]],
           lmsg' = [lmsg EXCEPT ![l] = lmsg'[l]],
           lclient' = [lclient EXCEPT ![l] = lclient'[l]],
           ListenerOK(l)'
    PROVE  ListenerInv'
<1> SUFFICES ASSUME NEW m \in Listener, m # l
             PROVE  ListenerOK(m)'
  BY DEF ListenerInv
<1>1. lpc'[m] = lpc[m] /\ lmsg'[m] = lmsg[m] /\ lclient'[m] = lclient[m]
  BY DEF Inv, TypeOK
<1>2. ListenerOK(m)
  BY DEF Inv, ListenerInv
<1> QED
  BY <1>1, <1>2 DEF ListenerOK, Numbers, Serves, Decoded, Address

-----------------------------------------------------------------------------
(***************************************************************************)
(* The listener, one lemma per action.                                     *)
(***************************************************************************)

\* A datagram is added; the ones before it keep their numbers.
LEMMA ReadKeepsInv ==
    ASSUME Inv, NEW l \in Listener, Read(l)
    PROVE  Inv'
<1> DEFINE n == Len(received) + 1
<1>1. PICK d \in Datagram : received' = Append(received, d)
  BY DEF Read
<1>2. /\ Len(received) \in Nat /\ Len(received) < MaxDatagrams /\ MaxDatagrams \in Nat
      /\ received \in Seq(Datagram)
  BY ServerAssumption DEF Read, Inv, TypeOK
<1>3. /\ received' \in Seq(Datagram) /\ Len(received') = n
      /\ \A i \in Numbers : received'[i] = received[i]
      /\ received'[n] = d
  BY <1>1, <1>2 DEF Numbers
<1>4. Numbers' = Numbers \cup {n} /\ n \notin Numbers /\ n \in Receipt
  BY <1>2, <1>3 DEF Numbers, Receipt
<1>5. /\ \A c, id : Serves(c, id) => Serves(c, id)'
      /\ \A id \in Numbers : Decoded(id) => Decoded(id)'
      /\ \A id \in Numbers : Address(id)' = Address(id)
  BY <1>3, <1>4 DEF Serves, Decoded, Address
<1>6. TypeOK'
  <2>1. lpc' \in [Listener -> ListenerPC]
    BY DEF Read, Goto, Inv, TypeOK, ListenerPC
  <2>2. lmsg' \in [Listener -> 0 .. Len(received')]
    BY <1>2, <1>3 DEF Read, Inv, TypeOK
  <2>3. clients' \in [Addr -> 0 .. Len(received')] /\ lclient' \in [Listener -> 0 .. Len(received')]
    BY <1>2, <1>3 DEF Read, Inv, TypeOK
  <2> QED
    BY <1>2, <1>3, <2>1, <2>2, <2>3 DEF Read, heap, Inv, TypeOK, Receipt
<1>7. TableInv'
  BY <1>4, <1>5 DEF Read, Inv, TableInv
<1>8. ListenerInv'
  <2> SUFFICES ASSUME NEW m \in Listener
               PROVE  ListenerOK(m)'
    BY DEF ListenerInv
  <2>1. CASE m = l
    BY <1>4, <2>1 DEF Read, Goto, Inv, TypeOK, ListenerOK
  <2>2. CASE m # l
    <3>1. lpc'[m] = lpc[m] /\ lmsg'[m] = lmsg[m] /\ lclient'[m] = lclient[m]
      BY <2>2 DEF Read, Goto, Inv, TypeOK
    <3>2. ListenerOK(m)
      BY DEF Inv, ListenerInv
    <3> QED
      BY <1>4, <1>5, <3>1, <3>2 DEF ListenerOK
  <2> QED
    BY <2>1, <2>2
<1>9. AckInv'
  BY <1>3, <1>4, <1>5, Zenon DEF Read, Inv, AckInv, Serves
<1>10. HandlerInv'
  BY <1>4, <1>5, Zenon DEF Read, Inv, HandlerInv, Serves
<1>11. HeapInv'
  BY <1>4, <1>5 DEF Read, heap, Inv, HeapInv, OwnedBy
<1>12. SentInv'
  BY <1>3, <1>4, <1>5, Zenon DEF Read, Inv, SentInv
<1> QED
  BY <1>6, <1>7, <1>8, <1>9, <1>10, <1>11, <1>12 DEF Inv

LEMMA LookupKeepsInv ==
    ASSUME Inv, NEW l \in Listener, Lookup(l)
    PROVE  Inv'
<1>1. TypeOK'
  BY Zenon DEF Lookup, Goto, heap, Inv, TypeOK, ListenerPC
<1>2. ListenerOK(l)'
  BY DEF Lookup, Goto, Inv, TypeOK, ListenerInv, ListenerOK, Numbers
<1>3. ListenerInv'
  BY <1>2, OneListener DEF Lookup, Goto, Inv, TypeOK
<1> QED
  BY <1>1, <1>3, Frame DEF Lookup, Inv

LEMMA CreateKeepsInv ==
    ASSUME Inv, NEW l \in Listener, Create(l)
    PROVE  Inv'
<1>1. lmsg[l] \in Numbers /\ lmsg[l] \in Receipt /\ Msg(l).addr \in Addr
  BY NumbersAreReceipts DEF Create, Goto, Inv, ListenerInv, ListenerOK, Msg
<1>2. TypeOK'
  BY <1>1 DEF Create, NewClient, Goto, Discriminator, Inv, TypeOK, ListenerPC, MaySig, Numbers
<1>3. TableInv'
  BY <1>1 DEF Create, Discriminator, Inv, TypeOK, TableInv, Numbers, Address, Msg
<1>4. ListenerInv'
  <2>1. ListenerOK(l)'
    BY <1>1 DEF Create, Goto, Inv, TypeOK, ListenerOK, Numbers
  <2> QED
    BY <2>1, OneListener, Zenon DEF Create, Goto, Inv, TypeOK
<1>5. HeapInv'
  BY <1>1 DEF Create, NewClient, Inv, TypeOK, HeapInv, OwnedBy, Numbers, Address
<1> QED
  BY <1>2, <1>3, <1>4, <1>5, Frame DEF Create, Inv

LEMMA FetchKeepsInv ==
    ASSUME Inv, NEW l \in Listener, Fetch(l)
    PROVE  Inv'
<1>1. lmsg[l] \in Numbers /\ Msg(l).addr \in Addr
  BY NumbersAreReceipts DEF Fetch, Goto, Inv, ListenerInv, ListenerOK, Msg
<1>2. TypeOK'
  BY <1>1 DEF Fetch, Goto, Discriminator, heap, Inv, TypeOK, ListenerPC
<1>3. ListenerInv'
  <2>1. lclient'[l] = clients[Msg(l).addr] /\ lpc'[l] = "decode" /\ lmsg'[l] = lmsg[l]
    BY DEF Fetch, Goto, Discriminator, Inv, TypeOK
  <2>2. lclient'[l] # NoClient => Serves(lclient'[l], lmsg[l])
    BY <1>1, <2>1 DEF Inv, TableInv, Serves, Msg
  <2>3. ListenerOK(l)'
    BY <1>1, <2>1, <2>2 DEF Fetch, ListenerOK, Serves, Numbers, Address
  <2> QED
    BY <2>3, OneListener, Zenon DEF Fetch, Goto, Inv, TypeOK
<1> QED
  BY <1>2, <1>3, Frame DEF Fetch, Inv

LEMMA RefuseKeepsInv ==
    ASSUME Inv, NEW l \in Listener, Refuse(l)
    PROVE  Inv'
<1>1. TypeOK'
  BY DEF Refuse, Goto, heap, Inv, TypeOK, ListenerPC
<1>2. ListenerOK(l)'
  BY DEF Refuse, Goto, Inv, TypeOK, ListenerOK
<1>3. ListenerInv'
  BY <1>2, OneListener, Zenon DEF Refuse, Goto, Inv, TypeOK
<1> QED
  BY <1>1, <1>3, Frame DEF Refuse, Inv

\* A crash stops the process where it is.
LEMMA CrashKeepsInv ==
    ASSUME Inv, crashed' = TRUE, UNCHANGED <<received, clients, heap, local, acks, handlers, sent>>
    PROVE  Inv'
<1>1. TypeOK'
  BY DEF heap, local, Inv, TypeOK
<1> QED
  BY <1>1, Frame DEF Inv

\* The cases of the switch are places in handleSocketMessage.
LEMMA CaseOfType ==
    \A type \in Types : CaseOf(type) \in {"resetServerSig", "connect", "emit", "kick", "ping"}
  BY DEF Types, CaseOf

LEMMA AcceptKeepsInv ==
    ASSUME Inv, NEW l \in Listener, Accept(l)
    PROVE  Inv'
<1>1. /\ lpc[l] = "decode" /\ lclient[l] # NoClient /\ lmsg[l] \in Numbers
      /\ Serves(lclient[l], lmsg[l]) /\ Decoded(lmsg[l])
  BY DEF Accept, Inv, ListenerInv, ListenerOK, Msg, Decoded
<1>2. lpc' = [lpc EXCEPT ![l] = CaseOf(Msg(l).kind)] /\ CaseOf(Msg(l).kind) \in ListenerPC
  BY CaseOfType DEF Accept, Goto, ListenerPC
<1>3. \A t \in acks' \ acks :
        /\ t = NewAck(lmsg[l], "server", lclient[l])
        /\ HasFlag(received[lmsg[l]], "NeedsAck")
  BY DEF Accept, Acknowledged, Msg
<1>4. NewAck(lmsg[l], "server", lclient[l]) \in AckType
  BY <1>1, NumbersAreReceipts DEF Inv, Serves, NewAck, AckType, MaySig
<1>5. TypeOK'
  <2>1. acks' \subseteq AckType
    BY <1>3, <1>4 DEF Inv, TypeOK
  <2> QED
    BY <1>2, <2>1 DEF Accept, heap, Inv, TypeOK
<1>6. ListenerInv'
  <2>1. ListenerOK(l)'
    BY <1>1, <1>2, CaseOfType, SMTT(30)
    DEF Accept, Inv, TypeOK, ListenerOK, Serves, Decoded, Numbers, Address
  <2> QED
    BY <1>2, <2>1, OneListener, Zenon DEF Accept, Inv, TypeOK
<1>7. AckInv'
  <2> SUFFICES ASSUME NEW t \in acks'
               PROVE  /\ Serves(t.client, t.re) /\ Decoded(t.re)
                      /\ t.by = "server" => HasFlag(received[t.re], "NeedsAck")
                      /\ OwnedBy(t.sign, received[t.re].addr)
                      /\ OwnedBy(t.conn, received[t.re].addr)
    BY DEF Accept, AckInv, Serves, Decoded, Numbers, Address
  <2>1. CASE t \in acks
    BY <2>1 DEF Inv, AckInv
  <2>2. CASE t \notin acks
    BY <1>1, <1>3, <2>2 DEF NewAck, OwnedBy
  <2> QED
    BY <2>1, <2>2
<1> QED
  BY <1>5, <1>6, <1>7, Frame DEF Accept, Inv

LEMMA ResetServerSignatureKeepsInv ==
    ASSUME Inv, NEW l \in Listener, ResetServerSignature(l)
    PROVE  Inv'
<1>1. TypeOK'
  BY Zenon DEF ResetServerSignature, Goto, Inv, TypeOK, ListenerPC, MaySig
<1>2. ListenerOK(l)'
  BY Zenon DEF ResetServerSignature, Goto, Inv, TypeOK, ListenerInv, ListenerOK, Serves, Decoded,
         Numbers, Address
<1>3. ListenerInv'
  BY <1>2, OneListener, Zenon DEF ResetServerSignature, Goto, Inv, TypeOK
<1>4. HeapInv'
  BY DEF ResetServerSignature, Inv, TypeOK, HeapInv, OwnedBy, Numbers, Address
<1> QED
  BY <1>1, <1>3, <1>4, Frame DEF ResetServerSignature, Inv

LEMMA ResetClientSignatureKeepsInv ==
    ASSUME Inv, NEW l \in Listener, ResetClientSignature(l)
    PROVE  Inv'
<1>1. TypeOK'
  BY Zenon DEF ResetClientSignature, Goto, Inv, TypeOK, ListenerPC, MaySig
<1>2. ListenerOK(l)'
  BY Zenon DEF ResetClientSignature, Goto, Inv, TypeOK, ListenerInv, ListenerOK, Serves, Decoded,
         Numbers, Address
<1>3. ListenerInv'
  BY <1>2, OneListener, Zenon DEF ResetClientSignature, Goto, Inv, TypeOK
<1>4. HeapInv'
  BY DEF ResetClientSignature, Inv, TypeOK, HeapInv, OwnedBy, Numbers, Address
<1> QED
  BY <1>1, <1>3, <1>4, Frame DEF ResetClientSignature, Inv

\* The signature stored belongs to the source of the packet, whose client this is.
LEMMA ConnectKeepsInv ==
    ASSUME Inv, NEW l \in Listener, Connect(l)
    PROVE  Inv'
<1>1. /\ lpc[l] = "connect" /\ lclient[l] # NoClient /\ lclient[l] \in Receipt
      /\ Serves(lclient[l], lmsg[l]) /\ Decoded(lmsg[l])
  BY NumbersAreReceipts DEF Connect, Goto, Inv, ListenerInv, ListenerOK, Serves
<1>2. Msg(l).sig \in Sig /\ Msg(l).sig.owner = Address(lclient[l])
  BY <1>1, NumbersAreReceipts, Datagrams DEF Inv, Serves, Msg
<1>3. TypeOK'
  BY <1>1, <1>2 DEF Connect, Goto, Inv, TypeOK, ListenerPC, MaySig
<1>4. ListenerOK(l)'
  BY <1>1 DEF Connect, Goto, Inv, TypeOK, ListenerOK, Serves, Decoded, Numbers, Address
<1>5. ListenerInv'
  BY <1>4, OneListener, Zenon DEF Connect, Goto, Inv, TypeOK
<1>6. HeapInv'
  BY <1>1, <1>2 DEF Connect, Inv, TypeOK, HeapInv, OwnedBy, Serves, Numbers, Address
<1> QED
  BY <1>3, <1>5, <1>6, Frame DEF Connect, Inv

\* Kick empties one entry of the table.
LEMMA KickKeepsTable ==
    ASSUME Inv, received' = received, NEW c \in Numbers, KickClient(c)
    PROVE  TableInv' /\ clients' \in [Addr -> 0 .. Len(received)]
<1>1. Address(c) \in Addr /\ 0 \in 0 .. Len(received)
  BY NumbersAreReceipts DEF Inv, Address
<1>2. clients' = [clients EXCEPT ![Address(c)] = 0]
  BY DEF KickClient, NoClient
<1>3. clients' \in [Addr -> 0 .. Len(received)]
  BY <1>1, <1>2 DEF Inv, TypeOK
<1>4. TableInv'
  BY <1>1, <1>2 DEF Inv, TypeOK, TableInv, NoClient, Numbers, Address
<1> QED
  BY <1>3, <1>4

LEMMA DisconnectKeepsInv ==
    ASSUME Inv, NEW l \in Listener, Disconnect(l)
    PROVE  Inv'
<1>1. /\ lpc[l] = "kick" /\ lclient[l] # NoClient /\ lclient[l] \in Numbers
      /\ Serves(lclient[l], lmsg[l]) /\ Decoded(lmsg[l])
  BY DEF Disconnect, Goto, Inv, ListenerInv, ListenerOK, Serves
<1>2. TableInv' /\ clients' \in [Addr -> 0 .. Len(received)]
  BY <1>1, KickKeepsTable DEF Disconnect
<1>3. TypeOK'
  BY <1>2 DEF Disconnect, Goto, heap, Inv, TypeOK, ListenerPC
<1>4. ListenerOK(l)'
  BY <1>1 DEF Disconnect, Goto, Inv, TypeOK, ListenerOK, Serves, Decoded, Numbers, Address
<1>5. ListenerInv'
  BY <1>4, OneListener, Zenon DEF Disconnect, Goto, Inv, TypeOK
<1> QED
  BY <1>2, <1>3, <1>5, Frame DEF Disconnect, Inv

\* The signature read for a packet to a client is one of its address, or none.
LEMMA SignatureOwned ==
    ASSUME Inv, NEW c \in Numbers, NEW type
    PROVE  Signature(type, c) \in MaySig /\ OwnedBy(Signature(type, c), Address(c))
<1>1. c \in Receipt
  BY NumbersAreReceipts DEF Inv
<1>2. clientSig[c] \in MaySig /\ OwnedBy(clientSig[c], Address(c))
  BY <1>1 DEF Inv, TypeOK, HeapInv
<1>3. NoSig \in MaySig /\ OwnedBy(NoSig, Address(c))
  BY Zenon DEF MaySig, OwnedBy
<1> QED
  BY <1>2, <1>3 DEF Signature

\* A packet that may be added to those written.
LEMMA SentOneMore ==
    ASSUME Inv, received' = received, NEW p \in PacketType, sent' = sent \cup {p},
           p.re \in Numbers, p.to = received[p.re].addr, Decoded(p.re),
           IsAckPacket(p) /\ p.by = "server" => HasFlag(received[p.re], "NeedsAck"),
           OwnedBy(p.sign, p.to), OwnedBy(p.conn, p.to)
    PROVE  sent' \subseteq PacketType /\ SentInv'
  BY DEF Inv, TypeOK, SentInv, Numbers, Decoded

LEMMA PingKeepsInv ==
    ASSUME Inv, NEW l \in Listener, Ping(l)
    PROVE  Inv'
<1> DEFINE p == [to |-> Address(lclient[l]), type |-> "Ping", flag |-> "NeedsAck",
                 re |-> lmsg[l], by |-> "server",
                 sign |-> Signature("Ping", lclient[l]), conn |-> NoSig]
<1>1. /\ lpc[l] = "ping" /\ lclient[l] # NoClient /\ lclient[l] \in Numbers
      /\ lmsg[l] \in Numbers /\ Serves(lclient[l], lmsg[l]) /\ Decoded(lmsg[l])
  BY DEF Ping, Goto, Inv, ListenerInv, ListenerOK, Serves
<1>2. Signature("Ping", lclient[l]) \in MaySig /\ OwnedBy(p.sign, p.to) /\ OwnedBy(p.conn, p.to)
  BY <1>1, SignatureOwned, SMTT(30) DEF OwnedBy
<1>3. p \in PacketType
  BY <1>1, <1>2, NumbersAreReceipts, SMTT(30) DEF Inv, PacketType, Types, Flags, MaySig, Address
<1>4. p.re \in Numbers /\ p.to = received[p.re].addr /\ Decoded(p.re) /\ ~IsAckPacket(p)
  BY <1>1, SMTT(30) DEF Serves, IsAckPacket
<1>5. received' = received /\ sent' = sent \cup {p}
  BY Zenon DEF Ping
<1>6. sent' \subseteq PacketType /\ SentInv'
  BY <1>2, <1>3, <1>4, <1>5, SentOneMore
<1>7. TypeOK'
  BY <1>6 DEF Ping, Goto, heap, Inv, TypeOK, ListenerPC
<1>8. ListenerOK(l)'
  BY <1>1 DEF Ping, Goto, Inv, TypeOK, ListenerOK, Serves, Decoded, Numbers, Address
<1>9. ListenerInv'
  BY <1>8, OneListener, ZenonT(30) DEF Ping, Goto, Inv, TypeOK
<1> QED
  BY <1>6, <1>7, <1>9, Frame DEF Ping, Inv

LEMMA EmitKeepsInv ==
    ASSUME Inv, NEW l \in Listener, Emit(l)
    PROVE  Inv'
<1>1. /\ lpc[l] = "emit" /\ lclient[l] \in Numbers /\ lmsg[l] \in Numbers
      /\ Serves(lclient[l], lmsg[l]) /\ Decoded(lmsg[l])
  BY ZenonT(30) DEF Emit, Goto, Inv, ListenerInv, ListenerOK, Serves
<1>2. \A h \in handlers' \ handlers :
         \E e \in Events : h = [event |-> e, re |-> lmsg[l], client |-> lclient[l]]
  BY ServerAssumption, Zenon DEF Emit
<1>3. TypeOK'
  <2>1. handlers' \subseteq HandlerType
    BY <1>1, <1>2, NumbersAreReceipts DEF Inv, TypeOK, HandlerType
  <2> QED
    BY <2>1, ZenonT(30) DEF Emit, Goto, heap, Inv, TypeOK, ListenerPC
<1>4. ListenerInv'
  <2>1. ListenerOK(l)'
    BY DEF Emit, Goto, Inv, TypeOK, ListenerOK
  <2> QED
    BY <2>1, OneListener, Zenon DEF Emit, Goto, Inv, TypeOK
<1>5. HandlerInv'
  <2>1. \A h \in handlers' : Serves(h.client, h.re) /\ Decoded(h.re)
    BY <1>1, <1>2 DEF Inv, HandlerInv
  <2> QED
    BY <2>1 DEF Emit, HandlerInv, Serves, Decoded, Numbers, Address
<1> QED
  BY <1>3, <1>4, <1>5, Frame, ZenonT(30) DEF Emit, Inv

-----------------------------------------------------------------------------
(***************************************************************************)
(* AcknowledgePacket.                                                      *)
(***************************************************************************)

\* What AckInv says of one call, which moves on to u.
LEMMA AckMovesOn ==
    ASSUME Inv, received' = received, NEW t \in acks, NEW u \in AckType,
           acks' = (acks \ {t}) \cup {u},
           u.client = t.client, u.re = t.re, u.by = t.by,
           OwnedBy(u.sign, received[t.re].addr), OwnedBy(u.conn, received[t.re].addr)
    PROVE  acks' \subseteq AckType /\ AckInv'
<1>1. acks' \subseteq AckType
  BY DEF Inv, TypeOK
<1>2. /\ Serves(u.client, u.re) /\ Decoded(u.re)
      /\ u.by = "server" => HasFlag(received[u.re], "NeedsAck")
      /\ OwnedBy(u.sign, received[u.re].addr) /\ OwnedBy(u.conn, received[u.re].addr)
  BY DEF Inv, AckInv
<1>3. \A v \in acks' :
        /\ Serves(v.client, v.re) /\ Decoded(v.re)
        /\ v.by = "server" => HasFlag(received[v.re], "NeedsAck")
        /\ OwnedBy(v.sign, received[v.re].addr) /\ OwnedBy(v.conn, received[v.re].addr)
  BY <1>2 DEF Inv, AckInv
<1>4. AckInv'
  BY <1>3, Zenon DEF AckInv, Serves, Decoded, Numbers, Address
<1> QED
  BY <1>1, <1>4

LEMMA AckStartKeepsInv ==
    ASSUME Inv, NEW t \in acks, AckStart(t)
    PROVE  Inv'
<1> DEFINE fresh == [owner |-> Address(t.client), n |-> t.re]
           isSyn == PrudpVersion = 1 /\ received[t.re].kind = "Syn"
           u == [t EXCEPT !.pc = "sign", !.conn = IF isSyn THEN fresh ELSE NoSig]
<1>1. /\ t \in AckType /\ Serves(t.client, t.re)
      /\ t.client \in Numbers /\ t.client \in Receipt /\ t.re \in Receipt
      /\ Address(t.client) \in Addr /\ Address(t.client) = received[t.re].addr
  BY NumbersAreReceipts DEF Inv, TypeOK, AckInv, Serves, Address
<1>2. fresh \in Sig /\ fresh.owner = Address(t.client)
  BY <1>1 DEF Receipt, Sig
<1>3. u \in AckType /\ OwnedBy(u.conn, received[t.re].addr) /\ OwnedBy(u.sign, received[t.re].addr)
  BY <1>1, <1>2, Zenon DEF AckType, MaySig, OwnedBy, Inv, AckInv
<1>4. u.client = t.client /\ u.re = t.re /\ u.by = t.by
  BY <1>1 DEF AckType
<1>5. received' = received /\ acks' = (acks \ {t}) \cup {u}
  BY DEF AckStart
<1>6. acks' \subseteq AckType /\ AckInv'
  BY <1>3, <1>4, <1>5, AckMovesOn, Zenon
<1>7. serverSig' = IF isSyn THEN [serverSig EXCEPT ![t.client] = fresh] ELSE serverSig
  BY SMTT(30) DEF AckStart
<1>8. serverSig' \in [Receipt -> MaySig]
  BY <1>1, <1>2, <1>7 DEF Inv, TypeOK, MaySig
<1>9. TypeOK'
  BY <1>6, <1>8 DEF AckStart, local, Inv, TypeOK
<1>10. HeapInv'
  <2>1. \A c \in Receipt :
          serverSig'[c] = IF isSyn /\ c = t.client THEN fresh ELSE serverSig[c]
    BY <1>7 DEF Inv, TypeOK
  <2> QED
    BY <1>1, <1>2, <2>1, SMTT(30) DEF AckStart, Inv, HeapInv, OwnedBy, Numbers, Address
<1> QED
  BY <1>6, <1>9, <1>10, Frame DEF AckStart, Inv

LEMMA AckSignKeepsInv ==
    ASSUME Inv, NEW t \in acks, AckSign(t)
    PROVE  Inv'
<1> DEFINE s == Signature(received[t.re].kind, t.client)
           u == [t EXCEPT !.pc = "send", !.sign = s]
<1>1. /\ t \in AckType /\ t.client \in Numbers
      /\ Address(t.client) = received[t.re].addr
  BY DEF Inv, TypeOK, AckInv, Serves
<1>2. s \in MaySig /\ OwnedBy(s, received[t.re].addr)
  BY <1>1, SignatureOwned
<1>3. u \in AckType /\ OwnedBy(u.conn, received[t.re].addr) /\ OwnedBy(u.sign, received[t.re].addr)
  BY <1>1, <1>2, Zenon DEF AckType, Inv, AckInv
<1>4. u.client = t.client /\ u.re = t.re /\ u.by = t.by
  BY <1>1 DEF AckType
<1>5. received' = received /\ acks' = (acks \ {t}) \cup {u}
  BY DEF AckSign
<1>6. acks' \subseteq AckType /\ AckInv'
  BY <1>3, <1>4, <1>5, AckMovesOn, Zenon
<1>7. TypeOK'
  BY <1>6 DEF AckSign, heap, local, Inv, TypeOK
<1> QED
  BY <1>6, <1>7, Frame DEF AckSign, Inv

LEMMA AckSendKeepsInv ==
    ASSUME Inv, NEW t \in acks, AckSend(t)
    PROVE  Inv'
<1> DEFINE p == AckPacket(t)
<1>1. /\ t \in AckType /\ t.client \in Numbers /\ t.re \in Numbers /\ t.client \in Receipt
      /\ Address(t.client) = received[t.re].addr /\ Address(t.client) \in Addr
      /\ Decoded(t.re) /\ (t.by = "server" => HasFlag(received[t.re], "NeedsAck"))
      /\ OwnedBy(t.sign, Address(t.client)) /\ OwnedBy(t.conn, Address(t.client))
  BY NumbersAreReceipts DEF Inv, TypeOK, AckInv, Serves, Address
<1>2. /\ ConnectionOption(t) \in MaySig
      /\ OwnedBy(ConnectionOption(t), Address(t.client))
  BY <1>1 DEF ConnectionOption, Inv, TypeOK, HeapInv, AckType
<1>3. AckFlag(received[t.re].kind) \in {"Ack", "MultiAck"}
  BY DEF AckFlag
<1>4. p \in PacketType
  BY <1>1, <1>2, <1>3 DEF AckPacket, PacketType, AckType, Flags, Decoded
<1>5. /\ p.re \in Numbers /\ p.to = received[p.re].addr /\ Decoded(p.re)
      /\ IsAckPacket(p) /\ p.by = "server" => HasFlag(received[p.re], "NeedsAck")
      /\ OwnedBy(p.sign, p.to) /\ OwnedBy(p.conn, p.to)
  BY <1>1, <1>2, Zenon DEF AckPacket
<1>6. received' = received /\ sent' = sent \cup {p} /\ acks' = acks \ {t}
  BY Zenon DEF AckSend
<1>7. sent' \subseteq PacketType /\ SentInv'
  BY <1>4, <1>5, <1>6, SentOneMore
<1>8. TypeOK'
  BY <1>6, <1>7, SMTT(30) DEF AckSend, heap, local, Inv, TypeOK
<1>9. AckInv'
  BY <1>6 DEF Inv, AckInv, Serves, Decoded, Numbers, Address
<1> QED
  BY <1>7, <1>8, <1>9, Frame, SMTT(30) DEF AckSend, Inv

-----------------------------------------------------------------------------
(***************************************************************************)
(* Event handlers, and all steps together.                                 *)
(***************************************************************************)
LEMMA RunHandlerKeepsInv ==
    ASSUME Inv, NEW h \in handlers, RunHandler(h)
    PROVE  Inv'
<1>1. /\ Serves(h.client, h.re) /\ Decoded(h.re) /\ h.client \in Numbers
      /\ h.client \in Receipt /\ h.re \in Receipt
  BY NumbersAreReceipts DEF Inv, HandlerInv, Serves
<1>2. received' = received /\ handlers' \subseteq handlers
  BY DEF RunHandler, HandlerReturns, HandlerKicks, HandlerAcknowledges
<1>3. HandlerInv'
  BY <1>2 DEF Inv, HandlerInv, Serves, Decoded, Numbers, Address
<1>4. CASE HandlerReturns(h)
  <2>1. TypeOK'
    BY <1>2, <1>4 DEF HandlerReturns, heap, local, Inv, TypeOK
  <2> QED
    BY <1>2, <1>3, <1>4, <2>1, Frame DEF HandlerReturns, Inv
<1>5. CASE HandlerKicks(h)
  <2>1. TableInv' /\ clients' \in [Addr -> 0 .. Len(received)]
    BY <1>1, <1>2, <1>5, KickKeepsTable DEF HandlerKicks
  <2>2. TypeOK'
    BY <1>2, <1>5, <2>1 DEF HandlerKicks, heap, local, Inv, TypeOK
  <2> QED
    BY <1>2, <1>3, <1>5, <2>1, <2>2, Frame DEF HandlerKicks, Inv
<1>6. CASE HandlerAcknowledges(h)
  <2> DEFINE u == NewAck(h.re, "app", h.client)
  <2>1. acks' = acks \cup {u}
    BY <1>6 DEF HandlerAcknowledges
  <2>2. u \in AckType
    BY <1>1, Zenon DEF NewAck, AckType, MaySig
  <2>3. TypeOK'
    BY <1>2, <1>6, <2>1, <2>2 DEF HandlerAcknowledges, heap, local, Inv, TypeOK
  <2>4. /\ u.client = h.client /\ u.re = h.re /\ u.by = "app"
        /\ OwnedBy(u.sign, received[u.re].addr) /\ OwnedBy(u.conn, received[u.re].addr)
    BY SMTT(30) DEF NewAck, OwnedBy
  <2>5. AckInv'
    BY <1>1, <1>2, <2>1, <2>4, Zenon DEF Inv, AckInv, Serves, Decoded, Numbers, Address
  <2> QED
    BY <1>2, <1>3, <1>6, <2>3, <2>5, Frame DEF HandlerAcknowledges, Inv
<1> QED
  BY <1>4, <1>5, <1>6 DEF RunHandler

LEMMA StutterKeepsInv ==
    ASSUME Inv, UNCHANGED vars
    PROVE  Inv'
<1>1. TypeOK'
  BY DEF vars, heap, local, Inv, TypeOK
<1> QED
  BY <1>1, Frame DEF vars, Inv

LEMMA NextKeepsInv == Inv /\ [Next]_vars => Inv'
<1> SUFFICES ASSUME Inv, [Next]_vars
             PROVE  Inv'
  OBVIOUS
<1>1. ASSUME NEW l \in Listener, Read(l) \/ Handle(l)
      PROVE  Inv'
  <2>1. CASE NilSender(l)
    BY <2>1, CrashKeepsInv DEF NilSender
  <2> QED
    BY <1>1, <2>1, ReadKeepsInv, LookupKeepsInv, CreateKeepsInv, FetchKeepsInv, RefuseKeepsInv,
       AcceptKeepsInv, ResetServerSignatureKeepsInv, ResetClientSignatureKeepsInv,
       ConnectKeepsInv, DisconnectKeepsInv, PingKeepsInv, EmitKeepsInv DEF Handle
<1>2. ASSUME NEW t \in acks, AckStep(t)
      PROVE  Inv'
  BY <1>2, AckStartKeepsInv, AckSignKeepsInv, AckSendKeepsInv DEF AckStep
<1>3. ASSUME NEW h \in handlers, RunHandler(h)
      PROVE  Inv'
  BY <1>3, RunHandlerKeepsInv
<1>4. CASE ConcurrentMapFault
  BY <1>4, CrashKeepsInv DEF ConcurrentMapFault
<1>5. CASE UNCHANGED vars
  BY <1>5, StutterKeepsInv
<1> QED
  BY <1>1, <1>2, <1>3, <1>4, <1>5 DEF Next, Stopped

THEOREM Invariance == Spec => []Inv
  BY InitInv, NextKeepsInv, PTL DEF Spec

\* The server's variables keep their types: in particular no goroutine works
\* with a client object or a datagram that does not exist, although Kick and
\* the listeners change the unlocked table under one another.
THEOREM TypeCorrect == Spec => []TypeOK
<1>1. Inv => TypeOK
  BY DEF Inv
<1> QED
  BY <1>1, Invariance, PTL

\* AcknowledgePacket and SendPing answer the peer that asked, whatever becomes
\* of the table between the datagram and the answer.
THEOREM AnswersGoBack == Spec => []AnswersGoToTheSource
<1>1. Inv => AnswersGoToTheSource
  BY Zenon DEF Inv, SentInv, Decoded, AnswersGoToTheSource
<1> QED
  BY <1>1, Invariance, PTL

\* Connection signatures never cross from one peer to another.
THEOREM Isolation == Spec => []SessionIsolation
<1>1. Inv => SessionIsolation
  <2> SUFFICES ASSUME Inv
               PROVE  SessionIsolation
    OBVIOUS
  <2> QED
    BY Known DEF Inv, HeapInv, SentInv, SessionIsolation
<1> QED
  BY <1>1, Invariance, PTL
-----------------------------------------------------------------------------
(***************************************************************************)
(* The signature the server expects.  AckStart stores it and keeps it in   *)
(* the call, whose packet carries it; what a call has before that is none, *)
(* so that no step of another call can take the last copy away.            *)
(***************************************************************************)
ToldInv ==
    /\ SignatureIsTold
    /\ \A t \in acks : t.pc = "start" => t.conn = NoSig
    /\ PrudpVersion = 0 => \A c \in Receipt : serverSig[c] = NoSig

LEMMA InitTold == Init => ToldInv
  BY DEF Init, ToldInv, SignatureIsTold

\* A step that only clears signatures, starts calls or writes packets.
LEMMA MoreKeepsTold ==
    ASSUME Inv, ToldInv, received' = received, acks \subseteq acks', sent \subseteq sent',
           \A t \in acks' \ acks : t.conn = NoSig,
           \A c \in Receipt : serverSig'[c] \in {serverSig[c], NoSig}
    PROVE  ToldInv'
<1>1. DOMAIN received \subseteq Receipt
  BY Known, Zenon
<1>2. SignatureIsTold'
  BY <1>1, SMTT(30) DEF ToldInv, SignatureIsTold, Address
<1> QED
  BY <1>2 DEF ToldInv

LEMMA ReadKeepsTold ==
    ASSUME Inv, ToldInv, NEW l \in Listener, Read(l)
    PROVE  ToldInv'
<1>1. PICK d \in Datagram : received' = Append(received, d)
  BY DEF Read
<1>2. received \in Seq(Datagram) /\ Len(received) \in Nat
  BY DEF Inv, TypeOK
<1>3. /\ DOMAIN received' = Numbers \cup {Len(received) + 1} /\ DOMAIN received = Numbers
      /\ Len(received) + 1 \notin Numbers /\ Len(received) + 1 \in Receipt
      /\ \A i \in Numbers : received'[i] = received[i]
  BY <1>1, <1>2, ServerAssumption DEF Read, Numbers, Receipt
<1>4. serverSig[Len(received) + 1] = NoSig
  BY <1>3 DEF Inv, HeapInv
<1>5. serverSig' = serverSig /\ acks' = acks /\ sent' = sent
  BY DEF Read, heap
<1>6. SignatureIsTold'
  BY <1>3, <1>4, <1>5 DEF ToldInv, SignatureIsTold, Address
<1> QED
  BY <1>5, <1>6 DEF ToldInv

LEMMA AckStartKeepsTold ==
    ASSUME Inv, ToldInv, NEW t \in acks, AckStart(t)
    PROVE  ToldInv'
<1> DEFINE fresh == [owner |-> Address(t.client), n |-> t.re]
           isSyn == PrudpVersion = 1 /\ received[t.re].kind = "Syn"
           u == [t EXCEPT !.pc = "sign", !.conn = IF isSyn THEN fresh ELSE NoSig]
<1>1. t \in AckType /\ t.client \in Receipt /\ DOMAIN received \subseteq Receipt /\ t.conn = NoSig
  BY Known DEF AckStart, Inv, TypeOK, AckType, ToldInv
<1>2. u.client = t.client /\ u.pc = "sign" /\ (isSyn => u.conn = fresh)
  BY <1>1 DEF AckType
<1>3. /\ received' = received /\ sent' = sent /\ acks' = (acks \ {t}) \cup {u}
      /\ serverSig' = IF isSyn THEN [serverSig EXCEPT ![t.client] = fresh] ELSE serverSig
  BY DEF AckStart
<1>4. \A c \in Receipt : serverSig'[c] = IF isSyn /\ c = t.client THEN fresh ELSE serverSig[c]
  BY <1>1, <1>3 DEF Inv, TypeOK
<1>5. SignatureIsTold'
  <2> SUFFICES ASSUME NEW c \in DOMAIN received, serverSig'[c] # NoSig
               PROVE  \/ \E p \in sent' : p.to = Address(c) /\ p.conn = serverSig'[c]
                      \/ \E v \in acks' : v.client = c /\ v.conn = serverSig'[c]
    BY <1>3 DEF SignatureIsTold, Address
  <2>1. CASE isSyn /\ c = t.client
    BY <1>1, <1>2, <1>3, <1>4, <2>1, Zenon
  <2>2. CASE ~(isSyn /\ c = t.client)
    <3>1. serverSig'[c] = serverSig[c]
      BY <1>1, <1>4, <2>2
    <3> QED
      BY <1>1, <1>3, <3>1 DEF ToldInv, SignatureIsTold
  <2> QED
    BY <2>1, <2>2
<1>6. \A v \in acks' : v.pc = "start" => v.conn = NoSig
  BY <1>2, <1>3, Zenon DEF ToldInv
<1>7. PrudpVersion = 0 => \A c \in Receipt : serverSig'[c] = NoSig
  BY <1>4 DEF ToldInv
<1> QED
  BY <1>5, <1>6, <1>7 DEF ToldInv

LEMMA AckSignKeepsTold ==
    ASSUME Inv, ToldInv, NEW t \in acks, AckSign(t)
    PROVE  ToldInv'
<1>1. PICK s : acks' = (acks \ {t}) \cup {[t EXCEPT !.pc = "send", !.sign = s]}
  BY Zenon DEF AckSign
<1> DEFINE u == [t EXCEPT !.pc = "send", !.sign = s]
<1>2. u.client = t.client /\ u.conn = t.conn /\ u.pc = "send"
  <2>1. t \in AckType
    BY DEF Inv, TypeOK
  <2> QED
    BY <2>1 DEF AckType
<1>3. received' = received /\ sent' = sent /\ serverSig' = serverSig /\ acks' = (acks \ {t}) \cup {u}
  BY <1>1 DEF AckSign, heap
<1> HIDE DEF u
<1>4. \A c, sig : (\E v \in acks : v.client = c /\ v.conn = sig)
                    => \E v \in acks' : v.client = c /\ v.conn = sig
  BY <1>2, <1>3, SMTT(30)
<1>5. SignatureIsTold'
  <2> SUFFICES ASSUME NEW c \in DOMAIN received, serverSig[c] # NoSig
               PROVE  \/ \E p \in sent : p.to = Address(c) /\ p.conn = serverSig[c]
                      \/ \E v \in acks' : v.client = c /\ v.conn = serverSig[c]
    BY <1>3 DEF SignatureIsTold, Address
  <2> QED
    BY <1>4, SMTT(30) DEF ToldInv, SignatureIsTold
<1> QED
  BY <1>2, <1>3, <1>5 DEF ToldInv

LEMMA AckSendKeepsTold ==
    ASSUME Inv, ToldInv, NEW t \in acks, AckSend(t)
    PROVE  ToldInv'
<1> DEFINE p == AckPacket(t)
<1>1. /\ received' = received /\ sent' = sent \cup {p} /\ serverSig' = serverSig
      /\ acks' = acks \ {t}
  BY DEF AckSend, heap
<1>2. PrudpVersion = 1 => p.to = Address(t.client) /\ p.conn = t.conn
  BY DEF AckPacket, ConnectionOption
<1>3. DOMAIN received \subseteq Receipt
  BY Known
<1>4. SignatureIsTold'
  <2>1. CASE PrudpVersion = 1
    BY <1>1, <1>2, <2>1, SMTT(30) DEF ToldInv, SignatureIsTold, Address
  <2>2. CASE PrudpVersion = 0
    BY <1>1, <1>3, <2>2 DEF ToldInv, SignatureIsTold
  <2> QED
    BY <2>1, <2>2, ServerAssumption
<1> QED
  BY <1>1, <1>4 DEF ToldInv

LEMMA NextKeepsTold == Inv /\ ToldInv /\ [Next]_vars => ToldInv'
<1> SUFFICES ASSUME Inv, ToldInv, [Next]_vars
             PROVE  ToldInv'
  OBVIOUS
<1>1. ASSUME NEW l \in Listener, Handle(l)
      PROVE  ToldInv'
  <2>1. received' = received /\ sent \subseteq sent'
    BY <1>1, Zenon DEF Handle, Lookup, Create, Fetch, Refuse, NilSender, Accept, ResetServerSignature,
                ResetClientSignature, Connect, Disconnect, Ping, Emit
  <2>2. acks \subseteq acks' /\ \A t \in acks' \ acks : t.conn = NoSig
    <3>1. CASE Accept(l)
      <4>1. acks' = acks \cup {NewAck(id, "server", lclient[l]) :
                                 id \in {i \in {lmsg[l]} : Acknowledged(Msg(l))}}
        BY <3>1, Zenon DEF Accept
      <4>2. \A id, c : NewAck(id, "server", c).conn = NoSig
        BY DEF NewAck
      <4> QED
        BY <4>1, <4>2, Zenon
    <3>2. ~Accept(l) => acks' = acks
      BY <1>1, Zenon DEF Handle, Lookup, Create, Fetch, Refuse, NilSender, ResetServerSignature,
                        ResetClientSignature, Connect, Disconnect, Ping, Emit
    <3> QED
      BY <3>1, <3>2
  <2>3. \A c \in Receipt : serverSig'[c] \in {serverSig[c], NoSig}
    BY <1>1, Zenon DEF Handle, Lookup, Create, NewClient, Fetch, Refuse, NilSender, Accept,
                ResetServerSignature, ResetClientSignature, Connect, Disconnect, Ping, Emit, heap,
                Inv, TypeOK
  <2> QED
    BY <2>1, <2>2, <2>3, MoreKeepsTold
<1>2. ASSUME NEW h \in handlers, RunHandler(h)
      PROVE  ToldInv'
  <2>1. received' = received /\ sent' = sent /\ serverSig' = serverSig
    BY <1>2, Zenon DEF RunHandler, HandlerReturns, HandlerKicks, HandlerAcknowledges, heap
  <2>2. acks' = acks \/ acks' = acks \cup {NewAck(h.re, "app", h.client)}
    BY <1>2, Zenon DEF RunHandler, HandlerReturns, HandlerKicks, HandlerAcknowledges
  <2>3. NewAck(h.re, "app", h.client).conn = NoSig
    BY DEF NewAck
  <2>4. acks \subseteq acks' /\ \A t \in acks' \ acks : t.conn = NoSig
    BY <2>2, <2>3, Zenon
  <2> QED
    BY <2>1, <2>4, MoreKeepsTold
<1>3. CASE ConcurrentMapFault \/ UNCHANGED vars
  BY <1>3, MoreKeepsTold DEF ConcurrentMapFault, vars, heap
<1> QED
  BY <1>1, <1>2, <1>3, ReadKeepsTold, AckStartKeepsTold, AckSignKeepsTold, AckSendKeepsTold
  DEF Next, AckStep, Stopped

\* Whatever interleaving of Syns, resets and answers, the server expects from
\* a peer only a connection signature that AcknowledgePacket has told this peer
\* or is about to tell it.
THEOREM SignaturesAreTold == Spec => []SignatureIsTold
<1>1. ToldInv => SignatureIsTold
  BY DEF ToldInv
<1> QED
  BY <1>1, InitTold, NextKeepsTold, Invariance, PTL DEF Spec
=============================================================================
