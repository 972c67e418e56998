---------------------------- MODULE LedgerProofs ----------------------------
(***************************************************************************)
(* Server implements AckLedger, for any number of listeners, peers and     *)
(* datagrams: every datagram is acknowledged at most once.                 *)
(***************************************************************************)
EXTENDS ServerLedger, ServerProofs

(***************************************************************************)
(* A datagram is acknowledged by the listener that decoded it or by the    *)
(* Connect handler of the application, never by both.  The invariant says  *)
(* who may still do it: the one listener that holds the datagram before    *)
(* Accept and, for a Connect with a payload, the one Connect handler that  *)
(* listener starts in the end.                                             *)
(***************************************************************************)
AckMade(id) ==
    \/ \E t \in acks : t.re = id
    \/ \E p \in sent : IsAckPacket(p) /\ p.re = id

LeftToApp(id) == received[id].kind = "Connect" /\ received[id].size > 0

\* Two listeners never handle the same datagram.
ListenersApart ==
    \A l, m \in Listener : lpc[l] # "read" /\ lpc[m] # "read" /\ lmsg[l] = lmsg[m] => l = m

\* What a listener still has to start, nobody has started.
ListenerOnce(l) ==
    /\ lpc[l] # "read" => \A h \in handlers : h.re # lmsg[l]
    /\ lpc[l] \in {"lookup", "create", "fetch", "decode"} => ~AckMade(lmsg[l])
    /\ lpc[l] # "read" /\ LeftToApp(lmsg[l]) => ~AckMade(lmsg[l])

HandlersOnce ==
    /\ \A h \in handlers : h.event \in {received[h.re].kind, "Packet"}
    /\ \A h \in handlers : h.event = "Connect" /\ LeftToApp(h.re) => ~AckMade(h.re)
    /\ \A h, g \in handlers : h.re = g.re /\ h.event = g.event => h = g

AcksOnce ==
    /\ \A t, u \in acks : t.re = u.re => t = u
    /\ \A t \in acks, p \in sent : IsAckPacket(p) => p.re # t.re
    /\ AcknowledgedOnce

OnceInv ==
    /\ ListenersApart
    /\ \A l \in Listener : ListenerOnce(l)
    /\ HandlersOnce
    /\ AcksOnce

Early == {"lookup", "create", "fetch", "decode"}

LEMMA InitOnce == Init => OnceInv
  BY DEF Init, OnceInv, ListenersApart, ListenerOnce, HandlersOnce, AcksOnce, AcknowledgedOnce, AckMade

(***************************************************************************)
(* The steps that start nothing: a listener that moves on within           *)
(* handleSocketMessage, and an AcknowledgePacket call that moves on.       *)
(***************************************************************************)
LEMMA MoveKeepsOnce ==
    ASSUME Inv, OnceInv, NEW l \in Listener, lpc[l] # "read", lpc' = [lpc EXCEPT ![l] = lpc'[l]],
           lpc'[l] \in Early => lpc[l] \in Early,
           received' = received, lmsg' = lmsg, acks' = acks, handlers' = handlers,
           \A p : IsAckPacket(p) => (p \in sent' <=> p \in sent)
    PROVE  OnceInv'
<1>1. \A id : AckMade(id)' <=> AckMade(id)
  BY DEF AckMade
<1>2. \A id : LeftToApp(id)' <=> LeftToApp(id)
  BY DEF LeftToApp
<1>3. \A m \in Listener : m # l => lpc'[m] = lpc[m]
  BY DEF Inv, TypeOK
<1>4. ListenersApart'
  BY <1>3 DEF OnceInv, ListenersApart
<1>5. \A m \in Listener : ListenerOnce(m)'
  BY <1>1, <1>2, <1>3 DEF OnceInv, ListenerOnce, Early
<1>6. HandlersOnce'
  BY <1>1, <1>2 DEF OnceInv, HandlersOnce
<1>7. AcksOnce'
  BY DEF OnceInv, AcksOnce, AcknowledgedOnce
<1> QED
  BY <1>4, <1>5, <1>6, <1>7 DEF OnceInv

LEMMA AckKeepsDatagram ==
    ASSUME Inv, NEW t \in acks, AckStart(t) \/ AckSign(t)
    PROVE  \E u : acks' = (acks \ {t}) \cup {u} /\ u.re = t.re
<1>1. t \in AckType
  BY DEF Inv, TypeOK
<1>2. CASE AckStart(t)
  <2>1. PICK c : acks' = (acks \ {t}) \cup {[t EXCEPT !.pc = "sign", !.conn = c]}
    BY <1>2, Zenon DEF AckStart
  <2>2. [t EXCEPT !.pc = "sign", !.conn = c].re = t.re
    BY <1>1 DEF AckType
  <2> QED
    BY <2>1, <2>2, Zenon
<1>3. CASE AckSign(t)
  <2>1. PICK s : acks' = (acks \ {t}) \cup {[t EXCEPT !.pc = "send", !.sign = s]}
    BY <1>3, Zenon DEF AckSign
  <2>2. [t EXCEPT !.pc = "send", !.sign = s].re = t.re
    BY <1>1 DEF AckType
  <2> QED
    BY <2>1, <2>2, Zenon
<1> QED
  BY <1>2, <1>3

LEMMA AckMoveKeepsOnce ==
    ASSUME OnceInv, NEW t \in acks, NEW u, acks' = (acks \ {t}) \cup {u}, u.re = t.re,
           UNCHANGED <<received, local, handlers, sent>>
    PROVE  OnceInv'
<1>1. \A id : AckMade(id)' <=> AckMade(id)
  BY DEF AckMade
<1>2. \A id : LeftToApp(id)' <=> LeftToApp(id)
  BY DEF LeftToApp
<1>3. ListenersApart'
  BY DEF OnceInv, ListenersApart, local
<1>4. \A m \in Listener : ListenerOnce(m)'
  BY <1>1, <1>2 DEF OnceInv, ListenerOnce, local
<1>5. HandlersOnce'
  BY <1>1, <1>2 DEF OnceInv, HandlersOnce
<1>6. AcksOnce'
  BY DEF OnceInv, AcksOnce, AcknowledgedOnce
<1> QED
  BY <1>3, <1>4, <1>5, <1>6 DEF OnceInv

-----------------------------------------------------------------------------
(***************************************************************************)
(* The steps that matter, one lemma each.                                  *)
(***************************************************************************)

\* The number of a new datagram is new to everybody.
LEMMA ReadKeepsOnce ==
    ASSUME Inv, OnceInv, NEW l \in Listener, Read(l)
    PROVE  OnceInv'
<1> DEFINE n == Len(received) + 1
<1>1. PICK d \in Datagram : received' = Append(received, d)
  BY DEF Read
<1>2. received \in Seq(Datagram) /\ Len(received) \in Nat
  BY DEF Inv, TypeOK
<1>3. n \notin Numbers /\ \A i \in Numbers : received'[i] = received[i]
  BY <1>1, <1>2 DEF Numbers
<1>4. /\ lpc' = [lpc EXCEPT ![l] = "lookup"] /\ lmsg' = [lmsg EXCEPT ![l] = n]
      /\ acks' = acks /\ handlers' = handlers /\ sent' = sent
  BY DEF Read, Goto
<1>5. /\ \A t \in acks : t.re \in Numbers
      /\ \A h \in handlers : h.re \in Numbers
      /\ \A p \in sent : p.re \in Numbers
      /\ \A m \in Listener : lpc[m] # "read" => lmsg[m] \in Numbers
  BY DEF Inv, AckInv, HandlerInv, SentInv, ListenerInv, ListenerOK, Serves
<1>6. (\A id : AckMade(id)' <=> AckMade(id)) /\ ~AckMade(n)
  BY <1>3, <1>4, <1>5 DEF AckMade
<1>7. \A id \in Numbers : LeftToApp(id)' <=> LeftToApp(id)
  BY <1>3 DEF LeftToApp
<1>8. /\ lpc'[l] = "lookup" /\ lmsg'[l] = n
      /\ \A m \in Listener : m # l => lpc'[m] = lpc[m] /\ lmsg'[m] = lmsg[m]
  BY <1>4 DEF Inv, TypeOK
<1>9. ListenersApart'
  BY <1>3, <1>5, <1>8 DEF OnceInv, ListenersApart
<1>10. ASSUME NEW m \in Listener
       PROVE  ListenerOnce(m)'
  <2>1. CASE m = l
    BY <1>3, <1>4, <1>5, <1>6, <1>8, <2>1 DEF ListenerOnce
  <2>2. CASE m # l
    <3>1. ListenerOnce(m)
      BY DEF OnceInv
    <3>2. CASE lpc[m] # "read"
      BY <1>4, <1>5, <1>6, <1>7, <1>8, <2>2, <3>1, <3>2 DEF ListenerOnce
    <3>3. CASE lpc[m] = "read"
      BY <1>8, <2>2, <3>3 DEF ListenerOnce
    <3> QED
      BY <3>2, <3>3
  <2> QED
    BY <2>1, <2>2
<1>11. HandlersOnce'
  BY <1>3, <1>4, <1>5, <1>6, <1>7 DEF OnceInv, HandlersOnce
<1>12. AcksOnce'
  BY <1>4 DEF OnceInv, AcksOnce, AcknowledgedOnce
<1> QED
  BY <1>9, <1>10, <1>11, <1>12 DEF OnceInv

\* An acknowledgement is opened for a datagram nobody has acknowledged yet.
LEMMA OpenKeepsAcks ==
    ASSUME OnceInv, NEW u, ~AckMade(u.re), acks' = acks \cup {u}, sent' = sent
    PROVE  AcksOnce' /\ \A id : id # u.re => (AckMade(id)' <=> AckMade(id))
<1>1. \A id : id # u.re => (AckMade(id)' <=> AckMade(id))
  BY DEF AckMade
<1>2. AcksOnce'
  BY DEF OnceInv, AcksOnce, AcknowledgedOnce, AckMade
<1> QED
  BY <1>1, <1>2

\* go server.AcknowledgePacket(packet, nil): only this listener holds the
\* datagram, and no handler has been started for it.
LEMMA AcceptKeepsOnce ==
    ASSUME Inv, OnceInv, NEW l \in Listener, Accept(l)
    PROVE  OnceInv'
<1> DEFINE u == NewAck(lmsg[l], "server", lclient[l])
<1>1. /\ lpc[l] = "decode" /\ lpc' = [lpc EXCEPT ![l] = lpc'[l]] /\ lpc'[l] \notin Early
      /\ received' = received /\ lmsg' = lmsg /\ handlers' = handlers /\ sent' = sent
  <2>1. lpc[l] = "decode" /\ lpc' = [lpc EXCEPT ![l] = CaseOf(Msg(l).kind)] /\ Msg(l).kind \in Types
    BY DEF Accept, Goto
  <2> QED
    BY <2>1, CaseOfType, Zenon DEF Accept, Inv, TypeOK, Early
<1>2. CASE ~Acknowledged(Msg(l))
  <2>1. acks' = acks
    BY <1>2 DEF Accept
  <2> QED
    BY <1>1, <2>1, MoveKeepsOnce
<1>3. CASE Acknowledged(Msg(l))
  <2>1. acks' = acks \cup {u} /\ u.re = lmsg[l]
    BY <1>3 DEF Accept, NewAck
  <2>2. ~AckMade(lmsg[l]) /\ \A h \in handlers : h.re # lmsg[l]
    BY <1>1 DEF OnceInv, ListenerOnce
  <2>3. ~LeftToApp(lmsg[l]) /\ \A id : LeftToApp(id)' <=> LeftToApp(id)
    BY <1>1, <1>3 DEF Acknowledged, LeftToApp, Msg
  <2>4. AcksOnce' /\ \A id : id # lmsg[l] => (AckMade(id)' <=> AckMade(id))
    BY <1>1, <2>1, <2>2, OpenKeepsAcks
  <2>5. \A m \in Listener : m # l => lpc'[m] = lpc[m] /\ (lpc[m] # "read" => lmsg[m] # lmsg[l])
    BY <1>1 DEF Inv, TypeOK, OnceInv, ListenersApart
  <2>6. ListenersApart'
    BY <1>1, <2>5 DEF OnceInv, ListenersApart
  <2>7. \A m \in Listener : ListenerOnce(m)'
    BY <1>1, <2>2, <2>3, <2>4, <2>5 DEF OnceInv, ListenerOnce, Early
  <2>8. HandlersOnce'
    BY <1>1, <2>2, <2>3, <2>4 DEF OnceInv, HandlersOnce
  <2> QED
    BY <2>4, <2>6, <2>7, <2>8 DEF OnceInv
<1> QED
  BY <1>2, <1>3

\* The listener hands the datagram over to its handlers.
LEMMA EmitKeepsOnce ==
    ASSUME Inv, OnceInv, NEW l \in Listener, Emit(l)
    PROVE  OnceInv'
<1>1. /\ lpc[l] = "emit" /\ lpc' = [lpc EXCEPT ![l] = "read"]
      /\ received' = received /\ lmsg' = lmsg /\ acks' = acks /\ sent' = sent
  BY DEF Emit, Goto
<1>2. /\ handlers \subseteq handlers'
      /\ \A h \in handlers' \ handlers :
           \E e \in {received[lmsg[l]].kind, "Packet"} : h = [event |-> e, re |-> lmsg[l], client |-> lclient[l]]
  BY DEF Emit, Msg
<1>3. \A h \in handlers' \ handlers :
        h.re = lmsg[l] /\ h.client = lclient[l] /\ h.event \in {received[h.re].kind, "Packet"}
  BY <1>2
<1>4. /\ \A h \in handlers : h.re # lmsg[l]
      /\ LeftToApp(lmsg[l]) => ~AckMade(lmsg[l])
  BY <1>1 DEF OnceInv, ListenerOnce
<1>5. \A id : (AckMade(id)' <=> AckMade(id)) /\ (LeftToApp(id)' <=> LeftToApp(id))
  BY <1>1 DEF AckMade, LeftToApp
<1>6. /\ lpc'[l] = "read"
      /\ \A m \in Listener : m # l => lpc'[m] = lpc[m] /\ (lpc[m] # "read" => lmsg[m] # lmsg[l])
  BY <1>1 DEF Inv, TypeOK, OnceInv, ListenersApart
<1>7. ListenersApart'
  BY <1>1, <1>6 DEF OnceInv, ListenersApart
<1>8. \A m \in Listener : ListenerOnce(m)'
  BY <1>1, <1>3, <1>5, <1>6 DEF OnceInv, ListenerOnce
<1>9. HandlersOnce'
  <2>1. \A h \in handlers' :
          /\ h.event \in {received[h.re].kind, "Packet"}
          /\ h.event = "Connect" /\ LeftToApp(h.re) => ~AckMade(h.re)
    BY <1>3, <1>4 DEF OnceInv, HandlersOnce
  <2>2. ASSUME NEW h \in handlers', NEW g \in handlers', h.re = g.re, h.event = g.event
        PROVE  h = g
    <3>1. CASE h \in handlers /\ g \in handlers
      BY <2>2, <3>1 DEF OnceInv, HandlersOnce
    <3>2. CASE h \notin handlers /\ g \notin handlers
      BY <1>2, <2>2, <3>2
    <3> QED
      BY <1>3, <1>4, <2>2, <3>1, <3>2
  <2> QED
    BY <1>1, <1>5, <2>1, <2>2 DEF HandlersOnce
<1>10. AcksOnce'
  BY <1>1 DEF OnceInv, AcksOnce, AcknowledgedOnce
<1> QED
  BY <1>7, <1>8, <1>9, <1>10 DEF OnceInv

\* The call ends with its packet written.
LEMMA AckSendKeepsOnce ==
    ASSUME Inv, OnceInv, NEW t \in acks, AckSend(t)
    PROVE  OnceInv'
<1> DEFINE p == AckPacket(t)
<1>1. /\ acks' = acks \ {t} /\ sent' = sent \cup {p}
      /\ received' = received /\ local' = local /\ handlers' = handlers
  BY DEF AckSend
<1>2. p.re = t.re /\ IsAckPacket(p)
  BY DEF AckPacket, IsAckPacket, AckFlag
<1>3. \A id : (AckMade(id)' <=> AckMade(id)) /\ (LeftToApp(id)' <=> LeftToApp(id))
  BY <1>1, <1>2 DEF AckMade, LeftToApp
<1>4. ListenersApart'
  BY <1>1 DEF OnceInv, ListenersApart, local
<1>5. \A m \in Listener : ListenerOnce(m)'
  BY <1>1, <1>3 DEF OnceInv, ListenerOnce, local
<1>6. HandlersOnce'
  BY <1>1, <1>3 DEF OnceInv, HandlersOnce
<1>7. AcksOnce'
  BY <1>1, <1>2 DEF OnceInv, AcksOnce, AcknowledgedOnce
<1> QED
  BY <1>4, <1>5, <1>6, <1>7 DEF OnceInv

\* The one Connect handler of a datagram that is left to the application.
LEMMA HandlerKeepsOnce ==
    ASSUME Inv, OnceInv, NEW h \in handlers, RunHandler(h)
    PROVE  OnceInv'
<1>1. received' = received /\ local' = local /\ handlers' = handlers \ {h} /\ sent' = sent
  BY DEF RunHandler, HandlerReturns, HandlerKicks, HandlerAcknowledges
<1>2. ListenersApart'
  BY <1>1 DEF OnceInv, ListenersApart, local
<1>3. CASE acks' = acks
  <2>1. \A id : (AckMade(id)' <=> AckMade(id)) /\ (LeftToApp(id)' <=> LeftToApp(id))
    BY <1>1, <1>3 DEF AckMade, LeftToApp
  <2>2. \A m \in Listener : ListenerOnce(m)'
    BY <1>1, <2>1 DEF OnceInv, ListenerOnce, local
  <2>3. HandlersOnce'
    BY <1>1, <2>1 DEF OnceInv, HandlersOnce
  <2>4. AcksOnce'
    BY <1>1, <1>3 DEF OnceInv, AcksOnce, AcknowledgedOnce
  <2> QED
    BY <1>2, <2>2, <2>3, <2>4 DEF OnceInv
<1>4. CASE HandlerAcknowledges(h)
  <2> DEFINE u == NewAck(h.re, "app", h.client)
  <2>1. acks' = acks \cup {u} /\ u.re = h.re /\ h.event = "Connect" /\ received[h.re].size > 0
    BY <1>4 DEF HandlerAcknowledges, NewAck
  <2>2. \A id : LeftToApp(id)' <=> LeftToApp(id)
    BY <1>1 DEF LeftToApp
  <2>3. ~AckMade(h.re)
    BY <2>1, <1>1 DEF OnceInv, HandlersOnce, LeftToApp
  <2>4. AcksOnce' /\ \A id : id # h.re => (AckMade(id)' <=> AckMade(id))
    BY <1>1, <2>1, <2>3, OpenKeepsAcks
  <2>5. \A m \in Listener : ListenerOnce(m)'
    BY <1>1, <2>2, <2>4 DEF OnceInv, ListenerOnce, local
  <2>6. HandlersOnce'
    BY <1>1, <2>1, <2>2, <2>4 DEF OnceInv, HandlersOnce
  <2> QED
    BY <1>2, <2>4, <2>5, <2>6 DEF OnceInv
<1> QED
  BY <1>3, <1>4 DEF RunHandler, HandlerReturns, HandlerKicks

LEMMA SameKeepsOnce ==
    ASSUME OnceInv, UNCHANGED <<received, local, acks, handlers, sent>>
    PROVE  OnceInv'
  BY DEF local, OnceInv, ListenersApart, ListenerOnce, HandlersOnce, AcksOnce, AcknowledgedOnce,
         AckMade, LeftToApp

LEMMA NextKeepsOnce == Inv /\ OnceInv /\ [Next]_vars => OnceInv'
<1> SUFFICES ASSUME Inv, OnceInv, [Next]_vars
             PROVE  OnceInv'
  OBVIOUS
<1>1. ASSUME NEW l \in Listener, Handle(l)
      PROVE  OnceInv'
  <2>1. CASE \/ Lookup(l) \/ Create(l) \/ Fetch(l) \/ Refuse(l) \/ Connect(l) \/ Disconnect(l)
             \/ ResetServerSignature(l) \/ ResetClientSignature(l) \/ Ping(l)
    <3>1. /\ lpc[l] # "read" /\ lpc' = [lpc EXCEPT ![l] = lpc'[l]]
          /\ lpc'[l] \in Early => lpc[l] \in Early
          /\ received' = received /\ lmsg' = lmsg /\ acks' = acks /\ handlers' = handlers
      BY <2>1, Zenon DEF Lookup, Create, Fetch, Refuse, ResetServerSignature, ResetClientSignature,
                  Connect, Disconnect, Ping, Goto, Early, Inv, TypeOK
    <3>2. \A p : IsAckPacket(p) => (p \in sent' <=> p \in sent)
      BY <2>1, SMTT(30) DEF Lookup, Create, Fetch, Refuse, ResetServerSignature, ResetClientSignature,
                  Connect, Disconnect, Ping, IsAckPacket
    <3> QED
      BY <3>1, <3>2, MoveKeepsOnce, Zenon
  <2>2. CASE NilSender(l)
    BY <2>2, SameKeepsOnce DEF NilSender
  <2> QED
    BY <1>1, <2>1, <2>2, AcceptKeepsOnce, EmitKeepsOnce DEF Handle
<1>2. ASSUME NEW t \in acks, AckStep(t)
      PROVE  OnceInv'
  <2>1. CASE AckStart(t) \/ AckSign(t)
    BY <2>1, AckKeepsDatagram, AckMoveKeepsOnce, Zenon DEF AckStart, AckSign
  <2> QED
    BY <1>2, <2>1, AckSendKeepsOnce DEF AckStep
<1>3. CASE ConcurrentMapFault
  BY <1>3, SameKeepsOnce DEF ConcurrentMapFault
<1>4. CASE UNCHANGED vars
  BY <1>4, SameKeepsOnce DEF vars
<1> QED
  BY <1>1, <1>2, <1>3, <1>4, ReadKeepsOnce, HandlerKeepsOnce DEF Next, Stopped

\* At every moment at most one goroutine may still acknowledge a datagram.
THEOREM OnceInvariance == Spec => []OnceInv
  BY InitOnce, NextKeepsOnce, Invariance, PTL DEF Spec

\* handleSocketMessage and the Connect handler of the application both call
\* AcknowledgePacket; still no datagram is acknowledged twice, however many
\* listeners there are.
THEOREM OneAcknowledgement == Spec => []AcknowledgedOnce
<1>1. OnceInv => AcknowledgedOnce
  BY DEF OnceInv, AcksOnce
<1> QED
  BY <1>1, OnceInvariance, PTL
-----------------------------------------------------------------------------
(***************************************************************************)
(* The refinement: Read receives, Accept and the handler's call open,      *)
(* AckSend pays, a crash goes down, and every other step stutters.         *)
(***************************************************************************)
LEMMA ReadIsReceive ==
    ASSUME Inv, NEW l \in Listener, Read(l)
    PROVE  Ledger!Receive
<1>1. PICK d \in Datagram : received' = Append(received, d)
  BY DEF Read
<1> DEFINE e == [addr |-> d.addr, answerable |-> MayBeAnswered(d)]
<1>2. received \in Seq(Datagram) /\ Len(received) \in Nat
  BY DEF Inv, TypeOK
<1>3. d.addr \in Addr /\ MayBeAnswered(d) \in BOOLEAN
  BY Datagrams DEF MayBeAnswered
<1>4. Sources' = Append(Sources, e)
  <2>1. DOMAIN received = 1 .. Len(received) /\ DOMAIN received' = 1 .. Len(received) + 1
    BY <1>1, <1>2
  <2>2. /\ Sources = [i \in 1 .. Len(received) |->
                        [addr |-> received[i].addr, answerable |-> MayBeAnswered(received[i])]]
        /\ Sources' = [i \in 1 .. Len(received) + 1 |->
                        [addr |-> received'[i].addr, answerable |-> MayBeAnswered(received'[i])]]
    BY <2>1 DEF Sources
  <2>3. Sources \in Seq([addr : Addr, answerable : BOOLEAN])
    BY <1>2, <2>2, Datagrams DEF MayBeAnswered
  <2>4. Len(Sources) = Len(received)
    BY <1>2, <2>2, <2>3
  <2> QED
    BY <1>1, <1>2, <2>2, <2>3, <2>4
<1> QED
  BY <1>3, <1>4 DEF Ledger!Receive, Read, Goto, Running, Written

\* A step that adds no datagram leaves the ledger's account of them alone.
LEMMA SameLedger ==
    ASSUME UNCHANGED <<received, crashed>>, Running' = Running,
           \A p : IsAckPacket(p) => (p \in sent' <=> p \in sent)
    PROVE  UNCHANGED Ledger!ledger
<1>1. Sources' = Sources
  BY DEF Sources
<1>2. Written' = Written
  BY DEF Written
<1> QED
  BY <1>1, <1>2 DEF Ledger!ledger

\* AcknowledgePacket is called for a datagram that is neither open nor paid.
LEMMA StartIsOpen ==
    ASSUME Inv, NEW u, u.re \in Numbers, Decoded(u.re), ~AckMade(u.re), ~crashed,
           acks' = acks \cup {u}, UNCHANGED <<received, sent, crashed>>
    PROVE  Ledger!Open
<1>1. u.re \in DOMAIN Sources /\ Sources[u.re].answerable
  <2>1. u.re \in DOMAIN received /\ DOMAIN Sources = DOMAIN received
    BY DEF Inv, TypeOK, Numbers, Sources
  <2>2. Sources[u.re] = [addr |-> received[u.re].addr, answerable |-> MayBeAnswered(received[u.re])]
    BY <2>1 DEF Sources
  <2>3. MayBeAnswered(received[u.re]) = TRUE
    BY DEF Decoded, MayBeAnswered
  <2> QED
    BY <2>1, <2>2, <2>3
<1>2. u.re \notin Running /\ u.re \notin {w.re : w \in Written}
  BY DEF AckMade, Running, Written
<1>3. Running' = Running \cup {u.re}
  BY DEF Running
<1>4. Sources' = Sources /\ Written' = Written
  BY DEF Sources, Written
<1> QED
  BY <1>1, <1>2, <1>3, <1>4 DEF Ledger!Open

LEMMA AcceptIsOpen ==
    ASSUME Inv, OnceInv, NEW l \in Listener, Accept(l)
    PROVE  Ledger!Open \/ UNCHANGED Ledger!ledger
<1>1. CASE Acknowledged(Msg(l))
  <2> DEFINE u == NewAck(lmsg[l], "server", lclient[l])
  <2>1. acks' = acks \cup {u} /\ u.re = lmsg[l]
    BY <1>1, Zenon DEF Accept, NewAck
  <2>2. lmsg[l] \in Numbers /\ Decoded(lmsg[l]) /\ ~AckMade(lmsg[l])
    BY Zenon DEF Accept, Inv, ListenerInv, ListenerOK, Decoded, Msg, OnceInv, ListenerOnce
  <2> QED
    BY <2>1, <2>2, StartIsOpen, SMTT(30) DEF Accept, Goto
<1>2. CASE ~Acknowledged(Msg(l))
  <2>1. acks' = acks
    BY <1>2 DEF Accept
  <2> QED
    BY <2>1, SameLedger DEF Accept, Running
<1> QED
  BY <1>1, <1>2, SMTT(30)

LEMMA AckSendIsPay ==
    ASSUME Inv, OnceInv, NEW t \in acks, AckSend(t)
    PROVE  Ledger!Pay
<1> DEFINE p == AckPacket(t)
<1>1. acks' = acks \ {t} /\ sent' = sent \cup {p} /\ received' = received /\ crashed' = crashed /\ ~crashed
  BY Zenon DEF AckSend
<1>2. p.re = t.re /\ IsAckPacket(p) /\ p.to = received[t.re].addr /\ t.re \in DOMAIN received
  BY DEF AckPacket, IsAckPacket, AckFlag, Inv, TypeOK, AckInv, Serves, Numbers
<1>3. t.re \in Running /\ Running' = Running \ {t.re}
  BY <1>1, Zenon DEF Running, OnceInv, AcksOnce
<1>4. Written' = Written \cup {[re |-> t.re, to |-> Sources[t.re].addr]}
  BY <1>1, <1>2 DEF Written, Sources
<1>5. Sources' = Sources
  BY <1>1 DEF Sources
<1> QED
  BY <1>1, <1>3, <1>4, <1>5 DEF Ledger!Pay

LEMMA HandlerIsOpen ==
    ASSUME Inv, OnceInv, NEW h \in handlers, RunHandler(h)
    PROVE  Ledger!Open \/ UNCHANGED Ledger!ledger
<1>1. CASE acks' = acks
  BY <1>1, SameLedger DEF Running, RunHandler, HandlerReturns, HandlerKicks, HandlerAcknowledges
<1>2. CASE HandlerAcknowledges(h)
  <2> DEFINE u == NewAck(h.re, "app", h.client)
  <2>1. acks' = acks \cup {u} /\ u.re = h.re
    BY <1>2 DEF HandlerAcknowledges, NewAck
  <2>2. h.re \in Numbers /\ Decoded(h.re)
    BY DEF Inv, HandlerInv, Serves
  <2>3. ~AckMade(h.re)
    BY <1>2 DEF HandlerAcknowledges, OnceInv, HandlersOnce, LeftToApp
  <2> QED
    BY <1>2, <2>1, <2>2, <2>3, StartIsOpen DEF HandlerAcknowledges
<1> QED
  BY <1>1, <1>2 DEF RunHandler, HandlerReturns, HandlerKicks

LEMMA InitIsLedgerInit == Init => Ledger!Init
<1> SUFFICES ASSUME Init
             PROVE  Ledger!Init
  OBVIOUS
<1>1. Sources = <<>>
  BY DEF Init, Sources
<1>2. Running = {} /\ Written = {}
  BY DEF Init, Running, Written
<1> QED
  BY <1>1, <1>2 DEF Init, Ledger!Init

LEMMA NextIsLedgerNext == Inv /\ OnceInv /\ [Next]_vars => [Ledger!Next]_(Ledger!ledger)
<1> SUFFICES ASSUME Inv, OnceInv, [Next]_vars
             PROVE  Ledger!Next \/ UNCHANGED Ledger!ledger
  OBVIOUS
<1>1. ASSUME NEW l \in Listener, Handle(l)
      PROVE  Ledger!Next \/ UNCHANGED Ledger!ledger
  <2>1. CASE NilSender(l)
    BY <2>1, Zenon DEF NilSender, Ledger!Next, Ledger!GoDown, Sources, Running, Written
  <2>2. CASE Accept(l)
    BY <2>2, AcceptIsOpen DEF Ledger!Next
  <2>3. CASE ~NilSender(l) /\ ~Accept(l)
    <3>1. UNCHANGED <<received, crashed, acks>>
      BY <1>1, <2>3, Zenon DEF Handle, Lookup, Create, Fetch, Refuse, ResetServerSignature,
         ResetClientSignature, Connect, Disconnect, Ping, Emit
    <3>2. \A p : IsAckPacket(p) => (p \in sent' <=> p \in sent)
      <4>1. ~Ping(l) => sent' = sent
        BY <1>1, <2>3, Zenon DEF Handle, Lookup, Create, Fetch, Refuse, ResetServerSignature,
           ResetClientSignature, Connect, Disconnect, Emit
      <4> DEFINE ping == [to |-> Address(lclient[l]), type |-> "Ping", flag |-> "NeedsAck",
                          re |-> lmsg[l], by |-> "server",
                          sign |-> Signature("Ping", lclient[l]), conn |-> NoSig]
      <4>2. (Ping(l) => sent' = sent \cup {ping}) /\ ping.flag = "NeedsAck"
        BY Zenon DEF Ping
      <4> HIDE DEF ping
      <4>3. \A p : p.flag = "NeedsAck" => ~IsAckPacket(p)
        BY DEF IsAckPacket
      <4> QED
        BY <4>1, <4>2, <4>3, Zenon
    <3> QED
      BY <3>1, <3>2, SameLedger DEF Running
  <2> QED
    BY <2>1, <2>2, <2>3, SMTT(30)
<1>2. ASSUME NEW t \in acks, AckStep(t)
      PROVE  Ledger!Next \/ UNCHANGED Ledger!ledger
  <2>1. CASE AckSend(t)
    BY <2>1, AckSendIsPay DEF Ledger!Next
  <2>2. CASE AckStart(t) \/ AckSign(t)
    <3>1. Running' = Running
      BY <2>2, AckKeepsDatagram DEF Running
    <3> QED
      BY <2>2, <3>1, SameLedger, SMTT(30) DEF AckStart, AckSign
  <2> QED
    BY <1>2, <2>1, <2>2 DEF AckStep
<1>3. CASE ConcurrentMapFault
  BY <1>3 DEF ConcurrentMapFault, Ledger!Next, Ledger!GoDown, Sources, Running, Written
<1>4. CASE UNCHANGED vars
  BY <1>4, SameLedger DEF vars, Running
<1> QED
  BY <1>1, <1>2, <1>3, <1>4, ReadIsReceive, HandlerIsOpen DEF Next, Stopped, Ledger!Next

\* The server implements the ledger: per datagram AcknowledgePacket is called
\* at most once, a call that was started is never lost, and it is paid to the
\* source of the datagram, whatever the goroutines do to the table meanwhile.
THEOREM ServerImplementsLedger == Spec => AcksImplementLedger
  BY InitIsLedgerInit, NextIsLedgerNext, Invariance, OnceInvariance, PTL
  DEF Spec, AcksImplementLedger, Ledger!Spec
-----------------------------------------------------------------------------
\* Kick goes by the address of a client object a goroutine has kept; since the
\* object is one of the source of the goroutine's packet, no peer loses its
\* entry to the packets of another one.
THEOREM KicksOnlyOwn == Spec => OnlyOwnKick
<1> DEFINE Own ==
      \A a \in Addr :
          clients[a] # NoClient /\ clients'[a] = NoClient =>
              \/ \E l \in Listener : lpc[l] = "kick" /\ lpc'[l] # "kick" /\ Msg(l).addr = a
              \/ \E h \in handlers \ handlers' : received[h.re].addr = a
<1>1. ASSUME Inv, [Next]_vars
      PROVE  [Own]_clients
  <2> SUFFICES ASSUME NEW a \in Addr, clients[a] # NoClient, clients'[a] = NoClient
               PROVE  \/ \E l \in Listener : lpc[l] = "kick" /\ lpc'[l] # "kick" /\ Msg(l).addr = a
                      \/ \E h \in handlers \ handlers' : received[h.re].addr = a
    OBVIOUS
  <2>1. ASSUME NEW l \in Listener, Create(l)
        PROVE  FALSE
    <3>1. lmsg[l] \in Numbers /\ Msg(l).addr \in Addr
      BY <1>1, <2>1, NumbersAreReceipts DEF Create, Goto, Inv, ListenerInv, ListenerOK, Msg
    <3> QED
      BY <1>1, <2>1, <3>1, SMTT(30) DEF Create, Discriminator, Inv, TypeOK, Numbers, NoClient
  <2>2. ASSUME NEW l \in Listener, Disconnect(l)
        PROVE  lpc[l] = "kick" /\ lpc'[l] # "kick" /\ Msg(l).addr = a
    <3>1. lpc[l] = "kick" /\ lpc'[l] = "emit" /\ Address(lclient[l]) = Msg(l).addr
      BY <1>1, <2>2, Zenon DEF Disconnect, Goto, Inv, TypeOK, ListenerInv, ListenerOK, Serves, Msg
    <3> QED
      BY <1>1, <2>2, <3>1 DEF Disconnect, KickClient, Inv, TypeOK
  <2>3. ASSUME NEW h \in handlers, HandlerKicks(h)
        PROVE  h \in handlers \ handlers' /\ received[h.re].addr = a
    <3>1. Address(h.client) = received[h.re].addr
      BY <1>1 DEF Inv, HandlerInv, Serves
    <3> QED
      BY <1>1, <2>3, <3>1 DEF HandlerKicks, KickClient, Inv, TypeOK
  <2> QED
    BY <1>1, <2>1, <2>2, <2>3, Zenon DEF Next, vars, Handle, Read, Lookup, Fetch, Refuse, NilSender, Accept,
       ResetServerSignature, ResetClientSignature, Connect, Ping, Emit, AckStep, AckStart, AckSign,
       AckSend, RunHandler, HandlerReturns, HandlerAcknowledges, ConcurrentMapFault, Stopped
<1> QED
  BY <1>1, Invariance, PTL DEF Spec, OnlyOwnKick
=============================================================================
