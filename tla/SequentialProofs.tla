-------------------------- MODULE SequentialProofs --------------------------
(***************************************************************************)
(* The server with one listener (Listen starts runtime.NumCPU() of them,   *)
(* so on a machine with one CPU) and handlers that do not kick: the        *)
(* unlocked table is then used by one goroutine at a time, for any number  *)
(* of peers and datagrams.                                                 *)
(***************************************************************************)
EXTENDS ServerProofs

OneGoroutine == (\A l, m \in Listener : l = m) /\ "Kick" \notin AppCalls

(***************************************************************************)
(* Between the lookup and the fetch nobody else changes the entry: what    *)
(* Lookup found is still so when Create or Fetch relies on it.             *)
(***************************************************************************)
EntryOK(l) ==
    /\ lpc[l] = "create" => clients[Msg(l).addr] = NoClient
    /\ lpc[l] = "fetch" => clients[Msg(l).addr] # NoClient

SequentialInv == ~crashed /\ SenderIsStored /\ \A l \in Listener : EntryOK(l)

LEMMA InitSequential == Init => SequentialInv
  BY DEF Init, SequentialInv, SenderIsStored, EntryOK

\* Whether a step of the only listener keeps the invariant depends on this
\* listener alone.
LEMMA OnlyListener ==
    ASSUME OneGoroutine, NEW l \in Listener, ~crashed',
           EntryOK(l)',
           lpc'[l] \in {"decode", "resetServerSig", "resetClientSig", "connect", "kick", "ping"} =>
               lclient'[l] # NoClient /\ clients'[Msg(l)'.addr] = lclient'[l]
    PROVE  SequentialInv'
  BY DEF OneGoroutine, SequentialInv, SenderIsStored

LEMMA TableKeepsSequential ==
    ASSUME Inv, SequentialInv, OneGoroutine, NEW l \in Listener,
           Lookup(l) \/ Create(l) \/ Fetch(l)
    PROVE  SequentialInv'
<1>1. lmsg[l] \in Numbers /\ Msg(l).addr \in Addr /\ Msg(l)' = Msg(l)
  BY NumbersAreReceipts
  DEF Lookup, Create, Fetch, Goto, Inv, ListenerInv, ListenerOK, Msg
<1>2. CASE Lookup(l)
  BY <1>1, <1>2, OnlyListener, Zenon
  DEF Lookup, Goto, Discriminator, Inv, TypeOK, SequentialInv, EntryOK
<1>3. CASE Create(l)
  <2>1. lpc'[l] = "fetch" /\ clients'[Msg(l).addr] = lmsg[l] /\ lmsg[l] # NoClient
    BY <1>1, <1>3 DEF Create, Goto, Discriminator, Inv, TypeOK, Numbers, NoClient
  <2> QED
    BY <1>1, <1>3, <2>1, OnlyListener DEF Create, Goto, EntryOK
<1>4. CASE Fetch(l)
  <2>1. /\ lpc'[l] = "decode" /\ lclient'[l] = clients[Msg(l).addr] /\ clients' = clients
        /\ clients[Msg(l).addr] # NoClient
    BY <1>4 DEF Fetch, Goto, Discriminator, Inv, TypeOK, SequentialInv, EntryOK
  <2> QED
    BY <1>1, <1>4, <2>1, OnlyListener DEF Fetch, Goto, EntryOK
<1> QED
  BY <1>2, <1>3, <1>4

LEMMA CaseKeepsSequential ==
    ASSUME Inv, SequentialInv, OneGoroutine, NEW l \in Listener,
           \/ Read(l) \/ Refuse(l) \/ Accept(l) \/ Emit(l) \/ Ping(l) \/ Connect(l) \/ Disconnect(l)
           \/ ResetServerSignature(l) \/ ResetClientSignature(l)
    PROVE  SequentialInv'
<1>1. CASE Read(l) \/ Refuse(l) \/ Emit(l) \/ Ping(l) \/ Connect(l) \/ Disconnect(l)
           \/ ResetClientSignature(l)
  <2>1. lpc'[l] \in {"read", "lookup", "emit"} /\ ~crashed'
    <3>1. DOMAIN lpc = Listener
      BY DEF Inv, TypeOK
    <3>2. \/ lpc' = [lpc EXCEPT ![l] = "read"] \/ lpc' = [lpc EXCEPT ![l] = "lookup"]
          \/ lpc' = [lpc EXCEPT ![l] = "emit"]
      BY <1>1, Zenon DEF Read, Refuse, Emit, Ping, Connect, Disconnect, ResetClientSignature, Goto
    <3>3. ~crashed'
      BY <1>1, Zenon DEF Read, Refuse, Emit, Ping, Connect, Disconnect, ResetClientSignature, Goto
    <3> QED
      BY <3>1, <3>2, <3>3
  <2> QED
    BY <2>1, OnlyListener DEF EntryOK
<1>2. CASE ResetServerSignature(l) \/ Accept(l)
  <2>1. /\ lpc[l] \in {"decode", "resetServerSig"} /\ ~crashed'
        /\ UNCHANGED <<received, clients, lmsg, lclient>>
    BY <1>2 DEF ResetServerSignature, Accept, Goto
  <2>2. lpc'[l] \in {"resetServerSig", "resetClientSig", "connect", "emit", "kick", "ping"}
    BY <1>2, CaseOfType DEF ResetServerSignature, Accept, Goto, Inv, TypeOK
  <2> QED
    BY <2>1, <2>2, OnlyListener DEF SequentialInv, SenderIsStored, EntryOK, Msg
<1> QED
  BY <1>1, <1>2

\* Neither a nil sender nor the runtime's check of the map ends the process.
LEMMA NothingCrashes ==
    ASSUME SequentialInv, OneGoroutine
    PROVE  ~ConcurrentMapFault /\ \A l \in Listener : ~NilSender(l)
<1>1. \A l \in Listener : ~NilSender(l)
  BY DEF SequentialInv, SenderIsStored, NilSender
<1>2. ~ConcurrentMapFault
  BY DEF OneGoroutine, ConcurrentMapFault, HandlerWrites
<1> QED
  BY <1>1, <1>2

LEMMA SameKeepsSequential ==
    ASSUME SequentialInv, UNCHANGED <<received, clients, local, crashed>>
    PROVE  SequentialInv'
  BY DEF local, SequentialInv, SenderIsStored, EntryOK, Msg

LEMMA NextKeepsSequential ==
    ASSUME Inv, SequentialInv, OneGoroutine, [Next]_vars
    PROVE  SequentialInv'
<1>1. ASSUME NEW l \in Listener, Read(l) \/ Handle(l)
      PROVE  SequentialInv'
  BY <1>1, NothingCrashes, TableKeepsSequential, CaseKeepsSequential DEF Handle
<1>2. ASSUME NEW t \in acks, AckStep(t)
      PROVE  SequentialInv'
  BY <1>2, SameKeepsSequential DEF AckStep, AckStart, AckSign, AckSend
<1>3. ASSUME NEW h \in handlers, RunHandler(h)
      PROVE  SequentialInv'
  BY <1>3, SameKeepsSequential
  DEF OneGoroutine, RunHandler, HandlerReturns, HandlerKicks, HandlerAcknowledges
<1>4. CASE UNCHANGED vars
  BY <1>4, SameKeepsSequential DEF vars
<1> QED
  BY <1>1, <1>2, <1>3, <1>4, NothingCrashes DEF Next, Stopped

\* With one listener and no kicks from handlers, what Lookup found of an entry
\* still holds when it is used.
THEOREM SequentialInvariance ==
    ASSUME OneGoroutine
    PROVE  Spec => []SequentialInv
<1>1. Inv /\ SequentialInv /\ [Next]_vars => SequentialInv'
  BY NextKeepsSequential
<1> QED
  BY <1>1, InitSequential, Invariance, PTL DEF Spec

\* While handleSocketMessage works on a packet, packet.Sender() is the client
\* the table holds for the source of the datagram.
THEOREM SenderStored ==
    ASSUME OneGoroutine
    PROVE  Spec => []SenderIsStored
<1>1. SequentialInv => SenderIsStored
  BY DEF SequentialInv
<1> QED
  BY <1>1, SequentialInvariance, PTL

\* A client in the table is not replaced by a second one for the same address.
THEOREM TableIsStable ==
    ASSUME OneGoroutine
    PROVE  Spec => TableStable
<1> DEFINE Stable == \A a \in Addr : clients[a] # NoClient /\ clients'[a] # NoClient => clients'[a] = clients[a]
<1>1. ASSUME Inv, SequentialInv, [Next]_vars
      PROVE  [Stable]_clients
  <2>1. ASSUME NEW l \in Listener, Create(l)
        PROVE  Stable
    <3>1. clients[Msg(l).addr] = NoClient
      BY <1>1, <2>1 DEF SequentialInv, EntryOK, Create, Goto
    <3> QED
      BY <1>1, <2>1, <3>1 DEF Create, Discriminator, Inv, TypeOK
  <2>2. ASSUME NEW c, KickClient(c)
        PROVE  Stable
    BY <1>1, <2>2 DEF KickClient, Inv, TypeOK
  <2> QED
    BY <1>1, <2>1, <2>2, Zenon DEF Next, vars, Handle, Read, Lookup, Fetch, Refuse, NilSender, Accept,
       ResetServerSignature, ResetClientSignature, Connect, Disconnect, Ping, Emit, AckStep, AckStart,
       AckSign, AckSend, RunHandler, HandlerReturns, HandlerKicks, HandlerAcknowledges,
       ConcurrentMapFault, Stopped
<1> QED
  BY <1>1, Invariance, SequentialInvariance, PTL DEF Spec, TableStable
=============================================================================
