---------------------------- MODULE ServerLedger ----------------------------
(***************************************************************************)
(* Server implements AckLedger: a running AcknowledgePacket call is an     *)
(* open entry, the acknowledgement it writes the payment.                  *)
(***************************************************************************)
EXTENDS Server

MayBeAnswered(d) == d.kind \in Types /\ ~IsAck(d)

\* The datagrams read, the running AcknowledgePacket calls and the
\* acknowledgements written, as the ledger sees them.
Sources == [i \in DOMAIN received |->
               [addr |-> received[i].addr, answerable |-> MayBeAnswered(received[i])]]
Running == {t.re : t \in acks}
Written == {[re |-> p.re, to |-> p.to] : p \in {q \in sent : IsAckPacket(q)}}

Ledger == INSTANCE AckLedger WITH
    source <- Sources, open <- Running, paid <- Written, down <- crashed

\* Whatever the listeners, acknowledgement goroutines and application handlers
\* do, and however the table changes under them, AcknowledgePacket is called at
\* most once per datagram and every call that was started is either still
\* running or has been written to the source of that datagram.
AcksImplementLedger == Ledger!Spec

\* Kick goes by address from goroutines that may hold a replaced client: still,
\* an entry of server.clients disappears only through a Disconnect of that
\* address or through a handler for a packet of that address.
OnlyOwnKick ==
    [][\A a \in Addr :
          clients[a] # NoClient /\ clients'[a] = NoClient =>
              \/ \E l \in Listener : lpc[l] = "kick" /\ lpc'[l] # "kick" /\ Msg(l).addr = a
              \/ \E h \in handlers \ handlers' : received[h.re].addr = a]_clients
=============================================================================
