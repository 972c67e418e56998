------------------------------ MODULE AckLedger ------------------------------
(***************************************************************************)
(* What AcknowledgePacket promises a peer, without goroutines, clients or  *)
(* signatures: a ledger of the datagrams read and of the acknowledgements  *)
(* owed and paid for them.  An answer is opened at most once per datagram, *)
(* only for a packet that was decoded and is no acknowledgement itself; an *)
(* opened answer is never dropped; it is paid once, to the source of the   *)
(* datagram; and nothing is read, opened or paid once the process is down. *)
(***************************************************************************)
EXTENDS Naturals, Sequences

CONSTANTS
    Addr        \* where datagrams come from

VARIABLES
    source,     \* per datagram read: its source, and whether it may be answered
    open,       \* the datagrams whose acknowledgement is being made
    paid,       \* the acknowledgements written, with their destination
    down        \* the process is gone

ledger == <<source, open, paid, down>>

Init == source = <<>> /\ open = {} /\ paid = {} /\ down = FALSE

Receive ==
    /\ ~down
    /\ \E a \in Addr, b \in BOOLEAN : source' = Append(source, [addr |-> a, answerable |-> b])
    /\ UNCHANGED <<open, paid, down>>

Open ==
    /\ ~down
    /\ \E id \in DOMAIN source \ (open \cup {p.re : p \in paid}) :
            source[id].answerable /\ open' = open \cup {id}
    /\ UNCHANGED <<source, paid, down>>

Pay ==
    /\ ~down
    /\ \E id \in open :
            /\ open' = open \ {id}
            /\ paid' = paid \cup {[re |-> id, to |-> source[id].addr]}
    /\ UNCHANGED <<source, down>>

GoDown == ~down /\ down' = TRUE /\ UNCHANGED <<source, open, paid>>

Next == Receive \/ Open \/ Pay \/ GoDown

Spec == Init /\ [][Next]_ledger
=============================================================================
