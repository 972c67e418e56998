------------------------------ MODULE MCServer ------------------------------
(***************************************************************************)
(* Constant values for checking Server with TLC.                           *)
(***************************************************************************)
EXTENDS ServerLedger, TLC

CONSTANTS a1, a2

Datagrams(addrs, kinds, flags, sizes) ==
    {[addr |-> a, kind |-> k, flags |-> f, size |-> s, sig |-> [owner |-> a, n |-> 0]] :
        a \in addrs, k \in kinds, f \in flags, s \in sizes}

\* Every packet type from one peer, with and without a payload, what changes the
\* table from another; answers from the peer and datagrams that do not decode.
AllDatagrams ==
    Datagrams({a1}, Types \ {"Connect"}, {{"NeedsAck"}}, {0})
        \cup Datagrams({a1}, {"Connect"}, {{"NeedsAck"}}, {0, 1})
        \cup Datagrams({a1}, {"Data"}, {{"MultiAck"}, {"Ack", "NeedsAck"}, {}}, {0})
        \cup Datagrams({a2}, {"Syn", "Connect", "Disconnect"}, {{"NeedsAck"}}, {0})
        \cup Datagrams({a2}, {"Short", "Bad"}, {{}}, {0})

\* One peer opens and closes its connection in any order while another connects.
Racing ==
    Datagrams({a1}, {"Syn", "Disconnect", "Ping"}, {{"NeedsAck"}}, {0})
        \cup Datagrams({a1}, {"Connect"}, {{"NeedsAck"}}, {0, 1})
        \cup Datagrams({a1}, {"Data"}, {{}}, {0})
        \cup Datagrams({a2}, {"Connect", "Disconnect"}, {{"NeedsAck"}}, {0})

\* One peer that opens and closes its connection.
OnePeer == Datagrams({a1}, {"Syn", "Connect", "Data", "Disconnect"}, {{"NeedsAck"}}, {0})
=============================================================================
