---------------------------- MODULE Fragmentation ----------------------------
(***************************************************************************)
(* One call of Server.Send: the loop that cuts the payload of a packet     *)
(* into fragments.  Data is represented by its length; what a fragment     *)
(* contains is the next FragmentSize bytes of what is left.                *)
(***************************************************************************)
EXTENDS SendLoop, Sequences

CONSTANT Lengths    \* the payload lengths Send is called with

ASSUME LengthsAssumption == Lengths \subseteq Nat

VARIABLES
    payload,    \* len(packet.Payload()) when Send is called
    data,       \* len(data), what is left to send
    fragments, i, fragmentID,   \* as in the code
    written,    \* ghost: bytes handed to SendFragment so far
    last,       \* ghost: the fragment sent last, [id, size]
    pc

vars == <<payload, data, fragments, i, fragmentID, written, last, pc>>

NoFragment == [id |-> -1, size |-> 0]

TypeOK ==
    /\ payload \in Lengths /\ data \in Nat /\ written \in Nat
    /\ fragments \in Int /\ i \in Nat /\ fragmentID \in Nat
    /\ last \in [id : Int, size : Nat]
    /\ pc \in {"call", "loop", "done"}

Init ==
    /\ payload \in Lengths
    /\ data = payload
    /\ fragments = 0 /\ i = 0 /\ fragmentID = 1
    /\ written = 0
    /\ last = NoFragment
    /\ pc = "call"

Call ==
    /\ pc = "call" /\ pc' = "loop"
    /\ fragments' = Fragments(data)
    /\ UNCHANGED <<payload, data, i, fragmentID, written, last>>

\* SendFragment(packet, id) does not use its second parameter, so that the number
\* is known to Send alone.
SendFragment(id, size) ==
    /\ written' = written + size
    /\ last' = [id |-> id, size |-> size]

\* A slip: the data is not advanced.
SendWholeAgain ==
    /\ pc = "loop" /\ i <= fragments /\ ~IsShort(data)
    /\ SendFragment(fragmentID, FragmentSize)
    /\ fragmentID' = fragmentID + 1
    /\ i' = i + 1
    /\ UNCHANGED <<payload, data, fragments, pc>>

SendWhole ==
    /\ pc = "loop" /\ i <= fragments /\ ~IsShort(data)
    /\ SendFragment(fragmentID, FragmentSize)
    /\ data' = data - FragmentSize
    /\ fragmentID' = fragmentID + 1
    /\ i' = i + 1
    /\ UNCHANGED <<payload, fragments, pc>>

\* The last branch does not shorten data.
SendShort ==
    /\ pc = "loop" /\ i <= fragments /\ IsShort(data)
    /\ SendFragment(0, data)
    /\ i' = i + 1
    /\ UNCHANGED <<payload, data, fragments, fragmentID, pc>>

Return ==
    /\ pc = "loop" /\ i > fragments
    /\ pc' = "done"
    /\ UNCHANGED <<payload, data, fragments, i, fragmentID, written, last>>

Done == pc = "done" /\ UNCHANGED vars

Next == Call \/ SendWhole \/ SendShort \/ Return \/ Done

Spec == Init /\ [][Next]_vars

-----------------------------------------------------------------------------
\* The payloads whose length int16(len(data)) keeps.
Fits == payload <= 32767

\* Send writes data to client: when it returns, every byte of the payload has
\* been handed to SendFragment.
SendWritesData == pc = "done" => written = payload

\* Send does write all data of a payload whose length fits an int16.
SendWritesAll == Fits => SendWritesData

\* Of such a payload no fragment is longer than the fragment size, and the last
\* one, the only one for which Send passes the number 0, is shorter, whole
\* multiples of the fragment size included.  The size is what tells the end of the
\* payload on the wire: SendFragment does not put the number into the packet.
FragmentsFit ==
    Fits => /\ last.size <= FragmentSize
            /\ last.id >= 0 => (last.id = 0 <=> last.size < FragmentSize)
            /\ pc = "done" => last.id = 0
            /\ last.id = 0 => i > fragments

\* No byte is sent twice, whatever the length.
NothingTwice == written <= payload
=============================================================================
