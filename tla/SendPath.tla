------------------------------ MODULE SendPath ------------------------------
(***************************************************************************)
(* Outgoing Data and Ping packets of one client.  Server.Send cuts the     *)
(* payload; SendFragment takes the next number from the client's counter;  *)
(* Bytes encrypts Data with the client's RC4 stream; SendRaw writes.       *)
(* Client.Reset puts a new counter and a new stream in their places.       *)
(* Neither is locked: event handlers run in goroutines of their own and    *)
(* the listeners send pings and reset clients, so that several goroutines  *)
(* may be at it for one client.                                            *)
(*                                                                         *)
(* Counters and ciphers are objects, named 0, 1, 2, ... in the order they  *)
(* are made; a goroutine keeps the one it got hold of.  A keystream is     *)
(* represented by the number of bytes taken from it.                       *)
(***************************************************************************)
EXTENDS SendLoop, FiniteSets, Sequences, FiniteSetsExt, Functions

CONSTANTS
    Senders,        \* goroutines that send to the client
    Resetters,      \* goroutines that reset it
    PayloadSizes,   \* lengths of the payloads of Data packets
    SeqModulus,     \* 2^16: SetSequenceID takes a uint16
    MaxPackets,     \* bound on the fragments a behaviour sends
    MaxResets       \* bound on the resets

ASSUME SendPathAssumption ==
    /\ PayloadSizes \subseteq Nat
    /\ SeqModulus \in Nat \ {0} /\ MaxPackets \in Nat /\ MaxResets \in Nat

Goroutine == Senders \cup Resetters
Object == 0 .. MaxResets

VARIABLES
    counter,        \* counter object -> its value
    sequenceIDOut,  \* client.sequenceIDOut: the counter in use
    keystream,      \* cipher object -> bytes taken from it
    cipher,         \* client.cipher: the cipher in use
    pc,             \* goroutine -> where it is
    frame,          \* goroutine -> its local variables
    calls,          \* counter object -> Increment calls begun on it
    wire,           \* the packets written to the socket, in order
    turns           \* history: no Send has begun while another was running

vars == <<counter, sequenceIDOut, keystream, cipher, pc, frame, calls, wire, turns>>

\* data, fragments and i are those of Send; the others hold what Increment and
\* XORKeyStream have read so far.
FrameType == [type : {"Data", "Ping"}, data : Nat, fragments : Int, i : Nat, size : Nat,
              ctr : Object, value : Nat, seq : 0 .. SeqModulus - 1, key : Object, pos : Nat]
NoFrame == [type |-> "Ping", data |-> 0, fragments |-> 0, i |-> 0, size |-> 0,
            ctr |-> 0, value |-> 0, seq |-> 0, key |-> 0, pos |-> 0]
PacketType == [type : {"Data", "Ping"}, size : Nat, ctr : Object, seq : 0 .. SeqModulus - 1,
               key : Object, pos : Nat]

TypeOK ==
    /\ counter \in [Object -> Nat] /\ sequenceIDOut \in Object
    /\ keystream \in [Object -> Nat] /\ cipher \in Object
    /\ pc \in [Goroutine -> {"idle", "load", "store", "value", "key", "xor", "raw", "resetCipher"}]
    /\ frame \in [Goroutine -> FrameType]
    /\ calls \in [Object -> Nat]
    /\ wire \in Seq(PacketType)
    /\ turns \in BOOLEAN

Init ==
    /\ counter = [o \in Object |-> 0] /\ sequenceIDOut = 0
    /\ keystream = [o \in Object |-> 0] /\ cipher = 0
    /\ pc = [g \in Goroutine |-> "idle"]
    /\ frame = [g \in Goroutine |-> NoFrame]
    /\ calls = [o \in Object |-> 0]
    /\ wire = <<>>
    /\ turns = TRUE

AllCalls == FoldFunction(+, 0, calls)

Goto(g, from, to) == pc[g] = from /\ pc' = [pc EXCEPT ![g] = to]

InSend(g) == pc[g] \notin {"idle", "resetCipher"}

-----------------------------------------------------------------------------
\* Send(packet) up to its loop.  A ping has no payload.
StartSend(g) ==
    /\ g \in Senders
    /\ Goto(g, "idle", "load")
    /\ \E type \in {"Data", "Ping"}, n \in PayloadSizes \cup {0} :
          /\ type = "Ping" => n = 0
          /\ frame' = [frame EXCEPT ![g] = [NoFrame EXCEPT !.type = type, !.data = n,
                                                           !.fragments = Fragments(n)]]
    /\ turns' = (turns /\ \A h \in Goroutine : ~InSend(h))
    /\ UNCHANGED <<counter, sequenceIDOut, keystream, cipher, calls, wire>>

\* The next fragment; then, in Increment, the value of the counter is read.
LoadCounter(g) ==
    LET f == frame[g]
        size == IF IsShort(f.data) THEN f.data ELSE FragmentSize
        left == IF IsShort(f.data) THEN f.data ELSE f.data - FragmentSize
    IN  /\ f.i <= f.fragments
        /\ AllCalls < MaxPackets
        /\ Goto(g, "load", "store")
        /\ frame' = [frame EXCEPT ![g] = [f EXCEPT !.i = f.i + 1, !.size = size, !.data = left,
                         !.ctr = sequenceIDOut, !.value = counter[sequenceIDOut]]]
        /\ calls' = [calls EXCEPT ![sequenceIDOut] = @ + 1]
        /\ UNCHANGED <<counter, sequenceIDOut, keystream, cipher, wire, turns>>

EndSend(g) ==
    /\ frame[g].i > frame[g].fragments
    /\ Goto(g, "load", "idle")
    /\ frame' = [frame EXCEPT ![g] = NoFrame]
    /\ UNCHANGED <<counter, sequenceIDOut, keystream, cipher, calls, wire, turns>>

\* A slip: the counter is advanced by the size of the fragment.
StoreSize(g) ==
    /\ Goto(g, "store", "value")
    /\ counter' = [counter EXCEPT ![frame[g].ctr] = frame[g].value + frame[g].size]
    /\ UNCHANGED <<sequenceIDOut, keystream, cipher, frame, calls, wire, turns>>

\* counter.value++ ends.
StoreCounter(g) ==
    /\ Goto(g, "store", "value")
    /\ counter' = [counter EXCEPT ![frame[g].ctr] = frame[g].value + 1]
    /\ UNCHANGED <<sequenceIDOut, keystream, cipher, frame, calls, wire, turns>>

\* Bytes leaves pings alone, and XORKeyStream an empty slice.  f is a frame or a
\* packet on the wire.
Encrypts(f) == f.type = "Data" /\ f.size > 0

\* return counter.Value(), which reads the counter again, cut to a uint16.
ReadValue(g) ==
    /\ Goto(g, "value", IF Encrypts(frame[g]) THEN "key" ELSE "raw")
    /\ frame' = [frame EXCEPT ![g].seq = counter[frame[g].ctr] % SeqModulus]
    /\ UNCHANGED <<counter, sequenceIDOut, keystream, cipher, calls, wire, turns>>

\* XORKeyStream begins: the cipher and its position are read.
ReadKey(g) ==
    /\ Goto(g, "key", "xor")
    /\ frame' = [frame EXCEPT ![g].key = cipher, ![g].pos = keystream[cipher]]
    /\ UNCHANGED <<counter, sequenceIDOut, keystream, cipher, calls, wire, turns>>

\* A slip: one byte of the stream too many is taken.
WriteKeyOneMore(g) ==
    /\ Goto(g, "xor", "raw")
    /\ keystream' = [keystream EXCEPT ![frame[g].key] = frame[g].pos + frame[g].size + 1]
    /\ UNCHANGED <<counter, sequenceIDOut, cipher, frame, calls, wire, turns>>

\* XORKeyStream ends: the position is written back.
WriteKey(g) ==
    /\ Goto(g, "xor", "raw")
    /\ keystream' = [keystream EXCEPT ![frame[g].key] = frame[g].pos + frame[g].size]
    /\ UNCHANGED <<counter, sequenceIDOut, cipher, frame, calls, wire, turns>>

\* SendRaw; back to the loop of Send.
SendRaw(g) ==
    LET f == frame[g]
    IN  /\ Goto(g, "raw", "load")
        /\ wire' = Append(wire, [type |-> f.type, size |-> f.size, ctr |-> f.ctr, seq |-> f.seq,
                                 key |-> f.key, pos |-> f.pos])
        /\ frame' = [frame EXCEPT ![g] = [NoFrame EXCEPT !.type = f.type, !.data = f.data,
                                              !.fragments = f.fragments, !.i = f.i]]
        /\ UNCHANGED <<counter, sequenceIDOut, keystream, cipher, calls, turns>>

-----------------------------------------------------------------------------
\* A slip: the counter is set back instead of replaced.
ResetCounterInPlace(g) ==
    /\ g \in Resetters /\ cipher < MaxResets
    /\ Goto(g, "idle", "resetCipher")
    /\ counter' = [counter EXCEPT ![sequenceIDOut] = 0]
    /\ UNCHANGED <<sequenceIDOut, keystream, cipher, frame, calls, wire, turns>>

\* Client.Reset: sequenceIDOut = NewCounter(0) ...
ResetCounter(g) ==
    /\ g \in Resetters /\ sequenceIDOut < MaxResets
    /\ Goto(g, "idle", "resetCipher")
    /\ sequenceIDOut' = sequenceIDOut + 1
    /\ UNCHANGED <<counter, keystream, cipher, frame, calls, wire, turns>>

\* ... then UpdateRC4Key.
ResetCipher(g) ==
    /\ Goto(g, "resetCipher", "idle")
    /\ cipher' = cipher + 1
    /\ UNCHANGED <<counter, sequenceIDOut, keystream, frame, calls, wire, turns>>

\* The bound is reached, or the goroutines have no more to do.
Stopped ==
    /\ \A g \in Goroutine :
          \/ pc[g] = "idle"
          \/ pc[g] = "load" /\ frame[g].i <= frame[g].fragments /\ AllCalls = MaxPackets
    /\ UNCHANGED vars

Next ==
    \/ \E g \in Goroutine :
          \/ StartSend(g) \/ LoadCounter(g) \/ EndSend(g) \/ StoreCounter(g) \/ ReadValue(g)
          \/ ReadKey(g) \/ WriteKey(g) \/ SendRaw(g) \/ ResetCounter(g) \/ ResetCipher(g)
    \/ Stopped

Spec == Init /\ [][Next]_vars

-----------------------------------------------------------------------------
(***************************************************************************)
(* Properties.                                                             *)
(***************************************************************************)
\* Of the first n packets, those numbered by counter o and those encrypted with cipher o.
Numbered(o, n) == {j \in 1 .. n : wire[j].ctr = o}
Encrypted(o, n) == {j \in 1 .. n : Encrypts(wire[j]) /\ wire[j].key = o}

\* Where the last packet encrypted with cipher o, of the first n, ends in its keystream.
StreamEnd(o, n) ==
    IF Encrypted(o, n) = {} THEN 0
    ELSE LET j == Max(Encrypted(o, n)) IN wire[j].pos + wire[j].size

\* As long as no two Sends overlap, whichever goroutines they run in, the packets
\* numbered by one counter go out as 1, 2, 3, ... modulo 2^16, with no number left
\* out or used again before the counter wraps: a Reset in between never sets a
\* number back that a goroutine is about to use.
NumbersInOrder ==
    turns => \A k \in DOMAIN wire :
                wire[k].seq = Cardinality(Numbered(wire[k].ctr, k)) % SeqModulus

\* As long as no two Sends overlap, Data of one cipher is encrypted with
\* consecutive pieces of its keystream, in the order it is written, so that a peer
\* that decrypts in this order stays in step; pings in between take nothing.
KeystreamInOrder ==
    turns => \A k \in DOMAIN wire :
                Encrypts(wire[k]) => wire[k].pos = StreamEnd(wire[k].key, k - 1)

\* However goroutines interleave in Increment, a counter never gets ahead of the
\* calls on it: a lost update repeats a number, and none goes out for which no
\* packet was sent.
CounterNotAhead == \A o \in Object : counter[o] <= calls[o]

\* Increment increments the counter by 1 and returns the value: no two packets
\* of one counter carry the same number before it wraps.
IncrementReturnsNew ==
    \A j, k \in DOMAIN wire :
        LET o == wire[k].ctr
        IN  /\ j < k /\ wire[j].ctr = o
            /\ Cardinality(Numbered(o, k)) - Cardinality(Numbered(o, j)) < SeqModulus
            => wire[j].seq # wire[k].seq
=============================================================================
