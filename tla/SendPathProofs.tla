--------------------------- MODULE SendPathProofs ---------------------------
(***************************************************************************)
(* Outgoing packets of one client, for any number of packets, resets and   *)
(* goroutines, every fragment size and every width of the sequence number. *)
(***************************************************************************)
EXTENDS SendPath, FiniteSetTheorems, WellFoundedInduction, TLAPS

(***************************************************************************)
(* With any number of senders: every Reset makes one cipher for the        *)
(* counter it made, or is about to, and a value that Increment is about to *)
(* write was read before the call was counted.                             *)
(***************************************************************************)
Resetting == {g \in Goroutine : pc[g] = "resetCipher"}

SendInv ==
    /\ TypeOK
    /\ IsFiniteSet(Resetting) /\ cipher + Cardinality(Resetting) = sequenceIDOut
    /\ CounterNotAhead
    /\ \A g \in Goroutine : pc[g] = "store" => frame[g].value < calls[frame[g].ctr]

(***************************************************************************)
(* While the goroutines take turns, a counter holds the number of packets  *)
(* it has numbered on the wire, one more while such a packet is on its     *)
(* way; and a cipher stands where the last packet on the wire ends in its  *)
(* keystream, further on when the next packet is encrypted and not yet     *)
(* written.                                                                *)
(***************************************************************************)
TurnInv == turns => \A g, h \in Goroutine : InSend(g) /\ InSend(h) => g = h

Ahead(o) ==
    IF \E g \in Goroutine : pc[g] \in {"value", "key", "xor", "raw"} /\ frame[g].ctr = o THEN 1 ELSE 0

\* What NumbersInOrder and KeystreamInOrder say while turns are taken.
WireNumbered ==
    \A k \in DOMAIN wire : wire[k].seq = Cardinality(Numbered(wire[k].ctr, k)) % SeqModulus
WireEncrypted ==
    \A k \in DOMAIN wire : Encrypts(wire[k]) => wire[k].pos = StreamEnd(wire[k].key, k - 1)

NumberInv ==
    /\ \A o \in Object : counter[o] = Cardinality(Numbered(o, Len(wire))) + Ahead(o)
    /\ \A g \in Goroutine :
          /\ pc[g] = "store" => frame[g].value = counter[frame[g].ctr]
          /\ pc[g] \in {"key", "xor", "raw"} => frame[g].seq = counter[frame[g].ctr] % SeqModulus
    /\ WireNumbered

Drawn(o) == \E g \in Goroutine : pc[g] = "raw" /\ Encrypts(frame[g]) /\ frame[g].key = o

KeyInv ==
    /\ \A o \in Object : ~Drawn(o) => keystream[o] = StreamEnd(o, Len(wire))
    /\ \A g \in Goroutine :
          /\ pc[g] = "xor" => frame[g].pos = keystream[frame[g].key]
          /\ pc[g] = "raw" /\ Encrypts(frame[g]) =>
                /\ keystream[frame[g].key] = frame[g].pos + frame[g].size
                /\ frame[g].pos = StreamEnd(frame[g].key, Len(wire))
          /\ pc[g] \in {"key", "xor"} => Encrypts(frame[g])
    /\ WireEncrypted
-----------------------------------------------------------------------------
(***************************************************************************)
(* What each step does to the variables of its goroutine.                  *)
(***************************************************************************)
LEMMA FragmentSizeType == FragmentSize \in Nat /\ FragmentSize > 0 /\ FragmentSize <= 32767
  BY FragmentSizeAssumption

LEMMA Whole ==
    ASSUME NEW n \in Nat
    PROVE  /\ ~IsShort(n) => n - FragmentSize \in Nat
           /\ FragmentSize \in Nat
           /\ Fragments(n) \in Int
<1>1. FragmentSize \in Nat /\ FragmentSize > 0 /\ FragmentSize <= 32767
  BY FragmentSizeType
<1>2. ~IsShort(n) => n - FragmentSize \in Nat
  BY <1>1 DEF IsShort, Int16
<1> DEFINE m == Int16(n)
<1>3. m \in Int
  BY DEF Int16
<1>4. m >= 0 => m \div FragmentSize \in Int
  BY <1>1, <1>3
<1>5. m < 0 => (-m) \div FragmentSize \in Int
  BY <1>1, <1>3
<1> HIDE DEF m
<1>6. Quotient(m) \in Int
  BY <1>3, <1>4, <1>5 DEF Quotient
<1> QED
  BY <1>1, <1>2, <1>6 DEF Fragments, m

LEMMA SmallTypes ==
    /\ 0 \in Object /\ NoFrame \in FrameType /\ SeqModulus \in Nat /\ SeqModulus > 0
    /\ \A n \in Nat : n % SeqModulus \in 0 .. SeqModulus - 1
<1>1. 0 \in Object /\ SeqModulus \in Nat /\ SeqModulus > 0
  BY SendPathAssumption DEF Object
<1>2. 0 \in 0 .. SeqModulus - 1
  BY <1>1
<1>3. \A n \in Nat : n % SeqModulus \in 0 .. SeqModulus - 1
  BY <1>1
<1> QED
  BY <1>1, <1>2, <1>3 DEF NoFrame, FrameType

\* The steps of Send that leave the shared variables alone.
LEMMA LocalSteps ==
    ASSUME TypeOK, NEW g \in Goroutine, StartSend(g) \/ EndSend(g)
    PROVE  /\ UNCHANGED <<counter, sequenceIDOut, keystream, cipher, calls, wire>>
           /\ pc[g] \in {"idle", "load"} /\ \E to \in {"idle", "load"} : pc' = [pc EXCEPT ![g] = to]
           /\ \E f \in FrameType : frame' = [frame EXCEPT ![g] = f]
<1>1. CASE StartSend(g)
  <2>1. PICK type \in {"Data", "Ping"}, n \in PayloadSizes \cup {0} :
           frame' = [frame EXCEPT ![g] = [NoFrame EXCEPT !.type = type, !.data = n,
                                                          !.fragments = Fragments(n)]]
    BY <1>1, Zenon DEF StartSend
  <2>2. n \in Nat /\ Fragments(n) \in Int
    BY SendPathAssumption, Whole
  <2>3. [NoFrame EXCEPT !.type = type, !.data = n, !.fragments = Fragments(n)] \in FrameType
    BY <2>2, SmallTypes, Zenon DEF FrameType, NoFrame
  <2> QED
    BY <1>1, <2>1, <2>3, Zenon DEF StartSend, Goto
<1>2. CASE EndSend(g)
  BY <1>2, SmallTypes, Zenon DEF EndSend, Goto
<1> QED
  BY <1>1, <1>2

LEMMA LoadStep ==
    ASSUME TypeOK, NEW g \in Goroutine, LoadCounter(g)
    PROVE  /\ UNCHANGED <<counter, sequenceIDOut, keystream, cipher, wire, turns>>
           /\ pc[g] = "load" /\ pc' = [pc EXCEPT ![g] = "store"]
           /\ calls' = [calls EXCEPT ![sequenceIDOut] = @ + 1]
           /\ \E f \in FrameType : /\ frame' = [frame EXCEPT ![g] = f]
                                   /\ f.ctr = sequenceIDOut /\ f.value = counter[sequenceIDOut]
<1> DEFINE f == frame[g]
           size == IF IsShort(f.data) THEN f.data ELSE FragmentSize
           left == IF IsShort(f.data) THEN f.data ELSE f.data - FragmentSize
           t == [f EXCEPT !.i = f.i + 1, !.size = size, !.data = left,
                          !.ctr = sequenceIDOut, !.value = counter[sequenceIDOut]]
<1>1. f \in FrameType /\ sequenceIDOut \in Object /\ counter[sequenceIDOut] \in Nat
  BY DEF TypeOK
<1>2. f.data \in Nat /\ f.i \in Nat
  BY <1>1 DEF FrameType
<1>3. size \in Nat /\ left \in Nat /\ f.i + 1 \in Nat
  BY <1>2, Whole
<1>4. frame' = [frame EXCEPT ![g] = t]
  BY DEF LoadCounter
<1> HIDE DEF f, size, left
<1>5. t \in FrameType /\ t.ctr = sequenceIDOut /\ t.value = counter[sequenceIDOut]
  BY <1>1, <1>3, Zenon DEF FrameType
<1> HIDE DEF t
<1> QED
  BY <1>4, <1>5, Zenon DEF LoadCounter, Goto

LEMMA ValueStep ==
    ASSUME TypeOK, NEW g \in Goroutine, ReadValue(g)
    PROVE  /\ UNCHANGED <<counter, sequenceIDOut, keystream, cipher, calls, wire>>
           /\ pc[g] = "value"
           /\ pc' = [pc EXCEPT ![g] = IF Encrypts(frame[g]) THEN "key" ELSE "raw"]
           /\ \E f \in FrameType : /\ frame' = [frame EXCEPT ![g] = f] /\ f.ctr = frame[g].ctr
                                   /\ f.seq = counter[f.ctr] % SeqModulus
                                   /\ f.type = frame[g].type /\ f.size = frame[g].size
<1> DEFINE t == [frame[g] EXCEPT !.seq = counter[frame[g].ctr] % SeqModulus]
<1>1. frame[g] \in FrameType /\ frame[g].ctr \in Object
  BY DEF TypeOK, FrameType
<1>2. counter[frame[g].ctr] % SeqModulus \in 0 .. SeqModulus - 1
  BY <1>1, SmallTypes, Zenon DEF TypeOK
<1>3. frame' = [frame EXCEPT ![g] = t]
  BY DEF ReadValue, TypeOK
<1>4. /\ t \in FrameType /\ t.ctr = frame[g].ctr /\ t.seq = counter[frame[g].ctr] % SeqModulus
      /\ t.type = frame[g].type /\ t.size = frame[g].size
  BY <1>1, <1>2 DEF FrameType
<1> HIDE DEF t
<1> QED
  BY <1>3, <1>4, Zenon DEF ReadValue, Goto

LEMMA KeyStep ==
    ASSUME TypeOK, NEW g \in Goroutine, ReadKey(g)
    PROVE  /\ UNCHANGED <<counter, sequenceIDOut, keystream, cipher, calls, wire>>
           /\ pc[g] = "key" /\ pc' = [pc EXCEPT ![g] = "xor"]
           /\ \E f \in FrameType : /\ frame' = [frame EXCEPT ![g] = f]
                                   /\ f.ctr = frame[g].ctr /\ f.seq = frame[g].seq
                                   /\ f.key = cipher /\ f.pos = keystream[cipher]
                                   /\ f.type = frame[g].type /\ f.size = frame[g].size
<1> DEFINE t == [frame[g] EXCEPT !.key = cipher, !.pos = keystream[cipher]]
<1>1. frame[g] \in FrameType /\ cipher \in Object /\ keystream[cipher] \in Nat
  BY DEF TypeOK
<1>2. frame' = [frame EXCEPT ![g] = t]
  BY Zenon DEF ReadKey, TypeOK
<1>3. /\ t \in FrameType /\ t.ctr = frame[g].ctr /\ t.seq = frame[g].seq
      /\ t.key = cipher /\ t.pos = keystream[cipher]
      /\ t.type = frame[g].type /\ t.size = frame[g].size
  BY <1>1, Zenon DEF FrameType
<1> HIDE DEF t
<1> QED
  BY <1>2, <1>3, Zenon DEF ReadKey, Goto

LEMMA RawStep ==
    ASSUME TypeOK, NEW g \in Goroutine, SendRaw(g)
    PROVE  /\ UNCHANGED <<counter, sequenceIDOut, keystream, cipher, calls>>
           /\ pc[g] = "raw" /\ pc' = [pc EXCEPT ![g] = "load"]
           /\ \E f \in FrameType : frame' = [frame EXCEPT ![g] = f]
           /\ \E p \in PacketType :
                 /\ wire' = Append(wire, p)
                 /\ p.type = frame[g].type /\ p.size = frame[g].size /\ p.ctr = frame[g].ctr
                 /\ p.seq = frame[g].seq /\ p.key = frame[g].key /\ p.pos = frame[g].pos
<1> DEFINE f == frame[g]
           p == [type |-> f.type, size |-> f.size, ctr |-> f.ctr, seq |-> f.seq,
                 key |-> f.key, pos |-> f.pos]
           t == [NoFrame EXCEPT !.type = f.type, !.data = f.data, !.fragments = f.fragments, !.i = f.i]
<1>1. f \in FrameType
  BY DEF TypeOK
<1>2. wire' = Append(wire, p) /\ frame' = [frame EXCEPT ![g] = t]
  BY DEF SendRaw
<1> HIDE DEF f
<1>3. t \in FrameType
  BY <1>1, SmallTypes, Zenon DEF FrameType, NoFrame
<1>4. p \in PacketType
  BY <1>1 DEF FrameType, PacketType
<1>5. /\ p.type = f.type /\ p.size = f.size /\ p.ctr = f.ctr
      /\ p.seq = f.seq /\ p.key = f.key /\ p.pos = f.pos
  OBVIOUS
<1> HIDE DEF p, t
<1> QED
  BY <1>2, <1>3, <1>4, <1>5, Zenon DEF SendRaw, Goto, f

\* Once two Sends have overlapped, this is never forgotten.
LEMMA TurnsStep ==
    ASSUME TypeOK, [Next]_vars
    PROVE  turns' \in BOOLEAN /\ (turns' => turns)
<1>1. ASSUME NEW g \in Goroutine, StartSend(g)
      PROVE  turns' \in BOOLEAN /\ (turns' => turns)
  <2>1. turns' = (turns /\ \A h \in Goroutine : ~InSend(h))
    BY <1>1, Zenon DEF StartSend
  <2> QED
    BY <2>1, Zenon
<1>2. turns' = turns \/ \E g \in Goroutine : StartSend(g)
  BY Zenon DEF Next, vars, LoadCounter, EndSend, StoreCounter, ReadValue, ReadKey, WriteKey,
     SendRaw, ResetCounter, ResetCipher, Stopped
<1>3. CASE turns' = turns
  <2>1. turns \in BOOLEAN
    BY DEF TypeOK
  <2> QED
    BY <1>3, <2>1
<1> QED
  BY <1>1, <1>2, <1>3

\* The packets on the wire before stay where they are.
LEMMA OneMoreOnWire ==
    ASSUME wire \in Seq(PacketType), NEW p \in PacketType, wire' = Append(wire, p)
    PROVE  /\ wire' \in Seq(PacketType) /\ Len(wire) \in Nat /\ Len(wire') = Len(wire) + 1
           /\ DOMAIN wire = 1 .. Len(wire) /\ DOMAIN wire' = 1 .. Len(wire) + 1
           /\ \A k \in DOMAIN wire : wire'[k] = wire[k]
           /\ wire'[Len(wire) + 1] = p
  OBVIOUS

\* The steps of a sender leave the resets alone.
LEMMA ResettingKept ==
    ASSUME TypeOK, NEW g \in Goroutine, pc[g] # "resetCipher",
           NEW to, to # "resetCipher", pc' = [pc EXCEPT ![g] = to]
    PROVE  Resetting' = Resetting
  BY DEF TypeOK, Resetting

-----------------------------------------------------------------------------
(***************************************************************************)
(* Any number of senders.                                                  *)
(***************************************************************************)
LEMMA InitSendInv == Init => SendInv
<1> SUFFICES ASSUME Init
             PROVE  SendInv
  OBVIOUS
<1>1. /\ counter \in [Object -> Nat] /\ keystream \in [Object -> Nat] /\ calls \in [Object -> Nat]
      /\ sequenceIDOut \in Object /\ cipher \in Object
      /\ pc \in [Goroutine -> {"idle", "load", "store", "value", "key", "xor", "raw", "resetCipher"}]
      /\ frame \in [Goroutine -> FrameType] /\ wire \in Seq(PacketType)
  BY SmallTypes DEF Init
<1>2. Resetting = {}
  BY DEF Init, Resetting
<1>3. IsFiniteSet(Resetting) /\ Cardinality(Resetting) = 0
  BY <1>2, FS_EmptySet
<1> QED
  BY <1>1, <1>3 DEF Init, SendInv, TypeOK, CounterNotAhead

\* Steps of a sender that change no counter.
LEMMA QuietKeepsSendInv ==
    ASSUME SendInv, NEW g \in Goroutine, pc[g] \in {"idle", "load", "value", "key", "xor", "raw"},
           NEW to \in {"idle", "load", "key", "xor", "raw"}, pc' = [pc EXCEPT ![g] = to],
           NEW f \in FrameType, frame' = [frame EXCEPT ![g] = f],
           UNCHANGED <<counter, sequenceIDOut, cipher, calls>>,
           keystream' \in [Object -> Nat], wire' \in Seq(PacketType), turns' \in BOOLEAN
    PROVE  SendInv'
<1>1. TypeOK'
  BY Zenon DEF SendInv, TypeOK
<1>2. Resetting' = Resetting
  BY ResettingKept, Zenon DEF SendInv
<1>3. CounterNotAhead'
  BY DEF SendInv, CounterNotAhead
<1>4. ASSUME NEW h \in Goroutine, pc'[h] = "store"
      PROVE  frame'[h].value < calls'[frame'[h].ctr]
  <2>1. h # g
    BY <1>4 DEF SendInv, TypeOK
  <2>2. pc[h] = "store" /\ frame'[h] = frame[h]
    BY <1>4, <2>1 DEF SendInv, TypeOK
  <2> QED
    BY <2>2 DEF SendInv
<1> QED
  BY <1>1, <1>2, <1>3, <1>4 DEF SendInv

LEMMA LoadKeepsSendInv ==
    ASSUME SendInv, NEW g \in Goroutine, LoadCounter(g)
    PROVE  SendInv'
<1> DEFINE s == sequenceIDOut
<1>1. TypeOK
  BY DEF SendInv
<1>2. /\ UNCHANGED <<counter, sequenceIDOut, keystream, cipher, wire, turns>>
      /\ pc[g] = "load" /\ pc' = [pc EXCEPT ![g] = "store"]
      /\ calls' = [calls EXCEPT ![s] = @ + 1]
  BY <1>1, LoadStep
<1>3. PICK f \in FrameType : frame' = [frame EXCEPT ![g] = f] /\ f.ctr = s /\ f.value = counter[s]
  BY <1>1, LoadStep
<1>4. s \in Object /\ counter[s] \in Nat /\ calls[s] \in Nat /\ counter[s] <= calls[s]
  BY <1>1 DEF SendInv, TypeOK, CounterNotAhead
<1>5. /\ calls' \in [Object -> Nat] /\ calls'[s] = calls[s] + 1
      /\ \A o \in Object : calls[o] <= calls'[o]
  BY <1>1, <1>2, <1>4, SMTT(30) DEF TypeOK
<1>6. TypeOK'
  BY <1>1, <1>2, <1>3, <1>5, Zenon DEF TypeOK
<1>7. Resetting' = Resetting
  BY <1>1, <1>2, ResettingKept, Zenon
<1>8. CounterNotAhead'
  BY <1>1, <1>2, <1>5 DEF SendInv, CounterNotAhead, TypeOK
<1>9. ASSUME NEW h \in Goroutine, pc'[h] = "store"
      PROVE  frame'[h].value < calls'[frame'[h].ctr]
  <2>1. CASE h = g
    BY <1>1, <1>3, <1>4, <1>5, <2>1 DEF TypeOK
  <2>2. CASE h # g
    <3>1. pc[h] = "store" /\ frame'[h] = frame[h] /\ frame[h] \in FrameType
      BY <1>1, <1>2, <1>3, <1>9, <2>2 DEF TypeOK
    <3>2. frame[h].value \in Nat /\ frame[h].ctr \in Object
      BY <3>1 DEF FrameType
    <3> QED
      BY <1>1, <1>5, <3>1, <3>2, SMTT(30) DEF SendInv, TypeOK
  <2> QED
    BY <2>1, <2>2
<1> QED
  BY <1>2, <1>6, <1>7, <1>8, <1>9 DEF SendInv

LEMMA StoreKeepsSendInv ==
    ASSUME SendInv, NEW g \in Goroutine, StoreCounter(g)
    PROVE  SendInv'
<1>1. TypeOK
  BY DEF SendInv
<1>2. /\ UNCHANGED <<sequenceIDOut, keystream, cipher, frame, calls, wire, turns>>
      /\ pc[g] = "store" /\ pc' = [pc EXCEPT ![g] = "value"]
      /\ counter' = [counter EXCEPT ![frame[g].ctr] = frame[g].value + 1]
  BY DEF StoreCounter, Goto
<1>3. frame[g].value \in Nat /\ frame[g].ctr \in Object /\ calls[frame[g].ctr] \in Nat
  BY <1>1, Zenon DEF TypeOK, FrameType
<1>4. frame[g].value < calls[frame[g].ctr]
  BY <1>2 DEF SendInv
<1>5. TypeOK'
  <2>1. counter' \in [Object -> Nat]
    BY <1>1, <1>2, <1>3, SMTT(30) DEF TypeOK
  <2>2. pc' \in [Goroutine -> {"idle", "load", "store", "value", "key", "xor", "raw", "resetCipher"}]
    BY <1>1, <1>2 DEF TypeOK
  <2> QED
    BY <1>1, <1>2, <2>1, <2>2, Zenon DEF TypeOK
<1>6. Resetting' = Resetting
  BY <1>1, <1>2, ResettingKept, Zenon
<1>7. CounterNotAhead'
  BY <1>1, <1>2, <1>3, <1>4, SMTT(30) DEF SendInv, TypeOK, CounterNotAhead
<1>8. \A h \in Goroutine : pc'[h] = "store" => pc[h] = "store"
  BY <1>1, <1>2 DEF TypeOK
<1> QED
  BY <1>2, <1>5, <1>6, <1>7, <1>8 DEF SendInv

LEMMA ResetCounterKeepsSendInv ==
    ASSUME SendInv, NEW g \in Goroutine, ResetCounter(g)
    PROVE  SendInv'
<1>1. TypeOK
  BY DEF SendInv
<1>2. /\ UNCHANGED <<counter, keystream, cipher, frame, calls, wire, turns>>
      /\ pc[g] = "idle" /\ pc' = [pc EXCEPT ![g] = "resetCipher"]
      /\ sequenceIDOut' = sequenceIDOut + 1 /\ sequenceIDOut < MaxResets
  BY DEF ResetCounter, Goto
<1>3. sequenceIDOut \in Nat /\ cipher \in Nat /\ sequenceIDOut' \in Object
  BY <1>1, <1>2, SendPathAssumption DEF TypeOK, Object
<1>4. TypeOK'
  BY <1>1, <1>2, <1>3, Zenon DEF TypeOK
<1>5. Resetting' = Resetting \cup {g} /\ g \notin Resetting
  BY <1>1, <1>2 DEF TypeOK, Resetting
<1>6. /\ IsFiniteSet(Resetting') /\ Cardinality(Resetting) \in Nat
      /\ Cardinality(Resetting') = Cardinality(Resetting) + 1
  BY <1>5, FS_AddElement, FS_CardinalityType DEF SendInv
<1>7. cipher' + Cardinality(Resetting') = sequenceIDOut'
  BY <1>2, <1>3, <1>6 DEF SendInv
<1>8. CounterNotAhead'
  BY <1>2 DEF SendInv, CounterNotAhead
<1>9. \A h \in Goroutine : pc'[h] = "store" => pc[h] = "store"
  BY <1>1, <1>2 DEF TypeOK
<1> QED
  BY <1>2, <1>4, <1>6, <1>7, <1>8, <1>9 DEF SendInv

LEMMA ResetCipherKeepsSendInv ==
    ASSUME SendInv, NEW g \in Goroutine, ResetCipher(g)
    PROVE  SendInv'
<1>1. TypeOK
  BY DEF SendInv
<1>2. /\ UNCHANGED <<counter, sequenceIDOut, keystream, frame, calls, wire, turns>>
      /\ pc[g] = "resetCipher" /\ pc' = [pc EXCEPT ![g] = "idle"]
      /\ cipher' = cipher + 1
  BY DEF ResetCipher, Goto
<1>3. sequenceIDOut \in 0 .. MaxResets /\ cipher \in Nat /\ MaxResets \in Nat
  BY <1>1, SendPathAssumption DEF TypeOK, Object
<1>4. Resetting' = Resetting \ {g} /\ g \in Resetting
  BY <1>1, <1>2 DEF TypeOK, Resetting
<1>5. /\ IsFiniteSet(Resetting') /\ Cardinality(Resetting) \in Nat
      /\ Cardinality(Resetting') = Cardinality(Resetting) - 1 /\ Cardinality(Resetting') \in Nat
  BY <1>4, FS_RemoveElement, FS_CardinalityType DEF SendInv
<1>6. cipher + Cardinality(Resetting) = sequenceIDOut
  BY DEF SendInv
<1>7. cipher' + Cardinality(Resetting') = sequenceIDOut' /\ cipher' \in Object
  BY <1>2, <1>3, <1>5, <1>6 DEF Object
<1>8. TypeOK'
  BY <1>1, <1>2, <1>7, Zenon DEF TypeOK
<1>9. CounterNotAhead'
  BY <1>2 DEF SendInv, CounterNotAhead
<1>10. \A h \in Goroutine : pc'[h] = "store" => pc[h] = "store"
  BY <1>1, <1>2 DEF TypeOK
<1> QED
  BY <1>2, <1>5, <1>7, <1>8, <1>9, <1>10 DEF SendInv

LEMMA WriteStep ==
    ASSUME TypeOK, NEW g \in Goroutine, WriteKey(g)
    PROVE  /\ UNCHANGED <<counter, sequenceIDOut, cipher, frame, calls, wire, turns>>
           /\ pc[g] = "xor" /\ pc' = [pc EXCEPT ![g] = "raw"]
           /\ frame[g].key \in Object /\ frame[g].pos \in Nat /\ frame[g].size \in Nat
           /\ keystream' = [keystream EXCEPT ![frame[g].key] = frame[g].pos + frame[g].size]
<1>1. frame[g] \in FrameType
  BY DEF TypeOK
<1> QED
  BY <1>1 DEF WriteKey, Goto, FrameType

LEMMA NextKeepsSendInv == SendInv /\ [Next]_vars => SendInv'
<1> SUFFICES ASSUME SendInv, [Next]_vars
             PROVE  SendInv'
  OBVIOUS
<1>1. TypeOK
  BY DEF SendInv
<1>0. turns' \in BOOLEAN
  BY <1>1, TurnsStep
<1>2. ASSUME NEW g \in Goroutine,
             \/ StartSend(g) \/ LoadCounter(g) \/ EndSend(g) \/ StoreCounter(g) \/ ReadValue(g)
             \/ ReadKey(g) \/ WriteKey(g) \/ SendRaw(g) \/ ResetCounter(g) \/ ResetCipher(g)
      PROVE  SendInv'
  <2>1. CASE StartSend(g) \/ EndSend(g)
    <3>1. PICK f \in FrameType : frame' = [frame EXCEPT ![g] = f]
      BY <1>1, <2>1, LocalSteps
    <3>2. PICK to \in {"idle", "load"} : pc' = [pc EXCEPT ![g] = to]
      BY <1>1, <2>1, LocalSteps
    <3>3. /\ UNCHANGED <<counter, sequenceIDOut, keystream, cipher, calls, wire>>
          /\ pc[g] \in {"idle", "load"}
      BY <1>1, <2>1, LocalSteps
    <3>4. keystream' \in [Object -> Nat] /\ wire' \in Seq(PacketType)
      BY <1>1, <3>3 DEF TypeOK
    <3> QED
      BY <1>0, <3>1, <3>2, <3>3, <3>4, QuietKeepsSendInv, Zenon
  <2>2. CASE ReadValue(g) \/ ReadKey(g)
    <3>1. PICK f \in FrameType : frame' = [frame EXCEPT ![g] = f]
      BY <1>1, <2>2, ValueStep, KeyStep
    <3>2. PICK to \in {"key", "xor", "raw"} : pc' = [pc EXCEPT ![g] = to]
      BY <1>1, <2>2, ValueStep, KeyStep
    <3>3. /\ UNCHANGED <<counter, sequenceIDOut, keystream, cipher, calls, wire>>
          /\ pc[g] \in {"value", "key"}
      BY <1>1, <2>2, ValueStep, KeyStep
    <3>4. keystream' \in [Object -> Nat] /\ wire' \in Seq(PacketType)
      BY <1>1, <3>3 DEF TypeOK
    <3> QED
      BY <1>0, <3>1, <3>2, <3>3, <3>4, QuietKeepsSendInv, Zenon
  <2>3. CASE WriteKey(g)
    <3>1. frame' = [frame EXCEPT ![g] = frame[g]] /\ frame[g] \in FrameType
      BY <1>1, <2>3, WriteStep DEF TypeOK
    <3>2. frame[g].pos + frame[g].size \in Nat
      BY <1>1, <2>3, WriteStep
    <3>3. keystream' \in [Object -> Nat] /\ wire' \in Seq(PacketType)
      BY <1>1, <2>3, <3>2, WriteStep, Zenon DEF TypeOK
    <3> QED
      BY <1>0, <1>1, <2>3, <3>1, <3>3, WriteStep, QuietKeepsSendInv, Zenon
  <2>4. CASE SendRaw(g)
    <3>1. PICK f \in FrameType : frame' = [frame EXCEPT ![g] = f]
      BY <1>1, <2>4, RawStep
    <3>2. wire' \in Seq(PacketType)
      BY <1>1, <2>4, RawStep, OneMoreOnWire DEF TypeOK
    <3>3. /\ UNCHANGED <<counter, sequenceIDOut, keystream, cipher, calls>>
          /\ pc[g] = "raw" /\ pc' = [pc EXCEPT ![g] = "load"]
      BY <1>1, <2>4, RawStep
    <3>4. keystream' \in [Object -> Nat]
      BY <1>1, <3>3 DEF TypeOK
    <3> QED
      BY <1>0, <3>1, <3>2, <3>3, <3>4, QuietKeepsSendInv, Zenon
  <2> QED
    BY <1>2, <2>1, <2>2, <2>3, <2>4, LoadKeepsSendInv, StoreKeepsSendInv,
       ResetCounterKeepsSendInv, ResetCipherKeepsSendInv
<1>3. CASE UNCHANGED vars
  <2>1. Resetting' = Resetting
    BY <1>3 DEF vars, Resetting
  <2> QED
    BY <1>3, <2>1 DEF vars, SendInv, TypeOK, CounterNotAhead
<1> QED
  BY <1>2, <1>3 DEF Next, Stopped

LEMMA SendInvariance == Spec => []SendInv
  BY InitSendInv, NextKeepsSendInv, PTL DEF Spec

\* Whatever the goroutines of Send and Reset do, every variable keeps its type:
\* what is left of a payload is never negative, a sequence number fits its field,
\* and Reset makes as many ciphers as counters.
THEOREM TypeCorrect == Spec => []TypeOK
  BY SendInvariance, PTL DEF SendInv

\* However many goroutines are in Increment, on however many counters, none of
\* the counters gets ahead of the calls.
THEOREM CounterBehind == Spec => []CounterNotAhead
  BY SendInvariance, PTL DEF SendInv

-----------------------------------------------------------------------------
(***************************************************************************)
(* Senders that take turns.                                                *)
(***************************************************************************)
LEMMA NextKeepsTurns == TypeOK /\ TurnInv /\ [Next]_vars => TurnInv'
<1> SUFFICES ASSUME TypeOK, TurnInv, [Next]_vars, turns', NEW a \in Goroutine, NEW b \in Goroutine,
                    InSend(a)', InSend(b)'
             PROVE  a = b
  BY DEF TurnInv
<1>1. \A g, h \in Goroutine : InSend(g) /\ InSend(h) => g = h
  BY TurnsStep DEF TurnInv
<1>2. ASSUME NEW g \in Goroutine, StartSend(g)
      PROVE  a = b
  <2>1. \A h \in Goroutine : h # g => ~InSend(h)'
    <3>1. \A h \in Goroutine : ~InSend(h)
      BY <1>2, Zenon DEF StartSend
    <3>2. pc' = [pc EXCEPT ![g] = "load"]
      BY <1>2 DEF StartSend, Goto
    <3> QED
      BY <3>1, <3>2 DEF InSend, TypeOK
  <2> QED
    BY <2>1, Zenon
<1>3. ASSUME NEW g \in Goroutine,
             \/ LoadCounter(g) \/ EndSend(g) \/ StoreCounter(g) \/ ReadValue(g)
             \/ ReadKey(g) \/ WriteKey(g) \/ SendRaw(g) \/ ResetCounter(g) \/ ResetCipher(g)
      PROVE  a = b
  <2>1. CASE ResetCounter(g) \/ ResetCipher(g)
    <3>1. \A h \in Goroutine : InSend(h)' => InSend(h)
      BY <2>1, Zenon DEF ResetCounter, ResetCipher, Goto, TypeOK, InSend
    <3> QED
      BY <1>1, <3>1, Zenon
  <2>2. CASE ~(ResetCounter(g) \/ ResetCipher(g))
    <3>1. InSend(g) /\ \E to : pc' = [pc EXCEPT ![g] = to]
      BY <1>3, <2>2, Zenon DEF LoadCounter, EndSend, StoreCounter, ReadValue, ReadKey, WriteKey,
                        SendRaw, Goto, InSend
    <3>2. \A h \in Goroutine : InSend(h)' => InSend(h)
      BY <3>1 DEF TypeOK, InSend
    <3> QED
      BY <1>1, <3>2, Zenon
  <2> QED
    BY <2>1, <2>2
<1>4. CASE UNCHANGED vars
  BY <1>1, <1>4 DEF vars, InSend
<1> QED
  BY <1>2, <1>3, <1>4 DEF Next, Stopped

\* The step of a goroutine in Send, while turns are taken.
Alone(g) == \A h \in Goroutine : h # g => pc[h] \in {"idle", "resetCipher"}

LEMMA OneInSend ==
    ASSUME TypeOK, TurnInv, turns, NEW g \in Goroutine, InSend(g)
    PROVE  Alone(g)
  BY DEF TurnInv, Alone, InSend

\* A step of g changes the variables of no other goroutine.
OthersKept(g) == \A h \in Goroutine : h # g => pc'[h] = pc[h] /\ frame'[h] = frame[h]

LEMMA OnlyOne ==
    ASSUME TypeOK, NEW g \in Goroutine, NEW to, pc' = [pc EXCEPT ![g] = to],
           NEW f, frame' = [frame EXCEPT ![g] = f]
    PROVE  OthersKept(g) /\ pc'[g] = to /\ frame'[g] = f
  BY DEF TypeOK, OthersKept

\* The greatest of some positions on the wire.
LEMMA Latest ==
    ASSUME NEW n \in Nat, NEW S \in SUBSET (1 .. n), S # {}
    PROVE  Max(S) \in S /\ \A y \in S : Max(S) >= y
<1> DEFINE T == {n - x : x \in S}
<1>1. \A x \in S : x \in Nat /\ n - x \in Nat
  OBVIOUS
<1>2. T \subseteq Nat /\ T # {}
  BY <1>1, Zenon
<1>3. PICK t \in T : \A u \in T : ~(<<u, t>> \in OpToRel(<, Nat))
  BY <1>2, WFMin, NatLessThanWellFounded, Zenon
<1>4. \A u \in T : ~(u < t)
  BY <1>2, <1>3, Zenon DEF OpToRel
<1>5. PICK x \in S : t = n - x
  OBVIOUS
<1>6. ASSUME NEW y \in S
      PROVE  x >= y
  <2>1. ~(n - y < n - x)
    BY <1>4, <1>5
  <2> QED
    BY <1>1, <2>1
<1> QED
  BY <1>6, Zenon DEF Max

\* The packets numbered and encrypted do not change behind the end of the wire.
LEMMA WireGrows ==
    ASSUME wire \in Seq(PacketType), NEW p \in PacketType, wire' = Append(wire, p)
    PROVE  /\ \A o : \A n \in 0 .. Len(wire) :
                 /\ Numbered(o, n)' = Numbered(o, n) /\ StreamEnd(o, n)' = StreamEnd(o, n)
                 /\ Encrypted(o, n)' = Encrypted(o, n)
           /\ \A o : /\ Numbered(o, Len(wire))' = IF p.ctr = o
                          THEN Numbered(o, Len(wire)) \cup {Len(wire) + 1} ELSE Numbered(o, Len(wire))
                     /\ Encrypted(o, Len(wire))' = IF Encrypts(p) /\ p.key = o
                          THEN Encrypted(o, Len(wire)) \cup {Len(wire) + 1} ELSE Encrypted(o, Len(wire))
<1>1. /\ Len(wire) \in Nat /\ Len(wire') = Len(wire) + 1
      /\ DOMAIN wire = 1 .. Len(wire) /\ DOMAIN wire' = 1 .. Len(wire) + 1
      /\ \A k \in DOMAIN wire : wire'[k] = wire[k]
      /\ wire'[Len(wire) + 1] = p
  BY OneMoreOnWire
<1>2. ASSUME NEW n \in 0 .. Len(wire), NEW j \in 1 .. n
      PROVE  wire'[j] = wire[j]
  BY <1>1
<1>3. ASSUME NEW o, NEW n \in 0 .. Len(wire)
      PROVE  Numbered(o, n)' = Numbered(o, n) /\ Encrypted(o, n)' = Encrypted(o, n)
  BY <1>2 DEF Numbered, Encrypted, Encrypts
<1>4. ASSUME NEW o, NEW n \in 0 .. Len(wire)
      PROVE  StreamEnd(o, n)' = StreamEnd(o, n)
  <2>1. CASE Encrypted(o, n) = {}
    BY <1>3, <2>1 DEF StreamEnd
  <2>2. CASE Encrypted(o, n) # {}
    <3> DEFINE z == Max(Encrypted(o, n))
    <3>1. n \in Nat /\ Encrypted(o, n) \in SUBSET (1 .. n)
      BY <1>1 DEF Encrypted
    <3>2. z \in 1 .. n
      BY <2>2, <3>1, Latest, Zenon
    <3>3. wire'[z] = wire[z]
      BY <1>2, <3>2
    <3> QED
      BY <1>3, <2>2, <3>3, Zenon DEF StreamEnd
  <2> QED
    BY <2>1, <2>2
<1>5. 1 .. Len(wire') = (1 .. Len(wire)) \cup {Len(wire) + 1}
  BY <1>1
<1>6. ASSUME NEW o
      PROVE  Numbered(o, Len(wire))' = IF p.ctr = o
                THEN Numbered(o, Len(wire)) \cup {Len(wire) + 1} ELSE Numbered(o, Len(wire))
  BY <1>1, <1>5 DEF Numbered
<1>7. ASSUME NEW o
      PROVE  Encrypted(o, Len(wire))' = IF Encrypts(p) /\ p.key = o
                THEN Encrypted(o, Len(wire)) \cup {Len(wire) + 1} ELSE Encrypted(o, Len(wire))
  BY <1>1, <1>5 DEF Encrypted, Encrypts
<1> QED
  BY <1>3, <1>4, <1>6, <1>7, Zenon

LEMMA Count ==
    ASSUME NEW o, NEW n \in Nat
    PROVE  /\ IsFiniteSet(Numbered(o, n)) /\ Cardinality(Numbered(o, n)) \in Nat
           /\ n + 1 \notin Numbered(o, n)
<1>1. Numbered(o, n) \subseteq 1 .. n
  BY DEF Numbered
<1>2. IsFiniteSet(1 .. n)
  BY FS_Interval
<1> QED
  BY <1>1, <1>2, FS_Subset, FS_CardinalityType

\* Steps that leave the counters and the wire alone.
LEMMA NumbersKept ==
    ASSUME TypeOK, NumberInv, UNCHANGED <<counter, wire>>, NEW g \in Goroutine, OthersKept(g),
           pc'[g] \in {"value", "key", "xor", "raw"} <=> pc[g] \in {"value", "key", "xor", "raw"},
           pc[g] \in {"value", "key", "xor", "raw"} => frame'[g].ctr = frame[g].ctr,
           pc'[g] = "store" => frame'[g].value = counter[frame'[g].ctr],
           pc'[g] \in {"key", "xor", "raw"} => frame'[g].seq = counter[frame'[g].ctr] % SeqModulus
    PROVE  NumberInv'
<1>1. \A o : Ahead(o)' = Ahead(o)
  BY DEF Ahead, OthersKept
<1>2. \A o, n : Numbered(o, n)' = Numbered(o, n)
  BY Zenon DEF Numbered
<1>3. WireNumbered'
  BY <1>2, Zenon DEF NumberInv, WireNumbered
<1>4. \A h \in Goroutine :
         /\ pc'[h] = "store" => frame'[h].value = counter'[frame'[h].ctr]
         /\ pc'[h] \in {"key", "xor", "raw"} => frame'[h].seq = counter'[frame'[h].ctr] % SeqModulus
  BY DEF NumberInv, OthersKept
<1> QED
  BY <1>1, <1>2, <1>3, <1>4 DEF NumberInv

LEMMA StoreKeepsNumbers ==
    ASSUME TypeOK, NumberInv, NEW g \in Goroutine, Alone(g), StoreCounter(g)
    PROVE  NumberInv'
<1> DEFINE c == frame[g].ctr
<1>1. c \in Object
  BY DEF TypeOK, FrameType
<1>2. /\ UNCHANGED <<frame, wire>> /\ pc[g] = "store" /\ pc'[g] = "value"
      /\ counter' = [counter EXCEPT ![c] = frame[g].value + 1]
  BY <1>1 DEF StoreCounter, Goto, TypeOK
<1>3. \A h \in Goroutine : h # g => pc[h] \in {"idle", "resetCipher"} /\ pc'[h] = pc[h]
  BY DEF Alone, StoreCounter, Goto, TypeOK
<1>4. frame[g].value = counter[c]
  BY <1>2 DEF NumberInv
<1>5. \A o \in Object : Ahead(o) = 0 /\ Ahead(o)' = IF o = c THEN 1 ELSE 0
  BY <1>2, <1>3 DEF Ahead
<1>6. \A o, n : Numbered(o, n)' = Numbered(o, n)
  BY <1>2 DEF Numbered
<1>7. Len(wire) \in Nat
  BY DEF TypeOK
<1>8. ASSUME NEW o \in Object
      PROVE  counter'[o] = Cardinality(Numbered(o, Len(wire)))' + Ahead(o)'
  <2>1. counter[o] = Cardinality(Numbered(o, Len(wire))) + 0 /\ counter[o] \in Nat
    BY <1>5 DEF NumberInv, TypeOK
  <2>2. counter'[o] = counter[o] + Ahead(o)'
    BY <1>1, <1>2, <1>4, <1>5, <2>1, SMTT(30) DEF TypeOK
  <2> QED
    BY <1>2, <1>6, <1>7, <2>1, <2>2, Count
<1>9. WireNumbered'
  BY <1>2, <1>6, Zenon DEF NumberInv, WireNumbered
<1> QED
  BY <1>2, <1>3, <1>8, <1>9 DEF NumberInv

LEMMA RawKeepsNumbers ==
    ASSUME TypeOK, NumberInv, NEW g \in Goroutine, Alone(g), SendRaw(g)
    PROVE  NumberInv'
<1>0. frame[g].ctr \in Object /\ wire \in Seq(PacketType) /\ Len(wire) \in Nat
  <2>1. frame[g] \in FrameType /\ wire \in Seq(PacketType)
    BY Zenon DEF TypeOK
  <2>2. frame[g].ctr \in Object
    BY <2>1 DEF FrameType
  <2> QED
    BY <2>1, <2>2
<1>1. PICK c \in Object, L \in Nat : c = frame[g].ctr /\ L = Len(wire)
  BY <1>0
<1>2. counter' = counter /\ pc[g] = "raw" /\ pc'[g] = "load"
  BY <1>0, RawStep, Zenon DEF TypeOK
<1>3. PICK p \in PacketType : wire' = Append(wire, p) /\ p.ctr = c /\ p.seq = frame[g].seq
  BY <1>0, <1>1, RawStep
<1>4. \A h \in Goroutine : h # g => pc[h] \in {"idle", "resetCipher"} /\ pc'[h] = pc[h]
  BY Zenon DEF Alone, SendRaw, Goto, TypeOK
<1>5. \A o \in Object : Ahead(o)' = 0 /\ Ahead(o) = IF o = c THEN 1 ELSE 0
  BY <1>1, <1>2, <1>4 DEF Ahead
<1>6. \A o : Numbered(o, Len(wire))' = IF o = c THEN Numbered(o, L) \cup {L + 1} ELSE Numbered(o, L)
  BY <1>0, <1>1, <1>3, WireGrows, ZenonT(30)
<1>7. \A o : \A n \in 0 .. L : Numbered(o, n)' = Numbered(o, n)
  BY <1>0, <1>1, <1>3, WireGrows
<1>8. \A o \in Object : /\ Cardinality(Numbered(o, L)) \in Nat
                        /\ Cardinality(Numbered(o, Len(wire)))' = Cardinality(Numbered(o, L)) + Ahead(o)
  <2> TAKE o \in Object
  <2>1. /\ IsFiniteSet(Numbered(o, L)) /\ Cardinality(Numbered(o, L)) \in Nat
        /\ L + 1 \notin Numbered(o, L)
    BY Count
  <2>2. Cardinality(Numbered(o, L) \cup {L + 1}) = Cardinality(Numbered(o, L)) + 1
    BY <2>1, FS_AddElement, Zenon
  <2>3. CASE o = c
    BY <1>5, <1>6, <2>1, <2>2, <2>3, Zenon
  <2>4. CASE o # c
    <3>1. Numbered(o, Len(wire))' = Numbered(o, L) /\ Ahead(o) = 0
      BY <1>5, <1>6, <2>4, Zenon
    <3> QED
      BY <2>1, <3>1
  <2> QED
    BY <2>3, <2>4
<1>9. \A o \in Object : counter'[o] = Cardinality(Numbered(o, Len(wire)))' + Ahead(o)'
  BY <1>1, <1>2, <1>5, <1>8 DEF NumberInv
<1>10. WireNumbered'
  <2> SUFFICES ASSUME NEW k \in DOMAIN wire'
               PROVE  wire'[k].seq = Cardinality(Numbered(wire[k].ctr, k))' % SeqModulus
    BY DEF WireNumbered
  <2>1. /\ Len(wire') = L + 1 /\ DOMAIN wire = 1 .. L /\ DOMAIN wire' = 1 .. L + 1
        /\ \A j \in DOMAIN wire : wire'[j] = wire[j]
        /\ wire'[L + 1] = p
    BY <1>0, <1>1, <1>3, OneMoreOnWire, Zenon
  <2>2. CASE k \in DOMAIN wire
    BY <1>7, <2>1, <2>2 DEF NumberInv, WireNumbered
  <2>3. CASE k = L + 1
    <3>1. frame[g].seq = counter[c] % SeqModulus
      BY <1>1, <1>2, SMTT(30) DEF NumberInv
    <3>2. Cardinality(Numbered(c, Len(wire)))' = counter[c]
      BY <1>1, <1>8 DEF NumberInv
    <3> QED
      BY <1>3, <2>1, <2>3, <3>1, <3>2, SMTT(30)
  <2> QED
    BY <1>1, <2>1, <2>2, <2>3
<1> QED
  BY <1>2, <1>4, <1>9, <1>10 DEF NumberInv

LEMMA NextKeepsNumbers ==
    ASSUME TypeOK, TurnInv, turns, NumberInv, [Next]_vars
    PROVE  NumberInv'
<1>1. ASSUME NEW g \in Goroutine, StartSend(g) \/ EndSend(g)
      PROVE  NumberInv'
  <2>1. PICK to \in {"idle", "load"}, f \in FrameType :
           pc' = [pc EXCEPT ![g] = to] /\ frame' = [frame EXCEPT ![g] = f]
    BY <1>1, LocalSteps
  <2>2. OthersKept(g) /\ pc'[g] \in {"idle", "load"}
    BY <2>1, OnlyOne, Zenon
  <2>3. UNCHANGED <<counter, wire>> /\ pc[g] \in {"idle", "load"}
    BY <1>1, LocalSteps
  <2> QED
    BY <2>2, <2>3, NumbersKept
<1>2. ASSUME NEW g \in Goroutine, LoadCounter(g)
      PROVE  NumberInv'
  <2>1. PICK f \in FrameType : /\ frame' = [frame EXCEPT ![g] = f]
                               /\ f.ctr = sequenceIDOut /\ f.value = counter[sequenceIDOut]
    BY <1>2, LoadStep, Zenon
  <2>2. UNCHANGED <<counter, wire>> /\ pc[g] = "load" /\ pc' = [pc EXCEPT ![g] = "store"]
    BY <1>2, LoadStep, Zenon
  <2>3. OthersKept(g) /\ pc'[g] = "store" /\ frame'[g] = f
    BY <2>1, <2>2, OnlyOne, Zenon
  <2> QED
    BY <2>1, <2>2, <2>3, NumbersKept
<1>3. ASSUME NEW g \in Goroutine, ReadValue(g)
      PROVE  NumberInv'
  <2>1. PICK f \in FrameType : /\ frame' = [frame EXCEPT ![g] = f] /\ f.ctr = frame[g].ctr
                               /\ f.seq = counter[f.ctr] % SeqModulus
    BY <1>3, ValueStep
  <2>2. PICK to \in {"key", "raw"} : pc' = [pc EXCEPT ![g] = to]
    BY <1>3, ValueStep
  <2>3. UNCHANGED <<counter, wire>> /\ pc[g] = "value"
    BY <1>3, ValueStep
  <2>4. OthersKept(g) /\ pc'[g] = to /\ frame'[g] = f
    BY <2>1, <2>2, OnlyOne, Zenon
  <2> QED
    BY <2>1, <2>2, <2>3, <2>4, NumbersKept
<1>4. ASSUME NEW g \in Goroutine, ReadKey(g) \/ WriteKey(g)
      PROVE  NumberInv'
  <2>1. PICK f : frame' = [frame EXCEPT ![g] = f] /\ f.ctr = frame[g].ctr /\ f.seq = frame[g].seq
    <3>1. CASE ReadKey(g)
      BY <3>1, KeyStep
    <3>2. CASE WriteKey(g)
      <4>1. frame' = [frame EXCEPT ![g] = frame[g]]
        BY <3>2, WriteStep, Zenon DEF TypeOK
      <4> QED
        BY <4>1, Zenon
    <3> QED
      BY <1>4, <3>1, <3>2, Zenon
  <2>2. PICK to \in {"xor", "raw"} : pc' = [pc EXCEPT ![g] = to]
    BY <1>4, KeyStep, WriteStep, Zenon
  <2>3. UNCHANGED <<counter, wire>> /\ pc[g] \in {"key", "xor"}
    BY <1>4, KeyStep, WriteStep, Zenon
  <2>4. OthersKept(g) /\ pc'[g] = to /\ frame'[g] = f
    BY <2>1, <2>2, OnlyOne, Zenon
  <2>5. frame[g].seq = counter[frame[g].ctr] % SeqModulus
    BY <2>3 DEF NumberInv
  <2> QED
    BY <2>1, <2>2, <2>3, <2>4, <2>5, NumbersKept
<1>5. ASSUME NEW g \in Goroutine, StoreCounter(g) \/ SendRaw(g)
      PROVE  NumberInv'
  <2>1. InSend(g)
    BY <1>5, Zenon DEF StoreCounter, SendRaw, Goto, InSend
  <2> QED
    BY <1>5, <2>1, OneInSend, StoreKeepsNumbers, RawKeepsNumbers
<1>6. ASSUME NEW g \in Goroutine, ResetCounter(g) \/ ResetCipher(g)
      PROVE  NumberInv'
  <2>1. /\ UNCHANGED <<counter, wire, frame>> /\ OthersKept(g)
        /\ pc[g] \in {"idle", "resetCipher"} /\ pc'[g] \in {"idle", "resetCipher"}
    BY <1>6, Zenon DEF ResetCounter, ResetCipher, Goto, TypeOK, OthersKept
  <2> QED
    BY <2>1, NumbersKept
<1>7. CASE UNCHANGED vars
  BY <1>7 DEF vars, NumberInv, WireNumbered, Ahead, Numbered
<1> QED
  BY <1>1, <1>2, <1>3, <1>4, <1>5, <1>6, <1>7, Zenon DEF Next, Stopped

\* However many goroutines send to the client and reset it, the packets of every
\* counter go out numbered 1, 2, 3, ... modulo 2^16 until two Sends overlap.
THEOREM NumbersGoOut == Spec => []NumbersInOrder
<1>1. Init => TurnInv /\ (turns => NumberInv)
  <2> SUFFICES ASSUME Init
               PROVE  TurnInv /\ NumberInv
    OBVIOUS
  <2>1. \A o : Numbered(o, Len(wire)) = {} /\ Ahead(o) = 0
    BY DEF Init, Numbered, Ahead
  <2>2. \A o \in Object : counter[o] = Cardinality(Numbered(o, Len(wire))) + Ahead(o)
    <3>1. Cardinality({}) = 0
      BY FS_EmptySet
    <3>2. \A o : Cardinality(Numbered(o, Len(wire))) = 0 /\ Ahead(o) = 0
      BY <2>1, <3>1, Zenon
    <3>3. \A o \in Object : counter[o] = 0
      BY DEF Init
    <3> QED
      BY <3>2, <3>3
  <2> QED
    BY <2>2 DEF Init, TurnInv, InSend, NumberInv, WireNumbered
<1>2. SendInv /\ TurnInv /\ (turns => NumberInv) /\ [Next]_vars => TurnInv' /\ (turns' => NumberInv')
  BY NextKeepsTurns, NextKeepsNumbers, TurnsStep DEF SendInv
<1>3. (turns => NumberInv) => NumbersInOrder
  BY Zenon DEF NumberInv, NumbersInOrder, WireNumbered
<1> QED
  BY <1>1, <1>2, <1>3, SendInvariance, PTL DEF Spec

\* Steps that leave the keystreams and the wire alone.
LEMMA KeysKept ==
    ASSUME TypeOK, KeyInv, UNCHANGED <<keystream, wire>>, NEW g \in Goroutine, OthersKept(g),
           pc'[g] = "raw" /\ Encrypts(frame'[g]) <=> pc[g] = "raw" /\ Encrypts(frame[g]),
           pc[g] = "raw" => frame'[g] = frame[g],
           pc'[g] = "xor" => frame'[g].pos = keystream[frame'[g].key],
           pc'[g] \in {"key", "xor"} => Encrypts(frame'[g])
    PROVE  KeyInv'
<1>0. \A h \in Goroutine : Encrypts(frame[h])' <=> Encrypts(frame'[h])
  BY Zenon DEF Encrypts
<1>1. \A o : Drawn(o)' = Drawn(o)
  BY <1>0 DEF Drawn, OthersKept
<1>2. \A o, n : StreamEnd(o, n)' = StreamEnd(o, n)
  BY Zenon DEF StreamEnd, Encrypted, Encrypts
<1>3. WireEncrypted'
  BY <1>2, SMTT(30) DEF KeyInv, WireEncrypted, Encrypts
<1>4. \A h \in Goroutine : pc'[h] = "raw" /\ Encrypts(frame'[h]) =>
         pc[h] = "raw" /\ Encrypts(frame[h]) /\ frame'[h] = frame[h]
  BY Zenon DEF OthersKept
<1>5. \A h \in Goroutine : pc'[h] = "raw" /\ Encrypts(frame'[h]) =>
         /\ keystream'[frame'[h].key] = frame'[h].pos + frame'[h].size
         /\ frame'[h].pos = StreamEnd(frame[h].key, Len(wire))'
  BY <1>2, <1>4, Zenon DEF KeyInv
<1>6. \A h \in Goroutine : /\ pc'[h] = "xor" => frame'[h].pos = keystream'[frame'[h].key]
                           /\ pc'[h] \in {"key", "xor"} => Encrypts(frame'[h])
  BY Zenon DEF KeyInv, OthersKept
<1> QED
  BY <1>0, <1>1, <1>2, <1>3, <1>5, <1>6, Zenon DEF KeyInv

LEMMA WriteKeepsKeys ==
    ASSUME TypeOK, KeyInv, NEW g \in Goroutine, Alone(g), WriteKey(g)
    PROVE  KeyInv'
<1>1. \A h \in Goroutine : h # g => pc[h] \in {"idle", "resetCipher"} /\ pc'[h] = pc[h]
  BY DEF Alone, WriteKey, Goto, TypeOK
<1>2. /\ UNCHANGED <<frame, wire>> /\ pc[g] = "xor" /\ pc'[g] = "raw"
      /\ frame[g].key \in Object /\ frame[g].pos \in Nat /\ frame[g].size \in Nat
      /\ keystream' = [keystream EXCEPT ![frame[g].key] = frame[g].pos + frame[g].size]
  BY WriteStep DEF TypeOK
<1>3. Encrypts(frame[g]) /\ \A h : Encrypts(frame[h])' <=> Encrypts(frame[h])
  BY <1>2 DEF KeyInv, Encrypts
<1>4. \A o : ~Drawn(o) /\ Drawn(o)' = (o = frame[g].key)
  BY <1>1, <1>2, <1>3, Zenon DEF Drawn
<1>5. \A o, n : StreamEnd(o, n)' = StreamEnd(o, n)
  BY <1>2, Zenon DEF StreamEnd, Encrypted, Encrypts
<1>6. WireEncrypted'
  BY <1>2, <1>5 DEF KeyInv, WireEncrypted, Encrypts
<1>7. \A o \in Object : ~Drawn(o)' => keystream'[o] = StreamEnd(o, Len(wire))'
  BY <1>2, <1>4, <1>5, Zenon DEF KeyInv, TypeOK
<1>8. frame[g].pos = StreamEnd(frame[g].key, Len(wire))
  BY <1>2, <1>4 DEF KeyInv
<1>9. keystream'[frame[g].key] = frame[g].pos + frame[g].size
  BY <1>2, SMTT(30) DEF TypeOK
<1>10. /\ keystream'[frame'[g].key] = frame'[g].pos + frame'[g].size
       /\ frame'[g].pos = StreamEnd(frame[g].key, Len(wire))'
  BY <1>2, <1>5, <1>8, <1>9, Zenon
<1> QED
  BY <1>1, <1>2, <1>3, <1>6, <1>7, <1>10, Zenon DEF KeyInv

LEMMA RawKeepsKeys ==
    ASSUME TypeOK, KeyInv, NEW g \in Goroutine, Alone(g), SendRaw(g)
    PROVE  KeyInv'
<1>1. /\ \A h \in Goroutine : h # g => pc[h] \in {"idle", "resetCipher"} /\ pc'[h] = pc[h]
      /\ wire \in Seq(PacketType) /\ Len(wire) \in Nat
  BY SMTT(30) DEF Alone, SendRaw, Goto, TypeOK
<1>2. keystream' = keystream /\ pc[g] = "raw" /\ pc'[g] = "load"
  BY RawStep, Zenon DEF TypeOK
<1>3. PICK p \in PacketType :
         /\ wire' = Append(wire, p) /\ p.type = frame[g].type /\ p.size = frame[g].size
         /\ p.key = frame[g].key /\ p.pos = frame[g].pos
  BY RawStep, Zenon
<1>4. /\ Encrypts(p) => /\ keystream[p.key] = p.pos + p.size
                        /\ p.pos = StreamEnd(p.key, Len(wire))
      /\ p.pos \in Nat /\ p.size \in Nat /\ p.key \in Object
      /\ Encrypts(p) <=> Encrypts(frame[g])
  BY <1>2, <1>3 DEF KeyInv, Encrypts, PacketType
<1>5. PICK L \in Nat : L = Len(wire)
  BY <1>1, Zenon
<1>6. /\ Len(wire') = L + 1 /\ DOMAIN wire = 1 .. L /\ DOMAIN wire' = 1 .. L + 1
      /\ \A k \in DOMAIN wire : wire'[k] = wire[k]
      /\ wire'[L + 1] = p
  BY <1>1, <1>3, <1>5, OneMoreOnWire, SMTT(30)
<1>7. \A o : \A n \in 0 .. L : StreamEnd(o, n)' = StreamEnd(o, n) /\ Encrypted(o, n)' = Encrypted(o, n)
  BY <1>1, <1>3, <1>5, WireGrows
<1>8. ASSUME NEW o \in Object
      PROVE  keystream'[o] = StreamEnd(o, Len(wire))'
  <2>1. CASE Encrypts(p) /\ p.key = o
    <3> DEFINE S == Encrypted(o, L) \cup {L + 1}
    <3>1. Encrypted(o, Len(wire))' = S
      BY <1>1, <1>3, <1>5, <2>1, WireGrows, Zenon
    <3>2. S \in SUBSET (1 .. L + 1) /\ L + 1 \in S
      BY DEF Encrypted
    <3> HIDE DEF S
    <3>3. Max(S) \in S /\ \A y \in S : Max(S) >= y
      BY <3>2, Latest, L + 1 \in Nat, Zenon
    <3>4. Max(S) = L + 1
      <4>1. Max(S) \in 1 .. L + 1 /\ Max(S) >= L + 1
        BY <3>2, <3>3, Zenon
      <4> QED
        BY <4>1
    <3>5. StreamEnd(o, Len(wire))' = p.pos + p.size
      BY <1>6, <3>1, <3>2, <3>4, Zenon DEF StreamEnd
    <3> QED
      BY <1>2, <1>4, <2>1, <3>5
  <2>2. CASE ~(Encrypts(p) /\ p.key = o)
    <3>1. Encrypted(o, Len(wire))' = Encrypted(o, L)
      BY <1>1, <1>3, <1>5, <2>2, WireGrows, Zenon
    <3>2. Encrypted(o, L)' = Encrypted(o, L) /\ StreamEnd(o, L)' = StreamEnd(o, L)
      BY <1>7, SMTT(30)
    <3>3. StreamEnd(o, Len(wire))' = StreamEnd(o, L)
      BY <3>1, <3>2, Zenon DEF StreamEnd
    <3>4. ~Drawn(o)
      BY <1>1, <1>3, <1>4, <2>2, Zenon DEF Drawn
    <3> QED
      BY <1>2, <1>5, <3>3, <3>4, SMTT(30) DEF KeyInv
  <2> QED
    BY <2>1, <2>2, Zenon
<1>9. WireEncrypted'
  <2> SUFFICES ASSUME NEW k \in DOMAIN wire', Encrypts(wire'[k])
               PROVE  wire'[k].pos = StreamEnd(wire[k].key, k - 1)'
    BY DEF WireEncrypted, Encrypts
  <2>1. k - 1 \in 0 .. L
    BY <1>6, SMTT(30)
  <2>2. CASE k \in DOMAIN wire
    BY <1>6, <1>7, <2>1, <2>2, SMTT(30) DEF KeyInv, WireEncrypted
  <2>3. CASE k = L + 1
    <3>1. k - 1 = L
      BY <2>3, SMTT(30)
    <3> QED
      BY <1>4, <1>5, <1>6, <1>7, <2>1, <2>3, <3>1
  <2> QED
    BY <1>6, <2>2, <2>3
<1> QED
  BY <1>1, <1>2, <1>8, <1>9, Zenon DEF KeyInv

LEMMA NextKeepsKeys ==
    ASSUME TypeOK, TurnInv, turns, KeyInv, [Next]_vars
    PROVE  KeyInv'
<1>1. ASSUME NEW g \in Goroutine, StartSend(g) \/ EndSend(g)
      PROVE  KeyInv'
  <2>1. PICK to \in {"idle", "load"}, f \in FrameType :
           pc' = [pc EXCEPT ![g] = to] /\ frame' = [frame EXCEPT ![g] = f]
    BY <1>1, LocalSteps
  <2>2. OthersKept(g) /\ pc'[g] \in {"idle", "load"}
    BY <2>1, OnlyOne, Zenon
  <2>3. UNCHANGED <<keystream, wire>> /\ pc[g] \in {"idle", "load"}
    BY <1>1, LocalSteps
  <2> QED
    BY <2>2, <2>3, KeysKept
<1>2. ASSUME NEW g \in Goroutine, LoadCounter(g) \/ StoreCounter(g)
      PROVE  KeyInv'
  <2>1. PICK f : frame' = [frame EXCEPT ![g] = f]
    <3>1. CASE StoreCounter(g)
      <4>1. frame' = [frame EXCEPT ![g] = frame[g]]
        BY <3>1 DEF StoreCounter, TypeOK
      <4> QED
        BY <4>1, Zenon
    <3> QED
      BY <1>2, <3>1, LoadStep, Zenon
  <2>2. PICK to \in {"store", "value"} : pc' = [pc EXCEPT ![g] = to]
    BY <1>2, Zenon DEF LoadCounter, StoreCounter, Goto
  <2>3. UNCHANGED <<keystream, wire>> /\ pc[g] \in {"load", "store"}
    BY <1>2, Zenon DEF LoadCounter, StoreCounter, Goto
  <2>4. OthersKept(g) /\ pc'[g] = to
    BY <2>1, <2>2, OnlyOne, Zenon
  <2> QED
    BY <2>2, <2>3, <2>4, KeysKept
<1>3. ASSUME NEW g \in Goroutine, ReadValue(g)
      PROVE  KeyInv'
  <2>1. PICK f \in FrameType : /\ frame' = [frame EXCEPT ![g] = f]
                               /\ f.type = frame[g].type /\ f.size = frame[g].size
    BY <1>3, ValueStep
  <2>2. /\ UNCHANGED <<keystream, wire>> /\ pc[g] = "value"
        /\ pc' = [pc EXCEPT ![g] = IF Encrypts(frame[g]) THEN "key" ELSE "raw"]
    BY <1>3, ValueStep
  <2>3. /\ OthersKept(g) /\ frame'[g] = f
        /\ pc'[g] = IF Encrypts(frame[g]) THEN "key" ELSE "raw"
    BY <2>1, <2>2, OnlyOne, Zenon
  <2>4. Encrypts(frame'[g]) <=> Encrypts(frame[g])
    BY <2>1, <2>3 DEF Encrypts
  <2> QED
    BY <2>2, <2>3, <2>4, KeysKept
<1>4. ASSUME NEW g \in Goroutine, ReadKey(g)
      PROVE  KeyInv'
  <2>1. PICK f \in FrameType : /\ frame' = [frame EXCEPT ![g] = f]
                               /\ f.key = cipher /\ f.pos = keystream[cipher]
                               /\ f.type = frame[g].type /\ f.size = frame[g].size
    BY <1>4, KeyStep
  <2>2. UNCHANGED <<keystream, wire>> /\ pc[g] = "key" /\ pc' = [pc EXCEPT ![g] = "xor"]
    BY <1>4, KeyStep, Zenon
  <2>3. OthersKept(g) /\ frame'[g] = f /\ pc'[g] = "xor"
    BY <2>1, <2>2, OnlyOne, Zenon
  <2>4. Encrypts(frame'[g])
    BY <2>1, <2>2, <2>3 DEF KeyInv, Encrypts
  <2> QED
    BY <2>1, <2>2, <2>3, <2>4, KeysKept
<1>5. ASSUME NEW g \in Goroutine, WriteKey(g) \/ SendRaw(g)
      PROVE  KeyInv'
  <2>1. InSend(g)
    BY <1>5, Zenon DEF WriteKey, SendRaw, Goto, InSend
  <2> QED
    BY <1>5, <2>1, OneInSend, WriteKeepsKeys, RawKeepsKeys
<1>6. ASSUME NEW g \in Goroutine, ResetCounter(g) \/ ResetCipher(g)
      PROVE  KeyInv'
  <2>1. /\ UNCHANGED <<keystream, wire, frame>> /\ OthersKept(g)
        /\ pc[g] \in {"idle", "resetCipher"} /\ pc'[g] \in {"idle", "resetCipher"}
    BY <1>6, Zenon DEF ResetCounter, ResetCipher, Goto, TypeOK, OthersKept
  <2> QED
    BY <2>1, KeysKept, Zenon
<1>7. CASE UNCHANGED vars
  <2>1. /\ UNCHANGED <<keystream, wire, pc, frame>>
        /\ \A o, n : StreamEnd(o, n)' = StreamEnd(o, n)
    BY <1>7, Zenon DEF vars, StreamEnd, Encrypted, Encrypts
  <2> QED
    BY <2>1 DEF KeyInv, WireEncrypted, Drawn, Encrypts
<1> QED
  BY <1>1, <1>2, <1>3, <1>4, <1>5, <1>6, <1>7, Zenon DEF Next, Stopped

\* However many goroutines send to the client and reset it, until two Sends
\* overlap the Data of every cipher is encrypted with consecutive pieces of its
\* keystream in the order it is written: a Reset between two steps of Bytes moves
\* the packet to the new stream or leaves it in the old one, and shifts neither.
THEOREM KeystreamGoesOut == Spec => []KeystreamInOrder
<1>1. Init => TurnInv /\ (turns => KeyInv)
  <2> SUFFICES ASSUME Init
               PROVE  TurnInv /\ KeyInv
    OBVIOUS
  <2>1. \A o : Encrypted(o, Len(wire)) = {} /\ ~Drawn(o)
    BY DEF Init, Encrypted, Drawn
  <2>2. \A o \in Object : keystream[o] = StreamEnd(o, Len(wire))
    BY <2>1, Zenon DEF Init, StreamEnd
  <2> QED
    BY <2>2, SMTT(30) DEF Init, TurnInv, InSend, KeyInv, WireEncrypted
<1>2. SendInv /\ TurnInv /\ (turns => KeyInv) /\ [Next]_vars => TurnInv' /\ (turns' => KeyInv')
  BY NextKeepsTurns, NextKeepsKeys, TurnsStep DEF SendInv
<1>3. (turns => KeyInv) => KeystreamInOrder
  BY DEF KeyInv, KeystreamInOrder, WireEncrypted
<1> QED
  BY <1>1, <1>2, <1>3, SendInvariance, PTL DEF Spec

\* Remainders of numbers less than the modulus apart.
LEMMA Remainders ==
    ASSUME NEW a \in Nat, NEW b \in Nat, a < b, b - a < SeqModulus
    PROVE  a % SeqModulus # b % SeqModulus
<1> DEFINE M == SeqModulus
<1>1. M \in Nat /\ M > 0
  BY SmallTypes
<1> HIDE DEF M
<1> DEFINE q == a \div M
           r == b \div M
<1>2. a % M \in Int /\ q \in Int /\ a = M * q + (a % M)
  BY <1>1
<1>3. b % M \in Int /\ r \in Int /\ b = M * r + (b % M)
  BY <1>1
<1> HIDE DEF q, r
<1> SUFFICES ASSUME a % M = b % M
             PROVE  FALSE
  BY DEF M
<1>4. b - a = M * (r - q)
  BY <1>1, <1>2, <1>3
<1>5. PICK d \in Int : d = r - q /\ b - a = M * d
  BY <1>2, <1>3, <1>4
<1>6. d <= 0 => M * d <= 0
  BY <1>1
<1>7. d >= 1 => M * d >= M
  BY <1>1
<1> QED
  BY <1>1, <1>5, <1>6, <1>7 DEF M

\* Until two Sends overlap, Increment keeps its promise: no two packets of one
\* counter carry the same number before it wraps, so that what breaks it in the
\* run SendPathLostUpdate is the overlap alone.
THEOREM NumbersAreNew == Spec => [](turns => IncrementReturnsNew)
<1>1. TypeOK /\ NumbersInOrder => (turns => IncrementReturnsNew)
  <2> SUFFICES ASSUME TypeOK, NumbersInOrder, turns, NEW j \in DOMAIN wire, NEW k \in DOMAIN wire, NEW o,
                      o = wire[k].ctr, j < k, wire[j].ctr = o,
                      Cardinality(Numbered(o, k)) - Cardinality(Numbered(o, j)) < SeqModulus
               PROVE  wire[j].seq # wire[k].seq
    BY DEF IncrementReturnsNew
  <2>1. j \in Nat /\ k \in Nat /\ k > 0
    BY DEF TypeOK
  <2>2. Numbered(o, j) \subseteq Numbered(o, k) /\ k \in Numbered(o, k) /\ k \notin Numbered(o, j)
    BY <2>1 DEF Numbered
  <2>3. /\ IsFiniteSet(Numbered(o, k))
        /\ Cardinality(Numbered(o, j)) \in Nat /\ Cardinality(Numbered(o, k)) \in Nat
    BY <2>1, Count
  <2>4. Cardinality(Numbered(o, j)) < Cardinality(Numbered(o, k))
    BY <2>2, <2>3, FS_Subset
  <2> QED
    BY <2>3, <2>4, Remainders DEF NumbersInOrder
<1> QED
  BY <1>1, NumbersGoOut, TypeCorrect, PTL
=============================================================================
