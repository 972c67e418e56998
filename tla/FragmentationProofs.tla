------------------------- MODULE FragmentationProofs -------------------------
(***************************************************************************)
(* What one call of Server.Send writes, for every fragment size.           *)
(***************************************************************************)
EXTENDS Fragmentation, TLAPS

(***************************************************************************)
(* The loop runs once for every whole fragment left and once more: while   *)
(* the last fragment is still to come, fragments - i is the quotient of    *)
(* what is left, and written and data add up to the payload.  After it the *)
(* loop is over.                                                           *)
(***************************************************************************)
LoopInv ==
    /\ pc = "call" => data = payload /\ i = 0 /\ last.id # 0
    /\ last.id # 0 => written + data = payload
    /\ last.id = 0 => written = payload /\ i > fragments
    /\ pc # "call" /\ last.id # 0 => fragments - i = Quotient(Int16(data))
    /\ fragmentID > 0

\* What the proofs need of the fragment size.
LEMMA FragmentSizeType == FragmentSize \in Nat /\ FragmentSize > 0 /\ FragmentSize <= 32767
  BY FragmentSizeAssumption

\* Dividing by the fragment size after taking one fragment away.
LEMMA OneFragmentLess ==
    ASSUME NEW m \in Nat, m >= FragmentSize
    PROVE  Quotient(m - FragmentSize) = Quotient(m) - 1
<1> DEFINE F == FragmentSize
           q == m \div F
<1>1. F \in Nat /\ F > 0 /\ m \in Int
  BY FragmentSizeType
<1>2. q \in Int /\ m = F * q + (m % F) /\ m % F \in 0 .. (F - 1)
  BY <1>1
<1>3. m - F = F * (q - 1) + (m % F)
  BY <1>1, <1>2
<1>4. (m - F) \div F = q - 1
  BY <1>1, <1>2, <1>3
<1> QED
  BY <1>1, <1>4 DEF Quotient

\* What is left after a whole fragment, at the width of int16.
LEMMA Int16Less ==
    ASSUME NEW n \in Nat, ~IsShort(n)
    PROVE  /\ n >= FragmentSize
           /\ Int16(n) \in Nat /\ Int16(n) >= FragmentSize
           /\ Int16(n - FragmentSize) = Int16(n) - FragmentSize
  BY FragmentSizeType DEF IsShort, Int16

\* A length that counts as short has no whole fragment in it.
LEMMA ShortQuotient ==
    ASSUME NEW n \in Nat, IsShort(n)
    PROVE  Quotient(Int16(n)) \in Int /\ Quotient(Int16(n)) <= 0
<1> DEFINE m == Int16(n)
           F == FragmentSize
<1>1. F \in Nat /\ F > 0 /\ m \in Int /\ m < F
  BY FragmentSizeType DEF IsShort, Int16
<1>2. CASE m >= 0
  <2>1. m \div F = 0
    BY <1>1, <1>2
  <2> QED
    BY <1>2, <2>1 DEF Quotient
<1>3. CASE m < 0
  <2>1. -m \in Nat /\ (-m) \div F \in Nat
    BY <1>1, <1>3
  <2> QED
    BY <1>1, <1>3, <2>1 DEF Quotient
<1> QED
  BY <1>1, <1>2, <1>3

\* The loop counter's last value is an integer.
LEMMA FragmentsType == \A n \in Nat : Fragments(n) \in Int
<1> SUFFICES ASSUME NEW n \in Nat
             PROVE  Quotient(Int16(n)) \in Int
  BY DEF Fragments
<1>1. CASE IsShort(n)
  BY <1>1, ShortQuotient
<1>2. CASE ~IsShort(n)
  <2>1. Int16(n) \in Nat
    BY <1>2, Int16Less
  <2>2. FragmentSize \in Nat /\ FragmentSize > 0
    BY FragmentSizeType
  <2> QED
    BY <2>1, <2>2 DEF Quotient
<1> QED
  BY <1>1, <1>2

\* Send's variables keep their types; in particular data[:fragmentSize] never
\* cuts more than there is.
THEOREM TypeCorrect == Spec => []TypeOK
<1>1. Init => TypeOK
  BY LengthsAssumption DEF Init, TypeOK, NoFragment
<1>2. TypeOK /\ [Next]_vars => TypeOK'
  <2> SUFFICES ASSUME TypeOK, [Next]_vars
               PROVE  TypeOK'
    OBVIOUS
  <2> USE DEF TypeOK
  <2>1. CASE Call
    BY <2>1, FragmentsType DEF Call
  <2>2. CASE SendWhole
    <3>1. ~IsShort(data) /\ data \in Nat
      BY <2>2 DEF SendWhole
    <3>2. data >= FragmentSize
      BY <3>1, Int16Less
    <3>3. data - FragmentSize \in Nat /\ FragmentSize \in Nat
      BY <3>1, <3>2, FragmentSizeType
    <3> QED
      BY <2>2, <3>3 DEF SendWhole, SendFragment
  <2>3. CASE SendShort
    BY <2>3 DEF SendShort, SendFragment
  <2>4. CASE Return
    BY <2>4 DEF Return
  <2>5. CASE UNCHANGED vars
    BY <2>5 DEF vars
  <2> QED
    BY <2>1, <2>2, <2>3, <2>4, <2>5 DEF Next, Done
<1> QED
  BY <1>1, <1>2, PTL DEF Spec

LEMMA LoopInvInit == Init => LoopInv
  BY LengthsAssumption DEF Init, LoopInv, NoFragment

LEMMA LoopInvNext == TypeOK /\ LoopInv /\ [Next]_vars => LoopInv'
<1> SUFFICES ASSUME TypeOK, LoopInv, [Next]_vars
             PROVE  LoopInv'
  OBVIOUS
<1> USE DEF TypeOK, LoopInv
<1>1. CASE Call
  BY <1>1, FragmentsType DEF Call, Fragments
<1>2. CASE SendWhole
  <2>1. last.id # 0
    BY <1>2 DEF SendWhole
  <2>2. data >= FragmentSize /\ Quotient(Int16(data - FragmentSize)) = Quotient(Int16(data)) - 1
    BY <1>2, Int16Less, OneFragmentLess DEF SendWhole
  <2>3. last'.id # 0 /\ fragmentID' > 0
    BY <1>2 DEF SendWhole, SendFragment
  <2>4. written' + data' = payload'
    <3>1. FragmentSize \in Int /\ data \in Int /\ written \in Int
      BY FragmentSizeType
    <3>2. (written + FragmentSize) + (data - FragmentSize) = written + data
      BY <3>1
    <3> QED
      BY <1>2, <2>1, <3>2 DEF SendWhole, SendFragment
  <2>5. fragments' - i' = Quotient(Int16(data'))
    BY <1>2, <2>1, <2>2 DEF SendWhole
  <2> QED
    BY <1>2, <2>3, <2>4, <2>5 DEF SendWhole
<1>3. CASE SendShort
  <2>1. last.id # 0
    BY <1>3 DEF SendShort
  <2>2. fragments - i <= 0
    BY <1>3, <2>1, ShortQuotient DEF SendShort
  <2> QED
    BY <1>3, <2>1, <2>2 DEF SendShort, SendFragment
<1>4. CASE Return
  BY <1>4 DEF Return
<1>5. CASE UNCHANGED vars
  BY <1>5 DEF vars
<1> QED
  BY <1>1, <1>2, <1>3, <1>4, <1>5 DEF Next, Done

\* Whatever the length, Send hands no byte of the payload to SendFragment twice.
THEOREM NoByteTwice == Spec => []NothingTwice
<1>1. TypeOK /\ LoopInv => NothingTwice
  BY LengthsAssumption DEF TypeOK, LoopInv, NothingTwice
<1> QED
  BY <1>1, LoopInvInit, LoopInvNext, TypeCorrect, PTL DEF Spec

(***************************************************************************)
(* For the lengths an int16 holds the loop is also complete: the quotient  *)
(* is then never negative, so that the loop cannot end before the last     *)
(* fragment.                                                               *)
(***************************************************************************)
FitInv ==
    Fits => /\ pc # "call" /\ last.id # 0 => fragments - i >= 0
            /\ data <= 32767
            /\ last.size <= FragmentSize
            /\ last.id >= 0 => (last.id = 0 <=> last.size < FragmentSize)

\* The quotient of a length that an int16 holds.
LEMMA FitQuotient ==
    ASSUME NEW n \in Nat, n <= 32767
    PROVE  Int16(n) = n /\ Quotient(Int16(n)) >= 0
<1>1. Int16(n) = n
  BY DEF Int16
<1>2. FragmentSize \in Nat /\ FragmentSize > 0
  BY FragmentSizeType
<1>3. n \div FragmentSize >= 0
  BY <1>2
<1> QED
  BY <1>1, <1>3 DEF Quotient

LEMMA FitInvInit == Init => FitInv
<1> SUFFICES ASSUME Init, Fits
             PROVE  FitInv
  BY DEF FitInv
<1>1. last.id = -1 /\ last.size = 0 /\ pc = "call"
  BY DEF Init, NoFragment
<1>2. data \in Nat /\ data <= 32767
  BY LengthsAssumption DEF Init, Fits
<1> QED
  BY <1>1, <1>2, FragmentSizeType DEF FitInv

LEMMA FitInvNext == TypeOK /\ LoopInv /\ FitInv /\ [Next]_vars => FitInv'
<1> SUFFICES ASSUME TypeOK, LoopInv, FitInv, [Next]_vars, Fits'
             PROVE  FitInv'
  BY DEF FitInv
<1>0. Fits
  BY DEF Fits, Next, Call, SendWhole, SendShort, Return, Done, vars
<1> USE <1>0 DEF TypeOK, FitInv
<1>1. CASE Call
  <2>1. Quotient(Int16(data)) >= 0 /\ i = 0
    BY <1>1, FitQuotient DEF LoopInv, Call
  <2> QED
    BY <1>1, <2>1, FragmentsType DEF Call, Fragments
<1>2. CASE SendWhole
  <2>1. /\ data \in Nat /\ ~IsShort(data) /\ fragmentID # 0 /\ fragmentID > 0
        /\ FragmentSize \in Nat /\ FragmentSize > 0
    BY <1>2, FragmentSizeType DEF SendWhole, LoopInv
  <2>2. data' \in Nat /\ data' <= 32767
    BY <1>2, <2>1, Int16Less DEF SendWhole
  <2>3. last' = [id |-> fragmentID, size |-> FragmentSize]
    BY <1>2 DEF SendWhole, SendFragment
  <2>4. fragments' - i' >= 0
    <3>1. LoopInv'
      BY LoopInvNext
    <3>2. fragments' - i' = Quotient(Int16(data'))
      BY <1>2, <2>1, <2>3, <3>1 DEF SendWhole, LoopInv
    <3> QED
      BY <2>2, <3>2, FitQuotient
  <2> QED
    BY <2>1, <2>2, <2>3, <2>4
<1>3. CASE SendShort
  <2>1. /\ data \in Nat /\ data < FragmentSize
        /\ last' = [id |-> 0, size |-> data]
    BY <1>3, FitQuotient DEF SendShort, SendFragment, IsShort
  <2>2. last'.id = 0 /\ last'.size = data
    BY <2>1
  <2> QED
    BY <1>3, <2>1, <2>2, FragmentSizeType DEF SendShort
<1>4. CASE Return
  BY <1>4 DEF Return
<1>5. CASE UNCHANGED vars
  BY <1>5 DEF vars
<1> QED
  BY <1>1, <1>2, <1>3, <1>4, <1>5 DEF Next, Done

\* At the end nothing is missing.
ReturnInv == pc = "done" => i > fragments

LEMMA ReturnInvInit == Init => ReturnInv
  BY DEF Init, ReturnInv

LEMMA ReturnInvNext == TypeOK /\ ReturnInv /\ [Next]_vars => ReturnInv'
  BY DEF TypeOK, ReturnInv, Next, Call, SendWhole, SendShort, Return, Done, vars

\* Send sends every byte of a payload whose length fits an int16 before it
\* returns.
THEOREM SendIsComplete == Spec => []SendWritesAll
<1>1. TypeOK /\ LoopInv /\ FitInv /\ ReturnInv => SendWritesAll
  BY DEF TypeOK, LoopInv, FitInv, ReturnInv, SendWritesAll, SendWritesData
<1> QED
  BY <1>1, LoopInvInit, LoopInvNext, FitInvInit, FitInvNext, ReturnInvInit, ReturnInvNext,
     TypeCorrect, PTL DEF Spec

\* Of the same payloads every fragment fits, and exactly the last one is short
\* and numbered 0.
THEOREM SendFragmentsFit == Spec => []FragmentsFit
<1>1. TypeOK /\ LoopInv /\ FitInv /\ ReturnInv => FragmentsFit
  <2> SUFFICES ASSUME TypeOK, LoopInv, FitInv, ReturnInv, Fits
               PROVE  FragmentsFit
    BY DEF FragmentsFit
  <2>1. pc = "done" => last.id = 0
    BY DEF TypeOK, FitInv, ReturnInv
  <2>2. last.id = 0 => i > fragments
    BY DEF LoopInv
  <2> QED
    BY <2>1, <2>2 DEF FitInv, FragmentsFit
<1> QED
  BY <1>1, LoopInvInit, LoopInvNext, FitInvInit, FitInvNext, ReturnInvInit, ReturnInvNext,
     TypeCorrect, PTL DEF Spec
=============================================================================
