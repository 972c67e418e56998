------------------------------ MODULE SendLoop ------------------------------
(***************************************************************************)
(* The arithmetic of Server.Send, at the width the code does it: the       *)
(* length of the data is converted to int16 before it is divided by, and   *)
(* compared with, the fragment size.                                       *)
(***************************************************************************)
EXTENDS Integers

CONSTANT FragmentSize   \* server.fragmentSize, an int16: 1300 in NewServer

ASSUME FragmentSizeAssumption == FragmentSize \in Nat \ {0} /\ FragmentSize < 32768

\* int16(n) for n >= 0.
Int16(n) == IF n % 65536 < 32768 THEN n % 65536 ELSE (n % 65536) - 65536

\* Division of an int16 by the fragment size; Go truncates towards zero.
Quotient(m) == IF m >= 0 THEN m \div FragmentSize ELSE -((-m) \div FragmentSize)

\* A slip: rounded up, with no empty last fragment for a whole multiple.
FragmentsRoundedUp(n) == Quotient(Int16(n) - 1)

\* fragments: the last value of the loop counter.
Fragments(n) == Quotient(Int16(n))

\* A slip: the last fragment is cut like the others.
IsShortNever(n) == FALSE

\* Whether what is left goes out as the last fragment.
IsShort(n) == Int16(n) < FragmentSize
=============================================================================
