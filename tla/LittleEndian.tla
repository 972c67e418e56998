---------------------------- MODULE LittleEndian ----------------------------
(***************************************************************************)
(* Integers as sequences of bytes, least significant first, as StreamOut   *)
(* writes and StreamIn reads them.  A byte has Base values: 256, or fewer  *)
(* where lengths that do not fit their field are to be reached.            *)
(***************************************************************************)
EXTENDS Integers, Sequences

\* WriteUInt8 .. WriteUInt64LE: the conversion keeps the low width bytes.
WriteUInt(base, width, n) == [k \in 1 .. width |-> (n \div base^(k - 1)) % base]

\* ReadUInt8 .. ReadUInt64LE.
ReadUInt(base, bytes) ==
    LET low[k \in 0 .. Len(bytes)] == IF k = 0 THEN 0 ELSE low[k - 1] + bytes[k] * base^(k - 1)
    IN  low[Len(bytes)]
=============================================================================
