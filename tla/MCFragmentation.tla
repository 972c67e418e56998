-------------------------- MODULE MCFragmentation --------------------------
(***************************************************************************)
(* Payload lengths for checking Fragmentation with TLC.                    *)
(***************************************************************************)
EXTENDS Fragmentation

\* Around every multiple of the fragment size that int16 tells apart, and
\* around the lengths at which int16 changes sign or wraps.
Near(n) == {m \in {n - 1, n, n + 1} : m >= 0}
EdgeLengths ==
    UNION {Near(n * FragmentSize) : n \in 0 .. 26}
        \cup UNION {Near(n) : n \in {32768, 65536 - FragmentSize, 65536, 65536 + FragmentSize,
                                     65536 + 32768, 131072}}
LongLengths == {n \in EdgeLengths : n > 32767}
=============================================================================
