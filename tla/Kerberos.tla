------------------------------ MODULE Kerberos ------------------------------
(***************************************************************************)
(* Two ends that share a key, each with one KerberosEncryption, exchange   *)
(* messages.  An object has a single RC4 stream, which both Encrypt and    *)
(* Decrypt advance.  A message is its length and its place in the stream   *)
(* of its sender; a byte may be changed on the way, which the checksum     *)
(* tells and Decrypt prints.  No message is shorter than its checksum.     *)
(***************************************************************************)
EXTENDS Naturals, Sequences

CONSTANTS
    Lengths,        \* of the messages
    MaxMessages     \* bound on the messages encrypted

ASSUME KerberosAssumption == Lengths \subseteq Nat

VARIABLES
    pos,        \* end -> position of encryption.cipher
    inFlight,   \* end -> the messages it has encrypted and the other has not decrypted
    encrypted,  \* messages encrypted so far
    crossed,    \* some end encrypted while a message was on its way to it
    decrypted   \* what became of the last message decrypted

kerberosVars == <<pos, inFlight, encrypted, crossed, decrypted>>

End == {"a", "b"}
Other(e) == IF e = "a" THEN "b" ELSE "a"

KerberosInit ==
    /\ pos = [e \in End |-> 0]
    /\ inFlight = [e \in End |-> <<>>]
    /\ encrypted = 0 /\ crossed = FALSE
    /\ decrypted = [valid |-> TRUE, right |-> TRUE]

\* Encrypt, and the message is sent, intact or not.
Encrypt(e, n, intact) ==
    /\ encrypted < MaxMessages
    /\ pos' = [pos EXCEPT ![e] = @ + n]
    /\ inFlight' = [inFlight EXCEPT ![e] = Append(@, [at |-> pos[e], len |-> n, intact |-> intact])]
    /\ encrypted' = encrypted + 1
    /\ crossed' = (crossed \/ inFlight[Other(e)] # <<>>)
    /\ UNCHANGED decrypted

\* The checksum is over the encrypted bytes.
Validate(m) == m.intact

\* A slip: a message that is not valid is dropped before it is decrypted.
DecryptValid(e) ==
    /\ inFlight[Other(e)] # <<>>
    /\ LET m == Head(inFlight[Other(e)])
       IN  /\ pos' = IF Validate(m) THEN [pos EXCEPT ![e] = @ + m.len] ELSE pos
           /\ decrypted' = [valid |-> Validate(m), right |-> m.intact /\ m.at = pos[e]]
    /\ inFlight' = [inFlight EXCEPT ![Other(e)] = Tail(@)]
    /\ UNCHANGED <<encrypted, crossed>>

\* Decrypt goes on when the checksum is wrong.
Decrypt(e) ==
    /\ inFlight[Other(e)] # <<>>
    /\ LET m == Head(inFlight[Other(e)])
       IN  /\ pos' = [pos EXCEPT ![e] = @ + m.len]
           /\ decrypted' = [valid |-> Validate(m), right |-> m.intact /\ m.at = pos[e]]
    /\ inFlight' = [inFlight EXCEPT ![Other(e)] = Tail(@)]
    /\ UNCHANGED <<encrypted, crossed>>

KerberosStopped ==
    /\ encrypted = MaxMessages /\ \A e \in End : inFlight[e] = <<>>
    /\ UNCHANGED kerberosVars

KerberosNext ==
    \/ \E e \in End, n \in Lengths, intact \in BOOLEAN : Encrypt(e, n, intact)
    \/ \E e \in End : Decrypt(e)
    \/ KerberosStopped

KerberosSpec == KerberosInit /\ [][KerberosNext]_kerberosVars

\* With one stream for both directions the two ends stay in step as long as no
\* end encrypts while a message is on its way to it: then every message that
\* Validate accepts is decrypted to what was encrypted, even after messages that
\* it did not accept.
KerberosInStep == ~crossed /\ decrypted.valid => decrypted.right
=============================================================================
