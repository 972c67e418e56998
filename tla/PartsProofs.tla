----------------------------- MODULE PartsProofs -----------------------------
(***************************************************************************)
(* Proofs about the RC4 streams of two KerberosEncryption objects, the     *)
(* handlers that Emit starts, and the types DateTime and StationURL.       *)
(***************************************************************************)
EXTENDS Kerberos, Events, NexTypes, TLAPS

(***************************************************************************)
(* Kerberos.  While no message has crossed another, the messages in flight *)
(* go one way and lie end to end in the stream, from where the receiver is *)
(* to where the sender is.                                                 *)
(***************************************************************************)
Encrypted == [at : Nat, len : Nat, intact : BOOLEAN]

KerberosTypeOK ==
    /\ pos \in [End -> Nat]
    /\ inFlight \in [End -> Seq(Encrypted)]
    /\ crossed \in BOOLEAN
    /\ decrypted \in [valid : BOOLEAN, right : BOOLEAN]

\* What a message leaves the stream of its sender at.
Past(m) == m.at + m.len

Contiguous(q, from, to) ==
    /\ q = <<>> => from = to
    /\ q # <<>> => q[1].at = from /\ Past(q[Len(q)]) = to
    /\ \A k \in 1 .. Len(q) - 1 : q[k + 1].at = Past(q[k])

KerberosInv ==
    /\ KerberosTypeOK
    /\ KerberosInStep
    /\ ~crossed => \E e \in End : inFlight[Other(e)] = <<>>
                                    /\ Contiguous(inFlight[e], pos[Other(e)], pos[e])

LEMMA Ends == \A e \in End : Other(e) \in End /\ Other(e) # e /\ Other(Other(e)) = e
  BY DEF End, Other

\* One more message at the end of what is in flight.
LEMMA ContiguousAppend ==
    ASSUME NEW q \in Seq(Encrypted), NEW from \in Nat, NEW to \in Nat, Contiguous(q, from, to),
           NEW m \in Encrypted, m.at = to
    PROVE  Contiguous(Append(q, m), from, Past(m))
<1> DEFINE r == Append(q, m)
<1>1. Len(q) \in Nat /\ Len(r) = Len(q) + 1 /\ r # <<>> /\ r[Len(q) + 1] = m
  OBVIOUS
<1>2. \A k \in 1 .. Len(q) : r[k] = q[k]
  OBVIOUS
<1>3. q # <<>> => Len(q) > 0
  OBVIOUS
<1>4. q = <<>> => Len(q) = 0
  OBVIOUS
<1> HIDE DEF r
<1>5. r[1].at = from
  <2>1. CASE q = <<>>
    BY <1>1, <1>4, <2>1 DEF Contiguous
  <2>2. CASE q # <<>>
    BY <1>1, <1>2, <1>3, <2>2 DEF Contiguous
  <2> QED
    BY <2>1, <2>2
<1>6. ASSUME NEW k \in 1 .. Len(r) - 1
      PROVE  r[k + 1].at = Past(r[k])
  <2>1. CASE k = Len(q)
    BY <1>1, <1>2, <1>4, <1>6, <2>1 DEF Contiguous
  <2>2. CASE k # Len(q)
    BY <1>1, <1>2, <1>6, <2>2 DEF Contiguous
  <2> QED
    BY <2>1, <2>2
<1>7. Contiguous(r, from, Past(m))
  BY <1>1, <1>5, <1>6 DEF Contiguous
<1> QED
  BY <1>7 DEF r

LEMMA NoneLeft ==
    ASSUME NEW S, NEW t \in Seq(S)
    PROVE  (t = <<>>) <=> (Len(t) = 0)
  OBVIOUS

\* One message less at its beginning.
LEMMA ContiguousTail ==
    ASSUME NEW q \in Seq(Encrypted), NEW from \in Nat, NEW to \in Nat, Contiguous(q, from, to),
           q # <<>>
    PROVE  Head(q).at = from /\ Contiguous(Tail(q), from + Head(q).len, to)
<1> DEFINE r == Tail(q)
<1>1. Len(q) \in Nat \ {0} /\ Len(r) = Len(q) - 1 /\ Head(q) = q[1] /\ r \in Seq(Encrypted)
  OBVIOUS
<1>2. \A k \in 1 .. Len(r) : r[k] = q[k + 1]
  OBVIOUS
<1> HIDE DEF r
<1>3. (r = <<>>) <=> (Len(r) = 0)
  BY <1>1, NoneLeft, Zenon
<1>4. Head(q).at = from /\ Past(q[1]) = from + Head(q).len
  BY <1>1 DEF Contiguous, Past
<1>5. r = <<>> => Past(q[1]) = to
  <2>1. r = <<>> => Len(q) = 1
    BY <1>1, <1>3
  <2> QED
    BY <2>1, Zenon DEF Contiguous
<1>6. r # <<>> => r[1].at = Past(q[1]) /\ Past(r[Len(r)]) = to
  BY <1>1, <1>2, <1>3 DEF Contiguous
<1>7. ASSUME NEW k \in 1 .. Len(r) - 1
      PROVE  r[k + 1].at = Past(r[k])
  <2>1. k \in 1 .. Len(r) /\ k + 1 \in 1 .. Len(r) /\ k + 1 \in 1 .. Len(q) - 1
    BY <1>1
  <2>2. r[k] = q[k + 1] /\ r[k + 1] = q[(k + 1) + 1]
    BY <1>2, <2>1
  <2>3. q[(k + 1) + 1].at = Past(q[k + 1])
    BY <2>1 DEF Contiguous
  <2> QED
    BY <2>2, <2>3
<1>8. Contiguous(r, from + Head(q).len, to)
  BY <1>4, <1>5, <1>6, <1>7 DEF Contiguous
<1> QED
  BY <1>4, <1>8 DEF r

LEMMA EncryptKeepsStep ==
    ASSUME KerberosInv, NEW s \in End, NEW n \in Lengths, NEW intact \in BOOLEAN,
           Encrypt(s, n, intact)
    PROVE  KerberosInv'
<1> DEFINE m == [at |-> pos[s], len |-> n, intact |-> intact]
<1>1. KerberosTypeOK /\ Other(s) \in End /\ Other(s) # s
  BY Ends DEF KerberosInv
<1>2. m \in Encrypted /\ m.at = pos[s] /\ Past(m) = pos[s] + n /\ pos[s] + n \in Nat
  BY <1>1, KerberosAssumption DEF Encrypted, KerberosTypeOK, Past
<1>3. /\ pos' = [pos EXCEPT ![s] = pos[s] + n]
      /\ inFlight' = [inFlight EXCEPT ![s] = Append(inFlight[s], m)]
      /\ crossed' = (crossed \/ inFlight[Other(s)] # <<>>) /\ decrypted' = decrypted
  BY DEF Encrypt
<1> HIDE DEF m
<1>4. Append(inFlight[s], m) \in Seq(Encrypted)
  BY <1>1, <1>2 DEF KerberosTypeOK
<1>5. KerberosTypeOK'
  BY <1>1, <1>2, <1>3, <1>4 DEF KerberosTypeOK
<1>6. KerberosInStep'
  BY <1>1, <1>3 DEF KerberosInv, KerberosInStep, KerberosTypeOK
<1>7. ASSUME ~crossed'
      PROVE  \E e \in End : inFlight'[Other(e)] = <<>>
                              /\ Contiguous(inFlight'[e], pos'[Other(e)], pos'[e])
  <2>1. ~crossed /\ inFlight[Other(s)] = <<>>
    BY <1>1, <1>3, <1>7, Zenon DEF KerberosTypeOK
  <2>2. PICK e \in End : inFlight[Other(e)] = <<>> /\ Contiguous(inFlight[e], pos[Other(e)], pos[e])
    BY <2>1 DEF KerberosInv
  <2>3. Contiguous(inFlight[s], pos[Other(s)], pos[s])
    <3>1. CASE e = s
      BY <2>2, <3>1
    <3>2. CASE e # s
      <4>1. e = Other(s) /\ Other(e) = s
        BY <3>2 DEF End, Other
      <4>2. inFlight[s] = <<>> /\ pos[s] = pos[Other(s)]
        BY <2>1, <2>2, <4>1 DEF Contiguous
      <4> QED
        BY <4>2 DEF Contiguous
    <3> QED
      BY <3>1, <3>2
  <2>4. Contiguous(Append(inFlight[s], m), pos[Other(s)], Past(m))
    BY <1>1, <1>2, <2>3, ContiguousAppend DEF KerberosTypeOK
  <2>5. /\ inFlight'[s] = Append(inFlight[s], m) /\ inFlight'[Other(s)] = <<>>
        /\ pos'[s] = Past(m) /\ pos'[Other(s)] = pos[Other(s)]
    BY <1>1, <1>2, <1>3, <2>1 DEF KerberosTypeOK
  <2> QED
    BY <2>4, <2>5, Zenon
<1> QED
  BY <1>5, <1>6, <1>7 DEF KerberosInv

LEMMA DecryptKeepsStep ==
    ASSUME KerberosInv, NEW r \in End, Decrypt(r)
    PROVE  KerberosInv'
<1> DEFINE s == Other(r)
           m == Head(inFlight[s])
<1>1. KerberosTypeOK /\ s \in End /\ s # r /\ Other(s) = r
  BY Ends DEF KerberosInv
<1>2. /\ inFlight[s] # <<>> /\ pos' = [pos EXCEPT ![r] = pos[r] + m.len] /\ crossed' = crossed
      /\ decrypted' = [valid |-> m.intact, right |-> m.intact /\ m.at = pos[r]]
      /\ inFlight' = [inFlight EXCEPT ![s] = Tail(inFlight[s])]
  BY DEF Decrypt, Validate
<1>3. inFlight[s] \in Seq(Encrypted) /\ pos[r] \in Nat /\ pos[s] \in Nat
  BY <1>1 DEF KerberosTypeOK
<1>4. m \in Encrypted /\ Tail(inFlight[s]) \in Seq(Encrypted)
  BY <1>2, <1>3
<1> HIDE DEF s, m
<1>5. m.intact \in BOOLEAN /\ m.len \in Nat
  BY <1>4 DEF Encrypted
<1>6. KerberosTypeOK'
  <2>1. pos' \in [End -> Nat]
    BY <1>1, <1>2, <1>3, <1>5 DEF KerberosTypeOK
  <2>2. inFlight' \in [End -> Seq(Encrypted)]
    BY <1>1, <1>2, <1>4 DEF KerberosTypeOK
  <2>3. decrypted' \in [valid : BOOLEAN, right : BOOLEAN]
    BY <1>2, <1>5
  <2> QED
    BY <1>1, <1>2, <2>1, <2>2, <2>3 DEF KerberosTypeOK
<1>7. ASSUME ~crossed
      PROVE  /\ m.at = pos[r]
             /\ \E e \in End : inFlight'[Other(e)] = <<>>
                                 /\ Contiguous(inFlight'[e], pos'[Other(e)], pos'[e])
  <2>1. PICK e \in End : inFlight[Other(e)] = <<>> /\ Contiguous(inFlight[e], pos[Other(e)], pos[e])
    BY <1>7 DEF KerberosInv
  <2>2. e = s
    BY <1>1, <1>2, <2>1 DEF End, Other
  <2>3. m.at = pos[r] /\ Contiguous(Tail(inFlight[s]), pos[r] + m.len, pos[s])
    BY <1>1, <1>2, <1>3, <2>1, <2>2, ContiguousTail DEF m
  <2>4. /\ inFlight'[s] = Tail(inFlight[s]) /\ inFlight'[r] = <<>>
        /\ pos'[r] = pos[r] + m.len /\ pos'[s] = pos[s]
    BY <1>1, <1>2, <2>1, <2>2 DEF KerberosTypeOK
  <2> QED
    BY <1>1, <2>3, <2>4
<1>8. KerberosInStep'
  BY <1>2, <1>7, Zenon DEF KerberosInStep
<1> QED
  BY <1>2, <1>6, <1>7, <1>8 DEF KerberosInv

\* For messages of any lengths and any number of them: as long as no end
\* encrypts while a message is on its way to it, every message that Validate
\* accepts is decrypted with the keystream that encrypted it, since Decrypt
\* advances the stream for a message with a wrong checksum too.
THEOREM KerberosStaysInStep == KerberosSpec => []KerberosInStep
<1>1. KerberosInit => KerberosInv
  <2> SUFFICES ASSUME KerberosInit
               PROVE  KerberosInv
    OBVIOUS
  <2>1. KerberosTypeOK /\ KerberosInStep
    <3>1. pos \in [End -> Nat] /\ inFlight \in [End -> Seq(Encrypted)]
      BY DEF KerberosInit
    <3>2. decrypted.valid /\ decrypted.right /\ decrypted \in [valid : BOOLEAN, right : BOOLEAN]
      BY DEF KerberosInit
    <3> QED
      BY <3>1, <3>2, Zenon DEF KerberosInit, KerberosTypeOK, KerberosInStep
  <2>2. "a" \in End /\ Other("a") \in End
    BY DEF End, Other
  <2>3. inFlight["a"] = <<>> /\ inFlight[Other("a")] = <<>> /\ pos["a"] = 0 /\ pos[Other("a")] = 0
    BY <2>2 DEF KerberosInit
  <2>4. Contiguous(inFlight["a"], pos[Other("a")], pos["a"])
    BY <2>3 DEF Contiguous
  <2> QED
    BY <2>1, <2>2, <2>3, <2>4 DEF KerberosInv
<1>2. KerberosInv /\ [KerberosNext]_kerberosVars => KerberosInv'
  <2> SUFFICES ASSUME KerberosInv, [KerberosNext]_kerberosVars
               PROVE  KerberosInv'
    OBVIOUS
  <2>1. CASE UNCHANGED kerberosVars
    BY <2>1 DEF kerberosVars, KerberosInv, KerberosTypeOK, KerberosInStep, Contiguous
  <2> QED
    BY <2>1, EncryptKeepsStep, DecryptKeepsStep DEF KerberosNext, KerberosStopped
<1>3. KerberosInv => KerberosInStep
  BY DEF KerberosInv
<1> QED
  BY <1>1, <1>2, <1>3, PTL DEF KerberosSpec

-----------------------------------------------------------------------------
(***************************************************************************)
(* Events.  A listener goes through the four lists of its packet in order. *)
(* A handler is pending for a packet until the listener has started it, or *)
(* has passed the list it would be in.                                     *)
(***************************************************************************)
Event == {"Data", "Packet"}
Rank(event, kind) == (IF event = "Data" THEN 0 ELSE 2) + (IF kind = "generic" THEN 1 ELSE 2)

Handler == [kind : HandlerKind, event : Event]
Emission == [packet : 1 .. MaxPackets, event : Event, kind : HandlerKind, todo : SUBSET (1 .. MaxHandlers)]

EventTypeOK ==
    /\ version \in {"v0", "v1"}
    /\ handles \in Seq(Handler) /\ Len(handles) <= MaxHandlers
    /\ reading \in Seq(Nat) /\ Len(reading) <= MaxPackets
    /\ ran \in [1 .. MaxHandlers -> [1 .. MaxPackets -> Nat]]
    /\ emitting \in [Emitters -> Emission \cup {Idle}]

\* What a listener that is not idle is doing.
EmissionOK(l) ==
    emitting[l] # Idle =>
        /\ emitting[l].packet \in DOMAIN reading
        /\ emitting[l].kind \in {"generic", version}
        /\ \A h \in emitting[l].todo :
              /\ h \in DOMAIN handles
              /\ handles[h].kind = emitting[l].kind /\ handles[h].event = emitting[l].event
        /\ \A m \in Emitters : m # l => emitting[m].packet # emitting[l].packet

\* The handler h has yet to come in the emission e.
Awaits(e, h) == Rank(e.event, e.kind) < Rank(handles[h].event, handles[h].kind) \/ h \in e.todo

Concerned(h) == h \in DOMAIN handles /\ handles[h].kind \in {"generic", version}

RanOK(p, h) ==
    /\ ran[h][p] <= 1
    /\ ~Concerned(h) \/ p \notin DOMAIN reading => ran[h][p] = 0
    /\ \A l \in Emitters : emitting[l].packet = p /\ Concerned(h) /\ Awaits(emitting[l], h) =>
          ran[h][p] = 0
    /\ /\ Concerned(h) /\ p \in DOMAIN reading /\ h <= reading[p]
       /\ \A l \in Emitters : emitting[l].packet = p => ~Awaits(emitting[l], h)
       => ran[h][p] = 1

EventInv ==
    /\ EventTypeOK
    /\ \A p \in DOMAIN reading : reading[p] <= Len(handles)
    /\ \A l \in Emitters : EmissionOK(l)
    /\ \A p \in 1 .. MaxPackets, h \in 1 .. MaxHandlers : RanOK(p, h)

LEMMA Busy ==
    ASSUME EventTypeOK, NEW l \in Emitters
    PROVE  /\ emitting[l] # Idle => emitting[l] \in Emission /\ emitting[l].packet \in 1 .. MaxPackets
           /\ emitting[l] = Idle => emitting[l].packet = 0 /\ emitting[l].todo = {}
<1>1. emitting[l] = Idle => emitting[l].packet = 0 /\ emitting[l].todo = {}
  BY DEF Idle
<1>2. emitting[l] # Idle => emitting[l] \in Emission
  BY DEF EventTypeOK
<1> QED
  BY <1>1, <1>2 DEF Emission

\* What is in a list just read.
LEMMA Listed ==
    ASSUME EventTypeOK, NEW p \in 1 .. MaxPackets, NEW event \in Event, NEW kind \in HandlerKind
    PROVE  /\ List(p, event, kind) \in Emission
           /\ List(p, event, kind).packet = p
           /\ List(p, event, kind).event = event /\ List(p, event, kind).kind = kind
           /\ \A h : h \in List(p, event, kind).todo <=>
                 h \in DOMAIN handles /\ handles[h].kind = kind /\ handles[h].event = event
<1>1. {h \in DOMAIN handles : handles[h].kind = kind /\ handles[h].event = event} \subseteq 1 .. MaxHandlers
  BY EventAssumption DEF EventTypeOK
<1>2. List(p, event, kind) \in Emission
  BY <1>1 DEF List, Emission
<1> QED
  BY <1>2 DEF List

LEMMA RankValues ==
    /\ Rank("Data", "generic") = 1 /\ Rank("Packet", "generic") = 3
    /\ \A k \in {"v0", "v1"} : Rank("Data", k) = 2 /\ Rank("Packet", k) = 4
  BY DEF Rank

LEMMA Ranks ==
    ASSUME EventTypeOK, NEW h, Concerned(h)
    PROVE  /\ handles[h].event \in {"Data", "Packet"}
           /\ handles[h].kind = "generic" \/ (handles[h].kind = version /\ version \in {"v0", "v1"})
<1>1. handles[h] \in Handler
  BY DEF EventTypeOK, Concerned
<1> QED
  BY <1>1 DEF EventTypeOK, Concerned, Handler, Event

LEMMA OnKeepsEvents ==
    ASSUME EventInv, NEW kind \in HandlerKind, NEW event \in Event, On(kind, event)
    PROVE  EventInv'
<1>0. EventTypeOK
  BY DEF EventInv
<1> DEFINE n == [kind |-> kind, event |-> event]
<1>1. /\ handles' = Append(handles, n) /\ Len(handles) < MaxHandlers
      /\ version' = version /\ reading' = reading /\ emitting' = emitting /\ ran' = ran
  BY DEF On
<1>2. n \in Handler
  BY DEF Handler
<1> HIDE DEF n
<1>3. /\ handles' \in Seq(Handler) /\ Len(handles') = Len(handles) + 1 /\ Len(handles) \in Nat
      /\ DOMAIN handles = 1 .. Len(handles) /\ DOMAIN handles' = 1 .. Len(handles) + 1
      /\ \A h \in DOMAIN handles : handles'[h] = handles[h]
  BY <1>0, <1>1, <1>2 DEF EventTypeOK
<1>4. EventTypeOK'
  <2>1. Len(handles') <= MaxHandlers
    BY <1>1, <1>3, EventAssumption
  <2> QED
    BY <1>0, <1>1, <1>3, <2>1 DEF EventTypeOK
<1>5. \A p \in DOMAIN reading : reading[p] \in Nat /\ reading[p] <= Len(handles)
  BY <1>0 DEF EventInv, EventTypeOK
<1>6. \A h \in DOMAIN handles : h \in DOMAIN handles'
  BY <1>3
<1>7. ASSUME NEW l \in Emitters
      PROVE  EmissionOK(l)'
  BY <1>1, <1>3, <1>6 DEF EventInv, EmissionOK
<1>8. ASSUME NEW p \in 1 .. MaxPackets, NEW h \in 1 .. MaxHandlers
      PROVE  RanOK(p, h)'
  <2>1. RanOK(p, h)
    BY DEF EventInv
  <2>2. CASE h \in DOMAIN handles
    BY <1>1, <1>3, <1>6, <2>1, <2>2 DEF RanOK, Concerned, Awaits
  <2>3. CASE h \notin DOMAIN handles
    <3>1. ran[h][p] = 0
      BY <2>1, <2>3 DEF RanOK, Concerned
    <3>2. p \in DOMAIN reading => ~(h <= reading[p])
      BY <1>3, <1>5, <2>3
    <3> QED
      BY <1>1, <3>1, <3>2 DEF RanOK
  <2> QED
    BY <2>2, <2>3
<1>9. \A p \in DOMAIN reading : reading[p] <= Len(handles')
  BY <1>3, <1>5
<1> QED
  BY <1>1, <1>4, <1>7, <1>8, <1>9 DEF EventInv

LEMMA EmitKeepsEvents ==
    ASSUME EventInv, NEW l \in Emitters, EmitPacket(l)
    PROVE  EventInv'
<1>0. EventTypeOK
  BY DEF EventInv
<1> DEFINE q == Len(reading) + 1
           e == List(q, "Data", "generic")
<1>1. /\ emitting[l] = Idle /\ Len(reading) < MaxPackets
      /\ reading' = Append(reading, Len(handles)) /\ emitting' = [emitting EXCEPT ![l] = e]
      /\ version' = version /\ handles' = handles /\ ran' = ran
  BY DEF EmitPacket
<1>2. Len(reading) \in Nat /\ q \in 1 .. MaxPackets /\ q \notin DOMAIN reading
  BY <1>0, <1>1, EventAssumption DEF EventTypeOK
<1>3. /\ e \in Emission /\ e.packet = q /\ e.event = "Data" /\ e.kind = "generic"
      /\ \A h : h \in e.todo <=> h \in DOMAIN handles /\ handles[h].kind = "generic" /\ handles[h].event = "Data"
  BY <1>0, <1>2, Listed DEF Event, HandlerKind
<1>4. Len(handles) \in Nat
  BY <1>0 DEF EventTypeOK
<1>5. /\ reading' \in Seq(Nat) /\ Len(reading') = q /\ DOMAIN reading' = DOMAIN reading \cup {q}
      /\ reading'[q] = Len(handles) /\ \A p \in DOMAIN reading : reading'[p] = reading[p]
  BY <1>0, <1>1, <1>4 DEF EventTypeOK
<1> HIDE DEF q, e
<1>6. /\ emitting'[l] = e /\ \A m \in Emitters : m # l => emitting'[m] = emitting[m]
      /\ emitting' \in [Emitters -> Emission \cup {Idle}]
  BY <1>0, <1>1, <1>3 DEF EventTypeOK
<1>7. EventTypeOK'
  <2>1. Len(reading') <= MaxPackets
    BY <1>2, <1>5, EventAssumption
  <2> QED
    BY <1>0, <1>1, <1>5, <1>6, <2>1 DEF EventTypeOK
<1>8. \A m \in Emitters : emitting[m].packet # q
  BY <1>0, <1>2, Busy DEF EventInv, EmissionOK
<1>9. ASSUME NEW m \in Emitters
      PROVE  EmissionOK(m)'
  <2>1. CASE m = l
    BY <1>1, <1>3, <1>5, <1>6, <1>8, <2>1 DEF EmissionOK
  <2>2. CASE m # l
    <3>1. EmissionOK(m)
      BY DEF EventInv
    <3> QED
      BY <1>1, <1>3, <1>5, <1>6, <1>8, <2>2, <3>1 DEF EmissionOK
  <2> QED
    BY <2>1, <2>2
<1>10. ASSUME NEW p \in 1 .. MaxPackets, NEW h \in 1 .. MaxHandlers
       PROVE  RanOK(p, h)'
  <2>1. RanOK(p, h)
    BY DEF EventInv
  <2>2. CASE p = q
    <3>1. ran[h][p] = 0
      BY <1>2, <2>1, <2>2 DEF RanOK
    <3>2. Concerned(h) => Awaits(e, h)
      <4> SUFFICES ASSUME Concerned(h), h \notin e.todo
                   PROVE  1 < Rank(handles[h].event, handles[h].kind)
        BY <1>3, RankValues DEF Awaits
      <4>1. ~(handles[h].kind = "generic" /\ handles[h].event = "Data")
        BY <1>3 DEF Concerned
      <4> QED
        BY <1>0, <4>1, Ranks, RankValues
    <3> QED
      BY <1>1, <1>3, <1>6, <2>2, <3>1, <3>2 DEF RanOK, Concerned, Awaits
  <2>3. CASE p # q
    <3>1. \A m \in Emitters : emitting'[m].packet = p <=> emitting[m].packet = p
      BY <1>0, <1>1, <1>3, <1>6, <2>3, Busy
    <3>2. \A m \in Emitters : emitting[m].packet = p => emitting'[m] = emitting[m]
      BY <1>0, <1>1, <1>6, Busy
    <3> QED
      BY <1>1, <1>5, <2>1, <2>3, <3>1, <3>2, Zenon DEF RanOK, Concerned, Awaits
  <2> QED
    BY <2>2, <2>3
<1>11. \A p \in DOMAIN reading' : reading'[p] <= Len(handles')
  BY <1>1, <1>4, <1>5 DEF EventInv
<1> QED
  BY <1>7, <1>9, <1>10, <1>11 DEF EventInv

LEMMA StartKeepsEvents ==
    ASSUME EventInv, NEW l \in Emitters, NEW g \in DOMAIN handles, StartHandler(l, g)
    PROVE  EventInv'
<1>0. EventTypeOK /\ emitting[l] # Idle /\ emitting[l] \in Emission /\ EmissionOK(l)
  BY Busy DEF EventInv, StartHandler
<1> DEFINE q == emitting[l].packet
           e == [emitting[l] EXCEPT !.todo = emitting[l].todo \ {g}]
<1>1. /\ g \in emitting[l].todo
      /\ ran' = [ran EXCEPT ![g] = [ran[g] EXCEPT ![q] = ran[g][q] + 1]]
      /\ emitting' = [emitting EXCEPT ![l] = e]
      /\ version' = version /\ handles' = handles /\ reading' = reading
  BY DEF StartHandler
<1>2. /\ e \in Emission /\ e # Idle /\ e.packet = q /\ e.event = emitting[l].event
      /\ e.kind = emitting[l].kind /\ e.todo = emitting[l].todo \ {g}
  <2>1. e \in Emission
    BY <1>0 DEF Emission
  <2>2. e.packet = q /\ q \in 1 .. MaxPackets /\ Idle.packet = 0
    BY <1>0 DEF Emission, Idle
  <2> QED
    BY <1>0, <2>1, <2>2 DEF Emission
<1>3. /\ g \in 1 .. MaxHandlers /\ q \in 1 .. MaxPackets /\ ran[g][q] \in Nat
      /\ ran \in [1 .. MaxHandlers -> [1 .. MaxPackets -> Nat]]
  <2>1. emitting[l].todo \subseteq 1 .. MaxHandlers /\ q \in 1 .. MaxPackets
    BY <1>0 DEF Emission
  <2>2. ran \in [1 .. MaxHandlers -> [1 .. MaxPackets -> Nat]]
    BY <1>0 DEF EventTypeOK
  <2>3. g \in 1 .. MaxHandlers
    BY <1>1, <2>1
  <2> HIDE DEF q
  <2> QED
    BY <2>1, <2>2, <2>3, Zenon
<1> HIDE DEF q, e
<1>4. /\ emitting'[l] = e /\ \A m \in Emitters : m # l => emitting'[m] = emitting[m]
      /\ emitting' \in [Emitters -> Emission \cup {Idle}]
  BY <1>0, <1>1, <1>2 DEF EventTypeOK
<1>5. /\ ran' \in [1 .. MaxHandlers -> [1 .. MaxPackets -> Nat]] /\ ran'[g][q] = ran[g][q] + 1
      /\ \A p \in 1 .. MaxPackets, h \in 1 .. MaxHandlers : p # q \/ h # g => ran'[h][p] = ran[h][p]
  <2> DEFINE t == [ran[g] EXCEPT ![q] = ran[g][q] + 1]
  <2>1. ran[g] \in [1 .. MaxPackets -> Nat]
    BY <1>3
  <2>2. /\ t \in [1 .. MaxPackets -> Nat] /\ t[q] = ran[g][q] + 1
        /\ \A p \in 1 .. MaxPackets : p # q => t[p] = ran[g][p]
    BY <1>3, <2>1
  <2>3. ran' = [ran EXCEPT ![g] = t]
    BY <1>1
  <2> HIDE DEF t
  <2>4. ran' \in [1 .. MaxHandlers -> [1 .. MaxPackets -> Nat]] /\ ran'[g] = t
    BY <1>3, <2>2, <2>3
  <2>5. \A h \in 1 .. MaxHandlers : h # g => ran'[h] = ran[h]
    BY <1>3, <2>3
  <2> QED
    BY <2>2, <2>4, <2>5, Zenon
<1>6. EventTypeOK'
  BY <1>0, <1>1, <1>4, <1>5 DEF EventTypeOK
<1>7. ASSUME NEW m \in Emitters
      PROVE  EmissionOK(m)'
  <2>1. EmissionOK(m)
    BY DEF EventInv
  <2>2. \A i \in Emitters : emitting'[i].packet = emitting[i].packet
    BY <1>2, <1>4 DEF q
  <2>3. CASE m = l
    BY <1>0, <1>1, <1>2, <1>4, <2>1, <2>2, <2>3 DEF EmissionOK, q
  <2>4. CASE m # l
    BY <1>1, <1>4, <2>1, <2>2, <2>4 DEF EmissionOK
  <2> QED
    BY <2>3, <2>4
<1>8. ASSUME NEW p \in 1 .. MaxPackets, NEW h \in 1 .. MaxHandlers
      PROVE  RanOK(p, h)'
  <2>1. RanOK(p, h)
    BY DEF EventInv
  <2>2. CASE p = q /\ h = g
    <3>1. /\ Concerned(g) /\ q \in DOMAIN reading
          /\ Rank(e.event, e.kind) = Rank(handles[g].event, handles[g].kind)
      BY <1>0, <1>1, <1>2 DEF EmissionOK, Concerned, q
    <3>2. ran[g][q] = 0
      BY <1>1, <2>1, <2>2, <3>1 DEF RanOK, Awaits, q
    <3>3. ran'[g][q] = 1
      BY <1>5, <3>2
    <3>4. \A m \in Emitters : m # l => emitting[m].packet # q
      BY <1>0 DEF EmissionOK, q
    <3>5. Rank(e.event, e.kind) \in Nat
      BY DEF Rank
    <3>6. ~Awaits(e, g)
      BY <1>2, <3>1, <3>5 DEF Awaits
    <3> QED
      BY <1>1, <1>4, <2>2, <3>1, <3>3, <3>4, <3>6 DEF RanOK, Concerned, Awaits
  <2>3. CASE ~(p = q /\ h = g)
    <3>1. ran'[h][p] = ran[h][p]
      BY <1>5, <2>3
    <3>2. \A m \in Emitters : emitting'[m].packet = emitting[m].packet
      BY <1>2, <1>4 DEF q
    <3>3. \A m \in Emitters : emitting[m].packet = p =>
             /\ emitting'[m].event = emitting[m].event /\ emitting'[m].kind = emitting[m].kind
             /\ h \in emitting'[m].todo <=> h \in emitting[m].todo
      BY <1>2, <1>4, <2>3 DEF q
    <3> QED
      BY <1>1, <2>1, <3>1, <3>2, <3>3 DEF RanOK, Concerned, Awaits
  <2> QED
    BY <2>2, <2>3
<1> QED
  BY <1>1, <1>6, <1>7, <1>8 DEF EventInv

LEMMA NextListKeepsEvents ==
    ASSUME EventInv, NEW l \in Emitters, NextList(l)
    PROVE  EventInv'
<1>0. EventTypeOK /\ emitting[l] # Idle /\ emitting[l] \in Emission /\ EmissionOK(l)
  BY Busy DEF EventInv, NextList
<1> DEFINE e == emitting[l]
<1>1. PICK f : /\ emitting' = [emitting EXCEPT ![l] = f]
               /\ f = CASE e.kind = "generic" -> List(e.packet, e.event, version)
                        [] e.kind # "generic" /\ e.event = "Data" -> List(e.packet, "Packet", "generic")
                        [] OTHER -> Idle
  BY Zenon DEF NextList, PacketKind
<1>2. e.todo = {} /\ UNCHANGED <<version, handles, reading, ran>>
  BY DEF NextList
<1>3. /\ e.packet \in 1 .. MaxPackets /\ e.packet \in DOMAIN reading /\ e.event \in Event
      /\ e.kind \in {"generic", version} /\ version \in {"v0", "v1"}
  BY <1>0 DEF EmissionOK, Emission, EventTypeOK
<1>4. \/ /\ f \in Emission /\ f.packet = e.packet /\ f.kind \in {"generic", version}
         /\ \A h \in f.todo : /\ h \in DOMAIN handles
                              /\ handles[h].kind = f.kind /\ handles[h].event = f.event
         /\ \A h : Concerned(h) => (Awaits(f, h) <=> Awaits(e, h))
      \/ f = Idle /\ \A h : Concerned(h) => ~Awaits(e, h)
  <2>1. CASE e.kind = "generic"
    <3>1. f = List(e.packet, e.event, version)
      BY <1>1, <2>1
    <3>2. /\ f \in Emission /\ f.packet = e.packet /\ f.event = e.event /\ f.kind = version
          /\ \A h : h \in f.todo <=>
                h \in DOMAIN handles /\ handles[h].kind = version /\ handles[h].event = e.event
      BY <1>0, <1>3, <3>1, Listed DEF HandlerKind
    <3>3. ASSUME NEW h, Concerned(h)
          PROVE  Awaits(f, h) <=> Awaits(e, h)
      BY <1>0, <1>2, <1>3, <2>1, <3>2, <3>3, Ranks, RankValues DEF Awaits, Event, Concerned
    <3> QED
      BY <3>2, <3>3
  <2>2. CASE e.kind # "generic" /\ e.event = "Data"
    <3>1. f = List(e.packet, "Packet", "generic")
      BY <1>1, <2>2
    <3>2. /\ f \in Emission /\ f.packet = e.packet /\ f.event = "Packet" /\ f.kind = "generic"
          /\ \A h : h \in f.todo <=>
                h \in DOMAIN handles /\ handles[h].kind = "generic" /\ handles[h].event = "Packet"
      BY <1>0, <1>3, <3>1, Listed DEF HandlerKind, Event
    <3>3. ASSUME NEW h, Concerned(h)
          PROVE  Awaits(f, h) <=> Awaits(e, h)
      BY <1>0, <1>2, <1>3, <2>2, <3>2, <3>3, Ranks, RankValues DEF Awaits, Concerned
    <3> QED
      BY <3>2, <3>3
  <2>3. CASE e.kind # "generic" /\ e.event # "Data"
    <3>1. f = Idle
      BY <1>1, <2>3
    <3>2. ASSUME NEW h, Concerned(h)
          PROVE  ~Awaits(e, h)
      BY <1>0, <1>2, <1>3, <2>3, <3>2, Ranks, RankValues, SMTT(30) DEF Awaits, Event
    <3> QED
      BY <3>1, <3>2
  <2> QED
    BY <2>1, <2>2, <2>3
<1>5. /\ emitting'[l] = f /\ \A m \in Emitters : m # l => emitting'[m] = emitting[m]
      /\ emitting' \in [Emitters -> Emission \cup {Idle}]
  BY <1>0, <1>1, <1>4 DEF EventTypeOK
<1>6. EventTypeOK'
  BY <1>0, <1>2, <1>5 DEF EventTypeOK
<1>7. \A m \in Emitters : m # l => emitting[m].packet # e.packet
  BY <1>0 DEF EmissionOK
<1>8. f.packet = e.packet \/ (f = Idle /\ f.packet = 0)
  BY <1>4 DEF Idle
<1>9. ASSUME NEW m \in Emitters
      PROVE  EmissionOK(m)'
  <2>1. EmissionOK(m) /\ (emitting[m] # Idle => emitting[m].packet \in 1 .. MaxPackets)
    BY <1>0, Busy DEF EventInv
  <2>2. CASE m = l
    BY <1>2, <1>3, <1>4, <1>5, <1>7, <1>8, <2>2 DEF EmissionOK
  <2>3. CASE m # l
    <3>1. emitting[m] # Idle => f.packet # emitting[m].packet
      BY <1>7, <1>8, <2>1, <2>3
    <3> QED
      BY <1>2, <1>5, <2>1, <2>3, <3>1 DEF EmissionOK
  <2> QED
    BY <2>2, <2>3
<1>10. ASSUME NEW p \in 1 .. MaxPackets, NEW h \in 1 .. MaxHandlers
       PROVE  RanOK(p, h)'
  <2>1. RanOK(p, h)
    BY DEF EventInv
  <2>2. CASE p # e.packet
    <3>1. p # f.packet
      BY <1>8, <2>2, SMTT(30)
    <3> QED
      BY <1>2, <1>5, <2>1, <2>2, <3>1 DEF RanOK, Concerned, Awaits
  <2>3. CASE p = e.packet /\ f.packet = e.packet
    <3>1. Concerned(h) => (Awaits(f, h) <=> Awaits(e, h))
      BY <1>3, <1>4, <1>8, <2>3, SMTT(30) DEF Idle
    <3> QED
      BY <1>2, <1>5, <1>7, <2>1, <2>3, <3>1, Zenon DEF RanOK, Concerned, Awaits
  <2>4. CASE p = e.packet /\ f.packet # e.packet
    <3>1. Concerned(h) => ~Awaits(e, h)
      BY <1>4, <2>4
    <3>2. \A m \in Emitters : emitting'[m].packet # p
      BY <1>5, <1>7, <2>4
    <3> QED
      BY <1>2, <1>7, <2>1, <2>4, <3>1, <3>2, Zenon DEF RanOK, Concerned, Awaits
  <2> QED
    BY <2>2, <2>3, <2>4, Zenon
<1> QED
  BY <1>2, <1>6, <1>9, <1>10 DEF EventInv

\* For any number of listeners, handlers and packets, with On called at any time
\* while listeners emit: Emit starts every handler that a packet concerns and
\* that was registered before it was read once, and no handler twice or for a
\* packet of the other version.
THEOREM HandlersRun == EventSpec => []HandlersRunOnce
<1>1. EventInit => EventInv
  <2> SUFFICES ASSUME EventInit
               PROVE  EventInv
    OBVIOUS
  <2>1. EventTypeOK
    BY EventAssumption DEF EventInit, EventTypeOK
  <2>2. DOMAIN reading = {} /\ DOMAIN handles = {}
    BY DEF EventInit
  <2>3. \A l \in Emitters : emitting[l] = Idle
    BY DEF EventInit
  <2>4. \A p \in 1 .. MaxPackets, h \in 1 .. MaxHandlers : ran[h][p] = 0
    BY DEF EventInit
  <2> QED
    BY <2>1, <2>2, <2>3, <2>4 DEF EventInv, EmissionOK, RanOK, Concerned
<1>2. EventInv /\ [EventNext]_eventVars => EventInv'
  <2> SUFFICES ASSUME EventInv, [EventNext]_eventVars
               PROVE  EventInv'
    OBVIOUS
  <2>1. CASE OnMeetsEmit \/ EventsStopped \/ UNCHANGED eventVars
    <3>1. UNCHANGED <<version, handles, reading, emitting, ran>>
      BY <2>1 DEF OnMeetsEmit, EventsStopped, eventVars
    <3> QED
      BY <3>1 DEF EventInv, EventTypeOK, EmissionOK, RanOK, Concerned, Awaits
  <2> QED
    BY <2>1, OnKeepsEvents, EmitKeepsEvents, StartKeepsEvents, NextListKeepsEvents, Zenon DEF EventNext, Event
<1>3. EventInv => HandlersRunOnce
  <2> SUFFICES ASSUME EventInv, NEW p \in DOMAIN reading, NEW h \in DOMAIN handles
               PROVE  /\ ran[h][p] <= 1
                      /\ handles[h].kind \notin {"generic", version} => ran[h][p] = 0
                      /\ /\ \A l \in Emitters : emitting[l].packet # p
                         /\ h <= reading[p] /\ handles[h].kind \in {"generic", version}
                         => ran[h][p] = 1
    BY DEF HandlersRunOnce
  <2>1. p \in 1 .. MaxPackets /\ h \in 1 .. MaxHandlers
    <3>1. /\ Len(reading) \in Nat /\ Len(reading) <= MaxPackets /\ DOMAIN reading = 1 .. Len(reading)
          /\ Len(handles) \in Nat /\ Len(handles) <= MaxHandlers /\ DOMAIN handles = 1 .. Len(handles)
      BY DEF EventInv, EventTypeOK
    <3> QED
      BY <3>1, EventAssumption
  <2>2. RanOK(p, h)
    BY <2>1 DEF EventInv
  <2> QED
    BY <2>2 DEF RanOK, Concerned
<1> QED
  BY <1>1, <1>2, <1>3, PTL DEF EventSpec

-----------------------------------------------------------------------------
(***************************************************************************)
(* DateTime.  No field of a packed time reaches the bits of the next.      *)
(***************************************************************************)
LEMMA Shifts == /\ 2^6 = 64 /\ 2^12 = 4096 /\ 2^17 = 131072
                /\ 2^22 = 4194304 /\ 2^26 = 67108864
  BY SMT

Join(a, b, c, d, e, f) == a + 64 * b + 4096 * c + 131072 * d + 4194304 * e + 67108864 * (f + 1)

Fit(a, b, c, d, e, f) ==
    /\ a \in Nat /\ a < 60 /\ b \in Nat /\ b < 60 /\ c \in Nat /\ c < 24
    /\ d \in Nat /\ d < 32 /\ e \in Nat /\ e < 13 /\ f \in Nat

Earlier(a, b, c, d, e, f, s, t, u, v, w, x) ==
    \/ f < x
    \/ f = x /\ e < w
    \/ f = x /\ e = w /\ d < v
    \/ f = x /\ e = w /\ d = v /\ c < u
    \/ f = x /\ e = w /\ d = v /\ c = u /\ b < t
    \/ f = x /\ e = w /\ d = v /\ c = u /\ b = t /\ a < s

LEMMA Carries ==
    ASSUME NEW a, NEW b, NEW c, NEW d, NEW e, NEW f, NEW s, NEW t, NEW u, NEW v, NEW w, NEW x,
           Fit(a, b, c, d, e, f), Fit(s, t, u, v, w, x), Earlier(a, b, c, d, e, f, s, t, u, v, w, x)
    PROVE  Join(a, b, c, d, e, f) < Join(s, t, u, v, w, x)
  BY SMT DEF Join, Fit, Earlier

LEMMA PackedIsOrdered ==
    ASSUME NEW t \in Times, NEW u \in Times, Before(t, u)
    PROVE  Packed(t) < Packed(u)
<1>1. ASSUME NEW r \in Times
      PROVE  Fit(r.second, r.minute, r.hour, r.day, r.month, r.year)
  BY TimesAssumption, SMT DEF Fit
<1>2. /\ DOMAIN Units = 1 .. 6
      /\ Units[1] = "year" /\ Units[2] = "month" /\ Units[3] = "day"
      /\ Units[4] = "hour" /\ Units[5] = "minute" /\ Units[6] = "second"
  BY SMT DEF Units
<1>3. PICK i \in 1 .. 6 : t[Units[i]] < u[Units[i]] /\ \A j \in 1 .. i - 1 : t[Units[j]] = u[Units[j]]
  BY <1>2 DEF Before
<1>4. Earlier(t.second, t.minute, t.hour, t.day, t.month, t.year,
              u.second, u.minute, u.hour, u.day, u.month, u.year)
  <2>1. i = 1 \/ i = 2 \/ i = 3 \/ i = 4 \/ i = 5 \/ i = 6
    BY SMT
  <2> QED
    BY <1>2, <1>3, <2>1, SMT DEF Earlier
<1>5. Join(t.second, t.minute, t.hour, t.day, t.month, t.year)
        < Join(u.second, u.minute, u.hour, u.day, u.month, u.year)
  BY <1>1, <1>4, Carries, Zenon
<1> QED
  BY <1>5, Shifts, SMT DEF Packed, Join

\* For all readings of the clock: a later one has a larger value of DateTime,
\* across every carry from a unit to the next, since the shifts of Now leave
\* each field the bits it needs.
THEOREM NowOrdered == DateSpec => NowIsOrdered
<1> DEFINE Reading == clock \in Times
           Ordered == Before(clock, clock') /\ value = Packed(clock) => value < value'
<1>1. DateInit => Reading
  BY TimesAssumption DEF DateInit
<1>2. Reading /\ [Now]_dateVars => Reading'
  BY DEF Now, dateVars
<1>3. Reading /\ [Now]_dateVars => [Ordered]_dateVars
  BY PackedIsOrdered DEF Now, dateVars
<1>4. [][Ordered]_dateVars => NowIsOrdered
  BY DEF NowIsOrdered
<1> HIDE DEF Reading, Ordered
<1> QED
  BY <1>1, <1>2, <1>3, <1>4, PTL DEF DateSpec

-----------------------------------------------------------------------------
(***************************************************************************)
(* StationURL.  EncodeToString writes each parameter that is set once, and *)
(* no other.                                                               *)
(***************************************************************************)
INSTANCE FiniteSetTheorems

EncodedStation ==
    /\ text.scheme = station["scheme"]
    /\ \A n \in Names \ {"scheme"} :
          /\ station[n] = Nil => Assigned(n) = {}
          /\ station[n] # Nil => \E k \in Nat : Assigned(n) = {k} /\ text.fields[k].parts = station[n]

StationInv ==
    /\ spc \in {"set", "encoded", "parsed", "panic"}
    /\ spc = "encoded" => EncodedStation
    /\ StationReadsBack

\* The members of a finite set of numbers, each known by how many do not exceed it.
LEMMA Places ==
    ASSUME NEW F, F \subseteq Nat, IsFiniteSet(F)
    PROVE  /\ Cardinality(F) \in Nat
           /\ \A i \in F : Cardinality({j \in F : j <= i}) \in 1 .. Cardinality(F)
           /\ \A i, k \in F : Cardinality({j \in F : j <= i}) = Cardinality({j \in F : j <= k}) => i = k
           /\ \A c \in 1 .. Cardinality(F) : \E i \in F : Cardinality({j \in F : j <= i}) = c
<1> DEFINE L(i) == {j \in F : j <= i}
           f == [i \in F |-> Cardinality(L(i))]
<1>1. Cardinality(F) \in Nat
  BY FS_CardinalityType
<1>2. ASSUME NEW i \in F
      PROVE  /\ L(i) \in SUBSET F /\ i \in L(i) /\ IsFiniteSet(L(i))
             /\ Cardinality(L(i)) \in 1 .. Cardinality(F)
  <2>1. L(i) \in SUBSET F /\ i \in L(i)
    OBVIOUS
  <2>2. IsFiniteSet(L(i)) /\ Cardinality(L(i)) <= Cardinality(F)
    BY <2>1, FS_Subset
  <2>3. Cardinality(L(i)) \in Nat /\ Cardinality(L(i)) # 0
    BY <2>1, <2>2, FS_CardinalityType, FS_EmptySet
  <2> QED
    BY <1>1, <2>1, <2>2, <2>3
<1>3. ASSUME NEW i \in F, NEW k \in F, i < k
      PROVE  Cardinality(L(i)) # Cardinality(L(k))
  <2>1. i \in Nat /\ k \in Nat /\ \A j \in Nat : j <= i => j <= k
    BY <1>3
  <2>2. L(i) \in SUBSET L(k)
    BY <2>1, Zenon
  <2>3. k \notin L(i) /\ k \in L(k)
    BY <1>3, <2>1
  <2> QED
    BY <1>2, <2>2, <2>3, FS_Subset
<1>4. ASSUME NEW i \in F, NEW k \in F, Cardinality(L(i)) = Cardinality(L(k))
      PROVE  i = k
  <2>1. i < k \/ k < i \/ i = k
    OBVIOUS
  <2> QED
    BY <1>3, <1>4, <2>1
<1>5. f \in [F -> 1 .. Cardinality(F)] /\ \A i \in F : f[i] = Cardinality(L(i))
  BY <1>2
<1>6. f \in Injection(F, 1 .. Cardinality(F))
  <2>1. \A i, k \in F : f[i] = f[k] => i = k
    BY <1>4, <1>5
  <2> HIDE DEF f
  <2> QED
    BY <1>5, <2>1 DEF Injection, IsInjective
<1>7. IsFiniteSet(1 .. Cardinality(F)) /\ Cardinality(1 .. Cardinality(F)) = Cardinality(F)
  BY <1>1, FS_Interval
<1>8. f \in Surjection(F, 1 .. Cardinality(F))
  BY <1>6, <1>7, FS_Injection
<1>9. \A c \in 1 .. Cardinality(F) : \E i \in F : Cardinality(L(i)) = c
  BY <1>5, <1>8, Zenon DEF Surjection
<1> QED
  BY <1>1, <1>2, <1>4, <1>9, Zenon

LEMMA ParametersDiffer ==
    /\ DOMAIN Parameters = 1 .. 14
    /\ \A i, j \in 1 .. 14 : Parameters[i] = Parameters[j] => i = j
    /\ \A i \in 1 .. 14 : Parameters[i] # "scheme"
  BY SMT DEF Parameters

LEMMA EncodeWrites ==
    ASSUME EncodeToString
    PROVE  EncodedStation'
<1> DEFINE F == FieldsSet
           count(i) == Cardinality({j \in F : j <= i})
           nth(k) == CHOOSE i \in F : count(i) = k
           fields == [k \in 1 .. Cardinality(F) |->
                         [name |-> Parameters[nth(k)], parts |-> station[Parameters[nth(k)]]]]
<1>1. station' = station /\ text'.scheme = station["scheme"] /\ text'.fields = fields
  BY DEF EncodeToString
<1>2. F \subseteq 1 .. 14
  BY ParametersDiffer DEF FieldsSet
<1>3. F \subseteq Nat /\ IsFiniteSet(F)
  <2>1. \A n \in Nat : IsFiniteSet(1 .. n)
    BY FS_Interval
  <2>2. F \subseteq Nat
    BY <1>2
  <2>3. F \in SUBSET (1 .. 14) /\ IsFiniteSet(1 .. 14)
    BY <1>2, <2>1, Zenon
  <2>4. IsFiniteSet(F)
    BY <2>3, FS_Subset, Zenon
  <2> QED
    BY <2>2, <2>4
<1>4. /\ Cardinality(F) \in Nat
      /\ \A i \in F : count(i) \in 1 .. Cardinality(F)
      /\ \A i, k \in F : count(i) = count(k) => i = k
      /\ \A c \in 1 .. Cardinality(F) : \E i \in F : count(i) = c
  BY <1>3, Places, Zenon
<1> HIDE DEF F, count
<1>5. \A k \in 1 .. Cardinality(F) : nth(k) \in F /\ count(nth(k)) = k
  BY <1>4
<1>6. \A i \in F : nth(count(i)) = i
  BY <1>4
<1> HIDE DEF nth
<1>7. /\ DOMAIN fields = 1 .. Cardinality(F)
      /\ \A k \in 1 .. Cardinality(F) : /\ fields[k].name = Parameters[nth(k)]
                                        /\ fields[k].parts = station[Parameters[nth(k)]]
  OBVIOUS
<1> HIDE DEF fields
<1>8. ASSUME NEW n \in Names \ {"scheme"}
      PROVE  /\ station[n] = Nil => Assigned(n)' = {}
             /\ station[n] # Nil =>
                   \E k \in Nat : Assigned(n)' = {k} /\ fields[k].parts = station[n]
  <2>1. Assigned(n)' = {k \in 1 .. Cardinality(F) : Parameters[nth(k)] = n}
    BY <1>1, <1>7 DEF Assigned
  <2>2. PICK i \in 1 .. 14 : n = Parameters[i]
    BY ParametersDiffer DEF Names
  <2>3. \A k \in 1 .. Cardinality(F) : Parameters[nth(k)] = n => nth(k) = i
    BY <1>2, <1>5, <2>2, ParametersDiffer, Zenon
  <2>4. i \in F <=> station[n] # Nil
    BY <2>2, ParametersDiffer DEF F, FieldsSet
  <2>5. CASE i \notin F
    BY <1>5, <2>1, <2>3, <2>4, <2>5
  <2>6. CASE i \in F
    <3>1. count(i) \in 1 .. Cardinality(F) /\ nth(count(i)) = i
      BY <1>4, <1>6, <2>6
    <3>2. \A k \in 1 .. Cardinality(F) : Parameters[nth(k)] = n <=> k = count(i)
      BY <1>5, <2>2, <2>3, <3>1
    <3>3. Assigned(n)' = {count(i)}
      BY <2>1, <3>1, <3>2
    <3>4. fields[count(i)].parts = station[n] /\ count(i) \in Nat
      BY <1>4, <1>7, <2>2, <3>1
    <3> QED
      BY <2>4, <2>6, <3>3, <3>4
  <2> QED
    BY <2>5, <2>6
<1> QED
  BY <1>1, <1>8 DEF EncodedStation

LEMMA ParseReadsBack ==
    ASSUME EncodedStation, FromString
    PROVE  StationReadsBack'
<1>1. /\ station' = station /\ before' = parsed /\ parsed'["scheme"] = text.scheme
      /\ spc' = IF text.fields = <<>> THEN "panic" ELSE "parsed"
  BY DEF FromString, Names
<1>2. ASSUME NEW n \in Names \ {"scheme"}
      PROVE  /\ parsed'[n] = IF station[n] = Nil THEN parsed[n] ELSE <<station[n][1]>>
             /\ text.fields = <<>> => station[n] = Nil
  <2>1. CASE station[n] = Nil
    <3>1. Assigned(n) = {}
      BY <2>1 DEF EncodedStation
    <3>2. parsed'[n] = parsed[n]
      BY <3>1 DEF FromString
    <3> QED
      BY <2>1, <3>2
  <2>2. CASE station[n] # Nil
    <3>1. PICK k \in Nat : Assigned(n) = {k} /\ text.fields[k].parts = station[n]
      BY <2>2 DEF EncodedStation
    <3>2. parsed'[n] = LET i == CHOOSE i \in Assigned(n) : \A j \in Assigned(n) : j <= i
                       IN  <<text.fields[i].parts[1]>>
      BY <3>1 DEF FromString
    <3>3. (CHOOSE i \in Assigned(n) : \A j \in Assigned(n) : j <= i) = k
      BY <3>1
    <3>4. parsed'[n] = <<station[n][1]>>
      BY <3>1, <3>2, <3>3
    <3>5. k \in DOMAIN text.fields
      BY <3>1 DEF Assigned
    <3>6. text.fields # <<>>
      BY <3>5
    <3> QED
      BY <2>2, <3>4, <3>6
  <2> QED
    BY <2>1, <2>2
<1>3. text.scheme = station["scheme"]
  BY DEF EncodedStation
<1> QED
  BY <1>1, <1>2, <1>3, Zenon DEF StationReadsBack

\* For values of any kind and any number of calls of the setters: FromString
\* reads back the scheme and every parameter that EncodeToString wrote, cut at
\* the first "=", keeps what the object held where the parameter was nil, and
\* only a string without parameters or an object without a scheme panics.
THEOREM StationIsReadBack == StationSpec => []StationReadsBack
<1>1. StationInit => StationInv
  BY DEF StationInit, StationInv, StationReadsBack
<1>2. StationInv /\ [StationNext]_stationVars => StationInv'
  <2> SUFFICES ASSUME StationInv, [StationNext]_stationVars
               PROVE  StationInv'
    OBVIOUS
  <2>1. ASSUME NEW n \in Names, NEW v, Set(n, v)
        PROVE  StationInv'
    BY <2>1 DEF Set, StationInv, StationReadsBack
  <2>2. CASE EncodeToString
    <3>1. EncodedStation'
      BY <2>2, EncodeWrites, Zenon
    <3>2. StationReadsBack'
      BY <2>2 DEF EncodeToString, StationReadsBack
    <3> QED
      BY <2>2, <3>1, <3>2 DEF EncodeToString, StationInv
  <2>3. CASE FromString
    <3>1. StationReadsBack'
      BY <2>3, ParseReadsBack, Zenon DEF FromString, StationInv
    <3> QED
      BY <2>3, <3>1 DEF FromString, StationInv
  <2>4. CASE UNCHANGED stationVars
    BY <2>4 DEF stationVars, StationInv, EncodedStation, Assigned, StationReadsBack
  <2> QED
    BY <2>1, <2>2, <2>3, <2>4, Zenon DEF StationNext, StationStopped
<1>3. StationInv => StationReadsBack
  BY DEF StationInv
<1> QED
  BY <1>1, <1>2, <1>3, PTL DEF StationSpec

=============================================================================
