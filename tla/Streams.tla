------------------------------ MODULE Streams ------------------------------
(***************************************************************************)
(* StreamOut and StreamIn: an application writes fields one after another, *)
(* and another reads them back in the same order.  The reader knows only   *)
(* the types; where the next field starts follows from what was read, so   *)
(* that one wrong length spoils everything after it.                       *)
(*                                                                         *)
(* A field is [type, width, value].  Variants, maps, qBuffers and parent   *)
(* classes of a structure can be read and not written by the library: they *)
(* are written by the peer.                                                *)
(***************************************************************************)
EXTENDS LittleEndian, FiniteSetsExt, TLC

CONSTANTS
    Base,           \* values of a byte: small, to reach lengths that do not fit
    NexVersions,    \* of the server both streams belong to
    Fields,         \* the fields that may be written
    MaxFields       \* bound on the fields written

ASSUME StreamAssumption == Base \in Nat \ {0, 1} /\ MaxFields \in Nat

VARIABLES
    nexVersion, \* server.NexVersion()
    written,    \* the fields written
    stream,     \* the bytes of the stream
    at,         \* stream.ByteOffset() of the reader, or writing
    status,     \* "write", "read", or how a read failed: "error" or "panic"
    values      \* the values read so far

streamVars == <<nexVersion, written, stream, at, status, values>>

-----------------------------------------------------------------------------
(***************************************************************************)
(* StreamOut.                                                              *)
(***************************************************************************)
Put(width, n) == WriteUInt(Base, width, n)

Concat(s, Op(_)) ==
    LET c[k \in 0 .. Len(s)] == IF k = 0 THEN <<>> ELSE c[k - 1] \o Op(s[k])
    IN  c[Len(s)]

\* A slip: the terminating NUL is not counted.
WriteStringUncounted(s) == Put(2, Len(s)) \o s \o <<0>>

\* The length is a uint16 and counts the NUL.
WriteString(s) == Put(2, Len(s) + 1) \o s \o <<0>>

WriteBuffer(data) == Put(4, Len(data)) \o data

WriteList(width, list) ==
    LET element(n) == Put(width, n)
    IN  Put(4, Len(list)) \o Concat(list, element)

\* The peer's qBuffers and variants.  A double is given by its bit pattern.
PeerQBuffer(data) == Put(2, Len(data)) \o data
PeerVariant(v) ==
    CASE v[1] = "null" -> <<0>>
      [] v[1] = "sint64" -> <<1>> \o Put(8, v[2])
      [] v[1] = "double" -> <<2>> \o Put(8, v[3])
      [] v[1] = "bool" -> <<3, IF v[2] THEN 1 ELSE 0>>
      [] v[1] = "string" -> <<4>> \o WriteString(v[2])
      [] v[1] = "datetime" -> <<5>> \o Put(8, v[2])
      [] v[1] = "uint64" -> <<6>> \o Put(8, v[2])

PeerMap(pairs) ==
    LET entry(p) == WriteString(p[1]) \o PeerVariant(p[2])
    IN  Put(4, Len(pairs)) \o Concat(pairs, entry)

WritePlain(f) ==
    CASE f.type = "uint" -> Put(f.width, f.value)
      [] f.type = "string" -> WriteString(f.value)
      [] f.type = "buffer" -> WriteBuffer(f.value)
      [] f.type = "list" -> WriteList(f.width, f.value)
      [] f.type = "qbuffer" -> PeerQBuffer(f.value)
      [] f.type = "variant" -> PeerVariant(f.value)
      [] f.type = "map" -> PeerMap(f.value)

\* structure.Bytes: RVConnectionData and the application's structures write
\* their fields, NullData nothing.  Since version 3 a header precedes them.
WriteStructure(class) ==
    LET content == Concat(class, WritePlain)
    IN  (IF nexVersion >= 3 THEN <<1>> \o Put(4, Len(content)) ELSE <<>>) \o content

\* A structure is the sequence of its classes, parents first.
Write(f) ==
    CASE f.type = "structure" -> Concat(f.value, WriteStructure)
      [] f.type = "structures" -> Put(4, Len(f.value)) \o Concat(f.value, WriteStructure)
      [] OTHER -> WritePlain(f)

-----------------------------------------------------------------------------
(***************************************************************************)
(* StreamIn.  A read gives a value and the offset after it, or fails.      *)
(***************************************************************************)
Got(pos, v) == [status |-> "read", at |-> pos, value |-> v]
Then(r, Op(_)) == IF r.status = "read" THEN Op(r) ELSE r
Failed(how, pos) == [status |-> how, at |-> pos, value |-> <<>>]

\* crunch panics when it is asked for more than there is.
Get(width, pos) ==
    IF Len(stream) - pos < width THEN Failed("panic", pos)
    ELSE Got(pos + width, ReadUInt(Base, SubSeq(stream, pos + 1, pos + width)))

\* n reads in a row, from pos, until one fails.
ReadEach(n, Op(_, _), pos) ==
    LET rest[k \in 0 .. n, p \in 0 .. Len(stream)] ==
            IF k = n THEN Got(p, <<>>)
            ELSE Then(Op(k + 1, p), LAMBDA v :
                    Then(rest[k + 1, v.at], LAMBDA r : Got(r.at, <<v.value>> \o r.value)))
    IN  rest[0, pos]

\* ReadBuffer and ReadQBuffer, with a length of width bytes.
ReadBytes(width, pos) ==
    Then(Get(width, pos), LAMBDA n :
        IF Len(stream) - n.at < n.value THEN Failed("error", n.at)
        ELSE Got(n.at + n.value, SubSeq(stream, n.at + 1, n.at + n.value)))

TrimRight(s) == SubSeq(s, 1, Max({0} \cup {k \in DOMAIN s : s[k] # 0}))

ReadString(pos) == Then(ReadBytes(2, pos), LAMBDA s : Got(s.at, TrimRight(s.value)))

ReadList(width, pos) ==
    Then(Get(4, pos), LAMBDA n :
        IF Len(stream) - n.at < n.value * width THEN Failed("panic", n.at)
        ELSE Got(n.at + n.value * width,
                 [k \in 1 .. n.value |-> Get(width, n.at + (k - 1) * width).value]))

\* int64 of a uint64.
Signed(n) == IF n >= Base^8 \div 2 THEN n - Base^8 ELSE n

\* float64(...) converts the number; it does not take it for a bit pattern.
Double(n) == IF n = 0 THEN <<"double", "bits", 0>> ELSE <<"double", "number", n>>

\* The error of ReadString is dropped, and an unknown tag is read as null.
ReadVariant(pos) ==
    LET number(r, Value(_)) == Then(Get(8, r.at), LAMBDA n : Got(n.at, Value(n.value)))
        text(r) == IF r.status = "panic" THEN r ELSE Got(r.at, <<"string", r.value>>)
    IN  Then(Get(1, pos), LAMBDA tag :
            CASE tag.value = 1 -> number(tag, LAMBDA n : <<"sint64", Signed(n)>>)
              [] tag.value = 2 -> number(tag, Double)
              [] tag.value = 3 -> Then(Get(1, tag.at), LAMBDA b : Got(b.at, <<"bool", b.value = 1>>))
              [] tag.value = 4 -> text(ReadString(tag.at))
              [] tag.value = 5 -> number(tag, LAMBDA n : <<"datetime", n>>)
              [] tag.value = 6 -> number(tag, LAMBDA n : <<"uint64", n>>)
              [] OTHER -> Got(tag.at, <<"null">>))

\* newMap[key] = value, one pair after the other.
MapOf(pairs) ==
    [key \in {pairs[i][1] : i \in DOMAIN pairs} |->
        pairs[Max({i \in DOMAIN pairs : pairs[i][1] = key})][2]]

ReadMap(pos) ==
    LET pair(k, p) == Then(ReadString(p), LAMBDA key :
                          Then(ReadVariant(key.at), LAMBDA v : Got(v.at, <<key.value, v.value>>)))
    IN  Then(Get(4, pos), LAMBDA n :
            Then(ReadEach(n.value, pair, n.at), LAMBDA r : Got(r.at, MapOf(r.value))))

ReadPlain(f, pos) ==
    CASE f.type = "uint" -> Get(f.width, pos)
      [] f.type = "string" -> ReadString(pos)
      [] f.type = "buffer" -> ReadBytes(4, pos)
      [] f.type = "qbuffer" -> ReadBytes(2, pos)
      [] f.type = "list" -> ReadList(f.width, pos)
      [] f.type = "variant" -> ReadVariant(pos)
      [] f.type = "map" -> ReadMap(pos)

\* The structure header is read and not looked at.
SkipHeader(pos) ==
    IF nexVersion >= 3 THEN Then(Get(1, pos), LAMBDA v : Get(4, v.at)) ELSE Got(pos, 0)

\* The header and ExtractFromStream of one class, an application's or NullData.
\* RVConnectionData has none of its own and is read by the peer.
ReadClass(class, pos) ==
    Then(SkipHeader(pos), LAMBDA h : ReadEach(Len(class), LAMBDA k, p : ReadPlain(class[k], p), h.at))

\* The classes of Hierarchy() are read before the structure itself.
ReadStructure(classes, pos) == ReadEach(Len(classes), LAMBDA k, p : ReadClass(classes[k], p), pos)

\* The peer's reader of a list of structures, with room for those of f.
PeerStructures(f, pos) ==
    Then(Get(4, pos), LAMBDA n :
        IF n.value > Len(f.value) THEN Failed("error", n.at)
        ELSE ReadEach(n.value, LAMBDA k, p : ReadClass(f.value[k], p), n.at))

ReadField(f, pos) ==
    CASE f.type = "structure" -> ReadStructure(f.value, pos)
      [] f.type = "structures" -> PeerStructures(f, pos)
      [] OTHER -> ReadPlain(f, pos)

-----------------------------------------------------------------------------
StreamInit ==
    /\ nexVersion \in NexVersions
    /\ written = <<>> /\ stream = <<>> /\ at = 0 /\ status = "write" /\ values = <<>>

WriteField ==
    /\ status = "write" /\ Len(written) < MaxFields
    /\ \E f \in Fields : written' = Append(written, f) /\ stream' = stream \o Write(f)
    /\ UNCHANGED <<nexVersion, at, status, values>>

\* NewStreamIn on the bytes of the other stream.
StartReading ==
    /\ status = "write" /\ written # <<>>
    /\ status' = "read"
    /\ UNCHANGED <<nexVersion, written, stream, at, values>>

ReadNext ==
    /\ status = "read" /\ Len(values) < Len(written)
    /\ LET r == ReadField(written[Len(values) + 1], at)
       IN  /\ status' = r.status /\ at' = r.at
           /\ values' = IF r.status = "read" THEN Append(values, r.value) ELSE values
    /\ UNCHANGED <<nexVersion, written, stream>>

StreamStopped ==
    /\ status # "write" /\ (status = "read" => Len(values) = Len(written))
    /\ UNCHANGED streamVars

StreamNext == WriteField \/ StartReading \/ ReadNext \/ StreamStopped

-----------------------------------------------------------------------------
\* The strings of a field whose length is a uint16.
Strings(f) ==
    CASE f.type = "string" -> {f.value}
      [] f.type = "variant" /\ f.value[1] = "string" -> {f.value[2]}
      [] f.type = "map" -> {f.value[i][1] : i \in DOMAIN f.value}
      [] OTHER -> {}

Plains(f) ==
    IF f.type \in {"structure", "structures"}
    THEN UNION {{f.value[i][j] : j \in DOMAIN f.value[i]} : i \in DOMAIN f.value} ELSE {f}

\* The field takes as many bytes as its length says, and can be told from what
\* was written: no trailing NUL, no double.
Fits(f) == \A p \in Plains(f) : \A s \in Strings(p) : Len(s) + 1 < Base^2
Exact(f) ==
    \A p \in Plains(f) :
        /\ \A s \in Strings(p) : TrimRight(s) = s
        /\ p.type = "variant" /\ p.value[1] = "double" => p.value[3] = 0

Meaning(f) ==
    CASE f.type \in {"structure", "structures"} ->
            [i \in DOMAIN f.value |-> [j \in DOMAIN f.value[i] |-> f.value[i][j].value]]
      [] f.type = "map" -> MapOf(f.value)
      [] OTHER -> f.value

\* StreamIn reads what was written to StreamOut: as long as the strings written
\* so far fit their length field, no read fails and each gives the value back,
\* whatever surrounds it and with or without structure headers; and when all is
\* read nothing is left over.  Strings that end in NUL come back without it, and
\* doubles come back as other numbers.
StreamReadsBack ==
    /\ \A k \in DOMAIN values :
          (\A j \in 1 .. k : Fits(written[j])) /\ Exact(written[k]) => values[k] = Meaning(written[k])
    /\ (\A j \in DOMAIN written : Fits(written[j])) =>
          /\ status \in {"write", "read"}
          /\ Len(values) = Len(written) => at = Len(stream)
=============================================================================
