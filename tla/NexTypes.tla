------------------------------ MODULE NexTypes ------------------------------
(***************************************************************************)
(* StationURL and DateTime of nex_types.go.                                *)
(*                                                                         *)
(* A station is filled in by its setters, encoded, and the string parsed   *)
(* into another StationURL, which may have been used before.  A string is  *)
(* its scheme and its fields between semicolons; a field is a name and the *)
(* parts between its equals signs.  Values hold neither of the separators  *)
(* ":/" and ";".                                                           *)
(***************************************************************************)
EXTENDS Integers, Sequences, FiniteSets

CONSTANTS
    Values,     \* values of parameters: sequences of parts between equals signs
    MaxSets,    \* bound on the calls of setters
    Nil,        \* the nil pointer
    Times       \* the readings of the clock

ASSUME TimesAssumption ==
    /\ Times # {}
    /\ Times \subseteq [second : 0 .. 59, minute : 0 .. 59, hour : 0 .. 23, day : 1 .. 31,
                       month : 1 .. 12, year : Nat]

VARIABLES
    station,    \* the StationURL being encoded: parameter -> value or Nil
    text,       \* what EncodeToString returned last
    parsed,     \* the StationURL strings are parsed into
    before,     \* parsed, as it was before the last string
    spc,        \* "set", "encoded", "parsed" or "panic"
    sets,       \* setters called so far
    clock,      \* the last reading of the clock
    value       \* the DateTime's value

stationVars == <<station, text, parsed, before, spc, sets>>
dateVars == <<clock, value>>

\* The order in which EncodeToString writes the parameters.
Parameters == <<"address", "port", "stream", "sid", "CID", "PID", "type", "RVCID",
                "natm", "natf", "upnp", "pmp", "probeinit", "PRID">>
Names == {"scheme"} \cup {Parameters[i] : i \in DOMAIN Parameters}

NewStationURL == [n \in Names |-> Nil]

StationInit ==
    /\ station = NewStationURL /\ parsed = NewStationURL /\ before = NewStationURL
    /\ text = [scheme |-> Nil, fields |-> <<>>]
    /\ spc = "set" /\ sets = 0

\* SetScheme .. SetPRID: a pointer to a value, or nil.
Set(name, v) ==
    /\ spc \in {"set", "parsed"} /\ sets < MaxSets
    /\ station' = [station EXCEPT ![name] = v]
    /\ sets' = sets + 1 /\ spc' = "set"
    /\ UNCHANGED <<text, parsed, before>>

\* A slip: the last parameter is forgotten.
FieldsButLast == {i \in 1 .. 13 : station[Parameters[i]] # Nil}

\* The parameters that are not nil.
FieldsSet == {i \in DOMAIN Parameters : station[Parameters[i]] # Nil}

\* The scheme is dereferenced without a test.
EncodeToString ==
    LET nth(k) == CHOOSE i \in FieldsSet : Cardinality({j \in FieldsSet : j <= i}) = k
    IN  /\ spc = "set"
        /\ spc' = IF station["scheme"] = Nil THEN "panic" ELSE "encoded"
        /\ text' = [scheme |-> station["scheme"],
                    fields |-> [k \in 1 .. Cardinality(FieldsSet) |->
                        [name |-> Parameters[nth(k)], parts |-> station[Parameters[nth(k)]]]]]
        /\ UNCHANGED <<station, parsed, before, sets>>

\* What the loop assigns to a parameter: the first part of its last field.
Assigned(name) == {i \in DOMAIN text.fields : text.fields[i].name = name}

\* A string without fields has an empty one, which has no part after its "=".
FromString ==
    /\ spc = "encoded"
    /\ spc' = IF text.fields = <<>> THEN "panic" ELSE "parsed"
    /\ before' = parsed
    /\ parsed' = [n \in Names |->
                     CASE n = "scheme" -> text.scheme
                       [] n # "scheme" /\ Assigned(n) = {} -> parsed[n]
                       [] OTHER -> LET i == CHOOSE i \in Assigned(n) : \A j \in Assigned(n) : j <= i
                                   IN  <<text.fields[i].parts[1]>>]
    /\ UNCHANGED <<station, text, sets>>

StationStopped == (spc = "panic" \/ spc = "parsed") /\ UNCHANGED stationVars

StationNext ==
    \/ \E n \in Names, v \in Values \cup {Nil} : Set(n, v)
    \/ EncodeToString \/ FromString \/ StationStopped

StationSpec == StationInit /\ [][StationNext]_stationVars

\* A StationURL parsed from what another one was encoded to has the same scheme
\* and parameters, each cut at the first "=" of its value; a parameter that was
\* nil keeps what the object held before, which is nil after NewStationURL.  The
\* only strings that cannot be parsed are those without a parameter.
StationReadsBack ==
    /\ spc = "parsed" =>
          /\ parsed["scheme"] = station["scheme"]
          /\ \A n \in Names \ {"scheme"} :
                parsed[n] = IF station[n] = Nil THEN before[n] ELSE <<station[n][1]>>
    /\ spc = "panic" => station["scheme"] = Nil \/ \A n \in Names \ {"scheme"} : station[n] = Nil

-----------------------------------------------------------------------------
(***************************************************************************)
(* DateTime.                                                               *)
(***************************************************************************)
DateInit == clock = (CHOOSE t \in Times : TRUE) /\ value = 0

\* A slip: the hour is shifted by one bit too few.
PackedNarrow(t) ==
    t.second + 2^6 * t.minute + 2^11 * t.hour + 2^17 * t.day + 2^22 * t.month + 2^26 * (t.year + 1)

\* The fields are joined by "or": none reaches the bits of the next.  Years are
\* counted from some year, since a real one does not fit TLC's integers.
Packed(t) ==
    t.second + 2^6 * t.minute + 2^12 * t.hour + 2^17 * t.day + 2^22 * t.month + 2^26 * (t.year + 1)

\* The clock may have gone anywhere since the last call.
Now ==
    /\ clock' \in Times
    /\ value' = Packed(clock')

DateSpec == DateInit /\ [][Now]_dateVars

Units == <<"year", "month", "day", "hour", "minute", "second">>
Before(t, u) ==
    \E i \in DOMAIN Units : t[Units[i]] < u[Units[i]] /\ \A j \in 1 .. i - 1 : t[Units[j]] = u[Units[j]]

\* Values of Now can be compared like the times they stand for: a later reading
\* of the clock has a larger value, across every carry from a unit to the next.
NowIsOrdered == [][Before(clock, clock') /\ value = Packed(clock) => value < value']_dateVars
=============================================================================
