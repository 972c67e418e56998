------------------------------- MODULE Events -------------------------------
(***************************************************************************)
(* On and Emit: handlers of three kinds, for a packet of either version or *)
(* for the packets of one, kept in three maps of slices.  A listener that  *)
(* has handled a packet emits the event of its type and then "Packet", in  *)
(* each case first to the generic handlers and then to those of the        *)
(* packet's version, while the application may still be registering.       *)
(*                                                                         *)
(* A handler is named by its place in the order of registration.  On with  *)
(* a function of any other type stores nothing and is left out.            *)
(***************************************************************************)
EXTENDS Naturals, Sequences

CONSTANTS
    Emitters,       \* the listeners
    MaxHandlers,    \* bound on the handlers registered
    MaxPackets      \* bound on the packets handled

ASSUME EventAssumption == MaxHandlers \in Nat /\ MaxPackets \in Nat

VARIABLES
    version,    \* server.PrudpVersion(), which is that of every packet
    handles,    \* the handlers registered, in order: [kind, event]
    reading,    \* packet -> how many handlers there were when it was read
    emitting,   \* listener -> the list it is running through and what is left of it, or idle
    ran,        \* handler -> packet -> how often the handler was started for it
    stopped     \* the runtime has found the unlocked maps in use

eventVars == <<version, handles, reading, emitting, ran, stopped>>

HandlerKind == {"generic", "v0", "v1"}
Idle == [packet |-> 0, event |-> "none", kind |-> "none", todo |-> {}]

EventInit ==
    /\ version \in {"v0", "v1"}
    /\ handles = <<>> /\ reading = <<>> /\ stopped = FALSE
    /\ ran = [h \in 1 .. MaxHandlers |-> [p \in 1 .. MaxPackets |-> 0]]
    /\ emitting = [l \in Emitters |-> Idle]

\* append(server....EventHandles[event], handler)
On(kind, event) ==
    /\ ~stopped /\ Len(handles) < MaxHandlers
    /\ handles' = Append(handles, [kind |-> kind, event |-> event])
    /\ UNCHANGED <<version, reading, emitting, ran, stopped>>

\* On writes to a map that Emit may be reading.
OnMeetsEmit ==
    /\ ~stopped /\ Len(handles) < MaxHandlers /\ \E l \in Emitters : emitting[l] # Idle
    /\ stopped' = TRUE
    /\ UNCHANGED <<version, handles, reading, emitting, ran>>

\* eventName := server....EventHandles[event]: the slice as it is now.
List(packet, event, kind) ==
    [packet |-> packet, event |-> event, kind |-> kind,
     todo |-> {h \in DOMAIN handles : handles[h].kind = kind /\ handles[h].event = event}]

\* handleSocketMessage has handled a Data packet and calls Emit.
EmitPacket(l) ==
    /\ ~stopped /\ emitting[l] = Idle /\ Len(reading) < MaxPackets
    /\ reading' = Append(reading, Len(handles))
    /\ emitting' = [emitting EXCEPT ![l] = List(Len(reading) + 1, "Data", "generic")]
    /\ UNCHANGED <<version, handles, ran, stopped>>

\* go handler(packet), in the order of the slice.
StartHandler(l, h) ==
    /\ ~stopped /\ h \in emitting[l].todo /\ \A g \in emitting[l].todo : h <= g
    /\ ran' = [ran EXCEPT ![h][emitting[l].packet] = @ + 1]
    /\ emitting' = [emitting EXCEPT ![l].todo = @ \ {h}]
    /\ UNCHANGED <<version, handles, reading, stopped>>

\* A slip: the packet is taken for one of version 1.
PacketKindV1 == "v1"

\* switch packet.(type)
PacketKind == version

\* The list after the one that is finished.
NextList(l) ==
    LET e == emitting[l]
    IN  /\ ~stopped /\ e # Idle /\ e.todo = {}
        /\ emitting' = [emitting EXCEPT ![l] =
                CASE e.kind = "generic" -> List(e.packet, e.event, PacketKind)
                  [] e.kind # "generic" /\ e.event = "Data" -> List(e.packet, "Packet", "generic")
                  [] OTHER -> Idle]
        /\ UNCHANGED <<version, handles, reading, ran, stopped>>

EventsStopped ==
    /\ \/ stopped
       \/ Len(reading) = MaxPackets /\ \A l \in Emitters : emitting[l] = Idle
    /\ UNCHANGED eventVars

EventNext ==
    \/ \E kind \in HandlerKind, event \in {"Data", "Packet"} : On(kind, event)
    \/ OnMeetsEmit
    \/ \E l \in Emitters : EmitPacket(l) \/ NextList(l)
    \/ \E l \in Emitters, h \in DOMAIN handles : StartHandler(l, h)
    \/ EventsStopped

EventSpec == EventInit /\ [][EventNext]_eventVars

\* A packet reaches every handler that On had stored when it was read and that
\* is generic or of its version, once; a handler registered meanwhile at most
\* once; and a handler of the other version never, although two listeners emit at
\* the same time and each packet is emitted as two events.
HandlersRunOnce ==
    \A p \in DOMAIN reading, h \in DOMAIN handles :
        /\ ran[h][p] <= 1
        /\ handles[h].kind \notin {"generic", version} => ran[h][p] = 0
        /\ /\ \A l \in Emitters : emitting[l].packet # p
           /\ h <= reading[p] /\ handles[h].kind \in {"generic", version}
           => ran[h][p] = 1
=============================================================================
