------------------------------ MODULE Lifecycle ------------------------------
(***************************************************************************)
(* Server.Listen from the address to the end of the process: it opens the  *)
(* socket, starts the listener goroutines one by one, emits "Listening"    *)
(* and waits on the unbuffered channel quit.  A listener whose read fails  *)
(* sends on quit and panics.                                               *)
(*                                                                         *)
(* A listener that handles a datagram without an error goes back to        *)
(* reading; what it does with the datagram is the subject of Server.       *)
(***************************************************************************)
EXTENDS Naturals, FiniteSets

CONSTANTS
    NumCPU      \* runtime.NumCPU(): the number of listeners

ASSUME LifecycleAssumption == NumCPU \in Nat \ {0}

Listener == 1 .. NumCPU

VARIABLES
    registered, \* the kinds of handlers On has stored for "Listening"
    main,       \* where the goroutine that called Listen is
    socket,     \* whether the socket is open, and whether it works
    started,    \* the loop counter: listeners started so far
    lpc,        \* listener -> where it is in listenDatagram
    crashed     \* some goroutine has panicked: the process is gone

vars == <<registered, main, socket, started, lpc, crashed>>

TypeOK ==
    /\ registered \subseteq {"generic", "typed"}
    /\ main \in {"resolve", "bind", "spawn", "emit", "wait", "returned"}
    /\ socket \in {"none", "open", "failed"}
    /\ started \in 0 .. NumCPU
    /\ lpc \in [Listener -> {"none", "reading", "quitting", "panicking"}]
    /\ crashed \in BOOLEAN

\* Handlers are registered before Listen is called.
Init ==
    /\ registered \in SUBSET {"generic", "typed"}
    /\ main = "resolve"
    /\ socket = "none"
    /\ started = 0
    /\ lpc = [l \in Listener |-> "none"]
    /\ crashed = FALSE

Goto(from, to) == ~crashed /\ main = from /\ main' = to

\* A panic ends the process at once, whatever the other goroutines do.
Panic == crashed' = TRUE /\ UNCHANGED <<registered, main, socket, started, lpc>>

ResolveUDPAddr ==
    \/ Goto("resolve", "bind") /\ UNCHANGED <<registered, socket, started, lpc, crashed>>
    \/ ~crashed /\ main = "resolve" /\ Panic

ListenUDP ==
    \/ Goto("bind", "spawn") /\ socket' = "open" /\ UNCHANGED <<registered, started, lpc, crashed>>
    \/ ~crashed /\ main = "bind" /\ Panic

\* go server.listenDatagram(quit)
Spawn ==
    /\ Goto("spawn", IF started + 1 < NumCPU THEN "spawn" ELSE "emit")
    /\ started' = started + 1
    /\ lpc' = [lpc EXCEPT ![started + 1] = "reading"]
    /\ UNCHANGED <<registered, socket, crashed>>

\* Emit("Listening", nil): the type assertion packet.(PacketInterface) that Emit
\* makes for each generic handler fails on nil; handlers for a packet version are
\* passed over.
EmitListening ==
    \/ "generic" \notin registered /\ Goto("emit", "wait")
          /\ UNCHANGED <<registered, socket, started, lpc, crashed>>
    \/ "generic" \in registered /\ ~crashed /\ main = "emit" /\ Panic

\* The socket breaks: from now on reads return an error.
SocketFails ==
    /\ ~crashed /\ socket = "open" /\ socket' = "failed"
    /\ UNCHANGED <<registered, main, started, lpc, crashed>>

\* handleSocketMessage returns the error of ReadFromUDP.  A read can also fail
\* once, on a socket that still works.
ReadFails(l) ==
    /\ ~crashed /\ lpc[l] = "reading"
    /\ lpc' = [lpc EXCEPT ![l] = "quitting"]
    /\ UNCHANGED <<registered, main, socket, started, crashed>>

\* Slips: the channel has room; the listener ends without a word.
QuitBuffered(l) ==
    /\ ~crashed /\ lpc[l] = "quitting"
    /\ main' = IF main = "wait" THEN "returned" ELSE main
    /\ lpc' = [lpc EXCEPT ![l] = "panicking"]
    /\ UNCHANGED <<registered, socket, started, crashed>>
QuitSilently(l) ==
    /\ ~crashed /\ main = "wait" /\ lpc[l] = "quitting"
    /\ lpc' = [lpc EXCEPT ![l] = "none"]
    /\ UNCHANGED <<registered, main, socket, started, crashed>>

\* quit <- struct{}{} meets <-quit: both go on.
Quit(l) ==
    /\ lpc[l] = "quitting"
    /\ Goto("wait", "returned")
    /\ lpc' = [lpc EXCEPT ![l] = "panicking"]
    /\ UNCHANGED <<registered, socket, started, crashed>>

\* panic(err)
ListenerPanics(l) == ~crashed /\ lpc[l] = "panicking" /\ Panic

\* The process is gone.
Stopped == crashed /\ UNCHANGED vars

Next ==
    \/ ResolveUDPAddr \/ ListenUDP \/ Spawn \/ EmitListening \/ SocketFails
    \/ \E l \in Listener : ReadFails(l) \/ Quit(l) \/ ListenerPanics(l)
    \/ Stopped

Spec == Init /\ [][Next]_vars

\* Goroutines that can run do; a read on a broken socket returns.
Fairness ==
    /\ WF_vars(ResolveUDPAddr \/ ListenUDP \/ Spawn \/ EmitListening)
    /\ \A l \in Listener : WF_vars(socket = "failed" /\ ReadFails(l))
    /\ WF_vars(\E l \in Listener : Quit(l))
    /\ \A l \in Listener : WF_vars(ListenerPanics(l))

FairSpec == Spec /\ Fairness

-----------------------------------------------------------------------------
\* Listen returns only because a listener failed, and only one listener gets
\* past the channel: the others stay blocked on it and cannot panic before the
\* caller of Listen is told.
OneListenerQuits ==
    /\ Cardinality({l \in Listener : lpc[l] = "panicking"}) <= 1
    /\ main = "returned" <=> \E l \in Listener : lpc[l] = "panicking"

\* A server whose socket fails does not hang: Listen returns or the process is
\* brought down, even if the failure comes while listeners are being started.
FailureEndsServer == socket = "failed" ~> (crashed \/ main = "returned")
=============================================================================
