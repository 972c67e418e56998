--------------------------- MODULE LifecycleProofs ---------------------------
(***************************************************************************)
(* The end of Listen, for any number of listeners.                         *)
(***************************************************************************)
EXTENDS Lifecycle, FiniteSetTheorems, TLAPS

Panicking == {l \in Listener : lpc[l] = "panicking"}

(***************************************************************************)
(* The receive of Listen happens once, so at most one send on quit meets   *)
(* it: nobody is past the channel while Listen waits or before, and one    *)
(* listener is when it has returned.  Listeners are started in order, the  *)
(* next one only while some are left.                                      *)
(***************************************************************************)
LifecycleInv ==
    /\ TypeOK
    /\ main # "returned" => Panicking = {}
    /\ main = "returned" => \E l \in Listener : Panicking = {l}
    /\ main \in {"resolve", "bind"} => started = 0
    /\ main = "spawn" => started < NumCPU

LEMMA InitLifecycle == Init => LifecycleInv
<1> SUFFICES ASSUME Init
             PROVE  LifecycleInv
  OBVIOUS
<1>1. TypeOK
  <2>1. started \in 0 .. NumCPU
    BY LifecycleAssumption DEF Init
  <2>2. lpc \in [Listener -> {"none", "reading", "quitting", "panicking"}]
    BY DEF Init
  <2>3. registered \subseteq {"generic", "typed"}
    BY Zenon DEF Init
  <2> QED
    BY <2>1, <2>2, <2>3, Zenon DEF Init, TypeOK
<1>2. Panicking = {}
  BY DEF Init, Panicking
<1> QED
  BY <1>1, <1>2 DEF Init, LifecycleInv

\* The loop starts the next listener; there is one.
LEMMA SpawnKeepsLifecycle ==
    ASSUME LifecycleInv, Spawn
    PROVE  LifecycleInv'
<1>1. started + 1 \in Listener /\ started \in Nat /\ NumCPU \in Nat
  BY LifecycleAssumption DEF Spawn, Goto, LifecycleInv, TypeOK, Listener
<1>2. /\ main' = IF started + 1 < NumCPU THEN "spawn" ELSE "emit"
      /\ started' = started + 1 /\ lpc' = [lpc EXCEPT ![started + 1] = "reading"]
      /\ main = "spawn"
  BY DEF Spawn, Goto
<1>3. TypeOK'
  BY <1>1, <1>2 DEF Spawn, LifecycleInv, TypeOK, Listener
<1>4. Panicking' = {}
  BY <1>1, <1>2 DEF LifecycleInv, TypeOK, Panicking
<1> QED
  BY <1>1, <1>2, <1>3, <1>4 DEF LifecycleInv

LEMMA QuitKeepsLifecycle ==
    ASSUME LifecycleInv, NEW l \in Listener, Quit(l)
    PROVE  LifecycleInv'
<1>1. /\ main = "wait" /\ main' = "returned" /\ lpc' = [lpc EXCEPT ![l] = "panicking"]
      /\ UNCHANGED <<registered, socket, started, crashed>>
  BY DEF Quit, Goto
<1>2. TypeOK'
  BY <1>1 DEF LifecycleInv, TypeOK
<1>3. Panicking' = {l}
  BY <1>1 DEF LifecycleInv, TypeOK, Panicking
<1> QED
  BY <1>1, <1>2, <1>3 DEF LifecycleInv

LEMMA NextKeepsLifecycle == LifecycleInv /\ [Next]_vars => LifecycleInv'
<1> SUFFICES ASSUME LifecycleInv, [Next]_vars
             PROVE  LifecycleInv'
  OBVIOUS
<1>1. CASE ResolveUDPAddr \/ ListenUDP \/ EmitListening \/ SocketFails
  <2>1. /\ lpc' = lpc /\ started' = started /\ registered' = registered
        /\ main' = main \/ <<main, main'>> \in {<<"resolve", "bind">>, <<"bind", "spawn">>, <<"emit", "wait">>}
    BY <1>1 DEF ResolveUDPAddr, ListenUDP, EmitListening, SocketFails, Goto, Panic
  <2>2. socket' \in {"none", "open", "failed"} /\ crashed' \in BOOLEAN
    BY <1>1, Zenon DEF ResolveUDPAddr, ListenUDP, EmitListening, SocketFails, Panic, LifecycleInv, TypeOK
  <2>3. TypeOK'
    BY <2>1, <2>2 DEF LifecycleInv, TypeOK
  <2>4. Panicking' = Panicking
    BY <2>1 DEF Panicking
  <2> QED
    BY <2>1, <2>3, <2>4, LifecycleAssumption DEF LifecycleInv
<1>2. ASSUME NEW l \in Listener, ReadFails(l)
      PROVE  LifecycleInv'
  <2>1. lpc' = [lpc EXCEPT ![l] = "quitting"] /\ lpc[l] = "reading"
    BY <1>2 DEF ReadFails
  <2>2. Panicking' = Panicking
    BY <2>1 DEF LifecycleInv, TypeOK, Panicking
  <2> QED
    BY <1>2, <2>1, <2>2 DEF ReadFails, LifecycleInv, TypeOK
<1>3. ASSUME NEW l \in Listener, ListenerPanics(l)
      PROVE  LifecycleInv'
  BY <1>3 DEF ListenerPanics, Panic, LifecycleInv, TypeOK, Panicking
<1>4. CASE UNCHANGED vars
  BY <1>4 DEF vars, LifecycleInv, TypeOK, Panicking
<1> QED
  BY <1>1, <1>2, <1>3, <1>4, SpawnKeepsLifecycle, QuitKeepsLifecycle DEF Next, Stopped

\* Listen returns exactly when a listener has got past the channel, and no
\* second one ever does, for any number of listeners and read errors.
THEOREM OneQuits == Spec => []OneListenerQuits
<1>1. LifecycleInv => OneListenerQuits
  <2> SUFFICES ASSUME LifecycleInv
               PROVE  Cardinality(Panicking) <= 1 /\ (main = "returned" <=> Panicking # {})
    BY DEF OneListenerQuits, Panicking
  <2>1. CASE main = "returned"
    <3>1. PICK l \in Listener : Panicking = {l}
      BY <2>1 DEF LifecycleInv
    <3>2. Cardinality(Panicking) = 1
      BY <3>1, FS_Singleton, Zenon
    <3> QED
      BY <2>1, <3>1, <3>2
  <2>2. CASE main # "returned"
    BY <2>2, FS_EmptySet DEF LifecycleInv
  <2> QED
    BY <2>1, <2>2
<1> QED
  BY <1>1, InitLifecycle, NextKeepsLifecycle, PTL DEF Spec

\* The state of Listen keeps its type: in particular the loop never starts a
\* listener too many.
THEOREM LifecycleTypes == Spec => []TypeOK
<1>1. LifecycleInv => TypeOK
  BY DEF LifecycleInv
<1> QED
  BY <1>1, InitLifecycle, NextKeepsLifecycle, PTL DEF Spec
=============================================================================
