---------------------------- MODULE TrackProofs ----------------------------
(***************************************************************************)
(* Theorems about Track for every set of threads, writers and samples.     *)
(***************************************************************************)
EXTENDS Track, TLAPS

LEMMA ModulusRange ==
  ASSUME NEW a \in Nat PROVE a % StatusModulus \in 0..(StatusModulus - 1)
BY TrackAssumption

LEMMA TypeStart == Init => TypeOK
<1> SUFFICES ASSUME Init PROVE TypeOK
  OBVIOUS
<1>1. pc \in [Threads -> {"idle"}]
  BY DEF Init
<1>2. 0 \in 0..(StatusModulus - 1)
  BY TrackAssumption
<1>3. <<>> \in Seq(Nat)
  OBVIOUS
<1> QED
  BY <1>1, <1>2, <1>3, TrackAssumption
     DEF Init, TypeOK, Threads, ControllerSteps, SourceSteps, PoolSteps

LEMMA TypeStep == TypeOK /\ [Next]_vars => TypeOK'
<1> SUFFICES ASSUME TypeOK, [Next]_vars PROVE TypeOK'
  OBVIOUS
<1> USE TrackAssumption
    DEF TypeOK, Threads, ControllerSteps, SourceSteps, PoolSteps, Callback, Transmitting,
        controlVars, endpointVars, localVars, historyVars, Goto, At
<1>1. ASSUME NEW c \in Controllers, EnableStart(c) PROVE TypeOK'
  BY <1>1 DEF EnableStart
<1>2. ASSUME NEW c \in Controllers, EnableReset(c) PROVE TypeOK'
  BY <1>2 DEF EnableReset
<1>3. ASSUME NEW c \in Controllers, EnableWriter(c) PROVE TypeOK'
  BY <1>3 DEF EnableWriter
<1>4. ASSUME NEW c \in Controllers, EnableReader(c) PROVE TypeOK'
  BY <1>4 DEF EnableReader
<1>5. ASSUME NEW c \in Controllers, EnableDrain(c) PROVE TypeOK'
  BY <1>5 DEF EnableDrain
<1>6. ASSUME NEW c \in Controllers, DisableStart(c) PROVE TypeOK'
  <2>1. pc' = [pc EXCEPT ![c] = "wait_tx"] /\ enabled' = FALSE
    BY <1>6 DEF DisableStart, Stop
  <2>2. UNCHANGED <<exiting, destroying, callbackSet, status, endpointVars, queue, tasks,
                    localVars, received, historyVars>>
    BY <1>6 DEF DisableStart
  <2>3. pc' \in [Threads -> ControllerSteps \cup SourceSteps \cup PoolSteps]
    BY <2>1
  <2>4. /\ \A d \in Controllers : pc'[d] \in ControllerSteps
        /\ \A s \in Sources : pc'[s] \in SourceSteps
        /\ \A k \in Pool : pc'[k] \in PoolSteps
    BY <2>1
  <2> QED
    BY <2>1, <2>2, <2>3, <2>4
<1>7. ASSUME NEW c \in Controllers, DisableWait(c) PROVE TypeOK'
  BY <1>7 DEF DisableWait
<1>8. ASSUME NEW c \in Controllers, DisableReader(c) PROVE TypeOK'
  BY <1>8 DEF DisableReader
<1>9. ASSUME NEW c \in Controllers, DisableWriter(c) PROVE TypeOK'
  BY <1>9 DEF DisableWriter
<1>10. ASSUME NEW c \in Controllers, DisableDone(c) PROVE TypeOK'
  BY <1>10 DEF DisableDone
<1>11. ASSUME NEW c \in Controllers, AddStart(c) PROVE TypeOK'
  BY <1>11 DEF AddStart
<1>12. ASSUME NEW c \in Controllers, AddFinish(c) PROVE TypeOK'
  BY <1>12 DEF AddFinish, Opened
<1>13. ASSUME NEW c \in Controllers, RemoveStart(c) PROVE TypeOK'
  BY <1>13 DEF RemoveStart
<1>14. ASSUME NEW c \in Controllers, RemoveFinish(c) PROVE TypeOK'
  BY <1>14 DEF RemoveFinish
<1>15. ASSUME NEW c \in Controllers, DestroyStart(c) PROVE TypeOK'
  <2>1. PICK step \in {"wait_tx", "unset"} : pc' = [pc EXCEPT ![c] = step]
    BY <1>15 DEF DestroyStart, Stop
  <2>2. enabled' \in BOOLEAN /\ destroying' = TRUE
    BY <1>15 DEF DestroyStart, Stop
  <2>3. UNCHANGED <<exiting, callbackSet, status, endpointVars, queue, tasks, localVars,
                    received, historyVars>>
    BY <1>15 DEF DestroyStart
  <2> QED
    BY <2>1, <2>2, <2>3
<1>16. ASSUME NEW c \in Controllers, DestroyUnset(c) PROVE TypeOK'
  BY <1>16 DEF DestroyUnset
<1>17. ASSUME NEW c \in Controllers, DestroyExit(c) PROVE TypeOK'
  BY <1>17 DEF DestroyExit
<1>18. ASSUME NEW s \in Sources, Arrive(s) PROVE TypeOK'
  BY <1>18 DEF Arrive
<1>19. ASSUME NEW t \in Controllers \cup Sources, CbCheck(t) PROVE TypeOK'
  BY <1>19 DEF CbCheck
<1>20. ASSUME NEW t \in Controllers \cup Sources, CbAdd(t) PROVE TypeOK'
  <2>1. status' \in 0..(StatusModulus - 1)
    <3>1. status + 2 \in Nat
      OBVIOUS
    <3> QED
      BY <1>20, <3>1, ModulusRange DEF CbAdd
  <2> QED
    BY <1>20, <2>1 DEF CbAdd
<1>21. ASSUME NEW t \in Controllers \cup Sources, CbEmit(t) PROVE TypeOK'
  BY <1>21 DEF CbEmit
<1>22. ASSUME NEW k \in Pool, RunTask(k) PROVE TypeOK'
  BY <1>22 DEF RunTask
<1>23. ASSUME NEW k \in Pool, TxLock(k) PROVE TypeOK'
  BY <1>23 DEF TxLock
<1>24. ASSUME NEW k \in Pool, TxCheck(k) PROVE TypeOK'
  BY <1>24 DEF TxCheck
<1>25. ASSUME NEW k \in Pool, TxMark(k) PROVE TypeOK'
  BY <1>25 DEF TxMark
<1>26. ASSUME NEW k \in Pool, TxTakeDisabled(k) PROVE TypeOK'
  BY <1>26 DEF TxTakeDisabled
<1>27. ASSUME NEW k \in Pool, TxTakeEmpty(k) PROVE TypeOK'
  BY <1>27 DEF TxTakeEmpty
<1>28. ASSUME NEW k \in Pool, TxTakeCorrupt(k) PROVE TypeOK'
  BY <1>28 DEF TxTakeCorrupt
<1>29. ASSUME NEW k \in Pool, TxTake(k) PROVE TypeOK'
  BY <1>29 DEF TxTake
<1>30. ASSUME NEW k \in Pool, TxWrite(k) PROVE TypeOK'
  BY <1>30 DEF TxWrite
<1>31. ASSUME NEW k \in Pool, TxWritten(k) PROVE TypeOK'
  BY <1>31 DEF TxWritten
<1>32. ASSUME NEW k \in Pool, TxSub(k) PROVE TypeOK'
  <2>1. status' \in 0..(StatusModulus - 1)
    <3>1. status + StatusModulus - 1 \in Nat
      OBVIOUS
    <3> QED
      BY <1>32, <3>1, ModulusRange DEF TxSub, OneLess, NothingAdded
  <2> QED
    BY <1>32, <2>1 DEF TxSub, OneLess, NothingAdded
<1>33. ASSUME NEW t \in Pool \cup Sources, TouchDestroyed(t) PROVE TypeOK'
  BY <1>33 DEF TouchDestroyed
<1>34. CASE UNCHANGED vars
  BY <1>34 DEF vars
<1> QED
  BY <1>1, <1>2, <1>3, <1>4, <1>5, <1>6, <1>7, <1>8, <1>9, <1>10, <1>11, <1>12, <1>13, <1>14, <1>15, <1>16, <1>17, <1>18, <1>19, <1>20, <1>21, <1>22, <1>23, <1>24, <1>25, <1>26, <1>27, <1>28, <1>29, <1>30, <1>31, <1>32, <1>33, <1>34
     DEF Next, Call, ControllerStep, CallbackStep, PoolStep

\* The variables of the Track, its reader, its writers and its threads keep their
\* types, whatever the interleaving of calls, arrivals and tasks.
THEOREM TypeCorrect == Spec => []TypeOK
BY TypeStart, TypeStep, PTL DEF Spec

-----------------------------------------------------------------------------
(* The inductive invariant behind the safety properties.  The two mutexes    *)
(* give OneController and OneTransmitter; the order of the steps of enable() *)
(* and disable() gives the rest.                                             *)

\* track_mutex_: one public operation at a time.
OneController ==
  \A c, d \in Controllers : pc[c] # "idle" /\ pc[d] # "idle" => c = d

\* on_transmission_mutex_: one loop of transmit_() at a time.
OneTransmitter ==
  \A k, l \in Pool : pc[k] \in Transmitting /\ pc[l] \in Transmitting => k = l

\* enabled_ is raised first and lowered first.
EnabledFirst ==
  \A c \in Controllers :
    /\ pc[c] \in {"reset", "writers_on", "drain"} \cup Callback => enabled
    /\ pc[c] \in {"wait_tx", "reader_off", "writers_off", "unset", "exit", "gone"} => ~enabled

\* The reader is enabled last and disabled right after the wait.
ReaderInside ==
  /\ readerOn => enabled \/ \E c \in Controllers : pc[c] \in {"wait_tx", "reader_off"}
  /\ \A c \in Controllers : pc[c] \in {"reset", "writers_on"} => ~readerOn

\* While the reader is enabled, so are the writers.
WritersAround ==
  /\ readerOn => writers \subseteq writerOn
  /\ \A c \in Controllers : At(c, "writers_on") => writers \subseteq writerOn \cup todo[c]

\* A sample in hand was taken from an enabled reader, for the writers of the Track.
InHandInside ==
  \A k \in Pool : At(k, "tx_write") => readerOn /\ todo[k] \subseteq writers

TrackInv ==
  /\ OneController /\ OneTransmitter
  /\ EnabledFirst /\ ReaderInside /\ WritersAround
  /\ QuietWhenDisabled /\ InHandInside

LEMMA InvariantStart == Init => TrackInv
BY TrackAssumption
   DEF Init, TrackInv, OneController, OneTransmitter, EnabledFirst, ReaderInside,
       WritersAround, QuietWhenDisabled, InHandInside, Threads, At, Callback, Transmitting

LEMMA InvariantStep == TypeOK /\ TrackInv /\ [Next]_vars => TrackInv'
<1> SUFFICES ASSUME TypeOK, TrackInv, [Next]_vars PROVE TrackInv'
  OBVIOUS
<1> USE TrackAssumption
    DEF TypeOK, Threads, ControllerSteps, SourceSteps, PoolSteps, Callback, Transmitting,
        controlVars, endpointVars, localVars, historyVars, Goto, At, TrackMutexFree,
        TxMutexFree, ReaderMutexFree,
        TrackInv, OneController, OneTransmitter, EnabledFirst, ReaderInside,
        WritersAround, QuietWhenDisabled, InHandInside
<1>1. ASSUME NEW c \in Controllers, EnableStart(c) PROVE TrackInv'
  BY <1>1 DEF EnableStart
<1>2. ASSUME NEW c \in Controllers, EnableReset(c) PROVE TrackInv'
  BY <1>2 DEF EnableReset
<1>3. ASSUME NEW c \in Controllers, EnableWriter(c) PROVE TrackInv'
  BY <1>3 DEF EnableWriter
<1>4. ASSUME NEW c \in Controllers, EnableReader(c) PROVE TrackInv'
  <2>1. At(c, "writers_on") /\ todo[c] = {} /\ ReaderMutexFree
    BY <1>4 DEF EnableReader
  <2>2. /\ readerOn' = TRUE /\ pc' = [pc EXCEPT ![c] = "drain"]
        /\ UNCHANGED <<enabled, writers, writerOn, todo>>
    BY <1>4 DEF EnableReader
  <2>3. OneController' /\ OneTransmitter'
    BY <2>1, <2>2
  <2>4. EnabledFirst' /\ ReaderInside'
    BY <2>1, <2>2
  <2>5. WritersAround'
    BY <2>1, <2>2
  <2>6. QuietWhenDisabled' /\ InHandInside'
    BY <2>1, <2>2
  <2> QED
    BY <2>3, <2>4, <2>5, <2>6
<1>5. ASSUME NEW c \in Controllers, EnableDrain(c) PROVE TrackInv'
  BY <1>5 DEF EnableDrain
<1>6. ASSUME NEW c \in Controllers, DisableStart(c) PROVE TrackInv'
  BY <1>6 DEF DisableStart, Stop
<1>7. ASSUME NEW c \in Controllers, DisableWait(c) PROVE TrackInv'
  BY <1>7 DEF DisableWait
<1>8. ASSUME NEW c \in Controllers, DisableReader(c) PROVE TrackInv'
  <2>1. At(c, "reader_off") /\ ReaderMutexFree
    BY <1>8 DEF DisableReader
  <2>2. /\ readerOn' = FALSE /\ pc' = [pc EXCEPT ![c] = "writers_off"]
        /\ todo' = [todo EXCEPT ![c] = writers] /\ UNCHANGED <<enabled, writers, writerOn>>
    BY <1>8 DEF DisableReader
  <2>3. OneController' /\ OneTransmitter'
    BY <2>1, <2>2
  <2>4. EnabledFirst' /\ ReaderInside'
    BY <2>1, <2>2
  <2>5. WritersAround'
    BY <2>1, <2>2
  <2>6. QuietWhenDisabled' /\ InHandInside'
    BY <2>1, <2>2
  <2> QED
    BY <2>3, <2>4, <2>5, <2>6
<1>9. ASSUME NEW c \in Controllers, DisableWriter(c) PROVE TrackInv'
  BY <1>9 DEF DisableWriter
<1>10. ASSUME NEW c \in Controllers, DisableDone(c) PROVE TrackInv'
  BY <1>10 DEF DisableDone
<1>11. ASSUME NEW c \in Controllers, AddStart(c) PROVE TrackInv'
  BY <1>11 DEF AddStart
<1>12. ASSUME NEW c \in Controllers, AddFinish(c) PROVE TrackInv'
  BY <1>12 DEF AddFinish, Opened, SameParticipant
<1>13. ASSUME NEW c \in Controllers, RemoveStart(c) PROVE TrackInv'
  BY <1>13 DEF RemoveStart, SameParticipant
<1>14. ASSUME NEW c \in Controllers, RemoveFinish(c) PROVE TrackInv'
  BY <1>14 DEF RemoveFinish
<1>15. ASSUME NEW c \in Controllers, DestroyStart(c) PROVE TrackInv'
  <2>1. UNCHANGED <<endpointVars, todo>>
    BY <1>15 DEF DestroyStart
  <2>2. TrackMutexFree
    BY <1>15 DEF DestroyStart
  <2>3. CASE enabled
    <3>1. Stop(c)
      BY <1>15, <2>3 DEF DestroyStart
    <3> QED
      BY <2>1, <2>2, <3>1 DEF Stop
  <2>4. CASE ~enabled
    <3>1. Goto(c, "unset") /\ UNCHANGED enabled
      BY <1>15, <2>4 DEF DestroyStart
    <3> QED
      BY <2>1, <2>2, <2>4, <3>1
  <2> QED
    BY <2>3, <2>4
<1>16. ASSUME NEW c \in Controllers, DestroyUnset(c) PROVE TrackInv'
  BY <1>16 DEF DestroyUnset
<1>17. ASSUME NEW c \in Controllers, DestroyExit(c) PROVE TrackInv'
  BY <1>17 DEF DestroyExit
<1>18. ASSUME NEW s \in Sources, Arrive(s) PROVE TrackInv'
  BY <1>18 DEF Arrive
<1>19. ASSUME NEW t \in Controllers \cup Sources, CbCheck(t) PROVE TrackInv'
  BY <1>19 DEF CbCheck
<1>20. ASSUME NEW t \in Controllers \cup Sources, CbAdd(t) PROVE TrackInv'
  BY <1>20 DEF CbAdd
<1>21. ASSUME NEW t \in Controllers \cup Sources, CbEmit(t) PROVE TrackInv'
  BY <1>21 DEF CbEmit
<1>22. ASSUME NEW k \in Pool, RunTask(k) PROVE TrackInv'
  BY <1>22 DEF RunTask
<1>23. ASSUME NEW k \in Pool, TxLock(k) PROVE TrackInv'
  BY <1>23 DEF TxLock
<1>24. ASSUME NEW k \in Pool, TxCheck(k) PROVE TrackInv'
  BY <1>24 DEF TxCheck, ShouldTransmit
<1>25. ASSUME NEW k \in Pool, TxMark(k) PROVE TrackInv'
  BY <1>25 DEF TxMark
<1>26. ASSUME NEW k \in Pool, TxTakeDisabled(k) PROVE TrackInv'
  BY <1>26 DEF TxTakeDisabled
<1>27. ASSUME NEW k \in Pool, TxTakeEmpty(k) PROVE TrackInv'
  BY <1>27 DEF TxTakeEmpty
<1>28. ASSUME NEW k \in Pool, TxTakeCorrupt(k) PROVE TrackInv'
  BY <1>28 DEF TxTakeCorrupt
<1>29. ASSUME NEW k \in Pool, TxTake(k) PROVE TrackInv'
  BY <1>29 DEF TxTake
<1>30. ASSUME NEW k \in Pool, TxWrite(k) PROVE TrackInv'
  BY <1>30 DEF TxWrite
<1>31. ASSUME NEW k \in Pool, TxWritten(k) PROVE TrackInv'
  BY <1>31 DEF TxWritten
<1>32. ASSUME NEW k \in Pool, TxSub(k) PROVE TrackInv'
  BY <1>32 DEF TxSub, OneLess, NothingAdded
<1>33. ASSUME NEW t \in Pool \cup Sources, TouchDestroyed(t) PROVE TrackInv'
  BY <1>33 DEF TouchDestroyed
<1>34. CASE UNCHANGED vars
  BY <1>34 DEF vars
<1> QED
  BY <1>1, <1>2, <1>3, <1>4, <1>5, <1>6, <1>7, <1>8, <1>9, <1>10, <1>11, <1>12, <1>13, <1>14, <1>15, <1>16, <1>17, <1>18, <1>19, <1>20, <1>21, <1>22, <1>23, <1>24, <1>25, <1>26, <1>27, <1>28, <1>29, <1>30, <1>31, <1>32, <1>33, <1>34
     DEF Next, Call, ControllerStep, CallbackStep, PoolStep

LEMMA InvariantHolds == Spec => [](TypeOK /\ TrackInv)
<1>1. TypeOK /\ TrackInv /\ [Next]_vars => TrackInv'
  BY InvariantStep
<1> QED
  BY TypeCorrect, InvariantStart, <1>1, PTL DEF Spec

\* After disable() has waited for on_transmission_mutex_, nothing is taken from the
\* reader nor written until enable() is called again.
THEOREM QuietCorrect == Spec => []QuietWhenDisabled
<1>1. TrackInv => QuietWhenDisabled
  BY DEF TrackInv
<1> QED
  BY InvariantHolds, <1>1, PTL

\* transmit_() never calls write() on a disabled writer.
THEOREM WritersReadyCorrect == Spec => []WritersReadyWhenUsed
<1>1. TrackInv => WritersReadyWhenUsed
  BY DEF TrackInv, InHandInside, WritersAround, WritersReadyWhenUsed
<1> QED
  BY InvariantHolds, <1>1, PTL

-----------------------------------------------------------------------------
(* The Track implements a Relay: every step is a step of the Relay or leaves *)
(* its variables alone.                                                      *)

InFlight(k) == [item |-> item[k], to |-> todo[k]]
Nothing == [item |-> 0, to |-> {}]

\* There is one sample in flight at most, so Flight is the one in k's hand.
LEMMA FlightOf ==
  ASSUME NEW k \in Pool, OneTransmitter, At(k, "tx_write")
  PROVE  Flight = InFlight(k)
<1>1. \A l \in Pool : At(l, "tx_write") => l = k
  BY DEF OneTransmitter, At, Transmitting
<1>2. (CHOOSE l \in Pool : At(l, "tx_write")) = k
  BY <1>1
<1> QED
  BY <1>2 DEF Flight, InFlight

LEMMA FlightOfNext ==
  ASSUME NEW k \in Pool, OneTransmitter', At(k, "tx_write")'
  PROVE  Flight' = InFlight(k)'
<1>1. \A l \in Pool : At(l, "tx_write")' => l = k
  BY DEF OneTransmitter, At, Transmitting
<1>2. (CHOOSE l \in Pool : At(l, "tx_write")') = k
  BY <1>1
<1> QED
  BY <1>2 DEF Flight, InFlight

\* A step that moves no thread in or out of the writing loop, and leaves the locals
\* of the threads in it alone, does not change what is in flight.
LEMMA FlightKept ==
  ASSUME OneTransmitter, OneTransmitter',
         \A k \in Pool : At(k, "tx_write")' <=> At(k, "tx_write"),
         \A k \in Pool : At(k, "tx_write") => InFlight(k)' = InFlight(k)
  PROVE  Flight' = Flight
<1>1. CASE \E k \in Pool : At(k, "tx_write")
  <2> PICK k \in Pool : At(k, "tx_write")
    BY <1>1
  <2> QED
    BY FlightOf, FlightOfNext
<1>2. CASE ~\E k \in Pool : At(k, "tx_write")
  BY <1>2 DEF Flight
<1> QED
  BY <1>1, <1>2

\* The steps of a Track that are no step of the Relay.
Hidden == UNCHANGED <<Phase, writers, queue, Flight, delivered>>

LEMMA RelayStart == Init => Abstract!Start
<1> SUFFICES ASSUME Init PROVE Abstract!Start
  OBVIOUS
<1>1. \A t \in Threads : pc[t] = "idle"
  BY DEF Init
<1>2. Phase = "off" /\ Flight = Nothing
  BY <1>1 DEF Init, Phase, Flight, Nothing, At, Threads
<1> QED
  BY <1>2, TrackAssumption DEF Init, Abstract!Start, Abstract!Grounded, Nothing

LEMMA RelayStep ==
  ASSUME TypeOK, TypeOK', TrackInv, TrackInv', [Next]_vars
  PROVE  [Abstract!Move]_(Abstract!relayVars)
<1> USE TrackAssumption
    DEF TrackInv, TypeOK, Threads, ControllerSteps, SourceSteps, PoolSteps, Transmitting,
        Callback, Goto, At, InFlight, controlVars, endpointVars, localVars, historyVars
<1>a. ASSUME Hidden PROVE [Abstract!Move]_(Abstract!relayVars)
  BY <1>a DEF Hidden, Abstract!relayVars
<1>b. (\A k \in Pool : ~At(k, "tx_write")) => Flight = Nothing
  BY DEF Flight, Nothing
<1>c. TxMutexFree => Flight = Nothing
  BY <1>b DEF TxMutexFree
<1>1. ASSUME NEW c \in Controllers, EnableStart(c) PROVE Abstract!SwitchOn
  <2>1. Flight' = Flight
    BY <1>1, FlightKept DEF EnableStart
  <2>2. Phase = "off" /\ Phase' = "on"
    BY <1>1 DEF EnableStart, Phase, TrackMutexFree
  <2> QED
    BY <1>1, <2>1, <2>2 DEF EnableStart, Abstract!SwitchOn
<1>2. ASSUME NEW c \in Controllers, EnableReset(c) PROVE Hidden
  <2>1. Flight' = Flight
    BY <1>2, FlightKept DEF EnableReset
  <2>2. Phase' = Phase
    BY <1>2 DEF EnableReset, Phase, OneController
  <2> QED
    BY <1>2, <2>1, <2>2 DEF EnableReset, Hidden
<1>3. ASSUME NEW c \in Controllers, EnableWriter(c) PROVE Hidden
  <2>1. Flight' = Flight
    BY <1>3, FlightKept DEF EnableWriter
  <2>2. Phase' = Phase
    BY <1>3 DEF EnableWriter, Phase, OneController
  <2> QED
    BY <1>3, <2>1, <2>2 DEF EnableWriter, Hidden
<1>4. ASSUME NEW c \in Controllers, EnableReader(c) PROVE Hidden
  <2>1. Flight' = Flight
    BY <1>4, FlightKept DEF EnableReader
  <2>2. Phase' = Phase
    BY <1>4 DEF EnableReader, Phase, OneController
  <2> QED
    BY <1>4, <2>1, <2>2 DEF EnableReader, Hidden
<1>5. ASSUME NEW c \in Controllers, EnableDrain(c) PROVE Hidden
  <2>1. Flight' = Flight
    BY <1>5, FlightKept DEF EnableDrain
  <2>2. Phase' = Phase
    BY <1>5 DEF EnableDrain, Phase, OneController
  <2> QED
    BY <1>5, <2>1, <2>2 DEF EnableDrain, Hidden
<1>6. ASSUME NEW c \in Controllers, enabled, Stop(c),
          UNCHANGED <<writers, queue, localVars, delivered>>, TrackMutexFree
     PROVE  Abstract!Ask
  <2>1. Flight' = Flight
    BY <1>6, FlightKept DEF Stop
  <2>2. Phase = "on" /\ Phase' = "stopping"
    BY <1>6 DEF Stop, Phase
  <2> QED
    BY <1>6, <2>1, <2>2 DEF Abstract!Ask
<1>7. ASSUME NEW c \in Controllers, DisableStart(c) PROVE Abstract!Ask
  BY <1>7, <1>6 DEF DisableStart
<1>8. ASSUME NEW c \in Controllers, DisableWait(c) PROVE Abstract!SwitchOff
  <2>1. Flight = Nothing /\ Flight' = Flight
    BY <1>8, <1>c, FlightKept DEF DisableWait
  <2>2. Phase = "stopping" /\ Phase' = "off"
    BY <1>8 DEF DisableWait, Phase, OneController, EnabledFirst
  <2> QED
    BY <1>8, <2>1, <2>2 DEF DisableWait, Abstract!SwitchOff, Abstract!Grounded, Nothing
<1>9. ASSUME NEW c \in Controllers, DisableReader(c) PROVE Hidden
  <2>1. Flight' = Flight
    BY <1>9, FlightKept DEF DisableReader
  <2>2. Phase' = Phase
    BY <1>9 DEF DisableReader, Phase, OneController
  <2> QED
    BY <1>9, <2>1, <2>2 DEF DisableReader, Hidden
<1>10. ASSUME NEW c \in Controllers, DisableWriter(c) PROVE Hidden
  <2>1. Flight' = Flight
    BY <1>10, FlightKept DEF DisableWriter
  <2>2. Phase' = Phase
    BY <1>10 DEF DisableWriter, Phase, OneController
  <2> QED
    BY <1>10, <2>1, <2>2 DEF DisableWriter, Hidden
<1>11. ASSUME NEW c \in Controllers, DisableDone(c) PROVE Hidden
  <2>1. Flight' = Flight
    BY <1>11, FlightKept DEF DisableDone
  <2>2. Phase' = Phase
    BY <1>11 DEF DisableDone, Phase, OneController
  <2> QED
    BY <1>11, <2>1, <2>2 DEF DisableDone, Hidden
<1>12. ASSUME NEW c \in Controllers, AddStart(c) PROVE Hidden
  <2>1. Flight' = Flight
    BY <1>12, FlightKept DEF AddStart
  <2>2. Phase' = Phase
    BY <1>12 DEF AddStart, Phase, OneController, TrackMutexFree
  <2> QED
    BY <1>12, <2>1, <2>2 DEF AddStart, Hidden
<1>13. ASSUME NEW c \in Controllers, AddFinish(c) PROVE Abstract!Retarget
  <2>1. Flight = Nothing /\ Flight' = Flight
    BY <1>13, <1>c, FlightKept DEF AddFinish, Opened
  <2>2. Phase' = Phase
    BY <1>13 DEF AddFinish, Opened, Phase, OneController
  <2> QED
    BY <1>13, <2>1, <2>2 DEF AddFinish, Opened, Abstract!Retarget, Abstract!Grounded, Nothing
<1>14. ASSUME NEW c \in Controllers, RemoveFinish(c) PROVE Abstract!Retarget
  <2>1. Flight = Nothing /\ Flight' = Flight
    BY <1>14, <1>c, FlightKept DEF RemoveFinish
  <2>2. Phase' = Phase
    BY <1>14 DEF RemoveFinish, Phase, OneController
  <2> QED
    BY <1>14, <2>1, <2>2 DEF RemoveFinish, Abstract!Retarget, Abstract!Grounded, Nothing
<1>15. ASSUME NEW c \in Controllers, RemoveStart(c) PROVE Hidden
  <2>1. Flight' = Flight
    BY <1>15, FlightKept DEF RemoveStart
  <2>2. Phase' = Phase
    BY <1>15 DEF RemoveStart, Phase, OneController, TrackMutexFree
  <2> QED
    BY <1>15, <2>1, <2>2 DEF RemoveStart, Hidden
<1>16. ASSUME NEW c \in Controllers, DestroyStart(c) PROVE Abstract!Ask \/ Hidden
  <2>1. CASE enabled
    <3>1. Stop(c)
      BY <1>16, <2>1 DEF DestroyStart
    <3>2. UNCHANGED <<writers, queue, localVars, delivered>> /\ TrackMutexFree
      BY <1>16 DEF DestroyStart
    <3> QED
      BY <2>1, <3>1, <3>2, <1>6
  <2>2. CASE ~enabled
    <3>1. Goto(c, "unset") /\ UNCHANGED enabled
      BY <1>16, <2>2 DEF DestroyStart
    <3>2. UNCHANGED <<writers, queue, localVars, delivered>> /\ TrackMutexFree
      BY <1>16 DEF DestroyStart
    <3>3. Flight' = Flight
      BY <3>1, <3>2, FlightKept
    <3>4. Phase' = Phase
      BY <3>1, <3>2 DEF Phase, TrackMutexFree
    <3> QED
      BY <3>1, <3>2, <3>3, <3>4 DEF Hidden
  <2> QED
    BY <2>1, <2>2
<1>17. ASSUME NEW c \in Controllers, DestroyUnset(c) PROVE Hidden
  <2>1. Flight' = Flight
    BY <1>17, FlightKept DEF DestroyUnset
  <2>2. Phase' = Phase
    BY <1>17 DEF DestroyUnset, Phase, OneController
  <2> QED
    BY <1>17, <2>1, <2>2 DEF DestroyUnset, Hidden
<1>18. ASSUME NEW c \in Controllers, DestroyExit(c) PROVE Hidden
  <2>1. Flight' = Flight
    BY <1>18, FlightKept DEF DestroyExit
  <2>2. Phase' = Phase
    BY <1>18 DEF DestroyExit, Phase, OneController
  <2> QED
    BY <1>18, <2>1, <2>2 DEF DestroyExit, Hidden
<1>19. ASSUME NEW s \in Sources, Arrive(s) PROVE Abstract!Receive \/ Hidden
  <2>1. Flight' = Flight
    BY <1>19, FlightKept DEF Arrive
  <2>2. Phase' = Phase
    BY <1>19 DEF Arrive, Phase
  <2>3. CASE Keeps
    <3>1. queue' = Append(queue, received + 1)
      BY <1>19, <2>3 DEF Arrive
    <3>2. /\ Len(queue') = Len(queue) + 1
          /\ \A i \in 1..Len(queue) : queue'[i] = queue[i]
      BY <3>1
    <3> QED
      BY <1>19, <2>1, <2>2, <3>2 DEF Arrive, Abstract!Receive
  <2>4. CASE ~Keeps
    BY <1>19, <2>1, <2>2, <2>4 DEF Arrive, Hidden
  <2> QED
    BY <2>3, <2>4
<1>20. ASSUME NEW t \in Controllers \cup Sources, CbCheck(t) PROVE Hidden
  <2>1. Flight' = Flight
    BY <1>20, FlightKept DEF CbCheck
  <2>2. Phase' = Phase
    BY <1>20 DEF CbCheck, Phase, OneController
  <2> QED
    BY <1>20, <2>1, <2>2 DEF CbCheck, Hidden
<1>21. ASSUME NEW t \in Controllers \cup Sources, CbAdd(t) PROVE Hidden
  <2>1. Flight' = Flight
    BY <1>21, FlightKept DEF CbAdd
  <2>2. Phase' = Phase
    BY <1>21 DEF CbAdd, Phase, OneController
  <2> QED
    BY <1>21, <2>1, <2>2 DEF CbAdd, Hidden
<1>22. ASSUME NEW t \in Controllers \cup Sources, CbEmit(t) PROVE Hidden
  <2>1. Flight' = Flight
    BY <1>22, FlightKept DEF CbEmit
  <2>2. Phase' = Phase
    BY <1>22 DEF CbEmit, Phase, OneController
  <2> QED
    BY <1>22, <2>1, <2>2 DEF CbEmit, Hidden
<1>23. ASSUME NEW k \in Pool, RunTask(k) PROVE Hidden
  <2>1. Flight' = Flight
    BY <1>23, FlightKept DEF RunTask
  <2>2. Phase' = Phase
    BY <1>23 DEF RunTask, Phase, OneController
  <2> QED
    BY <1>23, <2>1, <2>2 DEF RunTask, Hidden
<1>24. ASSUME NEW k \in Pool, TxLock(k) PROVE Hidden
  <2>1. Flight' = Flight
    BY <1>24, FlightKept DEF TxLock
  <2>2. Phase' = Phase
    BY <1>24 DEF TxLock, Phase, OneController
  <2> QED
    BY <1>24, <2>1, <2>2 DEF TxLock, Hidden
<1>25. ASSUME NEW k \in Pool, TxCheck(k) PROVE Hidden
  <2>1. Flight' = Flight
    BY <1>25, FlightKept DEF TxCheck
  <2>2. Phase' = Phase
    BY <1>25 DEF TxCheck, Phase, OneController
  <2> QED
    BY <1>25, <2>1, <2>2 DEF TxCheck, Hidden
<1>26. ASSUME NEW k \in Pool, TxMark(k) PROVE Hidden
  <2>1. Flight' = Flight
    BY <1>26, FlightKept DEF TxMark
  <2>2. Phase' = Phase
    BY <1>26 DEF TxMark, Phase, OneController
  <2> QED
    BY <1>26, <2>1, <2>2 DEF TxMark, Hidden
<1>27. ASSUME NEW k \in Pool, TxTakeDisabled(k) PROVE Hidden
  <2>1. Flight' = Flight
    BY <1>27, FlightKept DEF TxTakeDisabled
  <2>2. Phase' = Phase
    BY <1>27 DEF TxTakeDisabled, Phase, OneController
  <2> QED
    BY <1>27, <2>1, <2>2 DEF TxTakeDisabled, Hidden
<1>28. ASSUME NEW k \in Pool, TxTakeEmpty(k) PROVE Hidden
  <2>1. Flight' = Flight
    BY <1>28, FlightKept DEF TxTakeEmpty
  <2>2. Phase' = Phase
    BY <1>28 DEF TxTakeEmpty, Phase, OneController
  <2> QED
    BY <1>28, <2>1, <2>2 DEF TxTakeEmpty, Hidden
<1>29. ASSUME NEW k \in Pool, TxSub(k) PROVE Hidden
  <2>1. Flight' = Flight
    BY <1>29, FlightKept DEF TxSub, OneLess, NothingAdded
  <2>2. Phase' = Phase
    BY <1>29 DEF TxSub, OneLess, NothingAdded, Phase, OneController
  <2> QED
    BY <1>29, <2>1, <2>2 DEF TxSub, OneLess, NothingAdded, Hidden
<1>30. ASSUME NEW k \in Pool, At(k, "tx_take")
     PROVE  Phase # "off" /\ Flight = Nothing
  <2>1. Phase # "off"
    BY <1>30 DEF Phase, QuietWhenDisabled
  <2>2. \A l \in Pool : ~At(l, "tx_write")
    BY <1>30 DEF OneTransmitter
  <2> QED
    BY <2>1, <2>2, <1>b
<1>31. ASSUME NEW k \in Pool, TxTakeCorrupt(k) PROVE Abstract!Lift
  <2>1. Flight' = Flight
    BY <1>31, FlightKept DEF TxTakeCorrupt
  <2>2. Phase' = Phase
    BY <1>31 DEF TxTakeCorrupt, Phase
  <2> QED
    BY <1>31, <1>30, <2>1, <2>2 DEF TxTakeCorrupt, Abstract!Lift, Abstract!Grounded, Nothing
<1>32. ASSUME NEW k \in Pool, TxTake(k) PROVE Abstract!Lift
  <2>1. At(k, "tx_write")'
    BY <1>32 DEF TxTake
  <2>2. Flight' = [item |-> Head(queue), to |-> writers]
    BY <1>32, <2>1, FlightOfNext DEF TxTake
  <2>3. Phase' = Phase
    BY <1>32 DEF TxTake, Phase
  <2> QED
    BY <1>32, <1>30, <2>2, <2>3 DEF TxTake, Abstract!Lift, Abstract!Grounded, Nothing
<1>33. ASSUME NEW k \in Pool, TxWrite(k) PROVE Abstract!Hand
  <2>1. PICK w \in todo[k] :
          /\ delivered' = IF w \in writerOn
                          THEN [delivered EXCEPT ![w] = Append(@, item[k])]
                          ELSE delivered
          /\ todo' = [todo EXCEPT ![k] = @ \ {w}]
    BY <1>33 DEF TxWrite
  <2>2. w \in writerOn
    BY <1>33 DEF TxWrite, InHandInside, WritersAround
  <2>3. At(k, "tx_write") /\ At(k, "tx_write")'
    BY <1>33 DEF TxWrite
  <2>4. Flight = [item |-> item[k], to |-> todo[k]]
    BY <2>3, FlightOf
  <2>5. Flight' = [item |-> item[k], to |-> todo[k] \ {w}]
    BY <1>33, <2>1, <2>3, FlightOfNext DEF TxWrite
  <2>6. Phase' = Phase
    BY <1>33 DEF TxWrite, Phase
  <2>7. Flight.to = todo[k] /\ Flight.item = item[k]
    BY <2>4
  <2>8. delivered' = [delivered EXCEPT ![w] = Append(@, Flight.item)]
    BY <2>1, <2>2, <2>7
  <2> QED
    BY <1>33, <2>5, <2>6, <2>7, <2>8 DEF TxWrite, Abstract!Hand
<1>34. ASSUME NEW k \in Pool, TxWritten(k) PROVE Abstract!Land \/ Hidden
  <2>1. Flight = [item |-> item[k], to |-> {}]
    BY <1>34, FlightOf DEF TxWritten
  <2>2. \A l \in Pool : ~At(l, "tx_write")'
    BY <1>34 DEF TxWritten, OneTransmitter
  <2>3. Flight' = Nothing
    BY <2>2 DEF Flight, Nothing
  <2>4. Phase' = Phase
    BY <1>34 DEF TxWritten, Phase
  <2> QED
    BY <1>34, <2>1, <2>3, <2>4 DEF TxWritten, Abstract!Land, Abstract!Grounded, Nothing, Hidden
<1>35. ASSUME NEW t \in Pool \cup Sources, TouchDestroyed(t) PROVE Hidden
  <2>1. \A k \in Pool : ~At(k, "tx_write")
    <3>1. PICK c \in Controllers : At(c, "gone")
      BY <1>35 DEF TouchDestroyed, Destroyed
    <3>2. ~enabled
      BY <3>1 DEF EnabledFirst
    <3>3. \A d \in Controllers : ~At(d, "wait_tx")
      BY <3>1 DEF OneController
    <3> QED
      BY <3>2, <3>3 DEF QuietWhenDisabled
  <2>2. Flight' = Flight
    BY <1>35, <2>1, FlightKept DEF TouchDestroyed
  <2>3. Phase' = Phase
    BY <1>35 DEF TouchDestroyed, Phase
  <2> QED
    BY <1>35, <2>2, <2>3 DEF TouchDestroyed, Hidden
<1>36. CASE UNCHANGED vars
  BY <1>36 DEF vars, Abstract!relayVars, Phase, Flight
<1> QED
  BY <1>a, <1>1, <1>2, <1>3, <1>4, <1>5, <1>6, <1>7, <1>8, <1>9, <1>10, <1>11, <1>12, <1>13, <1>14, <1>15, <1>16, <1>17, <1>18, <1>19, <1>20, <1>21, <1>22, <1>23, <1>24, <1>25, <1>26, <1>27, <1>28, <1>29, <1>30, <1>31, <1>32, <1>33, <1>34, <1>35, <1>36
     DEF Next, Call, ControllerStep, CallbackStep, PoolStep, Abstract!Move

\* A Track behaves as a Relay: one sample in flight at a time, handed to every writer
\* that was in writers_ when it was taken, and none in flight once disable() is done.
THEOREM RelayCorrect == Spec => ImplementsSafeRelay
<1>1. TypeOK /\ TrackInv /\ (TypeOK /\ TrackInv)' /\ [Next]_vars
        => [Abstract!Move]_(Abstract!relayVars)
  BY RelayStep
<1> QED
  BY RelayStart, InvariantHolds, <1>1, PTL
     DEF Spec, ImplementsSafeRelay, Abstract!SafeRelay
=============================================================================
