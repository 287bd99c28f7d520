---------------------------- MODULE MonitorProofs ----------------------------
(***************************************************************************)
(* Proofs about Monitor, for any number of readers, of threads that        *)
(* discover types and of Monitors made one after the other.                *)
(***************************************************************************)
EXTENDS Monitor, FiniteSetTheorems, TLAPS

(* Where the application is in its Monitor, and with which producer; the   *)
(* destructor goes through the producers by their index.                   *)
AppStates ==
  [at : {"none", "running", "events"}]
    \cup [at : {"register", "start"}, producer : Producers]
    \cup [at : {"disable", "consumers", "data"}, index : Nat]

(* What a thread has found the producer enabled for.                       *)
Calls(t) ==
  [in : {"none", "mismatch", "error", "add"}]
    \cup [in : {"count"}, counter : {t} \X {"received", "lost"}]
    \cup [in : {"type"}, type : Readers]

Registering == IF app.at \in {"register", "start"} THEN {app.producer} ELSE {}
Disabling == app.at \in {"disable", "consumers", "data"}

Distinct == \A i, j \in 1..Len(producers) : producers[i] = producers[j] => i = j

AppInv ==
  /\ app \in AppStates
  /\ producers \in Seq(Producers) /\ Distinct
  /\ Registering \cap Monitored = {}
  /\ Disabling => app.index \in 1..Len(producers)
  /\ app.at = "none" => producers = <<>>

ValuesInv ==
  /\ monitors \in 0..MaxMonitors
  /\ enabled \subseteq Producers /\ consumers \subseteq Producers
  /\ \A t \in Threads : call[t] \in Calls(t)
  /\ call = [t \in Threads |-> call[t]]
  /\ msgs \in [Counters -> Nat]
  /\ counted \in [Counters -> Nat]
  /\ reported \in [Counters -> Nat]
  /\ cleared \in [Counters -> Nat]
  /\ topics \subseteq Readers /\ mismatched \subseteq topics
  /\ types \subseteq Readers /\ errors \subseteq Readers
  /\ told \in [Producers -> SUBSET Readers]

(* A timer that may fire has a producer with consumers, and is destroyed    *)
(* before they are: so no report is made that nobody gets.                  *)
TimersInv ==
  /\ events \subseteq Monitored /\ firing \subseteq events
  /\ Disabling => events = {}
  /\ events \cap enabled \subseteq consumers
  /\ firing \subseteq consumers
  /\ app.at = "start" => Registering \cap enabled \subseteq consumers

MonitorInv == AppInv /\ ValuesInv /\ TimersInv

(* The producer of topics is at rest before a Monitor is told to monitor    *)
(* topics, and once its destructor has passed it: then it is disabled, and  *)
(* of each reader it may get the call that the reader had begun.            *)
NotYetUp == "topics" \notin Monitored \cup Registering
Passed == Disabling /\ \A j \in app.index..Len(producers) : producers[j] # "topics"
Silenced == app.at \in {"consumers", "data"} /\ producers[app.index] = "topics"

Begun(r) == IF call[r].in = "count" THEN 1 ELSE 0
Leftover == \A r \in Readers : Of(r) + Begun(r) <= 1

LeftInv ==
  /\ Silenced => "topics" \notin enabled
  /\ NotYetUp \/ Passed => "topics" \notin enabled /\ Leftover

-----------------------------------------------------------------------------
(* What a step of a reader does not touch *)

\* The parts of the invariant that concern the application and the timers hold as long as
\* nobody touches what they speak of.
LEMMA AppUnchanged ==
  ASSUME AppInv, TimersInv,
         UNCHANGED <<app, producers, enabled, consumers, events, firing>>
  PROVE  AppInv' /\ TimersInv'
BY DEF AppInv, TimersInv, Registering, Monitored, Disabling, Distinct

LEMMA ValuesUnchanged ==
  ASSUME ValuesInv, UNCHANGED <<call, dataVars, historyVars>>,
         monitors' \in 0..MaxMonitors, enabled' \subseteq Producers, consumers' \subseteq Producers
  PROVE  ValuesInv'
BY DEF ValuesInv, dataVars, historyVars

\* A call that a thread begins or ends.
LEMMA CallType ==
  ASSUME ValuesInv, NEW t \in Threads, NEW c \in Calls(t), call' = [call EXCEPT ![t] = c]
  PROVE  /\ \A u \in Threads : call'[u] \in Calls(u)
         /\ call' = [u \in Threads |-> call'[u]]
BY DEF ValuesInv

\* A thread that only begins or ends a call changes nothing else.
LEMMA CallOnly ==
  ASSUME MonitorInv, NEW t \in Threads, NEW c \in Calls(t), call' = [call EXCEPT ![t] = c],
         UNCHANGED <<monitorVars, configVars, timerVars, dataVars, historyVars>>
  PROVE  MonitorInv'
<1>1. ValuesInv'
  BY CallType DEF MonitorInv, ValuesInv, monitorVars, configVars, dataVars, historyVars
<1>. QED
  BY <1>1, AppUnchanged DEF MonitorInv, monitorVars, configVars, timerVars

-----------------------------------------------------------------------------
(* The application *)

\* The Monitor gets a producer that it did not have.
LEMMA ProducerAdded ==
  ASSUME AppInv, RegisterProducer
  PROVE  /\ producers' \in Seq(Producers) /\ Distinct'
         /\ Monitored' = Monitored \cup Registering
<1>1. app.at = "start" /\ app.producer \in Producers /\ Registering = {app.producer}
  BY DEF AppInv, AppStates, RegisterProducer, Registering
<1>2. producers' = Append(producers, app.producer)
  BY DEF RegisterProducer
<1>3. producers' \in Seq(Producers) /\ Len(producers') = Len(producers) + 1
  BY <1>1, <1>2 DEF AppInv
<1>4. \A i \in 1..Len(producers) : producers'[i] = producers[i] /\ producers[i] # app.producer
  BY <1>1, <1>2 DEF AppInv, Monitored
<1>5. producers'[Len(producers) + 1] = app.producer
  BY <1>1, <1>2 DEF AppInv
<1>6. Len(producers) \in Nat /\ DOMAIN producers = 1..Len(producers)
      /\ DOMAIN producers' = 1..(Len(producers) + 1)
  BY <1>1, <1>2 DEF AppInv
<1>7. Distinct'
  BY <1>3, <1>4, <1>5, <1>6 DEF AppInv, Distinct
<1>8. Monitored' = Monitored \cup {app.producer}
  BY <1>4, <1>5, <1>6 DEF Monitored
<1>. QED
  BY <1>1, <1>3, <1>7, <1>8

\* The Monitor is made, and its producers are set up one after the other.
LEMMA SetUpKeeps ==
  ASSUME AppInv, TimersInv,
         \/ Construct \/ RegisterConsumers \/ RegisterProducer
         \/ \E p \in Producers : InitProducer(p)
  PROVE  AppInv' /\ TimersInv'
<1>. USE DEF AppInv, TimersInv, AppStates, Registering, Disabling
<1>1. CASE Construct
  BY <1>1 DEF Construct, NoMonitor, Running, configVars, timerVars, Monitored, Distinct
<1>2. ASSUME NEW p \in Producers, InitProducer(p)
      PROVE  AppInv' /\ TimersInv'
  BY <1>2 DEF InitProducer, Running, timerVars, Monitored, Distinct
<1>3. CASE RegisterConsumers
  <2>1. app'.at = "start" /\ app'.producer = app.producer /\ app.producer \in Producers
        /\ app' \in AppStates
    BY <1>3 DEF RegisterConsumers
  <2>. QED
    BY <1>3, <2>1 DEF RegisterConsumers, timerVars, Monitored, Distinct
<1>4. CASE RegisterProducer
  <2>1. /\ producers' \in Seq(Producers) /\ Distinct'
        /\ Monitored' = Monitored \cup Registering
    BY <1>4, ProducerAdded
  <2>2. /\ app' = [at |-> "running"] /\ app.at = "start"
        /\ events' = events \cup {app.producer} /\ firing' = firing
        /\ enabled' = enabled /\ consumers' = consumers
    BY <1>4 DEF RegisterProducer, Running, configVars
  <2>3. AppInv'
    BY <2>1, <2>2
  <2>4. TimersInv'
    BY <2>1, <2>2
  <2>. QED
    BY <2>3, <2>4
<1>. QED
  BY <1>1, <1>2, <1>3, <1>4

\* What the destructor goes on to after producer i - 1.
LEMMA NextProducerType ==
  ASSUME AppInv, NEW i \in Nat \ {0}, i <= Len(producers) + 1, NextProducer(i), Forget(i)
  PROVE  AppInv' /\ Registering' = {} /\ app'.at # "start"
<1>. USE DEF AppInv, AppStates, Registering, Disabling
<1>1. Len(producers) \in Nat
  OBVIOUS
<1>2. CASE i > Len(producers)
  <2>1. app' = [at |-> "none"] /\ producers' = <<>>
    BY <1>2 DEF NextProducer, Forget, NoMonitor
  <2>2. Monitored' = {} /\ Distinct' /\ producers' \in Seq(Producers)
    BY <2>1 DEF Monitored, Distinct
  <2>. QED
    BY <2>1, <2>2
<1>3. CASE ~(i > Len(producers))
  <2>1. app' = [at |-> "disable", index |-> i] /\ producers' = producers
    BY <1>3 DEF NextProducer, Forget
  <2>2. i \in 1..Len(producers)
    BY <1>1, <1>3
  <2>. QED
    BY <2>1, <2>2 DEF Monitored, Distinct
<1>. QED
  BY <1>2, <1>3

\* The destructor goes on with the producer it is at.
LEMMA SameProducer ==
  ASSUME AppInv, Disabling, NEW place \in {"consumers", "data"},
         app' = [app EXCEPT !.at = place], producers' = producers
  PROVE  /\ AppInv' /\ Registering' = {}
         /\ app'.at = place /\ app'.index = app.index
<1>1. app' = [at |-> place, index |-> app.index]
  BY DEF AppInv, AppStates, Disabling
<1>2. app.index \in Nat /\ app.index \in 1..Len(producers)
  BY DEF AppInv, AppStates, Disabling
<1>3. app'.at = place /\ app'.index = app.index /\ app' \in AppStates
  BY <1>1, <1>2 DEF AppStates
<1>4. Registering' = {}
  BY <1>3 DEF Registering
<1>5. producers' \in Seq(Producers) /\ Distinct'
  BY DEF AppInv, Distinct
<1>. QED
  BY <1>2, <1>3, <1>4, <1>5 DEF AppInv

\* The Monitor is destroyed: first its timers, then what its producers have.
LEMMA TearDownKeeps ==
  ASSUME AppInv, TimersInv,
         Destruct \/ ClearEvent \/ EventsCleared \/ Disable \/ ClearConsumers \/ ClearData
  PROVE  AppInv' /\ TimersInv'
<1>1. CASE Destruct
  BY <1>1 DEF Destruct, Running, configVars, timerVars, AppInv, TimersInv, AppStates,
     Registering, Disabling, Monitored, Distinct
<1>2. CASE ClearEvent
  BY <1>2 DEF ClearEvent, CallbackEnded, monitorVars, configVars, AppInv, TimersInv, AppStates,
     Registering, Disabling, Monitored, Distinct
<1>3. CASE EventsCleared
  <2>1. Len(producers) \in Nat
    BY DEF AppInv
  <2>2. AppInv' /\ Registering' = {} /\ app'.at # "start"
    BY <1>3, <2>1, NextProducerType DEF EventsCleared
  <2>3. events' = {} /\ firing' = {}
    BY <1>3 DEF EventsCleared, TimersInv, timerVars
  <2>. QED
    BY <2>2, <2>3 DEF TimersInv
<1>4. CASE Disable
  <2>1. AppInv' /\ app'.at = "consumers"
    BY <1>4, SameProducer DEF Disable, Disabling
  <2>2. events' = {} /\ firing' = {}
    BY <1>4 DEF Disable, TimersInv, timerVars, Disabling
  <2>. QED
    BY <2>1, <2>2 DEF TimersInv
<1>5. CASE ClearConsumers
  <2>1. AppInv' /\ app'.at = "data"
    BY <1>5, SameProducer DEF ClearConsumers, Disabling
  <2>2. events' = {} /\ firing' = {}
    BY <1>5 DEF ClearConsumers, TimersInv, timerVars, Disabling
  <2>. QED
    BY <2>1, <2>2 DEF TimersInv
<1>6. CASE ClearData
  <2>1. app.index \in 1..Len(producers) /\ Len(producers) \in Nat
    BY <1>6 DEF ClearData, AppInv, Disabling
  <2>2. app.index + 1 \in Nat \ {0} /\ app.index + 1 <= Len(producers) + 1
    BY <2>1
  <2>3. AppInv' /\ Registering' = {} /\ app'.at # "start"
    BY <1>6, <2>2, NextProducerType DEF ClearData
  <2>4. events' = {} /\ firing' = {}
    BY <1>6 DEF ClearData, TimersInv, timerVars, Disabling
  <2>. QED
    BY <2>3, <2>4 DEF TimersInv
<1>. QED
  BY <1>1, <1>2, <1>3, <1>4, <1>5, <1>6

\* The sums of counts are counts.
LEMMA PlusType ==
  ASSUME NEW f \in [Counters -> Nat], NEW g \in [Counters -> Nat]
  PROVE  Plus(f, g) \in [Counters -> Nat]
BY DEF Plus

\* What the application does to the data: it clears some of it in the end.
LEMMA AppValues ==
  ASSUME ValuesInv, AppStep
  PROVE  ValuesInv'
<1>1. CASE ClearData
  <2>1. UNCHANGED <<monitors, enabled, consumers, call, counted, reported>>
    BY <1>1 DEF ClearData, configVars
  <2>2. CASE producers[app.index] = "topics"
    <3>1. ClearTopics
      BY <1>1, <2>2 DEF ClearData
    <3>2. msgs' \in [Counters -> Nat] /\ cleared' \in [Counters -> Nat]
      BY <3>1, PlusType DEF ClearTopics, Nought, ValuesInv
    <3>. QED
      BY <2>1, <3>1, <3>2 DEF ClearTopics, ValuesInv, Producers
  <2>3. CASE producers[app.index] # "topics"
    <3>1. ClearStatus
      BY <1>1, <2>3 DEF ClearData
    <3>. QED
      BY <2>1, <3>1 DEF ClearStatus, ValuesInv, Producers
  <2>. QED
    BY <2>2, <2>3
<1>2. ASSUME NEW p \in Producers, InitProducer(p)
      PROVE  ValuesInv'
  BY <1>2, ValuesUnchanged DEF InitProducer, ValuesInv
<1>3. CASE Construct
  BY <1>3, ValuesUnchanged, MonitorAssumption DEF Construct, ValuesInv, configVars
<1>4. CASE RegisterConsumers
  BY <1>4, ValuesUnchanged DEF RegisterConsumers, ValuesInv
<1>5. CASE RegisterProducer \/ Destruct \/ EventsCleared
  BY <1>5, ValuesUnchanged DEF RegisterProducer, Destruct, EventsCleared, ValuesInv, configVars
<1>6. CASE ClearEvent
  BY <1>6, ValuesUnchanged DEF ClearEvent, ValuesInv, configVars, monitorVars
<1>7. CASE Disable \/ ClearConsumers
  BY <1>7, ValuesUnchanged DEF Disable, ClearConsumers, ValuesInv
<1>. QED
  BY <1>1, <1>2, <1>3, <1>4, <1>5, <1>6, <1>7 DEF AppStep

-----------------------------------------------------------------------------
(* The timers, and the threads of readers and of the discovery of types *)

\* A timer fires and the producer reports.
LEMMA TimerKeeps ==
  ASSUME MonitorInv, NEW p \in Producers, Fire(p) \/ Report(p)
  PROVE  MonitorInv'
<1>. USE DEF MonitorInv
<1>1. CASE Fire(p)
  <2>1. AppInv' /\ TimersInv'
    BY <1>1 DEF Fire, monitorVars, configVars, AppInv, TimersInv, Registering, Monitored,
       Disabling, Distinct
  <2>2. ValuesInv'
    BY <1>1, ValuesUnchanged DEF Fire, ValuesInv, monitorVars, configVars
  <2>. QED
    BY <2>1, <2>2
<1>2. CASE Report(p)
  <2>1. AppInv' /\ TimersInv'
    BY <1>2 DEF Report, monitorVars, configVars, AppInv, TimersInv, Registering, Monitored,
       Disabling, Distinct
  <2>2. msgs' \in [Counters -> Nat] /\ reported' \in [Counters -> Nat]
    BY <1>2, PlusType DEF Report, ReportTopics, ReportStatus, ResetData, Nought, ValuesInv
  <2>3. told' \in [Producers -> SUBSET Readers]
    BY <1>2 DEF Report, ReportTopics, ReportStatus, ValuesInv
  <2>4. ValuesInv'
    BY <1>2, <2>2, <2>3 DEF Report, monitorVars, configVars, ValuesInv
  <2>. QED
    BY <2>1, <2>4
<1>. QED
  BY <1>1, <1>2

\* The counter that a reader adds to is one of its own.
LEMMA CountsOwn ==
  ASSUME ValuesInv, NEW r \in Readers, call[r].in = "count"
  PROVE  /\ call[r].counter \in {r} \X {"received", "lost"}
         /\ call[r].counter \in Counters
<1>1. call[r] \in Calls(r)
  BY DEF ValuesInv, Threads
<1>. QED
  BY <1>1 DEF Calls, Counters

\* A reader begins a call, or does what it has called for.
LEMMA ReaderKeeps ==
  ASSUME MonitorInv, NEW r \in Readers, ReaderStep(r)
  PROVE  MonitorInv'
<1>. USE DEF MonitorInv
<1>1. r \in Threads /\ Elsewhere \in Calls(r)
  BY DEF Threads, Elsewhere, Calls
<1>2. ASSUME NEW c \in {r} \X {"received", "lost"}, CountCall(r, c)
      PROVE  MonitorInv'
  <2>1. [in |-> "count", counter |-> c] \in Calls(r)
    BY DEF Calls
  <2>. QED
    BY <1>1, <1>2, <2>1, CallOnly DEF CountCall, Look
<1>3. CASE MismatchCall(r)
  <2>1. [in |-> "mismatch"] \in Calls(r)
    BY DEF Calls
  <2>. QED
    BY <1>1, <1>3, <2>1, CallOnly DEF MismatchCall, Look
<1>4. CASE MismatchIgnored(r)
  <2>1. [in |-> "error"] \in Calls(r)
    BY DEF Calls
  <2>. QED
    BY <1>1, <1>4, <2>1, CallOnly DEF MismatchIgnored
<1>5. CASE ErrorLook(r)
  <2>1. [in |-> "add"] \in Calls(r)
    BY DEF Calls
  <2>. QED
    BY <1>1, <1>5, <2>1, CallOnly DEF ErrorLook
<1>6. CASE Count(r)
  <2>1. call[r].counter \in Counters
    BY <1>6, CountsOwn DEF Count
  <2>2. msgs' \in [Counters -> Nat] /\ counted' \in [Counters -> Nat]
    BY <1>6, <2>1 DEF Count, ValuesInv
  <2>3. /\ \A u \in Threads : call'[u] \in Calls(u)
        /\ call' = [u \in Threads |-> call'[u]]
    BY <1>1, <1>6, CallType DEF Count
  <2>4. ValuesInv'
    BY <1>6, <2>2, <2>3 DEF Count, ValuesInv, monitorVars, configVars
  <2>. QED
    BY <1>6, <2>4, AppUnchanged DEF Count, monitorVars, configVars, timerVars
<1>7. CASE Mismatch(r)
  <2>1. [in |-> "error"] \in Calls(r)
    BY DEF Calls
  <2>2. /\ \A u \in Threads : call'[u] \in Calls(u)
        /\ call' = [u \in Threads |-> call'[u]]
    BY <1>1, <1>7, <2>1, CallType DEF Mismatch
  <2>3. ValuesInv'
    BY <1>7, <2>2 DEF Mismatch, ValuesInv, monitorVars, configVars, historyVars
  <2>. QED
    BY <1>7, <2>3, AppUnchanged DEF Mismatch, monitorVars, configVars, timerVars
<1>8. CASE AddError(r)
  <2>1. /\ \A u \in Threads : call'[u] \in Calls(u)
        /\ call' = [u \in Threads |-> call'[u]]
    BY <1>1, <1>8, CallType DEF AddError
  <2>2. ValuesInv'
    BY <1>8, <2>1 DEF AddError, ValuesInv, monitorVars, configVars, historyVars
  <2>. QED
    BY <1>8, <2>2, AppUnchanged DEF AddError, monitorVars, configVars, timerVars
<1>. QED
  BY <1>2, <1>3, <1>4, <1>5, <1>6, <1>7, <1>8 DEF ReaderStep

\* A type is discovered.
LEMMA DiscovererKeeps ==
  ASSUME MonitorInv, NEW d \in Discoverers,
         DiscoverType(d) \/ \E r \in Readers : TypeCall(d, r)
  PROVE  MonitorInv'
<1>. USE DEF MonitorInv
<1>1. d \in Threads /\ Elsewhere \in Calls(d)
  BY DEF Threads, Elsewhere, Calls
<1>2. CASE DiscoverType(d)
  <2>1. /\ \A u \in Threads : call'[u] \in Calls(u)
        /\ call' = [u \in Threads |-> call'[u]]
    BY <1>1, <1>2, CallType DEF DiscoverType
  <2>2. call[d].type \in Readers
    <3>1. call[d] \in Calls(d) /\ call[d].in = "type"
      BY <1>1, <1>2 DEF DiscoverType, ValuesInv
    <3>. QED
      BY <3>1 DEF Calls
  <2>3. ValuesInv'
    BY <1>2, <2>1, <2>2 DEF DiscoverType, ValuesInv, monitorVars, configVars, historyVars
  <2>. QED
    BY <1>2, <2>3, AppUnchanged DEF DiscoverType, monitorVars, configVars, timerVars
<1>3. ASSUME NEW r \in Readers, TypeCall(d, r)
      PROVE  MonitorInv'
  <2>1. [in |-> "type", type |-> r] \in Calls(d)
    BY DEF Calls
  <2>. QED
    BY <1>1, <1>3, <2>1, CallOnly DEF TypeCall, Look
<1>. QED
  BY <1>2, <1>3

LEMMA MonitorStepKeeps ==
  ASSUME MonitorInv, [Next]_vars
  PROVE  MonitorInv'
<1>1. CASE AppStep
  BY <1>1, SetUpKeeps, TearDownKeeps, AppValues DEF AppStep, MonitorInv
<1>2. CASE UNCHANGED vars
  BY <1>2, AppUnchanged, ValuesUnchanged
     DEF vars, MonitorInv, ValuesInv, monitorVars, configVars, timerVars
<1>. QED
  BY <1>1, <1>2, TimerKeeps, ReaderKeeps, DiscovererKeeps DEF Next

LEMMA MonitorStarts ==
  ASSUME Init
  PROVE  MonitorInv
<1>1. AppInv
  BY DEF Init, AppInv, AppStates, NoMonitor, Registering, Monitored, Distinct, Disabling
<1>2. TimersInv
  BY DEF Init, TimersInv, NoMonitor, Registering, Disabling
<1>3. ValuesInv
  BY MonitorAssumption DEF Init, ValuesInv, Calls, Elsewhere, Nought
<1>. QED
  BY <1>1, <1>2, <1>3 DEF MonitorInv

-----------------------------------------------------------------------------
(* Each message is in one report *)

\* The sum, counter by counter.
Balance == \A c \in Counters : counted[c] = (reported[c] + msgs[c]) + cleared[c]

LEMMA BalanceIsSum ==
  ASSUME ValuesInv
  PROVE  EachCountReportedOnce <=> Balance
<1>1. Plus(Plus(reported, msgs), cleared)
        = [c \in Counters |-> (reported[c] + msgs[c]) + cleared[c]]
  BY DEF Plus
<1>2. counted = [c \in Counters |-> counted[c]]
  BY DEF ValuesInv
<1>. QED
  BY <1>1, <1>2 DEF EachCountReportedOnce, Balance

\* No step loses a message or counts it twice.  A report moves what was counted to those
\* that consumers got: the timer that makes it has found a producer with consumers.
LEMMA BalanceKept ==
  ASSUME MonitorInv, Balance, [Next]_vars
  PROVE  Balance'
<1>. USE DEF MonitorInv
<1>1. CASE UNCHANGED <<msgs, historyVars>>
  BY <1>1 DEF Balance, historyVars
<1>2. CASE ClearData
  <2>1. CASE producers[app.index] = "topics"
    <3>1. ClearTopics /\ UNCHANGED <<counted, reported>>
      BY <1>2, <2>1 DEF ClearData
    <3>. QED
      BY <3>1 DEF ClearTopics, Plus, Nought, Balance, ValuesInv
  <2>2. CASE producers[app.index] # "topics"
    BY <1>1, <1>2, <2>2 DEF ClearData, ClearStatus, historyVars
  <2>. QED
    BY <2>1, <2>2
<1>3. ASSUME NEW p \in Producers, Report(p)
      PROVE  Balance'
  <2>1. CASE p = "topics"
    <3>1. "topics" \in consumers
      BY <1>3, <2>1 DEF Report, TimersInv
    <3>2. msgs' = Nought /\ reported' = Plus(reported, msgs) /\ UNCHANGED <<counted, cleared>>
      BY <1>3, <2>1, <3>1 DEF Report, ReportTopics, ResetData
    <3>. QED
      BY <3>2 DEF Plus, Nought, Balance, ValuesInv
  <2>2. CASE p # "topics"
    BY <1>1, <1>3, <2>2 DEF Report, ReportStatus, historyVars
  <2>. QED
    BY <2>1, <2>2
<1>4. ASSUME NEW r \in Readers, Count(r)
      PROVE  Balance'
  <2>1. call[r].counter \in Counters
    BY <1>4, CountsOwn DEF Count
  <2>2. /\ msgs' = [msgs EXCEPT ![call[r].counter] = @ + 1]
        /\ counted' = [counted EXCEPT ![call[r].counter] = @ + 1]
        /\ UNCHANGED <<reported, cleared>>
    BY <1>4 DEF Count
  <2>. QED
    BY <2>1, <2>2 DEF Balance, ValuesInv
<1>5. CASE AppStep /\ ~ClearData
  BY <1>1, <1>5 DEF AppStep, Construct, RegisterConsumers, RegisterProducer, InitProducer,
     Destruct, ClearEvent, EventsCleared, Disable, ClearConsumers, dataVars
<1>6. ASSUME NEW p \in Producers, Fire(p)
      PROVE  Balance'
  BY <1>1, <1>6 DEF Fire, dataVars
<1>7. ASSUME NEW r \in Readers, ReaderStep(r), ~Count(r)
      PROVE  Balance'
  BY <1>1, <1>7 DEF ReaderStep, CountCall, MismatchCall, MismatchIgnored, Mismatch, ErrorLook,
     AddError, Look, dataVars
<1>8. ASSUME NEW d \in Discoverers, DiscoverType(d) \/ \E r \in Readers : TypeCall(d, r)
      PROVE  Balance'
  BY <1>1, <1>8 DEF DiscoverType, TypeCall, Look, dataVars
<1>9. CASE UNCHANGED vars
  BY <1>1, <1>9 DEF vars, dataVars
<1>. QED
  BY <1>2, <1>3, <1>4, <1>5, <1>6, <1>7, <1>8, <1>9 DEF Next

-----------------------------------------------------------------------------
(* What is left for the next Monitor *)

\* The steps that leave the application and enabled_ alone, where they do not add to what
\* a reader may leave.
LEMMA LeftFrame ==
  ASSUME LeftInv, UNCHANGED <<app, producers, enabled>>,
         "topics" \notin enabled /\ Leftover => Leftover'
  PROVE  LeftInv'
BY DEF LeftInv, Silenced, NotYetUp, Passed, Registering, Monitored, Disabling

\* Where no message is added to those of a reader, and no count begun, no more is left.
LEMMA NoMoreLeft ==
  ASSUME ValuesInv, Leftover,
         msgs' = msgs \/ \A c \in Counters : msgs'[c] = 0,
         \A r \in Readers : call'[r].in = "count" => call[r].in = "count"
  PROVE  Leftover'
<1>. SUFFICES ASSUME NEW r \in Readers
              PROVE  Of(r)' + Begun(r)' <= 1
  BY DEF Leftover
<1>1. <<r, "received">> \in Counters /\ <<r, "lost">> \in Counters
      /\ msgs[<<r, "received">>] \in Nat /\ msgs[<<r, "lost">>] \in Nat
  BY DEF Counters, ValuesInv
<1>2. Of(r) \in Nat /\ Of(r)' \in Nat /\ Of(r)' <= Of(r)
  BY <1>1 DEF Of
<1>3. Begun(r) \in Nat /\ Begun(r)' \in Nat /\ Begun(r)' <= Begun(r)
  BY DEF Begun
<1>4. Of(r) + Begun(r) <= 1
  BY DEF Leftover
<1>. QED
  BY <1>2, <1>3, <1>4

LEMMA ReadersLeave ==
  ASSUME MonitorInv, LeftInv, NEW r \in Readers, ReaderStep(r)
  PROVE  LeftInv'
<1>. USE DEF MonitorInv
<1>1. UNCHANGED <<app, producers, enabled>>
  BY DEF ReaderStep, CountCall, MismatchCall, MismatchIgnored, Count, Mismatch, ErrorLook,
     AddError, Look, monitorVars, configVars
<1>2. r \in Threads /\ \A u \in Readers : u \in Threads
  BY DEF Threads
<1>3. CASE Count(r)
  <2>1. call[r].counter \in {r} \X {"received", "lost"} /\ call[r].counter \in Counters
    BY <1>3, CountsOwn DEF Count
  <2>2. call[r].in = "count" /\ call'[r].in # "count"
        /\ \A u \in Readers \ {r} : call'[u] = call[u]
    BY <1>2, <1>3 DEF Count, ValuesInv, Elsewhere
  <2>3. msgs' = [msgs EXCEPT ![call[r].counter] = @ + 1]
    BY <1>3 DEF Count
  <2>4. Leftover => Leftover'
    <3>1. SUFFICES ASSUME Leftover, NEW u \in Readers
                   PROVE  Of(u)' + Begun(u)' <= 1
      BY DEF Leftover
    <3>2. <<u, "received">> \in Counters /\ <<u, "lost">> \in Counters
          /\ msgs[<<u, "received">>] \in Nat /\ msgs[<<u, "lost">>] \in Nat
      BY DEF Counters, ValuesInv
    <3>3. Of(u) + Begun(u) <= 1
      BY <3>1 DEF Leftover
    <3>4. CASE u # r
      BY <2>1, <2>2, <2>3, <3>2, <3>3, <3>4 DEF Of, Begun, ValuesInv
    <3>5. CASE u = r
      <4>1. CASE call[r].counter = <<r, "received">>
        <5>1. Of(r)' = Of(r) + 1
          <6>1. msgs' = [msgs EXCEPT ![<<r, "received">>] = @ + 1]
            BY <2>3, <4>1
          <6>2. msgs'[<<r, "received">>] = msgs[<<r, "received">>] + 1
                /\ msgs'[<<r, "lost">>] = msgs[<<r, "lost">>]
            BY <3>2, <3>5, <6>1 DEF ValuesInv
          <6>. QED
            BY <3>2, <3>5, <6>2 DEF Of
        <5>2. Of(r) \in Nat /\ Begun(r) = 1 /\ Begun(r)' = 0
          BY <2>2, <3>2, <3>5 DEF Of, Begun
        <5>. QED
          BY <3>3, <3>5, <5>1, <5>2
      <4>2. CASE call[r].counter = <<r, "lost">>
        <5>1. Of(r)' = Of(r) + 1
          <6>1. msgs' = [msgs EXCEPT ![<<r, "lost">>] = @ + 1]
            BY <2>3, <4>2
          <6>2. msgs'[<<r, "lost">>] = msgs[<<r, "lost">>] + 1
                /\ msgs'[<<r, "received">>] = msgs[<<r, "received">>]
            BY <3>2, <3>5, <6>1 DEF ValuesInv
          <6>. QED
            BY <3>2, <3>5, <6>2 DEF Of
        <5>2. Of(r) \in Nat /\ Begun(r) = 1 /\ Begun(r)' = 0
          BY <2>2, <3>2, <3>5 DEF Of, Begun
        <5>. QED
          BY <3>3, <3>5, <5>1, <5>2
      <4>. QED
        BY <2>1, <4>1, <4>2
    <3>. QED
      BY <3>4, <3>5
  <2>. QED
    BY <1>1, <2>4, LeftFrame
<1>4. CASE ReaderStep(r) /\ ~Count(r)
  <2>1. msgs' = msgs
    BY <1>4 DEF ReaderStep, CountCall, MismatchCall, MismatchIgnored, Mismatch, ErrorLook,
       AddError, Look, dataVars
  <2>2. \A u \in Readers \ {r} : call'[u] = call[u]
    BY <1>2, <1>4 DEF ReaderStep, CountCall, MismatchCall, MismatchIgnored, Mismatch,
       ErrorLook, AddError, Look, ValuesInv
  <2>3. "topics" \notin enabled => call'[r].in # "count"
    BY <1>2, <1>4 DEF ReaderStep, CountCall, MismatchCall, MismatchIgnored, Mismatch,
       ErrorLook, AddError, Look, ValuesInv, Elsewhere
  <2>4. "topics" \notin enabled /\ Leftover => Leftover'
    BY <2>1, <2>2, <2>3, NoMoreLeft
  <2>. QED
    BY <1>1, <2>4, LeftFrame
<1>. QED
  BY <1>3, <1>4

LEMMA OthersLeave ==
  ASSUME MonitorInv, LeftInv,
         \/ \E p \in Producers : Fire(p) \/ Report(p)
         \/ \E d \in Discoverers : DiscoverType(d) \/ \E r \in Readers : TypeCall(d, r)
         \/ UNCHANGED vars
  PROVE  LeftInv'
<1>. USE DEF MonitorInv
<1>1. UNCHANGED <<app, producers, enabled>>
  BY DEF Fire, Report, DiscoverType, TypeCall, Look, vars, monitorVars, configVars
<1>2. ASSUME NEW p \in Producers, Fire(p) \/ Report(p)
      PROVE  Leftover => Leftover'
  <2>1. call' = call
    BY <1>2 DEF Fire, Report
  <2>2. msgs' = msgs \/ \A c \in Counters : msgs'[c] = 0
    BY <1>2 DEF Fire, Report, ReportTopics, ReportStatus, ResetData, Nought, dataVars
  <2>. QED
    BY <2>1, <2>2, NoMoreLeft
<1>3. ASSUME NEW d \in Discoverers, DiscoverType(d) \/ \E r \in Readers : TypeCall(d, r)
      PROVE  "topics" \notin enabled /\ Leftover => Leftover'
  <2>1. msgs' = msgs
    BY <1>3 DEF DiscoverType, TypeCall, Look, dataVars
  <2>2. \A r \in Readers : call'[r] = call[r] \/ call'[r].in # "count"
    <3>1. d \in Threads /\ \A r \in Readers : r \in Threads
      BY DEF Threads
    <3>2. CASE DiscoverType(d)
      BY <3>1, <3>2 DEF DiscoverType, Elsewhere, ValuesInv
    <3>3. ASSUME NEW u \in Readers, TypeCall(d, u)
          PROVE  \A r \in Readers : call'[r] = call[r] \/ call'[r].in # "count"
      BY <3>1, <3>3 DEF TypeCall, Look, ValuesInv
    <3>. QED
      BY <1>3, <3>2, <3>3
  <2>. QED
    BY <2>1, <2>2, NoMoreLeft
<1>4. CASE UNCHANGED vars
  BY <1>1, <1>4, LeftFrame DEF vars, dataVars, Leftover, Of, Begun
<1>. QED
  BY <1>1, <1>2, <1>3, <1>4, LeftFrame

\* The destructor clears the data of the producer after it has disabled it.
LEMMA ClearLeaves ==
  ASSUME MonitorInv, LeftInv, ClearData
  PROVE  LeftInv'
<1>. USE DEF MonitorInv
<1>1. /\ app.at = "data" /\ Disabling /\ app.index \in 1..Len(producers)
      /\ Len(producers) \in Nat /\ enabled' = enabled /\ call' = call
  BY DEF ClearData, AppInv, Disabling, configVars
<1>2. \/ "topics" \notin enabled /\ Leftover'
      \/ ~Passed /\ producers[app.index] # "topics"
  <2>1. CASE producers[app.index] = "topics"
    <3>1. "topics" \notin enabled
      BY <1>1, <2>1 DEF LeftInv, Silenced
    <3>2. msgs' = Nought
      BY <2>1 DEF ClearData, ClearTopics
    <3>3. \A r \in Readers : msgs'[<<r, "received">>] = 0 /\ msgs'[<<r, "lost">>] = 0
      BY <3>2 DEF Nought, Counters
    <3>. QED
      BY <3>1, <3>3 DEF Leftover, Of, Begun
  <2>2. CASE producers[app.index] # "topics" /\ Passed
    <3>1. msgs' = msgs
      BY <2>2 DEF ClearData, ClearStatus
    <3>. QED
      BY <1>1, <2>2, <3>1 DEF LeftInv, Leftover, Of, Begun
  <2>. QED
    BY <2>1, <2>2
<1>3. ~Silenced'
  BY DEF ClearData, NextProducer, NoMonitor, Silenced
<1>4. CASE app.index + 1 > Len(producers)
  <2>1. app.index = Len(producers)
    BY <1>1, <1>4
  <2>2. Passed \/ producers[app.index] = "topics"
    BY <1>1, <2>1 DEF Passed
  <2>. QED
    BY <1>1, <1>2, <1>3, <2>2 DEF LeftInv
<1>5. CASE ~(app.index + 1 > Len(producers))
  <2>1. app' = [at |-> "disable", index |-> app.index + 1] /\ producers' = producers
    BY <1>5 DEF ClearData, NextProducer, Forget
  <2>2. Passed' \/ NotYetUp' => Passed \/ producers[app.index] = "topics"
    <3>1. Passed' => \A j \in (app.index + 1)..Len(producers) : producers[j] # "topics"
      BY <2>1 DEF Passed
    <3>2. \A j \in app.index..Len(producers) :
            j = app.index \/ j \in (app.index + 1)..Len(producers)
      BY <1>1
    <3>3. NotYetUp' => \A j \in 1..Len(producers) : producers[j] # "topics"
      BY <2>1 DEF NotYetUp, Monitored, AppInv
    <3>4. \A j \in app.index..Len(producers) : j \in 1..Len(producers)
      BY <1>1
    <3>. QED
      BY <1>1, <3>1, <3>2, <3>3, <3>4 DEF Passed
  <2>. QED
    BY <1>1, <1>2, <1>3, <2>2 DEF LeftInv
<1>. QED
  BY <1>4, <1>5

LEMMA AppLeaves ==
  ASSUME MonitorInv, LeftInv, AppStep, ~ClearData
  PROVE  LeftInv'
<1>. USE DEF MonitorInv
<1>1. UNCHANGED <<msgs, call>>
  BY DEF AppStep, Construct, RegisterConsumers, RegisterProducer, InitProducer, Destruct,
     ClearEvent, EventsCleared, Disable, ClearConsumers, dataVars
<1>2. Leftover => Leftover'
  BY <1>1 DEF Leftover, Of, Begun
<1>3. CASE Construct \/ Destruct \/ ClearEvent \/ RegisterConsumers
  <2>1. UNCHANGED <<producers, enabled>>
    BY <1>3 DEF Construct, Destruct, ClearEvent, RegisterConsumers, configVars, monitorVars
  <2>2. CASE ClearEvent
    BY <1>1, <1>2, <2>1, <2>2, LeftFrame DEF ClearEvent, monitorVars
  <2>3. CASE Construct \/ Destruct
    BY <1>2, <2>1, <2>3 DEF Construct, Destruct, NoMonitor, Running, LeftInv, Silenced,
       NotYetUp, Passed, Registering, Monitored, Disabling
  <2>4. CASE RegisterConsumers
    <3>1. app'.at = "start" /\ app'.producer = app.producer
      BY <2>4 DEF RegisterConsumers, AppInv, AppStates
    <3>2. Registering' = Registering
      BY <2>4, <3>1 DEF RegisterConsumers, Registering
    <3>. QED
      BY <1>2, <2>1, <3>1, <3>2 DEF LeftInv, Silenced, NotYetUp, Passed, Monitored, Disabling
  <2>. QED
    BY <1>3, <2>2, <2>3, <2>4
<1>4. ASSUME NEW p \in Producers, InitProducer(p)
      PROVE  LeftInv'
  BY <1>2, <1>4 DEF InitProducer, Running, LeftInv, Silenced, NotYetUp, Passed, Registering,
     Monitored, Disabling
<1>5. CASE RegisterProducer
  <2>1. Monitored' = Monitored \cup Registering
    BY <1>5, ProducerAdded
  <2>2. app'.at = "running" /\ enabled' = enabled
    BY <1>5 DEF RegisterProducer, Running, configVars
  <2>. QED
    BY <1>2, <2>1, <2>2 DEF LeftInv, Silenced, NotYetUp, Passed, Registering, Disabling
<1>6. CASE EventsCleared
  <2>1. enabled' = enabled /\ Registering = {} /\ ~Silenced'
    BY <1>6 DEF EventsCleared, configVars, Registering, NextProducer, NoMonitor, Silenced
  <2>2. NotYetUp' \/ Passed' => NotYetUp
    <3>1. SUFFICES ASSUME NotYetUp' \/ Passed'
                   PROVE  NotYetUp
      OBVIOUS
    <3>2. Len(producers) \in Nat /\ DOMAIN producers = 1..Len(producers)
      BY DEF AppInv
    <3>3. CASE 1 > Len(producers)
      BY <2>1, <3>2, <3>3 DEF NotYetUp, Monitored
    <3>4. CASE ~(1 > Len(producers))
      <4>1. app' = [at |-> "disable", index |-> 1] /\ producers' = producers
        BY <1>6, <3>4 DEF EventsCleared, NextProducer, Forget
      <4>. QED
        BY <2>1, <3>1, <3>2, <4>1 DEF NotYetUp, Passed, Monitored
    <3>. QED
      BY <3>3, <3>4
  <2>. QED
    BY <1>2, <2>1, <2>2 DEF LeftInv
<1>7. CASE Disable
  <2>1. app'.at = "consumers" /\ app'.index = app.index /\ Registering' = {}
    BY <1>7, SameProducer DEF Disable, Disabling
  <2>2. producers' = producers /\ enabled' = enabled \ {producers[app.index]}
        /\ Registering = {} /\ Disabling
    BY <1>7 DEF Disable, Registering, Disabling
  <2>. QED
    BY <1>2, <2>1, <2>2 DEF LeftInv, Silenced, NotYetUp, Passed, Monitored
<1>8. CASE ClearConsumers
  <2>1. app'.at = "data" /\ app'.index = app.index /\ Registering' = {}
    BY <1>8, SameProducer DEF ClearConsumers, Disabling
  <2>2. producers' = producers /\ enabled' = enabled /\ Registering = {} /\ Disabling
        /\ app.at = "consumers"
    BY <1>8 DEF ClearConsumers, Registering, Disabling
  <2>. QED
    BY <1>2, <2>1, <2>2 DEF LeftInv, Silenced, NotYetUp, Passed, Monitored
<1>. QED
  BY <1>3, <1>4, <1>5, <1>6, <1>7, <1>8 DEF AppStep

LEMMA LeftKept ==
  ASSUME MonitorInv, LeftInv, [Next]_vars
  PROVE  LeftInv'
BY ReadersLeave, OthersLeave, ClearLeaves, AppLeaves DEF Next

-----------------------------------------------------------------------------
(* The theorems *)

LEMMA MonitorInvariant == Spec => [](MonitorInv /\ Balance /\ LeftInv)
<1>1. Init => MonitorInv /\ Balance /\ LeftInv
  <2>. SUFFICES ASSUME Init
                PROVE  MonitorInv /\ Balance /\ LeftInv
    OBVIOUS
  <2>1. Balance
    BY DEF Init, Balance, Nought
  <2>2. \A r \in Readers : Of(r) = 0 /\ Begun(r) = 0
    BY DEF Init, Of, Begun, Nought, Counters, Threads, Elsewhere
  <2>3. LeftInv
    BY <2>2 DEF Init, LeftInv, Leftover, Silenced, NoMonitor
  <2>. QED
    BY <2>1, <2>3, MonitorStarts
<1>2. MonitorInv /\ Balance /\ LeftInv /\ [Next]_vars => (MonitorInv /\ Balance /\ LeftInv)'
  BY MonitorStepKeeps, BalanceKept, LeftKept
<1>. QED
  BY <1>1, <1>2, PTL DEF Spec

\* A Monitor has no producer twice, so it has at most both.
LEMMA FewProducers ==
  ASSUME AppInv
  PROVE  Len(producers) <= Cardinality(Producers)
<1>1. Cardinality(Producers) = 2
  <2>1. IsFiniteSet({"topics"}) /\ Cardinality({"topics"}) = 1
    BY FS_Singleton
  <2>2. Producers = {"topics"} \cup {"status"} /\ "status" \notin {"topics"}
    BY DEF Producers
  <2>. QED
    BY <2>1, <2>2, FS_AddElement
<1>2. Len(producers) \in Nat /\ \A i \in 1..Len(producers) : producers[i] \in {"status", "topics"}
  BY DEF AppInv, Producers
<1>3. ~(Len(producers) > 2)
  <2>1. SUFFICES ASSUME Len(producers) > 2
                 PROVE  FALSE
    OBVIOUS
  <2>2. 1 \in 1..Len(producers) /\ 2 \in 1..Len(producers) /\ 3 \in 1..Len(producers)
    BY <1>2, <2>1
  <2>3. producers[1] # producers[2] /\ producers[1] # producers[3] /\ producers[2] # producers[3]
    BY <2>2 DEF AppInv, Distinct
  <2>. QED
    BY <1>2, <2>2, <2>3
<1>. QED
  BY <1>1, <1>2, <1>3

\* Every reachable state of the monitoring is well typed; a timer that is reporting is one
\* of a Monitor that is alive.
THEOREM MonitorTypeCorrect == Spec => []TypeOK
<1>1. MonitorInv => TypeOK
  <2>. SUFFICES ASSUME MonitorInv
                PROVE  TypeOK
    OBVIOUS
  <2>1. app.at \in Places
    BY DEF MonitorInv, AppInv, AppStates, Places
  <2>2. Len(producers) <= Cardinality(Producers) /\ Monitored \subseteq Producers
    BY FewProducers DEF MonitorInv, AppInv, Monitored
  <2>3. \A t \in Threads : call[t].in \in {"none", "count", "mismatch", "error", "add", "type"}
    <3>. SUFFICES ASSUME NEW t \in Threads
                  PROVE  call[t].in \in {"none", "count", "mismatch", "error", "add", "type"}
      OBVIOUS
    <3>1. call[t] \in Calls(t)
      BY DEF MonitorInv, ValuesInv
    <3>. QED
      BY <3>1 DEF Calls
  <2>. QED
    BY <2>1, <2>2, <2>3 DEF MonitorInv, ValuesInv, TimersInv, TypeOK
<1>. QED
  BY <1>1, MonitorInvariant, PTL

\* Every message that is counted is in one report that a consumer got, or is yet to be
\* reported, or was cleared with its Monitor, for any number of readers that count while
\* timers report and Monitors come and go.
THEOREM EachCountCorrect == Spec => []EachCountReportedOnce
<1>1. MonitorInv /\ Balance => EachCountReportedOnce
  BY BalanceIsSum DEF MonitorInv
<1>. QED
  BY <1>1, MonitorInvariant, PTL

\* When a Monitor is gone, each reader has left at most one message in the producers.
THEOREM LittleLeftCorrect == Spec => []LittleIsLeft
<1>1. MonitorInv /\ LeftInv => LittleIsLeft
  <2>. SUFFICES ASSUME MonitorInv, LeftInv, app = NoMonitor, NEW r \in Readers
                PROVE  Of(r) <= 1
    BY DEF LittleIsLeft
  <2>1. app.at = "none" /\ producers = <<>>
    BY DEF NoMonitor, MonitorInv, AppInv
  <2>2. NotYetUp
    BY <2>1 DEF NotYetUp, Monitored, Registering
  <2>3. Of(r) + Begun(r) <= 1
    BY <2>2 DEF LeftInv, Leftover
  <2>4. Of(r) \in Nat /\ Begun(r) \in {0, 1}
    BY DEF MonitorInv, ValuesInv, Of, Begun, Counters
  <2>. QED
    BY <2>3, <2>4
<1>. QED
  BY <1>1, MonitorInvariant, PTL
=============================================================================
