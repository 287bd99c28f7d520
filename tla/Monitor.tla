------------------------------- MODULE Monitor -------------------------------
(***************************************************************************)
(* The monitoring of a pipe: the two producers, which are singletons and   *)
(* outlive every Monitor, the Monitor that configures them, the timers     *)
(* that make them report, and the threads of readers and of the discovery  *)
(* of types that tell them what happens.                                   *)
(*                                                                         *)
(* Each producer has a mutex, held for the whole of each of its methods    *)
(* but for the look at enabled_ that comes first: a method is the look     *)
(* and, later, one step.                                                   *)
(***************************************************************************)
EXTENDS Naturals, Sequences, FiniteSets

CONSTANTS
  Readers,      \* readers, each of a topic and a type of its own; a reader calls
                \* from one thread at a time
  Discoverers,  \* threads that discover types
  MaxMonitors,  \* bound: Monitors the application makes
  MaxCounts     \* bound: messages each reader receives or loses

ASSUME MonitorAssumption == MaxMonitors \in Nat /\ MaxCounts \in Nat

VARIABLES
  app,        \* what the application is doing with its Monitor
  monitors,   \* Monitors made
  enabled,    \* producers with enabled_
  consumers,  \* producers with consumers_
  producers,  \* producers_ of the Monitor, in order
  events,     \* producers with a PeriodicEventHandler
  firing,     \* those whose timer has found them enabled and has yet to report
  call,       \* what each thread has found a producer enabled for
  msgs,       \* participant_data_: messages received and lost since the last report
  topics,     \* topic_data_: readers whose topic is known
  mismatched, \* those with type_mismatch or qos_mismatch
  types,      \* types_discovered_
  errors,     \* error_status_ and has_errors_, as the readers they come from
  told,       \* what each producer's data_ says: mismatched topics, errors
  counted,    \* history: messages added to msgs
  reported,   \* history: messages in reports that a consumer got
  cleared     \* history: messages clear_data() threw away

monitorVars == <<app, monitors, producers>>
configVars == <<enabled, consumers>>
timerVars == <<events, firing>>
dataVars == <<msgs, topics, mismatched, types, errors, told>>
historyVars == <<counted, reported, cleared>>
vars == <<monitorVars, configVars, timerVars, call, dataVars, historyVars>>

Producers == {"status", "topics"}
Counters == Readers \X {"received", "lost"}
Threads == Readers \cup Discoverers

\* A thread that is in no method of a producer.
Elsewhere == [in |-> "none"]
\* The application when it is in no method of its Monitor.
NoMonitor == [at |-> "none"]
Running == [at |-> "running"]

Nought == [c \in Counters |-> 0]

Init ==
  /\ app = NoMonitor
  /\ monitors = 0
  /\ enabled = {} /\ consumers = {}
  /\ producers = <<>>
  /\ events = {} /\ firing = {}
  /\ call = [t \in Threads |-> Elsewhere]
  /\ msgs = Nought
  /\ topics = {} /\ mismatched = {} /\ types = {} /\ errors = {}
  /\ told = [p \in Producers |-> {}]
  /\ counted = Nought /\ reported = Nought /\ cleared = Nought

-----------------------------------------------------------------------------
(* The application makes a Monitor and has it monitor producers.           *)

Construct ==
  /\ app = NoMonitor
  /\ monitors < MaxMonitors
  /\ monitors' = monitors + 1
  /\ app' = Running
  /\ UNCHANGED <<producers, configVars, timerVars, call, dataVars, historyVars>>

Monitored == {producers[i] : i \in DOMAIN producers}

\* monitor_status(), monitor_topics(): init() of the producer, without its mutex ...
InitProducer(p) ==
  /\ app = Running
  /\ p \notin Monitored
  /\ \/ enabled' = enabled \cup {p}
     \/ enabled' = enabled \ {p}
  /\ app' = [at |-> "register", producer |-> p]
  /\ UNCHANGED <<monitors, producers, consumers, timerVars, call, dataVars, historyVars>>

\* Mutant: the consumers are never registered.
RegisterNone ==
  /\ app.at = "register"
  /\ app' = [app EXCEPT !.at = "start"]
  /\ UNCHANGED <<monitors, producers, configVars, timerVars, call, dataVars, historyVars>>

\* ... its consumers, unless it is disabled ...
RegisterConsumers ==
  /\ app.at = "register"
  /\ consumers' = consumers \cup ({app.producer} \cap enabled)
  /\ app' = [app EXCEPT !.at = "start"]
  /\ UNCHANGED <<monitors, producers, enabled, timerVars, call, dataVars, historyVars>>

\* ... and register_producer_(), which starts a timer.
RegisterProducer ==
  /\ app.at = "start"
  /\ producers' = Append(producers, app.producer)
  /\ events' = events \cup {app.producer}
  /\ app' = Running
  /\ UNCHANGED <<monitors, configVars, firing, call, dataVars, historyVars>>

-----------------------------------------------------------------------------
(* ~Monitor                                                                *)

Destruct ==
  /\ app = Running
  /\ app' = [at |-> "events"]
  /\ UNCHANGED <<monitors, producers, configVars, timerVars, call, dataVars, historyVars>>

\* Mutant: the destructor does not wait for a timer whose callback is running.
AnyCallback(p) == TRUE

\* The destructor of a timer waits for its callback.
CallbackEnded(p) == p \notin firing

ClearEvent ==
  /\ app.at = "events"
  /\ \E p \in events :
       /\ CallbackEnded(p)
       /\ events' = events \ {p}
  /\ UNCHANGED <<monitorVars, configVars, firing, call, dataVars, historyVars>>

\* Each producer in turn is disabled and loses its consumers and its data.
NextProducer(i) ==
  app' = IF i > Len(producers) THEN NoMonitor ELSE [at |-> "disable", index |-> i]

Forget(i) == producers' = IF i > Len(producers) THEN <<>> ELSE producers

EventsCleared ==
  /\ app.at = "events" /\ events = {}
  /\ NextProducer(1) /\ Forget(1)
  /\ UNCHANGED <<monitors, configVars, timerVars, call, dataVars, historyVars>>

\* Mutant: the producer goes on.
DisableNothing ==
  /\ app.at = "disable"
  /\ app' = [app EXCEPT !.at = "consumers"]
  /\ UNCHANGED <<monitors, producers, configVars, timerVars, call, dataVars, historyVars>>

Disable ==
  /\ app.at = "disable"
  /\ enabled' = enabled \ {producers[app.index]}
  /\ app' = [app EXCEPT !.at = "consumers"]
  /\ UNCHANGED <<monitors, producers, consumers, timerVars, call, dataVars, historyVars>>

ClearConsumers ==
  /\ app.at = "consumers"
  /\ consumers' = consumers \ {producers[app.index]}
  /\ app' = [app EXCEPT !.at = "data"]
  /\ UNCHANGED <<monitors, producers, enabled, timerVars, call, dataVars, historyVars>>

Plus(f, g) == [c \in Counters |-> f[c] + g[c]]

ClearTopics ==
  /\ msgs' = Nought
  /\ cleared' = Plus(cleared, msgs)
  /\ topics' = {} /\ mismatched' = {} /\ types' = {}
  /\ told' = [told EXCEPT !["topics"] = {}]
  /\ UNCHANGED errors

ClearStatus ==
  /\ errors' = {}
  /\ told' = [told EXCEPT !["status"] = {}]
  /\ UNCHANGED <<msgs, cleared, topics, mismatched, types>>

ClearData ==
  /\ app.at = "data"
  /\ IF producers[app.index] = "topics" THEN ClearTopics ELSE ClearStatus
  /\ NextProducer(app.index + 1) /\ Forget(app.index + 1)
  /\ UNCHANGED <<monitors, configVars, timerVars, call, counted, reported>>

-----------------------------------------------------------------------------
(* produce_and_consume(), called by the timer of a producer                *)

Fire(p) ==
  /\ p \in events \ firing
  /\ p \in enabled
  /\ firing' = firing \cup {p}
  /\ UNCHANGED <<monitorVars, configVars, events, call, dataVars, historyVars>>

\* Mutant: what has been reported is kept for the next report.
KeepData == UNCHANGED msgs

\* reset_data_()
ResetData == msgs' = Nought

ReportTopics ==
  /\ ResetData
  /\ reported' = IF "topics" \in consumers THEN Plus(reported, msgs) ELSE reported
  /\ told' = [told EXCEPT !["topics"] = mismatched]

\* Mutant: the consumers get what was produced before.
ConsumeOnly == UNCHANGED <<told, msgs, reported>>

ReportStatus ==
  /\ told' = [told EXCEPT !["status"] = errors]
  /\ UNCHANGED <<msgs, reported>>

Report(p) ==
  /\ p \in firing
  /\ IF p = "topics" THEN ReportTopics ELSE ReportStatus
  /\ firing' = firing \ {p}
  /\ UNCHANGED <<monitorVars, configVars, events, call, topics, mismatched, types, errors,
                 counted, cleared>>

-----------------------------------------------------------------------------
(* What the threads of readers and of the discovery tell the producers     *)

\* The look at enabled_; the call of a disabled producer ends with it.
Look(t, what) ==
  /\ call[t] = Elsewhere
  /\ "topics" \in enabled
  /\ call' = [call EXCEPT ![t] = what]
  /\ UNCHANGED <<monitorVars, configVars, timerVars, dataVars, historyVars>>

\* monitor_msg_rx, monitor_msg_lost
CountCall(r, c) ==
  /\ counted[<<r, "received">>] + counted[<<r, "lost">>] < MaxCounts
  /\ Look(r, [in |-> "count", counter |-> c])

\* monitor_qos_mismatch, monitor_type_mismatch
MismatchCall(r) == Look(r, [in |-> "mismatch"])

\* monitor_type_discovered
TypeCall(d, r) == Look(d, [in |-> "type", type |-> r])

\* msgs_received(), msgs_lost()
Count(r) ==
  /\ call[r].in = "count"
  /\ LET c == call[r].counter
     IN  /\ msgs' = [msgs EXCEPT ![c] = @ + 1]
         /\ counted' = [counted EXCEPT ![c] = @ + 1]
  /\ topics' = topics \cup {r}
  /\ call' = [call EXCEPT ![r] = Elsewhere]
  /\ UNCHANGED <<monitorVars, configVars, timerVars, mismatched, types, errors, told,
                 reported, cleared>>

\* type_mismatch(), qos_mismatch(); the listener goes on to monitor_error().
Mismatch(r) ==
  /\ call[r].in = "mismatch"
  /\ topics' = topics \cup {r}
  /\ mismatched' = mismatched \cup {r}
  /\ call' = [call EXCEPT ![r] = [in |-> "error"]]
  /\ UNCHANGED <<monitorVars, configVars, timerVars, msgs, types, errors, told, historyVars>>

\* The listener looks at the other producer whether or not the first was enabled.
MismatchIgnored(r) ==
  /\ call[r] = Elsewhere
  /\ "topics" \notin enabled
  /\ call' = [call EXCEPT ![r] = [in |-> "error"]]
  /\ UNCHANGED <<monitorVars, configVars, timerVars, dataVars, historyVars>>

ErrorLook(r) ==
  /\ call[r].in = "error"
  /\ call' = [call EXCEPT ![r] = IF "status" \in enabled THEN [in |-> "add"] ELSE Elsewhere]
  /\ UNCHANGED <<monitorVars, configVars, timerVars, dataVars, historyVars>>

\* add_error_to_status()
AddError(r) ==
  /\ call[r].in = "add"
  /\ errors' = errors \cup {r}
  /\ call' = [call EXCEPT ![r] = Elsewhere]
  /\ UNCHANGED <<monitorVars, configVars, timerVars, msgs, topics, mismatched, types, told,
                 historyVars>>

\* type_discovered()
DiscoverType(d) ==
  /\ call[d].in = "type"
  /\ types' = types \cup {call[d].type}
  /\ call' = [call EXCEPT ![d] = Elsewhere]
  /\ UNCHANGED <<monitorVars, configVars, timerVars, msgs, topics, mismatched, errors, told,
                 historyVars>>

-----------------------------------------------------------------------------
AppStep ==
  \/ Construct \/ RegisterConsumers \/ RegisterProducer \/ \E p \in Producers : InitProducer(p)
  \/ Destruct \/ ClearEvent \/ EventsCleared \/ Disable \/ ClearConsumers \/ ClearData

ReaderStep(r) ==
  \/ \E c \in {r} \X {"received", "lost"} : CountCall(r, c)
  \/ MismatchCall(r) \/ MismatchIgnored(r)
  \/ Count(r) \/ Mismatch(r) \/ ErrorLook(r) \/ AddError(r)

Next ==
  \/ AppStep
  \/ \E p \in Producers : Fire(p) \/ Report(p)
  \/ \E r \in Readers : ReaderStep(r)
  \/ \E d \in Discoverers : DiscoverType(d) \/ \E r \in Readers : TypeCall(d, r)

\* Timers fire, and their callbacks end.
Fairness == \A p \in Producers : WF_vars(Fire(p)) /\ WF_vars(Report(p))

Spec == Init /\ [][Next]_vars /\ Fairness

-----------------------------------------------------------------------------
(* Properties *)

Places == {"none", "running", "register", "start", "events", "disable", "consumers", "data"}

\* Every variable keeps its type, and callbacks are those of living timers.
TypeOK ==
  /\ app.at \in Places
  /\ monitors \in 0..MaxMonitors
  /\ enabled \subseteq Producers /\ consumers \subseteq Producers
  /\ Len(producers) <= Cardinality(Producers) /\ Monitored \subseteq Producers
  /\ events \subseteq Monitored /\ firing \subseteq events
  /\ \A t \in Threads : call[t].in \in {"none", "count", "mismatch", "error", "add", "type"}
  /\ msgs \in [Counters -> Nat]
  /\ topics \subseteq Readers /\ mismatched \subseteq topics
  /\ types \subseteq Readers /\ errors \subseteq Readers
  /\ told \in [Producers -> SUBSET Readers]

\* Every message a producer counted is in one report that a consumer got, or is yet to
\* be reported, or was thrown away with the Monitor: none is counted in two reports, and
\* none falls between a report and the reset that follows it, or in a report nobody hears.
EachCountReportedOnce == counted = Plus(Plus(reported, msgs), cleared)

Of(r) == msgs[<<r, "received">>] + msgs[<<r, "lost">>]

\* What a Monitor leaves in the producers for the next one is at most the call each
\* reader was in when they were disabled: the data is cleared after that, not before.
LittleIsLeft == app = NoMonitor => \A r \in Readers : Of(r) <= 1

Reporting(p) == p \in events /\ p \in enabled

\* While a Monitor lives, what its producers have gathered gets into a report: counts go
\* to zero by it, mismatches and errors stay in this report and in the following ones.
GatheredIsReported ==
  /\ \A c \in Counters : msgs[c] > 0 /\ Reporting("topics") ~> msgs[c] = 0 \/ ~Reporting("topics")
  /\ \A r \in Readers :
       /\ r \in mismatched /\ Reporting("topics") ~> r \in told["topics"] \/ ~Reporting("topics")
       /\ r \in errors /\ Reporting("status") ~> r \in told["status"] \/ ~Reporting("status")
=============================================================================
