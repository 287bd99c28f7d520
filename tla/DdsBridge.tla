----------------------------- MODULE DdsBridge -----------------------------
(***************************************************************************)
(* A DdsBridge: one topic, a Track per participant that reads it, and      *)
(* writers that the Tracks share.  The bridge switches its Tracks one      *)
(* after the other, each Track its writers one after the other, while the  *)
(* pool threads of the other Tracks go on forwarding.                      *)
(*                                                                         *)
(* Track has the inside of a Track; here it is reduced to what the other   *)
(* Tracks and the bridge notice: whether it forwards, whether a loop of    *)
(* transmit_() holds its on_transmission_mutex_, and the writers the       *)
(* sample in hand has still to reach.                                      *)
(***************************************************************************)
EXTENDS Naturals, FiniteSets

CONSTANTS
  Participants,  \* the participants of the ParticipantsDatabase
  Repeaters,     \* those with is_repeater()
  Routes,        \* RoutesMap: the participants a route leads to, per source with a route
  FirstWriters,  \* participants whose writers the constructor creates
  Ops,           \* operations called on the bridge
  MaxMade,       \* bound: writers created after the constructor
  MaxFailures    \* bound: readers whose creation fails

\* RoutesConfiguration::is_valid: only a repeater leads to itself.
ValidRoutes ==
  \A id \in DOMAIN Routes :
    /\ {id} \cup Routes[id] \subseteq Participants
    /\ id \in Routes[id] => id \in Repeaters

ASSUME BridgeAssumption ==
  /\ Repeaters \subseteq Participants
  /\ ValidRoutes
  /\ FirstWriters \subseteq Participants
  /\ Ops \subseteq {"enable", "disable", "create", "remove"}
  /\ MaxMade \in Nat
  /\ MaxFailures \in Nat

\* A writer object: the participant that created it, and a number.
Objects == Participants \X (0..MaxMade)

Operations == {"idle", "enable", "disable", "create", "remove"}

VARIABLES
  on,        \* Bridge::enabled_
  phase,     \* per participant: its Track is "none", "off", "on" or "stopping"
  targets,   \* per participant: the writers_ of its Track
  writerOn,  \* writers that are enabled
  busy,      \* Tracks in the loop of transmit_()
  flight,    \* per participant: writers its sample in hand has still to reach
  op,        \* the operation in progress under mutex_
  subject,   \* the writer being added or the participant being removed
  todo,      \* Tracks the operation has still to visit
  silence,   \* writers the Track being disabled has still to disable
  made,      \* number of writers created after the constructor
  wanted,    \* history: participants that created a writer and have not removed it
  misses,    \* history: operations during which a sample met a disabled writer
  failures   \* number of InitializationExceptions

trackVars == <<phase, targets, busy, flight>>
callVars == <<op, subject, todo, silence>>
historyVars == <<made, wanted, misses, failures>>
vars == <<on, trackVars, writerOn, callVars, historyVars>>

\* The writers a Track may have: those of its route or, without one, all but its own.
WritersFor(id) ==
  IF id \in DOMAIN Routes THEN Routes[id]
  ELSE IF id \in Repeaters THEN Participants ELSE Participants \ {id}

Existing == {id \in Participants : phase[id] # "none"}

Init ==
  /\ on = FALSE
  /\ targets = [id \in Participants |-> (WritersFor(id) \cap FirstWriters) \X {0}]
  /\ phase = [id \in Participants |->
               IF WritersFor(id) \cap FirstWriters = {} THEN "none" ELSE "off"]
  /\ writerOn = {}
  /\ busy = {}
  /\ flight = [id \in Participants |-> {}]
  /\ op = "idle"
  /\ subject = <<>>
  /\ todo = {}
  /\ silence = {}
  /\ made = 0
  /\ wanted = FirstWriters
  /\ misses = {}
  /\ failures = 0

-----------------------------------------------------------------------------
(* Operations, which hold mutex_ from beginning to end.                    *)

Call(name) ==
  /\ name \in Ops
  /\ op = "idle"
  /\ op' = name

Return(name) ==
  /\ op = name
  /\ todo = {}
  /\ op' = "idle"

EnableCall ==
  /\ Call("enable")
  /\ ~on
  /\ todo' = Existing
  /\ UNCHANGED <<on, trackVars, writerOn, subject, silence, historyVars>>

EnableTrack(id) ==
  /\ op = "enable"
  /\ id \in todo
  /\ todo' = todo \ {id}
  /\ writerOn' = writerOn \cup targets[id]
  /\ phase' = [phase EXCEPT ![id] = "on"]
  /\ UNCHANGED <<on, targets, busy, flight, op, subject, silence, historyVars>>

EnableReturn ==
  /\ Return("enable")
  /\ on' = TRUE
  /\ UNCHANGED <<trackVars, writerOn, subject, todo, silence, historyVars>>

DisableCall ==
  /\ Call("disable")
  /\ on
  /\ todo' = Existing
  /\ UNCHANGED <<on, trackVars, writerOn, subject, silence, historyVars>>

\* The Track the bridge has last asked to stop has done so.
Still == silence = {} /\ \A id \in Participants : phase[id] # "stopping"

DisableTrack(id) ==
  /\ op = "disable"
  /\ Still
  /\ id \in todo
  /\ todo' = todo \ {id}
  /\ phase' = [phase EXCEPT ![id] = "stopping"]
  /\ UNCHANGED <<on, targets, writerOn, busy, flight, op, subject, silence, historyVars>>

DisableWait(id) ==
  /\ op = "disable"
  /\ phase[id] = "stopping"
  /\ id \notin busy
  /\ phase' = [phase EXCEPT ![id] = "off"]
  /\ silence' = targets[id]
  /\ UNCHANGED <<on, targets, writerOn, busy, flight, op, subject, todo, historyVars>>

DisableWriter ==
  /\ \E w \in silence :
       /\ writerOn' = writerOn \ {w}
       /\ silence' = silence \ {w}
  /\ UNCHANGED <<on, trackVars, op, subject, todo, historyVars>>

DisableReturn ==
  /\ Return("disable")
  /\ Still
  /\ on' = FALSE
  /\ UNCHANGED <<trackVars, writerOn, subject, todo, silence, historyVars>>

CreateCall(p) ==
  /\ Call("create")
  /\ made < MaxMade
  /\ made' = made + 1
  /\ subject' = <<p, made + 1>>
  /\ todo' = {id \in Participants : p \in WritersFor(id)}
  /\ wanted' = wanted \cup {p}
  /\ UNCHANGED <<on, trackVars, writerOn, silence, misses, failures>>

\* Mutant: the Track is not asked whether it has a writer of the participant.
NeverHas(id) == FALSE

HasWriter(id) == \E w \in targets[id] : w[1] = subject[1]

CreateSkip(id) ==
  /\ op = "create"
  /\ id \in todo
  /\ phase[id] # "none"
  /\ HasWriter(id)
  /\ todo' = todo \ {id}
  /\ UNCHANGED <<on, trackVars, writerOn, op, subject, silence, historyVars>>

\* Mutant: the Track does not enable the writer it is given.
AddedAsItIs(id) == writerOn

AddedOn(id) == IF phase[id] = "on" THEN writerOn \cup {subject} ELSE writerOn

CreateAdd(id) ==
  /\ op = "create"
  /\ id \in todo \ busy
  /\ phase[id] # "none"
  /\ ~HasWriter(id)
  /\ todo' = todo \ {id}
  /\ targets' = [targets EXCEPT ![id] = @ \cup {subject}]
  /\ writerOn' = AddedOn(id)
  /\ UNCHANGED <<on, phase, busy, flight, op, subject, silence, historyVars>>

\* Mutant: a new Track stays disabled.
NewPhaseOff == "off"

NewPhase == IF on THEN "on" ELSE "off"

CreateTrack(id) ==
  /\ op = "create"
  /\ id \in todo
  /\ phase[id] = "none"
  /\ todo' = todo \ {id}
  /\ targets' = [targets EXCEPT ![id] = {subject}]
  /\ phase' = [phase EXCEPT ![id] = NewPhase]
  /\ writerOn' = IF on THEN writerOn \cup {subject} ELSE writerOn
  /\ UNCHANGED <<on, busy, flight, op, subject, silence, historyVars>>

\* create_reader throws, and the exception leaves create_writer.
CreateFails(id) ==
  /\ op = "create"
  /\ id \in todo
  /\ phase[id] = "none"
  /\ failures < MaxFailures
  /\ failures' = failures + 1
  /\ op' = "idle"
  /\ todo' = {}
  /\ UNCHANGED <<on, trackVars, writerOn, subject, silence, made, wanted, misses>>

CreateReturn ==
  /\ Return("create")
  /\ UNCHANGED <<on, trackVars, writerOn, subject, todo, silence, historyVars>>

RemoveCall(p) ==
  /\ Call("remove")
  /\ subject' = <<p>>
  /\ todo' = Existing
  /\ wanted' = wanted \ {p}
  /\ UNCHANGED <<on, trackVars, writerOn, silence, made, misses, failures>>

\* Mutant: a Track without writers is kept.
KeepsEmpty == {}

Empty == {id \in Existing : targets[id] = {}}

RemoveFrom(id) ==
  /\ op = "remove"
  /\ Empty = {}
  /\ id \in todo \ busy
  /\ todo' = todo \ {id}
  /\ targets' = [targets EXCEPT ![id] = {w \in @ : w[1] # subject[1]}]
  /\ UNCHANGED <<on, phase, writerOn, busy, flight, op, subject, silence, historyVars>>

\* ~Track: disable() and its wait, with no writer to disable.
RemoveStop(id) ==
  /\ op = "remove"
  /\ id \in Empty
  /\ phase[id] = "on"
  /\ phase' = [phase EXCEPT ![id] = "stopping"]
  /\ UNCHANGED <<on, targets, writerOn, busy, flight, callVars, historyVars>>

RemoveTrack(id) ==
  /\ op = "remove"
  /\ id \in Empty \ busy
  /\ phase[id] # "on"
  /\ phase' = [phase EXCEPT ![id] = "none"]
  /\ UNCHANGED <<on, targets, writerOn, busy, flight, callVars, historyVars>>

RemoveReturn ==
  /\ Return("remove")
  /\ Empty = {}
  /\ UNCHANGED <<on, trackVars, writerOn, subject, todo, silence, historyVars>>

-----------------------------------------------------------------------------
(* The loop of transmit_() of each Track.                                  *)

TransmitBegin(id) ==
  /\ phase[id] = "on"
  /\ id \notin busy
  /\ busy' = busy \cup {id}
  /\ UNCHANGED <<on, phase, targets, writerOn, flight, callVars, historyVars>>

Transmit(id) ==
  /\ id \in busy
  /\ phase[id] = "on"
  /\ flight[id] = {}
  /\ targets[id] # {}
  /\ flight' = [flight EXCEPT ![id] = targets[id]]
  /\ UNCHANGED <<on, phase, targets, writerOn, busy, callVars, historyVars>>

TransmitTo(id) ==
  /\ \E w \in flight[id] :
       /\ flight' = [flight EXCEPT ![id] = @ \ {w}]
       /\ misses' = IF w \in writerOn THEN misses ELSE misses \cup {op}
  /\ UNCHANGED <<on, phase, targets, writerOn, busy, callVars, made, wanted, failures>>

\* Mutant: the loop goes on when the reader has no data.
TransmitEndWhenOff(id) ==
  /\ id \in busy
  /\ phase[id] # "on"
  /\ flight[id] = {}
  /\ busy' = busy \ {id}
  /\ UNCHANGED <<on, phase, targets, writerOn, flight, callVars, historyVars>>

\* The reader has no more data, or the Track is asked to stop.
TransmitEnd(id) ==
  /\ id \in busy
  /\ flight[id] = {}
  /\ busy' = busy \ {id}
  /\ UNCHANGED <<on, phase, targets, writerOn, flight, callVars, historyVars>>

-----------------------------------------------------------------------------
CallStep ==
  \/ EnableReturn \/ DisableWriter \/ DisableReturn \/ CreateReturn \/ RemoveReturn
  \/ \E id \in Participants :
       \/ EnableTrack(id) \/ DisableTrack(id) \/ DisableWait(id)
       \/ CreateSkip(id) \/ CreateAdd(id) \/ CreateTrack(id) \/ CreateFails(id)
       \/ RemoveFrom(id) \/ RemoveStop(id) \/ RemoveTrack(id)

TransmitStep(id) == Transmit(id) \/ TransmitTo(id) \/ TransmitEnd(id)

Next ==
  \/ EnableCall \/ DisableCall
  \/ \E p \in Participants : CreateCall(p) \/ RemoveCall(p)
  \/ CallStep
  \/ \E id \in Participants : TransmitBegin(id) \/ TransmitStep(id)

Spec == Init /\ [][Next]_vars

\* Threads run, and one that waits for a mutex that is released again and again gets it
\* in the end.
ThreadFairness ==
  /\ SF_vars(CallStep)
  /\ \A id \in Participants : WF_vars(TransmitStep(id))

\* Every reader runs out of data now and then.
BurstsEnd == \A id \in Participants : SF_vars(TransmitEnd(id))

ThreadSpec == Spec /\ ThreadFairness
FairSpec == ThreadSpec /\ BurstsEnd

-----------------------------------------------------------------------------
(* Properties *)

\* Every variable keeps its type; writers_ is a map, with one writer per participant.
TypeOK ==
  /\ on \in BOOLEAN
  /\ phase \in [Participants -> {"none", "off", "on", "stopping"}]
  /\ targets \in [Participants -> SUBSET Objects]
  /\ \A id \in Participants : \A v, w \in targets[id] : v[1] = w[1] => v = w
  /\ writerOn \subseteq Objects
  /\ busy \subseteq Participants
  /\ flight \in [Participants -> SUBSET Objects]
  /\ op \in Operations
  /\ subject \in {<<>>} \cup {<<p>> : p \in Participants} \cup Objects
  /\ todo \subseteq Participants
  /\ silence \subseteq Objects
  /\ made \in 0..MaxMade
  /\ wanted \subseteq Participants
  /\ misses \subseteq Operations
  /\ failures \in 0..MaxFailures

Owners(id) == {w[1] : w \in targets[id]}

\* The Tracks share one writer of each participant, however often its writer is created
\* and removed.
OneWriterEach ==
  \A a, b \in Participants : \A v \in targets[a], w \in targets[b] : v[1] = w[1] => v = w

\* The Tracks share their writers, and between operations they are those the routes ask
\* for: a participant has a Track if and only if a writer of its route exists, and the
\* Track has exactly those writers.  (A creation that fails leaves some Tracks without.)
TracksMatchRoutes ==
  failures = 0 =>
    /\ OneWriterEach
    /\ op = "idle" =>
         \A id \in Participants :
           /\ Owners(id) = WritersFor(id) \cap wanted
           /\ phase[id] = "none" <=> Owners(id) = {}

\* Between operations the Tracks and the writers of a bridge are all enabled or all
\* disabled, as the bridge is, even after a creation that failed half way.
AllFollowBridge ==
  op = "idle" =>
    \A id \in Existing :
      /\ phase[id] = (IF on THEN "on" ELSE "off")
      /\ \A w \in targets[id] : w \in writerOn <=> on

\* No Track writes to a writer that is disabled, but for the Tracks that disable() has
\* not come to yet.
OnlyDisableSilences == misses \subseteq {"disable"}

\* Every operation on the bridge returns.
CallsReturn == op # "idle" ~> op = "idle"
=============================================================================
