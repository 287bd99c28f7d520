---------------------------- MODULE BridgeProofs ----------------------------
(***************************************************************************)
(* Proofs about DdsBridge, for any participants, routes and repeaters, any *)
(* order of the operations and any number of writers created.              *)
(***************************************************************************)
EXTENDS DdsBridge, TLAPS

(* What each operation does with its Tracks has its own invariant: how far *)
(* it has come is in todo.                                                 *)
WritersFollow(id) == \A w \in targets[id] : w \in writerOn <=> on
Follows(id) == phase[id] = (IF on THEN "on" ELSE "off") /\ WritersFollow(id)

Enabling(id) ==
  \/ id \in todo /\ phase[id] = "off"
  \/ id \notin todo /\ phase[id] = "on" /\ targets[id] \subseteq writerOn

Disabling(id) ==
  \/ id \in todo /\ phase[id] = "on"
  \/ id \notin todo /\ phase[id] = "stopping" /\ silence = {}
  \/ id \notin todo /\ phase[id] = "off" /\ targets[id] \cap writerOn \subseteq silence

Removing(id) ==
  /\ phase[id] = (IF on THEN "on" ELSE "off") \/ (phase[id] = "stopping" /\ targets[id] = {})
  /\ WritersFollow(id)

SwitchInv ==
  /\ op \in {"idle", "create"} => \A id \in Existing : Follows(id)
  /\ op = "enable" => ~on /\ todo \subseteq Existing /\ \A id \in Existing : Enabling(id)
  /\ op = "disable" => on /\ todo \subseteq Existing /\ \A id \in Existing : Disabling(id)
  /\ op = "disable" =>
       \A a, b \in Participants : phase[a] = "stopping" /\ phase[b] = "stopping" => a = b
  /\ op = "remove" => \A id \in Existing : Removing(id)
  /\ op # "disable" => silence = {}

(* A new writer is new: it is not among the enabled ones.                  *)
NumberInv ==
  /\ \A w \in writerOn : w[2] <= made
  /\ \A id \in Participants : \A w \in targets[id] : w[2] <= made
  /\ op = "create" => subject \in Objects /\ subject[2] = made
  /\ op = "create" /\ ~on => subject \notin writerOn

(* A sample is on its way to writers of its Track, whose transmission the  *)
(* operations that disable it or take a writer from it wait for.           *)
FlightInv ==
  /\ \A id \in busy : phase[id] \in {"on", "stopping"}
  /\ \A id \in Participants : flight[id] \subseteq targets[id]
  /\ \A id \in Participants : flight[id] # {} => id \in busy

BridgeInv == TypeOK /\ SwitchInv /\ NumberInv /\ FlightInv

-----------------------------------------------------------------------------
(* Types *)

\* The enabling and disabling of Tracks and the transmissions keep the types.
LEMMA SwitchTypes ==
  ASSUME TypeOK,
         \/ EnableCall \/ EnableReturn \/ DisableCall \/ DisableReturn \/ DisableWriter
         \/ \E id \in Participants :
              EnableTrack(id) \/ DisableTrack(id) \/ DisableWait(id) \/ TransmitBegin(id)
                \/ TransmitStep(id)
  PROVE  TypeOK'
<1>. USE DEF TypeOK, Operations, trackVars, callVars, historyVars, Call, Return
<1>1. CASE EnableCall \/ DisableCall
  BY <1>1 DEF EnableCall, DisableCall, Existing
<1>2. CASE EnableReturn \/ DisableReturn
  BY <1>2 DEF EnableReturn, DisableReturn
<1>3. CASE DisableWriter
  BY <1>3 DEF DisableWriter
<1>4. ASSUME NEW id \in Participants, EnableTrack(id)
      PROVE  TypeOK'
  BY <1>4 DEF EnableTrack
<1>5. ASSUME NEW id \in Participants, DisableTrack(id) \/ DisableWait(id)
      PROVE  TypeOK'
  BY <1>5 DEF DisableTrack, DisableWait
<1>6. ASSUME NEW id \in Participants, TransmitBegin(id) \/ TransmitStep(id)
      PROVE  TypeOK'
  <2>1. flight' \in [Participants -> SUBSET Objects]
    BY <1>6 DEF TransmitBegin, TransmitStep, Transmit, TransmitTo, TransmitEnd
  <2>2. busy' \subseteq Participants /\ misses' \subseteq Operations
    BY <1>6 DEF TransmitBegin, TransmitStep, Transmit, TransmitTo, TransmitEnd
  <2>3. UNCHANGED <<on, phase, targets, writerOn, op, subject, todo, silence, made, wanted,
                    failures>>
    BY <1>6 DEF TransmitBegin, TransmitStep, Transmit, TransmitTo, TransmitEnd
  <2>. QED
    BY <2>1, <2>2, <2>3
<1>. QED
  BY <1>1, <1>2, <1>3, <1>4, <1>5, <1>6

\* The operations that add and remove writers keep the types.
LEMMA WriterTypes ==
  ASSUME TypeOK, NumberInv,
         \/ CreateReturn \/ RemoveReturn
         \/ \E id \in Participants :
              \/ CreateCall(id) \/ CreateSkip(id) \/ CreateAdd(id) \/ CreateTrack(id)
              \/ CreateFails(id)
              \/ RemoveCall(id) \/ RemoveFrom(id) \/ RemoveStop(id) \/ RemoveTrack(id)
  PROVE  TypeOK'
<1>. USE DEF TypeOK, Operations, trackVars, callVars, historyVars, Call, Return
<1>1. CASE CreateReturn \/ RemoveReturn
  BY <1>1 DEF CreateReturn, RemoveReturn
<1>2. ASSUME NEW p \in Participants, CreateCall(p)
      PROVE  TypeOK'
  <2>1. made' \in 0..MaxMade /\ subject' \in Objects
    BY <1>2, BridgeAssumption DEF CreateCall, Objects
  <2>. QED
    BY <1>2, <2>1 DEF CreateCall
<1>3. ASSUME NEW p \in Participants, RemoveCall(p)
      PROVE  TypeOK'
  BY <1>3 DEF RemoveCall, Existing
<1>4. ASSUME NEW id \in Participants, CreateSkip(id) \/ CreateFails(id)
      PROVE  TypeOK'
  <2>1. failures' \in 0..MaxFailures
    BY <1>4, BridgeAssumption DEF CreateSkip, CreateFails
  <2>. QED
    BY <1>4, <2>1 DEF CreateSkip, CreateFails
<1>5. ASSUME NEW id \in Participants, CreateAdd(id)
      PROVE  TypeOK'
  <2>1. subject \in Objects /\ ~HasWriter(id)
    BY <1>5 DEF CreateAdd, NumberInv
  <2>2. \A i \in Participants : \A v, w \in targets'[i] : v[1] = w[1] => v = w
    BY <1>5, <2>1 DEF CreateAdd, HasWriter
  <2>. QED
    BY <1>5, <2>1, <2>2 DEF CreateAdd, AddedOn
<1>6. ASSUME NEW id \in Participants, CreateTrack(id)
      PROVE  TypeOK'
  <2>1. subject \in Objects
    BY <1>6 DEF CreateTrack, NumberInv
  <2>. QED
    BY <1>6, <2>1 DEF CreateTrack, NewPhase
<1>7. ASSUME NEW id \in Participants, RemoveFrom(id)
      PROVE  TypeOK'
  BY <1>7 DEF RemoveFrom
<1>8. ASSUME NEW id \in Participants, RemoveStop(id) \/ RemoveTrack(id)
      PROVE  TypeOK'
  <2>1. PICK step \in {"none", "stopping"} : phase' = [phase EXCEPT ![id] = step]
    BY <1>8 DEF RemoveStop, RemoveTrack
  <2>2. UNCHANGED <<on, targets, writerOn, busy, flight, callVars, historyVars>>
    BY <1>8 DEF RemoveStop, RemoveTrack
  <2>. QED
    BY <2>1, <2>2
<1>. QED
  BY <1>1, <1>2, <1>3, <1>4, <1>5, <1>6, <1>7, <1>8

-----------------------------------------------------------------------------
(* Which Tracks and writers are enabled *)

LEMMA SwitchingKeepsSwitch ==
  ASSUME BridgeInv,
         \/ EnableCall \/ EnableReturn \/ DisableCall \/ DisableReturn \/ DisableWriter
         \/ \E id \in Participants : EnableTrack(id) \/ DisableTrack(id) \/ DisableWait(id)
  PROVE  SwitchInv'
<1>. USE DEF BridgeInv, TypeOK, SwitchInv, Existing, trackVars, callVars, historyVars, Call, Return
<1>1. CASE EnableCall
  BY <1>1 DEF EnableCall, Enabling, Follows
<1>2. CASE EnableReturn
  BY <1>2 DEF EnableReturn, Enabling, Follows, WritersFollow
<1>3. CASE DisableCall
  BY <1>3 DEF DisableCall, Disabling, Follows
<1>4. CASE DisableReturn
  BY <1>4 DEF DisableReturn, Still, Disabling, Follows, WritersFollow
<1>5. CASE DisableWriter
  BY <1>5 DEF DisableWriter, Disabling
<1>6. ASSUME NEW id \in Participants, EnableTrack(id)
      PROVE  SwitchInv'
  BY <1>6 DEF EnableTrack, Enabling
<1>7. ASSUME NEW id \in Participants, DisableTrack(id)
      PROVE  SwitchInv'
  BY <1>7 DEF DisableTrack, Still, Disabling
<1>8. ASSUME NEW id \in Participants, DisableWait(id)
      PROVE  SwitchInv'
  BY <1>8 DEF DisableWait, Disabling
<1>. QED
  BY <1>1, <1>2, <1>3, <1>4, <1>5, <1>6, <1>7, <1>8

LEMMA WritersKeepSwitch ==
  ASSUME BridgeInv,
         \/ CreateReturn \/ RemoveReturn
         \/ \E id \in Participants :
              \/ CreateCall(id) \/ CreateSkip(id) \/ CreateAdd(id) \/ CreateTrack(id)
              \/ CreateFails(id)
              \/ RemoveCall(id) \/ RemoveFrom(id) \/ RemoveStop(id) \/ RemoveTrack(id)
  PROVE  SwitchInv'
<1>. USE DEF BridgeInv, TypeOK, SwitchInv, Existing, trackVars, callVars, historyVars, Call, Return
<1>1. CASE CreateReturn
  BY <1>1 DEF CreateReturn, Follows, WritersFollow
<1>2. CASE RemoveReturn
  BY <1>2 DEF RemoveReturn, Empty, Removing, Follows, WritersFollow
<1>3. ASSUME NEW p \in Participants, CreateCall(p)
      PROVE  SwitchInv'
  BY <1>3 DEF CreateCall, Follows, WritersFollow
<1>4. ASSUME NEW p \in Participants, RemoveCall(p)
      PROVE  SwitchInv'
  BY <1>4 DEF RemoveCall, Removing, Follows, WritersFollow
<1>5. ASSUME NEW id \in Participants, CreateSkip(id) \/ CreateFails(id)
      PROVE  SwitchInv'
  BY <1>5 DEF CreateSkip, CreateFails, Follows, WritersFollow
<1>6. ASSUME NEW id \in Participants, CreateAdd(id)
      PROVE  SwitchInv'
  <2>1. subject \in Objects /\ (~on => subject \notin writerOn)
    BY <1>6 DEF CreateAdd, NumberInv
  <2>2. phase[id] = (IF on THEN "on" ELSE "off")
    BY <1>6 DEF CreateAdd, Follows
  <2>3. writerOn' = IF on THEN writerOn \cup {subject} ELSE writerOn
    BY <1>6, <2>2 DEF CreateAdd, AddedOn
  <2>4. \A i \in Existing : Follows(i)'
    BY <1>6, <2>1, <2>3 DEF CreateAdd, Follows, WritersFollow
  <2>. QED
    BY <1>6, <2>4 DEF CreateAdd
<1>7. ASSUME NEW id \in Participants, CreateTrack(id)
      PROVE  SwitchInv'
  <2>1. subject \in Objects /\ (~on => subject \notin writerOn)
    BY <1>7 DEF CreateTrack, NumberInv
  <2>2. Existing' = Existing \cup {id}
    BY <1>7 DEF CreateTrack, NewPhase
  <2>3. \A i \in Existing \cup {id} : Follows(i)'
    BY <1>7, <2>1 DEF CreateTrack, NewPhase, Follows, WritersFollow
  <2>. QED
    BY <1>7, <2>2, <2>3 DEF CreateTrack
<1>8. ASSUME NEW id \in Participants, RemoveFrom(id)
      PROVE  SwitchInv'
  BY <1>8 DEF RemoveFrom, Removing, WritersFollow
<1>9. ASSUME NEW id \in Participants, RemoveStop(id) \/ RemoveTrack(id)
      PROVE  SwitchInv'
  BY <1>9 DEF RemoveStop, RemoveTrack, Empty, Removing, WritersFollow
<1>. QED
  BY <1>1, <1>2, <1>3, <1>4, <1>5, <1>6, <1>7, <1>8, <1>9

\* A transmission switches nothing.
LEMMA TransmitFrame ==
  ASSUME (\E id \in Participants : TransmitBegin(id) \/ TransmitStep(id)) \/ UNCHANGED vars
  PROVE  UNCHANGED <<on, phase, targets, writerOn, callVars, made, wanted, failures>>
BY DEF TransmitBegin, TransmitStep, Transmit, TransmitTo, TransmitEnd, vars, trackVars,
   callVars, historyVars

LEMMA TransmitKeepsSwitch ==
  ASSUME BridgeInv,
         (\E id \in Participants : TransmitBegin(id) \/ TransmitStep(id)) \/ UNCHANGED vars
  PROVE  SwitchInv' /\ NumberInv'
BY TransmitFrame DEF callVars, BridgeInv, SwitchInv, NumberInv, Existing, Follows, WritersFollow,
   Enabling, Disabling, Removing

-----------------------------------------------------------------------------
(* Numbers of writers *)

LEMMA CallsKeepNumbers ==
  ASSUME BridgeInv,
         \/ EnableCall \/ DisableCall \/ CallStep
         \/ \E p \in Participants : CreateCall(p) \/ RemoveCall(p)
  PROVE  NumberInv'
<1>. USE DEF BridgeInv, NumberInv, trackVars, callVars, historyVars, Call, Return
<1>1. CASE EnableCall \/ DisableCall \/ EnableReturn \/ DisableReturn \/ CreateReturn \/ RemoveReturn
  BY <1>1 DEF EnableCall, DisableCall, EnableReturn, DisableReturn, CreateReturn, RemoveReturn
<1>2. CASE DisableWriter
  BY <1>2 DEF DisableWriter, SwitchInv
<1>3. ASSUME NEW id \in Participants, DisableTrack(id) \/ DisableWait(id)
      PROVE  NumberInv'
  BY <1>3 DEF DisableTrack, DisableWait
<1>4. ASSUME NEW p \in Participants, CreateCall(p)
      PROVE  NumberInv'
  <2>1. made \in 0..MaxMade /\ made' = made + 1 /\ made + 1 \in 0..MaxMade
        /\ subject' = <<p, made + 1>> /\ writerOn' = writerOn
    BY <1>4, BridgeAssumption DEF CreateCall, TypeOK
  <2>2. subject' \in Objects /\ subject'[2] = made'
    BY <2>1 DEF Objects
  <2>3. \A w \in writerOn : w[2] \in Nat /\ w[2] <= made /\ made \in Nat
    BY <2>1 DEF TypeOK, Objects
  <2>4. \A w \in writerOn' : w[2] <= made'
    BY <2>1, <2>3
  <2>5. \A id \in Participants : \A w \in targets[id] : w[2] \in Nat /\ w[2] <= made /\ made \in Nat
    BY <2>1 DEF TypeOK, Objects
  <2>6. \A id \in Participants : \A w \in targets'[id] : w[2] <= made'
    BY <1>4, <2>1, <2>5 DEF CreateCall
  <2>7. subject' \notin writerOn'
    BY <2>1, <2>3
  <2>. QED
    BY <2>2, <2>4, <2>6, <2>7
<1>5. ASSUME NEW p \in Participants, RemoveCall(p)
      PROVE  NumberInv'
  BY <1>5 DEF RemoveCall
<1>6. ASSUME NEW id \in Participants, CreateSkip(id) \/ CreateFails(id)
      PROVE  NumberInv'
  BY <1>6 DEF CreateSkip, CreateFails
<1>7. ASSUME NEW id \in Participants, CreateAdd(id)
      PROVE  NumberInv'
  <2>1. writerOn' = writerOn \/ (on /\ writerOn' = writerOn \cup {subject})
    BY <1>7 DEF CreateAdd, AddedOn, SwitchInv, Existing, Follows
  <2>2. made \in Nat
    BY DEF TypeOK
  <2>3. targets' = [targets EXCEPT ![id] = @ \cup {subject}]
    BY <1>7 DEF CreateAdd
  <2>. QED
    BY <1>7, <2>1, <2>2, <2>3 DEF CreateAdd, TypeOK
<1>8. ASSUME NEW id \in Participants, CreateTrack(id)
      PROVE  NumberInv'
  <2>1. made \in Nat
    BY DEF TypeOK
  <2>. QED
    BY <1>8, <2>1 DEF CreateTrack, TypeOK
<1>9. ASSUME NEW id \in Participants, RemoveFrom(id) \/ RemoveStop(id) \/ RemoveTrack(id)
      PROVE  NumberInv'
  BY <1>9 DEF RemoveFrom, RemoveStop, RemoveTrack, TypeOK
<1>10. ASSUME NEW id \in Participants, EnableTrack(id)
       PROVE  NumberInv'
  BY <1>10 DEF EnableTrack
<1>. QED
  BY <1>1, <1>2, <1>3, <1>4, <1>5, <1>6, <1>7, <1>8, <1>9, <1>10 DEF CallStep

-----------------------------------------------------------------------------
(* Samples on their way *)

LEMMA CallsKeepFlights ==
  ASSUME BridgeInv,
         \/ EnableCall \/ DisableCall \/ CallStep
         \/ \E p \in Participants : CreateCall(p) \/ RemoveCall(p)
  PROVE  FlightInv' /\ misses' = misses
<1>. USE DEF BridgeInv, TypeOK, FlightInv, trackVars, callVars, historyVars, Call, Return
<1>1. CASE \/ EnableCall \/ DisableCall \/ \E p \in Participants : CreateCall(p) \/ RemoveCall(p)
  BY <1>1 DEF EnableCall, DisableCall, CreateCall, RemoveCall
<1>2. CASE EnableReturn \/ DisableReturn \/ CreateReturn \/ RemoveReturn \/ DisableWriter
  BY <1>2 DEF EnableReturn, DisableReturn, CreateReturn, RemoveReturn, DisableWriter
<1>3. ASSUME NEW id \in Participants, EnableTrack(id) \/ DisableTrack(id) \/ DisableWait(id)
      PROVE  FlightInv' /\ misses' = misses
  BY <1>3 DEF EnableTrack, DisableTrack, DisableWait
<1>4. ASSUME NEW id \in Participants,
             CreateSkip(id) \/ CreateAdd(id) \/ CreateTrack(id) \/ CreateFails(id)
      PROVE  FlightInv' /\ misses' = misses
  BY <1>4 DEF CreateSkip, CreateAdd, CreateTrack, CreateFails
<1>5. ASSUME NEW id \in Participants, RemoveFrom(id) \/ RemoveStop(id) \/ RemoveTrack(id)
      PROVE  FlightInv' /\ misses' = misses
  BY <1>5 DEF RemoveFrom, RemoveStop, RemoveTrack
<1>. QED
  BY <1>1, <1>2, <1>3, <1>4, <1>5 DEF CallStep

LEMMA TransmitKeepsFlights ==
  ASSUME BridgeInv,
         (\E id \in Participants : TransmitBegin(id) \/ TransmitStep(id)) \/ UNCHANGED vars
  PROVE  FlightInv'
<1>. USE DEF BridgeInv, TypeOK, FlightInv
<1>1. ASSUME NEW id \in Participants, TransmitBegin(id) \/ Transmit(id) \/ TransmitEnd(id)
      PROVE  FlightInv'
  BY <1>1 DEF TransmitBegin, Transmit, TransmitEnd
<1>2. ASSUME NEW id \in Participants, TransmitTo(id)
      PROVE  FlightInv'
  <2>1. PICK w \in flight[id] : flight' = [flight EXCEPT ![id] = @ \ {w}]
    BY <1>2 DEF TransmitTo
  <2>. QED
    BY <1>2, <2>1 DEF TransmitTo
<1>3. CASE UNCHANGED vars
  BY <1>3 DEF vars, trackVars
<1>. QED
  BY <1>1, <1>2, <1>3 DEF TransmitStep

\* But for disable(), every operation keeps the writers enabled of the Tracks that are in
\* the middle of a transmission.
LEMMA FlightMeetsEnabled ==
  ASSUME BridgeInv, op # "disable", NEW id \in Participants, NEW w \in flight[id]
  PROVE  w \in writerOn
<1>. USE DEF BridgeInv, FlightInv, SwitchInv
<1>1. id \in busy /\ w \in targets[id] /\ phase[id] \in {"on", "stopping"}
  OBVIOUS
<1>2. id \in Existing
  BY <1>1 DEF Existing
<1>3. CASE op = "enable"
  BY <1>1, <1>2, <1>3 DEF Enabling
<1>4. CASE op \in {"idle", "create"}
  BY <1>1, <1>2, <1>4 DEF Follows, WritersFollow
<1>5. CASE op = "remove"
  BY <1>1, <1>2, <1>5 DEF Removing, WritersFollow
<1>. QED
  BY <1>3, <1>4, <1>5 DEF TypeOK, Operations

-----------------------------------------------------------------------------
(* Every step, and the start *)

LEMMA BridgeStarts ==
  ASSUME Init
  PROVE  BridgeInv /\ OnlyDisableSilences
<1>1. \A id \in Participants : WritersFor(id) \subseteq Participants
  BY BridgeAssumption DEF WritersFor, ValidRoutes
<1>2. 0 \in 0..MaxMade /\ 0 \in 0..MaxFailures
  BY BridgeAssumption
<1>3. targets \in [Participants -> SUBSET Objects]
  BY <1>1, <1>2 DEF Init, Objects
<1>4. TypeOK
  <2>1. \A id \in Participants : \A v, w \in targets[id] : v[1] = w[1] => v = w
    BY DEF Init
  <2>2. phase \in [Participants -> {"none", "off", "on", "stopping"}]
    BY DEF Init
  <2>. QED
    BY <1>2, <1>3, <2>1, <2>2, BridgeAssumption DEF Init, TypeOK, Operations
<1>5. SwitchInv
  BY DEF Init, SwitchInv, Existing, Follows, WritersFollow
<1>6. NumberInv
  BY <1>2 DEF Init, NumberInv
<1>7. FlightInv
  BY DEF Init, FlightInv
<1>. QED
  BY <1>4, <1>5, <1>6, <1>7 DEF BridgeInv, Init, OnlyDisableSilences

LEMMA BridgeStepKeeps ==
  ASSUME BridgeInv, [Next]_vars
  PROVE  BridgeInv'
<1>1. TypeOK'
  <2>1. CASE UNCHANGED vars
    BY <2>1 DEF vars, trackVars, callVars, historyVars, BridgeInv, TypeOK
  <2>. QED
    BY <2>1, SwitchTypes, WriterTypes DEF Next, CallStep, BridgeInv
<1>2. SwitchInv'
  BY SwitchingKeepsSwitch, WritersKeepSwitch, TransmitKeepsSwitch DEF Next, CallStep
<1>3. NumberInv'
  BY CallsKeepNumbers, TransmitKeepsSwitch DEF Next
<1>4. FlightInv'
  BY CallsKeepFlights, TransmitKeepsFlights DEF Next
<1>. QED
  BY <1>1, <1>2, <1>3, <1>4 DEF BridgeInv

LEMMA MissesKept ==
  ASSUME BridgeInv, OnlyDisableSilences, [Next]_vars
  PROVE  OnlyDisableSilences'
<1>1. CASE misses' = misses
  BY <1>1 DEF OnlyDisableSilences
<1>2. ASSUME NEW id \in Participants, TransmitTo(id)
      PROVE  OnlyDisableSilences'
  BY <1>2, FlightMeetsEnabled DEF TransmitTo, OnlyDisableSilences
<1>3. ASSUME NEW id \in Participants, TransmitBegin(id) \/ Transmit(id) \/ TransmitEnd(id)
      PROVE  misses' = misses
  BY <1>3 DEF TransmitBegin, Transmit, TransmitEnd, historyVars
<1>4. CASE UNCHANGED vars
  BY <1>1, <1>4 DEF vars, historyVars
<1>. QED
  BY <1>1, <1>2, <1>3, <1>4, CallsKeepFlights DEF Next, TransmitStep

-----------------------------------------------------------------------------
(* Tracks and routes.  While a writer is created, or removed, the Tracks   *)
(* that have been visited have the writers their routes ask for, and the   *)
(* others differ by the participant in question.  A new writer either goes *)
(* to no Track, since all that should have one of its participant do, or is *)
(* the only one of its participant.                                        *)
Asked(id) == WritersFor(id) \cap wanted

Settling(id) == Owners(id) = Asked(id)

Gaining(id) ==
  IF id \in todo
  THEN subject[1] \in Asked(id) /\ Owners(id) \cup {subject[1]} = Asked(id)
  ELSE Owners(id) = Asked(id)

Losing(id) ==
  /\ Owners(id) \ {subject[1]} = Asked(id)
  /\ id \notin todo => subject[1] \notin Owners(id)

OnlySubject ==
  \A id \in Participants : \A w \in targets[id] : w[1] = subject[1] => w = subject

RouteInv ==
  /\ OneWriterEach
  /\ \A id \in Participants : phase[id] = "none" => targets[id] = {}
  /\ op # "remove" => \A id \in Participants : targets[id] = {} => phase[id] = "none"
  /\ op \in {"idle", "enable", "disable"} => \A id \in Participants : Settling(id)
  /\ op = "create" => \A id \in Participants : Gaining(id)
  /\ op = "create" => (\A id \in todo : HasWriter(id)) \/ OnlySubject
  /\ op = "remove" => \A id \in Participants : Losing(id)

RoutesKept == failures = 0 => RouteInv

\* A Track has a writer of each of its owners.
LEMMA OwnersOf ==
  \A id : /\ \A w \in targets[id] : w[1] \in Owners(id)
          /\ \A p \in Owners(id) : \E w \in targets[id] : w[1] = p
          /\ Owners(id) = {} <=> targets[id] = {}
BY DEF Owners

LEMMA SwitchingKeepsRoutes ==
  ASSUME BridgeInv, RouteInv,
         \/ EnableCall \/ EnableReturn \/ DisableCall \/ DisableReturn \/ DisableWriter
         \/ \E id \in Participants : EnableTrack(id) \/ DisableTrack(id) \/ DisableWait(id)
  PROVE  RouteInv'
<1>. USE DEF trackVars, callVars, historyVars, Call, Return
<1>1. /\ UNCHANGED <<targets, wanted, subject>>
      /\ op \in {"idle", "enable", "disable"} /\ op' \in {"idle", "enable", "disable"}
  BY DEF EnableCall, EnableReturn, DisableCall, DisableReturn, DisableWriter, EnableTrack,
     DisableTrack, DisableWait, BridgeInv, SwitchInv, TypeOK, Operations
<1>2. \A id \in Participants : phase'[id] = "none" <=> phase[id] = "none"
  <2>1. CASE UNCHANGED phase
    BY <2>1
  <2>2. ASSUME NEW id \in Participants, EnableTrack(id) \/ DisableTrack(id)
        PROVE  \A i \in Participants : phase'[i] = "none" <=> phase[i] = "none"
    BY <2>2 DEF EnableTrack, DisableTrack, BridgeInv, SwitchInv, Existing, TypeOK
  <2>3. ASSUME NEW id \in Participants, DisableWait(id)
        PROVE  \A i \in Participants : phase'[i] = "none" <=> phase[i] = "none"
    BY <2>3 DEF DisableWait, BridgeInv, TypeOK
  <2>. QED
    BY <2>1, <2>2, <2>3 DEF EnableCall, EnableReturn, DisableCall, DisableReturn, DisableWriter
<1>3. \A id \in Participants : Settling(id)'
  BY <1>1 DEF RouteInv, Settling, Asked, Owners
<1>4. OneWriterEach'
  BY <1>1 DEF RouteInv, OneWriterEach
<1>. QED
  BY <1>1, <1>2, <1>3, <1>4 DEF RouteInv

LEMMA CreateKeepsRoutes ==
  ASSUME BridgeInv, RouteInv,
         \/ CreateReturn
         \/ \E id \in Participants :
              CreateCall(id) \/ CreateSkip(id) \/ CreateAdd(id) \/ CreateTrack(id)
  PROVE  RouteInv'
<1>. USE DEF trackVars, callVars, historyVars, Call, Return
<1>1. CASE CreateReturn
  <2>1. \A id \in Participants : Settling(id)'
    BY <1>1 DEF CreateReturn, RouteInv, Gaining, Settling, Asked, Owners
  <2>. QED
    BY <1>1, <2>1 DEF CreateReturn, RouteInv, OneWriterEach
<1>2. ASSUME NEW p \in Participants, CreateCall(p)
      PROVE  RouteInv'
  <2>1. /\ subject' = <<p, made + 1>> /\ subject'[1] = p
        /\ targets' = targets /\ phase' = phase /\ op = "idle" /\ op' = "create"
        /\ wanted' = wanted \cup {p} /\ todo' = {id \in Participants : p \in WritersFor(id)}
    BY <1>2 DEF CreateCall
  <2>2. \A id \in Participants : Owners(id)' = Owners(id) /\ Owners(id) = Asked(id)
    BY <2>1 DEF Owners, RouteInv, Settling
  <2>3. \A id \in Participants : Gaining(id)'
    BY <2>1, <2>2 DEF Gaining, Asked
  <2>4. CASE p \in wanted
    <3>1. \A id \in todo' : HasWriter(id)'
      BY <2>1, <2>2, <2>4 DEF Asked, HasWriter, Owners
    <3>. QED
      BY <2>1, <2>3, <3>1 DEF RouteInv, OneWriterEach
  <2>5. CASE p \notin wanted
    <3>1. OnlySubject'
      BY <2>1, <2>2, <2>5 DEF Asked, OnlySubject, Owners
    <3>. QED
      BY <2>1, <2>3, <3>1 DEF RouteInv, OneWriterEach
  <2>. QED
    BY <2>4, <2>5
<1>3. ASSUME NEW id \in Participants, CreateSkip(id)
      PROVE  RouteInv'
  <2>1. UNCHANGED <<targets, phase, op, subject, wanted>> /\ todo' = todo \ {id}
        /\ op = "create" /\ HasWriter(id)
    BY <1>3 DEF CreateSkip
  <2>2. subject[1] \in Owners(id)
    BY <2>1 DEF HasWriter, Owners
  <2>3. \A i \in Participants : Gaining(i)'
    BY <2>1, <2>2 DEF RouteInv, Gaining, Asked, Owners
  <2>4. (\A i \in todo' : HasWriter(i)') \/ OnlySubject'
    BY <2>1 DEF RouteInv, HasWriter, OnlySubject
  <2>. QED
    BY <2>1, <2>3, <2>4 DEF RouteInv, OneWriterEach
<1>4. ASSUME NEW id \in Participants, CreateAdd(id) \/ CreateTrack(id)
      PROVE  RouteInv'
  <2>1. /\ UNCHANGED <<op, subject, wanted>> /\ todo' = todo \ {id}
        /\ op = "create" /\ id \in todo
        /\ targets' = [targets EXCEPT ![id] = @ \cup {subject}]
        /\ \A i \in Participants : phase'[i] = "none" <=> phase[i] = "none" /\ i # id
    <3>1. CASE CreateAdd(id)
      BY <1>4, <3>1 DEF CreateAdd, BridgeInv, TypeOK
    <3>2. CASE CreateTrack(id)
      <4>1. targets[id] = {}
        BY <3>2 DEF CreateTrack, RouteInv
      <4>. QED
        BY <1>4, <3>2, <4>1 DEF CreateTrack, NewPhase, BridgeInv, TypeOK
    <3>. QED
      BY <1>4, <3>1, <3>2
  <2>2. ~HasWriter(id)
    BY <1>4 DEF CreateAdd, CreateTrack, RouteInv, HasWriter
  <2>3. OnlySubject
    BY <2>1, <2>2 DEF RouteInv
  <2>4. /\ targets'[id] = targets[id] \cup {subject}
        /\ \A i \in Participants \ {id} : targets'[i] = targets[i]
    BY <2>1 DEF BridgeInv, TypeOK
  <2>5. OnlySubject'
    BY <2>1, <2>3, <2>4 DEF OnlySubject
  <2>6. OneWriterEach'
    BY <2>1, <2>3, <2>4, <2>5 DEF RouteInv, OneWriterEach, OnlySubject
  <2>7. /\ Owners(id)' = Owners(id) \cup {subject[1]}
        /\ \A i \in Participants \ {id} : Owners(i)' = Owners(i)
    BY <2>4 DEF Owners
  <2>8. \A i \in Participants : Gaining(i)'
    BY <2>1, <2>7 DEF RouteInv, Gaining, Asked
  <2>9. \A i \in Participants : phase'[i] = "none" <=> targets'[i] = {}
    BY <2>1, <2>4 DEF RouteInv
  <2>. QED
    BY <2>1, <2>5, <2>6, <2>8, <2>9 DEF RouteInv
<1>. QED
  BY <1>1, <1>2, <1>3, <1>4

LEMMA RemoveKeepsRoutes ==
  ASSUME BridgeInv, RouteInv,
         \/ RemoveReturn
         \/ \E id \in Participants :
              RemoveCall(id) \/ RemoveFrom(id) \/ RemoveStop(id) \/ RemoveTrack(id)
  PROVE  RouteInv'
<1>. USE DEF trackVars, callVars, historyVars, Call, Return
<1>1. CASE RemoveReturn
  <2>1. UNCHANGED <<targets, phase, wanted>> /\ op = "remove" /\ op' = "idle"
        /\ todo = {} /\ Empty = {}
    BY <1>1 DEF RemoveReturn
  <2>2. \A id \in Participants : Settling(id)'
    BY <2>1 DEF RouteInv, Losing, Settling, Asked, Owners
  <2>3. \A id \in Participants : targets'[id] = {} => phase'[id] = "none"
    BY <2>1 DEF Empty, Existing
  <2>. QED
    BY <2>1, <2>2, <2>3 DEF RouteInv, OneWriterEach
<1>2. ASSUME NEW p \in Participants, RemoveCall(p)
      PROVE  RouteInv'
  <2>1. /\ subject' = <<p>> /\ subject'[1] = p /\ targets' = targets /\ phase' = phase
        /\ op = "idle" /\ op' = "remove" /\ wanted' = wanted \ {p} /\ todo' = Existing
    BY <1>2 DEF RemoveCall
  <2>2. \A id \in Participants : Owners(id)' = Owners(id) /\ Owners(id) = Asked(id)
    BY <2>1 DEF Owners, RouteInv, Settling
  <2>3. \A id \in Participants : id \notin Existing => Owners(id) = {}
    BY DEF Existing, RouteInv, Owners
  <2>4. \A id \in Participants : Losing(id)'
    BY <2>1, <2>2, <2>3 DEF Losing, Asked
  <2>. QED
    BY <2>1, <2>4 DEF RouteInv, OneWriterEach
<1>3. ASSUME NEW id \in Participants, RemoveFrom(id)
      PROVE  RouteInv'
  <2>1. /\ UNCHANGED <<phase, op, subject, wanted>> /\ todo' = todo \ {id} /\ op = "remove"
        /\ targets'[id] = {w \in targets[id] : w[1] # subject[1]}
        /\ \A i \in Participants \ {id} : targets'[i] = targets[i]
    BY <1>3 DEF RemoveFrom, BridgeInv, TypeOK
  <2>2. /\ Owners(id)' = Owners(id) \ {subject[1]}
        /\ \A i \in Participants \ {id} : Owners(i)' = Owners(i)
    BY <2>1 DEF Owners
  <2>3. \A i \in Participants : Losing(i)'
    BY <2>1, <2>2 DEF RouteInv, Losing, Asked
  <2>4. \A i \in Participants : targets'[i] \subseteq targets[i]
    BY <2>1
  <2>5. OneWriterEach'
    BY <2>4 DEF RouteInv, OneWriterEach
  <2>. QED
    BY <2>1, <2>3, <2>4, <2>5 DEF RouteInv
<1>4. ASSUME NEW id \in Participants, RemoveStop(id) \/ RemoveTrack(id)
      PROVE  RouteInv'
  <2>1. /\ UNCHANGED <<targets, op, subject, wanted, todo>> /\ op = "remove"
        /\ targets[id] = {} /\ \A i \in Participants \ {id} : phase'[i] = phase[i]
    BY <1>4 DEF RemoveStop, RemoveTrack, Empty, BridgeInv, TypeOK
  <2>2. \A i \in Participants : Losing(i)'
    BY <2>1 DEF RouteInv, Losing, Asked, Owners
  <2>. QED
    BY <2>1, <2>2 DEF RouteInv, OneWriterEach
<1>. QED
  BY <1>1, <1>2, <1>3, <1>4

LEMMA RoutesStepKeeps ==
  ASSUME BridgeInv, RoutesKept, [Next]_vars
  PROVE  RoutesKept'
<1>. SUFFICES ASSUME failures' = 0
              PROVE  RouteInv'
  BY DEF RoutesKept
<1>1. CASE (\E id \in Participants : TransmitBegin(id) \/ TransmitStep(id)) \/ UNCHANGED vars
  BY <1>1, TransmitFrame DEF callVars, RoutesKept, RouteInv, OneWriterEach, Settling, Gaining,
     Losing, Asked, Owners, HasWriter, OnlySubject
<1>2. ASSUME NEW id \in Participants, CreateFails(id)
      PROVE  FALSE
  <2>1. failures \in Nat /\ failures' = failures + 1
    BY <1>2 DEF CreateFails, BridgeInv, TypeOK
  <2>. QED
    BY <2>1
<1>3. CASE \/ EnableCall \/ DisableCall \/ CallStep
           \/ \E p \in Participants : CreateCall(p) \/ RemoveCall(p)
  <2>1. failures' = failures
    BY <1>2, <1>3 DEF CallStep, EnableCall, DisableCall, EnableReturn, DisableWriter,
       DisableReturn, CreateReturn, RemoveReturn, EnableTrack, DisableTrack, DisableWait,
       CreateCall, CreateSkip, CreateAdd, CreateTrack, RemoveCall, RemoveFrom, RemoveStop,
       RemoveTrack, historyVars
  <2>2. RouteInv
    BY <2>1 DEF RoutesKept
  <2>. QED
    BY <1>2, <1>3, <2>2, SwitchingKeepsRoutes, CreateKeepsRoutes, RemoveKeepsRoutes DEF CallStep
<1>. QED
  BY <1>1, <1>3 DEF Next

LEMMA RoutesStart ==
  ASSUME Init
  PROVE  RoutesKept
<1>. DEFINE First(id) == WritersFor(id) \cap FirstWriters
<1>1. ASSUME NEW id \in Participants
      PROVE  Owners(id) = First(id) /\ (phase[id] = "none" <=> targets[id] = {})
  <2>1. targets[id] = First(id) \X {0}
    BY DEF Init
  <2>2. /\ \A w \in targets[id] : w[1] \in First(id)
        /\ \A p \in First(id) : <<p, 0>> \in targets[id] /\ <<p, 0>>[1] = p
    BY <2>1
  <2>3. phase[id] = "none" <=> First(id) = {}
    BY DEF Init
  <2>. HIDE DEF First
  <2>4. Owners(id) = First(id)
    BY <2>2 DEF Owners
  <2>5. First(id) = {} <=> targets[id] = {}
    BY <2>2
  <2>. QED
    BY <2>3, <2>4, <2>5
<1>2. \A id \in Participants : phase[id] = "none" <=> targets[id] = {}
  BY <1>1
<1>3. OneWriterEach
  BY DEF Init, OneWriterEach
<1>. QED
  BY <1>1, <1>2, <1>3 DEF Init, RoutesKept, RouteInv, Settling, Asked

-----------------------------------------------------------------------------
(* The theorems *)

LEMMA BridgeInvariant == Spec => [](BridgeInv /\ OnlyDisableSilences /\ RoutesKept)
<1>1. Init => BridgeInv /\ OnlyDisableSilences /\ RoutesKept
  BY BridgeStarts, RoutesStart
<1>2. BridgeInv /\ OnlyDisableSilences /\ RoutesKept /\ [Next]_vars
        => (BridgeInv /\ OnlyDisableSilences /\ RoutesKept)'
  BY BridgeStepKeeps, MissesKept, RoutesStepKeeps
<1>. QED
  BY <1>1, <1>2, PTL DEF Spec

\* Every reachable state of a DdsBridge is well typed; no Track gets two writers of a
\* participant, however often its writer is created and removed.
THEOREM BridgeTypeCorrect == Spec => []TypeOK
<1>1. BridgeInv => TypeOK
  BY DEF BridgeInv
<1>. QED
  BY <1>1, BridgeInvariant, PTL

\* Between operations the Tracks and the writers of a bridge are all enabled or all
\* disabled, for any routes, although the Tracks share the writers and a creation may fail.
THEOREM AllFollowCorrect == Spec => []AllFollowBridge
<1>1. BridgeInv => AllFollowBridge
  BY DEF BridgeInv, SwitchInv, AllFollowBridge, Follows, WritersFollow
<1>. QED
  BY <1>1, BridgeInvariant, PTL

\* No transmission meets a disabled writer but during disable(): enable(), create_writer()
\* and remove_writer() take no writer from under one.
THEOREM OnlyDisableCorrect == Spec => []OnlyDisableSilences
  BY BridgeInvariant, PTL

\* The Tracks share one writer of each participant and, between operations, have exactly
\* those their routes ask for, unless a creation has failed.
THEOREM TracksMatchCorrect == Spec => []TracksMatchRoutes
<1>1. RoutesKept => TracksMatchRoutes
  <2>. SUFFICES ASSUME RouteInv
                PROVE  /\ OneWriterEach
                       /\ op = "idle" =>
                            \A id \in Participants :
                              /\ Owners(id) = WritersFor(id) \cap wanted
                              /\ phase[id] = "none" <=> Owners(id) = {}
    BY DEF RoutesKept, TracksMatchRoutes
  <2>. QED
    BY OwnersOf DEF RouteInv, Settling, Asked
<1>. QED
  BY <1>1, BridgeInvariant, PTL
=============================================================================
