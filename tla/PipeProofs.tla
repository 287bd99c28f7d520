----------------------------- MODULE PipeProofs -----------------------------
(***************************************************************************)
(* Proofs about DdsPipe, for any topics, services, endpoints and lists of  *)
(* allowed topics, any order of the calls and any failing creations.       *)
(***************************************************************************)
EXTENDS DdsPipe, DiscoveryProofs, FiniteSetTheorems

\* current_topics_ says what should be forwarded: nothing while the pipe is disabled.
ActiveIsAllowed == \A t \in KnownTopics : current[t] <=> enabled /\ t \in allowed

\* The bridges follow it: none is enabled without it ...
OnlyActiveForwards == \A t \in Topics : bridge[t] = "on" => t \in KnownTopics /\ current[t]

\* ... and each is enabled with it, unless it could not be created.
Forwards(t) == bridge[t] = "on" \/ (bridge[t] = "none" /\ failures > 0)
ActiveForwards == \A t \in KnownTopics : current[t] => Forwards(t)

TopicsInv ==
  /\ PipeTypeOK
  /\ ActiveIsAllowed
  /\ OnlyActiveForwards
  /\ ActiveForwards

PipeInv == DatabaseInv /\ TopicsInv

-----------------------------------------------------------------------------
(* The steps of the database *)

\* Every step of the pipe is one of its database, or leaves the database alone.
LEMMA NextIsDatabaseStep ==
  ASSUME [Next]_vars
  PROVE  [DatabaseNext]_databaseVars
BY DEF Next, vars, DatabaseStep, Callback, Enable, Disable, Reload, Destroy, DatabaseNext

-----------------------------------------------------------------------------
(* Facts about failures, bridges and services *)

\* A map of flags that are computed from a set, and one to which a flag is added.
LEMMA FlagsFromSet ==
  ASSUME NEW D, NEW S, NEW f, f = [x \in D |-> x \in S]
  PROVE  f \in [D -> BOOLEAN] /\ \A x \in D : f[x] <=> x \in S
<1>1. \A x \in D : f[x] = (x \in S)
  BY Zenon
<1>2. \A x \in D : f[x] \in BOOLEAN
  <2>. SUFFICES ASSUME NEW x \in D
                PROVE  f[x] \in BOOLEAN
    OBVIOUS
  <2>1. (x \in S) \in BOOLEAN
    OBVIOUS
  <2>. QED
    BY <1>1, <2>1, Zenon
<1>3. \A x \in D : f[x] <=> x \in S
  BY <1>1, Zenon
<1>4. f = [x \in D |-> f[x]]
  BY Zenon
<1>. QED
  BY <1>2, <1>3, <1>4, Zenon

LEMMA FlagPut ==
  ASSUME NEW D, NEW f \in [D -> BOOLEAN], NEW k, NEW b \in BOOLEAN
  PROVE  [x \in D \cup {k} |-> IF x = k THEN b ELSE f[x]] \in [D \cup {k} -> BOOLEAN]
OBVIOUS

\* Failures are counted, and none is forgotten.
LEMMA FailuresCounted ==
  ASSUME failures \in Nat, NEW failing \in SUBSET (Topics \cup Services), MayFail(failing)
  PROVE  /\ failures' \in Nat
         /\ failures > 0 => failures' > 0
         /\ failing # {} => failures' > 0
<1>1. IsFiniteSet(failing)
  BY PipeAssumption, FS_Union, FS_Subset
<1>2. Cardinality(failing) \in Nat /\ (failing # {} => Cardinality(failing) # 0)
  BY <1>1, FS_CardinalityType, FS_EmptySet
<1>. QED
  BY <1>2 DEF MayFail

\* activate_topic_nts_ on topics enables every bridge but those it cannot create.
LEMMA ActivateEnables ==
  ASSUME PipeTypeOK, NEW topics \in SUBSET Topics, NEW by,
         \A t \in topics : by[t] \in Participants \cup {NoParticipant},
         NEW failing, Activate(topics, by, failing)
  PROVE  /\ bridge' \in [Topics -> {"none", "off", "on"}]
         /\ writersOf' \in [Topics -> SUBSET Participants]
         /\ failing \subseteq {t \in topics : bridge[t] = "none"}
         /\ \A t \in Topics : bridge'[t] = IF t \in topics \ failing THEN "on" ELSE bridge[t]
<1>1. \A t \in topics : FirstWriters(by[t]) \in SUBSET Participants
  BY PipeAssumption DEF FirstWriters
<1>2. writersOf' \in [Topics -> SUBSET Participants]
  BY <1>1 DEF Activate, PipeTypeOK
<1>. QED
  BY <1>2 DEF Activate, PipeTypeOK

\* The RpcBridges keep their type whichever are enabled.
LEMMA EnableServicesType ==
  ASSUME PipeTypeOK, NEW set, NEW now, NEW created, NEW failing,
         EnableServices(set, now, created, failing)
  PROVE  rpc' \in [Services -> {"none", "fresh", "off", "on"}]
BY DEF EnableServices, PipeTypeOK

-----------------------------------------------------------------------------
(* The operations *)

LEMMA EnableKeeps ==
  ASSUME TopicsInv, Enable
  PROVE  TopicsInv'
<1>. DEFINE topics == KnownTopics \cap allowed
<1>1. PICK failing \in SUBSET (Topics \cup Services) :
        /\ MayFail(failing)
        /\ Activate(topics, discoverer, failing \cap Topics)
        /\ EnableServices({s \in KnownServices : flags[s]}, servers, {}, failing \cap Services)
  BY DEF Enable
<1>2. topics \in SUBSET Topics
      /\ \A t \in topics : discoverer[t] \in Participants \cup {NoParticipant}
  BY DEF TopicsInv, PipeTypeOK
<1>3. /\ bridge' \in [Topics -> {"none", "off", "on"}]
      /\ writersOf' \in [Topics -> SUBSET Participants]
      /\ failing \cap Topics \subseteq {t \in topics : bridge[t] = "none"}
      /\ \A t \in Topics :
           bridge'[t] = IF t \in topics \ (failing \cap Topics) THEN "on" ELSE bridge[t]
  BY <1>1, <1>2, ActivateEnables DEF TopicsInv
<1>4. rpc' \in [Services -> {"none", "fresh", "off", "on"}]
  BY <1>1, EnableServicesType DEF TopicsInv
<1>5. failures' \in Nat /\ (failing # {} => failures' > 0)
  BY <1>1, FailuresCounted DEF TopicsInv, PipeTypeOK
<1>6. /\ KnownTopics' = KnownTopics /\ KnownServices' = KnownServices
      /\ current' \in [KnownTopics -> BOOLEAN]
      /\ \A t \in KnownTopics : current'[t] <=> t \in allowed
      /\ enabled' /\ ~enabled
      /\ allowed' = allowed
  BY DEF Enable, TopicsInv, PipeTypeOK, ActiveIsAllowed, KnownTopics, KnownServices, allowed,
     AllowedBy, Admits
<1>7. PipeTypeOK'
  BY <1>3, <1>4, <1>5, <1>6 DEF Enable, TopicsInv, PipeTypeOK
<1>8. ActiveIsAllowed'
  BY <1>6 DEF ActiveIsAllowed
<1>9. OnlyActiveForwards'
  BY <1>3, <1>6 DEF TopicsInv, OnlyActiveForwards, ActiveIsAllowed
<1>10. ActiveForwards'
  BY <1>3, <1>5, <1>6 DEF TopicsInv, ActiveForwards, Forwards, PipeTypeOK
<1>. QED
  BY <1>7, <1>8, <1>9, <1>10 DEF TopicsInv

LEMMA DisableKeeps ==
  ASSUME TopicsInv, Disable
  PROVE  TopicsInv'
<1>1. /\ KnownTopics' = KnownTopics /\ KnownServices' = KnownServices
      /\ \A t \in KnownTopics : ~current'[t]
      /\ current' \in [KnownTopics -> BOOLEAN]
      /\ ~enabled'
  BY DEF Disable, TopicsInv, PipeTypeOK, KnownTopics, KnownServices, serviceVars
<1>2. bridge' \in [Topics -> {"none", "off", "on"}]
  BY DEF Disable, OffOnDisable, Off, TopicsInv, PipeTypeOK
<1>3. \A t \in Topics : bridge'[t] # "on"
  BY DEF Disable, OffOnDisable, Off, TopicsInv, OnlyActiveForwards
<1>4. PipeTypeOK'
  BY <1>1, <1>2 DEF Disable, TopicsInv, PipeTypeOK, serviceVars
<1>. QED
  BY <1>1, <1>3, <1>4 DEF TopicsInv, ActiveIsAllowed, OnlyActiveForwards, ActiveForwards

LEMMA DestroyKeeps ==
  ASSUME TopicsInv, Destroy
  PROVE  TopicsInv'
<1>1. /\ KnownTopics' = KnownTopics /\ KnownServices' = KnownServices
      /\ \A t \in KnownTopics : ~current'[t]
      /\ current' \in [KnownTopics -> BOOLEAN]
      /\ ~enabled'
  BY DEF Destroy, TopicsInv, PipeTypeOK, KnownTopics, KnownServices
<1>2. \A t \in Topics : bridge'[t] # "on"
  BY DEF Destroy
<1>3. PipeTypeOK'
  BY <1>1 DEF Destroy, TopicsInv, PipeTypeOK
<1>. QED
  BY <1>1, <1>2, <1>3 DEF TopicsInv, ActiveIsAllowed, OnlyActiveForwards, ActiveForwards

\* A reload of a disabled pipe changes the lists and nothing else.
LEMMA ReloadDisabledKeeps ==
  ASSUME TopicsInv, topicList' \in TopicLists, NEW admitted, ReloadDisabled(admitted),
         UNCHANGED <<enabled, terminated, gone>>
  PROVE  TopicsInv'
<1>1. PipeTypeOK'
  BY DEF ReloadDisabled, TopicsInv, PipeTypeOK, topicVars, serviceVars, KnownTopics,
     KnownServices
<1>. QED
  BY <1>1 DEF ReloadDisabled, TopicsInv, ActiveIsAllowed, OnlyActiveForwards, ActiveForwards,
     Forwards, topicVars, serviceVars, KnownTopics

\* A reload of an enabled pipe enables what becomes allowed and disables what is no longer.
LEMMA ReloadEnabledKeeps ==
  ASSUME TopicsInv, topicList' \in TopicLists, NEW admitted, ReloadEnabled(admitted),
         admitted = allowed', UNCHANGED <<enabled, terminated, gone>>
  PROVE  TopicsInv'
<1>. DEFINE more == {t \in KnownTopics \cap admitted : ~current[t]}
<1>1. PICK failing \in SUBSET (Topics \cup Services) :
        /\ MayFail(failing)
        /\ failing \cap Topics \subseteq {t \in more : bridge[t] = "none"}
        /\ bridge' = [t \in Topics |-> IF t \in more \ failing THEN "on"
                                       ELSE OffOnReload(t, admitted)]
        /\ writersOf' = [t \in Topics |->
             IF t \in more \ failing /\ bridge[t] = "none" THEN FirstWriters(discoverer[t])
             ELSE writersOf[t]]
        /\ rpc' = [s \in Services |->
             IF s \in (KnownServices \cap admitted) \ failing /\ servers[s] # {} THEN "on"
             ELSE OffServiceOnReload(s, admitted)]
  BY DEF ReloadEnabled
<1>2. failures' \in Nat /\ (failures > 0 => failures' > 0) /\ (failing # {} => failures' > 0)
  BY <1>1, FailuresCounted DEF TopicsInv, PipeTypeOK
<1>3. /\ enabled'
      /\ KnownTopics' = KnownTopics /\ KnownServices' = KnownServices
      /\ \A t \in KnownTopics : current'[t] <=> t \in admitted
      /\ current' \in [KnownTopics -> BOOLEAN] /\ flags' \in [KnownServices -> BOOLEAN]
  <2>1. current' = [t \in KnownTopics |-> t \in admitted] /\ enabled'
    BY DEF ReloadEnabled
  <2>2. flags' = [s \in KnownServices |-> s \in admitted]
    BY DEF ReloadEnabled
  <2>3. KnownTopics' = KnownTopics /\ KnownServices' = KnownServices
    BY <2>1, <2>2 DEF KnownTopics, KnownServices
  <2>. QED
    BY <2>1, <2>2, <2>3, FlagsFromSet
<1>4. bridge' \in [Topics -> {"none", "off", "on"}]
      /\ rpc' \in [Services -> {"none", "fresh", "off", "on"}]
  BY <1>1 DEF OffOnReload, OffServiceOnReload, Off, TopicsInv, PipeTypeOK
<1>5. \A t \in more : FirstWriters(discoverer[t]) \in SUBSET Participants
  BY PipeAssumption DEF FirstWriters, TopicsInv, PipeTypeOK
<1>6. writersOf' \in [Topics -> SUBSET Participants]
  BY <1>1, <1>5 DEF TopicsInv, PipeTypeOK
<1>7. PipeTypeOK'
  BY <1>2, <1>3, <1>4, <1>6 DEF ReloadEnabled, TopicsInv, PipeTypeOK
<1>8. ActiveIsAllowed'
  BY <1>3 DEF ActiveIsAllowed
<1>9. OnlyActiveForwards'
  <2>1. ASSUME NEW t \in Topics, bridge'[t] = "on", t \notin more
        PROVE  t \in KnownTopics /\ t \in admitted
    BY <1>1, <2>1 DEF OffOnReload, Off, TopicsInv, OnlyActiveForwards
  <2>. QED
    BY <1>3, <2>1 DEF OnlyActiveForwards
<1>10. ActiveForwards'
  <2>1. SUFFICES ASSUME NEW t \in KnownTopics, t \in admitted
                 PROVE  Forwards(t)'
    BY <1>3 DEF ActiveForwards
  <2>2. t \in Topics
    BY DEF TopicsInv, PipeTypeOK
  <2>3. CASE t \in more \ failing
    BY <1>1, <2>2, <2>3 DEF Forwards
  <2>4. CASE t \in failing
    BY <1>1, <1>2, <2>2, <2>4 DEF Forwards, OffOnReload, Off
  <2>5. CASE current[t]
    BY <1>1, <1>2, <2>1, <2>2, <2>5 DEF Forwards, OffOnReload, TopicsInv, ActiveForwards
  <2>. QED
    BY <2>1, <2>3, <2>4, <2>5
<1>. QED
  BY <1>7, <1>8, <1>9, <1>10 DEF TopicsInv

LEMMA ReloadKeeps ==
  ASSUME TopicsInv, Reload
  PROVE  TopicsInv'
<1>1. PICK list \in Reloads \ {topicList} :
        topicList' = list /\ (ReloadDisabled(AllowedBy(list)) \/ ReloadEnabled(AllowedBy(list)))
  BY DEF Reload
<1>2. topicList' \in TopicLists /\ UNCHANGED <<enabled, terminated, gone>>
  BY <1>1, PipeAssumption DEF Reload
<1>3. AllowedBy(list) = allowed'
  BY <1>1 DEF allowed, AllowedBy, Admits
<1>. QED
  BY <1>1, <1>2, <1>3, ReloadDisabledKeeps, ReloadEnabledKeeps

-----------------------------------------------------------------------------
(* The callbacks *)

LEMMA NewTopicKeeps ==
  ASSUME TopicsInv, NEW t \in Topics, NEW p \in Participants, NewTopic(t, p)
  PROVE  TopicsInv'
<1>1. /\ enabled' = enabled /\ topicList' = topicList
      /\ allowed' = allowed /\ KnownServices' = KnownServices
  BY DEF NewTopic, statusVars, serviceVars, allowed, AllowedBy, Admits, KnownServices
<1>2. KnownTopics' = KnownTopics \cup {t}
      /\ discoverer' \in [KnownTopics \cup {t} -> Participants \cup {NoParticipant}]
  BY DEF NewTopic, Put, KnownTopics, TopicsInv, PipeTypeOK
<1>3. bridge[t] = "none"
  BY DEF NewTopic
<1>4. CASE enabled /\ t \in allowed
  <2>1. PICK failing \in SUBSET {t} :
          Activate({t}, [u \in {t} |-> p], failing) /\ MayFail(failing)
    BY <1>4 DEF NewTopic
  <2>2. /\ bridge' \in [Topics -> {"none", "off", "on"}]
        /\ writersOf' \in [Topics -> SUBSET Participants]
        /\ \A u \in Topics : bridge'[u] = IF u \in {t} \ failing THEN "on" ELSE bridge[u]
    <3>1. \A u \in {t} : [v \in {t} |-> p][u] \in Participants \cup {NoParticipant}
      OBVIOUS
    <3>. QED
      BY <2>1, <3>1, ActivateEnables DEF TopicsInv
  <2>3. failures' \in Nat /\ (failures > 0 => failures' > 0) /\ (failing # {} => failures' > 0)
    BY <2>1, FailuresCounted DEF TopicsInv, PipeTypeOK
  <2>4. current' \in [KnownTopics \cup {t} -> BOOLEAN]
        /\ \A u \in KnownTopics \cup {t} : current'[u] = IF u = t THEN TRUE ELSE current[u]
    BY <1>4 DEF NewTopic, Put, KnownTopics, TopicsInv, PipeTypeOK
  <2>5. PipeTypeOK'
    BY <1>1, <1>2, <2>2, <2>3, <2>4 DEF NewTopic, TopicsInv, PipeTypeOK, serviceVars, statusVars
  <2>6. ActiveIsAllowed'
    BY <1>1, <1>2, <1>4, <2>4 DEF TopicsInv, ActiveIsAllowed
  <2>7. OnlyActiveForwards'
    BY <1>2, <2>2, <2>4 DEF TopicsInv, OnlyActiveForwards
  <2>8. ActiveForwards'
    BY <1>2, <1>3, <2>2, <2>3, <2>4 DEF TopicsInv, ActiveForwards, Forwards, PipeTypeOK
  <2>. QED
    BY <2>5, <2>6, <2>7, <2>8 DEF TopicsInv
<1>5. CASE ~(enabled /\ t \in allowed)
  <2>1. UNCHANGED <<bridge, writersOf, failures>>
        /\ current' = IF t \in KnownTopics THEN current ELSE Put(current, t, FALSE)
    BY <1>5 DEF NewTopic
  <2>2. /\ current' \in [KnownTopics \cup {t} -> BOOLEAN]
        /\ \A u \in KnownTopics : current'[u] = current[u]
        /\ t \notin KnownTopics => ~current'[t]
    BY <2>1 DEF Put, KnownTopics, TopicsInv, PipeTypeOK
  <2>3. PipeTypeOK'
    BY <1>1, <1>2, <2>1, <2>2 DEF NewTopic, TopicsInv, PipeTypeOK, serviceVars, statusVars
  <2>4. ActiveIsAllowed'
    BY <1>1, <1>2, <1>5, <2>2 DEF TopicsInv, ActiveIsAllowed
  <2>5. OnlyActiveForwards'
    BY <1>2, <2>1, <2>2 DEF TopicsInv, OnlyActiveForwards
  <2>6. ActiveForwards'
    BY <1>2, <2>1, <2>2 DEF TopicsInv, ActiveForwards, Forwards
  <2>. QED
    BY <2>3, <2>4, <2>5, <2>6 DEF TopicsInv
<1>. QED
  BY <1>4, <1>5

\* Writers of a bridge come and go without a change to what is forwarded.
LEMMA WritersKeep ==
  ASSUME TopicsInv, NEW t \in Topics, NEW p \in Participants,
         NewWriter(t, p) \/ UnusedTopic(t, p)
  PROVE  TopicsInv'
<1>1. writersOf' \in [Topics -> SUBSET Participants]
  BY DEF NewWriter, UnusedTopic, DropWriter, TopicsInv, PipeTypeOK
<1>2. UNCHANGED <<current, discoverer, bridge, serviceVars, statusVars, failures>>
  BY DEF NewWriter, UnusedTopic
<1>3. PipeTypeOK'
  BY <1>1, <1>2 DEF TopicsInv, PipeTypeOK, serviceVars, statusVars, KnownTopics, KnownServices
<1>. QED
  BY <1>2, <1>3 DEF TopicsInv, ActiveIsAllowed, OnlyActiveForwards, ActiveForwards, Forwards,
     statusVars, KnownTopics, allowed, AllowedBy, Admits

\* The exception that ends the process leaves the pipe as it was.
LEMMA NewWriterFailsKeeps ==
  ASSUME TopicsInv, NEW t \in Topics, NEW p \in Participants, NewWriterFails(t, p)
  PROVE  TopicsInv'
<1>1. failures' \in Nat /\ (failures > 0 => failures' > 0)
  <2>1. Cardinality({p}) = 1
    BY FS_Singleton
  <2>. QED
    BY <2>1 DEF NewWriterFails, MayFail, TopicsInv, PipeTypeOK
<1>2. PipeTypeOK'
  BY <1>1 DEF NewWriterFails, TopicsInv, PipeTypeOK, topicVars, serviceVars, KnownTopics,
     KnownServices
<1>. QED
  BY <1>1, <1>2 DEF NewWriterFails, TopicsInv, ActiveIsAllowed, OnlyActiveForwards,
     ActiveForwards, Forwards, topicVars, KnownTopics, allowed, AllowedBy, Admits

\* Servers come and go without a change to the topics.
LEMMA NewServerKeeps ==
  ASSUME TopicsInv, NEW s \in Services, NEW p \in Participants, NEW g \in Guids,
         NewServer(s, p, g)
  PROVE  TopicsInv'
<1>1. PICK failing \in SUBSET {s} :
        /\ MayFail(failing)
        /\ EnableServices(IF enabled /\ flags'[s] THEN {s} ELSE {}, servers',
                          {u \in {s} : rpc[u] = "none"}, failing)
  BY DEF NewServer
<1>2. failures' \in Nat /\ (failures > 0 => failures' > 0)
  BY <1>1, FailuresCounted DEF TopicsInv, PipeTypeOK
<1>3. rpc' \in [Services -> {"none", "fresh", "off", "on"}]
  BY <1>1, EnableServicesType DEF TopicsInv
<1>4. servers' \in [Services -> SUBSET (Participants \X Guids)]
  BY DEF NewServer, TopicsInv, PipeTypeOK
<1>5. KnownServices' \subseteq Services /\ flags' \in [KnownServices' -> BOOLEAN]
  <2>1. flags \in [KnownServices -> BOOLEAN] /\ KnownServices \subseteq Services
    BY DEF TopicsInv, PipeTypeOK
  <2>2. CASE flags' = flags
    BY <2>1, <2>2 DEF KnownServices
  <2>3. CASE flags' = [x \in KnownServices \cup {s} |-> IF x = s THEN s \in allowed ELSE flags[x]]
    <3>1. KnownServices' = KnownServices \cup {s}
      BY <2>3 DEF KnownServices
    <3>2. flags' \in [KnownServices \cup {s} -> BOOLEAN]
      BY <2>1, <2>3, FlagPut, (s \in allowed) \in BOOLEAN
    <3>. QED
      BY <2>1, <3>1, <3>2
  <2>. QED
    BY <2>2, <2>3 DEF NewServer, Put, KnownServices
<1>6. PipeTypeOK'
  BY <1>2, <1>3, <1>4, <1>5 DEF NewServer, TopicsInv, PipeTypeOK, topicVars, statusVars,
     KnownTopics
<1>. QED
  BY <1>2, <1>6 DEF NewServer, TopicsInv, ActiveIsAllowed, OnlyActiveForwards, ActiveForwards,
     Forwards, topicVars, statusVars, KnownTopics, allowed, AllowedBy, Admits

LEMMA NoServerKeeps ==
  ASSUME TopicsInv, NEW s \in Services, NEW p, NEW g, NoServer(s, p, g)
  PROVE  TopicsInv'
<1>1. servers' \in [Services -> SUBSET (Participants \X Guids)]
      /\ rpc' \in [Services -> {"none", "fresh", "off", "on"}]
  BY DEF NoServer, Off, TopicsInv, PipeTypeOK
<1>2. PipeTypeOK'
  BY <1>1 DEF NoServer, TopicsInv, PipeTypeOK, topicVars, statusVars, KnownTopics, KnownServices
<1>. QED
  BY <1>2 DEF NoServer, TopicsInv, ActiveIsAllowed, OnlyActiveForwards, ActiveForwards,
     Forwards, topicVars, statusVars, KnownTopics, allowed, AllowedBy, Admits

LEMMA PipeUnchangedKeeps ==
  ASSUME TopicsInv, UNCHANGED pipeVars
  PROVE  TopicsInv'
<1>1. PipeTypeOK'
  BY DEF TopicsInv, PipeTypeOK, pipeVars, topicVars, serviceVars, statusVars, KnownTopics,
     KnownServices
<1>. QED
  BY <1>1 DEF TopicsInv, ActiveIsAllowed, OnlyActiveForwards, ActiveForwards, Forwards,
     pipeVars, topicVars, statusVars, KnownTopics, allowed, AllowedBy, Admits

\* A callback about endpoint g of participant p, first as discovered, then as removed.
LEMMA DiscoveredKeeps ==
  ASSUME TopicsInv, NEW g \in Guids, NEW p \in Participants, DiscoveredEndpoint(g, p)
  PROVE  TopicsInv'
<1>1. TopicOf[g] \in Topics \cup Services
  BY PipeAssumption
<1>2. CASE IsService(g)
  BY <1>2, NewServerKeeps, PipeUnchangedKeeps DEF DiscoveredEndpoint, IsService
<1>3. CASE ~IsService(g)
  <2>1. TopicOf[g] \in Topics
    BY <1>1, <1>3 DEF IsService
  <2>. QED
    BY <1>3, <2>1, NewTopicKeeps, WritersKeep, NewWriterFailsKeeps, PipeUnchangedKeeps
       DEF DiscoveredEndpoint
<1>. QED
  BY <1>2, <1>3

LEMMA RemovedKeeps ==
  ASSUME TopicsInv, NEW g \in Guids, NEW p \in Participants, NEW active,
         RemovedEndpoint(g, p, active)
  PROVE  TopicsInv'
<1>1. TopicOf[g] \in Topics \cup Services
  BY PipeAssumption
<1>2. CASE IsService(g)
  BY <1>2, NoServerKeeps, PipeUnchangedKeeps DEF RemovedEndpoint, IsService
<1>3. CASE ~IsService(g)
  <2>1. TopicOf[g] \in Topics
    BY <1>1, <1>3 DEF IsService
  <2>. QED
    BY <1>3, <2>1, WritersKeep, PipeUnchangedKeeps DEF RemovedEndpoint
<1>. QED
  BY <1>2, <1>3

\* Whatever the thread of the database calls back with, it is an operation on an endpoint.
LEMMA CallbackKeeps ==
  ASSUME PipeInv, Callback
  PROVE  TopicsInv'
<1>. DEFINE op == Head(front)
<1>1. op \in Operation
  BY QueueType DEF Callback, WorkerReturn, PipeInv, DatabaseInv, DatabaseTypeOK, AtWorkHasItem
<1>2. op.guid \in Guids /\ op.entity.by \in Participants
  BY <1>1 DEF Operation, Entity
<1>3. \/ DiscoveredEndpoint(op.guid, op.entity.by)
      \/ UpdatedEndpoint(op.guid, op.entity.by, op.entity.active)
      \/ RemovedEndpoint(op.guid, op.entity.by, op.entity.active)
  BY DEF Callback
<1>4. TopicsInv
  BY DEF PipeInv
<1>. HIDE DEF op
<1>. QED
  BY <1>2, <1>3, <1>4, DiscoveredKeeps, RemovedKeeps, PipeUnchangedKeeps DEF UpdatedEndpoint

-----------------------------------------------------------------------------
(* Every step, and the start *)

LEMMA PipeStarts ==
  ASSUME Init
  PROVE  PipeInv
<1>1. DatabaseInv
  BY DatabaseStarts DEF Init
<1>2. PICK failing \in SUBSET Builtin :
        /\ Cardinality(failing) <= MaxFailures
        /\ failures = Cardinality(failing)
        /\ bridge = [t \in Topics |-> IF t \in Builtin \ failing THEN "off" ELSE "none"]
        /\ writersOf = [t \in Topics |-> IF t \in Builtin \ failing THEN Participants ELSE {}]
  BY DEF Init
<1>3. failures \in Nat
  <2>1. IsFiniteSet(failing)
    BY PipeAssumption, FS_Subset
  <2>. QED
    BY <1>2, <2>1, FS_CardinalityType
<1>4. KnownTopics = Builtin /\ current \in [Builtin -> BOOLEAN]
      /\ discoverer \in [Builtin -> Participants \cup {NoParticipant}]
  BY DEF Init, KnownTopics
<1>5. KnownServices = {} /\ flags \in [KnownServices -> BOOLEAN]
  BY DEF Init, KnownServices
<1>6. PipeTypeOK
  BY <1>2, <1>3, <1>4, <1>5, PipeAssumption DEF Init, PipeTypeOK
<1>7. ActiveIsAllowed /\ ActiveForwards
  BY <1>4 DEF Init, ActiveIsAllowed, ActiveForwards, KnownTopics
<1>8. OnlyActiveForwards
  BY <1>2 DEF OnlyActiveForwards
<1>. QED
  BY <1>1, <1>6, <1>7, <1>8 DEF PipeInv, TopicsInv

LEMMA PipeStepKeeps ==
  ASSUME PipeInv, [Next]_vars
  PROVE  PipeInv'
<1>1. DatabaseInv'
  BY NextIsDatabaseStep, DatabaseStepKeeps DEF PipeInv
<1>2. TopicsInv
  BY DEF PipeInv
<1>3. TopicsInv'
  <2>1. CASE DatabaseStep
    BY <1>2, <2>1, PipeUnchangedKeeps DEF DatabaseStep
  <2>2. CASE Callback
    BY <2>2, CallbackKeeps
  <2>3. CASE Enable
    BY <1>2, <2>3, EnableKeeps
  <2>4. CASE Disable
    BY <1>2, <2>4, DisableKeeps
  <2>5. CASE Reload
    BY <1>2, <2>5, ReloadKeeps
  <2>6. CASE Destroy
    BY <1>2, <2>6, DestroyKeeps
  <2>7. CASE UNCHANGED vars
    BY <1>2, <2>7, PipeUnchangedKeeps DEF vars
  <2>. QED
    BY <2>1, <2>2, <2>3, <2>4, <2>5, <2>6, <2>7 DEF Next
<1>. QED
  BY <1>1, <1>3 DEF PipeInv

LEMMA PipeInvariant == Spec => []PipeInv
  BY PipeStarts, PipeStepKeeps, PTL DEF Spec

-----------------------------------------------------------------------------
(* The theorems *)

\* Every reachable state of the DdsPipe and its database is well typed; every failure
\* that is counted is one of finitely many.
THEOREM PipeTypeCorrect == Spec => []TypeOK
<1>1. PipeInv => TypeOK
  BY DEF PipeInv, DatabaseInv, TopicsInv, TypeOK
<1>. QED
  BY <1>1, PipeInvariant, PTL

\* A bridge is enabled only while the pipe is and the lists allow its topic, in any order of
\* enable(), disable(), reload_configuration(), discoveries and the destructor.
THEOREM ForwardsOnlyAllowedCorrect == Spec => []ForwardsOnlyAllowed
<1>1. PipeInv => ForwardsOnlyAllowed
  <2>. SUFFICES ASSUME PipeInv, NEW t \in Topics, bridge[t] = "on"
                PROVE  /\ enabled
                       /\ \A f \in topicList.blocklist : t \notin Matches[f]
                       /\ topicList.allowlist # {} =>
                            \E f \in topicList.allowlist : t \in Matches[f]
    BY DEF ForwardsOnlyAllowed
  <2>1. enabled /\ t \in allowed
    BY DEF PipeInv, TopicsInv, OnlyActiveForwards, ActiveIsAllowed
  <2>2. Admits(topicList, t)
    BY <2>1, PipeAssumption DEF allowed, AllowedBy
  <2>. QED
    BY <2>1, <2>2 DEF Admits, Matched
<1>. QED
  BY <1>1, PipeInvariant, PTL

\* While the pipe is enabled, the bridge of every known topic that is allowed is enabled,
\* but for a topic whose bridge could not be created.
THEOREM AllowedIsForwardedCorrect == Spec => []AllowedIsForwarded
<1>1. PipeInv => AllowedIsForwarded
  BY DEF PipeInv, TopicsInv, ActiveIsAllowed, ActiveForwards, Forwards, AllowedIsForwarded
<1>. QED
  BY <1>1, PipeInvariant, PTL

\* The database within a pipe is a DiscoveryDatabase: what is proved of that holds of the
\* one the pipe starts and stops.
THEOREM PipeRunsDatabase == Spec => DatabaseSpec
<1>1. Init => DatabaseInit
  BY DEF Init
<1>2. [Next]_vars => [DatabaseNext]_databaseVars
  BY NextIsDatabaseStep
<1>. QED
  BY <1>1, <1>2, PTL DEF Spec, DatabaseSpec
-----------------------------------------------------------------------------
(* Services, in a pipe that its constructor enables and nobody disables     *)

StaysEnabled == InitEnabled /\ "disable" \notin Ops /\ ~Restarts

\* stop() is for good, and the database runs only in an enabled pipe: no reload finds the
\* pipe disabled, which would leave current_services_ as it was.
StoppedForGood == exiting => ~started \/ stopper = "wake"
RunsEnabled == started => enabled

\* current_services_ is up to date, and no other service has an enabled RpcBridge.
FlagsAreAllowed == \A s \in KnownServices : flags[s] <=> s \in allowed
OnlyFlaggedAreOn == \A s \in Services : rpc[s] = "on" => s \in KnownServices /\ flags[s]

ServicesInv == StoppedForGood /\ RunsEnabled /\ FlagsAreAllowed /\ OnlyFlaggedAreOn

\* Calls of the pipe and of its database keep the pipe enabled while the database runs.
LEMMA EnabledKeeps ==
  ASSUME StaysEnabled, StoppedForGood, RunsEnabled, [Next]_vars
  PROVE  StoppedForGood' /\ RunsEnabled'
<1>. USE DEF StoppedForGood, RunsEnabled
<1>1. CASE Enable \/ Disable \/ Reload \/ Destroy
  BY <1>1 DEF StaysEnabled, Enable, Disable, Reload, Destroy, Callable, DatabaseStopped,
     databaseVars, controlVars
<1>2. CASE Callback
  <2>1. enabled' = enabled
    BY <1>2 DEF Callback, DiscoveredEndpoint, UpdatedEndpoint, RemovedEndpoint, NewTopic,
       NewWriter, NewWriterFails, NewServer, NoServer, UnusedTopic, statusVars, pipeVars
  <2>2. UNCHANGED controlVars
    BY <1>2 DEF Callback, WorkerReturn
  <2>. QED
    BY <2>1, <2>2 DEF controlVars
<1>3. CASE DatabaseStep
  <2>1. enabled' = enabled
    BY <1>3 DEF DatabaseStep, pipeVars, statusVars
  <2>2. CASE Listener \/ Signal \/ WorkerStep
    <3>1. UNCHANGED controlVars
      BY <2>2 DEF Listener, Discovered, ChangedQos, Removed, Erased, Push, Signal, WorkerStep,
         WorkerTest, WorkerSwap, WorkerDone, WorkerRefuse, WorkerReplace, WorkerApply,
         WorkerCall, WorkerNobody
    <3>. QED
      BY <2>1, <3>1 DEF controlVars
  <2>3. CASE StopStep \/ Stop
    BY <2>1, <2>3 DEF StopStep, Stop, StopClear, StopRaise, StopWake, StopJoin
  <2>4. CASE (InitEnabled => enabled) /\ Start
    BY <2>1, <2>4 DEF StaysEnabled, Start
  <2>. QED
    BY <1>3, <2>2, <2>3, <2>4 DEF DatabaseStep
<1>4. CASE UNCHANGED vars
  BY <1>4 DEF vars, databaseVars, controlVars, pipeVars, statusVars
<1>. QED
  BY <1>1, <1>2, <1>3, <1>4 DEF Next

\* A step that changes neither the services nor the lists.
LEMMA ServicesStay ==
  ASSUME FlagsAreAllowed, OnlyFlaggedAreOn, UNCHANGED <<flags, rpc, topicList>>
  PROVE  FlagsAreAllowed' /\ OnlyFlaggedAreOn'
BY DEF FlagsAreAllowed, OnlyFlaggedAreOn, KnownServices, allowed, AllowedBy, Admits

\* enable() enables the services that are flagged.
LEMMA EnableObeys ==
  ASSUME FlagsAreAllowed, OnlyFlaggedAreOn, Enable
  PROVE  FlagsAreAllowed' /\ OnlyFlaggedAreOn'
<1>1. UNCHANGED <<flags, topicList>>
  BY DEF Enable
<1>2. PICK failing \in SUBSET (Topics \cup Services) :
        EnableServices({s \in KnownServices : flags[s]}, servers, {}, failing \cap Services)
  BY DEF Enable
<1>3. OnlyFlaggedAreOn'
  BY <1>1, <1>2 DEF EnableServices, OnlyFlaggedAreOn, KnownServices
<1>. QED
  BY <1>1, <1>3 DEF FlagsAreAllowed, KnownServices, allowed, AllowedBy, Admits

\* A reload of an enabled pipe flags and enables the services that are allowed, and
\* disables the others.
LEMMA ReloadObeys ==
  ASSUME RunsEnabled, OnlyFlaggedAreOn, Reload
  PROVE  FlagsAreAllowed' /\ OnlyFlaggedAreOn'
<1>1. PICK list \in Reloads \ {topicList} :
        topicList' = list /\ (ReloadDisabled(AllowedBy(list)) \/ ReloadEnabled(AllowedBy(list)))
  BY DEF Reload
<1>. DEFINE admitted == AllowedBy(list)
<1>2. admitted = allowed' /\ ReloadEnabled(admitted)
  BY <1>1 DEF RunsEnabled, Reload, Callable, ReloadDisabled, allowed, AllowedBy, Admits
<1>. HIDE DEF admitted
<1>3. flags' = [s \in KnownServices |-> s \in admitted]
  BY <1>2 DEF ReloadEnabled
<1>4. KnownServices' = KnownServices
  BY <1>3 DEF KnownServices
<1>5. \A s \in KnownServices : flags'[s] <=> s \in admitted
  BY <1>3, FlagsFromSet
<1>6. PICK failing :
        rpc' = [s \in Services |->
          IF s \in (KnownServices \cap admitted) \ failing /\ servers[s] # {} THEN "on"
          ELSE OffServiceOnReload(s, admitted)]
  BY <1>2 DEF ReloadEnabled
<1>7. \A s \in Services : rpc'[s] = "on" => s \in KnownServices /\ s \in admitted
  BY <1>6 DEF OffServiceOnReload, Off, OnlyFlaggedAreOn
<1>. QED
  BY <1>2, <1>4, <1>5, <1>7 DEF FlagsAreAllowed, OnlyFlaggedAreOn

\* A new server flags its service if it is allowed, and enables it only then.
LEMMA NewServerObeys ==
  ASSUME FlagsAreAllowed, OnlyFlaggedAreOn, NEW s \in Services, NEW p, NEW g,
         NewServer(s, p, g)
  PROVE  FlagsAreAllowed' /\ OnlyFlaggedAreOn'
<1>1. allowed' = allowed
  BY DEF NewServer, statusVars, allowed, AllowedBy, Admits
<1>2. /\ KnownServices' = KnownServices \cup {s}
      /\ \A u \in KnownServices : flags'[u] = flags[u]
      /\ s \notin KnownServices => (flags'[s] <=> s \in allowed)
  <2>1. CASE s \in KnownServices
    BY <2>1 DEF NewServer, KnownServices
  <2>2. CASE s \notin KnownServices
    <3>1. flags' = [u \in KnownServices \cup {s} |-> IF u = s THEN s \in allowed ELSE flags[u]]
      BY <2>2 DEF NewServer, Put, KnownServices
    <3>2. KnownServices' = KnownServices \cup {s}
      BY <3>1 DEF KnownServices
    <3>3. flags'[s] = (s \in allowed)
      BY <3>1, Zenon
    <3>4. \A u \in KnownServices : flags'[u] = flags[u]
      BY <2>2, <3>1
    <3>. QED
      BY <2>2, <3>2, <3>3, <3>4
  <2>. QED
    BY <2>1, <2>2
<1>3. PICK failing, created :
        EnableServices(IF enabled /\ flags'[s] THEN {s} ELSE {}, servers', created, failing)
  BY DEF NewServer
<1>4. \A u \in Services : rpc'[u] = "on" => rpc[u] = "on" \/ (u = s /\ flags'[s])
  BY <1>3 DEF EnableServices
<1>. QED
  BY <1>1, <1>2, <1>4 DEF FlagsAreAllowed, OnlyFlaggedAreOn

\* Whatever a callback is about, no service is enabled that is not flagged.
LEMMA CallbackObeys ==
  ASSUME FlagsAreAllowed, OnlyFlaggedAreOn, Callback
  PROVE  FlagsAreAllowed' /\ OnlyFlaggedAreOn'
<1>1. ASSUME NEW s, NEW p, NEW g, NoServer(s, p, g)
      PROVE  FlagsAreAllowed' /\ OnlyFlaggedAreOn'
  <2>1. UNCHANGED <<flags, topicList>>
    BY <1>1 DEF NoServer, statusVars
  <2>2. \A u \in Services : rpc'[u] = "on" => rpc[u] = "on"
    BY <1>1 DEF NoServer, Off
  <2>. QED
    BY <2>1, <2>2 DEF FlagsAreAllowed, OnlyFlaggedAreOn, KnownServices, allowed, AllowedBy, Admits
<1>2. ASSUME NEW t, NEW p, NewTopic(t, p) \/ NewWriter(t, p) \/ NewWriterFails(t, p)
                             \/ UnusedTopic(t, p)
      PROVE  FlagsAreAllowed' /\ OnlyFlaggedAreOn'
  BY <1>2, ServicesStay DEF NewTopic, NewWriter, NewWriterFails, UnusedTopic, serviceVars,
     statusVars
<1>3. CASE UNCHANGED pipeVars
  BY <1>3, ServicesStay DEF pipeVars, serviceVars, statusVars
<1>4. ASSUME NEW g, NEW p, DiscoveredEndpoint(g, p)
      PROVE  FlagsAreAllowed' /\ OnlyFlaggedAreOn'
  BY <1>2, <1>3, <1>4, NewServerObeys DEF DiscoveredEndpoint, IsService
<1>5. ASSUME NEW g, NEW p, NEW active, RemovedEndpoint(g, p, active)
      PROVE  FlagsAreAllowed' /\ OnlyFlaggedAreOn'
  BY <1>1, <1>2, <1>3, <1>5 DEF RemovedEndpoint
<1>6. PICK op :
        \/ DiscoveredEndpoint(op.guid, op.entity.by)
        \/ UpdatedEndpoint(op.guid, op.entity.by, op.entity.active)
        \/ RemovedEndpoint(op.guid, op.entity.by, op.entity.active)
  BY DEF Callback
<1>. QED
  BY <1>3, <1>4, <1>5, <1>6 DEF UpdatedEndpoint

LEMMA ServicesStarts ==
  ASSUME Init
  PROVE  ServicesInv
<1>1. KnownServices = {}
  BY DEF Init, KnownServices
<1>2. \A s \in Services : rpc[s] # "on"
  BY DEF Init
<1>. QED
  BY <1>1, <1>2 DEF Init, DatabaseInit, ServicesInv, StoppedForGood, RunsEnabled,
     FlagsAreAllowed, OnlyFlaggedAreOn

LEMMA ServicesStepKeeps ==
  ASSUME StaysEnabled, ServicesInv, [Next]_vars
  PROVE  ServicesInv'
<1>. USE DEF ServicesInv
<1>1. CASE Destroy
  <2>1. \A s \in Services : rpc'[s] # "on"
    BY <1>1 DEF Destroy
  <2>2. UNCHANGED <<flags, topicList>>
    BY <1>1 DEF Destroy
  <2>3. FlagsAreAllowed' /\ OnlyFlaggedAreOn'
    BY <2>1, <2>2 DEF FlagsAreAllowed, OnlyFlaggedAreOn, KnownServices, allowed, AllowedBy, Admits
  <2>. QED
    BY <2>3, EnabledKeeps
<1>2. CASE Disable \/ DatabaseStep \/ UNCHANGED vars
  BY <1>2, ServicesStay, EnabledKeeps DEF Disable, DatabaseStep, pipeVars, serviceVars,
     statusVars, vars
<1>. QED
  BY <1>1, <1>2, EnabledKeeps, EnableObeys, ReloadObeys, CallbackObeys DEF Next

\* In a pipe that is enabled by its constructor and never disabled, the RpcBridge of a
\* service is enabled only while the list last loaded allows the service, both halves of it.
THEOREM ServicesObeyCorrect ==
  ASSUME StaysEnabled
  PROVE  Spec => []ServicesObeyReload
<1>1. Init => ServicesInv
  BY ServicesStarts
<1>2. ServicesInv /\ [Next]_vars => ServicesInv'
  BY ServicesStepKeeps
<1>3. ServicesInv => ServicesObeyReload
  BY DEF ServicesInv, FlagsAreAllowed, OnlyFlaggedAreOn, ServicesObeyReload
<1>. QED
  BY <1>1, <1>2, <1>3, PTL DEF Spec
-----------------------------------------------------------------------------
(* Writers with remove_unused_entities, in such a pipe                      *)

\* A topic nobody configures, that no list refuses, and whose endpoints nobody erases and
\* one participant discovers.
Steady ==
  {t \in Topics \ Builtin :
     /\ \A list \in {FirstList} \cup Reloads : t \in AllowedBy(list)
     /\ \A g \in Guids : TopicOf[g] = t => g \in Single \ Erasable}

\* The pipe stays enabled, an endpoint does not come back once it is lost, and every bridge
\* and writer can be created.
SteadyPipe == RemoveUnused /\ StaysEnabled /\ MaxFailures = 0 /\ ~Rediscovers

\* The active readers of a participant in a topic, and whether the callback at work is
\* about one of them.
ReadersIn(t, p) == {h \in Triggers : TopicOf[h] = t /\ ActiveIn(h) /\ entities[h].by = p}
WorkFor(t, p) ==
  /\ AtWork
  /\ Head(front).guid \in Triggers /\ TopicOf[Head(front).guid] = t
  /\ Head(front).entity.by = p

\* The bridge has a writer where there is a reader, but for the one at work; a topic that
\* is known has a bridge.
WritersFollow(t) ==
  \A p \in Participants :
    /\ (\E h \in ReadersIn(t, p) : ~InWork(h)) => p \in writersOf[t]
    /\ p \in writersOf[t] => ReadersIn(t, p) # {} \/ WorkFor(t, p)
KnownHasBridge(t) == bridge[t] = "none" => writersOf[t] = {} /\ t \notin KnownTopics
FollowInv == Cleared \/ \A t \in Steady : WritersFollow(t) /\ KnownHasBridge(t)

\* What the constructor and the bounds make of the rest.
RegisteredStarted == registered => started
ListGiven == topicList \in {FirstList} \cup Reloads
FailuresBounded == failures <= MaxFailures

SteadyInv ==
  /\ HistoryInv /\ TopicsInv /\ StoppedForGood /\ RunsEnabled
  /\ RegisteredStarted /\ ListGiven /\ FailuresBounded
  /\ FollowInv

\* The callbacks are registered while the database is started.
LEMMA RegisteredKeeps ==
  ASSUME DatabaseInv, RegisteredStarted, [DatabaseNext]_databaseVars
  PROVE  RegisteredStarted'
<1>. USE DEF RegisteredStarted
<1>1. CASE Listener \/ Signal \/ WorkerStep \/ WorkerReturn \/ UNCHANGED databaseVars
  <2>1. UNCHANGED controlVars
    BY <1>1 DEF Listener, Discovered, ChangedQos, Removed, Erased, Push, Signal, WorkerStep,
       WorkerReturn, WorkerTest, WorkerSwap, WorkerDone, WorkerRefuse, WorkerReplace,
       WorkerApply, WorkerCall, WorkerNobody, databaseVars
  <2>. QED
    BY <2>1 DEF controlVars
<1>2. CASE Start \/ Stop
  BY <1>2 DEF Start, Stop
<1>3. CASE StopStep
  BY <1>3 DEF StopStep, StopClear, StopRaise, StopWake, StopJoin, DatabaseInv,
     RegisteredUntilCleared
<1>. QED
  BY <1>1, <1>2, <1>3 DEF DatabaseNext

\* The list comes from a configuration, and the failures stay within their bound.
LEMMA BoundsKeep ==
  ASSUME ListGiven, FailuresBounded, [Next]_vars
  PROVE  ListGiven' /\ FailuresBounded'
<1>. USE DEF ListGiven, FailuresBounded
<1>1. CASE DatabaseStep \/ UNCHANGED vars
  BY <1>1 DEF DatabaseStep, vars, pipeVars, statusVars
<1>2. CASE Enable
  BY <1>2 DEF Enable, MayFail
<1>3. CASE Disable \/ Destroy
  BY <1>3 DEF Disable, Destroy
<1>4. CASE Reload
  BY <1>4 DEF Reload, ReloadDisabled, ReloadEnabled, MayFail
<1>5. CASE Callback
  <2>1. UNCHANGED topicList
    BY <1>5 DEF Callback, DiscoveredEndpoint, UpdatedEndpoint, RemovedEndpoint, NewTopic,
       NewWriter, NewWriterFails, NewServer, NoServer, UnusedTopic, statusVars, pipeVars
  <2>2. FailuresBounded'
    BY <1>5 DEF Callback, DiscoveredEndpoint, UpdatedEndpoint, RemovedEndpoint, NewTopic,
       NewWriter, NewWriterFails, NewServer, NoServer, UnusedTopic, pipeVars, MayFail
  <2>. QED
    BY <2>1, <2>2
<1>. QED
  BY <1>1, <1>2, <1>3, <1>4, <1>5 DEF Next

\* Within a bound of none, no creation fails.
LEMMA NoneFails ==
  ASSUME MaxFailures = 0, FailuresBounded, failures \in Nat,
         NEW failing \in SUBSET (Topics \cup Services), MayFail(failing)
  PROVE  failing = {}
<1>1. failures' \in Nat /\ (failing # {} => failures' > 0)
  BY FailuresCounted
<1>2. failures' <= MaxFailures
  BY DEF MayFail
<1>. QED
  BY <1>1, <1>2

\* A step that changes neither the writers of a topic nor what is at work.
LEMMA FollowStays ==
  ASSUME NEW t \in Topics, WritersFollow(t), KnownHasBridge(t),
         entities' = entities, AtWork' <=> AtWork, AtWork => Head(front') = Head(front),
         writersOf'[t] = writersOf[t], bridge'[t] = "none" => bridge[t] = "none",
         t \in KnownTopics' => t \in KnownTopics
  PROVE  WritersFollow(t)' /\ KnownHasBridge(t)'
<1>1. ASSUME NEW p \in Participants
      PROVE  ReadersIn(t, p)' = ReadersIn(t, p) /\ (WorkFor(t, p)' <=> WorkFor(t, p))
  BY DEF ReadersIn, WorkFor, ActiveIn, Known
<1>2. \A h : InWork(h)' <=> InWork(h)
  BY DEF InWork
<1>3. WritersFollow(t)'
  BY <1>1, <1>2 DEF WritersFollow
<1>. QED
  BY <1>3 DEF KnownHasBridge

\* enable() finds a bridge for every known topic, and creates no writer.
LEMMA EnableFollows ==
  ASSUME TopicsInv, Enable, NEW t \in Topics, WritersFollow(t), KnownHasBridge(t)
  PROVE  WritersFollow(t)' /\ KnownHasBridge(t)'
<1>1. PICK failing : Activate(KnownTopics \cap allowed, discoverer, failing)
  BY DEF Enable
<1>2. writersOf'[t] = writersOf[t] /\ (bridge'[t] = "none" => bridge[t] = "none")
  BY <1>1 DEF Activate, KnownHasBridge
<1>3. KnownTopics' = KnownTopics
  BY DEF Enable, KnownTopics
<1>4. entities' = entities /\ front' = front /\ worker' = worker
  BY DEF Enable, databaseVars, queueVars
<1>. QED
  BY <1>2, <1>3, <1>4, FollowStays DEF AtWork

\* Nor does a reload: the topics it activates are known.
LEMMA ReloadFollows ==
  ASSUME TopicsInv, Reload, NEW t \in Topics, WritersFollow(t), KnownHasBridge(t)
  PROVE  WritersFollow(t)' /\ KnownHasBridge(t)'
<1>1. entities' = entities /\ front' = front /\ worker' = worker
  BY DEF Reload, databaseVars, queueVars
<1>2. PICK admitted : ReloadDisabled(admitted) \/ ReloadEnabled(admitted)
  BY DEF Reload
<1>3. CASE ReloadDisabled(admitted)
  BY <1>1, <1>3, FollowStays DEF ReloadDisabled, topicVars, KnownTopics, AtWork
<1>4. CASE ReloadEnabled(admitted)
  <2>1. KnownTopics' = KnownTopics
    BY <1>4 DEF ReloadEnabled, KnownTopics
  <2>2. PICK failing :
          /\ bridge' = [u \in Topics |->
               IF u \in {v \in KnownTopics \cap admitted : ~current[v]} \ failing THEN "on"
               ELSE OffOnReload(u, admitted)]
          /\ writersOf' = [u \in Topics |->
               IF /\ u \in {v \in KnownTopics \cap admitted : ~current[v]} \ failing
                  /\ bridge[u] = "none"
               THEN FirstWriters(discoverer[u]) ELSE writersOf[u]]
    BY <1>4 DEF ReloadEnabled
  <2>3. writersOf'[t] = writersOf[t]
    BY <2>2 DEF KnownHasBridge
  <2>4. bridge'[t] = "none" => bridge[t] = "none"
    BY <2>2 DEF OffOnReload, Off
  <2>. QED
    BY <1>1, <2>1, <2>3, <2>4, FollowStays DEF AtWork
<1>. QED
  BY <1>2, <1>3, <1>4

\* The database changes before the callback that reports the change is called.
LEMMA ApplyFollows ==
  ASSUME HistoryInv, WorkerApply, UNCHANGED pipeVars,
         NEW t \in Steady, WritersFollow(t), KnownHasBridge(t)
  PROVE  WritersFollow(t)' /\ KnownHasBridge(t)'
<1> DEFINE op == Head(front)
<1>1. /\ worker = "loop" /\ front # <<>> /\ entities' = Applied(op) /\ front' = front
      /\ ~AtWork /\ AtWork'
  BY DEF WorkerApply, AtWork, queueVars
<1>2. op \in Operation /\ Proper(op)
  BY <1>1, HeadSensible DEF HistoryInv, ProperInv
<1>3. UNCHANGED <<writersOf, bridge, current>>
  BY DEF pipeVars, topicVars
<1>4. \A g : g # op.guid =>
        /\ g \in DOMAIN entities' <=> g \in DOMAIN entities
        /\ g \in DOMAIN entities => entities'[g] = entities[g]
  BY <1>1, <1>2, AppliedOne
<1>5. ASSUME NEW p \in Participants, NEW h, h # op.guid
      PROVE  h \in ReadersIn(t, p)' <=> h \in ReadersIn(t, p)
  BY <1>4, <1>5 DEF ReadersIn, ActiveIn, Known
<1>6. ASSUME NEW p \in Participants, NEW h \in ReadersIn(t, p)', ~InWork(h)'
      PROVE  p \in writersOf'[t]
  <2>1. h # op.guid
    BY <1>1, <1>6 DEF InWork
  <2>2. h \in ReadersIn(t, p) /\ ~InWork(h)
    BY <1>1, <1>5, <1>6, <2>1 DEF InWork
  <2>. QED
    BY <1>3, <2>2 DEF WritersFollow
<1>7. ASSUME NEW p \in Participants, p \in writersOf'[t]
      PROVE  ReadersIn(t, p)' # {} \/ WorkFor(t, p)'
  <2>1. PICK h : h \in ReadersIn(t, p)
    BY <1>1, <1>3, <1>7 DEF WritersFollow, WorkFor
  <2>2. CASE h # op.guid
    BY <1>5, <2>1, <2>2
  <2>3. CASE h = op.guid
    <3>1. <<p, h>> \in Sees /\ <<op.entity.by, h>> \in Sees
      BY <1>2, <2>1, <2>3 DEF ReadersIn, ActiveIn, Known, HistoryInv, ProperInv, Proper
    <3>2. op.entity.by \in Participants /\ h \in Single
      BY <1>2, <2>1, <2>3 DEF ReadersIn, Steady, Operation, Entity
    <3>3. op.entity.by = p
      BY <3>1, <3>2 DEF Single
    <3>. QED
      BY <1>1, <2>1, <2>3, <3>3 DEF ReadersIn, WorkFor
  <2>. QED
    BY <2>2, <2>3
<1>8. WritersFollow(t)'
  BY <1>6, <1>7 DEF WritersFollow
<1>. QED
  BY <1>3, <1>8 DEF KnownHasBridge, KnownTopics

\* What it replaces in silence is an endpoint of another topic.
LEMMA ReplaceFollows ==
  ASSUME HistoryInv, WorkerReplace, UNCHANGED pipeVars,
         NEW t \in Steady, WritersFollow(t), KnownHasBridge(t)
  PROVE  WritersFollow(t)' /\ KnownHasBridge(t)'
<1> DEFINE op == Head(front)
<1>1. entities' = Applied(op) /\ ~AtWork /\ ~AtWork'
  BY DEF WorkerReplace, AtWork
<1>2. op \in Operation /\ op.guid \in Guids /\ TopicOf[op.guid] # t
  BY NotReplaced DEF HistoryInv, Operation, Steady
<1>3. UNCHANGED <<writersOf, bridge, current>>
  BY DEF pipeVars, topicVars
<1>4. \A g : g # op.guid =>
        /\ g \in DOMAIN entities' <=> g \in DOMAIN entities
        /\ g \in DOMAIN entities => entities'[g] = entities[g]
  BY <1>1, <1>2, AppliedOne
<1>5. ASSUME NEW p \in Participants
      PROVE  ReadersIn(t, p)' = ReadersIn(t, p)
  BY <1>2, <1>4 DEF ReadersIn, ActiveIn, Known
<1>6. WritersFollow(t)'
  BY <1>1, <1>3, <1>5 DEF WritersFollow, InWork, WorkFor
<1>. QED
  BY <1>3, <1>6 DEF KnownHasBridge, KnownTopics

\* The database works on what its callbacks do not see, or starts or stops.
LEMMA DatabaseFollows ==
  ASSUME HistoryInv, DatabaseStep \/ UNCHANGED vars, ~Cleared',
         NEW t \in Steady, WritersFollow(t), KnownHasBridge(t)
  PROVE  WritersFollow(t)' /\ KnownHasBridge(t)'
<1>1. UNCHANGED pipeVars
  BY DEF DatabaseStep, vars
<1>2. UNCHANGED <<writersOf, bridge>> /\ KnownTopics' = KnownTopics
  BY <1>1 DEF pipeVars, topicVars, KnownTopics
<1>3. ASSUME entities' = entities, AtWork' <=> AtWork, AtWork => front' = front
      PROVE  WritersFollow(t)' /\ KnownHasBridge(t)'
  BY <1>2, <1>3, FollowStays DEF Steady
<1>4. CASE Listener
  <2>1. UNCHANGED <<entities, front, worker>>
    BY <1>4, PushIsProper DEF HistoryInv
  <2>. QED
    BY <1>3, <2>1 DEF AtWork
<1>5. CASE Signal \/ WorkerTest \/ WorkerSwap \/ WorkerDone \/ WorkerRefuse \/ WorkerCall
  BY <1>3, <1>5 DEF Signal, NotifyOne, WorkerTest, WorkerSwap, WorkerDone, WorkerRefuse,
     WorkerCall, queueVars, AtWork
<1>6. CASE WorkerReplace
  BY <1>1, <1>6, ReplaceFollows
<1>7. CASE WorkerApply
  BY <1>1, <1>7, ApplyFollows
<1>8. CASE WorkerNobody
  BY <1>8 DEF WorkerNobody, controlVars, Cleared, HistoryInv, ControlInv, RunsRegistered
<1>9. CASE Start \/ Stop \/ StopStep
  BY <1>3, <1>9 DEF HistoryInv, JoinedBeforeStart, AtWork, Start, Stop, StopStep, StopClear,
     StopRaise, StopWake, StopJoin, NotifyOne, queueVars
<1>10. CASE UNCHANGED vars
  BY <1>3, <1>10 DEF vars, databaseVars, queueVars, AtWork
<1>. QED
  BY <1>4, <1>5, <1>6, <1>7, <1>8, <1>9, <1>10 DEF DatabaseStep, WorkerStep

\* A callback about endpoint g of participant p.
CallsAbout(g, p) ==
  /\ worker = "calling" /\ front # <<>>
  /\ g = Head(front).guid /\ p = Head(front).entity.by
  /\ entities' = entities /\ worker' = "loop"

\* The callback settles its topic if it leaves a writer where there is a reader of p, or if
\* the endpoint is none, and leaves the writers of other participants and topics alone.
LEMMA CallbackSettles ==
  ASSUME HistoryInv, NEW g \in Guids, NEW p \in Participants, CallsAbout(g, p),
         NEW t \in Steady, WritersFollow(t),
         \A q \in Participants :
           t # TopicOf[g] \/ q # p \/ g \notin Triggers =>
             (q \in writersOf'[t] <=> q \in writersOf[t]),
         t = TopicOf[g] /\ g \in Triggers => (p \in writersOf'[t] <=> ReadersIn(t, p) # {})
  PROVE  WritersFollow(t)'
<1>1. Proper(Head(front)) /\ <<p, g>> \in Sees
  <2>1. Head(front) = front[1] /\ 1 \in 1..Len(front)
    BY DEF HistoryInv, DatabaseInv, DatabaseTypeOK, CallsAbout
  <2>. QED
    BY <2>1 DEF HistoryInv, ProperInv, Proper, CallsAbout
<1>2. ASSUME NEW q \in Participants
      PROVE  ReadersIn(t, q)' = ReadersIn(t, q)
  BY DEF ReadersIn, ActiveIn, Known, CallsAbout
<1>3. ~AtWork'
  BY DEF AtWork, CallsAbout
<1>4. ASSUME NEW q \in Participants
      PROVE  q \in writersOf'[t] <=> ReadersIn(t, q) # {}
  <2>1. CASE t = TopicOf[g] /\ g \in Triggers /\ q = p
    BY <2>1
  <2>2. CASE ~(t = TopicOf[g] /\ g \in Triggers /\ q = p)
    <3>1. g \notin ReadersIn(t, q)
      <4>. SUFFICES ASSUME g \in ReadersIn(t, q)
                    PROVE  FALSE
        OBVIOUS
      <4>1. <<q, g>> \in Sees
        BY DEF ReadersIn, ActiveIn, Known, HistoryInv, ProperInv
      <4>2. q = p
        BY <1>1, <4>1 DEF ReadersIn, Steady, Single
      <4>. QED
        BY <2>2, <4>2 DEF ReadersIn
    <3>2. ~WorkFor(t, q)
      BY <2>2 DEF WorkFor, CallsAbout
    <3>3. \A h \in ReadersIn(t, q) : ~InWork(h)
      BY <3>1 DEF InWork, CallsAbout
    <3>4. q \in writersOf[t] <=> ReadersIn(t, q) # {}
      BY <3>2, <3>3 DEF WritersFollow
    <3>5. q \in writersOf'[t] <=> q \in writersOf[t]
      BY <2>2
    <3>. QED
      BY <3>4, <3>5
  <2>. QED
    BY <2>1, <2>2
<1>. QED
  BY <1>2, <1>3, <1>4 DEF WritersFollow, InWork

\* The endpoint at work is active if the operation says so, and it is its participant's.
LEMMA WorkReaders ==
  ASSUME HistoryInv, NEW g \in Guids, NEW p \in Participants, CallsAbout(g, p),
         g \in Triggers, NEW t \in Steady, t = TopicOf[g], WritersFollow(t)
  PROVE  /\ Alike(g, p) = ReadersIn(t, p)
         /\ g \in ReadersIn(t, p) <=> Saying(Head(front))
         /\ (\E h \in ReadersIn(t, p) : h # g) => p \in writersOf[t]
<1>1. Alike(g, p) = ReadersIn(t, p)
  BY DEF Alike, ReadersIn
<1>2. Head(front) = front[1] /\ 1 \in 1..Len(front)
  BY DEF HistoryInv, DatabaseInv, DatabaseTypeOK, CallsAbout
<1>3. <<p, g>> \in Sees
  BY <1>2 DEF HistoryInv, ProperInv, Proper, CallsAbout
<1>4. Known(g) => entities[g].by = p
  <2>1. Known(g) => <<entities[g].by, g>> \in Sees /\ entities[g].by \in Participants
    BY DEF HistoryInv, ProperInv, DatabaseInv, DatabaseTypeOK, Known, Entity
  <2>. QED
    BY <1>3, <2>1 DEF Steady, Single
<1>5. g \in ActiveGuids <=> Saying(Head(front))
  BY DEF HistoryInv, ToldInv, WorkIsDone, AtWork, CallsAbout
<1>6. g \in ReadersIn(t, p) <=> Saying(Head(front))
  BY <1>4, <1>5 DEF ReadersIn, ActiveIn, Known, ActiveGuids
<1>7. (\E h \in ReadersIn(t, p) : h # g) => p \in writersOf[t]
  BY DEF WritersFollow, InWork, CallsAbout
<1>. QED
  BY <1>1, <1>6, <1>7

\* A callback that does nothing finds the writer there, or no reader of its own.
LEMMA NothingFollows ==
  ASSUME HistoryInv, NEW g \in Guids, NEW p \in Participants, CallsAbout(g, p),
         UNCHANGED pipeVars,
         NEW t \in Steady, WritersFollow(t), KnownHasBridge(t),
         t = TopicOf[g] /\ g \in Triggers => ~IsRelevant(g, p, Saying(Head(front)))
  PROVE  WritersFollow(t)' /\ KnownHasBridge(t)'
<1>1. writersOf' = writersOf /\ bridge' = bridge /\ KnownTopics' = KnownTopics
  BY DEF pipeVars, topicVars, KnownTopics
<1>2. ASSUME t = TopicOf[g], g \in Triggers
      PROVE  p \in writersOf[t] <=> ReadersIn(t, p) # {}
  <2>1. /\ Alike(g, p) = ReadersIn(t, p)
        /\ g \in ReadersIn(t, p) <=> Saying(Head(front))
        /\ (\E h \in ReadersIn(t, p) : h # g) => p \in writersOf[t]
    BY <1>2, WorkReaders
  <2>2. \E h \in ReadersIn(t, p) : h # g
    BY <1>2, <2>1 DEF IsRelevant
  <2>. QED
    BY <2>1, <2>2
<1>3. WritersFollow(t)'
  BY <1>1, <1>2, CallbackSettles
<1>. QED
  BY <1>1, <1>3 DEF KnownHasBridge

\* Whatever a callback does, it leaves the topics it is not about alone.
LEMMA OthersFollow ==
  ASSUME HistoryInv, TopicsInv,
         NEW g \in Guids, NEW p \in Participants, CallsAbout(g, p), NEW active,
         DiscoveredEndpoint(g, p) \/ RemovedEndpoint(g, p, active) \/ UNCHANGED pipeVars,
         NEW t \in Steady, t # TopicOf[g], WritersFollow(t), KnownHasBridge(t)
  PROVE  WritersFollow(t)' /\ KnownHasBridge(t)'
<1>. DEFINE u == TopicOf[g]
            Alone == /\ writersOf'[t] = writersOf[t] /\ bridge'[t] = bridge[t]
                     /\ t \in KnownTopics' => t \in KnownTopics
<1>1. ASSUME UNCHANGED topicVars PROVE Alone
  BY <1>1 DEF topicVars, KnownTopics
<1>2. ASSUME NewTopic(u, p) PROVE Alone
  <2>1. t \in KnownTopics' => t \in KnownTopics
    <3>1. \A b : DOMAIN Put(current, u, b) = KnownTopics \cup {u}
      BY DEF Put, KnownTopics
    <3>2. current' \in {current, Put(current, u, TRUE), Put(current, u, FALSE)}
      BY <1>2 DEF NewTopic
    <3>3. DOMAIN current' \subseteq DOMAIN current \cup {u}
      BY <3>1, <3>2 DEF KnownTopics
    <3>. QED
      BY <3>3 DEF KnownTopics
  <2>2. writersOf'[t] = writersOf[t] /\ bridge'[t] = bridge[t]
    BY <1>2 DEF NewTopic, Activate, Steady
  <2>. QED
    BY <2>1, <2>2
<1>3. ASSUME NewWriter(u, p) \/ UnusedTopic(u, p) PROVE Alone
  <2>1. bridge' = bridge /\ KnownTopics' = KnownTopics
    BY <1>3 DEF NewWriter, UnusedTopic, KnownTopics
  <2>2. writersOf'[t] = writersOf[t]
    BY <1>3 DEF NewWriter, UnusedTopic, DropWriter, TopicsInv, PipeTypeOK, Steady
  <2>. QED
    BY <2>1, <2>2
<1>4. ASSUME NewWriterFails(u, p) PROVE Alone
  BY <1>1, <1>4 DEF NewWriterFails
<1>5. ASSUME NewServer(u, p, g) \/ NoServer(u, p, g) \/ UNCHANGED pipeVars PROVE Alone
  BY <1>1, <1>5 DEF NewServer, NoServer, pipeVars
<1>6. Alone
  BY <1>2, <1>3, <1>4, <1>5 DEF DiscoveredEndpoint, RemovedEndpoint
<1>7. WritersFollow(t)'
  BY <1>6, CallbackSettles
<1>. QED
  BY <1>6, <1>7 DEF KnownHasBridge

\* discovered_topic_nts_ gives a topic that has no bridge one, with the writer of the
\* participant alone.
LEMMA NewTopicFollows ==
  ASSUME SteadyPipe, SteadyInv, enabled,
         NEW g \in Guids, NEW p \in Participants, CallsAbout(g, p), Saying(Head(front)),
         g \in Triggers,
         NEW t \in Steady, t = TopicOf[g], WritersFollow(t), KnownHasBridge(t), NewTopic(t, p)
  PROVE  WritersFollow(t)' /\ KnownHasBridge(t)'
<1>1. HistoryInv /\ TopicsInv /\ t \in Topics
  BY DEF SteadyInv, Steady
<1>2. t \in allowed
  BY DEF SteadyInv, ListGiven, Steady, allowed, AllowedBy, Admits
<1>3. PICK failing \in SUBSET {t} : Activate({t}, [v \in {t} |-> p], failing) /\ MayFail(failing)
  BY <1>2 DEF NewTopic
<1>4. failing = {}
  BY <1>1, <1>3, NoneFails DEF SteadyPipe, SteadyInv, TopicsInv, PipeTypeOK
<1>5. bridge[t] = "none" /\ writersOf[t] = {}
  BY DEF NewTopic, KnownHasBridge
<1>6. bridge'[t] = "on" /\ writersOf'[t] = FirstWriters(p)
  BY <1>1, <1>3, <1>4, <1>5 DEF Activate
<1>7. FirstWriters(p) = {p}
  BY PipeAssumption DEF FirstWriters, SteadyPipe
<1>8. p \in writersOf'[t] <=> ReadersIn(t, p) # {}
  BY <1>1, <1>6, <1>7, WorkReaders
<1>9. WritersFollow(t)'
  BY <1>1, <1>5, <1>6, <1>7, <1>8, CallbackSettles
<1>. QED
  BY <1>6, <1>9 DEF KnownHasBridge

\* Where there is a bridge, the participant has a writer of its own created ...
LEMMA NewWriterFollows ==
  ASSUME SteadyPipe, SteadyInv,
         NEW g \in Guids, NEW p \in Participants, CallsAbout(g, p), Saying(Head(front)),
         g \in Triggers,
         NEW t \in Steady, t = TopicOf[g], WritersFollow(t), NewWriter(t, p)
  PROVE  WritersFollow(t)' /\ KnownHasBridge(t)'
<1>1. HistoryInv /\ TopicsInv /\ t \in Topics
  BY DEF SteadyInv, Steady
<1>2. writersOf'[t] = writersOf[t] \cup {p} /\ bridge' = bridge /\ bridge[t] # "none"
  BY <1>1 DEF NewWriter, TopicsInv, PipeTypeOK
<1>3. p \in writersOf'[t] <=> ReadersIn(t, p) # {}
  BY <1>1, <1>2, WorkReaders
<1>4. WritersFollow(t)'
  BY <1>1, <1>2, <1>3, CallbackSettles
<1>. QED
  BY <1>2, <1>4 DEF KnownHasBridge

\* ... and removed when its last reader has left.
LEMMA UnusedFollows ==
  ASSUME SteadyPipe, SteadyInv,
         NEW g \in Guids, NEW p \in Participants, CallsAbout(g, p), ~Saying(Head(front)),
         IsRelevant(g, p, FALSE),
         NEW t \in Steady, t = TopicOf[g], WritersFollow(t), KnownHasBridge(t), UnusedTopic(t, p)
  PROVE  WritersFollow(t)' /\ KnownHasBridge(t)'
<1>1. HistoryInv /\ TopicsInv /\ t \in Topics /\ g \in Triggers
  BY DEF SteadyPipe, SteadyInv, Steady, IsRelevant
<1>2. UNCHANGED <<current, bridge>>
  BY DEF UnusedTopic
<1>3. writersOf'[t] = writersOf[t] \ {p}
  BY <1>1 DEF UnusedTopic, DropWriter, KnownHasBridge, TopicsInv, PipeTypeOK
<1>4. ReadersIn(t, p) = {}
  <2>1. Alike(g, p) = ReadersIn(t, p)
    BY <1>1, WorkReaders
  <2>. QED
    BY <2>1 DEF IsRelevant
<1>5. WritersFollow(t)'
  BY <1>1, <1>3, <1>4, CallbackSettles
<1>. QED
  BY <1>2, <1>3, <1>5 DEF KnownHasBridge, KnownTopics

\* A callback leaves a writer in the participants that have a reader in its topic.
LEMMA DiscoveredFollows ==
  ASSUME SteadyPipe, SteadyInv, enabled,
         NEW g \in Guids, NEW p \in Participants, CallsAbout(g, p), Saying(Head(front)),
         DiscoveredEndpoint(g, p),
         NEW t \in Steady, t = TopicOf[g], WritersFollow(t), KnownHasBridge(t)
  PROVE  WritersFollow(t)' /\ KnownHasBridge(t)'
<1>1. HistoryInv /\ t \in Topics
  BY DEF SteadyInv, Steady
<1>2. ~IsService(g)
  BY <1>1, PipeAssumption DEF IsService
<1>3. CASE ~IsRelevant(g, p, TRUE)
  <2>1. UNCHANGED pipeVars
    BY <1>2, <1>3 DEF DiscoveredEndpoint
  <2>2. ~IsRelevant(g, p, Saying(Head(front)))
    BY <1>3 DEF IsRelevant
  <2>. QED
    BY <1>1, <2>1, <2>2, NothingFollows
<1>4. CASE IsRelevant(g, p, TRUE)
  <2>1. g \in Triggers /\ RemoveUnused
    BY <1>4 DEF IsRelevant, SteadyPipe
  <2>2. ~NewWriterFails(t, p)
    <3>1. failures \in Nat /\ Cardinality({p}) = 1
      BY FS_Singleton DEF SteadyInv, TopicsInv, PipeTypeOK
    <3>2. NewWriterFails(t, p) => failures + 1 <= 0
      BY <3>1 DEF NewWriterFails, MayFail, SteadyPipe
    <3>. QED
      BY <3>1, <3>2
  <2>3. NewTopic(t, p) \/ NewWriter(t, p)
    BY <1>2, <1>4, <2>1, <2>2 DEF DiscoveredEndpoint
  <2>. QED
    BY <2>1, <2>3, NewTopicFollows, NewWriterFollows
<1>. QED
  BY <1>3, <1>4

LEMMA RemovedFollows ==
  ASSUME SteadyPipe, SteadyInv,
         NEW g \in Guids, NEW p \in Participants, CallsAbout(g, p), ~Saying(Head(front)),
         RemovedEndpoint(g, p, FALSE),
         NEW t \in Steady, t = TopicOf[g], WritersFollow(t), KnownHasBridge(t)
  PROVE  WritersFollow(t)' /\ KnownHasBridge(t)'
<1>1. HistoryInv /\ t \in Topics /\ RemoveUnused
  BY DEF SteadyPipe, SteadyInv, Steady
<1>2. ~IsService(g)
  BY <1>1, PipeAssumption DEF IsService
<1>3. CASE ~IsRelevant(g, p, FALSE)
  <2>1. UNCHANGED pipeVars
    BY <1>2, <1>3 DEF RemovedEndpoint
  <2>2. ~IsRelevant(g, p, Saying(Head(front)))
    BY <1>3 DEF IsRelevant
  <2>. QED
    BY <1>1, <2>1, <2>2, NothingFollows
<1>4. CASE IsRelevant(g, p, FALSE)
  <2>1. UnusedTopic(t, p)
    BY <1>1, <1>2, <1>4 DEF RemovedEndpoint
  <2>. QED
    BY <1>4, <2>1, UnusedFollows
<1>. QED
  BY <1>3, <1>4

\* Every callback of a running pipe settles the topic it is about.
LEMMA CallbackFollows ==
  ASSUME SteadyPipe, SteadyInv, Callback, NEW t \in Steady, WritersFollow(t), KnownHasBridge(t)
  PROVE  WritersFollow(t)' /\ KnownHasBridge(t)'
<1> DEFINE op == Head(front)
           g == op.guid
           p == op.entity.by
<1>1. HistoryInv /\ TopicsInv /\ t \in Topics
  BY DEF SteadyInv, Steady
<1>2. worker = "calling" /\ front # <<>> /\ UNCHANGED entities /\ worker' = "loop"
  BY <1>1 DEF Callback, WorkerReturn, HistoryInv, DatabaseInv, AtWorkHasItem
<1>3. CallsAbout(g, p)
  BY <1>2 DEF CallsAbout
<1>4. op \in Operation /\ Proper(op)
  <2>1. op \in Operation /\ op = front[1] /\ 1 \in 1..Len(front)
    BY <1>1, <1>2 DEF HistoryInv, DatabaseInv, DatabaseTypeOK
  <2>. QED
    BY <1>1, <2>1 DEF HistoryInv, ProperInv
<1>5. enabled
  BY <1>2 DEF SteadyInv, HistoryInv, DatabaseInv, CallsWhileRegistered, RegisteredStarted,
     RunsEnabled
<1>6. g \in Guids /\ p \in Participants /\ op.entity.active \in BOOLEAN
  BY <1>4 DEF Operation, Entity
<1>7. \/ op.kind = "add" /\ DiscoveredEndpoint(g, p)
      \/ op.kind = "update" /\ UpdatedEndpoint(g, p, op.entity.active)
      \/ op.kind = "erase" /\ RemovedEndpoint(g, p, op.entity.active)
  BY DEF Callback
<1>8. CASE t # TopicOf[g]
  <2>1. \/ DiscoveredEndpoint(g, p) \/ RemovedEndpoint(g, p, op.entity.active)
        \/ UNCHANGED pipeVars
    BY <1>7 DEF UpdatedEndpoint
  <2>. HIDE DEF g, p, op
  <2>. QED
    BY <1>1, <1>3, <1>6, <1>8, <2>1, OthersFollow
<1>9. CASE t = TopicOf[g]
  <2>1. op.kind # "erase" /\ ~IsService(g)
    BY <1>1, <1>4, <1>6, <1>9, PipeAssumption DEF Proper, Steady, IsService
  <2>2. CASE op.entity.active
    <3>1. DiscoveredEndpoint(g, p) /\ Saying(op)
      BY <1>7, <2>1, <2>2 DEF UpdatedEndpoint, Saying
    <3>. HIDE DEF g, p
    <3>. QED
      BY <1>3, <1>5, <1>6, <1>9, <3>1, DiscoveredFollows
  <2>3. CASE ~op.entity.active
    <3>1. RemovedEndpoint(g, p, op.entity.active) /\ op.entity.active = FALSE /\ ~Saying(op)
      BY <1>4, <1>6, <1>7, <2>1, <2>3 DEF UpdatedEndpoint, Saying, Proper
    <3>. HIDE DEF g, p
    <3>. QED
      BY <1>3, <1>6, <1>9, <3>1, RemovedFollows
  <2>. QED
    BY <2>2, <2>3
<1>. QED
  BY <1>8, <1>9

LEMMA SteadyStarts ==
  ASSUME Init
  PROVE  SteadyInv
<1>1. HistoryInv
  BY HistoryStarts DEF Init
<1>2. TopicsInv /\ ServicesInv
  BY PipeStarts, ServicesStarts DEF PipeInv
<1>3. PICK failing \in SUBSET Builtin :
        /\ Cardinality(failing) <= MaxFailures /\ failures = Cardinality(failing)
        /\ bridge = [t \in Topics |-> IF t \in Builtin \ failing THEN "off" ELSE "none"]
        /\ writersOf = [t \in Topics |-> IF t \in Builtin \ failing THEN Participants ELSE {}]
  BY DEF Init
<1>4. ASSUME NEW t \in Steady
      PROVE  WritersFollow(t) /\ KnownHasBridge(t)
  <2>1. t \in Topics /\ t \notin Builtin
    BY DEF Steady
  <2>2. writersOf[t] = {} /\ t \notin KnownTopics /\ DOMAIN entities = {}
    BY <1>3, <2>1 DEF Init, DatabaseInit, KnownTopics
  <2>. QED
    BY <2>2 DEF WritersFollow, KnownHasBridge, ReadersIn, ActiveIn, Known
<1>5. RegisteredStarted /\ ListGiven /\ FailuresBounded
  BY <1>3 DEF Init, DatabaseInit, RegisteredStarted, ListGiven, FailuresBounded
<1>. QED
  BY <1>1, <1>2, <1>4, <1>5 DEF SteadyInv, ServicesInv, FollowInv

\* Nobody undoes what clear_all_callbacks() has done.
LEMMA ClearedStays ==
  ASSUME ControlInv, ~Restarts, Cleared, [DatabaseNext]_databaseVars
  PROVE  Cleared'
<1>. USE DEF Cleared
<1>1. CASE Listener \/ Signal \/ WorkerStep \/ WorkerReturn \/ UNCHANGED databaseVars
  <2>1. UNCHANGED controlVars
    BY <1>1 DEF Listener, Discovered, ChangedQos, Removed, Erased, Push, Signal, WorkerStep,
       WorkerReturn, WorkerTest, WorkerSwap, WorkerDone, WorkerRefuse, WorkerReplace,
       WorkerApply, WorkerCall, WorkerNobody, databaseVars
  <2>. QED
    BY <2>1 DEF controlVars
<1>2. CASE Start \/ Stop \/ StopStep
  BY <1>2 DEF Start, Stop, StopStep, StopClear, StopRaise, StopWake, StopJoin, ControlInv,
     ClearedForGood
<1>. QED
  BY <1>1, <1>2 DEF DatabaseNext

LEMMA SteadyKeeps ==
  ASSUME SteadyPipe, SteadyInv, [Next]_vars
  PROVE  SteadyInv'
<1>1. /\ HistoryInv /\ TopicsInv /\ StoppedForGood /\ RunsEnabled
      /\ RegisteredStarted /\ ListGiven /\ FailuresBounded /\ ControlInv
  BY DEF SteadyInv, HistoryInv
<1>2. StaysEnabled /\ ~Rediscovers /\ ~Restarts
  BY DEF SteadyPipe, StaysEnabled
<1>3. [DatabaseNext]_databaseVars
  BY NextIsDatabaseStep
<1>4. HistoryInv'
  BY <1>1, <1>2, <1>3, HistoryKeeps
<1>5. TopicsInv'
  BY <1>1, PipeStepKeeps DEF PipeInv, HistoryInv
<1>6. StoppedForGood' /\ RunsEnabled'
  BY <1>1, <1>2, EnabledKeeps
<1>7. RegisteredStarted'
  BY <1>1, <1>3, RegisteredKeeps DEF HistoryInv
<1>8. ListGiven' /\ FailuresBounded'
  BY <1>1, BoundsKeep
<1>9. FollowInv'
  <2>. SUFFICES ASSUME ~Cleared', NEW t \in Steady
                PROVE  WritersFollow(t)' /\ KnownHasBridge(t)'
    BY DEF FollowInv
  <2>1. ~Cleared
    BY <1>1, <1>2, <1>3, ClearedStays
  <2>2. WritersFollow(t) /\ KnownHasBridge(t) /\ t \in Topics
    BY <2>1 DEF SteadyInv, FollowInv, Steady
  <2>3. CASE DatabaseStep \/ UNCHANGED vars
    BY <1>1, <1>2, <2>2, <2>3, DatabaseFollows
  <2>4. CASE Callback
    BY <2>2, <2>4, CallbackFollows
  <2>5. CASE Enable
    BY <1>1, <2>2, <2>5, EnableFollows
  <2>6. CASE Disable
    BY <1>2, <2>6 DEF Disable, Callable, StaysEnabled
  <2>7. CASE Reload
    BY <1>1, <2>2, <2>7, ReloadFollows
  <2>8. CASE Destroy
    BY <2>1, <2>8 DEF Destroy, DatabaseStopped, Cleared
  <2>. QED
    BY <2>3, <2>4, <2>5, <2>6, <2>7, <2>8 DEF Next
<1>. QED
  BY <1>4, <1>5, <1>6, <1>7, <1>8, <1>9 DEF SteadyInv

\* The participants whose writers a bridge should have.
ReadingParticipants(t) ==
  {p \in Participants : \E g \in Triggers : TopicOf[g] = t /\ ActiveIn(g) /\ entities[g].by = p}

LEMMA SteadyIn ==
  ASSUME SteadyInv, registered, Settled, NEW t \in Steady
  PROVE  writersOf[t] = ReadingParticipants(t)
<1>1. ~Cleared /\ ~AtWork
  BY DEF SteadyInv, HistoryInv, ControlInv, RegisteredMeansOpen, DatabaseInv,
     RegisteredUntilCleared, Cleared, Settled, AtWork
<1>2. \A p \in Participants : p \in writersOf[t] <=> ReadersIn(t, p) # {}
  BY <1>1 DEF SteadyInv, FollowInv, WritersFollow, InWork, WorkFor
<1>3. writersOf[t] \subseteq Participants
  BY DEF SteadyInv, TopicsInv, PipeTypeOK, Steady
<1>4. \A p \in Participants : p \in ReadingParticipants(t) <=> ReadersIn(t, p) # {}
  BY DEF ReadingParticipants, ReadersIn
<1>. QED
  BY <1>2, <1>3, <1>4 DEF ReadingParticipants

\* With remove_unused_entities, in a pipe that stays enabled, whatever other topics go
\* through: once the discoveries are worked off, a topic that is steady has writers in
\* exactly the participants that have an active reader in it.
THEOREM SteadyWritersCorrect ==
  ASSUME SteadyPipe
  PROVE  Spec => [](registered /\ Settled =>
                      \A t \in Steady : writersOf[t] = ReadingParticipants(t))
<1>1. Init => SteadyInv
  BY SteadyStarts
<1>2. SteadyInv /\ [Next]_vars => SteadyInv'
  BY SteadyKeeps
<1>3. SteadyInv =>
        (registered /\ Settled => \A t \in Steady : writersOf[t] = ReadingParticipants(t))
  BY SteadyIn
<1>. QED
  BY <1>1, <1>2, <1>3, PTL DEF Spec

\* The same of every topic, where all are steady: no discovery, loss, change of QoS or
\* reload, in whatever order the callbacks are called, leaves a bridge without the writer of
\* a reader, or with the writer of none.
THEOREM WritersWhereReadersCorrect ==
  ASSUME SteadyPipe, Steady = Topics
  PROVE  Spec => []WritersWhereReaders
<1>1. (registered /\ Settled => \A t \in Steady : writersOf[t] = ReadingParticipants(t))
      => WritersWhereReaders
  BY DEF WritersWhereReaders, ReadingParticipants
<1>. QED
  BY <1>1, SteadyWritersCorrect, PTL
=============================================================================
