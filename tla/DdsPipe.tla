------------------------------ MODULE DdsPipe ------------------------------
(***************************************************************************)
(* The DdsPipe: it listens to the DiscoveryDatabase, which this module     *)
(* extends, and keeps a DdsBridge per topic and an RpcBridge per service,  *)
(* enabled or not according to its own state and to the allowed topics.    *)
(*                                                                         *)
(* mutex_ is held for the whole of every operation of the pipe and of      *)
(* every callback of the database, so each is one step here; what the      *)
(* tracks of a bridge do meanwhile is the business of Track and DdsBridge. *)
(***************************************************************************)
EXTENDS DiscoveryDatabase, FiniteSets

CONSTANTS
  Topics,        \* DDS topics
  Services,      \* RPC services
  TopicOf,       \* the topic or service of each endpoint
  Triggers,      \* endpoints of the kind of the discovery trigger
  Servers,       \* endpoints of service servers
  Builtin,       \* topics of the configuration
  NoParticipant, \* DEFAULT_PARTICIPANT_ID, the discoverer of a builtin topic
  RemoveUnused,  \* remove_unused_entities
  Filters,       \* filters of topics
  Matches,       \* the topics, and halves of services, that each filter matches
  FirstList,     \* the AllowedTopicList of the first configuration
  Reloads,       \* those of the configurations that are reloaded
  InitEnabled,   \* init_enabled: the constructor enables the pipe
  Ops,           \* operations called on the pipe
  MaxFailures    \* bound: InitializationExceptions in a behaviour

\* An RpcTopic is a request topic and a reply topic.
Halves == Services \X {"request", "reply"}

TopicLists == [allowlist : SUBSET Filters, blocklist : SUBSET Filters]

ASSUME PipeAssumption ==
  /\ IsFiniteSet(Topics) /\ IsFiniteSet(Services)
  /\ Topics \cap Services = {}
  /\ TopicOf \in [Guids -> Topics \cup Services]
  /\ Triggers \subseteq Guids
  /\ Servers \subseteq Guids
  /\ Builtin \subseteq Topics
  /\ NoParticipant \notin Participants
  /\ RemoveUnused \in BOOLEAN
  /\ Matches \in [Filters -> SUBSET (Topics \cup Halves)]
  /\ FirstList \in TopicLists
  /\ Reloads \subseteq TopicLists
  /\ InitEnabled \in BOOLEAN
  /\ Ops \subseteq {"enable", "disable", "reload", "destroy"}
  /\ MaxFailures \in Nat

VARIABLES
  enabled,     \* enabled_
  topicList,   \* allowed_topics_, with its allowlist_ and blocklist_
  current,     \* current_topics_: whether each known topic is active
  discoverer,  \* the topic_discoverer of each key of current_topics_
  bridge,      \* bridges_: "none", or whether the bridge of a topic is "on" or "off"
  writersOf,   \* the participants a bridge has created its writers in
  flags,       \* current_services_: whether each known service is allowed
  rpc,         \* rpc_bridges_: "none", "fresh" (no endpoints yet), "off" or "on"
  servers,     \* RpcBridge::current_servers_, pairs <<p, g>>
  failures,    \* number of InitializationExceptions thrown
  terminated,  \* an exception has left a noexcept function
  gone         \* ~DdsPipe has finished

topicVars == <<current, discoverer, bridge, writersOf>>
serviceVars == <<flags, rpc, servers>>
statusVars == <<enabled, topicList, terminated, gone>>
pipeVars == <<topicVars, serviceVars, statusVars, failures>>
vars == <<databaseVars, pipeVars>>

Matched(filters, x) == \E f \in filters : x \in Matches[f]

\* Mutant: the blocklist is looked at only where there is no allowlist.
EitherList(list, x) ==
  IF list.allowlist = {} THEN ~Matched(list.blocklist, x) ELSE Matched(list.allowlist, x)

\* AllowedTopicList::is_topic_allowed
Admits(list, x) ==
  /\ list.allowlist = {} \/ Matched(list.allowlist, x)
  /\ ~Matched(list.blocklist, x)

\* The topics and services that a list allows; is_service_allowed asks for both halves.
AllowedBy(list) ==
  {t \in Topics : Admits(list, t)}
    \cup {s \in Services : \A half \in {s} \X {"request", "reply"} : Admits(list, half)}

allowed == AllowedBy(topicList)

MayFail(failing) ==
  /\ failures + Cardinality(failing) <= MaxFailures
  /\ failures' = failures + Cardinality(failing)

\* Constructing the DdsPipe up to start(): a disabled bridge for every builtin topic,
\* unless its creation fails.
Init ==
  /\ DatabaseInit
  /\ enabled = FALSE
  /\ topicList = FirstList
  /\ current = [t \in Builtin |-> FALSE]
  /\ discoverer = [t \in Builtin |-> NoParticipant]
  /\ flags = <<>>
  /\ rpc = [s \in Services |-> "none"]
  /\ servers = [s \in Services |-> {}]
  /\ terminated = FALSE
  /\ gone = FALSE
  /\ \E failing \in SUBSET Builtin :
       /\ Cardinality(failing) <= MaxFailures
       /\ failures = Cardinality(failing)
       /\ bridge = [t \in Topics |-> IF t \in Builtin \ failing THEN "off" ELSE "none"]
       /\ writersOf = [t \in Topics |-> IF t \in Builtin \ failing THEN Participants ELSE {}]

-----------------------------------------------------------------------------
(* Bridges of topics and services                                          *)

\* The writers a new bridge creates: one for the participant that discovered the topic,
\* or all those of its routes.
FirstWriters(p) == IF RemoveUnused /\ p # NoParticipant THEN {p} ELSE Participants

\* Mutant: a topic that has no bridge yet is not given one.
ActivateExisting(topics, by, failing) ==
  /\ failing = {}
  /\ bridge' = [t \in Topics |-> IF t \in topics THEN IF bridge[t] = "none" THEN "none" ELSE "on"
                                 ELSE bridge[t]]
  /\ UNCHANGED writersOf

\* activate_topic_nts_ on a set of topics, whose keys carry the discoverers by.  The
\* bridges of the topics in failing cannot be created: create_new_bridge_nts_ logs it.
Activate(topics, by, failing) ==
  LET missing == {t \in topics : bridge[t] = "none"}
  IN  /\ failing \subseteq missing
      /\ bridge' = [t \in Topics |-> IF t \in topics \ failing THEN "on" ELSE bridge[t]]
      /\ writersOf' = [t \in Topics |-> IF t \in missing \ failing THEN FirstWriters(by[t])
                                        ELSE writersOf[t]]

\* RpcBridge::enable on a set of services of which the servers in now are known.  It does
\* nothing without a server; the first call creates the endpoints, unless that fails.
EnableServices(set, now, created, failing) ==
  /\ failing \subseteq {s \in set : now[s] # {} /\ rpc[s] \in {"none", "fresh"}}
  /\ rpc' = [s \in Services |->
              IF s \in set \ failing /\ now[s] # {} THEN "on"
              ELSE IF s \in created THEN "fresh" ELSE rpc[s]]

Off(state) == IF state = "on" THEN "off" ELSE state

-----------------------------------------------------------------------------
(* enable, disable and reload_configuration                                *)

\* The pipe is called between its constructor, which ends in start(), and its destructor.
Callable(op) == op \in Ops /\ started /\ stopper = "idle"

KnownTopics == DOMAIN current
KnownServices == DOMAIN flags

Enable ==
  /\ Callable("enable") \/ (InitEnabled /\ ~started /\ ~exiting)
  /\ ~enabled
  /\ enabled' = TRUE
  /\ current' = [t \in KnownTopics |-> current[t] \/ t \in allowed]
  /\ \E failing \in SUBSET (Topics \cup Services) :
       /\ MayFail(failing)
       /\ Activate(KnownTopics \cap allowed, discoverer, failing \cap Topics)
       /\ EnableServices({s \in KnownServices : flags[s]}, servers, {}, failing \cap Services)
  /\ UNCHANGED <<topicList, terminated, gone, discoverer, flags, servers, databaseVars>>

OffOnDisable(t) == IF t \in KnownTopics THEN Off(bridge[t]) ELSE bridge[t]

Disable ==
  /\ Callable("disable")
  /\ enabled
  /\ enabled' = FALSE
  /\ current' = [t \in KnownTopics |-> FALSE]
  /\ bridge' = [t \in Topics |-> OffOnDisable(t)]
  /\ UNCHANGED <<topicList, terminated, gone, discoverer, writersOf, serviceVars, failures,
                 databaseVars>>

ReloadDisabled(admitted) ==
  /\ ~enabled
  /\ UNCHANGED <<topicVars, serviceVars, failures>>

\* Mutant: a reload activates what is allowed and leaves the rest.
OffOnReloadNever(t, admitted) == bridge[t]

OffOnReload(t, admitted) ==
  IF t \in KnownTopics /\ current[t] /\ t \notin admitted THEN Off(bridge[t]) ELSE bridge[t]

\* Mutant: a reload disables no service.
KeptOnReload(s, admitted) == rpc[s]

OffServiceOnReload(s, admitted) ==
  IF s \in KnownServices /\ s \notin admitted THEN Off(rpc[s]) ELSE rpc[s]

\* The topics that become allowed are activated, those that are no longer are deactivated.
ReloadEnabled(admitted) ==
  /\ enabled
  /\ LET more == {t \in KnownTopics \cap admitted : ~current[t]}
     IN \E failing \in SUBSET (Topics \cup Services) :
       /\ MayFail(failing)
       /\ failing \cap Topics \subseteq {t \in more : bridge[t] = "none"}
       /\ failing \cap Services \subseteq
            {s \in KnownServices \cap admitted : servers[s] # {} /\ rpc[s] = "fresh"}
       /\ bridge' = [t \in Topics |-> IF t \in more \ failing THEN "on" ELSE OffOnReload(t, admitted)]
       /\ writersOf' = [t \in Topics |->
            IF t \in more \ failing /\ bridge[t] = "none" THEN FirstWriters(discoverer[t])
            ELSE writersOf[t]]
       /\ rpc' = [s \in Services |->
            IF s \in (KnownServices \cap admitted) \ failing /\ servers[s] # {} THEN "on"
            ELSE OffServiceOnReload(s, admitted)]
  /\ current' = [t \in KnownTopics |-> t \in admitted]
  /\ flags' = [s \in KnownServices |-> s \in admitted]
  /\ UNCHANGED <<discoverer, servers>>

Reload ==
  /\ Callable("reload")
  /\ \E list \in Reloads \ {topicList} :
       /\ topicList' = list
       /\ ReloadDisabled(AllowedBy(list)) \/ ReloadEnabled(AllowedBy(list))
  /\ UNCHANGED <<enabled, terminated, gone, databaseVars>>

-----------------------------------------------------------------------------
(* Callbacks of the database: discovered_endpoint_, updated_endpoint_ and   *)
(* removed_endpoint_ on endpoint g as participant p reports it.             *)

\* Mutant: any endpoint of a topic counts, whichever participant it belongs to.
AlikeAnywhere(g, p) == {h \in Triggers : ActiveIn(h) /\ TopicOf[h] = TopicOf[g]}

\* The endpoints the pipe finds in the database for the same topic and participant.
Alike(g, p) ==
  {h \in Triggers : ActiveIn(h) /\ TopicOf[h] = TopicOf[g] /\ entities[h].by = p}

\* is_endpoint_relevant_: the first active endpoint, or the last one to leave.
IsRelevant(g, p, active) ==
  g \in Triggers /\ Alike(g, p) = (IF active THEN {g} ELSE {})

\* discovered_topic_nts_ when the topic has no bridge.
NewTopic(t, p) ==
  /\ bridge[t] = "none"
  /\ discoverer' = IF t \in KnownTopics THEN discoverer ELSE Put(discoverer, t, p)
  /\ IF enabled /\ t \in allowed
     THEN /\ current' = Put(current, t, TRUE)
          /\ \E failing \in SUBSET {t} : Activate({t}, [u \in {t} |-> p], failing) /\ MayFail(failing)
     ELSE /\ current' = IF t \in KnownTopics THEN current ELSE Put(current, t, FALSE)
          /\ UNCHANGED <<bridge, writersOf, failures>>
  /\ UNCHANGED <<serviceVars, statusVars>>

\* discovered_topic_nts_ when it has one: with remove_unused_entities the participant
\* creates a writer of its own.
NewWriter(t, p) ==
  /\ bridge[t] # "none"
  /\ RemoveUnused
  /\ writersOf' = [writersOf EXCEPT ![t] = @ \cup {p}]
  /\ UNCHANGED <<current, discoverer, bridge, serviceVars, statusVars, failures>>

\* create_writer throws, and discovered_topic_nts_ is noexcept.
NewWriterFails(t, p) ==
  /\ bridge[t] # "none"
  /\ RemoveUnused
  /\ MayFail({p})
  /\ terminated' = TRUE
  /\ UNCHANGED <<topicVars, serviceVars, enabled, topicList, gone>>

\* discovered_service_nts_
NewServer(s, p, g) ==
  /\ servers' = [servers EXCEPT ![s] = @ \cup {<<p, g>>}]
  /\ flags' = IF s \in KnownServices THEN flags ELSE Put(flags, s, s \in allowed)
  /\ \E failing \in SUBSET {s} :
       /\ MayFail(failing)
       /\ EnableServices(IF enabled /\ flags'[s] THEN {s} ELSE {}, servers',
                         {u \in {s} : rpc[u] = "none"}, failing)
  /\ UNCHANGED <<topicVars, statusVars>>

\* removed_service_nts_
NoServer(s, p, g) ==
  /\ servers' = [servers EXCEPT ![s] = @ \ {<<p, g>>}]
  /\ rpc' = IF servers'[s] = {} THEN [rpc EXCEPT ![s] = Off(@)] ELSE rpc
  /\ UNCHANGED <<topicVars, flags, statusVars, failures>>

DropWriter(t, p) ==
  writersOf' = IF bridge[t] = "none" THEN writersOf ELSE [writersOf EXCEPT ![t] = @ \ {p}]

UnusedTopic(t, p) ==
  /\ RemoveUnused
  /\ DropWriter(t, p)
  /\ UNCHANGED <<current, discoverer, bridge, serviceVars, statusVars, failures>>

IsService(g) == TopicOf[g] \in Services

DiscoveredEndpoint(g, p) ==
  \/ IsService(g) /\ g \in Triggers \cap Servers /\ NewServer(TopicOf[g], p, g)
  \/ IsService(g) /\ g \notin Triggers \cap Servers /\ UNCHANGED pipeVars
  \/ /\ ~IsService(g)
     /\ IsRelevant(g, p, TRUE)
     /\ \/ NewTopic(TopicOf[g], p)
        \/ NewWriter(TopicOf[g], p)
        \/ NewWriterFails(TopicOf[g], p)
        \/ bridge[TopicOf[g]] # "none" /\ ~RemoveUnused /\ UNCHANGED pipeVars
  \/ ~IsService(g) /\ ~IsRelevant(g, p, TRUE) /\ UNCHANGED pipeVars

\* For an erased endpoint active is as it was pushed, TRUE as the tests erase it.
RemovedEndpoint(g, p, active) ==
  \/ IsService(g) /\ g \in Servers /\ NoServer(TopicOf[g], p, g)
  \/ IsService(g) /\ g \notin Servers /\ UNCHANGED pipeVars
  \/ /\ ~IsService(g)
     /\ RemoveUnused /\ IsRelevant(g, p, active)
     /\ UnusedTopic(TopicOf[g], p)
  \/ ~IsService(g) /\ ~(RemoveUnused /\ IsRelevant(g, p, active)) /\ UNCHANGED pipeVars

UpdatedEndpoint(g, p, active) ==
  \/ IsService(g) /\ UNCHANGED pipeVars
  \/ ~IsService(g) /\ active /\ DiscoveredEndpoint(g, p)
  \/ ~IsService(g) /\ ~active /\ RemovedEndpoint(g, p, active)

Callback ==
  /\ WorkerReturn
  /\ LET op == Head(front)
     IN  \/ op.kind = "add" /\ DiscoveredEndpoint(op.guid, op.entity.by)
         \/ op.kind = "update" /\ UpdatedEndpoint(op.guid, op.entity.by, op.entity.active)
         \/ op.kind = "erase" /\ RemovedEndpoint(op.guid, op.entity.by, op.entity.active)

-----------------------------------------------------------------------------
(* ~DdsPipe: stop() of the database first, then the bridges.                *)

DatabaseStopped == stopper = "idle" /\ exiting

Destroy ==
  /\ "destroy" \in Ops
  /\ DatabaseStopped
  /\ ~gone
  /\ gone' = TRUE
  /\ enabled' = FALSE
  /\ current' = [t \in KnownTopics |-> FALSE]
  /\ bridge' = [t \in Topics |-> "none"]
  /\ writersOf' = [t \in Topics |-> {}]
  /\ rpc' = [s \in Services |-> "none"]
  /\ UNCHANGED <<topicList, terminated, discoverer, flags, servers, failures, databaseVars>>

DatabaseStep ==
  /\ \/ Listener \/ Signal \/ WorkerStep \/ StopStep
     \/ (InitEnabled => enabled) /\ Start
     \/ "destroy" \in Ops /\ Stop
  /\ UNCHANGED pipeVars

Next ==
  /\ ~terminated
  /\ DatabaseStep \/ Callback \/ Enable \/ Disable \/ Reload \/ Destroy

Fairness ==
  /\ WF_vars(Signal /\ UNCHANGED pipeVars)
  /\ WF_vars((WorkerStep /\ UNCHANGED pipeVars) \/ Callback)
  /\ WF_vars((StopStep /\ UNCHANGED pipeVars))

Spec == Init /\ [][Next]_vars
FairSpec == Spec /\ Fairness

-----------------------------------------------------------------------------
(* Properties *)

PipeTypeOK ==
  /\ enabled \in BOOLEAN /\ terminated \in BOOLEAN /\ gone \in BOOLEAN
  /\ topicList \in TopicLists
  /\ KnownTopics \subseteq Topics
  /\ current \in [KnownTopics -> BOOLEAN]
  /\ discoverer \in [KnownTopics -> Participants \cup {NoParticipant}]
  /\ bridge \in [Topics -> {"none", "off", "on"}]
  /\ writersOf \in [Topics -> SUBSET Participants]
  /\ KnownServices \subseteq Services
  /\ flags \in [KnownServices -> BOOLEAN]
  /\ rpc \in [Services -> {"none", "fresh", "off", "on"}]
  /\ servers \in [Services -> SUBSET (Participants \X Guids)]
  /\ failures \in Nat

\* Every variable of the pipe and of its database keeps its type; the maps of topics agree
\* on their keys.
TypeOK == DatabaseTypeOK /\ PipeTypeOK

\* A bridge forwards only while the pipe is enabled, its topic is in no blocklist and, if
\* there is an allowlist, in that; however enable(), disable(), reloads and discoveries are
\* interleaved.
ForwardsOnlyAllowed ==
  \A t \in Topics : bridge[t] = "on" =>
    /\ enabled
    /\ \A f \in topicList.blocklist : t \notin Matches[f]
    /\ topicList.allowlist # {} => \E f \in topicList.allowlist : t \in Matches[f]

\* While the pipe is enabled every known topic that is allowed has an enabled bridge,
\* unless it could not be created.
AllowedIsForwarded ==
  enabled => \A t \in KnownTopics \cap allowed :
    bridge[t] = "on" \/ (bridge[t] = "none" /\ failures > 0)

\* In a pipe that stays enabled, a reload reaches every service.
ServicesObeyReload == enabled => \A s \in Services : rpc[s] = "on" => s \in allowed

\* With remove_unused_entities, once the discoveries are worked off, an enabled bridge has
\* a writer in exactly the participants that have an active reader in its topic.
WritersWhereReaders ==
  RemoveUnused /\ registered /\ Settled =>
    \A t \in Topics : bridge[t] = "on" =>
      writersOf[t] = {p \in Participants :
        \E g \in Triggers : TopicOf[g] = t /\ ActiveIn(g) /\ entities[g].by = p}

\* An endpoint that triggers and stays makes the pipe forward its topic, as long as the
\* pipe is enabled and the topic allowed.
DiscoveryLeadsToForwarding ==
  \A pair \in {see \in Sees : see[2] \in Triggers /\ ~IsService(see[2])} :
    LET t == TopicOf[pair[2]]
    IN  (pair \in seen /\ started)
          ~> (pair \notin seen \/ ~Admits(topicList, t) \/ ~enabled
                \/ bridge[t] = "on" \/ stopper # "idle")
=============================================================================
