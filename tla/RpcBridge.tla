------------------------------ MODULE RpcBridge ------------------------------
(***************************************************************************)
(* An RpcBridge and its ServiceRegistries: the proxy servers and clients   *)
(* of one service.  In every RTPS participant there is a reader of         *)
(* requests, a writer of replies, a writer of requests, a reader of        *)
(* replies, and the registry that remembers, by the sequence number a      *)
(* request was sent with, whom its reply is for.                           *)
(*                                                                         *)
(* DdsPipe makes the calls, one at a time, under its own mutex.  The       *)
(* threads of the pool run transmit_() for the readers, several at once.   *)
(* Clients and servers are the network.                                    *)
(***************************************************************************)
EXTENDS Integers, Sequences, FiniteSets, FiniteSetsExt

CONSTANTS
  Participants, \* numbers, in the order a std::map keeps their identifiers
  Rtps,         \* those with is_rtps_kind(): they have proxies and a registry
  Repeaters,    \* those with is_repeater()
  Limited,      \* those whose writers have a max_tx_rate
  Servers,      \* servers of the service
  Contacts,     \* <<p, s>>: participant p and server s reach each other
  Requests,     \* requests of clients
  ClientAt,     \* the participant that receives each request
  IllFormed,    \* requests with an unknown SampleIdentity
  Corrupt,      \* requests is_data_correct_ refuses
  Pool,         \* threads of the SlotThreadPool
  MaxEntries,   \* DEFAULT_MAX_ENTRIES_ of a ServiceRegistry
  MaxCalls,     \* bound: calls DdsPipe makes
  MaxReplies,   \* bound: replies that reach a participant
  MaxFailures   \* bound: endpoints that cannot be created, writes that fail

ASSUME RpcAssumption ==
  /\ Participants \subseteq Nat \ {0}
  /\ Rtps \subseteq Participants
  /\ Repeaters \subseteq Rtps
  /\ Limited \subseteq Rtps
  /\ Contacts \subseteq Participants \X Servers
  /\ ClientAt \in [Requests -> Rtps]
  /\ IllFormed \subseteq Requests
  /\ Corrupt \subseteq Requests
  /\ IsFiniteSet(Pool)
  /\ MaxEntries \in Nat \ {0}
  /\ MaxCalls \in Nat
  /\ MaxReplies \in Nat
  /\ MaxFailures \in Nat

VARIABLES
  init,       \* RpcBridge::init_
  enabled,    \* RpcBridge::enabled_
  caller,     \* where the call of DdsPipe is, and the readers it has still to enable
  servers,    \* current_servers_, as pairs
  registered, \* participants whose ServiceRegistry is enabled
  entries,    \* ServiceRegistry::registry_, as pairs <<sequence number, request>>
  readerOn,   \* readers whose BaseReader::enabled_ is true
  writersOn,  \* the writers are enabled
  unread,     \* what each reader has received and nobody has taken
  raised,     \* readers whose flag in tasks_map_ is set
  tasks,      \* emissions of each reader's task that no thread has started
  job,        \* what each thread of the pool is doing
  sentSeq,    \* last sequence number of each writer of requests
  asked,      \* requests sent by their clients
  copies,     \* requests written to servers
  replied,    \* replies that reached a participant
  answered,   \* history: replies written, by registry, request answered and
              \* request the reply is about
  missed,     \* history: replies for which the registry had no entry
  evicted,    \* history: requests a full registry forgot
  crashed,    \* a null pointer has been dereferenced
  calls, failures

bridgeVars == <<init, enabled, caller, servers, registered>>
endpointVars == <<readerOn, writersOn>>
taskVars == <<raised, tasks>>
networkVars == <<asked, copies, replied, sentSeq>>
historyVars == <<answered, missed, evicted>>
boundVars == <<calls, failures>>
vars == <<bridgeVars, entries, endpointVars, unread, taskVars, job, networkVars,
          historyVars, crashed, boundVars>>

Readers == {"request", "reply"} \X Rtps
Kind(r) == r[1]
At(r) == r[2]

Idle == [at |-> "idle"]
Busy == {t \in Pool : job[t] # Idle}


Init ==
  /\ init = FALSE
  /\ enabled = FALSE
  /\ caller = [at |-> "idle", left |-> {}]
  /\ servers = {}
  /\ registered = {}
  /\ entries = [p \in Rtps |-> {}]
  /\ readerOn = {}
  /\ writersOn = FALSE
  /\ unread = [r \in Readers |-> <<>>]
  /\ raised = {}
  /\ tasks = [r \in Readers |-> 0]
  /\ job = [t \in Pool |-> Idle]
  /\ sentSeq = [p \in Rtps |-> 0]
  /\ asked = {}
  /\ copies = {}
  /\ replied = {}
  /\ answered = [x \in Rtps \X Requests \X Requests |-> 0]
  /\ missed = {}
  /\ evicted = {}
  /\ crashed = FALSE
  /\ calls = 0
  /\ failures = 0

-----------------------------------------------------------------------------
(* RpcBridge::data_available_: what the listener of reader r does.  It runs *)
(* under the mutex of the reader, in a source or in BaseReader::enable.     *)

Emits(r) == enabled /\ r \notin raised

Notify(r) ==
  /\ raised' = IF enabled THEN raised \cup {r} ELSE raised
  /\ tasks' = IF Emits(r) THEN [tasks EXCEPT ![r] = @ + 1] ELSE tasks

\* A reader keeps what arrives, and announces it if it is enabled.
Arrives(r, item) ==
  /\ unread' = [unread EXCEPT ![r] = Append(@, item)]
  /\ IF r \in readerOn THEN Notify(r) ELSE UNCHANGED taskVars

-----------------------------------------------------------------------------
(* The calls of DdsPipe                                                    *)

MayCall ==
  /\ caller.at = "idle"
  /\ calls < MaxCalls
  /\ calls' = calls + 1

ServersAvailable == servers # {}

\* enable() up to enabled_ = true; init_nts_ makes the endpoints the first time.
EnableStart ==
  /\ MayCall
  /\ ~enabled /\ ServersAvailable
  /\ init' = TRUE
  /\ registered' = IF init THEN registered ELSE {p \in Rtps : \E s \in Servers : <<p, s>> \in servers}
  /\ enabled' = TRUE
  /\ caller' = [at |-> "writers", left |-> Readers]
  /\ UNCHANGED <<servers, entries, endpointVars, unread, taskVars, job, networkVars,
                 historyVars, crashed, failures>>

\* An endpoint cannot be created: enable() returns, and its next call starts again.
InitFails ==
  /\ MayCall
  /\ ~enabled /\ ServersAvailable /\ ~init
  /\ failures < MaxFailures
  /\ failures' = failures + 1
  /\ UNCHANGED <<bridgeVars, entries, endpointVars, unread, taskVars, job, networkVars,
                 historyVars, crashed>>

EnableWriters ==
  /\ caller.at = "writers"
  /\ writersOn' = TRUE
  /\ caller' = [caller EXCEPT !.at = "readers"]
  /\ UNCHANGED <<init, enabled, servers, registered, entries, readerOn, unread, taskVars,
                 job, networkVars, historyVars, crashed, boundVars>>

\* The readers of replies come first, each kind in the order of its map.
Precedes(r, s) == IF Kind(r) = Kind(s) THEN At(r) <= At(s) ELSE Kind(r) = "reply"

\* Mutant: a reader is enabled and does not announce what it kept.
EnableReaderSilently ==
  /\ caller.at = "readers"
  /\ \E r \in caller.left :
       /\ \A s \in caller.left : Precedes(r, s)
       /\ readerOn' = readerOn \cup {r}
       /\ UNCHANGED taskVars
       /\ caller' = [at |-> IF caller.left = {r} THEN "idle" ELSE "readers",
                     left |-> caller.left \ {r}]
  /\ UNCHANGED <<init, enabled, servers, registered, entries, writersOn, unread, job,
                 networkVars, historyVars, crashed, boundVars>>

\* BaseReader::enable.  The topics of a service are taken to be reliable: an RTPS reader of
\* such a topic announces what it may have kept while it was disabled.
EnableReader ==
  /\ caller.at = "readers"
  /\ \E r \in caller.left :
       /\ \A s \in caller.left : Precedes(r, s)
       /\ readerOn' = readerOn \cup {r}
       /\ Notify(r)
       /\ caller' = [at |-> IF caller.left = {r} THEN "idle" ELSE "readers",
                     left |-> caller.left \ {r}]
  /\ UNCHANGED <<init, enabled, servers, registered, entries, writersOn, unread, job,
                 networkVars, historyVars, crashed, boundVars>>

Stop ==
  /\ enabled' = FALSE
  /\ caller' = [caller EXCEPT !.at = "wait"]

Disable ==
  /\ MayCall
  /\ enabled
  /\ Stop
  /\ UNCHANGED <<init, servers, registered, entries, endpointVars, unread, taskVars, job,
                 networkVars, historyVars, crashed, failures>>

\* Mutant: the endpoints are disabled while a transmission is in course.
DisableAtOnce ==
  /\ caller.at = "wait"
  /\ readerOn' = {}
  /\ writersOn' = FALSE
  /\ caller' = [caller EXCEPT !.at = "idle"]
  /\ UNCHANGED <<init, enabled, servers, registered, entries, unread, taskVars, job,
                 networkVars, historyVars, crashed, boundVars>>

\* on_transmission_mutex_ is shared by the transmissions; disable() gets it alone.
DisableRest ==
  /\ caller.at = "wait"
  /\ Busy = {}
  /\ readerOn' = {}
  /\ writersOn' = FALSE
  /\ caller' = [caller EXCEPT !.at = "idle"]
  /\ UNCHANGED <<init, enabled, servers, registered, entries, unread, taskVars, job,
                 networkVars, historyVars, crashed, boundVars>>

\* discovered_service: service_registries_[p] is a null pointer if p is not RTPS.
Discovered(p, s) ==
  /\ MayCall
  /\ servers' = servers \cup {<<p, s>>}
  /\ registered' = IF init /\ p \in Rtps THEN registered \cup {p} ELSE registered
  /\ crashed' = (init /\ p \notin Rtps)
  /\ UNCHANGED <<init, enabled, caller, entries, endpointVars, unread, taskVars, job,
                 networkVars, historyVars, failures>>

\* removed_service: the bridge is disabled with the last server of all.
Removed(p, s) ==
  /\ MayCall
  /\ <<p, s>> \in servers
  /\ servers' = servers \ {<<p, s>>}
  /\ IF servers' = {} /\ enabled THEN Stop ELSE UNCHANGED <<enabled, caller>>
  /\ UNCHANGED <<init, registered, entries, endpointVars, unread, taskVars, job,
                 networkVars, historyVars, crashed, failures>>

-----------------------------------------------------------------------------
(* The network                                                             *)

ClientSends(q) ==
  /\ init
  /\ q \notin asked
  /\ asked' = asked \cup {q}
  /\ Arrives(<<"request", ClientAt[q]>>, [req |-> q])
  /\ UNCHANGED <<bridgeVars, entries, endpointVars, job, copies, replied, sentSeq,
                 historyVars, crashed, boundVars>>

\* Server s replies to copy c.  The reply reaches the reader of every participant in
\* contact with s, and carries the identity of the copy.
ServerReplies(s, c, p) ==
  /\ {<<c.via, s>>, <<p, s>>} \subseteq Contacts
  /\ <<s, c, p>> \notin replied
  /\ Cardinality(replied) < MaxReplies
  /\ replied' = replied \cup {<<s, c, p>>}
  /\ Arrives(<<"reply", p>>, c)
  /\ UNCHANGED <<bridgeVars, entries, endpointVars, job, asked, copies, sentSeq,
                 historyVars, crashed, boundVars>>

-----------------------------------------------------------------------------
(* RpcBridge::transmit_ on thread t of the pool.  job[t].left is what the   *)
(* loop over service_registries_ has still to visit, job[t].to where it is, *)
(* job[t].sent is sent_sequence_number of the data in hand.                 *)

Goto(t, place) == job' = [job EXCEPT ![t].at = place]

StartTask(t) ==
  /\ job[t] = Idle
  /\ \E r \in Readers :
       /\ tasks[r] > 0
       /\ tasks' = [tasks EXCEPT ![r] = @ - 1]
       /\ job' = [job EXCEPT ![t] = [at |-> "loop", reader |-> r]]
  /\ UNCHANGED <<bridgeVars, entries, endpointVars, unread, raised, networkVars,
                 historyVars, crashed, boundVars>>

\* Whether a request goes through participant p.
Offered(t, p) ==
  /\ At(job[t].reader) = p => p \in Repeaters
  /\ p \in registered

\* The participants the loop over service_registries_ has still to write to; it goes
\* in the order of their map and skips the others.
Routes(t) == {p \in job[t].left : Offered(t, p)}

Routed(t) == job[t].at = "route" /\ Routes(t) = {}

\* Mutant: the flag is lowered when the task starts and not when it ends.
LowersFlagFirst(t) ==
  /\ job[t].at = "loop" \/ Routed(t)
  /\ raised' = raised \ {job[t].reader}
  /\ IF enabled /\ unread[job[t].reader] # <<>> THEN Goto(t, "take")
     ELSE job' = [job EXCEPT ![t] = Idle]
  /\ UNCHANGED <<bridgeVars, entries, endpointVars, unread, tasks, networkVars,
                 historyVars, crashed, boundVars>>

\* The head of the loop, under the mutex of the reader.
Loop(t) ==
  /\ job[t].at = "loop" \/ Routed(t)
  /\ IF enabled /\ unread[job[t].reader] # <<>>
     THEN Goto(t, "take") /\ UNCHANGED raised
     ELSE /\ job' = [job EXCEPT ![t] = Idle]
          /\ raised' = raised \ {job[t].reader}
  /\ UNCHANGED <<bridgeVars, entries, endpointVars, unread, tasks, networkVars,
                 historyVars, crashed, boundVars>>

\* IReader::take gives nothing when the reader is disabled or refuses the data, and
\* transmit_() dereferences what it gave before it looks at the return code.
TakeNothing(t) ==
  /\ job[t].at = "take"
  /\ job[t].reader \notin readerOn \/ Head(unread[job[t].reader]).req \in Corrupt
  /\ crashed' = TRUE
  /\ UNCHANGED <<bridgeVars, entries, endpointVars, unread, taskVars, job, networkVars,
                 historyVars, boundVars>>

Take(t) ==
  /\ job[t].at = "take"
  /\ LET r == job[t].reader
         item == Head(unread[r])
         visits == IF item.req \in IllFormed THEN {} ELSE Rtps
     IN  /\ r \in readerOn
         /\ Kind(r) = "request" => item.req \notin Corrupt
         /\ unread' = [unread EXCEPT ![r] = Tail(@)]
         /\ job' = [job EXCEPT ![t] =
              IF Kind(r) = "request"
              THEN [at |-> "route", reader |-> r, item |-> item, left |-> visits,
                    to |-> 0, sent |-> 0]
              ELSE [at |-> "get", reader |-> r, item |-> item]]
  /\ UNCHANGED <<bridgeVars, entries, endpointVars, taskVars, networkVars, historyVars,
                 crashed, boundVars>>

\* Mutant: get() does not wait for the request in transmission.
RegistryOpen(p) == TRUE

\* The mutex of the registry of p is held from before the write of a request to the
\* end of the add of its entry.
RegistryFree(p) == \A t \in Pool : job[t].at = "add" => job[t].to # p

\* A limited writer may drop the request and return RETCODE_OK all the same.
Write(t) ==
  /\ job[t].at = "route" /\ Routes(t) # {}
  /\ writersOn
  /\ LET p == Min(Routes(t))
         n == sentSeq[p] + 1
     IN  /\ RegistryFree(p)
         /\ \/ /\ sentSeq' = [sentSeq EXCEPT ![p] = n]
               /\ copies' = copies \cup {[via |-> p, seq |-> n, req |-> job[t].item.req]}
               /\ job' = [job EXCEPT ![t] = [@ EXCEPT !.at = "add", !.to = p, !.sent = n]]
            \/ /\ p \in Limited
               /\ job' = [job EXCEPT ![t] = [@ EXCEPT !.at = "add", !.to = p]]
               /\ UNCHANGED <<sentSeq, copies>>
  /\ UNCHANGED <<bridgeVars, entries, endpointVars, unread, taskVars, asked, replied,
                 historyVars, crashed, boundVars>>

\* The loop goes on after participant p.
Beyond(t, p) ==
  job' = [job EXCEPT ![t].at = "route", ![t].left = {q \in @ : q > p}]

WriteFails(t) ==
  /\ job[t].at = "route" /\ Routes(t) # {}
  /\ RegistryFree(Min(Routes(t)))
  /\ ~writersOn \/ failures < MaxFailures
  /\ failures' = failures + 1
  /\ Beyond(t, Min(Routes(t)))
  /\ UNCHANGED <<bridgeVars, entries, endpointVars, unread, taskVars, networkVars,
                 historyVars, crashed, calls>>

Known(p, n) == \E e \in entries[p] : e[1] = n
Oldest(es) == CHOOSE e \in es : \A f \in es : e[1] <= f[1]

\* Mutant: a full registry keeps its oldest entry.
NeverFull(es) == FALSE

Full(es) == Cardinality(es) = MaxEntries

\* ServiceRegistry::add
Add(t) ==
  /\ job[t].at = "add"
  /\ LET p == job[t].to
         grown == entries[p] \cup {<<job[t].sent, job[t].item.req>>}
         full == Full(grown)
     IN  IF Known(p, job[t].sent)
         THEN UNCHANGED <<entries, evicted>>
         ELSE /\ entries' = [entries EXCEPT ![p] = IF full THEN grown \ {Oldest(grown)} ELSE grown]
              /\ evicted' = IF full THEN evicted \cup {<<p, Oldest(grown)[2]>>} ELSE evicted
  /\ Beyond(t, job[t].to)
  /\ UNCHANGED <<bridgeVars, endpointVars, unread, taskVars, networkVars, answered, missed,
                 crashed, boundVars>>

\* The data has been dealt with, and its payload is released.
Again(t) == job' = [job EXCEPT ![t] = [at |-> "loop", reader |-> @.reader]]

\* Mutant: replies to other clients are not filtered.
ForAnyone(t) == TRUE

\* The reply is for the client the bridge has in this participant.
ForThisClient(t) == job[t].item.via = At(job[t].reader)

IgnoreReply(t) ==
  /\ job[t].at = "get"
  /\ ~ForThisClient(t)
  /\ Again(t)
  /\ UNCHANGED <<bridgeVars, entries, endpointVars, unread, taskVars, networkVars,
                 historyVars, crashed, boundVars>>

\* ServiceRegistry::get
Get(t) ==
  /\ job[t].at = "get"
  /\ ForThisClient(t)
  /\ LET p == At(job[t].reader)
     IN  /\ RegistryFree(p)
         /\ \/ \E e \in entries[p] :
                 /\ e[1] = job[t].item.seq
                 /\ job' = [job EXCEPT ![t] = [at |-> "answer", reader |-> @.reader,
                                               item |-> @.item, client |-> e[2]]]
                 /\ UNCHANGED missed
            \/ /\ ~Known(p, job[t].item.seq)
               /\ missed' = missed \cup {<<p, job[t].item.req>>}
               /\ Again(t)
  /\ UNCHANGED <<bridgeVars, entries, endpointVars, unread, taskVars, networkVars, answered,
                 evicted, crashed, boundVars>>

\* The reply is written where its request came from, unless the writer is limited.
Answer(t) ==
  /\ job[t].at = "answer"
  /\ writersOn
  /\ LET x == <<At(job[t].reader), job[t].client, job[t].item.req>>
     IN  \/ answered' = [answered EXCEPT ![x] = @ + 1]
         \/ ClientAt[job[t].client] \in Limited /\ UNCHANGED answered
  /\ Goto(t, "erase")
  /\ UNCHANGED <<bridgeVars, entries, endpointVars, unread, taskVars, networkVars, missed,
                 evicted, crashed, boundVars>>

AnswerFails(t) ==
  /\ job[t].at = "answer"
  /\ ~writersOn \/ failures < MaxFailures
  /\ failures' = failures + 1
  /\ Again(t)
  /\ UNCHANGED <<bridgeVars, entries, endpointVars, unread, taskVars, networkVars,
                 historyVars, crashed, calls>>

\* Mutant: the entry stays after its reply.
EraseNothing(t) ==
  /\ job[t].at = "erase"
  /\ Again(t)
  /\ UNCHANGED <<bridgeVars, entries, endpointVars, unread, taskVars, networkVars,
                 historyVars, crashed, boundVars>>

\* ServiceRegistry::erase
Erase(t) ==
  /\ job[t].at = "erase"
  /\ RegistryFree(At(job[t].reader))
  /\ entries' = [entries EXCEPT ![At(job[t].reader)] = {e \in @ : e[1] # job[t].item.seq}]
  /\ Again(t)
  /\ UNCHANGED <<bridgeVars, endpointVars, unread, taskVars, networkVars, historyVars,
                 crashed, boundVars>>

-----------------------------------------------------------------------------
\* The rest of a call, once made.
CallStep == EnableWriters \/ EnableReader \/ DisableRest

PoolStep(t) ==
  \/ StartTask(t) \/ Loop(t) \/ TakeNothing(t) \/ Take(t)
  \/ Write(t) \/ WriteFails(t) \/ Add(t)
  \/ IgnoreReply(t) \/ Get(t) \/ Answer(t) \/ AnswerFails(t) \/ Erase(t)

Step ==
  \/ EnableStart \/ InitFails \/ Disable \/ CallStep
  \/ \E p \in Participants, s \in Servers : <<p, s>> \in Contacts /\ (Discovered(p, s) \/ Removed(p, s))
  \/ \E q \in Requests : ClientSends(q)
  \/ \E s \in Servers, c \in copies, p \in Rtps : ServerReplies(s, c, p)
  \/ \E t \in Pool : PoolStep(t)

\* A crash ends the program.
Next == ~crashed /\ Step

Spec == Init /\ [][Next]_vars

-----------------------------------------------------------------------------
(* Properties *)

Replies == [via : Rtps, seq : Nat, req : Requests]
Places == {"idle", "loop", "take", "route", "add", "get", "answer", "erase"}

\* Every variable keeps its type; a registry never holds DEFAULT_MAX_ENTRIES_ entries.
TypeOK ==
  /\ init \in BOOLEAN /\ enabled \in BOOLEAN /\ crashed \in BOOLEAN /\ writersOn \in BOOLEAN
  /\ caller \in [at : {"idle", "writers", "readers", "wait"}, left : SUBSET Readers]
  /\ servers \subseteq Contacts
  /\ registered \subseteq Rtps
  /\ \A p \in Rtps : entries[p] \subseteq Nat \X Requests /\ Cardinality(entries[p]) < MaxEntries
  /\ readerOn \subseteq Readers /\ raised \subseteq Readers
  /\ \A p \in Rtps : /\ unread[<<"request", p>>] \in Seq([req : Requests])
                     /\ unread[<<"reply", p>>] \in Seq(Replies)
  /\ tasks \in [Readers -> Nat]
  /\ \A t \in Pool : job[t].at \in Places
  /\ sentSeq \in [Rtps -> Nat]
  /\ asked \subseteq Requests /\ copies \subseteq Replies
  /\ replied \subseteq Servers \X Replies \X Rtps
  /\ answered \in [Rtps \X Requests \X Requests -> Nat]
  /\ missed \subseteq Rtps \X Requests /\ evicted \subseteq Rtps \X Requests

Runners(r) == {t \in Busy : job[t].reader = r}

\* tasks_map_ says of each reader whether a task of it is queued or running, and there
\* is never more than one: transmit_() of one reader never runs twice at a time, though
\* on_transmission_mutex_ is shared, and the data of a reader is routed in order.
FlagMatchesTask ==
  \A r \in Readers :
    tasks[r] + Cardinality(Runners(r)) = IF r \in raised THEN 1 ELSE 0

\* What answers a request that was sent through participant p is a reply to that request,
\* and to no other, and it is answered once: though every server may reply, the replies of
\* a server reach all participants, and all participants use the same numbers.  (A writer
\* with a max_tx_rate may drop a request and have a number of another one registered.)
EachClientItsReply ==
  \A p \in Rtps \ Limited, q, a \in Requests :
    answered[<<p, q, a>>] <= IF q = a THEN 1 ELSE 0

\* A reply to this bridge finds the entry of its request, even when the server replies
\* before write() returns; unless the request was answered already, the registry was full,
\* or a writer with a max_tx_rate dropped the request or an earlier reply.
RepliesFindTheirRequest ==
  \A x \in missed :
    \/ x \in evicted
    \/ answered[<<x[1], x[2], x[2]>>] > 0
    \/ {x[1], ClientAt[x[2]]} \cap Limited # {}

\* Once disable() has returned nothing is taken or written until enable(), and while a
\* transmission is past the head of its loop its endpoints stay as they are.
QuietWhenOff ==
  (\E t \in Busy : job[t].at # "loop" /\ ~Routed(t)) => enabled \/ caller.at = "wait"

\* No wake-up is lost: data in an enabled reader of an enabled bridge has a task queued
\* or running for it, though the flag is lowered while data may be arriving and the
\* listener is silent while the bridge is disabled.
WaitingHasTask ==
  \A r \in readerOn : enabled /\ unread[r] # <<>> => r \in raised
=============================================================================
