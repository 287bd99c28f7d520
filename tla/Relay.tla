------------------------------- MODULE Relay -------------------------------
(***************************************************************************)
(* What a Track promises, without the threads, the task queue, the mutexes *)
(* and the status word it is built from: one sample at a time is taken     *)
(* from the reader and handed to each writer that was a target when it was *)
(* taken; nothing is in flight once the relay is off.                      *)
(***************************************************************************)
EXTENDS Naturals, Sequences

CONSTANTS Writers

VARIABLES
  phase,    \* "on", "stopping" (disable() was called) or "off"
  targets,  \* the writers samples are forwarded to
  backlog,  \* the samples the reader holds
  flight,   \* the sample being forwarded and the writers it has still to reach
  out       \* the samples handed to each writer

relayVars == <<phase, targets, backlog, flight, out>>

Grounded == [item |-> 0, to |-> {}]

Start ==
  /\ phase = "off"
  /\ targets \subseteq Writers
  /\ backlog = <<>>
  /\ flight = Grounded
  /\ out = [w \in Writers |-> <<>>]

SwitchOn ==
  /\ phase = "off"
  /\ phase' = "on"
  /\ UNCHANGED <<targets, backlog, flight, out>>

Ask == phase = "on" /\ phase' = "stopping" /\ UNCHANGED <<targets, backlog, flight, out>>

SwitchOff ==
  /\ phase = "stopping"
  /\ flight = Grounded
  /\ phase' = "off"
  /\ UNCHANGED <<targets, backlog, flight, out>>

Retarget ==
  /\ flight = Grounded
  /\ targets' \subseteq Writers
  /\ UNCHANGED <<phase, backlog, flight, out>>

Receive ==
  /\ Len(backlog') = Len(backlog) + 1
  /\ \A i \in 1..Len(backlog) : backlog'[i] = backlog[i]
  /\ UNCHANGED <<phase, targets, flight, out>>

\* The oldest sample leaves the reader: to be forwarded, or discarded as corrupt.
Lift ==
  /\ phase # "off"
  /\ flight = Grounded
  /\ backlog # <<>>
  /\ backlog' = Tail(backlog)
  /\ flight' \in {Grounded, [item |-> Head(backlog), to |-> targets]}
  /\ UNCHANGED <<phase, targets, out>>

Hand ==
  /\ \E w \in flight.to :
       /\ out' = [out EXCEPT ![w] = Append(@, flight.item)]
       /\ flight' = [item |-> flight.item, to |-> flight.to \ {w}]
  /\ UNCHANGED <<phase, targets, backlog>>

Land ==
  /\ flight # Grounded
  /\ flight.to = {}
  /\ flight' = Grounded
  /\ UNCHANGED <<phase, targets, backlog, out>>

Move ==
  \/ SwitchOn \/ Ask \/ SwitchOff
  \/ Retarget \/ Receive \/ Lift \/ Hand \/ Land

\* A sample in flight lands, a request to stop is granted, and the backlog of a
\* relay that stays on is worked off.
Progress ==
  /\ WF_relayVars(Hand \/ Land)
  /\ WF_relayVars(SwitchOff)
  /\ WF_relayVars(phase = "on" /\ Lift)

SafeRelay == Start /\ [][Move]_relayVars
FairRelay == SafeRelay /\ Progress
=============================================================================
