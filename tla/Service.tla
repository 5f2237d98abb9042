------------------------------ MODULE Service ------------------------------
(***************************************************************************)
(* What a client of the framework relies on: each of its requests is       *)
(* handled once, in the order in which it asked, and answered once, as     *)
(* itself. Module SSDPFramework starts from the handling of a request;     *)
(* SSDPServer implements this over byte streams.                           *)
(*                                                                         *)
(* The three logs only grow, so that a request handled again, or answered  *)
(* again, is not a repetition that goes unseen but a longer log. Nothing   *)
(* is promised to a client once it is lost.                                *)
(***************************************************************************)
EXTENDS Sequences

CONSTANTS
  Clients,
  Requests

VARIABLES
  asked,      \* client |-> the requests it sent
  executed,   \* client |-> the requests that were handled for it
  answered,   \* client |-> the answers it read, each named by its request
  lost        \* clients whose requests the server may no longer understand

Init ==
  /\ asked = [c \in Clients |-> <<>>]
  /\ executed = [c \in Clients |-> <<>>]
  /\ answered = [c \in Clients |-> <<>>]
  /\ lost = {}

Ask(c, r) ==
  /\ answered[c] = asked[c]
  /\ asked' = [asked EXCEPT ![c] = Append(@, r)]
  /\ UNCHANGED <<executed, answered, lost>>

Execute(c) ==
  /\ executed[c] = answered[c] /\ executed[c] # asked[c]
  /\ executed' = [executed EXCEPT ![c] = asked[c]]
  /\ UNCHANGED <<asked, answered, lost>>

Answer(c) ==
  /\ executed[c] = asked[c] /\ answered[c] # asked[c]
  /\ answered' = [answered EXCEPT ![c] = asked[c]]
  /\ UNCHANGED <<asked, executed, lost>>

Lose(c) ==
  /\ lost' = lost \cup {c}
  /\ UNCHANGED <<asked, executed, answered>>

\* Of a lost client nothing is promised; the others are not touched.
Whatever(c) ==
  /\ c \in lost
  /\ \A d \in Clients \ {c} : /\ asked'[d] = asked[d] /\ executed'[d] = executed[d]
                              /\ answered'[d] = answered[d]
  /\ UNCHANGED lost

Next ==
  \E c \in Clients :
    \/ \E r \in Requests : Ask(c, r)
    \/ Execute(c) \/ Answer(c) \/ Lose(c) \/ Whatever(c)

vars == <<asked, executed, answered, lost>>
Spec == Init /\ [][Next]_vars
=============================================================================
