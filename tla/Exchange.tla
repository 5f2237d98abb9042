------------------------------ MODULE Exchange ------------------------------
(***************************************************************************)
(* What the framework relies on when it calls a method of a device: the    *)
(* board executes the request exactly once, before the method returns, and *)
(* no other board does anything.  A method may never return; a load may    *)
(* return without effect when its file is missing.  This is the exchange   *)
(* that module SSDPFramework takes as one step, and that DspLink           *)
(* implements with queues.                                                 *)
(***************************************************************************)
CONSTANTS
  Links,      \* the boards
  Requests    \* what a method can ask of a board; "load" among them

VARIABLES
  asked,      \* the board and the request of the method in progress
  obeyed,     \* the board has executed it
  executed    \* board |-> the last request it executed

NoMethod == [link |-> "none", request |-> "none"]

Init ==
  /\ asked = NoMethod /\ obeyed = FALSE
  /\ executed = [l \in Links |-> "boot"]

Ask(l, r) ==
  /\ asked = NoMethod
  /\ asked' = [link |-> l, request |-> r]
  /\ UNCHANGED <<obeyed, executed>>

Obey ==
  /\ asked # NoMethod /\ ~obeyed
  /\ obeyed' = TRUE
  /\ executed' = [executed EXCEPT ![asked.link] = asked.request]
  /\ UNCHANGED asked

Return ==
  /\ asked # NoMethod /\ obeyed
  /\ asked' = NoMethod /\ obeyed' = FALSE
  /\ UNCHANGED executed

Refuse ==
  /\ asked.request = "load" /\ ~obeyed
  /\ asked' = NoMethod
  /\ UNCHANGED <<obeyed, executed>>

Next ==
  \/ \E l \in Links, r \in Requests : Ask(l, r)
  \/ Obey \/ Return \/ Refuse

vars == <<asked, obeyed, executed>>
Spec == Init /\ [][Next]_vars
=============================================================================
