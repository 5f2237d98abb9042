---------------------------- MODULE OutputStream ----------------------------
(***************************************************************************)
(* The output reliable stream of the XRCE client                           *)
(* (output_reliable_stream.c): a ring of History slots, each the datagram  *)
(* of one sequence number, kept until the agent has acknowledged it.       *)
(* Messages are cut from one sequence of units, numbered in the order they *)
(* are accepted; a slot holds up to Capacity of them.  A message fits a    *)
(* slot, as all of the framework's do; headers take no room.               *)
(*                                                                         *)
(* The actions say what happens to the ring; the modules that EXTEND this  *)
(* one add the network, the agent, and who calls what when.                *)
(***************************************************************************)
EXTENDS Integers, Sequences

CONSTANTS
  History,     \* slots of a ring (a power of 2)
  Capacity,    \* units that fit a slot
  SeqSize      \* sequence numbers are counted modulo SeqSize

ASSUME RingAssumption ==
  /\ History \in Nat \ {0} /\ Capacity \in Nat \ {0} /\ SeqSize \in Nat
  /\ SeqSize \div 2 > History /\ SeqSize % History = 0

SeqNums == 0..(SeqSize - 1)
Slots == 0..(History - 1)

VARIABLES
  slot,                                   \* what each slot holds
  last_written, last_sent, last_acknown,  \* sequence numbers
  accepted                                \* history: units accepted so far

ring == <<slot, last_written, last_sent, last_acknown, accepted>>

-----------------------------------------------------------------------------
(* seq_num.c *)

Add(s, n) == (s + n) % SeqSize
Sub(s, n) == (s - n) % SeqSize

\* s comes before t, on the shorter way round; opposite numbers come after
\* each other.
Before(s, t) == s # t /\ Sub(t, s) < SeqSize \div 2
NotAfter(s, t) == s = t \/ Before(s, t)

Slot(s) == slot[s % History]

-----------------------------------------------------------------------------

InitRing ==
  /\ slot = [i \in Slots |-> <<>>]
  /\ last_written = 0 /\ last_sent = SeqSize - 1 /\ last_acknown = SeqSize - 1
  /\ accepted = 0

\* The next n units.
Units(n) == [i \in 1..n |-> accepted + i]

Available(s) == NotAfter(s, Add(last_acknown, History))

\* Mistake: whether the slot is full is asked before the message is counted.
WriteHereUnmeasured(len) ==
  /\ Len(Slot(last_written)) <= Capacity
  /\ Available(last_written)
  /\ slot' = [slot EXCEPT ![last_written % History] = @ \o Units(len)]
  /\ UNCHANGED last_written

\* The message fits in what is left of the current slot.
WriteHere(len) ==
  /\ Len(Slot(last_written)) + len <= Capacity
  /\ Available(last_written)
  /\ slot' = [slot EXCEPT ![last_written % History] = @ \o Units(len)]
  /\ UNCHANGED last_written

\* It fits in an empty slot only.
WriteNext(len) ==
  LET next == Add(last_written, 1) IN
  /\ Len(Slot(last_written)) + len > Capacity /\ len <= Capacity
  /\ Available(next)
  /\ slot' = [slot EXCEPT ![next % History] = Units(len)]
  /\ last_written' = next

\* uxr_prepare_reliable_buffer_to_write, and the serialisation that fills it.
Write(len) ==
  /\ WriteHere(len) \/ WriteNext(len)
  /\ accepted' = accepted + len
  /\ UNCHANGED <<last_sent, last_acknown>>

-----------------------------------------------------------------------------
\* uxr_prepare_next_reliable_buffer_to_send, in the loop of
\* uxr_flash_output_streams: the first n datagrams not yet sent can go.
Sendable(n) ==
  \A i \in 1..n :
    LET s == Add(last_sent, i) IN
    /\ NotAfter(s, last_written)
    /\ Slot(s) # <<>>
    /\ Sub(Add(last_sent, i - 1), last_acknown) # History

Datagram(s) == [seq |-> s, body |-> Slot(s)]

ToSend == CHOOSE n \in 0..History : Sendable(n) /\ ~Sendable(n + 1)
Sent == {Datagram(Add(last_sent, i)) : i \in 1..ToSend}

Flash ==
  /\ last_sent' = Add(last_sent, ToSend)
  /\ last_written' = IF ToSend > 0 /\ last_sent' = last_written
                     THEN Add(last_written, 1) ELSE last_written
  /\ UNCHANGED <<slot, last_acknown, accepted>>

\* uxr_is_output_up_to_date
Confirmed == last_acknown = last_sent

\* Mistake: the first unacknowledged number is taken for the last acknowledged.
ProcessAcknackOneMore(first_unacked) ==
  LET cleaned == Sub(first_unacked, last_acknown) IN
  /\ last_acknown' = first_unacked
  /\ slot' = [k \in Slots |->
                IF \E i \in 1..cleaned : k = Add(last_acknown, i) % History
                THEN <<>> ELSE slot[k]]
  /\ UNCHANGED <<last_written, last_sent, accepted>>

\* Mistake: the acknowledged slots keep their content.
ProcessAcknackKeeps(first_unacked) ==
  /\ last_acknown' = Sub(first_unacked, 1)
  /\ UNCHANGED <<slot, last_written, last_sent, accepted>>

\* uxr_process_acknack: every number up to first_unacked is acknowledged.
ProcessAcknack(first_unacked) ==
  LET cleaned == Sub(Sub(first_unacked, 1), last_acknown) IN
  /\ last_acknown' = Sub(first_unacked, 1)
  /\ slot' = [k \in Slots |->
                IF \E i \in 1..cleaned : k = Add(last_acknown, i) % History
                THEN <<>> ELSE slot[k]]
  /\ UNCHANGED <<last_written, last_sent, accepted>>

\* uxr_next_reliable_nack_buffer_to_send, over the ring as it is after the
\* acknowledgement: whatever is still held is sent again.
Resent ==
  LET unacked == {Add(last_acknown', i) : i \in 1..Sub(last_sent, last_acknown')} IN
  {[seq |-> s, body |-> slot'[s % History]] :
     s \in {t \in unacked : slot'[t % History] # <<>>}}

-----------------------------------------------------------------------------
TypeRing ==
  /\ slot \in [Slots -> Seq(1..accepted)]
  /\ \A i \in Slots : Len(slot[i]) <= Capacity
  /\ {last_written, last_sent, last_acknown} \subseteq SeqNums
  /\ accepted \in Nat
=============================================================================
