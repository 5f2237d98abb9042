--------------------------- MODULE ReliableStream ---------------------------
(***************************************************************************)
(* A reliable stream of the XRCE client over UDP, from one end to the      *)
(* other: output_reliable_stream.c and input_reliable_stream.c, driven by  *)
(* session.c.  The framework owns both ends: it sends through session 1 of *)
(* a publisher and receives through session 2.  The agent is not part of   *)
(* the repository; it is taken to run the same protocol at its end.        *)
(*                                                                         *)
(* A datagram may be lost, come twice, or be overtaken.  Its life is       *)
(* bounded: MaxAge sequence numbers for data, MaxAcks later ones for an    *)
(* acknowledgement.                                                        *)
(***************************************************************************)
EXTENDS OutputStream, SequencesExt

CONSTANTS
  Lengths,      \* of messages, in units
  OrderedAcks,  \* no acknowledgement is overtaken by a later one
  MaxUnits,     \* bound: units written in a behaviour
  MaxAge,       \* bound: how far a datagram lags behind the last one sent
  MaxAcks       \* bound: acknowledgements under way

ASSUME StreamAssumption ==
  /\ Lengths \subseteq 1..Capacity /\ OrderedAcks \in BOOLEAN
  /\ MaxUnits \in Nat /\ MaxAcks \in Nat \ {0}
  /\ MaxAge \in 1..(SeqSize \div 2)

NoBeat == SeqSize

VARIABLES
  run,           \* the session: "listening" inside uxr_run_session_time,
                 \* "idle" outside
  data,          \* datagrams under way
  beat,          \* the heartbeat under way, by the last number it announces
  acks,          \* acknowledgements under way, in the order they were sent
  held,          \* slots of the input stream
  last_handled, last_announced,
  delivered      \* history: what was handed to the callback

input == <<held, last_handled, last_announced, delivered>>
vars == <<ring, run, data, beat, acks, input>>

Init ==
  /\ InitRing
  /\ run = "idle"
  /\ data = {} /\ beat = NoBeat /\ acks = <<>>
  /\ held = [i \in Slots |-> <<>>]
  /\ last_handled = SeqSize - 1 /\ last_announced = SeqSize - 1
  /\ delivered = <<>>

-----------------------------------------------------------------------------
(* The sender. *)

\* uxr_prepare_output_stream and the serialisation of a message, between two
\* runs of the session.
WriteMessage ==
  /\ run = "idle"
  /\ \E len \in Lengths : accepted + len <= MaxUnits /\ Write(len)
  /\ UNCHANGED <<run, data, beat, acks, input>>

Young(datagrams) == {d \in datagrams : Sub(last_sent', d.seq) < MaxAge}

\* uxr_run_session_time: first whatever was written goes out.
RunSession ==
  /\ run = "idle" /\ run' = "listening"
  /\ Flash
  /\ data' = Young(data \cup Sent)
  /\ beat' = IF beat # NoBeat /\ Sub(last_sent', beat) >= MaxAge THEN NoBeat ELSE beat
  /\ UNCHANGED <<acks, input>>

\* Mistake: the heartbeat announces what is acknowledged already.
HeartbeatOld ==
  /\ run = "listening" /\ Before(last_acknown, last_sent)
  /\ beat' = last_acknown
  /\ UNCHANGED <<ring, run, data, acks, input>>

\* listen_message_reliably: a heartbeat now and then, for as long as something is
\* unconfirmed.
Heartbeat ==
  /\ run = "listening" /\ Before(last_acknown, last_sent)
  /\ beat' = last_sent
  /\ UNCHANGED <<ring, run, data, acks, input>>

\* read_submessage_acknack. (A second copy would be like the acknowledgement that
\* the reader sends for a repeated datagram.)
ReceiveAcknack(k) ==
  /\ run = "listening"
  /\ ProcessAcknack(acks[k].first_unacked)
  /\ data' = IF acks[k].nack THEN Young(data \cup Resent) ELSE data
  /\ acks' = IF OrderedAcks THEN SubSeq(acks, k + 1, Len(acks)) ELSE RemoveAt(acks, k)
  /\ UNCHANGED <<run, beat, input>>

\* uxr_run_session_time returns after a second of silence. The heartbeats back
\* off, from one run to the next too: there may have been none.
Return ==
  /\ run = "listening"
  /\ run' = "idle"
  /\ UNCHANGED <<ring, data, beat, acks, input>>

-----------------------------------------------------------------------------
(* The receiver. *)

Held(s) == held[s % History]

\* uxr_next_input_reliable_buffer_available, in the loop of read_stream: how many
\* of the datagrams after number s can be handled now.
Ready(s) ==
  CHOOSE n \in 0..(History - 1) :
    /\ \A i \in 1..n : Held(Add(s, i)) # <<>>
    /\ n = History - 1 \/ Held(Add(s, n + 1)) = <<>>

\* uxr_receive_reliable_message
Handle(d) ==
  LET n == Ready(d.seq) IN
  /\ last_handled' = Add(d.seq, n)
  /\ delivered' = delivered \o d.body \o FlattenSeq([i \in 1..n |-> Held(Add(d.seq, i))])
  /\ held' = [k \in Slots |-> IF \E i \in 1..n : k = Add(d.seq, i) % History
                              THEN <<>> ELSE held[k]]

\* Mistake: a datagram handled before is not told apart.
InWindowAnyOld(s) == ~Before(Add(last_handled, History), s)

InWindow(s) == Before(last_handled, s) /\ ~Before(Add(last_handled, History), s)

Accept(d) ==
  IF ~InWindow(d.seq) THEN UNCHANGED <<held, last_handled, delivered>>
  ELSE IF d.seq = Add(last_handled, 1) THEN Handle(d)
  ELSE /\ held' = [held EXCEPT ![d.seq % History] = IF @ = <<>> THEN d.body ELSE @]
       /\ UNCHANGED <<last_handled, delivered>>

Announce(s) ==
  last_announced' = IF Before(last_announced, s) THEN s ELSE last_announced

\* Mistake: everything announced is acknowledged.
FirstUnackedAnnounced == Add(last_announced', 1)

\* uxr_compute_acknack, over the stream as the handler leaves it.
FirstUnacked ==
  LET empty == {i \in 1..History : held'[Add(last_handled', i) % History] = <<>>} IN
  IF empty = {} THEN last_handled'
  ELSE Add(last_handled', CHOOSE i \in empty : \A j \in empty : i <= j)

Missing ==
  \E i \in 1..Sub(last_announced', Sub(FirstUnacked, 1)) :
    held'[Add(FirstUnacked, i - 1) % History] = <<>>

SendAcknack ==
  LET sent == Append(acks, [first_unacked |-> FirstUnacked, nack |-> Missing])
      lost == IF Len(sent) > MaxAcks THEN 1 ELSE 0
  IN acks' = SubSeq(sent, lost + 1, Len(sent))

\* read_stream. The copy under way may be received again.
ReceiveData(s) ==
  /\ \E d \in data : d.seq = s /\ Accept(d)
  /\ Announce(s)
  /\ SendAcknack
  /\ UNCHANGED <<ring, run, data, beat>>

\* read_submessage_heartbeat
ReceiveHeartbeat ==
  /\ beat # NoBeat /\ beat' = NoBeat
  /\ Announce(beat)
  /\ UNCHANGED <<held, last_handled, delivered>>
  /\ SendAcknack
  /\ UNCHANGED <<ring, run, data>>

-----------------------------------------------------------------------------
(* The network. *)

\* An idle session reads no acknowledgement: whether one is lost shows when it
\* listens.
Lose ==
  /\ \/ \E d \in data : data' = data \ {d} /\ UNCHANGED <<beat, acks>>
     \/ beat # NoBeat /\ beat' = NoBeat /\ UNCHANGED <<data, acks>>
     \/ /\ run = "listening"
        /\ \E k \in 1..Len(acks) : acks' = RemoveAt(acks, k)
        /\ UNCHANGED <<data, beat>>
  /\ UNCHANGED <<ring, run, input>>

Next ==
  \/ WriteMessage \/ RunSession \/ Heartbeat \/ Return
  \/ \E k \in 1..Len(acks) : ReceiveAcknack(k)
  \/ \E s \in SeqNums : ReceiveData(s)
  \/ ReceiveHeartbeat
  \/ Lose

\* Whether the session is ever run, and whether a run ends, is up to its users.
\* In sessions that are run for ever every back-off ends, and of what is sent
\* again and again something arrives.
Spec ==
  /\ Init /\ [][Next]_vars
  /\ SF_vars(Heartbeat)
  /\ SF_vars(acks # <<>> /\ ReceiveAcknack(Len(acks)))
  /\ \A s \in SeqNums : SF_vars(ReceiveData(s))
  /\ SF_vars(ReceiveHeartbeat)

-----------------------------------------------------------------------------
(* Properties. *)

\* Every variable stays in its type.
TypeOK ==
  /\ TypeRing
  /\ run \in {"idle", "listening"}
  /\ data \subseteq [seq : SeqNums, body : Seq(1..accepted)]
  /\ beat \in SeqNums \cup {NoBeat}
  /\ acks \in Seq([first_unacked : SeqNums, nack : BOOLEAN])
  /\ held \in [Slots -> Seq(1..accepted)]
  /\ last_handled \in SeqNums /\ last_announced \in SeqNums
  /\ delivered \in Seq(1..accepted)

\* The stream is a queue: what is handed to the callback is what was written,
\* in its order, each unit once - although datagrams are lost, repeated and
\* overtaken, slots are used again and sequence numbers start over.
F == INSTANCE Fifo WITH posted <- accepted, taken <- delivered
ImplementsFifo == F!Spec

\* Nothing that the reader still waits for has left the ring, so it can be sent
\* again: the datagram after the last one handled is in its slot, and begins
\* with the unit that comes next.
Retained ==
  Before(last_handled, last_sent) =>
    LET next == Slot(Add(last_handled, 1)) IN
    next # <<>> /\ next[1] = Len(delivered) + 1

\* A session that returns "confirmed" has handed everything over that was
\* written, and not only sent it ("true in case of the Agent confirms the
\* reception of all the output messages", session.h:286).
ConfirmedDelivered ==
  [][run = "listening" /\ run' = "idle" /\ Confirmed => Len(delivered) = accepted]_vars

\* A message is dropped only while others are unconfirmed: a session that
\* returns "confirmed" leaves room for a message of any length that fits a slot.
RoomAgain ==
  [][run = "listening" /\ run' = "idle" /\ Confirmed
       => Slot(last_written) = <<>> /\ Available(last_written)]_vars

RunAgainAndAgain == []<>(run = "idle") /\ []<>(run = "listening")

\* Whatever was written is handed over in the end - if the session is run again
\* and again, which its users have to see to, and not everything is lost for
\* ever. (Only MaxUnits units are written, so this says of each of them that it
\* is handed over.)
Delivered == RunAgainAndAgain => <>[](Len(delivered) = accepted)
=============================================================================
