-------------------------- MODULE DspLink_proofs --------------------------
(***************************************************************************)
(* What TLAPS proves of DspLink for every set of boards and of messages,   *)
(* every combination of faults and every number of restarts.               *)
(*                                                                         *)
(* Quiet is not inductive: what lies in the queues of the board a method   *)
(* waits for decides whether its link is at rest when the method returns.  *)
(* IInv says it for each place of a method.                                *)
(***************************************************************************)
EXTENDS DspLink, SequenceTheorems, TLAPS

-----------------------------------------------------------------------------
(* Queues. *)

\* What is left of a queue after its first samples were consumed.
LEMMA SuffixOf ==
  ASSUME NEW S, NEW queue \in Seq(S), NEW k \in 1..Len(queue)
  PROVE  /\ queue[k] \in S
         /\ SubSeq(queue, k + 1, Len(queue)) \in Seq(S)
         /\ Len(SubSeq(queue, k + 1, Len(queue))) = Len(queue) - k
         /\ \A i \in 1..(Len(queue) - k) :
              SubSeq(queue, k + 1, Len(queue))[i] = queue[k + i]
<1>1. Len(queue) \in Nat /\ k \in 1..Len(queue)
  BY LenProperties
<1>2. queue[k] \in S
  BY ElementOfSeq
<1>3. k + 1 \in 1..(Len(queue) + 1) /\ Len(queue) \in k..Len(queue)
  BY <1>1
<1>4. /\ SubSeq(queue, k + 1, Len(queue)) \in Seq(S)
      /\ Len(SubSeq(queue, k + 1, Len(queue))) = Len(queue) - k
      /\ \A i \in 1..(Len(queue) - k) :
           SubSeq(queue, k + 1, Len(queue))[i] = queue[k + i]
  BY <1>1, <1>3, ElementOfSeq
<1> QED
  BY <1>2, <1>4

\* Consuming adds no sample.
LEMMA SamplesOfSuffix ==
  ASSUME NEW S, NEW queue \in Seq(S), NEW k \in 1..Len(queue)
  PROVE  SamplesIn(SubSeq(queue, k + 1, Len(queue))) \subseteq SamplesIn(queue)
<1> DEFINE rest == SubSeq(queue, k + 1, Len(queue))
<1>1. /\ Len(rest) = Len(queue) - k
      /\ \A i \in 1..(Len(queue) - k) : rest[i] = queue[k + i]
  BY SuffixOf
<1>2. Len(queue) \in Nat
  BY LenProperties
<1> HIDE DEF rest
<1>3. ASSUME NEW i \in 1..Len(rest) PROVE \E j \in 1..Len(queue) : rest[i] = queue[j]
  <2>1. k + i \in 1..Len(queue) /\ rest[i] = queue[k + i]
    BY <1>1, <1>2
  <2> QED
    BY <2>1
<1>4. SamplesIn(rest) \subseteq SamplesIn(queue)
  BY <1>3 DEF SamplesIn
<1> QED
  BY <1>4 DEF rest

\* Publishing adds the sample published.
LEMMA SamplesOfAppend ==
  ASSUME NEW S, NEW queue \in Seq(S), NEW msg \in S
  PROVE  /\ Append(queue, msg) \in Seq(S)
         /\ SamplesIn(Append(queue, msg)) = SamplesIn(queue) \cup {msg}
<1>1. /\ Append(queue, msg) \in Seq(S)
      /\ Len(Append(queue, msg)) = Len(queue) + 1
      /\ \A i \in 1..Len(queue) : Append(queue, msg)[i] = queue[i]
      /\ Append(queue, msg)[Len(queue) + 1] = msg
  BY AppendProperties
<1>2. Len(queue) \in Nat
  BY LenProperties
<1> DEFINE longer == Append(queue, msg)
<1>3. /\ longer \in Seq(S) /\ Len(longer) = Len(queue) + 1
      /\ \A i \in 1..Len(queue) : longer[i] = queue[i]
      /\ longer[Len(queue) + 1] = msg
  BY <1>1
<1> HIDE DEF longer
<1>4. SamplesIn(longer) \subseteq SamplesIn(queue) \cup {msg}
  <2> SUFFICES ASSUME NEW i \in 1..Len(longer)
               PROVE  longer[i] = msg \/ \E j \in 1..Len(queue) : longer[i] = queue[j]
    BY DEF SamplesIn
  <2>1. i \in 1..Len(queue) \/ i = Len(queue) + 1
    BY <1>2, <1>3
  <2> QED
    BY <2>1, <1>3
<1>5. SamplesIn(queue) \subseteq SamplesIn(longer)
  <2> SUFFICES ASSUME NEW j \in 1..Len(queue)
               PROVE  \E i \in 1..Len(longer) : queue[j] = longer[i]
    BY DEF SamplesIn
  <2> QED
    BY <1>2, <1>3
<1>6. msg \in SamplesIn(longer)
  <2>1. Len(queue) + 1 \in 1..Len(longer)
    BY <1>2, <1>3
  <2> QED
    BY <2>1, <1>3 DEF SamplesIn
<1> QED
  BY <1>3, <1>4, <1>5, <1>6 DEF longer

\* A queue without samples offers none.
LEMMA SamplesOfEmpty == SamplesIn(<<>>) = {}
  BY DEF SamplesIn

-----------------------------------------------------------------------------
(* Types. *)

\* What a board can find in its queue.
Sent == Messages \cup Greetings \cup {"reconstruct"}

\* For every configuration: no queue, board or method leaves its type.
LEMMA TypeInductive == TypeOK /\ [Next]_vars => TypeOK'
<1> SUFFICES ASSUME TypeOK, [Next]_vars PROVE TypeOK'
  OBVIOUS
<1> USE LinksAssumption, BoundsAssumption
<1>0. restarts \in Nat /\ restarts <= MaxRestarts
  BY DEF TypeOK
<1>1. ASSUME NEW l \in Links, NEW r \in Requests, Call(l, r) PROVE TypeOK'
  BY <1>1 DEF TypeOK, Call, Board
<1>2. CASE Command
  <2>1. link \in Links /\ request \in Messages
    BY <1>2 DEF TypeOK, Command, Requests
  <2>2. Append(toDev[link], request) \in Seq(Sent)
    BY <2>1, SamplesOfAppend DEF TypeOK, Sent
  <2> QED
    BY <1>2, <2>1, <2>2 DEF TypeOK, Command, Board, Post, Goto, Sent, Requests
<1>3. CASE Reconstruct
  <2>1. link \in Links /\ Append(toDev[link], "reconstruct") \in Seq(Sent)
    BY <1>3, SamplesOfAppend DEF TypeOK, Sent, Reconstruct
  <2> QED
    BY <1>3, <2>1 DEF TypeOK, Reconstruct, Board, Post, Goto, Sent, Requests
<1>4. CASE Transfer
  BY <1>4 DEF TypeOK, Transfer, Goto, Idle
<1>5. ASSUME link \in Links, NEW k \in 1..Len(toFw[link]), Consume(k)
      PROVE  /\ toFw' \in [Links -> Seq({"ok", "ready"})]
             /\ recv_info_buf' \in {"0", "ok", "ready"}
  <2>1. toFw[link] \in Seq({"ok", "ready"})
    BY <1>5 DEF TypeOK
  <2>2. /\ toFw[link][k] \in {"ok", "ready"}
        /\ SubSeq(toFw[link], k + 1, Len(toFw[link])) \in Seq({"ok", "ready"})
    BY <1>5, <2>1, SuffixOf
  <2> QED
    BY <1>5, <2>2 DEF TypeOK, Consume
<1>6. CASE RecvInfo
  <2>1. link \in Links
    BY <1>6 DEF TypeOK, RecvInfo
  <2> QED
    BY <1>6, <2>1, <1>5 DEF TypeOK, RecvInfo, Board, Idle
<1>7. CASE Establish
  <2>1. link \in Links /\ request \in Requests
    BY <1>7 DEF TypeOK, Establish
  <2> QED
    BY <1>7, <2>1, <1>5 DEF TypeOK, Establish, Board, Idle, Goto
<1>8. CASE Greet
  <2>1. /\ link \in Links
        /\ Append(toDev[link], "connected ok") \in Seq(Sent)
        /\ Append(toDev[link], "EMPTY TEST") \in Seq(Sent)
    BY <1>8, SamplesOfAppend DEF TypeOK, Sent, Greet, Greetings
  <2> QED
    BY <1>8, <2>1 DEF TypeOK, Greet, Board, Post, Goto, Idle, Sent
<1>9. ASSUME NEW l \in Links, Take(l) PROVE TypeOK'
  <2>1. PICK k \in 1..Len(toDev[l]) :
          /\ toDev' = [toDev EXCEPT ![l] = SubSeq(@, k + 1, Len(@))]
          /\ LET msg == toDev[l][k] IN
             \/ msg \in Greetings /\ UNCHANGED <<toFw, Board>>
             \/ /\ msg = "reconstruct"
                /\ state' = [state EXCEPT ![l] = "reloading"]
                /\ UNCHANGED <<toFw, executed>>
             \/ /\ msg \in Messages
                /\ executed' = [executed EXCEPT ![l] = msg]
                /\ \/ Post(toFw, l, "ok")
                   \/ "mute" \in Faults /\ UNCHANGED toFw
                /\ UNCHANGED state
    BY <1>9 DEF Take
  <2>2. toDev[l] \in Seq(Sent) /\ toFw[l] \in Seq({"ok", "ready"})
    BY DEF TypeOK, Sent
  <2>3. SubSeq(toDev[l], k + 1, Len(toDev[l])) \in Seq(Sent)
    BY <2>2, SuffixOf
  <2>4. Append(toFw[l], "ok") \in Seq({"ok", "ready"})
    BY <2>2, SamplesOfAppend
  <2>5. toDev' \in [Links -> Seq(Sent)]
    BY <2>1, <2>3 DEF TypeOK, Sent
  <2>6. toFw' \in [Links -> Seq({"ok", "ready"})]
    BY <2>1, <2>4 DEF TypeOK, Post
  <2>7. /\ state' \in [Links -> {"up", "reloading", "silent"}]
        /\ executed' \in [Links -> Requests \cup {"boot"}]
    BY <2>1 DEF TypeOK, Board, Requests
  <2>8. UNCHANGED <<thread, recv_info_buf, orphan, restarts>>
    BY <1>9 DEF Take
  <2> QED
    BY <2>5, <2>6, <2>7, <2>8 DEF TypeOK, thread, Sent
<1>10. ASSUME NEW l \in Links, Boot(l) PROVE TypeOK'
  <2>1. toFw[l] \in Seq({"ok", "ready"}) /\ <<>> \in Seq(Sent)
    BY EmptySeq DEF TypeOK
  <2>2. Append(toFw[l], "ready") \in Seq({"ok", "ready"})
    BY <2>1, SamplesOfAppend
  <2> QED
    BY <1>10, <2>1, <2>2 DEF TypeOK, Boot, thread, Post, Sent, Requests
<1>11. ASSUME NEW l \in Links, Silence(l) PROVE TypeOK'
  BY <1>11 DEF TypeOK, Silence, thread
<1>12. CASE Restart
  <2>1. <<>> \in Seq({"ok", "ready"})
    BY EmptySeq
  <2>2. pc \notin {"idle", "call"} => link \in Links
    BY DEF TypeOK
  <2> QED
    BY <1>0, <1>12, <2>1, <2>2 DEF TypeOK, Restart, Idle, Board
<1>13. CASE UNCHANGED vars
  BY <1>13 DEF TypeOK, vars, thread
<1> QED
  BY <1>1, <1>2, <1>3, <1>4, <1>6, <1>7, <1>8, <1>9, <1>10, <1>11, <1>12, <1>13
     DEF Next, Progress, BoardRuns

\* The first state has its type.
LEMMA TypeInit == Init => TypeOK
<1>1. <<>> \in Seq({"ok", "ready"}) /\ <<>> \in Seq(Sent)
  BY EmptySeq
<1> QED
  BY <1>1, BoundsAssumption DEF Init, TypeOK, Sent

\* For every configuration: no queue, board or method leaves its type.
THEOREM TypeCorrect == Spec => []TypeOK
  BY TypeInit, TypeInductive, PTL DEF Spec

-----------------------------------------------------------------------------
(* The inductive invariant. *)

\* Nothing of a finished method is left on the link.
AtRest(l) ==
  /\ toFw[l] = <<>> /\ state[l] # "reloading"
  /\ SamplesIn(toDev[l]) \subseteq Greetings

\* A load was sent, and has not come to its end.
LoadSent(l) ==
  /\ toFw[l] = <<>>
  /\ SamplesIn(toDev[l]) \subseteq Greetings \cup {"reconstruct"}

\* The board is up again.
Announced(l) ==
  toFw[l] = <<"ready">> /\ toDev[l] = <<>> /\ state[l] # "reloading"

\* The request is the last sample under way, and only greetings precede it.
RequestSent(l) ==
  /\ toFw[l] = <<>> /\ state[l] # "reloading"
  /\ Len(toDev[l]) # 0 /\ toDev[l][Len(toDev[l])] = request
  /\ \A k \in 1..Len(toDev[l]) : k # Len(toDev[l]) => toDev[l][k] \in Greetings

\* The board executed the request; its answer is the only sample, or never comes.
RequestTaken(l) ==
  /\ toFw[l] \in {<<>>, <<"ok">>} /\ state[l] # "reloading"
  /\ SamplesIn(toDev[l]) \subseteq Greetings

LinkInv(l) ==
  /\ ~Waiting(l) => AtRest(l)
  /\ link = l /\ pc = "again" => LoadSent(l)
  /\ link = l /\ pc = "establish" => LoadSent(l) \/ Announced(l)
  /\ link = l /\ pc = "recv" => RequestSent(l) \/ RequestTaken(l)

IInv == TypeOK /\ \A l \in Links \ orphan : LinkInv(l)

\* A step that leaves a link alone, between two places where the method does not
\* wait for this board, leaves the link at rest.
LEMMA LeftAlone ==
  ASSUME NEW l \in Links, LinkInv(l), ~Waiting(l), ~Waiting(l)',
         toFw'[l] = toFw[l], toDev'[l] = toDev[l], state'[l] = state[l]
  PROVE  LinkInv(l)'
<1>1. AtRest(l)
  BY DEF LinkInv
<1>2. AtRest(l)'
  BY <1>1 DEF AtRest, SamplesIn
<1> QED
  BY <1>2 DEF LinkInv, Waiting

\* The same for a step of another board, wherever the method is.
LEMMA NotMoved ==
  ASSUME NEW l \in Links, LinkInv(l), UNCHANGED thread,
         toFw'[l] = toFw[l], toDev'[l] = toDev[l], state'[l] = state[l]
  PROVE  LinkInv(l)'
<1>1. /\ AtRest(l)' = AtRest(l) /\ LoadSent(l)' = LoadSent(l)
      /\ Announced(l)' = Announced(l) /\ RequestTaken(l)' = RequestTaken(l)
      /\ RequestSent(l)' = RequestSent(l)
  BY DEF AtRest, LoadSent, Announced, RequestTaken, RequestSent, SamplesIn, thread
<1> QED
  BY <1>1 DEF LinkInv, Waiting, thread

\* Facts of types that the steps below use.
LEMMA Types ==
  ASSUME TypeOK, NEW l \in Links
  PROVE  /\ toDev[l] \in Seq(Sent) /\ Len(toDev[l]) \in Nat
         /\ toFw[l] \in Seq({"ok", "ready"}) /\ Len(toFw[l]) \in Nat
         /\ pc # "idle" => link \in Links /\ request \in Requests
         /\ "reconstruct" \notin Messages /\ Messages \cap Greetings = {}
         /\ "load" \notin Messages
<1>1. toDev[l] \in Seq(Sent) /\ toFw[l] \in Seq({"ok", "ready"})
  BY DEF TypeOK, Sent
<1>2. Len(toDev[l]) \in Nat /\ Len(toFw[l]) \in Nat
  BY <1>1, LenProperties
<1> QED
  BY <1>1, <1>2, MessagesAssumption DEF TypeOK, Greetings

\* The framework sends a request: it is the last sample under way.
LEMMA CommandKeeps ==
  ASSUME TypeOK, Command, NEW l \in Links, LinkInv(l) PROVE LinkInv(l)'
<1>1. CASE l # link
  BY <1>1, LeftAlone DEF Command, Goto, Waiting, Post, Board, TypeOK
<1>2. CASE l = link
  <2>1. AtRest(l)
    BY <1>2 DEF Command, LinkInv, Waiting
  <2>2. request \in Sent /\ toDev[l] \in Seq(Sent) /\ Len(toDev[l]) \in Nat
    BY Types DEF Command, Sent, Requests
  <2>3. /\ toDev'[l] = Append(toDev[l], request) /\ toFw' = toFw /\ state' = state
        /\ link' = link /\ request' = request /\ pc' = "recv"
    BY <1>2 DEF Command, Goto, Post, Board, TypeOK
  <2>4. /\ Len(toDev'[l]) = Len(toDev[l]) + 1
        /\ \A k \in 1..Len(toDev[l]) : toDev'[l][k] = toDev[l][k]
        /\ toDev'[l][Len(toDev[l]) + 1] = request
    BY <2>2, <2>3, AppendProperties
  <2>5. \A k \in 1..Len(toDev[l]) : toDev[l][k] \in Greetings
    BY <2>1 DEF AtRest, SamplesIn
  <2>6. RequestSent(l)'
    BY <2>1, <2>2, <2>3, <2>4, <2>5 DEF RequestSent, AtRest
  <2> QED
    BY <1>2, <2>3, <2>6 DEF LinkInv, Waiting
<1> QED
  BY <1>1, <1>2

\* The framework sends a load: nothing but greetings is before it.
LEMMA ReconstructKeeps ==
  ASSUME TypeOK, Reconstruct, NEW l \in Links, LinkInv(l) PROVE LinkInv(l)'
<1>1. CASE l # link
  BY <1>1, LeftAlone DEF Reconstruct, Goto, Waiting, Post, Board, TypeOK
<1>2. CASE l = link
  <2>1. LoadSent(l)
    BY <1>2 DEF Reconstruct, LinkInv, Waiting, AtRest, LoadSent
  <2>2. "reconstruct" \in Sent /\ toDev[l] \in Seq(Sent)
    BY Types DEF Sent
  <2>3. /\ toDev'[l] = Append(toDev[l], "reconstruct") /\ toFw' = toFw
        /\ link' = link /\ pc' \in {"again", "establish"}
    BY <1>2 DEF Reconstruct, Goto, Post, TypeOK
  <2>4. SamplesIn(toDev'[l]) = SamplesIn(toDev[l]) \cup {"reconstruct"}
    BY <2>2, <2>3, SamplesOfAppend
  <2>5. LoadSent(l)'
    <3>1. SamplesIn(toDev'[l]) = SamplesIn(toDev[l])'
      BY DEF SamplesIn
    <3> QED
      BY <2>1, <2>3, <2>4 DEF LoadSent
  <2> QED
    BY <1>2, <2>3, <2>5 DEF LinkInv, Waiting
<1> QED
  BY <1>1, <1>2

\* A transfer puts nothing in a queue.
LEMMA TransferKeeps ==
  ASSUME TypeOK, Transfer, NEW l \in Links, LinkInv(l) PROVE LinkInv(l)'
<1>1. CASE l # link
  BY <1>1, LeftAlone DEF Transfer, Goto, Idle, Waiting, TypeOK
<1>2. CASE l = link
  <2>1. AtRest(l)
    BY <1>2 DEF Transfer, LinkInv, Waiting
  <2>2. LoadSent(l)'
    BY <2>1 DEF Transfer, LoadSent, AtRest, SamplesIn
  <2>3. CASE pc' = "establish" /\ link' = l
    BY <2>2, <2>3 DEF LinkInv, Waiting
  <2>4. CASE pc' = "idle" /\ state' = state
    BY <1>2, <2>4, LeftAlone DEF Transfer, Waiting
  <2> QED
    BY <1>2, <2>3, <2>4 DEF Transfer, Goto, Idle
<1> QED
  BY <1>1, <1>2

\* A sequence of one sample, once that sample was consumed, is empty.
LEMMA SoleSample ==
  ASSUME NEW e, NEW k \in 1..Len(<<e>>)
  PROVE  <<e>>[k] = e /\ SubSeq(<<e>>, k + 1, Len(<<e>>)) = <<>>
<1>1. <<e>> \in Seq({e}) /\ Len(<<e>>) = 1 /\ k = 1 /\ <<e>>[1] = e
  OBVIOUS
<1>2. /\ SubSeq(<<e>>, k + 1, Len(<<e>>)) \in Seq({e})
      /\ Len(SubSeq(<<e>>, k + 1, Len(<<e>>))) = 0
  BY <1>1, SuffixOf
<1> QED
  BY <1>1, <1>2, EmptySeq

\* The answer a method takes is that of its request.
LEMMA RecvInfoKeeps ==
  ASSUME TypeOK, RecvInfo, NEW l \in Links, LinkInv(l) PROVE LinkInv(l)'
<1>0. PICK k \in 1..Len(toFw[link]) : Consume(k)
  BY DEF RecvInfo
<1>1. CASE l # link
  BY <1>0, <1>1, LeftAlone DEF RecvInfo, Consume, Idle, Waiting, Board, TypeOK
<1>2. CASE l = link
  <2>1. toFw[l] # <<>>
    BY <1>0, <1>2
  <2>2. RequestTaken(l) /\ toFw[l] = <<"ok">>
    BY <1>2, <2>1 DEF RecvInfo, LinkInv, RequestSent, RequestTaken
  <2>3. toFw'[l] = <<>>
    BY <1>0, <1>2, <2>2, SoleSample DEF Consume, TypeOK
  <2>4. AtRest(l)'
    BY <2>2, <2>3 DEF RequestTaken, AtRest, RecvInfo, Board, SamplesIn
  <2> QED
    BY <2>4 DEF LinkInv, Waiting, RecvInfo, Idle
<1> QED
  BY <1>1, <1>2

\* What a load waits for can only be the announcement.
LEMMA Awaited ==
  ASSUME TypeOK, pc = "establish", link \in Links, LinkInv(link),
         NEW k \in 1..Len(toFw[link]), Consume(k)
  PROVE  /\ Announced(link) /\ toFw[link][k] = "ready" /\ toFw'[link] = <<>>
<1>1. toFw[link] # <<>>
  OBVIOUS
<1>2. Announced(link) /\ toFw[link] = <<"ready">>
  BY <1>1 DEF LinkInv, LoadSent, Announced
<1> QED
  BY <1>2, SoleSample DEF Consume, TypeOK

\* After the announcement the link is at rest.
LEMMA EstablishKeeps ==
  ASSUME TypeOK, Establish, NEW l \in Links, LinkInv(l) PROVE LinkInv(l)'
<1>0. PICK k \in 1..Len(toFw[link]) :
        /\ Consume(k)
        /\ IF toFw[link][k] = "ready" THEN Goto("greet") ELSE Idle
  BY DEF Establish
<1>1. CASE l # link
  BY <1>0, <1>1, LeftAlone
     DEF Establish, Consume, Goto, Idle, Waiting, Board, TypeOK
<1>2. CASE l = link
  <2>1. /\ toFw'[l] = <<>> /\ Announced(l) /\ pc' = "greet"
    BY <1>0, <1>2, Awaited DEF Establish, Goto
  <2>2. AtRest(l)'
    BY <2>1, SamplesOfEmpty DEF Announced, AtRest, Establish, Board, SamplesIn
  <2> QED
    BY <2>1, <2>2 DEF LinkInv, Waiting
<1> QED
  BY <1>1, <1>2

\* A greeting leaves the link at rest.
LEMMA GreetKeeps ==
  ASSUME TypeOK, Greet, NEW l \in Links, LinkInv(l) PROVE LinkInv(l)'
<1>1. CASE l # link
  BY <1>1, LeftAlone DEF Greet, Goto, Idle, Waiting, Post, Board, TypeOK
<1>2. CASE l = link
  <2>1. AtRest(l)
    BY <1>2 DEF Greet, LinkInv, Waiting
  <2>2. PICK msg \in Greetings : toDev'[l] = Append(toDev[l], msg)
    BY <1>2 DEF Greet, Post, Greetings, TypeOK
  <2>3. msg \in Sent /\ toDev[l] \in Seq(Sent)
    BY Types DEF Sent
  <2>4. SamplesIn(toDev'[l]) = SamplesIn(toDev[l]) \cup {msg}
    BY <2>2, <2>3, SamplesOfAppend
  <2>5. AtRest(l)'
    <3>1. SamplesIn(toDev'[l]) = SamplesIn(toDev[l])'
      BY DEF SamplesIn
    <3> QED
      BY <2>1, <2>4, <3>1 DEF AtRest, Greet, Board
  <2>6. ~Waiting(l)'
    BY DEF Greet, Goto, Idle, Waiting
  <2> QED
    BY <2>5, <2>6 DEF LinkInv, Waiting
<1> QED
  BY <1>1, <1>2

\* What a board that is not reloading finds in its queue, and what that leaves.
LEMMA TakeSplit ==
  ASSUME TypeOK, NEW l \in Links, Take(l)
  PROVE  \E k \in 1..Len(toDev[l]) :
           /\ toDev'[l] = SubSeq(toDev[l], k + 1, Len(toDev[l]))
           /\ SamplesIn(toDev[l])' \subseteq SamplesIn(toDev[l])
           /\ toDev[l][k] \in SamplesIn(toDev[l])
           /\ \A m \in Links \ {l} : /\ toDev'[m] = toDev[m] /\ toFw'[m] = toFw[m]
                                     /\ state'[m] = state[m]
                                     /\ executed'[m] = executed[m]
           /\ \/ toDev[l][k] \in Greetings /\ UNCHANGED <<toFw, state, executed>>
              \/ /\ toDev[l][k] = "reconstruct" /\ state'[l] = "reloading"
                 /\ UNCHANGED <<toFw, executed>>
              \/ /\ toDev[l][k] \in Messages /\ UNCHANGED state
                 /\ toFw'[l] \in {toFw[l], Append(toFw[l], "ok")}
                 /\ executed' = [executed EXCEPT ![l] = toDev[l][k]]
<1>1. PICK k \in 1..Len(toDev[l]) :
        /\ toDev' = [toDev EXCEPT ![l] = SubSeq(@, k + 1, Len(@))]
        /\ LET msg == toDev[l][k] IN
           \/ msg \in Greetings /\ UNCHANGED <<toFw, Board>>
           \/ /\ msg = "reconstruct"
              /\ state' = [state EXCEPT ![l] = "reloading"]
              /\ UNCHANGED <<toFw, executed>>
           \/ /\ msg \in Messages
              /\ executed' = [executed EXCEPT ![l] = msg]
              /\ \/ Post(toFw, l, "ok")
                 \/ "mute" \in Faults /\ UNCHANGED toFw
              /\ UNCHANGED state
  BY DEF Take
<1>2. toDev'[l] = SubSeq(toDev[l], k + 1, Len(toDev[l]))
  BY <1>1 DEF TypeOK
<1>3. SamplesIn(toDev[l])' \subseteq SamplesIn(toDev[l])
  <2>1. SamplesIn(toDev[l])' = SamplesIn(toDev'[l])
    BY DEF SamplesIn
  <2>2. toDev[l] \in Seq(Sent)
    BY Types
  <2> QED
    BY <1>2, <2>1, <2>2, SamplesOfSuffix
<1>4. toDev[l][k] \in SamplesIn(toDev[l])
  BY DEF SamplesIn
<1>5. \A m \in Links \ {l} : /\ toDev'[m] = toDev[m] /\ toFw'[m] = toFw[m]
                             /\ state'[m] = state[m]
                             /\ executed'[m] = executed[m]
  BY <1>1 DEF TypeOK, Board, Post
<1>6. \/ toDev[l][k] \in Greetings /\ UNCHANGED <<toFw, state, executed>>
      \/ /\ toDev[l][k] = "reconstruct" /\ state'[l] = "reloading"
         /\ UNCHANGED <<toFw, executed>>
      \/ /\ toDev[l][k] \in Messages /\ UNCHANGED state
         /\ toFw'[l] \in {toFw[l], Append(toFw[l], "ok")}
         /\ executed' = [executed EXCEPT ![l] = toDev[l][k]]
  BY <1>1 DEF TypeOK, Board, Post
<1> QED
  BY <1>2, <1>3, <1>4, <1>5, <1>6

\* A board that takes what precedes the request leaves the request last.
LEMMA GreetingTaken ==
  ASSUME TypeOK, NEW l \in Links, Take(l), RequestSent(l), UNCHANGED thread,
         NEW k \in 1..Len(toDev[l]), k # Len(toDev[l]),
         toDev'[l] = SubSeq(toDev[l], k + 1, Len(toDev[l])),
         toDev[l][k] \in Greetings => UNCHANGED <<toFw, state>>
  PROVE  RequestSent(l)'
<1>1. toDev[l] \in Seq(Sent) /\ Len(toDev[l]) \in Nat
  BY Types
<1>2. /\ Len(toDev'[l]) = Len(toDev[l]) - k
      /\ \A i \in 1..(Len(toDev[l]) - k) : toDev'[l][i] = toDev[l][k + i]
  BY <1>1, SuffixOf
<1>3. UNCHANGED <<toFw, state>>
  BY DEF RequestSent
<1>4. Len(toDev'[l]) # 0 /\ toDev'[l][Len(toDev'[l])] = request
  <2>1. /\ Len(toDev[l]) - k \in 1..(Len(toDev[l]) - k)
        /\ k + (Len(toDev[l]) - k) = Len(toDev[l])
    BY <1>1
  <2>2. toDev'[l][Len(toDev[l]) - k] = toDev[l][Len(toDev[l])]
    BY <1>2, <2>1
  <2>3. Len(toDev'[l]) = Len(toDev[l]) - k /\ Len(toDev[l]) - k # 0
    BY <1>1, <1>2
  <2> QED
    BY <2>2, <2>3 DEF RequestSent
<1>5. ASSUME NEW i \in 1..Len(toDev'[l]), i # Len(toDev'[l])
      PROVE  toDev'[l][i] \in Greetings
  BY <1>1, <1>2, <1>5 DEF RequestSent
<1> QED
  BY <1>3, <1>4, <1>5 DEF RequestSent, thread

\* A board that takes the last sample takes the request, and leaves nothing.
LEMMA RequestIsTaken ==
  ASSUME TypeOK, NEW l \in Links, pc = "recv", RequestSent(l),
         NEW k \in 1..Len(toDev[l]), k = Len(toDev[l]),
         toDev'[l] = SubSeq(toDev[l], k + 1, Len(toDev[l]))
  PROVE  /\ toDev[l][k] = request /\ toDev[l][k] \in Messages
         /\ SamplesIn(toDev[l])' = {}
<1>1. request \in Requests /\ request # "load"
  BY DEF TypeOK
<1>2. toDev[l] \in Seq(Sent) /\ Len(toDev[l]) \in Nat
  BY Types
<1>3. Len(toDev'[l]) = 0
  BY <1>2, SuffixOf
<1> QED
  BY <1>1, <1>3 DEF RequestSent, Requests, SamplesIn

\* A board that takes a sample answers it at most once, and only if it is the
\* request of the method that waits.
LEMMA TakeKeeps ==
  ASSUME TypeOK, NEW b \in Links, Take(b), NEW l \in Links, LinkInv(l)
  PROVE  LinkInv(l)'
<1>0. UNCHANGED thread
  BY DEF Take
<1>1. CASE l # b
  BY <1>0, <1>1, TakeSplit, NotMoved
<1>2. CASE l = b
  <2>1. PICK k \in 1..Len(toDev[l]) :
           /\ toDev'[l] = SubSeq(toDev[l], k + 1, Len(toDev[l]))
           /\ SamplesIn(toDev[l])' \subseteq SamplesIn(toDev[l])
           /\ toDev[l][k] \in SamplesIn(toDev[l])
           /\ \/ toDev[l][k] \in Greetings /\ UNCHANGED <<toFw, state, executed>>
              \/ /\ toDev[l][k] = "reconstruct" /\ state'[l] = "reloading"
                 /\ UNCHANGED <<toFw, executed>>
              \/ /\ toDev[l][k] \in Messages /\ UNCHANGED state
                 /\ toFw'[l] \in {toFw[l], Append(toFw[l], "ok")}
                 /\ executed' = [executed EXCEPT ![l] = toDev[l][k]]
    BY <1>2, TakeSplit
  <2>2. /\ "reconstruct" \notin Messages /\ Messages \cap Greetings = {}
        /\ "reconstruct" \notin Greetings
        /\ toDev[l] \in Seq(Sent) /\ Len(toDev[l]) \in Nat
    BY Types DEF Greetings
  <2>3. AtRest(l) => AtRest(l)'
    BY <2>1, <2>2 DEF AtRest
  <2>4. LoadSent(l) => LoadSent(l)'
    BY <2>1, <2>2 DEF LoadSent
  <2>5. ~Announced(l)
    <3> SUFFICES ASSUME toDev[l] = <<>> PROVE FALSE
      BY DEF Announced
    <3> QED
      BY <2>1, SamplesOfEmpty
  <2>6. RequestTaken(l) => RequestTaken(l)'
    BY <2>1, <2>2 DEF RequestTaken
  <2>7. RequestSent(l) /\ pc = "recv" => RequestSent(l)' \/ RequestTaken(l)'
    <3> SUFFICES ASSUME RequestSent(l), pc = "recv"
                 PROVE  RequestSent(l)' \/ RequestTaken(l)'
      OBVIOUS
    <3>1. CASE k # Len(toDev[l])
      <4>1. toDev[l][k] \in Greetings => UNCHANGED <<toFw, state>>
        BY <2>1, <2>2
      <4> QED
        BY <1>0, <1>2, <2>1, <3>1, <4>1, GreetingTaken
    <3>2. CASE k = Len(toDev[l])
      <4>1. toDev[l][k] \in Messages /\ SamplesIn(toDev[l])' = {}
        BY <2>1, <3>2, RequestIsTaken
      <4>2. UNCHANGED state /\ toFw'[l] \in {<<>>, <<"ok">>}
        <5>1. UNCHANGED state /\ toFw'[l] \in {toFw[l], Append(toFw[l], "ok")}
          BY <2>1, <2>2, <4>1
        <5>2. Append(<<>>, "ok") = <<"ok">>
          OBVIOUS
        <5> QED
          BY <5>1, <5>2 DEF RequestSent
      <4> QED
        BY <4>1, <4>2 DEF RequestSent, RequestTaken
    <3> QED
      BY <3>1, <3>2
  <2> QED
    BY <1>0, <2>3, <2>4, <2>5, <2>6, <2>7 DEF LinkInv, Waiting, thread
<1> QED
  BY <1>1, <1>2

\* A board comes up only for the load that waits for it, and lost what was in its
\* queue.
LEMMA BootKeeps ==
  ASSUME TypeOK, NEW b \in Links, Boot(b), NEW l \in Links, LinkInv(l)
  PROVE  LinkInv(l)'
<1>1. CASE l # b
  BY <1>1, NotMoved DEF Boot, Post, TypeOK
<1>2. CASE l = b
  <2>1. LoadSent(l) /\ link = l /\ pc = "establish"
    BY <1>2 DEF Boot, LinkInv, Waiting, AtRest, LoadSent, Announced, RequestSent,
                RequestTaken
  <2>2. /\ toDev'[l] = <<>> /\ state'[l] = "up"
        /\ toFw'[l] = Append(toFw[l], "ready")
    BY <1>2 DEF Boot, Post, TypeOK
  <2>3. Append(<<>>, "ready") = <<"ready">>
    OBVIOUS
  <2>4. Announced(l)'
    BY <2>1, <2>2, <2>3 DEF LoadSent, Announced
  <2> QED
    BY <2>1, <2>4 DEF LinkInv, Waiting, Boot, thread
<1> QED
  BY <1>1, <1>2

\* A board that falls silent says nothing.
LEMMA SilenceKeeps ==
  ASSUME TypeOK, NEW b \in Links, Silence(b), NEW l \in Links, LinkInv(l)
  PROVE  LinkInv(l)'
<1>1. /\ UNCHANGED <<thread, toDev, toFw>>
      /\ state'[l] # "reloading" \/ state'[l] = state[l]
  BY DEF Silence, TypeOK
<1>2. /\ AtRest(l) => AtRest(l)'
      /\ LoadSent(l) => LoadSent(l)'
      /\ Announced(l) => Announced(l)'
      /\ RequestTaken(l) => RequestTaken(l)'
      /\ RequestSent(l) => RequestSent(l)'
  BY <1>1 DEF AtRest, LoadSent, Announced, RequestTaken, RequestSent, SamplesIn, thread
<1> QED
  BY <1>1, <1>2 DEF LinkInv, Waiting, thread

\* A restart empties the queues of the new sessions; the board the old process was
\* waiting for is an orphan.
LEMMA RestartKeeps ==
  ASSUME TypeOK, Restart, NEW l \in Links, LinkInv(l), l \notin orphan'
  PROVE  LinkInv(l)'
<1>1. ~Waiting(l) /\ ~Waiting(l)'
  BY DEF Restart, Idle, Waiting, TypeOK
<1>2. AtRest(l) /\ toFw'[l] = toFw[l] /\ toDev' = toDev /\ state' = state
  BY <1>1 DEF LinkInv, Restart, AtRest, Board
<1> QED
  BY <1>1, <1>2, LeftAlone

\* Every step keeps the invariant.
LEMMA Inductive == IInv /\ [Next]_vars => IInv'
<1> SUFFICES ASSUME IInv, [Next]_vars PROVE IInv'
  OBVIOUS
<1>1. TypeOK /\ TypeOK'
  BY TypeInductive DEF IInv
<1> SUFFICES ASSUME NEW l \in Links, l \notin orphan' PROVE LinkInv(l)'
  BY <1>1 DEF IInv
<1>2. orphan \subseteq orphan'
  BY DEF Next, Call, Progress, Command, Reconstruct, Transfer, RecvInfo, Establish,
         Greet, BoardRuns, Take, Boot, Silence, Restart, vars
<1>3. LinkInv(l)
  BY <1>2 DEF IInv
<1>4. ASSUME NEW b \in Links, NEW r \in Requests, Call(b, r) PROVE LinkInv(l)'
  BY <1>1, <1>3, <1>4, LeftAlone DEF Call, Waiting, Board
<1>5. CASE UNCHANGED vars
  BY <1>3, <1>5, NotMoved DEF vars
<1> QED
  BY <1>1, <1>3, <1>4, <1>5, CommandKeeps, ReconstructKeeps, TransferKeeps,
     RecvInfoKeeps, EstablishKeeps, GreetKeeps, TakeKeeps, BootKeeps, SilenceKeeps,
     RestartKeeps
     DEF Next, Progress, BoardRuns

\* The invariant holds at the start.
LEMMA InitInv == Init => IInv
<1> SUFFICES ASSUME Init PROVE IInv
  OBVIOUS
<1>1. TypeOK
  BY TypeInit
<1>2. \A l \in Links : AtRest(l) /\ pc = "idle"
  BY SamplesOfEmpty DEF Init, AtRest
<1> QED
  BY <1>1, <1>2 DEF IInv, LinkInv, Waiting

\* The invariant of every execution.
LEMMA Invariant == Spec => []IInv
  BY InitInv, Inductive, PTL DEF Spec

-----------------------------------------------------------------------------
(* The theorems. *)

\* For every configuration: no method leaves anything of its exchange on the link,
\* neither an answer for the next method to take as its own, nor a reload under
\* way, nor a request.
THEOREM QuietCorrect == Spec => []Quiet
<1>1. IInv => Quiet
  BY DEF IInv, LinkInv, AtRest, Quiet
<1> QED
  BY <1>1, Invariant, PTL

\* For every configuration: a load that went as far as waiting for its board does
\* not return without the greetings.
THEOREM SynchronisedCorrect == Spec => Synchronised
<1>1. ASSUME IInv, [Next]_vars
      PROVE  [(/\ request = "load" /\ pc \notin {"call", "test"} /\ pc' = "idle"
               /\ link \notin orphan) => restarts' # restarts]_vars
  <2> SUFFICES ASSUME request = "load", pc \notin {"call", "test"}, pc' = "idle",
                      link \notin orphan, Next
               PROVE  restarts' # restarts
    BY <1>1
  <2>1. TypeOK /\ pc # "idle" /\ link \in Links /\ LinkInv(link)
    <3>1. TypeOK
      BY <1>1 DEF IInv
    <3>2. pc # "idle"
      BY <3>1 DEF TypeOK
    <3> QED
      BY <1>1, <3>1, <3>2 DEF IInv, TypeOK
  <2>2. CASE Establish
    <3>1. PICK k \in 1..Len(toFw[link]) :
            /\ Consume(k)
            /\ IF toFw[link][k] = "ready" THEN Goto("greet") ELSE Idle
      BY <2>2 DEF Establish
    <3>2. pc' = "greet"
      BY <2>1, <2>2, <3>1, Awaited DEF Establish, Goto
    <3> QED
      BY <3>2
  <2>3. CASE Restart
    <3>1. restarts \in Nat
      BY <2>1, BoundsAssumption DEF TypeOK
    <3> QED
      BY <2>3, <3>1 DEF Restart
  <2>4. ~Command /\ ~Transfer /\ ~RecvInfo /\ ~Reconstruct /\ ~Greet
    BY <2>1 DEF TypeOK, Command, Transfer, RecvInfo, Reconstruct, Greet, Goto
  <2> QED
    BY <2>1, <2>2, <2>3, <2>4
       DEF Next, Progress, Call, BoardRuns, Take, Boot, Silence, thread
<1> QED
  BY <1>1, Invariant, PTL DEF Spec, Synchronised

-----------------------------------------------------------------------------
(* Refinement. *)

\* What holds without a restart.
NoOrphans == MaxRestarts = 0 /\ IInv /\ orphan = {}

\* Without a restart no board is an orphan.
LEMMA NeverOrphan == MaxRestarts = 0 /\ Spec => []NoOrphans
<1>1. MaxRestarts = 0 /\ Init => NoOrphans
  BY InitInv DEF Init, NoOrphans
<1>2. NoOrphans /\ [Next]_vars => NoOrphans'
  <2>1. NoOrphans => ~Restart
    BY DEF NoOrphans, IInv, TypeOK, Restart
  <2>2. NoOrphans /\ [Next]_vars => orphan' = {}
    BY <2>1 DEF Next, Call, Progress, Command, Reconstruct, Transfer, RecvInfo,
                Establish, Greet, BoardRuns, Take, Boot, Silence, vars, NoOrphans
  <2> QED
    BY <2>2, Inductive DEF NoOrphans
<1> QED
  BY <1>1, <1>2, PTL DEF Spec

\* Whether the request is obeyed is a truth value.
LEMMA ObeyedValue ==
  /\ Obeyed = TRUE \/ Obeyed = FALSE
  /\ Obeyed' = TRUE \/ Obeyed' = FALSE
  BY DEF Obeyed

\* The board has not executed the request while a method is where it does not wait.
LEMMA NotObeyed ==
  ASSUME pc \in {"idle", "call", "again"} PROVE ~Obeyed
  BY DEF Obeyed

\* What the queues tell of the request, where the method waits.
LEMMA ObeyedWhere ==
  ASSUME TypeOK, link \in Links, LinkInv(link), pc \notin {"idle", "call"}
  PROVE  /\ pc = "recv" /\ RequestSent(link) => ~Obeyed
         /\ pc = "recv" /\ RequestTaken(link) => Obeyed
         /\ pc = "establish" /\ LoadSent(link) => ~Obeyed
         /\ pc = "establish" /\ Announced(link) => Obeyed
         /\ pc \in {"greet", "test"} => Obeyed
<1>1. /\ request \in Requests
      /\ pc = "recv" => request # "load"
      /\ pc \in {"establish", "greet", "test"} => request = "load"
  BY DEF TypeOK
<1>2. Messages \cap Greetings = {} /\ Len(toDev[link]) \in Nat
  BY Types
<1>3. pc = "recv" /\ RequestSent(link) => ~Obeyed
  BY <1>1, <1>2 DEF RequestSent, SamplesIn, Obeyed
<1>4. pc = "recv" /\ RequestTaken(link) => Obeyed
  BY <1>1, <1>2 DEF RequestTaken, Obeyed, Requests
<1>5. pc = "establish" /\ LoadSent(link) => ~Obeyed
  BY <1>1, SamplesOfEmpty DEF LoadSent, Obeyed
<1>6. pc = "establish" /\ Announced(link) => Obeyed
  BY <1>1 DEF Announced, Obeyed, SamplesIn
<1>7. pc \in {"greet", "test"} => Obeyed
  BY <1>1 DEF Obeyed
<1> QED
  BY <1>3, <1>4, <1>5, <1>6, <1>7

\* The method in progress stays, and whether it is obeyed.
AskedStays == link' = link /\ request' = request /\ executed' = executed

\* A step of the method that is neither its beginning nor its end.
LEMMA InnerStep ==
  ASSUME AskedStays, Obeyed' <=> Obeyed PROVE UNCHANGED E!vars
<1>1. Obeyed' = Obeyed
  BY ObeyedValue
<1> QED
  BY <1>1 DEF AskedStays, E!vars

\* A method begins.
LEMMA CallAsks ==
  ASSUME TypeOK, NEW l \in Links, NEW r \in Requests, Call(l, r) PROVE E!Next
<1>1. ~Obeyed /\ ~Obeyed' /\ link = "none" /\ request = "none"
  BY DEF Call, Obeyed, TypeOK
<1>2. Obeyed' = Obeyed /\ executed' = executed
  BY <1>1, ObeyedValue DEF Call, Board
<1>3. E!Ask(l, r)
  BY <1>1, <1>2 DEF Call, E!Ask, E!NoMethod
<1> QED
  BY <1>3 DEF E!Next

\* What a method does before it waits is its own, unless it ends for lack of a file.
LEMMA SendingIsInner ==
  ASSUME TypeOK, TypeOK', \A l \in Links : LinkInv(l), \A l \in Links : LinkInv(l)',
         Command \/ Reconstruct \/ Transfer
  PROVE  E!Next \/ UNCHANGED E!vars
<1>0. link \in Links /\ request \in Requests
  BY DEF TypeOK, Command, Reconstruct, Transfer
<1>1. CASE Command
  <2>1. AskedStays /\ pc' = "recv" /\ pc = "call" /\ request \in Messages
    BY <1>0, <1>1 DEF Command, Goto, Board, AskedStays, Requests
  <2>2. ~Obeyed
    BY <2>1, NotObeyed
  <2>3. request \in SamplesIn(toDev[link])'
    <3>1. request \in Sent /\ toDev[link] \in Seq(Sent)
      BY <2>1, <1>0, Types DEF Sent
    <3>2. toDev'[link] = Append(toDev[link], request)
      BY <1>0, <1>1 DEF Command, Post, TypeOK
    <3>3. request \in SamplesIn(toDev'[link])
      BY <3>1, <3>2, SamplesOfAppend
    <3> QED
      BY <3>3, <2>1 DEF SamplesIn, AskedStays
  <2>4. ~Obeyed'
    BY <2>1, <2>3, <1>1 DEF Obeyed, Command, AskedStays, SamplesIn
  <2> QED
    BY <2>1, <2>2, <2>4, InnerStep
<1>2. CASE Reconstruct
  <2>1. AskedStays /\ pc' \in {"again", "establish"} /\ pc \in {"call", "again"}
    BY <1>2 DEF Reconstruct, Goto, Board, AskedStays
  <2>2. toFw[link] = <<>> /\ toFw' = toFw
    BY <1>0, <1>2 DEF Reconstruct, LinkInv, Waiting, AtRest, LoadSent
  <2>3. ~Obeyed /\ ~Obeyed'
    BY <2>1, <2>2, <1>2, SamplesOfEmpty, NotObeyed
       DEF Obeyed, Reconstruct, AskedStays, SamplesIn
  <2> QED
    BY <2>1, <2>3, InnerStep
<1>3. CASE Transfer
  <2>1. ~Obeyed
    BY <1>3, NotObeyed DEF Transfer
  <2>2. CASE pc' = "idle"
    <3>1. /\ ~Obeyed' /\ request = "load" /\ link' = "none" /\ request' = "none"
          /\ executed' = executed
      BY <1>3, <2>2 DEF Transfer, Obeyed, Idle, Goto
    <3>2. Obeyed' = Obeyed
      BY <2>1, <3>1, ObeyedValue
    <3>3. E!Refuse
      BY <2>1, <3>1, <3>2 DEF E!Refuse, E!NoMethod
    <3> QED
      BY <3>3 DEF E!Next
  <2>3. CASE pc' = "establish"
    <3>1. AskedStays /\ toFw[link] = <<>> /\ toFw' = toFw /\ request = "load"
      BY <1>0, <1>3, <2>3
         DEF Transfer, Goto, Idle, AskedStays, LinkInv, Waiting, AtRest
    <3>2. ~Obeyed'
      BY <2>3, <3>1, SamplesOfEmpty DEF Obeyed, AskedStays, SamplesIn
    <3> QED
      BY <2>1, <3>1, <3>2, InnerStep
  <2> QED
    BY <1>3, <2>2, <2>3 DEF Transfer, Idle, Goto
<1> QED
  BY <1>1, <1>2, <1>3

\* A method returns only when the board has executed its request.
LEMMA EndingReturns ==
  ASSUME TypeOK, \A l \in Links : LinkInv(l), RecvInfo \/ Establish \/ Greet
  PROVE  E!Next \/ UNCHANGED E!vars
<1>0. link \in Links /\ request \in Requests
  BY DEF TypeOK, RecvInfo, Establish, Greet
<1>1. Obeyed
  <2>1. CASE RecvInfo
    <3>1. toFw[link] # <<>> /\ pc = "recv"
      BY <2>1 DEF RecvInfo
    <3>2. RequestTaken(link)
      BY <1>0, <3>1 DEF LinkInv, RequestSent
    <3> QED
      BY <1>0, <3>1, <3>2, ObeyedWhere
  <2>2. CASE Establish
    <3>1. pc = "establish" /\ Announced(link)
      BY <1>0, <2>2, Awaited DEF Establish
    <3> QED
      BY <1>0, <3>1, ObeyedWhere
  <2>3. CASE Greet
    BY <1>0, <2>3, ObeyedWhere DEF Greet
  <2> QED
    BY <2>1, <2>2, <2>3
<1>2. executed' = executed
  BY DEF RecvInfo, Establish, Greet, Board
<1>3. CASE pc' = "idle"
  <2>1. ~Obeyed' /\ link' = "none" /\ request' = "none"
    BY <1>3 DEF RecvInfo, Establish, Greet, Idle, Goto, Obeyed
  <2>2. Obeyed' = FALSE
    BY <2>1, ObeyedValue
  <2>3. E!Return
    BY <1>0, <1>1, <1>2, <2>1, <2>2, LinksAssumption DEF E!Return, E!NoMethod
  <2> QED
    BY <2>3 DEF E!Next
<1>4. CASE pc' # "idle"
  <2>1. pc' \in {"greet", "test"} /\ AskedStays /\ request = "load"
    BY <1>2, <1>4 DEF RecvInfo, Establish, Greet, Idle, Goto, AskedStays, TypeOK
  <2>2. Obeyed'
    BY <2>1 DEF Obeyed, AskedStays
  <2> QED
    BY <1>1, <2>1, <2>2, InnerStep
<1> QED
  BY <1>3, <1>4

\* A board executes nothing but the request of the method that waits for it.
LEMMA TakeObeys ==
  ASSUME TypeOK, \A l \in Links : LinkInv(l), NEW b \in Links, Take(b)
  PROVE  E!Next \/ UNCHANGED E!vars
<1>1. UNCHANGED thread
  BY DEF Take
<1>2. PICK k \in 1..Len(toDev[b]) :
        /\ toDev'[b] = SubSeq(toDev[b], k + 1, Len(toDev[b]))
        /\ SamplesIn(toDev[b])' \subseteq SamplesIn(toDev[b])
        /\ toDev[b][k] \in SamplesIn(toDev[b])
        /\ \A m \in Links \ {b} : /\ toDev'[m] = toDev[m] /\ toFw'[m] = toFw[m]
                                  /\ state'[m] = state[m]
                                  /\ executed'[m] = executed[m]
        /\ \/ toDev[b][k] \in Greetings /\ UNCHANGED <<toFw, state, executed>>
           \/ /\ toDev[b][k] = "reconstruct" /\ state'[b] = "reloading"
              /\ UNCHANGED <<toFw, executed>>
           \/ /\ toDev[b][k] \in Messages /\ UNCHANGED state
              /\ toFw'[b] \in {toFw[b], Append(toFw[b], "ok")}
              /\ executed' = [executed EXCEPT ![b] = toDev[b][k]]
  BY TakeSplit
<1>3. /\ "reconstruct" \notin Messages /\ Messages \cap Greetings = {}
      /\ "reconstruct" \notin Greetings
      /\ pc # "idle" => link \in Links /\ request \in Requests
      /\ Len(toDev[b]) \in Nat
  BY Types DEF Greetings
<1>4. RequestSent(b) /\ toDev[b][k] \in Messages => k = Len(toDev[b])
  BY <1>3 DEF RequestSent
<1>5. CASE toDev[b][k] \in Messages
  \* It can only be the request of a method that waits for this board.
  <2>1. ~AtRest(b) /\ ~LoadSent(b) /\ ~RequestTaken(b) /\ ~Announced(b)
    <3>1. toDev[b] # <<>>
      BY <1>2, SamplesOfEmpty
    <3>2. Messages \cap (Greetings \cup {"reconstruct"}) = {}
      BY <1>3
    <3> QED
      BY <1>2, <1>5, <3>1, <3>2 DEF AtRest, LoadSent, RequestTaken, Announced
  <2>2. link = b /\ pc = "recv" /\ RequestSent(b)
    BY <2>1 DEF LinkInv, Waiting
  <2>3. ~Obeyed
    BY <2>2, ObeyedWhere
  <2>4. toDev[b][k] = request /\ SamplesIn(toDev[b])' = {}
    BY <1>2, <1>4, <1>5, <2>2, RequestIsTaken
  <2>5. Obeyed' /\ Obeyed' = TRUE
    <3>1. Obeyed'
      BY <1>1, <2>2, <2>4 DEF Obeyed, thread, SamplesIn, TypeOK
    <3> QED
      BY <3>1, ObeyedValue
  <2>6. executed' = [executed EXCEPT ![b] = request]
    BY <1>2, <1>3, <1>5, <2>4
  <2>7. E!Obey
    BY <1>1, <2>2, <2>3, <2>5, <2>6, LinksAssumption DEF E!Obey, E!NoMethod, thread
  <2> QED
    BY <2>7 DEF E!Next
<1>6. CASE toDev[b][k] \notin Messages
  <2>1. UNCHANGED <<toFw, executed>>
    BY <1>2, <1>6
  <2>2. Obeyed' <=> Obeyed
    <3>1. CASE pc \notin {"recv", "establish"}
      BY <1>1, <3>1 DEF Obeyed, thread, TypeOK
    <3>2. CASE pc = "establish"
      BY <1>1, <2>1, <3>2 DEF Obeyed, thread, SamplesIn, TypeOK
    <3>3. CASE pc = "recv" /\ link # b
      BY <1>1, <1>2, <1>3, <2>1, <3>3 DEF Obeyed, thread, SamplesIn
    <3>4. CASE pc = "recv" /\ link = b /\ RequestTaken(b)
      <4>1. request \in Messages
        BY <3>4 DEF TypeOK, Requests
      <4>2. request \notin SamplesIn(toDev[b]) /\ request \notin SamplesIn(toDev[b])'
        BY <1>2, <1>3, <3>4, <4>1 DEF RequestTaken
      <4> QED
        BY <1>1, <3>4, <4>2 DEF Obeyed, thread, SamplesIn, TypeOK
    <3>5. CASE pc = "recv" /\ link = b /\ RequestSent(b)
      <4>1. ~Obeyed
        BY <3>5, ObeyedWhere
      <4>2. k # Len(toDev[b])
        BY <1>2, <1>6, <3>5, RequestIsTaken
      <4>3. RequestSent(b)'
        <5>1. toDev[b][k] \in Greetings => UNCHANGED <<toFw, state>>
          BY <1>2, <1>3
        <5> QED
          BY <1>1, <1>2, <3>5, <4>2, <5>1, GreetingTaken
      <4>4. toDev'[b] \in Seq(Sent) /\ Len(toDev'[b]) \in Nat
        <5>1. toDev'[b] \in Seq(Sent)
          BY <1>2, Types, SuffixOf
        <5> QED
          BY <5>1, LenProperties
      <4>5. request' \in SamplesIn(toDev[b])'
        BY <4>3, <4>4 DEF RequestSent, SamplesIn
      <4>6. ~Obeyed'
        BY <1>1, <3>5, <4>5 DEF Obeyed, thread, SamplesIn, TypeOK
      <4> QED
        BY <4>1, <4>6
    <3> QED
      BY <3>1, <3>2, <3>3, <3>4, <3>5 DEF LinkInv
  <2> QED
    BY <1>1, <2>1, <2>2, InnerStep DEF AskedStays, thread
<1> QED
  BY <1>5, <1>6

\* A board comes up for the load that waits for it.
LEMMA BootObeys ==
  ASSUME TypeOK, \A l \in Links : LinkInv(l), NEW b \in Links, Boot(b)
  PROVE  E!Next \/ UNCHANGED E!vars
<1>1. LoadSent(b) /\ link = b /\ pc = "establish" /\ request = "load"
  BY DEF Boot, LinkInv, Waiting, AtRest, LoadSent, Announced, RequestSent,
         RequestTaken, TypeOK
<1>2. ~Obeyed
  BY <1>1, ObeyedWhere
<1>3. toFw'[b] = <<"ready">>
  BY <1>1 DEF LoadSent, Boot, Post, TypeOK
<1>4. Obeyed' = TRUE
  <2>1. Obeyed'
    BY <1>1, <1>3 DEF Obeyed, Boot, thread, SamplesIn
  <2> QED
    BY <2>1, ObeyedValue
<1>5. E!Obey
  BY <1>1, <1>2, <1>4, LinksAssumption DEF E!Obey, E!NoMethod, Boot, thread
<1> QED
  BY <1>5 DEF E!Next

\* Every step of the link is a step of the exchange, or none.
LEMMA StepImplements ==
  NoOrphans /\ NoOrphans' /\ [Next]_vars => E!Next \/ UNCHANGED E!vars
<1> SUFFICES ASSUME NoOrphans, NoOrphans', [Next]_vars
             PROVE  E!Next \/ UNCHANGED E!vars
  OBVIOUS
<1>1. /\ TypeOK /\ \A l \in Links : LinkInv(l)
      /\ TypeOK' /\ \A l \in Links : LinkInv(l)'
  BY DEF NoOrphans, IInv
<1>2. ~Restart
  BY <1>1 DEF NoOrphans, TypeOK, Restart
<1>3. ASSUME NEW l \in Links, Silence(l) PROVE UNCHANGED E!vars
  <2>1. AskedStays /\ (Obeyed' <=> Obeyed)
    BY <1>3 DEF Silence, AskedStays, thread, Obeyed, SamplesIn
  <2> QED
    BY <2>1, InnerStep
<1>4. CASE UNCHANGED vars
  <2>1. AskedStays /\ (Obeyed' <=> Obeyed)
    BY <1>4 DEF vars, AskedStays, thread, Obeyed, SamplesIn
  <2> QED
    BY <2>1, InnerStep
<1> QED
  BY <1>1, <1>2, <1>3, <1>4, CallAsks, SendingIsInner, EndingReturns, TakeObeys,
     BootObeys
     DEF Next, Progress, BoardRuns

\* For every configuration, while the framework is not restarted: each method has
\* its request executed exactly once, by its own board, before it returns.
THEOREM Implements == MaxRestarts = 0 /\ Spec => ImplementsExchange
<1>1. Init => E!Init
  <2> SUFFICES ASSUME Init PROVE E!Init
    OBVIOUS
  <2>1. ~Obeyed
    BY DEF Init, Obeyed
  <2>2. Obeyed = FALSE
    BY <2>1, ObeyedValue
  <2> QED
    BY <2>2 DEF Init, E!Init, E!NoMethod
<1>2. NoOrphans /\ NoOrphans' /\ [Next]_vars => [E!Next]_(E!vars)
  BY StepImplements
<1> QED
  BY <1>1, <1>2, NeverOrphan, PTL DEF Spec, ImplementsExchange, E!Spec
=============================================================================
