------------------------------ MODULE DspLink ------------------------------
(***************************************************************************)
(* The exchanges of device methods with boards over DDS: DeviceDSP.cpp,    *)
(* DeviceFPGA.cpp and DspPublisherTwo.cpp on the side of the framework,    *)
(* ssdp_messageQ(1).c on the side of a board.  Each link has a reliable    *)
(* queue in either direction.  Nothing in a reply says which request it    *)
(* answers: a method takes what comes first.                               *)
(*                                                                         *)
(* The program of a board is not part of the repository.  It is taken to   *)
(* answer each request once, to announce itself once after a reload, and   *)
(* to lose what is sent to it while it reloads.                            *)
(***************************************************************************)
EXTENDS Integers, Sequences

CONSTANTS
  Links,        \* the boards
  Fpgas,        \* those of them that are loaded by DMA, not by a message
  Messages,     \* the requests a board answers: start, stop, config, switch
  Faults,       \* what may go wrong, see FaultsAssumption
  MaxRestarts   \* bound: how often the operator restarts the framework

ASSUME LinksAssumption == Fpgas \subseteq Links /\ "none" \notin Links
ASSUME MessagesAssumption ==
         Messages \cap {"load", "reconstruct", "connected ok", "EMPTY TEST"} = {}
\* missing  the bit file to load does not exist
\* dma      a transfer of a bit file fails
\* mute     a board executes a request and never answers
\* silent   a board stops executing requests
ASSUME FaultsAssumption == Faults \subseteq {"missing", "dma", "mute", "silent"}
ASSUME BoundsAssumption == MaxRestarts \in Nat

Requests == Messages \cup {"load"}

VARIABLES
  pc,             \* where the only thread is in the method it executes
  link, request,  \* the board and the argument of the method
  recv_info_buf,  \* the last reply, of whichever board
  toDev, toFw,    \* the samples under way, per link
  state,          \* board: "up", "reloading", "silent"
  executed,       \* board: the last request it executed
  orphan,         \* boards whose answer a dead process was waiting for
  restarts

thread == <<pc, link, request>>
vars == <<thread, recv_info_buf, toDev, toFw, state, executed, orphan, restarts>>

Greetings == {"connected ok", "EMPTY TEST"}

Init ==
  /\ pc = "idle" /\ link = "none" /\ request = "none"
  /\ recv_info_buf = "0"
  /\ toDev = [l \in Links |-> <<>>] /\ toFw = [l \in Links |-> <<>>]
  /\ state = [l \in Links |-> "up"]
  /\ executed = [l \in Links |-> "boot"]
  /\ orphan = {} /\ restarts = 0

-----------------------------------------------------------------------------
(* The framework. *)

Post(queue, l, msg) == queue' = [queue EXCEPT ![l] = Append(@, msg)]

Board == <<state, executed>>
Idle  == pc' = "idle" /\ link' = "none" /\ request' = "none"
Goto(step) == pc' = step /\ UNCHANGED <<link, request>>

Call(l, r) ==
  /\ pc = "idle"
  /\ pc' = "call" /\ link' = l /\ request' = r
  /\ UNCHANGED <<recv_info_buf, toDev, toFw, Board, orphan, restarts>>

\* Mistake: the method does not wait for the answer.
CommandUnanswered ==
  /\ pc = "call" /\ request # "load"
  /\ Post(toDev, link, request)
  /\ Idle
  /\ UNCHANGED <<recv_info_buf, toFw, Board, orphan, restarts>>

\* DEV_Start, DEV_Stop, DEV_Configure, DEV_Write: send_info(message, true).
Command ==
  /\ pc = "call" /\ request # "load"
  /\ Post(toDev, link, request)
  /\ Goto("recv")
  /\ UNCHANGED <<recv_info_buf, toFw, Board, orphan, restarts>>

\* DeviceDSP::DEV_Load sends its message twice, and waits for neither.
Reconstruct ==
  /\ pc \in {"call", "again"} /\ request = "load" /\ link \notin Fpgas
  /\ Post(toDev, link, "reconstruct")
  /\ Goto(IF pc = "call" THEN "again" ELSE "establish")
  /\ UNCHANGED <<recv_info_buf, toFw, Board, orphan, restarts>>

\* Mistake: the method returns when the transfer is complete.
TransferUnsynchronised ==
  /\ pc = "call" /\ request = "load" /\ link \in Fpgas
  /\ Idle
  /\ \/ Faults \cap {"missing", "dma"} # {} /\ UNCHANGED state
     \/ state' = [state EXCEPT ![link] = "reloading"]
  /\ UNCHANGED <<recv_info_buf, toDev, toFw, executed, orphan, restarts>>

\* DeviceFPGA::DEV_Load: without a file it returns, after a failed transfer it
\* waits all the same.
Transfer ==
  /\ pc = "call" /\ request = "load" /\ link \in Fpgas
  /\ \/ /\ "missing" \in Faults
        /\ Idle /\ UNCHANGED state
     \/ /\ Goto("establish")
        /\ \/ "dma" \in Faults /\ UNCHANGED state
           \/ state' = [state EXCEPT ![link] = "reloading"]
  /\ UNCHANGED <<recv_info_buf, toDev, toFw, executed, orphan, restarts>>

\* uxr_run_session_until_all_status: it returns after a packet that carried at
\* least one sample, and on_topic keeps the last of them.
Consume(k) ==
  /\ recv_info_buf' = toFw[link][k]
  /\ toFw' = [toFw EXCEPT ![link] = SubSeq(@, k + 1, Len(@))]

RecvInfo ==
  /\ pc = "recv"
  /\ \E k \in 1..Len(toFw[link]) : Consume(k)
  /\ Idle
  /\ UNCHANGED <<toDev, Board, orphan, restarts>>

\* establish_connection: anything but the announcement ends it without the
\* greetings, and DEV_Load does not look at the result.
Establish ==
  /\ pc = "establish"
  /\ \E k \in 1..Len(toFw[link]) :
       /\ Consume(k)
       /\ IF toFw[link][k] = "ready" THEN Goto("greet") ELSE Idle
  /\ UNCHANGED <<toDev, Board, orphan, restarts>>

\* Mistake: an answer to the second greeting is waited for.
GreetAnswered ==
  /\ \/ pc = "greet" /\ Post(toDev, link, "connected ok") /\ Goto("test")
     \/ pc = "test"  /\ Post(toDev, link, "EMPTY TEST")   /\ Goto("recv")
  /\ UNCHANGED <<recv_info_buf, toFw, Board, orphan, restarts>>

Greet ==
  /\ \/ pc = "greet" /\ Post(toDev, link, "connected ok") /\ Goto("test")
     \/ pc = "test"  /\ Post(toDev, link, "EMPTY TEST")   /\ Idle
  /\ UNCHANGED <<recv_info_buf, toFw, Board, orphan, restarts>>

\* The operator ends the process and starts it again. The new sessions receive
\* what is published from now on.
Restart ==
  /\ restarts < MaxRestarts /\ restarts' = restarts + 1
  /\ orphan' = orphan \cup (IF pc \in {"idle", "call"} THEN {} ELSE {link})
  /\ Idle
  /\ recv_info_buf' = "0"
  /\ toFw' = [l \in Links |-> <<>>]
  /\ UNCHANGED <<toDev, Board>>

-----------------------------------------------------------------------------
(* A board. *)

\* ssdp_udp_recv_data: the mailbox has room for one message, so of several that
\* arrived only the last is seen.
Take(l) ==
  /\ state[l] = "up"
  /\ \E k \in 1..Len(toDev[l]) :
       /\ toDev' = [toDev EXCEPT ![l] = SubSeq(@, k + 1, Len(@))]
       /\ LET msg == toDev[l][k] IN
          \/ msg \in Greetings /\ UNCHANGED <<toFw, Board>>
          \/ /\ msg = "reconstruct"
             /\ state' = [state EXCEPT ![l] = "reloading"]
             /\ UNCHANGED <<toFw, executed>>
          \/ /\ msg \in Messages
             /\ executed' = [executed EXCEPT ![l] = msg]
             /\ \/ Post(toFw, l, "ok")
                \/ "mute" \in Faults /\ UNCHANGED toFw
             /\ UNCHANGED state
  /\ UNCHANGED <<thread, recv_info_buf, orphan, restarts>>

\* The reload takes longer than DEV_Load takes to send its second message.
Boot(l) ==
  /\ state[l] = "reloading"
  /\ ~(pc = "again" /\ link = l)
  /\ state' = [state EXCEPT ![l] = "up"]
  /\ executed' = [executed EXCEPT ![l] = "load"]
  /\ toDev' = [toDev EXCEPT ![l] = <<>>]
  /\ Post(toFw, l, "ready")
  /\ UNCHANGED <<thread, recv_info_buf, orphan, restarts>>

Silence(l) ==
  /\ "silent" \in Faults
  /\ state' = [state EXCEPT ![l] = "silent"]
  /\ UNCHANGED <<thread, recv_info_buf, toDev, toFw, executed, orphan, restarts>>

-----------------------------------------------------------------------------

Progress == Command \/ Reconstruct \/ Transfer \/ RecvInfo \/ Establish \/ Greet
BoardRuns(l) == Take(l) \/ Boot(l)

Next ==
  \/ \E l \in Links, r \in Requests : Call(l, r)
  \/ Progress
  \/ \E l \in Links : BoardRuns(l) \/ Silence(l)
  \/ Restart

Spec == /\ Init /\ [][Next]_vars
        /\ WF_vars(Progress)
        /\ \A l \in Links : WF_vars(BoardRuns(l))
-----------------------------------------------------------------------------
(* Properties. *)

\* Every variable stays in its type, and the thread is in a method exactly while
\* that method has a board and a request.
TypeOK ==
  /\ pc \in {"idle", "call", "again", "establish", "greet", "test", "recv"}
  /\ IF pc = "idle" THEN link = "none" /\ request = "none"
                    ELSE link \in Links /\ request \in Requests
  /\ pc \in {"again", "establish", "greet", "test"} => request = "load"
  /\ pc = "recv" => request # "load"
  /\ recv_info_buf \in {"0", "ok", "ready"}
  /\ toDev \in [Links -> Seq(Messages \cup Greetings \cup {"reconstruct"})]
  /\ toFw \in [Links -> Seq({"ok", "ready"})]
  /\ state \in [Links -> {"up", "reloading", "silent"}]
  /\ executed \in [Links -> Requests \cup {"boot"}]
  /\ orphan \subseteq Links /\ restarts \in 0..MaxRestarts

SamplesIn(queue) == {queue[k] : k \in 1..Len(queue)}

Waiting(l) == link = l /\ pc \in {"again", "recv", "establish"}

\* Between two methods a link is at rest: no answer lies in its queue for the
\* next method to take as its own, the board is not in the middle of a reload,
\* and no request is still under way to it. (Unless a process died while it
\* waited for this board: its answer comes to the next process.)
Quiet ==
  \A l \in Links \ orphan :
    ~Waiting(l) => /\ toFw[l] = <<>> /\ state[l] # "reloading"
                   /\ SamplesIn(toDev[l]) \subseteq Greetings

\* Every load that did not fail for lack of its file ends with the greetings
\* the board waits for: "receive dsp ready, send connected ok, send EMPTY TEST"
\* (SSDP_API.cpp:181).
Synchronised ==
  [][(/\ request = "load" /\ pc \notin {"call", "test"} /\ pc' = "idle"
      /\ link \notin orphan) => restarts' # restarts]_vars

Obeyed ==
  /\ pc \in {"recv", "establish", "greet", "test"}
  /\ IF request = "load" THEN pc \in {"greet", "test"} \/ "ready" \in SamplesIn(toFw[link])
     ELSE request \notin SamplesIn(toDev[link])

E == INSTANCE Exchange WITH
       asked  <- [link |-> link, request |-> request],
       obeyed <- Obeyed

\* A device method does what the rest of the framework takes it to do: the board
\* executes the request exactly once before the method returns, and no other
\* board does anything meanwhile - while nothing in a reply tells which request
\* it answers, and whatever fails.
ImplementsExchange == E!Spec

\* With boards that answer, no method waits for ever, not even the first ones
\* after a restart, which may receive what was meant for the process that died.
MethodEnds == (pc # "idle") ~> (pc = "idle")
=============================================================================
