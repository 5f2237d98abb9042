----------------------------- MODULE SSDPServer -----------------------------
(***************************************************************************)
(* The TCP server of the framework, SSDPServer.cpp: one thread, epoll, and *)
(* blocking sockets. A request is a flag, and after it an instruction, or  *)
(* the name, the size and the bytes of a file. The server reads each part  *)
(* with one recv and takes what is there; nothing marks where a request    *)
(* ends.                                                                   *)
(*                                                                         *)
(* A stream is a sequence of items. An item stands for some bytes of one   *)
(* part of one request; flag, name and size are one item each. Of what a   *)
(* client sent some prefix has arrived, so a recv returns any number of    *)
(* items up to its limit, and may cut an item in two. A client is one      *)
(* connection.                                                             *)
(***************************************************************************)
EXTENDS Integers, Sequences

CONSTANTS
  Clients,
  Careless,     \* those that do not wait for an answer before they ask again,
                \* and who disconnect in the middle of a request
  Names,        \* names of files; all clients share one directory
  InsSize, FileSize,  \* length of an instruction and of a file
  BufferSize,   \* MAX_BUFFER_SIZE
  MaxPolite, MaxCareless  \* bounds: requests per client of either kind

Polite == Clients \ Careless
Nobody == "nobody"
NoName == "no name"

ASSUME ClientsAssumption ==
         /\ Careless \subseteq Clients /\ Nobody \notin Clients /\ NoName \notin Names
ASSUME SizesAssumption ==
         /\ BufferSize \in Nat /\ InsSize \in 1..BufferSize
         /\ FileSize \in Nat /\ MaxPolite \in Nat /\ MaxCareless \in Nat

None     == [kind |-> "none", n |-> 0, name |-> NoName]
Garbage  == [kind |-> "garbage", n |-> 0, name |-> NoName]
MaxRequests == IF MaxPolite < MaxCareless THEN MaxCareless ELSE MaxPolite
Requests == [kind : {"instruction", "query"}, n : 1..MaxRequests, name : {NoName}]
              \cup [kind : {"file"}, n : 1..MaxRequests, name : Names]

Field(r, part) == [of |-> r, part |-> part, i |-> 0]
Body(r) == [i \in 1..(IF r.kind = "file" THEN FileSize ELSE InsSize) |->
              [of |-> r, part |-> "body", i |-> i]]
Message(r) ==
  <<Field(r, "flag")>> \o
  CASE r.kind = "instruction" -> Body(r)
    [] r.kind = "file"        -> <<Field(r, "name"), Field(r, "size")>> \o Body(r)
    [] r.kind = "query"       -> <<>>

\* What is left of an item that was read in part.
Rag == Field(Garbage, "rag")

\* A file on the disk: whose it is, and what it holds, which is not told apart when
\* it is nobody's.
File(c, r, bytes) == [client |-> c, req |-> r, bytes |-> bytes]
Spoilt == File(Nobody, None, <<>>)

VARIABLES
  \* the server
  pc,         \* where the only thread is
  batch,      \* events returned by epoll_wait and not handled yet
  cur,        \* handle_message: the client that is served
  req,        \* the request read, as the server understood it
  path,       \* the file it opened
  want, got,  \* the size it expects of the file, and how much it has received
  \* the disk
  disk,       \* name |-> the file of that name
  unclosed,   \* files that an interrupted transfer never closed
  \* what happened to the polite clients, as sequences of requests that only grow
  asked, executed, answered,
  lost,       \* clients of whom an item was cut, or a file was not opened
  \* connections
  conn,       \* "none", "backlog", "open", "closed"
  toServer, toClient,
  \* clients
  state,      \* "away", "here", "left", "aborted"
  count       \* requests sent

local  == <<cur, req, path, want, got>>
server == <<pc, batch, local>>
files  == <<disk, unclosed>>
log    == <<asked, executed, answered, lost>>
net    == <<conn, toServer, toClient>>
client == <<state, count>>
vars   == <<server, files, log, net, client>>

Init ==
  /\ pc = "loop" /\ batch = {}
  /\ cur = Nobody /\ req = None /\ path = NoName /\ want = 0 /\ got = 0
  /\ disk = [f \in Names |-> Spoilt] /\ unclosed = {}
  /\ asked = [c \in Polite |-> <<>>] /\ executed = [c \in Polite |-> <<>>]
  /\ answered = [c \in Polite |-> <<>>] /\ lost = {}
  /\ conn = [c \in Clients |-> "none"]
  /\ toServer = [c \in Clients |-> <<>>] /\ toClient = [c \in Polite |-> <<>>]
  /\ state = [c \in Clients |-> "away"] /\ count = [c \in Clients |-> 0]

-----------------------------------------------------------------------------
(* Clients. What careless clients read is left out. Bound: a polite client *)
(* that is lost asks no more.                                              *)

\* Bound: neither the clients nor the loop of the server go on once the server has
\* stopped, or no client is left to whom anything is promised.
Up == pc \notin {"hung", "dead"} /\ \E c \in Polite : c \notin lost

Connect(c) ==
  /\ Up /\ state[c] = "away" /\ state' = [state EXCEPT ![c] = "here"]
  /\ conn' = [conn EXCEPT ![c] = "backlog"]
  /\ UNCHANGED <<server, files, log, toServer, toClient, count>>

Waits(c) == c \in Polite /\ (c \in lost \/ Len(answered[c]) < Len(asked[c]))
Most(c)  == IF c \in Polite THEN MaxPolite ELSE MaxCareless

Ask(c, kind, name) ==
  /\ Up /\ state[c] = "here" /\ ~Waits(c) /\ count[c] < Most(c)
  /\ count' = [count EXCEPT ![c] = @ + 1]
  /\ LET r == [kind |-> kind, n |-> count[c] + 1, name |-> name] IN
     /\ asked' = IF c \in Polite THEN [asked EXCEPT ![c] = Append(@, r)] ELSE asked
     /\ toServer' = [toServer EXCEPT ![c] = @ \o Message(r)]
  /\ UNCHANGED <<server, files, executed, answered, lost, conn, toClient, state>>

TakeReply(c) ==
  /\ c \in Polite /\ state[c] = "here" /\ toClient[c] # <<>>
  /\ answered' = [answered EXCEPT ![c] = Append(@, Head(toClient[c]))]
  /\ toClient' = [toClient EXCEPT ![c] = Tail(@)]
  /\ UNCHANGED <<server, files, asked, executed, lost, conn, toServer, client>>

\* A careless client leaves without having sent all of its last requests.
Leave(c) ==
  /\ Up /\ state[c] = "here" /\ ~Waits(c)
  /\ state' = [state EXCEPT ![c] = "left"]
  /\ \E k \in 0..Len(toServer[c]) : toServer' = [toServer EXCEPT ![c] = SubSeq(@, 1, k)]
  /\ UNCHANGED <<server, files, log, conn, toClient, count>>

\* The connection is reset: what was not read is lost.
Abort(c) ==
  /\ Up /\ state[c] = "here" /\ c \in Careless
  /\ state' = [state EXCEPT ![c] = "aborted"]
  /\ toServer' = [toServer EXCEPT ![c] = <<>>]
  /\ UNCHANGED <<server, files, log, conn, toClient, count>>

-----------------------------------------------------------------------------
(* The loop of do_epoll. *)

Readable == {c \in Clients : /\ conn[c] = "open"
                             /\ toServer[c] # <<>> \/ state[c] # "here"}
Backlog  == {c \in Clients : conn[c] = "backlog"}

EpollWait ==
  /\ Up /\ pc = "loop" /\ batch = {}
  /\ \/ Backlog = {} /\ Readable # {} /\ batch' = Readable
     \/ \E c \in Backlog : batch' = Readable \cup {c}
  /\ UNCHANGED <<pc, local, files, log, net, client>>

DoAccept(c) ==
  /\ Up /\ pc = "loop" /\ c \in batch /\ conn[c] = "backlog"
  /\ batch' = batch \ {c}
  /\ conn' = [conn EXCEPT ![c] = "open"]
  /\ UNCHANGED <<pc, local, files, log, toServer, toClient, client>>

HandleMessage(c) ==
  /\ Up /\ pc = "loop" /\ c \in batch /\ conn[c] = "open"
  /\ batch' = batch \ {c} /\ cur' = c /\ pc' = "flag"
  /\ UNCHANGED <<req, path, want, got, files, log, net, client>>

-----------------------------------------------------------------------------
(* do_recv. Each step is one recv: it takes what has arrived of what was   *)
(* sent, blocks while nothing has, sees the end of the connection, or      *)
(* fails.                                                                  *)

Incoming == toServer[cur]
Ended    == Incoming = <<>> /\ state[cur] = "left"
Failed   == state[cur] = "aborted"
Begins(part) == Incoming # <<>> /\ Head(Incoming).part = part

Take(k) == toServer' = [toServer EXCEPT ![cur] = SubSeq(@, k + 1, Len(@))]
Chunk(k) == SubSeq(Incoming, 1, k)
Sizes    == {k \in 1..BufferSize : k <= Len(Incoming)}

Lose == lost' = lost \cup {cur}

\* A recv takes a part of an item only. Bounds: one item of each client is cut so,
\* and what is left of it is then taken at once.
Cut  == /\ cur \notin lost /\ Incoming # <<>> /\ Head(Incoming) # Rag
        /\ toServer' = [toServer EXCEPT ![cur] = <<Rag>> \o Tail(@)] /\ Lose
\* A recv reads something else than its field, or a part of it.
Misread(part) == \/ Incoming # <<>> /\ ~Begins(part) /\ Take(1) /\ UNCHANGED lost
                 \/ Cut

\* handle_message returns; with the connection closed; or the process ends. exit
\* writes what is left in the buffers of the files that are not closed.
Return == /\ pc' = "loop" /\ cur' = Nobody /\ req' = None /\ path' = NoName
          /\ want' = 0 /\ got' = 0
Close  == Return /\ conn' = [conn EXCEPT ![cur] = "closed"]
Die    == pc' = "dead" /\ UNCHANGED <<local, conn>>
Exit   == /\ Die
          /\ \E some \in SUBSET unclosed :
               disk' = [f \in Names |-> IF f \in some THEN Spoilt ELSE disk[f]]

Goto(step) == pc' = step /\ UNCHANGED <<cur, conn>>
After(kind) == CASE kind = "instruction" -> "ins"
                 [] kind = "file"        -> "name"
                 [] kind = "query"       -> "handle"

RecvFlag ==
  /\ pc = "flag"
  /\ \/ (Ended \/ Failed) /\ Close /\ UNCHANGED <<toServer, lost>>
     \/ /\ Begins("flag") /\ Take(1) /\ UNCHANGED lost
        /\ req' = Head(Incoming).of /\ Goto(After(req'.kind))
        /\ UNCHANGED <<path, want, got>>
     \/ /\ Misread("flag")
        /\ \/ Return /\ UNCHANGED conn
           \/ /\ \E step \in {"ins", "name", "handle"} : Goto(step)
              /\ req' = Garbage /\ UNCHANGED <<path, want, got>>
  /\ UNCHANGED <<batch, files, asked, executed, answered, toClient, client>>

\* The instruction ends at its first zero byte, which every flag begins with.
Instruction(chunk) ==
  LET r == chunk[1].of IN
  IF /\ r.kind = "instruction" /\ Len(chunk) >= InsSize
     /\ SubSeq(chunk, 1, InsSize) = Body(r)
     /\ Len(chunk) > InsSize => chunk[InsSize + 1].part = "flag"
  THEN r ELSE Garbage

RecvIns ==
  /\ pc = "ins"
  /\ \/ Ended /\ Close /\ UNCHANGED <<toServer, disk, lost>>
     \/ Failed /\ Exit /\ UNCHANGED <<toServer, lost>>
     \/ /\ \E k \in Sizes : /\ Take(k) /\ req' = Instruction(Chunk(k))
                           /\ IF k < InsSize THEN Lose ELSE UNCHANGED lost
        /\ Goto("conduct") /\ UNCHANGED <<path, want, got, disk>>
  /\ UNCHANGED <<batch, unclosed, asked, executed, answered, toClient, client>>

\* The result of recv is not looked at, unless it is an error: at the end of the
\* connection the name is empty. Any name may come of a misread one.
RecvName ==
  /\ pc = "name"
  /\ \/ Failed /\ Exit /\ UNCHANGED <<toServer, lost>>
     \/ /\ Goto("size") /\ UNCHANGED <<want, got, disk>>
        /\ \/ Ended /\ req' = None /\ path' = NoName /\ UNCHANGED <<toServer, lost>>
           \/ /\ Begins("name") /\ Take(1) /\ UNCHANGED lost
              /\ req' = Head(Incoming).of /\ path' = req'.name
           \/ /\ Misread("name") /\ req' = Garbage /\ path' \in Names
  /\ UNCHANGED <<batch, unclosed, asked, executed, answered, toClient, client>>

\* recvFile opens the file, and what the file of that name held is gone. When it
\* cannot open it, and it never can without a name, it returns and leaves the rest
\* of the request in the stream.
OpenFile(n) ==
  /\ path # NoName /\ Goto("data") /\ want' = n
  /\ disk' = [disk EXCEPT ![path] = IF req = Garbage THEN Spoilt
                                    ELSE File(cur, req, <<>>)]
  /\ UNCHANGED <<req, path, got>>
NotOpened == Return /\ UNCHANGED <<conn, disk>>

RecvSize ==
  /\ pc = "size"
  /\ \/ Failed /\ Exit /\ UNCHANGED <<toServer, lost>>
     \/ Ended /\ (OpenFile(0) \/ NotOpened) /\ UNCHANGED <<toServer, lost>>
     \/ /\ Begins("size") /\ Take(1)
        /\ (OpenFile(FileSize) /\ UNCHANGED lost) \/ (NotOpened /\ Lose)
     \/ Misread("size") /\ (NotOpened \/ \E n \in 0..(FileSize + 1) : OpenFile(n))
  /\ UNCHANGED <<batch, unclosed, asked, executed, answered, toClient, client>>

\* Mistake: one byte short.
MoreShort == want > got + 1

\* Mistake: a signed comparison.
MoreSigned == want > got

\* Mistake: n - count >= 0, of an unsigned number.
MoreAlways == TRUE

\* n - count > 0 is computed without sign: it also holds when too much arrived.
More == want # got

Write(bytes) == disk' = [disk EXCEPT ![path].bytes = IF req = Garbage THEN @ ELSE @ \o bytes]

\* The file is closed when it is complete, and not when the connection ends.
RecvFile ==
  /\ pc = "data"
  /\ \/ ~More /\ Goto("handle") /\ UNCHANGED <<req, path, want, got, files, toServer>>
     \/ /\ More /\ Ended /\ Close /\ UNCHANGED toServer
        /\ unclosed' = unclosed \cup {path} /\ disk' = [disk EXCEPT ![path] = Spoilt]
     \/ More /\ Failed /\ Exit /\ UNCHANGED <<unclosed, toServer>>
     \/ /\ More /\ \E k \in Sizes : /\ Take(k) /\ got' = got + k
                                   /\ Write(Chunk(k))
        /\ UNCHANGED <<pc, cur, req, path, want, unclosed, conn>>
  /\ UNCHANGED <<batch, log, toClient, client>>

-----------------------------------------------------------------------------
(* handle_message. *)

Executed == executed' = IF cur \in Polite \ lost
                        THEN [executed EXCEPT ![cur] = Append(@, req)] ELSE executed

\* ReceiveCommand carries out an instruction on the boards. It returns, waits for
\* ever for a board that says nothing or goes round for ever, or throws out of main.
Conduct ==
  /\ pc = "conduct" /\ pc' \in {"send", "hung", "dead"} /\ Executed
  /\ UNCHANGED <<batch, local, files, asked, answered, lost, net, client>>

\* A file is on the disk already; what a query asks for is at hand.
Handle ==
  /\ pc = "handle" /\ pc' = "send" /\ Executed
  /\ UNCHANGED <<batch, local, files, asked, answered, lost, net, client>>

\* do_send writes twice, and nothing catches SIGPIPE: when the client has gone,
\* the second write may end the process.
DoSend ==
  /\ pc = "send"
  /\ \/ /\ state[cur] = "here" /\ Return /\ UNCHANGED conn
        /\ toClient' = IF cur \in Polite THEN [toClient EXCEPT ![cur] = Append(@, req)]
                       ELSE toClient
     \/ /\ state[cur] # "here" /\ UNCHANGED toClient
        /\ Die \/ (Return /\ UNCHANGED conn)
  /\ UNCHANGED <<batch, files, log, toServer, client>>

-----------------------------------------------------------------------------

Server ==
  \/ EpollWait
  \/ \E c \in Clients : DoAccept(c) \/ HandleMessage(c)
  \/ RecvFlag \/ RecvIns \/ RecvName \/ RecvSize \/ RecvFile
  \/ Conduct \/ Handle \/ DoSend

Client(c) ==
  \/ Connect(c)
  \/ \E kind \in {"instruction", "query"} : Ask(c, kind, NoName)
  \/ \E name \in Names : Ask(c, "file", name)
  \/ TakeReply(c) \/ Leave(c) \/ Abort(c)

Next == Server \/ \E c \in Clients : Client(c)

Spec == /\ Init /\ [][Next]_vars
        /\ WF_vars(Server)
        /\ \A c \in Polite : WF_vars(TakeReply(c))
-----------------------------------------------------------------------------
(* Properties. *)

\* Every variable stays in its type.
TypeOK ==
  /\ pc \in {"loop", "flag", "ins", "name", "size", "data", "conduct", "handle",
             "send", "hung", "dead"}
  /\ batch \subseteq Clients /\ cur \in Clients \cup {Nobody}
  /\ req \in Requests \cup {None, Garbage} /\ path \in Names \cup {NoName}
  /\ want \in 0..(FileSize + 1) /\ got \in Nat
  /\ \A c \in Clients : conn[c] \in {"none", "backlog", "open", "closed"}
  /\ state \in [Clients -> {"away", "here", "left", "aborted"}]
  /\ count \in [Clients -> 0..MaxRequests]
  /\ asked \in [Polite -> Seq(Requests)]
  /\ executed \in [Polite -> Seq(Requests \cup {None, Garbage})]
  /\ answered \in [Polite -> Seq(Requests \cup {None, Garbage})]
  /\ lost \subseteq Clients /\ unclosed \subseteq Names

S == INSTANCE Service WITH
       Clients  <- Polite,
       lost     <- lost \cap Polite

\* A client that waits for its answers has each request handled once and answered
\* once, as itself, whatever the other clients send or leave unsent: no byte of one
\* connection is ever taken for a request of another. TCP may cut any item in two,
\* and a file may not open: of a client that met this nothing is promised.
ImplementsService == S!Spec

\* A client that reads that its file was received can rely on it, even if the next
\* request followed in the same segment: when the server reports it, the file of
\* that name is the one the client sent. So it stays for as long as it is that
\* client's: until a later transfer takes the name, or at the end of the process
\* the buffer of an interrupted one is written over it.
Stored(c, r) == disk[r.name] = File(c, r, Body(r))
FileWhole ==
  /\ (pc = "send" /\ req.kind = "file" /\ state[cur] = "here" /\ cur \notin lost)
       => Stored(cur, req)
  /\ \A c \in Polite \ lost : \A i \in 1..Len(answered[c]) :
       LET r == answered[c][i] IN
       (r.kind = "file" /\ disk[r.name].client = c /\ disk[r.name].req = r)
         => Stored(c, r)

\* Every client that waits for its answers gets them: the thread blocks on none
\* of them for ever. What can keep it from them: another client of whose request
\* the rest never comes, whether it was not sent or was misread; an instruction
\* that never returns; the end of the process; and a request that was cut, or whose
\* file did not open.
Held == cur \in Careless \cup lost /\ Incoming = <<>>
Served ==
  \/ <>[]Held
  \/ \A c \in Polite : Waits(c) ~> (~Waits(c) \/ pc \in {"dead", "hung"} \/ c \in lost)
=============================================================================
