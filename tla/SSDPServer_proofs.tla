------------------------- MODULE SSDPServer_proofs -------------------------
(***************************************************************************)
(* What TLAPS proves of SSDPServer for every set of clients and of names,  *)
(* every length of instructions, files and buffer, and every number of     *)
(* requests.                                                               *)
(*                                                                         *)
(* That a client which waits for its answers is served as Service promises *)
(* rests on where the bytes of its request are: Situation(c) says that its *)
(* connection holds exactly what the server has yet to read of it.         *)
(***************************************************************************)
EXTENDS SSDPServer, SequenceTheorems, TLAPS

Files == {r \in Requests : r.kind = "file"}
Items == {Rag} \cup [of : Requests, part : {"flag", "size", "body"}, i : Nat]
               \cup [of : Files, part : {"name"}, i : Nat]
Understood == Requests \cup {None, Garbage}
FilesOnDisk == [client : Clients \cup {Nobody}, req : Understood, bytes : Seq(Items)]

-----------------------------------------------------------------------------
(* Requests and what is sent of them. *)

\* What follows the flag of a request.
Rest(r) ==
  CASE r.kind = "instruction" -> Body(r)
    [] r.kind = "file"        -> <<Field(r, "name"), Field(r, "size")>> \o Body(r)
    [] r.kind = "query"       -> <<>>

LEMMA Bounds ==
  /\ MaxRequests \in Nat /\ MaxPolite <= MaxRequests /\ MaxCareless <= MaxRequests
BY SizesAssumption DEF MaxRequests

\* Neither "no request" nor a misread one is a request.
LEMMA NotRequests ==
  /\ None \notin Requests /\ Garbage \notin Requests
  /\ \A r \in Requests : /\ r.kind \in {"instruction", "file", "query"}
                         /\ r.n \in 1..MaxRequests
                         /\ r.kind = "file" => r.name \in Names
BY DEF None, Garbage, Requests

LEMMA FieldType ==
  ASSUME NEW r \in Requests
  PROVE  /\ Field(r, "flag") \in Items /\ Field(r, "size") \in Items
         /\ r.kind = "file" => Field(r, "name") \in Items
         /\ \A part : Field(r, part).of = r /\ Field(r, part).part = part
BY DEF Field, Items, Files

LEMMA BodyType ==
  ASSUME NEW r \in Requests
  PROVE  /\ Body(r) \in Seq(Items)
         /\ Len(Body(r)) = (IF r.kind = "file" THEN FileSize ELSE InsSize)
         /\ \A i \in 1..Len(Body(r)) : Body(r)[i] = [of |-> r, part |-> "body", i |-> i]
<1> DEFINE size == IF r.kind = "file" THEN FileSize ELSE InsSize
           item(i) == [of |-> r, part |-> "body", i |-> i]
<1>1. size \in Nat
  BY SizesAssumption
<1>2. \A i \in 1..size : item(i) \in Items
  BY <1>1 DEF Items
<1>3. Body(r) = [i \in 1..size |-> item(i)]
  BY DEF Body
<1>4. Body(r) \in Seq(Items)
  <2> HIDE DEF size, item
  <2> QED
    BY <1>1, <1>2, <1>3
<1>5. Len(Body(r)) = size
  <2> HIDE DEF size, item
  <2> QED
    BY <1>1, <1>3
<1> QED
  BY <1>3, <1>4, <1>5

\* A sequence that starts with a given item.
LEMMA Cons ==
  ASSUME NEW T, NEW e \in T, NEW t \in Seq(T)
  PROVE  /\ <<e>> \o t \in Seq(T)
         /\ <<e>> \o t # <<>>
         /\ Head(<<e>> \o t) = e
         /\ Tail(<<e>> \o t) = t
         /\ SubSeq(<<e>> \o t, 2, Len(<<e>> \o t)) = t
<1> DEFINE s == <<e>> \o t
<1>1. /\ <<e>> \in Seq(T) /\ Len(<<e>>) = 1 /\ <<e>>[1] = e /\ Len(t) \in Nat
  OBVIOUS
<1>2. /\ s \in Seq(T) /\ Len(s) = 1 + Len(t)
      /\ \A i \in 1..(1 + Len(t)) : s[i] = IF i <= 1 THEN e ELSE t[i - 1]
  BY <1>1, ConcatProperties
<1> HIDE DEF s
<1>3. s # <<>> /\ Head(s) = e
  BY <1>1, <1>2
<1>4. /\ Tail(s) \in Seq(T) /\ Len(Tail(s)) = Len(t)
      /\ \A i \in 1..Len(Tail(s)) : Tail(s)[i] = s[i + 1]
  BY <1>1, <1>2, <1>3, HeadTailProperties
<1>5. \A i \in 1..Len(Tail(s)) : Tail(s)[i] = t[i]
  BY <1>1, <1>2, <1>4
<1>6. Tail(s) = t
  BY <1>4, <1>5, SeqEqual
<1>7. SubSeq(s, 2, Len(s)) = t
  BY <1>2, <1>3, <1>6, TailIsSubSeq
<1> QED
  BY <1>2, <1>3, <1>6, <1>7 DEF s

LEMMA FileRest ==
  ASSUME NEW r \in Files
  PROVE  <<Field(r, "name"), Field(r, "size")>> \o Body(r)
           = <<Field(r, "name")>> \o (<<Field(r, "size")>> \o Body(r))
<1>1. r \in Requests /\ Field(r, "name") \in Items /\ Field(r, "size") \in Items
  BY FieldType DEF Files
<1>2. <<Field(r, "name"), Field(r, "size")>> = <<Field(r, "name")>> \o <<Field(r, "size")>>
  OBVIOUS
<1>3. <<Field(r, "name")>> \in Seq(Items) /\ <<Field(r, "size")>> \in Seq(Items)
  BY <1>1
<1> QED
  BY <1>1, <1>2, <1>3, BodyType, ConcatAssociative

LEMMA MessageType ==
  ASSUME NEW r \in Requests
  PROVE  /\ Rest(r) \in Seq(Items)
         /\ Message(r) \in Seq(Items)
         /\ Message(r) = <<Field(r, "flag")>> \o Rest(r)
<1>1. Message(r) = <<Field(r, "flag")>> \o Rest(r)
  BY DEF Message, Rest
<1>2. Field(r, "flag") \in Items
  BY FieldType
<1>3. CASE r.kind = "file"
  <2>1. Field(r, "name") \in Items /\ Field(r, "size") \in Items
    BY <1>3, FieldType
  <2>2. <<Field(r, "name"), Field(r, "size")>> \in Seq(Items)
    BY <2>1
  <2>3. <<Field(r, "name"), Field(r, "size")>> \o Body(r) \in Seq(Items)
    BY <2>2, BodyType, ConcatProperties
  <2>4. Rest(r) \in Seq(Items)
    BY <1>3, <2>3 DEF Rest
  <2> QED
    BY <1>1, <1>2, <2>4, Cons
<1>4. CASE r.kind \in {"instruction", "query"}
  <2>1. Rest(r) \in Seq(Items)
    BY <1>4, BodyType DEF Rest
  <2> QED
    BY <1>1, <1>2, <2>1, Cons
<1> QED
  BY <1>3, <1>4, NotRequests

-----------------------------------------------------------------------------
(* Types. *)

TypeInv ==
  /\ TypeOK
  /\ conn \in [Clients -> {"none", "backlog", "open", "closed"}]
  /\ toServer \in [Clients -> Seq(Items)]
  /\ toClient \in [Polite -> Seq(Understood)]
  /\ disk \in [Names -> FilesOnDisk]
  /\ pc \in {"loop", "flag", "ins", "name", "size"} => got = 0
  /\ pc # "loop" => cur \in Clients
  /\ pc \in {"size", "data"} => req \in Files \cup {None, Garbage}
  /\ pc \in {"size", "data"} /\ req \in Requests => path = req.name
  /\ pc = "data" => path \in Names /\ disk[path].client \in {cur, Nobody}
  /\ pc = "conduct" => req.kind # "file"

LEMMA PoliteClients == Polite \subseteq Clients /\ \A c \in Polite : c \notin Careless
BY DEF Polite

\* What one recv takes.
LEMMA Taken ==
  ASSUME TypeInv, cur \in Clients, NEW k \in 1..Len(Incoming), Take(k)
  PROVE  /\ toServer' \in [Clients -> Seq(Items)]
         /\ toServer'[cur] = SubSeq(Incoming, k + 1, Len(Incoming))
         /\ \A c \in Clients \ {cur} : toServer'[c] = toServer[c]
         /\ Chunk(k) \in Seq(Items)
         /\ Len(Chunk(k)) = k
         /\ Incoming = Chunk(k) \o toServer'[cur]
<1>1. /\ toServer \in [Clients -> Seq(Items)] /\ Incoming \in Seq(Items)
      /\ Len(Incoming) \in Nat
  BY LenProperties DEF TypeInv, Incoming
<1>2. /\ SubSeq(Incoming, k + 1, Len(Incoming)) \in Seq(Items)
      /\ Chunk(k) \in Seq(Items) /\ Len(Chunk(k)) = k
  <2>1. \A i \in 1..Len(Incoming) : Incoming[i] \in Items
    BY <1>1, ElementOfSeq
  <2>2. SubSeq(Incoming, k + 1, Len(Incoming)) \in Seq(Items)
    BY <1>1, <2>1, SubSeqProperties
  <2>3. SubSeq(Incoming, 1, k) \in Seq(Items) /\ Len(SubSeq(Incoming, 1, k)) = k
    BY <1>1, <2>1, SubSeqProperties
  <2> QED
    BY <2>2, <2>3 DEF Chunk
<1>3. toServer' = [toServer EXCEPT ![cur] = SubSeq(Incoming, k + 1, Len(Incoming))]
  BY DEF Take, Incoming
<1>4. Incoming = Chunk(k) \o SubSeq(Incoming, k + 1, Len(Incoming))
  <2>1. SubSeq(Incoming, 1, k) \o SubSeq(Incoming, k + 1, Len(Incoming))
          = SubSeq(Incoming, 1, Len(Incoming))
    <3>1. 1 \in 1..(Len(Incoming) + 1) /\ k \in (1 - 1)..Len(Incoming)
          /\ Len(Incoming) \in k..Len(Incoming)
      BY <1>1
    <3> QED
      BY <1>1, <3>1, ConcatAdjacentSubSeq
  <2>2. SubSeq(Incoming, 1, Len(Incoming)) = Incoming
    BY <1>1, SubSeqFull
  <2> QED
    BY <2>1, <2>2 DEF Chunk
<1> QED
  BY <1>1, <1>2, <1>3, <1>4

LEMMA CutType ==
  ASSUME TypeInv, cur \in Clients, Cut
  PROVE  /\ toServer' \in [Clients -> Seq(Items)]
         /\ \A c \in Clients \ {cur} : toServer'[c] = toServer[c]
         /\ lost' \subseteq Clients
<1>1. toServer \in [Clients -> Seq(Items)] /\ Incoming \in Seq(Items) /\ Incoming # <<>>
  BY DEF TypeInv, Incoming, Cut
<1>2. Tail(Incoming) \in Seq(Items)
  BY <1>1, HeadTailProperties
<1>3. <<Rag>> \o Tail(Incoming) \in Seq(Items)
  BY <1>2, Cons DEF Items
<1>4. toServer' = [toServer EXCEPT ![cur] = <<Rag>> \o Tail(Incoming)]
  BY DEF Cut, Incoming
<1>5. lost' \subseteq Clients
  BY DEF Cut, Lose, TypeInv, TypeOK
<1> QED
  BY <1>1, <1>3, <1>4, <1>5

\* The first item that has arrived.
LEMMA FirstItem ==
  ASSUME TypeInv, cur \in Clients, Incoming # <<>>
  PROVE  /\ 1 \in 1..Len(Incoming)
         /\ Head(Incoming) \in Items /\ Head(Incoming) = Incoming[1]
         /\ Head(Incoming).part \in {"flag", "size", "body"} => Head(Incoming).of \in Requests
         /\ Head(Incoming).part = "name" => Head(Incoming).of \in Files
<1>1. Incoming \in Seq(Items)
  BY DEF TypeInv, Incoming
<1>2. 1 \in 1..Len(Incoming)
  BY <1>1, EmptySeq
<1>3. Head(Incoming) \in Items /\ Head(Incoming) = Incoming[1]
  BY <1>1, HeadTailProperties
<1> QED
  BY <1>2, <1>3 DEF Items, Rag, Field

LEMMA TakenFirst ==
  ASSUME TypeInv, cur \in Clients, Incoming # <<>>, Take(1)
  PROVE  toServer'[cur] = SubSeq(Incoming, 2, Len(Incoming))
<1>1. toServer \in [Clients -> Seq(Items)]
  BY DEF TypeInv
<1>2. toServer' = [toServer EXCEPT ![cur] = SubSeq(toServer[cur], 2, Len(toServer[cur]))]
  BY DEF Take
<1> QED
  BY <1>1, <1>2 DEF Incoming

LEMMA MisreadType ==
  ASSUME TypeInv, cur \in Clients, NEW part, Misread(part)
  PROVE  /\ toServer' \in [Clients -> Seq(Items)] /\ lost' \subseteq Clients
         /\ \A c \in Clients \ {cur} : toServer'[c] = toServer[c]
<1>1. CASE Cut
  BY <1>1, CutType
<1>2. CASE Incoming # <<>> /\ Take(1) /\ UNCHANGED lost
  BY <1>2, FirstItem, Taken DEF TypeInv, TypeOK
<1> QED
  BY <1>1, <1>2 DEF Misread

LEMMA SpoiltType == Spoilt \in FilesOnDisk /\ Spoilt.client = Nobody
BY DEF Spoilt, File, FilesOnDisk, Understood

LEMMA ExitType ==
  ASSUME TypeInv, cur \in Clients, Exit
  PROVE  /\ disk' \in [Names -> FilesOnDisk] /\ pc' = "dead" /\ UNCHANGED <<local, conn>>
         /\ \A f \in Names : disk'[f] = disk[f] \/ disk'[f] = Spoilt
<1>1. PICK some \in SUBSET unclosed :
        disk' = [f \in Names |-> IF f \in some THEN Spoilt ELSE disk[f]]
  BY DEF Exit
<1>2. disk \in [Names -> FilesOnDisk]
  BY DEF TypeInv
<1> QED
  BY <1>1, <1>2, SpoiltType DEF Exit, Die

LEMMA InitType == Init => TypeInv
<1> SUFFICES ASSUME Init PROVE TypeInv
  OBVIOUS
<1>1. MaxRequests \in Nat /\ FileSize \in Nat
  BY Bounds, SizesAssumption
<1>2. \A T : <<>> \in Seq(T)
  OBVIOUS
<1>3. disk \in [Names -> FilesOnDisk]
  BY SpoiltType DEF Init
<1>4. TypeOK
  BY <1>1, <1>2 DEF Init, TypeOK
<1> QED
  BY <1>2, <1>3, <1>4 DEF Init, TypeInv

LEMMA ConnectType ==
  ASSUME TypeInv, NEW c \in Clients, Connect(c) PROVE TypeInv'
BY DEF TypeInv, TypeOK, Connect, server, local, files, log

\* What a client may ask.
Kinds == {<<"instruction", NoName>>, <<"query", NoName>>}
           \cup {<<"file", name>> : name \in Names}

LEMMA AskType ==
  ASSUME TypeInv, NEW c \in Clients, NEW kind, NEW name, <<kind, name>> \in Kinds,
         Ask(c, kind, name)
  PROVE  /\ TypeInv'
         /\ [kind |-> kind, n |-> count[c] + 1, name |-> name] \in Requests
<1> DEFINE r == [kind |-> kind, n |-> count[c] + 1, name |-> name]
<1>1. count[c] + 1 \in 1..MaxRequests /\ count' \in [Clients -> 0..MaxRequests]
  <2>1. count \in [Clients -> 0..MaxRequests] /\ count[c] < Most(c)
        /\ count' = [count EXCEPT ![c] = @ + 1]
    BY DEF Ask, TypeInv, TypeOK
  <2>2. Most(c) \in Nat /\ Most(c) <= MaxRequests
    BY Bounds, SizesAssumption DEF Most
  <2>3. count[c] + 1 \in 1..MaxRequests
    BY <2>1, <2>2, Bounds
  <2> QED
    BY <2>1, <2>3
<1>2. r \in Requests
  BY <1>1 DEF Requests, Kinds
<1>3. /\ toServer' = [toServer EXCEPT ![c] = @ \o Message(r)]
      /\ asked' = IF c \in Polite THEN [asked EXCEPT ![c] = Append(@, r)] ELSE asked
  BY DEF Ask
<1> HIDE DEF r
<1>4. toServer' \in [Clients -> Seq(Items)]
  <2>1. toServer[c] \o Message(r) \in Seq(Items)
    BY <1>2, MessageType, ConcatProperties DEF TypeInv
  <2> QED
    BY <1>3, <2>1 DEF TypeInv
<1>5. asked' \in [Polite -> Seq(Requests)]
  <2>1. asked \in [Polite -> Seq(Requests)]
    BY DEF TypeInv, TypeOK
  <2>2. c \in Polite => Append(asked[c], r) \in Seq(Requests)
    BY <1>2, <2>1, AppendProperties
  <2> QED
    BY <1>3, <2>1, <2>2
<1>6. UNCHANGED <<server, files, executed, answered, lost, conn, toClient, state>>
  BY DEF Ask
<1>7. TypeInv'
  BY <1>1, <1>4, <1>5, <1>6 DEF TypeInv, TypeOK, server, local, files
<1> QED
  BY <1>2, <1>7 DEF r

LEMMA TakeReplyType ==
  ASSUME TypeInv, NEW c \in Clients, TakeReply(c) PROVE TypeInv'
<1>1. /\ c \in Polite /\ toClient \in [Polite -> Seq(Understood)]
      /\ answered \in [Polite -> Seq(Understood)]
  BY DEF TypeInv, TypeOK, TakeReply, Understood
<1>2. Head(toClient[c]) \in Understood /\ Tail(toClient[c]) \in Seq(Understood)
  BY <1>1, HeadTailProperties DEF TakeReply
<1>3. toClient' \in [Polite -> Seq(Understood)]
  BY <1>1, <1>2 DEF TakeReply
<1>4. answered' \in [Polite -> Seq(Understood)]
  <2>1. Append(answered[c], Head(toClient[c])) \in Seq(Understood)
    BY <1>1, <1>2, AppendProperties
  <2> QED
    BY <1>1, <2>1 DEF TakeReply
<1> QED
  BY <1>3, <1>4 DEF TypeInv, TypeOK, TakeReply, server, local, files, client, Understood

LEMMA LeaveType ==
  ASSUME TypeInv, NEW c \in Clients, Leave(c) PROVE TypeInv'
<1>1. PICK k \in 0..Len(toServer[c]) : toServer' = [toServer EXCEPT ![c] = SubSeq(@, 1, k)]
  BY DEF Leave
<1>2. toServer[c] \in Seq(Items) /\ Len(toServer[c]) \in Nat
  BY LenProperties DEF TypeInv
<1>3. SubSeq(toServer[c], 1, k) \in Seq(Items)
  BY <1>2, ElementOfSeq, SubSeqProperties
<1>4. toServer' \in [Clients -> Seq(Items)]
  BY <1>1, <1>3 DEF TypeInv
<1> QED
  BY <1>4 DEF TypeInv, TypeOK, Leave, server, local, files, log

LEMMA AbortType ==
  ASSUME TypeInv, NEW c \in Clients, Abort(c) PROVE TypeInv'
<1>1. toServer' \in [Clients -> Seq(Items)]
  BY DEF Abort, TypeInv
<1> QED
  BY <1>1 DEF TypeInv, TypeOK, Abort, server, local, files, log

LEMMA LoopType ==
  ASSUME TypeInv, EpollWait \/ \E c \in Clients : DoAccept(c) \/ HandleMessage(c)
  PROVE  TypeInv'
<1>1. CASE EpollWait
  <2>1. batch' \subseteq Clients
    BY <1>1 DEF EpollWait, Readable, Backlog
  <2> QED
    BY <1>1, <2>1 DEF TypeInv, TypeOK, EpollWait, local, files, log, net, client
<1>2. ASSUME NEW c \in Clients, DoAccept(c) PROVE TypeInv'
  BY <1>2 DEF TypeInv, TypeOK, DoAccept, local, files, log, client
<1>3. ASSUME NEW c \in Clients, HandleMessage(c) PROVE TypeInv'
  BY <1>3 DEF TypeInv, TypeOK, HandleMessage, files, log, net, client
<1> QED
  BY <1>1, <1>2, <1>3

\* After a step that ends the service of a client.
LEMMA ReturnType ==
  ASSUME TypeInv, cur \in Clients, Return, conn' = conn \/ Close,
         toServer' \in [Clients -> Seq(Items)], toClient' \in [Polite -> Seq(Understood)],
         disk' \in [Names -> FilesOnDisk], unclosed' \subseteq Names, lost' \subseteq Clients,
         executed' \in [Polite -> Seq(Understood)], UNCHANGED <<batch, asked, answered, client>>
  PROVE  TypeInv'
<1>1. conn' \in [Clients -> {"none", "backlog", "open", "closed"}]
  BY DEF Close, TypeInv
<1>2. FileSize \in Nat
  BY SizesAssumption
<1> QED
  BY <1>1, <1>2 DEF Return, TypeInv, TypeOK, client, Understood

\* After a step that ends the process.
LEMMA DieType ==
  ASSUME TypeInv, cur \in Clients, Exit \/ (Die /\ UNCHANGED disk),
         UNCHANGED <<batch, unclosed, log, toServer, toClient, client>>
  PROVE  TypeInv'
<1>1. disk' \in [Names -> FilesOnDisk] /\ pc' = "dead" /\ UNCHANGED <<local, conn>>
  BY ExitType DEF Die, TypeInv
<1> QED
  BY <1>1 DEF local, log, TypeInv, TypeOK, client, Understood

\* After a step that goes on to another part of the request of the same client.
LEMMA GotoType ==
  ASSUME TypeInv, cur \in Clients, NEW step, Goto(step), req' \in Understood,
         step \in {"ins", "name", "conduct", "handle"}, UNCHANGED <<path, want, got>>,
         step \in {"ins", "name"} => got = 0, step = "conduct" => req'.kind # "file",
         toServer' \in [Clients -> Seq(Items)], lost' \subseteq Clients,
         UNCHANGED <<batch, files, asked, executed, answered, toClient, client>>
  PROVE  TypeInv'
BY DEF Goto, files, TypeInv, TypeOK, client, Understood

LEMMA RecvFlagType ==
  ASSUME TypeInv, RecvFlag PROVE TypeInv'
<1>1. cur \in Clients /\ got = 0
  BY DEF RecvFlag, TypeInv
<1>2. UNCHANGED <<batch, files, asked, executed, answered, toClient, client>>
  BY DEF RecvFlag
<1>3. /\ toServer \in [Clients -> Seq(Items)] /\ toClient \in [Polite -> Seq(Understood)]
      /\ disk \in [Names -> FilesOnDisk] /\ unclosed \subseteq Names /\ lost \subseteq Clients
      /\ executed \in [Polite -> Seq(Understood)]
  BY DEF TypeInv, TypeOK, Understood
<1>4. CASE (Ended \/ Failed) /\ Close /\ UNCHANGED <<toServer, lost>>
  BY <1>1, <1>2, <1>3, <1>4, ReturnType DEF Close, files
<1>5. CASE /\ Begins("flag") /\ Take(1) /\ UNCHANGED lost
           /\ req' = Head(Incoming).of /\ Goto(After(req'.kind))
           /\ UNCHANGED <<path, want, got>>
  <2>1. req' \in Requests /\ toServer' \in [Clients -> Seq(Items)]
    BY <1>1, <1>5, FirstItem, Taken DEF Begins
  <2>2. After(req'.kind) \in {"ins", "name", "handle"}
    BY <2>1, NotRequests DEF After
  <2> QED
    BY <1>1, <1>2, <1>3, <1>5, <2>1, <2>2, GotoType DEF Understood
<1>6. CASE /\ Misread("flag")
           /\ \/ Return /\ UNCHANGED conn
              \/ /\ \E step \in {"ins", "name", "handle"} : Goto(step)
                 /\ req' = Garbage /\ UNCHANGED <<path, want, got>>
  <2>1. toServer' \in [Clients -> Seq(Items)] /\ lost' \subseteq Clients
    BY <1>1, <1>6, MisreadType
  <2>2. CASE Return /\ UNCHANGED conn
    BY <1>1, <1>2, <1>3, <2>1, <2>2, ReturnType DEF files
  <2>3. ASSUME NEW step \in {"ins", "name", "handle"}, Goto(step), req' = Garbage,
               UNCHANGED <<path, want, got>>
        PROVE  TypeInv'
    BY <1>1, <1>2, <2>1, <2>3, GotoType DEF Understood
  <2> QED
    BY <1>6, <2>2, <2>3
<1> QED
  BY <1>4, <1>5, <1>6 DEF RecvFlag

LEMMA InstructionType ==
  ASSUME TypeInv, cur \in Clients, NEW k \in Sizes, Take(k)
  PROVE  /\ k \in 1..Len(Incoming)
         /\ Instruction(Chunk(k)) \in Understood /\ Instruction(Chunk(k)).kind # "file"
         /\ toServer' \in [Clients -> Seq(Items)]
<1>1. k \in 1..Len(Incoming)
  BY SizesAssumption DEF Sizes
<1>2. toServer' \in [Clients -> Seq(Items)] /\ Chunk(k) \in Seq(Items) /\ Len(Chunk(k)) = k
  BY <1>1, Taken
<1>3. Chunk(k)[1] \in Items
  BY <1>1, <1>2, ElementOfSeq
<1>4. Instruction(Chunk(k)) \in Requests \cup {Garbage}
  BY <1>3 DEF Instruction, Items, Rag, Field, Files
<1>5. Instruction(Chunk(k)).kind # "file"
  BY DEF Instruction, Garbage
<1> QED
  BY <1>1, <1>2, <1>4, <1>5 DEF Understood

LEMMA RecvInsType ==
  ASSUME TypeInv, RecvIns PROVE TypeInv'
<1>1. cur \in Clients /\ got = 0
  BY DEF RecvIns, TypeInv
<1>2. UNCHANGED <<batch, unclosed, asked, executed, answered, toClient, client>>
  BY DEF RecvIns
<1>3. /\ toServer \in [Clients -> Seq(Items)] /\ toClient \in [Polite -> Seq(Understood)]
      /\ disk \in [Names -> FilesOnDisk] /\ unclosed \subseteq Names /\ lost \subseteq Clients
      /\ executed \in [Polite -> Seq(Understood)]
  BY DEF TypeInv, TypeOK, Understood
<1>4. CASE Ended /\ Close /\ UNCHANGED <<toServer, disk, lost>>
  BY <1>1, <1>2, <1>3, <1>4, ReturnType DEF Close
<1>5. CASE Failed /\ Exit /\ UNCHANGED <<toServer, lost>>
  BY <1>1, <1>2, <1>5, DieType DEF log
<1>6. ASSUME NEW k \in Sizes, Take(k), req' = Instruction(Chunk(k)),
             IF k < InsSize THEN Lose ELSE UNCHANGED lost,
             Goto("conduct"), UNCHANGED <<path, want, got, disk>>
      PROVE  TypeInv'
  <2>1. /\ req' \in Understood /\ req'.kind # "file"
        /\ toServer' \in [Clients -> Seq(Items)]
    BY <1>1, <1>6, InstructionType
  <2>2. lost' \subseteq Clients
    BY <1>1, <1>3, <1>6 DEF Lose
  <2> QED
    BY <1>1, <1>2, <1>6, <2>1, <2>2, GotoType DEF files
<1> QED
  BY <1>4, <1>5, <1>6 DEF RecvIns

LEMMA RecvNameType ==
  ASSUME TypeInv, RecvName PROVE TypeInv'
<1>1. cur \in Clients /\ got = 0
  BY DEF RecvName, TypeInv
<1>2. UNCHANGED <<batch, unclosed, asked, executed, answered, toClient, client>>
  BY DEF RecvName
<1>3. CASE Failed /\ Exit /\ UNCHANGED <<toServer, lost>>
  BY <1>1, <1>2, <1>3, DieType DEF log
<1>4. ASSUME Goto("size"), UNCHANGED <<want, got, disk>>,
             req' \in Files \cup {None, Garbage}, path' \in Names \cup {NoName},
             req' \in Requests => path' = req'.name,
             toServer' \in [Clients -> Seq(Items)], lost' \subseteq Clients
      PROVE  TypeInv'
  BY <1>1, <1>2, <1>4 DEF Goto, Files, TypeInv, TypeOK, client, Understood
<1>5. CASE Goto("size") /\ UNCHANGED <<want, got, disk>> /\ Ended /\ req' = None
           /\ path' = NoName /\ UNCHANGED <<toServer, lost>>
  BY <1>4, <1>5, NotRequests DEF TypeInv, TypeOK
<1>6. CASE /\ Goto("size") /\ UNCHANGED <<want, got, disk>>
           /\ Begins("name") /\ Take(1) /\ UNCHANGED lost
           /\ req' = Head(Incoming).of /\ path' = req'.name
  <2>1. req' \in Files /\ toServer' \in [Clients -> Seq(Items)]
    BY <1>1, <1>6, FirstItem, Taken DEF Begins
  <2>2. path' \in Names
    BY <1>6, <2>1, NotRequests DEF Files
  <2> QED
    BY <1>4, <1>6, <2>1, <2>2 DEF TypeInv, TypeOK
<1>7. CASE /\ Goto("size") /\ UNCHANGED <<want, got, disk>>
           /\ Misread("name") /\ req' = Garbage /\ path' \in Names
  BY <1>1, <1>4, <1>7, MisreadType, NotRequests
<1> QED
  BY <1>3, <1>5, <1>6, <1>7 DEF RecvName

\* What a file holds that was just opened.
LEMMA OpenFileType ==
  ASSUME TypeInv, cur \in Clients, req \in Files \cup {None, Garbage}, NEW n, OpenFile(n)
  PROVE  /\ path \in Names /\ disk' \in [Names -> FilesOnDisk]
         /\ disk'[path] = IF req = Garbage THEN Spoilt ELSE File(cur, req, <<>>)
         /\ \A f \in Names \ {path} : disk'[f] = disk[f]
<1>1. path \in Names /\ disk \in [Names -> FilesOnDisk]
  BY DEF OpenFile, TypeInv, TypeOK
<1>2. File(cur, req, <<>>) \in FilesOnDisk
  BY DEF File, FilesOnDisk, Files, Understood
<1> QED
  BY <1>1, <1>2, SpoiltType DEF OpenFile

LEMMA RecvSizeType ==
  ASSUME TypeInv, RecvSize PROVE TypeInv'
<1>1. cur \in Clients /\ got = 0 /\ FileSize \in Nat
  BY SizesAssumption DEF RecvSize, TypeInv
<1>2. UNCHANGED <<batch, unclosed, asked, executed, answered, toClient, client>>
  BY DEF RecvSize
<1>3. /\ toServer \in [Clients -> Seq(Items)] /\ toClient \in [Polite -> Seq(Understood)]
      /\ disk \in [Names -> FilesOnDisk] /\ unclosed \subseteq Names /\ lost \subseteq Clients
      /\ executed \in [Polite -> Seq(Understood)]
  BY DEF TypeInv, TypeOK, Understood
<1>4. req \in Files \cup {None, Garbage} /\ (req \in Requests => path = req.name)
  BY DEF TypeInv, RecvSize
<1>5. CASE Failed /\ Exit /\ UNCHANGED <<toServer, lost>>
  BY <1>1, <1>2, <1>5, DieType DEF log
<1>6. ASSUME NEW n \in 0..(FileSize + 1), OpenFile(n),
             toServer' \in [Clients -> Seq(Items)], lost' \subseteq Clients
      PROVE  TypeInv'
  <2>1. /\ path \in Names /\ disk' \in [Names -> FilesOnDisk]
        /\ disk'[path].client \in {cur, Nobody}
    BY <1>1, <1>4, <1>6, OpenFileType, SpoiltType DEF File
  <2>2. UNCHANGED <<req, path, got, cur, conn>> /\ pc' = "data" /\ want' = n
    BY <1>6 DEF OpenFile, Goto
  <2> QED
    BY <1>1, <1>2, <1>4, <1>6, <2>1, <2>2 DEF TypeInv, TypeOK, client, Understood
<1>7. ASSUME NotOpened, toServer' \in [Clients -> Seq(Items)], lost' \subseteq Clients
      PROVE  TypeInv'
  BY <1>1, <1>2, <1>3, <1>7, ReturnType DEF NotOpened
<1>8. CASE Ended /\ (OpenFile(0) \/ NotOpened) /\ UNCHANGED <<toServer, lost>>
  <2>1. toServer' \in [Clients -> Seq(Items)] /\ lost' \subseteq Clients
    BY <1>3, <1>8
  <2>2. 0 \in 0..(FileSize + 1)
    BY <1>1
  <2> QED
    BY <1>6, <1>7, <1>8, <2>1, <2>2
<1>9. CASE /\ Begins("size") /\ Take(1)
           /\ (OpenFile(FileSize) /\ UNCHANGED lost) \/ (NotOpened /\ Lose)
  <2>1. toServer' \in [Clients -> Seq(Items)] /\ lost' \subseteq Clients
    BY <1>1, <1>3, <1>9, FirstItem, Taken DEF Begins, Lose
  <2>2. FileSize \in 0..(FileSize + 1)
    BY <1>1
  <2> QED
    BY <1>6, <1>7, <1>9, <2>1, <2>2
<1>10. CASE Misread("size") /\ (NotOpened \/ \E n \in 0..(FileSize + 1) : OpenFile(n))
  BY <1>1, <1>6, <1>7, <1>10, MisreadType
<1> QED
  BY <1>5, <1>8, <1>9, <1>10 DEF RecvSize

LEMMA RecvFileType ==
  ASSUME TypeInv, RecvFile PROVE TypeInv'
<1>1. cur \in Clients /\ pc = "data" /\ path \in Names /\ disk[path].client \in {cur, Nobody}
  BY DEF RecvFile, TypeInv
<1>2. UNCHANGED <<batch, log, toClient, client>>
  BY DEF RecvFile
<1>3. /\ toServer \in [Clients -> Seq(Items)] /\ toClient \in [Polite -> Seq(Understood)]
      /\ disk \in [Names -> FilesOnDisk] /\ unclosed \subseteq Names /\ lost \subseteq Clients
      /\ executed \in [Polite -> Seq(Understood)] /\ req \in Understood
  BY DEF TypeInv, TypeOK, Understood
<1>4. CASE ~More /\ Goto("handle") /\ UNCHANGED <<req, path, want, got, files, toServer>>
  BY <1>1, <1>2, <1>3, <1>4, GotoType DEF log
<1>5. CASE /\ Ended /\ Close /\ UNCHANGED toServer
           /\ unclosed' = unclosed \cup {path} /\ disk' = [disk EXCEPT ![path] = Spoilt]
  BY <1>1, <1>2, <1>3, <1>5, ReturnType, SpoiltType DEF Close, log
<1>6. CASE Failed /\ Exit /\ UNCHANGED <<unclosed, toServer>>
  BY <1>1, <1>2, <1>6, DieType
<1>7. ASSUME NEW k \in Sizes, Take(k), got' = got + k, Write(Chunk(k)),
             UNCHANGED <<pc, cur, req, path, want, unclosed, conn>>
      PROVE  TypeInv'
  <2>1. k \in 1..Len(Incoming)
    BY <1>7, SizesAssumption DEF Sizes
  <2>2. toServer' \in [Clients -> Seq(Items)] /\ Chunk(k) \in Seq(Items)
    BY <1>1, <1>7, <2>1, Taken
  <2>3. /\ disk' \in [Names -> FilesOnDisk] /\ disk'[path].client = disk[path].client
    <3> DEFINE bytes == IF req = Garbage THEN disk[path].bytes ELSE disk[path].bytes \o Chunk(k)
    <3>1. disk[path] \in FilesOnDisk /\ bytes \in Seq(Items)
      BY <1>1, <1>3, <2>2, ConcatProperties DEF FilesOnDisk
    <3>2. disk' = [disk EXCEPT ![path].bytes = bytes]
      BY <1>7 DEF Write
    <3> HIDE DEF bytes
    <3>3. disk' = [disk EXCEPT ![path] = [disk[path] EXCEPT !.bytes = bytes]]
      BY <3>2
    <3>4. [disk[path] EXCEPT !.bytes = bytes] \in FilesOnDisk
      BY <3>1 DEF FilesOnDisk
    <3>5. [disk[path] EXCEPT !.bytes = bytes].client = disk[path].client
      BY <3>1 DEF FilesOnDisk
    <3> QED
      BY <1>1, <1>3, <3>3, <3>4, <3>5
  <2>4. got' \in Nat
    BY <1>7 DEF TypeInv, TypeOK, Sizes
  <2> QED
    BY <1>1, <1>2, <1>7, <2>2, <2>3, <2>4 DEF log, TypeInv, TypeOK, client, Understood
<1> QED
  BY <1>4, <1>5, <1>6, <1>7 DEF RecvFile

\* The log of what was handled.
LEMMA ExecutedType ==
  ASSUME TypeInv, Executed
  PROVE  /\ executed' \in [Polite -> Seq(Understood)]
         /\ cur \in Polite \ lost => executed'[cur] = Append(executed[cur], req)
         /\ \A c \in Polite : c # cur \/ c \in lost => executed'[c] = executed[c]
<1>1. executed \in [Polite -> Seq(Understood)] /\ req \in Understood
  BY DEF TypeInv, TypeOK, Understood
<1>2. cur \in Polite => Append(executed[cur], req) \in Seq(Understood)
  BY <1>1, AppendProperties
<1> QED
  BY <1>1, <1>2 DEF Executed

LEMMA HandleType ==
  ASSUME TypeInv, Conduct \/ Handle PROVE TypeInv'
<1>1. executed' \in [Polite -> Seq(Understood)]
  BY ExecutedType DEF Conduct, Handle
<1>2. pc \in {"conduct", "handle"} /\ pc' \in {"send", "hung", "dead"}
      /\ UNCHANGED <<batch, local, files, asked, answered, lost, net, client>>
  BY DEF Conduct, Handle
<1> QED
  BY <1>1, <1>2 DEF TypeInv, TypeOK, local, files, net, client, Understood

LEMMA DoSendType ==
  ASSUME TypeInv, DoSend PROVE TypeInv'
<1>1. cur \in Clients /\ UNCHANGED <<batch, files, log, toServer, client>>
  BY DEF DoSend, TypeInv
<1>2. toClient' \in [Polite -> Seq(Understood)]
  <2>1. toClient \in [Polite -> Seq(Understood)] /\ req \in Understood
    BY DEF TypeInv, TypeOK, Understood
  <2>2. cur \in Polite => Append(toClient[cur], req) \in Seq(Understood)
    BY <2>1, AppendProperties
  <2> QED
    BY <2>1, <2>2 DEF DoSend
<1>3. CASE Return /\ UNCHANGED conn
  BY <1>1, <1>2, <1>3, ReturnType DEF files, log, TypeInv, TypeOK, Understood
<1>4. CASE Die /\ UNCHANGED toClient
  BY <1>1, <1>4, DieType DEF files
<1> QED
  BY <1>3, <1>4 DEF DoSend

LEMMA ClientType ==
  ASSUME TypeInv, NEW c \in Clients, Client(c) PROVE TypeInv'
<1>1. ASSUME NEW kind \in {"instruction", "query"}, Ask(c, kind, NoName) PROVE TypeInv'
  BY <1>1, AskType DEF Kinds
<1>2. ASSUME NEW name \in Names, Ask(c, "file", name) PROVE TypeInv'
  BY <1>2, AskType DEF Kinds
<1> QED
  BY <1>1, <1>2, ConnectType, TakeReplyType, LeaveType, AbortType DEF Client

LEMMA NextType == TypeInv /\ [Next]_vars => TypeInv'
<1> SUFFICES ASSUME TypeInv, [Next]_vars PROVE TypeInv'
  OBVIOUS
<1>1. CASE Server
  BY <1>1, LoopType, RecvFlagType, RecvInsType, RecvNameType, RecvSizeType,
     RecvFileType, HandleType, DoSendType DEF Server
<1>2. CASE UNCHANGED vars
  BY <1>2 DEF TypeInv, TypeOK, vars, server, local, files, log, net, client
<1> QED
  BY <1>1, <1>2, ClientType DEF Next

\* The server never leaves its types, and what it reads of any stream, in step or
\* out of it, is a request, none, or garbage.
THEOREM TypeCorrect == Spec => []TypeOK
<1>1. Spec => []TypeInv
  BY InitType, NextType, PTL DEF Spec
<1>2. TypeInv => TypeOK
  BY DEF TypeInv
<1> QED
  BY <1>1, <1>2, PTL

-----------------------------------------------------------------------------
(* Where the request of a client that waits for its answers is.            *)

Untouched(c) == cur = c => pc = "flag"

\* The last request of a client is r, and all before it are answered.
Asks(c, r) == asked[c] = Append(answered[c], r)

\* It has no request.
Free(c) ==
  /\ asked[c] = answered[c] /\ executed[c] = answered[c]
  /\ toServer[c] = <<>> /\ toClient[c] = <<>> /\ Untouched(c)

\* The whole request is in the stream.
Unread(c) ==
  \E r \in Requests :
    /\ Asks(c, r) /\ executed[c] = answered[c]
    /\ toServer[c] = Message(r) /\ toClient[c] = <<>> /\ Untouched(c)

\* The file on the disk is the one that c sends, as far as it was received.
Writing(c) ==
  /\ disk[path].client = c /\ disk[path].req = req
  /\ Len(disk[path].bytes) = got

\* The rest of the request is in the stream.
InStep(c) ==
  \/ pc = "ins"  /\ req.kind = "instruction" /\ toServer[c] = Body(req)
  \/ pc = "name" /\ req.kind = "file"
     /\ toServer[c] = <<Field(req, "name")>> \o (<<Field(req, "size")>> \o Body(req))
  \/ pc = "size" /\ req.kind = "file" /\ toServer[c] = <<Field(req, "size")>> \o Body(req)
  \/ pc = "data" /\ req.kind = "file" /\ want = FileSize
     /\ Writing(c) /\ disk[path].bytes \o toServer[c] = Body(req)
  \/ pc \in {"conduct", "handle"} /\ toServer[c] = <<>>

Reading(c) ==
  /\ cur = c /\ req \in Requests /\ Asks(c, req) /\ executed[c] = answered[c]
  /\ toClient[c] = <<>>
  /\ InStep(c)

\* The request was handled and is not answered.
Handled(c) ==
  /\ cur = c /\ pc \in {"send", "hung", "dead"} /\ req \in Requests
  /\ Asks(c, req) /\ executed[c] = asked[c]
  /\ toServer[c] = <<>> /\ toClient[c] = <<>>

Answered(c) ==
  \E r \in Requests :
    /\ Asks(c, r) /\ executed[c] = asked[c]
    /\ toServer[c] = <<>> /\ toClient[c] = <<r>> /\ Untouched(c)

Patient(c) ==
  /\ state[c] # "aborted"
  /\ asked[c] # answered[c] => state[c] = "here"
  /\ Len(asked[c]) = count[c] /\ \A i \in 1..Len(asked[c]) : asked[c][i].n = i

Situation(c) ==
  /\ Patient(c)
  /\ Free(c) \/ Unread(c) \/ Reading(c) \/ Handled(c) \/ Answered(c)

\* The files of c are whole, but the one that is being received.
Whole(c, f) == disk[f].client = c => disk[f].bytes = Body(disk[f].req)
Kept(c) ==
  \A f \in Names : ~(pc = "data" /\ cur = c /\ path = f) => Whole(c, f)

IInv == TypeInv /\ \A c \in Polite \ lost : Situation(c) /\ Kept(c)

\* The request of c is the same, and where it is.
Same(c) ==
  /\ toServer'[c] = toServer[c] /\ toClient'[c] = toClient[c]
  /\ asked'[c] = asked[c] /\ executed'[c] = executed[c] /\ answered'[c] = answered[c]
  /\ state'[c] = state[c] /\ count'[c] = count[c]

\* A step that serves another client.
LEMMA Frame ==
  ASSUME NEW c \in Polite, Situation(c), cur # c, cur' = c => pc' = "flag", Same(c)
  PROVE  Situation(c)'
<1>1. Patient(c)'
  BY DEF Situation, Patient, Same
<1>2. CASE Free(c)
  BY <1>1, <1>2 DEF Situation, Free, Untouched, Same
<1>3. CASE Unread(c)
  BY <1>1, <1>3 DEF Situation, Unread, Asks, Untouched, Same
<1>4. CASE Answered(c)
  BY <1>1, <1>4 DEF Situation, Answered, Asks, Untouched, Same
<1> QED
  BY <1>2, <1>3, <1>4 DEF Situation, Reading, Handled

\* A step that leaves a client alone which is not being read.
LEMMA FrameIdle ==
  ASSUME NEW c \in Polite, Situation(c), pc \in {"loop", "flag"},
         cur' = c => pc' = "flag", Same(c)
  PROVE  Situation(c)'
<1>1. Patient(c)'
  BY DEF Situation, Patient, Same
<1>2. CASE Free(c)
  BY <1>1, <1>2 DEF Situation, Free, Untouched, Same
<1>3. CASE Unread(c)
  BY <1>1, <1>3 DEF Situation, Unread, Asks, Untouched, Same
<1>4. CASE Answered(c)
  BY <1>1, <1>4 DEF Situation, Answered, Asks, Untouched, Same
<1> QED
  BY <1>2, <1>3, <1>4 DEF Situation, Reading, InStep, Handled

\* A step that changes nothing of a client, of the frame of the thread and of the disk.
LEMMA FrameStill ==
  ASSUME NEW c \in Polite, Situation(c), UNCHANGED <<pc, local, disk>>, Same(c)
  PROVE  Situation(c)'
<1>1. Patient(c)'
  BY DEF Situation, Patient, Same
<1>2. CASE Free(c)
  BY <1>1, <1>2 DEF Situation, Free, Untouched, Same, local
<1>3. CASE Unread(c)
  BY <1>1, <1>3 DEF Situation, Unread, Asks, Untouched, Same, local
<1>4. CASE Reading(c)
  BY <1>1, <1>4 DEF Situation, Reading, Asks, InStep, Writing, Same, local
<1>5. CASE Handled(c)
  BY <1>1, <1>5 DEF Situation, Handled, Asks, Same, local
<1>6. CASE Answered(c)
  BY <1>1, <1>6 DEF Situation, Answered, Asks, Untouched, Same, local
<1> QED
  BY <1>2, <1>3, <1>4, <1>5, <1>6 DEF Situation

LEMMA KeptFrame ==
  ASSUME NEW c \in Polite, Kept(c), ~(pc = "data" /\ cur = c),
         \A f \in Names : disk'[f] = disk[f] \/ disk'[f].client # c
  PROVE  Kept(c)'
BY DEF Kept, Whole

LEMMA KeptStill ==
  ASSUME NEW c \in Polite, Kept(c), UNCHANGED <<pc, local, disk>>
  PROVE  Kept(c)'
BY DEF Kept, Whole, local

\* Whoever waits has asked for one thing more than was answered.
LEMMA Asking ==
  ASSUME TypeInv, NEW c \in Polite, NEW r, Asks(c, r)
  PROVE  /\ Len(asked[c]) = Len(answered[c]) + 1 /\ Len(answered[c]) \in Nat
         /\ asked[c] # answered[c]
         /\ \A i \in 1..Len(answered[c]) : asked[c][i] = answered[c][i]
         /\ asked[c][Len(asked[c])] = r
<1>1. answered[c] \in Seq(Understood) /\ asked[c] \in Seq(Requests)
  BY DEF TypeInv, TypeOK, Understood
<1>2. asked[c] = Append(answered[c], r)
  BY DEF Asks
<1>3. answered[c] \in Seq(Understood \cup {r}) /\ r \in Understood \cup {r}
  <2>1. Len(answered[c]) \in Nat /\ answered[c] \in [1..Len(answered[c]) -> Understood]
    BY <1>1, LenProperties
  <2> QED
    BY <2>1, IsASeq, SeqDef
<1>4. /\ Len(Append(answered[c], r)) = Len(answered[c]) + 1 /\ Len(answered[c]) \in Nat
      /\ \A i \in 1..Len(answered[c]) : Append(answered[c], r)[i] = answered[c][i]
      /\ Append(answered[c], r)[Len(answered[c]) + 1] = r
  BY <1>3, AppendProperties, LenProperties
<1>5. Len(asked[c]) # Len(answered[c])
  BY <1>2, <1>4
<1> QED
  BY <1>2, <1>4, <1>5

LEMMA FreeOnly ==
  ASSUME TypeInv, NEW c \in Polite, Situation(c),
         asked[c] = answered[c] \/ ~(Len(answered[c]) < Len(asked[c]))
  PROVE  Free(c)
<1>1. \A r : ~Asks(c, r)
  BY Asking
<1> QED
  BY <1>1 DEF Situation, Unread, Reading, Handled, Answered

LEMMA InitSituation == Init => \A c \in Polite : Situation(c) /\ Kept(c)
<1> SUFFICES ASSUME Init, NEW c \in Polite PROVE Situation(c) /\ Kept(c)
  OBVIOUS
<1>1. c \in Clients /\ c # Nobody
  BY PoliteClients, ClientsAssumption
<1>2. Patient(c) /\ Free(c)
  BY <1>1 DEF Init, Patient, Free, Untouched
<1>3. Kept(c)
  BY <1>1 DEF Init, Kept, Whole, Spoilt, File
<1> QED
  BY <1>2, <1>3 DEF Situation

-----------------------------------------------------------------------------
(* Steps of clients. *)

LEMMA ConnectSituation ==
  ASSUME IInv, NEW d \in Clients, Connect(d), NEW c \in Polite \ lost
  PROVE  Situation(c)'
<1>1. c \in Clients /\ Situation(c) /\ TypeInv
  BY PoliteClients DEF IInv
<1>2. CASE c # d
  <2>1. Same(c) /\ UNCHANGED <<pc, local, disk>>
    BY <1>1, <1>2 DEF Connect, Same, server, files, log, TypeInv, TypeOK
  <2> QED
    BY <1>1, <2>1, FrameStill
<1>3. CASE c = d
  <2>1. asked[c] = answered[c]
    BY <1>1, <1>3 DEF Connect, Situation, Patient
  <2>2. Free(c)
    BY <1>1, <2>1, FreeOnly
  <2>3. /\ UNCHANGED <<asked, executed, answered, toServer, toClient, cur, pc, count>>
        /\ state'[c] = "here"
    BY <1>1, <1>3 DEF Connect, server, local, log, TypeInv, TypeOK
  <2>4. Free(c)' /\ Patient(c)'
    BY <1>1, <2>1, <2>2, <2>3 DEF Situation, Patient, Free, Untouched
  <2> QED
    BY <2>4 DEF Situation
<1> QED
  BY <1>2, <1>3

LEMMA AskSituation ==
  ASSUME IInv, NEW d \in Clients, NEW kind, NEW name, <<kind, name>> \in Kinds,
         Ask(d, kind, name), NEW c \in Polite \ lost
  PROVE  Situation(c)'
<1>1. c \in Clients /\ Situation(c) /\ TypeInv
  BY PoliteClients DEF IInv
<1>2. CASE c # d
  <2>1. Same(c) /\ UNCHANGED <<pc, local, disk>>
    BY <1>1, <1>2 DEF Ask, Same, server, files, TypeInv, TypeOK
  <2> QED
    BY <1>1, <2>1, FrameStill
<1>3. CASE c = d
  <2> DEFINE r == [kind |-> kind, n |-> count[c] + 1, name |-> name]
  <2>1. r \in Requests /\ r.n = count[c] + 1
    BY <1>1, <1>3, AskType
  <2>2. Free(c)
    <3>1. ~(Len(answered[c]) < Len(asked[c]))
      BY <1>3 DEF Ask, Waits
    <3> QED
      BY <1>1, <3>1, FreeOnly
  <2>3. /\ asked' = [asked EXCEPT ![c] = Append(@, r)]
        /\ toServer' = [toServer EXCEPT ![c] = @ \o Message(r)]
        /\ count' = [count EXCEPT ![c] = @ + 1] /\ state[c] = "here"
        /\ UNCHANGED <<executed, answered, toClient, state, cur, pc>>
    BY <1>3 DEF Ask, server, local
  <2> HIDE DEF r
  <2>4. /\ asked'[c] = Append(asked[c], r) /\ count'[c] = count[c] + 1
        /\ toServer'[c] = Message(r)
    <3>1. toServer[c] = <<>>
      BY <2>2 DEF Free
    <3>2. <<>> \o Message(r) = Message(r)
      BY <2>1, MessageType, ConcatEmptySeq
    <3> QED
      BY <1>1, <2>3, <3>1, <3>2 DEF TypeInv, TypeOK
  <2>5. Patient(c)'
    <3>1. /\ Len(asked[c]) = count[c] /\ count[c] \in Nat
          /\ \A i \in 1..Len(asked[c]) : asked[c][i].n = i
      BY <1>1, Bounds DEF Situation, Patient, TypeInv, TypeOK
    <3>2. asked[c] \in Seq(Requests)
      BY DEF IInv, TypeInv, TypeOK
    <3>3. /\ Len(asked'[c]) = Len(asked[c]) + 1
          /\ \A i \in 1..Len(asked[c]) : asked'[c][i] = asked[c][i]
          /\ asked'[c][Len(asked[c]) + 1] = r
      BY <2>1, <2>4, <3>2, AppendProperties
    <3>4. ASSUME NEW i \in 1..Len(asked'[c]) PROVE asked'[c][i].n = i
      <4>1. Len(asked[c]) \in Nat /\ (i \in 1..Len(asked[c]) \/ i = Len(asked[c]) + 1)
        BY <3>1, <3>3
      <4> QED
        BY <2>1, <3>1, <3>3, <4>1
    <3> QED
      BY <2>3, <2>4, <3>1, <3>3, <3>4 DEF Patient
  <2>6. Unread(c)'
    <3>1. PICK q \in Requests : q = r
      BY <2>1
    <3>2. Asks(c, q)'
      BY <2>2, <2>3, <2>4, <3>1 DEF Asks, Free
    <3>3. toServer'[c] = Message(q)
      BY <2>4, <3>1
    <3> QED
      BY <2>2, <2>3, <3>2, <3>3 DEF Unread, Free, Untouched
  <2> QED
    BY <2>5, <2>6 DEF Situation
<1> QED
  BY <1>2, <1>3

\* A reply that is read is the answer to what was asked.
LEMMA TakeReplySituation ==
  ASSUME IInv, NEW d \in Clients, TakeReply(d), NEW c \in Polite \ lost
  PROVE  /\ Situation(c)'
         /\ c = d => /\ asked[c] # answered[c] /\ executed[c] = asked[c]
                     /\ answered'[c] = asked[c]
<1>1. c \in Clients /\ Situation(c) /\ TypeInv
  BY PoliteClients DEF IInv
<1>2. CASE c # d
  <2>1. Same(c) /\ UNCHANGED <<pc, local, disk>>
    BY <1>1, <1>2 DEF TakeReply, Same, server, files, client, TypeInv, TypeOK
  <2> QED
    BY <1>1, <1>2, <2>1, FrameStill
<1>3. CASE c = d
  <2>1. Answered(c)
    BY <1>1, <1>3 DEF TakeReply, Situation, Free, Unread, Reading, Handled
  <2>2. PICK r \in Requests : /\ Asks(c, r) /\ executed[c] = asked[c]
                              /\ toServer[c] = <<>> /\ toClient[c] = <<r>> /\ Untouched(c)
    BY <2>1 DEF Answered
  <2>3. Head(toClient[c]) = r /\ Tail(toClient[c]) = <<>>
    BY <2>2
  <2>4. /\ answered'[c] = asked[c] /\ toClient'[c] = <<>>
        /\ UNCHANGED <<asked, executed, toServer, state, count, cur, pc>>
    BY <1>1, <1>3, <2>2, <2>3
    DEF TakeReply, Asks, server, local, client, TypeInv, TypeOK
  <2>5. Free(c)' /\ Patient(c)'
    BY <1>1, <2>2, <2>4 DEF Free, Untouched, Situation, Patient
  <2>6. asked[c] # answered[c]
    BY <1>1, <2>2, Asking
  <2> QED
    BY <2>2, <2>4, <2>5, <2>6 DEF Situation
<1> QED
  BY <1>2, <1>3

LEMMA LeaveSituation ==
  ASSUME IInv, NEW d \in Clients, Leave(d) \/ Abort(d), NEW c \in Polite \ lost
  PROVE  Situation(c)'
<1>1. c \in Clients /\ c \notin Careless /\ Situation(c) /\ TypeInv
  BY PoliteClients DEF IInv
<1>2. CASE c # d
  <2>1. Same(c) /\ UNCHANGED <<pc, local, disk>>
    BY <1>1, <1>2 DEF Leave, Abort, Same, server, files, log, TypeInv, TypeOK
  <2> QED
    BY <1>1, <2>1, FrameStill
<1>3. CASE c = d
  <2>1. Leave(c)
    BY <1>1, <1>3 DEF Abort
  <2>2. Free(c)
    <3>1. ~(Len(answered[c]) < Len(asked[c]))
      BY <2>1 DEF Leave, Waits
    <3> QED
      BY <1>1, <3>1, FreeOnly
  <2>3. toServer'[c] = <<>>
    <3>1. PICK k \in 0..Len(toServer[c]) : toServer' = [toServer EXCEPT ![c] = SubSeq(@, 1, k)]
      BY <2>1 DEF Leave
    <3>2. k = 0
      BY <2>2, <3>1 DEF Free
    <3>3. SubSeq(toServer[c], 1, k) = <<>>
      BY <3>2, SubSeqEmpty
    <3> QED
      BY <1>1, <3>1, <3>3 DEF TypeInv
  <2>4. /\ UNCHANGED <<asked, executed, answered, toClient, cur, pc, count>>
        /\ state'[c] = "left"
    BY <1>1, <2>1 DEF Leave, server, local, log, TypeInv, TypeOK
  <2>5. Free(c)' /\ Patient(c)'
    BY <1>1, <2>2, <2>3, <2>4 DEF Situation, Patient, Free, Untouched
  <2> QED
    BY <2>5 DEF Situation
<1> QED
  BY <1>2, <1>3

-----------------------------------------------------------------------------
(* Steps of the server. *)

LEMMA LoopSituation ==
  ASSUME IInv, EpollWait \/ \E d \in Clients : DoAccept(d) \/ HandleMessage(d),
         NEW c \in Polite \ lost
  PROVE  Situation(c)' /\ Kept(c)'
<1>1. Situation(c) /\ Kept(c)
  BY DEF IInv
<1>2. pc = "loop" /\ Same(c) /\ UNCHANGED disk
  BY DEF EpollWait, DoAccept, HandleMessage, Same, files, log, net, client
<1>3. Kept(c)'
  BY <1>1, <1>2, KeptFrame
<1>4. CASE EpollWait \/ \E d \in Clients : DoAccept(d)
  <2>1. UNCHANGED <<pc, local>>
    BY <1>4 DEF EpollWait, DoAccept
  <2> QED
    BY <1>1, <1>2, <1>3, <2>1, FrameStill
<1>5. CASE \E d \in Clients : HandleMessage(d)
  <2>1. pc' = "flag"
    BY <1>5 DEF HandleMessage
  <2> QED
    BY <1>1, <1>2, <1>3, <2>1, FrameIdle
<1> QED
  BY <1>4, <1>5

\* A recv from the connection of another client: the file that it may open or write
\* is not one of c.
LEMMA RecvOther ==
  ASSUME IInv, RecvFlag \/ RecvIns \/ RecvName \/ RecvSize \/ RecvFile,
         NEW c \in Polite \ lost, c # cur
  PROVE  Situation(c)' /\ Kept(c)'
<1>1. /\ c \in Clients /\ Situation(c) /\ Kept(c) /\ cur \in Clients /\ c # Nobody
      /\ toServer \in [Clients -> Seq(Items)] /\ disk \in [Names -> FilesOnDisk] /\ TypeInv
  BY PoliteClients, ClientsAssumption
  DEF IInv, TypeInv, RecvFlag, RecvIns, RecvName, RecvSize, RecvFile
<1>2. UNCHANGED <<asked, executed, answered, toClient, client>>
  BY DEF RecvFlag, RecvIns, RecvName, RecvSize, RecvFile, log
<1>3. cur' \in {cur, Nobody}
  BY DEF RecvFlag, RecvIns, RecvName, RecvSize, RecvFile, OpenFile, NotOpened,
         Goto, Close, Return, Exit, Die, local
<1>4. toServer'[c] = toServer[c]
  <2>1. \/ UNCHANGED toServer
        \/ \E k \in Nat : Take(k)
        \/ Cut
    BY SizesAssumption DEF RecvFlag, RecvIns, RecvName, RecvSize, RecvFile, Sizes, Misread
  <2>2. ASSUME NEW k \in Nat, Take(k) PROVE toServer'[c] = toServer[c]
    BY <1>1, <2>2 DEF Take
  <2> QED
    BY <1>1, <2>1, <2>2 DEF Cut
<1>5. Situation(c)'
  BY <1>1, <1>2, <1>3, <1>4, Frame DEF client, Same
<1>6. ASSUME NEW f \in Names PROVE disk'[f] = disk[f] \/ disk'[f].client # c
  <2>1. CASE Exit
    BY <1>1, <2>1, ExitType, SpoiltType
  <2>2. CASE UNCHANGED disk
    BY <2>2
  <2>3. ASSUME RecvSize, NEW n, OpenFile(n) PROVE disk'[f] = disk[f] \/ disk'[f].client # c
    <3>1. req \in Files \cup {None, Garbage}
      BY <1>1, <2>3 DEF TypeInv, RecvSize
    <3> QED
      BY <1>1, <2>3, <3>1, OpenFileType, SpoiltType DEF File
  <2>4. CASE RecvFile /\ ~UNCHANGED disk /\ ~Exit
    <3>1. path \in Names /\ disk[path].client # c
      BY <1>1, <2>4 DEF RecvFile, TypeInv
    <3>2. CASE disk' = [disk EXCEPT ![path] = Spoilt]
      BY <1>1, <3>1, <3>2, SpoiltType
    <3>3. ASSUME NEW bytes, disk' = [disk EXCEPT ![path].bytes = bytes]
          PROVE  disk'[f] = disk[f] \/ disk'[f].client # c
      BY <1>1, <3>1, <3>3 DEF FilesOnDisk
    <3>4. \/ disk' = [disk EXCEPT ![path] = Spoilt]
          \/ \E bytes : disk' = [disk EXCEPT ![path].bytes = bytes]
      BY <2>4 DEF RecvFile, Write, files
    <3> QED
      BY <3>2, <3>3, <3>4
  <2> QED
    BY <2>1, <2>2, <2>3, <2>4 DEF RecvFlag, RecvIns, RecvName, RecvSize, NotOpened, files
<1>7. Kept(c)'
  BY <1>1, <1>6, KeptFrame
<1> QED
  BY <1>5, <1>7

\* The client that is read from is there, as long as its request is not answered.
LEMMA Present ==
  ASSUME IInv, cur \in Polite \ lost, asked[cur] # answered[cur]
  PROVE  state[cur] = "here" /\ ~Ended /\ ~Failed
<1>1. state[cur] = "here"
  BY DEF IInv, Situation, Patient
<1> QED
  BY <1>1 DEF Ended, Failed

LEMMA RecvFlagSituation ==
  ASSUME IInv, RecvFlag, NEW c \in Polite \ lost, c = cur, c \notin lost'
  PROVE  Situation(c)' /\ Kept(c)'
<1>1. /\ c \in Clients /\ c # Nobody /\ Situation(c) /\ Kept(c) /\ pc = "flag" /\ TypeInv
  BY PoliteClients, ClientsAssumption DEF IInv, RecvFlag
<1>2. /\ UNCHANGED <<asked, executed, answered, toClient, disk>> /\ Patient(c)'
  BY <1>1 DEF RecvFlag, files, client, Situation, Patient
<1>3. Kept(c)'
  BY <1>1, <1>2, KeptFrame
<1>4. CASE (Ended \/ Failed) /\ Close /\ UNCHANGED <<toServer, lost>>
  <2>1. Free(c)
    BY <1>1, <1>4, Present, FreeOnly
  <2>2. Free(c)'
    BY <1>1, <1>2, <1>4, <2>1 DEF Free, Untouched, Close, Return
  <2> QED
    BY <1>2, <1>3, <2>2 DEF Situation
<1>5. CASE Begins("flag") \/ Misread("flag")
  <2>1. Incoming # <<>>
    BY <1>5 DEF Begins, Misread, Cut
  <2>2. Unread(c)
    BY <1>1, <2>1 DEF Incoming, Situation, Free, Reading, InStep, Handled, Answered
  <2>3. PICK r \in Requests : /\ Asks(c, r) /\ executed[c] = answered[c]
                              /\ toServer[c] = Message(r) /\ toClient[c] = <<>>
    BY <2>2 DEF Unread
  <2>4. Incoming = <<Field(r, "flag")>> \o Rest(r) /\ Rest(r) \in Seq(Items)
    BY <1>1, <2>3, MessageType DEF Incoming
  <2>5. /\ Field(r, "flag") \in Items
        /\ Field(r, "flag").of = r /\ Field(r, "flag").part = "flag"
    BY FieldType
  <2>6. Head(Incoming) = Field(r, "flag") /\ SubSeq(Incoming, 2, Len(Incoming)) = Rest(r)
    BY <2>4, <2>5, Cons
  <2>7. ~Ended /\ ~Failed
    BY <1>1, <2>3, Asking, Present
  <2>8. ~Misread("flag")
    <3>1. Begins("flag")
      BY <2>1, <2>5, <2>6 DEF Begins
    <3> QED
      BY <1>1, <3>1 DEF Misread, Cut, Lose
  <2>9. Take(1) /\ req' = r /\ Goto(After(r.kind))
    BY <2>5, <2>6, <2>7, <2>8 DEF RecvFlag
  <2>10. toServer'[c] = Rest(r) /\ cur' = c /\ pc' = After(r.kind)
    BY <1>1, <2>1, <2>6, <2>9, TakenFirst DEF Goto
  <2>11. InStep(c)'
    <3>1. CASE r.kind = "instruction"
      BY <2>9, <2>10, <3>1 DEF InStep, After, Rest
    <3>2. CASE r.kind = "file"
      BY <2>9, <2>10, <3>2, FileRest DEF InStep, After, Rest, Files
    <3>3. CASE r.kind = "query"
      BY <2>9, <2>10, <3>3 DEF InStep, After, Rest
    <3> QED
      BY <3>1, <3>2, <3>3, NotRequests
  <2>12. Reading(c)'
    BY <1>2, <2>3, <2>9, <2>10, <2>11 DEF Reading, Asks
  <2> QED
    BY <1>2, <1>3, <2>12 DEF Situation
<1> QED
  BY <1>4, <1>5 DEF RecvFlag

\* While a request is being read, only its own parts are in the stream.
LEMMA StillReading ==
  ASSUME IInv, NEW c \in Polite \ lost, c = cur,
         pc \in {"ins", "name", "size", "data", "conduct", "handle"}
  PROVE  /\ Reading(c) /\ c \in Clients /\ req \in Requests
         /\ req # None /\ req # Garbage /\ ~Ended /\ ~Failed
<1>1. Reading(c)
  BY DEF IInv, Situation, Free, Unread, Handled, Answered, Untouched
<1>2. req \in Requests /\ asked[c] # answered[c]
  BY <1>1, Asking DEF Reading, IInv
<1> QED
  BY <1>1, <1>2, Present, PoliteClients, NotRequests

LEMMA ReadOn ==
  ASSUME NEW c \in Polite, Situation(c), Reading(c), InStep(c)', req' = req, cur' = cur,
         UNCHANGED <<asked, executed, answered, toClient, client>>
  PROVE  Situation(c)'
<1>1. Patient(c)'
  BY DEF Situation, Patient, client
<1>2. Reading(c)'
  BY DEF Reading, Asks
<1> QED
  BY <1>1, <1>2 DEF Situation

LEMMA RecvInsSituation ==
  ASSUME IInv, RecvIns, NEW c \in Polite \ lost, c = cur, c \notin lost'
  PROVE  Situation(c)' /\ Kept(c)'
<1>1. pc = "ins" /\ TypeInv /\ Situation(c) /\ Kept(c)
  BY DEF RecvIns, IInv
<1>2. /\ Reading(c) /\ c \in Clients /\ req \in Requests /\ ~Ended /\ ~Failed
  BY <1>1, StillReading
<1>3. req.kind = "instruction" /\ Incoming = Body(req)
  BY <1>1, <1>2 DEF Reading, InStep, Incoming
<1>4. /\ Body(req) \in Seq(Items) /\ Len(Body(req)) = InsSize /\ InsSize \in Nat \ {0}
      /\ Body(req)[1] = [of |-> req, part |-> "body", i |-> 1]
  BY <1>2, <1>3, BodyType, SizesAssumption
<1>5. PICK k \in Sizes : /\ Take(k) /\ req' = Instruction(Chunk(k))
                         /\ IF k < InsSize THEN Lose ELSE UNCHANGED lost
  BY <1>2 DEF RecvIns
<1>6. k = InsSize
  <2>1. ~Lose
    BY <1>1 DEF Lose
  <2>2. k \in Nat /\ k <= InsSize
    BY <1>3, <1>4, SizesAssumption DEF Sizes
  <2> QED
    BY <1>4, <1>5, <2>1, <2>2
<1>7. Goto("conduct") /\ UNCHANGED disk
  BY <1>2 DEF RecvIns
<1>8. Chunk(k) = Body(req)
  BY <1>3, <1>4, <1>6, SubSeqFull DEF Chunk
<1>9. req' = req
  <2>1. SubSeq(Body(req), 1, InsSize) = Body(req)
    BY <1>4, SubSeqFull
  <2> QED
    BY <1>3, <1>4, <1>5, <1>8, <2>1 DEF Instruction
<1>10. toServer'[c] = <<>>
  <2>1. toServer'[cur] = SubSeq(Incoming, InsSize + 1, Len(Incoming))
    BY <1>1, <1>2, <1>3, <1>4, <1>5, <1>6, Taken
  <2> QED
    BY <1>3, <1>4, <2>1, SubSeqEmpty
<1>11. InStep(c)' /\ cur' = cur
  BY <1>7, <1>10 DEF InStep, Goto
<1>12. Kept(c)'
  BY <1>1, <1>7, KeptFrame
<1> QED
  BY <1>1, <1>2, <1>9, <1>11, <1>12, ReadOn DEF RecvIns

LEMMA RecvNameSituation ==
  ASSUME IInv, RecvName, NEW c \in Polite \ lost, c = cur, c \notin lost'
  PROVE  Situation(c)' /\ Kept(c)'
<1>1. pc = "name" /\ TypeInv /\ Situation(c) /\ Kept(c)
  BY DEF RecvName, IInv
<1>2. /\ Reading(c) /\ c \in Clients /\ req \in Requests /\ ~Ended /\ ~Failed
  BY <1>1, StillReading
<1> DEFINE tail == <<Field(req, "size")>> \o Body(req)
<1>3. req.kind = "file" /\ Incoming = <<Field(req, "name")>> \o tail
  BY <1>1, <1>2 DEF Reading, InStep, Incoming
<1>4. /\ Field(req, "name") \in Items /\ Field(req, "size") \in Items
      /\ Field(req, "name").of = req /\ Field(req, "name").part = "name"
  BY <1>2, <1>3, FieldType
<1>5. tail \in Seq(Items)
  BY <1>2, <1>4, BodyType, Cons
<1> HIDE DEF tail
<1>6. /\ Incoming # <<>> /\ Head(Incoming) = Field(req, "name")
      /\ SubSeq(Incoming, 2, Len(Incoming)) = tail
  BY <1>3, <1>4, <1>5, Cons
<1>7. Begins("name") /\ ~Misread("name")
  <2>1. Begins("name")
    BY <1>4, <1>6 DEF Begins
  <2> QED
    BY <1>1, <2>1 DEF Misread, Cut, Lose
<1>8. Take(1) /\ req' = req /\ Goto("size") /\ UNCHANGED disk
  BY <1>2, <1>4, <1>6, <1>7 DEF RecvName
<1>9. toServer'[c] = tail
  BY <1>1, <1>2, <1>6, <1>8, TakenFirst
<1>10. InStep(c)' /\ cur' = cur
  BY <1>3, <1>8, <1>9 DEF InStep, Goto, tail
<1>11. Kept(c)'
  BY <1>1, <1>8, KeptFrame
<1> QED
  BY <1>1, <1>2, <1>8, <1>10, <1>11, ReadOn DEF RecvName

LEMMA RecvSizeSituation ==
  ASSUME IInv, RecvSize, NEW c \in Polite \ lost, c = cur, c \notin lost'
  PROVE  Situation(c)' /\ Kept(c)'
<1>1. pc = "size" /\ TypeInv /\ Situation(c) /\ Kept(c) /\ got = 0
  BY DEF RecvSize, IInv, TypeInv
<1>2. /\ Reading(c) /\ c \in Clients /\ req \in Requests /\ ~Ended /\ ~Failed
      /\ req # Garbage
  BY <1>1, StillReading
<1>3. req.kind = "file" /\ req \in Files /\ Incoming = <<Field(req, "size")>> \o Body(req)
  BY <1>1, <1>2 DEF Reading, InStep, Incoming, Files
<1>4. /\ Field(req, "size") \in Items /\ Field(req, "size").part = "size"
      /\ Body(req) \in Seq(Items)
  BY <1>2, FieldType, BodyType
<1>5. /\ Incoming # <<>> /\ Head(Incoming) = Field(req, "size")
      /\ SubSeq(Incoming, 2, Len(Incoming)) = Body(req)
  BY <1>3, <1>4, Cons
<1>6. Begins("size") /\ ~Misread("size")
  <2>1. Begins("size")
    BY <1>4, <1>5 DEF Begins
  <2> QED
    BY <1>1, <2>1 DEF Misread, Cut, Lose
<1>7. ~Lose
  BY <1>1 DEF Lose
<1>8. Take(1) /\ OpenFile(FileSize)
  BY <1>2, <1>6, <1>7 DEF RecvSize
<1>9. /\ pc' = "data" /\ cur' = cur /\ want' = FileSize /\ UNCHANGED <<req, got, path>>
  BY <1>8 DEF OpenFile, Goto
<1>10. toServer'[c] = Body(req)
  BY <1>1, <1>2, <1>5, <1>8, TakenFirst
<1>11. /\ path \in Names /\ disk'[path] = File(c, req, <<>>)
       /\ \A f \in Names \ {path} : disk'[f] = disk[f]
  BY <1>1, <1>2, <1>3, <1>8, OpenFileType
<1>12. Writing(c)' /\ disk'[path'].bytes \o toServer'[c] = Body(req)
  BY <1>1, <1>4, <1>9, <1>10, <1>11, ConcatEmptySeq DEF Writing, File
<1>13. InStep(c)'
  BY <1>3, <1>9, <1>12 DEF InStep
<1>14. Kept(c)'
  BY <1>1, <1>9, <1>11 DEF Kept, Whole
<1> QED
  BY <1>1, <1>2, <1>9, <1>13, <1>14, ReadOn DEF RecvSize

\* The size of what was received, and of what is still to come.
LEMMA Remaining ==
  ASSUME TypeInv, NEW c \in Clients, req \in Files, path \in Names,
         Writing(c), disk[path].bytes \o toServer[c] = Body(req)
  PROVE  /\ got + Len(toServer[c]) = FileSize
         /\ got = FileSize => toServer[c] = <<>> /\ disk[path].bytes = Body(req)
<1>1. /\ disk[path].bytes \in Seq(Items) /\ toServer[c] \in Seq(Items)
      /\ Len(disk[path].bytes) = got /\ got \in Nat /\ Len(toServer[c]) \in Nat
  <2>1. disk[path].bytes \in Seq(Items)
    BY DEF TypeInv, FilesOnDisk
  <2>2. toServer[c] \in Seq(Items)
    BY DEF TypeInv
  <2> QED
    BY <2>1, <2>2, LenProperties DEF Writing
<1>2. Len(Body(req)) = FileSize /\ FileSize \in Nat
  BY BodyType, SizesAssumption DEF Files
<1>3. got + Len(toServer[c]) = FileSize
  <2>1. Len(disk[path].bytes \o toServer[c]) = Len(disk[path].bytes) + Len(toServer[c])
    BY <1>1, ConcatProperties
  <2> QED
    BY <1>1, <1>2, <2>1
<1>4. ASSUME got = FileSize PROVE toServer[c] = <<>> /\ disk[path].bytes = Body(req)
  <2>1. toServer[c] = <<>>
    BY <1>1, <1>2, <1>3, <1>4, EmptySeq
  <2> QED
    BY <1>1, <2>1, ConcatEmptySeq
<1> QED
  BY <1>3, <1>4

\* What is written of the file in hand.
LEMMA WriteType ==
  ASSUME TypeInv, pc = "data", req # Garbage, cur \in Clients, NEW k \in Sizes, Take(k),
         Write(Chunk(k))
  PROVE  /\ path \in Names /\ k \in Nat
         /\ disk'[path] = [disk[path] EXCEPT !.bytes = @ \o Chunk(k)]
         /\ disk'[path].client = disk[path].client /\ disk'[path].req = disk[path].req
         /\ disk'[path].bytes = disk[path].bytes \o Chunk(k)
         /\ Len(disk'[path].bytes) = Len(disk[path].bytes) + k
         /\ disk'[path].bytes \o toServer'[cur] = disk[path].bytes \o toServer[cur]
         /\ \A f \in Names \ {path} : disk'[f] = disk[f]
<1>1. path \in Names /\ disk \in [Names -> FilesOnDisk] /\ disk[path] \in FilesOnDisk
  BY DEF TypeInv
<1>2. k \in 1..Len(Incoming) /\ k \in Nat
  BY SizesAssumption DEF Sizes
<1>3. /\ toServer'[cur] \in Seq(Items) /\ Chunk(k) \in Seq(Items) /\ Len(Chunk(k)) = k
      /\ toServer[cur] = Chunk(k) \o toServer'[cur]
  BY <1>2, Taken DEF Incoming
<1>4. disk[path].bytes \in Seq(Items)
  BY <1>1 DEF FilesOnDisk
<1> DEFINE bytes == disk[path].bytes \o Chunk(k)
<1>5. /\ Len(bytes) = Len(disk[path].bytes) + k
      /\ bytes \o toServer'[cur] = disk[path].bytes \o toServer[cur]
  <2>1. \A s, t, u \in Seq(Items) : (s \o t) \o u = s \o (t \o u)
    BY ConcatAssociative
  <2>2. (disk[path].bytes \o Chunk(k)) \o toServer'[cur]
          = disk[path].bytes \o (Chunk(k) \o toServer'[cur])
    BY <1>3, <1>4, <2>1
  <2>3. Len(disk[path].bytes \o Chunk(k)) = Len(disk[path].bytes) + Len(Chunk(k))
    BY <1>3, <1>4, ConcatProperties
  <2> QED
    BY <1>3, <2>2, <2>3
<1>6. disk' = [disk EXCEPT ![path] = [disk[path] EXCEPT !.bytes = bytes]]
  BY DEF Write
<1> HIDE DEF bytes
<1>7. disk'[path] = [disk[path] EXCEPT !.bytes = bytes]
  BY <1>1, <1>6
<1>8. /\ disk'[path].client = disk[path].client /\ disk'[path].req = disk[path].req
      /\ disk'[path].bytes = bytes
  BY <1>1, <1>7 DEF FilesOnDisk
<1>9. \A f \in Names \ {path} : disk'[f] = disk[f]
  BY <1>1, <1>6
<1> QED
  BY <1>1, <1>2, <1>5, <1>7, <1>8, <1>9 DEF bytes

LEMMA RecvFileSituation ==
  ASSUME IInv, RecvFile, NEW c \in Polite \ lost, c = cur
  PROVE  Situation(c)' /\ Kept(c)'
<1>1. pc = "data" /\ TypeInv /\ Situation(c) /\ Kept(c) /\ path \in Names
  BY DEF RecvFile, IInv, TypeInv
<1>2. /\ Reading(c) /\ c \in Clients /\ req \in Requests /\ ~Ended /\ ~Failed
      /\ req # Garbage
  BY <1>1, StillReading
<1>3. /\ req.kind = "file" /\ req \in Files /\ want = FileSize
      /\ Writing(c) /\ disk[path].bytes \o toServer[c] = Body(req)
  BY <1>1, <1>2 DEF Reading, InStep, Files
<1>4. UNCHANGED <<asked, executed, answered, toClient, client>>
  BY DEF RecvFile, log
<1>5. CASE ~More /\ Goto("handle") /\ UNCHANGED <<req, path, want, got, files, toServer>>
  <2>1. toServer[c] = <<>> /\ disk[path].bytes = Body(req)
    BY <1>1, <1>2, <1>3, <1>5, Remaining DEF More
  <2>2. InStep(c)' /\ cur' = cur /\ req' = req
    BY <1>5, <2>1 DEF InStep, Goto
  <2>3. Kept(c)'
    BY <1>1, <1>3, <1>5, <2>1 DEF Kept, Whole, Writing, files
  <2> QED
    BY <1>1, <1>2, <1>4, <2>2, <2>3, ReadOn
<1>6. ASSUME NEW k \in Sizes, Take(k), got' = got + k, Write(Chunk(k)),
             UNCHANGED <<pc, cur, req, path, want, unclosed, conn>>
      PROVE  Situation(c)' /\ Kept(c)'
  <2>1. Writing(c)' /\ disk'[path].bytes \o toServer'[c] = Body(req)
    BY <1>1, <1>2, <1>3, <1>6, WriteType DEF Writing
  <2>2. InStep(c)'
    BY <1>1, <1>3, <1>6, <2>1 DEF InStep
  <2>3. Kept(c)'
    <3>1. \A f \in Names \ {path} : disk'[f] = disk[f]
      BY <1>1, <1>2, <1>6, WriteType
    <3> QED
      BY <1>1, <1>6, <3>1 DEF Kept, Whole
  <2> QED
    BY <1>1, <1>2, <1>4, <1>6, <2>2, <2>3, ReadOn
<1> QED
  BY <1>2, <1>5, <1>6 DEF RecvFile

\* A request is handled when it was not handled before, and none of another client is.
LEMMA HandleSituation ==
  ASSUME IInv, Conduct \/ Handle, NEW c \in Polite \ lost
  PROVE  /\ Situation(c)' /\ Kept(c)'
         /\ c # cur => executed'[c] = executed[c]
         /\ c = cur => /\ executed[c] = answered[c] /\ executed[c] # asked[c]
                       /\ executed'[c] = asked[c]
<1>1. /\ c \in Clients /\ c # Nobody /\ Situation(c) /\ Kept(c) /\ TypeInv
      /\ pc \in {"conduct", "handle"} /\ pc' \in {"send", "hung", "dead"} /\ Executed
      /\ UNCHANGED <<local, disk, asked, answered, toServer, toClient, client>>
  BY PoliteClients, ClientsAssumption DEF IInv, Conduct, Handle, files, net
<1>2. Kept(c)'
  BY <1>1, KeptFrame
<1>3. CASE c # cur
  <2>1. executed'[c] = executed[c]
    BY <1>1, <1>3, ExecutedType
  <2> QED
    BY <1>1, <1>2, <1>3, <2>1, Frame DEF local, client, Same
<1>4. CASE c = cur
  <2>1. Reading(c) /\ toServer[c] = <<>>
    BY <1>1, <1>4, StillReading DEF Reading, InStep
  <2>2. executed'[c] = asked[c]
    BY <1>1, <1>4, <2>1, ExecutedType DEF Reading, Asks
  <2>3. Handled(c)'
    BY <1>1, <1>4, <2>1, <2>2 DEF Handled, Reading, Asks, local
  <2>4. Patient(c)'
    BY <1>1 DEF Situation, Patient, client
  <2>5. executed[c] = answered[c] /\ executed[c] # asked[c]
    BY <1>1, <2>1, Asking DEF Reading
  <2> QED
    BY <1>2, <1>4, <2>2, <2>3, <2>4, <2>5 DEF Situation
<1> QED
  BY <1>3, <1>4

LEMMA DoSendSituation ==
  ASSUME IInv, DoSend, NEW c \in Polite \ lost
  PROVE  Situation(c)' /\ Kept(c)'
<1>1. /\ c \in Clients /\ c # Nobody /\ Situation(c) /\ Kept(c) /\ pc = "send"
      /\ cur \in Clients /\ toClient \in [Polite -> Seq(Understood)] /\ TypeInv
      /\ UNCHANGED <<disk, asked, executed, answered, toServer, client>>
  BY PoliteClients, ClientsAssumption DEF IInv, TypeInv, DoSend, files, log
<1>2. Kept(c)'
  BY <1>1, KeptFrame
<1>3. CASE c # cur
  <2>1. toClient'[c] = toClient[c]
    BY <1>1, <1>3 DEF DoSend
  <2>2. cur' \in {cur, Nobody}
    BY DEF DoSend, Return, Die, local
  <2> QED
    BY <1>1, <1>2, <1>3, <2>1, <2>2, Frame DEF client, Same
<1>4. CASE c = cur
  <2>1. Handled(c)
    BY <1>1, <1>4 DEF Situation, Free, Unread, Reading, InStep, Answered, Untouched
  <2>2. state[cur] = "here"
    BY <1>1, <1>4, <2>1, Asking, Present DEF Handled
  <2>3. Return /\ toClient' = [toClient EXCEPT ![cur] = Append(@, req)]
    BY <1>4, <2>2 DEF DoSend
  <2>4. PICK r \in Requests : r = req
    BY <2>1 DEF Handled
  <2>5. toClient'[c] = <<r>>
    BY <1>1, <1>4, <2>1, <2>3, <2>4 DEF Handled
  <2>6. Asks(c, r)' /\ executed'[c] = asked'[c] /\ toServer'[c] = <<>> /\ cur' # c
    BY <1>1, <2>1, <2>3, <2>4 DEF Handled, Asks, Return
  <2>7. Answered(c)'
    BY <2>5, <2>6 DEF Answered, Untouched
  <2>8. Patient(c)'
    BY <1>1 DEF client, Situation, Patient
  <2> QED
    BY <1>2, <2>7, <2>8 DEF Situation
<1> QED
  BY <1>3, <1>4

LEMMA RecvSituation ==
  ASSUME IInv, RecvFlag \/ RecvIns \/ RecvName \/ RecvSize \/ RecvFile,
         NEW c \in Polite \ lost, c \notin lost'
  PROVE  Situation(c)' /\ Kept(c)'
<1>1. CASE c # cur
  BY <1>1, RecvOther
<1>2. CASE c = cur
  BY <1>2, RecvFlagSituation, RecvInsSituation, RecvNameSituation, RecvSizeSituation,
     RecvFileSituation
<1> QED
  BY <1>1, <1>2

\* Whoever is lost stays lost.
LEMMA LostGrows ==
  ASSUME [Next]_vars PROVE lost' = lost \/ lost' = lost \cup {cur}
<1>1. CASE Server
  BY <1>1 DEF Server, EpollWait, DoAccept, HandleMessage, RecvFlag, RecvIns, RecvName,
              RecvSize, RecvFile, Conduct, Handle, DoSend, Misread, Cut, Lose, log
<1>2. CASE \E c \in Clients : Client(c)
  BY <1>2 DEF Client, Connect, Ask, TakeReply, Leave, Abort, log
<1>3. CASE UNCHANGED vars
  BY <1>3 DEF vars, log
<1> QED
  BY <1>1, <1>2, <1>3 DEF Next

LEMMA ClientSituation ==
  ASSUME IInv, NEW d \in Clients, Client(d), NEW c \in Polite \ lost
  PROVE  Situation(c)' /\ Kept(c)'
<1>1. Kept(c)'
  <2>1. UNCHANGED <<pc, local, disk>>
    BY DEF Client, Connect, Ask, TakeReply, Leave, Abort, server, files
  <2> QED
    BY <2>1, KeptStill DEF IInv
<1>2. ASSUME NEW kind \in {"instruction", "query"}, Ask(d, kind, NoName) PROVE Situation(c)'
  BY <1>2, AskSituation DEF Kinds
<1>3. ASSUME NEW name \in Names, Ask(d, "file", name) PROVE Situation(c)'
  BY <1>3, AskSituation DEF Kinds
<1>4. Situation(c)'
  BY <1>2, <1>3, ConnectSituation, TakeReplySituation, LeaveSituation DEF Client
<1> QED
  BY <1>1, <1>4

LEMMA NextSituation == IInv /\ [Next]_vars => IInv'
<1> SUFFICES ASSUME IInv, [Next]_vars PROVE IInv'
  OBVIOUS
<1>1. TypeInv' /\ lost \subseteq lost'
  BY NextType, LostGrows DEF IInv
<1>2. ASSUME NEW c \in Polite \ lost' PROVE Situation(c)' /\ Kept(c)'
  <2>1. c \in Polite \ lost
    BY <1>1
  <2>2. CASE Server
    BY <2>1, <2>2, LoopSituation, RecvSituation, HandleSituation, DoSendSituation DEF Server
  <2>3. CASE \E d \in Clients : Client(d)
    BY <2>1, <2>3, ClientSituation
  <2>4. CASE UNCHANGED vars
    <3>1. Same(c) /\ UNCHANGED <<pc, local, disk>>
      BY <2>4 DEF vars, server, files, log, net, client, Same
    <3> QED
      BY <2>1, <3>1, FrameStill, KeptStill DEF IInv
  <2> QED
    BY <2>2, <2>3, <2>4 DEF Next
<1> QED
  BY <1>1, <1>2 DEF IInv

LEMMA Situations == Spec => []IInv
<1>1. Init => IInv
  BY InitType, InitSituation DEF IInv
<1> QED
  BY <1>1, NextSituation, PTL DEF Spec

-----------------------------------------------------------------------------
(* The refinement. *)

LEMMA InitService == Init => S!Init
BY DEF Init, S!Init

LEMMA AskService ==
  ASSUME IInv, NEW d \in Clients, NEW kind, NEW name, <<kind, name>> \in Kinds,
         Ask(d, kind, name)
  PROVE  [S!Next]_(S!vars)
<1> DEFINE r == [kind |-> kind, n |-> count[d] + 1, name |-> name]
<1>1. asked' = (IF d \in Polite THEN [asked EXCEPT ![d] = Append(@, r)] ELSE asked)
      /\ ~Waits(d) /\ UNCHANGED <<executed, answered, lost>>
  BY DEF Ask
<1>2. CASE d \notin Polite
  BY <1>1, <1>2 DEF S!vars
<1>3. CASE d \in Polite
  <2>1. PICK q \in Requests : q = r
    BY AskType DEF IInv
  <2> HIDE DEF r
  <2>2. d \notin lost /\ ~(Len(answered[d]) < Len(asked[d]))
    BY <1>1, <1>3 DEF Waits
  <2>3. Free(d)
    BY <1>3, <2>2, FreeOnly DEF IInv
  <2>4. S!Ask(d, q)
    BY <1>1, <1>3, <2>1, <2>3 DEF S!Ask, Free
  <2> QED
    BY <1>3, <2>4 DEF S!Next
<1> QED
  BY <1>2, <1>3

LEMMA HandleService ==
  ASSUME IInv, Conduct \/ Handle PROVE [S!Next]_(S!vars)
<1>1. /\ UNCHANGED <<asked, answered, lost>> /\ Executed
      /\ executed \in [Polite -> Seq(Understood)] /\ executed' \in [Polite -> Seq(Understood)]
  BY ExecutedType DEF Conduct, Handle, IInv, TypeInv, TypeOK, Understood
<1>2. CASE cur \notin Polite \ lost
  BY <1>1, <1>2 DEF Executed, S!vars
<1>3. ASSUME NEW c \in Polite \ lost, c = cur PROVE [S!Next]_(S!vars)
  <2>1. /\ executed[c] = answered[c] /\ executed[c] # asked[c] /\ executed'[c] = asked[c]
    BY <1>3, HandleSituation
  <2>2. \A b \in Polite \ {c} : executed'[b] = executed[b]
    BY <1>1, <1>3, ExecutedType DEF IInv
  <2>3. executed' = [executed EXCEPT ![c] = asked[c]]
    BY <1>1, <2>1, <2>2
  <2>4. S!Execute(c)
    BY <1>1, <2>1, <2>3 DEF S!Execute
  <2> QED
    BY <2>4 DEF S!Next
<1> QED
  BY <1>2, <1>3

LEMMA TakeReplyService ==
  ASSUME IInv, NEW d \in Clients, TakeReply(d) PROVE [S!Next]_(S!vars)
<1>1. /\ d \in Polite /\ answered' = [answered EXCEPT ![d] = Append(@, Head(toClient[d]))]
      /\ UNCHANGED <<asked, executed, lost>>
      /\ answered \in [Polite -> Seq(Understood)]
  BY DEF TakeReply, IInv, TypeInv, TypeOK, Understood
<1>2. CASE d \in lost
  <2>1. S!Whatever(d)
    BY <1>1, <1>2 DEF S!Whatever
  <2> QED
    BY <1>1, <2>1 DEF S!Next
<1>3. CASE d \notin lost
  <2>1. asked[d] # answered[d] /\ executed[d] = asked[d] /\ answered'[d] = asked[d]
    BY <1>1, <1>3, TakeReplySituation
  <2>2. answered' = [answered EXCEPT ![d] = asked[d]]
    BY <1>1, <2>1
  <2>3. S!Answer(d)
    BY <1>1, <2>1, <2>2 DEF S!Answer
  <2> QED
    BY <1>1, <2>3 DEF S!Next
<1> QED
  BY <1>2, <1>3

\* Only the loss of a client is seen of a step that is none of these.
LEMMA LoseService ==
  ASSUME lost' = lost \/ lost' = lost \cup {cur}, UNCHANGED <<asked, executed, answered>>
  PROVE  [S!Next]_(S!vars)
<1>1. CASE lost' \cap Polite = lost \cap Polite
  BY <1>1 DEF S!vars
<1>2. CASE cur \in Polite /\ lost' = lost \cup {cur}
  <2>1. S!Lose(cur)
    BY <1>2 DEF S!Lose
  <2> QED
    BY <1>2, <2>1 DEF S!Next
<1> QED
  BY <1>1, <1>2

LEMMA StepService == IInv /\ [Next]_vars => [S!Next]_(S!vars)
<1> SUFFICES ASSUME IInv, [Next]_vars PROVE [S!Next]_(S!vars)
  OBVIOUS
<1>1. CASE Server /\ ~Conduct /\ ~Handle
  <2>1. UNCHANGED <<asked, executed, answered>>
    BY <1>1 DEF Server, EpollWait, DoAccept, HandleMessage, RecvFlag, RecvIns, RecvName,
                RecvSize, RecvFile, DoSend, log
  <2> QED
    BY <2>1, LostGrows, LoseService
<1>2. CASE Conduct \/ Handle
  BY <1>2, HandleService
<1>3. ASSUME NEW d \in Clients, Client(d) PROVE [S!Next]_(S!vars)
  <2>1. CASE Connect(d) \/ Leave(d) \/ Abort(d)
    BY <2>1 DEF Connect, Leave, Abort, log, S!vars
  <2>2. ASSUME NEW kind \in {"instruction", "query"}, Ask(d, kind, NoName)
        PROVE  [S!Next]_(S!vars)
    BY <2>2, AskService DEF Kinds
  <2>3. ASSUME NEW name \in Names, Ask(d, "file", name) PROVE [S!Next]_(S!vars)
    BY <2>3, AskService DEF Kinds
  <2> QED
    BY <1>3, <2>1, <2>2, <2>3, TakeReplyService DEF Client
<1>4. CASE UNCHANGED vars
  BY <1>4 DEF vars, log, S!vars
<1> QED
  BY <1>1, <1>2, <1>3, <1>4 DEF Next

\* A client that waits for its answers has each request handled once, in order, and
\* reads the answer to it once, next to any number of clients that pipeline, send in
\* pieces, leave in the middle or are reset: until an item of its own is cut, or a
\* file of its does not open.
THEOREM Implements == Spec => ImplementsService
BY InitService, StepService, Situations, PTL DEF Spec, ImplementsService, S!Spec


-----------------------------------------------------------------------------
(* Files. Nothing is known of how the server is out of step with a careless *)
(* client, but this much: where the name of a file is in the stream of a    *)
(* client that is there, its size and its bytes follow it.                  *)

Named(s) == {i \in 1..Len(s) : s[i].part = "name"}

\* The bytes of r stand in s after the first at items.
Bytes(s, at, r) ==
  at + FileSize <= Len(s) /\ \A k \in 1..FileSize : s[at + k] = Body(r)[k]

Complete(s) ==
  \A i \in Named(s) : i < Len(s) /\ s[i + 1] = Field(s[i].of, "size") /\ Bytes(s, i + 1, s[i].of)

Here(c) == state[c] \in {"away", "here"}

\* The server has read the name of a file of c and not answered yet.
InHand(c) == cur = c /\ pc \in {"size", "data", "handle", "send"} /\ req.kind = "file"

Ready(c) ==
  /\ pc = "size" => /\ toServer[c] # <<>> /\ toServer[c][1] = Field(req, "size")
                    /\ Bytes(toServer[c], 1, req)
  /\ pc = "data" => /\ want = FileSize /\ Writing(c)
                    /\ Bytes(disk[path].bytes \o toServer[c], 0, req)
  /\ pc \in {"handle", "send"} => Stored(c, req)

FileInv(c) ==
  Here(c) => Complete(toServer[c]) /\ (InHand(c) => Ready(c))

FilesInv == TypeInv /\ \A c \in Clients \ lost : FileInv(c)

\* A stream that has lost its first items.
LEMMA Suffix ==
  ASSUME NEW s \in Seq(Items), NEW k \in 1..Len(s)
  PROVE  LET t == SubSeq(s, k + 1, Len(s)) IN
         /\ t \in Seq(Items) /\ Len(t) = Len(s) - k
         /\ \A i \in 1..Len(t) : t[i] = s[k + i]
         /\ Complete(s) => Complete(t)
<1> DEFINE t == SubSeq(s, k + 1, Len(s))
<1>1. Len(s) \in Nat /\ \A i \in 1..Len(s) : s[i] \in Items
  BY LenProperties, ElementOfSeq
<1>2. /\ t \in Seq(Items) /\ Len(t) = Len(s) - k
      /\ \A i \in 1..Len(t) : t[i] = s[k + i]
  <2>1. \A i \in (k + 1)..Len(s) : s[i] \in Items
    BY <1>1
  <2>2. k + 1 \in Int /\ Len(s) \in Int
    BY <1>1
  <2>3. /\ t \in Seq(Items)
        /\ Len(t) = IF k + 1 <= Len(s) THEN Len(s) - (k + 1) + 1 ELSE 0
        /\ \A i \in 1..(Len(s) - (k + 1) + 1) : t[i] = s[(k + 1) + i - 1]
    BY <2>1, <2>2, SubSeqProperties
  <2>4. Len(t) = Len(s) - k
    BY <1>1, <2>3
  <2>5. ASSUME NEW i \in 1..Len(t) PROVE t[i] = s[k + i]
    <3>1. i \in 1..(Len(s) - (k + 1) + 1) /\ (k + 1) + i - 1 = k + i
      BY <1>1, <2>4
    <3> QED
      BY <2>3, <3>1
  <2> QED
    BY <2>3, <2>4, <2>5
<1> HIDE DEF t
<1>3. \A i \in Named(t) : k + i \in Named(s) /\ t[i] = s[k + i] /\ i \in Nat
  BY <1>1, <1>2 DEF Named
<1>4. ASSUME Complete(s) PROVE Complete(t)
  <2> SUFFICES ASSUME NEW i \in Named(t)
               PROVE  /\ i < Len(t) /\ t[i + 1] = Field(t[i].of, "size")
                      /\ Bytes(t, i + 1, t[i].of)
    BY DEF Complete
  <2>1. /\ k + i \in Named(s) /\ t[i] = s[k + i] /\ i \in Nat /\ i >= 1
        /\ FileSize \in Nat
    BY <1>3, SizesAssumption DEF Named
  <2>2. /\ k + i < Len(s) /\ s[k + i + 1] = Field(t[i].of, "size")
        /\ Bytes(s, k + i + 1, t[i].of)
    BY <1>4, <2>1 DEF Complete
  <2>3. i < Len(t) /\ k + (i + 1) = k + i + 1 /\ i + 1 \in 1..Len(t)
    BY <1>1, <1>2, <2>1, <2>2
  <2>4. t[i + 1] = Field(t[i].of, "size")
    BY <1>2, <2>2, <2>3
  <2>5. i + 1 + FileSize <= Len(t)
    BY <1>1, <1>2, <2>1, <2>2 DEF Bytes
  <2>6. ASSUME NEW j \in 1..FileSize PROVE t[i + 1 + j] = Body(t[i].of)[j]
    <3>1. i + 1 + j \in 1..Len(t) /\ k + (i + 1 + j) = k + i + 1 + j
      BY <1>1, <1>2, <2>1, <2>5
    <3>2. t[i + 1 + j] = s[k + (i + 1 + j)]
      BY <1>2, <3>1
    <3>3. t[i + 1 + j] = s[k + i + 1 + j]
      BY <3>1, <3>2
    <3> QED
      BY <2>2, <3>3 DEF Bytes
  <2> QED
    BY <2>3, <2>4, <2>5, <2>6 DEF Bytes
<1> QED
  BY <1>2, <1>4 DEF t

\* A message names at most one file, the one it carries.
LEMMA MessageNames ==
  ASSUME NEW r \in Requests
  PROVE  /\ \A i \in Named(Message(r)) : i = 2 /\ Message(r)[i] = Field(r, "name")
                                        /\ r.kind = "file"
         /\ Complete(Message(r))
<1> DEFINE m == Message(r)
<1>1. /\ Field(r, "flag") \in Items /\ Field(r, "size") \in Items
      /\ r.kind = "file" => Field(r, "name") \in Items
      /\ Field(r, "flag").part = "flag" /\ Field(r, "size").part = "size"
      /\ Field(r, "name").of = r
  BY FieldType
<1>2. /\ Rest(r) \in Seq(Items) /\ m = <<Field(r, "flag")>> \o Rest(r)
      /\ Len(Rest(r)) \in Nat
  BY MessageType, LenProperties
<1>3. /\ Len(m) = 1 + Len(Rest(r)) /\ m[1] = Field(r, "flag")
      /\ \A i \in 1..Len(Rest(r)) : m[1 + i] = Rest(r)[i]
  <2>1. /\ Len(<<Field(r, "flag")>>) = 1 /\ <<Field(r, "flag")>> \in Seq(Items)
        /\ <<Field(r, "flag")>>[1] = Field(r, "flag")
    BY <1>1
  <2>2. /\ Len(m) = 1 + Len(Rest(r))
        /\ \A i \in 1..(1 + Len(Rest(r))) :
             m[i] = IF i <= 1 THEN <<Field(r, "flag")>>[i] ELSE Rest(r)[i - 1]
    BY <1>2, <2>1, ConcatProperties
  <2>3. \A i \in 1..Len(Rest(r)) : m[1 + i] = Rest(r)[i]
    BY <1>2, <2>2
  <2> QED
    BY <1>2, <2>1, <2>2, <2>3
<1> HIDE DEF m
<1>4. /\ Body(r) \in Seq(Items) /\ Len(Body(r)) \in Nat
      /\ \A i \in 1..Len(Body(r)) : Body(r)[i].part = "body"
      /\ r.kind = "file" => Len(Body(r)) = FileSize
  <2>1. /\ Body(r) \in Seq(Items)
        /\ Len(Body(r)) = (IF r.kind = "file" THEN FileSize ELSE InsSize)
        /\ \A i \in 1..Len(Body(r)) : Body(r)[i] = [of |-> r, part |-> "body", i |-> i]
    BY BodyType
  <2>2. InsSize \in Nat /\ FileSize \in Nat
    BY SizesAssumption
  <2>3. ASSUME NEW i \in 1..Len(Body(r)) PROVE Body(r)[i].part = "body"
    <3>1. Body(r)[i] = [of |-> r, part |-> "body", i |-> i]
      BY <2>1
    <3> QED
      BY <3>1
  <2>4. Len(Body(r)) \in Nat
    BY <2>1, <2>2
  <2>5. r.kind = "file" => Len(Body(r)) = FileSize
    BY <2>1
  <2> QED
    BY <2>1, <2>3, <2>4, <2>5
<1>5. CASE r.kind \in {"instruction", "query"}
  <2>1. \A i \in 1..Len(Rest(r)) : Rest(r)[i].part # "name"
    BY <1>4, <1>5 DEF Rest
  <2>2. ASSUME NEW i \in Named(m) PROVE FALSE
    <3>1. i = 1 \/ i - 1 \in 1..Len(Rest(r))
      BY <1>2, <1>3 DEF Named
    <3>2. CASE i = 1
      BY <1>1, <1>3, <3>2 DEF Named
    <3>3. CASE i - 1 \in 1..Len(Rest(r))
      <4>1. m[1 + (i - 1)] = Rest(r)[i - 1]
        BY <1>3, <3>3
      <4>2. 1 + (i - 1) = i
        BY <1>3, <1>2 DEF Named
      <4> QED
        BY <2>1, <3>3, <4>1, <4>2 DEF Named
    <3> QED
      BY <3>1, <3>2, <3>3
  <2> QED
    BY <2>2 DEF m, Complete
<1>6. CASE r.kind = "file"
  <2> DEFINE two == <<Field(r, "name"), Field(r, "size")>>
  <2>1. two \in Seq(Items) /\ Len(two) = 2 /\ two[1] = Field(r, "name") /\ two[2] = Field(r, "size")
    BY <1>1, <1>6
  <2>2. Rest(r) = two \o Body(r)
    BY <1>6 DEF Rest
  <2> HIDE DEF two
  <2>3. /\ Len(Rest(r)) = 2 + FileSize
        /\ \A i \in 1..(2 + FileSize) :
             Rest(r)[i] = IF i <= 2 THEN two[i] ELSE Body(r)[i - 2]
    <3>1. /\ Len(two \o Body(r)) = Len(two) + Len(Body(r))
          /\ \A i \in 1..(Len(two) + Len(Body(r))) :
               (two \o Body(r))[i] = IF i <= Len(two) THEN two[i] ELSE Body(r)[i - Len(two)]
      BY <1>4, <2>1, ConcatProperties
    <3> QED
      BY <1>4, <1>6, <2>1, <2>2, <3>1
  <2>4. FileSize \in Nat
    BY SizesAssumption
  <2>5. m[2] = Field(r, "name") /\ m[3] = Field(r, "size") /\ Len(m) = 3 + FileSize
    <3>1. m[1 + 1] = Rest(r)[1] /\ m[1 + 2] = Rest(r)[2]
      BY <1>3, <2>3, <2>4
    <3> QED
      BY <1>3, <2>1, <2>3, <2>4, <3>1
  <2>6. ASSUME NEW k \in 1..FileSize PROVE m[3 + k] = Body(r)[k]
    <3>1. m[1 + (2 + k)] = Rest(r)[2 + k]
      BY <1>3, <2>3, <2>4
    <3>2. Rest(r)[2 + k] = Body(r)[2 + k - 2]
      BY <2>3, <2>4
    <3>3. 1 + (2 + k) = 3 + k /\ 2 + k - 2 = k
      BY <2>4
    <3> QED
      BY <3>1, <3>2, <3>3
  <2>7. ASSUME NEW i \in Named(m) PROVE i = 2
    <3>1. i \in {1, 2, 3} \/ i - 3 \in 1..FileSize
      BY <2>4, <2>5 DEF Named
    <3>2. ~ (i - 3 \in 1..FileSize)
      <4> SUFFICES ASSUME i - 3 \in 1..FileSize PROVE FALSE
        OBVIOUS
      <4>1. i \in Nat /\ 3 + (i - 3) = i
        BY <2>5, <2>4 DEF Named
      <4>2. m[i] = Body(r)[i - 3]
        BY <2>6, <4>1
      <4> QED
        BY <1>4, <1>6, <4>2 DEF Named
    <3> QED
      BY <1>1, <1>3, <2>5, <3>1, <3>2 DEF Named
  <2>8. Complete(m)
    BY <1>1, <2>4, <2>5, <2>6, <2>7 DEF Complete, Bytes
  <2> QED
    BY <1>6, <2>5, <2>7, <2>8 DEF m
<1> QED
  BY <1>5, <1>6, NotRequests

\* A stream to which the next request was added.
LEMMA Extended ==
  ASSUME NEW s \in Seq(Items), NEW r \in Requests
  PROVE  LET t == s \o Message(r) IN
         /\ t \in Seq(Items) /\ Len(s) \in Nat /\ Len(t) >= Len(s)
         /\ \A i \in 1..Len(s) : t[i] = s[i]
         /\ Complete(s) => Complete(t)
<1> DEFINE m == Message(r)
           t == s \o m
<1>1. /\ m \in Seq(Items) /\ Len(s) \in Nat /\ Len(m) \in Nat /\ FileSize \in Nat
      /\ r.n \in Nat
  <2>1. m \in Seq(Items)
    BY MessageType
  <2>2. Len(s) \in Nat /\ Len(m) \in Nat
    BY <2>1, LenProperties
  <2>3. r.n \in Nat
    BY NotRequests, Bounds
  <2> QED
    BY <2>1, <2>2, <2>3, SizesAssumption
<1>2. /\ t \in Seq(Items) /\ Len(t) = Len(s) + Len(m)
      /\ \A i \in 1..(Len(s) + Len(m)) : t[i] = IF i <= Len(s) THEN s[i] ELSE m[i - Len(s)]
  BY <1>1, ConcatProperties
<1>3. /\ \A i \in Named(m) : i = 2 /\ m[i] = Field(r, "name") /\ r.kind = "file"
      /\ Complete(m) /\ Field(r, "name").of = r
  BY MessageNames, FieldType
<1> HIDE DEF t, m
<1>4. \A i \in 1..Len(s) : t[i] = s[i]
  BY <1>1, <1>2
<1>5. ASSUME NEW i \in 1..Len(m) PROVE Len(s) + i \in 1..Len(t) /\ t[Len(s) + i] = m[i]
  <2>1. Len(s) + i \in 1..(Len(s) + Len(m)) /\ ~(Len(s) + i <= Len(s)) /\ Len(s) + i - Len(s) = i
    BY <1>1
  <2> QED
    BY <1>2, <2>1
<1>6. ASSUME NEW i \in Named(t)
      PROVE  \/ i \in Named(s) /\ t[i] = s[i]
             \/ /\ i = Len(s) + 2 /\ 2 \in Named(m) /\ t[i].of = r /\ r.kind = "file"
                /\ ~(i <= Len(s))
  <2>1. i \in 1..Len(t) /\ t[i].part = "name"
    BY DEF Named
  <2>2. CASE i <= Len(s)
    BY <1>1, <1>4, <2>1, <2>2 DEF Named
  <2>3. CASE ~(i <= Len(s))
    <3>1. i - Len(s) \in 1..Len(m) /\ t[i] = m[i - Len(s)]
      BY <1>1, <1>2, <2>1, <2>3
    <3>2. i - Len(s) \in Named(m)
      BY <2>1, <3>1 DEF Named
    <3>3. i - Len(s) = 2 /\ t[i].of = r /\ r.kind = "file"
      BY <1>3, <3>1, <3>2
    <3> QED
      BY <1>1, <2>1, <2>3, <3>2, <3>3
  <2> QED
    BY <2>2, <2>3
<1>7. ASSUME Complete(s) PROVE Complete(t)
  <2> SUFFICES ASSUME NEW i \in Named(t)
               PROVE  /\ i < Len(t) /\ t[i + 1] = Field(t[i].of, "size")
                      /\ Bytes(t, i + 1, t[i].of)
    BY DEF Complete
  <2>1. CASE i \in Named(s) /\ t[i] = s[i]
    <3>1. i \in 1..Len(s) /\ i < Len(s) /\ s[i + 1] = Field(t[i].of, "size")
          /\ Bytes(s, i + 1, t[i].of)
      BY <1>7, <2>1 DEF Complete, Named
    <3>2. i < Len(t) /\ t[i + 1] = s[i + 1]
      <4>1. i + 1 \in 1..Len(s) /\ i < Len(t)
        BY <1>1, <1>2, <3>1
      <4> QED
        BY <1>4, <4>1
    <3>3. i + 1 + FileSize <= Len(s) /\ i + 1 + FileSize <= Len(t)
      BY <1>1, <1>2, <3>1 DEF Bytes
    <3>4. \A k \in 1..FileSize : t[i + 1 + k] = s[i + 1 + k]
      <4>1. ASSUME NEW k \in 1..FileSize PROVE i + 1 + k \in 1..Len(s)
        BY <1>1, <3>1, <3>3
      <4> QED
        BY <1>4, <4>1
    <3> QED
      BY <3>1, <3>2, <3>3, <3>4 DEF Bytes
  <2>2. CASE i = Len(s) + 2 /\ 2 \in Named(m) /\ t[i].of = r
    <3>1. 2 < Len(m) /\ m[2 + 1] = Field(r, "size") /\ Bytes(m, 2 + 1, r)
      <4>1. m[2].of = r
        BY <1>3, <2>2
      <4> QED
        BY <1>3, <2>2, <4>1 DEF Complete
    <3>2. 3 \in 1..Len(m) /\ m[3] = Field(r, "size") /\ 3 + FileSize <= Len(m)
      BY <1>1, <3>1 DEF Bytes
    <3>3. t[Len(s) + 3] = Field(r, "size") /\ i + 1 = Len(s) + 3
      BY <1>1, <1>5, <2>2, <3>2
    <3>4. ASSUME NEW k \in 1..FileSize PROVE t[i + 1 + k] = Body(r)[k]
      <4>1. 3 + k \in 1..Len(m) /\ i + 1 + k = Len(s) + (3 + k)
        BY <1>1, <3>2, <2>2
      <4>2. m[3 + k] = Body(r)[k]
        BY <3>1 DEF Bytes
      <4>3. t[Len(s) + (3 + k)] = m[3 + k]
        BY <1>5, <4>1
      <4> QED
        BY <4>1, <4>2, <4>3
    <3>5. i < Len(t) /\ i + 1 + FileSize <= Len(t)
      BY <1>1, <1>2, <2>2, <3>2
    <3> QED
      BY <2>2, <3>3, <3>4, <3>5 DEF Bytes
  <2> QED
    BY <1>6, <2>1, <2>2
<1> QED
  BY <1>1, <1>2, <1>4, <1>7 DEF t, m

\* A step that leaves alone what is between a client and the server.
LEMMA FileFrame ==
  ASSUME NEW c \in Clients, FileInv(c),
         toServer'[c] = toServer[c], Here(c)' => Here(c),
         UNCHANGED <<pc, local, disk>> \/ ~InHand(c)'
  PROVE  FileInv(c)'
<1>1. CASE ~InHand(c)'
  BY <1>1 DEF FileInv
<1>2. CASE UNCHANGED <<pc, local, disk>>
  <2>1. InHand(c)' = InHand(c)
    BY <1>2 DEF InHand, local
  <2>2. Ready(c) => Ready(c)'
    BY <1>2 DEF Ready, Writing, Stored, local
  <2> QED
    BY <2>1, <2>2 DEF FileInv
<1> QED
  BY <1>1, <1>2

LEMMA InitFiles == Init => FilesInv
<1> SUFFICES ASSUME Init PROVE FilesInv
  OBVIOUS
<1>1. ASSUME NEW c \in Clients PROVE FileInv(c)
  <2>1. toServer[c] = <<>> /\ pc = "loop"
    BY DEF Init
  <2>2. Named(toServer[c]) = {}
    BY <2>1 DEF Named
  <2> QED
    BY <2>1, <2>2 DEF FileInv, Complete, InHand
<1> QED
  BY <1>1, InitType DEF FilesInv

\* Bytes that stand in a sequence stand in a longer one.
LEMMA BytesExtend ==
  ASSUME NEW s \in Seq(Items), NEW m \in Seq(Items), NEW at \in Nat, NEW r, Bytes(s, at, r)
  PROVE  Bytes(s \o m, at, r)
<1>1. /\ Len(s) \in Nat /\ Len(m) \in Nat /\ Len(s \o m) = Len(s) + Len(m)
      /\ \A i \in 1..Len(s) : (s \o m)[i] = s[i]
      /\ FileSize \in Nat
  <2>1. Len(s) \in Nat /\ Len(m) \in Nat
    BY LenProperties
  <2>2. Len(s \o m) = Len(s) + Len(m) /\ \A i \in 1..(Len(s) + Len(m)) :
          (s \o m)[i] = IF i <= Len(s) THEN s[i] ELSE m[i - Len(s)]
    BY ConcatProperties
  <2>3. \A i \in 1..Len(s) : i \in 1..(Len(s) + Len(m)) /\ i <= Len(s)
    BY <2>1
  <2> QED
    BY <2>1, <2>2, <2>3, SizesAssumption
<1>2. at + FileSize <= Len(s \o m)
  BY <1>1 DEF Bytes
<1>3. ASSUME NEW k \in 1..FileSize PROVE (s \o m)[at + k] = Body(r)[k]
  <2>1. at + k \in 1..Len(s)
    BY <1>1 DEF Bytes
  <2> QED
    BY <1>1, <2>1 DEF Bytes
<1> QED
  BY <1>2, <1>3 DEF Bytes

LEMMA AskFiles ==
  ASSUME FilesInv, NEW d \in Clients, NEW kind, NEW name, <<kind, name>> \in Kinds,
         Ask(d, kind, name), NEW c \in Clients \ lost
  PROVE  FileInv(c)'
<1>1. FileInv(c) /\ TypeInv /\ UNCHANGED <<pc, local, disk, state>>
  BY DEF FilesInv, Ask, server, files
<1>2. CASE c # d
  <2>1. toServer'[c] = toServer[c]
    BY <1>1, <1>2 DEF Ask, TypeInv
  <2> QED
    BY <1>1, <2>1, FileFrame DEF Here
<1>3. CASE c = d
  <2>1. PICK r \in Requests : toServer' = [toServer EXCEPT ![c] = @ \o Message(r)]
    BY <1>1, <1>3, AskType DEF Ask
  <2> DEFINE s == toServer[c]
  <2>2. s \in Seq(Items) /\ Message(r) \in Seq(Items) /\ toServer'[c] = s \o Message(r)
    BY <1>1, <2>1, MessageType DEF TypeInv
  <2>3. /\ Len(s) \in Nat /\ \A i \in 1..Len(s) : toServer'[c][i] = s[i]
        /\ Len(toServer'[c]) >= Len(s) /\ toServer'[c] \in Seq(Items)
        /\ Complete(s) => Complete(toServer'[c])
    BY <2>2, Extended
  <2>4. InHand(c)' = InHand(c) /\ Here(c)' = Here(c)
    BY <1>1 DEF InHand, Here, local
  <2>5. ASSUME Here(c), InHand(c) PROVE Ready(c)'
    <3>1. Ready(c)
      BY <1>1, <2>5 DEF FileInv
    <3>2. CASE pc = "size"
      <4>1. s # <<>> /\ s[1] = Field(req, "size") /\ Bytes(s, 1, req)
        BY <3>1, <3>2 DEF Ready
      <4>2. 1 \in 1..Len(s)
        BY <2>2, <4>1, EmptySeq, LenProperties
      <4>3. toServer'[c] # <<>> /\ toServer'[c][1] = Field(req, "size")
        BY <2>3, <4>1, <4>2
      <4>4. Bytes(toServer'[c], 1, req)
        BY <2>2, <4>1, BytesExtend
      <4> QED
        BY <1>1, <3>2, <4>3, <4>4 DEF Ready, local
    <3>3. CASE pc = "data"
      <4>1. want = FileSize /\ Writing(c) /\ Bytes(disk[path].bytes \o s, 0, req)
        BY <3>1, <3>3 DEF Ready
      <4>2. disk[path].bytes \in Seq(Items)
        BY <1>1, <3>3 DEF TypeInv, FilesOnDisk
      <4>3. disk[path].bytes \o s \in Seq(Items)
        BY <2>2, <4>2, ConcatProperties
      <4>4. (disk[path].bytes \o s) \o Message(r) = disk[path].bytes \o toServer'[c]
        <5>1. \A t, u, v \in Seq(Items) : (t \o u) \o v = t \o (u \o v)
          BY ConcatAssociative
        <5>2. (disk[path].bytes \o s) \o Message(r) = disk[path].bytes \o (s \o Message(r))
          BY <2>2, <4>2, <5>1
        <5> QED
          BY <2>2, <5>2
      <4>5. Bytes(disk[path].bytes \o toServer'[c], 0, req)
        BY <2>2, <4>1, <4>3, <4>4, BytesExtend
      <4> QED
        BY <1>1, <3>3, <4>1, <4>5 DEF Ready, Writing, local
    <3>4. CASE pc \in {"handle", "send"}
      BY <1>1, <3>1, <3>4 DEF Ready, Stored, local
    <3> QED
      BY <2>5, <3>2, <3>3, <3>4 DEF InHand
  <2> QED
    BY <1>1, <2>3, <2>4, <2>5 DEF FileInv
<1> QED
  BY <1>2, <1>3

LEMMA ClientFiles ==
  ASSUME FilesInv, NEW d \in Clients, Client(d), NEW c \in Clients \ lost
  PROVE  FileInv(c)'
<1>1. FileInv(c) /\ TypeInv
  BY DEF FilesInv
<1>2. CASE Connect(d) \/ TakeReply(d)
  <2>1. toServer'[c] = toServer[c] /\ (Here(c)' => Here(c)) /\ UNCHANGED <<pc, local, disk>>
    BY <1>1, <1>2 DEF Connect, TakeReply, Here, server, files, client, TypeInv, TypeOK
  <2> QED
    BY <1>1, <2>1, FileFrame
<1>3. CASE Leave(d) \/ Abort(d)
  <2>1. UNCHANGED <<pc, local, disk>> /\ state' = [state EXCEPT ![d] = state'[d]]
        /\ state'[d] \in {"left", "aborted"}
    BY <1>1, <1>3 DEF Leave, Abort, server, files, TypeInv, TypeOK
  <2>2. CASE c = d
    BY <2>1, <2>2 DEF FileInv, Here
  <2>3. CASE c # d
    <3>1. toServer'[c] = toServer[c] /\ state'[c] = state[c]
      BY <1>1, <1>3, <2>3 DEF Leave, Abort, TypeInv, TypeOK
    <3> QED
      BY <1>1, <2>1, <3>1, FileFrame DEF Here
  <2> QED
    BY <2>2, <2>3
<1>4. ASSUME NEW kind \in {"instruction", "query"}, Ask(d, kind, NoName) PROVE FileInv(c)'
  BY <1>4, AskFiles DEF Kinds
<1>5. ASSUME NEW name \in Names, Ask(d, "file", name) PROVE FileInv(c)'
  BY <1>5, AskFiles DEF Kinds
<1> QED
  BY <1>2, <1>3, <1>4, <1>5 DEF Client

\* Steps of the server that touch no stream and no file.
LEMMA LoopFiles ==
  ASSUME FilesInv, EpollWait \/ \E d \in Clients : DoAccept(d) \/ HandleMessage(d),
         NEW c \in Clients \ lost
  PROVE  FileInv(c)'
<1>1. FileInv(c) /\ toServer'[c] = toServer[c] /\ Here(c)' = Here(c) /\ ~InHand(c)'
  BY DEF FilesInv, EpollWait, DoAccept, HandleMessage, Here, InHand, net, client
<1> QED
  BY <1>1, FileFrame

\* A recv takes the first items of a stream, or cuts the first in two.
LEMMA Shorter ==
  ASSUME FilesInv, RecvFlag \/ RecvIns \/ RecvName \/ RecvSize \/ RecvFile,
         NEW c \in Clients \ lost, c \notin lost'
  PROVE  /\ c # cur => toServer'[c] = toServer[c]
         /\ Complete(toServer[c]) => Complete(toServer'[c])
         /\ UNCHANGED client /\ cur \in Clients /\ TypeInv /\ FileInv(c)
<1>1. /\ TypeInv /\ cur \in Clients /\ FileInv(c) /\ toServer \in [Clients -> Seq(Items)]
      /\ UNCHANGED client
  BY DEF FilesInv, TypeInv, RecvFlag, RecvIns, RecvName, RecvSize, RecvFile
<1>2. CASE UNCHANGED toServer
  BY <1>1, <1>2
<1>3. ASSUME NEW k \in 1..Len(Incoming), Take(k)
      PROVE  /\ c # cur => toServer'[c] = toServer[c]
             /\ Complete(toServer[c]) => Complete(toServer'[c])
  <2>1. /\ toServer'[cur] = SubSeq(toServer[cur], k + 1, Len(toServer[cur]))
        /\ \A d \in Clients \ {cur} : toServer'[d] = toServer[d]
        /\ toServer[cur] \in Seq(Items) /\ k \in 1..Len(toServer[cur])
    BY <1>1, <1>3, Taken DEF Incoming
  <2>2. CASE c = cur
    BY <2>1, <2>2, Suffix
  <2> QED
    BY <2>1, <2>2
<1>4. CASE Cut
  <2>1. c # cur
    BY <1>4 DEF Cut, Lose
  <2> QED
    BY <1>1, <1>4, <2>1, CutType
<1>5. CASE \E k \in Sizes : Take(k)
  <2>1. \A k \in Sizes : k \in 1..Len(Incoming)
    BY SizesAssumption DEF Sizes
  <2> QED
    BY <1>1, <1>3, <1>5, <2>1
<1>6. CASE Incoming # <<>> /\ Take(1)
  <2>1. 1 \in 1..Len(Incoming)
    BY <1>1, <1>6, FirstItem
  <2> QED
    BY <1>1, <1>3, <1>6, <2>1
<1>7. \/ UNCHANGED toServer \/ Cut \/ \E k \in Sizes : Take(k)
      \/ Incoming # <<>> /\ Take(1)
  BY DEF RecvFlag, RecvIns, RecvName, RecvSize, RecvFile, Misread, Begins
<1> QED
  BY <1>2, <1>4, <1>5, <1>6, <1>7

\* A recv from a connection with no file in hand afterwards, or another one's.
LEMMA RecvNothing ==
  ASSUME FilesInv, RecvFlag \/ RecvIns \/ RecvName \/ RecvSize \/ RecvFile,
         NEW c \in Clients \ lost, c \notin lost', ~InHand(c)'
  PROVE  FileInv(c)'
<1>1. FileInv(c) /\ Here(c)' = Here(c)
  BY Shorter DEF Here, client
<1> QED
  BY <1>1, Shorter DEF FileInv

\* A recv with a file in hand afterwards.
LEMMA RecvReady ==
  ASSUME FilesInv, RecvFlag \/ RecvIns \/ RecvName \/ RecvSize \/ RecvFile,
         NEW c \in Clients \ lost, c \notin lost', Here(c) => Ready(c)'
  PROVE  FileInv(c)'
<1>1. FileInv(c) /\ Here(c)' = Here(c)
  BY Shorter DEF Here, client
<1> QED
  BY <1>1, Shorter DEF FileInv

LEMMA RecvOtherFiles ==
  ASSUME FilesInv, RecvFlag \/ RecvIns \/ RecvName \/ RecvSize \/ RecvFile,
         NEW c \in Clients \ lost, c \notin lost', c # cur
  PROVE  FileInv(c)'
<1>1. cur' \in {cur, Nobody} /\ c # Nobody
  BY ClientsAssumption
  DEF RecvFlag, RecvIns, RecvName, RecvSize, RecvFile, OpenFile, NotOpened, Goto, Close, Return,
      Exit, Die, local
<1> QED
  BY <1>1, RecvNothing DEF InHand

LEMMA RecvFlagFiles ==
  ASSUME FilesInv, RecvFlag, NEW c \in Clients \ lost, c \notin lost'
  PROVE  FileInv(c)'
<1>1. TypeInv /\ cur \in Clients /\ c # Nobody
  BY ClientsAssumption DEF FilesInv, TypeInv, RecvFlag
<1>2. ~InHand(c)'
  <2>1. CASE Close \/ Return
    BY <2>1 DEF InHand, Close, Return
  <2>2. CASE req' = Garbage
    BY <2>2 DEF InHand, Garbage
  <2>3. CASE Begins("flag") /\ req' = Head(Incoming).of /\ Goto(After(req'.kind))
    <3>1. req' \in Requests
      BY <1>1, <2>3, FirstItem DEF Begins
    <3>2. req'.kind \in {"instruction", "file", "query"}
      BY <3>1, NotRequests
    <3> QED
      BY <2>3, <3>2 DEF InHand, Goto, After
  <2> QED
    BY <2>1, <2>2, <2>3 DEF RecvFlag
<1> QED
  BY <1>2, RecvNothing

LEMMA RecvInsFiles ==
  ASSUME FilesInv, RecvIns, NEW c \in Clients \ lost, c \notin lost'
  PROVE  FileInv(c)'
<1>1. ~InHand(c)'
  BY DEF RecvIns, InHand, Close, Return, Exit, Die, Goto
<1> QED
  BY <1>1, RecvNothing

LEMMA RecvNameFiles ==
  ASSUME FilesInv, RecvName, NEW c \in Clients \ lost, c \notin lost', c = cur
  PROVE  FileInv(c)'
<1>1. TypeInv /\ FileInv(c)
  BY DEF FilesInv
<1>2. CASE Exit \/ req' = None \/ req' = Garbage
  BY <1>2, RecvNothing DEF InHand, Exit, Die, None, Garbage
<1>3. CASE /\ Begins("name") /\ Take(1) /\ req' = Head(Incoming).of /\ Goto("size")
  <2> DEFINE s == toServer[c]
  <2>1. /\ s \in Seq(Items) /\ s # <<>> /\ 1 \in 1..Len(s) /\ Head(s) = s[1]
        /\ Len(s) \in Nat /\ FileSize \in Nat
    BY <1>1, <1>3, FirstItem, LenProperties, SizesAssumption DEF Incoming, TypeInv, Begins
  <2>2. 1 \in Named(s) /\ req' = s[1].of
    BY <1>3, <2>1 DEF Named, Incoming, Begins
  <2>3. toServer'[c] = SubSeq(s, 1 + 1, Len(s))
    BY <1>1, <1>3, <2>1, TakenFirst DEF Incoming
  <2>4. /\ toServer'[c] \in Seq(Items) /\ Len(toServer'[c]) = Len(s) - 1
        /\ \A i \in 1..Len(toServer'[c]) : toServer'[c][i] = s[1 + i]
    BY <2>1, <2>3, Suffix
  <2>5. pc' = "size"
    BY <1>3 DEF Goto
  <2>6. ASSUME Here(c) PROVE Ready(c)'
    <3>1. 1 < Len(s) /\ s[2] = Field(req', "size") /\ Bytes(s, 2, req')
      <4>1. 1 < Len(s) /\ s[1 + 1] = Field(s[1].of, "size") /\ Bytes(s, 1 + 1, s[1].of)
        BY <1>1, <2>2, <2>6 DEF FileInv, Complete
      <4> QED
        BY <2>2, <4>1
    <3>2. 1 \in 1..Len(toServer'[c]) /\ 1 + FileSize <= Len(toServer'[c])
      BY <2>1, <2>4, <3>1 DEF Bytes
    <3>3. toServer'[c][1] = s[1 + 1] /\ toServer'[c] # <<>>
      BY <2>4, <3>2
    <3>4. ASSUME NEW k \in 1..FileSize PROVE toServer'[c][1 + k] = Body(req')[k]
      <4>1. 1 + k \in 1..Len(toServer'[c]) /\ 1 + (1 + k) = 2 + k
        BY <2>1, <2>4, <3>2
      <4>2. toServer'[c][1 + k] = s[2 + k]
        BY <2>4, <4>1
      <4> QED
        BY <3>1, <4>2 DEF Bytes
    <3> QED
      BY <2>5, <3>1, <3>2, <3>3, <3>4 DEF Ready, Bytes
  <2> QED
    BY <2>6, RecvReady
<1> QED
  BY <1>2, <1>3 DEF RecvName

LEMMA RecvSizeFiles ==
  ASSUME FilesInv, RecvSize, NEW c \in Clients \ lost, c \notin lost', c = cur
  PROVE  FileInv(c)'
<1>1. /\ TypeInv /\ FileInv(c) /\ pc = "size" /\ got = 0 /\ FileSize \in Nat
      /\ req \in Files \cup {None, Garbage}
  BY SizesAssumption DEF FilesInv, TypeInv, RecvSize
<1>2. CASE ~InHand(c)'
  BY <1>2, RecvNothing
<1>3. CASE InHand(c)'
  <2>1. PICK n : OpenFile(n)
    BY <1>3 DEF RecvSize, NotOpened, InHand, Return, Exit, Die
  <2>2. /\ UNCHANGED <<req, got, path>> /\ pc' = "data" /\ want' = n /\ InHand(c)
    BY <1>1, <1>3, <2>1 DEF OpenFile, Goto, InHand
  <2>3. req \in Files /\ req \in Requests /\ req # Garbage
    BY <1>1, <2>2, NotRequests DEF InHand, Files, None, Garbage
  <2>4. ASSUME Here(c) PROVE Ready(c)'
    <3> DEFINE s == toServer[c]
    <3>1. s \in Seq(Items) /\ s # <<>> /\ s[1] = Field(req, "size") /\ Bytes(s, 1, req)
      BY <1>1, <2>2, <2>4 DEF FileInv, Ready, TypeInv
    <3>2. Begins("size") /\ ~Misread("size")
      <4>1. Begins("size")
        BY <2>3, <3>1, FieldType DEF Incoming, Begins
      <4> QED
        BY <4>1 DEF Misread, Cut, Lose
    <3>3. Take(1) /\ OpenFile(FileSize)
      <4>1. ~NotOpened
        BY <2>2 DEF NotOpened, Return
      <4> QED
        BY <2>4, <3>2, <4>1, <2>2 DEF RecvSize, Ended, Failed, Here, Exit, Die
    <3>4. want' = FileSize
      BY <3>3 DEF OpenFile
    <3>5. toServer'[c] = SubSeq(s, 1 + 1, Len(s)) /\ 1 \in 1..Len(s) /\ Len(s) \in Nat
      BY <1>1, <3>1, <3>3, TakenFirst, FirstItem, LenProperties DEF Incoming
    <3>6. /\ toServer'[c] \in Seq(Items) /\ Len(toServer'[c]) = Len(s) - 1
          /\ \A i \in 1..Len(toServer'[c]) : toServer'[c][i] = s[1 + i]
      BY <3>1, <3>5, Suffix
    <3>7. disk'[path] = File(c, req, <<>>)
      BY <1>1, <2>1, <2>3, OpenFileType
    <3>8. Writing(c)' /\ disk'[path'].bytes \o toServer'[c] = toServer'[c]
      BY <1>1, <2>2, <3>6, <3>7, ConcatEmptySeq DEF Writing, File
    <3> HIDE DEF s
    <3>9. 0 + FileSize <= Len(toServer'[c])
      BY <1>1, <3>1, <3>5, <3>6 DEF Bytes
    <3>10. ASSUME NEW k \in 1..FileSize PROVE toServer'[c][0 + k] = Body(req)[k]
      <4>1. k \in 1..Len(toServer'[c]) /\ 0 + k = k
        BY <1>1, <3>5, <3>6, <3>9
      <4>2. toServer'[c][k] = s[1 + k]
        BY <3>6, <4>1
      <4> QED
        BY <3>1, <4>1, <4>2 DEF Bytes
    <3> QED
      BY <2>2, <3>4, <3>8, <3>9, <3>10 DEF Ready, Bytes
  <2> QED
    BY <2>4, RecvReady
<1> QED
  BY <1>2, <1>3

\* The file on the disk, once the server believes it has all of it.
LEMMA WroteWhole ==
  ASSUME TypeInv, NEW c \in Clients, pc = "data", req \in Files, want = FileSize, ~More,
         Writing(c), Bytes(disk[path].bytes \o toServer[c], 0, req)
  PROVE  Stored(c, req)
<1>1. /\ path \in Names /\ path = req.name /\ disk[path] \in FilesOnDisk
      /\ disk[path].bytes \in Seq(Items) /\ toServer[c] \in Seq(Items)
      /\ Len(disk[path].bytes) = FileSize /\ FileSize \in Nat
  BY SizesAssumption DEF TypeInv, FilesOnDisk, Writing, More, Files
<1> DEFINE b == disk[path].bytes
<1>2. Body(req) \in Seq(Items) /\ Len(Body(req)) = FileSize
  BY BodyType DEF Files
<1>3. ASSUME NEW i \in 1..Len(b) PROVE b[i] = Body(req)[i]
  <2>1. i \in 1..(Len(b) + Len(toServer[c])) /\ i <= Len(b) /\ 0 + i = i
        /\ i \in 1..FileSize
    BY <1>1, LenProperties
  <2>2. (b \o toServer[c])[i] = b[i]
    BY <1>1, <2>1, ConcatProperties
  <2> QED
    BY <2>1, <2>2 DEF Bytes
<1>4. b = Body(req)
  BY <1>1, <1>2, <1>3, SeqEqual
<1>5. disk[path].client = c /\ disk[path].req = req
  BY DEF Writing
<1> QED
  BY <1>1, <1>4, <1>5 DEF Stored, File, FilesOnDisk

LEMMA RecvFileFiles ==
  ASSUME FilesInv, RecvFile, NEW c \in Clients \ lost, c \notin lost', c = cur
  PROVE  FileInv(c)'
<1>1. /\ TypeInv /\ FileInv(c) /\ pc = "data" /\ req \in Files \cup {None, Garbage}
  BY DEF FilesInv, TypeInv, RecvFile
<1>2. CASE ~InHand(c)'
  BY <1>2, RecvNothing
<1>3. CASE InHand(c)' /\ Here(c)
  <2>1. req' = req /\ InHand(c)
    BY <1>1, <1>3 DEF RecvFile, InHand, Goto, Close, Return, Exit, Die
  <2>2. req \in Files /\ req # Garbage
    BY <1>1, <2>1, NotRequests DEF InHand, Files, None, Garbage
  <2>3. want = FileSize /\ Writing(c) /\ Bytes(disk[path].bytes \o toServer[c], 0, req)
    BY <1>1, <1>3, <2>1 DEF FileInv, Ready
  <2>4. CASE ~More /\ Goto("handle") /\ UNCHANGED <<req, path, want, got, files, toServer>>
    <3>1. Stored(c, req)
      BY <1>1, <2>2, <2>3, <2>4, WroteWhole
    <3>2. Ready(c)'
      BY <2>4, <3>1 DEF Ready, Goto, Stored, files
    <3> QED
      BY <3>2, RecvReady
  <2>5. ASSUME NEW k \in Sizes, Take(k), got' = got + k, Write(Chunk(k)),
               UNCHANGED <<pc, cur, req, path, want, unclosed, conn>>
        PROVE  FileInv(c)'
    <3>1. /\ Writing(c)' /\ disk'[path].bytes \o toServer'[c] = disk[path].bytes \o toServer[c]
      BY <1>1, <2>2, <2>3, <2>5, WriteType DEF Writing
    <3>2. Ready(c)'
      BY <1>1, <2>3, <2>5, <3>1 DEF Ready
    <3> QED
      BY <3>2, RecvReady
  <2> QED
    BY <1>3, <2>4, <2>5 DEF RecvFile, InHand, Close, Return, Exit, Die
<1> QED
  BY <1>2, <1>3, RecvReady

LEMMA HandleFiles ==
  ASSUME FilesInv, Conduct \/ Handle, NEW c \in Clients \ lost
  PROVE  FileInv(c)'
<1>1. /\ FileInv(c) /\ pc \in {"conduct", "handle"} /\ UNCHANGED <<local, disk, toServer, client>>
  BY DEF FilesInv, Conduct, Handle, files, net
<1>2. Here(c)' = Here(c)
  BY <1>1 DEF Here, client
<1>3. CASE Conduct
  <2>1. ~InHand(c)'
    BY <1>1, <1>3 DEF Conduct, InHand, local, FilesInv, TypeInv
  <2> QED
    BY <1>1, <1>2, <2>1, FileFrame
<1>4. CASE Handle
  <2>1. pc = "handle" /\ pc' = "send"
    BY <1>4 DEF Handle
  <2>2. InHand(c)' = InHand(c) /\ (Ready(c) => Ready(c)')
    BY <1>1, <2>1 DEF InHand, Ready, Stored, local
  <2> QED
    BY <1>1, <1>2, <2>2 DEF FileInv
<1> QED
  BY <1>3, <1>4

LEMMA DoSendFiles ==
  ASSUME FilesInv, DoSend, NEW c \in Clients \ lost
  PROVE  FileInv(c)'
<1>1. FileInv(c) /\ toServer'[c] = toServer[c] /\ Here(c)' = Here(c) /\ ~InHand(c)'
  BY DEF FilesInv, DoSend, Return, Die, InHand, Here, client
<1> QED
  BY <1>1, FileFrame

LEMMA NextFiles == FilesInv /\ [Next]_vars => FilesInv'
<1> SUFFICES ASSUME FilesInv, [Next]_vars PROVE FilesInv'
  OBVIOUS
<1>1. TypeInv' /\ lost \subseteq lost'
  BY NextType, LostGrows DEF FilesInv
<1>2. ASSUME NEW c \in Clients \ lost' PROVE FileInv(c)'
  <2>1. c \in Clients \ lost /\ c \notin lost'
    BY <1>1
  <2>2. ASSUME RecvFlag \/ RecvIns \/ RecvName \/ RecvSize \/ RecvFile PROVE FileInv(c)'
    <3>1. CASE c # cur
      BY <2>1, <2>2, <3>1, RecvOtherFiles
    <3>2. CASE c = cur
      BY <2>1, <2>2, <3>2, RecvFlagFiles, RecvInsFiles, RecvNameFiles, RecvSizeFiles,
         RecvFileFiles
    <3> QED
      BY <3>1, <3>2
  <2>3. CASE Server
    BY <2>1, <2>2, <2>3, LoopFiles, HandleFiles, DoSendFiles DEF Server
  <2>4. CASE \E d \in Clients : Client(d)
    BY <2>1, <2>4, ClientFiles
  <2>5. CASE UNCHANGED vars
    <3>1. toServer'[c] = toServer[c] /\ Here(c)' = Here(c) /\ UNCHANGED <<pc, local, disk>>
      BY <2>5 DEF vars, server, files, net, client, Here
    <3> QED
      BY <2>1, <3>1, FileFrame DEF FilesInv
  <2> QED
    BY <2>3, <2>4, <2>5 DEF Next
<1> QED
  BY <1>1, <1>2 DEF FilesInv

\* When the file that c was told of is still its own, it is whole.
LEMMA AnsweredWhole ==
  ASSUME IInv, NEW c \in Polite \ lost, NEW i \in 1..Len(answered[c]),
         answered[c][i].kind = "file", disk[answered[c][i].name].client = c,
         disk[answered[c][i].name].req = answered[c][i]
  PROVE  Stored(c, answered[c][i])
<1> DEFINE r == answered[c][i]
<1>1. r \in Requests /\ r.name \in Names
  <2>1. answered[c] \in Seq(Understood)
    BY DEF IInv, TypeInv, TypeOK, Understood
  <2>2. r \in Understood
    BY <2>1, ElementOfSeq
  <2>3. r \in Requests
    BY <2>2 DEF Understood, None, Garbage
  <2> QED
    BY <2>3, NotRequests
<1>2. ~(pc = "data" /\ cur = c /\ path = r.name)
  <2> SUFFICES ASSUME pc = "data", cur = c, path = r.name PROVE FALSE
    OBVIOUS
  <2>1. Reading(c)
    BY StillReading
  <2>2. req = r /\ Asks(c, req)
    BY <2>1 DEF Reading, InStep, Writing
  <2>3. /\ Len(asked[c]) = Len(answered[c]) + 1 /\ Len(answered[c]) \in Nat
        /\ asked[c][i] = r /\ asked[c][Len(asked[c])] = r
    BY <2>2, Asking DEF IInv
  <2>4. \A k \in 1..Len(asked[c]) : asked[c][k].n = k
    BY DEF IInv, Situation, Patient
  <2>5. i \in 1..Len(asked[c]) /\ Len(asked[c]) \in 1..Len(asked[c]) /\ i # Len(asked[c])
    BY <2>3
  <2> QED
    BY <2>3, <2>4, <2>5
<1>3. disk[r.name].bytes = Body(r)
  BY <1>1, <1>2 DEF IInv, Kept, Whole
<1>4. disk[r.name] \in FilesOnDisk
  BY <1>1 DEF IInv, TypeInv
<1> QED
  BY <1>3, <1>4 DEF Stored, File, FilesOnDisk

\* When the server reports that a file was received, the file of that name is the one
\* that was sent: for every client, one that pipelines included. To a client that waits
\* for its answers it stays so, for as long as it is that client's.
THEOREM FilesCorrect == Spec => []FileWhole
<1>1. FilesInv /\ IInv => FileWhole
  <2> SUFFICES ASSUME FilesInv, IInv PROVE FileWhole
    OBVIOUS
  <2>1. ASSUME pc = "send", req.kind = "file", state[cur] = "here", cur \notin lost
        PROVE  Stored(cur, req)
    <3>1. cur \in Clients \ lost
      BY <2>1 DEF FilesInv, TypeInv
    <3>2. FileInv(cur) /\ Here(cur) /\ InHand(cur)
      BY <2>1, <3>1 DEF FilesInv, Here, InHand
    <3> QED
      BY <2>1, <3>2 DEF FileInv, Ready
  <2> QED
    BY <2>1, AnsweredWhole DEF FileWhole
<1>2. Spec => []FilesInv
  BY InitFiles, NextFiles, PTL DEF Spec
<1> QED
  BY <1>1, <1>2, Situations, PTL
=============================================================================
