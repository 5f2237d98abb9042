----------------------- MODULE SSDPFramework_proofs -----------------------
(* Theorems about SSDPFramework for every set of configuration files,       *)
(* commands and board reactions.                                           *)
EXTENDS SSDPFramework, LeastNumber

-----------------------------------------------------------------------------
(* Least and Greatest are what they say on the sets the model uses.         *)

\* Least picks the smallest element: the id a search of the tables stops at.
LEMMA LeastIn ==
  ASSUME NEW S \in SUBSET Nat, S # {}
  PROVE  Least(S) \in S /\ \A y \in S : Least(S) <= y
BY LeastNumber DEF Least

\* Greatest picks the largest element: where a reverse iterator starts.
LEMMA GreatestIn ==
  ASSUME NEW S \in SUBSET (1..MaxObj), S # {}
  PROVE  Greatest(S) \in S /\ \A y \in S : y <= Greatest(S)
<1>. DEFINE M == {MaxObj - x : x \in S}
<1>0. MaxObj \in Nat
  BY WaveformAssumption
<1>1. M \in SUBSET Nat /\ M # {}
  <2>1. ASSUME NEW x \in S PROVE MaxObj - x \in Nat
    BY <1>0
  <2>. QED  BY <2>1
<1>2. Least(M) \in M /\ \A m \in M : Least(M) <= m
  <2>. HIDE DEF M
  <2>. QED  BY <1>1, LeastIn
<1>3. PICK x \in S : Least(M) = MaxObj - x
  BY <1>2
<1>4. ASSUME NEW y \in S PROVE y <= x
  <2>1. MaxObj - x <= MaxObj - y
    BY <1>2, <1>3
  <2>. QED  BY <1>0, <2>1
<1>. QED  BY <1>4 DEF Greatest

-----------------------------------------------------------------------------
(* The data structures of the registry.                                     *)

\* Insert adds one application to the table and keeps the others.
LEMMA InsertApp ==
  ASSUME NEW t, Table(t), \A i \in DOMAIN t : AppBase(t[i]),
         NEW k \in Nat, NEW a, AppBase(a)
  PROVE  /\ Table(Insert(t, k, a)) /\ DOMAIN Insert(t, k, a) = DOMAIN t \cup {k}
         /\ \A i \in DOMAIN Insert(t, k, a) : AppBase(Insert(t, k, a)[i])
<1>. DEFINE u == Insert(t, k, a)
<1>1. u = [i \in DOMAIN t \cup {k} |-> IF i \in DOMAIN t THEN t[i] ELSE a]
  BY DEF Insert
<1>. HIDE DEF u
<1>2. Table(u) /\ DOMAIN u = DOMAIN t \cup {k}
  BY <1>1 DEF Table
<1>3. ASSUME NEW i \in DOMAIN u PROVE AppBase(u[i])
  <2>1. CASE i \in DOMAIN t
    BY <1>1, <2>1
  <2>2. CASE i \notin DOMAIN t
    BY <1>1, <2>2
  <2>. QED  BY <2>1, <2>2
<1>. QED  BY <1>2, <1>3 DEF u

\* Insert adds one device to the table and keeps the others.
LEMMA InsertDevice ==
  ASSUME NEW t, Table(t), \A i \in DOMAIN t : t[i] \in Boards,
         NEW k \in Nat, NEW b \in Boards
  PROVE  /\ Table(Insert(t, k, b)) /\ DOMAIN Insert(t, k, b) = DOMAIN t \cup {k}
         /\ \A i \in DOMAIN Insert(t, k, b) : Insert(t, k, b)[i] \in Boards
<1>. DEFINE u == Insert(t, k, b)
<1>1. u = [i \in DOMAIN t \cup {k} |-> IF i \in DOMAIN t THEN t[i] ELSE b]
  BY DEF Insert
<1>. HIDE DEF u
<1>2. Table(u) /\ DOMAIN u = DOMAIN t \cup {k}
  BY <1>1 DEF Table
<1>3. ASSUME NEW i \in DOMAIN u PROVE u[i] \in Boards
  BY <1>1
<1>. QED  BY <1>2, <1>3 DEF u

\* add_component keeps a list of components one.
LEMMA InsertComponent ==
  ASSUME NEW comps, ComponentList(comps), NEW c \in 1..MaxObj,
         NEW x \in [file : Files, target : Nat \cup {SSDP_ERROR}]
  PROVE  ComponentList(Insert(comps, c, x))
BY DEF ComponentList, Insert

\* Replacing the components of one application leaves its name and the other
\* applications alone.
LEMMA UpdateComponents ==
  ASSUME NEW t, Table(t), \A i \in DOMAIN t : AppBase(t[i]),
         NEW a \in DOMAIN t, NEW comps, ComponentList(comps),
         NEW u, u = [t EXCEPT ![a].comps = comps]
  PROVE  /\ Table(u) /\ \A i \in DOMAIN u : AppBase(u[i])
         /\ DOMAIN u = DOMAIN t
         /\ u[a].comps = comps /\ u[a].name = t[a].name
         /\ \A i \in DOMAIN t : i # a => u[i] = t[i]
<1>1. u = [i \in DOMAIN t |-> IF i = a THEN [t[a] EXCEPT !.comps = comps] ELSE t[i]]
  BY DEF Table
<1>2. [t[a] EXCEPT !.comps = comps] = [name |-> t[a].name, comps |-> comps]
  BY DEF AppBase
<1>3. AppBase([name |-> t[a].name, comps |-> comps])
  BY DEF AppBase
<1>. QED  BY <1>1, <1>2, <1>3 DEF Table

\* The objects of an application are numbered 1..MaxObj, and each has a code
\* file and a target.
LEMMA ObjectsType ==
  ASSUME DataOK, NEW i \in DOMAIN apptable
  PROVE  /\ Objects(i) \subseteq 1..MaxObj /\ Objects(i) \subseteq Nat
         /\ apptable[i].name \in DOMAIN Waveform
         /\ \A c \in Objects(i) :
              /\ apptable[i].comps[c].file \in Files
              /\ apptable[i].comps[c].target \in Nat \cup {SSDP_ERROR}
<1>1. AppBase(apptable[i])
  BY DEF DataOK
<1>2. ComponentList(apptable[i].comps) /\ apptable[i].name \in DOMAIN Waveform
  BY <1>1 DEF AppBase
<1>3. Objects(i) \subseteq 1..MaxObj
  BY <1>2 DEF ComponentList, Objects
<1>. QED  BY <1>2, <1>3, WaveformAssumption DEF ComponentList, Objects

\* The components of the object whose method is executing.
LEMMA CompsType ==
  ASSUME TypeOK, app \in DOMAIN apptable
  PROVE  /\ ComponentList(Comps)
         /\ DOMAIN Comps \in SUBSET (1..MaxObj) /\ DOMAIN Comps \in SUBSET Nat
         /\ \A c \in DOMAIN Comps : Comps[c].file \in Files
<1>1. AppBase(apptable[app])
  BY DEF TypeOK, DataOK
<1>2. ComponentList(Comps)
  BY <1>1 DEF AppBase, Comps
<1>3. \A c \in DOMAIN Comps : Comps[c] \in [file : Files, target : Nat \cup {SSDP_ERROR}]
  BY <1>2 DEF ComponentList
<1>4. DOMAIN Comps \in SUBSET (1..MaxObj)
  BY <1>2 DEF ComponentList
<1>. HIDE DEF Comps
<1>. QED  BY <1>2, <1>3, <1>4, WaveformAssumption

\* The tables of a process that has just started are well typed.
LEMMA EmptyTables ==
  /\ Table(Empty) /\ ComponentList(Empty) /\ DOMAIN Empty = {}
BY DEF Table, ComponentList, Empty

\* A name is resolved to an object that exists, or to SSDP_ERROR.
LEMMA HandleRequestType ==
  ASSUME DOMAIN apptable \subseteq Nat, DOMAIN devicetable \subseteq Nat, NEW name
  PROVE  HandleRequest(name) \in DOMAIN apptable \cup DOMAIN devicetable \cup {SSDP_ERROR}
<1>. DEFINE apps == {i \in DOMAIN apptable : apptable[i].name = name}
            devs == {i \in DOMAIN devicetable : devicetable[i] = name}
<1>1. apps # {} => Least(apps) \in apps
  BY LeastIn, apps \in SUBSET Nat
<1>2. devs # {} => Least(devs) \in devs
  BY LeastIn, devs \in SUBSET Nat
<1>. QED  BY <1>1, <1>2 DEF HandleRequest

\* An exchange leaves every board in a state a board can have.
LEMMA ApplyType ==
  ASSUME board \in [Boards -> BoardState], NEW name, NEW ans,
         NEW after, name \in Boards => after \in BoardState,
         Apply(name, ans, after)
  PROVE  board' \in [Boards -> BoardState]
BY DEF Apply

\* What start, stop, the route message and a load make of a board are states a
\* board can have.
LEMMA EffectTypes ==
  ASSUME NEW b \in BoardState
  PROVE  /\ \A by \in DOMAIN Waveform \cup {SSDP_OE_HANDLE_NAME} :
              /\ Started(b, by) \in BoardState
              /\ \A type : Halted(type, b, by) \in BoardState
         /\ \A msg \in {"switch01_radar", "switch23_radar",
                         "switch0_elec", "switch2_elec"} :
              Routed(b, msg) \in BoardState
         /\ \A file \in Files \cup {"0"} : Loaded(file) \in BoardState
<1>. b = [code |-> b.code, run |-> b.run, route |-> b.route]
  BY DEF BoardState
<1>1. \A by : Started(b, by) = [code |-> b.code, run |-> by, route |-> b.route]
  BY DEF Started
<1>2. \A msg : Routed(b, msg) = [code |-> b.code, run |-> b.run, route |-> msg]
  BY DEF Routed
<1>3. [b EXCEPT !.run = Off] = [code |-> b.code, run |-> Off, route |-> b.route]
  OBVIOUS
<1>4. ASSUME NEW type, NEW by PROVE Halted(type, b, by) \in BoardState
  BY <1>3 DEF Halted, BoardState
<1>5. \A file \in Files \cup {"0"} : Loaded(file) \in BoardState
  BY DEF Loaded, BoardState
<1>. QED  BY <1>1, <1>2, <1>4, <1>5 DEF BoardState

-----------------------------------------------------------------------------
(* Type correctness. FrameOK makes DataOK inductive:                         *)
(* what a step writes to a board or a component is read from the component  *)
(* the loop stands at.                                                      *)

\* The process starts well typed, with no method in progress.
LEMMA InitType == Init => TypeOK
<1>. SUFFICES ASSUME Init PROVE TypeOK
  OBVIOUS
<1>1. files \in Seq(Boards)
  BY DirectoryAssumption DEF Init
<1>2. board \in [Boards -> BoardState]
  BY DEF Init, Loaded, BoardState
<1>. QED
  BY <1>1, <1>2, EmptyTables, BoundsAssumption, WaveformAssumption
  DEF Init, TypeOK, DataOK, FrameOK, BEGIN_ID, SSDP_OK, Register

\* A crash or a restart leaves a fresh process, well typed.
LEMMA MemoryType ==
  ASSUME TypeOK, NEW newpc \in {"boot", "dead"}, Memory(newpc),
         cmd' \in Commands \cup {NoCommand}, files' \in Seq(Boards),
         UNCHANGED board, restarts' \in 0..MaxRestarts
  PROVE  TypeOK'
BY EmptyTables DEF TypeOK, DataOK, FrameOK, Memory, BEGIN_ID, SSDP_OK,
   Register

\* A command is received.
LEMMA ReceiveType ==
  ASSUME TypeOK, NEW c \in Commands, ReceiveCommand(c)
  PROVE  TypeOK'
<1>. DEFINE toid == HandleRequest(c.name)
<1>. USE DEF TypeOK
<1>1. toid \in DOMAIN apptable \cup DOMAIN devicetable \cup {SSDP_ERROR}
  BY HandleRequestType DEF DataOK, Table
<1>2. /\ DOMAIN apptable \subseteq Nat /\ DOMAIN devicetable \subseteq Nat
      /\ pc = "idle" /\ cmd' = c /\ UNCHANGED <<files, restarts>>
      /\ BEGIN_ID \in Nat /\ MaxObj \in Nat
      /\ SSDP_OK \in Register /\ SSDP_ERROR \in Register
  BY WaveformAssumption
     DEF DataOK, Table, ReceiveCommand, BEGIN_ID, Register
<1>3. ASSUME NEW res \in Register, Return(res) PROVE TypeOK'
  BY <1>2, <1>3 DEF DataOK, FrameOK, Return, registry, Locals
<1>4. ASSUME Crash PROVE TypeOK'
  BY <1>2, <1>4, MemoryType DEF Crash, DataOK
<1>5. ASSUME NEW m \in {"start", "stop"}, NEW S, toid \in DOMAIN apptable,
             S \subseteq Objects(toid), Call(m, toid, S)
      PROVE  TypeOK'
  <2>1. S \subseteq Nat
    BY <1>5, ObjectsType
  <2>. QED
    BY <1>2, <1>5, <2>1 DEF DataOK, FrameOK, Call, Comps, Objects, registry
<1>6. ASSUME NEW d \in Nat \cup {SSDP_ERROR}, Call("device", d, {}),
             c.f \in {"start", "stop", "reconstruct", "config"}
      PROVE  TypeOK'
  BY <1>2, <1>6 DEF DataOK, FrameOK, Call, registry
<1>7. CASE c.f \in {"start", "stop"}
  <2>1. StartOrStop(c, toid)
    BY <1>7 DEF ReceiveCommand
  <2>2. ASSUME toid \in DOMAIN apptable
        PROVE  Reached(c.name, toid) \subseteq Objects(toid)
    BY DEF Reached
  <2>. QED  BY <1>1, <1>2, <1>3, <1>5, <1>6, <1>7, <2>1, <2>2 DEF StartOrStop
<1>8. CASE c.f = "config"
  <2>1. Configure(c, toid)
    BY <1>8 DEF ReceiveCommand
  <2>2. ASSUME toid \in DOMAIN apptable, c.comp \in Objects(toid)
        PROVE  apptable[toid].comps[c.comp].target \in Nat \cup {SSDP_ERROR}
    BY <2>2, ObjectsType
  <2>. QED  BY <1>1, <1>2, <1>3, <1>4, <1>6, <1>8, <2>1, <2>2 DEF Configure
<1>9. CASE c.f = "reconstruct"
  <2>1. Reconstruct(toid)
    BY <1>9 DEF ReceiveCommand
  <2>. QED  BY <1>2, <1>4, <1>6, <1>9, <2>1 DEF Reconstruct
<1>10. CASE c.f = "switch"
  <2>1. Switch(c, toid)
    BY <1>10 DEF ReceiveCommand
  <2>. QED  BY <1>1, <1>2, <1>3, <1>5, <2>1 DEF Switch
<1>11. CASE c.f = "loadapp"
  <2>1. InstantiateApp(c.name)
    BY <1>11 DEF ReceiveCommand
  <2>2. CASE c.name \notin DOMAIN Waveform
    BY <1>4, <2>1, <2>2 DEF InstantiateApp
  <2>3. CASE c.name \in DOMAIN Waveform
    <3>. DEFINE new == [name |-> c.name, comps |-> Empty]
    <3>1. AppBase(new)
      BY <2>3, EmptyTables DEF AppBase
    <3>2. apptable' = Insert(apptable, cur_id, new) /\ cur_id \in Nat
      BY <2>1, <2>3 DEF InstantiateApp, DataOK
    <3>3. /\ Table(apptable') /\ DOMAIN apptable' = DOMAIN apptable \cup {cur_id}
          /\ \A i \in DOMAIN apptable' : AppBase(apptable'[i])
      <4>1. /\ Table(apptable) /\ \A i \in DOMAIN apptable : AppBase(apptable[i])
        BY DEF DataOK
      <4>. HIDE DEF new
      <4>. QED  BY <3>1, <3>2, <4>1, InsertApp
    <3>4. Waveform[c.name] \in Seq(Component)
      BY <2>3, WaveformAssumption
    <3>5. /\ pc' = "instantiate" /\ app' = cur_id /\ used_device' = {}
          /\ todo' = DOMAIN Waveform[c.name] /\ result' = SSDP_OK
          /\ UNCHANGED <<devicetable, source, board>>
          /\ id_in_use' = id_in_use \cup {cur_id} /\ cur_id' = cur_id + 1
      BY <2>1, <2>3 DEF InstantiateApp, GetNewHandleID
    <3>6. DataOK'
      BY <1>2, <3>2, <3>3, <3>4, <3>5 DEF DataOK
    <3>7. FrameOK'
      BY <1>2, <2>3, <3>3, <3>5 DEF FrameOK
    <3>. QED  BY <3>6, <3>7
  <2>. QED  BY <2>2, <2>3
<1>12. CASE c.f \notin {"start", "stop", "config", "reconstruct", "switch", "loadapp"}
  BY <1>2, <1>3, <1>12 DEF ReceiveCommand
<1>. QED  BY <1>7, <1>8, <1>9, <1>10, <1>11, <1>12

\* Start-up, the ways a process ends, and its successor.
LEMMA LifecycleType ==
  ASSUME TypeOK,
         \/ InstantiateDevice \/ Listen \/ Killed \/ Restart
         \/ \E i \in DOMAIN apptable : AbortApp(i)
  PROVE  TypeOK'
<1>. USE DEF TypeOK
<1>1. CASE InstantiateDevice
  <2>1. Head(files) \in Boards /\ Tail(files) \in Seq(Boards) /\ cur_id \in Nat
    BY <1>1 DEF DataOK, InstantiateDevice
  <2>2. devicetable' = Insert(devicetable, cur_id, Head(files))
    BY <1>1 DEF InstantiateDevice
  <2>3. Table(devicetable') /\ \A i \in DOMAIN devicetable' : devicetable'[i] \in Boards
    <3>1. /\ Table(devicetable)
          /\ \A i \in DOMAIN devicetable : devicetable[i] \in Boards
      BY DEF DataOK
    <3>. QED  BY <2>1, <2>2, <3>1, InsertDevice
  <2>. QED  BY <1>1, <2>1, <2>3
            DEF DataOK, FrameOK, InstantiateDevice, GetNewHandleID
<1>2. CASE Listen
  BY <1>2 DEF DataOK, FrameOK, Listen, registry
<1>3. CASE Killed
  BY <1>3, MemoryType DEF Killed, Crash, DataOK
<1>4. CASE Restart
  <2>1. restarts + 1 \in 0..MaxRestarts
    BY <1>4, BoundsAssumption DEF Restart, DataOK
  <2>2. files' \in Seq(Boards)
    BY <1>4, DirectoryAssumption DEF Restart
  <2>. QED  BY <1>4, <2>1, <2>2, MemoryType DEF Restart
<1>5. ASSUME NEW i \in DOMAIN apptable, AbortApp(i) PROVE TypeOK'
  <2>1. /\ apptable' = [j \in DOMAIN apptable \ {i} |-> apptable[j]]
        /\ pc = "idle" /\ pc' = "idle" /\ cmd' = NoCommand
        /\ id_in_use' \subseteq id_in_use
        /\ UNCHANGED <<cur_id, devicetable, files, app, todo, used_device,
                       source, result, board, restarts>>
    BY <1>5 DEF AbortApp, Locals
  <2>2. Table(apptable') /\ \A j \in DOMAIN apptable' : AppBase(apptable'[j])
    BY <2>1 DEF DataOK, Table
  <2>. QED  BY <2>1, <2>2 DEF DataOK, FrameOK
<1>. QED  BY <1>1, <1>2, <1>3, <1>4, <1>5

\* The return of the method in progress.
LEMMA DoneType ==
  ASSUME TypeOK, Done, UNCHANGED apptable, Keep, board' \in [Boards -> BoardState]
  PROVE  TypeOK'
BY EmptyTables DEF TypeOK, DataOK, FrameOK, Done, Keep

\* The endless wait for a board.
LEMMA HungType ==
  ASSUME TypeOK, pc' = "hung", UNCHANGED <<Locals, apptable>>, Keep,
         board' \in [Boards -> BoardState]
  PROVE  TypeOK'
BY DEF TypeOK, DataOK, FrameOK, Locals, Keep

\* The last exchange of a method: the method returns or waits for ever.
LEMMA ConcludeType ==
  ASSUME TypeOK, NEW ans, Conclude(ans), UNCHANGED apptable, Keep,
         board' \in [Boards -> BoardState]
  PROVE  TypeOK'
BY DoneType, HungType DEF Conclude

\* One turn of a loop over components that changes no component.
LEMMA LoopType ==
  ASSUME TypeOK, pc \in {"start", "stop", "wipe", "load"},
         \/ todo' = Rest /\ pc' = pc
         \/ todo' = todo /\ pc' = "hung",
         UNCHANGED <<apptable, app, used_device, source>>, Keep,
         board' \in [Boards -> BoardState]
  PROVE  TypeOK'
BY DEF TypeOK, DataOK, FrameOK, Keep, Rest, Comps

\* A loop passes the component it stands at, or hangs on it.
LEMMA ProceedCases ==
  ASSUME NEW ans, NEW rest, Proceed(ans, rest)
  PROVE  (todo' = rest /\ pc' = pc) \/ (todo' = todo /\ pc' = "hung")
BY DEF Proceed

\* The loop stands at a component it has left.
LEMMA CurrentIn ==
  ASSUME TypeOK, todo # {},
         pc \in {"instantiate", "start", "stop", "wipe", "load"}
  PROVE  Current \in todo
<1>1. todo \in SUBSET Nat
  BY DEF TypeOK, DataOK
<1>2. pc # "instantiate" => todo \in SUBSET (1..MaxObj)
  BY DEF TypeOK, DataOK, FrameOK, AppBase, ComponentList, Comps
<1>. QED  BY <1>1, <1>2, LeastIn, GreatestIn DEF Current

\* One turn of the loop of SSDP_InstantiateApp.
LEMMA InstantiateType ==
  ASSUME TypeOK, InstantiateComponent
  PROVE  TypeOK'
<1>. USE DEF TypeOK
<1>. DEFINE x == Waveform[cmd.name][Current]
            devid == HandleRequest(x.dev)
            comps == Insert(apptable[app].comps, x.obj,
                            [file |-> x.file, target |-> devid])
            added == [apptable EXCEPT ![app].comps = comps]
<1>1. /\ pc = "instantiate" /\ todo # {} /\ app \in DOMAIN apptable
      /\ cmd.name \in DOMAIN Waveform /\ todo \subseteq DOMAIN Waveform[cmd.name]
  BY DEF InstantiateComponent, FrameOK
<1>2. Current \in todo
  BY <1>1, CurrentIn
<1>3. x \in Component
  <2>1. Waveform[cmd.name] \in Seq(Component)
    BY <1>1, WaveformAssumption
  <2>. QED  BY <1>1, <1>2, <2>1
<1>4. x.obj \in 1..MaxObj /\ x.dev \in STRING /\ x.file \in Files
  BY <1>3 DEF Component
<1>5. devid \in Nat \cup {SSDP_ERROR}
  BY HandleRequestType DEF DataOK, Table
<1>6. /\ Table(added) /\ \A i \in DOMAIN added : AppBase(added[i])
      /\ DOMAIN added = DOMAIN apptable
  <2>1. ComponentList(apptable[app].comps)
    BY <1>1 DEF DataOK, AppBase
  <2>2. [file |-> x.file, target |-> devid] \in [file : Files, target : Nat \cup {SSDP_ERROR}]
    BY <1>4, <1>5
  <2>. HIDE DEF x, devid
  <2>3. ComponentList(comps)
    BY <1>4, <2>1, <2>2, InsertComponent
  <2>4. Table(apptable) /\ \A i \in DOMAIN apptable : AppBase(apptable[i])
    BY DEF DataOK
  <2>. HIDE DEF comps
  <2>. QED  BY <1>1, <2>3, <2>4, UpdateComponents
<1>7. ASSUME apptable' = added, Keep, UNCHANGED <<app, source>>,
             used_device' \subseteq STRING, board' \in [Boards -> BoardState],
             (todo' = Rest /\ pc' = pc) \/ (todo' = todo /\ pc' = "hung")
      PROVE  TypeOK'
  <2>. HIDE DEF added
  <2>. QED  BY <1>1, <1>6, <1>7 DEF DataOK, FrameOK, Keep, Rest
<1>8. CASE x.dev \in used_device
  <2>1. /\ apptable' = added /\ todo' = Rest
        /\ UNCHANGED <<pc, app, used_device, source, board>> /\ Keep
    BY <1>8 DEF InstantiateComponent
  <2>. QED  BY <1>7, <2>1 DEF DataOK
<1>9. CASE x.dev \notin used_device /\ devid \in DOMAIN devicetable
  <2>1. /\ apptable' = added /\ used_device' = used_device \cup {x.dev}
        /\ LoadDevice(devid, x.file) /\ UNCHANGED <<app, source>> /\ Keep
    BY <1>9 DEF InstantiateComponent
  <2>2. PICK ans \in Answers : /\ Apply(Board(devid), ans, Loaded(x.file))
                               /\ Proceed(ans, Rest)
    BY <2>1 DEF LoadDevice
  <2>3. Loaded(x.file) \in BoardState
    BY <1>4 DEF Loaded, BoardState
  <2>4. board' \in [Boards -> BoardState]
    BY <2>2, <2>3, ApplyType DEF DataOK
  <2>5. used_device' \subseteq STRING
    BY <1>4, <2>1 DEF DataOK
  <2>. QED  BY <1>7, <2>1, <2>2, <2>4, <2>5, ProceedCases
<1>10. CASE x.dev \notin used_device /\ devid \notin DOMAIN devicetable
  <2>1. Crash /\ UNCHANGED cmd
    BY <1>10 DEF InstantiateComponent
  <2>. QED  BY <2>1, MemoryType DEF Crash, DataOK
<1>. QED  BY <1>8, <1>9, <1>10

\* One turn of a start or stop loop.
LEMMA TellComponentType ==
  ASSUME TypeOK, TellComponent
  PROVE  TypeOK'
<1>. DEFINE id == Comps[Current].target
            b  == board[Board(id)]
<1>1. /\ pc \in {"start", "stop"} /\ todo # {} /\ app \in DOMAIN apptable
      /\ UNCHANGED <<apptable, app, used_device, source>> /\ Keep
  BY DEF TellComponent, TypeOK, FrameOK
<1>2. board \in [Boards -> BoardState] /\ apptable[app].name \in DOMAIN Waveform
  BY <1>1, ObjectsType DEF TypeOK, DataOK
<1>3. CASE id \in DOMAIN devicetable
  <2>. DEFINE after == IF pc = "start" THEN Started(b, apptable[app].name)
                       ELSE Halted(DeviceType[Board(id)], b, apptable[app].name)
  <2>1. PICK ans \in Answers : Proceed(ans, Rest) /\ Apply(Board(id), ans, after)
    BY <1>3 DEF TellComponent
  <2>2. Board(id) \in Boards
    BY <1>3 DEF TypeOK, DataOK, Board
  <2>3. after \in BoardState
    <3>1. b \in BoardState
      BY <1>2, <2>2
    <3>. HIDE DEF b
    <3>. QED  BY <1>2, <3>1, EffectTypes
  <2>4. board' \in [Boards -> BoardState]
    <3>. HIDE DEF after
    <3>. QED  BY <1>2, <2>1, <2>3, ApplyType
  <2>5. (todo' = Rest /\ pc' = pc) \/ (todo' = todo /\ pc' = "hung")
    BY <2>1, ProceedCases
  <2>. QED  BY <1>1, <2>4, <2>5, LoopType
<1>4. CASE id \notin DOMAIN devicetable
  <2>1. todo' = Rest /\ UNCHANGED <<pc, board>>
    BY <1>4 DEF TellComponent
  <2>. QED  BY <1>1, <1>2, <2>1, LoopType
<1>. QED  BY <1>3, <1>4

\* The one exchange of a command for a device.
LEMMA TellDeviceType ==
  ASSUME TypeOK, TellDevice
  PROVE  TypeOK'
<1>. DEFINE b == board[Board(app)]
            by == SSDP_OE_HANDLE_NAME
            after == CASE cmd.f = "start"  -> Started(b, by)
                       [] cmd.f = "stop"   -> Halted(DeviceType[Board(app)], b, by)
                       [] cmd.f = "reconstruct" -> Loaded(cmd.file)
                       [] cmd.f = "config" -> b
<1>1. PICK ans \in Answers : Apply(Board(app), ans, after) /\ Conclude(ans)
  BY DEF TellDevice
<1>2. UNCHANGED apptable /\ Keep
  BY DEF TellDevice
<1>3. board \in [Boards -> BoardState]
  BY DEF TypeOK, DataOK
<1>4. /\ cmd \in Commands
      /\ cmd.f \in {"start", "stop", "reconstruct", "config"}
  BY DEF TellDevice, TypeOK, FrameOK
<1>5. cmd.file \in Files
  BY <1>4, CommandsAssumption DEF Command
<1>6. ASSUME Board(app) \in Boards PROVE after \in BoardState
  <2>1. b \in BoardState
    BY <1>3, <1>6
  <2>2. /\ Started(b, by) \in BoardState /\ Loaded(cmd.file) \in BoardState
        /\ Halted(DeviceType[Board(app)], b, by) \in BoardState
    <3>. HIDE DEF b
    <3>. QED  BY <1>5, <2>1, EffectTypes
  <2>. HIDE DEF b, by
  <2>. QED  BY <1>4, <2>1, <2>2
<1>7. board' \in [Boards -> BoardState]
  <2>. HIDE DEF after
  <2>. QED  BY <1>1, <1>3, <1>6, ApplyType
<1>. QED  BY <1>1, <1>2, <1>7, ConcludeType

\* The end of a loop hands over to the next one, or the method returns.
LEMMA EndLoopType ==
  ASSUME TypeOK, EndLoop
  PROVE  TypeOK'
<1>. USE DEF TypeOK
<1>1. /\ UNCHANGED apptable /\ Keep /\ todo = {}
      /\ board' \in [Boards -> BoardState] /\ MaxObj \in Nat
  BY WaveformAssumption DEF EndLoop, DataOK
<1>2. CASE Done
  BY <1>1, <1>2, DoneType
<1>3. CASE pc = "stop" /\ pc' = "move" /\ UNCHANGED Locals
  BY <1>1, <1>3 DEF DataOK, FrameOK, Locals, Keep
<1>4. CASE /\ pc = "wipe" /\ pc' = "load" /\ todo' = DOMAIN source
           /\ UNCHANGED <<app, used_device, source>>
  BY <1>1, <1>4 DEF DataOK, FrameOK, Keep, Comps
<1>5. CASE pc = "load" /\ pc' = "route" /\ UNCHANGED Locals
  BY <1>1, <1>5 DEF DataOK, FrameOK, Locals, Keep, Comps
<1>. QED  BY <1>2, <1>3, <1>4, <1>5 DEF EndLoop

\* The new place of a component is a handle, or SSDP_ERROR.
LEMMA DestinationType ==
  ASSUME TypeOK, NEW id
  PROVE  Destination(id) \in Nat \cup {SSDP_ERROR}
BY HandleRequestType DEF Destination, TypeOK, DataOK, Table

\* Moving components changes their targets only.
LEMMA MovedComponents ==
  ASSUME TypeOK, NEW comps, ComponentList(comps)
  PROVE  ComponentList(Moved(comps)) /\ DOMAIN Moved(comps) = DOMAIN comps
<1>. DEFINE new(c) == [comps[c] EXCEPT !.target = Destination(comps[c].target)]
<1>1. ASSUME NEW c \in DOMAIN comps
      PROVE  new(c) \in [file : Files, target : Nat \cup {SSDP_ERROR}]
  <2>1. comps[c] \in [file : Files, target : Nat \cup {SSDP_ERROR}]
    BY DEF ComponentList
  <2>2. new(c) = [file |-> comps[c].file, target |-> Destination(comps[c].target)]
    BY <2>1
  <2>. QED  BY <2>1, <2>2, DestinationType
<1>2. Moved(comps) = [c \in DOMAIN comps |-> IF c \in Moving THEN new(c) ELSE comps[c]]
  BY DEF Moved
<1>. HIDE DEF new
<1>. QED  BY <1>1, <1>2 DEF ComponentList

\* The first loop of the switch methods: the loops that follow visit components
\* the application has.
LEMMA MoveType ==
  ASSUME TypeOK, Move
  PROVE  TypeOK'
<1>. DEFINE comps == Moved(apptable[app].comps)
<1>1. /\ pc' \in {"spin", "wipe"} /\ app \in DOMAIN apptable
      /\ todo' = Moving /\ DOMAIN source' = Moving
      /\ UNCHANGED <<app, used_device, board>> /\ Keep
  BY DEF Move, TypeOK, FrameOK
<1>2. ComponentList(apptable[app].comps)
  BY <1>1 DEF TypeOK, DataOK, AppBase
<1>3. ComponentList(comps) /\ DOMAIN comps = DOMAIN apptable[app].comps
  BY <1>2, MovedComponents
<1>4. /\ Moving \subseteq DOMAIN apptable[app].comps
      /\ Moving \subseteq 1..MaxObj /\ Moving \subseteq Nat
  <2>1. DOMAIN Comps \in SUBSET (1..MaxObj) /\ DOMAIN Comps \in SUBSET Nat
    BY <1>1, CompsType
  <2>2. Moving \subseteq DOMAIN Comps
    BY DEF Moving
  <2>. QED  BY <2>1, <2>2 DEF Comps
<1>. DEFINE moved == [apptable EXCEPT ![app].comps = comps]
<1>5. apptable' = moved
  BY DEF Move
<1>6. /\ Table(moved) /\ \A i \in DOMAIN moved : AppBase(moved[i])
      /\ DOMAIN moved = DOMAIN apptable
      /\ moved[app].comps = comps
  <2>1. Table(apptable) /\ \A i \in DOMAIN apptable : AppBase(apptable[i])
    BY DEF TypeOK, DataOK
  <2>. HIDE DEF comps
  <2>. QED  BY <1>1, <1>3, <2>1, UpdateComponents
<1>. HIDE DEF comps, moved
<1>. QED  BY <1>1, <1>3, <1>4, <1>5, <1>6 DEF TypeOK, DataOK, FrameOK, Keep, Comps

\* SSDP_LoadDevie: the board is in a board's state and the loop goes on or hangs.
LEMMA LoadDeviceType ==
  ASSUME TypeOK, NEW id, NEW file \in Files \cup {"0"}, LoadDevice(id, file)
  PROVE  /\ board' \in [Boards -> BoardState]
         /\ (todo' = Rest /\ pc' = pc) \/ (todo' = todo /\ pc' = "hung")
<1>1. PICK ans \in Answers : Apply(Board(id), ans, Loaded(file)) /\ Proceed(ans, Rest)
  BY DEF LoadDevice
<1>2. Loaded(file) \in BoardState
  BY DEF Loaded, BoardState
<1>3. board' \in [Boards -> BoardState]
  BY <1>1, <1>2, ApplyType DEF TypeOK, DataOK
<1>. QED  BY <1>1, <1>3, ProceedCases

\* One turn of the loop that loads "0".
LEMMA WipeType ==
  ASSUME TypeOK, Wipe
  PROVE  TypeOK'
BY LoadDeviceType, LoopType DEF Wipe

\* One turn of the loop that loads the application's code.
LEMMA LoadType ==
  ASSUME TypeOK, Load
  PROVE  TypeOK'
<1>. DEFINE id   == Comps[Current].target
            file == Comps[Greatest(DOMAIN Comps)].file
<1>1. /\ pc = "load" /\ todo # {} /\ app \in DOMAIN apptable
      /\ todo \subseteq DOMAIN Comps
  BY DEF Load, TypeOK, FrameOK
<1>2. file \in Files
  <2>1. Greatest(DOMAIN Comps) \in DOMAIN Comps
    BY <1>1, CompsType, GreatestIn
  <2>. QED  BY <1>1, <2>1, CompsType
<1>3. CASE id \in DOMAIN devicetable
  <2>1. LoadDevice(id, file) /\ UNCHANGED <<apptable, app, used_device, source>> /\ Keep
    BY <1>3 DEF Load
  <2>. HIDE DEF id, file
  <2>. QED  BY <1>1, <1>2, <2>1, LoadDeviceType, LoopType
<1>4. CASE id \notin DOMAIN devicetable
  <2>1. Crash /\ UNCHANGED cmd
    BY <1>4 DEF Load
  <2>. QED  BY <2>1, MemoryType DEF Crash, TypeOK, DataOK
<1>. QED  BY <1>3, <1>4

\* The route message ends the switch.
LEMMA RouteType ==
  ASSUME TypeOK, Route
  PROVE  TypeOK'
<1>. DEFINE fpga  == HandleRequest("fpga1")
            leads == {c \in DOMAIN source : Comps[c].target \in
                        {HandleRequest("dsp1"), HandleRequest("dsp3")}}
            b     == board[Board(fpga)]
            after == Routed(b, RouteMessage(leads))
<1>1. UNCHANGED apptable /\ Keep /\ board \in [Boards -> BoardState]
  BY DEF Route, TypeOK, DataOK
<1>2. CASE leads # {} /\ fpga \in DOMAIN devicetable
  <2>1. PICK ans \in Answers : Apply(Board(fpga), ans, after) /\ Conclude(ans)
    BY <1>2 DEF Route
  <2>2. Board(fpga) \in Boards
    BY <1>2 DEF TypeOK, DataOK, Board
  <2>3. RouteMessage(leads) \in {"switch01_radar", "switch23_radar",
                                 "switch0_elec", "switch2_elec"}
    <3>. HIDE DEF leads
    <3>. QED  BY DEF RouteMessage
  <2>4. after \in BoardState
    <3>1. b \in BoardState
      BY <1>1, <2>2
    <3>. HIDE DEF b, leads
    <3>. QED  BY <2>3, <3>1, EffectTypes
  <2>5. board' \in [Boards -> BoardState]
    <3>. HIDE DEF after
    <3>. QED  BY <1>1, <2>1, <2>4, ApplyType
  <2>. QED  BY <1>1, <2>1, <2>5, ConcludeType
<1>3. CASE ~(leads # {} /\ fpga \in DOMAIN devicetable)
  BY <1>1, <1>3, DoneType DEF Route
<1>. QED  BY <1>2, <1>3

\* Type correctness, for every set of configuration files, every set of
\* commands and every way the boards react: no handle, component or loop ever
\* leaves the tables it belongs to.
THEOREM TypeCorrect == Spec => []TypeOK
<1>1. TypeOK /\ [Next]_vars => TypeOK'
  <2>. SUFFICES ASSUME TypeOK, [Next]_vars PROVE TypeOK'
    OBVIOUS
  <2>1. CASE Progress
    BY <2>1, LifecycleType, InstantiateType, TellComponentType, TellDeviceType,
       EndLoopType, MoveType, WipeType, LoadType, RouteType DEF Progress
  <2>2. ASSUME NEW c \in Commands, ReceiveCommand(c) PROVE TypeOK'
    BY <2>2, ReceiveType
  <2>3. CASE Killed \/ Restart \/ \E i \in DOMAIN apptable : AbortApp(i)
    BY <2>3, LifecycleType
  <2>4. CASE UNCHANGED vars
    BY <2>4 DEF vars, registry, TypeOK, DataOK, FrameOK, Comps
  <2>. QED  BY <2>1, <2>2, <2>3, <2>4 DEF Next
<1>. QED  BY InitType, <1>1, PTL DEF Spec

-----------------------------------------------------------------------------
(* Handles. HandlesLive says nothing of cur_id while no id is in use; with   *)
(* the lower bound for cur_id it is inductive relative to TypeOK.           *)

HandlesInv == HandlesLive /\ cur_id >= BEGIN_ID

\* The steps of a command in progress end the process or neither create nor
\* delete an object.
LEMMA ProgressTables ==
  ASSUME Progress, ~InstantiateDevice
  PROVE  \/ Memory("dead")
         \/ /\ UNCHANGED <<cur_id, id_in_use, devicetable>>
            /\ DOMAIN apptable' = DOMAIN apptable
<1>1. CASE Listen
  BY <1>1 DEF Listen, registry
<1>2. CASE InstantiateComponent
  <2>. DEFINE comps == Insert(apptable[app].comps, Waveform[cmd.name][Current].obj,
                              [file |-> Waveform[cmd.name][Current].file,
                               target |-> HandleRequest(Waveform[cmd.name][Current].dev)])
              added == [apptable EXCEPT ![app].comps = comps]
  <2>1. (apptable' = added /\ Keep) \/ Crash
    BY <1>2 DEF InstantiateComponent
  <2>2. DOMAIN added = DOMAIN apptable
    OBVIOUS
  <2>. HIDE DEF added
  <2>. QED  BY <2>1, <2>2 DEF Keep, Crash
<1>3. CASE TellComponent
  BY <1>3 DEF TellComponent, Keep
<1>4. CASE TellDevice
  BY <1>4 DEF TellDevice, Keep
<1>5. CASE EndLoop
  BY <1>5 DEF EndLoop, Keep
<1>6. CASE Move
  BY <1>6 DEF Move, Keep
<1>7. CASE Wipe
  BY <1>7 DEF Wipe, Keep
<1>8. CASE Load
  BY <1>8 DEF Load, Keep, Crash
<1>9. CASE Route
  BY <1>9 DEF Route, Keep
<1>. QED  BY <1>1, <1>2, <1>3, <1>4, <1>5, <1>6, <1>7, <1>8, <1>9 DEF Progress

\* A command ends the process, creates one application under the next id, or
\* leaves the registry as it is.
LEMMA ReceiveTables ==
  ASSUME NEW c \in Commands, ReceiveCommand(c)
  PROVE  \/ Memory("dead")
         \/ UNCHANGED registry /\ pc' \in {"idle", "start", "stop", "device"}
         \/ /\ GetNewHandleID /\ UNCHANGED devicetable
            /\ pc' = "instantiate" /\ used_device' = {}
            /\ c.name \in DOMAIN Waveform
            /\ apptable' = Insert(apptable, cur_id, [name |-> c.name, comps |-> Empty])
<1>. DEFINE toid == HandleRequest(c.name)
<1>1. \A res : Return(res) => UNCHANGED registry /\ pc' = "idle"
  BY DEF Return
<1>2. \A m, d, S : Call(m, d, S) => UNCHANGED registry /\ pc' = m
  BY DEF Call
<1>3. Crash => Memory("dead")
  BY DEF Crash
<1>4. CASE c.f \in {"start", "stop"}
  BY <1>1, <1>2, <1>4 DEF ReceiveCommand, StartOrStop
<1>5. CASE c.f = "config"
  BY <1>1, <1>2, <1>3, <1>5 DEF ReceiveCommand, Configure
<1>6. CASE c.f = "reconstruct"
  BY <1>2, <1>3, <1>6 DEF ReceiveCommand, Reconstruct
<1>7. CASE c.f = "switch"
  BY <1>1, <1>2, <1>7 DEF ReceiveCommand, Switch
<1>8. CASE c.f = "loadapp"
  BY <1>3, <1>8 DEF ReceiveCommand, InstantiateApp
<1>9. CASE c.f \notin {"start", "stop", "config", "reconstruct", "switch", "loadapp"}
  BY <1>1, <1>9 DEF ReceiveCommand
<1>. QED  BY <1>4, <1>5, <1>6, <1>7, <1>8, <1>9

\* Every step keeps the registered ids and the objects the same set.
LEMMA HandlesStep ==
  ASSUME TypeOK, HandlesInv, [Next]_vars
  PROVE  HandlesInv'
<1>1. /\ cur_id \in Nat /\ BEGIN_ID \in Nat
      /\ cur_id \notin id_in_use
  BY DEF TypeOK, DataOK, HandlesInv, HandlesLive, BEGIN_ID
<1>2. ASSUME NEW newpc, Memory(newpc) PROVE HandlesInv'
  BY <1>2 DEF Memory, HandlesInv, HandlesLive, BEGIN_ID, Empty
<1>3. ASSUME UNCHANGED <<cur_id, id_in_use, devicetable>>,
             DOMAIN apptable' = DOMAIN apptable
      PROVE  HandlesInv'
  BY <1>3 DEF HandlesInv, HandlesLive
<1>4. ASSUME GetNewHandleID,
             \/ /\ DOMAIN apptable' = DOMAIN apptable \cup {cur_id}
                /\ UNCHANGED devicetable
             \/ /\ DOMAIN devicetable' = DOMAIN devicetable \cup {cur_id}
                /\ UNCHANGED apptable
      PROVE  HandlesInv'
  BY <1>1, <1>4 DEF GetNewHandleID, HandlesInv, HandlesLive
<1>5. CASE InstantiateDevice
  BY <1>4, <1>5 DEF InstantiateDevice, Insert
<1>6. CASE Progress /\ ~InstantiateDevice
  BY <1>2, <1>3, <1>6, ProgressTables
<1>7. ASSUME NEW c \in Commands, ReceiveCommand(c) PROVE HandlesInv'
  BY <1>2, <1>3, <1>4, <1>7, ReceiveTables DEF registry, Insert
<1>8. ASSUME NEW i \in DOMAIN apptable, AbortApp(i) PROVE HandlesInv'
  BY <1>8 DEF AbortApp, HandlesInv, HandlesLive
<1>9. CASE Killed \/ Restart
  BY <1>2, <1>9 DEF Killed, Restart, Crash
<1>10. CASE UNCHANGED vars
  BY <1>3, <1>10 DEF vars, registry
<1>. QED  BY <1>5, <1>6, <1>7, <1>8, <1>9, <1>10 DEF Next

\* Handles designate exactly the objects that exist, and no id is ever handed
\* out twice by one process, whatever commands arrive, wherever they fail and
\* however often the process is restarted.
THEOREM HandlesCorrect == Spec => []HandlesLive
<1>1. Init => HandlesInv
  BY DEF Init, HandlesInv, HandlesLive, Empty, BEGIN_ID
<1>2. TypeOK /\ HandlesInv /\ [Next]_vars => HandlesInv'
  BY HandlesStep
<1>3. HandlesInv => HandlesLive
  BY DEF HandlesInv
<1>. QED  BY TypeCorrect, <1>1, <1>2, <1>3, PTL DEF Spec

-----------------------------------------------------------------------------
(* Targets. During the second half of a switch the components that moved may *)
(* be on boards that do not exist: those that "load" has not reached. While  *)
(* an application is being read, the names in used_device resolve.           *)

Unsettled(i, c) ==
  /\ i = app
  /\ \/ pc = "wipe" /\ c \in DOMAIN source
     \/ pc = "load" /\ c \in todo

TargetsInv ==
  /\ pc \notin {"hung", "spin"} =>
       \A i \in DOMAIN apptable : \A c \in DOMAIN apptable[i].comps :
         Unsettled(i, c) \/ apptable[i].comps[c].target \in DOMAIN devicetable
  /\ pc = "instantiate" => \A d \in used_device : HandleRequest(d) \in DOMAIN devicetable

\* What a name resolves to depends on the names in the tables only.
LEMMA SameNames ==
  ASSUME UNCHANGED devicetable, DOMAIN apptable' = DOMAIN apptable,
         \A i \in DOMAIN apptable : apptable'[i].name = apptable[i].name,
         NEW name
  PROVE  HandleRequest(name)' = HandleRequest(name)
<1>1. {i \in DOMAIN apptable : apptable[i].name = name}' =
      {i \in DOMAIN apptable : apptable[i].name = name}
  OBVIOUS
<1>. QED  BY <1>1 DEF HandleRequest

\* A step that touches neither table, from a state without unsettled components.
LEMMA TargetsKept ==
  ASSUME TargetsInv, UNCHANGED <<apptable, devicetable>>,
         pc \notin {"wipe", "load", "hung", "spin"} \/ pc' = "hung",
         pc' # "instantiate"
  PROVE  TargetsInv'
BY DEF TargetsInv, Unsettled

\* Receiving a command moves no component.
LEMMA TargetsReceive ==
  ASSUME TargetsInv, NEW c \in Commands, ReceiveCommand(c)
  PROVE  TargetsInv'
<1>1. pc = "idle"
  BY DEF ReceiveCommand
<1>2. CASE Memory("dead")
  BY <1>2 DEF Memory, TargetsInv, Empty
<1>3. CASE UNCHANGED registry /\ pc' \in {"idle", "start", "stop", "device"}
  BY <1>1, <1>3, TargetsKept DEF registry
<1>4. CASE /\ UNCHANGED devicetable /\ pc' = "instantiate" /\ used_device' = {}
           /\ apptable' = Insert(apptable, cur_id, [name |-> c.name, comps |-> Empty])
  <2>1. \A i \in DOMAIN apptable :
          i \in DOMAIN apptable' /\ apptable'[i] = apptable[i]
    BY <1>4 DEF Insert
  <2>2. \A i \in DOMAIN apptable' \ DOMAIN apptable : apptable'[i].comps = Empty
    BY <1>4 DEF Insert
  <2>3. \A i \in DOMAIN apptable : \A k \in DOMAIN apptable[i].comps :
          apptable[i].comps[k].target \in DOMAIN devicetable
    BY <1>1 DEF TargetsInv, Unsettled
  <2>4. ASSUME NEW i \in DOMAIN apptable', NEW k \in DOMAIN apptable'[i].comps
        PROVE  apptable'[i].comps[k].target \in DOMAIN devicetable
    BY <2>1, <2>2, <2>3, <2>4, EmptyTables
  <2>. QED  BY <1>4, <2>4 DEF TargetsInv
<1>. QED  BY <1>2, <1>3, <1>4, ReceiveTables

\* A component is added with a device that exists, or the process is gone: a
\* board this application reloaded resolved before.
LEMMA TargetsInstantiate ==
  ASSUME TypeOK, TargetsInv, InstantiateComponent
  PROVE  TargetsInv'
<1>. DEFINE x == Waveform[cmd.name][Current]
            devid == HandleRequest(x.dev)
            new == [file |-> x.file, target |-> devid]
            comps == Insert(apptable[app].comps, x.obj, new)
            added == [apptable EXCEPT ![app].comps = comps]
<1>1. pc = "instantiate" /\ app \in DOMAIN apptable
  BY DEF InstantiateComponent, TypeOK, FrameOK
<1>2. ASSUME devid \in DOMAIN devicetable, apptable' = added,
             UNCHANGED devicetable, pc' \in {"instantiate", "hung"},
             used_device' \subseteq used_device \cup {x.dev}
      PROVE  TargetsInv'
  <2>1. /\ \A c \in DOMAIN apptable[app].comps :
             apptable[app].comps[c].target \in DOMAIN devicetable
        /\ \A i \in DOMAIN apptable : \A c \in DOMAIN apptable[i].comps :
             apptable[i].comps[c].target \in DOMAIN devicetable
        /\ \A d \in used_device : HandleRequest(d) \in DOMAIN devicetable
    BY <1>1 DEF TargetsInv, Unsettled
  <2>2. new.target \in DOMAIN devicetable
    BY <1>2
  <2>3. \A c \in DOMAIN comps : comps[c].target \in DOMAIN devicetable
    <3>. HIDE DEF new
    <3>. QED  BY <2>1, <2>2 DEF Insert
  <2>4. /\ DOMAIN added = DOMAIN apptable
        /\ added[app].comps = comps
        /\ \A i \in DOMAIN apptable : added[i].name = apptable[i].name
        /\ \A i \in DOMAIN apptable : i # app => added[i] = apptable[i]
    <3>1. /\ Table(apptable) /\ AppBase(apptable[app])
      BY <1>1 DEF TypeOK, DataOK
    <3>. HIDE DEF comps
    <3>. QED  BY <1>1, <3>1 DEF Table, AppBase
  <2>. HIDE DEF added, comps
  <2>5. \A n : HandleRequest(n)' = HandleRequest(n)
    BY <1>2, <2>4, SameNames
  <2>6. \A i \in DOMAIN added : \A c \in DOMAIN added[i].comps :
          added[i].comps[c].target \in DOMAIN devicetable
    BY <2>1, <2>3, <2>4
  <2>7. \A d \in used_device' : HandleRequest(d)' \in DOMAIN devicetable
    BY <1>2, <2>1, <2>5
  <2>. QED  BY <1>2, <2>6, <2>7 DEF TargetsInv
<1>3. CASE x.dev \in used_device
  <2>1. apptable' = added /\ UNCHANGED <<pc, used_device>> /\ Keep
    BY <1>3 DEF InstantiateComponent
  <2>2. devid \in DOMAIN devicetable
    BY <1>1, <1>3 DEF TargetsInv
  <2>. QED  BY <1>1, <1>2, <2>1, <2>2 DEF Keep
<1>4. CASE x.dev \notin used_device /\ devid \in DOMAIN devicetable
  <2>1. /\ apptable' = added /\ used_device' = used_device \cup {x.dev}
        /\ LoadDevice(devid, x.file) /\ Keep
    BY <1>4 DEF InstantiateComponent
  <2>2. pc' \in {"instantiate", "hung"}
    BY <1>1, <2>1, ProceedCases DEF LoadDevice
  <2>. QED  BY <1>2, <1>4, <2>1, <2>2 DEF Keep
<1>5. CASE x.dev \notin used_device /\ devid \notin DOMAIN devicetable
  BY <1>5 DEF InstantiateComponent, Crash, Memory, TargetsInv, Empty
<1>. QED  BY <1>3, <1>4, <1>5

\* The components that do not move stay on boards that exist.
LEMMA TargetsMove ==
  ASSUME TypeOK, TargetsInv, Move
  PROVE  TargetsInv'
<1>. DEFINE comps == apptable[app].comps
            moved == [apptable EXCEPT ![app].comps = Moved(comps)]
<1>1. /\ pc = "move" /\ app \in DOMAIN apptable
      /\ apptable' = moved /\ DOMAIN source' = Moving
      /\ pc' \in {"spin", "wipe"} /\ UNCHANGED <<app, devicetable>>
  BY DEF Move, TypeOK, FrameOK, Keep
<1>2. \A i \in DOMAIN apptable : \A c \in DOMAIN apptable[i].comps :
        apptable[i].comps[c].target \in DOMAIN devicetable
  BY <1>1 DEF TargetsInv, Unsettled
<1>3. /\ DOMAIN Moved(comps) = DOMAIN comps
      /\ \A c \in DOMAIN comps \ Moving : Moved(comps)[c] = comps[c]
  BY DEF Moved
<1>4. /\ DOMAIN moved = DOMAIN apptable
      /\ moved[app].comps = Moved(comps)
      /\ \A i \in DOMAIN apptable : i # app => moved[i] = apptable[i]
  <2>1. Table(apptable) /\ AppBase(apptable[app])
    BY <1>1 DEF TypeOK, DataOK
  <2>. QED  BY <1>1, <2>1 DEF Table, AppBase
<1>. HIDE DEF moved
<1>5. ASSUME NEW i \in DOMAIN moved, NEW c \in DOMAIN moved[i].comps,
             ~(i = app /\ c \in Moving)
      PROVE  moved[i].comps[c].target \in DOMAIN devicetable
  BY <1>1, <1>2, <1>3, <1>4, <1>5
<1>6. \A i \in DOMAIN apptable' : \A c \in DOMAIN apptable'[i].comps :
        \/ i = app' /\ c \in DOMAIN source'
        \/ apptable'[i].comps[c].target \in DOMAIN devicetable'
  BY <1>1, <1>5
<1>7. CASE pc' = "spin"
  BY <1>7 DEF TargetsInv
<1>8. CASE pc' = "wipe"
  <2>1. \A i, c : i = app' /\ c \in DOMAIN source' => Unsettled(i, c)'
    BY <1>8 DEF Unsettled
  <2>. QED  BY <1>6, <1>8, <2>1 DEF TargetsInv
<1>. QED  BY <1>1, <1>7, <1>8

\* "load" settles the component it stands at.
LEMMA TargetsLoad ==
  ASSUME TypeOK, TargetsInv, Load
  PROVE  TargetsInv'
<1>1. pc = "load" /\ todo # {} /\ Current \in todo
  BY CurrentIn DEF Load
<1>2. CASE Comps[Current].target \in DOMAIN devicetable
  <2>1. /\ \E file : LoadDevice(Comps[Current].target, file)
        /\ UNCHANGED <<apptable, app, source>> /\ UNCHANGED devicetable
    BY <1>2 DEF Load, Keep
  <2>2. (todo' = Rest /\ pc' = pc) \/ pc' = "hung"
    BY <2>1, ProceedCases DEF LoadDevice
  <2>3. CASE pc' = "hung"
    BY <2>3 DEF TargetsInv
  <2>4. CASE todo' = todo \ {Current} /\ pc' = pc
    <3>1. \A i \in DOMAIN apptable : \A c \in DOMAIN apptable[i].comps :
            \/ i = app /\ c \in todo
            \/ apptable[i].comps[c].target \in DOMAIN devicetable
      BY <1>1 DEF TargetsInv, Unsettled
    <3>2. apptable[app].comps[Current].target \in DOMAIN devicetable
      BY <1>2 DEF Comps
    <3>3. \A i \in DOMAIN apptable : \A c \in DOMAIN apptable[i].comps :
            \/ i = app /\ c \in todo \ {Current}
            \/ apptable[i].comps[c].target \in DOMAIN devicetable
      BY <3>1, <3>2
    <3>. HIDE DEF Current
    <3>4. \A i, c : i = app /\ c \in todo \ {Current} => Unsettled(i, c)'
      BY <1>1, <2>1, <2>4 DEF Unsettled
    <3>. QED  BY <1>1, <2>1, <2>4, <3>3, <3>4 DEF TargetsInv
  <2>. QED  BY <2>2, <2>3, <2>4 DEF Rest
<1>3. CASE Comps[Current].target \notin DOMAIN devicetable
  BY <1>3 DEF Load, Crash, Memory, TargetsInv, Empty
<1>. QED  BY <1>2, <1>3

\* Every step keeps the components that are not being moved on devices.
LEMMA TargetsStep ==
  ASSUME TypeOK, TargetsInv, [Next]_vars
  PROVE  TargetsInv'
<1>1. ASSUME NEW newpc, Memory(newpc), newpc # "instantiate" PROVE TargetsInv'
  BY <1>1 DEF Memory, TargetsInv, Empty
<1>2. CASE InstantiateDevice
  BY <1>2 DEF InstantiateDevice, Insert, TargetsInv, Unsettled
<1>3. CASE Listen
  BY <1>3, TargetsKept DEF Listen, registry
<1>4. CASE TellComponent
  BY <1>4, TargetsKept, ProceedCases DEF TellComponent, Keep
<1>5. CASE TellDevice
  BY <1>5, TargetsKept DEF TellDevice, Keep, Conclude, Done
<1>6. CASE EndLoop
  <2>1. UNCHANGED <<apptable, devicetable>>
    BY <1>6 DEF EndLoop, Keep
  <2>2. CASE pc \in {"instantiate", "start", "stop"}
    BY <1>6, <2>1, <2>2, TargetsKept DEF EndLoop, Done
  <2>3. CASE pc \in {"wipe", "load"}
    BY <1>6, <2>1, <2>3 DEF EndLoop, TargetsInv, Unsettled, Locals
  <2>. QED  BY <1>6, <2>2, <2>3 DEF EndLoop
<1>7. CASE Wipe
  <2>1. /\ pc = "wipe" /\ \E id, file : LoadDevice(id, file)
        /\ UNCHANGED <<apptable, devicetable, app, source>>
    BY <1>7 DEF Wipe, Keep
  <2>2. pc' = pc \/ pc' = "hung"
    BY <2>1, ProceedCases DEF LoadDevice
  <2>. QED  BY <2>1, <2>2 DEF TargetsInv, Unsettled
<1>8. CASE Route
  BY <1>8, TargetsKept DEF Route, Keep, Conclude, Done
<1>9. ASSUME NEW i \in DOMAIN apptable, AbortApp(i) PROVE TargetsInv'
  BY <1>9 DEF AbortApp, TargetsInv, Unsettled
<1>10. CASE Killed \/ Restart
  BY <1>1, <1>10 DEF Killed, Restart, Crash
<1>11. CASE UNCHANGED vars
  <2>1. UNCHANGED <<apptable, devicetable, pc, app, todo, source, used_device>>
    BY <1>11 DEF vars, registry
  <2>2. \A n : HandleRequest(n)' = HandleRequest(n)
    BY <2>1, SameNames
  <2>. QED  BY <2>1, <2>2 DEF TargetsInv, Unsettled
<1>. QED  BY <1>2, <1>3, <1>4, <1>5, <1>6, <1>7, <1>8, <1>9, <1>10, <1>11,
             TargetsReceive, TargetsInstantiate, TargetsMove, TargetsLoad
          DEF Next, Progress

\* A component designates a device that exists, so the null pointer of
\* SSDP_LoadDevie is met only while a switch or a loadapp to a board that is
\* not configured is being executed.
THEOREM TargetsCorrect == Spec => []NoDanglingTarget
<1>1. Init => TargetsInv
  BY DEF Init, TargetsInv, Empty
<1>2. TypeOK /\ TargetsInv /\ [Next]_vars => TargetsInv'
  BY TargetsStep
<1>3. TargetsInv => NoDanglingTarget
  BY DEF TargetsInv, NoDanglingTarget, Unsettled
<1>. QED  BY TypeCorrect, <1>1, <1>2, <1>3, PTL DEF Spec

-----------------------------------------------------------------------------
(* Crashes. OnlyKnownCrashes looks at one step, but whether the step crashes *)
(* was decided earlier: an application whose waveform has been read has every *)
(* component the file names, and what a switch has still to load is where    *)
(* the names of its two lists of boards lead.                                *)

ObjectsOf(name) == {Waveform[name][k].obj : k \in DOMAIN Waveform[name]}
Pending == {Waveform[cmd.name][k].obj : k \in todo}

ComponentsInv ==
  pc \notin {"hung", "spin"} =>
    \A i \in DOMAIN apptable :
      \/ ObjectsOf(apptable[i].name) \subseteq Objects(i)
      \/ /\ pc = "instantiate" /\ i = app /\ apptable[i].name = cmd.name
         /\ ObjectsOf(cmd.name) \subseteq Objects(i) \cup Pending

SwitchInv ==
  /\ pc = "instantiate" => cmd.f = "loadapp"
  /\ pc \in {"move", "wipe", "load"} => cmd.f = "switch"
  /\ pc \in {"wipe", "load"} =>
       \A c \in DOMAIN source : \E d \in DOMAIN Partner(cmd.name) :
         Comps[c].target = HandleRequest(d)

CrashInv == ComponentsInv /\ SwitchInv

\* The name of a configured board leads to a device, since no application bears it.
LEMMA ConfiguredResolves ==
  ASSUME DataOK, NEW name \in Configured
  PROVE  HandleRequest(name) \in DOMAIN devicetable
<1>. DEFINE apps == {i \in DOMAIN apptable : apptable[i].name = name}
            devs == {i \in DOMAIN devicetable : devicetable[i] = name}
<1>1. name \in Boards /\ devs # {}
  BY DEF DataOK, Configured
<1>2. apps = {}
  BY <1>1, NamesAssumption DEF DataOK, AppBase
<1>3. Least(devs) \in devs
  <2>1. devs \in SUBSET Nat
    BY DEF DataOK, Table
  <2>. HIDE DEF devs
  <2>. QED  BY <1>1, <2>1, LeastIn
<1>. QED  BY <1>1, <1>2, <1>3 DEF HandleRequest

\* An application found under a name has that name.
LEMMA FoundByName ==
  ASSUME DataOK, HandlesLive, NEW name, HandleRequest(name) \in DOMAIN apptable
  PROVE  apptable[HandleRequest(name)].name = name
<1>. DEFINE apps == {i \in DOMAIN apptable : apptable[i].name = name}
            devs == {i \in DOMAIN devicetable : devicetable[i] = name}
<1>1. apps # {} => Least(apps) \in apps
  BY LeastIn, apps \in SUBSET Nat DEF DataOK, Table
<1>2. devs # {} => Least(devs) \in devs
  BY LeastIn, devs \in SUBSET Nat DEF DataOK, Table
<1>3. SSDP_ERROR \notin DOMAIN apptable
  BY DEF DataOK, Table, SSDP_ERROR
<1>. QED  BY <1>1, <1>2, <1>3 DEF HandleRequest, HandlesLive

\* Where a component goes is a board of the list itself.
LEMMA PartnerOfPartner ==
  ASSUME NEW name, NEW d \in DOMAIN Partner(name)
  PROVE  Partner(name)[d] \in DOMAIN Partner(name)
BY DEF Partner, Empty

\* A step that keeps every component where it is, outside "instantiate", "wipe"
\* and "load".
LEMMA CrashKept ==
  ASSUME CrashInv, UNCHANGED apptable,
         pc \notin {"instantiate", "wipe", "load", "hung", "spin"} \/ pc' = "hung",
         pc' \notin {"instantiate", "wipe", "load"},
         pc' = "move" => cmd'.f = "switch"
  PROVE  CrashInv'
BY DEF CrashInv, ComponentsInv, SwitchInv, Objects

\* A process that has just started or just ended has no application.
LEMMA CrashMemory ==
  ASSUME NEW newpc \in {"boot", "dead"}, Memory(newpc)
  PROVE  CrashInv'
BY DEF Memory, CrashInv, ComponentsInv, SwitchInv, Empty

\* Receiving a command: a new application has all its components before it.
LEMMA CrashReceive ==
  ASSUME TypeOK, HandlesInv, CrashInv, NEW c \in Commands, ReceiveCommand(c)
  PROVE  CrashInv'
<1>1. pc = "idle" /\ cmd' = c
  BY DEF ReceiveCommand
<1>2. CASE Memory("dead")
  BY <1>2, CrashMemory
<1>3. CASE UNCHANGED registry /\ pc' \in {"idle", "start", "stop", "device"}
  BY <1>1, <1>3, CrashKept DEF registry
<1>4. CASE pc' = "instantiate"
  <2>. DEFINE new == [name |-> c.name, comps |-> Empty]
  <2>1. c.f = "loadapp"
    BY <1>1, <1>4
       DEF ReceiveCommand, StartOrStop, Configure, Reconstruct, Switch,
           Return, Call, Crash, Memory
  <2>2. /\ apptable' = Insert(apptable, cur_id, new) /\ app' = cur_id
        /\ todo' = DOMAIN Waveform[c.name]
    BY <1>4, <2>1 DEF ReceiveCommand, InstantiateApp, Crash, Memory
  <2>3. cur_id \notin DOMAIN apptable
    BY DEF TypeOK, DataOK, HandlesInv, HandlesLive, BEGIN_ID
  <2>4. /\ DOMAIN apptable' = DOMAIN apptable \cup {cur_id}
        /\ apptable'[cur_id] = new
        /\ \A i \in DOMAIN apptable : apptable'[i] = apptable[i]
    <3>. HIDE DEF new
    <3>. QED  BY <2>2, <2>3 DEF Insert
  <2>5. Pending' = ObjectsOf(c.name)
    BY <1>1, <2>2 DEF Pending, ObjectsOf
  <2>6. ASSUME NEW i \in DOMAIN apptable
        PROVE  ObjectsOf(apptable'[i].name) \subseteq Objects(i)'
    <3>1. ObjectsOf(apptable[i].name) \subseteq Objects(i)
      BY <1>1 DEF CrashInv, ComponentsInv
    <3>. QED  BY <2>4, <3>1 DEF Objects
  <2>7. apptable'[cur_id].name = c.name
    BY <2>4
  <2>8. ComponentsInv'
    <3>. HIDE DEF new
    <3>. QED  BY <1>1, <1>4, <2>2, <2>4, <2>5, <2>6, <2>7 DEF ComponentsInv
  <2>9. SwitchInv'
    BY <1>1, <1>4, <2>1 DEF SwitchInv
  <2>. QED  BY <2>8, <2>9 DEF CrashInv
<1>. QED  BY <1>2, <1>3, <1>4, ReceiveTables

\* A component leaves the list of those to read when it is in the application.
LEMMA CrashInstantiate ==
  ASSUME TypeOK, CrashInv, InstantiateComponent
  PROVE  CrashInv'
<1>. DEFINE x == Waveform[cmd.name][Current]
            new == [file |-> x.file, target |-> HandleRequest(x.dev)]
            comps == Insert(apptable[app].comps, x.obj, new)
            added == [apptable EXCEPT ![app].comps = comps]
<1>1. /\ pc = "instantiate" /\ app \in DOMAIN apptable /\ cmd.f = "loadapp"
      /\ AppBase(apptable[app]) /\ Table(apptable)
  BY DEF InstantiateComponent, TypeOK, FrameOK, DataOK, CrashInv, SwitchInv
<1>2. ASSUME apptable' = added, UNCHANGED <<app, cmd>>,
             (pc' = pc /\ todo' = Rest) \/ pc' = "hung"
      PROVE  CrashInv'
  <2>1. /\ DOMAIN added = DOMAIN apptable
        /\ added[app].comps = comps
        /\ \A i \in DOMAIN apptable : added[i].name = apptable[i].name
        /\ \A i \in DOMAIN apptable : i # app => added[i] = apptable[i]
    <3>. HIDE DEF comps
    <3>. QED  BY <1>1 DEF Table, AppBase
  <2>2. DOMAIN comps = Objects(app) \cup {x.obj}
    <3>. HIDE DEF new
    <3>. QED  BY DEF Insert, Objects
  <2>. HIDE DEF added, comps
  <2>3. CASE pc' = "hung"
    BY <2>3 DEF CrashInv, ComponentsInv, SwitchInv
  <2>4. CASE pc' = "instantiate" /\ todo' = todo \ {Current}
    <3>1. Pending \subseteq Pending' \cup {x.obj}
      BY <1>2, <2>4 DEF Pending
    <3>2. Objects(app)' = Objects(app) \cup {x.obj}
      BY <1>2, <2>1, <2>2 DEF Objects
    <3>3. \A i \in DOMAIN apptable : Objects(i) \subseteq Objects(i)'
      BY <1>2, <2>1, <3>2 DEF Objects
    <3>. HIDE DEF x
    <3>4. ASSUME NEW i \in DOMAIN apptable
          PROVE  \/ ObjectsOf(apptable'[i].name) \subseteq Objects(i)'
                 \/ /\ i = app /\ apptable'[i].name = cmd.name
                    /\ ObjectsOf(cmd.name) \subseteq Objects(i)' \cup Pending'
      <4>1. apptable'[i].name = apptable[i].name
        BY <1>2, <2>1
      <4>2. CASE ObjectsOf(apptable[i].name) \subseteq Objects(i)
        BY <3>3, <4>1, <4>2
      <4>3. CASE /\ i = app /\ apptable[i].name = cmd.name
                 /\ ObjectsOf(cmd.name) \subseteq Objects(i) \cup Pending
        <5>1. Objects(i)' = Objects(i) \cup {x.obj}
          BY <1>2, <2>1, <2>2, <4>3 DEF Objects
        <5>. QED  BY <3>1, <4>1, <4>3, <5>1
      <4>. QED  BY <1>1, <4>2, <4>3 DEF CrashInv, ComponentsInv
    <3>. QED
      BY <1>1, <1>2, <2>1, <2>4, <3>4 DEF CrashInv, ComponentsInv, SwitchInv
  <2>. QED  BY <1>1, <1>2, <2>3, <2>4 DEF Rest
<1>3. CASE x.dev \in used_device
  BY <1>2, <1>3 DEF InstantiateComponent, Keep
<1>4. CASE x.dev \notin used_device /\ HandleRequest(x.dev) \in DOMAIN devicetable
  <2>1. /\ apptable' = added /\ LoadDevice(HandleRequest(x.dev), x.file)
        /\ UNCHANGED <<app, source>> /\ Keep
    BY <1>4 DEF InstantiateComponent
  <2>2. (pc' = pc /\ todo' = Rest) \/ pc' = "hung"
    BY <2>1, ProceedCases DEF LoadDevice
  <2>. QED  BY <1>2, <2>1, <2>2 DEF Keep
<1>5. CASE x.dev \notin used_device /\ HandleRequest(x.dev) \notin DOMAIN devicetable
  BY <1>5, CrashMemory DEF InstantiateComponent, Crash
<1>. QED  BY <1>3, <1>4, <1>5

\* What moves goes where a name of the list leads.
LEMMA CrashMove ==
  ASSUME TypeOK, CrashInv, Move
  PROVE  CrashInv'
<1>. DEFINE comps == apptable[app].comps
            moved == [apptable EXCEPT ![app].comps = Moved(comps)]
<1>1. /\ pc = "move" /\ app \in DOMAIN apptable
      /\ apptable' = moved /\ DOMAIN source' = Moving
      /\ pc' \in {"spin", "wipe"} /\ UNCHANGED <<app, devicetable, cmd>>
      /\ Table(apptable) /\ AppBase(apptable[app])
  BY DEF Move, TypeOK, FrameOK, DataOK, Keep
<1>2. /\ DOMAIN Moved(comps) = DOMAIN comps
      /\ \A c \in Moving : Moved(comps)[c] =
           [comps[c] EXCEPT !.target = Destination(comps[c].target)]
  BY DEF Moved, Moving, Comps
<1>3. /\ DOMAIN moved = DOMAIN apptable
      /\ moved[app].comps = Moved(comps)
      /\ \A i \in DOMAIN apptable : moved[i].name = apptable[i].name
      /\ \A i \in DOMAIN apptable : DOMAIN moved[i].comps = DOMAIN apptable[i].comps
  BY <1>1, <1>2 DEF Table, AppBase
<1>4. \A n : HandleRequest(n)' = HandleRequest(n)
  <2>. HIDE DEF moved
  <2>. QED  BY <1>1, <1>3, SameNames
<1>5. ASSUME NEW c \in Moving
      PROVE  \E d \in DOMAIN Partner(cmd.name) :
               Moved(comps)[c].target = HandleRequest(d)
  <2>1. comps[c] \in [file : Files, target : Nat \cup {SSDP_ERROR}]
    BY <1>1 DEF AppBase, ComponentList, Moving, Comps
  <2>2. Moved(comps)[c].target = Destination(comps[c].target)
    BY <1>2, <2>1
  <2>. DEFINE M == Movable(comps[c].target)
  <2>3. M # {}
    BY DEF Moving, Comps
  <2>4. PICK d \in M : Destination(comps[c].target) = HandleRequest(Partner(cmd.name)[d])
    <3>. HIDE DEF M
    <3>1. (CHOOSE d \in M : TRUE) \in M
      BY <2>3
    <3>. QED  BY <3>1 DEF Destination, M
  <2>5. d \in DOMAIN Partner(cmd.name)
    BY DEF Movable
  <2>. QED  BY <2>2, <2>4, <2>5, PartnerOfPartner
<1>. HIDE DEF moved, comps
<1>6. ComponentsInv'
  <2>1. ASSUME NEW i \in DOMAIN apptable
        PROVE  ObjectsOf(apptable'[i].name) \subseteq Objects(i)'
    <3>1. ObjectsOf(apptable[i].name) \subseteq Objects(i)
      BY <1>1 DEF CrashInv, ComponentsInv
    <3>. QED  BY <1>1, <1>3, <3>1 DEF Objects
  <2>. QED  BY <1>1, <1>3, <2>1 DEF ComponentsInv
<1>7. SwitchInv'
  <2>1. Comps' = Moved(comps)
    BY <1>1, <1>3 DEF Comps
  <2>2. cmd.f = "switch"
    BY <1>1 DEF CrashInv, SwitchInv
  <2>3. ASSUME NEW c \in DOMAIN source'
        PROVE  \E d \in DOMAIN Partner(cmd'.name) : Comps'[c].target = HandleRequest(d)'
    BY <1>1, <1>4, <1>5, <2>1
  <2>. QED  BY <1>1, <2>2, <2>3 DEF SwitchInv
<1>. QED  BY <1>6, <1>7 DEF CrashInv

\* The other steps of a method in progress keep the applications as they are
\* and, when they go on with a switch, what it has still to load.
LEMMA CrashLoop ==
  ASSUME CrashInv, UNCHANGED <<apptable, devicetable, app, source, cmd>>,
         pc \notin {"hung", "spin"},
         \/ pc' = "hung"
         \/ pc' = pc /\ pc # "instantiate"
         \/ pc = "stop" /\ pc' = "move" /\ cmd.f = "switch"
         \/ pc = "wipe" /\ pc' = "load"
         \/ pc = "load" /\ pc' = "route"
  PROVE  CrashInv'
<1>1. \A n : HandleRequest(n)' = HandleRequest(n)
  BY SameNames
<1>. QED  BY <1>1 DEF CrashInv, ComponentsInv, SwitchInv, Objects, Comps

\* Every step keeps the applications whole, and a switch to boards its lists name.
LEMMA CrashStep ==
  ASSUME TypeOK, HandlesInv, CrashInv, [Next]_vars
  PROVE  CrashInv'
<1>1. CASE InstantiateDevice
  BY <1>1 DEF InstantiateDevice, CrashInv, ComponentsInv, SwitchInv, Objects
<1>2. CASE Listen
  BY <1>2, CrashKept DEF Listen, registry
<1>3. CASE TellComponent
  BY <1>3, CrashKept, ProceedCases DEF TellComponent, Keep
<1>4. CASE TellDevice
  BY <1>4, CrashKept DEF TellDevice, Keep, Conclude, Done
<1>5. CASE EndLoop
  <2>1. UNCHANGED <<apptable, devicetable, cmd>> /\ todo = {}
    BY <1>5 DEF EndLoop, Keep
  <2>2. CASE pc = "instantiate"
    <3>1. pc' = "idle" /\ Pending = {}
      BY <1>5, <2>1, <2>2 DEF EndLoop, Done, Pending
    <3>. QED  BY <2>1, <2>2, <3>1 DEF CrashInv, ComponentsInv, SwitchInv, Objects
  <2>3. CASE pc = "start" \/ (pc = "stop" /\ cmd.f = "stop")
    BY <1>5, <2>1, <2>3, CrashKept DEF EndLoop, Done
  <2>4. CASE (pc = "stop" /\ cmd.f = "switch") \/ pc \in {"wipe", "load"}
    <3>1. /\ UNCHANGED <<app, source>> /\ pc \notin {"hung", "spin"}
          /\ \/ pc = "stop" /\ pc' = "move" /\ cmd.f = "switch"
             \/ pc = "wipe" /\ pc' = "load"
             \/ pc = "load" /\ pc' = "route"
      BY <1>5, <2>4 DEF EndLoop, Locals
    <3>2. UNCHANGED <<apptable, devicetable, app, source, cmd>>
      BY <2>1, <3>1
    <3>. QED  BY <3>1, <3>2, CrashLoop
  <2>. QED  BY <1>5, <2>2, <2>3, <2>4 DEF EndLoop
<1>6. CASE Wipe
  <2>1. /\ pc = "wipe" /\ \E id, file : LoadDevice(id, file)
        /\ UNCHANGED <<apptable, devicetable, app, source, cmd>>
    BY <1>6 DEF Wipe, Keep
  <2>2. pc' = pc \/ pc' = "hung"
    BY <2>1, ProceedCases DEF LoadDevice
  <2>. QED  BY <2>1, <2>2, CrashLoop
<1>7. CASE Load
  <2>1. pc = "load"
    BY <1>7 DEF Load
  <2>2. CASE Comps[Current].target \in DOMAIN devicetable
    <3>1. /\ \E file : LoadDevice(Comps[Current].target, file)
          /\ UNCHANGED <<apptable, devicetable, app, source, cmd>>
      BY <1>7, <2>2 DEF Load, Keep
    <3>2. pc' = pc \/ pc' = "hung"
      BY <3>1, ProceedCases DEF LoadDevice
    <3>. QED  BY <2>1, <3>1, <3>2, CrashLoop
  <2>3. CASE Comps[Current].target \notin DOMAIN devicetable
    BY <1>7, <2>3, CrashMemory DEF Load, Crash
  <2>. QED  BY <2>2, <2>3
<1>8. CASE Route
  BY <1>8, CrashKept DEF Route, Keep, Conclude, Done
<1>9. ASSUME NEW i \in DOMAIN apptable, AbortApp(i) PROVE CrashInv'
  BY <1>9 DEF AbortApp, CrashInv, ComponentsInv, SwitchInv, Objects
<1>10. CASE Killed \/ Restart
  BY <1>10, CrashMemory DEF Killed, Restart, Crash
<1>11. CASE UNCHANGED vars
  <2>1. UNCHANGED <<apptable, devicetable, pc, app, todo, source, cmd>>
    BY <1>11 DEF vars, registry
  <2>2. \A n : HandleRequest(n)' = HandleRequest(n)
    BY <2>1, SameNames
  <2>3. ComponentsInv'
    BY <2>1 DEF CrashInv, ComponentsInv, Objects, Pending
  <2>4. SwitchInv'
    BY <2>1, <2>2 DEF CrashInv, SwitchInv, Comps
  <2>. QED  BY <2>3, <2>4 DEF CrashInv
<1>. QED  BY <1>1, <1>2, <1>3, <1>4, <1>5, <1>6, <1>7, <1>8, <1>9, <1>10, <1>11,
             CrashReceive, CrashInstantiate, CrashMove
          DEF Next, Progress

\* A command that is received ends the process only by a name that does not exist.
LEMMA CrashOfReceive ==
  ASSUME TypeOK, HandlesInv, CrashInv, NEW c \in Commands, ReceiveCommand(c),
         pc' = "dead"
  PROVE  KnownCrash(cmd')
<1>. DEFINE toid == HandleRequest(c.name)
<1>1. pc = "idle" /\ cmd' = c /\ DataOK /\ HandlesLive
  BY DEF ReceiveCommand, TypeOK, HandlesInv
<1>2. CASE c.f = "loadapp"
  <2>1. c.name \notin DOMAIN Waveform
    BY <1>2 DEF ReceiveCommand, InstantiateApp
  <2>. QED  BY <1>1, <1>2, <2>1 DEF KnownCrash
<1>3. CASE c.f = "reconstruct"
  <2>1. toid \notin DOMAIN devicetable
    BY <1>3 DEF ReceiveCommand, Reconstruct, Call
  <2>2. c.name \notin Configured
    BY <1>1, <2>1, ConfiguredResolves
  <2>. QED  BY <1>1, <1>3, <2>2 DEF KnownCrash
<1>4. CASE c.f = "config"
  <2>1. toid \in DOMAIN apptable /\ c.comp \notin Objects(toid)
    BY <1>4 DEF ReceiveCommand, Configure, Call, Return
  <2>2. apptable[toid].name = c.name /\ c.name \in DOMAIN Waveform
    BY <1>1, <2>1, FoundByName DEF DataOK, AppBase
  <2>3. ObjectsOf(c.name) \subseteq Objects(toid)
    BY <1>1, <2>1, <2>2 DEF CrashInv, ComponentsInv
  <2>4. c.comp \notin {Waveform[c.name][k].obj : k \in DOMAIN Waveform[c.name]}
    BY <2>1, <2>3 DEF ObjectsOf
  <2>. QED  BY <1>1, <1>4, <2>2, <2>4 DEF KnownCrash
<1>5. CASE c.f \in {"start", "stop"}
  BY <1>5 DEF ReceiveCommand, StartOrStop, Return, Call
<1>6. CASE c.f = "switch"
  BY <1>6 DEF ReceiveCommand, Switch, Return, Call
<1>7. CASE c.f \notin {"start", "stop", "config", "reconstruct", "switch", "loadapp"}
  BY <1>7 DEF ReceiveCommand, Return
<1>. QED  BY <1>2, <1>3, <1>4, <1>5, <1>6, <1>7

\* SSDP_InstantiateApp ends the process at a component whose board is missing.
LEMMA CrashOfInstantiate ==
  ASSUME TypeOK, CrashInv, InstantiateComponent, pc' = "dead"
  PROVE  KnownCrash(cmd')
<1>. DEFINE x == Waveform[cmd.name][Current]
<1>1. /\ pc = "instantiate" /\ cmd.f = "loadapp" /\ DataOK
      /\ todo # {} /\ todo \subseteq DOMAIN Waveform[cmd.name]
  BY DEF InstantiateComponent, CrashInv, SwitchInv, TypeOK, FrameOK
<1>2. Current \in DOMAIN Waveform[cmd.name]
  BY <1>1, CurrentIn
<1>3. HandleRequest(x.dev) \notin DOMAIN devicetable /\ cmd' = cmd
  <2>1. ASSUME NEW id, NEW file, LoadDevice(id, file) PROVE pc' # "dead"
    BY <1>1, <2>1, ProceedCases DEF LoadDevice
  <2>. HIDE DEF x
  <2>. QED  BY <1>1, <2>1 DEF InstantiateComponent, Keep, x
<1>4. x.dev \notin Configured
  BY <1>1, <1>3, ConfiguredResolves
<1>. QED  BY <1>1, <1>2, <1>3, <1>4 DEF KnownCrash

\* A switch ends the process at a board of its lists that is missing.
LEMMA CrashOfLoad ==
  ASSUME TypeOK, CrashInv, Load, pc' = "dead"
  PROVE  KnownCrash(cmd')
<1>1. /\ pc = "load" /\ cmd.f = "switch" /\ DataOK
      /\ todo # {} /\ todo \subseteq DOMAIN source
  BY DEF Load, CrashInv, SwitchInv, TypeOK, FrameOK
<1>2. Comps[Current].target \notin DOMAIN devicetable /\ cmd' = cmd
  <2>1. ASSUME NEW id, NEW file, LoadDevice(id, file) PROVE pc' # "dead"
    BY <1>1, <2>1, ProceedCases DEF LoadDevice
  <2>. QED  BY <1>1, <2>1 DEF Load, Keep
<1>3. Current \in DOMAIN source
  BY <1>1, CurrentIn
<1>4. PICK d \in DOMAIN Partner(cmd.name) : Comps[Current].target = HandleRequest(d)
  BY <1>1, <1>3 DEF CrashInv, SwitchInv
<1>5. d \notin Configured
  BY <1>1, <1>2, <1>4, ConfiguredResolves
<1>. QED  BY <1>1, <1>2, <1>5 DEF KnownCrash

\* Whatever the configuration files name and in whatever order the directory is
\* read: the process ends only at a signal, at a name that does not exist or at a
\* board that is not configured.
THEOREM CrashesCorrect == Spec => OnlyKnownCrashes
<1>1. Init => CrashInv /\ HandlesInv
  BY DEF Init, CrashInv, ComponentsInv, SwitchInv, HandlesInv, HandlesLive, Empty, BEGIN_ID
<1>2. TypeOK /\ HandlesInv /\ [Next]_vars => HandlesInv'
  BY HandlesStep
<1>3. TypeOK /\ HandlesInv /\ CrashInv /\ [Next]_vars => CrashInv'
  BY CrashStep
<1>4. TypeOK /\ HandlesInv /\ CrashInv /\ [Next]_vars =>
        [pc # "dead" /\ pc' = "dead" => KnownCrash(cmd')]_vars
  <2>. SUFFICES ASSUME TypeOK, HandlesInv, CrashInv, Next, pc # "dead", pc' = "dead"
                PROVE  KnownCrash(cmd')
    OBVIOUS
  <2>1. CASE Killed
    BY <2>1 DEF Killed, KnownCrash
  <2>2. CASE InstantiateDevice \/ Listen \/ Restart \/ \E i \in DOMAIN apptable : AbortApp(i)
    BY <2>2 DEF InstantiateDevice, Listen, Restart, Memory, AbortApp
  <2>3. CASE TellComponent \/ TellDevice \/ EndLoop \/ Move \/ Route
    BY <2>3, ProceedCases
       DEF TellComponent, TellDevice, EndLoop, Move, Route, Conclude, Done
  <2>4. CASE Wipe
    BY <2>4, ProceedCases DEF Wipe, LoadDevice
  <2>. QED  BY <2>1, <2>2, <2>3, <2>4, CrashOfReceive, CrashOfInstantiate, CrashOfLoad
            DEF Next, Progress
<1>. QED  BY TypeCorrect, <1>1, <1>2, <1>3, <1>4, PTL DEF Spec, OnlyKnownCrashes
=============================================================================
