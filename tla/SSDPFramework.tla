--------------------------- MODULE SSDPFramework ---------------------------
(***************************************************************************)
(* The single-threaded core of the framework: the handle registry          *)
(* (SSDP_API.cpp), the application objects (base_app.h), the dispatch of   *)
(* commands (commandprocess.cpp), and the boards behind the devices as far *)
(* as the framework can tell them apart.                                   *)
(*                                                                         *)
(* A command is executed as the sequence of exchanges with boards that the *)
(* code performs, one exchange per step, because each of them can be       *)
(* refused, go unanswered for ever, or be preceded by a crash.  How one    *)
(* exchange runs over DDS is the subject of module DspLink.                *)
(***************************************************************************)
EXTENDS Integers, Sequences

CONSTANTS
  Directory,    \* the orders in which readdir may list devices/*.xml
  DeviceType,   \* the devicetype of each of those files: "dsp" or "fpga"
  Waveform,     \* the <app>.xml files: application name |-> its components
  MaxObj,       \* objIds are 1..MaxObj, numbered as the strings are ordered
  Files,        \* the code files waveforms and commands name
  Commands,     \* the commands clients may send
  Answers,      \* how a board may react to an exchange
  MaxHandle,    \* bound: the last handle id a run may hand out
  MaxRestarts   \* bound: how often the operator restarts the process

Boards == DOMAIN DeviceType

Component == [obj : 1..MaxObj, dev : STRING, file : Files]
Command   == [f : STRING, name : STRING, comp : Nat, file : Files]

ASSUME DirectoryAssumption == Directory # {} /\ Directory \subseteq Seq(Boards)
ASSUME DeviceTypeAssumption == DeviceType \in [Boards -> {"dsp", "fpga"}]
                               /\ Boards \subseteq STRING
ASSUME WaveformAssumption ==
         /\ MaxObj \in Nat
         /\ DOMAIN Waveform \subseteq STRING
         /\ \A n \in DOMAIN Waveform : Waveform[n] \in Seq(Component) \ {<<>>}
\* The code looks an application up before a device of the same name; the
\* configuration files keep the two name spaces apart.
ASSUME NamesAssumption == DOMAIN Waveform \cap Boards = {}
ASSUME CommandsAssumption == Commands \subseteq Command
ASSUME AnswersAssumption == Answers \subseteq {"done", "refused", "mute", "silent"}
ASSUME BoundsAssumption == MaxHandle \in Nat /\ MaxRestarts \in Nat

SSDP_OK    == 0
SSDP_ERROR == -1
BEGIN_ID   == 4
SSDP_OE_HANDLE_NAME == "SSDP_OE_V1"

\* The values of a result. SSDPServer::handle_message only asks whether it is
\* SSDP_OK, so one number stands for all that are neither of the two codes.
OtherResult == 1
Register    == {SSDP_OK, SSDP_ERROR, OtherResult}

VARIABLES
  cur_id,       \* the next handle id
  id_in_use,    \* the ids handed out and not given back
  apptable,     \* id |-> [name, comps], comps: objId |-> [file, target]
  devicetable,  \* id |-> name of the board
  files,        \* what is left of the devices directory during start-up
  pc,           \* what the only thread is doing
  cmd,          \* the command being executed, or the last one executed
  app,          \* the object whose method is executing
  todo,         \* components (by objId, or XML position) the loop has left
  used_device,  \* SSDP_InstantiateApp: the boards this application reloaded
  source,       \* X_switch: component |-> the device it moved away from
  result,       \* what ReceiveCommand returned
  board,        \* the hardware: code loaded, program running, data route
  restarts

registry == <<cur_id, id_in_use, apptable, devicetable>>
vars == <<registry, files, pc, cmd, app, todo, used_device, source, result,
          board, restarts>>

NoCommand == [f |-> "none", name |-> "", comp |-> 0, file |-> ""]
Empty     == [x \in {} |-> 0]
Off       == "off"

\* A board on which nothing runs is told from one that runs an application.
ASSUME OffAssumption == Off \notin DOMAIN Waveform

Least(S)    == CHOOSE x \in S : \A y \in S : x <= y
Greatest(S) == CHOOSE x \in S : \A y \in S : y <= x

\* std::map::insert: an existing key keeps its value.
Insert(table, key, value) ==
  [k \in DOMAIN table \cup {key} |->
     IF k \in DOMAIN table THEN table[k] ELSE value]

-----------------------------------------------------------------------------
(* The registry. *)

\* Mistakes: the newest application wins; devices are not searched.
HandleRequestNewest(name) ==
  LET apps == {i \in DOMAIN apptable : apptable[i].name = name}
      devs == {i \in DOMAIN devicetable : devicetable[i] = name}
  IN  IF apps # {} THEN Greatest(apps)
      ELSE IF devs # {} THEN Least(devs)
      ELSE SSDP_ERROR
HandleRequestAppsOnly(name) ==
  LET apps == {i \in DOMAIN apptable : apptable[i].name = name}
  IN  IF apps # {} THEN Least(apps) ELSE SSDP_ERROR

\* Applications first, the lowest id first, then the devices.
HandleRequest(name) ==
  LET apps == {i \in DOMAIN apptable : apptable[i].name = name}
      devs == {i \in DOMAIN devicetable : devicetable[i] = name}
  IN  IF apps # {} THEN Least(apps)
      ELSE IF devs # {} THEN Least(devs)
      ELSE SSDP_ERROR

GetNewHandleID ==
  /\ id_in_use' = id_in_use \cup {cur_id}
  /\ cur_id' = cur_id + 1

-----------------------------------------------------------------------------
(* The boards. An exchange is answered or not, and obeyed or not:          *)
(*   done    the board obeyed and answered                                 *)
(*   refused it answered without obeying, or the bit file is missing; the  *)
(*           framework does not look at the difference                     *)
(*   mute    it obeyed, and the answer never came                          *)
(*   silent  neither                                                       *)

Obeyed(ans)   == ans \in {"done", "mute"}
Answered(ans) == ans \in {"done", "refused"}

Reset == "reset"       \* the data route a freshly loaded bitstream has

\* What the framework can cause on a board, and "flash", the code it boots from.
BoardState == [code  : Files \cup {"flash", "0"},
               run   : DOMAIN Waveform \cup {Off, SSDP_OE_HANDLE_NAME},
               route : {Reset, "switch01_radar", "switch23_radar",
                        "switch0_elec", "switch2_elec"}]

Started(b, by) == [b EXCEPT !.run = by]
\* A DSP is told "stop", an FPGA "stop_<application>".
Halted(type, b, by) ==
  IF type = "fpga" /\ b.run # by THEN b ELSE [b EXCEPT !.run = Off]
Loaded(file)   == [code |-> file, run |-> Off, route |-> Reset]
Routed(b, msg) == [b EXCEPT !.route = msg]

\* The framework waits for the answer without a time limit.
Proceed(ans, rest) ==
  IF Answered(ans) THEN todo' = rest /\ pc' = pc
                   ELSE todo' = todo /\ pc' = "hung"

Apply(name, ans, after) ==
  board' = IF Obeyed(ans) THEN [board EXCEPT ![name] = after] ELSE board

-----------------------------------------------------------------------------
(* Start-up, crash and restart. *)

Init ==
  /\ cur_id = BEGIN_ID /\ id_in_use = {}
  /\ apptable = Empty /\ devicetable = Empty
  /\ files \in Directory
  /\ pc = "boot" /\ cmd = NoCommand /\ app = 0 /\ todo = {}
  /\ used_device = {} /\ source = Empty /\ result = SSDP_OK
  /\ board = [b \in Boards |-> Loaded("flash")]
  /\ restarts = 0

InstantiateDevice ==
  /\ pc = "boot" /\ files # <<>>
  /\ devicetable' = Insert(devicetable, cur_id, Head(files))
  /\ GetNewHandleID
  /\ files' = Tail(files)
  /\ UNCHANGED <<apptable, pc, cmd, app, todo, used_device, source, result,
                 board, restarts>>

Listen ==
  /\ pc = "boot" /\ files = <<>>
  /\ pc' = "idle"
  /\ UNCHANGED <<registry, files, cmd, app, todo, used_device, source,
                 result, board, restarts>>

\* The process is gone, the boards go on as they are.
Memory(newpc) ==
  /\ cur_id' = BEGIN_ID /\ id_in_use' = {}
  /\ apptable' = Empty /\ devicetable' = Empty
  /\ pc' = newpc /\ app' = 0 /\ todo' = {} /\ used_device' = {}
  /\ source' = Empty /\ result' = SSDP_OK

Crash == Memory("dead") /\ UNCHANGED <<files, board, restarts>>

Restart ==
  /\ pc \in {"dead", "hung", "spin"} /\ restarts < MaxRestarts
  /\ Memory("boot")
  /\ files' \in Directory
  /\ cmd' = NoCommand
  /\ restarts' = restarts + 1
  /\ UNCHANGED board

\* Answering a client that is gone raises SIGPIPE; a failed recv exits.
Killed == pc = "idle" /\ Crash /\ cmd' = NoCommand

-----------------------------------------------------------------------------
(* CmdProcess::ReceiveCommand: one command at a time, to its end. *)

Locals == <<app, todo, used_device, source>>

Return(res) ==
  /\ result' = res /\ pc' = "idle"
  /\ UNCHANGED <<registry, Locals, board>>

\* Enter the method of the object toid that loops over the components rest.
Call(method, toid, rest) ==
  /\ pc' = method /\ app' = toid /\ todo' = rest
  /\ result' = SSDP_OK
  /\ UNCHANGED <<registry, used_device, source, board>>

Objects(toid) == DOMAIN apptable[toid].comps

\* Mistake: every application is treated as DVB.
ReachedFirst(name, toid) == {c \in Objects(toid) : c = Least(Objects(toid))}

\* The components that SSDP_Start and SSDP_Stop reach: DVB_Start and DVB_Stop
\* look at the first component only.
Reached(name, toid) ==
  {c \in Objects(toid) : name = "dvb-s2" => c = Least(Objects(toid))}

\* An unknown name is reported as a success.
StartOrStop(c, toid) ==
  \/ toid = SSDP_ERROR /\ Return(SSDP_OK)
  \/ toid \in DOMAIN apptable /\ Call(c.f, toid, Reached(c.name, toid))
  \/ toid \in DOMAIN devicetable /\ Call("device", toid, {})

\* An unknown component id is inserted as a null pointer and followed.
Configure(c, toid) ==
  \/ toid = SSDP_ERROR /\ Return(SSDP_ERROR)
  \/ /\ toid \in DOMAIN apptable /\ c.comp \in Objects(toid)
     /\ Call("device", apptable[toid].comps[c.comp].target, {})
  \/ toid \in DOMAIN apptable /\ c.comp \notin Objects(toid) /\ Crash
  \/ toid \in DOMAIN devicetable /\ Call("device", toid, {})

\* devicetable[toid] of anything but a device is a null pointer, followed.
Reconstruct(toid) ==
  IF toid \in DOMAIN devicetable THEN Call("device", toid, {}) ELSE Crash

\* An application other than the two that can move, or a device, falls off the
\* end of SSDP_Switch: the result is whatever the register holds.
Switch(c, toid) ==
  \/ toid = SSDP_ERROR /\ Return(SSDP_OK)
  \/ /\ toid \in DOMAIN apptable /\ c.name \in {"sar", "elec_reco"}
     /\ Call("stop", toid, Objects(toid))
  \/ /\ toid # SSDP_ERROR
     /\ toid \notin DOMAIN apptable \/ c.name \notin {"sar", "elec_reco"}
     /\ \E residue \in Register : Return(residue)

\* A missing <app>.xml throws out of main. An application of the same name is
\* not looked for.
InstantiateApp(name) ==
  IF name \notin DOMAIN Waveform THEN Crash
  ELSE /\ cur_id < MaxHandle
       /\ apptable' = Insert(apptable, cur_id, [name |-> name, comps |-> Empty])
       /\ GetNewHandleID
       /\ pc' = "instantiate" /\ app' = cur_id
       /\ todo' = DOMAIN Waveform[name] /\ used_device' = {}
       /\ result' = SSDP_OK
       /\ UNCHANGED <<devicetable, source, board>>

ReceiveCommand(c) ==
  LET toid == HandleRequest(c.name) IN
  /\ pc = "idle"
  /\ cmd' = c
  /\ CASE c.f \in {"start", "stop"} -> StartOrStop(c, toid)
       [] c.f = "config"            -> Configure(c, toid)
       [] c.f = "reconstruct"       -> Reconstruct(toid)
       [] c.f = "loadapp"           -> InstantiateApp(c.name)
       [] c.f = "switch"            -> Switch(c, toid)
       [] OTHER                     -> Return(SSDP_ERROR)
  /\ UNCHANGED <<files, restarts>>

\* Mistake: the id stays in use.
AbortAppKeepsId(toid) ==
  /\ pc = "idle" /\ toid \in DOMAIN apptable
  /\ apptable' = [i \in DOMAIN apptable \ {toid} |-> apptable[i]]
  /\ cmd' = NoCommand
  /\ UNCHANGED <<cur_id, id_in_use, devicetable, files, pc, Locals, result,
                 board, restarts>>

\* Called through the function table only, by code inside the process.
AbortApp(toid) ==
  /\ pc = "idle" /\ toid \in DOMAIN apptable
  /\ apptable' = [i \in DOMAIN apptable \ {toid} |-> apptable[i]]
  /\ id_in_use' = id_in_use \ {toid}
  /\ cmd' = NoCommand
  /\ UNCHANGED <<cur_id, devicetable, files, pc, Locals, result, board,
                 restarts>>

-----------------------------------------------------------------------------
(* The exchanges of the command in progress. *)

Comps  == apptable[app].comps
Board(id) == devicetable[id]

\* Mistake: SAR_Stop iterates like SAR_Start.
CurrentSarBackwards ==
  IF pc = "instantiate" \/ (pc = "start" /\ cmd.name # "sar")
  THEN Least(todo) ELSE Greatest(todo)

\* std::map iterates in key order, its reverse iterators the other way.
Current ==
  CASE pc = "instantiate" -> Least(todo)
    [] pc = "start" -> IF cmd.name = "sar" THEN Greatest(todo) ELSE Least(todo)
    [] pc = "stop"  -> IF cmd.name = "sar" THEN Least(todo) ELSE Greatest(todo)
    [] pc \in {"wipe", "load"} -> Greatest(todo)

Rest == todo \ {Current}

Keep == UNCHANGED <<cur_id, id_in_use, devicetable, files, cmd, result,
                    restarts>>

\* The method returns, and its local variables are gone.
Done ==
  pc' = "idle" /\ app' = 0 /\ todo' = {} /\ used_device' = {} /\ source' = Empty

Conclude(ans) ==
  IF Answered(ans) THEN Done ELSE pc' = "hung" /\ UNCHANGED Locals

LoadDevice(id, file) ==
  \E ans \in Answers : Apply(Board(id), ans, Loaded(file)) /\ Proceed(ans, Rest)

\* One component of the XML file: resolve its device, add it, and load the
\* device unless this application already did.
InstantiateComponent ==
  /\ pc = "instantiate" /\ todo # {}
  /\ LET x     == Waveform[cmd.name][Current]
         devid == HandleRequest(x.dev)
         added == [apptable EXCEPT ![app].comps =
                     Insert(@, x.obj, [file |-> x.file, target |-> devid])]
     IN  \/ /\ x.dev \in used_device
            /\ apptable' = added /\ todo' = Rest
            /\ UNCHANGED <<pc, app, used_device, source, board>> /\ Keep
         \/ /\ x.dev \notin used_device /\ devid \in DOMAIN devicetable
            /\ apptable' = added
            /\ used_device' = used_device \cup {x.dev}
            /\ LoadDevice(devid, x.file)
            /\ UNCHANGED <<app, source>> /\ Keep
         \/ /\ x.dev \notin used_device /\ devid \notin DOMAIN devicetable
            /\ Crash /\ UNCHANGED cmd

\* SAR_Start, ELEC_Start, DVB_Start, SAR_Stop, ELEC_Stop, DVB_Stop: one
\* component. A target that is no device is skipped.
TellComponent ==
  /\ pc \in {"start", "stop"} /\ todo # {}
  /\ LET id == Comps[Current].target
         b  == board[Board(id)]
     IN  IF id \in DOMAIN devicetable
         THEN \E ans \in Answers :
                /\ Proceed(ans, Rest)
                /\ Apply(Board(id), ans,
                         IF pc = "start" THEN Started(b, apptable[app].name)
                         ELSE Halted(DeviceType[Board(id)], b, apptable[app].name))
         ELSE todo' = Rest /\ UNCHANGED <<pc, board>>
  /\ UNCHANGED <<apptable, app, used_device, source>> /\ Keep

\* A command for one device.
TellDevice ==
  /\ pc = "device"
  /\ LET b == board[Board(app)] IN
     \E ans \in Answers :
       /\ Apply(Board(app), ans,
                CASE cmd.f = "start"  -> Started(b, SSDP_OE_HANDLE_NAME)
                  [] cmd.f = "stop"   -> Halted(DeviceType[Board(app)], b,
                                                SSDP_OE_HANDLE_NAME)
                  [] cmd.f = "reconstruct" -> Loaded(cmd.file)
                  [] cmd.f = "config" -> b)
       /\ Conclude(ans)
  /\ UNCHANGED apptable /\ Keep

\* Mistake: the second loop of a switch goes over every component.
EndLoopLoadsAll ==
  /\ todo = {}
  /\ \/ /\ pc \in {"instantiate", "start"} \/ (pc = "stop" /\ cmd.f = "stop")
        /\ Done
     \/ /\ pc = "stop" /\ cmd.f = "switch" /\ pc' = "move"
        /\ UNCHANGED Locals
     \/ /\ pc = "wipe" /\ pc' = "load" /\ todo' = DOMAIN Comps
        /\ UNCHANGED <<app, used_device, source>>
     \/ pc = "load" /\ pc' = "route" /\ UNCHANGED Locals
  /\ UNCHANGED <<apptable, board>> /\ Keep

\* The end of a loop, and what the method does next.
EndLoop ==
  /\ todo = {}
  /\ \/ /\ pc \in {"instantiate", "start"} \/ (pc = "stop" /\ cmd.f = "stop")
        /\ Done
     \/ /\ pc = "stop" /\ cmd.f = "switch" /\ pc' = "move"
        /\ UNCHANGED Locals
     \/ /\ pc = "wipe" /\ pc' = "load" /\ todo' = DOMAIN source
        /\ UNCHANGED <<app, used_device, source>>
     \/ pc = "load" /\ pc' = "route" /\ UNCHANGED Locals
  /\ UNCHANGED <<apptable, board>> /\ Keep

\* Mistake: Elec_switch does not know the way back.
PartnerOneWay(name) ==
  CASE name = "sar" -> [dsp1 |-> "dsp3", dsp2 |-> "dsp4",
                        dsp3 |-> "dsp1", dsp4 |-> "dsp2"]
    [] name = "elec_reco" -> [dsp1 |-> "dsp3"]
    [] OTHER -> Empty

\* Where Sar_switch and Elec_switch take a component from each board.
Partner(name) ==
  CASE name = "sar" -> [dsp1 |-> "dsp3", dsp2 |-> "dsp4",
                        dsp3 |-> "dsp1", dsp4 |-> "dsp2"]
    [] name = "elec_reco" -> [dsp1 |-> "dsp3", dsp3 |-> "dsp1"]
    [] OTHER -> Empty

\* The boards of the list that the code's comparison of ids picks for id.
Movable(id) == {d \in DOMAIN Partner(cmd.name) : HandleRequest(d) = id}
Destination(id) ==
  HandleRequest(Partner(cmd.name)[CHOOSE d \in Movable(id) : TRUE])

\* Components on boards the code does not list: its loop stays at the last one.
Stuck == {c \in DOMAIN Comps : /\ Movable(Comps[c].target) = {}
                               /\ Comps[c].target # HandleRequest("fpga1")}
Moving == {c \in DOMAIN Comps : /\ Movable(Comps[c].target) # {}
                                /\ \A s \in Stuck : s < c}

Moved(comps) ==
  [c \in DOMAIN comps |->
     IF c \in Moving
     THEN [comps[c] EXCEPT !.target = Destination(comps[c].target)]
     ELSE comps[c]]

\* The first loop of Sar_switch and Elec_switch, from the last component to the
\* first.
Move ==
  /\ pc = "move"
  /\ pc' = IF Stuck # {} THEN "spin" ELSE "wipe"
  /\ todo' = Moving
  /\ source' = [c \in Moving |-> Comps[c].target]
  /\ apptable' = [apptable EXCEPT ![app].comps = Moved(@)]
  /\ UNCHANGED <<app, used_device, board>> /\ Keep

\* Every board moved away from gets the code "0" ...
Wipe ==
  /\ pc = "wipe" /\ todo # {}
  /\ LoadDevice(source[Current], "0")
  /\ UNCHANGED <<apptable, app, used_device, source>> /\ Keep

\* Mistake: an unknown board is skipped and the component left on it.
LoadSkipsUnknown ==
  /\ pc = "load" /\ todo # {}
  /\ LET id == Comps[Current].target IN
     IF id \in DOMAIN devicetable
     THEN LoadDevice(id, Comps[Greatest(DOMAIN Comps)].file)
     ELSE todo' = Rest /\ UNCHANGED <<pc, board>>
  /\ UNCHANGED <<apptable, app, used_device, source>> /\ Keep

\* ... then every board moved to gets the file of the last component.
Load ==
  /\ pc = "load" /\ todo # {}
  /\ LET id == Comps[Current].target IN
     \/ /\ id \in DOMAIN devicetable
        /\ LoadDevice(id, Comps[Greatest(DOMAIN Comps)].file)
        /\ UNCHANGED <<apptable, app, used_device, source>> /\ Keep
     \/ id \notin DOMAIN devicetable /\ Crash /\ UNCHANGED cmd

\* Mistake: the message names the half the application left.
RouteMessageOfSource(leads) ==
  LET to == Comps[Least(leads)].target
  IN  CASE cmd.name = "sar" -> IF to = HandleRequest("dsp1")
                               THEN "switch23_radar" ELSE "switch01_radar"
        [] OTHER            -> IF to = HandleRequest("dsp1")
                               THEN "switch2_elec" ELSE "switch0_elec"

\* The FPGA is told where the samples go, by the last component that moved to
\* dsp1 or dsp3.
RouteMessage(leads) ==
  LET to == Comps[Least(leads)].target
  IN  CASE cmd.name = "sar" -> IF to = HandleRequest("dsp1")
                               THEN "switch01_radar" ELSE "switch23_radar"
        [] OTHER            -> IF to = HandleRequest("dsp1")
                               THEN "switch0_elec" ELSE "switch2_elec"

Route ==
  /\ pc = "route"
  /\ LET fpga  == HandleRequest("fpga1")
         leads == {c \in DOMAIN source : Comps[c].target \in
                     {HandleRequest("dsp1"), HandleRequest("dsp3")}}
     IN  IF leads # {} /\ fpga \in DOMAIN devicetable
         THEN \E ans \in Answers :
                /\ Apply(Board(fpga), ans,
                         Routed(board[Board(fpga)], RouteMessage(leads)))
                /\ Conclude(ans)
         ELSE Done /\ UNCHANGED board
  /\ UNCHANGED apptable /\ Keep

-----------------------------------------------------------------------------

\* The steps of the only thread, once it has something to do.
Progress ==
  \/ InstantiateDevice \/ Listen
  \/ InstantiateComponent \/ TellComponent \/ TellDevice
  \/ EndLoop \/ Move \/ Wipe \/ Load \/ Route

Next ==
  \/ Progress
  \/ \E c \in Commands : ReceiveCommand(c)
  \/ \E i \in DOMAIN apptable : AbortApp(i)
  \/ Killed
  \/ Restart

\* The thread runs on; clients, crashes and restarts happen or not.
Spec == Init /\ [][Next]_vars /\ WF_vars(Progress)

-----------------------------------------------------------------------------
(* Properties. *)

ComponentList(comps) ==
  /\ comps = [c \in DOMAIN comps |-> comps[c]]
  /\ DOMAIN comps \subseteq 1..MaxObj
  /\ \A c \in DOMAIN comps :
       comps[c] \in [file : Files, target : Nat \cup {SSDP_ERROR}]

AppBase(a) ==
  /\ a = [name |-> a.name, comps |-> a.comps]
  /\ a.name \in DOMAIN Waveform
  /\ ComponentList(a.comps)

Table(t) == t = [i \in DOMAIN t |-> t[i]] /\ DOMAIN t \subseteq Nat

\* Every variable stays in its type.
DataOK ==
  /\ cur_id \in Nat /\ id_in_use \subseteq Nat
  /\ Table(apptable) /\ \A i \in DOMAIN apptable : AppBase(apptable[i])
  /\ Table(devicetable) /\ \A i \in DOMAIN devicetable : devicetable[i] \in Boards
  /\ files \in Seq(Boards)
  /\ pc \in {"boot", "idle", "instantiate", "start", "stop", "device", "move",
             "wipe", "load", "route", "dead", "hung", "spin"}
  /\ cmd \in Commands \cup {NoCommand}
  /\ app \in Nat \cup {SSDP_ERROR} /\ todo \subseteq Nat
  /\ used_device \subseteq STRING /\ DOMAIN source \subseteq 1..MaxObj
  /\ result \in Register
  /\ board \in [Boards -> BoardState]
  /\ restarts \in 0..MaxRestarts

\* What the method in progress relies on: its object exists, and its loop only
\* visits components the object has: std::map iterators and find() results are
\* used without a test.
FrameOK ==
  /\ pc \in {"instantiate", "start", "stop", "move", "wipe", "load", "route"} =>
       app \in DOMAIN apptable
  /\ pc = "instantiate" => /\ cmd.name \in DOMAIN Waveform
                           /\ todo \subseteq DOMAIN Waveform[cmd.name]
  /\ pc \in {"start", "stop"} => todo \subseteq DOMAIN Comps
  /\ pc \in {"wipe", "load"} => todo \subseteq DOMAIN source
  /\ pc \in {"wipe", "load", "route"} => DOMAIN source \subseteq DOMAIN Comps
  /\ pc = "device" => /\ cmd \in Commands
                      /\ cmd.f \in {"start", "stop", "reconstruct", "config"}

\* Type correctness: every variable stays in its type, and the loops of the
\* methods stay within the objects they iterate over.
TypeOK == DataOK /\ FrameOK

\* SSDP_ValidateHandleID accepts exactly the ids of the objects that exist, no
\* id names both an application and a device (SSDP_Start, SSDP_Stop and
\* SSDP_Configure ask the application table first), and none was handed out
\* that GetNewHandleID could hand out again.
HandlesLive ==
  /\ id_in_use = DOMAIN apptable \cup DOMAIN devicetable
  /\ DOMAIN apptable \cap DOMAIN devicetable = {}
  /\ id_in_use \subseteq BEGIN_ID..(cur_id - 1)

\* A component never designates a device that does not exist, except inside a
\* switch to a board that is not configured, which is about to crash (or never
\* gets that far): SSDP_LoadDevie would follow a null pointer at the next use.
NoDanglingTarget ==
  pc \notin {"wipe", "load", "hung", "spin"} =>
    \A i \in DOMAIN apptable : \A c \in DOMAIN apptable[i].comps :
      apptable[i].comps[c].target \in DOMAIN devicetable

\* Where the XML file of application n puts component c. add_component keeps
\* the first of two with the same objId.
HomeBoard(n, c) ==
  Waveform[n][Least({k \in DOMAIN Waveform[n] : Waveform[n][k].obj = c})].dev

AwayBoard(n, c) ==
  LET home == HomeBoard(n, c)
  IN  IF home \in DOMAIN Partner(n) THEN Partner(n)[home] ELSE home

PlacedAt(i, Where(_, _)) ==
  \A c \in DOMAIN apptable[i].comps :
    apptable[i].comps[c].target = HandleRequest(Where(apptable[i].name, c))

\* An application moves as a whole: its components are all where its XML file
\* puts them or all on the partner boards, however often it was switched. An
\* instance hidden behind an older one of the same name is never moved.
PlacementWhole ==
  \A i \in DOMAIN apptable :
    \/ PlacedAt(i, HomeBoard)
    \/ PlacedAt(i, AwayBoard) /\ i = HandleRequest(apptable[i].name)

Configured == {devicetable[i] : i \in DOMAIN devicetable}

KnownCrash(c) ==
  \/ c = NoCommand
  \/ /\ c.f = "loadapp"
     /\ c.name \in DOMAIN Waveform =>
          \E k \in DOMAIN Waveform[c.name] : Waveform[c.name][k].dev \notin Configured
  \/ c.f = "switch" /\ ~(DOMAIN Partner(c.name) \subseteq Configured)
  \/ c.f = "reconstruct" /\ c.name \notin Configured
  \/ /\ c.f = "config" /\ c.name \in DOMAIN Waveform
     /\ c.comp \notin {Waveform[c.name][k].obj : k \in DOMAIN Waveform[c.name]}

\* A command brings the server down only when it names something that does not
\* exist - a waveform file, a device to reconstruct, a component to configure -
\* or needs a board that is not configured.
OnlyKnownCrashes == [][pc # "dead" /\ pc' = "dead" => KnownCrash(cmd')]_vars

Served(f) ==
  /\ pc = "idle" /\ cmd.f = f
  /\ HandleRequest(cmd.name) \in DOMAIN apptable

BoardsOf(i) ==
  {devicetable[apptable[i].comps[c].target] : c \in DOMAIN apptable[i].comps}

\* Boards that do as they are told: after a start every board of the
\* application runs, after a stop none of them runs it.
CommandReaches ==
  LET i == HandleRequest(cmd.name) IN
  /\ Served("start") => \A b \in BoardsOf(i) : board[b].run # Off
  /\ Served("stop")  => \A b \in BoardsOf(i) : board[b].run # cmd.name

\* After a switch the boards moved away from hold the code "0" and do not run,
\* those moved to hold the application's code, and the FPGA's route leads there.
SwitchDone ==
  (Served("switch") /\ cmd.name \in {"sar", "elec_reco"}) =>
    LET i    == HandleRequest(cmd.name)
        last == apptable[i].comps[Greatest(DOMAIN apptable[i].comps)].file
        dsps == BoardsOf(i) \cap DOMAIN Partner(cmd.name)
    IN  /\ \A d \in dsps :
              /\ board[d].code = last
              /\ board[Partner(cmd.name)[d]] = Loaded("0")
        /\ "dsp1" \in dsps => board["fpga1"].route \in {"switch01_radar", "switch0_elec"}
        /\ "dsp3" \in dsps => board["fpga1"].route \in {"switch23_radar", "switch2_elec"}

RoutedTo(route) ==
  IF route = "switch23_radar" THEN {"dsp3", "dsp4"} ELSE {"dsp1", "dsp2"}

\* One sar instance per process: whenever the FPGA streams radar samples, both
\* DSPs its route leads to run the sar code - in the middle of any start, stop,
\* load or switch, after a board stopped answering, and after a restart of the
\* framework in any of these. SAR_Start goes through the components backwards
\* and SAR_Stop forwards for this.
StreamSafe ==
  board["fpga1"].run = "sar" =>
    \A d \in RoutedTo(board["fpga1"].route) :
      board[d].code = "2" /\ board[d].run # Off

\* A command ends: with its answer, with a crash, or in the endless wait for a
\* board that does not answer. It does not loop for ever.
CommandEnds == [](pc # "idle" => <>(pc \in {"idle", "dead", "hung"}))

\* "When an application of the same name exists, delete it first"
\* (SSDP_API.cpp:143).
UniqueAppNames ==
  \A i, j \in DOMAIN apptable :
    apptable[i].name = apptable[j].name => i = j
=============================================================================
