------------------------ MODULE SSDPCommands_proofs ------------------------
(* What commands leave behind, for every set of configuration files and     *)
(* commands: where the components of an application are, what its boards do  *)
(* after a start or a stop, and what a switch has made of them.             *)
EXTENDS SSDPFramework_proofs

-----------------------------------------------------------------------------
(* PlacementWhole is not inductive: whether add_component keeps a component *)
(* with its home board is decided by the components read before, and        *)
(* whether a switch moves the oldest instance by the command that began it.  *)

Switching == (pc = "stop" /\ cmd.f = "switch") \/ pc = "move"

PlacementInv ==
  /\ pc = "boot" => DOMAIN apptable = {}
  /\ \A i \in DOMAIN apptable : Objects(i) \subseteq ObjectsOf(apptable[i].name)
  /\ pc # "spin" => PlacementWhole
  /\ pc = "instantiate" =>
       /\ apptable[app].name = cmd.name /\ PlacedAt(app, HomeBoard)
       /\ \A k \in DOMAIN Waveform[cmd.name] \ todo :
            Waveform[cmd.name][k].obj \in Objects(app)
  /\ Switching => cmd.name \in {"sar", "elec_reco"} /\ app = HandleRequest(cmd.name)

-----------------------------------------------------------------------------
(* What the names of boards lead to.                                        *)

\* A device found under a name has that name, and it is the name of a board.
LEMMA FoundBoard ==
  ASSUME DataOK, HandlesLive, NEW name, HandleRequest(name) \in DOMAIN devicetable
  PROVE  devicetable[HandleRequest(name)] = name /\ name \in Boards
<1>. DEFINE apps == {i \in DOMAIN apptable : apptable[i].name = name}
            devs == {i \in DOMAIN devicetable : devicetable[i] = name}
<1>1. apps # {} => Least(apps) \in apps
  BY LeastIn, apps \in SUBSET Nat DEF DataOK, Table
<1>2. devs # {} => Least(devs) \in devs
  BY LeastIn, devs \in SUBSET Nat DEF DataOK, Table
<1>3. SSDP_ERROR \notin DOMAIN devicetable
  BY DEF DataOK, Table, SSDP_ERROR
<1>4. devicetable[HandleRequest(name)] = name
  BY <1>1, <1>2, <1>3 DEF HandleRequest, HandlesLive
<1>. QED  BY <1>4 DEF DataOK

\* While the devices stay, a name that leads to one leads to it, whatever
\* applications come and go: no application bears the name of a board.
LEMMA SameBoard ==
  ASSUME DataOK, DataOK', HandlesLive, UNCHANGED devicetable,
         NEW name, HandleRequest(name) \in DOMAIN devicetable
  PROVE  HandleRequest(name)' = HandleRequest(name)
<1>1. name \notin DOMAIN Waveform
  BY FoundBoard, NamesAssumption
<1>2. {i \in DOMAIN apptable : apptable[i].name = name} = {}
  BY <1>1 DEF DataOK, AppBase
<1>3. {i \in DOMAIN apptable' : apptable'[i].name = name} = {}
  BY <1>1 DEF DataOK, AppBase
<1>. QED  BY <1>2, <1>3 DEF HandleRequest

\* The oldest instance of an application stays the one its name leads to, while
\* it exists and no older one of the name appears.
LEMMA SameOldest ==
  ASSUME DataOK, DataOK', NEW name, NEW i \in DOMAIN apptable \cap DOMAIN apptable',
         apptable[i].name = name, apptable'[i].name = name, i = HandleRequest(name),
         \A j \in DOMAIN apptable' :
           j < i => j \in DOMAIN apptable /\ apptable'[j].name = apptable[j].name
  PROVE  i = HandleRequest(name)'
<1>. DEFINE apps == {j \in DOMAIN apptable : apptable[j].name = name}
            then == {j \in DOMAIN apptable' : apptable'[j].name = name}
<1>1. /\ apps \in SUBSET Nat /\ then \in SUBSET Nat
      /\ i \in apps /\ i \in then
  BY DEF DataOK, Table
<1>2. i = Least(apps)
  BY <1>1 DEF HandleRequest
<1>3. Least(apps) \in apps /\ \A y \in apps : Least(apps) <= y
  <2>. HIDE DEF apps
  <2>. QED  BY <1>1, LeastIn
<1>4. Least(then) \in then /\ \A y \in then : Least(then) <= y
  <2>. HIDE DEF then
  <2>. QED  BY <1>1, LeastIn
<1>5. Least(then) < i => Least(then) \in apps
  BY <1>4
<1>6. Least(then) = i
  <2>1. Least(then) \in Nat /\ i \in Nat /\ Least(then) <= i
    BY <1>1, <1>4
  <2>2. ~(Least(then) < i)
    <3>. HIDE DEF apps, then
    <3>. QED  BY <1>2, <1>3, <1>5, <2>1
  <2>. HIDE DEF then
  <2>. QED  BY <2>1, <2>2
<1>7. then # {}
  BY <1>1
<1>. QED  BY <1>6, <1>7 DEF HandleRequest

\* An application that stays as it is, on devices, stays where it is placed.
LEMMA PlacedKept ==
  ASSUME DataOK, DataOK', HandlesLive, UNCHANGED devicetable,
         NEW i \in DOMAIN apptable \cap DOMAIN apptable', apptable'[i] = apptable[i],
         \A c \in Objects(i) : apptable[i].comps[c].target \in DOMAIN devicetable
  PROVE  /\ PlacedAt(i, HomeBoard) => PlacedAt(i, HomeBoard)'
         /\ PlacedAt(i, AwayBoard) => PlacedAt(i, AwayBoard)'
<1>1. ASSUME NEW c \in Objects(i), NEW name,
             apptable[i].comps[c].target = HandleRequest(name)
      PROVE  apptable'[i].comps[c].target = HandleRequest(name)'
  <2>1. HandleRequest(name) \in DOMAIN devicetable
    BY <1>1
  <2>. QED  BY <1>1, <2>1, SameBoard
<1>2. DOMAIN apptable'[i].comps = Objects(i) /\ DOMAIN apptable[i].comps = Objects(i)
  BY DEF Objects
<1>. QED  BY <1>1, <1>2 DEF PlacedAt

-----------------------------------------------------------------------------
(* The steps.                                                               *)

\* A step that touches neither table and enters no method that places components.
LEMMA PlacementKept ==
  ASSUME PlacementInv, UNCHANGED <<apptable, devicetable>>, pc # "spin",
         pc' = "boot" => pc = "boot", pc' # "instantiate",
         Switching' => /\ cmd'.name \in {"sar", "elec_reco"}
                       /\ app' = HandleRequest(cmd'.name)
  PROVE  PlacementInv'
<1>1. \A n : HandleRequest(n)' = HandleRequest(n)
  BY SameNames
<1>2. \A i \in DOMAIN apptable :
        /\ PlacedAt(i, HomeBoard)' <=> PlacedAt(i, HomeBoard)
        /\ PlacedAt(i, AwayBoard)' <=> PlacedAt(i, AwayBoard)
  BY <1>1 DEF PlacedAt
<1>3. PlacementWhole'
  BY <1>1, <1>2 DEF PlacementInv, PlacementWhole
<1>4. \A i \in DOMAIN apptable : Objects(i)' = Objects(i)
  BY DEF Objects
<1>. QED  BY <1>1, <1>3, <1>4 DEF PlacementInv

\* A process that has just started or just ended has no application.
LEMMA PlacementMemory ==
  ASSUME NEW newpc \in {"boot", "dead"}, Memory(newpc)
  PROVE  PlacementInv'
BY EmptyTables DEF Memory, PlacementInv, PlacementWhole, Switching

\* Receiving a command: a new application has no component yet, and a switch is
\* begun with the oldest instance of one of the two applications that can move.
LEMMA PlacementReceive ==
  ASSUME TypeOK, TypeOK', HandlesInv, TargetsInv, PlacementInv,
         NEW c \in Commands, ReceiveCommand(c)
  PROVE  PlacementInv'
<1>1. pc = "idle" /\ cmd' = c /\ DataOK /\ DataOK' /\ HandlesLive
  BY DEF ReceiveCommand, TypeOK, HandlesInv
<1>2. CASE Memory("dead")
  BY <1>2, PlacementMemory
<1>3. CASE UNCHANGED registry /\ pc' \in {"idle", "start", "stop", "device"}
  <2>1. Switching' => /\ c.name \in {"sar", "elec_reco"}
                      /\ app' = HandleRequest(c.name)
    BY <1>1, <1>3 DEF Switching, ReceiveCommand, Switch, Call, Return
  <2>. QED  BY <1>1, <1>3, <2>1, PlacementKept DEF registry
<1>4. CASE pc' = "instantiate"
  <2>. DEFINE new == [name |-> c.name, comps |-> Empty]
  <2>1. c.f = "loadapp"
    BY <1>1, <1>4
       DEF ReceiveCommand, StartOrStop, Configure, Reconstruct, Switch,
           Return, Call, Crash, Memory
  <2>2. /\ apptable' = Insert(apptable, cur_id, new) /\ app' = cur_id
        /\ todo' = DOMAIN Waveform[c.name] /\ UNCHANGED devicetable
    BY <1>4, <2>1 DEF ReceiveCommand, InstantiateApp, Crash, Memory
  <2>0. PICK id : id = cur_id
    OBVIOUS
  <2>3. id \notin DOMAIN apptable /\ id \in Nat
        /\ \A i \in DOMAIN apptable : i < id
    BY <2>0 DEF TypeOK, DataOK, HandlesInv, HandlesLive, BEGIN_ID
  <2>4. /\ DOMAIN apptable' = DOMAIN apptable \cup {id}
        /\ apptable'[id] = new
        /\ \A i \in DOMAIN apptable : apptable'[i] = apptable[i]
    <3>. HIDE DEF new
    <3>. QED  BY <2>0, <2>2, <2>3 DEF Insert
  <2>5. Objects(id)' = {} /\ apptable'[id].name = c.name
        /\ DOMAIN apptable'[id].comps = {}
    BY <2>4, EmptyTables DEF Objects
  <2>. HIDE DEF new
  <2>6. PlacedAt(id, HomeBoard)'
    BY <2>5 DEF PlacedAt
  <2>7. ASSUME NEW i \in DOMAIN apptable
        PROVE  /\ Objects(i)' \subseteq ObjectsOf(apptable'[i].name)
               /\ \/ PlacedAt(i, HomeBoard)'
                  \/ PlacedAt(i, AwayBoard)' /\ i = HandleRequest(apptable[i].name)'
    <3>1. i \in DOMAIN apptable \cap DOMAIN apptable' /\ apptable'[i] = apptable[i]
      BY <2>4
    <3>2. \A k \in Objects(i) : apptable[i].comps[k].target \in DOMAIN devicetable
      BY <1>1 DEF TargetsInv, Unsettled, Objects
    <3>3. /\ PlacedAt(i, HomeBoard) => PlacedAt(i, HomeBoard)'
          /\ PlacedAt(i, AwayBoard) => PlacedAt(i, AwayBoard)'
      BY <1>1, <2>2, <3>1, <3>2, PlacedKept
    <3>4. ASSUME i = HandleRequest(apptable[i].name)
          PROVE  i = HandleRequest(apptable[i].name)'
      <4>1. \A j \in DOMAIN apptable' :
              j < i => j \in DOMAIN apptable /\ apptable'[j].name = apptable[j].name
        BY <1>1, <2>3, <2>4 DEF DataOK, Table
      <4>2. PICK name : name = apptable[i].name /\ name = apptable'[i].name
        BY <3>1
      <4>3. i = HandleRequest(name)'
        BY <1>1, <3>1, <3>4, <4>1, <4>2, SameOldest
      <4>. QED  BY <4>2, <4>3
    <3>5. Objects(i)' = Objects(i)
      BY <3>1 DEF Objects
    <3>. QED  BY <1>1, <3>1, <3>3, <3>4, <3>5 DEF PlacementInv, PlacementWhole
  <2>8. PlacementWhole'
    BY <2>4, <2>6, <2>7 DEF PlacementWhole
  <2>9. \A i \in DOMAIN apptable' : Objects(i)' \subseteq ObjectsOf(apptable'[i].name)
    BY <2>4, <2>5, <2>7
  <2>. QED
    BY <1>1, <1>4, <2>0, <2>2, <2>5, <2>6, <2>8, <2>9 DEF PlacementInv, Switching
<1>. QED  BY <1>2, <1>3, <1>4, ReceiveTables

\* Deleting an application leaves the others where they are.
LEMMA PlacementAbort ==
  ASSUME TypeOK, TypeOK', HandlesInv, TargetsInv, PlacementInv,
         NEW a \in DOMAIN apptable, AbortApp(a)
  PROVE  PlacementInv'
<1>1. /\ pc = "idle" /\ pc' = "idle" /\ UNCHANGED devicetable
      /\ DataOK /\ DataOK' /\ HandlesLive
      /\ apptable' = [i \in DOMAIN apptable \ {a} |-> apptable[i]]
  BY DEF AbortApp, TypeOK, HandlesInv
<1>2. /\ DOMAIN apptable' = DOMAIN apptable \ {a}
      /\ \A i \in DOMAIN apptable' : apptable'[i] = apptable[i]
  BY <1>1
<1>3. ASSUME NEW i \in DOMAIN apptable'
      PROVE  /\ Objects(i)' \subseteq ObjectsOf(apptable'[i].name)
             /\ \/ PlacedAt(i, HomeBoard)'
                \/ PlacedAt(i, AwayBoard)' /\ i = HandleRequest(apptable[i].name)'
  <2>1. i \in DOMAIN apptable \cap DOMAIN apptable' /\ apptable'[i] = apptable[i]
    BY <1>2
  <2>2. \A k \in Objects(i) : apptable[i].comps[k].target \in DOMAIN devicetable
    BY <1>1, <1>2 DEF TargetsInv, Unsettled, Objects
  <2>3. /\ PlacedAt(i, HomeBoard) => PlacedAt(i, HomeBoard)'
        /\ PlacedAt(i, AwayBoard) => PlacedAt(i, AwayBoard)'
    BY <1>1, <2>1, <2>2, PlacedKept
  <2>4. ASSUME i = HandleRequest(apptable[i].name)
        PROVE  i = HandleRequest(apptable[i].name)'
    <3>1. PICK name : name = apptable[i].name /\ name = apptable'[i].name
      BY <2>1
    <3>2. \A j \in DOMAIN apptable' :
            j < i => j \in DOMAIN apptable /\ apptable'[j].name = apptable[j].name
      BY <1>2
    <3>3. i = HandleRequest(name)'
      BY <1>1, <2>1, <2>4, <3>1, <3>2, SameOldest
    <3>. QED  BY <3>1, <3>3
  <2>5. Objects(i)' = Objects(i)
    BY <2>1 DEF Objects
  <2>. QED  BY <1>1, <2>1, <2>3, <2>4, <2>5 DEF PlacementInv, PlacementWhole
<1>. QED  BY <1>1, <1>3 DEF PlacementInv, PlacementWhole, Switching

\* A component that add_component adds is the first of its objId in the file, so
\* it goes where HomeBoard says; one that was there before keeps its place.
LEMMA PlacementInstantiate ==
  ASSUME TypeOK, HandlesInv, PlacementInv, InstantiateComponent
  PROVE  PlacementInv'
<1>. DEFINE x == Waveform[cmd.name][Current]
            new == [file |-> x.file, target |-> HandleRequest(x.dev)]
            comps == Insert(apptable[app].comps, x.obj, new)
            added == [apptable EXCEPT ![app].comps = comps]
<1>1. /\ pc = "instantiate" /\ app \in DOMAIN apptable /\ todo # {}
      /\ AppBase(apptable[app]) /\ Table(apptable)
      /\ cmd.name \in DOMAIN Waveform /\ todo \subseteq DOMAIN Waveform[cmd.name]
      /\ apptable[app].name = cmd.name /\ PlacedAt(app, HomeBoard)
      /\ Current = Least(todo)
  BY DEF InstantiateComponent, TypeOK, FrameOK, DataOK, PlacementInv, Current
<1>2. Current \in todo /\ \A k \in todo : Current <= k
  BY <1>1, LeastIn DEF TypeOK, DataOK
<1>3. ASSUME x.obj \notin Objects(app) PROVE HomeBoard(cmd.name, x.obj) = x.dev
  <2>. DEFINE K == {k \in DOMAIN Waveform[cmd.name] : Waveform[cmd.name][k].obj = x.obj}
  <2>1. K \subseteq todo
    BY <1>1, <1>3 DEF PlacementInv
  <2>2. Current \in K
    BY <1>1, <1>2
  <2>3. K \in SUBSET Nat /\ todo \in SUBSET Nat
    BY <2>1 DEF TypeOK, DataOK
  <2>. HIDE DEF K
  <2>4. Least(K) \in K /\ \A y \in K : Least(K) <= y
    BY <2>2, <2>3, LeastIn
  <2>5. Least(K) = Current
    <3>1. Least(K) \in Nat /\ Current \in Nat
      BY <2>2, <2>3, <2>4
    <3>2. Least(K) <= Current /\ Current <= Least(K)
      BY <1>2, <2>1, <2>2, <2>4
    <3>. HIDE DEF Current
    <3>. QED  BY <3>1, <3>2
  <2>. QED  BY <2>5 DEF HomeBoard, K
<1>4. ASSUME apptable' = added, UNCHANGED <<app, cmd, devicetable>>,
             (pc' = pc /\ todo' = Rest) \/ pc' = "hung"
      PROVE  PlacementInv'
  <2>1. /\ DOMAIN added = DOMAIN apptable
        /\ added[app].comps = comps
        /\ \A i \in DOMAIN apptable : added[i].name = apptable[i].name
        /\ \A i \in DOMAIN apptable : i # app => added[i] = apptable[i]
    <3>. HIDE DEF comps
    <3>. QED  BY <1>1 DEF Table, AppBase
  <2>2. /\ DOMAIN comps = Objects(app) \cup {x.obj}
        /\ \A c \in Objects(app) : comps[c] = apptable[app].comps[c]
        /\ x.obj \notin Objects(app) => comps[x.obj].target = HandleRequest(x.dev)
    <3>1. new.target = HandleRequest(x.dev)
      OBVIOUS
    <3>. HIDE DEF new, x
    <3>. QED  BY <3>1 DEF Insert, Objects
  <2>3. x.obj \in ObjectsOf(cmd.name)
    BY <1>1, <1>2 DEF ObjectsOf
  <2>. HIDE DEF added, comps, new
  <2>4. \A n : HandleRequest(n)' = HandleRequest(n)
    BY <1>4, <2>1, SameNames
  <2>5. \A c \in DOMAIN comps : comps[c].target = HandleRequest(HomeBoard(cmd.name, c))
    <3>1. \A c \in Objects(app) :
            apptable[app].comps[c].target = HandleRequest(HomeBoard(cmd.name, c))
      BY <1>1 DEF PlacedAt, Objects
    <3>. HIDE DEF x
    <3>. QED  BY <1>3, <2>2, <3>1
  <2>6. /\ apptable'[app].comps = comps /\ apptable'[app].name = cmd.name
        /\ DOMAIN apptable' = DOMAIN apptable
        /\ \A i \in DOMAIN apptable \ {app} : apptable'[i] = apptable[i]
    BY <1>1, <1>4, <2>1
  <2>7. PICK id : id = app /\ id \in DOMAIN apptable /\ app' = id
    BY <1>1, <1>4
  <2>8. PlacedAt(id, HomeBoard)'
    BY <2>4, <2>5, <2>6, <2>7 DEF PlacedAt
  <2>9. Objects(id)' = Objects(id) \cup {x.obj}
    BY <2>2, <2>6, <2>7 DEF Objects
  <2>10. ASSUME NEW i \in DOMAIN apptable, i # id
         PROVE  /\ Objects(i)' = Objects(i) /\ apptable'[i].name = apptable[i].name
                /\ \/ PlacedAt(i, HomeBoard)'
                   \/ PlacedAt(i, AwayBoard)' /\ i = HandleRequest(apptable[i].name)'
    <3>1. apptable'[i] = apptable[i]
      BY <2>6, <2>7, <2>10
    <3>2. \/ PlacedAt(i, HomeBoard)
          \/ PlacedAt(i, AwayBoard) /\ i = HandleRequest(apptable[i].name)
      BY <1>1 DEF PlacementInv, PlacementWhole
    <3>3. PlacedAt(i, HomeBoard) => PlacedAt(i, HomeBoard)'
      BY <2>4, <3>1 DEF PlacedAt
    <3>4. PlacedAt(i, AwayBoard) => PlacedAt(i, AwayBoard)'
      BY <2>4, <3>1 DEF PlacedAt
    <3>. QED  BY <2>4, <3>1, <3>2, <3>3, <3>4 DEF Objects
  <2>11. PlacementWhole'
    BY <2>6, <2>8, <2>10 DEF PlacementWhole
  <2>12. \A i \in DOMAIN apptable' : Objects(i)' \subseteq ObjectsOf(apptable'[i].name)
    <3>1. \A i \in DOMAIN apptable : Objects(i) \subseteq ObjectsOf(apptable[i].name)
      BY DEF PlacementInv
    <3>. HIDE DEF x
    <3>. QED  BY <1>1, <2>3, <2>6, <2>7, <2>9, <2>10, <3>1
  <2>13. ASSUME pc' = pc, todo' = Rest
         PROVE  \A k \in DOMAIN Waveform[cmd.name] \ todo' :
                  Waveform[cmd.name][k].obj \in Objects(id)'
    <3>1. \A k \in DOMAIN Waveform[cmd.name] \ todo :
            Waveform[cmd.name][k].obj \in Objects(id)
      BY <1>1, <2>7 DEF PlacementInv
    <3>. QED  BY <2>9, <2>13, <3>1 DEF Rest
  <2>. QED
    BY <1>1, <1>4, <2>6, <2>7, <2>8, <2>11, <2>12, <2>13 DEF PlacementInv, Switching
<1>5. CASE x.dev \in used_device
  BY <1>4, <1>5 DEF InstantiateComponent, Keep
<1>6. CASE x.dev \notin used_device /\ HandleRequest(x.dev) \in DOMAIN devicetable
  <2>1. /\ apptable' = added /\ LoadDevice(HandleRequest(x.dev), x.file)
        /\ UNCHANGED <<app, source>> /\ Keep
    BY <1>6 DEF InstantiateComponent
  <2>2. (pc' = pc /\ todo' = Rest) \/ pc' = "hung"
    BY <2>1, ProceedCases DEF LoadDevice
  <2>. QED  BY <1>4, <2>1, <2>2 DEF Keep
<1>7. CASE x.dev \notin used_device /\ HandleRequest(x.dev) \notin DOMAIN devicetable
  BY <1>7, PlacementMemory DEF InstantiateComponent, Crash
<1>. QED  BY <1>5, <1>6, <1>7

\* The list of an application leads from a board to its partner and back.
LEMMA ThereAndBack ==
  ASSUME NEW name, NEW d \in DOMAIN Partner(name)
  PROVE  Partner(name)[Partner(name)[d]] = d
BY DEF Partner, Empty

\* Sar_switch and Elec_switch recognise a component by the handle of its board.
LEMMA Recognised ==
  ASSUME DataOK, HandlesLive, NEW d, HandleRequest(d) \in DOMAIN devicetable
  PROVE  /\ d \in DOMAIN Partner(cmd.name) =>
              /\ Movable(HandleRequest(d)) # {}
              /\ Destination(HandleRequest(d)) = HandleRequest(Partner(cmd.name)[d])
         /\ d \notin DOMAIN Partner(cmd.name) => Movable(HandleRequest(d)) = {}
<1>1. \A e : HandleRequest(e) = HandleRequest(d) => e = d
  BY FoundBoard
<1>2. d \in DOMAIN Partner(cmd.name) => Movable(HandleRequest(d)) = {d}
  BY <1>1 DEF Movable
<1>. QED  BY <1>1, <1>2 DEF Movable, Destination

\* The first loop of the switch methods takes an application from the boards of
\* its XML file to their partners or back, all its components at once, unless it
\* stays at a component on a board of neither list.
LEMMA PlacementMove ==
  ASSUME TypeOK, HandlesInv, TargetsInv, PlacementInv, Move
  PROVE  PlacementInv'
<1>. DEFINE comps == apptable[app].comps
            moved == [apptable EXCEPT ![app].comps = Moved(comps)]
<1>1. /\ pc = "move" /\ app \in DOMAIN apptable
      /\ apptable' = moved /\ pc' = IF Stuck # {} THEN "spin" ELSE "wipe"
      /\ UNCHANGED <<app, devicetable, cmd>>
      /\ Table(apptable) /\ AppBase(apptable[app])
      /\ DataOK /\ HandlesLive /\ app = HandleRequest(cmd.name)
  BY DEF Move, TypeOK, FrameOK, DataOK, Keep, HandlesInv, PlacementInv, Switching
<1>2. apptable[app].name = cmd.name
  BY <1>1, FoundByName
<1>3. /\ DOMAIN Moved(comps) = DOMAIN comps
      /\ \A c \in DOMAIN comps : Moved(comps)[c] =
           IF c \in Moving
           THEN [comps[c] EXCEPT !.target = Destination(comps[c].target)]
           ELSE comps[c]
  BY DEF Moved
<1>4. /\ DOMAIN moved = DOMAIN apptable
      /\ moved[app].comps = Moved(comps)
      /\ \A i \in DOMAIN apptable : moved[i].name = apptable[i].name
      /\ \A i \in DOMAIN apptable : DOMAIN moved[i].comps = DOMAIN apptable[i].comps
      /\ \A i \in DOMAIN apptable : i # app => moved[i] = apptable[i]
  BY <1>1, <1>3 DEF Table, AppBase
<1>. HIDE DEF moved
<1>5. \A n : HandleRequest(n)' = HandleRequest(n)
  BY <1>1, <1>4, SameNames
<1>6. ASSUME Stuck = {}, NEW c \in DOMAIN comps, NEW d,
             comps[c].target = HandleRequest(d)
      PROVE  Moved(comps)[c].target =
               HandleRequest(IF d \in DOMAIN Partner(cmd.name)
                             THEN Partner(cmd.name)[d] ELSE d)
  <2>1. HandleRequest(d) \in DOMAIN devicetable
    BY <1>1, <1>6 DEF TargetsInv, Unsettled
  <2>2. c \in Moving <=> Movable(comps[c].target) # {}
    BY <1>6 DEF Moving, Comps
  <2>3. comps[c] \in [file : Files, target : Nat \cup {SSDP_ERROR}]
    BY <1>1 DEF AppBase, ComponentList
  <2>4. CASE d \in DOMAIN Partner(cmd.name)
    <3>1. Movable(comps[c].target) # {}
      BY <1>1, <1>6, <2>1, <2>4, Recognised
    <3>2. Moved(comps)[c].target = Destination(comps[c].target)
      BY <1>3, <2>2, <2>3, <3>1
    <3>3. Destination(HandleRequest(d)) = HandleRequest(Partner(cmd.name)[d])
      BY <1>1, <2>1, <2>4, Recognised
    <3>. HIDE DEF comps
    <3>. QED  BY <1>6, <2>4, <3>2, <3>3
  <2>5. CASE d \notin DOMAIN Partner(cmd.name)
    <3>1. Movable(comps[c].target) = {}
      BY <1>1, <1>6, <2>1, <2>5, Recognised
    <3>2. Moved(comps)[c] = comps[c]
      BY <1>3, <2>2, <3>1
    <3>. HIDE DEF comps
    <3>. QED  BY <1>6, <2>5, <3>2
  <2>. QED  BY <2>4, <2>5
<1>7. PICK id : id = app /\ id \in DOMAIN apptable
  BY <1>1
<1>8. /\ apptable'[id].comps = Moved(comps) /\ apptable'[id].name = cmd.name
      /\ apptable[id].comps = comps /\ apptable[id].name = cmd.name
      /\ DOMAIN apptable' = DOMAIN apptable
      /\ \A i \in DOMAIN apptable \ {id} : apptable'[i] = apptable[i]
  BY <1>1, <1>2, <1>4, <1>7
<1>9. ASSUME Stuck = {}
      PROVE  \/ PlacedAt(id, HomeBoard)'
             \/ PlacedAt(id, AwayBoard)' /\ id = HandleRequest(apptable[id].name)'
  <2>. DEFINE home(c) == HomeBoard(cmd.name, c)
              away(c) == AwayBoard(cmd.name, c)
  <2>1. CASE PlacedAt(id, HomeBoard)
    <3>1. \A c \in DOMAIN comps : comps[c].target = HandleRequest(home(c))
      BY <1>8, <2>1 DEF PlacedAt
    <3>2. \A c \in DOMAIN comps : Moved(comps)[c].target = HandleRequest(away(c))
      <4>. HIDE DEF comps
      <4>. QED  BY <1>6, <1>9, <3>1 DEF AwayBoard
    <3>3. PlacedAt(id, AwayBoard)'
      <4>. HIDE DEF comps
      <4>. QED  BY <1>3, <1>5, <1>8, <3>2 DEF PlacedAt
    <3>. QED  BY <1>1, <1>5, <1>7, <1>8, <3>3
  <2>2. CASE PlacedAt(id, AwayBoard)
    <3>1. \A c \in DOMAIN comps : comps[c].target = HandleRequest(away(c))
      BY <1>8, <2>2 DEF PlacedAt
    <3>2. ASSUME NEW c \in DOMAIN comps
          PROVE  Moved(comps)[c].target = HandleRequest(home(c))
      <4>1. CASE home(c) \in DOMAIN Partner(cmd.name)
        <5>1. /\ away(c) = Partner(cmd.name)[home(c)]
              /\ away(c) \in DOMAIN Partner(cmd.name)
              /\ Partner(cmd.name)[away(c)] = home(c)
          BY <4>1, PartnerOfPartner, ThereAndBack DEF AwayBoard
        <5>. HIDE DEF comps, home, away
        <5>. QED  BY <1>6, <1>9, <3>1, <5>1
      <4>2. CASE home(c) \notin DOMAIN Partner(cmd.name)
        <5>1. away(c) = home(c)
          BY <4>2 DEF AwayBoard
        <5>. HIDE DEF comps, home, away
        <5>. QED  BY <1>6, <1>9, <3>1, <4>2, <5>1
      <4>. QED  BY <4>1, <4>2
    <3>3. PlacedAt(id, HomeBoard)'
      <4>. HIDE DEF comps
      <4>. QED  BY <1>3, <1>5, <1>8, <3>2 DEF PlacedAt
    <3>. QED  BY <3>3
  <2>. QED  BY <1>1, <1>7, <2>1, <2>2 DEF PlacementInv, PlacementWhole
<1>10. ASSUME NEW i \in DOMAIN apptable, i # id
       PROVE  /\ apptable'[i].name = apptable[i].name
              /\ \/ PlacedAt(i, HomeBoard)'
                 \/ PlacedAt(i, AwayBoard)' /\ i = HandleRequest(apptable[i].name)'
  <2>1. apptable'[i] = apptable[i]
    BY <1>8, <1>10
  <2>2. \/ PlacedAt(i, HomeBoard)
        \/ PlacedAt(i, AwayBoard) /\ i = HandleRequest(apptable[i].name)
    BY <1>1 DEF PlacementInv, PlacementWhole
  <2>3. PlacedAt(i, HomeBoard) => PlacedAt(i, HomeBoard)'
    BY <1>5, <2>1 DEF PlacedAt
  <2>4. PlacedAt(i, AwayBoard) => PlacedAt(i, AwayBoard)'
    BY <1>5, <2>1 DEF PlacedAt
  <2>. QED  BY <1>5, <2>1, <2>2, <2>3, <2>4
<1>11. pc' # "spin" => PlacementWhole'
  BY <1>1, <1>8, <1>9, <1>10 DEF PlacementWhole
<1>12. \A i \in DOMAIN apptable' : Objects(i)' \subseteq ObjectsOf(apptable'[i].name)
  <2>1. \A i \in DOMAIN apptable : Objects(i) \subseteq ObjectsOf(apptable[i].name)
    BY DEF PlacementInv
  <2>. QED  BY <1>1, <1>4, <2>1 DEF Objects
<1>. QED  BY <1>1, <1>11, <1>12 DEF PlacementInv, Switching

\* Every step keeps the applications placed as wholes.
LEMMA PlacementStep ==
  ASSUME TypeOK, TypeOK', HandlesInv, TargetsInv, PlacementInv, [Next]_vars
  PROVE  PlacementInv'
<1>1. CASE InstantiateDevice
  BY <1>1 DEF InstantiateDevice, PlacementInv, PlacementWhole, Switching
<1>2. CASE Listen
  BY <1>2, PlacementKept DEF Listen, registry, Switching
<1>3. CASE TellComponent
  <2>1. /\ pc \in {"start", "stop"} /\ UNCHANGED <<apptable, app>> /\ Keep
        /\ pc' = pc \/ pc' = "hung"
    BY <1>3, ProceedCases DEF TellComponent
  <2>2. Switching' => /\ cmd'.name \in {"sar", "elec_reco"}
                      /\ app' = HandleRequest(cmd'.name)
    BY <2>1 DEF Switching, Keep, PlacementInv
  <2>. QED  BY <2>1, <2>2, PlacementKept DEF Keep
<1>4. CASE TellDevice
  BY <1>4, PlacementKept DEF TellDevice, Keep, Conclude, Done, Switching
<1>5. CASE EndLoop
  <2>1. UNCHANGED <<apptable, devicetable, cmd>> /\ pc # "spin"
        /\ pc' \in {"idle", "move", "load", "route"}
    BY <1>5 DEF EndLoop, Keep, Done
  <2>2. Switching' => /\ cmd'.name \in {"sar", "elec_reco"}
                      /\ app' = HandleRequest(cmd'.name)
    BY <1>5 DEF EndLoop, Keep, Done, Locals, Switching, PlacementInv
  <2>. QED  BY <2>1, <2>2, PlacementKept
<1>6. CASE Wipe
  <2>1. /\ pc = "wipe" /\ \E id, file : LoadDevice(id, file)
        /\ UNCHANGED <<apptable, devicetable>>
    BY <1>6 DEF Wipe, Keep
  <2>2. pc' = pc \/ pc' = "hung"
    BY <2>1, ProceedCases DEF LoadDevice
  <2>. QED  BY <2>1, <2>2, PlacementKept DEF Switching
<1>7. CASE Load
  <2>1. pc = "load"
    BY <1>7 DEF Load
  <2>2. CASE Comps[Current].target \in DOMAIN devicetable
    <3>1. /\ \E file : LoadDevice(Comps[Current].target, file)
          /\ UNCHANGED <<apptable, devicetable>>
      BY <1>7, <2>2 DEF Load, Keep
    <3>2. pc' = pc \/ pc' = "hung"
      BY <3>1, ProceedCases DEF LoadDevice
    <3>. QED  BY <2>1, <3>1, <3>2, PlacementKept DEF Switching
  <2>3. CASE Comps[Current].target \notin DOMAIN devicetable
    BY <1>7, <2>3, PlacementMemory DEF Load, Crash
  <2>. QED  BY <2>2, <2>3
<1>8. CASE Route
  BY <1>8, PlacementKept DEF Route, Keep, Conclude, Done, Switching
<1>9. CASE Killed \/ Restart
  BY <1>9, PlacementMemory DEF Killed, Restart, Crash
<1>10. CASE UNCHANGED vars
  <2>1. UNCHANGED <<apptable, devicetable, pc, app, todo, cmd>>
    BY <1>10 DEF vars, registry
  <2>2. \A n : HandleRequest(n)' = HandleRequest(n)
    BY <2>1, SameNames
  <2>3. \A i \in DOMAIN apptable :
          /\ PlacedAt(i, HomeBoard)' <=> PlacedAt(i, HomeBoard)
          /\ PlacedAt(i, AwayBoard)' <=> PlacedAt(i, AwayBoard)
    BY <2>1, <2>2 DEF PlacedAt
  <2>4. PlacementWhole => PlacementWhole'
    BY <2>1, <2>2, <2>3 DEF PlacementWhole
  <2>5. \A i : Objects(i)' = Objects(i)
    BY <2>1 DEF Objects
  <2>6. PICK id : id = app
    OBVIOUS
  <2>7. pc = "instantiate" /\ PlacedAt(id, HomeBoard) => PlacedAt(id, HomeBoard)'
    BY <2>1, <2>2 DEF PlacedAt
  <2>. QED  BY <2>1, <2>2, <2>4, <2>5, <2>6, <2>7 DEF PlacementInv, Switching
<1>. QED  BY <1>1, <1>2, <1>3, <1>4, <1>5, <1>6, <1>7, <1>8, <1>9, <1>10,
             PlacementReceive, PlacementAbort, PlacementInstantiate, PlacementMove
          DEF Next, Progress

\* Where the components of an application are, however often it was loaded,
\* switched, started, stopped and deleted, whatever the boards answered: all on
\* the boards its XML file names or all on their partners. The one exception is
\* a switch that stays for ever at a component on a board of neither list, with
\* those after it moved and those before it not.
THEOREM PlacementOrSpin == Spec => [](pc = "spin" \/ PlacementWhole)
<1>1. Init => HandlesInv /\ TargetsInv /\ PlacementInv
  BY DEF Init, HandlesInv, HandlesLive, TargetsInv, PlacementInv, PlacementWhole,
         Switching, Empty, BEGIN_ID
<1>2. TypeOK /\ HandlesInv /\ [Next]_vars => HandlesInv'
  BY HandlesStep
<1>3. TypeOK /\ TargetsInv /\ [Next]_vars => TargetsInv'
  BY TargetsStep
<1>4. TypeOK /\ TypeOK' /\ HandlesInv /\ TargetsInv /\ PlacementInv /\ [Next]_vars
        => PlacementInv'
  BY PlacementStep
<1>5. PlacementInv => (pc = "spin" \/ PlacementWhole)
  BY DEF PlacementInv
<1>. QED  BY TypeCorrect, <1>1, <1>2, <1>3, <1>4, <1>5, PTL DEF Spec

-----------------------------------------------------------------------------
(* The XML files of the repository put the components of sar and elec_reco  *)
(* on boards the two lists know, or on the FPGA.                            *)

Listed ==
  \A name \in {"sar", "elec_reco"} \cap DOMAIN Waveform :
    \A k \in DOMAIN Waveform[name] :
      Waveform[name][k].dev \in DOMAIN Partner(name) \cup {"fpga1"}

NotSpinning == pc # "spin"

\* Then a switch never stays at a component.
LEMMA NothingStuck ==
  ASSUME Listed, TypeOK, HandlesInv, TargetsInv, PlacementInv, pc = "move"
  PROVE  Stuck = {}
<1>1. /\ app \in DOMAIN apptable /\ DataOK /\ HandlesLive
      /\ app = HandleRequest(cmd.name) /\ cmd.name \in {"sar", "elec_reco"}
  BY DEF TypeOK, FrameOK, HandlesInv, PlacementInv, Switching
<1>2. apptable[app].name = cmd.name /\ cmd.name \in DOMAIN Waveform
  BY <1>1, FoundByName, ObjectsType
<1>3. ASSUME NEW c \in DOMAIN Comps, NEW d \in DOMAIN Partner(cmd.name) \cup {"fpga1"},
             Comps[c].target = HandleRequest(d)
      PROVE  c \notin Stuck
  <2>1. HandleRequest(d) \in DOMAIN devicetable
    BY <1>1, <1>3 DEF TargetsInv, Unsettled, Comps
  <2>2. CASE d \in DOMAIN Partner(cmd.name)
    BY <1>1, <1>3, <2>1, <2>2, Recognised DEF Stuck
  <2>3. CASE d = "fpga1"
    BY <1>3, <2>3 DEF Stuck
  <2>. QED  BY <2>2, <2>3
<1>4. ASSUME NEW c \in DOMAIN Comps PROVE c \notin Stuck
  <2>. DEFINE K == {k \in DOMAIN Waveform[cmd.name] : Waveform[cmd.name][k].obj = c}
              home == HomeBoard(cmd.name, c)
              away == AwayBoard(cmd.name, c)
  <2>1. K # {} /\ K \in SUBSET Nat
    <3>1. c \in ObjectsOf(cmd.name)
      BY <1>1, <1>2 DEF PlacementInv, Objects, Comps
    <3>2. Waveform[cmd.name] \in Seq(Component)
      BY <1>2, WaveformAssumption
    <3>. QED  BY <3>1, <3>2 DEF ObjectsOf
  <2>2. Least(K) \in K
    <3>. HIDE DEF K
    <3>. QED  BY <2>1, LeastIn
  <2>3. home \in DOMAIN Partner(cmd.name) \cup {"fpga1"}
    BY <1>1, <1>2, <2>2 DEF Listed, HomeBoard
  <2>4. away \in DOMAIN Partner(cmd.name) \cup {"fpga1"}
    BY <2>3, PartnerOfPartner DEF AwayBoard
  <2>5. Comps[c].target = HandleRequest(home) \/ Comps[c].target = HandleRequest(away)
    BY <1>1, <1>2 DEF PlacementInv, PlacementWhole, PlacedAt, Comps
  <2>. HIDE DEF home, away
  <2>. QED  BY <1>3, <2>3, <2>4, <2>5
<1>. QED  BY <1>4 DEF Stuck

\* No step enters the endless loop.
LEMMA SpinStep ==
  ASSUME Listed, TypeOK, HandlesInv, TargetsInv, PlacementInv,
         NotSpinning, [Next]_vars
  PROVE  NotSpinning'
<1>. USE DEF NotSpinning
<1>1. CASE Move
  BY <1>1, NothingStuck DEF Move
<1>2. CASE InstantiateComponent
  BY <1>2, ProceedCases DEF InstantiateComponent, LoadDevice, Crash, Memory
<1>3. CASE TellComponent \/ TellDevice \/ EndLoop \/ Route
  BY <1>3, ProceedCases DEF TellComponent, TellDevice, EndLoop, Route, Conclude, Done
<1>4. CASE Wipe \/ Load
  BY <1>4, ProceedCases DEF Wipe, Load, LoadDevice, Crash, Memory
<1>5. ASSUME NEW c \in Commands, ReceiveCommand(c) PROVE NotSpinning'
  BY <1>5, ReceiveTables DEF Memory
<1>6. CASE InstantiateDevice \/ Listen \/ Killed \/ Restart
  BY <1>6 DEF InstantiateDevice, Listen, Killed, Restart, Crash, Memory
<1>7. ASSUME NEW i \in DOMAIN apptable, AbortApp(i) PROVE NotSpinning'
  BY <1>7 DEF AbortApp
<1>8. CASE UNCHANGED vars
  BY <1>8 DEF vars
<1>. QED  BY <1>1, <1>2, <1>3, <1>4, <1>5, <1>6, <1>7, <1>8 DEF Next, Progress

\* With XML files like those of the repository no switch loops for ever, in any
\* order of commands and crashes: the safety half of CommandEnds.
THEOREM NeverSpins == Listed => (Spec => []NotSpinning)
<1>. SUFFICES ASSUME Listed PROVE Spec => []NotSpinning
  OBVIOUS
<1>1. Init => HandlesInv /\ TargetsInv /\ PlacementInv /\ NotSpinning
  BY DEF Init, NotSpinning, HandlesInv, HandlesLive, TargetsInv, PlacementInv, PlacementWhole,
         Switching, Empty, BEGIN_ID
<1>2. TypeOK /\ HandlesInv /\ [Next]_vars => HandlesInv'
  BY HandlesStep
<1>3. TypeOK /\ TargetsInv /\ [Next]_vars => TargetsInv'
  BY TargetsStep
<1>4. TypeOK /\ TypeOK' /\ HandlesInv /\ TargetsInv /\ PlacementInv /\ [Next]_vars
        => PlacementInv'
  BY PlacementStep
<1>5. TypeOK /\ HandlesInv /\ TargetsInv /\ PlacementInv /\ NotSpinning
        /\ [Next]_vars => NotSpinning'
  BY SpinStep
<1>. QED  BY TypeCorrect, <1>1, <1>2, <1>3, <1>4, <1>5, PTL DEF Spec

\* With such files every application is whole at every moment.
THEOREM PlacementCorrect == Listed => (Spec => []PlacementWhole)
<1>. SUFFICES ASSUME Listed PROVE Spec => []PlacementWhole
  OBVIOUS
<1>1. Spec => []NotSpinning
  BY NeverSpins
<1>2. (pc = "spin" \/ PlacementWhole) /\ NotSpinning => PlacementWhole
  BY DEF NotSpinning
<1>. QED  BY PlacementOrSpin, <1>1, <1>2, PTL

-----------------------------------------------------------------------------
(* Start and stop, with boards that obey when they answer. The components   *)
(* the loop has passed have been told; DVB_Start and DVB_Stop pass only the  *)
(* first, which is enough while the XML file puts them all on one board.    *)

Obeying == "refused" \notin Answers

DvbOnOneBoard ==
  "dvb-s2" \in DOMAIN Waveform =>
    \A k, l \in DOMAIN Waveform["dvb-s2"] :
      Waveform["dvb-s2"][k].dev = Waveform["dvb-s2"][l].dev

Told(method, run) == IF method = "start" THEN run # Off ELSE run # cmd.name

ToldInv ==
  /\ pc \in {"start", "stop"} =>
       /\ app = HandleRequest(cmd.name)
       /\ cmd.f = pc \/ (pc = "stop" /\ cmd.f = "switch")
       /\ \A c \in Reached(cmd.name, app) \ todo :
            Told(pc, board[Board(Comps[c].target)].run)
  /\ pc = "device" /\ cmd.f \in {"start", "stop"} =>
       HandleRequest(cmd.name) \notin DOMAIN apptable
  /\ pc = "route" => cmd.f = "switch"
  /\ CommandReaches

\* The first component of the XML file with objId c.
LEMMA HomeLine ==
  ASSUME NEW n \in DOMAIN Waveform, NEW c \in ObjectsOf(n)
  PROVE  \E k \in DOMAIN Waveform[n] : HomeBoard(n, c) = Waveform[n][k].dev
<1>. DEFINE K == {k \in DOMAIN Waveform[n] : Waveform[n][k].obj = c}
<1>1. K # {} /\ K \in SUBSET Nat
  <2>1. Waveform[n] \in Seq(Component)
    BY WaveformAssumption
  <2>. QED  BY <2>1 DEF ObjectsOf
<1>2. Least(K) \in K
  <2>. HIDE DEF K
  <2>. QED  BY <1>1, LeastIn
<1>. QED  BY <1>2 DEF HomeBoard

\* The components that are told are on all the boards of the application.
LEMMA ReachedEverywhere ==
  ASSUME DvbOnOneBoard, TypeOK, PlacementInv, pc # "spin",
         NEW i \in DOMAIN apptable, NEW c \in Objects(i)
  PROVE  \E r \in Reached(apptable[i].name, i) :
           apptable[i].comps[r].target = apptable[i].comps[c].target
<1>. DEFINE n == apptable[i].name
<1>1. CASE n # "dvb-s2"
  BY <1>1 DEF Reached
<1>2. CASE n = "dvb-s2"
  <2>1. n \in DOMAIN Waveform /\ Objects(i) \in SUBSET Nat
    BY ObjectsType DEF TypeOK
  <2>2. Least(Objects(i)) \in Objects(i)
    BY <2>1, LeastIn
  <2>3. \A o \in Objects(i) :
          /\ AwayBoard(n, o) = HomeBoard(n, o)
          /\ \E k \in DOMAIN Waveform[n] : HomeBoard(n, o) = Waveform[n][k].dev
    <3>1. \A o : AwayBoard(n, o) = HomeBoard(n, o)
      BY <1>2 DEF AwayBoard, Partner, Empty
    <3>. HIDE DEF n
    <3>. QED  BY <2>1, <3>1, HomeLine DEF PlacementInv, n
  <2>4. \A o \in Objects(i) : HomeBoard(n, o) = HomeBoard(n, c)
    BY <1>2, <2>1, <2>3 DEF DvbOnOneBoard
  <2>5. \A o \in Objects(i) :
          apptable[i].comps[o].target = HandleRequest(HomeBoard(n, o))
    BY <2>3 DEF PlacementInv, PlacementWhole, PlacedAt, Objects
  <2>6. apptable[i].comps[Least(Objects(i))].target = apptable[i].comps[c].target
    BY <2>2, <2>4, <2>5
  <2>. QED  BY <1>2, <2>2, <2>6 DEF Reached
<1>. QED  BY <1>1, <1>2

\* A step that tells no component and does not end a start or stop.
LEMMA ToldKept ==
  ASSUME pc' \notin {"start", "stop", "route"},
         pc' = "device" => \/ cmd'.f \notin {"start", "stop"}
                           \/ HandleRequest(cmd.name)' \notin DOMAIN apptable',
         pc' = "idle" => \/ cmd'.f \notin {"start", "stop"}
                         \/ HandleRequest(cmd.name)' \notin DOMAIN apptable'
  PROVE  ToldInv'
BY DEF ToldInv, CommandReaches, Served

\* A command is received: every component that start or stop reaches is before it.
LEMMA ToldReceive ==
  ASSUME TypeOK, HandlesInv, NEW c \in Commands, ReceiveCommand(c)
  PROVE  ToldInv'
<1>. DEFINE toid == HandleRequest(c.name)
<1>1. /\ pc = "idle" /\ cmd' = c /\ SSDP_ERROR \notin DOMAIN apptable
      /\ DOMAIN apptable \cap DOMAIN devicetable = {}
  BY DEF ReceiveCommand, TypeOK, DataOK, Table, HandlesInv, HandlesLive, SSDP_ERROR
<1>2. ASSUME UNCHANGED registry PROVE HandleRequest(cmd.name)' = toid
  BY <1>1, <1>2 DEF HandleRequest, registry
<1>3. ASSUME NEW m \in {"start", "stop"},
             c.f = m \/ (m = "stop" /\ c.f = "switch"),
             toid \in DOMAIN apptable, Call(m, toid, Reached(c.name, toid))
             \/ Call(m, toid, Objects(toid))
      PROVE  ToldInv'
  <2>1. /\ pc' = m /\ app' = toid /\ UNCHANGED <<registry, board>>
        /\ Reached(c.name, toid) \subseteq todo'
    BY <1>3 DEF Call, Reached
  <2>2. Reached(cmd.name, app)' = Reached(c.name, toid)
    BY <1>1, <2>1 DEF Reached, Objects, registry
  <2>3. HandleRequest(cmd.name)' = app'
    BY <1>2, <2>1
  <2>. QED
    BY <1>1, <1>3, <2>1, <2>2, <2>3 DEF ToldInv, CommandReaches, Served
<1>4. CASE c.f \in {"start", "stop"}
  <2>1. StartOrStop(c, toid)
    BY <1>4 DEF ReceiveCommand
  <2>2. CASE toid = SSDP_ERROR /\ Return(SSDP_OK)
    BY <1>1, <1>2, <2>2, ToldKept DEF Return, registry
  <2>3. CASE toid \in DOMAIN apptable /\ Call(c.f, toid, Reached(c.name, toid))
    BY <1>3, <1>4, <2>3
  <2>4. CASE toid \in DOMAIN devicetable /\ Call("device", toid, {})
    BY <1>1, <1>2, <2>4, ToldKept DEF Call, registry
  <2>. QED  BY <2>1, <2>2, <2>3, <2>4 DEF StartOrStop
<1>5. CASE c.f = "switch"
  <2>1. Switch(c, toid)
    BY <1>5 DEF ReceiveCommand
  <2>2. ASSUME NEW res, Return(res) PROVE ToldInv'
    BY <1>1, <1>5, <2>2, ToldKept DEF Return
  <2>. QED  BY <1>3, <1>5, <2>1, <2>2 DEF Switch
<1>6. CASE c.f \notin {"start", "stop", "switch"}
  <2>1. pc' \in {"dead", "idle", "device", "instantiate"}
    BY <1>6 DEF ReceiveCommand, Configure, Reconstruct, InstantiateApp,
                Return, Call, Crash, Memory
  <2>. QED  BY <1>1, <1>6, <2>1, ToldKept
<1>. QED  BY <1>4, <1>5, <1>6

\* A component is told, and no board that was told before falls back: start turns
\* every board on, and stop turns none on.
LEMMA ToldComponent ==
  ASSUME Obeying, TypeOK, HandlesInv, TargetsInv, ToldInv, TellComponent
  PROVE  ToldInv'
<1>. DEFINE id == Comps[Current].target
            b  == board[Board(id)]
            after == IF pc = "start" THEN Started(b, apptable[app].name)
                     ELSE Halted(DeviceType[Board(id)], b, apptable[app].name)
<1>1. /\ pc \in {"start", "stop"} /\ todo # {} /\ app \in DOMAIN apptable
      /\ UNCHANGED <<apptable, app, used_device, source>> /\ Keep
      /\ DataOK /\ HandlesLive /\ todo \subseteq DOMAIN Comps
      /\ board \in [Boards -> BoardState]
  BY DEF TellComponent, TypeOK, FrameOK, DataOK, HandlesInv
<1>2. /\ Current \in todo
      /\ \A c \in DOMAIN Comps : Comps[c].target \in DOMAIN devicetable
  BY <1>1, CurrentIn DEF TargetsInv, Unsettled, Comps
<1>3. id \in DOMAIN devicetable
  BY <1>1, <1>2
<1>4. PICK ans \in Answers : Proceed(ans, Rest) /\ Apply(Board(id), ans, after)
  BY <1>3 DEF TellComponent
<1>5. CASE pc' = "hung"
  BY <1>5, ToldKept
<1>6. CASE pc' = pc /\ todo' = todo \ {Current} /\ Obeyed(ans)
  <2>1. \A c \in DOMAIN Comps : Board(Comps[c].target) \in DOMAIN board
    BY <1>1, <1>2 DEF DataOK, Board
  <2>2. board' = [board EXCEPT ![Board(id)] = after]
    BY <1>4, <1>6 DEF Apply
  <2>3. apptable[app].name = cmd.name /\ cmd.name \in DOMAIN Waveform
    BY <1>1, FoundByName, ObjectsType DEF ToldInv
  <2>4. b \in BoardState
    BY <1>1, <1>2, <2>1 DEF Board
  <2>5. Told(pc, after.run)
    <3>1. b = [code |-> b.code, run |-> b.run, route |-> b.route]
      BY <2>4 DEF BoardState
    <3>. HIDE DEF b
    <3>. QED  BY <1>1, <2>3, <3>1, OffAssumption DEF Told, Started, Halted
  <2>. HIDE DEF after, b, id
  <2>6. ASSUME NEW c \in DOMAIN Comps,
               c \in todo => Board(Comps[c].target) = Board(id),
               c \in Reached(cmd.name, app)
        PROVE  Told(pc, board'[Board(Comps[c].target)].run)
    <3>1. CASE Board(Comps[c].target) = Board(id)
      BY <2>1, <2>2, <2>5, <3>1
    <3>2. CASE Board(Comps[c].target) # Board(id)
      <4>1. Told(pc, board[Board(Comps[c].target)].run)
        BY <1>1, <2>6, <3>2 DEF ToldInv
      <4>. QED  BY <2>1, <2>2, <3>2, <4>1
    <3>. QED  BY <3>1, <3>2
  <2>7. Reached(cmd.name, app)' = Reached(cmd.name, app) /\ Comps' = Comps
    BY <1>1 DEF Reached, Objects, Comps, Keep
  <2>8. \A t : Board(t)' = Board(t)
    BY <1>1 DEF Board, Keep
  <2>9. ASSUME NEW c \in (Reached(cmd.name, app) \ todo)'
        PROVE  Told(pc, board'[Board(Comps[c].target)].run)
    <3>1. c \in Reached(cmd.name, app) /\ (c \in todo => c = Current)
      BY <1>6, <2>7, <2>9
    <3>2. c \in DOMAIN Comps
      BY <3>1 DEF Reached, Objects, Comps
    <3>. QED  BY <2>6, <3>1, <3>2 DEF id
  <2>10. HandleRequest(cmd.name)' = HandleRequest(cmd.name)
    BY <1>1 DEF HandleRequest, Keep
  <2>11. cmd' = cmd
    BY <1>1 DEF Keep
  <2>12. \A run : Told(pc, run)' <=> Told(pc, run)
    BY <1>6, <2>11 DEF Told
  <2>13. \A c \in (Reached(cmd.name, app) \ todo)' :
           Told(pc, board[Board(Comps[c].target)].run)'
    BY <1>6, <2>7, <2>8, <2>9, <2>11 DEF Told
  <2>. QED
    BY <1>1, <1>6, <2>10, <2>11, <2>13 DEF ToldInv, CommandReaches, Served
<1>. QED  BY <1>4, <1>5, <1>6 DEF Proceed, Answered, Obeyed, Obeying, Rest

\* At the end of the loop all boards of the application have been told.
LEMMA ToldEnd ==
  ASSUME DvbOnOneBoard, TypeOK, HandlesInv, PlacementInv, CrashInv, ToldInv, EndLoop
  PROVE  ToldInv'
<1>1. /\ UNCHANGED <<apptable, devicetable, cmd, board>> /\ todo = {}
      /\ DataOK /\ HandlesLive /\ pc # "spin"
  BY DEF EndLoop, Keep, TypeOK, HandlesInv
<1>2. HandleRequest(cmd.name)' = HandleRequest(cmd.name)
  BY <1>1 DEF HandleRequest
<1>3. CASE pc' # "idle"
  <2>1. pc' \in {"move", "load", "route"} /\ (pc' = "route" => cmd.f = "switch")
    BY <1>3 DEF EndLoop, Done, CrashInv, SwitchInv
  <2>. QED  BY <1>1, <1>3, <2>1 DEF ToldInv, CommandReaches, Served
<1>4. CASE pc = "instantiate"
  <2>1. pc' = "idle" /\ cmd.f = "loadapp"
    BY <1>4 DEF EndLoop, Done, CrashInv, SwitchInv
  <2>. QED  BY <1>1, <2>1, ToldKept
<1>5. CASE pc \in {"start", "stop"} /\ pc' = "idle"
  <2>. DEFINE i == HandleRequest(cmd.name)
  <2>1. app = i /\ app \in DOMAIN apptable /\ apptable[i].name = cmd.name
    BY <1>1, <1>5, FoundByName DEF ToldInv, TypeOK, FrameOK
  <2>2. ASSUME NEW b \in BoardsOf(i) PROVE Told(pc, board[b].run)
    <3>1. PICK c \in Objects(i) : b = devicetable[apptable[i].comps[c].target]
      BY <2>2 DEF BoardsOf, Objects
    <3>2. PICK r \in Reached(cmd.name, i) :
            apptable[i].comps[r].target = apptable[i].comps[c].target
      BY <1>1, <2>1, ReachedEverywhere
    <3>3. Told(pc, board[Board(Comps[r].target)].run)
      BY <1>1, <1>5, <2>1, <3>2 DEF ToldInv
    <3>. QED  BY <2>1, <3>1, <3>2, <3>3 DEF Board, Comps
  <2>3. cmd.f = pc \/ cmd.f = "switch"
    BY <1>5 DEF ToldInv
  <2>4. cmd.f = "start" => \A b \in BoardsOf(i) : board[b].run # Off
    BY <1>5, <2>2, <2>3 DEF Told
  <2>5. cmd.f = "stop" => \A b \in BoardsOf(i) : board[b].run # cmd.name
    BY <1>5, <2>2, <2>3 DEF Told
  <2>6. BoardsOf(HandleRequest(cmd.name))' = BoardsOf(i)
    BY <1>1, <1>2 DEF BoardsOf
  <2>7. CommandReaches'
    BY <1>1, <2>4, <2>5, <2>6 DEF CommandReaches, Served
  <2>. QED  BY <1>5, <2>7 DEF ToldInv
<1>. QED  BY <1>3, <1>4, <1>5 DEF EndLoop, Done

\* Every step keeps what was told told, until the command is over.
LEMMA ToldStep ==
  ASSUME Obeying, DvbOnOneBoard, TypeOK, HandlesInv, TargetsInv, PlacementInv,
         CrashInv, ToldInv, [Next]_vars
  PROVE  ToldInv'
<1>1. CASE InstantiateDevice
  BY <1>1, ToldKept DEF InstantiateDevice
<1>2. CASE Listen
  <2>1. DOMAIN apptable' = {}
    BY <1>2 DEF Listen, registry, PlacementInv
  <2>. QED  BY <1>2, <2>1, ToldKept DEF Listen
<1>3. CASE InstantiateComponent
  <2>1. pc' \in {"instantiate", "hung", "dead"}
    BY <1>3, ProceedCases DEF InstantiateComponent, LoadDevice, Crash, Memory
  <2>. QED  BY <2>1, ToldKept
<1>4. CASE TellDevice
  <2>1. pc = "device" /\ UNCHANGED <<apptable, devicetable, cmd>>
        /\ pc' \in {"idle", "hung"}
    BY <1>4 DEF TellDevice, Keep, Conclude, Done
  <2>2. HandleRequest(cmd.name)' = HandleRequest(cmd.name)
    BY <2>1 DEF HandleRequest
  <2>3. cmd'.f \notin {"start", "stop"}
        \/ HandleRequest(cmd.name)' \notin DOMAIN apptable'
    BY <2>1, <2>2 DEF ToldInv
  <2>. QED  BY <2>1, <2>3, ToldKept
<1>5. CASE Move \/ Wipe \/ Load
  <2>1. pc' \in {"spin", "wipe", "load", "hung", "dead"}
    BY <1>5, ProceedCases DEF Move, Wipe, Load, LoadDevice, Crash, Memory
  <2>. QED  BY <2>1, ToldKept
<1>6. CASE Route
  <2>1. pc' \in {"idle", "hung"} /\ cmd'.f = "switch"
    BY <1>6 DEF Route, Keep, Conclude, Done, ToldInv
  <2>. QED  BY <2>1, ToldKept
<1>7. ASSUME NEW i \in DOMAIN apptable, AbortApp(i) PROVE ToldInv'
  BY <1>7, ToldKept DEF AbortApp, NoCommand
<1>8. CASE Killed \/ Restart
  BY <1>8, ToldKept DEF Killed, Restart, Crash, Memory
<1>9. CASE UNCHANGED vars
  <2>1. UNCHANGED <<apptable, devicetable, pc, app, todo, cmd, board>>
    BY <1>9 DEF vars, registry
  <2>2. HandleRequest(cmd.name)' = HandleRequest(cmd.name)
    BY <2>1 DEF HandleRequest
  <2>3. Reached(cmd.name, app)' = Reached(cmd.name, app) /\ Comps' = Comps
    BY <2>1 DEF Reached, Objects, Comps
  <2>4. BoardsOf(HandleRequest(cmd.name))' = BoardsOf(HandleRequest(cmd.name))
    BY <2>1, <2>2 DEF BoardsOf
  <2>5. CommandReaches'
    BY <2>1, <2>2, <2>4 DEF ToldInv, CommandReaches, Served
  <2>6. \A c : Board(Comps[c].target)' = Board(Comps[c].target)
    BY <2>1, <2>3 DEF Board
  <2>7. pc \in {"start", "stop"} =>
          \A c \in (Reached(cmd.name, app) \ todo)' :
            Told(pc, board[Board(Comps[c].target)].run)'
    BY <2>1, <2>3, <2>6 DEF ToldInv, Told
  <2>. QED  BY <2>1, <2>2, <2>5, <2>7 DEF ToldInv
<1>. QED  BY <1>1, <1>2, <1>3, <1>4, <1>5, <1>6, <1>7, <1>8, <1>9,
             ToldReceive, ToldComponent, ToldEnd
          DEF Next, Progress

\* Boards that obey when they answer: when a start has been answered every board
\* of the application runs, and when a stop has, none runs it - wherever the
\* application was switched to before, and whatever else was loaded.
THEOREM CommandsCorrect == Obeying /\ DvbOnOneBoard => (Spec => []CommandReaches)
<1>. SUFFICES ASSUME Obeying, DvbOnOneBoard PROVE Spec => []CommandReaches
  OBVIOUS
<1>1. Init => HandlesInv /\ TargetsInv /\ PlacementInv /\ CrashInv /\ ToldInv
  BY DEF Init, HandlesInv, HandlesLive, TargetsInv, PlacementInv, PlacementWhole,
         Switching, CrashInv, ComponentsInv, SwitchInv, ToldInv, CommandReaches,
         Served, Empty, BEGIN_ID
<1>2. TypeOK /\ HandlesInv /\ [Next]_vars => HandlesInv'
  BY HandlesStep
<1>3. TypeOK /\ TargetsInv /\ [Next]_vars => TargetsInv'
  BY TargetsStep
<1>4. TypeOK /\ TypeOK' /\ HandlesInv /\ TargetsInv /\ PlacementInv /\ [Next]_vars
        => PlacementInv'
  BY PlacementStep
<1>5. TypeOK /\ HandlesInv /\ CrashInv /\ [Next]_vars => CrashInv'
  BY CrashStep
<1>6. TypeOK /\ HandlesInv /\ TargetsInv /\ PlacementInv /\ CrashInv /\ ToldInv
        /\ [Next]_vars => ToldInv'
  BY ToldStep
<1>7. ToldInv => CommandReaches
  BY DEF ToldInv
<1>. QED  BY TypeCorrect, <1>1, <1>2, <1>3, <1>4, <1>5, <1>6, <1>7, PTL DEF Spec

-----------------------------------------------------------------------------
(* Switch, with boards that obey when they answer. The XML file puts the    *)
(* application on boards no two of which are partners, and one component on *)
(* the FPGA: the boards a switch leaves and those it goes to are different  *)
(* boards, so what "wipe" and "load" have done stays done.                  *)

HalfAndFpga ==
  \A name \in {"sar", "elec_reco"} \cap DOMAIN Waveform :
    /\ \A k, l \in DOMAIN Waveform[name] :
         LET from == Waveform[name][k].dev
         IN  from \in DOMAIN Partner(name) =>
               Waveform[name][l].dev # Partner(name)[from]
    /\ \E c \in ObjectsOf(name) : HomeBoard(name, c) = "fpga1"

Wiped(c)  == board[Board(source[c])] = Loaded("0")
LastFile  == Comps[Greatest(DOMAIN Comps)].file
Reloaded(c) == /\ Comps[c].target \in DOMAIN devicetable
               /\ board[Board(Comps[c].target)].code = LastFile

\* The components that moved, and the boards they moved between.
Halves ==
  /\ cmd.name \in {"sar", "elec_reco"} /\ app = HandleRequest(cmd.name)
  /\ \A c \in DOMAIN source : \E d \in DOMAIN Partner(cmd.name) :
       /\ source[c] = HandleRequest(d) /\ source[c] \in DOMAIN devicetable
       /\ Comps[c].target = HandleRequest(Partner(cmd.name)[d])
  /\ \A c \in DOMAIN Comps \ DOMAIN source : \A d \in DOMAIN Partner(cmd.name) :
       Comps[c].target # HandleRequest(d)
  /\ \A c, e \in DOMAIN source : Comps[c].target # source[e]

SwitchedInv ==
  /\ pc = "start" => cmd.f = "start"
  /\ pc \in {"wipe", "load", "route"} => Halves
  /\ pc = "wipe" => \A c \in DOMAIN source \ todo : Wiped(c)
  /\ pc = "load" => /\ \A c \in DOMAIN source : Wiped(c)
                    /\ \A c \in DOMAIN source \ todo : Reloaded(c)
  /\ pc = "route" => \A c \in DOMAIN source : Wiped(c) /\ Reloaded(c)
  /\ SwitchDone

\* A step outside the second half of a switch that does not end one.
LEMMA SwitchedKept ==
  ASSUME pc' \notin {"wipe", "load", "route"}, pc' = "start" => cmd'.f = "start",
         pc' = "idle" => \/ cmd'.f # "switch" \/ cmd'.name \notin {"sar", "elec_reco"}
                         \/ HandleRequest(cmd.name)' \notin DOMAIN apptable'
  PROVE  SwitchedInv'
BY DEF SwitchedInv, SwitchDone, Served

\* No component moves to a board another one leaves.
LEMMA Disjoint ==
  ASSUME HalfAndFpga, TypeOK, HandlesInv, TargetsInv, PlacementInv, pc = "move",
         NEW c \in DOMAIN Comps, NEW e \in DOMAIN Comps,
         NEW d \in DOMAIN Partner(cmd.name), Comps[c].target = HandleRequest(d)
  PROVE  HandleRequest(Partner(cmd.name)[d]) # Comps[e].target
<1>. DEFINE n == cmd.name
            home(o) == HomeBoard(n, o)
            away(o) == AwayBoard(n, o)
<1>1. /\ app \in DOMAIN apptable /\ DataOK /\ HandlesLive
      /\ app = HandleRequest(n) /\ n \in {"sar", "elec_reco"}
  BY DEF TypeOK, FrameOK, HandlesInv, PlacementInv, Switching
<1>2. apptable[app].name = n /\ n \in DOMAIN Waveform
  BY <1>1, FoundByName, ObjectsType
<1>3. \A o \in DOMAIN Comps : Comps[o].target \in DOMAIN devicetable
  BY <1>1 DEF TargetsInv, Unsettled, Comps
<1>4. \A o \in DOMAIN Comps : \E k \in DOMAIN Waveform[n] : home(o) = Waveform[n][k].dev
  <2>1. DOMAIN Comps \subseteq ObjectsOf(n)
    BY <1>1, <1>2 DEF PlacementInv, Objects, Comps
  <2>. QED  BY <1>2, <2>1, HomeLine
<1>5. \A o, q \in DOMAIN Comps : home(o) \in DOMAIN Partner(n) =>
         home(q) # Partner(n)[home(o)]
  <2>. HIDE DEF home
  <2>. QED  BY <1>1, <1>2, <1>4 DEF HalfAndFpga
<1>6. \A x, y : HandleRequest(x) = HandleRequest(y)
                  /\ HandleRequest(x) \in DOMAIN devicetable => x = y
  BY <1>1, FoundBoard
<1>7. CASE \A o \in DOMAIN Comps : Comps[o].target = HandleRequest(home(o))
  <2>. HIDE DEF home, n
  <2>1. d = home(c)
    BY <1>3, <1>6, <1>7
  <2>2. Partner(n)[d] # home(e)
    BY <1>5, <2>1 DEF n
  <2>. QED  BY <1>3, <1>6, <1>7, <2>2 DEF n
<1>8. CASE \A o \in DOMAIN Comps : Comps[o].target = HandleRequest(away(o))
  <2>1. d = away(c)
    <3>. HIDE DEF away
    <3>. QED  BY <1>3, <1>6, <1>8
  <2>2. home(c) \in DOMAIN Partner(n) /\ away(c) = Partner(n)[home(c)]
    BY <2>1 DEF AwayBoard
  <2>3. Partner(n)[d] = home(c)
    BY <2>1, <2>2, ThereAndBack
  <2>4. away(e) # home(c)
    <3>1. CASE home(e) \in DOMAIN Partner(n)
      <4>1. away(e) = Partner(n)[home(e)]
        BY <3>1 DEF AwayBoard
      <4>. HIDE DEF home, away, n
      <4>. QED  BY <1>5, <3>1, <4>1
    <3>2. CASE home(e) \notin DOMAIN Partner(n)
      BY <2>2, <3>2 DEF AwayBoard
    <3>. QED  BY <3>1, <3>2
  <2>. HIDE DEF home, away
  <2>. QED  BY <1>3, <1>6, <1>8, <2>3, <2>4
<1>. QED  BY <1>1, <1>2, <1>7, <1>8 DEF PlacementInv, PlacementWhole, PlacedAt, Comps

\* What the first loop of the switch methods leaves alone, and what it changes.
LEMMA MoveTables ==
  ASSUME TypeOK, Move
  PROVE  /\ UNCHANGED <<app, devicetable, cmd, board>>
         /\ \A n : HandleRequest(n)' = HandleRequest(n)
         /\ DOMAIN Comps' = DOMAIN Comps
         /\ \A c \in Moving : Comps'[c].target = Destination(Comps[c].target)
         /\ \A c \in DOMAIN Comps \ Moving : Comps'[c] = Comps[c]
         /\ todo' = Moving /\ DOMAIN source' = Moving
         /\ \A c \in Moving : source'[c] = Comps[c].target
<1>. DEFINE moved == [apptable EXCEPT ![app].comps = Moved(Comps)]
<1>1. /\ app \in DOMAIN apptable /\ apptable' = moved
      /\ UNCHANGED <<app, devicetable, cmd, board>>
      /\ Table(apptable) /\ AppBase(apptable[app])
      /\ todo' = Moving /\ source' = [c \in Moving |-> Comps[c].target]
  BY DEF Move, TypeOK, FrameOK, DataOK, Keep, Comps
<1>2. /\ DOMAIN Moved(Comps) = DOMAIN Comps /\ Moving \subseteq DOMAIN Comps
      /\ \A c \in DOMAIN Comps \ Moving : Moved(Comps)[c] = Comps[c]
      /\ \A c \in Moving : Moved(Comps)[c] =
           [Comps[c] EXCEPT !.target = Destination(Comps[c].target)]
  BY DEF Moved, Moving
<1>3. /\ DOMAIN moved = DOMAIN apptable /\ moved[app].comps = Moved(Comps)
      /\ \A i \in DOMAIN apptable : moved[i].name = apptable[i].name
  BY <1>1 DEF Table, AppBase
<1>. HIDE DEF moved
<1>4. \A n : HandleRequest(n)' = HandleRequest(n)
  BY <1>1, <1>3, SameNames
<1>5. Comps' = Moved(Comps)
  BY <1>1, <1>3 DEF Comps
<1>6. \A c \in DOMAIN Comps : Comps[c] \in [file : Files, target : Nat \cup {SSDP_ERROR}]
  BY <1>1, CompsType DEF ComponentList
<1>7. ASSUME NEW c \in Moving PROVE Comps'[c].target = Destination(Comps[c].target)
  <2>1. Comps[c] \in [file : Files, target : Nat \cup {SSDP_ERROR}]
    BY <1>2, <1>6
  <2>2. Comps'[c] = [Comps[c] EXCEPT !.target = Destination(Comps[c].target)]
    BY <1>2, <1>5
  <2>. QED  BY <2>1, <2>2
<1>. QED  BY <1>1, <1>2, <1>4, <1>5, <1>7

\* The first loop settles which components move and between which boards.
LEMMA SwitchedMove ==
  ASSUME HalfAndFpga, TypeOK, HandlesInv, TargetsInv, PlacementInv, Move
  PROVE  SwitchedInv'
<1>1. /\ pc = "move" /\ pc' = IF Stuck # {} THEN "spin" ELSE "wipe"
      /\ app \in DOMAIN apptable /\ DataOK /\ HandlesLive
      /\ app = HandleRequest(cmd.name) /\ cmd.name \in {"sar", "elec_reco"}
  BY DEF Move, TypeOK, FrameOK, HandlesInv, PlacementInv, Switching
<1>2. \A c \in DOMAIN Comps : Comps[c].target \in DOMAIN devicetable
  BY <1>1 DEF TargetsInv, Unsettled, Comps
<1>3. CASE Stuck # {}
  BY <1>1, <1>3, SwitchedKept
<1>4. CASE Stuck = {}
  <2>1. Moving = {c \in DOMAIN Comps : Movable(Comps[c].target) # {}}
    BY <1>4 DEF Moving
  <2>2. \A c \in Moving : \E d \in DOMAIN Partner(cmd.name) :
          /\ Comps[c].target = HandleRequest(d)
          /\ Destination(Comps[c].target) = HandleRequest(Partner(cmd.name)[d])
    <3>1. ASSUME NEW c \in Moving
          PROVE  \E d \in DOMAIN Partner(cmd.name) : Comps[c].target = HandleRequest(d)
      BY <2>1 DEF Movable
    <3>2. ASSUME NEW c \in Moving, NEW d \in DOMAIN Partner(cmd.name),
                 Comps[c].target = HandleRequest(d)
          PROVE  Destination(Comps[c].target) = HandleRequest(Partner(cmd.name)[d])
      BY <1>1, <1>2, <2>1, <3>2, Recognised
    <3>. QED  BY <3>1, <3>2
  <2>3. \A c \in DOMAIN Comps \ Moving : \A d \in DOMAIN Partner(cmd.name) :
          Comps[c].target # HandleRequest(d)
    BY <2>1 DEF Movable
  <2>4. \A c, e \in Moving : Destination(Comps[c].target) # Comps[e].target
    <3>1. Moving \subseteq DOMAIN Comps
      BY <2>1
    <3>. QED  BY <1>1, <2>2, <3>1, Disjoint
  <2>5. PICK n : n = cmd.name
    OBVIOUS
  <2>6. /\ cmd'.name = n /\ HandleRequest(cmd.name)' = HandleRequest(n)
        /\ UNCHANGED <<app, devicetable>>
        /\ \A d : HandleRequest(d)' = HandleRequest(d)
        /\ DOMAIN Comps' = DOMAIN Comps
        /\ \A c \in Moving : Comps'[c].target = Destination(Comps[c].target)
        /\ \A c \in DOMAIN Comps \ Moving : Comps'[c] = Comps[c]
        /\ todo' = Moving /\ DOMAIN source' = Moving
        /\ \A c \in Moving : source'[c] = Comps[c].target
    BY <2>5, MoveTables
  <2>7. \A c \in DOMAIN source' : \E d \in DOMAIN Partner(n) :
          /\ source'[c] = HandleRequest(d)' /\ source'[c] \in DOMAIN devicetable'
          /\ Comps'[c].target = HandleRequest(Partner(n)[d])'
    <3>1. SUFFICES ASSUME NEW c \in Moving
                   PROVE  \E d \in DOMAIN Partner(n) :
                            /\ source'[c] = HandleRequest(d)'
                            /\ source'[c] \in DOMAIN devicetable'
                            /\ Comps'[c].target = HandleRequest(Partner(n)[d])'
      BY <2>6
    <3>2. PICK d \in DOMAIN Partner(n) :
            /\ Comps[c].target = HandleRequest(d)
            /\ Destination(Comps[c].target) = HandleRequest(Partner(n)[d])
      BY <2>2, <2>5
    <3>3. Comps[c].target \in DOMAIN devicetable
      BY <1>2, <2>1
    <3>4. source'[c] = Comps[c].target /\ Comps'[c].target = Destination(Comps[c].target)
      BY <2>6
    <3>5. /\ HandleRequest(d)' = HandleRequest(d)
          /\ HandleRequest(Partner(n)[d])' = HandleRequest(Partner(n)[d])
      BY MoveTables
    <3>. QED  BY <2>6, <3>2, <3>3, <3>4, <3>5
  <2>8. \A c \in DOMAIN Comps' \ DOMAIN source' : \A d \in DOMAIN Partner(n) :
          Comps'[c].target # HandleRequest(d)'
    BY <2>3, <2>5, <2>6
  <2>9. \A c, e \in DOMAIN source' : Comps'[c].target # source'[e]
    BY <2>4, <2>6
  <2>10. Halves'
    BY <1>1, <2>5, <2>6, <2>7, <2>8, <2>9 DEF Halves
  <2>. QED  BY <1>1, <1>4, <2>6, <2>10 DEF SwitchedInv, SwitchDone, Served
<1>. QED  BY <1>3, <1>4

\* A loop of the switch goes on with the component it stands at obeyed to, or hangs.
LEMMA LoadObeyed ==
  ASSUME Obeying, TypeOK, NEW id, NEW file, LoadDevice(id, file)
  PROVE  \/ pc' = "hung"
         \/ /\ pc' = pc /\ todo' = todo \ {Current}
            /\ board' = [board EXCEPT ![Board(id)] = Loaded(file)]
BY AnswersAssumption
   DEF LoadDevice, Apply, Proceed, Answered, Obeyed, Obeying, Rest

\* What Halves says depends on none of what the loops that follow change.
LEMMA HalvesKept ==
  ASSUME Halves, UNCHANGED <<apptable, devicetable, app, source, cmd>>
  PROVE  Halves' /\ Comps' = Comps /\ \A t : Board(t)' = Board(t)
<1>1. \A n : HandleRequest(n)' = HandleRequest(n)
  BY SameNames
<1>2. Comps' = Comps /\ \A t : Board(t)' = Board(t)
  BY DEF Comps, Board
<1>. QED  BY <1>1, <1>2 DEF Halves

\* A board a switch leaves is another board than one it goes to.
LEMMA OtherBoard ==
  ASSUME DataOK, HandlesLive, Halves, NEW c \in DOMAIN source, NEW e \in DOMAIN source,
         Comps[c].target \in DOMAIN devicetable
  PROVE  Board(Comps[c].target) # Board(source[e])
<1>1. PICK x : Comps[c].target = HandleRequest(x)
  BY DEF Halves
<1>2. PICK y : source[e] = HandleRequest(y) /\ source[e] \in DOMAIN devicetable
  BY DEF Halves
<1>3. Comps[c].target # source[e]
  BY DEF Halves
<1>. QED  BY <1>1, <1>2, <1>3, FoundBoard DEF Board

\* One turn of the loop that loads "0".
LEMMA SwitchedWipe ==
  ASSUME Obeying, TypeOK, HandlesInv, SwitchedInv, Wipe
  PROVE  SwitchedInv'
<1>1. /\ pc = "wipe" /\ todo # {} /\ todo \subseteq DOMAIN source /\ Halves
      /\ LoadDevice(source[Current], "0") /\ board \in [Boards -> BoardState]
      /\ UNCHANGED <<apptable, devicetable, app, source, cmd>> /\ DataOK
  BY DEF Wipe, TypeOK, FrameOK, DataOK, SwitchedInv, Keep
<1>2. Halves' /\ \A t : Board(t)' = Board(t)
  BY <1>1, HalvesKept
<1>3. CASE pc' = "hung"
  BY <1>3, SwitchedKept
<1>4. CASE /\ pc' = pc /\ todo' = todo \ {Current}
           /\ board' = [board EXCEPT ![Board(source[Current])] = Loaded("0")]
  <2>1. Current \in DOMAIN source
    BY <1>1, CurrentIn
  <2>2. \A c \in DOMAIN source : Board(source[c]) \in DOMAIN board
    BY <1>1 DEF Halves, DataOK, Board
  <2>3. ASSUME NEW c \in DOMAIN source \ todo' PROVE Wiped(c)'
    <3>1. c = Current \/ c \in DOMAIN source \ todo
      BY <1>4, <2>3
    <3>2. board'[Board(source[c])] = Loaded("0")
      <4>. HIDE DEF Current
      <4>. QED  BY <1>1, <1>4, <2>1, <2>2, <3>1 DEF SwitchedInv, Wiped
    <3>. QED  BY <1>1, <1>2, <3>2 DEF Wiped
  <2>. QED  BY <1>1, <1>2, <1>4, <2>3 DEF SwitchedInv, SwitchDone, Served
<1>. QED  BY <1>1, <1>3, <1>4, LoadObeyed

\* One turn of the loop that loads the application's code.
LEMMA SwitchedLoad ==
  ASSUME Obeying, TypeOK, HandlesInv, SwitchedInv, Load
  PROVE  SwitchedInv'
<1>1. /\ pc = "load" /\ todo # {} /\ todo \subseteq DOMAIN source /\ Halves
      /\ DataOK /\ HandlesLive /\ board \in [Boards -> BoardState]
  BY DEF Load, TypeOK, FrameOK, DataOK, HandlesInv, SwitchedInv
<1>2. CASE Comps[Current].target \notin DOMAIN devicetable
  BY <1>2, SwitchedKept DEF Load, Crash, Memory
<1>3. CASE Comps[Current].target \in DOMAIN devicetable
  <2>. DEFINE id == Comps[Current].target
  <2>1. /\ LoadDevice(id, LastFile)
        /\ UNCHANGED <<apptable, devicetable, app, source, cmd>>
    BY <1>3 DEF Load, Keep, LastFile
  <2>2. Halves' /\ Comps' = Comps /\ \A t : Board(t)' = Board(t)
    BY <1>1, <2>1, HalvesKept
  <2>3. CASE pc' = "hung"
    BY <2>3, SwitchedKept
  <2>4. CASE /\ pc' = pc /\ todo' = todo \ {Current}
             /\ board' = [board EXCEPT ![Board(id)] = Loaded(LastFile)]
    <3>1. Current \in DOMAIN source
      BY <1>1, CurrentIn
    <3>2. Board(id) \in DOMAIN board /\ Loaded(LastFile).code = LastFile
      BY <1>1, <1>3 DEF DataOK, Board, Loaded
    <3>3. ASSUME NEW c \in DOMAIN source PROVE Wiped(c)'
      <4>1. Board(id) # Board(source[c])
        BY <1>1, <1>3, <3>1, OtherBoard
      <4>2. Wiped(c)
        BY <1>1 DEF SwitchedInv
      <4>. QED  BY <2>1, <2>2, <2>4, <4>1, <4>2 DEF Wiped
    <3>4. ASSUME NEW c \in DOMAIN source \ todo' PROVE Reloaded(c)'
      <4>1. c = Current \/ Reloaded(c)
        BY <1>1, <2>4, <3>4 DEF SwitchedInv
      <4>2. /\ Comps[c].target \in DOMAIN devicetable
            /\ board'[Board(Comps[c].target)].code = LastFile
        <5>. HIDE DEF Current
        <5>. QED  BY <1>3, <2>4, <3>2, <4>1 DEF Reloaded
      <4>. QED  BY <2>1, <2>2, <4>2 DEF Reloaded, LastFile
    <3>. QED
      BY <1>1, <2>1, <2>2, <2>4, <3>3, <3>4 DEF SwitchedInv, SwitchDone, Served
  <2>. QED  BY <2>1, <2>3, <2>4, LoadObeyed
<1>. QED  BY <1>2, <1>3

\* A component found on a board of the list has moved there, from its partner.
LEMMA MovedThere ==
  ASSUME DataOK, HandlesLive, Halves, NEW c \in DOMAIN Comps, NEW w,
         Comps[c].target = HandleRequest(w), Comps[c].target \in DOMAIN devicetable,
         w \in DOMAIN Partner(cmd.name)
  PROVE  /\ c \in DOMAIN source /\ Board(Comps[c].target) = w
         /\ Board(source[c]) = Partner(cmd.name)[w]
         /\ source[c] = HandleRequest(Partner(cmd.name)[w])
<1>1. c \in DOMAIN source
  BY DEF Halves
<1>2. PICK d \in DOMAIN Partner(cmd.name) :
        /\ source[c] = HandleRequest(d) /\ source[c] \in DOMAIN devicetable
        /\ Comps[c].target = HandleRequest(Partner(cmd.name)[d])
  BY <1>1 DEF Halves
<1>3. Board(Comps[c].target) = w /\ w = Partner(cmd.name)[d]
  BY <1>2, FoundBoard DEF Board
<1>4. d = Partner(cmd.name)[w]
  BY <1>3, ThereAndBack
<1>. QED  BY <1>1, <1>2, <1>3, <1>4, FoundBoard DEF Board

\* The components that lead the samples are all on the same board, and the route
\* message names it.
LEMMA RouteLeads ==
  ASSUME DataOK, HandlesLive, Halves,
         \A c \in DOMAIN Comps : Comps[c].target \in DOMAIN devicetable,
         DOMAIN source \subseteq DOMAIN Comps, DOMAIN source \in SUBSET Nat,
         NEW leads, leads = {c \in DOMAIN source : Comps[c].target \in
                               {HandleRequest("dsp1"), HandleRequest("dsp3")}},
         NEW c \in DOMAIN Comps
  PROVE  /\ Comps[c].target = HandleRequest("dsp1") =>
              leads # {} /\ RouteMessage(leads) \in {"switch01_radar", "switch0_elec"}
         /\ Comps[c].target = HandleRequest("dsp3") =>
              leads # {} /\ RouteMessage(leads) \in {"switch23_radar", "switch2_elec"}
<1>. DEFINE one == HandleRequest("dsp1")  three == HandleRequest("dsp3")
            P == Partner(cmd.name)
<1>1. /\ "dsp1" \in DOMAIN P /\ P["dsp1"] = "dsp3"
      /\ "dsp3" \in DOMAIN P /\ P["dsp3"] = "dsp1"
  BY DEF Halves, Partner
<1>2. \A l \in DOMAIN Comps :
        /\ Comps[l].target = one => l \in DOMAIN source /\ source[l] = three
        /\ Comps[l].target = three => l \in DOMAIN source /\ source[l] = one
  BY <1>1, MovedThere
<1>3. leads # {} => Least(leads) \in leads
  BY LeastIn
<1>4. Comps[c].target \in {one, three} => c \in leads
  BY <1>2
<1>5. \A l \in leads : Comps[l].target \in {one, three} /\ l \in DOMAIN source
  OBVIOUS
<1>6. \A l, m \in DOMAIN source : Comps[l].target # source[m]
  BY DEF Halves
<1>7. CASE Comps[c].target = one
  <2>1. leads # {} /\ Least(leads) \in leads
    BY <1>3, <1>4, <1>7
  <2>2. Comps[Least(leads)].target = one
    BY <1>2, <1>5, <1>6, <1>7, <2>1
  <2>3. three # one
    BY <1>2, <1>6, <1>7
  <2>. QED  BY <1>7, <2>1, <2>2, <2>3 DEF RouteMessage
<1>8. CASE Comps[c].target = three
  <2>1. leads # {} /\ Least(leads) \in leads
    BY <1>3, <1>4, <1>8
  <2>2. three # one
    BY <1>2, <1>6, <1>8
  <2>3. Comps[Least(leads)].target # one
    BY <1>2, <1>5, <1>6, <1>8, <2>1
  <2>. QED  BY <1>8, <2>1, <2>2, <2>3 DEF RouteMessage
<1>. QED  BY <1>7, <1>8

\* The FPGA of an application that can move is the one the name leads to.
LEMMA FpgaThere ==
  ASSUME HalfAndFpga, TypeOK, PlacementInv, CrashInv, NEW i \in DOMAIN apptable,
         pc = "route", apptable[i].name \in {"sar", "elec_reco"},
         \A c \in Objects(i) : apptable[i].comps[c].target \in DOMAIN devicetable
  PROVE  HandleRequest("fpga1") \in DOMAIN devicetable
<1>. DEFINE n == apptable[i].name
<1>1. n \in DOMAIN Waveform
  BY ObjectsType DEF TypeOK
<1>2. PICK c \in ObjectsOf(n) : HomeBoard(n, c) = "fpga1"
  BY <1>1 DEF HalfAndFpga
<1>3. c \in Objects(i)
  BY <1>2 DEF CrashInv, ComponentsInv
<1>4. AwayBoard(n, c) = "fpga1"
  BY <1>2 DEF AwayBoard, Partner, Empty
<1>5. apptable[i].comps[c].target = HandleRequest("fpga1")
  BY <1>2, <1>3, <1>4 DEF PlacementInv, PlacementWhole, PlacedAt, Objects
<1>. QED  BY <1>3, <1>5

\* The switch ends as SwitchDone says: the boards left and gone to stay as the
\* loops have made them, and the FPGA gets the message.
LEMMA SwitchedRoute ==
  ASSUME Obeying, HalfAndFpga, TypeOK, HandlesInv, TargetsInv, PlacementInv,
         CrashInv, SwitchedInv, Route
  PROVE  SwitchedInv'
<1>. DEFINE n == cmd.name
            fpga  == HandleRequest("fpga1")
            leads == {c \in DOMAIN source : Comps[c].target \in
                        {HandleRequest("dsp1"), HandleRequest("dsp3")}}
            dsps == BoardsOf(app) \cap DOMAIN Partner(n)
            msg == RouteMessage(leads)
<1>1. /\ pc = "route" /\ DataOK /\ HandlesLive /\ app \in DOMAIN apptable
      /\ Halves /\ app = HandleRequest(n) /\ n \in {"sar", "elec_reco"}
      /\ UNCHANGED <<apptable, devicetable, cmd>>
      /\ DOMAIN source \subseteq DOMAIN Comps /\ DOMAIN source \in SUBSET Nat
      /\ board \in [Boards -> BoardState]
  <2>1. pc = "route" /\ UNCHANGED <<apptable, devicetable, cmd>>
    BY DEF Route, Keep
  <2>2. DOMAIN source \in SUBSET Nat
    BY WaveformAssumption DEF TypeOK, DataOK
  <2>. QED  BY <2>1, <2>2 DEF TypeOK, FrameOK, DataOK, HandlesInv, SwitchedInv, Halves
<1>2. apptable[app].name = n
  BY <1>1, FoundByName
<1>3. \A c \in DOMAIN Comps : Comps[c].target \in DOMAIN devicetable
  BY <1>1 DEF TargetsInv, Unsettled, Comps
<1>4. fpga \in DOMAIN devicetable /\ Board(fpga) = "fpga1"
  <2>1. \A c \in Objects(app) : apptable[app].comps[c].target \in DOMAIN devicetable
    BY <1>3 DEF Objects, Comps
  <2>2. fpga \in DOMAIN devicetable
    BY <1>1, <1>2, <2>1, FpgaThere
  <2>. QED  BY <1>1, <2>2, FoundBoard DEF Board
<1>5. ASSUME NEW d \in dsps
      PROVE  \E c \in DOMAIN source :
               /\ Comps[c].target = HandleRequest(d) /\ Board(Comps[c].target) = d
               /\ Board(source[c]) = Partner(n)[d]
  <2>1. PICK c \in DOMAIN Comps : d = Board(Comps[c].target)
    BY DEF BoardsOf, Comps, Board
  <2>2. PICK w : Comps[c].target = HandleRequest(w)
    BY <1>1, <1>2 DEF PlacementInv, PlacementWhole, PlacedAt, Comps
  <2>3. w = d
    BY <1>1, <1>3, <2>1, <2>2, FoundBoard DEF Board
  <2>. QED  BY <1>1, <1>3, <2>1, <2>2, <2>3, MovedThere
<1>6. \A d \in dsps : /\ board[d].code = LastFile
                      /\ board[Partner(n)[d]] = Loaded("0")
                      /\ d # "fpga1" /\ Partner(n)[d] # "fpga1"
  <2>1. \A d \in DOMAIN Partner(n) : d # "fpga1" /\ Partner(n)[d] # "fpga1"
    BY DEF Partner, Empty
  <2>. QED  BY <1>1, <1>5, <2>1 DEF SwitchedInv, Wiped, Reloaded
<1>7. \A d \in dsps :
        /\ d = "dsp1" => leads # {} /\ msg \in {"switch01_radar", "switch0_elec"}
        /\ d = "dsp3" => leads # {} /\ msg \in {"switch23_radar", "switch2_elec"}
  <2>. HIDE DEF leads
  <2>1. ASSUME NEW c \in DOMAIN Comps
        PROVE  /\ Comps[c].target = HandleRequest("dsp1") =>
                    leads # {} /\ msg \in {"switch01_radar", "switch0_elec"}
               /\ Comps[c].target = HandleRequest("dsp3") =>
                    leads # {} /\ msg \in {"switch23_radar", "switch2_elec"}
    BY <1>1, <1>3, RouteLeads DEF leads
  <2>. HIDE DEF msg, dsps
  <2>. QED  BY <1>1, <1>5, <2>1
<1>8. ASSUME pc' = "idle",
             \A d \in dsps : /\ board'[d].code = LastFile
                             /\ board'[Partner(n)[d]] = Loaded("0"),
             "dsp1" \in dsps => board'["fpga1"].route \in {"switch01_radar", "switch0_elec"},
             "dsp3" \in dsps => board'["fpga1"].route \in {"switch23_radar", "switch2_elec"}
      PROVE  SwitchedInv'
  <2>1. PICK i, name : i = app /\ name = n
    OBVIOUS
  <2>2. HandleRequest(cmd.name)' = i /\ cmd'.name = name
    BY <1>1, <2>1 DEF HandleRequest
  <2>3. BoardsOf(i)' = BoardsOf(i)
    BY <1>1 DEF BoardsOf
  <2>4. /\ BoardsOf(i)' \cap DOMAIN Partner(name) = dsps
        /\ apptable'[i].comps[Greatest(DOMAIN apptable'[i].comps)].file = LastFile
    BY <1>1, <2>1, <2>3 DEF LastFile, Comps
  <2>. HIDE DEF dsps
  <2>5. SwitchDone'
    BY <1>8, <2>1, <2>2, <2>4 DEF SwitchDone
  <2>. QED  BY <1>8, <2>5 DEF SwitchedInv
<1>9. CASE pc' = "hung"
  BY <1>9, SwitchedKept
<1>10. CASE pc' = "idle" /\ UNCHANGED board /\ leads = {}
  <2>. HIDE DEF leads, msg, dsps
  <2>. QED  BY <1>6, <1>7, <1>8, <1>10
<1>11. CASE pc' = "idle" /\ board' = [board EXCEPT !["fpga1"] = Routed(board["fpga1"], msg)]
  <2>1. "fpga1" \in DOMAIN board
    BY <1>1, <1>4 DEF DataOK, Board
  <2>2. board'["fpga1"].route = msg
    <3>1. board["fpga1"] \in BoardState
      BY <1>1, <2>1
    <3>2. Routed(board["fpga1"], msg).route = msg
      <4>. HIDE DEF msg
      <4>. QED  BY <3>1 DEF Routed, BoardState
    <3>. HIDE DEF msg
    <3>. QED  BY <1>11, <2>1, <3>2
  <2>3. \A d \in dsps : /\ board'[d].code = LastFile
                        /\ board'[Partner(n)[d]] = Loaded("0")
    <3>. HIDE DEF msg, dsps, n
    <3>. QED  BY <1>6, <1>11
  <2>. HIDE DEF leads, msg, dsps
  <2>. QED  BY <1>7, <1>8, <1>11, <2>2, <2>3
<1>12. \/ pc' = "hung" \/ (pc' = "idle" /\ UNCHANGED board /\ leads = {})
       \/ /\ pc' = "idle"
          /\ board' = [board EXCEPT !["fpga1"] = Routed(board["fpga1"], msg)]
  <2>1. CASE leads = {}
    BY <2>1 DEF Route, Done
  <2>2. CASE leads # {}
    <3>1. PICK ans \in Answers :
            /\ Apply(Board(fpga), ans, Routed(board[Board(fpga)], msg))
            /\ Conclude(ans)
      BY <1>4, <2>2 DEF Route
    <3>. HIDE DEF msg
    <3>. QED  BY <1>4, <3>1, AnswersAssumption
              DEF Apply, Conclude, Done, Answered, Obeyed, Obeying
  <2>. QED  BY <2>1, <2>2
<1>. QED  BY <1>9, <1>10, <1>11, <1>12

\* A command is received: a switch of something that cannot move is no switch.
LEMMA SwitchedReceive ==
  ASSUME TypeOK, HandlesInv, NEW c \in Commands, ReceiveCommand(c)
  PROVE  SwitchedInv'
<1>. DEFINE toid == HandleRequest(c.name)
<1>1. cmd' = c /\ SSDP_ERROR \notin DOMAIN apptable
  BY DEF ReceiveCommand, TypeOK, DataOK, Table, SSDP_ERROR
<1>2. CASE c.f # "switch"
  <2>1. pc' \notin {"wipe", "load", "route"}
    BY <1>2, ReceiveTables DEF Memory
  <2>2. pc' = "start" => c.f = "start"
    BY <1>2 DEF ReceiveCommand, StartOrStop, Configure, Reconstruct, InstantiateApp,
                Return, Call, Crash, Memory
  <2>. QED  BY <1>1, <1>2, <2>1, <2>2, SwitchedKept
<1>3. CASE c.f = "switch"
  <2>1. Switch(c, toid)
    BY <1>3 DEF ReceiveCommand
  <2>2. CASE pc' = "stop"
    BY <2>2, SwitchedKept
  <2>3. ASSUME UNCHANGED registry PROVE HandleRequest(cmd.name)' = toid
    BY <1>1, <2>3 DEF HandleRequest, registry
  <2>4. CASE UNCHANGED registry /\ pc' = "idle"
             /\ (toid \notin DOMAIN apptable \/ c.name \notin {"sar", "elec_reco"})
    BY <1>1, <2>3, <2>4, SwitchedKept DEF registry
  <2>. QED  BY <1>1, <2>1, <2>2, <2>4 DEF Switch, Call, Return
<1>. QED  BY <1>2, <1>3

\* Every step keeps what the switch in progress, or the last one, has made.
LEMMA SwitchedStep ==
  ASSUME Obeying, HalfAndFpga, TypeOK, HandlesInv, TargetsInv, PlacementInv,
         CrashInv, SwitchedInv, [Next]_vars
  PROVE  SwitchedInv'
<1>1. CASE InstantiateDevice
  BY <1>1, SwitchedKept DEF InstantiateDevice
<1>2. CASE Listen
  <2>1. DOMAIN apptable' = {}
    BY <1>2 DEF Listen, registry, PlacementInv
  <2>. QED  BY <1>2, <2>1, SwitchedKept DEF Listen
<1>3. CASE InstantiateComponent
  <2>1. pc' \in {"instantiate", "hung", "dead"}
    BY <1>3, ProceedCases DEF InstantiateComponent, LoadDevice, Crash, Memory
  <2>. QED  BY <2>1, SwitchedKept
<1>4. CASE TellComponent
  <2>1. pc' \in {"start", "stop", "hung"} /\ (pc' = "start" => cmd'.f = "start")
    BY <1>4, ProceedCases DEF TellComponent, Keep, SwitchedInv
  <2>. QED  BY <2>1, SwitchedKept
<1>5. CASE TellDevice
  <2>1. pc' \in {"idle", "hung"} /\ cmd'.f # "switch"
    BY <1>5 DEF TellDevice, Keep, Conclude, Done, TypeOK, FrameOK
  <2>. QED  BY <2>1, SwitchedKept
<1>6. CASE EndLoop
  <2>1. UNCHANGED <<apptable, devicetable, cmd, board>> /\ todo = {}
    BY <1>6 DEF EndLoop, Keep
  <2>2. CASE pc \in {"instantiate", "start"} \/ (pc = "stop" /\ cmd.f = "stop")
    <3>1. pc' = "idle" /\ cmd'.f # "switch"
      BY <1>6, <2>1, <2>2 DEF EndLoop, Done, CrashInv, SwitchInv, SwitchedInv
    <3>. QED  BY <3>1, SwitchedKept
  <2>3. CASE pc = "stop" /\ cmd.f # "stop"
    BY <1>6, <2>3, SwitchedKept DEF EndLoop
  <2>4. CASE pc = "wipe" /\ pc' = "load" /\ todo' = DOMAIN source
             /\ UNCHANGED <<app, source>>
    <3>1. Halves' /\ \A t : Board(t)' = Board(t)
      BY <2>1, <2>4, HalvesKept DEF SwitchedInv
    <3>2. \A c \in DOMAIN source : Wiped(c)'
      BY <2>1, <2>4, <3>1 DEF SwitchedInv, Wiped
    <3>. QED  BY <2>4, <3>1, <3>2 DEF SwitchedInv, SwitchDone, Served
  <2>5. CASE pc = "load" /\ pc' = "route" /\ UNCHANGED <<app, source>>
    <3>1. Halves' /\ Comps' = Comps /\ \A t : Board(t)' = Board(t)
      BY <2>1, <2>5, HalvesKept DEF SwitchedInv
    <3>2. \A c \in DOMAIN source : Wiped(c) /\ Reloaded(c)
      BY <2>1, <2>5 DEF SwitchedInv
    <3>3. \A c \in DOMAIN source : Wiped(c)' /\ Reloaded(c)'
      BY <2>1, <2>5, <3>1, <3>2 DEF Wiped, Reloaded, LastFile
    <3>. QED  BY <2>5, <3>1, <3>3 DEF SwitchedInv, SwitchDone, Served
  <2>. QED  BY <1>6, <2>2, <2>3, <2>4, <2>5 DEF EndLoop, Locals
<1>7. ASSUME NEW i \in DOMAIN apptable, AbortApp(i) PROVE SwitchedInv'
  BY <1>7, SwitchedKept DEF AbortApp, NoCommand
<1>8. CASE Killed \/ Restart
  BY <1>8, SwitchedKept DEF Killed, Restart, Crash, Memory
<1>9. CASE UNCHANGED vars
  <2>1. UNCHANGED <<apptable, devicetable, pc, app, todo, source, cmd, board>>
    BY <1>9 DEF vars, registry
  <2>2. \A t : Board(t)' = Board(t)
    BY <2>1 DEF Board
  <2>3. /\ \A c : Wiped(c)' <=> Wiped(c)
        /\ \A c : Reloaded(c)' <=> Reloaded(c)
    <3>1. Comps' = Comps
      BY <2>1 DEF Comps
    <3>. QED  BY <2>1, <2>2, <3>1 DEF Wiped, Reloaded, LastFile
  <2>4. Halves => Halves'
    BY <2>1, HalvesKept
  <2>5. SwitchDone'
    <3>1. HandleRequest(cmd.name)' = HandleRequest(cmd.name)
      BY <2>1 DEF HandleRequest
    <3>2. BoardsOf(HandleRequest(cmd.name))' = BoardsOf(HandleRequest(cmd.name))
      BY <2>1, <3>1 DEF BoardsOf
    <3>. QED  BY <2>1, <3>1, <3>2 DEF SwitchedInv, SwitchDone, Served
  <2>. QED  BY <2>1, <2>3, <2>4, <2>5 DEF SwitchedInv
<1>. QED  BY <1>1, <1>2, <1>3, <1>4, <1>5, <1>6, <1>7, <1>8, <1>9,
             SwitchedReceive, SwitchedMove, SwitchedWipe, SwitchedLoad, SwitchedRoute
          DEF Next, Progress

\* Boards that obey when they answer: when a switch has been answered, the boards
\* the application left hold "0" and do nothing, those it went to hold its code,
\* and the FPGA sends the samples there - however often it was switched before.
THEOREM SwitchCorrect == Obeying /\ HalfAndFpga => (Spec => []SwitchDone)
<1>. SUFFICES ASSUME Obeying, HalfAndFpga PROVE Spec => []SwitchDone
  OBVIOUS
<1>1. Init => HandlesInv /\ TargetsInv /\ PlacementInv /\ CrashInv /\ SwitchedInv
  BY DEF Init, HandlesInv, HandlesLive, TargetsInv, PlacementInv, PlacementWhole,
         Switching, CrashInv, ComponentsInv, SwitchInv,
         SwitchedInv, SwitchDone, Served, Empty, BEGIN_ID
<1>2. TypeOK /\ HandlesInv /\ [Next]_vars => HandlesInv'
  BY HandlesStep
<1>3. TypeOK /\ TargetsInv /\ [Next]_vars => TargetsInv'
  BY TargetsStep
<1>4. TypeOK /\ TypeOK' /\ HandlesInv /\ TargetsInv /\ PlacementInv /\ [Next]_vars
        => PlacementInv'
  BY PlacementStep
<1>5. TypeOK /\ HandlesInv /\ CrashInv /\ [Next]_vars => CrashInv'
  BY CrashStep
<1>6. TypeOK /\ HandlesInv /\ TargetsInv /\ PlacementInv /\ CrashInv
        /\ SwitchedInv /\ [Next]_vars => SwitchedInv'
  BY SwitchedStep
<1>7. SwitchedInv => SwitchDone
  BY DEF SwitchedInv
<1>. QED  BY TypeCorrect, <1>1, <1>2, <1>3, <1>4, <1>5, <1>6, <1>7, PTL DEF Spec

-----------------------------------------------------------------------------
(* The radar stream, for the sar.xml of the repository: one FPGA, two DSPs   *)
(* with code "2". Nobody commands boards past the application, and it is not *)
(* loaded again while an instance of it exists (UniqueAppNames).             *)

SarFile ==
  \E f \in Files : Waveform["sar"] =
    << [obj |-> 1, dev |-> "fpga1", file |-> f],
       [obj |-> 2, dev |-> "dsp1", file |-> "2"],
       [obj |-> 3, dev |-> "dsp2", file |-> "2"] >>

SarAlone ==
  /\ "sar" \in DOMAIN Waveform /\ SarFile
  /\ {"fpga1", "dsp1", "dsp2", "dsp3", "dsp4"} \subseteq Boards
  /\ \A c \in Commands : c.name = "sar"

\* There is at most one instance, and the command in progress is about it.
OneInv ==
  /\ \A i, j \in DOMAIN apptable : i = j
  /\ \A i \in DOMAIN apptable : apptable[i].name = "sar"
  /\ pc \notin {"boot", "dead", "idle"} => cmd.name = "sar"

Streaming == board["fpga1"].run = "sar"

BoardOf(i, c) == Board(apptable[i].comps[c].target)

Complete(i) == Objects(i) = {1, 2, 3} /\ apptable[i].comps[3].file = "2"

\* The route leads to the boards of the application, which have the radar code.
Ready(i) ==
  /\ BoardOf(i, 1) = "fpga1"
  /\ RoutedTo(board["fpga1"].route) = {BoardOf(i, 2), BoardOf(i, 3)}
  /\ \A c \in {2, 3} : board[BoardOf(i, c)].code = "2"

\* While sar.xml is read: the FPGA is the first to be loaded.
Reading ==
  /\ todo \in {{1, 2, 3}, {2, 3}, {3}, {}}
  /\ Objects(app) = {1, 2, 3} \ todo
  /\ used_device = {Waveform["sar"][k].dev : k \in {1, 2, 3} \ todo}
  /\ 1 \notin todo => ~Streaming /\ board["fpga1"].route = Reset
  /\ 2 \notin todo => board["dsp1"].code = "2"
  /\ 3 \notin todo => board["dsp2"].code = "2" /\ apptable[app].comps[3].file = "2"

StreamInv ==
  /\ StreamSafe
  /\ pc \notin {"instantiate", "hung"} => \A i \in DOMAIN apptable : Complete(i)
  /\ pc \in {"idle", "start", "stop", "device"} =>
       \A i \in DOMAIN apptable : Ready(i)
  /\ pc = "instantiate" => Reading
  /\ pc = "device" => cmd.f = "config"
  /\ pc = "start" => \A c \in {2, 3} \ todo : board[BoardOf(app, c)].run # Off
  /\ pc = "stop" /\ 1 \notin todo => ~Streaming
  /\ pc \in {"move", "wipe", "load", "route"} => ~Streaming

\* What the file says.
LEMMA SarParts ==
  ASSUME SarAlone
  PROVE  /\ DOMAIN Waveform["sar"] = {1, 2, 3} /\ ObjectsOf("sar") = {1, 2, 3}
         /\ Waveform["sar"][1].dev = "fpga1" /\ Waveform["sar"][1].obj = 1
         /\ Waveform["sar"][2].dev = "dsp1" /\ Waveform["sar"][2].obj = 2
         /\ Waveform["sar"][3].dev = "dsp2" /\ Waveform["sar"][3].obj = 3
         /\ Waveform["sar"][2].file = "2" /\ Waveform["sar"][3].file = "2"
<1>1. PICK f \in Files : Waveform["sar"] =
        << [obj |-> 1, dev |-> "fpga1", file |-> f],
           [obj |-> 2, dev |-> "dsp1", file |-> "2"],
           [obj |-> 3, dev |-> "dsp2", file |-> "2"] >>
  BY DEF SarAlone, SarFile
<1>2. DOMAIN Waveform["sar"] = {1, 2, 3}
  BY <1>1
<1>3. /\ Waveform["sar"][1].dev = "fpga1" /\ Waveform["sar"][1].obj = 1
      /\ Waveform["sar"][2].dev = "dsp1" /\ Waveform["sar"][2].obj = 2
      /\ Waveform["sar"][3].dev = "dsp2" /\ Waveform["sar"][3].obj = 3
      /\ Waveform["sar"][2].file = "2" /\ Waveform["sar"][3].file = "2"
  BY <1>1
<1>. QED  BY <1>2, <1>3 DEF ObjectsOf

\* Where it puts the components.
LEMMA SarPlaces ==
  ASSUME SarAlone
  PROVE  /\ HomeBoard("sar", 1) = "fpga1" /\ AwayBoard("sar", 1) = "fpga1"
         /\ HomeBoard("sar", 2) = "dsp1" /\ AwayBoard("sar", 2) = "dsp3"
         /\ HomeBoard("sar", 3) = "dsp2" /\ AwayBoard("sar", 3) = "dsp4"
<1>1. \A c \in {1, 2, 3} : \E k \in DOMAIN Waveform["sar"] :
        HomeBoard("sar", c) = Waveform["sar"][k].dev /\ Waveform["sar"][k].obj = c
  <2>1. ASSUME NEW c \in {1, 2, 3}
        PROVE  {k \in DOMAIN Waveform["sar"] : Waveform["sar"][k].obj = c} = {c}
    BY SarParts
  <2>2. \A c \in {1, 2, 3} : Least({c}) = c
    BY LeastIn
  <2>3. \A c \in {1, 2, 3} : HomeBoard("sar", c) = Waveform["sar"][c].dev
    BY <2>1, <2>2 DEF HomeBoard
  <2>. QED  BY <2>3, SarParts
<1>2. /\ HomeBoard("sar", 1) = "fpga1" /\ HomeBoard("sar", 2) = "dsp1"
      /\ HomeBoard("sar", 3) = "dsp2"
  BY <1>1, SarParts
<1>. QED  BY <1>2 DEF AwayBoard, Partner

\* While a component has a device, the application is on the boards of its file
\* or on their partners.
LEMMA SarBoards ==
  ASSUME SarAlone, DataOK, HandlesLive, PlacementInv, pc # "spin",
         NEW i \in DOMAIN apptable, apptable[i].name = "sar", Objects(i) = {1, 2, 3},
         \A c \in Objects(i) : apptable[i].comps[c].target \in DOMAIN devicetable
  PROVE  /\ BoardOf(i, 1) = "fpga1"
         /\ apptable[i].comps[1].target = HandleRequest("fpga1")
         /\ \/ PlacedAt(i, HomeBoard) /\ BoardOf(i, 2) = "dsp1" /\ BoardOf(i, 3) = "dsp2"
            \/ PlacedAt(i, AwayBoard) /\ BoardOf(i, 2) = "dsp3" /\ BoardOf(i, 3) = "dsp4"
<1>1. ASSUME NEW c \in Objects(i), NEW d, apptable[i].comps[c].target = HandleRequest(d)
      PROVE  BoardOf(i, c) = d
  BY <1>1, FoundBoard DEF BoardOf, Board
<1>2. CASE PlacedAt(i, HomeBoard)
  <2>1. /\ apptable[i].comps[1].target = HandleRequest("fpga1")
        /\ apptable[i].comps[2].target = HandleRequest("dsp1")
        /\ apptable[i].comps[3].target = HandleRequest("dsp2")
    BY <1>2, SarPlaces DEF PlacedAt, Objects
  <2>. QED  BY <1>1, <1>2, <2>1
<1>3. CASE PlacedAt(i, AwayBoard)
  <2>1. /\ apptable[i].comps[1].target = HandleRequest("fpga1")
        /\ apptable[i].comps[2].target = HandleRequest("dsp3")
        /\ apptable[i].comps[3].target = HandleRequest("dsp4")
    BY <1>3, SarPlaces DEF PlacedAt, Objects
  <2>. QED  BY <1>1, <1>3, <2>1
<1>. QED  BY <1>2, <1>3 DEF PlacementInv, PlacementWhole

\* No device bears the name of the application.
LEMMA SarNoDevice ==
  ASSUME SarAlone, DataOK, HandlesLive
  PROVE  HandleRequest("sar") \notin DOMAIN devicetable
BY FoundBoard, NamesAssumption DEF SarAlone

\* A step of a method renames no application and belongs to the same command.
LEMMA SameName ==
  ASSUME TypeOK, Progress, ~InstantiateDevice, ~Listen
  PROVE  \/ Memory("dead")
         \/ /\ UNCHANGED <<cmd, cur_id>> /\ pc \notin {"boot", "dead", "idle"}
            /\ DOMAIN apptable' = DOMAIN apptable
            /\ \A i \in DOMAIN apptable : apptable'[i].name = apptable[i].name
<1>1. ASSUME NEW a, NEW comps, apptable' = [apptable EXCEPT ![a].comps = comps]
      PROVE  /\ DOMAIN apptable' = DOMAIN apptable
             /\ \A i \in DOMAIN apptable : apptable'[i].name = apptable[i].name
  <2>1. Table(apptable) /\ \A i \in DOMAIN apptable : AppBase(apptable[i])
    BY DEF TypeOK, DataOK
  <2>. QED  BY <1>1, <2>1 DEF Table, AppBase
<1>2. CASE InstantiateComponent
  <2>. DEFINE new(x) == Insert(apptable[app].comps, x.obj,
                          [file |-> x.file, target |-> HandleRequest(x.dev)])
  <2>1. \/ Memory("dead")
        \/ /\ Keep
           /\ apptable' = [apptable EXCEPT ![app].comps = new(Waveform[cmd.name][Current])]
    BY <1>2 DEF InstantiateComponent, Crash
  <2>2. pc = "instantiate"
    BY <1>2 DEF InstantiateComponent
  <2>. HIDE DEF new
  <2>. QED  BY <1>1, <2>1, <2>2 DEF Keep
<1>3. CASE Move
  <2>1. apptable' = [apptable EXCEPT ![app].comps = Moved(apptable[app].comps)]
    BY <1>3 DEF Move
  <2>. QED  BY <1>1, <1>3, <2>1 DEF Move, Keep
<1>4. CASE TellComponent \/ TellDevice \/ EndLoop \/ Wipe \/ Load \/ Route
  BY <1>4 DEF TellComponent, TellDevice, EndLoop, Wipe, Load, Route, Keep, Crash
<1>. QED  BY <1>2, <1>3, <1>4 DEF Progress

\* A loaded application is the only one.
LEMMA OneLoaded ==
  ASSUME TypeOK, HandlesInv, OneInv, UniqueAppNames', GetNewHandleID,
         apptable' = Insert(apptable, cur_id, [name |-> "sar", comps |-> Empty])
  PROVE  /\ DOMAIN apptable = {} /\ DOMAIN apptable' = {cur_id}
         /\ apptable'[cur_id] = [name |-> "sar", comps |-> Empty]
<1>1. cur_id \notin DOMAIN apptable
  BY DEF TypeOK, DataOK, HandlesInv, HandlesLive
<1>2. /\ DOMAIN apptable' = DOMAIN apptable \cup {cur_id}
      /\ apptable'[cur_id] = [name |-> "sar", comps |-> Empty]
      /\ \A i \in DOMAIN apptable : apptable'[i] = apptable[i]
  BY <1>1 DEF Insert
<1>3. ASSUME NEW i \in DOMAIN apptable PROVE FALSE
  <2>1. apptable'[i].name = "sar" /\ apptable'[cur_id].name = "sar"
    BY <1>2 DEF OneInv
  <2>2. i = cur_id
    BY <1>2, <2>1 DEF UniqueAppNames
  <2>. QED  BY <1>1, <2>2
<1>. QED  BY <1>2, <1>3

\* A process never has a second instance while names are unique.
LEMMA OneStep ==
  ASSUME SarAlone, TypeOK, HandlesInv, PlacementInv, OneInv, UniqueAppNames', [Next]_vars
  PROVE  OneInv'
<1>1. ASSUME NEW newpc \in {"boot", "dead"}, Memory(newpc)
      PROVE  OneInv'
  BY <1>1, EmptyTables DEF OneInv, Memory
<1>2. CASE InstantiateDevice \/ Listen
  <2>1. DOMAIN apptable' = {} /\ pc' \in {"boot", "idle"}
    BY <1>2 DEF InstantiateDevice, Listen, PlacementInv, registry
  <2>. QED  BY <2>1 DEF OneInv
<1>3. CASE Progress /\ ~InstantiateDevice /\ ~Listen
  <2>1. CASE Memory("dead")
    BY <1>1, <2>1
  <2>2. pc' # "boot"
    BY <1>3, ProceedCases
       DEF Progress, InstantiateComponent, TellComponent, TellDevice, EndLoop, Move,
           Wipe, Load, Route, LoadDevice, Conclude, Done, Crash, Memory
  <2>. QED  BY <1>1, <1>3, <2>2, SameName DEF OneInv
<1>4. ASSUME NEW c \in Commands, ReceiveCommand(c) PROVE OneInv'
  <2>1. pc = "idle" /\ cmd' = c /\ c.name = "sar"
    BY <1>4 DEF ReceiveCommand, SarAlone
  <2>2. CASE Memory("dead")
    BY <1>1, <2>2
  <2>3. CASE UNCHANGED registry /\ pc' \in {"idle", "start", "stop", "device"}
    BY <2>1, <2>3 DEF registry, OneInv
  <2>4. CASE /\ GetNewHandleID /\ pc' = "instantiate"
             /\ apptable' = Insert(apptable, cur_id, [name |-> c.name, comps |-> Empty])
    BY <2>1, <2>4, OneLoaded DEF OneInv
  <2>. QED  BY <1>4, <2>2, <2>3, <2>4, ReceiveTables
<1>5. ASSUME NEW i \in DOMAIN apptable, AbortApp(i) PROVE OneInv'
  BY <1>5 DEF AbortApp, OneInv
<1>6. CASE Killed \/ Restart
  BY <1>1, <1>6 DEF Killed, Restart, Crash
<1>7. CASE UNCHANGED vars
  BY <1>7 DEF vars, registry, OneInv
<1>. QED  BY <1>2, <1>3, <1>4, <1>5, <1>6, <1>7 DEF Next

\* The endless wait for a board promises nothing but that the stream is safe.
LEMMA StreamHung ==
  ASSUME pc' \in {"hung", "dead", "boot"}, pc' # "hung" => DOMAIN apptable' = {},
         StreamSafe'
  PROVE  StreamInv'
BY DEF StreamInv

\* No object has gone or come, no board has changed: the states between commands.
LEMMA StreamKept ==
  ASSUME StreamInv, UNCHANGED <<apptable, devicetable, board>>,
         pc \in {"idle", "start", "stop", "device"}, pc' \in {"idle", "device"},
         pc' = "device" => cmd'.f = "config"
  PROVE  StreamInv'
<1>1. ASSUME NEW i \in DOMAIN apptable'
      PROVE  Complete(i)' /\ Ready(i)'
  BY DEF StreamInv, Complete, Ready, BoardOf, Board, Objects
<1>. QED  BY <1>1 DEF StreamInv, StreamSafe

\* A process that ends or starts leaves the boards alone.
LEMMA StreamMemory ==
  ASSUME StreamInv, NEW newpc \in {"boot", "dead"}, Memory(newpc), UNCHANGED board
  PROVE  StreamInv'
BY EmptyTables, StreamHung DEF Memory, StreamInv, StreamSafe

\* A command is received: start finds all components before it, and so does stop.
LEMMA StreamReceive ==
  ASSUME SarAlone, TypeOK, HandlesInv, OneInv, UniqueAppNames', StreamInv,
         NEW c \in Commands, ReceiveCommand(c)
  PROVE  StreamInv'
<1>. DEFINE toid == HandleRequest(c.name)
<1>1. /\ pc = "idle" /\ cmd' = c /\ c.name = "sar"
      /\ toid \notin DOMAIN devicetable
      /\ \A i \in DOMAIN apptable : Complete(i) /\ Ready(i)
  <2>1. pc = "idle" /\ cmd' = c /\ c.name = "sar"
    BY DEF ReceiveCommand, SarAlone
  <2>. QED  BY <2>1, SarNoDevice DEF TypeOK, HandlesInv, StreamInv
<1>2. ASSUME NEW res, Return(res) PROVE StreamInv'
  BY <1>1, <1>2, StreamKept DEF Return, registry
<1>3. CASE Crash
  BY <1>3, StreamMemory DEF Crash
<1>4. ASSUME NEW m \in {"start", "stop"}, toid \in DOMAIN apptable,
             \/ Call(m, toid, Reached(c.name, toid)) \/ Call(m, toid, Objects(toid))
      PROVE  StreamInv'
  <2>1. Reached(c.name, toid) = Objects(toid) /\ Objects(toid) = {1, 2, 3}
    BY <1>1, <1>4 DEF Reached, Complete
  <2>2. pc' = m /\ todo' = {1, 2, 3} /\ UNCHANGED <<apptable, devicetable, board>>
    BY <1>4, <2>1 DEF Call, registry
  <2>3. \A i \in DOMAIN apptable : Complete(i)' /\ Ready(i)'
    BY <1>1, <2>2 DEF Complete, Ready, BoardOf, Board, Objects
  <2>. QED  BY <2>2, <2>3 DEF StreamInv, StreamSafe
<1>5. CASE c.f \in {"start", "stop"}
  BY <1>1, <1>2, <1>4, <1>5 DEF ReceiveCommand, StartOrStop
<1>6. CASE c.f = "switch"
  BY <1>2, <1>4, <1>6 DEF ReceiveCommand, Switch
<1>7. CASE c.f = "config"
  <2>1. ASSUME NEW id, Call("device", id, {}) PROVE StreamInv'
    BY <1>1, <1>7, <2>1, StreamKept DEF Call, registry
  <2>. QED  BY <1>2, <1>3, <1>7, <2>1 DEF ReceiveCommand, Configure
<1>8. CASE c.f = "reconstruct"
  BY <1>1, <1>3, <1>8 DEF ReceiveCommand, Reconstruct
<1>9. CASE c.f = "loadapp"
  <2>1. InstantiateApp("sar") /\ "sar" \in DOMAIN Waveform
    BY <1>1, <1>9 DEF ReceiveCommand, SarAlone
  <2>2. /\ GetNewHandleID /\ pc' = "instantiate" /\ app' = cur_id
        /\ apptable' = Insert(apptable, cur_id, [name |-> "sar", comps |-> Empty])
        /\ todo' = {1, 2, 3} /\ used_device' = {} /\ UNCHANGED board
    BY <2>1, SarParts DEF InstantiateApp
  <2>3. DOMAIN apptable' = {cur_id} /\ apptable'[cur_id].comps = Empty
    BY <2>2, OneLoaded
  <2>4. PICK id : id = cur_id
    OBVIOUS
  <2>5. Objects(id)' = {}
    <3>1. apptable'[id].comps = Empty
      BY <2>3, <2>4
    <3>. QED  BY <3>1, EmptyTables DEF Objects
  <2>6. {Waveform["sar"][k].dev : k \in {1, 2, 3} \ todo'} = {}
    BY <2>2
  <2>. QED  BY <2>2, <2>4, <2>5, <2>6 DEF StreamInv, StreamSafe, Reading
<1>10. CASE c.f \notin {"start", "stop", "config", "reconstruct", "loadapp", "switch"}
  BY <1>2, <1>10 DEF ReceiveCommand
<1>. QED  BY <1>5, <1>6, <1>7, <1>8, <1>9, <1>10

\* Loading a board never starts a stream, and loading the FPGA ends one.
LEMMA LoadSafe ==
  ASSUME SarAlone, TypeOK, StreamSafe, NEW id \in DOMAIN devicetable, NEW file,
         LoadDevice(id, file), Board(id) = "fpga1" \/ ~Streaming
  PROVE  StreamSafe' /\ (~Streaming => ~Streaming')
<1>1. "fpga1" \in DOMAIN board /\ Loaded(file).run # "sar"
  BY OffAssumption DEF TypeOK, DataOK, SarAlone, Loaded
<1>2. PICK after : after = Loaded(file) /\ after.run # "sar"
  BY <1>1
<1>3. board' = board \/ board' = [board EXCEPT ![Board(id)] = after]
  BY <1>2 DEF LoadDevice, Apply
<1>4. CASE board' = board
  BY <1>4 DEF StreamSafe, Streaming
<1>5. CASE board' = [board EXCEPT ![Board(id)] = after]
  <2>1. ~Streaming'
    BY <1>1, <1>2, <1>5 DEF Streaming
  <2>. QED  BY <2>1 DEF Streaming, StreamSafe
<1>. QED  BY <1>3, <1>4, <1>5

\* The boards are loaded in the order of the file, the FPGA first: from then on
\* it does not stream, and its route leads to the boards of the file.
LEMMA StreamInstantiate ==
  ASSUME Obeying, SarAlone, TypeOK, HandlesInv, OneInv, StreamInv,
         InstantiateComponent
  PROVE  StreamInv'
<1>. DEFINE x == Waveform["sar"][Current]
            devid == HandleRequest(x.dev)
            new == [file |-> x.file, target |-> devid]
            comps == Insert(apptable[app].comps, x.obj, new)
<1>1. /\ pc = "instantiate" /\ todo # {} /\ cmd.name = "sar" /\ Reading
      /\ app \in DOMAIN apptable /\ DataOK /\ HandlesLive /\ StreamSafe
      /\ Table(apptable) /\ AppBase(apptable[app])
      /\ board \in [Boards -> BoardState]
  BY DEF InstantiateComponent, OneInv, StreamInv, TypeOK, FrameOK, HandlesInv, DataOK
<1>2. \/ todo = {1, 2, 3} /\ Current = 1
      \/ todo = {2, 3} /\ Current = 2
      \/ todo = {3} /\ Current = 3
  <2>1. Current = Least(todo) /\ todo \in SUBSET Nat
    BY <1>1 DEF Current, TypeOK, DataOK
  <2>2. Current \in todo /\ \A k \in todo : Current <= k
    BY <1>1, <2>1, LeastIn
  <2>. HIDE DEF Current
  <2>. QED  BY <1>1, <2>2 DEF Reading
<1>3. x.dev \notin used_device /\ x.obj = Current /\ Current \notin Objects(app)
  <2>. HIDE DEF Current
  <2>1. used_device = {Waveform["sar"][k].dev : k \in {1, 2, 3} \ todo}
    BY <1>1 DEF Reading
  <2>. QED  BY <1>1, <1>2, <2>1, SarParts DEF Reading
<1>4. CASE Memory("dead") /\ UNCHANGED board
  BY <1>4, StreamMemory
<1>5. CASE devid \in DOMAIN devicetable
  <2>1. /\ apptable' = [apptable EXCEPT ![app].comps = comps]
        /\ used_device' = used_device \cup {x.dev}
        /\ LoadDevice(devid, x.file) /\ UNCHANGED app /\ Keep
    BY <1>1, <1>3, <1>5 DEF InstantiateComponent
  <2>2. Board(devid) = x.dev /\ x.dev \in DOMAIN board
    BY <1>1, <1>5, FoundBoard DEF Board
  <2>3. StreamSafe' /\ (~Streaming => ~Streaming')
    <3>1. x.dev = "fpga1" \/ ~Streaming
      BY <1>1, <1>2, SarParts DEF Reading
    <3>. QED  BY <1>1, <1>5, <2>1, <2>2, <3>1, LoadSafe
  <2>4. CASE pc' = "hung"
    BY <2>3, <2>4, StreamHung
  <2>5. CASE /\ pc' = pc /\ todo' = todo \ {Current}
             /\ board' = [board EXCEPT ![x.dev] = Loaded(x.file)]
    <3>1. PICK id, cur : id = app /\ cur = Current
      OBVIOUS
    <3>2. /\ Objects(id)' = Objects(id) \cup {cur}
          /\ cur # 3 => \A c \in Objects(id) :
                          apptable'[id].comps[c].file = apptable[id].comps[c].file
          /\ apptable'[id].comps[cur].file = x.file
      <4>1. apptable'[id].comps = comps
        <5>. HIDE DEF comps
        <5>. QED  BY <1>1, <2>1, <3>1 DEF Table, AppBase
      <4>2. /\ DOMAIN comps = Objects(id) \cup {cur}
            /\ \A c \in Objects(id) : comps[c] = apptable[id].comps[c]
            /\ comps[cur] = new
        <5>. HIDE DEF new, Current
        <5>. QED  BY <1>3, <3>1 DEF Insert, Objects
      <4>3. new.file = x.file
        OBVIOUS
      <4>. HIDE DEF comps, new
      <4>. QED  BY <4>1, <4>2, <4>3 DEF Objects
    <3>3. /\ board'[x.dev].code = x.file /\ board'[x.dev].route = Reset
          /\ board'[x.dev].run # "sar"
          /\ \A b \in DOMAIN board : b # x.dev => board'[b] = board[b]
      <4>1. Loaded(x.file).code = x.file /\ Loaded(x.file).route = Reset
            /\ Loaded(x.file).run # "sar"
        BY OffAssumption DEF Loaded, SarAlone
      <4>. HIDE DEF x
      <4>. QED  BY <2>2, <2>5, <4>1
    <3>4. {"fpga1", "dsp1", "dsp2"} \subseteq DOMAIN board
      BY <1>1 DEF SarAlone
    <3>5. used_device' = {Waveform["sar"][k].dev : k \in {1, 2, 3} \ todo'}
      <4>1. {1, 2, 3} \ todo' = ({1, 2, 3} \ todo) \cup {Current}
        <5>. HIDE DEF Current
        <5>. QED  BY <1>2, <2>5
      <4>. QED  BY <1>1, <2>1, <4>1 DEF Reading
    <3>6. Reading'
      <4>1. /\ todo' \in {{2, 3}, {3}, {}} /\ Objects(id)' = {1, 2, 3} \ todo'
        <5>. HIDE DEF Current
        <5>. QED  BY <1>1, <1>2, <2>5, <3>1, <3>2 DEF Reading
      <4>2. CASE cur = 1
        <5>1. todo' = {2, 3} /\ x.dev = "fpga1"
          BY <1>2, <2>5, <3>1, <4>2, SarParts
        <5>. QED  BY <2>1, <3>1, <3>3, <3>5, <4>1, <5>1 DEF Reading, Streaming
      <4>3. CASE cur = 2
        <5>1. todo = {2, 3} /\ todo' = {3} /\ x.dev = "dsp1" /\ x.file = "2"
          BY <1>2, <2>5, <3>1, <4>3, SarParts
        <5>. QED  BY <1>1, <2>1, <3>1, <3>3, <3>4, <3>5, <4>1, <5>1
                  DEF Reading, Streaming
      <4>4. CASE cur = 3
        <5>1. todo = {3} /\ todo' = {} /\ x.dev = "dsp2" /\ x.file = "2"
          BY <1>2, <2>5, <3>1, <4>4, SarParts
        <5>2. apptable'[id].comps[3].file = "2"
          BY <3>2, <4>4, <5>1
        <5>. QED  BY <1>1, <2>1, <3>1, <3>3, <3>4, <3>5, <4>1, <5>1, <5>2, SMTT(20)
                  DEF Reading, Streaming
      <4>. QED  BY <1>2, <3>1, <4>2, <4>3, <4>4
    <3>. QED  BY <1>1, <2>3, <2>5, <3>6 DEF StreamInv
  <2>. QED  BY <2>1, <2>2, <2>4, <2>5, LoadObeyed
<1>. QED  BY <1>1, <1>3, <1>4, <1>5 DEF InstantiateComponent, Crash

\* At the end of the file the application is ready; at the end of a stop that
\* begins a switch the FPGA does not stream.
LEMMA StreamEnd ==
  ASSUME SarAlone, TypeOK, HandlesInv, TargetsInv, PlacementInv, OneInv, StreamInv,
         EndLoop
  PROVE  StreamInv'
<1>1. /\ todo = {} /\ UNCHANGED <<apptable, devicetable, board, cmd>>
      /\ pc' \in {"idle", "move", "load", "route"}
      /\ DataOK /\ HandlesLive /\ StreamSafe'
  BY DEF EndLoop, Keep, Done, TypeOK, HandlesInv, StreamInv, StreamSafe
<1>2. CASE pc = "instantiate"
  <2>1. /\ pc' = "idle" /\ Reading /\ app \in DOMAIN apptable
        /\ apptable[app].name = "sar" /\ PlacedAt(app, HomeBoard)
        /\ \A i \in DOMAIN apptable : i = app
        /\ Objects(app) = {1, 2, 3} /\ apptable[app].comps[3].file = "2"
    BY <1>1, <1>2 DEF EndLoop, Done, StreamInv, TypeOK, FrameOK, OneInv, PlacementInv,
                      Reading
  <2>2. /\ BoardOf(app, 1) = "fpga1" /\ BoardOf(app, 2) = "dsp1"
        /\ BoardOf(app, 3) = "dsp2"
    <3>1. ASSUME NEW c \in {1, 2, 3}
          PROVE  BoardOf(app, c) = HomeBoard("sar", c)
      <4>1. /\ apptable[app].comps[c].target = HandleRequest(HomeBoard("sar", c))
            /\ apptable[app].comps[c].target \in DOMAIN devicetable
        BY <1>2, <2>1 DEF PlacedAt, Objects, TargetsInv, Unsettled
      <4>. QED  BY <1>1, <4>1, FoundBoard DEF BoardOf, Board
    <3>. QED  BY <3>1, SarPlaces
  <2>3. Ready(app) /\ Complete(app)
    BY <1>1, <2>1, <2>2 DEF Ready, Complete, Reading, RoutedTo, Reset
  <2>4. \A i \in DOMAIN apptable : Ready(i)' /\ Complete(i)'
    BY <1>1, <2>1, <2>3 DEF Ready, Complete, BoardOf, Board, Objects
  <2>. QED  BY <1>1, <2>1, <2>4 DEF StreamInv
<1>3. CASE pc \in {"start", "stop"} /\ pc' = "idle"
  BY <1>1, <1>3, StreamKept
<1>4. CASE pc' # "idle"
  <2>1. pc # "instantiate" /\ pc # "hung" /\ ~Streaming
    BY <1>1, <1>4 DEF EndLoop, Done, StreamInv
  <2>2. \A i \in DOMAIN apptable : Complete(i)'
    BY <1>1, <2>1 DEF StreamInv, Complete, Objects
  <2>. QED  BY <1>1, <1>4, <2>1, <2>2 DEF StreamInv, Streaming
<1>. QED  BY <1>1, <1>2, <1>3, <1>4 DEF EndLoop

\* What start and stop make of a board: its code and route stay, and it runs the
\* application, or not.
LEMMA TellEffect ==
  ASSUME NEW b \in BoardState, NEW type, NEW by \in DOMAIN Waveform
  PROVE  /\ Started(b, by).code = b.code /\ Started(b, by).route = b.route
         /\ Started(b, by).run = by
         /\ Halted(type, b, by).code = b.code /\ Halted(type, b, by).route = b.route
         /\ Halted(type, b, by).run \in {b.run, Off} /\ Halted(type, b, by).run # by
<1>1. b = [code |-> b.code, run |-> b.run, route |-> b.route]
  BY DEF BoardState
<1>. QED  BY <1>1, OffAssumption DEF Started, Halted

\* One component is told. A start reaches the FPGA last, when the DSPs run; a stop
\* reaches it first.
LEMMA StreamTell ==
  ASSUME Obeying, SarAlone, TypeOK, HandlesInv, TargetsInv, OneInv, StreamInv,
         TellComponent
  PROVE  StreamInv'
<1>. DEFINE B == BoardOf(app, Current)
            after == IF pc = "start" THEN Started(board[B], "sar")
                     ELSE Halted(DeviceType[B], board[B], "sar")
<1>1. /\ pc \in {"start", "stop"} /\ todo # {} /\ app \in DOMAIN apptable
      /\ UNCHANGED <<apptable, app, devicetable, cmd>>
      /\ DataOK /\ todo \subseteq {1, 2, 3} /\ cmd.name = "sar"
      /\ apptable[app].name = "sar" /\ \A i \in DOMAIN apptable : i = app
      /\ Complete(app) /\ Ready(app) /\ StreamSafe
      /\ board \in [Boards -> BoardState]
  BY DEF TellComponent, Keep, TypeOK, FrameOK, DataOK, OneInv, StreamInv, Complete,
         Comps, Objects
<1>2. /\ Current \in todo
      /\ pc = "start" => \A k \in todo : k <= Current
      /\ pc = "stop" => \A k \in todo : Current <= k
  <2>1. Current = IF pc = "start" THEN Greatest(todo) ELSE Least(todo)
    BY <1>1 DEF Current
  <2>2. todo \in SUBSET Nat /\ todo \in SUBSET (1..MaxObj)
    BY <1>1, ObjectsType DEF Complete
  <2>. HIDE DEF Current
  <2>. QED  BY <1>1, <2>1, <2>2, LeastIn, GreatestIn
<1>3. \A c \in {1, 2, 3} : apptable[app].comps[c].target \in DOMAIN devicetable
                           /\ BoardOf(app, c) \in DOMAIN board
  BY <1>1 DEF TargetsInv, Unsettled, Complete, Objects, DataOK, BoardOf, Board
<1>4. PICK ans \in Answers : Proceed(ans, Rest) /\ Apply(B, ans, after)
  <2>1. Comps[Current].target \in DOMAIN devicetable
    BY <1>1, <1>2, <1>3 DEF Comps
  <2>. QED  BY <1>1, <2>1 DEF TellComponent, BoardOf, Comps
<1>5. CASE UNCHANGED board /\ pc' = "hung"
  BY <1>1, <1>5, StreamHung DEF StreamSafe
<1>6. CASE board' = [board EXCEPT ![B] = after]
  <2>1. PICK cur, bd, new : cur = Current /\ bd = B /\ new = after
    OBVIOUS
  <2>2. /\ cur \in todo /\ cur \in {1, 2, 3} /\ bd = BoardOf(app, cur)
        /\ bd \in DOMAIN board /\ board' = [board EXCEPT ![bd] = new]
    BY <1>1, <1>2, <1>3, <1>6, <2>1
  <2>3. /\ new.code = board[bd].code /\ new.route = board[bd].route
        /\ pc = "start" => new.run = "sar"
        /\ pc = "stop" => new.run \in {board[bd].run, Off} /\ new.run # "sar"
    <3>1. board[bd] \in BoardState /\ "sar" \in DOMAIN Waveform
      BY <1>1, <2>2 DEF SarAlone
    <3>. QED  BY <1>1, <2>1, <3>1, TellEffect
  <2>4. /\ \A b \in DOMAIN board : /\ board'[b].code = board[b].code
                                   /\ board'[b].route = board[b].route
        /\ \A b \in DOMAIN board : b # bd => board'[b].run = board[b].run
        /\ board'[bd].run = new.run
    BY <2>2, <2>3
  <2>5. /\ {"fpga1", "dsp1", "dsp2", "dsp3", "dsp4"} \subseteq DOMAIN board
        /\ RoutedTo(board["fpga1"].route) \subseteq {"dsp1", "dsp2", "dsp3", "dsp4"}
        /\ RoutedTo(board["fpga1"].route) = {BoardOf(app, 2), BoardOf(app, 3)}
        /\ BoardOf(app, 1) = "fpga1"
        /\ RoutedTo(board'["fpga1"].route) = RoutedTo(board["fpga1"].route)
    <3>1. {"fpga1", "dsp1", "dsp2", "dsp3", "dsp4"} \subseteq DOMAIN board
      BY <1>1 DEF SarAlone
    <3>2. board'["fpga1"].route = board["fpga1"].route
      BY <2>4, <3>1
    <3>. QED  BY <1>1, <3>1, <3>2 DEF RoutedTo, Ready
  <2>6. bd = "fpga1" <=> cur = 1
    BY <2>2, <2>5
  <2>7. /\ pc = "start" => \A c \in {2, 3} : (c \in todo => c = cur) =>
                             board'[BoardOf(app, c)].run # Off
        /\ pc = "stop" /\ (1 \in todo => cur = 1) => ~Streaming'
    <3>1. ASSUME pc = "start", NEW c \in {2, 3}, c \in todo => c = cur
          PROVE  board'[BoardOf(app, c)].run # Off
      <4>1. CASE BoardOf(app, c) = bd
        BY <2>3, <2>4, <3>1, <4>1, OffAssumption DEF SarAlone
      <4>2. CASE BoardOf(app, c) # bd
        BY <1>3, <2>2, <2>4, <3>1, <4>2 DEF StreamInv
      <4>. QED  BY <4>1, <4>2
    <3>2. ASSUME pc = "stop", 1 \in todo => cur = 1
          PROVE  ~Streaming'
      <4>1. CASE cur = 1
        BY <2>3, <2>4, <2>6, <3>2, <4>1 DEF Streaming
      <4>2. CASE cur # 1
        BY <2>4, <2>5, <2>6, <3>2, <4>2 DEF StreamInv, Streaming
      <4>. QED  BY <4>1, <4>2
    <3>. QED  BY <3>1, <3>2
  <2>8. StreamSafe'
    <3>1. CASE pc = "stop"
      <4>1. 1 \in todo => cur = 1
        BY <1>1, <1>2, <2>1, <2>2, <3>1
      <4>. QED  BY <2>7, <3>1, <4>1 DEF StreamSafe, Streaming
    <3>2. CASE pc = "start" /\ cur = 1
      <4>1. 2 \notin todo /\ 3 \notin todo
        BY <1>2, <2>1, <3>2
      <4>2. \A c \in {2, 3} : /\ board'[BoardOf(app, c)].run # Off
                              /\ board'[BoardOf(app, c)].code = "2"
        BY <1>1, <1>3, <2>4, <2>7, <3>2, <4>1 DEF Ready
      <4>. QED  BY <2>5, <4>2 DEF StreamSafe
    <3>3. CASE pc = "start" /\ cur # 1
      <4>1. board'["fpga1"].run = board["fpga1"].run
        BY <2>4, <2>5, <2>6, <3>3
      <4>2. \A d \in RoutedTo(board["fpga1"].route) :
              /\ board'[d].code = board[d].code
              /\ board[d].run # Off => board'[d].run # Off
        BY <2>3, <2>4, <2>5, <3>3, OffAssumption DEF SarAlone
      <4>. QED  BY <1>1, <2>5, <4>1, <4>2 DEF StreamSafe
    <3>. QED  BY <1>1, <3>1, <3>2, <3>3
  <2>9. CASE pc' = "hung"
    BY <2>8, <2>9, StreamHung
  <2>10. CASE pc' = pc /\ todo' = todo \ {cur}
    <3>1. PICK id : id = app
      OBVIOUS
    <3>2. \A c : BoardOf(id, c)' = BoardOf(id, c)
      BY <1>1 DEF BoardOf, Board
    <3>3. Ready(id)' /\ Complete(id)'
      BY <1>1, <1>3, <2>4, <2>5, <3>1, <3>2 DEF Ready, Complete, Objects
    <3>4. pc = "start" => \A c \in {2, 3} \ todo' : board'[BoardOf(id, c)].run # Off
      BY <2>7, <2>10, <3>1
    <3>5. pc = "stop" /\ 1 \notin todo' => ~Streaming'
      BY <2>7, <2>10
    <3>6. \A i \in DOMAIN apptable' : i = id /\ app' = id
      BY <1>1, <3>1
    <3>. QED
      BY <1>1, <2>8, <2>10, <3>2, <3>3, <3>4, <3>5, <3>6 DEF StreamInv
  <2>. QED  BY <1>4, <2>1, <2>9, <2>10 DEF Proceed, Rest
<1>. QED
  BY <1>4, <1>5, <1>6 DEF Proceed, Apply, Answered, Obeyed, Obeying

\* A component is configured.
LEMMA StreamDevice ==
  ASSUME TypeOK, StreamInv, TellDevice
  PROVE  StreamInv'
<1>1. /\ cmd.f = "config" /\ pc = "device" /\ UNCHANGED <<apptable, devicetable>>
      /\ StreamSafe /\ board \in [Boards -> BoardState]
  BY DEF TellDevice, Keep, StreamInv, TypeOK, DataOK
<1>2. PICK ans \in Answers :
        Apply(Board(app), ans, board[Board(app)]) /\ Conclude(ans)
  BY <1>1 DEF TellDevice
<1>3. UNCHANGED board
  BY <1>1, <1>2 DEF Apply
<1>4. CASE pc' = "hung"
  BY <1>1, <1>3, <1>4, StreamHung DEF StreamSafe
<1>5. CASE pc' = "idle"
  BY <1>1, <1>3, <1>5, StreamKept
<1>. QED  BY <1>2, <1>4, <1>5 DEF Conclude, Done

\* The components move with their files.
LEMMA StreamMove ==
  ASSUME TypeOK, OneInv, StreamInv, Move
  PROVE  StreamInv'
<1>1. /\ pc = "move" /\ pc' \in {"spin", "wipe"} /\ UNCHANGED board
      /\ ~Streaming /\ StreamSafe
      /\ app \in DOMAIN apptable /\ ComponentList(apptable[app].comps)
      /\ Table(apptable) /\ AppBase(apptable[app])
      /\ \A i \in DOMAIN apptable : i = app
      /\ Complete(app)
  BY DEF Move, StreamInv, TypeOK, FrameOK, DataOK, AppBase, OneInv
<1>2. PICK id, comps : id = app /\ comps = apptable[app].comps
  OBVIOUS
<1>3. /\ DOMAIN apptable' = DOMAIN apptable /\ apptable'[id].comps = Moved(comps)
  BY <1>1, <1>2 DEF Move, Table, AppBase
<1>4. DOMAIN Moved(comps) = DOMAIN comps
      /\ \A c \in DOMAIN comps : Moved(comps)[c].file = comps[c].file
  <2>1. ASSUME NEW c \in DOMAIN comps, NEW t
        PROVE  [comps[c] EXCEPT !.target = t].file = comps[c].file
    BY <1>1, <1>2 DEF ComponentList
  <2>. QED  BY <2>1 DEF Moved
<1>5. Complete(id)'
  BY <1>1, <1>2, <1>3, <1>4 DEF Complete, Objects
<1>. QED  BY <1>1, <1>2, <1>3, <1>5 DEF StreamInv, StreamSafe, Streaming

\* The loads of a switch come after the FPGA has been stopped.
LEMMA StreamLoad ==
  ASSUME Obeying, SarAlone, TypeOK, HandlesInv, StreamInv, SwitchedInv, TargetsInv,
         Wipe \/ Load
  PROVE  StreamInv'
<1>1. pc \in {"wipe", "load"} /\ ~Streaming /\ StreamSafe
      /\ \A i \in DOMAIN apptable : Complete(i)
  BY DEF Wipe, Load, StreamInv
<1>2. CASE Memory("dead") /\ UNCHANGED board
  BY <1>2, StreamMemory
<1>3. ASSUME NEW id \in DOMAIN devicetable, NEW file, LoadDevice(id, file),
             UNCHANGED apptable
      PROVE  StreamInv'
  <2>1. StreamSafe' /\ ~Streaming'
    BY <1>1, <1>3, LoadSafe
  <2>2. pc' = pc \/ pc' = "hung"
    BY <1>3, ProceedCases DEF LoadDevice
  <2>3. \A i \in DOMAIN apptable' : Complete(i)'
    BY <1>1, <1>3 DEF Complete, Objects
  <2>. QED  BY <1>1, <2>1, <2>2, <2>3 DEF StreamInv
<1>4. CASE Wipe
  <2>1. Current \in todo /\ todo \subseteq DOMAIN source
    BY <1>4, CurrentIn DEF Wipe, TypeOK, FrameOK
  <2>2. source[Current] \in DOMAIN devicetable
    BY <1>4, <2>1 DEF Wipe, SwitchedInv, Halves
  <2>. QED  BY <1>3, <1>4, <2>2 DEF Wipe
<1>. QED  BY <1>2, <1>3, <1>4 DEF Load, Crash

\* The route leads to the boards the application is on, and they have its code.
LEMMA StreamRoute ==
  ASSUME Obeying, SarAlone, HalfAndFpga, TypeOK, HandlesInv, TargetsInv,
         PlacementInv, SwitchedInv, OneInv, StreamInv, Route
  PROVE  StreamInv'
<1>. DEFINE fpga  == HandleRequest("fpga1")
            leads == {c \in DOMAIN source : Comps[c].target \in
                        {HandleRequest("dsp1"), HandleRequest("dsp3")}}
            msg == RouteMessage(leads)
<1>1. /\ pc = "route" /\ app \in DOMAIN apptable /\ Halves /\ DataOK /\ HandlesLive
      /\ apptable[app].name = "sar" /\ cmd.name = "sar"
      /\ UNCHANGED <<apptable, devicetable>>
      /\ \A i \in DOMAIN apptable : i = app
      /\ Complete(app) /\ ~Streaming /\ StreamSafe
      /\ board \in [Boards -> BoardState]
      /\ DOMAIN source \subseteq DOMAIN Comps
  BY DEF Route, Keep, TypeOK, FrameOK, DataOK, HandlesInv, SwitchedInv, OneInv,
         StreamInv
<1>2. /\ DOMAIN source \in SUBSET Nat /\ DOMAIN Comps = {1, 2, 3}
      /\ \A c \in DOMAIN Comps : Comps[c].target \in DOMAIN devicetable
      /\ LastFile = "2"
  <2>1. DOMAIN Comps = {1, 2, 3}
    BY <1>1 DEF Complete, Objects, Comps
  <2>2. DOMAIN Comps \in SUBSET (1..MaxObj)
    BY <1>1, CompsType
  <2>3. Greatest(DOMAIN Comps) = 3
    <3>1. Greatest(DOMAIN Comps) \in {1, 2, 3} /\ 3 <= Greatest(DOMAIN Comps)
      BY <2>1, <2>2, GreatestIn
    <3>. QED  BY <3>1
  <2>. QED  BY <1>1, <2>1, <2>2, <2>3
            DEF TargetsInv, Unsettled, Comps, LastFile, Complete
<1>3. /\ BoardOf(app, 1) = "fpga1" /\ Comps[1].target = fpga
      /\ \/ PlacedAt(app, HomeBoard) /\ BoardOf(app, 2) = "dsp1"
            /\ BoardOf(app, 3) = "dsp2"
         \/ PlacedAt(app, AwayBoard) /\ BoardOf(app, 2) = "dsp3"
            /\ BoardOf(app, 3) = "dsp4"
  <2>1. /\ Objects(app) = {1, 2, 3}
        /\ \A c \in Objects(app) : apptable[app].comps[c].target \in DOMAIN devicetable
    BY <1>1, <1>2 DEF Objects, Comps
  <2>. QED  BY <1>1, <2>1, SarBoards DEF Comps
<1>4. ASSUME NEW c \in {2, 3}
      PROVE  c \in DOMAIN source /\ board[BoardOf(app, c)].code = "2"
  <2>1. PICK w : Comps[c].target = HandleRequest(w) /\ w = BoardOf(app, c)
    <3>1. PICK w : Comps[c].target = HandleRequest(w)
      BY <1>1, <1>2, <1>3 DEF PlacedAt, Comps
    <3>2. w = BoardOf(app, c)
      BY <1>1, <1>2, <3>1, FoundBoard DEF BoardOf, Board, Comps
    <3>. QED  BY <3>1, <3>2
  <2>2. w \in DOMAIN Partner(cmd.name)
    BY <1>1, <1>3, <2>1 DEF Partner
  <2>3. c \in DOMAIN source
    BY <1>1, <1>2, <2>1, <2>2, MovedThere
  <2>. QED  BY <1>1, <1>2, <2>3 DEF SwitchedInv, Reloaded, BoardOf, Comps
<1>5. /\ leads # {}
      /\ BoardOf(app, 2) = "dsp1" => msg = "switch01_radar"
      /\ BoardOf(app, 2) = "dsp3" => msg = "switch23_radar"
  <2>1. msg \in {"switch01_radar", "switch23_radar"}
    BY <1>1 DEF RouteMessage
  <2>2. BoardOf(app, 2) = "dsp1" => Comps[2].target = HandleRequest("dsp1")
    BY <1>1, <1>2, <1>3, SarPlaces DEF PlacedAt, Comps
  <2>3. BoardOf(app, 2) = "dsp3" => Comps[2].target = HandleRequest("dsp3")
    BY <1>1, <1>2, <1>3, SarPlaces DEF PlacedAt, Comps
  <2>. HIDE DEF leads
  <2>4. /\ Comps[2].target = HandleRequest("dsp1") =>
             leads # {} /\ msg \in {"switch01_radar", "switch0_elec"}
        /\ Comps[2].target = HandleRequest("dsp3") =>
             leads # {} /\ msg \in {"switch23_radar", "switch2_elec"}
    BY <1>1, <1>2, RouteLeads DEF leads
  <2>. HIDE DEF msg
  <2>. QED  BY <1>3, <2>1, <2>2, <2>3, <2>4
<1>6. PICK ans \in Answers :
        /\ Apply("fpga1", ans, Routed(board["fpga1"], msg)) /\ Conclude(ans)
  <2>1. Board(fpga) = "fpga1" /\ fpga \in DOMAIN devicetable
    BY <1>2, <1>3 DEF BoardOf, Board, Comps
  <2>. HIDE DEF msg
  <2>. QED  BY <1>5, <2>1 DEF Route, msg
<1>7. PICK m, new : m = msg /\ new = Routed(board["fpga1"], m)
  OBVIOUS
<1>8. /\ "fpga1" \in DOMAIN board
      /\ new.run = board["fpga1"].run /\ new.code = board["fpga1"].code
      /\ new.route = m
  <2>1. "fpga1" \in DOMAIN board
    BY <1>1 DEF SarAlone
  <2>2. board["fpga1"] \in BoardState
    BY <1>1, <2>1
  <2>. QED  BY <1>7, <2>1, <2>2 DEF Routed, BoardState
<1>9. UNCHANGED board \/ board' = [board EXCEPT !["fpga1"] = new]
  <2>. HIDE DEF msg
  <2>. QED  BY <1>6, <1>7 DEF Apply
<1>10. ~Streaming'
  BY <1>1, <1>8, <1>9 DEF Streaming
<1>11. CASE pc' = "hung"
  BY <1>10, <1>11, StreamHung DEF StreamSafe, Streaming
<1>12. CASE pc' = "idle"
  <2>1. board' = [board EXCEPT !["fpga1"] = new]
    <3>. HIDE DEF msg
    <3>. QED  BY <1>6, <1>7, <1>12 DEF Apply, Conclude, Answered, Obeyed, Obeying
  <2>2. /\ board'["fpga1"].route = m
        /\ \A b \in DOMAIN board : board'[b].code = board[b].code
    BY <1>8, <2>1
  <2>3. PICK id : id = app
    OBVIOUS
  <2>4. \A c : BoardOf(id, c)' = BoardOf(id, c)
    BY <1>1 DEF BoardOf, Board
  <2>5. RoutedTo(board'["fpga1"].route) = {BoardOf(id, 2), BoardOf(id, 3)}
    <3>. HIDE DEF msg
    <3>. QED  BY <1>3, <1>5, <1>7, <2>2, <2>3 DEF RoutedTo
  <2>6. \A c \in {2, 3} : board'[BoardOf(id, c)].code = "2"
    <3>1. \A c \in {2, 3} : BoardOf(id, c) \in DOMAIN board
      BY <1>1, <1>3, <2>3 DEF SarAlone
    <3>. QED  BY <1>4, <2>2, <2>3, <3>1
  <2>7. Ready(id)' /\ Complete(id)'
    BY <1>1, <1>3, <2>3, <2>4, <2>5, <2>6 DEF Ready, Complete, Objects
  <2>8. \A i \in DOMAIN apptable' : i = id
    BY <1>1, <2>3
  <2>. QED  BY <1>10, <1>12, <2>7, <2>8 DEF StreamInv, StreamSafe, Streaming
<1>. QED  BY <1>6, <1>11, <1>12 DEF Conclude, Done

\* Every step keeps the stream safe.
LEMMA StreamStep ==
  ASSUME Obeying, SarAlone, HalfAndFpga, TypeOK, HandlesInv, TargetsInv,
         PlacementInv, SwitchedInv, OneInv, UniqueAppNames', StreamInv, [Next]_vars
  PROVE  StreamInv'
<1>1. CASE InstantiateDevice \/ Listen
  <2>1. pc = "boot" /\ DOMAIN apptable' = {} /\ UNCHANGED board
    BY <1>1 DEF InstantiateDevice, Listen, registry, PlacementInv
  <2>2. pc' \in {"boot", "idle"}
    BY <1>1 DEF InstantiateDevice, Listen
  <2>. QED  BY <2>1, <2>2 DEF StreamInv, StreamSafe
<1>2. ASSUME NEW a \in DOMAIN apptable, AbortApp(a) PROVE StreamInv'
  <2>1. /\ DOMAIN apptable' \subseteq DOMAIN apptable /\ pc = "idle" /\ pc' = "idle"
        /\ \A i \in DOMAIN apptable' : apptable'[i] = apptable[i]
        /\ UNCHANGED <<devicetable, board>>
    BY <1>2 DEF AbortApp
  <2>2. \A i \in DOMAIN apptable' : Complete(i)' /\ Ready(i)'
    BY <2>1 DEF StreamInv, Complete, Ready, BoardOf, Board, Objects
  <2>. QED  BY <2>1, <2>2 DEF StreamInv, StreamSafe
<1>3. CASE Killed \/ Restart
  BY <1>3, StreamMemory DEF Killed, Restart, Crash
<1>4. CASE UNCHANGED vars
  <2>1. UNCHANGED <<apptable, devicetable, pc, cmd, app, todo, used_device, board>>
    BY <1>4 DEF vars, registry
  <2>2. /\ \A i, c : BoardOf(i, c)' = BoardOf(i, c)
        /\ \A i : Complete(i) => Complete(i)'
        /\ \A i : Ready(i) => Ready(i)'
    BY <2>1 DEF BoardOf, Board, Complete, Objects, Ready
  <2>3. Reading => Reading'
    BY <2>1 DEF Reading, Objects, Streaming
  <2>4. (pc = "start" => \A c \in {2, 3} \ todo : board[BoardOf(app, c)].run # Off)'
    BY <2>1, <2>2 DEF StreamInv
  <2>. QED  BY <2>1, <2>2, <2>3, <2>4 DEF StreamInv, StreamSafe, Streaming
<1>. QED
  BY <1>1, <1>2, <1>3, <1>4, StreamReceive, StreamInstantiate, StreamTell,
     StreamDevice, StreamEnd, StreamMove, StreamLoad, StreamRoute DEF Next, Progress

\* With the sar.xml of the repository, and boards that obey when they answer, the
\* FPGA never streams radar samples to a board that does not process them: in no
\* order of load, start, switch, stop and delete, wherever the framework hangs or
\* is killed and started again in between - as long as no second instance is
\* loaded, which would reset the route of the first (run framework_duplicate).
THEOREM StreamCorrect ==
  Obeying /\ SarAlone /\ HalfAndFpga => (Spec /\ []UniqueAppNames => []StreamSafe)
<1>. SUFFICES ASSUME Obeying, SarAlone, HalfAndFpga
              PROVE  Spec /\ []UniqueAppNames => []StreamSafe
  OBVIOUS
<1>1. Init => /\ HandlesInv /\ TargetsInv /\ PlacementInv /\ CrashInv /\ SwitchedInv
              /\ OneInv /\ StreamInv
  <2>1. Init => HandlesInv /\ TargetsInv /\ PlacementInv /\ CrashInv /\ SwitchedInv
    BY DEF Init, HandlesInv, HandlesLive, TargetsInv, PlacementInv, PlacementWhole,
           Switching, CrashInv, ComponentsInv, SwitchInv,
           SwitchedInv, SwitchDone, Served, Empty, BEGIN_ID
  <2>2. Init => OneInv
    BY EmptyTables DEF Init, OneInv
  <2>3. Init => StreamInv
    <3>1. Init => board["fpga1"].run = Off
      BY DEF Init, Loaded, SarAlone
    <3>. QED  BY <3>1, EmptyTables, OffAssumption
              DEF Init, StreamInv, StreamSafe, SarAlone
  <2>. QED  BY <2>1, <2>2, <2>3
<1>2. TypeOK /\ HandlesInv /\ [Next]_vars => HandlesInv'
  BY HandlesStep
<1>3. TypeOK /\ TargetsInv /\ [Next]_vars => TargetsInv'
  BY TargetsStep
<1>4. TypeOK /\ TypeOK' /\ HandlesInv /\ TargetsInv /\ PlacementInv /\ [Next]_vars
        => PlacementInv'
  BY PlacementStep
<1>5. TypeOK /\ HandlesInv /\ CrashInv /\ [Next]_vars => CrashInv'
  BY CrashStep
<1>6. TypeOK /\ HandlesInv /\ TargetsInv /\ PlacementInv /\ CrashInv
        /\ SwitchedInv /\ [Next]_vars => SwitchedInv'
  BY SwitchedStep
<1>7. TypeOK /\ HandlesInv /\ PlacementInv /\ OneInv /\ UniqueAppNames' /\ [Next]_vars
        => OneInv'
  BY OneStep
<1>8. TypeOK /\ HandlesInv /\ TargetsInv /\ PlacementInv /\ SwitchedInv /\ OneInv
        /\ StreamInv /\ UniqueAppNames' /\ [Next]_vars => StreamInv'
  BY StreamStep
<1>9. StreamInv => StreamSafe
  BY DEF StreamInv
<1>. QED
  BY TypeCorrect, <1>1, <1>2, <1>3, <1>4, <1>5, <1>6, <1>7, <1>8, <1>9, PTL DEF Spec
=============================================================================
