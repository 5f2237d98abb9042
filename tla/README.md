# Verification of the SSDP framework

TLA+ models of the framework's control program, TLC runs on small instances,
and TLAPS proofs for every instance. Paths are relative to the repository;
`SSDP_API.cpp:152` is a line of `src/src/SSDP_API.cpp`, and so on.

## 1. The system

The framework is the main-control process of a signal-processing rack. It
keeps a registry of *devices* (one per `devices/*.xml`: four DSPs and an FPGA)
and of *applications* (waveforms such as `sar`, one per `loadapp` command). One
thread reads the requests of TCP clients and turns each into a sequence of
exchanges with boards over DDS. Everything else is on the other side of a wire.

```
 clients ==TCP==> SSDPServer --> CmdProcess --> registry --> AppBase
                                                   |            |
                                                   v            v (function table)
                                               DeviceDSP / DeviceFPGA
                                                   |
                                             DspPublisherTwo ==XRCE-DDS==> board library
```

| component | source | state | operations | what makes it correct |
|---|---|---|---|---|
| main | `main.cpp` | - | one device per file of `devices/`, then the server loop | every listed board is registered before the first command |
| SSDPServer | `SSDPServer.cpp` | listening socket, epoll set, one receive buffer, one directory of files | accept, receive an instruction, a file or a query, reply | a client that waits for answers has each request handled once and answered once, as itself, whatever others send; a file reported as received is the file sent; the thread is never held by such a client |
| CmdProcess | `commandprocess.cpp`, `cmdline.h` | the parser and what earlier commands set in it, `is_load`, `reconstruct_time` | ReceiveCommand | a command is executed with its own arguments; it ends; it does not end the process unless it names what does not exist |
| registry | `SSDP_API.cpp` | `apptable`, `devicetable`, `cur_id`, `id_in_use` | InstantiateApp/Device, Start, Stop, Configure, LoadDevie, Switch, AbortApp, HandleRequest | ids in use are the objects that exist; a component designates a device that exists |
| AppBase | `base_app.h` | `component_list` | three kinds of start and stop, two of switch, configure | an application starts, stops and moves as a whole; the FPGA streams only to DSPs that run |
| DeviceDSP, DeviceFPGA | `DeviceDSP.cpp`, `DeviceFPGA.cpp` | a publisher | DEV_Start, DEV_Stop, DEV_Load, DEV_Write, DEV_Configure | a board executes a request exactly once before the method returns |
| DeviceZED | `DeviceZED.cpp` | an external client | the same | not modelled: no device file uses it |
| DspPublisherTwo | `DspPublisherTwo.cpp` | two XRCE sessions per board, one reply buffer for all boards | send_info, recv_info, establish_connection | an answer is taken by the method it is meant for |
| board library | `dds_agent/ssdp_messageQ(1).c` | a mailbox for one message | receive, send | no request is lost that somebody waits for |
| XRCE client | `backup/Micro-XRCE-DDS-Client-1.2.1` | a ring of unacknowledged datagrams, a ring of early ones, sequence numbers | uxr_prepare_output_stream, run_session_* | what is written is handed over once and in order, and in the end; "confirmed" means handed over |
| FPGAPublisher, HelloWorld, SSDP_LOG | | | an unused publisher, generated serialisation, logging wrappers | not modelled |
| configuration files | `sar.xml`, `elec_reco.xml`, `dvb-s2.xml`, `devices/*.xml` | | | the instances of `MCFramework` are these files |

Behaviours that are hard to test here:

* a command is up to ten exchanges, and each can be refused, executed without
  an answer, or stay unanswered for ever, in which case the only thread hangs
  and the operator restarts the process while the boards run on;
* no reply says which request it answers, all boards share one reply buffer, and
  a wait returns on *any* sample of its session;
* a request on a TCP connection has no length or end marker, and the sockets
  block; the same thread carries out the request;
* all clients write their files into one directory, piece by piece;
* names are resolved again at every use, and the order of the tables decides;
* the parser of commands is one object for the whole process and is not reset;
* the links run over UDP: datagrams are lost, repeated and overtaken, and the
  rings and sequence numbers that make up for it are small and start over.

`PROJECT.json` lists every hazard at its line with the properties about it.

## 2. The modules

| module | role |
|---|---|
| `SSDPFramework` | registry, applications, command dispatch, and the boards as the framework can tell them apart; one exchange per step |
| `MCFramework` | its instances, from the configuration files of the repository |
| `SSDPFramework_proofs` | its theorems about the tables and the crashes |
| `SSDPCommands_proofs` | its theorems about what commands do to applications and boards |
| `Exchange` | abstract: what a device method promises |
| `DspLink` | detailed: device methods, DDS queues, boards, message by message; shown to implement `Exchange` |
| `DspLink_proofs` | its theorems, the refinement among them |
| `Service` | abstract: what a client is promised |
| `SSDPServer` | detailed: the epoll loop, every recv and send; shown to implement `Service` |
| `SSDPServer_proofs` | its theorems, the refinement among them |
| `CommandLine`, `MCCommandLine` | the parser that makes arguments of the text of a command; texts to try it on |
| `CommandLine_proofs` | its theorems |
| `Fifo` | abstract: what a reliable stream promises |
| `OutputStream` | the ring of an output stream: writing, sending, acknowledging |
| `ReliableStream` | detailed: both ends of a stream over a network that loses, repeats and reorders; shown to implement `Fifo` |
| `OutputStream_proofs`, `ReliableStream_proofs` | lemmas on rings and numbers that start over; the theorems, the refinement among them |
| `LeastNumber` | the least-number principle and induction over a range, as lemmas about sets |

`Exchange` is the step at which `SSDPFramework` and `DspLink` meet: what the
former takes as one step (`Apply` and `Proceed`) is what the latter implements.
`Service!Execute` is where `SSDPServer` hands over to
`CommandLine!ReceiveCommand`, and what that accepts is a command of
`SSDPFramework!ReceiveCommand`. `Fifo` is what the queues of `DspLink` rest on:
`Post` and `Consume` there are `Fifo!Post` and `Fifo!Consume`.

### SSDPFramework

`cur_id`, `id_in_use`, `apptable` and `devicetable` are the variables of the
same names at SSDP_API.cpp:34-44. The tables are functions from handle ids;
`HandleRequest` searches them in id order, applications first. `pc` and the
variables `cmd`, `app`, `todo`, `used_device`, `source` are the frame of the
command in progress: `ReceiveCommand` enters a method, and each later step is
one exchange or the end of a loop.

| action | code |
|---|---|
| `InstantiateDevice`, `Listen` | `SSDP_InstantiateDevice`, the end of the start-up in `main` |
| `ReceiveCommand` | `CmdProcess::ReceiveCommand` and the part of the callee before its first exchange |
| `InstantiateComponent` | one component of `SSDP_InstantiateApp`: resolve, add, load once per board |
| `TellComponent` | one turn of the loops `SAR_Start` ... `DVB_Stop` |
| `TellDevice` | a command that names a device, or `config` |
| `EndLoop` | the end of a loop and the call that follows |
| `Move`, `Wipe`, `Load`, `Route` | the loops of `Sar_switch` and `Elec_switch`, and the message to the FPGA |
| `AbortApp` | `SSDP_AbortApp`, which only code inside the process calls |
| `Killed`, `Crash` | SIGPIPE or a failed recv; a null pointer or an exception |
| `Restart` | the operator |

Points of the code the model keeps on purpose: an unknown name is reported as
success; `DVB_Start` reaches the first component only; the results of exchanges
are dropped; `SSDP_Switch` falls off its end for other applications and for devices and returns
what the register holds, which may be any number (`Register`: of the numbers that are neither
`SSDP_OK` nor `SSDP_ERROR` one stands for all, since the caller only asks for `SSDP_OK`); a component on a board that `Sar_switch` does not list
makes it spin; `Insert` keeps the first of two equal keys, as `std::map::insert`.

`board` is the hardware: the code it holds, whose program runs, and the data
route of the FPGA. How a board reacts is external: `done`, `refused` (answers
without obeying; also a missing bit file), `mute` (obeys, never answers) and
`silent`. After the last two the thread hangs, because the wait has no limit
(`recv_info` passes -1; the client library turns this into INT32_MAX ms, about
24.8 days).

The build that talks to boards is the one with `ARM_BUILD`; it is the one
modelled. Left out: parameters and their addresses, the
reconstruct time, formatting of the status, and `read`, `query`, `initialize`
and `release`, which are empty in the source.

### DspLink

One thread runs one method at a time on one link; every link has a queue in
either direction. `Command` is `send_info(message, true)`: publish, then wait
(`RecvInfo`). A DSP is loaded by publishing "reconstruct" twice (`Reconstruct`),
an FPGA by DMA (`Transfer`); both then wait for the board to announce itself
(`Establish`) and greet it (`Greet`). A wait takes *k* samples at once and keeps
the last (`Consume`), since one packet may carry several and `on_topic`
overwrites the buffer. A board's mailbox holds one message, so `Take` sees the
last of those that arrived.

Assumptions on the other side, whose program is not in the repository: a board
answers each request at most once; it announces itself once after a reload; it
loses what is sent to it while it reloads, and a reload is longer than the
second that `DEV_Load` takes to publish its second message (`Boot`). If a board
executed both "reconstruct" messages, it would announce itself twice and every
later answer would be off by one; this is the hazard at DeviceDSP.cpp:214.
`load` with `ifNewCode = false` exchanges nothing and is no request.
The queues are reliable and in order: that is what the XRCE streams are for,
and what `ReliableStream` is checked for.

`orphan` names the boards a process was waiting for when it died. What they
answer reaches the next process, which cannot tell it from an answer to its
own request: `Quiet` and `Synchronised` exclude these links, and the refinement
is stated without restarts.

### SSDPServer

A stream is a sequence of items; flag, name and size of a request are one item
each, an instruction or a file is several. Any prefix of what was sent may have
arrived, so a recv takes any number of items up to its limit; and TCP may cut an item
in two, so that a recv takes a part of it (`Cut`) and the next one what is left (`Rag`).
`Careless` clients pipeline, leave or reset in the middle; the others wait for each answer.
Each action `RecvFlag`, `RecvIns`, `RecvName`, `RecvSize`, `RecvFile` is
one recv with its outcomes: data, end, error. A reset closes the
connection when the flag is read and ends the process anywhere else
(`exit_if`); `do_send` to a client that has gone may raise SIGPIPE. `Conduct` is
`ReceiveCommand`, of which this module only says that it returns, or holds the thread for
ever ("hung": a silent board, a switch that spins), or throws out of `main` ("dead").

`disk` is the directory that all clients share: under each name the client and the request a file is of, and the bytes
written so far. `OpenFile` truncates (fopen with "wb"), `RecvFile` appends what each recv brings.
A transfer that breaks off leaves its `FILE*` open (`unclosed`), and when the process exits the
rest of its buffer is written over whatever has the name by then (`Exit`). Any file may fail to
open (`NotOpened`): the request then stays in the stream and gets no answer.

`lost` are the clients to whom this happened, or of whom an item was cut: the server takes the rest of
their bytes for something else, and `Service` promises them nothing. It is history: no action
of the server depends on it, but the bounds below do. The logs `asked`, `executed` and `answered` are
history too; they only grow, so handling a request twice, or answering it twice, is a step
that `Service` does not have.

Abstractions and bounds: a client is one connection and descriptors are not reused within a
batch (epoll reports a descriptor once per call, and only its own handler closes
it); the two writes of `do_send` are one; of each client one item is cut, and what is left of it is
taken at once; a lost client asks no more unless it is careless; when the thread is held for ever, the process is gone, or
no polite client is left to whom anything is promised, nothing goes on (`Up`); the
bytes of a file that nobody sent are not told apart (`Spoilt`); what careless clients are answered is not followed.
The branch of `do_epoll` for events without EPOLLIN is not taken, since Linux reports an end or a reset as
readable. The disk never fills.

### CommandLine

A text is a sequence of words. `has` and `actual` are what `option_with_value`
keeps of an option (cmdline.h:698); they live as long as the process, because the
parser is a member of `CmdProcess`, and nothing resets them. `ReceiveCommand`
is one call of `parse`, whose loop over the words is the recursion of `Parsed`, one
`Read` per word: the first word is skipped, the word after an option is its value whatever it looks
like, a word that belongs to no option is put aside, an unknown option makes the
command fail but does not stop the loop, so that a command that is refused sets what
it names all the same. `Accepted` is the test at the end. Cutting the text at
blanks and quotes is left out; `comp_id` is converted later. `Values` are the texts a value
can have, the empty one, which an option has before it is set, among them.

### OutputStream and ReliableStream

`OutputStream` is the ring of `output_reliable_stream.c`. Messages are cut
from one sequence of units, so that order, loss and repetition can be seen; a slot
holds `Capacity` of them, and several messages may share it. `WriteHere` and
`WriteNext` are the two branches of `uxr_prepare_reliable_buffer_to_write` for a
message that fits a slot, `Flash` sends what can go, `ProcessAcknack` empties
what is acknowledged, `Resent` is what a request for more sends again. Sequence numbers
count modulo `SeqSize` and are compared on the shorter way round (`seq_num.c`).

`ReliableStream` adds the session that drives the ring (`RunSession`, `Heartbeat`,
`Return`), the network, and the other end, `input_reliable_stream.c` (`ReceiveData`,
`ReceiveHeartbeat`). The framework's two sessions are the two ends: it writes
through session 1 and reads through session 2; the agent between them and the
board is not in the repository and is taken to run the same protocol.

The network may lose anything, deliver a datagram again as long as it is under way,
and deliver in any order. Its bound is the life of a datagram: `MaxAge`
sequence numbers for data, `MaxAcks` later acknowledgements for an acknowledgement.
Without such a bound no protocol with numbers that start over is correct; with 65536 numbers
and a ring of eight the code has room for delays that do not occur. `OrderedAcks`
says whether an acknowledgement can be overtaken by a later one: with it the stream is
correct, without it it is not (`stream_late_ack`).

`Return` may happen at any time: `uxr_run_session_time` returns after a second of silence, and the
distance between heartbeats doubles from one to the next, from one run to the next too
(output_reliable_stream.c:179-190), so there are runs without any. It goes back to a
millisecond (the interval of the client's configuration) when an acknowledgement comes.

## 3. The runs

| run | asks | instance | distinct states |
|---|---|---|---|
| `framework_sar` | `StreamSafe` | one waveform, loaded, deleted and loaded again, boards that obey, fall silent or mute, one restart | 4 514 |
| `framework_many` | `CommandReaches`, `SwitchDone`, `PlacementWhole` | three waveforms, all commands, obedient boards | 362 347 |
| `framework_rack` | `TypeOK`, `HandlesLive`, `NoDanglingTarget`, `OnlyKnownCrashes`, `CommandEnds` | racks without dsp3/dsp4, refusals, silence; commands that name devices, components or nothing; two directory orders; no restart | 128 103 |
| `framework_duplicate` | `UniqueAppNames` (violated) | two loads of `sar` | - |
| `link_exchange` | `ImplementsExchange` | a DSP and an FPGA, two messages, all faults | 3 832 |
| `link_restart` | `Quiet`, `Synchronised` | the same, two restarts | 595 607 |
| `link_ends` | `MethodEnds` | boards that answer, a file that may be missing, two restarts | 145 682 |
| `server` | `FileWhole`, `ImplementsService`, `Served` | a polite client and a careless one, two requests each, one file name | 1 488 579 |
| `stream_fifo` | `TypeOK`, `Retained`, `ImplementsFifo`, `ConfirmedDelivered`, `RoomAgain`, `Delivered` | two slots of two units, six sequence numbers, six units | 35 787 |
| `stream_late_ack` | `Delivered` (violated) | two slots of one unit, eight numbers, three units, acknowledgements that are overtaken | - |
| `cmd_own` | `TypeOK`, `OwnArguments` | 45 texts, complete, incomplete and mistyped, in any order | 993 |
| `cmd_left_out` | `NeededIsNamed` (violated) | the same | - |

What they show:

* **`StreamSafe`**: whenever the FPGA streams radar samples, both DSPs its route
  leads to hold the radar code and run - in the middle of any start, stop, load or
  switch, after a board stopped answering, and after a restart during any of these.
  The run does not go on from states with two instances of the waveform (its `CONSTRAINT`,
  `UniqueAppNames`): there the property fails, which is a consequence of `framework_duplicate`.
  The opposite iteration orders of `SAR_Start` and `SAR_Stop` are what it rests on.
* **`CommandReaches`, `SwitchDone`, `PlacementWhole`**: after a start all boards of the
  application run, after a stop none runs it; a switch leaves "0" on the boards
  left, the application on those taken and the route leading there; an
  application is never spread over both halves, except an instance hidden behind
  an older one of its name, which no command reaches.
* **`OnlyKnownCrashes`** (an action property): which steps end the process: a signal, an
  unknown waveform, a `reconstruct` of no device, a `config` of a component that the application does not have, and a
  `loadapp` or `switch` that needs a board that is not configured. Nothing else does, in
  whatever state the framework is.
* **`HandlesLive`, `NoDanglingTarget`**: the tables and the ids agree; a component
  designates no device only inside a switch that is about to crash.
* **`CommandEnds`**: a command ends, crashes, or waits for a board that does not answer. The wait itself,
  which the code does not limit, is not counted against it.
* **`TypeOK`**: types, and that the loop of a method only visits components its object has (`FrameOK`).
* **`ImplementsExchange`, `Quiet`, `Synchronised`, `MethodEnds`**: although replies are
  anonymous, a method leaves nothing behind for the next one; the board executes
  the request once, before the method returns; every load that waited ends with the
  greetings; and with boards that answer no method waits for ever, a restarted
  process included.
* **`ImplementsService`**: next to a careless client, each request of a polite one is handled
  once and answered once, as itself, until one of its own items is cut or a file does not open.
* **`FileWhole`**: when the server reports a file as received, the file of that name is the one sent, even if
  the client's next request followed in the same segment; for a polite client it stays so for as long as it is that client's.
  It may be lost: to a transfer that takes the name, also one that breaks off, and to the exit of the process.
* **`Served`**: a polite client is answered in the end, unless the thread waits for bytes of a careless or lost client,
  an instruction never returns, the process ends, or the client itself was lost. This is all that can keep it waiting:
  the thread never waits for a client that waits for it.
* **`ImplementsFifo`, `Retained`, `Delivered`**: a stream is a queue, each unit once and in
  order, although slots are used again and numbers start over; what the reader waits for
  is still in the ring; everything is handed over in the end to those who run the session again and again.
* **`ConfirmedDelivered`, `RoomAgain`**: a session that returns "confirmed" has handed everything
  over, and leaves room for the next message. A full ring, in which `send_info` would
  serialise into an unset buffer (DspPublisherTwo.cpp:211), takes several messages that
  were not confirmed, and the framework sends the next one only after an answer to the last.
* **`OwnArguments`**: a command that is written out is executed, with its own arguments,
  whatever was executed or refused before it.

### Findings

* **`framework_duplicate`**: `UniqueAppNames` is the intention of the comment at
  SSDP_API.cpp:143; the code does not do it, and a second `loadapp` makes an instance that no
  command reaches.
* **`stream_late_ack`**: `uxr_process_acknack` does not look whether an acknowledgement is newer
  than the last one. One that was overtaken makes the number of slots to empty wrap, so
  that what is not acknowledged is thrown away; if it was lost it is never sent again, however often the
  session is run, against the promise of `stream_id.h:32`.
* **`cmd_left_out`**: `cmdline.h:522` refuses a command without a needed option, but only until
  some command has given it; from then on one that leaves out the function or the application is
  executed with those of an earlier command, perhaps another client's.

### Bounds

`MaxHandle` leaves room for the five devices and two to three applications, enough for a
duplicate and a hidden instance; ids are only compared, so more of them add no new
order. `MaxRestarts` 1 or 2 where restarts matter: a restart clears the process, and what survives
(boards, queues, `orphan`) is reached by the first one and met by the second; `framework_rack` and `framework_many` have none, since
what they ask is about the memory of one process (with one restart `framework_rack` passes too, on 1 525 347 states in four minutes,
and the theorems cover any number). One DSP and one
FPGA are the two ways of loading; a method uses one link only, and two links are what it
takes to confuse them. In `SSDPServer` an instruction is two items (it can be cut in the middle),
a file two, with a buffer of two (one recv or more, the last of which can overrun into the
next request); two requests of a client are one to disturb with and one to
be mistaken for the rest of it, or to be answered for it; one file name is the one that two clients fight for;
the theorems cover every other size. In `ReliableStream` two slots are
the fewest with an order among them; six sequence numbers are the fewest that exceed twice the ring and start
over with it, and six units in messages of one or two are between three and six datagrams, so that a number
is used twice; `SeqSize` stands for 65536.
`CHECK_DEADLOCK FALSE` is given where the system may stop: a hung thread, the bound
on restarts, requests or units, a silent board. `link_ends` checks deadlock.

### Fairness

`SSDPFramework`: weak fairness of the steps of the only thread; commands,
crashes and restarts are not assumed to happen. `DspLink`: of the thread, and of each
board's `Take` or `Boot`; a silent board is one whose `Silence` disables both, so fairness
does not promise an answer. `SSDPServer`: of the thread, and of clients
reading what was sent to them; what has been sent arrives, which is TCP's promise. Fairness of the
thread promises nothing about boards: `Conduct` may choose "hung", from where there is no step.
`ReliableStream`: none of running the session or of its return, which is up to its users. `Delivered` has the premise that runs
begin and end again and again; session 1 of a board is run only when a command is sent to it, and not
while the thread waits for the answer on session 2 (`recv_info`): a message lost in its first second stays lost
until the next command, which never comes, since the thread waits. `PROJECT.json` lists this as a hazard
that no property covers. Inside the runs there is strong fairness of heartbeats (every back-off ends, if the session is
run for long enough) and of the receipts, which is what a network that does not lose everything for ever grants to
what is sent again and again. `DspLink` takes what was sent to arrive.
The operating system schedules a runnable thread, which is all that weak fairness asks.

## 4. The proofs

All proofs hold for every value of the constants that the named assumptions allow.

**`SSDPFramework_proofs`**

* `TypeCorrect: Spec => []TypeOK`. `TypeOK` is inductive once it includes `FrameOK`,
  which says that the loop in progress only holds components its object has and that
  its object exists: `std::map` iterators and `operator[]` results are followed
  without a test. One lemma per action, and lemmas on `Insert`, `Least`,
  `HandleRequest` and the effects on boards.
* `HandlesCorrect: Spec => []HandlesLive`, by `HandlesInv`, which adds that
  `cur_id` does not fall below `BEGIN_ID`.
* `TargetsCorrect: Spec => []NoDanglingTarget`, by `TargetsInv`: the property excludes the
  middle of a switch, so the invariant must say which components may be unsettled there
  (`Unsettled`): those the loop has yet to load. A load of one that is no device crashes, so
  when the loop ends none is left.
* `CrashesCorrect: Spec => OnlyKnownCrashes`. The property looks at one step, but whether the
  step crashes was decided earlier. `CrashInv` says that an application that has been read has
  every component its file names (`ComponentsInv`: `std::map::insert` drops duplicates, never an
  id), and that what a switch has still to load is where a name of its lists leads (`SwitchInv`).
  With `ConfiguredResolves` - the name of a configured board leads to a device, since no
  application bears it - each crash is one of those listed.

**`SSDPCommands_proofs`** - what the commands do. The properties name the waveforms and boards of
`Sar_switch`, `Elec_switch` and `CmdProcess`, because the code does; the theorems hold for every rack,
directory order, XML file, set of commands and number of restarts under named hypotheses, each true of the
files of the repository and of the instances of the run that checks the property.

* `PlacementOrSpin: Spec => [](pc = "spin" \/ PlacementWhole)`, without hypotheses. `PlacementInv` adds why
  the property survives the two steps that move components: while an application is read, what has been read is on
  its home boards; while it is switched, the command in progress is about the oldest instance of its name.
  `NeverSpins` and `PlacementCorrect: Listed => (Spec => []PlacementWhole)`: when the files put the
  components on boards the lists of the switch know, it passes every component (`NothingStuck`).
* `CommandsCorrect: Obeying /\ DvbOnOneBoard => (Spec => []CommandReaches)`. `ToldInv`: the boards of the
  components the loop has passed have obeyed. Boards are shared by components and the loop goes by components, so the
  lemmas show that a later exchange does not undo an earlier one. Both hypotheses are needed: the result of
  an exchange is dropped, so a refusal is not noticed (`Obeying` excludes it), and `DVB_Start` reaches one component.
* `SwitchCorrect: Obeying /\ HalfAndFpga => (Spec => []SwitchDone)`. `SwitchedInv` follows the three loops:
  the boards left hold "0" (`Wiped`), those taken the code (`Reloaded`), and no board is both (`Halves`,
  from `HalfAndFpga`: a file uses no board together with its partner) - otherwise the second loop would
  undo the first.
* `StreamCorrect: Obeying /\ SarAlone /\ HalfAndFpga => (Spec /\ []UniqueAppNames => []StreamSafe)`. `StreamSafe` is
  about the boards alone, so it says nothing of what the next step tells them. `StreamInv` says for each point of each
  method why the next exchange is harmless: between commands the route leads to the boards of the application and they
  hold its code (`Ready`); while it is read the FPGA is loaded first, so nothing streams when a DSP is (`Reading`); a
  start reaches the FPGA last and a stop first; during a switch nothing streams. After a hang or a crash
  the memory is lost but the boards go on: only `StreamSafe` is left, and `Reading` of the next load needs no more.
  `SarAlone` is `sar.xml` and commands for it only, since `start` and `reconstruct` of a single device override all this.
  `[]UniqueAppNames` cannot be dropped: after load, switch and a second load the FPGA, freshly loaded, streams to
  the boards of the second instance, while a start reaches those of the first.

**`DspLink_proofs`**

* `TypeCorrect`.
* `QuietCorrect: Spec => []Quiet` and `SynchronisedCorrect: Spec => Synchronised`. `Quiet` speaks
  of links nobody waits on; it is not inductive, because what lies in the queues
  of the link somebody waits on decides how it is left. `IInv` gives, for every link
  that is not an orphan, the five situations it can be in: `AtRest`, `LoadSent`, `Announced`,
  `RequestSent`, `RequestTaken`. Each step moves the link between them.
* `Implements: MaxRestarts = 0 /\ Spec => ImplementsExchange`: the refinement. Each
  step is a step of `Exchange` or a stutter; `ObeyedWhere` ties the mapped flag to the
  situations of `IInv`. Without restarts no link is an orphan (`NeverOrphan`).

**`SSDPServer_proofs`** - for every set of clients and names, every length of instructions, files and buffer.

* `TypeCorrect: Spec => []TypeOK`. What is read of a stream is an item of some request, in step or not
  (`TypeInv`).
* `Implements: Spec => ImplementsService`. A step of the server or a client is a step of `Service` for
  one client or a stutter. The invariant `IInv` says of every polite client that is not lost which of five
  situations it is in (`Situation`): nothing asked (`Free`), the whole request in the stream (`Unread`), being
  read (`Reading`) - then the stream holds exactly what the handler has yet to read of it, and the disk what it has read of a
  file (`InStep`) - handled, or answered. The logs of that client are those the situation says. The streams of the others
  may hold anything: a step for another client leaves the situation alone (`Frame`, `FrameIdle`, `FrameStill`). It is where an item is
  cut or a file does not open that a client leaves the invariant for good.
* `FilesCorrect: Spec => []FileWhole`. That a file which was received stays whole is part of `IInv` (`Kept`): a file bears the
  request it was opened for, and no other request writes to it without taking it over. That it is whole when it is reported, to
  clients that pipeline too, needs more, since they have no situation. `FilesInv` says
  that wherever the name of a file is in the stream of a client that is not lost its size and its bytes follow
  (`Complete`); and that what the handler has in hand and what the stream holds are together the file (`InHand`, `Ready`).
  Then the loop that receives it ends after its last byte or, when it took more, not at all.

**`OutputStream_proofs` and `ReliableStream_proofs`** - for every ring, message size, length of the stream, and
life of datagrams (`StreamAssumption`).

* The proofs number the datagrams through: `Num(a)` is the code's number of the *a*-th, `Pos(a)` its slot, and `B[a]`
  the units up to its end. `Ring` and `Reader` say that the variables are the images of four such numbers:
  *A*, the last known to be acknowledged, *H*, the last handled, *S*, the last sent, *W*, the one being written.
  `IInv` is that such numbers and cuts exist, with *A* <= *H* <= *S* <= *A* + `History`, acknowledgements under way that name
  numbers between *A* and *H* in their order (`Acknowledged`), and data under way no older than `MaxAge`
  (`Travelling`). Everything in sight is then less than half of `SeqSize` apart, where comparing numbers the shorter way round is
  comparing what they stand for (lemmas `Apart`, `Round`, `RemainderSum` on remainders).
* `TypeCorrect`, `RetainedCorrect`, `ConfirmedCorrect`, `RoomCorrect` follow from it, each under `OrderedAcks`.
* `Implements: OrderedAcks => (Spec => ImplementsFifo)`: only `ReceiveData` hands over, and what it hands over is what `B`
  cuts from *H* on; `FlattenRuns` puts the pieces together.
* `OrderedAcks` is needed for *A* <= *H* and for *S* - *A* <= `History`: without it `stream_late_ack` finds the stream broken.
* `IInv` quantifies over a function on the numbers, so TLC cannot evaluate it; the properties that follow from it
  are what `stream_fifo` checks.

**`CommandLine_proofs`** - for every set of texts of any length.

* `TypeCorrect: Spec => []TypeOK`; `OwnCorrect: Spec => []OwnArguments`. `Parsed` is recursive over the positions of a text,
  and the proofs are inductions over them (`UpTo`). `Taken` is the invariant of the loop: after *i* words of a text in which options
  and values alternate, what the parser holds of an option is the last value given for it so far, and what it waits for is what
  the parity of *i* says.

Assumed: the `ASSUME`s of the modules - the types of the constants, that names of waveforms
and boards are disjoint, that messages differ from the words of the protocol, that no waveform has the name that stands for
"no program" (`OffAssumption`), that a ring is shorter than half of the numbers and its length divides theirs
(`RingAssumption`: 8 and 65536 in the code, where a slot is the number modulo the length of the ring, which goes on across the end of
the numbers only if it divides them), that the empty text is a value. TLC evaluates them on every run.

Every invariant, action property and refinement that a passing run checks is stated by a theorem. Only model-checked is liveness
(`CommandEnds`, `MethodEnds`, `Served`, `Delivered`): the proof system handles neither fairness nor ENABLED.
The library's theorems on induction take an operator as a parameter and cannot be used; `LeastNumber` derives what is
needed from the well-foundedness of inclusion among finite sets, in terms of sets.

## 5. Not modelled

* Of the XRCE client: fragments (every message of the framework fits a slot), best-effort streams, the transports, the serialisation of submessages, and
  the set-up of sessions. `init_dps_publisher` gives up when an entity is not created in time
  and nobody looks at its result; the model starts with sessions that work. An agent that
  restarts is not noticed by the framework and not modelled either.
* Board programs other than the library they use; bitstreams; DMA below success and failure.
* `DeviceZED`: no device file uses it, and its `DEV_Start` has other parameters than the one
  of the base class. `FPGAPublisher`: compiled and unused. `HelloWorld`: generated. `SSDP_LOG`:
  wrappers of a logger that `main` never starts. Link checks and status queries only print.
* XML parsing, cutting a text into words, socket set-up: straight-line code without state.

Most of the lines of the repository are vendored: spdlog with fmt, rapidxml, and two copies of the XRCE
client with its type serialisation. Of these only the reliable streams, the session loop and `cmdline.h`
decide what the framework does, and they are what is modelled.

## 6. Plan

1. *Done*: `SSDPFramework`, `Exchange`/`DspLink`, `Service`/`SSDPServer`, `Fifo`/`ReliableStream`, `CommandLine`,
   with the runs and the theorems above.
2. *Proofs next*: the safety half of `MethodEnds` and `Served` - that a thread that waits always has something to come, under
   boards that answer and clients that are polite; the refinement of `Exchange` on the links that are not orphans, restarts included;
   weaker hypotheses for `CommandReaches` (boards that refuse, at the cost of naming them).
3. *Models next*: a composition of `Service` with `SSDPFramework` and of its exchanges with
   `Exchange`, so that a client's answer is related to what the boards did.
