---------------------------- MODULE MCFramework ----------------------------
(* Small instances of SSDPFramework, from the configuration files the       *)
(* repository ships: devices/*.xml, sar.xml, elec_reco.xml, dvb-s2.xml.     *)
EXTENDS SSDPFramework

C(o, d, f) == [obj |-> o, dev |-> d, file |-> f]
Cmd(f, n)  == [f |-> f, name |-> n, comp |-> 0, file |-> "0"]

AllFiles == {"sar.bit", "elec.bit", "dvb.bit", "0", "1", "2"}

AllBoards == [dsp1 |-> "dsp", dsp2 |-> "dsp", dsp3 |-> "dsp", dsp4 |-> "dsp",
              fpga1 |-> "fpga"]

Sar  == << C(1, "fpga1", "sar.bit"), C(2, "dsp1", "2"), C(3, "dsp2", "2") >>
Elec == << C(1, "fpga1", "elec.bit"), C(2, "dsp1", "1") >>
Dvb  == << C(1, "fpga1", "dvb.bit"), C(2, "fpga1", "dvb.bit") >>

OneOrder == { <<"dsp1", "dsp2", "dsp3", "dsp4", "fpga1">> }
SarOnly == [sar |-> Sar]
AppCommands == { Cmd(f, "sar") : f \in {"loadapp", "start", "stop", "switch"} }

\* Racks without the boards the partner half of sar needs.
HalfOrders == { <<"fpga1", "dsp2", "dsp1">>, <<"dsp1", "dsp2", "fpga1", "dsp3">> }

AllWaveforms ==
  [n \in {"sar", "elec_reco", "dvb-s2"} |->
     CASE n = "sar" -> Sar [] n = "elec_reco" -> Elec [] n = "dvb-s2" -> Dvb]
Movers == [n \in {"sar", "elec_reco"} |-> AllWaveforms[n]]

ManyCommands ==
  { Cmd(f, n) : f \in {"loadapp", "start", "stop", "switch"},
                n \in DOMAIN AllWaveforms }

\* Commands for them: of applications, devices, components, and of nothing that
\* exists.
RackCommands ==
  AppCommands
  \cup { Cmd(f, "dsp1") : f \in {"start", "switch", "reconstruct"} }
  \cup { Cmd(f, "ghost") : f \in {"loadapp", "stop", "reconstruct", "config"} }
  \cup { Cmd(f, "sar") : f \in {"other", "reconstruct"} }
  \cup { Cmd(f, "elec_reco") : f \in {"loadapp", "switch"} }
  \cup { [f |-> "config", name |-> "sar", comp |-> k, file |-> "0"] : k \in {2, 9} }
============================================================================
