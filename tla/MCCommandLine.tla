--------------------------- MODULE MCCommandLine ---------------------------
(***************************************************************************)
(* Commands for the parser: complete ones, those that leave something out, *)
(* and those that are slips of the pen.                                    *)
(***************************************************************************)
EXTENDS CommandLine

Clause(opt, v) == <<Short(<<opt>>), Plain(v)>>
Program == <<Plain("SSDP")>>
Ends == Clause("source", "ground") \o Clause("target", "framework")

OneOf(opt, values) == {<<>>} \cup {Clause(opt, v) : v \in values}

Written ==
  {Program \o e \o f \o a \o v :
     e \in {<<>>, Ends}, f \in OneOf("function", {"start", "stop"}),
     a \in OneOf("APP_name", {"wave1", "wave2"}), v \in OneOf("property_value", {"0x00"})}

\* An option twice, a value that looks like an option, a long name, a value lost.
Slips ==
  LET full == Program \o Ends \o Clause("function", "start") \o Clause("APP_name", "wave1") IN
  { full \o Clause("APP_name", "wave2"),
    full \o <<Short(<<"property_value">>), Short(<<"function">>)>>,
    full \o <<Long("property_name"), Plain("gunjiang")>>,
    full \o <<LongIs("comp_id", "1"), LongIs("colour", "red")>>,
    full \o <<Plain("stop")>>,
    full \o <<Short(<<"property_value">>)>>,
    Program \o Ends \o <<Short(<<"function">>)>> \o Clause("APP_name", "wave1"),
    Program \o Ends \o <<Short(<<"function", "APP_name">>), Plain("wave2")>>,
    <<>> }

WithProgram == Written \cup Slips

Spelled == {"", "SSDP", "ground", "framework", "start", "stop", "wave1", "wave2",
            "0x00", "gunjiang", "1", "red"}
=============================================================================
