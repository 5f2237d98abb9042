---------------------------- MODULE CommandLine ----------------------------
(***************************************************************************)
(* How the text of a command becomes the arguments of                      *)
(* CmdProcess::ReceiveCommand: the parser of cmdline.h, which lives as     *)
(* long as the process and is asked to parse one command after another.    *)
(*                                                                         *)
(* A text is a sequence of words, already cut at its blanks; of two blanks *)
(* in a row comes an empty word.  What function and name mean to the       *)
(* framework is the subject of module SSDPFramework.                       *)
(***************************************************************************)
EXTENDS Naturals, SequencesExt

CONSTANTS
  Texts,    \* the commands clients may send
  Values    \* the values their options may have

\* The options of CmdProcess. Each has a short form, its first letter, and takes
\* a value.
Needed  == {"source", "target", "function", "APP_name"}
Options == Needed \cup {"comp_id", "property_name", "property_value"}

Plain(v)      == [kind |-> "plain", of |-> <<>>, value |-> v]       \* v, or a lone -
Short(opts)   == [kind |-> "short", of |-> opts, value |-> ""]      \* -x, -xyz
Long(opt)     == [kind |-> "long", of |-> <<opt>>, value |-> ""]    \* --name
LongIs(opt, v) == [kind |-> "assign", of |-> <<opt>>, value |-> v]  \* --name=v

Words == [kind : {"plain", "short", "long", "assign"}, of : Seq(STRING), value : Values]

\* An option nobody has set yet has the empty value.
ASSUME ValuesAssumption == "" \in Values
ASSUME TextsAssumption ==
  \A t \in Texts :
    t \in Seq(Words) /\ \A i \in 1..Len(t) : t[i].kind # "plain" => t[i].of # <<>>

VARIABLES
  has, actual,   \* of every option: whether it was ever set, and to what
  text,          \* the last command
  accepted       \* whether it was executed, with what actual holds

vars == <<has, actual, text, accepted>>

Default == Plain("")
Nobody  == "nobody"

Init ==
  /\ has = [o \in Options |-> FALSE]
  /\ actual = [o \in Options |-> Default]
  /\ text = <<>> /\ accepted = FALSE

-----------------------------------------------------------------------------
\* The parser between two words: wants is the option whose value comes next.
Start == [has |-> has, actual |-> actual, wants |-> Nobody, ok |-> TRUE]

Set(p, opt, word) ==
  IF opt \in Options
  THEN [p EXCEPT !.has[opt] = TRUE, !.actual[opt] = word, !.wants = Nobody]
  ELSE [p EXCEPT !.ok = FALSE]

Want(p, opt) ==
  IF opt \in Options THEN [p EXCEPT !.wants = opt] ELSE [p EXCEPT !.ok = FALSE]

\* Mistake: what looks like an option is never a value.
ReadCautious(p, word) ==
  IF p.wants # Nobody /\ word.kind = "plain" THEN Set(p, p.wants, word)
  ELSE CASE word.kind = "plain"  -> p
         [] word.kind = "assign" -> Set(p, word.of[1], Plain(word.value))
         [] OTHER                -> Want(p, Last(word.of))

\* The word after an option is its value, whatever it looks like. Of letters
\* that share a dash only the last can have one. Other words are put aside.
Read(p, word) ==
  IF p.wants # Nobody THEN Set(p, p.wants, word)
  ELSE CASE word.kind = "plain"  -> p
         [] word.kind = "assign" -> Set(p, word.of[1], Plain(word.value))
         [] word.kind = "long"   -> Want(p, word.of[1])
         [] word.kind = "short"  ->
              Want(IF Len(word.of) = 1 THEN p ELSE [p EXCEPT !.ok = FALSE], Last(word.of))

\* parser::parse, word by word: the first is taken for the name of the program.
Parsed(t) ==
  LET upto[i \in 1..Len(t)] ==
        IF i = 1 THEN Start ELSE Read(upto[i - 1], t[i])
  IN  upto[Len(t)]

\* Mistake: what is needed is not asked for.
AcceptedUnasked(p) == p.ok /\ p.wants = Nobody

Accepted(p) == p.ok /\ p.wants = Nobody /\ \A o \in Needed : p.has[o]

\* CmdProcess::ReceiveCommand. A text without words, or with an open quote, is
\* given up before anything is read.
ReceiveCommand(t) ==
  /\ text' = t
  /\ IF t = <<>> THEN accepted' = FALSE /\ UNCHANGED <<has, actual>>
     ELSE LET p == Parsed(t) IN
          /\ has' = p.has /\ actual' = p.actual
          /\ accepted' = Accepted(p)

Next == \E t \in Texts : ReceiveCommand(t)

Spec == Init /\ [][Next]_vars

-----------------------------------------------------------------------------
(* Properties. *)

\* Every variable stays in its type; nothing is executed before every needed
\* option has been given once.
TypeOK ==
  /\ has \in [Options -> BOOLEAN] /\ actual \in [Options -> Words]
  /\ text \in Texts \cup {<<>>}
  /\ accepted \in BOOLEAN /\ (accepted => \A o \in Needed : has[o])

\* Where the text names opt: at the second, fourth, ... word of a text in which
\* options and values alternate after the name of the program.
Alternates(t) ==
  /\ Len(t) % 2 = 1
  /\ \A i \in 1..Len(t) :
       i % 2 = 0 => t[i].kind \in {"short", "long"} /\ Len(t[i].of) = 1 /\ t[i].of[1] \in Options
At(t, opt) == {i \in 1..Len(t) : i % 2 = 0 /\ t[i].of[1] = opt}

\* A command that is written out - options and values alternate, none that is
\* needed is left out - is executed, and with its own arguments: whatever was
\* executed or refused before, and whatever its values look like.
OwnArguments ==
  Alternates(text) /\ (\A o \in Needed : At(text, o) # {})
  =>
    /\ accepted
    /\ \A o \in Options : \A i \in At(text, o) :
         (\A j \in At(text, o) : j <= i) => actual[o] = text[i + 1]

\* "need option: --" (cmdline.h:522): a command that leaves a needed option out
\* is refused.
NeededIsNamed ==
  accepted => \A o \in Needed : \E i \in 1..Len(text) : o \in Range(text[i].of)
=============================================================================
