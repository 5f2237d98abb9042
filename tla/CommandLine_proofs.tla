-------------------------- MODULE CommandLine_proofs --------------------------
(***************************************************************************)
(* What CommandLine promises, for every set of texts: the options stay in  *)
(* their types, and a command that is written out is executed with its own *)
(* arguments.                                                              *)
(*                                                                         *)
(* The parser goes through a text word by word, so the proofs are          *)
(* inductions over its positions, in the form of lemma UpTo.               *)
(***************************************************************************)
EXTENDS CommandLine, LeastNumber

-----------------------------------------------------------------------------
(* The parser between two words.                                           *)

Parser == [has : [Options -> BOOLEAN], actual : [Options -> Words],
           wants : Options \cup {Nobody}, ok : BOOLEAN]

\* What parsing t leaves behind after each of its words.
Steps(t, g) ==
  /\ DOMAIN g = 1..Len(t) /\ g[1] = Start
  /\ \A i \in 1..(Len(t) - 1) : g[i + 1] = Read(g[i], t[i + 1])

\* The recursion of Parsed defines such steps.
LEMMA ParsedSteps ==
  ASSUME NEW t \in Seq(Words), t # <<>>
  PROVE  \E g : Steps(t, g) /\ Parsed(t) = g[Len(t)]
<1>. DEFINE Of(g, k) == g = [i \in 1..k |-> IF i = 1 THEN Start ELSE Read(g[i - 1], t[i])]
            T == {k \in 1..Len(t) : \E g : Of(g, k)}
            upto == CHOOSE g : Of(g, Len(t))
<1>1. Len(t) \in Nat \ {0}
  OBVIOUS
<1>2. 1 \in T
  <2>1. Of([i \in 1..1 |-> Start], 1)
    OBVIOUS
  <2>. HIDE DEF Of
  <2>. QED  BY <1>1, <2>1
<1>3. ASSUME NEW k \in 1..(Len(t) - 1), k \in T PROVE k + 1 \in T
  <2>1. PICK g : Of(g, k)
    BY <1>3
  <2>. DEFINE h == [i \in 1..(k + 1) |-> IF i = k + 1 THEN Read(g[k], t[k + 1]) ELSE g[i]]
  <2>2. ASSUME NEW i \in 1..(k + 1)
        PROVE  h[i] = IF i = 1 THEN Start ELSE Read(h[i - 1], t[i])
    <3>1. \A j \in 1..k : h[j] = g[j] /\ g[j] = IF j = 1 THEN Start ELSE Read(g[j - 1], t[j])
      BY <2>1
    <3>2. h[k + 1] = Read(g[k], t[k + 1])
      OBVIOUS
    <3>. HIDE DEF h
    <3>3. CASE i = k + 1
      <4>1. i - 1 = k /\ i # 1 /\ k \in 1..k
        BY <3>3
      <4>. QED  BY <3>1, <3>2, <3>3, <4>1
    <3>4. CASE i # k + 1
      <4>1. i \in 1..k /\ (i # 1 => i - 1 \in 1..k)
        BY <3>4
      <4>. QED  BY <3>1, <4>1
    <3>. QED  BY <3>3, <3>4
  <2>3. h = [i \in 1..(k + 1) |-> h[i]]
    OBVIOUS
  <2>. HIDE DEF h
  <2>4. Of(h, k + 1)
    BY <2>2, <2>3
  <2>5. k + 1 \in 1..Len(t)
    BY <1>1
  <2>. HIDE DEF Of
  <2>. QED  BY <2>4, <2>5
<1>4. Len(t) \in T
  <2>. HIDE DEF T
  <2>1. 1..Len(t) \subseteq T
    BY <1>1, <1>2, <1>3, UpTo
  <2>. QED  BY <1>1, <2>1
<1>5. Of(upto, Len(t))
  <2>1. \E g : Of(g, Len(t))
    BY <1>4
  <2>. HIDE DEF Of
  <2>. QED  BY <2>1
<1>6. Parsed(t) = upto[Len(t)]
  BY DEF Parsed
<1>. HIDE DEF upto
<1>7. Steps(t, upto)
  BY <1>1, <1>5 DEF Steps
<1>. QED  BY <1>6, <1>7

\* A word leaves the parser a parser.
LEMMA ReadType ==
  ASSUME NEW p \in Parser, NEW w \in Words, w.kind # "plain" => w.of # <<>>
  PROVE  Read(p, w) \in Parser
<1>1. w.of # <<>> => w.of[1] \in STRING /\ Last(w.of) \in STRING
  BY DEF Words, Last
<1>2. ASSUME NEW q \in Parser, NEW o, NEW v \in Words PROVE Set(q, o, v) \in Parser
  BY <1>2 DEF Set, Parser
<1>3. ASSUME NEW q \in Parser, NEW o PROVE Want(q, o) \in Parser
  BY <1>3 DEF Want, Parser
<1>4. Plain(w.value) \in Words
  BY DEF Plain, Words
<1>5. [p EXCEPT !.ok = FALSE] \in Parser
  BY DEF Parser
<1>6. w.kind \in {"plain", "short", "long", "assign"}
  BY DEF Words
<1>. QED  BY <1>1, <1>2, <1>3, <1>4, <1>5, <1>6 DEF Read

\* So parsing ends with a parser.
LEMMA ParsedType ==
  ASSUME NEW t \in Seq(Words), t # <<>>, Start \in Parser,
         \A i \in 1..Len(t) : t[i].kind # "plain" => t[i].of # <<>>
  PROVE  Parsed(t) \in Parser
<1>1. PICK g : Steps(t, g) /\ Parsed(t) = g[Len(t)]
  BY ParsedSteps
<1>. DEFINE T == {i \in 1..Len(t) : g[i] \in Parser}
<1>2. Len(t) \in Nat \ {0} /\ \A i \in 1..Len(t) : t[i] \in Words
  OBVIOUS
<1>3. 1 \in T
  BY <1>1, <1>2 DEF Steps
<1>4. ASSUME NEW i \in 1..(Len(t) - 1), i \in T PROVE i + 1 \in T
  BY <1>1, <1>2, <1>4, ReadType DEF Steps
<1>. HIDE DEF T
<1>5. 1..Len(t) \subseteq T
  BY <1>2, <1>3, <1>4, UpTo
<1>. QED  BY <1>1, <1>2, <1>5 DEF T

-----------------------------------------------------------------------------
(* Types.                                                                  *)

\* Between two commands the parser is one, too.
LEMMA StartType ==
  ASSUME TypeOK
  PROVE  Start \in Parser
BY DEF TypeOK, Start, Parser

\* A command leaves every variable in its type, and is executed only when every
\* needed option has a value.
LEMMA ReceiveType ==
  ASSUME TypeOK, NEW t \in Texts, ReceiveCommand(t)
  PROVE  TypeOK'
<1>1. CASE t = <<>>
  BY <1>1 DEF TypeOK, ReceiveCommand
<1>2. CASE t # <<>>
  <2>1. PICK p : p = Parsed(t)
    OBVIOUS
  <2>2. p \in Parser
    BY <1>2, <2>1, StartType, ParsedType, TextsAssumption
  <2>3. text' = t /\ has' = p.has /\ actual' = p.actual /\ accepted' = Accepted(p)
    BY <1>2, <2>1 DEF ReceiveCommand
  <2>4. Accepted(p) \in BOOLEAN /\ (Accepted(p) => \A o \in Needed : p.has[o])
    BY DEF Accepted
  <2>. QED  BY <2>2, <2>3, <2>4 DEF TypeOK, Parser
<1>. QED  BY <1>1, <1>2

\* The parser's options stay in their types whatever the clients send, and no
\* command is executed before each needed option has been given once.
THEOREM TypeCorrect == Spec => []TypeOK
<1>1. Init => TypeOK
  <2>1. <<>> \in Seq(STRING)
    OBVIOUS
  <2>2. Default \in Words
    BY <2>1, ValuesAssumption DEF Default, Plain, Words
  <2>. QED  BY <2>2 DEF Init, TypeOK
<1>2. TypeOK /\ [Next]_vars => TypeOK'
  <2>1. TypeOK /\ Next => TypeOK'
    BY ReceiveType DEF Next
  <2>2. TypeOK /\ UNCHANGED vars => TypeOK'
    BY DEF TypeOK, vars
  <2>. QED  BY <2>1, <2>2
<1>. QED  BY <1>1, <1>2, PTL DEF Spec

-----------------------------------------------------------------------------
(* A command that is written out.                                          *)

\* After i words of it: the parser has found nothing wrong, waits for a value
\* after every second word, and has the last value that was given to an option.
Taken(t, p, i) ==
  /\ p \in Parser /\ p.ok
  /\ p.wants = IF i % 2 = 0 THEN t[i].of[1] ELSE Nobody
  /\ \A o \in Options : \A j \in At(t, o) : j < i =>
       /\ p.has[o]
       /\ (\A m \in At(t, o) : m < i => m <= j) => p.actual[o] = t[j + 1]

\* An option is read: the next word will be its value.
LEMMA TakeOption ==
  ASSUME NEW t \in Seq(Words), Alternates(t), NEW i \in 1..(Len(t) - 1), i % 2 = 1,
         NEW p, Taken(t, p, i)
  PROVE  Taken(t, Read(p, t[i + 1]), i + 1)
<1>. DEFINE w == t[i + 1]
<1>1. /\ i + 1 \in 1..Len(t) /\ (i + 1) % 2 = 0 /\ w \in Words
      /\ w.kind \in {"short", "long"} /\ Len(w.of) = 1 /\ w.of[1] \in Options
  BY DEF Alternates
<1>2. p \in Parser /\ p.ok /\ p.wants = Nobody
  BY DEF Taken
<1>3. Read(p, w) = [p EXCEPT !.wants = w.of[1]]
  <2>. HIDE DEF w
  <2>1. Last(w.of) = w.of[1]
    BY <1>1 DEF Last
  <2>. QED  BY <1>1, <1>2, <2>1 DEF Read, Want
<1>4. PICK q : q = Read(p, w)
  OBVIOUS
<1>5. q \in Parser /\ q.ok /\ q.wants = w.of[1] /\ q.has = p.has /\ q.actual = p.actual
  <2>. HIDE DEF w
  <2>. QED  BY <1>1, <1>2, <1>3, <1>4 DEF Parser
<1>6. ASSUME NEW o \in Options, NEW j \in At(t, o)
      PROVE  j < i + 1 => j < i
  <2>1. j \in Nat /\ j % 2 = 0 /\ i \in Nat
    BY DEF At
  <2>2. j # i
    BY <2>1
  <2>. QED  BY <2>1, <2>2
<1>7. ASSUME NEW o \in Options, NEW j \in At(t, o), j < i + 1
      PROVE  /\ p.has[o]
             /\ (\A m \in At(t, o) : m < i + 1 => m <= j) => p.actual[o] = t[j + 1]
  <2>1. \A m \in At(t, o) : m < i => m < i + 1
    BY DEF At
  <2>. QED  BY <1>6, <1>7, <2>1 DEF Taken
<1>8. Taken(t, q, i + 1)
  BY <1>1, <1>5, <1>7 DEF Taken
<1>. QED  BY <1>4, <1>8

\* Its value is read, whatever it looks like.
LEMMA TakeValue ==
  ASSUME NEW t \in Seq(Words), Alternates(t), NEW i \in 1..(Len(t) - 1), i % 2 = 0,
         NEW p, Taken(t, p, i)
  PROVE  Taken(t, Read(p, t[i + 1]), i + 1)
<1>. DEFINE opt == t[i].of[1]
<1>1. i \in 1..Len(t) /\ opt \in Options /\ (i + 1) % 2 # 0 /\ i \in At(t, opt)
      /\ t[i + 1] \in Words
  BY DEF Alternates, At
<1>2. PICK o1, v : o1 = opt /\ v = t[i + 1]
  OBVIOUS
<1>3. p \in Parser /\ p.ok /\ p.wants = o1 /\ o1 # Nobody /\ o1 \in Options
  BY <1>1, <1>2 DEF Taken, Options, Needed, Nobody
<1>4. PICK q : q = Read(p, v)
  OBVIOUS
<1>5. q = [p EXCEPT !.has[o1] = TRUE, !.actual[o1] = v, !.wants = Nobody]
  BY <1>3, <1>4 DEF Read, Set
<1>6. /\ q \in Parser /\ q.ok /\ q.wants = Nobody /\ q.has[o1] /\ q.actual[o1] = v
      /\ \A o \in Options \ {o1} : q.has[o] = p.has[o] /\ q.actual[o] = p.actual[o]
  BY <1>1, <1>2, <1>3, <1>5 DEF Parser
<1>7. ASSUME NEW o \in Options, NEW j \in At(t, o), j < i + 1
      PROVE  /\ q.has[o]
             /\ (\A m \in At(t, o) : m < i + 1 => m <= j) => q.actual[o] = t[j + 1]
  <2>1. j \in Nat /\ i \in Nat /\ t[j].of[1] = o
    BY DEF At
  <2>2. CASE j = i
    BY <1>2, <1>6, <2>1, <2>2
  <2>3. CASE j # i
    <3>1. j < i
      BY <1>7, <2>1, <2>3
    <3>2. CASE o = o1
      <4>1. i \in At(t, o) /\ i < i + 1 /\ ~(i <= j)
        BY <1>1, <1>2, <2>1, <3>1, <3>2
      <4>. QED  BY <1>6, <3>2, <4>1
    <3>3. CASE o # o1
      <4>1. \A m \in At(t, o) : m < i => m < i + 1
        BY DEF At
      <4>. QED  BY <1>6, <3>1, <3>3, <4>1 DEF Taken
    <3>. QED  BY <3>2, <3>3
  <2>. QED  BY <2>2, <2>3
<1>8. Taken(t, q, i + 1)
  BY <1>1, <1>6, <1>7 DEF Taken
<1>. QED  BY <1>2, <1>4, <1>8

\* So at its end every option that was given has its last value.
LEMMA ParsedTaken ==
  ASSUME NEW t \in Seq(Words), Alternates(t), Start \in Parser
  PROVE  Taken(t, Parsed(t), Len(t))
<1>1. Len(t) \in Nat \ {0} /\ t # <<>>
  BY DEF Alternates
<1>2. PICK g : Steps(t, g) /\ Parsed(t) = g[Len(t)]
  BY <1>1, ParsedSteps
<1>. DEFINE T == {i \in 1..Len(t) : Taken(t, g[i], i)}
<1>3. 1 \in T
  <2>1. \A o \in Options : \A j \in At(t, o) : ~(j < 1)
    BY DEF At
  <2>2. Start.ok /\ Start.wants = Nobody
    BY DEF Start
  <2>. QED  BY <1>1, <1>2, <2>1, <2>2 DEF Taken, Steps
<1>4. ASSUME NEW i \in 1..(Len(t) - 1), i \in T PROVE i + 1 \in T
  <2>1. i % 2 = 0 \/ i % 2 = 1
    OBVIOUS
  <2>2. g[i + 1] = Read(g[i], t[i + 1]) /\ Taken(t, g[i], i) /\ i + 1 \in 1..Len(t)
    BY <1>1, <1>2, <1>4 DEF Steps
  <2>. QED  BY <2>1, <2>2, TakeOption, TakeValue
<1>. HIDE DEF T
<1>5. 1..Len(t) \subseteq T
  BY <1>1, <1>3, <1>4, UpTo
<1>. QED  BY <1>1, <1>2, <1>5 DEF T

\* A command establishes the promise about itself, whatever was parsed before.
LEMMA ReceiveOwn ==
  ASSUME TypeOK, NEW t \in Texts, ReceiveCommand(t)
  PROVE  OwnArguments'
<1>. SUFFICES ASSUME Alternates(t), \A o \in Needed : At(t, o) # {}
              PROVE  /\ accepted'
                     /\ \A o \in Options : \A i \in At(t, o) :
                          (\A j \in At(t, o) : j <= i) => actual'[o] = t[i + 1]
  BY DEF OwnArguments, ReceiveCommand
<1>1. t \in Seq(Words) /\ Len(t) \in Nat /\ Len(t) % 2 = 1 /\ t # <<>>
  BY TextsAssumption DEF Alternates
<1>2. PICK p : p = Parsed(t)
  OBVIOUS
<1>3. actual' = p.actual /\ accepted' = Accepted(p)
  BY <1>1, <1>2 DEF ReceiveCommand
<1>4. Taken(t, p, Len(t))
  BY <1>1, <1>2, StartType, ParsedTaken
<1>5. \A o \in Options : \A i \in At(t, o) : i < Len(t)
  <2>1. ASSUME NEW o \in Options, NEW i \in At(t, o) PROVE i < Len(t)
    <3>1. i \in 1..Len(t) /\ i % 2 = 0
      BY DEF At
    <3>2. i # Len(t)
      BY <1>1, <3>1
    <3>. QED  BY <1>1, <3>1, <3>2
  <2>. QED  BY <2>1
<1>6. Accepted(p)
  <2>1. \A o \in Needed : p.has[o]
    BY <1>4, <1>5 DEF Taken, Options
  <2>2. p.ok /\ p.wants = Nobody
    BY <1>1, <1>4 DEF Taken
  <2>. QED  BY <2>1, <2>2 DEF Accepted
<1>. QED  BY <1>3, <1>4, <1>5, <1>6 DEF Taken

\* A command in which options and values alternate and no needed option is
\* missing is executed with its own arguments, the last one given for each
\* option: no earlier command, and nothing that a value looks like, changes it.
THEOREM OwnCorrect == Spec => []OwnArguments
<1>1. Init => OwnArguments
  BY DEF Init, OwnArguments, Alternates
<1>2. TypeOK /\ OwnArguments /\ [Next]_vars => OwnArguments'
  <2>1. TypeOK /\ Next => OwnArguments'
    BY ReceiveOwn DEF Next
  <2>2. OwnArguments /\ UNCHANGED vars => OwnArguments'
    BY DEF OwnArguments, vars
  <2>. QED  BY <2>1, <2>2
<1>. QED  BY TypeCorrect, <1>1, <1>2, PTL DEF Spec
=============================================================================
