----------------------- MODULE ReliableStream_proofs -----------------------
(***************************************************************************)
(* The reliable stream for every size of the rings and of the messages,    *)
(* every bound and every network whose acknowledgements do not overtake    *)
(* each other (OrderedAcks; without it run stream_late_ack shows the       *)
(* stream to fail).                                                        *)
(*                                                                         *)
(* The datagrams are numbered through, as in OutputStream_proofs: H is the *)
(* last one the reader handled.  It is never behind A, the last one the    *)
(* writer knows to be acknowledged, so the reader's window and the ring    *)
(* overlap, and no number in either, or under way, is that of another      *)
(* datagram that could be meant.                                           *)
(***************************************************************************)
EXTENDS ReliableStream, OutputStream_proofs, LeastNumber

-----------------------------------------------------------------------------
(* Sequences. *)

\* Runs of units that follow each other make one run.
LEMMA FlattenRuns ==
  ASSUME NEW n \in Nat \ {0}, NEW c \in [0..n -> Nat],
         \A i \in 1..n : c[i - 1] <= c[i]
  PROVE  /\ c[0] <= c[n]
         /\ FlattenSeq([i \in 1..n |-> Run(c[i - 1], c[i])]) = Run(c[0], c[n])
<1>. DEFINE q == [i \in 1..n |-> Run(c[i - 1], c[i])]
            flatten[i \in 1..n] == IF i = 1 THEN q[i] ELSE flatten[i - 1] \o q[i]
            r == [i \in 1..n |-> Run(c[0], c[i])]
<1>1. Len(q) = n
  OBVIOUS
<1>2. FlattenSeq(q) = flatten[n]
  BY <1>1 DEF FlattenSeq
<1>3. \A i \in 1..n : c[0] <= c[i]
  <2>. DEFINE T == {i \in 0..n : c[0] <= c[i]}
  <2>1. 0 \in T
    OBVIOUS
  <2>2. ASSUME NEW i \in 0..(n - 1), i \in T PROVE i + 1 \in T
    <3>1. i + 1 \in 1..n /\ (i + 1) - 1 = i /\ i \in 0..n
      OBVIOUS
    <3>2. c[i] <= c[i + 1] /\ c[i] \in Nat /\ c[i + 1] \in Nat /\ c[0] \in Nat
      BY <3>1
    <3>. QED  BY <2>2, <3>1, <3>2
  <2>3. 0..n \subseteq T
    <3>. HIDE DEF T
    <3>. QED  BY <2>1, <2>2, UpTo
  <2>. QED  BY <2>3
<1>4. ASSUME NEW i \in 2..n
      PROVE  r[i] = r[i - 1] \o q[i]
  <2>1. /\ i \in 1..n /\ i - 1 \in 1..n
        /\ c[0] \in Nat /\ c[i] \in Nat /\ c[i - 1] \in Nat
        /\ c[i - 1] <= c[i] /\ c[0] <= c[i - 1]
    BY <1>3
  <2>2. Run(c[0], c[i - 1]) \o Run(c[i - 1], c[i]) = Run(c[0], c[i])
    BY <2>1, RunConcat
  <2>. QED  BY <2>1, <2>2
<1>5. q[1] = r[1]
  OBVIOUS
<1>. HIDE DEF q, r
<1>6. r = [i \in 1..n |-> IF i = 1 THEN q[i] ELSE r[i - 1] \o q[i]]
  <2>1. r = [i \in 1..n |-> r[i]]
    BY DEF r
  <2>2. \A i \in 1..n : r[i] = IF i = 1 THEN q[i] ELSE r[i - 1] \o q[i]
    <3>1. \A i \in 1..n : i = 1 \/ i \in 2..n
      OBVIOUS
    <3>. QED  BY <1>4, <1>5, <3>1, Zenon
  <2>. QED  BY <2>1, <2>2, Zenon
<1>7. flatten = [i \in 1..n |-> IF i = 1 THEN q[i] ELSE flatten[i - 1] \o q[i]]
  BY <1>6, Zenon
<1>. HIDE DEF flatten
<1>8. 1..n \subseteq {i \in 1..n : flatten[i] = r[i]}
  <2>. DEFINE T == {i \in 1..n : flatten[i] = r[i]}
  <2>1. 1 \in T
    BY <1>5, <1>7
  <2>2. ASSUME NEW i \in 1..(n - 1), i \in T PROVE i + 1 \in T
    <3>1. i + 1 \in 1..n /\ i + 1 \in 2..n /\ (i + 1) - 1 = i /\ i + 1 # 1
      OBVIOUS
    <3>2. flatten[i + 1] = flatten[i] \o q[i + 1]
      BY <1>7, <3>1
    <3>3. r[i + 1] = r[i] \o q[i + 1]
      BY <1>4, <3>1
    <3>. QED  BY <2>2, <3>1, <3>2, <3>3
  <2>. HIDE DEF T
  <2>3. 1..n \subseteq T
    BY <2>1, <2>2, UpTo
  <2>. QED  BY <2>3 DEF T
<1>9. FlattenSeq(q) = r[n]
  BY <1>2, <1>8
<1>. QED  BY <1>3, <1>9 DEF q, r

\* What is left of a sequence without its first m elements.
LEMMA Later ==
  ASSUME NEW U, NEW q \in Seq(U), NEW m \in 0..Len(q)
  PROVE  /\ SubSeq(q, m + 1, Len(q)) \in Seq(U)
         /\ Len(SubSeq(q, m + 1, Len(q))) = Len(q) - m
         /\ \A k \in 1..(Len(q) - m) : SubSeq(q, m + 1, Len(q))[k] = q[m + k]
<1>. DEFINE p == SubSeq(q, m + 1, Len(q))
<1>1. Len(q) \in Nat /\ \A k \in 1..Len(q) : q[k] \in U
  BY ElementOfSeq
<1>2. \A k \in (m + 1)..Len(q) : q[k] \in U
  BY <1>1
<1>3. /\ p \in Seq(U)
      /\ Len(p) = IF m + 1 <= Len(q) THEN Len(q) - (m + 1) + 1 ELSE 0
      /\ \A k \in 1..(Len(q) - (m + 1) + 1) : p[k] = q[(m + 1) + k - 1]
  <2>1. m + 1 \in Int /\ Len(q) \in Int
    BY <1>1
  <2>. QED  BY <1>2, <2>1, SubSeqProperties
<1>. HIDE DEF p
<1>4. Len(p) = Len(q) - m
  BY <1>1, <1>3
<1>5. ASSUME NEW k \in 1..(Len(q) - m) PROVE p[k] = q[m + k]
  <2>1. k \in 1..(Len(q) - (m + 1) + 1) /\ (m + 1) + k - 1 = m + k
    BY <1>1
  <2>. QED  BY <1>3, <2>1
<1>. QED  BY <1>3, <1>4, <1>5 DEF p

-----------------------------------------------------------------------------
(* Acknowledgements under way: each names a datagram from A to H as the last *)
(* one handled, and a later one names none before it.                        *)

Acks == [first_unacked : SeqNums, nack : BOOLEAN]

Acknowledged(q, A, H) ==
  /\ q \in Seq(Acks)
  /\ \A k \in 1..Len(q) : \E f \in A..H : q[k].first_unacked = Num(f + 1)
  /\ \A j, k \in 1..Len(q) : j <= k =>
       \A f, g \in A..H :
         q[j].first_unacked = Num(f + 1) /\ q[k].first_unacked = Num(g + 1) => f <= g

\* Some of them, in their order.
LEMMA AcksSome ==
  ASSUME NEW A \in Int, NEW H \in Int, NEW q, Acknowledged(q, A, H),
         NEW p \in Seq(Acks), NEW at \in [1..Len(p) -> 1..Len(q)],
         \A j, k \in 1..Len(p) : j <= k => at[j] <= at[k],
         \A k \in 1..Len(p) : p[k] = q[at[k]]
  PROVE  Acknowledged(p, A, H)
<1>1. \A k \in 1..Len(p) : at[k] \in 1..Len(q)
  OBVIOUS
<1>2. \A k \in 1..Len(p) : \E f \in A..H : p[k].first_unacked = Num(f + 1)
  BY <1>1, SMTT(20) DEF Acknowledged
<1>3. ASSUME NEW j \in 1..Len(p), NEW k \in 1..Len(p), j <= k, NEW f \in A..H, NEW g \in A..H,
             p[j].first_unacked = Num(f + 1), p[k].first_unacked = Num(g + 1)
      PROVE  f <= g
  <2>1. /\ at[j] \in 1..Len(q) /\ at[k] \in 1..Len(q) /\ at[j] <= at[k]
        /\ q[at[j]].first_unacked = Num(f + 1) /\ q[at[k]].first_unacked = Num(g + 1)
    BY <1>1, <1>3
  <2>. QED  BY <2>1 DEF Acknowledged
<1>. QED  BY <1>2, <1>3 DEF Acknowledged

LEMMA AcksFrom ==
  ASSUME NEW A \in Int, NEW H \in Int, NEW q, Acknowledged(q, A, H), NEW m \in Nat
  PROVE  Acknowledged(SubSeq(q, m + 1, Len(q)), A, H)
<1>. DEFINE p == SubSeq(q, m + 1, Len(q))
            at == [k \in 1..Len(p) |-> m + k]
<1>1. q \in Seq(Acks) /\ Len(q) \in Nat
  BY DEF Acknowledged
<1>2. m \in 0..Len(q) => /\ p \in Seq(Acks) /\ Len(p) = Len(q) - m
                         /\ \A k \in 1..(Len(q) - m) : p[k] = q[m + k]
  BY <1>1, Later
<1>3. m > Len(q) => p = <<>>
  BY <1>1, SubSeqEmpty
<1>. HIDE DEF p
<1>4. p \in Seq(Acks)
  <2>1. m \in 0..Len(q) \/ m > Len(q)
    BY <1>1
  <2>2. <<>> \in Seq(Acks)
    OBVIOUS
  <2>. QED  BY <1>2, <1>3, <2>1, <2>2, Zenon
<1>5. \A k \in 1..Len(p) : m + k \in 1..Len(q) /\ p[k] = q[m + k]
  BY <1>1, <1>2, <1>3
<1>6. at \in [1..Len(p) -> 1..Len(q)] /\ \A k \in 1..Len(p) : p[k] = q[at[k]]
  BY <1>5
<1>7. \A j, k \in 1..Len(p) : j <= k => at[j] <= at[k]
  OBVIOUS
<1>. HIDE DEF at
<1>8. Acknowledged(p, A, H)
  BY <1>4, <1>6, <1>7, AcksSome
<1>. QED  BY <1>8 DEF p

LEMMA AcksLost ==
  ASSUME NEW A \in Int, NEW H \in Int, NEW q, Acknowledged(q, A, H), NEW n \in 1..Len(q)
  PROVE  Acknowledged(RemoveAt(q, n), A, H)
<1>. DEFINE p1 == SubSeq(q, 1, n - 1)
            p2 == SubSeq(q, n + 1, Len(q))
            p == p1 \o p2
            at == [k \in 1..Len(p) |-> IF k < n THEN k ELSE k + 1]
<1>1. q \in Seq(Acks) /\ Len(q) \in Nat /\ \A k \in 1..Len(q) : q[k] \in Acks
  BY ElementOfSeq DEF Acknowledged
<1>2. /\ p1 \in Seq(Acks) /\ Len(p1) = n - 1
      /\ \A k \in 1..(n - 1) : p1[k] = q[k]
  <2>1. /\ p1 \in Seq(Acks)
        /\ Len(p1) = IF 1 <= n - 1 THEN n - 1 - 1 + 1 ELSE 0
        /\ \A k \in 1..(n - 1 - 1 + 1) : p1[k] = q[1 + k - 1]
    <3>1. 1 \in Int /\ n - 1 \in Int /\ \A k \in 1..(n - 1) : q[k] \in Acks
      BY <1>1
    <3>. QED  BY <3>1, SubSeqProperties
  <2>2. n - 1 - 1 + 1 = n - 1 /\ \A k \in Int : 1 + k - 1 = k
    OBVIOUS
  <2>. QED  BY <2>1, <2>2
<1>3. /\ p2 \in Seq(Acks) /\ Len(p2) = Len(q) - n
      /\ \A k \in 1..(Len(q) - n) : p2[k] = q[n + k]
  <2>1. n \in 0..Len(q)
    BY <1>1
  <2>. QED  BY <1>1, <2>1, Later
<1>4. RemoveAt(q, n) = p
  BY DEF RemoveAt
<1>. HIDE DEF p1, p2
<1>5. /\ p \in Seq(Acks) /\ Len(p) = Len(q) - 1
      /\ \A k \in 1..Len(p) : p[k] = q[IF k < n THEN k ELSE k + 1]
  <2>1. /\ p \in Seq(Acks) /\ Len(p) = Len(p1) + Len(p2)
        /\ \A k \in 1..(Len(p1) + Len(p2)) :
             p[k] = IF k <= Len(p1) THEN p1[k] ELSE p2[k - Len(p1)]
    BY <1>2, <1>3, ConcatProperties
  <2>2. Len(p1) + Len(p2) = Len(q) - 1
    BY <1>1, <1>2, <1>3
  <2>3. ASSUME NEW k \in 1..Len(p) PROVE p[k] = q[IF k < n THEN k ELSE k + 1]
    <3>1. p[k] = IF k <= n - 1 THEN p1[k] ELSE p2[k - (n - 1)]
      BY <1>2, <2>1, <2>2, <2>3
    <3>2. k \in 1..(Len(q) - 1)
      BY <2>1, <2>2
    <3>3. CASE k < n
      <4>1. k \in 1..(n - 1)
        BY <3>3
      <4>. QED  BY <1>2, <3>1, <3>3, <4>1
    <3>4. CASE ~(k < n)
      <4>1. k - (n - 1) \in 1..(Len(q) - n) /\ n + (k - (n - 1)) = k + 1 /\ ~(k <= n - 1)
        BY <1>1, <3>2, <3>4
      <4>. QED  BY <1>3, <3>1, <3>4, <4>1
    <3>. QED  BY <3>3, <3>4
  <2>. QED  BY <2>1, <2>2, <2>3
<1>. HIDE DEF p
<1>6. at \in [1..Len(p) -> 1..Len(q)] /\ \A k \in 1..Len(p) : p[k] = q[at[k]]
  <2>1. \A k \in 1..Len(p) : (IF k < n THEN k ELSE k + 1) \in 1..Len(q)
    BY <1>1, <1>5
  <2>. QED  BY <1>5, <2>1
<1>7. \A j, k \in 1..Len(p) : j <= k => at[j] <= at[k]
  OBVIOUS
<1>. HIDE DEF at
<1>8. p \in Seq(Acks)
  BY <1>5
<1>9. Acknowledged(p, A, H)
  BY <1>6, <1>7, <1>8, AcksSome
<1>. QED  BY <1>4, <1>9

\* One more, of the last datagram handled.
LEMMA AcksSent ==
  ASSUME NEW A \in Int, NEW H \in Int, NEW K \in Int, A <= H, H <= K, K - A < SeqSize,
         NEW q, Acknowledged(q, A, H), NEW a \in Acks, a.first_unacked = Num(K + 1)
  PROVE  Acknowledged(Append(q, a), A, K)
<1>. DEFINE p == Append(q, a)
            n == Len(q)
<1>1. q \in Seq(Acks) /\ n \in Nat
  BY DEF Acknowledged
<1>2. /\ p \in Seq(Acks) /\ Len(p) = n + 1 /\ p[n + 1] = a
      /\ \A k \in 1..n : p[k] = q[k]
  BY <1>1, AppendProperties
<1>. HIDE DEF p, n
<1>3. ASSUME NEW f \in A..K, NEW g \in A..K, Num(f + 1) = Num(g + 1)
      PROVE  f = g
  BY <1>3, Sizes, NumEqual
<1>4. ASSUME NEW k \in 1..n
      PROVE  \E f \in A..H : p[k].first_unacked = Num(f + 1)
  BY <1>2 DEF Acknowledged, n
<1>5. ASSUME NEW k \in 1..(n + 1)
      PROVE  \E f \in A..K : p[k].first_unacked = Num(f + 1)
  <2>1. CASE k \in 1..n
    BY <1>4, <2>1
  <2>2. CASE k = n + 1
    BY <1>2, <2>2
  <2>. QED  BY <1>1, <2>1, <2>2
<1>6. ASSUME NEW j \in 1..(n + 1), NEW k \in 1..(n + 1), j <= k,
             NEW f \in A..K, NEW g \in A..K,
             p[j].first_unacked = Num(f + 1), p[k].first_unacked = Num(g + 1)
      PROVE  f <= g
  <2>1. CASE k = n + 1
    <3>1. Num(g + 1) = Num(K + 1)
      BY <1>2, <1>6, <2>1
    <3>. QED  BY <1>3, <3>1
  <2>2. CASE k # n + 1
    <3>1. j \in 1..n /\ k \in 1..n
      BY <1>1, <1>6, <2>2
    <3>2. f \in A..H /\ g \in A..H
      BY <1>3, <1>4, <1>6, <3>1
    <3>3. q[j].first_unacked = Num(f + 1) /\ q[k].first_unacked = Num(g + 1)
      BY <1>2, <1>6, <3>1
    <3>. QED  BY <1>6, <3>1, <3>2, <3>3, Zenon DEF Acknowledged, n
  <2>. QED  BY <2>1, <2>2
<1>7. Acknowledged(p, A, K)
  BY <1>2, <1>5, <1>6 DEF Acknowledged
<1>. QED  BY <1>7 DEF p

\* Once one is received, those sent after it are of datagrams from there on.
LEMMA AcksAfter ==
  ASSUME NEW A \in Int, NEW H \in Int, NEW q, Acknowledged(q, A, H),
         NEW k \in 1..Len(q), NEW G \in A..H, q[k].first_unacked = Num(G + 1)
  PROVE  Acknowledged(SubSeq(q, k + 1, Len(q)), G, H)
<1>. DEFINE p == SubSeq(q, k + 1, Len(q))
<1>1. q \in Seq(Acks) /\ Len(q) \in Nat /\ \A i \in 1..Len(q) : q[i] \in Acks
  BY ElementOfSeq DEF Acknowledged
<1>2. Acknowledged(p, A, H)
  BY AcksFrom
<1>3. Len(p) = Len(q) - k /\ \A i \in 1..Len(p) : p[i] = q[k + i]
  <2>1. k \in 0..Len(q)
    BY <1>1
  <2>. QED  BY <1>1, <2>1, Later
<1>. HIDE DEF p
<1>4. ASSUME NEW i \in 1..Len(p)
      PROVE  \E f \in G..H : p[i].first_unacked = Num(f + 1)
  <2>1. k + i \in 1..Len(q) /\ k <= k + i
    BY <1>1, <1>3
  <2>2. PICK f \in A..H : p[i].first_unacked = Num(f + 1)
    BY <1>2 DEF Acknowledged
  <2>3. G <= f
    <3>1. q[k + i].first_unacked = Num(f + 1)
      BY <1>3, <2>2
    <3>. QED  BY <2>1, <2>2, <3>1, Zenon DEF Acknowledged
  <2>. QED  BY <2>2, <2>3
<1>5. G..H \subseteq A..H
  OBVIOUS
<1>6. Acknowledged(p, G, H)
  BY <1>2, <1>4, <1>5 DEF Acknowledged
<1>. QED  BY <1>6 DEF p

-----------------------------------------------------------------------------
(* The reader: H is the last datagram it handled. Of the History datagrams   *)
(* after that one it holds some that were sent, but not the first.           *)

Reader(B, S, H) ==
  /\ last_handled = Num(H)
  /\ delivered = Run(0, B[H])
  /\ held \in [Slots -> Seq(Nat)]
  /\ \A d \in (H + 1)..(H + History) :
       held[Pos(d)] = <<>> \/ (H + 1 < d /\ d <= S /\ held[Pos(d)] = Body(B, d))

\* How many of the datagrams after the next one it holds, without a gap.
LEMMA ReadyRun ==
  ASSUME NEW B, NEW S \in Int, NEW H \in Int, Reader(B, S, H)
  PROVE  LET n == Ready(Num(H + 1)) IN
         /\ n \in 0..(History - 1)
         /\ \A i \in 1..n : held[Pos(H + 1 + i)] # <<>>
         /\ n = History - 1 \/ held[Pos(H + 1 + (n + 1))] = <<>>
<1>. DEFINE s == Num(H + 1)
            Gap(n) == n = History - 1 \/ Held(Add(s, n + 1)) = <<>>
            Gaps == {n \in 0..(History - 1) : Gap(n)}
            Fits(n) == /\ \A i \in 1..n : Held(Add(s, i)) # <<>>
                       /\ n = History - 1 \/ Held(Add(s, n + 1)) = <<>>
<1>1. \A i \in Int : Held(Add(s, i)) = held[Pos(H + 1 + i)]
  <2>. SUFFICES ASSUME NEW i \in Int PROVE Held(Add(s, i)) = held[Pos(H + 1 + i)]
    OBVIOUS
  <2>1. Add(s, i) = Num(H + 1 + i)
    BY NumArithmetic
  <2>2. Num(H + 1 + i) % History = Pos(H + 1 + i)
    BY PosNum
  <2>. QED  BY <2>1, <2>2 DEF Held
<1>2. History - 1 \in Nat
  BY Sizes
<1>3. Gaps \in SUBSET Nat /\ Gaps # {}
  <2>1. History - 1 \in 0..(History - 1) /\ Gap(History - 1)
    BY <1>2
  <2>. QED  BY <2>1
<1>4. PICK n \in Gaps : \A g \in Gaps : n <= g
  <2>. HIDE DEF Gaps
  <2>. QED  BY <1>3, LeastNumber
<1>5. Fits(n)
  <2>1. ASSUME NEW i \in 1..n PROVE Held(Add(s, i)) # <<>>
    <3>1. i - 1 \in 0..(History - 1) /\ i - 1 < n /\ (i - 1) + 1 = i
      BY <1>2, <1>4
    <3>2. i - 1 \notin Gaps
      BY <1>4, <3>1
    <3>3. ~Gap(i - 1)
      BY <3>1, <3>2
    <3>. QED  BY <3>1, <3>3
  <2>. QED  BY <1>4, <2>1
<1>6. \E g \in 0..(History - 1) : Fits(g)
  BY <1>4, <1>5
<1>7. Ready(s) = CHOOSE g \in 0..(History - 1) : Fits(g)
  BY DEF Ready
<1>. HIDE DEF Fits
<1>8. Ready(s) \in 0..(History - 1) /\ Fits(Ready(s))
  BY <1>6, <1>7
<1>. HIDE DEF s
<1>9. PICK g : g = Ready(s)
  OBVIOUS
<1>10. g \in Int /\ g + 1 \in Int /\ 1..g \subseteq Int
  BY <1>2, <1>8, <1>9
<1>11. /\ \A i \in 1..g : held[Pos(H + 1 + i)] # <<>>
       /\ g = History - 1 \/ held[Pos(H + 1 + (g + 1))] = <<>>
  BY <1>1, <1>8, <1>9, <1>10 DEF Fits
<1>. QED  BY <1>8, <1>9, <1>11 DEF s

\* Handling the next datagram, and those held after it, hands their units over.
LEMMA ReaderHandles ==
  ASSUME NEW B, NEW S \in Int, NEW H \in Int, Cuts(B), Reader(B, S, H),
         H < S, Handle(Packet(B, H + 1)), Cuts(B)'
  PROVE  \E K \in (H + 1)..S : Reader(B, S, K)'
<1>0. PICK n : n = Ready(Num(H + 1))
  OBVIOUS
<1>1. /\ n \in 0..(History - 1) /\ n \in Nat
      /\ \A i \in 1..n : held[Pos(H + 1 + i)] # <<>>
      /\ n = History - 1 \/ held[Pos(H + 1 + (n + 1))] = <<>>
  BY <1>0, ReadyRun
<1>2. PICK K \in Int : K = H + 1 + n
  BY <1>1
<1>3. History \in Nat \ {0} /\ K <= H + History
  BY <1>1, <1>2, Sizes
<1>4. \A i \in 1..n : /\ H + 1 + i \in (H + 1)..(H + History)
                      /\ H + 1 + i <= S /\ held[Pos(H + 1 + i)] = Body(B, H + 1 + i)
  <2>. SUFFICES ASSUME NEW i \in 1..n
                PROVE  /\ H + 1 + i \in (H + 1)..(H + History)
                       /\ H + 1 + i <= S /\ held[Pos(H + 1 + i)] = Body(B, H + 1 + i)
    OBVIOUS
  <2>1. H + 1 + i \in (H + 1)..(H + History)
    BY <1>1, <1>3
  <2>2. held[Pos(H + 1 + i)] # <<>>
    BY <1>1
  <2>. QED  BY <2>1, <2>2 DEF Reader
<1>5. K \in (H + 1)..S
  <2>1. n = 0 \/ n \in 1..n
    BY <1>1
  <2>2. CASE n = 0
    BY <1>2, <2>2
  <2>3. CASE n \in 1..n
    <3>1. K <= S /\ n >= 1
      BY <1>2, <1>4, <2>3
    <3>. QED  BY <1>1, <1>2, <3>1
  <2>. QED  BY <2>1, <2>2, <2>3
<1>6. Packet(B, H + 1).seq = Num(H + 1) /\ Packet(B, H + 1).body = Body(B, H + 1)
  BY DEF Packet
<1>7. /\ last_handled' = Add(Num(H + 1), n)
      /\ delivered' = delivered \o Body(B, H + 1)
                        \o FlattenSeq([i \in 1..n |-> Held(Add(Num(H + 1), i))])
      /\ held' = [k \in Slots |-> IF \E i \in 1..n : k = Add(Num(H + 1), i) % History
                                  THEN <<>> ELSE held[k]]
  BY <1>0, <1>6 DEF Handle
<1>8. \A i \in 1..n : /\ Add(Num(H + 1), i) % History = Pos(H + 1 + i)
                      /\ Held(Add(Num(H + 1), i)) = Body(B, H + 1 + i)
  <2>. SUFFICES ASSUME NEW i \in 1..n
                PROVE  /\ Add(Num(H + 1), i) % History = Pos(H + 1 + i)
                       /\ Held(Add(Num(H + 1), i)) = Body(B, H + 1 + i)
    OBVIOUS
  <2>1. Add(Num(H + 1), i) = Num(H + 1 + i)
    BY NumArithmetic
  <2>2. Num(H + 1 + i) % History = Pos(H + 1 + i)
    BY PosNum
  <2>. QED  BY <1>4, <2>1, <2>2 DEF Held
<1>9. last_handled' = Num(K)
  BY <1>1, <1>2, <1>7, NumArithmetic
<1>10. delivered' = Run(0, B[K])
  <2>1. /\ B[H] \in Nat /\ B[H + 1] \in Nat /\ B[K] \in Nat
        /\ 0 <= B[H] /\ B[H] <= B[H + 1] /\ B[H + 1] <= B[K]
        /\ 0 \in Nat /\ 0 <= B[H + 1]
    BY <1>2, <1>5, CutsBounds DEF Cuts
  <2>2. delivered \o Body(B, H + 1) = Run(0, B[H + 1])
    <3>1. Body(B, H + 1) = Run(B[H], B[H + 1])
      BY DEF Body
    <3>2. Run(0, B[H]) \o Run(B[H], B[H + 1]) = Run(0, B[H + 1])
      BY <2>1, RunConcat
    <3>. QED  BY <3>1, <3>2 DEF Reader
  <2>3. CASE n = 0
    <3>1. FlattenSeq([i \in 1..n |-> Held(Add(Num(H + 1), i))]) = <<>>
      BY <2>3 DEF FlattenSeq
    <3>2. Run(0, B[H + 1]) \in Seq(Nat)
      BY <2>1, RunSequence
    <3>3. Run(0, B[H + 1]) \o <<>> = Run(0, B[H + 1])
      BY <3>2, ConcatEmptySeq
    <3>4. K = H + 1
      BY <1>2, <2>3
    <3>. QED  BY <1>7, <2>2, <3>1, <3>3, <3>4
  <2>4. CASE n # 0
    <3>. DEFINE c == [i \in 0..n |-> B[H + 1 + i]]
                q == [i \in 1..n |-> Held(Add(Num(H + 1), i))]
    <3>1. n \in Nat \ {0}
      BY <1>1, <2>4
    <3>2. c \in [0..n -> Nat]
      BY <1>1, CutsBounds
    <3>3. \A i \in 1..n : c[i - 1] <= c[i] /\ Body(B, H + 1 + i) = Run(c[i - 1], c[i])
      <4>. SUFFICES ASSUME NEW i \in 1..n
                    PROVE  c[i - 1] <= c[i] /\ Body(B, H + 1 + i) = Run(c[i - 1], c[i])
        OBVIOUS
      <4>1. i - 1 \in 0..n /\ i \in 0..n
        BY <1>1
      <4>2. H + 1 + (i - 1) = (H + 1 + i) - 1
        OBVIOUS
      <4>3. c[i - 1] = B[(H + 1 + i) - 1] /\ c[i] = B[H + 1 + i]
        BY <4>1, <4>2
      <4>4. B[(H + 1 + i) - 1] <= B[H + 1 + i]
        BY DEF Cuts
      <4>. QED  BY <4>3, <4>4 DEF Body
    <3>4. c[0] = B[H + 1] /\ c[n] = B[K]
      BY <1>1, <1>2
    <3>5. q = [i \in 1..n |-> Run(c[i - 1], c[i])]
      BY <1>8, <3>3
    <3>. HIDE DEF c
    <3>6. FlattenSeq(q) = Run(B[H + 1], B[K])
      BY <3>1, <3>2, <3>3, <3>4, <3>5, FlattenRuns
    <3>7. Run(0, B[H + 1]) \o Run(B[H + 1], B[K]) = Run(0, B[K])
      BY <2>1, RunConcat
    <3>. QED  BY <1>7, <2>2, <3>6, <3>7
  <2>. QED  BY <2>3, <2>4
<1>11. held' \in [Slots -> Seq(Nat)]
  BY <1>7 DEF Reader
<1>12. ASSUME NEW k \in Slots
       PROVE  held'[k] = IF \E i \in 1..n : k = Pos(H + 1 + i) THEN <<>> ELSE held[k]
  BY <1>7, <1>8
<1>13. ASSUME NEW d \in (K + 1)..(K + History)
       PROVE  held'[Pos(d)] = <<>> \/ (K + 1 < d /\ d <= S /\ held'[Pos(d)] = Body(B, d))
  <2>0. d \in Int /\ Pos(d) \in Slots
    BY NumType
  <2>1. CASE d <= H + History
    <3>1. d \in (H + 1)..(H + History)
      BY <1>2, <1>1, <2>1
    <3>2. CASE d = K + 1
      <4>1. n # History - 1
        BY <1>2, <1>3, <2>1, <3>2
      <4>2. H + 1 + (n + 1) = d
        BY <1>1, <1>2, <3>2
      <4>3. held[Pos(d)] = <<>>
        BY <1>1, <4>1, <4>2
      <4>. QED  BY <1>12, <2>0, <4>3
    <3>3. CASE d # K + 1
      BY <1>12, <2>0, <3>1, <3>3 DEF Reader
    <3>. QED  BY <3>2, <3>3
  <2>2. CASE d > H + History
    <3>1. d - History \in (H + 1)..K /\ Pos(d - History) = Pos(d)
      BY <1>3, <2>0, <2>2, PosRound
    <3>2. CASE d - History = H + 1
      <4>1. H + 1 \in (H + 1)..(H + History)
        BY <1>3
      <4>2. held[Pos(H + 1)] = <<>>
        BY <4>1 DEF Reader
      <4>. QED  BY <1>12, <2>0, <3>1, <3>2, <4>2
    <3>3. CASE d - History # H + 1
      <4>1. (d - History) - (H + 1) \in 1..n
            /\ H + 1 + ((d - History) - (H + 1)) = d - History
        BY <1>1, <1>2, <1>3, <3>1, <3>3, SMTT(20)
      <4>. QED  BY <1>12, <2>0, <3>1, <4>1
    <3>. QED  BY <3>2, <3>3
  <2>. QED  BY <1>3, <2>0, <2>1, <2>2
<1>14. Reader(B, S, K)'
  BY <1>9, <1>10, <1>11, <1>13 DEF Reader
<1>. QED  BY <1>5, <1>14

\* The window tells datagrams handled before from those to come, old as they
\* may be.
LEMMA Window ==
  ASSUME NEW H \in Int, last_handled = Num(H),
         NEW d \in Int, H - d < MaxAge, d <= H + History
  PROVE  /\ InWindow(Num(d)) <=> H < d
         /\ H < d => (Num(d) = Add(last_handled, 1) <=> d = H + 1)
<1>. DEFINE h == SeqSize \div 2
<1>1. /\ History \in Nat \ {0} /\ h \in Nat /\ SeqSize \in Nat /\ History < h
      /\ 2 * h <= SeqSize /\ MaxAge \in Nat /\ MaxAge <= h
  BY Sizes, StreamAssumption
<1>2. Add(last_handled, History) = Num(H + History) /\ Add(last_handled, 1) = Num(H + 1)
  <2>1. \A b \in Int : Add(Num(H), b) = Num(H + b)
    BY NumArithmetic
  <2>2. History \in Int /\ 1 \in Int
    BY <1>1
  <2>. QED  BY <2>1, <2>2
<1>3. H < d => Before(Num(H), Num(d)) /\ ~Before(Num(H + History), Num(d))
  <2>. HAVE H < d
  <2>1. d - H < h
    BY <1>1
  <2>2. d <= H + History /\ (H + History) - d <= h /\ H + History \in Int
    BY <1>1
  <2>3. Before(Num(H), Num(d))
    BY <2>1, BeforeNum
  <2>4. ~Before(Num(H + History), Num(d))
    BY <2>2, BeforeNum
  <2>. QED  BY <2>3, <2>4
<1>4. d <= H => ~Before(Num(H), Num(d))
  <2>. HAVE d <= H
  <2>1. H - d <= h
    BY <1>1
  <2>. QED  BY <2>1, BeforeNum
<1>5. H < d => (Num(d) = Num(H + 1) <=> d = H + 1)
  BY <1>1, NumEqual
<1>. QED  BY <1>2, <1>3, <1>4, <1>5 DEF InWindow

\* A datagram is handled, held, or dropped.
LEMMA ReaderAccepts ==
  ASSUME NEW B, NEW S \in Int, NEW H \in Int, Cuts(B), Cuts(B)', Reader(B, S, H),
         H <= S, S <= H + History,
         NEW d \in (S - MaxAge + 1)..S, Accept(Packet(B, d))
  PROVE  \E K \in H..S : Reader(B, S, K)'
<1>1. d \in Int /\ H - d < MaxAge /\ d <= H + History /\ History \in Nat \ {0}
  BY Sizes, StreamAssumption
<1>2. /\ InWindow(Num(d)) <=> H < d
      /\ H < d => (Num(d) = Add(last_handled, 1) <=> d = H + 1)
  BY <1>1, Window DEF Reader
<1>3. Packet(B, d).seq = Num(d) /\ Packet(B, d).body = Body(B, d)
  BY DEF Packet
<1>4. CASE d <= H
  <2>1. UNCHANGED <<held, last_handled, delivered>>
    BY <1>2, <1>3, <1>4 DEF Accept
  <2>2. Reader(B, S, H)'
    BY <2>1 DEF Reader
  <2>. QED  BY <2>2
<1>5. CASE d = H + 1
  <2>1. Handle(Packet(B, H + 1))
    BY <1>2, <1>3, <1>5 DEF Accept
  <2>2. \E K \in (H + 1)..S : Reader(B, S, K)'
    BY <1>5, <2>1, ReaderHandles
  <2>. QED  BY <2>2
<1>6. CASE d > H + 1
  <2>0. d \in (H + 1)..(H + History) /\ Pos(d) \in Slots /\ Num(d) % History = Pos(d)
    BY <1>1, <1>6, NumType, PosNum
  <2>1. /\ UNCHANGED <<last_handled, delivered>>
        /\ held' = [held EXCEPT ![Pos(d)] = IF @ = <<>> THEN Body(B, d) ELSE @]
    BY <1>1, <1>2, <1>3, <1>6, <2>0 DEF Accept
  <2>2. Body(B, d) \in Seq(Nat)
    BY <1>1, BodySequence
  <2>3. held \in [Slots -> Seq(Nat)]
    BY DEF Reader
  <2>4. held' \in [Slots -> Seq(Nat)]
    BY <2>0, <2>1, <2>2, <2>3
  <2>5. ASSUME NEW e \in (H + 1)..(H + History)
        PROVE  held'[Pos(e)] = <<>> \/ (H + 1 < e /\ e <= S /\ held'[Pos(e)] = Body(B, e))
    <3>1. CASE e = d
      BY <1>6, <2>0, <2>1, <2>3, <3>1 DEF Reader
    <3>2. CASE e # d
      <4>1. Pos(e) # Pos(d) /\ Pos(e) \in Slots
        BY <1>1, <2>0, <3>2, NumType, PosEqual
      <4>2. held'[Pos(e)] = held[Pos(e)]
        BY <2>0, <2>1, <2>3, <4>1
      <4>. QED  BY <4>2 DEF Reader
    <3>. QED  BY <3>1, <3>2
  <2>6. Reader(B, S, H)'
    BY <2>1, <2>4, <2>5 DEF Reader
  <2>. QED  BY <2>6
<1>. QED  BY <1>1, <1>4, <1>5, <1>6

\* What is acknowledged is all that was handled, and no more: the next datagram
\* is never held.
LEMMA FirstOpen ==
  ASSUME NEW B, NEW S \in Int, NEW K \in Int, Reader(B, S, K)'
  PROVE  FirstUnacked = Num(K + 1)
<1>. DEFINE empty == {i \in 1..History : held'[Add(last_handled', i) % History] = <<>>}
<1>1. History \in Nat \ {0}
  BY Sizes
<1>2. Add(last_handled', 1) = Num(K + 1) /\ Num(K + 1) % History = Pos(K + 1)
  BY NumArithmetic, PosNum DEF Reader
<1>3. K + 1 \in (K + 1)..(K + History)
  BY <1>1
<1>4. held'[Pos(K + 1)] = <<>>
  BY <1>3 DEF Reader
<1>5. 1 \in empty
  BY <1>1, <1>2, <1>4
<1>6. \A i \in empty : i \in Int /\ 1 <= i
  BY <1>1
<1>7. FirstUnacked = IF empty = {} THEN last_handled'
                     ELSE Add(last_handled', CHOOSE i \in empty : \A j \in empty : i <= j)
  BY DEF FirstUnacked
<1>. HIDE DEF empty
<1>8. (CHOOSE i \in empty : \A j \in empty : i <= j) = 1
  BY <1>5, <1>6
<1>. QED  BY <1>2, <1>5, <1>7, <1>8

LEMMA Acknowledges ==
  ASSUME NEW B, NEW A \in Int, NEW S \in Int, NEW H \in Int, NEW K \in Int,
         A <= H, H <= K, K - A < SeqSize,
         Acknowledged(acks, A, H), Reader(B, S, K)', SendAcknack
  PROVE  Acknowledged(acks', A, K)
<1>. DEFINE a == [first_unacked |-> FirstUnacked, nack |-> Missing]
            sent == Append(acks, a)
            lost == IF Len(sent) > MaxAcks THEN 1 ELSE 0
<1>1. FirstUnacked = Num(K + 1) /\ Num(K + 1) \in SeqNums
  BY FirstOpen, NumType
<1>2. Missing \in BOOLEAN
  BY DEF Missing
<1>3. a \in Acks /\ a.first_unacked = Num(K + 1)
  <2>. HIDE DEF Acks
  <2>1. a.first_unacked = Num(K + 1)
    BY <1>1
  <2>2. a \in Acks
    BY <1>1, <1>2 DEF Acks
  <2>. QED  BY <2>1, <2>2
<1>4. acks' = SubSeq(sent, lost + 1, Len(sent)) /\ lost \in Nat
  BY DEF SendAcknack
<1>. HIDE DEF a, lost
<1>5. Acknowledged(sent, A, K)
  BY <1>3, AcksSent
<1>. HIDE DEF sent
<1>. QED  BY <1>4, <1>5, AcksFrom

-----------------------------------------------------------------------------
(* The inductive invariant. *)

\* A datagram under way is one that was sent, and not long ago.
Travelling(B, S) == \A m \in data : \E d \in (S - MaxAge + 1)..S : m = Packet(B, d)

Stream(B, A, S, W, H) ==
  /\ Cuts(B) /\ Ring(B, A, S, W) /\ Reader(B, S, H)
  /\ A <= H /\ H <= S
  /\ Acknowledged(acks, A, H)
  /\ Travelling(B, S)
  /\ beat \in SeqNums \cup {NoBeat} /\ last_announced \in SeqNums
  /\ run \in {"idle", "listening"} /\ (run = "listening" => B[S] = accepted)

IInv == \E B : \E A, S, W, H \in Int : Stream(B, A, S, W, H)

LEMMA StreamSizes ==
  ASSUME NEW B, NEW A \in Int, NEW S \in Int, NEW W \in Int, NEW H \in Int,
         Stream(B, A, S, W, H)
  PROVE  /\ A <= H /\ H <= S /\ S < W /\ S <= A + History /\ W <= A + History + 1
         /\ S <= H + History /\ S - A < SeqSize
         /\ History \in Nat \ {0} /\ History < SeqSize \div 2 /\ SeqSize \div 2 \in Nat
         /\ SeqSize \in Nat /\ 2 * (SeqSize \div 2) <= SeqSize
         /\ MaxAge \in Nat \ {0} /\ MaxAge <= SeqSize \div 2
BY Sizes, StreamAssumption DEF Stream, Ring

LEMMA RingKeeps ==
  ASSUME NEW B, NEW A \in Int, NEW S \in Int, NEW W \in Int, Cuts(B), Ring(B, A, S, W),
         UNCHANGED ring
  PROVE  Cuts(B)' /\ Ring(B, A, S, W)'
BY DEF ring, Cuts, Ring

\* What is sent or written does not concern the reader.
LEMMA ReaderKeeps ==
  ASSUME NEW B, NEW C, NEW S \in Int, NEW H \in Int, NEW Z \in Int, H <= S, S <= Z,
         \A d \in Int : d <= S => C[d] = B[d],
         Reader(B, S, H), UNCHANGED <<held, last_handled, delivered>>
  PROVE  Reader(C, Z, H)'
<1>1. C[H] = B[H]
  OBVIOUS
<1>2. \A d \in Int : d <= S => Body(C, d) = Body(B, d)
  BY DEF Body
<1>3. \A d \in (H + 1)..(H + History) :
        held[Pos(d)] = <<>> \/ (H + 1 < d /\ d <= Z /\ held[Pos(d)] = Body(C, d))
  BY <1>2 DEF Reader
<1>. QED  BY <1>1, <1>3 DEF Reader

\* The age of a datagram is how many were sent after it.
LEMMA Youth ==
  ASSUME NEW B, NEW Z \in Int, last_sent' = Num(Z), NEW datagrams,
         \A m \in datagrams : \E d \in Int : Z - SeqSize < d /\ d <= Z /\ m = Packet(B, d),
         data' = Young(datagrams)
  PROVE  Travelling(B, Z)'
<1>. SUFFICES ASSUME NEW m \in Young(datagrams)
              PROVE  \E d \in (Z - MaxAge + 1)..Z : m = Packet(B, d)
  BY DEF Travelling
<1>1. m \in datagrams /\ Sub(Num(Z), m.seq) < MaxAge
  BY DEF Young
<1>2. PICK d \in Int : Z - SeqSize < d /\ d <= Z /\ m = Packet(B, d)
  BY <1>1
<1>3. m.seq = Num(d)
  BY <1>2 DEF Packet
<1>4. Sub(Num(Z), Num(d)) = Num(Z - d)
  BY NumArithmetic
<1>5. Num(Z - d) = Z - d
  BY <1>2, Sizes, NumSmall
<1>6. MaxAge \in Nat
  BY Sizes, StreamAssumption
<1>. QED  BY <1>1, <1>2, <1>3, <1>4, <1>5, <1>6

LEMMA StreamInit == Init => IInv
<1>. SUFFICES ASSUME Init PROVE IInv
  OBVIOUS
<1>. DEFINE B == [d \in Int |-> 0]
<1>1. Cuts(B) /\ Ring(B, -1, -1, 0)
  BY RingInit DEF Init
<1>2. B[-1] = 0 /\ Run(0, 0) = <<>>
  BY RunEmpty
<1>. HIDE DEF B
<1>3. Num(-1) = SeqSize - 1 /\ SeqSize - 1 \in SeqNums
  BY Sizes, NumSmall DEF SeqNums
<1>4. Reader(B, -1, -1)
  <2>1. \A d \in (-1 + 1)..(-1 + History) : held[Pos(d)] = <<>>
    BY Sizes, NumType DEF Init
  <2>2. held \in [Slots -> Seq(Nat)]
    BY DEF Init
  <2>. QED  BY <1>2, <1>3, <2>1, <2>2 DEF Init, Reader
<1>5. Acknowledged(acks, -1, -1)
  BY DEF Init, Acknowledged
<1>6. Stream(B, -1, -1, 0, -1)
  BY <1>1, <1>2, <1>3, <1>4, <1>5 DEF Init, Stream, Travelling, InitRing
<1>. QED  BY <1>6 DEF IInv

-----------------------------------------------------------------------------
(* The steps of the writer. *)

LEMMA StepWrite ==
  ASSUME NEW B, NEW A \in Int, NEW S \in Int, NEW W \in Int, NEW H \in Int,
         Stream(B, A, S, W, H), WriteMessage
  PROVE  IInv'
<1>1. PICK len \in Lengths : Write(len)
  BY DEF WriteMessage
<1>2. len \in 1..Capacity /\ run = "idle" /\ UNCHANGED <<run, data, beat, acks, input>>
  BY StreamAssumption DEF WriteMessage
<1>3. PICK C : \E V \in Int : /\ Cuts(C)' /\ Ring(C, A, S, V)'
                              /\ \A d \in Int : d < W => C[d] = B[d]
  BY <1>1, <1>2, RingWrite DEF Stream
<1>4. PICK V \in Int : Cuts(C)' /\ Ring(C, A, S, V)'
  BY <1>3
<1>5. A <= H /\ H <= S /\ S < W
  BY StreamSizes
<1>6. \A d \in Int : d <= S => C[d] = B[d]
  BY <1>3, <1>5
<1>7. Reader(C, S, H)'
  BY <1>2, <1>5, <1>6, ReaderKeeps DEF Stream, input
<1>8. Travelling(C, S)'
  <2>1. \A d \in (S - MaxAge + 1)..S : Packet(C, d) = Packet(B, d)
    BY <1>6 DEF Packet, Body
  <2>. QED  BY <1>2, <2>1 DEF Stream, Travelling
<1>9. Stream(C, A, S, V, H)'
  BY <1>2, <1>4, <1>5, <1>7, <1>8 DEF Stream, input
<1>. QED  BY <1>9 DEF IInv

LEMMA StepRun ==
  ASSUME NEW B, NEW A \in Int, NEW S \in Int, NEW W \in Int, NEW H \in Int,
         Stream(B, A, S, W, H), RunSession
  PROVE  IInv'
<1>1. /\ Flash /\ data' = Young(data \cup Sent) /\ run' = "listening"
      /\ beat' = beat \/ beat' = NoBeat
      /\ UNCHANGED <<acks, input>>
  BY DEF RunSession
<1>2. PICK Z \in Int, V \in Int :
        /\ S <= Z /\ Z <= A + History /\ B[Z] = accepted'
        /\ Cuts(B)' /\ Ring(B, A, Z, V)'
        /\ Sent = {Packet(B, d) : d \in (S + 1)..Z}
  BY <1>1, RingFlash DEF Stream
<1>3. Reader(B, Z, H)'
  BY <1>1, <1>2, StreamSizes, ReaderKeeps DEF Stream, input
<1>4. Travelling(B, Z)'
  <2>1. ASSUME NEW m \in data \cup Sent
        PROVE  \E d \in Int : Z - SeqSize < d /\ d <= Z /\ m = Packet(B, d)
    <3>1. CASE m \in data
      <4>1. PICK d \in (S - MaxAge + 1)..S : m = Packet(B, d)
        BY <3>1 DEF Stream, Travelling
      <4>2. Z - SeqSize < d /\ d <= Z
        BY <1>2, <4>1, StreamSizes
      <4>. QED  BY <4>1, <4>2
    <3>2. CASE m \in Sent
      <4>1. PICK d \in (S + 1)..Z : m = Packet(B, d)
        BY <1>2, <3>2
      <4>2. Z - SeqSize < d /\ d <= Z
        BY <1>2, <4>1, StreamSizes
      <4>. QED  BY <4>1, <4>2
    <3>. QED  BY <3>1, <3>2
  <2>2. last_sent' = Num(Z)
    BY <1>2 DEF Ring
  <2>. QED  BY <1>1, <2>1, <2>2, Youth
<1>5. A <= H /\ H <= Z
  BY <1>2, StreamSizes
<1>6. Stream(B, A, Z, V, H)'
  BY <1>1, <1>2, <1>3, <1>4, <1>5 DEF Stream, input
<1>. QED  BY <1>6 DEF IInv

LEMMA StepHeartbeat ==
  ASSUME NEW B, NEW A \in Int, NEW S \in Int, NEW W \in Int, NEW H \in Int,
         Stream(B, A, S, W, H), Heartbeat
  PROVE  Stream(B, A, S, W, H)'
<1>1. /\ run = "listening" /\ run' = run /\ beat' = last_sent
      /\ UNCHANGED <<ring, data, acks, input>>
  BY DEF Heartbeat
<1>2. Cuts(B)' /\ Ring(B, A, S, W)' /\ accepted' = accepted
  BY <1>1, RingKeeps DEF Stream, ring
<1>3. Reader(B, S, H)'
  BY <1>1, StreamSizes, ReaderKeeps DEF Stream, input
<1>4. last_sent \in SeqNums
  BY NumType DEF Stream, Ring
<1>. QED  BY <1>1, <1>2, <1>3, <1>4 DEF Stream, Travelling, input

\* With the acknowledgements in their order, the one that is received names a
\* datagram between the last acknowledged and the last handled.
LEMMA StepAcknack ==
  ASSUME OrderedAcks, NEW B, NEW A \in Int, NEW S \in Int, NEW W \in Int, NEW H \in Int,
         Stream(B, A, S, W, H), NEW k \in 1..Len(acks), ReceiveAcknack(k)
  PROVE  IInv'
<1>1. /\ ProcessAcknack(acks[k].first_unacked) /\ run = "listening" /\ run' = run
      /\ data' = data \/ data' = Young(data \cup Resent)
      /\ acks' = SubSeq(acks, k + 1, Len(acks))
      /\ UNCHANGED <<beat, input>>
  BY DEF ReceiveAcknack
<1>2. PICK G \in A..H : acks[k].first_unacked = Num(G + 1)
  BY DEF Stream, Acknowledged
<1>3. G \in Int /\ A <= G /\ G <= H /\ G <= S
  BY <1>2, StreamSizes
<1>4. Cuts(B)' /\ Ring(B, G, S, W)'
  BY <1>1, <1>2, <1>3, RingAcknack DEF Stream
<1>5. UNCHANGED <<last_sent, accepted>>
  BY <1>1 DEF ProcessAcknack
<1>6. Acknowledged(acks, G, H)'
  BY <1>1, <1>2, AcksAfter DEF Stream
<1>7. Reader(B, S, H)'
  BY <1>1, StreamSizes, ReaderKeeps DEF Stream, input
<1>8. Travelling(B, S)'
  <2>1. CASE data' = data
    BY <2>1 DEF Stream, Travelling
  <2>2. CASE data' = Young(data \cup Resent)
    <3>1. ASSUME NEW m \in data \cup Resent
          PROVE  \E d \in Int : S - SeqSize < d /\ d <= S /\ m = Packet(B, d)
      <4>1. CASE m \in data
        <5>1. PICK d \in (S - MaxAge + 1)..S : m = Packet(B, d)
          BY <4>1 DEF Stream, Travelling
        <5>2. MaxAge \in Nat \ {0} /\ MaxAge <= SeqSize /\ SeqSize \in Nat
          BY StreamSizes, SMTT(20)
        <5>3. S - SeqSize < d /\ d <= S
          BY <5>1, <5>2
        <5>. QED  BY <5>1, <5>3
      <4>2. CASE m \in Resent
        <5>1. PICK d \in (G + 1)..S : m = Packet(B, d)
          BY <1>3, <1>4, <1>5, <4>2, RingResent
        <5>2. S - SeqSize < d /\ d <= S
          BY <1>3, <5>1, StreamSizes, SMTT(20)
        <5>. QED  BY <5>1, <5>2
      <4>. QED  BY <3>1, <4>1, <4>2
    <3>2. last_sent' = Num(S)
      BY <1>4 DEF Ring
    <3>. QED  BY <2>2, <3>1, <3>2, Youth
  <2>. QED  BY <1>1, <2>1, <2>2
<1>9. Stream(B, G, S, W, H)'
  BY <1>1, <1>3, <1>4, <1>5, <1>6, <1>7, <1>8 DEF Stream, input
<1>. QED  BY <1>3, <1>9 DEF IInv

LEMMA StepReturn ==
  ASSUME NEW B, NEW A \in Int, NEW S \in Int, NEW W \in Int, NEW H \in Int,
         Stream(B, A, S, W, H), Return
  PROVE  Stream(B, A, S, W, H)'
<1>1. run' = "idle" /\ UNCHANGED <<ring, data, beat, acks, input>>
  BY DEF Return
<1>2. Cuts(B)' /\ Ring(B, A, S, W)'
  BY <1>1, RingKeeps DEF Stream
<1>3. Reader(B, S, H)'
  BY <1>1, StreamSizes, ReaderKeeps DEF Stream, input
<1>. QED  BY <1>1, <1>2, <1>3 DEF Stream, Travelling, input

-----------------------------------------------------------------------------
(* The steps of the reader, and of the network. *)

\* Either way an acknowledgement of what is handled by then is sent.
LEMMA StepData ==
  ASSUME NEW B, NEW A \in Int, NEW S \in Int, NEW W \in Int, NEW H \in Int,
         Stream(B, A, S, W, H), NEW s \in SeqNums, ReceiveData(s)
  PROVE  \E K \in H..S : Stream(B, A, S, W, K)'
<1>1. PICK m \in data : m.seq = s /\ Accept(m)
  BY DEF ReceiveData
<1>2. Announce(s) /\ SendAcknack /\ UNCHANGED <<ring, run, data, beat>>
  BY DEF ReceiveData
<1>3. PICK d \in (S - MaxAge + 1)..S : m = Packet(B, d)
  BY DEF Stream, Travelling
<1>4. Cuts(B)' /\ Ring(B, A, S, W)' /\ accepted' = accepted
  BY <1>2, RingKeeps DEF Stream, ring
<1>5. PICK K \in H..S : Reader(B, S, K)'
  <2>1. H <= S /\ S <= H + History
    BY StreamSizes
  <2>. QED  BY <1>1, <1>3, <1>4, <2>1, ReaderAccepts DEF Stream
<1>6. K \in Int /\ A <= H /\ H <= K /\ K <= S /\ A <= K /\ K - A < SeqSize
  BY StreamSizes
<1>7. Acknowledged(acks', A, K)
  BY <1>2, <1>5, <1>6, Acknowledges DEF Stream
<1>8. last_announced' \in SeqNums
  BY <1>2 DEF Announce, Stream
<1>9. Stream(B, A, S, W, K)'
  BY <1>2, <1>4, <1>5, <1>6, <1>7, <1>8 DEF Stream, Travelling
<1>. QED  BY <1>9

LEMMA StepBeat ==
  ASSUME NEW B, NEW A \in Int, NEW S \in Int, NEW W \in Int, NEW H \in Int,
         Stream(B, A, S, W, H), ReceiveHeartbeat
  PROVE  Stream(B, A, S, W, H)'
<1>1. /\ beat # NoBeat /\ beat' = NoBeat /\ Announce(beat) /\ SendAcknack
      /\ UNCHANGED <<held, last_handled, delivered>> /\ UNCHANGED <<ring, run, data>>
  BY DEF ReceiveHeartbeat
<1>2. Cuts(B)' /\ Ring(B, A, S, W)' /\ accepted' = accepted
  BY <1>1, RingKeeps DEF Stream, ring
<1>3. A <= H /\ H <= S /\ H - A < SeqSize
  BY StreamSizes
<1>4. Reader(B, S, H)'
  BY <1>1, <1>3, ReaderKeeps DEF Stream
<1>5. Acknowledged(acks', A, H)
  BY <1>1, <1>3, <1>4, Acknowledges DEF Stream
<1>6. last_announced' \in SeqNums
  BY <1>1 DEF Announce, Stream
<1>. QED  BY <1>1, <1>2, <1>3, <1>4, <1>5, <1>6 DEF Stream, Travelling

LEMMA StepLose ==
  ASSUME NEW B, NEW A \in Int, NEW S \in Int, NEW W \in Int, NEW H \in Int,
         Stream(B, A, S, W, H), Lose
  PROVE  Stream(B, A, S, W, H)'
<1>1. UNCHANGED <<ring, run, input>>
  BY DEF Lose
<1>2. data' \subseteq data /\ (beat' = beat \/ beat' = NoBeat)
  BY DEF Lose
<1>3. Cuts(B)' /\ Ring(B, A, S, W)' /\ accepted' = accepted
  BY <1>1, RingKeeps DEF Stream, ring
<1>4. Reader(B, S, H)'
  BY <1>1, StreamSizes, ReaderKeeps DEF Stream, input
<1>5. Acknowledged(acks', A, H)
  <2>1. acks' = acks \/ \E k \in 1..Len(acks) : acks' = RemoveAt(acks, k)
    BY DEF Lose
  <2>. QED  BY <2>1, AcksLost DEF Stream
<1>. QED  BY <1>1, <1>2, <1>3, <1>4, <1>5 DEF Stream, Travelling, input

LEMMA StepStutter ==
  ASSUME NEW B, NEW A \in Int, NEW S \in Int, NEW W \in Int, NEW H \in Int,
         Stream(B, A, S, W, H), UNCHANGED vars
  PROVE  Stream(B, A, S, W, H)'
<1>1. UNCHANGED <<ring, run, data, beat, acks, input>>
  BY DEF vars
<1>2. Cuts(B)' /\ Ring(B, A, S, W)' /\ accepted' = accepted
  BY <1>1, RingKeeps DEF Stream, ring
<1>3. Reader(B, S, H)'
  BY <1>1, StreamSizes, ReaderKeeps DEF Stream, input
<1>. QED  BY <1>1, <1>2, <1>3 DEF Stream, Travelling, input

LEMMA StreamStep == OrderedAcks /\ IInv /\ [Next]_vars => IInv'
<1>. SUFFICES ASSUME OrderedAcks, IInv, [Next]_vars PROVE IInv'
  OBVIOUS
<1>. PICK B : \E A, S, W, H \in Int : Stream(B, A, S, W, H)
  BY DEF IInv
<1>. PICK A \in Int, S \in Int, W \in Int, H \in Int : Stream(B, A, S, W, H)
  OBVIOUS
<1>1. CASE WriteMessage
  BY <1>1, StepWrite
<1>2. CASE RunSession
  BY <1>2, StepRun
<1>3. CASE Heartbeat
  BY <1>3, StepHeartbeat DEF IInv
<1>4. CASE Return
  BY <1>4, StepReturn DEF IInv
<1>5. ASSUME NEW k \in 1..Len(acks), ReceiveAcknack(k) PROVE IInv'
  BY <1>5, StepAcknack
<1>6. ASSUME NEW s \in SeqNums, ReceiveData(s) PROVE IInv'
  <2>1. PICK K \in H..S : Stream(B, A, S, W, K)'
    BY <1>6, StepData
  <2>. QED  BY <2>1 DEF IInv
<1>7. CASE ReceiveHeartbeat
  BY <1>7, StepBeat DEF IInv
<1>8. CASE Lose
  BY <1>8, StepLose DEF IInv
<1>9. CASE UNCHANGED vars
  BY <1>9, StepStutter DEF IInv
<1>. QED  BY <1>1, <1>2, <1>3, <1>4, <1>5, <1>6, <1>7, <1>8, <1>9 DEF Next

-----------------------------------------------------------------------------
(* What follows from the invariant. *)

LEMMA InvTypeOK == IInv => TypeOK
<1>. SUFFICES ASSUME IInv PROVE TypeOK
  OBVIOUS
<1>. PICK B : \E A, S, W, H \in Int : Stream(B, A, S, W, H)
  BY DEF IInv
<1>. PICK A \in Int, S \in Int, W \in Int, H \in Int : Stream(B, A, S, W, H)
  OBVIOUS
<1>1. Cuts(B) /\ Ring(B, A, S, W) /\ Reader(B, S, H) /\ accepted \in Nat
  BY DEF Stream, Cuts
<1>2. \A d \in Int : Body(B, d) \in Seq(1..accepted) /\ Len(Body(B, d)) <= Capacity
  BY <1>1, BodySequence
<1>3. ASSUME NEW k \in Slots
      PROVE  slot[k] \in Seq(1..accepted) /\ Len(slot[k]) <= Capacity
  <2>1. PICK d \in (A + 1)..(A + History) : k = Pos(d)
    BY PosCover
  <2>2. slot[k] = Body(B, d) /\ d \in Int
    BY <1>1, <2>1 DEF Ring
  <2>. QED  BY <1>2, <2>2
<1>4. ASSUME NEW k \in Slots PROVE held[k] \in Seq(1..accepted)
  <2>1. PICK d \in (H + 1)..(H + History) : k = Pos(d)
    BY PosCover
  <2>2. held[k] = <<>> \/ held[k] = Body(B, d)
    BY <1>1, <2>1 DEF Reader
  <2>3. <<>> \in Seq(1..accepted) /\ d \in Int
    OBVIOUS
  <2>. QED  BY <1>2, <2>2, <2>3
<1>5. slot \in [Slots -> Seq(1..accepted)] /\ held \in [Slots -> Seq(1..accepted)]
  BY <1>1, <1>3, <1>4 DEF Ring, Reader
<1>6. {last_written, last_sent, last_acknown} \subseteq SeqNums /\ last_handled \in SeqNums
  BY <1>1, NumType DEF Ring, Reader
<1>7. ASSUME NEW m \in data PROVE m \in [seq : SeqNums, body : Seq(1..accepted)]
  <2>1. PICK d \in Int : m = Packet(B, d)
    BY DEF Stream, Travelling
  <2>. QED  BY <1>2, <2>1, NumType DEF Packet
<1>8. delivered \in Seq(1..accepted)
  <2>1. 0 \in Nat /\ B[H] \in Nat /\ 0 <= B[H] /\ B[H] <= accepted
    BY <1>1, CutsBounds
  <2>2. Run(0, B[H]) \in Seq(1..accepted)
    BY <1>1, <2>1, RunSequence
  <2>. QED  BY <1>1, <2>2 DEF Reader
<1>9. /\ acks \in Seq([first_unacked : SeqNums, nack : BOOLEAN])
      /\ run \in {"idle", "listening"}
      /\ beat \in SeqNums \cup {NoBeat} /\ last_announced \in SeqNums
  BY DEF Stream, Acknowledged, Acks
<1>. QED  BY <1>1, <1>3, <1>5, <1>6, <1>7, <1>8, <1>9 DEF TypeOK, TypeRing

\* The units handed over.
LEMMA DeliveredUnits ==
  ASSUME NEW B, NEW S \in Int, NEW H \in Int, Cuts(B), Reader(B, S, H)
  PROVE  Len(delivered) = B[H] /\ B[H] \in Nat
<1>1. 0 \in Nat /\ B[H] \in Nat /\ 0 <= B[H] /\ B[H] - 0 = B[H]
  BY CutsBounds
<1>2. Len(Run(0, B[H])) = B[H] - 0
  BY <1>1, RunSequence
<1>. QED  BY <1>1, <1>2 DEF Reader

LEMMA InvRetained == IInv => Retained
<1>. SUFFICES ASSUME IInv, Before(last_handled, last_sent)
              PROVE  LET next == Slot(Add(last_handled, 1)) IN
                     next # <<>> /\ next[1] = Len(delivered) + 1
  BY DEF Retained
<1>. PICK B : \E A, S, W, H \in Int : Stream(B, A, S, W, H)
  BY DEF IInv
<1>. PICK A \in Int, S \in Int, W \in Int, H \in Int : Stream(B, A, S, W, H)
  OBVIOUS
<1>1. /\ Cuts(B) /\ Ring(B, A, S, W) /\ Reader(B, S, H)
      /\ last_handled = Num(H) /\ last_sent = Num(S)
  BY DEF Stream, Ring, Reader
<1>2. A <= H /\ H <= S /\ S < W /\ S <= A + History /\ H + 1 \in Int /\ History \in Nat
  BY StreamSizes
<1>3. H < S
  <2>1. H = S => Num(H) = Num(S)
    OBVIOUS
  <2>. QED  BY <1>1, <1>2, <2>1 DEF Before
<1>4. H + 1 \in (A + 1)..(A + History) /\ H + 1 \in (A + 1)..(W - 1) /\ (H + 1) - 1 = H
  BY <1>2, <1>3
<1>5. Slot(Add(last_handled, 1)) = Body(B, H + 1)
  <2>1. Add(Num(H), 1) = Num(H + 1)
    BY NumArithmetic
  <2>. QED  BY <1>1, <1>4, <2>1, RingSlots
<1>6. B[H] < B[H + 1]
  <2>1. B[(H + 1) - 1] < B[H + 1]
    BY <1>1, <1>4 DEF Ring
  <2>. QED  BY <1>4, <2>1
<1>7. /\ B[(H + 1) - 1] \in Nat /\ B[H + 1] \in Nat
      /\ Body(B, H + 1) = <<>> <=> B[(H + 1) - 1] = B[H + 1]
      /\ Body(B, H + 1) # <<>> => Body(B, H + 1)[1] = B[(H + 1) - 1] + 1
  BY <1>1, <1>2, BodySequence
<1>8. Len(delivered) = B[H]
  BY <1>1, DeliveredUnits
<1>. QED  BY <1>4, <1>5, <1>6, <1>7, <1>8

\* "Confirmed" says that the last datagram sent was handled, and a session has
\* sent everything.
LEMMA ConfirmedAll ==
  ASSUME NEW B, NEW A \in Int, NEW S \in Int, NEW W \in Int, NEW H \in Int,
         Stream(B, A, S, W, H), run = "listening", Confirmed
  PROVE  A = S /\ H = S /\ B[S] = accepted
<1>1. A <= H /\ H <= S /\ S - A < SeqSize /\ A - S < SeqSize
  BY StreamSizes
<1>2. Num(A) = Num(S)
  BY DEF Confirmed, Stream, Ring
<1>3. A = S
  BY <1>1, <1>2, NumEqual
<1>. QED  BY <1>1, <1>3 DEF Stream

LEMMA InvConfirmed == IInv /\ run = "listening" /\ Confirmed => Len(delivered) = accepted
<1>. SUFFICES ASSUME IInv, run = "listening", Confirmed PROVE Len(delivered) = accepted
  OBVIOUS
<1>. PICK B : \E A, S, W, H \in Int : Stream(B, A, S, W, H)
  BY DEF IInv
<1>. PICK A \in Int, S \in Int, W \in Int, H \in Int : Stream(B, A, S, W, H)
  OBVIOUS
<1>1. H = S /\ B[S] = accepted
  BY ConfirmedAll
<1>. QED  BY <1>1, DeliveredUnits DEF Stream

LEMMA InvRoom ==
  IInv /\ run = "listening" /\ Confirmed => Slot(last_written) = <<>> /\ Available(last_written)
<1>. SUFFICES ASSUME IInv, run = "listening", Confirmed
              PROVE  Slot(last_written) = <<>> /\ Available(last_written)
  OBVIOUS
<1>. PICK B : \E A, S, W, H \in Int : Stream(B, A, S, W, H)
  BY DEF IInv
<1>. PICK A \in Int, S \in Int, W \in Int, H \in Int : Stream(B, A, S, W, H)
  OBVIOUS
<1>0. S < W /\ History \in Nat \ {0}
  BY StreamSizes
<1>1. A = S /\ B[S] = accepted /\ S < W /\ Cuts(B) /\ Ring(B, A, S, W)
      /\ last_written = Num(W) /\ History \in Nat \ {0}
  BY <1>0, ConfirmedAll DEF Stream, Ring
<1>2. \A d \in Int : B[d] \in Nat /\ B[d] <= accepted
  BY <1>1, CutsBounds
<1>3. W = S + 1
  <2>. SUFFICES ASSUME S + 1 < W PROVE FALSE
    BY <1>1
  <2>1. S + 1 \in (A + 1)..(W - 1)
    BY <1>1
  <2>2. B[(S + 1) - 1] < B[S + 1] /\ (S + 1) - 1 = S
    BY <1>1, <2>1 DEF Ring
  <2>3. B[S + 1] \in Nat /\ B[S + 1] <= accepted /\ B[S] \in Nat
    BY <1>2
  <2>. QED  BY <1>1, <2>2, <2>3
<1>4. W \in (A + 1)..(A + History) /\ W - 1 = S
  BY <1>1, <1>3
<1>5. B[W] = accepted
  BY <1>1 DEF Ring
<1>6. Body(B, W) = <<>>
  BY <1>1, <1>4, <1>5, BodySequence
<1>. QED  BY <1>1, <1>4, <1>6, RingSlots

\* Each step is a step of the queue, or none: a message is posted when it is
\* written, and consumed when the datagram that ends it is handled.
LEMMA QueueStep == IInv /\ [Next]_vars => [F!Next]_<<accepted, delivered>>
<1>. SUFFICES ASSUME IInv, [Next]_vars
              PROVE  F!Next \/ UNCHANGED <<accepted, delivered>>
  OBVIOUS
<1>. PICK B : \E A, S, W, H \in Int : Stream(B, A, S, W, H)
  BY DEF IInv
<1>. PICK A \in Int, S \in Int, W \in Int, H \in Int : Stream(B, A, S, W, H)
  OBVIOUS
<1>1. CASE WriteMessage
  <2>1. PICK len \in Lengths : Write(len)
    BY <1>1 DEF WriteMessage
  <2>2. len \in Nat /\ len > 0 /\ accepted' = accepted + len /\ delivered' = delivered
    BY <1>1, <2>1, StreamAssumption DEF WriteMessage, Write, input
  <2>3. accepted \in Nat
    BY DEF Stream, Cuts
  <2>4. accepted' > accepted /\ accepted' - accepted = len
    BY <2>2, <2>3
  <2>5. F!Post(accepted' - accepted)
    BY <2>2, <2>4 DEF F!Post
  <2>. QED  BY <2>4, <2>5 DEF F!Next
<1>2. ASSUME NEW s \in SeqNums, ReceiveData(s)
      PROVE  F!Next \/ UNCHANGED <<accepted, delivered>>
  <2>1. PICK K \in H..S : Stream(B, A, S, W, K)'
    BY <1>2, StepData
  <2>2. PICK n : n = B[K] - B[H]
    OBVIOUS
  <2>3. /\ delivered = Run(0, B[H]) /\ Len(delivered) = B[H] /\ B[H] \in Nat
        /\ accepted' = accepted /\ accepted \in Nat
    BY <1>2, DeliveredUnits DEF Stream, Reader, Cuts, ReceiveData, ring
  <2>4. Cuts(B) /\ B[H] <= B[K] /\ B[K] \in Nat /\ B[K] <= accepted /\ K \in Int
    <3>1. Cuts(B) /\ K \in Int /\ H <= K
      BY StreamSizes DEF Stream
    <3>2. B[H] <= B[K]
      BY <3>1 DEF Cuts
    <3>. QED  BY <3>1, <3>2, CutsBounds
  <2>5. delivered' = Run(0, B[K])
    BY <2>1 DEF Stream, Reader
  <2>6. Len(Run(0, B[K])) = B[K]
    <3>1. 0 \in Nat /\ 0 <= B[K] /\ B[K] - 0 = B[K]
      BY <2>4
    <3>2. Len(Run(0, B[K])) = B[K] - 0
      BY <2>4, <3>1, RunSequence
    <3>. QED  BY <3>1, <3>2
  <2>7. CASE B[K] = B[H]
    BY <2>3, <2>5, <2>7
  <2>8. CASE B[K] # B[H]
    <3>1. Len(delivered') > Len(delivered) /\ Len(delivered') - Len(delivered) = n
      BY <2>2, <2>3, <2>4, <2>5, <2>6, <2>8, SMTT(20)
    <3>2. n \in Nat /\ n > 0 /\ Len(delivered) + n <= accepted
      <4>. DEFINE x == B[H]
                  y == B[K]
      <4>1. x \in Nat /\ y \in Nat /\ x <= y /\ x # y /\ n = y - x /\ y <= accepted
            /\ accepted \in Nat /\ Len(delivered) = x
        BY <2>2, <2>3, <2>4, <2>8
      <4>. HIDE DEF x, y
      <4>. QED  BY <4>1
    <3>3. delivered' = delivered \o [i \in 1..n |-> Len(delivered) + i]
      <4>1. [i \in 1..n |-> Len(delivered) + i] = Run(B[H], B[K])
        BY <2>2, <2>3 DEF Run
      <4>2. Run(0, B[H]) \o Run(B[H], B[K]) = Run(0, B[K])
        <5>1. 0 \in Nat /\ 0 <= B[H]
          BY <2>3
        <5>. QED  BY <2>3, <2>4, <5>1, RunConcat
      <4>. QED  BY <2>3, <2>5, <4>1, <4>2
    <3>4. F!Consume(n)
      BY <2>3, <3>2, <3>3 DEF F!Consume
    <3>. QED  BY <3>1, <3>4 DEF F!Next
  <2>. QED  BY <2>7, <2>8
<1>3. CASE RunSession
  BY <1>3 DEF RunSession, Flash, input
<1>4. CASE Heartbeat \/ Return \/ Lose
  BY <1>4 DEF Heartbeat, Return, Lose, ring, input
<1>5. ASSUME NEW k \in 1..Len(acks), ReceiveAcknack(k)
      PROVE  UNCHANGED <<accepted, delivered>>
  BY <1>5 DEF ReceiveAcknack, ProcessAcknack, input
<1>6. CASE ReceiveHeartbeat
  BY <1>6 DEF ReceiveHeartbeat, ring
<1>7. CASE UNCHANGED vars
  BY <1>7 DEF vars, ring, input
<1>. QED  BY <1>1, <1>2, <1>3, <1>4, <1>5, <1>6, <1>7 DEF Next

-----------------------------------------------------------------------------
(* The theorems. The invariant is the only use of OrderedAcks. *)

THEOREM Inductive == OrderedAcks => (Spec => []IInv)
<1>. SUFFICES ASSUME OrderedAcks PROVE Spec => []IInv
  OBVIOUS
<1>1. Init => IInv
  BY StreamInit
<1>2. IInv /\ [Next]_vars => IInv'
  BY StreamStep
<1>. QED  BY <1>1, <1>2, PTL DEF Spec

\* Every variable stays in its type; in particular no slot of either ring holds
\* more than fits it.
THEOREM TypeCorrect == OrderedAcks => (Spec => []TypeOK)
BY Inductive, InvTypeOK, PTL

\* Whatever the reader waits for is still in the ring of the writer.
THEOREM RetainedCorrect == OrderedAcks => (Spec => []Retained)
BY Inductive, InvRetained, PTL

\* A session returns "confirmed" only when everything written was handed over.
THEOREM ConfirmedCorrect == OrderedAcks => (Spec => ConfirmedDelivered)
<1>1. IInv /\ [Next]_vars
        => [run = "listening" /\ run' = "idle" /\ Confirmed => Len(delivered) = accepted]_vars
  BY InvConfirmed
<1>. QED  BY <1>1, Inductive, PTL DEF Spec, ConfirmedDelivered

\* Such a session leaves the slot being written empty and free.
THEOREM RoomCorrect == OrderedAcks => (Spec => RoomAgain)
<1>1. IInv /\ [Next]_vars
        => [run = "listening" /\ run' = "idle" /\ Confirmed
              => Slot(last_written) = <<>> /\ Available(last_written)]_vars
  BY InvRoom
<1>. QED  BY <1>1, Inductive, PTL DEF Spec, RoomAgain

\* The stream is a queue: what is handed over is what was written, in its order
\* and once.
THEOREM Implements == OrderedAcks => (Spec => ImplementsFifo)
<1>1. Init => F!Init
  BY DEF Init, InitRing, F!Init
<1>2. IInv /\ [Next]_vars => [F!Next]_<<accepted, delivered>>
  BY QueueStep
<1>. QED  BY <1>1, <1>2, Inductive, PTL DEF Spec, ImplementsFifo, F!Spec
=============================================================================
