------------------------ MODULE OutputStream_proofs ------------------------
(***************************************************************************)
(* The ring of an output stream for every number of slots.                 *)
(*                                                                         *)
(* The proofs number the datagrams through, from 0 on, and forget that     *)
(* the code's numbers start over: Num(a) is the sequence number of the     *)
(* a-th datagram and Pos(a) its slot.  What the a-th datagram holds is     *)
(* given by a function B, where B[a] counts the units of the datagrams up  *)
(* to the a-th.  Ring says that the code's variables are the images of     *)
(* such numbers.                                                           *)
(***************************************************************************)
EXTENDS OutputStream, SequenceTheorems, TLAPS

-----------------------------------------------------------------------------
(* Remainders. *)

\* A number is a multiple of N and a remainder, in one way.
LEMMA Division ==
  ASSUME NEW N \in Nat \ {0}, NEW a \in Int
  PROVE  /\ a \div N \in Int /\ a % N \in 0..(N - 1)
         /\ a = (N * (a \div N)) + (a % N)
<1>1. a \div N \in Int
  OBVIOUS
<1>2. a % N \in 0..(N - 1)
  OBVIOUS
<1>3. a = (N * (a \div N)) + (a % N)
  OBVIOUS
<1>. QED  BY <1>1, <1>2, <1>3

LEMMA Remainder ==
  ASSUME NEW N \in Nat \ {0}, NEW q \in Int, NEW r \in 0..(N - 1)
  PROVE  ((N * q) + r) % N = r
OBVIOUS

\* Whole rounds do not count.
LEMMA Round ==
  ASSUME NEW N \in Nat \ {0}, NEW a \in Int, NEW q \in Int
  PROVE  (a + (N * q)) % N = a % N
<1>. DEFINE r == a % N
            p == a \div N
<1>1. p \in Int /\ r \in 0..(N - 1) /\ a = (N * p) + r
  BY Division
<1>2. N * (p + q) = (N * p) + (N * q) /\ p + q \in Int
  BY <1>1
<1>3. a + (N * q) = (N * (p + q)) + r
  BY <1>1, <1>2
<1>. HIDE DEF r, p
<1>4. ((N * (p + q)) + r) % N = r
  BY <1>1, <1>2, Remainder
<1>. QED  BY <1>3, <1>4 DEF r

\* Less than a round apart, remainders tell numbers apart.
LEMMA Apart ==
  ASSUME NEW N \in Nat \ {0}, NEW a \in Int, NEW b \in Int,
         a % N = b % N, a - b < N, b - a < N
  PROVE  a = b
<1>. DEFINE p == a \div N
            q == b \div N
<1>1. /\ p \in Int /\ a = (N * p) + (a % N)
      /\ q \in Int /\ b = (N * q) + (b % N)
      /\ a % N \in Int
  BY Division
<1>. HIDE DEF p, q
<1>2. a - b = N * (p - q) /\ p - q \in Int
  BY <1>1
<1>3. \A d \in Int : N * d < N /\ -N < N * d => d = 0
  OBVIOUS
<1>4. p - q = 0
  BY <1>2, <1>3
<1>. QED  BY <1>1, <1>4

\* The remainder of a sum is that of the sum of remainders.
LEMMA RemainderSum ==
  ASSUME NEW N \in Nat \ {0}, NEW a \in Int, NEW b \in Int
  PROVE  /\ ((a % N) + b) % N = (a + b) % N
         /\ ((a % N) - b) % N = (a - b) % N
         /\ (b - (a % N)) % N = (b - a) % N
<1>. DEFINE p == a \div N
            r == a % N
<1>1. p \in Int /\ r \in Int /\ a = (N * p) + r
  BY Division
<1>2. -p \in Int /\ N * (-p) = -(N * p)
  BY <1>1
<1>. HIDE DEF p, r
<1>3. /\ r + b = (a + b) + (N * (-p)) /\ a + b \in Int
      /\ r - b = (a - b) + (N * (-p)) /\ a - b \in Int
      /\ b - r = (b - a) + (N * p) /\ b - a \in Int
  BY <1>1, <1>2
<1>4. /\ ((a + b) + (N * (-p))) % N = (a + b) % N
      /\ ((a - b) + (N * (-p))) % N = (a - b) % N
      /\ ((b - a) + (N * p)) % N = (b - a) % N
  BY <1>1, <1>2, <1>3, Round
<1>. QED  BY <1>3, <1>4 DEF r

\* Remainders of remainders, where one divisor divides the other.
LEMMA RemainderOfRemainder ==
  ASSUME NEW N \in Nat \ {0}, NEW M \in Nat \ {0}, M % N = 0, NEW a \in Int
  PROVE  (a % M) % N = a % N
<1>. DEFINE p == a \div M
            r == a % M
            k == M \div N
<1>1. p \in Int /\ r \in Int /\ a = (M * p) + r
  BY Division
<1>2. k \in Int /\ M = N * k
  <2>1. k \in Int /\ M = (N * k) + (M % N)
    BY Division
  <2>. QED  BY <2>1
<1>. HIDE DEF p, r, k
<1>3. k * (-p) \in Int /\ N * (k * (-p)) = -(M * p)
  BY <1>1, <1>2
<1>4. r = a + (N * (k * (-p)))
  BY <1>1, <1>3
<1>. QED  BY <1>3, <1>4, Round DEF r

-----------------------------------------------------------------------------
(* Numbers and slots. *)

Num(a) == a % SeqSize
Pos(a) == a % History

LEMMA Sizes ==
  /\ History \in Nat \ {0} /\ Capacity \in Nat \ {0} /\ SeqSize \in Nat \ {0}
  /\ SeqSize \div 2 \in Nat /\ History < SeqSize \div 2
  /\ 2 * (SeqSize \div 2) <= SeqSize /\ SeqSize <= 2 * (SeqSize \div 2) + 1
  /\ SeqSize % History = 0
<1>1. SeqSize \div 2 \in Int /\ SeqSize % 2 \in 0..1
      /\ SeqSize = (2 * (SeqSize \div 2)) + (SeqSize % 2)
  BY RingAssumption, Division
<1>. QED  BY <1>1, RingAssumption

LEMMA NumType == \A a \in Int : Num(a) \in SeqNums /\ Pos(a) \in Slots
BY Sizes, Division DEF Num, Pos, SeqNums, Slots

\* Arithmetic on sequence numbers is arithmetic on numbers.
LEMMA NumArithmetic ==
  ASSUME NEW a \in Int, NEW b \in Int
  PROVE  /\ Add(Num(a), b) = Num(a + b)
         /\ Sub(Num(a), b) = Num(a - b)
         /\ Sub(Num(a), Num(b)) = Num(a - b)
<1>1. Num(b) \in Int
  BY NumType DEF SeqNums
<1>2. Add(Num(a), b) = Num(a + b) /\ Sub(Num(a), b) = Num(a - b)
  BY Sizes, RemainderSum DEF Num, Add, Sub
<1>3. ((a % SeqSize) - Num(b)) % SeqSize = (a - Num(b)) % SeqSize
  BY <1>1, Sizes, RemainderSum
<1>4. (a - (b % SeqSize)) % SeqSize = (a - b) % SeqSize
  BY Sizes, RemainderSum
<1>. QED  BY <1>2, <1>3, <1>4 DEF Num, Sub

\* Within one round, numbers are what they are.
LEMMA NumSmall ==
  ASSUME NEW a \in Int
  PROVE  /\ 0 <= a /\ a < SeqSize => Num(a) = a
         /\ -SeqSize <= a /\ a < 0 => Num(a) = a + SeqSize
<1>1. ASSUME 0 <= a, a < SeqSize PROVE Num(a) = a
  <2>1. a \in 0..(SeqSize - 1) /\ a = (SeqSize * 0) + a
    BY <1>1, Sizes
  <2>. QED  BY <2>1, Sizes, Remainder DEF Num
<1>2. ASSUME -SeqSize <= a, a < 0 PROVE Num(a) = a + SeqSize
  <2>1. a + SeqSize \in 0..(SeqSize - 1) /\ a = (SeqSize * (-1)) + (a + SeqSize)
    BY <1>2, Sizes
  <2>. QED  BY <2>1, Sizes, Remainder DEF Num
<1>. QED  BY <1>1, <1>2

LEMMA NumEqual ==
  ASSUME NEW a \in Int, NEW b \in Int, a - b < SeqSize, b - a < SeqSize
  PROVE  Num(a) = Num(b) <=> a = b
BY Sizes, Apart DEF Num

LEMMA PosEqual ==
  ASSUME NEW a \in Int, NEW b \in Int, a - b < History, b - a < History
  PROVE  Pos(a) = Pos(b) <=> a = b
BY Sizes, Apart DEF Pos

LEMMA PosRound ==
  ASSUME NEW a \in Int
  PROVE  Pos(a + History) = Pos(a) /\ Pos(a - History) = Pos(a)
<1>1. \A q \in Int : (a + (History * q)) % History = a % History
  BY Sizes, Round
<1>2. \A c, q \in Int : c = a + (History * q) => c % History = a % History
  BY <1>1
<1>3. /\ a + History \in Int /\ 1 \in Int /\ a + History = a + (History * 1)
      /\ a - History \in Int /\ -1 \in Int /\ a - History = a + (History * (-1))
  BY Sizes
<1>. QED  BY <1>2, <1>3, Zenon DEF Pos

\* The slot of a sequence number is that of the datagram.
LEMMA PosNum ==
  ASSUME NEW a \in Int
  PROVE  Num(a) % History = Pos(a)
BY Sizes, RemainderOfRemainder DEF Num, Pos

\* As many datagrams in a row as there are slots use every slot.
LEMMA PosCover ==
  ASSUME NEW a \in Int, NEW k \in Slots
  PROVE  \E d \in (a + 1)..(a + History) : k = Pos(d)
<1>. DEFINE r == (k - (a + 1)) % History
<1>1. k \in Int /\ k - (a + 1) \in Int /\ k \in 0..(History - 1)
  BY Sizes DEF Slots
<1>2. r \in 0..(History - 1)
  BY <1>1, Sizes, Division
<1>3. (r + (a + 1)) % History = ((k - (a + 1)) + (a + 1)) % History
  <2>1. \A x, b \in Int : ((x % History) + b) % History = (x + b) % History
    BY Sizes, RemainderSum
  <2>2. a + 1 \in Int
    OBVIOUS
  <2>. QED  BY <1>1, <2>1, <2>2, Zenon
<1>4. (k - (a + 1)) + (a + 1) = k /\ k = (History * 0) + k
  BY <1>1, Sizes
<1>5. k % History = k
  BY <1>1, <1>4, Sizes, Remainder
<1>. HIDE DEF r
<1>6. r + (a + 1) \in (a + 1)..(a + History)
  BY <1>2, Sizes
<1>. QED  BY <1>3, <1>4, <1>5, <1>6 DEF Pos

\* Less than half a round apart, the order of the numbers is the order of the
\* datagrams.
LEMMA BeforeNum ==
  ASSUME NEW a \in Int, NEW b \in Int
  PROVE  /\ a < b /\ b - a < SeqSize \div 2 => Before(Num(a), Num(b))
         /\ b <= a /\ a - b <= SeqSize \div 2 => ~Before(Num(a), Num(b))
<1>. DEFINE h == SeqSize \div 2
<1>0. h \in Nat /\ SeqSize \in Nat \ {0} /\ 2 * h <= SeqSize /\ SeqSize <= 2 * h + 1 /\ 0 < h
  BY Sizes
<1>1. Sub(Num(b), Num(a)) = Num(b - a)
  BY NumArithmetic
<1>. HIDE DEF h
<1>2. ASSUME a < b, b - a < h PROVE Before(Num(a), Num(b))
  <2>1. Num(b - a) = b - a
    BY <1>0, <1>2, NumSmall
  <2>2. Num(a) # Num(b)
    BY <1>0, <1>2, NumEqual
  <2>. QED  BY <1>1, <1>2, <2>1, <2>2 DEF Before, h
<1>3. ASSUME b <= a, a - b <= h PROVE ~Before(Num(a), Num(b))
  <2>1. CASE a = b
    BY <2>1 DEF Before
  <2>2. CASE a # b
    <3>1. Num(b - a) = b - a + SeqSize
      BY <1>0, <1>3, <2>2, NumSmall
    <3>2. ~(b - a + SeqSize < h)
      BY <1>0, <1>3
    <3>. QED  BY <1>1, <3>1, <3>2 DEF Before, h
  <2>. QED  BY <2>1, <2>2
<1>. QED  BY <1>2, <1>3 DEF h

LEMMA NotAfterNum ==
  ASSUME NEW a \in Int, NEW b \in Int
  PROVE  /\ a <= b /\ b - a < SeqSize \div 2 => NotAfter(Num(a), Num(b))
         /\ b < a /\ a - b <= SeqSize \div 2 => ~NotAfter(Num(a), Num(b))
<1>1. b < a /\ a - b <= SeqSize \div 2 => Num(a) # Num(b)
  BY Sizes, NumEqual
<1>. QED  BY <1>1, BeforeNum DEF NotAfter

-----------------------------------------------------------------------------
(* Runs of units. *)

\* The units after the m-th, up to the n-th.
Run(m, n) == [i \in 1..(n - m) |-> m + i]

LEMMA RunSequence ==
  ASSUME NEW m \in Nat, NEW n \in Nat, m <= n
  PROVE  /\ Run(m, n) \in Seq(Nat) /\ Len(Run(m, n)) = n - m
         /\ DOMAIN Run(m, n) = 1..(n - m)
         /\ \A i \in 1..(n - m) : Run(m, n)[i] = m + i
         /\ Run(m, n) = <<>> <=> m = n
         /\ \A t \in Nat : n <= t => Run(m, n) \in Seq(1..t)
<1>1. n - m \in Nat /\ DOMAIN Run(m, n) = 1..(n - m)
  BY DEF Run
<1>2. \A i \in 1..(n - m) : Run(m, n)[i] = m + i
  BY DEF Run
<1>3. ASSUME NEW S, \A i \in 1..(n - m) : m + i \in S
      PROVE  Run(m, n) \in Seq(S) /\ Len(Run(m, n)) = n - m
  <2>1. Run(m, n) \in [1..(n - m) -> S]
    BY <1>3 DEF Run
  <2>. QED  BY <1>1, <2>1
<1>4. Run(m, n) \in Seq(Nat) /\ Len(Run(m, n)) = n - m
  <2>1. \A i \in 1..(n - m) : m + i \in Nat
    OBVIOUS
  <2>. QED  BY <1>3, <2>1
<1>5. ASSUME NEW t \in Nat, n <= t PROVE Run(m, n) \in Seq(1..t)
  <2>1. \A i \in 1..(n - m) : m + i \in 1..t
    BY <1>5
  <2>. QED  BY <1>3, <2>1
<1>6. Run(m, n) = <<>> <=> m = n
  BY <1>4
<1>. QED  BY <1>1, <1>2, <1>4, <1>5, <1>6

LEMMA RunEmpty == \A n \in Nat : Run(n, n) = <<>>
BY RunSequence

LEMMA RunConcat ==
  ASSUME NEW m \in Nat, NEW n \in Nat, NEW t \in Nat, m <= n, n <= t
  PROVE  Run(m, n) \o Run(n, t) = Run(m, t)
<1>. DEFINE r1 == Run(m, n)
            r2 == Run(n, t)
            r == Run(m, t)
<1>1. /\ r1 \in Seq(Nat) /\ Len(r1) = n - m
      /\ \A i \in 1..(n - m) : r1[i] = m + i
  BY RunSequence
<1>2. /\ r2 \in Seq(Nat) /\ Len(r2) = t - n
      /\ \A i \in 1..(t - n) : r2[i] = n + i
  BY RunSequence
<1>3. /\ r \in Seq(Nat) /\ Len(r) = t - m
      /\ \A i \in 1..(t - m) : r[i] = m + i
  <2>1. m <= t
    OBVIOUS
  <2>. QED  BY <2>1, RunSequence
<1>. HIDE DEF r1, r2, r
<1>4. /\ r1 \o r2 \in Seq(Nat) /\ Len(r1 \o r2) = Len(r1) + Len(r2)
      /\ \A i \in 1..(Len(r1) + Len(r2)) :
           (r1 \o r2)[i] = IF i <= Len(r1) THEN r1[i] ELSE r2[i - Len(r1)]
  BY <1>1, <1>2, ConcatProperties
<1>5. ASSUME NEW i \in 1..(t - m) PROVE (r1 \o r2)[i] = r[i]
  <2>1. (r1 \o r2)[i] = IF i <= n - m THEN r1[i] ELSE r2[i - (n - m)]
    BY <1>1, <1>2, <1>4, SMTT(20)
  <2>2. CASE i <= n - m
    BY <1>1, <1>3, <2>1, <2>2
  <2>3. CASE ~(i <= n - m)
    <3>1. i - (n - m) \in 1..(t - n) /\ n + (i - (n - m)) = m + i
      BY <2>3
    <3>. QED  BY <1>2, <1>3, <2>1, <2>3, <3>1
  <2>. QED  BY <2>2, <2>3
<1>6. Len(r1 \o r2) = t - m
  BY <1>1, <1>2, <1>4
<1>7. r1 \o r2 = r
  BY <1>3, <1>4, <1>5, <1>6, SeqEqual
<1>. QED  BY <1>7 DEF r1, r2, r

-----------------------------------------------------------------------------
(* The ring. A is the last datagram acknowledged, S the last one sent and W  *)
(* the one being written.                                                   *)

\* Datagram d.
Body(B, d) == Run(B[d - 1], B[d])

Ring(B, A, S, W) ==
  /\ last_acknown = Num(A) /\ last_sent = Num(S) /\ last_written = Num(W)
  /\ A <= S /\ S < W /\ S <= A + History /\ W <= A + History + 1
  /\ slot \in [Slots -> Seq(Nat)]
  /\ \A d \in (A + 1)..(A + History) : slot[Pos(d)] = Body(B, d)
  /\ \A d \in (A + 1)..(W - 1) : B[d - 1] < B[d]
  /\ \A d \in Int : d >= W \/ d >= A + History => B[d] = accepted

Cuts(B) ==
  /\ accepted \in Nat
  /\ B \in [Int -> 0..accepted]
  /\ \A d, e \in Int : d <= e => B[d] <= B[e]
  /\ \A d \in Int : B[d] - B[d - 1] <= Capacity

LEMMA CutsBounds ==
  ASSUME NEW B, Cuts(B)
  PROVE  accepted \in Nat /\ \A d \in Int : B[d] \in Nat /\ B[d] <= accepted
<1>1. accepted \in Nat /\ \A d \in Int : B[d] \in 0..accepted
  BY DEF Cuts
<1>. QED  BY <1>1

LEMMA BodySequence ==
  ASSUME NEW B, Cuts(B), NEW d \in Int
  PROVE  /\ B[d - 1] \in Nat /\ B[d] \in Nat /\ B[d - 1] <= B[d] /\ B[d] <= accepted
         /\ Body(B, d) \in Seq(Nat) /\ Body(B, d) \in Seq(1..accepted)
         /\ Len(Body(B, d)) = B[d] - B[d - 1] /\ Len(Body(B, d)) <= Capacity
         /\ Body(B, d) = <<>> <=> B[d - 1] = B[d]
         /\ Body(B, d) # <<>> => Body(B, d)[1] = B[d - 1] + 1
<1>1. /\ B[d - 1] \in Nat /\ B[d] \in Nat /\ B[d - 1] <= B[d] /\ B[d] <= accepted
      /\ B[d] - B[d - 1] <= Capacity /\ accepted \in Nat
  BY DEF Cuts
<1>. DEFINE m == B[d - 1]
            n == B[d]
<1>2. /\ Run(m, n) \in Seq(Nat) /\ Len(Run(m, n)) = n - m
      /\ Run(m, n) = <<>> <=> m = n
      /\ Run(m, n) \in Seq(1..accepted)
      /\ \A i \in 1..(n - m) : Run(m, n)[i] = m + i
  BY <1>1, RunSequence
<1>3. m # n => 1 \in 1..(n - m)
  BY <1>1
<1>4. Body(B, d) = Run(m, n)
  BY DEF Body
<1>. HIDE DEF m, n
<1>5. Body(B, d) # <<>> => Body(B, d)[1] = m + 1
  BY <1>2, <1>3, <1>4
<1>. QED  BY <1>1, <1>2, <1>4, <1>5 DEF m, n

\* Nothing is written, sent or acknowledged.
LEMMA RingInit ==
  ASSUME InitRing
  PROVE  LET B == [d \in Int |-> 0] IN Cuts(B) /\ Ring(B, -1, -1, 0)
<1>. DEFINE B == [d \in Int |-> 0]
<1>1. Cuts(B)
  BY Sizes DEF InitRing, Cuts
<1>2. Num(-1) = SeqSize - 1 /\ Num(0) = 0
  BY Sizes, NumSmall
<1>3. ASSUME NEW d \in Int PROVE Body(B, d) = <<>>
  <2>1. B[d - 1] = 0 /\ B[d] = 0
    OBVIOUS
  <2>. HIDE DEF B
  <2>. QED  BY <1>1, <2>1, BodySequence
<1>4. \A d \in Int : slot[Pos(d)] = <<>>
  BY NumType DEF InitRing
<1>5. slot \in [Slots -> Seq(Nat)]
  BY DEF InitRing
<1>. QED  BY <1>1, <1>2, <1>3, <1>4, <1>5, Sizes DEF InitRing, Ring

\* What a number names: its slot, and whether there is room for it.
LEMMA RingSlots ==
  ASSUME NEW B, NEW A \in Int, NEW S \in Int, NEW W \in Int, Cuts(B), Ring(B, A, S, W)
  PROVE  /\ \A d \in (A + 1)..(A + History) : Slot(Num(d)) = Body(B, d)
         /\ Available(Num(W)) <=> W <= A + History
         /\ Available(Num(W + 1)) <=> W + 1 <= A + History
<1>1. \A d \in Int : Slot(Num(d)) = slot[Pos(d)]
  BY PosNum DEF Slot
<1>2. Add(last_acknown, History) = Num(A + History)
  BY Sizes, NumArithmetic DEF Ring
<1>3. ASSUME NEW d \in Int, A < d, d <= A + History + 2
      PROVE  NotAfter(Num(d), Num(A + History)) <=> d <= A + History
  BY <1>3, Sizes, NotAfterNum
<1>4. A < W /\ W <= A + History + 1
  BY DEF Ring
<1>. QED  BY <1>1, <1>2, <1>3, <1>4, Sizes, SMTT(20) DEF Ring, Available

\* Writing units up to the t-th into datagram V moves the ends of V and of all
\* later ones.
Grown(B, V, t) == [d \in Int |-> IF d >= V THEN t ELSE B[d]]

LEMMA CutsGrow ==
  ASSUME NEW B, NEW V \in Int, NEW t \in Nat, Cuts(B),
         accepted <= t, t - B[V - 1] <= Capacity, accepted' = t
  PROVE  Cuts(Grown(B, V, t))'
<1>. DEFINE C == Grown(B, V, t)
<1>1. \A d \in Int : C[d] = IF d >= V THEN t ELSE B[d]
  BY DEF Grown
<1>2. accepted \in Nat /\ \A d \in Int : B[d] \in Nat /\ B[d] <= accepted
  BY CutsBounds
<1>3. C \in [Int -> 0..t]
  BY <1>2 DEF Grown
<1>. HIDE DEF C
<1>4. ASSUME NEW d \in Int, NEW e \in Int, d <= e PROVE C[d] <= C[e]
  <2>1. B[d] <= B[e]
    BY <1>4 DEF Cuts
  <2>. QED  BY <1>1, <1>2, <1>4, <2>1
<1>5. ASSUME NEW d \in Int PROVE C[d] - C[d - 1] <= Capacity
  <2>1. B[d] - B[d - 1] <= Capacity /\ d - 1 \in Int
    BY DEF Cuts
  <2>2. CASE d < V
    <3>1. C[d] = B[d] /\ C[d - 1] = B[d - 1]
      BY <1>1, <2>1, <2>2
    <3>. QED  BY <2>1, <3>1
  <2>3. CASE d = V
    <3>1. C[d] = t /\ C[d - 1] = B[V - 1]
      BY <1>1, <2>1, <2>3
    <3>. QED  BY <3>1
  <2>4. CASE d > V
    <3>1. C[d] = t /\ C[d - 1] = t
      BY <1>1, <2>1, <2>4
    <3>. QED  BY <3>1, Sizes
  <2>. QED  BY <2>2, <2>3, <2>4
<1>. QED  BY <1>3, <1>4, <1>5 DEF Cuts, C

\* A message goes to the datagram being written or to the next one, and changes
\* none that was complete.
LEMMA RingWrite ==
  ASSUME NEW B, NEW A \in Int, NEW S \in Int, NEW W \in Int, Cuts(B), Ring(B, A, S, W),
         NEW len \in 1..Capacity, Write(len)
  PROVE  \E C : \E V \in Int :
           /\ Cuts(C)' /\ Ring(C, A, S, V)'
           /\ \A d \in Int : d < W => C[d] = B[d]
<1>0. PICK t : t = accepted + len
  OBVIOUS
<1>1. /\ accepted \in Nat /\ len \in Nat /\ t \in Nat /\ accepted < t /\ accepted' = t
      /\ t - accepted = len /\ last_sent' = last_sent /\ last_acknown' = last_acknown
  BY <1>0, Sizes DEF Write, Cuts
<1>2. /\ \A d \in Int : B[d] \in Nat /\ B[d] <= accepted
      /\ \A d \in Int : d >= W \/ d >= A + History => B[d] = accepted
      /\ A <= S /\ S < W /\ S <= A + History
      /\ History \in Nat /\ SeqSize \in Nat /\ Capacity \in Nat
  BY Sizes, CutsBounds DEF Ring
<1>3. Units(len) = Run(accepted, t)
  BY <1>1 DEF Units, Run
<1>4. ASSUME NEW V \in Int, V = W \/ V = W + 1, V <= A + History, B[V] = accepted,
             last_written' = Num(V), t - B[V - 1] <= Capacity,
             slot' = [slot EXCEPT ![Pos(V)] = Run(B[V - 1], t)],
             \A d \in (A + 1)..(V - 1) : B[d - 1] < B[d]
      PROVE  /\ Cuts(Grown(B, V, t))' /\ Ring(Grown(B, V, t), A, S, V)'
             /\ \A d \in Int : d < W => Grown(B, V, t)[d] = B[d]
  <2>. DEFINE C == Grown(B, V, t)
  <2>1. Cuts(C)'
    BY <1>1, <1>4, CutsGrow
  <2>2. \A d \in Int : C[d] = IF d >= V THEN t ELSE B[d]
    BY DEF Grown
  <2>. HIDE DEF C
  <2>3. V - 1 \in Int /\ B[V - 1] \in Nat /\ B[V - 1] <= t
    BY <1>1, <1>2
  <2>4. Run(B[V - 1], t) \in Seq(Nat)
    BY <1>1, <2>3, RunSequence
  <2>5. slot \in [Slots -> Seq(Nat)] /\ Pos(V) \in Slots
    BY NumType DEF Ring
  <2>6. slot' \in [Slots -> Seq(Nat)]
    BY <1>4, <2>4, <2>5
  <2>7. ASSUME NEW d \in (A + 1)..(A + History)
        PROVE  slot'[Pos(d)] = Body(C, d)
    <3>0. d \in Int /\ d - 1 \in Int /\ Pos(d) \in Slots
      BY NumType
    <3>1. slot[Pos(d)] = Body(B, d)
      BY DEF Ring
    <3>2. CASE d = V
      <4>1. slot'[Pos(V)] = Run(B[V - 1], t)
        BY <1>4, <2>5
      <4>2. C[V] = t /\ C[V - 1] = B[V - 1]
        BY <2>2, <2>3
      <4>. QED  BY <3>2, <4>1, <4>2 DEF Body
    <3>3. ASSUME d # V PROVE slot'[Pos(d)] = slot[Pos(d)]
      <4>1. Pos(d) # Pos(V)
        BY <1>2, <1>4, <3>3, PosEqual
      <4>. QED  BY <1>4, <2>5, <3>0, <4>1
    <3>4. CASE d < V
      <4>1. C[d] = B[d] /\ C[d - 1] = B[d - 1]
        BY <2>2, <3>0, <3>4
      <4>. QED  BY <3>1, <3>3, <3>4, <4>1 DEF Body
    <3>5. CASE V < d
      <4>1. C[d] = t /\ C[d - 1] = t
        BY <2>2, <3>0, <3>5
      <4>2. B[d] = accepted /\ B[d - 1] = accepted
        BY <1>2, <1>4, <3>0, <3>5
      <4>3. Run(t, t) = <<>> /\ Run(accepted, accepted) = <<>>
        BY <1>1, RunEmpty
      <4>. QED  BY <3>1, <3>3, <3>5, <4>1, <4>2, <4>3 DEF Body
    <3>. QED  BY <3>0, <3>2, <3>4, <3>5
  <2>8. \A d \in (A + 1)..(V - 1) : C[d - 1] < C[d]
    BY <1>4, <2>2
  <2>9. \A d \in Int : d >= V \/ d >= A + History => C[d] = t
    BY <1>2, <1>4, <2>2
  <2>10. last_acknown' = Num(A) /\ last_sent' = Num(S)
    BY <1>1 DEF Ring
  <2>11. Ring(C, A, S, V)'
    BY <1>1, <1>2, <1>4, <2>6, <2>7, <2>8, <2>9, <2>10 DEF Ring
  <2>. QED  BY <1>4, <2>1, <2>2, <2>11 DEF C
<1>5. CASE WriteHere(len)
  <2>1. W <= A + History
    BY <1>5, RingSlots DEF WriteHere, Ring
  <2>2. W \in (A + 1)..(A + History)
    BY <1>2, <2>1
  <2>3. Slot(last_written) = Body(B, W) /\ last_written % History = Pos(W)
    BY <2>2, RingSlots, PosNum DEF Ring
  <2>4. B[W] = accepted /\ W - 1 \in Int /\ B[W - 1] \in Nat /\ B[W - 1] <= accepted
    BY <1>2
  <2>5. Len(Body(B, W)) = accepted - B[W - 1]
    BY <2>4, BodySequence
  <2>6. t - B[W - 1] <= Capacity
    BY <1>1, <1>2, <1>5, <2>3, <2>4, <2>5 DEF WriteHere
  <2>7. slot[Pos(W)] = Run(B[W - 1], accepted)
    BY <2>2, <2>4 DEF Ring, Body
  <2>8. slot[Pos(W)] \o Units(len) = Run(B[W - 1], t)
    <3>1. Run(B[W - 1], accepted) \o Run(accepted, t) = Run(B[W - 1], t)
      <4>1. accepted <= t
        BY <1>1
      <4>. QED  BY <1>1, <2>4, <4>1, RunConcat, Zenon
    <3>. QED  BY <1>3, <2>7, <3>1
  <2>9. slot' = [slot EXCEPT ![Pos(W)] = Run(B[W - 1], t)]
    BY <1>5, <2>3, <2>8 DEF WriteHere
  <2>10. last_written' = Num(W)
    BY <1>5 DEF WriteHere, Ring
  <2>11. \A d \in (A + 1)..(W - 1) : B[d - 1] < B[d]
    BY DEF Ring
  <2>. QED  BY <1>4, <2>1, <2>4, <2>6, <2>9, <2>10, <2>11
<1>6. CASE WriteNext(len)
  <2>1. Add(last_written, 1) = Num(W + 1)
    BY NumArithmetic DEF Ring
  <2>2. W + 1 <= A + History
    BY <1>6, <2>1, RingSlots DEF WriteNext
  <2>3. W \in (A + 1)..(A + History) /\ W + 1 \in Int
    BY <1>2, <2>2
  <2>4. Slot(last_written) = Body(B, W) /\ Num(W + 1) % History = Pos(W + 1)
    BY <2>3, RingSlots, PosNum DEF Ring
  <2>5. /\ B[W] = accepted /\ B[W + 1] = accepted
        /\ W - 1 \in Int /\ B[W - 1] \in Nat /\ B[W - 1] <= accepted
    BY <1>2, <2>3
  <2>6. Len(Body(B, W)) = accepted - B[W - 1]
    BY <2>5, BodySequence
  <2>7. B[W - 1] < B[W]
    BY <1>1, <1>2, <1>6, <2>4, <2>5, <2>6 DEF WriteNext
  <2>8. B[(W + 1) - 1] = accepted
    BY <2>5
  <2>9. t - B[(W + 1) - 1] <= Capacity
    BY <1>1, <1>2, <2>8
  <2>10. slot' = [slot EXCEPT ![Pos(W + 1)] = Run(B[(W + 1) - 1], t)]
    BY <1>3, <1>6, <2>1, <2>4, <2>8 DEF WriteNext
  <2>11. last_written' = Num(W + 1)
    BY <1>6, <2>1 DEF WriteNext
  <2>12. \A d \in (A + 1)..((W + 1) - 1) : B[d - 1] < B[d]
    <3>1. \A d \in (A + 1)..(W - 1) : B[d - 1] < B[d]
      BY DEF Ring
    <3>. QED  BY <1>2, <2>7, <3>1
  <2>. QED  BY <1>4, <2>2, <2>3, <2>5, <2>9, <2>10, <2>11, <2>12
<1>. QED  BY <1>5, <1>6 DEF Write

\* A datagram as it travels.
Packet(B, d) == [seq |-> Num(d), body |-> Body(B, d)]

\* The datagrams that can go are those that were begun: Z is the last of them.
LEMMA RingToSend ==
  ASSUME NEW B, NEW A \in Int, NEW S \in Int, NEW W \in Int, Cuts(B), Ring(B, A, S, W),
         NEW Z \in Int,
         Z = IF W <= A + History /\ B[W - 1] < B[W] THEN W ELSE W - 1
  PROVE  ToSend = Z - S /\ S <= Z /\ Z <= A + History /\ B[Z] = accepted
<1>1. /\ A <= S /\ S < W /\ S <= A + History /\ W <= A + History + 1
      /\ last_acknown = Num(A) /\ last_sent = Num(S) /\ last_written = Num(W)
  BY DEF Ring
<1>2. /\ History \in Nat \ {0} /\ SeqSize \in Nat /\ SeqSize \div 2 \in Nat
      /\ History < SeqSize \div 2 /\ 2 * (SeqSize \div 2) <= SeqSize
  BY Sizes
<1>3. S <= Z /\ Z <= W /\ Z <= A + History /\ Z - S \in 0..History
  BY <1>1, <1>2
<1>4. B[Z] = accepted
  <2>1. B[W] = accepted /\ (W - 1 >= A + History => B[W - 1] = accepted)
    BY <1>1 DEF Ring
  <2>2. B[W - 1] \in Nat /\ B[W] \in Nat /\ B[W - 1] <= accepted
    BY CutsBounds
  <2>. QED  BY <1>1, <1>2, <2>1, <2>2
<1>. DEFINE Can(i) == LET s == Add(last_sent, i) IN
                        /\ NotAfter(s, last_written)
                        /\ Slot(s) # <<>>
                        /\ Sub(Add(last_sent, i - 1), last_acknown) # History
<1>5. ASSUME NEW i \in Int, 1 <= i, S + i <= W
      PROVE  /\ Add(last_sent, i) = Num(S + i)
             /\ Sub(Add(last_sent, i - 1), last_acknown) = S + i - 1 - A
             /\ NotAfter(Num(S + i), Num(W))
  <2>1. Add(last_sent, i) = Num(S + i) /\ Add(last_sent, i - 1) = Num(S + i - 1)
    <3>1. i - 1 \in Int /\ S + (i - 1) = S + i - 1
      OBVIOUS
    <3>2. Add(Num(S), i) = Num(S + i) /\ Add(Num(S), i - 1) = Num(S + (i - 1))
      BY <3>1, NumArithmetic
    <3>. QED  BY <1>1, <3>1, <3>2
  <2>2. Sub(Num(S + i - 1), Num(A)) = Num(S + i - 1 - A)
    BY NumArithmetic
  <2>3. Num(S + i - 1 - A) = S + i - 1 - A
    BY <1>1, <1>2, <1>5, NumSmall
  <2>4. NotAfter(Num(S + i), Num(W))
    BY <1>1, <1>2, <1>5, NotAfterNum
  <2>. QED  BY <1>1, <2>1, <2>2, <2>3, <2>4
<1>6. ASSUME NEW i \in 1..(Z - S) PROVE Can(i)
  <2>1. i \in Int /\ 1 <= i /\ S + i <= Z /\ S + i <= W /\ S + i \in (A + 1)..(A + History)
    BY <1>1, <1>2, <1>3
  <2>2. Slot(Num(S + i)) = Body(B, S + i)
    BY <2>1, RingSlots
  <2>3. B[(S + i) - 1] < B[S + i]
    <3>1. CASE S + i < W
      BY <1>1, <2>1, <3>1 DEF Ring
    <3>2. CASE S + i = W
      BY <1>1, <2>1, <3>2
    <3>. QED  BY <2>1, <3>1, <3>2
  <2>4. Body(B, S + i) # <<>>
    BY <2>1, <2>3, BodySequence
  <2>5. S + i - 1 - A # History
    BY <1>2, <2>1
  <2>. QED  BY <1>1, <1>5, <2>1, <2>2, <2>4, <2>5
<1>7. ~Can(Z - S + 1)
  <2>1. Z - S + 1 \in Int /\ 1 <= Z - S + 1 /\ S + (Z - S + 1) = Z + 1
    BY <1>3
  <2>2. CASE Z = W
    <3>1. Add(last_sent, Z - S + 1) = Num(W + 1)
      BY <1>1, <2>1, <2>2, NumArithmetic
    <3>2. ~NotAfter(Num(W + 1), Num(W))
      BY <1>2, NotAfterNum
    <3>. QED  BY <1>1, <3>1, <3>2
  <2>3. CASE Z # W
    <3>1. Z + 1 = W
      BY <2>3
    <3>2. /\ Add(last_sent, Z - S + 1) = Num(W)
          /\ Sub(Add(last_sent, (Z - S + 1) - 1), last_acknown) = W - 1 - A
      BY <1>5, <2>1, <3>1
    <3>3. CASE W = A + History + 1
      BY <1>2, <3>2, <3>3
    <3>4. CASE W # A + History + 1
      <4>1. W \in (A + 1)..(A + History) /\ ~(B[W - 1] < B[W])
        BY <1>1, <1>2, <2>3, <3>4
      <4>2. Slot(Num(W)) = Body(B, W) /\ B[W - 1] <= B[W]
            /\ B[W - 1] \in Nat /\ B[W] \in Nat
        BY <4>1, RingSlots, BodySequence
      <4>3. B[W - 1] = B[W]
        BY <4>1, <4>2
      <4>4. Body(B, W) = <<>>
        BY <4>3, BodySequence
      <4>. QED  BY <3>2, <4>2, <4>4
    <3>. QED  BY <3>3, <3>4
  <2>. QED  BY <2>2, <2>3
<1>8. \A n \in Int : Sendable(n) <=> \A i \in 1..n : Can(i)
  BY DEF Sendable
<1>. HIDE DEF Can
<1>9. Sendable(Z - S) /\ ~Sendable(Z - S + 1)
  <2>1. Z - S \in Int /\ Z - S + 1 \in Int /\ Z - S + 1 \in 1..(Z - S + 1)
    BY <1>3
  <2>. QED  BY <1>6, <1>7, <1>8, <2>1
<1>10. ASSUME NEW n \in 0..History, Sendable(n), ~Sendable(n + 1)
       PROVE  n = Z - S
  <2>1. n \in Int /\ n + 1 \in Int /\ Z - S \in Int
    BY <1>2
  <2>2. CASE n < Z - S
    <3>1. \A i \in 1..(n + 1) : i \in 1..(Z - S)
      BY <2>1, <2>2
    <3>. QED  BY <1>6, <1>8, <1>10, <2>1, <3>1
  <2>3. CASE Z - S < n
    <3>1. Z - S + 1 \in 1..n
      BY <1>3, <2>1, <2>3
    <3>. QED  BY <1>7, <1>8, <1>10, <2>1, <3>1
  <2>. QED  BY <2>1, <2>2, <2>3
<1>11. ToSend = Z - S
  BY <1>3, <1>9, <1>10 DEF ToSend
<1>. QED  BY <1>3, <1>4, <1>11

\* Sending leaves nothing unsent.
LEMMA RingFlash ==
  ASSUME NEW B, NEW A \in Int, NEW S \in Int, NEW W \in Int, Cuts(B), Ring(B, A, S, W), Flash
  PROVE  \E Z, V \in Int :
           /\ S <= Z /\ Z <= A + History /\ B[Z] = accepted'
           /\ Cuts(B)' /\ Ring(B, A, Z, V)'
           /\ Sent = {Packet(B, d) : d \in (S + 1)..Z}
<1>. DEFINE Z == IF W <= A + History /\ B[W - 1] < B[W] THEN W ELSE W - 1
<1>1. PICK z \in Int : z = Z
  OBVIOUS
<1>2. /\ A <= S /\ S < W /\ S <= A + History /\ W <= A + History + 1
      /\ last_acknown = Num(A) /\ last_sent = Num(S) /\ last_written = Num(W)
      /\ History \in Nat \ {0} /\ SeqSize \in Nat /\ SeqSize > 1
  BY Sizes DEF Ring
<1>3. ToSend = z - S /\ S <= z /\ z <= A + History /\ B[z] = accepted
  BY <1>1, RingToSend
<1>4. z = W \/ z = W - 1
  BY <1>1
<1>5. z = W => B[W - 1] < B[W] /\ W <= A + History
  BY <1>1
<1>. HIDE DEF Z
<1>6. UNCHANGED <<slot, last_acknown, accepted>> /\ last_sent' = Num(z)
  BY <1>2, <1>3, NumArithmetic DEF Flash
<1>7. Cuts(B)'
  BY <1>6 DEF Cuts
<1>8. PICK V \in Int : V = IF z = W THEN W + 1 ELSE W
  OBVIOUS
<1>9. last_written' = Num(V)
  <2>1. Num(z) = Num(W) <=> z = W
    BY <1>2, <1>4, NumEqual
  <2>2. ToSend > 0 /\ Num(z) = Num(W) <=> z = W
    BY <1>2, <1>3, <2>1
  <2>3. Add(last_written, 1) = Num(W + 1)
    BY <1>2, NumArithmetic
  <2>4. last_written' = IF z = W THEN Num(W + 1) ELSE Num(W)
    BY <1>2, <1>6, <2>2, <2>3 DEF Flash
  <2>. QED  BY <1>8, <2>4
<1>10. Ring(B, A, z, V)'
  <2>1. /\ last_acknown' = Num(A) /\ slot' \in [Slots -> Seq(Nat)]
        /\ \A d \in (A + 1)..(A + History) : slot'[Pos(d)] = Body(B, d)
    BY <1>6 DEF Ring
  <2>2. /\ A <= z /\ z < V /\ z <= A + History /\ V <= A + History + 1
    BY <1>2, <1>3, <1>4, <1>5, <1>8
  <2>3. \A d \in (A + 1)..(V - 1) : B[d - 1] < B[d]
    <3>1. \A d \in (A + 1)..(W - 1) : B[d - 1] < B[d]
      BY DEF Ring
    <3>. QED  BY <1>2, <1>5, <1>8, <3>1
  <2>4. \A d \in Int : d >= V \/ d >= A + History => B[d] = accepted'
    BY <1>2, <1>6, <1>8 DEF Ring
  <2>. QED  BY <1>6, <1>9, <2>1, <2>2, <2>3, <2>4 DEF Ring
<1>11. Sent = {Packet(B, d) : d \in (S + 1)..z}
  <2>1. \A i \in 1..(z - S) : Datagram(Add(last_sent, i)) = Packet(B, S + i)
    <3>. SUFFICES ASSUME NEW i \in 1..(z - S)
                  PROVE  Datagram(Add(last_sent, i)) = Packet(B, S + i)
      OBVIOUS
    <3>1. S + i \in (A + 1)..(A + History) /\ i \in Int
      BY <1>2, <1>3
    <3>2. Add(last_sent, i) = Num(S + i)
      BY <1>2, <3>1, NumArithmetic
    <3>. QED  BY <3>1, <3>2, RingSlots DEF Datagram, Packet
  <2>2. Sent = {Packet(B, S + i) : i \in 1..(z - S)}
    BY <1>3, <2>1 DEF Sent
  <2>3. \A d \in (S + 1)..z : d - S \in 1..(z - S) /\ S + (d - S) = d
    OBVIOUS
  <2>4. \A i \in 1..(z - S) : S + i \in (S + 1)..z
    OBVIOUS
  <2>. QED  BY <2>2, <2>3, <2>4
<1>. QED  BY <1>3, <1>6, <1>7, <1>10, <1>11

\* An acknowledgement of the datagrams up to F frees their slots, and those only.
LEMMA RingAcknack ==
  ASSUME NEW B, NEW A \in Int, NEW S \in Int, NEW W \in Int, Cuts(B), Ring(B, A, S, W),
         NEW F \in Int, A <= F, F <= S, ProcessAcknack(Num(F + 1))
  PROVE  Cuts(B)' /\ Ring(B, F, S, W)'
<1>1. /\ A <= S /\ S < W /\ S <= A + History /\ W <= A + History + 1
      /\ last_acknown = Num(A) /\ last_sent = Num(S) /\ last_written = Num(W)
      /\ History \in Nat \ {0} /\ SeqSize \in Nat /\ SeqSize > History
  BY Sizes DEF Ring
<1>2. Sub(Num(F + 1), 1) = Num(F)
  <2>1. (F + 1) - 1 = F
    OBVIOUS
  <2>. QED  BY <2>1, NumArithmetic
<1>3. Sub(Num(F), last_acknown) = F - A
  <2>1. Num(F - A) = F - A
    BY <1>1, NumSmall
  <2>. QED  BY <1>1, <2>1, NumArithmetic
<1>4. /\ last_acknown' = Num(F) /\ UNCHANGED <<last_written, last_sent, accepted>>
      /\ slot' = [k \in Slots |->
                    IF \E i \in 1..(F - A) : k = Add(last_acknown, i) % History
                    THEN <<>> ELSE slot[k]]
  BY <1>2, <1>3 DEF ProcessAcknack
<1>5. \A i \in 1..(F - A) : Add(last_acknown, i) % History = Pos(A + i)
  BY <1>1, NumArithmetic, PosNum
<1>6. ASSUME NEW k \in Slots
      PROVE  slot'[k] = IF \E d \in (A + 1)..F : k = Pos(d) THEN <<>> ELSE slot[k]
  <2>1. ASSUME NEW d \in (A + 1)..F, k = Pos(d)
        PROVE  \E i \in 1..(F - A) : k = Pos(A + i)
    <3>1. d - A \in 1..(F - A) /\ A + (d - A) = d
      OBVIOUS
    <3>. QED  BY <2>1, <3>1
  <2>2. ASSUME NEW i \in 1..(F - A), k = Pos(A + i)
        PROVE  \E d \in (A + 1)..F : k = Pos(d)
    <3>1. A + i \in (A + 1)..F
      OBVIOUS
    <3>. QED  BY <2>2, <3>1
  <2>3. slot'[k] = IF \E i \in 1..(F - A) : k = Pos(A + i) THEN <<>> ELSE slot[k]
    BY <1>4, <1>5
  <2>. QED  BY <2>1, <2>2, <2>3
<1>7. slot' \in [Slots -> Seq(Nat)]
  BY <1>4 DEF Ring
<1>8. \A d \in Int : d >= W \/ d >= A + History => B[d] = accepted
  BY DEF Ring
<1>9. ASSUME NEW d \in (F + 1)..(F + History) PROVE slot'[Pos(d)] = Body(B, d)
  <2>0. Pos(d) \in Slots /\ d \in Int
    BY NumType
  <2>1. CASE d <= A + History
    <3>1. d \in (A + 1)..(A + History)
      BY <2>1
    <3>2. \A e \in (A + 1)..F : Pos(d) # Pos(e)
      BY <1>1, <3>1, PosEqual
    <3>3. slot[Pos(d)] = Body(B, d)
      BY <3>1 DEF Ring
    <3>. QED  BY <1>6, <2>0, <3>2, <3>3
  <2>2. CASE d > A + History
    <3>1. d - History \in (A + 1)..F /\ Pos(d) = Pos(d - History)
      BY <1>1, <2>2, PosRound
    <3>2. slot'[Pos(d)] = <<>>
      BY <1>6, <2>0, <3>1
    <3>3. B[d] = accepted /\ B[d - 1] = accepted
      BY <1>1, <1>8, <2>0, <2>2
    <3>4. Body(B, d) = <<>>
      BY <2>0, <3>3, BodySequence
    <3>. QED  BY <3>2, <3>4
  <2>. QED  BY <1>1, <2>1, <2>2
<1>10. Cuts(B)'
  BY <1>4 DEF Cuts
<1>11. Ring(B, F, S, W)'
  <2>1. \A d \in (F + 1)..(W - 1) : B[d - 1] < B[d]
    BY DEF Ring
  <2>2. F <= S /\ S < W /\ S <= F + History /\ W <= F + History + 1
    BY <1>1
  <2>3. \A d \in Int : d >= W \/ d >= F + History => B[d] = accepted'
    BY <1>1, <1>4, <1>8
  <2>. QED  BY <1>1, <1>4, <1>7, <1>9, <2>1, <2>2, <2>3 DEF Ring
<1>. QED  BY <1>10, <1>11

\* What is sent again is among the datagrams not yet acknowledged.
LEMMA RingResent ==
  ASSUME NEW B, NEW A \in Int, NEW S \in Int, NEW W \in Int, Ring(B, A, S, W)',
         last_sent' = last_sent
  PROVE  Resent \subseteq {Packet(B, d) : d \in (A + 1)..S}
<1>1. /\ last_acknown' = Num(A) /\ last_sent = Num(S) /\ A <= S /\ S <= A + History
      /\ History \in Nat /\ SeqSize \in Nat /\ History < SeqSize
      /\ \A d \in (A + 1)..(A + History) : slot'[Pos(d)] = Body(B, d)
  BY Sizes DEF Ring
<1>2. Sub(last_sent, last_acknown') = S - A
  <2>1. Num(S - A) = S - A
    BY <1>1, NumSmall
  <2>. QED  BY <1>1, <2>1, NumArithmetic
<1>3. ASSUME NEW i \in 1..(S - A)
      PROVE  /\ A + i \in (A + 1)..S
             /\ Add(last_acknown', i) = Num(A + i)
             /\ slot'[Num(A + i) % History] = Body(B, A + i)
  <2>1. A + i \in (A + 1)..S /\ A + i \in (A + 1)..(A + History) /\ A + i \in Int
    BY <1>1
  <2>2. Add(Num(A), i) = Num(A + i)
    BY NumArithmetic
  <2>3. Num(A + i) % History = Pos(A + i)
    BY <2>1, PosNum
  <2>. QED  BY <1>1, <2>1, <2>2, <2>3
<1>4. ASSUME NEW m \in Resent PROVE \E d \in (A + 1)..S : m = Packet(B, d)
  <2>1. PICK i \in 1..(S - A) :
          m = [seq |-> Add(last_acknown', i), body |-> slot'[Add(last_acknown', i) % History]]
    BY <1>2 DEF Resent
  <2>2. m = [seq |-> Num(A + i), body |-> Body(B, A + i)]
    BY <1>3, <2>1
  <2>. QED  BY <1>3, <2>2 DEF Packet
<1>. QED  BY <1>4
=============================================================================
