-------------------------- MODULE DnsMessageProofs --------------------------
(***************************************************************************)
(* That parse_query reads every question and nothing else, for labels,     *)
(* bodies and ids of any length and number, and that the names it looks up *)
(* for plain labels are the labels' own and differ when the labels do.     *)
(*                                                                         *)
(* ReadName, EncodeName, Joined and FromUtf8Lossy are recursive functions: *)
(* for each the equation that defines it is shown to have a solution.  All *)
(* recur to a greater index, up to a last one, so induction is on sets of  *)
(* indices, downward.                                                      *)
(***************************************************************************)
EXTENDS DnsMessage, SequenceTheorems, WellFoundedInduction, TLAPS

\* Induction downward from n + 1: what holds of every index whose greater
\* ones it holds of, holds of all.
LEMMA Downward ==
    ASSUME NEW n \in Nat, NEW S,
           \A k \in 1..(n + 1) :
             (\A j \in (k + 1)..(n + 1) : j \in S) => k \in S
    PROVE  \A k \in 1..(n + 1) : k \in S
  <1> SUFFICES ASSUME ~ \A k \in 1..(n + 1) : k \in S PROVE FALSE
    OBVIOUS
  <1> DEFINE T == {i \in 0..n : n + 1 - i \notin S}
  <1>1. T \subseteq Nat /\ T # {}
    <2>1. PICK k \in 1..(n + 1) : k \notin S
      OBVIOUS
    <2>2. n + 1 - k \in 0..n /\ n + 1 - (n + 1 - k) = k
      OBVIOUS
    <2>3. n + 1 - k \in T
      BY <2>1, <2>2
    <2>4. T \subseteq 0..n
      OBVIOUS
    <2> HIDE DEF T
    <2>5. T \subseteq Nat
      BY <2>4
    <2> QED
      BY <2>3, <2>5
  <1>2. PICK i \in T : \A y \in T : <<y, i>> \notin OpToRel(<, Nat)
    BY <1>1, WFMin, NatLessThanWellFounded
  <1>3. ASSUME NEW j \in (n + 1 - i + 1)..(n + 1), j \notin S PROVE FALSE
    <2>1. n + 1 - j \in 0..n /\ n + 1 - (n + 1 - j) = j /\ n + 1 - j < i
      BY <1>3
    <2>2. n + 1 - j \in T
      BY <1>3, <2>1
    <2>3. <<n + 1 - j, i>> \in OpToRel(<, Nat)
      BY <1>1, <2>1, <2>2 DEF OpToRel
    <2> QED
      BY <1>2, <2>2, <2>3
  <1>4. n + 1 - i \in 1..(n + 1) /\ n + 1 - i \notin S
    OBVIOUS
  <1> QED
    BY <1>3, <1>4

-----------------------------------------------------------------------------
(* The recursive functions                                                 *)

\* A byte is a number.
LEMMA ByteIsNat == Byte \subseteq Nat
  BY DEF Byte

\* A solution of each equation.
Read(b) == CHOOSE f : f = [pos \in 1..(Len(b) + 1) |-> NameAt(f, b, pos)]

Encoded(labels) ==
    CHOOSE f : f = [i \in 1..(Len(labels) + 1) |-> EncodeFrom(f, labels, i)]

JoinedUp(labels) ==
    CHOOSE f : f = [i \in 1..(Len(labels) + 1) |-> JoinFrom(f, labels, i)]

Lossy(b) == CHOOSE f : f = [pos \in 1..(Len(b) + 1) |-> LossyAt(f, b, pos)]

\* ReadName's equation has a solution: a name's reading from a position depends
\* only on those from later ones.
LEMMA ReadIsFunction ==
    ASSUME NEW b \in Seq(Byte)
    PROVE  Read(b) = [pos \in 1..(Len(b) + 1) |-> NameAt(Read(b), b, pos)]
  <1> DEFINE n == Len(b)
             IsRead(f, m) == f = [pos \in m..(n + 1) |-> NameAt(f, b, pos)]
             S == {m \in 1..(n + 1) : \E f : IsRead(f, m)}
  <1>1. n \in Nat /\ b \in [1..n -> Byte]
    OBVIOUS
  <1>2. ASSUME NEW m \in 1..(n + 1), NEW f, NEW g, NEW pos \in m..(n + 1),
               \A q \in (m + 1)..(n + 1) : g[q] = f[q]
        PROVE  NameAt(g, b, pos) = NameAt(f, b, pos)
    <2>1. CASE pos > n
      BY <1>1, <2>1 DEF NameAt
    <2>2. CASE ~ pos > n
      <3>1. pos \in 1..n /\ b[pos] \in Nat
        <4>1. pos \in 1..n
          BY <1>1, <2>2
        <4>2. b[pos] \in Byte
          BY <1>1, <4>1
        <4> QED
          BY <4>1, <4>2, ByteIsNat
      <3>2. pos + b[pos] <= n /\ b[pos] # 0 =>
              pos + b[pos] + 1 \in (m + 1)..(n + 1)
        BY <1>1, <3>1
      <3>3. pos + b[pos] > n \/ b[pos] = 0
              \/ g[pos + b[pos] + 1] = f[pos + b[pos] + 1]
        BY <1>1, <1>2, <3>1, <3>2
      <3> QED
        BY <3>3 DEF NameAt
    <2> QED
      BY <2>1, <2>2
  <1>3. ASSUME NEW m \in 1..(n + 1), NEW f, m + 1 <= n + 1 => IsRead(f, m + 1)
        PROVE  \E g : IsRead(g, m)
    <2> DEFINE g == [q \in m..(n + 1) |-> IF q = m THEN NameAt(f, b, m) ELSE f[q]]
    <2>1. \A q \in (m + 1)..(n + 1) : g[q] = f[q]
      BY <1>1
    <2>2. ASSUME NEW q \in m..(n + 1) PROVE g[q] = NameAt(g, b, q)
      <3>1. NameAt(g, b, q) = NameAt(f, b, q)
        BY <1>2, <2>1
      <3>2. CASE q = m
        BY <3>1, <3>2
      <3>3. CASE q # m
        <4>1. q \in (m + 1)..(n + 1) /\ m + 1 <= n + 1
          BY <1>1, <3>3
        <4>2. f[q] = NameAt(f, b, q)
          BY <1>3, <4>1
        <4> QED
          BY <2>1, <3>1, <4>1, <4>2
      <3> QED
        BY <3>2, <3>3
    <2>3. g = [q \in m..(n + 1) |-> g[q]]
      OBVIOUS
    <2> HIDE DEF g
    <2>4. [q \in m..(n + 1) |-> g[q]] = [q \in m..(n + 1) |-> NameAt(g, b, q)]
      BY <2>2, Zenon
    <2>5. IsRead(g, m)
      BY <2>3, <2>4
    <2> QED
      BY <2>5
  <1>4. ASSUME NEW m \in 1..(n + 1), \A j \in (m + 1)..(n + 1) : j \in S
        PROVE  m \in S
    <2>1. PICK f : m + 1 <= n + 1 => IsRead(f, m + 1)
      <3>1. CASE m + 1 <= n + 1
        <4>1. m + 1 \in S
          BY <1>1, <1>4, <3>1
        <4> QED
          BY <4>1
      <3> QED
        BY <3>1
    <2> HIDE DEF IsRead
    <2>2. \E g : IsRead(g, m)
      BY <1>3, <2>1
    <2> QED
      BY <2>2
  <1>5. 1 \in S
    <2> HIDE DEF S
    <2>1. 1 \in 1..(n + 1)
      BY <1>1
    <2> QED
      BY <1>1, <1>4, <2>1, Downward
  <1> QED
    BY <1>5 DEF Read

\* A sequence put together from parts has a part at each index, which what
\* belongs to a later index follows: such an equation has a solution.
Chain(n, part, next, last) ==
    CHOOSE f : f = [i \in 1..(n + 1) |->
                      IF i > n THEN last ELSE part[i] \o f[next[i]]]

LEMMA Chained ==
    ASSUME NEW n \in Nat, NEW part, NEW next, NEW last,
           \A i \in 1..n : next[i] \in (i + 1)..(n + 1)
    PROVE  LET f == Chain(n, part, next, last)
           IN  /\ f = [i \in 1..(n + 1) |-> f[i]]
               /\ \A i \in 1..(n + 1) :
                    f[i] = IF i > n THEN last ELSE part[i] \o f[next[i]]
  <1> DEFINE At(f, i) == IF i > n THEN last ELSE part[i] \o f[next[i]]
             Solves(f, m) == f = [i \in m..(n + 1) |-> At(f, i)]
             S == {m \in 1..(n + 1) : \E f : Solves(f, m)}
  <1>2. ASSUME NEW m \in 1..(n + 1), NEW f, NEW g, NEW i \in m..(n + 1),
               \A q \in (m + 1)..(n + 1) : g[q] = f[q]
        PROVE  At(g, i) = At(f, i)
    <2>1. CASE i > n
      BY <2>1
    <2>2. CASE ~ i > n
      <3>1. next[i] \in (m + 1)..(n + 1)
        <4>1. i \in 1..n /\ i >= m
          BY <2>2
        <4>2. next[i] \in (i + 1)..(n + 1)
          BY <4>1
        <4> QED
          BY <4>1, <4>2
      <3>2. g[next[i]] = f[next[i]]
        BY <1>2, <3>1
      <3> QED
        BY <3>2
    <2> QED
      BY <2>1, <2>2
  <1> HIDE DEF At
  <1>3. ASSUME NEW m \in 1..(n + 1), NEW f, m + 1 <= n + 1 => Solves(f, m + 1)
        PROVE  \E g : Solves(g, m)
    <2> DEFINE g == [q \in m..(n + 1) |-> IF q = m THEN At(f, m) ELSE f[q]]
    <2>1. \A q \in (m + 1)..(n + 1) : g[q] = f[q]
      OBVIOUS
    <2>2. g[m] = At(f, m) /\ g = [q \in m..(n + 1) |-> g[q]]
      OBVIOUS
    <2> HIDE DEF g
    <2>3. ASSUME NEW q \in m..(n + 1) PROVE g[q] = At(g, q)
      <3>1. At(g, q) = At(f, q)
        BY <1>2, <2>1
      <3>2. CASE q = m
        BY <2>2, <3>1, <3>2
      <3>3. CASE q # m
        <4>1. q \in (m + 1)..(n + 1) /\ m + 1 <= n + 1
          BY <3>3
        <4>2. f[q] = At(f, q)
          BY <1>3, <4>1
        <4> QED
          BY <2>1, <3>1, <4>1, <4>2
      <3> QED
        BY <3>2, <3>3
    <2>4. [q \in m..(n + 1) |-> g[q]] = [q \in m..(n + 1) |-> At(g, q)]
      BY <2>3, Zenon
    <2>5. Solves(g, m)
      BY <2>2, <2>4
    <2> QED
      BY <2>5
  <1>4. ASSUME NEW m \in 1..(n + 1), \A j \in (m + 1)..(n + 1) : j \in S
        PROVE  m \in S
    <2>1. PICK f : m + 1 <= n + 1 => Solves(f, m + 1)
      <3>1. CASE m + 1 <= n + 1
        <4>1. m + 1 \in S
          BY <1>4, <3>1
        <4> QED
          BY <4>1
      <3> QED
        BY <3>1
    <2> HIDE DEF Solves
    <2>2. \E g : Solves(g, m)
      BY <1>3, <2>1
    <2> QED
      BY <2>2
  <1>5. 1 \in S
    <2> HIDE DEF S
    <2>1. 1 \in 1..(n + 1)
      OBVIOUS
    <2> QED
      BY <1>4, <2>1, Downward
  <1>6. \E f : Solves(f, 1)
    BY <1>5
  <1> DEFINE f == Chain(n, part, next, last)
  <1>7. f = [i \in 1..(n + 1) |-> At(f, i)]
    BY <1>6 DEF At, Chain
  <1> HIDE DEF f
  <1>8. f = [i \in 1..(n + 1) |-> f[i]] /\ \A i \in 1..(n + 1) : f[i] = At(f, i)
    BY <1>7
  <1> QED
    BY <1>8 DEF f, At

\* EncodeName's equation.
LEMMA EncodedIsFunction ==
    ASSUME NEW labels \in Seq(Seq(Byte))
    PROVE  Encoded(labels) = [i \in 1..(Len(labels) + 1) |->
                                EncodeFrom(Encoded(labels), labels, i)]
  <1> DEFINE n == Len(labels)
             part == [i \in 1..n |-> <<Len(labels[i])>> \o labels[i]]
             next == [i \in 1..n |-> i + 1]
             root == <<0>>
  <1>1. n \in Nat
    OBVIOUS
  <1> HIDE DEF n
  <1>2. \A i \in 1..n : /\ next[i] = i + 1 /\ next[i] \in (i + 1)..(n + 1)
                        /\ part[i] = <<Len(labels[i])>> \o labels[i]
    BY <1>1
  <1> HIDE DEF part, next, root
  <1> DEFINE f == Chain(n, part, next, root)
  <1>3. /\ f = [i \in 1..(n + 1) |-> f[i]]
        /\ \A i \in 1..(n + 1) :
             f[i] = IF i > n THEN root ELSE part[i] \o f[next[i]]
    <2>1. \A i \in 1..n : next[i] \in (i + 1)..(n + 1)
      BY <1>2
    <2> HIDE DEF f
    <2> QED
      BY <1>1, <2>1, Chained DEF f
  <1> HIDE DEF f
  <1>4. ASSUME NEW i \in 1..(n + 1)
        PROVE  f[i] = EncodeFrom(f, labels, i)
    <2>1. CASE i > n
      BY <1>3, <2>1 DEF EncodeFrom, n, root
    <2>2. CASE ~ i > n
      <3>1. i \in 1..n
        BY <1>1, <2>2
      <3>2. part[i] = <<Len(labels[i])>> \o labels[i] /\ next[i] = i + 1
        BY <1>2, <3>1
      <3> QED
        BY <1>3, <2>2, <3>2, Zenon DEF EncodeFrom, n
    <2> QED
      BY <2>1, <2>2
  <1>5. f = [i \in 1..(n + 1) |-> EncodeFrom(f, labels, i)]
    <2>1. [i \in 1..(n + 1) |-> f[i]] = [i \in 1..(n + 1) |-> EncodeFrom(f, labels, i)]
      BY <1>4, Zenon
    <2> QED
      BY <1>3, <2>1
  <1> QED
    BY <1>5, Zenon DEF Encoded, n

\* The equation of labels.join.
LEMMA JoinedIsFunction ==
    ASSUME NEW labels \in Seq(Seq(Byte))
    PROVE  JoinedUp(labels) = [i \in 1..(Len(labels) + 1) |->
                                 JoinFrom(JoinedUp(labels), labels, i)]
  <1> DEFINE n == Len(labels)
             part == [i \in 1..n |-> (IF i = 1 THEN <<>> ELSE Dot) \o labels[i]]
             next == [i \in 1..n |-> i + 1]
  <1>1. n \in Nat
    OBVIOUS
  <1> HIDE DEF n
  <1>2. \A i \in 1..n :
            /\ next[i] = i + 1 /\ next[i] \in (i + 1)..(n + 1)
            /\ part[i] = (IF i = 1 THEN <<>> ELSE Dot) \o labels[i]
    <2>1. \A i \in 1..n : next[i] = i + 1 /\ next[i] \in (i + 1)..(n + 1)
      BY <1>1
    <2>2. \A i \in 1..n : part[i] = (IF i = 1 THEN <<>> ELSE Dot) \o labels[i]
      BY Zenon
    <2> HIDE DEF part, next
    <2> QED
      BY <2>1, <2>2
  <1> HIDE DEF part, next
  <1> DEFINE f == Chain(n, part, next, <<>>)
  <1>3. /\ f = [i \in 1..(n + 1) |-> f[i]]
        /\ \A i \in 1..(n + 1) :
             f[i] = IF i > n THEN <<>> ELSE part[i] \o f[next[i]]
    <2>1. \A i \in 1..n : next[i] \in (i + 1)..(n + 1)
      BY <1>2
    <2> HIDE DEF f
    <2> QED
      BY <1>1, <2>1, Chained DEF f
  <1> HIDE DEF f
  <1>4. ASSUME NEW i \in 1..(n + 1)
        PROVE  f[i] = JoinFrom(f, labels, i)
    <2>1. CASE i > n
      BY <1>3, <2>1 DEF JoinFrom, n
    <2>2. CASE ~ i > n
      <3>1. i \in 1..n
        BY <1>1, <2>2
      <3>2. part[i] = (IF i = 1 THEN <<>> ELSE Dot) \o labels[i] /\ next[i] = i + 1
        BY <1>2, <3>1
      <3> QED
        BY <1>3, <2>2, <3>2, Zenon DEF JoinFrom, n
    <2> QED
      BY <2>1, <2>2
  <1>5. f = [i \in 1..(n + 1) |-> JoinFrom(f, labels, i)]
    <2>1. [i \in 1..(n + 1) |-> f[i]] = [i \in 1..(n + 1) |-> JoinFrom(f, labels, i)]
      BY <1>4, Zenon
    <2> QED
      BY <1>3, <2>1
  <1> QED
    BY <1>5, Zenon DEF JoinedUp, n

\* A chunk is of 1 to 4 bytes and ends within the text.
LEMMA ChunkRange ==
    ASSUME NEW b \in Seq(Byte), NEW pos \in 1..Len(b)
    PROVE  /\ Chunk(b, pos) \in 1..4
           /\ pos + Chunk(b, pos) \in (pos + 1)..(Len(b) + 1)
           /\ Chunk(b, pos) = 1 \/ Begins(b, pos, Chunk(b, pos))
  <1> DEFINE Good(n) == (n = 1 \/ Begins(b, pos, n)) /\ ~ Begins(b, pos, n + 1)
  <1>1. CharLength(b[pos]) \in 0..4
    BY DEF CharLength
  <1>2. ~ Begins(b, pos, 5)
    BY <1>1 DEF Begins
  <1>3. \E n \in 1..4 : Good(n)
    <2>1. Good(4) \/ ~ Begins(b, pos, 4)
      BY <1>2
    <2>2. Good(3) \/ Begins(b, pos, 4) \/ ~ Begins(b, pos, 3)
      OBVIOUS
    <2>3. Good(2) \/ Begins(b, pos, 3) \/ ~ Begins(b, pos, 2)
      OBVIOUS
    <2>4. Good(1) \/ Begins(b, pos, 2)
      OBVIOUS
    <2> HIDE DEF Good
    <2> QED
      BY <2>1, <2>2, <2>3, <2>4
  <1>4. Chunk(b, pos) \in 1..4 /\ Good(Chunk(b, pos))
    <2>1. Chunk(b, pos) = CHOOSE n \in 1..4 : Good(n)
      BY DEF Chunk
    <2> HIDE DEF Good
    <2> QED
      BY <1>3, <2>1
  <1>5. CASE Chunk(b, pos) = 1
    BY <1>5
  <1>6. CASE Begins(b, pos, Chunk(b, pos))
    <2> DEFINE n == Chunk(b, pos)
    <2>1. n \in 1..4
      BY <1>4
    <2> HIDE DEF n
    <2>2. pos + n - 1 <= Len(b)
      BY <1>6 DEF Begins, n
    <2>3. pos + n \in (pos + 1)..(Len(b) + 1)
      BY <2>1, <2>2
    <2> QED
      BY <1>6, <2>1, <2>3 DEF n
  <1> QED
    BY <1>4, <1>5, <1>6

\* ASCII is of one byte a character.
LEMMA AsciiLength == \A first \in 0..127 : CharLength(first) = 1
  BY DEF CharLength

\* A byte of ASCII is read by itself, and stays as it is.
LEMMA AsciiChunk ==
    ASSUME NEW b \in Seq(Byte), NEW pos \in 1..Len(b), b[pos] \in 0..127
    PROVE  Chunk(b, pos) = 1 /\ CharLength(b[pos]) = 1
  <1>1. CharLength(b[pos]) = 1
    BY AsciiLength
  <1>2. \A n \in 2..4 : ~ Begins(b, pos, n)
    BY <1>1 DEF Begins
  <1>3. Chunk(b, pos) \in 1..4
        /\ (Chunk(b, pos) = 1 \/ Begins(b, pos, Chunk(b, pos)))
    BY ChunkRange
  <1>4. Chunk(b, pos) = 1 \/ Chunk(b, pos) \in 2..4
    BY <1>3
  <1> QED
    BY <1>1, <1>2, <1>3, <1>4, Zenon

\* from_utf8_lossy's equation.
LEMMA LossyIsFunction ==
    ASSUME NEW b \in Seq(Byte)
    PROVE  Lossy(b) = [pos \in 1..(Len(b) + 1) |-> LossyAt(Lossy(b), b, pos)]
  <1> DEFINE n == Len(b)
             part == [p \in 1..n |-> IF Chunk(b, p) = CharLength(b[p])
                                     THEN SubSeq(b, p, p + Chunk(b, p) - 1)
                                     ELSE Replacement]
             next == [p \in 1..n |-> p + Chunk(b, p)]
  <1>1. n \in Nat
    OBVIOUS
  <1>2. \A p \in 1..n :
            /\ next[p] = p + Chunk(b, p) /\ next[p] \in (p + 1)..(n + 1)
            /\ part[p] = IF Chunk(b, p) = CharLength(b[p])
                         THEN SubSeq(b, p, p + Chunk(b, p) - 1)
                         ELSE Replacement
    <2>1. \A p \in 1..n : next[p] = p + Chunk(b, p)
      OBVIOUS
    <2>2. \A p \in 1..n : p + Chunk(b, p) \in (p + 1)..(n + 1)
      BY ChunkRange
    <2>3. \A p \in 1..n :
            part[p] = IF Chunk(b, p) = CharLength(b[p])
                      THEN SubSeq(b, p, p + Chunk(b, p) - 1)
                      ELSE Replacement
      BY Zenon
    <2> HIDE DEF part, next
    <2> QED
      BY <2>1, <2>2, <2>3
  <1> HIDE DEF n, part, next
  <1> DEFINE f == Chain(n, part, next, <<>>)
  <1>3. /\ f = [p \in 1..(n + 1) |-> f[p]]
        /\ \A p \in 1..(n + 1) :
             f[p] = IF p > n THEN <<>> ELSE part[p] \o f[next[p]]
    <2>1. \A p \in 1..n : next[p] \in (p + 1)..(n + 1)
      BY <1>2
    <2> HIDE DEF f
    <2> QED
      BY <1>1, <2>1, Chained DEF f
  <1> HIDE DEF f
  <1>4. ASSUME NEW p \in 1..(n + 1)
        PROVE  f[p] = LossyAt(f, b, p)
    <2>1. CASE p > n
      BY <1>3, <2>1 DEF LossyAt, n
    <2>2. CASE ~ p > n
      <3>1. p \in 1..n
        BY <1>1, <2>2
      <3>2. LossyAt(f, b, p)
              = (IF Chunk(b, p) = CharLength(b[p])
                 THEN SubSeq(b, p, p + Chunk(b, p) - 1) ELSE Replacement)
                \o f[p + Chunk(b, p)]
        BY <2>2, Zenon DEF LossyAt, n
      <3>3. next[p] = p + Chunk(b, p)
            /\ part[p] = IF Chunk(b, p) = CharLength(b[p])
                         THEN SubSeq(b, p, p + Chunk(b, p) - 1)
                         ELSE Replacement
        BY <1>2, <3>1
      <3> QED
        BY <1>3, <2>2, <3>2, <3>3, Zenon
    <2> QED
      BY <2>1, <2>2
  <1>5. f = [p \in 1..(n + 1) |-> LossyAt(f, b, p)]
    <2>1. [p \in 1..(n + 1) |-> f[p]] = [p \in 1..(n + 1) |-> LossyAt(f, b, p)]
      BY <1>4, Zenon
    <2> QED
      BY <1>3, <2>1
  <1> QED
    BY <1>5, Zenon DEF Lossy, n

\* The reading from a position is what ReadName's body makes of the later ones.
LEMMA ReadAt ==
    ASSUME NEW b \in Seq(Byte), NEW pos \in 1..(Len(b) + 1)
    PROVE  Read(b)[pos] = NameAt(Read(b), b, pos)
  <1> DEFINE R == Read(b)
  <1>1. R = [p \in 1..(Len(b) + 1) |-> NameAt(R, b, p)]
    BY ReadIsFunction
  <1> HIDE DEF R
  <1>2. R[pos] = NameAt(R, b, pos)
    BY <1>1
  <1> QED
    BY <1>2 DEF R

\* What parse_query reads is the reading from the first byte.
LEMMA ReadNameIsRead ==
    ASSUME NEW b PROVE ReadName(b) = Read(b)[1]
  BY DEF ReadName, Read

\* The code of the labels from the i-th on is EncodeName's body.
LEMMA EncodedAt ==
    ASSUME NEW labels \in Seq(Seq(Byte)), NEW i \in 1..(Len(labels) + 1)
    PROVE  Encoded(labels)[i] = EncodeFrom(Encoded(labels), labels, i)
  <1> DEFINE E == Encoded(labels)
  <1>1. E = [k \in 1..(Len(labels) + 1) |-> EncodeFrom(E, labels, k)]
    BY EncodedIsFunction
  <1> HIDE DEF E
  <1>2. E[i] = EncodeFrom(E, labels, i)
    BY <1>1
  <1> QED
    BY <1>2 DEF E

\* A name's code is that of its labels from the first on.
LEMMA EncodeNameIsEncoded ==
    ASSUME NEW labels PROVE EncodeName(labels) = Encoded(labels)[1]
  BY DEF EncodeName, Encoded

-----------------------------------------------------------------------------
(* What is encoded                                                         *)

\* One label more in front of a name puts its length and its bytes in front of
\* the name's code.
LEMMA EncodeCons ==
    ASSUME NEW labels \in Seq(Seq(Byte)), NEW l \in Seq(Byte)
    PROVE  EncodeName(<<l>> \o labels) = <<Len(l)>> \o l \o EncodeName(labels)
  <1> DEFINE n == Len(labels)
             more == <<l>> \o labels
             E == Encoded(labels)
             F == Encoded(more)
             S == {i \in 1..(n + 1) : F[i + 1] = E[i]}
  <1>1. /\ n \in Nat
        /\ more \in Seq(Seq(Byte))
        /\ Len(more) = n + 1
        /\ more[1] = l
        /\ \A i \in 1..n : more[i + 1] = labels[i]
    OBVIOUS
  <1>2. \A i \in 1..(n + 1) : E[i] = EncodeFrom(E, labels, i)
    BY EncodedAt
  <1> HIDE DEF more
  <1>3. \A i \in 1..(n + 2) : F[i] = EncodeFrom(F, more, i)
    BY <1>1, EncodedAt
  <1> HIDE DEF n, E, F
  <1>4. ASSUME NEW k \in 1..(n + 1), \A j \in (k + 1)..(n + 1) : j \in S
        PROVE  k \in S
    <2>1. F[k + 1] = EncodeFrom(F, more, k + 1) /\ E[k] = EncodeFrom(E, labels, k)
      BY <1>1, <1>2, <1>3
    <2>2. CASE k = n + 1
      <3>1. k + 1 > Len(more) /\ k > Len(labels)
        BY <1>1, <2>2 DEF n
      <3>2. F[k + 1] = E[k]
        BY <2>1, <3>1 DEF EncodeFrom
      <3> QED
        BY <3>2
    <2>3. CASE k # n + 1
      <3>1. ~ k + 1 > Len(more) /\ ~ k > Len(labels) /\ more[k + 1] = labels[k]
        BY <1>1, <2>3 DEF n
      <3>2. F[k + 1 + 1] = E[k + 1]
        BY <1>1, <1>4, <2>3
      <3>3. F[k + 1] = E[k]
        BY <2>1, <3>1, <3>2 DEF EncodeFrom
      <3> QED
        BY <3>3
    <2> QED
      BY <2>2, <2>3
  <1>5. 1 \in S
    <2> HIDE DEF S
    <2>1. 1 \in 1..(n + 1)
      BY <1>1
    <2> QED
      BY <1>1, <1>4, <2>1, Downward
  <1>6. F[1] = <<Len(l)>> \o l \o F[2]
    <2>1. 1 \in 1..(n + 2) /\ ~ 1 > Len(more) /\ 1 + 1 = 2
      BY <1>1
    <2>2. F[1] = EncodeFrom(F, more, 1)
      BY <1>3, <2>1
    <2>3. F[1] = <<Len(l)>> \o l \o F[1 + 1]
      BY <1>1, <2>1, <2>2, Zenon DEF EncodeFrom
    <2> QED
      BY <2>1, <2>3
  <1>7. F[2] = E[1]
    BY <1>5
  <1> QED
    BY <1>6, <1>7, EncodeNameIsEncoded DEF E, F, more

\* A name with no labels is the root label's byte.
LEMMA EncodeEmpty == EncodeName(<<>>) = <<0>>
  <1>1. <<>> \in Seq(Seq(Byte)) /\ Len(<<>>) = 0 /\ 1 \in 1..(Len(<<>>) + 1)
    OBVIOUS
  <1>2. Encoded(<<>>)[1] = EncodeFrom(Encoded(<<>>), <<>>, 1)
    BY <1>1, EncodedAt, Zenon
  <1>3. EncodeFrom(Encoded(<<>>), <<>>, 1) = <<0>>
    BY <1>1 DEF EncodeFrom
  <1> QED
    BY <1>2, <1>3, EncodeNameIsEncoded

\* The parts of the code of a label and what follows it.
LEMMA LabelCode ==
    ASSUME NEW l \in Seq(Byte), NEW tail \in Seq(Byte), Len(l) \in 1..63
    PROVE  LET code == <<Len(l)>> \o l \o tail
           IN  /\ code \in Seq(Byte)
               /\ Len(code) = 1 + Len(l) + Len(tail)
               /\ code[1] = Len(l)
               /\ \A j \in 1..Len(l) : code[1 + j] = l[j]
               /\ \A j \in 1..Len(tail) : code[1 + Len(l) + j] = tail[j]
  <1> DEFINE len == Len(l)
             rest == Len(tail)
             u == <<len>>
             front == u \o l
             code == front \o tail
  <1>1. len \in Byte /\ len \in 1..63 /\ rest \in Nat
    BY DEF Byte
  <1>2. u \in Seq(Byte) /\ Len(u) = 1 /\ u[1] = len
    BY <1>1
  <1> HIDE DEF u
  <1>3. /\ front \in Seq(Byte)
        /\ Len(front) = 1 + len
        /\ \A j \in 1..(1 + len) : front[j] = IF j <= 1 THEN u[j] ELSE l[j - 1]
    <2>1. /\ front \in Seq(Byte)
          /\ Len(front) = Len(u) + Len(l)
          /\ \A j \in 1..(Len(u) + Len(l)) :
                front[j] = IF j <= Len(u) THEN u[j] ELSE l[j - Len(u)]
      BY <1>2, ConcatProperties
    <2> QED
      BY <1>2, <2>1
  <1> HIDE DEF front
  <1>4. /\ code \in Seq(Byte)
        /\ Len(code) = 1 + len + rest
        /\ \A j \in 1..(1 + len + rest) :
             code[j] = IF j <= 1 + len THEN front[j] ELSE tail[j - (1 + len)]
    <2>1. /\ code \in Seq(Byte)
          /\ Len(code) = Len(front) + Len(tail)
          /\ \A j \in 1..(Len(front) + Len(tail)) :
                code[j] = IF j <= Len(front) THEN front[j] ELSE tail[j - Len(front)]
      BY <1>3, ConcatProperties
    <2> QED
      BY <1>3, <2>1
  <1> HIDE DEF code, len, rest
  <1>5. code[1] = len
    <2>1. 1 \in 1..(1 + len) /\ 1 \in 1..(1 + len + rest) /\ 1 <= 1 + len
      BY <1>1
    <2> QED
      BY <1>2, <1>3, <1>4, <2>1
  <1>6. ASSUME NEW j \in 1..len PROVE code[1 + j] = l[j]
    <2>1. /\ 1 + j \in 1..(1 + len) /\ 1 + j \in 1..(1 + len + rest)
          /\ 1 + j <= 1 + len /\ ~ 1 + j <= 1 /\ 1 + j - 1 = j
      BY <1>1
    <2> QED
      BY <1>3, <1>4, <2>1
  <1>7. ASSUME NEW j \in 1..rest PROVE code[1 + len + j] = tail[j]
    <2> DEFINE i == 1 + len + j
    <2>1. /\ i \in 1..(1 + len + rest)
          /\ ~ i <= 1 + len /\ i - (1 + len) = j
      BY <1>1
    <2> HIDE DEF i
    <2>2. code[i] = tail[i - (1 + len)]
      BY <1>4, <2>1
    <2>3. code[i] = tail[j]
      BY <2>1, <2>2
    <2> QED
      BY <2>3 DEF i
  <1> QED
    BY <1>4, <1>5, <1>6, <1>7 DEF code, front, u, len, rest

\* The code of a name of at most 63 bytes a label is made of bytes.
LEMMA EncodedBytes ==
    ASSUME NEW labels \in Seq(Seq(Byte)),
           \A i \in 1..Len(labels) : Len(labels[i]) \in 1..63
    PROVE  \A i \in 1..(Len(labels) + 1) :
             Encoded(labels)[i] \in Seq(Byte) /\ Len(Encoded(labels)[i]) \in Nat \ {0}
  <1> DEFINE n == Len(labels)
             E == Encoded(labels)
             S == {i \in 1..(n + 1) :
                     E[i] \in Seq(Byte) /\ Len(E[i]) \in Nat \ {0}}
  <1>1. n \in Nat
    OBVIOUS
  <1>2. \A i \in 1..(n + 1) : E[i] = EncodeFrom(E, labels, i)
    BY EncodedAt
  <1> HIDE DEF E
  <1>3. ASSUME NEW k \in 1..(n + 1), \A j \in (k + 1)..(n + 1) : j \in S
        PROVE  k \in S
    <2>1. CASE k > n
      <3>1. E[k] = <<0>>
        BY <1>2, <2>1 DEF EncodeFrom
      <3>2. 0 \in Byte
        BY DEF Byte
      <3>3. <<0>> \in Seq(Byte) /\ Len(<<0>>) = 1
        BY <3>2
      <3>4. E[k] \in Seq(Byte) /\ Len(E[k]) \in Nat \ {0}
        BY <3>1, <3>3
      <3> QED
        BY <3>4
    <2>2. CASE ~ k > n
      <3>1. E[k] = <<Len(labels[k])>> \o labels[k] \o E[k + 1]
        BY <1>2, <2>2 DEF EncodeFrom
      <3>2. k \in 1..n /\ k + 1 \in S
        BY <1>1, <1>3, <2>2
      <3>3. E[k + 1] \in Seq(Byte)
        BY <3>2
      <3> DEFINE l == labels[k]
                 tail == E[k + 1]
      <3>4. l \in Seq(Byte) /\ Len(l) \in 1..63 /\ tail \in Seq(Byte)
        BY <3>2, <3>3
      <3> HIDE DEF l, tail
      <3>5. /\ <<Len(l)>> \o l \o tail \in Seq(Byte)
            /\ Len(<<Len(l)>> \o l \o tail) = 1 + Len(l) + Len(tail)
        BY <3>4, LabelCode
      <3>6. Len(l) \in Nat /\ Len(tail) \in Nat
        BY <3>4
      <3>7. E[k] = <<Len(l)>> \o l \o tail
        BY <3>1 DEF l, tail
      <3>8. Len(E[k]) = 1 + Len(l) + Len(tail)
        BY <3>5, <3>7
      <3>9. Len(E[k]) \in Nat \ {0}
        <4> DEFINE len == Len(l)
                   rest == Len(tail)
        <4>1. len \in Nat /\ rest \in Nat
          BY <3>6
        <4> HIDE DEF len, rest
        <4>2. 1 + len + rest \in Nat \ {0}
          BY <4>1
        <4> QED
          BY <3>8, <4>2 DEF len, rest
      <3>10. E[k] \in Seq(Byte)
        BY <3>5, <3>7
      <3> QED
        BY <3>9, <3>10
    <2> QED
      BY <2>1, <2>2
  <1>4. \A k \in 1..(n + 1) : k \in S
    <2> HIDE DEF S, n
    <2> QED
      BY <1>1, <1>3, Downward
  <1> QED
    BY <1>4 DEF E

-----------------------------------------------------------------------------
(* parse_query reads nothing but questions                                 *)

\* A part of a sequence of bytes.
LEMMA Part ==
    ASSUME NEW b \in Seq(Byte), NEW lo \in 1..(Len(b) + 1),
           NEW hi \in (lo - 1)..Len(b)
    PROVE  /\ SubSeq(b, lo, hi) \in Seq(Byte)
           /\ Len(SubSeq(b, lo, hi)) = hi - lo + 1
           /\ \A i \in 1..(hi - lo + 1) : SubSeq(b, lo, hi)[i] = b[lo + i - 1]
  <1>1. lo \in Int /\ hi \in Int /\ Len(b) \in Nat
    OBVIOUS
  <1>2. \A k \in lo..hi : b[k] \in Byte
    BY <1>1
  <1>3. /\ SubSeq(b, lo, hi) \in Seq(Byte)
        /\ Len(SubSeq(b, lo, hi)) = IF lo <= hi THEN hi - lo + 1 ELSE 0
        /\ \A i \in 1..(hi - lo + 1) : SubSeq(b, lo, hi)[i] = b[lo + i - 1]
    BY <1>1, <1>2, SubSeqProperties
  <1>4. lo <= hi \/ hi - lo + 1 = 0
    BY <1>1
  <1> QED
    BY <1>1, <1>3, <1>4

\* Concatenation is associative.
LEMMA Associative == \A s, t, u \in Seq(Byte) : (s \o t) \o u = s \o (t \o u)
  BY ConcatAssociative

\* A length byte, the bytes it counts and what follows are adjacent.
LEMMA LabelInFront ==
    ASSUME NEW b \in Seq(Byte), NEW pos \in 1..Len(b), NEW e \in 1..Len(b),
           pos + b[pos] + 1 <= e
    PROVE  /\ SubSeq(b, pos + 1, pos + b[pos]) \in Seq(Byte)
           /\ Len(SubSeq(b, pos + 1, pos + b[pos])) = b[pos]
           /\ <<b[pos]>> \o SubSeq(b, pos + 1, pos + b[pos])
                \o SubSeq(b, pos + b[pos] + 1, e) = SubSeq(b, pos, e)
  <1> DEFINE n == Len(b)
             len == b[pos]
             lo == pos + 1
             mid == pos + len
             l == SubSeq(b, lo, mid)
             rest == SubSeq(b, mid + 1, e)
             both == SubSeq(b, lo, e)
  <1>1. n \in Nat /\ len \in Byte
    OBVIOUS
  <1>2. len \in Nat
    BY <1>1, ByteIsNat
  <1>3. pos \in 1..n /\ e \in 1..n /\ mid + 1 <= e
    OBVIOUS
  <1> HIDE DEF n, len
  <1>4. /\ lo \in 1..(n + 1) /\ mid \in (lo - 1)..n
        /\ mid + 1 \in 1..(n + 1) /\ e \in mid..n /\ e \in (mid + 1 - 1)..n
        /\ mid - lo + 1 = len /\ e \in pos..n /\ e \in (lo - 1)..n
    BY <1>1, <1>2, <1>3
  <1>5. SubSeq(b, pos, e) = <<len>> \o both
    BY <1>3, <1>4, SubSeqRecursiveFirst DEF n, len
  <1> HIDE DEF lo, mid
  <1>6. l \in Seq(Byte) /\ Len(l) = len
    BY <1>4, Part DEF n
  <1>7. rest \in Seq(Byte)
    BY <1>4, Part DEF n
  <1>8. l \o rest = both
    BY <1>4, ConcatAdjacentSubSeq DEF n
  <1>9. <<len>> \in Seq(Byte)
    BY <1>1
  <1> HIDE DEF l, rest, both
  <1>10. (<<len>> \o l) \o rest = <<len>> \o (l \o rest)
    BY <1>6, <1>7, <1>9, Associative, Zenon
  <1>11. (<<len>> \o l) \o rest = SubSeq(b, pos, e)
    BY <1>5, <1>8, <1>10
  <1> QED
    BY <1>6, <1>11 DEF l, rest, lo, mid, len

\* What is read as a name from some position on is the code of that name.
LEMMA ReadSound ==
    ASSUME NEW b \in Seq(Byte), NEW pos \in 1..(Len(b) + 1)
    PROVE  LET r == Read(b)[pos]
           IN  /\ r.labels \in Seq(Seq(Byte))
               /\ r.end \in Nat
               /\ r.end # 0 =>
                    /\ r.end \in pos..Len(b)
                    /\ EncodeName(r.labels) = SubSeq(b, pos, r.end)
                    /\ \A i \in 1..Len(r.labels) : Len(r.labels[i]) \in 1..63
  <1> DEFINE n == Len(b)
             R == Read(b)
             Good(k) == /\ R[k].labels \in Seq(Seq(Byte))
                        /\ R[k].end \in Nat
                        /\ R[k].end # 0 =>
                             /\ R[k].end \in k..n
                             /\ EncodeName(R[k].labels) = SubSeq(b, k, R[k].end)
                             /\ \A i \in 1..Len(R[k].labels) :
                                  Len(R[k].labels[i]) \in 1..63
             S == {k \in 1..(n + 1) : Good(k)}
  <1>1. n \in Nat /\ \A k \in 1..n : b[k] \in Byte
    OBVIOUS
  <1>2. \A k \in 1..(n + 1) : R[k] = NameAt(R, b, k)
    BY ReadAt
  <1> HIDE DEF n, R
  <1>3. \A k : R[k] = Unreadable => Good(k)
    BY DEF Unreadable
  <1>4. ASSUME NEW k \in 1..(n + 1), \A j \in (k + 1)..(n + 1) : j \in S
        PROVE  Good(k)
    <2>1. CASE k > n
      <3>1. R[k] = Unreadable
        BY <1>2, <2>1 DEF NameAt, n
      <3> QED
        BY <1>3, <3>1
    <2>2. CASE ~ k > n /\ b[k] = 0
      <3>1. R[k] = [labels |-> <<>>, end |-> k]
        BY <1>2, <2>2 DEF NameAt, n
      <3>2. SubSeq(b, k, k) = <<0>>
        <4>1. k \in 1..(Len(b) + 1) /\ k \in (k - 1)..Len(b)
          BY <1>1, <2>2 DEF n
        <4>2. /\ SubSeq(b, k, k) \in Seq(Byte)
              /\ Len(SubSeq(b, k, k)) = k - k + 1
              /\ \A i \in 1..(k - k + 1) : SubSeq(b, k, k)[i] = b[k + i - 1]
          BY <4>1, Part
        <4>3. 1 \in 1..(k - k + 1) /\ k - k + 1 = 1 /\ k + 1 - 1 = k
          BY <4>1
        <4>4. Len(SubSeq(b, k, k)) = 1 /\ SubSeq(b, k, k)[1] = 0
          BY <2>2, <4>2, <4>3
        <4>5. <<0>> \in Seq(Byte) /\ Len(<<0>>) = 1 /\ <<0>>[1] = 0
          BY DEF Byte
        <4>6. \A i \in 1..Len(SubSeq(b, k, k)) : SubSeq(b, k, k)[i] = <<0>>[i]
          BY <4>4, <4>5
        <4> QED
          BY <4>2, <4>4, <4>5, <4>6, SeqEqual, Zenon
      <3>3. k \in k..n /\ k # 0 /\ k \in Nat
        BY <1>1, <2>2
      <3>4. R[k].labels = <<>> /\ R[k].end = k
        BY <3>1
      <3>5. <<>> \in Seq(Seq(Byte)) /\ \A i \in 1..Len(<<>>) : FALSE
        OBVIOUS
      <3>6. EncodeName(R[k].labels) = SubSeq(b, k, R[k].end)
        BY <3>2, <3>4, EncodeEmpty
      <3>7. \A i \in 1..Len(R[k].labels) : FALSE
        BY <3>4, <3>5
      <3> QED
        BY <3>3, <3>4, <3>5, <3>6, <3>7
    <2>3. CASE ~ k > n /\ b[k] # 0 /\ (Compressed(b[k]) \/ k + b[k] > n)
      <3>1. R[k] = Unreadable
        BY <1>2, <2>3 DEF NameAt, n
      <3> QED
        BY <1>3, <3>1
    <2>4. CASE ~ k > n /\ b[k] # 0 /\ ~ Compressed(b[k]) /\ ~ k + b[k] > n
      <3> DEFINE q == k + b[k] + 1
                 l == SubSeq(b, k + 1, k + b[k])
      <3>1. k \in 1..n /\ b[k] \in 1..63
        <4> DEFINE len == b[k]
        <4>1. k \in 1..n
          BY <1>1, <2>4
        <4>2. len \in Nat
          BY <1>1, <4>1, ByteIsNat
        <4>3. len # 0 /\ ~ len >= 64
          BY <2>4 DEF Compressed
        <4> HIDE DEF len
        <4>4. len \in 1..63
          BY <4>2, <4>3
        <4> QED
          BY <4>1, <4>4 DEF len
      <3>2. q \in (k + 1)..(n + 1)
        <4> DEFINE len == b[k]
        <4>1. len \in 1..63 /\ ~ k + len > n
          BY <2>4, <3>1
        <4> HIDE DEF len
        <4>2. k + len + 1 \in (k + 1)..(n + 1)
          BY <1>1, <4>1
        <4> QED
          BY <4>2 DEF len
      <3> HIDE DEF q, l
      <3>3. Good(q)
        BY <1>4, <3>2
      <3>4. CASE R[q].end = 0
        <4>1. R[k] = Unreadable
          BY <1>2, <2>4, <3>4 DEF NameAt, n, q
        <4> QED
          BY <1>3, <4>1
      <3>5. CASE R[q].end # 0
        <4>1. R[k] = [labels |-> <<l>> \o R[q].labels, end |-> R[q].end]
          BY <1>2, <2>4, <3>5 DEF NameAt, n, q, l
        <4>2. /\ R[q].end \in q..n
              /\ EncodeName(R[q].labels) = SubSeq(b, q, R[q].end)
              /\ \A i \in 1..Len(R[q].labels) : Len(R[q].labels[i]) \in 1..63
          BY <3>3, <3>5
        <4>3. R[q].end \in 1..n /\ q <= R[q].end /\ R[q].end \in k..n /\ R[q].end # 0
          BY <1>1, <3>1, <3>2, <4>2
        <4>4. /\ l \in Seq(Byte)
              /\ Len(l) = b[k]
              /\ <<b[k]>> \o l \o SubSeq(b, q, R[q].end) = SubSeq(b, k, R[q].end)
          BY <3>1, <4>3, LabelInFront DEF n, q, l
        <4>5. EncodeName(<<l>> \o R[q].labels) = SubSeq(b, k, R[q].end)
          <5>1. EncodeName(<<l>> \o R[q].labels)
                  = <<Len(l)>> \o l \o EncodeName(R[q].labels)
            BY <3>3, <4>4, EncodeCons
          <5> QED
            BY <4>2, <4>4, <5>1
        <4>6. /\ <<l>> \o R[q].labels \in Seq(Seq(Byte))
              /\ \A i \in 1..Len(<<l>> \o R[q].labels) :
                   Len((<<l>> \o R[q].labels)[i]) \in 1..63
          <5> DEFINE tail == R[q].labels
          <5>1. tail \in Seq(Seq(Byte)) /\ \A i \in 1..Len(tail) : Len(tail[i]) \in 1..63
            BY <3>3, <4>2
          <5> HIDE DEF tail
          <5>2. <<l>> \in Seq(Seq(Byte)) /\ Len(<<l>>) = 1 /\ <<l>>[1] = l
            BY <4>4
          <5>3. /\ <<l>> \o tail \in Seq(Seq(Byte))
                /\ Len(<<l>> \o tail) = 1 + Len(tail)
                /\ \A i \in 1..(1 + Len(tail)) :
                     (<<l>> \o tail)[i] = IF i <= 1 THEN <<l>>[i] ELSE tail[i - 1]
            BY <5>1, <5>2, ConcatProperties
          <5>4. ASSUME NEW i \in 1..(1 + Len(tail))
                PROVE  Len((<<l>> \o tail)[i]) \in 1..63
            <6>1. CASE i = 1
              <7>1. (<<l>> \o tail)[1] = <<l>>[1]
                BY <5>1, <5>3
              <7>2. Len(<<l>>[1]) \in 1..63
                BY <3>1, <4>4, <5>2
              <7> QED
                BY <6>1, <7>1, <7>2
            <6>2. CASE i # 1
              <7>1. i - 1 \in 1..Len(tail) /\ ~ i <= 1
                BY <5>1, <6>2
              <7> QED
                BY <5>1, <5>3, <7>1
            <6> QED
              BY <6>1, <6>2
          <5> QED
            BY <5>3, <5>4 DEF tail
        <4>7. R[k].labels = <<l>> \o R[q].labels /\ R[k].end = R[q].end
          BY <4>1
        <4>8. R[k].end \in Nat
          BY <3>3, <4>7
        <4> HIDE DEF R
        <4> QED
          BY <4>3, <4>5, <4>6, <4>7, <4>8
      <3> QED
        BY <3>4, <3>5
    <2> QED
      BY <2>1, <2>2, <2>3, <2>4
  <1>5. \A k \in 1..(n + 1) : k \in S
    <2>1. ASSUME NEW k \in 1..(n + 1), \A j \in (k + 1)..(n + 1) : j \in S
          PROVE  k \in S
      BY <1>4, <2>1
    <2> HIDE DEF S
    <2> QED
      BY <1>1, <2>1, Downward
  <1>6. Good(pos)
    BY <1>5 DEF n
  <1> QED
    BY <1>6 DEF R, n

-----------------------------------------------------------------------------
(* The name that is looked up                                              *)

\* The text from a position on is what from_utf8_lossy's body makes of it.
LEMMA LossyBody ==
    ASSUME NEW b \in Seq(Byte), NEW pos \in 1..(Len(b) + 1)
    PROVE  Lossy(b)[pos] = LossyAt(Lossy(b), b, pos)
  <1> DEFINE L == Lossy(b)
  <1>1. L = [p \in 1..(Len(b) + 1) |-> LossyAt(L, b, p)]
    BY LossyIsFunction
  <1> HIDE DEF L
  <1>2. L[pos] = LossyAt(L, b, pos)
    BY <1>1
  <1> QED
    BY <1>2 DEF L

\* A sequence of one byte.
LEMMA SingleByte ==
    ASSUME NEW s \in Seq(Byte), Len(s) = 1 PROVE s = <<s[1]>>
  <1>1. <<s[1]>> \in Seq(Byte) /\ Len(<<s[1]>>) = 1 /\ <<s[1]>>[1] = s[1]
    OBVIOUS
  <1> DEFINE t == <<s[1]>>
  <1>2. t \in Seq(Byte) /\ Len(t) = Len(s) /\ \A i \in 1..Len(s) : s[i] = t[i]
    BY <1>1
  <1> HIDE DEF t
  <1>3. s = t
    BY <1>2, SeqEqual
  <1> QED
    BY <1>3 DEF t

\* from_utf8_lossy leaves ASCII alone.
LEMMA AsciiKept ==
    ASSUME NEW b \in Seq(Byte), \A i \in 1..Len(b) : b[i] \in 0..127
    PROVE  FromUtf8Lossy(b) = b
  <1> DEFINE n == Len(b)
             L == Lossy(b)
             S == {k \in 1..(n + 1) : L[k] = SubSeq(b, k, n)}
  <1>1. n \in Nat
    OBVIOUS
  <1>2. \A k \in 1..(n + 1) : L[k] = LossyAt(L, b, k)
    BY LossyBody
  <1> HIDE DEF n, L
  <1>3. ASSUME NEW k \in 1..(n + 1), \A j \in (k + 1)..(n + 1) : j \in S
        PROVE  k \in S
    <2>1. CASE k = n + 1
      <3>1. L[k] = <<>>
        <4>1. k > Len(b)
          BY <1>1, <2>1 DEF n
        <4> QED
          BY <1>2, <4>1 DEF LossyAt
      <3>2. SubSeq(b, k, n) = <<>>
        BY <1>1, <2>1 DEF n
      <3> QED
        BY <3>1, <3>2
    <2>2. CASE k # n + 1
      <3>1. k \in 1..n /\ k + 1 \in (k + 1)..(n + 1)
        BY <1>1, <2>2
      <3>2. Chunk(b, k) = 1 /\ CharLength(b[k]) = 1
        BY <3>1, AsciiChunk DEF n
      <3>3. L[k] = SubSeq(b, k, k) \o L[k + 1]
        <4>1. ~ k > Len(b) /\ k + 1 - 1 = k
          BY <1>1, <3>1 DEF n
        <4>2. L[k] = SubSeq(b, k, k + 1 - 1) \o L[k + 1]
          BY <1>2, <3>2, <4>1, Zenon DEF LossyAt
        <4> QED
          BY <4>1, <4>2
      <3>4. L[k + 1] = SubSeq(b, k + 1, n)
        BY <1>3, <3>1
      <3>5. SubSeq(b, k, n) = <<b[k]>> \o SubSeq(b, k + 1, n)
        <4>1. k \in 1..Len(b) /\ n \in k..Len(b)
          BY <1>1, <3>1 DEF n
        <4> QED
          BY <4>1, SubSeqRecursiveFirst
      <3>6. SubSeq(b, k, k) = <<b[k]>>
        <4>1. k \in 1..Len(b) /\ k \in 1..(Len(b) + 1) /\ k \in (k - 1)..Len(b)
              /\ k - k + 1 = 1 /\ k + 1 - 1 = k
          BY <1>1, <3>1 DEF n
        <4>2. /\ SubSeq(b, k, k) \in Seq(Byte)
              /\ Len(SubSeq(b, k, k)) = 1
              /\ SubSeq(b, k, k)[1] = b[k]
          BY <4>1, Part
        <4> QED
          BY <4>2, SingleByte
      <3>7. L[k] = SubSeq(b, k, n)
        BY <3>3, <3>4, <3>5, <3>6, Zenon
      <3> QED
        BY <3>7
    <2> QED
      BY <2>1, <2>2
  <1>4. 1 \in S
    <2> HIDE DEF S
    <2>1. 1 \in 1..(n + 1)
      BY <1>1
    <2> QED
      BY <1>1, <1>3, <2>1, Downward
  <1>5. FromUtf8Lossy(b) = L[1]
    BY DEF FromUtf8Lossy, L, Lossy
  <1>6. SubSeq(b, 1, n) = b
    BY DEF n
  <1> QED
    BY <1>4, <1>5, <1>6

\* Plain labels are looked up as they are.
LEMMA PlainKept ==
    ASSUME NEW labels \in Seq(Seq(Byte)), Plain(labels)
    PROVE  QName(labels) = Joined(labels)
  <1>1. \A i \in DOMAIN labels : FromUtf8Lossy(labels[i]) = labels[i]
    <2> TAKE i \in DOMAIN labels
    <2>1. labels[i] \in Seq(Byte) /\ DOMAIN labels[i] = 1..Len(labels[i])
      OBVIOUS
    <2>2. \A j \in 1..Len(labels[i]) : labels[i][j] \in 0..127
      BY <2>1 DEF Plain
    <2> QED
      BY <2>1, <2>2, AsciiKept
  <1>2. [i \in DOMAIN labels |-> FromUtf8Lossy(labels[i])]
          = [i \in DOMAIN labels |-> labels[i]]
    BY <1>1, Zenon
  <1>3. [i \in DOMAIN labels |-> labels[i]] = labels
    OBVIOUS
  <1> QED
    BY <1>2, <1>3 DEF QName

\* What the labels from the i-th on are joined to is bytes.
LEMMA JoinedBody ==
    ASSUME NEW labels \in Seq(Seq(Byte)), NEW i \in 1..(Len(labels) + 1)
    PROVE  JoinedUp(labels)[i] = JoinFrom(JoinedUp(labels), labels, i)
  <1> DEFINE J == JoinedUp(labels)
  <1>1. J = [k \in 1..(Len(labels) + 1) |-> JoinFrom(J, labels, k)]
    BY JoinedIsFunction
  <1> HIDE DEF J
  <1>2. J[i] = JoinFrom(J, labels, i)
    BY <1>1
  <1> QED
    BY <1>2 DEF J

LEMMA JoinedBytes ==
    ASSUME NEW labels \in Seq(Seq(Byte))
    PROVE  \A i \in 1..(Len(labels) + 1) : JoinedUp(labels)[i] \in Seq(Byte)
  <1> DEFINE n == Len(labels)
             J == JoinedUp(labels)
             S == {k \in 1..(n + 1) : J[k] \in Seq(Byte)}
  <1>1. n \in Nat /\ \A i \in 1..n : labels[i] \in Seq(Byte)
    OBVIOUS
  <1>2. \A k \in 1..(n + 1) : J[k] = JoinFrom(J, labels, k)
    BY JoinedBody
  <1> HIDE DEF n, J
  <1>3. ASSUME NEW k \in 1..(n + 1), \A j \in (k + 1)..(n + 1) : j \in S
        PROVE  k \in S
    <2>1. CASE k = n + 1
      <3>1. k > Len(labels)
        BY <1>1, <2>1 DEF n
      <3>2. J[k] = <<>>
        BY <1>2, <3>1 DEF JoinFrom
      <3>3. <<>> \in Seq(Byte)
        OBVIOUS
      <3> QED
        BY <3>2, <3>3, Zenon
    <2>2. CASE k # n + 1
      <3>1. k \in 1..n /\ k + 1 \in (k + 1)..(n + 1) /\ ~ k > n
        BY <1>1, <2>2
      <3>2. J[k] = (IF k = 1 THEN <<>> ELSE Dot) \o labels[k] \o J[k + 1]
        BY <1>2, <3>1, Zenon DEF JoinFrom, n
      <3>3. J[k + 1] \in Seq(Byte)
        BY <1>3, <3>1
      <3>4. (IF k = 1 THEN <<>> ELSE Dot) \in Seq(Byte)
        <4>1. 46 \in Byte
          BY DEF Byte
        <4>2. <<>> \in Seq(Byte) /\ <<46>> \in Seq(Byte)
          BY <4>1
        <4> QED
          BY <4>2, Zenon DEF Dot
      <3>5. labels[k] \in Seq(Byte)
        BY <1>1, <3>1
      <3> DEFINE dot == IF k = 1 THEN <<>> ELSE Dot
      <3> HIDE DEF dot
      <3>6. dot \o labels[k] \o J[k + 1] \in Seq(Byte)
        BY <3>3, <3>4, <3>5 DEF dot
      <3> QED
        BY <3>2, <3>6 DEF dot
    <2> QED
      BY <2>1, <2>2
  <1>4. \A k \in 1..(n + 1) : k \in S
    <2> HIDE DEF S
    <2> QED
      BY <1>1, <1>3, Downward
  <1> QED
    BY <1>4 DEF n, J

\* The bytes of a concatenation.
LEMMA Bytes ==
    ASSUME NEW s \in Seq(Byte), NEW t \in Seq(Byte)
    PROVE  /\ s \o t \in Seq(Byte)
           /\ Len(s \o t) = Len(s) + Len(t)
           /\ \A i \in 1..Len(s) : (s \o t)[i] = s[i]
           /\ \A i \in 1..Len(t) : (s \o t)[Len(s) + i] = t[i]
  <1>1. \A i \in 1..Len(t) : Len(s) + i \in 1..(Len(s) + Len(t))
                             /\ Len(s) + i > Len(s) /\ Len(s) + i - Len(s) = i
    OBVIOUS
  <1> QED
    BY <1>1

\* Bytes without a dot, and bytes that begin with one, if any.
DotFree(s) == \A i \in 1..Len(s) : s[i] # 46
AtDot(u) == u = <<>> \/ u[1] = 46

\* What comes before a dot, or before the end, is determined.
LEMMA UpToDot ==
    ASSUME NEW s \in Seq(Byte), NEW t \in Seq(Byte),
           NEW u \in Seq(Byte), NEW v \in Seq(Byte),
           DotFree(s), DotFree(t), AtDot(u), AtDot(v)
    PROVE  s \o u = t \o v => s = t /\ u = v
  <1> USE DEF DotFree, AtDot
  <1>1. /\ Len(s) \in Nat /\ Len(t) \in Nat /\ Len(u) \in Nat /\ Len(v) \in Nat
        /\ u # <<>> => Len(u) > 0
        /\ v # <<>> => Len(v) > 0
    OBVIOUS
  <1>2. /\ Len(s \o u) = Len(s) + Len(u) /\ Len(t \o v) = Len(t) + Len(v)
        /\ \A i \in 1..Len(s) : (s \o u)[i] = s[i]
        /\ \A i \in 1..Len(t) : (t \o v)[i] = t[i]
        /\ \A i \in 1..Len(u) : (s \o u)[Len(s) + i] = u[i]
        /\ \A i \in 1..Len(v) : (t \o v)[Len(t) + i] = v[i]
    <2>1. /\ Len(s \o u) = Len(s) + Len(u)
          /\ \A i \in 1..Len(s) : (s \o u)[i] = s[i]
          /\ \A i \in 1..Len(u) : (s \o u)[Len(s) + i] = u[i]
      BY Bytes
    <2>2. /\ Len(t \o v) = Len(t) + Len(v)
          /\ \A i \in 1..Len(t) : (t \o v)[i] = t[i]
          /\ \A i \in 1..Len(v) : (t \o v)[Len(t) + i] = v[i]
      BY Bytes
    <2> QED
      BY <2>1, <2>2
  <1> SUFFICES ASSUME s \o u = t \o v PROVE s = t /\ u = v
    OBVIOUS
  <1>3. ~ Len(s) < Len(t)
    <2> SUFFICES ASSUME Len(s) < Len(t) PROVE FALSE
      OBVIOUS
    <2>1. Len(u) > 0 /\ 1 \in 1..Len(u) /\ Len(s) + 1 \in 1..Len(t)
      BY <1>1, <1>2
    <2>2. (s \o u)[Len(s) + 1] = u[1] /\ (t \o v)[Len(s) + 1] = t[Len(s) + 1]
      BY <1>2, <2>1
    <2>3. u[1] = 46 /\ t[Len(s) + 1] # 46
      BY <2>1
    <2> QED
      BY <2>2, <2>3
  <1>4. ~ Len(t) < Len(s)
    <2> SUFFICES ASSUME Len(t) < Len(s) PROVE FALSE
      OBVIOUS
    <2>1. Len(v) > 0 /\ 1 \in 1..Len(v) /\ Len(t) + 1 \in 1..Len(s)
      BY <1>1, <1>2
    <2>2. (t \o v)[Len(t) + 1] = v[1] /\ (s \o u)[Len(t) + 1] = s[Len(t) + 1]
      BY <1>2, <2>1
    <2>3. v[1] = 46 /\ s[Len(t) + 1] # 46
      BY <2>1
    <2> QED
      BY <2>2, <2>3
  <1>5. Len(s) = Len(t) /\ Len(u) = Len(v)
    BY <1>1, <1>2, <1>3, <1>4
  <1>6. \A i \in 1..Len(s) : s[i] = t[i]
    BY <1>2, <1>5
  <1>7. \A i \in 1..Len(u) : u[i] = v[i]
    BY <1>2, <1>5
  <1> QED
    BY <1>5, <1>6, <1>7, SeqEqual

\* A common beginning can be left out.
LEMMA Cancel ==
    ASSUME NEW d \in Seq(Byte), NEW x \in Seq(Byte), NEW y \in Seq(Byte),
           d \o x = d \o y
    PROVE  x = y
  <1>1. /\ Len(d \o x) = Len(d) + Len(x) /\ Len(d \o y) = Len(d) + Len(y)
        /\ \A i \in 1..Len(x) : (d \o x)[Len(d) + i] = x[i]
        /\ \A i \in 1..Len(y) : (d \o y)[Len(d) + i] = y[i]
    BY Bytes
  <1>2. Len(x) = Len(y)
    BY <1>1
  <1>3. \A i \in 1..Len(x) : x[i] = y[i]
    BY <1>1, <1>2
  <1> QED
    BY <1>2, <1>3, SeqEqual

\* What precedes a label.
DotBefore(i) == IF i = 1 THEN <<>> ELSE Dot

LEMMA DotIsBytes ==
    \A i \in Nat :
        /\ DotBefore(i) \in Seq(Byte)
        /\ i # 1 => DotBefore(i)[1] = 46 /\ Len(DotBefore(i)) = 1
  <1>1. 46 \in Byte
    BY DEF Byte
  <1>2. /\ <<>> \in Seq(Byte)
        /\ <<46>> \in Seq(Byte) /\ <<46>>[1] = 46 /\ Len(<<46>>) = 1
    BY <1>1
  <1> QED
    BY <1>2, Zenon DEF DotBefore, Dot

\* From a label on there is its dot, the label and what the later ones give;
\* behind the last label there is nothing.
JoinedInSteps(labels) ==
    LET J == JoinedUp(labels)
    IN  /\ J[Len(labels) + 1] = <<>>
        /\ \A i \in 1..Len(labels) :
                J[i] = DotBefore(i) \o (labels[i] \o J[i + 1])
        /\ \A i \in 1..Len(labels) : J[i] # <<>> /\ (i # 1 => J[i][1] = 46)

LEMMA JoinedStep ==
    ASSUME NEW labels \in Seq(Seq(Byte)),
           \A i \in 1..Len(labels) : Len(labels[i]) > 0
    PROVE  JoinedInSteps(labels)
  <1> DEFINE n == Len(labels)
             J == JoinedUp(labels)
  <1>1. /\ n \in Nat
        /\ \A i \in 1..n : labels[i] \in Seq(Byte) /\ Len(labels[i]) > 0
    OBVIOUS
  <1>2. \A k \in 1..(n + 1) : J[k] = JoinFrom(J, labels, k) /\ J[k] \in Seq(Byte)
    BY JoinedBody, JoinedBytes
  <1> HIDE DEF n, J
  <1>3. J[n + 1] = <<>>
    <2>1. n + 1 > n /\ n + 1 \in 1..(n + 1)
      BY <1>1
    <2> QED
      BY <1>2, <2>1, Zenon DEF JoinFrom, n
  <1>4. ASSUME NEW i \in 1..n
        PROVE  /\ J[i] = DotBefore(i) \o (labels[i] \o J[i + 1])
               /\ J[i] # <<>>
               /\ i # 1 => J[i][1] = 46
    <2> DEFINE d == DotBefore(i)
               l == labels[i]
               r == J[i + 1]
    <2>1. ~ i > n /\ i \in 1..(n + 1) /\ i + 1 \in 1..(n + 1) /\ i \in Nat
      BY <1>1
    <2>2. J[i] = (d \o l) \o r
      BY <1>2, <2>1, Zenon DEF JoinFrom, n, DotBefore
    <2>3. /\ d \in Seq(Byte) /\ (i # 1 => d[1] = 46 /\ Len(d) = 1)
          /\ l \in Seq(Byte) /\ Len(l) > 0 /\ r \in Seq(Byte)
      <3>1. d \in Seq(Byte) /\ (i # 1 => d[1] = 46 /\ Len(d) = 1)
        BY <2>1, DotIsBytes
      <3>2. l \in Seq(Byte) /\ Len(l) > 0
        BY <1>1
      <3>3. r \in Seq(Byte)
        BY <1>2, <2>1, Zenon
      <3> QED
        BY <3>1, <3>2, <3>3
    <2> HIDE DEF d, l, r
    <2>4. (d \o l) \o r = d \o (l \o r)
      BY <2>3, Associative
    <2>5. /\ l \o r \in Seq(Byte) /\ Len(l \o r) = Len(l) + Len(r)
          /\ Len(d \o (l \o r)) = Len(d) + Len(l \o r)
          /\ \A j \in 1..Len(d) : (d \o (l \o r))[j] = d[j]
      BY <2>3, Bytes
    <2>6. Len(J[i]) > 0
      <3>1. Len(d) \in Nat /\ Len(r) \in Nat /\ Len(l) \in Nat
        BY <2>3
      <3> QED
        BY <2>2, <2>3, <2>4, <2>5, <3>1
    <2>7. J[i] # <<>>
      BY <2>6
    <2>8. i # 1 => J[i][1] = 46
      <3>1. i # 1 => 1 \in 1..Len(d)
        <4>1. 1 \in 1..1
          OBVIOUS
        <4> QED
          BY <2>3, <4>1, Zenon
      <3>2. J[i] = d \o (l \o r)
        BY <2>2, <2>4
      <3> QED
        BY <2>3, <2>5, <3>1, <3>2, Zenon
    <2> QED
      BY <2>2, <2>4, <2>7, <2>8 DEF d, l, r
  <1> QED
    BY <1>3, <1>4 DEF n, J, JoinedInSteps

\* Names of plain labels that are joined to the same bytes are the same name.
LEMMA JoinedApart ==
    ASSUME NEW m \in Seq(Seq(Byte)), NEW n \in Seq(Seq(Byte)),
           Plain(m), Plain(n),
           \A i \in 1..Len(m) : Len(m[i]) > 0,
           \A i \in 1..Len(n) : Len(n[i]) > 0,
           Joined(m) = Joined(n)
    PROVE  m = n
  <1> DEFINE M == Len(m)
             N == Len(n)
             J == JoinedUp(m)
             K == JoinedUp(n)
             Same(k) == k <= N + 1 /\ J[k] = K[k] =>
                          N = M /\ \A i \in k..M : m[i] = n[i]
             S == {k \in 1..(M + 1) : Same(k)}
  <1>1. /\ M \in Nat /\ N \in Nat
        /\ \A i \in 1..M : m[i] \in Seq(Byte) /\ Len(m[i]) > 0
        /\ \A i \in 1..N : n[i] \in Seq(Byte) /\ Len(n[i]) > 0
    OBVIOUS
  <1>2. /\ \A k \in 1..(M + 1) : J[k] = JoinFrom(J, m, k) /\ J[k] \in Seq(Byte)
        /\ \A k \in 1..(N + 1) : K[k] = JoinFrom(K, n, k) /\ K[k] \in Seq(Byte)
    BY JoinedBody, JoinedBytes
  <1>3. (\A i \in 1..M : DotFree(m[i])) /\ (\A i \in 1..N : DotFree(n[i]))
    <2>1. \A i \in 1..M : i \in DOMAIN m /\ DOMAIN m[i] = 1..Len(m[i])
      BY <1>1
    <2>2. \A i \in 1..N : i \in DOMAIN n /\ DOMAIN n[i] = 1..Len(n[i])
      BY <1>1
    <2> HIDE DEF M, N
    <2> QED
      BY <2>1, <2>2 DEF Plain, DotFree
  <1>4. J[1] = K[1]
    BY DEF Joined, JoinedUp
  <1> HIDE DEF M, N, J, K
  <1>5. /\ J[M + 1] = <<>>
        /\ \A k \in 1..M : J[k] = DotBefore(k) \o (m[k] \o J[k + 1])
        /\ \A k \in 1..M : J[k] # <<>> /\ (k # 1 => J[k][1] = 46)
    <2>1. JoinedInSteps(m)
      BY JoinedStep
    <2> QED
      BY <2>1, Zenon DEF JoinedInSteps, J, M
  <1>6. /\ K[N + 1] = <<>>
        /\ \A k \in 1..N : K[k] = DotBefore(k) \o (n[k] \o K[k + 1])
        /\ \A k \in 1..N : K[k] # <<>> /\ (k # 1 => K[k][1] = 46)
    <2>1. JoinedInSteps(n)
      BY JoinedStep
    <2> QED
      BY <2>1, Zenon DEF JoinedInSteps, K, N
  <1>7. ASSUME NEW k \in 1..(M + 1), \A j \in (k + 1)..(M + 1) : j \in S,
               k <= N + 1, J[k] = K[k]
        PROVE  N = M /\ \A i \in k..M : m[i] = n[i]
    <2>1. CASE k = M + 1
      <3>1. k \notin 1..N
        <4>1. K[k] = <<>>
          BY <1>5, <1>7, <2>1, Zenon
        <4> QED
          BY <1>6, <4>1, Zenon
      <3>2. N = M
        BY <1>1, <1>7, <2>1, <3>1
      <3> QED
        BY <1>1, <2>1, <3>2
    <2>2. CASE k # M + 1
      <3>1. k \in 1..M /\ k + 1 \in (k + 1)..(M + 1) /\ k \in Nat
            /\ k + 1 \in 1..(M + 1)
        BY <1>1, <2>2
      <3>2. k \in 1..N /\ k + 1 \in 1..(N + 1) /\ k + 1 <= N + 1
        <4>1. J[k] # <<>>
          BY <1>5, <3>1, Zenon
        <4>2. k # N + 1
          BY <1>6, <1>7, <4>1, Zenon
        <4> QED
          BY <1>1, <1>7, <3>1, <4>2
      <3> DEFINE s == m[k]
                 t == n[k]
                 u == J[k + 1]
                 v == K[k + 1]
                 d == DotBefore(k)
      <3>3. /\ s \in Seq(Byte) /\ t \in Seq(Byte)
            /\ u \in Seq(Byte) /\ v \in Seq(Byte) /\ d \in Seq(Byte)
        <4>1. s \in Seq(Byte) /\ t \in Seq(Byte)
          BY <1>1, <3>1, <3>2, Zenon
        <4>2. u \in Seq(Byte) /\ v \in Seq(Byte)
          BY <1>2, <3>1, <3>2, Zenon
        <4>3. d \in Seq(Byte)
          BY <3>1, DotIsBytes
        <4> QED
          BY <4>1, <4>2, <4>3
      <3>4. d \o (s \o u) = d \o (t \o v)
        <4>1. J[k] = d \o (s \o u) /\ K[k] = d \o (t \o v)
          BY <1>5, <1>6, <3>1, <3>2, Zenon
        <4> QED
          BY <1>7, <4>1, Zenon
      <3>5. DotFree(s) /\ DotFree(t)
        BY <1>3, <3>1, <3>2, Zenon
      <3>6. AtDot(u)
        <4>1. k + 1 = M + 1 \/ (k + 1 \in 1..M /\ k + 1 # 1)
          BY <1>1, <3>1
        <4> QED
          BY <1>5, <4>1, Zenon DEF AtDot
      <3>7. AtDot(v)
        <4>1. k + 1 = N + 1 \/ (k + 1 \in 1..N /\ k + 1 # 1)
          BY <1>1, <3>2
        <4> QED
          BY <1>6, <4>1, Zenon DEF AtDot
      <3>8. Same(k + 1)
        BY <1>7, <3>1
      <3> HIDE DEF s, t, u, v, d
      <3>9. s \o u = t \o v
        <4>1. s \o u \in Seq(Byte) /\ t \o v \in Seq(Byte)
          BY <3>3, Bytes
        <4> QED
          BY <3>3, <3>4, <4>1, Cancel, Zenon
      <3>10. s = t /\ u = v
        BY <3>3, <3>5, <3>6, <3>7, <3>9, UpToDot
      <3>11. N = M /\ \A i \in (k + 1)..M : m[i] = n[i]
        BY <3>2, <3>8, <3>10 DEF u, v
      <3>12. m[k] = n[k]
        BY <3>10 DEF s, t
      <3>13. \A i \in k..M : i = k \/ i \in (k + 1)..M
        BY <1>1, <3>1
      <3> QED
        BY <3>11, <3>12, <3>13
    <2> QED
      BY <2>1, <2>2
  <1>8. ASSUME NEW k \in 1..(M + 1), \A j \in (k + 1)..(M + 1) : j \in S
        PROVE  k \in S
    BY <1>7, <1>8
  <1>9. 1 \in S
    <2> HIDE DEF S
    <2>1. 1 \in 1..(M + 1)
      BY <1>1
    <2> QED
      BY <1>1, <1>8, <2>1, Downward
  <1>10. N = M /\ \A i \in 1..M : m[i] = n[i]
    BY <1>1, <1>4, <1>9
  <1> QED
    BY <1>10, SeqEqual DEF M, N

-----------------------------------------------------------------------------
(* parse_query reads nothing else than a question                          *)

\* Whatever parse_query accepts, of any datagram, begins with the question it
\* takes it for: its bytes are those of the labels the name looked up is made
\* from, and if those are plain, that name is them, joined by dots.
THEOREM NothingElseReadHolds == NothingElseRead
  <1> SUFFICES ASSUME NEW d \in Datagrams, ParseQuery(d) # NoQuery
               PROVE  LET query == ParseQuery(d)
                          labels == ReadName(d.body).labels
                      IN  /\ ~ d.short /\ d.qdcount # 0 /\ query.id = d.id
                          /\ query.question = Encode(labels, query.qtype)
                          /\ IsPrefixOf(query.question, d.body)
                          /\ \A i \in DOMAIN labels : Len(labels[i]) \in 1..63
                          /\ Plain(labels) => query.qname = Joined(labels)
    BY DEF NothingElseRead
  <1> DEFINE query == ParseQuery(d)
             b == d.body
             n == Len(b)
             labels == ReadName(b).labels
             end == ReadName(b).end
             last == end + 4
             qtype == SubSeq(b, last - 3, last - 2)
             name == SubSeq(b, 1, end)
  <1>1. b \in Seq(Byte) /\ n \in Nat
    BY BodyAssumption DEF Datagrams
  <1>2. /\ ~ d.short /\ d.qdcount # 0
        /\ end # 0 /\ ~ last > n
        /\ SubSeq(b, last - 1, last) = QCLASS_IN
    BY DEF ParseQuery
  <1>3. query = [id |-> d.id, question |-> SubSeq(b, 1, last),
                 qname |-> QName(labels), qtype |-> qtype]
    BY DEF ParseQuery
  <1>4. /\ labels \in Seq(Seq(Byte))
        /\ end \in 1..n
        /\ EncodeName(labels) = name
        /\ \A i \in 1..Len(labels) : Len(labels[i]) \in 1..63
    <2>1. 1 \in 1..(Len(b) + 1)
      BY <1>1
    <2>2. /\ labels \in Seq(Seq(Byte))
          /\ end # 0 =>
               /\ end \in 1..n
               /\ EncodeName(labels) = name
               /\ \A i \in 1..Len(labels) : Len(labels[i]) \in 1..63
      BY <1>1, <2>1, ReadSound, ReadNameIsRead
    <2> QED
      BY <1>2, <2>2
  <1> HIDE DEF b, query, labels, end
  <1>5. /\ last - 3 = end + 1 /\ last - 2 = end + 2 /\ last - 1 = end + 2 + 1
        /\ last \in 1..n
    BY <1>1, <1>2, <1>4
  <1>6. SubSeq(b, 1, last) = (name \o qtype) \o QCLASS_IN
    <2> DEFINE mid == end + 2
    <2>1. /\ 1 \in 1..(Len(b) + 1) /\ end \in (1 - 1)..Len(b)
          /\ mid \in end..Len(b) /\ mid \in (1 - 1)..Len(b)
          /\ last \in mid..Len(b)
      BY <1>1, <1>4, <1>5
    <2> HIDE DEF mid, last
    <2>2. SubSeq(b, 1, end) \o SubSeq(b, end + 1, mid) = SubSeq(b, 1, mid)
      BY <1>1, <2>1, ConcatAdjacentSubSeq
    <2>3. SubSeq(b, 1, mid) \o SubSeq(b, mid + 1, last) = SubSeq(b, 1, last)
      BY <1>1, <2>1, ConcatAdjacentSubSeq
    <2>4. qtype = SubSeq(b, end + 1, mid) /\ QCLASS_IN = SubSeq(b, mid + 1, last)
      BY <1>2, <1>5 DEF mid
    <2> QED
      BY <2>2, <2>3, <2>4
  <1> HIDE DEF name, qtype
  <1>7. query.question = Encode(labels, query.qtype)
    BY <1>3, <1>4, <1>6 DEF Encode
  <1>8. IsPrefixOf(query.question, b)
    <2>1. 1 \in 1..(Len(b) + 1) /\ last \in (1 - 1)..Len(b) /\ last - 1 + 1 = last
      BY <1>1, <1>5
    <2> HIDE DEF last
    <2>2. Len(SubSeq(b, 1, last)) = last
      BY <1>1, <2>1, Part
    <2> QED
      BY <1>1, <1>3, <1>5, <2>2 DEF IsPrefixOf
  <1>9. \A i \in DOMAIN labels : Len(labels[i]) \in 1..63
    BY <1>4
  <1>10. Plain(labels) => query.qname = Joined(labels)
    BY <1>3, <1>4, PlainKept
  <1>11. ~ d.short /\ d.qdcount # 0 /\ query.id = d.id
    BY <1>2, <1>3
  <1> QED
    BY <1>7, <1>8, <1>9, <1>10, <1>11, Zenon DEF query, b, labels

-----------------------------------------------------------------------------
(* parse_query reads every question                                        *)

\* Where a body holds the code of the labels from the i-th on, those labels
\* are read, up to the end of the code.
LEMMA EncodedRead ==
    ASSUME NEW b \in Seq(Byte), NEW labels \in Seq(Seq(Byte)),
           \A i \in 1..Len(labels) : Len(labels[i]) \in 1..63,
           NEW i \in 1..(Len(labels) + 1), NEW p \in Nat,
           p + Len(Encoded(labels)[i]) <= Len(b),
           \A j \in 1..Len(Encoded(labels)[i]) : b[p + j] = Encoded(labels)[i][j]
    PROVE  Read(b)[p + 1] = [labels |-> SubSeq(labels, i, Len(labels)),
                             end |-> p + Len(Encoded(labels)[i])]
  <1> DEFINE n == Len(labels)
             m == Len(b)
             R == Read(b)
             E == Encoded(labels)
             Held(k, q) == /\ q + Len(E[k]) <= m
                           /\ \A j \in 1..Len(E[k]) : b[q + j] = E[k][j]
             Result(k, q) == [labels |-> SubSeq(labels, k, n), end |-> q + Len(E[k])]
             S == {k \in 1..(n + 1) :
                     \A q \in Nat : Held(k, q) => R[q + 1] = Result(k, q)}
  <1>1. n \in Nat /\ m \in Nat
    OBVIOUS
  <1>2. \A k \in 1..(n + 1) :
        /\ E[k] = EncodeFrom(E, labels, k)
        /\ E[k] \in Seq(Byte) /\ Len(E[k]) \in Nat \ {0}
    BY EncodedAt, EncodedBytes
  <1>3. \A k \in 1..(m + 1) : R[k] = NameAt(R, b, k)
    BY ReadAt
  <1>4. \A k \in 1..n : labels[k] \in Seq(Byte) /\ Len(labels[k]) \in 1..63
    OBVIOUS
  <1> HIDE DEF n, m, R, E
  <1>5. ASSUME NEW k \in 1..(n + 1), \A j \in (k + 1)..(n + 1) : j \in S,
               NEW q \in Nat, Held(k, q)
        PROVE  R[q + 1] = Result(k, q)
    <2>1. CASE k > n
      <3>1. E[k] = <<0>>
        BY <1>2, <2>1 DEF EncodeFrom, n
      <3>2. Len(E[k]) = 1 /\ E[k][1] = 0
        BY <3>1
      <3>3. q + 1 <= m /\ b[q + 1] = 0
        BY <1>1, <1>5, <3>2
      <3>4. q + 1 \in 1..(m + 1) /\ ~ q + 1 > Len(b)
        BY <1>1, <3>3 DEF m
      <3>5. R[q + 1] = [labels |-> <<>>, end |-> q + 1]
        BY <1>3, <3>3, <3>4 DEF NameAt
      <3>6. SubSeq(labels, k, n) = <<>>
        <4>1. k \in Int /\ n \in Int /\ n < k
          BY <1>1, <2>1
        <4> QED
          BY <4>1, SubSeqEmpty
      <3> QED
        BY <3>2, <3>5, <3>6
    <2>2. CASE ~ k > n
      <3> DEFINE l == labels[k]
                 tail == E[k + 1]
                 code == E[k]
                 len == Len(l)
                 N == Len(tail)
                 s == q + 1 + len
      <3>1. k \in 1..n /\ k + 1 \in (k + 1)..(n + 1) /\ k + 1 \in 1..(n + 1)
        BY <1>1, <2>2
      <3>2. code = <<len>> \o l \o tail
        BY <1>2, <2>2 DEF EncodeFrom, n
      <3>3. l \in Seq(Byte) /\ len \in 1..63 /\ tail \in Seq(Byte) /\ N \in Nat \ {0}
        BY <1>2, <1>4, <3>1
      <3> HIDE DEF l, tail, code
      <3>4. /\ Len(code) = 1 + len + N
            /\ code[1] = len
            /\ \A j \in 1..len : code[1 + j] = l[j]
            /\ \A j \in 1..N : code[1 + len + j] = tail[j]
        BY <3>2, <3>3, LabelCode
      <3>5. q + Len(code) <= m /\ \A j \in 1..Len(code) : b[q + j] = code[j]
        BY <1>5 DEF code
      <3> HIDE DEF len, N
      <3>6. /\ q + 1 + len + N <= m
            /\ \A j \in 1..(1 + len + N) : b[q + j] = code[j]
        <4>1. q + Len(code) = q + 1 + len + N
          <5> DEFINE whole == Len(code)
          <5>1. whole = 1 + len + N /\ len \in Nat /\ N \in Nat
            BY <3>3, <3>4
          <5> HIDE DEF whole, S, Held
          <5>2. q + whole = q + 1 + len + N
            BY <5>1
          <5> QED
            BY <5>2 DEF whole
        <4> HIDE DEF S, Held
        <4> QED
          BY <3>4, <3>5, <4>1
      <3>7. b[q + 1] = len
        <4>1. 1 \in 1..(1 + len + N)
          BY <3>3
        <4> QED
          BY <3>4, <3>6, <4>1
      <3>8. \A j \in 1..len : b[q + 1 + j] = l[j]
        <4> SUFFICES ASSUME NEW j \in 1..len PROVE b[q + 1 + j] = l[j]
          OBVIOUS
        <4>1. 1 + j \in 1..(1 + len + N) /\ q + (1 + j) = q + 1 + j
          BY <3>3
        <4>2. b[q + (1 + j)] = code[1 + j]
          BY <3>6, <4>1
        <4> QED
          BY <3>4, <4>1, <4>2
      <3>9. Held(k + 1, s)
        <4>1. ASSUME NEW j \in 1..N PROVE b[s + j] = tail[j]
          <5>1. 1 + len + j \in 1..(1 + len + N) /\ q + (1 + len + j) = s + j
            BY <3>3
          <5>2. b[q + (1 + len + j)] = code[1 + len + j]
            BY <3>6, <5>1
          <5> QED
            BY <3>4, <5>1, <5>2
        <4>2. s + N <= m
          BY <3>6
        <4> HIDE DEF s
        <4> QED
          BY <4>1, <4>2 DEF N, tail
      <3>10. s \in Nat /\ s + N # 0 /\ s + N = q + Len(code)
        BY <3>3, <3>4
      <3>11. R[s + 1] = [labels |-> SubSeq(labels, k + 1, n), end |-> s + N]
        <4> HIDE DEF Held
        <4> HIDE DEF s
        <4> QED
          BY <1>5, <3>1, <3>9, <3>10 DEF N, tail
      <3>12. SubSeq(b, q + 2, q + 1 + len) = l
        <4> DEFINE lo == q + 2
                   hi == q + 1 + len
        <4>1. /\ lo \in 1..(m + 1) /\ hi \in (lo - 1)..m /\ hi - lo + 1 = len
              /\ \A j \in 1..len : lo + j - 1 = q + 1 + j
          BY <1>1, <3>3, <3>6
        <4> HIDE DEF lo, hi
        <4>2. /\ SubSeq(b, lo, hi) \in Seq(Byte)
              /\ Len(SubSeq(b, lo, hi)) = len
              /\ \A j \in 1..len : SubSeq(b, lo, hi)[j] = b[lo + j - 1]
          BY <4>1, Part DEF m
        <4>3. \A j \in 1..len : SubSeq(b, lo, hi)[j] = l[j]
          BY <3>8, <4>1, <4>2
        <4>4. SubSeq(b, lo, hi) = l
          BY <3>3, <4>2, <4>3, SeqEqual DEF len
        <4> QED
          BY <4>4 DEF lo, hi
      <3>13. R[q + 1] = [labels |-> <<l>> \o SubSeq(labels, k + 1, n), end |-> s + N]
        <4>1. q + 1 \in 1..(m + 1) /\ ~ q + 1 > m /\ ~ q + 1 + len > m
          BY <1>1, <3>3, <3>6
        <4>2. len # 0 /\ ~ Compressed(len)
          BY <3>3 DEF Compressed
        <4>3. R[q + 1] = NameAt(R, b, q + 1)
          BY <1>3, <4>1
        <4>4. q + 1 + 1 = q + 2
          OBVIOUS
        <4>5. NameAt(R, b, q + 1) =
                LET rest == R[s + 1]
                IN  IF rest.end = 0 THEN Unreadable
                    ELSE [labels |-> <<SubSeq(b, q + 2, q + 1 + len)>> \o rest.labels,
                          end |-> rest.end]
          BY <3>7, <4>1, <4>2, <4>4 DEF NameAt, m
        <4>6. /\ R[s + 1].end = s + N /\ R[s + 1].end # 0
              /\ R[s + 1].labels = SubSeq(labels, k + 1, n)
          <5> DEFINE sum == s + N
                     names == SubSeq(labels, k + 1, n)
                     result == R[s + 1]
          <5> HIDE DEF sum, names, result, s, S, Held, Result
          <5>1. sum # 0 /\ result = [labels |-> names, end |-> sum]
            BY <3>10, <3>11 DEF sum, names, result
          <5>2. result.end = sum /\ result.end # 0 /\ result.labels = names
            BY <5>1
          <5> QED
            BY <5>2 DEF sum, names, result
        <4> HIDE DEF s, S, Held, Result
        <4>7. NameAt(R, b, q + 1) =
                [labels |-> <<SubSeq(b, q + 2, q + 1 + len)>> \o R[s + 1].labels,
                 end |-> R[s + 1].end]
          BY <4>5, <4>6
        <4> QED
          BY <3>12, <4>3, <4>6, <4>7, Zenon
      <3>14. <<l>> \o SubSeq(labels, k + 1, n) = SubSeq(labels, k, n)
        <4>1. k \in 1..Len(labels) /\ n \in k..Len(labels)
          BY <1>1, <3>1 DEF n
        <4>2. SubSeq(labels, k, n) = <<labels[k]>> \o SubSeq(labels, k + 1, n)
          BY <4>1, SubSeqRecursiveFirst
        <4> QED
          BY <4>2 DEF l
      <3> QED
        BY <3>10, <3>13, <3>14 DEF code
    <2> QED
      BY <2>1, <2>2
  <1>6. \A k \in 1..(n + 1) : k \in S
    <2>1. ASSUME NEW k \in 1..(n + 1), \A j \in (k + 1)..(n + 1) : j \in S
          PROVE  k \in S
      BY <1>5, <2>1
    <2> HIDE DEF S
    <2> QED
      BY <1>1, <2>1, Downward
  <1>7. i \in S /\ Held(i, p)
    BY <1>6 DEF n, m, E
  <1> QED
    BY <1>7 DEF R, E, n

\* A question and what follows it in a body.
Asked(name, qtype, class) == (name \o qtype) \o class
Body(name, qtype, class, rest) == Asked(name, qtype, class) \o rest

\* Where the parts of a question are in the bytes b it begins, N of them its
\* name's and R of them behind it.
QuestionIn(b, name, qtype, class, N, R) ==
    /\ b \in Seq(Byte)
    /\ Len(b) = N + 4 + R
    /\ SubSeq(b, 1, N + 4) = Asked(name, qtype, class)
    /\ \A j \in 1..N : b[j] = name[j]
    /\ SubSeq(b, N + 1, N + 2) = qtype
    /\ SubSeq(b, N + 3, N + 4) = class

\* The bytes of a body that holds a question.
LEMMA QuestionBytes ==
    ASSUME NEW name \in Seq(Byte), NEW qtype \in Seq(Byte), NEW class \in Seq(Byte),
           NEW rest \in Seq(Byte), Len(qtype) = 2, Len(class) = 2,
           NEW N \in Nat, N = Len(name), NEW R \in Nat, R = Len(rest)
    PROVE  QuestionIn(Body(name, qtype, class, rest), name, qtype, class, N, R)
  <1> DEFINE front == name \o qtype
             question == Asked(name, qtype, class)
             b == Body(name, qtype, class, rest)
  <1>1. N \in Nat /\ R \in Nat
    OBVIOUS
  <1>2. /\ front \in Seq(Byte)
        /\ Len(front) = N + 2
        /\ \A j \in 1..(N + 2) : front[j] = IF j <= N THEN name[j] ELSE qtype[j - N]
    <2>1. /\ front \in Seq(Byte)
          /\ Len(front) = N + Len(qtype)
          /\ \A j \in 1..(N + Len(qtype)) :
               front[j] = IF j <= N THEN name[j] ELSE qtype[j - N]
      BY ConcatProperties
    <2> HIDE DEF front
    <2> QED
      BY <2>1
  <1> HIDE DEF front
  <1>3. /\ question \in Seq(Byte)
        /\ Len(question) = N + 4
        /\ \A j \in 1..(N + 4) :
             question[j] = IF j <= N + 2 THEN front[j] ELSE class[j - (N + 2)]
    <2>1. /\ question \in Seq(Byte)
          /\ Len(question) = Len(front) + Len(class)
          /\ \A j \in 1..(Len(front) + Len(class)) :
               question[j] = IF j <= Len(front) THEN front[j] ELSE class[j - Len(front)]
      <3>1. question = front \o class
        BY DEF Asked, front
      <3>2. front \in Seq(Byte)
        BY <1>2
      <3> HIDE DEF question
      <3> QED
        BY <3>1, <3>2, ConcatProperties
    <2>2. Len(front) + Len(class) = N + 4
      BY <1>1, <1>2
    <2> HIDE DEF question
    <2> QED
      BY <1>2, <2>1, <2>2
  <1> HIDE DEF question
  <1>4. /\ b \in Seq(Byte)
        /\ Len(b) = N + 4 + R
        /\ \A j \in 1..(N + 4 + R) :
             b[j] = IF j <= N + 4 THEN question[j] ELSE rest[j - (N + 4)]
    <2>1. /\ b \in Seq(Byte)
          /\ Len(b) = Len(question) + Len(rest)
          /\ \A j \in 1..(Len(question) + Len(rest)) :
               b[j] = IF j <= Len(question) THEN question[j] ELSE rest[j - Len(question)]
      <3>1. question \in Seq(Byte)
        BY <1>3
      <3> QED
        BY <3>1, ConcatProperties DEF Body, question
    <2> HIDE DEF b
    <2>2. Len(question) = N + 4 /\ Len(rest) = R
      BY <1>3
    <2> QED
      BY <2>1, <2>2
  <1> HIDE DEF b
  <1>5. \A j \in 1..(N + 4) : b[j] = question[j]
    BY <1>1, <1>4
  <1>6. \A j \in 1..(N + 2) : b[j] = front[j]
    <2> SUFFICES ASSUME NEW j \in 1..(N + 2) PROVE b[j] = front[j]
      OBVIOUS
    <2>1. j \in 1..(N + 4) /\ j <= N + 2
      BY <1>1
    <2>2. question[j] = front[j]
      BY <1>3, <2>1
    <2>3. b[j] = question[j]
      BY <1>5, <2>1
    <2> QED
      BY <2>2, <2>3
  <1>7. \A j \in 1..N : b[j] = name[j]
    <2> SUFFICES ASSUME NEW j \in 1..N PROVE b[j] = name[j]
      OBVIOUS
    <2>1. j \in 1..(N + 2) /\ j <= N
      BY <1>1
    <2>2. front[j] = name[j]
      BY <1>2, <2>1
    <2>3. b[j] = front[j]
      BY <1>6, <2>1
    <2> QED
      BY <2>2, <2>3
  <1>8. b[N + 1] = qtype[1] /\ b[N + 2] = qtype[2]
    <2> DEFINE one == N + 1
               two == N + 2
    <2>1. /\ one \in 1..(N + 2) /\ two \in 1..(N + 2) /\ ~ one <= N /\ ~ two <= N
          /\ one - N = 1 /\ two - N = 2
      BY <1>1
    <2> HIDE DEF one, two
    <2>2. b[one] = qtype[1] /\ b[two] = qtype[2]
      BY <1>2, <1>6, <2>1
    <2> QED
      BY <2>2 DEF one, two
  <1>9. b[N + 3] = class[1] /\ b[N + 4] = class[2]
    <2> DEFINE one == N + 3
               two == N + 4
    <2>1. /\ one \in 1..(N + 4) /\ two \in 1..(N + 4)
          /\ ~ one <= N + 2 /\ ~ two <= N + 2
          /\ one - (N + 2) = 1 /\ two - (N + 2) = 2
      BY <1>1
    <2> HIDE DEF one, two
    <2>2. b[one] = class[1] /\ b[two] = class[2]
      BY <1>3, <1>5, <2>1
    <2> QED
      BY <2>2 DEF one, two
  <1>10. SubSeq(b, 1, N + 4) = question
    <2> DEFINE hi == N + 4
    <2>1. /\ 1 \in 1..(Len(b) + 1) /\ hi \in (1 - 1)..Len(b) /\ hi - 1 + 1 = hi
          /\ hi \in Nat /\ \A j \in 1..hi : 1 + j - 1 = j
      BY <1>1, <1>4
    <2>2. Len(question) = hi /\ \A j \in 1..hi : b[j] = question[j]
      BY <1>3, <1>5
    <2> HIDE DEF hi
    <2>3. /\ SubSeq(b, 1, hi) \in Seq(Byte) /\ Len(SubSeq(b, 1, hi)) = hi
          /\ \A j \in 1..hi : SubSeq(b, 1, hi)[j] = b[1 + j - 1]
      BY <1>4, <2>1, Part
    <2>4. \A j \in 1..hi : SubSeq(b, 1, hi)[j] = question[j]
      BY <2>1, <2>2, <2>3
    <2>5. SubSeq(b, 1, hi) = question
      BY <1>3, <2>2, <2>3, <2>4, SeqEqual
    <2> QED
      BY <2>5 DEF hi
  <1>11. ASSUME NEW lo \in 1..(N + 3), NEW s \in Seq(Byte), Len(s) = 2,
                b[lo] = s[1], b[lo + 1] = s[2]
         PROVE  SubSeq(b, lo, lo + 1) = s
    <2> DEFINE hi == lo + 1
    <2>1. /\ lo \in 1..(Len(b) + 1) /\ hi \in (lo - 1)..Len(b) /\ hi - lo + 1 = 2
          /\ lo + 1 - 1 = lo /\ lo + 2 - 1 = hi
      BY <1>1, <1>4
    <2>2. b[lo] = s[1] /\ b[hi] = s[2]
      BY <1>11
    <2> HIDE DEF hi
    <2> DEFINE w == SubSeq(b, lo, hi)
    <2>3. w \in Seq(Byte) /\ Len(w) = 2 /\ \A j \in 1..2 : w[j] = b[lo + j - 1]
      BY <1>4, <2>1, Part
    <2> HIDE DEF w
    <2>4. w[1] = s[1] /\ w[2] = s[2]
      BY <2>1, <2>2, <2>3
    <2>5. \A j \in 1..2 : w[j] = s[j]
      BY <2>4
    <2>6. w = s
      BY <1>11, <2>3, <2>5, SeqEqual
    <2> QED
      BY <2>6 DEF w, hi
  <1>12. SubSeq(b, N + 1, N + 2) = qtype
    <2> DEFINE lo == N + 1
    <2>1. lo \in 1..(N + 3) /\ lo + 1 = N + 2
      BY <1>1
    <2> HIDE DEF lo
    <2>2. b[lo] = qtype[1] /\ b[lo + 1] = qtype[2]
      BY <1>8, <2>1 DEF lo
    <2> QED
      BY <1>11, <2>1, <2>2 DEF lo
  <1>13. SubSeq(b, N + 3, N + 4) = class
    <2> DEFINE lo == N + 3
    <2>1. lo \in 1..(N + 3) /\ lo + 1 = N + 4
      BY <1>1
    <2> HIDE DEF lo
    <2>2. b[lo] = class[1] /\ b[lo + 1] = class[2]
      BY <1>9, <2>1 DEF lo
    <2> QED
      BY <1>11, <2>1, <2>2 DEF lo
  <1> QED
    BY <1>4, <1>7, <1>10, <1>12, <1>13 DEF b, question, QuestionIn

\* A question that follows the header is read as it is, whatever follows it:
\* parse_query returns the type it was encoded from, its bytes for the answer
\* to echo, and for the lookup its labels converted and joined; a plain label
\* is converted to itself.  This goes for names of any number of labels.
THEOREM QuestionRead ==
    ASSUME NEW labels \in Seq(Seq(Byte)),
           \A i \in 1..Len(labels) : Len(labels[i]) \in 1..63,
           NEW qtype \in Seq(Byte), Len(qtype) = 2,
           NEW rest \in Seq(Byte), NEW id
    PROVE  LET question == Encode(labels, qtype)
           IN  /\ ParseQuery([short |-> FALSE, id |-> id, qdcount |-> 1,
                              body |-> question \o rest])
                    = [id |-> id, question |-> question,
                       qname |-> QName(labels), qtype |-> qtype]
               /\ Plain(labels) => QName(labels) = Joined(labels)
  <1> DEFINE name == EncodeName(labels)
             class == QCLASS_IN
             asked == Asked(name, qtype, class)
             b == Body(name, qtype, class, rest)
             N == Len(name)
             R == Len(rest)
  <1>1. class \in Seq(Byte) /\ Len(class) = 2 /\ R \in Nat
    <2>1. 0 \in Byte /\ 1 \in Byte
      BY DEF Byte
    <2>2. class \in Seq(Byte) /\ Len(class) = 2
      BY <2>1 DEF QCLASS_IN
    <2> QED
      BY <2>2
  <1>2. name = Encoded(labels)[1] /\ name \in Seq(Byte) /\ N \in Nat \ {0}
    <2>1. 1 \in 1..(Len(labels) + 1)
      OBVIOUS
    <2> QED
      BY <2>1, EncodedBytes, EncodeNameIsEncoded
  <1> HIDE DEF class, name
  <1>3. /\ b \in Seq(Byte)
        /\ Len(b) = N + 4 + R
        /\ SubSeq(b, 1, N + 4) = asked
        /\ \A j \in 1..N : b[j] = name[j]
        /\ SubSeq(b, N + 1, N + 2) = qtype
        /\ SubSeq(b, N + 3, N + 4) = class
    <2>1. /\ name \in Seq(Byte) /\ qtype \in Seq(Byte) /\ class \in Seq(Byte)
          /\ rest \in Seq(Byte) /\ Len(qtype) = 2 /\ Len(class) = 2
      BY <1>1, <1>2
    <2>2. N \in Nat /\ N = Len(name) /\ R \in Nat /\ R = Len(rest)
      BY <1>1, <1>2
    <2> HIDE DEF N, R
    <2>3. QuestionIn(b, name, qtype, class, N, R)
      BY <2>1, <2>2, QuestionBytes
    <2> QED
      BY <2>3 DEF QuestionIn
  <1> HIDE DEF asked, b, N, R
  <1>4. Read(b)[1] = [labels |-> labels, end |-> N]
    <2>1. /\ 1 \in 1..(Len(labels) + 1) /\ 0 \in Nat /\ 0 + N <= Len(b) /\ 0 + 1 = 1
          /\ \A j \in 1..N : b[0 + j] = name[j]
          /\ 0 + N = N
      BY <1>1, <1>2, <1>3
    <2>2. Read(b)[0 + 1] = [labels |-> SubSeq(labels, 1, Len(labels)), end |-> 0 + N]
      <3>1. /\ labels \in Seq(Seq(Byte))
            /\ \A i \in 1..Len(labels) : Len(labels[i]) \in 1..63
        OBVIOUS
      <3>2. /\ 0 + Len(Encoded(labels)[1]) <= Len(b)
            /\ \A j \in 1..Len(Encoded(labels)[1]) : b[0 + j] = Encoded(labels)[1][j]
            /\ N = Len(Encoded(labels)[1])
        BY <1>2, <2>1 DEF N
      <3>3. b \in Seq(Byte) /\ 1 \in 1..(Len(labels) + 1) /\ 0 \in Nat
        BY <1>3, <2>1
      <3> HIDE DEF N
      <3>4. Read(b)[0 + 1] = [labels |-> SubSeq(labels, 1, Len(labels)),
                              end |-> 0 + Len(Encoded(labels)[1])]
        BY <3>1, <3>2, <3>3, EncodedRead
      <3> QED
        BY <3>2, <3>4
    <2>3. SubSeq(labels, 1, Len(labels)) = labels
      BY SubSeqFull
    <2> QED
      BY <2>1, <2>2, <2>3
  <1> DEFINE d == [short |-> FALSE, id |-> id, qdcount |-> 1, body |-> b]
  <1>5. ParseQuery(d) = [id |-> id, question |-> asked,
                         qname |-> QName(labels), qtype |-> qtype]
    <2> DEFINE last == N + 4
    <2>1. /\ last - 1 = N + 3 /\ last - 3 = N + 1 /\ last - 2 = N + 2
          /\ ~ last > Len(b) /\ N # 0
      BY <1>1, <1>2, <1>3
    <2>2. ReadName(b).labels = labels /\ ReadName(b).end = N
      BY <1>4, ReadNameIsRead
    <2>3. d.body = b /\ d.id = id /\ ~ d.short /\ d.qdcount # 0
      OBVIOUS
    <2> HIDE DEF d, last
    <2>4. /\ SubSeq(b, last - 1, last) = QCLASS_IN
          /\ SubSeq(b, 1, last) = asked
          /\ SubSeq(b, last - 3, last - 2) = qtype
      BY <1>3, <2>1 DEF last, class
    <2> QED
      BY <2>1, <2>2, <2>3, <2>4 DEF ParseQuery, last
  <1>6. Plain(labels) => QName(labels) = Joined(labels)
    BY PlainKept
  <1> QED
    BY <1>5, <1>6 DEF d, b, asked, Asked, Body, name, class, Encode

\* Plain names that are looked up as the same name are the same name, whatever
\* the number of their labels: of these, the name looked up is the one asked
\* for.
THEOREM PlainNamesApart ==
    ASSUME NEW m \in Seq(Seq(Byte)), NEW n \in Seq(Seq(Byte)),
           Plain(m), Plain(n),
           \A i \in 1..Len(m) : Len(m[i]) \in 1..63,
           \A i \in 1..Len(n) : Len(n[i]) \in 1..63,
           QName(m) = QName(n)
    PROVE  m = n
  <1>1. \A x \in 1..63 : x > 0
    OBVIOUS
  <1>2. /\ \A i \in 1..Len(m) : Len(m[i]) > 0
        /\ \A i \in 1..Len(n) : Len(n[i]) > 0
    BY <1>1, Zenon
  <1>3. QName(m) = Joined(m) /\ QName(n) = Joined(n)
    BY PlainKept
  <1> QED
    BY <1>2, <1>3, JoinedApart

\* The names of the model are sequences of labels that are not empty.
LEMMA NamesAreLabels ==
    ASSUME NEW labels \in Names
    PROVE  /\ labels \in Seq(Seq(Byte))
           /\ \A i \in 1..Len(labels) : Len(labels[i]) \in 1..63
  <1>1. PICK n \in 0..2 : labels \in [1..n -> Labels]
    BY DEF Names
  <1>2. labels \in Seq(Labels) /\ Len(labels) = n
    BY <1>1
  <1>3. \A i \in 1..Len(labels) : labels[i] \in Labels
    BY <1>2
  <1>4. \A i \in 1..Len(labels) : labels[i] \in Seq(Byte) /\ Len(labels[i]) \in 1..63
    BY <1>3, BodyAssumption
  <1>5. labels \in [1..Len(labels) -> Seq(Byte)] /\ Len(labels) \in Nat
    BY <1>2, <1>4
  <1> QED
    BY <1>4, <1>5

\* So are the questions of the model's labels.
THEOREM QuestionsReadHolds == QuestionsRead
  <1> SUFFICES ASSUME NEW q \in Questions
               PROVE  LET question == Encode(q.labels, q.qtype)
                      IN  ParseQuery([short |-> FALSE, id |-> q.id, qdcount |-> 1,
                                      body |-> question \o q.rest])
                          = [id |-> q.id, question |-> question,
                             qname |-> QName(q.labels), qtype |-> q.qtype]
    BY DEF QuestionsRead
  <1> DEFINE labels == q.labels
             qtype == q.qtype
             rest == q.rest
  <1>1. /\ labels \in Seq(Seq(Byte))
        /\ \A i \in 1..Len(labels) : Len(labels[i]) \in 1..63
    <2>1. labels \in Names
      BY DEF Questions
    <2> HIDE DEF labels
    <2> QED
      BY <2>1, NamesAreLabels
  <1>2. qtype \in Seq(Byte) /\ Len(qtype) = 2 /\ rest \in Seq(Byte)
    <2>1. 0 \in Byte /\ 1 \in Byte /\ 2 \in Byte /\ 28 \in Byte /\ 41 \in Byte
      BY DEF Byte
    <2>2. qtype \in {<<0, 1>>, <<0, 28>>, <<0, 2>>}
      BY DEF Questions, QTYPE_A, QTYPE_AAAA
    <2>3. rest \in {<<>>, <<0>>, <<0, 0, 41>>}
      BY DEF Questions
    <2> HIDE DEF qtype, rest
    <2>4. ASSUME NEW x \in Byte, NEW y \in Byte
          PROVE  <<x, y>> \in Seq(Byte) /\ Len(<<x, y>>) = 2
      OBVIOUS
    <2>5. qtype \in Seq(Byte) /\ Len(qtype) = 2
      BY <2>1, <2>2, <2>4, Zenon
    <2>6. rest \in Seq(Byte)
      <3>1. ASSUME NEW x \in Byte, NEW y \in Byte, NEW z \in Byte
            PROVE  <<>> \in Seq(Byte) /\ <<x>> \in Seq(Byte) /\ <<x, y, z>> \in Seq(Byte)
        OBVIOUS
      <3>2. <<>> \in Seq(Byte) /\ <<0>> \in Seq(Byte) /\ <<0, 0, 41>> \in Seq(Byte)
        BY <2>1, <3>1, Zenon
      <3> QED
        BY <2>3, <3>2
    <2> QED
      BY <2>5, <2>6
  <1> HIDE DEF labels, qtype, rest
  <1>3. LET question == Encode(labels, qtype)
        IN  ParseQuery([short |-> FALSE, id |-> q.id, qdcount |-> 1,
                        body |-> question \o rest])
            = [id |-> q.id, question |-> question, qname |-> QName(labels),
               qtype |-> qtype]
    BY <1>1, <1>2, QuestionRead
  <1> QED
    BY <1>3 DEF labels, qtype, rest

\* So do the names of the model's labels differ when they are looked up.
THEOREM NamesApartHolds == NamesApart
  <1> SUFFICES ASSUME NEW m \in Names, NEW n \in Names,
                      Plain(m), Plain(n), QName(m) = QName(n)
               PROVE  m = n
    BY DEF NamesApart
  <1>1. /\ m \in Seq(Seq(Byte)) /\ n \in Seq(Seq(Byte))
        /\ \A i \in 1..Len(m) : Len(m[i]) \in 1..63
        /\ \A i \in 1..Len(n) : Len(n[i]) \in 1..63
    BY NamesAreLabels
  <1> QED
    BY <1>1, PlainNamesApart
=============================================================================
