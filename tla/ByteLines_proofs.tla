---------------------------- MODULE ByteLines_proofs ----------------------------
(* Proofs about the two ways of a byte line to keep messages apart: whatever *)
(* the two ends write and read at once, each message is read whole, once and *)
(* in the order it was sent, over TCP and in frames.                         *)
EXTENDS StreamFraming, TcpTransport, SequenceTheorems, FiniteSetTheorems,
        WellFoundedInduction, TLAPS

(* Induction on the natural numbers, with a set for the property.            *)
LEMMA CountUp ==
    ASSUME NEW S, 0 \in S, \A n \in Nat : n \in S => n + 1 \in S
    PROVE  Nat \subseteq S
<1> SUFFICES ASSUME NEW bad \in Nat, bad \notin S PROVE FALSE
  OBVIOUS
<1> DEFINE R == StrictSubsetOrdering(Nat)
           F == FiniteSubsetsOf(Nat)
           B == {n \in Nat : n \notin S}
           T == {0..n : n \in B}
<1>1. IsWellFoundedOn(R, F)
  BY FS_StrictSubsetOrderingWellFounded
<1>2. T \subseteq F /\ T # {}
  <2>1. ASSUME NEW n \in B PROVE 0..n \in F
    <3>1. n \in Int /\ 0 \in Int /\ 0..n \in SUBSET Nat
      OBVIOUS
    <3>2. IsFiniteSet(0..n)
      BY <3>1, FS_Interval
    <3> QED BY <3>1, <3>2 DEF FiniteSubsetsOf
  <2> QED BY <2>1
<1>3. PICK s \in T : \A t \in T : ~(<<t, s>> \in R)
  <2> HIDE DEF R, F, T
  <2> QED BY <1>1, <1>2, WFMin
<1>4. PICK n \in B : s = 0..n
  BY <1>3
<1>5. n # 0 /\ n - 1 \in Nat /\ n - 1 \in B
  <2>1. n - 1 \in Nat => (n - 1) + 1 = n
    OBVIOUS
  <2> QED BY <1>4, <2>1
<1>6. /\ 0..n - 1 \in SUBSET Nat /\ 0..n \in SUBSET Nat
      /\ 0..n - 1 \subseteq 0..n /\ n \in 0..n /\ n \notin 0..n - 1
  BY <1>5
<1>7. <<0..n - 1, 0..n>> \in R
  BY <1>6 DEF StrictSubsetOrdering
<1> QED BY <1>3, <1>4, <1>5, <1>7

(* g gives from a value and a number the next value; a function f of the     *)
(* first N numbers takes its steps.                                          *)
StepsInto(T, N, g) == \A x \in T, n \in 1..N : g[<<x, n>>] \in T
Steps(base, N, g, f) == f[0] = base /\ \A n \in 1..N : f[n] = g[<<f[n - 1], n>>]

LEMMA StepsExist ==
    ASSUME NEW T, NEW base \in T, NEW N \in Nat, NEW g, StepsInto(T, N, g)
    PROVE  \E f \in [0..N -> T] : Steps(base, N, g, f)
<1> DEFINE Upto(m, f) == /\ f \in [0..m -> T] /\ f[0] = base
                         /\ \A n \in 1..m : f[n] = g[<<f[n - 1], n>>]
           S == {m \in Nat : m <= N => \E f : Upto(m, f)}
<1>1. 0 \in S
  <2> DEFINE f == [n \in 0..0 |-> base]
  <2>1. Upto(0, f)
    OBVIOUS
  <2> QED BY <2>1
<1>2. ASSUME NEW m \in Nat, m \in S
      PROVE  m + 1 \in S
  <2> SUFFICES ASSUME m + 1 <= N PROVE \E f : Upto(m + 1, f)
    OBVIOUS
  <2>1. PICK f : Upto(m, f)
    BY <1>2
  <2> DEFINE h == [n \in 0..m + 1 |-> IF n = m + 1 THEN g[<<f[m], m + 1>>] ELSE f[n]]
  <2>2. f \in [0..m -> T] /\ f[0] = base /\ \A n \in 1..m : f[n] = g[<<f[n - 1], n>>]
    BY <2>1
  <2>3. f[m] \in T /\ m + 1 \in 1..N
    BY <2>2
  <2>4. g[<<f[m], m + 1>>] \in T
    BY <2>3 DEF StepsInto
  <2>5. h \in [0..m + 1 -> T] /\ h[0] = base
    BY <2>2, <2>4
  <2>6. h[m + 1] = g[<<f[m], m + 1>>] /\ \A n \in 0..m : h[n] = f[n]
    OBVIOUS
  <2> HIDE DEF h
  <2>7. ASSUME NEW n \in 1..m + 1
        PROVE  h[n] = g[<<h[n - 1], n>>]
    <3>1. CASE n = m + 1
      <4>1. n - 1 = m /\ h[m] = f[m]
        BY <3>1, <2>6
      <4> QED BY <3>1, <4>1, <2>6
    <3>2. CASE n # m + 1
      <4>1. n \in 1..m /\ n \in 0..m /\ n - 1 \in 0..m
        BY <3>2
      <4> QED BY <4>1, <2>2, <2>6
    <3> QED BY <3>1, <3>2
  <2>8. Upto(m + 1, h)
    BY <2>5, <2>7
  <2> QED BY <2>8
<1>3. N \in S
  <2> HIDE DEF S
  <2> QED BY <1>1, <1>2, CountUp
<1>4. \E f : Upto(N, f)
  BY <1>3
<1> QED BY <1>4 DEF Steps

LEMMA StepsAgree ==
    ASSUME NEW base, NEW N \in Nat, NEW g, NEW f, NEW h, Steps(base, N, g, f), Steps(base, N, g, h)
    PROVE  \A n \in 0..N : f[n] = h[n]
<1> DEFINE S == {n \in Nat : n <= N => f[n] = h[n]}
<1>1. 0 \in S
  BY DEF Steps
<1>2. ASSUME NEW n \in Nat, n \in S PROVE n + 1 \in S
  <2> SUFFICES ASSUME n + 1 <= N PROVE f[n + 1] = h[n + 1]
    OBVIOUS
  <2>1. n + 1 \in 1..N /\ (n + 1) - 1 = n /\ f[n] = h[n]
    BY <1>2
  <2>2. f[n + 1] = g[<<f[n], n + 1>>] /\ h[n + 1] = g[<<h[n], n + 1>>]
    BY <2>1 DEF Steps
  <2> QED BY <2>1, <2>2
<1> HIDE DEF S
<1>3. Nat \subseteq S
  BY <1>1, <1>2, CountUp
<1> QED BY <1>3 DEF S

LEMMA QuotientAndRest ==
    ASSUME NEW H \in Nat \ {0}, NEW a \in Nat
    PROVE  /\ a % H \in 0..H - 1
           /\ a \div H \in Nat
           /\ a = H * (a \div H) + (a % H)
  OBVIOUS

(* A quotient and a rest are those of one number only.                       *)
LEMMA QuotientUnique ==
    ASSUME NEW H \in Nat \ {0}, NEW q \in Nat, NEW r \in 0..H - 1,
           NEW p \in Nat, NEW s \in 0..H - 1, H * q + r = H * p + s
    PROVE  q = p /\ r = s
<1>1. ASSUME NEW a \in Nat, NEW b \in Nat, a < b
      PROVE  H * b >= H * a + H
  <2>1. b = a + 1 + (b - a - 1) /\ b - a - 1 \in Nat
    BY <1>1
  <2>2. H * (b - a - 1) >= 0
    BY <2>1
  <2>3. H * b = H * a + H + H * (b - a - 1)
    BY <2>1
  <2> QED BY <2>2, <2>3
<1>2. ~(q < p)
  BY <1>1
<1>3. ~(p < q)
  BY <1>1
<1>4. q = p
  BY <1>2, <1>3
<1> QED BY <1>4

(* Two ways to cut the same sequence in the same place.                      *)
LEMMA SameCut ==
    ASSUME NEW S, NEW a \in Seq(S), NEW b \in Seq(S), NEW c \in Seq(S),
           NEW d \in Seq(S), a \o b = c \o d, Len(a) = Len(c)
    PROVE  a = c /\ b = d
<1>1. Len(a) \in Nat /\ Len(b) \in Nat /\ Len(c) \in Nat /\ Len(d) \in Nat
  BY LenProperties
<1>2. /\ Len(a \o b) = Len(a) + Len(b) /\ Len(c \o d) = Len(c) + Len(d)
      /\ \A i \in 1..Len(a) + Len(b) :
            (a \o b)[i] = IF i <= Len(a) THEN a[i] ELSE b[i - Len(a)]
      /\ \A i \in 1..Len(c) + Len(d) :
            (c \o d)[i] = IF i <= Len(c) THEN c[i] ELSE d[i - Len(c)]
  BY ConcatProperties
<1>3. Len(b) = Len(d)
  BY <1>1, <1>2
<1>4. \A i \in 1..Len(a) : a[i] = c[i]
  BY <1>1, <1>2, <1>3
<1>5. a = c
  BY <1>4, SeqEqual
<1>6. ASSUME NEW i \in 1..Len(b)
      PROVE  b[i] = d[i]
  <2>1. i + Len(a) \in 1..Len(a) + Len(b) /\ ~(i + Len(a) <= Len(a)) /\ (i + Len(a)) - Len(a) = i
    BY <1>1
  <2> QED BY <2>1, <1>1, <1>2, <1>3
<1>7. b = d
  BY <1>3, <1>6, SeqEqual
<1> QED BY <1>5, <1>7

LEMMA TwoJoined ==
    ASSUME NEW S, NEW a \in S, NEW b \in S
    PROVE  <<a>> \o <<b>> = <<a, b>>
<1>1. /\ <<a>> \in Seq(S) /\ <<b>> \in Seq(S) /\ <<a, b>> \in Seq(S)
      /\ Len(<<a>>) = 1 /\ Len(<<b>>) = 1 /\ Len(<<a, b>>) = 2
  OBVIOUS
<1>2. /\ <<a>> \o <<b>> \in Seq(S) /\ Len(<<a>> \o <<b>>) = 2
      /\ \A i \in 1..2 : (<<a>> \o <<b>>)[i] = IF i <= 1 THEN <<a>>[i] ELSE <<b>>[i - 1]
  <2>1. Len(<<a>>) + Len(<<b>>) = 2
    BY <1>1
  <2> QED BY <1>1, <2>1, ConcatProperties
<1>3. ASSUME NEW i \in 1..2
      PROVE  (<<a>> \o <<b>>)[i] = <<a, b>>[i]
  <2>1. CASE i = 1
    BY <2>1, <1>2
  <2>2. CASE i = 2
    BY <2>2, <1>2
  <2> QED BY <2>1, <2>2
<1> QED BY <1>1, <1>2, <1>3, SeqEqual

(***************************************************************************)
(* TCP: sizes and messages.                                                *)
(***************************************************************************)
LineOctets == 0..OctetSize - 1

(* The two octets of a size.                                                 *)
SizeOctets(size) == <<size % OctetSize, size \div OctetSize>>

(* A message on the line, and the first octets of one, its size among them.  *)
Packet(msg) == SizeOctets(Len(msg)) \o msg
PacketUpTo(msg, n) == SizeOctets(Len(msg)) \o SubSeq(msg, 1, n)

(***************************************************************************)
(* Sizes.                                                                  *)
(***************************************************************************)
(* The octets of the size that is read are the ones it is read from.         *)
LEMMA SizeReadBack ==
    ASSUME NEW lsb \in LineOctets, NEW msb \in LineOctets
    PROVE  /\ SizeReadIn(lsb, msb) \in Nat
           /\ SizeOctets(SizeReadIn(lsb, msb)) = <<lsb, msb>>
<1> DEFINE size == SizeReadIn(lsb, msb)
<1>1. OctetSize \in Nat \ {0} /\ lsb \in Nat /\ msb \in Nat
  BY TcpAssumption DEF LineOctets
<1>2. size = OctetSize * msb + lsb /\ size \in Nat
  BY <1>1 DEF SizeReadIn
<1> HIDE DEF size
<1>3. /\ size % OctetSize \in 0..OctetSize - 1
      /\ size \div OctetSize \in Nat
      /\ size = OctetSize * (size \div OctetSize) + (size % OctetSize)
  BY <1>1, <1>2, QuotientAndRest
<1>4. size \div OctetSize = msb /\ size % OctetSize = lsb
  BY <1>1, <1>2, <1>3, QuotientUnique DEF LineOctets
<1> QED BY <1>2, <1>4 DEF SizeOctets, size

(* A size is known from its octets.                                          *)
LEMMA SizeKnown ==
    ASSUME NEW m \in Nat, NEW n \in Nat, SizeOctets(m) = SizeOctets(n)
    PROVE  m = n
<1>1. m % OctetSize = n % OctetSize /\ m \div OctetSize = n \div OctetSize
  BY DEF SizeOctets
<1>2. OctetSize \in Nat \ {0}
  BY TcpAssumption
<1> QED BY <1>1, <1>2, QuotientAndRest

LEMMA MessageTypes ==
    ASSUME NEW msg \in TcpMessages
    PROVE  /\ msg \in Seq(LineOctets) /\ Len(msg) \in Nat \ {0}
           /\ SizeOctets(Len(msg)) \in Seq(LineOctets) /\ Len(SizeOctets(Len(msg))) = 2
           /\ SizeOf(msg) = SizeOctets(Len(msg))
<1>1. msg \in Seq(LineOctets) /\ Len(msg) \in 1..OctetSize * OctetSize - 1
  BY TcpAssumption DEF LineOctets
<1>2. OctetSize \in Nat \ {0} /\ Len(msg) \in Nat \ {0}
  BY <1>1, TcpAssumption
<1> DEFINE size == Len(msg)
           q == size \div OctetSize
<1>3. /\ size % OctetSize \in 0..OctetSize - 1 /\ q \in Nat
      /\ size = OctetSize * q + (size % OctetSize)
  BY <1>2, QuotientAndRest
<1>4. size < OctetSize * OctetSize
  BY <1>1, <1>2
<1> HIDE DEF size, q
<1>5. q < OctetSize
  <2>1. SUFFICES ASSUME q >= OctetSize PROVE FALSE
    BY <1>2, <1>3
  <2>2. OctetSize * q >= OctetSize * OctetSize
    BY <2>1, <1>2, <1>3
  <2>3. size >= OctetSize * q
    BY <1>2, <1>3
  <2> QED BY <2>2, <2>3, <1>2, <1>3, <1>4
<1>6. size % OctetSize \in LineOctets /\ q \in LineOctets
  BY <1>2, <1>3, <1>5 DEF LineOctets
<1>7. <<size % OctetSize, q>> \in Seq(LineOctets)
  BY <1>6
<1> QED BY <1>1, <1>2, <1>7 DEF SizeOctets, SizeOf, size, q

(***************************************************************************)
(* What is under way: the messages one behind the other, then the first    *)
(* octets of one that is not sent whole, if any. rest[i] is what is left   *)
(* of the stream where message i begins.                                   *)
(***************************************************************************)
Partial(part) ==
    \/ part = <<>>
    \/ \E msg \in TcpMessages : \E n \in 0..Len(msg) - 1 : part = PacketUpTo(msg, n)

LaidOut(rest, stream, msgs, part) ==
    /\ rest \in [1..Len(msgs) + 1 -> Seq(LineOctets)]
    /\ rest[1] = stream
    /\ \A i \in 1..Len(msgs) : rest[i] = Packet(msgs[i]) \o rest[i + 1]
    /\ rest[Len(msgs) + 1] = part

Laid(stream, msgs, part) == \E rest : LaidOut(rest, stream, msgs, part)

LEMMA Associative ==
    \A a, b, c \in Seq(LineOctets) : (a \o b) \o c = a \o (b \o c)
<1> TAKE a, b, c \in Seq(LineOctets)
<1> QED BY ConcatAssociative

LEMMA PacketTypes ==
    ASSUME NEW msg \in TcpMessages, NEW n \in 0..Len(msg)
    PROVE  /\ Packet(msg) \in Seq(LineOctets) /\ Len(Packet(msg)) = Len(msg) + 2
           /\ SubSeq(msg, 1, n) \in Seq(LineOctets) /\ Len(SubSeq(msg, 1, n)) = n
           /\ PacketUpTo(msg, n) \in Seq(LineOctets)
           /\ Packet(msg) = PacketUpTo(msg, Len(msg))
<1>1. /\ msg \in Seq(LineOctets) /\ Len(msg) \in Nat /\ SizeOctets(Len(msg)) \in Seq(LineOctets)
      /\ Len(SizeOctets(Len(msg))) = 2
  BY MessageTypes
<1>2. \A i \in 1..n : msg[i] \in LineOctets
  BY <1>1, ElementOfSeq
<1>3. SubSeq(msg, 1, n) \in Seq(LineOctets) /\ Len(SubSeq(msg, 1, n)) = n
  BY <1>1, <1>2, SubSeqProperties
<1>4. SubSeq(msg, 1, Len(msg)) = msg
  BY <1>1, SubSeqFull
<1>5. /\ SizeOctets(Len(msg)) \o msg \in Seq(LineOctets)
      /\ Len(SizeOctets(Len(msg)) \o msg) = Len(SizeOctets(Len(msg))) + Len(msg)
  BY <1>1, ConcatProperties
<1>6. SizeOctets(Len(msg)) \o SubSeq(msg, 1, n) \in Seq(LineOctets)
  BY <1>1, <1>3, ConcatProperties
<1>7. Len(SizeOctets(Len(msg)) \o msg) = Len(msg) + 2
  BY <1>1, <1>5
<1> QED BY <1>3, <1>4, <1>5, <1>6, <1>7 DEF Packet, PacketUpTo

(* What is behind a message, and what is behind its size.                    *)
LEMMA BehindPacket ==
    ASSUME NEW msg \in TcpMessages, NEW a \in Seq(LineOctets), NEW b \in Seq(LineOctets)
    PROVE  /\ (Packet(msg) \o a) \o b = Packet(msg) \o (a \o b)
           /\ Packet(msg) \o a = SizeOctets(Len(msg)) \o (msg \o a)
<1> DEFINE size == SizeOctets(Len(msg))
           packet == Packet(msg)
<1>1. msg \in Seq(LineOctets) /\ size \in Seq(LineOctets) /\ packet = size \o msg
  BY MessageTypes DEF Packet
<1> HIDE DEF size, packet
<1>2. packet \in Seq(LineOctets)
  BY <1>1, ConcatProperties
<1>3. (packet \o a) \o b = packet \o (a \o b)
  BY <1>2, ConcatAssociative
<1>4. (size \o msg) \o a = size \o (msg \o a)
  BY <1>1, ConcatAssociative
<1> QED BY <1>1, <1>3, <1>4 DEF size, packet

LEMMA PartialIsSeq ==
    ASSUME NEW part, Partial(part)
    PROVE  part \in Seq(LineOctets)
<1>1. CASE part = <<>>
  BY <1>1
<1>2. ASSUME NEW msg \in TcpMessages, NEW n \in 0..Len(msg) - 1, part = PacketUpTo(msg, n)
      PROVE  part \in Seq(LineOctets)
  <2>1. n \in 0..Len(msg)
    BY MessageTypes
  <2> QED BY <1>2, <2>1, PacketTypes
<1> QED BY <1>1, <1>2 DEF Partial

(* Nothing on the line, or a part of a message only.                         *)
LEMMA LaidPart ==
    ASSUME NEW part \in Seq(LineOctets)
    PROVE  Laid(part, <<>>, part)
<1> DEFINE rest == [i \in 1..1 |-> part]
<1>1. LaidOut(rest, part, <<>>, part)
  BY DEF LaidOut
<1> QED BY <1>1 DEF Laid

(* More octets of the part behind.                                           *)
LEMMA LaidLonger ==
    ASSUME NEW stream \in Seq(LineOctets), NEW msgs \in Seq(TcpMessages), NEW part \in Seq(LineOctets),
           Laid(stream, msgs, part), NEW octets \in Seq(LineOctets)
    PROVE  Laid(stream \o octets, msgs, part \o octets)
<1>1. PICK rest : LaidOut(rest, stream, msgs, part)
  BY DEF Laid
<1>2. Len(msgs) \in Nat
  BY LenProperties
<1> DEFINE longer == [i \in 1..Len(msgs) + 1 |-> rest[i] \o octets]
<1>3. /\ \A i \in 1..Len(msgs) + 1 : rest[i] \in Seq(LineOctets)
      /\ \A i \in 1..Len(msgs) : rest[i] = Packet(msgs[i]) \o rest[i + 1]
      /\ rest[1] = stream /\ rest[Len(msgs) + 1] = part
  BY <1>1 DEF LaidOut
<1>4. longer \in [1..Len(msgs) + 1 -> Seq(LineOctets)]
  BY <1>3, ConcatProperties
<1>8. \A i \in 1..Len(msgs) + 1 : longer[i] = rest[i] \o octets
  OBVIOUS
<1> HIDE DEF longer
<1>9. \A msg \in TcpMessages, a \in Seq(LineOctets) :
         (Packet(msg) \o a) \o octets = Packet(msg) \o (a \o octets)
  BY BehindPacket
<1>5. ASSUME NEW i \in 1..Len(msgs)
      PROVE  longer[i] = Packet(msgs[i]) \o longer[i + 1]
  <2>1. i \in 1..Len(msgs) + 1 /\ i + 1 \in 1..Len(msgs) + 1
    BY <1>2
  <2>2. rest[i] = Packet(msgs[i]) \o rest[i + 1]
    BY <1>3
  <2>3. msgs[i] \in TcpMessages /\ rest[i + 1] \in Seq(LineOctets)
    BY <2>1, <1>3, ElementOfSeq
  <2>4. longer[i] = rest[i] \o octets /\ longer[i + 1] = rest[i + 1] \o octets
    BY <2>1, <1>8
  <2>5. (Packet(msgs[i]) \o rest[i + 1]) \o octets
           = Packet(msgs[i]) \o (rest[i + 1] \o octets)
    BY <2>3, <1>9, Zenon
  <2> QED BY <2>2, <2>4, <2>5
<1>6. longer[1] = stream \o octets /\ longer[Len(msgs) + 1] = part \o octets
  <2>1. 1 \in 1..Len(msgs) + 1 /\ Len(msgs) + 1 \in 1..Len(msgs) + 1
    BY <1>2
  <2> QED BY <2>1, <1>3, <1>8
<1>7. LaidOut(longer, stream \o octets, msgs, part \o octets)
  BY <1>4, <1>5, <1>6 DEF LaidOut
<1> QED BY <1>7 DEF Laid

(* The part behind is a message now.                                         *)
LEMMA LaidWhole ==
    ASSUME NEW stream, NEW msgs \in Seq(TcpMessages), NEW msg \in TcpMessages,
           Laid(stream, msgs, Packet(msg))
    PROVE  Laid(stream, Append(msgs, msg), <<>>)
<1>1. PICK rest : LaidOut(rest, stream, msgs, Packet(msg))
  BY DEF Laid
<1> DEFINE last == Len(msgs) + 1
           more == [i \in 1..last + 1 |-> IF i = last + 1 THEN <<>> ELSE rest[i]]
           all == Append(msgs, msg)
<1>2. /\ Len(msgs) \in Nat /\ Len(all) = last /\ last \in Nat
      /\ \A i \in 1..Len(msgs) : all[i] = msgs[i]
      /\ all[last] = msg
  BY LenProperties, AppendProperties
<1>3. /\ rest[last] = Packet(msg)
      /\ \A i \in 1..last : rest[i] \in Seq(LineOctets)
      /\ \A i \in 1..Len(msgs) : rest[i] = Packet(msgs[i]) \o rest[i + 1]
      /\ rest[1] = stream
  BY <1>1 DEF LaidOut
<1>4. more \in [1..last + 1 -> Seq(LineOctets)]
  BY <1>2, <1>3
<1>5. \A i \in 1..last : more[i] = rest[i]
  BY <1>2
<1>6. more[last + 1] = <<>>
  BY <1>2
<1>7. Packet(msg) \o <<>> = Packet(msg)
  BY MessageTypes, ConcatProperties, ConcatEmptySeq DEF Packet
<1> HIDE DEF more, all
<1>8. ASSUME NEW i \in 1..last
      PROVE  more[i] = Packet(all[i]) \o more[i + 1]
  <2>1. CASE i = last
    BY <2>1, <1>2, <1>3, <1>5, <1>6, <1>7
  <2>2. CASE i # last
    <3>1. i \in 1..Len(msgs) /\ i + 1 \in 1..last
      BY <2>2, <1>2
    <3> QED BY <3>1, <1>2, <1>3, <1>5
  <2> QED BY <2>1, <2>2
<1>9. LaidOut(more, stream, all, <<>>)
  BY <1>2, <1>3, <1>4, <1>5, <1>6, <1>8 DEF LaidOut
<1> QED BY <1>9 DEF Laid, all

(* The first message is gone.                                                *)
LEMMA LaidTail ==
    ASSUME NEW stream, NEW msgs \in Seq(TcpMessages), NEW part,
           Laid(stream, msgs, part), msgs # <<>>
    PROVE  /\ msgs[1] \in TcpMessages
           /\ \E tail \in Seq(LineOctets) : /\ stream = Packet(msgs[1]) \o tail
                                       /\ Laid(tail, Tail(msgs), part)
<1>1. PICK rest : LaidOut(rest, stream, msgs, part)
  BY DEF Laid
<1>2. /\ Len(msgs) \in Nat \ {0} /\ Len(Tail(msgs)) = Len(msgs) - 1
      /\ \A i \in 1..Len(Tail(msgs)) : Tail(msgs)[i] = msgs[i + 1]
  BY EmptySeq, HeadTailProperties
<1>3. msgs[1] \in TcpMessages
  BY <1>2, ElementOfSeq
<1>4. /\ \A i \in 1..Len(msgs) + 1 : rest[i] \in Seq(LineOctets)
      /\ \A i \in 1..Len(msgs) : rest[i] = Packet(msgs[i]) \o rest[i + 1]
      /\ rest[1] = stream /\ rest[Len(msgs) + 1] = part
  BY <1>1 DEF LaidOut
<1> DEFINE fewer == [i \in 1..Len(Tail(msgs)) + 1 |-> rest[i + 1]]
<1>5. fewer \in [1..Len(Tail(msgs)) + 1 -> Seq(LineOctets)]
  BY <1>2, <1>4
<1>6. ASSUME NEW i \in 1..Len(Tail(msgs))
      PROVE  fewer[i] = Packet(Tail(msgs)[i]) \o fewer[i + 1]
  <2>1. /\ i \in 1..Len(Tail(msgs)) + 1 /\ i + 1 \in 1..Len(Tail(msgs)) + 1
        /\ i + 1 \in 1..Len(msgs) /\ Tail(msgs)[i] = msgs[i + 1]
    BY <1>2
  <2>2. rest[i + 1] = Packet(msgs[i + 1]) \o rest[(i + 1) + 1]
    BY <2>1, <1>4
  <2>3. fewer[i] = rest[i + 1] /\ fewer[i + 1] = rest[(i + 1) + 1]
    BY <2>1
  <2> QED BY <2>1, <2>2, <2>3
<1>7. fewer[1] = rest[2] /\ fewer[Len(Tail(msgs)) + 1] = part
  BY <1>2, <1>4
<1>8. LaidOut(fewer, rest[2], Tail(msgs), part)
  BY <1>5, <1>6, <1>7 DEF LaidOut
<1>9. rest[2] \in Seq(LineOctets) /\ stream = Packet(msgs[1]) \o rest[2]
  <2>1. 1 \in 1..Len(msgs) /\ 2 \in 1..Len(msgs) + 1 /\ 1 + 1 = 2
    BY <1>2
  <2>2. rest[1] = Packet(msgs[1]) \o rest[1 + 1]
    BY <2>1, <1>4
  <2> QED BY <2>1, <2>2, <1>4
<1> QED BY <1>3, <1>8, <1>9 DEF Laid

(* No message under way is part of one only.                                 *)
LEMMA LaidNone ==
    ASSUME NEW stream, NEW part, Laid(stream, <<>>, part)
    PROVE  stream = part
  BY DEF Laid, LaidOut

(* A stream begins with the size of a message, which is the first one or the *)
(* one sent in part.                                                         *)
LEMMA BeginsWithSize ==
    ASSUME NEW stream, NEW msgs \in Seq(TcpMessages), NEW part,
           Laid(stream, msgs, part), Partial(part), stream # <<>>
    PROVE  \E msg \in TcpMessages, tail \in Seq(LineOctets) :
              /\ stream = SizeOctets(Len(msg)) \o tail
              /\ Len(tail) >= Len(msg) => msgs # <<>>
<1>1. CASE msgs # <<>>
  <2>1. PICK tail \in Seq(LineOctets) : stream = Packet(msgs[1]) \o tail
    BY <1>1, LaidTail
  <2>2. msgs[1] \in TcpMessages
    BY <1>1, LaidTail
  <2>3. msgs[1] \o tail \in Seq(LineOctets)
    BY <2>2, MessageTypes, ConcatProperties
  <2>4. stream = SizeOctets(Len(msgs[1])) \o (msgs[1] \o tail)
    BY <2>1, <2>2, BehindPacket
  <2> QED BY <2>2, <2>3, <2>4, <1>1
<1>2. CASE msgs = <<>>
  <2>1. stream = part
    BY <1>2, LaidNone
  <2>2. PICK msg \in TcpMessages : \E n \in 0..Len(msg) - 1 : stream = PacketUpTo(msg, n)
    BY <2>1 DEF Partial
  <2>8. PICK n \in 0..Len(msg) - 1 : stream = PacketUpTo(msg, n)
    BY <2>2
  <2>3. Len(msg) \in Nat
    BY MessageTypes
  <2>4. n \in 0..Len(msg)
    BY <2>3
  <2>5. SubSeq(msg, 1, n) \in Seq(LineOctets) /\ Len(SubSeq(msg, 1, n)) = n
    BY <2>4, PacketTypes
  <2>6. ~(Len(SubSeq(msg, 1, n)) >= Len(msg))
    BY <2>3, <2>5
  <2>7. stream = SizeOctets(Len(msg)) \o SubSeq(msg, 1, n)
    BY <2>8 DEF PacketUpTo
  <2> QED BY <2>5, <2>6, <2>7
<1> QED BY <1>1, <1>2

(* A message of which as much is read as its size says is the first one.     *)
LEMMA FirstIsRead ==
    ASSUME NEW got \in Seq(LineOctets), NEW line \in Seq(LineOctets), NEW msgs \in Seq(TcpMessages),
           NEW part, Partial(part), Len(SizeOctets(Len(got))) = 2,
           SizeOctets(Len(got)) \in Seq(LineOctets),
           Laid((SizeOctets(Len(got)) \o got) \o line, msgs, part)
    PROVE  /\ msgs # <<>> /\ got = msgs[1]
           /\ Laid(line, Tail(msgs), part)
<1> DEFINE size == SizeOctets(Len(got))
           stream == (size \o got) \o line
<1>1. /\ stream = size \o (got \o line) /\ got \o line \in Seq(LineOctets)
      /\ Len(got \o line) = Len(got) + Len(line)
      /\ Len(got) \in Nat /\ Len(line) \in Nat
  BY ConcatAssociative, ConcatProperties, LenProperties
<1>2. Len(stream) = 2 + Len(got \o line) /\ Len(got \o line) \in Nat
  <2>1. Len(size \o (got \o line)) = Len(size) + Len(got \o line)
    BY <1>1, ConcatProperties
  <2> QED BY <2>1, <1>1
<1>3. stream # <<>>
  BY <1>2
<1>4. PICK msg \in TcpMessages, tail \in Seq(LineOctets) :
          /\ stream = SizeOctets(Len(msg)) \o tail
          /\ Len(tail) >= Len(msg) => msgs # <<>>
  BY <1>3, BeginsWithSize
<1>5. Len(msg) \in Nat /\ SizeOctets(Len(msg)) \in Seq(LineOctets) /\ Len(SizeOctets(Len(msg))) = 2
  BY MessageTypes
<1> HIDE DEF stream
<1>6. size = SizeOctets(Len(msg)) /\ got \o line = tail
  <2>1. size \o (got \o line) = SizeOctets(Len(msg)) \o tail
    BY <1>1, <1>4
  <2> HIDE DEF size
  <2>2. size \in Seq(LineOctets) /\ Len(size) = 2
    BY DEF size
  <2> QED BY <2>1, <2>2, <1>1, <1>5, SameCut
<1>7. Len(got) = Len(msg)
  BY <1>1, <1>5, <1>6, SizeKnown
<1>8. msgs # <<>>
  BY <1>1, <1>4, <1>6, <1>7
<1>9. PICK after \in Seq(LineOctets) : /\ stream = Packet(msgs[1]) \o after
                                  /\ Laid(after, Tail(msgs), part)
  BY <1>8, LaidTail DEF stream
<1>10. msgs[1] \in TcpMessages
  BY <1>8, LaidTail DEF stream
<1>11. /\ msgs[1] \in Seq(LineOctets) /\ Len(msgs[1]) \in Nat
       /\ SizeOctets(Len(msgs[1])) \in Seq(LineOctets) /\ Len(SizeOctets(Len(msgs[1]))) = 2
       /\ msgs[1] \o after \in Seq(LineOctets)
  BY <1>10, MessageTypes, ConcatProperties
<1>12. stream = SizeOctets(Len(msgs[1])) \o (msgs[1] \o after)
  BY <1>9, <1>10, BehindPacket
<1>13. size = SizeOctets(Len(msgs[1])) /\ got \o line = msgs[1] \o after
  <2> DEFINE first == SizeOctets(Len(msgs[1]))
             behind == msgs[1] \o after
             read == got \o line
  <2>1. size \o read = first \o behind
    BY <1>1, <1>12
  <2>2. /\ size \in Seq(LineOctets) /\ Len(size) = 2 /\ read \in Seq(LineOctets)
        /\ first \in Seq(LineOctets) /\ Len(first) = 2 /\ behind \in Seq(LineOctets)
    BY <1>1, <1>11
  <2> HIDE DEF size, first, behind, read
  <2>3. size = first /\ read = behind
    BY <2>1, <2>2, SameCut
  <2> QED BY <2>3 DEF first, behind, read
<1>14. Len(got) = Len(msgs[1])
  BY <1>1, <1>11, <1>13, SizeKnown
<1>15. got = msgs[1] /\ line = after
  BY <1>11, <1>13, <1>14, SameCut
<1> QED BY <1>8, <1>9, <1>15

(***************************************************************************)
(* The inductive invariant.                                                *)
(***************************************************************************)
(* What the sender has of the message it sends, the size taken whole.        *)
SendingHolds ==
    /\ tcp_sending \in [pc : {"none", "size", "payload"}, msg : TcpMessages \cup {<<>>},
                        bytes_sent : Nat, n_attemps : Nat]
    /\ tcp_sending.pc # "none" => tcp_sending.msg \in TcpMessages
    /\ tcp_sending.pc = "size" => tcp_sending.bytes_sent = 0
    /\ tcp_sending.pc = "payload" => tcp_sending.bytes_sent < Len(tcp_sending.msg)
    /\ sender_fd \in {"open", "closed"}

(* What the reader has of the message it reads; a reader that is closed      *)
(* reads no more.                                                            *)
ReadingHolds ==
    /\ reader_fd \in {"open", "closed"}
    /\ tcp_line \in Seq(LineOctets) /\ input \in Seq(LineOctets) /\ msg_size \in Nat
    /\ tcp_state \in {"empty", "size_incomplete", "size_read", "message_incomplete",
                      "message_available"}
    /\ tcp_state = "size_incomplete" => msg_size \in LineOctets /\ input = <<>>
    /\ tcp_state \in {"size_read", "message_incomplete", "message_available"} =>
          SizeOctets(msg_size) \in Seq(LineOctets)
    /\ tcp_state \in {"size_read", "message_incomplete"} => Len(input) < msg_size
    /\ tcp_state = "message_available" => Len(input) = msg_size /\ reader_fd = "open"
    /\ tcp_sent \in Seq(TcpMessages)
    /\ reader_fd = "closed" => tcp_line = <<>> /\ tcp_sent = <<>>

(* Octets that were read already, and octets that were written of a message. *)
Got ==
    IF tcp_state = "empty" THEN <<>>
    ELSE IF tcp_state = "size_incomplete" THEN <<msg_size>>
    ELSE SizeOctets(msg_size) \o input

Written ==
    IF tcp_sending.pc = "payload" THEN PacketUpTo(tcp_sending.msg, tcp_sending.bytes_sent)
    ELSE <<>>

(* The octets read of the current message and those on the line are the      *)
(* messages sent and not read, and the written part of the one being sent.   *)
UnderWay(part) ==
    /\ Partial(part) /\ Laid(Got \o tcp_line, tcp_sent, part)
    /\ sender_fd = "open" => part = Written

TcpHolds ==
    /\ SendingHolds /\ ReadingHolds
    /\ reader_fd = "open" => \E part : UnderWay(part)
    /\ tcp_round \in {0, 1}

LEMMA GotIsSeq ==
    ASSUME ReadingHolds
    PROVE  Got \in Seq(LineOctets) /\ Got \o tcp_line \in Seq(LineOctets)
<1>1. tcp_line \in Seq(LineOctets) /\ input \in Seq(LineOctets)
  BY DEF ReadingHolds
<1>2. CASE tcp_state = "empty"
  BY <1>1, <1>2, ConcatProperties DEF Got
<1>3. CASE tcp_state = "size_incomplete"
  <2>1. Got = <<msg_size>> /\ msg_size \in LineOctets
    BY <1>3 DEF Got, ReadingHolds
  <2>2. Got \in Seq(LineOctets)
    BY <2>1
  <2> QED BY <2>2, <1>1, ConcatProperties
<1>4. CASE tcp_state \notin {"empty", "size_incomplete"}
  <2>1. Got = SizeOctets(msg_size) \o input /\ SizeOctets(msg_size) \in Seq(LineOctets)
    BY <1>4 DEF Got, ReadingHolds
  <2>2. Got \in Seq(LineOctets)
    BY <2>1, <1>1, ConcatProperties
  <2> QED BY <2>2, <1>1, ConcatProperties
<1> QED BY <1>2, <1>3, <1>4

LEMMA WrittenIsPartial ==
    ASSUME SendingHolds
    PROVE  Partial(Written)
<1>1. CASE tcp_sending.pc = "payload"
  <2>1. /\ tcp_sending.msg \in TcpMessages /\ tcp_sending.bytes_sent \in Nat
        /\ tcp_sending.bytes_sent < Len(tcp_sending.msg)
    BY <1>1 DEF SendingHolds
  <2>2. tcp_sending.bytes_sent \in 0..Len(tcp_sending.msg) - 1
    BY <2>1, MessageTypes
  <2> QED BY <1>1, <2>1, <2>2 DEF Written, Partial
<1>2. CASE tcp_sending.pc # "payload"
  BY <1>2 DEF Written, Partial
<1> QED BY <1>1, <1>2

LEMMA InitHolds ==
    ASSUME InitTcp
    PROVE  TcpHolds
<1>1. SendingHolds
  BY DEF InitTcp, SendingHolds, NotSending
<1>2. ReadingHolds
  BY DEF InitTcp, ReadingHolds
<1>3. Got \o tcp_line = <<>> /\ tcp_sent = <<>>
  BY ConcatEmptySeq DEF InitTcp, Got
<1>4. Laid(<<>>, <<>>, <<>>)
  <2>1. <<>> \in Seq(LineOctets)
    BY EmptySeq
  <2> QED BY <2>1, LaidPart
<1>5. UnderWay(<<>>)
  BY <1>3, <1>4 DEF UnderWay, Partial, Written, InitTcp, NotSending
<1> QED BY <1>1, <1>2, <1>5 DEF TcpHolds, InitTcp

(***************************************************************************)
(* The sender.                                                             *)
(***************************************************************************)
LEMMA SendHolds ==
    ASSUME TcpHolds, NEW msg \in TcpMessages, Send(msg)
    PROVE  TcpHolds'
<1>1. SendingHolds'
  BY DEF TcpHolds, SendingHolds, Send, NotSending
<1>2. ReadingHolds'
  BY DEF TcpHolds, ReadingHolds, Send, reader
<1>3. Got' = Got /\ Written' = Written
  BY DEF Send, reader, Got, Written, NotSending
<1>4. \A part : UnderWay(part) => UnderWay(part)'
  BY <1>3 DEF UnderWay, Send
<1> QED BY <1>1, <1>2, <1>4 DEF TcpHolds, Send, reader, tcp_outcome

(* The message is given up, or only the numbers of its attempt change.       *)
LEMMA AttemptCounted ==
    ASSUME SendingHolds, NEW bytes_sent \in Nat, TriesAgain(bytes_sent)
    PROVE  \/ sender_fd' = "closed" /\ tcp_sending' = NotSending
           \/ /\ sender_fd' = sender_fd
              /\ tcp_sending' \in [pc : {"none", "size", "payload"}, bytes_sent : Nat,
                                   msg : TcpMessages \cup {<<>>}, n_attemps : Nat]
              /\ tcp_sending'.pc = tcp_sending.pc /\ tcp_sending'.msg = tcp_sending.msg
              /\ tcp_sending'.bytes_sent = bytes_sent
<1> DEFINE tried == tcp_sending.n_attemps + 1
<1>1. /\ tcp_sending \in [pc : {"none", "size", "payload"}, msg : TcpMessages \cup {<<>>},
                         bytes_sent : Nat, n_attemps : Nat]
      /\ tried \in Nat
  BY DEF SendingHolds
<1> HIDE DEF tried
<1>2. CASE tried < UXR_MAX_WRITE_TCP_ATTEMPS
  <2>1. /\ tcp_sending' = [tcp_sending EXCEPT !.bytes_sent = bytes_sent, !.n_attemps = tried]
        /\ sender_fd' = sender_fd
    BY <1>2 DEF TriesAgain, tried
  <2> QED BY <1>1, <2>1
<1>3. CASE ~(tried < UXR_MAX_WRITE_TCP_ATTEMPS)
  BY <1>3 DEF TriesAgain, Disconnects, tried
<1> QED BY <1>2, <1>3

(* Nothing is written, and a message may be given up.                        *)
LEMMA NothingWrittenHolds ==
    ASSUME TcpHolds, WriteTakesNothing \/ WriteFails
    PROVE  TcpHolds'
<1>1. /\ tcp_sending.pc # "none"
      /\ UNCHANGED <<tcp_line, reader, tcp_sent, tcp_outcome>>
  BY DEF WriteTakesNothing, WriteFails
<1>2. \/ sender_fd' = "closed" /\ tcp_sending' = NotSending
      \/ /\ sender_fd' = sender_fd
         /\ tcp_sending' \in [pc : {"none", "size", "payload"}, bytes_sent : Nat,
                              msg : TcpMessages \cup {<<>>}, n_attemps : Nat]
         /\ tcp_sending'.pc = tcp_sending.pc /\ tcp_sending'.msg = tcp_sending.msg
         /\ tcp_sending'.bytes_sent = tcp_sending.bytes_sent
  <2>1. CASE WriteFails
    BY <2>1 DEF WriteFails, Disconnects
  <2>2. CASE WriteTakesNothing
    <3>1. SendingHolds /\ tcp_sending.bytes_sent \in Nat /\ TriesAgain(tcp_sending.bytes_sent)
      BY <2>2 DEF WriteTakesNothing, TcpHolds, SendingHolds
    <3> QED BY <3>1, AttemptCounted
  <2> QED BY <2>1, <2>2
<1>3. SendingHolds'
  <2>1. SendingHolds
    BY DEF TcpHolds
  <2>2. CASE sender_fd' = "closed" /\ tcp_sending' = NotSending
    BY <2>2 DEF SendingHolds, NotSending
  <2>3. CASE tcp_sending' # NotSending
    BY <1>2, <2>1, <2>3 DEF SendingHolds
  <2> QED BY <1>2, <2>1, <2>2, <2>3 DEF SendingHolds
<1>4. ReadingHolds'
  BY <1>1 DEF TcpHolds, ReadingHolds, reader
<1>5. Got' = Got
  BY <1>1 DEF Got, reader
<1>6. sender_fd' = "open" => sender_fd = "open" /\ Written' = Written
  BY <1>2 DEF Written, TcpHolds, SendingHolds
<1>7. \A part : UnderWay(part) => UnderWay(part)'
  BY <1>1, <1>5, <1>6 DEF UnderWay
<1> QED BY <1>1, <1>3, <1>4, <1>7 DEF TcpHolds, reader, tcp_outcome

(* Octets that are written stand behind what was under way.                  *)
LEMMA PutBehind ==
    ASSUME TcpHolds, sender_fd = "open", NEW octets \in Seq(LineOctets), Put(octets),
           UNCHANGED reader
    PROVE  /\ tcp_line' \in Seq(LineOctets)
           /\ reader_fd = "closed" => tcp_line' = tcp_line
           /\ reader_fd = "open" => Laid((Got \o tcp_line)', tcp_sent, Written \o octets)
<1>1. tcp_line \in Seq(LineOctets) /\ tcp_sent \in Seq(TcpMessages)
  BY DEF TcpHolds, ReadingHolds
<1>2. tcp_line \o octets \in Seq(LineOctets)
  BY <1>1, ConcatProperties
<1>3. ASSUME reader_fd = "open"
      PROVE  Laid((Got \o tcp_line)', tcp_sent, Written \o octets)
  <2>1. Laid(Got \o tcp_line, tcp_sent, Written)
    BY <1>3 DEF TcpHolds, UnderWay
  <2>2. Got \in Seq(LineOctets) /\ Got \o tcp_line \in Seq(LineOctets) /\ Written \in Seq(LineOctets)
    BY GotIsSeq, WrittenIsPartial, PartialIsSeq DEF TcpHolds
  <2>3. Laid((Got \o tcp_line) \o octets, tcp_sent, Written \o octets)
    BY <1>1, <2>1, <2>2, LaidLonger
  <2>4. (Got \o tcp_line) \o octets = Got \o (tcp_line \o octets)
    BY <1>1, <2>2, ConcatAssociative
  <2>5. Got' = Got /\ tcp_line' = tcp_line \o octets
    BY <1>3 DEF Got, Put, reader
  <2> QED BY <2>3, <2>4, <2>5
<1> QED BY <1>1, <1>2, <1>3 DEF Put

LEMMA WriteSizeHolds ==
    ASSUME TcpHolds, SizeTaken = {2}, WriteSize
    PROVE  TcpHolds'
<1> DEFINE msg == tcp_sending.msg
<1>1. /\ tcp_sending.pc = "size" /\ sender_fd = "open" /\ tcp_sending.bytes_sent = 0
      /\ msg \in TcpMessages
  BY DEF WriteSize, TcpHolds, SendingHolds
<1>2. /\ Put(SubSeq(SizeOf(msg), 1, 2))
      /\ tcp_sending' = [tcp_sending EXCEPT !.pc = "payload", !.bytes_sent = 0, !.n_attemps = 0]
      /\ sender_fd' = sender_fd
      /\ UNCHANGED <<reader, tcp_sent, tcp_outcome>>
  BY <1>1 DEF WriteSize
<1>3. /\ SizeOf(msg) \in Seq(LineOctets) /\ Len(SizeOf(msg)) = 2
      /\ Len(msg) \in Nat \ {0} /\ SizeOf(msg) = SizeOctets(Len(msg))
  BY <1>1, MessageTypes
<1>4. SubSeq(SizeOf(msg), 1, 2) = SizeOf(msg)
  BY <1>3, SubSeqFull
<1>5. Written' = SizeOf(msg) /\ Written = <<>>
  <2>1. SubSeq(msg, 1, 0) = <<>>
    BY SubSeqEmpty
  <2>2. tcp_sending'.pc = "payload" /\ tcp_sending'.msg = msg /\ tcp_sending'.bytes_sent = 0
    BY <1>2 DEF TcpHolds, SendingHolds
  <2>3. Written' = SizeOctets(Len(msg)) \o <<>>
    BY <2>1, <2>2 DEF Written, PacketUpTo
  <2> QED BY <2>3, <1>1, <1>3, ConcatEmptySeq DEF Written
<1>6. Put(SizeOf(msg))
  BY <1>2, <1>4
<1>7. SendingHolds'
  <2>1. SendingHolds
    BY DEF TcpHolds
  <2>2. /\ tcp_sending' \in [pc : {"none", "size", "payload"}, msg : TcpMessages \cup {<<>>},
                             bytes_sent : Nat, n_attemps : Nat]
        /\ tcp_sending'.pc = "payload" /\ tcp_sending'.msg = msg
        /\ tcp_sending'.bytes_sent = 0
    BY <1>2, <2>1 DEF SendingHolds
  <2>3. 0 < Len(msg)
    BY <1>3
  <2> QED BY <1>1, <1>2, <2>1, <2>2, <2>3 DEF SendingHolds
<1>8. ReadingHolds'
  BY <1>1, <1>2, <1>3, <1>6, PutBehind DEF TcpHolds, ReadingHolds, reader
<1>9. ASSUME reader_fd' = "open"
      PROVE  \E part : UnderWay(part)'
  <2>1. Laid((Got \o tcp_line)', tcp_sent, Written \o SizeOf(msg))
    BY <1>1, <1>2, <1>3, <1>6, <1>9, PutBehind DEF reader
  <2>2. PICK part : part = Written'
    OBVIOUS
  <2>3. Written \o SizeOf(msg) = part /\ part = PacketUpTo(msg, 0)
    BY <2>2, <1>2, <1>3, <1>5, ConcatEmptySeq, SubSeqEmpty DEF PacketUpTo
  <2>4. Partial(part)
    BY <2>3, <1>1, <1>3 DEF Partial
  <2>5. UnderWay(part)'
    BY <1>2, <2>1, <2>2, <2>3, <2>4 DEF UnderWay
  <2> QED BY <2>5
<1> QED BY <1>2, <1>7, <1>8, <1>9 DEF TcpHolds, tcp_outcome

(* The message grows by what is written of it.                               *)
LEMMA PartGrows ==
    ASSUME NEW msg \in TcpMessages, NEW sent \in 0..Len(msg) - 1,
           NEW n \in 1..Len(msg) - sent
    PROVE  /\ SubSeq(Rest(msg, sent), 1, n) \in Seq(LineOctets)
           /\ PacketUpTo(msg, sent) \o SubSeq(Rest(msg, sent), 1, n)
                 = PacketUpTo(msg, sent + n)
<1>1. /\ msg \in Seq(LineOctets) /\ Len(msg) \in Nat
      /\ SizeOctets(Len(msg)) \in Seq(LineOctets)
      /\ \A i \in 1..Len(msg) : msg[i] \in LineOctets
  BY MessageTypes, ElementOfSeq
<1> DEFINE first == SubSeq(msg, 1, sent)
           rest == Rest(msg, sent)
           next == SubSeq(rest, 1, n)
           longer == SubSeq(msg, 1, sent + n)
<1>2. /\ first \in Seq(LineOctets) /\ Len(first) = sent
      /\ \A i \in 1..sent : first[i] = msg[i]
  BY <1>1, SubSeqProperties
<1>3. /\ rest \in Seq(LineOctets) /\ Len(rest) = Len(msg) - sent
      /\ \A i \in 1..Len(msg) - sent : rest[i] = msg[sent + i]
  <2>1. sent + 1 \in Int /\ Len(msg) \in Int /\ sent + 1 <= Len(msg)
    BY <1>1
  <2>2. \A i \in sent + 1..Len(msg) : msg[i] \in LineOctets
    BY <1>1
  <2>3. /\ SubSeq(msg, sent + 1, Len(msg)) \in Seq(LineOctets)
        /\ Len(SubSeq(msg, sent + 1, Len(msg))) = Len(msg) - (sent + 1) + 1
        /\ \A i \in 1..Len(msg) - (sent + 1) + 1 :
              SubSeq(msg, sent + 1, Len(msg))[i] = msg[(sent + 1) + i - 1]
    BY <2>1, <2>2, SubSeqProperties
  <2>4. Len(msg) - (sent + 1) + 1 = Len(msg) - sent
    BY <1>1
  <2>5. \A i \in 1..Len(msg) - sent : (sent + 1) + i - 1 = sent + i
    BY <1>1
  <2> QED BY <2>3, <2>4, <2>5 DEF Rest
<1> HIDE DEF rest
<1>4. /\ next \in Seq(LineOctets) /\ Len(next) = n
      /\ \A i \in 1..n : next[i] = rest[i]
  <2>1. \A i \in 1..n : rest[i] \in LineOctets
    BY <1>1, <1>3, ElementOfSeq
  <2> QED BY <2>1, SubSeqProperties
<1>5. /\ longer \in Seq(LineOctets) /\ Len(longer) = sent + n
      /\ \A i \in 1..sent + n : longer[i] = msg[i]
  <2>1. \A i \in 1..sent + n : msg[i] \in LineOctets
    BY <1>1
  <2> QED BY <2>1, SubSeqProperties
<1> HIDE DEF first, next, longer
<1>6. first \o next = longer
  <2>1. /\ first \o next \in Seq(LineOctets) /\ Len(first \o next) = sent + n
        /\ \A i \in 1..sent + n :
              (first \o next)[i] = IF i <= sent THEN first[i] ELSE next[i - sent]
    BY <1>2, <1>4, ConcatProperties
  <2>2. ASSUME NEW i \in 1..sent + n
        PROVE  (first \o next)[i] = longer[i]
    <3>1. CASE i <= sent
      <4>1. i \in 1..sent
        BY <3>1
      <4> QED BY <4>1, <3>1, <2>1, <1>2, <1>5
    <3>2. CASE ~(i <= sent)
      <4>1. i - sent \in 1..n /\ i - sent \in 1..Len(msg) - sent /\ sent + (i - sent) = i
        BY <3>2, <1>1
      <4> QED BY <4>1, <3>2, <2>1, <1>3, <1>4, <1>5
    <3> QED BY <3>1, <3>2
  <2> QED BY <2>1, <2>2, <1>5, SeqEqual
<1>7. (SizeOctets(Len(msg)) \o first) \o next = SizeOctets(Len(msg)) \o longer
  <2> DEFINE size == SizeOctets(Len(msg))
  <2>1. size \in Seq(LineOctets) /\ first \in Seq(LineOctets) /\ next \in Seq(LineOctets)
    BY <1>1, <1>2, <1>4
  <2> HIDE DEF size
  <2>2. (size \o first) \o next = size \o (first \o next)
    BY <2>1, Associative, Zenon
  <2> QED BY <2>2, <1>6 DEF size
<1> QED BY <1>4, <1>7 DEF PacketUpTo, first, next, longer, rest

LEMMA WritePayloadHolds ==
    ASSUME TcpHolds, WritePayload
    PROVE  TcpHolds'
<1> DEFINE msg == tcp_sending.msg
           sent == tcp_sending.bytes_sent
           octets(n) == SubSeq(Rest(msg, sent), 1, n)
<1>1. /\ tcp_sending.pc = "payload" /\ sender_fd = "open" /\ msg \in TcpMessages
      /\ sent \in Nat /\ sent < Len(msg) /\ Len(msg) \in Nat
      /\ UNCHANGED <<reader, tcp_outcome>>
  BY MessageTypes DEF WritePayload, TcpHolds, SendingHolds
<1>2. PICK n \in 1..Len(msg) - sent :
        /\ Put(octets(n))
        /\ IF n = Len(msg) - sent
           THEN /\ tcp_sending' = NotSending /\ UNCHANGED sender_fd
                /\ tcp_sent' = IF reader_fd = "open" THEN Append(tcp_sent, msg) ELSE tcp_sent
           ELSE TriesAgain(sent + n) /\ UNCHANGED tcp_sent
  BY DEF WritePayload
<1>3. /\ octets(n) \in Seq(LineOctets)
      /\ Written \o octets(n) = PacketUpTo(msg, sent + n)
  <2>1. sent \in 0..Len(msg) - 1 /\ n \in 1..Len(msg) - sent
    BY <1>1
  <2>2. Written = PacketUpTo(msg, sent)
    BY <1>1 DEF Written
  <2>3. /\ SubSeq(Rest(msg, sent), 1, n) \in Seq(LineOctets)
        /\ PacketUpTo(msg, sent) \o SubSeq(Rest(msg, sent), 1, n) = PacketUpTo(msg, sent + n)
    BY <1>1, <2>1, PartGrows
  <2> QED BY <2>2, <2>3
<1>4. /\ tcp_line' \in Seq(LineOctets)
      /\ reader_fd = "closed" => tcp_line' = tcp_line
      /\ reader_fd = "open" =>
            Laid((Got \o tcp_line)', tcp_sent, PacketUpTo(msg, sent + n))
  BY <1>1, <1>2, <1>3, PutBehind
<1>5. CASE n = Len(msg) - sent
  <2>1. /\ tcp_sending' = NotSending /\ sender_fd' = "open"
        /\ tcp_sent' = IF reader_fd = "open" THEN Append(tcp_sent, msg) ELSE tcp_sent
    BY <1>1, <1>2, <1>5
  <2>2. SendingHolds' /\ Written' = <<>>
    BY <2>1 DEF SendingHolds, NotSending, Written
  <2>3. tcp_sent \in Seq(TcpMessages) /\ tcp_sent' \in Seq(TcpMessages)
    BY <1>1, <2>1, AppendProperties DEF TcpHolds, ReadingHolds
  <2>4. ReadingHolds'
    BY <1>1, <1>4, <2>1, <2>3 DEF TcpHolds, ReadingHolds, reader
  <2>5. ASSUME reader_fd' = "open"
        PROVE  UnderWay(<<>>)'
    <3>1. /\ reader_fd = "open" /\ sent + n = Len(msg)
      BY <1>1, <1>5, <2>5 DEF reader
    <3>2. Packet(msg) = PacketUpTo(msg, Len(msg))
      BY <1>1, PacketTypes
    <3>3. Laid((Got \o tcp_line)', tcp_sent, Packet(msg))
      BY <1>4, <3>1, <3>2
    <3>4. Laid((Got \o tcp_line)', Append(tcp_sent, msg), <<>>)
      BY <1>1, <2>3, <3>3, LaidWhole
    <3> QED BY <2>1, <2>2, <3>1, <3>4 DEF UnderWay, Partial
  <2> QED BY <1>1, <2>2, <2>4, <2>5 DEF TcpHolds, tcp_outcome
<1>6. CASE n # Len(msg) - sent
  <2>1. sent + n \in 0..Len(msg) - 1 /\ sent + n \in Nat /\ sent + n < Len(msg)
    BY <1>1, <1>6
  <2>2. TriesAgain(sent + n) /\ tcp_sent' = tcp_sent /\ SendingHolds
    BY <1>2, <1>6 DEF TcpHolds
  <2>3. \/ sender_fd' = "closed" /\ tcp_sending' = NotSending
        \/ /\ sender_fd' = sender_fd
           /\ tcp_sending' \in [pc : {"none", "size", "payload"}, bytes_sent : Nat,
                                msg : TcpMessages \cup {<<>>}, n_attemps : Nat]
           /\ tcp_sending'.pc = tcp_sending.pc /\ tcp_sending'.msg = tcp_sending.msg
           /\ tcp_sending'.bytes_sent = sent + n
    BY <2>1, <2>2, AttemptCounted
  <2>4. SendingHolds'
    <3>1. CASE sender_fd' = "closed" /\ tcp_sending' = NotSending
      BY <3>1 DEF SendingHolds, NotSending
    <3>2. CASE tcp_sending' # NotSending
      BY <1>1, <2>1, <2>3, <3>2 DEF SendingHolds
    <3>3. CASE sender_fd' = sender_fd /\ tcp_sending'.pc = tcp_sending.pc
      BY <1>1, <2>1, <2>3, <3>3 DEF SendingHolds, NotSending
    <3> QED BY <2>3, <3>1, <3>3
  <2>5. ReadingHolds'
    BY <1>1, <1>4, <2>2 DEF TcpHolds, ReadingHolds, reader
  <2>6. ASSUME reader_fd' = "open"
        PROVE  \E part : UnderWay(part)'
    <3>1. PICK part : part = PacketUpTo(msg, sent + n)
      OBVIOUS
    <3>2. Partial(part)
      BY <1>1, <2>1, <3>1 DEF Partial
    <3>3. sender_fd' = "open" => Written' = part
      BY <1>1, <2>3, <3>1 DEF Written
    <3>4. Laid((Got \o tcp_line)', tcp_sent', part)
      BY <1>1, <1>4, <2>2, <2>6, <3>1 DEF reader
    <3>5. UnderWay(part)'
      BY <3>2, <3>3, <3>4 DEF UnderWay
    <3> QED BY <3>5
  <2> QED BY <1>1, <2>4, <2>5, <2>6 DEF TcpHolds, tcp_outcome
<1> QED BY <1>5, <1>6

(***************************************************************************)
(* The reader.                                                             *)
(***************************************************************************)
(* The line, cut where a read ends.                                          *)
LEMMA LineCut ==
    ASSUME NEW line \in Seq(LineOctets), NEW n \in 1..Len(line)
    PROVE  /\ SubSeq(line, 1, n) \in Seq(LineOctets) /\ Len(SubSeq(line, 1, n)) = n
           /\ SubSeq(line, n + 1, Len(line)) \in Seq(LineOctets)
           /\ line = SubSeq(line, 1, n) \o SubSeq(line, n + 1, Len(line))
           /\ n = 1 => SubSeq(line, 1, n) = <<line[1]>>
           /\ n = 2 => SubSeq(line, 1, n) = <<line[1], line[2]>>
           /\ line[1] \in LineOctets /\ n = 2 => line[2] \in LineOctets
<1>1. Len(line) \in Nat /\ \A i \in 1..Len(line) : line[i] \in LineOctets
  BY LenProperties, ElementOfSeq
<1>2. /\ SubSeq(line, 1, n) \in Seq(LineOctets) /\ Len(SubSeq(line, 1, n)) = n
      /\ \A i \in 1..n : SubSeq(line, 1, n)[i] = line[i]
  <2>1. \A i \in 1..n : line[i] \in LineOctets
    BY <1>1
  <2> QED BY <1>1, <2>1, SubSeqProperties
<1>3. SubSeq(line, n + 1, Len(line)) \in Seq(LineOctets)
  <2>1. \A i \in n + 1..Len(line) : line[i] \in LineOctets
    BY <1>1
  <2> QED BY <1>1, <2>1, SubSeqProperties
<1>4. SubSeq(line, 1, n) \o SubSeq(line, n + 1, Len(line)) = SubSeq(line, 1, Len(line))
  <2>1. 1 \in 1..Len(line) + 1 /\ n \in 1 - 1..Len(line) /\ Len(line) \in n..Len(line)
    BY <1>1
  <2> QED BY <2>1, ConcatAdjacentSubSeq
<1>5. SubSeq(line, 1, Len(line)) = line
  BY SubSeqFull
<1>6. ASSUME n = 1 PROVE SubSeq(line, 1, n) = <<line[1]>>
  <2>1. <<line[1]>> \in Seq(LineOctets)
    BY <1>1, <1>6
  <2>2. SubSeq(line, 1, n)[1] = line[1]
    BY <1>2, <1>6
  <2>3. \A i \in 1..n : SubSeq(line, 1, n)[i] = <<line[1]>>[i]
    BY <2>2, <1>6
  <2>4. Len(<<line[1]>>) = n
    BY <1>6
  <2> QED BY <2>1, <2>3, <2>4, <1>2, SeqEqual
<1>7. ASSUME n = 2 PROVE SubSeq(line, 1, n) = <<line[1], line[2]>>
  <2>1. 1 \in 1..Len(line) /\ 2 \in 1..Len(line)
    BY <1>1, <1>7
  <2>2. <<line[1], line[2]>> \in Seq(LineOctets)
    BY <1>1, <2>1
  <2>3. SubSeq(line, 1, n)[1] = line[1] /\ SubSeq(line, 1, n)[2] = line[2]
    BY <1>2, <1>7
  <2>4. \A i \in 1..n : SubSeq(line, 1, n)[i] = <<line[1], line[2]>>[i]
    <3>1. \A i \in 1..n : i = 1 \/ i = 2
      BY <1>7
    <3> QED BY <2>3, <3>1
  <2>5. Len(<<line[1], line[2]>>) = n
    BY <1>7
  <2> QED BY <2>2, <2>4, <2>5, <1>2, SeqEqual
<1> QED BY <1>1, <1>2, <1>3, <1>4, <1>5, <1>6, <1>7

(* Octets that go from the line to the reader leave what is under way.       *)
LEMMA ReaderTakes ==
    ASSUME TcpHolds, reader_fd = "open", ReadingHolds',
           NEW taken \in Seq(LineOctets), NEW behind \in Seq(LineOctets),
           tcp_line = taken \o behind, tcp_line' = behind, Got' = Got \o taken,
           UNCHANGED <<sender, reader_fd, tcp_sent, tcp_outcome>>
    PROVE  TcpHolds'
<1>1. Got \in Seq(LineOctets)
  BY GotIsSeq DEF TcpHolds
<1>2. (Got \o taken) \o behind = Got \o (taken \o behind)
  BY <1>1, ConcatAssociative
<1>3. (Got \o tcp_line)' = Got \o tcp_line
  BY <1>2
<1>4. PICK part : UnderWay(part)
  BY DEF TcpHolds
<1>5. Written' = Written /\ SendingHolds'
  BY DEF TcpHolds, SendingHolds, Written, sender
<1>6. UnderWay(part)'
  BY <1>3, <1>4, <1>5 DEF UnderWay, sender
<1> QED BY <1>5, <1>6 DEF TcpHolds, tcp_outcome

(* A size that is read whole is the one of a message: it is not zero.        *)
LEMMA SizeReadIsOfMessage ==
    ASSUME TcpHolds, reader_fd = "open", NEW lsb \in LineOctets, NEW msb \in LineOctets,
           NEW behind \in Seq(LineOctets), Got \o tcp_line = <<lsb, msb>> \o behind
    PROVE  /\ SizeReadIn(lsb, msb) \in Nat \ {0}
           /\ SizeOctets(SizeReadIn(lsb, msb)) = <<lsb, msb>>
<1> DEFINE stream == Got \o tcp_line
           size == SizeReadIn(lsb, msb)
<1>1. size \in Nat /\ SizeOctets(size) = <<lsb, msb>>
  BY SizeReadBack
<1>2. <<lsb, msb>> \in Seq(LineOctets) /\ Len(<<lsb, msb>>) = 2
  OBVIOUS
<1>3. Len(stream) = Len(<<lsb, msb>>) + Len(behind) /\ Len(behind) \in Nat
  BY <1>2, ConcatProperties, LenProperties
<1>4. PICK part : UnderWay(part)
  BY DEF TcpHolds
<1>5. stream # <<>>
  BY <1>2, <1>3
<1> HIDE DEF stream, size
<1>6. PICK msg \in TcpMessages, tail \in Seq(LineOctets) : stream = SizeOctets(Len(msg)) \o tail
  <2>1. Laid(stream, tcp_sent, part) /\ Partial(part) /\ tcp_sent \in Seq(TcpMessages)
    BY <1>4 DEF UnderWay, TcpHolds, ReadingHolds, stream
  <2>2. \E msg \in TcpMessages, tail \in Seq(LineOctets) :
            /\ stream = SizeOctets(Len(msg)) \o tail
            /\ Len(tail) >= Len(msg) => tcp_sent # <<>>
    BY <2>1, <1>5, BeginsWithSize
  <2> QED BY <2>2
<1>7. /\ Len(msg) \in Nat \ {0} /\ SizeOctets(Len(msg)) \in Seq(LineOctets)
      /\ Len(SizeOctets(Len(msg))) = 2
  BY MessageTypes
<1>8. SizeOctets(Len(msg)) = <<lsb, msb>>
  <2> DEFINE a == <<lsb, msb>>
             c == SizeOctets(Len(msg))
  <2>1. /\ a \in Seq(LineOctets) /\ Len(a) = 2 /\ c \in Seq(LineOctets) /\ Len(c) = 2
        /\ a \o behind = c \o tail
    BY <1>2, <1>6, <1>7 DEF stream
  <2> HIDE DEF a, c
  <2>2. a = c
    BY <2>1, SameCut
  <2> QED BY <2>2 DEF a, c
<1>9. size = Len(msg)
  BY <1>1, <1>7, <1>8, SizeKnown
<1> QED BY <1>1, <1>7, <1>9 DEF size

LEMMA ArrivesOnLine ==
    ASSUME tcp_line \in Seq(LineOctets), NEW max \in Nat, NEW n, Arrives(n, max)
    PROVE  reader_fd = "open" /\ n \in 1..Len(tcp_line) /\ n <= max
  BY LenProperties DEF Arrives, Fewer

LEMMA ReadSizeHolds ==
    ASSUME TcpHolds, ReadSize
    PROVE  TcpHolds'
<1>1. tcp_line \in Seq(LineOctets) /\ tcp_state = "empty" /\ Got = <<>> /\ input' = <<>>
  BY DEF TcpHolds, ReadingHolds, ReadSize, Got
<1>2. PICK n \in 1..2 :
        /\ Arrives(n, 2)
        /\ tcp_line' = Removed(n)
        /\ msg_size' = IF n = 2 THEN SizeReadIn(tcp_line[1], tcp_line[2]) ELSE tcp_line[1]
        /\ tcp_state' = IF n = 2 THEN StateOfSize(msg_size') ELSE "size_incomplete"
  BY DEF ReadSize
<1>3. reader_fd = "open" /\ n \in 1..Len(tcp_line)
  BY <1>1, <1>2, ArrivesOnLine
<1>4. UNCHANGED <<sender, reader_fd, tcp_sent, tcp_outcome>>
  BY DEF ReadSize
<1> DEFINE taken == SubSeq(tcp_line, 1, n)
           behind == SubSeq(tcp_line, n + 1, Len(tcp_line))
<1>5. /\ taken \in Seq(LineOctets) /\ behind \in Seq(LineOctets) /\ tcp_line = taken \o behind
      /\ n = 1 => taken = <<tcp_line[1]>>
      /\ n = 2 => taken = <<tcp_line[1], tcp_line[2]>>
      /\ tcp_line[1] \in LineOctets /\ n = 2 => tcp_line[2] \in LineOctets
  BY <1>1, <1>3, LineCut
<1>6. tcp_line' = behind
  BY <1>2 DEF Removed
<1> HIDE DEF taken, behind
<1>7. <<>> \in Seq(LineOctets) /\ Got \o taken = taken /\ Got \o tcp_line = tcp_line
  BY <1>1, <1>5, ConcatEmptySeq, EmptySeq
<1>8. CASE n = 1
  <2>1. tcp_state' = "size_incomplete" /\ msg_size' = tcp_line[1]
    BY <1>2, <1>8
  <2>2. Got' = <<tcp_line[1]>> /\ msg_size' \in LineOctets
    BY <2>1, <1>5, <1>3, <1>1, ElementOfSeq DEF Got
  <2>3. msg_size' \in Nat
    BY <2>2, TcpAssumption DEF LineOctets
  <2>4. ReadingHolds'
    BY <1>1, <1>3, <1>4, <1>5, <1>6, <1>7, <2>1, <2>2, <2>3 DEF TcpHolds, ReadingHolds
  <2>5. Got' = Got \o taken
    BY <1>5, <1>7, <1>8, <2>2
  <2> QED BY <1>3, <1>4, <1>5, <1>6, <2>4, <2>5, ReaderTakes
<1>9. CASE n = 2
  <2> DEFINE lsb == tcp_line[1]
             msb == tcp_line[2]
             size == SizeReadIn(lsb, msb)
  <2>1. lsb \in LineOctets /\ msb \in LineOctets /\ taken = <<lsb, msb>>
    <3>1. 1 \in 1..Len(tcp_line) /\ 2 \in 1..Len(tcp_line)
      BY <1>1, <1>3, <1>9, LenProperties
    <3> QED BY <3>1, <1>1, <1>5, <1>9, ElementOfSeq
  <2>2. Got \o tcp_line = <<lsb, msb>> \o behind
    BY <2>1, <1>5, <1>7
  <2> HIDE DEF lsb, msb
  <2>3. size \in Nat \ {0} /\ SizeOctets(size) = <<lsb, msb>>
    BY <1>3, <1>5, <2>1, <2>2, SizeReadIsOfMessage
  <2>4. msg_size' = size /\ tcp_state' = "size_read"
    BY <1>2, <1>9, <2>3 DEF StateOfSize, lsb, msb
  <2>5. SizeOctets(size) = taken
    BY <2>1, <2>3
  <2> HIDE DEF size
  <2>6. Got' = taken
    BY <1>1, <1>5, <2>4, <2>5, ConcatEmptySeq DEF Got
  <2>7. Len(<<>>) = 0
    BY EmptySeq
  <2>8. Len(input') < msg_size'
    BY <1>1, <2>3, <2>4, <2>7
  <2>9. ReadingHolds'
    BY <1>1, <1>3, <1>4, <1>5, <1>6, <1>7, <2>3, <2>4, <2>5, <2>8
       DEF TcpHolds, ReadingHolds
  <2>10. Got' = Got \o taken
    BY <1>7, <2>6
  <2> QED BY <1>3, <1>4, <1>5, <1>6, <2>9, <2>10, ReaderTakes
<1> QED BY <1>8, <1>9

LEMMA ReadRestOfSizeHolds ==
    ASSUME TcpHolds, ReadRestOfSize
    PROVE  TcpHolds'
<1>1. /\ tcp_line \in Seq(LineOctets) /\ tcp_state = "size_incomplete" /\ input' = <<>>
      /\ msg_size \in LineOctets /\ Got = <<msg_size>>
  BY DEF TcpHolds, ReadingHolds, ReadRestOfSize, Got
<1>2. reader_fd = "open" /\ 1 \in 1..Len(tcp_line)
  BY <1>1, ArrivesOnLine DEF ReadRestOfSize
<1>3. UNCHANGED <<sender, reader_fd, tcp_sent, tcp_outcome>>
  BY DEF ReadRestOfSize
<1> DEFINE lsb == msg_size
           msb == tcp_line[1]
           size == SizeReadIn(lsb, msb)
           taken == SubSeq(tcp_line, 1, 1)
           behind == SubSeq(tcp_line, 1 + 1, Len(tcp_line))
<1>4. /\ taken \in Seq(LineOctets) /\ behind \in Seq(LineOctets) /\ tcp_line = taken \o behind
      /\ taken = <<msb>>
  BY <1>1, <1>2, LineCut
<1>5. tcp_line' = behind /\ msg_size' = size /\ tcp_state' = StateOfSize(size)
  BY DEF ReadRestOfSize, Removed
<1>6. lsb \in LineOctets /\ msb \in LineOctets
  BY <1>1, <1>2, ElementOfSeq
<1> HIDE DEF taken, behind, msb
<1>7. Got \o taken = <<lsb, msb>>
  <2>1. <<lsb>> \o <<msb>> = <<lsb, msb>>
    BY <1>6, TwoJoined
  <2> QED BY <2>1, <1>1, <1>4
<1>8. Got \o tcp_line = <<lsb, msb>> \o behind
  <2>1. Got \in Seq(LineOctets)
    BY GotIsSeq DEF TcpHolds
  <2>2. (Got \o taken) \o behind = Got \o (taken \o behind)
    BY <2>1, <1>4, Associative, Zenon
  <2> QED BY <2>2, <1>4, <1>7
<1> HIDE DEF lsb
<1>9. size \in Nat \ {0} /\ SizeOctets(size) = <<lsb, msb>>
  BY <1>2, <1>4, <1>6, <1>8, SizeReadIsOfMessage
<1> HIDE DEF size
<1>10. tcp_state' = "size_read" /\ <<lsb, msb>> \in Seq(LineOctets)
  BY <1>5, <1>6, <1>9 DEF StateOfSize
<1>11. Got' = <<lsb, msb>>
  BY <1>1, <1>5, <1>9, <1>10, ConcatEmptySeq DEF Got
<1>12. Len(input') < msg_size' /\ <<>> \in Seq(LineOctets)
  <2>1. Len(<<>>) = 0 /\ <<>> \in Seq(LineOctets)
    BY EmptySeq
  <2> QED BY <2>1, <1>1, <1>5, <1>9
<1>13. ReadingHolds'
  BY <1>1, <1>2, <1>3, <1>4, <1>5, <1>9, <1>10, <1>12 DEF TcpHolds, ReadingHolds
<1> QED BY <1>2, <1>3, <1>4, <1>5, <1>7, <1>11, <1>13, ReaderTakes

LEMMA ReadMessageHolds ==
    ASSUME TcpHolds, ReadMessage
    PROVE  TcpHolds'
<1>1. /\ tcp_line \in Seq(LineOctets) /\ tcp_state \in {"size_read", "message_incomplete"}
      /\ msg_size \in Nat /\ input \in Seq(LineOctets) /\ Len(input) < msg_size
      /\ SizeOctets(msg_size) \in Seq(LineOctets) /\ Len(input) \in Nat
      /\ Got = SizeOctets(msg_size) \o input
  BY LenProperties DEF TcpHolds, ReadingHolds, ReadMessage, Got
<1>2. PICK n \in 1..msg_size - Len(input) :
        /\ Arrives(n, msg_size - Len(input))
        /\ tcp_line' = Removed(n)
        /\ input' = input \o SubSeq(tcp_line, 1, n)
        /\ tcp_state' = IF Len(input') = msg_size THEN "message_available"
                        ELSE "message_incomplete"
  BY DEF ReadMessage
<1>3. reader_fd = "open" /\ n \in 1..Len(tcp_line)
  <2>1. msg_size - Len(input) \in Nat
    BY <1>1
  <2> QED BY <1>1, <1>2, <2>1, ArrivesOnLine
<1>4. UNCHANGED <<sender, reader_fd, msg_size, tcp_sent, tcp_outcome>>
  BY DEF ReadMessage
<1> DEFINE taken == SubSeq(tcp_line, 1, n)
           behind == SubSeq(tcp_line, n + 1, Len(tcp_line))
<1>5. /\ taken \in Seq(LineOctets) /\ behind \in Seq(LineOctets) /\ tcp_line = taken \o behind
      /\ Len(taken) = n
  BY <1>1, <1>3, LineCut
<1>6. tcp_line' = behind /\ input' = input \o taken
  BY <1>2 DEF Removed
<1> HIDE DEF taken, behind
<1>7. input' \in Seq(LineOctets) /\ Len(input') = Len(input) + n
  BY <1>1, <1>5, <1>6, ConcatProperties
<1>8. Len(input') <= msg_size
  BY <1>1, <1>2, <1>7
<1>9. ReadingHolds'
  <2>1. /\ tcp_state' = "message_available" => Len(input') = msg_size
        /\ tcp_state' = "message_incomplete" => Len(input') < msg_size
        /\ tcp_state' \in {"message_available", "message_incomplete"}
    <3>1. Len(input') \in Nat /\ msg_size \in Nat
      BY <1>1, <1>7
    <3>2. CASE Len(input') = msg_size
      BY <3>2, <1>2
    <3>3. CASE Len(input') # msg_size
      <4>1. tcp_state' = "message_incomplete"
        BY <3>3, <1>2
      <4>2. Len(input') < msg_size
        BY <3>1, <3>3, <1>8
      <4> QED BY <4>1, <4>2
    <3> QED BY <3>2, <3>3
  <2> QED BY <2>1, <1>1, <1>3, <1>4, <1>5, <1>6, <1>7 DEF TcpHolds, ReadingHolds
<1>10. Got' = Got \o taken
  <2>1. Got' = SizeOctets(msg_size) \o (input \o taken)
    BY <1>2, <1>4, <1>6 DEF Got
  <2>2. (SizeOctets(msg_size) \o input) \o taken = SizeOctets(msg_size) \o (input \o taken)
    BY <1>1, <1>5, Associative, Zenon
  <2> QED BY <2>1, <2>2, <1>1
<1> QED BY <1>3, <1>4, <1>5, <1>6, <1>9, <1>10, ReaderTakes

(* The message that is returned is the first one sent and not read.          *)
LEMMA ReturnedIsFirst ==
    ASSUME TcpHolds, tcp_state = "message_available"
    PROVE  /\ tcp_sent # <<>> /\ input = tcp_sent[1] /\ reader_fd = "open"
           /\ \A part : UnderWay(part) => Laid(tcp_line, Tail(tcp_sent), part)
<1>1. /\ tcp_line \in Seq(LineOctets) /\ input \in Seq(LineOctets) /\ tcp_sent \in Seq(TcpMessages)
      /\ SizeOctets(Len(input)) \in Seq(LineOctets) /\ reader_fd = "open"
      /\ Got = SizeOctets(Len(input)) \o input
  BY DEF TcpHolds, ReadingHolds, Got
<1>2. Len(SizeOctets(Len(input))) = 2
  BY DEF SizeOctets
<1>3. ASSUME NEW part, UnderWay(part)
      PROVE  /\ tcp_sent # <<>> /\ input = tcp_sent[1]
             /\ Laid(tcp_line, Tail(tcp_sent), part)
  <2>1. Partial(part) /\ Laid((SizeOctets(Len(input)) \o input) \o tcp_line, tcp_sent, part)
    BY <1>1, <1>3 DEF UnderWay
  <2> QED BY <2>1, <1>1, <1>2, FirstIsRead
<1>4. \E part : UnderWay(part)
  BY <1>1 DEF TcpHolds
<1> QED BY <1>1, <1>3, <1>4

LEMMA ReturnMessageHolds ==
    ASSUME TcpHolds, ReturnMessage
    PROVE  TcpHolds'
<1>1. /\ tcp_state = "message_available" /\ tcp_state' = "empty"
      /\ tcp_round' = 1 - tcp_round
      /\ tcp_sent' = IF tcp_sent = <<>> THEN <<>> ELSE Tail(tcp_sent)
      /\ UNCHANGED <<tcp_line, sender, reader_fd, msg_size, input>>
  BY DEF ReturnMessage
<1>2. /\ tcp_sent # <<>> /\ reader_fd = "open"
      /\ \A part : UnderWay(part) => Laid(tcp_line, Tail(tcp_sent), part)
  BY <1>1, ReturnedIsFirst
<1>3. tcp_sent' = Tail(tcp_sent) /\ tcp_sent' \in Seq(TcpMessages)
  <2>1. tcp_sent \in Seq(TcpMessages)
    BY DEF TcpHolds, ReadingHolds
  <2> QED BY <2>1, <1>1, <1>2, HeadTailProperties
<1>4. ReadingHolds'
  BY <1>1, <1>2, <1>3 DEF TcpHolds, ReadingHolds
<1>5. (Got \o tcp_line)' = tcp_line
  <2>1. Got' = <<>> /\ tcp_line' = tcp_line /\ tcp_line \in Seq(LineOctets)
    BY <1>1 DEF Got, TcpHolds, ReadingHolds
  <2> QED BY <2>1, ConcatEmptySeq
<1>6. Written' = Written /\ SendingHolds'
  BY <1>1 DEF TcpHolds, SendingHolds, Written, sender
<1>7. PICK part : UnderWay(part)
  BY <1>2 DEF TcpHolds
<1>8. UnderWay(part)'
  BY <1>1, <1>2, <1>3, <1>5, <1>6, <1>7 DEF UnderWay, sender
<1>9. (tcp_round \in {0, 1})'
  BY <1>1 DEF TcpHolds
<1> QED BY <1>4, <1>6, <1>8, <1>9 DEF TcpHolds

LEMMA ReadFailsHolds ==
    ASSUME TcpHolds, ReadFails
    PROVE  TcpHolds'
<1>1. /\ reader_fd' = "closed" /\ tcp_line' = <<>> /\ tcp_sent' = <<>>
      /\ tcp_state # "message_available"
      /\ UNCHANGED <<sender, tcp_state, msg_size, input, tcp_outcome>>
  BY DEF ReadFails
<1>2. SendingHolds'
  BY <1>1 DEF TcpHolds, SendingHolds, sender
<1>3. <<>> \in Seq(LineOctets) /\ <<>> \in Seq(TcpMessages)
  BY EmptySeq
<1>4. ReadingHolds'
  BY <1>1, <1>3 DEF TcpHolds, ReadingHolds
<1> QED BY <1>1, <1>2, <1>4 DEF TcpHolds, tcp_outcome

LEMMA ReconnectHolds ==
    ASSUME TcpHolds, Reconnect
    PROVE  TcpHolds'
<1>1. /\ tcp_line' = <<>> /\ sender_fd' = "open" /\ reader_fd' = "open"
      /\ tcp_state' = "empty" /\ tcp_sent' = <<>> /\ tcp_sending.pc = "none"
      /\ UNCHANGED <<tcp_sending, msg_size, input, tcp_outcome>>
  BY DEF Reconnect
<1>2. SendingHolds'
  BY <1>1 DEF TcpHolds, SendingHolds
<1>3. <<>> \in Seq(LineOctets) /\ <<>> \in Seq(TcpMessages)
  BY EmptySeq
<1>4. ReadingHolds'
  BY <1>1, <1>3 DEF TcpHolds, ReadingHolds
<1>5. (Got \o tcp_line)' = <<>> /\ Written' = <<>>
  BY <1>1, ConcatEmptySeq DEF Got, Written
<1>6. Laid(<<>>, <<>>, <<>>)
  BY <1>3, LaidPart
<1>7. UnderWay(<<>>)'
  BY <1>1, <1>5, <1>6 DEF UnderWay, Partial
<1> QED BY <1>1, <1>2, <1>4, <1>7 DEF TcpHolds, tcp_outcome

(***************************************************************************)
(* The theorems.                                                           *)
(***************************************************************************)
LEMMA StepHolds ==
    ASSUME TcpHolds, SizeTaken = {2}, [NextTcp]_tcp_vars
    PROVE  TcpHolds'
<1>1. CASE \E msg \in TcpMessages : Send(msg)
  BY <1>1, SendHolds
<1>2. CASE WriteSize
  BY <1>2, WriteSizeHolds
<1>3. CASE WritePayload
  BY <1>3, WritePayloadHolds
<1>4. CASE WriteTakesNothing \/ WriteFails
  BY <1>4, NothingWrittenHolds
<1>5. CASE TcpReads
  BY <1>5, ReadSizeHolds, ReadRestOfSizeHolds, ReadMessageHolds, ReturnMessageHolds
     DEF TcpReads
<1>6. CASE ReadFails
  BY <1>6, ReadFailsHolds
<1>7. CASE Reconnect
  BY <1>7, ReconnectHolds
<1>8. CASE UNCHANGED tcp_vars
  <2>1. /\ UNCHANGED <<tcp_line, sender, reader, tcp_sent, tcp_outcome>>
        /\ Got' = Got /\ Written' = Written
    BY <1>8 DEF tcp_vars, sender, reader, Got, Written
  <2>2. SendingHolds'
    BY <2>1 DEF TcpHolds, SendingHolds, sender
  <2>3. ReadingHolds'
    BY <2>1 DEF TcpHolds, ReadingHolds, reader
  <2>4. \A part : UnderWay(part) => UnderWay(part)'
    BY <2>1 DEF UnderWay, sender
  <2> QED BY <2>1, <2>2, <2>3, <2>4 DEF TcpHolds, reader, tcp_outcome
<1> QED BY <1>1, <1>2, <1>3, <1>4, <1>5, <1>6, <1>7, <1>8 DEF NextTcp

(* A line that takes the two octets of a size at once carries the messages   *)
(* one behind the other and nothing else, however they are cut (send_tcp_msg *)
(* and read_tcp_data): what the reader has and what it has still to read are *)
(* the messages sent, behind them the octets of one that is sent in part.    *)
THEOREM LineHoldsMessages ==
    ASSUME SizeTaken = {2}
    PROVE  TcpSpec => []TcpHolds
<1>1. InitTcp => TcpHolds
  BY InitHolds
<1>2. TcpHolds /\ [NextTcp]_tcp_vars => TcpHolds'
  BY StepHolds
<1> QED BY <1>1, <1>2, PTL DEF TcpSpec

(***************************************************************************)
(* Each step of the connection is one of FramedLine, or none.              *)
(***************************************************************************)
LEMMA SentMessagesAre ==
    ASSUME TcpHolds
    PROVE  /\ SentMessages \in Seq([payload : TcpMessages, kind : {"whole"}])
           /\ Len(SentMessages) = Len(tcp_sent)
           /\ tcp_sent \in Seq(TcpMessages) /\ Len(tcp_sent) \in Nat
           /\ \A n \in 1..Len(tcp_sent) :
                 /\ tcp_sent[n] \in TcpMessages
                 /\ SentMessages[n] = [payload |-> tcp_sent[n], kind |-> "whole"]
<1>1. /\ tcp_sent \in Seq(TcpMessages) /\ Len(tcp_sent) \in Nat
      /\ \A n \in 1..Len(tcp_sent) : tcp_sent[n] \in TcpMessages
  BY LenProperties, ElementOfSeq DEF TcpHolds, ReadingHolds
<1>2. \A n \in 1..Len(tcp_sent) :
         [payload |-> tcp_sent[n], kind |-> "whole"] \in [payload : TcpMessages, kind : {"whole"}]
  BY <1>1
<1>3. SentMessages \in Seq([payload : TcpMessages, kind : {"whole"}])
  BY <1>1, <1>2, IsASeq DEF SentMessages
<1> QED BY <1>1, <1>3 DEF SentMessages

LEMMA SentIsWritten ==
    ASSUME TcpHolds, TcpHolds', NEW msg \in TcpMessages, tcp_sent' = Append(tcp_sent, msg),
           UNCHANGED tcp_outcome
    PROVE  Connection!Write
<1> DEFINE frame == [payload |-> msg, kind |-> "whole"]
           Entry == [payload : TcpMessages, kind : {"whole"}]
<1>1. /\ SentMessages \in Seq(Entry) /\ Len(SentMessages) = Len(tcp_sent)
      /\ tcp_sent \in Seq(TcpMessages) /\ Len(tcp_sent) \in Nat
      /\ \A n \in 1..Len(tcp_sent) :
            SentMessages[n] = [payload |-> tcp_sent[n], kind |-> "whole"]
  BY SentMessagesAre
<1>2. /\ Len(tcp_sent') = Len(tcp_sent) + 1 /\ tcp_sent'[Len(tcp_sent) + 1] = msg
      /\ \A n \in 1..Len(tcp_sent) : tcp_sent'[n] = tcp_sent[n]
  BY <1>1, AppendProperties
<1>3. frame \in Entry
  OBVIOUS
<1>4. /\ Append(SentMessages, frame) \in Seq(Entry)
      /\ Len(Append(SentMessages, frame)) = Len(tcp_sent) + 1
      /\ \A n \in 1..Len(tcp_sent) : Append(SentMessages, frame)[n] = SentMessages[n]
      /\ Append(SentMessages, frame)[Len(tcp_sent) + 1] = frame
  BY <1>1, <1>3, AppendProperties
<1>5. SentMessages' = [n \in 1..Len(tcp_sent) + 1 |-> [payload |-> tcp_sent'[n], kind |-> "whole"]]
  BY <1>2 DEF SentMessages
<1> HIDE DEF frame, Entry
<1>6. Append(SentMessages, frame) = SentMessages'
  <2>1. Append(SentMessages, frame) \in [1..Len(tcp_sent) + 1 -> Entry]
    BY <1>4, LenProperties
  <2>2. ASSUME NEW n \in 1..Len(tcp_sent) + 1
        PROVE  Append(SentMessages, frame)[n] = [payload |-> tcp_sent'[n], kind |-> "whole"]
    <3>1. CASE n = Len(tcp_sent) + 1
      BY <3>1, <1>2, <1>4 DEF frame
    <3>2. CASE n # Len(tcp_sent) + 1
      <4>1. n \in 1..Len(tcp_sent)
        BY <3>2, <1>1
      <4> QED BY <4>1, <1>1, <1>2, <1>4
    <3> QED BY <3>1, <3>2
  <2> QED BY <2>1, <2>2, <1>5
<1>7. "whole" \in Connection!Kinds
  BY DEF Connection!Kinds
<1> QED BY <1>6, <1>7 DEF Connection!Write, tcp_outcome, frame

LEMMA ReturnIsReceived ==
    ASSUME TcpHolds, TcpHolds', ReturnMessage
    PROVE  /\ Len(SentMessages) \in Nat \ {0}
           /\ Connection!Receive(1)
<1>1. /\ SentMessages \in Seq([payload : TcpMessages, kind : {"whole"}])
      /\ Len(SentMessages) = Len(tcp_sent) /\ Len(tcp_sent) \in Nat
      /\ tcp_sent \in Seq(TcpMessages)
      /\ \A n \in 1..Len(tcp_sent) :
            /\ tcp_sent[n] \in TcpMessages
            /\ SentMessages[n] = [payload |-> tcp_sent[n], kind |-> "whole"]
  BY SentMessagesAre
<1>2. /\ tcp_sent # <<>> /\ tcp_received' = tcp_sent[1] /\ tcp_round' = 1 - tcp_round
      /\ tcp_sent' = Tail(tcp_sent)
  BY ReturnedIsFirst DEF ReturnMessage
<1>3. /\ Len(tcp_sent) \in Nat \ {0} /\ Len(tcp_sent') = Len(tcp_sent) - 1
      /\ \A n \in 1..Len(tcp_sent') : tcp_sent'[n] = tcp_sent[n + 1]
  BY <1>1, <1>2, EmptySeq, HeadTailProperties
<1>4. SentMessages[1].payload = tcp_sent[1] /\ SentMessages[1].kind = "whole"
  <2>1. 1 \in 1..Len(tcp_sent)
    BY <1>3
  <2>2. SentMessages[1] = [payload |-> tcp_sent[1], kind |-> "whole"]
    BY <2>1, <1>1
  <2> QED BY <2>2
<1>5. tcp_sent[1] # <<>>
  <2>1. tcp_sent[1] \in TcpMessages
    BY <1>1, <1>3
  <2>2. Len(tcp_sent[1]) \in Nat \ {0}
    BY <2>1, MessageTypes
  <2> QED BY <2>2, EmptySeq
<1>6. Connection!Expected(1)
  BY <1>4, <1>5 DEF Connection!Expected
<1>7. SentMessages' = SubSeq(SentMessages, 2, Len(SentMessages))
  <2> DEFINE behind == SubSeq(SentMessages, 2, Len(SentMessages))
             Entry == [payload : TcpMessages, kind : {"whole"}]
  <2>1. \A n \in 2..Len(SentMessages) : SentMessages[n] \in Entry
    <3>1. \A n \in 2..Len(SentMessages) : n \in 1..Len(SentMessages)
      BY <1>1
    <3> QED BY <3>1, <1>1, ElementOfSeq
  <2>2. /\ behind \in Seq(Entry) /\ Len(behind) = Len(tcp_sent')
        /\ \A n \in 1..Len(tcp_sent') : behind[n] = SentMessages[n + 1]
    <3>1. /\ behind \in Seq(Entry)
          /\ Len(behind) = IF 2 <= Len(SentMessages) THEN Len(SentMessages) - 2 + 1 ELSE 0
          /\ \A n \in 1..Len(SentMessages) - 2 + 1 : behind[n] = SentMessages[2 + n - 1]
      BY <2>1, <1>1, SubSeqProperties
    <3>2. /\ Len(SentMessages) - 2 + 1 = Len(tcp_sent')
          /\ \A n \in 1..Len(tcp_sent') : 2 + n - 1 = n + 1
      BY <1>1, <1>3
    <3> HIDE DEF behind
    <3>3. \A n \in 1..Len(tcp_sent') : behind[n] = SentMessages[n + 1]
      BY <3>1, <3>2
    <3>4. Len(behind) = Len(tcp_sent')
      <4> DEFINE size == Len(SentMessages)
                 fewer == Len(tcp_sent')
      <4>1. size \in Nat \ {0} /\ fewer = size - 1
        BY <1>1, <1>3
      <4>2. Len(behind) = IF 2 <= size THEN size - 2 + 1 ELSE 0
        BY <3>1
      <4> HIDE DEF size, fewer
      <4>3. Len(behind) = fewer
        BY <4>1, <4>2
      <4> QED BY <4>3 DEF fewer
    <3> QED BY <3>1, <3>3, <3>4
  <2> HIDE DEF behind, Entry
  <2>3. SentMessages' = [n \in 1..Len(tcp_sent') |-> [payload |-> tcp_sent'[n], kind |-> "whole"]]
    BY DEF SentMessages
  <2>4. behind \in [1..Len(tcp_sent') -> Entry]
    BY <2>2, LenProperties
  <2>5. ASSUME NEW n \in 1..Len(tcp_sent')
        PROVE  behind[n] = [payload |-> tcp_sent'[n], kind |-> "whole"]
    <3>1. n + 1 \in 1..Len(tcp_sent)
      BY <1>1, <1>3
    <3> QED BY <3>1, <2>2, <1>1, <1>3
  <2> QED BY <2>3, <2>4, <2>5 DEF behind
<1>8. \A i \in 1..1 - 1 : Connection!Expected(i) => Connection!Excused(1)
  OBVIOUS
<1>9. SubSeq(SentMessages, 1 + 1, Len(SentMessages)) = SentMessages'
  BY <1>7
<1> QED BY <1>1, <1>2, <1>3, <1>4, <1>6, <1>8, <1>9 DEF Connection!Receive

LEMMA LostIsBroken ==
    ASSUME tcp_sent' = <<>>, UNCHANGED tcp_outcome
    PROVE  Connection!Break
<1>1. SentMessages' = <<>>
  <2>1. Len(tcp_sent') = 0
    BY EmptySeq
  <2>2. SentMessages' = [n \in 1..0 |-> [payload |-> tcp_sent'[n], kind |-> "whole"]]
    BY <2>1 DEF SentMessages
  <2> QED BY <2>2
<1> QED BY <1>1 DEF Connection!Break, tcp_outcome

LEMMA StepIsOfConnection ==
    ASSUME TcpHolds, TcpHolds', [NextTcp]_tcp_vars
    PROVE  [Connection!Next]_Connection!vars
<1>1. CASE UNCHANGED <<tcp_sent, tcp_outcome>>
  BY <1>1 DEF Connection!vars, SentMessages, tcp_outcome
<1>2. CASE WritePayload
  <2>1. CASE tcp_sent' = tcp_sent
    BY <1>1, <1>2, <2>1 DEF WritePayload
  <2>2. CASE tcp_sent' # tcp_sent
    <3>1. /\ tcp_sent' = Append(tcp_sent, tcp_sending.msg)
          /\ tcp_sending.msg \in TcpMessages /\ UNCHANGED tcp_outcome
      BY <1>2, <2>2 DEF WritePayload, TcpHolds, SendingHolds
    <3>2. Connection!Write
      BY <3>1, SentIsWritten
    <3> QED BY <3>2 DEF Connection!Next
  <2> QED BY <2>1, <2>2
<1>3. CASE ReturnMessage
  <2>1. Len(SentMessages) \in Nat \ {0} /\ Connection!Receive(1)
    BY <1>3, ReturnIsReceived
  <2>2. 1 \in 1..Len(SentMessages)
    BY <2>1
  <2> QED BY <2>1, <2>2 DEF Connection!Next
<1>4. CASE ReadFails \/ Reconnect
  <2>1. Connection!Break
    BY <1>4, LostIsBroken DEF ReadFails, Reconnect
  <2> QED BY <2>1 DEF Connection!Next
<1>5. CASE \/ \E msg \in TcpMessages : Send(msg)
           \/ WriteSize \/ WriteTakesNothing \/ WriteFails
           \/ ReadSize \/ ReadRestOfSize \/ ReadMessage
  BY <1>1, <1>5 DEF Send, WriteSize, WriteTakesNothing, WriteFails, ReadSize,
                    ReadRestOfSize, ReadMessage
<1>6. CASE UNCHANGED tcp_vars
  BY <1>1, <1>6 DEF tcp_vars
<1> QED BY <1>2, <1>3, <1>4, <1>5, <1>6 DEF NextTcp, TcpReads

(* What FramedLine says of a byte line holds of TCP, whatever the messages   *)
(* and the number of attempts to write, when the octets of a size are taken  *)
(* at once: recv_tcp_msg returns messages that were sent with success, whole *)
(* and in order, and none is missing unless the connection was lost.         *)
THEOREM ConnectionIsFramedLine ==
    ASSUME SizeTaken = {2}
    PROVE  TcpSpec => Connection!Safety
<1>1. InitTcp => Connection!Init
  <2>1. ASSUME InitTcp PROVE SentMessages = <<>>
    <3>1. tcp_sent = <<>> /\ Len(<<>>) = 0
      BY <2>1, EmptySeq DEF InitTcp
    <3>2. SentMessages = [n \in 1..0 |-> [payload |-> tcp_sent[n], kind |-> "whole"]]
      BY <3>1 DEF SentMessages
    <3> QED BY <3>2
  <2> QED BY <2>1 DEF InitTcp, Connection!Init
<1>2. TcpHolds /\ TcpHolds' /\ [NextTcp]_tcp_vars => [Connection!Next]_(Connection!vars)
  BY StepIsOfConnection
<1>3. TcpSpec => []TcpHolds
  BY LineHoldsMessages
<1> QED BY <1>1, <1>2, <1>3, PTL DEF TcpSpec, Connection!Safety

(***************************************************************************)
(* The checksum.                                                           *)
(***************************************************************************)
Byte == 0..255
Checksums == {n \in Nat : n < 65536}

LEMMA TwoBytes ==
    ASSUME NEW a \in Byte, NEW b \in Byte
    PROVE  256 * a + b \in Checksums
  BY DEF Byte, Checksums

LEMMA TwoBytesOf ==
    ASSUME NEW n \in Checksums
    PROVE  n \div 256 \in Byte /\ n % 256 \in Byte /\ n = 256 * (n \div 256) + (n % 256)
  BY DEF Byte, Checksums

LEMMA XorBitType ==
    ASSUME NEW a \in Nat, NEW b \in Nat, NEW bit \in {1, 2, 4, 8}
    PROVE  XorBit(a, b, bit) \in {0, bit}
<1> DEFINE sum == (a \div bit) + (b \div bit)
<1>1. sum \in Nat
  <2>1. a \div bit \in Nat /\ b \div bit \in Nat
    OBVIOUS
  <2> QED BY <2>1
<1> HIDE DEF sum
<1>2. sum % 2 \in {0, 1}
  BY <1>1
<1>3. XorBit(a, b, bit) = (sum % 2) * bit
  BY DEF XorBit, sum
<1> QED BY <1>2, <1>3

LEMMA OctetXorType ==
    ASSUME NEW a \in Byte, NEW b \in Byte
    PROVE  OctetXor(a, b) \in Byte
<1>1. ASSUME NEW x \in 0..15, NEW y \in 0..15
      PROVE  HalfXor[x][y] \in 0..15
  <2>1. /\ XorBit(x, y, 1) \in {0, 1} /\ XorBit(x, y, 2) \in {0, 2}
        /\ XorBit(x, y, 4) \in {0, 4} /\ XorBit(x, y, 8) \in {0, 8}
    BY XorBitType
  <2>2. HalfXor[x][y] = XorBit(x, y, 1) + XorBit(x, y, 2) + XorBit(x, y, 4) + XorBit(x, y, 8)
    BY DEF HalfXor
  <2> QED BY <2>1, <2>2
<1>2. /\ a \div 16 \in 0..15 /\ b \div 16 \in 0..15 /\ a % 16 \in 0..15 /\ b % 16 \in 0..15
  BY DEF Byte
<1>3. /\ HalfXor[a \div 16][b \div 16] \in 0..15 /\ HalfXor[a % 16][b % 16] \in 0..15
  BY <1>1, <1>2
<1> QED BY <1>3 DEF OctetXor, Byte

LEMMA ShiftedType ==
    ASSUME NEW n \in Checksums
    PROVE  Shifted(n) \in Checksums
<1> DEFINE half == n \div 2
<1>1. half \in Checksums /\ half \div 256 \in Byte /\ half % 256 \in Byte
  <2>1. half \in Checksums
    BY DEF Checksums
  <2> HIDE DEF half
  <2> QED BY <2>1, TwoBytesOf
<1> HIDE DEF half
<1>2. OctetXor(half \div 256, 160) \in Byte /\ OctetXor(half % 256, 1) \in Byte
  <2>1. 160 \in Byte /\ 1 \in Byte
    BY DEF Byte
  <2> QED BY <1>1, <2>1, OctetXorType
<1>3. Shifted(n) = IF n % 2 = 1 THEN 256 * OctetXor(half \div 256, 160) + OctetXor(half % 256, 1)
                   ELSE half
  BY DEF Shifted, half
<1>4. 256 * OctetXor(half \div 256, 160) + OctetXor(half % 256, 1) \in Checksums
  BY <1>2, TwoBytes
<1> QED BY <1>1, <1>3, <1>4

LEMMA TableType ==
    ASSUME NEW octet \in Byte
    PROVE  crc16_table[octet] \in Checksums
<1>1. ASSUME NEW n \in Checksums PROVE ShiftedFourTimes(n) \in Checksums
  <2>1. Shifted(n) \in Checksums
    BY ShiftedType
  <2>2. Shifted(Shifted(n)) \in Checksums
    BY <2>1, ShiftedType
  <2>3. Shifted(Shifted(Shifted(n))) \in Checksums
    BY <2>2, ShiftedType
  <2>4. Shifted(Shifted(Shifted(Shifted(n)))) \in Checksums
    BY <2>3, ShiftedType
  <2> QED BY <2>4 DEF ShiftedFourTimes
<1>2. octet \in Checksums
  BY DEF Byte, Checksums
<1>3. ShiftedFourTimes(octet) \in Checksums
  BY <1>1, <1>2
<1>4. ShiftedFourTimes(ShiftedFourTimes(octet)) \in Checksums
  BY <1>1, <1>3
<1> QED BY <1>4 DEF crc16_table, Byte

LEMMA UpdateType ==
    ASSUME NEW crc \in Checksums, NEW octet \in Byte
    PROVE  uxr_update_crc(crc, octet) \in Checksums
<1> DEFINE entry == crc16_table[OctetXor(crc % 256, octet)]
<1>1. crc % 256 \in Byte /\ crc \div 256 \in Byte
  BY TwoBytesOf
<1>2. entry \in Checksums
  BY <1>1, OctetXorType, TableType
<1> HIDE DEF entry
<1>3. entry \div 256 \in Byte /\ entry % 256 \in Byte
  BY <1>2, TwoBytesOf
<1>4. OctetXor(crc \div 256, entry % 256) \in Byte
  BY <1>1, <1>3, OctetXorType
<1>5. uxr_update_crc(crc, octet) = 256 * (entry \div 256) + OctetXor(crc \div 256, entry % 256)
  BY DEF uxr_update_crc, entry
<1> QED BY <1>3, <1>4, <1>5, TwoBytes

(* The checksums of the first octets, of none, of one and so on.             *)
NextCrc(octets) ==
    [p \in Checksums \X (1..Len(octets)) |-> uxr_update_crc(p[1], octets[p[2]])]

CrcSteps(octets) ==
    CHOOSE f : f = [n \in 0..Len(octets) |->
                       IF n = 0 THEN 0 ELSE uxr_update_crc(f[n - 1], octets[n])]

LEMMA CrcStepsAre ==
    ASSUME NEW octets \in Seq(Byte)
    PROVE  /\ CrcSteps(octets) \in [0..Len(octets) -> Checksums]
           /\ Steps(0, Len(octets), NextCrc(octets), CrcSteps(octets))
           /\ Crc(octets) = CrcSteps(octets)[Len(octets)]
<1> DEFINE N == Len(octets)
           g == NextCrc(octets)
           Is(f) == f = [n \in 0..N |-> IF n = 0 THEN 0 ELSE uxr_update_crc(f[n - 1], octets[n])]
<1>1. N \in Nat /\ \A n \in 1..N : octets[n] \in Byte
  BY LenProperties, ElementOfSeq
<1>2. ASSUME NEW x \in Checksums, NEW n \in 1..N
      PROVE  g[<<x, n>>] = uxr_update_crc(x, octets[n]) /\ g[<<x, n>>] \in Checksums
  BY <1>1, UpdateType DEF NextCrc
<1>3. 0 \in Checksums /\ StepsInto(Checksums, N, g)
  BY <1>2 DEF Checksums, StepsInto
<1> HIDE DEF g, N
<1>4. PICK f \in [0..N -> Checksums] : Steps(0, N, g, f)
  BY <1>1, <1>3, StepsExist
<1>5. \A n \in 1..N : f[n] = uxr_update_crc(f[n - 1], octets[n])
  <2> TAKE n \in 1..N
  <2>1. n - 1 \in 0..N
    BY <1>1
  <2> QED BY <2>1, <1>2, <1>4 DEF Steps
<1>6. Is(f)
  <2>1. \A n \in 0..N : f[n] = IF n = 0 THEN 0 ELSE uxr_update_crc(f[n - 1], octets[n])
    <3> TAKE n \in 0..N
    <3>1. n # 0 => n \in 1..N
      BY <1>1
    <3> QED BY <3>1, <1>4, <1>5 DEF Steps
  <2> QED BY <2>1
<1>7. Is(CrcSteps(octets))
  <2>1. CrcSteps(octets) = CHOOSE h : Is(h)
    BY DEF CrcSteps, N
  <2> HIDE DEF Is
  <2> QED BY <1>6, <2>1
<1> DEFINE c == CrcSteps(octets)
<1>8. /\ DOMAIN c = 0..N
      /\ \A n \in 0..N : c[n] = IF n = 0 THEN 0 ELSE uxr_update_crc(c[n - 1], octets[n])
      /\ c = [n \in DOMAIN c |-> c[n]]
  <2> HIDE DEF c
  <2>1. c = [n \in 0..N |-> IF n = 0 THEN 0 ELSE uxr_update_crc(c[n - 1], octets[n])]
    BY <1>7 DEF c
  <2> QED BY <2>1
<1>9. c[0] = 0 /\ \A n \in 1..N : c[n] = uxr_update_crc(c[n - 1], octets[n])
  <2> HIDE DEF c
  <2>1. 0 \in 0..N /\ \A n \in 1..N : n \in 0..N /\ n # 0
    BY <1>1
  <2> QED BY <1>8, <2>1
<1>10. \A n \in Nat : n <= N => c[n] \in Checksums
  <2> DEFINE S == {n \in Nat : n <= N => c[n] \in Checksums}
  <2> HIDE DEF c
  <2>1. 0 \in S
    BY <1>3, <1>9
  <2>2. ASSUME NEW n \in Nat, n \in S PROVE n + 1 \in S
    <3> SUFFICES ASSUME n + 1 <= N PROVE c[n + 1] \in Checksums
      OBVIOUS
    <3>1. n + 1 \in 1..N /\ (n + 1) - 1 = n /\ c[n] \in Checksums
      BY <1>1, <2>2
    <3>2. c[n + 1] = uxr_update_crc(c[n], octets[n + 1])
      BY <3>1, <1>9
    <3> QED BY <3>1, <3>2, <1>1, UpdateType
  <2> HIDE DEF S
  <2>3. Nat \subseteq S
    BY <2>1, <2>2, CountUp
  <2> QED BY <2>3 DEF S
<1>11. Crc(octets) = c[N]
  BY DEF Crc, CrcSteps, N
<1>12. c \in [0..N -> Checksums]
  <2> HIDE DEF c
  <2>1. \A n \in 0..N : c[n] \in Checksums
    BY <1>1, <1>10
  <2> QED BY <1>8, <2>1
<1>13. Steps(0, N, g, c)
  <2> HIDE DEF c
  <2>1. \A n \in 1..N : c[n] = g[<<c[n - 1], n>>]
    <3> TAKE n \in 1..N
    <3>1. n - 1 \in 0..N /\ c[n - 1] \in Checksums
      BY <1>1, <1>12
    <3> QED BY <3>1, <1>2, <1>9
  <2> QED BY <2>1, <1>9 DEF Steps
<1> QED BY <1>11, <1>12, <1>13 DEF N, g

(* The checksum of no octets, and of one octet more.                         *)
LEMMA CrcOf ==
    /\ Crc(<<>>) = 0
    /\ \A octets \in Seq(Byte) : Crc(octets) \in Checksums
    /\ \A octets \in Seq(Byte), x \in Byte :
          Crc(Append(octets, x)) = uxr_update_crc(Crc(octets), x)
<1>1. Crc(<<>>) = 0
  <2>1. <<>> \in Seq(Byte) /\ Len(<<>>) = 0
    BY EmptySeq
  <2>2. Crc(<<>>) = CrcSteps(<<>>)[0] /\ CrcSteps(<<>>)[0] = 0
    BY <2>1, CrcStepsAre DEF Steps
  <2> QED BY <2>2
<1>2. ASSUME NEW octets \in Seq(Byte) PROVE Crc(octets) \in Checksums
  <2>1. Len(octets) \in 0..Len(octets)
    BY LenProperties
  <2> QED BY <2>1, CrcStepsAre
<1>3. ASSUME NEW octets \in Seq(Byte), NEW x \in Byte
      PROVE  Crc(Append(octets, x)) = uxr_update_crc(Crc(octets), x)
  <2> DEFINE N == Len(octets)
             more == Append(octets, x)
             c == CrcSteps(octets)
             d == CrcSteps(more)
             g == NextCrc(octets)
  <2>1. /\ N \in Nat /\ more \in Seq(Byte) /\ Len(more) = N + 1 /\ more[N + 1] = x
        /\ \A n \in 1..N : more[n] = octets[n]
    BY LenProperties, AppendProperties
  <2>2. c \in [0..N -> Checksums] /\ Steps(0, N, g, c) /\ Crc(octets) = c[N]
    BY CrcStepsAre
  <2>3. d \in [0..N + 1 -> Checksums] /\ Steps(0, N + 1, NextCrc(more), d) /\ Crc(more) = d[N + 1]
    BY <2>1, CrcStepsAre
  <2> HIDE DEF c, d, N, more
  <2>4. \A n \in 1..N + 1 : d[n] = uxr_update_crc(d[n - 1], more[n])
    <3> TAKE n \in 1..N + 1
    <3>1. n - 1 \in 0..N + 1 /\ d[n - 1] \in Checksums /\ n \in 1..Len(more)
      BY <2>1, <2>3
    <3>2. d[n] = NextCrc(more)[<<d[n - 1], n>>]
      BY <2>3 DEF Steps
    <3> QED BY <3>1, <3>2 DEF NextCrc
  <2>5. Steps(0, N, g, d)
    <3>1. ASSUME NEW n \in 1..N PROVE d[n] = g[<<d[n - 1], n>>]
      <4>1. n - 1 \in 0..N + 1 /\ d[n - 1] \in Checksums /\ n \in 1..N + 1 /\ n \in 1..Len(octets)
        BY <2>1, <2>3 DEF N
      <4>2. d[n] = uxr_update_crc(d[n - 1], octets[n])
        BY <4>1, <2>1, <2>4
      <4> QED BY <4>1, <4>2 DEF NextCrc
    <3> QED BY <3>1, <2>3 DEF Steps
  <2>6. d[N] = c[N]
    <3>1. N \in 0..N
      BY <2>1
    <3> QED BY <3>1, <2>1, <2>2, <2>5, StepsAgree
  <2>7. N + 1 \in 1..N + 1 /\ (N + 1) - 1 = N
    BY <2>1
  <2>8. d[N + 1] = uxr_update_crc(d[N], x)
    BY <2>1, <2>4, <2>7
  <2> QED BY <2>2, <2>3, <2>6, <2>8 DEF more
<1> QED BY <1>1, <1>2, <1>3

(* Induction on the octets of a sequence, with a set for the property.       *)
LEMMA AppendOneByOne ==
    ASSUME NEW B, NEW S, <<>> \in S,
           \A s \in Seq(B), x \in B : s \in S => Append(s, x) \in S
    PROVE  Seq(B) \subseteq S
<1> DEFINE T == {n \in Nat : \A s \in Seq(B) : Len(s) = n => s \in S}
<1>1. 0 \in T
  <2>1. \A s \in Seq(B) : Len(s) = 0 => s = <<>>
    BY EmptySeq
  <2> QED BY <2>1
<1>2. ASSUME NEW n \in Nat, n \in T PROVE n + 1 \in T
  <2> SUFFICES ASSUME NEW s \in Seq(B), Len(s) = n + 1 PROVE s \in S
    OBVIOUS
  <2>1. s # <<>>
    BY EmptySeq
  <2>2. PICK front \in Seq(B), x \in B : s = Append(front, x)
    BY <2>1, SequenceEmptyOrAppend
  <2>3. Len(front) \in Nat /\ Len(s) = Len(front) + 1
    BY <2>2, LenProperties, AppendProperties
  <2>4. Len(front) = n
    BY <2>3
  <2>5. front \in S
    BY <1>2, <2>4
  <2> QED BY <2>2, <2>5
<1>3. Nat \subseteq T
  <2> HIDE DEF T
  <2> QED BY <1>1, <1>2, CountUp
<1>4. ASSUME NEW s \in Seq(B) PROVE s \in S
  <2>1. Len(s) \in T
    BY <1>3, LenProperties
  <2> QED BY <2>1
<1> QED BY <1>4

LEMMA JoinedLeft ==
    \A a, b, c \in Seq(Byte) : (a \o b) \o c = a \o (b \o c)
<1> TAKE a, b, c \in Seq(Byte)
<1> QED BY ConcatAssociative

LEMMA Joined ==
    \A a, b \in Seq(Byte) : a \o b \in Seq(Byte) /\ Len(a \o b) = Len(a) + Len(b)
<1> TAKE a, b \in Seq(Byte)
<1> QED BY ConcatProperties

(***************************************************************************)
(* Stuffing.                                                               *)
(***************************************************************************)
(* An octet by itself: one or two, the escape first, and never a flag.       *)
LEMMA StuffedIs ==
    ASSUME NEW x \in Byte
    PROVE  /\ Stuffed(x) \in Seq(Byte)
           /\ \A i \in 1..Len(Stuffed(x)) : Stuffed(x)[i] # UXR_FRAMING_BEGIN_FLAG
           /\ \/ Stuffed(x) = <<x>> /\ x # UXR_FRAMING_ESC_FLAG
              \/ /\ Stuffed(x) = <<UXR_FRAMING_ESC_FLAG, Flipped(x)>>
                 /\ Flipped(Flipped(x)) = x
<1>1. CASE x \notin {UXR_FRAMING_BEGIN_FLAG, UXR_FRAMING_ESC_FLAG}
  BY <1>1 DEF Stuffed, Byte
<1>2. CASE x = UXR_FRAMING_BEGIN_FLAG
  <2>1. Flipped(126) = 94 /\ Flipped(94) = 126
    BY DEF Flipped, UXR_FRAMING_XOR_FLAG
  <2>2. Stuffed(x) = <<125, 94>>
    BY <1>2, <2>1 DEF Stuffed, UXR_FRAMING_BEGIN_FLAG, UXR_FRAMING_ESC_FLAG
  <2> DEFINE two == <<125, 94>>
  <2>3. two \in Seq(Byte) /\ Len(two) = 2 /\ two[1] = 125 /\ two[2] = 94
    BY DEF Byte
  <2>4. Stuffed(x) = two /\ x = 126
    BY <1>2, <2>2 DEF UXR_FRAMING_BEGIN_FLAG, UXR_FRAMING_ESC_FLAG
  <2> HIDE DEF two
  <2>5. \A i \in 1..Len(two) : two[i] # UXR_FRAMING_BEGIN_FLAG
    BY <2>3 DEF UXR_FRAMING_BEGIN_FLAG
  <2>6. two = <<UXR_FRAMING_ESC_FLAG, Flipped(x)>> /\ Flipped(Flipped(x)) = x
    BY <2>1, <2>4 DEF UXR_FRAMING_ESC_FLAG, two
  <2> QED BY <2>3, <2>4, <2>5, <2>6
<1>3. CASE x = UXR_FRAMING_ESC_FLAG
  <2>1. Flipped(125) = 93 /\ Flipped(93) = 125
    BY DEF Flipped, UXR_FRAMING_XOR_FLAG
  <2>2. Stuffed(x) = <<125, 93>>
    BY <1>3, <2>1 DEF Stuffed, UXR_FRAMING_BEGIN_FLAG, UXR_FRAMING_ESC_FLAG
  <2> DEFINE two == <<125, 93>>
  <2>3. two \in Seq(Byte) /\ Len(two) = 2 /\ two[1] = 125 /\ two[2] = 93
    BY DEF Byte
  <2>4. Stuffed(x) = two /\ x = 125
    BY <1>3, <2>2 DEF UXR_FRAMING_BEGIN_FLAG, UXR_FRAMING_ESC_FLAG
  <2> HIDE DEF two
  <2>5. \A i \in 1..Len(two) : two[i] # UXR_FRAMING_BEGIN_FLAG
    BY <2>3 DEF UXR_FRAMING_BEGIN_FLAG
  <2>6. two = <<UXR_FRAMING_ESC_FLAG, Flipped(x)>> /\ Flipped(Flipped(x)) = x
    BY <2>1, <2>4 DEF UXR_FRAMING_ESC_FLAG, two
  <2> QED BY <2>3, <2>4, <2>5, <2>6
<1> QED BY <1>1, <1>2, <1>3

LEMMA FlippedType ==
    ASSUME NEW x \in Byte
    PROVE  Flipped(x) \in Byte
<1>1. x \div 32 \in 0..7 /\ x = 32 * (x \div 32) + (x % 32) /\ x % 32 \in 0..31
  BY DEF Byte
<1> DEFINE q == x \div 32
<1>2. q \in 0..7 /\ 32 * q <= x /\ x < 32 * q + 32
  BY <1>1 DEF Byte
<1> HIDE DEF q
<1>3. q % 2 = 1 => q >= 1
  BY <1>2
<1>4. q % 2 # 1 => q <= 6
  BY <1>2
<1>5. Flipped(x) = IF q % 2 = 1 THEN x - 32 ELSE x + 32
  BY DEF Flipped, q, UXR_FRAMING_XOR_FLAG
<1> QED BY <1>2, <1>3, <1>4, <1>5 DEF Byte

(* What the first octets are stuffed to.                                     *)
NextStuffed(octets) ==
    [p \in Seq(Byte) \X (1..Len(octets)) |-> p[1] \o Stuffed(octets[p[2]])]

StuffedSteps(octets) ==
    CHOOSE f : f = [n \in 0..Len(octets) |->
                       IF n = 0 THEN <<>> ELSE f[n - 1] \o Stuffed(octets[n])]

LEMMA StuffedStepsAre ==
    ASSUME NEW octets \in Seq(Byte)
    PROVE  /\ StuffedSteps(octets) \in [0..Len(octets) -> Seq(Byte)]
           /\ Steps(<<>>, Len(octets), NextStuffed(octets), StuffedSteps(octets))
           /\ StuffedAll(octets) = StuffedSteps(octets)[Len(octets)]
<1> DEFINE N == Len(octets)
           g == NextStuffed(octets)
           Is(f) == f = [n \in 0..N |-> IF n = 0 THEN <<>> ELSE f[n - 1] \o Stuffed(octets[n])]
<1>1. N \in Nat /\ \A n \in 1..N : octets[n] \in Byte
  BY LenProperties, ElementOfSeq
<1>2. ASSUME NEW x \in Seq(Byte), NEW n \in 1..N
      PROVE  g[<<x, n>>] = x \o Stuffed(octets[n]) /\ g[<<x, n>>] \in Seq(Byte)
  <2>1. Stuffed(octets[n]) \in Seq(Byte)
    BY <1>1, StuffedIs
  <2>2. x \o Stuffed(octets[n]) \in Seq(Byte)
    BY <2>1, ConcatProperties
  <2> QED BY <2>2 DEF NextStuffed
<1>3. <<>> \in Seq(Byte) /\ StepsInto(Seq(Byte), N, g)
  BY <1>2, EmptySeq DEF StepsInto
<1> HIDE DEF g, N
<1>4. PICK f \in [0..N -> Seq(Byte)] : Steps(<<>>, N, g, f)
  BY <1>1, <1>3, StepsExist
<1>5. \A n \in 1..N : f[n] = f[n - 1] \o Stuffed(octets[n])
  <2> TAKE n \in 1..N
  <2>1. n - 1 \in 0..N
    BY <1>1
  <2> QED BY <2>1, <1>2, <1>4 DEF Steps
<1>6. Is(f)
  <2>1. \A n \in 0..N : f[n] = IF n = 0 THEN <<>> ELSE f[n - 1] \o Stuffed(octets[n])
    <3> TAKE n \in 0..N
    <3>1. n # 0 => n \in 1..N
      BY <1>1
    <3> QED BY <3>1, <1>4, <1>5 DEF Steps
  <2> QED BY <2>1
<1>7. Is(StuffedSteps(octets))
  <2>1. StuffedSteps(octets) = CHOOSE h : Is(h)
    BY DEF StuffedSteps, N
  <2> HIDE DEF Is
  <2> QED BY <1>6, <2>1
<1> DEFINE c == StuffedSteps(octets)
<1>8. /\ DOMAIN c = 0..N
      /\ \A n \in 0..N : c[n] = IF n = 0 THEN <<>> ELSE c[n - 1] \o Stuffed(octets[n])
      /\ c = [n \in DOMAIN c |-> c[n]]
  <2> HIDE DEF c
  <2>1. c = [n \in 0..N |-> IF n = 0 THEN <<>> ELSE c[n - 1] \o Stuffed(octets[n])]
    BY <1>7 DEF c
  <2> QED BY <2>1
<1> HIDE DEF c
<1>9. c[0] = <<>> /\ \A n \in 1..N : c[n] = c[n - 1] \o Stuffed(octets[n])
  <2>1. 0 \in 0..N /\ \A n \in 1..N : n \in 0..N /\ n # 0
    BY <1>1
  <2> QED BY <1>8, <2>1
<1>10. \A n \in Nat : n <= N => c[n] \in Seq(Byte)
  <2> DEFINE S == {n \in Nat : n <= N => c[n] \in Seq(Byte)}
  <2>1. 0 \in S
    BY <1>3, <1>9
  <2>2. ASSUME NEW n \in Nat, n \in S PROVE n + 1 \in S
    <3> SUFFICES ASSUME n + 1 <= N PROVE c[n + 1] \in Seq(Byte)
      OBVIOUS
    <3>1. n + 1 \in 1..N /\ (n + 1) - 1 = n /\ c[n] \in Seq(Byte)
      BY <1>1, <2>2
    <3>2. c[n + 1] = c[n] \o Stuffed(octets[n + 1])
      BY <3>1, <1>9
    <3>3. g[<<c[n], n + 1>>] = c[n + 1] /\ g[<<c[n], n + 1>>] \in Seq(Byte)
      BY <3>1, <3>2, <1>2
    <3> QED BY <3>3
  <2> HIDE DEF S
  <2>3. Nat \subseteq S
    BY <2>1, <2>2, CountUp
  <2> QED BY <2>3 DEF S
<1>11. StuffedAll(octets) = c[N]
  BY DEF StuffedAll, StuffedSteps, N, c
<1>12. c \in [0..N -> Seq(Byte)]
  <2>1. \A n \in 0..N : c[n] \in Seq(Byte)
    BY <1>1, <1>10
  <2> QED BY <1>8, <2>1
<1>13. Steps(<<>>, N, g, c)
  <2>1. \A n \in 1..N : c[n] = g[<<c[n - 1], n>>]
    <3> TAKE n \in 1..N
    <3>1. n - 1 \in 0..N /\ c[n - 1] \in Seq(Byte)
      BY <1>1, <1>12
    <3> QED BY <3>1, <1>2, <1>9
  <2> QED BY <2>1, <1>9 DEF Steps
<1> QED BY <1>11, <1>12, <1>13 DEF N, g, c

LEMMA StuffedAllOf ==
    /\ StuffedAll(<<>>) = <<>>
    /\ \A octets \in Seq(Byte) : StuffedAll(octets) \in Seq(Byte)
    /\ \A octets \in Seq(Byte), x \in Byte :
          StuffedAll(Append(octets, x)) = StuffedAll(octets) \o Stuffed(x)
<1>1. StuffedAll(<<>>) = <<>>
  <2>1. <<>> \in Seq(Byte) /\ Len(<<>>) = 0
    BY EmptySeq
  <2>2. StuffedAll(<<>>) = StuffedSteps(<<>>)[0] /\ StuffedSteps(<<>>)[0] = <<>>
    BY <2>1, StuffedStepsAre DEF Steps
  <2> QED BY <2>2
<1>2. ASSUME NEW octets \in Seq(Byte) PROVE StuffedAll(octets) \in Seq(Byte)
  <2>1. Len(octets) \in 0..Len(octets)
    BY LenProperties
  <2> QED BY <2>1, StuffedStepsAre
<1>3. ASSUME NEW octets \in Seq(Byte), NEW x \in Byte
      PROVE  StuffedAll(Append(octets, x)) = StuffedAll(octets) \o Stuffed(x)
  <2> DEFINE N == Len(octets)
             more == Append(octets, x)
             c == StuffedSteps(octets)
             d == StuffedSteps(more)
             g == NextStuffed(octets)
  <2>1. /\ N \in Nat /\ more \in Seq(Byte) /\ Len(more) = N + 1 /\ more[N + 1] = x
        /\ \A n \in 1..N : more[n] = octets[n]
    BY LenProperties, AppendProperties
  <2>2. c \in [0..N -> Seq(Byte)] /\ Steps(<<>>, N, g, c) /\ StuffedAll(octets) = c[N]
    BY StuffedStepsAre
  <2>3. /\ d \in [0..N + 1 -> Seq(Byte)] /\ Steps(<<>>, N + 1, NextStuffed(more), d)
        /\ StuffedAll(more) = d[N + 1]
    BY <2>1, StuffedStepsAre
  <2> HIDE DEF c, d, N, more
  <2>4. \A n \in 1..N + 1 : d[n] = d[n - 1] \o Stuffed(more[n])
    <3> TAKE n \in 1..N + 1
    <3>1. n - 1 \in 0..N + 1 /\ d[n - 1] \in Seq(Byte) /\ n \in 1..Len(more)
      BY <2>1, <2>3
    <3>2. d[n] = NextStuffed(more)[<<d[n - 1], n>>]
      BY <2>3 DEF Steps
    <3> QED BY <3>1, <3>2 DEF NextStuffed
  <2>5. Steps(<<>>, N, g, d)
    <3>1. ASSUME NEW n \in 1..N PROVE d[n] = g[<<d[n - 1], n>>]
      <4>1. n - 1 \in 0..N + 1 /\ d[n - 1] \in Seq(Byte) /\ n \in 1..N + 1 /\ n \in 1..Len(octets)
        BY <2>1, <2>3 DEF N
      <4>2. d[n] = d[n - 1] \o Stuffed(octets[n])
        BY <4>1, <2>1, <2>4
      <4> QED BY <4>1, <4>2 DEF NextStuffed
    <3> QED BY <3>1, <2>3 DEF Steps
  <2>6. d[N] = c[N]
    <3>1. N \in 0..N
      BY <2>1
    <3> QED BY <3>1, <2>1, <2>2, <2>5, StepsAgree
  <2>7. N + 1 \in 1..N + 1 /\ (N + 1) - 1 = N
    BY <2>1
  <2>8. d[N + 1] = d[N] \o Stuffed(x)
    BY <2>1, <2>4, <2>7
  <2> QED BY <2>2, <2>3, <2>6, <2>8 DEF more
<1> QED BY <1>1, <1>2, <1>3

(* Octets are stuffed one by one: parts behind each other give the same.     *)
LEMMA StuffedJoined ==
    ASSUME NEW s \in Seq(Byte), NEW t \in Seq(Byte)
    PROVE  StuffedAll(s \o t) = StuffedAll(s) \o StuffedAll(t)
<1> DEFINE S == {u \in Seq(Byte) : StuffedAll(s \o u) = StuffedAll(s) \o StuffedAll(u)}
<1>1. StuffedAll(s) \in Seq(Byte)
  BY StuffedAllOf
<1>2. <<>> \in S
  <2>1. s \o <<>> = s /\ StuffedAll(s) \o <<>> = StuffedAll(s) /\ <<>> \in Seq(Byte)
    BY <1>1, ConcatEmptySeq, EmptySeq
  <2> QED BY <2>1, StuffedAllOf
<1>3. ASSUME NEW u \in Seq(Byte), NEW x \in Byte, u \in S
      PROVE  Append(u, x) \in S
  <2>1. /\ Append(u, x) = u \o <<x>> /\ Append(u, x) \in Seq(Byte) /\ <<x>> \in Seq(Byte)
        /\ s \o u \in Seq(Byte) /\ Append(s \o u, x) = (s \o u) \o <<x>>
    BY AppendIsConcat, AppendProperties, ConcatProperties
  <2>2. (s \o u) \o <<x>> = s \o (u \o <<x>>)
    BY <2>1, JoinedLeft
  <2>3. StuffedAll(s \o Append(u, x)) = StuffedAll(s \o u) \o Stuffed(x)
    <3>1. s \o Append(u, x) = Append(s \o u, x)
      BY <2>1, <2>2
    <3> QED BY <3>1, <2>1, StuffedAllOf
  <2>4. StuffedAll(Append(u, x)) = StuffedAll(u) \o Stuffed(x)
    BY StuffedAllOf
  <2>5. StuffedAll(u) \in Seq(Byte) /\ Stuffed(x) \in Seq(Byte)
    BY StuffedAllOf, StuffedIs
  <2>6. (StuffedAll(s) \o StuffedAll(u)) \o Stuffed(x) = StuffedAll(s) \o (StuffedAll(u) \o Stuffed(x))
    BY <1>1, <2>5, JoinedLeft, Zenon
  <2>7. StuffedAll(s \o u) = StuffedAll(s) \o StuffedAll(u)
    BY <1>3
  <2>8. StuffedAll(s \o Append(u, x)) = StuffedAll(s) \o StuffedAll(Append(u, x))
    BY <2>3, <2>4, <2>6, <2>7
  <2> QED BY <2>1, <2>8
<1>4. Seq(Byte) \subseteq S
  <2> HIDE DEF S
  <2> QED BY <1>2, <1>3, AppendOneByOne
<1> QED BY <1>4

LEMMA StuffedFirst ==
    ASSUME NEW x \in Byte, NEW t \in Seq(Byte)
    PROVE  /\ <<x>> \o t \in Seq(Byte)
           /\ StuffedAll(<<x>> \o t) = Stuffed(x) \o StuffedAll(t)
<1>1. <<x>> \in Seq(Byte) /\ <<>> \in Seq(Byte) /\ Append(<<>>, x) = <<x>>
  OBVIOUS
<1>2. StuffedAll(<<x>>) = <<>> \o Stuffed(x)
  <2>1. StuffedAll(Append(<<>>, x)) = StuffedAll(<<>>) \o Stuffed(x)
    BY <1>1, StuffedAllOf
  <2> QED BY <1>1, <2>1, StuffedAllOf
<1>3. <<>> \o Stuffed(x) = Stuffed(x)
  BY StuffedIs, ConcatEmptySeq
<1>4. <<x>> \o t \in Seq(Byte)
  BY <1>1, ConcatProperties
<1>5. StuffedAll(<<x>> \o t) = StuffedAll(<<x>>) \o StuffedAll(t)
  BY <1>1, StuffedJoined
<1> QED BY <1>2, <1>3, <1>4, <1>5

(* No flag is among stuffed octets.                                          *)
NoFlagIn(octets) == \A i \in 1..Len(octets) : octets[i] # UXR_FRAMING_BEGIN_FLAG

LEMMA NoFlagStuffed ==
    ASSUME NEW s \in Seq(Byte)
    PROVE  NoFlagIn(StuffedAll(s))
<1> DEFINE S == {u \in Seq(Byte) : NoFlagIn(StuffedAll(u))}
<1>1. <<>> \in S
  BY StuffedAllOf, EmptySeq DEF NoFlagIn
<1>2. ASSUME NEW u \in Seq(Byte), NEW x \in Byte, u \in S
      PROVE  Append(u, x) \in S
  <2> DEFINE a == StuffedAll(u)
             b == Stuffed(x)
  <2>1. StuffedAll(Append(u, x)) = a \o b /\ a \in Seq(Byte) /\ b \in Seq(Byte)
    BY StuffedAllOf, StuffedIs
  <2>2. NoFlagIn(a) /\ NoFlagIn(b)
    BY <1>2, StuffedIs DEF NoFlagIn
  <2> HIDE DEF a, b
  <2>3. NoFlagIn(a \o b)
    <3> SUFFICES ASSUME NEW i \in 1..Len(a \o b) PROVE (a \o b)[i] # UXR_FRAMING_BEGIN_FLAG
      BY DEF NoFlagIn
    <3>1. /\ Len(a) \in Nat /\ Len(b) \in Nat /\ i \in 1..Len(a) + Len(b)
          /\ (a \o b)[i] = IF i <= Len(a) THEN a[i] ELSE b[i - Len(a)]
      BY <2>1, LenProperties, ConcatProperties
    <3>2. i <= Len(a) => i \in 1..Len(a)
      BY <3>1
    <3>3. ~(i <= Len(a)) => i - Len(a) \in 1..Len(b)
      BY <3>1
    <3> QED BY <2>2, <3>1, <3>2, <3>3 DEF NoFlagIn
  <2>4. Append(u, x) \in Seq(Byte)
    BY AppendProperties
  <2> QED BY <2>1, <2>3, <2>4
<1>3. Seq(Byte) \subseteq S
  <2> HIDE DEF S
  <2> QED BY <1>1, <1>2, AppendOneByOne
<1> QED BY <1>3

(***************************************************************************)
(* The ring.                                                               *)
(***************************************************************************)
LEMMA AroundRing ==
    ASSUME NEW R \in Nat \ {0}, NEW n \in Nat, n < 2 * R
    PROVE  n % R = IF n < R THEN n ELSE n - R
<1>1. n % R \in 0..R - 1 /\ n \div R \in Nat /\ n = R * (n \div R) + (n % R)
  BY QuotientAndRest
<1>2. CASE n < R
  <2>1. R * 0 + n = R * (n \div R) + (n % R) /\ 0 \in Nat /\ n \in 0..R - 1
    BY <1>1, <1>2
  <2> QED BY <1>1, <1>2, <2>1, QuotientUnique
<1>3. CASE ~(n < R)
  <2>1. R * 1 + (n - R) = R * (n \div R) + (n % R) /\ 1 \in Nat /\ n - R \in 0..R - 1
    BY <1>1, <1>3
  <2> QED BY <1>1, <1>3, <2>1, QuotientUnique
<1> QED BY <1>2, <1>3

(* What may be read into the ring leaves one octet of it free.               *)
LEMMA AvailableIs ==
    ASSUME NEW rest \in Seq(Byte), Len(rest) < RingSize, NEW tail \in 0..RingSize - 1
    PROVE  Available(rest, tail) = RingSize - 1 - Len(rest)
<1>1. RingSize \in Nat \ {0} /\ Len(rest) \in Nat
  BY FramingAssumption, LenProperties
<1> DEFINE L == Len(rest)
           head == (tail + L) % RingSize
<1>2. head = IF tail + L < RingSize THEN tail + L ELSE tail + L - RingSize
  <2>1. tail + L \in Nat /\ tail + L < 2 * RingSize
    BY <1>1
  <2>2. \A n \in Nat : n < 2 * RingSize => n % RingSize = IF n < RingSize THEN n ELSE n - RingSize
    BY <1>1, AroundRing
  <2> QED BY <1>1, <2>1, <2>2
<1>3. Available(rest, tail) =
         IF head = tail THEN RingSize - 1
         ELSE IF head > tail
              THEN IF tail > 0 THEN (RingSize - head) + (tail - 1) ELSE RingSize - head - 1
              ELSE tail - head - 1
  BY DEF Available
<1> HIDE DEF head
<1>4. CASE tail + L < RingSize
  BY <1>1, <1>2, <1>3, <1>4
<1>5. CASE ~(tail + L < RingSize)
  BY <1>1, <1>2, <1>3, <1>5
<1> QED BY <1>4, <1>5

LEMMA TailMoves ==
    ASSUME NEW tail \in 0..RingSize - 1, NEW n \in Nat
    PROVE  (tail + n) % RingSize \in 0..RingSize - 1
<1>1. RingSize \in Nat \ {0} /\ tail + n \in Nat
  BY FramingAssumption
<1> QED BY <1>1, QuotientAndRest

(***************************************************************************)
(* Sequences of octets in parts.                                           *)
(***************************************************************************)
LEMMA FirstAndRest ==
    ASSUME NEW s \in Seq(Byte), NEW n \in 0..Len(s)
    PROVE  /\ SubSeq(s, 1, n) \in Seq(Byte) /\ Len(SubSeq(s, 1, n)) = n
           /\ SubSeq(s, n + 1, Len(s)) \in Seq(Byte)
           /\ Len(SubSeq(s, n + 1, Len(s))) = Len(s) - n
           /\ s = SubSeq(s, 1, n) \o SubSeq(s, n + 1, Len(s))
           /\ \A i \in 1..n : SubSeq(s, 1, n)[i] = s[i]
<1>1. Len(s) \in Nat /\ \A i \in 1..Len(s) : s[i] \in Byte
  BY LenProperties, ElementOfSeq
<1>2. /\ SubSeq(s, 1, n) \in Seq(Byte) /\ Len(SubSeq(s, 1, n)) = n
      /\ \A i \in 1..n : SubSeq(s, 1, n)[i] = s[i]
  <2>1. 1 \in Int /\ n \in Int /\ \A i \in 1..n : s[i] \in Byte
    BY <1>1
  <2>2. /\ SubSeq(s, 1, n) \in Seq(Byte)
        /\ Len(SubSeq(s, 1, n)) = IF 1 <= n THEN n - 1 + 1 ELSE 0
        /\ \A i \in 1..n - 1 + 1 : SubSeq(s, 1, n)[i] = s[1 + i - 1]
    BY <2>1, SubSeqProperties
  <2> QED BY <2>2
<1>3. SubSeq(s, n + 1, Len(s)) \in Seq(Byte) /\ Len(SubSeq(s, n + 1, Len(s))) = Len(s) - n
  <2>1. n + 1 \in Int /\ Len(s) \in Int /\ \A i \in n + 1..Len(s) : s[i] \in Byte
    BY <1>1
  <2>2. /\ SubSeq(s, n + 1, Len(s)) \in Seq(Byte)
        /\ Len(SubSeq(s, n + 1, Len(s))) = IF n + 1 <= Len(s) THEN Len(s) - (n + 1) + 1 ELSE 0
    BY <2>1, SubSeqProperties
  <2> QED BY <1>1, <2>2
<1>4. SubSeq(s, 1, n) \o SubSeq(s, n + 1, Len(s)) = SubSeq(s, 1, Len(s))
  <2>1. 1 \in 1..Len(s) + 1 /\ n \in 1 - 1..Len(s) /\ Len(s) \in n..Len(s)
    BY <1>1
  <2> QED BY <2>1, ConcatAdjacentSubSeq
<1>5. SubSeq(s, 1, Len(s)) = s
  BY SubSeqFull
<1> QED BY <1>2, <1>3, <1>4, <1>5

(* Of two ways to cut the same octets, the first cut is the earlier one.     *)
Extends(v, x, y, z) == \E e \in Seq(Byte) : y = v \o e /\ x = e \o z

LEMMA EarlierCut ==
    ASSUME NEW v \in Seq(Byte), NEW x \in Seq(Byte), NEW y \in Seq(Byte), NEW z \in Seq(Byte)
    PROVE  v \o x = y \o z /\ Len(v) <= Len(y) => Extends(v, x, y, z)
<1>1. Len(v) \in Nat /\ Len(x) \in Nat /\ Len(y) \in Nat /\ Len(z) \in Nat
  BY LenProperties
<1>2. \A f, b \in Seq(Byte) : (f \o b) \o z = f \o (b \o z)
  BY JoinedLeft, SMTT(30)
<1> DEFINE first == SubSeq(y, 1, Len(v))
           behind == SubSeq(y, Len(v) + 1, Len(y))
<1> HAVE v \o x = y \o z /\ Len(v) <= Len(y)
<1>3. first \in Seq(Byte) /\ Len(first) = Len(v) /\ behind \in Seq(Byte) /\ y = first \o behind
  <2>1. Len(v) \in 0..Len(y)
    BY <1>1
  <2> QED BY <2>1, FirstAndRest
<1> HIDE DEF first, behind
<1>4. y \o z = first \o (behind \o z) /\ behind \o z \in Seq(Byte)
  BY <1>2, <1>3, Joined
<1>5. v \o x = first \o (behind \o z)
  BY <1>4
<1>6. v = first /\ x = behind \o z
  BY <1>3, <1>4, <1>5, SameCut
<1> QED BY <1>3, <1>6 DEF Extends

(* Octets that are taken off the ring.                                       *)
LEMMA TakenOff ==
    ASSUME NEW r \in Seq(Byte), NEW w \in Seq(Byte), NEW a \in Seq(Byte), NEW b \in Seq(Byte),
           r \o w = a \o b, Len(a) <= Len(r)
    PROVE  /\ SubSeq(r, Len(a) + 1, Len(r)) \in Seq(Byte)
           /\ SubSeq(r, Len(a) + 1, Len(r)) \o w = b
<1>1. Len(a) \in Nat /\ Len(r) \in Nat
  BY LenProperties
<1>2. PICK e \in Seq(Byte) : r = a \o e /\ b = e \o w
  <2>1. a \o b = r \o w
    OBVIOUS
  <2>2. Extends(a, b, r, w)
    BY <2>1, EarlierCut
  <2> QED BY <2>2 DEF Extends
<1>3. Len(a) \in 0..Len(r)
  BY <1>1
<1> DEFINE first == SubSeq(r, 1, Len(a))
           rest == SubSeq(r, Len(a) + 1, Len(r))
<1>4. first \in Seq(Byte) /\ Len(first) = Len(a) /\ rest \in Seq(Byte) /\ r = first \o rest
  BY <1>3, FirstAndRest
<1> HIDE DEF first, rest
<1>5. a \o e = first \o rest
  BY <1>2, <1>4
<1>6. e = rest
  BY <1>4, <1>5, SameCut
<1> QED BY <1>2, <1>4, <1>6 DEF rest

(* Octets that go from the line into the ring.                               *)
LEMMA MovedIn ==
    ASSUME NEW r \in Seq(Byte), NEW w \in Seq(Byte), NEW k \in 0..Len(w)
    PROVE  /\ r \o SubSeq(w, 1, k) \in Seq(Byte) /\ SubSeq(w, k + 1, Len(w)) \in Seq(Byte)
           /\ Len(r \o SubSeq(w, 1, k)) = Len(r) + k
           /\ (r \o SubSeq(w, 1, k)) \o SubSeq(w, k + 1, Len(w)) = r \o w
<1> DEFINE first == SubSeq(w, 1, k)
           rest == SubSeq(w, k + 1, Len(w))
<1>1. first \in Seq(Byte) /\ Len(first) = k /\ rest \in Seq(Byte) /\ w = first \o rest
  BY FirstAndRest
<1> HIDE DEF first, rest
<1>2. (r \o first) \o rest = r \o (first \o rest)
  BY <1>1, JoinedLeft
<1>3. r \o first \in Seq(Byte) /\ Len(r \o first) = Len(r) + k
  BY <1>1, Joined
<1> QED BY <1>1, <1>2, <1>3 DEF first, rest

(***************************************************************************)
(* What is written.                                                        *)
(***************************************************************************)
LEMMA PayloadTypes ==
    ASSUME NEW payload \in Payloads
    PROVE  payload \in Seq(Byte) /\ Len(payload) \in Nat /\ Len(payload) <= MaxLength
<1>1. PICK n \in 0..MaxLength : payload \in [1..n -> 0..255]
  BY FramingAssumption
<1>2. n \in Nat /\ payload \in [1..n -> Byte]
  BY <1>1, FramingAssumption DEF Byte
<1>3. payload \in Seq(Byte) /\ Len(payload) = n
  BY <1>2
<1> QED BY <1>1, <1>2, <1>3

LEMMA RouteTypes ==
    ASSUME NEW route \in Routes
    PROVE  /\ route[1] \in Byte /\ route[2] \in Byte /\ route = <<route[1], route[2]>>
           /\ route[1] = remote_addr /\ route[2] = local_addr => route = Ours
<1>1. remote_addr \in Byte /\ local_addr \in Byte /\ other_addr \in Byte
  BY FramingAssumption DEF Byte
<1> QED BY <1>1 DEF Routes, Ours

(* The two octets of a number, the lower one first.                          *)
TwoOf(n) == <<n % 256, n \div 256>>

LEMMA TwoOfType ==
    ASSUME NEW n \in Checksums
    PROVE  /\ TwoOf(n) \in Seq(Byte) /\ TwoOf(n) = <<n % 256>> \o <<n \div 256>>
           /\ n % 256 \in Byte /\ n \div 256 \in Byte /\ n = (n % 256) + 256 * (n \div 256)
           /\ <<n % 256>> \in Seq(Byte) /\ <<n \div 256>> \in Seq(Byte)
<1>1. n \div 256 \in Byte /\ n % 256 \in Byte /\ n = 256 * (n \div 256) + (n % 256)
  BY TwoBytesOf
<1> DEFINE p == n % 256
           q == n \div 256
<1>2. p \in Byte /\ q \in Byte /\ n = 256 * q + p /\ TwoOf(n) = <<p, q>>
  BY <1>1 DEF TwoOf
<1> HIDE DEF p, q
<1>3. <<p>> \in Seq(Byte) /\ <<q>> \in Seq(Byte) /\ <<p, q>> \in Seq(Byte)
  BY <1>2
<1>4. <<p, q>> = <<p>> \o <<q>>
  BY <1>2, TwoJoined
<1>5. n = p + 256 * q
  BY <1>2 DEF Byte
<1> QED BY <1>2, <1>3, <1>4, <1>5 DEF p, q

(* The checksum of a payload, as it stands behind it, and the length, as it  *)
(* stands before it.                                                         *)
Sum(payload) == TwoOf(Crc(payload))
Length(payload) == TwoOf(Len(payload))

LEMMA FourJoined ==
    ASSUME NEW a \in Byte, NEW b \in Byte, NEW p \in Byte, NEW q \in Byte
    PROVE  <<a, b, p, q>> = <<a>> \o (<<b>> \o <<p, q>>)
<1> DEFINE two == <<b>> \o <<p, q>>
           three == <<a>> \o two
           four == <<a, b, p, q>>
<1>1. /\ <<a>> \in Seq(Byte) /\ <<b>> \in Seq(Byte) /\ <<p, q>> \in Seq(Byte)
      /\ four \in Seq(Byte)
  OBVIOUS
<1>2. /\ two \in Seq(Byte) /\ Len(two) = 3
      /\ \A i \in 1..3 : two[i] = IF i <= 1 THEN <<b>>[i] ELSE <<p, q>>[i - 1]
  BY <1>1, ConcatProperties
<1>3. two[1] = b /\ two[2] = p /\ two[3] = q
  BY <1>2
<1> HIDE DEF two
<1>4. /\ three \in Seq(Byte) /\ Len(three) = 4
      /\ \A i \in 1..4 : three[i] = IF i <= 1 THEN <<a>>[i] ELSE two[i - 1]
  <2>1. Len(<<a>>) = 1 /\ Len(two) = 3
    BY <1>2
  <2>2. \A i \in 1..Len(<<a>>) + Len(two) :
            three[i] = IF i <= Len(<<a>>) THEN <<a>>[i] ELSE two[i - Len(<<a>>)]
    BY <1>1, <1>2, ConcatProperties
  <2>3. three \in Seq(Byte) /\ Len(three) = Len(<<a>>) + Len(two)
    BY <1>1, <1>2, Joined
  <2> QED BY <2>1, <2>2, <2>3
<1>5. three[1] = a /\ three[2] = b /\ three[3] = p /\ three[4] = q
  BY <1>3, <1>4
<1>6. Len(four) = 4 /\ four[1] = a /\ four[2] = b /\ four[3] = p /\ four[4] = q
  OBVIOUS
<1> HIDE DEF three, four
<1>7. \A i \in 1..4 : three[i] = four[i]
  <2>1. \A i \in 1..4 : i = 1 \/ i = 2 \/ i = 3 \/ i = 4
    OBVIOUS
  <2> QED BY <1>5, <1>6, <2>1
<1>8. three = four
  BY <1>1, <1>4, <1>6, <1>7, SeqEqual
<1> QED BY <1>8 DEF three, four, two

LEMMA PartsOfContent ==
    ASSUME NEW payload \in Payloads, NEW route \in Routes
    PROVE  /\ Len(payload) \in Checksums /\ Crc(payload) \in Checksums
           /\ Sum(payload) \in Seq(Byte) /\ Length(payload) \in Seq(Byte)
           /\ payload \o Sum(payload) \in Seq(Byte)
           /\ Header(payload, route[1], route[2]) \in Seq(Byte)
           /\ Header(payload, route[1], route[2])
                 = <<route[1]>> \o (<<route[2]>> \o Length(payload))
           /\ Content(payload, route[1], route[2])
                 = Header(payload, route[1], route[2]) \o (payload \o Sum(payload))
           /\ Content(payload, route[1], route[2])
                 = (Header(payload, route[1], route[2]) \o payload) \o Sum(payload)
           /\ Content(payload, route[1], route[2]) \in Seq(Byte)
           /\ Frame(payload, route[1], route[2]) \in Seq(Byte)
<1>1. payload \in Seq(Byte) /\ Len(payload) \in Checksums /\ Crc(payload) \in Checksums
  BY PayloadTypes, CrcOf, FramingAssumption DEF Checksums
<1>2. Sum(payload) \in Seq(Byte) /\ Length(payload) \in Seq(Byte)
  <2>1. \A n \in Checksums : TwoOf(n) \in Seq(Byte)
    BY TwoOfType
  <2>2. TwoOf(Crc(payload)) \in Seq(Byte) /\ TwoOf(Len(payload)) \in Seq(Byte)
    BY <1>1, <2>1, Zenon
  <2> QED BY <2>2, Zenon DEF Sum, Length
<1> DEFINE a == route[1]
           b == route[2]
           sum == Sum(payload)
           header == Header(payload, a, b)
           content == Content(payload, a, b)
<1>3. a \in Byte /\ b \in Byte
  BY RouteTypes
<1>4. header \in Seq(Byte) /\ header = <<a>> \o (<<b>> \o Length(payload))
  <2> DEFINE p == Len(payload) % 256
             q == Len(payload) \div 256
  <2>1. p \in Byte /\ q \in Byte /\ Length(payload) = <<p, q>>
    <3>1. p \in Byte /\ q \in Byte
      <4>1. \A n \in Checksums : n % 256 \in Byte /\ n \div 256 \in Byte
        BY TwoBytesOf
      <4> QED BY <1>1, <4>1
    <3>2. Length(payload) = <<p, q>>
      BY Zenon DEF Length, TwoOf
    <3> QED BY <3>1, <3>2
  <2>2. header = <<a, b, p, q>>
    BY DEF Header
  <2> HIDE DEF a, b, p, q, header
  <2>3. <<a, b, p, q>> \in Seq(Byte)
    BY <1>3, <2>1
  <2>4. <<a, b, p, q>> = <<a>> \o (<<b>> \o <<p, q>>)
    <3>1. p \in Byte /\ q \in Byte
      BY <2>1
    <3>2. \A x, y, z, t \in Byte : <<x, y, z, t>> = <<x>> \o (<<y>> \o <<z, t>>)
      BY FourJoined
    <3>3. \A z, t \in Byte : <<a, b, z, t>> = <<a>> \o (<<b>> \o <<z, t>>)
      BY <1>3, <3>2
    <3> QED BY <3>1, <3>3, Zenon
  <2> QED BY <2>1, <2>2, <2>3, <2>4
<1>5. content = (header \o payload) \o sum
  BY DEF Content, Sum, TwoOf
<1> HIDE DEF a, b, sum, header, content
<1>6. (header \o payload) \o sum = header \o (payload \o sum)
  <2>1. header \in Seq(Byte) /\ payload \in Seq(Byte) /\ sum \in Seq(Byte)
    BY <1>1, <1>2, <1>4 DEF sum
  <2> QED BY <2>1, JoinedLeft, SMTT(30)
<1>7. payload \o sum \in Seq(Byte)
  BY <1>1, <1>2, Joined DEF sum
<1>8. content \in Seq(Byte)
  BY <1>4, <1>5, <1>6, <1>7, Joined
<1>9. Frame(payload, a, b) \in Seq(Byte)
  <2>1. <<UXR_FRAMING_BEGIN_FLAG>> \in Seq(Byte)
    BY DEF UXR_FRAMING_BEGIN_FLAG, Byte
  <2>2. StuffedAll(content) \in Seq(Byte)
    BY <1>8, StuffedAllOf
  <2>3. <<UXR_FRAMING_BEGIN_FLAG>> \o StuffedAll(content) \in Seq(Byte)
    BY <2>1, <2>2, Joined
  <2> QED BY <2>3 DEF Frame, content
<1> QED BY <1>1, <1>2, <1>4, <1>5, <1>6, <1>7, <1>8, <1>9 DEF a, b, sum, header, content

(***************************************************************************)
(* The ring and the cursors of the reader.                                 *)
(***************************************************************************)
RingHolds ==
    /\ wire \in Seq(Byte) /\ rb \in Seq(Byte)
    /\ Len(rb) < RingSize /\ rb_tail \in 0..RingSize - 1

Entries == [payload : Payloads, octets : Nat, kind : Framed!Kinds]

FramingHolds ==
    /\ RingHolds
    /\ reading \in BOOLEAN /\ state \in States
    /\ msg_len \in Nat /\ buf \in Seq(Byte)
    /\ state \in {"payload", "crc_lsb", "crc_msb"} =>
          msg_len <= MaxLength /\ Len(buf) <= msg_len
    /\ frames \in Seq(Entries) /\ frame_round \in {0, 1}

(* However octets leave the ring and enter it, it holds, and what is in it   *)
(* and on the line only loses the first octets.                              *)
LEMMA RingMoves ==
    ASSUME RingHolds, NEW n \in 0..Len(rb), NEW max \in Nat,
           Take(n) \/ ReadNoMore(n) \/ ReadMore(n, max)
    PROVE  /\ RingHolds'
           /\ rb' \o wire' = SubSeq(rb, n + 1, Len(rb)) \o wire
<1> DEFINE rest == SubSeq(rb, n + 1, Len(rb))
           tail == (rb_tail + n) % RingSize
<1>1. /\ wire \in Seq(Byte) /\ rb \in Seq(Byte) /\ Len(rb) < RingSize /\ Len(rb) \in Nat
      /\ rb_tail \in 0..RingSize - 1 /\ RingSize \in Nat \ {0}
  BY LenProperties, FramingAssumption DEF RingHolds
<1>2. rest \in Seq(Byte) /\ Len(rest) = Len(rb) - n
  BY <1>1, FirstAndRest
<1>3. tail \in 0..RingSize - 1 /\ 0 \in 0..RingSize - 1
  BY <1>1, TailMoves
<1>4. CASE Take(n)
  BY <1>1, <1>2, <1>3, <1>4 DEF Take, RingHolds
<1>5. CASE ReadNoMore(n)
  BY <1>1, <1>2, <1>3, <1>5 DEF ReadNoMore, RingHolds
<1>6. CASE ReadMore(n, max)
  <2>1. PICK k \in 1..Least(Least(max, Available(rest, tail)), Len(wire)) :
            /\ rb' = rest \o SubSeq(wire, 1, k)
            /\ rb_tail' = IF rest = <<>> THEN 0 ELSE tail
            /\ wire' = SubSeq(wire, k + 1, Len(wire))
    BY <1>6 DEF ReadMore
  <2> HIDE DEF rest, tail
  <2>2. Available(rest, tail) = RingSize - 1 - Len(rest) /\ Len(rest) \in Nat /\ Len(wire) \in Nat
    <3>1. Len(rest) \in Nat /\ Len(wire) \in Nat /\ Len(rest) < RingSize
      BY <1>1, <1>2, LenProperties
    <3>2. Available(rest, tail) = RingSize - 1 - Len(rest)
      BY <1>2, <1>3, <3>1, AvailableIs
    <3> QED BY <3>1, <3>2
  <2>3. k \in 0..Len(wire) /\ k <= RingSize - 1 - Len(rest)
    BY <1>1, <1>2, <2>2 DEF Least
  <2>4. /\ rb' \in Seq(Byte) /\ wire' \in Seq(Byte) /\ Len(rb') = Len(rest) + k
        /\ rb' \o wire' = rest \o wire
    BY <1>1, <1>2, <2>1, <2>3, MovedIn
  <2>5. Len(rb') < RingSize
    BY <1>1, <2>2, <2>3, <2>4
  <2> QED BY <1>3, <2>1, <2>4, <2>5 DEF RingHolds, rest
<1> QED BY <1>4, <1>5, <1>6

LEMMA WidthIs ==
    ASSUME RingHolds
    PROVE  /\ Width \in {1, 2} /\ Width \in Nat /\ FlagWidth \in 0..Len(rb)
           /\ HasOctet \/ HasFlag => Width \in 0..Len(rb)
           /\ HasOctet => Octet \in Byte
<1>1. rb \in Seq(Byte) /\ Len(rb) \in Nat
  BY LenProperties DEF RingHolds
<1>2. Width \in {1, 2} /\ Width \in Nat
  BY DEF Width
<1>3. HasOctet \/ HasFlag => Width \in 0..Len(rb)
  BY <1>1, <1>2 DEF HasOctet, HasFlag
<1>4. FlagWidth \in 0..Len(rb)
  BY <1>1, <1>3 DEF FlagWidth
<1>5. ASSUME HasOctet PROVE Octet \in Byte
  <2>1. Width \in 1..Len(rb)
    BY <1>2, <1>3, <1>5
  <2>2. CASE Escaped
    <3>1. 2 \in 1..Len(rb)
      BY <2>1, <2>2 DEF Width
    <3>2. rb[2] \in Byte
      BY <1>1, <3>1, ElementOfSeq
    <3> QED BY <2>2, <3>2, FlippedType DEF Octet
  <2>3. CASE ~Escaped
    <3>1. 1 \in 1..Len(rb)
      BY <2>1, <2>3 DEF Width
    <3>2. rb[1] \in Byte
      BY <1>1, <3>1, ElementOfSeq
    <3> QED BY <2>3, <3>2 DEF Octet
  <2> QED BY <2>2, <2>3
<1> QED BY <1>2, <1>3, <1>4, <1>5

LEMMA AskedIs ==
    ASSUME FramingHolds, LacksOctet
    PROVE  Asked \in Nat
<1>1. state \in States \ {"uninitialized"} /\ msg_len \in Nat /\ Len(buf) \in Nat
  BY LenProperties DEF FramingHolds, LacksOctet
<1>2. state = "payload" => Len(buf) < msg_len
  BY DEF LacksOctet
<1>3. CASE state = "payload"
  <2>1. Asked = (msg_len - Len(buf)) + 2
    BY <1>3 DEF Asked
  <2> QED BY <1>1, <1>2, <1>3, <2>1
<1>4. CASE state # "payload"
  BY <1>1, <1>4 DEF Asked, States
<1> QED BY <1>3, <1>4

(* Every frame that is written is one of Frames, or its first octets.        *)
LEMMA FramesWritten ==
    ASSUME WriteCut \/ WriteWhole \/ WriteForeign
    PROVE  \E payload \in Payloads : \E route \in Routes :
               \E n \in 1..Len(Frame(payload, route[1], route[2])) :
                   WriteFrame(payload, route, n)
<1> DEFINE F(payload, route) == Frame(payload, route[1], route[2])
<1>1. ASSUME NEW payload \in Payloads, NEW route \in Routes
      PROVE  /\ Frames[payload][route] = F(payload, route)
             /\ Len(F(payload, route)) \in 1..Len(F(payload, route))
             /\ \A n \in 1..Len(F(payload, route)) - 1 : n \in 1..Len(F(payload, route))
  <2> DEFINE octets == StuffedAll(Content(payload, route[1], route[2]))
             flag == <<UXR_FRAMING_BEGIN_FLAG>>
  <2>1. octets \in Seq(Byte)
    BY PartsOfContent, StuffedAllOf
  <2>2. flag \in Seq(Byte) /\ Len(flag) = 1
    BY DEF UXR_FRAMING_BEGIN_FLAG, Byte
  <2>3. F(payload, route) = flag \o octets
    BY DEF Frame
  <2> HIDE DEF octets, flag
  <2>4. Len(octets) \in Nat /\ Len(F(payload, route)) = 1 + Len(octets)
    BY <2>1, <2>2, <2>3, Joined, LenProperties
  <2>5. Frames[payload][route] = F(payload, route)
    BY DEF Frames
  <2> QED BY <2>4, <2>5
<1>2. Ours \in Routes
  BY DEF Ours, Routes
<1> HIDE DEF F
<1>3. CASE WriteCut
  <2>1. PICK payload \in CutPayloads : \E n \in 1..Len(Frames[payload][Ours]) - 1 :
                                          WriteFrame(payload, Ours, n)
    BY <1>3 DEF WriteCut
  <2>2. payload \in Payloads
    BY FramingAssumption
  <2>3. PICK n \in 1..Len(F(payload, Ours)) - 1 : WriteFrame(payload, Ours, n)
    BY <1>1, <1>2, <2>1, <2>2
  <2>4. n \in 1..Len(F(payload, Ours))
    BY <1>1, <1>2, <2>2
  <2> QED BY <1>2, <2>2, <2>3, <2>4 DEF F
<1>4. CASE WriteWhole
  <2>1. PICK payload \in Payloads : WriteFrame(payload, Ours, Len(Frames[payload][Ours]))
    BY <1>4 DEF WriteWhole
  <2>2. /\ WriteFrame(payload, Ours, Len(F(payload, Ours)))
        /\ Len(F(payload, Ours)) \in 1..Len(F(payload, Ours))
    BY <1>1, <1>2, <2>1
  <2> QED BY <1>2, <2>2 DEF F
<1>5. CASE WriteForeign
  <2>1. PICK route \in Routes : WriteFrame(ForeignPayload, route, Len(Frames[ForeignPayload][route]))
    BY <1>5 DEF WriteForeign
  <2>2. ForeignPayload \in Payloads
    BY FramingAssumption DEF ForeignPayload
  <2>3. /\ WriteFrame(ForeignPayload, route, Len(F(ForeignPayload, route)))
        /\ Len(F(ForeignPayload, route)) \in 1..Len(F(ForeignPayload, route))
    BY <1>1, <2>1, <2>2
  <2> QED BY <2>2, <2>3 DEF F
<1> QED BY <1>3, <1>4, <1>5

LEMMA WriteFrameHolds ==
    ASSUME FramingHolds, NEW payload \in Payloads, NEW route \in Routes,
           NEW n \in 1..Len(Frame(payload, route[1], route[2])), WriteFrame(payload, route, n)
    PROVE  FramingHolds'
<1> DEFINE F == Frame(payload, route[1], route[2])
           entry == [payload |-> payload, octets |-> n, kind |-> CutWhere(payload, route, n)]
<1>1. F \in Seq(Byte) /\ Len(F) \in Nat /\ Frames[payload][route] = F
  <2>1. F \in Seq(Byte)
    BY PartsOfContent
  <2> QED BY <2>1, LenProperties DEF Frames
<1>2. n \in 0..Len(F)
  BY <1>1
<1> HIDE DEF F
<1>3. SubSeq(F, 1, n) \in Seq(Byte)
  BY <1>1, <1>2, FirstAndRest
<1>4. wire' = wire \o SubSeq(F, 1, n)
  BY <1>1 DEF WriteFrame
<1>5. wire' \in Seq(Byte)
  BY <1>3, <1>4, Joined DEF FramingHolds, RingHolds
<1>6. CutWhere(payload, route, n) \in Framed!Kinds
  BY DEF CutWhere, Framed!Kinds
<1>7. entry \in Entries
  BY <1>2, <1>6 DEF Entries
<1>8. frames' = Append(frames, entry)
  BY DEF WriteFrame
<1> HIDE DEF entry
<1>9. frames' \in Seq(Entries)
  BY <1>7, <1>8, AppendProperties DEF FramingHolds
<1> QED BY <1>5, <1>9 DEF WriteFrame, FramingHolds, RingHolds, ring, message

(* A turn of the reader that takes an octet, if there is one.                *)
LEMMA TurnHolds ==
    ASSUME FramingHolds, Turn
    PROVE  FramingHolds'
<1>1. RingHolds /\ Len(rb) \in Nat /\ Len(buf) \in Nat /\ msg_len \in Nat /\ 0 \in Nat
  BY LenProperties DEF FramingHolds, RingHolds
<1>2. /\ HasOctet \/ HasFlag => (Take(Width) => RingHolds')
      /\ HasOctet => Octet \in Nat
  <2>1. HasOctet => Octet \in Byte
    BY <1>1, WidthIs
  <2>2. \A x \in Byte : x \in Nat
    BY DEF Byte
  <2>3. ASSUME HasOctet \/ HasFlag, Take(Width) PROVE RingHolds'
    BY <1>1, <2>3, WidthIs, RingMoves
  <2> QED BY <2>1, <2>2, <2>3
<1>3. CASE FindFlag
  <2>1. CASE rb = <<>> /\ Ends /\ UNCHANGED <<wire, ring>>
    BY <1>3, <2>1 DEF FindFlag, Ends, FramingHolds, RingHolds, ring, message, outcome, States
  <2>2. CASE rb # <<>> /\ Take(1)
    <3>1. 1 \in 0..Len(rb)
      BY <1>1, <2>2, EmptySeq DEF RingHolds
    <3>2. RingHolds'
      BY <1>1, <2>2, <3>1, RingMoves
    <3> QED BY <1>3, <2>2, <3>2 DEF FindFlag, Goes, FramingHolds, message, outcome, States
  <2> QED BY <1>3, <2>1, <2>2 DEF FindFlag
<1>4. CASE NewFrame
  BY <1>2, <1>4 DEF NewFrame, FlagFirst, Goes, FramingHolds, message, outcome, States
<1>5. CASE ReadSrcAddr
  BY <1>2, <1>5 DEF ReadSrcAddr, Goes, FramingHolds, outcome, States
<1>6. CASE ReadDstAddr
  BY <1>2, <1>6 DEF ReadDstAddr, Goes, FramingHolds, message, outcome, States
<1>7. CASE ReadLenLsb
  <2>1. Octet \in Nat
    BY <1>2, <1>7 DEF ReadLenLsb
  <2> QED BY <1>2, <1>7, <2>1 DEF ReadLenLsb, Goes, FramingHolds, outcome, States
<1>8. CASE ReadLenMsb
  <2>1. Octet \in Nat
    BY <1>2, <1>8 DEF ReadLenMsb
  <2>2. RingHolds' /\ msg_len' = msg_len + 256 * Octet /\ buf' = <<>>
    BY <1>2, <1>8 DEF ReadLenMsb
  <2>3. msg_len' \in Nat /\ buf' \in Seq(Byte) /\ Len(buf') = 0
    BY <1>1, <2>1, <2>2, EmptySeq
  <2>4. \/ state' = "uninitialized" /\ reading' = FALSE
        \/ /\ ~(MaxLength < msg_len')
           /\ state' = "payload" /\ reading' = reading
    BY <1>8 DEF ReadLenMsb, Goes
  <2>5. MaxLength \in Nat /\ frames' = frames /\ frame_round' = frame_round
    BY <1>8, FramingAssumption DEF ReadLenMsb, outcome
  <2>6. reading' \in BOOLEAN /\ state' \in States
    BY <2>4 DEF FramingHolds, States
  <2>7. state' \in {"payload", "crc_lsb", "crc_msb"} =>
            msg_len' <= MaxLength /\ Len(buf') <= msg_len'
    BY <2>3, <2>4, <2>5
  <2> QED BY <2>2, <2>3, <2>5, <2>6, <2>7 DEF FramingHolds
<1>9. CASE ReadPayload
  <2>1. Octet \in Byte
    BY <1>1, <1>9, WidthIs DEF ReadPayload
  <2>2. buf' \in Seq(Byte) /\ Len(buf') = Len(buf) + 1
    BY <1>9, <2>1, AppendProperties DEF ReadPayload, FramingHolds
  <2>3. RingHolds' /\ Len(buf) < msg_len /\ msg_len' = msg_len /\ state' = state
    BY <1>2, <1>9 DEF ReadPayload
  <2> QED BY <1>1, <1>9, <2>2, <2>3 DEF ReadPayload, FramingHolds, outcome, States
<1>10. CASE EndPayload
  BY <1>1, <1>10 DEF EndPayload, Goes, FramingHolds, RingHolds, ring, message, outcome, States
<1>11. CASE ReadCrcLsb
  BY <1>2, <1>11 DEF ReadCrcLsb, Goes, FramingHolds, outcome, States
<1>12. CASE ReadCrcMsb
  <2>1. /\ RingHolds' /\ state' = "uninitialized" /\ reading' = FALSE
        /\ UNCHANGED <<src_addr, msg_len, buf, cmp_crc>>
        /\ ReadFrame \/ UNCHANGED outcome
    BY <1>2, <1>12 DEF ReadCrcMsb
  <2>2. frames \in Seq(Entries) /\ frame_round \in {0, 1}
    BY DEF FramingHolds
  <2>3. frames' \in Seq(Entries) /\ frame_round' \in {0, 1}
    <3>1. CASE UNCHANGED outcome
      BY <2>2, <3>1 DEF outcome
    <3>2. CASE ReadFrame
      <4>1. frame_round' \in {0, 1}
        BY <2>2, <3>2 DEF ReadFrame
      <4>2. ASSUME NEW n \in 1..Len(frames), frames' = SubSeq(frames, n + 1, Len(frames))
            PROVE  frames' \in Seq(Entries)
        <5>1. /\ n + 1 \in Int /\ Len(frames) \in Int
              /\ \A i \in n + 1..Len(frames) : frames[i] \in Entries
          BY <2>2, LenProperties, ElementOfSeq
        <5> QED BY <4>2, <5>1, SubSeqProperties
      <4> QED BY <2>2, <3>2, <4>1, <4>2 DEF ReadFrame
    <3> QED BY <2>1, <3>1, <3>2
  <2> QED BY <2>1, <2>3 DEF FramingHolds, States
<1> QED BY <1>3, <1>4, <1>5, <1>6, <1>7, <1>8, <1>9, <1>10, <1>11, <1>12 DEF Turn

LEMMA FramingStepHolds ==
    ASSUME FramingHolds, [Next]_vars
    PROVE  FramingHolds'
<1>1. RingHolds /\ Len(rb) \in Nat /\ 0 \in 0..Len(rb) /\ 0 \in Nat /\ 5 \in Nat
  BY LenProperties DEF FramingHolds, RingHolds
<1>2. CASE WriteCut \/ WriteWhole \/ WriteForeign
  BY <1>2, FramesWritten, WriteFrameHolds
<1>3. CASE CallRead
  <2>1. CASE UNCHANGED <<wire, ring>>
    BY <1>1, <1>3, <2>1 DEF CallRead, FramingHolds, RingHolds, ring, message, outcome
  <2>2. CASE ReadMore(0, 5)
    <3>1. RingHolds'
      BY <1>1, <2>2, RingMoves
    <3> QED BY <1>3, <3>1 DEF CallRead, FramingHolds, message, outcome
  <2> QED BY <1>3, <2>1, <2>2 DEF CallRead
<1>4. CASE CallReadsNothing
  <2>1. RingHolds'
    BY <1>1, <1>4, RingMoves DEF CallReadsNothing
  <2> QED BY <1>4, <2>1 DEF CallReadsNothing, FramingHolds, message, outcome
<1>5. CASE Turn
  BY <1>5, TurnHolds
<1>6. CASE LineGivesMore
  <2>1. FlagWidth \in 0..Len(rb) /\ Asked \in Nat /\ ReadMore(FlagWidth, Asked)
    BY <1>1, <1>6, WidthIs, AskedIs DEF LineGivesMore
  <2>2. RingHolds'
    BY <1>1, <2>1, RingMoves
  <2> QED BY <1>6, <2>2 DEF LineGivesMore, FramingHolds, message, outcome
<1>7. CASE LineGivesNothing
  <2>1. FlagWidth \in 0..Len(rb) /\ ReadNoMore(FlagWidth)
    BY <1>1, <1>7, WidthIs DEF LineGivesNothing
  <2>2. RingHolds'
    BY <1>1, <2>1, RingMoves
  <2> QED BY <1>7, <2>2 DEF LineGivesNothing, Goes, Ends, FramingHolds, message, outcome, States
<1>8. CASE UNCHANGED vars
  BY <1>1, <1>8 DEF vars, ring, message, outcome, FramingHolds, RingHolds
<1> QED BY <1>2, <1>3, <1>4, <1>5, <1>6, <1>7, <1>8 DEF Next

LEMMA FramingInitHolds ==
    ASSUME Init
    PROVE  FramingHolds
<1>1. <<>> \in Seq(Byte) /\ <<>> \in Seq(Entries) /\ Len(<<>>) = 0
  BY EmptySeq
<1>2. RingSize \in Nat /\ 0 < RingSize /\ 0 \in 0..RingSize - 1
  BY FramingAssumption
<1> QED BY <1>1, <1>2 DEF Init, FramingHolds, RingHolds, States

(* Whatever is on the line, cut anywhere, the reader stays within its ring,  *)
(* of which an octet stays free, and within the caller's buffer.             *)
THEOREM FramingStaysInBounds == Spec => []FramingTypeOK
<1>1. FramingHolds => FramingTypeOK
  BY DEF FramingHolds, FramingTypeOK, RingHolds
<1> QED BY <1>1, FramingInitHolds, FramingStepHolds, PTL DEF Spec

(***************************************************************************)
(* The octets of a frame from each place on where the reader may be in it. *)
(***************************************************************************)
AtPayload(payload) == payload \o Sum(payload)
AtMsb(payload) == <<Len(payload) \div 256>> \o AtPayload(payload)
AtLsb(payload) == <<Len(payload) % 256>> \o AtMsb(payload)
AtDst(payload, route) == <<route[2]>> \o AtLsb(payload)
Whole(payload, route) == Content(payload, route[1], route[2])

LEMMA PlacesInFrame ==
    ASSUME NEW payload \in Payloads, NEW route \in Routes
    PROVE  /\ AtPayload(payload) \in Seq(Byte) /\ AtMsb(payload) \in Seq(Byte)
           /\ AtLsb(payload) \in Seq(Byte) /\ AtDst(payload, route) \in Seq(Byte)
           /\ Whole(payload, route) \in Seq(Byte)
           /\ Whole(payload, route) = <<route[1]>> \o AtDst(payload, route)
<1> DEFINE a == <<route[1]>>
           b == <<route[2]>>
           p == <<Len(payload) % 256>>
           q == <<Len(payload) \div 256>>
           behind == AtPayload(payload)
<1>1. /\ a \in Seq(Byte) /\ b \in Seq(Byte) /\ p \in Seq(Byte) /\ q \in Seq(Byte)
      /\ Length(payload) = p \o q /\ Length(payload) \in Seq(Byte)
  <2>1. a \in Seq(Byte) /\ b \in Seq(Byte)
    BY RouteTypes
  <2>2. Len(payload) \in Checksums /\ Length(payload) \in Seq(Byte)
    BY PartsOfContent
  <2>3. p \in Seq(Byte) /\ q \in Seq(Byte) /\ TwoOf(Len(payload)) = p \o q
    BY <2>2, TwoOfType
  <2> QED BY <2>1, <2>2, <2>3 DEF Length
<1>2. behind \in Seq(Byte) /\ Whole(payload, route) = (a \o (b \o Length(payload))) \o behind
  BY PartsOfContent DEF AtPayload, Whole
<1> HIDE DEF a, b, p, q, behind
<1>3. q \o behind \in Seq(Byte) /\ p \o (q \o behind) \in Seq(Byte)
  BY <1>1, <1>2, Joined
<1>4. /\ b \o (p \o (q \o behind)) \in Seq(Byte) /\ b \o (p \o q) \in Seq(Byte)
      /\ a \o (b \o (p \o (q \o behind))) \in Seq(Byte)
  BY <1>1, <1>3, Joined
<1>5. (p \o q) \o behind = p \o (q \o behind)
  BY <1>1, <1>2, JoinedLeft, SMTT(30)
<1>6. (b \o (p \o q)) \o behind = b \o ((p \o q) \o behind)
  BY <1>1, <1>2, JoinedLeft, SMTT(30)
<1>7. (a \o (b \o (p \o q))) \o behind = a \o ((b \o (p \o q)) \o behind)
  BY <1>1, <1>2, <1>4, JoinedLeft, SMTT(30)
<1>8. Whole(payload, route) = a \o (b \o (p \o (q \o behind)))
  BY <1>1, <1>2, <1>5, <1>6, <1>7
<1>9. /\ AtMsb(payload) = q \o behind /\ AtLsb(payload) = p \o (q \o behind)
      /\ AtDst(payload, route) = b \o (p \o (q \o behind))
  BY DEF AtMsb, AtLsb, AtDst, a, b, p, q, behind
<1> QED BY <1>2, <1>3, <1>4, <1>8, <1>9 DEF behind, a

(* How many octets are stuffed to how many.                                  *)
LEMMA StuffedLonger ==
    ASSUME NEW x \in Byte, NEW t \in Seq(Byte)
    PROVE  /\ Len(StuffedAll(t)) \in Nat /\ Len(Stuffed(x)) \in {1, 2}
           /\ Len(StuffedAll(<<x>> \o t)) = Len(Stuffed(x)) + Len(StuffedAll(t))
           /\ Len(StuffedAll(<<x>> \o t)) > Len(StuffedAll(t))
<1>1. StuffedAll(t) \in Seq(Byte) /\ Len(StuffedAll(t)) \in Nat
  BY StuffedAllOf, LenProperties
<1>2. Stuffed(x) \in Seq(Byte) /\ Len(Stuffed(x)) \in {1, 2}
  BY StuffedIs
<1>3. StuffedAll(<<x>> \o t) = Stuffed(x) \o StuffedAll(t)
  BY StuffedFirst
<1>4. Len(Stuffed(x) \o StuffedAll(t)) = Len(Stuffed(x)) + Len(StuffedAll(t))
  BY <1>1, <1>2, Joined
<1> DEFINE m == Len(Stuffed(x))
           n == Len(StuffedAll(t))
<1>5. m \in {1, 2} /\ n \in Nat /\ Len(StuffedAll(<<x>> \o t)) = m + n
  BY <1>1, <1>2, <1>3, <1>4
<1> HIDE DEF m, n
<1>6. m + n > n
  BY <1>5
<1> QED BY <1>5, <1>6 DEF m, n

(***************************************************************************)
(* The next octet, or a flag in its place.                                 *)
(***************************************************************************)
LEMMA RingBegins ==
    ASSUME RingHolds, NEW a \in Seq(Byte), NEW b \in Seq(Byte), rb \o wire = a \o b,
           NEW i \in 1..Len(rb), i <= Len(a)
    PROVE  rb[i] = a[i]
<1>1. rb \in Seq(Byte) /\ wire \in Seq(Byte)
  BY DEF RingHolds
<1>2. Len(rb) \in Nat /\ Len(wire) \in Nat /\ Len(a) \in Nat /\ Len(b) \in Nat
  BY <1>1, LenProperties
<1>3. (rb \o wire)[i] = rb[i]
  <2>1. i \in 1..Len(rb) + Len(wire)
    BY <1>2
  <2> QED BY <1>1, <2>1, ConcatProperties
<1>4. (a \o b)[i] = a[i]
  <2>1. i \in 1..Len(a) + Len(b)
    BY <1>2
  <2> QED BY <2>1, ConcatProperties
<1> QED BY <1>3, <1>4

FlagSeq == <<UXR_FRAMING_BEGIN_FLAG>>

LEMMA FlagSeqType ==
    FlagSeq \in Seq(Byte) /\ Len(FlagSeq) = 1 /\ FlagSeq[1] = UXR_FRAMING_BEGIN_FLAG
  BY DEF FlagSeq, UXR_FRAMING_BEGIN_FLAG, Byte

(* What is left in the ring and on the line when the next octet is gone.     *)
BehindWidth == SubSeq(rb, Width + 1, Len(rb)) \o wire

LEMMA BehindIs ==
    ASSUME RingHolds, NEW a \in Seq(Byte), NEW b \in Seq(Byte)
    PROVE  rb \o wire = a \o b /\ Len(a) = Width /\ Width <= Len(rb) => BehindWidth = b
<1> HAVE rb \o wire = a \o b /\ Len(a) = Width /\ Width <= Len(rb)
<1>1. rb \in Seq(Byte) /\ wire \in Seq(Byte) /\ Len(a) <= Len(rb)
  BY DEF RingHolds
<1>2. SubSeq(rb, Len(a) + 1, Len(rb)) \o wire = b
  BY <1>1, TakenOff
<1> QED BY <1>2 DEF BehindWidth

(* An octet that is there whole is read.                                     *)
LEMMA OctetThere ==
    ASSUME RingHolds, NEW x \in Byte, NEW behind \in Seq(Byte),
           rb \o wire = Stuffed(x) \o behind
    PROVE  ~HasFlag /\ (HasOctet => Octet = x /\ BehindWidth = behind)
<1>1. /\ rb \in Seq(Byte) /\ wire \in Seq(Byte) /\ Len(rb) \in Nat
      /\ Stuffed(x) \in Seq(Byte)
      /\ \A i \in 1..Len(Stuffed(x)) : Stuffed(x)[i] # UXR_FRAMING_BEGIN_FLAG
  BY LenProperties, StuffedIs DEF RingHolds
<1>2. \A i \in 1..Len(rb) : i <= Len(Stuffed(x)) => rb[i] = Stuffed(x)[i]
  BY <1>1, RingBegins
<1>3. CASE rb = <<>>
  <2>1. Len(rb) = 0
    BY <1>3
  <2> QED BY <2>1, WidthIs DEF HasFlag, HasOctet, Width
<1>4. CASE rb # <<>> /\ Stuffed(x) = <<x>> /\ x # UXR_FRAMING_ESC_FLAG
  <2>1. Len(Stuffed(x)) = 1 /\ Stuffed(x)[1] = x
    BY <1>4
  <2>2. 1 \in 1..Len(rb)
    BY <1>1, <1>4, EmptySeq
  <2>3. rb[1] = x /\ x # UXR_FRAMING_BEGIN_FLAG
    BY <1>1, <1>2, <2>1, <2>2
  <2>4. ~Escaped /\ Width = 1 /\ Octet = x
    BY <1>4, <2>3 DEF Escaped, Width, Octet
  <2>5. ~HasFlag
    BY <2>3, <2>4 DEF HasFlag
  <2>6. BehindWidth = behind
    <3>1. Len(Stuffed(x)) = Width /\ Width <= Len(rb) /\ rb \o wire = Stuffed(x) \o behind
      BY <2>1, <2>2, <2>4
    <3>2. Stuffed(x) \in Seq(Byte)
      BY <1>1
    <3> QED BY <3>1, <3>2, BehindIs
  <2> QED BY <2>4, <2>5, <2>6
<1>5. CASE /\ rb # <<>> /\ Stuffed(x) = <<UXR_FRAMING_ESC_FLAG, Flipped(x)>>
           /\ Flipped(Flipped(x)) = x
  <2>1. /\ Len(Stuffed(x)) = 2 /\ Stuffed(x)[1] = UXR_FRAMING_ESC_FLAG
        /\ Stuffed(x)[2] = Flipped(x)
    BY <1>5
  <2>2. 1 \in 1..Len(rb)
    BY <1>1, <1>5, EmptySeq
  <2>3. rb[1] = UXR_FRAMING_ESC_FLAG
    BY <1>2, <2>1, <2>2
  <2>4. Escaped /\ Width = 2
    BY <1>5, <2>3 DEF Escaped, Width
  <2>5. ASSUME Len(rb) >= 2
        PROVE  rb[2] = Flipped(x) /\ rb[2] # UXR_FRAMING_BEGIN_FLAG /\ BehindWidth = behind
    <3>1. 2 \in 1..Len(rb) /\ 2 \in 1..Len(Stuffed(x))
      BY <1>1, <2>1, <2>5
    <3>2. rb[2] = Stuffed(x)[2] /\ Stuffed(x)[2] # UXR_FRAMING_BEGIN_FLAG
      BY <1>1, <1>2, <2>1, <3>1
    <3>3. /\ Len(Stuffed(x)) = Width /\ Width <= Len(rb) /\ rb \o wire = Stuffed(x) \o behind
          /\ Stuffed(x) \in Seq(Byte)
      BY <1>1, <2>1, <2>4, <2>5
    <3>4. BehindWidth = behind
      BY <3>3, BehindIs
    <3> QED BY <2>1, <3>2, <3>4
  <2>6. ~HasFlag
    <3>1. HasFlag => Len(rb) >= 2 /\ rb[2] = UXR_FRAMING_BEGIN_FLAG
      BY <2>4 DEF HasFlag
    <3> QED BY <2>5, <3>1
  <2>7. HasOctet => Len(rb) >= 2 /\ Octet = Flipped(rb[2])
    BY <2>4 DEF HasOctet, Octet
  <2> QED BY <1>5, <2>5, <2>6, <2>7
<1> QED BY <1>3, <1>4, <1>5, StuffedIs

(* Behind the first octets of one, if any, stands a flag or nothing.         *)
LEMMA NothingThere ==
    ASSUME RingHolds, NEW left \in Seq(Byte), Len(left) <= 1,
           \A i \in 1..Len(left) : left[i] = UXR_FRAMING_ESC_FLAG, rb \o wire = left
    PROVE  ~HasOctet /\ ~HasFlag
<1>1. rb \in Seq(Byte) /\ wire \in Seq(Byte) /\ <<>> \in Seq(Byte) /\ left \o <<>> = left
  BY ConcatEmptySeq, EmptySeq DEF RingHolds
<1>2. Len(rb) \in Nat /\ Len(wire) \in Nat /\ Len(left) \in Nat /\ Len(rb) + Len(wire) = Len(left)
  BY <1>1, Joined, LenProperties
<1>3. Len(rb) < Width
  <2>1. CASE Len(rb) = 0
    BY <2>1, WidthIs
  <2>2. CASE Len(rb) # 0
    <3>1. Len(rb) = 1 /\ Len(left) = 1 /\ 1 \in 1..Len(rb) /\ 1 \in 1..Len(left)
          /\ 1 <= Len(left)
      <4> DEFINE r == Len(rb)
                 w == Len(wire)
                 l == Len(left)
      <4>1. r \in Nat /\ w \in Nat /\ l \in Nat /\ r + w = l /\ l <= 1 /\ r # 0
        BY <1>2, <2>2
      <4> HIDE DEF r, w, l
      <4>2. r = 1 /\ l = 1
        BY <4>1
      <4> QED BY <4>2 DEF r, w, l
    <3>2. rb \o wire = left \o <<>>
      BY <1>1
    <3>3. rb[1] = left[1]
      BY <1>1, <3>1, <3>2, RingBegins
    <3>4. rb # <<>> /\ rb[1] = UXR_FRAMING_ESC_FLAG
      BY <1>1, <2>2, <3>1, <3>3, EmptySeq
    <3> QED BY <3>1, <3>4 DEF Width, Escaped
  <2> QED BY <2>1, <2>2
<1>4. Width \in Nat
  BY WidthIs
<1>5. ~(Len(rb) >= Width)
  BY <1>2, <1>3, <1>4
<1> QED BY <1>5 DEF HasOctet, HasFlag

LEMMA FlagThere ==
    ASSUME RingHolds, NEW left \in Seq(Byte), Len(left) <= 1,
           \A i \in 1..Len(left) : left[i] = UXR_FRAMING_ESC_FLAG,
           NEW after \in Seq(Byte), rb \o wire = left \o (FlagSeq \o after)
    PROVE  ~HasOctet /\ (HasFlag => BehindWidth = after)
<1>1. rb \in Seq(Byte) /\ wire \in Seq(Byte) /\ Len(rb) \in Nat /\ Len(left) \in Nat
  BY LenProperties DEF RingHolds
<1> DEFINE start == left \o FlagSeq
<1>2. start \in Seq(Byte) /\ Len(start) = Len(left) + 1
  <2>1. FlagSeq \in Seq(Byte) /\ Len(FlagSeq) = 1
    BY FlagSeqType
  <2> QED BY <2>1, Joined
<1>3. \A i \in 1..Len(left) + 1 : start[i] = IF i <= Len(left) THEN left[i]
                                                ELSE FlagSeq[i - Len(left)]
  BY FlagSeqType, ConcatProperties
<1>4. rb \o wire = start \o after
  <2>1. (left \o FlagSeq) \o after = left \o (FlagSeq \o after)
    BY FlagSeqType, JoinedLeft, SMTT(30)
  <2> QED BY <2>1
<1>5. /\ \A i \in 1..Len(left) : start[i] = UXR_FRAMING_ESC_FLAG
      /\ start[Len(left) + 1] = UXR_FRAMING_BEGIN_FLAG
  <2>1. \A i \in 1..Len(left) : i \in 1..Len(left) + 1 /\ i <= Len(left)
    BY <1>1
  <2>2. /\ Len(left) + 1 \in 1..Len(left) + 1 /\ ~(Len(left) + 1 <= Len(left))
        /\ (Len(left) + 1) - Len(left) = 1
    BY <1>1
  <2>3. start[Len(left) + 1] = FlagSeq[1]
    BY <1>3, <2>2
  <2> QED BY <1>3, <2>1, <2>3, FlagSeqType
<1> HIDE DEF start
<1>6. \A i \in 1..Len(rb) : i <= Len(start) => rb[i] = start[i]
  BY <1>2, <1>4, RingBegins
<1>7. CASE Len(rb) = 0
  <2>1. ~(Len(rb) >= Width)
    BY <1>7, WidthIs
  <2> QED BY <2>1 DEF HasFlag, HasOctet
<1>8. CASE Len(rb) # 0
  <2>1. 1 \in 1..Len(rb) /\ rb # <<>> /\ 1 <= Len(start)
    BY <1>1, <1>2, <1>8, EmptySeq
  <2>2. rb[1] = start[1]
    BY <1>6, <2>1
  <2>3. Width = Len(start)
    <3>1. CASE Len(left) = 0
      <4>1. rb[1] = UXR_FRAMING_BEGIN_FLAG
        BY <1>5, <2>2, <3>1
      <4> QED BY <1>2, <3>1, <4>1
             DEF Width, Escaped, UXR_FRAMING_BEGIN_FLAG, UXR_FRAMING_ESC_FLAG
    <3>2. CASE Len(left) = 1
      <4>1. 1 \in 1..Len(left)
        BY <3>2
      <4>2. rb[1] = UXR_FRAMING_ESC_FLAG
        BY <1>5, <2>2, <4>1
      <4> QED BY <1>2, <2>1, <3>2, <4>2 DEF Width, Escaped
    <3>3. Len(left) = 0 \/ Len(left) = 1
      <4> DEFINE l == Len(left)
      <4>1. l \in Nat /\ l <= 1
        BY <1>1
      <4> HIDE DEF l
      <4>2. l = 0 \/ l = 1
        BY <4>1
      <4> QED BY <4>2 DEF l
    <3> QED BY <3>1, <3>2, <3>3
  <2>4. ASSUME Len(rb) >= Width
        PROVE  rb[Width] = UXR_FRAMING_BEGIN_FLAG /\ BehindWidth = after
    <3>1. /\ Len(start) \in 1..Len(rb) /\ Len(start) = Width /\ Width <= Len(rb)
          /\ Len(start) = Len(left) + 1 /\ Len(start) <= Len(start)
      BY <1>1, <1>2, <2>3, <2>4
    <3>2. rb[Len(start)] = start[Len(start)]
      BY <1>6, <3>1
    <3>3. BehindWidth = after
      BY <1>2, <1>4, <3>1, BehindIs
    <3> QED BY <1>5, <3>1, <3>2, <3>3
  <2> QED BY <2>4 DEF HasOctet, HasFlag
<1> QED BY <1>7, <1>8

(* Of the octets left of a frame, some of which may be missing, either the   *)
(* next one is there, or at most its escape.                                 *)
LEMMA ThereOrMissing ==
    ASSUME NEW left \in Seq(Byte), NEW X \in Seq(Byte), NEW x \in Byte, NEW t \in Seq(Byte),
           left \o X = StuffedAll(<<x>> \o t)
    PROVE  \/ \E more \in Seq(Byte) : left = Stuffed(x) \o more /\ more \o X = StuffedAll(t)
           \/ /\ Len(left) <= 1
              /\ \A i \in 1..Len(left) : left[i] = UXR_FRAMING_ESC_FLAG
              /\ Len(X) > Len(StuffedAll(t))
<1> DEFINE s == Stuffed(x)
           u == StuffedAll(t)
<1>1. /\ s \in Seq(Byte) /\ u \in Seq(Byte) /\ left \o X = s \o u
      /\ Len(s) \in Nat /\ Len(u) \in Nat /\ Len(left) \in Nat /\ Len(X) \in Nat
  BY StuffedIs, StuffedAllOf, StuffedFirst, LenProperties
<1>2. s = <<x>> \/ s = <<UXR_FRAMING_ESC_FLAG, Flipped(x)>>
  BY StuffedIs
<1>3. Len(s) = 1 \/ (Len(s) = 2 /\ s[1] = UXR_FRAMING_ESC_FLAG)
  BY <1>2
<1> SUFFICES \/ \E more \in Seq(Byte) : left = s \o more /\ more \o X = u
             \/ /\ Len(left) <= 1
                /\ \A i \in 1..Len(left) : left[i] = UXR_FRAMING_ESC_FLAG
                /\ Len(X) > Len(u)
  OBVIOUS
<1> HIDE DEF s, u
<1>4. CASE Len(s) <= Len(left)
  <2>1. s \o u = left \o X
    BY <1>1
  <2>2. Extends(s, u, left, X)
    BY <1>1, <1>4, <2>1, EarlierCut
  <2>3. PICK e \in Seq(Byte) : left = s \o e /\ u = e \o X
    BY <2>2 DEF Extends
  <2> QED BY <2>3
<1>5. CASE Len(left) < Len(s)
  <2>1. Len(left) + Len(X) = Len(s) + Len(u)
    <3>1. Len(left \o X) = Len(left) + Len(X) /\ Len(s \o u) = Len(s) + Len(u)
      BY <1>1, Joined
    <3> QED BY <1>1, <3>1
  <2>2. Len(X) > Len(u) /\ Len(left) <= 1
    BY <1>1, <1>3, <1>5, <2>1
  <2>3. ASSUME NEW i \in 1..Len(left) PROVE left[i] = UXR_FRAMING_ESC_FLAG
    <3>1. i = 1 /\ Len(left) = 1 /\ Len(s) = 2
      BY <1>1, <1>3, <1>5, <2>2
    <3>2. 1 \in 1..Len(left) + Len(X) /\ 1 \in 1..Len(s) + Len(u) /\ 1 <= Len(left) /\ 1 <= Len(s)
      BY <1>1, <3>1
    <3>3. (left \o X)[1] = left[1]
      BY <3>2, ConcatProperties
    <3>4. (s \o u)[1] = s[1]
      BY <1>1, <3>2, ConcatProperties
    <3>5. left[1] = s[1]
      BY <1>1, <3>3, <3>4
    <3> QED BY <1>3, <3>1, <3>5
  <2> QED BY <2>2, <2>3
<1>6. Len(s) <= Len(left) \/ Len(left) < Len(s)
  BY <1>1
<1> QED BY <1>4, <1>5, <1>6

(***************************************************************************)
(* The frames on the line.                                                 *)
(***************************************************************************)
(* The octets X at the end of a frame may be missing: none of them, all but  *)
(* the flag, or some of the payload and all behind it.                       *)
Missing(payload, route, X) ==
    \/ X = <<>>
    \/ X = StuffedAll(Whole(payload, route))
    \/ /\ Len(StuffedAll(Sum(payload))) < Len(X)
       /\ Len(X) <= Len(StuffedAll(AtPayload(payload)))

(* A frame of which body was written behind the flag, and X was not.         *)
Sent(frame, route, body, X) ==
    /\ body \o X = StuffedAll(Whole(frame.payload, route))
    /\ Missing(frame.payload, route, X)
    /\ frame.kind = "whole" <=> X = <<>> /\ route = Ours
    /\ frame.octets = 1 + Len(body)

Begins(frame, stream, next) ==
    \E route \in Routes : \E body \in Seq(Byte) : \E X \in Seq(Byte) :
        Sent(frame, route, body, X) /\ stream = FlagSeq \o (body \o next)

(* What is written from each frame on.                                       *)
LaidFrames(rest, fs) ==
    /\ rest \in [1..Len(fs) + 1 -> Seq(Byte)]
    /\ rest[Len(fs) + 1] = <<>>
    /\ \A i \in 1..Len(fs) : Begins(fs[i], rest[i], rest[i + 1])

LEMMA BeginsLonger ==
    ASSUME NEW frame, NEW stream, NEW next \in Seq(Byte), NEW more \in Seq(Byte),
           Begins(frame, stream, next)
    PROVE  Begins(frame, stream \o more, next \o more)
<1>1. PICK route \in Routes : \E body \in Seq(Byte) : \E X \in Seq(Byte) :
          Sent(frame, route, body, X) /\ stream = FlagSeq \o (body \o next)
  BY DEF Begins
<1>2. PICK body \in Seq(Byte) : \E X \in Seq(Byte) :
          Sent(frame, route, body, X) /\ stream = FlagSeq \o (body \o next)
  BY <1>1
<1>3. PICK X \in Seq(Byte) : Sent(frame, route, body, X) /\ stream = FlagSeq \o (body \o next)
  BY <1>2
<1>4. FlagSeq \in Seq(Byte) /\ body \o next \in Seq(Byte)
  BY FlagSeqType, Joined
<1>5. (FlagSeq \o (body \o next)) \o more = FlagSeq \o ((body \o next) \o more)
  BY <1>4, JoinedLeft
<1>6. (body \o next) \o more = body \o (next \o more)
  BY JoinedLeft
<1>7. stream \o more = FlagSeq \o (body \o (next \o more))
  BY <1>3, <1>5, <1>6
<1> QED BY <1>3, <1>7 DEF Begins

LEMMA BeginsType ==
    ASSUME NEW frame, NEW stream, NEW next \in Seq(Byte), Begins(frame, stream, next)
    PROVE  /\ stream \in Seq(Byte) /\ Len(stream) = frame.octets + Len(next)
           /\ frame.octets \in Nat /\ frame.octets > 0
<1>1. PICK route \in Routes : \E body \in Seq(Byte) : \E X \in Seq(Byte) :
          Sent(frame, route, body, X) /\ stream = FlagSeq \o (body \o next)
  BY DEF Begins
<1>2. PICK body \in Seq(Byte) : \E X \in Seq(Byte) :
          Sent(frame, route, body, X) /\ stream = FlagSeq \o (body \o next)
  BY <1>1
<1>3. frame.octets = 1 + Len(body) /\ stream = FlagSeq \o (body \o next)
  BY <1>2 DEF Sent
<1>4. /\ FlagSeq \in Seq(Byte) /\ Len(FlagSeq) = 1 /\ body \o next \in Seq(Byte)
      /\ Len(body \o next) = Len(body) + Len(next) /\ Len(body) \in Nat /\ Len(next) \in Nat
  BY FlagSeqType, Joined, LenProperties
<1>5. /\ FlagSeq \o (body \o next) \in Seq(Byte)
      /\ Len(FlagSeq \o (body \o next)) = Len(FlagSeq) + Len(body \o next)
  BY <1>4, Joined
<1> QED BY <1>3, <1>4, <1>5

LEMMA LaidTypes ==
    ASSUME NEW rest, NEW fs \in Seq(Entries), LaidFrames(rest, fs), NEW i \in 1..Len(fs)
    PROVE  /\ rest[i] \in Seq(Byte) /\ rest[i + 1] \in Seq(Byte)
           /\ Len(rest[i]) \in Nat /\ Len(rest[i + 1]) \in Nat
           /\ fs[i].octets \in Nat /\ fs[i].octets > 0
           /\ Len(rest[i]) = fs[i].octets + Len(rest[i + 1])
<1>1. Len(fs) \in Nat /\ i \in 1..Len(fs) + 1 /\ i + 1 \in 1..Len(fs) + 1
  BY LenProperties
<1>2. rest[i] \in Seq(Byte) /\ rest[i + 1] \in Seq(Byte) /\ Begins(fs[i], rest[i], rest[i + 1])
  BY <1>1 DEF LaidFrames
<1>3. Len(rest[i]) \in Nat /\ Len(rest[i + 1]) \in Nat
  BY <1>2, LenProperties
<1>4. /\ Len(rest[i]) = fs[i].octets + Len(rest[i + 1])
      /\ fs[i].octets \in Nat /\ fs[i].octets > 0
  BY <1>2, BeginsType
<1> QED BY <1>2, <1>3, <1>4

(* A frame that is written stands behind the others.                         *)
LEMMA LaidBehind ==
    ASSUME NEW fs \in Seq(Entries), NEW rest, LaidFrames(rest, fs), NEW frame \in Entries,
           NEW route \in Routes, NEW body \in Seq(Byte), NEW X \in Seq(Byte),
           Sent(frame, route, body, X)
    PROVE  \E longer : /\ LaidFrames(longer, Append(fs, frame))
                       /\ \A i \in 1..Len(fs) + 1 : longer[i] = rest[i] \o (FlagSeq \o body)
<1> DEFINE more == FlagSeq \o body
           N == Len(fs)
           both == Append(fs, frame)
           longer == [i \in 1..(N + 1) + 1 |-> IF i <= N + 1 THEN rest[i] \o more ELSE <<>>]
<1>1. /\ N \in Nat /\ Len(both) = N + 1 /\ both[N + 1] = frame
      /\ \A i \in 1..N : both[i] = fs[i]
  BY AppendProperties, LenProperties
<1>2. more \in Seq(Byte) /\ <<>> \in Seq(Byte) /\ body \o <<>> = body /\ <<>> \o more = more
  <2>1. more \in Seq(Byte)
    BY FlagSeqType, Joined
  <2>2. <<>> \in Seq(Byte)
    BY EmptySeq
  <2> QED BY <2>1, <2>2, ConcatEmptySeq
<1>3. rest \in [1..N + 1 -> Seq(Byte)] /\ rest[N + 1] = <<>>
  BY DEF LaidFrames
<1>4. Begins(frame, more, <<>>)
  <2>1. Sent(frame, route, body, X) /\ more = FlagSeq \o (body \o <<>>)
    BY <1>2
  <2> HIDE DEF more
  <2> QED BY <2>1 DEF Begins
<1>5. \A i \in 1..N : Begins(fs[i], rest[i], rest[i + 1])
  BY DEF LaidFrames
<1> HIDE DEF more, N, both
<1>6. longer \in [1..(N + 1) + 1 -> Seq(Byte)]
  <2>1. ASSUME NEW i \in 1..(N + 1) + 1, i <= N + 1 PROVE rest[i] \o more \in Seq(Byte)
    <3>1. i \in 1..N + 1
      BY <1>1, <2>1
    <3>2. rest[i] \in Seq(Byte)
      BY <1>3, <3>1
    <3> QED BY <1>2, <3>2, Joined
  <2> QED BY <1>2, <2>1
<1>7. /\ \A i \in 1..N + 1 : longer[i] = rest[i] \o more
      /\ longer[(N + 1) + 1] = <<>>
  <2>1. \A i \in 1..N + 1 : i \in 1..(N + 1) + 1 /\ i <= N + 1
    BY <1>1
  <2>2. (N + 1) + 1 \in 1..(N + 1) + 1 /\ ~((N + 1) + 1 <= N + 1)
    BY <1>1
  <2> QED BY <2>1, <2>2
<1> HIDE DEF longer
<1>8. ASSUME NEW i \in 1..N + 1
      PROVE  Begins(both[i], longer[i], longer[i + 1])
  <2>1. CASE i \in 1..N
    <3>1. i \in 1..N + 1 /\ i + 1 \in 1..N + 1
      BY <1>1, <2>1
    <3>2. /\ longer[i] = rest[i] \o more /\ longer[i + 1] = rest[i + 1] \o more
          /\ both[i] = fs[i] /\ rest[i + 1] \in Seq(Byte)
      BY <1>1, <1>3, <1>7, <2>1, <3>1
    <3>3. Begins(fs[i], rest[i], rest[i + 1])
      BY <1>5, <2>1
    <3>4. Begins(fs[i], rest[i] \o more, rest[i + 1] \o more)
      BY <1>2, <3>2, <3>3, BeginsLonger
    <3> QED BY <3>2, <3>4
  <2>2. CASE i = N + 1
    <3>1. N + 1 \in 1..N + 1
      BY <1>1
    <3>2. longer[N + 1] = more /\ longer[(N + 1) + 1] = <<>> /\ both[N + 1] = frame
      BY <1>1, <1>2, <1>3, <1>7, <3>1
    <3> QED BY <1>4, <2>2, <3>2
  <2>3. i \in 1..N \/ i = N + 1
    BY <1>1
  <2> QED BY <2>1, <2>2, <2>3
<1>9. LaidFrames(longer, both)
  BY <1>1, <1>6, <1>7, <1>8 DEF LaidFrames
<1> QED BY <1>7, <1>9 DEF both, N, more

(* What is left when the first n frames are gone.                            *)
LEMMA LaidFurther ==
    ASSUME NEW fs \in Seq(Entries), NEW rest, LaidFrames(rest, fs), NEW n \in 1..Len(fs)
    PROVE  LET fewer == SubSeq(fs, n + 1, Len(fs))
           IN  /\ fewer \in Seq(Entries)
               /\ \E less : LaidFrames(less, fewer) /\ less[1] = rest[n + 1]
<1> DEFINE N == Len(fs)
           M == N - n
           fewer == SubSeq(fs, n + 1, N)
           less == [i \in 1..M + 1 |-> rest[n + i]]
<1>1. N \in Nat /\ n \in 1..N /\ M \in Nat /\ N = n + M
  BY LenProperties
<1>2. fewer \in Seq(Entries) /\ Len(fewer) = M /\ \A i \in 1..M : fewer[i] = fs[n + i]
  <2>1. n + 1 \in Int /\ N \in Int /\ \A i \in n + 1..N : fs[i] \in Entries
    BY <1>1, ElementOfSeq
  <2>2. /\ fewer \in Seq(Entries)
        /\ Len(fewer) = IF n + 1 <= N THEN N - (n + 1) + 1 ELSE 0
        /\ \A i \in 1..N - (n + 1) + 1 : fewer[i] = fs[n + 1 + i - 1]
    BY <2>1, SubSeqProperties
  <2>3. \A a \in Nat : \A b \in 1..a : /\ a - (b + 1) + 1 = a - b
                                      /\ (IF b + 1 <= a THEN a - (b + 1) + 1 ELSE 0) = a - b
    OBVIOUS
  <2>4. \A i \in 1..M : n + 1 + i - 1 = n + i
    BY <1>1
  <2>5. Len(fewer) = M
    BY <1>1, <2>2, <2>3
  <2>6. N - (n + 1) + 1 = M
    BY <1>1, <2>3
  <2> QED BY <2>2, <2>4, <2>5, <2>6
<1>3. /\ rest \in [1..N + 1 -> Seq(Byte)] /\ rest[N + 1] = <<>>
      /\ \A i \in 1..N : Begins(fs[i], rest[i], rest[i + 1])
  BY DEF LaidFrames
<1> HIDE DEF N, M, fewer
<1>4. less \in [1..M + 1 -> Seq(Byte)]
  <2>1. ASSUME NEW i \in 1..M + 1 PROVE n + i \in 1..N + 1
    BY <1>1
  <2>2. \A i \in 1..M + 1 : rest[n + i] \in Seq(Byte)
    BY <1>3, <2>1
  <2> QED BY <2>2
<1>5. \A i \in 1..M + 1 : less[i] = rest[n + i]
  OBVIOUS
<1> HIDE DEF less
<1>6. less[M + 1] = <<>> /\ less[1] = rest[n + 1]
  <2>1. M + 1 \in 1..M + 1 /\ 1 \in 1..M + 1 /\ n + (M + 1) = N + 1
    BY <1>1
  <2> QED BY <1>3, <1>5, <2>1
<1>7. ASSUME NEW i \in 1..M
      PROVE  Begins(fewer[i], less[i], less[i + 1])
  <2>1. i \in 1..M + 1 /\ i + 1 \in 1..M + 1 /\ n + i \in 1..N /\ n + (i + 1) = (n + i) + 1
    BY <1>1
  <2>2. less[i] = rest[n + i] /\ less[i + 1] = rest[(n + i) + 1] /\ fewer[i] = fs[n + i]
    BY <1>2, <1>5, <2>1
  <2>3. Begins(fs[n + i], rest[n + i], rest[(n + i) + 1])
    BY <1>3, <2>1
  <2> QED BY <2>2, <2>3
<1>8. LaidFrames(less, fewer)
  BY <1>2, <1>4, <1>6, <1>7 DEF LaidFrames
<1> QED BY <1>2, <1>6, <1>8 DEF fewer, N

(* What stands behind a frame tells which one it is.                         *)
LEMMA FramesBehind ==
    ASSUME NEW fs \in Seq(Entries), NEW rest, LaidFrames(rest, fs)
    PROVE  \A n \in 1..Len(fs) + 1 : \A c \in 1..n :
               c < n => Len(rest[n]) < Len(rest[c])
<1> DEFINE N == Len(fs)
           S == {n \in Nat : n + 1 <= N + 1 => \A c \in 1..n + 1 :
                                c < n + 1 => Len(rest[n + 1]) < Len(rest[c])}
<1>1. N \in Nat
  BY LenProperties
<1>2. \A i \in 1..N : /\ Len(rest[i]) \in Nat /\ Len(rest[i + 1]) \in Nat
                      /\ Len(rest[i + 1]) < Len(rest[i])
  <2> TAKE i \in 1..N
  <2>1. /\ Len(rest[i]) \in Nat /\ Len(rest[i + 1]) \in Nat
        /\ fs[i].octets \in Nat /\ fs[i].octets > 0
        /\ Len(rest[i]) = fs[i].octets + Len(rest[i + 1])
    BY LaidTypes
  <2> QED BY <2>1
<1> HIDE DEF N
<1>3. 0 \in S
  OBVIOUS
<1>4. ASSUME NEW n \in Nat, n \in S
      PROVE  n + 1 \in S
  <2> SUFFICES ASSUME (n + 1) + 1 <= N + 1, NEW c \in 1..(n + 1) + 1, c < (n + 1) + 1
               PROVE  Len(rest[(n + 1) + 1]) < Len(rest[c])
    OBVIOUS
  <2>1. n + 1 \in 1..N /\ n + 1 <= N + 1 /\ c \in 1..n + 1
    BY <1>1
  <2>2. Len(rest[(n + 1) + 1]) < Len(rest[n + 1])
    BY <1>2, <2>1
  <2>3. CASE c = n + 1
    BY <2>2, <2>3
  <2>4. CASE c < n + 1
    <3>1. Len(rest[n + 1]) < Len(rest[c])
      BY <1>4, <2>1, <2>4
    <3>2. c \in 1..N
      BY <1>1, <2>1, <2>4
    <3>3. Len(rest[c]) \in Nat /\ Len(rest[n + 1]) \in Nat /\ Len(rest[(n + 1) + 1]) \in Nat
      BY <1>2, <2>1, <3>2
    <3> QED BY <2>2, <3>1, <3>3
  <2>5. c = n + 1 \/ c < n + 1
    BY <2>1
  <2> QED BY <2>3, <2>4, <2>5
<1> HIDE DEF S
<1>5. Nat \subseteq S
  BY <1>3, <1>4, CountUp
<1>6. ASSUME NEW n \in 1..N + 1
      PROVE  \A c \in 1..n : c < n => Len(rest[n]) < Len(rest[c])
  <2>1. n - 1 \in Nat /\ (n - 1) + 1 = n /\ (n - 1) + 1 <= N + 1
    BY <1>1
  <2>2. n - 1 \in S
    BY <1>5, <2>1
  <2> QED BY <2>1, <2>2 DEF S
<1> QED BY <1>6 DEF N

(* The octets behind each frame.                                             *)
BehindSteps(n) ==
    CHOOSE f : f = [i \in n..Len(frames) |->
                       IF i = Len(frames) THEN 0 ELSE frames[i + 1].octets + f[i + 1]]

LEMMA OctetsBehindAre ==
    ASSUME frames \in Seq(Entries), NEW rest, LaidFrames(rest, frames),
           NEW n \in 1..Len(frames)
    PROVE  OctetsBehind(n) = Len(rest[n + 1])
<1> DEFINE N == Len(frames)
           Is(f) == f = [i \in n..N |-> IF i = N THEN 0 ELSE frames[i + 1].octets + f[i + 1]]
           g == [i \in n..N |-> Len(rest[i + 1])]
           b == BehindSteps(n)
<1>1. N \in Nat /\ n \in 1..N
  BY LenProperties
<1>2. \A i \in 1..N : /\ Len(rest[i]) = frames[i].octets + Len(rest[i + 1])
                      /\ Len(rest[i + 1]) \in Nat /\ frames[i].octets \in Nat
  <2> TAKE i \in 1..N
  <2> QED BY LaidTypes
<1>3. Len(rest[N + 1]) = 0
  <2>1. rest[N + 1] = <<>>
    BY DEF LaidFrames
  <2> QED BY <2>1, EmptySeq
<1> HIDE DEF N
<1>4. Is(g)
  <2>1. ASSUME NEW i \in n..N
        PROVE  g[i] = IF i = N THEN 0 ELSE frames[i + 1].octets + g[i + 1]
    <3>1. CASE i = N
      BY <1>3, <3>1
    <3>2. CASE i # N
      <4>1. i + 1 \in 1..N /\ i + 1 \in n..N
        BY <1>1, <3>2
      <4>2. Len(rest[i + 1]) = frames[i + 1].octets + Len(rest[(i + 1) + 1])
        BY <1>2, <4>1
      <4> QED BY <3>2, <4>1, <4>2
    <3> QED BY <3>1, <3>2
  <2>2. g = [i \in n..N |-> g[i]]
    OBVIOUS
  <2> HIDE DEF g
  <2> QED BY <2>1, <2>2
<1>5. Is(b)
  <2>1. b = CHOOSE h : Is(h)
    BY DEF BehindSteps, N
  <2> HIDE DEF Is, b, g
  <2> QED BY <1>4, <2>1
<1>6. \A i \in n..N : b[i] = IF i = N THEN 0 ELSE frames[i + 1].octets + b[i + 1]
  <2> HIDE DEF b
  <2> QED BY <1>5
<1> HIDE DEF b, Is, g
<1> DEFINE S == {k \in Nat : k <= N - n => b[N - k] = Len(rest[(N - k) + 1])}
<1>7. 0 \in S
  <2>1. N - 0 = N /\ N \in n..N
    BY <1>1
  <2> QED BY <1>3, <1>6, <2>1
<1>8. ASSUME NEW k \in Nat, k \in S
      PROVE  k + 1 \in S
  <2> SUFFICES ASSUME k + 1 <= N - n
               PROVE  b[N - (k + 1)] = Len(rest[(N - (k + 1)) + 1])
    OBVIOUS
  <2> DEFINE i == N - (k + 1)
  <2>1. /\ i \in n..N /\ i # N /\ i + 1 = N - k /\ i + 1 \in 1..N /\ k <= N - n
    BY <1>1
  <2>2. b[i + 1] = Len(rest[(i + 1) + 1])
    BY <1>8, <2>1
  <2> HIDE DEF i
  <2>3. Len(rest[i + 1]) = frames[i + 1].octets + Len(rest[(i + 1) + 1])
    BY <1>2, <2>1
  <2>4. b[i] = frames[i + 1].octets + b[i + 1]
    BY <1>6, <2>1
  <2>5. b[i] = Len(rest[i + 1])
    BY <2>2, <2>3, <2>4
  <2> QED BY <2>5 DEF i
<1> HIDE DEF S
<1>9. Nat \subseteq S
  BY <1>7, <1>8, CountUp
<1>10. N - n \in Nat /\ N - (N - n) = n /\ N - n <= N - n
  BY <1>1
<1>11. b[n] = Len(rest[n + 1])
  <2>1. N - n \in S
    BY <1>9, <1>10
  <2>2. b[N - (N - n)] = Len(rest[(N - (N - n)) + 1])
    BY <1>10, <2>1 DEF S
  <2> QED BY <1>10, <2>2
<1>12. OctetsBehind(n) = b[n]
  BY DEF OctetsBehind, BehindSteps, b
<1> QED BY <1>11, <1>12

(***************************************************************************)
(* What is written of a frame.                                             *)
(***************************************************************************)
LEMMA PartsOfFrame ==
    ASSUME NEW payload \in Payloads, NEW route \in Routes
    PROVE  LET header == Header(payload, route[1], route[2])
               all == StuffedAll(Whole(payload, route))
           IN  /\ all \in Seq(Byte) /\ header \in Seq(Byte)
               /\ header \o payload \in Seq(Byte)
               /\ Len(StuffedAll(header)) \in Nat
               /\ Len(StuffedAll(header \o payload)) \in Nat
               /\ Len(StuffedAll(Sum(payload))) \in Nat
               /\ Len(StuffedAll(AtPayload(payload))) \in Nat
               /\ Len(all) = Len(StuffedAll(header)) + Len(StuffedAll(AtPayload(payload)))
               /\ Len(all) = Len(StuffedAll(header \o payload)) + Len(StuffedAll(Sum(payload)))
               /\ Frames[payload][route] = FlagSeq \o all
<1> DEFINE header == Header(payload, route[1], route[2])
           sum == Sum(payload)
           behind == AtPayload(payload)
           whole == Whole(payload, route)
           all == StuffedAll(whole)
<1>1. /\ header \in Seq(Byte) /\ payload \in Seq(Byte) /\ sum \in Seq(Byte)
      /\ behind \in Seq(Byte) /\ whole \in Seq(Byte)
      /\ whole = header \o behind /\ whole = (header \o payload) \o sum
  BY PartsOfContent, PayloadTypes DEF AtPayload, Whole
<1>2. Frames[payload][route] = FlagSeq \o all
  BY DEF Frames, Frame, FlagSeq, Whole
<1> HIDE DEF header, sum, behind, whole
<1>3. header \o payload \in Seq(Byte)
  BY <1>1, Joined
<1>4. \A s \in Seq(Byte) : StuffedAll(s) \in Seq(Byte) /\ Len(StuffedAll(s)) \in Nat
  BY StuffedAllOf, LenProperties
<1>5. \A s, t \in Seq(Byte) : Len(StuffedAll(s \o t)) = Len(StuffedAll(s)) + Len(StuffedAll(t))
  <2> TAKE s, t \in Seq(Byte)
  <2>1. StuffedAll(s \o t) = StuffedAll(s) \o StuffedAll(t)
    BY StuffedJoined
  <2>2. StuffedAll(s) \in Seq(Byte) /\ StuffedAll(t) \in Seq(Byte)
    BY <1>4
  <2>3. Len(StuffedAll(s) \o StuffedAll(t)) = Len(StuffedAll(s)) + Len(StuffedAll(t))
    BY <2>2, Joined
  <2> QED BY <2>1, <2>3
<1>6. /\ Len(all) = Len(StuffedAll(header)) + Len(StuffedAll(behind))
      /\ Len(all) = Len(StuffedAll(header \o payload)) + Len(StuffedAll(sum))
  BY <1>1, <1>3, <1>5
<1>7. /\ all \in Seq(Byte) /\ Len(StuffedAll(header)) \in Nat
      /\ Len(StuffedAll(header \o payload)) \in Nat
      /\ Len(StuffedAll(sum)) \in Nat /\ Len(StuffedAll(behind)) \in Nat
  BY <1>1, <1>3, <1>4
<1> QED BY <1>1, <1>2, <1>3, <1>6, <1>7 DEF header, sum, behind, whole

LEMMA WrittenIsSent ==
    ASSUME NEW payload \in Payloads, NEW route \in Routes,
           NEW n \in 1..Len(Frame(payload, route[1], route[2])),
           CutWhere(payload, route, n) # "broken"
    PROVE  \E body \in Seq(Byte) : \E X \in Seq(Byte) :
               /\ Sent([payload |-> payload, octets |-> n, kind |-> CutWhere(payload, route, n)],
                       route, body, X)
               /\ SubSeq(Frames[payload][route], 1, n) = FlagSeq \o body
<1> DEFINE header == Header(payload, route[1], route[2])
           all == StuffedAll(Whole(payload, route))
           F == Frames[payload][route]
           body == SubSeq(all, 1, n - 1)
           X == SubSeq(all, (n - 1) + 1, Len(all))
           before == Len(StuffedAll(header))
           upto == Len(StuffedAll(header \o payload))
           sums == Len(StuffedAll(Sum(payload)))
           pays == Len(StuffedAll(AtPayload(payload)))
<1>1. /\ all \in Seq(Byte) /\ before \in Nat /\ upto \in Nat /\ sums \in Nat /\ pays \in Nat
      /\ Len(all) = before + pays /\ Len(all) = upto + sums /\ F = FlagSeq \o all
      /\ Len(all) \in Nat
  BY PartsOfFrame, LenProperties
<1>2. FlagSeq \in Seq(Byte) /\ Len(FlagSeq) = 1
  BY FlagSeqType
<1>3. F \in Seq(Byte) /\ Len(F) = 1 + Len(all) /\ n \in 1..Len(F)
  <2>1. FlagSeq \o all \in Seq(Byte) /\ Len(FlagSeq \o all) = Len(FlagSeq) + Len(all)
    BY <1>1, <1>2, Joined
  <2>2. F = Frame(payload, route[1], route[2])
    BY DEF Frames
  <2> QED BY <1>1, <1>2, <2>1, <2>2
<1> HIDE DEF all, F
<1>4. /\ body \in Seq(Byte) /\ Len(body) = n - 1 /\ X \in Seq(Byte)
      /\ Len(X) = Len(all) - (n - 1) /\ all = body \o X /\ n - 1 \in Nat
  <2>1. n - 1 \in 0..Len(all)
    BY <1>1, <1>3
  <2>2. /\ body \in Seq(Byte) /\ Len(body) = n - 1 /\ X \in Seq(Byte)
        /\ Len(X) = Len(all) - (n - 1) /\ all = body \o X
    BY <1>1, <2>1, FirstAndRest
  <2>3. n - 1 \in Nat
    BY <1>1, <1>3
  <2> HIDE DEF body, X
  <2> QED BY <2>2, <2>3
<1> DEFINE first == SubSeq(F, 1, n)
           last == SubSeq(F, n + 1, Len(F))
<1>5. first \in Seq(Byte) /\ Len(first) = n /\ last \in Seq(Byte) /\ F = first \o last
  <2>1. n \in 0..Len(F)
    BY <1>3
  <2> QED BY <1>3, <2>1, FirstAndRest
<1> HIDE DEF body, X, first, last
<1>6. first = FlagSeq \o body
  <2>1. FlagSeq \o body \in Seq(Byte) /\ Len(FlagSeq \o body) = 1 + Len(body)
    BY <1>2, <1>4, Joined
  <2>2. (FlagSeq \o body) \o X = FlagSeq \o (body \o X)
    BY <1>2, <1>4, JoinedLeft
  <2>3. first \o last = (FlagSeq \o body) \o X
    <3>1. F = FlagSeq \o (body \o X)
      BY <1>1, <1>4
    <3> QED BY <1>5, <2>2, <3>1
  <2>4. Len(first) = Len(FlagSeq \o body)
    <3>1. Len(first) = n /\ Len(body) = n - 1 /\ n \in Nat
      BY <1>1, <1>3, <1>4, <1>5
    <3> QED BY <2>1, <3>1
  <2> QED BY <1>4, <1>5, <2>1, <2>3, <2>4, SameCut
<1>7. X = <<>> <=> n = Len(F)
  <2>1. X = <<>> <=> Len(X) = 0
    BY <1>4, EmptySeq
  <2> QED BY <1>1, <1>3, <1>4, <2>1
<1>8. \/ n = Len(F)
      \/ n = 1
      \/ n \in 1 + before..upto
  BY DEF CutWhere, CutInPayload, F
<1>9. Missing(payload, route, X)
  <2>1. CASE n = Len(F)
    BY <1>7, <2>1 DEF Missing
  <2>2. CASE n = 1
    <3>1. Len(body) = 0
      BY <1>4, <2>2
    <3>2. body = <<>>
      BY <1>4, <3>1, EmptySeq
    <3>3. all = X
      BY <1>4, <3>2, ConcatEmptySeq
    <3> QED BY <3>3 DEF Missing, all
  <2>3. CASE n \in 1 + before..upto
    <3> HIDE DEF before, upto, sums, pays
    <3>1. sums < Len(X) /\ Len(X) <= pays
      BY <1>1, <1>3, <1>4, <2>3
    <3> QED BY <3>1 DEF Missing, sums, pays
  <2> QED BY <1>8, <2>1, <2>2, <2>3
<1>10. CutWhere(payload, route, n) = "whole" <=> n = Len(F) /\ route = Ours
  BY DEF CutWhere, F
<1> DEFINE frame == [payload |-> payload, octets |-> n, kind |-> CutWhere(payload, route, n)]
<1>11. /\ frame.payload = payload /\ frame.octets = n
       /\ frame.kind = CutWhere(payload, route, n)
  OBVIOUS
<1> HIDE DEF frame
<1>12. Sent(frame, route, body, X)
  <2>1. n = 1 + Len(body)
    BY <1>4
  <2> QED BY <1>4, <1>7, <1>9, <1>10, <1>11, <2>1 DEF Sent, all
<1> QED BY <1>4, <1>6, <1>12 DEF first, frame, F

(***************************************************************************)
(* The reader and the frames.                                              *)
(***************************************************************************)
(* What the reader has still to read of a frame, some of which may be        *)
(* missing, and what it knows of it.                                         *)
Todo(payload, route, todo) ==
    /\ state = "src_addr" => todo = Whole(payload, route)
    /\ state = "dst_addr" => todo = AtDst(payload, route)
    /\ state = "len_lsb" => todo = AtLsb(payload)
    /\ state = "len_msb" => todo = AtMsb(payload) /\ msg_len = Length(payload)[1]
    /\ state = "payload" => \E after \in Seq(Byte) :
          payload = buf \o after /\ todo = after \o Sum(payload) /\ cmp_crc = Crc(buf)
    /\ state = "crc_lsb" => todo = Sum(payload)
    /\ state = "crc_msb" => todo = <<Sum(payload)[2]>> /\ msg_crc = Sum(payload)[1]
    /\ state # "src_addr" => src_addr = route[1]
    /\ state \notin {"src_addr", "dst_addr"} => route[2] = local_addr
    /\ state \in {"payload", "crc_lsb", "crc_msb"} => msg_len = Len(payload)
    /\ state \in {"crc_lsb", "crc_msb"} => buf = payload /\ cmp_crc = Crc(payload)

InFrame(frame, route, X, todo, left) ==
    /\ left \o X = StuffedAll(todo)
    /\ Missing(frame.payload, route, X)
    /\ frame.kind = "whole" <=> X = <<>> /\ route = Ours
    /\ Todo(frame.payload, route, todo)

Reads(frame, left) ==
    \E route \in Routes : \E X \in Seq(Byte) : \E todo \in Seq(Byte) :
        InFrame(frame, route, X, todo, left)

Wanted(frame) == frame.kind = "whole" /\ frame.payload # <<>>

(* The reader is in frame c, or behind it, and left is left of it. The       *)
(* frames before it, and it if the reader has left it, are not to be read.   *)
Place(rest, c, left) ==
    /\ LaidFrames(rest, frames)
    /\ c \in 0..Len(frames) /\ left \in Seq(Byte)
    /\ rb \o wire = left \o rest[c + 1]
    /\ \A i \in 1..c - 1 : ~Wanted(frames[i])
    /\ state = "uninitialized" => NoFlagIn(left) /\ (c >= 1 => ~Wanted(frames[c]))
    /\ state # "uninitialized" => c >= 1 /\ Reads(frames[c], left)

LineHolds == \E rest, c, left : Place(rest, c, left)

(* Octets that only go from the line into the ring change nothing.           *)
LEMMA Unmoved ==
    ASSUME LineHolds, rb' \o wire' = rb \o wire, UNCHANGED <<state, message, frames>>
    PROVE  LineHolds'
<1>1. PICK rest, c, left : Place(rest, c, left)
  BY DEF LineHolds
<1>2. /\ src_addr' = src_addr /\ msg_len' = msg_len /\ buf' = buf /\ msg_crc' = msg_crc
      /\ cmp_crc' = cmp_crc /\ state' = state /\ frames' = frames
  BY DEF message
<1>3. Reads(frames[c], left) => Reads(frames[c], left)'
  <2>1. \A payload, route, todo : Todo(payload, route, todo) => Todo(payload, route, todo)'
    <3> TAKE payload, route, todo
    <3> HAVE Todo(payload, route, todo)
    <3>1. ASSUME state = "payload"
          PROVE  \E after \in Seq(Byte) : payload = buf' \o after /\ todo = after \o Sum(payload)
                                         /\ cmp_crc' = Crc(buf')
      BY <1>2, <3>1 DEF Todo
    <3> QED BY <1>2, <3>1 DEF Todo
  <2> QED BY <1>2, <2>1 DEF Reads, InFrame
<1>4. Place(rest, c, left)'
  BY <1>1, <1>2, <1>3 DEF Place
<1> QED BY <1>4 DEF LineHolds

(* The frame behind the ones that are read or skipped begins.                *)
LEMMA FrameBegins ==
    ASSUME FramingHolds, NEW rest, LaidFrames(rest, frames), NEW c \in 0..Len(frames) - 1,
           \A i \in 1..c : ~Wanted(frames[i]), NEW after \in Seq(Byte),
           rest[c + 1] = FlagSeq \o after,
           rb' \o wire' = after, state' = "src_addr", UNCHANGED <<message, frames>>
    PROVE  LineHolds'
<1>1. frames \in Seq(Entries) /\ Len(frames) \in Nat /\ c + 1 \in 1..Len(frames) /\ c \in Nat
  BY LenProperties DEF FramingHolds
<1>2. /\ rest[(c + 1) + 1] \in Seq(Byte)
      /\ Begins(frames[c + 1], rest[c + 1], rest[(c + 1) + 1])
  BY <1>1, LaidTypes DEF LaidFrames
<1>3. PICK route \in Routes : \E body \in Seq(Byte) : \E X \in Seq(Byte) :
          /\ Sent(frames[c + 1], route, body, X)
          /\ rest[c + 1] = FlagSeq \o (body \o rest[(c + 1) + 1])
  BY <1>2 DEF Begins
<1>4. PICK body \in Seq(Byte) : \E X \in Seq(Byte) :
          /\ Sent(frames[c + 1], route, body, X)
          /\ rest[c + 1] = FlagSeq \o (body \o rest[(c + 1) + 1])
  BY <1>3
<1>5. PICK X \in Seq(Byte) :
          /\ Sent(frames[c + 1], route, body, X)
          /\ rest[c + 1] = FlagSeq \o (body \o rest[(c + 1) + 1])
  BY <1>4
<1>6. after = body \o rest[(c + 1) + 1]
  <2> DEFINE next == body \o rest[(c + 1) + 1]
  <2>1. next \in Seq(Byte) /\ FlagSeq \in Seq(Byte)
    BY <1>2, Joined, FlagSeqType
  <2>2. FlagSeq \o after = FlagSeq \o next /\ Len(FlagSeq) = Len(FlagSeq)
    BY <1>5
  <2> HIDE DEF next
  <2>3. after = next
    BY <2>1, <2>2, SameCut
  <2> QED BY <2>3 DEF next
<1> DEFINE todo == Whole(frames[c + 1].payload, route)
<1>7. frames[c + 1] \in Entries /\ frames[c + 1].payload \in Payloads
  <2>1. frames[c + 1] \in Entries
    BY <1>1, ElementOfSeq
  <2> QED BY <2>1 DEF Entries
<1>8. todo \in Seq(Byte)
  BY <1>7, PlacesInFrame
<1>9. Todo(frames[c + 1].payload, route, todo)'
  BY DEF Todo, message
<1>10. Reads(frames[c + 1], body)'
  <2>1. InFrame(frames[c + 1], route, X, todo, body)'
    BY <1>5, <1>9 DEF InFrame, Sent
  <2> QED BY <1>8, <2>1 DEF Reads
<1>11. Place(rest, c + 1, body)'
  <2>1. c + 1 \in 0..Len(frames) /\ c + 1 >= 1 /\ (c + 1) - 1 = c
    BY <1>1
  <2>2. rb' \o wire' = body \o rest[(c + 1) + 1]
    BY <1>6
  <2> QED BY <1>10, <2>1, <2>2 DEF Place
<1> QED BY <1>11 DEF LineHolds

(***************************************************************************)
(* The octet that comes next in a frame.                                   *)
(***************************************************************************)
(* How long octets are, stuffed.                                            *)
StuffedLength(s) == Len(StuffedAll(s))

(* left is what there is of <<x>> \o t, X is missing.                         *)
RemainsOf(left, X, x, t) == left \o X = StuffedAll(<<x>> \o t)

(* The octet x or, when it is missing, the flag behind frame c.              *)
NextIs(rest, c, X, x, t) ==
    /\ HasOctet =>
          /\ Octet = x
          /\ \E more \in Seq(Byte) : /\ more \o X = StuffedAll(t)
                                     /\ BehindWidth = more \o rest[c + 1]
    /\ HasFlag =>
          /\ Len(X) > StuffedLength(t) /\ c + 1 \in 1..Len(frames)
          /\ BehindWidth \in Seq(Byte) /\ rest[c + 1] = FlagSeq \o BehindWidth

LEMMA NextOctet ==
    ASSUME FramingHolds, NEW rest, LaidFrames(rest, frames), NEW c \in 1..Len(frames),
           NEW left \in Seq(Byte), rb \o wire = left \o rest[c + 1],
           NEW X \in Seq(Byte), NEW x \in Byte, NEW t \in Seq(Byte),
           RemainsOf(left, X, x, t)
    PROVE  NextIs(rest, c, X, x, t)
<1>1. /\ frames \in Seq(Entries) /\ Len(frames) \in Nat /\ RingHolds
      /\ rest[c + 1] \in Seq(Byte)
  <2>1. frames \in Seq(Entries) /\ RingHolds
    BY DEF FramingHolds
  <2>2. Len(frames) \in Nat
    BY <2>1, LenProperties
  <2>3. rest[c + 1] \in Seq(Byte)
    BY <2>1, LaidTypes
  <2> QED BY <2>1, <2>2, <2>3
<1> DEFINE next == rest[c + 1]
<1>2. CASE \E more \in Seq(Byte) : left = Stuffed(x) \o more /\ more \o X = StuffedAll(t)
  <2>1. PICK more \in Seq(Byte) : left = Stuffed(x) \o more /\ more \o X = StuffedAll(t)
    BY <1>2
  <2>2. Stuffed(x) \in Seq(Byte) /\ more \o next \in Seq(Byte)
    BY <1>1, StuffedIs, Joined
  <2>3. rb \o wire = Stuffed(x) \o (more \o next)
    <3>1. next \in Seq(Byte) /\ Stuffed(x) \in Seq(Byte)
      BY <1>1, <2>2
    <3> HIDE DEF next
    <3>2. (Stuffed(x) \o more) \o next = Stuffed(x) \o (more \o next)
      BY <3>1, JoinedLeft, SMTT(30)
    <3> QED BY <2>1, <3>2 DEF next
  <2>4. ~HasFlag /\ (HasOctet => Octet = x /\ BehindWidth = more \o next)
    BY <1>1, <2>2, <2>3, OctetThere
  <2> QED BY <2>1, <2>4 DEF NextIs
<1>3. CASE /\ Len(left) <= 1 /\ \A i \in 1..Len(left) : left[i] = UXR_FRAMING_ESC_FLAG
           /\ Len(X) > Len(StuffedAll(t))
  <2>1. CASE c = Len(frames)
    <3>1. next = <<>> /\ left \o <<>> = left
      BY <2>1, ConcatEmptySeq DEF LaidFrames
    <3>2. rb \o wire = left
      BY <3>1
    <3>3. ~HasOctet /\ ~HasFlag
      BY <1>1, <1>3, <3>2, NothingThere
    <3> QED BY <3>3 DEF NextIs
  <2>2. CASE c + 1 \in 1..Len(frames)
    <3>1. /\ rest[(c + 1) + 1] \in Seq(Byte)
          /\ Begins(frames[c + 1], rest[c + 1], rest[(c + 1) + 1])
      BY <1>1, <2>2, LaidTypes DEF LaidFrames
    <3>2. PICK body \in Seq(Byte) : next = FlagSeq \o (body \o rest[(c + 1) + 1])
      BY <3>1 DEF Begins
    <3> DEFINE after == body \o rest[(c + 1) + 1]
    <3>3. after \in Seq(Byte) /\ next = FlagSeq \o after
      BY <3>1, <3>2, Joined
    <3> HIDE DEF after
    <3>4. rb \o wire = left \o (FlagSeq \o after)
      BY <3>3
    <3>5. ~HasOctet /\ (HasFlag => BehindWidth = after)
      BY <1>1, <1>3, <3>3, <3>4, FlagThere
    <3> QED BY <1>3, <2>2, <3>3, <3>5 DEF NextIs, StuffedLength
  <2>3. c = Len(frames) \/ c + 1 \in 1..Len(frames)
    BY <1>1
  <2> QED BY <2>1, <2>2, <2>3
<1>4. left \o X = StuffedAll(<<x>> \o t)
  BY DEF RemainsOf
<1> QED BY <1>2, <1>3, <1>4, ThereOrMissing

LEMMA PairOf ==
    ASSUME NEW n \in Checksums
    PROVE  /\ TwoOf(n)[1] \in Byte /\ TwoOf(n)[2] \in Byte
           /\ TwoOf(n)[1] = n % 256 /\ TwoOf(n)[2] = n \div 256
           /\ TwoOf(n) = <<TwoOf(n)[1]>> \o <<TwoOf(n)[2]>>
           /\ n = TwoOf(n)[1] + 256 * TwoOf(n)[2]
<1> DEFINE p == n % 256
           q == n \div 256
<1>1. TwoOf(n) = <<p, q>> /\ TwoOf(n) = <<p>> \o <<q>> /\ p \in Byte /\ q \in Byte /\ n = p + 256 * q
  BY TwoOfType DEF TwoOf
<1> HIDE DEF p, q
<1>2. TwoOf(n)[1] = p /\ TwoOf(n)[2] = q
  BY <1>1
<1> QED BY <1>1, <1>2 DEF p, q

LEMMA PairsInFrame ==
    ASSUME NEW payload \in Payloads, NEW route \in Routes
    PROVE  /\ Sum(payload)[1] \in Byte /\ Sum(payload)[2] \in Byte
           /\ Sum(payload) = <<Sum(payload)[1]>> \o <<Sum(payload)[2]>>
           /\ <<Sum(payload)[2]>> = <<Sum(payload)[2]>> \o <<>>
           /\ Crc(payload) = Sum(payload)[1] + 256 * Sum(payload)[2]
           /\ Length(payload)[1] \in Byte /\ Length(payload)[2] \in Byte
           /\ AtMsb(payload) = <<Length(payload)[2]>> \o AtPayload(payload)
           /\ AtLsb(payload) = <<Length(payload)[1]>> \o AtMsb(payload)
           /\ Len(payload) = Length(payload)[1] + 256 * Length(payload)[2]
<1>1. Crc(payload) \in Checksums /\ Len(payload) \in Checksums
  BY PartsOfContent
<1>2. /\ Sum(payload)[1] \in Byte /\ Sum(payload)[2] \in Byte
      /\ Sum(payload) = <<Sum(payload)[1]>> \o <<Sum(payload)[2]>>
      /\ Crc(payload) = Sum(payload)[1] + 256 * Sum(payload)[2]
  BY <1>1, PairOf DEF Sum
<1>3. /\ Length(payload)[1] \in Byte /\ Length(payload)[2] \in Byte
      /\ Length(payload)[1] = Len(payload) % 256 /\ Length(payload)[2] = Len(payload) \div 256
      /\ Len(payload) = Length(payload)[1] + 256 * Length(payload)[2]
  BY <1>1, PairOf DEF Length
<1>4. <<Sum(payload)[2]>> = <<Sum(payload)[2]>> \o <<>>
  <2>1. <<Sum(payload)[2]>> \in Seq(Byte)
    BY <1>2
  <2> QED BY <2>1, ConcatEmptySeq
<1> QED BY <1>2, <1>3, <1>4 DEF AtMsb, AtLsb

(* How long the rest of a frame is from each place on, stuffed.              *)
LEMMA LengthsInFrame ==
    ASSUME NEW payload \in Payloads, NEW route \in Routes
    PROVE  /\ StuffedLength(Whole(payload, route)) \in Nat
           /\ StuffedLength(AtDst(payload, route)) \in Nat
           /\ StuffedLength(AtLsb(payload)) \in Nat
           /\ StuffedLength(AtMsb(payload)) \in Nat
           /\ StuffedLength(AtPayload(payload)) \in Nat
           /\ StuffedLength(Sum(payload)) \in Nat
           /\ StuffedLength(<<Sum(payload)[2]>>) \in Nat
           /\ StuffedLength(Whole(payload, route)) > StuffedLength(AtDst(payload, route))
           /\ StuffedLength(AtDst(payload, route)) > StuffedLength(AtLsb(payload))
           /\ StuffedLength(AtLsb(payload)) > StuffedLength(AtMsb(payload))
           /\ StuffedLength(AtMsb(payload)) > StuffedLength(AtPayload(payload))
           /\ StuffedLength(AtPayload(payload)) >= StuffedLength(Sum(payload))
           /\ StuffedLength(Sum(payload)) > StuffedLength(<<Sum(payload)[2]>>)
           /\ StuffedLength(<<>>) = 0
<1>1. \A s \in Seq(Byte) : StuffedLength(s) \in Nat
  BY StuffedAllOf, LenProperties DEF StuffedLength
<1>2. \A x \in Byte : \A t \in Seq(Byte) : StuffedLength(<<x>> \o t) > StuffedLength(t)
  BY StuffedLonger DEF StuffedLength
<1>3. /\ AtPayload(payload) \in Seq(Byte) /\ AtMsb(payload) \in Seq(Byte)
      /\ AtLsb(payload) \in Seq(Byte) /\ AtDst(payload, route) \in Seq(Byte)
      /\ Whole(payload, route) \in Seq(Byte)
      /\ Whole(payload, route) = <<route[1]>> \o AtDst(payload, route)
      /\ AtDst(payload, route) = <<route[2]>> \o AtLsb(payload)
      /\ route[1] \in Byte /\ route[2] \in Byte
  BY PlacesInFrame, RouteTypes DEF AtDst
<1>4. /\ Sum(payload)[1] \in Byte /\ Sum(payload)[2] \in Byte
      /\ Sum(payload) = <<Sum(payload)[1]>> \o <<Sum(payload)[2]>>
      /\ Length(payload)[1] \in Byte /\ Length(payload)[2] \in Byte
      /\ AtMsb(payload) = <<Length(payload)[2]>> \o AtPayload(payload)
      /\ AtLsb(payload) = <<Length(payload)[1]>> \o AtMsb(payload)
  BY PairsInFrame
<1>5. <<Sum(payload)[2]>> \in Seq(Byte) /\ Sum(payload) \in Seq(Byte) /\ payload \in Seq(Byte)
  <2>1. <<Sum(payload)[2]>> \in Seq(Byte)
    BY <1>4
  <2> QED BY <2>1, PartsOfContent, PayloadTypes
<1>6. StuffedLength(AtPayload(payload)) >= StuffedLength(Sum(payload))
  <2>1. StuffedAll(payload \o Sum(payload)) = StuffedAll(payload) \o StuffedAll(Sum(payload))
    BY <1>5, StuffedJoined
  <2>2. StuffedAll(payload) \in Seq(Byte) /\ StuffedAll(Sum(payload)) \in Seq(Byte)
    BY <1>5, StuffedAllOf
  <2>3. Len(StuffedAll(payload) \o StuffedAll(Sum(payload)))
           = StuffedLength(payload) + StuffedLength(Sum(payload))
    BY <2>2, Joined DEF StuffedLength
  <2>4. StuffedLength(AtPayload(payload)) = StuffedLength(payload) + StuffedLength(Sum(payload))
    BY <2>1, <2>3 DEF StuffedLength, AtPayload
  <2>5. StuffedLength(payload) \in Nat /\ StuffedLength(Sum(payload)) \in Nat
    BY <1>1, <1>5
  <2> QED BY <2>4, <2>5
<1>7. StuffedLength(<<>>) = 0
  BY StuffedAllOf, EmptySeq DEF StuffedLength
<1>8. StuffedLength(Sum(payload)) > StuffedLength(<<Sum(payload)[2]>>)
  BY <1>2, <1>4, <1>5
<1>9. /\ StuffedLength(Whole(payload, route)) > StuffedLength(AtDst(payload, route))
      /\ StuffedLength(AtDst(payload, route)) > StuffedLength(AtLsb(payload))
  BY <1>2, <1>3
<1>10. /\ StuffedLength(AtLsb(payload)) > StuffedLength(AtMsb(payload))
       /\ StuffedLength(AtMsb(payload)) > StuffedLength(AtPayload(payload))
  BY <1>2, <1>3, <1>4
<1> QED BY <1>1, <1>3, <1>5, <1>6, <1>7, <1>8, <1>9, <1>10

(* Nothing can be missing from the middle of the header or of the checksum.  *)
LEMMA MissingWhere ==
    ASSUME NEW payload \in Payloads, NEW route \in Routes, NEW X \in Seq(Byte),
           Missing(payload, route, X), NEW todo, NEW t,
           \/ todo = AtDst(payload, route) /\ t = AtLsb(payload)
           \/ todo = AtLsb(payload) /\ t = AtMsb(payload)
           \/ todo = AtMsb(payload) /\ t = AtPayload(payload)
           \/ todo = Sum(payload) /\ t = <<Sum(payload)[2]>>
           \/ todo = <<Sum(payload)[2]>> /\ t = <<>>,
           Len(X) <= StuffedLength(todo)
    PROVE  ~(Len(X) > StuffedLength(t))
<1> DEFINE L(s) == StuffedLength(s)
           w == L(Whole(payload, route))
           d == L(AtDst(payload, route))
           l == L(AtLsb(payload))
           m == L(AtMsb(payload))
           p == L(AtPayload(payload))
           s == L(Sum(payload))
           e == L(<<Sum(payload)[2]>>)
           x == Len(X)
<1>1. /\ w \in Nat /\ d \in Nat /\ l \in Nat /\ m \in Nat /\ p \in Nat /\ s \in Nat /\ e \in Nat
      /\ w > d /\ d > l /\ l > m /\ m > p /\ p >= s /\ s > e /\ L(<<>>) = 0 /\ x \in Nat
  BY LengthsInFrame, LenProperties
<1>2. x = 0 \/ x = w \/ (s < x /\ x <= p)
  BY EmptySeq DEF Missing, StuffedLength
<1>3. \/ L(todo) = d /\ L(t) = l
      \/ L(todo) = l /\ L(t) = m
      \/ L(todo) = m /\ L(t) = p
      \/ L(todo) = s /\ L(t) = e
      \/ L(todo) = e /\ L(t) = 0
  BY <1>1
<1> HIDE DEF w, d, l, m, p, s, e, x
<1>4. x <= L(todo)
  BY DEF x
<1>5. ~(x > L(t))
  BY <1>1, <1>2, <1>3, <1>4
<1> QED BY <1>5 DEF x

(* What the octet x that comes next is, and what comes behind it.            *)
Comes(payload, route, x, t) ==
    /\ state = "src_addr" => x = route[1] /\ t = AtDst(payload, route)
    /\ state = "dst_addr" => x = route[2] /\ t = AtLsb(payload)
    /\ state = "len_lsb" => x = Length(payload)[1] /\ t = AtMsb(payload)
    /\ state = "len_msb" => x = Length(payload)[2] /\ t = AtPayload(payload)
    /\ state = "payload" => \E after \in Seq(Byte) :
          payload = Append(buf, x) \o after /\ t = after \o Sum(payload)
    /\ state = "crc_lsb" => x = Sum(payload)[1] /\ t = <<Sum(payload)[2]>>
    /\ state = "crc_msb" => x = Sum(payload)[2] /\ t = <<>>

LEMMA FirstOf ==
    ASSUME NEW s \in Seq(Byte), s # <<>>
    PROVE  \E x \in Byte : \E t \in Seq(Byte) : s = <<x>> \o t
<1>1. Len(s) \in Nat /\ 1 \in 0..Len(s)
  BY EmptySeq, LenProperties
<1> DEFINE first == SubSeq(s, 1, 1)
           rest == SubSeq(s, 1 + 1, Len(s))
<1>2. first \in Seq(Byte) /\ Len(first) = 1 /\ rest \in Seq(Byte) /\ s = first \o rest
  BY <1>1, FirstAndRest
<1> HIDE DEF first, rest
<1>3. first[1] \in Byte
  <2>1. 1 \in 1..Len(first)
    BY <1>2
  <2> QED BY <1>2, <2>1, ElementOfSeq
<1>4. first = <<first[1]>>
  <2>1. <<first[1]>> \in Seq(Byte) /\ Len(<<first[1]>>) = 1
    BY <1>3
  <2>2. \A i \in 1..1 : first[i] = <<first[1]>>[i]
    OBVIOUS
  <2> QED BY <1>2, <2>1, <2>2, SeqEqual
<1> QED BY <1>2, <1>3, <1>4

LEMMA TodoBegins ==
    ASSUME FramingHolds, NEW payload \in Payloads, NEW route \in Routes,
           NEW todo \in Seq(Byte), Todo(payload, route, todo), state # "uninitialized",
           state = "payload" => Len(buf) < msg_len
    PROVE  \E x \in Byte : \E t \in Seq(Byte) :
               todo = <<x>> \o t /\ Comes(payload, route, x, t)
<1>1. /\ AtPayload(payload) \in Seq(Byte) /\ AtMsb(payload) \in Seq(Byte)
      /\ AtLsb(payload) \in Seq(Byte) /\ AtDst(payload, route) \in Seq(Byte)
      /\ Whole(payload, route) = <<route[1]>> \o AtDst(payload, route)
      /\ AtDst(payload, route) = <<route[2]>> \o AtLsb(payload)
      /\ route[1] \in Byte /\ route[2] \in Byte
  BY PlacesInFrame, RouteTypes DEF AtDst
<1>2. /\ Sum(payload)[1] \in Byte /\ Sum(payload)[2] \in Byte
      /\ Sum(payload) = <<Sum(payload)[1]>> \o <<Sum(payload)[2]>>
      /\ <<Sum(payload)[2]>> = <<Sum(payload)[2]>> \o <<>>
      /\ Length(payload)[1] \in Byte /\ Length(payload)[2] \in Byte
      /\ AtMsb(payload) = <<Length(payload)[2]>> \o AtPayload(payload)
      /\ AtLsb(payload) = <<Length(payload)[1]>> \o AtMsb(payload)
  BY PairsInFrame
<1>3. state \in States /\ buf \in Seq(Byte) /\ Len(buf) \in Nat
  BY LenProperties DEF FramingHolds
<1>4. <<>> \in Seq(Byte) /\ <<Sum(payload)[2]>> \in Seq(Byte)
  BY <1>2, EmptySeq
<1>5. CASE state = "src_addr"
  <2>1. todo = <<route[1]>> \o AtDst(payload, route)
    BY <1>1, <1>5 DEF Todo
  <2>2. Comes(payload, route, route[1], AtDst(payload, route))
    BY <1>5 DEF Comes
  <2> QED BY <1>1, <2>1, <2>2
<1>6. CASE state = "dst_addr"
  <2>1. todo = <<route[2]>> \o AtLsb(payload)
    BY <1>1, <1>6 DEF Todo
  <2>2. Comes(payload, route, route[2], AtLsb(payload))
    BY <1>6 DEF Comes
  <2> QED BY <1>1, <2>1, <2>2
<1>7. CASE state = "len_lsb"
  <2>1. todo = <<Length(payload)[1]>> \o AtMsb(payload)
    BY <1>2, <1>7 DEF Todo
  <2>2. Comes(payload, route, Length(payload)[1], AtMsb(payload))
    BY <1>7 DEF Comes
  <2> QED BY <1>1, <1>2, <2>1, <2>2
<1>8. CASE state = "len_msb"
  <2>1. todo = <<Length(payload)[2]>> \o AtPayload(payload)
    BY <1>2, <1>8 DEF Todo
  <2>2. Comes(payload, route, Length(payload)[2], AtPayload(payload))
    BY <1>8 DEF Comes
  <2> QED BY <1>1, <1>2, <2>1, <2>2
<1>9. CASE state = "payload"
  <2>1. PICK after \in Seq(Byte) : payload = buf \o after /\ todo = after \o Sum(payload)
    BY <1>9 DEF Todo
  <2>2. Len(buf) < Len(payload) /\ Len(payload) = Len(buf) + Len(after)
    <3>1. msg_len = Len(payload)
      BY <1>9 DEF Todo
    <3>2. Len(buf \o after) = Len(buf) + Len(after)
      BY <1>3, Joined
    <3> QED BY <1>9, <2>1, <3>1, <3>2
  <2>3. after # <<>>
    <3>1. Len(after) \in Nat /\ (after = <<>> => Len(after) = 0)
      BY EmptySeq, LenProperties
    <3> QED BY <1>3, <2>2, <3>1
  <2>4. PICK x \in Byte, further \in Seq(Byte) : after = <<x>> \o further
    BY <2>3, FirstOf
  <2>5. <<x>> \in Seq(Byte) /\ Sum(payload) \in Seq(Byte) /\ further \o Sum(payload) \in Seq(Byte)
    <3>1. <<x>> \in Seq(Byte)
      OBVIOUS
    <3>2. Sum(payload) \in Seq(Byte)
      BY PartsOfContent
    <3> QED BY <3>1, <3>2, Joined
  <2>6. todo = <<x>> \o (further \o Sum(payload))
    <3>1. (<<x>> \o further) \o Sum(payload) = <<x>> \o (further \o Sum(payload))
      BY <2>5, JoinedLeft
    <3> QED BY <2>1, <2>4, <3>1
  <2>7. payload = Append(buf, x) \o further
    <3>1. (buf \o <<x>>) \o further = buf \o (<<x>> \o further)
      BY <1>3, <2>5, JoinedLeft
    <3>2. Append(buf, x) = buf \o <<x>>
      BY <1>3, AppendIsConcat
    <3> QED BY <2>1, <2>4, <3>1, <3>2
  <2>8. Comes(payload, route, x, further \o Sum(payload))
    BY <1>9, <2>7 DEF Comes
  <2> QED BY <2>5, <2>6, <2>8
<1>10. CASE state = "crc_lsb"
  <2>1. todo = <<Sum(payload)[1]>> \o <<Sum(payload)[2]>>
    BY <1>2, <1>10 DEF Todo
  <2>2. Comes(payload, route, Sum(payload)[1], <<Sum(payload)[2]>>)
    BY <1>10 DEF Comes
  <2> QED BY <1>2, <1>4, <2>1, <2>2
<1>11. CASE state = "crc_msb"
  <2>1. todo = <<Sum(payload)[2]>> \o <<>>
    BY <1>2, <1>11 DEF Todo
  <2>2. Comes(payload, route, Sum(payload)[2], <<>>)
    BY <1>11 DEF Comes
  <2> QED BY <1>2, <1>4, <2>1, <2>2
<1> QED BY <1>3, <1>5, <1>6, <1>7, <1>8, <1>9, <1>10, <1>11 DEF States

(* The octet that is taken is the next one of a frame, and this is what is   *)
(* behind it.                                                                *)
Taken(rest, c, route, X, t, more) ==
    /\ LaidFrames(rest, frames) /\ \A i \in 1..c - 1 : ~Wanted(frames[i])
    /\ Missing(frames[c].payload, route, X)
    /\ frames[c].kind = "whole" <=> X = <<>> /\ route = Ours
    /\ more \o X = StuffedAll(t)
    /\ BehindWidth = more \o rest[c + 1]
    /\ Todo(frames[c].payload, route, <<Octet>> \o t)
    /\ Comes(frames[c].payload, route, Octet, t)

OctetIsNext ==
    \E c \in 1..Len(frames) : \E route \in Routes : \E X, t, more \in Seq(Byte) :
        \E rest : Taken(rest, c, route, X, t, more)

(* The flag that is taken begins a frame; the one before it is cut in its    *)
(* payload, or there is only its flag.                                       *)
FlagIsNext ==
    /\ state \in {"src_addr", "payload"}
    /\ BehindWidth \in Seq(Byte)
    /\ \E c \in 0..Len(frames) - 1 : \E rest :
          /\ LaidFrames(rest, frames) /\ \A i \in 1..c : ~Wanted(frames[i])
          /\ rest[c + 1] = FlagSeq \o BehindWidth

LEMMA WhatIsNext ==
    ASSUME FramingHolds, LineHolds, state # "uninitialized",
           state = "payload" => Len(buf) < msg_len
    PROVE  (HasOctet => OctetIsNext) /\ (HasFlag => FlagIsNext)
<1>1. PICK rest, c, left : Place(rest, c, left)
  BY DEF LineHolds
<1>2. /\ frames \in Seq(Entries) /\ Len(frames) \in Nat /\ c \in 1..Len(frames)
      /\ left \in Seq(Byte) /\ LaidFrames(rest, frames) /\ rb \o wire = left \o rest[c + 1]
      /\ \A i \in 1..c - 1 : ~Wanted(frames[i])
  <2>1. frames \in Seq(Entries)
    BY DEF FramingHolds
  <2>2. Len(frames) \in Nat
    BY <2>1, LenProperties
  <2>3. c \in 0..Len(frames) /\ c >= 1
    BY <1>1 DEF Place
  <2> QED BY <1>1, <2>1, <2>2, <2>3 DEF Place
<1>3. frames[c].payload \in Payloads
  <2>1. frames[c] \in Entries
    BY <1>2, ElementOfSeq
  <2> QED BY <2>1 DEF Entries
<1>4. PICK route \in Routes : \E X \in Seq(Byte) : \E todo \in Seq(Byte) :
          InFrame(frames[c], route, X, todo, left)
  BY <1>1 DEF Place, Reads
<1>5. PICK X \in Seq(Byte) : \E todo \in Seq(Byte) : InFrame(frames[c], route, X, todo, left)
  BY <1>4
<1>6. PICK todo \in Seq(Byte) : InFrame(frames[c], route, X, todo, left)
  BY <1>5
<1> DEFINE payload == frames[c].payload
<1>7. /\ left \o X = StuffedAll(todo) /\ Missing(payload, route, X)
      /\ frames[c].kind = "whole" <=> X = <<>> /\ route = Ours
      /\ Todo(payload, route, todo)
  BY <1>6 DEF InFrame
<1>8. PICK x \in Byte : \E t \in Seq(Byte) : todo = <<x>> \o t /\ Comes(payload, route, x, t)
  BY <1>3, <1>7, TodoBegins
<1>9. PICK t \in Seq(Byte) : todo = <<x>> \o t /\ Comes(payload, route, x, t)
  BY <1>8
<1>10. left \o X = StuffedAll(<<x>> \o t)
  BY <1>7, <1>9
<1>11. NextIs(rest, c, X, x, t)
  <2>1. LaidFrames(rest, frames) /\ rb \o wire = left \o rest[c + 1]
    BY <1>2
  <2>2. c \in 1..Len(frames) /\ left \in Seq(Byte)
    BY <1>2
  <2> HIDE DEF payload
  <2> QED BY <1>10, <2>1, <2>2, NextOctet DEF RemainsOf
<1>12. ASSUME HasOctet PROVE OctetIsNext
  <2>1. PICK more \in Seq(Byte) : /\ more \o X = StuffedAll(t)
                                  /\ BehindWidth = more \o rest[c + 1]
    BY <1>11, <1>12 DEF NextIs
  <2>2. Octet = x
    BY <1>11, <1>12 DEF NextIs
  <2>3. Taken(rest, c, route, X, t, more)
    BY <1>2, <1>7, <1>9, <2>1, <2>2 DEF Taken
  <2> QED BY <1>2, <2>3 DEF OctetIsNext
<1>13. ASSUME HasFlag PROVE FlagIsNext
  <2>1. /\ Len(X) > StuffedLength(t) /\ c + 1 \in 1..Len(frames)
        /\ BehindWidth \in Seq(Byte) /\ rest[c + 1] = FlagSeq \o BehindWidth
    BY <1>11, <1>13 DEF NextIs
  <2>2. StuffedLength(t) \in Nat /\ Len(X) \in Nat /\ Len(left) \in Nat
    BY StuffedAllOf, LenProperties DEF StuffedLength
  <2>3. ~Wanted(frames[c])
    <3>1. X # <<>>
      <4>1. X = <<>> => Len(X) = 0
        BY EmptySeq
      <4> QED BY <2>1, <2>2, <4>1
    <3> QED BY <1>7, <3>1 DEF Wanted
  <2>4. Len(X) <= StuffedLength(todo)
    <3>1. Len(left \o X) = Len(left) + Len(X)
      BY Joined
    <3>2. StuffedLength(todo) = Len(left) + Len(X)
      BY <1>7, <3>1 DEF StuffedLength
    <3> QED BY <2>2, <3>2
  <2>5. state \in {"src_addr", "payload"}
    <3>1. \/ state \in {"src_addr", "payload"}
          \/ todo = AtDst(payload, route) /\ t = AtLsb(payload)
          \/ todo = AtLsb(payload) /\ t = AtMsb(payload)
          \/ todo = AtMsb(payload) /\ t = AtPayload(payload)
          \/ todo = Sum(payload) /\ t = <<Sum(payload)[2]>>
          \/ todo = <<Sum(payload)[2]>> /\ t = <<>>
      <4>1. state \in States \ {"uninitialized"}
        BY DEF FramingHolds
      <4> QED BY <1>7, <1>9, <4>1 DEF Todo, Comes, States
    <3> HIDE DEF payload
    <3>2. payload \in Payloads
      BY <1>3 DEF payload
    <3> QED BY <1>7, <2>1, <2>4, <3>1, <3>2, MissingWhere
  <2>6. \A i \in 1..c : ~Wanted(frames[i])
    <3> TAKE i \in 1..c
    <3>1. i \in 1..c - 1 \/ i = c
      BY <1>2
    <3> QED BY <1>2, <2>3, <3>1
  <2>7. c \in 0..Len(frames) - 1
    BY <1>2, <2>1
  <2> QED BY <1>2, <2>1, <2>5, <2>6, <2>7 DEF FlagIsNext
<1> QED BY <1>12, <1>13

(***************************************************************************)
(* What each turn of the reader leaves on the line.                        *)
(***************************************************************************)
LEMMA WidthGone ==
    ASSUME FramingHolds, HasOctet \/ HasFlag, NEW max \in Nat,
           Take(Width) \/ ReadNoMore(Width) \/ ReadMore(Width, max)
    PROVE  rb' \o wire' = BehindWidth
<1>1. RingHolds
  BY DEF FramingHolds
<1>2. Width \in 0..Len(rb)
  BY <1>1, WidthIs
<1> QED BY <1>1, <1>2, RingMoves DEF BehindWidth

LEMMA NothingGone ==
    ASSUME FramingHolds, NEW max \in Nat, ReadNoMore(0) \/ ReadMore(0, max)
    PROVE  rb' \o wire' = rb \o wire
<1>1. RingHolds /\ rb \in Seq(Byte) /\ Len(rb) \in Nat
  BY LenProperties DEF FramingHolds, RingHolds
<1>2. 0 \in 0..Len(rb)
  BY <1>1
<1>3. rb' \o wire' = SubSeq(rb, 0 + 1, Len(rb)) \o wire
  BY <1>1, <1>2, RingMoves
<1>4. SubSeq(rb, 0 + 1, Len(rb)) = rb
  BY <1>1, SubSeqFull
<1> QED BY <1>3, <1>4

(* The reader takes an octet and stays in the frame ...                      *)
LEMMA GoesOn ==
    ASSUME FramingHolds, NEW rest, NEW c \in 1..Len(frames), NEW route \in Routes,
           NEW X \in Seq(Byte), NEW t \in Seq(Byte), NEW more \in Seq(Byte),
           Taken(rest, c, route, X, t, more),
           rb' \o wire' = BehindWidth, frames' = frames, state' # "uninitialized",
           Todo(frames[c].payload, route, t)'
    PROVE  LineHolds'
<1>1. /\ LaidFrames(rest, frames) /\ \A i \in 1..c - 1 : ~Wanted(frames[i])
      /\ Missing(frames[c].payload, route, X)
      /\ frames[c].kind = "whole" <=> X = <<>> /\ route = Ours
      /\ more \o X = StuffedAll(t)
      /\ BehindWidth = more \o rest[c + 1]
  BY DEF Taken
<1>2. InFrame(frames[c], route, X, t, more)'
  BY <1>1 DEF InFrame
<1>3. Reads(frames[c], more)'
  BY <1>2 DEF Reads
<1>4. Len(frames) \in Nat /\ c \in 0..Len(frames) /\ c >= 1
  BY LenProperties DEF FramingHolds
<1>5. Place(rest, c, more)'
  BY <1>1, <1>3, <1>4 DEF Place
<1> QED BY <1>5 DEF LineHolds

(* ... or leaves it, when it is for another reader or all of it is read.     *)
LEMMA Skips ==
    ASSUME FramingHolds, NEW rest, NEW c \in 1..Len(frames), NEW route \in Routes,
           NEW X \in Seq(Byte), NEW t \in Seq(Byte), NEW more \in Seq(Byte),
           Taken(rest, c, route, X, t, more),
           rb' \o wire' = BehindWidth, frames' = frames, state' = "uninitialized",
           ~Wanted(frames[c])
    PROVE  LineHolds'
<1>1. /\ LaidFrames(rest, frames) /\ \A i \in 1..c - 1 : ~Wanted(frames[i])
      /\ more \o X = StuffedAll(t)
      /\ BehindWidth = more \o rest[c + 1]
  BY DEF Taken
<1>2. NoFlagIn(more)
  <2>1. NoFlagIn(more \o X)
    BY <1>1, NoFlagStuffed
  <2>2. Len(more) \in Nat /\ Len(X) \in Nat /\ Len(more \o X) = Len(more) + Len(X)
    BY LenProperties, Joined
  <2>3. \A i \in 1..Len(more) : (more \o X)[i] = more[i]
    BY ConcatProperties
  <2>4. \A i \in 1..Len(more) : i \in 1..Len(more \o X)
    BY <2>2
  <2> QED BY <2>1, <2>3, <2>4 DEF NoFlagIn
<1>3. Len(frames) \in Nat /\ c \in 0..Len(frames) /\ c >= 1
  BY LenProperties DEF FramingHolds
<1>4. Place(rest, c, more)'
  BY <1>1, <1>2, <1>3 DEF Place
<1> QED BY <1>4 DEF LineHolds

(* An octet is taken in a frame.                                             *)
InsideFrame ==
    /\ FramingHolds /\ LineHolds /\ HasOctet /\ state # "uninitialized" /\ Take(Width)
    /\ state = "payload" => Len(buf) < msg_len

LEMMA TakesNext ==
    ASSUME InsideFrame
    PROVE  /\ rb' \o wire' = BehindWidth
           /\ \E c \in 1..Len(frames) : \E route \in Routes : \E X, t, more \in Seq(Byte) :
                 \E rest : Taken(rest, c, route, X, t, more)
<1>1. OctetIsNext
  BY WhatIsNext DEF InsideFrame
<1>2. 0 \in Nat
  OBVIOUS
<1>3. rb' \o wire' = BehindWidth
  BY <1>2, WidthGone DEF InsideFrame
<1> QED BY <1>1, <1>3 DEF OctetIsNext

LEMMA FrameType ==
    ASSUME FramingHolds, NEW c \in 1..Len(frames)
    PROVE  frames[c].payload \in Payloads
<1>1. frames[c] \in Entries
  BY ElementOfSeq DEF FramingHolds
<1> QED BY <1>1 DEF Entries

LEMMA ReadSrcAddrLine ==
    ASSUME FramingHolds, LineHolds, ReadSrcAddr
    PROVE  LineHolds'
<1>1. InsideFrame /\ state = "src_addr" /\ state' = "dst_addr" /\ frames' = frames /\ src_addr' = Octet
  BY DEF ReadSrcAddr, Goes, outcome, InsideFrame
<1>2. PICK c \in 1..Len(frames), route \in Routes, X, t, more \in Seq(Byte) :
          \E rest : Taken(rest, c, route, X, t, more)
  BY <1>1, TakesNext
<1>3. PICK rest : Taken(rest, c, route, X, t, more)
  BY <1>2
<1>4. Todo(frames[c].payload, route, t)'
  BY <1>1, <1>3 DEF Taken, Comes, Todo
<1> QED BY <1>1, <1>3, <1>4, GoesOn, TakesNext

LEMMA ReadDstAddrLine ==
    ASSUME FramingHolds, LineHolds, ReadDstAddr
    PROVE  LineHolds'
<1>1. /\ InsideFrame /\ state = "dst_addr" /\ frames' = frames /\ message' = message
      /\ state' = IF Octet = local_addr THEN "len_lsb" ELSE "uninitialized"
  BY DEF ReadDstAddr, Goes, outcome, InsideFrame
<1>2. PICK c \in 1..Len(frames), route \in Routes, X, t, more \in Seq(Byte) :
          \E rest : Taken(rest, c, route, X, t, more)
  BY <1>1, TakesNext
<1>3. PICK rest : Taken(rest, c, route, X, t, more)
  BY <1>2
<1>4. Octet = route[2] /\ t = AtLsb(frames[c].payload) /\ src_addr = route[1]
  BY <1>1, <1>3 DEF Taken, Comes, Todo
<1>5. CASE Octet = local_addr
  <2>1. Todo(frames[c].payload, route, t)'
    BY <1>1, <1>4, <1>5 DEF Todo, message
  <2> QED BY <1>1, <1>3, <1>5, <2>1, GoesOn, TakesNext
<1>6. CASE Octet # local_addr
  <2>1. ~Wanted(frames[c])
    BY <1>3, <1>4, <1>6 DEF Taken, Wanted, Ours
  <2> QED BY <1>1, <1>3, <1>6, <2>1, Skips, TakesNext
<1> QED BY <1>5, <1>6

LEMMA ReadLenLsbLine ==
    ASSUME FramingHolds, LineHolds, ReadLenLsb
    PROVE  LineHolds'
<1>1. /\ InsideFrame /\ state = "len_lsb" /\ state' = "len_msb" /\ frames' = frames
      /\ msg_len' = Octet /\ src_addr' = src_addr
  BY DEF ReadLenLsb, Goes, outcome, InsideFrame
<1>2. PICK c \in 1..Len(frames), route \in Routes, X, t, more \in Seq(Byte) :
          \E rest : Taken(rest, c, route, X, t, more)
  BY <1>1, TakesNext
<1>3. PICK rest : Taken(rest, c, route, X, t, more)
  BY <1>2
<1>4. /\ Octet = Length(frames[c].payload)[1] /\ t = AtMsb(frames[c].payload)
      /\ src_addr = route[1] /\ route[2] = local_addr
  BY <1>1, <1>3 DEF Taken, Comes, Todo
<1>5. Todo(frames[c].payload, route, t)'
  BY <1>1, <1>4 DEF Todo
<1> QED BY <1>1, <1>3, <1>5, GoesOn, TakesNext

LEMMA ReadLenMsbLine ==
    ASSUME FramingHolds, LineHolds, ReadLenMsb
    PROVE  LineHolds'
<1>1. /\ InsideFrame /\ state = "len_msb" /\ frames' = frames /\ src_addr' = src_addr
      /\ msg_len' = msg_len + 256 * Octet /\ buf' = <<>> /\ cmp_crc' = 0
      /\ ~(MaxLength < msg_len') => state' = "payload"
  BY DEF ReadLenMsb, Goes, outcome, InsideFrame
<1>2. PICK c \in 1..Len(frames), route \in Routes, X, t, more \in Seq(Byte) :
          \E rest : Taken(rest, c, route, X, t, more)
  BY <1>1, TakesNext
<1>3. PICK rest : Taken(rest, c, route, X, t, more)
  BY <1>2
<1> DEFINE payload == frames[c].payload
<1>4. /\ Octet = Length(payload)[2] /\ t = AtPayload(payload) /\ msg_len = Length(payload)[1]
      /\ src_addr = route[1] /\ route[2] = local_addr
  BY <1>1, <1>3 DEF Taken, Comes, Todo
<1>5. payload \in Payloads
  BY FrameType
<1>6. msg_len' = Len(payload)
  BY <1>1, <1>4, <1>5, PairsInFrame
<1>7. state' = "payload"
  <2>1. Len(payload) <= MaxLength /\ Len(payload) \in Nat /\ MaxLength \in Nat
    BY <1>5, PayloadTypes, FramingAssumption
  <2> QED BY <1>1, <1>6, <2>1
<1>8. Todo(payload, route, t)'
  <2>1. payload' = payload
    BY <1>1
  <2>2. payload = buf' \o payload /\ cmp_crc' = Crc(buf')
    BY <1>1, <1>5, PayloadTypes, ConcatEmptySeq, CrcOf
  <2>3. payload \in Seq(Byte) /\ t = payload \o Sum(payload)
    BY <1>4, <1>5, PayloadTypes DEF AtPayload
  <2> HIDE DEF payload
  <2>4. \E after \in Seq(Byte) :
            payload' = buf' \o after /\ t = after \o Sum(payload') /\ cmp_crc' = Crc(buf')
    BY <2>1, <2>2, <2>3
  <2> QED BY <1>1, <1>4, <1>6, <1>7, <2>1, <2>4 DEF Todo
<1> QED BY <1>1, <1>3, <1>7, <1>8, GoesOn, TakesNext

LEMMA ReadPayloadLine ==
    ASSUME FramingHolds, LineHolds, ReadPayload
    PROVE  LineHolds'
<1>1. /\ InsideFrame /\ state = "payload" /\ state' = "payload" /\ frames' = frames
      /\ src_addr' = src_addr /\ msg_len' = msg_len
      /\ buf' = Append(buf, Octet) /\ cmp_crc' = uxr_update_crc(cmp_crc, Octet)
  BY DEF ReadPayload, outcome, InsideFrame
<1>2. PICK c \in 1..Len(frames), route \in Routes, X, t, more \in Seq(Byte) :
          \E rest : Taken(rest, c, route, X, t, more)
  BY <1>1, TakesNext
<1>3. PICK rest : Taken(rest, c, route, X, t, more)
  BY <1>2
<1> DEFINE payload == frames[c].payload
<1>4. /\ \E after \in Seq(Byte) : payload = Append(buf, Octet) \o after /\ t = after \o Sum(payload)
      /\ src_addr = route[1] /\ route[2] = local_addr /\ msg_len = Len(payload)
      /\ cmp_crc = Crc(buf)
  BY <1>1, <1>3 DEF Taken, Comes, Todo
<1>5. cmp_crc' = Crc(buf')
  <2>1. buf \in Seq(Byte) /\ Octet \in Byte
    BY <1>1, WidthIs DEF FramingHolds, InsideFrame
  <2> QED BY <1>1, <1>4, <2>1, CrcOf
<1>6. Todo(payload, route, t)'
  <2>1. payload' = payload
    BY <1>1
  <2> HIDE DEF payload
  <2>2. \E after \in Seq(Byte) :
            payload' = buf' \o after /\ t = after \o Sum(payload') /\ cmp_crc' = Crc(buf')
    BY <1>1, <1>4, <1>5, <2>1
  <2> QED BY <1>1, <1>4, <2>1, <2>2 DEF Todo
<1> QED BY <1>1, <1>3, <1>6, GoesOn, TakesNext

LEMMA ReadCrcLsbLine ==
    ASSUME FramingHolds, LineHolds, ReadCrcLsb
    PROVE  LineHolds'
<1>1. /\ InsideFrame /\ state = "crc_lsb" /\ state' = "crc_msb" /\ frames' = frames
      /\ msg_crc' = Octet /\ UNCHANGED <<src_addr, msg_len, buf, cmp_crc>>
  BY DEF ReadCrcLsb, Goes, outcome, InsideFrame
<1>2. PICK c \in 1..Len(frames), route \in Routes, X, t, more \in Seq(Byte) :
          \E rest : Taken(rest, c, route, X, t, more)
  BY <1>1, TakesNext
<1>3. PICK rest : Taken(rest, c, route, X, t, more)
  BY <1>2
<1>4. /\ Octet = Sum(frames[c].payload)[1] /\ t = <<Sum(frames[c].payload)[2]>>
      /\ src_addr = route[1] /\ route[2] = local_addr /\ msg_len = Len(frames[c].payload)
      /\ buf = frames[c].payload /\ cmp_crc = Crc(frames[c].payload)
  BY <1>1, <1>3 DEF Taken, Comes, Todo
<1>5. Todo(frames[c].payload, route, t)'
  BY <1>1, <1>4 DEF Todo
<1> QED BY <1>1, <1>3, <1>5, GoesOn, TakesNext

(* The whole payload is read; its checksum comes.                            *)
LEMMA EndPayloadLine ==
    ASSUME FramingHolds, LineHolds, EndPayload
    PROVE  LineHolds'
<1>1. /\ state = "payload" /\ Len(buf) = msg_len /\ state' = "crc_lsb" /\ frames' = frames
      /\ message' = message /\ rb' = rb /\ wire' = wire
  BY DEF EndPayload, Goes, outcome, ring
<1>2. PICK rest, c, left : Place(rest, c, left)
  BY DEF LineHolds
<1>3. Len(frames) \in Nat /\ c \in 1..Len(frames) /\ Reads(frames[c], left)
  <2>1. Len(frames) \in Nat
    BY LenProperties DEF FramingHolds
  <2> QED BY <1>1, <1>2, <2>1 DEF Place
<1> DEFINE payload == frames[c].payload
<1>4. payload \in Payloads /\ payload \in Seq(Byte)
  BY <1>3, FrameType, PayloadTypes
<1>5. \A route, todo : Todo(payload, route, todo) => Todo(payload, route, todo)'
  <2> TAKE route, todo
  <2> HAVE Todo(payload, route, todo)
  <2>1. payload' = payload
    BY <1>1
  <2> HIDE DEF payload
  <2>2. PICK after \in Seq(Byte) :
            payload = buf \o after /\ todo = after \o Sum(payload) /\ cmp_crc = Crc(buf)
    BY <1>1 DEF Todo
  <2>3. src_addr = route[1] /\ route[2] = local_addr /\ msg_len = Len(payload)
    BY <1>1 DEF Todo
  <2>4. buf \in Seq(Byte) /\ Len(buf) \in Nat /\ Len(after) \in Nat
    BY LenProperties DEF FramingHolds
  <2>5. after = <<>>
    <3>1. Len(payload) = Len(buf) + Len(after)
      BY <2>2, <2>4, Joined
    <3>2. Len(after) = 0
      BY <1>1, <2>3, <2>4, <3>1
    <3> QED BY <3>2, EmptySeq
  <2>6. buf = payload
    BY <2>2, <2>4, <2>5, ConcatEmptySeq
  <2>7. todo = Sum(payload)
    <3>1. Sum(payload) \in Seq(Byte)
      <4>1. Ours \in Routes
        BY DEF Ours, Routes
      <4> QED BY <1>4, <4>1, PartsOfContent
    <3> QED BY <2>2, <2>5, <3>1, ConcatEmptySeq
  <2> QED BY <1>1, <2>1, <2>2, <2>3, <2>6, <2>7 DEF Todo, message
<1>6. Reads(frames[c], left)'
  BY <1>1, <1>3, <1>5 DEF Reads, InFrame
<1>7. Place(rest, c, left)'
  BY <1>1, <1>2, <1>3, <1>6 DEF Place
<1> QED BY <1>7 DEF LineHolds

(* The flag of a new frame is taken.                                         *)
LEMMA FlagTaken ==
    ASSUME FramingHolds, LineHolds, LacksOctet, HasFlag, rb' \o wire' = BehindWidth,
           state' = "src_addr", UNCHANGED <<message, frames>>
    PROVE  LineHolds'
<1>1. FlagIsNext
  BY WhatIsNext DEF LacksOctet
<1>2. PICK c \in 0..Len(frames) - 1 : \E rest :
          /\ LaidFrames(rest, frames) /\ \A i \in 1..c : ~Wanted(frames[i])
          /\ rest[c + 1] = FlagSeq \o BehindWidth
  BY <1>1 DEF FlagIsNext
<1>3. PICK rest :
          /\ LaidFrames(rest, frames) /\ \A i \in 1..c : ~Wanted(frames[i])
          /\ rest[c + 1] = FlagSeq \o BehindWidth
  BY <1>2
<1>4. BehindWidth \in Seq(Byte)
  BY <1>1 DEF FlagIsNext
<1> QED BY <1>3, <1>4, FrameBegins

LEMMA NewFrameLine ==
    ASSUME FramingHolds, LineHolds, NewFrame
    PROVE  LineHolds'
<1>1. /\ LacksOctet /\ HasFlag /\ Take(Width) /\ state' = "src_addr"
      /\ UNCHANGED <<message, frames>>
  BY DEF NewFrame, FlagFirst, Goes, outcome
<1>2. rb' \o wire' = BehindWidth
  <2>1. 0 \in Nat
    OBVIOUS
  <2> QED BY <1>1, <2>1, WidthGone
<1> QED BY <1>1, <1>2, FlagTaken

(* What the line gives, or that it gives nothing, when there is no octet.    *)
LEMMA LineLine ==
    ASSUME FramingHolds, LineHolds, LineGivesMore \/ LineGivesNothing
    PROVE  LineHolds'
<1>1. /\ LacksOctet /\ ~FlagFirst /\ UNCHANGED <<message, frames>>
      /\ Asked \in Nat
      /\ ReadMore(FlagWidth, Asked) \/ ReadNoMore(FlagWidth)
      /\ ~HasFlag => state' = state
  BY AskedIs DEF LineGivesMore, LineGivesNothing, outcome, Ends
<1>2. CASE HasFlag
  <2>1. FlagWidth = Width
    BY <1>2 DEF FlagWidth
  <2>2. rb' \o wire' = BehindWidth
    BY <1>1, <1>2, <2>1, WidthGone
  <2>3. state' = "src_addr"
    <3>1. CASE LineGivesNothing
      BY <1>2, <3>1 DEF LineGivesNothing, Goes
    <3>2. CASE LineGivesMore
      <4>1. FlagIsNext
        BY <1>1, <1>2, WhatIsNext DEF LacksOctet
      <4>2. state = "src_addr"
        BY <1>1, <1>2, <4>1 DEF FlagIsNext, FlagFirst
      <4> QED BY <3>2, <4>2 DEF LineGivesMore
    <3> QED BY <3>1, <3>2
  <2> QED BY <1>1, <1>2, <2>2, <2>3, FlagTaken
<1>3. CASE ~HasFlag
  <2>1. FlagWidth = 0
    BY <1>3 DEF FlagWidth
  <2>2. rb' \o wire' = rb \o wire
    BY <1>1, <2>1, NothingGone
  <2> QED BY <1>1, <1>3, <2>2, Unmoved
<1> QED BY <1>2, <1>3

LEMMA CallLine ==
    ASSUME FramingHolds, LineHolds, CallRead \/ CallReadsNothing
    PROVE  LineHolds'
<1>1. state' = state /\ UNCHANGED <<message, frames>>
  BY DEF CallRead, CallReadsNothing, outcome
<1>2. rb' \o wire' = rb \o wire
  <2>1. CASE UNCHANGED <<wire, ring>>
    BY <2>1 DEF ring
  <2>2. CASE ReadMore(0, 5) \/ ReadNoMore(0)
    <3>1. 5 \in Nat
      OBVIOUS
    <3> QED BY <2>2, <3>1, NothingGone
  <2> QED BY <2>1, <2>2 DEF CallRead, CallReadsNothing
<1> QED BY <1>1, <1>2, Unmoved

LEMMA TailOfJoin ==
    ASSUME NEW a \in Seq(Byte), NEW b \in Seq(Byte)
    PROVE  \A j \in 1..Len(b) : (a \o b)[Len(a) + j] = b[j]
<1>1. Len(a) \in Nat /\ Len(b) \in Nat
  BY LenProperties
<1> TAKE j \in 1..Len(b)
<1>2. Len(a) + j \in 1..Len(a) + Len(b) /\ ~(Len(a) + j <= Len(a)) /\ (Len(a) + j) - Len(a) = j
  BY <1>1
<1> QED BY <1>2, ConcatProperties

(* Between frames, everything up to a flag is skipped.                       *)
LEMMA FindFlagLine ==
    ASSUME FramingHolds, LineHolds, FindFlag
    PROVE  LineHolds'
<1>1. state = "uninitialized" /\ UNCHANGED <<message, frames>>
  BY DEF FindFlag, outcome
<1>2. CASE rb = <<>>
  BY <1>1, <1>2, Unmoved DEF FindFlag, Ends, ring
<1>3. CASE rb # <<>>
  <2>1. /\ Take(1)
        /\ rb[1] = UXR_FRAMING_BEGIN_FLAG => state' = "src_addr"
        /\ rb[1] # UXR_FRAMING_BEGIN_FLAG => state' = "uninitialized"
    BY <1>1, <1>3 DEF FindFlag, Goes
  <2>2. /\ RingHolds /\ rb \in Seq(Byte) /\ wire \in Seq(Byte) /\ Len(rb) \in Nat
        /\ 1 \in 0..Len(rb) /\ 1 \in 1..Len(rb) /\ 0 \in Nat /\ 1 \in Nat
    BY <1>3, EmptySeq, LenProperties DEF FramingHolds, RingHolds
  <2>3. rb' \o wire' = SubSeq(rb, 1 + 1, Len(rb)) \o wire
    BY <2>1, <2>2, RingMoves
  <2>4. PICK rest, c, left : Place(rest, c, left)
    BY DEF LineHolds
  <2>5. /\ frames \in Seq(Entries) /\ Len(frames) \in Nat /\ c \in 0..Len(frames)
        /\ left \in Seq(Byte) /\ LaidFrames(rest, frames) /\ rb \o wire = left \o rest[c + 1]
        /\ \A i \in 1..c - 1 : ~Wanted(frames[i])
        /\ NoFlagIn(left) /\ (c >= 1 => ~Wanted(frames[c]))
    BY <1>1, <2>4, LenProperties DEF Place, FramingHolds
  <2>6. rest[c + 1] \in Seq(Byte)
    <3>1. c + 1 \in 1..Len(frames) + 1
      BY <2>5
    <3> QED BY <2>5, <3>1 DEF LaidFrames
  <2>7. \A i \in 1..c : ~Wanted(frames[i])
    <3> TAKE i \in 1..c
    <3>1. i \in 1..c - 1 \/ (i = c /\ c >= 1)
      BY <2>5
    <3> QED BY <2>5, <3>1
  <2>8. CASE left = <<>>
    <3>1. rb \o wire = rest[c + 1]
      BY <2>5, <2>6, <2>8, ConcatEmptySeq
    <3>2. c \in 0..Len(frames) - 1 /\ c + 1 \in 1..Len(frames)
      <4>1. Len(rb \o wire) = Len(rb) + Len(wire) /\ Len(wire) \in Nat
        BY <2>2, Joined, LenProperties
      <4>2. c = Len(frames) => Len(rest[c + 1]) = 0
        BY EmptySeq, <2>5 DEF LaidFrames
      <4>3. c # Len(frames)
        BY <2>2, <3>1, <4>1, <4>2
      <4> QED BY <2>5, <4>3
    <3>3. /\ rest[(c + 1) + 1] \in Seq(Byte)
          /\ Begins(frames[c + 1], rest[c + 1], rest[(c + 1) + 1])
      BY <2>5, <3>2, LaidTypes DEF LaidFrames
    <3>4. PICK body \in Seq(Byte) : rest[c + 1] = FlagSeq \o (body \o rest[(c + 1) + 1])
      BY <3>3 DEF Begins
    <3> DEFINE after == body \o rest[(c + 1) + 1]
    <3>5. after \in Seq(Byte) /\ rest[c + 1] = FlagSeq \o after
      BY <3>3, <3>4, Joined
    <3> HIDE DEF after
    <3>6. FlagSeq \in Seq(Byte) /\ Len(FlagSeq) = 1 /\ FlagSeq[1] = UXR_FRAMING_BEGIN_FLAG
      BY FlagSeqType
    <3>7. rb \o wire = FlagSeq \o after
      BY <3>1, <3>5
    <3>8. rb[1] = FlagSeq[1]
      <4>1. 1 <= Len(FlagSeq)
        BY <3>6
      <4> QED BY <2>2, <3>5, <3>6, <3>7, <4>1, RingBegins
    <3>9. rb' \o wire' = after
      <4>1. Len(FlagSeq) <= Len(rb)
        BY <2>2, <3>6
      <4>2. SubSeq(rb, Len(FlagSeq) + 1, Len(rb)) \o wire = after
        BY <2>2, <3>5, <3>6, <3>7, <4>1, TakenOff
      <4> QED BY <2>3, <3>6, <4>2
    <3>10. state' = "src_addr"
      BY <2>1, <3>6, <3>8
    <3> QED BY <1>1, <2>5, <2>7, <3>2, <3>5, <3>9, <3>10, FrameBegins
  <2>9. CASE left # <<>>
    <3>1. Len(left) \in Nat /\ 1 \in 0..Len(left) /\ 1 \in 1..Len(left)
      BY <2>5, <2>9, EmptySeq, LenProperties
    <3> DEFINE first == SubSeq(left, 1, 1)
               tail == SubSeq(left, 1 + 1, Len(left))
               next == rest[c + 1]
    <3>2. /\ first \in Seq(Byte) /\ Len(first) = 1 /\ tail \in Seq(Byte)
          /\ Len(tail) = Len(left) - 1 /\ left = first \o tail
      BY <2>5, <3>1, FirstAndRest
    <3>3. next \in Seq(Byte) /\ tail \o next \in Seq(Byte) /\ rb \o wire = left \o next
      BY <2>5, <2>6, <3>2, Joined
    <3> HIDE DEF first, tail, next
    <3>4. rb \o wire = first \o (tail \o next)
      <4>1. (first \o tail) \o next = first \o (tail \o next)
        BY <3>2, <3>3, JoinedLeft, SMTT(30)
      <4> QED BY <3>2, <3>3, <4>1
    <3>5. rb' \o wire' = tail \o next
      <4>1. Len(first) <= Len(rb)
        BY <2>2, <3>2
      <4> DEFINE after == tail \o next
      <4>3. after \in Seq(Byte) /\ rb \o wire = first \o after
        BY <3>3, <3>4
      <4> HIDE DEF after
      <4>4. SubSeq(rb, Len(first) + 1, Len(rb)) \o wire = after
        BY <2>2, <3>2, <4>1, <4>3, TakenOff
      <4>2. SubSeq(rb, Len(first) + 1, Len(rb)) \o wire = tail \o next
        BY <4>4 DEF after
      <4> QED BY <2>3, <3>2, <4>2
    <3>6. rb[1] = left[1]
      <4>1. 1 <= Len(left)
        BY <3>1
      <4> QED BY <2>2, <2>5, <3>3, <4>1, RingBegins
    <3>7. state' = "uninitialized"
      BY <2>1, <2>5, <3>1, <3>6 DEF NoFlagIn
    <3>8. NoFlagIn(tail)
      <4>1. ASSUME NEW i \in 1..Len(tail) PROVE tail[i] = left[i + 1] /\ i + 1 \in 1..Len(left)
        <5>1. \A j \in 1..Len(tail) : (first \o tail)[Len(first) + j] = tail[j]
          BY <3>2, TailOfJoin
        <5>2. 1 + i = i + 1 /\ i + 1 \in 1..Len(left)
          BY <3>1, <3>2
        <5> QED BY <3>2, <5>1, <5>2
      <4> QED BY <2>5, <4>1 DEF NoFlagIn
    <3>9. Place(rest, c, tail)'
      BY <1>1, <2>5, <3>2, <3>5, <3>7, <3>8 DEF Place, next
    <3> QED BY <3>9 DEF LineHolds
  <2> QED BY <2>8, <2>9
<1> QED BY <1>2, <1>3

(* The message that is returned is that of the first frame to be read.       *)
ReadsFrame(c) ==
    /\ Wanted(frames[c]) /\ \A i \in 1..c - 1 : ~Wanted(frames[i])
    /\ received' = frames[c].payload /\ frame_round' = 1 - frame_round
    /\ frames' = SubSeq(frames, c + 1, Len(frames))

LEMMA ReadCrcMsbLine ==
    ASSUME FramingHolds, LineHolds, ReadCrcMsb
    PROVE  /\ LineHolds'
           /\ UNCHANGED outcome \/ \E c \in 1..Len(frames) : ReadsFrame(c)
<1>1. /\ InsideFrame /\ state = "crc_msb" /\ state' = "uninitialized"
      /\ msg_crc' = msg_crc + 256 * Octet /\ cmp_crc' = cmp_crc /\ wire' = wire
      /\ CrcMatches' /\ msg_len > 0 /\ FromAgent => ReadFrame
      /\ ~(CrcMatches' /\ msg_len > 0 /\ FromAgent) => UNCHANGED outcome
  BY DEF ReadCrcMsb, InsideFrame, Take
<1>2. PICK c \in 1..Len(frames), route \in Routes, X, t, more \in Seq(Byte) :
          \E rest : Taken(rest, c, route, X, t, more)
  BY <1>1, TakesNext
<1>3. PICK rest : Taken(rest, c, route, X, t, more)
  BY <1>2
<1>4. rb' \o wire' = BehindWidth
  BY <1>1, TakesNext
<1> DEFINE payload == frames[c].payload
<1>5. /\ Octet = Sum(payload)[2] /\ t = <<>> /\ msg_crc = Sum(payload)[1]
      /\ src_addr = route[1] /\ route[2] = local_addr /\ msg_len = Len(payload)
      /\ buf = payload /\ cmp_crc = Crc(payload)
  BY <1>1, <1>3 DEF Taken, Comes, Todo
<1>6. payload \in Payloads /\ Len(payload) \in Nat /\ payload \in Seq(Byte)
  BY FrameType, PayloadTypes
<1>7. CrcMatches'
  <2>1. Crc(payload) = Sum(payload)[1] + 256 * Sum(payload)[2]
    BY <1>6, PairsInFrame
  <2> QED BY <1>1, <1>5, <2>1 DEF CrcMatches
<1>8. more = <<>> /\ X = <<>>
  <2>1. more \o X = <<>>
    BY <1>3, <1>5, StuffedAllOf DEF Taken
  <2>2. Len(more \o X) = Len(more) + Len(X) /\ Len(more) \in Nat /\ Len(X) \in Nat
    BY Joined, LenProperties
  <2>3. Len(more \o X) = 0
    BY <2>1, EmptySeq
  <2>4. Len(more) = 0 /\ Len(X) = 0
    BY <2>2, <2>3
  <2> QED BY <2>4, EmptySeq
<1>9. Wanted(frames[c]) <=> msg_len > 0 /\ FromAgent
  <2>1. msg_len > 0 <=> payload # <<>>
    BY <1>5, <1>6, EmptySeq
  <2>2. FromAgent <=> route = Ours
    BY <1>5, RouteTypes DEF FromAgent, Ours
  <2>3. frames[c].kind = "whole" <=> route = Ours
    BY <1>3, <1>8 DEF Taken
  <2> QED BY <2>1, <2>2, <2>3 DEF Wanted
<1>10. CASE ~Wanted(frames[c])
  <2>1. UNCHANGED outcome
    BY <1>1, <1>9, <1>10
  <2>2. frames' = frames
    BY <2>1 DEF outcome
  <2> QED BY <1>1, <1>3, <1>4, <1>10, <2>1, <2>2, Skips
<1>11. CASE Wanted(frames[c])
  <2>1. ReadFrame
    BY <1>1, <1>7, <1>9, <1>11
  <2>2. frames \in Seq(Entries) /\ Len(frames) \in Nat /\ LaidFrames(rest, frames)
    BY <1>3, LenProperties DEF FramingHolds, Taken
  <2>3. rest[c + 1] \in Seq(Byte) /\ Len(rest[c + 1]) \in Nat
    BY <2>2, LaidTypes
  <2>4. rb' \o wire' = rest[c + 1]
    BY <1>3, <1>4, <1>8, <2>3, ConcatEmptySeq DEF Taken
  <2>5. Len(rb') + Len(wire) = Len(rest[c + 1])
    <3>1. RingHolds'
      <4>1. RingHolds /\ Width \in 0..Len(rb) /\ Take(Width) /\ 0 \in Nat
        BY <1>1, WidthIs DEF InsideFrame, FramingHolds
      <4> QED BY <4>1, RingMoves
    <3>2. rb' \in Seq(Byte) /\ wire' \in Seq(Byte)
      BY <3>1 DEF RingHolds
    <3>3. Len(rb' \o wire') = Len(rb') + Len(wire')
      BY <3>2, Joined
    <3> QED BY <1>1, <2>4, <3>3
  <2>6. \A n \in 1..Len(frames) : OctetsBehind(n) = Len(rb') + Len(wire) <=> n = c
    <3> TAKE n \in 1..Len(frames)
    <3>1. OctetsBehind(n) = Len(rest[n + 1])
      BY <2>2, OctetsBehindAre
    <3>2. n = c => OctetsBehind(n) = Len(rb') + Len(wire)
      BY <2>5, <3>1
    <3>3. ASSUME n # c PROVE Len(rest[n + 1]) # Len(rest[c + 1])
      <4>1. Len(rest[n + 1]) \in Nat
        BY <2>2, LaidTypes
      <4>2. \A p \in 1..Len(frames) + 1 : \A q \in 1..p :
                q < p => Len(rest[p]) < Len(rest[q])
        BY <2>2, FramesBehind
      <4>3. CASE n < c
        <5>1. c + 1 \in 1..Len(frames) + 1 /\ n + 1 \in 1..c + 1 /\ n + 1 < c + 1
          BY <2>2, <4>3
        <5>2. Len(rest[c + 1]) < Len(rest[n + 1])
          BY <4>2, <5>1
        <5> QED BY <2>3, <4>1, <5>2
      <4>4. CASE c < n
        <5>1. n + 1 \in 1..Len(frames) + 1 /\ c + 1 \in 1..n + 1 /\ c + 1 < n + 1
          BY <2>2, <4>4
        <5>2. Len(rest[n + 1]) < Len(rest[c + 1])
          BY <4>2, <5>1
        <5> QED BY <2>3, <4>1, <5>2
      <4> QED BY <2>2, <3>3, <4>3, <4>4
    <3> QED BY <2>5, <3>1, <3>2, <3>3
  <2>7. /\ received' = buf /\ frame_round' = 1 - frame_round
        /\ frames' = SubSeq(frames, c + 1, Len(frames))
    BY <2>1, <2>6 DEF ReadFrame
  <2>8. ReadsFrame(c)
    BY <1>3, <1>5, <1>11, <2>7 DEF Taken, ReadsFrame
  <2>9. LineHolds'
    <3>1. frames' \in Seq(Entries) /\ \E less : LaidFrames(less, frames') /\ less[1] = rest[c + 1]
      BY <2>2, <2>7, LaidFurther
    <3>2. PICK less : LaidFrames(less, frames') /\ less[1] = rest[c + 1]
      BY <3>1
    <3>3. Len(frames') \in Nat /\ <<>> \in Seq(Byte) /\ Len(<<>>) = 0
      BY <3>1, LenProperties, EmptySeq
    <3>4. rb' \o wire' = <<>> \o less[0 + 1]
      <4>1. less[0 + 1] = rest[c + 1]
        BY <3>2
      <4> QED BY <2>3, <2>4, <4>1, ConcatEmptySeq
    <3>5. NoFlagIn(<<>>)
      BY <3>3 DEF NoFlagIn
    <3>6. 0 \in 0..Len(frames') /\ \A i \in 1..0 - 1 : ~Wanted(frames[i])'
      BY <3>3
    <3>7. Place(less, 0, <<>>)'
      BY <1>1, <3>2, <3>3, <3>4, <3>5, <3>6 DEF Place
    <3> QED BY <3>7 DEF LineHolds
  <2> QED BY <2>8, <2>9
<1> QED BY <1>10, <1>11

(* A frame is written behind the others; where the reader is, and in what,   *)
(* stays the same.                                                           *)
LEMMA WriteFrameLine ==
    ASSUME FramingHolds, LineHolds, NEW payload \in Payloads, NEW route \in Routes,
           NEW n \in 1..Len(Frame(payload, route[1], route[2])), WriteFrame(payload, route, n),
           CutWhere(payload, route, n) # "broken"
    PROVE  LineHolds'
<1> DEFINE frame == [payload |-> payload, octets |-> n, kind |-> CutWhere(payload, route, n)]
<1>1. /\ frames' = Append(frames, frame) /\ wire' = wire \o SubSeq(Frames[payload][route], 1, n)
      /\ rb' = rb /\ state' = state /\ message' = message
  BY DEF WriteFrame, ring
<1>2. PICK body \in Seq(Byte) : \E X \in Seq(Byte) :
          /\ Sent(frame, route, body, X)
          /\ SubSeq(Frames[payload][route], 1, n) = FlagSeq \o body
  BY WrittenIsSent
<1>3. PICK X \in Seq(Byte) :
          /\ Sent(frame, route, body, X)
          /\ SubSeq(Frames[payload][route], 1, n) = FlagSeq \o body
  BY <1>2
<1>4. frame \in Entries
  <2>1. CutWhere(payload, route, n) \in Framed!Kinds
    BY DEF CutWhere, Framed!Kinds
  <2>2. n \in Nat
    BY PartsOfContent, LenProperties
  <2> QED BY <2>1, <2>2 DEF Entries
<1> HIDE DEF frame
<1>5. PICK rest, c, left : Place(rest, c, left)
  BY DEF LineHolds
<1>6. /\ frames \in Seq(Entries) /\ Len(frames) \in Nat /\ c \in 0..Len(frames)
      /\ left \in Seq(Byte) /\ LaidFrames(rest, frames) /\ rb \o wire = left \o rest[c + 1]
      /\ rb \in Seq(Byte) /\ wire \in Seq(Byte)
  BY <1>5, LenProperties DEF Place, FramingHolds, RingHolds
<1>7. PICK longer : /\ LaidFrames(longer, frames')
                    /\ \A i \in 1..Len(frames) + 1 : longer[i] = rest[i] \o (FlagSeq \o body)
  <2>1. Sent(frame, route, body, X) /\ frame \in Entries /\ frames \in Seq(Entries)
        /\ LaidFrames(rest, frames)
    BY <1>3, <1>4, <1>6
  <2>2. \E longer : /\ LaidFrames(longer, Append(frames, frame))
                     /\ \A i \in 1..Len(frames) + 1 : longer[i] = rest[i] \o (FlagSeq \o body)
    BY <2>1, LaidBehind, ZenonT(60)
  <2> QED BY <1>1, <2>2
<1>8. /\ Len(frames') = Len(frames) + 1
      /\ \A i \in 1..Len(frames) : frames'[i] = frames[i]
  BY <1>1, <1>4, <1>6, AppendProperties
<1>9. rb' \o wire' = left \o longer[c + 1]
  <2> DEFINE next == rest[c + 1]
             added == FlagSeq \o body
  <2>1. c + 1 \in 1..Len(frames) + 1
    BY <1>6
  <2>2. next \in Seq(Byte) /\ added \in Seq(Byte) /\ longer[c + 1] = next \o added
    BY <1>6, <1>7, <2>1, FlagSeqType, Joined DEF LaidFrames
  <2>3. rb' \o wire' = rb \o (wire \o added) /\ rb \o wire = left \o next
    BY <1>1, <1>3, <1>6
  <2> HIDE DEF next, added
  <2>4. rb \o (wire \o added) = (rb \o wire) \o added
    BY <1>6, <2>2, JoinedLeft
  <2>5. (left \o next) \o added = left \o (next \o added)
    BY <1>6, <2>2, JoinedLeft
  <2> QED BY <2>2, <2>3, <2>4, <2>5
<1>10. Reads(frames[c], left) => \A entry : entry = frames[c] => Reads(entry, left)'
  <2>1. /\ src_addr' = src_addr /\ msg_len' = msg_len /\ buf' = buf /\ msg_crc' = msg_crc
        /\ cmp_crc' = cmp_crc /\ state' = state
    BY <1>1 DEF message
  <2>2. \A p, r, todo : Todo(p, r, todo) => Todo(p, r, todo)'
    <3> TAKE p, r, todo
    <3> HAVE Todo(p, r, todo)
    <3>1. ASSUME state = "payload"
          PROVE  \E after \in Seq(Byte) : p = buf' \o after /\ todo = after \o Sum(p)
                                         /\ cmp_crc' = Crc(buf')
      BY <2>1, <3>1 DEF Todo
    <3> QED BY <2>1, <3>1 DEF Todo
  <2> QED BY <2>2 DEF Reads, InFrame
<1>11. c >= 1 => c \in 1..Len(frames) /\ frames'[c] = frames[c]
  BY <1>6, <1>8
<1>12. \A i \in 1..c - 1 : ~Wanted(frames'[i])
  <2> TAKE i \in 1..c - 1
  <2>1. i \in 1..Len(frames)
    BY <1>6
  <2> QED BY <1>5, <1>8, <2>1 DEF Place
<1>13. c \in 0..Len(frames')
  BY <1>6, <1>8
<1>14. state' # "uninitialized" => c >= 1 /\ Reads(frames[c], left)'
  <2>1. ASSUME state' # "uninitialized" PROVE c >= 1 /\ Reads(frames[c], left)
    BY <1>1, <1>5, <2>1 DEF Place
  <2> QED BY <1>10, <1>11, <2>1
<1>15. state' = "uninitialized" => NoFlagIn(left) /\ (c >= 1 => ~Wanted(frames'[c]))
  BY <1>1, <1>5, <1>11 DEF Place
<1>16. Place(longer, c, left)'
  BY <1>6, <1>7, <1>9, <1>12, <1>13, <1>14, <1>15 DEF Place
<1> QED BY <1>16 DEF LineHolds

(***************************************************************************)
(* Each step of the framing is one of FramedLine, or none.                 *)
(***************************************************************************)
(* What FramedLine knows of a frame.                                         *)
Known(frame) == [payload |-> frame.payload, kind |-> frame.kind]
KnownEntries == [payload : Payloads, kind : Framed!Kinds]
KnownOf(fs) == [n \in 1..Len(fs) |-> Known(fs[n])]

LEMMA KnownTypes ==
    ASSUME NEW fs \in Seq(Entries)
    PROVE  /\ KnownOf(fs) \in Seq(KnownEntries) /\ Len(fs) \in Nat
           /\ Len(KnownOf(fs)) = Len(fs)
           /\ \A n \in 1..Len(fs) : KnownOf(fs)[n] = Known(fs[n]) /\ Known(fs[n]) \in KnownEntries
<1>1. Len(fs) \in Nat
  BY LenProperties
<1>2. ASSUME NEW n \in 1..Len(fs) PROVE Known(fs[n]) \in KnownEntries
  <2>1. fs[n] \in Entries
    BY ElementOfSeq
  <2> QED BY <2>1 DEF Known, KnownEntries, Entries
<1>3. KnownOf(fs) \in Seq(KnownEntries)
  BY <1>1, <1>2, IsASeq DEF KnownOf
<1>4. Len(KnownOf(fs)) = Len(fs)
  BY <1>1, <1>3, LenProperties DEF KnownOf
<1> QED BY <1>1, <1>2, <1>3, <1>4 DEF KnownOf

LEMMA KnownBehind ==
    ASSUME NEW fs \in Seq(Entries), NEW frame \in Entries
    PROVE  KnownOf(Append(fs, frame)) = Append(KnownOf(fs), Known(frame))
<1> DEFINE longer == Append(fs, frame)
           known == Known(frame)
           a == KnownOf(longer)
           b == Append(KnownOf(fs), known)
<1>1. /\ KnownOf(fs) \in Seq(KnownEntries) /\ Len(fs) \in Nat /\ Len(KnownOf(fs)) = Len(fs)
      /\ \A n \in 1..Len(fs) : KnownOf(fs)[n] = Known(fs[n])
  BY KnownTypes
<1>2. /\ longer \in Seq(Entries) /\ Len(longer) = Len(fs) + 1 /\ longer[Len(fs) + 1] = frame
      /\ \A n \in 1..Len(fs) : longer[n] = fs[n]
  BY AppendProperties, <1>1
<1>3. known \in KnownEntries
  BY DEF Known, KnownEntries, Entries
<1> HIDE DEF known, longer
<1>4. /\ b \in Seq(KnownEntries) /\ Len(b) = Len(fs) + 1 /\ b[Len(fs) + 1] = known
      /\ \A n \in 1..Len(fs) : b[n] = KnownOf(fs)[n]
  BY <1>1, <1>3, AppendProperties
<1>5. /\ a \in Seq(KnownEntries) /\ Len(a) = Len(fs) + 1
      /\ \A n \in 1..Len(fs) + 1 : a[n] = Known(longer[n])
  BY <1>2, KnownTypes
<1> HIDE DEF a, b
<1>6. ASSUME NEW n \in 1..Len(a) PROVE a[n] = b[n]
  <2>1. a[n] = Known(longer[n])
    BY <1>5
  <2>2. CASE n = Len(fs) + 1
    BY <1>2, <1>4, <2>1, <2>2 DEF known
  <2>3. CASE n # Len(fs) + 1
    <3>1. n \in 1..Len(fs)
      BY <1>1, <1>5, <2>3
    <3> QED BY <1>1, <1>2, <1>4, <2>1, <3>1
  <2> QED BY <2>2, <2>3
<1>7. a = b
  BY <1>4, <1>5, <1>6, SeqEqual
<1> QED BY <1>7 DEF a, b, longer, known

LEMMA KnownFurther ==
    ASSUME NEW fs \in Seq(Entries), NEW c \in 1..Len(fs)
    PROVE  KnownOf(SubSeq(fs, c + 1, Len(fs)))
              = SubSeq(KnownOf(fs), c + 1, Len(KnownOf(fs)))
<1> DEFINE fewer == SubSeq(fs, c + 1, Len(fs))
           l == Len(fs)
           k == KnownOf(fs)
           a == KnownOf(fewer)
           b == SubSeq(k, c + 1, l)
<1>1. /\ k \in Seq(KnownEntries) /\ l \in Nat /\ Len(k) = l /\ c \in 1..l
      /\ \A n \in 1..l : k[n] = Known(fs[n])
  BY KnownTypes
<1>2. \A n \in c + 1..l : n \in 1..l
  BY <1>1
<1>3. /\ fewer \in Seq(Entries)
      /\ Len(fewer) = IF c + 1 <= l THEN l - (c + 1) + 1 ELSE 0
      /\ \A n \in 1..l - (c + 1) + 1 : fewer[n] = fs[(c + 1) + n - 1]
  <2>1. \A n \in c + 1..l : fs[n] \in Entries
    BY <1>2, ElementOfSeq
  <2>2. c + 1 \in Int /\ l \in Int
    BY <1>1
  <2> QED BY <2>1, <2>2, SubSeqProperties
<1> HIDE DEF k, l
<1>4. /\ b \in Seq(KnownEntries)
      /\ Len(b) = IF c + 1 <= l THEN l - (c + 1) + 1 ELSE 0
      /\ \A n \in 1..l - (c + 1) + 1 : b[n] = k[(c + 1) + n - 1]
  <2>1. \A n \in c + 1..l : k[n] \in KnownEntries
    BY <1>1, <1>2, ElementOfSeq
  <2>2. c + 1 \in Int /\ l \in Int
    BY <1>1
  <2> QED BY <2>1, <2>2, SubSeqProperties
<1> HIDE DEF fewer, b
<1>5. /\ a \in Seq(KnownEntries) /\ Len(a) = Len(fewer)
      /\ \A n \in 1..Len(fewer) : a[n] = Known(fewer[n])
  BY <1>3, KnownTypes
<1> HIDE DEF a
<1>6. ASSUME NEW n \in 1..Len(a) PROVE a[n] = b[n]
  <2>1. n \in 1..l - (c + 1) + 1 /\ (c + 1) + n - 1 \in 1..l
    BY <1>1, <1>3, <1>5
  <2>2. a[n] = Known(fewer[n]) /\ fewer[n] = fs[(c + 1) + n - 1]
    BY <1>3, <1>5, <2>1
  <2>3. b[n] = k[(c + 1) + n - 1]
    BY <1>4, <2>1
  <2>4. k[(c + 1) + n - 1] = Known(fs[(c + 1) + n - 1])
    BY <1>1, <2>1
  <2> QED BY <2>2, <2>3, <2>4
<1>7. Len(a) = Len(b)
  BY <1>3, <1>4, <1>5
<1>8. a = b
  BY <1>4, <1>5, <1>6, <1>7, SeqEqual
<1> QED BY <1>1, <1>8 DEF a, b, fewer, k, l

LEMMA MappedIsKnown ==
    WrittenFrames = KnownOf(frames) /\ WrittenFrames' = KnownOf(frames')
BY DEF WrittenFrames, KnownOf, Known

LEMMA WriteIsFramed ==
    ASSUME FramingHolds, NEW frame \in Entries, frames' = Append(frames, frame),
           UNCHANGED <<received, frame_round>>
    PROVE  Framed!Write
<1>1. WrittenFrames' = Append(WrittenFrames, [payload |-> frame.payload, kind |-> frame.kind])
  <2>1. KnownOf(frames') = Append(KnownOf(frames), Known(frame))
    BY KnownBehind DEF FramingHolds
  <2> QED BY <2>1, MappedIsKnown DEF Known
<1>2. frame.payload \in Payloads /\ frame.kind \in Framed!Kinds
  BY DEF Entries
<1> QED BY <1>1, <1>2 DEF Framed!Write

LEMMA ReadIsFramed ==
    ASSUME FramingHolds, NEW c \in 1..Len(frames), ReadsFrame(c)
    PROVE  Framed!Receive(c) /\ c \in 1..Len(WrittenFrames)
<1>1. /\ frames \in Seq(Entries) /\ Len(frames) \in Nat /\ Len(WrittenFrames) = Len(frames)
      /\ \A n \in 1..Len(frames) : WrittenFrames[n] = Known(frames[n])
  BY KnownTypes, MappedIsKnown DEF FramingHolds
<1>2. \A n \in 1..Len(frames) : /\ Framed!Expected(n) <=> Wanted(frames[n])
                                /\ WrittenFrames[n].payload = frames[n].payload
  <2> TAKE n \in 1..Len(frames)
  <2>1. WrittenFrames[n] = Known(frames[n])
    BY <1>1
  <2>2. /\ WrittenFrames[n].payload = frames[n].payload
        /\ WrittenFrames[n].kind = frames[n].kind
    BY <2>1 DEF Known
  <2> QED BY <2>2 DEF Framed!Expected, Wanted
<1>3. \A i \in 1..c - 1 : i \in 1..Len(frames)
  BY <1>1
<1>4. Framed!Expected(c) /\ \A i \in 1..c - 1 : ~Framed!Expected(i)
  BY <1>2, <1>3 DEF ReadsFrame
<1>5. WrittenFrames' = SubSeq(WrittenFrames, c + 1, Len(WrittenFrames))
  <2>1. KnownOf(frames') = SubSeq(KnownOf(frames), c + 1, Len(KnownOf(frames)))
    BY <1>1, KnownFurther DEF ReadsFrame
  <2> QED BY <2>1, MappedIsKnown
<1>6. received' = WrittenFrames[c].payload /\ frame_round' = 1 - frame_round
  BY <1>2 DEF ReadsFrame
<1> QED BY <1>1, <1>4, <1>5, <1>6 DEF Framed!Receive

(* No frame is cut outside its payload.                                      *)
NoneBroken == \A n \in 1..Len(frames) : frames[n].kind # "broken"

LEMMA FramedStep ==
    ASSUME FramingHolds, LineHolds, NoneBroken', [Next]_vars
    PROVE  LineHolds' /\ [Framed!Next]_Framed!vars
<1>1. CASE WriteCut \/ WriteWhole \/ WriteForeign
  <2>1. PICK payload \in Payloads : \E route \in Routes :
            \E n \in 1..Len(Frame(payload, route[1], route[2])) : WriteFrame(payload, route, n)
    BY <1>1, FramesWritten
  <2>2. PICK route \in Routes :
            \E n \in 1..Len(Frame(payload, route[1], route[2])) : WriteFrame(payload, route, n)
    BY <2>1
  <2>3. PICK n \in 1..Len(Frame(payload, route[1], route[2])) : WriteFrame(payload, route, n)
    BY <2>2
  <2> DEFINE frame == [payload |-> payload, octets |-> n, kind |-> CutWhere(payload, route, n)]
  <2>4. frames' = Append(frames, frame) /\ UNCHANGED <<received, frame_round>>
    BY <2>3 DEF WriteFrame
  <2>5. frame \in Entries
    <3>1. CutWhere(payload, route, n) \in Framed!Kinds
      BY DEF CutWhere, Framed!Kinds
    <3>2. n \in Nat
      BY PartsOfContent, LenProperties
    <3> QED BY <3>1, <3>2 DEF Entries
  <2>6. CutWhere(payload, route, n) # "broken"
    <3>1. frame.kind = CutWhere(payload, route, n)
      OBVIOUS
    <3> HIDE DEF frame
    <3>2. /\ frames' \in Seq(Entries) /\ Len(frames) \in Nat
          /\ Len(frames') = Len(frames) + 1 /\ frames'[Len(frames) + 1] = frame
      BY <2>4, <2>5, AppendProperties, LenProperties DEF FramingHolds
    <3>3. Len(frames) + 1 \in 1..Len(frames')
      BY <3>2
    <3> QED BY <3>1, <3>2, <3>3 DEF NoneBroken
  <2>7. LineHolds'
    BY <2>3, <2>6, WriteFrameLine
  <2> HIDE DEF frame
  <2>8. Framed!Write
    BY <2>4, <2>5, WriteIsFramed
  <2> QED BY <2>7, <2>8 DEF Framed!Next
<1>2. CASE ReadCrcMsb
  <2>1. LineHolds' /\ (UNCHANGED outcome \/ \E c \in 1..Len(frames) : ReadsFrame(c))
    BY <1>2, ReadCrcMsbLine
  <2>2. CASE UNCHANGED outcome
    BY <2>1, <2>2 DEF outcome, Framed!vars, WrittenFrames
  <2>3. CASE \E c \in 1..Len(frames) : ReadsFrame(c)
    <3>1. \E c \in 1..Len(WrittenFrames) : Framed!Receive(c)
      BY <2>3, ReadIsFramed
    <3> QED BY <2>1, <3>1 DEF Framed!Next
  <2> QED BY <2>1, <2>2, <2>3
<1>3. ASSUME \/ CallRead \/ CallReadsNothing \/ LineGivesMore \/ LineGivesNothing
             \/ FindFlag \/ NewFrame \/ ReadSrcAddr \/ ReadDstAddr \/ ReadLenLsb \/ ReadLenMsb
             \/ ReadPayload \/ EndPayload \/ ReadCrcLsb
      PROVE  LineHolds' /\ [Framed!Next]_Framed!vars
  <2>1. LineHolds'
    BY <1>3, CallLine, LineLine, FindFlagLine, NewFrameLine, ReadSrcAddrLine, ReadDstAddrLine,
       ReadLenLsbLine, ReadLenMsbLine, ReadPayloadLine, EndPayloadLine, ReadCrcLsbLine
  <2>2. UNCHANGED outcome
    BY <1>3 DEF CallRead, CallReadsNothing, LineGivesMore, LineGivesNothing, FindFlag, NewFrame,
       ReadSrcAddr, ReadDstAddr, ReadLenLsb, ReadLenMsb, ReadPayload, EndPayload, ReadCrcLsb
  <2> QED BY <2>1, <2>2 DEF outcome, Framed!vars, WrittenFrames
<1>4. CASE UNCHANGED vars
  <2>1. rb' = rb /\ wire' = wire /\ UNCHANGED <<state, message, frames>> /\ UNCHANGED outcome
    BY <1>4 DEF vars, ring, outcome
  <2>2. LineHolds'
    BY <2>1, Unmoved
  <2> QED BY <2>1, <2>2 DEF outcome, Framed!vars, WrittenFrames
<1> QED BY <1>1, <1>2, <1>3, <1>4 DEF Next, Turn

LEMMA LineInitHolds ==
    ASSUME Init
    PROVE  LineHolds /\ Framed!Init
<1>1. /\ rb = <<>> /\ wire = <<>> /\ state = "uninitialized"
      /\ frames = <<>> /\ received = <<>> /\ frame_round = 0
  BY DEF Init
<1>2. <<>> \in Seq(Byte) /\ Len(<<>>) = 0
  BY EmptySeq
<1> DEFINE rest == [i \in 1..1 |-> <<>>]
<1>3. /\ rest \in [1..1 -> Seq(Byte)] /\ rest[1] = <<>> /\ Len(frames) = 0
      /\ \A i \in 1..0 : Begins(frames[i], rest[i], rest[i + 1])
  BY <1>1, <1>2
<1> HIDE DEF rest
<1>4. LaidFrames(rest, frames)
  <2>1. Len(frames) + 1 = 1
    BY <1>3
  <2> QED BY <1>3, <2>1 DEF LaidFrames
<1>5. NoFlagIn(<<>>)
  BY <1>2 DEF NoFlagIn
<1>6. Place(rest, 0, <<>>)
  <2>1. rb \o wire = <<>> \o rest[0 + 1]
    BY <1>1, <1>3
  <2>2. 0 \in 0..Len(frames) /\ \A i \in 1..0 - 1 : ~Wanted(frames[i])
    BY <1>3
  <2> QED BY <1>1, <1>2, <1>4, <1>5, <2>1, <2>2 DEF Place
<1>7. WrittenFrames = <<>>
  <2>1. WrittenFrames = [n \in 1..0 |-> [payload |-> frames[n].payload, kind |-> frames[n].kind]]
    BY <1>3 DEF WrittenFrames
  <2> QED BY <2>1
<1> QED BY <1>1, <1>6, <1>7 DEF LineHolds, Framed!Init

(* However the octets of the frames are cut into reads and wherever a call   *)
(* of uxr_read_framed_msg ends, while frames are cut in their payload only   *)
(* what is read was written, whole, once and in order, and no frame that was *)
(* not cut is missing: whatever the payloads, the addresses, the size of the *)
(* ring and that of the buffer are.                                          *)
THEOREM FramingIsFramedLine == Spec /\ []NoneBroken => Framed!Safety
<1>1. Init => FramingHolds /\ LineHolds /\ Framed!Init
  BY FramingInitHolds, LineInitHolds
<1>2. (FramingHolds /\ LineHolds) /\ NoneBroken' /\ [Next]_vars
          => (FramingHolds /\ LineHolds)' /\ [Framed!Next]_(Framed!vars)
  BY FramingStepHolds, FramedStep
<1> QED BY <1>1, <1>2, PTL DEF Spec, Framed!Safety
=============================================================================
