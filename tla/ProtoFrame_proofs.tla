-------------------------- MODULE ProtoFrame_proofs --------------------------
(***************************************************************************)
(* What one byte does to the parser, for every size of byte, and what the  *)
(* checksum of a sequence of bytes is: the lemmas both users of the parser *)
(* rest on.                                                                *)
(***************************************************************************)
EXTENDS ProtoFrame, FiniteSetTheorems, TLAPS

\* The uint8_t sum of two bytes is a byte.
LEMMA AddByteType ==
    ASSUME NEW a \in Byte, NEW b \in Byte
    PROVE  AddByte(a, b) \in Byte
  BY ProtoFrameAssumption DEF AddByte, Byte

\* A buffer that was reset is well typed and coherent.
LEMMA ResetCoherent ==
    ProtoReset \in ProtoBuff /\ Coherent(ProtoReset)
<1>1. ProtoReset \in ProtoBuff
  BY ProtoFrameAssumption DEF ProtoReset, ProtoBuff, ProtoStat, Byte
<1>2. Coherent(ProtoReset)
  BY DEF ProtoReset, Coherent
<1> QED
  BY <1>1, <1>2

\* A byte that takes the goto writes nothing into the buffer it was given.
LEMMA ResetsWritesNothing ==
    ASSUME NEW p, NEW b, Resets(p, b)
    PROVE  Advance(p, b) = p
<1>1. CASE p.proto_stat = "WAIT_55" /\ b # SOH_55
  BY <1>1 DEF Advance
<1>2. CASE p.proto_stat = "WAIT_AA" /\ b # SOH_AA
  BY <1>2 DEF Advance
<1>3. CASE p.proto_stat = "WAIT_CRC"
  BY <1>3 DEF Advance
<1> QED
  BY <1>1, <1>2, <1>3 DEF Resets

\* A wedged parser writes nothing, whatever byte comes, and never completes.
LEMMA WedgedWritesNothing ==
    ASSUME NEW p, NEW b, Wedged(p)
    PROVE  Advance(p, b) = p /\ ~Resets(p, b) /\ ~Completes(p, b)
<1>1. CASE p.proto_stat = "WAIT_TYPE"
  BY <1>1 DEF Wedged, Advance, AdvanceType, Resets, Completes
<1>2. CASE p.proto_stat = "WAIT_DATA"
  BY <1>2 DEF Wedged, Advance, AdvanceData, Resets, Completes
<1> QED
  BY <1>1, <1>2 DEF Wedged

\* One byte keeps the parser well typed and its state, counter and length
\* coherent: the index it stores at is inside data, the counter does not
\* wrap.
LEMMA AdvanceCoherent ==
    ASSUME NEW p \in ProtoBuff, NEW b \in Byte, Coherent(p)
    PROVE  Advance(p, b) \in ProtoBuff /\ Coherent(Advance(p, b))
<1> DEFINE q == Advance(p, b)
<1>1. CASE p.proto_stat = "WAIT_FF" /\ b = SOH_FF
  <2>1. q = [p EXCEPT !.proto_stat = "WAIT_55"]
    BY <1>1 DEF Advance
  <2> QED
    BY <1>1, <2>1 DEF ProtoBuff, ProtoStat, Coherent, ProtoReset
<1>2. CASE p.proto_stat = "WAIT_55" /\ b = SOH_55
  <2>1. q = [p EXCEPT !.proto_stat = "WAIT_AA"]
    BY <1>2 DEF Advance
  <2> QED
    BY <1>2, <2>1 DEF ProtoBuff, ProtoStat, Coherent, ProtoReset
<1>3. CASE p.proto_stat = "WAIT_AA" /\ b = SOH_AA
  <2>1. q = [p EXCEPT !.proto_stat = "WAIT_LEN"]
    BY <1>3 DEF Advance
  <2> QED
    BY <1>3, <2>1 DEF ProtoBuff, ProtoStat, Coherent, ProtoReset
<1>4. CASE p.proto_stat = "WAIT_LEN"
  <2>1. q = [p EXCEPT !.data_len = b, !.data_crc = b, !.proto_stat = "WAIT_TYPE"]
    BY <1>4 DEF Advance, AdvanceLen
  <2> QED
    BY <1>4, <2>1 DEF ProtoBuff, ProtoStat, Coherent, ProtoReset
<1>5. CASE p.proto_stat = "WAIT_TYPE" /\ Room(p)
  <2>1. q = [p EXCEPT !.data_crc = AddByte(p.data_crc, b),
                      !.data_cnt = p.data_cnt + 1,
                      !.proto_type = b,
                      !.proto_stat = IF IsAck(b) THEN "WAIT_CRC" ELSE "WAIT_DATA"]
    BY <1>5 DEF Advance, AdvanceType
  <2>2. p.data_cnt = 0 /\ p.data_len \in 1 .. (ByteMod - 1)
    BY <1>5, ProtoFrameAssumption DEF Coherent, Room, ProtoBuff, Byte
  <2>3. AddByte(p.data_crc, b) \in Byte
    BY AddByteType DEF ProtoBuff
  <2>4. q \in ProtoBuff
    <3>1. p.data_cnt + 1 \in Byte
      BY <2>2, ProtoFrameAssumption DEF Byte
    <3> QED
      BY <2>1, <2>3, <3>1 DEF ProtoBuff, ProtoStat
  <2>5. /\ q.data_cnt = 1 /\ q.proto_type = b /\ q.data = p.data /\ q.data_len = p.data_len
        /\ q.proto_stat = IF IsAck(b) THEN "WAIT_CRC" ELSE "WAIT_DATA"
    BY <2>1, <2>2 DEF ProtoBuff
  <2>6. \A i \in DataIndex : q.data[i] = 0
    BY <2>2, <2>5, ProtoFrameAssumption DEF Coherent, DataIndex
  <2> QED
    BY <2>2, <2>4, <2>5, <2>6, ProtoFrameAssumption, SMTT(30) DEF Coherent, DataIndex, Byte
<1>6. CASE p.proto_stat = "WAIT_DATA" /\ Room(p)
  <2>1. q = [p EXCEPT !.data_crc = AddByte(p.data_crc, b),
                      !.data[p.data_cnt - 1] = b,
                      !.data_cnt = p.data_cnt + 1,
                      !.proto_stat = IF p.data_len = p.data_cnt + 1
                                     THEN "WAIT_CRC" ELSE "WAIT_DATA"]
    BY <1>6 DEF Advance, AdvanceData
  <2>2. /\ p.data_cnt \in 1 .. (p.data_len - 1)
        /\ p.data_len \in 2 .. (ByteMod - 1)
        /\ ~IsAck(p.proto_type)
    BY <1>6, ProtoFrameAssumption DEF Coherent, Room, ProtoBuff, Byte
  <2>3. AddByte(p.data_crc, b) \in Byte
    BY AddByteType DEF ProtoBuff
  <2>4. p.data_cnt - 1 \in DataIndex
    BY <2>2, ProtoFrameAssumption DEF DataIndex
  <2>5. q \in ProtoBuff
    <3>1. p.data_cnt + 1 \in Byte
      BY <2>2, ProtoFrameAssumption DEF Byte
    <3>2. [p.data EXCEPT ![p.data_cnt - 1] = b] \in [DataIndex -> Byte]
      BY <2>4 DEF ProtoBuff
    <3> QED
      BY <2>1, <2>3, <3>1, <3>2 DEF ProtoBuff, ProtoStat
  <2>6. /\ q.data_cnt = p.data_cnt + 1 /\ q.proto_type = p.proto_type
        /\ q.data_len = p.data_len
        /\ q.data = [p.data EXCEPT ![p.data_cnt - 1] = b]
        /\ q.proto_stat = IF p.data_len = p.data_cnt + 1 THEN "WAIT_CRC" ELSE "WAIT_DATA"
    BY <2>1 DEF ProtoBuff
  <2>7. \A i \in DataIndex : i + 1 >= q.data_cnt => q.data[i] = 0
    <3>1. SUFFICES ASSUME NEW i \in DataIndex, i + 1 >= q.data_cnt
                   PROVE  q.data[i] = 0
      OBVIOUS
    <3>2. i # p.data_cnt - 1 /\ i + 1 >= p.data_cnt
      BY <2>2, <2>6, <3>1, ProtoFrameAssumption DEF DataIndex
    <3>3. p.data[i] = 0
      BY <3>2 DEF Coherent
    <3> QED
      BY <2>6, <3>2, <3>3 DEF ProtoBuff
  <2> QED
    BY <2>2, <2>5, <2>6, <2>7, ProtoFrameAssumption, SMTT(30) DEF Coherent
<1>7. CASE ~Room(p) /\ p.proto_stat \in {"WAIT_TYPE", "WAIT_DATA"}
  BY <1>7, WedgedWritesNothing DEF Wedged
<1>8. CASE p.proto_stat = "WAIT_FF" /\ b # SOH_FF
  <2>1. q = p
    BY <1>8 DEF Advance
  <2> QED
    BY <2>1
<1>9. CASE Resets(p, b)
  BY <1>9, ResetsWritesNothing
<1> QED
  BY <1>1, <1>2, <1>3, <1>4, <1>5, <1>6, <1>7, <1>8, <1>9 DEF ProtoBuff, ProtoStat, Resets
-----------------------------------------------------------------------------
\* A set of naturals has a least element: of the sets 0 .. m, m in S, there is
\* a smallest.
LEMMA LeastElement ==
    ASSUME NEW S \in SUBSET Nat, S # {}
    PROVE  \E j \in S : \A m \in S : j <= m
<1> DEFINE T == {0 .. m : m \in S}
<1>1. T \subseteq FiniteSubsetsOf(Nat) /\ T # {}
  <2>1. ASSUME NEW m \in S PROVE 0 .. m \in FiniteSubsetsOf(Nat)
    <3>1. 0 .. m \subseteq Nat
      BY SMT
    <3>2. IsFiniteSet(0 .. m)
      BY FS_Interval
    <3> QED
      BY <3>1, <3>2 DEF FiniteSubsetsOf
  <2> QED
    BY <2>1
<1>2. \E X \in T : \A Y \in T : <<Y, X>> \notin StrictSubsetOrdering(Nat)
  BY <1>1, WFMin, FS_StrictSubsetOrderingWellFounded
<1>3. PICK j \in S : \A Y \in T : <<Y, 0 .. j>> \notin StrictSubsetOrdering(Nat)
  BY <1>2
<1>4. ASSUME NEW m \in S, m < j PROVE FALSE
  <2>1. <<0 .. m, 0 .. j>> \notin StrictSubsetOrdering(Nat)
    BY <1>3
  <2>2. 0 .. m \subseteq 0 .. j /\ j \in 0 .. j /\ j \notin 0 .. m
    BY <1>4
  <2> QED
    BY <2>1, <2>2 DEF StrictSubsetOrdering
<1> QED
  BY <1>4

\* f holds the sums of the first bytes of s, up to the n-th.
SumsUpTo(f, s, n) ==
    /\ DOMAIN f = 0 .. n
    /\ f[0] = 0
    /\ \A i \in 1 .. n : f[i] = AddByte(f[i - 1], s[i])

\* There are such sums for every sequence of bytes ...
LEMMA SumsExist ==
    ASSUME NEW s \in Seq(Byte)
    PROVE  \E f \in [0 .. Len(s) -> Byte] : SumsUpTo(f, s, Len(s))
<1> DEFINE Lacks == {n \in 0 .. Len(s) : ~\E f \in [0 .. n -> Byte] : SumsUpTo(f, s, n)}
<1>1. SUFFICES ASSUME Lacks # {} PROVE FALSE
  OBVIOUS
<1>2. PICK n \in Lacks : \A m \in Lacks : n <= m
  <2>1. Lacks \in SUBSET Nat
    OBVIOUS
  <2> HIDE DEF Lacks
  <2> QED
    BY <1>1, <2>1, LeastElement
<1>3. CASE n = 0
  <2>1. [i \in 0 .. 0 |-> 0] \in [0 .. 0 -> Byte]
    BY ProtoFrameAssumption DEF Byte
  <2>2. SumsUpTo([i \in 0 .. 0 |-> 0], s, 0)
    BY DEF SumsUpTo
  <2> QED
    BY <1>2, <1>3, <2>1, <2>2
<1>4. CASE n > 0
  <2>1. n - 1 \in 0 .. Len(s) /\ n - 1 \notin Lacks
    BY <1>2, <1>4
  <2>2. PICK f \in [0 .. (n - 1) -> Byte] : SumsUpTo(f, s, n - 1)
    BY <2>1
  <2> DEFINE g == [i \in 0 .. n |-> IF i = n THEN AddByte(f[n - 1], s[n]) ELSE f[i]]
  <2>3. AddByte(f[n - 1], s[n]) \in Byte
    BY <1>4, AddByteType
  <2>4. g \in [0 .. n -> Byte]
    BY <2>3, <1>4
  <2>5. SumsUpTo(g, s, n)
    BY <2>2, <1>4 DEF SumsUpTo
  <2> QED
    BY <1>2, <2>4, <2>5
<1> QED
  BY <1>2, <1>3, <1>4

\* ... and they are unique.
LEMMA SumsUnique ==
    ASSUME NEW s, NEW n \in Nat, NEW f, NEW g, SumsUpTo(f, s, n), SumsUpTo(g, s, n)
    PROVE  \A i \in 0 .. n : f[i] = g[i]
<1> DEFINE Differ == {i \in 0 .. n : f[i] # g[i]}
<1>1. SUFFICES ASSUME Differ # {} PROVE FALSE
  OBVIOUS
<1>2. PICK i \in Differ : \A m \in Differ : i <= m
  <2>1. Differ \in SUBSET Nat
    OBVIOUS
  <2> HIDE DEF Differ
  <2> QED
    BY <1>1, <2>1, LeastElement
<1>3. i # 0
  BY DEF SumsUpTo
<1>4. i - 1 \in 0 .. n /\ i - 1 \notin Differ
  BY <1>2, <1>3
<1>5. f[i - 1] = g[i - 1]
  BY <1>4
<1> QED
  BY <1>3, <1>5 DEF SumsUpTo

\* The recursive function of Checksum is what it is written to be.
LEMMA ChecksumIs ==
    ASSUME NEW s \in Seq(Byte), NEW f, SumsUpTo(f, s, Len(s))
    PROVE  Checksum(s) = f[Len(s)]
<1> DEFINE Is(h) == h = [n \in 0 .. Len(s) |-> IF n = 0 THEN 0 ELSE AddByte(h[n - 1], s[n])]
<1>1. PICK g \in [0 .. Len(s) -> Byte] : SumsUpTo(g, s, Len(s))
  BY SumsExist
<1>2. Is(g)
  BY <1>1 DEF SumsUpTo
<1>3. Checksum(s) = (CHOOSE h : Is(h))[Len(s)]
  BY DEF Checksum
<1>4. PICK h : h = CHOOSE k : Is(k)
  OBVIOUS
<1>5. Is(h)
  BY <1>2, <1>4
<1>6. SumsUpTo(h, s, Len(s))
  BY <1>5 DEF SumsUpTo
<1> QED
  BY <1>3, <1>4, <1>6, SumsUnique

\* No bytes sum up to zero.
LEMMA ChecksumNone == Checksum(<<>>) = 0
<1>1. SumsUpTo([i \in 0 .. 0 |-> 0], <<>>, 0)
  BY DEF SumsUpTo
<1>2. <<>> \in Seq(Byte) /\ Len(<<>>) = 0
  OBVIOUS
<1> QED
  BY <1>1, <1>2, ChecksumIs

\* One byte more is added.
LEMMA ChecksumMore ==
    ASSUME NEW s \in Seq(Byte), NEW b \in Byte
    PROVE  Checksum(s) \in Byte /\ Checksum(Append(s, b)) = AddByte(Checksum(s), b)
<1>1. PICK f \in [0 .. Len(Append(s, b)) -> Byte] : SumsUpTo(f, Append(s, b), Len(Append(s, b)))
  BY SumsExist
<1>2. Len(Append(s, b)) = Len(s) + 1
  OBVIOUS
<1> DEFINE g == [i \in 0 .. Len(s) |-> f[i]]
<1>3. SumsUpTo(g, s, Len(s))
  BY <1>1, <1>2 DEF SumsUpTo
<1>4. Checksum(s) = f[Len(s)] /\ f[Len(s)] \in Byte
  BY <1>1, <1>2, <1>3, ChecksumIs
<1>5. Checksum(Append(s, b)) = f[Len(s) + 1]
  BY <1>1, <1>2, ChecksumIs
<1> QED
  BY <1>1, <1>2, <1>4, <1>5 DEF SumsUpTo

-----------------------------------------------------------------------------
\* What SubSeq takes.
LEMMA SubSeqIs ==
    ASSUME NEW r \in Seq(Byte), NEW m \in Nat, NEW n \in Nat, m >= 1, n + 1 >= m, n <= Len(r)
    PROVE  /\ SubSeq(r, m, n) \in Seq(Byte)
           /\ Len(SubSeq(r, m, n)) = n - m + 1
           /\ \A k \in 1 .. n - m + 1 : SubSeq(r, m, n)[k] = r[m + k - 1]
  OBVIOUS

\* The bytes from the m-th to the n-th, and one more.
LEMMA SubSeqMore ==
    ASSUME NEW r \in Seq(Byte), NEW m \in Nat, NEW n \in Nat, m >= 1, n + 1 >= m, n < Len(r)
    PROVE  SubSeq(r, m, n + 1) = Append(SubSeq(r, m, n), r[n + 1])
  OBVIOUS

\* The bytes s stand behind the header of the frame under way: the parser's
\* fields are what these bytes say, and its sum is their checksum.
Body(p, s) ==
    /\ s \in Seq(Byte)
    /\ p.proto_stat = "WAIT_LEN" => s = <<>>
    /\ p.proto_stat \in {"WAIT_TYPE", "WAIT_DATA", "WAIT_CRC"} =>
         /\ Len(s) = p.data_cnt + 1
         /\ s[1] = p.data_len
         /\ p.data_cnt >= 1 => s[2] = p.proto_type
         /\ p.data_crc = Checksum(s)
         /\ \A i \in DataIndex : i + 1 < p.data_cnt => p.data[i] = s[i + 3]

\* A byte the parser takes behind the header is one more byte of the body.
LEMMA BodyGrows ==
    ASSUME NEW p \in ProtoBuff, NEW b \in Byte, NEW s, Coherent(p), ~Wedged(p),
           p.proto_stat \in {"WAIT_LEN", "WAIT_TYPE", "WAIT_DATA"}, Body(p, s)
    PROVE  Body(Advance(p, b), Append(s, b))
<1> DEFINE q == Advance(p, b)
           t == Append(s, b)
<1>1. s \in Seq(Byte) /\ t \in Seq(Byte) /\ Len(t) = Len(s) + 1 /\ t[Len(s) + 1] = b
  BY DEF Body
<1>2. \A k \in 1 .. Len(s) : t[k] = s[k]
  BY <1>1
<1>3. Checksum(t) = AddByte(Checksum(s), b)
  BY <1>1, ChecksumMore
<1>4. CASE p.proto_stat = "WAIT_LEN"
  <2>1. q = [p EXCEPT !.data_len = b, !.data_crc = b, !.proto_stat = "WAIT_TYPE"]
    BY <1>4 DEF Advance, AdvanceLen
  <2>2. q.data_len = b /\ q.data_crc = b /\ q.proto_stat = "WAIT_TYPE" /\ q.data_cnt = 0
    BY <1>4, <2>1 DEF ProtoBuff, Coherent, ProtoReset
  <2>3. s = <<>> /\ Len(s) = 0
    BY <1>4 DEF Body
  <2>4. Checksum(t) = b
    BY <1>3, <2>3, ChecksumNone, ProtoFrameAssumption DEF AddByte, Byte
  <2> QED
    BY <1>1, <2>2, <2>3, <2>4, ProtoFrameAssumption DEF Body, DataIndex
<1>5. CASE p.proto_stat = "WAIT_TYPE"
  <2>1. Room(p) /\ p.data_cnt = 0
    BY <1>5 DEF Wedged, Coherent
  <2>2. q = [p EXCEPT !.data_crc = AddByte(p.data_crc, b),
                      !.data_cnt = p.data_cnt + 1,
                      !.proto_type = b,
                      !.proto_stat = IF IsAck(b) THEN "WAIT_CRC" ELSE "WAIT_DATA"]
    BY <1>5, <2>1 DEF Advance, AdvanceType
  <2>3. /\ q.data_len = p.data_len /\ q.data_crc = AddByte(p.data_crc, b)
        /\ q.proto_type = b /\ q.data_cnt = 1
        /\ q.proto_stat \in {"WAIT_CRC", "WAIT_DATA"}
    BY <2>1, <2>2 DEF ProtoBuff
  <2>4. Len(s) = 1 /\ s[1] = p.data_len /\ p.data_crc = Checksum(s)
    BY <1>5, <2>1 DEF Body
  <2>5. t[1] = q.data_len /\ t[2] = b
    BY <1>1, <1>2, <2>3, <2>4
  <2> QED
    BY <1>1, <1>3, <2>3, <2>4, <2>5, ProtoFrameAssumption DEF Body, DataIndex
<1>6. CASE p.proto_stat = "WAIT_DATA"
  <2>1. Room(p) /\ p.data_cnt \in 1 .. (p.data_len - 1) /\ p.data_len \in Nat
    BY <1>6, ProtoFrameAssumption DEF Wedged, Coherent, Room, ProtoBuff, Byte
  <2>2. q = [p EXCEPT !.data_crc = AddByte(p.data_crc, b),
                      !.data[p.data_cnt - 1] = b,
                      !.data_cnt = p.data_cnt + 1,
                      !.proto_stat = IF p.data_len = p.data_cnt + 1
                                     THEN "WAIT_CRC" ELSE "WAIT_DATA"]
    BY <1>6, <2>1 DEF Advance, AdvanceData
  <2>3. /\ q.data_len = p.data_len /\ q.data_crc = AddByte(p.data_crc, b)
        /\ q.proto_type = p.proto_type /\ q.data_cnt = p.data_cnt + 1
        /\ q.data = [p.data EXCEPT ![p.data_cnt - 1] = b]
        /\ q.proto_stat \in {"WAIT_CRC", "WAIT_DATA"}
    BY <2>2 DEF ProtoBuff
  <2>4. /\ Len(s) = p.data_cnt + 1 /\ s[1] = p.data_len /\ s[2] = p.proto_type
        /\ p.data_crc = Checksum(s)
        /\ \A i \in DataIndex : i + 1 < p.data_cnt => p.data[i] = s[i + 3]
    BY <1>6, <2>1 DEF Body
  <2>5. t[1] = q.data_len /\ t[2] = q.proto_type
    BY <1>2, <2>1, <2>3, <2>4
  <2>6. ASSUME NEW i \in DataIndex, i + 1 < q.data_cnt
        PROVE  q.data[i] = t[i + 3]
    <3>1. i \in Nat /\ i <= p.data_cnt - 1
      BY <2>1, <2>3, <2>6, ProtoFrameAssumption DEF DataIndex
    <3>2. CASE i = p.data_cnt - 1
      BY <1>1, <2>1, <2>3, <2>4, <3>2 DEF ProtoBuff
    <3>3. CASE i + 1 < p.data_cnt
      <4>1. q.data[i] = p.data[i]
        BY <2>1, <2>3, <3>1, <3>3 DEF ProtoBuff
      <4>2. t[i + 3] = s[i + 3]
        BY <1>2, <2>1, <2>4, <3>1, <3>3
      <4> QED
        BY <2>4, <3>3, <4>1, <4>2
    <3>4. i = p.data_cnt - 1 \/ i + 1 < p.data_cnt
      BY <2>1, <3>1
    <3> QED
      BY <3>2, <3>3, <3>4, Zenon
  <2> QED
    BY <1>1, <1>3, <2>1, <2>3, <2>4, <2>5, <2>6 DEF Body
<1> QED
  BY <1>4, <1>5, <1>6
=============================================================================
