-------------------------- MODULE UartThread_proofs --------------------------
(***************************************************************************)
(* Proofs about UartThread for every size of byte and chunk and every set  *)
(* of transmissions.                                                       *)
(***************************************************************************)
EXTENDS UartThread, ProtoFrame_proofs

\* After the first frame of a chunk the parser waits for a checksum for ever:
\* no byte moves it on and the reset goes to the other buffer.
StuckAtChecksum == handled # <<>> => pb.proto_stat = "WAIT_CRC"

\* OneFramePerChunk is not inductive by itself: that the buffer keeps the
\* frame follows from where the parser is stuck.
IInv == TypeOK /\ BuffersApart /\ OneFramePerChunk /\ StuckAtChecksum

\* The invariant holds at first.
LEMMA InitIInv == Init => IInv
<1> SUFFICES ASSUME Init PROVE IInv
  OBVIOUS
<1>1. TypeOK
  BY ResetCoherent, UartThreadAssumption DEF Init, TypeOK
<1>2. BuffersApart
  BY ResetCoherent DEF Init, BuffersApart
<1>3. OneFramePerChunk /\ StuckAtChecksum
  BY DEF Init, OneFramePerChunk, StuckAtChecksum
<1> QED
  BY <1>1, <1>2, <1>3 DEF IInv

\* Every step keeps it.
LEMMA NextIInv == IInv /\ [Next]_vars => IInv'
<1> SUFFICES ASSUME IInv, [Next]_vars PROVE IInv'
  OBVIOUS
<1> USE DEF IInv
<1>1. CASE Transmit
  <2>1. PICK bytes \in Transmissions : tty' = tty \o bytes
    BY <1>1 DEF Transmit
  <2>2. bytes \in Seq(Byte)
    BY UartThreadAssumption
  <2>3. tty' \in Seq(Byte)
    BY <2>1, <2>2 DEF TypeOK
  <2>4. sends' \in 0 .. MaxSends
    BY <1>1, UartThreadAssumption DEF Transmit, TypeOK
  <2> QED
    BY <1>1, <2>3, <2>4 DEF Transmit, TypeOK, BuffersApart, OneFramePerChunk, StuckAtChecksum
<1>2. CASE SelectFails
  BY <1>2 DEF SelectFails, TypeOK, BuffersApart, OneFramePerChunk, StuckAtChecksum
<1>3. CASE Read
  <2>1. PICK n \in 0 .. ReadMax : /\ n <= Len(tty)
                                  /\ chunk' = SubSeq(tty, 1, n)
                                  /\ tty' = SubSeq(tty, n + 1, Len(tty))
    BY <1>3 DEF Read
  <2>2. chunk' \in Seq(Byte) /\ Len(chunk') <= ReadMax
    BY <2>1, UartThreadAssumption DEF TypeOK
  <2>3. tty' \in Seq(Byte)
    BY <2>1, UartThreadAssumption DEF TypeOK
  <2> QED
    BY <1>3, <2>2, <2>3 DEF Read, TypeOK, BuffersApart, OneFramePerChunk, StuckAtChecksum
<1>4. CASE Accept
  <2>1. TypeOK' /\ BuffersApart'
    BY <1>4, ResetCoherent DEF Accept, TypeOK, BuffersApart
  <2>2. OneFramePerChunk' /\ StuckAtChecksum'
    BY <1>4 DEF Accept, OneFramePerChunk, StuckAtChecksum
  <2> QED
    BY <2>1, <2>2
<1>5. CASE Flush
  BY <1>5 DEF Flush, TypeOK, BuffersApart, OneFramePerChunk, StuckAtChecksum
<1>6. CASE ParseByte
  <2> DEFINE byte == Head(left)
  <2>1. /\ left # <<>> /\ pc = "parse"
        /\ pb' = Advance(pb, byte)
        /\ g_proto_buff' = IF Resets(pb, byte) THEN ProtoReset ELSE g_proto_buff
        /\ left' = Tail(left)
        /\ UNCHANGED <<sends, tty, chunk>>
    BY <1>6 DEF ParseByte
  <2>2. byte \in Byte /\ left' \in Seq(Byte)
    BY <2>1 DEF TypeOK
  <2>3. pb' \in ProtoBuff /\ Coherent(pb')
    BY <2>1, <2>2, AdvanceCoherent DEF TypeOK, BuffersApart
  <2>4. BuffersApart'
    BY <2>1, <2>3 DEF BuffersApart
  <2>5. CASE Completes(pb, byte)
    <3>1. handled' = Append(handled, FrameOf(pb)) /\ pc' = "handling"
      BY <1>6, <2>5 DEF ParseByte
    <3>2. pb.proto_stat = "WAIT_CRC" /\ pb' = pb
      BY <2>1, <2>5, ResetsWritesNothing DEF Completes, Resets
    <3>3. FrameOf(pb) \in Frame
      BY DEF TypeOK, FrameOf, Frame, ProtoBuff
    <3>4. TypeOK'
      BY <2>1, <2>2, <2>3, <2>4, <3>1, <3>3, ResetCoherent DEF TypeOK, BuffersApart
    <3>5. OneFramePerChunk'
      <4>1. handled \in Seq(Frame)
        BY DEF TypeOK
      <4> HIDE DEF FrameOf
      <4> QED
        BY <4>1, <3>1, <3>2, <3>3 DEF OneFramePerChunk
    <3> QED
      BY <2>4, <3>2, <3>4, <3>5 DEF StuckAtChecksum
  <2>6. CASE ~Completes(pb, byte)
    <3>1. UNCHANGED <<handled, pc>>
      BY <1>6, <2>6 DEF ParseByte
    <3>2. TypeOK'
      BY <2>1, <2>2, <2>3, <2>4, <3>1, ResetCoherent DEF TypeOK, BuffersApart
    <3>3. handled # <<>> => pb' = pb
      BY <2>1, ResetsWritesNothing DEF StuckAtChecksum, Resets
    <3>4. handled = <<>> => Len(handled) = 0
      OBVIOUS
    <3> QED
      BY <2>4, <3>1, <3>2, <3>3, <3>4 DEF OneFramePerChunk, StuckAtChecksum
  <2> QED
    BY <2>5, <2>6
<1>7. CASE EndChunk
  BY <1>7 DEF EndChunk, TypeOK, BuffersApart, OneFramePerChunk, StuckAtChecksum
<1>8. CASE HandlerReturns
  BY <1>8 DEF HandlerReturns, TypeOK, BuffersApart, OneFramePerChunk, StuckAtChecksum
<1>9. CASE UNCHANGED vars
  BY <1>9 DEF vars, TypeOK, BuffersApart, OneFramePerChunk, StuckAtChecksum
<1> QED
  BY <1>1, <1>2, <1>3, <1>4, <1>5, <1>6, <1>7, <1>8, <1>9 DEF Next, Thread

-----------------------------------------------------------------------------
\* The variables of the event thread keep their types: in particular no
\* counter of the private parser wraps although it is never reset.
THEOREM TypeCorrect == Spec => []TypeOK
  BY InitIInv, NextIInv, PTL DEF Spec, IInv

\* Between two zeroings of the private buffer at most one frame is handled,
\* any number of times: a second frame in one chunk is lost.
THEOREM OneFrame == Spec => []OneFramePerChunk
  BY InitIInv, NextIInv, PTL DEF Spec, IInv

\* The buffer proto_reset is applied to is never the one that holds a frame.
THEOREM ResetMissesBuffer == Spec => []BuffersApart
  BY InitIInv, NextIInv, PTL DEF Spec, IInv
-----------------------------------------------------------------------------
(***************************************************************************)
(* ChunkMeaning.  What the parser knows after n bytes of a chunk, told     *)
(* from these bytes: the invariant that gives it at the chunk's end.       *)
(***************************************************************************)

\* No AA behind FF 55 among the first n bytes; the first one stands at aa.
NoAA(bytes, n) == \A k \in 3 .. n : bytes[k] # SOH_AA
FirstAA(bytes, aa) == aa \in 3 .. Len(bytes) /\ bytes[aa] = SOH_AA /\ NoAA(bytes, aa - 1)

\* The bytes from the first of m .. n on that equal the checksum the parser p
\* has: for each of them the frame is handled.
Hits(p, bytes, m, n) == {k \in m .. n : bytes[k] = p.data_crc}

\* The header of the n bytes ends at aa; the frame was handled h times.
Behind(p, bytes, aa, n, h) ==
    LET last == aa + 1 + p.data_cnt IN
      \/ p.proto_stat = "WAIT_LEN" /\ n = aa /\ h = 0
      \/ /\ p.proto_stat \in {"WAIT_TYPE", "WAIT_DATA"}
         /\ n = last \/ (n >= last /\ Wedged(p))
         /\ Body(p, SubSeq(bytes, aa + 1, last))
         /\ h = 0
      \/ /\ p.proto_stat = "WAIT_CRC"
         /\ n >= last
         /\ Body(p, SubSeq(bytes, aa + 1, last))
         /\ h = Cardinality(Hits(p, bytes, last + 1, n))

Told(p, bytes, n, h) ==
    \/ n = 0 /\ p.proto_stat = "WAIT_FF" /\ h = 0
    \/ n = 1 /\ p.proto_stat = "WAIT_55" /\ h = 0
    \/ n >= 2 /\ p.proto_stat = "WAIT_AA" /\ NoAA(bytes, n) /\ h = 0
    \/ \E aa \in 3 .. n : FirstAA(bytes, aa) /\ Behind(p, bytes, aa, n, h)

\* How many bytes of the chunk were parsed.
Done == Len(chunk) - Len(left)

ChunkTold ==
    pc \in {"parse", "handling"} =>
        /\ StartsFrame(chunk)
        /\ Len(left) <= Len(chunk)
        /\ \A k \in 1 .. Len(left) : left[k] = chunk[Done + k]
        /\ Told(pb, chunk, Done, Len(handled))

\* The fields the parser compares are of their types.
LEMMA CntType ==
    ASSUME NEW p \in ProtoBuff
    PROVE  p.data_cnt \in Nat /\ p.data_len \in Nat /\ p.proto_stat \in ProtoStat
  BY ProtoFrameAssumption DEF ProtoBuff, Byte

\* One more byte that may be a hit.
LEMMA HitsMore ==
    ASSUME NEW p, NEW bytes, NEW m \in Nat, NEW n \in Nat, n + 1 >= m
    PROVE  /\ Cardinality(Hits(p, bytes, m, n)) \in Nat
           /\ Cardinality(Hits(p, bytes, m, n + 1))
                = IF bytes[n + 1] = p.data_crc THEN Cardinality(Hits(p, bytes, m, n)) + 1
                                               ELSE Cardinality(Hits(p, bytes, m, n))
<1> DEFINE H == Hits(p, bytes, m, n)
<1>1. IsFiniteSet(H)
  <2>1. IsFiniteSet(m .. n)
    BY FS_Interval
  <2>2. H \subseteq m .. n
    BY DEF Hits
  <2> QED
    BY <2>1, <2>2, FS_Subset
<1>2. Cardinality(H) \in Nat
  BY <1>1, FS_CardinalityType
<1>3. CASE bytes[n + 1] = p.data_crc
  <2>1. Hits(p, bytes, m, n + 1) = H \cup {n + 1}
    BY <1>3 DEF Hits
  <2>2. n + 1 \notin H
    BY DEF Hits
  <2>3. Cardinality(H \cup {n + 1}) = Cardinality(H) + 1
    BY <1>1, <2>2, FS_AddElement
  <2> QED
    BY <1>2, <1>3, <2>1, <2>3
<1>4. CASE bytes[n + 1] # p.data_crc
  <2>1. Hits(p, bytes, m, n + 1) = H
    BY <1>4 DEF Hits
  <2> QED
    BY <1>2, <1>4, <2>1
<1> QED
  BY <1>2, <1>3, <1>4

\* No byte of nothing equals the checksum.
LEMMA HitsNone ==
    ASSUME NEW p, NEW bytes, NEW m \in Nat, NEW n \in Nat, n < m
    PROVE  Cardinality(Hits(p, bytes, m, n)) = 0
<1>1. Hits(p, bytes, m, n) = {}
  BY DEF Hits
<1> QED
  BY <1>1, FS_EmptySet

\* Behind the header, one byte more.
LEMMA BehindMore ==
    ASSUME NEW p \in ProtoBuff, NEW c \in Seq(Byte), NEW n \in Nat, NEW h \in Nat,
           NEW aa \in 3 .. n, NEW b \in Byte,
           Coherent(p), n < Len(c), b = c[n + 1], Behind(p, c, aa, n, h)
    PROVE  Behind(Advance(p, b), c, aa, n + 1, IF Completes(p, b) THEN h + 1 ELSE h)
<1> DEFINE q == Advance(p, b)
           last == aa + 1 + p.data_cnt
           s == SubSeq(c, aa + 1, last)
<1>1. /\ p.data_cnt \in Nat /\ p.data_len \in Nat /\ p.proto_stat \in ProtoStat
      /\ q \in ProtoBuff /\ q.data_cnt \in Nat
  BY CntType, AdvanceCoherent
<1>2. CASE p.proto_stat = "WAIT_LEN"
  <2>1. n = aa /\ h = 0 /\ ~Completes(p, b) /\ ~Wedged(p)
    BY <1>2 DEF Behind, Completes, Wedged
  <2>2. q = [p EXCEPT !.data_len = b, !.data_crc = b, !.proto_stat = "WAIT_TYPE"]
    BY <1>2 DEF Advance, AdvanceLen
  <2>3. q.proto_stat = "WAIT_TYPE" /\ q.data_cnt = 0
    BY <1>2, <2>2 DEF ProtoBuff, Coherent, ProtoReset
  <2>4. Body(p, <<>>)
    BY <1>2 DEF Body
  <2>5. Body(q, Append(<<>>, b))
    BY <1>2, <2>1, <2>4, BodyGrows
  <2>6. SubSeq(c, aa + 1, aa + 1) = Append(<<>>, b)
    <3>1. aa \in Nat /\ aa + 1 \in Nat /\ aa + 1 >= 1 /\ aa < Len(c) /\ b = c[aa + 1]
      BY <2>1
    <3>2. SubSeq(c, aa + 1, aa + 1) = Append(SubSeq(c, aa + 1, aa), c[aa + 1])
      BY <3>1, SubSeqMore
    <3>3. SubSeq(c, aa + 1, aa) = <<>>
      BY <3>1
    <3> QED
      BY <3>1, <3>2, <3>3
  <2>7. n + 1 = aa + 1 + q.data_cnt
    BY <2>1, <2>3
  <2>8. Body(q, SubSeq(c, aa + 1, aa + 1 + q.data_cnt))
    BY <2>1, <2>5, <2>6, <2>7
  <2> QED
    BY <2>1, <2>3, <2>7, <2>8 DEF Behind
<1>3. CASE p.proto_stat \in {"WAIT_TYPE", "WAIT_DATA"} /\ Wedged(p)
  <2>1. q = p /\ ~Completes(p, b)
    BY <1>3, WedgedWritesNothing
  <2>2. n >= last /\ Body(p, s) /\ h = 0
    BY <1>1, <1>3 DEF Behind
  <2>3. n + 1 >= last
    BY <1>1, <2>2
  <2> QED
    BY <1>3, <2>1, <2>2, <2>3 DEF Behind
<1>4. CASE p.proto_stat \in {"WAIT_TYPE", "WAIT_DATA"} /\ ~Wedged(p)
  <2>1. n = last /\ Body(p, s) /\ h = 0
    BY <1>4 DEF Behind
  <2>2. ~Completes(p, b) /\ Room(p)
    BY <1>4 DEF Completes, Wedged
  <2>3. q.data_cnt = p.data_cnt + 1 /\ q.proto_stat \in {"WAIT_CRC", "WAIT_DATA"}
    <3>1. CASE p.proto_stat = "WAIT_TYPE"
      BY <3>1, <2>2 DEF Advance, AdvanceType, ProtoBuff
    <3>2. CASE p.proto_stat = "WAIT_DATA"
      BY <3>2, <2>2 DEF Advance, AdvanceData, ProtoBuff
    <3> QED
      BY <1>4, <3>1, <3>2
  <2>4. Body(q, Append(s, b))
    BY <1>4, <2>1, BodyGrows
  <2>5. SubSeq(c, aa + 1, n + 1) = Append(s, b)
    <3>1. aa + 1 \in Nat /\ aa + 1 >= 1 /\ n + 1 >= aa + 1
      OBVIOUS
    <3> QED
      BY <2>1, <3>1, SubSeqMore
  <2>6. n + 1 = aa + 1 + q.data_cnt
    BY <1>1, <2>1, <2>3
  <2>7. Body(q, SubSeq(c, aa + 1, aa + 1 + q.data_cnt))
    BY <2>4, <2>5, <2>6
  <2>8. Cardinality(Hits(q, c, (n + 1) + 1, n + 1)) = 0
    BY HitsNone
  <2>9. Cardinality(Hits(q, c, (aa + 1 + q.data_cnt) + 1, n + 1)) = 0
    BY <2>6, <2>8
  <2>10. n + 1 >= aa + 1 + q.data_cnt
    BY <2>6
  <2> QED
    BY <2>1, <2>2, <2>3, <2>6, <2>7, <2>9, <2>10 DEF Behind
<1>5. CASE p.proto_stat = "WAIT_CRC"
  <2>1. n >= last /\ Body(p, s) /\ h = Cardinality(Hits(p, c, last + 1, n))
    BY <1>5 DEF Behind
  <2>2. q = p
    BY <1>5, ResetsWritesNothing DEF Resets
  <2>3. Completes(p, b) <=> c[n + 1] = p.data_crc
    BY <1>5 DEF Completes
  <2>4. last + 1 \in Nat /\ n + 1 >= last + 1 /\ n + 1 >= last
    BY <1>1, <2>1
  <2>5. Cardinality(Hits(p, c, last + 1, n + 1)) = IF Completes(p, b) THEN h + 1 ELSE h
    <3> HIDE DEF last
    <3> QED
      BY <2>1, <2>3, <2>4, HitsMore
  <2> QED
    BY <1>5, <2>1, <2>2, <2>4, <2>5 DEF Behind
<1>6. p.proto_stat \in {"WAIT_LEN", "WAIT_TYPE", "WAIT_DATA", "WAIT_CRC"}
  BY DEF Behind
<1> QED
  BY <1>2, <1>3, <1>4, <1>5, <1>6

\* One byte more of the chunk, wherever the parser stands.
LEMMA ToldMore ==
    ASSUME NEW p \in ProtoBuff, NEW c \in Seq(Byte), NEW n \in Nat, NEW h \in Nat, NEW b \in Byte,
           Coherent(p), StartsFrame(c), n < Len(c), b = c[n + 1], Told(p, c, n, h)
    PROVE  Told(Advance(p, b), c, n + 1, IF Completes(p, b) THEN h + 1 ELSE h)
<1> DEFINE q == Advance(p, b)
<1>1. CASE n = 0 /\ p.proto_stat = "WAIT_FF" /\ h = 0
  <2>1. b = SOH_FF
    BY <1>1 DEF StartsFrame
  <2>2. q = [p EXCEPT !.proto_stat = "WAIT_55"]
    BY <1>1, <2>1 DEF Advance
  <2>3. q.proto_stat = "WAIT_55" /\ ~Completes(p, b)
    BY <1>1, <2>2 DEF ProtoBuff, Completes
  <2> QED
    BY <1>1, <2>3 DEF Told
<1>2. CASE n = 1 /\ p.proto_stat = "WAIT_55" /\ h = 0
  <2>1. b = SOH_55
    BY <1>2 DEF StartsFrame
  <2>2. q = [p EXCEPT !.proto_stat = "WAIT_AA"]
    BY <1>2, <2>1 DEF Advance
  <2>3. q.proto_stat = "WAIT_AA" /\ ~Completes(p, b)
    BY <1>2, <2>2 DEF ProtoBuff, Completes
  <2>4. NoAA(c, n + 1)
    BY <1>2 DEF NoAA
  <2>5. n + 1 >= 2
    BY <1>2
  <2> QED
    BY <1>2, <2>3, <2>4, <2>5 DEF Told
<1>3. CASE n >= 2 /\ p.proto_stat = "WAIT_AA" /\ NoAA(c, n) /\ h = 0
  <2>1. ~Completes(p, b)
    BY <1>3 DEF Completes
  <2>2. CASE b = SOH_AA
    <3>1. q = [p EXCEPT !.proto_stat = "WAIT_LEN"]
      BY <1>3, <2>2 DEF Advance
    <3>2. q.proto_stat = "WAIT_LEN"
      BY <3>1 DEF ProtoBuff
    <3>3. n + 1 \in 3 .. n + 1 /\ FirstAA(c, n + 1)
      BY <1>3, <2>2 DEF FirstAA
    <3>4. Behind(q, c, n + 1, n + 1, 0)
      BY <3>2 DEF Behind
    <3> QED
      BY <1>3, <2>1, <3>3, <3>4 DEF Told
  <2>3. CASE b # SOH_AA
    <3>1. q = p
      BY <1>3, <2>3, ResetsWritesNothing DEF Resets
    <3>2. NoAA(c, n + 1) /\ n + 1 >= 2
      BY <1>3, <2>3 DEF NoAA
    <3> QED
      BY <1>3, <2>1, <3>1, <3>2 DEF Told
  <2> QED
    BY <2>2, <2>3
<1>4. ASSUME NEW aa \in 3 .. n, FirstAA(c, aa), Behind(p, c, aa, n, h)
      PROVE  Told(q, c, n + 1, IF Completes(p, b) THEN h + 1 ELSE h)
  <2>1. Behind(q, c, aa, n + 1, IF Completes(p, b) THEN h + 1 ELSE h)
    BY <1>4, BehindMore
  <2>2. aa \in 3 .. n + 1
    OBVIOUS
  <2> QED
    BY <1>4, <2>1, <2>2 DEF Told
<1> QED
  BY <1>1, <1>2, <1>3, <1>4 DEF Told

-----------------------------------------------------------------------------
\* A chunk without AA behind FF 55 means nothing.
LEMMA MeaningNone ==
    ASSUME NEW c \in Seq(Byte), NoAA(c, Len(c))
    PROVE  Meaning(c) = <<>>
<1>1. {k \in 3 .. Len(c) : c[k] = SOH_AA} = {}
  BY DEF NoAA
<1> QED
  BY <1>1 DEF Meaning

\* Otherwise Meaning looks behind the first AA.
LEMMA MeaningIs ==
    ASSUME NEW c \in Seq(Byte), NEW aa, FirstAA(c, aa)
    PROVE  Meaning(c) =
             LET len == c[aa + 1]
                 crc == IF IsAck(c[aa + 2]) THEN aa + 3 ELSE aa + 2 + len
                 Equal == {k \in crc .. Len(c) : c[k] = Checksum(SubSeq(c, aa + 1, crc - 1))}
             IN  IF aa + 2 <= Len(c) /\ len >= (IF IsAck(c[aa + 2]) THEN 1 ELSE 2)
                 THEN [k \in 1 .. Cardinality(Equal) |-> FrameAt(c, aa)]
                 ELSE <<>>
<1> DEFINE AAs == {k \in 3 .. Len(c) : c[k] = SOH_AA}
           first == CHOOSE k \in AAs : \A m \in AAs : k <= m
           crc(a) == IF IsAck(c[a + 2]) THEN a + 3 ELSE a + 2 + c[a + 1]
           Equal(a) == {k \in crc(a) .. Len(c) : c[k] = Checksum(SubSeq(c, a + 1, crc(a) - 1))}
           whole(a) == a + 2 <= Len(c) /\ c[a + 1] >= (IF IsAck(c[a + 2]) THEN 1 ELSE 2)
           frames(a) == [k \in 1 .. Cardinality(Equal(a)) |-> FrameAt(c, a)]
<1>1. aa \in AAs /\ \A m \in AAs : aa <= m
  BY DEF FirstAA, NoAA
<1>2. first \in AAs /\ \A m \in AAs : first <= m
  BY <1>1
<1>3. first = aa
  BY <1>1, <1>2
<1>4. AAs # {}
  BY <1>1
<1>5. Meaning(c) = IF AAs # {} /\ whole(first) THEN frames(first) ELSE <<>>
  BY Zenon DEF Meaning
<1>6. Meaning(c) = IF whole(aa) THEN frames(aa) ELSE <<>>
  <2> HIDE DEF AAs, first, whole, frames
  <2> QED
    BY <1>3, <1>4, <1>5
<1> QED
  BY <1>6, Zenon

\* What the parser is told when all of a chunk was parsed is what the chunk
\* means.
LEMMA ToldIsMeaning ==
    ASSUME NEW p \in ProtoBuff, NEW c \in Seq(Byte), NEW h \in Nat,
           Coherent(p), StartsFrame(c), Told(p, c, Len(c), h)
    PROVE  Meaning(c) = [k \in 1 .. h |-> FrameOf(p)]
<1> DEFINE n == Len(c)
<1>1. n \in Nat /\ n >= 2 /\ p.data_cnt \in Nat /\ p.data_len \in Nat
  BY CntType DEF StartsFrame
<1>2. h = 0 => [k \in 1 .. h |-> FrameOf(p)] = <<>>
  OBVIOUS
<1>3. CASE NoAA(c, n) /\ h = 0
  BY <1>2, <1>3, MeaningNone
<1>4. ASSUME NEW aa \in 3 .. n, FirstAA(c, aa), Behind(p, c, aa, n, h)
      PROVE  Meaning(c) = [k \in 1 .. h |-> FrameOf(p)]
  <2> DEFINE len == c[aa + 1]
             type == c[aa + 2]
             crc == IF IsAck(type) THEN aa + 3 ELSE aa + 2 + len
             Equal == {k \in crc .. n : c[k] = Checksum(SubSeq(c, aa + 1, crc - 1))}
             last == aa + 1 + p.data_cnt
             s == SubSeq(c, aa + 1, last)
             whole == aa + 2 <= n /\ len >= (IF IsAck(type) THEN 1 ELSE 2)
  <2>1. Meaning(c) = IF whole THEN [k \in 1 .. Cardinality(Equal) |-> FrameAt(c, aa)] ELSE <<>>
    BY <1>4, MeaningIs
  <2>2. CASE p.proto_stat = "WAIT_LEN"
    <3>1. n = aa /\ h = 0
      BY <1>4, <2>2 DEF Behind
    <3>2. ~whole
      BY <3>1
    <3> HIDE DEF whole, Equal
    <3> QED
      BY <1>2, <2>1, <3>1, <3>2
  <2>3. ASSUME p.proto_stat \in {"WAIT_TYPE", "WAIT_DATA", "WAIT_CRC"}
        PROVE  /\ n >= last /\ len = p.data_len
               /\ p.data_cnt >= 1 => type = p.proto_type
               /\ p.data_crc = Checksum(s)
               /\ \A i \in DataIndex : i + 1 < p.data_cnt => p.data[i] = c[aa + 3 + i]
    <3>1. n >= last /\ Body(p, s)
      BY <1>1, <1>4, <2>3 DEF Behind
    <3>2. /\ s \in Seq(Byte) /\ Len(s) = p.data_cnt + 1
          /\ s[1] = p.data_len
          /\ p.data_cnt >= 1 => s[2] = p.proto_type
          /\ p.data_crc = Checksum(s)
          /\ \A i \in DataIndex : i + 1 < p.data_cnt => p.data[i] = s[i + 3]
      BY <2>3, <3>1 DEF Body
    <3>3. \A k \in 1 .. p.data_cnt + 1 : s[k] = c[aa + k]
      <4>1. /\ aa + 1 \in Nat /\ last \in Nat /\ aa + 1 >= 1 /\ last + 1 >= aa + 1
            /\ last <= Len(c) /\ last - (aa + 1) + 1 = p.data_cnt + 1
        BY <1>1, <3>1
      <4>2. \A k \in 1 .. last - (aa + 1) + 1 : s[k] = c[(aa + 1) + k - 1]
        <5> HIDE DEF last
        <5> QED
          BY <4>1, SubSeqIs
      <4>3. \A k \in 1 .. p.data_cnt + 1 : (aa + 1) + k - 1 = aa + k
        OBVIOUS
      <4> HIDE DEF last, s
      <4> QED
        BY <4>1, <4>2, <4>3
    <3>4. len = p.data_len
      <4>1. 1 \in 1 .. p.data_cnt + 1
        BY <1>1
      <4> HIDE DEF s
      <4> QED
        BY <3>2, <3>3, <4>1
    <3>5. p.data_cnt >= 1 => type = p.proto_type
      <4>1. p.data_cnt >= 1 => 2 \in 1 .. p.data_cnt + 1
        BY <1>1
      <4> HIDE DEF s
      <4> QED
        BY <3>2, <3>3, <4>1
    <3>6. ASSUME NEW i \in DataIndex, i + 1 < p.data_cnt
          PROVE  p.data[i] = c[aa + 3 + i]
      <4>1. i \in Nat /\ i + 3 \in 1 .. p.data_cnt + 1 /\ aa + (i + 3) = aa + 3 + i
        BY <1>1, <3>6, ProtoFrameAssumption DEF DataIndex
      <4> HIDE DEF s
      <4> QED
        BY <3>2, <3>3, <3>6, <4>1
    <3> QED
      BY <3>1, <3>2, <3>4, <3>5, <3>6
  <2>4. CASE p.proto_stat = "WAIT_TYPE"
    <3>1. h = 0 /\ p.data_cnt = 0 /\ len = p.data_len /\ (n = last \/ Wedged(p))
      BY <1>4, <2>3, <2>4 DEF Behind, Coherent
    <3>2. Wedged(p) => len = 0
      BY <1>1, <3>1 DEF Wedged, Room
    <3>3. ~whole
      BY <3>1, <3>2
    <3> HIDE DEF whole, Equal
    <3> QED
      BY <1>2, <2>1, <3>1, <3>3
  <2>5. CASE p.proto_stat = "WAIT_DATA"
    <3>1. /\ h = 0 /\ len = p.data_len /\ type = p.proto_type /\ ~IsAck(type)
          /\ p.data_cnt \in 1 .. p.data_len
          /\ n = last \/ Wedged(p)
      BY <1>4, <2>3, <2>5 DEF Behind, Coherent
    <3>2. CASE Wedged(p)
      <4>1. len = 1
        BY <1>1, <2>5, <3>1, <3>2 DEF Wedged, Room, Coherent
      <4>2. ~whole
        BY <3>1, <4>1
      <4> HIDE DEF whole, Equal
      <4> QED
        BY <1>2, <2>1, <3>1, <4>2
    <3>3. CASE ~Wedged(p)
      <4>1. n = last /\ p.data_cnt < len
        BY <1>1, <2>5, <3>1, <3>3 DEF Wedged, Room
      <4>2. crc > n /\ crc \in Nat
        BY <1>1, <3>1, <4>1
      <4>3. Equal = {}
        <5> HIDE DEF crc
        <5> QED
          BY <1>1, <4>2
      <4>4. Cardinality(Equal) = 0
        BY <4>3, FS_EmptySet
      <4> HIDE DEF whole, Equal
      <4> QED
        BY <1>2, <2>1, <3>1, <4>4
    <3> QED
      BY <3>2, <3>3
  <2>6. CASE p.proto_stat = "WAIT_CRC"
    <3>1. /\ n >= last /\ h = Cardinality(Hits(p, c, last + 1, n))
          /\ IF IsAck(p.proto_type) THEN p.data_cnt = 1 /\ p.data_len >= 1
                                    ELSE p.data_cnt = p.data_len /\ p.data_len >= 2
      BY <1>4, <2>6 DEF Behind, Coherent
    <3>2. p.data_cnt >= 1
      BY <1>1, <2>6 DEF Coherent
    <3>3. /\ len = p.data_len /\ type = p.proto_type /\ p.data_crc = Checksum(s)
          /\ \A i \in DataIndex : i + 1 < p.data_cnt => p.data[i] = c[aa + 3 + i]
      BY <2>3, <2>6, <3>2
    <3>4. crc = last + 1 /\ crc - 1 = last
      BY <1>1, <3>1, <3>3
    <3>5. whole
      BY <1>1, <3>1, <3>2, <3>3
    <3>6. Equal = Hits(p, c, last + 1, n)
      BY <3>3, <3>4 DEF Hits
    <3>7. FrameAt(c, aa) = FrameOf(p)
      <4>1. ASSUME NEW i \in DataIndex
            PROVE  p.data[i] = IF ~IsAck(type) /\ i + 1 < len THEN c[aa + 3 + i] ELSE 0
        <5>1. CASE i + 1 < p.data_cnt
          <6>1. ~IsAck(type) /\ p.data_cnt = len
            BY <3>1, <3>3, <5>1, ProtoFrameAssumption DEF DataIndex
          <6> QED
            BY <3>3, <5>1, <6>1
        <5>2. CASE ~(i + 1 < p.data_cnt)
          <6>1. i + 1 >= p.data_cnt
            BY <1>1, <5>2, ProtoFrameAssumption DEF DataIndex
          <6>2. p.data[i] = 0
            BY <6>1 DEF Coherent
          <6>3. ~(~IsAck(type) /\ i + 1 < len)
            BY <3>1, <3>3, <5>2
          <6> HIDE DEF type, len
          <6> QED
            BY <6>2, <6>3
        <5> QED
          BY <5>1, <5>2
      <4>2. p.data = [i \in DataIndex |->
                        IF ~IsAck(c[aa + 2]) /\ i + 1 < c[aa + 1] THEN c[aa + 3 + i] ELSE 0]
        BY <4>1 DEF ProtoBuff
      <4> QED
        BY <3>3, <4>2 DEF FrameAt, FrameOf
    <3> HIDE DEF whole, Equal
    <3> QED
      BY <2>1, <3>1, <3>5, <3>6, <3>7
  <2> QED
    <3>1. p.proto_stat \in {"WAIT_LEN", "WAIT_TYPE", "WAIT_DATA", "WAIT_CRC"}
      BY <1>4 DEF Behind
    <3> QED
      BY <2>2, <2>4, <2>5, <2>6, <3>1
<1>5. n # 0 /\ n # 1
  <2> HIDE DEF n
  <2> QED
    BY <1>1
<1>6. (NoAA(c, n) /\ h = 0) \/ \E aa \in 3 .. n : FirstAA(c, aa) /\ Behind(p, c, aa, n, h)
  BY <1>5, Zenon DEF Told
<1> QED
  BY <1>3, <1>4, <1>6

-----------------------------------------------------------------------------
\* Nothing is told of no chunk.
LEMMA InitChunkTold == Init => ChunkTold
  BY DEF Init, ChunkTold

\* ChunkTold goes on with every byte, and begins anew with every chunk.
LEMMA NextChunkTold == IInv /\ ChunkTold /\ [Next]_vars => ChunkTold'
<1> SUFFICES ASSUME IInv, ChunkTold, [Next]_vars PROVE ChunkTold'
  OBVIOUS
<1>1. CASE Accept
  <2>1. /\ StartsFrame(chunk) /\ chunk' = chunk /\ left' = chunk
        /\ pb' = ProtoReset /\ handled' = <<>>
    BY <1>1 DEF Accept
  <2>2. chunk \in Seq(Byte)
    BY DEF IInv, TypeOK
  <2>3. Done' = 0
    BY <2>1, <2>2 DEF Done
  <2>4. Told(ProtoReset, chunk, 0, 0)
    BY DEF Told, ProtoReset
  <2>5. Len(handled') = 0
    BY <2>1
  <2>6. \A k \in 1 .. Len(left') : left'[k] = chunk'[Done' + k]
    BY <2>1, <2>2, <2>3
  <2>7. Len(left') <= Len(chunk')
    BY <2>1, <2>2
  <2> QED
    BY <2>1, <2>3, <2>4, <2>5, <2>6, <2>7 DEF ChunkTold, StartsFrame
<1>2. CASE ParseByte
  <2>1. PICK b : b = Head(left)
    OBVIOUS
  <2>2. /\ pc = "parse" /\ left # <<>> /\ left' = Tail(left) /\ chunk' = chunk
        /\ pb' = Advance(pb, b)
        /\ IF Completes(pb, b) THEN handled' = Append(handled, FrameOf(pb))
                               ELSE handled' = handled
    BY <1>2, <2>1 DEF ParseByte
  <2>3. /\ chunk \in Seq(Byte) /\ left \in Seq(Byte) /\ handled \in Seq(Frame)
        /\ pb \in ProtoBuff /\ Coherent(pb)
    BY DEF IInv, TypeOK, BuffersApart
  <2>4. /\ StartsFrame(chunk) /\ Len(left) <= Len(chunk)
        /\ \A k \in 1 .. Len(left) : left[k] = chunk[Done + k]
        /\ Told(pb, chunk, Done, Len(handled))
    BY <2>2 DEF ChunkTold
  <2>5. /\ Len(left) \in Nat /\ Len(left) >= 1 /\ Len(left') = Len(left) - 1
        /\ \A k \in 1 .. Len(left') : left'[k] = left[k + 1]
        /\ b = left[1] /\ b \in Byte
    BY <2>1, <2>2, <2>3
  <2>6. Done \in Nat /\ Done' = Done + 1 /\ Done < Len(chunk) /\ b = chunk[Done + 1]
    <3>1. Len(chunk) \in Nat /\ Done = Len(chunk) - Len(left) /\ Done' = Len(chunk) - Len(left')
      BY <2>2, <2>3 DEF Done
    <3>2. Done \in Nat /\ Done' = Done + 1 /\ Done < Len(chunk)
      BY <2>4, <2>5, <3>1
    <3>3. 1 \in 1 .. Len(left)
      BY <2>5
    <3> QED
      BY <2>4, <2>5, <3>2, <3>3
  <2>7. PICK n : n = Done
    OBVIOUS
  <2>8. Len(handled') = IF Completes(pb, b) THEN Len(handled) + 1 ELSE Len(handled)
    <3> HIDE DEF FrameOf
    <3>1. Completes(pb, b) => Len(Append(handled, FrameOf(pb))) = Len(handled) + 1
      BY <2>3
    <3> QED
      BY <2>2, <3>1
  <2>9. Told(Advance(pb, b), chunk, n + 1, Len(handled'))
    <3>1. Len(handled) \in Nat
      BY <2>3
    <3>2. Told(Advance(pb, b), chunk, n + 1,
               IF Completes(pb, b) THEN Len(handled) + 1 ELSE Len(handled))
      BY <2>3, <2>4, <2>5, <2>6, <2>7, <3>1, ToldMore
    <3> QED
      BY <2>8, <3>2
  <2>10. ASSUME NEW k \in 1 .. Len(left')
         PROVE  left'[k] = chunk[n + 1 + k]
    <3>1. k + 1 \in 1 .. Len(left) /\ n + (k + 1) = n + 1 + k
      BY <2>5, <2>6, <2>7
    <3> QED
      BY <2>4, <2>5, <2>7, <3>1
  <2>11. Len(left') <= Len(chunk)
    BY <2>3, <2>4, <2>5
  <2> QED
    BY <2>2, <2>4, <2>6, <2>7, <2>9, <2>10, <2>11 DEF ChunkTold, StartsFrame
<1>3. CASE Transmit \/ SelectFails \/ Read \/ Flush \/ EndChunk \/ HandlerReturns \/ UNCHANGED vars
  <2>1. \/ pc' \notin {"parse", "handling"}
        \/ pc \in {"parse", "handling"} /\ UNCHANGED <<chunk, left, pb, handled>>
        \/ pc' = pc /\ UNCHANGED <<chunk, left, pb, handled>>
    BY <1>3 DEF Transmit, SelectFails, Read, Flush, EndChunk, HandlerReturns, vars
  <2> QED
    BY <2>1 DEF ChunkTold, Done, StartsFrame
<1> QED
  BY <1>1, <1>2, <1>3 DEF Next, Thread

\* When a chunk has been parsed, exactly what it means was handled: nothing of
\* an earlier chunk shows through, and the frame is handled once for every
\* byte, from its checksum on, that equals the checksum.
THEOREM ChunkMeans == Spec => []ChunkMeaning
<1>1. IInv /\ ChunkTold => ChunkMeaning
  <2> SUFFICES ASSUME IInv, ChunkTold, pc = "parse", left = <<>>
               PROVE  handled = Meaning(chunk)
    BY DEF ChunkMeaning
  <2>1. /\ chunk \in Seq(Byte) /\ handled \in Seq(Frame)
        /\ pb \in ProtoBuff /\ Coherent(pb)
        /\ \A k \in 1 .. Len(handled) : handled[k] = FrameOf(pb)
    BY DEF IInv, TypeOK, BuffersApart, OneFramePerChunk
  <2>2. Done = Len(chunk)
    BY <2>1 DEF Done
  <2>3. StartsFrame(chunk) /\ Told(pb, chunk, Len(chunk), Len(handled))
    BY <2>2 DEF ChunkTold
  <2>4. Len(handled) \in Nat
    BY <2>1
  <2>5. Meaning(chunk) = [k \in 1 .. Len(handled) |-> FrameOf(pb)]
    BY <2>1, <2>3, <2>4, ToldIsMeaning
  <2>6. handled = [k \in 1 .. Len(handled) |-> FrameOf(pb)]
    <3> HIDE DEF FrameOf
    <3> QED
      BY <2>1
  <2> QED
    BY <2>5, <2>6
<1> QED
  BY <1>1, InitIInv, NextIInv, InitChunkTold, NextChunkTold, PTL DEF Spec
=============================================================================
