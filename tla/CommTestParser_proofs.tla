------------------------ MODULE CommTestParser_proofs ------------------------
(***************************************************************************)
(* Proofs about CommTestParser for every size of byte, ring and read and   *)
(* every set of transmissions.                                             *)
(***************************************************************************)
EXTENDS CommTestParser, ProtoFrame_proofs

\* The inductive invariant: each conjunct needs the others.  TypeOK needs
\* RoundDrains to know that a round fits in the ring, RoundDrains needs nothing
\* but the phases of the loop, and TypeOK needs ParserCoherent to know that the
\* counter does not wrap.
IInv == TypeOK /\ RoundDrains /\ RingFifo /\ ParserCoherent

-----------------------------------------------------------------------------
\* Moving on stays inside the ring.
LEMMA NextPosType ==
    ASSUME NEW pos \in RingIndex
    PROVE  NextPos(pos) \in RingIndex
  BY CommTestParserAssumption DEF NextPos, RingIndex

\* The place of the n-th byte of a stream in the ring, and of the next one.
LEMMA PlaceNext ==
    ASSUME NEW n \in Nat
    PROVE  /\ n % PROTO_BUFF_LEN \in RingIndex
           /\ NextPos(n % PROTO_BUFF_LEN) = (n + 1) % PROTO_BUFF_LEN
<1>1. PICK L : L = PROTO_BUFF_LEN /\ L \in Nat /\ L > 0
  BY CommTestParserAssumption
<1>2. PICK q, r : q = n \div L /\ r = n % L
  OBVIOUS
<1>3. q \in Nat /\ r \in 0 .. L - 1 /\ n = q * L + r
  BY <1>1, <1>2, SMT
<1>4. CASE r + 1 >= L
  <2>1. n + 1 = (q + 1) * L /\ q + 1 \in Nat
    BY <1>1, <1>3, <1>4, SMT
  <2>2. (n + 1) % L = 0
    <3>1. PICK k, m, d : k = (n + 1) \div L /\ m = (n + 1) % L /\ d = (q + 1) - k
      OBVIOUS
    <3>2. k \in Nat /\ m \in 0 .. L - 1 /\ n + 1 = k * L + m
      BY <1>1, <3>1, SMT
    <3>3. d \in Int /\ m = d * L
      BY <1>1, <2>1, <3>1, <3>2, SMT
    <3>4. d <= 0
      <4> SUFFICES ASSUME d >= 1 PROVE FALSE
        BY <3>3
      <4>1. d * L >= L
        BY <1>1, <3>3, SMT
      <4> QED
        BY <1>1, <3>2, <3>3, <4>1
    <3>5. d * L <= 0
      BY <1>1, <3>3, <3>4, SMT
    <3> QED
      BY <3>1, <3>2, <3>3, <3>5
  <2> QED
    BY <1>1, <1>2, <1>3, <1>4, <2>2 DEF NextPos, RingIndex
<1>5. CASE r + 1 < L
  <2>1. n + 1 = q * L + (r + 1) /\ r + 1 \in 0 .. L - 1
    BY <1>1, <1>3, <1>5, SMT
  <2>2. (n + 1) % L = r + 1
    BY <1>1, <1>3, <2>1, SMT
  <2> QED
    BY <1>1, <1>2, <1>3, <1>5, <2>2 DEF NextPos, RingIndex
<1> QED
  BY <1>1, <1>3, <1>4, <1>5

\* Bytes less than the ring's length apart do not share a place.
LEMMA PlacesApart ==
    ASSUME NEW a \in Nat, NEW b \in Nat, a < b, b < a + PROTO_BUFF_LEN
    PROVE  a % PROTO_BUFF_LEN # b % PROTO_BUFF_LEN
<1>1. PICK L : L = PROTO_BUFF_LEN /\ L \in Nat /\ L > 0
  BY CommTestParserAssumption
<1>2. PICK p, q : p = a \div L /\ q = b \div L
  OBVIOUS
<1>3. /\ p \in Nat /\ q \in Nat
      /\ a = p * L + (a % L) /\ b = q * L + (b % L)
  BY <1>1, <1>2, SMT
<1>4. SUFFICES ASSUME a % L = b % L PROVE FALSE
  BY <1>1
<1>5. b - a = (q - p) * L
  BY <1>1, <1>3, <1>4, SMT
<1>6. PICK d : d = q - p /\ d \in Int
  BY <1>3
<1>7. 0 < d * L /\ d * L < L
  BY <1>1, <1>5, <1>6
<1>8. CASE d <= 0
  BY <1>1, <1>6, <1>7, <1>8, SMT
<1>9. CASE d >= 1
  BY <1>1, <1>6, <1>7, <1>9, SMT
<1> QED
  BY <1>6, <1>8, <1>9

\* The handler writes well-formed lines.
LEMMA ShowType ==
    ASSUME TypeOK, NEW frame \in Frame
    PROVE  Show(frame) \in [1 .. 3 -> TextLine]
<1> DEFINE userLine == [kind |-> "user", digits |-> SixDigits(frame.data)]
           passwordLine == [kind |-> "password", digits |-> SixDigits(frame.data)]
<1>1. \A i \in 0 .. 5 : frame.data[i] \in Nat
  BY CommTestParserAssumption, ProtoFrameAssumption DEF Frame, DataIndex, Byte
<1>2. SixDigits(frame.data) \in Seq(Nat)
  BY <1>1 DEF SixDigits
<1>3. <<frame.data[0] + 1>> \in Seq(Nat)
  BY <1>1
<1>4. Blank \in TextLine
  BY DEF Blank, TextLine
<1>5. /\ [kind |-> "button", digits |-> <<frame.data[0] + 1>>] \in TextLine
      /\ userLine \in TextLine
      /\ passwordLine \in TextLine
  BY <1>2, <1>3 DEF TextLine
<1>6. text \in [1 .. 3 -> TextLine]
  BY DEF TypeOK
<1>11. \A line \in TextLine : [text EXCEPT ![2] = line] \in [1 .. 3 -> TextLine]
  BY <1>6
<1>7. CASE frame.type = GET_ICON_BUTTON_SELECT
  <2>1. Show(frame) = [line \in 1 .. 3 |-> IF line = 1
              THEN [kind |-> "button", digits |-> <<frame.data[0] + 1>>] ELSE Blank]
    BY <1>7, CommTestParserAssumption DEF Show
  <2> QED
    BY <2>1, <1>4, <1>5
<1>8. CASE frame.type # GET_ICON_BUTTON_SELECT /\ frame.type = GET_USER
  <2>1. Show(frame) = [text EXCEPT ![2] = userLine]
    BY <1>8, CommTestParserAssumption DEF Show
  <2> HIDE DEF userLine, passwordLine
  <2> QED
    BY <2>1, <1>5, <1>11
<1>9. CASE frame.type \notin {GET_ICON_BUTTON_SELECT, GET_USER} /\ frame.type = GET_PASSWORD
  <2>1. Show(frame) = [text EXCEPT ![2] = passwordLine]
    BY <1>9, CommTestParserAssumption DEF Show
  <2> HIDE DEF userLine, passwordLine
  <2> QED
    BY <2>1, <1>5, <1>11
<1>10. CASE frame.type \notin {GET_ICON_BUTTON_SELECT, GET_USER, GET_PASSWORD}
  <2>1. Show(frame) = text
    BY <1>10 DEF Show
  <2> QED
    BY <2>1, <1>6
<1> QED
  BY <1>7, <1>8, <1>9, <1>10

\* The byte at the tail is parsed: the parser stays well typed and coherent.
LEMMA AfterByteCoherent ==
    ASSUME pb \in ProtoBuff, ParserCoherent, NEW byte \in Byte
    PROVE  AfterByte(byte) \in ProtoBuff /\ Coherent(AfterByte(byte))
  BY ResetCoherent, AdvanceCoherent DEF AfterByte, ParserCoherent

-----------------------------------------------------------------------------
\* The invariant holds at first.
LEMMA InitIInv == Init => IInv
<1> SUFFICES ASSUME Init PROVE IInv
  OBVIOUS
<1> USE CommTestParserAssumption, ProtoFrameAssumption
<1>1. TypeOK
  <2>1. 0 \in RingIndex /\ 0 \in Byte
    BY DEF RingIndex, Byte
  <2>2. text \in [1 .. 3 -> TextLine]
    BY DEF Init, TextLine, Blank
  <2> QED
    BY <2>1, <2>2, ResetCoherent DEF Init, TypeOK
<1>2. RoundDrains
  BY DEF Init, RoundDrains, Pending
<1>3. RingFifo
  <2>1. 0 % PROTO_BUFF_LEN = 0
    OBVIOUS
  <2> QED
    BY <2>1 DEF Init, RingFifo, Pending
<1>4. ParserCoherent
  BY ResetCoherent DEF Init, ParserCoherent
<1> QED
  BY <1>1, <1>2, <1>3, <1>4 DEF IInv

\* More bytes pending touch neither ring nor parser.
LEMMA TransmitIInv == IInv /\ Transmit => IInv'
<1> SUFFICES ASSUME IInv, Transmit PROVE IInv'
  OBVIOUS
<1> USE DEF IInv
<1>1. PICK bytes \in Transmissions : sent' = Append(sent, bytes) /\ tty' = tty \o bytes
  BY DEF Transmit
<1>2. bytes \in Seq(Byte)
  BY CommTestParserAssumption
<1>3. sent' \in Seq(Transmissions) /\ tty' \in Seq(Byte)
  BY <1>1, <1>2 DEF TypeOK
<1>4. UNCHANGED <<pc, chunk, ring, todo, round, pb, text, rcvd, parsed, handled>>
  BY DEF Transmit
<1> QED
  BY <1>3, <1>4 DEF TypeOK, RoundDrains, RingFifo, ParserCoherent, Pending, ring

\* A read begins a round with the ring empty.
LEMMA ReadIInv == IInv /\ Read => IInv'
<1> SUFFICES ASSUME IInv, Read PROVE IInv'
  OBVIOUS
<1> USE DEF IInv
<1>1. PICK n \in 1 .. ReadMax : /\ n <= Len(tty)
                                /\ chunk' = SubSeq(tty, 1, n)
                                /\ tty' = SubSeq(tty, n + 1, Len(tty))
  BY DEF Read
<1>2. chunk' \in Seq(Byte) /\ Len(chunk') = n
  BY <1>1, CommTestParserAssumption DEF TypeOK
<1>3. tty' \in Seq(Byte)
  BY <1>1, CommTestParserAssumption DEF TypeOK
<1>4. /\ pc = "read" /\ pc' = "insert"
      /\ UNCHANGED <<sent, ring, todo, round, pb, text, rcvd, parsed, handled>>
  BY DEF Read
<1>5. TypeOK'
  BY <1>2, <1>3, <1>4 DEF TypeOK, ring
<1>6. RoundDrains'
  BY <1>2, <1>4, CommTestParserAssumption DEF RoundDrains, Pending, ring
<1>7. RingFifo'
  BY <1>4 DEF RingFifo, Pending, ring
<1> QED
  BY <1>4, <1>5, <1>6, <1>7 DEF ParserCoherent

\* A read that fails begins no round.
LEMMA ReadFailsIInv == IInv /\ ReadFails => IInv'
<1> SUFFICES ASSUME IInv, ReadFails PROVE IInv'
  OBVIOUS
<1> USE DEF IInv
<1>1. /\ pc = "read" /\ pc' = "spill"
      /\ UNCHANGED <<sent, tty, chunk, ring, todo, round, pb, text, rcvd, parsed, handled>>
  BY DEF ReadFails
<1> QED
  BY <1>1 DEF TypeOK, RoundDrains, RingFifo, ParserCoherent, Pending, ring

\* A byte inserted is the youngest of the queue, and overwrites the one that
\* came PROTO_BUFF_LEN bytes before it.
LEMMA InsertKeepsFifo ==
    ASSUME TypeOK, RingFifo, pc # "parse", pc' = pc, UNCHANGED <<tail_pos, parsed>>,
           NEW byte \in Byte, Insert(byte)
    PROVE  /\ RingFifo'
           /\ buffer' \in [RingIndex -> Byte] /\ head_pos' \in RingIndex
           /\ buff_len' \in Nat /\ rcvd' \in Seq(Byte)
<1> DEFINE L == PROTO_BUFF_LEN
           n == Len(rcvd)
<1>1. /\ buffer' = [buffer EXCEPT ![head_pos] = byte]
      /\ head_pos' = NextPos(head_pos)
      /\ buff_len' = buff_len + 1
      /\ rcvd' = Append(rcvd, byte)
      /\ tail_pos' = tail_pos /\ parsed' = parsed
  BY DEF Insert
<1>2. /\ buffer \in [RingIndex -> Byte] /\ head_pos \in RingIndex
      /\ buff_len \in Nat /\ parsed \in Nat /\ rcvd \in Seq(Byte)
  BY DEF TypeOK
<1>3. Pending = buff_len /\ Pending' = buff_len + 1
  BY <1>1 DEF Pending
<1>4. /\ tail_pos = parsed % L /\ head_pos = n % L /\ n = parsed + buff_len
      /\ \A k \in 0 .. n - 1 : n - k <= L => buffer[k % L] = rcvd[k + 1]
  BY <1>3 DEF RingFifo
<1>5. /\ n \in Nat /\ Len(rcvd') = n + 1 /\ rcvd' \in Seq(Byte) /\ rcvd'[n + 1] = byte
      /\ \A k \in 1 .. n : rcvd'[k] = rcvd[k]
  BY <1>1, <1>2
<1>6. L \in Nat
  BY CommTestParserAssumption
<1> HIDE DEF n
<1>7. head_pos' = (n + 1) % L /\ head_pos' \in RingIndex
  BY <1>1, <1>4, <1>5, PlaceNext
<1>8. buffer'[n % L] = byte
  BY <1>1, <1>2, <1>4
<1>9. ASSUME NEW k \in 0 .. n, n + 1 - k <= L
      PROVE  buffer'[k % L] = rcvd'[k + 1]
  <2>1. CASE k = n
    BY <1>5, <1>8, <2>1
  <2>2. CASE k # n
    <3>1. k \in Nat /\ k < n /\ n < k + L /\ k \in 0 .. n - 1 /\ n - k <= L /\ k + 1 \in 1 .. n
      BY <1>5, <1>6, <1>9, <2>2
    <3>2. k % L # head_pos /\ k % L \in RingIndex
      BY <1>4, <1>5, <3>1, PlacesApart, PlaceNext
    <3>3. buffer'[k % L] = buffer[k % L]
      BY <1>1, <1>2, <3>2
    <3> QED
      BY <1>4, <1>5, <3>1, <3>3
  <2> QED
    BY <2>1, <2>2
<1>10. RingFifo'
  <2>1. (tail_pos = parsed % L)'
    BY <1>1, <1>4
  <2>2. (head_pos = Len(rcvd) % L)'
    BY <1>5, <1>7
  <2>3. (Len(rcvd) = parsed + Pending)'
    BY <1>1, <1>2, <1>3, <1>4, <1>5
  <2>4. \A k \in 0 .. Len(rcvd') - 1 : Len(rcvd') - k <= L => buffer'[k % L] = rcvd'[k + 1]
    <3> SUFFICES ASSUME NEW k \in 0 .. Len(rcvd') - 1, Len(rcvd') - k <= L
                 PROVE  buffer'[k % L] = rcvd'[k + 1]
      OBVIOUS
    <3>1. k \in 0 .. n /\ n + 1 - k <= L
      BY <1>5
    <3> QED
      BY <1>9, <3>1, Zenon
  <2> QED
    BY <2>1, <2>2, <2>3, <2>4 DEF RingFifo
<1> QED
  BY <1>1, <1>2, <1>5, <1>7, <1>10

\* A byte of the chunk: there is room for it.
LEMMA InsertByteIInv == IInv /\ InsertByte => IInv'
<1> SUFFICES ASSUME IInv, InsertByte PROVE IInv'
  OBVIOUS
<1> USE DEF IInv
<1>1. /\ pc = "insert" /\ pc' = pc /\ chunk # <<>>
      /\ Insert(Head(chunk)) /\ chunk' = Tail(chunk)
      /\ UNCHANGED <<sent, tty, tail_pos, todo, round, pb, text, parsed, handled>>
  BY DEF InsertByte
<1>2. /\ Head(chunk) \in Byte /\ chunk' \in Seq(Byte)
      /\ Len(chunk') = Len(chunk) - 1 /\ Len(chunk) >= 1
  BY <1>1 DEF TypeOK
<1>3. /\ RingFifo'
      /\ buffer' \in [RingIndex -> Byte] /\ head_pos' \in RingIndex
      /\ buff_len' \in Nat /\ rcvd' \in Seq(Byte)
  BY <1>1, <1>2, InsertKeepsFifo
<1>4. TypeOK'
  BY <1>1, <1>2, <1>3 DEF TypeOK
<1>5. RoundDrains'
  <2>1. buff_len + Len(chunk) <= ReadMax /\ buff_len \in Nat
    BY <1>1 DEF RoundDrains, TypeOK
  <2>2. buff_len' = buff_len + 1
    BY <1>1 DEF Insert
  <2> QED
    BY <1>1, <1>2, <2>1, <2>2, CommTestParserAssumption DEF RoundDrains, Pending
<1> QED
  BY <1>1, <1>3, <1>4, <1>5 DEF ParserCoherent

\* A byte that was not read: room or not.
LEMMA SpillIInv == IInv /\ Spill => IInv'
<1> SUFFICES ASSUME IInv, Spill PROVE IInv'
  OBVIOUS
<1> USE DEF IInv
<1>1. /\ pc = "spill" /\ pc' = pc
      /\ UNCHANGED <<sent, tty, chunk, tail_pos, todo, round, pb, text, parsed, handled>>
  BY DEF Spill
<1>2. PICK byte \in Byte : Insert(byte)
  BY CommTestParserAssumption DEF Spill
<1>3. /\ RingFifo'
      /\ buffer' \in [RingIndex -> Byte] /\ head_pos' \in RingIndex
      /\ buff_len' \in Nat /\ rcvd' \in Seq(Byte)
  BY <1>1, <1>2, InsertKeepsFifo
<1>4. TypeOK'
  BY <1>1, <1>3 DEF TypeOK
<1>5. RoundDrains'
  BY <1>1 DEF RoundDrains, Pending
<1> QED
  BY <1>1, <1>3, <1>4, <1>5 DEF ParserCoherent

\* All bytes of the round are in the ring when parsing begins.
LEMMA BeginParseIInv == IInv /\ BeginParse => IInv'
<1> SUFFICES ASSUME IInv, BeginParse PROVE IInv'
  OBVIOUS
<1> USE DEF IInv
<1>1. /\ pc = "insert" /\ pc' = "parse" /\ chunk = <<>>
      /\ round' = buff_len /\ todo' = buff_len
      /\ UNCHANGED <<sent, tty, chunk, ring, pb, text, rcvd, parsed, handled>>
  BY DEF BeginParse
<1>2. buff_len \in Nat /\ buff_len <= ReadMax
  BY <1>1 DEF RoundDrains, TypeOK
<1>3. TypeOK'
  BY <1>1, <1>2, CommTestParserAssumption DEF TypeOK, ring
<1>4. RoundDrains'
  BY <1>1, <1>2, CommTestParserAssumption DEF RoundDrains, Pending, TypeOK, ring
<1>5. RingFifo'
  BY <1>1 DEF RingFifo, Pending, ring
<1> QED
  BY <1>1, <1>3, <1>4, <1>5 DEF ParserCoherent

\* The oldest byte goes to the parser.
LEMMA ParseByteIInv == IInv /\ ParseByte => IInv'
<1> SUFFICES ASSUME IInv, ParseByte PROVE IInv'
  OBVIOUS
<1> USE DEF IInv
<1> DEFINE byte == buffer[tail_pos]
<1>1. /\ pc = "parse" /\ pc' = "parse" /\ todo > 0
      /\ tail_pos' = NextPos(tail_pos)
      /\ todo' = todo - 1 /\ parsed' = parsed + 1
      /\ pb' = AfterByte(byte)
      /\ UNCHANGED <<sent, tty, chunk, buffer, head_pos, buff_len, round, rcvd>>
  BY DEF ParseByte
<1>2. byte \in Byte
  BY DEF TypeOK
<1>3. pb' \in ProtoBuff /\ Coherent(pb')
  BY <1>1, <1>2, AfterByteCoherent DEF TypeOK
<1>4. TypeOK'
  <2>1. FrameOf(pb) \in Frame
    BY DEF TypeOK, FrameOf, Frame, ProtoBuff
  <2>2. text' \in [1 .. 3 -> TextLine]
    BY <2>1, ShowType DEF ParseByte, TypeOK
  <2>3. handled' \in Seq([frame : Frame, end : Nat])
    <3>1. [frame |-> FrameOf(pb), end |-> parsed + 1] \in [frame : Frame, end : Nat]
      BY <2>1 DEF TypeOK
    <3>2. handled \in Seq([frame : Frame, end : Nat])
      BY DEF TypeOK
    <3> QED
      <4> DEFINE Delivery == [frame : Frame, end : Nat]
                 d == [frame |-> FrameOf(pb), end |-> parsed + 1]
      <4>1. handled' = handled \/ handled' = Append(handled, d)
        BY DEF ParseByte
      <4>2. d \in Delivery /\ handled \in Seq(Delivery)
        BY <3>1, <3>2
      <4> HIDE DEF Delivery, d
      <4>3. handled' \in Seq(Delivery)
        BY <4>1, <4>2
      <4> QED
        BY <4>3 DEF Delivery
  <2>4. tail_pos' \in RingIndex
    BY <1>1, NextPosType DEF TypeOK
  <2>5. todo' \in 0 .. PROTO_BUFF_LEN /\ parsed' \in Nat
    BY <1>1, CommTestParserAssumption DEF TypeOK
  <2> QED
    BY <1>1, <1>3, <2>2, <2>3, <2>4, <2>5 DEF TypeOK
<1>5. RoundDrains'
  BY <1>1, CommTestParserAssumption DEF RoundDrains, Pending, TypeOK
<1>6. RingFifo'
  <2>1. Pending = todo /\ Pending' = todo - 1
    BY <1>1 DEF Pending
  <2>2. parsed \in Nat /\ todo \in Nat
    BY DEF TypeOK
  <2>3. tail_pos' = parsed' % PROTO_BUFF_LEN
    BY <1>1, <2>2, PlaceNext DEF RingFifo
  <2>4. Len(rcvd') = parsed' + Pending'
    <3>1. Len(rcvd) = parsed + todo
      BY <2>1 DEF RingFifo
    <3> QED
      BY <1>1, <2>1, <2>2, <3>1
  <2> QED
    BY <1>1, <2>3, <2>4 DEF RingFifo
<1> QED
  BY <1>3, <1>4, <1>5, <1>6 DEF ParserCoherent

\* A round ends when the ring is empty.
LEMMA EndRoundIInv == IInv /\ EndRound => IInv'
<1> SUFFICES ASSUME IInv, EndRound PROVE IInv'
  OBVIOUS
<1> USE DEF IInv
<1>1. /\ pc = "parse" /\ pc' = "read" /\ todo = 0
      /\ buff_len' = buff_len - round
      /\ UNCHANGED <<sent, tty, chunk, buffer, head_pos, tail_pos, todo, round, pb,
                     text, rcvd, parsed, handled>>
  BY DEF EndRound
<1>2. buff_len' = 0 /\ chunk' = <<>>
  BY <1>1 DEF RoundDrains, TypeOK
<1>3. TypeOK'
  BY <1>1, <1>2, CommTestParserAssumption DEF TypeOK
<1>4. RoundDrains'
  BY <1>1, <1>2, CommTestParserAssumption DEF RoundDrains, Pending
<1>5. RingFifo'
  BY <1>1, <1>2 DEF RingFifo, Pending
<1> QED
  BY <1>1, <1>3, <1>4, <1>5 DEF ParserCoherent

\* Every step keeps it.
LEMMA NextIInv == IInv /\ [Next]_vars => IInv'
<1> SUFFICES ASSUME IInv, [Next]_vars PROVE IInv'
  OBVIOUS
<1>1. CASE UNCHANGED vars
  BY <1>1 DEF IInv, vars, ring, TypeOK, RoundDrains, RingFifo, ParserCoherent, Pending
<1> QED
  BY <1>1, TransmitIInv, ReadIInv, ReadFailsIInv, InsertByteIInv, SpillIInv, BeginParseIInv,
     ParseByteIInv, EndRoundIInv DEF Next, Program

-----------------------------------------------------------------------------
\* The variables of mlx_comm_test -p keep their types: no position leaves the
\* ring and no counter of the parser wraps.
THEOREM TypeCorrect == Spec => []TypeOK
  BY InitIInv, NextIInv, PTL DEF Spec, IInv

\* The ring is a queue of the bytes received, of which it holds the newest;
\* a failed read, which overruns it, loses the oldest and writes nowhere else.
THEOREM RingIsFifo == Spec => []RingFifo
  BY InitIInv, NextIInv, PTL DEF Spec, IInv

\* No read is made before the ring is empty, so that what a successful read
\* brings, though insertion does not look, overruns nothing that is not parsed;
\* what a failed one puts in is never parsed.
THEOREM RoundsDrain == Spec => []RoundDrains
  BY InitIInv, NextIInv, PTL DEF Spec, IInv

\* Between two bytes the parser's state, counter and length agree.
THEOREM ParserIsCoherent == Spec => []ParserCoherent
  BY InitIInv, NextIInv, PTL DEF Spec, IInv

\* Once a frame with no room for its type or data has arrived, no frame is
\* ever handled again.
THEOREM WedgeIsForever == Spec => WedgedForever
<1>1. IInv /\ [Next]_vars => [Wedged(pb) => Wedged(pb') /\ handled' = handled]_vars
  <2> SUFFICES ASSUME IInv, Next, Wedged(pb)
               PROVE  Wedged(pb') /\ handled' = handled
    BY DEF Next
  <2>1. CASE ParseByte
    <3>1. ~Resets(pb, buffer[tail_pos]) /\ ~Completes(pb, buffer[tail_pos])
          /\ Advance(pb, buffer[tail_pos]) = pb
      BY WedgedWritesNothing
    <3> QED
      BY <2>1, <3>1 DEF ParseByte, AfterByte
  <2>2. CASE ~ParseByte
    BY <2>2 DEF Next, Program, Transmit, Read, ReadFails, InsertByte, Spill, BeginParse, EndRound
  <2> QED
    BY <2>1, <2>2
<1> QED
  BY <1>1, InitIInv, NextIInv, PTL DEF Spec, WedgedForever
-----------------------------------------------------------------------------
(***************************************************************************)
(* The parser implements FrameStream: the bytes of the frame under way are *)
(* the last ones parsed, and what the parser knows of them is true.        *)
(***************************************************************************)

\* How many bytes of the frame under way the parser p has taken.
Taken(p) ==
    CASE p.proto_stat = "WAIT_FF"  -> 0
      [] p.proto_stat = "WAIT_55"  -> 1
      [] p.proto_stat = "WAIT_AA"  -> 2
      [] p.proto_stat = "WAIT_LEN" -> 3
      [] OTHER                     -> p.data_cnt + 4

\* They are the bytes of r behind the first start ones.
UnderWay(p, r, start) ==
    /\ Taken(p) >= 1 => r[start + 1] = SOH_FF
    /\ Taken(p) >= 2 => r[start + 2] = SOH_55
    /\ Taken(p) >= 3 => /\ r[start + 3] = SOH_AA
                        /\ Body(p, SubSeq(r, start + 4, start + Taken(p)))

\* A parser that is not wedged has taken the bytes parsed last, and none of
\* them belongs to a frame that was handled.
Gathered ==
    ~Wedged(pb) => \E start \in Nat : /\ start + Taken(pb) = parsed
                                      /\ Stream!Used <= start
                                      /\ UnderWay(pb, rcvd, start)

\* The checksum of FrameStream is the parser's.
LEMMA SameChecksum == \A s : Stream!Checksum(s) = Checksum(s)
  BY DEF Stream!Checksum, Checksum, Stream!AddByte, AddByte

\* FrameStream's words mean what the parser's do.
LEMMA SameWords ==
    /\ Stream!Byte = Byte
    /\ \A s : Stream!IsFrame(s) <=> IsFrame(s)
    /\ \A s : Stream!Decode(s) = Decode(s)
<1>1. Stream!Byte = Byte /\ Stream!DataIndex = DataIndex
  BY DEF Stream!Byte, Byte, Stream!DataIndex, DataIndex
<1>2. \A t : Stream!IsAck(t) = IsAck(t)
  BY DEF Stream!IsAck, IsAck
<1>3. \A s : Stream!Shaped(s) <=> Shaped(s)
  BY <1>2 DEF Stream!Shaped, Shaped
<1>4. \A s : Stream!IsFrame(s) <=> IsFrame(s)
  BY <1>3, SameChecksum DEF Stream!IsFrame, IsFrame
<1>5. \A s : Stream!Decode(s) = Decode(s)
  BY <1>1 DEF Stream!Decode, Decode
<1> QED
  BY <1>1, <1>4, <1>5

\* How many bytes of a frame each state stands for.
LEMMA TakenIs ==
    ASSUME NEW p \in ProtoBuff
    PROVE  /\ Taken(p) \in Nat
           /\ p.proto_stat = "WAIT_FF" => Taken(p) = 0
           /\ p.proto_stat = "WAIT_55" => Taken(p) = 1
           /\ p.proto_stat = "WAIT_AA" => Taken(p) = 2
           /\ p.proto_stat = "WAIT_LEN" => Taken(p) = 3
           /\ p.proto_stat \in {"WAIT_TYPE", "WAIT_DATA", "WAIT_CRC"} => Taken(p) = p.data_cnt + 4
<1>1. p.data_cnt \in Nat /\ p.proto_stat \in ProtoStat
  BY ProtoFrameAssumption DEF ProtoBuff, Byte
<1>2. CASE p.proto_stat = "WAIT_FF"
  BY <1>2 DEF Taken
<1>3. CASE p.proto_stat = "WAIT_55"
  BY <1>3 DEF Taken
<1>4. CASE p.proto_stat = "WAIT_AA"
  BY <1>4 DEF Taken
<1>5. CASE p.proto_stat = "WAIT_LEN"
  BY <1>5 DEF Taken
<1>6. CASE p.proto_stat \in {"WAIT_TYPE", "WAIT_DATA", "WAIT_CRC"}
  <2>1. Taken(p) = p.data_cnt + 4
    BY <1>6 DEF Taken
  <2> QED
    BY <1>1, <1>6, <2>1
<1> QED
  BY <1>1, <1>2, <1>3, <1>4, <1>5, <1>6 DEF ProtoStat

\* A byte that is part of the frame is one more byte taken.
LEMMA UnderWayGrows ==
    ASSUME NEW p \in ProtoBuff, NEW r \in Seq(Byte), NEW start \in Nat, NEW b,
           Coherent(p), ~Wedged(p), ~Resets(p, b), UnderWay(p, r, start),
           start + Taken(p) < Len(r), b = r[start + Taken(p) + 1],
           p.proto_stat = "WAIT_FF" => b = SOH_FF
    PROVE  /\ UnderWay(Advance(p, b), r, start)
           /\ Taken(Advance(p, b)) = Taken(p) + 1
<1> SUFFICES ASSUME NEW q, q = Advance(p, b)
             PROVE  UnderWay(q, r, start) /\ Taken(q) = Taken(p) + 1
  OBVIOUS
<1>1. b \in Byte /\ q \in ProtoBuff /\ Taken(p) \in Nat
  <2>1. Taken(p) \in Nat
    BY TakenIs
  <2>2. b \in Byte
    BY <2>1
  <2> QED
    BY <2>1, <2>2, AdvanceCoherent
<1>2. CASE p.proto_stat = "WAIT_FF"
  <2>1. q = [p EXCEPT !.proto_stat = "WAIT_55"]
    BY <1>2 DEF Advance
  <2>2. q.proto_stat = "WAIT_55"
    BY <2>1 DEF ProtoBuff
  <2>3. Taken(q) = 1 /\ Taken(p) = 0
    BY <1>1, <1>2, <2>2, TakenIs
  <2> QED
    BY <1>2, <2>3 DEF UnderWay
<1>3. CASE p.proto_stat = "WAIT_55"
  <2>1. b = SOH_55
    BY <1>3 DEF Resets
  <2>2. q = [p EXCEPT !.proto_stat = "WAIT_AA"]
    BY <1>3, <2>1 DEF Advance
  <2>3. q.proto_stat = "WAIT_AA"
    BY <2>2 DEF ProtoBuff
  <2>4. Taken(q) = 2 /\ Taken(p) = 1
    BY <1>1, <1>3, <2>3, TakenIs
  <2>5. r[start + 1] = SOH_FF /\ r[start + 2] = SOH_55
    <3>1. start + Taken(p) + 1 = start + 2 /\ Taken(p) >= 1
      BY <2>4
    <3> QED
      BY <2>1, <3>1, Zenon DEF UnderWay
  <2> QED
    BY <2>4, <2>5 DEF UnderWay
<1>4. CASE p.proto_stat = "WAIT_AA"
  <2>1. b = SOH_AA
    BY <1>4 DEF Resets
  <2>2. q = [p EXCEPT !.proto_stat = "WAIT_LEN"]
    BY <1>4, <2>1 DEF Advance
  <2>3. q.proto_stat = "WAIT_LEN"
    BY <2>2 DEF ProtoBuff
  <2>4. Taken(q) = 3 /\ Taken(p) = 2
    BY <1>1, <1>4, <2>3, TakenIs
  <2>5. SubSeq(r, start + 4, start + Taken(q)) = <<>>
    BY <2>4
  <2>6. Body(q, <<>>)
    BY <2>3 DEF Body
  <2>7. r[start + 1] = SOH_FF /\ r[start + 2] = SOH_55 /\ r[start + 3] = SOH_AA
    <3>1. start + Taken(p) + 1 = start + 3 /\ Taken(p) >= 1 /\ Taken(p) >= 2
      BY <2>4
    <3> QED
      BY <2>1, <3>1, Zenon DEF UnderWay
  <2>8. Body(q, SubSeq(r, start + 4, start + Taken(q)))
    BY <2>5, <2>6
  <2> QED
    BY <2>4, <2>7, <2>8 DEF UnderWay
<1>5. CASE p.proto_stat \in {"WAIT_LEN", "WAIT_TYPE", "WAIT_DATA"}
  <2> DEFINE n == start + Taken(p)
             s == SubSeq(r, start + 4, n)
  <2>0. p.data_cnt \in Nat
    BY ProtoFrameAssumption DEF ProtoBuff, Byte
  <2>1. Taken(p) >= 3
    BY <1>5, <2>0, TakenIs
  <2>2. Body(p, s)
    BY <2>1 DEF UnderWay
  <2>3. Body(q, Append(s, b))
    BY <1>1, <1>5, <2>2, BodyGrows
  <2>4. Taken(q) = Taken(p) + 1
    <3>1. CASE p.proto_stat = "WAIT_LEN"
      <4>1. q = [p EXCEPT !.data_len = b, !.data_crc = b, !.proto_stat = "WAIT_TYPE"]
        BY <3>1 DEF Advance, AdvanceLen
      <4>2. q.proto_stat = "WAIT_TYPE" /\ q.data_cnt = 0
        BY <3>1, <4>1 DEF ProtoBuff, Coherent, ProtoReset
      <4> QED
        BY <1>1, <3>1, <4>2, TakenIs
    <3>2. CASE p.proto_stat = "WAIT_TYPE"
      <4>1. Room(p)
        BY <3>2 DEF Wedged
      <4>2. q.data_cnt = p.data_cnt + 1 /\ q.proto_stat \in {"WAIT_CRC", "WAIT_DATA"}
        BY <3>2, <4>1 DEF Advance, AdvanceType, ProtoBuff
      <4>3. Taken(p) = p.data_cnt + 4 /\ Taken(q) = q.data_cnt + 4 /\ p.data_cnt \in Nat
        BY <1>1, <2>0, <3>2, <4>2, TakenIs
      <4> QED
        BY <4>2, <4>3
    <3>3. CASE p.proto_stat = "WAIT_DATA"
      <4>1. Room(p)
        BY <3>3 DEF Wedged
      <4>2. q.data_cnt = p.data_cnt + 1 /\ q.proto_stat \in {"WAIT_CRC", "WAIT_DATA"}
        BY <3>3, <4>1 DEF Advance, AdvanceData, ProtoBuff
      <4>3. Taken(p) = p.data_cnt + 4 /\ Taken(q) = q.data_cnt + 4 /\ p.data_cnt \in Nat
        BY <1>1, <2>0, <3>3, <4>2, TakenIs
      <4> QED
        BY <4>2, <4>3
    <3> QED
      BY <1>5, <3>1, <3>2, <3>3
  <2>5. SubSeq(r, start + 4, n + 1) = Append(s, b)
    <3>1. n \in Nat /\ n + 1 >= start + 4 /\ n < Len(r) /\ start + 4 \in Nat /\ start + 4 >= 1
      BY <1>1, <2>1
    <3>2. b = r[n + 1]
      OBVIOUS
    <3> HIDE DEF n
    <3> QED
      BY <3>1, <3>2, SubSeqMore
  <2>6. start + Taken(q) = n + 1
    BY <1>1, <2>4
  <2>7. Body(q, SubSeq(r, start + 4, start + Taken(q)))
    BY <2>3, <2>5, <2>6
  <2>8. r[start + 1] = SOH_FF /\ r[start + 2] = SOH_55 /\ r[start + 3] = SOH_AA
    BY <1>1, <2>1 DEF UnderWay
  <2> QED
    BY <2>4, <2>7, <2>8 DEF UnderWay
<1>6. p.proto_stat # "WAIT_CRC"
  BY DEF Resets
<1> QED
  BY <1>2, <1>3, <1>4, <1>5, <1>6 DEF ProtoBuff, ProtoStat

\* When the parser waits for the checksum, the bytes from the frame's FF to
\* the one that comes are the frame the parser holds, if that is the checksum.
LEMMA WholeFrame ==
    ASSUME NEW p \in ProtoBuff, NEW r \in Seq(Byte), NEW start \in Nat, NEW n \in Nat,
           Coherent(p), p.proto_stat = "WAIT_CRC", UnderWay(p, r, start),
           n = start + Taken(p), n < Len(r)
    PROVE  /\ Shaped(SubSeq(r, start + 1, n + 1))
           /\ IsFrame(SubSeq(r, start + 1, n + 1)) <=> r[n + 1] = p.data_crc
           /\ Decode(SubSeq(r, start + 1, n + 1)) = FrameOf(p)
<1>1. PICK cnt : cnt = p.data_cnt
  OBVIOUS
<1>2. cnt \in Nat /\ cnt >= 1 /\ Taken(p) = cnt + 4 /\ n = start + cnt + 4
  <2>1. cnt \in Nat /\ cnt >= 1
    BY <1>1, ProtoFrameAssumption DEF Coherent, ProtoBuff, Byte
  <2>2. Taken(p) = cnt + 4
    BY <1>1, TakenIs
  <2> QED
    BY <2>1, <2>2
<1>3. PICK f : f = SubSeq(r, start + 1, n + 1)
  OBVIOUS
<1>4. PICK s : s = SubSeq(r, start + 4, n)
  OBVIOUS
<1>5. f \in Seq(Byte) /\ Len(f) = cnt + 5 /\ \A k \in 1 .. cnt + 5 : f[k] = r[start + k]
  <2>1. /\ start + 1 \in Nat /\ n + 1 \in Nat /\ start + 1 >= 1 /\ (n + 1) + 1 >= start + 1
        /\ n + 1 <= Len(r) /\ (n + 1) - (start + 1) + 1 = cnt + 5
    BY <1>2
  <2>2. /\ f \in Seq(Byte) /\ Len(f) = (n + 1) - (start + 1) + 1
        /\ \A k \in 1 .. (n + 1) - (start + 1) + 1 : f[k] = r[(start + 1) + k - 1]
    BY <1>3, <2>1, SubSeqIs
  <2>3. \A k \in 1 .. cnt + 5 : (start + 1) + k - 1 = start + k
    OBVIOUS
  <2> QED
    BY <2>1, <2>2, <2>3
<1>6. s \in Seq(Byte) /\ Len(s) = cnt + 1 /\ \A k \in 1 .. cnt + 1 : s[k] = f[k + 3]
  <2>1. /\ start + 4 \in Nat /\ start + 4 >= 1 /\ n + 1 >= start + 4
        /\ n <= Len(r) /\ n - (start + 4) + 1 = cnt + 1
    BY <1>2
  <2>2. /\ s \in Seq(Byte) /\ Len(s) = n - (start + 4) + 1
        /\ \A k \in 1 .. n - (start + 4) + 1 : s[k] = r[(start + 4) + k - 1]
    BY <1>4, <2>1, SubSeqIs
  <2>3. \A k \in 1 .. cnt + 1 : (start + 4) + k - 1 = start + (k + 3) /\ k + 3 \in 1 .. cnt + 5
    BY <1>2
  <2> QED
    BY <1>5, <2>1, <2>2, <2>3
<1>7. /\ r[start + 1] = SOH_FF /\ r[start + 2] = SOH_55 /\ r[start + 3] = SOH_AA
      /\ Body(p, s)
  <2>1. Taken(p) >= 3 /\ Taken(p) >= 2 /\ Taken(p) >= 1
    BY <1>2
  <2> QED
    BY <2>1, <1>4 DEF UnderWay
<1>8. /\ s[1] = p.data_len /\ s[2] = p.proto_type /\ p.data_crc = Checksum(s)
      /\ \A i \in DataIndex : i + 1 < cnt => p.data[i] = s[i + 3]
  BY <1>1, <1>2, <1>7 DEF Body
<1>9. /\ f[1] = SOH_FF /\ f[2] = SOH_55 /\ f[3] = SOH_AA
      /\ f[4] = p.data_len /\ f[5] = p.proto_type
      /\ f[cnt + 5] = r[n + 1]
  <2>1. f[1] = SOH_FF /\ f[2] = SOH_55 /\ f[3] = SOH_AA
    <3>1. 1 \in 1 .. cnt + 5 /\ 2 \in 1 .. cnt + 5 /\ 3 \in 1 .. cnt + 5
      BY <1>2
    <3> QED
      BY <1>5, <1>7, <3>1, Zenon
  <2>2. f[4] = s[1] /\ f[5] = s[2]
    BY <1>2, <1>6
  <2>3. f[cnt + 5] = r[n + 1]
    <3>1. start + (cnt + 5) = n + 1 /\ cnt + 5 \in 1 .. cnt + 5
      BY <1>2
    <3> QED
      BY <1>5, <3>1
  <2> QED
    BY <1>8, <2>1, <2>2, <2>3
<1>10. p.data_crc = Checksum(SubSeq(f, 4, Len(f) - 1))
  <2>1. PICK t : t = SubSeq(f, 4, cnt + 4)
    OBVIOUS
  <2>2. /\ t \in Seq(Byte) /\ Len(t) = cnt + 1
        /\ \A k \in 1 .. cnt + 1 : t[k] = f[k + 3]
    <3>1. /\ cnt + 4 \in Nat /\ (cnt + 4) + 1 >= 4 /\ cnt + 4 <= Len(f)
          /\ (cnt + 4) - 4 + 1 = cnt + 1
      BY <1>2, <1>5
    <3>2. /\ t \in Seq(Byte) /\ Len(t) = (cnt + 4) - 4 + 1
          /\ \A k \in 1 .. (cnt + 4) - 4 + 1 : t[k] = f[4 + k - 1]
      BY <2>1, <1>5, <3>1, SubSeqIs
    <3>3. \A k \in 1 .. cnt + 1 : 4 + k - 1 = k + 3
      OBVIOUS
    <3> QED
      BY <3>1, <3>2, <3>3
  <2>3. t = s
    BY <1>6, <2>2
  <2>4. Len(f) - 1 = cnt + 4
    BY <1>2, <1>5
  <2> QED
    BY <1>5, <1>8, <1>9, <2>1, <2>3, <2>4
<1>11. IF IsAck(p.proto_type) THEN cnt = 1 /\ p.data_len >= 1
                              ELSE cnt = p.data_len /\ p.data_len >= 2
  BY <1>1 DEF Coherent
<1>12. Shaped(f)
  <2>1. Len(f) >= 6
    BY <1>2, <1>5
  <2>2. IF IsAck(f[5]) THEN Len(f) = 6 /\ f[4] >= 1 ELSE Len(f) = f[4] + 5 /\ f[4] >= 2
    BY <1>2, <1>5, <1>9, <1>11
  <2> QED
    BY <1>9, <2>1, <2>2 DEF Shaped
<1>14. IsFrame(f) <=> r[n + 1] = p.data_crc
  BY <1>5, <1>9, <1>10, <1>12 DEF IsFrame
<1>13. Decode(f) = FrameOf(p)
  <2>1. ASSUME NEW i \in DataIndex
        PROVE  p.data[i] = IF i + 6 < Len(f) THEN f[i + 6] ELSE 0
    <3>1. i \in Nat
      BY ProtoFrameAssumption DEF DataIndex
    <3>2. CASE i + 1 < cnt
      <4>1. i + 3 \in 1 .. cnt + 1 /\ i + 6 < Len(f) /\ (i + 3) + 3 = i + 6
        BY <1>2, <1>5, <3>1, <3>2
      <4> QED
        BY <1>6, <1>8, <3>2, <4>1
    <3>3. CASE ~(i + 1 < cnt)
      <4>1. i + 1 >= cnt /\ ~(i + 6 < Len(f))
        BY <1>2, <1>5, <3>1, <3>3
      <4> QED
        BY <1>1, <4>1 DEF Coherent
    <3> QED
      BY <3>2, <3>3
  <2>2. p.data = [i \in DataIndex |-> IF i + 6 < Len(f) THEN f[i + 6] ELSE 0]
    BY <2>1 DEF ProtoBuff
  <2> QED
    BY <1>9, <2>2 DEF Decode, FrameOf
<1> QED
  BY <1>3, <1>12, <1>13, <1>14

\* The byte parsed is the one received after those parsed before.
LEMMA NextByteIs ==
    ASSUME IInv, ParseByte
    PROVE  parsed \in Nat /\ parsed < Len(rcvd) /\ buffer[tail_pos] = rcvd[parsed + 1]
<1>1. /\ pc = "parse" /\ todo \in Nat /\ todo > 0 /\ todo <= PROTO_BUFF_LEN
      /\ parsed \in Nat /\ PROTO_BUFF_LEN \in Nat
  BY CommTestParserAssumption DEF IInv, TypeOK, ParseByte
<1>2. tail_pos = parsed % PROTO_BUFF_LEN /\ Len(rcvd) = parsed + todo
  BY <1>1 DEF IInv, RingFifo, Pending
<1>3. parsed \in 0 .. Len(rcvd) - 1 /\ Len(rcvd) - parsed <= PROTO_BUFF_LEN
  BY <1>1, <1>2
<1>4. buffer[parsed % PROTO_BUFF_LEN] = rcvd[parsed + 1]
  BY <1>3 DEF IInv, RingFifo
<1> QED
  BY <1>1, <1>2, <1>4

\* The last entry of a sequence is of its type.
LEMMA LastType ==
    ASSUME NEW S, NEW s \in Seq(S), s # <<>>
    PROVE  s[Len(s)] \in S
  OBVIOUS

\* Where the unused bytes begin is a place.
LEMMA UsedType ==
    ASSUME IInv
    PROVE  Stream!Used \in Nat
<1>1. handled \in Seq([frame : Frame, end : Nat])
  BY DEF IInv, TypeOK
<1>2. CASE handled = <<>>
  BY <1>2 DEF Stream!Used
<1>3. CASE handled # <<>>
  <2>1. handled[Len(handled)] \in [frame : Frame, end : Nat]
    BY <1>1, <1>3, LastType
  <2> QED
    BY <1>3, <2>1 DEF Stream!Used
<1> QED
  BY <1>2, <1>3

\* No frame is under way at first.
LEMMA InitGathered == Init => Gathered
<1> SUFFICES ASSUME Init PROVE Gathered
  OBVIOUS
<1>1. pb = ProtoReset /\ pb.proto_stat = "WAIT_FF" /\ parsed = 0 /\ handled = <<>>
  BY DEF Init, ProtoReset
<1>2. Taken(pb) = 0
  BY <1>1 DEF Taken
<1>3. Stream!Used <= 0
  BY <1>1 DEF Stream!Used
<1>4. UnderWay(pb, rcvd, 0)
  BY <1>2 DEF UnderWay
<1> QED
  BY <1>1, <1>2, <1>3, <1>4 DEF Gathered

\* A byte more: the frame under way goes on, ends or is given up.
LEMMA ParseByteGathered == IInv /\ Gathered /\ ParseByte => Gathered'
<1> SUFFICES ASSUME IInv, Gathered, ParseByte, ~Wedged(pb')
             PROVE  \E start \in Nat : /\ start + Taken(pb') = parsed'
                                       /\ (Stream!Used)' <= start
                                       /\ UnderWay(pb', rcvd', start)
  BY DEF Gathered
<1>1. PICK byte : byte = buffer[tail_pos]
  OBVIOUS
<1>2. parsed \in Nat /\ parsed < Len(rcvd) /\ byte = rcvd[parsed + 1]
  BY <1>1, NextByteIs
<1>3. /\ pb' = IF Resets(pb, byte) THEN ProtoReset ELSE Advance(pb, byte)
      /\ parsed' = parsed + 1 /\ rcvd' = rcvd
      /\ IF Completes(pb, byte)
         THEN handled' = Append(handled, [frame |-> FrameOf(pb), end |-> parsed + 1])
         ELSE handled' = handled
  BY <1>1 DEF ParseByte, AfterByte
<1>4. /\ pb \in ProtoBuff /\ Coherent(pb) /\ rcvd \in Seq(Byte)
      /\ handled \in Seq([frame : Frame, end : Nat])
  BY DEF IInv, TypeOK, ParserCoherent
<1>5. ~Wedged(pb)
  BY <1>3, WedgedWritesNothing
<1>6. PICK start \in Nat : /\ start + Taken(pb) = parsed
                           /\ Stream!Used <= start
                           /\ UnderWay(pb, rcvd, start)
  BY <1>5 DEF Gathered
<1>7. Taken(pb) \in Nat /\ Stream!Used \in Nat
  BY <1>4, TakenIs, UsedType
<1>8. ~Completes(pb, byte) => (Stream!Used)' = Stream!Used
  BY <1>3 DEF Stream!Used
<1>9. Completes(pb, byte) => (Stream!Used)' = parsed + 1
  <2> SUFFICES ASSUME Completes(pb, byte) PROVE (Stream!Used)' = parsed + 1
    OBVIOUS
  <2> DEFINE d == [frame |-> FrameOf(pb), end |-> parsed + 1]
  <2>1. handled' = Append(handled, d) /\ d.end = parsed + 1
    BY <1>3
  <2> HIDE DEF d
  <2>2. handled' # <<>> /\ handled'[Len(handled')] = d
    BY <1>4, <2>1
  <2> QED
    BY <2>1, <2>2 DEF Stream!Used
<1>10. \A q \in ProtoBuff : q.proto_stat = "WAIT_FF"
         => Taken(q) = 0 /\ UnderWay(q, rcvd, parsed + 1)
  <2> SUFFICES ASSUME NEW q \in ProtoBuff, q.proto_stat = "WAIT_FF"
               PROVE  Taken(q) = 0 /\ UnderWay(q, rcvd, parsed + 1)
    OBVIOUS
  <2>1. Taken(q) = 0
    BY TakenIs
  <2> QED
    BY <2>1 DEF UnderWay
<1>11. CASE Resets(pb, byte)
  <2>1. pb' = ProtoReset /\ pb'.proto_stat = "WAIT_FF"
    BY <1>3, <1>11 DEF ProtoReset
  <2>2. Taken(pb') = 0 /\ UnderWay(pb', rcvd, parsed + 1)
    BY <1>10, <2>1, ResetCoherent
  <2>3. (Stream!Used)' <= parsed + 1
    BY <1>2, <1>6, <1>7, <1>8, <1>9
  <2> QED
    BY <1>2, <1>3, <2>2, <2>3
<1>12. CASE pb.proto_stat = "WAIT_FF" /\ byte # SOH_FF
  <2>1. ~Resets(pb, byte) /\ ~Completes(pb, byte) /\ pb' = pb
    BY <1>3, <1>12 DEF Resets, Completes, Advance
  <2>2. Taken(pb') = 0 /\ UnderWay(pb', rcvd, parsed + 1)
    BY <1>4, <1>10, <1>12, <2>1
  <2>3. (Stream!Used)' <= parsed + 1
    BY <1>2, <1>6, <1>7, <1>8, <2>1
  <2> QED
    BY <1>2, <1>3, <2>2, <2>3
<1>13. CASE ~Resets(pb, byte) /\ (pb.proto_stat = "WAIT_FF" => byte = SOH_FF)
  <2>1. ~Completes(pb, byte) /\ pb' = Advance(pb, byte)
    BY <1>3, <1>13 DEF Resets, Completes
  <2>2. start + Taken(pb) < Len(rcvd) /\ byte = rcvd[start + Taken(pb) + 1]
    BY <1>2, <1>6
  <2>3. UnderWay(pb', rcvd, start) /\ Taken(pb') = Taken(pb) + 1
    BY <1>4, <1>5, <1>6, <1>13, <2>1, <2>2, UnderWayGrows
  <2>4. (Stream!Used)' <= start
    BY <1>6, <1>8, <2>1
  <2> QED
    BY <1>3, <1>6, <1>7, <2>3, <2>4
<1> QED
  BY <1>11, <1>12, <1>13

\* What a step that inserts does, whether the byte was read or not.
LEMMA InsertedByte ==
    ASSUME IInv, InsertByte \/ Spill
    PROVE  /\ UNCHANGED <<pc, pb, parsed, handled>> /\ pc # "parse"
           /\ \E b \in Byte : rcvd' = Append(rcvd, b)
<1>1. CASE InsertByte
  <2>1. Head(chunk) \in Byte
    BY <1>1 DEF IInv, TypeOK, InsertByte
  <2> QED
    BY <1>1, <2>1 DEF InsertByte, Insert
<1>2. CASE Spill
  BY <1>2, CommTestParserAssumption DEF Spill, Insert
<1> QED
  BY <1>1, <1>2

\* Only parsing touches what was gathered.
LEMMA NextGathered == IInv /\ Gathered /\ [Next]_vars => Gathered'
<1> SUFFICES ASSUME IInv, Gathered, [Next]_vars PROVE Gathered'
  OBVIOUS
<1>1. CASE ParseByte
  BY <1>1, ParseByteGathered
<1>2. CASE InsertByte \/ Spill
  <2>1. /\ UNCHANGED <<pb, parsed, handled>> /\ pc # "parse"
        /\ \E b \in Byte : rcvd' = Append(rcvd, b)
    BY <1>2, InsertedByte
  <2>2. /\ rcvd \in Seq(Byte) /\ parsed \in Nat /\ pb \in ProtoBuff
        /\ parsed <= Len(rcvd)
    BY <2>1 DEF IInv, TypeOK, RingFifo, Pending
  <2>3. (Stream!Used)' = Stream!Used
    BY <2>1 DEF Stream!Used
  <2>4. \A start \in Nat : start + Taken(pb) = parsed /\ UnderWay(pb, rcvd, start)
                            => UnderWay(pb, rcvd', start)
    <3> SUFFICES ASSUME NEW start \in Nat, start + Taken(pb) = parsed, UnderWay(pb, rcvd, start)
                 PROVE  UnderWay(pb, rcvd', start)
      OBVIOUS
    <3>1. Taken(pb) \in Nat
      BY <2>2, TakenIs
    <3>2. \A k \in 1 .. Len(rcvd) : rcvd'[k] = rcvd[k]
      BY <2>1, <2>2
    <3>3. SubSeq(rcvd', start + 4, start + Taken(pb)) = SubSeq(rcvd, start + 4, start + Taken(pb))
      BY <2>1, <2>2
    <3>4. /\ Taken(pb) >= 1 => rcvd'[start + 1] = rcvd[start + 1]
          /\ Taken(pb) >= 2 => rcvd'[start + 2] = rcvd[start + 2]
          /\ Taken(pb) >= 3 => rcvd'[start + 3] = rcvd[start + 3]
      BY <2>2, <3>1, <3>2
    <3> QED
      BY <3>3, <3>4 DEF UnderWay
  <2> QED
    BY <2>1, <2>3, <2>4 DEF Gathered
<1>3. CASE ~ParseByte /\ ~InsertByte /\ ~Spill
  <2>1. UNCHANGED <<pb, parsed, handled, rcvd>>
    BY <1>3 DEF Next, Program, Transmit, Read, ReadFails, BeginParse, EndRound, vars
  <2>2. (Stream!Used)' = Stream!Used
    BY <2>1 DEF Stream!Used
  <2> QED
    BY <2>1, <2>2 DEF Gathered
<1> QED
  BY <1>1, <1>2, <1>3

\* Every step of the program is a step of FrameStream or leaves it alone: a
\* byte put in the ring arrives, a frame handled is delivered.
LEMMA NextImplements == IInv /\ Gathered /\ [Next]_vars => [Stream!Next]_(Stream!vars)
<1> SUFFICES ASSUME IInv, Gathered, [Next]_vars PROVE [Stream!Next]_(Stream!vars)
  OBVIOUS
<1>1. CASE InsertByte \/ Spill
  <2>1. handled' = handled /\ \E b \in Byte : rcvd' = Append(rcvd, b)
    BY <1>1, InsertedByte
  <2>2. Stream!Arrive
    BY <2>1, SameWords DEF Stream!Arrive
  <2> QED
    BY <2>2 DEF Stream!Next
<1>2. CASE ParseByte /\ Completes(pb, buffer[tail_pos])
  <2>1. /\ handled' = Append(handled, [frame |-> FrameOf(pb), end |-> parsed + 1])
        /\ rcvd' = rcvd
    BY <1>2 DEF ParseByte
  <2>2. parsed \in Nat /\ parsed < Len(rcvd) /\ buffer[tail_pos] = rcvd[parsed + 1]
    BY <1>2, NextByteIs
  <2>3. pb.proto_stat = "WAIT_CRC" /\ rcvd[parsed + 1] = pb.data_crc /\ ~Wedged(pb)
    BY <1>2, <2>2 DEF Completes, Wedged
  <2>4. PICK start \in Nat : /\ start + Taken(pb) = parsed
                             /\ Stream!Used <= start
                             /\ UnderWay(pb, rcvd, start)
    BY <2>3 DEF Gathered
  <2>5. pb \in ProtoBuff /\ Coherent(pb) /\ rcvd \in Seq(Byte)
    BY DEF IInv, TypeOK, ParserCoherent
  <2>6. /\ IsFrame(SubSeq(rcvd, start + 1, parsed + 1))
        /\ Decode(SubSeq(rcvd, start + 1, parsed + 1)) = FrameOf(pb)
    BY <2>2, <2>3, <2>4, <2>5, WholeFrame
  <2>7. start + 1 \in 1 .. Len(rcvd) /\ parsed + 1 \in 1 .. Len(rcvd) /\ Stream!Used < start + 1
    <3>1. Taken(pb) \in Nat /\ Len(rcvd) \in Nat
      BY <2>5, TakenIs
    <3>2. Stream!Used \in Nat
      BY UsedType
    <3> QED
      BY <2>2, <2>4, <3>1, <3>2
  <2>8. Stream!Deliver
    BY <2>1, <2>6, <2>7, SameWords DEF Stream!Deliver
  <2> QED
    BY <2>8 DEF Stream!Next
<1>3. CASE ~InsertByte /\ ~Spill /\ ~(ParseByte /\ Completes(pb, buffer[tail_pos]))
  <2>1. UNCHANGED <<rcvd, handled>>
    BY <1>3 DEF Next, Program, Transmit, Read, ReadFails, BeginParse, ParseByte, EndRound, vars
  <2> QED
    BY <2>1 DEF Stream!vars
<1> QED
  BY <1>1, <1>2, <1>3

\* mlx_comm_test -p implements FrameStream: whatever the reads cut the line
\* into, every frame handled stands in the bytes received with a correct
\* checksum, in the order received, and no byte is part of two.
THEOREM StreamImplemented == Spec => DeliversFrames
<1>1. Init => Stream!Init
  BY DEF Init, Stream!Init
<1> QED
  BY <1>1, InitIInv, NextIInv, InitGathered, NextGathered, NextImplements, PTL
     DEF Spec, DeliversFrames, Stream!Spec

-----------------------------------------------------------------------------
(***************************************************************************)
(* HandledAsSent.  Where each transmission stands on the line, and what    *)
(* the parser makes of one that leaves it waiting for FF.                  *)
(***************************************************************************)

\* The bytes that came over the line; a failed read adds bytes that did not.
Came == IF pc = "spill" THEN SubSeq(rcvd, 1, parsed) ELSE rcvd

\* Every byte that was sent, in order, wherever it is by now.
Line == Came \o chunk \o tty

NoFF(t) == \A k \in 1 .. Len(t) : t[k] # SOH_FF

\* The k-th transmission is what stands on the line from ends[k - 1] to
\* ends[k].
Laid(ends) ==
    /\ ends \in [0 .. Len(sent) -> Nat]
    /\ ends[0] = 0 /\ ends[Len(sent)] = Len(Line)
    /\ \A k \in 1 .. Len(sent) :
         /\ ends[k] = ends[k - 1] + Len(sent[k])
         /\ \A i \in 1 .. Len(sent[k]) : Line[ends[k - 1] + i] = sent[k][i]

\* What the parser p knows of the transmission t after its first o bytes.
Inside(p, t, o) ==
    \/ NoFF(t) /\ p.proto_stat = "WAIT_FF"
    \/ Shaped(t) /\ ~Wedged(p) /\ Taken(p) = o /\ UnderWay(p, t, 0)

\* The first m transmissions are parsed, and the next one as far as parsed
\* says; the frames handled are the frames among the first m.
AsSent(ends, m) ==
    /\ m \in 0 .. Len(sent) /\ ends[m] <= parsed
    /\ \/ parsed = ends[m] /\ pb.proto_stat = "WAIT_FF"
       \/ /\ m < Len(sent)
          /\ parsed < ends[m + 1]
          /\ Inside(pb, sent[m + 1], parsed - ends[m])
    /\ Len(handled) = FramesUpTo(m)
    /\ \A k \in 1 .. Len(handled) :
         \E n \in 1 .. m : /\ IsFrame(sent[n])
                           /\ FramesUpTo(n) = k
                           /\ handled[k].frame = Decode(sent[n])

InOrder == InStep => \E ends : Laid(ends) /\ \E m \in 0 .. Len(sent) : AsSent(ends, m)

-----------------------------------------------------------------------------
\* Before its first byte everything is known of a transmission.
LEMMA InsideStart ==
    ASSUME NEW p \in ProtoBuff, NEW t, p.proto_stat = "WAIT_FF", NoFF(t) \/ Shaped(t)
    PROVE  Inside(p, t, 0)
<1>1. Taken(p) = 0 /\ ~Wedged(p)
  BY TakenIs DEF Wedged
<1>2. UnderWay(p, t, 0)
  BY <1>1 DEF UnderWay
<1> QED
  BY <1>1, <1>2 DEF Inside

\* Where the parser stands in a transmission shaped like a frame.
LEMMA ShapedAt ==
    ASSUME NEW p \in ProtoBuff, NEW t \in Seq(Byte), NEW o \in Nat, o < Len(t),
           Coherent(p), Shaped(t), ~Wedged(p), Taken(p) = o, UnderWay(p, t, 0)
    PROVE  /\ p.proto_stat = "WAIT_FF" => t[o + 1] = SOH_FF
           /\ p.proto_stat = "WAIT_55" => t[o + 1] = SOH_55
           /\ p.proto_stat = "WAIT_AA" => t[o + 1] = SOH_AA
           /\ p.proto_stat = "WAIT_LEN" => t[o + 1] = t[4]
           /\ p.proto_stat \in {"WAIT_TYPE", "WAIT_DATA", "WAIT_CRC"} =>
                o = p.data_cnt + 4 /\ p.data_len = t[4]
           /\ p.proto_stat = "WAIT_TYPE" => p.data_cnt = 0 /\ t[o + 1] = t[5]
           /\ p.proto_stat \in {"WAIT_DATA", "WAIT_CRC"} => p.proto_type = t[5]
           /\ p.proto_stat = "WAIT_CRC" <=> o + 1 = Len(t)
<1>1. /\ p.data_cnt \in Nat /\ p.data_len \in Nat /\ p.proto_stat \in ProtoStat
      /\ \A k \in 1 .. Len(t) : t[k] \in Nat
  BY ProtoFrameAssumption DEF ProtoBuff, Byte
<1>2. /\ Len(t) \in Nat /\ Len(t) >= 6 /\ t[1] = SOH_FF /\ t[2] = SOH_55 /\ t[3] = SOH_AA
      /\ IF IsAck(t[5]) THEN Len(t) = 6 /\ t[4] >= 1
                        ELSE Len(t) = t[4] + 5 /\ t[4] >= 2
      /\ t[4] \in Nat
  <2>1. Len(t) \in Nat /\ Len(t) >= 6
    BY DEF Shaped
  <2>2. 4 \in 1 .. Len(t)
    BY <2>1
  <2> QED
    BY <1>1, <2>1, <2>2 DEF Shaped
<1>3. CASE p.proto_stat \in {"WAIT_FF", "WAIT_55", "WAIT_AA", "WAIT_LEN"}
  <2>1. /\ p.proto_stat = "WAIT_FF" => o + 1 = 1
        /\ p.proto_stat = "WAIT_55" => o + 1 = 2
        /\ p.proto_stat = "WAIT_AA" => o + 1 = 3
        /\ p.proto_stat = "WAIT_LEN" => o + 1 = 4
    BY TakenIs
  <2>2. o + 1 # Len(t)
    BY <1>2, <1>3, <2>1
  <2> QED
    BY <1>2, <1>3, <2>1, <2>2
<1>4. CASE p.proto_stat \in {"WAIT_TYPE", "WAIT_DATA", "WAIT_CRC"}
  <2>1. o = p.data_cnt + 4
    BY <1>4, TakenIs
  <2>2. Body(p, SubSeq(t, 4, o))
    <3>1. o >= 3 /\ 0 + 4 = 4 /\ 0 + o = o
      BY <1>1, <2>1
    <3>2. Body(p, SubSeq(t, 0 + 4, 0 + o))
      BY <3>1 DEF UnderWay
    <3> QED
      BY <3>1, <3>2
  <2>3. PICK s : s = SubSeq(t, 4, o)
    OBVIOUS
  <2>4. s[1] = p.data_len /\ (p.data_cnt >= 1 => s[2] = p.proto_type)
    BY <1>4, <2>2, <2>3 DEF Body
  <2>5. s[1] = t[4] /\ (p.data_cnt >= 1 => s[2] = t[5])
    <3>1. o + 1 >= 4 /\ o <= Len(t) /\ o - 4 + 1 = p.data_cnt + 1
      BY <1>1, <1>2, <2>1
    <3>2. \A k \in 1 .. o - 4 + 1 : s[k] = t[4 + k - 1]
      BY <2>3, <3>1, SubSeqIs
    <3>3. 1 \in 1 .. p.data_cnt + 1 /\ (p.data_cnt >= 1 => 2 \in 1 .. p.data_cnt + 1)
      BY <1>1
    <3>4. 4 + 1 - 1 = 4 /\ 4 + 2 - 1 = 5
      OBVIOUS
    <3> QED
      BY <3>1, <3>2, <3>3, <3>4
  <2>6. p.data_len = t[4] /\ (p.data_cnt >= 1 => p.proto_type = t[5])
    BY <2>4, <2>5
  <2>7. CASE p.proto_stat = "WAIT_TYPE"
    <3>1. p.data_cnt = 0
      BY <2>7 DEF Coherent
    <3>2. o + 1 = 5
      BY <2>1, <3>1
    <3>3. o + 1 # Len(t)
      <4>1. Len(t) >= 6
        BY <1>2
      <4> QED
        BY <3>2, <4>1
    <3> QED
      BY <2>1, <2>6, <2>7, <3>1, <3>2, <3>3
  <2>8. CASE p.proto_stat = "WAIT_DATA"
    <3>1. ~IsAck(p.proto_type) /\ p.data_cnt \in 1 .. p.data_len
          /\ (p.data_cnt = p.data_len => p.data_len = 1)
      BY <2>8 DEF Coherent
    <3>2. p.proto_type = t[5] /\ p.data_cnt < p.data_len /\ Len(t) = p.data_len + 5
      BY <1>1, <1>2, <2>6, <3>1
    <3>3. o + 1 # Len(t)
      BY <1>1, <2>1, <3>2
    <3> QED
      BY <2>1, <2>6, <2>8, <3>2, <3>3
  <2>9. CASE p.proto_stat = "WAIT_CRC"
    <3>1. IF IsAck(p.proto_type) THEN p.data_cnt = 1 /\ p.data_len >= 1
                                 ELSE p.data_cnt = p.data_len /\ p.data_len >= 2
      BY <2>9 DEF Coherent
    <3>2. p.data_cnt >= 1
      BY <1>1, <3>1
    <3>3. p.proto_type = t[5]
      BY <2>6, <3>2
    <3>4. o + 1 = Len(t)
      <4>1. CASE IsAck(t[5])
        BY <1>2, <2>1, <3>1, <3>3, <4>1
      <4>2. CASE ~IsAck(t[5])
        <5>1. p.data_cnt = t[4] /\ Len(t) = t[4] + 5
          BY <1>2, <2>6, <3>1, <3>3, <4>2
        <5> QED
          BY <1>2, <2>1, <5>1
      <4> QED
        BY <4>1, <4>2
    <3> QED
      BY <2>1, <2>6, <2>9, <3>3, <3>4
  <2> QED
    BY <1>4, <2>7, <2>8, <2>9
<1> QED
  BY <1>1, <1>3, <1>4 DEF ProtoStat

\* One byte more, and it is not the last.
LEMMA InsideMore ==
    ASSUME NEW p \in ProtoBuff, NEW t \in Seq(Byte), NEW o \in Nat, NEW b,
           o + 1 < Len(t), b = t[o + 1], Coherent(p), Inside(p, t, o)
    PROVE  /\ ~Resets(p, b) /\ ~Completes(p, b)
           /\ Inside(Advance(p, b), t, o + 1)
<1>1. o + 1 \in 1 .. Len(t) /\ b \in Byte /\ o < Len(t)
  <2>1. o + 1 \in 1 .. Len(t) /\ o < Len(t)
    OBVIOUS
  <2> QED
    BY <2>1
<1>2. CASE NoFF(t) /\ p.proto_stat = "WAIT_FF"
  <2>1. b # SOH_FF
    BY <1>1, <1>2 DEF NoFF
  <2>2. Advance(p, b) = p /\ ~Resets(p, b) /\ ~Completes(p, b)
    BY <1>2, <2>1 DEF Advance, Resets, Completes
  <2> QED
    BY <1>2, <2>2 DEF Inside
<1>3. CASE Shaped(t) /\ ~Wedged(p) /\ Taken(p) = o /\ UnderWay(p, t, 0)
  <2>1. p.proto_stat # "WAIT_CRC"
    BY <1>1, <1>3, ShapedAt
  <2>2. ~Resets(p, b) /\ ~Completes(p, b)
    BY <1>1, <1>3, <2>1, ShapedAt DEF Resets, Completes
  <2>3. p.proto_stat = "WAIT_FF" => b = SOH_FF
    BY <1>1, <1>3, ShapedAt
  <2>4. UnderWay(Advance(p, b), t, 0) /\ Taken(Advance(p, b)) = o + 1
    <3>1. 0 + Taken(p) < Len(t) /\ b = t[0 + Taken(p) + 1] /\ 0 \in Nat
      BY <1>1, <1>3
    <3> QED
      BY <1>3, <2>2, <2>3, <3>1, UnderWayGrows
  <2>5. ~Wedged(Advance(p, b))
    <3>1. /\ p.data_cnt \in Nat /\ p.data_len \in Nat /\ b \in Nat
          /\ t[4] \in Nat /\ t[4] >= 1 /\ (~IsAck(t[5]) => t[4] >= 2)
      <4>1. p.data_cnt \in Nat /\ p.data_len \in Nat /\ b \in Nat
        BY <1>1, ProtoFrameAssumption DEF ProtoBuff, Byte
      <4>2. 4 \in 1 .. Len(t)
        BY <1>3 DEF Shaped
      <4>3. t[4] \in Nat
        BY <4>2, ProtoFrameAssumption DEF Byte
      <4> QED
        BY <1>3, <4>1, <4>3 DEF Shaped
    <3>2. CASE p.proto_stat \in {"WAIT_FF", "WAIT_55", "WAIT_AA"}
      <4>1. Advance(p, b).proto_stat \in {"WAIT_55", "WAIT_AA", "WAIT_LEN"}
        BY <2>2, <2>3, <3>2 DEF Advance, Resets, ProtoBuff
      <4> QED
        BY <4>1 DEF Wedged
    <3>3. CASE p.proto_stat = "WAIT_LEN"
      <4>1. Advance(p, b).data_len = b /\ Advance(p, b).data_cnt = p.data_cnt
        BY <3>3 DEF Advance, AdvanceLen, ProtoBuff
      <4>2. p.data_cnt = 0
        BY <3>3 DEF Coherent, ProtoReset
      <4>3. b = t[4]
        BY <1>1, <1>3, <3>3, ShapedAt
      <4> QED
        BY <3>1, <4>1, <4>2, <4>3 DEF Wedged, Room
    <3>4. CASE p.proto_stat = "WAIT_TYPE"
      <4>1. p.data_cnt = 0 /\ p.data_len = t[4] /\ b = t[5] /\ Room(p)
        BY <1>1, <1>3, <3>4, ShapedAt DEF Wedged
      <4>2. /\ Advance(p, b).data_len = p.data_len /\ Advance(p, b).data_cnt = p.data_cnt + 1
            /\ Advance(p, b).proto_stat = IF IsAck(b) THEN "WAIT_CRC" ELSE "WAIT_DATA"
        BY <3>4, <4>1 DEF Advance, AdvanceType, ProtoBuff
      <4> QED
        BY <3>1, <4>1, <4>2 DEF Wedged, Room
    <3>5. CASE p.proto_stat = "WAIT_DATA"
      <4>1. Room(p)
        BY <1>3, <3>5 DEF Wedged
      <4>2. /\ Advance(p, b).data_len = p.data_len /\ Advance(p, b).data_cnt = p.data_cnt + 1
            /\ Advance(p, b).proto_stat = IF p.data_len = p.data_cnt + 1
                                          THEN "WAIT_CRC" ELSE "WAIT_DATA"
        BY <3>5, <4>1 DEF Advance, AdvanceData, ProtoBuff
      <4> QED
        BY <3>1, <4>1, <4>2 DEF Wedged, Room
    <3> QED
      BY <2>1, <3>2, <3>3, <3>4, <3>5 DEF ProtoBuff, ProtoStat
  <2> QED
    BY <1>3, <2>2, <2>4, <2>5 DEF Inside
<1> QED
  BY <1>2, <1>3 DEF Inside

\* The last byte: the parser waits for FF again, and has completed the
\* transmission if that is a frame.
LEMMA InsideLast ==
    ASSUME NEW p \in ProtoBuff, NEW t \in Seq(Byte), NEW o \in Nat, NEW b,
           o + 1 = Len(t), b = t[o + 1], Coherent(p), Inside(p, t, o)
    PROVE  /\ Completes(p, b) <=> IsFrame(t)
           /\ Completes(p, b) => FrameOf(p) = Decode(t)
           /\ Resets(p, b) \/ Advance(p, b).proto_stat = "WAIT_FF"
<1>1. o + 1 \in 1 .. Len(t) /\ o < Len(t)
  OBVIOUS
<1>2. CASE NoFF(t) /\ p.proto_stat = "WAIT_FF"
  <2>1. b # SOH_FF
    BY <1>1, <1>2 DEF NoFF
  <2>2. Advance(p, b) = p /\ ~Completes(p, b)
    BY <1>2, <2>1 DEF Advance, Completes
  <2>3. t[1] # SOH_FF
    <3>1. 1 \in 1 .. Len(t)
      BY <1>1
    <3> QED
      BY <1>2, <3>1 DEF NoFF
  <2> QED
    BY <1>2, <2>2, <2>3 DEF IsFrame, Shaped
<1>3. CASE Shaped(t) /\ ~Wedged(p) /\ Taken(p) = o /\ UnderWay(p, t, 0)
  <2>1. p.proto_stat = "WAIT_CRC"
    BY <1>1, <1>3, ShapedAt
  <2>2. /\ IsFrame(SubSeq(t, 0 + 1, o + 1)) <=> t[o + 1] = p.data_crc
        /\ Decode(SubSeq(t, 0 + 1, o + 1)) = FrameOf(p)
    <3>1. o = 0 + Taken(p) /\ 0 \in Nat
      BY <1>3
    <3> QED
      BY <1>1, <1>3, <2>1, <3>1, WholeFrame
  <2>3. SubSeq(t, 0 + 1, o + 1) = t
    OBVIOUS
  <2> QED
    BY <2>1, <2>2, <2>3 DEF Completes, Resets
<1> QED
  BY <1>2, <1>3 DEF Inside

-----------------------------------------------------------------------------
\* The line begins with what was received.
LEMMA LineIs ==
    ASSUME IInv, pc # "spill"
    PROVE  /\ Line \in Seq(Byte) /\ Len(Line) = Len(rcvd) + Len(chunk) + Len(tty)
           /\ \A k \in 1 .. Len(rcvd) : Line[k] = rcvd[k]
<1>1. rcvd \in Seq(Byte) /\ chunk \in Seq(Byte) /\ tty \in Seq(Byte)
  BY DEF IInv, TypeOK
<1> QED
  BY <1>1 DEF Line, Came

\* What came is part of what is in the ring's history.
LEMMA CameType == ASSUME IInv PROVE Came \in Seq(Byte)
<1>1. rcvd \in Seq(Byte) /\ parsed \in Nat
  BY DEF IInv, TypeOK
<1>2. CASE pc = "spill"
  <2>1. parsed <= Len(rcvd)
    BY <1>1, <1>2 DEF IInv, TypeOK, RingFifo, Pending
  <2> QED
    BY <1>1, <1>2, <2>1 DEF Came
<1> QED
  BY <1>1, <1>2 DEF Came

\* A byte that goes from the chunk into the ring stays in its place on the line.
LEMMA TailOf ==
    ASSUME NEW r \in Seq(Byte), NEW s \in Seq(Byte), NEW t \in Seq(Byte), s # <<>>
    PROVE  Append(r, Head(s)) \o Tail(s) \o t = r \o s \o t
  OBVIOUS

\* Sequences with the same entries are the same.
LEMMA SameSeq ==
    ASSUME NEW s \in Seq(Byte), NEW t \in Seq(Byte), Len(s) = Len(t),
           \A k \in 1 .. Len(s) : s[k] = t[k]
    PROVE  s = t
  OBVIOUS

\* A read cuts what is pending in two.
LEMMA SplitOf ==
    ASSUME NEW r \in Seq(Byte), NEW t \in Seq(Byte), NEW n \in 0 .. Len(t)
    PROVE  r \o SubSeq(t, 1, n) \o SubSeq(t, n + 1, Len(t)) = r \o <<>> \o t
<1>1. PICK u, v : u = SubSeq(t, 1, n) /\ v = SubSeq(t, n + 1, Len(t))
  OBVIOUS
<1>0. /\ 1 \in Nat /\ 1 >= 1 /\ n \in Nat /\ n + 1 >= 1 /\ n <= Len(t)
      /\ n + 1 \in Nat /\ Len(t) \in Nat /\ Len(t) + 1 >= n + 1 /\ Len(t) <= Len(t)
  OBVIOUS
<1>1a. u \in Seq(Byte) /\ Len(u) = n /\ \A k \in 1 .. n : u[k] = t[k]
  <2>1. u \in Seq(Byte) /\ Len(u) = n - 1 + 1 /\ \A k \in 1 .. n - 1 + 1 : u[k] = t[1 + k - 1]
    BY <1>0, <1>1, SubSeqIs
  <2>2. n - 1 + 1 = n /\ \A k \in 1 .. n : 1 + k - 1 = k
    BY <1>0
  <2> QED
    BY <2>1, <2>2
<1>1b. v \in Seq(Byte) /\ Len(v) = Len(t) - n /\ \A k \in 1 .. Len(t) - n : v[k] = t[n + k]
  <2>1. /\ v \in Seq(Byte) /\ Len(v) = Len(t) - (n + 1) + 1
        /\ \A k \in 1 .. Len(t) - (n + 1) + 1 : v[k] = t[(n + 1) + k - 1]
    BY <1>0, <1>1, SubSeqIs
  <2>2. Len(t) - (n + 1) + 1 = Len(t) - n
    BY <1>0
  <2>3. ASSUME NEW k \in 1 .. Len(t) - n PROVE v[k] = t[n + k]
    <3>1. k \in 1 .. Len(t) - (n + 1) + 1 /\ (n + 1) + k - 1 = n + k
      BY <1>0
    <3>2. v[k] = t[(n + 1) + k - 1]
      BY <2>1, <3>1
    <3> QED
      BY <3>1, <3>2
  <2>4. v \in Seq(Byte) /\ Len(v) = Len(t) - n
    BY <2>1, <2>2
  <2> QED
    BY <2>3, <2>4
<1>3. u \o v = t
  <2>1. u \o v \in Seq(Byte) /\ Len(u \o v) = Len(t)
    <3>1. u \in Seq(Byte) /\ v \in Seq(Byte) /\ Len(u) = n /\ Len(v) = Len(t) - n
      BY <1>1a, <1>1b
    <3>2. u \o v \in Seq(Byte) /\ Len(u \o v) = Len(u) + Len(v)
      BY <3>1
    <3> QED
      BY <1>0, <3>1, <3>2
  <2>2. ASSUME NEW k \in 1 .. Len(u \o v) PROVE (u \o v)[k] = t[k]
    <3>1. CASE k <= n
      BY <1>1a, <1>1b, <3>1
    <3>2. CASE k > n
      <4>1. k - n \in 1 .. Len(t) - n /\ n + (k - n) = k
        BY <2>1, <3>2
      <4>2. (u \o v)[k] = v[k - n]
        BY <1>1a, <1>1b, <2>1, <3>2
      <4> QED
        BY <1>1a, <1>1b, <4>1, <4>2
    <3> QED
      BY <2>1, <3>1, <3>2
  <2> QED
    BY <2>1, <2>2, SameSeq
<1>4. r \o u \o v = r \o (u \o v) /\ r \o <<>> = r
  BY <1>1a, <1>1b
<1> QED
  BY <1>1, <1>3, <1>4

\* The program moves bytes along the line and loses none; what a failed read
\* puts in the ring did not come over the line.
LEMMA LineKept == IInv /\ (Program \/ ReadFails \/ Spill \/ UNCHANGED vars) => Line' = Line
<1> SUFFICES ASSUME IInv, Program \/ ReadFails \/ Spill \/ UNCHANGED vars PROVE Line' = Line
  OBVIOUS
<1>1. rcvd \in Seq(Byte) /\ chunk \in Seq(Byte) /\ tty \in Seq(Byte)
  BY DEF IInv, TypeOK
<1>2. CASE Read
  <2>1. PICK n \in 1 .. ReadMax : /\ n <= Len(tty)
                                  /\ chunk' = SubSeq(tty, 1, n)
                                  /\ tty' = SubSeq(tty, n + 1, Len(tty))
    BY <1>2 DEF Read
  <2>2. n \in 0 .. Len(tty) /\ chunk = <<>> /\ rcvd' = rcvd
    BY <1>1, <1>2, <2>1, CommTestParserAssumption DEF IInv, RoundDrains, Read
  <2>3. Line = rcvd \o chunk \o tty /\ Line' = rcvd' \o chunk' \o tty'
    BY <1>2 DEF Line, Came, Read
  <2> QED
    BY <1>1, <2>1, <2>2, <2>3, SplitOf
<1>3. CASE InsertByte
  <2>1. /\ chunk # <<>> /\ chunk' = Tail(chunk) /\ rcvd' = Append(rcvd, Head(chunk))
        /\ tty' = tty
    BY <1>3 DEF InsertByte, Insert
  <2>2. Line = rcvd \o chunk \o tty /\ Line' = rcvd' \o chunk' \o tty'
    BY <1>3 DEF Line, Came, InsertByte
  <2> QED
    BY <1>1, <2>1, <2>2, TailOf
<1>4. CASE BeginParse \/ ParseByte \/ EndRound \/ UNCHANGED vars
  <2>1. /\ UNCHANGED <<rcvd, chunk, tty>>
        /\ UNCHANGED <<pc, parsed>> \/ (pc # "spill" /\ pc' # "spill")
    BY <1>4 DEF BeginParse, ParseByte, EndRound, vars
  <2> QED
    BY <2>1 DEF Line, Came
<1>5. CASE ReadFails
  <2>1. /\ pc = "read" /\ pc' = "spill"
        /\ UNCHANGED <<chunk, tty, rcvd, parsed>>
    BY <1>5 DEF ReadFails
  <2>2. Len(rcvd) = parsed
    BY <1>1, <2>1 DEF IInv, TypeOK, RoundDrains, RingFifo, Pending
  <2>3. SubSeq(rcvd, 1, Len(rcvd)) = rcvd
    BY <1>1
  <2> QED
    BY <2>1, <2>2, <2>3 DEF Line, Came
<1>6. CASE Spill
  <2>1. pc = "spill" /\ pc' = "spill" /\ UNCHANGED <<chunk, tty, parsed>>
    BY <1>6 DEF Spill
  <2>2. PICK byte : byte \in Byte /\ rcvd' = Append(rcvd, byte)
    BY <1>6, InsertedByte
  <2>3. parsed \in Nat /\ parsed <= Len(rcvd)
    BY <2>1 DEF IInv, TypeOK, RingFifo, Pending
  <2>4. SubSeq(rcvd', 1, parsed) = SubSeq(rcvd, 1, parsed)
    BY <1>1, <2>2, <2>3
  <2> QED
    BY <2>1, <2>4 DEF Line, Came
<1> QED
  BY <1>2, <1>3, <1>4, <1>5, <1>6 DEF Program

\* Counting one transmission more.
LEMMA CountMore ==
    ASSUME NEW m \in Nat
    PROVE  /\ FramesUpTo(m) \in Nat
           /\ FramesUpTo(m + 1) = IF IsFrame(sent[m + 1]) THEN FramesUpTo(m) + 1 ELSE FramesUpTo(m)
<1> DEFINE H == {i \in 1 .. m : IsFrame(sent[i])}
           H1 == {i \in 1 .. m + 1 : IsFrame(sent[i])}
<1>1. IsFiniteSet(H)
  <2>1. IsFiniteSet(1 .. m)
    BY FS_Interval
  <2>2. H \subseteq 1 .. m
    OBVIOUS
  <2> HIDE DEF H
  <2> QED
    BY <2>1, <2>2, FS_Subset
<1>2. Cardinality(H) \in Nat
  BY <1>1, FS_CardinalityType
<1>3. FramesUpTo(m) = Cardinality(H) /\ FramesUpTo(m + 1) = Cardinality(H1)
  BY DEF FramesUpTo
<1>4. CASE IsFrame(sent[m + 1])
  <2>1. H1 = H \cup {m + 1} /\ m + 1 \notin H
    BY <1>4
  <2>2. Cardinality(H \cup {m + 1}) = Cardinality(H) + 1
    BY <1>1, <2>1, FS_AddElement
  <2> QED
    BY <1>2, <1>3, <1>4, <2>1, <2>2
<1>5. CASE ~IsFrame(sent[m + 1])
  <2>1. H1 = H
    BY <1>5
  <2> QED
    BY <1>2, <1>3, <1>5, <2>1
<1> QED
  BY <1>4, <1>5

\* The places only grow.
LEMMA EndsGrow ==
    ASSUME NEW N \in Nat, NEW ends \in [0 .. N -> Nat], NEW lens \in [1 .. N -> Nat],
           \A k \in 1 .. N : ends[k] = ends[k - 1] + lens[k]
    PROVE  \A j \in 0 .. N : ends[j] <= ends[N]
<1> DEFINE Bad == {i \in 0 .. N : ~(ends[N - i] <= ends[N])}
<1>1. SUFFICES ASSUME Bad # {} PROVE FALSE
  <2> SUFFICES ASSUME NEW j \in 0 .. N, ~(ends[j] <= ends[N]) PROVE Bad # {}
    OBVIOUS
  <2>1. N - j \in 0 .. N /\ N - (N - j) = j
    OBVIOUS
  <2>2. N - j \in Bad
    BY <2>1
  <2> QED
    BY <2>2
<1>2. PICK i \in Bad : \A k \in Bad : i <= k
  <2>1. Bad \in SUBSET Nat
    OBVIOUS
  <2> HIDE DEF Bad
  <2> QED
    BY <1>1, <2>1, LeastElement
<1>3. i \in 0 .. N /\ ~(ends[N - i] <= ends[N])
  OBVIOUS
<1>4. i # 0
  <2> SUFFICES ASSUME i = 0 PROVE FALSE
    OBVIOUS
  <2>1. N - i = N /\ ends[N] \in Nat
    OBVIOUS
  <2>2. ends[N - i] = ends[N]
    BY <2>1
  <2> HIDE DEF Bad
  <2>3. ~(ends[N] <= ends[N])
    BY <1>3, <2>2
  <2> QED
    BY <2>1, <2>3
<1>5. i - 1 \in 0 .. N /\ i - 1 \notin Bad
  <2>1. i - 1 \in 0 .. N /\ ~(i <= i - 1)
    BY <1>3, <1>4
  <2> HIDE DEF Bad
  <2> QED
    BY <1>2, <2>1
<1>6. ends[N - (i - 1)] <= ends[N]
  BY <1>5
<1>7. N - i + 1 \in 1 .. N /\ N - (i - 1) = N - i + 1 /\ (N - i + 1) - 1 = N - i /\ N - i \in 0 .. N
  BY <1>3, <1>4
<1>8. ends[N - i + 1] = ends[N - i] + lens[N - i + 1]
  BY <1>7
<1>9. ends[N - i] \in Nat /\ lens[N - i + 1] \in Nat /\ ends[N] \in Nat
  BY <1>7
<1> QED
  BY <1>3, <1>6, <1>7, <1>8, <1>9

\* What appending changes and what it leaves.
LEMMA AppendIs ==
    ASSUME NEW S, NEW s \in Seq(S), NEW d
    PROVE  /\ Len(s) \in Nat /\ Len(Append(s, d)) = Len(s) + 1
           /\ Append(s, d)[Len(s) + 1] = d
           /\ \A k \in 1 .. Len(s) : Append(s, d)[k] = s[k]
  OBVIOUS

-----------------------------------------------------------------------------
\* Nothing is sent and nothing is handled at first.
LEMMA InitInOrder == Init => InOrder
<1> SUFFICES ASSUME Init
             PROVE  \E ends : Laid(ends) /\ \E m \in 0 .. Len(sent) : AsSent(ends, m)
  BY DEF InOrder
<1> DEFINE ends == [k \in 0 .. 0 |-> 0]
<1>1. sent = <<>> /\ Len(sent) = 0 /\ Len(Line) = 0
  BY DEF Init, Line, Came
<1>2. Laid(ends)
  BY <1>1 DEF Laid
<1>3. FramesUpTo(0) = 0
  <2>1. {i \in 1 .. 0 : IsFrame(sent[i])} = {}
    OBVIOUS
  <2> QED
    BY <2>1, FS_EmptySet DEF FramesUpTo
<1>4. AsSent(ends, 0)
  <2>1. parsed = 0 /\ ends[0] = 0 /\ pb.proto_stat = "WAIT_FF" /\ Len(handled) = 0
    BY DEF Init, ProtoReset
  <2> HIDE DEF ends
  <2> QED
    BY <1>1, <1>3, <2>1 DEF AsSent
<1> QED
  BY <1>1, <1>2, <1>4

\* One transmission more on the line.
LEMMA TransmitInOrder == IInv /\ InOrder /\ Transmit => InOrder'
<1> SUFFICES ASSUME IInv, InOrder, Transmit, InStep'
             PROVE  (\E ends : Laid(ends) /\ \E m \in 0 .. Len(sent) : AsSent(ends, m))'
  BY DEF InOrder
<1>1. PICK bytes \in Transmissions : sent' = Append(sent, bytes) /\ tty' = tty \o bytes
  BY DEF Transmit
<1>2. UNCHANGED <<pc, chunk, rcvd, pb, parsed, handled>>
  BY DEF Transmit
<1>3. /\ sent \in Seq(Transmissions) /\ bytes \in Seq(Byte)
      /\ rcvd \in Seq(Byte) /\ chunk \in Seq(Byte) /\ tty \in Seq(Byte)
  BY CommTestParserAssumption DEF IInv, TypeOK
<1>4. PICK N : N = Len(sent)
  OBVIOUS
<1>5. /\ N \in Nat /\ Len(sent') = N + 1 /\ sent'[N + 1] = bytes
      /\ \A k \in 1 .. N : sent'[k] = sent[k]
  BY <1>1, <1>3, <1>4
<1>6. InStep
  BY <1>4, <1>5 DEF InStep
<1>7. PICK ends : Laid(ends) /\ \E m \in 0 .. Len(sent) : AsSent(ends, m)
  BY <1>6 DEF InOrder
<1>8. PICK m \in 0 .. N : AsSent(ends, m)
  BY <1>4, <1>7
<1>9. PICK line : line = Line
  OBVIOUS
<1>10. /\ line \in Seq(Byte) /\ Line' = line \o bytes
  <2>1. Came \in Seq(Byte) /\ Came' = Came
    BY <1>2, CameType DEF Came
  <2>2. Line = Came \o chunk \o tty /\ Line' = Came \o chunk \o (tty \o bytes)
    BY <1>1, <1>2, <2>1 DEF Line
  <2>3. PICK c \in Seq(Byte) : c = Came
    BY <2>1
  <2>4. c \o chunk \o (tty \o bytes) = (c \o chunk \o tty) \o bytes /\ c \o chunk \o tty \in Seq(Byte)
    BY <1>3
  <2> QED
    BY <1>9, <2>2, <2>3, <2>4
<1>11. /\ Len(line \o bytes) = Len(line) + Len(bytes)
       /\ \A k \in 1 .. Len(line) : (line \o bytes)[k] = line[k]
       /\ \A i \in 1 .. Len(bytes) : (line \o bytes)[Len(line) + i] = bytes[i]
  BY <1>3, <1>10
<1>12. /\ ends \in [0 .. N -> Nat] /\ ends[0] = 0 /\ ends[N] = Len(line)
       /\ \A k \in 1 .. N : /\ ends[k] = ends[k - 1] + Len(sent[k])
                            /\ \A i \in 1 .. Len(sent[k]) : line[ends[k - 1] + i] = sent[k][i]
  BY <1>4, <1>7, <1>9 DEF Laid
<1>13. PICK e : e = [k \in 0 .. N + 1 |-> IF k = N + 1 THEN Len(line) + Len(bytes) ELSE ends[k]]
  OBVIOUS
<1>14. /\ e \in [0 .. N + 1 -> Nat] /\ e[N + 1] = Len(line) + Len(bytes)
       /\ \A k \in 0 .. N : e[k] = ends[k]
  BY <1>3, <1>5, <1>10, <1>12, <1>13
<1>15. ASSUME NEW k \in 1 .. N + 1
       PROVE  /\ e[k] = e[k - 1] + Len(sent'[k])
              /\ \A i \in 1 .. Len(sent'[k]) : (line \o bytes)[e[k - 1] + i] = sent'[k][i]
  <2>1. CASE k = N + 1
    <3>1. e[k - 1] = Len(line) /\ sent'[k] = bytes
      BY <1>5, <1>12, <1>14, <2>1
    <3> QED
      BY <1>11, <1>14, <2>1, <3>1
  <2>2. CASE k # N + 1
    <3>0. \A j \in 1 .. N : sent[j] \in Seq(Byte)
      <4>1. \A j \in 1 .. N : sent[j] \in Transmissions
        BY <1>3, <1>4
      <4> QED
        BY <4>1, CommTestParserAssumption
    <3>1. k \in 1 .. N /\ k \in 0 .. N /\ k - 1 \in 0 .. N
      BY <1>5, <2>2
    <3>2. e[k] = ends[k] /\ e[k - 1] = ends[k - 1] /\ sent'[k] = sent[k] /\ sent[k] \in Seq(Byte)
      BY <1>5, <1>14, <3>1, <3>0
    <3>3. ASSUME NEW i \in 1 .. Len(sent[k])
          PROVE  (line \o bytes)[ends[k - 1] + i] = sent[k][i]
      <4>1. ends[k - 1] + i \in 1 .. Len(line)
        <5>1. \A j \in 0 .. N : ends[j] <= Len(line)
          <6>1. PICK lens : lens = [j \in 1 .. N |-> Len(sent[j])]
            OBVIOUS
          <6>2. lens \in [1 .. N -> Nat]
            BY <3>0, <6>1
          <6>3. \A j \in 1 .. N : ends[j] = ends[j - 1] + lens[j]
            BY <1>12, <6>1
          <6>4. \A j \in 0 .. N : ends[j] <= ends[N]
            BY <1>5, <1>12, <6>2, <6>3, EndsGrow
          <6> QED
            BY <1>12, <6>4
        <5>2. ends[k] <= Len(line) /\ ends[k] = ends[k - 1] + Len(sent[k]) /\ ends[k - 1] \in Nat
          BY <1>12, <3>1, <5>1
        <5>3. Len(sent[k]) \in Nat /\ Len(line) \in Nat
          BY <1>10, <3>2
        <5> QED
          BY <5>2, <5>3
      <4> QED
        BY <1>11, <1>12, <3>1, <4>1
    <3> QED
      BY <1>12, <3>1, <3>2, <3>3
  <2> QED
    BY <2>1, <2>2
<1>16. Laid(e)'
  <2>1. e[0] = 0
    BY <1>5, <1>12, <1>14
  <2>2. \A k \in 1 .. N + 1 :
          /\ e[k] = e[k - 1] + Len(sent'[k])
          /\ \A i \in 1 .. Len(sent'[k]) : (line \o bytes)[e[k - 1] + i] = sent'[k][i]
    BY <1>15
  <2> QED
    BY <1>5, <1>10, <1>11, <1>14, <2>1, <2>2 DEF Laid
<1>17. \A n \in 0 .. N : FramesUpTo(n)' = FramesUpTo(n)
  <2> SUFFICES ASSUME NEW n \in 0 .. N
               PROVE  FramesUpTo(n)' = FramesUpTo(n)
    OBVIOUS
  <2>1. {i \in 1 .. n : IsFrame(sent'[i])} = {i \in 1 .. n : IsFrame(sent[i])}
    BY <1>5
  <2> QED
    BY <2>1 DEF FramesUpTo
<1>18. AsSent(e, m)'
  <2>1. /\ m \in 0 .. N + 1 /\ e[m] = ends[m]
        /\ m < N => m + 1 \in 0 .. N /\ e[m + 1] = ends[m + 1] /\ sent'[m + 1] = sent[m + 1]
    BY <1>5, <1>14
  <2>2. /\ ends[m] <= parsed
        /\ \/ parsed = ends[m] /\ pb.proto_stat = "WAIT_FF"
           \/ m < N /\ parsed < ends[m + 1] /\ Inside(pb, sent[m + 1], parsed - ends[m])
        /\ Len(handled) = FramesUpTo(m)
        /\ \A k \in 1 .. Len(handled) :
             \E n \in 1 .. m : /\ IsFrame(sent[n])
                               /\ FramesUpTo(n) = k
                               /\ handled[k].frame = Decode(sent[n])
    BY <1>4, <1>8 DEF AsSent
  <2>3. \/ parsed = e[m] /\ pb.proto_stat = "WAIT_FF"
        \/ m < N + 1 /\ parsed < e[m + 1] /\ Inside(pb, sent'[m + 1], parsed - e[m])
    BY <1>5, <2>1, <2>2
  <2>4. FramesUpTo(m)' = FramesUpTo(m)
    BY <1>17
  <2>5. \A n \in 1 .. m : sent'[n] = sent[n] /\ FramesUpTo(n)' = FramesUpTo(n)
    BY <1>5, <1>17
  <2>6. \A k \in 1 .. Len(handled) :
          \E n \in 1 .. m : /\ IsFrame(sent'[n])
                            /\ FramesUpTo(n)' = k
                            /\ handled[k].frame = Decode(sent'[n])
    BY <2>2, <2>5
  <2> QED
    BY <1>2, <1>5, <2>1, <2>2, <2>3, <2>4, <2>6 DEF AsSent
<1>19. m \in 0 .. Len(sent')
  BY <1>5
<1> QED
  BY <1>16, <1>18, <1>19

\* One byte more of the transmission the parser is in.
LEMMA ParseByteInOrder == IInv /\ InOrder /\ ParseByte => InOrder'
<1> SUFFICES ASSUME IInv, InOrder, ParseByte, InStep'
             PROVE  (\E ends : Laid(ends) /\ \E m \in 0 .. Len(sent) : AsSent(ends, m))'
  BY DEF InOrder
<1>1. PICK byte : byte = buffer[tail_pos]
  OBVIOUS
<1>2. parsed \in Nat /\ parsed < Len(rcvd) /\ byte = rcvd[parsed + 1]
  BY <1>1, NextByteIs
<1>3. /\ pb' = IF Resets(pb, byte) THEN ProtoReset ELSE Advance(pb, byte)
      /\ parsed' = parsed + 1 /\ UNCHANGED <<sent, tty, chunk, rcvd>>
      /\ IF Completes(pb, byte)
         THEN handled' = Append(handled, [frame |-> FrameOf(pb), end |-> parsed + 1])
         ELSE handled' = handled
  BY <1>1 DEF ParseByte, AfterByte
<1>4. /\ pb \in ProtoBuff /\ Coherent(pb) /\ rcvd \in Seq(Byte)
      /\ handled \in Seq([frame : Frame, end : Nat])
      /\ sent \in Seq(Transmissions) /\ Len(sent) \in Nat
  BY DEF IInv, TypeOK, ParserCoherent
<1>5. InStep
  BY <1>3 DEF InStep
<1>6. PICK ends : Laid(ends) /\ \E m \in 0 .. Len(sent) : AsSent(ends, m)
  BY <1>5 DEF InOrder
<1>7. PICK m \in 0 .. Len(sent) : AsSent(ends, m)
  BY <1>6
<1>8. Laid(ends)'
  <2>1. Line' = Line
    BY LineKept DEF Program
  <2> QED
    BY <1>3, <1>6, <2>1 DEF Laid
<1>9. \A n : FramesUpTo(n)' = FramesUpTo(n)
  <2>1. sent' = sent
    BY <1>3
  <2> QED
    BY <2>1 DEF FramesUpTo
<1>10. /\ Line \in Seq(Byte) /\ parsed < Len(Line) /\ Line[parsed + 1] = byte
  <2>1. /\ Line \in Seq(Byte) /\ Len(Line) = Len(rcvd) + Len(chunk) + Len(tty)
        /\ \A k \in 1 .. Len(rcvd) : Line[k] = rcvd[k]
    <3>1. pc # "spill"
      BY DEF ParseByte
    <3> QED
      BY <3>1, LineIs
  <2>2. chunk \in Seq(Byte) /\ tty \in Seq(Byte)
    BY DEF IInv, TypeOK
  <2>3. Len(chunk) \in Nat /\ Len(tty) \in Nat /\ Len(rcvd) \in Nat
    BY <1>4, <2>2
  <2>4. parsed + 1 \in 1 .. Len(rcvd) /\ parsed < Len(Line)
    BY <1>2, <2>1, <2>3
  <2> QED
    BY <1>2, <2>1, <2>4
<1>11. /\ ends \in [0 .. Len(sent) -> Nat] /\ ends[Len(sent)] = Len(Line)
       /\ \A k \in 1 .. Len(sent) :
            /\ ends[k] = ends[k - 1] + Len(sent[k])
            /\ \A i \in 1 .. Len(sent[k]) : Line[ends[k - 1] + i] = sent[k][i]
  BY <1>6 DEF Laid
<1>12. /\ ends[m] <= parsed
       /\ \/ parsed = ends[m] /\ pb.proto_stat = "WAIT_FF"
          \/ m < Len(sent) /\ parsed < ends[m + 1] /\ Inside(pb, sent[m + 1], parsed - ends[m])
       /\ Len(handled) = FramesUpTo(m)
       /\ \A k \in 1 .. Len(handled) :
            \E n \in 1 .. m : /\ IsFrame(sent[n])
                              /\ FramesUpTo(n) = k
                              /\ handled[k].frame = Decode(sent[n])
  BY <1>7 DEF AsSent
<1>13. m \in Nat /\ m < Len(sent) /\ m + 1 \in 1 .. Len(sent) /\ m + 1 \in 0 .. Len(sent)
       /\ (m + 1) - 1 = m
  <2>1. m # Len(sent)
    BY <1>10, <1>11, <1>12
  <2> QED
    BY <1>4, <2>1
<1>14. PICK t : t = sent[m + 1]
  OBVIOUS
<1>15. t \in Seq(Byte) /\ t # <<>> /\ (Shaped(t) \/ NoFF(t))
  <2>1. t \in Clean
    BY <1>5, <1>13, <1>14 DEF InStep
  <2>2. t \in Transmissions
    BY <2>1, CommTestParserAssumption
  <2>3. t \in Seq(Byte)
    BY <2>2, CommTestParserAssumption
  <2>4. t # <<>> /\ (Shaped(t) \/ NoFF(t))
    BY <2>1, CleanAssumption DEF NoFF
  <2> QED
    BY <2>3, <2>4
<1>16. PICK o : o = parsed - ends[m]
  OBVIOUS
<1>17. /\ Len(t) \in Nat /\ Len(t) >= 1 /\ ends[m] \in Nat /\ ends[m + 1] = ends[m] + Len(t)
       /\ \A i \in 1 .. Len(t) : Line[ends[m] + i] = t[i]
  BY <1>11, <1>13, <1>14, <1>15
<1>18. o \in Nat /\ parsed = ends[m] + o /\ o + 1 <= Len(t) /\ Inside(pb, t, o)
  <2>1. CASE parsed = ends[m] /\ pb.proto_stat = "WAIT_FF"
    <3>1. o = 0
      BY <1>2, <1>16, <2>1
    <3> QED
      BY <1>4, <1>15, <1>17, <2>1, <3>1, InsideStart
  <2>2. CASE m < Len(sent) /\ parsed < ends[m + 1] /\ Inside(pb, sent[m + 1], parsed - ends[m])
    <3>1. Inside(pb, t, o)
      BY <1>14, <1>16, <2>2
    <3>2. o \in Nat /\ parsed = ends[m] + o /\ o + 1 <= Len(t)
      <4>1. parsed \in Nat /\ ends[m] <= parsed /\ parsed < ends[m + 1]
        BY <1>2, <1>12, <2>2
      <4>2. ends[m] \in Nat /\ Len(t) \in Nat /\ ends[m + 1] = ends[m] + Len(t)
        BY <1>17
      <4> QED
        BY <1>16, <4>1, <4>2
    <3> QED
      BY <3>1, <3>2
  <2> QED
    BY <1>12, <2>1, <2>2
<1>19. byte = t[o + 1]
  <2>1. o + 1 \in 1 .. Len(t) /\ ends[m] + (o + 1) = parsed + 1
    BY <1>17, <1>18
  <2> QED
    BY <1>10, <1>17, <2>1
<1>20. CASE o + 1 < Len(t)
  <2>1. /\ ~Resets(pb, byte) /\ ~Completes(pb, byte)
        /\ Inside(Advance(pb, byte), t, o + 1)
    BY <1>4, <1>15, <1>18, <1>19, <1>20, InsideMore
  <2>2. pb' = Advance(pb, byte) /\ handled' = handled
    BY <1>3, <2>1
  <2>3. parsed' = ends[m] + (o + 1) /\ parsed' - ends[m] = o + 1 /\ parsed' < ends[m + 1]
        /\ ends[m] <= parsed'
    BY <1>3, <1>17, <1>18, <1>20
  <2>4. Inside(pb', sent'[m + 1], parsed' - ends[m])
    BY <1>3, <1>14, <2>1, <2>2, <2>3
  <2>5. AsSent(ends, m)'
    BY <1>3, <1>9, <1>12, <1>13, <2>2, <2>3, <2>4 DEF AsSent
  <2> QED
    BY <1>3, <1>8, <2>5
<1>21. CASE o + 1 = Len(t)
  <2>1. /\ Completes(pb, byte) <=> IsFrame(t)
        /\ Completes(pb, byte) => FrameOf(pb) = Decode(t)
        /\ Resets(pb, byte) \/ Advance(pb, byte).proto_stat = "WAIT_FF"
    BY <1>4, <1>15, <1>18, <1>19, <1>21, InsideLast
  <2>2. pb'.proto_stat = "WAIT_FF"
    <3>1. \/ pb' = ProtoReset
          \/ pb' = Advance(pb, byte) /\ ~Resets(pb, byte)
      BY <1>3
    <3> QED
      BY <2>1, <3>1 DEF ProtoReset
  <2>3. parsed' = ends[m + 1]
    <3>1. parsed' = parsed + 1
      BY <1>3
    <3>2. ends[m] \in Nat /\ Len(t) \in Nat /\ ends[m + 1] = ends[m] + Len(t)
      BY <1>17
    <3>3. o \in Nat /\ parsed = ends[m] + o
      BY <1>18
    <3> QED
      BY <1>21, <3>1, <3>2, <3>3
  <2>4. FramesUpTo(m + 1) = IF IsFrame(t) THEN FramesUpTo(m) + 1 ELSE FramesUpTo(m)
    BY <1>13, <1>14, CountMore
  <2>5. /\ Len(handled') = FramesUpTo(m + 1)
        /\ \A k \in 1 .. Len(handled') :
             \E n \in 1 .. m + 1 : /\ IsFrame(sent[n])
                                   /\ FramesUpTo(n) = k
                                   /\ handled'[k].frame = Decode(sent[n])
    <3>1. CASE IsFrame(t)
      <4>1. PICK d : d = [frame |-> FrameOf(pb), end |-> parsed + 1]
        OBVIOUS
      <4>2. handled' = Append(handled, d) /\ d.frame = Decode(t)
        BY <1>3, <2>1, <3>1, <4>1
      <4>3. /\ Len(handled) \in Nat /\ Len(handled') = Len(handled) + 1
            /\ handled'[Len(handled) + 1] = d
            /\ \A k \in 1 .. Len(handled) : handled'[k] = handled[k]
        BY <1>4, <4>2, AppendIs
      <4>4. FramesUpTo(m + 1) = Len(handled) + 1
        BY <1>12, <2>4, <3>1
      <4>5. ASSUME NEW k \in 1 .. Len(handled')
            PROVE  \E n \in 1 .. m + 1 : /\ IsFrame(sent[n])
                                         /\ FramesUpTo(n) = k
                                         /\ handled'[k].frame = Decode(sent[n])
        <5>1. CASE k = Len(handled) + 1
          <6>1. m + 1 \in 1 .. m + 1
            BY <1>13
          <6> QED
            BY <1>14, <3>1, <4>2, <4>3, <4>4, <5>1, <6>1
        <5>2. CASE k \in 1 .. Len(handled)
          <6>1. PICK n \in 1 .. m : /\ IsFrame(sent[n])
                                    /\ FramesUpTo(n) = k
                                    /\ handled[k].frame = Decode(sent[n])
            BY <1>12, <5>2
          <6>2. n \in 1 .. m + 1 /\ handled'[k] = handled[k]
            BY <1>13, <4>3, <5>2
          <6> QED
            BY <6>1, <6>2
        <5> QED
          BY <4>3, <5>1, <5>2
      <4> QED
        BY <4>3, <4>4, <4>5
    <3>2. CASE ~IsFrame(t)
      <4>1. handled' = handled /\ FramesUpTo(m + 1) = FramesUpTo(m)
        BY <1>3, <2>1, <2>4, <3>2
      <4>2. \A n \in 1 .. m : n \in 1 .. m + 1
        BY <1>13
      <4> QED
        BY <1>12, <4>1, <4>2
    <3> QED
      BY <3>1, <3>2
  <2>6. AsSent(ends, m + 1)'
    <3>1. ends[m + 1] <= parsed'
      BY <1>2, <1>3, <2>3
    <3> QED
      BY <1>3, <1>9, <1>13, <2>2, <2>3, <2>5, <3>1 DEF AsSent
  <2> QED
    BY <1>3, <1>8, <1>13, <2>6
<1> QED
  BY <1>17, <1>18, <1>20, <1>21

\* The bytes only change their place, are sent, or are parsed.
LEMMA NextInOrder == IInv /\ InOrder /\ [Next]_vars => InOrder'
<1> SUFFICES ASSUME IInv, InOrder, [Next]_vars PROVE InOrder'
  OBVIOUS
<1>1. CASE Transmit
  BY <1>1, TransmitInOrder
<1>2. CASE ParseByte
  BY <1>2, ParseByteInOrder
<1>3. CASE \/ Read \/ ReadFails \/ InsertByte \/ Spill \/ BeginParse \/ EndRound
           \/ UNCHANGED vars
  <2>1. UNCHANGED <<sent, pb, parsed, handled>>
    BY <1>3 DEF Read, ReadFails, InsertByte, Spill, BeginParse, EndRound, vars
  <2>2. Line' = Line
    BY <1>3, LineKept DEF Program
  <2>3. \A n : FramesUpTo(n)' = FramesUpTo(n)
    BY <2>1 DEF FramesUpTo
  <2>4. \A ends : Laid(ends)' <=> Laid(ends)
    BY <2>1, <2>2 DEF Laid
  <2>5. \A ends, m : AsSent(ends, m)' <=> AsSent(ends, m)
    BY <2>1, <2>3 DEF AsSent
  <2> QED
    BY <2>1, <2>4, <2>5 DEF InOrder, InStep
<1> QED
  BY <1>1, <1>2, <1>3 DEF Next, Program

\* While nothing is sent but frames, spoilt frames and noise, the k-th frame
\* handled is the k-th frame sent: none is lost, altered, repeated or
\* overtaken, wherever the reads cut the line.
THEOREM HandledAreSent == Spec => []HandledAsSent
<1>1. InOrder => HandledAsSent
  <2> SUFFICES ASSUME InOrder, InStep, NEW k \in 1 .. Len(handled)
               PROVE  \E n \in 1 .. Len(sent) : /\ IsFrame(sent[n])
                                                /\ FramesUpTo(n) = k
                                                /\ handled[k].frame = Decode(sent[n])
    BY DEF HandledAsSent
  <2>0. PICK ends : \E m \in 0 .. Len(sent) : AsSent(ends, m)
    BY DEF InOrder
  <2>1. PICK m \in 0 .. Len(sent) : AsSent(ends, m)
    BY <2>0
  <2>2. PICK n \in 1 .. m : /\ IsFrame(sent[n])
                            /\ FramesUpTo(n) = k
                            /\ handled[k].frame = Decode(sent[n])
    BY <2>1 DEF AsSent
  <2>3. n \in 1 .. Len(sent)
    OBVIOUS
  <2> QED
    BY <2>2, <2>3
<1> QED
  BY <1>1, InitIInv, NextIInv, InitInOrder, NextInOrder, PTL DEF Spec
=============================================================================
