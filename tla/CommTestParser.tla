--------------------------- MODULE CommTestParser ---------------------------
(***************************************************************************)
(* "mlx_comm_test -p": the panel sends bytes, the program reads them in    *)
(* chunks, copies each chunk byte by byte into the ring inside             *)
(* g_proto_buff, parses as many bytes as the ring then holds, and starts   *)
(* again.  Here the buffer that is parsed is the buffer proto_reset        *)
(* resets.                                                                 *)
(*                                                                         *)
(* The panel is outside the program: it may send any of Transmissions, up  *)
(* to MaxSends of them, at any moment.  The serial driver returns any      *)
(* number of the pending bytes up to the size of proto_data, or an error;  *)
(* the loop does not know an error from a very long read.                  *)
(***************************************************************************)
EXTENDS ProtoFrame, FiniteSets

CONSTANTS
    PROTO_BUFF_LEN,     \* size of the ring: 2048
    ReadMax,            \* sizeof(proto_data): 100
    Transmissions,      \* byte sequences the panel may send
    Clean,              \* those of them that leave the parser waiting for FF
    Garbage,            \* bytes that may lie in memory from proto_data on
    MaxSends,           \* bound: transmissions in a behaviour
    MaxSpill,           \* bound: bytes a failed read puts in the ring
    GET_ICON_BUTTON_SELECT, GET_USER, GET_PASSWORD  \* MLX_PROTO_* types

ASSUME CommTestParserAssumption ==
    /\ PROTO_BUFF_LEN \in Nat /\ ReadMax \in Nat
    /\ 0 < ReadMax /\ ReadMax <= PROTO_BUFF_LEN
    /\ Transmissions \subseteq Seq(Byte)
    /\ Clean \subseteq Transmissions
    /\ Garbage \subseteq Byte
    /\ MaxSends \in Nat /\ MaxSpill \in Nat
    /\ PROTO_DATA_LEN >= 6
    /\ GET_ICON_BUTTON_SELECT # GET_USER
    /\ GET_PASSWORD \notin {GET_ICON_BUTTON_SELECT, GET_USER}

\* Frames, frames with a wrong checksum, and noise without FF.
ASSUME CleanAssumption ==
    \A bytes \in Clean :
        /\ bytes # <<>>
        /\ Shaped(bytes) \/ \A k \in 1 .. Len(bytes) : bytes[k] # SOH_FF

VARIABLES
    sent,       \* history: what the panel sent
    tty,        \* bytes pending in the serial driver
    pc,         \* where the loop stands: "read", "insert", "parse", or "spill",
                \* inserting what a failed read did not read
    chunk,      \* the bytes of proto_data not inserted yet
    buffer, head_pos, tail_pos, buff_len,   \* the ring in g_proto_buff
    todo,       \* bytes of this round still to parse
    round,      \* the local buff_len: bytes of this round
    pb,         \* the parser state in g_proto_buff
    text,       \* the three rolling text lines of the panel
    rcvd,       \* history: the bytes put in the ring
    parsed,     \* history: how many bytes were given to _proto_parse
    handled     \* history: the frames handle_proto_data was called with

ring == <<buffer, head_pos, tail_pos, buff_len>>
vars == <<sent, tty, pc, chunk, ring, todo, round, pb, text, rcvd, parsed, handled>>

RingIndex == 0 .. (PROTO_BUFF_LEN - 1)

Blank == [kind |-> "blank", digits |-> <<>>]
TextLine == [kind : {"blank", "button", "user", "password"}, digits : Seq(Nat)]

TypeOK ==
    /\ sent \in Seq(Transmissions)
    /\ tty \in Seq(Byte)
    /\ pc \in {"read", "insert", "parse", "spill"}
    /\ chunk \in Seq(Byte)
    /\ buffer \in [RingIndex -> Byte]
    /\ head_pos \in RingIndex
    /\ tail_pos \in RingIndex
    /\ buff_len \in Nat
    /\ todo \in 0 .. PROTO_BUFF_LEN
    /\ round \in 0 .. PROTO_BUFF_LEN
    /\ pb \in ProtoBuff
    /\ text \in [1 .. 3 -> TextLine]
    /\ rcvd \in Seq(Byte)
    /\ parsed \in Nat
    /\ handled \in Seq([frame : Frame, end : Nat])

Init ==
    /\ sent = <<>>
    /\ tty = <<>>
    /\ pc = "read"
    /\ chunk = <<>>
    /\ buffer = [i \in RingIndex |-> 0]
    /\ head_pos = 0
    /\ tail_pos = 0
    /\ buff_len = 0
    /\ todo = 0
    /\ round = 0
    /\ pb = ProtoReset
    /\ text = [line \in 1 .. 3 |-> Blank]
    /\ rcvd = <<>>
    /\ parsed = 0
    /\ handled = <<>>

-----------------------------------------------------------------------------
\* The panel puts bytes on the line.
Transmit ==
    /\ Len(sent) < MaxSends
    /\ \E bytes \in Transmissions :
         /\ sent' = Append(sent, bytes)
         /\ tty' = tty \o bytes
    /\ UNCHANGED <<pc, chunk, ring, todo, round, pb, text, rcvd, parsed, handled>>

\* zl_serial_read: at most ReadMax of the pending bytes.  A read of nothing
\* goes round the loop, because the ring is empty whenever a read is made.
Read ==
    /\ pc = "read"
    /\ \E n \in 1 .. ReadMax :
         /\ n <= Len(tty)
         /\ chunk' = SubSeq(tty, 1, n)
         /\ tty' = SubSeq(tty, n + 1, Len(tty))
    /\ pc' = "insert"
    /\ UNCHANGED <<sent, ring, todo, round, pb, text, rcvd, parsed, handled>>

\* zl_serial_read fails.  recv_len is unsigned, so an error code is a length
\* of four thousand million, and the loop inserts what lies in memory from
\* proto_data on.
ReadFails ==
    /\ pc = "read"
    /\ pc' = "spill"
    /\ UNCHANGED <<sent, tty, chunk, ring, todo, round, pb, text, rcvd, parsed, handled>>

\* A slip: the position wraps one place too late.
NextPosLate(pos) == IF pos + 1 > PROTO_BUFF_LEN THEN 0 ELSE pos + 1

\* How head_pos and tail_pos move on.
NextPos(pos) == IF pos + 1 >= PROTO_BUFF_LEN THEN 0 ELSE pos + 1

\* insert_byte_to_buffer.
Insert(byte) ==
    /\ buffer' = [buffer EXCEPT ![head_pos] = byte]
    /\ head_pos' = NextPos(head_pos)
    /\ buff_len' = buff_len + 1
    /\ rcvd' = Append(rcvd, byte)

InsertByte ==
    /\ pc = "insert"
    /\ chunk # <<>>
    /\ Insert(Head(chunk))
    /\ chunk' = Tail(chunk)
    /\ UNCHANGED <<sent, tty, pc, tail_pos, todo, round, pb, text, parsed, handled>>

\* A byte that was not read goes into the ring.  The memory behind proto_data
\* ends long before the length does: a fault ends the program here, sooner or
\* later, and nothing of it is parsed.
Spill ==
    /\ pc = "spill"
    /\ buff_len < MaxSpill
    /\ \E byte \in Garbage : Insert(byte)
    /\ UNCHANGED <<sent, tty, pc, chunk, tail_pos, todo, round, pb, text, parsed, handled>>

\* buff_len is read into a local: the bytes this round will parse.
BeginParse ==
    /\ pc = "insert"
    /\ chunk = <<>>
    /\ round' = buff_len
    /\ todo' = buff_len
    /\ pc' = "parse"
    /\ UNCHANGED <<sent, tty, chunk, ring, pb, text, rcvd, parsed, handled>>

SixDigits(data) == <<data[0], data[1], data[2], data[3], data[4], data[5]>>

\* handle_proto_data: what the frame does to the lines.  The battery,
\* reset and time replies change nothing here.
Show(frame) ==
    CASE frame.type = GET_ICON_BUTTON_SELECT ->
           [line \in 1 .. 3 |-> IF line = 1
              THEN [kind |-> "button", digits |-> <<frame.data[0] + 1>>] ELSE Blank]
      [] frame.type = GET_USER ->
           [text EXCEPT ![2] = [kind |-> "user", digits |-> SixDigits(frame.data)]]
      [] frame.type = GET_PASSWORD ->
           [text EXCEPT ![2] = [kind |-> "password", digits |-> SixDigits(frame.data)]]
      [] OTHER -> text

\* A slip: the reset forgets the data.
AfterByteKeepsData(byte) ==
    IF Resets(pb, byte) THEN [ProtoReset EXCEPT !.data = pb.data] ELSE Advance(pb, byte)

\* g_proto_buff after one byte: what the byte writes, or proto_reset.
AfterByte(byte) == IF Resets(pb, byte) THEN ProtoReset ELSE Advance(pb, byte)

ParseByte ==
    /\ pc = "parse"
    /\ todo > 0
    /\ LET byte == buffer[tail_pos] IN
         /\ IF Completes(pb, byte)
            THEN /\ text' = IF IsAck(pb.proto_type) THEN text ELSE Show(FrameOf(pb))
                 /\ handled' = Append(handled, [frame |-> FrameOf(pb), end |-> parsed + 1])
            ELSE UNCHANGED <<text, handled>>
         /\ pb' = AfterByte(byte)
    /\ tail_pos' = NextPos(tail_pos)
    /\ todo' = todo - 1
    /\ parsed' = parsed + 1
    /\ UNCHANGED <<sent, tty, pc, chunk, buffer, head_pos, buff_len, round, rcvd>>

\* Slips: the ring is not told what was parsed; a read is made although the
\* round has bytes left to parse.
EndRoundKeepsLength ==
    /\ pc = "parse"
    /\ todo = 0
    /\ pc' = "read"
    /\ UNCHANGED <<sent, tty, chunk, ring, todo, round, pb, text, rcvd, parsed, handled>>

EndRoundEarly ==
    /\ pc = "parse"
    /\ todo <= 1
    /\ buff_len' = buff_len - round
    /\ pc' = "read"
    /\ UNCHANGED <<sent, tty, chunk, buffer, head_pos, tail_pos, todo, round, pb,
                   text, rcvd, parsed, handled>>

EndRound ==
    /\ pc = "parse"
    /\ todo = 0
    /\ buff_len' = buff_len - round
    /\ pc' = "read"
    /\ UNCHANGED <<sent, tty, chunk, buffer, head_pos, tail_pos, todo, round, pb,
                   text, rcvd, parsed, handled>>

Program == Read \/ InsertByte \/ BeginParse \/ ParseByte \/ EndRound

Next == Transmit \/ Program \/ ReadFails \/ Spill

Spec == Init /\ [][Next]_vars

\* The loop never blocks other than in the read, so while it has bytes to
\* read or to parse it goes on - until a read fails.
FairSpec == Spec /\ WF_vars(Program)

-----------------------------------------------------------------------------
\* Bytes in the ring not parsed yet; buff_len itself is only brought up to
\* date when a round ends.
Pending == IF pc = "parse" THEN todo ELSE buff_len

\* The ring is a queue although insertion never looks at how full it is and
\* head_pos, tail_pos and buff_len are kept apart: the bytes received, counted
\* from 0, lie in it in turn, the newest PROTO_BUFF_LEN of them as they came;
\* tail_pos is the place of the oldest not parsed, head_pos the next one's.
\* While a failed read overruns the ring this remains so: the oldest are lost
\* and nothing is written outside it.
RingFifo ==
    /\ tail_pos = parsed % PROTO_BUFF_LEN
    /\ head_pos = Len(rcvd) % PROTO_BUFF_LEN
    /\ Len(rcvd) = parsed + Pending
    /\ \A k \in 0 .. Len(rcvd) - 1 :
         Len(rcvd) - k <= PROTO_BUFF_LEN => buffer[k % PROTO_BUFF_LEN] = rcvd[k + 1]

\* A round drains the ring before the next read, so that what a successful
\* read brings never overruns the ring, and each byte of it is in the ring
\* still when it is parsed.  Only a failed read puts in more than a chunk, and
\* nothing is parsed after it.
RoundDrains ==
    /\ pc = "read" => chunk = <<>> /\ buff_len = 0
    /\ pc = "insert" => buff_len + Len(chunk) <= ReadMax
    /\ pc = "parse" => chunk = <<>> /\ buff_len = round /\ todo <= round /\ round <= ReadMax
    /\ Pending > ReadMax => pc = "spill"

\* The parser's state, counter and length agree between any two bytes: it
\* never stores past data, never waits for a checksum before the frame is
\* whole, and starts a frame with every field and data byte zero (the handler
\* prints six digits however short the frame is).
ParserCoherent == Coherent(pb)

\* The loop implements the promise of FrameStream.
Stream == INSTANCE FrameStream WITH stream <- rcvd, delivered <- handled
DeliversFrames == Stream!Spec

\* A frame of length zero, or of length one that is no acknowledgement, is
\* the last thing the program ever understands: the parser waits for room
\* that never comes, and nothing but a reset of g_proto_buff, which only the
\* parser itself makes, would help.
WedgedForever == [][Wedged(pb) => Wedged(pb') /\ handled' = handled]_vars

\* How many of the first n transmissions are one frame.
FramesUpTo(n) == Cardinality({i \in 1 .. n : IsFrame(sent[i])})

\* Nothing was sent but frames, frames with a wrong checksum and noise without
\* FF.
InStep == \A k \in 1 .. Len(sent) : sent[k] \in Clean

\* As long as every transmission leaves the parser waiting for FF, the k-th
\* frame handled is the k-th frame sent, not altered, however reads cut the
\* line into chunks: none is lost before it, none is handled twice.
HandledAsSent ==
    InStep => \A k \in 1 .. Len(handled) :
                 \E n \in 1 .. Len(sent) : /\ IsFrame(sent[n])
                                          /\ FramesUpTo(n) = k
                                          /\ handled[k].frame = Decode(sent[n])

\* ... and each of them is handled in the end, whatever is sent after it,
\* unless a read fails.
EachSentHandled ==
    \A n \in 1 .. MaxSends :
        (InStep /\ FramesUpTo(Len(sent)) >= n) ~> (Len(handled) >= n \/ pc = "spill")
=============================================================================
