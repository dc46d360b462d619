----------------------------- MODULE UartThread -----------------------------
(***************************************************************************)
(* pthread_event_uart of syslcd: the thread that takes the panel's replies *)
(* off the serial line while the other threads write commands to it.       *)
(*                                                                         *)
(* It has its own copy of the parser of ProtoFrame and uses it otherwise   *)
(* than mlx_comm_test does.  A chunk that does not begin with FF 55 is     *)
(* thrown away together with everything pending in the driver.  Any other  *)
(* chunk is parsed by itself: the private buffer is zeroed, filled with    *)
(* the chunk and parsed to its end.  _proto_parse then resets g_proto_buff *)
(* and not the buffer it was given, so within a chunk nothing is ever      *)
(* reset.                                                                  *)
(*                                                                         *)
(* The ring of the private buffer is left out: it is zeroed before every   *)
(* chunk and a chunk is smaller than the ring, so it is the queue left.    *)
(* What handle_proto_data does to the panel is not part of this module:    *)
(* it is given a frame, and it may take any time to return (it sleeps and  *)
(* runs other programs), or never return.                                  *)
(***************************************************************************)
EXTENDS ProtoFrame, FiniteSets, SequencesExt

CONSTANTS
    ReadMax,            \* sizeof(proto_data): 100
    Transmissions,      \* byte sequences the panel may send
    MaxSends            \* bound: transmissions in a behaviour

ASSUME UartThreadAssumption ==
    /\ ReadMax \in Nat \ {0}
    /\ Transmissions \subseteq Seq(Byte)
    /\ MaxSends \in Nat

VARIABLES
    sends,      \* how often the panel has sent
    tty,        \* bytes pending in the serial driver
    pc,         \* where the thread stands: "select", "filter" (a chunk was
                \* read), "parse", "handling" (in handle_proto_data), "ended"
    chunk,      \* proto_data
    left,       \* the bytes of chunk not parsed yet
    pb,         \* the private buffer the thread parses into
    g_proto_buff, \* the global buffer proto_reset is applied to
    handled     \* history: the frames handled in the current chunk

vars == <<sends, tty, pc, chunk, left, pb, g_proto_buff, handled>>

TypeOK ==
    /\ sends \in 0 .. MaxSends
    /\ tty \in Seq(Byte)
    /\ pc \in {"select", "filter", "parse", "handling", "ended"}
    /\ chunk \in Seq(Byte) /\ Len(chunk) <= ReadMax
    /\ left \in Seq(Byte)
    /\ pb \in ProtoBuff
    /\ g_proto_buff \in ProtoBuff
    /\ handled \in Seq(Frame)

Init ==
    /\ sends = 0
    /\ tty = <<>>
    /\ pc = "select"
    /\ chunk = <<>>
    /\ left = <<>>
    /\ pb = ProtoReset
    /\ g_proto_buff = ProtoReset
    /\ handled = <<>>

-----------------------------------------------------------------------------
\* The panel puts bytes on the line, whatever the thread is doing.
Transmit ==
    /\ sends < MaxSends
    /\ sends' = sends + 1
    /\ \E bytes \in Transmissions : tty' = tty \o bytes
    /\ UNCHANGED <<pc, chunk, left, pb, g_proto_buff, handled>>

\* select fails: the thread returns.
SelectFails ==
    /\ pc = "select"
    /\ pc' = "ended"
    /\ UNCHANGED <<sends, tty, chunk, left, pb, g_proto_buff, handled>>

\* A slip: a read of one byte more than proto_data holds.
ReadTooMuch ==
    /\ pc = "select"
    /\ tty # <<>>
    /\ \E n \in 0 .. ReadMax + 1 :
         /\ n <= Len(tty)
         /\ chunk' = SubSeq(tty, 1, n)
         /\ tty' = SubSeq(tty, n + 1, Len(tty))
    /\ pc' = "filter"
    /\ UNCHANGED <<sends, left, pb, g_proto_buff, handled>>

\* select reports the line readable and zl_serial_read takes at most ReadMax
\* of the pending bytes; a read that fails or takes nothing leaves proto_data
\* zeroed.  (A select that times out goes round the loop.)
Read ==
    /\ pc = "select"
    /\ tty # <<>>
    /\ \E n \in 0 .. ReadMax :
         /\ n <= Len(tty)
         /\ chunk' = SubSeq(tty, 1, n)
         /\ tty' = SubSeq(tty, n + 1, Len(tty))
    /\ pc' = "filter"
    /\ UNCHANGED <<sends, left, pb, g_proto_buff, handled>>

\* proto_data[0] == 0xFF && proto_data[1] == 0x55; proto_data is zeroed before
\* the read, so a chunk of one byte fails the test.
StartsFrame(bytes) == Len(bytes) >= 2 /\ bytes[1] = SOH_FF /\ bytes[2] = SOH_55

\* A slip: the private buffer is not zeroed.
AcceptDirty ==
    /\ pc = "filter"
    /\ StartsFrame(chunk)
    /\ left' = chunk
    /\ handled' = <<>>
    /\ pc' = "parse"
    /\ UNCHANGED <<sends, tty, chunk, pb, g_proto_buff>>

\* memset of the private buffer, then the chunk goes into its ring.
Accept ==
    /\ pc = "filter"
    /\ StartsFrame(chunk)
    /\ pb' = ProtoReset
    /\ left' = chunk
    /\ handled' = <<>>
    /\ pc' = "parse"
    /\ UNCHANGED <<sends, tty, chunk, g_proto_buff>>

\* tcflush: the chunk is dropped, and all that came after it with it.
Flush ==
    /\ pc = "filter"
    /\ ~StartsFrame(chunk)
    /\ tty' = <<>>
    /\ pc' = "select"
    /\ UNCHANGED <<sends, chunk, left, pb, g_proto_buff, handled>>

\* Slips: proto_reset applied to the buffer it was given, as mlx_comm_test's
\* is; the byte written to the global buffer as well.
ParseByteResetsPrivate ==
    /\ pc = "parse"
    /\ left # <<>>
    /\ pb' = IF Resets(pb, Head(left)) THEN ProtoReset ELSE Advance(pb, Head(left))
    /\ IF Completes(pb, Head(left))
       THEN handled' = Append(handled, FrameOf(pb)) /\ pc' = "handling"
       ELSE UNCHANGED <<handled, pc>>
    /\ left' = Tail(left)
    /\ UNCHANGED <<sends, tty, chunk, g_proto_buff>>

ParseByteGlobal ==
    /\ pc = "parse"
    /\ left # <<>>
    /\ pb' = Advance(pb, Head(left))
    /\ g_proto_buff' = Advance(g_proto_buff, Head(left))
    /\ IF Completes(pb, Head(left))
       THEN handled' = Append(handled, FrameOf(pb)) /\ pc' = "handling"
       ELSE UNCHANGED <<handled, pc>>
    /\ left' = Tail(left)
    /\ UNCHANGED <<sends, tty, chunk>>

\* _proto_parse of one byte.  The private buffer keeps what the byte wrote;
\* a goto to proto_reset resets the global one.
ParseByte ==
    /\ pc = "parse"
    /\ left # <<>>
    /\ pb' = Advance(pb, Head(left))
    /\ g_proto_buff' = IF Resets(pb, Head(left)) THEN ProtoReset ELSE g_proto_buff
    /\ IF Completes(pb, Head(left))
       THEN handled' = Append(handled, FrameOf(pb)) /\ pc' = "handling"
       ELSE UNCHANGED <<handled, pc>>
    /\ left' = Tail(left)
    /\ UNCHANGED <<sends, tty, chunk>>

HandlerReturns ==
    /\ pc = "handling"
    /\ pc' = "parse"
    /\ UNCHANGED <<sends, tty, chunk, left, pb, g_proto_buff, handled>>

\* A slip: the flush outside its else, so that it follows every chunk.
EndChunkFlushes ==
    /\ pc = "parse"
    /\ left = <<>>
    /\ handled' = <<>>
    /\ tty' = <<>>
    /\ pc' = "select"
    /\ UNCHANGED <<sends, chunk, left, pb, g_proto_buff>>

\* The chunk is used up: back to select.
EndChunk ==
    /\ pc = "parse"
    /\ left = <<>>
    /\ handled' = <<>>
    /\ pc' = "select"
    /\ UNCHANGED <<sends, tty, chunk, left, pb, g_proto_buff>>

Thread == Read \/ Accept \/ Flush \/ ParseByte \/ EndChunk

Next == Transmit \/ SelectFails \/ Thread \/ HandlerReturns

Spec == Init /\ [][Next]_vars

\* The thread is scheduled as long as it can go on.  Nothing is assumed of the
\* handler: MD_Download, which it runs, loops while there is no network.
FairSpec == Spec /\ WF_vars(Thread)

-----------------------------------------------------------------------------
\* What a chunk means, told from its bytes alone.  The header is complete at
\* the first AA behind FF 55, however far behind it stands; the frame is the
\* one that follows; and each byte from its checksum on that equals the
\* checksum makes the frame be handled once more.
FrameAt(bytes, aa) ==
    [type |-> bytes[aa + 2],
     data |-> [i \in DataIndex |->
                 IF ~IsAck(bytes[aa + 2]) /\ i + 1 < bytes[aa + 1]
                 THEN bytes[aa + 3 + i] ELSE 0]]

Meaning(bytes) ==
    LET AAs == {k \in 3 .. Len(bytes) : bytes[k] = SOH_AA}
        aa  == CHOOSE k \in AAs : \A m \in AAs : k <= m
        len == bytes[aa + 1]
        crc == IF IsAck(bytes[aa + 2]) THEN aa + 3 ELSE aa + 2 + len
        Hits == {k \in crc .. Len(bytes) : bytes[k] = Checksum(SubSeq(bytes, aa + 1, crc - 1))}
    IN  IF /\ AAs # {}
           /\ aa + 2 <= Len(bytes)
           /\ len >= (IF IsAck(bytes[aa + 2]) THEN 1 ELSE 2)
        THEN [k \in 1 .. Cardinality(Hits) |-> FrameAt(bytes, aa)]
        ELSE <<>>

\* When a chunk has been parsed, what was handled is what the chunk means:
\* nothing of an earlier chunk shows through, a second frame in the same
\* chunk is never handled, and a frame cut by the end of the chunk is lost.
ChunkMeaning == pc = "parse" /\ left = <<>> => handled = Meaning(chunk)

\* Within a chunk only one frame is ever handled, again and again: all that
\* was handled is what the private buffer still holds.
OneFramePerChunk == \A k \in 1 .. Len(handled) : handled[k] = FrameOf(pb)

\* The private buffer is coherent between two bytes although it is never
\* reset within a chunk, and the global buffer, the one that is reset, never
\* holds anything.
BuffersApart == Coherent(pb) /\ g_proto_buff = ProtoReset

\* How the frame f that stands first on the line may fare: it is the first one
\* handled in a chunk; or it is lost, because a read takes only part of it or
\* nothing, because what was read before it begins no frame and is dropped, or
\* because the thread ends.
Fate(f) ==
    \/ handled # <<>> /\ handled[1] = Decode(f)
    \/ pc = "filter" /\ \E n \in 0 .. Len(f) - 1 : chunk = SubSeq(f, 1, n)
    \/ pc = "filter" /\ ~StartsFrame(chunk)
    \/ pc = "ended"

\* The frame that stands first on the line is lost to nothing else: neither to
\* the frame before it, nor to the handler, which keeps it waiting, nor to a
\* flush that was made before it came.  (The frames behind it have no such
\* promise.)  Only the handler's return is assumed.
FirstNotLost ==
    []<>(pc # "handling") =>
        \A f \in {t \in Transmissions : IsFrame(t)} : IsPrefix(f, tty) ~> Fate(f)
=============================================================================
