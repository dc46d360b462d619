---------------------------- MODULE FrameStream -----------------------------
(***************************************************************************)
(* What a reader of the panel's serial line promises, whatever its         *)
(* buffers look like: every frame it delivers stands, whole and with a     *)
(* correct checksum, in the bytes received; frames are delivered in the    *)
(* order they stand there; and no byte belongs to two delivered frames.    *)
(* Nothing is promised about which frames are delivered: bytes may be      *)
(* skipped.                                                                *)
(***************************************************************************)
EXTENDS ProtoFrame

VARIABLES
    stream,     \* every byte received so far
    delivered   \* the frames delivered: [frame, end], end the last byte's place

vars == <<stream, delivered>>

TypeOK ==
    /\ stream \in Seq(Byte)
    /\ delivered \in Seq([frame : Frame, end : Nat])

\* Where the bytes not yet used by a delivered frame begin.
Used == IF delivered = <<>> THEN 0 ELSE delivered[Len(delivered)].end

Init == stream = <<>> /\ delivered = <<>>

Arrive ==
    /\ \E byte \in Byte : stream' = Append(stream, byte)
    /\ UNCHANGED delivered

Deliver ==
    /\ \E i, j \in 1 .. Len(stream) :
         /\ Used < i
         /\ IsFrame(SubSeq(stream, i, j))
         /\ delivered' = Append(delivered,
                                [frame |-> Decode(SubSeq(stream, i, j)), end |-> j])
    /\ UNCHANGED stream

Next == Arrive \/ Deliver

Spec == Init /\ [][Next]_vars
=============================================================================
