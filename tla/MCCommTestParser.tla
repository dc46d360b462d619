-------------------------- MODULE MCCommTestParser --------------------------
(***************************************************************************)
(* Instances of CommTestParser for TLC.  Bytes are scaled down to sixteen  *)
(* values: the header is 15 5 10, types from 8 up are acknowledgements.    *)
(***************************************************************************)
EXTENDS CommTestParser

Header == <<15, 5, 10>>

\* Frames whose data or checksum look like header bytes, and an
\* acknowledgement.
ButtonFrame   == Header \o <<2, 2, 1, 5>>
UserFrame     == Header \o <<3, 3, 15, 5, 10>>
TimeFrame     == Header \o <<4, 6, 15, 5, 10, 8>>
AckFrame      == Header \o <<1, 9, 10>>

BadChecksum   == Header \o <<2, 2, 1, 6>>

\* Transmissions after which the parser waits for FF again.
InSync == {ButtonFrame, UserFrame, TimeFrame, AckFrame, BadChecksum, <<7>>}

\* Transmissions that leave it anywhere: an acknowledgement that carries
\* data, the two wedging lengths, a header cut short, a stray FF.
LongAck       == Header \o <<3, 9, 12, 15>>
LengthZero    == Header \o <<0>>
LengthOne     == Header \o <<1, 2>>
Noisy == {LongAck, LengthZero, LengthOne, <<15>>, <<15, 5>>}

Anything == InSync \cup Noisy
=============================================================================
