---------------------------- MODULE MCUartThread ----------------------------
(***************************************************************************)
(* Instance of UartThread for TLC, with the scaled-down bytes of           *)
(* MCCommTestParser: header 15 5 10, acknowledgements from 8 up.           *)
(***************************************************************************)
EXTENDS UartThread

Header == <<15, 5, 10>>

ButtonFrame == Header \o <<2, 2, 1, 5>>
UserFrame   == Header \o <<3, 3, 15, 5, 10>>
AckFrame    == Header \o <<1, 9, 10>>
LengthOne   == Header \o <<1, 2>>
LateAA      == <<15, 5, 7>>

\* Frames whose checksum is a header byte, so that the frame after them in
\* the chunk hits it; a wedging length; a header with a gap; garbage.
Mixed == {ButtonFrame, UserFrame, AckFrame, LengthOne, LateAA, <<9>>, <<10>>}
=============================================================================
