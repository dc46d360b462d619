----------------------------- MODULE ProtoFrame -----------------------------
(***************************************************************************)
(* The framed protocol the STM32 panel speaks on its USB serial line, and  *)
(* the parser both mlx_comm_test and syslcd hold a copy of.                *)
(*                                                                         *)
(*     FF 55 AA len type data[0] .. data[len-2] crc                        *)
(*                                                                         *)
(* len counts the type byte and the data; crc is the sum of len, type and  *)
(* data modulo 256.  A type with its top bit set is an acknowledgement and *)
(* is followed by crc at once, whatever len says.                          *)
(*                                                                         *)
(* _proto_parse is modelled as two pure operators: Advance, what one byte  *)
(* writes into the PROTO_BUFF it is given, and Resets, whether the byte    *)
(* takes the "goto proto_reset" path.  They are kept apart because what    *)
(* proto_reset is applied to differs: mlx_comm_test passes the very buffer *)
(* that is reset (g_proto_buff), syslcd's event thread passes a private    *)
(* one and resets the global.                                              *)
(*                                                                         *)
(* Bytes have ByteMod values (256 in the code); an instance may scale them *)
(* down as long as the three header bytes and the top bit remain.          *)
(***************************************************************************)
EXTENDS Integers, Sequences

CONSTANTS
    ByteMod,            \* number of values of a uint8_t: 256
    SOH_FF,             \* PROTO_SOH_FF
    SOH_55,             \* PROTO_SOH_55
    SOH_AA,             \* PROTO_SOH_AA
    PROTO_DATA_LEN      \* size of PROTO_BUFF.data: 256

Byte == 0 .. (ByteMod - 1)

\* data_len is one byte, so at most ByteMod - 2 data bytes are ever stored
\* and PROTO_DATA_LEN = 256 has room for them.
ASSUME ProtoFrameAssumption ==
    /\ ByteMod \in Nat /\ ByteMod >= 2
    /\ SOH_FF \in Byte /\ SOH_55 \in Byte /\ SOH_AA \in Byte
    /\ SOH_FF # SOH_55
    /\ PROTO_DATA_LEN \in Nat /\ PROTO_DATA_LEN >= ByteMod

DataIndex == 0 .. (PROTO_DATA_LEN - 1)

ProtoStat == {"WAIT_FF", "WAIT_55", "WAIT_AA", "WAIT_LEN", "WAIT_TYPE",
              "WAIT_DATA", "WAIT_CRC"}

\* The parser half of PROTO_BUFF (its ring half belongs to the readers).
ProtoBuff == [proto_stat : ProtoStat,
              data_cnt   : Byte,
              data_len   : Byte,
              proto_type : Byte,
              data_crc   : Byte,
              data       : [DataIndex -> Byte]]

\* What proto_reset leaves behind; also what a zeroed structure holds.
ProtoReset == [proto_stat |-> "WAIT_FF",
               data_cnt   |-> 0,
               data_len   |-> 0,
               proto_type |-> 0,
               data_crc   |-> 0,
               data       |-> [i \in DataIndex |-> 0]]

\* proto_type & 0x80
IsAck(type) == type >= ByteMod \div 2

\* uint8_t addition
AddByte(a, b) == (a + b) % ByteMod

\* The sum of bytes that crc must equal.
Checksum(bytes) ==
    LET sums[n \in 0 .. Len(bytes)] ==
            IF n = 0 THEN 0 ELSE AddByte(sums[n - 1], bytes[n])
    IN  sums[Len(bytes)]

\* The condition both WAIT_TYPE and WAIT_DATA test before they take a byte.
Room(pb) == pb.data_len > pb.data_cnt

AdvanceLen(pb, byte) ==
    [pb EXCEPT !.data_len = byte, !.data_crc = byte, !.proto_stat = "WAIT_TYPE"]

\* Slips: WAIT_TYPE does not look for room; WAIT_DATA misses the last byte.
AdvanceTypeNoRoom(pb, byte) ==
    [pb EXCEPT !.data_crc = AddByte(pb.data_crc, byte), !.data_cnt = pb.data_cnt + 1,
               !.proto_type = byte,
               !.proto_stat = IF IsAck(byte) THEN "WAIT_CRC" ELSE "WAIT_DATA"]

AdvanceDataLate(pb, byte) ==
    IF Room(pb)
    THEN [pb EXCEPT !.data_crc = AddByte(pb.data_crc, byte),
                    !.data[pb.data_cnt - 1] = byte,
                    !.data_cnt = pb.data_cnt + 1,
                    !.proto_stat = IF pb.data_len = pb.data_cnt THEN "WAIT_CRC" ELSE "WAIT_DATA"]
    ELSE pb

AdvanceType(pb, byte) ==
    IF Room(pb)
    THEN [pb EXCEPT !.data_crc = AddByte(pb.data_crc, byte),
                    !.data_cnt = pb.data_cnt + 1,
                    !.proto_type = byte,
                    !.proto_stat = IF IsAck(byte) THEN "WAIT_CRC" ELSE "WAIT_DATA"]
    ELSE pb

AdvanceData(pb, byte) ==
    IF Room(pb)
    THEN [pb EXCEPT !.data_crc = AddByte(pb.data_crc, byte),
                    !.data[pb.data_cnt - 1] = byte,
                    !.data_cnt = pb.data_cnt + 1,
                    !.proto_stat = IF pb.data_len = pb.data_cnt + 1
                                   THEN "WAIT_CRC" ELSE "WAIT_DATA"]
    ELSE pb

\* What one byte writes into the buffer _proto_parse was given.
Advance(pb, byte) ==
    CASE pb.proto_stat = "WAIT_FF" /\ byte = SOH_FF -> [pb EXCEPT !.proto_stat = "WAIT_55"]
      [] pb.proto_stat = "WAIT_55" /\ byte = SOH_55 -> [pb EXCEPT !.proto_stat = "WAIT_AA"]
      [] pb.proto_stat = "WAIT_AA" /\ byte = SOH_AA -> [pb EXCEPT !.proto_stat = "WAIT_LEN"]
      [] pb.proto_stat = "WAIT_LEN"                 -> AdvanceLen(pb, byte)
      [] pb.proto_stat = "WAIT_TYPE"                -> AdvanceType(pb, byte)
      [] pb.proto_stat = "WAIT_DATA"                -> AdvanceData(pb, byte)
      [] OTHER                                      -> pb

\* The byte takes the goto to proto_reset.
Resets(pb, byte) ==
    \/ pb.proto_stat = "WAIT_55" /\ byte # SOH_55
    \/ pb.proto_stat = "WAIT_AA" /\ byte # SOH_AA
    \/ pb.proto_stat = "WAIT_CRC"

\* A slip the properties must notice: the checksum is not compared.
CompletesUnchecked(pb, byte) == pb.proto_stat = "WAIT_CRC"

\* The byte is the checksum of a complete frame: handle_proto_data is called.
Completes(pb, byte) == pb.proto_stat = "WAIT_CRC" /\ pb.data_crc = byte

\* The part of PROTO_BUFF handle_proto_data looks at.
FrameOf(pb) == [type |-> pb.proto_type, data |-> pb.data]

Frame == [type : Byte, data : [DataIndex -> Byte]]

\* The bytes s are as long as a frame must be that begins like them.
Shaped(s) ==
    /\ Len(s) >= 6
    /\ s[1] = SOH_FF /\ s[2] = SOH_55 /\ s[3] = SOH_AA
    /\ IF IsAck(s[5]) THEN Len(s) = 6 /\ s[4] >= 1
                      ELSE Len(s) = s[4] + 5 /\ s[4] >= 2

\* The bytes s are one frame, from FF to checksum.
IsFrame(s) == Shaped(s) /\ s[Len(s)] = Checksum(SubSeq(s, 4, Len(s) - 1))

\* The type and the data of the frame s; data it does not carry reads as zero.
Decode(s) ==
    [type |-> s[5],
     data |-> [i \in DataIndex |-> IF i + 6 < Len(s) THEN s[i + 6] ELSE 0]]

\* The parser takes no byte any more: len was 0, or len was 1 and the type
\* was not an acknowledgement.
Wedged(pb) == pb.proto_stat \in {"WAIT_TYPE", "WAIT_DATA"} /\ ~Room(pb)

(***************************************************************************)
(* How state, counter and length go together between two bytes.            *)
(***************************************************************************)
Coherent(pb) ==
    /\ pb.proto_stat \in {"WAIT_FF", "WAIT_55", "WAIT_AA", "WAIT_LEN"} =>
         pb = [ProtoReset EXCEPT !.proto_stat = pb.proto_stat]
    /\ pb.proto_stat = "WAIT_TYPE" => pb.data_cnt = 0 /\ pb.data_crc = pb.data_len
    /\ pb.proto_stat = "WAIT_DATA" =>
         /\ ~IsAck(pb.proto_type)
         /\ pb.data_cnt \in 1 .. pb.data_len
         /\ pb.data_cnt = pb.data_len => pb.data_len = 1
    /\ pb.proto_stat = "WAIT_CRC" =>
         IF IsAck(pb.proto_type) THEN pb.data_cnt = 1 /\ pb.data_len >= 1
                                 ELSE pb.data_cnt = pb.data_len /\ pb.data_len >= 2
    /\ \A i \in DataIndex : i + 1 >= pb.data_cnt => pb.data[i] = 0
=============================================================================
