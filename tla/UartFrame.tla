------------------------------ MODULE UartFrame ------------------------------
(***************************************************************************)
(* firmware/fmt_uart_frame.c: the receiver of a byte stream without        *)
(* framing.  It asks the driver for segments, the start code, the length   *)
(* and the rest, and looks at each when it is complete; a complete packet  *)
(* is handed over.  Both ends use it: fmt_uart.c and fmt_esp_uart.c.       *)
(* Bytes are numbers.                                                      *)
(***************************************************************************)
EXTENDS Naturals, Sequences

CONSTANTS
  StartCode,      \* START_CODE
  MaxPacketSize   \* MAX_PACKET_SIZE_BYTES

\* The CRC is at an even position and two bytes long, so an odd size would leave a
\* packet of the greatest length without room for it.
ASSUME PacketSizeAssumption ==
  /\ StartCode \in Nat
  /\ MaxPacketSize \in Nat /\ MaxPacketSize > 3 /\ MaxPacketSize % 2 = 0

StartCodeSize == 1
LengthPosition == StartCodeSize
PayloadPosition == LengthPosition + 1
CrcSize == 2
UartPacketSize == MaxPacketSize + StartCodeSize
MaxMessageSize == MaxPacketSize - 1 - CrcSize

\* getCRCPosition counts from the length byte, and leaves room for a byte of padding.
CrcPosition(length) == ((length + 2) \div 2) * 2

PacketLength(length) == CrcPosition(length) + LengthPosition + CrcSize

VARIABLES
  rxState,   \* of the receiver
  rxPacket,  \* the bytes of this packet so far; the segment goes to their end
  segment    \* how many bytes of the segment are still to come

frameVars == <<rxState, rxPacket, segment>>

AwaitStartCode ==
  /\ rxState' = "AWAITING_START_CODE"
  /\ rxPacket' = <<>>
  /\ segment' = StartCodeSize

FrameInit ==
  /\ rxState = "AWAITING_START_CODE"
  /\ rxPacket = <<>>
  /\ segment = StartCodeSize

AwaitLength ==
  /\ rxState' = "AWAITING_LENGTH_BYTE"
  /\ segment' = 1

\* A slip: the start code counts once more.
AwaitPayloadAndOne(length) ==
  /\ rxState' = "AWAITING_PAYLOAD"
  /\ segment' = PacketLength(length) - LengthPosition

AwaitPayload(length) ==
  /\ rxState' = "AWAITING_PAYLOAD"
  /\ segment' = PacketLength(length) - PayloadPosition

\* A slip: whatever comes first starts a packet.
AnyByteStarts(byte) == TRUE

IsStartCode(byte) == byte = StartCode

\* A slip: no upper bound.
AnyLengthValid(length) == length > 0

LengthValid(length) == length > 0 /\ length <= MaxMessageSize

\* The byte is the last of a packet, which handleRxSegment hands over.
HandsOver == rxState = "AWAITING_PAYLOAD" /\ segment = 1

\* What it hands over, from the length on.
PacketWith(byte) == Tail(Append(rxPacket, byte))

\* The driver takes a byte; handleRxSegment looks at a segment that is complete.
ReceiveByte(byte) ==
  \/ /\ segment > 1
     /\ rxPacket' = Append(rxPacket, byte)
     /\ segment' = segment - 1
     /\ UNCHANGED rxState
  \/ /\ segment = 1
     /\ \/ /\ rxState = "AWAITING_START_CODE" /\ IsStartCode(byte)
           /\ rxPacket' = Append(rxPacket, byte)
           /\ AwaitLength
        \/ /\ rxState = "AWAITING_LENGTH_BYTE" /\ LengthValid(byte)
           /\ rxPacket' = Append(rxPacket, byte)
           /\ AwaitPayload(byte)
        \/ /\ \/ rxState = "AWAITING_START_CODE" /\ ~IsStartCode(byte)
              \/ rxState = "AWAITING_LENGTH_BYTE" /\ ~LengthValid(byte)
              \/ rxState = "AWAITING_PAYLOAD"
           /\ AwaitStartCode

\* The segment that the driver was asked for always fits the buffer, whatever bytes
\* come, and it is never empty: a receive of no bytes would not complete.
SegmentFits ==
  /\ segment > 0
  /\ Len(rxPacket) + segment <= UartPacketSize
=============================================================================
