-------------------------------- MODULE Bytes --------------------------------
(***************************************************************************)
(* The numbers in the messages: SerializerMessage on the server,           *)
(* ConnectionUtil in the Java clients and BytesParser in the framing.      *)
(* A byte on the wire is a number of 0 .. 255; char and Byte are signed.   *)
(***************************************************************************)
EXTENDS Integers, Sequences

Byte == 0 .. 255

\* The values of an int
Int32 == {n \in Int : -2147483647 - 1 <= n /\ n <= 2147483647}

signed(byte) == IF byte < 128 THEN byte ELSE byte - 256

\* The four bytes of an int, the most significant first ...
IntToByte(value) ==
  << (value \div 16777216) % 256, (value \div 65536) % 256, (value \div 256) % 256, value % 256 >>

\* ... and back, from offset begin of a message: the masks of the code drop the
\* sign of every byte but the first.
ByteToInt(message, begin) ==
  signed(message[begin + 1]) * 16777216 + message[begin + 2] * 65536
    + message[begin + 3] * 256 + message[begin + 4]

\* The same two functions as the Java clients have them.
intToByteList(number) == IntToByte(number)
byteListToInt(bytes) == ByteToInt(bytes, 0)

\* The length before a message has the least significant byte first.
intToByteListLittleEndian(number) ==
  << number % 256, (number \div 256) % 256, (number \div 65536) % 256, (number \div 16777216) % 256 >>
byteListToIntLittleEndian(bytes) ==
  signed(bytes[4]) * 16777216 + bytes[3] * 65536 + bytes[2] * 256 + bytes[1]

\* The server copies its int32_t as it lies in memory: least significant first.
toBytes(value) == intToByteListLittleEndian(value)
parse(bytes) == byteListToIntLittleEndian(bytes)

=============================================================================
