---------------------------- MODULE MessageFields ----------------------------
(***************************************************************************)
(* The values inside a message, each after its length: SerializerMessage   *)
(* on the server, ConnectionUtil in the Java clients.  A std::string is a  *)
(* sequence of bytes, a Java String a sequence of characters (below 2048). *)
(***************************************************************************)
EXTENDS Bytes, SequencesExt

(* The server *)

StringToByte(value) == value
BoolToByte(value) == << IF value THEN 1 ELSE 0 >>

constructIntMessageWithSize(value) == IntToByte(4) \o IntToByte(value)
constructStringMessageWithSize(value) == IntToByte(Len(value)) \o StringToByte(value)
constructBoolMessageWithSize(value) == IntToByte(1) \o BoolToByte(value)

WithLength(message) == IntToByte(Len(message)) \o message

\* The characters a size says are there.
StringAt(message, begin) ==
  SubSeq(message, begin + 5, begin + 4 + ByteToInt(message, begin))

(* The Java clients *)

\* getBytes() writes a character beyond ASCII as two bytes, while the size before
\* the text counts characters, ...
stringToByteList(name) ==
  FlattenSeq([i \in 1 .. Len(name) |->
    IF name[i] < 128 THEN << name[i] >> ELSE << 192 + name[i] \div 64, 128 + (name[i] % 64) >>])

prepareIntegerMessageWithSize(number) == intToByteList(4) \o intToByteList(number)
prepareStringMessageWithSize(text) == intToByteList(Len(text)) \o stringToByteList(text)

\* ... and the way back makes a character of every byte, negative ones extended
\* to sixteen bits.
byteListToString(bytes) ==
  [i \in 1 .. Len(bytes) |-> IF bytes[i] < 128 THEN bytes[i] ELSE 65280 + bytes[i]]
byteListToBoolean(bytes) == bytes[1] # 0

addPrefixMessageSize(message) == intToByteListLittleEndian(Len(message)) \o message

subList(message, from, to) == SubSeq(message, from + 1, to)
after(message, from) == subList(message, from, Len(message))

\* The readers advance over a size and over as many bytes as it says, n times.
Values(message, n) ==
  LET end[k \in 0 .. n] ==
        IF k = 0 THEN 0
        ELSE end[k - 1] + 4 + byteListToInt(subList(message, end[k - 1], end[k - 1] + 4))
  IN [k \in 1 .. n |-> subList(message, end[k - 1] + 4, end[k])]

\* A list: how many elements, and each after its length.
ListElements(message) == Values(after(message, 4), byteListToInt(message))

=============================================================================
