------------------------------- MODULE Framing -------------------------------
(***************************************************************************)
(* Messages on a stream, each after its length, and the reader of the C++  *)
(* programs (ClientsHandler::Client::recvData), which gets them in pieces  *)
(* of any size.  A cell is one byte of a frame: the message it belongs to  *)
(* and its place in the frame.                                             *)
(***************************************************************************)
EXTENDS Integers, SequencesExt

CONSTANTS LengthBytes,   \* sizeof(int32_t)
          MAX_MSG,       \* the longest message
          Size(_)        \* the bytes of a message

Garbled == [kind |-> "garbled"]

\* appendFrontBytes, or addPrefixMessageSize
Frame(message) ==
  [k \in 1 .. (LengthBytes + Size(message)) |-> [of |-> message, at |-> k]]

Frames(messages) == FlattenSeq([k \in DOMAIN messages |-> Frame(messages[k])])

LengthIn(cells) ==
  LET of == cells[1].of IN
  IF cells = SubSeq(Frame(of), 1, LengthBytes) THEN Size(of) ELSE 0

MessageIn(cells) ==
  LET of == cells[1].of IN
  IF cells = SubSeq(Frame(of), LengthBytes + 1, LengthBytes + Size(of)) THEN of ELSE Garbled

-----------------------------------------------------------------------------
(* The fields of a Client that read *)

NothingRead == [remainingIn |-> 0, remainingInLen |-> 0, inBuffer |-> <<>>]

StartOfMessage(r) ==
  IF r.remainingIn = 0 /\ r.remainingInLen = 0
  THEN [r EXCEPT !.inBuffer = <<>>, !.remainingInLen = LengthBytes] ELSE r

\* Fault: the reader asks for the rest of the length and more.
toReceiveMore(r) ==
  LET s == StartOfMessage(r) IN s.remainingIn + s.remainingInLen + 1

\* Most bytes that a call asks the socket for
toReceive(r) ==
  LET s == StartOfMessage(r) IN
  IF s.remainingIn > s.remainingInLen THEN s.remainingIn ELSE s.remainingInLen

\* The length is complete: a bad one throws.
LengthRead(r) ==
  LET length == LengthIn(r.inBuffer) IN
  [reader |-> [r EXCEPT !.remainingIn = length, !.inBuffer = <<>>],
   got |-> IF length \in 1 .. MAX_MSG THEN <<>> ELSE << Garbled >>]

\* Fault: the length stays in front of the message.
recvDataKeeping(r, cells) ==
  LET s == StartOfMessage(r)
      read == [s EXCEPT !.inBuffer = @ \o cells] IN
  IF s.remainingInLen > 0
  THEN LET t == [read EXCEPT !.remainingInLen = @ - Len(cells)] IN
       IF t.remainingInLen = 0
       THEN [reader |-> [t EXCEPT !.remainingIn = LengthIn(t.inBuffer)], got |-> <<>>]
       ELSE [reader |-> t, got |-> <<>>]
  ELSE LET t == [read EXCEPT !.remainingIn = @ - Len(cells)] IN
       [reader |-> t, got |-> IF t.remainingIn = 0 THEN << MessageIn(t.inBuffer) >> ELSE <<>>]

\* recvData(), when the socket gives these cells: the reader after it, and the
\* message it hands to gotMsg, if it does.
recvData(r, cells) ==
  LET s == StartOfMessage(r)
      read == [s EXCEPT !.inBuffer = @ \o cells] IN
  IF s.remainingInLen > 0
  THEN LET t == [read EXCEPT !.remainingInLen = @ - Len(cells)] IN
       IF t.remainingInLen = 0 THEN LengthRead(t) ELSE [reader |-> t, got |-> <<>>]
  ELSE LET t == [read EXCEPT !.remainingIn = @ - Len(cells)] IN
       [reader |-> t, got |-> IF t.remainingIn = 0 THEN << MessageIn(t.inBuffer) >> ELSE <<>>]

=============================================================================
