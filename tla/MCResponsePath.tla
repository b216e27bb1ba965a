---------------------------- MODULE MCResponsePath ----------------------------
(***************************************************************************)
(* A small server for TLC, with numbers and texts at the edges of their    *)
(* encodings.                                                              *)
(***************************************************************************)
EXTENDS ResponsePath

\* Either port accepts any of the connections.
Interchangeable == Permutations(Connections)

\* Ids and ports of one byte and of three, an empty text and one of two letters
Ids == {1, 70000}
NoName == <<>>
Hall == <<72, 76>>
GivenNames == {Hall}
Addresses == [s \in Ids |-> [ip |-> <<49, 48>>, port |-> IF s = 1 THEN 80 ELSE 65536]]
Tokens == [s \in Ids |-> <<48, 84, IF s = 1 THEN 97 ELSE 98>>]
Measured ==
  [s \in Ids |-> IF s = 1 THEN << [value |-> -3, label |-> <<49, 51>>, age |-> 2],
                                  [value |-> 300, label |-> <<49, 52>>, age |-> 0] >>
                 ELSE << [value |-> 0, label |-> <<49>>, age |-> 1] >>]

Commands ==
  [administrator |-> {[type |-> 0], [type |-> 1, id |-> 1, name |-> Hall], [type |-> 2, id |-> 70000],
                      [type |-> 3, id |-> 70000], [type |-> 4, name |-> Hall]},
   monitoring    |-> {[type |-> 0], [type |-> 1, id |-> 1, span |-> 0]}]

\* What goes over the wire and back is what was meant, for numbers at the edges of
\* their bytes and texts of either length.
Edges == {0, 1, -1, 127, 128, 255, 256, -128, -129, 65535, 65536, -65536, 16777215, 16777216,
          -16777217, 2147483647, -2147483647 - 1}
ASSUME NumbersSurvive ==
  \A n \in Edges : ByteToInt(IntToByte(n), 0) = n /\ parse(intToByteListLittleEndian(n)) = n
ASSUME ListsSurvive ==
  \A id, number \in Edges : \A text \in {<<>>, <<65>>, <<72, 76>>}, connected \in BOOLEAN :
    LET sensor == [id |-> id, name |-> text, ip |-> text, port |-> number]
        listed == [type |-> 0, sensors |-> << [connected |-> connected] @@ sensor >>]
        shown == [type |-> 0, sensors |-> << [current |-> number] @@ sensor >>] IN
    /\ Administrator!analyzeResponse(Administrator!serializeResponseMessage(listed)) = listed
    /\ Monitoring!analyzeResponse(Monitoring!serializeResponseMessage(shown)) = shown

=============================================================================
