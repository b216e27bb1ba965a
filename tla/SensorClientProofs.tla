-------------------------- MODULE SensorClientProofs --------------------------
(***************************************************************************)
(* The sensor's client, for any number of connections and measurements and *)
(* any sizes of messages: it presents its token first, sends the           *)
(* measurements in order, and what either end reads is what the other      *)
(* wrote, in whatever pieces it arrives.                                   *)
(***************************************************************************)
EXTENDS SensorClient, SequenceTheorems, WellFoundedInduction, TLAPS

\* What the threads do to a Client but for the bytes: the part of the state the
\* token depends on.
ClientTypeOK ==
  /\ pc \in {"connect", "connected", "insert", "loop", "reset", "clear", "join", "ended"}
  /\ sensor \in {"loop", "append", "check", "send", "ended"}
  /\ measure \in 0 .. Rest /\ (sensor = "append" => measure # 0)
  /\ connection \in Nat
  /\ socket \in {NoSocket, connection}
  /\ pc \in {"connect", "connected", "clear"} => socket = NoSocket
  /\ outBuffer \in Seq(Messages)
  /\ sent \in Seq(Messages)
  /\ overtaken \in BOOLEAN

\* A sequence with the token in front and nowhere else, and one without
Led(s) == \A k \in DOMAIN s : s[k] = Token <=> k = 1
Unled(s) == \A k \in DOMAIN s : s[k] # Token

\* Where the token is at each step of connected() and after it
TokenInv ==
  /\ pc = "ended" => sensor = "ended"
  /\ pc \in {"connect", "connected", "insert"} => Unled(outBuffer)
  /\ pc \in {"connected", "insert"} /\ ~overtaken => sent = <<>>
  /\ pc \in {"loop", "join"} /\ ~overtaken =>
       \/ sent = <<>> /\ outBuffer # <<>> /\ Led(outBuffer)
       \/ sent # <<>> /\ Led(sent) /\ Unled(outBuffer)
  /\ ~overtaken => Led(sent)

IInv == ClientTypeOK /\ TokenInv

-----------------------------------------------------------------------------

LEMMA MessagesDiffer == \A n : Measure(n) # Token
BY DEF Measure, Token

LEMMA Kinds == Token \in Messages /\ \A n \in 1 .. Rest : Measure(n) \in Messages
BY DEF Messages

LEMMA AllButLast ==
  ASSUME NEW S, NEW s \in Seq(S), Len(s) \in Nat \ {0}
  PROVE  /\ SubSeq(s, 1, Len(s) - 1) \in Seq(S)
         /\ Len(SubSeq(s, 1, Len(s) - 1)) = Len(s) - 1
         /\ \A k \in 1 .. Len(SubSeq(s, 1, Len(s) - 1)) : SubSeq(s, 1, Len(s) - 1)[k] = s[k]
<1>1. \A i \in 1 .. Len(s) - 1 : s[i] \in S
  OBVIOUS
<1> DEFINE n == Len(s) - 1
<1>2. n \in Nat /\ n - 1 + 1 = n /\ 1 \in Int /\ n \in Int
  OBVIOUS
<1>3. SubSeq(s, 1, n) \in Seq(S)
  BY <1>1, <1>2
<1>4. \A i \in 1 .. n : SubSeq(s, 1, n)[i] = s[i]
  BY <1>1, <1>2
<1>5. Len(SubSeq(s, 1, n)) = n
  BY <1>2
<1>6. \A k \in 1 .. Len(SubSeq(s, 1, n)) : SubSeq(s, 1, n)[k] = s[k]
  BY <1>2, <1>4, <1>5
<1> QED BY <1>3, <1>5, <1>6 DEF n

\* What a send takes from outBuffer: all of it, or all but a measurement at the end.
LEMMA UnrepeatedIsFront ==
  ASSUME outBuffer \in Seq(Messages)
  PROVE  /\ Unrepeated \in Seq(Messages)
         /\ Len(Unrepeated) \in {Len(outBuffer), Len(outBuffer) - 1}
         /\ \A k \in 1 .. Len(Unrepeated) : Unrepeated[k] = outBuffer[k]
         /\ Len(Unrepeated) < Len(outBuffer) => outBuffer[Len(outBuffer)] # Token
<1>1. CASE Unrepeated = outBuffer
  BY <1>1
<1>2. CASE Unrepeated # outBuffer
  <2>1. /\ outBuffer # <<>> /\ Last(outBuffer) = Measure(Rest)
        /\ Unrepeated = Front(outBuffer)
    BY <1>2 DEF Unrepeated
  <2>2. /\ Len(outBuffer) \in Nat \ {0}
        /\ Unrepeated = SubSeq(outBuffer, 1, Len(outBuffer) - 1)
        /\ outBuffer[Len(outBuffer)] = Measure(Rest)
    BY <2>1 DEF Last, Front
  <2>3. /\ Unrepeated \in Seq(Messages)
        /\ Len(Unrepeated) = Len(outBuffer) - 1
        /\ \A k \in 1 .. Len(Unrepeated) : Unrepeated[k] = outBuffer[k]
    BY <2>2, AllButLast
  <2> QED BY <2>2, <2>3, MessagesDiffer
<1> QED BY <1>1, <1>2

\* A send over a connection whose token is in front of outBuffer, or has been sent,
\* leaves it in front of what has been sent.
LEMMA SendLeads ==
  ASSUME outBuffer \in Seq(Messages), sent \in Seq(Messages),
         \/ sent = <<>> /\ outBuffer # <<>> /\ Led(outBuffer)
         \/ sent # <<>> /\ Led(sent) /\ Unled(outBuffer)
  PROVE  (sent \o Unrepeated) # <<>> /\ Led(sent \o Unrepeated)
<1> DEFINE u == Unrepeated
<1>1. /\ u \in Seq(Messages) /\ Len(u) \in {Len(outBuffer), Len(outBuffer) - 1}
      /\ \A k \in 1 .. Len(u) : u[k] = outBuffer[k]
      /\ Len(u) < Len(outBuffer) => outBuffer[Len(outBuffer)] # Token
  BY UnrepeatedIsFront
<1> HIDE DEF u
<1>2. CASE sent = <<>> /\ outBuffer # <<>> /\ Led(outBuffer)
  <2>1. sent \o u = u
    BY <1>1, <1>2
  <2>2. outBuffer[1] = Token /\ Len(outBuffer) \in Nat \ {0}
    BY <1>2 DEF Led
  <2>3. \A k \in DOMAIN u : u[k] = Token <=> k = 1
    BY <1>1, <1>2 DEF Led
  <2>4. Len(u) \in Nat \ {0}
    BY <1>1, <2>2
  <2> QED BY <2>1, <2>3, <2>4 DEF Led, u
<1>3. CASE sent # <<>> /\ Led(sent) /\ Unled(outBuffer)
  <2>1. Len(sent) \in Nat \ {0} /\ Len(u) \in Nat /\ Len(outBuffer) \in Nat
    BY <1>1, <1>3
  <2>2. /\ sent \o u \in Seq(Messages) /\ Len(sent \o u) = Len(sent) + Len(u)
        /\ \A k \in 1 .. Len(sent) : (sent \o u)[k] = sent[k]
        /\ \A k \in (Len(sent) + 1) .. (Len(sent) + Len(u)) : (sent \o u)[k] = u[k - Len(sent)]
    BY <1>1
  <2>3. \A k \in 1 .. Len(u) : u[k] # Token
    BY <1>1, <1>3 DEF Unled
  <2>4. ASSUME NEW k \in DOMAIN (sent \o u) PROVE (sent \o u)[k] = Token <=> k = 1
    <3>1. CASE k <= Len(sent)
      BY <3>1, <2>1, <2>2, <1>3 DEF Led
    <3>2. CASE k > Len(sent)
      BY <3>2, <2>1, <2>2, <2>3
    <3> QED BY <3>1, <3>2, <2>1, <2>2
  <2> QED BY <2>1, <2>2, <2>4 DEF Led, u
<1> QED BY <1>2, <1>3

-----------------------------------------------------------------------------

LEMMA InitIInv == Init => IInv
<1> SUFFICES ASSUME Init PROVE IInv
  OBVIOUS
<1>1. Rest \in Nat
  BY ClientAssumption DEF Rest
<1>2. <<>> \in Seq(Messages) /\ DOMAIN <<>> = {}
  OBVIOUS
<1>3. ClientTypeOK
  <2>1. overtaken \in BOOLEAN
    BY DEF Init
  <2>2. sent \in Seq(Messages) /\ outBuffer \in Seq(Messages)
    BY <1>2 DEF Init
  <2>3. measure \in 0 .. Rest /\ sensor = "loop" /\ pc = "connect" /\ socket = NoSocket
    BY <1>1 DEF Init
  <2>4. connection \in Nat
    BY DEF Init
  <2> QED BY <2>1, <2>2, <2>3, <2>4 DEF ClientTypeOK
<1>4. TokenInv
  BY <1>2 DEF Init, TokenInv, Unled, Led
<1> QED BY <1>3, <1>4 DEF IInv

\* Types

LEMMA TypeStep == ClientTypeOK /\ [Next]_vars => ClientTypeOK'
<1> SUFFICES ASSUME ClientTypeOK, [Next]_vars PROVE ClientTypeOK'
  OBVIOUS
<1> USE DEF ClientTypeOK, client, stream, history, NoSocket
<1>1. /\ Rest \in Nat /\ Rest >= 1
      /\ \A n \in 1 .. Rest : Measure(n) \in Messages
      /\ Token \in Messages
  BY ClientAssumption, Kinds DEF Rest
<1>2. CASE TryConnect
  <2>1. overtaken' = FALSE /\ sent' = <<>> /\ outBuffer' = outBuffer
    BY <1>2 DEF TryConnect
  <2>2. sent' \in Seq(Messages) /\ (outBuffer \in Seq(Messages))'
    BY <2>1
  <2>3. overtaken' \in BOOLEAN
    BY <2>1
  <2>4. connection' \in Nat /\ pc' = "connected" /\ socket' = NoSocket
    BY <1>2 DEF TryConnect
  <2>5. sensor' = sensor /\ measure' = measure
    BY <1>2 DEF TryConnect
  <2> QED BY <2>2, <2>4, <2>5, <2>3
<1>3. CASE SetSocket
  BY <1>3 DEF SetSocket
<1>4. CASE InsertToken
  BY <1>4, <1>1 DEF InsertToken
<1>5. CASE Receive
  BY <1>5 DEF Receive
<1>6. CASE ReceiveEnd
  BY <1>6 DEF ReceiveEnd
<1>7. CASE ResetSocket
  BY <1>7 DEF ResetSocket
<1>8. CASE ClearBuffer
  BY <1>8 DEF ClearBuffer
<1>9. CASE Join
  BY <1>9 DEF Join
<1>10. CASE TakeMeasure
  BY <1>10, <1>1 DEF TakeMeasure
<1>11. CASE AddOutMsg
  BY <1>11, <1>1 DEF AddOutMsg
<1>12. CASE CheckConnected
  BY <1>12 DEF CheckConnected
<1>13. CASE Send
  BY <1>13, UnrepeatedIsFront DEF Send, Sends
<1>14. CASE SendInVain
  BY <1>14, UnrepeatedIsFront DEF SendInVain, Sends
<1>15. CASE SendFails
  BY <1>15 DEF SendFails, Sends
<1>16. CASE BrokenPipe
  BY <1>16 DEF BrokenPipe
<1>17. CASE ServerReads
  BY <1>17 DEF ServerReads
<1>18. CASE ServerCloses
  BY <1>18 DEF ServerCloses
<1>19. CASE UNCHANGED vars
  BY <1>19 DEF vars
<1> QED BY <1>2, <1>3, <1>4, <1>5, <1>6, <1>7, <1>8, <1>9, <1>10, <1>11, <1>12, <1>13, <1>14,
           <1>15, <1>16, <1>17, <1>18, <1>19 DEF Next, Main, SensorThread

\* The token

LEMMA SendToken ==
  ASSUME IInv, Sends, Usable, ClientTypeOK',
         sent' = sent \o Unrepeated, outBuffer' = <<>>,
         overtaken' = (overtaken \/ pc = "insert"), UNCHANGED <<pc, socket>>
  PROVE  TokenInv'
<1> USE DEF IInv, ClientTypeOK, TokenInv
<1>1. Unled(outBuffer)'
  BY DEF Unled
<1>2. pc \in {"insert", "loop", "join"}
  BY DEF Usable, Sends
<1>3. CASE overtaken'
  BY <1>1, <1>2, <1>3
<1>4. CASE ~overtaken'
  <2>1. pc \in {"loop", "join"} /\ ~overtaken
    BY <1>2, <1>4
  <2>2. sent' # <<>> /\ Led(sent')
    BY <2>1, SendLeads
  <2> QED BY <1>1, <2>1, <2>2 DEF Led
<1> QED BY <1>3, <1>4

LEMMA TokenStep == IInv /\ [Next]_vars => TokenInv'
<1> SUFFICES ASSUME IInv, [Next]_vars PROVE TokenInv'
  OBVIOUS
<1>1. ClientTypeOK' /\ ClientTypeOK /\ TokenInv
  BY TypeStep DEF IInv
<1> USE DEF ClientTypeOK, TokenInv, client, stream, history
<1>2. CASE TryConnect
  BY <1>1, <1>2 DEF TryConnect, Unled, Led
<1>3. CASE SetSocket
  BY <1>1, <1>3 DEF SetSocket, Unled, Led
<1>4. CASE InsertToken
  <2>1. /\ outBuffer' = <<Token>> \o outBuffer /\ Unled(outBuffer)
        /\ pc = "insert" /\ pc' = "loop" /\ UNCHANGED <<socket, sent, overtaken, sensor>>
    BY <1>1, <1>4 DEF InsertToken
  <2>2. outBuffer' # <<>> /\ Led(outBuffer')
    BY <1>1, <2>1 DEF Unled, Led
  <2>3. Led(outBuffer)' /\ (~overtaken => sent' = <<>> /\ Led(sent)')
    BY <1>1, <2>1, <2>2 DEF Led
  <2> QED BY <1>1, <2>1, <2>2, <2>3
<1>5. CASE Receive
  BY <1>1, <1>5 DEF Receive, Unled, Led
<1>6. CASE ReceiveEnd
  BY <1>1, <1>6 DEF ReceiveEnd, Unled, Led
<1>7. CASE ResetSocket
  BY <1>1, <1>7 DEF ResetSocket, Unled, Led
<1>8. CASE ClearBuffer
  BY <1>1, <1>8 DEF ClearBuffer, Unled, Led
<1>9. CASE Join
  BY <1>1, <1>9 DEF Join, Unled, Led
<1>10. CASE TakeMeasure
  BY <1>1, <1>10 DEF TakeMeasure, Unled, Led
<1>11. CASE AddOutMsg
  <2>1. /\ outBuffer' = outBuffer \/ outBuffer' = Append(outBuffer, Measure(measure))
        /\ sensor = "append" /\ sensor' = "check" /\ UNCHANGED <<pc, socket, sent, overtaken>>
    BY <1>11 DEF AddOutMsg
  <2>2. Measure(measure) # Token
    BY MessagesDiffer
  <2>3. Unled(outBuffer) => Unled(outBuffer)'
    BY SMTT(30), <1>1, <2>1, <2>2 DEF Unled
  <2>4. outBuffer # <<>> /\ Led(outBuffer) => (outBuffer # <<>> /\ Led(outBuffer))'
    BY SMTT(30), <1>1, <2>1, <2>2 DEF Led
  <2>5. Led(sent) => Led(sent)'
    BY <2>1 DEF Led
  <2> QED BY <1>1, <2>1, <2>3, <2>4, <2>5
<1>12. CASE CheckConnected
  BY <1>1, <1>12 DEF CheckConnected, Unled, Led
<1>13. CASE Send
  BY <1>1, <1>13, SendToken DEF Send
<1>14. CASE SendInVain
  BY <1>1, <1>14, SendToken DEF SendInVain
<1>15. CASE SendFails
  BY <1>1, <1>15 DEF SendFails, Sends, Unled, Led
<1>16. CASE BrokenPipe
  BY <1>1, <1>16 DEF BrokenPipe, Unled, Led
<1>17. CASE ServerReads
  BY <1>1, <1>17 DEF ServerReads, Unled, Led
<1>18. CASE ServerCloses
  BY <1>1, <1>18 DEF ServerCloses, Unled, Led
<1>19. CASE UNCHANGED vars
  BY <1>1, <1>19 DEF vars, Unled, Led
<1> QED BY <1>2, <1>3, <1>4, <1>5, <1>6, <1>7, <1>8, <1>9, <1>10, <1>11, <1>12, <1>13, <1>14,
           <1>15, <1>16, <1>17, <1>18, <1>19 DEF Next, Main, SensorThread

\* Every connection starts with the token and has no other, unless sensorThread sent
\* between the two steps of connected().
THEOREM TokenLeads == Spec => []TokenFirst
<1>1. IInv /\ [Next]_vars => IInv'
  BY TypeStep, TokenStep DEF IInv
<1>2. IInv => TokenFirst
  BY DEF IInv, TokenInv, TokenFirst, Led
<1> QED BY InitIInv, <1>1, <1>2, PTL DEF Spec

-----------------------------------------------------------------------------
(* The order of the measurements *)

\* The measurements of a sequence that are told apart ascend; those of t come after
\* all of s, or after the numbers S; all of s are below b.
Ascends(s) ==
  \A k, l \in DOMAIN s : l < k /\ ToldApart(s[k]) /\ ToldApart(s[l]) => s[l].n < s[k].n
Follows(s, t) ==
  \A k \in DOMAIN s, l \in DOMAIN t : s[k].kind = "m" /\ ToldApart(t[l]) => s[k].n < t[l].n
Above(S, t) == \A n \in S, l \in DOMAIN t : ToldApart(t[l]) => n < t[l].n
Below(s, b) == \A k \in DOMAIN s : s[k].kind = "m" => s[k].n < b

\* The least number that no measurement has had yet: the one sensorThread has taken
\* until it is in outBuffer, the next one then.
Fresh == IF sensor = "append" /\ measure # Rest THEN measure ELSE measure + 1

OrderInv ==
  /\ sentBefore \subseteq 1 .. Rest
  /\ Ascends(outBuffer) /\ Ascends(sent) /\ Follows(sent, outBuffer)
  /\ Above(sentBefore, outBuffer) /\ Above(sentBefore, sent)
  /\ Below(outBuffer, Fresh) /\ Below(sent, Fresh)
  /\ \A n \in sentBefore : n < Fresh

LEMMA Numbered ==
  /\ Token.kind # "m"
  /\ \A n : Measure(n).kind = "m" /\ Measure(n).n = n
  /\ \A m \in Messages : m.kind = "m" => m.n \in 1 .. Rest
BY DEF Messages, Token, Measure

LEMMA InitOrder == Init => OrderInv
<1> SUFFICES ASSUME Init PROVE OrderInv
  OBVIOUS
<1>1. outBuffer = <<>> /\ sent = <<>> /\ sentBefore = {} /\ DOMAIN <<>> = {}
  BY DEF Init
<1> QED BY <1>1 DEF OrderInv, Ascends, Follows, Above, Below

\* A token in front does not disturb the order.
LEMMA TokenInFront ==
  ASSUME NEW s \in Seq(Messages), NEW b
  PROVE  LET t == <<Token>> \o s IN
         /\ Ascends(s) => Ascends(t)
         /\ Below(s, b) => Below(t, b)
         /\ \A r \in Seq(Messages) : Follows(r, s) => Follows(r, t)
         /\ \A S : Above(S, s) => Above(S, t)
<1> DEFINE t == <<Token>> \o s
<1>1. /\ DOMAIN t = 1 .. (Len(s) + 1) /\ t[1] = Token /\ Len(s) \in Nat
      /\ \A k \in 2 .. (Len(s) + 1) : t[k] = s[k - 1] /\ k - 1 \in DOMAIN s
      /\ DOMAIN s = 1 .. Len(s)
  BY Kinds
<1>2. ~ToldApart(Token) /\ Token.kind # "m"
  BY Numbered DEF ToldApart
<1>3. \A k \in DOMAIN t : (t[k].kind = "m" \/ ToldApart(t[k])) => k \in 2 .. (Len(s) + 1)
  BY <1>1, <1>2
<1> HIDE DEF t
<1>4. ASSUME Ascends(s), NEW k \in DOMAIN t, NEW l \in DOMAIN t,
             l < k, ToldApart(t[k]), ToldApart(t[l])
      PROVE  t[l].n < t[k].n
  <2>1. k \in 2 .. (Len(s) + 1) /\ l \in 2 .. (Len(s) + 1)
    BY <1>3, <1>4
  <2>2. /\ t[k] = s[k - 1] /\ k - 1 \in DOMAIN s /\ t[l] = s[l - 1] /\ l - 1 \in DOMAIN s
        /\ l - 1 < k - 1
    BY <1>1, <1>4, <2>1
  <2> QED BY <1>4, <2>2 DEF Ascends
<1>5. Below(s, b) => Below(t, b)
  BY <1>1, <1>3 DEF Below
<1>6. \A r \in Seq(Messages) : Follows(r, s) => Follows(r, t)
  BY <1>1, <1>3 DEF Follows
<1>7. \A S : Above(S, s) => Above(S, t)
  BY <1>1, <1>3 DEF Above
<1>8. Ascends(s) => Ascends(t)
  BY <1>4 DEF Ascends
<1> QED BY <1>5, <1>6, <1>7, <1>8 DEF t

\* Nor does a new measurement at the end.
LEMMA FreshAtEnd ==
  ASSUME ClientTypeOK, OrderInv, sensor = "append",
         NEW t, t = Append(outBuffer, Measure(measure))
  PROVE  /\ Ascends(t) /\ Follows(sent, t) /\ Above(sentBefore, t)
         /\ Below(t, measure + 1)
<1>1. /\ DOMAIN t = 1 .. (Len(outBuffer) + 1) /\ Len(outBuffer) \in Nat
      /\ t[Len(outBuffer) + 1] = Measure(measure)
      /\ \A k \in 1 .. Len(outBuffer) : t[k] = outBuffer[k] /\ k \in DOMAIN outBuffer
      /\ \A k \in DOMAIN t : k # Len(outBuffer) + 1 => k \in 1 .. Len(outBuffer)
  BY Kinds DEF ClientTypeOK
<1>2. Measure(measure).kind = "m" /\ Measure(measure).n = measure
  BY Numbered
<1>3. ToldApart(Measure(measure)) => Fresh = measure
  BY <1>2 DEF ToldApart, Fresh
<1>4. measure \in Nat /\ Fresh \in {measure, measure + 1}
  BY ClientAssumption DEF ClientTypeOK, Fresh, Rest
<1>5. \A k \in DOMAIN outBuffer : outBuffer[k].kind = "m" => outBuffer[k].n \in Nat
  BY Numbered, ClientAssumption DEF ClientTypeOK, Rest
<1>6. ToldApart(Measure(measure)) =>
        \A k \in DOMAIN outBuffer : outBuffer[k].kind = "m" => outBuffer[k].n < measure
  BY <1>3 DEF OrderInv, Below
<1>7. Ascends(t)
  BY <1>1, <1>2, <1>6 DEF OrderInv, Ascends, ToldApart
<1>8. Follows(sent, t)
  BY <1>1, <1>2, <1>3 DEF OrderInv, Follows, Below
<1>9. Above(sentBefore, t)
  BY <1>1, <1>2, <1>3 DEF OrderInv, Above
<1>10. Below(t, measure + 1)
  BY <1>1, <1>2, <1>4, <1>5 DEF OrderInv, Below
<1> QED BY <1>7, <1>8, <1>9, <1>10

\* What a send adds to what has been sent keeps the order.
LEMMA SendOrdered ==
  ASSUME ClientTypeOK, OrderInv
  PROVE  LET t == sent \o Unrepeated IN
         Ascends(t) /\ Above(sentBefore, t) /\ Below(t, Fresh)
<1> DEFINE u == Unrepeated
           t == sent \o u
<1>1. /\ u \in Seq(Messages) /\ Len(u) \in {Len(outBuffer), Len(outBuffer) - 1}
      /\ \A k \in 1 .. Len(u) : u[k] = outBuffer[k]
  BY UnrepeatedIsFront DEF ClientTypeOK
<1> HIDE DEF u
<1>2. \A k \in 1 .. Len(u) : u[k] = outBuffer[k] /\ k \in DOMAIN outBuffer
  BY <1>1 DEF ClientTypeOK
<1>3. /\ Len(sent) \in Nat /\ Len(u) \in Nat
      /\ DOMAIN t = 1 .. (Len(sent) + Len(u))
      /\ \A k \in 1 .. Len(sent) : t[k] = sent[k] /\ k \in DOMAIN sent
      /\ \A k \in (Len(sent) + 1) .. (Len(sent) + Len(u)) :
           t[k] = u[k - Len(sent)] /\ k - Len(sent) \in 1 .. Len(u)
  BY <1>1 DEF ClientTypeOK
<1> HIDE DEF t
<1>4. \A k \in DOMAIN t :
        \/ k \in 1 .. Len(sent) /\ t[k] = sent[k] /\ k \in DOMAIN sent
        \/ /\ k > Len(sent) /\ t[k] = outBuffer[k - Len(sent)]
           /\ k - Len(sent) \in DOMAIN outBuffer
  BY <1>2, <1>3
<1>5. ASSUME NEW k \in DOMAIN t, NEW l \in DOMAIN t,
             l < k, ToldApart(t[k]), ToldApart(t[l])
      PROVE  t[l].n < t[k].n
  <2>1. k \in Nat /\ l \in Nat
    BY <1>3
  <2>2. CASE k \in 1 .. Len(sent)
    BY <1>3, <1>5, <2>1, <2>2 DEF OrderInv, Ascends
  <2>3. CASE k > Len(sent) /\ l \in 1 .. Len(sent)
    BY <1>3, <1>4, <1>5, <2>1, <2>3 DEF OrderInv, Follows, ToldApart
  <2>4. CASE k > Len(sent) /\ l > Len(sent)
    <3>1. /\ k - Len(sent) \in DOMAIN outBuffer /\ t[k] = outBuffer[k - Len(sent)]
          /\ l - Len(sent) \in DOMAIN outBuffer /\ t[l] = outBuffer[l - Len(sent)]
          /\ l - Len(sent) < k - Len(sent)
      BY <1>3, <1>4, <1>5, <2>1, <2>4
    <3> QED BY <1>5, <3>1 DEF OrderInv, Ascends
  <2> QED BY <1>3, <1>4, <2>1, <2>2, <2>3, <2>4
<1>6. Ascends(t)
  BY <1>5 DEF Ascends
<1>7. Above(sentBefore, t)
  BY <1>4 DEF OrderInv, Above
<1>8. Below(t, Fresh)
  BY <1>4 DEF OrderInv, Below
<1> QED BY <1>6, <1>7, <1>8 DEF t, u

LEMMA SendKeepsOrder ==
  ASSUME ClientTypeOK, OrderInv, Sends, sent' = sent \o Unrepeated, outBuffer' = <<>>,
         UNCHANGED <<measure, sentBefore>>
  PROVE  OrderInv'
<1>1. Fresh' = Fresh
  BY DEF Sends, Fresh
<1>2. outBuffer' = <<>> /\ DOMAIN <<>> = {}
  OBVIOUS
<1>3. /\ Ascends(outBuffer') /\ Follows(sent', outBuffer') /\ Above(sentBefore', outBuffer')
      /\ Below(outBuffer', Fresh')
  BY <1>2 DEF Ascends, Follows, Above, Below
<1>4. Ascends(sent') /\ Above(sentBefore', sent') /\ Below(sent', Fresh')
  BY <1>1, SendOrdered
<1> QED BY <1>1, <1>3, <1>4 DEF OrderInv

\* Steps that leave the sequences alone and use no number.
LEMMA NothingNumbered ==
  ASSUME OrderInv, UNCHANGED <<outBuffer, sent, sentBefore>>, Fresh' = Fresh
  PROVE  OrderInv'
BY DEF OrderInv, Ascends, Follows, Above, Below

LEMMA OrderStep == ClientTypeOK /\ OrderInv /\ [Next]_vars => OrderInv'
<1> SUFFICES ASSUME ClientTypeOK, OrderInv, [Next]_vars PROVE OrderInv'
  OBVIOUS
<1> USE DEF client, stream, history
<1>1. DOMAIN <<>> = {}
  OBVIOUS
<1>2. CASE TryConnect
  <2>1. /\ sentBefore' = sentBefore \cup Numbers(sent) /\ sent' = <<>>
        /\ UNCHANGED <<outBuffer, measure, sensor>>
    BY <1>2 DEF TryConnect
  <2>2. \A n \in Numbers(sent) : \E k \in DOMAIN sent : sent[k].kind = "m" /\ n = sent[k].n
    BY DEF Numbers
  <2>3. Fresh' = Fresh
    BY <2>1 DEF Fresh
  <2>4. \A k \in DOMAIN sent : sent[k].kind = "m" => sent[k].n \in 1 .. Rest
    BY Numbered DEF ClientTypeOK
  <2>5. sentBefore' \subseteq 1 .. Rest
    BY <2>1, <2>2, <2>4 DEF OrderInv
  <2>6. Ascends(sent') /\ Follows(sent', outBuffer') /\ Above(sentBefore', sent') /\ Below(sent', Fresh')
    BY <1>1, <2>1 DEF Ascends, Follows, Above, Below
  <2>7. Above(sentBefore', outBuffer') /\ \A n \in sentBefore' : n < Fresh'
    BY <2>1, <2>2, <2>3 DEF OrderInv, Above, Follows, Below
  <2>8. Ascends(outBuffer') /\ Below(outBuffer', Fresh')
    BY <2>1, <2>3 DEF OrderInv
  <2> QED BY <2>5, <2>6, <2>7, <2>8 DEF OrderInv
<1>3. CASE SetSocket
  BY <1>3, NothingNumbered DEF SetSocket, Fresh
<1>4. CASE InsertToken
  <2>1. outBuffer' = <<Token>> \o outBuffer /\ UNCHANGED <<sent, sentBefore, measure, sensor>>
    BY <1>4 DEF InsertToken
  <2>2. Fresh' = Fresh
    BY <2>1 DEF Fresh
  <2>3. /\ Ascends(outBuffer') /\ Below(outBuffer', Fresh)
        /\ Follows(sent, outBuffer') /\ Above(sentBefore, outBuffer')
    BY <2>1, TokenInFront DEF OrderInv, ClientTypeOK
  <2> QED BY <2>1, <2>2, <2>3 DEF OrderInv
<1>5. CASE Receive
  BY <1>5, NothingNumbered DEF Receive, Fresh
<1>6. CASE ReceiveEnd
  BY <1>6, NothingNumbered DEF ReceiveEnd, Fresh
<1>7. CASE ResetSocket
  BY <1>7, NothingNumbered DEF ResetSocket, Fresh
<1>8. CASE ClearBuffer
  <2>1. outBuffer' = <<>> /\ UNCHANGED <<sent, sentBefore>> /\ Fresh' = Fresh
    BY <1>8 DEF ClearBuffer, Fresh
  <2>2. /\ Ascends(outBuffer') /\ Follows(sent, outBuffer') /\ Above(sentBefore, outBuffer')
        /\ Below(outBuffer', Fresh)
    BY <1>1, <2>1 DEF Ascends, Follows, Above, Below
  <2> QED BY <2>1, <2>2 DEF OrderInv
<1>9. CASE Join
  BY <1>9, NothingNumbered DEF Join, Fresh
<1>10. CASE TakeMeasure
  <2>1. /\ sensor = "loop" /\ UNCHANGED <<outBuffer, sent, sentBefore>>
        /\ \/ sensor' = "ended" /\ measure' = measure
           \/ /\ sensor' = "append"
              /\ measure' = IF measure < Rest THEN measure + 1 ELSE Rest
    BY <1>10 DEF TakeMeasure
  <2>2. measure \in 0 .. Rest /\ Rest \in Nat
    BY ClientAssumption DEF ClientTypeOK, Rest
  <2>3. Fresh' = Fresh \/ (measure' = Rest /\ Fresh' = Rest + 1)
    BY <2>1, <2>2 DEF Fresh
  <2>4. CASE Fresh' = Fresh
    BY <2>1, <2>4, NothingNumbered
  <2>5. CASE Fresh' = Rest + 1
    <3>1. \A m \in Messages : m.kind = "m" => m.n < Rest + 1
      BY <2>2, Numbered
    <3>2. Below(outBuffer', Fresh') /\ Below(sent', Fresh')
      BY <2>1, <2>5, <3>1 DEF Below, ClientTypeOK
    <3>3. \A n \in sentBefore' : n < Fresh'
      BY <2>1, <2>2, <2>5 DEF OrderInv
    <3> QED BY <2>1, <3>2, <3>3 DEF OrderInv
  <2> QED BY <2>3, <2>4, <2>5
<1>11. CASE AddOutMsg
  <2>1. /\ sensor = "append" /\ sensor' = "check" /\ UNCHANGED <<measure, sent, sentBefore>>
        /\ outBuffer' = outBuffer \/ outBuffer' = Append(outBuffer, Measure(measure))
    BY <1>11 DEF AddOutMsg
  <2>2. Fresh' = measure + 1 /\ Fresh \in {measure, measure + 1} /\ measure \in Nat
    BY <2>1, ClientAssumption DEF Fresh, ClientTypeOK, Rest
  <2>3. /\ Ascends(outBuffer') /\ Follows(sent, outBuffer') /\ Above(sentBefore, outBuffer')
        /\ Below(outBuffer', measure + 1)
    <3>1. CASE outBuffer' = Append(outBuffer, Measure(measure))
      BY <2>1, <3>1, FreshAtEnd
    <3>2. CASE outBuffer' = outBuffer
      <4>1. \A k \in DOMAIN outBuffer : outBuffer[k].kind = "m" => outBuffer[k].n \in Nat
        BY Numbered, ClientAssumption DEF ClientTypeOK, Rest
      <4>2. Below(outBuffer, measure + 1)
        BY <2>2, <4>1 DEF OrderInv, Below
      <4> QED BY <3>2, <4>2 DEF OrderInv
    <3> QED BY <2>1, <3>1, <3>2
  <2>4. Below(sent', Fresh') /\ \A n \in sentBefore' : n < Fresh'
    <3>1. \A k \in DOMAIN sent : sent[k].kind = "m" => sent[k].n \in Nat
      BY Numbered, ClientAssumption DEF ClientTypeOK, Rest
    <3>2. Below(sent, measure + 1)
      BY <2>2, <3>1 DEF OrderInv, Below
    <3>3. \A n \in sentBefore : n < measure + 1
      BY <2>2 DEF OrderInv
    <3> QED BY <2>1, <2>2, <3>2, <3>3
  <2> QED BY <2>1, <2>2, <2>3, <2>4 DEF OrderInv
<1>12. CASE CheckConnected
  BY <1>12, NothingNumbered DEF CheckConnected, Fresh
<1>13. CASE Send
  BY <1>13, SendKeepsOrder DEF Send
<1>14. CASE SendInVain
  BY <1>14, SendKeepsOrder DEF SendInVain
<1>15. CASE SendFails
  BY <1>15, NothingNumbered DEF SendFails, Sends, Fresh
<1>16. CASE BrokenPipe
  BY <1>16, NothingNumbered DEF BrokenPipe, Fresh
<1>17. CASE ServerReads
  BY <1>17, NothingNumbered DEF ServerReads, Fresh
<1>18. CASE ServerCloses
  BY <1>18, NothingNumbered DEF ServerCloses, Fresh
<1>19. CASE UNCHANGED vars
  BY <1>19, NothingNumbered DEF vars, Fresh
<1> QED BY <1>2, <1>3, <1>4, <1>5, <1>6, <1>7, <1>8, <1>9, <1>10, <1>11, <1>12, <1>13, <1>14,
           <1>15, <1>16, <1>17, <1>18, <1>19 DEF Next, Main, SensorThread

LEMMA OrderMeans == ClientTypeOK /\ OrderInv => SentInOrder
<1> SUFFICES ASSUME ClientTypeOK, OrderInv PROVE SentInOrder
  OBVIOUS
<1>1. DOMAIN sent = 1 .. Len(sent) /\ Len(sent) \in Nat
  BY DEF ClientTypeOK
<1>2. ASSUME NEW k \in DOMAIN sent, ToldApart(sent[k])
      PROVE  /\ \A n \in sentBefore : n < sent[k].n
             /\ \A l \in 1 .. (k - 1) : ToldApart(sent[l]) => sent[l].n < sent[k].n
  <2>1. \A n \in sentBefore : n < sent[k].n
    BY <1>2 DEF OrderInv, Above
  <2>2. \A l \in 1 .. (k - 1) : l \in DOMAIN sent /\ l < k
    BY <1>1
  <2> QED BY <1>2, <2>1, <2>2 DEF OrderInv, Ascends
<1> QED BY <1>2 DEF SentInOrder

\* No measurement is sent twice or after a later one, over whatever connections.
THEOREM MeasurementsInOrder == Spec => []SentInOrder
<1>1. Init => ClientTypeOK /\ OrderInv
  BY InitIInv, InitOrder DEF IInv
<1>2. ClientTypeOK /\ OrderInv /\ [Next]_vars => (ClientTypeOK /\ OrderInv)'
  BY TypeStep, OrderStep
<1> QED BY <1>1, <1>2, OrderMeans, PTL DEF Spec

-----------------------------------------------------------------------------
(* Frames on a stream and the reader that puts them together, for any sizes   *)
(* of messages and of the pieces they arrive in                               *)

LEMMA Lengths == LengthBytes \in Nat \ {0} /\ MAX_MSG \in Nat /\ LengthBytes <= MAX_MSG
BY ClientAssumption, SizeAssumption

\* Every set of naturals has a least one.
LEMMA LeastNatural ==
  ASSUME NEW T \in SUBSET Nat, T # {}
  PROVE  \E m \in T : \A k \in T : m <= k
<1> DEFINE R == OpToRel(<, Nat)
<1>1. IsWellFoundedOn(R, Nat)
  BY NatLessThanWellFounded
<1>2. R = {ss \in Nat \X Nat : ss[1] < ss[2]}
  BY DEF OpToRel
<1> HIDE DEF R
<1>3. \E m \in T : \A k \in T : ~(<<k, m>> \in R)
  BY <1>1, WFMin
<1>4. ASSUME NEW k \in Nat, NEW m \in Nat, ~(<<k, m>> \in R) PROVE m <= k
  BY <1>2, <1>4
<1> QED BY <1>3, <1>4

\* What holds of 0 and of the successor of every number it holds of, holds of all.
LEMMA Induction ==
  ASSUME NEW T, 0 \in T, \A n \in Nat : n \in T => n + 1 \in T
  PROVE  Nat \subseteq T
<1> SUFFICES ASSUME Nat \ T # {} PROVE FALSE
  OBVIOUS
<1>1. PICK m \in Nat \ T : \A k \in Nat \ T : m <= k
  BY LeastNatural
<1>2. m - 1 \in Nat /\ m - 1 \in T
  BY <1>1
<1> QED BY <1>1, <1>2

-----------------------------------------------------------------------------
(* Frames one after the other *)

\* g[i] is what the first i sequences of q hold.
Flattens(g, q, n) ==
  \A i \in 1 .. n : g[i] = IF i = 1 THEN q[i] ELSE g[i - 1] \o q[i]

\* There is such a function, ...
LEMMA FlattensExists ==
  ASSUME NEW S, NEW q \in Seq(Seq(S))
  PROVE  \E g \in [1 .. Len(q) -> Seq(S)] : Flattens(g, q, Len(q))
<1> DEFINE T == {n \in Nat : n <= Len(q) => \E g \in [1 .. n -> Seq(S)] : Flattens(g, q, n)}
<1>1. Len(q) \in Nat /\ \A i \in 1 .. Len(q) : q[i] \in Seq(S)
  OBVIOUS
<1>2. 0 \in T
  <2> DEFINE g == [i \in 1 .. 0 |-> <<>>]
  <2>1. g \in [1 .. 0 -> Seq(S)] /\ Flattens(g, q, 0)
    BY DEF Flattens
  <2> HIDE DEF g
  <2> QED BY <2>1
<1>3. ASSUME NEW n \in Nat, n \in T PROVE n + 1 \in T
  <2> SUFFICES ASSUME n + 1 <= Len(q)
               PROVE  \E g \in [1 .. (n + 1) -> Seq(S)] : Flattens(g, q, n + 1)
    OBVIOUS
  <2>1. PICK f \in [1 .. n -> Seq(S)] : Flattens(f, q, n)
    BY <1>1, <1>3
  <2> DEFINE x == IF n = 0 THEN q[1] ELSE f[n] \o q[n + 1]
             g == [i \in 1 .. (n + 1) |-> IF i = n + 1 THEN x ELSE f[i]]
  <2>2. x \in Seq(S)
    <3>1. CASE n = 0
      BY <1>1, <3>1
    <3>2. CASE n # 0
      <4>1. f[n] \in Seq(S) /\ q[n + 1] \in Seq(S)
        BY <1>1, <3>2
      <4>2. f[n] \o q[n + 1] \in Seq(S)
        BY <4>1
      <4> QED BY <3>2, <4>2
    <3> QED BY <3>1, <3>2
  <2>3. g \in [1 .. (n + 1) -> Seq(S)]
    <3> HIDE DEF x
    <3> QED BY <2>2
  <2>4. ASSUME NEW i \in 1 .. (n + 1) PROVE g[i] = IF i = 1 THEN q[i] ELSE g[i - 1] \o q[i]
    <3>1. CASE i = n + 1
      <4>1. g[i] = x
        BY <3>1
      <4>2. n # 0 => g[i - 1] = f[n]
        BY <3>1
      <4> HIDE DEF g
      <4> QED BY <3>1, <4>1, <4>2
    <3>2. CASE i # n + 1
      <4>1. i \in 1 .. n
        BY <3>2
      <4>2. g[i] = f[i]
        BY <3>2
      <4>3. i # 1 => g[i - 1] = f[i - 1]
        <5>1. i # 1 => i - 1 \in 1 .. (n + 1) /\ i - 1 # n + 1
          BY <4>1
        <5> HIDE DEF x
        <5> QED BY <5>1
      <4> HIDE DEF g
      <4> QED BY <2>1, <4>1, <4>2, <4>3 DEF Flattens
    <3> QED BY <3>1, <3>2
  <2> HIDE DEF g
  <2> QED BY <2>3, <2>4 DEF Flattens
<1> HIDE DEF T
<1>4. Len(q) \in T
  BY <1>1, <1>2, <1>3, Induction
<1> QED BY <1>1, <1>4 DEF T

\* ... FlattenSeq takes its last value, ...
LEMMA FlattenIs ==
  ASSUME NEW S, NEW q \in Seq(Seq(S)), Len(q) # 0
  PROVE  \E g \in [1 .. Len(q) -> Seq(S)] : Flattens(g, q, Len(q)) /\ FlattenSeq(q) = g[Len(q)]
<1> DEFINE step(f) == [i \in 1 .. Len(q) |-> IF i = 1 THEN q[i] ELSE f[i - 1] \o q[i]]
           flat == CHOOSE f : f = step(f)
<1>1. PICK g \in [1 .. Len(q) -> Seq(S)] : Flattens(g, q, Len(q))
  BY FlattensExists
<1>2. g = step(g)
  BY <1>1 DEF Flattens
<1>3. flat = step(flat)
  <2> HIDE DEF step
  <2> QED BY <1>2
<1>4. FlattenSeq(q) = flat[Len(q)]
  BY DEF FlattenSeq
<1> HIDE DEF flat
<1>5. Flattens(flat, q, Len(q))
  <2>1. \A i \in 1 .. Len(q) : step(flat)[i] = IF i = 1 THEN q[i] ELSE flat[i - 1] \o q[i]
    OBVIOUS
  <2> HIDE DEF step
  <2> QED BY <1>3, <2>1 DEF Flattens
<1>6. DOMAIN flat = 1 .. Len(q) /\ flat = [i \in 1 .. Len(q) |-> flat[i]]
  <2>1. DOMAIN step(flat) = 1 .. Len(q) /\ step(flat) = [i \in 1 .. Len(q) |-> step(flat)[i]]
    OBVIOUS
  <2> HIDE DEF step
  <2> QED BY <1>3, <2>1
<1>7. \A i \in 1 .. Len(q) : flat[i] = g[i]
  <2> DEFINE T == {i \in Nat : i \in 1 .. Len(q) => flat[i] = g[i]}
  <2>1. 0 \in T
    OBVIOUS
  <2>2. ASSUME NEW n \in Nat, n \in T PROVE n + 1 \in T
    <3> SUFFICES ASSUME n + 1 \in 1 .. Len(q) PROVE flat[n + 1] = g[n + 1]
      OBVIOUS
    <3>1. n # 0 => flat[n] = g[n]
      BY <2>2
    <3>2. (n + 1) - 1 = n /\ (n + 1 = 1 <=> n = 0)
      OBVIOUS
    <3>3. flat[n + 1] = IF n = 0 THEN q[n + 1] ELSE flat[n] \o q[n + 1]
      BY <1>5, <3>2 DEF Flattens
    <3>4. g[n + 1] = IF n = 0 THEN q[n + 1] ELSE g[n] \o q[n + 1]
      BY <1>1, <3>2 DEF Flattens
    <3> QED BY <3>1, <3>3, <3>4
  <2> HIDE DEF T
  <2>3. Nat \subseteq T
    BY <2>1, <2>2, Induction
  <2>4. ASSUME NEW i \in 1 .. Len(q) PROVE flat[i] = g[i]
    <3>1. i \in T
      BY <2>3
    <3> QED BY <3>1 DEF T
  <2> QED BY <2>4
<1>8. Len(q) \in 1 .. Len(q)
  OBVIOUS
<1> QED BY <1>1, <1>4, <1>7, <1>8

\* ... and so one sequence more is one more at the end.
LEMMA FlattenAppend ==
  ASSUME NEW S, NEW q \in Seq(Seq(S)), NEW x \in Seq(S)
  PROVE  FlattenSeq(q) \in Seq(S) /\ FlattenSeq(Append(q, x)) = FlattenSeq(q) \o x
<1> DEFINE r == Append(q, x)
<1>1. /\ r \in Seq(Seq(S)) /\ Len(r) = Len(q) + 1 /\ Len(q) \in Nat
      /\ r[Len(q) + 1] = x /\ \A i \in 1 .. Len(q) : r[i] = q[i]
  OBVIOUS
<1> HIDE DEF r
<1>2. PICK h \in [1 .. Len(r) -> Seq(S)] : Flattens(h, r, Len(r)) /\ FlattenSeq(r) = h[Len(r)]
  BY <1>1, FlattenIs
<1>3. CASE Len(q) = 0
  <2>1. q = <<>> /\ FlattenSeq(q) = <<>>
    BY <1>3 DEF FlattenSeq
  <2>2. h[1] = r[1]
    BY <1>1, <1>2, <1>3 DEF Flattens
  <2>3. FlattenSeq(r) = x
    BY <1>1, <1>2, <1>3, <2>2
  <2>4. <<>> \o x = x /\ <<>> \in Seq(S)
    BY ConcatEmptySeq
  <2> QED BY <2>1, <2>3, <2>4 DEF r
<1>4. CASE Len(q) # 0
  <2>1. PICK g \in [1 .. Len(q) -> Seq(S)] : Flattens(g, q, Len(q)) /\ FlattenSeq(q) = g[Len(q)]
    BY <1>4, FlattenIs
  <2> DEFINE T == {i \in Nat : i \in 1 .. Len(q) => h[i] = g[i]}
  <2>2. 0 \in T
    OBVIOUS
  <2>3. ASSUME NEW n \in Nat, n \in T PROVE n + 1 \in T
    <3> SUFFICES ASSUME n + 1 \in 1 .. Len(q) PROVE h[n + 1] = g[n + 1]
      OBVIOUS
    <3>1. n # 0 => h[n] = g[n]
      BY <2>3
    <3>2. n + 1 \in 1 .. Len(r) /\ (n + 1) - 1 = n /\ (n + 1 = 1 <=> n = 0) /\ r[n + 1] = q[n + 1]
      BY <1>1
    <3>3. h[n + 1] = IF n = 0 THEN r[n + 1] ELSE h[n] \o r[n + 1]
      BY <1>2, <3>2 DEF Flattens
    <3>4. g[n + 1] = IF n = 0 THEN q[n + 1] ELSE g[n] \o q[n + 1]
      BY <2>1, <3>2 DEF Flattens
    <3> QED BY <3>1, <3>2, <3>3, <3>4
  <2> HIDE DEF T
  <2>4. Len(q) \in T
    BY <1>1, <2>2, <2>3, Induction
  <2>5. h[Len(q)] = g[Len(q)]
    BY <1>1, <1>4, <2>4 DEF T
  <2>6. h[Len(q) + 1] = h[Len(q)] \o x
    <3>1. Len(q) + 1 \in 1 .. Len(r) /\ Len(q) + 1 # 1 /\ (Len(q) + 1) - 1 = Len(q)
      BY <1>1, <1>4
    <3>2. h[Len(q) + 1] = h[(Len(q) + 1) - 1] \o r[Len(q) + 1]
      BY <1>2, <3>1 DEF Flattens
    <3> QED BY <1>1, <3>1, <3>2
  <2> QED BY <1>1, <1>2, <1>4, <2>1, <2>5, <2>6 DEF r
<1> QED BY <1>3, <1>4


-----------------------------------------------------------------------------
Cells(S) == [of : S, at : Nat]
Streams(S) == Seq(Cells(S))
Fits(S) == \A m \in S : Size(m) \in 1 .. MAX_MSG

LEMMA Regroup ==
  ASSUME NEW S, NEW a \in Seq(S), NEW b \in Seq(S), NEW c \in Seq(S)
  PROVE  (a \o b) \o c = a \o (b \o c)
BY ConcatAssociative

\* The cells of m's frame behind the first a, up to b
Part(m, a, b) == [j \in 1 .. (b - a) |-> [of |-> m, at |-> a + j]]

LEMMA PartIs ==
  ASSUME NEW S, NEW m \in S, NEW a \in Nat, NEW b \in Nat, a <= b
  PROVE  Part(m, a, b) \in Seq(Cells(S)) /\ Len(Part(m, a, b)) = b - a
<1>1. b - a \in Nat /\ \A j \in 1 .. (b - a) : [of |-> m, at |-> a + j] \in Cells(S)
  BY DEF Cells
<1> QED BY <1>1 DEF Part

\* A part and the part after it
LEMMA PartsJoin ==
  ASSUME NEW S, NEW m \in S, NEW a \in Nat, NEW b \in Nat, NEW c \in Nat, a <= b, b <= c
  PROVE  Part(m, a, b) \o Part(m, b, c) = Part(m, a, c)
<1> DEFINE p == Part(m, a, b)
           q == Part(m, b, c)
           w == Part(m, a, c)
<1>1. /\ p \in Seq(Cells(S)) /\ Len(p) = b - a /\ q \in Seq(Cells(S)) /\ Len(q) = c - b
      /\ w \in Seq(Cells(S)) /\ Len(w) = c - a
  <2>1. a <= c
    OBVIOUS
  <2> QED BY <2>1, PartIs
<1>2. /\ \A j \in 1 .. (b - a) : p[j] = w[j]
      /\ \A j \in 1 .. (c - b) : q[j] = w[(b - a) + j]
  BY DEF Part
<1> HIDE DEF p, q, w
<1>3. p \o q \in Seq(Cells(S)) /\ Len(p \o q) = c - a
  BY <1>1
<1>4. \A j \in 1 .. (c - a) : (p \o q)[j] = w[j]
  <2> SUFFICES ASSUME NEW j \in 1 .. (c - a) PROVE (p \o q)[j] = w[j]
    OBVIOUS
  <2>1. CASE j <= b - a
    BY <1>1, <1>2, <2>1
  <2>2. CASE ~(j <= b - a)
    <3>1. (p \o q)[j] = q[j - (b - a)] /\ j - (b - a) \in 1 .. (c - b)
      BY SMTT(30), <1>1, <2>2
    <3>2. q[j - (b - a)] = w[(b - a) + (j - (b - a))]
      BY <1>2, <3>1
    <3>3. (b - a) + (j - (b - a)) = j
      OBVIOUS
    <3> QED BY <3>1, <3>2, <3>3
  <2> QED BY <2>1, <2>2
<1>5. p \o q = w
  BY <1>1, <1>3, <1>4, SeqEqual
<1> QED BY <1>5 DEF p, q, w

\* A frame is its length and its message.
LEMMA FrameIs ==
  ASSUME NEW S, Fits(S), NEW m \in S
  PROVE  /\ LengthBytes + Size(m) \in Nat /\ Size(m) \in 1 .. MAX_MSG
         /\ Frame(m) = Part(m, 0, LengthBytes + Size(m))
         /\ Frame(m) \in Seq(Cells(S)) /\ Len(Frame(m)) = LengthBytes + Size(m)
         /\ SubSeq(Frame(m), 1, LengthBytes) = Part(m, 0, LengthBytes)
         /\ SubSeq(Frame(m), LengthBytes + 1, LengthBytes + Size(m))
              = Part(m, LengthBytes, LengthBytes + Size(m))
<1> DEFINE n == LengthBytes + Size(m)
<1>1. n \in Nat /\ LengthBytes \in Nat /\ Size(m) \in 1 .. MAX_MSG
  BY Lengths DEF Fits
<1>2. Frame(m) = Part(m, 0, n)
  BY <1>1 DEF Frame, Part
<1>3. Frame(m) \in Seq(Cells(S)) /\ Len(Frame(m)) = n
  <2> HIDE DEF n
  <2>1. 0 \in Nat /\ 0 <= n /\ n - 0 = n
    BY <1>1
  <2>2. Part(m, 0, n) \in Seq(Cells(S)) /\ Len(Part(m, 0, n)) = n - 0
    BY <1>1, <2>1, PartIs
  <2> QED BY <1>2, <2>1, <2>2
<1>4. SubSeq(Frame(m), 1, LengthBytes) = Part(m, 0, LengthBytes)
  BY <1>1, <1>2 DEF Part
<1>5. SubSeq(Frame(m), LengthBytes + 1, n) = Part(m, LengthBytes, n)
  BY <1>1, <1>2 DEF Part
<1> QED BY <1>1, <1>2, <1>3, <1>4, <1>5

\* A frame more
LEMMA FramesAppend ==
  ASSUME NEW S, Fits(S), NEW ms \in Seq(S), NEW m \in S
  PROVE  Frames(ms) \in Seq(Cells(S)) /\ Frames(Append(ms, m)) = Frames(ms) \o Frame(m)
<1> DEFINE q == [k \in 1 .. Len(ms) |-> Frame(ms[k])]
           r == [k \in 1 .. Len(Append(ms, m)) |-> Frame(Append(ms, m)[k])]
<1>1. Len(ms) \in Nat /\ DOMAIN ms = 1 .. Len(ms) /\ \A k \in 1 .. Len(ms) : ms[k] \in S
  OBVIOUS
<1>2. q \in Seq(Seq(Cells(S))) /\ Len(q) = Len(ms) /\ Frame(m) \in Seq(Cells(S))
  BY <1>1, FrameIs
<1>3. Frames(ms) = FlattenSeq(q)
  BY <1>1 DEF Frames
<1>4. Frames(Append(ms, m)) = FlattenSeq(r)
  <2>1. DOMAIN Append(ms, m) = 1 .. Len(Append(ms, m))
    OBVIOUS
  <2> QED BY <2>1 DEF Frames
<1>5. r = Append(q, Frame(m))
  <2>1. /\ Len(Append(ms, m)) = Len(ms) + 1 /\ Append(ms, m)[Len(ms) + 1] = m
        /\ \A k \in 1 .. Len(ms) : Append(ms, m)[k] = ms[k]
    OBVIOUS
  <2> QED BY <1>1, <1>2, <2>1
<1> HIDE DEF q, r
<1> QED BY <1>2, <1>3, <1>4, <1>5, FlattenAppend

LEMMA FramesEmpty == Frames(<<>>) = <<>>
<1>1. [k \in DOMAIN <<>> |-> Frame(<<>>[k])] = <<>>
  OBVIOUS
<1> QED BY <1>1 DEF Frames, FlattenSeq

\* Frames after frames
LEMMA FramesConcat ==
  ASSUME NEW S, Fits(S), NEW ms \in Seq(S), NEW ns \in Seq(S)
  PROVE  Frames(ms \o ns) = Frames(ms) \o Frames(ns)
<1> DEFINE T == {n \in Nat : \A q \in Seq(S) : Len(q) = n => Frames(ms \o q) = Frames(ms) \o Frames(q)}
<1>1. 0 \in T
  <2> SUFFICES ASSUME NEW q \in Seq(S), Len(q) = 0 PROVE Frames(ms \o q) = Frames(ms) \o Frames(q)
    OBVIOUS
  <2>1. q = <<>> /\ ms \o q = ms
    OBVIOUS
  <2>2. Frames(ms) \in Seq(Cells(S))
    <3>1. CASE S = {}
      <4>1. ms = <<>>
        <5>1. Len(ms) \in Nat /\ \A k \in 1 .. Len(ms) : ms[k] \in S
          OBVIOUS
        <5>2. Len(ms) = 0
          BY <3>1, <5>1
        <5> QED BY <5>2
      <4>2. <<>> \in Seq(Cells(S))
        OBVIOUS
      <4> QED BY <4>1, <4>2, FramesEmpty
    <3>2. CASE S # {}
      BY <3>2, FramesAppend
    <3> QED BY <3>1, <3>2
  <2>3. Frames(ms) \o <<>> = Frames(ms)
    BY <2>2, ConcatEmptySeq
  <2> QED BY <2>1, <2>3, FramesEmpty
<1>2. ASSUME NEW n \in Nat, n \in T PROVE n + 1 \in T
  <2> SUFFICES ASSUME NEW q \in Seq(S), Len(q) = n + 1 PROVE Frames(ms \o q) = Frames(ms) \o Frames(q)
    OBVIOUS
  <2>1. PICK f \in Seq(S), m \in S : q = Append(f, m) /\ Len(f) = n
    <3>1. q # <<>>
      OBVIOUS
    <3>2. \E f \in Seq(S), m \in S : q = Append(f, m)
      BY <3>1, SequenceEmptyOrAppend
    <3> QED BY <3>2
  <2>2. Frames(ms \o f) = Frames(ms) \o Frames(f)
    BY <1>2, <2>1
  <2>3. ms \o q = Append(ms \o f, m) /\ ms \o f \in Seq(S)
    BY <2>1
  <2>4. Frames(ms \o q) = (Frames(ms) \o Frames(f)) \o Frame(m)
    BY <2>2, <2>3, FramesAppend
  <2>5. Frames(q) = Frames(f) \o Frame(m)
    BY <2>1, FramesAppend
  <2>6. Frames(ms) \in Seq(Cells(S)) /\ Frames(f) \in Seq(Cells(S)) /\ Frame(m) \in Seq(Cells(S))
    BY FramesAppend, FrameIs
  <2>7. (Frames(ms) \o Frames(f)) \o Frame(m) = Frames(ms) \o (Frames(f) \o Frame(m))
    <3> DEFINE C == Cells(S)
               a == Frames(ms)
               b == Frames(f)
               c == Frame(m)
    <3>1. a \in Seq(C) /\ b \in Seq(C) /\ c \in Seq(C)
      BY <2>6
    <3> HIDE DEF C, a, b, c
    <3>2. (a \o b) \o c = a \o (b \o c)
      BY SMTT(30), <3>1, Regroup
    <3> QED BY <3>2 DEF a, b, c
  <2> QED BY <2>4, <2>5, <2>7
<1> HIDE DEF T
<1>3. Len(ns) \in T
  BY <1>1, <1>2, Induction
<1> QED BY <1>3 DEF T

\* The first frame and the rest
LEMMA FramesHead ==
  ASSUME NEW S, Fits(S), NEW ms \in Seq(S), ms # <<>>
  PROVE  /\ Head(ms) \in S /\ Tail(ms) \in Seq(S) /\ Frames(Tail(ms)) \in Seq(Cells(S))
         /\ Frames(ms) = Frame(Head(ms)) \o Frames(Tail(ms))
<1>1. Head(ms) \in S /\ Tail(ms) \in Seq(S) /\ ms = << Head(ms) >> \o Tail(ms) /\ << Head(ms) >> \in Seq(S)
  OBVIOUS
<1>2. << Head(ms) >> = Append(<<>>, Head(ms)) /\ <<>> \in Seq(S)
  OBVIOUS
<1>3. Frames(<< Head(ms) >>) = Frames(<<>>) \o Frame(Head(ms)) /\ Frame(Head(ms)) \in Seq(Cells(S))
  BY <1>1, <1>2, FramesAppend, FrameIs
<1>4. Frames(<< Head(ms) >>) = Frame(Head(ms))
  BY <1>3, FramesEmpty, ConcatEmptySeq
<1>5. Frames(ms) = Frames(<< Head(ms) >>) \o Frames(Tail(ms))
  BY <1>1, FramesConcat
<1> QED BY <1>1, <1>4, <1>5, FramesAppend


-----------------------------------------------------------------------------
(* The reader *)

Readers(S) ==
  [remainingIn : 0 .. MAX_MSG, remainingInLen : 0 .. LengthBytes,
   inBuffer : {s \in Seq(Cells(S)) : Len(s) <= MAX_MSG}]

\* r has read k cells of m's frame.
Reading(r, m, k) ==
  IF k < LengthBytes
  THEN r.remainingIn = 0 /\ r.remainingInLen = LengthBytes - k /\ r.inBuffer = Part(m, 0, k)
  ELSE /\ r.remainingInLen = 0 /\ r.remainingIn = LengthBytes + Size(m) - k
       /\ r.inBuffer = Part(m, LengthBytes, k)

Whole(m) == LengthBytes + Size(m)

\* r has read k cells of the first of the messages ms, the rest of which is in cells.
Within(r, cells, ms, k) ==
  /\ Reading(r, Head(ms), k)
  /\ cells = Part(Head(ms), k, Whole(Head(ms))) \o Frames(Tail(ms))

\* What is left for r to read in cells makes up the messages ms, of which r may have
\* read a part of the first.
Carries(r, cells, ms) ==
  \/ r.remainingIn = 0 /\ r.remainingInLen = 0 /\ cells = Frames(ms)
  \/ ms # <<>> /\ \E k \in 1 .. (Whole(Head(ms)) - 1) : Within(r, cells, ms, k)

\* A sequence cut where it was joined
LEMMA Cut ==
  ASSUME NEW S, NEW p \in Seq(S), NEW r \in Seq(S)
  PROVE  /\ SubSeq(p \o r, 1, Len(p)) = p
         /\ SubSeq(p \o r, Len(p) + 1, Len(p \o r)) = r
<1> DEFINE w == p \o r
           a == Len(p)
           b == Len(w)
<1>1. /\ w \in Seq(S) /\ a \in Nat /\ b = a + Len(r) /\ Len(r) \in Nat
      /\ \A k \in 1 .. a : w[k] = p[k] /\ w[k] \in S
      /\ \A k \in a + 1 .. b : w[k] = r[k - a] /\ w[k] \in S
  OBVIOUS
<1>2. \A k \in 1 .. Len(r) : k + a \in a + 1 .. b /\ (k + a) - a = k
  BY <1>1
<1> HIDE DEF w, a, b
<1>3. SubSeq(w, 1, a) = p
  <2> DEFINE v == SubSeq(w, 1, a)
  <2>1. /\ v \in Seq(S) /\ Len(v) = IF 1 <= a THEN a - 1 + 1 ELSE 0
        /\ \A k \in 1 .. a - 1 + 1 : v[k] = w[1 + k - 1]
    BY <1>1, SubSeqProperties
  <2> HIDE DEF v
  <2>2. Len(v) = a /\ \A k \in 1 .. a : v[k] = p[k]
    BY <1>1, <2>1
  <2>3. v = p
    BY <2>1, <2>2, SeqEqual DEF a
  <2> QED BY <2>3 DEF v
<1>4. SubSeq(w, a + 1, b) = r
  <2> DEFINE v == SubSeq(w, a + 1, b)
  <2>1. /\ v \in Seq(S) /\ Len(v) = IF a + 1 <= b THEN b - (a + 1) + 1 ELSE 0
        /\ \A k \in 1 .. b - (a + 1) + 1 : v[k] = w[(a + 1) + k - 1]
    BY <1>1, SubSeqProperties
  <2> HIDE DEF v
  <2>2. Len(v) = Len(r)
    BY <1>1, <2>1
  <2>3. ASSUME NEW k \in 1 .. Len(r) PROVE v[k] = r[k]
    <3>1. k \in 1 .. b - (a + 1) + 1 /\ (a + 1) + k - 1 = k + a
      BY <1>1
    <3> QED BY <1>1, <1>2, <2>1, <3>1
  <2>4. v = r
    BY <2>1, <2>2, <2>3, SeqEqual
  <2> QED BY <2>4 DEF v
<1> QED BY <1>3, <1>4 DEF w, a, b

\* The first n of the cells of a part, which the cells R follow
CutOff(m, a, c, n, R) ==
  LET cells == Part(m, a, c) \o R IN
  /\ SubSeq(cells, 1, n) = Part(m, a, a + n)
  /\ SubSeq(cells, n + 1, Len(cells)) = Part(m, a + n, c) \o R

\* n cells off a frame of which a have been read
LEMMA CutPart ==
  ASSUME NEW S, NEW m \in S, NEW R \in Streams(S), NEW a \in Nat, NEW c \in Nat, NEW n \in Nat,
         a + n <= c
  PROVE  CutOff(m, a, c, n, R)
<1> DEFINE p == Part(m, a, a + n)
           q == Part(m, a + n, c)
           C == Cells(S)
<1>1. a <= a + n /\ a + n \in Nat /\ (a + n) - a = n
  OBVIOUS
<1>2. p \in Seq(C) /\ Len(p) = n /\ q \in Seq(C) /\ p \o q = Part(m, a, c)
  <2>1. p \in Seq(C) /\ Len(p) = (a + n) - a
    BY <1>1, PartIs
  <2>2. q \in Seq(C)
    BY <1>1, PartIs
  <2>3. p \o q = Part(m, a, c)
    BY <1>1, PartsJoin
  <2> QED BY <1>1, <2>1, <2>2, <2>3
<1>3. R \in Seq(C)
  BY DEF Streams
<1> HIDE DEF p, q, C
<1>4. (p \o q) \o R = p \o (q \o R) /\ q \o R \in Seq(C)
  <2>1. (p \o q) \o R = p \o (q \o R)
    <3>1. p \in Seq(C) /\ q \in Seq(C) /\ R \in Seq(C)
      BY <1>2, <1>3
    <3> QED BY <3>1, Regroup
  <2>2. q \o R \in Seq(C)
    BY <1>2, <1>3
  <2> QED BY <2>1, <2>2
<1> DEFINE w == q \o R
<1>5. w \in Seq(C)
  BY <1>4
<1> HIDE DEF w
<1>6. SubSeq(p \o w, 1, n) = p /\ SubSeq(p \o w, n + 1, Len(p \o w)) = w
  BY <1>2, <1>5, Cut
<1>7. Part(m, a, c) \o R = p \o w
  BY <1>2, <1>4 DEF w
<1> QED BY <1>6, <1>7 DEF p, q, w, CutOff

\* Where a reader is in the frame of the message it reads
LEMMA ReaderIsIn ==
  ASSUME NEW S, Fits(S), NEW r \in Readers(S), NEW ms \in Seq(S), NEW cells,
         Carries(r, cells, ms), cells # <<>>
  PROVE  /\ ms # <<>>
         /\ \E k \in 0 .. (Whole(Head(ms)) - 1) : Within(StartOfMessage(r), cells, ms, k)
<1>1. CASE r.remainingIn = 0 /\ r.remainingInLen = 0 /\ cells = Frames(ms)
  <2>1. ms # <<>>
    BY <1>1, FramesEmpty
  <2>2. /\ Head(ms) \in S
        /\ Frames(ms) = Part(Head(ms), 0, Whole(Head(ms))) \o Frames(Tail(ms))
    BY <2>1, FramesHead, FrameIs DEF Whole
  <2>3. Reading(StartOfMessage(r), Head(ms), 0)
    <3>1. StartOfMessage(r) = [r EXCEPT !.inBuffer = <<>>, !.remainingInLen = LengthBytes]
      BY <1>1 DEF StartOfMessage
    <3>2. Part(Head(ms), 0, 0) = <<>>
      BY DEF Part
    <3> QED BY <1>1, <3>1, <3>2, Lengths DEF Reading, Readers
  <2>4. 0 \in 0 .. (Whole(Head(ms)) - 1)
    BY <2>2, FrameIs, Lengths DEF Whole
  <2>5. Within(StartOfMessage(r), cells, ms, 0)
    BY <1>1, <2>2, <2>3 DEF Within
  <2> QED BY <2>1, <2>4, <2>5
<1>2. CASE ~(r.remainingIn = 0 /\ r.remainingInLen = 0 /\ cells = Frames(ms))
  <2>1. PICK k \in 1 .. (Whole(Head(ms)) - 1) : Within(r, cells, ms, k)
    BY <1>2 DEF Carries
  <2>2. ms # <<>>
    BY <1>2 DEF Carries
  <2>3. LengthBytes \in Nat /\ Size(Head(ms)) \in Nat
    <3>1. Head(ms) \in S
      BY <2>2
    <3> QED BY <3>1, Lengths DEF Fits
  <2>4. ~(r.remainingIn = 0 /\ r.remainingInLen = 0)
    <3>1. k < LengthBytes => r.remainingInLen # 0
      BY <2>1, Lengths DEF Reading, Within
    <3>2. ~(k < LengthBytes) => r.remainingIn # 0
      <4>1. ~(k < LengthBytes) => r.remainingIn = Whole(Head(ms)) - k
        <5>1. Reading(r, Head(ms), k)
          BY <2>1 DEF Within
        <5>2. ~(k < LengthBytes) => r.remainingIn = LengthBytes + Size(Head(ms)) - k
          BY <5>1 DEF Reading
        <5> QED BY <2>3, <5>2 DEF Whole
      <4>2. Whole(Head(ms)) - k # 0
        BY <2>3 DEF Whole
      <4> QED BY <4>1, <4>2
    <3> QED BY <3>1, <3>2
  <2>5. StartOfMessage(r) = r
    BY <2>4 DEF StartOfMessage
  <2>6. k \in 0 .. (Whole(Head(ms)) - 1)
    BY <2>3 DEF Whole
  <2>7. Within(StartOfMessage(r), cells, ms, k)
    BY <2>1, <2>5
  <2> QED BY <2>2, <2>6, <2>7
<1> QED BY <1>1, <1>2


LEMMA FirstOfPart ==
  ASSUME NEW m, NEW a \in Nat, NEW b \in Nat, a < b
  PROVE  Part(m, a, b)[1].of = m
<1>1. 1 \in 1 .. (b - a)
  OBVIOUS
<1> QED BY <1>1 DEF Part

\* A whole length, and a whole message, are what the frame was made from.
LEMMA LengthIsRead ==
  ASSUME NEW S, Fits(S), NEW m \in S
  PROVE  LengthIn(Part(m, 0, LengthBytes)) = Size(m)
<1>1. Part(m, 0, LengthBytes)[1].of = m
  BY Lengths DEF Part
<1>2. SubSeq(Frame(m), 1, LengthBytes) = Part(m, 0, LengthBytes)
  BY FrameIs
<1> QED BY <1>1, <1>2 DEF LengthIn

LEMMA MessageIsRead ==
  ASSUME NEW S, Fits(S), NEW m \in S
  PROVE  MessageIn(Part(m, LengthBytes, LengthBytes + Size(m))) = m
<1>1. Part(m, LengthBytes, LengthBytes + Size(m))[1].of = m
  <2>1. LengthBytes \in Nat /\ Size(m) \in Nat /\ Size(m) >= 1
    BY Lengths DEF Fits
  <2>2. LengthBytes + Size(m) \in Nat /\ LengthBytes < LengthBytes + Size(m)
    BY <2>1
  <2> QED BY <2>1, <2>2, FirstOfPart
<1>2. SubSeq(Frame(m), LengthBytes + 1, LengthBytes + Size(m))
        = Part(m, LengthBytes, LengthBytes + Size(m))
  BY FrameIs
<1> QED BY <1>1, <1>2 DEF MessageIn

\* The two halves of recvData, on the fields
AfterLength(a, b, w, cells) ==
  LET t == [remainingIn |-> a, remainingInLen |-> b - Len(cells), inBuffer |-> w \o cells] IN
  IF b - Len(cells) = 0 THEN LengthRead(t) ELSE [reader |-> t, got |-> <<>>]

LEMMA LengthCall ==
  ASSUME NEW r, NEW a, NEW b \in Nat \ {0}, NEW w, NEW cells,
         StartOfMessage(r) = [remainingIn |-> a, remainingInLen |-> b, inBuffer |-> w]
  PROVE  recvData(r, cells) = AfterLength(a, b, w, cells)
<1> DEFINE s == [remainingIn |-> a, remainingInLen |-> b, inBuffer |-> w]
           read == [s EXCEPT !.inBuffer = @ \o cells]
           t == [read EXCEPT !.remainingInLen = @ - Len(cells)]
<1>1. recvData(r, cells) =
        IF b > 0 THEN IF t.remainingInLen = 0 THEN LengthRead(t) ELSE [reader |-> t, got |-> <<>>]
        ELSE recvData(r, cells)
  BY DEF recvData
<1>2. t = [remainingIn |-> a, remainingInLen |-> b - Len(cells), inBuffer |-> w \o cells]
  <2> DEFINE u == w \o cells
             l == b - Len(cells)
             v == [remainingIn |-> a, remainingInLen |-> b, inBuffer |-> u]
  <2>1. read = [s EXCEPT !.inBuffer = u] /\ t = [read EXCEPT !.remainingInLen = b - Len(cells)]
    OBVIOUS
  <2> HIDE DEF u, l
  <2>2. [s EXCEPT !.inBuffer = u] = v
    OBVIOUS
  <2>3. [v EXCEPT !.remainingInLen = l] = [remainingIn |-> a, remainingInLen |-> l, inBuffer |-> u]
    OBVIOUS
  <2> HIDE DEF v, t, read, s
  <2>4. t = [remainingIn |-> a, remainingInLen |-> l, inBuffer |-> u]
    BY <2>1, <2>2, <2>3 DEF l
  <2> QED BY <2>4 DEF u, l
<1> HIDE DEF t
<1> QED BY <1>1, <1>2 DEF AfterLength

AfterMessage(a, w, cells) ==
  [reader |-> [remainingIn |-> a - Len(cells), remainingInLen |-> 0, inBuffer |-> w \o cells],
   got |-> IF a - Len(cells) = 0 THEN << MessageIn(w \o cells) >> ELSE <<>>]

LEMMA MessageCall ==
  ASSUME NEW r, NEW a, NEW w, NEW cells,
         StartOfMessage(r) = [remainingIn |-> a, remainingInLen |-> 0, inBuffer |-> w]
  PROVE  recvData(r, cells) = AfterMessage(a, w, cells)
<1> DEFINE s == [remainingIn |-> a, remainingInLen |-> 0, inBuffer |-> w]
           read == [s EXCEPT !.inBuffer = @ \o cells]
           t == [read EXCEPT !.remainingIn = @ - Len(cells)]
<1>1. recvData(r, cells) =
        [reader |-> t, got |-> IF t.remainingIn = 0 THEN << MessageIn(t.inBuffer) >> ELSE <<>>]
  <2>1. ~(s.remainingInLen > 0)
    OBVIOUS
  <2> QED BY <2>1 DEF recvData
<1>2. t = [remainingIn |-> a - Len(cells), remainingInLen |-> 0, inBuffer |-> w \o cells]
  <2> DEFINE u == w \o cells
             l == a - Len(cells)
             v == [remainingIn |-> a, remainingInLen |-> 0, inBuffer |-> u]
  <2>1. read = [s EXCEPT !.inBuffer = u] /\ t = [read EXCEPT !.remainingIn = a - Len(cells)]
    OBVIOUS
  <2> HIDE DEF u, l
  <2>2. [s EXCEPT !.inBuffer = u] = v
    OBVIOUS
  <2>3. [v EXCEPT !.remainingIn = l] = [remainingIn |-> l, remainingInLen |-> 0, inBuffer |-> u]
    OBVIOUS
  <2> HIDE DEF v, t, read, s
  <2>4. t = [remainingIn |-> l, remainingInLen |-> 0, inBuffer |-> u]
    BY <2>1, <2>2, <2>3 DEF l
  <2> QED BY <2>4 DEF u, l
<1> HIDE DEF t
<1> QED BY <1>1, <1>2 DEF AfterMessage

\* The call that completes a length
LEMMA LengthComplete ==
  ASSUME NEW a, NEW w, LengthIn(w) \in 1 .. MAX_MSG
  PROVE  LengthRead([remainingIn |-> a, remainingInLen |-> 0, inBuffer |-> w])
           = [reader |-> [remainingIn |-> LengthIn(w), remainingInLen |-> 0, inBuffer |-> <<>>],
              got |-> <<>>]
<1> DEFINE t == [remainingIn |-> a, remainingInLen |-> 0, inBuffer |-> w]
<1>1. t.inBuffer = w
  OBVIOUS
<1>2. [t EXCEPT !.remainingIn = LengthIn(w), !.inBuffer = <<>>]
        = [remainingIn |-> LengthIn(w), remainingInLen |-> 0, inBuffer |-> <<>>]
  <2> DEFINE l == LengthIn(w)
             v == [remainingIn |-> l, remainingInLen |-> 0, inBuffer |-> w]
  <2> HIDE DEF l
  <2>1. [t EXCEPT !.remainingIn = l] = v
    OBVIOUS
  <2>2. [v EXCEPT !.inBuffer = <<>>] = [remainingIn |-> l, remainingInLen |-> 0, inBuffer |-> <<>>]
    OBVIOUS
  <2> HIDE DEF t, v
  <2>3. [t EXCEPT !.remainingIn = l, !.inBuffer = <<>>] = [[t EXCEPT !.remainingIn = l] EXCEPT !.inBuffer = <<>>]
    OBVIOUS
  <2>4. [t EXCEPT !.remainingIn = l, !.inBuffer = <<>>] = [remainingIn |-> l, remainingInLen |-> 0, inBuffer |-> <<>>]
    BY <2>1, <2>2, <2>3
  <2> QED BY <2>4 DEF l
<1> HIDE DEF t
<1>3. LengthRead(t) = [reader |-> [t EXCEPT !.remainingIn = LengthIn(w), !.inBuffer = <<>>], got |-> <<>>]
  BY <1>1 DEF LengthRead
<1> QED BY <1>2, <1>3 DEF t

\* A call that receives some cells of a length or of a message
LEMMA ReaderGoesOn ==
  ASSUME NEW S, Fits(S), NEW r \in Readers(S), NEW m \in S,
         NEW k \in 0 .. (LengthBytes + Size(m) - 1), Reading(StartOfMessage(r), m, k),
         NEW n \in 1 .. toReceive(r)
  PROVE  LET o == recvData(r, Part(m, k, k + n)) IN
         /\ k + n <= LengthBytes + Size(m) /\ o.reader \in Readers(S)
         /\ IF k + n = LengthBytes + Size(m)
            THEN o.got = << m >> /\ o.reader.remainingIn = 0 /\ o.reader.remainingInLen = 0
            ELSE o.got = <<>> /\ Reading(o.reader, m, k + n)
<1> DEFINE s == StartOfMessage(r)
           cells == Part(m, k, k + n)
           o == recvData(r, cells)
           size == Size(m)
           inBuffer == s.inBuffer \o cells
           Goal == /\ k + n <= LengthBytes + size /\ o.reader \in Readers(S)
                   /\ IF k + n = LengthBytes + size
                      THEN o.got = << m >> /\ o.reader.remainingIn = 0 /\ o.reader.remainingInLen = 0
                      ELSE o.got = <<>> /\ Reading(o.reader, m, k + n)
<1> SUFFICES Goal
  OBVIOUS
<1>1. /\ LengthBytes \in Nat \ {0} /\ size \in Nat \ {0} /\ MAX_MSG \in Nat /\ size <= MAX_MSG
      /\ LengthBytes <= MAX_MSG /\ k \in Nat
  BY Lengths DEF Fits
<1>2. /\ s.remainingIn \in 0 .. MAX_MSG /\ s.remainingInLen \in 0 .. LengthBytes
      /\ s = [remainingIn |-> s.remainingIn, remainingInLen |-> s.remainingInLen,
              inBuffer |-> s.inBuffer]
  <2> DEFINE Fields == [remainingIn : 0 .. MAX_MSG, remainingInLen : 0 .. LengthBytes,
                        inBuffer : Seq(Cells(S))]
  <2>1. r \in Fields
    BY DEF Readers
  <2>2. <<>> \in Seq(Cells(S)) /\ LengthBytes \in 0 .. LengthBytes
    BY <1>1
  <2>3. [r EXCEPT !.inBuffer = <<>>, !.remainingInLen = LengthBytes] \in Fields
    BY <2>1, <2>2
  <2>4. s \in Fields
    BY <2>1, <2>3 DEF StartOfMessage
  <2> HIDE DEF s
  <2> QED BY <2>4
<1>3. Reading(s, m, k)
  OBVIOUS
<1>4. toReceive(r) = IF s.remainingIn > s.remainingInLen THEN s.remainingIn ELSE s.remainingInLen
  BY DEF toReceive
<1>5. cells \in Seq(Cells(S)) /\ Len(cells) = n
  <2>1. n \in Nat /\ k + n \in Nat /\ k <= k + n /\ (k + n) - k = n
    BY <1>1, <1>2, <1>4
  <2> QED BY <1>1, <2>1, PartIs
<1> HIDE DEF s, size
<1>6. CASE k < LengthBytes
  <2>1. s.remainingIn = 0 /\ s.remainingInLen = LengthBytes - k /\ s.inBuffer = Part(m, 0, k)
    BY <1>3, <1>6 DEF Reading
  <2>2. n \in Nat /\ k + n \in Nat /\ k + n <= LengthBytes /\ s.remainingInLen > 0
        /\ n <= s.remainingInLen
    BY <1>1, <1>2, <1>4, <1>6, <2>1
  <2>3. inBuffer = Part(m, 0, k + n)
    <3>1. 0 \in Nat /\ 0 <= k /\ k <= k + n
      BY <1>1, <2>2
    <3> QED BY SMTT(30), <1>1, <2>1, <2>2, <3>1, PartsJoin
  <2>4. Part(m, 0, k + n) \in Seq(Cells(S)) /\ Len(Part(m, 0, k + n)) = k + n
    <3>1. 0 \in Nat /\ 0 <= k + n /\ (k + n) - 0 = k + n
      BY <2>2
    <3> QED BY <2>2, <3>1, PartIs
  <2> DEFINE w == Part(m, 0, k + n)
             t == [remainingIn |-> 0, remainingInLen |-> LengthBytes - (k + n), inBuffer |-> w]
  <2>5. o = IF LengthBytes - (k + n) = 0 THEN LengthRead(t) ELSE [reader |-> t, got |-> <<>>]
    <3>1. s = [remainingIn |-> 0, remainingInLen |-> LengthBytes - k, inBuffer |-> s.inBuffer]
      BY <1>2, <2>1
    <3>2. LengthBytes - k \in Nat /\ LengthBytes - k > 0
          /\ (LengthBytes - k) - Len(cells) = LengthBytes - (k + n)
      BY <1>1, <1>5, <1>6
    <3>3. StartOfMessage(r) = [remainingIn |-> 0, remainingInLen |-> LengthBytes - k, inBuffer |-> s.inBuffer]
      BY <3>1 DEF s
    <3> HIDE DEF o, w, cells
    <3>4. recvData(r, cells) =
            IF (LengthBytes - k) - Len(cells) = 0
            THEN LengthRead([remainingIn |-> 0, remainingInLen |-> (LengthBytes - k) - Len(cells),
                             inBuffer |-> s.inBuffer \o cells])
            ELSE [reader |-> [remainingIn |-> 0, remainingInLen |-> (LengthBytes - k) - Len(cells),
                              inBuffer |-> s.inBuffer \o cells], got |-> <<>>]
      <4> DEFINE b == LengthBytes - k
                 u == s.inBuffer
      <4>1. b \in Nat \ {0} /\ StartOfMessage(r) = [remainingIn |-> 0, remainingInLen |-> b, inBuffer |-> u]
        BY <3>2, <3>3
      <4> HIDE DEF b, u
      <4>2. recvData(r, cells) = AfterLength(0, b, u, cells)
        BY <4>1, LengthCall
      <4> QED BY <4>2 DEF b, u, AfterLength
    <3>5. o = recvData(r, cells) /\ s.inBuffer \o cells = w
      BY <2>3 DEF o, w, cells
    <3> QED BY <3>2, <3>4, <3>5
  <2> HIDE DEF o, w
  <2>6. CASE k + n = LengthBytes
    <3>1. LengthIn(w) = size
      BY <2>6, LengthIsRead DEF size, w
    <3>2. LengthBytes - (k + n) = 0
      BY <1>1, <2>6
    <3>3. o = [reader |-> [remainingIn |-> size, remainingInLen |-> 0, inBuffer |-> <<>>], got |-> <<>>]
      BY <1>1, <2>5, <3>1, <3>2, LengthComplete
    <3>4. Part(m, LengthBytes, k + n) = <<>>
      BY <1>1, <2>6 DEF Part
    <3>5. o.reader \in Readers(S)
      <4>1. <<>> \in Seq(Cells(S)) /\ Len(<<>>) <= MAX_MSG /\ size \in 0 .. MAX_MSG /\ 0 \in 0 .. LengthBytes
        BY <1>1
      <4> QED BY <3>3, <4>1 DEF Readers
    <3>6. Reading(o.reader, m, k + n)
      <4>1. LengthBytes + size - (k + n) = size /\ ~(k + n < LengthBytes)
        BY <1>1, <2>6
      <4> QED BY <3>3, <3>4, <4>1 DEF Reading, size
    <3>7. k + n <= LengthBytes + size /\ k + n # LengthBytes + size
      BY <1>1, <2>6
    <3> QED BY <3>3, <3>5, <3>6, <3>7
  <2>7. CASE k + n # LengthBytes
    <3>1. LengthBytes - (k + n) # 0 /\ k + n < LengthBytes
      BY <1>1, <2>2, <2>7
    <3>2. o = [reader |-> t, got |-> <<>>]
      BY <2>5, <3>1
    <3>3. t \in Readers(S)
      <4>1. w \in Seq(Cells(S)) /\ Len(w) <= MAX_MSG
        BY <1>1, <2>2, <2>4, <3>1 DEF w
      <4>2. LengthBytes - (k + n) \in 0 .. LengthBytes /\ 0 \in 0 .. MAX_MSG
        BY <1>1, <2>2
      <4> QED BY <4>1, <4>2 DEF Readers
    <3>4. Reading(t, m, k + n)
      BY <3>1 DEF Reading, w
    <3>5. k + n <= LengthBytes + size /\ k + n # LengthBytes + size
      BY <1>1, <2>2, <3>1
    <3> QED BY <3>2, <3>3, <3>4, <3>5
  <2> QED BY <2>6, <2>7
<1>7. CASE ~(k < LengthBytes)
  <2>1. /\ s.remainingInLen = 0 /\ s.remainingIn = LengthBytes + size - k
        /\ s.inBuffer = Part(m, LengthBytes, k)
    BY <1>3, <1>7 DEF Reading, size
  <2>2. n \in Nat /\ k + n \in Nat /\ n <= s.remainingIn /\ k + n <= LengthBytes + size
        /\ ~(s.remainingInLen > 0)
    BY <1>1, <1>2, <1>4, <1>7, <2>1
  <2>3. inBuffer = Part(m, LengthBytes, k + n)
    <3>1. LengthBytes <= k /\ k <= k + n /\ LengthBytes \in Nat
      BY <1>1, <1>7, <2>2
    <3> QED BY SMTT(30), <1>1, <2>1, <2>2, <3>1, PartsJoin
  <2>4. Part(m, LengthBytes, k + n) \in Seq(Cells(S)) /\ Len(Part(m, LengthBytes, k + n)) = (k + n) - LengthBytes
    <3>1. LengthBytes \in Nat /\ LengthBytes <= k + n
      BY <1>1, <1>7, <2>2
    <3> QED BY <2>2, <3>1, PartIs
  <2> DEFINE w == Part(m, LengthBytes, k + n)
             t == [remainingIn |-> LengthBytes + size - (k + n), remainingInLen |-> 0, inBuffer |-> w]
  <2>5. o = [reader |-> t,
             got |-> IF LengthBytes + size - (k + n) = 0 THEN << MessageIn(w) >> ELSE <<>>]
    <3>1. s = [remainingIn |-> LengthBytes + size - k, remainingInLen |-> 0, inBuffer |-> s.inBuffer]
      BY <1>2, <2>1
    <3>2. (LengthBytes + size - k) - Len(cells) = LengthBytes + size - (k + n)
      BY <1>1, <1>5
    <3>3. StartOfMessage(r) = [remainingIn |-> LengthBytes + size - k, remainingInLen |-> 0, inBuffer |-> s.inBuffer]
      BY <3>1 DEF s
    <3> HIDE DEF o, w, cells
    <3>4. recvData(r, cells) =
            [reader |-> [remainingIn |-> (LengthBytes + size - k) - Len(cells), remainingInLen |-> 0,
                         inBuffer |-> s.inBuffer \o cells],
             got |-> IF (LengthBytes + size - k) - Len(cells) = 0
                     THEN << MessageIn(s.inBuffer \o cells) >> ELSE <<>>]
      <4> DEFINE a == LengthBytes + size - k
                 u == s.inBuffer
      <4>1. StartOfMessage(r) = [remainingIn |-> a, remainingInLen |-> 0, inBuffer |-> u]
        BY <3>3
      <4> HIDE DEF a, u
      <4>2. recvData(r, cells) = AfterMessage(a, u, cells)
        BY <4>1, MessageCall
      <4> QED BY <4>2 DEF a, u, AfterMessage
    <3>5. o = recvData(r, cells) /\ s.inBuffer \o cells = w
      BY <2>3 DEF o, w, cells
    <3> QED BY <3>2, <3>4, <3>5
  <2> HIDE DEF o, w
  <2>6. t \in Readers(S)
    <3>1. w \in Seq(Cells(S)) /\ Len(w) <= MAX_MSG
      BY <1>1, <2>2, <2>4 DEF w
    <3>2. LengthBytes + size - (k + n) \in 0 .. MAX_MSG /\ 0 \in 0 .. LengthBytes
      BY <1>1, <1>7, <2>2
    <3> QED BY <3>1, <3>2 DEF Readers
  <2>7. CASE k + n = LengthBytes + size
    <3>1. MessageIn(w) = m
      BY <2>7, MessageIsRead DEF size, w
    <3>2. LengthBytes + size - (k + n) = 0
      BY <1>1, <2>7
    <3> QED BY <2>2, <2>5, <2>6, <2>7, <3>1, <3>2
  <2>8. CASE k + n # LengthBytes + size
    <3>1. LengthBytes + size - (k + n) # 0 /\ ~(k + n < LengthBytes)
      BY <1>1, <1>7, <2>2, <2>8
    <3>2. Reading(t, m, k + n)
      BY <3>1 DEF Reading, size, w
    <3> QED BY <2>2, <2>5, <2>6, <2>8, <3>1, <3>2
  <2> QED BY <2>7, <2>8
<1> QED BY <1>6, <1>7


\* The same call, which cuts the cells off the stream
Reads(S, r, m, k, n, cells, R) ==
  LET o == recvData(r, SubSeq(cells, 1, n))
      left == SubSeq(cells, n + 1, Len(cells)) IN
  /\ o.reader \in Readers(S)
  /\ \/ o.got = << m >> /\ o.reader.remainingIn = 0 /\ o.reader.remainingInLen = 0 /\ left = R
     \/ /\ o.got = <<>> /\ k + n \in 1 .. (Whole(m) - 1)
        /\ Reading(o.reader, m, k + n) /\ left = Part(m, k + n, Whole(m)) \o R

LEMMA CallInFrame ==
  ASSUME NEW S, Fits(S), NEW r \in Readers(S), NEW m \in S, NEW R \in Streams(S),
         NEW k \in 0 .. (Whole(m) - 1), Reading(StartOfMessage(r), m, k),
         NEW cells, cells = Part(m, k, Whole(m)) \o R, NEW n \in 1 .. toReceive(r)
  PROVE  Reads(S, r, m, k, n, cells, R)
<1>1. LengthBytes \in Nat /\ Size(m) \in Nat /\ Whole(m) \in Nat
  BY Lengths DEF Fits, Whole
<1>2. n \in Nat /\ n >= 1
  <2>1. n \in Int /\ n >= 1
    OBVIOUS
  <2> QED BY <2>1
<1> DEFINE p == Part(m, k, k + n)
           o == recvData(r, p)
           Goal == /\ o.reader \in Readers(S)
                   /\ IF k + n = Whole(m)
                      THEN o.got = << m >> /\ o.reader.remainingIn = 0 /\ o.reader.remainingInLen = 0
                      ELSE o.got = <<>> /\ Reading(o.reader, m, k + n)
<1>3. k + n <= Whole(m) /\ Goal
  <2>1. k \in 0 .. (LengthBytes + Size(m) - 1) /\ Whole(m) = LengthBytes + Size(m)
    BY <1>1 DEF Whole
  <2> HIDE DEF Goal
  <2>2. LET oo == recvData(r, Part(m, k, k + n)) IN
         /\ k + n <= LengthBytes + Size(m) /\ oo.reader \in Readers(S)
         /\ IF k + n = LengthBytes + Size(m)
            THEN oo.got = << m >> /\ oo.reader.remainingIn = 0 /\ oo.reader.remainingInLen = 0
            ELSE oo.got = <<>> /\ Reading(oo.reader, m, k + n)
    BY <2>1, ReaderGoesOn
  <2> QED BY <2>1, <2>2 DEF Goal
<1>4. k \in Nat /\ k + n \in Nat
  BY <1>1, <1>2
<1> DEFINE w == Whole(m)
           left == SubSeq(cells, n + 1, Len(cells))
<1>5. SubSeq(cells, 1, n) = p /\ left = Part(m, k + n, w) \o R
  <2>1. w \in Nat /\ k + n <= w
    BY <1>1, <1>3
  <2> HIDE DEF w
  <2>2. m \in S /\ R \in Streams(S) /\ k \in Nat /\ w \in Nat /\ n \in Nat /\ k + n <= w
    BY <1>2, <1>4, <2>1
  <2>3. CutOff(m, k, w, n, R)
    BY <2>2, CutPart
  <2>4. cells = Part(m, k, w) \o R
    BY DEF w
  <2> QED BY <2>3, <2>4 DEF CutOff, left, p
<1>6. recvData(r, SubSeq(cells, 1, n)) = o
  BY <1>5
<1> HIDE DEF o, p, left
<1>7. CASE k + n = w
  <2>1. Part(m, k + n, w) = <<>>
    BY <1>1, <1>7 DEF Part
  <2>2. left = R
    <3>1. <<>> \o R = R
      BY ConcatEmptySeq
    <3> QED BY <1>5, <2>1, <3>1
  <2>3. /\ o.reader \in Readers(S) /\ o.got = << m >>
        /\ o.reader.remainingIn = 0 /\ o.reader.remainingInLen = 0
    BY <1>3, <1>7
  <2> QED BY <1>6, <2>2, <2>3 DEF left, Reads
<1>8. CASE k + n # w
  <2>1. k + n \in 1 .. (w - 1)
    <3>1. w \in Nat /\ k \in Nat /\ n \in Nat /\ n >= 1 /\ k + n <= w
      BY <1>1, <1>2, <1>3, <1>4
    <3> HIDE DEF w
    <3> QED BY <1>8, <3>1
  <2>2. o.reader \in Readers(S) /\ o.got = <<>> /\ Reading(o.reader, m, k + n)
    BY <1>3, <1>8
  <2> QED BY <1>5, <1>6, <2>1, <2>2 DEF left, Reads
<1> QED BY <1>7, <1>8

\* A call of recvData reads on in the first message, or hands it over.
HandsOver(S, r, n, cells, ms) ==
  LET o == recvData(r, SubSeq(cells, 1, n))
      left == SubSeq(cells, n + 1, Len(cells)) IN
  /\ o.reader \in Readers(S)
  /\ \/ o.got = <<>> /\ Carries(o.reader, left, ms)
     \/ ms # <<>> /\ o.got = << Head(ms) >> /\ Carries(o.reader, left, Tail(ms))

LEMMA CallReads ==
  ASSUME NEW S, Fits(S), NEW r \in Readers(S), NEW ms \in Seq(S), NEW cells, Carries(r, cells, ms),
         cells # <<>>, NEW n \in 1 .. toReceive(r)
  PROVE  HandsOver(S, r, n, cells, ms)
<1>1. PICK k \in 0 .. (Whole(Head(ms)) - 1) : Within(StartOfMessage(r), cells, ms, k)
  BY ReaderIsIn
<1>2. ms # <<>>
  BY ReaderIsIn
<1> DEFINE m == Head(ms)
           R == Frames(Tail(ms))
           o == recvData(r, SubSeq(cells, 1, n))
           left == SubSeq(cells, n + 1, Len(cells))
<1>3. m \in S /\ R \in Streams(S)
  BY <1>2, FramesHead DEF Streams
<1>4. Reading(StartOfMessage(r), m, k) /\ cells = Part(m, k, Whole(m)) \o R /\ k \in 0 .. (Whole(m) - 1)
  BY <1>1 DEF Within
<1> HIDE DEF m, R
<1>5. /\ o.reader \in Readers(S)
      /\ \/ o.got = << m >> /\ o.reader.remainingIn = 0 /\ o.reader.remainingInLen = 0 /\ left = R
         \/ /\ o.got = <<>> /\ k + n \in 1 .. (Whole(m) - 1)
            /\ Reading(o.reader, m, k + n) /\ left = Part(m, k + n, Whole(m)) \o R
  <2>1. /\ Fits(S) /\ r \in Readers(S) /\ m \in S /\ R \in Streams(S) /\ k \in 0 .. (Whole(m) - 1)
        /\ Reading(StartOfMessage(r), m, k) /\ cells = Part(m, k, Whole(m)) \o R
        /\ n \in 1 .. toReceive(r)
    BY <1>3, <1>4
  <2>2. Reads(S, r, m, k, n, cells, R)
    BY <2>1, CallInFrame
  <2> QED BY <2>2 DEF Reads
<1> HIDE DEF o, left
<1>6. CASE o.got = << m >> /\ o.reader.remainingIn = 0 /\ o.reader.remainingInLen = 0 /\ left = R
  <2>1. Carries(o.reader, left, Tail(ms))
    BY <1>6 DEF Carries, R
  <2> QED BY <1>2, <1>5, <1>6, <2>1 DEF o, left, m, HandsOver
<1>7. CASE /\ o.got = <<>> /\ k + n \in 1 .. (Whole(m) - 1)
           /\ Reading(o.reader, m, k + n) /\ left = Part(m, k + n, Whole(m)) \o R
  <2>1. Within(o.reader, left, ms, k + n)
    BY <1>7 DEF Within, m, R
  <2>2. k + n \in 1 .. (Whole(Head(ms)) - 1)
    BY <1>7 DEF m
  <2>3. Carries(o.reader, left, ms)
    BY <1>2, <2>1, <2>2 DEF Carries
  <2> QED BY <1>5, <1>7, <2>3 DEF o, left, HandsOver
<1> QED BY <1>5, <1>6, <1>7

\* More frames behind those on their way
LEMMA CarriesMore ==
  ASSUME NEW S, Fits(S), NEW r, NEW cells, NEW ms \in Seq(S), NEW ns \in Seq(S), Carries(r, cells, ms)
  PROVE  Carries(r, cells \o Frames(ns), ms \o ns)
<1>1. CASE r.remainingIn = 0 /\ r.remainingInLen = 0 /\ cells = Frames(ms)
  <2>1. Frames(ms \o ns) = cells \o Frames(ns)
    BY <1>1, FramesConcat
  <2> QED BY <1>1, <2>1 DEF Carries
<1>2. CASE ~(r.remainingIn = 0 /\ r.remainingInLen = 0 /\ cells = Frames(ms))
  <2>1. ms # <<>>
    BY <1>2 DEF Carries
  <2>2. PICK k \in 1 .. (Whole(Head(ms)) - 1) : Within(r, cells, ms, k)
    BY <1>2 DEF Carries
  <2> DEFINE m == Head(ms)
             q == Tail(ms)
             R == Frames(q)
             N == Frames(ns)
             C == Cells(S)
             p == Part(m, k, Whole(m))
  <2>3. m \in S /\ q \in Seq(S) /\ R \in Seq(C)
    BY <2>1, FramesHead
  <2>4. N \in Seq(C)
    BY <2>3, FramesAppend
  <2>5. ms \o ns # <<>> /\ Head(ms \o ns) = m /\ Tail(ms \o ns) = q \o ns
    <3>1. Len(ms) \in Nat \ {0} /\ Len(ns) \in Nat
      BY <2>1
    <3>2. Head(ms \o ns) = m
      BY <3>1
    <3>3. Tail(ms \o ns) = q \o ns
      BY <3>1
    <3>4. ms \o ns # <<>>
      BY <3>1
    <3> QED BY <3>2, <3>3, <3>4
  <2>6. Frames(q \o ns) = R \o N
    BY <2>3, FramesConcat
  <2>7. cells = p \o R /\ Reading(r, m, k)
    BY <2>2 DEF Within
  <2>8. p \in Seq(C)
    <3>1. LengthBytes \in Nat /\ Size(m) \in Nat
      BY <2>3, Lengths DEF Fits
    <3>2. k \in Nat /\ Whole(m) \in Nat /\ k <= Whole(m)
      BY <3>1 DEF Whole
    <3> QED BY <2>3, <3>2, PartIs
  <2>9. cells \o N = p \o Frames(q \o ns)
    <3> HIDE DEF p, R, N, C, m, q
    <3>1. (p \o R) \o N = p \o (R \o N)
      <4>1. p \in Seq(C) /\ R \in Seq(C) /\ N \in Seq(C)
        BY <2>3, <2>4, <2>8
      <4> QED BY SMTT(30), <4>1, Regroup
    <3> QED BY <2>6, <2>7, <3>1
  <2>10. Within(r, cells \o N, ms \o ns, k)
    BY <2>5, <2>7, <2>9 DEF Within
  <2>11. k \in 1 .. (Whole(Head(ms \o ns)) - 1)
    BY <2>5
  <2> QED BY <2>5, <2>10, <2>11 DEF Carries
<1> QED BY <1>1, <1>2

-----------------------------------------------------------------------------
(* What is on its way between a sensor and the server *)

LEMMA FramesOne ==
  ASSUME NEW S, Fits(S), NEW m \in S
  PROVE  Frames(<< m >>) = Frame(m)
<1>1. << m >> = Append(<<>>, m) /\ <<>> \in Seq(S)
  OBVIOUS
<1>2. Frames(<< m >>) = Frames(<<>>) \o Frame(m) /\ Frame(m) \in Seq(Cells(S))
  BY <1>1, FramesAppend, FrameIs
<1> QED BY <1>2, FramesEmpty, ConcatEmptySeq

\* Cells that carry messages are cells.
LEMMA StreamIs ==
  ASSUME NEW S, Fits(S), NEW r, NEW cells, NEW ms \in Seq(S), Carries(r, cells, ms), ms # <<>>
  PROVE  cells \in Streams(S)
<1>1. CASE cells = Frames(ms)
  <2>1. Head(ms) \in S
    OBVIOUS
  <2>2. Frames(ms) \in Seq(Cells(S))
    BY <2>1, FramesAppend
  <2> QED BY <1>1, <2>2 DEF Streams
<1>2. CASE ~(cells = Frames(ms))
  <2>1. PICK k \in 1 .. (Whole(Head(ms)) - 1) : Within(r, cells, ms, k)
    BY <1>2 DEF Carries
  <2> DEFINE m == Head(ms)
             p == Part(m, k, Whole(m))
             R == Frames(Tail(ms))
  <2>2. m \in S /\ R \in Seq(Cells(S))
    BY FramesHead
  <2>3. p \in Seq(Cells(S))
    <3>1. LengthBytes \in Nat /\ Size(m) \in Nat
      BY <2>2, Lengths DEF Fits
    <3>2. k \in Nat /\ Whole(m) \in Nat /\ k <= Whole(m)
      BY <3>1 DEF Whole
    <3> QED BY <2>2, <3>2, PartIs
  <2>4. cells = p \o R
    BY <2>1 DEF Within
  <2> HIDE DEF p, R
  <2> QED BY <2>2, <2>3, <2>4 DEF Streams
<1> QED BY <1>1, <1>2

\* No call asks for a negative number of bytes.
LEMMA AsksForCells ==
  ASSUME NEW S, NEW r \in Readers(S)
  PROVE  toReceive(r) \in Nat
<1> DEFINE s == StartOfMessage(r)
<1>1. /\ r.remainingIn \in Nat /\ r.remainingInLen \in Nat /\ LengthBytes \in Nat
      /\ r = [remainingIn |-> r.remainingIn, remainingInLen |-> r.remainingInLen,
              inBuffer |-> r.inBuffer]
  BY Lengths DEF Readers
<1>2. s.remainingIn \in Nat /\ s.remainingInLen \in Nat
  <2>1. CASE s = r
    BY <1>1, <2>1
  <2>2. CASE s = [r EXCEPT !.inBuffer = <<>>, !.remainingInLen = LengthBytes]
    <3>1. s.remainingIn = r.remainingIn /\ s.remainingInLen = LengthBytes
      BY <1>1, <2>2
    <3> QED BY <1>1, <3>1
  <2> QED BY <2>1, <2>2 DEF StartOfMessage
<1> QED BY <1>2 DEF toReceive

\* Who receives something is owed a message, and asks for no more than is missing.
LEMMA PieceIs ==
  ASSUME NEW S, Fits(S), NEW r \in Readers(S), NEW cells, NEW ms \in Seq(S), Carries(r, cells, ms),
         NEW n \in Pieces(r, cells)
  PROVE  cells # <<>> /\ n \in 1 .. toReceive(r)
<1>1. toReceive(r) \in Nat
  BY AsksForCells
<1>2. Len(cells) \in Nat
  <2>1. CASE ms = <<>>
    <3>1. cells = <<>>
      BY <2>1, FramesEmpty DEF Carries
    <3> QED BY <3>1
  <2>2. CASE ms # <<>>
    BY <2>2, StreamIs DEF Streams
  <2> QED BY <2>1, <2>2
<1>3. n \in Int /\ 1 <= n /\ n <= toReceive(r) /\ n <= Len(cells)
  BY <1>1, <1>2 DEF Pieces
<1> QED BY <1>1, <1>3

LEMMA PieceReads ==
  ASSUME NEW S, Fits(S), NEW r \in Readers(S), NEW cells, NEW ms \in Seq(S), Carries(r, cells, ms),
         NEW n \in Pieces(r, cells)
  PROVE  HandsOver(S, r, n, cells, ms)
<1>1. cells # <<>> /\ n \in 1 .. toReceive(r)
  BY PieceIs
<1> QED BY <1>1, CallReads

LEMMA NothingIsRead == \A S : NothingRead \in Readers(S) /\ Carries(NothingRead, <<>>, <<>>)
<1>1. \A S : <<>> \in Seq(Cells(S))
  OBVIOUS
<1>2. 0 \in 0 .. MAX_MSG /\ 0 \in 0 .. LengthBytes /\ Len(<<>>) <= MAX_MSG
  BY Lengths
<1> QED BY <1>1, <1>2, FramesEmpty DEF NothingRead, Readers, Carries

\* What was sent over an open connection and is not handed over is on its way, and
\* whole; so is what the server says, until the sensor connects again.
FromSensor ==
  \E rest \in Seq(Messages) :
    sent = handed \o rest /\ (open => Carries(serverReader, toServer, rest))

ToSensor ==
  \/ ~open /\ toClient = <<>>
  \/ \E rest \in Seq(Notices) : Carries(reader, toClient, rest)

StreamInv ==
  /\ serverReader \in Readers(Messages) /\ reader \in Readers(Notices)
  /\ handed \in Seq(Messages) /\ open \in BOOLEAN /\ killed \in BOOLEAN
  /\ connection \in 0 .. MaxConnections
  /\ pc \in {"connect", "reset", "clear"} => ~open /\ toClient = <<>>
  /\ pc \in {"connect", "clear"} => reader = NothingRead
  /\ FromSensor /\ ToSensor

\* What the two ends say fits.
LEMMA AllFit == Fits(Messages) /\ Fits(Notices)
BY SizeAssumption DEF Fits

LEMMA InitStream == Init => StreamInv
<1> SUFFICES ASSUME Init PROVE StreamInv
  OBVIOUS
<1>1. <<>> \in Seq(Messages) /\ <<>> = <<>> \o <<>>
  OBVIOUS
<1>2. FromSensor /\ ToSensor
  BY <1>1 DEF Init, FromSensor, ToSensor
<1>3. 0 \in 0 .. MaxConnections
  BY ClientAssumption
<1> QED BY <1>1, <1>2, <1>3, NothingIsRead DEF Init, StreamInv

\* Steps that neither send nor receive
LEMMA StreamSame ==
  ASSUME StreamInv, UNCHANGED <<connection, stream, reader, sent, handed, killed>>,
         pc' \in {"connect", "reset"} => ~open /\ toClient = <<>>,
         pc' # "clear", pc' = "connect" => reader = NothingRead
  PROVE  StreamInv'
<1>1. FromSensor' /\ ToSensor'
  BY DEF StreamInv, FromSensor, ToSensor, stream
<1> QED BY <1>1 DEF StreamInv, stream

LEMMA ServerReadsStream ==
  ASSUME StreamInv, ServerReads
  PROVE  StreamInv'
<1>1. PICK n \in Pieces(serverReader, toServer) :
        LET r == recvData(serverReader, SubSeq(toServer, 1, n)) IN
        /\ serverReader' = r.reader
        /\ toServer' = SubSeq(toServer, n + 1, Len(toServer))
        /\ handed' = handed \o r.got
        /\ toClient' = toClient \o Replies(r.got)
  BY DEF ServerReads
<1>2. PICK rest \in Seq(Messages) : sent = handed \o rest /\ Carries(serverReader, toServer, rest)
  BY DEF ServerReads, StreamInv, FromSensor
<1>3. PICK said \in Seq(Notices) : Carries(reader, toClient, said)
  BY DEF ServerReads, StreamInv, ToSensor
<1>4. UNCHANGED <<pc, connection, open, sent, reader, killed>> /\ open
  BY DEF ServerReads, client
<1>5. HandsOver(Messages, serverReader, n, toServer, rest)
  BY <1>2, AllFit, PieceReads DEF StreamInv
<1> DEFINE got == recvData(serverReader, SubSeq(toServer, 1, n)).got
<1>6. /\ serverReader' \in Readers(Messages)
      /\ \/ got = <<>> /\ Carries(serverReader', toServer', rest)
         \/ rest # <<>> /\ got = << Head(rest) >> /\ Carries(serverReader', toServer', Tail(rest))
  BY <1>1, <1>5 DEF HandsOver
<1>7. handed' = handed \o got /\ toClient' = toClient \o Replies(got)
  BY <1>1
<1> HIDE DEF got
<1>8. handed \in Seq(Messages)
  BY DEF StreamInv
<1>9. CASE got = <<>> /\ Carries(serverReader', toServer', rest)
  <2>1. handed' = handed
    BY <1>7, <1>8, <1>9, ConcatEmptySeq
  <2>2. toClient' = toClient
    <3>1. Replies(got) = Frames(<<>>)
      BY <1>9, FramesEmpty DEF Replies
    <3>2. toClient \in Streams(Notices) \/ toClient = <<>>
      <4>1. CASE said = <<>>
        BY <1>3, <4>1, FramesEmpty DEF Carries
      <4>2. CASE said # <<>>
        BY <1>3, <4>2, AllFit, StreamIs
      <4> QED BY <4>1, <4>2
    <3> QED BY <1>7, <3>1, <3>2, FramesEmpty, ConcatEmptySeq DEF Streams
  <2>3. FromSensor'
    BY <1>2, <1>4, <1>9, <2>1 DEF FromSensor
  <2>4. ToSensor'
    BY <1>3, <1>4, <2>2 DEF ToSensor
  <2> QED BY <1>4, <1>6, <1>8, <2>1, <2>2, <2>3, <2>4 DEF StreamInv
<1>10. CASE rest # <<>> /\ got = << Head(rest) >> /\ Carries(serverReader', toServer', Tail(rest))
  <2>1. Head(rest) \in Messages /\ Tail(rest) \in Seq(Messages) /\ << Head(rest) >> \o Tail(rest) = rest
    BY <1>10
  <2> DEFINE g == Head(rest)
             q == Tail(rest)
             notice == [kind |-> IF g.kind = "i" THEN "a" ELSE "1"]
  <2>2. notice \in Notices /\ << notice >> \in Seq(Notices)
    BY DEF Notices
  <2>3. Replies(got) = Frames(<< notice >>)
    <3>1. got # <<>> /\ Head(got) = g
      BY <1>10
    <3>2. Replies(got) = Frame(notice)
      BY <3>1 DEF Replies
    <3> HIDE DEF notice
    <3> QED BY <2>2, <3>2, AllFit, FramesOne
  <2> HIDE DEF g, q, notice
  <2>4. handed' = handed \o << g >> /\ handed' \in Seq(Messages)
    BY <1>7, <1>8, <1>10, <2>1 DEF g
  <2>5. sent = handed' \o q
    <3>1. handed \in Seq(Messages) /\ << g >> \in Seq(Messages) /\ q \in Seq(Messages)
      BY <1>8, <2>1 DEF g, q
    <3>2. (handed \o << g >>) \o q = handed \o (<< g >> \o q)
      BY <3>1, Regroup
    <3>3. << g >> \o q = rest
      BY <2>1 DEF g, q
    <3> QED BY <1>2, <2>4, <3>2, <3>3
  <2>6. FromSensor'
    <3>1. sent' = handed' \o q /\ Carries(serverReader', toServer', q) /\ q \in Seq(Messages)
      BY <1>4, <1>10, <2>1, <2>5 DEF q
    <3> QED BY <3>1 DEF FromSensor
  <2>7. ToSensor'
    <3>1. Carries(reader, toClient \o Frames(<< notice >>), said \o << notice >>)
      BY <1>3, <2>2, AllFit, CarriesMore
    <3>2. said \o << notice >> \in Seq(Notices)
      BY <2>2
    <3>3. Carries(reader', toClient', said \o << notice >>)
      BY <1>4, <1>7, <2>3, <3>1
    <3> QED BY <3>2, <3>3 DEF ToSensor
  <2> QED BY <1>4, <1>6, <2>4, <2>6, <2>7 DEF StreamInv
<1> QED BY <1>6, <1>9, <1>10

LEMMA ReceiveStream ==
  ASSUME StreamInv, Receive
  PROVE  StreamInv'
<1>1. PICK n \in Pieces(reader, toClient) :
        LET r == recvData(reader, SubSeq(toClient, 1, n)) IN
        /\ reader' = r.reader
        /\ toClient' = SubSeq(toClient, n + 1, Len(toClient))
        /\ killed' = Kills(r.got)
        /\ pc' = IF Kills(r.got) THEN "join" ELSE "loop"
  BY DEF Receive
<1>2. UNCHANGED <<connection, open, toServer, serverReader, sent, handed>>
  BY DEF Receive, history
<1>3. reader \in Readers(Notices)
  BY DEF StreamInv
<1>4. PICK said \in Seq(Notices) : Carries(reader, toClient, said)
  <2>1. CASE toClient = <<>>
    <3>1. Len(toClient) = 0 /\ toReceive(reader) \in Nat
      BY <1>3, <2>1, AsksForCells
    <3>2. n \in 1 .. 0
      BY <3>1 DEF Pieces
    <3> QED BY <3>2
  <2>2. CASE toClient # <<>>
    BY <2>2 DEF StreamInv, ToSensor
  <2> QED BY <2>1, <2>2
<1>5. HandsOver(Notices, reader, n, toClient, said)
  BY <1>3, <1>4, AllFit, PieceReads
<1>6. /\ reader' \in Readers(Notices)
      /\ Carries(reader', toClient', said) \/ (said # <<>> /\ Carries(reader', toClient', Tail(said)))
  BY <1>1, <1>5 DEF HandsOver
<1>7. ToSensor'
  <2>1. said # <<>> => Tail(said) \in Seq(Notices)
    OBVIOUS
  <2> QED BY <1>6, <2>1 DEF ToSensor
<1>8. FromSensor'
  BY <1>2 DEF StreamInv, FromSensor
<1>9. killed' \in BOOLEAN /\ pc' \in {"join", "loop"}
  BY <1>1 DEF Kills
<1> QED BY <1>2, <1>6, <1>7, <1>8, <1>9 DEF StreamInv

LEMMA ServerClosesStream ==
  ASSUME StreamInv, ServerCloses
  PROVE  StreamInv'
<1>1. open /\ open' = FALSE /\ UNCHANGED <<pc, client, connection, serverReader, sent, handed>>
  BY DEF ServerCloses, history
<1>2. PICK said \in Seq(Notices) : Carries(reader, toClient, said)
  BY <1>1 DEF StreamInv, ToSensor
<1>3. PICK farewell \in {<<>>} \cup {Frame([kind |-> "r"]) : k \in {1} \cap DOMAIN handed} :
        toClient' \in {toClient \o farewell, <<>>}
  BY DEF ServerCloses
<1>4. ToSensor'
  <2>1. CASE toClient' = <<>>
    BY <1>1, <2>1 DEF ToSensor
  <2>2. CASE toClient' # <<>>
    <3> DEFINE r == [kind |-> "r"]
    <3>1. r \in Notices /\ << r >> \in Seq(Notices) /\ <<>> \in Seq(Notices)
      BY DEF Notices
    <3>2. Frames(<< r >>) = Frame(r)
      BY <3>1, AllFit, FramesOne
    <3>3. PICK end \in Seq(Notices) : farewell = Frames(end)
      BY <1>3, <3>1, <3>2, FramesEmpty
    <3>4. Carries(reader, toClient \o Frames(end), said \o end)
      BY <1>2, AllFit, CarriesMore
    <3>5. reader' = reader /\ toClient' = toClient \o Frames(end)
      BY <1>1, <1>3, <2>2, <3>3 DEF client
    <3>6. said \o end \in Seq(Notices)
      OBVIOUS
    <3> QED BY <3>4, <3>5, <3>6 DEF ToSensor
  <2> QED BY <2>1, <2>2
<1>5. FromSensor'
  BY <1>1 DEF StreamInv, FromSensor
<1> QED BY <1>1, <1>4, <1>5 DEF StreamInv, client

\* What sensorThread sends goes behind what is on its way.
LEMMA SendStream ==
  ASSUME StreamInv, ClientTypeOK, sent' = sent \o Unrepeated, UNCHANGED <<pc, reader, killed, connection>>,
         UNCHANGED <<open, toClient, serverReader, handed>>,
         open => toServer' = toServer \o Frames(Unrepeated)
  PROVE  StreamInv'
<1> DEFINE u == Unrepeated
<1>1. u \in Seq(Messages) /\ handed \in Seq(Messages)
  BY UnrepeatedIsFront DEF ClientTypeOK, StreamInv
<1> HIDE DEF u
<1>2. PICK rest \in Seq(Messages) : sent = handed \o rest /\ (open => Carries(serverReader, toServer, rest))
  BY DEF StreamInv, FromSensor
<1>3. sent' = handed' \o (rest \o u) /\ rest \o u \in Seq(Messages)
  <2>1. handed \in Seq(Messages) /\ rest \in Seq(Messages) /\ u \in Seq(Messages)
    BY <1>1
  <2>2. (handed \o rest) \o u = handed \o (rest \o u)
    BY <2>1, Regroup
  <2> QED BY <1>2, <2>1, <2>2 DEF u
<1>4. open' => Carries(serverReader', toServer', rest \o u)
  <2>1. open => Carries(serverReader, toServer \o Frames(u), rest \o u)
    BY <1>1, <1>2, AllFit, CarriesMore
  <2> QED BY <2>1 DEF u
<1>5. FromSensor'
  BY <1>3, <1>4 DEF FromSensor
<1>6. ToSensor'
  BY DEF StreamInv, ToSensor
<1> QED BY <1>5, <1>6 DEF StreamInv

LEMMA StreamStep == ClientTypeOK /\ StreamInv /\ [Next]_vars => StreamInv'
<1> SUFFICES ASSUME ClientTypeOK, StreamInv, [Next]_vars PROVE StreamInv'
  OBVIOUS
<1>1. CASE TryConnect
  <2>1. /\ pc = "connect" /\ connection < MaxConnections /\ connection' = connection + 1
        /\ open' = TRUE /\ toServer' = <<>> /\ toClient' = <<>> /\ serverReader' = NothingRead
        /\ sent' = <<>> /\ handed' = <<>> /\ pc' = "connected" /\ UNCHANGED <<reader, killed>>
    BY <1>1 DEF TryConnect, client
  <2>2. reader = NothingRead /\ connection \in 0 .. MaxConnections /\ reader \in Readers(Notices)
        /\ killed \in BOOLEAN
    BY <2>1 DEF StreamInv
  <2>3. connection' \in 0 .. MaxConnections
    BY <2>1, <2>2, ClientAssumption
  <2>4. <<>> \in Seq(Messages) /\ <<>> \in Seq(Notices) /\ <<>> = <<>> \o <<>>
    OBVIOUS
  <2>5. FromSensor'
    BY <2>1, <2>4, NothingIsRead DEF FromSensor
  <2>6. ToSensor'
    BY <2>1, <2>2, <2>4, NothingIsRead DEF ToSensor
  <2> QED BY <2>1, <2>2, <2>3, <2>4, <2>5, <2>6, NothingIsRead DEF StreamInv
<1>2. CASE SetSocket
  BY <1>2, StreamSame DEF SetSocket, history
<1>3. CASE InsertToken
  BY <1>3, StreamSame DEF InsertToken, history
<1>4. CASE Receive
  BY <1>4, ReceiveStream
<1>5. CASE ReceiveEnd
  BY <1>5, StreamSame DEF ReceiveEnd, history, client
<1>6. CASE ResetSocket
  <2>1. /\ pc = "reset" /\ pc' = "clear" /\ reader' = NothingRead
        /\ UNCHANGED <<killed, connection, open, toServer, toClient, serverReader, sent, handed>>
    BY <1>6 DEF ResetSocket, stream, history
  <2>2. ~open /\ toClient = <<>>
    BY <2>1 DEF StreamInv
  <2>3. FromSensor' /\ ToSensor'
    BY <2>1, <2>2 DEF StreamInv, FromSensor, ToSensor
  <2> QED BY <2>1, <2>2, <2>3, NothingIsRead DEF StreamInv
<1>7. CASE ClearBuffer
  <2>1. reader = NothingRead /\ ~open /\ toClient = <<>>
    BY <1>7 DEF ClearBuffer, StreamInv
  <2> QED BY <1>7, <2>1, StreamSame DEF ClearBuffer, history
<1>8. CASE Join
  BY <1>8, StreamSame DEF Join, history, client
<1>9. CASE TakeMeasure \/ AddOutMsg \/ CheckConnected \/ SendFails \/ UNCHANGED vars
  <2>1. UNCHANGED <<pc, connection, stream, reader, sent, handed, killed>>
    BY <1>9 DEF TakeMeasure, AddOutMsg, CheckConnected, SendFails, vars, history, client
  <2>2. FromSensor' /\ ToSensor'
    BY <2>1 DEF StreamInv, FromSensor, ToSensor, stream
  <2> QED BY <2>1, <2>2 DEF StreamInv, stream
<1>10. CASE Send
  BY <1>10, SendStream DEF Send
<1>11. CASE SendInVain
  BY <1>11, SendStream DEF SendInVain, stream
<1>12. CASE BrokenPipe
  BY <1>12, StreamSame DEF BrokenPipe, history, client
<1>13. CASE ServerReads
  BY <1>13, ServerReadsStream
<1>14. CASE ServerCloses
  BY <1>14, ServerClosesStream
<1> QED BY <1>1, <1>2, <1>3, <1>4, <1>5, <1>6, <1>7, <1>8, <1>9, <1>10, <1>11, <1>12, <1>13, <1>14
        DEF Next, Main, SensorThread

\* In whatever pieces the stream arrives, what the server has been handed is the
\* messages sent so far, whole, in order and none left out.
THEOREM FramesCorrect == Spec => []FramesIntact
<1>1. Init => ClientTypeOK /\ StreamInv
  BY InitIInv, InitStream DEF IInv
<1>2. ClientTypeOK /\ StreamInv /\ [Next]_vars => (ClientTypeOK /\ StreamInv)'
  BY TypeStep, StreamStep
<1>3. StreamInv => FramesIntact
  <2> SUFFICES ASSUME StreamInv PROVE FramesIntact
    OBVIOUS
  <2>1. PICK rest \in Seq(Messages) : sent = handed \o rest
    BY DEF StreamInv, FromSensor
  <2>2. handed \in Seq(Messages)
    BY DEF StreamInv
  <2>3. /\ Len(handed) <= Len(handed \o rest)
        /\ \A i \in 1 .. Len(handed) : handed[i] = (handed \o rest)[i]
    BY <2>2
  <2> QED BY <2>1, <2>2, <2>3 DEF FramesIntact, IsPrefix
<1> QED BY <1>1, <1>2, <1>3, PTL DEF Spec

\* The types of a sensor's program: no reader ever waits for a negative number of bytes
\* or keeps more than a message.
THEOREM TypeCorrect == Spec => []TypeOK
<1> DEFINE Inv == ClientTypeOK /\ OrderInv /\ StreamInv
<1>1. Init => Inv
  BY InitIInv, InitOrder, InitStream DEF IInv
<1>2. Inv /\ [Next]_vars => Inv'
  BY TypeStep, OrderStep, StreamStep
<1>3. Inv => TypeOK
  <2> SUFFICES ASSUME Inv PROVE TypeOK
    OBVIOUS
  <2>1. \A S : \A r \in Readers(S) : ReaderOK(r)
    BY DEF Readers, ReaderOK
  <2>2. ReaderOK(reader) /\ ReaderOK(serverReader)
    BY <2>1 DEF StreamInv
  <2> QED BY <2>2 DEF ClientTypeOK, OrderInv, StreamInv, TypeOK
<1> QED BY <1>1, <1>2, <1>3, PTL DEF Spec

=============================================================================
