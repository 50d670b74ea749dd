--------------------------- MODULE DeviceLinkProofs ---------------------------
(***************************************************************************)
(* The safety properties of DeviceLink, for any number of streams and of   *)
(* kanbans in either direction.                                            *)
(***************************************************************************)
EXTENDS DeviceLink, TLAPS

One(T) == {<<>>} \cup {<<k>> : k \in T}

\* The types of what the goroutines hold, of the channels and of the sequences.
LocalOK ==
  /\ cpc \in {"dial", "recv", "ended"} /\ taker \in {"select", "start", "ended"}
  /\ n \in 0..MaxStream
  /\ chold \in 0..MaxIn
  /\ shold \in [Stream -> 0..MaxOut] /\ ghold \in [Stream -> 0..MaxOut]
  /\ hhold \in [Stream -> 0..MaxIn]
  /\ offered \in 0..MaxOut /\ arrived \in 0..MaxIn
  /\ takenBy \in [Out -> 0..MaxStream] /\ broughtBy \in [In -> 0..MaxStream]
ChannelOK == sendCh \in One(Out) /\ recvCh \in One(In) /\ inCh \in One(In)
WireOK ==
  /\ toServer \in [Stream -> Seq(Out)] /\ toBroker \in [Stream -> Seq(In)]
  /\ transferred \in Seq(Out) /\ received \in Seq(In)
TypeOK == LocalOK /\ ChannelOK /\ WireOK

\* Only the last stream can be up, and a goroutine belongs to a stream that
\* has been opened.
Lifecycle ==
  /\ up \subseteq 1..n /\ up \subseteq {n}
  /\ cpc # "recv" => up = {}
  /\ cpc = "recv" => n # 0
  /\ cancelled => up = {}
  /\ senders \subseteq 1..n /\ handlers \subseteq 1..n /\ receivers \subseteq 1..n

Increasing(s) == \A i, j \in DOMAIN s : i < j => s[i] < s[j]

-----------------------------------------------------------------------------
(* Kanbans for other devices *)

\* The channel holds the last kanban that was offered; all before it are taken,
\* each by the sender of one stream.
OutTaken ==
  /\ sendCh # <<>> => Head(sendCh) = offered
  /\ \A k \in Out : takenBy[k] = 0 <=> k > offered \/ (sendCh # <<>> /\ k = offered)
  /\ \A k \in Out : takenBy[k] <= n

\* A stream carries what its sender took.
OutOwned ==
  /\ \A i \in Stream :
       /\ shold[i] # 0 => takenBy[shold[i]] = i
       /\ ghold[i] # 0 => takenBy[ghold[i]] = i
       /\ \A k \in Elements(toServer[i]) : takenBy[k] = i
  /\ \A k \in Elements(transferred) : takenBy[k] # 0

\* What was taken for the stream that is up is on it, or has been transferred.
OutCarried ==
  \A i \in up, k \in Out :
    takenBy[k] = i => \/ k \in Elements(transferred) \/ k \in Elements(toServer[i])
                      \/ k = shold[i] \/ k = ghold[i]

\* A stream carries its kanbans in order.
OutQueued ==
  \A i \in Stream :
    /\ Increasing(toServer[i])
    /\ \A k \in Elements(transferred) :
         takenBy[k] = i => /\ \A m \in Elements(toServer[i]) : k < m
                           /\ ghold[i] # 0 => k < ghold[i]
                           /\ shold[i] # 0 => k < shold[i]
    /\ ghold[i] # 0 => /\ \A m \in Elements(toServer[i]) : ghold[i] < m
                       /\ shold[i] # 0 => ghold[i] < shold[i]
    /\ shold[i] # 0 => \A m \in Elements(toServer[i]) : m < shold[i]

\* The kanbans that have got onto their stream while that was up.
OnWire(k) ==
  \/ k \in Elements(transferred)
  \/ \E i \in Stream : (k # 0 /\ ghold[i] = k) \/ k \in Elements(toServer[i])

\* A later stream takes kanbans that are later than all that got onto an
\* earlier one; the sender of a stream that has broken may take any, but those
\* go nowhere.
OutWired ==
  \A k \in Out : OnWire(k) =>
    \A m \in Out : takenBy[m] = 0 \/ takenBy[m] > takenBy[k] => k < m

\* The part of InOrder about these kanbans.
OutOrder ==
  \A i, j \in DOMAIN transferred :
    i < j => \/ transferred[i] < transferred[j]
             \/ transferred[i] > transferred[j] /\ takenBy[transferred[i]] > takenBy[transferred[j]]

OutInv == OutTaken /\ OutOwned /\ OutCarried /\ OutQueued /\ OutWired /\ OutOrder

-----------------------------------------------------------------------------
(* Kanbans from other devices *)

\* The channel of send-anything holds the last kanban that came; all before it
\* are taken, each by the handler of one stream, or ended with the process.
InTaken ==
  /\ inCh # <<>> => Head(inCh) = arrived
  /\ \A k \in In : k > arrived \/ (inCh # <<>> /\ k = arrived) => broughtBy[k] = 0
  /\ \A k \in In :
       broughtBy[k] = 0 => k > arrived \/ k \in Elements(inCh) \/ k \in crashLost
  /\ \A k \in In : broughtBy[k] <= n

InOwned ==
  \A i \in Stream :
    /\ hhold[i] # 0 => broughtBy[hhold[i]] = i
    /\ \A k \in Elements(toBroker[i]) : broughtBy[k] = i

\* The kanbans that have reached the broker.
Reached(k) == k \in Elements(received) \/ k \in Elements(recvCh) \/ (k # 0 /\ k = chold)

InReached ==
  /\ \A k \in In : Reached(k) => broughtBy[k] # 0
  /\ cpc # "recv" => chold = 0

\* What was taken for the stream that is up is on it, or has reached the broker.
InCarried ==
  \A i \in up, k \in In :
    broughtBy[k] = i => Reached(k) \/ k \in Elements(toBroker[i]) \/ k = hhold[i]

\* What has reached the broker is in order.
InBrought ==
  /\ Increasing(received)
  /\ \A k \in Elements(received), m \in Elements(recvCh) : k < m
  /\ chold # 0 => \A k \in Elements(received) \cup Elements(recvCh) : k < chold

\* What can still come over the stream that the broker reads is in order and
\* later; it reads the last one only, and that to its end before the next one.
InQueued ==
  cpc = "recv" =>
    /\ Increasing(toBroker[n])
    /\ \A k \in In : Reached(k) => /\ \A m \in Elements(toBroker[n]) : k < m
                                   /\ hhold[n] # 0 => k < hhold[n]
    /\ hhold[n] # 0 => \A m \in Elements(toBroker[n]) : m < hhold[n]

InInv == InTaken /\ InOwned /\ InReached /\ InCarried /\ InBrought /\ InQueued

IInv == TypeOK /\ Lifecycle /\ OutInv /\ InInv

-----------------------------------------------------------------------------
(* Sequences of kanbans *)

(* Appending adds the element, and keeps the order if it is the greatest. *)
LEMMA AppendFacts ==
  ASSUME NEW S \in SUBSET Nat, NEW s \in Seq(S), NEW e \in S
  PROVE  /\ Append(s, e) \in Seq(S)
         /\ Elements(Append(s, e)) = Elements(s) \cup {e}
         /\ Increasing(s) /\ (\A x \in Elements(s) : x < e) => Increasing(Append(s, e))
<1>1. /\ Append(s, e) \in Seq(S) /\ Len(Append(s, e)) = Len(s) + 1
      /\ \A j \in 1..Len(s) : Append(s, e)[j] = s[j]
      /\ Append(s, e)[Len(s) + 1] = e
  OBVIOUS
<1>2. DOMAIN s = 1..Len(s) /\ DOMAIN Append(s, e) = 1..(Len(s) + 1) /\ Len(s) \in Nat
  BY <1>1
<1>3. Elements(Append(s, e)) = Elements(s) \cup {e}
  BY <1>1, <1>2 DEF Elements
<1>4. ASSUME Increasing(s), \A x \in Elements(s) : x < e
      PROVE  Increasing(Append(s, e))
  BY <1>1, <1>2, <1>4 DEF Increasing, Elements
<1> QED BY <1>1, <1>3, <1>4

(* The head is taken away; in an increasing sequence it was the least. *)
LEMMA TailFacts ==
  ASSUME NEW S \in SUBSET Nat, NEW s \in Seq(S), s # <<>>
  PROVE  /\ Head(s) \in S /\ Tail(s) \in Seq(S)
         /\ Elements(s) = {Head(s)} \cup Elements(Tail(s))
         /\ Increasing(s) => Increasing(Tail(s)) /\ \A x \in Elements(Tail(s)) : Head(s) < x
<1>1. /\ Len(s) \in Nat \ {0} /\ DOMAIN s = 1..Len(s) /\ Head(s) = s[1] /\ Head(s) \in S
      /\ Tail(s) \in Seq(S) /\ Len(Tail(s)) = Len(s) - 1
      /\ \A j \in 1..(Len(s) - 1) : Tail(s)[j] = s[j + 1]
  OBVIOUS
<1>2. DOMAIN Tail(s) = 1..(Len(s) - 1)
  BY <1>1
<1>3. Elements(s) = {Head(s)} \cup Elements(Tail(s))
  <2>1. ASSUME NEW j \in 1..Len(s) PROVE s[j] \in {Head(s)} \cup Elements(Tail(s))
    <3>1. CASE j = 1 BY <3>1, <1>1
    <3>2. CASE j # 1
      <4>1. j - 1 \in 1..(Len(s) - 1) /\ s[j] = Tail(s)[j - 1] BY <3>2, <1>1
      <4> QED BY <4>1, <1>2 DEF Elements
    <3> QED BY <3>1, <3>2
  <2>2. ASSUME NEW j \in 1..(Len(s) - 1) PROVE Tail(s)[j] \in Elements(s)
    BY <1>1 DEF Elements
  <2> QED BY <2>1, <2>2, <1>1, <1>2 DEF Elements
<1>4. ASSUME Increasing(s)
      PROVE  Increasing(Tail(s)) /\ \A x \in Elements(Tail(s)) : Head(s) < x
  BY <1>1, <1>2, <1>4 DEF Increasing, Elements
<1> QED BY <1>1, <1>3, <1>4

(* What is left of a stream that breaks. *)
LEMMA PrefixFacts ==
  ASSUME NEW S \in SUBSET Nat, NEW s \in Seq(S), NEW k \in 0..Len(s)
  PROVE  /\ SubSeq(s, 1, k) \in Seq(S)
         /\ Elements(SubSeq(s, 1, k)) \subseteq Elements(s)
         /\ Increasing(s) => Increasing(SubSeq(s, 1, k))
<1>1. /\ SubSeq(s, 1, k) \in Seq(S) /\ Len(SubSeq(s, 1, k)) = k
      /\ \A j \in 1..k : SubSeq(s, 1, k)[j] = s[j]
  OBVIOUS
<1>2. DOMAIN s = 1..Len(s) /\ DOMAIN SubSeq(s, 1, k) = 1..k /\ k \in Nat /\ k <= Len(s)
  BY <1>1
<1> QED BY <1>1, <1>2 DEF Elements, Increasing

(* The empty sequence. *)
LEMMA EmptyFacts == Elements(<<>>) = {} /\ Increasing(<<>>)
BY DEF Elements, Increasing

(* A sequence without elements. *)
LEMMA NoElements ==
  ASSUME NEW s, \A k : k \notin Elements(s)
  PROVE  Increasing(s)
<1>1. \A j \in DOMAIN s : s[j] \in Elements(s) BY DEF Elements
<1> QED BY <1>1 DEF Increasing

(* The element of a channel of one place. *)
LEMMA OneFacts ==
  ASSUME NEW T, NEW c \in One(T)
  PROVE  /\ c # <<>> => Head(c) \in T /\ Elements(c) = {Head(c)} /\ c = <<Head(c)>>
         /\ <<>> \in One(T) /\ \A k \in T : <<k>> \in One(T)
BY DEF One, Elements

-----------------------------------------------------------------------------
(* Types and streams *)

USE DEF ctrlVars, senderVars, wireVars, handlerVars, receiverVars, serverVars,
        outHistory, inHistory, history

(* Every step is one of these. *)
LEMMA StepCases ==
  ASSUME [Next]_vars
  PROVE  \/ Dial \/ Receive \/ Put \/ ReceiveFails \/ CloseReceive \/ TakeReceived
         \/ StopTaking \/ StartIsTaken
         \/ SendFileToDevice \/ FromDevice \/ Cancel \/ Restart
         \/ \E i \in Stream :
              \/ SenderTakes(i) \/ SenderSends(i) \/ SenderEnds(i)
              \/ HandlerTakes(i) \/ HandlerSends(i) \/ HandlerReturns(i)
              \/ ServerReceives(i) \/ Transfer(i) \/ ServerReceiveFails(i)
              \/ NoticeBreak(i) \/ Break(i)
         \/ UNCHANGED vars
BY DEF Next, Broker, Connection, Taker, Sender, SendAnything, Handler, ServerReceiver

(* What a sequence can become. *)
LEMMA SeqTypes ==
  ASSUME NEW S
  PROVE  /\ <<>> \in Seq(S)
         /\ \A s \in Seq(S), e \in S : Append(s, e) \in Seq(S)
         /\ \A s \in Seq(S) : s # <<>> => Head(s) \in S /\ Tail(s) \in Seq(S)
         /\ \A s \in Seq(S) : \A k \in 0..Len(s) : SubSeq(s, 1, k) \in Seq(S)
<1>1. ASSUME NEW s \in Seq(S), NEW k \in 0..Len(s) PROVE SubSeq(s, 1, k) \in Seq(S)
  OBVIOUS
<1> QED BY <1>1

(* The life of streams and goroutines. *)
LEMMA LifeStep ==
  ASSUME BoundAssumption, TypeOK, Lifecycle, [Next]_vars
  PROVE  Lifecycle'
<1> USE DEF BoundAssumption, TypeOK, LocalOK, Lifecycle, Stream
<1>1. ASSUME Dial PROVE Lifecycle'
  BY <1>1 DEF Dial, OpenStream
<1>2. ASSUME Receive PROVE Lifecycle'
  BY <1>2 DEF Receive
<1>3. ASSUME Put PROVE Lifecycle'
  BY <1>3 DEF Put
<1>4. ASSUME ReceiveFails PROVE Lifecycle'
  BY <1>4 DEF ReceiveFails, StreamEnds, Broken
<1>5. ASSUME CloseReceive PROVE Lifecycle'
  BY <1>5 DEF CloseReceive
<1>6. ASSUME TakeReceived PROVE Lifecycle'
  BY <1>6 DEF TakeReceived
<1>7. ASSUME NEW i \in Stream, SenderTakes(i) PROVE Lifecycle'
  BY <1>7 DEF SenderTakes
<1>8. ASSUME NEW i \in Stream, SenderSends(i) PROVE Lifecycle'
  BY <1>8 DEF SenderSends, Sent
<1>9. ASSUME NEW i \in Stream, SenderEnds(i) PROVE Lifecycle'
  BY <1>9 DEF SenderEnds
<1>10. ASSUME NEW i \in Stream, HandlerTakes(i) PROVE Lifecycle'
  BY <1>10 DEF HandlerTakes
<1>11. ASSUME NEW i \in Stream, HandlerSends(i) PROVE Lifecycle'
  BY <1>11 DEF HandlerSends, Sent
<1>12. ASSUME NEW i \in Stream, HandlerReturns(i) PROVE Lifecycle'
  BY <1>12 DEF HandlerReturns
<1>13. ASSUME NEW i \in Stream, ServerReceives(i) PROVE Lifecycle'
  BY <1>13 DEF ServerReceives
<1>14. ASSUME NEW i \in Stream, Transfer(i) PROVE Lifecycle'
  BY <1>14 DEF Transfer
<1>15. ASSUME NEW i \in Stream, ServerReceiveFails(i) PROVE Lifecycle'
  BY <1>15 DEF ServerReceiveFails
<1>16. ASSUME NEW i \in Stream, NoticeBreak(i) PROVE Lifecycle'
  BY <1>16 DEF NoticeBreak
<1>17. ASSUME SendFileToDevice PROVE Lifecycle'
  BY <1>17 DEF SendFileToDevice
<1>18. ASSUME FromDevice PROVE Lifecycle'
  BY <1>18 DEF FromDevice
<1>19. ASSUME Cancel PROVE Lifecycle'
  BY <1>19 DEF Cancel, Cut
<1>20. ASSUME NEW i \in Stream, Break(i) PROVE Lifecycle'
  BY <1>20 DEF Break, Cut
<1>21. ASSUME Restart PROVE Lifecycle'
  BY <1>21 DEF Restart
<1>22. ASSUME StopTaking PROVE Lifecycle'
  BY <1>22 DEF StopTaking
<1>23. ASSUME StartIsTaken PROVE Lifecycle'
  BY <1>23 DEF StartIsTaken
<1>24. CASE UNCHANGED vars BY <1>24 DEF vars
<1> QED BY StepCases, <1>1, <1>2, <1>3, <1>4, <1>5, <1>6, <1>7, <1>8, <1>9, <1>10, <1>11,
           <1>12, <1>13, <1>14, <1>15, <1>16, <1>17, <1>18, <1>19, <1>20, <1>21, <1>22,
           <1>23, <1>24

(* What goroutines hold. *)
LEMMA LocalStep ==
  ASSUME BoundAssumption, TypeOK, Lifecycle, [Next]_vars
  PROVE  LocalOK'
<1>h. /\ sendCh # <<>> => Head(sendCh) \in 0..MaxOut /\ Head(sendCh) \in Out
      /\ recvCh # <<>> => Head(recvCh) \in 0..MaxIn /\ Head(recvCh) \in In
      /\ inCh # <<>> => Head(inCh) \in 0..MaxIn /\ Head(inCh) \in In
  <2>1. Out \subseteq 0..MaxOut /\ In \subseteq 0..MaxIn BY DEF Out, In, BoundAssumption
  <2> QED BY <2>1, OneFacts DEF TypeOK, ChannelOK
<1>n. /\ \A k \in 0..MaxOut : k # 0 => k \in Out
      /\ \A k \in 0..MaxIn : k # 0 => k \in In
      /\ cpc = "recv" => n \in Stream
      /\ \A i \in up : i \in Stream
  BY DEF TypeOK, LocalOK, Lifecycle, BoundAssumption, Out, In, Stream
<1>s. /\ \A i \in Stream : toServer[i] # <<>> => Head(toServer[i]) \in 0..MaxOut
      /\ \A i \in Stream : toBroker[i] # <<>> => Head(toBroker[i]) \in 0..MaxIn
  <2>1. Out \subseteq 0..MaxOut /\ In \subseteq 0..MaxIn BY DEF Out, In, BoundAssumption
  <2> QED BY <2>1, SeqTypes DEF TypeOK, WireOK
<1>z. 0 \in 0..MaxOut /\ 0 \in 0..MaxIn BY DEF BoundAssumption
<1> USE <1>h, <1>s, <1>n, <1>z DEF TypeOK, LocalOK
<1>1. ASSUME Dial PROVE LocalOK'
  BY <1>1 DEF Dial, OpenStream, BoundAssumption
<1>2. ASSUME Receive PROVE LocalOK'
  BY <1>2 DEF Receive
<1>3. ASSUME Put PROVE LocalOK'
  BY <1>3 DEF Put
<1>4. ASSUME ReceiveFails PROVE LocalOK'
  BY <1>4 DEF ReceiveFails, StreamEnds, Broken
<1>5. ASSUME CloseReceive PROVE LocalOK'
  BY <1>5 DEF CloseReceive
<1>6. ASSUME TakeReceived PROVE LocalOK'
  BY <1>6 DEF TakeReceived
<1>7. ASSUME NEW i \in Stream, SenderTakes(i) PROVE LocalOK'
  <2>1. i \in 0..MaxStream BY DEF Stream
  <2> QED BY <1>7, <2>1 DEF SenderTakes
<1>8. ASSUME NEW i \in Stream, SenderSends(i) PROVE LocalOK'
  BY <1>8 DEF SenderSends, Sent
<1>9. ASSUME NEW i \in Stream, SenderEnds(i) PROVE LocalOK'
  BY <1>9 DEF SenderEnds
<1>10. ASSUME NEW i \in Stream, HandlerTakes(i) PROVE LocalOK'
  <2>1. i \in 0..MaxStream BY DEF Stream
  <2> QED BY <1>10, <2>1 DEF HandlerTakes
<1>11. ASSUME NEW i \in Stream, HandlerSends(i) PROVE LocalOK'
  BY <1>11 DEF HandlerSends, Sent
<1>12. ASSUME NEW i \in Stream, HandlerReturns(i) PROVE LocalOK'
  BY <1>12 DEF HandlerReturns
<1>13. ASSUME NEW i \in Stream, ServerReceives(i) PROVE LocalOK'
  BY <1>13 DEF ServerReceives
<1>14. ASSUME NEW i \in Stream, Transfer(i) PROVE LocalOK'
  BY <1>14 DEF Transfer
<1>15. ASSUME NEW i \in Stream, ServerReceiveFails(i) PROVE LocalOK'
  BY <1>15 DEF ServerReceiveFails
<1>16. ASSUME NEW i \in Stream, NoticeBreak(i) PROVE LocalOK'
  BY <1>16 DEF NoticeBreak
<1>17. ASSUME SendFileToDevice PROVE LocalOK'
  BY <1>17 DEF SendFileToDevice, BoundAssumption
<1>18. ASSUME FromDevice PROVE LocalOK'
  BY <1>18 DEF FromDevice, BoundAssumption
<1>19. ASSUME Cancel PROVE LocalOK'
  BY <1>19 DEF Cancel, Cut
<1>20. ASSUME NEW i \in Stream, Break(i) PROVE LocalOK'
  BY <1>20 DEF Break, Cut
<1>21. ASSUME Restart PROVE LocalOK'
  BY <1>21 DEF Restart
<1>22. ASSUME StopTaking PROVE LocalOK'
  BY <1>22 DEF StopTaking
<1>23. ASSUME StartIsTaken PROVE LocalOK'
  BY <1>23 DEF StartIsTaken
<1>24. CASE UNCHANGED vars BY <1>24 DEF vars
<1> QED BY StepCases, <1>1, <1>2, <1>3, <1>4, <1>5, <1>6, <1>7, <1>8, <1>9, <1>10, <1>11,
           <1>12, <1>13, <1>14, <1>15, <1>16, <1>17, <1>18, <1>19, <1>20, <1>21, <1>22,
           <1>23, <1>24

(* The channels. *)
LEMMA ChannelStep ==
  ASSUME BoundAssumption, TypeOK, Lifecycle, [Next]_vars
  PROVE  ChannelOK'
<1>o. \A T : <<>> \in One(T) /\ \A k \in T : <<k>> \in One(T)
  BY DEF One
<1> USE <1>o DEF BoundAssumption, TypeOK, LocalOK, ChannelOK, Out, In
<1>1. ASSUME Dial PROVE ChannelOK'
  BY <1>1 DEF Dial, OpenStream
<1>2. ASSUME Receive PROVE ChannelOK'
  BY <1>2 DEF Receive
<1>3. ASSUME Put PROVE ChannelOK'
  BY <1>3 DEF Put
<1>4. ASSUME ReceiveFails PROVE ChannelOK'
  BY <1>4 DEF ReceiveFails, StreamEnds, Broken
<1>5. ASSUME CloseReceive PROVE ChannelOK'
  BY <1>5 DEF CloseReceive
<1>6. ASSUME TakeReceived PROVE ChannelOK'
  BY <1>6 DEF TakeReceived
<1>7. ASSUME NEW i \in Stream, SenderTakes(i) PROVE ChannelOK'
  BY <1>7 DEF SenderTakes
<1>8. ASSUME NEW i \in Stream, SenderSends(i) PROVE ChannelOK'
  BY <1>8 DEF SenderSends, Sent
<1>9. ASSUME NEW i \in Stream, SenderEnds(i) PROVE ChannelOK'
  BY <1>9 DEF SenderEnds
<1>10. ASSUME NEW i \in Stream, HandlerTakes(i) PROVE ChannelOK'
  BY <1>10 DEF HandlerTakes
<1>11. ASSUME NEW i \in Stream, HandlerSends(i) PROVE ChannelOK'
  BY <1>11 DEF HandlerSends, Sent
<1>12. ASSUME NEW i \in Stream, HandlerReturns(i) PROVE ChannelOK'
  BY <1>12 DEF HandlerReturns
<1>13. ASSUME NEW i \in Stream, ServerReceives(i) PROVE ChannelOK'
  BY <1>13 DEF ServerReceives
<1>14. ASSUME NEW i \in Stream, Transfer(i) PROVE ChannelOK'
  BY <1>14 DEF Transfer
<1>15. ASSUME NEW i \in Stream, ServerReceiveFails(i) PROVE ChannelOK'
  BY <1>15 DEF ServerReceiveFails
<1>16. ASSUME NEW i \in Stream, NoticeBreak(i) PROVE ChannelOK'
  BY <1>16 DEF NoticeBreak
<1>17. ASSUME SendFileToDevice PROVE ChannelOK'
  BY <1>17 DEF SendFileToDevice
<1>18. ASSUME FromDevice PROVE ChannelOK'
  BY <1>18 DEF FromDevice
<1>19. ASSUME Cancel PROVE ChannelOK'
  BY <1>19 DEF Cancel, Cut
<1>20. ASSUME NEW i \in Stream, Break(i) PROVE ChannelOK'
  BY <1>20 DEF Break, Cut
<1>21. ASSUME Restart PROVE ChannelOK'
  BY <1>21 DEF Restart
<1>22. ASSUME StopTaking PROVE ChannelOK'
  BY <1>22 DEF StopTaking
<1>23. ASSUME StartIsTaken PROVE ChannelOK'
  BY <1>23 DEF StartIsTaken
<1>24. CASE UNCHANGED vars BY <1>24 DEF vars
<1> QED BY StepCases, <1>1, <1>2, <1>3, <1>4, <1>5, <1>6, <1>7, <1>8, <1>9, <1>10, <1>11,
           <1>12, <1>13, <1>14, <1>15, <1>16, <1>17, <1>18, <1>19, <1>20, <1>21, <1>22,
           <1>23, <1>24

(* The sequences. *)
LEMMA WireStep ==
  ASSUME BoundAssumption, TypeOK, Lifecycle, [Next]_vars
  PROVE  WireOK'
<1>h. /\ sendCh # <<>> => Head(sendCh) \in 0..MaxOut /\ Head(sendCh) \in Out
      /\ recvCh # <<>> => Head(recvCh) \in 0..MaxIn /\ Head(recvCh) \in In
      /\ inCh # <<>> => Head(inCh) \in 0..MaxIn /\ Head(inCh) \in In
  <2>1. Out \subseteq 0..MaxOut /\ In \subseteq 0..MaxIn BY DEF Out, In, BoundAssumption
  <2> QED BY <2>1, OneFacts DEF TypeOK, ChannelOK
<1>n. /\ \A k \in 0..MaxOut : k # 0 => k \in Out
      /\ \A k \in 0..MaxIn : k # 0 => k \in In
      /\ cpc = "recv" => n \in Stream
      /\ \A i \in up : i \in Stream
  BY DEF TypeOK, LocalOK, Lifecycle, BoundAssumption, Out, In, Stream
<1>s. /\ \A i \in Stream : toServer[i] # <<>> => Head(toServer[i]) \in 0..MaxOut
      /\ \A i \in Stream : toBroker[i] # <<>> => Head(toBroker[i]) \in 0..MaxIn
  <2>1. Out \subseteq 0..MaxOut /\ In \subseteq 0..MaxIn BY DEF Out, In, BoundAssumption
  <2> QED BY <2>1, SeqTypes DEF TypeOK, WireOK
<1>z. 0 \in 0..MaxOut /\ 0 \in 0..MaxIn BY DEF BoundAssumption
<1> USE <1>h, <1>s, <1>n, <1>z, SeqTypes DEF TypeOK, LocalOK, WireOK
<1>1. ASSUME Dial PROVE WireOK'
  BY <1>1 DEF Dial, OpenStream
<1>2. ASSUME Receive PROVE WireOK'
  BY <1>2 DEF Receive
<1>3. ASSUME Put PROVE WireOK'
  BY <1>3 DEF Put
<1>4. ASSUME ReceiveFails PROVE WireOK'
  BY <1>4 DEF ReceiveFails, StreamEnds, Broken
<1>5. ASSUME CloseReceive PROVE WireOK'
  BY <1>5 DEF CloseReceive
<1>6. ASSUME TakeReceived PROVE WireOK'
  BY <1>6 DEF TakeReceived
<1>7. ASSUME NEW i \in Stream, SenderTakes(i) PROVE WireOK'
  BY <1>7 DEF SenderTakes
<1>8. ASSUME NEW i \in Stream, SenderSends(i) PROVE WireOK'
  BY <1>8 DEF SenderSends, Sent
<1>9. ASSUME NEW i \in Stream, SenderEnds(i) PROVE WireOK'
  BY <1>9 DEF SenderEnds
<1>10. ASSUME NEW i \in Stream, HandlerTakes(i) PROVE WireOK'
  BY <1>10 DEF HandlerTakes
<1>11. ASSUME NEW i \in Stream, HandlerSends(i) PROVE WireOK'
  BY <1>11 DEF HandlerSends, Sent
<1>12. ASSUME NEW i \in Stream, HandlerReturns(i) PROVE WireOK'
  BY <1>12 DEF HandlerReturns
<1>13. ASSUME NEW i \in Stream, ServerReceives(i) PROVE WireOK'
  BY <1>13 DEF ServerReceives
<1>14. ASSUME NEW i \in Stream, Transfer(i) PROVE WireOK'
  BY <1>14 DEF Transfer
<1>15. ASSUME NEW i \in Stream, ServerReceiveFails(i) PROVE WireOK'
  BY <1>15 DEF ServerReceiveFails
<1>16. ASSUME NEW i \in Stream, NoticeBreak(i) PROVE WireOK'
  BY <1>16 DEF NoticeBreak
<1>17. ASSUME SendFileToDevice PROVE WireOK'
  BY <1>17 DEF SendFileToDevice
<1>18. ASSUME FromDevice PROVE WireOK'
  BY <1>18 DEF FromDevice
<1>19. ASSUME Cancel PROVE WireOK'
  <2>1. CASE n \in up
    <3>1. PICK k \in 0..Len(toServer[n]) : toServer' = [toServer EXCEPT ![n] = SubSeq(toServer[n], 1, k)]
      BY <1>19, <2>1 DEF Cancel, Cut
    <3>2. PICK m \in 0..Len(toBroker[n]) : toBroker' = [toBroker EXCEPT ![n] = SubSeq(toBroker[n], 1, m)]
      BY <1>19, <2>1 DEF Cancel, Cut
    <3>3. UNCHANGED <<transferred, received>> BY <1>19 DEF Cancel
    <3>4. SubSeq(toServer[n], 1, k) \in Seq(Out) /\ SubSeq(toBroker[n], 1, m) \in Seq(In)
      BY <2>1
    <3> QED BY <3>1, <3>2, <3>3, <3>4, <2>1
  <2>2. CASE n \notin up BY <1>19, <2>2 DEF Cancel
  <2> QED BY <2>1, <2>2
<1>20. ASSUME NEW i \in Stream, Break(i) PROVE WireOK'
  BY <1>20 DEF Break, Cut
<1>21. ASSUME Restart PROVE WireOK'
  <2>1. n \in Stream BY <1>21 DEF Restart, Stream
  <2>2. PICK k \in 0..Len(toBroker[n]) : toBroker' = [toBroker EXCEPT ![n] = SubSeq(toBroker[n], 1, k)]
    BY <1>21 DEF Restart
  <2>3. SubSeq(toBroker[n], 1, k) \in Seq(In)
    BY <2>1
  <2> QED BY <1>21, <2>2, <2>3 DEF Restart
<1>22. ASSUME StopTaking PROVE WireOK'
  BY <1>22 DEF StopTaking
<1>23. ASSUME StartIsTaken PROVE WireOK'
  BY <1>23 DEF StartIsTaken
<1>24. CASE UNCHANGED vars BY <1>24 DEF vars
<1> QED BY StepCases, <1>1, <1>2, <1>3, <1>4, <1>5, <1>6, <1>7, <1>8, <1>9, <1>10, <1>11,
           <1>12, <1>13, <1>14, <1>15, <1>16, <1>17, <1>18, <1>19, <1>20, <1>21, <1>22,
           <1>23, <1>24

-----------------------------------------------------------------------------
(* Kanbans out: what a step does *)

(* The kanbans that a sequence holds. *)
LEMMA ElementsType ==
  ASSUME NEW S, NEW s \in Seq(S)
  PROVE  Elements(s) \subseteq S
BY DEF Elements

(* What the variables range over. *)
LEMMA OutTypes ==
  ASSUME BoundAssumption, TypeOK
  PROVE  /\ Out \subseteq Nat \ {0} /\ n \in Nat /\ offered \in Nat
         /\ Stream \subseteq Nat \ {0}
         /\ \A k \in Out : takenBy[k] \in Nat
         /\ \A i \in Stream : /\ shold[i] \in Nat /\ (shold[i] # 0 => shold[i] \in Out)
                              /\ ghold[i] \in Nat /\ (ghold[i] # 0 => ghold[i] \in Out)
                              /\ Elements(toServer[i]) \subseteq Out
         /\ Elements(transferred) \subseteq Out
         /\ sendCh # <<>> => Head(sendCh) \in Out
<1>1. /\ Out \subseteq Nat \ {0} /\ n \in Nat /\ offered \in Nat
      /\ Stream \subseteq Nat \ {0}
      /\ \A k \in Out : takenBy[k] \in Nat
      /\ \A i \in Stream : /\ shold[i] \in Nat /\ (shold[i] # 0 => shold[i] \in Out)
                           /\ ghold[i] \in Nat /\ (ghold[i] # 0 => ghold[i] \in Out)
  BY DEF BoundAssumption, TypeOK, LocalOK, Out, Stream
<1>2. /\ \A i \in Stream : Elements(toServer[i]) \subseteq Out
      /\ Elements(transferred) \subseteq Out
  BY ElementsType DEF TypeOK, WireOK
<1>3. sendCh # <<>> => Head(sendCh) \in Out
  BY OneFacts DEF TypeOK, ChannelOK
<1> QED BY <1>1, <1>2, <1>3

(* What breaks when nothing is left up keeps the invariant. *)
LEMMA OutBreaks ==
  ASSUME BoundAssumption, TypeOK, OutInv, up' = {},
         UNCHANGED <<n, sendCh, shold, offered, takenBy, transferred>>,
         \A i \in Stream : /\ ghold'[i] \in {0, ghold[i]}
                           /\ Elements(toServer'[i]) \subseteq Elements(toServer[i])
                           /\ Increasing(toServer[i]) => Increasing(toServer'[i])
  PROVE  OutInv'
<1> USE OutTypes DEF OutInv
<1>1. OutTaken' BY DEF OutTaken
<1>2. OutOwned' BY DEF OutOwned
<1>3. OutCarried' BY DEF OutCarried
<1>4. OutQueued' BY DEF OutQueued
<1>5. OutWired'
  <2>1. \A k \in Out : OnWire(k)' => OnWire(k) BY DEF OnWire
  <2> QED BY <2>1 DEF OutWired
<1>6. OutOrder' BY DEF OutOrder
<1> QED BY <1>1, <1>2, <1>3, <1>4, <1>5, <1>6

(* A stream that is cut keeps a prefix. *)
LEMMA CutFacts ==
  ASSUME BoundAssumption, TypeOK, NEW i \in Stream, Cut(i)
  PROVE  \A j \in Stream : /\ Elements(toServer'[j]) \subseteq Elements(toServer[j])
                           /\ Increasing(toServer[j]) => Increasing(toServer'[j])
                           /\ Elements(toBroker'[j]) \subseteq Elements(toBroker[j])
                           /\ Increasing(toBroker[j]) => Increasing(toBroker'[j])
<1>1. PICK k \in 0..Len(toServer[i]) : toServer' = [toServer EXCEPT ![i] = SubSeq(toServer[i], 1, k)]
  BY DEF Cut
<1>2. PICK m \in 0..Len(toBroker[i]) : toBroker' = [toBroker EXCEPT ![i] = SubSeq(toBroker[i], 1, m)]
  BY DEF Cut
<1>3. Out \subseteq Nat /\ In \subseteq Nat BY DEF Out, In, BoundAssumption
<1>4. /\ Elements(SubSeq(toServer[i], 1, k)) \subseteq Elements(toServer[i])
      /\ Increasing(toServer[i]) => Increasing(SubSeq(toServer[i], 1, k))
  BY <1>3, PrefixFacts DEF TypeOK, WireOK
<1>5. /\ Elements(SubSeq(toBroker[i], 1, m)) \subseteq Elements(toBroker[i])
      /\ Increasing(toBroker[i]) => Increasing(SubSeq(toBroker[i], 1, m))
  BY <1>3, PrefixFacts DEF TypeOK, WireOK
<1> QED BY <1>1, <1>2, <1>4, <1>5 DEF TypeOK, WireOK

(* A kanban is given to SendFileToDevice. *)
LEMMA OutOffered ==
  ASSUME BoundAssumption, TypeOK, OutInv, SendFileToDevice
  PROVE  OutInv'
<1> USE OutTypes DEF OutInv, SendFileToDevice
<1>1. OutTaken'
  <2>1. sendCh' # <<>> /\ Head(sendCh') = offered' /\ offered' = offered + 1 OBVIOUS
  <2> QED BY <2>1 DEF OutTaken
<1>2. OutOwned' BY DEF OutOwned
<1>3. OutCarried' BY DEF OutCarried
<1>4. OutQueued' BY DEF OutQueued
<1>5. OutWired' BY DEF OutWired, OnWire
<1>6. OutOrder' BY DEF OutOrder
<1> QED BY <1>1, <1>2, <1>3, <1>4, <1>5, <1>6

(* A new stream carries nothing. *)
LEMMA OutDial ==
  ASSUME BoundAssumption, TypeOK, Lifecycle, OutInv, Dial
  PROVE  OutInv'
<1> USE OutTypes DEF OutInv, Dial, OpenStream
<1>1. OutTaken' BY DEF OutTaken
<1>2. OutOwned' BY DEF OutOwned
<1>3. OutCarried'
  <2>1. up = {} /\ up' = {n + 1} BY DEF Lifecycle
  <2> QED BY <2>1 DEF OutTaken, OutCarried
<1>4. OutQueued' BY DEF OutQueued
<1>5. OutWired' BY DEF OutWired, OnWire
<1>6. OutOrder' BY DEF OutOrder
<1> QED BY <1>1, <1>2, <1>3, <1>4, <1>5, <1>6

(* A sender takes the kanban that waits: it is later than all that are taken. *)
LEMMA OutTakes ==
  ASSUME BoundAssumption, TypeOK, Lifecycle, OutInv, NEW i \in Stream, SenderTakes(i)
  PROVE  OutInv'
<1> USE OutTypes DEF OutInv
<1>1. /\ sendCh # <<>> /\ sendCh' = <<>> /\ offered \in Out /\ i <= n /\ shold[i] = 0
      /\ takenBy[offered] = 0
      /\ shold' = [shold EXCEPT ![i] = offered]
      /\ takenBy' = [takenBy EXCEPT ![offered] = i]
      /\ UNCHANGED <<n, up, toServer, ghold, offered, transferred>>
  <2>1. Head(sendCh) = offered BY DEF SenderTakes, OutTaken
  <2>2. i <= n BY DEF SenderTakes, Lifecycle
  <2> QED BY <2>1, <2>2 DEF SenderTakes, OutTaken
<1>2. /\ \A j \in Stream : shold'[j] = IF j = i THEN offered ELSE shold[j]
      /\ \A k \in Out : takenBy'[k] = IF k = offered THEN i ELSE takenBy[k]
  BY <1>1 DEF TypeOK, LocalOK
<1>3. /\ \A j \in Stream : /\ shold[j] # offered /\ ghold[j] # offered
                           /\ offered \notin Elements(toServer[j])
      /\ offered \notin Elements(transferred)
  BY <1>1 DEF OutOwned
<1>4. \A k \in Out : takenBy[k] # 0 => k < offered
  BY <1>1 DEF OutTaken
<1>5. OutTaken' BY <1>1, <1>2 DEF OutTaken
<1>6. OutOwned' BY <1>1, <1>2, <1>3 DEF OutOwned
<1>7. OutCarried'
  <2>1. up \subseteq Stream BY DEF Lifecycle, TypeOK, LocalOK, Stream
  <2> QED BY <1>1, <1>2, <2>1 DEF OutCarried
<1>8. OutQueued'
  <2> SUFFICES ASSUME NEW j \in Stream
               PROVE  /\ \A k \in Elements(transferred) :
                           takenBy'[k] = j => /\ \A m \in Elements(toServer[j]) : k < m
                                              /\ ghold[j] # 0 => k < ghold[j]
                                              /\ shold'[j] # 0 => k < shold'[j]
                      /\ ghold[j] # 0 => /\ \A m \in Elements(toServer[j]) : ghold[j] < m
                                         /\ shold'[j] # 0 => ghold[j] < shold'[j]
                      /\ shold'[j] # 0 => \A m \in Elements(toServer[j]) : m < shold'[j]
    BY <1>1 DEF OutQueued
  <2>1. CASE j # i BY <1>1, <1>2, <1>3, <2>1 DEF OutQueued
  <2>2. CASE j = i
    <3>1. /\ \A k \in Elements(transferred) : k < offered
          /\ \A k \in Elements(toServer[i]) : k < offered
          /\ ghold[i] # 0 => ghold[i] < offered
      BY <1>4 DEF OutOwned
    <3> QED BY <1>1, <1>2, <1>3, <2>2, <3>1 DEF OutQueued
  <2> QED BY <2>1, <2>2
<1>9. OutWired'
  <2>1. \A k \in Out : OnWire(k)' = OnWire(k) /\ (OnWire(k) => k # offered)
    BY <1>1, <1>3 DEF OnWire
  <2>2. \A k \in Out : OnWire(k) => k < offered
    BY <1>4 DEF OnWire, OutOwned
  <2> QED BY <1>1, <1>2, <2>1, <2>2 DEF OutWired
<1>10. OutOrder'
  <2>1. \A j \in DOMAIN transferred : transferred[j] \in Elements(transferred) BY DEF Elements
  <2>2. \A j \in DOMAIN transferred : takenBy'[transferred[j]] = takenBy[transferred[j]]
    BY <1>2, <1>3, <2>1
  <2> QED BY <1>1, <2>2 DEF OutOrder
<1> QED BY <1>5, <1>6, <1>7, <1>8, <1>9, <1>10

(* A sender sends: to a stream that is up, or nowhere. *)
LEMMA OutSends ==
  ASSUME BoundAssumption, TypeOK, Lifecycle, OutInv, NEW i \in Stream, SenderSends(i)
  PROVE  OutInv'
<1> USE OutTypes DEF OutInv
<1>1. /\ shold[i] \in Out /\ shold[i] # 0 /\ shold' = [shold EXCEPT ![i] = 0]
      /\ UNCHANGED <<n, up, sendCh, ghold, offered, takenBy, transferred>>
  BY DEF SenderSends
<1>2. \A j \in Stream : shold'[j] = IF j = i THEN 0 ELSE shold[j]
  BY <1>1 DEF TypeOK, LocalOK
<1>3. /\ \A j \in Stream : Elements(toServer'[j]) =
                             IF j = i /\ i \in up THEN Elements(toServer[i]) \cup {shold[i]}
                             ELSE Elements(toServer[j])
      /\ \A j \in Stream : Increasing(toServer'[j])
  <2>1. /\ Elements(Append(toServer[i], shold[i])) = Elements(toServer[i]) \cup {shold[i]}
        /\ Increasing(toServer[i]) /\ (\A x \in Elements(toServer[i]) : x < shold[i])
             => Increasing(Append(toServer[i], shold[i]))
    <3>1. Out \in SUBSET Nat /\ toServer[i] \in Seq(Out) BY DEF TypeOK, WireOK
    <3> QED BY <1>1, <3>1, AppendFacts
  <2>2. Increasing(Append(toServer[i], shold[i]))
    BY <1>1, <2>1 DEF OutQueued
  <2>3. toServer' = IF i \in up THEN [toServer EXCEPT ![i] = Append(toServer[i], shold[i])]
                    ELSE toServer
    BY DEF SenderSends, Sent
  <2> QED BY <2>1, <2>2, <2>3 DEF TypeOK, WireOK, OutQueued
<1>4. takenBy[shold[i]] = i BY <1>1 DEF OutOwned
<1>5. OutTaken' BY <1>1 DEF OutTaken
<1>6. OutOwned' BY <1>1, <1>2, <1>3, <1>4 DEF OutOwned
<1>7. OutCarried'
  <2>1. up \subseteq Stream BY DEF Lifecycle, TypeOK, LocalOK, Stream
  <2> QED BY <1>1, <1>2, <1>3, <2>1 DEF OutCarried
<1>8. OutQueued' BY <1>1, <1>2, <1>3, <1>4 DEF OutQueued
<1>9. OutWired'
  <2>1. \A k \in Out : OnWire(k)' => OnWire(k) \/ (i \in up /\ k = shold[i])
    BY <1>1, <1>3 DEF OnWire
  <2>2. CASE i \in up
    <3>1. i = n BY <2>2 DEF Lifecycle
    <3>2. \A m \in Out : takenBy[m] = 0 => shold[i] < m
      BY <1>1, <1>4 DEF OutTaken
    <3>3. \A m \in Out : takenBy[m] <= n BY DEF OutTaken
    <3> QED BY <1>1, <1>4, <2>1, <3>1, <3>2, <3>3 DEF OutWired
  <2>3. CASE i \notin up BY <1>1, <2>1, <2>3 DEF OutWired
  <2> QED BY <2>2, <2>3
<1>10. OutOrder' BY <1>1 DEF OutOrder
<1> QED BY <1>5, <1>6, <1>7, <1>8, <1>9, <1>10

(* The receive loop of send-anything takes a kanban from its stream. *)
LEMMA OutReceived ==
  ASSUME BoundAssumption, TypeOK, Lifecycle, OutInv, NEW i \in Stream, ServerReceives(i)
  PROVE  OutInv'
<1> USE OutTypes DEF OutInv
<1> DEFINE g == Head(toServer[i])
<1>1. /\ ghold[i] = 0 /\ ghold' = [ghold EXCEPT ![i] = g]
      /\ toServer' = [toServer EXCEPT ![i] = Tail(toServer[i])] /\ toServer[i] # <<>>
      /\ UNCHANGED <<n, up, sendCh, shold, offered, takenBy, transferred>>
  BY DEF ServerReceives
<1>2. /\ g \in Out /\ Elements(toServer[i]) = {g} \cup Elements(Tail(toServer[i]))
      /\ Increasing(Tail(toServer[i])) /\ \A m \in Elements(Tail(toServer[i])) : g < m
  <2>1. Out \in SUBSET Nat /\ toServer[i] \in Seq(Out) BY DEF TypeOK, WireOK
  <2>2. Increasing(toServer[i]) BY DEF OutQueued
  <2> QED BY <1>1, <2>1, <2>2, TailFacts
<1>3. /\ \A j \in Stream : ghold'[j] = IF j = i THEN g ELSE ghold[j]
      /\ \A j \in Stream : toServer'[j] = IF j = i THEN Tail(toServer[i]) ELSE toServer[j]
  BY <1>1 DEF TypeOK, LocalOK, WireOK
<1> HIDE DEF g
<1>4. OutTaken' BY <1>1 DEF OutTaken
<1>5. OutOwned' BY <1>1, <1>2, <1>3 DEF OutOwned
<1>6. OutCarried'
  <2>1. up \subseteq Stream BY DEF Lifecycle, TypeOK, LocalOK, Stream
  <2> QED BY <1>1, <1>2, <1>3, <2>1 DEF OutCarried
<1>7. OutQueued' BY <1>1, <1>2, <1>3 DEF OutQueued
<1>8. OutWired'
  <2>1. \A k \in Out : OnWire(k)' => OnWire(k) BY <1>1, <1>2, <1>3 DEF OnWire
  <2> QED BY <1>1, <2>1 DEF OutWired
<1>9. OutOrder' BY <1>1 DEF OutOrder
<1> QED BY <1>4, <1>5, <1>6, <1>7, <1>8, <1>9

(* A transfer ends: the kanbans before it were earlier, or of a later stream. *)
LEMMA OutTransfer ==
  ASSUME BoundAssumption, TypeOK, Lifecycle, OutInv, NEW i \in Stream, Transfer(i)
  PROVE  OutInv'
<1> USE OutTypes DEF OutInv
<1> DEFINE g == ghold[i]
<1>1. /\ g \in Out /\ g # 0 /\ ghold' = [ghold EXCEPT ![i] = 0]
      /\ transferred' = Append(transferred, g)
      /\ UNCHANGED <<n, up, sendCh, shold, toServer, offered, takenBy>>
  BY DEF Transfer
<1>2. \A j \in Stream : ghold'[j] = IF j = i THEN 0 ELSE ghold[j]
  BY <1>1 DEF TypeOK, LocalOK
<1>3. Elements(transferred') = Elements(transferred) \cup {g}
  <2>1. Out \in SUBSET Nat /\ transferred \in Seq(Out) BY DEF TypeOK, WireOK
  <2> QED BY <1>1, <2>1, AppendFacts
<1>4. takenBy[g] = i BY <1>1 DEF OutOwned
<1>5. OutTaken' BY <1>1 DEF OutTaken
<1>6. OutOwned' BY <1>1, <1>2, <1>3, <1>4 DEF OutOwned
<1>7. OutCarried'
  <2>1. up \subseteq Stream BY DEF Lifecycle, TypeOK, LocalOK, Stream
  <2> QED BY <1>1, <1>2, <1>3, <2>1 DEF OutCarried
<1>8. OutQueued' BY <1>1, <1>2, <1>3, <1>4 DEF OutQueued
<1>9. OutWired'
  <2>1. \A k \in Out : OnWire(k)' => OnWire(k) BY <1>1, <1>2, <1>3 DEF OnWire
  <2> QED BY <1>1, <2>1 DEF OutWired
<1>10. OutOrder'
  <2>1. \A k \in Elements(transferred) : k < g \/ (k > g /\ takenBy[k] > i)
    <3> SUFFICES ASSUME NEW k \in Elements(transferred)
                 PROVE  k < g \/ (k > g /\ takenBy[k] > i)
      OBVIOUS
    <3>1. OnWire(k) /\ OnWire(g) /\ k \in Out BY <1>1 DEF OnWire
    <3>2. CASE takenBy[k] = i BY <1>1, <3>2 DEF OutQueued
    <3>3. CASE takenBy[k] < i BY <1>1, <1>4, <3>1, <3>3 DEF OutWired
    <3>4. CASE takenBy[k] > i BY <1>1, <1>4, <3>1, <3>4 DEF OutWired
    <3> QED BY <3>1, <3>2, <3>3, <3>4
  <2>2. /\ DOMAIN transferred' = 1..(Len(transferred) + 1) /\ Len(transferred) \in Nat
        /\ DOMAIN transferred = 1..Len(transferred)
        /\ \A j \in 1..Len(transferred) : /\ transferred'[j] = transferred[j]
                                          /\ transferred[j] \in Elements(transferred)
        /\ transferred'[Len(transferred) + 1] = g
    BY <1>1 DEF TypeOK, WireOK, Elements
  <2> SUFFICES ASSUME NEW a \in DOMAIN transferred', NEW b \in DOMAIN transferred', a < b
               PROVE  \/ transferred'[a] < transferred'[b]
                      \/ /\ transferred'[a] > transferred'[b]
                         /\ takenBy[transferred'[a]] > takenBy[transferred'[b]]
    BY <1>1 DEF OutOrder
  <2>3. CASE b \in DOMAIN transferred BY <2>2, <2>3 DEF OutOrder
  <2>4. CASE b \notin DOMAIN transferred
    <3>1. a \in 1..Len(transferred) /\ b = Len(transferred) + 1 BY <2>2, <2>4
    <3> HIDE DEF g
    <3> QED BY <1>4, <2>1, <2>2, <3>1
  <2> QED BY <2>3, <2>4
<1> QED BY <1>5, <1>6, <1>7, <1>8, <1>9, <1>10

(* No other step touches these kanbans. *)
LEMMA OutFrame ==
  ASSUME OutInv,
         UNCHANGED <<n, up, sendCh, shold, toServer, ghold, offered, takenBy, transferred>>
  PROVE  OutInv'
BY DEF OutInv, OutTaken, OutOwned, OutCarried, OutQueued, OutWired, OnWire, OutOrder

(* No step breaks the invariant. *)
LEMMA OutStep ==
  ASSUME BoundAssumption, TypeOK, Lifecycle, OutInv, [Next]_vars
  PROVE  OutInv'
<1>1. ASSUME Dial PROVE OutInv' BY <1>1, OutDial
<1>2. ASSUME Receive PROVE OutInv' BY <1>2, OutFrame DEF Receive
<1>3. ASSUME Put PROVE OutInv' BY <1>3, OutFrame DEF Put
<1>4. ASSUME ReceiveFails PROVE OutInv' BY <1>4, OutFrame DEF ReceiveFails, StreamEnds
<1>5. ASSUME CloseReceive PROVE OutInv' BY <1>5, OutFrame DEF CloseReceive
<1>6. ASSUME TakeReceived PROVE OutInv' BY <1>6, OutFrame DEF TakeReceived
<1>7. ASSUME NEW i \in Stream, SenderTakes(i) PROVE OutInv' BY <1>7, OutTakes
<1>8. ASSUME NEW i \in Stream, SenderSends(i) PROVE OutInv' BY <1>8, OutSends
<1>9. ASSUME NEW i \in Stream, SenderEnds(i) PROVE OutInv' BY <1>9, OutFrame DEF SenderEnds
<1>10. ASSUME NEW i \in Stream, HandlerTakes(i) PROVE OutInv' BY <1>10, OutFrame DEF HandlerTakes
<1>11. ASSUME NEW i \in Stream, HandlerSends(i) PROVE OutInv' BY <1>11, OutFrame DEF HandlerSends
<1>12. ASSUME NEW i \in Stream, HandlerReturns(i) PROVE OutInv'
  BY <1>12, OutFrame DEF HandlerReturns
<1>13. ASSUME NEW i \in Stream, ServerReceives(i) PROVE OutInv' BY <1>13, OutReceived
<1>14. ASSUME NEW i \in Stream, Transfer(i) PROVE OutInv' BY <1>14, OutTransfer
<1>15. ASSUME NEW i \in Stream, ServerReceiveFails(i) PROVE OutInv'
  BY <1>15, OutFrame DEF ServerReceiveFails
<1>16. ASSUME NEW i \in Stream, NoticeBreak(i) PROVE OutInv' BY <1>16, OutFrame DEF NoticeBreak
<1>17. ASSUME SendFileToDevice PROVE OutInv' BY <1>17, OutOffered
<1>18. ASSUME FromDevice PROVE OutInv' BY <1>18, OutFrame DEF FromDevice
<1>19. ASSUME Cancel PROVE OutInv'
  <2>1. CASE n \in up
    <3>1. n \in Stream BY <2>1 DEF Lifecycle, TypeOK, LocalOK, Stream
    <3>2. Cut(n) BY <1>19, <2>1 DEF Cancel
    <3>3. \A j \in Stream : /\ Elements(toServer'[j]) \subseteq Elements(toServer[j])
                            /\ Increasing(toServer[j]) => Increasing(toServer'[j])
      BY <3>1, <3>2, CutFacts
    <3> QED BY <1>19, <3>3, OutBreaks DEF Cancel
  <2>2. CASE n \notin up BY <1>19, <2>2, OutBreaks DEF Cancel
  <2> QED BY <2>1, <2>2
<1>20. ASSUME NEW i \in Stream, Break(i) PROVE OutInv'
  <2>1. up' = {} BY <1>20 DEF Break, Lifecycle
  <2>2. \A j \in Stream : /\ Elements(toServer'[j]) \subseteq Elements(toServer[j])
                          /\ Increasing(toServer[j]) => Increasing(toServer'[j])
    BY <1>20, CutFacts DEF Break
  <2> QED BY <1>20, <2>1, <2>2, OutBreaks DEF Break
<1>21. ASSUME Restart PROVE OutInv'
  <2>1. \A j \in Stream : toServer'[j] = <<>> /\ ghold'[j] = 0 BY <1>21 DEF Restart
  <2> QED BY <1>21, <2>1, EmptyFacts, OutBreaks DEF Restart
<1>22. ASSUME StopTaking PROVE OutInv' BY <1>22, OutFrame DEF StopTaking
<1>23. ASSUME StartIsTaken PROVE OutInv' BY <1>23, OutFrame DEF StartIsTaken
<1>24. CASE UNCHANGED vars BY <1>24, OutFrame DEF vars
<1> QED BY StepCases, <1>1, <1>2, <1>3, <1>4, <1>5, <1>6, <1>7, <1>8, <1>9, <1>10, <1>11,
           <1>12, <1>13, <1>14, <1>15, <1>16, <1>17, <1>18, <1>19, <1>20, <1>21, <1>22,
           <1>23, <1>24

-----------------------------------------------------------------------------
(* Kanbans in: what a step does *)

(* What the variables range over. *)
LEMMA InTypes ==
  ASSUME BoundAssumption, TypeOK, Lifecycle
  PROVE  /\ In \subseteq Nat \ {0} /\ n \in Nat /\ arrived \in Nat
         /\ Stream \subseteq Nat \ {0} /\ up \subseteq Stream
         /\ cpc = "recv" => n \in Stream
         /\ \A k \in In : broughtBy[k] \in Nat
         /\ chold \in Nat /\ (chold # 0 => chold \in In)
         /\ \A i \in Stream : /\ hhold[i] \in Nat /\ (hhold[i] # 0 => hhold[i] \in In)
                              /\ Elements(toBroker[i]) \subseteq In
         /\ Elements(received) \subseteq In /\ Elements(recvCh) \subseteq In
         /\ inCh # <<>> => Head(inCh) \in In /\ Elements(inCh) = {Head(inCh)}
<1>1. /\ In \subseteq Nat \ {0} /\ n \in Nat /\ arrived \in Nat
      /\ Stream \subseteq Nat \ {0} /\ up \subseteq Stream
      /\ cpc = "recv" => n \in Stream
      /\ \A k \in In : broughtBy[k] \in Nat
      /\ chold \in Nat /\ (chold # 0 => chold \in In)
      /\ \A i \in Stream : hhold[i] \in Nat /\ (hhold[i] # 0 => hhold[i] \in In)
  BY DEF BoundAssumption, TypeOK, LocalOK, Lifecycle, In, Stream
<1>2. /\ \A i \in Stream : Elements(toBroker[i]) \subseteq In
      /\ Elements(received) \subseteq In
  BY ElementsType DEF TypeOK, WireOK
<1>3. /\ inCh # <<>> => Head(inCh) \in In /\ Elements(inCh) = {Head(inCh)}
      /\ recvCh # <<>> => Head(recvCh) \in In /\ Elements(recvCh) = {Head(recvCh)}
      /\ recvCh = <<>> => Elements(recvCh) = {}
  BY OneFacts, EmptyFacts DEF TypeOK, ChannelOK
<1> QED BY <1>1, <1>2, <1>3

(* What breaks when nothing is left up keeps the invariant. *)
LEMMA InBreaks ==
  ASSUME BoundAssumption, TypeOK, Lifecycle, InInv, up' = {},
         UNCHANGED <<n, cpc, chold, recvCh, arrived, broughtBy, received>>,
         \/ UNCHANGED <<inCh, crashLost>>
         \/ inCh' = <<>> /\ crashLost' = crashLost \cup Elements(inCh),
         \A i \in Stream : /\ hhold'[i] \in {0, hhold[i]}
                           /\ Elements(toBroker'[i]) \subseteq Elements(toBroker[i])
                           /\ Increasing(toBroker[i]) => Increasing(toBroker'[i])
  PROVE  InInv'
<1> USE InTypes DEF InInv
<1>1. InTaken' BY DEF InTaken
<1>2. InOwned' BY DEF InOwned
<1>3. InReached' BY DEF InReached, Reached
<1>4. InCarried' BY DEF InCarried
<1>5. InBrought' BY DEF InBrought
<1>6. InQueued' BY DEF InQueued, Reached
<1> QED BY <1>1, <1>2, <1>3, <1>4, <1>5, <1>6

(* A kanban comes from another device. *)
LEMMA InArrives ==
  ASSUME BoundAssumption, TypeOK, Lifecycle, InInv, FromDevice
  PROVE  InInv'
<1> USE InTypes DEF InInv, FromDevice
<1>1. InTaken'
  <2>1. /\ inCh = <<>> /\ Elements(inCh) = {} /\ inCh' # <<>> /\ Head(inCh') = arrived + 1
        /\ arrived' = arrived + 1
    BY EmptyFacts
  <2>2. Elements(inCh') = {arrived + 1} BY DEF Elements
  <2> QED BY <2>1, <2>2 DEF InTaken
<1>2. InOwned' BY DEF InOwned
<1>3. InReached' BY DEF InReached, Reached
<1>4. InCarried' BY DEF InCarried, Reached
<1>5. InBrought' BY DEF InBrought
<1>6. InQueued' BY DEF InQueued, Reached
<1> QED BY <1>1, <1>2, <1>3, <1>4, <1>5, <1>6

(* A new stream brings what has not been taken yet. *)
LEMMA InDial ==
  ASSUME BoundAssumption, TypeOK, Lifecycle, InInv, Dial
  PROVE  InInv'
<1> USE InTypes DEF InInv, Dial, OpenStream
<1>1. InTaken' BY DEF InTaken
<1>2. InOwned' BY DEF InOwned
<1>3. InReached' BY DEF InReached, Reached
<1>4. /\ up = {} /\ up' = {n + 1} /\ n' = n + 1 /\ n + 1 \in Stream
      /\ UNCHANGED <<toBroker, hhold, broughtBy, received, recvCh, chold>>
  <2>1. n + 1 \in Stream BY DEF Stream, BoundAssumption
  <2>2. up = {} BY DEF Lifecycle
  <2> QED BY <2>1, <2>2
<1>5. InCarried' BY <1>4 DEF InTaken, InCarried
<1>6. InBrought' BY DEF InBrought
<1>7. InQueued'
  <2>1. (\A k : k \notin Elements(toBroker[n + 1])) /\ hhold[n + 1] = 0
    <3>1. \A k \in In : broughtBy[k] # n + 1 BY DEF InTaken
    <3>2. hhold[n + 1] = 0
      <4>1. hhold[n + 1] # 0 => broughtBy[hhold[n + 1]] = n + 1 BY <1>4 DEF InOwned
      <4> QED BY <1>4, <3>1, <4>1
    <3>3. \A k \in Elements(toBroker[n + 1]) : k \in In /\ broughtBy[k] = n + 1
      BY <1>4 DEF InOwned
    <3>4. ASSUME NEW k \in Elements(toBroker[n + 1]) PROVE FALSE BY <3>1, <3>3
    <3> QED BY <3>2, <3>4
  <2>2. Increasing(toBroker[n + 1]) BY <2>1, NoElements
  <2> QED BY <1>4, <2>1, <2>2 DEF InQueued
<1> QED BY <1>1, <1>2, <1>3, <1>5, <1>6, <1>7

(* A handler takes the kanban that waits: it is later than all that are taken. *)
LEMMA InTakes ==
  ASSUME BoundAssumption, TypeOK, Lifecycle, InInv, NEW i \in Stream, HandlerTakes(i)
  PROVE  InInv'
<1> USE InTypes DEF InInv
<1>1. /\ inCh # <<>> /\ inCh' = <<>> /\ arrived \in In /\ Elements(inCh) = {arrived}
      /\ i <= n /\ hhold[i] = 0 /\ broughtBy[arrived] = 0
      /\ hhold' = [hhold EXCEPT ![i] = arrived]
      /\ broughtBy' = [broughtBy EXCEPT ![arrived] = i]
      /\ UNCHANGED <<n, up, cpc, chold, recvCh, toBroker, arrived, received, crashLost>>
  <2>1. Head(inCh) = arrived BY DEF HandlerTakes, InTaken
  <2>2. i <= n BY DEF HandlerTakes, Lifecycle
  <2> QED BY <2>1, <2>2 DEF HandlerTakes, InTaken
<1>2. /\ \A j \in Stream : hhold'[j] = IF j = i THEN arrived ELSE hhold[j]
      /\ \A k \in In : broughtBy'[k] = IF k = arrived THEN i ELSE broughtBy[k]
  BY <1>1 DEF TypeOK, LocalOK
<1>3. /\ \A j \in Stream : hhold[j] # arrived /\ arrived \notin Elements(toBroker[j])
      /\ ~Reached(arrived)
  BY <1>1 DEF InOwned, InReached
<1>4. \A k \in In : broughtBy[k] # 0 => k < arrived
  BY <1>1 DEF InTaken
<1>5. \A k \in In : Reached(k)' = Reached(k) BY <1>1 DEF Reached
<1>6. InTaken' BY <1>1, <1>2 DEF InTaken
<1>7. InOwned' BY <1>1, <1>2, <1>3 DEF InOwned
<1>8. InReached' BY <1>1, <1>2, <1>5 DEF InReached
<1>9. InCarried' BY <1>1, <1>2, <1>5 DEF InCarried
<1>10. InBrought' BY <1>1 DEF InBrought
<1>11. InQueued'
  <2>1. /\ \A k \in In : Reached(k) => k < arrived
        /\ \A j \in Stream : \A k \in Elements(toBroker[j]) : k < arrived
    BY <1>4 DEF InReached, InOwned
  <2> QED BY <1>1, <1>2, <1>5, <2>1 DEF InQueued
<1> QED BY <1>6, <1>7, <1>8, <1>9, <1>10, <1>11

(* A handler sends: to a stream that is up, or nowhere. *)
LEMMA InSends ==
  ASSUME BoundAssumption, TypeOK, Lifecycle, InInv, NEW i \in Stream, HandlerSends(i)
  PROVE  InInv'
<1> USE InTypes DEF InInv
<1>1. /\ hhold[i] \in In /\ hhold[i] # 0 /\ hhold' = [hhold EXCEPT ![i] = 0]
      /\ UNCHANGED <<n, up, cpc, chold, recvCh, inCh, arrived, broughtBy, received, crashLost>>
  BY DEF HandlerSends
<1>2. \A j \in Stream : hhold'[j] = IF j = i THEN 0 ELSE hhold[j]
  BY <1>1 DEF TypeOK, LocalOK
<1>3. /\ Elements(Append(toBroker[i], hhold[i])) = Elements(toBroker[i]) \cup {hhold[i]}
      /\ Increasing(toBroker[i]) /\ (\A x \in Elements(toBroker[i]) : x < hhold[i])
           => Increasing(Append(toBroker[i], hhold[i]))
  <2>1. In \in SUBSET Nat /\ toBroker[i] \in Seq(In) BY DEF TypeOK, WireOK
  <2> QED BY <1>1, <2>1, AppendFacts
<1>4. \A j \in Stream : toBroker'[j] = IF j = i /\ i \in up THEN Append(toBroker[i], hhold[i])
                                       ELSE toBroker[j]
  BY <1>1 DEF HandlerSends, Sent, TypeOK, WireOK
<1>5. \A k \in In : Reached(k)' = Reached(k) BY <1>1 DEF Reached
<1>6. InTaken' BY <1>1 DEF InTaken
<1>7. InOwned' BY <1>1, <1>2, <1>3, <1>4 DEF InOwned
<1>8. InReached' BY <1>1, <1>5 DEF InReached
<1>9. InCarried' BY <1>1, <1>2, <1>3, <1>4, <1>5 DEF InCarried
<1>10. InBrought' BY <1>1 DEF InBrought
<1>11. InQueued'
  <2>1. CASE i = n BY <1>1, <1>2, <1>3, <1>4, <1>5, <2>1 DEF InQueued
  <2>2. CASE i # n BY <1>1, <1>2, <1>4, <1>5, <2>2 DEF InQueued
  <2> QED BY <2>1, <2>2
<1> QED BY <1>6, <1>7, <1>8, <1>9, <1>10, <1>11

(* The broker receives the first kanban on its stream. *)
LEMMA InReceives ==
  ASSUME BoundAssumption, TypeOK, Lifecycle, InInv, Receive
  PROVE  InInv'
<1> USE InTypes DEF InInv
<1> DEFINE h == Head(toBroker[n])
<1>1. /\ cpc = "recv" /\ n \in Stream /\ chold = 0 /\ chold' = h /\ toBroker[n] # <<>>
      /\ toBroker' = [toBroker EXCEPT ![n] = Tail(toBroker[n])]
      /\ UNCHANGED <<n, up, cpc, recvCh, inCh, hhold, arrived, broughtBy, received, crashLost>>
  BY DEF Receive
<1>2. /\ h \in In /\ Elements(toBroker[n]) = {h} \cup Elements(Tail(toBroker[n]))
      /\ Increasing(Tail(toBroker[n])) /\ \A m \in Elements(Tail(toBroker[n])) : h < m
  <2>1. In \in SUBSET Nat /\ toBroker[n] \in Seq(In) BY <1>1 DEF TypeOK, WireOK
  <2>2. Increasing(toBroker[n]) BY <1>1 DEF InQueued
  <2> QED BY <1>1, <2>1, <2>2, TailFacts
<1>3. \A j \in Stream : toBroker'[j] = IF j = n THEN Tail(toBroker[n]) ELSE toBroker[j]
  BY <1>1 DEF TypeOK, WireOK
<1> HIDE DEF h
<1>4. \A k \in In : Reached(k)' <=> Reached(k) \/ k = h BY <1>1, <1>2 DEF Reached
<1>5. InTaken' BY <1>1 DEF InTaken
<1>6. InOwned' BY <1>1, <1>2, <1>3 DEF InOwned
<1>7. InReached' BY <1>1, <1>2, <1>4 DEF InReached, InOwned
<1>8. InCarried'
  <2>1. up \subseteq {n} BY DEF Lifecycle
  <2> QED BY <1>1, <1>2, <1>3, <1>4, <2>1 DEF InCarried
<1>9. InBrought'
  <2>1. \A k \in Elements(received) \cup Elements(recvCh) : k < h
    BY <1>1, <1>2 DEF InQueued, Reached
  <2> QED BY <1>1, <2>1 DEF InBrought
<1>10. InQueued' BY <1>1, <1>2, <1>3, <1>4 DEF InQueued
<1> QED BY <1>5, <1>6, <1>7, <1>8, <1>9, <1>10

(* It puts the kanban into its channel. *)
LEMMA InPuts ==
  ASSUME BoundAssumption, TypeOK, Lifecycle, InInv, Put
  PROVE  InInv'
<1> USE InTypes DEF InInv
<1>1. /\ chold # 0 /\ chold' = 0 /\ chold \in In
      /\ Elements(recvCh) = {} /\ Elements(recvCh') = {chold}
      /\ UNCHANGED <<n, up, cpc, toBroker, inCh, hhold, arrived, broughtBy, received, crashLost>>
  <2>1. \A e : Elements(<<e>>) = {e} BY DEF Elements
  <2> QED BY <2>1, EmptyFacts DEF Put
<1>2. \A k \in In : Reached(k)' = Reached(k) BY <1>1 DEF Reached
<1>3. InTaken' BY <1>1 DEF InTaken
<1>4. InOwned' BY <1>1 DEF InOwned
<1>5. InReached' BY <1>1, <1>2 DEF InReached
<1>6. InCarried' BY <1>1, <1>2 DEF InCarried
<1>7. InBrought' BY <1>1 DEF InBrought
<1>8. InQueued' BY <1>1, <1>2 DEF InQueued
<1> QED BY <1>3, <1>4, <1>5, <1>6, <1>7, <1>8

(* The kanban in the channel is taken: it is the latest. *)
LEMMA InTaking ==
  ASSUME BoundAssumption, TypeOK, Lifecycle, InInv, TakeReceived
  PROVE  InInv'
<1> USE InTypes DEF InInv
<1> DEFINE h == Head(recvCh)
<1>1. /\ h \in In /\ Elements(recvCh) = {h} /\ Elements(recvCh') = {}
      /\ received' = Append(received, h)
      /\ UNCHANGED <<n, up, cpc, chold, toBroker, inCh, hhold, arrived, broughtBy, crashLost>>
  BY OneFacts, EmptyFacts DEF TakeReceived, TypeOK, ChannelOK
<1>2. /\ Elements(received') = Elements(received) \cup {h}
      /\ Increasing(received) /\ (\A x \in Elements(received) : x < h) => Increasing(received')
  <2>1. In \in SUBSET Nat /\ received \in Seq(In) BY DEF TypeOK, WireOK
  <2>2. h \in In /\ received' = Append(received, h) BY <1>1
  <2> HIDE InTypes DEF h
  <2>3. /\ Elements(Append(received, h)) = Elements(received) \cup {h}
        /\ Increasing(received) /\ (\A x \in Elements(received) : x < h)
             => Increasing(Append(received, h))
    BY <2>1, <2>2, AppendFacts, Zenon
  <2> QED BY <2>2, <2>3
<1> HIDE DEF h
<1>3. \A k \in In : Reached(k)' = Reached(k) BY <1>1, <1>2 DEF Reached
<1>4. InTaken' BY <1>1 DEF InTaken
<1>5. InOwned' BY <1>1 DEF InOwned
<1>6. InReached' BY <1>1, <1>3 DEF InReached
<1>7. InCarried' BY <1>1, <1>3 DEF InCarried
<1>8. InBrought' BY <1>1, <1>2 DEF InBrought
<1>9. InQueued' BY <1>1, <1>3 DEF InQueued
<1> QED BY <1>4, <1>5, <1>6, <1>7, <1>8, <1>9

(* No other step touches these kanbans. *)
LEMMA InFrame ==
  ASSUME InInv, cpc' = cpc \/ (cpc' # "recv" /\ chold = 0),
         UNCHANGED <<n, up, chold, recvCh, toBroker, inCh, hhold, arrived, broughtBy, received,
                     crashLost>>
  PROVE  InInv'
BY DEF InInv, InTaken, InOwned, InReached, InCarried, InBrought, InQueued, Reached

(* No step breaks the invariant. *)
LEMMA InStep ==
  ASSUME BoundAssumption, TypeOK, Lifecycle, InInv, [Next]_vars
  PROVE  InInv'
<1>1. ASSUME Dial PROVE InInv' BY <1>1, InDial
<1>2. ASSUME Receive PROVE InInv' BY <1>2, InReceives
<1>3. ASSUME Put PROVE InInv' BY <1>3, InPuts
<1>4. ASSUME ReceiveFails PROVE InInv' BY <1>4, InFrame DEF ReceiveFails, StreamEnds
<1>5. ASSUME CloseReceive PROVE InInv'
  BY <1>5, InFrame DEF CloseReceive, InInv, InReached
<1>6. ASSUME TakeReceived PROVE InInv' BY <1>6, InTaking
<1>7. ASSUME NEW i \in Stream, SenderTakes(i) PROVE InInv' BY <1>7, InFrame DEF SenderTakes
<1>8. ASSUME NEW i \in Stream, SenderSends(i) PROVE InInv' BY <1>8, InFrame DEF SenderSends
<1>9. ASSUME NEW i \in Stream, SenderEnds(i) PROVE InInv' BY <1>9, InFrame DEF SenderEnds
<1>10. ASSUME NEW i \in Stream, HandlerTakes(i) PROVE InInv' BY <1>10, InTakes
<1>11. ASSUME NEW i \in Stream, HandlerSends(i) PROVE InInv' BY <1>11, InSends
<1>12. ASSUME NEW i \in Stream, HandlerReturns(i) PROVE InInv'
  BY <1>12, InFrame DEF HandlerReturns
<1>13. ASSUME NEW i \in Stream, ServerReceives(i) PROVE InInv'
  BY <1>13, InFrame DEF ServerReceives
<1>14. ASSUME NEW i \in Stream, Transfer(i) PROVE InInv' BY <1>14, InFrame DEF Transfer
<1>15. ASSUME NEW i \in Stream, ServerReceiveFails(i) PROVE InInv'
  BY <1>15, InFrame DEF ServerReceiveFails
<1>16. ASSUME NEW i \in Stream, NoticeBreak(i) PROVE InInv' BY <1>16, InFrame DEF NoticeBreak
<1>17. ASSUME SendFileToDevice PROVE InInv' BY <1>17, InFrame DEF SendFileToDevice
<1>18. ASSUME FromDevice PROVE InInv' BY <1>18, InArrives
<1>19. ASSUME Cancel PROVE InInv'
  <2>1. CASE n \in up
    <3>1. n \in Stream BY <2>1 DEF Lifecycle, TypeOK, LocalOK, Stream
    <3>2. Cut(n) BY <1>19, <2>1 DEF Cancel
    <3>3. \A j \in Stream : /\ Elements(toBroker'[j]) \subseteq Elements(toBroker[j])
                            /\ Increasing(toBroker[j]) => Increasing(toBroker'[j])
      BY <3>1, <3>2, CutFacts
    <3> QED BY <1>19, <3>3, InBreaks DEF Cancel
  <2>2. CASE n \notin up BY <1>19, <2>2, InBreaks DEF Cancel
  <2> QED BY <2>1, <2>2
<1>20. ASSUME NEW i \in Stream, Break(i) PROVE InInv'
  <2>1. up' = {} BY <1>20 DEF Break, Lifecycle
  <2>2. \A j \in Stream : /\ Elements(toBroker'[j]) \subseteq Elements(toBroker[j])
                          /\ Increasing(toBroker[j]) => Increasing(toBroker'[j])
    BY <1>20, CutFacts DEF Break
  <2> QED BY <1>20, <2>1, <2>2, InBreaks DEF Break
<1>21. ASSUME Restart PROVE InInv'
  <2>1. n \in Stream BY <1>21 DEF Restart, TypeOK, LocalOK, Stream
  <2>2. PICK k \in 0..Len(toBroker[n]) :
          toBroker' = [toBroker EXCEPT ![n] = SubSeq(toBroker[n], 1, k)]
    BY <1>21 DEF Restart
  <2>3. /\ Elements(SubSeq(toBroker[n], 1, k)) \subseteq Elements(toBroker[n])
        /\ Increasing(toBroker[n]) => Increasing(SubSeq(toBroker[n], 1, k))
    <3>1. In \in SUBSET Nat BY DEF In
    <3> QED BY <2>1, <2>2, <3>1, PrefixFacts DEF TypeOK, WireOK
  <2>4. \A j \in Stream : /\ Elements(toBroker'[j]) \subseteq Elements(toBroker[j])
                          /\ Increasing(toBroker[j]) => Increasing(toBroker'[j])
    BY <2>2, <2>3 DEF TypeOK, WireOK
  <2>5. \A j \in Stream : hhold'[j] = 0 BY <1>21 DEF Restart
  <2> QED BY <1>21, <2>4, <2>5, InBreaks DEF Restart
<1>22. ASSUME StopTaking PROVE InInv' BY <1>22, InFrame DEF StopTaking
<1>23. ASSUME StartIsTaken PROVE InInv' BY <1>23, InFrame DEF StartIsTaken
<1>24. CASE UNCHANGED vars BY <1>24, InFrame DEF vars
<1> QED BY StepCases, <1>1, <1>2, <1>3, <1>4, <1>5, <1>6, <1>7, <1>8, <1>9, <1>10, <1>11,
           <1>12, <1>13, <1>14, <1>15, <1>16, <1>17, <1>18, <1>19, <1>20, <1>21, <1>22,
           <1>23, <1>24

-----------------------------------------------------------------------------
(* The theorems *)

(* Nothing is on its way when the two programs start. *)
LEMMA InitIInv == BoundAssumption /\ Init => IInv
<1> SUFFICES ASSUME BoundAssumption, Init PROVE IInv
  OBVIOUS
<1>1. TypeOK
  BY EmptyFacts DEF Init, TypeOK, LocalOK, ChannelOK, WireOK, One, BoundAssumption
<1>2. Lifecycle BY DEF Init, Lifecycle
<1>3. OutInv
  BY EmptyFacts DEF Init, OutInv, OutTaken, OutOwned, OutCarried, OutQueued, OutWired, OnWire,
     OutOrder, Out
<1>4. InInv
  BY EmptyFacts DEF Init, InInv, InTaken, InOwned, InReached, InCarried, InBrought, InQueued,
     Reached, In
<1> QED BY <1>1, <1>2, <1>3, <1>4 DEF IInv

(* The inductive invariant. *)
THEOREM Invariance == Spec => []IInv
<1>1. BoundAssumption /\ IInv /\ [Next]_vars => IInv'
  <2> SUFFICES ASSUME BoundAssumption, IInv, [Next]_vars PROVE IInv'
    OBVIOUS
  <2>1. TypeOK' BY LocalStep, ChannelStep, WireStep DEF IInv, TypeOK
  <2>2. Lifecycle' BY LifeStep DEF IInv
  <2>3. OutInv' BY OutStep DEF IInv
  <2>4. InInv' BY InStep DEF IInv
  <2> QED BY <2>1, <2>2, <2>3, <2>4 DEF IInv
<1> QED BY <1>1, InitIInv, BoundAssumption, PTL DEF Spec

(* Every variable keeps its type. *)
THEOREM TypeCorrect == Spec => []TypeOK
<1>1. IInv => TypeOK BY DEF IInv
<1> QED BY <1>1, Invariance, PTL

(* A kanban that is neither at one of the two programs nor on a stream was     *)
(* taken for a stream that has broken, or waited at send-anything when that    *)
(* ended: the broker's channels lose nothing.                                  *)
THEOREM LostOnlyWithTheStream == Spec => []LostOnlyWithStream
<1>1. ASSUME BoundAssumption, IInv PROVE LostOnlyWithStream
  <2> USE <1>1, OutTypes, InTypes DEF IInv
  <2>1. ASSUME NEW k \in 1..offered PROVE OutSomewhere(k) \/ Broken(takenBy[k])
    <3>1. k \in Out BY DEF Out, TypeOK, LocalOK, BoundAssumption
    <3>2. CASE takenBy[k] = 0
      <4>1. sendCh # <<>> /\ Head(sendCh) = k
        BY <2>1, <3>1, <3>2 DEF OutInv, OutTaken
      <4>2. k \in Elements(sendCh) BY <4>1, OneFacts DEF TypeOK, ChannelOK
      <4> QED BY <4>2 DEF OutSomewhere
    <3>3. CASE takenBy[k] \in up
      BY <3>1, <3>3 DEF OutInv, OutCarried, OutSomewhere
    <3>4. CASE takenBy[k] # 0 /\ takenBy[k] \notin up
      BY <3>1, <3>4 DEF OutInv, OutTaken, Broken
    <3> QED BY <3>2, <3>3, <3>4
  <2>2. ASSUME NEW k \in 1..arrived
        PROVE  InSomewhere(k) \/ k \in crashLost \/ Broken(broughtBy[k])
    <3>1. k \in In BY DEF In, TypeOK, LocalOK, BoundAssumption
    <3>2. CASE broughtBy[k] = 0
      BY <2>2, <3>1, <3>2 DEF InInv, InTaken, InSomewhere
    <3>3. CASE broughtBy[k] \in up
      BY <3>1, <3>3 DEF InInv, InCarried, Reached, InSomewhere
    <3>4. CASE broughtBy[k] # 0 /\ broughtBy[k] \notin up
      BY <3>1, <3>4 DEF InInv, InTaken, Broken
    <3> QED BY <3>2, <3>3, <3>4
  <2> QED BY <2>1, <2>2 DEF LostOnlyWithStream
<1> QED BY <1>1, Invariance, BoundAssumption, PTL

(* No kanban is brought twice, and none overtakes another one, but for a       *)
(* transfer that hangs at a stream that has broken.                            *)
THEOREM BroughtInOrder == Spec => []InOrder
<1>1. IInv => InOrder
  BY DEF IInv, OutInv, OutOrder, InInv, InBrought, Increasing, InOrder
<1> QED BY <1>1, Invariance, PTL

=============================================================================
