---------------------------- MODULE MsClientProofs ----------------------------
(***************************************************************************)
(* The microservice and its client library at the end of a stream, for any *)
(* number of clients, any capacity of recvKanbanCh, any number of kanbans  *)
(* and of repeated calls: the client lives with the kanban server without  *)
(* disturbing it, what it takes is in order and complete, and what it is   *)
(* told of its calls is true.                                              *)
(***************************************************************************)
EXTENDS MsClient, KanbanStreamProofs, FiniteSetTheorems

-----------------------------------------------------------------------------
(* The inductive invariant *)

\* The types of the client's variables.
ClientTypes ==
  /\ phase \in [Session -> {"none", "open", "closing", "closed", "dead"}]
  /\ wire \in [Session -> Seq(ID)] /\ queue \in [Session -> Seq(ID)]
  /\ taken \in [Session -> Seq(ID)]
  /\ ended \in [Session -> BOOLEAN]
  /\ cur \in [Session -> 0..MaxID]
  /\ call \in [Session -> Call \cup {NoCall}]
  /\ pending \subseteq Call /\ written \subseteq Call
  /\ acked \subseteq Call /\ failed \subseteq Call /\ IsFiniteSet(failed)

\* A client that has not called is not served, and has received nothing.
Served ==
  \A s \in Session :
    /\ phase[s] = "none" <=> hpc[s] = "none"
    /\ hpc[s] = "none" => /\ link[s] = "none" /\ call[s] = NoCall
                          /\ wire[s] = <<>> /\ queue[s] = <<>> /\ taken[s] = <<>>

Elements(seq) == {seq[i] : i \in DOMAIN seq}
Increasing(seq) == \A i, j \in DOMAIN seq : i < j => seq[i] < seq[j]

\* What a session has sent (S), and of it what the microservice has taken (t),
\* what waits in the channel (q) and what is on its way (w): all in order, the
\* older ones further on.  What was sent and is in none of them is later than
\* all that is, and while the connection is up there is no such kanban.
InLine(S, t, q, w, up) ==
  LET received == Elements(t) \cup Elements(q) \cup Elements(w) IN
  /\ received \subseteq S
  /\ Increasing(t) /\ Increasing(q) /\ Increasing(w)
  /\ \A i \in Elements(t), j \in Elements(q) : i < j
  /\ \A i \in Elements(t) \cup Elements(q), j \in Elements(w) : i < j
  /\ up => S \subseteq received
  /\ \A i \in received, j \in S \ received : i < j

NoGap == \A s \in Session : InLine(sent[s], taken[s], queue[s], wire[s], link[s] = "up")

Issued == (pending \cup written \cup acked \cup failed \cup {call[s] : s \in Session}) \ {NoCall}

\* A call is for a kanban that was taken, or the terminate kanban.
CallsMade ==
  \A c \in Issued : IF c[2] = 0 THEN c[3] = 1 /\ phase[c[1]] \notin {"none", "open"}
                                ELSE c[2] \in TakenIDs(c[1])

\* The kanban at hand is a taken one; its calls, but for the one under way, are
\* those that have failed, counted from 1.
AtHand ==
  \A s \in Session :
    /\ cur[s] # 0 =>
         /\ ~static /\ phase[s] = "open" /\ cur[s] \in TakenIDs(s)
         /\ \A c \in Issued : c[1] = s /\ c[2] = cur[s] =>
              (c \in failed /\ c[3] <= Tries(s)) \/ c = call[s]
    /\ call[s] # NoCall =>
         \/ phase[s] = "closing" /\ call[s] = Terminate(s)
         \/ cur[s] # 0 /\ call[s] = <<s, cur[s], Tries(s) + 1>>
    /\ call[s] \notin acked \cup failed

\* Only the last call for a kanban can have done without an error.
OthersFailed ==
  \A c, d \in Issued : c[1] = d[1] /\ c[2] = d[2] /\ c[3] < d[3] => c \in failed

\* A call that is still to be carried out has failed, is under way, or was
\* made by a process that is gone; what has returned nil is carried out.
Undone ==
  /\ pending \cap written = {}
  /\ acked \subseteq written
  /\ \A c \in pending : c \in failed \/ c = call[c[1]] \/ phase[c[1]] = "dead"

CallInv == CallsMade /\ AtHand /\ OthersFailed /\ Undone

ClientInv == ClientTypes /\ Served /\ NoGap /\ CallInv
-----------------------------------------------------------------------------
(* Sequences of kanbans *)

\* Appending adds the element, and keeps the order if it is the greatest.
LEMMA AppendFacts ==
  ASSUME NEW S \in SUBSET Nat, NEW s \in Seq(S), NEW e \in S
  PROVE  /\ Append(s, e) \in Seq(S)
         /\ Elements(Append(s, e)) = Elements(s) \cup {e}
         /\ Increasing(s) /\ (\A x \in Elements(s) : x < e) => Increasing(Append(s, e))
<1>1. /\ Append(s, e) \in Seq(S) /\ Len(Append(s, e)) = Len(s) + 1
      /\ \A j \in 1..Len(s) : Append(s, e)[j] = s[j]
      /\ Append(s, e)[Len(s) + 1] = e
  OBVIOUS
<1>2. DOMAIN s = 1..Len(s) /\ DOMAIN Append(s, e) = 1..(Len(s) + 1) /\ Len(s) \in Nat
  BY <1>1
<1>3. Elements(Append(s, e)) = Elements(s) \cup {e}
  BY <1>1, <1>2 DEF Elements
<1>4. ASSUME Increasing(s), \A x \in Elements(s) : x < e
      PROVE  Increasing(Append(s, e))
  BY <1>1, <1>2, <1>4 DEF Increasing, Elements
<1> QED BY <1>1, <1>3, <1>4

\* The head is taken away; in an increasing sequence it was the least.
LEMMA TailFacts ==
  ASSUME NEW S \in SUBSET Nat, NEW s \in Seq(S), s # <<>>
  PROVE  /\ Head(s) \in S /\ Tail(s) \in Seq(S)
         /\ Elements(s) = {Head(s)} \cup Elements(Tail(s))
         /\ Increasing(s) => Increasing(Tail(s)) /\ \A x \in Elements(Tail(s)) : Head(s) < x
<1>1. /\ Len(s) \in Nat \ {0} /\ DOMAIN s = 1..Len(s) /\ Head(s) = s[1] /\ Head(s) \in S
      /\ Tail(s) \in Seq(S) /\ Len(Tail(s)) = Len(s) - 1
      /\ \A j \in 1..(Len(s) - 1) : Tail(s)[j] = s[j + 1]
  OBVIOUS
<1>2. DOMAIN Tail(s) = 1..(Len(s) - 1)
  BY <1>1
<1>3. Elements(s) = {Head(s)} \cup Elements(Tail(s))
  <2>1. ASSUME NEW j \in 1..Len(s) PROVE s[j] \in {Head(s)} \cup Elements(Tail(s))
    <3>1. CASE j = 1 BY <3>1, <1>1
    <3>2. CASE j # 1
      <4>1. j - 1 \in 1..(Len(s) - 1) /\ s[j] = Tail(s)[j - 1] BY <3>2, <1>1
      <4> QED BY <4>1, <1>2 DEF Elements
    <3> QED BY <3>1, <3>2
  <2>2. ASSUME NEW j \in 1..(Len(s) - 1) PROVE Tail(s)[j] \in Elements(s)
    BY <1>1 DEF Elements
  <2> QED BY <2>1, <2>2, <1>1, <1>2 DEF Elements
<1>4. ASSUME Increasing(s)
      PROVE  Increasing(Tail(s)) /\ \A x \in Elements(Tail(s)) : Head(s) < x
  BY <1>1, <1>2, <1>4 DEF Increasing, Elements
<1> QED BY <1>1, <1>3, <1>4

\* What is left of a connection that breaks; what it has lost was behind.
LEMMA PrefixFacts ==
  ASSUME NEW S \in SUBSET Nat, NEW s \in Seq(S), NEW k \in 0..Len(s)
  PROVE  /\ SubSeq(s, 1, k) \in Seq(S)
         /\ Elements(SubSeq(s, 1, k)) \subseteq Elements(s)
         /\ Increasing(s) =>
              /\ Increasing(SubSeq(s, 1, k))
              /\ \A x \in Elements(SubSeq(s, 1, k)),
                    y \in Elements(s) \ Elements(SubSeq(s, 1, k)) : x < y
<1> DEFINE p == SubSeq(s, 1, k)
<1>1. /\ p \in Seq(S) /\ Len(p) = k
      /\ \A j \in 1..k : p[j] = s[j]
  OBVIOUS
<1>2. DOMAIN s = 1..Len(s) /\ DOMAIN p = 1..k /\ Len(s) \in Nat /\ k \in Nat /\ k <= Len(s)
  BY <1>1
<1> HIDE DEF p
<1>3. Elements(p) \subseteq Elements(s) /\ (Increasing(s) => Increasing(p))
  BY <1>1, <1>2 DEF Elements, Increasing
<1>4. ASSUME Increasing(s), NEW a \in 1..k, NEW b \in 1..Len(s), s[b] \notin Elements(p)
      PROVE  s[a] < s[b]
  <2>1. ~(b <= k)
    <3> SUFFICES ASSUME b <= k PROVE FALSE
      OBVIOUS
    <3>1. b \in 1..k
      BY <1>2
    <3>2. p[b] = s[b] /\ b \in DOMAIN p
      BY <3>1, <1>1, <1>2
    <3> QED BY <3>2, <1>4 DEF Elements
  <2> QED BY <2>1, <1>2, <1>4 DEF Increasing
<1>5. Increasing(s) => \A x \in Elements(p), y \in Elements(s) \ Elements(p) : x < y
  <2> SUFFICES ASSUME Increasing(s), NEW x \in Elements(p), NEW y \in Elements(s) \ Elements(p)
               PROVE  x < y
    OBVIOUS
  <2>1. PICK a \in 1..k : x = s[a]
    BY <1>1, <1>2 DEF Elements
  <2>2. PICK b \in 1..Len(s) : y = s[b]
    BY <1>2 DEF Elements
  <2> QED BY <2>1, <2>2, <1>4
<1> QED BY <1>1, <1>3, <1>5 DEF p

\* The empty sequence.
LEMMA EmptyFacts == Elements(<<>>) = {} /\ Increasing(<<>>)
BY DEF Elements, Increasing

\* What a sequence can become.
LEMMA SeqTypes ==
  ASSUME NEW S
  PROVE  /\ <<>> \in Seq(S)
         /\ \A s \in Seq(S), e \in S : Append(s, e) \in Seq(S)
         /\ \A s \in Seq(S) : s # <<>> => Head(s) \in S /\ Tail(s) \in Seq(S)
         /\ \A s \in Seq(S) : \A k \in 0..Len(s) : SubSeq(s, 1, k) \in Seq(S)
<1>1. ASSUME NEW s \in Seq(S), NEW k \in 0..Len(s) PROVE SubSeq(s, 1, k) \in Seq(S)
  OBVIOUS
<1> QED BY <1>1

-----------------------------------------------------------------------------
(* The line of kanbans from the handler to the microservice *)

\* Nothing has been sent.
LEMMA EmptyLine == ASSUME NEW up \in BOOLEAN PROVE InLine({}, <<>>, <<>>, <<>>, up)
BY EmptyFacts DEF InLine

\* A broken connection asks for less.
LEMMA LineDown ==
  ASSUME NEW S, NEW t, NEW q, NEW w, NEW up \in BOOLEAN, NEW down \in BOOLEAN,
         InLine(S, t, q, w, up), down => up
  PROVE  InLine(S, t, q, w, down)
BY DEF InLine

\* The handler sends a kanban later than all before, over the connection or
\* into the void.
LEMMA LineDelivers ==
  ASSUME NEW S \in SUBSET ID, NEW t \in Seq(ID), NEW q \in Seq(ID), NEW w \in Seq(ID),
         NEW up \in BOOLEAN, NEW k \in ID, \A j \in S : j < k,
         InLine(S, t, q, w, up)
  PROVE  /\ up => InLine(S \cup {k}, t, q, Append(w, k), up)
         /\ ~up => InLine(S \cup {k}, t, q, w, up)
<1>1. ID \in SUBSET Nat /\ k \notin S
  BY MaxIDAssumption DEF ID
<1>2. Increasing(w) /\ (\A x \in Elements(w) : x < k) /\ Elements(w) \subseteq S
  BY DEF InLine
<1>3. Elements(Append(w, k)) = Elements(w) \cup {k} /\ Increasing(Append(w, k))
  BY <1>1, <1>2, AppendFacts
<1> DEFINE v == Append(w, k)
<1> HIDE DEF v
<1>4. ASSUME up PROVE InLine(S \cup {k}, t, q, v, up)
  <2>1. /\ Elements(v) = Elements(w) \cup {k} /\ Increasing(v)
    BY <1>3 DEF v
  <2> DEFINE R == Elements(t) \cup Elements(q) \cup Elements(w)
  <2>2. R \subseteq S /\ Increasing(t) /\ Increasing(q)
    BY DEF InLine
  <2>3. Elements(t) \cup Elements(q) \cup Elements(v) = R \cup {k}
    BY <2>1
  <2>4. \A i \in Elements(t) \cup Elements(q), j \in Elements(v) : i < j
    BY <2>1, <2>2 DEF InLine
  <2>5. \A i \in R \cup {k}, j \in (S \cup {k}) \ (R \cup {k}) : i < j
    BY <1>4 DEF InLine
  <2>6. up => S \cup {k} \subseteq R \cup {k}
    BY DEF InLine
  <2>7. \A i \in Elements(t), j \in Elements(q) : i < j
    BY DEF InLine
  <2> HIDE DEF R
  <2> QED BY <2>1, <2>2, <2>3, <2>4, <2>5, <2>6, <2>7 DEF InLine
<1>5. ~up => InLine(S \cup {k}, t, q, w, up)
  BY <1>1, <1>2 DEF InLine
<1> QED BY <1>4, <1>5 DEF v

\* The receiving goroutine puts the next kanban into the channel.
LEMMA LineReceives ==
  ASSUME NEW S \in SUBSET ID, NEW t \in Seq(ID), NEW q \in Seq(ID), NEW w \in Seq(ID),
         NEW up \in BOOLEAN, w # <<>>,
         InLine(S, t, q, w, up)
  PROVE  InLine(S, t, Append(q, Head(w)), Tail(w), up)
<1>1. ID \in SUBSET Nat
  BY MaxIDAssumption DEF ID
<1>2. /\ Head(w) \in ID /\ Tail(w) \in Seq(ID)
      /\ Elements(w) = {Head(w)} \cup Elements(Tail(w))
      /\ Increasing(Tail(w)) /\ \A x \in Elements(Tail(w)) : Head(w) < x
  BY <1>1, TailFacts DEF InLine
<1>3. /\ Elements(Append(q, Head(w))) = Elements(q) \cup {Head(w)}
      /\ Increasing(Append(q, Head(w)))
  <2>1. Increasing(q) /\ \A x \in Elements(q) : x < Head(w)
    BY <1>2 DEF InLine
  <2> QED BY <2>1, <1>1, <1>2, AppendFacts
<1> QED BY <1>2, <1>3 DEF InLine

\* The microservice takes the next kanban from the channel.
LEMMA LineTakes ==
  ASSUME NEW S \in SUBSET ID, NEW t \in Seq(ID), NEW q \in Seq(ID), NEW w \in Seq(ID),
         NEW up \in BOOLEAN, q # <<>>,
         InLine(S, t, q, w, up)
  PROVE  InLine(S, Append(t, Head(q)), Tail(q), w, up)
<1>1. ID \in SUBSET Nat
  BY MaxIDAssumption DEF ID
<1>2. /\ Head(q) \in ID /\ Tail(q) \in Seq(ID)
      /\ Elements(q) = {Head(q)} \cup Elements(Tail(q))
      /\ Increasing(Tail(q)) /\ \A x \in Elements(Tail(q)) : Head(q) < x
  BY <1>1, TailFacts DEF InLine
<1>3. /\ Elements(Append(t, Head(q))) = Elements(t) \cup {Head(q)}
      /\ Increasing(Append(t, Head(q)))
  <2>1. Increasing(t) /\ \A x \in Elements(t) : x < Head(q)
    BY <1>2 DEF InLine
  <2> QED BY <2>1, <1>1, <1>2, AppendFacts
<1> QED BY <1>2, <1>3 DEF InLine

\* The connection breaks: the end of what is on its way is lost.
LEMMA LineBreaks ==
  ASSUME NEW S \in SUBSET ID, NEW t \in Seq(ID), NEW q \in Seq(ID), NEW w \in Seq(ID),
         NEW up \in BOOLEAN, NEW n \in 0..Len(w),
         InLine(S, t, q, w, up)
  PROVE  InLine(S, t, q, SubSeq(w, 1, n), FALSE)
<1> DEFINE v == SubSeq(w, 1, n)
<1>1. ID \in SUBSET Nat
  BY MaxIDAssumption DEF ID
<1>2. Increasing(w)
  BY DEF InLine
<1>3. /\ Elements(v) \subseteq Elements(w) /\ Increasing(v)
      /\ \A i \in Elements(v), j \in Elements(w) \ Elements(v) : i < j
  BY <1>1, <1>2, PrefixFacts
<1> HIDE DEF v
<1>4. InLine(S, t, q, v, FALSE)
  BY <1>3 DEF InLine
<1> QED BY <1>4 DEF v

\* The process ends: what it has not taken is lost.
LEMMA LineDrops ==
  ASSUME NEW S \in SUBSET ID, NEW t \in Seq(ID), NEW q \in Seq(ID), NEW w \in Seq(ID),
         NEW up \in BOOLEAN,
         InLine(S, t, q, w, up)
  PROVE  InLine(S, t, <<>>, <<>>, FALSE)
BY EmptyFacts DEF InLine
-----------------------------------------------------------------------------
(* The client and the kanban server *)

USE DEF recvVars, appVars, callVars, clientVars, allVars,
        redisVars, watcherVars, handlerVars, historyVars

\* Every step is one of these.
LEMMA ClientSteps ==
  ASSUME [ClientNext]_allVars
  PROVE  \/ ServerStep \/ ServerGoes
         \/ \E s \in Session :
              \/ Deliver(s) \/ ConnectionBreaks(s) \/ NewKanbanClient(s)
              \/ Recv(s) \/ RecvFails(s) \/ GetOneKanban(s) \/ OutputKanban(s) \/ GiveUp(s)
              \/ ReturnOK(s) \/ ReturnError(s) \/ DeleteTaken(s)
              \/ Close(s) \/ CloseConns(s) \/ Crash(s)
         \/ \E c \in pending : SendKanban(c) \/ LoseCall(c)
         \/ UNCHANGED allVars
BY DEF ClientNext, Receiver, Microservice, Return

\* A step of the client, with the server, is a step that the server can take
\* with any client, or none of the server's.
LEMMA ClientStepOfStream ==
  ASSUME TypeOK, [ClientNext]_allVars
  PROVE  [Next]_vars
<1>1. ASSUME ServerStep PROVE Next
  BY <1>1 DEF ServerStep, Next, Handler
<1>2. ASSUME ServerGoes PROVE Next
  BY <1>2 DEF ServerGoes, Next
<1>3. ASSUME NEW s \in Session,
             \/ Deliver(s) \/ ConnectionBreaks(s) \/ NewKanbanClient(s)
             \/ CloseConns(s) \/ Crash(s)
      PROVE  Next \/ UNCHANGED vars
  BY <1>3 DEF Deliver, ConnectionBreaks, NewKanbanClient, CloseConns, HangUp, Crash, Next, Handler
<1>4. ASSUME NEW s \in Session, DeleteTaken(s) PROVE Next
  BY <1>4 DEF DeleteTaken, DeleteStaticKanban, Next, TypeOK
<1>5. ASSUME NEW s \in Session,
             \/ Recv(s) \/ RecvFails(s) \/ GetOneKanban(s) \/ OutputKanban(s) \/ GiveUp(s)
             \/ ReturnOK(s) \/ ReturnError(s) \/ Close(s)
      PROVE  UNCHANGED vars
  BY <1>5 DEF Recv, RecvFails, GetOneKanban, OutputKanban, GiveUp, ReturnOK, ReturnError, Close
<1>6. ASSUME NEW c \in pending, SendKanban(c) \/ LoseCall(c) PROVE UNCHANGED vars
  BY <1>6 DEF SendKanban, LoseCall
<1>7. ASSUME UNCHANGED allVars PROVE UNCHANGED vars
  BY <1>7
<1> QED BY <1>1, <1>2, <1>3, <1>4, <1>5, <1>6, <1>7, ClientSteps

\* The invariant of the stream holds beside any client.
LEMMA StreamInvHolds == ClientSpec => []IInv
<1>1. ClientInit => IInv
  BY InitIInv DEF ClientInit
<1>2. IInv /\ [ClientNext]_allVars => IInv'
  BY ClientStepOfStream, NextIInv DEF IInv
<1> QED BY <1>1, <1>2, PTL DEF ClientSpec

-----------------------------------------------------------------------------
(* Types and lives *)

\* No call is taken for the absence of one.
LEMMA NoCallFacts == NoCall \notin Call
BY DEF NoCall, Call

\* The calls that a client makes are calls.
LEMMA CallFacts ==
  ASSUME NEW s \in Session
  PROVE  /\ Terminate(s) \in Call
         /\ \A id \in 0..MaxID, n \in 1..(MaxTry + 1) : <<s, id, n>> \in Call
BY MaxIDAssumption, ClientAssumption DEF Terminate, Call

\* The number of failed calls for the kanban at hand.
LEMMA TriesFacts ==
  ASSUME IsFiniteSet(failed), NEW s
  PROVE  Tries(s) \in Nat
<1>1. IsFiniteSet({c \in failed : c[1] = s /\ c[2] = cur[s]})
  BY FS_Subset
<1> QED BY <1>1, FS_CardinalityType DEF Tries

\* What the handler sends is a kanban later than all it has sent.
LEMMA SendFacts ==
  ASSUME IInv, NEW s \in Session, hpc[s] = "send"
  PROVE  res[s] \in ID /\ \A j \in sent[s] : j < res[s]
<1>1. res[s] \in 0..MaxID /\ sent[s] \subseteq ID
  BY DEF IInv, TypeOK
<1>2. res[s] > 0 /\ res[s] \notin sent[s] /\ \A j \in sent[s] : j <= res[s]
  BY DEF IInv, IDsInOrder
<1> QED BY <1>1, <1>2, MaxIDAssumption DEF ID

\* The types of the client.
LEMMA TypesStep ==
  ASSUME IInv, ClientTypes, [ClientNext]_allVars
  PROVE  ClientTypes'
<1> USE DEF ClientTypes
<1>1. ASSUME ServerStep PROVE ClientTypes'
  BY <1>1 DEF ServerStep
<1>2. ASSUME ServerGoes PROVE ClientTypes'
  <2>1. \A s \in Session : wire'[s] \in Seq(ID)
    <3> TAKE s \in Session
    <3>1. PICK r \in Session : \E n \in 0..Len(wire[r]) : wire'[s] = SubSeq(wire[r], 1, n)
      BY <1>2 DEF ServerGoes
    <3>2. wire[r] \in Seq(ID)
      OBVIOUS
    <3> QED BY <3>1, <3>2, SeqTypes
  <2>2. wire' \in [Session -> Seq(ID)]
    BY <1>2, <2>1 DEF ServerGoes
  <2> QED BY <1>2, <2>2 DEF ServerGoes
<1>3. ASSUME NEW s \in Session, Deliver(s) PROVE ClientTypes'
  <2>1. res[s] \in ID
    BY <1>3, SendFacts DEF Deliver, SendOK
  <2>2. Append(wire[s], res[s]) \in Seq(ID)
    BY <2>1, SeqTypes
  <2> QED BY <1>3, <2>2 DEF Deliver
<1>4. ASSUME NEW s \in Session, Breaks(s) PROVE wire' \in [Session -> Seq(ID)]
  <2>1. PICK n \in 0..Len(wire[s]) : wire' = [wire EXCEPT ![s] = SubSeq(wire[s], 1, n)]
    BY <1>4 DEF Breaks
  <2>2. SubSeq(wire[s], 1, n) \in Seq(ID)
    BY SeqTypes
  <2> QED BY <2>1, <2>2
<1>5. ASSUME NEW s \in Session, ConnectionBreaks(s) PROVE ClientTypes'
  BY <1>4, <1>5 DEF ConnectionBreaks
<1>6. ASSUME NEW s \in Session, NewKanbanClient(s) PROVE ClientTypes'
  BY <1>6 DEF NewKanbanClient
<1>7. ASSUME NEW s \in Session, Recv(s) PROVE ClientTypes'
  <2>1. Tail(wire[s]) \in Seq(ID) /\ Append(queue[s], Head(wire[s])) \in Seq(ID)
    BY <1>7, SeqTypes DEF Recv
  <2> QED BY <1>7, <2>1 DEF Recv
<1>8. ASSUME NEW s \in Session, RecvFails(s) PROVE ClientTypes'
  BY <1>8 DEF RecvFails
<1>9. ASSUME NEW s \in Session, GetOneKanban(s) PROVE ClientTypes'
  <2>1. Head(queue[s]) \in ID /\ Tail(queue[s]) \in Seq(ID)
        /\ Append(taken[s], Head(queue[s])) \in Seq(ID)
    BY <1>9, SeqTypes DEF GetOneKanban
  <2>2. Head(queue[s]) \in 0..MaxID /\ 0 \in 0..MaxID
    BY <2>1, MaxIDAssumption DEF ID
  <2> QED BY <1>9, <2>1, <2>2 DEF GetOneKanban
<1>10. ASSUME NEW s \in Session, OutputKanban(s) PROVE ClientTypes'
  <2>1. Tries(s) + 1 \in 1..(MaxTry + 1)
    BY <1>10, TriesFacts, ClientAssumption DEF OutputKanban
  <2>2. <<s, cur[s], Tries(s) + 1>> \in Call
    BY <2>1, CallFacts
  <2> QED BY <1>10, <2>2 DEF OutputKanban
<1>11. 0 \in 0..MaxID
  BY MaxIDAssumption
<1>12. ASSUME NEW s \in Session, GiveUp(s) PROVE ClientTypes'
  BY <1>11, <1>12 DEF GiveUp
<1>13. ASSUME NEW s \in Session, ReturnOK(s) PROVE ClientTypes'
  BY <1>11, <1>13 DEF ReturnOK
<1>14. ASSUME NEW s \in Session, ReturnError(s) PROVE ClientTypes'
  <2>1. IsFiniteSet(failed \cup {call[s]})
    BY FS_AddElement
  <2> QED BY <1>14, <2>1 DEF ReturnError
<1>15. ASSUME NEW s \in Session, DeleteTaken(s) PROVE ClientTypes'
  BY <1>15 DEF DeleteTaken
<1>16. ASSUME NEW s \in Session, Close(s) PROVE ClientTypes'
  BY <1>16, CallFacts DEF Close
<1>17. ASSUME NEW s \in Session, CloseConns(s) PROVE ClientTypes'
  BY <1>4, <1>17 DEF CloseConns, HangUp
<1>18. ASSUME NEW s \in Session, Crash(s) PROVE ClientTypes'
  BY <1>11, <1>18, SeqTypes DEF Crash
<1>19. ASSUME NEW c \in pending, SendKanban(c) \/ LoseCall(c) PROVE ClientTypes'
  BY <1>19 DEF SendKanban, LoseCall
<1>20. ASSUME UNCHANGED allVars PROVE ClientTypes'
  BY <1>20
<1> QED
  BY <1>1, <1>2, <1>3, <1>5, <1>6, <1>7, <1>8, <1>9, <1>10, <1>12, <1>13, <1>14, <1>15,
     <1>16, <1>17, <1>18, <1>19, <1>20, ClientSteps

\* A client that has not called stays as it is, or calls.
LEMMA ServedStep ==
  ASSUME IInv, ClientTypes, Served, [ClientNext]_allVars
  PROVE  Served'
<1> USE DEF ClientTypes
<1> DEFINE Idle(r) == /\ link'[r] = link[r] /\ call'[r] = call[r]
                      /\ wire'[r] = wire[r] /\ queue'[r] = queue[r] /\ taken'[r] = taken[r]
           Kept(r) == /\ hpc'[r] = "none" => hpc[r] = "none" /\ Idle(r)
                      /\ phase'[r] = "none" <=> hpc'[r] = "none"
<1>0. hpc \in [Session -> {"none", "range", "send", "returned"}]
      /\ link \in [Session -> {"none", "up", "broken"}]
      /\ \A s \in Session : hpc[s] = "none" => wpc[s] = "none"
  BY DEF IInv, TypeOK, Lifecycle
<1>a. \A r \in Session :
        /\ phase[r] = "none" <=> hpc[r] = "none"
        /\ hpc[r] = "none" => link[r] = "none" /\ call[r] = NoCall
                              /\ wire[r] = <<>> /\ queue[r] = <<>> /\ taken[r] = <<>>
  BY DEF Served
<1>1. ASSUME ServerStep, NEW r \in Session PROVE Kept(r)
  <2>1. UNCHANGED <<link, call, wire, queue, taken, phase>>
    BY <1>1
    DEF ServerStep, WriteKanban, FlushAll, Watcher, CheckContext, XReadOne, DeleteOldKanban,
        XReadFail, HandOver, RangeEnds, SendFail
  <2>2. hpc'[r] = hpc[r] \/ (hpc[r] # "none" /\ hpc'[r] # "none")
    BY <1>0, <1>1
    DEF ServerStep, WriteKanban, FlushAll, Watcher, CheckContext, XReadOne, DeleteOldKanban,
        XReadFail, HandOver, RangeEnds, SendFail
  <2> QED BY <1>a, <2>1, <2>2
<1>2. ASSUME ServerGoes, NEW r \in Session PROVE Kept(r)
  <2>1. wire[r] = <<>> => wire'[r] = wire[r]
    <3> SUFFICES ASSUME wire[r] = <<>> PROVE wire'[r] = <<>>
      OBVIOUS
    <3>1. PICK s \in Session : \E n \in 0..Len(wire[s]) : wire'[r] = SubSeq(wire[s], 1, n)
      BY <1>2 DEF ServerGoes
    <3>2. wire'[r] \in Seq(ID)
      BY <3>1, SeqTypes
    <3>3. Len(wire'[r]) <= 0
      BY <1>2 DEF ServerGoes, IsPrefix
    <3> QED BY <3>2, <3>3
  <2>2. hpc'[r] = (IF hpc[r] = "none" THEN "none" ELSE "returned")
        /\ link'[r] = (IF link[r] = "none" THEN "none" ELSE "broken")
    BY <1>2 DEF ServerGoes, ServerStops
  <2>3. UNCHANGED <<phase, queue, call, taken>>
    BY <1>2 DEF ServerGoes
  <2> QED BY <1>a, <2>1, <2>2, <2>3
<1>3. ASSUME NEW s \in Session, NEW r \in Session, Deliver(s) PROVE Kept(r)
  <2>1. hpc[s] = "send" /\ hpc' = [hpc EXCEPT ![s] = "range"]
        /\ UNCHANGED <<link, phase, queue, call, taken>>
    BY <1>3 DEF Deliver, SendOK
  <2>2. r # s => wire'[r] = wire[r]
    BY <1>3 DEF Deliver
  <2> QED BY <1>0, <1>a, <2>1, <2>2
<1>4. ASSUME NEW s \in Session, NEW r \in Session,
             \/ Disconnect(s) /\ Breaks(s)
             \/ link[s] = "broken" /\ UNCHANGED <<vars, wire>>
      PROVE  hpc' = hpc /\ (r # s => link'[r] = link[r] /\ wire'[r] = wire[r])
             /\ hpc[s] # "none"
  BY <1>0, <1>a, <1>4 DEF Disconnect, Breaks, vars
<1>5. ASSUME NEW s \in Session, NEW r \in Session, ConnectionBreaks(s) PROVE Kept(r)
  <2>1. Disconnect(s) /\ Breaks(s) /\ UNCHANGED <<phase, queue, call, taken>>
    BY <1>5 DEF ConnectionBreaks
  <2> QED BY <1>4, <1>a, <2>1
<1>6. ASSUME NEW s \in Session, NEW r \in Session, NewKanbanClient(s) PROVE Kept(r)
  <2>1. /\ hpc' = [hpc EXCEPT ![s] = "range"] /\ link' = [link EXCEPT ![s] = "up"]
        /\ phase' = [phase EXCEPT ![s] = "open"] /\ hpc[s] = "none"
        /\ UNCHANGED <<wire, queue, call, taken>>
    BY <1>6 DEF NewKanbanClient, Connect
  <2> QED BY <1>0, <1>a, <2>1
<1>7. ASSUME NEW s \in Session, NEW r \in Session, CloseConns(s) PROVE Kept(r)
  <2>1. /\ \/ Disconnect(s) /\ Breaks(s)
           \/ link[s] = "broken" /\ UNCHANGED <<vars, wire>>
        /\ phase' = [phase EXCEPT ![s] = "closed"] /\ UNCHANGED <<queue, call, taken>>
    BY <1>7 DEF CloseConns, HangUp
  <2> QED BY <1>4, <1>a, <2>1
<1>8. ASSUME NEW s \in Session, NEW r \in Session, Crash(s) PROVE Kept(r)
  <2>1. /\ phase[s] # "none" /\ phase' = [phase EXCEPT ![s] = "dead"] /\ UNCHANGED taken
        /\ wire' = [wire EXCEPT ![s] = <<>>] /\ queue' = [queue EXCEPT ![s] = <<>>]
        /\ call' = [call EXCEPT ![s] = NoCall]
    BY <1>8 DEF Crash
  <2>2. hpc' = hpc /\ (r # s => link'[r] = link[r])
    BY <1>0, <1>8 DEF Crash, Disconnect, vars
  <2> QED BY <1>a, <2>1, <2>2
<1>9. ASSUME NEW s \in Session, NEW r \in Session,
             Recv(s) \/ RecvFails(s) \/ GetOneKanban(s)
      PROVE  Kept(r)
  <2>1. UNCHANGED <<vars, phase, call>> /\ phase[s] # "none"
    BY <1>9, <1>a DEF Recv, RecvFails, GetOneKanban, Receiving
  <2>2. r # s => wire'[r] = wire[r] /\ queue'[r] = queue[r] /\ taken'[r] = taken[r]
    BY <1>9 DEF Recv, RecvFails, GetOneKanban
  <2> QED BY <1>a, <2>1, <2>2 DEF vars
<1>10. ASSUME NEW s \in Session, NEW r \in Session, DeleteTaken(s) PROVE Kept(r)
  BY <1>a, <1>10 DEF DeleteTaken, DeleteStaticKanban
<1>11. ASSUME NEW s \in Session, NEW r \in Session,
              OutputKanban(s) \/ ReturnOK(s) \/ ReturnError(s)
       PROVE  Kept(r)
  <2>1. /\ UNCHANGED <<vars, phase, wire, queue, taken>>
        /\ phase[s] = "open" \/ call[s] # NoCall
        /\ r # s => call'[r] = call[r]
    BY <1>11, NoCallFacts DEF OutputKanban, ReturnOK, ReturnError
  <2> QED BY <1>a, <2>1 DEF vars
<1>12. ASSUME NEW s \in Session, NEW r \in Session, GiveUp(s) PROVE Kept(r)
  BY <1>a, <1>12 DEF GiveUp, vars
<1>13. ASSUME NEW s \in Session, NEW r \in Session, Close(s) PROVE Kept(r)
  <2>1. /\ UNCHANGED <<vars, wire, queue, taken>> /\ phase[s] = "open"
        /\ phase' = [phase EXCEPT ![s] = "closing"] /\ (r # s => call'[r] = call[r])
    BY <1>13 DEF Close
  <2> QED BY <1>a, <2>1 DEF vars
<1>14. ASSUME NEW r \in Session, NEW c \in pending, SendKanban(c) \/ LoseCall(c) PROVE Kept(r)
  BY <1>a, <1>14 DEF SendKanban, LoseCall, vars
<1>15. ASSUME NEW r \in Session, UNCHANGED allVars PROVE Kept(r)
  BY <1>a, <1>15 DEF vars
<1>16. \A r \in Session : Kept(r)
  BY <1>1, <1>2, <1>3, <1>5, <1>6, <1>7, <1>8, <1>9, <1>10, <1>11, <1>12, <1>13, <1>14,
     <1>15, ClientSteps
<1> QED BY <1>a, <1>16 DEF Served
-----------------------------------------------------------------------------
(* The line of every client *)

\* Kanbans go down the line one place at a time, and are lost at its end only.
LEMMA NoGapStep ==
  ASSUME IInv, ClientTypes, Served, NoGap, [ClientNext]_allVars
  PROVE  NoGap'
<1> USE DEF ClientTypes
<1> DEFINE Line(r) == InLine(sent[r], taken[r], queue[r], wire[r], link[r] = "up")
           Same(r) == UNCHANGED <<sent[r], taken[r], queue[r], wire[r]>>
<1>0. /\ link \in [Session -> {"none", "up", "broken"}]
      /\ sent \in [Session -> SUBSET ID]
      /\ \A r \in Session : Line(r)
  BY DEF IInv, TypeOK, NoGap
<1>a. ASSUME NEW r \in Session, Same(r), link'[r] = "up" => link[r] = "up"
      PROVE  Line(r)'
  BY <1>0, <1>a, LineDown
<1>b. ASSUME NEW r \in Session, NEW n \in 0..Len(wire[r]), wire'[r] = SubSeq(wire[r], 1, n),
             UNCHANGED <<sent[r], taken[r], queue[r]>>, link'[r] # "up"
      PROVE  Line(r)'
  <2>1. InLine(sent[r], taken[r], queue[r], SubSeq(wire[r], 1, n), FALSE)
    BY <1>0, LineBreaks
  <2>2. (link'[r] = "up") = FALSE
    BY <1>b
  <2> QED BY <1>b, <2>1, <2>2
<1>1. ASSUME ServerStep, NEW r \in Session PROVE Line(r)'
  <2>1. UNCHANGED <<link, sent, taken, queue, wire>>
    BY <1>1
    DEF ServerStep, WriteKanban, FlushAll, Watcher, CheckContext, XReadOne, DeleteOldKanban,
        XReadFail, HandOver, RangeEnds, SendFail
  <2> QED BY <1>a, <2>1
<1>2. ASSUME ServerGoes, NEW r \in Session PROVE Line(r)'
  <2>1. link'[r] # "up" /\ UNCHANGED <<sent, taken, queue>>
    BY <1>2 DEF ServerGoes, ServerStops
  <2>2. Len(wire'[r]) <= Len(wire[r]) /\ wire'[r] \in Seq(ID)
        /\ SubSeq(wire'[r], 1, Len(wire'[r])) = SubSeq(wire[r], 1, Len(wire'[r]))
    BY <1>2, TypesStep DEF ServerGoes, IsPrefix
  <2>3. Len(wire'[r]) \in 0..Len(wire[r]) /\ wire'[r] = SubSeq(wire[r], 1, Len(wire'[r]))
    BY <2>2
  <2> QED BY <1>b, <2>1, <2>3
<1>3. ASSUME NEW s \in Session, NEW r \in Session, Deliver(s) PROVE Line(r)'
  <2>1. /\ hpc[s] = "send" /\ sent' = [sent EXCEPT ![s] = @ \cup {res[s]}]
        /\ UNCHANGED <<link, taken, queue>>
        /\ wire' = IF link[s] = "up" THEN [wire EXCEPT ![s] = Append(@, res[s])] ELSE wire
    BY <1>3 DEF Deliver, SendOK
  <2>2. CASE r # s
    BY <1>0, <1>a, <2>1, <2>2
  <2>3. CASE r = s
    <3>1. res[s] \in ID /\ \A j \in sent[s] : j < res[s]
      BY <2>1, SendFacts
    <3>2. /\ link[s] = "up" => InLine(sent[s] \cup {res[s]}, taken[s], queue[s],
                                      Append(wire[s], res[s]), link[s] = "up")
          /\ link[s] # "up" => InLine(sent[s] \cup {res[s]}, taken[s], queue[s],
                                      wire[s], link[s] = "up")
      BY <1>0, <3>1, LineDelivers
    <3>3. sent'[s] = sent[s] \cup {res[s]} /\ link'[s] = link[s]
          /\ taken'[s] = taken[s] /\ queue'[s] = queue[s]
      BY <1>0, <2>1
    <3>4. wire'[s] = IF link[s] = "up" THEN Append(wire[s], res[s]) ELSE wire[s]
      BY <2>1
    <3> QED BY <2>3, <3>2, <3>3, <3>4
  <2> QED BY <2>2, <2>3
<1>4. ASSUME NEW s \in Session, NEW r \in Session,
             \/ Disconnect(s) /\ Breaks(s)
             \/ link[s] = "broken" /\ UNCHANGED <<vars, wire>>,
             UNCHANGED <<taken, queue>>
      PROVE  Line(r)'
  <2>1. CASE Disconnect(s) /\ Breaks(s)
    <3>1. link' = [link EXCEPT ![s] = "broken"] /\ UNCHANGED sent
      BY <2>1 DEF Disconnect
    <3>2. PICK n \in 0..Len(wire[s]) : wire' = [wire EXCEPT ![s] = SubSeq(wire[s], 1, n)]
      BY <2>1 DEF Breaks
    <3>3. CASE r = s
      BY <1>0, <1>b, <1>4, <3>1, <3>2, <3>3
    <3>4. CASE r # s
      BY <1>0, <1>a, <1>4, <3>1, <3>2, <3>4
    <3> QED BY <3>3, <3>4
  <2>2. CASE UNCHANGED <<vars, wire>>
    BY <1>a, <1>4, <2>2 DEF vars
  <2> QED BY <1>4, <2>1, <2>2
<1>5. ASSUME NEW s \in Session, NEW r \in Session, ConnectionBreaks(s) \/ CloseConns(s)
      PROVE  Line(r)'
  BY <1>4, <1>5 DEF ConnectionBreaks, CloseConns, HangUp
<1>6. ASSUME NEW s \in Session, NEW r \in Session, NewKanbanClient(s) PROVE Line(r)'
  <2>1. /\ hpc[s] = "none" /\ link' = [link EXCEPT ![s] = "up"]
        /\ UNCHANGED <<sent, taken, queue, wire>>
    BY <1>6 DEF NewKanbanClient, Connect
  <2>2. CASE r # s
    BY <1>0, <1>a, <2>1, <2>2
  <2>3. CASE r = s
    <3>1. taken[s] = <<>> /\ queue[s] = <<>> /\ wire[s] = <<>>
      BY <2>1 DEF Served
    <3>2. sent[s] = {}
      <4>1. /\ sent[s] \subseteq ID /\ res[s] \in 0..MaxID /\ prevID[s] = 0
            /\ res[s] <= prevID[s] /\ \A id \in sent[s] : id <= res[s]
        BY <2>1 DEF IInv, TypeOK, IDsInOrder, Lifecycle
      <4> QED BY <4>1, MaxIDAssumption DEF ID
    <3> QED BY <2>1, <2>3, <3>1, <3>2, EmptyLine
  <2> QED BY <2>2, <2>3
<1>7. ASSUME NEW s \in Session, NEW r \in Session, Recv(s) PROVE Line(r)'
  <2>1. /\ wire[s] # <<>> /\ UNCHANGED <<link, sent, taken>>
        /\ wire' = [wire EXCEPT ![s] = Tail(@)]
        /\ queue' = [queue EXCEPT ![s] = Append(@, Head(wire[s]))]
    BY <1>7 DEF Recv, vars
  <2>2. CASE r # s
    BY <1>a, <2>1, <2>2
  <2>3. CASE r = s
    <3>1. InLine(sent[s], taken[s], Append(queue[s], Head(wire[s])), Tail(wire[s]), link[s] = "up")
      BY <1>0, <2>1, LineReceives
    <3> QED BY <2>1, <2>3, <3>1
  <2> QED BY <2>2, <2>3
<1>8. ASSUME NEW s \in Session, NEW r \in Session, GetOneKanban(s) PROVE Line(r)'
  <2>1. /\ queue[s] # <<>> /\ UNCHANGED <<link, sent, wire>>
        /\ queue' = [queue EXCEPT ![s] = Tail(@)]
        /\ taken' = [taken EXCEPT ![s] = Append(@, Head(queue[s]))]
    BY <1>8 DEF GetOneKanban, vars
  <2>2. CASE r # s
    BY <1>a, <2>1, <2>2
  <2>3. CASE r = s
    <3>1. InLine(sent[s], Append(taken[s], Head(queue[s])), Tail(queue[s]), wire[s], link[s] = "up")
      BY <1>0, <2>1, LineTakes
    <3> QED BY <2>1, <2>3, <3>1
  <2> QED BY <2>2, <2>3
<1>9. ASSUME NEW s \in Session, NEW r \in Session, Crash(s) PROVE Line(r)'
  <2>1. /\ wire' = [wire EXCEPT ![s] = <<>>] /\ queue' = [queue EXCEPT ![s] = <<>>]
        /\ UNCHANGED <<sent, taken>> /\ link'[s] # "up" /\ (r # s => link'[r] = link[r])
    BY <1>0, <1>9 DEF Crash, Disconnect, vars
  <2>2. CASE r # s
    BY <1>a, <2>1, <2>2
  <2>3. CASE r = s
    <3>1. InLine(sent[s], taken[s], <<>>, <<>>, FALSE)
      BY <1>0, LineDrops
    <3>2. (link'[s] = "up") = FALSE
      BY <2>1
    <3> QED BY <2>1, <2>3, <3>1, <3>2
  <2> QED BY <2>2, <2>3
<1>10. ASSUME NEW s \in Session, NEW r \in Session,
              \/ RecvFails(s) \/ OutputKanban(s) \/ GiveUp(s) \/ ReturnOK(s) \/ ReturnError(s)
              \/ DeleteTaken(s) \/ Close(s)
       PROVE  Line(r)'
  <2>1. UNCHANGED <<link, sent, taken, queue, wire>>
    BY <1>10
    DEF RecvFails, OutputKanban, GiveUp, ReturnOK, ReturnError, DeleteTaken,
        DeleteStaticKanban, Close, vars
  <2> QED BY <1>a, <2>1
<1>11. ASSUME NEW r \in Session, NEW c \in pending, SendKanban(c) \/ LoseCall(c) PROVE Line(r)'
  BY <1>a, <1>11 DEF SendKanban, LoseCall, vars
<1>12. ASSUME NEW r \in Session, UNCHANGED allVars PROVE Line(r)'
  BY <1>a, <1>12 DEF vars
<1>13. \A r \in Session : Line(r)'
  BY <1>1, <1>2, <1>3, <1>5, <1>6, <1>7, <1>8, <1>9, <1>10, <1>11, <1>12, ClientSteps
<1> QED BY <1>13 DEF NoGap

-----------------------------------------------------------------------------
(* The calls *)

\* Every call has its session, its kanban and its number, and no two sessions
\* make the same.
LEMMA CallTypes ==
  ASSUME ClientTypes, AtHand
  PROVE  /\ Issued \subseteq Call
         /\ \A c \in Call : /\ c[1] \in Session /\ c[2] \in 0..MaxID /\ c[3] \in Nat
                            /\ c = <<c[1], c[2], c[3]>>
         /\ \A s \in Session : call[s] # NoCall => call[s] \in Issued /\ call[s][1] = s
<1>1. Issued \subseteq Call
  BY DEF ClientTypes, Issued
<1>2. ASSUME NEW c \in Call
      PROVE  c[1] \in Session /\ c[2] \in 0..MaxID /\ c[3] \in Nat /\ c = <<c[1], c[2], c[3]>>
  BY ClientAssumption DEF Call
<1>3. ASSUME NEW s \in Session, call[s] # NoCall
      PROVE  call[s] \in Issued /\ call[s][1] = s
  <2>1. call[s] = Terminate(s) \/ call[s] = <<s, cur[s], Tries(s) + 1>>
    BY <1>3 DEF AtHand
  <2>2. call[s][1] = s
    BY <2>1 DEF Terminate
  <2> QED BY <1>3, <2>2 DEF Issued
<1> QED BY <1>1, <1>2, <1>3

\* Steps that leave the calls alone; a client may start or close meanwhile.
LEMMA CallsQuiet ==
  ASSUME ClientTypes, CallInv, UNCHANGED <<cur, call, callVars, taken, static>>,
         \A r \in Session : \/ phase'[r] = phase[r]
                            \/ phase[r] = "none" /\ phase'[r] = "open"
                            \/ phase'[r] = "closed" /\ cur[r] = 0 /\ call[r] = NoCall
                               /\ phase[r] # "dead"
  PROVE  CallInv'
<1> USE DEF CallInv
<1>1. Issued' = Issued /\ (\A s : Tries(s)' = Tries(s)) /\ (\A s : TakenIDs(s)' = TakenIDs(s))
  BY DEF Issued, Tries, TakenIDs
<1>2. \A c \in Issued : c[1] \in Session
  BY CallTypes
<1>3. CallsMade'
  BY <1>1, <1>2 DEF CallsMade
<1>4. AtHand'
  BY <1>1 DEF AtHand
<1>5. OthersFailed'
  BY <1>1 DEF OthersFailed
<1>6. Undone'
  <2>1. \A c \in pending : c[1] \in Session
    BY CallTypes DEF ClientTypes
  <2> QED BY <2>1 DEF Undone
<1> QED BY <1>3, <1>4, <1>5, <1>6

\* The kanban at hand is new: there is no call for it yet.
LEMMA CallsTake ==
  ASSUME ClientTypes, NoGap, CallInv, NEW s \in Session, GetOneKanban(s)
  PROVE  CallInv'
<1> USE DEF CallInv
<1> DEFINE h == Head(queue[s])
<1>1. /\ phase[s] = "open" /\ cur[s] = 0 /\ queue[s] # <<>>
      /\ taken' = [taken EXCEPT ![s] = Append(@, h)]
      /\ cur' = [cur EXCEPT ![s] = IF static THEN 0 ELSE h]
      /\ UNCHANGED <<phase, call, callVars, static>>
  BY DEF GetOneKanban, vars
<1>2. /\ queue[s] \in Seq(ID) /\ taken[s] \in Seq(ID) /\ h \in ID /\ h \in Elements(queue[s])
      /\ Elements(Append(taken[s], h)) = Elements(taken[s]) \cup {h}
  <2>1. ID \in SUBSET Nat
    BY MaxIDAssumption DEF ID
  <2>2. queue[s] \in Seq(ID) /\ taken[s] \in Seq(ID)
    BY DEF ClientTypes
  <2>3. h \in ID /\ Elements(queue[s]) = {h} \cup Elements(Tail(queue[s]))
    BY <1>1, <2>1, <2>2, TailFacts
  <2> QED BY <2>1, <2>2, <2>3, AppendFacts
<1>3. \A r \in Session : TakenIDs(r)' = IF r = s THEN TakenIDs(s) \cup {h} ELSE TakenIDs(r)
  <2>1. \A r \in Session : taken'[r] = IF r = s THEN Append(taken[s], h) ELSE taken[r]
    BY <1>1 DEF ClientTypes
  <2> QED BY <1>2, <2>1 DEF TakenIDs, Elements
<1>4. h \notin TakenIDs(s) /\ h # 0
  <2>1. \A i \in Elements(taken[s]) : i < h
    BY <1>2 DEF NoGap, InLine
  <2>2. TakenIDs(s) = Elements(taken[s]) /\ h \in Nat \ {0}
    BY <1>2, MaxIDAssumption DEF TakenIDs, Elements, ID
  <2> QED BY <2>1, <2>2
<1>5. call[s] = NoCall
  BY <1>1 DEF AtHand
<1>6. Issued' = Issued /\ \A c \in Issued : c[1] \in Session
  BY <1>1, CallTypes DEF Issued
<1>7. \A c \in Issued : c[1] = s => c[2] # h
  BY <1>1, <1>4 DEF CallsMade
<1> HIDE DEF h
<1>8. CallsMade'
  BY <1>1, <1>3, <1>6 DEF CallsMade
<1>9. AtHand'
  <2> SUFFICES ASSUME NEW r \in Session
               PROVE  /\ cur'[r] # 0 =>
                           /\ ~static /\ phase[r] = "open" /\ cur'[r] \in TakenIDs(r)'
                           /\ \A c \in Issued : c[1] = r /\ c[2] = cur'[r] =>
                                (c \in failed /\ c[3] <= Tries(r)') \/ c = call[r]
                      /\ call[r] # NoCall =>
                           \/ phase[r] = "closing" /\ call[r] = Terminate(r)
                           \/ cur'[r] # 0 /\ call[r] = <<r, cur'[r], Tries(r)' + 1>>
                      /\ call[r] \notin acked \cup failed
    BY <1>1, <1>6 DEF AtHand, Terminate
  <2>1. CASE r = s
    <3>1. cur'[s] = IF static THEN 0 ELSE h
      BY <1>1 DEF ClientTypes
    <3> QED BY <1>1, <1>3, <1>5, <1>7, <2>1, <3>1 DEF AtHand
  <2>2. CASE r # s
    <3>1. cur'[r] = cur[r]
      BY <1>1, <2>2 DEF ClientTypes
    <3>2. Tries(r)' = Tries(r)
      BY <1>1, <3>1 DEF Tries
    <3> QED BY <1>3, <2>2, <3>1, <3>2 DEF AtHand
  <2> QED BY <2>1, <2>2
<1>10. OthersFailed'
  BY <1>1, <1>6 DEF OthersFailed
<1>11. Undone'
  BY <1>1 DEF Undone
<1> QED BY <1>8, <1>9, <1>10, <1>11

\* The call for the kanban at hand is a new one, and the last.
LEMMA CallsOutput ==
  ASSUME ClientTypes, CallInv, NEW s \in Session, OutputKanban(s)
  PROVE  CallInv'
<1> USE DEF CallInv
<1> DEFINE d == <<s, cur[s], Tries(s) + 1>>
<1>1. /\ phase[s] = "open" /\ cur[s] # 0 /\ call[s] = NoCall
      /\ call' = [call EXCEPT ![s] = d] /\ pending' = pending \cup {d}
      /\ UNCHANGED <<phase, cur, taken, written, acked, failed, static>>
  BY DEF OutputKanban, vars
<1>2. d # NoCall /\ d[1] = s /\ d[2] = cur[s] /\ d[3] = Tries(s) + 1 /\ Tries(s) \in Nat
  BY TriesFacts DEF ClientTypes, NoCall
<1>3. \A c \in Issued : c[1] = s /\ c[2] = cur[s] => c \in failed /\ c[3] <= Tries(s)
  <2>1. \A c \in Issued : c # NoCall
    BY DEF Issued
  <2> QED BY <1>1, <2>1 DEF AtHand
<1>4. /\ Issued' = Issued \cup {d}
      /\ \A c \in Issued : c[1] \in Session /\ c[3] \in Nat
      /\ \A r \in Session : Tries(r)' = Tries(r) /\ TakenIDs(r)' = TakenIDs(r)
                             /\ call'[r] = IF r = s THEN d ELSE call[r]
  <2>1. \A r \in Session : call'[r] = IF r = s THEN d ELSE call[r]
    BY <1>1 DEF ClientTypes
  <2>2. {call'[r] : r \in Session} \cup {NoCall} = {call[r] : r \in Session} \cup {NoCall, d}
    BY <1>1, <2>1
  <2>3. Issued' = Issued \cup {d}
    BY <1>1, <1>2, <2>2 DEF Issued
  <2> QED BY <1>1, <2>1, <2>3, CallTypes DEF Tries, TakenIDs
<1>5. d \notin Issued
  BY <1>2, <1>3
<1>6. cur[s] \in TakenIDs(s)
  BY <1>1 DEF AtHand
<1> HIDE DEF d
<1>7. CallsMade'
  BY <1>1, <1>2, <1>4, <1>6 DEF CallsMade
<1>8. AtHand'
  <2> SUFFICES ASSUME NEW r \in Session
               PROVE  /\ cur[r] # 0 =>
                           /\ ~static /\ phase[r] = "open" /\ cur[r] \in TakenIDs(r)
                           /\ \A c \in Issued \cup {d} : c[1] = r /\ c[2] = cur[r] =>
                                (c \in failed /\ c[3] <= Tries(r)) \/ c = call'[r]
                      /\ call'[r] # NoCall =>
                           \/ phase[r] = "closing" /\ call'[r] = Terminate(r)
                           \/ cur[r] # 0 /\ call'[r] = <<r, cur[r], Tries(r) + 1>>
                      /\ call'[r] \notin acked \cup failed
    BY <1>1, <1>4 DEF AtHand, Terminate
  <2>1. CASE r = s
    <3>1. d \notin acked \cup failed
      BY <1>2, <1>5 DEF Issued
    <3> QED BY <1>1, <1>2, <1>3, <1>4, <1>6, <2>1, <3>1 DEF AtHand, d
  <2>2. CASE r # s
    BY <1>2, <1>4, <2>2 DEF AtHand
  <2> QED BY <2>1, <2>2
<1>9. OthersFailed'
  <2>1. ASSUME NEW c \in Issued \cup {d}, NEW e \in Issued \cup {d},
               c[1] = e[1], c[2] = e[2], c[3] < e[3]
        PROVE  c \in failed
    <3>1. CASE c \in Issued /\ e \in Issued
      BY <2>1, <3>1 DEF OthersFailed
    <3>2. CASE c \in Issued /\ e = d
      BY <1>2, <1>3, <2>1, <3>2
    <3>3. CASE c = d /\ e \in Issued
      BY <1>2, <1>3, <1>4, <2>1, <3>3
    <3>4. CASE c = d /\ e = d
      BY <1>2, <2>1, <3>4
    <3> QED BY <3>1, <3>2, <3>3, <3>4
  <2> QED BY <1>1, <1>4, <2>1 DEF OthersFailed
<1>10. Undone'
  <2>1. d \notin written
    BY <1>2, <1>5 DEF Issued
  <2>2. \A c \in pending : c[1] \in Session /\ c # NoCall
    BY CallTypes, NoCallFacts DEF ClientTypes
  <2> QED BY <1>1, <1>2, <1>4, <2>1, <2>2 DEF Undone
<1> QED BY <1>7, <1>8, <1>9, <1>10

\* The microservice is done with the kanban at hand.
LEMMA CallsGiveUp ==
  ASSUME ClientTypes, CallInv, NEW s \in Session, GiveUp(s)
  PROVE  CallInv'
<1> USE DEF CallInv
<1>1. /\ call[s] = NoCall /\ cur' = [cur EXCEPT ![s] = 0]
      /\ UNCHANGED <<phase, call, taken, callVars, static>>
  BY DEF GiveUp, vars
<1>2. Issued' = Issued /\ \A r : TakenIDs(r)' = TakenIDs(r)
  BY <1>1 DEF Issued, TakenIDs
<1>3. \A r \in Session : \/ r = s /\ cur'[r] = 0
                         \/ r # s /\ cur'[r] = cur[r] /\ Tries(r)' = Tries(r)
  BY <1>1 DEF ClientTypes, Tries
<1>4. AtHand'
  BY <1>1, <1>2, <1>3 DEF AtHand, Terminate
<1> QED BY <1>1, <1>2, <1>4 DEF CallsMade, OthersFailed, Undone

\* The server carries out a call, or it gets lost.
LEMMA CallsServed ==
  ASSUME ClientTypes, CallInv, NEW c \in pending, SendKanban(c) \/ LoseCall(c)
  PROVE  CallInv'
<1> USE DEF CallInv
<1>1. /\ pending' = pending \ {c}
      /\ written \subseteq written' /\ written' \subseteq written \cup {c}
      /\ UNCHANGED <<phase, cur, call, taken, acked, failed, static>>
  BY DEF SendKanban, LoseCall, vars
<1>2. Issued' \subseteq Issued
  BY <1>1 DEF Issued
<1>3. \A r : TakenIDs(r)' = TakenIDs(r) /\ Tries(r)' = Tries(r)
  BY <1>1 DEF TakenIDs, Tries
<1>4. AtHand'
  BY <1>1, <1>2, <1>3 DEF AtHand, Terminate
<1>5. CallsMade' /\ OthersFailed'
  BY <1>1, <1>2, <1>3 DEF CallsMade, OthersFailed
<1>6. Undone'
  BY <1>1 DEF Undone
<1> QED BY <1>4, <1>5, <1>6

\* The call under way is over: what was at hand is done with.
LEMMA CallsReturnOK ==
  ASSUME ClientTypes, CallInv, NEW s \in Session, ReturnOK(s)
  PROVE  CallInv'
<1> USE DEF CallInv
<1> DEFINE d == call[s]
<1>1. /\ d \in written /\ acked' = acked \cup {d}
      /\ call' = [call EXCEPT ![s] = NoCall] /\ cur' = [cur EXCEPT ![s] = 0]
      /\ UNCHANGED <<phase, taken, pending, written, failed, static>>
  BY DEF ReturnOK, vars
<1>2. d \in Call /\ d # NoCall /\ d[1] = s /\ d \in Issued
  BY <1>1, NoCallFacts, CallTypes DEF ClientTypes
<1>3. \A r \in Session : call'[r] = IF r = s THEN NoCall ELSE call[r]
  BY <1>1 DEF ClientTypes
<1>4. Issued' \subseteq Issued
  <2>1. {call'[r] : r \in Session} \subseteq {call[r] : r \in Session} \cup {NoCall}
    BY <1>3
  <2> QED BY <1>1, <1>2, <2>1 DEF Issued
<1>5. \A r : TakenIDs(r)' = TakenIDs(r)
  BY <1>1 DEF TakenIDs
<1>6. \A r \in Session : \/ r = s /\ cur'[r] = 0
                         \/ r # s /\ cur'[r] = cur[r] /\ Tries(r)' = Tries(r)
  BY <1>1 DEF ClientTypes, Tries
<1>7. \A r \in Session : r # s => call[r] # d
  BY <1>2, CallTypes
<1> HIDE DEF d
<1>8. AtHand'
  <2> SUFFICES ASSUME NEW r \in Session
               PROVE  /\ cur'[r] # 0 =>
                           /\ ~static /\ phase[r] = "open" /\ cur'[r] \in TakenIDs(r)
                           /\ \A c \in Issued : c[1] = r /\ c[2] = cur'[r] =>
                                (c \in failed /\ c[3] <= Tries(r)') \/ c = call'[r]
                      /\ call'[r] # NoCall =>
                           \/ phase[r] = "closing" /\ call'[r] = Terminate(r)
                           \/ cur'[r] # 0 /\ call'[r] = <<r, cur'[r], Tries(r)' + 1>>
                      /\ call'[r] \notin acked' \cup failed
    BY <1>1, <1>4, <1>5 DEF AtHand, Terminate
  <2>1. NoCall \notin acked' \cup failed
    BY <1>1, <1>2, NoCallFacts DEF ClientTypes
  <2>2. CASE r = s
    BY <1>3, <1>6, <2>1, <2>2
  <2>3. CASE r # s
    BY <1>1, <1>3, <1>6, <1>7, <2>3 DEF AtHand
  <2> QED BY <2>2, <2>3
<1>9. CallsMade' /\ OthersFailed'
  BY <1>1, <1>4, <1>5 DEF CallsMade, OthersFailed
<1>10. Undone'
  <2>1. \A c \in pending : c # d /\ c[1] \in Session
    BY <1>1, CallTypes DEF Undone, ClientTypes
  <2>2. ASSUME NEW c \in pending PROVE c \in failed \/ c = call'[c[1]] \/ phase[c[1]] = "dead"
    <3>1. c \in failed \/ c = call[c[1]] \/ phase[c[1]] = "dead"
      BY DEF Undone
    <3>2. c = call[c[1]] => c[1] # s
      BY <2>1 DEF d
    <3> QED BY <1>3, <2>1, <3>1, <3>2
  <2> QED BY <1>1, <2>2 DEF Undone
<1> QED BY <1>8, <1>9, <1>10

\* The call under way has failed: it counts among the failed ones of the kanban.
LEMMA CallsReturnError ==
  ASSUME ClientTypes, CallInv, NEW s \in Session, ReturnError(s)
  PROVE  CallInv'
<1> USE DEF CallInv
<1> DEFINE d == call[s]
<1>1. /\ d # NoCall /\ failed' = failed \cup {d}
      /\ call' = [call EXCEPT ![s] = NoCall]
      /\ UNCHANGED <<phase, cur, taken, pending, written, acked, static>>
  BY DEF ReturnError, vars
<1>2. d \in Call /\ d[1] = s /\ d \in Issued /\ d \notin failed
  BY <1>1, CallTypes DEF ClientTypes, AtHand
<1>3. \A r \in Session : call'[r] = IF r = s THEN NoCall ELSE call[r]
  BY <1>1 DEF ClientTypes
<1>4. Issued' \subseteq Issued
  <2>1. {call'[r] : r \in Session} \subseteq {call[r] : r \in Session} \cup {NoCall}
    BY <1>3
  <2> QED BY <1>1, <1>2, <2>1 DEF Issued
<1>5. \A r : TakenIDs(r)' = TakenIDs(r)
  BY <1>1 DEF TakenIDs
<1>6. \A r \in Session : r # s => Tries(r)' = Tries(r)
  <2> SUFFICES ASSUME NEW r \in Session, r # s PROVE Tries(r)' = Tries(r)
    OBVIOUS
  <2>1. {c \in failed' : c[1] = r /\ c[2] = cur'[r]} = {c \in failed : c[1] = r /\ c[2] = cur[r]}
    BY <1>1, <1>2
  <2> QED BY <2>1 DEF Tries
<1>7. cur[s] # 0 => d[2] = cur[s] /\ d[3] = Tries(s) + 1 /\ Tries(s)' = Tries(s) + 1
  <2> SUFFICES ASSUME cur[s] # 0
               PROVE  d[2] = cur[s] /\ d[3] = Tries(s) + 1 /\ Tries(s)' = Tries(s) + 1
    OBVIOUS
  <2> DEFINE F == {c \in failed : c[1] = s /\ c[2] = cur[s]}
  <2>1. d = <<s, cur[s], Tries(s) + 1>>
    <3>1. phase[s] = "open"
      BY DEF AtHand
    <3> QED BY <1>1, <3>1 DEF AtHand
  <2>2. {c \in failed' : c[1] = s /\ c[2] = cur'[s]} = F \cup {d}
    BY <1>1, <1>2, <2>1
  <2>3. IsFiniteSet(F) /\ d \notin F
    BY <1>2, FS_Subset DEF ClientTypes
  <2>4. Cardinality(F \cup {d}) = Cardinality(F) + 1
    BY <2>3, FS_AddElement
  <2> QED BY <2>1, <2>2, <2>4 DEF Tries
<1>8. \A r \in Session : r # s => call[r] # d
  BY <1>1, <1>2, CallTypes
<1>9. Tries(s) \in Nat /\ \A c \in Issued : c[1] \in Session /\ c[3] \in Nat
  BY TriesFacts, CallTypes DEF ClientTypes
<1> HIDE DEF d
<1>10. AtHand'
  <2> SUFFICES ASSUME NEW r \in Session
               PROVE  /\ cur[r] # 0 =>
                           /\ ~static /\ phase[r] = "open" /\ cur[r] \in TakenIDs(r)
                           /\ \A c \in Issued : c[1] = r /\ c[2] = cur[r] =>
                                (c \in failed' /\ c[3] <= Tries(r)') \/ c = call'[r]
                      /\ call'[r] # NoCall =>
                           \/ phase[r] = "closing" /\ call'[r] = Terminate(r)
                           \/ cur[r] # 0 /\ call'[r] = <<r, cur[r], Tries(r)' + 1>>
                      /\ call'[r] \notin acked \cup failed'
    BY <1>1, <1>4, <1>5 DEF AtHand, Terminate
  <2>1. NoCall \notin acked \cup failed'
    BY <1>1, <1>2, NoCallFacts DEF ClientTypes
  <2>2. CASE r = s
    <3>1. ASSUME cur[s] # 0, NEW c \in Issued, c[1] = s, c[2] = cur[s]
          PROVE  c \in failed' /\ c[3] <= Tries(s)'
      <4>1. (c \in failed /\ c[3] <= Tries(s)) \/ c = d
        BY <3>1 DEF AtHand, d
      <4> QED BY <1>1, <1>7, <1>9, <3>1, <4>1
    <3> QED BY <1>3, <2>1, <2>2, <3>1 DEF AtHand
  <2>3. CASE r # s
    BY <1>1, <1>3, <1>6, <1>8, <2>3 DEF AtHand
  <2> QED BY <2>2, <2>3
<1>11. CallsMade' /\ OthersFailed'
  BY <1>1, <1>4, <1>5 DEF CallsMade, OthersFailed
<1>12. Undone'
  <2>1. \A c \in pending : c \in failed' \/ c = call'[c[1]] \/ phase[c[1]] = "dead"
    <3> TAKE c \in pending
    <3>1. c \in failed \/ c = call[c[1]] \/ phase[c[1]] = "dead"
      BY DEF Undone
    <3>2. c = call[c[1]] /\ c[1] = s => c = d
      BY DEF d
    <3>3. c[1] \in Session
      BY CallTypes DEF ClientTypes
    <3> QED BY <1>1, <1>3, <3>1, <3>2, <3>3
  <2> QED BY <1>1, <2>1 DEF Undone
<1> QED BY <1>10, <1>11, <1>12

\* Close makes the one call for the terminate kanban.
LEMMA CallsClose ==
  ASSUME ClientTypes, CallInv, NEW s \in Session, Close(s)
  PROVE  CallInv'
<1> USE DEF CallInv
<1> DEFINE d == Terminate(s)
<1>1. /\ phase[s] = "open" /\ cur[s] = 0
      /\ phase' = [phase EXCEPT ![s] = "closing"]
      /\ call' = [call EXCEPT ![s] = d] /\ pending' = pending \cup {d}
      /\ UNCHANGED <<cur, taken, written, acked, failed, static>>
  BY DEF Close, vars
<1>2. d # NoCall /\ d[1] = s /\ d[2] = 0 /\ d[3] = 1
  BY DEF Terminate, NoCall
<1>3. call[s] = NoCall
  BY <1>1 DEF AtHand
<1>4. /\ Issued' = Issued \cup {d}
      /\ \A c \in Issued : c[1] \in Session /\ c[3] \in Nat
      /\ \A r \in Session : /\ Tries(r)' = Tries(r) /\ TakenIDs(r)' = TakenIDs(r)
                            /\ call'[r] = IF r = s THEN d ELSE call[r]
                            /\ phase'[r] = IF r = s THEN "closing" ELSE phase[r]
  <2>1. \A r \in Session : /\ call'[r] = IF r = s THEN d ELSE call[r]
                           /\ phase'[r] = IF r = s THEN "closing" ELSE phase[r]
    BY <1>1 DEF ClientTypes
  <2>2. {call'[r] : r \in Session} \cup {NoCall} = {call[r] : r \in Session} \cup {NoCall, d}
    BY <1>3, <2>1
  <2>3. Issued' = Issued \cup {d}
    BY <1>1, <1>2, <2>2 DEF Issued
  <2>4. \A r \in Session : Tries(r)' = Tries(r) /\ TakenIDs(r)' = TakenIDs(r)
    BY <1>1 DEF Tries, TakenIDs
  <2> QED BY <2>1, <2>3, <2>4, CallTypes
<1>5. \A c \in Issued : c[1] = s => c[2] # 0
  BY <1>1 DEF CallsMade
<1>6. d \notin Issued
  BY <1>2, <1>5
<1> HIDE DEF d
<1>7. CallsMade'
  <2>1. ASSUME NEW c \in Issued
        PROVE  IF c[2] = 0 THEN c[3] = 1 /\ phase'[c[1]] \notin {"none", "open"}
                           ELSE c[2] \in TakenIDs(c[1])
    BY <1>1, <1>4 DEF CallsMade
  <2> QED BY <1>2, <1>4, <2>1 DEF CallsMade
<1>8. AtHand'
  <2> SUFFICES ASSUME NEW r \in Session
               PROVE  /\ cur[r] # 0 =>
                           /\ ~static /\ phase'[r] = "open" /\ cur[r] \in TakenIDs(r)
                           /\ \A c \in Issued \cup {d} : c[1] = r /\ c[2] = cur[r] =>
                                (c \in failed /\ c[3] <= Tries(r)) \/ c = call'[r]
                      /\ call'[r] # NoCall =>
                           \/ phase'[r] = "closing" /\ call'[r] = Terminate(r)
                           \/ cur[r] # 0 /\ call'[r] = <<r, cur[r], Tries(r) + 1>>
                      /\ call'[r] \notin acked \cup failed
    BY <1>1, <1>4 DEF AtHand, Terminate
  <2>1. CASE r = s
    <3>1. d \notin acked \cup failed
      BY <1>2, <1>6 DEF Issued
    <3>2. call'[s] = d /\ phase'[s] = "closing" /\ d = Terminate(s)
      BY <1>4 DEF d
    <3> QED BY <1>1, <2>1, <3>1, <3>2
  <2>2. CASE r # s
    <3>1. call'[r] = call[r] /\ phase'[r] = phase[r]
      BY <1>4, <2>2
    <3> QED BY <1>2, <2>2, <3>1 DEF AtHand
  <2> QED BY <2>1, <2>2
<1>9. OthersFailed'
  <2>1. ASSUME NEW c \in Issued \cup {d}, NEW e \in Issued \cup {d},
               c[1] = e[1], c[2] = e[2], c[3] < e[3]
        PROVE  c \in failed
    <3>1. CASE c \in Issued /\ e \in Issued
      BY <2>1, <3>1 DEF OthersFailed
    <3>2. CASE c = d \/ e = d
      BY <1>2, <1>5, <2>1, <3>2
    <3> QED BY <3>1, <3>2
  <2> QED BY <1>1, <1>4, <2>1 DEF OthersFailed
<1>10. Undone'
  <2>1. d \notin written
    BY <1>2, <1>6 DEF Issued
  <2>2. \A c \in pending : c[1] \in Session /\ c # NoCall
    BY CallTypes, NoCallFacts DEF ClientTypes
  <2> QED BY <1>1, <1>2, <1>3, <1>4, <2>1, <2>2 DEF Undone
<1> QED BY <1>7, <1>8, <1>9, <1>10

\* The process ends: what it has called may still be carried out.
LEMMA CallsCrash ==
  ASSUME ClientTypes, CallInv, NEW s \in Session, Crash(s)
  PROVE  CallInv'
<1> USE DEF CallInv
<1>1. /\ phase[s] # "none" /\ phase' = [phase EXCEPT ![s] = "dead"]
      /\ cur' = [cur EXCEPT ![s] = 0] /\ call' = [call EXCEPT ![s] = NoCall]
      /\ UNCHANGED <<taken, callVars, static>>
  BY DEF Crash, Disconnect, vars
<1>2. \A r \in Session : IF r = s THEN phase'[r] = "dead" /\ cur'[r] = 0 /\ call'[r] = NoCall
                         ELSE /\ phase'[r] = phase[r] /\ cur'[r] = cur[r]
                              /\ call'[r] = call[r] /\ Tries(r)' = Tries(r)
  BY <1>1 DEF ClientTypes, Tries
<1>3. Issued' \subseteq Issued
  <2>1. {call'[r] : r \in Session} \subseteq {call[r] : r \in Session} \cup {NoCall}
    BY <1>2
  <2> QED BY <1>1, <2>1 DEF Issued
<1>4. (\A r : TakenIDs(r)' = TakenIDs(r)) /\ \A c \in Issued : c[1] \in Session
  BY <1>1, CallTypes DEF TakenIDs
<1>5. CallsMade'
  BY <1>2, <1>3, <1>4 DEF CallsMade
<1>6. AtHand'
  <2> SUFFICES ASSUME NEW r \in Session
               PROVE  /\ cur'[r] # 0 =>
                           /\ ~static /\ phase'[r] = "open" /\ cur'[r] \in TakenIDs(r)
                           /\ \A c \in Issued : c[1] = r /\ c[2] = cur'[r] =>
                                (c \in failed /\ c[3] <= Tries(r)') \/ c = call'[r]
                      /\ call'[r] # NoCall =>
                           \/ phase'[r] = "closing" /\ call'[r] = Terminate(r)
                           \/ cur'[r] # 0 /\ call'[r] = <<r, cur'[r], Tries(r)' + 1>>
                      /\ call'[r] \notin acked \cup failed
    BY <1>1, <1>3, <1>4 DEF AtHand, Terminate
  <2>1. CASE r = s
    BY <1>2, <2>1, NoCallFacts DEF ClientTypes
  <2>2. CASE r # s
    BY <1>2, <2>2 DEF AtHand
  <2> QED BY <2>1, <2>2
<1>7. OthersFailed'
  BY <1>1, <1>3 DEF OthersFailed
<1>8. Undone'
  <2>1. \A c \in pending : c[1] \in Session
    BY CallTypes DEF ClientTypes
  <2> QED BY <1>1, <1>2, <2>1 DEF Undone
<1> QED BY <1>5, <1>6, <1>7, <1>8

\* No step breaks what holds of the calls.
LEMMA CallsStep ==
  ASSUME ClientTypes, Served, NoGap, CallInv, [ClientNext]_allVars
  PROVE  CallInv'
<1>1. ASSUME ServerStep \/ ServerGoes PROVE CallInv'
  <2>1. UNCHANGED <<phase, cur, call, callVars, taken, static>>
    BY <1>1
    DEF ServerStep, WriteKanban, AddEntry, FlushAll, Watcher, CheckContext, XReadOne,
        DeleteOldKanban, XReadFail, HandOver, RangeEnds, SendFail, ServerGoes, ServerStops
  <2> QED BY <2>1, CallsQuiet
<1>2. ASSUME NEW s \in Session,
             \/ Deliver(s) \/ ConnectionBreaks(s) \/ Recv(s) \/ RecvFails(s) \/ DeleteTaken(s)
      PROVE  CallInv'
  <2>1. UNCHANGED <<phase, cur, call, callVars, taken, static>>
    BY <1>2
    DEF Deliver, SendOK, ConnectionBreaks, Disconnect, Recv, RecvFails, DeleteTaken,
        DeleteStaticKanban, vars
  <2> QED BY <2>1, CallsQuiet
<1>3. ASSUME NEW s \in Session, NewKanbanClient(s) PROVE CallInv'
  <2>1. /\ UNCHANGED <<cur, call, callVars, taken, static>>
        /\ phase' = [phase EXCEPT ![s] = "open"] /\ phase[s] = "none"
    BY <1>3 DEF NewKanbanClient, Connect, AddEntry, Served
  <2>2. \A r \in Session : phase'[r] = phase[r] \/ (phase[r] = "none" /\ phase'[r] = "open")
    BY <2>1 DEF ClientTypes
  <2> QED BY <2>1, <2>2, CallsQuiet
<1>4. ASSUME NEW s \in Session, CloseConns(s) PROVE CallInv'
  <2>1. /\ UNCHANGED <<cur, call, callVars, taken, static>>
        /\ phase' = [phase EXCEPT ![s] = "closed"] /\ call[s] = NoCall
        /\ phase[s] = "closing" \/ (static /\ phase[s] = "open")
    BY <1>4 DEF CloseConns, HangUp, Disconnect, vars
  <2>2. cur[s] = 0 /\ phase[s] # "dead"
    BY <2>1 DEF CallInv, AtHand
  <2>3. \A r \in Session : \/ phase'[r] = phase[r]
                           \/ phase'[r] = "closed" /\ cur[r] = 0 /\ call[r] = NoCall
                              /\ phase[r] # "dead"
    BY <2>1, <2>2 DEF ClientTypes
  <2> QED BY <2>1, <2>3, CallsQuiet
<1>5. ASSUME UNCHANGED allVars PROVE CallInv'
  BY <1>5, CallsQuiet DEF vars
<1> QED
  BY <1>1, <1>2, <1>3, <1>4, <1>5, ClientSteps, CallsTake, CallsOutput, CallsGiveUp,
     CallsServed, CallsReturnOK, CallsReturnError, CallsClose, CallsCrash

-----------------------------------------------------------------------------
(* The theorems *)

\* Before any client calls, the invariant holds.
LEMMA InitClientInv == ClientInit => ClientInv
<1> SUFFICES ASSUME ClientInit PROVE ClientInv
  OBVIOUS
<1> USE DEF ClientInit
<1>1. ClientTypes
  BY MaxIDAssumption, SeqTypes, FS_EmptySet DEF ClientTypes
<1>2. Served
  BY DEF Served, Init
<1>3. NoGap
  <2>1. \A s \in Session : /\ sent[s] = {} /\ taken[s] = <<>> /\ queue[s] = <<>> /\ wire[s] = <<>>
                           /\ (link[s] = "up") \in BOOLEAN
    BY DEF Init
  <2> QED BY <2>1, EmptyLine DEF NoGap
<1>4. Issued = {} /\ \A s \in Session : cur[s] = 0 /\ call[s] = NoCall
  BY DEF Issued
<1>5. CallInv
  BY <1>4 DEF CallInv, CallsMade, AtHand, OthersFailed, Undone
<1> QED BY <1>1, <1>2, <1>3, <1>5 DEF ClientInv

\* The invariant of the client holds throughout, beside that of the stream.
LEMMA ClientInvHolds == ClientSpec => [](IInv /\ ClientInv)
<1>1. IInv /\ ClientInv /\ [ClientNext]_allVars => ClientInv'
  BY TypesStep, ServedStep, NoGapStep, CallsStep DEF ClientInv
<1> QED BY <1>1, InitClientInv, StreamInvHolds, PTL DEF ClientSpec

\* The client keeps its types.
THEOREM ClientTypeCorrect == ClientSpec => []ClientTypes
<1>1. ClientInv => ClientTypes
  BY DEF ClientInv
<1> QED BY <1>1, ClientInvHolds, PTL

\* Whatever microservices do, close or crash, the kanban server takes none but
\* the steps of KanbanStream, so that all that holds of a stream and its
\* sessions, the refinement of KanbanLog with it, holds with the client library.
THEOREM ClientRefinesStream == ClientSpec => Spec
<1>1. ClientInit => Init
  BY DEF ClientInit
<1>2. IInv /\ [ClientNext]_allVars => [Next]_vars
  BY ClientStepOfStream DEF IInv
<1> QED BY <1>1, <1>2, StreamInvHolds, PTL DEF ClientSpec, Spec

\* A microservice takes the kanbans that its session was sent in order, none
\* twice and with no gap, through connection, goroutine and channel, wherever
\* one of them breaks.
THEOREM TakesInOrder == ClientSpec => []TakenInOrder
<1>1. IInv /\ ClientInv => TakenInOrder
  <2> SUFFICES ASSUME IInv, ClientInv, NEW s \in Session
               PROVE  /\ \A i, j \in DOMAIN taken[s] : i < j => taken[s][i] < taken[s][j]
                      /\ \A id \in sent[s], j \in TakenIDs(s) : id < j => id \in TakenIDs(s)
    BY DEF TakenInOrder
  <2>1. InLine(sent[s], taken[s], queue[s], wire[s], link[s] = "up")
    BY DEF ClientInv, NoGap
  <2>2. TakenIDs(s) = Elements(taken[s])
    BY DEF TakenIDs, Elements
  <2>3. sent[s] \subseteq Nat
    BY MaxIDAssumption DEF IInv, TypeOK, ID
  <2>4. ASSUME NEW id \in sent[s], NEW j \in Elements(taken[s]), id < j
        PROVE  id \in Elements(taken[s])
    <3>1. j \in Nat /\ id \in Nat
      BY <2>1, <2>3 DEF InLine
    <3>2. id \notin Elements(queue[s]) \cup Elements(wire[s])
      BY <2>1, <2>4, <3>1 DEF InLine
    <3>3. id \in Elements(taken[s]) \cup Elements(queue[s]) \cup Elements(wire[s])
      BY <2>1, <2>4, <3>1 DEF InLine
    <3> QED BY <3>2, <3>3
  <2> QED BY <2>1, <2>2, <2>4 DEF InLine, Increasing
<1> QED BY <1>1, ClientInvHolds, PTL

\* What OutputKanban and Close return is true, however late a call is carried
\* out and whatever gets lost: nil means written, a kanban is written twice only
\* if an error was returned for it, and nothing but what has returned an error
\* follows the terminate kanban of a closed client.
THEOREM AnswersAreTrue == ClientSpec => AnswersHold
<1>1. IInv /\ ClientInv /\ ClientInv' /\ [ClientNext]_allVars =>
        [/\ acked' \subseteq written'
         /\ \A c \in written' \ written :
              /\ phase[c[1]] = "closed" => c \in failed
              /\ \A d \in written : d[1] = c[1] /\ d[2] = c[2] => {c, d} \cap failed # {}]_allVars
  <2> SUFFICES ASSUME ClientInv, ClientInv', [ClientNext]_allVars,
                      NEW c \in written' \ written
               PROVE  /\ phase[c[1]] = "closed" => c \in failed
                      /\ \A d \in written : d[1] = c[1] /\ d[2] = c[2] => {c, d} \cap failed # {}
    BY DEF ClientInv, CallInv, Undone
  <2> USE DEF ClientInv, CallInv
  <2>1. c \in pending
    BY ClientSteps
    DEF ServerStep, ServerGoes, Deliver, ConnectionBreaks, NewKanbanClient, Recv, RecvFails,
        GetOneKanban, OutputKanban, GiveUp, ReturnOK, ReturnError, DeleteTaken, Close,
        CloseConns, HangUp, Crash, SendKanban, LoseCall
  <2>2. c \in Issued /\ c # NoCall
    BY <2>1, NoCallFacts DEF Issued, ClientTypes
  <2>3. phase[c[1]] = "closed" => c \in failed
    <3> SUFFICES ASSUME phase[c[1]] = "closed", c = call[c[1]] PROVE c \in failed
      BY <2>1 DEF Undone
    <3>1. c[1] \in Session
      BY <2>2, CallTypes
    <3> QED BY <2>2, <3>1 DEF AtHand
  <2>4. ASSUME NEW d \in written, d[1] = c[1], d[2] = c[2] PROVE d \in failed \/ c \in failed
    <3>1. d \in Issued /\ d # c
      BY <2>1, NoCallFacts DEF Issued, ClientTypes, Undone
    <3>2. /\ c = <<c[1], c[2], c[3]>> /\ d = <<d[1], d[2], d[3]>>
          /\ c[3] \in Nat /\ d[3] \in Nat
      BY <2>2, <3>1, CallTypes
    <3>3. c[3] < d[3] \/ d[3] < c[3]
      BY <2>4, <3>1, <3>2
    <3> QED BY <2>2, <2>4, <3>1, <3>3 DEF OthersFailed
  <2> QED BY <2>3, <2>4
<1> QED BY <1>1, ClientInvHolds, PTL DEF ClientSpec, AnswersHold

-----------------------------------------------------------------------------
(* What KanbanLog promises, up to the microservice *)

\* What a session has sent can be decoded.
SentDecodable == \A s \in Session : sent[s] \cap undecodable = {}

\* What a session has sent had been written.
LEMMA SentWritten == IInv => \A s \in Session : sent[s] \subseteq 1..lastID
  BY MaxIDAssumption DEF IInv, TypeOK, IDsInOrder, ID

\* A kanban is found to be undecodable only when it is new, and not sent then.
LEMMA SentDecodableStep ==
  ASSUME IInv, IInv', [Next]_vars, SentDecodable
  PROVE  SentDecodable'
<1>0. lastID \in Nat /\ \A s \in Session : sent[s] \subseteq 1..lastID
  BY SentWritten, MaxIDAssumption DEF IInv, TypeOK
<1>1. [Log!Next]_Log!logVars
  BY StepOfLog
<1>2. CASE Log!Write
  BY <1>0, <1>2 DEF Log!Write, SentDecodable
<1>3. CASE Log!Remove \/ UNCHANGED Log!logVars
  BY <1>3 DEF Log!Remove, Log!logVars, SentDecodable
<1>4. ASSUME NEW s \in Session, NEW id \in 1..MaxID, Log!Deliver(s, id) PROVE SentDecodable'
  <2>1. sent' = [sent EXCEPT ![s] = @ \cup {id}] /\ id \notin undecodable
        /\ undecodable' = undecodable
    BY <1>4 DEF Log!Deliver
  <2>2. DOMAIN sent = Session
    BY DEF IInv, TypeOK
  <2> QED
    BY <2>1, <2>2 DEF SentDecodable
<1> QED
  BY <1>1, <1>2, <1>3, <1>4 DEF Log!Next

\* What all clients have taken.
AllTaken == [s \in Session |-> TakenIDs(s)]

\* The invariants of the stream and of the clients hold together.
LEMMA AllInvHolds == ClientSpec => [](IInv /\ ClientInv /\ SentDecodable)
<1>1. ClientInit => SentDecodable
  BY DEF ClientInit, Init, SentDecodable
<1>2. IInv /\ IInv' /\ SentDecodable /\ [ClientNext]_allVars => SentDecodable'
  BY ClientStepOfStream, SentDecodableStep DEF IInv
<1> QED
  BY <1>1, <1>2, ClientInvHolds, PTL DEF ClientSpec

\* Only GetOneKanban changes what a microservice has taken.
LEMMA OthersTakeNothing ==
  ASSUME [ClientNext]_allVars, \A s \in Session : ~GetOneKanban(s)
  PROVE  taken' = taken
  BY DEF ClientNext, ServerStep, ServerGoes, Deliver, ConnectionBreaks, NewKanbanClient,
         Receiver, Recv, RecvFails, Microservice, OutputKanban, GiveUp, Return, ReturnOK,
         ReturnError, DeleteTaken, Close, CloseConns, HangUp, Crash, SendKanban, LoseCall,
         clientVars, recvVars, appVars, callVars, allVars

\* GetOneKanban gives out the next kanban in the order of the stream: older ones
\* have been taken, cannot be decoded, or were removed.
LEMMA TakesNext ==
  ASSUME IInv, ClientInv, SentDecodable, NEW s \in Session, GetOneKanban(s)
  PROVE  \E id \in 1..MaxID : TakenLog!Deliver(s, id)
<1> DEFINE id == Head(queue[s])
           t == taken[s]
           q == queue[s]
           w == wire[s]
<1>1. t \in Seq(Nat) /\ q \in Seq(Nat) /\ w \in Seq(Nat) /\ q # <<>>
  BY MaxIDAssumption DEF ClientInv, ClientTypes, ID, GetOneKanban
<1>2. InLine(sent[s], t, q, w, link[s] = "up")
  BY DEF ClientInv, NoGap
<1>3. TakenIDs(s) = Elements(t)
  BY DEF TakenIDs, Elements
<1>4. id \in Elements(q) /\ id \in sent[s] /\ id \in Nat
  <2>1. q[1] = id /\ 1 \in DOMAIN q /\ id \in Nat
    BY <1>1
  <2> HIDE DEF id
  <2>2. id \in Elements(q)
    BY <2>1 DEF Elements
  <2> QED
    BY <1>2, <2>1, <2>2 DEF InLine
<1>5. /\ id \in (1..lastID) \ undecodable /\ lastID \in 0..MaxID
      /\ sent[s] \subseteq 1..lastID
  <2>1. lastID \in 0..MaxID
    BY DEF IInv, TypeOK
  <2> QED
    BY <1>4, <2>1, SentWritten DEF SentDecodable
<1>6. \A j \in TakenIDs(s) : j < id
  BY <1>2, <1>3, <1>4 DEF InLine
<1>7. \A j \in Elements(q) : id <= j
  <2>1. Increasing(q) /\ q[1] = id /\ 1 \in DOMAIN q /\ DOMAIN q = 1..Len(q) /\ Len(q) \in Nat
    BY <1>1, <1>2 DEF InLine
  <2> SUFFICES ASSUME NEW k \in DOMAIN q PROVE id <= q[k]
    BY DEF Elements
  <2>2. k \in 1..Len(q) /\ (k = 1 \/ 1 < k)
    BY <2>1
  <2>3. 1 < k => q[1] < q[k]
    BY <2>1 DEF Increasing
  <2>4. id \in Nat /\ q[k] \in Nat /\ q[1] = id
    BY <1>1, <1>4, <2>1
  <2> HIDE DEF id, q
  <2> QED
    BY <2>2, <2>3, <2>4
<1>8. ASSUME NEW j \in 1..(id - 1)
      PROVE  j \in TakenIDs(s) \cup undecodable \cup Removed
  <2>1. j \in ID /\ j < id /\ j \in Nat
    BY <1>4, <1>5, MaxIDAssumption DEF ID
  <2>2. j \in sent[s] \cup undecodable \/ TakenByOthers(s, j)
    BY <1>4, <2>1, SkippedBySession DEF NoSilentSkip
  <2>3. TakenByOthers(s, j) => j \in Removed
    BY DEF TakenByOthers, Removed
  <2>4. j \in sent[s] => j \in Elements(t)
    <3>1. j \notin Elements(q)
      BY <1>4, <1>7, <2>1
    <3>2. j \notin Elements(w)
      BY <1>2, <1>4, <2>1 DEF InLine
    <3>3. j \in sent[s] => j \in Elements(t) \cup Elements(q) \cup Elements(w)
      BY <1>2, <1>4, <2>1 DEF InLine
    <3> QED
      BY <3>1, <3>2, <3>3
  <2> QED
    BY <1>3, <2>2, <2>3, <2>4
<1>9. AllTaken' = [AllTaken EXCEPT ![s] = @ \cup {id}]
  <2>1. taken' = [taken EXCEPT ![s] = Append(t, id)] /\ taken \in [Session -> Seq(ID)]
    BY DEF GetOneKanban, ClientInv, ClientTypes
  <2>2. Elements(Append(t, id)) = Elements(t) \cup {id}
    BY <1>1, <1>4, AppendFacts
  <2>3. \A r \in Session : TakenIDs(r) = Elements(taken[r]) /\ TakenIDs(r)' = Elements(taken'[r])
    BY DEF TakenIDs, Elements
  <2> HIDE DEF id
  <2>4. \A r \in Session : TakenIDs(r)' = IF r = s THEN TakenIDs(r) \cup {id} ELSE TakenIDs(r)
    BY <2>1, <2>2, <2>3
  <2> QED
    BY <2>4 DEF AllTaken
<1>10. UNCHANGED <<lastID, undecodable, Removed>>
  BY DEF GetOneKanban, vars, redisVars, watcherVars, handlerVars, historyVars, Removed
<1> HIDE DEF id, t, q, w
<1>11. TakenLog!Deliver(s, id)
  BY <1>5, <1>6, <1>8, <1>9, <1>10 DEF TakenLog!Deliver, AllTaken, Removed
<1> QED
  BY <1>5, <1>11, MaxIDAssumption

\* What a microservice gets through handler, connection, goroutine and channel is
\* what KanbanLog promises: in order, at most once, and nothing left out but what
\* cannot be decoded or was removed.
THEOREM LibraryRefinement == ClientSpec => LibraryImplementsLog
<1>1. ClientInit => TakenLog!Init
  BY DEF ClientInit, Init, TakenLog!Init, TakenIDs
<1>2. /\ IInv /\ ClientInv /\ SentDecodable /\ IInv'
      /\ [ClientNext]_allVars
      => [TakenLog!Next]_TakenLog!logVars
  <2> SUFFICES ASSUME IInv, ClientInv, SentDecodable, IInv', [ClientNext]_allVars
               PROVE  [TakenLog!Next]_TakenLog!logVars
    OBVIOUS
  <2>1. ASSUME NEW s \in Session, GetOneKanban(s) PROVE TakenLog!Next
    BY <2>1, TakesNext DEF TakenLog!Next
  <2>2. CASE \A s \in Session : ~GetOneKanban(s)
    <3>1. AllTaken' = AllTaken
      BY <2>2, OthersTakeNothing DEF AllTaken, TakenIDs
    <3>2. [Log!Next]_Log!logVars
      BY ClientStepOfStream, StepOfLog DEF IInv
    <3>3. CASE Log!Write
      BY <3>1, <3>3 DEF Log!Write, TakenLog!Write, TakenLog!Next, AllTaken
    <3>4. CASE Log!Remove
      BY <3>1, <3>4 DEF Log!Remove, TakenLog!Remove, TakenLog!Next, AllTaken
    <3>5. CASE \/ UNCHANGED Log!logVars
               \/ \E s \in Session, id \in 1..MaxID : Log!Deliver(s, id)
      BY <3>1, <3>5 DEF Log!Deliver, Log!logVars, TakenLog!logVars, AllTaken
    <3> QED
      BY <3>2, <3>3, <3>4, <3>5 DEF Log!Next
  <2> QED
    BY <2>1, <2>2
<1> QED
  BY <1>1, <1>2, AllInvHolds, PTL DEF ClientSpec, LibraryImplementsLog, TakenLog!Spec
=============================================================================
