------------------------------ MODULE DeviceLink ------------------------------
(***************************************************************************)
(* The link between the service broker (internal/devices, the Controller)  *)
(* and send-anything (ServiceBrokerConn) on one device: one gRPC stream    *)
(* after the other, which the broker opens and opens again, with kanbans   *)
(* for other devices going out over it and kanbans from other devices      *)
(* coming in.                                                              *)
(*                                                                         *)
(* The channels at both ends outlive the streams, and each stream has four *)
(* goroutines: the broker's receive loop and sender, and send-anything's   *)
(* receive loop (which also transfers the kanban to the other device) and  *)
(* sender.  They learn one by one, and late, that their stream has broken, *)
(* and until then the two senders go on taking kanbans from the channels.  *)
(*                                                                         *)
(* What is transferred, and how, is SendAnything; what the broker does     *)
(* with the kanbans is ServiceBroker, where the link always works.         *)
(***************************************************************************)
EXTENDS Naturals, Sequences

CONSTANTS
  MaxStream,   \* bound: the streams opened one after the other
  MaxOut,      \* bound: the kanbans for other devices
  MaxIn,       \* bound: the kanbans from other devices
  MaxKanban    \* bound: the kanbans of both kinds together

ASSUME BoundAssumption ==
  MaxStream \in Nat /\ MaxOut \in Nat /\ MaxIn \in Nat /\ MaxKanban \in Nat

Stream == 1..MaxStream
Out == 1..MaxOut
In == 1..MaxIn

\* A goroutine that holds a kanban (a number, 0: none) is at its Send, or at
\* its transfer; otherwise it is at its select, or at Recv.
VARIABLES
  \* the service broker
  sendCh, recvCh,  \* the Controller's channels, of capacity 1
  cpc,          \* connectToServer: "dial", "recv" or "ended"
  chold,        \* the kanban it puts into recvCh
  n,            \* its stream (0: none yet)
  doneCh,       \* the streams whose doneCh is closed
  taker,        \* WatchReceiveKanban: "select", "start" (at startCh) or "ended"
  cancelled,    \* the context of both is done
  senders,      \* the streams whose sender runs
  shold,
  \* the streams: of 1..n those that are not up have broken
  up,
  toServer, toBroker,   \* what has been sent and not received
  \* send-anything
  inCh,         \* sendToServiceBrokerCh, of capacity 1
  handlers,     \* the streams whose handler runs
  hhold,
  hdone,        \* the streams whose context is done at the handler
  receivers,    \* the streams whose receive loop runs
  ghold,
  \* history
  offered,      \* how many kanbans have been given to SendFileToDevice
  takenBy,      \* takenBy[k]: the stream whose sender took kanban k (0: none)
  transferred,  \* the kanbans whose transfer has ended, in this order
  arrived,      \* how many kanbans have come from other devices
  broughtBy,    \* broughtBy[k]: the stream whose handler took kanban k
  received,     \* the kanbans taken from recvCh
  crashLost     \* the ones that send-anything held in inCh when it ended

ctrlVars == <<recvCh, cpc, chold, n, doneCh, taker, cancelled>>
senderVars == <<sendCh, senders, shold>>
wireVars == <<up, toServer, toBroker>>
handlerVars == <<inCh, handlers, hhold, hdone>>
receiverVars == <<receivers, ghold>>
serverVars == <<handlerVars, receiverVars>>
outHistory == <<offered, takenBy, transferred>>
inHistory == <<arrived, broughtBy, received, crashLost>>
history == <<outHistory, inHistory>>
vars == <<ctrlVars, senderVars, wireVars, serverVars, history>>

Elements(s) == {s[j] : j \in DOMAIN s}

Broken(i) == i \in 1..n /\ i \notin up

\* A stream that breaks loses the end of what is on its way.
Cut(i) ==
  /\ \E k \in 0..Len(toServer[i]) : toServer' = [toServer EXCEPT ![i] = SubSeq(@, 1, k)]
  /\ \E k \in 0..Len(toBroker[i]) : toBroker' = [toBroker EXCEPT ![i] = SubSeq(@, 1, k)]

\* What a sender puts on its stream: over one that has broken the Send fails or
\* goes nowhere; either is only logged.
Sent(wire, i, k) == IF i \in up THEN [wire EXCEPT ![i] = Append(@, k)] ELSE wire

-----------------------------------------------------------------------------
(* The service broker *)

\* A WatchMicroservice has a kanban for another device; it waits for a place.
SendFileToDevice ==
  /\ offered < MaxOut /\ offered + arrived < MaxKanban
  /\ sendCh = <<>>
  /\ offered' = offered + 1
  /\ sendCh' = <<offered'>>
  /\ UNCHANGED <<ctrlVars, senders, shold, wireVars, serverVars, takenBy, transferred, inHistory>>

OpenStream ==
  /\ cpc = "dial"
  /\ ~cancelled
  /\ n < MaxStream
  /\ n' = n + 1
  /\ cpc' = "recv"
  /\ up' = up \cup {n'}
  /\ senders' = senders \cup {n'}
  /\ handlers' = handlers \cup {n'}
  /\ receivers' = receivers \cup {n'}
  /\ UNCHANGED <<recvCh, chold, doneCh, taker, cancelled, shold, toServer, toBroker, inCh,
                 hhold, hdone, ghold, history>>

\* Mutant: every connection makes a channel of its own.
DialWithChannel == OpenStream /\ sendCh' = <<>>

\* A new stream; its handler starts at send-anything.  (After a failure the
\* broker sleeps five seconds and tries again.)
Dial == OpenStream /\ UNCHANGED sendCh

\* The sender takes a kanban.  A select with two cases ready takes either: the
\* sender may do so after doneCh has been closed.
SenderTakes(i) ==
  /\ i \in senders
  /\ shold[i] = 0
  /\ sendCh # <<>>
  /\ shold' = [shold EXCEPT ![i] = Head(sendCh)]
  /\ takenBy' = [takenBy EXCEPT ![Head(sendCh)] = i]
  /\ sendCh' = <<>>
  /\ UNCHANGED <<ctrlVars, senders, wireVars, serverVars, offered, transferred, inHistory>>

\* Mutant: a Send that seems to fail is repeated.
SenderRepeats(i) ==
  /\ shold[i] # 0
  /\ toServer' = Sent(toServer, i, shold[i])
  /\ \/ shold' = [shold EXCEPT ![i] = 0]
     \/ Len(toServer[i]) < 2 /\ UNCHANGED shold
  /\ UNCHANGED <<ctrlVars, sendCh, senders, up, toBroker, serverVars, history>>

SenderSends(i) ==
  /\ shold[i] # 0
  /\ toServer' = Sent(toServer, i, shold[i])
  /\ shold' = [shold EXCEPT ![i] = 0]
  /\ UNCHANGED <<ctrlVars, sendCh, senders, up, toBroker, serverVars, history>>

\* <-doneCh
SenderEnds(i) ==
  /\ i \in senders \cap doneCh
  /\ shold[i] = 0
  /\ senders' = senders \ {i}
  /\ UNCHANGED <<ctrlVars, sendCh, shold, wireVars, serverVars, history>>

Receive ==
  /\ cpc = "recv"
  /\ chold = 0
  /\ toBroker[n] # <<>>
  /\ chold' = Head(toBroker[n])
  /\ toBroker' = [toBroker EXCEPT ![n] = Tail(@)]
  /\ UNCHANGED <<recvCh, cpc, n, doneCh, taker, cancelled, senderVars, up, toServer, serverVars,
                 history>>

\* c.recvCh <- data: while it waits nobody looks at the stream.
Put ==
  /\ chold # 0
  /\ recvCh = <<>>
  /\ recvCh' = <<chold>>
  /\ chold' = 0
  /\ UNCHANGED <<cpc, n, doneCh, taker, cancelled, senderVars, wireVars, serverVars, history>>

\* Recv fails, and the broker goes back to the top of its loop.
StreamEnds ==
  /\ cpc = "recv"
  /\ chold = 0
  /\ toBroker[n] = <<>>
  /\ Broken(n)
  /\ cpc' = "dial"
  /\ UNCHANGED <<recvCh, chold, n, taker, cancelled, senderVars, wireVars, serverVars, history>>

\* Mutant: the sender of the old stream is not told.
ReceiveFailsQuietly == StreamEnds /\ UNCHANGED doneCh

\* The sender of the stream is told to end.
ReceiveFails == StreamEnds /\ doneCh' = doneCh \cup {n}

\* The context ends, and with it the stream.
Cancel ==
  /\ ~cancelled
  /\ cancelled' = TRUE
  /\ up' = {}
  /\ IF n \in up THEN Cut(n) ELSE UNCHANGED <<toServer, toBroker>>
  /\ UNCHANGED <<recvCh, cpc, chold, n, doneCh, taker, senderVars, serverVars, history>>

\* <-ctx.Done(): close(c.recvCh)
CloseReceive ==
  /\ cpc = "dial"
  /\ cancelled
  /\ cpc' = "ended"
  /\ UNCHANGED <<recvCh, chold, n, doneCh, taker, cancelled, senderVars, wireVars, serverVars,
                 history>>

\* WatchReceiveKanban takes a kanban from recvCh (also when its context is done
\* already), writes it and wants to send the start of its receiver into startCh,
\* which has no buffer.
TakeReceived ==
  /\ taker = "select"
  /\ recvCh # <<>>
  /\ received' = Append(received, Head(recvCh))
  /\ recvCh' = <<>>
  /\ taker' = "start"
  /\ UNCHANGED <<cpc, chold, n, doneCh, cancelled, senderVars, wireVars, serverVars, outHistory,
                 arrived, broughtBy, crashLost>>

\* <-ctx.Done(), or recvCh is closed, which it is after that only.  Nobody takes
\* from recvCh any more.
StopTaking ==
  /\ taker = "select"
  /\ cancelled
  /\ taker' = "ended"
  /\ UNCHANGED <<recvCh, cpc, chold, n, doneCh, cancelled, senderVars, wireVars, serverVars,
                 history>>

-----------------------------------------------------------------------------
(* send-anything *)

\* A kanban has come from another device (SendToOtherDevices); the deferred
\* send of its handler waits for a place in the channel.
FromDevice ==
  /\ arrived < MaxIn /\ offered + arrived < MaxKanban
  /\ inCh = <<>>
  /\ arrived' = arrived + 1
  /\ inCh' = <<arrived'>>
  /\ UNCHANGED <<ctrlVars, senderVars, wireVars, handlers, hhold, hdone, receiverVars, outHistory,
                 broughtBy, received, crashLost>>

\* The server notices that the stream has broken: its context is done.
NoticeBreak(i) ==
  /\ Broken(i)
  /\ i \in handlers \ hdone
  /\ hdone' = hdone \cup {i}
  /\ UNCHANGED <<ctrlVars, senderVars, wireVars, inCh, handlers, hhold, receiverVars, history>>

\* The handler takes a kanban, also when its context is done already.
HandlerTakes(i) ==
  /\ i \in handlers
  /\ hhold[i] = 0
  /\ inCh # <<>>
  /\ hhold' = [hhold EXCEPT ![i] = Head(inCh)]
  /\ broughtBy' = [broughtBy EXCEPT ![Head(inCh)] = i]
  /\ inCh' = <<>>
  /\ UNCHANGED <<ctrlVars, senderVars, wireVars, handlers, hdone, receiverVars, outHistory,
                 arrived, received, crashLost>>

HandlerSends(i) ==
  /\ hhold[i] # 0
  /\ toBroker' = Sent(toBroker, i, hhold[i])
  /\ hhold' = [hhold EXCEPT ![i] = 0]
  /\ UNCHANGED <<ctrlVars, senderVars, up, toServer, inCh, handlers, hdone, receiverVars, history>>

\* <-ctx.Done()
HandlerReturns(i) ==
  /\ i \in handlers \cap hdone
  /\ hhold[i] = 0
  /\ handlers' = handlers \ {i}
  /\ UNCHANGED <<ctrlVars, senderVars, wireVars, inCh, hhold, hdone, receiverVars, history>>

\* The receive loop takes a kanban and starts its transfer.
ServerReceives(i) ==
  /\ i \in receivers
  /\ ghold[i] = 0
  /\ toServer[i] # <<>>
  /\ ghold' = [ghold EXCEPT ![i] = Head(toServer[i])]
  /\ toServer' = [toServer EXCEPT ![i] = Tail(@)]
  /\ UNCHANGED <<ctrlVars, senderVars, up, toBroker, handlerVars, receivers, history>>

\* sendToOtherDeviceClient ends, in whatever way; an error is only logged.
Transfer(i) ==
  /\ ghold[i] # 0
  /\ transferred' = Append(transferred, ghold[i])
  /\ ghold' = [ghold EXCEPT ![i] = 0]
  /\ UNCHANGED <<ctrlVars, senderVars, wireVars, handlerVars, receivers, offered, takenBy, inHistory>>

\* Recv fails in the receive loop.
ServerReceiveFails(i) ==
  /\ i \in receivers
  /\ ghold[i] = 0
  /\ toServer[i] = <<>>
  /\ Broken(i)
  /\ receivers' = receivers \ {i}
  /\ UNCHANGED <<ctrlVars, senderVars, wireVars, handlerVars, ghold, history>>

-----------------------------------------------------------------------------
(* The environment *)

\* The controller takes the start.  It need not ever: it may have ended, be at a
\* kubernetes call, or itself wait for WatchReceiveKanban to take a setting.
StartIsTaken ==
  /\ taker = "start"
  /\ taker' = "select"
  /\ UNCHANGED <<recvCh, cpc, chold, n, doneCh, cancelled, senderVars, wireVars, serverVars,
                 history>>

Break(i) ==
  /\ i \in up
  /\ up' = up \ {i}
  /\ Cut(i)
  /\ UNCHANGED <<ctrlVars, senderVars, serverVars, history>>

\* send-anything ends and comes back (a GracefulStop waits for the handlers of
\* the broker's streams, which do not return by themselves, until the process
\* is killed): nothing of what it held is left.
Restart ==
  /\ n # 0
  /\ n \in up \/ inCh # <<>>
  /\ up' = {}
  /\ toServer' = [i \in Stream |-> <<>>]
  /\ \E k \in 0..Len(toBroker[n]) : toBroker' = [toBroker EXCEPT ![n] = SubSeq(@, 1, k)]
  /\ inCh' = <<>>
  /\ crashLost' = crashLost \cup Elements(inCh)
  /\ handlers' = {}
  /\ hhold' = [i \in Stream |-> 0]
  /\ receivers' = {}
  /\ ghold' = [i \in Stream |-> 0]
  /\ UNCHANGED <<ctrlVars, senderVars, hdone, outHistory, arrived, broughtBy, received>>

-----------------------------------------------------------------------------
\* The link is followed from a moment at which it is down and its channels are
\* empty; WatchReceiveKanban may still be at the start of an earlier kanban.
Init ==
  /\ sendCh = <<>>
  /\ recvCh = <<>>
  /\ cpc = "dial"
  /\ chold = 0
  /\ n = 0
  /\ doneCh = {}
  /\ taker \in {"select", "start"}
  /\ cancelled = FALSE
  /\ senders = {}
  /\ shold = [i \in Stream |-> 0]
  /\ up = {}
  /\ toServer = [i \in Stream |-> <<>>]
  /\ toBroker = [i \in Stream |-> <<>>]
  /\ inCh = <<>>
  /\ handlers = {}
  /\ hhold = [i \in Stream |-> 0]
  /\ hdone = {}
  /\ receivers = {}
  /\ ghold = [i \in Stream |-> 0]
  /\ offered = 0
  /\ takenBy = [k \in Out |-> 0]
  /\ transferred = <<>>
  /\ arrived = 0
  /\ broughtBy = [k \in In |-> 0]
  /\ received = <<>>
  /\ crashLost = {}

Connection == Dial \/ Receive \/ Put \/ ReceiveFails \/ CloseReceive
Sender(i) == SenderTakes(i) \/ SenderSends(i) \/ SenderEnds(i)
Handler(i) == HandlerTakes(i) \/ HandlerSends(i) \/ HandlerReturns(i)
ServerReceiver(i) == ServerReceives(i) \/ Transfer(i) \/ ServerReceiveFails(i)

Taker == TakeReceived \/ StopTaking

Broker == Connection \/ Taker \/ \E i \in Stream : Sender(i)
SendAnything == \E i \in Stream : Handler(i) \/ ServerReceiver(i) \/ NoticeBreak(i)

Next ==
  \/ Broker
  \/ SendAnything
  \/ SendFileToDevice \/ FromDevice \/ Cancel \/ StartIsTaken
  \/ \E i \in Stream : Break(i)
  \/ Restart

Spec == Init /\ [][Next]_vars

\* Each process goes on while one of its goroutines can; so do the transfers
\* (their sends are retried ten times at most), and WatchReceiveKanban up to
\* startCh: nothing is assumed of who takes a start.  With MaxStream, MaxOut and
\* MaxIn no goroutine can run for ever, so none starves another one, and no
\* select passes a doneCh or context by for ever (in Go, because it chooses
\* among its ready cases at random).
FairSpec == Spec /\ WF_vars(Broker) /\ WF_vars(SendAnything)

-----------------------------------------------------------------------------
(* Properties *)

\* Where kanban k for another device still is, or where it ended.
OutSomewhere(k) ==
  \/ k \in Elements(sendCh) \cup Elements(transferred)
  \/ \E i \in Stream : k \in {shold[i], ghold[i]} \cup Elements(toServer[i])

\* The same of a kanban from another device.
InSomewhere(k) ==
  \/ k \in {chold} \cup Elements(inCh) \cup Elements(recvCh) \cup Elements(received)
  \/ \E i \in Stream : k \in {hhold[i]} \cup Elements(toBroker[i])

\* A kanban is lost only with the stream whose sender took it from the channel
\* - or, waiting at send-anything, with that process: what waits in the
\* channels of the broker survives every break.  (A transfer that ends with an
\* error, which is only logged, has got over the link.)
LostOnlyWithStream ==
  /\ \A k \in 1..offered : OutSomewhere(k) \/ Broken(takenBy[k])
  /\ \A k \in 1..arrived : InSomewhere(k) \/ k \in crashLost \/ Broken(broughtBy[k])

\* No kanban is brought twice, although two senders of either side may run at
\* once, and kanbans from other devices reach the broker in the order in which
\* they came.  A transfer to another device may end before an earlier one only
\* if that one hangs in the receive loop of an earlier stream.
InOrder ==
  /\ \A i, j \in DOMAIN received : i < j => received[i] < received[j]
  /\ \A i, j \in DOMAIN transferred :
       i < j => \/ transferred[i] < transferred[j]
                \/ transferred[i] > transferred[j] /\ takenBy[transferred[i]] > takenBy[transferred[j]]

\* The broker does not connect any more.
LinkIsDown == cancelled \/ (n = MaxStream /\ Broken(n))

\* connectToServer waits at a full recvCh for a WatchReceiveKanban that has
\* ended, or that waits for its start to be taken: it no longer looks at its
\* stream and its context.
Hangs == taker # "select" /\ recvCh # <<>> /\ chold # 0

\* Every kanban gets across or is lost, one from another device at least into
\* recvCh if nobody takes from there.
Across ==
  /\ \A k \in 1..offered : k \in Elements(transferred) \/ ~OutSomewhere(k)
  /\ \A k \in 1..arrived :
       \/ k \in Elements(received)
       \/ taker # "select" /\ k \in Elements(recvCh)
       \/ ~InSomewhere(k)

\* Every goroutine of a stream that has broken ends, so that streams that break
\* again and again pile nothing up.  Where the broker hangs its sender, and only
\* that, stays.
NothingLeftOver ==
  /\ \A i \in Stream : Broken(i) => i \notin handlers \cup receivers
  /\ Hangs \/ \A i \in Stream : Broken(i) => i \notin senders
  /\ Hangs \/ (cancelled => cpc = "ended")

\* The link goes on until it is cancelled, or until the broker hangs at recvCh
\* because its starts are not taken.  (Each of these parts stays true until the
\* next kanban, break, cancel or start.)
LinkKeepsGoing == []<>((Across \/ LinkIsDown \/ Hangs) /\ NothingLeftOver)
=============================================================================
