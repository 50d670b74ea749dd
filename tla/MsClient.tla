------------------------------- MODULE MsClient -------------------------------
(***************************************************************************)
(* A microservice and its client library (pkg/go-client/msclient) at the   *)
(* end of a stream of KanbanStream.  Every session of the kanban server is *)
(* the call of one client.                                                 *)
(*                                                                         *)
(* On a before stream the client is a microserviceClient: a goroutine puts *)
(* what stream.Recv returns into recvKanbanCh, the microservice takes it   *)
(* from there (GetOneKanban, GetKanbanCh) and answers with OutputKanban,   *)
(* and Close sends the terminate kanban before it closes the connections.  *)
(* On a static stream it is a call of GetStaticKanban, whose channel is    *)
(* the caller's.  A microservice makes one call at a time.                 *)
(***************************************************************************)
EXTENDS KanbanStream, Sequences, SequencesExt

CONSTANTS
  RecvCap,   \* the capacity of recvKanbanCh (5 in the code)
  MaxTry     \* bound: how often a microservice repeats a failed OutputKanban

ASSUME ClientAssumption == RecvCap \in Nat /\ MaxTry \in Nat

VARIABLES
  phase,     \* the client: "none", "open", "closing", "closed" or "dead"
  wire,      \* kanbans sent by the server that Recv has not returned yet
  queue,     \* kanbans in the channel and, last, one that waits to go in
  ended,     \* the receiving goroutine has closed the channel and ended
  cur,       \* the kanban that the microservice works on (0: none)
  call,      \* its OutputKanban under way (or NoCall)
  pending,   \* calls that the kanban server has not carried out
  \* history
  taken,     \* the kanbans that the microservice has taken from the channel
  written,   \* the calls whose kanban is in the after stream
  acked,     \* the calls that have returned nil
  failed     \* and those that have returned an error

recvVars == <<wire, queue, ended>>
appVars == <<cur, call, taken>>
callVars == <<pending, written, acked, failed>>
clientVars == <<phase, recvVars, appVars, callVars>>
allVars == <<vars, clientVars>>

\* The try-th OutputKanban of s for the kanban id; the terminate kanban has
\* the number 0.
Call == Session \X (0..MaxID) \X (1..(MaxTry + 1))
Terminate(s) == <<s, 0, 1>>
NoCall == <<>>

\* The channel of GetStaticKanban's caller is unbuffered.
ChannelCap == IF static THEN 0 ELSE RecvCap

\* A connection that breaks loses the end of what is on its way.
Breaks(s) == \E n \in 0..Len(wire[s]) : wire' = [wire EXCEPT ![s] = SubSeq(@, 1, n)]

-----------------------------------------------------------------------------
(* The steps of the kanban server beside the client *)

\* Steps that a client does not notice at once.
ServerStep ==
  /\ \/ WriteKanban
     \/ FlushAll
     \/ \E s \in Session :
          Watcher(s) \/ XReadFail(s) \/ HandOver(s) \/ RangeEnds(s) \/ SendFail(s)
  /\ UNCHANGED clientVars

\* What the handler sends is on its way, unless the connection has broken.
Deliver(s) ==
  /\ SendOK(s)
  /\ wire' = IF link[s] = "up" THEN [wire EXCEPT ![s] = Append(@, res[s])] ELSE wire
  /\ UNCHANGED <<phase, queue, ended, appVars, callVars>>

ConnectionBreaks(s) ==
  /\ Disconnect(s)
  /\ Breaks(s)
  /\ UNCHANGED <<phase, queue, ended, appVars, callVars>>

ServerGoes ==
  /\ ServerStops
  /\ wire' \in [Session -> UNION {{SubSeq(wire[s], 1, n) : n \in 0..Len(wire[s])} : s \in Session}]
  /\ \A s \in Session : IsPrefix(wire'[s], wire[s])
  /\ UNCHANGED <<phase, queue, ended, appVars, callVars>>

-----------------------------------------------------------------------------
(* Receiving *)

\* NewKanbanClient, or a call of GetStaticKanban.
NewKanbanClient(s) ==
  /\ Connect(s)
  /\ phase' = [phase EXCEPT ![s] = "open"]
  /\ UNCHANGED <<recvVars, appVars, callVars>>

\* The receiving goroutine is in stream.Recv, not at a full channel.
Receiving(s) ==
  /\ phase[s] \notin {"none", "dead"}
  /\ ~ended[s]
  /\ Len(queue[s]) <= ChannelCap

\* Mutant: each kanban is put into the channel by a goroutine of its own.
RecvConcurrently(s) ==
  /\ phase[s] \notin {"none", "dead"}
  /\ ~ended[s]
  /\ wire[s] # <<>>
  /\ wire' = [wire EXCEPT ![s] = Tail(@)]
  /\ \E before \in 0..Len(queue[s]) :
       queue' = [queue EXCEPT ![s] = InsertAt(@, before + 1, Head(wire[s]))]
  /\ UNCHANGED <<vars, phase, ended, appVars, callVars>>

\* Recv returns a kanban, which goes into the channel or waits for a place.
Recv(s) ==
  /\ Receiving(s)
  /\ wire[s] # <<>>
  /\ wire' = [wire EXCEPT ![s] = Tail(@)]
  /\ queue' = [queue EXCEPT ![s] = Append(@, Head(wire[s]))]
  /\ UNCHANGED <<vars, phase, ended, appVars, callVars>>

\* Mutant: only a broken connection ends the goroutine, not the server's EOF.
RecvFailsOnBreak(s) ==
  /\ Receiving(s)
  /\ wire[s] = <<>>
  /\ link[s] = "broken"
  /\ ended' = [ended EXCEPT ![s] = TRUE]
  /\ UNCHANGED <<vars, phase, wire, queue, appVars, callVars>>

\* Recv fails: the connection has broken (keepalive notices it within 20 s) or
\* the handler of the server has returned.
RecvFails(s) ==
  /\ Receiving(s)
  /\ wire[s] = <<>>
  /\ link[s] = "broken" \/ hpc[s] = "returned"
  /\ ended' = [ended EXCEPT ![s] = TRUE]
  /\ UNCHANGED <<vars, phase, wire, queue, appVars, callVars>>

\* Mutant: the channel is a stack.
TakeNewest(s) ==
  /\ phase[s] = "open"
  /\ cur[s] = 0
  /\ queue[s] # <<>>
  /\ queue' = [queue EXCEPT ![s] = Front(@)]
  /\ taken' = [taken EXCEPT ![s] = Append(@, Last(queue[s]))]
  /\ cur' = [cur EXCEPT ![s] = IF static THEN 0 ELSE Last(queue[s])]
  /\ UNCHANGED <<vars, phase, wire, ended, call, callVars>>

\* The microservice takes a kanban.  (GetOneKanban gives up after 100 ms, or at
\* once when the channel is closed; it then has taken nothing.)
GetOneKanban(s) ==
  /\ phase[s] = "open"
  /\ cur[s] = 0
  /\ queue[s] # <<>>
  /\ queue' = [queue EXCEPT ![s] = Tail(@)]
  /\ taken' = [taken EXCEPT ![s] = Append(@, Head(queue[s]))]
  /\ cur' = [cur EXCEPT ![s] = IF static THEN 0 ELSE Head(queue[s])]
  /\ UNCHANGED <<vars, phase, wire, ended, call, callVars>>

\* A receiver of a topic deletes a kanban; the call may be carried out late.
DeleteTaken(s) ==
  /\ \E i \in DOMAIN taken[s] : DeleteStaticKanban(s, taken[s][i])
  /\ UNCHANGED clientVars

-----------------------------------------------------------------------------
(* Sending *)

Tries(s) == Cardinality({c \in failed : c[1] = s /\ c[2] = cur[s]})

\* OutputKanban for the kanban at hand, again if it has failed.
OutputKanban(s) ==
  /\ phase[s] = "open"
  /\ cur[s] # 0
  /\ call[s] = NoCall
  /\ Tries(s) <= MaxTry
  /\ call' = [call EXCEPT ![s] = <<s, cur[s], Tries(s) + 1>>]
  /\ pending' = pending \cup {<<s, cur[s], Tries(s) + 1>>}
  /\ UNCHANGED <<vars, phase, recvVars, cur, taken, written, acked, failed>>

\* The microservice puts out nothing (more) for this kanban.
GiveUp(s) ==
  /\ cur[s] # 0
  /\ call[s] = NoCall
  /\ cur' = [cur EXCEPT ![s] = 0]
  /\ UNCHANGED <<vars, phase, recvVars, call, taken, callVars>>

\* The server carries a call out.  It does not look at the context of the call,
\* so it may do so after the client has given up.
SendKanban(c) ==
  /\ c \in pending
  /\ pending' = pending \ {c}
  /\ written' = written \cup {c}
  /\ UNCHANGED <<vars, phase, recvVars, appVars, acked, failed>>

\* A call gets lost or fails at redis.
LoseCall(c) ==
  /\ c \in pending
  /\ pending' = pending \ {c}
  /\ UNCHANGED <<vars, phase, recvVars, appVars, written, acked, failed>>

\* The answer of the server.
ReturnOK(s) ==
  /\ call[s] \in written
  /\ acked' = acked \cup {call[s]}
  /\ call' = [call EXCEPT ![s] = NoCall]
  /\ cur' = [cur EXCEPT ![s] = 0]
  /\ UNCHANGED <<vars, phase, recvVars, taken, pending, written, failed>>

\* Mutant: without a timeout, nothing comes back of a call that got lost.
ReturnErrorAnswered(s) ==
  /\ call[s] \in pending \cup written
  /\ failed' = failed \cup {call[s]}
  /\ call' = [call EXCEPT ![s] = NoCall]
  /\ UNCHANGED <<vars, phase, recvVars, cur, taken, pending, written, acked>>

\* Mutant: a timeout is taken for success.
TimeoutIsSuccess(s) ==
  /\ call[s] # NoCall
  /\ acked' = acked \cup {call[s]}
  /\ call' = [call EXCEPT ![s] = NoCall]
  /\ cur' = [cur EXCEPT ![s] = 0]
  /\ UNCHANGED <<vars, phase, recvVars, taken, pending, written, failed>>

\* An error: the call has failed, or a second is over.
ReturnError(s) ==
  /\ call[s] # NoCall
  /\ failed' = failed \cup {call[s]}
  /\ call' = [call EXCEPT ![s] = NoCall]
  /\ UNCHANGED <<vars, phase, recvVars, cur, taken, pending, written, acked>>

-----------------------------------------------------------------------------
(* The end of a client *)

\* Close sends the terminate kanban.
Close(s) ==
  /\ ~static
  /\ phase[s] = "open"
  /\ cur[s] = 0
  /\ phase' = [phase EXCEPT ![s] = "closing"]
  /\ call' = [call EXCEPT ![s] = Terminate(s)]
  /\ pending' = pending \cup {Terminate(s)}
  /\ UNCHANGED <<vars, recvVars, cur, taken, written, acked, failed>>

HangUp(s) ==
  /\ \/ Disconnect(s) /\ Breaks(s)
     \/ link[s] = "broken" /\ UNCHANGED <<vars, wire>>
  /\ UNCHANGED <<queue, ended, appVars, callVars>>

\* Mutant: the connections are closed without waiting for the terminate call.
CloseAtOnce(s) ==
  /\ phase[s] = "closing" \/ (static /\ phase[s] = "open")
  /\ phase' = [phase EXCEPT ![s] = "closed"]
  /\ HangUp(s)

\* Whether it could be sent or not, both connections are closed; a call of
\* GetStaticKanban ends when its context is cancelled.
CloseConns(s) ==
  /\ phase[s] = "closing" \/ (static /\ phase[s] = "open")
  /\ call[s] = NoCall
  /\ phase' = [phase EXCEPT ![s] = "closed"]
  /\ HangUp(s)

\* The process of the microservice ends without a Close.
Crash(s) ==
  /\ phase[s] \in {"open", "closing", "closed"}
  /\ phase' = [phase EXCEPT ![s] = "dead"]
  /\ Disconnect(s) \/ (link[s] = "broken" /\ UNCHANGED vars)
  /\ wire' = [wire EXCEPT ![s] = <<>>]
  /\ queue' = [queue EXCEPT ![s] = <<>>]
  /\ cur' = [cur EXCEPT ![s] = 0]
  /\ call' = [call EXCEPT ![s] = NoCall]
  /\ UNCHANGED <<ended, taken, callVars>>

-----------------------------------------------------------------------------
ClientInit ==
  /\ Init
  /\ phase = [s \in Session |-> "none"]
  /\ wire = [s \in Session |-> <<>>]
  /\ queue = [s \in Session |-> <<>>]
  /\ ended = [s \in Session |-> FALSE]
  /\ cur = [s \in Session |-> 0]
  /\ call = [s \in Session |-> NoCall]
  /\ pending = {}
  /\ taken = [s \in Session |-> <<>>]
  /\ written = {}
  /\ acked = {}
  /\ failed = {}

Receiver(s) == Recv(s) \/ RecvFails(s)
Return(s) == ReturnOK(s) \/ ReturnError(s)
Microservice(s) == GetOneKanban(s) \/ OutputKanban(s) \/ GiveUp(s)

ClientNext ==
  \/ ServerStep
  \/ ServerGoes
  \/ \E s \in Session :
       \/ Deliver(s) \/ ConnectionBreaks(s)
       \/ NewKanbanClient(s) \/ Receiver(s) \/ Microservice(s) \/ Return(s)
       \/ DeleteTaken(s) \/ Close(s) \/ CloseConns(s) \/ Crash(s)
  \/ \E c \in pending : SendKanban(c) \/ LoseCall(c)

ClientSpec == ClientInit /\ [][ClientNext]_allVars

\* The goroutines of the server and of the library run when they can, a call
\* returns (it has a timeout), and an open microservice goes on with its
\* kanbans.  It need not close, and nothing need fail.
ClientFairness ==
  \A s \in Session :
    /\ WF_allVars(Watcher(s) /\ UNCHANGED clientVars)
    /\ WF_allVars(Deliver(s) \/ ((HandOver(s) \/ RangeEnds(s) \/ SendFail(s))
                                 /\ UNCHANGED clientVars))
    /\ WF_allVars(Receiver(s))
    /\ WF_allVars(Microservice(s))
    /\ WF_allVars(Return(s))
    /\ WF_allVars(phase[s] = "closing" /\ CloseConns(s))

FairClientSpec == ClientSpec /\ ClientFairness

-----------------------------------------------------------------------------
(* Properties *)

TakenIDs(s) == {taken[s][i] : i \in DOMAIN taken[s]}

\* A microservice takes the kanbans of its session in order, none twice, and
\* leaves out none that was sent before one it took: through the handler, the
\* connection, the goroutine and the channel, kanbans are lost only at the end.
TakenInOrder ==
  \A s \in Session :
    /\ \A i, j \in DOMAIN taken[s] : i < j => taken[s][i] < taken[s][j]
    /\ \A id \in sent[s], j \in TakenIDs(s) : id < j => id \in TakenIDs(s)

\* The abstract stream again, now up to the microservice: what it has taken from
\* the channel is delivered.
TakenLog == INSTANCE KanbanLog WITH
              written   <- lastID,
              skipped   <- undecodable,
              removed   <- evicted \cup UNION {deletedBy[s] : s \in Session},
              delivered <- [s \in Session |-> TakenIDs(s)]

\* What KanbanLog promises of a stream holds for the microservice behind handler,
\* connection, goroutine and channel: kanbans in order, each at most once, and
\* none left out that can be decoded and is still in the stream.
LibraryImplementsLog == TakenLog!Spec

\* What a microservice was told of its calls is true.  A call that returned nil
\* has written its kanban; a kanban is written once more only if the call that
\* wrote it before had returned an error (its answer got lost, or the write
\* came after the timeout); and after Close only calls that have returned an
\* error still write, so that nothing unexpected follows the terminate kanban.
AnswersHold ==
  [][/\ acked' \subseteq written'
     /\ \A c \in written' \ written :
          /\ phase[c[1]] = "closed" => c \in failed
          /\ \A d \in written : d[1] = c[1] /\ d[2] = c[2] => {c, d} \cap failed # {}]_allVars

\* A kanban in the stream of a microservice that stays is taken by it, unless
\* someone removes it or the session breaks off.
EventuallyTaken ==
  \A s \in Session : \A id \in ID :
    (id \in stream \ undecodable /\ phase[s] = "open" /\ hpc[s] = "range")
      ~> \/ id \in TakenIDs(s) \/ TakenByOthers(s, id)
         \/ phase[s] # "open" \/ link[s] = "broken" \/ hpc[s] = "returned"

\* When the connection or the server's watcher ends, the channel is closed, so
\* that a range over it ends - except when a client was closed with more
\* kanbans than the channel holds: that goroutine waits for ever.
ChannelIsClosed ==
  \A s \in Session :
    (link[s] = "broken" \/ wpc[s] = "closed")
      ~> \/ ended[s] \/ phase[s] = "dead"
         \/ phase[s] \in {"closing", "closed"} /\ Len(queue[s]) > ChannelCap
=============================================================================
