---------------------------- MODULE KanbanStream ----------------------------
(***************************************************************************)
(* One redis stream of kanbans ("kanban:before:<service>:<number>" or      *)
(* "kanban:static:<topic>") as the kanban server uses it: writers append   *)
(* entries with XADD MAXLEN, and every ReceiveKanban/ReceiveStaticKanban   *)
(* call is a session of two goroutines, the gRPC handler and the           *)
(* WatchKanban loop, joined by an unbuffered channel.                      *)
(*                                                                         *)
(* Streams do not interact, so one stream is modelled.  Redis gives every  *)
(* entry an ID greater than all earlier ones: here 1, 2, 3, ...; 0 is the  *)
(* initPrevID of a watcher.                                                *)
(***************************************************************************)
EXTENDS Naturals, FiniteSets

CONSTANTS
  Session,    \* the calls of ReceiveKanban or ReceiveStaticKanban
  MaxLen,     \* the MAXLEN of XADD (50 in the code)
  MaxID       \* bound: the number of kanbans written to the stream

ASSUME MaxLenAssumption == MaxLen \in Nat \ {0}
ASSUME MaxIDAssumption == MaxID \in Nat

VARIABLES
  \* redis
  static,       \* a static stream (clients may delete entries by ID) or a
                \* before stream: it stays what it is
  stream,       \* the IDs of the entries now in the stream
  lastID,       \* the ID of the newest entry ever added
  undecodable,  \* the entries that unmarshalKanban rejects
  evicted,      \* history: entries removed by trimming, flush or a client
  \* the WatchKanban goroutine of a session
  wpc,          \* where it is in its loop
  prevID,       \* its local variables prevID
  nextID,       \* and nextID
  \* the gRPC handler goroutine of a session
  hpc,          \* where it is
  res,          \* the kanban it last took from recvCh (0: none)
  cancelled,    \* whether its deferred cancel() has run
  link,         \* the client's side of the gRPC stream
  \* history
  sent,         \* the kanbans for which stream.Send returned nil
  deletedBy,    \* the entries the session's watcher has XDELed
  lateXDel      \* the number of XDELs the watcher made after cancel()

redisVars   == <<static, stream, lastID, undecodable, evicted>>
watcherVars == <<wpc, prevID, nextID>>
handlerVars == <<hpc, res, cancelled, link>>
historyVars == <<sent, deletedBy, lateXDel>>
vars == <<static, stream, lastID, undecodable, evicted, wpc, prevID, nextID,
          hpc, res, cancelled, link, sent, deletedBy, lateXDel>>

ID == 1..MaxID

-----------------------------------------------------------------------------
(* redis *)

\* What XADD MAXLEN n leaves of S: its n newest entries.
Newest(S, n) == {x \in S : Cardinality({y \in S : y > x}) < n}

\* WriteKanban: XADD of one entry, which trims the oldest ones.  It is called
\* for SendKanban, SendStaticKanban and by the service broker.
AddEntry(decodable) ==
  /\ lastID < MaxID
  /\ lastID' = lastID + 1
  /\ stream' = Newest(stream \cup {lastID + 1}, MaxLen)
  /\ evicted' = evicted \cup ((stream \cup {lastID + 1}) \ stream')
  /\ undecodable' = IF decodable THEN undecodable
                    ELSE undecodable \cup {lastID + 1}
  /\ UNCHANGED static

WriteKanban ==
  /\ \E decodable \in BOOLEAN : AddEntry(decodable)
  /\ UNCHANGED <<watcherVars, handlerVars, historyVars>>

\* The service broker empties redis when it (re)starts.
FlushAll ==
  /\ stream # {}
  /\ stream' = {}
  /\ evicted' = evicted \cup stream
  /\ UNCHANGED <<static, lastID, undecodable, watcherVars, handlerVars, historyVars>>

\* DeleteStaticKanban: a client deletes an entry that it has received.
DeleteStaticKanban(s, id) ==
  /\ static
  /\ id \in sent[s] \cap stream
  /\ stream' = stream \ {id}
  /\ evicted' = evicted \cup {id}
  /\ UNCHANGED <<static, lastID, undecodable, watcherVars, handlerVars, historyVars>>

-----------------------------------------------------------------------------
(* The WatchKanban goroutine *)

\* Mutant (a plausible mistake in place of the next action, for checking that
\* the properties notice it; not part of Next): the loop never looks at its context.
CheckContextNever(s) ==
  /\ wpc[s] = "check"
  /\ wpc' = [wpc EXCEPT ![s] = "reading"]
  /\ UNCHANGED <<redisVars, prevID, nextID, handlerVars, historyVars>>

\* The select at the top of the loop: a cancelled context ends the watcher
\* and closes its channel, otherwise it blocks in XREAD, which ignores the
\* context.
CheckContext(s) ==
  /\ wpc[s] = "check"
  /\ wpc' = [wpc EXCEPT ![s] = IF cancelled[s] THEN "closed" ELSE "reading"]
  /\ UNCHANGED <<redisVars, prevID, nextID, handlerVars, historyVars>>

\* Mutant: any later entry is taken, not the first one.
XReadAny(s) ==
  /\ wpc[s] = "reading"
  /\ \E id \in stream :
       /\ id > prevID[s]
       /\ nextID' = [nextID EXCEPT ![s] = id]
  /\ wpc' = [wpc EXCEPT ![s] = "got"]
  /\ UNCHANGED <<redisVars, prevID, handlerVars, historyVars>>

\* XREAD COUNT 1 BLOCK 0: the first entry after prevID.
XReadOne(s) ==
  /\ wpc[s] = "reading"
  /\ \E id \in stream :
       /\ id > prevID[s]
       /\ \A j \in stream : j > prevID[s] => id <= j
       /\ nextID' = [nextID EXCEPT ![s] = id]
  /\ wpc' = [wpc EXCEPT ![s] = "got"]
  /\ UNCHANGED <<redisVars, prevID, handlerVars, historyVars>>

\* XREAD fails (redis is away): the watcher returns and closes its channel.
XReadFail(s) ==
  /\ wpc[s] = "reading"
  /\ wpc' = [wpc EXCEPT ![s] = "closed"]
  /\ UNCHANGED <<redisVars, prevID, nextID, handlerVars, historyVars>>

\* Mutant: the entry just read is deleted instead of the one before it.
DeleteNewKanban(s) ==
  /\ wpc[s] = "got"
  /\ stream' = stream \ {nextID[s]}
  /\ deletedBy' = [deletedBy EXCEPT ![s] = @ \cup (stream \cap {nextID[s]})]
  /\ prevID' = [prevID EXCEPT ![s] = nextID[s]]
  /\ wpc' = [wpc EXCEPT ![s] =
               IF nextID[s] \in undecodable THEN "check" ELSE "sending"]
  /\ UNCHANGED <<static, lastID, undecodable, evicted, nextID, handlerVars, sent,
                 lateXDel>>

\* XDEL of the entry read before this one (a failure is only logged), then
\* prevID = nextID, and an entry that cannot be unmarshalled is skipped.
DeleteOldKanban(s) ==
  /\ wpc[s] = "got"
  /\ \/ /\ stream' = stream \ {prevID[s]}
        /\ deletedBy' = [deletedBy EXCEPT ![s] =
                           @ \cup (stream \cap {prevID[s]})]
        /\ lateXDel' = [lateXDel EXCEPT ![s] =
                          IF cancelled[s] THEN @ + 1 ELSE @]
     \/ UNCHANGED <<stream, deletedBy, lateXDel>>
  /\ prevID' = [prevID EXCEPT ![s] = nextID[s]]
  /\ wpc' = [wpc EXCEPT ![s] =
               IF nextID[s] \in undecodable THEN "check" ELSE "sending"]
  /\ UNCHANGED <<static, lastID, undecodable, evicted, nextID, handlerVars, sent>>

-----------------------------------------------------------------------------
(* The gRPC handler goroutine *)

\* A call of ReceiveKanban or ReceiveStaticKanban.  A client of a before
\* stream that starts without a kanban (START_SERVICE_WITHOUT_KANBAN) first
\* has one written for it.
Connect(s) ==
  /\ hpc[s] = "none"
  /\ \/ UNCHANGED redisVars
     \/ ~static /\ AddEntry(TRUE)
  /\ hpc' = [hpc EXCEPT ![s] = "range"]
  /\ link' = [link EXCEPT ![s] = "up"]
  /\ wpc' = [wpc EXCEPT ![s] = "check"]
  /\ UNCHANGED <<prevID, nextID, res, cancelled, historyVars>>

\* for res := range recvCh: the unbuffered channel passes one kanban over.
HandOver(s) ==
  /\ hpc[s] = "range"
  /\ wpc[s] = "sending"
  /\ res' = [res EXCEPT ![s] = prevID[s]]
  /\ hpc' = [hpc EXCEPT ![s] = "send"]
  /\ wpc' = [wpc EXCEPT ![s] = "check"]
  /\ UNCHANGED <<redisVars, prevID, nextID, cancelled, link, historyVars>>

\* stream.Send returns nil.  After the connection has broken gRPC may accept
\* a message that no client will see.
SendOK(s) ==
  /\ hpc[s] = "send"
  /\ hpc' = [hpc EXCEPT ![s] = "range"]
  /\ sent' = [sent EXCEPT ![s] = @ \cup {res[s]}]
  /\ UNCHANGED <<redisVars, watcherVars, res, cancelled, link,
                 deletedBy, lateXDel>>

\* stream.Send fails: the handler returns and its deferred cancel() runs.
SendFail(s) ==
  /\ hpc[s] = "send"
  /\ link[s] = "broken"
  /\ hpc' = [hpc EXCEPT ![s] = "returned"]
  /\ cancelled' = [cancelled EXCEPT ![s] = TRUE]
  /\ UNCHANGED <<redisVars, watcherVars, res, link, historyVars>>

\* The range loop ends when the watcher has closed the channel.
RangeEnds(s) ==
  /\ hpc[s] = "range"
  /\ wpc[s] = "closed"
  /\ hpc' = [hpc EXCEPT ![s] = "returned"]
  /\ cancelled' = [cancelled EXCEPT ![s] = TRUE]
  /\ UNCHANGED <<redisVars, watcherVars, res, link, historyVars>>

-----------------------------------------------------------------------------
(* The environment *)

\* The client goes away.  The handler's context comes from Background(), so
\* only a later Send notices.
Disconnect(s) ==
  /\ link[s] = "up"
  /\ link' = [link EXCEPT ![s] = "broken"]
  /\ UNCHANGED <<redisVars, watcherVars, hpc, res, cancelled, historyVars>>

\* The kanban server process stops: GracefulStop never ends by itself while
\* sessions are open, so they end where they are.  Redis keeps the stream.
ServerStops ==
  /\ \E s \in Session : hpc[s] \in {"range", "send"} \/ wpc[s] \notin {"none", "closed"}
  /\ hpc' = [s \in Session |-> IF hpc[s] = "none" THEN "none" ELSE "returned"]
  /\ wpc' = [s \in Session |-> IF wpc[s] = "none" THEN "none" ELSE "closed"]
  /\ cancelled' = [s \in Session |-> hpc[s] # "none"]
  /\ link' = [s \in Session |-> IF link[s] = "none" THEN "none" ELSE "broken"]
  /\ UNCHANGED <<redisVars, prevID, nextID, res, historyVars>>

-----------------------------------------------------------------------------
Init ==
  /\ static \in BOOLEAN
  /\ stream = {}
  /\ lastID = 0
  /\ undecodable = {}
  /\ evicted = {}
  /\ wpc = [s \in Session |-> "none"]
  /\ prevID = [s \in Session |-> 0]
  /\ nextID = [s \in Session |-> 0]
  /\ hpc = [s \in Session |-> "none"]
  /\ res = [s \in Session |-> 0]
  /\ cancelled = [s \in Session |-> FALSE]
  /\ link = [s \in Session |-> "none"]
  /\ sent = [s \in Session |-> {}]
  /\ deletedBy = [s \in Session |-> {}]
  /\ lateXDel = [s \in Session |-> 0]

Watcher(s) == CheckContext(s) \/ XReadOne(s) \/ DeleteOldKanban(s)

Handler(s) == HandOver(s) \/ SendOK(s) \/ RangeEnds(s)

Next ==
  \/ WriteKanban
  \/ FlushAll
  \/ ServerStops
  \/ \E s \in Session :
       \/ Connect(s)
       \/ Watcher(s)
       \/ XReadFail(s)
       \/ Handler(s)
       \/ SendFail(s)
       \/ Disconnect(s)
       \/ \E id \in ID : DeleteStaticKanban(s, id)

Spec == Init /\ [][Next]_vars

-----------------------------------------------------------------------------
(* Properties *)

\* The type of the stream, of the two goroutines' locals and of the history.
TypeOK ==
  /\ static \in BOOLEAN
  /\ stream \subseteq ID
  /\ lastID \in 0..MaxID
  /\ undecodable \subseteq ID
  /\ evicted \subseteq ID
  /\ wpc \in [Session -> {"none", "check", "reading", "got", "sending", "closed"}]
  /\ prevID \in [Session -> 0..MaxID]
  /\ nextID \in [Session -> 0..MaxID]
  /\ hpc \in [Session -> {"none", "range", "send", "returned"}]
  /\ res \in [Session -> 0..MaxID]
  /\ cancelled \in [Session -> BOOLEAN]
  /\ link \in [Session -> {"none", "up", "broken"}]
  /\ sent \in [Session -> SUBSET ID]
  /\ deletedBy \in [Session -> SUBSET ID]
  /\ lateXDel \in [Session -> Nat]

\* What a session can lose: of all the decodable entries that its WatchKanban
\* has removed from the stream, at most one, the kanban its handler holds, was
\* never sent (the entry is deleted while Send is under way, or after the
\* failed Send by a watcher that outlives its handler).
UnsentIsHeld ==
  \A s \in Session : deletedBy[s] \subseteq sent[s] \cup undecodable \cup {res[s]}

\* A WatchKanban that outlives its handler issues at most one more XDEL,
\* because XREAD and the channel ignore the cancelled context but the top of
\* the loop does not.
OneLateXDel == \A s \in Session : lateXDel[s] <= 1

\* The entry was taken from the stream by someone other than session s.
TakenByOthers(s, id) ==
  id \in evicted \/ \E t \in Session \ {s} : id \in deletedBy[t]

\* Every entry older than one a session has sent was sent by it too, was not
\* decodable, or was taken from the stream by someone else (trimming, a
\* flush, a client, another session): a session skips nothing by itself.
NoSilentSkip ==
  \A s \in Session : \A id \in ID :
    (\E j \in sent[s] : id < j)
      => id \in sent[s] \cup undecodable \/ TakenByOthers(s, id)

\* No session's watcher ever removes the newest kanban, so a microservice that
\* reconnects is given the last kanban of the stream again.
NewestStays == lastID > 0 => lastID \in stream \cup evicted

\* A session sends kanbans in the order of their IDs, and none twice, whatever
\* the other sessions delete from under it.
SendInOrder ==
  [][\A s \in Session :
       hpc[s] = "send" /\ hpc'[s] = "range" => \A j \in sent[s] : j < res[s]]_vars

\* The abstract stream that this module implements (refinement mapping: what
\* anyone has taken from redis is removed, what Send accepted is delivered).
Log == INSTANCE KanbanLog WITH
         written   <- lastID,
         skipped   <- undecodable,
         removed   <- evicted \cup UNION {deletedBy[s] : s \in Session},
         delivered <- sent

\* ReceiveKanban gives every session the kanbans of the stream in order and at
\* most once, and leaves out only undecodable or removed ones, although other
\* sessions, XADD's trimming and flushes remove entries while it reads.
ImplementsLog == Log!Spec

=============================================================================
