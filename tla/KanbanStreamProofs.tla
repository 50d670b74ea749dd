------------------------- MODULE KanbanStreamProofs -------------------------
(***************************************************************************)
(* The safety properties of KanbanStream, for any number of sessions, any  *)
(* MAXLEN and any number of kanbans.                                       *)
(***************************************************************************)
EXTENDS KanbanStream, TLAPS

-----------------------------------------------------------------------------
(* The inductive invariant behind the safety properties *)

\* Every entry ever added is in the stream or was taken from it.
Accounted ==
  \A id \in ID : id <= lastID =>
    id \in stream \cup evicted \/ \E t \in Session : id \in deletedBy[t]

\* IDs are handed out in order, and nothing refers to a later one.
IDsInOrder ==
  /\ \A id \in stream \cup evicted \cup undecodable : id <= lastID
  /\ \A s \in Session :
       /\ prevID[s] <= lastID
       /\ nextID[s] <= lastID
       /\ res[s] <= prevID[s]
       /\ wpc[s] = "got" => prevID[s] < nextID[s]
       /\ wpc[s] = "sending" => res[s] < prevID[s]
       /\ \A id \in deletedBy[s] : id < prevID[s]
       /\ \A id \in sent[s] : id <= res[s]
       /\ hpc[s] = "send" => res[s] > 0 /\ res[s] \notin sent[s]

\* A session that has not started has done nothing, one that runs has a
\* handler, and exactly a returned handler has cancelled.
Lifecycle ==
  \A s \in Session :
    /\ wpc[s] = "none" <=> hpc[s] = "none"
    /\ hpc[s] = "none" => prevID[s] = 0
    /\ cancelled[s] <=> hpc[s] = "returned"
    /\ ~cancelled[s] => lateXDel[s] = 0
    /\ wpc[s] \in {"reading", "got"} => lateXDel[s] = 0

\* Where the entries up to a watcher's position are.
Handled(s, id) ==
  \/ id \in sent[s] \cup undecodable \cup {res[s]}
  \/ id = prevID[s] /\ wpc[s] \in {"sending", "closed"}

Position ==
  \A s \in Session :
    /\ hpc[s] = "range" => res[s] \in sent[s] \cup {0}
    /\ wpc[s] \in {"check", "reading", "got"} =>
         prevID[s] \in sent[s] \cup undecodable \cup {res[s], 0}
    /\ wpc[s] = "sending" => prevID[s] \notin undecodable
    /\ hpc[s] = "send" => res[s] \notin undecodable
    /\ \A id \in ID : id <= prevID[s] => Handled(s, id) \/ TakenByOthers(s, id)
    /\ wpc[s] = "got" =>
         \A id \in ID : prevID[s] < id /\ id < nextID[s] => TakenByOthers(s, id)

IInv ==
  /\ TypeOK
  /\ Accounted
  /\ IDsInOrder
  /\ Lifecycle
  /\ UnsentIsHeld
  /\ OneLateXDel
  /\ Position

-----------------------------------------------------------------------------
(* Initial states and single steps *)

\* The invariant holds when a stream is created and nobody reads it yet.
LEMMA InitIInv == Init => IInv
  BY MaxIDAssumption
  DEF Init, IInv, TypeOK, Accounted, IDsInOrder, Lifecycle, UnsentIsHeld,
      OneLateXDel, Position, Handled, TakenByOthers, ID

\* What XADD, or no redis operation at all, does to the entries.
RedisGrows ==
  /\ static' = static
  /\ lastID' \in 0..MaxID /\ lastID <= lastID'
  /\ stream' \subseteq ID /\ evicted' \subseteq ID /\ undecodable' \subseteq ID
  /\ \A id \in stream' \cup evicted' \cup undecodable' : id <= lastID'
  /\ \A id \in ID : id \in stream \cup evicted \/ (lastID < id /\ id <= lastID')
                      => id \in stream' \cup evicted'
  /\ evicted \subseteq evicted'
  /\ undecodable \subseteq undecodable'
  /\ \A id \in undecodable' : id <= lastID => id \in undecodable

\* XADD gives the new entry the next ID and evicts from the old end only.
LEMMA AddEntryGrows ==
  ASSUME TypeOK, IDsInOrder, NEW d \in BOOLEAN, AddEntry(d)
  PROVE  RedisGrows
<1> USE MaxIDAssumption DEF AddEntry, TypeOK, ID
<1>1. lastID \in Nat /\ lastID' = lastID + 1 /\ lastID' \in ID
  OBVIOUS
<1>2. stream' \subseteq stream \cup {lastID'}
  BY <1>1 DEF Newest
<1>3. evicted' \subseteq evicted \cup stream \cup {lastID'}
  BY <1>1
<1>4. undecodable' \subseteq undecodable \cup {lastID'} /\ undecodable \subseteq undecodable'
  BY <1>1
<1>5. stream \cup {lastID'} \subseteq stream' \cup evicted' /\ evicted \subseteq evicted'
  BY <1>1
<1>6. stream' \subseteq ID /\ evicted' \subseteq ID /\ undecodable' \subseteq ID
  BY <1>1, <1>2, <1>3, <1>4
<1>7. \A id \in stream' \cup evicted' \cup undecodable' : id <= lastID'
  <2> TAKE id \in stream' \cup evicted' \cup undecodable'
  <2>1. id \in stream \cup evicted \cup undecodable \/ id = lastID'
    BY <1>2, <1>3, <1>4
  <2>2. id \in stream \cup evicted \cup undecodable => id <= lastID
    BY DEF IDsInOrder
  <2> QED
    BY <1>1, <1>6, <2>1, <2>2
<1>8. \A id \in ID : id \in stream \cup evicted \/ (lastID < id /\ id <= lastID')
                       => id \in stream' \cup evicted'
  BY <1>1, <1>5
<1>9. lastID' \in 0..MaxID /\ lastID <= lastID'
  BY <1>1
<1>10. \A id \in undecodable' : id <= lastID => id \in undecodable
  BY <1>1, <1>4, <1>6
<1> QED
  BY <1>4, <1>5, <1>6, <1>7, <1>8, <1>9, <1>10 DEF RedisGrows

\* A step that leaves the stream alone evicts and deletes nothing.
LEMMA SameRedisGrows ==
  ASSUME TypeOK, IDsInOrder, UNCHANGED redisVars
  PROVE  RedisGrows
  BY MaxIDAssumption DEF RedisGrows, redisVars, TypeOK, IDsInOrder, ID

\* Every redis call and every step of a handler or a WatchKanban keeps it.
LEMMA NextIInv == IInv /\ [Next]_vars => IInv'
<1> SUFFICES ASSUME IInv, [Next]_vars PROVE IInv'
  OBVIOUS
<1> USE MaxIDAssumption DEF IInv, ID
<1> USE DEF redisVars, watcherVars, handlerVars, historyVars
<1>1. ASSUME NEW s \in Session, Connect(s) PROVE IInv'
  <2>0. RedisGrows
    BY <1>1, AddEntryGrows, SameRedisGrows DEF Connect
  <2>1. TypeOK'
    BY <1>1, <2>0 DEF Connect, RedisGrows, TypeOK
  <2>2. Accounted'
    BY <1>1, <2>0 DEF Connect, RedisGrows, TypeOK, Accounted, IDsInOrder
  <2>3. IDsInOrder'
    BY <1>1, <2>0 DEF Connect, RedisGrows, TypeOK, IDsInOrder, Lifecycle, Position
  <2>4. Lifecycle'
    BY <1>1, <2>0 DEF Connect, RedisGrows, TypeOK, Lifecycle
  <2>5. UnsentIsHeld'
    BY <1>1, <2>0 DEF Connect, RedisGrows, TypeOK, UnsentIsHeld, Lifecycle, Position, IDsInOrder
  <2>6. OneLateXDel'
    BY <1>1, <2>0 DEF Connect, RedisGrows, TypeOK, OneLateXDel, Lifecycle
  <2>7. Position'
    BY <1>1, <2>0 DEF Connect, RedisGrows, TypeOK, Position, Handled, TakenByOthers, Accounted, IDsInOrder, Lifecycle
  <2> QED
    BY <2>1, <2>2, <2>3, <2>4, <2>5, <2>6, <2>7
<1>2. ASSUME NEW s \in Session, CheckContext(s) PROVE IInv'
  <2>1. TypeOK'
    BY <1>2 DEF CheckContext, TypeOK
  <2>2. Accounted'
    BY <1>2 DEF CheckContext, TypeOK, Accounted, IDsInOrder
  <2>3. IDsInOrder'
    BY <1>2 DEF CheckContext, TypeOK, IDsInOrder, Lifecycle, Position
  <2>4. Lifecycle'
    BY <1>2 DEF CheckContext, TypeOK, Lifecycle
  <2>5. UnsentIsHeld'
    BY <1>2 DEF CheckContext, TypeOK, UnsentIsHeld, Lifecycle, Position, IDsInOrder
  <2>6. OneLateXDel'
    BY <1>2 DEF CheckContext, TypeOK, OneLateXDel, Lifecycle
  <2>7. Position'
    BY <1>2 DEF CheckContext, TypeOK, Position, Handled, TakenByOthers, Accounted, IDsInOrder, Lifecycle
  <2> QED
    BY <2>1, <2>2, <2>3, <2>4, <2>5, <2>6, <2>7
<1>3. ASSUME NEW s \in Session, XReadOne(s) PROVE IInv'
  <2>1. TypeOK'
    BY <1>3 DEF XReadOne, TypeOK
  <2>2. Accounted'
    BY <1>3 DEF XReadOne, TypeOK, Accounted, IDsInOrder
  <2>3. IDsInOrder'
    BY <1>3 DEF XReadOne, TypeOK, IDsInOrder, Lifecycle, Position
  <2>4. Lifecycle'
    BY <1>3 DEF XReadOne, TypeOK, Lifecycle
  <2>5. UnsentIsHeld'
    BY <1>3 DEF XReadOne, TypeOK, UnsentIsHeld, Lifecycle, Position, IDsInOrder
  <2>6. OneLateXDel'
    BY <1>3 DEF XReadOne, TypeOK, OneLateXDel, Lifecycle
  <2>7. Position'
    BY <1>3 DEF XReadOne, TypeOK, Position, Handled, TakenByOthers, Accounted, IDsInOrder, Lifecycle
  <2> QED
    BY <2>1, <2>2, <2>3, <2>4, <2>5, <2>6, <2>7
<1>4. ASSUME NEW s \in Session, DeleteOldKanban(s) PROVE IInv'
  <2>1. TypeOK'
    <3>1. stream' \subseteq ID
      BY <1>4 DEF DeleteOldKanban, TypeOK
    <3>2. deletedBy' \in [Session -> SUBSET ID]
      BY <1>4 DEF DeleteOldKanban, TypeOK
    <3>3. lateXDel' \in [Session -> Nat]
      BY <1>4 DEF DeleteOldKanban, TypeOK
    <3> QED
      BY <1>4, <3>1, <3>2, <3>3 DEF DeleteOldKanban, TypeOK
  <2>2. Accounted'
    BY <1>4 DEF DeleteOldKanban, TypeOK, Accounted, IDsInOrder
  <2>3. IDsInOrder'
    <3>1. \A id \in stream' \cup evicted' \cup undecodable' : id <= lastID'
      BY <1>4 DEF DeleteOldKanban, TypeOK, IDsInOrder
    <3>2. ASSUME NEW t \in Session PROVE \A id \in deletedBy'[t] : id < prevID'[t]
      <4>1. deletedBy'[t] \subseteq deletedBy[t] \cup (IF t = s THEN {prevID[s]} ELSE {})
        BY <1>4 DEF DeleteOldKanban, TypeOK
      <4>2. t = s => prevID[s] < nextID[s] /\ prevID'[t] = nextID[s]
        BY <1>4 DEF DeleteOldKanban, TypeOK, IDsInOrder
      <4>3. t # s => prevID'[t] = prevID[t]
        BY <1>4 DEF DeleteOldKanban, TypeOK
      <4> QED
        BY <4>1, <4>2, <4>3 DEF TypeOK, IDsInOrder
    <3>3. ASSUME NEW t \in Session
          PROVE  /\ prevID'[t] <= lastID' /\ nextID'[t] <= lastID' /\ res'[t] <= prevID'[t]
                 /\ wpc'[t] = "got" => prevID'[t] < nextID'[t]
                 /\ wpc'[t] = "sending" => res'[t] < prevID'[t]
                 /\ \A id \in sent'[t] : id <= res'[t]
                 /\ hpc'[t] = "send" => res'[t] > 0 /\ res'[t] \notin sent'[t]
      BY <1>4 DEF DeleteOldKanban, TypeOK, IDsInOrder
    <3> QED
      BY <3>1, <3>2, <3>3 DEF IDsInOrder
  <2>4. Lifecycle'
    BY <1>4 DEF DeleteOldKanban, TypeOK, Lifecycle
  <2>5. UnsentIsHeld'
    BY <1>4 DEF DeleteOldKanban, TypeOK, UnsentIsHeld, Lifecycle, Position, IDsInOrder
  <2>6. OneLateXDel'
    BY <1>4 DEF DeleteOldKanban, TypeOK, OneLateXDel, Lifecycle
  <2>7. Position'
    <3>0. prevID[s] \in 0..MaxID /\ nextID[s] \in 0..MaxID /\ prevID[s] < nextID[s]
      BY <1>4 DEF DeleteOldKanban, TypeOK, IDsInOrder
    <3>1. \A t \in Session, id \in ID : TakenByOthers(t, id) => TakenByOthers(t, id)'
      BY <1>4 DEF DeleteOldKanban, TypeOK, TakenByOthers
    <3>2. ASSUME NEW t \in Session, t # s
          PROVE  prevID'[t] = prevID[t] /\ wpc'[t] = wpc[t]
      BY <1>4, <3>2 DEF DeleteOldKanban, TypeOK
    <3>3. /\ prevID'[s] = nextID[s]
          /\ wpc'[s] \in {"check", "sending"}
          /\ wpc'[s] = "check" <=> nextID[s] \in undecodable
      BY <1>4 DEF DeleteOldKanban, TypeOK
    <3>4. ASSUME NEW id \in ID, id <= nextID[s]
          PROVE  Handled(s, id)' \/ TakenByOthers(s, id)'
      <4>1. CASE id = nextID[s]
        BY <1>4, <3>3, <4>1 DEF DeleteOldKanban, Handled
      <4>2. CASE prevID[s] < id /\ id < nextID[s]
        BY <1>4, <3>1, <4>2 DEF DeleteOldKanban, Position
      <4>3. CASE id <= prevID[s]
        BY <1>4, <3>0, <3>1, <4>3 DEF DeleteOldKanban, Position, Handled
      <4> QED
        BY <3>0, <3>4, <4>1, <4>2, <4>3
    <3>5. ASSUME NEW t \in Session, NEW id \in ID, id <= prevID'[t]
          PROVE  Handled(t, id)' \/ TakenByOthers(t, id)'
      <4>1. CASE t = s
        BY <3>3, <3>4, <3>5, <4>1
      <4>2. CASE t # s
        BY <1>4, <3>1, <3>2, <3>5, <4>2 DEF DeleteOldKanban, Position, Handled
      <4> QED
        BY <4>1, <4>2
    <3>6. ASSUME NEW t \in Session, wpc'[t] = "got"
          PROVE  \A id \in ID : prevID'[t] < id /\ id < nextID'[t] => TakenByOthers(t, id)'
      BY <1>4, <3>1, <3>2, <3>3, <3>6 DEF DeleteOldKanban, Position
    <3>7. ASSUME NEW t \in Session
          PROVE  /\ hpc'[t] = "range" => res'[t] \in sent'[t] \cup {0}
                 /\ wpc'[t] \in {"check", "reading", "got"} =>
                      prevID'[t] \in sent'[t] \cup undecodable' \cup {res'[t], 0}
                 /\ wpc'[t] = "sending" => prevID'[t] \notin undecodable'
                 /\ hpc'[t] = "send" => res'[t] \notin undecodable'
      BY <1>4, <3>2, <3>3 DEF DeleteOldKanban, Position
    <3> QED
      BY <3>5, <3>6, <3>7 DEF Position
  <2> QED
    BY <2>1, <2>2, <2>3, <2>4, <2>5, <2>6, <2>7
<1>5. ASSUME NEW s \in Session, XReadFail(s) PROVE IInv'
  <2>1. TypeOK'
    BY <1>5 DEF XReadFail, TypeOK
  <2>2. Accounted'
    BY <1>5 DEF XReadFail, TypeOK, Accounted, IDsInOrder
  <2>3. IDsInOrder'
    BY <1>5 DEF XReadFail, TypeOK, IDsInOrder, Lifecycle, Position
  <2>4. Lifecycle'
    BY <1>5 DEF XReadFail, TypeOK, Lifecycle
  <2>5. UnsentIsHeld'
    BY <1>5 DEF XReadFail, TypeOK, UnsentIsHeld, Lifecycle, Position, IDsInOrder
  <2>6. OneLateXDel'
    BY <1>5 DEF XReadFail, TypeOK, OneLateXDel, Lifecycle
  <2>7. Position'
    BY <1>5 DEF XReadFail, TypeOK, Position, Handled, TakenByOthers, Accounted, IDsInOrder, Lifecycle
  <2> QED
    BY <2>1, <2>2, <2>3, <2>4, <2>5, <2>6, <2>7
<1>6. ASSUME NEW s \in Session, HandOver(s) PROVE IInv'
  <2>1. TypeOK'
    BY <1>6 DEF HandOver, TypeOK
  <2>2. Accounted'
    BY <1>6 DEF HandOver, TypeOK, Accounted, IDsInOrder
  <2>3. IDsInOrder'
    BY <1>6 DEF HandOver, TypeOK, IDsInOrder, Lifecycle, Position
  <2>4. Lifecycle'
    BY <1>6 DEF HandOver, TypeOK, Lifecycle
  <2>5. UnsentIsHeld'
    BY <1>6 DEF HandOver, TypeOK, UnsentIsHeld, Lifecycle, Position, IDsInOrder
  <2>6. OneLateXDel'
    BY <1>6 DEF HandOver, TypeOK, OneLateXDel, Lifecycle
  <2>7. Position'
    BY <1>6 DEF HandOver, TypeOK, Position, Handled, TakenByOthers, Accounted, IDsInOrder, Lifecycle
  <2> QED
    BY <2>1, <2>2, <2>3, <2>4, <2>5, <2>6, <2>7
<1>7. ASSUME NEW s \in Session, SendOK(s) PROVE IInv'
  <2>1. TypeOK'
    BY <1>7 DEF SendOK, TypeOK, IDsInOrder
  <2>2. Accounted'
    BY <1>7 DEF SendOK, TypeOK, Accounted, IDsInOrder
  <2>3. IDsInOrder'
    BY <1>7 DEF SendOK, TypeOK, IDsInOrder, Lifecycle, Position
  <2>4. Lifecycle'
    BY <1>7 DEF SendOK, TypeOK, Lifecycle
  <2>5. UnsentIsHeld'
    BY <1>7 DEF SendOK, TypeOK, UnsentIsHeld, Lifecycle, Position, IDsInOrder
  <2>6. OneLateXDel'
    BY <1>7 DEF SendOK, TypeOK, OneLateXDel, Lifecycle
  <2>7. Position'
    BY <1>7 DEF SendOK, TypeOK, Position, Handled, TakenByOthers, Accounted, IDsInOrder, Lifecycle
  <2> QED
    BY <2>1, <2>2, <2>3, <2>4, <2>5, <2>6, <2>7
<1>8. ASSUME NEW s \in Session, RangeEnds(s) PROVE IInv'
  <2>1. TypeOK'
    BY <1>8 DEF RangeEnds, TypeOK
  <2>2. Accounted'
    BY <1>8 DEF RangeEnds, TypeOK, Accounted, IDsInOrder
  <2>3. IDsInOrder'
    BY <1>8 DEF RangeEnds, TypeOK, IDsInOrder, Lifecycle, Position
  <2>4. Lifecycle'
    BY <1>8 DEF RangeEnds, TypeOK, Lifecycle
  <2>5. UnsentIsHeld'
    BY <1>8 DEF RangeEnds, TypeOK, UnsentIsHeld, Lifecycle, Position, IDsInOrder
  <2>6. OneLateXDel'
    BY <1>8 DEF RangeEnds, TypeOK, OneLateXDel, Lifecycle
  <2>7. Position'
    BY <1>8 DEF RangeEnds, TypeOK, Position, Handled, TakenByOthers, Accounted, IDsInOrder, Lifecycle
  <2> QED
    BY <2>1, <2>2, <2>3, <2>4, <2>5, <2>6, <2>7
<1>9. ASSUME NEW s \in Session, SendFail(s) PROVE IInv'
  <2>1. TypeOK'
    BY <1>9 DEF SendFail, TypeOK
  <2>2. Accounted'
    BY <1>9 DEF SendFail, TypeOK, Accounted, IDsInOrder
  <2>3. IDsInOrder'
    BY <1>9 DEF SendFail, TypeOK, IDsInOrder, Lifecycle, Position
  <2>4. Lifecycle'
    BY <1>9 DEF SendFail, TypeOK, Lifecycle
  <2>5. UnsentIsHeld'
    BY <1>9 DEF SendFail, TypeOK, UnsentIsHeld, Lifecycle, Position, IDsInOrder
  <2>6. OneLateXDel'
    BY <1>9 DEF SendFail, TypeOK, OneLateXDel, Lifecycle
  <2>7. Position'
    BY <1>9 DEF SendFail, TypeOK, Position, Handled, TakenByOthers, Accounted, IDsInOrder, Lifecycle
  <2> QED
    BY <2>1, <2>2, <2>3, <2>4, <2>5, <2>6, <2>7
<1>10. ASSUME NEW s \in Session, Disconnect(s) PROVE IInv'
  <2>1. TypeOK'
    BY <1>10 DEF Disconnect, TypeOK
  <2>2. Accounted'
    BY <1>10 DEF Disconnect, TypeOK, Accounted, IDsInOrder
  <2>3. IDsInOrder'
    BY <1>10 DEF Disconnect, TypeOK, IDsInOrder, Lifecycle, Position
  <2>4. Lifecycle'
    BY <1>10 DEF Disconnect, TypeOK, Lifecycle
  <2>5. UnsentIsHeld'
    BY <1>10 DEF Disconnect, TypeOK, UnsentIsHeld, Lifecycle, Position, IDsInOrder
  <2>6. OneLateXDel'
    BY <1>10 DEF Disconnect, TypeOK, OneLateXDel, Lifecycle
  <2>7. Position'
    BY <1>10 DEF Disconnect, TypeOK, Position, Handled, TakenByOthers, Accounted, IDsInOrder, Lifecycle
  <2> QED
    BY <2>1, <2>2, <2>3, <2>4, <2>5, <2>6, <2>7
<1>11. ASSUME NEW s \in Session, NEW id \in ID, DeleteStaticKanban(s, id) PROVE IInv'
  <2>1. TypeOK'
    BY <1>11 DEF DeleteStaticKanban, TypeOK
  <2>2. Accounted'
    BY <1>11 DEF DeleteStaticKanban, TypeOK, Accounted, IDsInOrder
  <2>3. IDsInOrder'
    BY <1>11 DEF DeleteStaticKanban, TypeOK, IDsInOrder, Lifecycle, Position
  <2>4. Lifecycle'
    BY <1>11 DEF DeleteStaticKanban, TypeOK, Lifecycle
  <2>5. UnsentIsHeld'
    BY <1>11 DEF DeleteStaticKanban, TypeOK, UnsentIsHeld, Lifecycle, Position, IDsInOrder
  <2>6. OneLateXDel'
    BY <1>11 DEF DeleteStaticKanban, TypeOK, OneLateXDel, Lifecycle
  <2>7. Position'
    BY <1>11 DEF DeleteStaticKanban, TypeOK, Position, Handled, TakenByOthers, Accounted, IDsInOrder, Lifecycle
  <2> QED
    BY <2>1, <2>2, <2>3, <2>4, <2>5, <2>6, <2>7
<1>12. CASE WriteKanban
  <2>0. RedisGrows
    BY <1>12, AddEntryGrows DEF WriteKanban
  <2>1. TypeOK'
    BY <1>12, <2>0 DEF WriteKanban, RedisGrows, TypeOK
  <2>2. Accounted'
    BY <1>12, <2>0 DEF WriteKanban, RedisGrows, TypeOK, Accounted, IDsInOrder
  <2>3. IDsInOrder'
    BY <1>12, <2>0 DEF WriteKanban, RedisGrows, TypeOK, IDsInOrder, Lifecycle, Position
  <2>4. Lifecycle'
    BY <1>12, <2>0 DEF WriteKanban, RedisGrows, TypeOK, Lifecycle
  <2>5. UnsentIsHeld'
    BY <1>12, <2>0 DEF WriteKanban, RedisGrows, TypeOK, UnsentIsHeld, Lifecycle, Position, IDsInOrder
  <2>6. OneLateXDel'
    BY <1>12, <2>0 DEF WriteKanban, RedisGrows, TypeOK, OneLateXDel, Lifecycle
  <2>7. Position'
    BY <1>12, <2>0 DEF WriteKanban, RedisGrows, TypeOK, Position, Handled, TakenByOthers, Accounted, IDsInOrder, Lifecycle
  <2> QED
    BY <2>1, <2>2, <2>3, <2>4, <2>5, <2>6, <2>7
<1>13. CASE FlushAll
  <2>1. TypeOK'
    BY <1>13 DEF FlushAll, TypeOK
  <2>2. Accounted'
    BY <1>13 DEF FlushAll, TypeOK, Accounted, IDsInOrder
  <2>3. IDsInOrder'
    BY <1>13 DEF FlushAll, TypeOK, IDsInOrder, Lifecycle, Position
  <2>4. Lifecycle'
    BY <1>13 DEF FlushAll, TypeOK, Lifecycle
  <2>5. UnsentIsHeld'
    BY <1>13 DEF FlushAll, TypeOK, UnsentIsHeld, Lifecycle, Position, IDsInOrder
  <2>6. OneLateXDel'
    BY <1>13 DEF FlushAll, TypeOK, OneLateXDel, Lifecycle
  <2>7. Position'
    BY <1>13 DEF FlushAll, TypeOK, Position, Handled, TakenByOthers, Accounted, IDsInOrder, Lifecycle
  <2> QED
    BY <2>1, <2>2, <2>3, <2>4, <2>5, <2>6, <2>7
<1>14. CASE ServerStops
  <2>1. TypeOK'
    BY <1>14 DEF ServerStops, TypeOK
  <2>2. Accounted'
    BY <1>14 DEF ServerStops, TypeOK, Accounted, IDsInOrder
  <2>3. IDsInOrder'
    BY <1>14 DEF ServerStops, TypeOK, IDsInOrder, Lifecycle, Position
  <2>4. Lifecycle'
    BY <1>14 DEF ServerStops, TypeOK, Lifecycle
  <2>5. UnsentIsHeld'
    BY <1>14 DEF ServerStops, TypeOK, UnsentIsHeld, Lifecycle, Position, IDsInOrder
  <2>6. OneLateXDel'
    BY <1>14 DEF ServerStops, TypeOK, OneLateXDel, Lifecycle
  <2>7. Position'
    BY <1>14 DEF ServerStops, TypeOK, Position, Handled, TakenByOthers, Accounted, IDsInOrder, Lifecycle
  <2> QED
    BY <2>1, <2>2, <2>3, <2>4, <2>5, <2>6, <2>7
<1>15. CASE UNCHANGED vars
  BY <1>15 DEF vars, TypeOK, Accounted, IDsInOrder, Lifecycle, UnsentIsHeld,
     OneLateXDel, Position, Handled, TakenByOthers
<1> QED
  BY <1>1, <1>2, <1>3, <1>4, <1>5, <1>6, <1>7, <1>8, <1>9, <1>10, <1>11, <1>12, <1>13, <1>14, <1>15 DEF Next, Watcher, Handler

-----------------------------------------------------------------------------
(* The theorems *)

\* The inductive invariant holds throughout, for any number of sessions.
THEOREM IInvHolds == Spec => []IInv
  BY InitIInv, NextIInv, PTL DEF Spec

\* The stream, both goroutines of every session and the history variables keep
\* their types in every run of the kanban server.
THEOREM TypeCorrect == Spec => []TypeOK
<1>1. IInv => TypeOK
  BY DEF IInv
<1> QED
  BY <1>1, IInvHolds, PTL

\* However many sessions read a stream and end in whatever state, the XDELs of
\* one WatchKanban lose at most the one kanban that its handler failed to send.
THEOREM LossIsBounded == Spec => []UnsentIsHeld
<1>1. IInv => UnsentIsHeld
  BY DEF IInv
<1> QED
  BY <1>1, IInvHolds, PTL

\* A WatchKanban whose handler has returned deletes at most one more entry.
THEOREM ZombieIsBounded == Spec => []OneLateXDel
<1>1. IInv => OneLateXDel
  BY DEF IInv
<1> QED
  BY <1>1, IInvHolds, PTL

\* What is older than a kanban that a session has sent is accounted for.
LEMMA SkippedBySession == IInv => NoSilentSkip
<1> SUFFICES ASSUME IInv, NEW s \in Session, NEW id \in ID, NEW j \in sent[s], id < j
             PROVE  id \in sent[s] \cup undecodable \/ TakenByOthers(s, id)
  BY DEF NoSilentSkip
<1>1. j <= res[s] /\ res[s] <= prevID[s] /\ j \in ID
  BY DEF IInv, IDsInOrder, TypeOK
<1>2. id < res[s] /\ id < prevID[s]
  BY <1>1, MaxIDAssumption DEF IInv, TypeOK, ID
<1>3. Handled(s, id) \/ TakenByOthers(s, id)
  BY <1>2, MaxIDAssumption DEF IInv, Position, TypeOK, ID
<1> QED
  BY <1>2, <1>3, MaxIDAssumption DEF Handled, IInv, TypeOK, ID

\* A session never passes over a decodable kanban that nobody else removed.
THEOREM SkipsNothing == Spec => []NoSilentSkip
  BY SkippedBySession, IInvHolds, PTL

\* No WatchKanban ever deletes the newest kanban of the stream.
THEOREM NewestIsKept == Spec => []NewestStays
<1>1. IInv => NewestStays
  <2> SUFFICES ASSUME IInv, lastID > 0 PROVE lastID \in stream \cup evicted
    BY DEF NewestStays
  <2>1. lastID \in ID
    BY MaxIDAssumption DEF IInv, TypeOK, ID
  <2>2. \A t \in Session : lastID \notin deletedBy[t]
    BY <2>1, MaxIDAssumption DEF IInv, IDsInOrder, TypeOK, ID
  <2> QED
    BY <2>1, <2>2, MaxIDAssumption DEF IInv, Accounted, TypeOK
<1> QED
  BY <1>1, IInvHolds, PTL

\* A session sends every kanban at most once and in the order of the stream.
THEOREM SendsInOrder == Spec => SendInOrder
<1>1. IInv => \A s \in Session : hpc[s] = "send" => \A j \in sent[s] : j < res[s]
  BY MaxIDAssumption DEF IInv, IDsInOrder, TypeOK, ID
<1>2. IInv /\ [Next]_vars =>
        [\A s \in Session : hpc[s] = "send" /\ hpc'[s] = "range"
                              => \A j \in sent[s] : j < res[s]]_vars
  BY <1>1
<1> QED
  BY <1>2, IInvHolds, PTL DEF Spec, SendInOrder

-----------------------------------------------------------------------------
(* Refinement *)

Removed == evicted \cup UNION {deletedBy[s] : s \in Session}

\* Everything removed had been written.
LEMMA RemovedWritten == IInv => Removed \subseteq 1..lastID
<1> SUFFICES ASSUME IInv, NEW id \in Removed PROVE id \in 1..lastID
  OBVIOUS
<1> USE MaxIDAssumption DEF IInv, TypeOK, IDsInOrder, ID
<1>1. CASE id \in evicted
  BY <1>1
<1>2. ASSUME NEW s \in Session, id \in deletedBy[s] PROVE id \in 1..lastID
  BY <1>2
<1> QED
  BY <1>1, <1>2 DEF Removed

\* Each step of the handlers, the watchers and redis is one of KanbanLog.
LEMMA StepOfLog == IInv /\ IInv' /\ [Next]_vars => [Log!Next]_Log!logVars
<1> SUFFICES ASSUME IInv, IInv', [Next]_vars PROVE [Log!Next]_Log!logVars
  OBVIOUS
<1> USE DEF redisVars, watcherVars, handlerVars, historyVars
<1>0. (Removed \subseteq 1..lastID)'
  BY RemovedWritten, PTL
<1>1. evicted \subseteq evicted' /\ \A t \in Session : deletedBy[t] \subseteq deletedBy'[t]
  BY DEF IInv, TypeOK, Next, Watcher, Handler, vars, WriteKanban, AddEntry, FlushAll,
         ServerStops, Connect, CheckContext, XReadOne, DeleteOldKanban, XReadFail,
         HandOver, SendOK, RangeEnds, SendFail, Disconnect, DeleteStaticKanban
<1>2. Removed \subseteq Removed'
  BY <1>1 DEF Removed
<1>3. ASSUME NEW d \in BOOLEAN, AddEntry(d), UNCHANGED sent PROVE Log!Next
  <2>1. lastID < MaxID /\ lastID' = lastID + 1
        /\ undecodable' \in {undecodable, undecodable \cup {lastID'}}
    BY <1>3 DEF AddEntry
  <2>2. Log!Write
    BY <1>0, <1>2, <1>3, <2>1 DEF Log!Write, Removed
  <2> QED
    BY <2>2 DEF Log!Next
<1>4. ASSUME UNCHANGED <<lastID, undecodable, sent>> PROVE Log!Next
  <2>1. Log!Remove
    BY <1>0, <1>2, <1>4 DEF Log!Remove, Removed
  <2> QED
    BY <2>1 DEF Log!Next
<1>5. ASSUME NEW s \in Session, SendOK(s) PROVE Log!Next
  <2> DEFINE id == res[s]
  <2>1. /\ id \in ID /\ id <= lastID /\ id <= prevID[s] /\ id \notin undecodable
        /\ \A j \in sent[s] : j < id
    <3>1. hpc[s] = "send" /\ res[s] \in 0..MaxID /\ prevID[s] \in 0..MaxID /\ lastID \in 0..MaxID
          /\ sent[s] \subseteq ID
      BY <1>5 DEF SendOK, IInv, TypeOK
    <3>2. res[s] > 0 /\ res[s] \notin sent[s] /\ res[s] <= prevID[s] /\ prevID[s] <= lastID
          /\ \A j \in sent[s] : j <= res[s]
      BY <3>1 DEF IInv, IDsInOrder
    <3>3. res[s] \notin undecodable
      BY <3>1 DEF IInv, Position
    <3> QED
      BY <3>1, <3>2, <3>3, MaxIDAssumption DEF ID
  <2>2. ASSUME NEW j \in 1..(id - 1) PROVE j \in sent[s] \cup undecodable \cup Removed
    <3>1. j \in ID /\ j < id /\ j < prevID[s]
      BY <2>1, MaxIDAssumption DEF IInv, TypeOK, ID
    <3>2. Handled(s, j) \/ TakenByOthers(s, j)
      BY <3>1, MaxIDAssumption DEF IInv, Position, TypeOK, ID
    <3>3. TakenByOthers(s, j) => j \in Removed
      BY DEF TakenByOthers, Removed
    <3>4. Handled(s, j) => j \in sent[s] \cup undecodable
      BY <3>1, MaxIDAssumption DEF Handled, IInv, TypeOK, ID
    <3> QED
      BY <3>2, <3>3, <3>4
  <2>3. sent' = [sent EXCEPT ![s] = @ \cup {id}]
    BY <1>5 DEF SendOK
  <2>4. UNCHANGED <<lastID, undecodable, evicted, deletedBy>>
    BY <1>5 DEF SendOK
  <2>5. Log!Deliver(s, id)
    <3>1. id \in (1..lastID) \ undecodable
      BY <2>1, MaxIDAssumption DEF ID, IInv, TypeOK
    <3>2. Removed' = Removed
      BY <2>4 DEF Removed
    <3> HIDE DEF id
    <3> QED
      BY <2>1, <2>2, <2>3, <2>4, <3>1, <3>2 DEF Log!Deliver, Removed
  <2> QED
    BY <2>1, <2>5 DEF Log!Next, ID
<1>6. CASE \/ WriteKanban \/ \E s \in Session : Connect(s)
  BY <1>3, <1>4, <1>6 DEF WriteKanban, Connect
<1>7. CASE \/ FlushAll \/ ServerStops
           \/ \E s \in Session :
                \/ CheckContext(s) \/ XReadOne(s) \/ DeleteOldKanban(s) \/ XReadFail(s)
                \/ HandOver(s) \/ RangeEnds(s) \/ SendFail(s) \/ Disconnect(s)
                \/ \E id \in ID : DeleteStaticKanban(s, id)
  BY <1>4, <1>7
  DEF FlushAll, ServerStops, CheckContext, XReadOne, DeleteOldKanban, XReadFail,
      HandOver, RangeEnds, SendFail, Disconnect, DeleteStaticKanban
<1>8. CASE UNCHANGED vars
  BY <1>4, <1>8 DEF vars
<1> QED
  BY <1>5, <1>6, <1>7, <1>8 DEF Next, Watcher, Handler

\* The kanban server's streams implement KanbanLog.
THEOREM Refinement == Spec => ImplementsLog
<1>1. Init => Log!Init
  BY DEF Init, Log!Init
<1> QED
  BY <1>1, StepOfLog, IInvHolds, PTL DEF Spec, ImplementsLog, Log!Spec
=============================================================================
