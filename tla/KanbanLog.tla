----------------------------- MODULE KanbanLog ------------------------------
(***************************************************************************)
(* What the kanban server promises of one stream, without redis, watchers  *)
(* or channels: kanbans are numbered as they are written, they may be      *)
(* removed at any time, and a session is given kanbans in order, each at   *)
(* most once, leaving out only what cannot be decoded or was removed.      *)
(***************************************************************************)
EXTENDS Naturals

CONSTANTS Session, MaxID

VARIABLES
  written,    \* how many kanbans have been written
  skipped,    \* the ones that no session can decode
  removed,    \* the ones taken from the stream
  delivered   \* delivered[s]: the kanbans given to session s

logVars == <<written, skipped, removed, delivered>>

Init ==
  /\ written = 0
  /\ skipped = {}
  /\ removed = {}
  /\ delivered = [s \in Session |-> {}]

\* A write may push older kanbans out of the stream.
Write ==
  /\ written < MaxID
  /\ written' = written + 1
  /\ skipped' \in {skipped, skipped \cup {written'}}
  /\ removed \subseteq removed'
  /\ removed' \subseteq 1..written'
  /\ UNCHANGED delivered

Remove ==
  /\ removed \subseteq removed'
  /\ removed' \subseteq 1..written
  /\ UNCHANGED <<written, skipped, delivered>>

Deliver(s, id) ==
  /\ id \in (1..written) \ skipped
  /\ \A j \in delivered[s] : j < id
  /\ \A j \in 1..(id - 1) : j \in delivered[s] \cup skipped \cup removed
  /\ delivered' = [delivered EXCEPT ![s] = @ \cup {id}]
  /\ UNCHANGED <<written, skipped, removed>>

Next ==
  \/ Write
  \/ Remove
  \/ \E s \in Session, id \in 1..MaxID : Deliver(s, id)

Spec == Init /\ [][Next]_logVars
=============================================================================
