--------------------------- MODULE DocumentService ---------------------------
(***************************************************************************)
(* What DocumentPipeline promises its callers, without stages, queues or   *)
(* threads: every accepted document is settled exactly once, as a result   *)
(* or as a failure; results come out in the order of acceptance; after     *)
(* close nothing is accepted, and the service stops only when every        *)
(* document is settled.  Documents are numbered in the order of acceptance.*)
(***************************************************************************)
EXTENDS Naturals, Sequences

VARIABLES
  accepted,   (* how many documents have been accepted                     *)
  closed,     (* close has been called                                     *)
  stopped,    (* all work has ended                                        *)
  results,    (* published documents, in order of publication              *)
  failed      (* documents that failed                                     *)

vars == <<accepted, closed, stopped, results, failed>>

Published == {results[k] : k \in DOMAIN results}
Pending == {d \in 1 .. accepted : d \notin Published /\ d \notin failed}

Init ==
  /\ accepted = 0
  /\ closed = FALSE
  /\ stopped = FALSE
  /\ results = <<>>
  /\ failed = {}

Accept ==
  /\ ~closed
  /\ accepted' = accepted + 1
  /\ UNCHANGED <<closed, stopped, results, failed>>

(* Every document accepted earlier has been settled before d. *)
Publish(d) ==
  /\ d \in Pending
  /\ \A e \in Pending : d <= e
  /\ results' = Append(results, d)
  /\ UNCHANGED <<accepted, closed, stopped, failed>>

Fail(d) ==
  /\ d \in Pending
  /\ failed' = failed \cup {d}
  /\ UNCHANGED <<accepted, closed, stopped, results>>

Close ==
  /\ closed' = TRUE
  /\ UNCHANGED <<accepted, stopped, results, failed>>

Stop ==
  /\ closed
  /\ Pending = {}
  /\ stopped' = TRUE
  /\ UNCHANGED <<accepted, closed, results, failed>>

Next ==
  \/ Accept
  \/ Close
  \/ Stop
  \/ \E d \in Pending : Publish(d) \/ Fail(d)

Spec == Init /\ [][Next]_vars
=============================================================================
