-------------------------- MODULE AsyncBatchUploader --------------------------
(***************************************************************************)
(* AsyncBatchUploader of asyncbatchuploader/uploader.py: batches share one *)
(* asyncio.Semaphore; each creates a task per file and gathers them.  Code *)
(* between two awaits is one action.                                       *)
(*                                                                         *)
(* A released slot is handed to the oldest task in line, which runs later; *)
(* until then nobody may pass it.  A task cancelled in line leaves it, and *)
(* gives a slot it was handed to the next.  An upload that ends with       *)
(* CancelledError ends its batch's gather, but not the other uploads.      *)
(***************************************************************************)
EXTENDS Integers, FiniteSets, SequencesExt

CONSTANTS
  Files,          (* every file is uploaded by one batch                   *)
  BatchOf,        (* the batch of each file                                *)
  MaxConcurrent,  (* max_concurrent                                        *)
  Cancellable,    (* the batches whose caller may be cancelled             *)
  Endings         (* how an upload may end: "return", "raise" an           *)
                  (* Exception, or "cancel", with CancelledError           *)

UploaderAssumption ==
  /\ IsFiniteSet(Files)
  /\ MaxConcurrent \in Nat \ {0}
  /\ Endings \subseteq {"return", "raise", "cancel"}

Batches == {BatchOf[f] : f \in Files}
FilesOf(b) == {f \in Files : BatchOf[f] = b}

VARIABLES
  batch,     (* upload_all: "idle", "gathering", "cancelling" (its caller  *)
             (* was cancelled), "returned", "raised" (by an upload) or     *)
             (* "cancelled"                                                *)
  upload,    (* _upload_one: "new", "ready" (created), "queued" in line,   *)
             (* "granted" a slot, "left" (cancelled in line), "uploading", *)
             (* "value", "error" or "cancelled"                            *)
  doomed,    (* tasks that get CancelledError when they run next           *)
  slots,     (* _semaphore._value                                          *)
  line       (* _semaphore._waiters                                        *)

uploaderVars == <<batch, upload, doomed, slots, line>>

Init ==
  /\ batch = [b \in Batches |-> "idle"]
  /\ upload = [f \in Files |-> "new"]
  /\ doomed = {}
  /\ slots = MaxConcurrent
  /\ line = <<>>

In(s) == {f \in Files : upload[f] = s}
Ended == In("value") \cup In("error") \cup In("cancelled")
Set(f, s) == [upload EXCEPT ![f] = s]

-----------------------------------------------------------------------------
(* asyncio.Semaphore *)

(* Where the oldest n tasks in line stand, or all if there are fewer.       *)
Oldest(n, uploads, waiting) ==
  LET queued == {i \in DOMAIN waiting : uploads[waiting[i]] = "queued"}
  IN {i \in queued : Cardinality({j \in queued : j <= i}) <= n}

(* Of n slots, hand one to each task that stands at a place in woken.       *)
Wake(woken, n, uploads, waiting) ==
  /\ slots' = n - Cardinality(woken)
  /\ line' = waiting
  /\ upload' = [f \in Files |->
       IF \E i \in woken : waiting[i] = f THEN "granted" ELSE uploads[f]]

HandOut(n, uploads, waiting) == Wake(Oldest(n, uploads, waiting), n, uploads, waiting)

(* release wakes one task, whatever else is free.                           *)
HandOutOne(uploads) == Wake(Oldest(1, uploads, line), slots + 1, uploads, line)

Locked == slots = 0 \/ \E i \in DOMAIN line : upload[line[i]] # "left"

WithoutWaiter(f) == RemoveAt(line, CHOOSE i \in DOMAIN line : line[i] = f)

-----------------------------------------------------------------------------
(* upload_all *)

Begin(b) ==
  /\ batch[b] = "idle"
  /\ batch' = [batch EXCEPT ![b] = "gathering"]
  /\ upload' = [f \in Files |-> IF f \in FilesOf(b) THEN "ready" ELSE upload[f]]
  /\ UNCHANGED <<doomed, slots, line>>

(* gather ends with the results of all, or with the first CancelledError;  *)
(* if its caller was cancelled, with that in any case.                     *)
Gathered(b) ==
  /\ \/ /\ batch[b] = "gathering" /\ FilesOf(b) \subseteq In("value") \cup In("error")
        /\ batch' = [batch EXCEPT ![b] = "returned"]
     \/ /\ batch[b] = "gathering" /\ FilesOf(b) \cap In("cancelled") # {}
        /\ batch' = [batch EXCEPT ![b] = "raised"]
     \/ /\ batch[b] = "cancelling"
        /\ FilesOf(b) \subseteq Ended \/ FilesOf(b) \cap In("cancelled") # {}
        /\ batch' = [batch EXCEPT ![b] = "cancelled"]
  /\ UNCHANGED <<upload, doomed, slots, line>>

(* gather passes the cancellation of its caller to every task.             *)
Cancel(b) ==
  /\ b \in Cancellable /\ batch[b] = "gathering"
  /\ batch' = [batch EXCEPT ![b] = "cancelling"]
  /\ upload' = [f \in Files |->
       IF f \in FilesOf(b) /\ upload[f] = "queued" THEN "left" ELSE upload[f]]
  /\ doomed' = doomed \cup
       (FilesOf(b) \cap (In("ready") \cup In("granted") \cup In("uploading")))
  /\ UNCHANGED <<slots, line>>

-----------------------------------------------------------------------------
(* _upload_one *)

Acquire(f) ==
  /\ upload[f] = "ready" /\ f \notin doomed
  /\ IF Locked
     THEN upload' = Set(f, "queued") /\ line' = Append(line, f) /\ UNCHANGED slots
     ELSE upload' = Set(f, "uploading") /\ slots' = slots - 1 /\ UNCHANGED line
  /\ UNCHANGED <<batch, doomed>>

(* With its slot a task hands out what else has become free. *)
Granted(f) ==
  /\ upload[f] = "granted" /\ f \notin doomed
  /\ HandOut(slots, Set(f, "uploading"), WithoutWaiter(f))
  /\ UNCHANGED <<batch, doomed>>

(* Cancelled before the upload began: a slot it was handed goes back.      *)
GiveUp(f) ==
  /\ \/ /\ upload[f] = "ready" /\ f \in doomed
        /\ upload' = Set(f, "cancelled") /\ UNCHANGED <<slots, line>>
     \/ /\ upload[f] = "left"
        /\ HandOut(slots, Set(f, "cancelled"), WithoutWaiter(f))
     \/ /\ upload[f] = "granted" /\ f \in doomed
        /\ HandOut(slots + 1, Set(f, "cancelled"), WithoutWaiter(f))
  /\ doomed' = doomed \ {f}
  /\ UNCHANGED batch

EndUnreleased(f, s) ==   \* mutant: acquire and release around the try block
  /\ upload[f] = "uploading"
  /\ IF s = "cancelled"
     THEN upload' = Set(f, s) /\ UNCHANGED <<slots, line>>
     ELSE HandOutOne(Set(f, s))
  /\ doomed' = doomed \ {f}
  /\ UNCHANGED batch

(* Leaving the async with block releases the slot, however it was left.    *)
End(f, s) ==
  /\ upload[f] = "uploading"
  /\ HandOutOne(Set(f, s))
  /\ doomed' = doomed \ {f}
  /\ UNCHANGED batch

(* A cancelled upload may still return or raise, if it suppresses that.    *)
Return(f) == "return" \in Endings /\ End(f, "value")
Raise(f) == "raise" \in Endings /\ End(f, "error")
EndCancelled(f) == (f \in doomed \/ "cancel" \in Endings) /\ End(f, "cancelled")

UploadOne(f) ==
  Acquire(f) \/ Granted(f) \/ GiveUp(f) \/ Return(f) \/ Raise(f) \/ EndCancelled(f)

Next ==
  \/ \E b \in Batches : Begin(b) \/ Gathered(b) \/ Cancel(b)
  \/ \E f \in Files : UploadOne(f)

(* The event loop runs ready tasks, and uploads end.                       *)
Fairness ==
  /\ \A b \in Batches : WF_uploaderVars(Gathered(b))
  /\ \A f \in Files : WF_uploaderVars(UploadOne(f))

-----------------------------------------------------------------------------
TypeOK ==
  /\ batch \in [Batches ->
       {"idle", "gathering", "cancelling", "returned", "raised", "cancelled"}]
  /\ upload \in [Files -> {"new", "ready", "queued", "granted", "left", "uploading",
                           "value", "error", "cancelled"}]
  /\ doomed \subseteq Files
  /\ slots \in 0 .. MaxConcurrent
  /\ line \in Seq(Files)

(* The cap holds over all batches and no slot is lost, whoever is          *)
(* cancelled in line, with a slot handed to it, or in the upload; and no   *)
(* slot lies idle beside a task in line, unless a task that was handed one *)
(* is about to look (uploader:8-9, 83-87).                                 *)
SlotsAreExact ==
  /\ slots + Cardinality(In("granted") \cup In("uploading")) = MaxConcurrent
  /\ slots > 0 /\ In("queued") # {} => In("granted") # {}

(* A returned batch has the result of each of its files; without a         *)
(* cancelled caller only a cancelled upload makes it raise                 *)
(* (uploader:39-42, 63-67).                                                *)
ResultsAreTrue ==
  \A b \in Batches :
    /\ batch[b] = "returned" => FilesOf(b) \subseteq In("value") \cup In("error")
    /\ batch[b] = "raised" => FilesOf(b) \cap In("cancelled") # {}

(* Every upload of a batch that was begun ends, and so does the batch.     *)
UploadsEnd ==
  \A f \in Files :
    batch[BatchOf[f]] = "gathering"
      ~> f \in Ended /\ batch[BatchOf[f]] \in {"returned", "raised", "cancelled"}
=============================================================================
