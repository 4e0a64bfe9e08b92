----------------------------- MODULE ThreeStage -----------------------------
(***************************************************************************)
(* run_three_stage: a storage worker fills a ring of three pinned buffers, *)
(* the main thread enqueues the copies on the copy stream and the sums on  *)
(* the compute stream.  One action per step between two points where the   *)
(* other thread or the device can observe the difference.                  *)
(***************************************************************************)
EXTENDS PipelineContext

VARIABLES
    worker,         (* where the storage worker is                           *)
    wblock,         (* the block the worker reads                            *)
    storage_done,   (* block -> its storage event is set                     *)
    h2d_enqueued,   (* block -> its copy event is recorded and announced     *)
    worker_errors   (* the worker caught an exception                        *)

threads == <<worker, wblock, storage_done, h2d_enqueued, worker_errors>>
ofWorker == <<worker, wblock, storage_done, worker_errors>>
ofMain  == <<main, h2d_enqueued, closed>>

NoBlock == [b \in Block |-> FALSE]

ThreadsInit ==
    /\ worker = "none" /\ wblock = 0
    /\ storage_done = NoBlock
    /\ h2d_enqueued = NoBlock
    /\ worker_errors = FALSE

WorkerEnded == worker \in {"none", "done"}

ThreadsTypeOK ==
    /\ worker \in {"none", "wait", "sync", "read", "stage", "release", "done"}
    /\ wblock \in 0 .. Blocks
    /\ storage_done \in [Block -> BOOLEAN]
    /\ h2d_enqueued \in [Block -> BOOLEAN]
    /\ worker_errors \in BOOLEAN

-----------------------------------------------------------------------------
(* storage_worker                                                           *)

(* The two waits before a slot is reused: for the main thread to enqueue    *)
(* the copy three blocks back, then for that copy to complete.              *)
WorkerWaits ==
    /\ worker = "wait"
    /\ wblock >= 3 => h2d_enqueued[wblock - 3]
    /\ worker' = "sync"
    /\ UNCHANGED <<wblock, storage_done, worker_errors, ofMain, buffers, gpu>>

\* Mutant: the worker trusts the enqueue and does not wait for the copy.
WorkerSynchronizesNothing ==
    /\ worker = "sync"
    /\ worker' = "read"
    /\ UNCHANGED <<wblock, storage_done, worker_errors, ofMain, buffers, gpu>>

WorkerSynchronizes ==
    /\ worker = "sync"
    /\ wblock >= 3 => Synchronized(<<"h2d", wblock - 3>>)
    /\ worker' = "read"
    /\ UNCHANGED <<wblock, storage_done, worker_errors, ofMain, buffers, gpu>>

WorkerReads ==
    /\ worker = "read"
    /\ StageStart(wblock % 3)
    /\ worker' = "stage"
    /\ UNCHANGED <<wblock, storage_done, worker_errors, ofMain, gpu>>

WorkerStages ==
    /\ worker = "stage"
    /\ StageFinish(wblock % 3)
    /\ storage_done' = [storage_done EXCEPT ![wblock] = TRUE]
    /\ wblock' = wblock + 1
    /\ worker' = IF wblock + 1 < Blocks THEN "wait" ELSE "done"
    /\ UNCHANGED <<worker_errors, ofMain, gpu>>

(* The disk read raises: the error is kept, then every event is set so that *)
(* the main thread cannot wait for a block that never comes.                *)
WorkerFails ==
    /\ worker = "read"
    /\ worker_errors' = TRUE
    /\ worker' = "release"
    /\ UNCHANGED <<wblock, storage_done, ofMain, buffers, gpu>>

\* Mutant: the worker ends without waking the main thread.
WorkerReleasesNobody ==
    /\ worker = "release"
    /\ worker' = "done"
    /\ UNCHANGED <<wblock, storage_done, worker_errors, ofMain, buffers, gpu>>

WorkerReleases ==
    /\ worker = "release"
    /\ storage_done' = [b \in Block |-> TRUE]
    /\ worker' = "done"
    /\ UNCHANGED <<wblock, worker_errors, ofMain, buffers, gpu>>

WorkerStep == \/ WorkerWaits \/ WorkerSynchronizes \/ WorkerReads \/ WorkerStages
              \/ WorkerFails \/ WorkerReleases

-----------------------------------------------------------------------------
(* The main thread: Thread.start, wait_for_storage, enqueue_h2d, the loop.  *)
(* "three.starting" is inside start(): the worker runs, and the try whose   *)
(* finally clause joins it is not entered yet.                              *)

StartWorker ==
    /\ pc = "three.start"
    /\ worker' = "wait"
    /\ pc' = "three.starting"
    /\ UNCHANGED <<block, next, closed, wblock, storage_done, h2d_enqueued, worker_errors, buffers, gpu>>

EnterTry ==
    /\ pc = "three.starting"
    /\ pc' = "three.storage"
    /\ UNCHANGED <<block, next, closed, threads, buffers, gpu>>

StorageReady == pc = "three.storage" /\ storage_done[next]

WaitForStorage ==
    /\ StorageReady
    /\ ~worker_errors
    /\ pc' = "three.copy"
    /\ UNCHANGED <<block, next, closed, threads, buffers, gpu>>

EnqueueCopy ==
    /\ pc = "three.copy"
    /\ LET wait == IF next >= 2 THEN WaitFor(<<"compute", next - 2>>) ELSE <<>>
       IN  Enqueue("copy", Append(wait, Copy(next, next % 3, next % 2)))
    /\ pc' = "three.record"
    /\ UNCHANGED <<block, next, closed, threads, buffers, event, running>>

RecordCopy ==
    /\ pc = "three.record"
    /\ EnqueueRecord("copy", <<>>, <<"h2d", next>>)
    /\ pc' = "three.announce"
    /\ UNCHANGED <<block, next, closed, threads, buffers, running>>

AnnounceCopy ==
    /\ pc = "three.announce"
    /\ h2d_enqueued' = [h2d_enqueued EXCEPT ![next] = TRUE]
    /\ next' = next + 1
    /\ pc' = IF next = 0 /\ Blocks > 1 THEN "three.storage" ELSE "three.compute"
    /\ UNCHANGED <<block, closed, ofWorker, buffers, gpu>>

\* Mutant: the sum is enqueued without waiting for the event of its copy.
EnqueueComputeUnordered ==
    /\ pc = "three.compute"
    /\ EnqueueRecord("compute", <<Sum(block, block % 2)>>, <<"compute", block>>)
    /\ block' = block + 1
    /\ pc' = IF block + 1 = Blocks THEN "join"
             ELSE IF next < Blocks THEN "three.storage" ELSE "three.compute"
    /\ UNCHANGED <<next, closed, threads, buffers, running>>

EnqueueCompute ==
    /\ pc = "three.compute"
    /\ EnqueueSum
    /\ block' = block + 1
    /\ pc' = IF block + 1 = Blocks THEN "join"
             ELSE IF next < Blocks THEN "three.storage" ELSE "three.compute"
    /\ UNCHANGED <<next, closed, threads, buffers, running>>

ThreeStageStep == \/ StartWorker \/ EnterTry \/ WaitForStorage \/ EnqueueCopy
                  \/ RecordCopy \/ AnnounceCopy \/ EnqueueCompute
=============================================================================
