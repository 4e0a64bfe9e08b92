------------------------------ MODULE Overlap ------------------------------
(***************************************************************************)
(* The overlap experiment (experiments/overlap/pipeline.py, main): one     *)
(* pass of each scheduling variant over the same buffers, the checksum of  *)
(* each pass, and what happens on an exception or on Ctrl+C.               *)
(***************************************************************************)
EXTENDS InlineStorage, ThreeStage

CONSTANT Variants       (* the order of runners, one repetition of each      *)

ASSUME VariantsAssumption ==
    Variants \in Seq({"sync", "double_buffer", "three_stage"}) /\ Variants # <<>>

VARIABLES
    pass,       (* the index in Variants of the pass that runs               *)
    outcome,    (* "running", then how main ends                             *)
    at          (* where the main thread was when it was interrupted         *)

vars == <<main, buffers, closed, gpu, threads, pass, outcome, at>>

Start(variant) ==
    CASE variant = "sync" -> "sync.read"
      [] variant = "double_buffer" -> "double.read"
      [] variant = "three_stage" -> "three.start"

(* The main thread is inside the try whose finally clause joins the worker. *)
Joins(l) == l \in {"three.storage", "three.copy", "three.record", "three.announce",
                   "three.compute", "join"}

Init ==
    /\ ContextInit
    /\ ThreadsInit
    /\ pass = 1
    /\ pc = Start(Variants[1])
    /\ outcome = "running"
    /\ at = "nowhere"

-----------------------------------------------------------------------------
Runner ==
    /\ outcome = "running"
    /\ \/ SyncStep /\ UNCHANGED threads
       \/ DoubleStep /\ UNCHANGED threads
       \/ ThreeStageStep
    /\ UNCHANGED <<pass, outcome, at>>

(* An exception of the pass goes to the nearest finally clause.             *)
Unwind(result) ==
    /\ outcome' = result
    /\ pc' = IF Joins(pc) THEN "join" ELSE "close"
    /\ UNCHANGED <<block, next, buffers, closed, gpu, threads, pass>>

(* The disk read of a main thread that reads the storage itself raises.     *)
ReadFails ==
    /\ pc \in {"sync.read", "double.read"}
    /\ Unwind("failed")
    /\ UNCHANGED at

(* wait_for_storage raises the worker's error.                              *)
StorageFails ==
    /\ StorageReady
    /\ worker_errors
    /\ outcome = "running"
    /\ Unwind("failed")
    /\ UNCHANGED at

(* KeyboardInterrupt                                                        *)
Interrupt ==
    /\ outcome = "running"
    /\ at' = pc
    /\ Unwind("interrupted")

\* Mutant: main does not wait for the worker before it goes on.
JoinWorkerNoWait ==
    /\ pc = "join"
    /\ pc' = IF outcome = "running" THEN "synchronize" ELSE "close"
    /\ UNCHANGED <<block, next, buffers, closed, gpu, threads, pass, outcome, at>>

(* finally: worker.join(), whether the loop ended or raised                 *)
JoinWorker ==
    /\ pc = "join"
    /\ WorkerEnded
    /\ pc' = IF outcome = "running" THEN "synchronize" ELSE "close"
    /\ UNCHANGED <<block, next, buffers, closed, gpu, threads, pass, outcome, at>>

\* Mutant: verify_checksums reads the sums before the device finished.
SynchronizeNothing ==
    /\ pc = "synchronize" /\ outcome = "running"
    /\ pc' = "verify"
    /\ UNCHANGED <<block, next, buffers, closed, gpu, threads, pass, outcome, at>>

Synchronize ==
    /\ pc = "synchronize" /\ outcome = "running"
    /\ DeviceIdle
    /\ pc' = "verify"
    /\ UNCHANGED <<block, next, buffers, closed, gpu, threads, pass, outcome, at>>

Bad == {b \in Block : sums[b] # b}

\* Mutant: the storage reader is not reset between two passes.
NextPassWithoutReset ==
    /\ pc = "verify" /\ outcome = "running"
    /\ Bad = {} /\ pass < Len(Variants)
    /\ pass' = pass + 1
    /\ pc' = Start(Variants[pass + 1])
    /\ block' = 0 /\ next' = 0 /\ sums' = NoSums /\ event' = NoEvents
    /\ worker' = "none" /\ wblock' = 0 /\ storage_done' = NoBlock
    /\ h2d_enqueued' = NoBlock /\ worker_errors' = FALSE
    /\ UNCHANGED <<pinned, device, closed, offset, stream, running, outcome, at>>

(* The checksums match and another pass begins: storage.reset(),            *)
(* sums.zero_(), and the variant's fresh events.  The buffers keep what the *)
(* last pass left in them.                                                  *)
NextPass ==
    /\ pc = "verify" /\ outcome = "running"
    /\ Bad = {} /\ pass < Len(Variants)
    /\ pass' = pass + 1
    /\ pc' = Start(Variants[pass + 1])
    /\ offset' = 0
    /\ block' = 0 /\ next' = 0 /\ sums' = NoSums /\ event' = NoEvents
    /\ worker' = "none" /\ wblock' = 0 /\ storage_done' = NoBlock
    /\ h2d_enqueued' = NoBlock /\ worker_errors' = FALSE
    /\ UNCHANGED <<pinned, device, closed, stream, running, outcome, at>>

(* The last pass was right, or this one was wrong.                          *)
LastPass ==
    /\ pc = "verify" /\ outcome = "running"
    /\ Bad # {} \/ pass = Len(Variants)
    /\ Unwind(IF Bad = {} THEN "ok" ELSE "mismatch")
    /\ UNCHANGED at

(* storage.close()                                                          *)
CloseReader ==
    /\ pc = "close"
    /\ closed' = TRUE
    /\ pc' = "exiting"
    /\ UNCHANGED <<block, next, buffers, gpu, threads, pass, outcome, at>>

(* The rows are written and the interpreter exits, once it has joined the   *)
(* threads that are not daemons.                                            *)
Exit ==
    /\ pc = "exiting"
    /\ WorkerEnded
    /\ pc' = "exited"
    /\ UNCHANGED <<block, next, buffers, closed, gpu, threads, pass, outcome, at>>

MainStep == \/ Runner \/ StorageFails \/ JoinWorker \/ Synchronize \/ NextPass
            \/ LastPass \/ CloseReader \/ Exit

StorageStep == WorkerStep /\ UNCHANGED <<pass, outcome, at>>

DeviceStep(s) == StreamStep(s) /\ UNCHANGED <<threads, pass, outcome, at>>

Next == \/ MainStep \/ ReadFails \/ Interrupt \/ StorageStep
        \/ \E s \in Streams : DeviceStep(s)

(* The scheduler runs every thread and the driver runs every stream.  No    *)
(* read has to fail and nobody has to press Ctrl+C.                         *)
Fairness == /\ WF_vars(MainStep) /\ WF_vars(StorageStep)
            /\ \A s \in Streams : WF_vars(DeviceStep(s))

Spec == Init /\ [][Next]_vars

FairSpec == Spec /\ Fairness

-----------------------------------------------------------------------------
Labels == {"sync.read", "sync.stage", "sync.copy", "sync.sum", "sync.drain",
           "double.slot", "double.read", "double.stage", "double.copy", "double.compute",
           "three.start", "three.starting", "three.storage", "three.copy",
           "three.record", "three.announce", "three.compute",
           "join", "synchronize", "verify", "close", "exiting", "exited"}

(* Every variable keeps the values the code gives it; the reader never      *)
(* reads past the fixture.                                                  *)
TypeOK ==
    /\ ContextTypeOK
    /\ ThreadsTypeOK
    /\ pc \in Labels
    /\ pass \in 1 .. Len(Variants)
    /\ outcome \in {"running", "ok", "failed", "mismatch", "interrupted"}
    /\ at \in Labels \cup {"nowhere"}

Pending(s) == {stream[s][i] : i \in DOMAIN stream[s]}

(* A pinned slot is not overwritten until its H2D is complete, and a device *)
(* slot is not refilled until its sum consumed it (the docstrings of        *)
(* run_double_buffer and run_three_stage): whatever is enqueued, every      *)
(* copy's source holds the copy's block, and a copy only runs into a slot   *)
(* no enqueued sum of an earlier block still needs.                         *)
SlotsExclusive ==
    /\ \A s \in Streams : \A o \in Pending(s) : o.op = "copy" => pinned[o.from] = o.block
    /\ \A s \in Streams : running[s] # Idle /\ Head(stream[s]).op = "copy" =>
           \A t \in Streams : \A o \in Pending(t) :
               o.op = "sum" /\ o.slot = Head(stream[s]).to => o.block >= Head(stream[s]).block

(* The reader is closed only after the worker ended (pipeline.py's finally  *)
(* clause runs after run_three_stage's): nothing reads through a closed     *)
(* handle or out of the released buffer.  The one exception is a Ctrl+C     *)
(* that arrives inside worker.start(), before the try that joins it.        *)
ReaderClosedLast == closed => WorkerEnded \/ at = "three.starting"

(* Every pass sums the blocks in order, each sum is of the right block, and *)
(* main reports success only when all of them are: no schedule of the       *)
(* threads and the streams makes verify_checksums find a wrong block.       *)
InOrder == INSTANCE InOrderBlocks WITH Passes <- Len(Variants)

ImplementsInOrder == InOrder!Spec

(* The worker waits for a copy an interrupted main thread never announces.  *)
Orphaned ==
    /\ outcome = "interrupted"
    /\ worker = "wait" /\ wblock >= 3 /\ ~h2d_enqueued[wblock - 3]

(* The program ends, whether the reads succeed or raise and wherever it is  *)
(* interrupted, except with its worker in the one wait nobody ends: the     *)
(* worker, the main thread and the streams have no other circular wait.     *)
EventuallyExits == <>(pc = "exited" \/ Orphaned)

(* pipeline.py:3-5: Ctrl+C writes the partial rows and exits with code 130. *)
InterruptExits == (outcome = "interrupted") ~> (pc = "exited")
=============================================================================
