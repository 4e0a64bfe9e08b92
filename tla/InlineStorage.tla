---------------------------- MODULE InlineStorage ----------------------------
(***************************************************************************)
(* run_sync and run_double_buffer: the variants whose main thread reads    *)
(* the storage itself.                                                     *)
(***************************************************************************)
EXTENDS PipelineContext

Goto(l) == pc' = l

-----------------------------------------------------------------------------
(* run_sync: one pinned and one device buffer, everything on the current    *)
(* stream, the host waiting for the copy and for the sum.                   *)

SyncRead ==
    /\ pc = "sync.read"
    /\ StageStart(0)
    /\ Goto("sync.stage")
    /\ UNCHANGED <<block, next, closed, gpu>>

SyncStage ==
    /\ pc = "sync.stage"
    /\ StageFinish(0)
    /\ Goto("sync.copy")
    /\ UNCHANGED <<block, next, closed, gpu>>

(* copy_(pinned, non_blocking=False)                                        *)
SyncCopy ==
    /\ pc = "sync.copy"
    /\ Enqueue("compute", <<Copy(block, 0, 0)>>)
    /\ Goto("sync.sum")
    /\ UNCHANGED <<block, next, buffers, closed, event, running>>

SyncSum ==
    /\ pc = "sync.sum"
    /\ stream["compute"] = <<>>
    /\ Enqueue("compute", <<Sum(block, 0)>>)
    /\ Goto("sync.drain")
    /\ UNCHANGED <<block, next, buffers, closed, event, running>>

SyncDrain ==
    /\ pc = "sync.drain"
    /\ DeviceIdle
    /\ block' = block + 1
    /\ Goto(IF block + 1 < Blocks THEN "sync.read" ELSE "synchronize")
    /\ UNCHANGED <<next, buffers, closed, gpu>>

SyncStep == SyncRead \/ SyncStage \/ SyncCopy \/ SyncSum \/ SyncDrain

-----------------------------------------------------------------------------
(* run_double_buffer: two pinned and two device buffers.                    *)

\* Mutant: the host does not wait for the copy that last used the slot.
DoubleSlotUnguarded ==
    /\ pc = "double.slot"
    /\ Enqueue("copy", IF next >= 2 THEN WaitFor(<<"compute", next - 2>>) ELSE <<>>)
    /\ Goto("double.read")
    /\ UNCHANGED <<block, next, buffers, closed, event, running>>

(* The host waits for the copy that last used the slot, and makes the copy  *)
(* stream wait for the sum that last used the device buffer.                *)
DoubleSlot ==
    /\ pc = "double.slot"
    /\ next >= 2 => Synchronized(<<"h2d", next - 2>>)
    /\ Enqueue("copy", IF next >= 2 THEN WaitFor(<<"compute", next - 2>>) ELSE <<>>)
    /\ Goto("double.read")
    /\ UNCHANGED <<block, next, buffers, closed, event, running>>

DoubleRead ==
    /\ pc = "double.read"
    /\ StageStart(next % 2)
    /\ Goto("double.stage")
    /\ UNCHANGED <<block, next, closed, gpu>>

DoubleStage ==
    /\ pc = "double.stage"
    /\ StageFinish(next % 2)
    /\ Goto("double.copy")
    /\ UNCHANGED <<block, next, closed, gpu>>

(* enqueue_h2d                                                              *)
DoubleCopy ==
    /\ pc = "double.copy"
    /\ EnqueueRecord("copy", <<Copy(next, next % 2, next % 2)>>, <<"h2d", next>>)
    /\ next' = next + 1
    /\ Goto(IF next = 0 /\ Blocks > 1 THEN "double.slot" ELSE "double.compute")
    /\ UNCHANGED <<block, buffers, closed, running>>

DoubleCompute ==
    /\ pc = "double.compute"
    /\ EnqueueSum
    /\ block' = block + 1
    /\ Goto(IF block + 1 = Blocks THEN "synchronize"
            ELSE IF next < Blocks THEN "double.slot" ELSE "double.compute")
    /\ UNCHANGED <<next, buffers, closed, running>>

DoubleStep == \/ DoubleSlot \/ DoubleRead \/ DoubleStage \/ DoubleCopy
              \/ DoubleCompute
=============================================================================
