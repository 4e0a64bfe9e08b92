--------------------------- MODULE PipelineContext ---------------------------
(***************************************************************************)
(* The buffers, streams and events the three scheduling variants of the    *)
(* overlap experiment share (experiments/overlap/variants.py), the storage *)
(* reader (storage_stage.py), and the CUDA device that runs the streams.   *)
(*                                                                         *)
(* A buffer holds the block it was filled with, or Garbage while it is     *)
(* being overwritten.  A copy and a sum take time: they start, and finish  *)
(* later with what they read if it is still there, with Garbage if it was  *)
(* overwritten in between.                                                 *)
(***************************************************************************)
EXTENDS Naturals, Sequences

CONSTANTS Blocks,    (* number of blocks of a pass (ctx.blocks)              *)
          Garbage,   (* a buffer that holds no complete block                *)
          Zero,      (* an element of sums that was not computed             *)
          Idle       (* a stream that runs neither a copy nor a sum          *)

ASSUME BlocksAssumption ==
    /\ Blocks \in Nat \ {0}                          \* parse_args
    /\ Garbage \notin Nat /\ Zero \notin Nat /\ Garbage # Zero
    /\ Idle \notin Nat \cup {Garbage}

Block == 0 .. Blocks - 1
Data  == Block \cup {Garbage}
Events == {"h2d", "compute"} \X Block
Streams == {"copy", "compute"}

VARIABLES
    pc,         (* where the main thread is                                  *)
    block,      (* the block whose sum the main thread enqueues next         *)
    next,       (* the block the main thread copies to the device next       *)
    pinned,     (* the three page-locked host buffers                        *)
    device,     (* the two device buffers                                    *)
    sums,       (* block -> the block its bytes were summed from, or Zero    *)
    offset,     (* the reader's file position, in blocks                     *)
    closed,     (* the reader's handle and buffer were released              *)
    event,      (* CUDA event -> "new", "recorded" (enqueued) or "complete"  *)
    stream,     (* stream -> operations enqueued and not finished            *)
    running     (* stream -> what its copy or sum in progress read, or Idle  *)

main    == <<pc, block, next>>
buffers == <<pinned, device, sums, offset>>
gpu     == <<event, stream, running>>

Copy(b, from, to) == [op |-> "copy", block |-> b, from |-> from, to |-> to]
Sum(b, slot)      == [op |-> "sum", block |-> b, slot |-> slot]
Wait(e)           == [op |-> "wait", event |-> e]
Record(e)         == [op |-> "record", event |-> e]

Operation ==
         [op : {"copy"}, block : Block, from : 0 .. 2, to : 0 .. 1]
    \cup [op : {"sum"}, block : Block, slot : 0 .. 1]
    \cup [op : {"wait", "record"}, event : Events]

NoSums   == [b \in Block |-> Zero]
NoEvents == [e \in Events |-> "new"]

ContextInit ==
    /\ block = 0 /\ next = 0
    /\ pinned = [s \in 0 .. 2 |-> Garbage]
    /\ device = [s \in 0 .. 1 |-> Garbage]
    /\ sums = NoSums
    /\ offset = 0 /\ closed = FALSE
    /\ event = NoEvents
    /\ stream = [s \in Streams |-> <<>>]
    /\ running = [s \in Streams |-> Idle]

-----------------------------------------------------------------------------
(* What a host thread does with the device.                                 *)

(* stream.wait_event(e): nothing to wait for when e was never recorded.     *)
WaitFor(e) == IF event[e] = "new" THEN <<>> ELSE <<Wait(e)>>

Enqueue(s, ops) == stream' = [stream EXCEPT ![s] = @ \o ops]

(* event.record(stream)                                                     *)
EnqueueRecord(s, ops, e) ==
    /\ Enqueue(s, Append(ops, Record(e)))
    /\ event' = [event EXCEPT ![e] = "recorded"]

(* event.synchronize() returns at once when the event was never recorded.   *)
Synchronized(e) == event[e] # "recorded"

(* The loop tail the two overlapped variants share: the sum of a block on   *)
(* the compute stream, after the event of its copy.                         *)
EnqueueSum ==
    EnqueueRecord("compute",
                  WaitFor(<<"h2d", block>>) \o <<Sum(block, block % 2)>>,
                  <<"compute", block>>)

(* torch.cuda.synchronize()                                                 *)
DeviceIdle == \A s \in Streams : stream[s] = <<>>

-----------------------------------------------------------------------------
(* BlockStorageReader.read_next_into, after its disk read: the copy into    *)
(* the pinned buffer starts, and ends with the block the reader was at; a   *)
(* closed reader does not read, and its released buffer is not a block.     *)
StageStart(slot) ==
    /\ ~closed
    /\ offset' = offset + 1
    /\ pinned' = [pinned EXCEPT ![slot] = Garbage]
    /\ UNCHANGED <<device, sums>>

StageFinish(slot) ==
    /\ pinned' = [pinned EXCEPT ![slot] = IF closed THEN Garbage ELSE offset - 1]
    /\ UNCHANGED <<device, sums, offset>>

-----------------------------------------------------------------------------
(* The device: each stream runs its operations in order, the two streams    *)
(* run at the same time.                                                    *)

Source(o) == IF o.op = "copy" THEN pinned[o.from] ELSE device[o.slot]

OpStarts(s) ==
    /\ stream[s] # <<>> /\ running[s] = Idle
    /\ LET o == Head(stream[s]) IN
         /\ o.op \in {"copy", "sum"}
         /\ running' = [running EXCEPT ![s] = Source(o)]
         /\ device' = IF o.op = "copy" THEN [device EXCEPT ![o.to] = Garbage] ELSE device
    /\ UNCHANGED <<main, pinned, sums, offset, closed, event, stream>>

OpFinishes(s) ==
    /\ running[s] # Idle
    /\ LET o == Head(stream[s])
           data == IF Source(o) = running[s] THEN Source(o) ELSE Garbage
       IN \/ /\ o.op = "copy"
             /\ device' = [device EXCEPT ![o.to] = data]
             /\ UNCHANGED sums
          \/ /\ o.op = "sum"
             /\ sums' = [sums EXCEPT ![o.block] = data]
             /\ UNCHANGED device
    /\ running' = [running EXCEPT ![s] = Idle]
    /\ stream' = [stream EXCEPT ![s] = Tail(@)]
    /\ UNCHANGED <<main, pinned, offset, closed, event>>

OpControls(s) ==
    /\ stream[s] # <<>>
    /\ LET o == Head(stream[s]) IN
         \/ /\ o.op = "wait" /\ event[o.event] = "complete"
            /\ UNCHANGED event
         \/ /\ o.op = "record"
            /\ event' = [event EXCEPT ![o.event] = "complete"]
    /\ stream' = [stream EXCEPT ![s] = Tail(@)]
    /\ UNCHANGED <<main, buffers, closed, running>>

StreamStep(s) == OpStarts(s) \/ OpFinishes(s) \/ OpControls(s)

ContextTypeOK ==
    /\ pinned \in [0 .. 2 -> Data]
    /\ device \in [0 .. 1 -> Data]
    /\ sums \in [Block -> Data \cup {Zero}]
    /\ offset \in 0 .. Blocks
    /\ closed \in BOOLEAN
    /\ block \in 0 .. Blocks /\ next \in 0 .. Blocks
    /\ event \in [Events -> {"new", "recorded", "complete"}]
    /\ stream \in [Streams -> Seq(Operation)]
    /\ running \in [Streams -> Data \cup {Idle}]
=============================================================================
