--------------------------- MODULE Overlap_proofs ---------------------------
(***************************************************************************)
(* The inductive invariant of the overlap experiment: what the streams and *)
(* the buffers hold, first what the host and the device do to each part of *)
(* it, then one step of the program at a time. From it follow the safety   *)
(* properties, for every number of blocks and every order of the variants, *)
(* and that Overlap implements InOrderBlocks.                              *)
(***************************************************************************)
EXTENDS Overlap, SequenceTheorems, TLAPS

------------------------------------------------------------------------------
(* What a stream holds. *)

\* The operation at i waits, or waited, for the event e.
After(q, i, e, ev) ==
    ev[e] = "complete" \/ \E j \in DOMAIN q : j < i /\ q[j].op = "wait" /\ q[j].event = e

\* The stream q does the work op (a copy or a sum) block by block: before that of
\* block b it waits for the event of the kind `other` and the block b - lag, after
\* it it records the event of the kind `own`.
Queue(q, op, own, other, lag, ev) ==
    /\ \A i \in DOMAIN q :
        \/ q[i].op = op /\ q[i].block \in Block
        \/ q[i].op = "record" /\ \E b \in Block : q[i].event = <<own, b>>
        \/ q[i].op = "wait" /\ \E b \in Block : q[i].event = <<other, b>>
    /\ \A i, j \in DOMAIN q : i < j /\ q[j].op = op =>
        /\ q[i].op = op => q[i].block < q[j].block
        /\ q[i].op = "record" => \A b \in Block : q[i].event = <<own, b>> => b < q[j].block
    /\ \A i \in DOMAIN q : q[i].op = op /\ q[i].block >= lag =>
        After(q, i, <<other, q[i].block - lag>>, ev)
    /\ \A i \in DOMAIN q : q[i].op = "record" => ev[q[i].event] # "new"
    /\ \A b \in Block : ev[<<own, b>>] = "complete" =>
        \A i \in DOMAIN q : q[i].op = op => q[i].block > b

CopyQueue(q, ev) == Queue(q, "copy", "h2d", "compute", 2, ev)
SumQueue(q, ev)  == Queue(q, "sum", "compute", "h2d", 0, ev)

\* Every copy goes from its block's slot of the pinned ring to its device slot, every
\* sum reads its device slot.
CopyShapes(q, ring) == \A i \in DOMAIN q : q[i].op = "copy" =>
    q[i] = Copy(q[i].block, q[i].block % ring, q[i].block % 2)
SumShapes(q) == \A i \in DOMAIN q : q[i].op = "sum" => q[i] = Sum(q[i].block, q[i].block % 2)

\* The blocks whose work is enqueued and not finished.
Enqueued(q, op) == {q[i].block : i \in {j \in DOMAIN q : q[j].op = op}}

Variant == Variants[pass]
Ring == IF Variant = "double_buffer" THEN 2 ELSE 3

Copies == Enqueued(stream["copy"], "copy")
Sums   == Enqueued(stream["compute"], "sum")

\* The copies enqueued in this pass, while it runs.
Top == IF pc \in {"three.record", "three.announce"} THEN next + 1 ELSE next

------------------------------------------------------------------------------
(* The inductive invariant. *)

SyncLabels   == {"sync.read", "sync.stage", "sync.copy", "sync.sum", "sync.drain"}
DoubleLabels == {"double.slot", "double.read", "double.stage", "double.copy", "double.compute"}
ThreeLabels  == {"three.start", "three.starting", "three.storage", "three.copy", "three.record",
                 "three.announce", "three.compute", "join"}
LastLabels   == {"close", "exiting", "exited"}

\* Where the main thread is says which variant runs, whether it still runs, and
\* whether it has a worker.
PlaceInv ==
    /\ pc \in SyncLabels => Variant = "sync"
    /\ pc \in DoubleLabels => Variant = "double_buffer"
    /\ pc \in ThreeLabels => Variant = "three_stage"
    /\ outcome # "running" => pc \in LastLabels \cup {"join"}
    /\ pc \in LastLabels => outcome # "running"
    /\ outcome # "mismatch"
    /\ closed <=> pc \in {"exiting", "exited"}
    /\ Variant # "three_stage" => worker = "none"
    /\ pc = "three.start" => worker = "none"
    /\ pc \in {"synchronize", "verify"} => WorkerEnded
    /\ pc \in LastLabels => WorkerEnded \/ at = "three.starting"
    /\ at = "three.starting" => pc \in LastLabels
    /\ pc = "exited" => WorkerEnded

\* Nothing is enqueued when the checksums are verified.
IdleInv == pc = "verify" => \A s \in Streams : stream[s] = <<>>

RunningInv == \A s \in Streams : running[s] # Idle => stream[s] # <<>>

\* run_sync: one operation at a time.
SyncInv ==
    /\ stream["copy"] = <<>>
    /\ \/ stream["compute"] = <<>>
       \/ stream["compute"] = <<Copy(block, 0, 0)>> /\ pinned[0] = block /\ block < Blocks
       \/ stream["compute"] = <<Sum(block, 0)>> /\ device[0] = block /\ block < Blocks
    /\ running["compute"] # Idle => running["compute"] = block
    /\ pc \in SyncLabels => block < Blocks
    /\ pc \in {"sync.read", "sync.stage", "sync.copy"} => stream["compute"] = <<>>
    /\ pc = "sync.read" => offset = block
    /\ pc \in {"sync.stage", "sync.copy", "sync.sum", "sync.drain"} => offset = block + 1
    /\ pc = "sync.copy" => pinned[0] = block
    /\ pc = "sync.sum" => \/ stream["compute"] = <<>> /\ device[0] = block
                          \/ stream["compute"] = <<Copy(block, 0, 0)>>
    /\ pc = "sync.drain" => \/ stream["compute"] = <<>> /\ sums[block] = block
                            \/ stream["compute"] = <<Sum(block, 0)>>
    /\ \A b \in Block : b < block => sums[b] = b
    /\ \A b \in Block : b > block => sums[b] = Zero
    /\ block < Blocks /\ (stream["compute"] # <<>> \/ pc \in SyncLabels \ {"sync.drain"}) =>
        sums[block] = Zero
    /\ pc \in {"synchronize", "verify"} => block = Blocks

\* run_double_buffer and run_three_stage: the streams.
StreamsInv ==
    /\ CopyQueue(stream["copy"], event) /\ CopyShapes(stream["copy"], Ring)
    /\ SumQueue(stream["compute"], event) /\ SumShapes(stream["compute"])

\* What runs is the first operation of its stream, with the data it was enqueued for.
RunsInv ==
    /\ running["copy"] # Idle => /\ Head(stream["copy"]).op = "copy"
                                 /\ running["copy"] = Head(stream["copy"]).block
    /\ running["compute"] # Idle => /\ Head(stream["compute"]).op = "sum"
                                    /\ running["compute"] = Head(stream["compute"]).block

\* The buffers hold what the operations enqueued need.
BuffersInv ==
    /\ \A b \in Copies : pinned[b % Ring] = b /\ b <= next
    /\ \A b \in Copies : \A c \in Block : b <= c /\ c < Top => c \in Copies
    /\ \A b \in Block : b < Top /\ b \notin Copies /\ sums[b] = Zero => device[b % 2] = b
    /\ \A b \in Sums : b < block
    /\ \A b \in Block : sums[b] = IF b < block /\ b \notin Sums THEN b ELSE Zero
    /\ \A b \in Block : event[<<"compute", b>>] # "new" <=> b < block
    /\ \A b \in Block : b < next => event[<<"h2d", b>>] # "new"
    /\ \A b \in Block : b > next => event[<<"h2d", b>>] = "new"
    /\ block <= next

\* What the main thread knows where it is.
Filling == {"double.read", "double.stage", "double.copy"}

\* What is enqueued, and which event is recorded.
TopInv ==
    /\ outcome = "running" => \A b \in Copies : b < Top
    /\ outcome = "running" /\ pc # "three.announce" /\ next < Blocks =>
        event[<<"h2d", next>>] = "new"
    /\ pc = "three.announce" => event[<<"h2d", next>>] # "new"

\* How far the sums are behind the copies.
CountInv ==
    /\ pc = "double.slot" => next >= 1
    /\ pc \in {"double.slot", "three.storage", "three.copy", "three.record", "three.announce"}
              \cup Filling =>
        next < Blocks /\ block = IF next = 0 THEN 0 ELSE next - 1
    /\ pc \in {"double.compute", "three.compute"} =>
        block < next /\ next <= block + 2 /\ (next < Blocks => next = block + 2)
    /\ pc \in {"three.start", "three.starting"} => next = 0 /\ block = 0
    /\ (pc \in {"synchronize", "verify"} \/ (pc = "join" /\ outcome = "running")) =>
        block = Blocks /\ next = Blocks

\* The slot run_double_buffer fills is free, and gets the block of its turn.
FillInv ==
    /\ pc \in Filling /\ next >= 2 =>
        /\ event[<<"h2d", next - 2>>] = "complete"
        /\ After(stream["copy"], Len(stream["copy"]) + 1, <<"compute", next - 2>>, event)
    /\ pc \in {"double.slot", "double.read", "double.compute"} => offset = next
    /\ pc \in {"double.stage", "double.copy"} => offset = next + 1
    /\ pc = "double.copy" => pinned[next % 2] = next

MainInv == TopInv /\ CountInv /\ FillInv

\* The storage worker and its ring.
WorkerInv ==
    /\ offset = IF worker = "stage" THEN wblock + 1 ELSE wblock
    /\ worker = "none" => wblock = 0
    /\ ~WorkerEnded => wblock < Blocks
    /\ worker \in {"sync", "read", "stage"} /\ wblock >= 3 => h2d_enqueued[wblock - 3]
    /\ worker \in {"read", "stage"} /\ wblock >= 3 => event[<<"h2d", wblock - 3>>] = "complete"
    /\ worker = "release" => worker_errors
    /\ \A b \in Block : h2d_enqueued[b] => b < next
    /\ \A b \in Block : storage_done[b] => b < wblock \/ worker_errors
    /\ \A b \in Copies : b < wblock
    /\ pc \in {"three.copy", "three.record", "three.announce"} => next < wblock
    /\ ~closed => \A b \in Block : next <= b /\ b < wblock => pinned[b % 3] = b

PipeInv == StreamsInv /\ RunsInv /\ BuffersInv /\ MainInv

IInv ==
    /\ TypeOK /\ PlaceInv /\ IdleInv /\ RunningInv
    /\ (Variant = "sync" => SyncInv)
    /\ (Variant # "sync" => PipeInv)
    /\ (Variant = "three_stage" => WorkerInv)

------------------------------------------------------------------------------
(* What the host and the device do to a stream. *)

\* A work operation of a stream, and the kinds of the events it records and waits for.
Works(op, own, other, lag) ==
    /\ op \in {"copy", "sum"}
    /\ own \in {"h2d", "compute"} /\ other \in {"h2d", "compute"} /\ own # other
    /\ lag \in Nat

\* An empty stream whose events are not complete.
LEMMA EmptyQueue ==
    ASSUME NEW op, NEW own, NEW other, NEW lag, NEW ev,
           \A b \in Block : ev[<<own, b>>] # "complete"
    PROVE  Queue(<<>>, op, own, other, lag, ev) /\ Enqueued(<<>>, op) = {}
  BY DEF Queue, Enqueued, After

\* Appending keeps what was there.
LEMMA Appended ==
    ASSUME NEW q \in Seq(Operation), NEW o \in Operation
    PROVE  /\ Append(q, o) \in Seq(Operation)
           /\ Len(Append(q, o)) = Len(q) + 1
           /\ DOMAIN Append(q, o) = 1 .. Len(q) + 1
           /\ DOMAIN q = 1 .. Len(q)
           /\ Len(q) \in Nat
           /\ \A i \in DOMAIN q : Append(q, o)[i] = q[i]
           /\ Append(q, o)[Len(q) + 1] = o
  OBVIOUS

\* stream.wait_event: the operation enqueued next runs after that event.
LEMMA PushWait ==
    ASSUME NEW op, NEW own, NEW other, NEW lag, Works(op, own, other, lag),
           NEW ev, NEW b \in Block, NEW q \in Seq(Operation),
           Queue(q, op, own, other, lag, ev)
    PROVE  LET r == Append(q, Wait(<<other, b>>)) IN
           /\ r \in Seq(Operation)
           /\ Queue(r, op, own, other, lag, ev)
           /\ Enqueued(r, op) = Enqueued(q, op)
           /\ After(r, Len(r) + 1, <<other, b>>, ev)
  <1> DEFINE o == Wait(<<other, b>>)
             r == Append(q, o)
  <1>1. /\ o \in Operation /\ o.op = "wait" /\ o.event = <<other, b>>
    BY DEF Works, Operation, Wait, Events
  <1> HIDE DEF o
  <1>2. /\ r \in Seq(Operation) /\ Len(r) = Len(q) + 1 /\ Len(q) \in Nat
        /\ DOMAIN r = 1 .. Len(q) + 1 /\ DOMAIN q = 1 .. Len(q)
        /\ \A i \in DOMAIN q : r[i] = q[i]
        /\ r[Len(q) + 1] = o
    BY <1>1, Appended
  <1> HIDE DEF r
  <1>3. op # "wait" /\ op # "record"
    BY DEF Works
  <1>4. Queue(r, op, own, other, lag, ev)
    <2>1. \A i \in DOMAIN r : \/ r[i].op = op /\ r[i].block \in Block
                              \/ r[i].op = "record" /\ \E c \in Block : r[i].event = <<own, c>>
                              \/ r[i].op = "wait" /\ \E c \in Block : r[i].event = <<other, c>>
      BY <1>1, <1>2 DEF Queue
    <2>2. \A i, j \in DOMAIN r : i < j /\ r[j].op = op =>
            /\ r[i].op = op => r[i].block < r[j].block
            /\ r[i].op = "record" => \A c \in Block : r[i].event = <<own, c>> => c < r[j].block
      BY <1>1, <1>2, <1>3 DEF Queue
    <2>7. \A e : \A i \in DOMAIN q : After(q, i, e, ev) => After(r, i, e, ev)
      BY <1>2 DEF After
    <2>3. \A i \in DOMAIN r : r[i].op = op /\ r[i].block >= lag =>
            After(r, i, <<other, r[i].block - lag>>, ev)
      BY <1>1, <1>2, <1>3, <2>7 DEF Queue
    <2>4. \A i \in DOMAIN r : r[i].op = "record" => ev[r[i].event] # "new"
      BY <1>1, <1>2 DEF Queue
    <2>5. \A c \in Block : ev[<<own, c>>] = "complete" =>
            \A i \in DOMAIN r : r[i].op = op => r[i].block > c
      BY <1>1, <1>2, <1>3 DEF Queue
    <2>6. QED BY <2>1, <2>2, <2>3, <2>4, <2>5 DEF Queue
  <1>5. Enqueued(r, op) = Enqueued(q, op)
    BY <1>1, <1>2, <1>3 DEF Enqueued
  <1>6. After(r, Len(r) + 1, <<other, b>>, ev)
    BY <1>1, <1>2 DEF After
  <1>7. QED BY <1>2, <1>4, <1>5, <1>6 DEF r, o

\* The work of a block later than all the work enqueued, behind the event it needs.
LEMMA PushWork ==
    ASSUME NEW op, NEW own, NEW other, NEW lag, Works(op, own, other, lag),
           NEW ev, NEW b \in Block, NEW q \in Seq(Operation),
           NEW o \in Operation, o.op = op, o.block = b,
           Queue(q, op, own, other, lag, ev),
           \A c \in Enqueued(q, op) : c < b,
           \A c \in Block : ev[<<own, c>>] # "new" => c < b,
           b >= lag => After(q, Len(q) + 1, <<other, b - lag>>, ev)
    PROVE  LET r == Append(q, o) IN
           /\ r \in Seq(Operation)
           /\ Queue(r, op, own, other, lag, ev)
           /\ Enqueued(r, op) = Enqueued(q, op) \cup {b}
  <1> DEFINE r == Append(q, o)
  <1>2. /\ r \in Seq(Operation) /\ Len(r) = Len(q) + 1 /\ Len(q) \in Nat
        /\ DOMAIN r = 1 .. Len(q) + 1 /\ DOMAIN q = 1 .. Len(q)
        /\ \A i \in DOMAIN q : r[i] = q[i]
        /\ r[Len(q) + 1] = o
    BY Appended
  <1> HIDE DEF r
  <1>3. op # "wait" /\ op # "record"
    BY DEF Works
  <1>a. \A i \in DOMAIN q : q[i].op = op => q[i].block < b
    BY DEF Enqueued
  <1>b. \A i \in DOMAIN q : q[i].op = "record" =>
            \A c \in Block : q[i].event = <<own, c>> => c < b
    BY DEF Queue
  <1>4. Queue(r, op, own, other, lag, ev)
    <2>1. \A i \in DOMAIN r : \/ r[i].op = op /\ r[i].block \in Block
                              \/ r[i].op = "record" /\ \E c \in Block : r[i].event = <<own, c>>
                              \/ r[i].op = "wait" /\ \E c \in Block : r[i].event = <<other, c>>
      BY <1>2 DEF Queue
    <2>2. \A i, j \in DOMAIN r : i < j /\ r[j].op = op =>
            /\ r[i].op = op => r[i].block < r[j].block
            /\ r[i].op = "record" => \A c \in Block : r[i].event = <<own, c>> => c < r[j].block
      BY <1>2, <1>3, <1>a, <1>b, SMTT(30) DEF Queue
    <2>3. \A i \in DOMAIN r : r[i].op = op /\ r[i].block >= lag =>
            After(r, i, <<other, r[i].block - lag>>, ev)
      BY <1>2, <1>3, SMTT(30) DEF Queue, After
    <2>4. \A i \in DOMAIN r : r[i].op = "record" => ev[r[i].event] # "new"
      BY <1>2, <1>3 DEF Queue
    <2>5. \A c \in Block : ev[<<own, c>>] = "complete" =>
            \A i \in DOMAIN r : r[i].op = op => r[i].block > c
      BY <1>2, <1>3 DEF Queue, Block
    <2>6. QED BY <2>1, <2>2, <2>3, <2>4, <2>5 DEF Queue
  <1>5. Enqueued(r, op) = Enqueued(q, op) \cup {b}
    BY <1>2, <1>3 DEF Enqueued
  <1>7. QED BY <1>2, <1>4, <1>5 DEF r

\* event.record: the event was new, or was recorded before.
LEMMA PushRecord ==
    ASSUME NEW op, NEW own, NEW other, NEW lag, Works(op, own, other, lag),
           NEW ev, NEW b \in Block, NEW q \in Seq(Operation),
           Queue(q, op, own, other, lag, ev), ev[<<own, b>>] # "new"
    PROVE  LET r == Append(q, Record(<<own, b>>)) IN
           /\ r \in Seq(Operation)
           /\ Queue(r, op, own, other, lag, ev)
           /\ Enqueued(r, op) = Enqueued(q, op)
  <1> DEFINE o == Record(<<own, b>>)
             r == Append(q, o)
  <1>1. /\ o \in Operation /\ o.op = "record" /\ o.event = <<own, b>>
    BY DEF Works, Operation, Record, Events
  <1> HIDE DEF o
  <1>2. /\ r \in Seq(Operation) /\ Len(r) = Len(q) + 1 /\ Len(q) \in Nat
        /\ DOMAIN r = 1 .. Len(q) + 1 /\ DOMAIN q = 1 .. Len(q)
        /\ \A i \in DOMAIN q : r[i] = q[i]
        /\ r[Len(q) + 1] = o
    BY <1>1, Appended
  <1> HIDE DEF r
  <1>3. op # "wait" /\ op # "record"
    BY DEF Works
  <1>4. Queue(r, op, own, other, lag, ev)
    <2>1. \A i \in DOMAIN r : \/ r[i].op = op /\ r[i].block \in Block
                              \/ r[i].op = "record" /\ \E c \in Block : r[i].event = <<own, c>>
                              \/ r[i].op = "wait" /\ \E c \in Block : r[i].event = <<other, c>>
      BY <1>1, <1>2 DEF Queue
    <2>2. \A i, j \in DOMAIN r : i < j /\ r[j].op = op =>
            /\ r[i].op = op => r[i].block < r[j].block
            /\ r[i].op = "record" => \A c \in Block : r[i].event = <<own, c>> => c < r[j].block
      BY <1>1, <1>2, <1>3, SMTT(30) DEF Queue
    <2>7. \A e : \A i \in DOMAIN q : After(q, i, e, ev) => After(r, i, e, ev)
      BY <1>2 DEF After
    <2>3. \A i \in DOMAIN r : r[i].op = op /\ r[i].block >= lag =>
            After(r, i, <<other, r[i].block - lag>>, ev)
      BY <1>1, <1>2, <1>3, <2>7 DEF Queue
    <2>4. \A i \in DOMAIN r : r[i].op = "record" => ev[r[i].event] # "new"
      BY <1>1, <1>2 DEF Queue
    <2>5. \A c \in Block : ev[<<own, c>>] = "complete" =>
            \A i \in DOMAIN r : r[i].op = op => r[i].block > c
      BY <1>1, <1>2, <1>3 DEF Queue
    <2>6. QED BY <2>1, <2>2, <2>3, <2>4, <2>5 DEF Queue
  <1>5. Enqueued(r, op) = Enqueued(q, op)
    BY <1>1, <1>2, <1>3 DEF Enqueued
  <1>7. QED BY <1>2, <1>4, <1>5 DEF r, o

\* The event of a block becomes recorded: no queue minds.
LEMMA EventRecorded ==
    ASSUME NEW op, NEW own, NEW other, NEW lag, Works(op, own, other, lag),
           NEW ev \in [Events -> {"new", "recorded", "complete"}], NEW e \in Events,
           ev[e] = "new", NEW q, Queue(q, op, own, other, lag, ev)
    PROVE  Queue(q, op, own, other, lag, [ev EXCEPT ![e] = "recorded"])
  <1> DEFINE nv == [ev EXCEPT ![e] = "recorded"]
  <1>1. /\ \A f : ev[f] = "complete" => nv[f] = "complete"
        /\ \A f : ev[f] # "new" => nv[f] # "new"
        /\ \A c \in Block : nv[<<own, c>>] = "complete" => ev[<<own, c>>] = "complete"
    BY DEF Events, Works
  <1> HIDE DEF nv
  <1>2. \A i, f : After(q, i, f, ev) => After(q, i, f, nv)
    BY <1>1 DEF After
  <1>3. Queue(q, op, own, other, lag, nv)
    BY <1>1, <1>2 DEF Queue
  <1>4. QED BY <1>3 DEF nv

\* The event of a block completes: its stream has no work of that block or an
\* earlier one left.
LEMMA EventCompletes ==
    ASSUME NEW op, NEW own, NEW other, NEW lag, Works(op, own, other, lag),
           NEW ev \in [Events -> {"new", "recorded", "complete"}], NEW k, NEW b \in Block,
           <<k, b>> \in Events, NEW q, Queue(q, op, own, other, lag, ev),
           k = own => \A c \in Enqueued(q, op) : c > b
    PROVE  Queue(q, op, own, other, lag, [ev EXCEPT ![<<k, b>>] = "complete"])
  <1> DEFINE nv == [ev EXCEPT ![<<k, b>>] = "complete"]
  <1>1. /\ \A f : ev[f] = "complete" => nv[f] = "complete"
        /\ \A f : ev[f] # "new" => nv[f] # "new"
        /\ \A c \in Block : nv[<<own, c>>] = "complete" =>
             ev[<<own, c>>] = "complete" \/ (own = k /\ c = b)
    BY DEF Events, Works
  <1> HIDE DEF nv
  <1>2. \A i, f : After(q, i, f, ev) => After(q, i, f, nv)
    BY <1>1 DEF After
  <1>3. \A i \in DOMAIN q : q[i].op = op => q[i].block \in Enqueued(q, op)
    BY DEF Enqueued
  <1>4. Queue(q, op, own, other, lag, nv)
    BY <1>1, <1>2, <1>3 DEF Queue
  <1>5. QED BY <1>4 DEF nv

\* The tail of a sequence.
LEMMA Popped ==
    ASSUME NEW q \in Seq(Operation), q # <<>>
    PROVE  /\ Tail(q) \in Seq(Operation)
           /\ Len(q) \in Nat \ {0} /\ Len(Tail(q)) = Len(q) - 1
           /\ DOMAIN q = 1 .. Len(q) /\ DOMAIN Tail(q) = 1 .. Len(q) - 1
           /\ \A i \in DOMAIN Tail(q) : Tail(q)[i] = q[i + 1]
           /\ 1 \in DOMAIN q /\ Head(q) = q[1] /\ Head(q) \in Operation
  OBVIOUS

\* The first operation leaves the stream, a wait only when its event is complete.
LEMMA Pop ==
    ASSUME NEW op, NEW own, NEW other, NEW lag, Works(op, own, other, lag),
           NEW ev, NEW q \in Seq(Operation), q # <<>>,
           Queue(q, op, own, other, lag, ev),
           Head(q).op = "wait" => ev[Head(q).event] = "complete"
    PROVE  /\ Queue(Tail(q), op, own, other, lag, ev)
           /\ Enqueued(Tail(q), op) = IF Head(q).op = op THEN Enqueued(q, op) \ {Head(q).block}
                                                         ELSE Enqueued(q, op)
           /\ \A e : After(q, Len(q) + 1, e, ev) => After(Tail(q), Len(Tail(q)) + 1, e, ev)
  <1> DEFINE r == Tail(q)
             h == Head(q)
  <1>2. /\ r \in Seq(Operation) /\ Len(q) \in Nat \ {0} /\ Len(r) = Len(q) - 1
        /\ DOMAIN q = 1 .. Len(q) /\ DOMAIN r = 1 .. Len(q) - 1
        /\ \A i \in DOMAIN r : r[i] = q[i + 1] /\ i + 1 \in DOMAIN q
        /\ \A j \in DOMAIN q : j # 1 => j - 1 \in DOMAIN r /\ r[j - 1] = q[j]
        /\ 1 \in DOMAIN q /\ h = q[1]
    BY Popped
  <1> HIDE DEF r, h
  <1>3. op # "wait" /\ op # "record"
    BY DEF Works
  <1>0. h.op = "wait" => ev[h.event] = "complete"
    BY DEF h
  <1>6. \A e : \A i \in DOMAIN q : i # 1 /\ After(q, i, e, ev) => After(r, i - 1, e, ev)
    <2> SUFFICES ASSUME NEW i \in DOMAIN q, NEW e, i # 1, ev[e] # "complete",
                        NEW j \in DOMAIN q, j < i, q[j].op = "wait", q[j].event = e
                 PROVE  \E m \in DOMAIN r : m < i - 1 /\ r[m].op = "wait" /\ r[m].event = e
      BY DEF After
    <2>1. j # 1
      BY <1>0, <1>2
    <2>2. j - 1 \in DOMAIN r /\ r[j - 1] = q[j] /\ j - 1 < i - 1
      BY <1>2, <2>1
    <2>3. QED BY <2>2
  <1>7. \A e : After(q, Len(q) + 1, e, ev) => After(r, Len(r) + 1, e, ev)
    BY <1>0, <1>2 DEF After
  <1>4. Queue(r, op, own, other, lag, ev)
    <2>1. \A i \in DOMAIN r : \/ r[i].op = op /\ r[i].block \in Block
                              \/ r[i].op = "record" /\ \E c \in Block : r[i].event = <<own, c>>
                              \/ r[i].op = "wait" /\ \E c \in Block : r[i].event = <<other, c>>
      BY <1>2 DEF Queue
    <2>2. \A i, j \in DOMAIN r : i < j /\ r[j].op = op =>
            /\ r[i].op = op => r[i].block < r[j].block
            /\ r[i].op = "record" => \A c \in Block : r[i].event = <<own, c>> => c < r[j].block
      BY <1>2, <1>3 DEF Queue
    <2>3. \A i \in DOMAIN r : r[i].op = op /\ r[i].block >= lag =>
            After(r, i, <<other, r[i].block - lag>>, ev)
      <3> SUFFICES ASSUME NEW i \in DOMAIN r, r[i].op = op, r[i].block >= lag
                   PROVE  After(r, i, <<other, r[i].block - lag>>, ev)
        OBVIOUS
      <3>1. i + 1 \in DOMAIN q /\ i + 1 # 1 /\ q[i + 1] = r[i] /\ (i + 1) - 1 = i
        BY <1>2
      <3>2. After(q, i + 1, <<other, q[i + 1].block - lag>>, ev)
        BY <3>1 DEF Queue
      <3>3. QED BY <1>6, <3>1, <3>2
    <2>4. \A i \in DOMAIN r : r[i].op = "record" => ev[r[i].event] # "new"
      BY <1>2 DEF Queue
    <2>5. \A c \in Block : ev[<<own, c>>] = "complete" =>
            \A i \in DOMAIN r : r[i].op = op => r[i].block > c
      BY <1>2, <1>3 DEF Queue
    <2>6. QED BY <2>1, <2>2, <2>3, <2>4, <2>5 DEF Queue
  <1>5. Enqueued(r, op) = IF h.op = op THEN Enqueued(q, op) \ {h.block} ELSE Enqueued(q, op)
    <2>1. \A i \in DOMAIN r : r[i].op = op => r[i].block \in Enqueued(q, op)
                                           /\ (h.op = op => r[i].block # h.block)
      <3>1. \A i \in DOMAIN r : r[i].op = op /\ h.op = op => q[1].block < q[i + 1].block
        <4>1. \A i \in DOMAIN r : i + 1 \in DOMAIN q /\ 1 < i + 1 /\ q[i + 1] = r[i]
          BY <1>2
        <4>2. 1 \in DOMAIN q /\ q[1] = h
          BY <1>2
        <4>3. QED BY <4>1, <4>2 DEF Queue
      <3>2. \A i \in DOMAIN q : q[i].op = op => q[i].block \in Block
        BY <1>3 DEF Queue
      <3>3. QED BY <1>2, <3>1, <3>2 DEF Enqueued, Block
    <2>2. \A j \in DOMAIN q : q[j].op = op /\ (h.op = op => q[j].block # h.block) =>
            q[j].block \in Enqueued(r, op)
      BY <1>2 DEF Enqueued
    <2>3. Enqueued(r, op) \subseteq IF h.op = op THEN Enqueued(q, op) \ {h.block}
                                                 ELSE Enqueued(q, op)
      BY <2>1 DEF Enqueued
    <2>4. \A c \in Enqueued(q, op) : (h.op = op => c # h.block) => c \in Enqueued(r, op)
      BY <2>2 DEF Enqueued
    <2>5. QED BY <2>3, <2>4
  <1>8. QED BY <1>4, <1>5, <1>7 DEF r, h

\* What the first operation of a stream tells of the rest.
LEMMA First ==
    ASSUME NEW op, NEW own, NEW other, NEW lag, Works(op, own, other, lag),
           NEW ev, NEW q \in Seq(Operation), q # <<>>,
           Queue(q, op, own, other, lag, ev)
    PROVE  LET o == Head(q) IN
           /\ \/ o.op = op /\ o.block \in Enqueued(q, op) /\ o.block \in Block
              \/ o.op = "record" /\ \E b \in Block : o.event = <<own, b>>
              \/ o.op = "wait" /\ \E b \in Block : o.event = <<other, b>>
           /\ o.op = op =>
                /\ \A c \in Enqueued(q, op) : c >= o.block
                /\ o.block >= lag => ev[<<other, o.block - lag>>] = "complete"
           /\ o.op = "record" =>
                /\ ev[o.event] # "new"
                /\ \A b \in Block : o.event = <<own, b>> => \A c \in Enqueued(q, op) : c > b
  <1>2. /\ Len(q) \in Nat \ {0} /\ DOMAIN q = 1 .. Len(q)
        /\ 1 \in DOMAIN q /\ Head(q) = q[1]
    BY Popped
  <1>3. op # "wait" /\ op # "record"
    BY DEF Works
  <1>4. \/ q[1].op = op /\ q[1].block \in Enqueued(q, op) /\ q[1].block \in Block
        \/ q[1].op = "record" /\ \E b \in Block : q[1].event = <<own, b>>
        \/ q[1].op = "wait" /\ \E b \in Block : q[1].event = <<other, b>>
    BY <1>2 DEF Queue, Enqueued
  <1>5. q[1].op = op => \A c \in Enqueued(q, op) : c >= q[1].block
    BY <1>2, <1>3 DEF Queue, Enqueued, Block
  <1>6. q[1].op = op /\ q[1].block >= lag => ev[<<other, q[1].block - lag>>] = "complete"
    BY <1>2 DEF Queue, After
  <1>7. q[1].op = "record" =>
          /\ ev[q[1].event] # "new"
          /\ \A b \in Block : q[1].event = <<own, b>> => \A c \in Enqueued(q, op) : c > b
    BY <1>2, <1>3 DEF Queue, Enqueued, Block
  <1>8. QED BY <1>2, <1>4, <1>5, <1>6, <1>7

\* What the events say of the work that is left.
LEMMA Left ==
    ASSUME NEW op, NEW own, NEW other, NEW lag, NEW ev, NEW q,
           Queue(q, op, own, other, lag, ev)
    PROVE  /\ \A c \in Block : ev[<<own, c>>] = "complete" =>
                 \A b \in Enqueued(q, op) : b > c
           /\ op \notin {"wait", "record"} => Enqueued(q, op) \subseteq Block
  BY DEF Queue, Enqueued

------------------------------------------------------------------------------
(* The operations of the two streams, and the slots they name. *)

\* Enqueuing one, two or three operations appends them one after the other.
LEMMA Enqueues ==
    ASSUME NEW q \in Seq(Operation), NEW a \in Operation, NEW b \in Operation, NEW c \in Operation
    PROVE  /\ q \o <<>> = q
           /\ q \o <<a>> = Append(q, a)
           /\ q \o Append(<<>>, a) = Append(q, a)
           /\ q \o Append(<<a>>, b) = Append(Append(q, a), b)
           /\ q \o Append(<<a>> \o <<b>>, c) = Append(Append(Append(q, a), b), c)
  <1>1. q \o <<>> = q
    OBVIOUS
  <1>2. q \o <<a>> = Append(q, a)
    OBVIOUS
  <1>3. q \o Append(<<>>, a) = Append(q, a)
    <2>1. Append(<<>>, a) = <<a>>
      OBVIOUS
    <2>2. QED BY <1>2, <2>1
  <1>4. q \o Append(<<a>>, b) = Append(Append(q, a), b)
    OBVIOUS
  <1>5. q \o Append(<<a>> \o <<b>>, c) = Append(Append(Append(q, a), b), c)
    OBVIOUS
  <1>6. QED BY <1>1, <1>2, <1>3, <1>4, <1>5

\* Appending an operation of another kind keeps the shapes of a stream.
LEMMA Appends ==
    ASSUME NEW q \in Seq(Operation), NEW o \in Operation, NEW ring
    PROVE  /\ CopyShapes(q, ring) /\ o.op # "copy" => CopyShapes(Append(q, o), ring)
           /\ SumShapes(q) /\ o.op # "sum" => SumShapes(Append(q, o))
  BY Appended DEF CopyShapes, SumShapes

\* Appending the copy of a block keeps the shapes of the copy stream.
LEMMA AppendsCopy ==
    ASSUME NEW q \in Seq(Operation), NEW b \in Block, NEW ring \in {2, 3}, CopyShapes(q, ring)
    PROVE  LET o == Copy(b, b % ring, b % 2) IN
           /\ CopyShapes(Append(q, o), ring)
           /\ o \in Operation /\ o.op = "copy" /\ o.block = b
  <1> DEFINE o == Copy(b, b % ring, b % 2)
  <1>1. b % ring \in 0 .. 2 /\ b % 2 \in 0 .. 1
    BY BlocksAssumption DEF Block
  <1>2. o \in Operation /\ o.op = "copy" /\ o.block = b
    BY <1>1 DEF Operation, Copy
  <1>3. o = Copy(o.block, o.block % ring, o.block % 2)
    BY <1>2
  <1> HIDE DEF o
  <1>4. CopyShapes(Append(q, o), ring)
    BY <1>2, <1>3, Appended DEF CopyShapes
  <1>5. QED BY <1>2, <1>4 DEF o

\* Appending the sum of a block keeps the shapes of the compute stream.
LEMMA AppendsSum ==
    ASSUME NEW q \in Seq(Operation), NEW b \in Block, SumShapes(q)
    PROVE  LET o == Sum(b, b % 2) IN
           /\ SumShapes(Append(q, o))
           /\ o \in Operation /\ o.op = "sum" /\ o.block = b
  <1> DEFINE o == Sum(b, b % 2)
  <1>1. b % 2 \in 0 .. 1
    BY BlocksAssumption DEF Block
  <1>2. o \in Operation /\ o.op = "sum" /\ o.block = b
    BY <1>1 DEF Operation, Sum
  <1>3. o = Sum(o.block, o.block % 2)
    BY <1>2
  <1> HIDE DEF o
  <1>4. SumShapes(Append(q, o))
    BY <1>2, <1>3, Appended DEF SumShapes
  <1>5. QED BY <1>2, <1>4 DEF o

\* The first operation has the shape of its stream, and the rest keeps it.
LEMMA PopsShapes ==
    ASSUME NEW q \in Seq(Operation), q # <<>>, NEW ring
    PROVE  LET o == Head(q) IN
           /\ CopyShapes(q, ring) =>
                /\ CopyShapes(Tail(q), ring)
                /\ o.op = "copy" => o = Copy(o.block, o.block % ring, o.block % 2)
           /\ SumShapes(q) =>
                /\ SumShapes(Tail(q))
                /\ o.op = "sum" => o = Sum(o.block, o.block % 2)
  <1>1. DOMAIN q = 1 .. Len(q) /\ DOMAIN Tail(q) = 1 .. Len(q) - 1 /\ Len(q) \in Nat
        /\ \A i \in DOMAIN Tail(q) : Tail(q)[i] = q[i + 1] /\ i + 1 \in DOMAIN q
        /\ 1 \in DOMAIN q /\ Head(q) = q[1]
    BY Popped
  <1>2. QED BY <1>1 DEF CopyShapes, SumShapes

\* Two blocks that share a slot of a ring of two are two blocks apart.
LEMMA Mod2 == \A b, c \in Nat : b % 2 = c % 2 /\ b < c => b + 2 <= c
  OBVIOUS

\* Two blocks that share a slot of a ring of three are three blocks apart.
LEMMA Mod3 == \A b, c \in Nat : b % 3 = c % 3 /\ b < c => b + 3 <= c
  OBVIOUS

------------------------------------------------------------------------------
(* What a step of the host or of the device does to the two streams. *)
LEMMA Modes ==
    TypeOK => /\ Variant \in {"sync", "double_buffer", "three_stage"}
              /\ Ring \in {2, 3}
  BY VariantsAssumption DEF TypeOK, Variant, Ring

\* The types of the streams, the events and the counters.
LEMMA Streaming ==
    TypeOK => /\ stream["copy"] \in Seq(Operation) /\ stream["compute"] \in Seq(Operation)
              /\ event \in [Events -> {"new", "recorded", "complete"}]
              /\ next \in Nat /\ block \in Nat /\ Blocks \in Nat \ {0}
              /\ next <= Blocks /\ block <= Blocks
              /\ \A b \in Block : b \in Nat /\ b < Blocks
              /\ \A b \in Block : <<"h2d", b>> \in Events /\ <<"compute", b>> \in Events
  BY BlocksAssumption DEF TypeOK, ContextTypeOK, Streams, Events, Block

\* Enqueuing does not change what a stream runs next.
HeadsKept == \A s \in Streams :
    stream[s] # <<>> => stream'[s] # <<>> /\ Head(stream'[s]) = Head(stream[s])

\* Appending does not change the first operation.
LEMMA HeadAppended ==
    ASSUME NEW q \in Seq(Operation), NEW o \in Operation
    PROVE  q # <<>> => Append(q, o) # <<>> /\ Head(Append(q, o)) = Head(q)
  OBVIOUS

\* The copy stream and the compute stream are two instances of Queue.
LEMMA BothQueues == Works("copy", "h2d", "compute", 2) /\ Works("sum", "compute", "h2d", 0)
  BY DEF Works

\* The copy stream waits for the sum that last used the device slot.
LEMMA CopyWaits ==
    ASSUME NEW q \in Seq(Operation), NEW ev, NEW b \in Block, NEW ring,
           CopyQueue(q, ev), CopyShapes(q, ring)
    PROVE  LET r == Append(q, Wait(<<"compute", b>>)) IN
           /\ r \in Seq(Operation)
           /\ CopyQueue(r, ev) /\ CopyShapes(r, ring)
           /\ Enqueued(r, "copy") = Enqueued(q, "copy")
           /\ After(r, Len(r) + 1, <<"compute", b>>, ev)
  <1>1. Wait(<<"compute", b>>) \in Operation /\ Wait(<<"compute", b>>).op # "copy"
    BY DEF Wait, Operation, Events
  <1>2. QED BY <1>1, BothQueues, PushWait, Appends DEF CopyQueue

\* The compute stream waits for the copy of the block it sums.
LEMMA SumWaits ==
    ASSUME NEW q \in Seq(Operation), NEW ev, NEW b \in Block,
           SumQueue(q, ev), SumShapes(q)
    PROVE  LET r == Append(q, Wait(<<"h2d", b>>)) IN
           /\ r \in Seq(Operation)
           /\ SumQueue(r, ev) /\ SumShapes(r)
           /\ Enqueued(r, "sum") = Enqueued(q, "sum")
           /\ After(r, Len(r) + 1, <<"h2d", b>>, ev)
  <1>1. Wait(<<"h2d", b>>) \in Operation /\ Wait(<<"h2d", b>>).op # "sum"
    BY DEF Wait, Operation, Events
  <1>2. QED BY <1>1, BothQueues, PushWait, Appends DEF SumQueue

\* The copy of the next block, behind the sum that last used its device slot.
LEMMA CopyEnqueued ==
    ASSUME NEW q \in Seq(Operation), NEW ev, NEW b \in Block, NEW ring \in {2, 3},
           CopyQueue(q, ev), CopyShapes(q, ring),
           \A c \in Enqueued(q, "copy") : c < b,
           \A c \in Block : ev[<<"h2d", c>>] # "new" => c < b,
           b >= 2 => After(q, Len(q) + 1, <<"compute", b - 2>>, ev)
    PROVE  LET r == Append(q, Copy(b, b % ring, b % 2)) IN
           /\ r \in Seq(Operation)
           /\ CopyQueue(r, ev) /\ CopyShapes(r, ring)
           /\ Enqueued(r, "copy") = Enqueued(q, "copy") \cup {b}
  <1> DEFINE o == Copy(b, b % ring, b % 2)
  <1>1. CopyShapes(Append(q, o), ring) /\ o \in Operation /\ o.op = "copy" /\ o.block = b
    BY AppendsCopy
  <1> HIDE DEF o
  <1>2. /\ Append(q, o) \in Seq(Operation)
        /\ Queue(Append(q, o), "copy", "h2d", "compute", 2, ev)
        /\ Enqueued(Append(q, o), "copy") = Enqueued(q, "copy") \cup {b}
    BY <1>1, BothQueues, PushWork DEF CopyQueue
  <1>3. QED BY <1>1, <1>2 DEF CopyQueue, o

\* The sum of the next block, behind its copy.
LEMMA SumEnqueued ==
    ASSUME NEW q \in Seq(Operation), NEW ev, NEW b \in Block,
           SumQueue(q, ev), SumShapes(q),
           \A c \in Enqueued(q, "sum") : c < b,
           \A c \in Block : ev[<<"compute", c>>] # "new" => c < b,
           After(q, Len(q) + 1, <<"h2d", b>>, ev)
    PROVE  LET r == Append(q, Sum(b, b % 2)) IN
           /\ r \in Seq(Operation)
           /\ SumQueue(r, ev) /\ SumShapes(r)
           /\ Enqueued(r, "sum") = Enqueued(q, "sum") \cup {b}
  <1> DEFINE o == Sum(b, b % 2)
  <1>1. SumShapes(Append(q, o)) /\ o \in Operation /\ o.op = "sum" /\ o.block = b
    BY AppendsSum
  <1> HIDE DEF o
  <1>4. b - 0 = b /\ b \in Nat
    BY BlocksAssumption DEF Block
  <1>5. b >= 0 => After(q, Len(q) + 1, <<"h2d", b - 0>>, ev)
    BY <1>4
  <1>2. /\ Append(q, o) \in Seq(Operation)
        /\ Queue(Append(q, o), "sum", "compute", "h2d", 0, ev)
        /\ Enqueued(Append(q, o), "sum") = Enqueued(q, "sum") \cup {b}
    BY <1>1, <1>5, BothQueues, PushWork DEF SumQueue
  <1>3. QED BY <1>1, <1>2 DEF SumQueue, o

\* The event of the copy, or of the sum, of the block b is recorded on its stream.
LEMMA CopyRecorded ==
    ASSUME NEW q \in Seq(Operation), NEW r, NEW b \in Block, NEW ring,
           NEW ev \in [Events -> {"new", "recorded", "complete"}],
           CopyQueue(q, ev), CopyShapes(q, ring), SumQueue(r, ev), ev[<<"h2d", b>>] = "new"
    PROVE  LET p  == Append(q, Record(<<"h2d", b>>))
               nv == [ev EXCEPT ![<<"h2d", b>>] = "recorded"] IN
           /\ p \in Seq(Operation)
           /\ CopyQueue(p, nv) /\ CopyShapes(p, ring) /\ SumQueue(r, nv)
           /\ Enqueued(p, "copy") = Enqueued(q, "copy")
  <1> DEFINE o  == Record(<<"h2d", b>>)
             nv == [ev EXCEPT ![<<"h2d", b>>] = "recorded"]
  <1>1. o \in Operation /\ o.op # "copy"
    BY DEF Record, Operation, Events
  <1>2. <<"h2d", b>> \in Events
    BY DEF Events
  <1>3. Queue(q, "copy", "h2d", "compute", 2, nv) /\ Queue(r, "sum", "compute", "h2d", 0, nv)
    BY <1>2, BothQueues, EventRecorded DEF CopyQueue, SumQueue
  <1>4. nv[<<"h2d", b>>] # "new"
    BY <1>2
  <1> HIDE DEF nv
  <1>5. /\ Append(q, o) \in Seq(Operation)
        /\ Queue(Append(q, o), "copy", "h2d", "compute", 2, nv)
        /\ Enqueued(Append(q, o), "copy") = Enqueued(q, "copy")
    BY <1>3, <1>4, BothQueues, PushRecord
  <1>6. CopyShapes(Append(q, o), ring)
    BY <1>1, Appends
  <1>7. QED BY <1>3, <1>5, <1>6 DEF CopyQueue, SumQueue, nv

\* The event of a sum is recorded behind it.
LEMMA SumRecorded ==
    ASSUME NEW q \in Seq(Operation), NEW r, NEW b \in Block,
           NEW ev \in [Events -> {"new", "recorded", "complete"}],
           SumQueue(q, ev), SumShapes(q), CopyQueue(r, ev), ev[<<"compute", b>>] = "new"
    PROVE  LET p  == Append(q, Record(<<"compute", b>>))
               nv == [ev EXCEPT ![<<"compute", b>>] = "recorded"] IN
           /\ p \in Seq(Operation)
           /\ SumQueue(p, nv) /\ SumShapes(p) /\ CopyQueue(r, nv)
           /\ Enqueued(p, "sum") = Enqueued(q, "sum")
  <1> DEFINE o  == Record(<<"compute", b>>)
             nv == [ev EXCEPT ![<<"compute", b>>] = "recorded"]
  <1>1. o \in Operation /\ o.op # "sum"
    BY DEF Record, Operation, Events
  <1>2. <<"compute", b>> \in Events
    BY DEF Events
  <1>3. Queue(r, "copy", "h2d", "compute", 2, nv) /\ Queue(q, "sum", "compute", "h2d", 0, nv)
    BY <1>2, BothQueues, EventRecorded DEF CopyQueue, SumQueue
  <1>4. nv[<<"compute", b>>] # "new"
    BY <1>2
  <1> HIDE DEF nv
  <1>5. /\ Append(q, o) \in Seq(Operation)
        /\ Queue(Append(q, o), "sum", "compute", "h2d", 0, nv)
        /\ Enqueued(Append(q, o), "sum") = Enqueued(q, "sum")
    BY <1>3, <1>4, BothQueues, PushRecord
  <1>6. SumShapes(Append(q, o))
    BY <1>1, Appends
  <1>7. QED BY <1>3, <1>5, <1>6 DEF CopyQueue, SumQueue, nv

\* run_double_buffer makes the copy stream wait for the sum two blocks back.
LEMMA SlotStreams ==
    ASSUME TypeOK, PlaceInv, StreamsInv, BuffersInv, MainInv, DoubleSlot, pass' = pass
    PROVE  /\ StreamsInv' /\ Copies' = Copies /\ Sums' = Sums
           /\ next >= 2 => After(stream'["copy"], Len(stream'["copy"]) + 1,
                                 <<"compute", next - 2>>, event)
           /\ stream'["copy"] \in Seq(Operation) /\ stream'["compute"] \in Seq(Operation)
           /\ HeadsKept
  <1> DEFINE q == stream["copy"]
  <1>1. /\ q \in Seq(Operation) /\ stream["compute"] \in Seq(Operation)
        /\ CopyQueue(q, event) /\ CopyShapes(q, Ring)
        /\ SumQueue(stream["compute"], event) /\ SumShapes(stream["compute"])
    BY Streaming DEF StreamsInv
  <1>2. stream'["compute"] = stream["compute"] /\ event' = event /\ running' = running
        /\ stream'["copy"] = q \o (IF next >= 2 THEN WaitFor(<<"compute", next - 2>>) ELSE <<>>)
    BY DEF DoubleSlot, Enqueue, TypeOK, ContextTypeOK, Streams
  <1>r. Ring' = Ring
    BY DEF Ring, Variant
  <1>3. CASE next < 2
    <2>1. q \o <<>> = q /\ ~(next >= 2)
      BY <1>1, <1>3, Streaming
    <2>2. stream'["copy"] = q
      BY <1>2, <2>1
    <2>3. Copies' = Copies /\ Sums' = Sums
      BY <1>2, <2>2 DEF Copies, Sums
    <2>4. StreamsInv'
      BY <1>1, <1>2, <1>r, <2>2 DEF StreamsInv
    <2>5. HeadsKept
      BY <1>2, <2>2 DEF HeadsKept, Streams
    <2>6. QED BY <1>1, <1>2, <2>1, <2>2, <2>3, <2>4, <2>5
  <1>4. CASE next >= 2
    <2> DEFINE b == next - 2
    <2>1. b \in Block /\ event[<<"compute", b>>] # "new"
      BY <1>4, Streaming DEF DoubleSlot, MainInv, TopInv, CountInv, FillInv, BuffersInv, Block
    <2> HIDE DEF b
    <2>2. stream'["copy"] = Append(q, Wait(<<"compute", b>>))
      <3>1. Wait(<<"compute", b>>) \in Operation
        BY <2>1 DEF Wait, Operation, Events
      <3>2. stream'["copy"] = q \o <<Wait(<<"compute", b>>)>>
        BY <1>2, <1>4, <2>1 DEF WaitFor, b
      <3>3. QED BY <1>1, <3>1, <3>2, Enqueues
    <2>5. HeadsKept
      <3>1. Wait(<<"compute", b>>) \in Operation
        BY <2>1 DEF Wait, Operation, Events
      <3>2. QED BY <1>1, <1>2, <2>2, <3>1, HeadAppended DEF HeadsKept, Streams
    <2>3. /\ stream'["copy"] \in Seq(Operation)
          /\ CopyQueue(stream'["copy"], event) /\ CopyShapes(stream'["copy"], Ring)
          /\ Copies' = Copies
          /\ After(stream'["copy"], Len(stream'["copy"]) + 1, <<"compute", b>>, event)
      BY <1>1, <2>1, <2>2, CopyWaits DEF Copies
    <2>4. QED BY <1>1, <1>2, <1>r, <2>3, <2>5 DEF StreamsInv, Sums, b
  <1>5. QED BY <1>3, <1>4, Streaming

\* run_double_buffer enqueues a copy and records its event at once.
LEMMA DoubleCopyStreams ==
    ASSUME TypeOK, PlaceInv, StreamsInv, BuffersInv, MainInv, DoubleCopy, pass' = pass
    PROVE  /\ StreamsInv' /\ Copies' = Copies \cup {next} /\ Sums' = Sums
           /\ event' = [event EXCEPT ![<<"h2d", next>>] = "recorded"]
           /\ stream'["copy"] \in Seq(Operation) /\ stream'["compute"] \in Seq(Operation)
           /\ HeadsKept
  <1> DEFINE q == stream["copy"]
             o == Copy(next, next % 2, next % 2)
             e == Record(<<"h2d", next>>)
  <1>1. /\ q \in Seq(Operation) /\ stream["compute"] \in Seq(Operation)
        /\ CopyQueue(q, event) /\ CopyShapes(q, 2)
        /\ SumQueue(stream["compute"], event) /\ SumShapes(stream["compute"])
        /\ Ring = 2 /\ Ring' = 2
    BY Streaming DEF StreamsInv, DoubleCopy, PlaceInv, DoubleLabels, Ring, Variant
  <1>2. stream'["compute"] = stream["compute"] /\ running' = running
        /\ event' = [event EXCEPT ![<<"h2d", next>>] = "recorded"]
        /\ stream'["copy"] = q \o Append(<<o>>, e)
    BY DEF DoubleCopy, EnqueueRecord, Enqueue, TypeOK, ContextTypeOK, Streams
  <1>3. /\ next \in Block
        /\ \A c \in Enqueued(q, "copy") : c < next
        /\ \A c \in Block : event[<<"h2d", c>>] # "new" => c < next
        /\ next >= 2 => After(q, Len(q) + 1, <<"compute", next - 2>>, event)
        /\ event[<<"h2d", next>>] = "new"
    <2>1. pc = "double.copy" /\ outcome = "running" /\ Top = next /\ next \in Block
      BY Streaming DEF DoubleCopy, PlaceInv, LastLabels, Top, MainInv, TopInv, CountInv, FillInv,
         Filling, Block
    <2>2. \A c \in Enqueued(q, "copy") : c < next
      BY <2>1 DEF MainInv, TopInv, CountInv, FillInv, Copies
    <2>3. next >= 2 => After(q, Len(q) + 1, <<"compute", next - 2>>, event)
      BY <2>1 DEF MainInv, TopInv, CountInv, FillInv, Filling
    <2>4. event[<<"h2d", next>>] = "new"
      BY <2>1, Streaming DEF MainInv, TopInv, CountInv, FillInv
    <2>5. \A c \in Block : event[<<"h2d", c>>] # "new" => c < next
      BY <2>1, <2>4, Streaming DEF BuffersInv
    <2>6. QED BY <2>1, <2>2, <2>3, <2>4, <2>5
  <1>4. o \in Operation /\ e \in Operation
    BY <1>1, <1>3, AppendsCopy, Streaming DEF Record, Operation
  <1>5. stream'["copy"] = Append(Append(q, o), e)
    BY <1>1, <1>2, <1>4, Enqueues
  <1>6. /\ Append(q, o) \in Seq(Operation)
        /\ CopyQueue(Append(q, o), event) /\ CopyShapes(Append(q, o), 2)
        /\ Enqueued(Append(q, o), "copy") = Copies \cup {next}
    BY <1>1, <1>3, CopyEnqueued DEF Copies
  <1> DEFINE r == Append(q, o)
  <1>e. event \in [Events -> {"new", "recorded", "complete"}]
    BY Streaming
  <1>9. r \in Seq(Operation) /\ CopyQueue(r, event) /\ CopyShapes(r, 2)
        /\ stream'["copy"] = Append(r, Record(<<"h2d", next>>))
        /\ Enqueued(r, "copy") = Copies \cup {next}
    BY <1>5, <1>6
  <1> HIDE DEF r
  <1>7. /\ stream'["copy"] \in Seq(Operation)
        /\ CopyQueue(stream'["copy"], event') /\ CopyShapes(stream'["copy"], 2)
        /\ SumQueue(stream["compute"], event')
        /\ Enqueued(stream'["copy"], "copy") = Copies \cup {next}
    <2> DEFINE nv == [event EXCEPT ![<<"h2d", next>>] = "recorded"]
               p  == Append(r, Record(<<"h2d", next>>))
    <2>1. /\ p \in Seq(Operation)
          /\ CopyQueue(p, nv) /\ CopyShapes(p, 2) /\ SumQueue(stream["compute"], nv)
          /\ Enqueued(p, "copy") = Enqueued(r, "copy")
      BY <1>1, <1>3, <1>9, <1>e, CopyRecorded
    <2> HIDE DEF nv, p
    <2>2. event' = nv /\ stream'["copy"] = p
      BY <1>2, <1>9 DEF nv, p
    <2>3. QED BY <1>9, <2>1, <2>2
  <1>h. HeadsKept
    <2>1. r \in Seq(Operation) /\ (q # <<>> => r # <<>> /\ Head(r) = Head(q))
      BY <1>1, <1>4, <1>9, HeadAppended DEF r
    <2>2. q # <<>> => stream'["copy"] # <<>> /\ Head(stream'["copy"]) = Head(q)
      BY <1>4, <1>9, <2>1, HeadAppended
    <2>3. QED BY <1>2, <2>2 DEF HeadsKept, Streams
  <1>8. QED BY <1>1, <1>2, <1>7, <1>h DEF StreamsInv, Copies, Sums

\* run_three_stage enqueues a copy behind the sum two blocks back.
LEMMA EnqueueCopyStreams ==
    ASSUME TypeOK, PlaceInv, StreamsInv, BuffersInv, MainInv, EnqueueCopy, pass' = pass
    PROVE  /\ StreamsInv' /\ Copies' = Copies \cup {next} /\ Sums' = Sums
           /\ stream'["copy"] \in Seq(Operation) /\ stream'["compute"] \in Seq(Operation)
           /\ HeadsKept
  <1> DEFINE q == stream["copy"]
             o == Copy(next, next % 3, next % 2)
             w == Wait(<<"compute", next - 2>>)
  <1>1. /\ q \in Seq(Operation) /\ stream["compute"] \in Seq(Operation)
        /\ CopyQueue(q, event) /\ CopyShapes(q, 3)
        /\ SumQueue(stream["compute"], event) /\ SumShapes(stream["compute"])
        /\ Ring = 3 /\ Ring' = 3
    BY Streaming DEF StreamsInv, EnqueueCopy, PlaceInv, ThreeLabels, Ring, Variant
  <1>2. stream'["compute"] = stream["compute"] /\ running' = running /\ event' = event
        /\ stream'["copy"] = q \o Append(IF next >= 2 THEN WaitFor(<<"compute", next - 2>>)
                                                      ELSE <<>>, o)
    BY DEF EnqueueCopy, Enqueue, TypeOK, ContextTypeOK, Streams
  <1>3. /\ next \in Block
        /\ \A c \in Enqueued(q, "copy") : c < next
        /\ \A c \in Block : event[<<"h2d", c>>] # "new" => c < next
        /\ next >= 2 => next - 2 \in Block /\ event[<<"compute", next - 2>>] # "new"
    <2>1. pc = "three.copy" /\ next \in Block /\ block = IF next = 0 THEN 0 ELSE next - 1
      BY Streaming DEF EnqueueCopy, MainInv, TopInv, CountInv, FillInv, Block
    <2>2. outcome = "running" /\ Top = next
      BY <2>1 DEF PlaceInv, LastLabels, Top
    <2>3. \A c \in Enqueued(q, "copy") : c < next
      BY <2>2 DEF MainInv, TopInv, CountInv, FillInv, Copies
    <2>4. \A c \in Block : event[<<"h2d", c>>] # "new" => c < next
      BY <2>1, <2>2, Streaming, SMTT(30) DEF MainInv, TopInv, CountInv, FillInv, BuffersInv
    <2>5. next >= 2 => next - 2 \in Block /\ event[<<"compute", next - 2>>] # "new"
      BY <2>1, Streaming DEF BuffersInv, Block
    <2>6. QED BY <2>1, <2>3, <2>4, <2>5
  <1>4. o \in Operation
    BY <1>1, <1>3, AppendsCopy
  <1>5. \E r \in Seq(Operation) :
            /\ CopyQueue(r, event) /\ CopyShapes(r, 3) /\ Enqueued(r, "copy") = Copies
            /\ next >= 2 => After(r, Len(r) + 1, <<"compute", next - 2>>, event)
            /\ stream'["copy"] = Append(r, o)
            /\ q # <<>> => r # <<>> /\ Head(r) = Head(q)
    <2>1. CASE next >= 2
      <3>1. w \in Operation
        BY <2>1, <1>3, Streaming DEF Wait, Operation
      <3>2. stream'["copy"] = q \o Append(<<w>>, o)
        BY <1>2, <1>3, <2>1 DEF WaitFor
      <3>3. stream'["copy"] = Append(Append(q, w), o)
        BY <1>1, <1>4, <3>1, <3>2, Enqueues
      <3>5. q # <<>> => Append(q, w) # <<>> /\ Head(Append(q, w)) = Head(q)
        BY <1>1, <3>1, HeadAppended
      <3>4. QED BY <1>1, <1>3, <2>1, <3>3, <3>5, CopyWaits DEF Copies
    <2>2. CASE next < 2
      <3>a. ~(next >= 2)
        BY <2>2, Streaming
      <3>1. stream'["copy"] = q \o Append(<<>>, o) /\ ~(next >= 2)
        BY <1>2, <3>a
      <3>2. stream'["copy"] = Append(q, o)
        BY <1>1, <1>4, <3>1, Enqueues
      <3>3. QED BY <1>1, <3>1, <3>2 DEF Copies
    <2>3. next >= 2 \/ next < 2
      BY Streaming
    <2>4. QED BY <2>1, <2>2, <2>3
  <1>6. PICK r \in Seq(Operation) :
            /\ CopyQueue(r, event) /\ CopyShapes(r, 3) /\ Enqueued(r, "copy") = Copies
            /\ next >= 2 => After(r, Len(r) + 1, <<"compute", next - 2>>, event)
            /\ stream'["copy"] = Append(r, o)
            /\ q # <<>> => r # <<>> /\ Head(r) = Head(q)
    BY <1>5
  <1>9. /\ \A c \in Enqueued(r, "copy") : c < next
        /\ stream'["copy"] = Append(r, Copy(next, next % 3, next % 2))
        /\ 3 \in {2, 3}
    BY <1>3, <1>6 DEF Copies
  <1>7. /\ stream'["copy"] \in Seq(Operation)
        /\ CopyQueue(stream'["copy"], event) /\ CopyShapes(stream'["copy"], 3)
        /\ Enqueued(stream'["copy"], "copy") = Copies \cup {next}
    <2> DEFINE p == Append(r, Copy(next, next % 3, next % 2))
    <2>1. /\ p \in Seq(Operation)
          /\ CopyQueue(p, event) /\ CopyShapes(p, 3)
          /\ Enqueued(p, "copy") = Enqueued(r, "copy") \cup {next}
      BY <1>3, <1>6, <1>9, CopyEnqueued
    <2> HIDE DEF p
    <2>2. stream'["copy"] = p
      BY <1>9 DEF p
    <2>3. QED BY <1>6, <2>1, <2>2
  <1>h. HeadsKept
    <2>1. q # <<>> => stream'["copy"] # <<>> /\ Head(stream'["copy"]) = Head(q)
      BY <1>4, <1>6, HeadAppended
    <2>2. QED BY <1>2, <2>1 DEF HeadsKept, Streams
  <1>8. QED BY <1>1, <1>2, <1>7, <1>h DEF StreamsInv, Copies, Sums

\* run_three_stage records the event of the copy it enqueued.
LEMMA RecordCopyStreams ==
    ASSUME TypeOK, PlaceInv, StreamsInv, BuffersInv, MainInv, RecordCopy, pass' = pass
    PROVE  /\ StreamsInv' /\ Copies' = Copies /\ Sums' = Sums
           /\ event' = [event EXCEPT ![<<"h2d", next>>] = "recorded"]
           /\ stream'["copy"] \in Seq(Operation) /\ stream'["compute"] \in Seq(Operation)
           /\ HeadsKept
  <1> DEFINE q == stream["copy"]
             e == Record(<<"h2d", next>>)
  <1>1. /\ q \in Seq(Operation) /\ stream["compute"] \in Seq(Operation)
        /\ CopyQueue(q, event) /\ CopyShapes(q, Ring) /\ Ring' = Ring
        /\ SumQueue(stream["compute"], event) /\ SumShapes(stream["compute"])
    BY Streaming DEF StreamsInv, Ring, Variant
  <1>2. stream'["compute"] = stream["compute"] /\ running' = running
        /\ event' = [event EXCEPT ![<<"h2d", next>>] = "recorded"]
        /\ stream'["copy"] = q \o Append(<<>>, e)
    BY DEF RecordCopy, EnqueueRecord, Enqueue, TypeOK, ContextTypeOK, Streams
  <1>3. next \in Block /\ event[<<"h2d", next>>] = "new"
    <2>1. pc = "three.record" /\ outcome = "running" /\ next \in Block
      BY Streaming DEF RecordCopy, PlaceInv, LastLabels, MainInv, TopInv, CountInv, FillInv, Block
    <2>2. QED BY <2>1, Streaming DEF MainInv, TopInv, CountInv, FillInv
  <1>4. e \in Operation
    BY <1>3, Streaming DEF Record, Operation
  <1>5. stream'["copy"] = Append(q, e)
    BY <1>1, <1>2, <1>4, Enqueues
  <1>7. /\ stream'["copy"] \in Seq(Operation)
        /\ CopyQueue(stream'["copy"], event') /\ CopyShapes(stream'["copy"], Ring)
        /\ SumQueue(stream["compute"], event')
        /\ Enqueued(stream'["copy"], "copy") = Copies
    <2>1. event \in [Events -> {"new", "recorded", "complete"}]
      BY Streaming
    <2> DEFINE nv == [event EXCEPT ![<<"h2d", next>>] = "recorded"]
               p  == Append(q, e)
    <2>2. /\ p \in Seq(Operation)
          /\ CopyQueue(p, nv) /\ CopyShapes(p, Ring) /\ SumQueue(stream["compute"], nv)
          /\ Enqueued(p, "copy") = Enqueued(q, "copy")
      BY <1>1, <1>3, <2>1, CopyRecorded
    <2>3. event' = nv /\ stream'["copy"] = p
      BY <1>2, <1>5
    <2> HIDE DEF nv, p
    <2>4. QED BY <2>2, <2>3 DEF Copies
  <1>h. HeadsKept
    BY <1>1, <1>2, <1>4, <1>5, HeadAppended DEF HeadsKept, Streams
  <1>8. QED BY <1>1, <1>2, <1>7, <1>h DEF StreamsInv, Copies, Sums

\* The loop tail enqueues a sum behind its copy and records its event.
LEMMA SumStreams ==
    ASSUME TypeOK, StreamsInv, BuffersInv, MainInv, EnqueueSum,
           pc \in {"double.compute", "three.compute"}, pass' = pass
    PROVE  /\ StreamsInv' /\ Copies' = Copies /\ Sums' = Sums \cup {block}
           /\ event' = [event EXCEPT ![<<"compute", block>>] = "recorded"]
           /\ stream'["copy"] \in Seq(Operation) /\ stream'["compute"] \in Seq(Operation)
           /\ HeadsKept
  <1> DEFINE q == stream["compute"]
             w == Wait(<<"h2d", block>>)
             o == Sum(block, block % 2)
             e == Record(<<"compute", block>>)
  <1>1. /\ q \in Seq(Operation) /\ stream["copy"] \in Seq(Operation)
        /\ CopyQueue(stream["copy"], event) /\ CopyShapes(stream["copy"], Ring) /\ Ring' = Ring
        /\ SumQueue(q, event) /\ SumShapes(q)
    BY Streaming DEF StreamsInv, Ring, Variant
  <1>3. /\ block \in Block
        /\ \A c \in Enqueued(q, "sum") : c < block
        /\ \A c \in Block : event[<<"compute", c>>] # "new" => c < block
        /\ event[<<"compute", block>>] = "new" /\ event[<<"h2d", block>>] # "new"
    BY Streaming DEF MainInv, TopInv, CountInv, FillInv, BuffersInv, Block, Sums
  <1>2. stream'["copy"] = stream["copy"]
        /\ event' = [event EXCEPT ![<<"compute", block>>] = "recorded"]
        /\ stream'["compute"] = q \o Append(<<w>> \o <<o>>, e)
    BY <1>3 DEF EnqueueSum, EnqueueRecord, Enqueue, WaitFor, TypeOK, ContextTypeOK, Streams
  <1>4. w \in Operation /\ o \in Operation /\ e \in Operation
    BY <1>1, <1>3, AppendsSum, Streaming DEF Record, Wait, Operation
  <1> DEFINE r == Append(q, w)
             p == Append(r, o)
  <1>5. stream'["compute"] = Append(p, e)
    <2> HIDE DEF q, w, o, e
    <2>1. q \o Append(<<w>> \o <<o>>, e) = Append(Append(Append(q, w), o), e)
      BY <1>1, <1>4, Enqueues
    <2>2. QED BY <1>2, <2>1
  <1>6. /\ r \in Seq(Operation) /\ SumQueue(r, event) /\ SumShapes(r)
        /\ Enqueued(r, "sum") = Sums
        /\ After(r, Len(r) + 1, <<"h2d", block>>, event)
    BY <1>1, <1>3, SumWaits DEF Sums
  <1> HIDE DEF r
  <1>7. /\ p \in Seq(Operation) /\ SumQueue(p, event) /\ SumShapes(p)
        /\ Enqueued(p, "sum") = Sums \cup {block}
    <2>1. \A c \in Enqueued(r, "sum") : c < block
      BY <1>3, <1>6 DEF Sums
    <2>2. QED BY <1>3, <1>6, <2>1, SumEnqueued
  <1> HIDE DEF p
  <1>e. event \in [Events -> {"new", "recorded", "complete"}]
    BY Streaming
  <1>8. /\ stream'["compute"] \in Seq(Operation)
        /\ SumQueue(stream'["compute"], event') /\ SumShapes(stream'["compute"])
        /\ CopyQueue(stream["copy"], event')
        /\ Enqueued(stream'["compute"], "sum") = Sums \cup {block}
    <2> DEFINE nv == [event EXCEPT ![<<"compute", block>>] = "recorded"]
               v  == Append(p, e)
    <2>1. /\ v \in Seq(Operation)
          /\ SumQueue(v, nv) /\ SumShapes(v) /\ CopyQueue(stream["copy"], nv)
          /\ Enqueued(v, "sum") = Enqueued(p, "sum")
      BY <1>1, <1>3, <1>7, <1>e, SumRecorded
    <2>2. event' = nv /\ stream'["compute"] = v
      BY <1>2, <1>5
    <2> HIDE DEF nv, v
    <2>3. QED BY <1>7, <2>1, <2>2
  <1>h. HeadsKept
    <2>1. q # <<>> => r # <<>> /\ Head(r) = Head(q)
      BY <1>1, <1>4, HeadAppended DEF r
    <2>2. q # <<>> => p # <<>> /\ Head(p) = Head(q)
      BY <1>4, <1>6, <2>1, HeadAppended DEF p
    <2>3. q # <<>> => stream'["compute"] # <<>> /\ Head(stream'["compute"]) = Head(q)
      BY <1>4, <1>5, <1>7, <2>2, HeadAppended
    <2>4. QED BY <1>2, <2>3 DEF HeadsKept, Streams
  <1>9. QED BY <1>1, <1>2, <1>8, <1>h DEF StreamsInv, Copies, Sums

------------------------------------------------------------------------------
(* What a step of the device does to the streams. *)

\* An operation stays behind an event when an event completes.
LEMMA AfterCompletes ==
    ASSUME NEW q, NEW i, NEW ev \in [Events -> {"new", "recorded", "complete"}],
           NEW e \in Events, NEW f, After(q, i, f, ev)
    PROVE  After(q, i, f, [ev EXCEPT ![e] = "complete"])
  BY DEF After

\* The copy stream without its first operation.
LEMMA CopyPops ==
    ASSUME NEW q \in Seq(Operation), q # <<>>, NEW ev, NEW ring,
           CopyQueue(q, ev), CopyShapes(q, ring),
           Head(q).op = "wait" => ev[Head(q).event] = "complete"
    PROVE  /\ Tail(q) \in Seq(Operation)
           /\ CopyQueue(Tail(q), ev) /\ CopyShapes(Tail(q), ring)
           /\ Enqueued(Tail(q), "copy") =
                IF Head(q).op = "copy" THEN Enqueued(q, "copy") \ {Head(q).block}
                                       ELSE Enqueued(q, "copy")
           /\ \A e : After(q, Len(q) + 1, e, ev) => After(Tail(q), Len(Tail(q)) + 1, e, ev)
  BY BothQueues, Pop, Popped, PopsShapes, SMTT(30) DEF CopyQueue

\* The compute stream without its first operation.
LEMMA SumPops ==
    ASSUME NEW q \in Seq(Operation), q # <<>>, NEW ev,
           SumQueue(q, ev), SumShapes(q),
           Head(q).op = "wait" => ev[Head(q).event] = "complete"
    PROVE  /\ Tail(q) \in Seq(Operation)
           /\ SumQueue(Tail(q), ev) /\ SumShapes(Tail(q))
           /\ Enqueued(Tail(q), "sum") =
                IF Head(q).op = "sum" THEN Enqueued(q, "sum") \ {Head(q).block}
                                      ELSE Enqueued(q, "sum")
  <1>1. Queue(q, "sum", "compute", "h2d", 0, ev)
    BY DEF SumQueue
  <1>2. /\ Queue(Tail(q), "sum", "compute", "h2d", 0, ev)
        /\ Enqueued(Tail(q), "sum") =
             IF Head(q).op = "sum" THEN Enqueued(q, "sum") \ {Head(q).block}
                                   ELSE Enqueued(q, "sum")
    BY <1>1, BothQueues, Pop
  <1>3. Tail(q) \in Seq(Operation) /\ SumShapes(Tail(q))
    BY Popped, PopsShapes
  <1>4. QED BY <1>2, <1>3 DEF SumQueue

\* What the first operation of the copy stream tells of the rest.
LEMMA CopyFirst ==
    ASSUME NEW q \in Seq(Operation), q # <<>>, NEW ev, NEW ring,
           CopyQueue(q, ev), CopyShapes(q, ring)
    PROVE  LET o == Head(q) IN
           /\ \/ o.op = "copy" /\ o.block \in Enqueued(q, "copy") /\ o.block \in Block
              \/ o.op = "record" /\ \E b \in Block : o.event = <<"h2d", b>>
              \/ o.op = "wait" /\ \E b \in Block : o.event = <<"compute", b>>
           /\ o.op = "copy" =>
                /\ o = Copy(o.block, o.block % ring, o.block % 2)
                /\ \A c \in Enqueued(q, "copy") : c >= o.block
                /\ o.block >= 2 => ev[<<"compute", o.block - 2>>] = "complete"
           /\ o.op = "record" =>
                /\ ev[o.event] # "new"
                /\ \A b \in Block : o.event = <<"h2d", b>> => \A c \in Enqueued(q, "copy") : c > b
  <1>1. Head(q).op = "copy"
        => Head(q) = Copy(Head(q).block, Head(q).block % ring, Head(q).block % 2)
    BY PopsShapes
  <1>2. Queue(q, "copy", "h2d", "compute", 2, ev)
    BY DEF CopyQueue
  <1> DEFINE o == Head(q)
  <1>3. /\ \/ o.op = "copy" /\ o.block \in Enqueued(q, "copy") /\ o.block \in Block
           \/ o.op = "record" /\ \E b \in Block : o.event = <<"h2d", b>>
           \/ o.op = "wait" /\ \E b \in Block : o.event = <<"compute", b>>
        /\ o.op = "copy" =>
             /\ \A c \in Enqueued(q, "copy") : c >= o.block
             /\ o.block >= 2 => ev[<<"compute", o.block - 2>>] = "complete"
        /\ o.op = "record" =>
             /\ ev[o.event] # "new"
             /\ \A b \in Block : o.event = <<"h2d", b>> => \A c \in Enqueued(q, "copy") : c > b
    BY <1>2, BothQueues, First
  <1>4. QED BY <1>1, <1>3

\* What the first operation of the compute stream tells of the rest.
LEMMA SumFirst ==
    ASSUME NEW q \in Seq(Operation), q # <<>>, NEW ev, SumQueue(q, ev), SumShapes(q)
    PROVE  LET o == Head(q) IN
           /\ \/ o.op = "sum" /\ o.block \in Enqueued(q, "sum") /\ o.block \in Block
              \/ o.op = "record" /\ \E b \in Block : o.event = <<"compute", b>>
              \/ o.op = "wait" /\ \E b \in Block : o.event = <<"h2d", b>>
           /\ o.op = "sum" =>
                /\ o = Sum(o.block, o.block % 2)
                /\ \A c \in Enqueued(q, "sum") : c >= o.block
                /\ ev[<<"h2d", o.block>>] = "complete"
           /\ o.op = "record" =>
                /\ ev[o.event] # "new"
                /\ \A b \in Block : o.event = <<"compute", b>>
                      => \A c \in Enqueued(q, "sum") : c > b
  <1>1. Head(q).op = "sum" => Head(q) = Sum(Head(q).block, Head(q).block % 2)
    BY PopsShapes
  <1>2. \A b \in Block : b >= 0 /\ b - 0 = b
    BY BlocksAssumption DEF Block
  <1>3. Queue(q, "sum", "compute", "h2d", 0, ev)
    BY DEF SumQueue
  <1> DEFINE o == Head(q)
  <1>4. /\ \/ o.op = "sum" /\ o.block \in Enqueued(q, "sum") /\ o.block \in Block
           \/ o.op = "record" /\ \E b \in Block : o.event = <<"compute", b>>
           \/ o.op = "wait" /\ \E b \in Block : o.event = <<"h2d", b>>
        /\ o.op = "sum" =>
             /\ \A c \in Enqueued(q, "sum") : c >= o.block
             /\ o.block >= 0 => ev[<<"h2d", o.block - 0>>] = "complete"
        /\ o.op = "record" =>
             /\ ev[o.event] # "new"
             /\ \A b \in Block : o.event = <<"compute", b>> => \A c \in Enqueued(q, "sum") : c > b
    BY <1>3, BothQueues, First
  <1> HIDE DEF o
  <1>5. o.op = "sum" => ev[<<"h2d", o.block>>] = "complete"
    <2>1. o.op = "sum" => o.block \in Block
      BY <1>4
    <2>2. QED BY <1>2, <1>4, <2>1
  <1>6. QED BY <1>1, <1>4, <1>5 DEF o

\* The device passes a wait of the copy stream or completes one of its events.
LEMMA CopyControls ==
    ASSUME TypeOK, StreamsInv, OpControls("copy"), pass' = pass
    PROVE  /\ StreamsInv' /\ Copies' = Copies /\ Sums' = Sums
           /\ stream'["copy"] \in Seq(Operation) /\ stream'["compute"] \in Seq(Operation)
           /\ \/ event' = event
              \/ \E b \in Block : /\ event[<<"h2d", b>>] # "new"
                                  /\ event' = [event EXCEPT ![<<"h2d", b>>] = "complete"]
           /\ \A e : After(stream["copy"], Len(stream["copy"]) + 1, e, event) =>
                     After(stream'["copy"], Len(stream'["copy"]) + 1, e, event')
  <1> DEFINE q == stream["copy"]
             r == stream["compute"]
             o == Head(q)
  <1>1. /\ q \in Seq(Operation) /\ r \in Seq(Operation)
        /\ CopyQueue(q, event) /\ CopyShapes(q, Ring) /\ Ring' = Ring
        /\ SumQueue(r, event) /\ SumShapes(r)
        /\ event \in [Events -> {"new", "recorded", "complete"}]
    BY Streaming DEF StreamsInv, Ring, Variant
  <1>2. q # <<>> /\ stream'["copy"] = Tail(q) /\ stream'["compute"] = r
    BY DEF OpControls, TypeOK, ContextTypeOK, Streams
  <1>3. \/ o.op = "wait" /\ event[o.event] = "complete" /\ event' = event
        \/ o.op = "record" /\ event' = [event EXCEPT ![o.event] = "complete"]
    BY DEF OpControls
  <1> HIDE DEF q, r
  <1>4. o.op # "copy" /\ (o.op = "wait" => event[o.event] = "complete")
    BY <1>3
  <1>5. /\ Tail(q) \in Seq(Operation)
        /\ CopyQueue(Tail(q), event) /\ CopyShapes(Tail(q), Ring)
        /\ Enqueued(Tail(q), "copy") = Enqueued(q, "copy")
        /\ \A e : After(q, Len(q) + 1, e, event) => After(Tail(q), Len(Tail(q)) + 1, e, event)
    BY <1>1, <1>2, <1>4, CopyPops
  <1>6. CASE o.op = "wait" /\ event[o.event] = "complete" /\ event' = event
    BY <1>1, <1>2, <1>5, <1>6 DEF StreamsInv, Copies, Sums, q, r
  <1>7. CASE o.op = "record" /\ event' = [event EXCEPT ![o.event] = "complete"]
    <2>1. PICK b \in Block : o.event = <<"h2d", b>> /\ event[<<"h2d", b>>] # "new"
                             /\ \A c \in Enqueued(q, "copy") : c > b
      BY <1>1, <1>2, <1>7, CopyFirst
    <2> DEFINE e  == <<"h2d", b>>
               nv == [event EXCEPT ![e] = "complete"]
    <2>2. e \in Events
      BY DEF Events
    <2>3. CopyQueue(Tail(q), nv) /\ SumQueue(r, nv)
      BY <1>1, <1>5, <2>1, <2>2, BothQueues, EventCompletes DEF CopyQueue, SumQueue
    <2>4. \A f : After(q, Len(q) + 1, f, event) => After(Tail(q), Len(Tail(q)) + 1, f, nv)
      BY <1>1, <1>5, <2>2, AfterCompletes
    <2>5. event' = nv
      BY <1>7, <2>1
    <2> HIDE DEF nv
    <2>6. StreamsInv' /\ Copies' = Copies /\ Sums' = Sums
      BY <1>1, <1>2, <1>5, <2>3, <2>5 DEF StreamsInv, Copies, Sums, q, r
    <2>7. \A f : After(stream["copy"], Len(stream["copy"]) + 1, f, event) =>
                 After(stream'["copy"], Len(stream'["copy"]) + 1, f, event')
      BY <1>2, <2>4, <2>5 DEF q
    <2>8. \E c \in Block : /\ event[<<"h2d", c>>] # "new"
                           /\ event' = [event EXCEPT ![<<"h2d", c>>] = "complete"]
      BY <2>1, <2>5 DEF nv
    <2>9. QED BY <1>1, <1>2, <1>5, <2>6, <2>7, <2>8 DEF q, r
  <1>8. QED BY <1>3, <1>6, <1>7

\* The device passes a wait of the compute stream or completes one of its events.
LEMMA SumControls ==
    ASSUME TypeOK, StreamsInv, OpControls("compute"), pass' = pass
    PROVE  /\ StreamsInv' /\ Copies' = Copies /\ Sums' = Sums
           /\ stream'["copy"] \in Seq(Operation) /\ stream'["compute"] \in Seq(Operation)
           /\ \/ event' = event
              \/ \E b \in Block : /\ event[<<"compute", b>>] # "new"
                                  /\ event' = [event EXCEPT ![<<"compute", b>>] = "complete"]
           /\ \A e : After(stream["copy"], Len(stream["copy"]) + 1, e, event) =>
                     After(stream'["copy"], Len(stream'["copy"]) + 1, e, event')
  <1> DEFINE q == stream["compute"]
             r == stream["copy"]
             o == Head(q)
  <1>1. /\ q \in Seq(Operation) /\ r \in Seq(Operation)
        /\ CopyQueue(r, event) /\ CopyShapes(r, Ring) /\ Ring' = Ring
        /\ SumQueue(q, event) /\ SumShapes(q)
        /\ event \in [Events -> {"new", "recorded", "complete"}]
    BY Streaming DEF StreamsInv, Ring, Variant
  <1>2. q # <<>> /\ stream'["compute"] = Tail(q) /\ stream'["copy"] = r
    BY DEF OpControls, TypeOK, ContextTypeOK, Streams
  <1>3. \/ o.op = "wait" /\ event[o.event] = "complete" /\ event' = event
        \/ o.op = "record" /\ event' = [event EXCEPT ![o.event] = "complete"]
    BY DEF OpControls
  <1> HIDE DEF q, r
  <1>4. o.op # "sum" /\ (o.op = "wait" => event[o.event] = "complete")
    BY <1>3
  <1>5. /\ Tail(q) \in Seq(Operation)
        /\ SumQueue(Tail(q), event) /\ SumShapes(Tail(q))
        /\ Enqueued(Tail(q), "sum") = Enqueued(q, "sum")
    BY <1>1, <1>2, <1>4, SumPops
  <1>6. CASE o.op = "wait" /\ event[o.event] = "complete" /\ event' = event
    BY <1>1, <1>2, <1>5, <1>6 DEF StreamsInv, Copies, Sums, q, r
  <1>7. CASE o.op = "record" /\ event' = [event EXCEPT ![o.event] = "complete"]
    <2>1. PICK b \in Block : o.event = <<"compute", b>> /\ event[<<"compute", b>>] # "new"
                             /\ \A c \in Enqueued(q, "sum") : c > b
      BY <1>1, <1>2, <1>7, SumFirst
    <2> DEFINE e  == <<"compute", b>>
               nv == [event EXCEPT ![e] = "complete"]
    <2>2. e \in Events
      BY DEF Events
    <2>3. SumQueue(Tail(q), nv) /\ CopyQueue(r, nv)
      BY <1>1, <1>5, <2>1, <2>2, BothQueues, EventCompletes DEF CopyQueue, SumQueue
    <2>4. \A f : After(r, Len(r) + 1, f, event) => After(r, Len(r) + 1, f, nv)
      BY <1>1, <2>2, AfterCompletes
    <2>5. event' = nv
      BY <1>7, <2>1
    <2> HIDE DEF nv
    <2>6. StreamsInv' /\ Copies' = Copies /\ Sums' = Sums
      BY <1>1, <1>2, <1>5, <2>3, <2>5 DEF StreamsInv, Copies, Sums, q, r
    <2>7. \A f : After(stream["copy"], Len(stream["copy"]) + 1, f, event) =>
                 After(stream'["copy"], Len(stream'["copy"]) + 1, f, event')
      BY <1>2, <2>4, <2>5 DEF r
    <2>8. \E c \in Block : /\ event[<<"compute", c>>] # "new"
                           /\ event' = [event EXCEPT ![<<"compute", c>>] = "complete"]
      BY <2>1, <2>5 DEF nv
    <2>9. QED BY <1>1, <1>2, <1>5, <2>6, <2>7, <2>8 DEF q, r
  <1>8. QED BY <1>3, <1>6, <1>7

------------------------------------------------------------------------------
(* The copy, or the sum, that the device runs. *)

\* The block whose copy, or whose sum, is first on its stream.
FirstCopy(b) == /\ b \in Copies /\ \A c \in Copies : c >= b
                /\ b >= 2 => event[<<"compute", b - 2>>] = "complete"
FirstSum(b)  == /\ b \in Sums /\ \A c \in Sums : c >= b
                /\ event[<<"h2d", b>>] = "complete"

\* What is enqueued is the work of blocks whose event is not complete yet.
LEMMA CopiesOfBlocks ==
    ASSUME TypeOK, StreamsInv
    PROVE  /\ Copies \subseteq Block /\ Sums \subseteq Block
           /\ \A b, c \in Block : event[<<"h2d", b>>] = "complete" /\ c \in Copies => c > b
           /\ \A b, c \in Block : event[<<"compute", b>>] = "complete" /\ c \in Sums => c > b
  <1>1. /\ Queue(stream["copy"], "copy", "h2d", "compute", 2, event)
        /\ Queue(stream["compute"], "sum", "compute", "h2d", 0, event)
    BY DEF StreamsInv, CopyQueue, SumQueue
  <1>2. QED BY <1>1, Left DEF Copies, Sums

\* A copy only runs into a device slot that no sum of an earlier block needs.
LEMMA SlotFree ==
    ASSUME TypeOK, StreamsInv, BuffersInv, NEW b, FirstCopy(b)
    PROVE  /\ b \in Block /\ pinned[b % Ring] = b
           /\ \A c \in Sums : c % 2 = b % 2 => c >= b
           /\ \A c \in Block : c < b /\ c % 2 = b % 2 => sums[c] # Zero
           /\ \A c \in Block : b <= c /\ c < Top => c \in Copies
  <1>1. b \in Block /\ b \in Nat /\ pinned[b % Ring] = b /\ Sums \subseteq Block
    BY CopiesOfBlocks, Streaming DEF FirstCopy, BuffersInv
  <1>2. b >= 2 => \A c \in Sums : c > b - 2
    BY <1>1, CopiesOfBlocks, Streaming DEF FirstCopy, Block
  <1>3. \A c \in Sums : c % 2 = b % 2 => c >= b
    <2> SUFFICES ASSUME NEW c \in Sums, c % 2 = b % 2, c < b
                 PROVE  FALSE
      BY <1>1, Streaming
    <2>1. c \in Nat /\ c + 2 <= b
      BY <1>1, Mod2, Streaming
    <2>2. QED BY <1>1, <1>2, <2>1
  <1>4. \A c \in Block : c < b /\ c % 2 = b % 2 => sums[c] # Zero
    <2> SUFFICES ASSUME NEW c \in Block, c % 2 = b % 2, c < b
                 PROVE  sums[c] # Zero
      OBVIOUS
    <2>1. c \in Nat /\ c + 2 <= b
      BY <1>1, Mod2, Streaming
    <2>7. c \notin Sums
      BY <1>1, <1>3, <2>1
    <2>8. b \in 0 .. Blocks - 1 /\ Blocks \in Nat
      BY <1>1, Streaming DEF Block
    <2>9. b >= 2 /\ b - 2 \in 0 .. Blocks - 1 /\ c <= b - 2
      BY <2>1, <2>8
    <2>2. b >= 2 /\ b - 2 \in Block /\ c \notin Sums
      BY <2>7, <2>9 DEF Block
    <2>6. event[<<"compute", b - 2>>] # "new"
      BY <2>2 DEF FirstCopy
    <2>3. c < block
      <3>1. b - 2 < block
        BY <2>2, <2>6 DEF BuffersInv
      <3>2. QED BY <1>1, <2>1, <2>9, <3>1, Streaming
    <2>4. sums[c] = c
      BY <2>2, <2>3 DEF BuffersInv
    <2>5. QED BY <2>1, <2>4, BlocksAssumption
  <1>5. \A c \in Block : b <= c /\ c < Top => c \in Copies
    BY DEF FirstCopy, BuffersInv
  <1>6. QED BY <1>1, <1>3, <1>4, <1>5

\* A sum only runs when the device slot holds its block.
LEMMA SumReady ==
    ASSUME TypeOK, StreamsInv, BuffersInv, NEW b, FirstSum(b)
    PROVE  /\ b \in Block /\ b < block /\ b \notin Copies
           /\ device[b % 2] = b /\ sums[b] = Zero
           /\ \A c \in Block : c < b => sums[c] = c
  <1>1. b \in Block /\ b < block /\ b \notin Copies
    BY CopiesOfBlocks, Streaming DEF FirstSum, BuffersInv
  <1>2. b < Top
    BY <1>1, Streaming DEF Top, BuffersInv
  <1>3. sums[b] = Zero
    BY <1>1 DEF FirstSum, BuffersInv
  <1>4. device[b % 2] = b
    BY <1>1, <1>2, <1>3 DEF BuffersInv
  <1>5. \A c \in Block : c < b => sums[c] = c
    <2> SUFFICES ASSUME NEW c \in Block, c < b PROVE sums[c] = c
      OBVIOUS
    <2>1. c < block /\ c \notin Sums
      BY <1>1, Streaming DEF FirstSum
    <2>2. QED BY <2>1 DEF BuffersInv
  <1>6. QED BY <1>1, <1>3, <1>4, <1>5

\* The device starts a copy: it reads the block it was enqueued for.
LEMMA CopyStarts ==
    ASSUME TypeOK, StreamsInv, BuffersInv, OpStarts("copy"), pass' = pass
    PROVE  \E b : /\ FirstCopy(b) /\ Head(stream["copy"]) = Copy(b, b % Ring, b % 2)
                  /\ running' = [running EXCEPT !["copy"] = b]
                  /\ device' = [device EXCEPT ![b % 2] = Garbage]
  <1> DEFINE q == stream["copy"]
             o == Head(q)
             b == o.block
  <1>1. /\ q \in Seq(Operation) /\ CopyQueue(q, event) /\ CopyShapes(q, Ring) /\ q # <<>>
    BY Streaming DEF StreamsInv, OpStarts
  <1>2. /\ o.op \in {"copy", "sum"}
        /\ running' = [running EXCEPT !["copy"] = Source(o)]
        /\ device' = IF o.op = "copy" THEN [device EXCEPT ![o.to] = Garbage] ELSE device
    BY DEF OpStarts
  <1> HIDE DEF q
  <1>3. /\ o.op = "copy" /\ b \in Enqueued(q, "copy")
        /\ o = Copy(b, b % Ring, b % 2)
        /\ \A c \in Enqueued(q, "copy") : c >= b
        /\ b >= 2 => event[<<"compute", b - 2>>] = "complete"
    BY <1>1, <1>2, CopyFirst
  <1>4. FirstCopy(b)
    BY <1>3 DEF FirstCopy, Copies, q
  <1>5. o.from = b % Ring /\ o.to = b % 2
    <2> HIDE DEF o
    <2>1. Copy(b, b % Ring, b % 2).from = b % Ring /\ Copy(b, b % Ring, b % 2).to = b % 2
      BY DEF Copy
    <2>2. QED BY <1>3, <2>1
  <1>6. Source(o) = b
    BY <1>3, <1>4, <1>5, SlotFree DEF Source
  <1>7. QED BY <1>2, <1>3, <1>4, <1>5, <1>6 DEF q

\* The device finishes a copy: the device slot holds the block of the copy.
LEMMA CopyFinishes ==
    ASSUME TypeOK, StreamsInv, BuffersInv, RunsInv, RunningInv, OpFinishes("copy"), pass' = pass
    PROVE  /\ \E b : /\ FirstCopy(b)
                     /\ device' = [device EXCEPT ![b % 2] = b] /\ sums' = sums
                     /\ Copies' = Copies \ {b}
           /\ running' = [running EXCEPT !["copy"] = Idle]
           /\ StreamsInv' /\ Sums' = Sums
           /\ stream'["copy"] \in Seq(Operation) /\ stream'["compute"] \in Seq(Operation)
           /\ \A e : After(stream["copy"], Len(stream["copy"]) + 1, e, event) =>
                     After(stream'["copy"], Len(stream'["copy"]) + 1, e, event')
  <1> DEFINE q == stream["copy"]
             r == stream["compute"]
             o == Head(q)
             b == o.block
  <1>1. /\ q \in Seq(Operation) /\ CopyQueue(q, event) /\ CopyShapes(q, Ring) /\ q # <<>>
        /\ r \in Seq(Operation) /\ SumQueue(r, event) /\ SumShapes(r) /\ Ring' = Ring
        /\ o.op = "copy" /\ running["copy"] = b
    BY Streaming DEF StreamsInv, OpFinishes, RunningInv, RunsInv, Streams, Ring, Variant
  <1>2. /\ running' = [running EXCEPT !["copy"] = Idle]
        /\ stream'["copy"] = Tail(q) /\ stream'["compute"] = r /\ event' = event
        /\ device' = [device EXCEPT ![o.to] = IF Source(o) = running["copy"] THEN Source(o)
                                                                             ELSE Garbage]
        /\ sums' = sums
    BY <1>1 DEF OpFinishes, TypeOK, ContextTypeOK, Streams
  <1> HIDE DEF q, r
  <1>3. /\ b \in Enqueued(q, "copy")
        /\ o = Copy(b, b % Ring, b % 2)
        /\ \A c \in Enqueued(q, "copy") : c >= b
        /\ b >= 2 => event[<<"compute", b - 2>>] = "complete"
    BY <1>1, CopyFirst
  <1>4. FirstCopy(b)
    BY <1>3 DEF FirstCopy, Copies, q
  <1>5. o.from = b % Ring /\ o.to = b % 2
    <2> HIDE DEF o
    <2>1. Copy(b, b % Ring, b % 2).from = b % Ring /\ Copy(b, b % Ring, b % 2).to = b % 2
      BY DEF Copy
    <2>2. QED BY <1>3, <2>1
  <1>6. Source(o) = b
    BY <1>1, <1>4, <1>5, SlotFree DEF Source
  <1>7. device' = [device EXCEPT ![b % 2] = b]
    <2> HIDE DEF o
    <2>1. QED BY <1>1, <1>2, <1>5, <1>6
  <1>8. /\ Tail(q) \in Seq(Operation)
        /\ CopyQueue(Tail(q), event) /\ CopyShapes(Tail(q), Ring)
        /\ Enqueued(Tail(q), "copy") = Enqueued(q, "copy") \ {b}
        /\ \A e : After(q, Len(q) + 1, e, event) => After(Tail(q), Len(Tail(q)) + 1, e, event)
    BY <1>1, CopyPops
  <1> HIDE DEF b
  <1>9. StreamsInv' /\ Copies' = Copies \ {b} /\ Sums' = Sums
    BY <1>1, <1>2, <1>8 DEF StreamsInv, Copies, Sums, q, r
  <1>10. /\ stream'["copy"] \in Seq(Operation) /\ stream'["compute"] \in Seq(Operation)
         /\ \A e : After(stream["copy"], Len(stream["copy"]) + 1, e, event) =>
                   After(stream'["copy"], Len(stream'["copy"]) + 1, e, event')
    BY <1>1, <1>2, <1>8 DEF q, r
  <1>11. QED BY <1>2, <1>4, <1>7, <1>9, <1>10

\* The device starts a sum: it reads the block it was enqueued for.
LEMMA SumStarts ==
    ASSUME TypeOK, StreamsInv, BuffersInv, OpStarts("compute"), pass' = pass
    PROVE  \E b : /\ FirstSum(b) /\ Head(stream["compute"]) = Sum(b, b % 2)
                  /\ running' = [running EXCEPT !["compute"] = b]
                  /\ device' = device
  <1> DEFINE q == stream["compute"]
             o == Head(q)
             b == o.block
  <1>1. /\ q \in Seq(Operation) /\ SumQueue(q, event) /\ SumShapes(q) /\ q # <<>>
    BY Streaming DEF StreamsInv, OpStarts
  <1>2. /\ o.op \in {"copy", "sum"}
        /\ running' = [running EXCEPT !["compute"] = Source(o)]
        /\ device' = IF o.op = "copy" THEN [device EXCEPT ![o.to] = Garbage] ELSE device
    BY DEF OpStarts
  <1> HIDE DEF q
  <1>3. /\ o.op = "sum" /\ b \in Enqueued(q, "sum")
        /\ o = Sum(b, b % 2)
        /\ \A c \in Enqueued(q, "sum") : c >= b
        /\ event[<<"h2d", b>>] = "complete"
    BY <1>1, <1>2, SumFirst
  <1>4. FirstSum(b)
    BY <1>3 DEF FirstSum, Sums, q
  <1>5. o.slot = b % 2
    <2> HIDE DEF o
    <2>1. Sum(b, b % 2).slot = b % 2
      BY DEF Sum
    <2>2. QED BY <1>3, <2>1
  <1>6. Source(o) = b
    BY <1>3, <1>4, <1>5, SumReady DEF Source
  <1>7. QED BY <1>2, <1>3, <1>4, <1>6 DEF q

\* The device finishes a sum: it is the sum of the right block.
LEMMA SumFinishes ==
    ASSUME TypeOK, StreamsInv, BuffersInv, RunsInv, RunningInv, OpFinishes("compute"),
          pass' = pass
    PROVE  /\ \E b : /\ FirstSum(b)
                     /\ sums' = [sums EXCEPT ![b] = b] /\ device' = device
                     /\ Sums' = Sums \ {b}
           /\ running' = [running EXCEPT !["compute"] = Idle]
           /\ StreamsInv' /\ Copies' = Copies
           /\ stream'["copy"] \in Seq(Operation) /\ stream'["compute"] \in Seq(Operation)
           /\ stream'["copy"] = stream["copy"]
  <1> DEFINE q == stream["compute"]
             r == stream["copy"]
             o == Head(q)
             b == o.block
  <1>1. /\ q \in Seq(Operation) /\ SumQueue(q, event) /\ SumShapes(q) /\ q # <<>>
        /\ r \in Seq(Operation) /\ CopyQueue(r, event) /\ CopyShapes(r, Ring) /\ Ring' = Ring
        /\ o.op = "sum" /\ running["compute"] = b
    BY Streaming DEF StreamsInv, OpFinishes, RunningInv, RunsInv, Streams, Ring, Variant
  <1>2. /\ running' = [running EXCEPT !["compute"] = Idle]
        /\ stream'["compute"] = Tail(q) /\ stream'["copy"] = r /\ event' = event
        /\ sums' = [sums EXCEPT ![b] = IF Source(o) = running["compute"] THEN Source(o)
                                                                         ELSE Garbage]
        /\ device' = device
    BY <1>1 DEF OpFinishes, TypeOK, ContextTypeOK, Streams
  <1> HIDE DEF q, r
  <1>3. /\ b \in Enqueued(q, "sum")
        /\ o = Sum(b, b % 2)
        /\ \A c \in Enqueued(q, "sum") : c >= b
        /\ event[<<"h2d", b>>] = "complete"
    BY <1>1, SumFirst
  <1>4. FirstSum(b)
    BY <1>3 DEF FirstSum, Sums, q
  <1>5. o.slot = b % 2
    <2> HIDE DEF o
    <2>1. Sum(b, b % 2).slot = b % 2
      BY DEF Sum
    <2>2. QED BY <1>3, <2>1
  <1>6. Source(o) = b
    BY <1>1, <1>4, <1>5, SumReady DEF Source
  <1>7. sums' = [sums EXCEPT ![b] = b]
    <2> HIDE DEF o, b
    <2>1. QED BY <1>1, <1>2, <1>6
  <1>8. /\ Tail(q) \in Seq(Operation)
        /\ SumQueue(Tail(q), event) /\ SumShapes(Tail(q))
        /\ Enqueued(Tail(q), "sum") = Enqueued(q, "sum") \ {b}
    BY <1>1, SumPops
  <1> HIDE DEF b
  <1>9. StreamsInv' /\ Sums' = Sums \ {b} /\ Copies' = Copies
    BY <1>1, <1>2, <1>8 DEF StreamsInv, Copies, Sums, q, r
  <1>10. QED BY <1>1, <1>2, <1>4, <1>7, <1>8, <1>9 DEF q, r

------------------------------------------------------------------------------
(* What a step does to the buffers. *)

\* One event changes.
LEMMA OneEvent ==
    ASSUME NEW ev \in [Events -> {"new", "recorded", "complete"}], NEW v,
           NEW k \in {"h2d", "compute"}, NEW n \in Block
    PROVE  LET nv == [ev EXCEPT ![<<k, n>>] = v] IN
           \A j \in {"h2d", "compute"}, b \in Block :
               nv[<<j, b>>] = IF j = k /\ b = n THEN v ELSE ev[<<j, b>>]
  BY DEF Events

\* The types of the buffers, and the slots the ring indices name.
LEMMA BuffersTypes ==
    TypeOK => /\ pinned \in [0 .. 2 -> Data] /\ device \in [0 .. 1 -> Data]
              /\ sums \in [Block -> Data \cup {Zero}]
              /\ Top \in Nat /\ next <= Top
              /\ \A b \in Nat : b % Ring \in 0 .. 2 /\ b % 2 \in 0 .. 1 /\ b % 3 \in 0 .. 2
  <1>1. TypeOK => Ring \in {2, 3}
    BY Modes
  <1>2. \A r \in {2, 3} : \A b \in Nat : b % r \in 0 .. 2
    OBVIOUS
  <1>3. \A b \in Nat : b % 2 \in 0 .. 1 /\ b % 3 \in 0 .. 2
    OBVIOUS
  <1>4. TypeOK => Top \in Nat /\ next <= Top
    BY Streaming DEF Top
  <1>5. QED BY <1>1, <1>2, <1>3, <1>4 DEF TypeOK, ContextTypeOK

\* A step that touches neither buffers, events nor queues keeps the buffers' invariant.
LEMMA QuietBuffers ==
    ASSUME TypeOK, BuffersInv, pass' = pass,
           UNCHANGED <<pinned, device, sums, event, block, next>>,
           Copies' = Copies, Sums' = Sums, Top' <= Top, Top' \in Nat, Copies \subseteq Block
    PROVE  BuffersInv'
  <1>1. Ring' = Ring /\ Top \in Nat /\ \A b \in Block : b \in Nat
    BY BuffersTypes, Streaming DEF Ring, Variant
  <1>2. \A b \in Copies' : pinned'[b % Ring'] = b /\ b <= next'
    BY <1>1 DEF BuffersInv
  <1>3. \A b \in Copies' : \A c \in Block : b <= c /\ c < Top' => c \in Copies'
    BY <1>1 DEF BuffersInv
  <1>4. \A b \in Block : b < Top' /\ b \notin Copies' /\ sums'[b] = Zero => device'[b % 2] = b
    BY <1>1 DEF BuffersInv
  <1>5. QED BY <1>2, <1>3, <1>4 DEF BuffersInv

\* Filling a slot of the ring that no enqueued copy reads.
LEMMA FillBuffers ==
    ASSUME TypeOK, BuffersInv, pass' = pass,
           UNCHANGED <<device, sums, event, block, next>>,
           Copies' = Copies, Sums' = Sums, Top' = Top, Copies \subseteq Block,
           NEW s, NEW v, pinned' = [pinned EXCEPT ![s] = v],
           \A b \in Copies : b % Ring # s
    PROVE  BuffersInv'
  <1>1. Ring' = Ring /\ \A b \in Block : b \in Nat
    BY Streaming DEF Ring, Variant
  <1>2. \A b \in Copies' : pinned'[b % Ring'] = b /\ b <= next'
    BY <1>1, BuffersTypes DEF BuffersInv
  <1>3. \A b \in Copies' : \A c \in Block : b <= c /\ c < Top' => c \in Copies'
    BY <1>1 DEF BuffersInv
  <1>4. \A b \in Block : b < Top' /\ b \notin Copies' /\ sums'[b] = Zero => device'[b % 2] = b
    BY <1>1 DEF BuffersInv
  <1>5. QED BY <1>2, <1>3, <1>4 DEF BuffersInv

\* The copy of the next block is enqueued.
LEMMA PushBuffers ==
    ASSUME TypeOK, BuffersInv, pass' = pass, Top = next, next \in Block,
           UNCHANGED <<pinned, device, sums, block>>,
           Copies' = Copies \cup {next}, Sums' = Sums, Top' = next + 1, Copies \subseteq Block,
           \A b \in Copies : b < next, pinned[next % Ring] = next,
           \/ UNCHANGED <<event, next>>
           \/ next' = next + 1 /\ event' = [event EXCEPT ![<<"h2d", next>>] = "recorded"]
    PROVE  BuffersInv'
  <1>1. Ring' = Ring /\ next \in Nat /\ \A b \in Block : b \in Nat
    BY Streaming DEF Ring, Variant
  <1>2. \A b \in Copies' : pinned'[b % Ring'] = b /\ b <= next'
    BY <1>1 DEF BuffersInv
  <1>3. \A b \in Copies' : \A c \in Block : b <= c /\ c < Top' => c \in Copies'
    BY <1>1 DEF BuffersInv
  <1>4. \A b \in Block : b < Top' /\ b \notin Copies' /\ sums'[b] = Zero => device'[b % 2] = b
    BY <1>1 DEF BuffersInv
  <1>5. \A b \in Sums' : b < block'
    BY DEF BuffersInv
  <1>6. \A b \in Block : sums'[b] = IF b < block' /\ b \notin Sums' THEN b ELSE Zero
    BY DEF BuffersInv
  <1>7. \A b \in Block : event'[<<"compute", b>>] = event[<<"compute", b>>]
    BY <1>1, Streaming
  <1>a. \/ event' = event /\ next' = next
        \/ next \in Block /\ \A b \in Block : event'[<<"h2d", b>>] =
             IF b = next THEN "recorded" ELSE event[<<"h2d", b>>]
    BY OneEvent, Streaming
  <1>8. \A b \in Block : b < next' => event'[<<"h2d", b>>] # "new"
    BY <1>1, <1>a DEF BuffersInv
  <1>9. \A b \in Block : b > next' => event'[<<"h2d", b>>] = "new"
    BY <1>1, <1>a DEF BuffersInv
  <1>10. block' <= next'
    BY <1>1, Streaming DEF BuffersInv
  <1>11. \A b \in Block : event'[<<"compute", b>>] # "new" <=> b < block'
    BY <1>7 DEF BuffersInv
  <1>12. QED BY <1>2, <1>3, <1>4, <1>5, <1>6, <1>8, <1>9, <1>10, <1>11 DEF BuffersInv

\* The event of the copy is recorded, and the copy announced.
LEMMA EventBuffers ==
    ASSUME TypeOK, BuffersInv, pass' = pass,
           UNCHANGED <<pinned, device, sums, block>>,
           Copies' = Copies, Sums' = Sums, Top' = Top, Copies \subseteq Block,
           next \in Block,
           \/ UNCHANGED next /\ event' = [event EXCEPT ![<<"h2d", next>>] = "recorded"]
           \/ UNCHANGED event /\ next' = next + 1 /\ event[<<"h2d", next>>] # "new"
              /\ \A b \in Block : b > next' => event[<<"h2d", b>>] = "new"
    PROVE  BuffersInv'
  <1>1. Ring' = Ring /\ next \in Nat /\ \A b \in Block : b \in Nat
    BY Streaming DEF Ring, Variant
  <1>2. \A b \in Copies' : pinned'[b % Ring'] = b /\ b <= next'
    BY <1>1 DEF BuffersInv
  <1>3. \A b \in Copies' : \A c \in Block : b <= c /\ c < Top' => c \in Copies'
    BY <1>1 DEF BuffersInv
  <1>4. \A b \in Block : b < Top' /\ b \notin Copies' /\ sums'[b] = Zero => device'[b % 2] = b
    BY <1>1 DEF BuffersInv
  <1>5. \A b \in Sums' : b < block'
    BY DEF BuffersInv
  <1>6. \A b \in Block : sums'[b] = IF b < block' /\ b \notin Sums' THEN b ELSE Zero
    BY DEF BuffersInv
  <1>7. \A b \in Block : event'[<<"compute", b>>] = event[<<"compute", b>>]
    BY <1>1, Streaming
  <1>a. \/ event' = event
        \/ next \in Block /\ \A b \in Block : event'[<<"h2d", b>>] =
             IF b = next THEN "recorded" ELSE event[<<"h2d", b>>]
    BY OneEvent, Streaming
  <1>8. \A b \in Block : b < next' => event'[<<"h2d", b>>] # "new"
    BY <1>1, <1>a DEF BuffersInv
  <1>9. \A b \in Block : b > next' => event'[<<"h2d", b>>] = "new"
    BY <1>1, <1>a DEF BuffersInv
  <1>10. block' <= next'
    BY <1>1, Streaming DEF BuffersInv
  <1>11. \A b \in Block : event'[<<"compute", b>>] # "new" <=> b < block'
    BY <1>7 DEF BuffersInv
  <1>12. QED BY <1>2, <1>3, <1>4, <1>5, <1>6, <1>8, <1>9, <1>10, <1>11 DEF BuffersInv

\* The sum of the next block is enqueued.
LEMMA SumBuffers ==
    ASSUME TypeOK, BuffersInv, pass' = pass, block \in Block, block < next,
           UNCHANGED <<pinned, device, sums, next>>, block' = block + 1,
           Copies' = Copies, Sums' = Sums \cup {block}, Top' = Top,
           Copies \subseteq Block, Sums \subseteq Block,
           event' = [event EXCEPT ![<<"compute", block>>] = "recorded"]
    PROVE  BuffersInv'
  <1>1. Ring' = Ring /\ next \in Nat /\ block \in Nat /\ \A b \in Block : b \in Nat
    BY Streaming DEF Ring, Variant
  <1>2. \A b \in Copies' : pinned'[b % Ring'] = b /\ b <= next'
    BY <1>1 DEF BuffersInv
  <1>3. \A b \in Copies' : \A c \in Block : b <= c /\ c < Top' => c \in Copies'
    BY <1>1 DEF BuffersInv
  <1>4. \A b \in Block : b < Top' /\ b \notin Copies' /\ sums'[b] = Zero => device'[b % 2] = b
    BY <1>1 DEF BuffersInv
  <1>5. \A b \in Sums' : b < block'
    BY <1>1 DEF BuffersInv
  <1>6. \A b \in Block : sums'[b] = IF b < block' /\ b \notin Sums' THEN b ELSE Zero
    BY <1>1 DEF BuffersInv
  <1>7. \A b \in Block : event'[<<"h2d", b>>] = event[<<"h2d", b>>]
    BY <1>1, Streaming
  <1>8. \A b \in Block : b < next' => event'[<<"h2d", b>>] # "new"
    BY <1>7 DEF BuffersInv
  <1>9. \A b \in Block : b > next' => event'[<<"h2d", b>>] = "new"
    BY <1>7 DEF BuffersInv
  <1>10. block' <= next'
    BY <1>1, Streaming DEF BuffersInv
  <1>a. \A b \in Block : event'[<<"compute", b>>] =
             IF b = block THEN "recorded" ELSE event[<<"compute", b>>]
    BY OneEvent, Streaming
  <1>b. \A b \in Block : event[<<"compute", b>>] # "new" <=> b < block
    BY DEF BuffersInv
  <1>c. \A b \in Block : b < block' <=> b < block \/ b = block
    BY <1>1
  <1>11. \A b \in Block : event'[<<"compute", b>>] # "new" <=> b < block'
    <2> SUFFICES ASSUME NEW b \in Block
                 PROVE  event'[<<"compute", b>>] # "new" <=> b < block'
      OBVIOUS
    <2>1. CASE b = block
      BY <1>a, <1>c, <2>1
    <2>2. CASE b # block
      <3>1. event'[<<"compute", b>>] = event[<<"compute", b>>]
        BY <1>a, <2>2
      <3>2. QED BY <1>b, <1>c, <2>2, <3>1
    <2>3. QED BY <2>1, <2>2
  <1>12. QED BY <1>2, <1>3, <1>4, <1>5, <1>6, <1>8, <1>9, <1>10, <1>11 DEF BuffersInv

\* A copy starts: the slot it overwrites holds no block a sum needs.
LEMMA CopyStartBuffers ==
    ASSUME TypeOK, StreamsInv, BuffersInv, pass' = pass, NEW b, FirstCopy(b),
           UNCHANGED <<pc, pinned, sums, event, block, next>>,
           device' = [device EXCEPT ![b % 2] = Garbage],
           Copies' = Copies, Sums' = Sums
    PROVE  BuffersInv'
  <1>1. /\ Ring' = Ring /\ Top' = Top /\ Copies \subseteq Block
        /\ \A c \in Block : c \in Nat /\ c % 2 \in 0 .. 1
    BY Streaming, BuffersTypes, CopiesOfBlocks DEF Ring, Variant, Top
  <1>2. \A c \in Block : c < Top' /\ c \notin Copies' /\ sums'[c] = Zero => device'[c % 2] = c
    <2> SUFFICES ASSUME NEW c \in Block, c < Top, c \notin Copies, sums[c] = Zero
                 PROVE  device'[c % 2] = c
      BY <1>1
    <2>1. b \in Block /\ c % 2 # b % 2
      BY <1>1, SlotFree
    <2>2. device[c % 2] = c
      BY DEF BuffersInv
    <2>3. QED BY <1>1, <2>1, <2>2, BuffersTypes
  <1>3. QED BY <1>1, <1>2 DEF BuffersInv

\* A copy finishes: its device slot holds its block.
LEMMA CopyFinishBuffers ==
    ASSUME TypeOK, StreamsInv, BuffersInv, pass' = pass, NEW b, FirstCopy(b),
           UNCHANGED <<pc, pinned, sums, event, block, next>>,
           device' = [device EXCEPT ![b % 2] = b],
           Copies' = Copies \ {b}, Sums' = Sums
    PROVE  BuffersInv'
  <1>1. /\ Ring' = Ring /\ Top' = Top /\ Copies \subseteq Block
        /\ \A c \in Block : c \in Nat /\ c % 2 \in 0 .. 1
    BY Streaming, BuffersTypes, CopiesOfBlocks DEF Ring, Variant, Top
  <1>2. \A c \in Block : c < Top' /\ c \notin Copies' /\ sums'[c] = Zero => device'[c % 2] = c
    <2> SUFFICES ASSUME NEW c \in Block, c < Top, c \notin Copies', sums[c] = Zero
                 PROVE  device'[c % 2] = c
      BY <1>1
    <2>1. CASE c = b
      BY <1>1, <2>1, BuffersTypes
    <2>2. CASE c # b
      <3>1. b \in Block /\ c % 2 # b % 2
        BY <1>1, <2>2, SlotFree
      <3>2. device[c % 2] = c
        BY <2>2 DEF BuffersInv
      <3>3. QED BY <1>1, <3>1, <3>2, BuffersTypes
    <2>3. QED BY <2>1, <2>2
  <1>3. \A c \in Copies' : \A d \in Block : c <= d /\ d < Top' => d \in Copies'
    BY <1>1 DEF FirstCopy, BuffersInv
  <1>4. QED BY <1>1, <1>2, <1>3 DEF BuffersInv

\* A sum finishes: the blocks up to it are summed.
LEMMA SumFinishBuffers ==
    ASSUME TypeOK, StreamsInv, BuffersInv, pass' = pass, NEW b, FirstSum(b),
           UNCHANGED <<pc, pinned, device, event, block, next>>,
           sums' = [sums EXCEPT ![b] = b],
           Copies' = Copies, Sums' = Sums \ {b}
    PROVE  BuffersInv'
  <1>1. /\ Ring' = Ring /\ Top' = Top /\ b \in Block /\ b < block
        /\ \A c \in Block : c \in Nat /\ c # Zero
    BY Streaming, SumReady, BlocksAssumption DEF Ring, Variant, Top
  <1>2. \A c \in Block : sums'[c] = IF c = b THEN b ELSE sums[c]
    BY BuffersTypes
  <1>3. \A c \in Block : c < Top' /\ c \notin Copies' /\ sums'[c] = Zero => device'[c % 2] = c
    BY <1>1, <1>2 DEF BuffersInv
  <1>4. \A c \in Block : sums'[c] = IF c < block' /\ c \notin Sums' THEN c ELSE Zero
    BY <1>1, <1>2 DEF BuffersInv
  <1>5. QED BY <1>1, <1>3, <1>4 DEF BuffersInv

\* The device completes an event: none becomes new.
LEMMA ControlBuffers ==
    ASSUME TypeOK, StreamsInv, BuffersInv, pass' = pass,
           UNCHANGED <<pc, pinned, device, sums, block, next>>,
           \/ event' = event
           \/ \E k \in {"h2d", "compute"}, b \in Block :
                /\ event[<<k, b>>] # "new"
                /\ event' = [event EXCEPT ![<<k, b>>] = "complete"],
           Copies' = Copies, Sums' = Sums
    PROVE  BuffersInv'
  <1>1. Ring' = Ring /\ Top' = Top
    BY DEF Ring, Variant, Top
  <1>2. \A k \in {"h2d", "compute"}, b \in Block :
            event'[<<k, b>>] = "new" <=> event[<<k, b>>] = "new"
    <2>1. CASE event' = event
      BY <2>1
    <2>2. ASSUME NEW k \in {"h2d", "compute"}, NEW b \in Block, event[<<k, b>>] # "new",
                 event' = [event EXCEPT ![<<k, b>>] = "complete"]
          PROVE  \A j \in {"h2d", "compute"}, c \in Block :
                    event'[<<j, c>>] = "new" <=> event[<<j, c>>] = "new"
      <3>1. \A j \in {"h2d", "compute"}, c \in Block :
               event'[<<j, c>>] = IF j = k /\ c = b THEN "complete" ELSE event[<<j, c>>]
        BY <2>2, OneEvent, Streaming
      <3>2. QED BY <2>2, <3>1
    <2>3. QED BY <2>1, <2>2
  <1>3. QED BY <1>1, <1>2 DEF BuffersInv

------------------------------------------------------------------------------
(* One step of an overlapped variant, of its worker or of the device. *)

\* Enqueuing leaves what runs alone.
LEMMA RunsKept ==
    ASSUME RunningInv, HeadsKept, running' = running
    PROVE  RunningInv' /\ (RunsInv => RunsInv')
  BY DEF RunningInv, RunsInv, HeadsKept, Streams

\* A step that leaves the device alone keeps what the streams say.
LEMMA StreamsKept ==
    ASSUME UNCHANGED <<stream, event, running, pass>>
    PROVE  /\ Copies' = Copies /\ Sums' = Sums
           /\ (StreamsInv => StreamsInv') /\ (RunsInv => RunsInv')
           /\ (RunningInv => RunningInv')
  BY DEF Copies, Sums, StreamsInv, RunsInv, RunningInv, Ring, Variant

\* The invariant of a pass of an overlapped variant.
PipeState == /\ TypeOK /\ PlaceInv /\ RunningInv /\ PipeInv
             /\ Variant = "three_stage" => WorkerInv

\* The slot run_double_buffer fills is the source of no enqueued copy.
LEMMA SlotEmpty ==
    ASSUME PipeState, pc \in Filling, pc \in DoubleLabels
    PROVE  Ring = 2 /\ \A b \in Copies : b % Ring # next % 2
  <1>1. Ring = 2 /\ outcome = "running" /\ Top = next /\ next \in Nat /\ next < Blocks
    BY Streaming DEF PipeState, PlaceInv, PipeInv, MainInv, CountInv, Ring, Variant, Filling,
                     Top, LastLabels
  <1>2. Copies \subseteq Block /\ \A b \in Block : b \in Nat
    BY CopiesOfBlocks, Streaming DEF PipeState, PipeInv
  <1>3. \A b \in Copies : b < next
    BY <1>1 DEF PipeState, PipeInv, MainInv, TopInv
  <1>4. next >= 2 => \A b \in Copies : b > next - 2
    <2>1. next >= 2 => next - 2 \in Block
      BY <1>1, Streaming DEF Block, PipeState
    <2>2. QED BY <2>1, CopiesOfBlocks, <1>2 DEF PipeState, PipeInv, MainInv, FillInv
  <1>5. \A b \in Copies : b % 2 # next % 2
    BY <1>1, <1>2, <1>3, <1>4, Mod2
  <1>6. QED BY <1>1, <1>5

\* run_double_buffer chooses the slot of the next block.
LEMMA DoubleSlotStep ==
    ASSUME PipeState, DoubleSlot, UNCHANGED <<threads, pass, outcome, at>>
    PROVE  /\ PipeInv' /\ RunningInv'
           /\ Variant = "three_stage" => WorkerInv'
  <1>0. /\ TypeOK /\ PlaceInv /\ RunningInv /\ StreamsInv /\ RunsInv /\ BuffersInv /\ MainInv
        /\ Variant = "three_stage" => WorkerInv
        /\ Copies \subseteq Block /\ Sums \subseteq Block
    BY CopiesOfBlocks DEF PipeState, PipeInv
  <1>1. /\ Copies' = Copies /\ Sums' = Sums /\ StreamsInv' /\ RunsInv' /\ RunningInv'
        /\ next >= 2 => After(stream'["copy"], Len(stream'["copy"]) + 1,
                              <<"compute", next - 2>>, event)
    BY <1>0, SlotStreams, RunsKept DEF DoubleSlot
  <1>2. BuffersInv'
    <2>1. UNCHANGED <<pinned, device, sums, event, block, next, pass>> /\ Top' <= Top
          /\ Top' \in Nat
      BY <1>0, <1>1, BuffersTypes, Streaming DEF Goto, StorageReady, DoubleSlot, Top, buffers
    <2>2. QED BY <1>0, <1>1, <2>1, QuietBuffers
  <1>3. MainInv'
    <2>0. TopInv /\ CountInv /\ FillInv
      BY <1>0 DEF MainInv
    <2>1. TopInv'
      BY <1>0, <1>1, <2>0, OneEvent, Streaming DEF TopInv, CountInv, Goto, StorageReady,
         DoubleSlot, Top, Filling, Synchronized, BuffersInv, buffers
    <2>2. CountInv'
      BY <1>0, <1>1, <2>0, Streaming DEF CountInv, Goto, StorageReady, DoubleSlot, Top, Filling,
         Synchronized, BuffersInv, buffers
    <2>3. FillInv'
      <3>1. /\ pc = "double.slot" /\ pc' = "double.read" /\ UNCHANGED <<next, offset, event>>
            /\ next < Blocks /\ (next >= 2 => event[<<"h2d", next - 2>>] # "recorded")
        BY <2>0 DEF DoubleSlot, Goto, buffers, Synchronized, CountInv
      <3>2. next >= 2 => next - 2 \in Block /\ next - 2 < next
        BY <1>0, <3>1, Streaming DEF Block
      <3>3. next >= 2 => event[<<"h2d", next - 2>>] \in {"new", "recorded", "complete"}
        BY <1>0, <3>2, Streaming
      <3>4. next >= 2 => event[<<"h2d", next - 2>>] = "complete"
        BY <1>0, <3>1, <3>2, <3>3 DEF BuffersInv
      <3>5. QED BY <1>1, <2>0, <3>1, <3>4 DEF FillInv, Filling
    <2>4. QED BY <2>1, <2>2, <2>3 DEF MainInv
  <1>4. Variant = "three_stage" => WorkerInv'
    BY <1>0 DEF StorageReady, DoubleSlot, PlaceInv, DoubleLabels
  <1>5. QED BY <1>1, <1>2, <1>3, <1>4 DEF PipeInv

\* run_double_buffer reads into a slot no enqueued copy reads.
LEMMA DoubleReadStep ==
    ASSUME PipeState, DoubleRead, UNCHANGED <<threads, pass, outcome, at>>
    PROVE  /\ PipeInv' /\ RunningInv'
           /\ Variant = "three_stage" => WorkerInv'
  <1>0. /\ TypeOK /\ PlaceInv /\ RunningInv /\ StreamsInv /\ RunsInv /\ BuffersInv /\ MainInv
        /\ Variant = "three_stage" => WorkerInv
        /\ Copies \subseteq Block /\ Sums \subseteq Block
    BY CopiesOfBlocks DEF PipeState, PipeInv
  <1>1. /\ Copies' = Copies /\ Sums' = Sums /\ StreamsInv' /\ RunsInv' /\ RunningInv'
    BY <1>0, StreamsKept DEF DoubleRead, StageStart, gpu
  <1>2. BuffersInv'
    <2>1. UNCHANGED <<device, sums, event, block, next, pass>> /\ Top' = Top
          /\ pinned' = [pinned EXCEPT ![next % 2] = Garbage]
          /\ \A b \in Copies : b % Ring # next % 2
      BY <1>0, <1>1, BuffersTypes, SlotEmpty, Streaming DEF Filling, DoubleLabels, Goto,
         StorageReady, DoubleRead, StageStart, gpu, Top
    <2>2. QED BY <1>0, <1>1, <2>1, FillBuffers
  <1>3. MainInv'
    <2>0. TopInv /\ CountInv /\ FillInv
      BY <1>0 DEF MainInv
    <2>1. TopInv'
      BY <1>0, <1>1, <2>0, OneEvent, Streaming DEF TopInv, CountInv, Goto, StorageReady,
         DoubleRead, StageStart, gpu, Top, Filling
    <2>2. CountInv'
      BY <1>0, <1>1, <2>0, Streaming DEF CountInv, Goto, StorageReady, DoubleRead, StageStart,
         gpu, Top, Filling
    <2>3. FillInv'
      BY <1>0, <1>1, <2>0, BuffersTypes, Streaming DEF FillInv, Goto, StorageReady, DoubleRead,
         StageStart, gpu, Top, Filling
    <2>4. QED BY <2>1, <2>2, <2>3 DEF MainInv
  <1>4. Variant = "three_stage" => WorkerInv'
    BY <1>0 DEF StorageReady, DoubleRead, PlaceInv, DoubleLabels
  <1>5. QED BY <1>1, <1>2, <1>3, <1>4 DEF PipeInv

\* run_double_buffer has the next block in its slot.
LEMMA DoubleStageStep ==
    ASSUME PipeState, DoubleStage, UNCHANGED <<threads, pass, outcome, at>>
    PROVE  /\ PipeInv' /\ RunningInv'
           /\ Variant = "three_stage" => WorkerInv'
  <1>0. /\ TypeOK /\ PlaceInv /\ RunningInv /\ StreamsInv /\ RunsInv /\ BuffersInv /\ MainInv
        /\ Variant = "three_stage" => WorkerInv
        /\ Copies \subseteq Block /\ Sums \subseteq Block
    BY CopiesOfBlocks DEF PipeState, PipeInv
  <1>1. /\ Copies' = Copies /\ Sums' = Sums /\ StreamsInv' /\ RunsInv' /\ RunningInv'
    BY <1>0, StreamsKept DEF DoubleStage, StageFinish, gpu
  <1>2. BuffersInv'
    <2>1. UNCHANGED <<device, sums, event, block, next, pass>> /\ Top' = Top
          /\ pinned' = [pinned EXCEPT ![next % 2] = IF closed THEN Garbage ELSE offset - 1]
          /\ \A b \in Copies : b % Ring # next % 2
      BY <1>0, <1>1, BuffersTypes, SlotEmpty, Streaming DEF Filling, DoubleLabels, Goto,
         StorageReady, DoubleStage, StageFinish, gpu, Top
    <2>2. QED BY <1>0, <1>1, <2>1, FillBuffers
  <1>3. MainInv'
    <2>0. TopInv /\ CountInv /\ FillInv
      BY <1>0 DEF MainInv
    <2>1. TopInv'
      BY <1>0, <1>1, <2>0, OneEvent, Streaming DEF TopInv, CountInv, Goto, StorageReady,
         DoubleStage, StageFinish, gpu, Top, Filling
    <2>2. CountInv'
      BY <1>0, <1>1, <2>0, Streaming DEF CountInv, Goto, StorageReady, DoubleStage, StageFinish,
         gpu, Top, Filling
    <2>3. FillInv'
      <3>1. /\ pc = "double.stage" /\ pc' = "double.copy" /\ next' = next /\ offset' = offset
            /\ pinned' = [pinned EXCEPT ![next % 2] = offset - 1]
            /\ stream' = stream /\ event' = event
        BY <1>0 DEF DoubleStage, StageFinish, Goto, gpu, PlaceInv
      <3>2. offset - 1 = next /\ next % 2 \in 0 .. 2 /\ pinned \in [0 .. 2 -> Data]
        BY <1>0, <2>0, <3>1, BuffersTypes, Streaming DEF FillInv
      <3>3. pinned'[next % 2] = next
        BY <3>1, <3>2
      <3>4. QED BY <2>0, <3>1, <3>3 DEF FillInv, Filling
    <2>4. QED BY <2>1, <2>2, <2>3 DEF MainInv
  <1>4. Variant = "three_stage" => WorkerInv'
    BY <1>0 DEF StorageReady, DoubleStage, PlaceInv, DoubleLabels
  <1>5. QED BY <1>1, <1>2, <1>3, <1>4 DEF PipeInv

\* run_double_buffer enqueues the copy of the next block.
LEMMA DoubleCopyStep ==
    ASSUME PipeState, DoubleCopy, UNCHANGED <<threads, pass, outcome, at>>
    PROVE  /\ PipeInv' /\ RunningInv'
           /\ Variant = "three_stage" => WorkerInv'
  <1>0. /\ TypeOK /\ PlaceInv /\ RunningInv /\ StreamsInv /\ RunsInv /\ BuffersInv /\ MainInv
        /\ Variant = "three_stage" => WorkerInv
        /\ Copies \subseteq Block /\ Sums \subseteq Block
    BY CopiesOfBlocks DEF PipeState, PipeInv
  <1>1. /\ Copies' = Copies \cup {next} /\ Sums' = Sums /\ StreamsInv' /\ RunsInv' /\ RunningInv'
        /\ event' = [event EXCEPT ![<<"h2d", next>>] = "recorded"]
    BY <1>0, DoubleCopyStreams, RunsKept DEF DoubleCopy
  <1>2. BuffersInv'
    <2>1. /\ UNCHANGED <<pinned, device, sums, block, pass>>
          /\ Top = next /\ next \in Block /\ Top' = next + 1
          /\ \A b \in Copies : b < next
          /\ pinned[next % Ring] = next
          /\ next' = next + 1
      BY <1>0, <1>1, BuffersTypes, Streaming DEF Goto, StorageReady, DoubleCopy, Top, buffers,
         MainInv, TopInv, CountInv, FillInv, Filling, Block, PlaceInv, LastLabels,
               DoubleLabels, ThreeLabels, Ring, WorkerInv
    <2>2. QED BY <1>0, <1>1, <2>1, PushBuffers
  <1>3. MainInv'
    <2>0. TopInv /\ CountInv /\ FillInv
      BY <1>0 DEF MainInv
    <2>1. TopInv'
      <3>1. pc = "double.copy" /\ next' = next + 1 /\ outcome' = outcome /\ outcome = "running"
            /\ pc' \in {"double.slot", "double.compute"} /\ next < Blocks
        BY <1>0, <2>0 DEF DoubleCopy, Goto, PlaceInv, LastLabels, CountInv, Filling
      <3>2. Top = next /\ Top' = next + 1
        BY <3>1 DEF Top
      <3>3. next + 1 < Blocks => event'[<<"h2d", next + 1>>] = "new"
        <4>1. next + 1 < Blocks => next + 1 \in Block /\ next + 1 > next /\ next + 1 # next
          BY <1>0, Streaming DEF Block
        <4>2. next + 1 < Blocks => event[<<"h2d", next + 1>>] = "new"
          BY <1>0, <4>1 DEF BuffersInv
        <4>3. next \in Block
          BY <1>0, <3>1, Streaming DEF Block
        <4>4. QED BY <1>0, <1>1, <4>1, <4>2, <4>3, OneEvent, Streaming
      <3>4. \A b \in Copies' : b < Top'
        BY <1>0, <1>1, <2>0, <3>1, <3>2, Streaming DEF TopInv
      <3>5. QED BY <3>1, <3>3, <3>4 DEF TopInv
    <2>2. CountInv'
      BY <1>0, <1>1, <2>0, Streaming DEF CountInv, Goto, StorageReady, DoubleCopy, Top, Filling,
         buffers
    <2>3. FillInv'
      BY <1>0, <1>1, <2>0, BuffersTypes, Streaming DEF FillInv, Goto, StorageReady, DoubleCopy,
         Top, Filling, buffers
    <2>4. QED BY <2>1, <2>2, <2>3 DEF MainInv
  <1>4. Variant = "three_stage" => WorkerInv'
    BY <1>0 DEF StorageReady, DoubleCopy, PlaceInv, DoubleLabels
  <1>5. QED BY <1>1, <1>2, <1>3, <1>4 DEF PipeInv

\* run_double_buffer enqueues a sum.
LEMMA DoubleComputeStep ==
    ASSUME PipeState, DoubleCompute, UNCHANGED <<threads, pass, outcome, at>>
    PROVE  /\ PipeInv' /\ RunningInv'
           /\ Variant = "three_stage" => WorkerInv'
  <1>0. /\ TypeOK /\ PlaceInv /\ RunningInv /\ StreamsInv /\ RunsInv /\ BuffersInv /\ MainInv
        /\ Variant = "three_stage" => WorkerInv
        /\ Copies \subseteq Block /\ Sums \subseteq Block
    BY CopiesOfBlocks DEF PipeState, PipeInv
  <1>1. /\ Copies' = Copies /\ Sums' = Sums \cup {block} /\ StreamsInv' /\ RunsInv' /\ RunningInv'
        /\ event' = [event EXCEPT ![<<"compute", block>>] = "recorded"]
    BY <1>0, SumStreams, RunsKept DEF DoubleCompute
  <1>2. BuffersInv'
    <2>1. UNCHANGED <<pinned, device, sums, next, pass>> /\ block' = block + 1 /\ Top' = Top
          /\ block \in Block /\ block < next
      BY <1>0, <1>1, BuffersTypes, Streaming DEF Goto, StorageReady, DoubleCompute, Top, buffers,
         MainInv, CountInv, Block
    <2>2. QED BY <1>0, <1>1, <2>1, SumBuffers
  <1>3. MainInv'
    <2>0. TopInv /\ CountInv /\ FillInv
      BY <1>0 DEF MainInv
    <2>1. TopInv'
      BY <1>0, <1>1, <2>0, OneEvent, Streaming DEF TopInv, CountInv, Goto, StorageReady,
         DoubleCompute, Top, Filling, buffers
    <2>2. CountInv'
      BY <1>0, <1>1, <2>0, Streaming DEF CountInv, Goto, StorageReady, DoubleCompute, Top,
         Filling, buffers
    <2>3. FillInv'
      BY <1>0, <1>1, <2>0, BuffersTypes, Streaming DEF FillInv, Goto, StorageReady, DoubleCompute,
         Top, Filling, buffers
    <2>4. QED BY <2>1, <2>2, <2>3 DEF MainInv
  <1>4. Variant = "three_stage" => WorkerInv'
    BY <1>0 DEF StorageReady, DoubleCompute, PlaceInv, DoubleLabels
  <1>5. QED BY <1>1, <1>2, <1>3, <1>4 DEF PipeInv

\* run_three_stage starts its worker.
LEMMA StartWorkerStep ==
    ASSUME PipeState, StartWorker, UNCHANGED <<pass, outcome, at>>
    PROVE  /\ PipeInv' /\ RunningInv'
           /\ Variant = "three_stage" => WorkerInv'
  <1>0. /\ TypeOK /\ PlaceInv /\ RunningInv /\ StreamsInv /\ RunsInv /\ BuffersInv /\ MainInv
        /\ Variant = "three_stage" => WorkerInv
        /\ Copies \subseteq Block /\ Sums \subseteq Block
    BY CopiesOfBlocks DEF PipeState, PipeInv
  <1>1. /\ Copies' = Copies /\ Sums' = Sums /\ StreamsInv' /\ RunsInv' /\ RunningInv'
    BY <1>0, StreamsKept DEF StartWorker, gpu
  <1>2. BuffersInv'
    <2>1. UNCHANGED <<pinned, device, sums, event, block, next, pass>> /\ Top' <= Top
          /\ Top' \in Nat
      BY <1>0, <1>1, BuffersTypes, Streaming DEF Goto, StorageReady, StartWorker, gpu, Top,
         buffers
    <2>2. QED BY <1>0, <1>1, <2>1, QuietBuffers
  <1>3. MainInv'
    <2>0. TopInv /\ CountInv /\ FillInv
      BY <1>0 DEF MainInv
    <2>1. TopInv'
      BY <1>0, <1>1, <2>0, OneEvent, Streaming DEF TopInv, CountInv, Goto, StorageReady,
         StartWorker, gpu, Top, Filling, buffers
    <2>2. CountInv'
      BY <1>0, <1>1, <2>0, Streaming DEF CountInv, Goto, StorageReady, StartWorker, gpu, Top,
         Filling, buffers
    <2>3. FillInv'
      BY <1>0, <1>1, <2>0, BuffersTypes, Streaming DEF FillInv, Goto, StorageReady, StartWorker,
         gpu, Top, Filling, buffers
    <2>4. QED BY <2>1, <2>2, <2>3 DEF MainInv
  <1>4. Variant = "three_stage" => WorkerInv'
    BY <1>0, <1>1, Streaming DEF StorageReady, StartWorker, gpu, WorkerInv, WorkerEnded, threads,
       buffers, PlaceInv, Variant
  <1>5. QED BY <1>1, <1>2, <1>3, <1>4 DEF PipeInv

\* run_three_stage enters the try that joins its worker.
LEMMA EnterTryStep ==
    ASSUME PipeState, EnterTry, UNCHANGED <<pass, outcome, at>>
    PROVE  /\ PipeInv' /\ RunningInv'
           /\ Variant = "three_stage" => WorkerInv'
  <1>0. /\ TypeOK /\ PlaceInv /\ RunningInv /\ StreamsInv /\ RunsInv /\ BuffersInv /\ MainInv
        /\ Variant = "three_stage" => WorkerInv
        /\ Copies \subseteq Block /\ Sums \subseteq Block
    BY CopiesOfBlocks DEF PipeState, PipeInv
  <1>1. /\ Copies' = Copies /\ Sums' = Sums /\ StreamsInv' /\ RunsInv' /\ RunningInv'
    BY <1>0, StreamsKept DEF EnterTry, gpu
  <1>2. BuffersInv'
    <2>1. UNCHANGED <<pinned, device, sums, event, block, next, pass>> /\ Top' <= Top
          /\ Top' \in Nat
      BY <1>0, <1>1, BuffersTypes, Streaming DEF Goto, StorageReady, EnterTry, gpu, Top, buffers
    <2>2. QED BY <1>0, <1>1, <2>1, QuietBuffers
  <1>3. MainInv'
    <2>0. TopInv /\ CountInv /\ FillInv
      BY <1>0 DEF MainInv
    <2>1. TopInv'
      BY <1>0, <1>1, <2>0, OneEvent, Streaming DEF TopInv, CountInv, Goto, StorageReady, EnterTry,
         gpu, Top, Filling, buffers
    <2>2. CountInv'
      BY <1>0, <1>1, <2>0, Streaming DEF CountInv, Goto, StorageReady, EnterTry, gpu, Top,
         Filling, buffers
    <2>3. FillInv'
      BY <1>0, <1>1, <2>0, BuffersTypes, Streaming DEF FillInv, Goto, StorageReady, EnterTry, gpu,
         Top, Filling, buffers
    <2>4. QED BY <2>1, <2>2, <2>3 DEF MainInv
  <1>4. Variant = "three_stage" => WorkerInv'
    BY <1>0, <1>1, Streaming DEF StorageReady, EnterTry, gpu, WorkerInv, WorkerEnded, threads,
       buffers, PlaceInv, Variant
  <1>5. QED BY <1>1, <1>2, <1>3, <1>4 DEF PipeInv

\* run_three_stage goes on when the worker announced the next block.
LEMMA WaitForStorageStep ==
    ASSUME PipeState, WaitForStorage, UNCHANGED <<pass, outcome, at>>
    PROVE  /\ PipeInv' /\ RunningInv'
           /\ Variant = "three_stage" => WorkerInv'
  <1>0. /\ TypeOK /\ PlaceInv /\ RunningInv /\ StreamsInv /\ RunsInv /\ BuffersInv /\ MainInv
        /\ Variant = "three_stage" => WorkerInv
        /\ Copies \subseteq Block /\ Sums \subseteq Block
    BY CopiesOfBlocks DEF PipeState, PipeInv
  <1>1. /\ Copies' = Copies /\ Sums' = Sums /\ StreamsInv' /\ RunsInv' /\ RunningInv'
    BY <1>0, StreamsKept DEF WaitForStorage, gpu
  <1>2. BuffersInv'
    <2>1. UNCHANGED <<pinned, device, sums, event, block, next, pass>> /\ Top' <= Top
          /\ Top' \in Nat
      BY <1>0, <1>1, BuffersTypes, Streaming DEF Goto, StorageReady, WaitForStorage, gpu, Top,
         buffers
    <2>2. QED BY <1>0, <1>1, <2>1, QuietBuffers
  <1>3. MainInv'
    <2>0. TopInv /\ CountInv /\ FillInv
      BY <1>0 DEF MainInv
    <2>1. TopInv'
      BY <1>0, <1>1, <2>0, OneEvent, Streaming DEF TopInv, CountInv, Goto, StorageReady,
         WaitForStorage, gpu, Top, Filling, buffers
    <2>2. CountInv'
      BY <1>0, <1>1, <2>0, Streaming DEF CountInv, Goto, StorageReady, WaitForStorage, gpu, Top,
         Filling, buffers
    <2>3. FillInv'
      BY <1>0, <1>1, <2>0, BuffersTypes, Streaming DEF FillInv, Goto, StorageReady,
         WaitForStorage, gpu, Top, Filling, buffers
    <2>4. QED BY <2>1, <2>2, <2>3 DEF MainInv
  <1>4. Variant = "three_stage" => WorkerInv'
    <2>1. next \in Block /\ storage_done[next] /\ ~worker_errors
      BY <1>0, Streaming DEF WaitForStorage, StorageReady, MainInv, CountInv, Block
    <2>2. Variant = "three_stage" => next < wblock
      BY <1>0, <2>1 DEF WorkerInv
    <2>3. QED BY <1>0, <1>1, <2>2, Streaming
              DEF WaitForStorage, StorageReady, gpu, WorkerInv, WorkerEnded, threads, buffers,
                 Variant
  <1>5. QED BY <1>1, <1>2, <1>3, <1>4 DEF PipeInv

\* run_three_stage enqueues the copy of the next block.
LEMMA EnqueueCopyStep ==
    ASSUME PipeState, EnqueueCopy, UNCHANGED <<pass, outcome, at>>
    PROVE  /\ PipeInv' /\ RunningInv'
           /\ Variant = "three_stage" => WorkerInv'
  <1>0. /\ TypeOK /\ PlaceInv /\ RunningInv /\ StreamsInv /\ RunsInv /\ BuffersInv /\ MainInv
        /\ Variant = "three_stage" => WorkerInv
        /\ Copies \subseteq Block /\ Sums \subseteq Block
    BY CopiesOfBlocks DEF PipeState, PipeInv
  <1>1. /\ Copies' = Copies \cup {next} /\ Sums' = Sums /\ StreamsInv' /\ RunsInv' /\ RunningInv'
    BY <1>0, EnqueueCopyStreams, RunsKept DEF EnqueueCopy
  <1>2. BuffersInv'
    <2>1. /\ UNCHANGED <<pinned, device, sums, block, pass>>
          /\ Top = next /\ next \in Block /\ Top' = next + 1
          /\ \A b \in Copies : b < next
          /\ pinned[next % Ring] = next
          /\ UNCHANGED <<event, next>>
      BY <1>0, <1>1, BuffersTypes, Streaming DEF Goto, StorageReady, EnqueueCopy, Top, buffers,
         MainInv, TopInv, CountInv, FillInv, Filling, Block, PlaceInv, LastLabels,
               DoubleLabels, ThreeLabels, Ring, WorkerInv
    <2>2. QED BY <1>0, <1>1, <2>1, PushBuffers
  <1>3. MainInv'
    <2>0. TopInv /\ CountInv /\ FillInv
      BY <1>0 DEF MainInv
    <2>1. TopInv'
      BY <1>0, <1>1, <2>0, OneEvent, Streaming DEF TopInv, CountInv, Goto, StorageReady,
         EnqueueCopy, Top, Filling, buffers
    <2>2. CountInv'
      BY <1>0, <1>1, <2>0, Streaming DEF CountInv, Goto, StorageReady, EnqueueCopy, Top, Filling,
         buffers
    <2>3. FillInv'
      BY <1>0, <1>1, <2>0, BuffersTypes, Streaming DEF FillInv, Goto, StorageReady, EnqueueCopy,
         Top, Filling, buffers
    <2>4. QED BY <2>1, <2>2, <2>3 DEF MainInv
  <1>4. Variant = "three_stage" => WorkerInv'
    BY <1>0, <1>1, Streaming DEF StorageReady, EnqueueCopy, WorkerInv, WorkerEnded, threads,
       buffers, Variant
  <1>5. QED BY <1>1, <1>2, <1>3, <1>4 DEF PipeInv

\* run_three_stage records the event of that copy.
LEMMA RecordCopyStep ==
    ASSUME PipeState, RecordCopy, UNCHANGED <<pass, outcome, at>>
    PROVE  /\ PipeInv' /\ RunningInv'
           /\ Variant = "three_stage" => WorkerInv'
  <1>0. /\ TypeOK /\ PlaceInv /\ RunningInv /\ StreamsInv /\ RunsInv /\ BuffersInv /\ MainInv
        /\ Variant = "three_stage" => WorkerInv
        /\ Copies \subseteq Block /\ Sums \subseteq Block
    BY CopiesOfBlocks DEF PipeState, PipeInv
  <1>1. /\ Copies' = Copies /\ Sums' = Sums /\ StreamsInv' /\ RunsInv' /\ RunningInv'
        /\ event' = [event EXCEPT ![<<"h2d", next>>] = "recorded"]
    BY <1>0, RecordCopyStreams, RunsKept DEF RecordCopy
  <1>2. BuffersInv'
    <2>1. UNCHANGED <<pinned, device, sums, block, pass>> /\ Top' = Top /\ next \in Block
          /\ UNCHANGED next
      BY <1>0, <1>1, BuffersTypes, Streaming DEF Goto, StorageReady, RecordCopy, Top, buffers,
         MainInv, CountInv, Block
    <2>2. QED BY <1>0, <1>1, <2>1, EventBuffers
  <1>3. MainInv'
    <2>0. TopInv /\ CountInv /\ FillInv
      BY <1>0 DEF MainInv
    <2>1. TopInv'
      <3>1. pc = "three.record" /\ pc' = "three.announce" /\ next' = next /\ outcome' = outcome
        BY DEF RecordCopy
      <3>2. Top' = Top
        BY <3>1 DEF Top
      <3>3. event'[<<"h2d", next>>] = "recorded"
        <4>1. next \in Block
          BY <1>0, <2>0, <3>1, Streaming DEF CountInv, Block
        <4>2. QED BY <1>0, <1>1, <4>1, Streaming
      <3>4. QED BY <1>1, <2>0, <3>1, <3>2, <3>3 DEF TopInv
    <2>2. CountInv'
      BY <1>0, <1>1, <2>0, Streaming DEF CountInv, Goto, StorageReady, RecordCopy, Top, Filling,
         buffers
    <2>3. FillInv'
      BY <1>0, <1>1, <2>0, BuffersTypes, Streaming DEF FillInv, Goto, StorageReady, RecordCopy,
         Top, Filling, buffers
    <2>4. QED BY <2>1, <2>2, <2>3 DEF MainInv
  <1>4. Variant = "three_stage" => WorkerInv'
    <2>1. next \in Block /\ event[<<"h2d", next>>] = "new"
      BY <1>0, Streaming DEF RecordCopy, MainInv, CountInv, TopInv, PlaceInv, LastLabels, Block
    <2>2. \A b \in Block : event[<<"h2d", b>>] = "complete" => event'[<<"h2d", b>>] = "complete"
      BY <1>0, <1>1, <2>1, OneEvent, Streaming
    <2>3. wblock >= 3 /\ worker \in {"read", "stage"} /\ Variant = "three_stage" =>
            wblock - 3 \in Block
      BY <1>0, Streaming DEF WorkerInv, WorkerEnded, TypeOK, ThreadsTypeOK, Block
    <2>4. QED BY <1>0, <1>1, <2>2, <2>3, Streaming
              DEF RecordCopy, WorkerInv, WorkerEnded, threads, buffers, Variant
  <1>5. QED BY <1>1, <1>2, <1>3, <1>4 DEF PipeInv

\* run_three_stage announces that event to the worker.
LEMMA AnnounceCopyStep ==
    ASSUME PipeState, AnnounceCopy, UNCHANGED <<pass, outcome, at>>
    PROVE  /\ PipeInv' /\ RunningInv'
           /\ Variant = "three_stage" => WorkerInv'
  <1>0. /\ TypeOK /\ PlaceInv /\ RunningInv /\ StreamsInv /\ RunsInv /\ BuffersInv /\ MainInv
        /\ Variant = "three_stage" => WorkerInv
        /\ Copies \subseteq Block /\ Sums \subseteq Block
    BY CopiesOfBlocks DEF PipeState, PipeInv
  <1>1. /\ Copies' = Copies /\ Sums' = Sums /\ StreamsInv' /\ RunsInv' /\ RunningInv'
    BY <1>0, StreamsKept DEF AnnounceCopy, gpu
  <1>2. BuffersInv'
    <2>1. UNCHANGED <<pinned, device, sums, block, pass>> /\ Top' = Top /\ next \in Block
          /\ UNCHANGED event /\ next' = next + 1 /\ event[<<"h2d", next>>] # "new"
          /\ \A b \in Block : b > next' => event[<<"h2d", b>>] = "new"
      BY <1>0, <1>1, BuffersTypes, Streaming DEF Goto, StorageReady, AnnounceCopy, Top, buffers,
         gpu, MainInv, CountInv, TopInv, Block, BuffersInv
    <2>2. QED BY <1>0, <1>1, <2>1, EventBuffers
  <1>3. MainInv'
    <2>0. TopInv /\ CountInv /\ FillInv
      BY <1>0 DEF MainInv
    <2>1. TopInv'
      <3>1. next + 1 < Blocks => event[<<"h2d", next + 1>>] = "new"
        <4>1. next + 1 < Blocks => next + 1 \in Block /\ next + 1 > next
          BY <1>0, Streaming DEF Block
        <4>2. QED BY <1>0, <4>1 DEF BuffersInv
      <3>2. pc = "three.announce" /\ next' = next + 1 /\ event' = event /\ outcome' = outcome
            /\ pc' \in {"three.storage", "three.compute"}
        BY DEF AnnounceCopy, gpu
      <3>3. Top' = Top
        BY <3>2 DEF Top
      <3>4. QED BY <1>1, <2>0, <3>1, <3>2, <3>3 DEF TopInv
    <2>2. CountInv'
      BY <1>0, <1>1, <2>0, Streaming DEF CountInv, Goto, StorageReady, AnnounceCopy, Top, Filling,
         buffers, gpu, BuffersInv
    <2>3. FillInv'
      BY <1>0, <1>1, <2>0, BuffersTypes, Streaming DEF FillInv, Goto, StorageReady, AnnounceCopy,
         Top, Filling, buffers, gpu, BuffersInv
    <2>4. QED BY <2>1, <2>2, <2>3 DEF MainInv
  <1>4. Variant = "three_stage" => WorkerInv'
    BY <1>0, <1>1, Streaming DEF StorageReady, AnnounceCopy, WorkerInv, WorkerEnded, ofWorker,
       buffers, Variant, gpu
  <1>5. QED BY <1>1, <1>2, <1>3, <1>4 DEF PipeInv

\* run_three_stage enqueues a sum.
LEMMA EnqueueComputeStep ==
    ASSUME PipeState, EnqueueCompute, UNCHANGED <<pass, outcome, at>>
    PROVE  /\ PipeInv' /\ RunningInv'
           /\ Variant = "three_stage" => WorkerInv'
  <1>0. /\ TypeOK /\ PlaceInv /\ RunningInv /\ StreamsInv /\ RunsInv /\ BuffersInv /\ MainInv
        /\ Variant = "three_stage" => WorkerInv
        /\ Copies \subseteq Block /\ Sums \subseteq Block
    BY CopiesOfBlocks DEF PipeState, PipeInv
  <1>1. /\ Copies' = Copies /\ Sums' = Sums \cup {block} /\ StreamsInv' /\ RunsInv' /\ RunningInv'
        /\ event' = [event EXCEPT ![<<"compute", block>>] = "recorded"]
    BY <1>0, SumStreams, RunsKept DEF EnqueueCompute
  <1>2. BuffersInv'
    <2>1. UNCHANGED <<pinned, device, sums, next, pass>> /\ block' = block + 1 /\ Top' = Top
          /\ block \in Block /\ block < next
      BY <1>0, <1>1, BuffersTypes, Streaming DEF Goto, StorageReady, EnqueueCompute, Top, buffers,
         MainInv, CountInv, Block
    <2>2. QED BY <1>0, <1>1, <2>1, SumBuffers
  <1>3. MainInv'
    <2>0. TopInv /\ CountInv /\ FillInv
      BY <1>0 DEF MainInv
    <2>1. TopInv'
      BY <1>0, <1>1, <2>0, OneEvent, Streaming DEF TopInv, CountInv, Goto, StorageReady,
         EnqueueCompute, Top, Filling, buffers
    <2>2. CountInv'
      BY <1>0, <1>1, <2>0, Streaming DEF CountInv, Goto, StorageReady, EnqueueCompute, Top,
         Filling, buffers
    <2>3. FillInv'
      BY <1>0, <1>1, <2>0, BuffersTypes, Streaming DEF FillInv, Goto, StorageReady,
         EnqueueCompute, Top, Filling, buffers
    <2>4. QED BY <2>1, <2>2, <2>3 DEF MainInv
  <1>4. Variant = "three_stage" => WorkerInv'
    BY <1>0, <1>1, Streaming DEF StorageReady, EnqueueCompute, WorkerInv, WorkerEnded, threads,
       buffers, Variant
  <1>5. QED BY <1>1, <1>2, <1>3, <1>4 DEF PipeInv

\* An event that completes was recorded, and none becomes new.
LEMMA ControlEvents ==
    ASSUME TypeOK,
           \/ event' = event
           \/ \E k \in {"h2d", "compute"}, b \in Block :
                /\ event[<<k, b>>] # "new"
                /\ event' = [event EXCEPT ![<<k, b>>] = "complete"]
    PROVE  \A k \in {"h2d", "compute"}, b \in Block :
               /\ event'[<<k, b>>] = "new" <=> event[<<k, b>>] = "new"
               /\ event[<<k, b>>] = "complete" => event'[<<k, b>>] = "complete"
  <1>1. ASSUME NEW k \in {"h2d", "compute"}, NEW b \in Block, event[<<k, b>>] # "new",
               event' = [event EXCEPT ![<<k, b>>] = "complete"]
        PROVE  \A j \in {"h2d", "compute"}, c \in Block :
                  /\ event'[<<j, c>>] = "new" <=> event[<<j, c>>] = "new"
                  /\ event[<<j, c>>] = "complete" => event'[<<j, c>>] = "complete"
    <2>1. \A j \in {"h2d", "compute"}, c \in Block :
             event'[<<j, c>>] = IF j = k /\ c = b THEN "complete" ELSE event[<<j, c>>]
      BY <1>1, OneEvent, Streaming
    <2>2. QED BY <1>1, <2>1
  <1>2. QED BY <1>1

\* The slot the worker fills is read by no enqueued copy, and the block that was in it
\* was copied.
LEMMA RingEmpty ==
    ASSUME PipeState, Variant = "three_stage", worker \in {"read", "stage"}
    PROVE  /\ wblock \in Block /\ (wblock >= 3 => wblock - 3 < next)
           /\ \A b \in Copies : b % Ring # wblock % 3
  <1>1. Ring = 3 /\ wblock \in Nat /\ wblock < Blocks /\ WorkerInv /\ StreamsInv /\ TypeOK
    BY Streaming DEF PipeState, PipeInv, WorkerInv, WorkerEnded, Ring, TypeOK, ThreadsTypeOK
  <1>2. wblock \in Block /\ (wblock >= 3 => wblock - 3 \in Block)
    BY <1>1, Streaming DEF Block
  <1>3. wblock >= 3 => wblock - 3 < next /\ \A b \in Copies : b > wblock - 3
    BY <1>1, <1>2, CopiesOfBlocks DEF WorkerInv
  <1>4. \A b \in Copies : b \in Nat /\ b < wblock
    BY <1>1, CopiesOfBlocks, Streaming DEF WorkerInv
  <1>5. \A b \in Copies : b % 3 # wblock % 3
    BY <1>1, <1>3, <1>4, Mod3
  <1>6. QED BY <1>1, <1>2, <1>3, <1>5

\* A read of the main thread raises.
LEMMA ReadFailsStep ==
    ASSUME PipeState, ReadFails, UNCHANGED <<pass>>
    PROVE  /\ PipeInv' /\ RunningInv'
           /\ Variant = "three_stage" => WorkerInv'
  <1>0. /\ TypeOK /\ PlaceInv /\ RunningInv /\ StreamsInv /\ RunsInv /\ BuffersInv /\ MainInv
        /\ Variant = "three_stage" => WorkerInv
        /\ Copies \subseteq Block /\ Sums \subseteq Block
        /\ TopInv /\ CountInv /\ FillInv
    BY CopiesOfBlocks DEF PipeState, PipeInv, MainInv
  <1>1. /\ Copies' = Copies /\ Sums' = Sums /\ StreamsInv' /\ RunsInv' /\ RunningInv'
    BY <1>0, StreamsKept DEF ReadFails, gpu, main, buffers, ofMain, threads, Unwind, Joins,
       Synchronized, StorageReady, StageStart, StageFinish, PlaceInv, DoubleLabels, SyncLabels,
             ThreeLabels, LastLabels
  <1>2. BuffersInv'
    <2>1. UNCHANGED <<pinned, device, sums, event, block, next, pass>> /\ Top' <= Top
          /\ Top' \in Nat
      BY <1>0, BuffersTypes, Streaming DEF ReadFails, gpu, main, buffers, ofMain, threads, Unwind,
         Joins, Synchronized, StorageReady, StageStart, StageFinish, PlaceInv, DoubleLabels,
               SyncLabels, ThreeLabels, LastLabels, Top
    <2>2. QED BY <1>0, <1>1, <2>1, QuietBuffers
  <1>3. MainInv'
    <2>1. TopInv'
      BY <1>0, <1>1, Streaming DEF TopInv, CountInv, ReadFails, gpu, main, buffers, ofMain,
         threads, Unwind, Joins, Synchronized, StorageReady, StageStart, StageFinish, PlaceInv,
               DoubleLabels, SyncLabels, ThreeLabels, LastLabels, Top
    <2>2. CountInv'
      BY <1>0, <1>1, Streaming DEF CountInv, ReadFails, gpu, main, buffers, ofMain, threads,
         Unwind, Joins, Synchronized, StorageReady, StageStart, StageFinish, PlaceInv,
               DoubleLabels, SyncLabels, ThreeLabels, LastLabels, Filling
    <2>3. FillInv'
      BY <1>0, <1>1, Streaming DEF FillInv, ReadFails, gpu, main, buffers, ofMain, threads,
         Unwind, Joins, Synchronized, StorageReady, StageStart, StageFinish, PlaceInv,
               DoubleLabels, SyncLabels, ThreeLabels, LastLabels, Filling, CountInv
    <2>4. QED BY <2>1, <2>2, <2>3 DEF MainInv
  <1>4. Variant = "three_stage" => WorkerInv'
    BY <1>0, <1>1, Streaming DEF WorkerInv, ReadFails, gpu, main, buffers, ofMain, threads,
       Unwind, Joins, Synchronized, StorageReady, StageStart, StageFinish, PlaceInv,
             DoubleLabels, SyncLabels, ThreeLabels, LastLabels, WorkerEnded, Variant, TypeOK,
                   ThreadsTypeOK
  <1>5. QED BY <1>1, <1>2, <1>3, <1>4 DEF PipeInv

\* The worker's error is raised in the main thread.
LEMMA StorageFailsStep ==
    ASSUME PipeState, StorageFails, UNCHANGED <<pass>>
    PROVE  /\ PipeInv' /\ RunningInv'
           /\ Variant = "three_stage" => WorkerInv'
  <1>0. /\ TypeOK /\ PlaceInv /\ RunningInv /\ StreamsInv /\ RunsInv /\ BuffersInv /\ MainInv
        /\ Variant = "three_stage" => WorkerInv
        /\ Copies \subseteq Block /\ Sums \subseteq Block
        /\ TopInv /\ CountInv /\ FillInv
    BY CopiesOfBlocks DEF PipeState, PipeInv, MainInv
  <1>1. /\ Copies' = Copies /\ Sums' = Sums /\ StreamsInv' /\ RunsInv' /\ RunningInv'
    BY <1>0, StreamsKept DEF StorageFails, gpu, main, buffers, ofMain, threads, Unwind, Joins,
       Synchronized, StorageReady, StageStart, StageFinish, PlaceInv, DoubleLabels, SyncLabels,
             ThreeLabels, LastLabels
  <1>2. BuffersInv'
    <2>1. UNCHANGED <<pinned, device, sums, event, block, next, pass>> /\ Top' <= Top
          /\ Top' \in Nat
      BY <1>0, BuffersTypes, Streaming DEF StorageFails, gpu, main, buffers, ofMain, threads,
         Unwind, Joins, Synchronized, StorageReady, StageStart, StageFinish, PlaceInv,
               DoubleLabels, SyncLabels, ThreeLabels, LastLabels, Top
    <2>2. QED BY <1>0, <1>1, <2>1, QuietBuffers
  <1>3. MainInv'
    <2>1. TopInv'
      BY <1>0, <1>1, Streaming DEF TopInv, CountInv, StorageFails, gpu, main, buffers, ofMain,
         threads, Unwind, Joins, Synchronized, StorageReady, StageStart, StageFinish, PlaceInv,
               DoubleLabels, SyncLabels, ThreeLabels, LastLabels, Top
    <2>2. CountInv'
      BY <1>0, <1>1, Streaming DEF CountInv, StorageFails, gpu, main, buffers, ofMain, threads,
         Unwind, Joins, Synchronized, StorageReady, StageStart, StageFinish, PlaceInv,
               DoubleLabels, SyncLabels, ThreeLabels, LastLabels, Filling
    <2>3. FillInv'
      BY <1>0, <1>1, Streaming DEF FillInv, StorageFails, gpu, main, buffers, ofMain, threads,
         Unwind, Joins, Synchronized, StorageReady, StageStart, StageFinish, PlaceInv,
               DoubleLabels, SyncLabels, ThreeLabels, LastLabels, Filling, CountInv
    <2>4. QED BY <2>1, <2>2, <2>3 DEF MainInv
  <1>4. Variant = "three_stage" => WorkerInv'
    BY <1>0, <1>1, Streaming DEF WorkerInv, StorageFails, gpu, main, buffers, ofMain, threads,
       Unwind, Joins, Synchronized, StorageReady, StageStart, StageFinish, PlaceInv,
             DoubleLabels, SyncLabels, ThreeLabels, LastLabels, WorkerEnded, Variant, TypeOK,
                   ThreadsTypeOK
  <1>5. QED BY <1>1, <1>2, <1>3, <1>4 DEF PipeInv

\* Ctrl+C.
LEMMA InterruptStep ==
    ASSUME PipeState, Interrupt, UNCHANGED <<pass>>
    PROVE  /\ PipeInv' /\ RunningInv'
           /\ Variant = "three_stage" => WorkerInv'
  <1>0. /\ TypeOK /\ PlaceInv /\ RunningInv /\ StreamsInv /\ RunsInv /\ BuffersInv /\ MainInv
        /\ Variant = "three_stage" => WorkerInv
        /\ Copies \subseteq Block /\ Sums \subseteq Block
        /\ TopInv /\ CountInv /\ FillInv
    BY CopiesOfBlocks DEF PipeState, PipeInv, MainInv
  <1>1. /\ Copies' = Copies /\ Sums' = Sums /\ StreamsInv' /\ RunsInv' /\ RunningInv'
    BY <1>0, StreamsKept DEF Interrupt, gpu, main, buffers, ofMain, threads, Unwind, Joins,
       Synchronized, StorageReady, StageStart, StageFinish, PlaceInv, DoubleLabels, SyncLabels,
             ThreeLabels, LastLabels
  <1>2. BuffersInv'
    <2>1. UNCHANGED <<pinned, device, sums, event, block, next, pass>> /\ Top' <= Top
          /\ Top' \in Nat
      BY <1>0, BuffersTypes, Streaming DEF Interrupt, gpu, main, buffers, ofMain, threads, Unwind,
         Joins, Synchronized, StorageReady, StageStart, StageFinish, PlaceInv, DoubleLabels,
               SyncLabels, ThreeLabels, LastLabels, Top
    <2>2. QED BY <1>0, <1>1, <2>1, QuietBuffers
  <1>3. MainInv'
    <2>1. TopInv'
      BY <1>0, <1>1, Streaming DEF TopInv, CountInv, Interrupt, gpu, main, buffers, ofMain,
         threads, Unwind, Joins, Synchronized, StorageReady, StageStart, StageFinish, PlaceInv,
               DoubleLabels, SyncLabels, ThreeLabels, LastLabels, Top
    <2>2. CountInv'
      BY <1>0, <1>1, Streaming DEF CountInv, Interrupt, gpu, main, buffers, ofMain, threads,
         Unwind, Joins, Synchronized, StorageReady, StageStart, StageFinish, PlaceInv,
               DoubleLabels, SyncLabels, ThreeLabels, LastLabels, Filling
    <2>3. FillInv'
      BY <1>0, <1>1, Streaming DEF FillInv, Interrupt, gpu, main, buffers, ofMain, threads,
         Unwind, Joins, Synchronized, StorageReady, StageStart, StageFinish, PlaceInv,
               DoubleLabels, SyncLabels, ThreeLabels, LastLabels, Filling, CountInv
    <2>4. QED BY <2>1, <2>2, <2>3 DEF MainInv
  <1>4. Variant = "three_stage" => WorkerInv'
    BY <1>0, <1>1, Streaming DEF WorkerInv, Interrupt, gpu, main, buffers, ofMain, threads,
       Unwind, Joins, Synchronized, StorageReady, StageStart, StageFinish, PlaceInv,
             DoubleLabels, SyncLabels, ThreeLabels, LastLabels, WorkerEnded, Variant, TypeOK,
                   ThreadsTypeOK
  <1>5. QED BY <1>1, <1>2, <1>3, <1>4 DEF PipeInv

\* The finally clause has joined the worker.
LEMMA JoinWorkerStep ==
    ASSUME PipeState, JoinWorker, UNCHANGED <<pass>>
    PROVE  /\ PipeInv' /\ RunningInv'
           /\ Variant = "three_stage" => WorkerInv'
  <1>0. /\ TypeOK /\ PlaceInv /\ RunningInv /\ StreamsInv /\ RunsInv /\ BuffersInv /\ MainInv
        /\ Variant = "three_stage" => WorkerInv
        /\ Copies \subseteq Block /\ Sums \subseteq Block
        /\ TopInv /\ CountInv /\ FillInv
    BY CopiesOfBlocks DEF PipeState, PipeInv, MainInv
  <1>1. /\ Copies' = Copies /\ Sums' = Sums /\ StreamsInv' /\ RunsInv' /\ RunningInv'
    BY <1>0, StreamsKept DEF JoinWorker, gpu, main, buffers, ofMain, threads, Unwind, Joins,
       Synchronized, StorageReady, StageStart, StageFinish, PlaceInv, DoubleLabels, SyncLabels,
             ThreeLabels, LastLabels
  <1>2. BuffersInv'
    <2>1. UNCHANGED <<pinned, device, sums, event, block, next, pass>> /\ Top' <= Top
          /\ Top' \in Nat
      BY <1>0, BuffersTypes, Streaming DEF JoinWorker, gpu, main, buffers, ofMain, threads,
         Unwind, Joins, Synchronized, StorageReady, StageStart, StageFinish, PlaceInv,
               DoubleLabels, SyncLabels, ThreeLabels, LastLabels, Top
    <2>2. QED BY <1>0, <1>1, <2>1, QuietBuffers
  <1>3. MainInv'
    <2>1. TopInv'
      BY <1>0, <1>1, Streaming DEF TopInv, CountInv, JoinWorker, gpu, main, buffers, ofMain,
         threads, Unwind, Joins, Synchronized, StorageReady, StageStart, StageFinish, PlaceInv,
               DoubleLabels, SyncLabels, ThreeLabels, LastLabels, Top
    <2>2. CountInv'
      BY <1>0, <1>1, Streaming DEF CountInv, JoinWorker, gpu, main, buffers, ofMain, threads,
         Unwind, Joins, Synchronized, StorageReady, StageStart, StageFinish, PlaceInv,
               DoubleLabels, SyncLabels, ThreeLabels, LastLabels, Filling
    <2>3. FillInv'
      BY <1>0, <1>1, Streaming DEF FillInv, JoinWorker, gpu, main, buffers, ofMain, threads,
         Unwind, Joins, Synchronized, StorageReady, StageStart, StageFinish, PlaceInv,
               DoubleLabels, SyncLabels, ThreeLabels, LastLabels, Filling, CountInv
    <2>4. QED BY <2>1, <2>2, <2>3 DEF MainInv
  <1>4. Variant = "three_stage" => WorkerInv'
    BY <1>0, <1>1, Streaming DEF WorkerInv, JoinWorker, gpu, main, buffers, ofMain, threads,
       Unwind, Joins, Synchronized, StorageReady, StageStart, StageFinish, PlaceInv,
             DoubleLabels, SyncLabels, ThreeLabels, LastLabels, WorkerEnded, Variant, TypeOK,
                   ThreadsTypeOK
  <1>5. QED BY <1>1, <1>2, <1>3, <1>4 DEF PipeInv

\* The device is idle and the pass is verified.
LEMMA SynchronizeStep ==
    ASSUME PipeState, Synchronize, UNCHANGED <<pass>>
    PROVE  /\ PipeInv' /\ RunningInv'
           /\ Variant = "three_stage" => WorkerInv'
  <1>0. /\ TypeOK /\ PlaceInv /\ RunningInv /\ StreamsInv /\ RunsInv /\ BuffersInv /\ MainInv
        /\ Variant = "three_stage" => WorkerInv
        /\ Copies \subseteq Block /\ Sums \subseteq Block
        /\ TopInv /\ CountInv /\ FillInv
    BY CopiesOfBlocks DEF PipeState, PipeInv, MainInv
  <1>1. /\ Copies' = Copies /\ Sums' = Sums /\ StreamsInv' /\ RunsInv' /\ RunningInv'
    BY <1>0, StreamsKept DEF Synchronize, gpu, main, buffers, ofMain, threads, Unwind, Joins,
       Synchronized, StorageReady, StageStart, StageFinish, PlaceInv, DoubleLabels, SyncLabels,
             ThreeLabels, LastLabels
  <1>2. BuffersInv'
    <2>1. UNCHANGED <<pinned, device, sums, event, block, next, pass>> /\ Top' <= Top
          /\ Top' \in Nat
      BY <1>0, BuffersTypes, Streaming DEF Synchronize, gpu, main, buffers, ofMain, threads,
         Unwind, Joins, Synchronized, StorageReady, StageStart, StageFinish, PlaceInv,
               DoubleLabels, SyncLabels, ThreeLabels, LastLabels, Top
    <2>2. QED BY <1>0, <1>1, <2>1, QuietBuffers
  <1>3. MainInv'
    <2>1. TopInv'
      BY <1>0, <1>1, Streaming DEF TopInv, CountInv, Synchronize, gpu, main, buffers, ofMain,
         threads, Unwind, Joins, Synchronized, StorageReady, StageStart, StageFinish, PlaceInv,
               DoubleLabels, SyncLabels, ThreeLabels, LastLabels, Top
    <2>2. CountInv'
      BY <1>0, <1>1, Streaming DEF CountInv, Synchronize, gpu, main, buffers, ofMain, threads,
         Unwind, Joins, Synchronized, StorageReady, StageStart, StageFinish, PlaceInv,
               DoubleLabels, SyncLabels, ThreeLabels, LastLabels, Filling
    <2>3. FillInv'
      BY <1>0, <1>1, Streaming DEF FillInv, Synchronize, gpu, main, buffers, ofMain, threads,
         Unwind, Joins, Synchronized, StorageReady, StageStart, StageFinish, PlaceInv,
               DoubleLabels, SyncLabels, ThreeLabels, LastLabels, Filling, CountInv
    <2>4. QED BY <2>1, <2>2, <2>3 DEF MainInv
  <1>4. Variant = "three_stage" => WorkerInv'
    BY <1>0, <1>1, Streaming DEF WorkerInv, Synchronize, gpu, main, buffers, ofMain, threads,
       Unwind, Joins, Synchronized, StorageReady, StageStart, StageFinish, PlaceInv,
             DoubleLabels, SyncLabels, ThreeLabels, LastLabels, WorkerEnded, Variant, TypeOK,
                   ThreadsTypeOK
  <1>5. QED BY <1>1, <1>2, <1>3, <1>4 DEF PipeInv

\* The last pass was verified.
LEMMA LastPassStep ==
    ASSUME PipeState, LastPass, UNCHANGED <<pass>>
    PROVE  /\ PipeInv' /\ RunningInv'
           /\ Variant = "three_stage" => WorkerInv'
  <1>0. /\ TypeOK /\ PlaceInv /\ RunningInv /\ StreamsInv /\ RunsInv /\ BuffersInv /\ MainInv
        /\ Variant = "three_stage" => WorkerInv
        /\ Copies \subseteq Block /\ Sums \subseteq Block
        /\ TopInv /\ CountInv /\ FillInv
    BY CopiesOfBlocks DEF PipeState, PipeInv, MainInv
  <1>1. /\ Copies' = Copies /\ Sums' = Sums /\ StreamsInv' /\ RunsInv' /\ RunningInv'
    BY <1>0, StreamsKept DEF LastPass, gpu, main, buffers, ofMain, threads, Unwind, Joins,
       Synchronized, StorageReady, StageStart, StageFinish, PlaceInv, DoubleLabels, SyncLabels,
             ThreeLabels, LastLabels
  <1>2. BuffersInv'
    <2>1. UNCHANGED <<pinned, device, sums, event, block, next, pass>> /\ Top' <= Top
          /\ Top' \in Nat
      BY <1>0, BuffersTypes, Streaming DEF LastPass, gpu, main, buffers, ofMain, threads, Unwind,
         Joins, Synchronized, StorageReady, StageStart, StageFinish, PlaceInv, DoubleLabels,
               SyncLabels, ThreeLabels, LastLabels, Top
    <2>2. QED BY <1>0, <1>1, <2>1, QuietBuffers
  <1>3. MainInv'
    <2>1. TopInv'
      BY <1>0, <1>1, Streaming DEF TopInv, CountInv, LastPass, gpu, main, buffers, ofMain,
         threads, Unwind, Joins, Synchronized, StorageReady, StageStart, StageFinish, PlaceInv,
               DoubleLabels, SyncLabels, ThreeLabels, LastLabels, Top
    <2>2. CountInv'
      BY <1>0, <1>1, Streaming DEF CountInv, LastPass, gpu, main, buffers, ofMain, threads,
         Unwind, Joins, Synchronized, StorageReady, StageStart, StageFinish, PlaceInv,
               DoubleLabels, SyncLabels, ThreeLabels, LastLabels, Filling
    <2>3. FillInv'
      BY <1>0, <1>1, Streaming DEF FillInv, LastPass, gpu, main, buffers, ofMain, threads, Unwind,
         Joins, Synchronized, StorageReady, StageStart, StageFinish, PlaceInv, DoubleLabels,
               SyncLabels, ThreeLabels, LastLabels, Filling, CountInv
    <2>4. QED BY <2>1, <2>2, <2>3 DEF MainInv
  <1>4. Variant = "three_stage" => WorkerInv'
    BY <1>0, <1>1, Streaming DEF WorkerInv, LastPass, gpu, main, buffers, ofMain, threads, Unwind,
       Joins, Synchronized, StorageReady, StageStart, StageFinish, PlaceInv, DoubleLabels,
             SyncLabels, ThreeLabels, LastLabels, WorkerEnded, Variant, TypeOK, ThreadsTypeOK
  <1>5. QED BY <1>1, <1>2, <1>3, <1>4 DEF PipeInv

\* The reader is closed.
LEMMA CloseReaderStep ==
    ASSUME PipeState, CloseReader, UNCHANGED <<pass>>
    PROVE  /\ PipeInv' /\ RunningInv'
           /\ Variant = "three_stage" => WorkerInv'
  <1>0. /\ TypeOK /\ PlaceInv /\ RunningInv /\ StreamsInv /\ RunsInv /\ BuffersInv /\ MainInv
        /\ Variant = "three_stage" => WorkerInv
        /\ Copies \subseteq Block /\ Sums \subseteq Block
        /\ TopInv /\ CountInv /\ FillInv
    BY CopiesOfBlocks DEF PipeState, PipeInv, MainInv
  <1>1. /\ Copies' = Copies /\ Sums' = Sums /\ StreamsInv' /\ RunsInv' /\ RunningInv'
    BY <1>0, StreamsKept DEF CloseReader, gpu, main, buffers, ofMain, threads, Unwind, Joins,
       Synchronized, StorageReady, StageStart, StageFinish, PlaceInv, DoubleLabels, SyncLabels,
             ThreeLabels, LastLabels
  <1>2. BuffersInv'
    <2>1. UNCHANGED <<pinned, device, sums, event, block, next, pass>> /\ Top' <= Top
          /\ Top' \in Nat
      BY <1>0, BuffersTypes, Streaming DEF CloseReader, gpu, main, buffers, ofMain, threads,
         Unwind, Joins, Synchronized, StorageReady, StageStart, StageFinish, PlaceInv,
               DoubleLabels, SyncLabels, ThreeLabels, LastLabels, Top
    <2>2. QED BY <1>0, <1>1, <2>1, QuietBuffers
  <1>3. MainInv'
    <2>1. TopInv'
      BY <1>0, <1>1, Streaming DEF TopInv, CountInv, CloseReader, gpu, main, buffers, ofMain,
         threads, Unwind, Joins, Synchronized, StorageReady, StageStart, StageFinish, PlaceInv,
               DoubleLabels, SyncLabels, ThreeLabels, LastLabels, Top
    <2>2. CountInv'
      BY <1>0, <1>1, Streaming DEF CountInv, CloseReader, gpu, main, buffers, ofMain, threads,
         Unwind, Joins, Synchronized, StorageReady, StageStart, StageFinish, PlaceInv,
               DoubleLabels, SyncLabels, ThreeLabels, LastLabels, Filling
    <2>3. FillInv'
      BY <1>0, <1>1, Streaming DEF FillInv, CloseReader, gpu, main, buffers, ofMain, threads,
         Unwind, Joins, Synchronized, StorageReady, StageStart, StageFinish, PlaceInv,
               DoubleLabels, SyncLabels, ThreeLabels, LastLabels, Filling, CountInv
    <2>4. QED BY <2>1, <2>2, <2>3 DEF MainInv
  <1>4. Variant = "three_stage" => WorkerInv'
    BY <1>0, <1>1, Streaming DEF WorkerInv, CloseReader, gpu, main, buffers, ofMain, threads,
       Unwind, Joins, Synchronized, StorageReady, StageStart, StageFinish, PlaceInv,
             DoubleLabels, SyncLabels, ThreeLabels, LastLabels, WorkerEnded, Variant, TypeOK,
                   ThreadsTypeOK
  <1>5. QED BY <1>1, <1>2, <1>3, <1>4 DEF PipeInv

\* The interpreter exits.
LEMMA ExitStep ==
    ASSUME PipeState, Exit, UNCHANGED <<pass>>
    PROVE  /\ PipeInv' /\ RunningInv'
           /\ Variant = "three_stage" => WorkerInv'
  <1>0. /\ TypeOK /\ PlaceInv /\ RunningInv /\ StreamsInv /\ RunsInv /\ BuffersInv /\ MainInv
        /\ Variant = "three_stage" => WorkerInv
        /\ Copies \subseteq Block /\ Sums \subseteq Block
        /\ TopInv /\ CountInv /\ FillInv
    BY CopiesOfBlocks DEF PipeState, PipeInv, MainInv
  <1>1. /\ Copies' = Copies /\ Sums' = Sums /\ StreamsInv' /\ RunsInv' /\ RunningInv'
    BY <1>0, StreamsKept DEF Exit, gpu, main, buffers, ofMain, threads, Unwind, Joins,
       Synchronized, StorageReady, StageStart, StageFinish, PlaceInv, DoubleLabels, SyncLabels,
             ThreeLabels, LastLabels
  <1>2. BuffersInv'
    <2>1. UNCHANGED <<pinned, device, sums, event, block, next, pass>> /\ Top' <= Top
          /\ Top' \in Nat
      BY <1>0, BuffersTypes, Streaming DEF Exit, gpu, main, buffers, ofMain, threads, Unwind,
         Joins, Synchronized, StorageReady, StageStart, StageFinish, PlaceInv, DoubleLabels,
               SyncLabels, ThreeLabels, LastLabels, Top
    <2>2. QED BY <1>0, <1>1, <2>1, QuietBuffers
  <1>3. MainInv'
    <2>1. TopInv'
      BY <1>0, <1>1, Streaming DEF TopInv, CountInv, Exit, gpu, main, buffers, ofMain, threads,
         Unwind, Joins, Synchronized, StorageReady, StageStart, StageFinish, PlaceInv,
               DoubleLabels, SyncLabels, ThreeLabels, LastLabels, Top
    <2>2. CountInv'
      BY <1>0, <1>1, Streaming DEF CountInv, Exit, gpu, main, buffers, ofMain, threads, Unwind,
         Joins, Synchronized, StorageReady, StageStart, StageFinish, PlaceInv, DoubleLabels,
               SyncLabels, ThreeLabels, LastLabels, Filling
    <2>3. FillInv'
      BY <1>0, <1>1, Streaming DEF FillInv, Exit, gpu, main, buffers, ofMain, threads, Unwind,
         Joins, Synchronized, StorageReady, StageStart, StageFinish, PlaceInv, DoubleLabels,
               SyncLabels, ThreeLabels, LastLabels, Filling, CountInv
    <2>4. QED BY <2>1, <2>2, <2>3 DEF MainInv
  <1>4. Variant = "three_stage" => WorkerInv'
    BY <1>0, <1>1, Streaming DEF WorkerInv, Exit, gpu, main, buffers, ofMain, threads, Unwind,
       Joins, Synchronized, StorageReady, StageStart, StageFinish, PlaceInv, DoubleLabels,
             SyncLabels, ThreeLabels, LastLabels, WorkerEnded, Variant, TypeOK, ThreadsTypeOK
  <1>5. QED BY <1>1, <1>2, <1>3, <1>4 DEF PipeInv

\* The worker learns that the copy three blocks back is enqueued.
LEMMA WorkerWaitsStep ==
    ASSUME PipeState, WorkerWaits, UNCHANGED <<pass, outcome, at>>
    PROVE  /\ PipeInv' /\ RunningInv'
           /\ Variant = "three_stage" => WorkerInv'
  <1>0. /\ TypeOK /\ PlaceInv /\ RunningInv /\ StreamsInv /\ RunsInv /\ BuffersInv /\ MainInv
        /\ Variant = "three_stage" => WorkerInv
        /\ Copies \subseteq Block /\ Sums \subseteq Block
        /\ TopInv /\ CountInv /\ FillInv
    BY CopiesOfBlocks DEF PipeState, PipeInv, MainInv
  <1>1. /\ Copies' = Copies /\ Sums' = Sums /\ StreamsInv' /\ RunsInv' /\ RunningInv'
    BY <1>0, StreamsKept DEF WorkerWaits, gpu, main, buffers, ofMain, threads, Unwind, Joins,
       Synchronized, StorageReady, StageStart, StageFinish
  <1>2. BuffersInv'
    <2>1. UNCHANGED <<pinned, device, sums, event, block, next, pass>> /\ Top' <= Top
          /\ Top' \in Nat
      BY <1>0, BuffersTypes, Streaming DEF WorkerWaits, gpu, main, buffers, ofMain, threads,
         Unwind, Joins, Synchronized, StorageReady, StageStart, StageFinish, Top
    <2>2. QED BY <1>0, <1>1, <2>1, QuietBuffers
  <1>3. MainInv'
    <2>1. TopInv'
      BY <1>0, <1>1, Streaming DEF TopInv, CountInv, WorkerWaits, gpu, main, buffers, ofMain,
         threads, Unwind, Joins, Synchronized, StorageReady, StageStart, StageFinish, Top
    <2>2. CountInv'
      BY <1>0, <1>1, Streaming DEF CountInv, WorkerWaits, gpu, main, buffers, ofMain, threads,
         Unwind, Joins, Synchronized, StorageReady, StageStart, StageFinish, Filling
    <2>3. FillInv'
      BY <1>0, <1>1, Streaming DEF FillInv, WorkerWaits, gpu, main, buffers, ofMain, threads,
         Unwind, Joins, Synchronized, StorageReady, StageStart, StageFinish, Filling, CountInv
    <2>4. QED BY <2>1, <2>2, <2>3 DEF MainInv
  <1>4. Variant = "three_stage" => WorkerInv'
    BY <1>0, <1>1, Streaming DEF WorkerInv, WorkerWaits, gpu, main, buffers, ofMain, threads,
       Unwind, Joins, Synchronized, StorageReady, StageStart, StageFinish, WorkerEnded,
             Variant, TypeOK, ThreadsTypeOK
  <1>5. QED BY <1>1, <1>2, <1>3, <1>4 DEF PipeInv

\* The worker learns that the copy three blocks back is complete.
LEMMA WorkerSynchronizesStep ==
    ASSUME PipeState, WorkerSynchronizes, UNCHANGED <<pass, outcome, at>>
    PROVE  /\ PipeInv' /\ RunningInv'
           /\ Variant = "three_stage" => WorkerInv'
  <1>0. /\ TypeOK /\ PlaceInv /\ RunningInv /\ StreamsInv /\ RunsInv /\ BuffersInv /\ MainInv
        /\ Variant = "three_stage" => WorkerInv
        /\ Copies \subseteq Block /\ Sums \subseteq Block
        /\ TopInv /\ CountInv /\ FillInv
    BY CopiesOfBlocks DEF PipeState, PipeInv, MainInv
  <1>1. /\ Copies' = Copies /\ Sums' = Sums /\ StreamsInv' /\ RunsInv' /\ RunningInv'
    BY <1>0, StreamsKept DEF WorkerSynchronizes, gpu, main, buffers, ofMain, threads, Unwind,
       Joins, Synchronized, StorageReady, StageStart, StageFinish
  <1>2. BuffersInv'
    <2>1. UNCHANGED <<pinned, device, sums, event, block, next, pass>> /\ Top' <= Top
          /\ Top' \in Nat
      BY <1>0, BuffersTypes, Streaming DEF WorkerSynchronizes, gpu, main, buffers, ofMain,
         threads, Unwind, Joins, Synchronized, StorageReady, StageStart, StageFinish, Top
    <2>2. QED BY <1>0, <1>1, <2>1, QuietBuffers
  <1>3. MainInv'
    <2>1. TopInv'
      BY <1>0, <1>1, Streaming DEF TopInv, CountInv, WorkerSynchronizes, gpu, main, buffers,
         ofMain, threads, Unwind, Joins, Synchronized, StorageReady, StageStart, StageFinish, Top
    <2>2. CountInv'
      BY <1>0, <1>1, Streaming DEF CountInv, WorkerSynchronizes, gpu, main, buffers, ofMain,
         threads, Unwind, Joins, Synchronized, StorageReady, StageStart, StageFinish, Filling
    <2>3. FillInv'
      BY <1>0, <1>1, Streaming DEF FillInv, WorkerSynchronizes, gpu, main, buffers, ofMain,
         threads, Unwind, Joins, Synchronized, StorageReady, StageStart, StageFinish, Filling,
               CountInv
    <2>4. QED BY <2>1, <2>2, <2>3 DEF MainInv
  <1>4. Variant = "three_stage" => WorkerInv'
    <2> SUFFICES ASSUME Variant = "three_stage" PROVE WorkerInv'
      OBVIOUS
    <2>1. /\ worker = "sync" /\ worker' = "read"
          /\ (wblock >= 3 => event[<<"h2d", wblock - 3>>] # "recorded")
          /\ UNCHANGED <<wblock, storage_done, worker_errors, ofMain, buffers, gpu>>
      BY DEF WorkerSynchronizes, Synchronized
    <2>2. wblock \in Nat /\ wblock < Blocks /\ WorkerInv
      BY <1>0, <2>1, Streaming DEF WorkerInv, WorkerEnded, TypeOK, ThreadsTypeOK
    <2>3. wblock >= 3 => wblock - 3 \in Block /\ wblock - 3 < next
      BY <1>0, <2>1, <2>2, Streaming DEF WorkerInv, Block
    <2>4. wblock >= 3 => event[<<"h2d", wblock - 3>>] \in {"new", "recorded", "complete"}
      BY <1>0, <2>3, Streaming
    <2>5. wblock >= 3 => event[<<"h2d", wblock - 3>>] = "complete"
      BY <1>0, <2>1, <2>3, <2>4 DEF BuffersInv
    <2>6. QED BY <1>1, <2>1, <2>2, <2>5 DEF WorkerInv, WorkerEnded, ofMain, main, buffers, gpu
  <1>5. QED BY <1>1, <1>2, <1>3, <1>4 DEF PipeInv

\* A read of the worker raises.
LEMMA WorkerFailsStep ==
    ASSUME PipeState, WorkerFails, UNCHANGED <<pass, outcome, at>>
    PROVE  /\ PipeInv' /\ RunningInv'
           /\ Variant = "three_stage" => WorkerInv'
  <1>0. /\ TypeOK /\ PlaceInv /\ RunningInv /\ StreamsInv /\ RunsInv /\ BuffersInv /\ MainInv
        /\ Variant = "three_stage" => WorkerInv
        /\ Copies \subseteq Block /\ Sums \subseteq Block
        /\ TopInv /\ CountInv /\ FillInv
    BY CopiesOfBlocks DEF PipeState, PipeInv, MainInv
  <1>1. /\ Copies' = Copies /\ Sums' = Sums /\ StreamsInv' /\ RunsInv' /\ RunningInv'
    BY <1>0, StreamsKept DEF WorkerFails, gpu, main, buffers, ofMain, threads, Unwind, Joins,
       Synchronized, StorageReady, StageStart, StageFinish
  <1>2. BuffersInv'
    <2>1. UNCHANGED <<pinned, device, sums, event, block, next, pass>> /\ Top' <= Top
          /\ Top' \in Nat
      BY <1>0, BuffersTypes, Streaming DEF WorkerFails, gpu, main, buffers, ofMain, threads,
         Unwind, Joins, Synchronized, StorageReady, StageStart, StageFinish, Top
    <2>2. QED BY <1>0, <1>1, <2>1, QuietBuffers
  <1>3. MainInv'
    <2>1. TopInv'
      BY <1>0, <1>1, Streaming DEF TopInv, CountInv, WorkerFails, gpu, main, buffers, ofMain,
         threads, Unwind, Joins, Synchronized, StorageReady, StageStart, StageFinish, Top
    <2>2. CountInv'
      BY <1>0, <1>1, Streaming DEF CountInv, WorkerFails, gpu, main, buffers, ofMain, threads,
         Unwind, Joins, Synchronized, StorageReady, StageStart, StageFinish, Filling
    <2>3. FillInv'
      BY <1>0, <1>1, Streaming DEF FillInv, WorkerFails, gpu, main, buffers, ofMain, threads,
         Unwind, Joins, Synchronized, StorageReady, StageStart, StageFinish, Filling, CountInv
    <2>4. QED BY <2>1, <2>2, <2>3 DEF MainInv
  <1>4. Variant = "three_stage" => WorkerInv'
    BY <1>0, <1>1, Streaming DEF WorkerInv, WorkerFails, gpu, main, buffers, ofMain, threads,
       Unwind, Joins, Synchronized, StorageReady, StageStart, StageFinish, WorkerEnded,
             Variant, TypeOK, ThreadsTypeOK
  <1>5. QED BY <1>1, <1>2, <1>3, <1>4 DEF PipeInv

\* The failed worker releases everyone who waits for it.
LEMMA WorkerReleasesStep ==
    ASSUME PipeState, WorkerReleases, UNCHANGED <<pass, outcome, at>>
    PROVE  /\ PipeInv' /\ RunningInv'
           /\ Variant = "three_stage" => WorkerInv'
  <1>0. /\ TypeOK /\ PlaceInv /\ RunningInv /\ StreamsInv /\ RunsInv /\ BuffersInv /\ MainInv
        /\ Variant = "three_stage" => WorkerInv
        /\ Copies \subseteq Block /\ Sums \subseteq Block
        /\ TopInv /\ CountInv /\ FillInv
    BY CopiesOfBlocks DEF PipeState, PipeInv, MainInv
  <1>1. /\ Copies' = Copies /\ Sums' = Sums /\ StreamsInv' /\ RunsInv' /\ RunningInv'
    BY <1>0, StreamsKept DEF WorkerReleases, gpu, main, buffers, ofMain, threads, Unwind, Joins,
       Synchronized, StorageReady, StageStart, StageFinish
  <1>2. BuffersInv'
    <2>1. UNCHANGED <<pinned, device, sums, event, block, next, pass>> /\ Top' <= Top
          /\ Top' \in Nat
      BY <1>0, BuffersTypes, Streaming DEF WorkerReleases, gpu, main, buffers, ofMain, threads,
         Unwind, Joins, Synchronized, StorageReady, StageStart, StageFinish, Top
    <2>2. QED BY <1>0, <1>1, <2>1, QuietBuffers
  <1>3. MainInv'
    <2>1. TopInv'
      BY <1>0, <1>1, Streaming DEF TopInv, CountInv, WorkerReleases, gpu, main, buffers, ofMain,
         threads, Unwind, Joins, Synchronized, StorageReady, StageStart, StageFinish, Top
    <2>2. CountInv'
      BY <1>0, <1>1, Streaming DEF CountInv, WorkerReleases, gpu, main, buffers, ofMain, threads,
         Unwind, Joins, Synchronized, StorageReady, StageStart, StageFinish, Filling
    <2>3. FillInv'
      BY <1>0, <1>1, Streaming DEF FillInv, WorkerReleases, gpu, main, buffers, ofMain, threads,
         Unwind, Joins, Synchronized, StorageReady, StageStart, StageFinish, Filling, CountInv
    <2>4. QED BY <2>1, <2>2, <2>3 DEF MainInv
  <1>4. Variant = "three_stage" => WorkerInv'
    BY <1>0, <1>1, Streaming DEF WorkerInv, WorkerReleases, gpu, main, buffers, ofMain, threads,
       Unwind, Joins, Synchronized, StorageReady, StageStart, StageFinish, WorkerEnded,
             Variant, TypeOK, ThreadsTypeOK
  <1>5. QED BY <1>1, <1>2, <1>3, <1>4 DEF PipeInv

\* The worker reads into a slot no enqueued copy reads.
LEMMA WorkerReadsStep ==
    ASSUME PipeState, WorkerReads, Variant = "three_stage", UNCHANGED <<pass, outcome, at>>
    PROVE  /\ PipeInv' /\ RunningInv'
           /\ Variant = "three_stage" => WorkerInv'
  <1>0. /\ TypeOK /\ PlaceInv /\ RunningInv /\ StreamsInv /\ RunsInv /\ BuffersInv /\ MainInv
        /\ Variant = "three_stage" => WorkerInv
        /\ Copies \subseteq Block /\ Sums \subseteq Block
        /\ TopInv /\ CountInv /\ FillInv
    BY CopiesOfBlocks DEF PipeState, PipeInv, MainInv
  <1>1. /\ Copies' = Copies /\ Sums' = Sums /\ StreamsInv' /\ RunsInv' /\ RunningInv'
    BY <1>0, StreamsKept DEF WorkerReads, gpu, main, buffers, ofMain, threads, Unwind, Joins,
       Synchronized, StorageReady, StageStart, StageFinish
  <1>2. BuffersInv'
    <2>1. /\ UNCHANGED <<device, sums, event, block, next, pass>> /\ Top' = Top
          /\ pinned' = [pinned EXCEPT ![wblock % 3] = Garbage]
      BY <1>0, BuffersTypes, Streaming DEF WorkerReads, gpu, main, buffers, ofMain, threads,
         Unwind, Joins, Synchronized, StorageReady, StageStart, StageFinish, Top
    <2>2. \A b \in Copies : b % Ring # wblock % 3
      BY <1>0, RingEmpty DEF WorkerReads, PipeState
    <2>3. QED BY <1>0, <1>1, <2>1, <2>2, FillBuffers
  <1>3. MainInv'
    <2>1. TopInv'
      BY <1>0, <1>1, Streaming DEF TopInv, CountInv, WorkerReads, gpu, main, buffers, ofMain,
         threads, Unwind, Joins, Synchronized, StorageReady, StageStart, StageFinish, Top
    <2>2. CountInv'
      BY <1>0, <1>1, Streaming DEF CountInv, WorkerReads, gpu, main, buffers, ofMain, threads,
         Unwind, Joins, Synchronized, StorageReady, StageStart, StageFinish, Filling
    <2>3. FillInv'
      BY <1>0, Streaming DEF FillInv, WorkerReads, ofMain, main, Filling, PlaceInv, DoubleLabels
    <2>4. QED BY <2>1, <2>2, <2>3 DEF MainInv
  <1>4. Variant = "three_stage" => WorkerInv'
    <2> SUFFICES ASSUME Variant = "three_stage" PROVE WorkerInv'
      OBVIOUS
    <2>1. /\ pinned' = [pinned EXCEPT ![wblock % 3] = Garbage]
          /\ UNCHANGED <<pc, block, next, h2d_enqueued, closed, event, worker_errors>>
          /\ pinned \in [0 .. 2 -> Data] /\ wblock % 3 \in 0 .. 2
          /\ wblock \in Block /\ wblock \in Nat /\ wblock < Blocks /\ WorkerInv
          /\ (wblock >= 3 => wblock - 3 < next)
      BY <1>0, RingEmpty, BuffersTypes, Streaming
         DEF WorkerReads, StageStart, StageFinish, ofMain, main, gpu, buffers, PipeState
    <2>2. \A b \in Block : next <= b /\ b < wblock => b % 3 # wblock % 3
      <3> SUFFICES ASSUME NEW b \in Block, next <= b, b < wblock, b % 3 = wblock % 3
                   PROVE  FALSE
        OBVIOUS
      <3>1. b \in Nat /\ next \in Nat
        BY <1>0, Streaming
      <3>2. b + 3 <= wblock
        BY <2>1, <3>1, Mod3
      <3>3. QED BY <2>1, <3>1, <3>2
    <2>3. ~closed => \A b \in Block : next <= b /\ b < wblock => pinned'[b % 3] = b
      BY <1>0, <2>1, <2>2, BuffersTypes, Streaming DEF WorkerInv
    <2>4. /\ worker = "read" /\ worker' = "stage" /\ offset' = offset + 1
          /\ UNCHANGED <<wblock, storage_done>>
      BY DEF WorkerReads, StageStart
    <2>5. QED BY <1>1, <2>1, <2>3, <2>4 DEF WorkerInv, WorkerEnded
  <1>5. QED BY <1>1, <1>2, <1>3, <1>4 DEF PipeInv

\* The worker has its block in its slot and announces it.
LEMMA WorkerStagesStep ==
    ASSUME PipeState, WorkerStages, Variant = "three_stage", UNCHANGED <<pass, outcome, at>>
    PROVE  /\ PipeInv' /\ RunningInv'
           /\ Variant = "three_stage" => WorkerInv'
  <1>0. /\ TypeOK /\ PlaceInv /\ RunningInv /\ StreamsInv /\ RunsInv /\ BuffersInv /\ MainInv
        /\ Variant = "three_stage" => WorkerInv
        /\ Copies \subseteq Block /\ Sums \subseteq Block
        /\ TopInv /\ CountInv /\ FillInv
    BY CopiesOfBlocks DEF PipeState, PipeInv, MainInv
  <1>1. /\ Copies' = Copies /\ Sums' = Sums /\ StreamsInv' /\ RunsInv' /\ RunningInv'
    BY <1>0, StreamsKept DEF WorkerStages, gpu, main, buffers, ofMain, threads, Unwind, Joins,
       Synchronized, StorageReady, StageStart, StageFinish
  <1>2. BuffersInv'
    <2>1. /\ UNCHANGED <<device, sums, event, block, next, pass>> /\ Top' = Top
          /\ pinned' = [pinned EXCEPT ![wblock % 3] = IF closed THEN Garbage ELSE offset - 1]
      BY <1>0, BuffersTypes, Streaming DEF WorkerStages, gpu, main, buffers, ofMain, threads,
         Unwind, Joins, Synchronized, StorageReady, StageStart, StageFinish, Top
    <2>2. \A b \in Copies : b % Ring # wblock % 3
      BY <1>0, RingEmpty DEF WorkerStages, PipeState
    <2>3. QED BY <1>0, <1>1, <2>1, <2>2, FillBuffers
  <1>3. MainInv'
    <2>1. TopInv'
      BY <1>0, <1>1, Streaming DEF TopInv, CountInv, WorkerStages, gpu, main, buffers, ofMain,
         threads, Unwind, Joins, Synchronized, StorageReady, StageStart, StageFinish, Top
    <2>2. CountInv'
      BY <1>0, <1>1, Streaming DEF CountInv, WorkerStages, gpu, main, buffers, ofMain, threads,
         Unwind, Joins, Synchronized, StorageReady, StageStart, StageFinish, Filling
    <2>3. FillInv'
      BY <1>0, Streaming DEF FillInv, WorkerStages, ofMain, main, Filling, PlaceInv, DoubleLabels
    <2>4. QED BY <2>1, <2>2, <2>3 DEF MainInv
  <1>4. Variant = "three_stage" => WorkerInv'
    <2> SUFFICES ASSUME Variant = "three_stage" PROVE WorkerInv'
      OBVIOUS
    <2>1. /\ pinned' = [pinned EXCEPT ![wblock % 3] = IF closed THEN Garbage ELSE offset - 1]
          /\ UNCHANGED <<pc, block, next, h2d_enqueued, closed, event, worker_errors>>
          /\ pinned \in [0 .. 2 -> Data] /\ wblock % 3 \in 0 .. 2
          /\ wblock \in Block /\ wblock \in Nat /\ wblock < Blocks /\ WorkerInv
          /\ (wblock >= 3 => wblock - 3 < next)
      BY <1>0, RingEmpty, BuffersTypes, Streaming
         DEF WorkerStages, StageStart, StageFinish, ofMain, main, gpu, buffers, PipeState
    <2>2. \A b \in Block : next <= b /\ b < wblock => b % 3 # wblock % 3
      <3> SUFFICES ASSUME NEW b \in Block, next <= b, b < wblock, b % 3 = wblock % 3
                   PROVE  FALSE
        OBVIOUS
      <3>1. b \in Nat /\ next \in Nat
        BY <1>0, Streaming
      <3>2. b + 3 <= wblock
        BY <2>1, <3>1, Mod3
      <3>3. QED BY <2>1, <3>1, <3>2
    <2>3. ~closed => \A b \in Block : next <= b /\ b < wblock => pinned'[b % 3] = b
      BY <1>0, <2>1, <2>2, BuffersTypes, Streaming DEF WorkerInv
    <2>4. /\ worker = "stage" /\ wblock' = wblock + 1 /\ offset' = offset
          /\ worker' = IF wblock + 1 < Blocks THEN "wait" ELSE "done"
          /\ storage_done' = [storage_done EXCEPT ![wblock] = TRUE]
          /\ storage_done \in [Block -> BOOLEAN]
      BY <1>0 DEF WorkerStages, StageFinish, TypeOK, ThreadsTypeOK
    <2>5. offset = wblock + 1
      BY <2>1, <2>4 DEF WorkerInv
    <2>6. ~closed => pinned'[wblock % 3] = wblock
      BY <2>1, <2>5
    <2>7. ~closed => \A b \in Block : next <= b /\ b < wblock + 1 => pinned'[b % 3] = b
      BY <1>0, <2>1, <2>3, <2>6, Streaming
    <2>8. \A b \in Block : storage_done'[b] => b < wblock + 1 \/ worker_errors
      BY <1>0, <2>1, <2>4, Streaming DEF WorkerInv
    <2>9. QED BY <1>0, <1>1, <2>1, <2>4, <2>5, <2>7, <2>8, Streaming DEF WorkerInv, WorkerEnded
  <1>5. QED BY <1>1, <1>2, <1>3, <1>4 DEF PipeInv

\* A copy starts.
LEMMA CopyStartStep ==
    ASSUME PipeState, OpStarts("copy"), UNCHANGED <<threads, pass, outcome, at>>
    PROVE  /\ PipeInv' /\ RunningInv'
           /\ Variant = "three_stage" => WorkerInv'
  <1>0. /\ TypeOK /\ PlaceInv /\ RunningInv /\ StreamsInv /\ RunsInv /\ BuffersInv /\ MainInv
        /\ Variant = "three_stage" => WorkerInv
        /\ Copies \subseteq Block /\ Sums \subseteq Block
        /\ TopInv /\ CountInv /\ FillInv
    BY CopiesOfBlocks DEF PipeState, PipeInv, MainInv
  <1>1. /\ Copies' = Copies /\ Sums' = Sums /\ StreamsInv' /\ RunsInv' /\ RunningInv'
        /\ UNCHANGED <<pc, block, next, closed, pinned, sums, event, offset, stream>>
    <2>1. UNCHANGED <<pc, block, next, closed, pinned, sums, event, offset, stream>>
      BY DEF OpStarts, main
    <2>2. Copies' = Copies /\ Sums' = Sums /\ StreamsInv'
      BY <1>0, <2>1 DEF Copies, Sums, StreamsInv, Ring, Variant
    <2>3. RunsInv' /\ RunningInv'
      <3>1. PICK b : /\ Head(stream["copy"]) = Copy(b, b % Ring, b % 2)
                     /\ running' = [running EXCEPT !["copy"] = b]
        BY <1>0, CopyStarts
      <3>2. Head(stream["copy"]).op = "copy" /\ Head(stream["copy"]).block = b
        BY <3>1 DEF Copy
      <3>3. running'["copy"] = b /\ running'["compute"] = running["compute"]
            /\ stream["copy"] # <<>>
        BY <1>0, <3>1 DEF TypeOK, ContextTypeOK, Streams, OpStarts
      <3>4. QED BY <1>0, <2>1, <3>2, <3>3 DEF RunsInv, RunningInv, Streams
    <2>4. QED BY <2>1, <2>2, <2>3
  <1>2. BuffersInv'
    <2>1. PICK b : /\ FirstCopy(b) /\ device' = [device EXCEPT ![b % 2] = Garbage]
      BY <1>0, CopyStarts
    <2>2. QED BY <1>0, <1>1, <2>1, CopyStartBuffers
  <1>3. MainInv'
    <2>1. TopInv'
      BY <1>0, <1>1, Streaming DEF TopInv, CountInv, threads, Top
    <2>2. CountInv'
      BY <1>0, <1>1, Streaming DEF CountInv, threads, Filling
    <2>3. FillInv'
      BY <1>0, <1>1, Streaming DEF FillInv, threads, Filling, CountInv
    <2>4. QED BY <2>1, <2>2, <2>3 DEF MainInv
  <1>4. Variant = "three_stage" => WorkerInv'
    BY <1>0, <1>1, Streaming DEF WorkerInv, threads, WorkerEnded, Variant, TypeOK, ThreadsTypeOK
  <1>5. QED BY <1>1, <1>2, <1>3, <1>4 DEF PipeInv

\* A sum starts.
LEMMA SumStartStep ==
    ASSUME PipeState, OpStarts("compute"), UNCHANGED <<threads, pass, outcome, at>>
    PROVE  /\ PipeInv' /\ RunningInv'
           /\ Variant = "three_stage" => WorkerInv'
  <1>0. /\ TypeOK /\ PlaceInv /\ RunningInv /\ StreamsInv /\ RunsInv /\ BuffersInv /\ MainInv
        /\ Variant = "three_stage" => WorkerInv
        /\ Copies \subseteq Block /\ Sums \subseteq Block
        /\ TopInv /\ CountInv /\ FillInv
    BY CopiesOfBlocks DEF PipeState, PipeInv, MainInv
  <1>1. /\ Copies' = Copies /\ Sums' = Sums /\ StreamsInv' /\ RunsInv' /\ RunningInv'
        /\ UNCHANGED <<pc, block, next, closed, pinned, sums, event, offset, stream>>
    <2>1. UNCHANGED <<pc, block, next, closed, pinned, sums, event, offset, stream>>
      BY DEF OpStarts, main
    <2>2. Copies' = Copies /\ Sums' = Sums /\ StreamsInv'
      BY <1>0, <2>1 DEF Copies, Sums, StreamsInv, Ring, Variant
    <2>3. RunsInv' /\ RunningInv'
      <3>1. PICK b : /\ Head(stream["compute"]) = Sum(b, b % 2)
                     /\ running' = [running EXCEPT !["compute"] = b]
        BY <1>0, SumStarts
      <3>2. Head(stream["compute"]).op = "sum" /\ Head(stream["compute"]).block = b
        BY <3>1 DEF Sum
      <3>3. running'["compute"] = b /\ running'["copy"] = running["copy"]
            /\ stream["compute"] # <<>>
        BY <1>0, <3>1 DEF TypeOK, ContextTypeOK, Streams, OpStarts
      <3>4. QED BY <1>0, <2>1, <3>2, <3>3 DEF RunsInv, RunningInv, Streams
    <2>4. QED BY <2>1, <2>2, <2>3
  <1>2. BuffersInv'
    <2>1. device' = device
      BY <1>0, SumStarts
    <2>2. QED BY <1>0, <1>1, <2>1, QuietBuffers, BuffersTypes DEF Top
  <1>3. MainInv'
    <2>1. TopInv'
      BY <1>0, <1>1, Streaming DEF TopInv, CountInv, threads, Top
    <2>2. CountInv'
      BY <1>0, <1>1, Streaming DEF CountInv, threads, Filling
    <2>3. FillInv'
      BY <1>0, <1>1, Streaming DEF FillInv, threads, Filling, CountInv
    <2>4. QED BY <2>1, <2>2, <2>3 DEF MainInv
  <1>4. Variant = "three_stage" => WorkerInv'
    BY <1>0, <1>1, Streaming DEF WorkerInv, threads, WorkerEnded, Variant, TypeOK, ThreadsTypeOK
  <1>5. QED BY <1>1, <1>2, <1>3, <1>4 DEF PipeInv

\* A copy finishes.
LEMMA CopyFinishStep ==
    ASSUME PipeState, OpFinishes("copy"), UNCHANGED <<threads, pass, outcome, at>>
    PROVE  /\ PipeInv' /\ RunningInv'
           /\ Variant = "three_stage" => WorkerInv'
  <1>0. /\ TypeOK /\ PlaceInv /\ RunningInv /\ StreamsInv /\ RunsInv /\ BuffersInv /\ MainInv
        /\ Variant = "three_stage" => WorkerInv
        /\ Copies \subseteq Block /\ Sums \subseteq Block
        /\ TopInv /\ CountInv /\ FillInv
    BY CopiesOfBlocks DEF PipeState, PipeInv, MainInv
  <1>1. /\ Copies' \subseteq Copies /\ Sums' = Sums
        /\ StreamsInv' /\ RunsInv' /\ RunningInv'
        /\ UNCHANGED <<pc, block, next, closed, pinned, event, offset>>
        /\ \A e : After(stream["copy"], Len(stream["copy"]) + 1, e, event) =>
                  After(stream'["copy"], Len(stream'["copy"]) + 1, e, event')
    <2>1. UNCHANGED <<pc, block, next, closed, pinned, event, offset>>
      BY DEF OpFinishes, main
    <2>2. Copies' \subseteq Copies /\ Sums' = Sums
          /\ StreamsInv' /\ running' = [running EXCEPT !["copy"] = Idle]
          /\ \A e : After(stream["copy"], Len(stream["copy"]) + 1, e, event) =>
                    After(stream'["copy"], Len(stream'["copy"]) + 1, e, event')
      BY <1>0, <2>1, CopyFinishes
    <2>3. RunsInv' /\ RunningInv'
      BY <1>0, <2>1, <2>2 DEF RunsInv, RunningInv, OpFinishes, Streams, TypeOK, ContextTypeOK
    <2>4. QED BY <2>1, <2>2, <2>3
  <1>2. BuffersInv'
    <2>1. PICK b : /\ FirstCopy(b)
                   /\ device' = [device EXCEPT ![b % 2] = b] /\ sums' = sums
                   /\ Copies' = Copies \ {b}
      BY <1>0, CopyFinishes
    <2>2. QED BY <1>0, <1>1, <2>1, CopyFinishBuffers
  <1>3. MainInv'
    <2>1. TopInv'
      BY <1>0, <1>1, Streaming DEF TopInv, CountInv, threads, Top
    <2>2. CountInv'
      BY <1>0, <1>1, Streaming DEF CountInv, threads, Filling
    <2>3. FillInv'
      BY <1>0, <1>1, Streaming DEF FillInv, threads, Filling, CountInv
    <2>4. QED BY <2>1, <2>2, <2>3 DEF MainInv
  <1>4. Variant = "three_stage" => WorkerInv'
    BY <1>0, <1>1, Streaming DEF WorkerInv, threads, WorkerEnded, Variant, TypeOK, ThreadsTypeOK
  <1>5. QED BY <1>1, <1>2, <1>3, <1>4 DEF PipeInv

\* A sum finishes.
LEMMA SumFinishStep ==
    ASSUME PipeState, OpFinishes("compute"), UNCHANGED <<threads, pass, outcome, at>>
    PROVE  /\ PipeInv' /\ RunningInv'
           /\ Variant = "three_stage" => WorkerInv'
  <1>0. /\ TypeOK /\ PlaceInv /\ RunningInv /\ StreamsInv /\ RunsInv /\ BuffersInv /\ MainInv
        /\ Variant = "three_stage" => WorkerInv
        /\ Copies \subseteq Block /\ Sums \subseteq Block
        /\ TopInv /\ CountInv /\ FillInv
    BY CopiesOfBlocks DEF PipeState, PipeInv, MainInv
  <1>1. /\ Copies' = Copies
        /\ StreamsInv' /\ RunsInv' /\ RunningInv'
        /\ UNCHANGED <<pc, block, next, closed, pinned, event, offset>>
        /\ \A e : After(stream["copy"], Len(stream["copy"]) + 1, e, event) =>
                  After(stream'["copy"], Len(stream'["copy"]) + 1, e, event')
    <2>1. UNCHANGED <<pc, block, next, closed, pinned, event, offset>>
      BY DEF OpFinishes, main
    <2>2. Copies' = Copies
          /\ StreamsInv' /\ running' = [running EXCEPT !["compute"] = Idle]
          /\ \A e : After(stream["copy"], Len(stream["copy"]) + 1, e, event) =>
                    After(stream'["copy"], Len(stream'["copy"]) + 1, e, event')
      BY <1>0, <2>1, SumFinishes
    <2>3. RunsInv' /\ RunningInv'
      BY <1>0, <2>1, <2>2 DEF RunsInv, RunningInv, OpFinishes, Streams, TypeOK, ContextTypeOK
    <2>4. QED BY <2>1, <2>2, <2>3
  <1>2. BuffersInv'
    <2>1. PICK b : /\ FirstSum(b)
                   /\ sums' = [sums EXCEPT ![b] = b] /\ device' = device
                   /\ Sums' = Sums \ {b}
      BY <1>0, SumFinishes
    <2>2. QED BY <1>0, <1>1, <2>1, SumFinishBuffers
  <1>3. MainInv'
    <2>1. TopInv'
      BY <1>0, <1>1, Streaming DEF TopInv, CountInv, threads, Top
    <2>2. CountInv'
      BY <1>0, <1>1, Streaming DEF CountInv, threads, Filling
    <2>3. FillInv'
      BY <1>0, <1>1, Streaming DEF FillInv, threads, Filling, CountInv
    <2>4. QED BY <2>1, <2>2, <2>3 DEF MainInv
  <1>4. Variant = "three_stage" => WorkerInv'
    BY <1>0, <1>1, Streaming DEF WorkerInv, threads, WorkerEnded, Variant, TypeOK, ThreadsTypeOK
  <1>5. QED BY <1>1, <1>2, <1>3, <1>4 DEF PipeInv

\* A wait or an event of the copy stream.
LEMMA CopyControlStep ==
    ASSUME PipeState, OpControls("copy"), UNCHANGED <<threads, pass, outcome, at>>
    PROVE  /\ PipeInv' /\ RunningInv'
           /\ Variant = "three_stage" => WorkerInv'
  <1>0. /\ TypeOK /\ PlaceInv /\ RunningInv /\ StreamsInv /\ RunsInv /\ BuffersInv /\ MainInv
        /\ Variant = "three_stage" => WorkerInv
        /\ Copies \subseteq Block /\ Sums \subseteq Block
        /\ TopInv /\ CountInv /\ FillInv
    BY CopiesOfBlocks DEF PipeState, PipeInv, MainInv
  <1>1. /\ Copies' = Copies /\ Sums' = Sums
        /\ StreamsInv' /\ RunsInv' /\ RunningInv'
        /\ UNCHANGED <<pc, block, next, closed, pinned, device, sums, offset>>
        /\ \A e : After(stream["copy"], Len(stream["copy"]) + 1, e, event) =>
                  After(stream'["copy"], Len(stream'["copy"]) + 1, e, event')
        /\ \/ event' = event
           \/ \E k \in {"h2d", "compute"}, b \in Block :
                /\ event[<<k, b>>] # "new"
                /\ event' = [event EXCEPT ![<<k, b>>] = "complete"]
    <2>1. UNCHANGED <<pc, block, next, closed, pinned, device, sums, offset, running>>
      BY DEF OpControls, main, buffers
    <2>2. RunsInv' /\ RunningInv'
      BY <1>0, <2>1 DEF RunsInv, RunningInv, OpControls, Streams, TypeOK, ContextTypeOK
    <2>3. QED BY <1>0, <2>1, <2>2, CopyControls
  <1>6. \A k \in {"h2d", "compute"}, b \in Block :
            /\ event'[<<k, b>>] = "new" <=> event[<<k, b>>] = "new"
            /\ event[<<k, b>>] = "complete" => event'[<<k, b>>] = "complete"
    BY <1>0, <1>1, ControlEvents
  <1>2. BuffersInv'
    BY <1>0, <1>1, ControlBuffers
  <1>3. MainInv'
    <2>1. TopInv'
      BY <1>0, <1>1, <1>6, Streaming DEF TopInv, CountInv, threads, Block, Top
    <2>2. CountInv'
      BY <1>0, <1>1, <1>6, Streaming DEF CountInv, threads, Block, Filling
    <2>3. FillInv'
      BY <1>0, <1>1, <1>6, Streaming DEF FillInv, threads, Block, Filling, CountInv
    <2>4. QED BY <2>1, <2>2, <2>3 DEF MainInv
  <1>4. Variant = "three_stage" => WorkerInv'
    BY <1>0, <1>1, <1>6, Streaming DEF WorkerInv, threads, Block, WorkerEnded, Variant, TypeOK,
       ThreadsTypeOK
  <1>5. QED BY <1>1, <1>2, <1>3, <1>4 DEF PipeInv

\* A wait or an event of the compute stream.
LEMMA SumControlStep ==
    ASSUME PipeState, OpControls("compute"), UNCHANGED <<threads, pass, outcome, at>>
    PROVE  /\ PipeInv' /\ RunningInv'
           /\ Variant = "three_stage" => WorkerInv'
  <1>0. /\ TypeOK /\ PlaceInv /\ RunningInv /\ StreamsInv /\ RunsInv /\ BuffersInv /\ MainInv
        /\ Variant = "three_stage" => WorkerInv
        /\ Copies \subseteq Block /\ Sums \subseteq Block
        /\ TopInv /\ CountInv /\ FillInv
    BY CopiesOfBlocks DEF PipeState, PipeInv, MainInv
  <1>1. /\ Copies' = Copies /\ Sums' = Sums
        /\ StreamsInv' /\ RunsInv' /\ RunningInv'
        /\ UNCHANGED <<pc, block, next, closed, pinned, device, sums, offset>>
        /\ \A e : After(stream["copy"], Len(stream["copy"]) + 1, e, event) =>
                  After(stream'["copy"], Len(stream'["copy"]) + 1, e, event')
        /\ \/ event' = event
           \/ \E k \in {"h2d", "compute"}, b \in Block :
                /\ event[<<k, b>>] # "new"
                /\ event' = [event EXCEPT ![<<k, b>>] = "complete"]
    <2>1. UNCHANGED <<pc, block, next, closed, pinned, device, sums, offset, running>>
      BY DEF OpControls, main, buffers
    <2>2. RunsInv' /\ RunningInv'
      BY <1>0, <2>1 DEF RunsInv, RunningInv, OpControls, Streams, TypeOK, ContextTypeOK
    <2>3. QED BY <1>0, <2>1, <2>2, SumControls
  <1>6. \A k \in {"h2d", "compute"}, b \in Block :
            /\ event'[<<k, b>>] = "new" <=> event[<<k, b>>] = "new"
            /\ event[<<k, b>>] = "complete" => event'[<<k, b>>] = "complete"
    BY <1>0, <1>1, ControlEvents
  <1>2. BuffersInv'
    BY <1>0, <1>1, ControlBuffers
  <1>3. MainInv'
    <2>1. TopInv'
      BY <1>0, <1>1, <1>6, Streaming DEF TopInv, CountInv, threads, Block, Top
    <2>2. CountInv'
      BY <1>0, <1>1, <1>6, Streaming DEF CountInv, threads, Block, Filling
    <2>3. FillInv'
      BY <1>0, <1>1, <1>6, Streaming DEF FillInv, threads, Block, Filling, CountInv
    <2>4. QED BY <2>1, <2>2, <2>3 DEF MainInv
  <1>4. Variant = "three_stage" => WorkerInv'
    BY <1>0, <1>1, <1>6, Streaming DEF WorkerInv, threads, Block, WorkerEnded, Variant, TypeOK,
       ThreadsTypeOK
  <1>5. QED BY <1>1, <1>2, <1>3, <1>4 DEF PipeInv

------------------------------------------------------------------------------
(* Where the main thread is. *)

\* The checksums of a pass that comes to their verification are right.
LEMMA NothingBad ==
    ASSUME IInv, pc = "verify"
    PROVE  Bad = {} /\ Copies = {} /\ Sums = {} /\ outcome = "running"
  <1>1. /\ TypeOK /\ PlaceInv /\ stream["copy"] = <<>> /\ stream["compute"] = <<>>
        /\ outcome = "running"
    BY DEF IInv, IdleInv, PlaceInv, Streams, LastLabels
  <1>2. Copies = {} /\ Sums = {}
    BY <1>1 DEF Copies, Sums, Enqueued
  <1>3. \A b \in Block : sums[b] = b
    <2>1. CASE Variant = "sync"
      BY <1>1, <2>1, Streaming DEF IInv, SyncInv
    <2>2. CASE Variant # "sync"
      <3>1. BuffersInv /\ block = Blocks
        BY <1>1, <2>2 DEF IInv, PipeInv, MainInv, CountInv
      <3>2. QED BY <1>1, <1>2, <3>1, Streaming DEF BuffersInv
    <2>3. QED BY <2>1, <2>2
  <1>4. QED BY <1>1, <1>2, <1>3 DEF Bad

\* Every step keeps where the main thread and the worker may be.
LEMMA PlaceStep == IInv /\ Next => PlaceInv'
  <1> SUFFICES ASSUME IInv, Next PROVE PlaceInv'
    OBVIOUS
  <1>0. TypeOK /\ PlaceInv
    BY DEF IInv
  <1>1. ASSUME Interrupt
       PROVE  PlaceInv'
    BY <1>0, <1>1 DEF TypeOK, Labels, PlaceInv, Goto, Unwind, Joins, SyncLabels, DoubleLabels,
       ThreeLabels, LastLabels, Variant, WorkerEnded, main, threads, ofMain, ofWorker, buffers,
             Bad, StorageReady, StageStart, StageFinish, Interrupt
  <1>2. ASSUME NextPass
       PROVE  PlaceInv'
    <2>1. pass + 1 \in 1 .. Len(Variants) /\ pc' = Start(Variants[pass + 1]) /\ pass' = pass + 1
          /\ worker' = "none" /\ UNCHANGED <<outcome, at, closed>> /\ outcome = "running"
          /\ pc = "verify"
      BY <1>0, <1>2, VariantsAssumption DEF NextPass, TypeOK
    <2>2. Variant' = Variants[pass + 1]
          /\ Variants[pass + 1] \in {"sync", "double_buffer", "three_stage"}
      BY <2>1, VariantsAssumption DEF Variant
    <2>3. /\ pc' \in {"sync.read", "double.read", "three.start"}
          /\ (pc' = "sync.read" => Variant' = "sync")
          /\ (pc' = "double.read" => Variant' = "double_buffer")
          /\ (pc' = "three.start" => Variant' = "three_stage")
      BY <2>1, <2>2 DEF Start
    <2>4. QED BY <1>0, <2>1, <2>3 DEF PlaceInv, SyncLabels, DoubleLabels, ThreeLabels, LastLabels,
                                      WorkerEnded
  <1>3. ASSUME LastPass
       PROVE  PlaceInv'
    BY <1>0, <1>3, NothingBad DEF PlaceInv, Goto, Unwind, Joins, SyncLabels, DoubleLabels,
       ThreeLabels, LastLabels, Variant, WorkerEnded, main, threads, ofMain, ofWorker, buffers,
             Bad, StorageReady, StageStart, StageFinish, LastPass
  <1> USE <1>0 DEF PlaceInv, Goto, Unwind, Joins, SyncLabels, DoubleLabels, ThreeLabels,
      LastLabels, Variant, WorkerEnded, main, threads, ofMain, ofWorker, buffers, Bad,
      StorageReady, StageStart, StageFinish
  <1>4. ASSUME SyncRead, UNCHANGED <<threads, pass, outcome, at>>
       PROVE  PlaceInv'
    BY <1>4 DEF SyncRead
  <1>5. ASSUME SyncStage, UNCHANGED <<threads, pass, outcome, at>>
       PROVE  PlaceInv'
    BY <1>5 DEF SyncStage
  <1>6. ASSUME SyncCopy, UNCHANGED <<threads, pass, outcome, at>>
       PROVE  PlaceInv'
    BY <1>6 DEF SyncCopy
  <1>7. ASSUME SyncSum, UNCHANGED <<threads, pass, outcome, at>>
       PROVE  PlaceInv'
    BY <1>7 DEF SyncSum
  <1>8. ASSUME SyncDrain, UNCHANGED <<threads, pass, outcome, at>>
       PROVE  PlaceInv'
    BY <1>8 DEF SyncDrain
  <1>9. ASSUME DoubleSlot, UNCHANGED <<threads, pass, outcome, at>>
       PROVE  PlaceInv'
    BY <1>9 DEF DoubleSlot
  <1>10. ASSUME DoubleRead, UNCHANGED <<threads, pass, outcome, at>>
       PROVE  PlaceInv'
    BY <1>10 DEF DoubleRead
  <1>11. ASSUME DoubleStage, UNCHANGED <<threads, pass, outcome, at>>
       PROVE  PlaceInv'
    BY <1>11 DEF DoubleStage
  <1>12. ASSUME DoubleCopy, UNCHANGED <<threads, pass, outcome, at>>
       PROVE  PlaceInv'
    BY <1>12 DEF DoubleCopy
  <1>13. ASSUME DoubleCompute, UNCHANGED <<threads, pass, outcome, at>>
       PROVE  PlaceInv'
    BY <1>13 DEF DoubleCompute
  <1>14. ASSUME StartWorker, UNCHANGED <<pass, outcome, at>>
       PROVE  PlaceInv'
    BY <1>14 DEF StartWorker
  <1>15. ASSUME EnterTry, UNCHANGED <<pass, outcome, at>>
       PROVE  PlaceInv'
    BY <1>15 DEF EnterTry
  <1>16. ASSUME WaitForStorage, UNCHANGED <<pass, outcome, at>>
       PROVE  PlaceInv'
    BY <1>16 DEF WaitForStorage
  <1>17. ASSUME EnqueueCopy, UNCHANGED <<pass, outcome, at>>
       PROVE  PlaceInv'
    BY <1>17 DEF EnqueueCopy
  <1>18. ASSUME RecordCopy, UNCHANGED <<pass, outcome, at>>
       PROVE  PlaceInv'
    BY <1>18 DEF RecordCopy
  <1>19. ASSUME AnnounceCopy, UNCHANGED <<pass, outcome, at>>
       PROVE  PlaceInv'
    BY <1>19 DEF AnnounceCopy
  <1>20. ASSUME EnqueueCompute, UNCHANGED <<pass, outcome, at>>
       PROVE  PlaceInv'
    BY <1>20 DEF EnqueueCompute
  <1>21. ASSUME ReadFails
       PROVE  PlaceInv'
    BY <1>21 DEF ReadFails
  <1>22. ASSUME StorageFails
       PROVE  PlaceInv'
    BY <1>22 DEF StorageFails
  <1>23. ASSUME JoinWorker
       PROVE  PlaceInv'
    BY <1>23 DEF JoinWorker
  <1>24. ASSUME Synchronize
       PROVE  PlaceInv'
    BY <1>24 DEF Synchronize
  <1>25. ASSUME CloseReader
       PROVE  PlaceInv'
    BY <1>25 DEF CloseReader
  <1>26. ASSUME Exit
       PROVE  PlaceInv'
    BY <1>26 DEF Exit
  <1>27. ASSUME WorkerWaits, UNCHANGED <<pass, outcome, at>>
       PROVE  PlaceInv'
    BY <1>27 DEF WorkerWaits
  <1>28. ASSUME WorkerSynchronizes, UNCHANGED <<pass, outcome, at>>
       PROVE  PlaceInv'
    BY <1>28 DEF WorkerSynchronizes
  <1>29. ASSUME WorkerReads, UNCHANGED <<pass, outcome, at>>
       PROVE  PlaceInv'
    BY <1>29 DEF WorkerReads
  <1>30. ASSUME WorkerStages, UNCHANGED <<pass, outcome, at>>
       PROVE  PlaceInv'
    BY <1>30 DEF WorkerStages
  <1>31. ASSUME WorkerFails, UNCHANGED <<pass, outcome, at>>
       PROVE  PlaceInv'
    BY <1>31 DEF WorkerFails
  <1>32. ASSUME WorkerReleases, UNCHANGED <<pass, outcome, at>>
       PROVE  PlaceInv'
    BY <1>32 DEF WorkerReleases
  <1>33. ASSUME NEW s \in Streams, OpStarts(s), UNCHANGED <<threads, pass, outcome, at>>
       PROVE  PlaceInv'
    BY <1>33 DEF OpStarts
  <1>34. ASSUME NEW s \in Streams, OpFinishes(s), UNCHANGED <<threads, pass, outcome, at>>
       PROVE  PlaceInv'
    BY <1>34 DEF OpFinishes
  <1>35. ASSUME NEW s \in Streams, OpControls(s), UNCHANGED <<threads, pass, outcome, at>>
       PROVE  PlaceInv'
    BY <1>35 DEF OpControls
  <1> HIDE DEF PlaceInv, Goto, Unwind, Joins, SyncLabels, DoubleLabels, ThreeLabels, LastLabels,
      Variant, WorkerEnded, main, threads, ofMain, ofWorker, buffers, Bad, StorageReady,
      StageStart, StageFinish
  <1>36. QED BY <1>1, <1>2, <1>3, <1>4, <1>5, <1>6, <1>7, <1>8, <1>9, <1>10, <1>11, <1>12, <1>13,
       <1>14, <1>15, <1>16, <1>17, <1>18, <1>19, <1>20, <1>21, <1>22, <1>23, <1>24, <1>25, <1>26,
       <1>27, <1>28, <1>29, <1>30, <1>31, <1>32, <1>33, <1>34, <1>35
       DEF Next, MainStep, Runner, SyncStep, DoubleStep, ThreeStageStep, StorageStep, WorkerStep,
           DeviceStep, StreamStep

\* A step to the verification leaves nothing enqueued, and a step from it enqueues nothing.
LEMMA IdleStep == IInv /\ Next => IdleInv'
  <1> SUFFICES ASSUME IInv, Next PROVE IdleInv'
    OBVIOUS
  <1>0. TypeOK /\ PlaceInv /\ IdleInv
    BY DEF IInv
  <1> USE <1>0 DEF IdleInv, Goto, Unwind, Joins, Start, main, threads, ofMain, ofWorker, buffers,
      gpu, DeviceIdle, PlaceInv, SyncLabels, DoubleLabels, ThreeLabels
  <1>1. ASSUME SyncRead, UNCHANGED <<threads, pass, outcome, at>>
       PROVE  IdleInv'
    BY <1>1 DEF SyncRead
  <1>2. ASSUME SyncStage, UNCHANGED <<threads, pass, outcome, at>>
       PROVE  IdleInv'
    BY <1>2 DEF SyncStage
  <1>3. ASSUME SyncCopy, UNCHANGED <<threads, pass, outcome, at>>
       PROVE  IdleInv'
    BY <1>3 DEF SyncCopy
  <1>4. ASSUME SyncSum, UNCHANGED <<threads, pass, outcome, at>>
       PROVE  IdleInv'
    BY <1>4 DEF SyncSum
  <1>5. ASSUME SyncDrain, UNCHANGED <<threads, pass, outcome, at>>
       PROVE  IdleInv'
    BY <1>5 DEF SyncDrain
  <1>6. ASSUME DoubleSlot, UNCHANGED <<threads, pass, outcome, at>>
       PROVE  IdleInv'
    BY <1>6 DEF DoubleSlot
  <1>7. ASSUME DoubleRead, UNCHANGED <<threads, pass, outcome, at>>
       PROVE  IdleInv'
    BY <1>7 DEF DoubleRead
  <1>8. ASSUME DoubleStage, UNCHANGED <<threads, pass, outcome, at>>
       PROVE  IdleInv'
    BY <1>8 DEF DoubleStage
  <1>9. ASSUME DoubleCopy, UNCHANGED <<threads, pass, outcome, at>>
       PROVE  IdleInv'
    BY <1>9 DEF DoubleCopy
  <1>10. ASSUME DoubleCompute, UNCHANGED <<threads, pass, outcome, at>>
       PROVE  IdleInv'
    BY <1>10 DEF DoubleCompute
  <1>11. ASSUME StartWorker, UNCHANGED <<pass, outcome, at>>
       PROVE  IdleInv'
    BY <1>11 DEF StartWorker
  <1>12. ASSUME EnterTry, UNCHANGED <<pass, outcome, at>>
       PROVE  IdleInv'
    BY <1>12 DEF EnterTry
  <1>13. ASSUME WaitForStorage, UNCHANGED <<pass, outcome, at>>
       PROVE  IdleInv'
    BY <1>13 DEF WaitForStorage
  <1>14. ASSUME EnqueueCopy, UNCHANGED <<pass, outcome, at>>
       PROVE  IdleInv'
    BY <1>14 DEF EnqueueCopy
  <1>15. ASSUME RecordCopy, UNCHANGED <<pass, outcome, at>>
       PROVE  IdleInv'
    BY <1>15 DEF RecordCopy
  <1>16. ASSUME AnnounceCopy, UNCHANGED <<pass, outcome, at>>
       PROVE  IdleInv'
    BY <1>16 DEF AnnounceCopy
  <1>17. ASSUME EnqueueCompute, UNCHANGED <<pass, outcome, at>>
       PROVE  IdleInv'
    BY <1>17 DEF EnqueueCompute
  <1>18. ASSUME ReadFails
       PROVE  IdleInv'
    BY <1>18 DEF ReadFails
  <1>19. ASSUME StorageFails
       PROVE  IdleInv'
    BY <1>19 DEF StorageFails
  <1>20. ASSUME Interrupt
       PROVE  IdleInv'
    BY <1>20 DEF Interrupt
  <1>21. ASSUME JoinWorker
       PROVE  IdleInv'
    BY <1>21 DEF JoinWorker
  <1>22. ASSUME Synchronize
       PROVE  IdleInv'
    BY <1>22 DEF Synchronize
  <1>23. ASSUME NextPass
       PROVE  IdleInv'
    BY <1>23 DEF NextPass
  <1>24. ASSUME LastPass
       PROVE  IdleInv'
    BY <1>24 DEF LastPass
  <1>25. ASSUME CloseReader
       PROVE  IdleInv'
    BY <1>25 DEF CloseReader
  <1>26. ASSUME Exit
       PROVE  IdleInv'
    BY <1>26 DEF Exit
  <1>27. ASSUME WorkerWaits, UNCHANGED <<pass, outcome, at>>
       PROVE  IdleInv'
    BY <1>27 DEF WorkerWaits
  <1>28. ASSUME WorkerSynchronizes, UNCHANGED <<pass, outcome, at>>
       PROVE  IdleInv'
    BY <1>28 DEF WorkerSynchronizes
  <1>29. ASSUME WorkerReads, UNCHANGED <<pass, outcome, at>>
       PROVE  IdleInv'
    BY <1>29 DEF WorkerReads
  <1>30. ASSUME WorkerStages, UNCHANGED <<pass, outcome, at>>
       PROVE  IdleInv'
    BY <1>30 DEF WorkerStages
  <1>31. ASSUME WorkerFails, UNCHANGED <<pass, outcome, at>>
       PROVE  IdleInv'
    BY <1>31 DEF WorkerFails
  <1>32. ASSUME WorkerReleases, UNCHANGED <<pass, outcome, at>>
       PROVE  IdleInv'
    BY <1>32 DEF WorkerReleases
  <1>33. ASSUME NEW s \in Streams, OpStarts(s), UNCHANGED <<threads, pass, outcome, at>>
       PROVE  IdleInv'
    BY <1>33 DEF OpStarts
  <1>34. ASSUME NEW s \in Streams, OpFinishes(s), UNCHANGED <<threads, pass, outcome, at>>
       PROVE  IdleInv'
    BY <1>34 DEF OpFinishes
  <1>35. ASSUME NEW s \in Streams, OpControls(s), UNCHANGED <<threads, pass, outcome, at>>
       PROVE  IdleInv'
    BY <1>35 DEF OpControls
  <1> HIDE DEF IdleInv, Goto, Unwind, Joins, Start, main, threads, ofMain, ofWorker, buffers, gpu,
      DeviceIdle, PlaceInv, SyncLabels, DoubleLabels, ThreeLabels
  <1>36. QED BY <1>1, <1>2, <1>3, <1>4, <1>5, <1>6, <1>7, <1>8, <1>9, <1>10, <1>11, <1>12, <1>13,
       <1>14, <1>15, <1>16, <1>17, <1>18, <1>19, <1>20, <1>21, <1>22, <1>23, <1>24, <1>25, <1>26,
       <1>27, <1>28, <1>29, <1>30, <1>31, <1>32, <1>33, <1>34, <1>35
       DEF Next, MainStep, Runner, SyncStep, DoubleStep, ThreeStageStep, StorageStep, WorkerStep,
           DeviceStep, StreamStep

------------------------------------------------------------------------------
(* The types. *)

\* The four parts of the type invariant.
Scalars == /\ closed \in BOOLEAN /\ pc \in Labels /\ pass \in 1 .. Len(Variants)
           /\ outcome \in {"running", "ok", "failed", "mismatch", "interrupted"}
           /\ at \in Labels \cup {"nowhere"}
           /\ worker \in {"none", "wait", "sync", "read", "stage", "release", "done"}
           /\ storage_done \in [Block -> BOOLEAN] /\ h2d_enqueued \in [Block -> BOOLEAN]
           /\ worker_errors \in BOOLEAN
Counters == /\ block \in 0 .. Blocks /\ next \in 0 .. Blocks
            /\ offset \in 0 .. Blocks /\ wblock \in 0 .. Blocks
Cells == /\ pinned \in [0 .. 2 -> Data] /\ device \in [0 .. 1 -> Data]
         /\ sums \in [Block -> Data \cup {Zero}] /\ running \in [Streams -> Data \cup {Idle}]
Queues == /\ event \in [Events -> {"new", "recorded", "complete"}]
          /\ stream \in [Streams -> Seq(Operation)]

\* The type invariant is the conjunction of its four parts.
LEMMA TypeParts == TypeOK <=> Scalars /\ Counters /\ Cells /\ Queues
  BY DEF TypeOK, ContextTypeOK, ThreadsTypeOK, Scalars, Counters, Cells, Queues

\* Setting an event of the host threads keeps the type of the events.
LEMMA FlagSet ==
    ASSUME NEW f \in [Block -> BOOLEAN], NEW b
    PROVE  [f EXCEPT ![b] = TRUE] \in [Block -> BOOLEAN]
  OBVIOUS

\* Every step keeps the types of the labels and the flags.
LEMMA ScalarsStep == IInv /\ Next => Scalars'
  <1> SUFFICES ASSUME IInv, Next PROVE Scalars'
    OBVIOUS
  <1>0. TypeOK /\ Scalars
    BY TypeParts DEF IInv
  <1>1. ASSUME AnnounceCopy, UNCHANGED <<pass, outcome, at>>
       PROVE  Scalars'
    <2>1. h2d_enqueued' \in [Block -> BOOLEAN]
      BY <1>0, <1>1, FlagSet DEF Scalars, AnnounceCopy
    <2>2. pc' \in Labels
          /\ UNCHANGED <<closed, pass, outcome, at, worker, storage_done, worker_errors>>
      BY <1>1 DEF AnnounceCopy, Labels, ofWorker
    <2>3. QED BY <1>0, <2>1, <2>2 DEF Scalars
  <1>2. ASSUME NextPass
       PROVE  Scalars'
    <2>1. /\ pass' \in 1 .. Len(Variants) /\ pc' = Start(Variants[pass']) /\ worker' = "none"
          /\ storage_done' = NoBlock /\ h2d_enqueued' = NoBlock /\ worker_errors' = FALSE
          /\ UNCHANGED <<closed, outcome, at>>
      BY <1>0, <1>2, VariantsAssumption DEF NextPass, Scalars
    <2>2. Variants[pass'] \in {"sync", "double_buffer", "three_stage"}
      BY <2>1, VariantsAssumption
    <2>3. pc' \in Labels
      BY <2>1, <2>2 DEF Start, Labels
    <2>4. NoBlock \in [Block -> BOOLEAN]
      BY DEF NoBlock
    <2>5. QED BY <1>0, <2>1, <2>3, <2>4 DEF Scalars
  <1>3. ASSUME WorkerStages, UNCHANGED <<pass, outcome, at>>
       PROVE  Scalars'
    <2>1. storage_done' \in [Block -> BOOLEAN]
      BY <1>0, <1>3, FlagSet DEF Scalars, WorkerStages
    <2>2. /\ worker' \in {"wait", "done"}
          /\ UNCHANGED <<closed, pass, outcome, at, pc, h2d_enqueued, worker_errors>>
      BY <1>3 DEF WorkerStages, ofMain, main
    <2>3. QED BY <1>0, <2>1, <2>2 DEF Scalars
  <1> USE <1>0, VariantsAssumption DEF Scalars, Labels, Start, NoBlock, Goto, Unwind, Joins, main,
      threads, ofMain, ofWorker, buffers, gpu, StageStart, StageFinish, StorageReady, EnqueueSum,
      EnqueueRecord, Enqueue
  <1>4. ASSUME SyncRead, UNCHANGED <<threads, pass, outcome, at>>
       PROVE  Scalars'
    BY <1>4 DEF SyncRead
  <1>5. ASSUME SyncStage, UNCHANGED <<threads, pass, outcome, at>>
       PROVE  Scalars'
    BY <1>5 DEF SyncStage
  <1>6. ASSUME SyncCopy, UNCHANGED <<threads, pass, outcome, at>>
       PROVE  Scalars'
    BY <1>6 DEF SyncCopy
  <1>7. ASSUME SyncSum, UNCHANGED <<threads, pass, outcome, at>>
       PROVE  Scalars'
    BY <1>7 DEF SyncSum
  <1>8. ASSUME SyncDrain, UNCHANGED <<threads, pass, outcome, at>>
       PROVE  Scalars'
    BY <1>8 DEF SyncDrain
  <1>9. ASSUME DoubleSlot, UNCHANGED <<threads, pass, outcome, at>>
       PROVE  Scalars'
    BY <1>9 DEF DoubleSlot
  <1>10. ASSUME DoubleRead, UNCHANGED <<threads, pass, outcome, at>>
       PROVE  Scalars'
    BY <1>10 DEF DoubleRead
  <1>11. ASSUME DoubleStage, UNCHANGED <<threads, pass, outcome, at>>
       PROVE  Scalars'
    BY <1>11 DEF DoubleStage
  <1>12. ASSUME DoubleCopy, UNCHANGED <<threads, pass, outcome, at>>
       PROVE  Scalars'
    BY <1>12 DEF DoubleCopy
  <1>13. ASSUME DoubleCompute, UNCHANGED <<threads, pass, outcome, at>>
       PROVE  Scalars'
    BY <1>13 DEF DoubleCompute
  <1>14. ASSUME StartWorker, UNCHANGED <<pass, outcome, at>>
       PROVE  Scalars'
    BY <1>14 DEF StartWorker
  <1>15. ASSUME EnterTry, UNCHANGED <<pass, outcome, at>>
       PROVE  Scalars'
    BY <1>15 DEF EnterTry
  <1>16. ASSUME WaitForStorage, UNCHANGED <<pass, outcome, at>>
       PROVE  Scalars'
    BY <1>16 DEF WaitForStorage
  <1>17. ASSUME EnqueueCopy, UNCHANGED <<pass, outcome, at>>
       PROVE  Scalars'
    BY <1>17 DEF EnqueueCopy
  <1>18. ASSUME RecordCopy, UNCHANGED <<pass, outcome, at>>
       PROVE  Scalars'
    BY <1>18 DEF RecordCopy
  <1>19. ASSUME EnqueueCompute, UNCHANGED <<pass, outcome, at>>
       PROVE  Scalars'
    BY <1>19 DEF EnqueueCompute
  <1>20. ASSUME ReadFails
       PROVE  Scalars'
    BY <1>20 DEF ReadFails
  <1>21. ASSUME StorageFails
       PROVE  Scalars'
    BY <1>21 DEF StorageFails
  <1>22. ASSUME Interrupt
       PROVE  Scalars'
    BY <1>22 DEF Interrupt
  <1>23. ASSUME JoinWorker
       PROVE  Scalars'
    BY <1>23 DEF JoinWorker
  <1>24. ASSUME Synchronize
       PROVE  Scalars'
    BY <1>24 DEF Synchronize
  <1>25. ASSUME LastPass
       PROVE  Scalars'
    BY <1>25 DEF LastPass
  <1>26. ASSUME CloseReader
       PROVE  Scalars'
    BY <1>26 DEF CloseReader
  <1>27. ASSUME Exit
       PROVE  Scalars'
    BY <1>27 DEF Exit
  <1>28. ASSUME WorkerWaits, UNCHANGED <<pass, outcome, at>>
       PROVE  Scalars'
    BY <1>28 DEF WorkerWaits
  <1>29. ASSUME WorkerSynchronizes, UNCHANGED <<pass, outcome, at>>
       PROVE  Scalars'
    BY <1>29 DEF WorkerSynchronizes
  <1>30. ASSUME WorkerReads, UNCHANGED <<pass, outcome, at>>
       PROVE  Scalars'
    BY <1>30 DEF WorkerReads
  <1>31. ASSUME WorkerFails, UNCHANGED <<pass, outcome, at>>
       PROVE  Scalars'
    BY <1>31 DEF WorkerFails
  <1>32. ASSUME WorkerReleases, UNCHANGED <<pass, outcome, at>>
       PROVE  Scalars'
    BY <1>32 DEF WorkerReleases
  <1>33. ASSUME NEW s \in Streams, OpStarts(s), UNCHANGED <<threads, pass, outcome, at>>
       PROVE  Scalars'
    BY <1>33 DEF OpStarts
  <1>34. ASSUME NEW s \in Streams, OpFinishes(s), UNCHANGED <<threads, pass, outcome, at>>
       PROVE  Scalars'
    BY <1>34 DEF OpFinishes
  <1>35. ASSUME NEW s \in Streams, OpControls(s), UNCHANGED <<threads, pass, outcome, at>>
       PROVE  Scalars'
    BY <1>35 DEF OpControls
  <1> HIDE DEF Scalars, Labels, Start, NoBlock, Goto, Unwind, Joins, main, threads, ofMain,
      ofWorker, buffers, gpu, StageStart, StageFinish, StorageReady, EnqueueSum, EnqueueRecord,
      Enqueue
  <1>36. QED BY <1>1, <1>2, <1>3, <1>4, <1>5, <1>6, <1>7, <1>8, <1>9, <1>10, <1>11, <1>12, <1>13,
       <1>14, <1>15, <1>16, <1>17, <1>18, <1>19, <1>20, <1>21, <1>22, <1>23, <1>24, <1>25, <1>26,
       <1>27, <1>28, <1>29, <1>30, <1>31, <1>32, <1>33, <1>34, <1>35
       DEF Next, MainStep, Runner, SyncStep, DoubleStep, ThreeStageStep, StorageStep, WorkerStep,
           DeviceStep, StreamStep

\* Every step keeps the counters within the pass.
LEMMA CountersStep == IInv /\ Next => Counters'
  <1> SUFFICES ASSUME IInv, Next PROVE Counters'
    OBVIOUS
  <1>0. TypeOK /\ PlaceInv /\ Counters /\ (Variant = "sync" => SyncInv)
        /\ (Variant # "sync" => PipeInv)
        /\ (Variant = "three_stage" => WorkerInv)
    BY TypeParts DEF IInv
  <1> USE <1>0, Streaming DEF Counters, PlaceInv, SyncLabels, DoubleLabels, ThreeLabels, SyncInv,
      PipeInv, MainInv, CountInv, FillInv, Filling, WorkerInv, WorkerEnded, Goto, Unwind, Joins,
      main, threads, ofMain, ofWorker, buffers, gpu, StageStart, StageFinish, StorageReady,
      EnqueueSum, EnqueueRecord, Enqueue
  <1>1. ASSUME SyncRead, UNCHANGED <<threads, pass, outcome, at>>
       PROVE  Counters'
    BY <1>1 DEF SyncRead
  <1>2. ASSUME SyncStage, UNCHANGED <<threads, pass, outcome, at>>
       PROVE  Counters'
    BY <1>2 DEF SyncStage
  <1>3. ASSUME SyncCopy, UNCHANGED <<threads, pass, outcome, at>>
       PROVE  Counters'
    BY <1>3 DEF SyncCopy
  <1>4. ASSUME SyncSum, UNCHANGED <<threads, pass, outcome, at>>
       PROVE  Counters'
    BY <1>4 DEF SyncSum
  <1>5. ASSUME SyncDrain, UNCHANGED <<threads, pass, outcome, at>>
       PROVE  Counters'
    BY <1>5 DEF SyncDrain
  <1>6. ASSUME DoubleSlot, UNCHANGED <<threads, pass, outcome, at>>
       PROVE  Counters'
    BY <1>6 DEF DoubleSlot
  <1>7. ASSUME DoubleRead, UNCHANGED <<threads, pass, outcome, at>>
       PROVE  Counters'
    BY <1>7 DEF DoubleRead
  <1>8. ASSUME DoubleStage, UNCHANGED <<threads, pass, outcome, at>>
       PROVE  Counters'
    BY <1>8 DEF DoubleStage
  <1>9. ASSUME DoubleCopy, UNCHANGED <<threads, pass, outcome, at>>
       PROVE  Counters'
    BY <1>9 DEF DoubleCopy
  <1>10. ASSUME DoubleCompute, UNCHANGED <<threads, pass, outcome, at>>
       PROVE  Counters'
    BY <1>10 DEF DoubleCompute
  <1>11. ASSUME StartWorker, UNCHANGED <<pass, outcome, at>>
       PROVE  Counters'
    BY <1>11 DEF StartWorker
  <1>12. ASSUME EnterTry, UNCHANGED <<pass, outcome, at>>
       PROVE  Counters'
    BY <1>12 DEF EnterTry
  <1>13. ASSUME WaitForStorage, UNCHANGED <<pass, outcome, at>>
       PROVE  Counters'
    BY <1>13 DEF WaitForStorage
  <1>14. ASSUME EnqueueCopy, UNCHANGED <<pass, outcome, at>>
       PROVE  Counters'
    BY <1>14 DEF EnqueueCopy
  <1>15. ASSUME RecordCopy, UNCHANGED <<pass, outcome, at>>
       PROVE  Counters'
    BY <1>15 DEF RecordCopy
  <1>16. ASSUME AnnounceCopy, UNCHANGED <<pass, outcome, at>>
       PROVE  Counters'
    BY <1>16 DEF AnnounceCopy
  <1>17. ASSUME EnqueueCompute, UNCHANGED <<pass, outcome, at>>
       PROVE  Counters'
    BY <1>17 DEF EnqueueCompute
  <1>18. ASSUME ReadFails
       PROVE  Counters'
    BY <1>18 DEF ReadFails
  <1>19. ASSUME StorageFails
       PROVE  Counters'
    BY <1>19 DEF StorageFails
  <1>20. ASSUME Interrupt
       PROVE  Counters'
    BY <1>20 DEF Interrupt
  <1>21. ASSUME JoinWorker
       PROVE  Counters'
    BY <1>21 DEF JoinWorker
  <1>22. ASSUME Synchronize
       PROVE  Counters'
    BY <1>22 DEF Synchronize
  <1>23. ASSUME NextPass
       PROVE  Counters'
    BY <1>23 DEF NextPass
  <1>24. ASSUME LastPass
       PROVE  Counters'
    BY <1>24 DEF LastPass
  <1>25. ASSUME CloseReader
       PROVE  Counters'
    BY <1>25 DEF CloseReader
  <1>26. ASSUME Exit
       PROVE  Counters'
    BY <1>26 DEF Exit
  <1>27. ASSUME WorkerWaits, UNCHANGED <<pass, outcome, at>>
       PROVE  Counters'
    BY <1>27 DEF WorkerWaits
  <1>28. ASSUME WorkerSynchronizes, UNCHANGED <<pass, outcome, at>>
       PROVE  Counters'
    BY <1>28 DEF WorkerSynchronizes
  <1>29. ASSUME WorkerReads, UNCHANGED <<pass, outcome, at>>
       PROVE  Counters'
    BY <1>29 DEF WorkerReads
  <1>30. ASSUME WorkerStages, UNCHANGED <<pass, outcome, at>>
       PROVE  Counters'
    BY <1>30 DEF WorkerStages
  <1>31. ASSUME WorkerFails, UNCHANGED <<pass, outcome, at>>
       PROVE  Counters'
    BY <1>31 DEF WorkerFails
  <1>32. ASSUME WorkerReleases, UNCHANGED <<pass, outcome, at>>
       PROVE  Counters'
    BY <1>32 DEF WorkerReleases
  <1>33. ASSUME NEW s \in Streams, OpStarts(s), UNCHANGED <<threads, pass, outcome, at>>
       PROVE  Counters'
    BY <1>33 DEF OpStarts
  <1>34. ASSUME NEW s \in Streams, OpFinishes(s), UNCHANGED <<threads, pass, outcome, at>>
       PROVE  Counters'
    BY <1>34 DEF OpFinishes
  <1>35. ASSUME NEW s \in Streams, OpControls(s), UNCHANGED <<threads, pass, outcome, at>>
       PROVE  Counters'
    BY <1>35 DEF OpControls
  <1> HIDE DEF Counters, PlaceInv, SyncLabels, DoubleLabels, ThreeLabels, SyncInv, PipeInv,
      MainInv, CountInv, FillInv, Filling, WorkerInv, WorkerEnded, Goto, Unwind, Joins, main,
      threads, ofMain, ofWorker, buffers, gpu, StageStart, StageFinish, StorageReady, EnqueueSum,
      EnqueueRecord, Enqueue
  <1>36. QED BY <1>1, <1>2, <1>3, <1>4, <1>5, <1>6, <1>7, <1>8, <1>9, <1>10, <1>11, <1>12, <1>13,
       <1>14, <1>15, <1>16, <1>17, <1>18, <1>19, <1>20, <1>21, <1>22, <1>23, <1>24, <1>25, <1>26,
       <1>27, <1>28, <1>29, <1>30, <1>31, <1>32, <1>33, <1>34, <1>35
       DEF Next, MainStep, Runner, SyncStep, DoubleStep, ThreeStageStep, StorageStep, WorkerStep,
           DeviceStep, StreamStep

\* Every step keeps the types of the buffers and the checksums.
LEMMA CellsStep == IInv /\ Next => Cells'
  <1> SUFFICES ASSUME IInv, Next PROVE Cells'
    OBVIOUS
  <1>0. TypeOK /\ PlaceInv /\ RunningInv /\ Cells /\ (Variant = "sync" => SyncInv)
        /\ (Variant # "sync" => PipeInv)
        /\ (Variant = "three_stage" => WorkerInv)
    BY TypeParts DEF IInv
  <1>1. ASSUME SyncStage, UNCHANGED <<threads, pass, outcome, at>>
       PROVE  Cells'
    <2>1. offset - 1 \in Data /\ Garbage \in Data
      BY <1>0, <1>1, Streaming DEF SyncStage, PlaceInv, SyncLabels, SyncInv, Data, Block
    <2>2. /\ pinned' = [pinned EXCEPT ![0] = IF closed THEN Garbage ELSE offset - 1]
          /\ UNCHANGED <<device, sums, running>>
      BY <1>1 DEF SyncStage, StageFinish, gpu
    <2>3. QED BY <1>0, <2>1, <2>2 DEF Cells
  <1>2. ASSUME DoubleStage, UNCHANGED <<threads, pass, outcome, at>>
       PROVE  Cells'
    <2>1. offset - 1 \in Data /\ Garbage \in Data
      BY <1>0, <1>2, Streaming
         DEF DoubleStage, PlaceInv, DoubleLabels, PipeInv, MainInv, CountInv, FillInv, Filling,
            Data, Block
    <2>2. /\ pinned' = [pinned EXCEPT ![next % 2] = IF closed THEN Garbage ELSE offset - 1]
          /\ UNCHANGED <<device, sums, running>>
      BY <1>2 DEF DoubleStage, StageFinish, gpu
    <2>3. QED BY <1>0, <2>1, <2>2 DEF Cells
  <1>3. ASSUME WorkerStages, UNCHANGED <<pass, outcome, at>>
       PROVE  Cells'
    <2>1. offset - 1 \in Data /\ Garbage \in Data
      <3>1. Variant = "three_stage"
        BY <1>0, <1>3 DEF WorkerStages, PlaceInv
      <3>2. offset = wblock + 1 /\ wblock \in Nat /\ wblock < Blocks
        BY <1>0, <1>3, <3>1 DEF WorkerStages, WorkerInv, WorkerEnded, TypeOK, ThreadsTypeOK
      <3>3. QED BY <3>2, Streaming, BlocksAssumption DEF Data, Block
    <2>2. /\ pinned' = [pinned EXCEPT ![wblock % 3] = IF closed THEN Garbage ELSE offset - 1]
          /\ UNCHANGED <<device, sums, running>>
      BY <1>3 DEF WorkerStages, StageFinish, gpu
    <2>3. QED BY <1>0, <2>1, <2>2 DEF Cells
  <1>4. ASSUME NEW s \in Streams, OpStarts(s), UNCHANGED <<threads, pass, outcome, at>>
       PROVE  Cells'
    <2>1. stream[s] # <<>> /\ Head(stream[s]) \in Operation
      BY <1>0, <1>4, Popped, Streaming DEF OpStarts, Streams
    <2>2. Source(Head(stream[s])) \in Data
      <3>1. Head(stream[s]).op \in {"copy", "sum"}
        BY <1>4 DEF OpStarts
      <3>2. ASSUME NEW o \in Operation, o.op \in {"copy", "sum"}
            PROVE  Source(o) \in Data
        <4>1. CASE o \in [op : {"copy"}, block : Block, from : 0 .. 2, to : 0 .. 1]
          BY <1>0, <4>1 DEF Source, Cells
        <4>2. CASE o \in [op : {"sum"}, block : Block, slot : 0 .. 1]
          BY <1>0, <4>2 DEF Source, Cells
        <4>3. CASE o \in [op : {"wait", "record"}, event : Events]
          BY <3>2, <4>3
        <4>4. QED BY <4>1, <4>2, <4>3 DEF Operation
      <3>3. QED BY <2>1, <3>1, <3>2
    <2>3. QED BY <1>0, <1>4, <2>1, <2>2 DEF OpStarts, Cells, Data
  <1>5. ASSUME NEW s \in Streams, OpFinishes(s), UNCHANGED <<threads, pass, outcome, at>>
       PROVE  Cells'
    <2>1. stream[s] # <<>> /\ Head(stream[s]) \in Operation
      BY <1>0, <1>5, Popped, Streaming DEF OpFinishes, Streams, RunningInv
    <2>2. Source(Head(stream[s])) \in Data
      <3>1. Head(stream[s]).op \in {"copy", "sum"}
        BY <1>5 DEF OpFinishes
      <3>2. ASSUME NEW o \in Operation, o.op \in {"copy", "sum"}
            PROVE  Source(o) \in Data
        <4>1. CASE o \in [op : {"copy"}, block : Block, from : 0 .. 2, to : 0 .. 1]
          BY <1>0, <4>1 DEF Source, Cells
        <4>2. CASE o \in [op : {"sum"}, block : Block, slot : 0 .. 1]
          BY <1>0, <4>2 DEF Source, Cells
        <4>3. CASE o \in [op : {"wait", "record"}, event : Events]
          BY <3>2, <4>3
        <4>4. QED BY <4>1, <4>2, <4>3 DEF Operation
      <3>3. QED BY <2>1, <3>1, <3>2
    <2>3. QED BY <1>0, <1>5, <2>1, <2>2 DEF OpFinishes, Cells, Data
  <1> USE <1>0, Streaming, BuffersTypes DEF Cells, Data, PlaceInv, SyncLabels, DoubleLabels,
      SyncInv, PipeInv, MainInv, CountInv, FillInv, Filling, WorkerInv, WorkerEnded, NoSums, Goto,
      Unwind, Joins, main, threads, ofMain, ofWorker, buffers, gpu, StageStart, StageFinish,
      StorageReady, EnqueueSum, EnqueueRecord, Enqueue
  <1>6. ASSUME SyncRead, UNCHANGED <<threads, pass, outcome, at>>
       PROVE  Cells'
    BY <1>6 DEF SyncRead
  <1>7. ASSUME SyncCopy, UNCHANGED <<threads, pass, outcome, at>>
       PROVE  Cells'
    BY <1>7 DEF SyncCopy
  <1>8. ASSUME SyncSum, UNCHANGED <<threads, pass, outcome, at>>
       PROVE  Cells'
    BY <1>8 DEF SyncSum
  <1>9. ASSUME SyncDrain, UNCHANGED <<threads, pass, outcome, at>>
       PROVE  Cells'
    BY <1>9 DEF SyncDrain
  <1>10. ASSUME DoubleSlot, UNCHANGED <<threads, pass, outcome, at>>
       PROVE  Cells'
    BY <1>10 DEF DoubleSlot
  <1>11. ASSUME DoubleRead, UNCHANGED <<threads, pass, outcome, at>>
       PROVE  Cells'
    BY <1>11 DEF DoubleRead
  <1>12. ASSUME DoubleCopy, UNCHANGED <<threads, pass, outcome, at>>
       PROVE  Cells'
    BY <1>12 DEF DoubleCopy
  <1>13. ASSUME DoubleCompute, UNCHANGED <<threads, pass, outcome, at>>
       PROVE  Cells'
    BY <1>13 DEF DoubleCompute
  <1>14. ASSUME StartWorker, UNCHANGED <<pass, outcome, at>>
       PROVE  Cells'
    BY <1>14 DEF StartWorker
  <1>15. ASSUME EnterTry, UNCHANGED <<pass, outcome, at>>
       PROVE  Cells'
    BY <1>15 DEF EnterTry
  <1>16. ASSUME WaitForStorage, UNCHANGED <<pass, outcome, at>>
       PROVE  Cells'
    BY <1>16 DEF WaitForStorage
  <1>17. ASSUME EnqueueCopy, UNCHANGED <<pass, outcome, at>>
       PROVE  Cells'
    BY <1>17 DEF EnqueueCopy
  <1>18. ASSUME RecordCopy, UNCHANGED <<pass, outcome, at>>
       PROVE  Cells'
    BY <1>18 DEF RecordCopy
  <1>19. ASSUME AnnounceCopy, UNCHANGED <<pass, outcome, at>>
       PROVE  Cells'
    BY <1>19 DEF AnnounceCopy
  <1>20. ASSUME EnqueueCompute, UNCHANGED <<pass, outcome, at>>
       PROVE  Cells'
    BY <1>20 DEF EnqueueCompute
  <1>21. ASSUME ReadFails
       PROVE  Cells'
    BY <1>21 DEF ReadFails
  <1>22. ASSUME StorageFails
       PROVE  Cells'
    BY <1>22 DEF StorageFails
  <1>23. ASSUME Interrupt
       PROVE  Cells'
    BY <1>23 DEF Interrupt
  <1>24. ASSUME JoinWorker
       PROVE  Cells'
    BY <1>24 DEF JoinWorker
  <1>25. ASSUME Synchronize
       PROVE  Cells'
    BY <1>25 DEF Synchronize
  <1>26. ASSUME NextPass
       PROVE  Cells'
    BY <1>26 DEF NextPass
  <1>27. ASSUME LastPass
       PROVE  Cells'
    BY <1>27 DEF LastPass
  <1>28. ASSUME CloseReader
       PROVE  Cells'
    BY <1>28 DEF CloseReader
  <1>29. ASSUME Exit
       PROVE  Cells'
    BY <1>29 DEF Exit
  <1>30. ASSUME WorkerWaits, UNCHANGED <<pass, outcome, at>>
       PROVE  Cells'
    BY <1>30 DEF WorkerWaits
  <1>31. ASSUME WorkerSynchronizes, UNCHANGED <<pass, outcome, at>>
       PROVE  Cells'
    BY <1>31 DEF WorkerSynchronizes
  <1>32. ASSUME WorkerReads, UNCHANGED <<pass, outcome, at>>
       PROVE  Cells'
    BY <1>32 DEF WorkerReads
  <1>33. ASSUME WorkerFails, UNCHANGED <<pass, outcome, at>>
       PROVE  Cells'
    BY <1>33 DEF WorkerFails
  <1>34. ASSUME WorkerReleases, UNCHANGED <<pass, outcome, at>>
       PROVE  Cells'
    BY <1>34 DEF WorkerReleases
  <1>35. ASSUME NEW s \in Streams, OpControls(s), UNCHANGED <<threads, pass, outcome, at>>
       PROVE  Cells'
    BY <1>35 DEF OpControls
  <1> HIDE DEF Cells, Data, PlaceInv, SyncLabels, DoubleLabels, SyncInv, PipeInv, MainInv,
      CountInv, FillInv, Filling, WorkerInv, WorkerEnded, NoSums, Goto, Unwind, Joins, main,
      threads, ofMain, ofWorker, buffers, gpu, StageStart, StageFinish, StorageReady, EnqueueSum,
      EnqueueRecord, Enqueue
  <1>36. QED BY <1>1, <1>2, <1>3, <1>4, <1>5, <1>6, <1>7, <1>8, <1>9, <1>10, <1>11, <1>12, <1>13,
       <1>14, <1>15, <1>16, <1>17, <1>18, <1>19, <1>20, <1>21, <1>22, <1>23, <1>24, <1>25, <1>26,
       <1>27, <1>28, <1>29, <1>30, <1>31, <1>32, <1>33, <1>34, <1>35
       DEF Next, MainStep, Runner, SyncStep, DoubleStep, ThreeStageStep, StorageStep, WorkerStep,
           DeviceStep, StreamStep

\* Every step keeps the types of the streams and the events.
LEMMA QueuesStep == IInv /\ Next => Queues'
  <1> SUFFICES ASSUME IInv, Next PROVE Queues'
    OBVIOUS
  <1>0. TypeOK /\ PlaceInv /\ RunningInv /\ Queues /\ (Variant = "sync" => SyncInv)
        /\ (Variant # "sync" => PipeInv)
        /\ (Variant = "three_stage" => WorkerInv)
    BY TypeParts DEF IInv
  <1>1. ASSUME SyncCopy, UNCHANGED <<threads, pass, outcome, at>>
       PROVE  Queues'
    <2>1. Copy(block, 0, 0) \in Operation
      BY <1>0, <1>1, Streaming DEF SyncCopy, PlaceInv, SyncLabels, SyncInv, Copy, Operation, Block
    <2>2. stream' = [stream EXCEPT !["compute"] = @ \o <<Copy(block, 0, 0)>>] /\ event' = event
      BY <1>1 DEF SyncCopy, Enqueue
    <2>3. QED BY <1>0, <2>1, <2>2 DEF Queues, Streams
  <1>2. ASSUME SyncSum, UNCHANGED <<threads, pass, outcome, at>>
       PROVE  Queues'
    <2>1. Sum(block, 0) \in Operation
      BY <1>0, <1>2, Streaming DEF SyncSum, PlaceInv, SyncLabels, SyncInv, Sum, Operation, Block
    <2>2. stream' = [stream EXCEPT !["compute"] = @ \o <<Sum(block, 0)>>] /\ event' = event
      BY <1>2 DEF SyncSum, Enqueue
    <2>3. QED BY <1>0, <2>1, <2>2 DEF Queues, Streams
  <1>3. ASSUME DoubleSlot, UNCHANGED <<threads, pass, outcome, at>>
       PROVE  Queues'
    <2>1. Variant # "sync"
      BY <1>0, <1>3 DEF DoubleSlot, PlaceInv, DoubleLabels, ThreeLabels
    <2>2. stream'["copy"] \in Seq(Operation) /\ stream'["compute"] \in Seq(Operation)
      BY <1>0, <1>3, <2>1, SlotStreams DEF PipeInv, DoubleSlot
    <2>3. /\ DOMAIN stream' = Streams /\ stream' = [s \in Streams |-> stream'[s]]
          /\ event' \in [Events -> {"new", "recorded", "complete"}]
      BY <1>0, <1>3 DEF Queues, DoubleSlot, Enqueue
    <2>4. QED BY <2>2, <2>3 DEF Queues, Streams
  <1>4. ASSUME DoubleCopy, UNCHANGED <<threads, pass, outcome, at>>
       PROVE  Queues'
    <2>1. Variant # "sync"
      BY <1>0, <1>4 DEF DoubleCopy, PlaceInv, DoubleLabels, ThreeLabels
    <2>2. stream'["copy"] \in Seq(Operation) /\ stream'["compute"] \in Seq(Operation)
      BY <1>0, <1>4, <2>1, DoubleCopyStreams DEF PipeInv, DoubleCopy
    <2>3. /\ DOMAIN stream' = Streams /\ stream' = [s \in Streams |-> stream'[s]]
          /\ event' \in [Events -> {"new", "recorded", "complete"}]
      BY <1>0, <1>4 DEF Queues, DoubleCopy, Enqueue, EnqueueRecord
    <2>4. QED BY <2>2, <2>3 DEF Queues, Streams
  <1>5. ASSUME DoubleCompute, UNCHANGED <<threads, pass, outcome, at>>
       PROVE  Queues'
    <2>1. Variant # "sync"
      BY <1>0, <1>5 DEF DoubleCompute, PlaceInv, DoubleLabels, ThreeLabels
    <2>2. stream'["copy"] \in Seq(Operation) /\ stream'["compute"] \in Seq(Operation)
      BY <1>0, <1>5, <2>1, SumStreams DEF PipeInv, DoubleCompute
    <2>3. /\ DOMAIN stream' = Streams /\ stream' = [s \in Streams |-> stream'[s]]
          /\ event' \in [Events -> {"new", "recorded", "complete"}]
      BY <1>0, <1>5 DEF Queues, DoubleCompute, EnqueueSum, Enqueue, EnqueueRecord
    <2>4. QED BY <2>2, <2>3 DEF Queues, Streams
  <1>6. ASSUME EnqueueCopy, UNCHANGED <<pass, outcome, at>>
       PROVE  Queues'
    <2>1. Variant # "sync"
      BY <1>0, <1>6 DEF EnqueueCopy, PlaceInv, DoubleLabels, ThreeLabels
    <2>2. stream'["copy"] \in Seq(Operation) /\ stream'["compute"] \in Seq(Operation)
      BY <1>0, <1>6, <2>1, EnqueueCopyStreams DEF PipeInv, EnqueueCopy
    <2>3. /\ DOMAIN stream' = Streams /\ stream' = [s \in Streams |-> stream'[s]]
          /\ event' \in [Events -> {"new", "recorded", "complete"}]
      BY <1>0, <1>6 DEF Queues, EnqueueCopy, Enqueue
    <2>4. QED BY <2>2, <2>3 DEF Queues, Streams
  <1>7. ASSUME RecordCopy, UNCHANGED <<pass, outcome, at>>
       PROVE  Queues'
    <2>1. Variant # "sync"
      BY <1>0, <1>7 DEF RecordCopy, PlaceInv, DoubleLabels, ThreeLabels
    <2>2. stream'["copy"] \in Seq(Operation) /\ stream'["compute"] \in Seq(Operation)
      BY <1>0, <1>7, <2>1, RecordCopyStreams DEF PipeInv, RecordCopy
    <2>3. /\ DOMAIN stream' = Streams /\ stream' = [s \in Streams |-> stream'[s]]
          /\ event' \in [Events -> {"new", "recorded", "complete"}]
      BY <1>0, <1>7 DEF Queues, RecordCopy, Enqueue, EnqueueRecord
    <2>4. QED BY <2>2, <2>3 DEF Queues, Streams
  <1>8. ASSUME EnqueueCompute, UNCHANGED <<pass, outcome, at>>
       PROVE  Queues'
    <2>1. Variant # "sync"
      BY <1>0, <1>8 DEF EnqueueCompute, PlaceInv, DoubleLabels, ThreeLabels
    <2>2. stream'["copy"] \in Seq(Operation) /\ stream'["compute"] \in Seq(Operation)
      BY <1>0, <1>8, <2>1, SumStreams DEF PipeInv, EnqueueCompute
    <2>3. /\ DOMAIN stream' = Streams /\ stream' = [s \in Streams |-> stream'[s]]
          /\ event' \in [Events -> {"new", "recorded", "complete"}]
      BY <1>0, <1>8 DEF Queues, EnqueueCompute, EnqueueSum, Enqueue, EnqueueRecord
    <2>4. QED BY <2>2, <2>3 DEF Queues, Streams
  <1>9. ASSUME NEW s \in Streams, OpFinishes(s), UNCHANGED <<threads, pass, outcome, at>>
       PROVE  Queues'
    <2>1. stream[s] # <<>> /\ stream[s] \in Seq(Operation)
      BY <1>0, <1>9 DEF OpFinishes, Streams, RunningInv, Queues
    <2>2. Tail(stream[s]) \in Seq(Operation)
      BY <2>1, Popped
    <2>3. stream' = [stream EXCEPT ![s] = Tail(@)] /\ event' = event
      BY <1>9 DEF OpFinishes
    <2>4. QED BY <1>0, <2>2, <2>3 DEF Queues
  <1>10. ASSUME NEW s \in Streams, OpControls(s), UNCHANGED <<threads, pass, outcome, at>>
       PROVE  Queues'
    <2>1. /\ event' = event \/ \E e \in Events : event' = [event EXCEPT ![e] = "complete"]
          /\ stream' = [stream EXCEPT ![s] = Tail(@)] /\ stream[s] # <<>>
      <3>1. Head(stream[s]) \in Operation
        BY <1>0, <1>10 DEF Queues, OpControls
      <3>2. Head(stream[s]).op = "record" => Head(stream[s]).event \in Events
        BY <3>1 DEF Operation
      <3>3. QED BY <1>10, <3>2 DEF OpControls
    <2>2. event' \in [Events -> {"new", "recorded", "complete"}]
      BY <1>0, <2>1 DEF Queues
    <2>3. stream' \in [Streams -> Seq(Operation)]
      BY <1>0, <2>1 DEF Queues
    <2>4. QED BY <2>2, <2>3 DEF Queues
  <1> USE <1>0, Streaming DEF Queues, NoEvents, PlaceInv, SyncLabels, DoubleLabels, ThreeLabels,
      SyncInv, PipeInv, MainInv, CountInv, FillInv, Filling, Streams, Goto, Unwind, Joins, main,
      threads, ofMain, ofWorker, buffers, gpu, StageStart, StageFinish, StorageReady, EnqueueSum,
      EnqueueRecord, Enqueue
  <1>11. ASSUME SyncRead, UNCHANGED <<threads, pass, outcome, at>>
       PROVE  Queues'
    BY <1>11 DEF SyncRead
  <1>12. ASSUME SyncStage, UNCHANGED <<threads, pass, outcome, at>>
       PROVE  Queues'
    BY <1>12 DEF SyncStage
  <1>13. ASSUME SyncDrain, UNCHANGED <<threads, pass, outcome, at>>
       PROVE  Queues'
    BY <1>13 DEF SyncDrain
  <1>14. ASSUME DoubleRead, UNCHANGED <<threads, pass, outcome, at>>
       PROVE  Queues'
    BY <1>14 DEF DoubleRead
  <1>15. ASSUME DoubleStage, UNCHANGED <<threads, pass, outcome, at>>
       PROVE  Queues'
    BY <1>15 DEF DoubleStage
  <1>16. ASSUME StartWorker, UNCHANGED <<pass, outcome, at>>
       PROVE  Queues'
    BY <1>16 DEF StartWorker
  <1>17. ASSUME EnterTry, UNCHANGED <<pass, outcome, at>>
       PROVE  Queues'
    BY <1>17 DEF EnterTry
  <1>18. ASSUME WaitForStorage, UNCHANGED <<pass, outcome, at>>
       PROVE  Queues'
    BY <1>18 DEF WaitForStorage
  <1>19. ASSUME AnnounceCopy, UNCHANGED <<pass, outcome, at>>
       PROVE  Queues'
    BY <1>19 DEF AnnounceCopy
  <1>20. ASSUME ReadFails
       PROVE  Queues'
    BY <1>20 DEF ReadFails
  <1>21. ASSUME StorageFails
       PROVE  Queues'
    BY <1>21 DEF StorageFails
  <1>22. ASSUME Interrupt
       PROVE  Queues'
    BY <1>22 DEF Interrupt
  <1>23. ASSUME JoinWorker
       PROVE  Queues'
    BY <1>23 DEF JoinWorker
  <1>24. ASSUME Synchronize
       PROVE  Queues'
    BY <1>24 DEF Synchronize
  <1>25. ASSUME NextPass
       PROVE  Queues'
    BY <1>25 DEF NextPass
  <1>26. ASSUME LastPass
       PROVE  Queues'
    BY <1>26 DEF LastPass
  <1>27. ASSUME CloseReader
       PROVE  Queues'
    BY <1>27 DEF CloseReader
  <1>28. ASSUME Exit
       PROVE  Queues'
    BY <1>28 DEF Exit
  <1>29. ASSUME WorkerWaits, UNCHANGED <<pass, outcome, at>>
       PROVE  Queues'
    BY <1>29 DEF WorkerWaits
  <1>30. ASSUME WorkerSynchronizes, UNCHANGED <<pass, outcome, at>>
       PROVE  Queues'
    BY <1>30 DEF WorkerSynchronizes
  <1>31. ASSUME WorkerReads, UNCHANGED <<pass, outcome, at>>
       PROVE  Queues'
    BY <1>31 DEF WorkerReads
  <1>32. ASSUME WorkerStages, UNCHANGED <<pass, outcome, at>>
       PROVE  Queues'
    BY <1>32 DEF WorkerStages
  <1>33. ASSUME WorkerFails, UNCHANGED <<pass, outcome, at>>
       PROVE  Queues'
    BY <1>33 DEF WorkerFails
  <1>34. ASSUME WorkerReleases, UNCHANGED <<pass, outcome, at>>
       PROVE  Queues'
    BY <1>34 DEF WorkerReleases
  <1>35. ASSUME NEW s \in Streams, OpStarts(s), UNCHANGED <<threads, pass, outcome, at>>
       PROVE  Queues'
    BY <1>35 DEF OpStarts
  <1> HIDE DEF Queues, NoEvents, PlaceInv, SyncLabels, DoubleLabels, ThreeLabels, SyncInv,
      PipeInv, MainInv, CountInv, FillInv, Filling, Streams, Goto, Unwind, Joins, main, threads,
      ofMain, ofWorker, buffers, gpu, StageStart, StageFinish, StorageReady, EnqueueSum,
      EnqueueRecord, Enqueue
  <1>36. QED BY <1>1, <1>2, <1>3, <1>4, <1>5, <1>6, <1>7, <1>8, <1>9, <1>10, <1>11, <1>12, <1>13,
       <1>14, <1>15, <1>16, <1>17, <1>18, <1>19, <1>20, <1>21, <1>22, <1>23, <1>24, <1>25, <1>26,
       <1>27, <1>28, <1>29, <1>30, <1>31, <1>32, <1>33, <1>34, <1>35
       DEF Next, MainStep, Runner, SyncStep, DoubleStep, ThreeStageStep, StorageStep, WorkerStep,
           DeviceStep, StreamStep

\* Every step keeps the types.
LEMMA TypeStep == IInv /\ Next => TypeOK'
  <1>1. TypeOK' <=> Scalars' /\ Counters' /\ Cells' /\ Queues'
    BY DEF TypeOK, ContextTypeOK, ThreadsTypeOK, Scalars, Counters, Cells, Queues
  <1>2. QED BY <1>1, ScalarsStep, CountersStep, CellsStep, QueuesStep

------------------------------------------------------------------------------
(* A pass of run_sync. *)

\* A stream with one operation.
LEMMA OneOperation ==
    /\ \A o : <<o>> # <<>> /\ Head(<<o>>) = o /\ Tail(<<o>>) = <<>>
    /\ \A o : <<>> \o <<o>> = <<o>>
  OBVIOUS

\* A pass of run_sync keeps its invariant, until the next pass begins.
LEMMA SyncInvStep ==
    ASSUME TypeOK, PlaceInv, RunningInv, SyncInv, Variant = "sync", Next, pass' = pass
    PROVE  SyncInv' /\ RunningInv'
  <1>0. /\ TypeOK /\ PlaceInv /\ RunningInv /\ SyncInv /\ Variant = "sync" /\ pass' = pass
        /\ Blocks \in Nat \ {0} /\ block \in Nat /\ Zero \notin Nat
        /\ \A b \in Block : b \in Nat
    BY Streaming, BlocksAssumption
  <1>1. ASSUME SyncDrain, UNCHANGED <<threads, pass, outcome, at>>
       PROVE  SyncInv' /\ RunningInv'
    <2>1. /\ pc = "sync.drain" /\ stream["copy"] = <<>> /\ stream["compute"] = <<>>
          /\ block' = block + 1
                /\ UNCHANGED <<next, pinned, device, sums, offset, event, stream, running>>
          /\ pc' = IF block + 1 < Blocks THEN "sync.read" ELSE "synchronize"
      BY <1>1 DEF SyncDrain, DeviceIdle, Streams, Goto, buffers, gpu
    <2>2. /\ running["compute"] = Idle /\ running["copy"] = Idle /\ block < Blocks
          /\ offset = block + 1 /\ sums[block] = block
      BY <1>0, <2>1 DEF SyncInv, RunningInv, Streams, SyncLabels
    <2>3. \A b \in Block : b < block + 1 => sums[b] = b
      BY <1>0, <2>2 DEF SyncInv
    <2>4. \A b \in Block : b > block => sums[b] = Zero
      BY <1>0 DEF SyncInv
    <2>5. block + 1 < Blocks => sums[block + 1] = Zero
      <3>1. block + 1 < Blocks => block + 1 \in Block /\ block + 1 > block
        BY <1>0 DEF Block
      <3>2. QED BY <2>4, <3>1
    <2>6. \A b \in Block : b > block + 1 => sums[b] = Zero
      BY <1>0, <2>4
    <2>7. RunningInv'
      BY <1>0, <2>1 DEF RunningInv
    <2>8. ~(block + 1 < Blocks) => block + 1 = Blocks
      BY <1>0, <2>2
    <2>9. SyncInv'
      BY <2>1, <2>2, <2>3, <2>5, <2>6, <2>8 DEF SyncInv, SyncLabels
    <2>10. QED BY <2>7, <2>9
  <1>2. ASSUME NEW s \in Streams, OpStarts(s), UNCHANGED <<threads, pass, outcome, at>>
       PROVE  SyncInv' /\ RunningInv'
    <2>1. s = "compute" /\ stream["compute"] # <<>>
      BY <1>0, <1>2 DEF SyncInv, OpStarts, Streams
    <2>2. PICK o :
            /\ o = Head(stream["compute"])
            /\ running' = [running EXCEPT !["compute"] = Source(o)]
            /\ device' = IF o.op = "copy" THEN [device EXCEPT ![o.to] = Garbage] ELSE device
      BY <1>2, <2>1 DEF OpStarts
    <2>3. UNCHANGED <<pc, block, next, pinned, sums, offset, closed, event, stream, outcome>>
      BY <1>2 DEF OpStarts, main
    <2>4. running'["compute"] = Source(o) /\ running'["copy"] = running["copy"]
      BY <1>0, <2>2 DEF TypeOK, ContextTypeOK, Streams
    <2>5. CASE stream["compute"] = <<Copy(block, 0, 0)>> /\ pinned[0] = block /\ block < Blocks
      <3>1. o.op = "copy" /\ o.from = 0 /\ o.to = 0
        BY <2>2, <2>5, OneOperation DEF Copy
      <3>2. Source(o) = block
        BY <2>5, <3>1 DEF Source
      <3>3. stream["compute"] # <<Sum(block, 0)>>
        BY <2>5 DEF Sum, Copy
      <3>4. pc \notin {"sync.read", "sync.stage", "sync.copy"} /\ (pc = "sync.drain" => FALSE)
        BY <1>0, <2>1, <2>5, <3>3 DEF SyncInv
      <3>5. SyncInv'
        BY <1>0, <2>1, <2>3, <2>4, <2>5, <3>2, <3>4 DEF SyncInv
      <3>6. RunningInv'
        BY <1>0, <2>1, <2>3, <2>4 DEF RunningInv, Streams
      <3>7. QED BY <3>5, <3>6
    <2>6. CASE stream["compute"] = <<Sum(block, 0)>> /\ device[0] = block /\ block < Blocks
      <3>1. o.op = "sum" /\ o.slot = 0
        BY <2>2, <2>6, OneOperation DEF Sum
      <3>2. Source(o) = block /\ device' = device
        BY <2>2, <2>6, <3>1 DEF Source
      <3>5. SyncInv'
        BY <1>0, <2>1, <2>3, <2>4, <2>6, <3>2 DEF SyncInv
      <3>6. RunningInv'
        BY <1>0, <2>1, <2>3, <2>4 DEF RunningInv, Streams
      <3>7. QED BY <3>5, <3>6
    <2>7. QED BY <1>0, <2>1, <2>5, <2>6 DEF SyncInv
  <1>3. ASSUME NEW s \in Streams, OpFinishes(s), UNCHANGED <<threads, pass, outcome, at>>
       PROVE  SyncInv' /\ RunningInv'
    <2>1. s = "compute" /\ stream["compute"] # <<>> /\ running["compute"] = block
      BY <1>0, <1>3 DEF SyncInv, RunningInv, OpFinishes, Streams
    <2>2. PICK o :
            /\ o = Head(stream["compute"]) /\ running' = [running EXCEPT !["compute"] = Idle]
            /\ \/ /\ o.op = "copy" /\ UNCHANGED sums
                  /\ device' = [device EXCEPT ![o.to] =
                        IF Source(o) = running["compute"] THEN Source(o) ELSE Garbage]
               \/ /\ o.op = "sum" /\ UNCHANGED device
                  /\ sums' = [sums EXCEPT ![o.block] =
                        IF Source(o) = running["compute"] THEN Source(o) ELSE Garbage]
      BY <1>3, <2>1 DEF OpFinishes
    <2>3. /\ UNCHANGED <<pc, block, next, pinned, offset, closed, event, outcome>>
          /\ stream' = [stream EXCEPT !["compute"] = Tail(@)]
      BY <1>3, <2>1 DEF OpFinishes, main
    <2>4. /\ running'["compute"] = Idle /\ running'["copy"] = running["copy"]
          /\ stream'["compute"] = Tail(stream["compute"]) /\ stream'["copy"] = stream["copy"]
      BY <1>0, <2>2, <2>3 DEF TypeOK, ContextTypeOK, Streams
    <2>7. RunningInv'
      BY <1>0, <2>4 DEF RunningInv, Streams
    <2>5. CASE stream["compute"] = <<Copy(block, 0, 0)>> /\ pinned[0] = block /\ block < Blocks
      <3>1. o.op = "copy" /\ o.from = 0 /\ o.to = 0 /\ stream'["compute"] = <<>>
        BY <2>2, <2>4, <2>5, OneOperation DEF Copy
      <3>2. Source(o) = block
        BY <2>5, <3>1 DEF Source
      <3>3. device' = [device EXCEPT ![0] = block] /\ sums' = sums
        BY <2>1, <2>2, <3>1, <3>2
      <3>4. device'[0] = block
        BY <1>0, <3>3, BuffersTypes
      <3>8. stream["compute"] # <<Sum(block, 0)>>
        BY <2>5 DEF Sum, Copy
      <3>9. pc \notin {"sync.read", "sync.stage", "sync.copy", "sync.drain", "synchronize",
            "verify"}
        BY <1>0, <2>1, <2>5, <3>8 DEF SyncInv
      <3>5. SyncInv'
        BY <1>0, <2>1, <2>3, <2>4, <2>5, <3>1, <3>3, <3>4, <3>9 DEF SyncInv
      <3>7. QED BY <2>7, <3>5
    <2>6. CASE stream["compute"] = <<Sum(block, 0)>> /\ device[0] = block /\ block < Blocks
      <3>1. o.op = "sum" /\ o.slot = 0 /\ o.block = block /\ stream'["compute"] = <<>>
        BY <2>2, <2>4, <2>6, OneOperation DEF Sum
      <3>2. Source(o) = block /\ device' = device
        BY <2>2, <2>6, <3>1 DEF Source
      <3>3. sums' = [sums EXCEPT ![block] = block]
        BY <2>1, <2>2, <3>1, <3>2
      <3>4. \A b \in Block : sums'[b] = IF b = block THEN block ELSE sums[b]
        BY <1>0, <3>3, BuffersTypes
      <3>8. stream["compute"] # <<Copy(block, 0, 0)>> /\ block \in Block
        BY <1>0, <2>6 DEF Sum, Copy, Block
      <3>9. pc \notin SyncLabels \ {"sync.drain"} /\ pc \notin {"synchronize", "verify"}
        BY <1>0, <2>1, <2>6, <3>8 DEF SyncInv, SyncLabels
      <3>5. SyncInv'
        BY <1>0, <2>1, <2>3, <2>4, <2>6, <3>1, <3>2, <3>4, <3>8, <3>9 DEF SyncInv, SyncLabels
      <3>7. QED BY <2>7, <3>5
    <2>8. QED BY <1>0, <2>1, <2>5, <2>6 DEF SyncInv
  <1>4. ASSUME NEW s \in Streams, OpControls(s), UNCHANGED <<threads, pass, outcome, at>>
       PROVE  SyncInv' /\ RunningInv'
    <2>1. s = "compute" /\ stream["compute"] # <<>>
      BY <1>0, <1>4 DEF SyncInv, OpControls, Streams
    <2>2. Head(stream["compute"]) \in {Copy(block, 0, 0), Sum(block, 0)}
      BY <1>0, <2>1, OneOperation DEF SyncInv
    <2>3. Head(stream["compute"]).op \in {"copy", "sum"}
      BY <2>2 DEF Copy, Sum
    <2>4. QED BY <1>4, <2>1, <2>3 DEF OpControls
  <1> USE <1>0, OneOperation, BuffersTypes, Streaming DEF SyncInv, RunningInv, PlaceInv,
      SyncLabels, DoubleLabels, ThreeLabels, LastLabels, Streams, TypeOK, ContextTypeOK,
      WorkerEnded, Goto, Unwind, Joins, main, threads, ofMain, ofWorker, buffers, gpu, StageStart,
      StageFinish, StorageReady, EnqueueSum, EnqueueRecord, Enqueue, DeviceIdle
  <1>5. ASSUME SyncRead, UNCHANGED <<threads, pass, outcome, at>>
       PROVE  SyncInv' /\ RunningInv'
    BY <1>5 DEF SyncRead
  <1>6. ASSUME SyncStage, UNCHANGED <<threads, pass, outcome, at>>
       PROVE  SyncInv' /\ RunningInv'
    BY <1>6 DEF SyncStage
  <1>7. ASSUME SyncCopy, UNCHANGED <<threads, pass, outcome, at>>
       PROVE  SyncInv' /\ RunningInv'
    BY <1>7 DEF SyncCopy
  <1>8. ASSUME SyncSum, UNCHANGED <<threads, pass, outcome, at>>
       PROVE  SyncInv' /\ RunningInv'
    BY <1>8 DEF SyncSum
  <1>9. ASSUME DoubleSlot, UNCHANGED <<threads, pass, outcome, at>>
       PROVE  SyncInv' /\ RunningInv'
    BY <1>9 DEF DoubleSlot
  <1>10. ASSUME DoubleRead, UNCHANGED <<threads, pass, outcome, at>>
       PROVE  SyncInv' /\ RunningInv'
    BY <1>10 DEF DoubleRead
  <1>11. ASSUME DoubleStage, UNCHANGED <<threads, pass, outcome, at>>
       PROVE  SyncInv' /\ RunningInv'
    BY <1>11 DEF DoubleStage
  <1>12. ASSUME DoubleCopy, UNCHANGED <<threads, pass, outcome, at>>
       PROVE  SyncInv' /\ RunningInv'
    BY <1>12 DEF DoubleCopy
  <1>13. ASSUME DoubleCompute, UNCHANGED <<threads, pass, outcome, at>>
       PROVE  SyncInv' /\ RunningInv'
    BY <1>13 DEF DoubleCompute
  <1>14. ASSUME StartWorker, UNCHANGED <<pass, outcome, at>>
       PROVE  SyncInv' /\ RunningInv'
    BY <1>14 DEF StartWorker
  <1>15. ASSUME EnterTry, UNCHANGED <<pass, outcome, at>>
       PROVE  SyncInv' /\ RunningInv'
    BY <1>15 DEF EnterTry
  <1>16. ASSUME WaitForStorage, UNCHANGED <<pass, outcome, at>>
       PROVE  SyncInv' /\ RunningInv'
    BY <1>16 DEF WaitForStorage
  <1>17. ASSUME EnqueueCopy, UNCHANGED <<pass, outcome, at>>
       PROVE  SyncInv' /\ RunningInv'
    BY <1>17 DEF EnqueueCopy
  <1>18. ASSUME RecordCopy, UNCHANGED <<pass, outcome, at>>
       PROVE  SyncInv' /\ RunningInv'
    BY <1>18 DEF RecordCopy
  <1>19. ASSUME AnnounceCopy, UNCHANGED <<pass, outcome, at>>
       PROVE  SyncInv' /\ RunningInv'
    BY <1>19 DEF AnnounceCopy
  <1>20. ASSUME EnqueueCompute, UNCHANGED <<pass, outcome, at>>
       PROVE  SyncInv' /\ RunningInv'
    BY <1>20 DEF EnqueueCompute
  <1>21. ASSUME ReadFails
       PROVE  SyncInv' /\ RunningInv'
    BY <1>21 DEF ReadFails
  <1>22. ASSUME StorageFails
       PROVE  SyncInv' /\ RunningInv'
    BY <1>22 DEF StorageFails
  <1>23. ASSUME Interrupt
       PROVE  SyncInv' /\ RunningInv'
    BY <1>23 DEF Interrupt
  <1>24. ASSUME JoinWorker
       PROVE  SyncInv' /\ RunningInv'
    BY <1>24 DEF JoinWorker
  <1>25. ASSUME Synchronize
       PROVE  SyncInv' /\ RunningInv'
    BY <1>25 DEF Synchronize
  <1>26. ASSUME NextPass
       PROVE  SyncInv' /\ RunningInv'
    BY <1>26 DEF NextPass
  <1>27. ASSUME LastPass
       PROVE  SyncInv' /\ RunningInv'
    BY <1>27 DEF LastPass
  <1>28. ASSUME CloseReader
       PROVE  SyncInv' /\ RunningInv'
    BY <1>28 DEF CloseReader
  <1>29. ASSUME Exit
       PROVE  SyncInv' /\ RunningInv'
    BY <1>29 DEF Exit
  <1>30. ASSUME WorkerWaits, UNCHANGED <<pass, outcome, at>>
       PROVE  SyncInv' /\ RunningInv'
    BY <1>30 DEF WorkerWaits
  <1>31. ASSUME WorkerSynchronizes, UNCHANGED <<pass, outcome, at>>
       PROVE  SyncInv' /\ RunningInv'
    BY <1>31 DEF WorkerSynchronizes
  <1>32. ASSUME WorkerReads, UNCHANGED <<pass, outcome, at>>
       PROVE  SyncInv' /\ RunningInv'
    BY <1>32 DEF WorkerReads
  <1>33. ASSUME WorkerStages, UNCHANGED <<pass, outcome, at>>
       PROVE  SyncInv' /\ RunningInv'
    BY <1>33 DEF WorkerStages
  <1>34. ASSUME WorkerFails, UNCHANGED <<pass, outcome, at>>
       PROVE  SyncInv' /\ RunningInv'
    BY <1>34 DEF WorkerFails
  <1>35. ASSUME WorkerReleases, UNCHANGED <<pass, outcome, at>>
       PROVE  SyncInv' /\ RunningInv'
    BY <1>35 DEF WorkerReleases
  <1> HIDE DEF SyncInv, RunningInv, PlaceInv, SyncLabels, DoubleLabels, ThreeLabels, LastLabels,
      Streams, TypeOK, ContextTypeOK, WorkerEnded, Goto, Unwind, Joins, main, threads, ofMain,
      ofWorker, buffers, gpu, StageStart, StageFinish, StorageReady, EnqueueSum, EnqueueRecord,
      Enqueue, DeviceIdle
  <1>36. QED BY <1>1, <1>2, <1>3, <1>4, <1>5, <1>6, <1>7, <1>8, <1>9, <1>10, <1>11, <1>12, <1>13,
       <1>14, <1>15, <1>16, <1>17, <1>18, <1>19, <1>20, <1>21, <1>22, <1>23, <1>24, <1>25, <1>26,
       <1>27, <1>28, <1>29, <1>30, <1>31, <1>32, <1>33, <1>34, <1>35
       DEF Next, MainStep, Runner, SyncStep, DoubleStep, ThreeStageStep, StorageStep, WorkerStep,
           DeviceStep, StreamStep

\* A pass of an overlapped variant keeps its invariant, until the next pass begins.
LEMMA PipeStep ==
    ASSUME PipeState, Variant # "sync", Next, pass' = pass
    PROVE  /\ PipeInv' /\ RunningInv'
           /\ Variant = "three_stage" => WorkerInv'
  <1>0. PipeState /\ PlaceInv /\ Variant # "sync" /\ UNCHANGED <<pass>> /\ pass \in Nat
    BY VariantsAssumption DEF PipeState, TypeOK
  <1>1. ASSUME SyncRead, UNCHANGED <<threads, pass, outcome, at>>
       PROVE  PipeInv' /\ RunningInv' /\ (Variant = "three_stage" => WorkerInv')
    BY <1>0, <1>1 DEF PlaceInv, SyncLabels, SyncRead
  <1>2. ASSUME SyncStage, UNCHANGED <<threads, pass, outcome, at>>
       PROVE  PipeInv' /\ RunningInv' /\ (Variant = "three_stage" => WorkerInv')
    BY <1>0, <1>2 DEF PlaceInv, SyncLabels, SyncStage
  <1>3. ASSUME SyncCopy, UNCHANGED <<threads, pass, outcome, at>>
       PROVE  PipeInv' /\ RunningInv' /\ (Variant = "three_stage" => WorkerInv')
    BY <1>0, <1>3 DEF PlaceInv, SyncLabels, SyncCopy
  <1>4. ASSUME SyncSum, UNCHANGED <<threads, pass, outcome, at>>
       PROVE  PipeInv' /\ RunningInv' /\ (Variant = "three_stage" => WorkerInv')
    BY <1>0, <1>4 DEF PlaceInv, SyncLabels, SyncSum
  <1>5. ASSUME SyncDrain, UNCHANGED <<threads, pass, outcome, at>>
       PROVE  PipeInv' /\ RunningInv' /\ (Variant = "three_stage" => WorkerInv')
    BY <1>0, <1>5 DEF PlaceInv, SyncLabels, SyncDrain
  <1>6. ASSUME DoubleSlot, UNCHANGED <<threads, pass, outcome, at>>
       PROVE  PipeInv' /\ RunningInv' /\ (Variant = "three_stage" => WorkerInv')
    BY <1>0, <1>6, DoubleSlotStep
  <1>7. ASSUME DoubleRead, UNCHANGED <<threads, pass, outcome, at>>
       PROVE  PipeInv' /\ RunningInv' /\ (Variant = "three_stage" => WorkerInv')
    BY <1>0, <1>7, DoubleReadStep
  <1>8. ASSUME DoubleStage, UNCHANGED <<threads, pass, outcome, at>>
       PROVE  PipeInv' /\ RunningInv' /\ (Variant = "three_stage" => WorkerInv')
    BY <1>0, <1>8, DoubleStageStep
  <1>9. ASSUME DoubleCopy, UNCHANGED <<threads, pass, outcome, at>>
       PROVE  PipeInv' /\ RunningInv' /\ (Variant = "three_stage" => WorkerInv')
    BY <1>0, <1>9, DoubleCopyStep
  <1>10. ASSUME DoubleCompute, UNCHANGED <<threads, pass, outcome, at>>
       PROVE  PipeInv' /\ RunningInv' /\ (Variant = "three_stage" => WorkerInv')
    BY <1>0, <1>10, DoubleComputeStep
  <1>11. ASSUME StartWorker, UNCHANGED <<pass, outcome, at>>
       PROVE  PipeInv' /\ RunningInv' /\ (Variant = "three_stage" => WorkerInv')
    BY <1>0, <1>11, StartWorkerStep
  <1>12. ASSUME EnterTry, UNCHANGED <<pass, outcome, at>>
       PROVE  PipeInv' /\ RunningInv' /\ (Variant = "three_stage" => WorkerInv')
    BY <1>0, <1>12, EnterTryStep
  <1>13. ASSUME WaitForStorage, UNCHANGED <<pass, outcome, at>>
       PROVE  PipeInv' /\ RunningInv' /\ (Variant = "three_stage" => WorkerInv')
    BY <1>0, <1>13, WaitForStorageStep
  <1>14. ASSUME EnqueueCopy, UNCHANGED <<pass, outcome, at>>
       PROVE  PipeInv' /\ RunningInv' /\ (Variant = "three_stage" => WorkerInv')
    BY <1>0, <1>14, EnqueueCopyStep
  <1>15. ASSUME RecordCopy, UNCHANGED <<pass, outcome, at>>
       PROVE  PipeInv' /\ RunningInv' /\ (Variant = "three_stage" => WorkerInv')
    BY <1>0, <1>15, RecordCopyStep
  <1>16. ASSUME AnnounceCopy, UNCHANGED <<pass, outcome, at>>
       PROVE  PipeInv' /\ RunningInv' /\ (Variant = "three_stage" => WorkerInv')
    BY <1>0, <1>16, AnnounceCopyStep
  <1>17. ASSUME EnqueueCompute, UNCHANGED <<pass, outcome, at>>
       PROVE  PipeInv' /\ RunningInv' /\ (Variant = "three_stage" => WorkerInv')
    BY <1>0, <1>17, EnqueueComputeStep
  <1>18. ASSUME ReadFails
       PROVE  PipeInv' /\ RunningInv' /\ (Variant = "three_stage" => WorkerInv')
    BY <1>0, <1>18, ReadFailsStep
  <1>19. ASSUME StorageFails
       PROVE  PipeInv' /\ RunningInv' /\ (Variant = "three_stage" => WorkerInv')
    BY <1>0, <1>19, StorageFailsStep
  <1>20. ASSUME Interrupt
       PROVE  PipeInv' /\ RunningInv' /\ (Variant = "three_stage" => WorkerInv')
    BY <1>0, <1>20, InterruptStep
  <1>21. ASSUME JoinWorker
       PROVE  PipeInv' /\ RunningInv' /\ (Variant = "three_stage" => WorkerInv')
    BY <1>0, <1>21, JoinWorkerStep
  <1>22. ASSUME Synchronize
       PROVE  PipeInv' /\ RunningInv' /\ (Variant = "three_stage" => WorkerInv')
    BY <1>0, <1>22, SynchronizeStep
  <1>23. ASSUME NextPass
       PROVE  PipeInv' /\ RunningInv' /\ (Variant = "three_stage" => WorkerInv')
    BY <1>0, <1>23 DEF NextPass
  <1>24. ASSUME LastPass
       PROVE  PipeInv' /\ RunningInv' /\ (Variant = "three_stage" => WorkerInv')
    BY <1>0, <1>24, LastPassStep
  <1>25. ASSUME CloseReader
       PROVE  PipeInv' /\ RunningInv' /\ (Variant = "three_stage" => WorkerInv')
    BY <1>0, <1>25, CloseReaderStep
  <1>26. ASSUME Exit
       PROVE  PipeInv' /\ RunningInv' /\ (Variant = "three_stage" => WorkerInv')
    BY <1>0, <1>26, ExitStep
  <1>27. ASSUME WorkerWaits, UNCHANGED <<pass, outcome, at>>
       PROVE  PipeInv' /\ RunningInv' /\ (Variant = "three_stage" => WorkerInv')
    BY <1>0, <1>27, WorkerWaitsStep
  <1>28. ASSUME WorkerSynchronizes, UNCHANGED <<pass, outcome, at>>
       PROVE  PipeInv' /\ RunningInv' /\ (Variant = "three_stage" => WorkerInv')
    BY <1>0, <1>28, WorkerSynchronizesStep
  <1>29. ASSUME WorkerReads, UNCHANGED <<pass, outcome, at>>
       PROVE  PipeInv' /\ RunningInv' /\ (Variant = "three_stage" => WorkerInv')
    <2>1. Variant = "three_stage"
      BY <1>0, <1>29 DEF PlaceInv, WorkerReads
    <2>2. QED BY <1>0, <1>29, <2>1, WorkerReadsStep
  <1>30. ASSUME WorkerStages, UNCHANGED <<pass, outcome, at>>
       PROVE  PipeInv' /\ RunningInv' /\ (Variant = "three_stage" => WorkerInv')
    <2>1. Variant = "three_stage"
      BY <1>0, <1>30 DEF PlaceInv, WorkerStages
    <2>2. QED BY <1>0, <1>30, <2>1, WorkerStagesStep
  <1>31. ASSUME WorkerFails, UNCHANGED <<pass, outcome, at>>
       PROVE  PipeInv' /\ RunningInv' /\ (Variant = "three_stage" => WorkerInv')
    BY <1>0, <1>31, WorkerFailsStep
  <1>32. ASSUME WorkerReleases, UNCHANGED <<pass, outcome, at>>
       PROVE  PipeInv' /\ RunningInv' /\ (Variant = "three_stage" => WorkerInv')
    BY <1>0, <1>32, WorkerReleasesStep
  <1>33. ASSUME NEW s \in Streams, OpStarts(s), UNCHANGED <<threads, pass, outcome, at>>
       PROVE  PipeInv' /\ RunningInv' /\ (Variant = "three_stage" => WorkerInv')
    <2>1. CASE s = "copy"
      BY <1>0, <1>33, <2>1, CopyStartStep
    <2>2. CASE s = "compute"
      BY <1>0, <1>33, <2>2, SumStartStep
    <2>3. QED BY <2>1, <2>2 DEF Streams
  <1>34. ASSUME NEW s \in Streams, OpFinishes(s), UNCHANGED <<threads, pass, outcome, at>>
       PROVE  PipeInv' /\ RunningInv' /\ (Variant = "three_stage" => WorkerInv')
    <2>1. CASE s = "copy"
      BY <1>0, <1>34, <2>1, CopyFinishStep
    <2>2. CASE s = "compute"
      BY <1>0, <1>34, <2>2, SumFinishStep
    <2>3. QED BY <2>1, <2>2 DEF Streams
  <1>35. ASSUME NEW s \in Streams, OpControls(s), UNCHANGED <<threads, pass, outcome, at>>
       PROVE  PipeInv' /\ RunningInv' /\ (Variant = "three_stage" => WorkerInv')
    <2>1. CASE s = "copy"
      BY <1>0, <1>35, <2>1, CopyControlStep
    <2>2. CASE s = "compute"
      BY <1>0, <1>35, <2>2, SumControlStep
    <2>3. QED BY <2>1, <2>2 DEF Streams
  <1>36. QED BY <1>1, <1>2, <1>3, <1>4, <1>5, <1>6, <1>7, <1>8, <1>9, <1>10, <1>11, <1>12, <1>13,
     <1>14, <1>15, <1>16, <1>17, <1>18, <1>19, <1>20, <1>21, <1>22, <1>23, <1>24, <1>25, <1>26,
           <1>27, <1>28, <1>29, <1>30, <1>31, <1>32, <1>33, <1>34, <1>35
       DEF Next, MainStep, Runner, SyncStep, DoubleStep, ThreeStageStep, StorageStep, WorkerStep,
           DeviceStep, StreamStep

------------------------------------------------------------------------------
(* The beginning of a pass. *)

\* What a pass begins with: fresh counters, sums and events, and an idle device.
Fresh ==
    /\ pc = Start(Variant) /\ outcome = "running" /\ ~closed
    /\ block = 0 /\ next = 0 /\ offset = 0 /\ sums = NoSums /\ event = NoEvents
    /\ stream["copy"] = <<>> /\ stream["compute"] = <<>>
    /\ running["copy"] = Idle /\ running["compute"] = Idle
    /\ worker = "none" /\ wblock = 0 /\ ~worker_errors
    /\ storage_done = NoBlock /\ h2d_enqueued = NoBlock

\* What the invariant says of the pass that runs.
PassInv == /\ RunningInv
           /\ Variant = "sync" => SyncInv
           /\ Variant # "sync" => PipeInv
           /\ Variant = "three_stage" => WorkerInv

\* A pass that begins has the invariant, whatever the buffers hold.
LEMMA FreshPass == TypeOK /\ Fresh => PassInv
  <1> SUFFICES ASSUME TypeOK, Fresh PROVE PassInv
    OBVIOUS
  <1>1. /\ Copies = {} /\ Sums = {} /\ Blocks \in Nat \ {0} /\ Zero \notin Nat
        /\ \A b \in Block : b \in Nat /\ b < Blocks
        /\ \A b \in Block : sums[b] = Zero /\ ~storage_done[b] /\ ~h2d_enqueued[b]
        /\ \A k \in {"h2d", "compute"}, b \in Block : event[<<k, b>>] = "new"
        /\ 0 \in Block
    BY BlocksAssumption DEF Fresh, Copies, Sums, Enqueued, Block, NoSums, NoBlock, NoEvents,
       Events
  <1>2. RunningInv
    BY DEF Fresh, RunningInv, Streams
  <1>3. ASSUME Variant = "sync" PROVE SyncInv
    <2>1. pc = "sync.read"
      BY <1>3 DEF Fresh, Start
    <2>2. QED BY <1>1, <2>1 DEF Fresh, SyncInv, SyncLabels
  <1>4. ASSUME Variant # "sync" PROVE PipeInv
    <2>1. pc \in {"double.read", "three.start"}
      BY <1>4, Modes DEF Fresh, Start
    <2>2. StreamsInv
      BY <1>1, EmptyQueue, Modes DEF Fresh, StreamsInv, CopyQueue, SumQueue, CopyShapes, SumShapes
    <2>3. RunsInv
      BY DEF Fresh, RunsInv
    <2>4. Top = 0
      BY <2>1 DEF Fresh, Top
    <2>5. BuffersInv
      BY <1>1, <2>4 DEF Fresh, BuffersInv
    <2>6. TopInv
      BY <1>1, <2>1 DEF Fresh, TopInv
    <2>7. CountInv
      BY <1>1, <2>1 DEF Fresh, CountInv, Filling
    <2>8. FillInv
      BY <1>1, <2>1 DEF Fresh, FillInv
    <2>9. QED BY <2>2, <2>3, <2>5, <2>6, <2>7, <2>8 DEF PipeInv, MainInv
  <1>5. ASSUME Variant = "three_stage" PROVE WorkerInv
    <2>1. pc = "three.start"
      BY <1>5 DEF Fresh, Start
    <2>2. WorkerEnded
      BY DEF Fresh, WorkerEnded
    <2>3. QED BY <1>1, <2>1, <2>2 DEF Fresh, WorkerInv
  <1>6. QED BY <1>2, <1>3, <1>4, <1>5 DEF PassInv

\* The same one step later.
LEMMA FreshNext == TypeOK' /\ Fresh' => PassInv'
  BY FreshPass, PTL

\* The next pass begins with all that the previous one left reset.
LEMMA NextPassFresh ==
    ASSUME IInv, NextPass
    PROVE  Fresh'
  <1>1. /\ TypeOK /\ PlaceInv /\ RunningInv /\ outcome = "running"
        /\ stream["copy"] = <<>> /\ stream["compute"] = <<>>
    BY DEF IInv, IdleInv, NextPass, Streams
  <1>2. ~closed /\ closed \in BOOLEAN
    BY <1>1 DEF PlaceInv, NextPass, TypeOK, ContextTypeOK
  <1>3. running["copy"] = Idle /\ running["compute"] = Idle
    BY <1>1 DEF RunningInv, Streams
  <1>4. QED BY <1>1, <1>2, <1>3 DEF NextPass, Fresh, Variant

\* The two halves of a pass, by its variant.
LEMMA PassStep == IInv /\ Next => PassInv'
  <1> SUFFICES ASSUME IInv, Next PROVE PassInv'
    OBVIOUS
  <1>1. CASE pass' = pass
    <2>1. TypeOK /\ PlaceInv /\ RunningInv /\ Variant' = Variant
      BY <1>1 DEF IInv, Variant
    <2>2. CASE Variant = "sync"
      <3>1. SyncInv
        BY <2>2 DEF IInv
      <3>2. SyncInv' /\ RunningInv'
        BY <1>1, <2>1, <2>2, <3>1, SyncInvStep
      <3>3. QED BY <2>1, <2>2, <3>2 DEF PassInv
    <2>3. CASE Variant # "sync"
      <3>1. PipeState
        BY <2>1, <2>3 DEF IInv, PipeState
      <3>2. PipeInv' /\ RunningInv' /\ (Variant = "three_stage" => WorkerInv')
        BY <1>1, <2>3, <3>1, PipeStep
      <3>3. QED BY <2>1, <2>3, <3>2 DEF PassInv
    <2>4. QED BY <2>2, <2>3
  <1>2. CASE NextPass
    BY <1>2, NextPassFresh, FreshNext, TypeStep
  <1>3. QED
    <2>1. pass' = pass \/ NextPass
      BY DEF Next, MainStep, Runner, StorageStep, DeviceStep, StorageFails, ReadFails, Interrupt,
             Unwind, JoinWorker, Synchronize, LastPass, CloseReader, Exit
    <2>2. QED BY <1>1, <1>2, <2>1

\* The invariant is inductive.
LEMMA IInvStep == IInv /\ Next => IInv'
  <1> SUFFICES ASSUME IInv, Next PROVE IInv'
    OBVIOUS
  <1>1. TypeOK' /\ PlaceInv' /\ IdleInv' /\ PassInv'
    BY TypeStep, PlaceStep, IdleStep, PassStep
  <1>2. QED BY <1>1 DEF IInv, PassInv

\* A step that changes nothing changes nothing the invariant speaks of.
LEMMA IInvStutter == IInv /\ UNCHANGED vars => IInv'
  <1> SUFFICES ASSUME IInv, UNCHANGED vars PROVE IInv'
    OBVIOUS
  <1>1. /\ UNCHANGED <<pc, block, next, pinned, device, sums, offset, closed>>
        /\ UNCHANGED <<event, stream, running, worker, wblock, storage_done>>
        /\ UNCHANGED <<h2d_enqueued, worker_errors, pass, outcome, at>>
    BY DEF vars, main, buffers, gpu, threads, ofMain, ofWorker
  <1>2. Variant' = Variant /\ Ring' = Ring /\ Copies' = Copies /\ Sums' = Sums /\ Top' = Top
    BY <1>1 DEF Variant, Ring, Copies, Sums, Top
  <1>3. TypeOK => TypeOK'
    BY <1>1 DEF TypeOK, ContextTypeOK, ThreadsTypeOK
  <1>4. PlaceInv => PlaceInv'
    BY <1>1, <1>2 DEF PlaceInv, WorkerEnded
  <1>5. (IdleInv => IdleInv') /\ (RunningInv => RunningInv') /\ (SyncInv => SyncInv')
    BY <1>1 DEF IdleInv, RunningInv, SyncInv
  <1>6. (StreamsInv => StreamsInv') /\ (RunsInv => RunsInv')
    BY <1>1, <1>2 DEF StreamsInv, RunsInv
  <1>7. BuffersInv => BuffersInv'
    BY <1>1, <1>2 DEF BuffersInv
  <1>8. MainInv => MainInv'
    BY <1>1, <1>2 DEF MainInv, TopInv, CountInv, FillInv, WorkerEnded
  <1>9. WorkerInv => WorkerInv'
    BY <1>1, <1>2 DEF WorkerInv, WorkerEnded
  <1>10. QED BY <1>2, <1>3, <1>4, <1>5, <1>6, <1>7, <1>8, <1>9 DEF IInv, PipeInv

\* The invariant holds at the start.
LEMMA InitIInv == Init => IInv
  <1> SUFFICES ASSUME Init PROVE IInv
    OBVIOUS
  <1>1. TypeOK
    <2>1. /\ Blocks \in Nat \ {0} /\ Len(Variants) \in Nat \ {0}
          /\ Variants[1] \in {"sync", "double_buffer", "three_stage"}
      BY BlocksAssumption, VariantsAssumption
    <2>2. pc \in Labels
      BY <2>1 DEF Init, Start, Labels
    <2>3. ContextTypeOK
      <3>1. \A s \in Streams : <<>> \in Seq(Operation)
        OBVIOUS
      <3>2. stream \in [Streams -> Seq(Operation)] /\ running \in [Streams -> Data \cup {Idle}]
        BY <3>1 DEF Init, ContextInit
      <3>3. /\ pinned \in [0 .. 2 -> Data] /\ device \in [0 .. 1 -> Data]
            /\ sums \in [Block -> Data \cup {Zero}]
            /\ event \in [Events -> {"new", "recorded", "complete"}]
        BY DEF Init, ContextInit, Data, NoSums, NoEvents
      <3>4. block \in 0 .. Blocks /\ next \in 0 .. Blocks /\ offset \in 0 .. Blocks
        BY <2>1 DEF Init, ContextInit
      <3>5. closed \in BOOLEAN
        BY DEF Init, ContextInit
      <3>6. QED BY <3>2, <3>3, <3>4, <3>5 DEF ContextTypeOK
    <2>4. ThreadsTypeOK
      <3>1. NoBlock \in [Block -> BOOLEAN]
        BY Zenon DEF NoBlock
      <3>2. storage_done \in [Block -> BOOLEAN] /\ h2d_enqueued \in [Block -> BOOLEAN]
        BY <3>1, Zenon DEF Init, ThreadsInit
      <3>3. wblock \in 0 .. Blocks /\ worker \in {"none"}
        BY <2>1 DEF Init, ThreadsInit
      <3>4. worker_errors \in BOOLEAN
        BY Zenon DEF Init, ThreadsInit
      <3>5. QED BY <3>2, <3>3, <3>4 DEF ThreadsTypeOK
    <2>5. QED BY <2>1, <2>2, <2>3, <2>4 DEF TypeOK, Init
  <1>2. Fresh
    BY DEF Init, ContextInit, ThreadsInit, Fresh, Variant, Streams
  <1>3. PassInv
    BY <1>1, <1>2, FreshPass
  <1>4. PlaceInv /\ IdleInv
    BY <1>1, <1>2, Modes DEF Fresh, Start, PlaceInv, IdleInv, SyncLabels, DoubleLabels,
       ThreeLabels,
       LastLabels, WorkerEnded, Init
  <1>5. QED BY <1>1, <1>3, <1>4 DEF PassInv, IInv

\* The invariant holds in every reachable state.
LEMMA Inductive == Spec => []IInv
  BY InitIInv, IInvStep, IInvStutter, PTL DEF Spec

------------------------------------------------------------------------------
(* What the invariant says of the buffers. *)

\* run_sync has one operation enqueued, whose source is not touched.
LEMMA SyncSlots ==
    ASSUME TypeOK, RunningInv, SyncInv
    PROVE  SlotsExclusive
  <1>1. \A s \in Streams : stream[s] # <<>> =>
            /\ s = "compute"
            /\ \/ stream[s] = <<Copy(block, 0, 0)>> /\ pinned[0] = block
               \/ stream[s] = <<Sum(block, 0)>>
    BY DEF SyncInv, Streams
  <1>2. \A s \in Streams : \A o : o \in Pending(s) =>
            /\ s = "compute"
            /\ \/ o = Copy(block, 0, 0) /\ pinned[0] = block
               \/ o = Sum(block, 0)
    <2> SUFFICES ASSUME NEW s \in Streams, NEW i \in DOMAIN stream[s]
                 PROVE  /\ s = "compute"
                        /\ \/ stream[s][i] = Copy(block, 0, 0) /\ pinned[0] = block
                           \/ stream[s][i] = Sum(block, 0)
      BY DEF Pending
    <2>1. stream[s] # <<>>
      OBVIOUS
    <2>2. s = "compute"
      BY <1>1, <2>1
    <2>3. CASE stream[s] = <<Copy(block, 0, 0)>> /\ pinned[0] = block
      <3>1. stream[s][i] = Copy(block, 0, 0)
        BY <2>3
      <3>2. QED BY <2>2, <2>3, <3>1
    <2>4. CASE stream[s] = <<Sum(block, 0)>>
      <3>1. stream[s][i] = Sum(block, 0)
        BY <2>4
      <3>2. QED BY <2>2, <3>1
    <2>5. QED BY <1>1, <2>1, <2>3, <2>4
  <1>3. \A s \in Streams : \A o \in Pending(s) : o.op = "copy" => pinned[o.from] = o.block
    BY <1>2 DEF Copy, Sum
  <1>4. \A t \in Streams : \A o \in Pending(t) : o.op = "sum" => o.block >= block
    BY <1>2, Streaming DEF Copy, Sum
  <1>5. ASSUME NEW s \in Streams, running[s] # Idle, Head(stream[s]).op = "copy"
        PROVE  Head(stream[s]).block = block
    <2>1. stream[s] # <<>>
      BY <1>5 DEF RunningInv
    <2>2. Head(stream[s]) \in {Copy(block, 0, 0), Sum(block, 0)}
      BY <1>1, <2>1, OneOperation
    <2>3. QED BY <1>5, <2>2 DEF Copy, Sum
  <1>6. QED BY <1>3, <1>4, <1>5 DEF SlotsExclusive

\* In the overlapped variants an enqueued copy keeps its source, and runs only into a
\* device slot that no sum of an earlier block needs.
LEMMA PipeSlots ==
    ASSUME TypeOK, RunningInv, PipeInv
    PROVE  SlotsExclusive
  <1>1. /\ StreamsInv /\ BuffersInv /\ Copies \subseteq Block /\ Sums \subseteq Block
        /\ Ring \in {2, 3}
    BY CopiesOfBlocks, Modes DEF PipeInv
  <1>2. \A o \in Pending("copy") :
            /\ o.op # "sum"
            /\ o.op = "copy" => \E b \in Copies : o = Copy(b, b % Ring, b % 2)
    BY <1>1 DEF StreamsInv, CopyQueue, Queue, CopyShapes, Pending, Copies, Enqueued
  <1>3. \A o \in Pending("compute") :
            /\ o.op # "copy"
            /\ o.op = "sum" => \E b \in Sums : o = Sum(b, b % 2)
    BY <1>1 DEF StreamsInv, SumQueue, Queue, SumShapes, Pending, Sums, Enqueued
  <1>4. \A s \in Streams : \A o \in Pending(s) : o.op = "copy" => pinned[o.from] = o.block
    <2> SUFFICES ASSUME NEW s \in Streams, NEW o \in Pending(s), o.op = "copy"
                 PROVE  pinned[o.from] = o.block
      OBVIOUS
    <2>1. s = "copy"
      BY <1>3 DEF Streams
    <2>2. PICK b \in Copies : o = Copy(b, b % Ring, b % 2)
      BY <1>2, <2>1
    <2>3. o.from = b % Ring /\ o.block = b
      BY <2>2 DEF Copy
    <2>4. QED BY <1>1, <2>3 DEF BuffersInv
  <1>5. ASSUME NEW s \in Streams, running[s] # Idle, Head(stream[s]).op = "copy",
               NEW t \in Streams, NEW o \in Pending(t),
               o.op = "sum", o.slot = Head(stream[s]).to
        PROVE  o.block >= Head(stream[s]).block
    <2>1. t = "compute"
      BY <1>2, <1>5 DEF Streams
    <2>2. PICK c \in Sums : o = Sum(c, c % 2)
      BY <1>3, <1>5, <2>1
    <2>3. stream[s] # <<>>
      BY <1>5 DEF RunningInv
    <2>4. s = "copy"
      <3>1. s = "compute" => Head(stream[s]).op = "sum"
        BY <1>5 DEF PipeInv, RunsInv
      <3>2. QED BY <1>5, <3>1 DEF Streams
    <2> DEFINE q == stream["copy"]
               b == Head(q).block
    <2>5. q \in Seq(Operation) /\ q # <<>> /\ CopyQueue(q, event) /\ CopyShapes(q, Ring)
          /\ Head(q).op = "copy"
      BY <1>1, <1>5, <2>3, <2>4, Streaming DEF StreamsInv
    <2> HIDE DEF q
    <2>6. /\ Head(q) = Copy(b, b % Ring, b % 2)
          /\ b \in Enqueued(q, "copy") /\ \A d \in Enqueued(q, "copy") : d >= b
          /\ b >= 2 => event[<<"compute", b - 2>>] = "complete"
      BY <2>5, CopyFirst
    <2>7. FirstCopy(b)
      BY <2>6 DEF FirstCopy, Copies, q
    <2> HIDE DEF b
    <2>8. Head(q).to = b % 2
      BY <2>6 DEF Copy
    <2>9. o.slot = c % 2 /\ o.block = c
      BY <2>2 DEF Sum
    <2>10. c % 2 = b % 2
      BY <1>5, <2>4, <2>8, <2>9 DEF q
    <2>11. c >= b
      BY <1>1, <2>7, <2>10, SlotFree
    <2>12. QED BY <2>4, <2>9, <2>11 DEF b, q
  <1>6. QED BY <1>4, <1>5 DEF SlotsExclusive

------------------------------------------------------------------------------
(* The properties the runs check. *)

\* Every variable of the pipeline keeps the values the code gives it, for every
\* number of blocks and every order of the variants.
THEOREM TypeCorrect == Spec => []TypeOK
  <1>1. IInv => TypeOK
    BY DEF IInv
  <1>2. QED BY Inductive, <1>1, PTL

\* The docstrings of run_double_buffer and run_three_stage: no slot is overwritten
\* while an enqueued operation still needs it.
THEOREM SlotsNotOverwritten == Spec => []SlotsExclusive
  <1>1. IInv => SlotsExclusive
    <2> SUFFICES ASSUME IInv PROVE SlotsExclusive
      OBVIOUS
    <2>1. TypeOK /\ RunningInv
      BY DEF IInv
    <2>2. CASE Variant = "sync"
      BY <2>1, <2>2, SyncSlots DEF IInv
    <2>3. CASE Variant # "sync"
      BY <2>1, <2>3, PipeSlots DEF IInv
    <2>4. QED BY <2>2, <2>3
  <1>2. QED BY Inductive, <1>1, PTL

\* main's finally clause closes the reader after the worker ended, but for a Ctrl+C
\* inside worker.start().
THEOREM ClosedAfterWorker == Spec => []ReaderClosedLast
  <1>1. IInv => ReaderClosedLast
    BY DEF IInv, PlaceInv, ReaderClosedLast, LastLabels
  <1>2. QED BY Inductive, <1>1, PTL

------------------------------------------------------------------------------
(* The refinement of InOrderBlocks. *)

\* What a step that finishes no sum and begins no pass does to the abstract state.
Quiet == /\ UNCHANGED <<pass, sums>>
         /\ outcome' = outcome \/ (outcome = "running" /\ outcome' \in {"failed", "interrupted"})

\* A quiet step is a failure of the abstract run, or a stutter.
LEMMA QuietStep == Quiet => InOrder!Next \/ UNCHANGED InOrder!vars
  BY DEF Quiet, InOrder!Next, InOrder!GiveUp, InOrder!vars

\* run_sync finishes the sum of the block it is at, after all the earlier ones.
LEMMA SyncSummed ==
    ASSUME TypeOK, RunningInv, SyncInv, NEW s \in Streams, OpFinishes(s), sums' # sums
    PROVE  /\ block \in Block /\ sums[block] = Zero /\ sums' = [sums EXCEPT ![block] = block]
           /\ \A b \in Block : b < block => sums[b] = b
  <1>1. PICK o : /\ o = Head(stream[s]) /\ running[s] # Idle
                 /\ o.op = "sum"
                 /\ sums' = [sums EXCEPT ![o.block] =
                                IF Source(o) = running[s] THEN Source(o) ELSE Garbage]
    BY DEF OpFinishes
  <1>2. s = "compute" /\ running[s] = block /\ stream[s] # <<>>
    BY <1>1 DEF SyncInv, RunningInv, Streams
  <1>3. stream["compute"] \in {<<Copy(block, 0, 0)>>, <<Sum(block, 0)>>}
    BY <1>2 DEF SyncInv
  <1>4. o = Sum(block, 0)
    BY <1>1, <1>2, <1>3, OneOperation DEF Copy, Sum
  <1>5. stream["compute"] # <<Copy(block, 0, 0)>>
    BY <1>1, <1>2, OneOperation DEF Copy
  <1>6. device[0] = block /\ block < Blocks
    BY <1>2, <1>5 DEF SyncInv
  <1>7. sums' = [sums EXCEPT ![block] = block]
    <2>1. Source(o) = block /\ o.block = block
      BY <1>1, <1>4, <1>6 DEF Source, Sum
    <2>2. QED BY <1>1, <1>2, <2>1
  <1>8. block \in Block /\ sums[block] = Zero
    BY <1>2, <1>6, Streaming DEF SyncInv, Block
  <1>9. QED BY <1>7, <1>8 DEF SyncInv

\* Every sum that finishes is the next one of its pass, and of the right block.
LEMMA SumInOrder ==
    ASSUME IInv, NEW s \in Streams, OpFinishes(s), UNCHANGED <<pass, outcome>>, sums' # sums
    PROVE  InOrder!SumNext
  <1>1. /\ TypeOK /\ RunningInv /\ Blocks \in Nat
        /\ \A b \in Block : b \in Nat /\ \A a \in 0 .. b - 1 : a \in Block /\ a < b
    BY BlocksAssumption DEF IInv, Block
  <1>2. ASSUME NEW b \in Block, sums[b] = Zero, sums' = [sums EXCEPT ![b] = b],
               \A c \in Block : c < b => sums[c] = c
        PROVE  InOrder!SumNext
    BY <1>1, <1>2 DEF InOrder!SumNext, InOrder!Block, Block
  <1>3. CASE Variant = "sync"
    <2>1. SyncInv
      BY <1>3 DEF IInv
    <2>2. /\ block \in Block /\ sums[block] = Zero /\ sums' = [sums EXCEPT ![block] = block]
          /\ \A c \in Block : c < block => sums[c] = c
      BY <1>1, <2>1, SyncSummed
    <2>3. QED BY <1>2, <2>2
  <1>4. CASE Variant # "sync"
    <2>1. StreamsInv /\ BuffersInv /\ RunsInv
      BY <1>4 DEF IInv, PipeInv
    <2>2. s = "compute"
      <3>1. s = "copy" => sums' = sums
        BY <1>1, <2>1, CopyFinishes
      <3>2. QED BY <3>1 DEF Streams
    <2>3. PICK b : FirstSum(b) /\ sums' = [sums EXCEPT ![b] = b]
      BY <1>1, <2>1, <2>2, SumFinishes
    <2>4. b \in Block /\ sums[b] = Zero /\ \A c \in Block : c < b => sums[c] = c
      BY <1>1, <2>1, <2>3, SumReady
    <2>5. QED BY <1>2, <2>3, <2>4
  <1>5. QED BY <1>3, <1>4

\* A pass that is verified has summed every block.
LEMMA VerifiedAll ==
    ASSUME IInv, pc = "verify"
    PROVE  Bad = {} /\ InOrder!AllSummed /\ outcome = "running"
  BY NothingBad DEF Bad, InOrder!AllSummed, InOrder!Block, Block

\* Each step of the pipeline is a step of InOrderBlocks, or changes nothing it speaks of.
LEMMA InOrderStep == IInv /\ Next => InOrder!Next \/ UNCHANGED InOrder!vars
  <1> DEFINE Step == InOrder!Next \/ UNCHANGED InOrder!vars
  <1> SUFFICES ASSUME IInv, Next PROVE Step
    OBVIOUS
  <1>0. Quiet => Step
    BY QuietStep
  <1>1. ASSUME ReadFails
       PROVE  Step
    <2>1. outcome = "running"
      BY <1>1 DEF IInv, PlaceInv, LastLabels, ReadFails
    <2>2. QED BY <1>0, <1>1, <2>1 DEF Quiet, buffers, Unwind, ReadFails
  <1>2. ASSUME NextPass
       PROVE  Step
    <2>1. InOrder!AllSummed
      BY <1>2, VerifiedAll DEF NextPass
    <2>2. InOrder!NextPass
      BY <1>2, <2>1 DEF NextPass, InOrder!NextPass, NoSums, InOrder!Block, Block
    <2>3. QED BY <2>2 DEF InOrder!Next
  <1>3. ASSUME LastPass
       PROVE  Step
    <2>1. Bad = {} /\ InOrder!AllSummed
      BY <1>3, VerifiedAll DEF LastPass
    <2>2. InOrder!Succeed
      BY <1>3, <2>1 DEF LastPass, Unwind, buffers, InOrder!Succeed
    <2>3. QED BY <2>2 DEF InOrder!Next
  <1>4. ASSUME NEW s \in Streams, OpFinishes(s), UNCHANGED <<threads, pass, outcome, at>>
       PROVE  Step
    <2>1. CASE sums' = sums
      BY <1>4, <1>0, <2>1 DEF Quiet
    <2>2. CASE sums' # sums
      BY <1>4, <2>2, SumInOrder DEF InOrder!Next
    <2>3. QED BY <2>1, <2>2
  <1> USE <1>0 DEF Quiet, buffers, StageStart, StageFinish, Unwind, main, ofMain, ofWorker
  <1>5. ASSUME SyncRead, UNCHANGED <<threads, pass, outcome, at>>
       PROVE  Step
    BY <1>5 DEF SyncRead
  <1>6. ASSUME SyncStage, UNCHANGED <<threads, pass, outcome, at>>
       PROVE  Step
    BY <1>6 DEF SyncStage
  <1>7. ASSUME SyncCopy, UNCHANGED <<threads, pass, outcome, at>>
       PROVE  Step
    BY <1>7 DEF SyncCopy
  <1>8. ASSUME SyncSum, UNCHANGED <<threads, pass, outcome, at>>
       PROVE  Step
    BY <1>8 DEF SyncSum
  <1>9. ASSUME SyncDrain, UNCHANGED <<threads, pass, outcome, at>>
       PROVE  Step
    BY <1>9 DEF SyncDrain
  <1>10. ASSUME DoubleSlot, UNCHANGED <<threads, pass, outcome, at>>
       PROVE  Step
    BY <1>10 DEF DoubleSlot
  <1>11. ASSUME DoubleRead, UNCHANGED <<threads, pass, outcome, at>>
       PROVE  Step
    BY <1>11 DEF DoubleRead
  <1>12. ASSUME DoubleStage, UNCHANGED <<threads, pass, outcome, at>>
       PROVE  Step
    BY <1>12 DEF DoubleStage
  <1>13. ASSUME DoubleCopy, UNCHANGED <<threads, pass, outcome, at>>
       PROVE  Step
    BY <1>13 DEF DoubleCopy
  <1>14. ASSUME DoubleCompute, UNCHANGED <<threads, pass, outcome, at>>
       PROVE  Step
    BY <1>14 DEF DoubleCompute
  <1>15. ASSUME StartWorker, UNCHANGED <<pass, outcome, at>>
       PROVE  Step
    BY <1>15 DEF StartWorker
  <1>16. ASSUME EnterTry, UNCHANGED <<pass, outcome, at>>
       PROVE  Step
    BY <1>16 DEF EnterTry
  <1>17. ASSUME WaitForStorage, UNCHANGED <<pass, outcome, at>>
       PROVE  Step
    BY <1>17 DEF WaitForStorage
  <1>18. ASSUME EnqueueCopy, UNCHANGED <<pass, outcome, at>>
       PROVE  Step
    BY <1>18 DEF EnqueueCopy
  <1>19. ASSUME RecordCopy, UNCHANGED <<pass, outcome, at>>
       PROVE  Step
    BY <1>19 DEF RecordCopy
  <1>20. ASSUME AnnounceCopy, UNCHANGED <<pass, outcome, at>>
       PROVE  Step
    BY <1>20 DEF AnnounceCopy
  <1>21. ASSUME EnqueueCompute, UNCHANGED <<pass, outcome, at>>
       PROVE  Step
    BY <1>21 DEF EnqueueCompute
  <1>22. ASSUME StorageFails
       PROVE  Step
    BY <1>22 DEF StorageFails
  <1>23. ASSUME Interrupt
       PROVE  Step
    BY <1>23 DEF Interrupt
  <1>24. ASSUME JoinWorker
       PROVE  Step
    BY <1>24 DEF JoinWorker
  <1>25. ASSUME Synchronize
       PROVE  Step
    BY <1>25 DEF Synchronize
  <1>26. ASSUME CloseReader
       PROVE  Step
    BY <1>26 DEF CloseReader
  <1>27. ASSUME Exit
       PROVE  Step
    BY <1>27 DEF Exit
  <1>28. ASSUME WorkerWaits, UNCHANGED <<pass, outcome, at>>
       PROVE  Step
    BY <1>28 DEF WorkerWaits
  <1>29. ASSUME WorkerSynchronizes, UNCHANGED <<pass, outcome, at>>
       PROVE  Step
    BY <1>29 DEF WorkerSynchronizes
  <1>30. ASSUME WorkerReads, UNCHANGED <<pass, outcome, at>>
       PROVE  Step
    BY <1>30 DEF WorkerReads
  <1>31. ASSUME WorkerStages, UNCHANGED <<pass, outcome, at>>
       PROVE  Step
    BY <1>31 DEF WorkerStages
  <1>32. ASSUME WorkerFails, UNCHANGED <<pass, outcome, at>>
       PROVE  Step
    BY <1>32 DEF WorkerFails
  <1>33. ASSUME WorkerReleases, UNCHANGED <<pass, outcome, at>>
       PROVE  Step
    BY <1>33 DEF WorkerReleases
  <1>34. ASSUME NEW s \in Streams, OpStarts(s), UNCHANGED <<threads, pass, outcome, at>>
       PROVE  Step
    BY <1>34 DEF OpStarts
  <1>35. ASSUME NEW s \in Streams, OpControls(s), UNCHANGED <<threads, pass, outcome, at>>
       PROVE  Step
    BY <1>35 DEF OpControls
  <1> HIDE DEF Quiet, buffers, StageStart, StageFinish, Unwind, main, ofMain, ofWorker
  <1>36. QED BY <1>1, <1>2, <1>3, <1>4, <1>5, <1>6, <1>7, <1>8, <1>9, <1>10, <1>11, <1>12, <1>13,
       <1>14, <1>15, <1>16, <1>17, <1>18, <1>19, <1>20, <1>21, <1>22, <1>23, <1>24, <1>25, <1>26,
       <1>27, <1>28, <1>29, <1>30, <1>31, <1>32, <1>33, <1>34, <1>35
       DEF Next, MainStep, Runner, SyncStep, DoubleStep, ThreeStageStep, StorageStep, WorkerStep,
           DeviceStep, StreamStep

\* The experiment begins as an abstract run does.
LEMMA InOrderInit == Init => InOrder!Init
  BY DEF Init, ContextInit, NoSums, InOrder!Init, InOrder!Block, Block

\* A stutter of the pipeline is one of the abstract run.
LEMMA InOrderStutter == UNCHANGED vars => UNCHANGED InOrder!vars
  BY DEF vars, buffers, InOrder!vars

\* The whole experiment, under every schedule of its threads and streams, is one of
\* the abstract runs in which each pass sums its blocks in order and each sum is right.
THEOREM RefinesInOrder == Spec => ImplementsInOrder
  BY InOrderInit, Inductive, InOrderStep, InOrderStutter, PTL DEF Spec, ImplementsInOrder,
     InOrder!Spec
=============================================================================
