---------------------------- MODULE LayerStream ----------------------------
(***************************************************************************)
(* Sessions of qwen_layer_stream.py and three_layer_pipeline.py: pack or   *)
(* find the packages, then stream them through read, staging, copy to the  *)
(* device and compute, several times, and compare each output with that of *)
(* the model. The variants are the loop of the one-layer script, the       *)
(* serial runner, and the overlapped one, where a worker thread reads and  *)
(* stages all packages while the main thread copies and computes.          *)
(***************************************************************************)
EXTENDS LayerPackage

CONSTANTS
    Scripts,    \* which of "one", "three" are run
    OnePackage, \* what qwen_layer_stream.py may be asked for: {[dir, layer], ...}
    Packages,   \* what three_layer_pipeline.py streams: <<[dir, layer], ...>>
    Repetitions

ASSUME StreamAssumption ==
    /\ Repetitions \in Nat \ {0}
    /\ OnePackage \subseteq Todo /\ Packages \in Seq(Todo) \ {<<>>}

VARIABLES
    script,
    pc,       \* the main thread
    run,      \* number of the runner call of this session
    i,        \* the package of the runner's loop
    host,     \* the reader's buffer of the inline variants
    pinned, device, \* buffers: bytes
    output,   \* what was computed: per layer the weights that were used
    wpc, wi, whost, \* the worker and its reader's buffer
    errors, ready,
    rows, ledger, exit

mainVars == <<pc, run, i, host, pinned, device, output, rows, ledger, exit>>
workerVars == <<wpc, wi, whost, errors, ready>>
memory == <<run, i, host, pinned, device, output, workerVars>>
vars == <<packageVars, script, mainVars, workerVars>>

Variants == IF script = "one" THEN <<"one">> ELSE <<"serial", "storage_overlap">>
Runs == Len(Variants) * Repetitions
Variant == Variants[((run - 1) \div Repetitions) + 1]
Overlapped == Variant = "storage_overlap"

\* The rows of a run: the one-layer script keeps all of them at once, the other
\* one those of the stages one by one, then the last two together.
Parts ==
    IF script = "one" THEN <<"times and error">>
    ELSE <<"read", "stage", "h2d", "compute", "makespan and error">>

\* A package as the manifest describes it, and the bytes a reader gets from it.
Manifest(p) == manifest[todo[p].dir]
Bytes(p) == data[<<todo[p].dir, Manifest(p).layer>>]
Sound(p) == DOMAIN Bytes(p) = 0 .. Manifest(p).length - 1

\* Buffers of the inline variants are slot 0; the others have a pinned buffer
\* per package and two on the device.
PinnedSlot == IF Overlapped THEN i ELSE 0
DeviceSlot == IF Overlapped THEN i % 2 ELSE 0
Garbage == <<>>
Fresh == [slot \in 0 .. Len(Packages) |-> Garbage]
\* A buffer after a copy into it: what it held before stays behind the copy.
CopiedInto(old, source) ==
    [b \in DOMAIN source \cup DOMAIN old |-> IF b \in DOMAIN source THEN source[b] ELSE old[b]]
\* What a layer computes with: the bytes its parameters view.
Weights(bytes, list) ==
    [k \in DOMAIN list |->
        {IF b \in DOMAIN bytes THEN bytes[b] ELSE Zero : b \in Extent(list[k])}]
WeightsOf(m, l) == [k \in DOMAIN Nbytes[l] |-> {<<m, l, k>>}]

Matches == output = [p \in DOMAIN todo |-> WeightsOf(model, todo[p].layer)]

Init ==
    /\ PackageInit
    /\ script \in Scripts /\ strict = (script = "one")
    /\ pc = "off" /\ run = 1 /\ i = 1 /\ host = Garbage
    /\ pinned = Fresh /\ device = Fresh /\ output = <<>>
    /\ wpc = "off" /\ wi = 1 /\ whost = Garbage /\ errors = FALSE /\ ready = {}
    /\ rows = <<>> /\ ledger = <<>> /\ exit = "none"

------------------------------------------------------------------------------
(* Packages. *)

Requests ==
    IF script = "three" THEN {Packages} ELSE {<<package>> : package \in OnePackage}

StartSession ==
    /\ pc = "off" /\ pc' = "ensure"
    /\ \E m \in Models, packages \in Requests : Begin(m, packages)
    /\ rows' = <<>> /\ ledger' = <<>> /\ exit' = "none"
    /\ UNCHANGED <<script, memory>>

Ensure ==
    /\ pc = "ensure" /\ PackageStep
    /\ UNCHANGED <<script, mainVars, workerVars>>

\* Leaving the try of main: the finally clause, with a reason.
Unwind(reason) ==
    /\ pc' = "finally" /\ exit' = reason
    /\ UNCHANGED <<packageVars, script, run, i, host, pinned, device, output, rows, ledger>>

\* A tensor that is not BF16, a full disk, a manifest that is refused.
EnsureRaises == pc = "ensure" /\ Unwind("traceback") /\ UNCHANGED workerVars

\* --pack-only returns as soon as there is a manifest.
PackOnly ==
    /\ pc = "ensure" /\ script = "one" /\ step = "load"
    /\ Unwind("complete") /\ UNCHANGED workerVars

Ensured ==
    /\ pc = "ensure" /\ step = "loaded" /\ pc' = "start"
    /\ UNCHANGED <<packageVars, script, run, i, host, pinned, device, output, rows, ledger, exit,
                   workerVars>>

------------------------------------------------------------------------------
(* The runners. *)

StartRun ==
    /\ pc = "start" /\ pc' = IF Overlapped THEN "wait" ELSE "read"
    /\ i' = 1 /\ output' = <<>>
    /\ IF script = "one" THEN UNCHANGED <<pinned, device>>
       ELSE pinned' = Fresh /\ device' = Fresh
    /\ IF Overlapped THEN wpc' = "read" /\ wi' = 1 /\ errors' = FALSE /\ ready' = {}
       ELSE UNCHANGED <<wpc, wi, errors, ready>>
    /\ UNCHANGED <<packageVars, script, run, host, rows, ledger, exit, whost>>

Rest == <<packageVars, script, run, rows, ledger, exit>>

Read ==
    /\ pc = "read" /\ pc' = "stage" /\ Sound(i) /\ host' = Bytes(i)
    /\ UNCHANGED <<Rest, i, pinned, device, output, workerVars>>

Stage ==
    /\ pc = "stage" /\ pc' = "h2d"
    /\ pinned' = [pinned EXCEPT ![PinnedSlot] = CopiedInto(@, host)]
    /\ UNCHANGED <<Rest, i, host, device, output, workerVars>>

WaitReady ==
    /\ pc = "wait" /\ i \in ready /\ ~errors /\ pc' = "h2d"
    /\ UNCHANGED <<Rest, i, host, pinned, device, output, workerVars>>

StorageFailed ==
    /\ pc = "wait" /\ i \in ready /\ errors
    /\ Unwind("traceback") /\ UNCHANGED workerVars

\* The copies and the computation are synchronized by cuda_seconds.
H2d ==
    /\ pc = "h2d" /\ pc' = "compute"
    /\ device' = [device EXCEPT ![DeviceSlot] = CopiedInto(@, pinned[PinnedSlot])]
    /\ UNCHANGED <<Rest, i, host, pinned, output, workerVars>>

Compute ==
    /\ pc = "compute"
    /\ output' = Append(output, Weights(device[DeviceSlot], Manifest(i).specs))
    /\ i' = i + 1
    /\ pc' = CASE i < Len(todo) -> IF Overlapped THEN "wait" ELSE "read"
               [] i = Len(todo) -> IF Overlapped THEN "join" ELSE "keep"
    /\ UNCHANGED <<Rest, host, pinned, device, workerVars>>

Join ==
    /\ pc = "join" /\ wpc = "done" /\ pc' = "keep"
    /\ UNCHANGED <<Rest, i, host, pinned, device, output, workerVars>>

\* The rows of a run are kept, with the error that was measured; run stands for
\* the variant and the repetition they name.
Keep ==
    /\ pc = "keep"
    /\ LET part == Len(rows) - (run - 1) * Len(Parts) + 1
       IN  /\ rows' = Append(rows, [run |-> run, part |-> Parts[part], of |-> output])
           /\ pc' = IF part = Len(Parts) THEN "report" ELSE "keep"
    /\ UNCHANGED <<packageVars, script, run, i, host, pinned, device, output, ledger, exit,
                   workerVars>>

NextRun ==
    IF run < Runs THEN pc' = "start" /\ run' = run + 1 /\ UNCHANGED exit
    ELSE pc' = "finally" /\ exit' = "complete" /\ UNCHANGED run

ReportOnlyPrints ==
    /\ pc = "report" /\ NextRun
    /\ UNCHANGED <<packageVars, script, i, host, pinned, device, output, rows, ledger, workerVars>>

\* The error is printed, and only then looked at.
Report ==
    /\ pc = "report"
    /\ IF Matches THEN NextRun
       ELSE pc' = "finally" /\ exit' = "traceback" /\ UNCHANGED run
    /\ UNCHANGED <<packageVars, script, i, host, pinned, device, output, rows, ledger, workerVars>>

ReadRaises == pc \in {"read", "h2d", "compute"} /\ Unwind("traceback") /\ UNCHANGED workerVars

\* The process ends, and its worker, which is a daemon, with it.
End(written) ==
    /\ pc' = "off" /\ Leave /\ ledger' = written
    /\ run' = 1 /\ i' = 1 /\ host' = Garbage
    /\ pinned' = Fresh /\ device' = Fresh /\ output' = <<>>
    /\ wpc' = "off" /\ wi' = 1 /\ whost' = Garbage /\ errors' = FALSE /\ ready' = {}
    /\ UNCHANGED <<script, rows>>

\* write_rows appends to the CSV.
Finally == pc = "finally" /\ End(rows) /\ UNCHANGED exit

Interrupt ==
    \/ /\ pc \notin {"off", "finally"}
       /\ Unwind("interrupted") /\ UNCHANGED workerVars
    \/ /\ pc = "finally" /\ \E n \in 0 .. Len(rows) : End(SubSeq(rows, 1, n))
       /\ exit' = "cut"

------------------------------------------------------------------------------
(* The storage worker. *)

WorkerRest == <<packageVars, script, pc, run, i, host, device, output, rows, ledger, exit>>

WorkerReads ==
    /\ wpc = "read" /\ wi <= Len(todo) /\ Sound(wi)
    /\ whost' = Bytes(wi) /\ wpc' = "stage"
    /\ UNCHANGED <<WorkerRest, pinned, wi, errors, ready>>

\* The copy into the pinned buffer takes its time.
WorkerStages ==
    /\ wpc = "stage" /\ wpc' = "staging"
    /\ pinned' = [pinned EXCEPT ![wi] = Garbage]
    /\ UNCHANGED <<WorkerRest, wi, whost, errors, ready>>

WorkerStaged ==
    /\ wpc = "staging" /\ wpc' = "close"
    /\ pinned' = [pinned EXCEPT ![wi] = CopiedInto(@, whost)]
    /\ UNCHANGED <<WorkerRest, wi, whost, errors, ready>>

\* The reader is closed, then the package announced.
WorkerAnnounces ==
    /\ wpc = "close" /\ wpc' = "read"
    /\ ready' = ready \cup {wi} /\ wi' = wi + 1
    /\ UNCHANGED <<WorkerRest, pinned, whost, errors>>

\* The error is there before anybody is woken.
WorkerFailsSilently ==
    /\ wpc \in {"read", "stage", "close"} /\ wi <= Len(todo) /\ wpc' = "failed"
    /\ UNCHANGED <<WorkerRest, pinned, wi, whost, errors, ready>>

WorkerFails ==
    /\ wpc \in {"read", "stage", "close"} /\ wi <= Len(todo)
    /\ errors' = TRUE /\ wpc' = "failed"
    /\ UNCHANGED <<WorkerRest, pinned, wi, whost, ready>>

WorkerReleasesNobody ==
    /\ wpc = "failed" /\ wpc' = "done"
    /\ UNCHANGED <<WorkerRest, pinned, wi, whost, errors, ready>>

WorkerReleases ==
    /\ wpc = "failed" /\ wpc' = "done"
    /\ ready' = 1 .. Len(todo)
    /\ UNCHANGED <<WorkerRest, pinned, wi, whost, errors>>

WorkerEnds ==
    /\ wpc = "read" /\ wi > Len(todo) /\ wpc' = "done"
    /\ UNCHANGED <<WorkerRest, pinned, wi, whost, errors, ready>>

Main ==
    \/ Ensure \/ EnsureRaises \/ PackOnly \/ Ensured \/ StartRun
    \/ Read \/ Stage \/ WaitReady \/ StorageFailed \/ H2d \/ Compute \/ Join \/ Keep \/ Report
    \/ ReadRaises \/ Finally

Worker ==
    \/ WorkerReads \/ WorkerStages \/ WorkerStaged \/ WorkerAnnounces
    \/ WorkerFails \/ WorkerReleases \/ WorkerEnds

Next == StartSession \/ Main \/ Worker \/ Interrupt

\* Both threads run; reads and copies return, or raise.
Fairness == WF_vars(Main) /\ WF_vars(Worker)
Spec == Init /\ [][Next]_vars /\ Fairness

------------------------------------------------------------------------------
(* What the scripts promise. *)

\* Whatever the threads' interleaving, each layer of a run computes with the
\* bytes of its own package, all of them, in the order of the packages.
ComputedOwn ==
    pc # "off" => \A p \in DOMAIN output :
        output[p] = WeightsOf(Manifest(p).model, Manifest(p).layer)

\* "Ctrl+C writes the partial result rows collected so far"
\* (three_layer_pipeline.py:3), and so does an error: the ledger gets the rows of
\* the session in the order of its runs, none twice and none left out but at its
\* end. Rows of an output that differs from the requested model's (a package of
\* another model is streamed, then caught) are those of the session's last run,
\* and such a session does not end as complete: it raises, or Ctrl+C struck
\* between the keeping of the rows and the look at the error.
LedgerSound ==
    pc = "off" /\ exit # "none" =>
        /\ exit # "cut" => ledger = rows
        /\ exit = "complete" => ledger = <<>> \/ Len(ledger) = Runs * Len(Parts)
        /\ \A n \in DOMAIN ledger :
            /\ \E k \in DOMAIN Parts :
                   n = (ledger[n].run - 1) * Len(Parts) + k /\ ledger[n].part = Parts[k]
            /\ \/ ledger[n].of = [p \in DOMAIN todo |-> WeightsOf(model, todo[p].layer)]
               \/ ledger[n].run = rows[Len(rows)].run /\ exit # "complete"

\* Every session ends, also when the worker fails or Ctrl+C strikes while the
\* main thread waits for it.
Ends == pc # "off" ~> pc = "off"
==============================================================================
