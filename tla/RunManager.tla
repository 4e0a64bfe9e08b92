----------------------------- MODULE RunManager -----------------------------
(***************************************************************************)
(* The run manager of bench-tui (run_manager.cpp): a queue of presets, the *)
(* worker thread that spawns one llama process per arm and polls it, the   *)
(* children, and the UI thread that starts, stops, detaches and destroys.  *)
(* One action per critical section of mu_ and per system call that another *)
(* thread or a child can tell apart.                                       *)
(***************************************************************************)
EXTENDS Naturals, Sequences, FiniteSets

CONSTANTS Presets,      (* the preset names                                  *)
          Repeats,      (* preset -> its number of arms                      *)
          None,         (* no preset                                         *)
          MaxArms       (* bound: arms queued in a behaviour                 *)

ASSUME RunManagerAssumption ==
    /\ None \notin Presets
    /\ Repeats \in [Presets -> Nat]
    /\ MaxArms \in Nat

VARIABLES
    queue,          (* queue_                                                *)
    records,        (* records_                                              *)
    jsonl,          (* the lines this session appended to runs.jsonl         *)
    thread,         (* th_ and thread_done_: "none", "running" or "done"     *)
    active,         (* status_.active                                        *)
    stop_all, term_req, detach_req,
    child_pid,      (* child_pid_, 0 for none                                *)
    wpc,            (* where the worker is                                   *)
    preset, rep,    (* the preset the worker took, None, and its arm         *)
    rec,            (* the record of the arm in progress                     *)
    grace,          (* time left before a SIGKILL: "off", "running", "over"  *)
    children,       (* every child forked, in order                          *)
    earlier,        (* how many of them an earlier session forked            *)
    ui,             (* where the UI thread is                                *)
    confirming,     (* the quit-confirm bar is open                          *)
    enqueued        (* arms queued so far                                    *)

shared   == <<queue, active, stop_all, term_req, detach_req, child_pid>>
ofWorker == <<wpc, preset, rep, rec, grace>>
ledger   == <<records, jsonl>>
ofUi     == <<ui, confirming, enqueued, earlier>>
vars     == <<shared, thread, ofWorker, ledger, children, ofUi>>

Notes == {"", "stopped", "detached", "spawn-failed", "jsonl-append-failed"}

NoRecord == [preset |-> None, rep |-> 0, child |-> 0, note |-> ""]

Init ==
    /\ queue = <<>> /\ records = <<>> /\ jsonl = <<>>
    /\ thread = "none" /\ active = FALSE
    /\ stop_all = FALSE /\ term_req = FALSE /\ detach_req = FALSE
    /\ child_pid = 0
    /\ wpc = "pop" /\ preset = None /\ rep = 0 /\ rec = NoRecord /\ grace = "off"
    /\ children = <<>> /\ earlier = 0
    /\ ui = "ready" /\ confirming = FALSE /\ enqueued = 0

(* bench-tui is launched again: a new manager, with the children an earlier *)
(* session detached still alive.                                            *)
Relaunch ==
    /\ ui = "gone"
    /\ queue' = <<>> /\ records' = <<>> /\ jsonl' = <<>>
    /\ thread' = "none" /\ active' = FALSE
    /\ stop_all' = FALSE /\ term_req' = FALSE /\ detach_req' = FALSE
    /\ child_pid' = 0
    /\ ui' = "ready" /\ confirming' = FALSE
    /\ earlier' = Len(children)
    /\ UNCHANGED <<ofWorker, children, enqueued>>

-----------------------------------------------------------------------------
(* A child: fork, setsid, exec, and an end.  It shows as a llama process    *)
(* once exec replaced it.                                                   *)

Forked == [state |-> "forked", signalled |-> FALSE, early |-> FALSE]

ChildBecomes(c, state) ==
    /\ children' = [children EXCEPT ![c].state = state]
    /\ UNCHANGED <<shared, thread, ofWorker, ledger, ofUi>>

Setsid(c) == children[c].state = "forked" /\ ChildBecomes(c, "leader")

Exec(c) == children[c].state = "leader" /\ ChildBecomes(c, "llama")

(* exec fails, or llama ends by itself                                      *)
ChildExits(c) == children[c].state \in {"leader", "llama"} /\ ChildBecomes(c, "zombie")

(* kill(-pid, SIGTERM) and kill(-pid, SIGKILL).  Before setsid there is no  *)
(* such process group; a zombie does not notice; llama may ignore SIGTERM.  *)
Alive(c) == children[c].state \in {"leader", "llama"}

Killed(c) ==
    IF Alive(c) THEN [children EXCEPT ![c].state = "zombie", ![c].signalled = TRUE]
                ELSE children

Terminated(c) ==
    {Killed(c)} \cup IF children[c].state = "llama"
                     THEN {[children EXCEPT ![c].signalled = TRUE]} ELSE {}

-----------------------------------------------------------------------------
(* run_loop: the worker thread                                              *)

Worker(from, to) == thread = "running" /\ wpc = from /\ wpc' = to

TakePreset ==
    /\ Worker("pop", "arm")
    /\ ~stop_all /\ queue # <<>>
    /\ preset' = Head(queue) /\ queue' = Tail(queue) /\ rep' = 0
    /\ active' = TRUE
    /\ UNCHANGED <<thread, stop_all, term_req, detach_req, child_pid, rec, grace,
                   ledger, children, ofUi>>

NothingToTake ==
    /\ Worker("pop", "finish")
    /\ stop_all \/ queue = <<>>
    /\ UNCHANGED <<shared, thread, preset, rep, rec, grace, ledger, children, ofUi>>

\* Mutant: one arm too many.
BeginArmOneMore ==
    /\ Worker("arm", "spawn")
    /\ rep <= Repeats[preset] /\ ~stop_all
    /\ rep' = rep + 1
    /\ rec' = [NoRecord EXCEPT !.preset = preset, !.rep = rep + 1]
    /\ UNCHANGED <<shared, thread, preset, grace, ledger, children, ofUi>>

\* Mutant: a stop between two arms does not prevent the next one.
BeginArmAfterStop ==
    /\ Worker("arm", "spawn")
    /\ rep < Repeats[preset]
    /\ rep' = rep + 1
    /\ rec' = [NoRecord EXCEPT !.preset = preset, !.rep = rep + 1]
    /\ UNCHANGED <<shared, thread, preset, grace, ledger, children, ofUi>>

BeginArm ==
    /\ Worker("arm", "spawn")
    /\ rep < Repeats[preset] /\ ~stop_all
    /\ rep' = rep + 1
    /\ rec' = [NoRecord EXCEPT !.preset = preset, !.rep = rep + 1]
    /\ UNCHANGED <<shared, thread, preset, grace, ledger, children, ofUi>>

EndPreset ==
    /\ wpc = "arm" /\ thread = "running"
    /\ rep = Repeats[preset] \/ stop_all
    /\ wpc' = IF stop_all THEN "finish" ELSE "pop"
    /\ active' = FALSE
    /\ preset' = None /\ rep' = 0
    /\ UNCHANGED <<queue, stop_all, term_req, detach_req, child_pid, thread, rec, grace,
                   ledger, children, ofUi>>

Finish ==
    /\ Worker("finish", "pop")
    /\ thread' = "done" /\ active' = FALSE
    /\ UNCHANGED <<queue, stop_all, term_req, detach_req, child_pid, preset, rep, rec, grace,
                   ledger, children, ofUi>>

-----------------------------------------------------------------------------
(* spawn_and_wait                                                           *)

SpawnFails ==
    /\ Worker("spawn", "append")
    /\ rec' = [rec EXCEPT !.note = "spawn-failed"]                \* open or fork
    /\ UNCHANGED <<shared, thread, preset, rep, grace, ledger, children, ofUi>>

Fork ==
    /\ Worker("spawn", "publish")
    /\ children' = Append(children, Forked)
    /\ rec' = [rec EXCEPT !.child = Len(children) + 1]
    /\ UNCHANGED <<shared, thread, preset, rep, grace, ledger, ofUi>>

Publish ==
    /\ Worker("publish", "wait")
    /\ child_pid' = rec.child
    /\ UNCHANGED <<queue, active, stop_all, term_req, detach_req, thread, preset, rep, rec,
                   grace, ledger, children, ofUi>>

(* waitpid(pid, &st, WNOHANG)                                               *)
WaitReaps ==
    /\ Worker("wait", "reap")
    /\ children[rec.child].state = "zombie"
    /\ children' = [children EXCEPT ![rec.child].state = "reaped"]
    /\ UNCHANGED <<shared, thread, preset, rep, rec, grace, ledger, ofUi>>

WaitReturnsZero ==
    /\ Worker("wait", "flags")
    /\ children[rec.child].state # "zombie"
    /\ UNCHANGED <<shared, thread, preset, rep, rec, grace, ledger, children, ofUi>>

\* Mutant: a SIGTERM that was ignored or lost is never followed by SIGKILL.
ActOnTermWithoutKill ==
    /\ Worker("flags", "wait")
    /\ term_req
    /\ \/ /\ grace = "off"
          /\ children' \in Terminated(rec.child)
          /\ grace' = "running"
       \/ /\ grace # "off"
          /\ UNCHANGED <<children, grace>>
    /\ UNCHANGED <<shared, thread, preset, rep, rec, ledger, ofUi>>

(* The flags are read, and a stop in flight signals the group: SIGTERM      *)
(* once, SIGKILL when the grace is over, and again every second after that. *)
ActOnTerm ==
    /\ Worker("flags", "wait")
    /\ term_req
    /\ \/ /\ grace = "off"
          /\ children' \in Terminated(rec.child)
          /\ grace' = "running"
       \/ /\ grace = "over"
          /\ children' = Killed(rec.child)
          /\ grace' = "running"
       \/ /\ grace = "running"
          /\ UNCHANGED <<children, grace>>
    /\ UNCHANGED <<shared, thread, preset, rep, rec, ledger, ofUi>>

Detached ==
    /\ rec' = [rec EXCEPT !.note = "detached"]
    /\ child_pid' = 0
    /\ children' = [children EXCEPT ![rec.child].early =
                        children[rec.child].state \in {"forked", "leader"}]

\* Mutant: a detach request wins over a stop in flight.
ActOnDetachFirst ==
    /\ Worker("flags", "append")
    /\ detach_req
    /\ Detached
    /\ UNCHANGED <<queue, active, stop_all, term_req, detach_req, thread, preset, rep, grace,
                   ledger, ofUi>>

\* Mutant: the worker keeps polling the child it detached.
ActOnDetachKeepsPolling ==
    /\ Worker("flags", "wait")
    /\ detach_req /\ ~term_req
    /\ Detached
    /\ UNCHANGED <<queue, active, stop_all, term_req, detach_req, thread, preset, rep, grace,
                   ledger, ofUi>>

(* detach only when no stop is in flight                                    *)
ActOnDetach ==
    /\ Worker("flags", "append")
    /\ detach_req /\ ~term_req
    /\ Detached
    /\ UNCHANGED <<queue, active, stop_all, term_req, detach_req, thread, preset, rep, grace,
                   ledger, ofUi>>

PollAgain ==
    /\ Worker("flags", "wait")
    /\ ~term_req /\ ~detach_req
    /\ UNCHANGED <<shared, thread, preset, rep, rec, grace, ledger, children, ofUi>>

Reap ==
    /\ Worker("reap", "append")
    /\ child_pid' = 0
    /\ rec' = [rec EXCEPT !.note = IF grace = "off" THEN "" ELSE "stopped"]
    /\ UNCHANGED <<queue, active, stop_all, term_req, detach_req, thread, preset, rep, grace,
                   ledger, children, ofUi>>

GraceExpires ==
    /\ grace = "running"
    /\ grace' = "over"
    /\ UNCHANGED <<shared, thread, wpc, preset, rep, rec, ledger, children, ofUi>>

-----------------------------------------------------------------------------
(* run_loop again: the record of the arm                                    *)

\* A file that cannot be opened is noted, a write or a close that fails is not.
AppendLine ==
    /\ Worker("append", "push")
    /\ \/ jsonl' = Append(jsonl, rec) /\ UNCHANGED rec
       \/ /\ rec' \in {rec, [rec EXCEPT !.note = IF @ = "" THEN "jsonl-append-failed" ELSE @]}
          /\ UNCHANGED jsonl
    /\ UNCHANGED <<shared, thread, preset, rep, grace, records, children, ofUi>>

\* Mutant: an arm that was stopped is not kept.
PushFinished ==
    /\ Worker("push", "arm")
    /\ records' = IF rec.note = "stopped" THEN records ELSE Append(records, rec)
    /\ rec' = NoRecord /\ grace' = "off"
    /\ UNCHANGED <<shared, thread, preset, rep, jsonl, children, ofUi>>

Push ==
    /\ Worker("push", "arm")
    /\ records' = Append(records, rec)
    /\ rec' = NoRecord /\ grace' = "off"
    /\ UNCHANGED <<shared, thread, preset, rep, jsonl, children, ofUi>>

WorkerStep ==
    \/ TakePreset \/ NothingToTake \/ BeginArm \/ EndPreset \/ Finish
    \/ SpawnFails \/ Fork \/ Publish \/ WaitReaps \/ WaitReturnsZero
    \/ ActOnTerm \/ ActOnDetach \/ PollAgain \/ Reap \/ AppendLine \/ Push

-----------------------------------------------------------------------------
(* The UI thread: the keys of the Runs tab, the quit-confirm bar, Ctrl+C.   *)

Key == ui = "ready" /\ ~confirming

Enqueue ==
    /\ Key
    /\ \E p \in Presets :
           /\ enqueued + Repeats[p] <= MaxArms
           /\ enqueued' = enqueued + Repeats[p]
           /\ queue' = Append(queue, p)
    /\ UNCHANGED <<active, stop_all, term_req, detach_req, child_pid, thread, ofWorker, ledger,
                   children, ui, confirming, earlier>>

(* do_dequeue: the queue is locked while a run is active; remove_queued     *)
(* takes the lock again.                                                    *)
AskDequeue ==
    /\ Key
    /\ ~active
    /\ ui' = "dequeuing"
    /\ UNCHANGED <<shared, thread, ofWorker, ledger, children, confirming, enqueued, earlier>>

RemoveQueued ==
    /\ ui = "dequeuing"
    /\ ui' = "ready"
    /\ \/ \E i \in DOMAIN queue :
             queue' = SubSeq(queue, 1, i - 1) \o SubSeq(queue, i + 1, Len(queue))
       \/ UNCHANGED queue
    /\ UNCHANGED <<active, stop_all, term_req, detach_req, child_pid, thread, ofWorker, ledger,
                   children, confirming, enqueued, earlier>>

Llamas == {c \in DOMAIN children : children[c].state = "llama"}

\* Mutant: the queue starts without a scan for llama processes.
PreflightNothing ==
    /\ Key
    /\ ui' = "starting"
    /\ UNCHANGED <<shared, thread, ofWorker, ledger, children, confirming, enqueued, earlier>>

(* do_start: no llama process runs, then start() takes the lock.            *)
Preflight ==
    /\ Key
    /\ Llamas = {}
    /\ ui' = "starting"
    /\ UNCHANGED <<shared, thread, ofWorker, ledger, children, confirming, enqueued, earlier>>

StartRun ==
    /\ ui = "starting" /\ ui' = "ready"
    /\ IF thread # "running" /\ queue # <<>>
       THEN /\ thread' = "running"
            /\ stop_all' = FALSE /\ term_req' = FALSE /\ detach_req' = FALSE
       ELSE UNCHANGED <<thread, stop_all, term_req, detach_req>>
    /\ UNCHANGED <<queue, active, child_pid, ofWorker, ledger, children, confirming, enqueued, earlier>>

RequestStop   == term_req' = TRUE /\ stop_all' = TRUE /\ UNCHANGED detach_req
RequestDetach == detach_req' = TRUE /\ stop_all' = TRUE /\ UNCHANGED term_req

PressStop ==
    /\ Key
    /\ RequestStop
    /\ UNCHANGED <<queue, active, child_pid, thread, ofWorker, ledger, children, ofUi>>

PressQuit ==
    /\ ui = "ready"
    /\ IF active THEN confirming' = TRUE /\ UNCHANGED ui
                 ELSE ui' = "quitting" /\ UNCHANGED confirming
    /\ UNCHANGED <<shared, thread, ofWorker, ledger, children, enqueued, earlier>>

(* s, d and c of the confirm bar, and the timer that closes a stale bar     *)
Confirm ==
    /\ ui = "ready" /\ confirming
    /\ confirming' = FALSE
    /\ \/ RequestStop /\ ui' = "quitting"
       \/ RequestDetach /\ ui' = "quitting"
       \/ UNCHANGED <<ui, stop_all, term_req, detach_req>>
    /\ UNCHANGED <<queue, active, child_pid, thread, ofWorker, ledger, children, enqueued, earlier>>

CtrlC ==
    /\ ui = "ready"
    /\ ui' = "quitting"
    /\ UNCHANGED <<shared, thread, ofWorker, ledger, children, confirming, enqueued, earlier>>

(* ~RunManager: the flags, then the join.                                   *)
Destroy ==
    /\ ui = "quitting" /\ ui' = "joining"
    /\ stop_all' = TRUE
    /\ detach_req' = (detach_req \/ (child_pid > 0 /\ ~term_req))
    /\ UNCHANGED <<queue, active, term_req, child_pid, thread, ofWorker, ledger, children,
                   confirming, enqueued, earlier>>

JoinWorker ==
    /\ ui = "joining" /\ ui' = "gone"
    /\ thread # "running"
    /\ UNCHANGED <<shared, thread, ofWorker, ledger, children, confirming, enqueued, earlier>>

UiMayStep == \/ Enqueue \/ AskDequeue \/ Preflight \/ PressStop \/ PressQuit \/ Confirm \/ CtrlC
UiFinishes == RemoveQueued \/ StartRun \/ Destroy \/ JoinWorker

ChildStep(c) == Setsid(c) \/ Exec(c) \/ ChildExits(c)

Next == \/ Relaunch \/ WorkerStep \/ GraceExpires \/ UiMayStep \/ UiFinishes
        \/ \E c \in DOMAIN children : ChildStep(c)

(* The scheduler runs the worker, the UI thread once it is inside a         *)
(* handler, and a child up to its setsid; time passes.  Nobody has to press *)
(* a key, and a child may run forever.                                      *)
Fairness == /\ WF_vars(WorkerStep) /\ WF_vars(GraceExpires) /\ WF_vars(UiFinishes)
            /\ WF_vars(\E c \in DOMAIN children : Setsid(c))

Spec == Init /\ [][Next]_vars

FairSpec == Spec /\ Fairness

-----------------------------------------------------------------------------
WorkerLabels == {"pop", "arm", "spawn", "publish", "wait", "flags", "reap", "append",
                 "push", "finish"}

InArm == wpc \in {"spawn", "publish", "wait", "flags", "reap", "append", "push"}

Record == [preset : Presets, rep : Nat, child : 0 .. Len(children), note : Notes]

(* Every variable keeps the values the code gives it; an arm's index is     *)
(* within its preset's repeats.                                             *)
TypeOK ==
    /\ queue \in Seq(Presets)
    /\ records \in Seq(Record) /\ jsonl \in Seq(Record)
    /\ rec \in Record \cup {NoRecord}
    /\ thread \in {"none", "running", "done"}
    /\ {active, stop_all, term_req, detach_req, confirming} \subseteq BOOLEAN
    /\ child_pid \in 0 .. Len(children)
    /\ wpc \in WorkerLabels
    /\ preset \in Presets \cup {None}
    /\ rep \in 0 .. IF preset = None THEN 0 ELSE Repeats[preset]
    /\ grace \in {"off", "running", "over"}
    /\ children \in Seq([state : {"forked", "leader", "llama", "zombie", "reaped"}, signalled : BOOLEAN, early : BOOLEAN])
    /\ ui \in {"ready", "dequeuing", "starting", "quitting", "joining", "gone"}
    /\ enqueued \in 0 .. MaxArms /\ earlier \in 0 .. Len(children)

RecordsOf(c) == {i \in DOMAIN records : records[i].child = c}

(* No child is lost and none is counted twice: every child the session      *)
(* forked is either the one the worker manages or has exactly one record,   *)
(* the children appear in the records in the order they were forked, a      *)
(* child with a record was reaped unless the record says it was detached,   *)
(* and the session wrote nothing to runs.jsonl that the records in memory   *)
(* do not say.                                                              *)
ChildrenAccounted ==
    /\ \A c \in earlier + 1 .. Len(children) :
           Cardinality(RecordsOf(c)) = IF InArm /\ rec.child = c THEN 0 ELSE 1
    /\ \A i, j \in DOMAIN records :
           i < j /\ records[j].child > 0 => records[i].child < records[j].child
    /\ \A i \in DOMAIN records :
           records[i].child > 0 =>
               (records[i].note = "detached" \/ children[records[i].child].state = "reaped")
    /\ \A i \in DOMAIN jsonl :
           \/ \E j \in DOMAIN records : jsonl[i] = records[j]
           \/ wpc = "push" /\ i = Len(jsonl) /\ jsonl[i] = rec

(* No child is killed implicitly (run_manager.cpp:91, README.md:27): a      *)
(* child that was sent a signal has a record that says "stopped", never one *)
(* that says it was detached or ended by itself.                            *)
OnlyStoppedSignalled ==
    \A i \in DOMAIN records :
        records[i].child > 0 /\ children[records[i].child].signalled
            => records[i].note = "stopped"

(* Two llama processes of bench-tui share the GPU only when the older one   *)
(* was detached, at the end of an earlier session, before its exec, so that *)
(* the scan of /proc by the next session could not see it: the preflight,   *)
(* the single worker and its poll loop exclude the rest.                    *)
VramExclusive ==
    \A c, d \in Llamas : c < d => children[c].early

ArmOf(r) == [preset |-> r.preset, rep |-> r.rep, note |-> r.note]

(* The worker, the UI thread and the children together run the queue as     *)
(* ArmLog says.                                                             *)
Arms == INSTANCE ArmLog WITH
            on   <- thread = "running" /\ ~stop_all /\ wpc # "finish",
            busy <- InArm,
            log  <- [i \in DOMAIN records |-> ArmOf(records[i])]

ImplementsArmLog == Arms!Spec

(* A stop ends the run whatever the child does with SIGTERM and even when   *)
(* it is sent before the child leads its process group.                     *)
StopEnds == term_req /\ thread = "running" ~> thread # "running"

(* The destructor waits for a child that will end by itself only when it    *)
(* found no child to detach: the worker had not published it yet.           *)
Unnoticed == ui = "joining" /\ InArm /\ ~term_req /\ ~detach_req

QuitEnds == ui = "quitting" ~> ui = "gone" \/ Unnoticed

(* README.md:27: Ctrl+C quits immediately, an active run is detached.       *)
QuitReturns == ui = "quitting" ~> ui = "gone"

(* ui_tabs.cpp:233: the queue is locked while a run is active.              *)
QueueLocked == [][ui = "dequeuing" /\ queue' # queue /\ ui' = "ready" => ~active]_vars
=============================================================================
