------------------------------- MODULE LiveRun -------------------------------
(***************************************************************************)
(* One call of run_live (src/benchmarks/system/common.py), which every     *)
(* experiment driver makes for every measurement: the caller's thread, the *)
(* child, the child's two pipes, the two daemon threads that drain them,   *)
(* the timeout, Ctrl+C, and terminate_child with its escalation.           *)
(*                                                                         *)
(* A line is abstracted to its number: written[s] and parts[s] count the   *)
(* lines of stream s that the child wrote and that the parent appended;    *)
(* their difference is in the pipe.                                        *)
(***************************************************************************)
EXTENDS Integers

CONSTANTS
    MaxLines,      \* lines a child writes to each stream at most
    PipeSize,      \* lines a pipe holds before a write blocks
    MaxInterrupts  \* times the user presses Ctrl+C

ASSUME LiveRunAssumption ==
    /\ MaxLines \in Nat
    /\ PipeSize \in Nat \ {0}
    /\ MaxInterrupts \in Nat

Streams == {"out", "err"}

VARIABLES
    main,       \* where the thread that called run_live is
    signal,     \* the strongest signal sent to the child
    rc,         \* the local variable rc
    child,      \* the child process: running, a zombie, or reaped
    ended,      \* how the child ended
    hangs,      \* the child does not end by itself
    planned,    \* lines the child's program writes to each stream
    written,    \* lines written so far
    holder,     \* a process the child started keeps the pipes open
    drain,      \* the thread of each stream
    parts,      \* lines appended by each thread
    interrupts, \* Ctrl+C pressed so far
    late,       \* history: a join gave up on these streams
    result,     \* the lines of the returned dict, per stream
    abandoned   \* history: why the child may outlive the call

procVars == <<child, ended, hangs, planned, written, holder>>
drainVars == <<drain, parts>>
mainVars == <<main, signal, rc, interrupts, late, result, abandoned>>
vars == <<procVars, drainVars, mainVars>>

Finished == {"returned", "raised"}

TypeOK ==
    /\ main \in {"popen", "opened", "starting", "wait", "terminating",
                 "interrupted", "timed_out", "join_out", "join_err"} \cup Finished
    /\ signal \in {"none", "term", "kill"}
    /\ rc \in {"unset", "ok", "failed", "timeout"}
    /\ child \in {"none", "running", "zombie", "reaped"}
    /\ ended \in {"not", "ok", "failed"}
    /\ hangs \in BOOLEAN /\ holder \in BOOLEAN
    /\ planned \in [Streams -> 0..MaxLines]
    /\ drain \in [Streams -> {"new", "reading", "eof"}]
    /\ interrupts \in 0..MaxInterrupts
    /\ late \in SUBSET Streams
    /\ abandoned \in {"no", "unprotected", "in_terminate", "not_killed"}
    /\ \A s \in Streams :
        /\ parts[s] \in 0..written[s]
        /\ written[s] \in 0..planned[s]
        /\ written[s] - parts[s] <= PipeSize
        /\ result[s] \in 0..parts[s]

Init ==
    /\ main = "popen" /\ signal = "none" /\ rc = "unset"
    /\ child = "none" /\ ended = "not" /\ holder = FALSE
    /\ hangs \in BOOLEAN
    /\ planned \in [Streams -> 0..MaxLines]
    /\ written = [s \in Streams |-> 0]
    /\ drain = [s \in Streams |-> "new"]
    /\ parts = [s \in Streams |-> 0]
    /\ interrupts = 0 /\ late = {} /\ abandoned = "no"
    /\ result = [s \in Streams |-> 0]

------------------------------------------------------------------------------
(* The child. *)

\* A pipe without a limit.
ChildWritesFreely(s) ==
    /\ child = "running" /\ written[s] < planned[s]
    /\ written' = [written EXCEPT ![s] = @ + 1]
    /\ UNCHANGED <<child, ended, hangs, planned, holder, drainVars, mainVars>>

\* A write blocks while the pipe is full.
ChildWrites(s) ==
    /\ child = "running"
    /\ written[s] < planned[s]
    /\ written[s] - parts[s] < PipeSize
    /\ written' = [written EXCEPT ![s] = @ + 1]
    /\ UNCHANGED <<child, ended, hangs, planned, holder, drainVars, mainVars>>

ChildEnds(how) ==
    /\ child = "running"
    /\ child' = "zombie" /\ ended' = how
    /\ holder' \in BOOLEAN
    /\ UNCHANGED <<hangs, planned, written, drainVars, mainVars>>

ChildCompletes == ~hangs /\ written = planned /\ ChildEnds("ok")

\* An error of its own, or one of the signals sent to it.
ChildFails == ChildEnds("failed")

HolderEnds ==
    /\ holder /\ holder' = FALSE
    /\ UNCHANGED <<child, ended, hangs, planned, written, drainVars, mainVars>>

------------------------------------------------------------------------------
(* The threads of drain(). *)

\* One pipe drained after the other.
DrainLineInTurn(s) ==
    /\ drain[s] = "reading" /\ parts[s] < written[s]
    /\ s = "err" => drain["out"] = "eof"
    /\ parts' = [parts EXCEPT ![s] = @ + 1]
    /\ UNCHANGED <<drain, procVars, mainVars>>

DrainLine(s) ==
    /\ drain[s] = "reading"
    /\ parts[s] < written[s]
    /\ parts' = [parts EXCEPT ![s] = @ + 1]
    /\ UNCHANGED <<drain, procVars, mainVars>>

PipeClosed == child \in {"zombie", "reaped"} /\ ~holder

DrainEnds(s) ==
    /\ drain[s] = "reading"
    /\ parts[s] = written[s] /\ PipeClosed
    /\ drain' = [drain EXCEPT ![s] = "eof"]
    /\ UNCHANGED <<parts, procVars, mainVars>>

------------------------------------------------------------------------------
(* The caller's thread. *)

Goto(at) ==
    /\ main' = at
    /\ UNCHANGED <<signal, rc, interrupts, late, result, abandoned>>

Popen ==
    /\ main = "popen" /\ Goto("opened")
    /\ child' = "running"
    /\ UNCHANGED <<ended, hangs, planned, written, holder, drainVars>>

EnterTry == main = "opened" /\ Goto("starting") /\ UNCHANGED <<procVars, drainVars>>

\* t.start() of both threads, standard output first.
StartDrain(s) ==
    /\ main = "starting" /\ drain[s] = "new"
    /\ s = "err" => drain["out"] # "new"
    /\ drain' = [drain EXCEPT ![s] = "reading"]
    /\ Goto(IF s = "err" THEN "wait" ELSE "starting")
    /\ UNCHANGED <<parts, procVars>>

Reap ==
    /\ child = "zombie" /\ child' = "reaped"
    /\ UNCHANGED <<ended, hangs, planned, written, holder, drainVars>>

WaitReturns ==
    /\ main = "wait" /\ Reap
    /\ main' = "join_out" /\ rc' = ended
    /\ UNCHANGED <<signal, interrupts, late, result, abandoned>>

\* proc.terminate(), the first statement of terminate_child.
SendTerm(caller) ==
    /\ main' = caller /\ signal' = "term"
    /\ UNCHANGED <<rc, late, result, abandoned, procVars, drainVars>>

WaitExpires ==
    /\ main = "wait" /\ child = "running"
    /\ SendTerm("timed_out") /\ UNCHANGED interrupts

\* After terminate_child: the timeout reports -1, Ctrl+C is raised again.
Terminated(caller) ==
    IF caller = "timed_out"
    THEN main' = "join_out" /\ rc' = "timeout"
    ELSE main' = "raised" /\ rc' = rc

TermReaps(caller) ==
    /\ main = caller /\ Reap /\ Terminated(caller)
    /\ UNCHANGED <<signal, interrupts, late, result, abandoned>>

\* The timeout of the first wait is taken for the end of the child.
TermExpiresAndReturns(caller) ==
    /\ main = caller /\ signal = "term" /\ child = "running"
    /\ Terminated(caller)
    /\ UNCHANGED <<signal, interrupts, late, result, abandoned, procVars, drainVars>>

TermExpires(caller) ==
    /\ main = caller /\ signal = "term" /\ child = "running"
    /\ signal' = "kill"
    /\ UNCHANGED <<main, rc, interrupts, late, result, abandoned, procVars, drainVars>>

\* The second wait has no handler: TimeoutExpired leaves run_live.
KillExpires(caller) ==
    /\ main = caller /\ signal = "kill" /\ child = "running"
    /\ main' = "raised" /\ abandoned' = "not_killed"
    /\ UNCHANGED <<signal, rc, interrupts, late, result, procVars, drainVars>>

\* t.join(timeout=5) of one thread after the other; the dict is built from what
\* the threads have appended by then, those that did not end included.
Join(s, expired) ==
    /\ main = (IF s = "out" THEN "join_out" ELSE "join_err")
    /\ late' = IF expired THEN late \cup {s} ELSE late
    /\ IF s = "out"
       THEN main' = "join_err" /\ UNCHANGED result
       ELSE main' = "returned" /\ result' = parts
    /\ UNCHANGED <<signal, rc, interrupts, abandoned, procVars, drainVars>>

\* The joins are left out.
JoinedAtOnce(s) == drain[s] # "new" /\ Join(s, FALSE)

Joined(s) == drain[s] = "eof" /\ Join(s, FALSE)
JoinExpires(s) == drain[s] = "reading" /\ Join(s, TRUE)

\* Where a KeyboardInterrupt goes: to the handler inside the try, and to the
\* caller from everywhere else.
Protected == {"starting", "wait"}
Joining == {"join_out", "join_err"}

Interrupt ==
    /\ main \in Protected \cup {"opened", "interrupted", "timed_out"} \cup Joining
    /\ interrupts < MaxInterrupts
    /\ interrupts' = interrupts + 1
    /\ \/ main \in Protected /\ SendTerm("interrupted")
       \/ /\ main \notin Protected
          /\ main' = "raised"
          /\ abandoned' = CASE main = "opened" -> "unprotected"
                            [] main \in Joining -> "no"
                            [] OTHER -> "in_terminate"
          /\ UNCHANGED <<signal, rc, late, result, procVars, drainVars>>

Callers == {"interrupted", "timed_out"}

Main ==
    \/ Popen \/ EnterTry \/ (\E s \in Streams : StartDrain(s))
    \/ WaitReturns \/ (\E s \in Streams : Joined(s))
    \/ \E c \in Callers : TermReaps(c)

Clock ==
    \/ \E s \in Streams : JoinExpires(s)
    \/ \E c \in Callers : TermExpires(c) \/ KillExpires(c)

Next ==
    \/ Main \/ Clock \/ WaitExpires \/ Interrupt
    \/ ChildCompletes \/ ChildFails \/ HolderEnds
    \/ \E s \in Streams : ChildWrites(s) \/ DrainLine(s) \/ DrainEnds(s)

(***************************************************************************)
(* Threads and the started child make progress, and the short waits        *)
(* expire. The long timeout (3600 s) comes to pass only for a child that   *)
(* hangs: a healthy one has to end by itself. Failures, Ctrl+C and the end *)
(* of a process that keeps the pipes are never forced.                     *)
(***************************************************************************)
Fairness ==
    /\ WF_vars(Main) /\ WF_vars(Clock) /\ WF_vars(hangs /\ WaitExpires)
    /\ WF_vars(ChildCompletes)
    /\ \A s \in Streams :
        WF_vars(ChildWrites(s)) /\ WF_vars(DrainLine(s)) /\ WF_vars(DrainEnds(s))

Spec == Init /\ [][Next]_vars /\ Fairness

------------------------------------------------------------------------------
(* What the callers rely on. *)

\* A returned dict holds every line the child wrote, on both streams, though the
\* caller has seen only the exit of the child and reads the lists of two other
\* threads - unless a join gave up on the thread (common.py:168), which the
\* caller cannot tell from a complete output.
NothingLost ==
    main = "returned" =>
        \A s \in Streams \ late :
            result[s] = written[s] /\ (rc = "ok" => result[s] = planned[s])

\* However the call ends, the child is gone. The exceptions are the three a
\* reader of the code finds: a Ctrl+C before the try (common.py:137-154), a
\* second one inside terminate_child, and a child SIGKILL does not end in time.
ChildNotLeft ==
    main \in Finished /\ abandoned = "no" => child = "reaped"

\* run_live always ends: no pair of full pipes and waiting threads stops it,
\* and a child that hangs is ended by the timeout.
Ends == <>(main \in Finished)
==============================================================================
