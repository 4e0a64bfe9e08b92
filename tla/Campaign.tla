------------------------------ MODULE Campaign ------------------------------
(***************************************************************************)
(* The life of an experiment driver: sessions of one script, each of which *)
(* measures the arms of its plan one after the other with run_live, keeps  *)
(* the records in memory and writes its output file once, at the end or    *)
(* when Ctrl+C is pressed. The files survive from session to session.      *)
(*                                                                         *)
(* Numbers of a run tell whose measurement a file or a record holds:       *)
(* <<session, arm>>; Torn is the content of a file that was truncated and  *)
(* not, or not completely, written.                                        *)
(***************************************************************************)
EXTENDS DriverScripts, FiniteSets

CONSTANTS
    Torn,
    MaxSessions,   \* sessions of the script
    MaxInterrupts, \* Ctrl+C in all sessions
    MaxFaults      \* results other than the normal one, in all sessions

ASSUME CampaignAssumption ==
    /\ {MaxSessions, MaxInterrupts, MaxFaults} \subseteq Nat
    /\ {None, Torn} \cap {"complete", "interrupted", "failed"} = {} /\ Torn # None

VARIABLES
    driver,   \* the script, a record of DriverScripts
    session,  \* number of the current or last session
    pc,       \* where the script is, "idle" between sessions
    plan,     \* the arms of this session, --only applied
    absent,   \* model files that are not there in this session
    next,     \* the arm of the loop
    results,  \* what run_live returned, per arm that was run
    records,  \* the list the script keeps
    status,   \* the status write_payload was called with
    draft,    \* the records write_payload is about to write
    out,      \* the output file
    logs,     \* the files that belong to an arm
    pressed,  \* Ctrl+C so far
    faults,   \* results other than the normal one so far
    exit      \* how the last session ended

arms == <<driver, session, plan, absent>>
memory == <<next, results, records>>
payload == <<status, draft>>
files == <<out, logs>>
counts == <<pressed, faults>>
vars == <<arms, memory, payload, files, counts, pc, exit>>

Statuses == {"complete", "interrupted", "failed"}
Good == [zero |-> TRUE, output |-> "full"]

With(f, x, y) == [z \in DOMAIN f \cup {x} |-> IF z = x THEN y ELSE f[z]]

Run == <<session, next>>
NoFile == [status |-> None, records |-> <<>>]

Record(name, outcome, run) ==
    [name |-> name, status |-> outcome.status, value |-> outcome.value, run |-> run,
     metrics |-> run]

\* An arm is named by its parameters, a missing model by its own name.
ArmNames ==
    {driver.plan[i].name : i \in DOMAIN driver.plan} \cup {<<m>> : m \in ToSet(Models)}
RowStatuses == {"ok", "error", "parse_error", "missing", "skipped"}

IsRecord(r) ==
    /\ r.name \in ArmNames
    /\ r.status \in RowStatuses
    /\ r.value \in BOOLEAN

TypeOK ==
    /\ driver \in Scripts
    /\ session \in 0..MaxSessions
    /\ pc \in {"idle", "loop", "running", "returned", "logged", "appended",
               "closing", "truncated", "rewriting"}
    /\ ToSet(plan) \subseteq ToSet(driver.plan)
    /\ absent \subseteq ToSet(Models)
    /\ next \in 1..(Len(plan) + 1)
    /\ \A i \in DOMAIN results : results[i] \in Results
    /\ \A i \in DOMAIN records : IsRecord(records[i])
    /\ status \in Statuses \cup {None}
    /\ out.status \in Statuses \cup {None, Torn}
    /\ \A i \in DOMAIN out.records : IsRecord(out.records[i])
    /\ DOMAIN logs \subseteq {driver.plan[i].log : i \in DOMAIN driver.plan}
    /\ pressed \in 0..MaxInterrupts /\ faults \in 0..MaxFaults
    /\ exit \in Statuses \cup {None, "error", "traceback"}

Init ==
    /\ driver \in Scripts
    /\ session = 0 /\ pc = "idle" /\ plan = <<>> /\ absent = {} /\ next = 1
    /\ results = <<>> /\ records = <<>> /\ status = None /\ draft = <<>>
    /\ out = NoFile /\ logs = <<>> /\ pressed = 0 /\ faults = 0 /\ exit = None

ExitWith(how) == pc' = "idle" /\ exit' = how

------------------------------------------------------------------------------
(* The loop. *)

\* Arms of the plan, by their places, in its order.
Picks ==
    {p \in UNION {[1 .. n -> DOMAIN driver.plan] : n \in 0 .. Len(driver.plan)} :
        \A i, j \in DOMAIN p : i < j => p[i] < p[j]}

Selections ==
    IF driver.only
    THEN {[i \in DOMAIN p |-> driver.plan[p[i]]] : p \in {q \in Picks : Len(q) > 0}}
    ELSE {driver.plan}

\* Lists and counters start empty; the files are those of the session before.
StartSession ==
    /\ pc = "idle" /\ session < MaxSessions
    /\ session' = session + 1 /\ pc' = "loop" /\ exit' = None
    /\ plan' \in Selections
    /\ absent' \in SUBSET ({plan'[i].model : i \in DOMAIN plan'} \ {None})
    /\ next' = 1 /\ results' = <<>> /\ records' = <<>>
    /\ status' = None /\ draft' = <<>>
    /\ UNCHANGED <<files, counts, driver>>

AtArm == pc = "loop" /\ next <= Len(plan)
Missing == plan[next].model \in absent

\* One arm too many is passed over.
SkipOneMore ==
    /\ AtArm /\ Missing
    /\ LET of_model == {i \in next .. Len(plan) : plan[i].model = plan[next].model}
       IN next' = next + Cardinality(of_model) + 1
    /\ records' = Append(records, Record(<<plan[next].model>>,
                                         Recorded(driver.absent, FALSE), Run))
    /\ UNCHANGED <<arms, payload, files, counts, pc, results, exit>>

\* All arms of a model that is not there make one record.
Skip ==
    /\ AtArm /\ Missing
    /\ LET of_model == {i \in next .. Len(plan) : plan[i].model = plan[next].model}
       IN next' = next + Cardinality(of_model)
    /\ records' = Append(records, Record(<<plan[next].model>>,
                                         Recorded(driver.absent, FALSE), Run))
    /\ UNCHANGED <<arms, payload, files, counts, pc, results, exit>>

\* Between the two phases of mixed_precision_speed.py.
SweepDone == driver.sweep > 0 /\ next = driver.sweep + 1 /\ Len(records) = driver.sweep
SweepOk == {i \in DOMAIN records : records[i].status = "ok"}

Launch ==
    /\ AtArm /\ ~Missing
    /\ SweepDone => SweepOk # {} /\ \A i \in SweepOk : records[i].value
    /\ pc' = "running"
    /\ logs' = IF driver.log = "child" THEN With(logs, plan[next].log, Torn) ELSE logs
    /\ UNCHANGED <<arms, memory, payload, counts, out, exit>>

\* No placement worked: a payload with status "failed", exit code 1.
SweepFails ==
    /\ AtArm /\ SweepDone /\ SweepOk = {}
    /\ pc' = "closing" /\ status' = "failed"
    /\ UNCHANGED <<arms, memory, files, counts, draft, exit>>

\* max(sweep, key=lambda r: r["tg"]) with a record that has no "tg".
SweepRaises ==
    /\ AtArm /\ SweepDone /\ \E i \in SweepOk : ~records[i].value
    /\ ExitWith("traceback")
    /\ UNCHANGED <<arms, memory, payload, files, counts>>

RunReturns(result) ==
    /\ pc = "running"
    /\ faults' = IF result = Good THEN faults ELSE faults + 1
    /\ faults' <= MaxFaults
    /\ pc' = "returned" /\ results' = Append(results, result)
    /\ logs' = IF driver.log = "child" /\ result.zero
               THEN With(logs, plan[next].log, Run) ELSE logs
    /\ UNCHANGED <<arms, payload, next, records, out, pressed, exit>>

\* A child that SIGKILL does not end: TimeoutExpired from terminate_child.
RunRaises ==
    /\ pc = "running" /\ ExitWith("traceback")
    /\ UNCHANGED <<arms, memory, payload, files, counts>>

WriteLog ==
    /\ \/ pc = "returned" /\ driver.log = "before" /\ pc' = "logged" /\ next' = next
       \/ pc = "appended" /\ pc' = "loop" /\ next' = next + 1
    /\ logs' = With(logs, plan[next].log, Run)
    /\ UNCHANGED <<arms, payload, counts, results, records, out, exit>>

Outcome ==
    IF driver.parity /\ next = 2 THEN Recorded("ok", TRUE) ELSE driver.outcome[Last(results)]

Classified == pc = (IF driver.log = "before" THEN "logged" ELSE "returned")

\* A failure is passed over, as if by "continue".
AppendRecordOfSuccess ==
    /\ Classified /\ Outcome \notin {Raises, Exits}
    /\ records' = IF Outcome.status = "ok"
                  THEN Append(records, Record(plan[next].name, Outcome, Run)) ELSE records
    /\ pc' = "loop" /\ next' = next + 1
    /\ UNCHANGED <<arms, payload, files, counts, results, exit>>

AppendRecord ==
    /\ Classified /\ Outcome \notin {Raises, Exits}
    /\ records' = Append(records, Record(plan[next].name, Outcome, Run))
    /\ IF driver.log = "after"
       THEN pc' = "appended" /\ next' = next
       ELSE pc' = "loop" /\ next' = next + 1
    /\ UNCHANGED <<arms, payload, files, counts, results, exit>>

\* Neither an IndexError nor a SystemExit is caught: nothing is written.
Stops ==
    /\ Classified /\ Outcome \in {Raises, Exits}
    /\ ExitWith(IF Outcome = Raises THEN "traceback" ELSE "error")
    /\ UNCHANGED <<arms, memory, payload, files, counts>>

------------------------------------------------------------------------------
(* The end of the loop, write_payload, Ctrl+C. *)

AtEnd == pc = "loop" /\ next > Len(plan)

LoopEnds ==
    /\ AtEnd /\ driver.keeps # "files"
    /\ pc' = "closing" /\ status' = "complete"
    /\ UNCHANGED <<arms, memory, files, counts, draft, exit>>

\* Scripts without a payload end here; parity_check.py compares the outputs.
FilesDone ==
    /\ AtEnd /\ driver.keeps = "files"
    /\ ExitWith(IF driver.parity => ParityMatch(results[1], results[2])
                THEN "complete" ELSE "error")
    /\ UNCHANGED <<arms, memory, payload, files, counts>>

NamesIn(rows) == {rows[i].name : i \in DOMAIN rows}
RowOf(rows, n) == rows[CHOOSE i \in DOMAIN rows : rows[i].name = n]

\* The rows of the file win.
MergedFileLast(n) == IF n \in NamesIn(out.records) THEN RowOf(out.records, n) ELSE RowOf(records, n)

\* mixed_precision_gate.py: rows of the file, replaced by those of this session,
\* in the order of MODELS. A file that cannot be parsed counts as empty.
Merged(n) == IF n \in NamesIn(records) THEN RowOf(records, n) ELSE RowOf(out.records, n)

MergedLists ==
    LET names == NamesIn(records) \cup NamesIn(out.records)
        named(p) == {driver.plan[p[i]].name : i \in DOMAIN p}
    IN {[i \in DOMAIN p |-> Merged(driver.plan[p[i]].name)] :
            p \in {q \in Picks : named(q) = names}}

\* What is written: there is one such list.
Payloads ==
    CASE driver.keeps = "records" -> {records}
      [] driver.keeps = "merged" -> MergedLists
      [] OTHER -> {<<>>}

\* write_text opens, and so truncates, the file after the payload was built.
Truncate ==
    /\ pc = "closing" /\ pc' = "truncated"
    /\ draft' \in Payloads
    /\ out' = [status |-> Torn, records |-> <<>>]
    /\ UNCHANGED <<arms, memory, counts, status, logs, exit>>

Fill ==
    /\ pc = "truncated" /\ ExitWith(status)
    /\ out' = [status |-> status, records |-> draft] /\ draft' = <<>>
    /\ UNCHANGED <<arms, memory, counts, status, logs>>

\* A file of an arm may be left torn. Only the loop is inside the try, and the
\* write of a failed sweep, which is then written again as interrupted.
InLoop == {"loop", "running", "returned", "logged", "appended"}
InTry == pc \in InLoop \/ (pc \in {"closing", "truncated"} /\ status = "failed")

WritingLog == pc = "appended" \/ (pc = "returned" /\ driver.log = "before")

Interrupt ==
    /\ pc # "idle" /\ pressed < MaxInterrupts /\ pressed' = pressed + 1
    /\ IF ~InTry THEN ExitWith("traceback") /\ UNCHANGED status
       ELSE IF driver.keeps = "files" THEN ExitWith("interrupted") /\ UNCHANGED status
       ELSE pc' = "closing" /\ status' = "interrupted" /\ UNCHANGED exit
    /\ \/ UNCHANGED logs
       \/ WritingLog /\ logs' = With(logs, plan[next].log, Torn)
    /\ UNCHANGED <<arms, memory, draft, out, faults>>

\* fate_repro.py --reparse: a program of its own, which takes the metrics of
\* every record of the file from its log and writes the file again.
Reparsed(r) ==
    LET log == driver.plan[CHOOSE i \in DOMAIN driver.plan : driver.plan[i].name = r.name].log
    IN IF log \in DOMAIN logs THEN [r EXCEPT !.metrics = logs[log]] ELSE r

Reparse ==
    /\ pc = "idle" /\ driver.reparse /\ session > 0 /\ out.status \in Statuses
    /\ pc' = "rewriting"
    /\ status' = out.status /\ draft' = ForEach(out.records, Reparsed)
    /\ out' = [status |-> Torn, records |-> <<>>]
    /\ UNCHANGED <<arms, memory, counts, logs, exit>>

Rewritten ==
    /\ pc = "rewriting" /\ pc' = "idle"
    /\ out' = [status |-> status, records |-> draft] /\ draft' = <<>>
    /\ UNCHANGED <<arms, memory, counts, status, logs, exit>>

Next ==
    \/ StartSession \/ Skip \/ Launch \/ SweepFails \/ SweepRaises
    \/ \E result \in Results : RunReturns(result)
    \/ RunRaises \/ WriteLog \/ AppendRecord \/ Stops
    \/ LoopEnds \/ FilesDone \/ Truncate \/ Fill \/ Interrupt
    \/ Reparse \/ Rewritten

Spec == Init /\ [][Next]_vars

------------------------------------------------------------------------------
(* What the scripts promise. *)

Named(rows, arm) ==
    \E i \in DOMAIN rows : rows[i].name = arm.name \/ (rows[i].name = <<arm.model>>)
CoveredBy(rows) == {i \in DOMAIN plan : Named(rows, plan[i])}

\* "Failures are recorded as status entries, never dropped" (moe_trace/
\* placement_grid.py:11), and an interrupt keeps what was measured: a session
\* that ends with an exit code of its own leaves a file with its status and one
\* record per arm, in the order of the plan, each of its own run: all arms when
\* it is complete, the sweep when that failed, and after Ctrl+C all that were
\* finished, but perhaps the one whose result had just been returned.
NeverDropped ==
    pc = "idle" /\ exit \in Statuses /\ driver.keeps = "records" =>
        /\ out.status = exit
        /\ \A i, j \in DOMAIN out.records : i < j => out.records[i].run[2] < out.records[j].run[2]
        /\ \A i \in DOMAIN out.records : out.records[i].run[1] = session
        /\ CASE exit = "complete" -> CoveredBy(out.records) = DOMAIN plan
             [] exit = "failed" -> CoveredBy(out.records) = 1 .. driver.sweep
             [] OTHER -> CoveredBy(out.records) \in {1 .. (next - 1), 1 .. next}

\* "Raw .stderr.txt logs remain the source of truth" (fate_repro.py:137): after
\* a reparse every record has the metrics of its own run, though the logs of
\* one run are written after its record and those of earlier sessions stay. The
\* last record of an interrupted session may have those of an earlier one, and
\* so may a file whose writer was followed by a session that wrote none.
ReparseFaithful ==
    driver.reparse /\ pc = "idle" /\ exit \in Statuses =>
        \A i \in DOMAIN out.records :
            \/ out.records[i].metrics = out.records[i].run
            \/ exit = "interrupted" /\ i = Len(out.records)

\* "Prompts completed before the interrupt keep their already-written files"
\* (run_traces.py:7): the file of every arm the loop has left behind is that of
\* its run in this session. Not so in measure_cache_poc.py, where a prompt's text
\* replaces that of the prompt before.
FilesOfCompletedArms ==
    driver.log # "none" /\ driver # MeasureCachePoc =>
        \A i \in DOMAIN results :
            i < next /\ results[i].zero => logs[plan[i].log] = <<session, i>>

\* The output file is a table from arms to rows that a session replaces, or, in
\* mixed_precision_gate.py, updates; only a write that was cut off loses rows.
Row(r) == [status |-> r.status, run |-> r.run]

TableOf(rows) ==
    [n \in {rows[i].name : i \in DOMAIN rows} |->
        Row(rows[CHOOSE i \in DOMAIN rows : rows[i].name = n])]

Table ==
    INSTANCE ResultTable WITH
        readable <- out.status # Torn,
        table <- TableOf(IF out.status # Torn THEN out.records
                         ELSE IF pc \in {"truncated", "rewriting"} THEN draft ELSE <<>>),
        batch <- TableOf(IF driver.keeps \in {"records", "merged"} THEN records ELSE <<>>),
        merges <- driver.keeps = "merged"

ImplementsResultTable == Table!Spec

\* "compares the 32-token continuation" (parity_check.py:3): the check passes
\* only when the reference run ended well and printed the same text.
ParityMeans ==
    driver.parity /\ exit = "complete" =>
        results[2].zero /\ results[1].output = results[2].output
==============================================================================
