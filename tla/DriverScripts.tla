---------------------------- MODULE DriverScripts ----------------------------
(***************************************************************************)
(* The experiment drivers under src/experiments, one record per script:    *)
(* what its loop measures and in which order, what it makes of the result  *)
(* of a measurement, which files it writes and when. Campaign runs them.   *)
(*                                                                         *)
(* A result is what run_live returned: whether the return code was zero,   *)
(* and what the script can find in the output.                             *)
(***************************************************************************)
EXTENDS Integers, SequencesExt

CONSTANTS
    Points,   \* a list of parameters: placements, thread counts, layer counts, arms
    Models,   \* a list of model files, any of which may be missing
    Configs,  \* a list of cache configurations, or of --placements
    Prompts,  \* a list of prompts
    Reps,     \* repetitions of an arm, rounds of a comparison
    None

\* The lists are literals of the scripts, none of which names a thing twice, but
\* for the --placements of ik_ab.py: a placement given twice makes two arms that
\* share their files, and is left out.
ASSUME DriverAssumption ==
    /\ \A list \in {Points, Models, Configs, Prompts} :
        list \in Seq(ToSet(list)) /\ IsInjective(list) /\ None \notin ToSet(list)
    /\ Len(Points) > 0 /\ Reps \in Nat \ {0}

\* "garbled" is an output that is not JSON, "no_gen" and "no_prompt" one without
\* the row the script looks for; a script that searches a text finds its line
\* in "full" only. Nothing looks for rows after a failure.
Results ==
    [zero : {TRUE}, output : {"garbled", "no_gen", "no_prompt", "full"}]
    \cup [zero : {FALSE}, output : {"garbled", "full"}]

\* What becomes of a result: a record with a status and, or without, the
\* measured value; an exception that the loop does not catch; an exit.
Recorded(status, value) == [status |-> status, value |-> value]
Raises == Recorded("raises", FALSE)
Exits == Recorded("exits", FALSE)
Error == Recorded("error", FALSE)

------------------------------------------------------------------------------
(* Loops. An arm is what one measurement is of; "model" is the file the loop  *)
(* looks for first, "log" the file that belongs to the measurement.           *)

Arm(name) == [name |-> name, model |-> None, log |-> None]
ArmOf(model, name) == [Arm(name) EXCEPT !.model = model]
Logged(name, log) == [Arm(name) EXCEPT !.log = log]

ForEach(list, Body(_)) == [i \in DOMAIN list |-> Body(list[i])]
UpTo(n) == [i \in 1 .. n |-> i]

\* for a in outer: for b in inner
Nested(outer, inner) ==
    [i \in 1 .. Len(outer) * Len(inner) |->
        <<outer[((i - 1) \div Len(inner)) + 1], inner[((i - 1) % Len(inner)) + 1]>>]

\* order = arms if r % 2 == 0 else reversed(arms), rounds counted from 0.
RoundOrder(arms, r) == IF r % 2 = 1 THEN arms ELSE Reverse(arms)

\* <<round, arm>>
Alternating(arms, rounds) ==
    ForEach(Nested(UpTo(rounds), UpTo(Len(arms))),
            LAMBDA x : <<x[1], RoundOrder(arms, x[1])[x[2]]>>)

\* What most scripts do. The rest say what they do otherwise.
Script ==
    [plan |-> <<>>, outcome |-> [r \in Results |-> Error], absent |-> None,
     keeps |-> "records", log |-> "none", sweep |-> 0, only |-> FALSE,
     reparse |-> FALSE, parity |-> FALSE]

------------------------------------------------------------------------------
(* Scripts around llama-bench. *)

\* rows -> gen[0], pp[0] in the progress line: without the row, an IndexError.
GridOutcome(r) ==
    IF ~r.zero THEN Error
    ELSE CASE r.output = "garbled" -> Recorded("parse_error", FALSE)
           [] r.output = "full" -> Recorded("ok", TRUE)
           [] OTHER -> Raises

MoePlacementGrid ==
    [Script EXCEPT
        !.plan = ForEach(Points, LAMBDA p : Arm(<<p>>)),
        !.outcome = [r \in Results |-> GridOutcome(r)]]

\* The same loop, over the full or the refinement grid.
GptPlacementGrid == MoePlacementGrid

\* The same loop, over layer counts.
DensePlacementSweep == MoePlacementGrid

BenchQuants ==
    [Script EXCEPT
        !.plan = ForEach(Nested(Models, Points), LAMBDA x : ArmOf(x[1], x)),
        !.absent = "missing",
        !.outcome = [r \in Results |-> GridOutcome(r)]]

\* tg is None without a generation row, and None:.2f is a TypeError.
ThreadSweepOutcome(r) ==
    IF ~r.zero THEN Error
    ELSE CASE r.output = "garbled" -> Recorded("parse_error", FALSE)
           [] r.output = "no_gen" -> Raises
           [] OTHER -> Recorded("ok", TRUE)

ThreadSweep ==
    [Script EXCEPT
        !.plan = ForEach(Nested(Points, Points), Arm),
        !.outcome = [r \in Results |-> ThreadSweepOutcome(r)]]

\* A record is "ok" whatever rows there are; "tg" is set by a generation row.
RunBench(r) ==
    IF ~r.zero THEN Error
    ELSE IF r.output = "garbled" THEN Recorded("parse_error", FALSE)
    ELSE Recorded("ok", r.output # "no_gen")

MixedPrecisionSpeed ==
    [Script EXCEPT
        !.plan = ForEach(Points, LAMBDA k : Arm(<<"sweep", k>>))
                 \o ForEach(Alternating(<<"hybrid", "original">>, Reps), LAMBDA x : Arm(<<"ab", x>>)),
        !.sweep = Len(Points),
        !.outcome = [r \in Results |-> RunBench(r)]]

RunArm(r) ==
    IF ~r.zero THEN Error
    ELSE IF r.output = "garbled" THEN Recorded("parse_error", FALSE)
    ELSE Recorded("ok", r.output # "no_gen")

IkHybridAb ==
    [Script EXCEPT
        !.plan = ForEach(Alternating(Points, Reps), Arm),
        !.outcome = [r \in Results |-> RunArm(r)]]

\* ik-ab-{engine}-{placement}.json, the same file in every round.
IkAbLogOfEngine(e, p, r) == <<e, p>>

IkAbLog(e, p, r) == <<e, p, r>>

\* The child writes the per-arm file itself; no record is kept, a failure is
\* only printed, and a manifest closes the session.
Engines == <<"mainline", "ik">>

IkAb ==
    [Script EXCEPT
        !.plan = ForEach(Nested(UpTo(Reps), Nested(Configs, UpTo(Len(Engines)))),
                         LAMBDA x : LET e == RoundOrder(Engines, x[1])[x[2][2]]
                                    IN Logged(<<x[1], x[2][1], e>>, IkAbLog(e, x[2][1], x[1]))),
        !.outcome = [r \in Results |-> Recorded(IF r.zero THEN "ok" ELSE "error", r.zero)],
        !.keeps = "manifest", !.log = "child"]

------------------------------------------------------------------------------
(* Scripts around llama-perplexity: the estimate is searched in the output of *)
(* a failed run too.                                                          *)

PerplexityOutcome(r) == IF r.output = "full" THEN Recorded("ok", TRUE) ELSE Error

PerplexityQuants ==
    [Script EXCEPT
        !.plan = ForEach(Models, LAMBDA m : ArmOf(m, <<m>>)),
        !.absent = "missing",
        !.outcome = [r \in Results |-> PerplexityOutcome(r)]]

MixedPrecisionGate ==
    [Script EXCEPT
        !.plan = ForEach(Models, LAMBDA m : ArmOf(m, <<m>>)),
        !.absent = "skipped", !.only = TRUE, !.keeps = "merged",
        !.outcome = [r \in Results |-> PerplexityOutcome(r)]]

------------------------------------------------------------------------------
(* Scripts around the instrumented builds. *)

\* parse_tok_s reads the value from stderr whatever the return code.
MeasureOutcome(r) == Recorded(IF r.zero THEN "ok" ELSE "error", r.output = "full")

\* The name of the text file has the configuration and the repetition only.
MeasureCachePoc ==
    [Script EXCEPT
        !.plan = ForEach(Nested(Configs, Nested(Prompts, UpTo(Reps))),
                         LAMBDA x : Logged(x, <<x[1], x[2][2]>>)),
        !.log = "after",
        !.outcome = [r \in Results |-> MeasureOutcome(r)]]

\* parse_metrics: likewise.
FateOutcome(r) == Recorded(IF r.zero THEN "ok" ELSE "error", r.output = "full")

\* stem without the prompt, as in measure_cache_poc.py
FateStemWithoutPrompt(c, p, rep) == <<c, rep>>

FateStem(c, p, rep) == <<c, p, rep>>

FateRepro ==
    [Script EXCEPT
        !.plan = ForEach(Nested(Configs, Nested(Prompts, UpTo(Reps))),
                         LAMBDA x : Logged(x, FateStem(x[1], x[2][1], x[2][2]))),
        !.log = "after", !.reparse = TRUE,
        !.outcome = [r \in Results |-> FateOutcome(r)]]

\* The child writes the trace of the prompt; a failed run ends the script.
RunTraces ==
    [Script EXCEPT
        !.plan = ForEach(Prompts, LAMBDA p : Logged(<<p>>, <<p>>)),
        !.only = TRUE, !.keeps = "files", !.log = "child",
        !.outcome = [r \in Results |-> IF r.zero THEN Recorded("ok", TRUE) ELSE Exits]]

\* Two runs, whose outputs are written before the return code of the first is
\* looked at. That of the second never is.
ParityCheck ==
    [Script EXCEPT
        !.plan = ForEach(<<"trace", "cli">>, LAMBDA run : Logged(<<run>>, <<run>>)),
        !.keeps = "files", !.log = "before", !.parity = TRUE,
        !.outcome = [r \in Results |-> IF r.zero THEN Recorded("ok", TRUE) ELSE Exits]]

\* t_out == c_out or t_out in c_out or c_out in t_out: an empty output, which
\* "garbled" stands for here, is in every other.
ParityMatch(t, c) == t.output = c.output \/ "garbled" \in {t.output, c.output}

Scripts ==
    {MoePlacementGrid, GptPlacementGrid, DensePlacementSweep, BenchQuants, ThreadSweep,
     MixedPrecisionSpeed, IkHybridAb, IkAb, PerplexityQuants, MixedPrecisionGate,
     MeasureCachePoc, FateRepro, RunTraces, ParityCheck}
==============================================================================
