------------------------------ MODULE Analysis ------------------------------
(***************************************************************************)
(* The analyses of routing traces as programs: they load one trace after   *)
(* the other, add what it contributes to their accumulators one by one,    *)
(* and write one file at the end or when Ctrl+C is pressed. A trace may be *)
(* cut off in a line, by an interrupted run of the tracer.                 *)
(*                                                                         *)
(* An accumulator is told by the files that are in it.                     *)
(***************************************************************************)
EXTENDS Locality

CONSTANTS
    TraceSets,  \* sequences of trace files, [lines, torn]
    Capacities  \* LRU_CAPACITIES, RESIDUAL_CAPACITIES: a sequence

ASSUME AnalysisAssumption ==
    /\ Capacities \in Seq(Nat \ {0})
    /\ \A list \in TraceSets : list \in Seq(ToSet(list))

VARIABLES script, traces, pc, file, added, acc, processed, out, exit

vars == <<script, traces, pc, file, added, acc, processed, out, exit>>

\* hits and total of a capacity, correct, actual and predicted of a predictor
PartsOf(list, parts) ==
    [n \in 1 .. parts * Len(list) |->
        <<list[((n - 1) \div parts) + 1], ((n - 1) % parts) + 1>>]

\* The accumulators of a script, in the order they are updated for a file.
Accumulators ==
    CASE script = "locality" -> <<"frequency", "overlap", "reuse", "lru", "summary">>
      [] script = "prefetch" -> PartsOf(Capacities, 2)
      [] script = "predictability" -> PartsOf(Predictors, 3)

NoFile == [status |-> "none", traces |-> {}, acc |-> <<>>]
TornFile == [NoFile EXCEPT !.status = "torn"]

Init ==
    /\ script \in {"locality", "prefetch", "predictability"} /\ traces \in TraceSets
    /\ pc = "load" /\ file = 1 /\ added = 0
    /\ acc = [n \in DOMAIN Accumulators |-> {}]
    /\ processed = {} /\ out = NoFile /\ exit = "none"

Load ==
    /\ pc = "load" /\ file <= Len(traces) /\ ~traces[file].torn
    /\ pc' = "add" /\ added' = 0
    /\ UNCHANGED <<script, traces, file, acc, processed, out, exit>>

\* json.loads raises: nothing is written.
LoadRaises ==
    /\ pc = "load" /\ file <= Len(traces) /\ traces[file].torn
    /\ pc' = "exited" /\ exit' = "traceback"
    /\ UNCHANGED <<script, traces, file, added, acc, processed, out>>

Add ==
    /\ pc = "add" /\ added < Len(Accumulators)
    /\ acc' = [acc EXCEPT ![added + 1] = @ \cup {file}]
    /\ added' = added + 1
    /\ UNCHANGED <<script, traces, pc, file, processed, out, exit>>

ProcessedEarly ==
    /\ pc = "add" /\ added <= Len(Accumulators)
    /\ processed' = processed \cup {file}
    /\ IF added < Len(Accumulators) THEN UNCHANGED pc ELSE pc' = "print"
    /\ UNCHANGED <<script, traces, file, added, acc, out, exit>>

\* processed.append comes last.
Processed ==
    /\ pc = "add" /\ added = Len(Accumulators)
    /\ processed' = processed \cup {file} /\ pc' = "print"
    /\ UNCHANGED <<script, traces, file, added, acc, out, exit>>

\* The mean overlap is None when no two positions follow each other, and
\* formatting it raises: the results of all files are lost.
Unprintable ==
    LET layers == LoadTrace(traces[file].lines)
    IN script = "locality" /\ \A l \in DOMAIN layers : Pairs(layers[l], 1) = {}

PrintLine ==
    /\ pc = "print"
    /\ IF Unprintable THEN pc' = "exited" /\ exit' = "traceback" /\ UNCHANGED file
       ELSE pc' = "load" /\ file' = file + 1 /\ UNCHANGED exit
    /\ UNCHANGED <<script, traces, added, acc, processed, out>>

WritePayload(status, listed) ==
    /\ out' = [status |-> status, traces |-> listed, acc |-> acc]
    /\ exit' = status /\ pc' = "exited"
    /\ UNCHANGED <<script, traces, file, added, acc, processed>>

Complete == pc = "load" /\ file > Len(traces) /\ WritePayload("complete", DOMAIN traces)

\* Only the loop is inside the try.
Interrupt ==
    /\ pc \in {"add", "print"} \/ (pc = "load" /\ file <= Len(traces))
    /\ WritePayload("interrupted", processed)

\* Ctrl+C after the loop, or again in the handler: a traceback, and no file or
\* one whose write was cut off.
InterruptAgain ==
    /\ pc \in {"load", "add", "print"}
    /\ out' \in {out, TornFile} /\ exit' = "traceback" /\ pc' = "exited"
    /\ UNCHANGED <<script, traces, file, added, acc, processed>>

Next ==
    \/ Load \/ LoadRaises \/ Add \/ Processed \/ PrintLine \/ Complete
    \/ Interrupt \/ InterruptAgain

Spec == Init /\ [][Next]_vars

------------------------------------------------------------------------------
(* What the analyses promise, of the traces and of the files. *)

Layers(n) == LoadTrace(traces[n].lines)
PerToken(records) == Max({Len(records[n].experts) : n \in DOMAIN records})

\* Of a trace, when the script that computes it starts.
Starting(which) == script = which /\ pc = "load" /\ file = 1
AllRecords == UNION {{Layers(n)[l] : l \in DOMAIN Layers(n)} : n \in DOMAIN traces}
AllTraces == {Layers(n) : n \in DOMAIN traces}

\* The "perfect LRU" of docs/moe-track-plan.md:63, which looks a token's experts
\* up before the capacity is applied: its hits are at least those of a cache of
\* that capacity, and at most those of one with room for the other experts of a
\* token. So a cache that evicts at each miss needs up to that much more.
LruCurve ==
    Starting("locality") => \A records \in AllRecords, c \in ToSet(Capacities) :
        \E hits \in {LruHits(records, c)} :
            /\ PerfectHits(records, c) <= hits
            /\ hits <= PerfectHits(records, c + PerToken(records) - 1)

\* The analyses of one trace agree: every request is an expert's first one or a
\* reuse; reuses at distance one are the consecutive overlap, which is what
\* temporal-1 gets right; and the combined prefetch scheme is a plain LRU of the
\* residual capacity or of the experts of a token, whichever is larger, so that
\* prefetching the token before adds nothing to an LRU that holds its experts.
AnalysesAgree ==
    Starting("prefetch") =>
        /\ \A records \in AllRecords :
            \E frequency \in {Frequency(records)}, distances \in {ReuseDistances(records)} :
                /\ Requests(records) = Count(DOMAIN frequency) + Len(distances)
                /\ Requests(records) = Total(DOMAIN frequency, LAMBDA e : frequency[e])
                /\ Overlap(records, 1) = Count({n \in DOMAIN distances : distances[n][2] = 1})
                /\ \A c \in ToSet(Capacities) :
                    Simulate(records, c) = LruHits(records, Max({c, PerToken(records)}))
        /\ \A trace \in AllTraces :
            Score(trace, "temporal-1").correct
                = Total(DOMAIN trace, LAMBDA l : Overlap(trace[l], 1))

\* oracle-lastk is an "upper bound of any id-history scheme"
\* (analyze_predictability.py:17) as far as the layer's own history goes, and
\* uniting more sets never lowers the recall (so of k up to the length of the
\* traces, which oracle-last8 exceeds): true of the fractions, which are
\* taken over different tokens, when the positions of a layer are contiguous and
\* only the last layer misses some.
AtMost(s, t) == s.correct * t.actual <= t.correct * s.actual
OracleBounds ==
    Starting("predictability") => \A trace \in AllTraces :
        \E score \in {[name \in ToSet(Predictors) |-> Score(trace, name)]} :
            /\ AtMost(score["temporal-1"], score["oracle-last2"])
            /\ AtMost(score["oracle-last2"], score["oracle-last4"])
            /\ AtMost(score["cross-layer"], score["fate-union"])
            /\ AtMost(score["fate-union"], score["fate-union-2"])

\* "Ctrl+C writes partial aggregates": every accumulator has the files the
\* payload lists, and of the others at most the one that was being added; the
\* complete payload has all of them. What was interrupted within a file is in
\* some of the accumulators and in none of the lists. A file whose write was cut
\* off says nothing.
PartialWithinOneFile ==
    out.status # "none" =>
        /\ \A n \in DOMAIN out.acc :
            /\ out.traces \subseteq out.acc[n]
            /\ out.acc[n] \ out.traces \subseteq {file}
        /\ out.status = "complete" =>
            \A n \in DOMAIN out.acc : out.acc[n] = DOMAIN traces
==============================================================================
