---------------------------- MODULE ServerBench ----------------------------
(***************************************************************************)
(* The two speculative-decoding benches: a server is started per           *)
(* configuration, or per repetition of one when they are interleaved, all  *)
(* on the same port; a poll of the port tells when it is healthy, requests *)
(* are timed, and the server is terminated before the next one starts.     *)
(* Whoever holds the port answers: a server that a session left behind     *)
(* answers for the servers of the next one.                                *)
(*                                                                         *)
(* A server is <<session, life>>, by the session that started it and the   *)
(* number of its lifetime in that session.                                 *)
(***************************************************************************)
EXTENDS Integers, SequencesExt, Functions, FiniteSets

CONSTANTS
    Configs,      \* CONFIGS, a sequence of names
    NgramConfigs, \* NGRAM_CONFIGS
    Reps,         \* --reps
    Wanted,       \* what --configs may be given: sets of names, of any list or none
    None, Torn,
    MaxSessions, MaxInterrupts,
    MaxFaults     \* servers that die by themselves

ASSUME BenchAssumption ==
    /\ Reps \in Nat \ {0} /\ {MaxSessions, MaxInterrupts, MaxFaults} \subseteq Nat
    /\ Configs \in Seq(ToSet(Configs)) /\ IsInjective(Configs)
    /\ NgramConfigs \in Seq(ToSet(NgramConfigs)) /\ IsInjective(NgramConfigs)
    /\ ToSet(Configs) \cap ToSet(NgramConfigs) = {}

VARIABLES
    bench,    \* which script, and how it is called
    session,  \* number of the current or last session
    pc,       \* where main and start_server are, "idle" between sessions
    asked,    \* the configurations the user asked for in this session
    lives,    \* the server lifetimes of this session
    life,     \* the lifetime of the loop
    answered, \* answers of the current server
    after,    \* what happens when terminate_child returns
    struck,   \* where the last Ctrl+C of this session struck
    servers,  \* live server processes
    records, out, logs, pressed, faults, exit

call == <<bench, session, asked, lives>>
place == <<life, answered, after>>
files == <<out, logs>>
counts == <<pressed, faults>>
vars == <<call, place, files, counts, pc, struck, servers, records, exit>>

\* moe_trace/speculative_bench.py keeps no log of its servers and stops when
\* one does not start.
Benches ==
    [script : {"gpt_oss"}, ngram : BOOLEAN, interleave : BOOLEAN] \cup
    [script : {"moe_trace"}, ngram : {FALSE}, interleave : {FALSE}]
GptOss == bench.script = "gpt_oss"

Listed == IF bench.ngram THEN NgramConfigs ELSE Configs

\* The configurations of CONFIGS, also with --ngram, that are wanted, in the
\* order of the list. Any other name is dropped.
Selections(wanted) ==
    LET chosen == {i \in DOMAIN Configs : Configs[i] \in wanted}
        picks == {p \in Bijection(1 .. Cardinality(chosen), chosen) :
                    \A i, j \in DOMAIN p : i < j => p[i] < p[j]}
    IN {[i \in DOMAIN p |-> Configs[p[i]]] : p \in picks}

\* What each server is for: a configuration and the repetitions it answers, all
\* of them, or one, the order of the configurations alternating.
Lives(configs) ==
    LET n == Len(configs)
        order(rep) == IF rep % 2 = 0 THEN configs ELSE Reverse(configs)
        run(k, rep) == [config |-> order(rep)[((k - 1) % n) + 1], reps |-> <<rep>>]
        all == [rep \in 1 .. Reps |-> rep - 1]
    IN IF bench.interleave THEN [k \in 1 .. Reps * n |-> run(k, (k - 1) \div n)]
       ELSE [i \in 1 .. n |-> [config |-> configs[i], reps |-> all]]

Me == <<session, life>>
Config == lives[life].config
RepFromOne == lives[life].reps[answered + 1] + 1
Rep == lives[life].reps[answered + 1]

LogOfConfig(l) == <<l.config>>
LogOf(l) == IF bench.interleave THEN <<l.config, l.reps[1]>> ELSE <<l.config>>

Phases == {"starting", "loading", "ready"}
Alive(s) == s \in DOMAIN servers
Holders == {s \in DOMAIN servers : servers[s].phase # "starting"}
Ready(s) == Alive(s) /\ servers[s].phase = "ready"
Without(s) == [t \in DOMAIN servers \ {s} |-> servers[t]]
With(f, x, y) == [z \in DOMAIN f \cup {x} |-> IF z = x THEN y ELSE f[z]]

Exits == {"complete", "interrupted"}
Pids == (1 .. MaxSessions) \X (1 .. Reps * (Len(Configs) + Len(NgramConfigs)))
IsRecord(r) ==
    /\ r.config \in ToSet(Configs) \cup ToSet(NgramConfigs)
    /\ r.rep \in 0 .. Reps - 1
    /\ r.ok \in BOOLEAN /\ r.server \in Pids /\ r.by \in Pids \cup {None}

TypeOK ==
    /\ bench \in Benches /\ session \in 0 .. MaxSessions
    /\ pc \in {"idle", "loop", "started", "polling", "handed", "asking", "stopping",
               "closing", "truncated"}
    /\ life \in 1 .. (Len(lives) + 1) /\ answered \in 0 .. Reps
    /\ after \in {"next", "died", "interrupted", "traceback"}
    /\ DOMAIN servers \subseteq Pids
    /\ \A s \in DOMAIN servers : servers[s].phase \in Phases /\ servers[s].told \in BOOLEAN
    /\ \A i \in DOMAIN records : IsRecord(records[i])
    /\ \A i \in DOMAIN out.records : IsRecord(out.records[i])
    /\ out.status \in Exits \cup {None, Torn}
    /\ \A l \in DOMAIN logs : logs[l] \in Pids
    /\ exit \in Exits \cup {None, "traceback"}
    /\ pressed \in 0 .. MaxInterrupts /\ faults \in 0 .. MaxFaults

Init ==
    /\ bench \in Benches
    /\ session = 0 /\ pc = "idle" /\ asked = {} /\ lives = <<>> /\ life = 1
    /\ answered = 0 /\ after = "next" /\ struck = None /\ servers = <<>>
    /\ records = <<>> /\ out = [status |-> None, records |-> <<>>]
    /\ logs = <<>> /\ pressed = 0 /\ faults = 0 /\ exit = None

------------------------------------------------------------------------------
(* The server processes. *)

Fault == faults < MaxFaults /\ faults' = faults + 1

\* Only one process can hold the port; it answers 503 while the model loads.
ServerBinds(s) ==
    /\ Alive(s) /\ servers[s].phase = "starting" /\ Holders = {}
    /\ servers' = [servers EXCEPT ![s].phase = "loading"]
    /\ UNCHANGED <<call, place, files, counts, pc, struck, records, exit>>

ServerLoads(s) ==
    /\ Alive(s) /\ servers[s].phase = "loading"
    /\ servers' = [servers EXCEPT ![s].phase = "ready"]
    /\ UNCHANGED <<call, place, files, counts, pc, struck, records, exit>>

\* Because it was told to or could not bind the port, or for its own reasons.
ServerDies(s) ==
    /\ Alive(s) /\ servers' = Without(s)
    /\ \/ servers[s].told /\ UNCHANGED faults
       \/ servers[s].phase = "starting" /\ Holders # {} /\ UNCHANGED faults
       \/ Fault
    /\ UNCHANGED <<call, place, files, pressed, pc, struck, records, exit>>

------------------------------------------------------------------------------
(* main and start_server. *)

StartSession ==
    /\ pc = "idle" /\ session < MaxSessions
    /\ session' = session + 1 /\ pc' = "loop" /\ exit' = None
    /\ \/ asked' = ToSet(Listed) /\ lives' = Lives(Listed)
       \/ /\ GptOss
          /\ \E wanted \in Wanted :
                asked' = wanted /\ \E configs \in Selections(wanted) : lives' = Lives(configs)
    /\ life' = 1 /\ answered' = 0 /\ after' = "next" /\ struck' = None /\ records' = <<>>
    /\ UNCHANGED <<bench, servers, files, counts>>

\* The log is opened, and so emptied, before the process is created.
Popen ==
    /\ pc = "loop" /\ life <= Len(lives) /\ pc' = "started" /\ answered' = 0
    /\ servers' = With(servers, Me, [phase |-> "starting", told |-> FALSE])
    /\ logs' = IF GptOss THEN With(logs, LogOf(lives[life]), Me) ELSE logs
    /\ UNCHANGED <<call, life, after, counts, out, struck, records, exit>>

EnterTry ==
    /\ pc = "started" /\ pc' = "polling"
    /\ UNCHANGED <<call, place, files, counts, struck, servers, records, exit>>

\* The process that answers need not be the one that was started.
Healthy ==
    /\ pc = "polling" /\ \E s \in Holders : Ready(s)
    /\ pc' = "handed"
    /\ UNCHANGED <<call, place, files, counts, struck, servers, records, exit>>

NextLife == pc' = "loop" /\ life' = life + 1

\* A server that did not start is a record of gpt_oss and the end of moe_trace.
RecordDeathNot == NextLife /\ UNCHANGED <<records, exit>>

RecordDeath ==
    /\ records' = Append(records, [config |-> Config, rep |-> lives[life].reps[1], ok |-> FALSE,
                                   server |-> Me, by |-> None])
    /\ NextLife /\ UNCHANGED exit

\* A poll that fails looks at the process it started.
PollFindsDead ==
    /\ pc = "polling" /\ ~Alive(Me)
    /\ IF GptOss THEN RecordDeath
       ELSE pc' = "idle" /\ exit' = "traceback" /\ UNCHANGED <<records, life>>
    /\ UNCHANGED <<call, answered, after, files, counts, struck, servers>>

\* terminate_child tells the process, unless it is known to be dead.
Tell == servers' = IF Alive(Me) THEN [servers EXCEPT ![Me].told = TRUE] ELSE servers
StopThen(what) == pc' = "stopping" /\ after' = what /\ Tell

DeadlinePollsAgain == pc = "polling" /\ UNCHANGED vars

DeadlineTellsNobody ==
    /\ pc = "polling"
    /\ IF GptOss THEN RecordDeath
       ELSE pc' = "idle" /\ exit' = "traceback" /\ UNCHANGED <<records, life>>
    /\ UNCHANGED <<call, answered, after, files, counts, struck, servers>>

\* 600 seconds: gpt_oss terminates the server, moe_trace leaves it running.
Deadline ==
    /\ pc = "polling"
    /\ IF GptOss THEN StopThen("died") /\ UNCHANGED exit
       ELSE pc' = "idle" /\ exit' = "traceback" /\ UNCHANGED <<after, servers>>
    /\ UNCHANGED <<call, life, answered, files, counts, struck, records>>

EnterMeasure ==
    /\ pc = "handed" /\ pc' = "asking"
    /\ UNCHANGED <<call, place, files, counts, struck, servers, records, exit>>

\* The one that holds the port answers.
Completion(s) ==
    /\ pc = "asking" /\ Ready(s) /\ answered < Len(lives[life].reps)
    /\ records' = Append(records, [config |-> Config, rep |-> Rep, ok |-> TRUE,
                                   server |-> Me, by |-> s])
    /\ answered' = answered + 1
    /\ UNCHANGED <<call, life, after, files, counts, pc, struck, servers, exit>>

\* No answer, an error, no answer in 600 seconds: the finally clause, then a
\* traceback that loses the records.
CompletionRaises ==
    /\ pc = "asking" /\ answered < Len(lives[life].reps)
    /\ StopThen("traceback")
    /\ UNCHANGED <<call, life, answered, files, counts, struck, records, exit>>

Measured ==
    /\ pc = "asking" /\ answered = Len(lives[life].reps)
    /\ StopThen("next")
    /\ UNCHANGED <<call, life, answered, files, counts, struck, records, exit>>

Resume ==
    CASE after = "next" -> NextLife /\ UNCHANGED <<records, exit>>
      [] after = "died" -> RecordDeath
      [] after = "interrupted" -> pc' = "closing" /\ UNCHANGED <<life, records, exit>>
      [] OTHER -> pc' = "idle" /\ exit' = "traceback" /\ UNCHANGED <<life, records>>

\* wait without the process being gone.
StoppedAtOnce ==
    /\ pc = "stopping" /\ Resume
    /\ UNCHANGED <<call, answered, after, files, counts, struck, servers>>

\* proc.wait returns when the process is gone.
Stopped ==
    /\ pc = "stopping" /\ ~Alive(Me) /\ Resume
    /\ UNCHANGED <<call, answered, after, files, counts, struck, servers>>

\* Killed but not reaped in ten seconds: TimeoutExpired replaces whatever was
\* being handled, a Ctrl+C included.
StopTimesOut ==
    /\ pc = "stopping" /\ Alive(Me)
    /\ pc' = "idle" /\ exit' = "traceback"
    /\ UNCHANGED <<call, place, files, counts, struck, servers, records>>

LoopEnds ==
    /\ pc = "loop" /\ life > Len(lives) /\ pc' = "closing" /\ after' = "next"
    /\ UNCHANGED <<call, life, answered, files, counts, struck, servers, records, exit>>

Truncate ==
    /\ pc = "closing" /\ pc' = "truncated"
    /\ out' = [status |-> Torn, records |-> <<>>]
    /\ UNCHANGED <<call, place, counts, logs, struck, servers, records, exit>>

Status == IF after = "interrupted" THEN "interrupted" ELSE "complete"
Fill ==
    /\ pc = "truncated" /\ pc' = "idle" /\ exit' = Status
    /\ out' = [status |-> Status, records |-> records]
    /\ UNCHANGED <<call, place, counts, logs, struck, servers, records>>

\* start_server catches it while it polls and when it terminates at the
\* deadline, the finally clause while the server is asked; main catches all.
Guarded == pc \in {"polling", "asking"} \/ (pc = "stopping" /\ after = "died")
Interrupt ==
    /\ pc # "idle" /\ pressed < MaxInterrupts
    /\ pressed' = pressed + 1 /\ struck' = pc
    /\ CASE Guarded -> StopThen("interrupted") /\ UNCHANGED exit
         [] pc \in {"closing", "truncated"} ->
                pc' = "idle" /\ exit' = "traceback" /\ UNCHANGED <<after, servers>>
         [] OTHER -> pc' = "closing" /\ after' = "interrupted" /\ UNCHANGED <<servers, exit>>
    /\ UNCHANGED <<call, life, answered, files, faults, records>>

Script ==
    \/ Popen \/ EnterTry \/ Healthy \/ PollFindsDead \/ Deadline \/ EnterMeasure
    \/ \E s \in DOMAIN servers : Completion(s)
    \/ CompletionRaises \/ Measured \/ Stopped \/ StopTimesOut \/ LoopEnds
    \/ Truncate \/ Fill

Servers ==
    \E s \in DOMAIN servers : ServerBinds(s) \/ ServerLoads(s) \/ ServerDies(s)

Next == StartSession \/ Script \/ Servers \/ Interrupt

\* Every wait of the script has a timeout; nothing is assumed of the servers.
Fairness == WF_vars(Script)
Spec == Init /\ [][Next]_vars /\ Fairness

------------------------------------------------------------------------------
(* What the benches promise. *)

\* A measurement is one of the configuration it is recorded under: it was
\* answered by the server that was started for it, or by one that an earlier
\* session left on the port, never by another one of the same session.
OwnServer ==
    \A i \in DOMAIN records :
        records[i].ok => \/ records[i].by = records[i].server
                         \/ records[i].by[1] < session

\* "Server stderr is captured per config so draft engagement (or a silent
\* fallback) is verifiable" (gpt_oss/speculative_bench.py:14): the log of every
\* measurement of this session is still the one of its own server.
ServerLogs ==
    GptOss => \A i \in DOMAIN records :
        LET l == lives[records[i].server[2]]
        IN /\ LogOf(l) \in DOMAIN logs
           /\ logs[LogOf(l)] = records[i].server

\* "Ctrl+C terminates the running server" (gpt_oss/speculative_bench.py:18): a
\* session that completes leaves no server, one that is interrupted none that it
\* has not told to end, unless Ctrl+C struck between Popen and the try of
\* start_server, or between its return and the try of main.
ServersLeft ==
    pc = "idle" => \A s \in DOMAIN servers :
        s[1] = session =>
            /\ exit # "complete"
            /\ exit = "interrupted" => servers[s].told \/ struck \in {"started", "handed"}

\* --configs selects from CONFIGS only; without it, the whole list is run.
Selectable(c) == c \in ToSet(Configs) \/ (asked = ToSet(Listed) /\ lives # <<>>)

\* "A config whose server dies at startup is recorded as server_died, not
\* dropped" (gpt_oss/speculative_bench.py:16): when a session ends, its file has
\* all that was measured, and a complete one has for every configuration that
\* was asked for all repetitions or the death of their server. What --configs
\* names must be in CONFIGS for that: other names are dropped without a word,
\* those of NGRAM_CONFIGS with --ngram too, and the complete file may be empty.
Accounted ==
    pc = "idle" /\ exit \in Exits =>
        /\ out.status = exit /\ out.records = records
        /\ exit = "complete" =>
            \A c \in {a \in asked : Selectable(a)}, rep \in 0 .. Reps - 1 :
                \E i \in DOMAIN records :
                    /\ records[i].config = c
                    /\ records[i].rep = rep \/ (~records[i].ok /\ ~bench.interleave)

\* Every session ends, whatever its servers do.
SessionEnds == pc # "idle" ~> pc = "idle"
==============================================================================
