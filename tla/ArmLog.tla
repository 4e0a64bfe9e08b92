------------------------------- MODULE ArmLog -------------------------------
(***************************************************************************)
(* What the run manager promises: the queued presets run one after the     *)
(* other, each preset's arms in order, one arm at a time; every arm that   *)
(* begins ends in the log, in the order the arms began; no arm begins      *)
(* after a stop, a detach or a quit until the queue is started again, and  *)
(* only such a request ends an arm as stopped or detached.                 *)
(***************************************************************************)
EXTENDS Naturals, Sequences

CONSTANTS Presets, Repeats, None, Notes

VARIABLES queue, on, preset, rep, busy, log

vars == <<queue, on, preset, rep, busy, log>>

Init ==
    /\ queue = <<>> /\ log = <<>>
    /\ on = FALSE /\ busy = FALSE
    /\ preset = None /\ rep = 0

Enqueue ==
    /\ \E p \in Presets : queue' = Append(queue, p)
    /\ UNCHANGED <<on, preset, rep, busy, log>>

Remove ==
    /\ \E i \in DOMAIN queue :
           queue' = SubSeq(queue, 1, i - 1) \o SubSeq(queue, i + 1, Len(queue))
    /\ UNCHANGED <<on, preset, rep, busy, log>>

Start ==
    /\ ~on /\ preset = None /\ queue # <<>>
    /\ on' = TRUE
    /\ UNCHANGED <<queue, preset, rep, busy, log>>

Halt ==
    /\ on
    /\ on' = FALSE
    /\ UNCHANGED <<queue, preset, rep, busy, log>>

Take ==
    /\ on /\ preset = None /\ queue # <<>>
    /\ preset' = Head(queue) /\ rep' = 0
    /\ queue' = Tail(queue)
    /\ UNCHANGED <<on, busy, log>>

BeginArm ==
    /\ on /\ preset # None /\ ~busy
    /\ rep < Repeats[preset]
    /\ rep' = rep + 1 /\ busy' = TRUE
    /\ UNCHANGED <<queue, on, preset, log>>

EndArm(note) ==
    /\ busy
    /\ note \in {"stopped", "detached"} => ~on
    /\ log' = Append(log, [preset |-> preset, rep |-> rep, note |-> note])
    /\ busy' = FALSE
    /\ UNCHANGED <<queue, on, preset, rep>>

EndPreset ==
    /\ preset # None /\ ~busy
    /\ rep = Repeats[preset] \/ ~on
    /\ preset' = None /\ rep' = 0
    /\ UNCHANGED <<queue, on, busy, log>>

(* A new session begins with nothing queued and an empty log.               *)
Relaunch ==
    /\ ~on /\ ~busy /\ preset = None
    /\ queue' = <<>> /\ log' = <<>>
    /\ UNCHANGED <<on, preset, rep, busy>>

Next == \/ Relaunch \/ Enqueue \/ Remove \/ Start \/ Halt \/ Take \/ BeginArm \/ EndPreset
        \/ \E note \in Notes : EndArm(note)

Spec == Init /\ [][Next]_vars
=============================================================================
