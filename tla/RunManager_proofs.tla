-------------------------- MODULE RunManager_proofs --------------------------
(***************************************************************************)
(* The safety properties of RunManager, for every set of presets, every    *)
(* number of arms and any number of sessions.                              *)
(***************************************************************************)
EXTENDS RunManager, FiniteSetTheorems, SequenceTheorems, TLAPS

Child == [state : {"forked", "leader", "llama", "zombie", "reaped"},
          signalled : BOOLEAN, early : BOOLEAN]
States(c) == children[c].state

\* The child whose end the worker waits for.
Watched(c) == wpc \in {"publish", "wait", "flags"} /\ rec.child = c

Holding == {"publish", "wait", "flags", "reap"}
Closing == {"append", "push"}

\* The worker has a preset while it runs its arms, a record while it runs one,
\* and is at its start when there is no thread.
WorkerInv ==
    /\ preset # None <=> InArm \/ wpc = "arm"
    /\ thread # "running" => wpc = "pop"
    /\ IF InArm THEN rec \in Record /\ rec.preset = preset /\ rec.rep = rep
                ELSE rec = NoRecord /\ grace = "off"
    /\ child_pid # 0 => wpc \in {"wait", "flags", "reap"}

\* What was asked for stays asked for until a thread is started, and nothing is
\* signalled unless a stop was asked for.
RequestInv ==
    /\ term_req \/ detach_req => stop_all
    /\ detach_req => ui \in {"quitting", "joining", "gone"}
    /\ ui = "gone" => thread # "running"
    /\ InArm /\ grace # "off" => term_req
    /\ InArm /\ rec.note = "stopped" => stop_all
    /\ InArm /\ rec.note = "detached" => stop_all

\* The worker's record is of the last child forked, or of none.
RecInv ==
    /\ wpc = "spawn" => rec.child = 0 /\ rec.note = ""
    /\ wpc \in Holding => /\ rec.child = Len(children) /\ rec.child > earlier
                          /\ rec.note = ""
    /\ wpc \in Closing => \/ rec.child = 0
                          \/ rec.child = Len(children) /\ rec.child > earlier
    /\ wpc \in {"publish", "wait", "flags"} => States(rec.child) # "reaped"
    /\ wpc = "reap" => States(rec.child) = "reaped"
    /\ wpc \in Closing /\ rec.child > 0 =>
        /\ rec.note = "detached" \/ States(rec.child) = "reaped"
        /\ children[rec.child].signalled => rec.note = "stopped"
    /\ wpc = "spawn" => grace = "off"
    /\ wpc \in Holding /\ grace = "off" => ~children[rec.child].signalled

\* The child that is in no record yet, 0 for none.
Pending == IF InArm THEN rec.child ELSE 0

\* Every child of the session is pending or in a record, and the pending one is the last.
RecordsInv ==
    /\ \A i \in DOMAIN records : records[i].child > 0 => records[i].child > earlier
    /\ Pending > 0 => \A i \in DOMAIN records : records[i].child < Pending
    /\ \A c \in earlier + 1 .. Len(children) :
        Pending = c \/ \E i \in DOMAIN records : records[i].child = c

\* The parts of ChildrenAccounted that a step preserves on their own.
InForkOrder ==
    \A i, j \in DOMAIN records :
        i < j /\ records[j].child > 0 => records[i].child < records[j].child

Concluded ==
    \A i \in DOMAIN records :
        records[i].child > 0 =>
            (records[i].note = "detached" \/ children[records[i].child].state = "reaped")

LinesKnown ==
    \A i \in DOMAIN jsonl :
        \/ \E j \in DOMAIN records : jsonl[i] = records[j]
        \/ wpc = "push" /\ i = Len(jsonl) /\ jsonl[i] = rec

\* A child nobody waits for was detached. When it had not become llama, it says
\* so; when it had, it is the last one, and no other is forked before it ends.
Loose(c) == c \in DOMAIN children /\ ~Watched(c)

VramInv ==
    \A c \in DOMAIN children : Loose(c) =>
        /\ States(c) \in {"forked", "leader"} => children[c].early
        /\ States(c) = "llama" /\ ~children[c].early =>
            /\ c = Len(children) /\ ui # "starting"
            /\ thread = "running" =>
                /\ detach_req
                /\ wpc \in {"append", "push", "arm", "pop", "finish"}

Control == TypeOK /\ WorkerInv /\ RequestInv
Ledger == RecordsInv /\ InForkOrder /\ Concluded /\ LinesKnown /\ OnlyStoppedSignalled
IInv == Control /\ RecInv /\ Ledger /\ VramInv
------------------------------------------------------------------------------
(* Children and records. *)

\* The lists s and t differ at most in the child c.
Changed(s, t, c) ==
    /\ t \in Seq(Child) /\ Len(t) = Len(s) /\ DOMAIN t = DOMAIN s
    /\ \A d \in DOMAIN s : d # c => t[d] = s[d]

\* A child of the list is replaced.
LEMMA ReplaceChild ==
    \A s \in Seq(Child) : \A c \in DOMAIN s : \A child \in Child :
        Changed(s, [s EXCEPT ![c] = child], c) /\ [s EXCEPT ![c] = child][c] = child
PROOF
  <1> SUFFICES ASSUME NEW s \in Seq(Child), NEW c \in DOMAIN s, NEW child \in Child
               PROVE  Changed(s, [s EXCEPT ![c] = child], c) /\ [s EXCEPT ![c] = child][c] = child
    OBVIOUS
  <1> HIDE DEF Child
  <1>1. c \in 1 .. Len(s) /\ DOMAIN s = 1 .. Len(s)
    OBVIOUS
  <1> QED
    BY <1>1, ExceptSeq DEF Changed

\* One attribute of the child c in the list s.
WithState(s, c, state) == [s EXCEPT ![c].state = state]
WithSignal(s, c)       == [s EXCEPT ![c].signalled = TRUE]
WithEarly(s, c, early) == [s EXCEPT ![c].early = early]

ChildStates == {"forked", "leader", "llama", "zombie", "reaped"}

\* A child gets another state.
LEMMA StateChange ==
    \A s \in Seq(Child) : \A c \in DOMAIN s : \A state \in ChildStates :
        LET r == WithState(s, c, state)
        IN  /\ Changed(s, r, c) /\ r[c].state = state
            /\ r[c].signalled = s[c].signalled /\ r[c].early = s[c].early
PROOF
  <1> SUFFICES ASSUME NEW s \in Seq(Child), NEW c \in DOMAIN s,
                      NEW state \in ChildStates
               PROVE  LET r == WithState(s, c, state)
                      IN  /\ Changed(s, r, c) /\ r[c].state = state
                          /\ r[c].signalled = s[c].signalled /\ r[c].early = s[c].early
    OBVIOUS
  <1> DEFINE child == [s[c] EXCEPT !.state = state]
             r == WithState(s, c, state)
  <1>1. s[c] \in Child
    OBVIOUS
  <1>2. child \in Child
    BY <1>1 DEF Child, ChildStates
  <1>3. child.state = state /\ child.signalled = s[c].signalled /\ child.early = s[c].early
    BY <1>1 DEF Child
  <1>4. r = [s EXCEPT ![c] = child]
    BY DEF WithState
  <1> HIDE DEF child, r
  <1>5. Changed(s, [s EXCEPT ![c] = child], c) /\ [s EXCEPT ![c] = child][c] = child
    BY <1>2, ReplaceChild
  <1>6. Changed(s, r, c) /\ r[c] = child
    BY <1>4, <1>5, Zenon
  <1>7. /\ Changed(s, r, c) /\ r[c].state = state
        /\ r[c].signalled = s[c].signalled /\ r[c].early = s[c].early
    BY <1>3, <1>6
  <1> QED
    BY <1>7 DEF r

\* A child is marked as signalled.
LEMMA SignalChange ==
    \A s \in Seq(Child) : \A c \in DOMAIN s :
        LET r == WithSignal(s, c)
        IN  Changed(s, r, c) /\ r[c].state = s[c].state /\ r[c].early = s[c].early
PROOF
  <1> SUFFICES ASSUME NEW s \in Seq(Child), NEW c \in DOMAIN s
               PROVE  LET r == WithSignal(s, c)
                      IN  Changed(s, r, c) /\ r[c].state = s[c].state /\ r[c].early = s[c].early
    OBVIOUS
  <1> DEFINE child == [s[c] EXCEPT !.signalled = TRUE]
             r == WithSignal(s, c)
  <1>1. s[c] \in Child
    OBVIOUS
  <1>2. child \in Child
    BY <1>1 DEF Child, ChildStates
  <1>3. child.state = s[c].state /\ child.early = s[c].early
    BY <1>1 DEF Child
  <1>4. r = [s EXCEPT ![c] = child]
    BY DEF WithSignal
  <1> HIDE DEF child, r
  <1>5. Changed(s, [s EXCEPT ![c] = child], c) /\ [s EXCEPT ![c] = child][c] = child
    BY <1>2, ReplaceChild
  <1>6. Changed(s, r, c) /\ r[c] = child
    BY <1>4, <1>5, Zenon
  <1>7. Changed(s, r, c) /\ r[c].state = s[c].state /\ r[c].early = s[c].early
    BY <1>3, <1>6
  <1> QED
    BY <1>7 DEF r

\* A child is marked as detached before it became llama, or not.
LEMMA EarlyChange ==
    \A s \in Seq(Child) : \A c \in DOMAIN s : \A early \in BOOLEAN :
        LET r == WithEarly(s, c, early)
        IN  /\ Changed(s, r, c) /\ r[c].early = early
            /\ r[c].state = s[c].state /\ r[c].signalled = s[c].signalled
PROOF
  <1> SUFFICES ASSUME NEW s \in Seq(Child), NEW c \in DOMAIN s, NEW early \in BOOLEAN
               PROVE  LET r == WithEarly(s, c, early)
                      IN  /\ Changed(s, r, c) /\ r[c].early = early
                          /\ r[c].state = s[c].state /\ r[c].signalled = s[c].signalled
    OBVIOUS
  <1> DEFINE child == [s[c] EXCEPT !.early = early]
             r == WithEarly(s, c, early)
  <1>1. s[c] \in Child
    OBVIOUS
  <1>2. child \in Child
    BY <1>1 DEF Child, ChildStates
  <1>3. child.early = early /\ child.state = s[c].state /\ child.signalled = s[c].signalled
    BY <1>1 DEF Child
  <1>4. r = [s EXCEPT ![c] = child]
    BY DEF WithEarly
  <1> HIDE DEF child, r
  <1>5. Changed(s, [s EXCEPT ![c] = child], c) /\ [s EXCEPT ![c] = child][c] = child
    BY <1>2, ReplaceChild
  <1>6. Changed(s, r, c) /\ r[c] = child
    BY <1>4, <1>5, Zenon
  <1>7. /\ Changed(s, r, c) /\ r[c].early = early
        /\ r[c].state = s[c].state /\ r[c].signalled = s[c].signalled
    BY <1>3, <1>6
  <1> QED
    BY <1>7 DEF r

\* A list in which no child changed.
LEMMA SameChildren ==
    ASSUME NEW s \in Seq(Child), NEW c
    PROVE  Changed(s, s, c)
PROOF
  BY DEF Changed

\* A signal to the child of the worker changes no other child, reaps nobody and
\* leaves what is not alive as it is.
LEMMA SignalsOne ==
    ASSUME NEW s \in Seq(Child), children = s, NEW c \in DOMAIN s, NEW t \in Terminated(c)
    PROVE  /\ Changed(s, t, c)
           /\ t[c].state \in {s[c].state, "zombie"} /\ t[c].early = s[c].early
           /\ s[c].state \in {"zombie", "reaped", "forked"} => t[c].state = s[c].state
PROOF
  <1>1. CASE t = s
    BY <1>1, SameChildren
  <1>2. CASE t = [s EXCEPT ![c].signalled = TRUE] /\ s[c].state = "llama"
    <2>1. t = WithSignal(s, c)
      BY <1>2 DEF WithSignal
    <2>2. Changed(s, t, c) /\ t[c].state = s[c].state /\ t[c].early = s[c].early
      BY <2>1, SignalChange
    <2> QED
      BY <1>2, <2>2
  <1>3. CASE /\ s[c].state \in {"leader", "llama"}
             /\ t = [s EXCEPT ![c].state = "zombie", ![c].signalled = TRUE]
    <2> DEFINE u == WithState(s, c, "zombie")
    <2>1. t = WithSignal(u, c) /\ u = WithState(s, c, "zombie")
      BY <1>3 DEF WithState, WithSignal
    <2> HIDE DEF u
    <2>2. Changed(s, u, c) /\ u[c].state = "zombie" /\ u[c].early = s[c].early
      BY <2>1, StateChange DEF ChildStates
    <2>3. u \in Seq(Child) /\ c \in DOMAIN u
      BY <2>2 DEF Changed
    <2>4. Changed(u, t, c) /\ t[c].state = u[c].state /\ t[c].early = u[c].early
      BY <2>1, <2>3, SignalChange
    <2>5. Changed(s, t, c)
      BY <2>2, <2>4 DEF Changed
    <2> QED
      BY <1>3, <2>2, <2>4, <2>5
  <1> QED
    BY <1>1, <1>2, <1>3 DEF Terminated, Killed, Alive

------------------------------------------------------------------------------
(* What a step may change. *)

\* Which steps change which variables.
LEMMA Changes ==
    ASSUME [Next]_vars
    PROVE  /\ UNCHANGED queue \/ Relaunch \/ TakePreset \/ Enqueue \/ RemoveQueued
           /\ \/ UNCHANGED children \/ Fork \/ WaitReaps \/ ActOnTerm \/ ActOnDetach
              \/ \E c \in DOMAIN children : ChildStep(c)
           /\ \/ UNCHANGED rec
              \/ BeginArm \/ SpawnFails \/ Fork \/ ActOnDetach \/ Reap \/ AppendLine \/ Push
           /\ UNCHANGED records \/ Relaunch \/ Push
           /\ UNCHANGED jsonl \/ Relaunch \/ AppendLine
           /\ UNCHANGED child_pid \/ child_pid' = 0 \/ Publish
           /\ UNCHANGED earlier \/ Relaunch
           /\ UNCHANGED <<preset, rep>> \/ TakePreset \/ BeginArm \/ EndPreset
           /\ UNCHANGED enqueued \/ Enqueue
PROOF
  <1> USE DEF vars, shared, ofWorker, ledger, ofUi, Relaunch, TakePreset, NothingToTake,
        BeginArm, EndPreset, Finish, SpawnFails, Fork, Publish, WaitReaps, WaitReturnsZero,
        ActOnTerm, ActOnDetach, Detached, PollAgain, Reap, AppendLine, Push, GraceExpires,
        Enqueue, AskDequeue, RemoveQueued, Preflight, StartRun, PressStop, PressQuit, Confirm,
        CtrlC, Destroy, JoinWorker, ChildStep, Setsid, Exec, ChildExits, ChildBecomes
  <1>1. UNCHANGED queue \/ Relaunch \/ TakePreset \/ Enqueue \/ RemoveQueued
    BY DEF Next, WorkerStep, UiMayStep, UiFinishes
  <1>2. \/ UNCHANGED children \/ Fork \/ WaitReaps \/ ActOnTerm \/ ActOnDetach
        \/ \E c \in DOMAIN children : ChildStep(c)
    BY DEF Next, WorkerStep, UiMayStep, UiFinishes
  <1>3. \/ UNCHANGED rec
        \/ BeginArm \/ SpawnFails \/ Fork \/ ActOnDetach \/ Reap \/ AppendLine \/ Push
    BY DEF Next, WorkerStep, UiMayStep, UiFinishes
  <1>4. UNCHANGED records \/ Relaunch \/ Push
    BY DEF Next, WorkerStep, UiMayStep, UiFinishes
  <1>5. UNCHANGED jsonl \/ Relaunch \/ AppendLine
    BY DEF Next, WorkerStep, UiMayStep, UiFinishes
  <1>6. UNCHANGED child_pid \/ child_pid' = 0 \/ Publish
    BY DEF Next, WorkerStep, UiMayStep, UiFinishes
  <1>7. UNCHANGED earlier \/ Relaunch
    BY DEF Next, WorkerStep, UiMayStep, UiFinishes
  <1>8. UNCHANGED <<preset, rep>> \/ TakePreset \/ BeginArm \/ EndPreset
    BY DEF Next, WorkerStep, UiMayStep, UiFinishes
  <1>9. UNCHANGED enqueued \/ Enqueue
    BY DEF Next, WorkerStep, UiMayStep, UiFinishes
  <1> QED
    BY <1>1, <1>2, <1>3, <1>4, <1>5, <1>6, <1>7, <1>8, <1>9

\* The children as a sequence of Child, and where the worker's child is.
LEMMA TypedChildren ==
    ASSUME TypeOK
    PROVE  /\ children \in Seq(Child) /\ DOMAIN children = 1 .. Len(children)
           /\ Len(children) \in Nat
PROOF
  BY DEF TypeOK, Child

\* The child of a record that holds one is the last that was forked.
LEMMA HeldChild ==
    ASSUME TypeOK, RecInv, wpc \in Holding
    PROVE  rec.child \in DOMAIN children /\ rec.child = Len(children)
PROOF
  <1>1. earlier \in Nat /\ Len(children) \in Nat /\ DOMAIN children = 1 .. Len(children)
    BY TypedChildren DEF TypeOK
  <1>2. rec.child = Len(children) /\ rec.child > earlier
    BY Zenon DEF RecInv
  <1> QED
    BY <1>1, <1>2

\* Fork adds a child.
LEMMA ForkStep ==
    ASSUME TypeOK, Fork
    PROVE  /\ children' \in Seq(Child) /\ Len(children') = Len(children) + 1
           /\ \A d \in DOMAIN children : children'[d] = children[d]
           /\ children'[Len(children) + 1] = Forked
           /\ DOMAIN children' = 1 .. Len(children) + 1
PROOF
  <1>1. Forked \in Child
    BY DEF Forked, Child
  <1> HIDE DEF Child
  <1> QED
    BY <1>1, TypedChildren DEF Fork

\* waitpid reaps the child the worker waits for.
LEMMA ReapStep ==
    ASSUME TypeOK, RecInv, WaitReaps
    PROVE  /\ rec.child \in DOMAIN children /\ Changed(children, children', rec.child)
           /\ children'[rec.child].state = "reaped"
           /\ children'[rec.child].signalled = children[rec.child].signalled
           /\ children'[rec.child].early = children[rec.child].early
PROOF
  <1>1. rec.child \in DOMAIN children
    BY HeldChild DEF WaitReaps, Worker, Holding
  <1> QED
    <2> DEFINE c == rec.child
    <2>1. c \in DOMAIN children /\ children' = WithState(children, c, "reaped")
      BY <1>1 DEF WaitReaps, WithState
    <2> HIDE DEF c
    <2>2. /\ Changed(children, children', c) /\ children'[c].state = "reaped"
          /\ children'[c].signalled = children[c].signalled
          /\ children'[c].early = children[c].early
      BY <2>1, TypedChildren, StateChange DEF ChildStates
    <2> QED
      BY <2>1, <2>2 DEF c

\* A signal, if one is sent, goes to the child the worker waits for.
LEMMA TermStep ==
    ASSUME TypeOK, RecInv, ActOnTerm
    PROVE  /\ rec.child \in DOMAIN children /\ Changed(children, children', rec.child)
           /\ children'[rec.child].state \in {children[rec.child].state, "zombie"}
           /\ children'[rec.child].early = children[rec.child].early
           /\ children[rec.child].state \in {"zombie", "reaped", "forked"} =>
                children'[rec.child].state = children[rec.child].state
           /\ grace' # "off"
PROOF
  <1>1. rec.child \in DOMAIN children
    BY HeldChild DEF ActOnTerm, Worker, Holding
  <1>2. children' \in Terminated(rec.child) \/ UNCHANGED children
    BY DEF ActOnTerm, Terminated
  <1>3. grace' # "off"
    BY DEF ActOnTerm
  <1>4. CASE children' \in Terminated(rec.child)
    BY <1>1, <1>3, <1>4, TypedChildren, SignalsOne
  <1>5. CASE UNCHANGED children
    BY <1>1, <1>3, <1>5, TypedChildren, SameChildren
  <1> QED
    BY <1>2, <1>4, <1>5

\* A detach marks the child the worker waited for.
LEMMA DetachStep ==
    ASSUME TypeOK, RecInv, ActOnDetach
    PROVE  /\ rec.child \in DOMAIN children /\ Changed(children, children', rec.child)
           /\ children'[rec.child].state = children[rec.child].state
           /\ children'[rec.child].signalled = children[rec.child].signalled
           /\ children'[rec.child].early = (children[rec.child].state \in {"forked", "leader"})
PROOF
  <1>1. rec.child \in DOMAIN children
    BY HeldChild DEF ActOnDetach, Worker, Holding
  <1> DEFINE c == rec.child
             early == children[c].state \in {"forked", "leader"}
  <1>2. /\ children' = WithEarly(children, c, early) /\ early \in BOOLEAN
        /\ c \in DOMAIN children
    BY <1>1 DEF ActOnDetach, Detached, WithEarly
  <1> HIDE DEF early, c
  <1>3. /\ Changed(children, children', c) /\ children'[c].early = early
        /\ children'[c].state = children[c].state
        /\ children'[c].signalled = children[c].signalled
    BY <1>2, TypedChildren, EarlyChange
  <1> QED
    BY <1>2, <1>3 DEF early, c

\* A child changes its own state, and a child that was reaped does not.
LEMMA OwnStep ==
    ASSUME TypeOK, NEW c \in DOMAIN children, ChildStep(c)
    PROVE  /\ Changed(children, children', c)
           /\ children'[c].signalled = children[c].signalled
           /\ children'[c].early = children[c].early
           /\ \/ children[c].state = "forked" /\ children'[c].state = "leader"
              \/ children[c].state = "leader" /\ children'[c].state = "llama"
              \/ children[c].state \in {"leader", "llama"} /\ children'[c].state = "zombie"
           /\ UNCHANGED <<shared, thread, ofWorker, ledger, ofUi>>
PROOF
  <1>1. CASE Setsid(c)
    BY <1>1, TypedChildren, StateChange DEF Setsid, ChildBecomes, ChildStates, WithState
  <1>2. CASE Exec(c)
    BY <1>2, TypedChildren, StateChange DEF Exec, ChildBecomes, ChildStates, WithState
  <1>3. CASE ChildExits(c)
    BY <1>3, TypedChildren, StateChange DEF ChildExits, ChildBecomes, ChildStates, WithState
  <1> QED
    BY <1>1, <1>2, <1>3 DEF ChildStep

\* The list of children only grows.
LEMMA ChildrenGrow ==
    ASSUME TypeOK, RecInv, [Next]_vars
    PROVE  /\ children' \in Seq(Child)
           /\ Len(children') \in Nat /\ Len(children) <= Len(children')
           /\ Len(children') # Len(children) => Fork
PROOF
  <1> HIDE DEF Child
  <1>1. Len(children) \in Nat /\ children \in Seq(Child)
    BY TypedChildren
  <1>2. CASE UNCHANGED children
    BY <1>1, <1>2
  <1>3. CASE Fork
    BY <1>1, <1>3, ForkStep
  <1>4. ASSUME NEW c, Changed(children, children', c)
        PROVE  children' \in Seq(Child) /\ Len(children') = Len(children)
    BY <1>4 DEF Changed
  <1> QED
    BY <1>1, <1>2, <1>3, <1>4, Changes, ReapStep, TermStep, DetachStep, OwnStep

------------------------------------------------------------------------------
(* The types. *)

\* The queue holds presets.
LEMMA QueueType ==
    ASSUME TypeOK, [Next]_vars
    PROVE  queue' \in Seq(Presets)
PROOF
  <1>1. queue \in Seq(Presets)
    BY DEF TypeOK
  <1>2. CASE TakePreset
    BY <1>1, <1>2, HeadTailProperties DEF TakePreset
  <1>3. CASE Enqueue
    BY <1>1, <1>3 DEF Enqueue
  <1>4. CASE RemoveQueued
    <2>1. ASSUME NEW i \in DOMAIN queue
          PROVE  SubSeq(queue, 1, i - 1) \o SubSeq(queue, i + 1, Len(queue)) \in Seq(Presets)
      <3>1. i \in 1 .. Len(queue) /\ Len(queue) \in Nat
        BY <1>1
      <3>2. /\ \A k \in 1 .. i - 1 : queue[k] \in Presets
            /\ \A k \in i + 1 .. Len(queue) : queue[k] \in Presets
        BY <1>1, <3>1
      <3>3. SubSeq(queue, 1, i - 1) \in Seq(Presets)
        BY <3>1, <3>2, SubSeqProperties
      <3>4. SubSeq(queue, i + 1, Len(queue)) \in Seq(Presets)
        BY <3>1, <3>2, SubSeqProperties
      <3> QED
        BY <3>3, <3>4, ConcatProperties
    <2> QED
      BY <1>1, <1>4, <2>1 DEF RemoveQueued
  <1>5. CASE Relaunch
    BY <1>5 DEF Relaunch
  <1> QED
    BY <1>1, <1>2, <1>3, <1>4, <1>5, Changes

\* A record stays one while children are forked.
LEMMA RecordGrows ==
    ASSUME TypeOK, RecInv, [Next]_vars
    PROVE  Record \subseteq Record'
PROOF
  BY ChildrenGrow, TypedChildren DEF Record

\* The record of the arm in progress.
LEMMA RecType ==
    ASSUME Control, RecInv, [Next]_vars
    PROVE  rec' \in Record' \cup {NoRecord}
PROOF
  <1> USE DEF Control
  <1>1. rec \in Record \cup {NoRecord} /\ rec \in Record' \cup {NoRecord}
    BY RecordGrows DEF TypeOK
  <1>2. CASE UNCHANGED rec
    BY <1>1, <1>2
  <1>3. CASE BeginArm
    <2>1. preset \in Presets /\ rep + 1 \in Nat
      BY <1>3, RunManagerAssumption DEF TypeOK, WorkerInv, BeginArm, Worker, InArm
    <2>2. rec' = [preset |-> preset, rep |-> rep + 1, child |-> 0, note |-> ""]
      BY <1>3 DEF BeginArm, NoRecord
    <2>3. 0 \in 0 .. Len(children')
      BY ChildrenGrow
    <2> QED
      BY <2>1, <2>2, <2>3 DEF Record, Notes
  <1>4. InArm => rec \in Record /\ rec \in Record'
    BY RecordGrows DEF WorkerInv
  <1>5. ASSUME NEW n \in Notes, rec' = [rec EXCEPT !.note = n], InArm
        PROVE  rec' \in Record'
    BY <1>4, <1>5 DEF Record
  <1>6. CASE SpawnFails
    BY <1>5, <1>6 DEF SpawnFails, Worker, InArm, Notes
  <1>7. CASE Fork
    <2>1. Len(children) + 1 \in 0 .. Len(children')
      BY <1>7, ForkStep, TypedChildren
    <2>2. rec \in Record'
      BY <1>4, <1>7 DEF Fork, Worker, InArm
    <2> QED
      BY <1>7, <2>1, <2>2 DEF Record, Fork
  <1>8. CASE ActOnDetach
    BY <1>5, <1>8 DEF ActOnDetach, Detached, Worker, InArm, Notes
  <1>9. CASE Reap
    BY <1>5, <1>9 DEF Reap, Worker, InArm, Notes
  <1>10. CASE AppendLine
    <2>1. InArm /\ rec.note \in Notes
      BY <1>4, <1>10 DEF AppendLine, Worker, InArm, Record
    <2>2. \/ UNCHANGED rec
          \/ rec' = [rec EXCEPT !.note = IF rec.note = "" THEN "jsonl-append-failed" ELSE rec.note]
      BY <1>10 DEF AppendLine
    <2>3. (IF rec.note = "" THEN "jsonl-append-failed" ELSE rec.note) \in Notes
      BY <2>1 DEF Notes
    <2> QED
      BY <1>2, <1>5, <2>1, <2>2, <2>3
  <1>11. CASE Push
    BY <1>11 DEF Push
  <1> QED
    BY <1>2, <1>3, <1>6, <1>7, <1>8, <1>9, <1>10, <1>11, Changes

\* The records in memory and the lines on disk.
LEMMA LedgerType ==
    ASSUME Control, RecInv, [Next]_vars
    PROVE  records' \in Seq(Record') /\ jsonl' \in Seq(Record')
PROOF
  <1> USE DEF Control
  <1>1. records \in Seq(Record) /\ jsonl \in Seq(Record) /\ Record \subseteq Record'
    BY RecordGrows DEF TypeOK
  <1>2. records \in Seq(Record') /\ jsonl \in Seq(Record')
    BY <1>1, SeqMonotonic
  <1>3. InArm => rec \in Record'
    BY <1>1 DEF WorkerInv
  <1>4. records' \in Seq(Record')
    <2>1. CASE Push
      <3>1. records' = Append(records, rec) /\ rec \in Record'
        BY <1>3, <2>1 DEF Push, Worker, InArm
      <3> QED
        BY <1>2, <3>1
    <2>2. CASE Relaunch
      BY <2>2, EmptySeq DEF Relaunch
    <2>3. CASE UNCHANGED records
      BY <1>2, <2>3
    <2> QED
      BY <2>1, <2>2, <2>3, Changes
  <1>5. jsonl' \in Seq(Record')
    <2>1. CASE AppendLine
      <3>1. (jsonl' = Append(jsonl, rec) \/ UNCHANGED jsonl) /\ rec \in Record'
        BY <1>3, <2>1 DEF AppendLine, Worker, InArm
      <3> QED
        BY <1>2, <3>1
    <2>2. CASE Relaunch
      BY <2>2, EmptySeq DEF Relaunch
    <2>3. CASE UNCHANGED jsonl
      BY <1>2, <2>3
    <2> QED
      BY <2>1, <2>2, <2>3, Changes
  <1> QED
    BY <1>4, <1>5

\* The positions in the list of children.
LEMMA PositionsType ==
    ASSUME Control, RecInv, [Next]_vars
    PROVE  child_pid' \in 0 .. Len(children') /\ earlier' \in 0 .. Len(children')
PROOF
  <1> USE DEF Control
  <1>1. /\ Len(children) \in Nat /\ Len(children') \in Nat /\ Len(children) <= Len(children')
        /\ child_pid \in 0 .. Len(children) /\ earlier \in 0 .. Len(children)
    BY ChildrenGrow, TypedChildren DEF TypeOK
  <1>2. CASE Publish
    <2>1. rec.child \in 0 .. Len(children)
      BY <1>2 DEF WorkerInv, Record, InArm, Publish, Worker
    <2> QED
      BY <1>1, <1>2, <2>1 DEF Publish, ofUi
  <1>3. Relaunch => earlier' = Len(children)
    BY DEF Relaunch
  <1> QED
    BY <1>1, <1>2, <1>3, Changes

\* The flags and the places of the threads.
LEMMA ScalarsType ==
    ASSUME TypeOK, [Next]_vars
    PROVE  /\ thread' \in {"none", "running", "done"}
           /\ {active', stop_all', term_req', detach_req', confirming'} \subseteq BOOLEAN
           /\ wpc' \in WorkerLabels
           /\ grace' \in {"off", "running", "over"}
           /\ ui' \in {"ready", "dequeuing", "starting", "quitting", "joining", "gone"}
PROOF
  <1> USE DEF TypeOK, WorkerLabels, vars, shared, ofWorker, ledger, ofUi, Worker, Key,
        RequestStop, RequestDetach, Relaunch, TakePreset, NothingToTake,
        BeginArm, EndPreset, Finish, SpawnFails, Fork, Publish, WaitReaps, WaitReturnsZero,
        ActOnTerm, ActOnDetach, Detached, PollAgain, Reap, AppendLine, Push, GraceExpires,
        Enqueue, AskDequeue, RemoveQueued, Preflight, StartRun, PressStop, PressQuit, Confirm,
        CtrlC, Destroy, JoinWorker, ChildStep, Setsid, Exec, ChildExits, ChildBecomes
  <1>1. CASE WorkerStep
    BY <1>1 DEF WorkerStep
  <1>2. CASE Enqueue \/ AskDequeue \/ Preflight \/ PressStop
    BY <1>2
  <1>7. CASE PressQuit \/ Confirm \/ CtrlC
    BY <1>7
  <1>3. CASE UiFinishes
    BY <1>3 DEF UiFinishes
  <1>4. CASE Relaunch \/ GraceExpires
    BY <1>4
  <1>5. ASSUME NEW c \in DOMAIN children, ChildStep(c)
        PROVE  /\ UNCHANGED <<thread, active, stop_all, term_req, detach_req>>
               /\ UNCHANGED <<confirming, wpc, grace, ui>>
    BY <1>5
  <1>6. CASE UNCHANGED vars
    BY <1>6
  <1> HIDE DEF TypeOK, Relaunch, Enqueue, AskDequeue, Preflight, PressStop, PressQuit, Confirm,
        CtrlC, GraceExpires, ChildStep
  <1>8. TypeOK => /\ thread \in {"none", "running", "done"}
                  /\ {active, stop_all, term_req, detach_req, confirming} \subseteq BOOLEAN
                  /\ wpc \in WorkerLabels
                  /\ grace \in {"off", "running", "over"}
                  /\ ui \in {"ready", "dequeuing", "starting", "quitting", "joining", "gone"}
    BY DEF TypeOK
  <1> QED
    BY <1>1, <1>2, <1>3, <1>4, <1>5, <1>6, <1>7, <1>8 DEF Next, UiMayStep

\* The preset and its arm, and the arms queued.
LEMMA CountsType ==
    ASSUME Control, [Next]_vars
    PROVE  /\ preset' \in Presets \cup {None}
           /\ rep' \in 0 .. (IF preset' = None THEN 0 ELSE Repeats[preset'])
           /\ enqueued' \in 0 .. MaxArms
PROOF
  <1> USE DEF Control
  <1>1. /\ preset \in Presets \cup {None} /\ enqueued \in 0 .. MaxArms
        /\ rep \in 0 .. (IF preset = None THEN 0 ELSE Repeats[preset])
        /\ queue \in Seq(Presets)
        /\ \A p \in Presets : p # None /\ Repeats[p] \in Nat
    BY RunManagerAssumption DEF TypeOK
  <1>2. CASE TakePreset
    BY <1>1, <1>2 DEF TakePreset, ofUi
  <1>3. CASE BeginArm
    <2>1. preset # None
      BY <1>3 DEF WorkerInv, BeginArm, Worker, InArm
    <2>2. rep < Repeats[preset] /\ rep' = rep + 1 /\ UNCHANGED <<preset, enqueued>>
      BY <1>3 DEF BeginArm, ofUi
    <2> QED
      BY <1>1, <2>1, <2>2
  <1>4. CASE EndPreset
    BY <1>1, <1>4 DEF EndPreset, ofUi
  <1>5. Enqueue => enqueued' \in 0 .. MaxArms
    BY <1>1, RunManagerAssumption DEF Enqueue
  <1> QED
    BY <1>1, <1>2, <1>3, <1>4, <1>5, Changes

\* The types are preserved.
LEMMA TypeStep ==
    ASSUME Control, RecInv, [Next]_vars
    PROVE  TypeOK'
PROOF
  <1>1. TypeOK
    BY DEF Control
  <1>2. queue' \in Seq(Presets)
    BY <1>1, QueueType
  <1>3. children' \in Seq(Child)
    BY <1>1, ChildrenGrow
  <1>4. records' \in Seq(Record') /\ jsonl' \in Seq(Record') /\ rec' \in Record' \cup {NoRecord}
    BY LedgerType, RecType
  <1>5. child_pid' \in 0 .. Len(children') /\ earlier' \in 0 .. Len(children')
    BY PositionsType
  <1>6. /\ thread' \in {"none", "running", "done"}
        /\ {active', stop_all', term_req', detach_req', confirming'} \subseteq BOOLEAN
        /\ wpc' \in WorkerLabels
        /\ grace' \in {"off", "running", "over"}
        /\ ui' \in {"ready", "dequeuing", "starting", "quitting", "joining", "gone"}
    BY <1>1, ScalarsType
  <1>7. /\ preset' \in Presets \cup {None}
        /\ rep' \in 0 .. (IF preset' = None THEN 0 ELSE Repeats[preset'])
        /\ enqueued' \in 0 .. MaxArms
    BY CountsType
  <1> QED
    BY <1>2, <1>3, <1>4, <1>5, <1>6, <1>7 DEF TypeOK, Child

------------------------------------------------------------------------------
(* The worker and the requests. *)

\* The worker's preset, record and grace go with its place.
WorkerPlaces ==
    /\ preset # None <=> InArm \/ wpc = "arm"
    /\ thread # "running" => wpc = "pop"
    /\ IF InArm THEN rec.preset = preset /\ rec.rep = rep
                ELSE rec = NoRecord /\ grace = "off"
    /\ child_pid # 0 => wpc \in {"wait", "flags", "reap"}

\* Every step keeps what the place of the worker says of its preset, record and child.
LEMMA PlacesStep ==
    ASSUME Control, RecInv, [Next]_vars
    PROVE  WorkerPlaces'
PROOF
  <1> USE DEF Control, TypeOK, Record, WorkerInv, RequestInv, WorkerPlaces, InArm, NoRecord, shared,
        ofWorker, ledger, ofUi, Worker, Key, RequestStop, RequestDetach
  <1>1. CASE TakePreset
    <2>1. Head(queue) \in Presets /\ None \notin Presets
      BY <1>1, HeadTailProperties, RunManagerAssumption DEF TakePreset
    <2> QED
      BY <1>1, <2>1 DEF TakePreset
  <1>2. CASE NothingToTake \/ BeginArm \/ EndPreset \/ Finish
    BY <1>2 DEF NothingToTake, BeginArm, EndPreset, Finish
  <1>3. CASE SpawnFails \/ Fork \/ Publish \/ WaitReaps \/ WaitReturnsZero
    BY <1>3 DEF SpawnFails, Fork, Publish, WaitReaps, WaitReturnsZero
  <1>4. CASE ActOnTerm \/ ActOnDetach \/ PollAgain
    BY <1>4 DEF ActOnTerm, ActOnDetach, Detached, PollAgain
  <1>5. CASE Reap \/ AppendLine \/ Push \/ GraceExpires
    BY <1>5 DEF Reap, AppendLine, Push, GraceExpires
  <1>6. CASE Relaunch
    BY <1>6 DEF Relaunch
  <1>7. CASE UiMayStep
    BY <1>7 DEF UiMayStep, Enqueue, AskDequeue, Preflight, PressStop, PressQuit, Confirm, CtrlC
  <1>8. CASE UiFinishes
    BY <1>8 DEF UiFinishes, RemoveQueued, StartRun, Destroy, JoinWorker
  <1>9. ASSUME NEW c \in DOMAIN children, ChildStep(c)
        PROVE  UNCHANGED <<thread, preset, rep, wpc, rec, grace, child_pid>>
    BY <1>9, OwnStep
  <1>10. CASE UNCHANGED <<thread, preset, rep, wpc, rec, grace, child_pid>>
    BY <1>10
  <1> QED
    BY <1>1, <1>2, <1>3, <1>4, <1>5, <1>6, <1>7, <1>8, <1>9, <1>10 DEF Next, WorkerStep, vars

\* The worker's part of the invariant is preserved.
LEMMA WorkerInvStep ==
    ASSUME Control, RecInv, [Next]_vars
    PROVE  WorkerInv'
PROOF
  <1>1. rec' \in Record' \cup {NoRecord} /\ WorkerPlaces' /\ NoRecord.preset = None
    BY RecType, PlacesStep DEF NoRecord
  <1>2. InArm' => rec' \in Record'
    BY <1>1 DEF WorkerPlaces
  <1> QED
    BY <1>1, <1>2 DEF WorkerPlaces, WorkerInv

\* What was asked for is still asked for.
LEMMA RequestStep ==
    ASSUME Control, [Next]_vars
    PROVE  RequestInv'
PROOF
  <1> USE DEF Control, TypeOK, Record, WorkerInv, RequestInv, InArm, NoRecord, shared,
        ofWorker, ledger, ofUi, Worker, Key
  <1>1. CASE TakePreset
    BY <1>1 DEF TakePreset
  <1>2. CASE NothingToTake
    BY <1>2 DEF NothingToTake
  <1>3. CASE BeginArm
    BY <1>3 DEF BeginArm
  <1>4. CASE EndPreset
    BY <1>4 DEF EndPreset
  <1>5. CASE Finish
    BY <1>5 DEF Finish
  <1>6. CASE SpawnFails
    BY <1>6 DEF SpawnFails
  <1>7. CASE Fork
    BY <1>7 DEF Fork
  <1>8. CASE Publish
    BY <1>8 DEF Publish
  <1>9. CASE WaitReaps
    BY <1>9 DEF WaitReaps
  <1>10. CASE WaitReturnsZero
    BY <1>10 DEF WaitReturnsZero
  <1>11. CASE ActOnTerm
    BY <1>11 DEF ActOnTerm
  <1>12. CASE ActOnDetach
    BY <1>12 DEF ActOnDetach, Detached
  <1>13. CASE PollAgain
    BY <1>13 DEF PollAgain
  <1>14. CASE Reap
    BY <1>14 DEF Reap
  <1>15. CASE AppendLine
    BY <1>15 DEF AppendLine
  <1>16. CASE Push
    BY <1>16 DEF Push
  <1>17. CASE GraceExpires
    BY <1>17 DEF GraceExpires
  <1>18. CASE Relaunch
    BY <1>18 DEF Relaunch
  <1>19. CASE Enqueue
    BY <1>19 DEF Enqueue
  <1>20. CASE AskDequeue
    BY <1>20 DEF AskDequeue
  <1>21. CASE Preflight
    BY <1>21 DEF Preflight
  <1>22. CASE PressStop
    BY <1>22 DEF PressStop, RequestStop
  <1>23. CASE PressQuit
    BY <1>23 DEF PressQuit
  <1>24. CASE CtrlC
    BY <1>24 DEF CtrlC
  <1>25. CASE RemoveQueued
    BY <1>25 DEF RemoveQueued
  <1>26. CASE StartRun
    BY <1>26 DEF StartRun
  <1>27. CASE Destroy
    BY <1>27 DEF Destroy
  <1>28. CASE JoinWorker
    BY <1>28 DEF JoinWorker
  <1>29. CASE Confirm
    <2>1. ui = "ready" /\ ~detach_req /\ (term_req => stop_all)
      BY <1>29 DEF Confirm
    <2>2. \/ term_req' /\ stop_all' /\ UNCHANGED detach_req
          \/ detach_req' /\ stop_all' /\ UNCHANGED term_req /\ ui' = "quitting"
          \/ UNCHANGED <<ui, stop_all, term_req, detach_req>>
      BY <1>29 DEF Confirm, RequestStop, RequestDetach
    <2>3. UNCHANGED <<thread, wpc, rec, grace>> /\ ui' # "gone"
      BY <1>29 DEF Confirm
    <2>4. stop_all => stop_all'
      BY <2>2
    <2>5. term_req => term_req'
      BY <2>2
    <2>6. detach_req' => stop_all' /\ ui' = "quitting"
      BY <2>1, <2>2
    <2>7. term_req' => stop_all'
      BY <2>1, <2>2
    <2> QED
      BY <2>3, <2>4, <2>5, <2>6, <2>7
  <1>30. ASSUME NEW c \in DOMAIN children, ChildStep(c)
        PROVE  UNCHANGED <<thread, stop_all, term_req, detach_req, ui, wpc, rec, grace>>
    BY <1>30, OwnStep
  <1>31. CASE UNCHANGED <<thread, stop_all, term_req, detach_req, ui, wpc, rec, grace>>
    BY <1>31
  <1> QED
    BY <1>1, <1>2, <1>3, <1>4, <1>5, <1>6, <1>7, <1>8, <1>9, <1>10, <1>11, <1>12, <1>13,
      <1>14, <1>15, <1>16, <1>17, <1>18, <1>19, <1>20, <1>21, <1>22, <1>23, <1>24, <1>25,
      <1>26, <1>27, <1>28, <1>29, <1>30, <1>31
    DEF Next, WorkerStep, UiMayStep, UiFinishes, vars

------------------------------------------------------------------------------
(* The record of the arm in progress. *)

\* A child moves on; what the record says of the worker's child stays true.
LEMMA RecInvOwnStep ==
    ASSUME TypeOK, RecInv, NEW c \in DOMAIN children, ChildStep(c)
    PROVE  RecInv'
PROOF
  <1>1. /\ UNCHANGED <<wpc, rec, grace, earlier>> /\ Len(children') = Len(children)
        /\ DOMAIN children' = DOMAIN children
    BY OwnStep DEF ofWorker, ofUi, Changed
  <1>2. /\ \A d \in DOMAIN children : d # c => children'[d] = children[d]
        /\ children'[c].signalled = children[c].signalled
        /\ children'[c].state # "reaped" /\ children[c].state # "reaped"
    BY OwnStep DEF Changed
  <1>3. ASSUME NEW d \in DOMAIN children
        PROVE  /\ children'[d].signalled = children[d].signalled
               /\ children'[d].state = "reaped" <=> children[d].state = "reaped"
    BY <1>2
  <1>4. wpc \in Holding \/ (wpc \in Closing /\ rec.child > 0) => rec.child \in DOMAIN children
    <2>1. Len(children) \in Nat /\ DOMAIN children = 1 .. Len(children) /\ earlier \in Nat
      BY TypedChildren DEF TypeOK
    <2>2. wpc \in Holding \/ (wpc \in Closing /\ rec.child # 0)
          => rec.child = Len(children) /\ rec.child > earlier
      BY Zenon DEF RecInv
    <2> QED
      BY <2>1, <2>2
  <1> QED
    BY <1>1, <1>3, <1>4 DEF RecInv, States, Holding, Closing

\* A spawn that fails leaves the record without a child; a fork is recorded.
LEMMA RecInvSpawnStep ==
    ASSUME Control, RecInv, SpawnFails \/ Fork
    PROVE  RecInv'
PROOF
  <1>1. CASE SpawnFails
    <2>1. rec \in Record /\ wpc = "spawn"
      BY <1>1 DEF SpawnFails, Worker, Control, WorkerInv, InArm
    <2>2. rec.child = 0
      BY <2>1, Zenon DEF RecInv
    <2>3. rec'.child = 0 /\ wpc' = "append"
      BY <1>1, <2>1, <2>2 DEF SpawnFails, Record, Worker
    <2>4. ~(rec'.child > 0)
      BY <2>3
    <2>5. wpc' \notin Holding \cup {"spawn", "reap"}
      BY <2>3 DEF Holding
    <2> QED
      BY <2>3, <2>4, <2>5, Zenon DEF RecInv, Holding, Closing
  <1>2. CASE Fork
    <2>1. rec \in Record /\ wpc = "spawn"
      BY <1>2 DEF Fork, Worker, Control, WorkerInv, InArm
    <2>2. rec.note = ""
      BY <2>1, Zenon DEF RecInv
    <2>3. rec'.child = Len(children) + 1
      BY <1>2, <2>1 DEF Fork, Record
    <2>4. Len(children') = Len(children) + 1
      BY <1>2, ForkStep DEF Control
    <2>5. earlier' = earlier /\ earlier \in 0 .. Len(children) /\ Len(children) \in Nat
      BY <1>2, TypedChildren DEF Fork, ofUi, Control, TypeOK
    <2>6. rec'.child = Len(children') /\ rec'.child > earlier'
      BY <2>3, <2>4, <2>5
    <2>7. rec'.note = "" /\ wpc' = "publish"
      BY <1>2, <2>1, <2>2 DEF Fork, Record, Worker
    <2>8. children'[rec'.child].state = "forked" /\ ~children'[rec'.child].signalled
      BY <1>2, <2>3, ForkStep DEF Control, Forked
    <2> QED
      BY <2>6, <2>7, <2>8 DEF RecInv, Holding, Closing, States
  <1> QED
    BY <1>1, <1>2

\* Every step keeps what the record of the running arm says of its child.
LEMMA RecInvStep ==
    ASSUME Control, RecInv, [Next]_vars
    PROVE  RecInv'
PROOF
  <1> USE TypedChildren DEF Control, TypeOK, RecInv, States, Holding, Closing, WorkerInv,
        RequestInv,
        Record, InArm, NoRecord, Changed, shared, ofWorker, ledger, ofUi, Worker
  <1>1. CASE Relaunch
    BY <1>1 DEF Relaunch
  <1>2. CASE TakePreset
    BY <1>2 DEF TakePreset
  <1>3. CASE NothingToTake
    BY <1>3 DEF NothingToTake
  <1>4. CASE BeginArm
    BY <1>4 DEF BeginArm
  <1>5. CASE EndPreset
    BY <1>5 DEF EndPreset
  <1>6. CASE Finish
    BY <1>6 DEF Finish
  <1>7. CASE Publish
    BY <1>7 DEF Publish
  <1>8. CASE WaitReaps
    BY <1>8, ReapStep DEF WaitReaps
  <1>9. CASE WaitReturnsZero
    BY <1>9 DEF WaitReturnsZero
  <1>10. CASE ActOnTerm
    BY <1>10, TermStep DEF ActOnTerm
  <1>11. CASE ActOnDetach
    BY <1>11, DetachStep DEF ActOnDetach, Detached
  <1>12. CASE PollAgain
    BY <1>12 DEF PollAgain
  <1>13. CASE Reap
    BY <1>13 DEF Reap
  <1>14. CASE AppendLine
    BY <1>14 DEF AppendLine
  <1>15. CASE Push
    BY <1>15 DEF Push
  <1>16. CASE GraceExpires
    BY <1>16 DEF GraceExpires
  <1>17. CASE SpawnFails \/ Fork
    <2> HIDE DEF RecInv, TypeOK, WorkerInv, RequestInv
    <2> QED
      BY <1>17, RecInvSpawnStep DEF Control
  <1>19. ASSUME NEW c \in DOMAIN children, ChildStep(c)
        PROVE  RecInv'
    <2> HIDE DEF RecInv, TypeOK
    <2> QED
      BY <1>19, RecInvOwnStep
  <1>20. CASE UNCHANGED <<wpc, rec, grace, children, earlier>>
    BY <1>20
  <1> HIDE DEF RecInv, TypeOK, WorkerInv, RequestInv
  <1> QED
    BY <1>1, <1>2, <1>3, <1>4, <1>5, <1>6, <1>7, <1>8, <1>9, <1>10, <1>11, <1>12, <1>13,
      <1>14, <1>15, <1>16, <1>17, <1>19, <1>20
    DEF Next, WorkerStep, UiMayStep, UiFinishes, vars, Enqueue, AskDequeue, Preflight, PressStop,
      PressQuit, CtrlC, Confirm, RemoveQueued, StartRun, Destroy, JoinWorker

------------------------------------------------------------------------------
(* The records. *)

\* A child is pending from its fork to the record of its arm.
LEMMA PendingStep ==
    ASSUME Control, RecInv, [Next]_vars
    PROVE  \/ Relaunch /\ Pending' = 0
           \/ Push /\ Pending = rec.child /\ Pending' = 0
           \/ Fork /\ Pending = 0 /\ Pending' = Len(children) + 1
           \/ /\ UNCHANGED <<records, earlier>> /\ Len(children') = Len(children)
              /\ Pending' = Pending
PROOF
  <1>1. TypeOK /\ (thread # "running" => wpc = "pop") /\ (ui = "gone" => thread # "running")
    BY DEF Control, WorkerInv, RequestInv
  <1>2. CASE Relaunch
    BY <1>1, <1>2 DEF Relaunch, Pending, InArm, ofWorker
  <1>3. CASE Push
    BY <1>3 DEF Push, Worker, Pending, InArm
  <1>4. InArm => rec \in Record
    BY DEF Control, WorkerInv
  <1>5. CASE Fork
    <2>1. rec \in Record /\ wpc = "spawn" /\ wpc' = "publish"
      BY <1>4, <1>5 DEF Fork, Worker, InArm
    <2>2. rec.child = 0
      BY <2>1, Zenon DEF RecInv
    <2>3. rec'.child = Len(children) + 1
      BY <1>5, <2>1 DEF Fork, Record
    <2> QED
      BY <1>5, <2>1, <2>2, <2>3 DEF Pending, InArm
  <1>6. ~Relaunch /\ ~Push /\ ~Fork =>
          UNCHANGED <<records, earlier>> /\ Len(children') = Len(children)
    BY <1>1, Changes, ChildrenGrow
  <1>8. ASSUME BeginArm
        PROVE  Pending' = Pending
    <2>1. rec' = [preset |-> preset, rep |-> rep + 1, child |-> 0, note |-> ""]
      BY <1>8 DEF BeginArm, NoRecord
    <2>2. ~InArm
      BY <1>8 DEF BeginArm, Worker, InArm
    <2> QED
      BY <2>1, <2>2 DEF Pending
  <1>9. ASSUME SpawnFails \/ ActOnDetach \/ Reap \/ AppendLine
        PROVE  Pending' = Pending
    <2>1. InArm /\ InArm'
      BY <1>9 DEF SpawnFails, ActOnDetach, Reap, AppendLine, Worker, InArm
    <2>2. rec'.child = rec.child
      BY <1>4, <1>9, <2>1 DEF SpawnFails, ActOnDetach, Detached, Reap, AppendLine, Record
    <2> QED
      BY <2>1, <2>2 DEF Pending
  <1>10. ASSUME UNCHANGED rec /\ ~Relaunch /\ ~Push /\ ~BeginArm
        PROVE  Pending' = Pending
    <2>1. CASE InArm
      <3>1. InArm'
        BY <1>1, <2>1, <1>10 DEF InArm, Next, WorkerStep, UiMayStep, UiFinishes,
          vars, shared, ofWorker, ledger, ofUi, Worker,
          TakePreset, NothingToTake, BeginArm, EndPreset, Finish, SpawnFails, Fork, Publish,
          WaitReaps, WaitReturnsZero, ActOnTerm, ActOnDetach, Detached, PollAgain, Reap,
          AppendLine, Push, GraceExpires, Enqueue, AskDequeue, RemoveQueued, Preflight,
          StartRun, PressStop, PressQuit, Confirm, CtrlC, Destroy, JoinWorker, ChildStep,
          Setsid, Exec, ChildExits, ChildBecomes
      <3> QED
        BY <1>10, <2>1, <3>1 DEF Pending
    <2>2. CASE ~InArm
      <3>1. ~InArm'
        BY <2>2, <1>10 DEF InArm, Next, WorkerStep, UiMayStep, UiFinishes,
          vars, shared, ofWorker, ledger, ofUi, Worker,
          TakePreset, NothingToTake, EndPreset, Finish, SpawnFails, Fork, Publish,
          WaitReaps, WaitReturnsZero, ActOnTerm, ActOnDetach, Detached, PollAgain, Reap,
          AppendLine, Push, GraceExpires, Enqueue, AskDequeue, RemoveQueued, Preflight,
          StartRun, PressStop, PressQuit, Confirm, CtrlC, Destroy, JoinWorker, ChildStep,
          Setsid, Exec, ChildExits, ChildBecomes
      <3> QED
        BY <2>2, <3>1 DEF Pending
    <2> QED
      BY <2>1, <2>2
  <1> QED
    BY <1>2, <1>3, <1>5, <1>6, <1>8, <1>9, <1>10, Changes

\* A child that was reaped stays reaped, and only the child of the worker is signalled.
LEMMA ChildrenEvolve ==
    ASSUME Control, RecInv, [Next]_vars, NEW d \in DOMAIN children
    PROVE  /\ d \in DOMAIN children'
           /\ children[d].state = "reaped" => children'[d].state = "reaped"
           /\ \/ children'[d].signalled = children[d].signalled
              \/ d = rec.child /\ ActOnTerm
PROOF
  <1>1. TypeOK
    BY DEF Control
  <1>2. CASE UNCHANGED children
    BY <1>2
  <1>3. CASE Fork
    BY <1>1, <1>3, ForkStep, TypedChildren
  <1>4. CASE WaitReaps
    BY <1>1, <1>4, ReapStep DEF Changed
  <1>5. CASE ActOnTerm
    BY <1>1, <1>5, TermStep DEF Changed
  <1>6. CASE ActOnDetach
    BY <1>1, <1>6, DetachStep DEF Changed
  <1>7. ASSUME NEW c \in DOMAIN children, ChildStep(c)
        PROVE  /\ d \in DOMAIN children'
               /\ children[d].state = "reaped" => children'[d].state = "reaped"
               /\ children'[d].signalled = children[d].signalled
    BY <1>1, <1>7, OwnStep DEF Changed
  <1> QED
    BY <1>2, <1>3, <1>4, <1>5, <1>6, <1>7, Changes

\* The records of the session, and those of a longer list.
LEMMA TypedRecords ==
    ASSUME TypeOK
    PROVE  /\ Len(records) \in Nat /\ DOMAIN records = 1 .. Len(records)
           /\ \A i \in DOMAIN records : /\ records[i] \in Record
                                        /\ records[i].child \in 0 .. Len(children)
PROOF
  <1>1. records \in Seq(Record)
    BY DEF TypeOK
  <1>2. \A r \in Record : r.child \in 0 .. Len(children)
    BY DEF Record
  <1> HIDE DEF Record
  <1> QED
    BY <1>1, <1>2, ElementOfSeq, LenProperties

\* Pushing a record keeps the earlier ones.
LEMMA PushedRecords ==
    ASSUME TypeOK, Push
    PROVE  /\ DOMAIN records' = 1 .. Len(records) + 1 /\ Len(records') = Len(records) + 1
           /\ \A i \in DOMAIN records : records'[i] = records[i]
           /\ records'[Len(records) + 1] = rec
PROOF
  <1>1. records \in Seq(Record) /\ records' = Append(records, rec)
    BY DEF TypeOK, Push
  <1> QED
    BY <1>1

\* Every child of the session stays pending or in a record.
LEMMA RecordsInvStep ==
    ASSUME Control, RecInv, RecordsInv, [Next]_vars
    PROVE  RecordsInv'
PROOF
  <1>1. TypeOK
    BY DEF Control
  <1>2. /\ Len(children) \in Nat /\ earlier \in 0 .. Len(children)
        /\ \A i \in DOMAIN records : records[i].child \in 0 .. Len(children)
    BY <1>1, TypedChildren, TypedRecords DEF TypeOK
  <1>3. CASE Relaunch /\ Pending' = 0
    BY <1>2, <1>3 DEF Relaunch, RecordsInv
  <1>4. CASE Push /\ Pending = rec.child /\ Pending' = 0
    <2>1. UNCHANGED <<children, earlier>>
      BY <1>4 DEF Push, ofUi
    <2>2. rec.child > 0 => rec.child > earlier
      <3>1. rec.child = 0 \/ rec.child > earlier
        BY <1>4, Zenon DEF RecInv, Push, Worker, Closing
      <3> QED
        BY <3>1
    <2>3. ASSUME NEW i \in DOMAIN records'
          PROVE  \/ i \in DOMAIN records /\ records'[i] = records[i]
                 \/ records'[i] = rec
      BY <1>1, <1>4, <2>3, PushedRecords, TypedRecords
    <2>4. ASSUME NEW i \in DOMAIN records', records'[i].child > 0
          PROVE  records'[i].child > earlier
      BY <2>2, <2>3, <2>4 DEF RecordsInv
    <2>5. ASSUME NEW c \in earlier + 1 .. Len(children)
          PROVE  \E i \in DOMAIN records' : records'[i].child = c
      <3>1. CASE Pending = c
        <4>1. /\ Len(records) + 1 \in DOMAIN records'
              /\ records'[Len(records) + 1] = rec
          BY <1>1, <1>4, PushedRecords, TypedRecords
        <4> QED
          BY <1>4, <3>1, <4>1, Zenon
      <3>2. CASE Pending # c
        BY <1>1, <1>4, <3>2, PushedRecords, TypedRecords DEF RecordsInv
      <3> QED
        BY <3>1, <3>2
    <2> QED
      BY <1>4, <2>1, <2>4, <2>5 DEF RecordsInv
  <1>5. CASE Fork /\ Pending = 0 /\ Pending' = Len(children) + 1
    <2>1. UNCHANGED <<records, earlier>> /\ Len(children') = Len(children) + 1
      BY <1>1, <1>5, ForkStep DEF Fork, ledger, ofUi
    <2>2. ASSUME NEW c \in earlier + 1 .. Len(children) + 1, c # Len(children) + 1
          PROVE  \E i \in DOMAIN records : records[i].child = c
      <3>1. c \in earlier + 1 .. Len(children) /\ c # 0
        BY <1>2, <2>2
      <3> QED
        BY <1>5, <3>1 DEF RecordsInv
    <2> QED
      BY <1>2, <1>5, <2>1, <2>2 DEF RecordsInv
  <1>6. CASE UNCHANGED <<records, earlier>> /\ Len(children') = Len(children) /\ Pending' = Pending
    BY <1>6 DEF RecordsInv
  <1> QED
    BY <1>3, <1>4, <1>5, <1>6, PendingStep

\* The children stay in the order in which they were forked.
LEMMA InForkOrderStep ==
    ASSUME Control, RecInv, RecordsInv, InForkOrder, [Next]_vars
    PROVE  InForkOrder'
PROOF
  <1>1. TypeOK
    BY DEF Control
  <1>2. CASE Relaunch
    BY <1>2 DEF Relaunch, InForkOrder
  <1>3. CASE Push /\ Pending = rec.child
    <2>1. ASSUME NEW i \in DOMAIN records', NEW j \in DOMAIN records', i < j, records'[j].child > 0
          PROVE  records'[i].child < records'[j].child
      <3>1. i \in DOMAIN records /\ records'[i] = records[i]
        BY <1>1, <1>3, <2>1, PushedRecords, TypedRecords
      <3>2. CASE j \in DOMAIN records
        BY <1>1, <1>3, <2>1, <3>1, <3>2, PushedRecords DEF InForkOrder
      <3>3. CASE j \notin DOMAIN records
        <4>1. records'[j] = rec
          BY <1>1, <1>3, <2>1, <3>3, PushedRecords, TypedRecords
        <4> QED
          BY <1>3, <2>1, <3>1, <4>1 DEF RecordsInv
      <3> QED
        BY <3>2, <3>3
    <2> QED
      BY <2>1 DEF InForkOrder
  <1>4. CASE UNCHANGED records
    BY <1>4 DEF InForkOrder
  <1>5. Fork => UNCHANGED records
    BY DEF Fork, ledger
  <1> QED
    BY <1>2, <1>3, <1>4, <1>5, PendingStep

\* Where the child of a record is.
LEMMA RecordedChild ==
    ASSUME TypeOK, NEW i \in DOMAIN records, records[i].child > 0
    PROVE  records[i].child \in DOMAIN children
PROOF
  BY TypedRecords, TypedChildren

\* A child with a record was reaped, unless it was detached.
LEMMA ConcludedStep ==
    ASSUME Control, RecInv, Concluded, [Next]_vars
    PROVE  Concluded'
PROOF
  <1>1. TypeOK
    BY DEF Control
  <1>2. CASE Relaunch
    BY <1>2 DEF Relaunch, Concluded
  <1>3. CASE Push
    <2>1. UNCHANGED children
      BY <1>3 DEF Push
    <2>2. rec.child > 0 => rec.note = "detached" \/ children[rec.child].state = "reaped"
      BY <1>3, Zenon DEF RecInv, States, Push, Worker, Closing
    <2>3. ASSUME NEW i \in DOMAIN records'
          PROVE  \/ i \in DOMAIN records /\ records'[i] = records[i]
                 \/ records'[i] = rec
      BY <1>1, <1>3, <2>3, PushedRecords, TypedRecords
    <2> QED
      BY <2>1, <2>2, <2>3 DEF Concluded
  <1>4. CASE UNCHANGED records
    <2>1. ASSUME NEW i \in DOMAIN records, records[i].child > 0
          PROVE  records[i].note = "detached" \/ children'[records[i].child].state = "reaped"
      BY <1>1, <2>1, RecordedChild, ChildrenEvolve DEF Concluded
    <2> QED
      BY <1>4, <2>1 DEF Concluded
  <1> QED
    BY <1>2, <1>3, <1>4, Changes

\* Nobody whose record does not say "stopped" is signalled.
LEMMA SignalledStep ==
    ASSUME Control, RecInv, RecordsInv, OnlyStoppedSignalled, [Next]_vars
    PROVE  OnlyStoppedSignalled'
PROOF
  <1>1. TypeOK
    BY DEF Control
  <1>2. CASE Relaunch
    BY <1>2 DEF Relaunch, OnlyStoppedSignalled
  <1>3. CASE Push
    <2>1. UNCHANGED children
      BY <1>3 DEF Push
    <2>2. rec.child > 0 /\ children[rec.child].signalled => rec.note = "stopped"
      BY <1>3, Zenon DEF RecInv, Push, Worker, Closing
    <2>3. ASSUME NEW i \in DOMAIN records'
          PROVE  \/ i \in DOMAIN records /\ records'[i] = records[i]
                 \/ records'[i] = rec
      BY <1>1, <1>3, <2>3, PushedRecords, TypedRecords
    <2> QED
      BY <2>1, <2>2, <2>3 DEF OnlyStoppedSignalled
  <1>4. CASE UNCHANGED records
    <2>1. ASSUME NEW i \in DOMAIN records, records[i].child > 0,
                 children'[records[i].child].signalled
          PROVE  records[i].note = "stopped"
      <3>1. CASE ActOnTerm
        <4>1. Pending = rec.child /\ rec.child = Len(children) /\ rec.child > earlier
          BY <3>1, Zenon DEF ActOnTerm, Worker, Pending, InArm, RecInv, Holding
        <4>2. records[i].child < rec.child
          BY <1>1, <2>1, <4>1, TypedChildren DEF RecordsInv, TypeOK
        <4>3. records[i].child # rec.child
          BY <1>1, <4>2, TypedRecords
        <4> QED
          BY <1>1, <2>1, <4>3, RecordedChild, ChildrenEvolve DEF OnlyStoppedSignalled
      <3>2. CASE ~ActOnTerm
        BY <1>1, <2>1, <3>2, RecordedChild, ChildrenEvolve DEF OnlyStoppedSignalled
      <3> QED
        BY <3>1, <3>2
    <2> QED
      BY <1>4, <2>1 DEF OnlyStoppedSignalled
  <1> QED
    BY <1>2, <1>3, <1>4, Changes

\* Every line of runs.jsonl is of a record, or of the arm about to be pushed.
LEMMA LinesKnownStep ==
    ASSUME Control, RecInv, LinesKnown, [Next]_vars
    PROVE  LinesKnown'
PROOF
  <1>1. TypeOK
    BY DEF Control
  <1>2. CASE Relaunch
    BY <1>2 DEF Relaunch, LinesKnown
  <1>3. CASE Push
    <2>1. UNCHANGED jsonl
      BY <1>3 DEF Push
    <2>2. /\ Len(records) + 1 \in DOMAIN records' /\ records'[Len(records) + 1] = rec
          /\ \A j \in DOMAIN records : j \in DOMAIN records' /\ records'[j] = records[j]
      BY <1>1, <1>3, PushedRecords, TypedRecords
    <2>3. ASSUME NEW i \in DOMAIN jsonl
          PROVE  \E j \in DOMAIN records' : jsonl[i] = records'[j]
      BY <2>2 DEF LinesKnown
    <2> QED
      BY <2>1, <2>3 DEF LinesKnown
  <1>4. CASE AppendLine
    <2>1. wpc = "append" /\ wpc' = "push" /\ UNCHANGED records
      BY <1>4 DEF AppendLine, Worker
    <2>2. CASE UNCHANGED jsonl
      BY <2>1, <2>2 DEF LinesKnown
    <2>3. CASE jsonl' = Append(jsonl, rec) /\ UNCHANGED rec
      <3>1. jsonl \in Seq(Record)
        BY <1>1 DEF TypeOK
      <3>2. /\ Len(jsonl') = Len(jsonl) + 1 /\ jsonl'[Len(jsonl) + 1] = rec
            /\ \A i \in DOMAIN jsonl' : i # Len(jsonl) + 1 =>
                   i \in DOMAIN jsonl /\ jsonl'[i] = jsonl[i]
        BY <2>3, <3>1
      <3> QED
        BY <2>1, <2>3, <3>2 DEF LinesKnown
    <2> QED
      BY <1>4, <2>2, <2>3 DEF AppendLine
  <1>5. CASE UNCHANGED <<records, jsonl>> /\ ~Relaunch /\ ~Push
    <2>1. CASE wpc = "push"
      <3>1. wpc' = "push" /\ UNCHANGED rec
        BY <1>5, <2>1 DEF InArm, Next, WorkerStep, UiMayStep, UiFinishes,
          vars, shared, ofWorker, ledger, ofUi, Worker,
          TakePreset, NothingToTake, BeginArm, EndPreset, Finish, SpawnFails, Fork, Publish,
          WaitReaps, WaitReturnsZero, ActOnTerm, ActOnDetach, Detached, PollAgain, Reap,
          AppendLine, GraceExpires, Enqueue, AskDequeue, RemoveQueued, Preflight,
          StartRun, PressStop, PressQuit, Confirm, CtrlC, Destroy, JoinWorker, ChildStep,
          Setsid, Exec, ChildExits, ChildBecomes
      <3> QED
        BY <1>5, <3>1 DEF LinesKnown
    <2>2. CASE wpc # "push"
      BY <1>5, <2>2 DEF LinesKnown
    <2> QED
      BY <2>1, <2>2
  <1> QED
    BY <1>2, <1>3, <1>4, <1>5, Changes

\* What the records say is what ChildrenAccounted asks of them.
LEMMA Accounting ==
    ASSUME TypeOK, RecordsInv, InForkOrder, Concluded, LinesKnown
    PROVE  ChildrenAccounted
PROOF
  <1>1. ASSUME NEW c \in earlier + 1 .. Len(children)
        PROVE  Cardinality(RecordsOf(c)) = IF InArm /\ rec.child = c THEN 0 ELSE 1
    <2>1. c > 0 /\ earlier \in Nat
      BY <1>1, TypedChildren DEF TypeOK
    <2>2. CASE InArm /\ rec.child = c
      <3>1. \A i \in DOMAIN records : records[i].child # c
        BY <2>1, <2>2, TypedRecords DEF RecordsInv, Pending
      <3>2. RecordsOf(c) = {}
        BY <3>1 DEF RecordsOf
      <3> QED
        BY <2>2, <3>2, FS_EmptySet
    <2>3. CASE ~(InArm /\ rec.child = c)
      <3>1. Pending # c
        BY <2>1, <2>3 DEF Pending
      <3>2. PICK i \in DOMAIN records : records[i].child = c
        BY <1>1, <3>1 DEF RecordsInv
      <3>3. \A j \in DOMAIN records : records[j].child = c => j = i
        BY <2>1, <3>2, TypedRecords DEF InForkOrder
      <3>4. RecordsOf(c) = {i}
        BY <3>2, <3>3 DEF RecordsOf
      <3> QED
        BY <2>3, <3>4, FS_Singleton
    <2> QED
      BY <2>2, <2>3
  <1> QED
    BY <1>1 DEF ChildrenAccounted, InForkOrder, Concluded, LinesKnown

------------------------------------------------------------------------------
(* The children nobody waits for. *)

\* A child that is detached is the last one; it says so when it is not llama yet.
LEMMA VramDetachStep ==
    ASSUME TypeOK, RequestInv, RecInv, VramInv, ActOnDetach
    PROVE  VramInv'
PROOF
  <1>1. /\ wpc = "flags" /\ wpc' = "append" /\ thread = "running" /\ detach_req
        /\ UNCHANGED <<thread, detach_req, ui>>
    BY DEF ActOnDetach, Worker, ofUi
  <1>2. rec.child = Len(children) /\ ui # "starting"
    BY <1>1, HeldChild DEF RequestInv, Holding
  <1>3. /\ rec.child \in DOMAIN children /\ Changed(children, children', rec.child)
        /\ children'[rec.child].state = children[rec.child].state
        /\ children'[rec.child].early = (children[rec.child].state \in {"forked", "leader"})
    BY DetachStep
  <1>4. ASSUME NEW d \in DOMAIN children, d # rec.child
        PROVE  /\ children'[d].state \in {"forked", "leader"} => children'[d].early
               /\ children'[d].state = "llama" => children'[d].early
    <2>1. children'[d] = children[d] /\ Loose(d)
      BY <1>1, <1>3, <1>4 DEF Changed, Loose, Watched
    <2> QED
      BY <1>1, <2>1 DEF VramInv, States
  <1>5. Len(children') = Len(children) /\ DOMAIN children' = DOMAIN children
    BY <1>3 DEF Changed
  <1>6. children'[rec.child].state \in {"forked", "leader"} => children'[rec.child].early
    BY <1>3
  <1> QED
    BY <1>1, <1>2, <1>4, <1>5, <1>6 DEF VramInv, Loose, States

\* A step leaves only such children unwatched.
LEMMA VramInvStep ==
    ASSUME TypeOK, RequestInv, RecInv, VramInv, [Next]_vars
    PROVE  VramInv'
PROOF
  <1>a. DOMAIN children = 1 .. Len(children) /\ Len(children) \in Nat
    BY TypedChildren
  <1>b. /\ term_req \/ detach_req => stop_all
        /\ detach_req => ui \in {"quitting", "joining", "gone"}
        /\ ui = "gone" => thread # "running"
    BY DEF RequestInv
  <1> USE <1>a, <1>b DEF VramInv, Loose, Watched, States, Changed, shared, ofWorker, ledger, ofUi,
        Worker, Key
  <1>1. CASE Relaunch
    BY <1>1 DEF Relaunch
  <1>2. CASE TakePreset
    BY <1>2 DEF TakePreset
  <1>3. CASE NothingToTake
    BY <1>3 DEF NothingToTake
  <1>4. CASE BeginArm
    BY <1>4 DEF BeginArm
  <1>5. CASE EndPreset
    BY <1>5 DEF EndPreset
  <1>6. CASE Finish
    BY <1>6 DEF Finish
  <1>7. CASE SpawnFails
    BY <1>7 DEF SpawnFails
  <1>8. CASE Fork
    BY <1>8, ForkStep DEF Fork
  <1>9. CASE Publish
    BY <1>9 DEF Publish
  <1>10. CASE WaitReaps
    BY <1>10, ReapStep DEF WaitReaps
  <1>11. CASE WaitReturnsZero
    BY <1>11 DEF WaitReturnsZero
  <1>12. CASE ActOnTerm
    BY <1>12, TermStep DEF ActOnTerm
  <1>13. CASE PollAgain
    BY <1>13 DEF PollAgain
  <1>14. CASE Reap
    BY <1>14 DEF Reap
  <1>15. CASE AppendLine
    BY <1>15 DEF AppendLine
  <1>16. CASE Push
    BY <1>16 DEF Push
  <1>17. CASE GraceExpires
    BY <1>17 DEF GraceExpires
  <1>18. CASE Enqueue
    BY <1>18 DEF Enqueue
  <1>19. CASE AskDequeue
    BY <1>19 DEF AskDequeue
  <1>20. CASE RemoveQueued
    BY <1>20 DEF RemoveQueued
  <1>21. CASE Preflight
    BY <1>21 DEF Preflight, Llamas
  <1>22. CASE StartRun
    BY <1>22 DEF StartRun
  <1>23. CASE PressStop
    BY <1>23 DEF PressStop, RequestStop
  <1>24. CASE PressQuit
    BY <1>24 DEF PressQuit
  <1>25. CASE Confirm
    BY <1>25 DEF Confirm, RequestStop, RequestDetach
  <1>26. CASE CtrlC
    BY <1>26 DEF CtrlC
  <1>27. CASE Destroy
    BY <1>27 DEF Destroy
  <1>28. CASE JoinWorker
    BY <1>28 DEF JoinWorker
  <1>29. ASSUME NEW c \in DOMAIN children, ChildStep(c)
        PROVE  VramInv'
    BY <1>29, OwnStep
  <1>30. CASE UNCHANGED vars
    BY <1>30 DEF vars
  <1> HIDE DEF VramInv
  <1>31. CASE ActOnDetach
    BY <1>31, VramDetachStep
  <1> QED
    BY <1>1, <1>2, <1>3, <1>4, <1>5, <1>6, <1>7, <1>8, <1>9, <1>10, <1>11, <1>12, <1>13,
      <1>14, <1>15, <1>16, <1>17, <1>18, <1>19, <1>20, <1>21, <1>22, <1>23, <1>24, <1>25,
      <1>26, <1>27, <1>28, <1>29, <1>30, <1>31
    DEF Next, WorkerStep, UiMayStep, UiFinishes

\* Two llama processes: the older one is loose and not the last.
LEMMA VramHolds ==
    ASSUME TypeOK, RecInv, VramInv
    PROVE  VramExclusive
PROOF
  <1> SUFFICES ASSUME NEW c \in Llamas, NEW d \in Llamas, c < d
               PROVE  children[c].early
    BY DEF VramExclusive
  <1>1. /\ c \in DOMAIN children /\ d \in DOMAIN children /\ children[c].state = "llama"
        /\ DOMAIN children = 1 .. Len(children) /\ Len(children) \in Nat
    BY TypedChildren DEF Llamas
  <1>2. c # Len(children)
    BY <1>1
  <1>3. Watched(c) => c = Len(children)
    BY HeldChild DEF Watched, Holding
  <1> QED
    BY <1>1, <1>2, <1>3 DEF VramInv, Loose, States

------------------------------------------------------------------------------
(* The invariant. *)

\* The invariant holds at the start.
LEMMA InitIInv == Init => IInv
PROOF
  <1> SUFFICES ASSUME Init PROVE IInv
    OBVIOUS
  <1> USE DEF Init
  <1>1. TypeOK
    <2>1. children \in Seq(Child) /\ queue \in Seq(Presets)
          /\ records \in Seq(Record) /\ jsonl \in Seq(Record) /\ Len(children) = 0
      BY EmptySeq
    <2>2. /\ thread \in {"none", "running", "done"}
          /\ {active, stop_all, term_req, detach_req, confirming} \subseteq BOOLEAN
          /\ wpc \in WorkerLabels /\ grace \in {"off", "running", "over"}
          /\ ui \in {"ready", "dequeuing", "starting", "quitting", "joining", "gone"}
      BY DEF WorkerLabels
    <2>3. /\ child_pid \in 0 .. Len(children) /\ earlier \in 0 .. Len(children)
          /\ preset = None /\ rep \in 0 .. 0 /\ enqueued \in 0 .. MaxArms
          /\ rec \in Record \cup {NoRecord}
      BY <2>1, RunManagerAssumption
    <2> HIDE DEF Init
    <2> QED
      BY <2>1, <2>2, <2>3 DEF TypeOK, Child
  <1>2. WorkerInv /\ RequestInv
    BY DEF WorkerInv, RequestInv, InArm
  <1>3. RecInv
    BY DEF RecInv, Holding, Closing
  <1>4. RecordsInv
    BY DEF RecordsInv, Pending, InArm
  <1>5. InForkOrder /\ Concluded /\ LinesKnown /\ OnlyStoppedSignalled
    BY DEF InForkOrder, Concluded, LinesKnown, OnlyStoppedSignalled
  <1>6. VramInv
    BY DEF VramInv, Loose
  <1> QED
    BY <1>1, <1>2, <1>3, <1>4, <1>5, <1>6 DEF IInv, Control, Ledger

\* The invariant is inductive.
LEMMA NextIInv == IInv /\ [Next]_vars => IInv'
PROOF
  <1> SUFFICES ASSUME IInv, [Next]_vars PROVE IInv'
    OBVIOUS
  <1>1. Control /\ RecInv /\ Ledger /\ VramInv
    BY DEF IInv
  <1>2. Control'
    BY <1>1, TypeStep, WorkerInvStep, RequestStep DEF Control
  <1>3. RecInv'
    BY <1>1, RecInvStep
  <1>4. Ledger'
    BY <1>1, RecordsInvStep, InForkOrderStep, ConcludedStep, LinesKnownStep, SignalledStep
    DEF Ledger
  <1>5. VramInv'
    BY <1>1, VramInvStep DEF Control
  <1> QED
    BY <1>2, <1>3, <1>4, <1>5 DEF IInv

\* The invariant holds in every reachable state.
LEMMA Inductive == Spec => []IInv
PROOF
  BY InitIInv, NextIInv, PTL DEF Spec

\* Every variable of the run manager keeps the values the code gives it.
THEOREM TypeCorrect == Spec => []TypeOK
PROOF
  <1>1. IInv => TypeOK
    BY DEF IInv, Control
  <1> QED
    BY <1>1, Inductive, PTL

\* No child is lost and none is counted twice, for any number of presets, arms
\* and sessions.
THEOREM Accounted == Spec => []ChildrenAccounted
PROOF
  <1>1. IInv => ChildrenAccounted
    BY Accounting DEF IInv, Control, Ledger
  <1> QED
    BY <1>1, Inductive, PTL

\* No child is killed implicitly: whoever was signalled has a record that says so.
THEOREM NoneKilledImplicitly == Spec => []OnlyStoppedSignalled
PROOF
  <1>1. IInv => OnlyStoppedSignalled
    BY DEF IInv, Ledger
  <1> QED
    BY <1>1, Inductive, PTL

\* Two llama processes of bench-tui share the GPU only when the older one was
\* detached before its exec.
THEOREM OneLlama == Spec => []VramExclusive
PROOF
  <1>1. IInv => VramExclusive
    BY VramHolds DEF IInv, Control
  <1> QED
    BY <1>1, Inductive, PTL

------------------------------------------------------------------------------
(* The refinement of ArmLog. *)

\* What ArmLog sees of the run manager.
On  == thread = "running" /\ ~stop_all /\ wpc # "finish"
Log == [i \in DOMAIN records |-> ArmOf(records[i])]

\* A step that changes none of it.
LEMMA ArmsStutter ==
    ASSUME UNCHANGED <<queue, preset, rep, records>>, On' <=> On, InArm' <=> InArm
    PROVE  UNCHANGED Arms!vars
PROOF
  <1>1. (thread' = "running" /\ ~stop_all' /\ wpc' # "finish")
        = (thread = "running" /\ ~stop_all /\ wpc # "finish")
    BY DEF On
  <1>2. InArm' = InArm
    BY DEF InArm
  <1>3. [i \in DOMAIN records' |-> ArmOf(records'[i])] =
            [i \in DOMAIN records |-> ArmOf(records[i])]
    BY DEF ArmOf
  <1> QED
    BY <1>1, <1>2, <1>3 DEF Arms!vars, ArmOf

\* The log grows by the record that is pushed.
LEMMA LogGrows ==
    ASSUME TypeOK, Push
    PROVE  Log' = Append(Log, ArmOf(rec))
PROOF
  <1>1. /\ Len(records) \in Nat /\ DOMAIN records = 1 .. Len(records)
    BY TypedRecords
  <1>2. /\ DOMAIN records' = 1 .. Len(records) + 1
        /\ \A i \in DOMAIN records : records'[i] = records[i]
        /\ records'[Len(records) + 1] = rec
    BY PushedRecords
  <1> DEFINE S == {ArmOf(records[i]) : i \in DOMAIN records} \cup {ArmOf(rec)}
             long == [i \in 1 .. Len(records) + 1 |-> ArmOf(records'[i])]
  <1>3. /\ Log \in Seq(S) /\ Len(Log) = Len(records)
        /\ \A i \in 1 .. Len(records) : Log[i] = ArmOf(records[i])
    BY <1>1 DEF Log
  <1>4. long \in Seq(S) /\ Len(long) = Len(records) + 1
    BY <1>1, <1>2
  <1>5. /\ Append(Log, ArmOf(rec)) \in Seq(S) /\ Len(Append(Log, ArmOf(rec))) = Len(records) + 1
        /\ \A i \in 1 .. Len(records) + 1 :
               Append(Log, ArmOf(rec))[i] = IF i = Len(records) + 1 THEN ArmOf(rec)
                                                                   ELSE ArmOf(records[i])
    BY <1>1, <1>3
  <1>6. \A i \in 1 .. Len(records) + 1 : long[i] = Append(Log, ArmOf(rec))[i]
    BY <1>1, <1>2, <1>5
  <1>7. long = Append(Log, ArmOf(rec))
    <2> HIDE DEF long, S
    <2> QED
      BY <1>4, <1>5, <1>6, SeqEqual
  <1>8. Log' = long
    BY <1>2 DEF Log, ArmOf
  <1> QED
    BY <1>7, <1>8

\* The run manager starts as ArmLog does.
LEMMA InitArms == Init => Arms!Init
PROOF
  BY DEF Init, Arms!Init, InArm

\* The steps of the worker.
LEMMA WorkerArms ==
    ASSUME Control, WorkerStep
    PROVE  [Arms!Next]_Arms!vars
PROOF
  <1>1. /\ TypeOK /\ (preset # None <=> InArm \/ wpc = "arm")
        /\ InArm => rec \in Record /\ rec.preset = preset /\ rec.rep = rep
        /\ InArm /\ rec.note \in {"stopped", "detached"} => stop_all
    BY DEF Control, WorkerInv, RequestInv
  <1>2. CASE TakePreset
    <2>1. Arms!Take
      BY <1>1, <1>2 DEF TakePreset, Worker, Arms!Take, InArm, ledger, ArmOf
    <2> QED
      BY <2>1 DEF Arms!Next
  <1>3. CASE NothingToTake
    <2>1. CASE stop_all
      BY <1>3, <2>1, ArmsStutter DEF NothingToTake, Worker, shared, ledger, On, InArm
    <2>2. CASE ~stop_all
      <3>1. Arms!Halt
        BY <1>3, <2>2 DEF NothingToTake, Worker, Arms!Halt, InArm, shared, ledger, ArmOf
      <3> QED
        BY <3>1 DEF Arms!Next
    <2> QED
      BY <2>1, <2>2
  <1>4. CASE BeginArm
    <2>1. Arms!BeginArm
      BY <1>1, <1>4 DEF BeginArm, Worker, Arms!BeginArm, InArm, shared, ledger, ArmOf
    <2> QED
      BY <2>1 DEF Arms!Next
  <1>5. CASE EndPreset
    <2>1. Arms!EndPreset
      BY <1>1, <1>5 DEF EndPreset, Arms!EndPreset, InArm, shared, ledger, ArmOf
    <2> QED
      BY <2>1 DEF Arms!Next
  <1>6. CASE Finish
    BY <1>6, ArmsStutter DEF Finish, Worker, ledger, On, InArm
  <1>7. CASE SpawnFails \/ Fork \/ Publish \/ WaitReaps \/ WaitReturnsZero
    <2>1. UNCHANGED <<queue, stop_all, thread, preset, rep, records>> /\ InArm /\ InArm'
          /\ wpc # "finish" /\ wpc' # "finish"
      BY <1>7 DEF SpawnFails, Fork, Publish, WaitReaps, WaitReturnsZero, Worker, InArm,
                  shared, ledger
    <2> QED
      BY <2>1, ArmsStutter DEF On
  <1>8. CASE ActOnTerm \/ ActOnDetach \/ PollAgain \/ Reap \/ AppendLine
    <2>1. UNCHANGED <<queue, stop_all, thread, preset, rep, records>> /\ InArm /\ InArm'
          /\ wpc # "finish" /\ wpc' # "finish"
      BY <1>8 DEF ActOnTerm, ActOnDetach, PollAgain, Reap, AppendLine, Worker, InArm, shared, ledger
    <2> QED
      BY <2>1, ArmsStutter DEF On
  <1>9. CASE Push
    <2>1. /\ wpc = "push" /\ wpc' = "arm" /\ InArm /\ ~InArm'
          /\ UNCHANGED <<queue, thread, stop_all, preset, rep>>
      BY <1>9 DEF Push, Worker, InArm, shared
    <2>2. rec.note \in Notes /\ ArmOf(rec) = [preset |-> preset, rep |-> rep, note |-> rec.note]
      BY <1>1, <2>1 DEF Record, ArmOf
    <2>3. Log' = Append(Log, [preset |-> preset, rep |-> rep, note |-> rec.note])
      BY <1>1, <1>9, <2>2, LogGrows
    <2>4. /\ rec.note \in {"stopped", "detached"} => ~On
          /\ (thread' = "running" /\ ~stop_all' /\ wpc' # "finish")
             = (thread = "running" /\ ~stop_all /\ wpc # "finish")
      BY <1>1, <2>1 DEF On
    <2>5. [i \in DOMAIN records' |-> ArmOf(records'[i])]
          = Append([i \in DOMAIN records |-> ArmOf(records[i])],
                   [preset |-> preset, rep |-> rep, note |-> rec.note])
      BY <2>3 DEF Log, ArmOf
    <2>6. Arms!EndArm(rec.note)
      <3>1. queue' = queue /\ preset' = preset /\ rep' = rep /\ InArm' = FALSE
        BY <2>1 DEF InArm
      <3> QED
        BY <2>1, <2>4, <2>5, <3>1, Zenon DEF Arms!EndArm, On, ArmOf
    <2> QED
      BY <2>2, <2>6 DEF Arms!Next
  <1> QED
    BY <1>2, <1>3, <1>4, <1>5, <1>6, <1>7, <1>8, <1>9 DEF WorkerStep

\* A request to stop is Halt, once.
LEMMA RequestArms ==
    ASSUME stop_all', UNCHANGED <<queue, preset, rep, records, thread, wpc>>
    PROVE  [Arms!Next]_Arms!vars
PROOF
  <1>1. UNCHANGED InArm /\ ~On'
    BY DEF InArm, On
  <1>2. CASE On
    <2>1. Arms!Halt
      BY <1>1, <1>2 DEF Arms!Halt, On, InArm, ArmOf
    <2> QED
      BY <2>1 DEF Arms!Next
  <1>3. CASE ~On
    BY <1>1, <1>3, ArmsStutter
  <1> QED
    BY <1>2, <1>3

\* The steps of the UI.
LEMMA UiArms ==
    ASSUME Control, UiMayStep \/ UiFinishes \/ Relaunch
    PROVE  [Arms!Next]_Arms!vars
PROOF
  <1>1. /\ (preset # None <=> InArm \/ wpc = "arm")
        /\ thread # "running" => wpc = "pop"
        /\ ui = "gone" => thread # "running"
    BY DEF Control, WorkerInv, RequestInv
  <1>2. CASE Enqueue
    <2>1. PICK p \in Presets : queue' = Append(queue, p)
      BY <1>2 DEF Enqueue
    <2>2. UNCHANGED <<thread, stop_all, wpc, preset, rep, records>>
      BY <1>2 DEF Enqueue, ofWorker, ledger
    <2>3. Arms!Enqueue
      BY <2>1, <2>2 DEF Arms!Enqueue, InArm, ArmOf
    <2> QED
      BY <2>3 DEF Arms!Next
  <1>3. CASE RemoveQueued
    <2>1. UNCHANGED <<thread, stop_all, wpc, preset, rep, records>>
      BY <1>3 DEF RemoveQueued, ofWorker, ledger
    <2>2. CASE UNCHANGED queue
      BY <2>1, <2>2, ArmsStutter DEF On, InArm
    <2>3. CASE \E i \in DOMAIN queue :
                   queue' = SubSeq(queue, 1, i - 1) \o SubSeq(queue, i + 1, Len(queue))
      <3>1. Arms!Remove
        BY <2>1, <2>3 DEF Arms!Remove, InArm, ArmOf
      <3> QED
        BY <3>1 DEF Arms!Next
    <2> QED
      BY <1>3, <2>2, <2>3 DEF RemoveQueued
  <1>4. CASE StartRun
    <2>1. UNCHANGED <<queue, wpc, preset, rep, records>>
      BY <1>4 DEF StartRun, ofWorker, ledger
    <2>2. CASE thread # "running" /\ queue # <<>>
      <3>1. Arms!Start
        BY <1>1, <1>4, <2>1, <2>2 DEF StartRun, Arms!Start, InArm, ArmOf
      <3> QED
        BY <3>1 DEF Arms!Next
    <2>3. CASE ~(thread # "running" /\ queue # <<>>)
      <3>1. UNCHANGED <<thread, stop_all>>
        BY <1>4, <2>3 DEF StartRun
      <3> QED
        BY <2>1, <3>1, ArmsStutter DEF On, InArm
    <2> QED
      BY <2>2, <2>3
  <1>5. CASE PressStop \/ Destroy
    BY <1>5, RequestArms DEF PressStop, RequestStop, Destroy, ofWorker, ledger
  <1>6. CASE Confirm
    <2>1. UNCHANGED <<queue, preset, rep, records, thread, wpc>>
      BY <1>6 DEF Confirm, ofWorker, ledger
    <2>2. CASE stop_all'
      BY <2>1, <2>2, RequestArms
    <2>3. CASE UNCHANGED stop_all
      BY <2>1, <2>3, ArmsStutter DEF On, InArm
    <2> QED
      BY <1>6, <2>2, <2>3 DEF Confirm, RequestStop, RequestDetach
  <1>7. CASE AskDequeue \/ Preflight \/ PressQuit \/ CtrlC \/ JoinWorker
    <2>1. UNCHANGED <<queue, stop_all, thread, wpc, preset, rep, records>>
      BY <1>7 DEF AskDequeue, Preflight, PressQuit, CtrlC, JoinWorker, shared, ofWorker, ledger
    <2> QED
      BY <2>1, ArmsStutter DEF On, InArm
  <1>8. CASE Relaunch
    <2>1. /\ queue' = <<>> /\ records' = <<>> /\ ~On /\ ~On' /\ ~InArm /\ ~InArm' /\ preset = None
          /\ UNCHANGED <<preset, rep>>
      BY <1>1, <1>8 DEF Relaunch, On, InArm, ofWorker
    <2>2. [i \in DOMAIN records' |-> ArmOf(records'[i])] = <<>>
      BY <2>1
    <2>3. /\ InArm' = InArm
          /\ (thread' = "running" /\ ~stop_all' /\ wpc' # "finish")
             = (thread = "running" /\ ~stop_all /\ wpc # "finish")
      BY <2>1 DEF On, InArm
    <2>4. Arms!Relaunch
      BY <2>1, <2>2, <2>3, Zenon DEF Arms!Relaunch, On, ArmOf
    <2> QED
      BY <2>4 DEF Arms!Next
  <1> QED
    BY <1>2, <1>3, <1>4, <1>5, <1>6, <1>7, <1>8 DEF UiMayStep, UiFinishes

\* Every step of the run manager is a step of ArmLog or changes nothing it sees.
LEMMA NextArms ==
    ASSUME Control, [Next]_vars
    PROVE  [Arms!Next]_Arms!vars
PROOF
  <1>1. ASSUME NEW c \in DOMAIN children, ChildStep(c)
        PROVE  UNCHANGED <<queue, stop_all, thread, wpc, preset, rep, records>>
    BY <1>1, OwnStep DEF Control, shared, ofWorker, ledger
  <1>2. CASE UNCHANGED <<queue, stop_all, thread, wpc, preset, rep, records>>
    BY <1>2, ArmsStutter DEF On, InArm
  <1>3. GraceExpires \/ UNCHANGED vars =>
            UNCHANGED <<queue, stop_all, thread, wpc, preset, rep, records>>
    BY DEF GraceExpires, vars, shared, ofWorker, ledger
  <1> QED
    BY <1>1, <1>2, <1>3, WorkerArms, UiArms DEF Next

\* The worker, the UI thread and the children together run the queue as ArmLog says:
\* one arm at a time and in order, every arm that begins ends in the log, and none
\* begins after a request to stop.
THEOREM RunsTheQueue == Spec => ImplementsArmLog
PROOF
  <1>1. IInv /\ [Next]_vars => [Arms!Next]_Arms!vars
    BY NextArms DEF IInv
  <1> QED
    BY InitArms, Inductive, <1>1, PTL DEF Spec, ImplementsArmLog, Arms!Spec

=============================================================================
