--------------------------- MODULE LiveRun_proofs ---------------------------
(***************************************************************************)
(* What the callers of run_live rely on, for every number of lines, size   *)
(* of the pipes and number of interrupts. That the call ends is a matter   *)
(* of fairness and is model-checked.                                       *)
(***************************************************************************)
EXTENDS LiveRun, TLAPS

USE LiveRunAssumption

Counts == [Streams -> Nat]

\* TypeOK speaks of the elements of these functions.
CountTypes == planned \in Counts /\ written \in Counts /\ parts \in Counts /\ result \in Counts

\* How far the child is: a process that completed has written all its lines,
\* and a return code is known of a reaped one only.
ChildInv ==
    /\ child \in {"zombie", "reaped"} => ended # "not"
    /\ ended = "ok" => child # "running" /\ written = planned
    /\ child = "none" <=> main = "popen"
    /\ main = "popen" => ended = "not"
    /\ rc # "unset" => child = "reaped"
    /\ rc = "ok" => ended = "ok"

\* A thread ends when nobody can write to its pipe and it has read all of it.
DrainInv ==
    \A s \in Streams : drain[s] = "eof" => PipeClosed /\ parts[s] = written[s]

\* The joins follow the end of the child; a thread that was joined has ended.
JoinInv ==
    /\ main \in {"join_out", "join_err", "returned"} => child = "reaped"
    /\ main = "join_err" => "out" \in late \/ drain["out"] = "eof"
    /\ main = "returned" =>
        \A s \in Streams \ late : drain[s] = "eof" /\ result[s] = parts[s]

Inv == TypeOK /\ CountTypes /\ ChildInv /\ DrainInv /\ JoinInv /\ ChildNotLeft

\* The invariant gives the property: the lines of a joined thread are those of
\* its stream.
LEMMA InvImpliesNothingLost == Inv => NothingLost
PROOF
  BY DEF Inv, NothingLost, CountTypes, Counts, ChildInv, DrainInv, JoinInv

\* Before the child is started.
LEMMA InvInit == Init => Inv
PROOF
  <1> SUFFICES ASSUME Init PROVE Inv
    OBVIOUS
  <1>1. TypeOK
    <2>1. ASSUME NEW s \in Streams
          PROVE  /\ parts[s] \in 0 .. written[s] /\ written[s] \in 0 .. planned[s]
                 /\ written[s] - parts[s] <= PipeSize /\ result[s] \in 0 .. parts[s]
      BY DEF Init
    <2>2. drain \in [Streams -> {"new", "reading", "eof"}] /\ late \in SUBSET Streams
      BY DEF Init
    <2>3. planned \in [Streams -> 0 .. MaxLines] /\ interrupts \in 0 .. MaxInterrupts
      BY DEF Init
    <2>4. \A s \in Streams :
              /\ parts[s] \in 0 .. written[s] /\ written[s] \in 0 .. planned[s]
              /\ written[s] - parts[s] <= PipeSize /\ result[s] \in 0 .. parts[s]
      BY <2>1
    <2>5. /\ main = "popen" /\ signal = "none" /\ rc = "unset" /\ child = "none" /\ ended = "not"
          /\ holder = FALSE /\ hangs \in BOOLEAN /\ abandoned = "no"
      BY DEF Init
    <2> QED
      BY <2>2, <2>3, <2>4, <2>5 DEF TypeOK
  <1>2. CountTypes
    BY DEF Init, CountTypes, Counts
  <1> QED
    BY <1>1, <1>2 DEF Init, Inv, ChildInv, DrainInv, JoinInv, ChildNotLeft, Finished, Streams

------------------------------------------------------------------------------
(* The steps of the caller's thread. *)

\* Popen and the start of the threads (common.py:137-156).
LEMMA StartingKeeps ==
    ASSUME Inv, Popen \/ EnterTry \/ \E s \in Streams : StartDrain(s)
    PROVE  Inv'
PROOF
  <1>1. CASE Popen
    BY <1>1 DEF Inv, TypeOK, CountTypes, Counts, ChildInv, DrainInv, JoinInv,
       ChildNotLeft, PipeClosed, Popen, Goto, drainVars, Finished
  <1>2. CASE EnterTry
    BY <1>2 DEF Inv, TypeOK, CountTypes, ChildInv, DrainInv, JoinInv,
       ChildNotLeft, PipeClosed, EnterTry, Goto, procVars, drainVars, Finished
  <1>3. ASSUME NEW s \in Streams, StartDrain(s) PROVE Inv'
    <2>1. drain' \in [Streams -> {"new", "reading", "eof"}]
      BY <1>3 DEF Inv, TypeOK, StartDrain
    <2>2. \A x \in Streams : drain'[x] = "eof" => drain[x] = "eof"
      BY <1>3 DEF Inv, TypeOK, StartDrain
    <2> QED
      BY <1>3, <2>1, <2>2 DEF Inv, TypeOK, CountTypes, Counts, ChildInv, DrainInv, JoinInv,
         ChildNotLeft, PipeClosed, StartDrain, Goto, procVars, Finished
  <1> QED
    BY <1>1, <1>2, <1>3

\* The wait for the child, its timeout and Ctrl+C (common.py:157-166).
LEMMA WaitingKeeps ==
    ASSUME Inv, WaitReturns \/ WaitExpires \/ Interrupt
    PROVE  Inv'
PROOF
  <1>1. CASE WaitReturns
    BY <1>1 DEF Inv, TypeOK, CountTypes, Counts, ChildInv, DrainInv, JoinInv,
       ChildNotLeft, PipeClosed, WaitReturns, Reap, drainVars, Finished
  <1>2. CASE WaitExpires
    BY <1>2 DEF Inv, TypeOK, CountTypes, Counts, ChildInv, DrainInv, JoinInv,
       ChildNotLeft, PipeClosed, WaitExpires, SendTerm, procVars, drainVars, Finished
  <1>3. CASE Interrupt
    BY <1>3 DEF Inv, TypeOK, CountTypes, Counts, ChildInv, DrainInv, JoinInv,
       ChildNotLeft, PipeClosed, Interrupt, SendTerm, procVars, drainVars, Finished, Protected,
       Joining
  <1> QED
    BY <1>1, <1>2, <1>3

\* terminate_child (common.py:117-124).
LEMMA TerminatingKeeps ==
    ASSUME Inv, NEW c \in Callers, TermReaps(c) \/ TermExpires(c) \/ KillExpires(c)
    PROVE  Inv'
PROOF
  <1>1. CASE TermReaps(c)
    BY <1>1 DEF Inv, TypeOK, CountTypes, Counts, ChildInv, DrainInv, JoinInv,
       ChildNotLeft, PipeClosed, TermReaps, Terminated, Reap, drainVars, Finished, Callers
  <1>2. CASE TermExpires(c)
    BY <1>2 DEF Inv, TypeOK, CountTypes, Counts, ChildInv, DrainInv, JoinInv,
       ChildNotLeft, PipeClosed, TermExpires, procVars, drainVars, Finished
  <1>3. CASE KillExpires(c)
    BY <1>3 DEF Inv, TypeOK, CountTypes, Counts, ChildInv, DrainInv, JoinInv,
       ChildNotLeft, PipeClosed, KillExpires, procVars, drainVars, Finished, Callers
  <1> QED
    BY <1>1, <1>2, <1>3

\* The joins and the dict that is returned (common.py:167-172).
LEMMA JoiningKeeps ==
    ASSUME Inv, NEW s \in Streams, Joined(s) \/ JoinExpires(s)
    PROVE  Inv'
PROOF
  <1>1. PICK expired \in BOOLEAN : Join(s, expired) /\ (expired \/ drain[s] = "eof")
    BY DEF Joined, JoinExpires
  <1>2. TypeOK'
    BY <1>1 DEF Inv, TypeOK, CountTypes, Counts, Join, procVars, drainVars, Finished, Streams
  <1>3. CountTypes' /\ ChildInv' /\ DrainInv' /\ ChildNotLeft'
    BY <1>1 DEF Inv, CountTypes, ChildInv, DrainInv, JoinInv,
       ChildNotLeft, PipeClosed, Join, procVars, drainVars, Finished
  <1>4. JoinInv'
    BY <1>1 DEF Inv, TypeOK, JoinInv, Join, procVars, drainVars, Streams
  <1> QED
    BY <1>2, <1>3, <1>4 DEF Inv

------------------------------------------------------------------------------
(* The steps of the child and of the threads. *)

\* The ends of the child and of a process it started.
LEMMA ChildKeeps ==
    ASSUME Inv, ChildCompletes \/ ChildFails \/ HolderEnds
    PROVE  Inv'
PROOF
  <1>1. CASE ChildCompletes
    BY <1>1 DEF Inv, TypeOK, CountTypes, ChildInv, DrainInv, JoinInv,
       ChildNotLeft, PipeClosed, ChildCompletes, ChildEnds, drainVars, mainVars, Finished
  <1>2. CASE ChildFails
    BY <1>2 DEF Inv, TypeOK, CountTypes, ChildInv, DrainInv, JoinInv,
       ChildNotLeft, PipeClosed, ChildFails, ChildEnds, drainVars, mainVars, Finished
  <1>3. CASE HolderEnds
    <2>1. /\ holder /\ holder' \in BOOLEAN
          /\ UNCHANGED <<child, ended, hangs, planned, written, drain, parts, mainVars>>
      BY <1>3 DEF HolderEnds, drainVars
    <2>2. TypeOK' /\ CountTypes' /\ ChildInv' /\ JoinInv' /\ ChildNotLeft'
      BY <2>1 DEF Inv, TypeOK, CountTypes, ChildInv, JoinInv, ChildNotLeft, mainVars, Finished
    <2>3. DrainInv'
      BY <2>1 DEF Inv, DrainInv, PipeClosed
    <2> QED
      BY <2>2, <2>3 DEF Inv
  <1> QED
    BY <1>1, <1>2, <1>3

\* A line written to a pipe that has room.
LEMMA ChildWritesKeeps ==
    ASSUME Inv, NEW s \in Streams, ChildWrites(s)
    PROVE  Inv'
PROOF
  <1>1. /\ written' \in Counts /\ written'[s] = written[s] + 1
        /\ \A x \in Streams \ {s} : written'[x] = written[x]
    BY DEF Inv, CountTypes, Counts, ChildWrites
  <1>2. /\ child = "running" /\ written[s] < planned[s] /\ written[s] - parts[s] < PipeSize
        /\ UNCHANGED <<child, ended, hangs, planned, holder, drain, parts, mainVars>>
    BY DEF ChildWrites, drainVars
  <1>3. \A x \in Streams : /\ planned[x] \in Nat /\ written[x] \in Nat /\ parts[x] \in Nat
                           /\ result[x] \in Nat
    BY DEF Inv, CountTypes, Counts
  <1>4. ASSUME NEW x \in Streams
        PROVE  /\ parts'[x] \in 0 .. written'[x] /\ written'[x] \in 0 .. planned'[x]
               /\ written'[x] - parts'[x] <= PipeSize /\ result'[x] \in 0 .. parts'[x]
    <2>1. CASE x = s
      BY <1>1, <1>2, <1>3, <2>1 DEF Inv, TypeOK, mainVars
    <2>2. CASE x # s
      BY <1>1, <1>2, <1>3, <2>2 DEF Inv, TypeOK, mainVars
    <2> QED
      BY <2>1, <2>2
  <1>5. TypeOK'
    BY <1>2, <1>4 DEF Inv, TypeOK, mainVars
  <1> QED
    BY <1>1, <1>2, <1>5 DEF Inv, CountTypes, ChildInv, DrainInv, JoinInv,
       ChildNotLeft, PipeClosed, mainVars, Finished

\* A line read from a pipe, and its end (common.py:143-147).
LEMMA DrainKeeps ==
    ASSUME Inv, NEW s \in Streams, DrainLine(s) \/ DrainEnds(s)
    PROVE  Inv'
PROOF
  <1>1. CASE DrainLine(s)
    <2>1. /\ parts' \in Counts /\ parts'[s] = parts[s] + 1
          /\ \A x \in Streams \ {s} : parts'[x] = parts[x]
      BY <1>1 DEF Inv, CountTypes, Counts, DrainLine
    <2>2. drain[s] = "reading" /\ parts[s] < written[s] /\ UNCHANGED <<drain, procVars, mainVars>>
      BY <1>1 DEF DrainLine
    <2>3. \A x \in Streams : /\ planned[x] \in Nat /\ written[x] \in Nat /\ parts[x] \in Nat
                             /\ result[x] \in Nat
      BY DEF Inv, CountTypes, Counts
    <2>4. ASSUME NEW x \in Streams
          PROVE  /\ parts'[x] \in 0 .. written'[x] /\ written'[x] \in 0 .. planned'[x]
                 /\ written'[x] - parts'[x] <= PipeSize /\ result'[x] \in 0 .. parts'[x]
      <3>1. CASE x = s
        BY <2>1, <2>2, <2>3, <3>1 DEF Inv, TypeOK, procVars, mainVars
      <3>2. CASE x # s
        BY <2>1, <2>2, <2>3, <3>2 DEF Inv, TypeOK, procVars, mainVars
      <3> QED
        BY <3>1, <3>2
    <2>5. TypeOK'
      BY <2>2, <2>4 DEF Inv, TypeOK, procVars, mainVars
    <2>6. \A x \in Streams : drain[x] = "eof" => parts'[x] = parts[x]
      BY <2>1, <2>2
    <2> QED
      BY <2>1, <2>2, <2>5, <2>6 DEF Inv, CountTypes, ChildInv, DrainInv, JoinInv, ChildNotLeft,
         PipeClosed, procVars, mainVars, Finished
  <1>2. CASE DrainEnds(s)
    <2>1. /\ drain' \in [Streams -> {"new", "reading", "eof"}]
          /\ drain'[s] = "eof" /\ \A x \in Streams \ {s} : drain'[x] = drain[x]
      BY <1>2 DEF Inv, TypeOK, DrainEnds
    <2>2. PipeClosed /\ parts[s] = written[s] /\ UNCHANGED <<parts, procVars, mainVars>>
      BY <1>2 DEF DrainEnds
    <2> QED
      BY <2>1, <2>2 DEF Inv, TypeOK, CountTypes, ChildInv, DrainInv, JoinInv, ChildNotLeft,
         PipeClosed, procVars, mainVars, Finished, Streams
  <1> QED
    BY <1>1, <1>2

------------------------------------------------------------------------------
(* The theorems. *)

\* The invariant holds throughout.
LEMMA InvHolds == Spec => []Inv
PROOF
  <1>1. Inv /\ [Next]_vars => Inv'
    <2> SUFFICES ASSUME Inv, [Next]_vars PROVE Inv'
      OBVIOUS
    <2>1. CASE UNCHANGED vars
      BY <2>1 DEF Inv, TypeOK, CountTypes, ChildInv, DrainInv, JoinInv,
       ChildNotLeft, PipeClosed,   vars, procVars, drainVars, mainVars
    <2>2. CASE Next
      BY <2>2, StartingKeeps, WaitingKeeps, TerminatingKeeps, JoiningKeeps, ChildKeeps,
         ChildWritesKeeps, DrainKeeps DEF Next, Main, Clock
    <2> QED
      BY <2>1, <2>2
  <1> QED
    BY <1>1, InvInit, PTL DEF Spec

\* The threads and the caller never leave their states, and no pipe holds more
\* than it can.
THEOREM LiveRunTypes == Spec => []TypeOK
PROOF
  <1>1. Inv => TypeOK
    BY DEF Inv
  <1> QED
    BY <1>1, InvHolds, PTL

\* A call that returns has all lines of every stream whose thread was joined,
\* for any number of lines and any size of the pipes (common.py:143-172).
THEOREM LinesKept == Spec => []NothingLost
PROOF
  BY InvHolds, InvImpliesNothingLost, PTL

\* A call that ends leaves no child behind but in the three ways ChildNotLeft
\* names, however often Ctrl+C is pressed (common.py:117-124, 152-166).
THEOREM ChildGone == Spec => []ChildNotLeft
PROOF
  <1>1. Inv => ChildNotLeft
    BY DEF Inv
  <1> QED
    BY <1>1, InvHolds, PTL
=============================================================================
