--------------------------- MODULE Analysis_proofs ---------------------------
(***************************************************************************)
(* What an analysis writes when Ctrl+C strikes: the accumulators have the  *)
(* files of the list, and of the one that was being added at most a part.  *)
(* Proved for any traces, torn or not, and any lists of capacities.        *)
(***************************************************************************)
EXTENDS Analysis, TLAPS, SequenceTheorems

\* The files that are in all accumulators: those before the current one, and
\* that one when it has been added to the last.
Finished == IF pc = "print" THEN 1 .. file ELSE 1 .. file - 1

TypeInv ==
    /\ script \in {"locality", "prefetch", "predictability"}
    /\ traces \in Seq(ToSet(traces))
    /\ pc \in {"load", "add", "print", "exited"}
    /\ file \in 1 .. Len(traces) + 1
    /\ added \in 0 .. Len(Accumulators)
    /\ acc \in [DOMAIN Accumulators -> SUBSET (1 .. Len(traces))]

\* While a file is added the accumulators up to `added` have it and the others
\* do not; the list has the finished files.
AddingInv ==
    /\ pc \in {"add", "print"} => file <= Len(traces)
    /\ pc = "print" => added = Len(Accumulators)
    /\ pc # "exited" =>
        /\ processed = Finished
        /\ \A n \in DOMAIN acc :
            acc[n] = IF pc \in {"add", "print"} /\ n <= added THEN 1 .. file ELSE 1 .. file - 1

IInv ==
    /\ TypeInv /\ AddingInv
    /\ out.status # "none" => pc = "exited"
    /\ PartialWithinOneFile

------------------------------------------------------------------------------
(* The accumulators are a list. *)

\* Every script has a list of accumulators that depends on the script only.
LEMMA AccumulatorList ==
    ASSUME script \in {"locality", "prefetch", "predictability"}
    PROVE  Len(Accumulators) \in Nat /\ DOMAIN Accumulators = 1 .. Len(Accumulators)
PROOF
  <1>1. CASE script = "locality"
    BY <1>1 DEF Accumulators
  <1>2. ASSUME NEW list, NEW parts \in Nat, Len(list) \in Nat
        PROVE  /\ Len(PartsOf(list, parts)) \in Nat
               /\ DOMAIN PartsOf(list, parts) = 1 .. Len(PartsOf(list, parts))
    <2> DEFINE n == parts * Len(list)
    <2>1. n \in Nat
      BY <1>2, SMT
    <2>2. DOMAIN PartsOf(list, parts) = 1 .. n
          /\ PartsOf(list, parts) = [i \in 1 .. n |-> PartsOf(list, parts)[i]]
      BY DEF PartsOf
    <2> HIDE DEF n
    <2> DEFINE f == PartsOf(list, parts)
    <2> HIDE DEF f
    <2>3. f \in [1 .. n -> {f[i] : i \in 1 .. n}]
      BY <2>2 DEF f
    <2>4. f \in Seq({f[i] : i \in 1 .. n}) /\ Len(f) = n
      BY <2>1, <2>3
    <2> QED
      BY <2>1, <2>2, <2>4 DEF f
  <1>3. CASE script = "prefetch"
    <2>1. Len(Capacities) \in Nat
      BY AnalysisAssumption
    <2>2. Accumulators = PartsOf(Capacities, 2)
      BY <1>3 DEF Accumulators
    <2> QED
      BY <1>2, <2>1, <2>2
  <1>4. CASE script = "predictability"
    <2>1. Len(Predictors) \in Nat
      BY DEF Predictors
    <2>2. Accumulators = PartsOf(Predictors, 3)
      BY <1>4 DEF Accumulators
    <2> QED
      BY <1>2, <2>1, <2>2
  <1> QED
    BY <1>1, <1>3, <1>4

\* The initial state: nothing is loaded, added or written.
LEMMA InitInv == Init => IInv
PROOF
  <1> SUFFICES ASSUME Init PROVE IInv
    OBVIOUS
  <1>1. Len(Accumulators) \in Nat /\ traces \in Seq(ToSet(traces)) /\ Len(traces) \in Nat
    BY AccumulatorList, AnalysisAssumption DEF Init
  <1>2. TypeInv
    BY <1>1 DEF Init, TypeInv
  <1>3. AddingInv
    BY <1>1 DEF Init, AddingInv, Finished
  <1> QED
    BY <1>2, <1>3 DEF Init, IInv, NoFile, PartialWithinOneFile

\* What a payload has to be true of, when it is written.
LEMMA PayloadWithinOneFile ==
    ASSUME IInv, NEW status, NEW listed, WritePayload(status, listed), pc # "exited",
           listed = processed \/ (listed = DOMAIN traces /\ pc = "load" /\ file > Len(traces)),
           status = "complete" => pc = "load" /\ file > Len(traces)
    PROVE  IInv'
PROOF
  <1>1. /\ out' = [status |-> status, traces |-> listed, acc |-> acc] /\ pc' = "exited"
        /\ UNCHANGED <<script, traces, file, added, acc, processed>>
    BY DEF WritePayload
  <1>2. Len(traces) \in Nat /\ DOMAIN traces = 1 .. Len(traces) /\ file \in 1 .. Len(traces) + 1
    BY DEF IInv, TypeInv
  <1>3. listed = Finished
    BY <1>2 DEF IInv, AddingInv, Finished
  <1>4. TypeInv' /\ AddingInv'
    BY <1>1 DEF IInv, TypeInv, AddingInv, Accumulators
  <1>5. \A n \in DOMAIN acc :
            acc[n] = IF pc \in {"add", "print"} /\ n <= added THEN 1 .. file ELSE 1 .. file - 1
    BY DEF IInv, AddingInv
  <1>6. PartialWithinOneFile'
    <2>1. ASSUME NEW n \in DOMAIN acc
          PROVE  listed \subseteq acc[n] /\ acc[n] \ listed \subseteq {file}
      <3>1. CASE pc = "print"
        <4>1. added = Len(Accumulators) /\ n \in 1 .. Len(Accumulators)
          BY <2>1, <3>1, AccumulatorList DEF IInv, AddingInv, TypeInv
        <4>2. acc[n] = 1 .. file
          BY <1>5, <3>1, <4>1, AccumulatorList DEF IInv, TypeInv
        <4> QED
          BY <1>3, <3>1, <4>2 DEF Finished
      <3>2. CASE pc # "print"
        <4>1. listed = 1 .. file - 1 /\ acc[n] \in {1 .. file, 1 .. file - 1}
          BY <1>3, <1>5, <3>2 DEF Finished
        <4> QED
          BY <1>2, <4>1
      <3> QED
        BY <3>1, <3>2
    <2>2. ASSUME status = "complete" PROVE \A n \in DOMAIN acc : acc[n] = DOMAIN traces
      <3>1. pc = "load" /\ file = Len(traces) + 1
        BY <1>2, <2>2
      <3>2. \A n \in DOMAIN acc : acc[n] = 1 .. file - 1
        BY <1>5, <3>1
      <3> QED
        BY <1>2, <3>1, <3>2
    <2> QED
      BY <1>1, <2>1, <2>2 DEF PartialWithinOneFile
  <1> QED
    BY <1>1, <1>4, <1>6 DEF IInv

\* Adding the next file, an accumulator after the other.
LEMMA AddStep == IInv /\ Add => IInv'
PROOF
  <1> SUFFICES ASSUME IInv, Add PROVE IInv'
    OBVIOUS
  <1> USE DEF Add
  <1>1. Accumulators' = Accumulators /\ Finished' = Finished
    BY DEF Accumulators, Finished
  <1>2. /\ Len(traces) \in Nat /\ file \in 1 .. Len(traces) /\ added + 1 \in DOMAIN acc
        /\ DOMAIN acc = 1 .. Len(Accumulators) /\ added \in 0 .. Len(Accumulators)
    BY AccumulatorList DEF IInv, TypeInv, AddingInv
  <1>3. acc[added + 1] = 1 .. file - 1
    BY <1>2 DEF IInv, AddingInv
  <1>4. acc[added + 1] \cup {file} = 1 .. file
    BY <1>2, <1>3
  <1>5. acc' = [acc EXCEPT ![added + 1] = 1 .. file]
    BY <1>4
  <1>6. TypeInv'
    BY <1>1, <1>2, <1>5 DEF IInv, TypeInv
  <1>7. AddingInv'
    <2>1. \A n \in DOMAIN acc : acc[n] = IF n <= added THEN 1 .. file ELSE 1 .. file - 1
      BY DEF IInv, AddingInv
    <2>2. ASSUME NEW n \in DOMAIN acc
          PROVE  acc'[n] = IF n <= added + 1 THEN 1 .. file ELSE 1 .. file - 1
      <3>1. n \in Nat /\ added \in Nat
        BY <1>2, <2>2
      <3>2. CASE n = added + 1
        BY <1>2, <1>5, <3>1, <3>2
      <3>3. CASE n # added + 1
        <4>1. acc'[n] = acc[n]
          BY <1>5, <2>2, <3>3
        <4>2. n <= added + 1 <=> n <= added
          BY <3>1, <3>3
        <4> QED
          BY <2>1, <2>2, <4>1, <4>2
      <3> QED
        BY <3>2, <3>3
    <2>3. DOMAIN acc' = DOMAIN acc
      BY <1>5
    <2> QED
      BY <1>1, <2>2, <2>3 DEF IInv, AddingInv
  <1> QED
    BY <1>6, <1>7 DEF IInv, PartialWithinOneFile

\* No step adds more than the current file, and what is written is within it.
LEMMA InvStep == IInv /\ [Next]_vars => IInv'
PROOF
  <1> SUFFICES ASSUME IInv, [Next]_vars PROVE IInv'
    OBVIOUS
  <1>1. Len(traces) \in Nat /\ file \in 1 .. Len(traces) + 1
        /\ DOMAIN acc = 1 .. Len(Accumulators) /\ Len(Accumulators) \in Nat
        /\ added \in 0 .. Len(Accumulators)
    BY AccumulatorList DEF IInv, TypeInv
  <1>2. CASE Load
    <2>1. Accumulators' = Accumulators /\ Finished' = Finished
      BY <1>2 DEF Load, Accumulators, Finished
    <2>2. TypeInv'
      BY <1>1, <1>2, <2>1 DEF IInv, TypeInv, Load
    <2>3. AddingInv'
      BY <1>1, <1>2, <2>1 DEF IInv, AddingInv, Load
    <2> QED
      BY <1>2, <2>2, <2>3 DEF IInv, PartialWithinOneFile, Load
  <1>3. CASE LoadRaises
    <2>1. Accumulators' = Accumulators
      BY <1>3 DEF LoadRaises, Accumulators
    <2> QED
      BY <1>3, <2>1 DEF IInv, TypeInv, AddingInv, PartialWithinOneFile, LoadRaises
  <1>4. CASE Add
    BY <1>4, AddStep
  <1>5. CASE Processed
    <2>1. Accumulators' = Accumulators /\ Finished' = 1 .. file
      BY <1>5 DEF Processed, Accumulators, Finished
    <2>2. file <= Len(traces) /\ processed = 1 .. file - 1
      BY <1>5 DEF Processed, IInv, AddingInv, Finished
    <2>3. processed' = 1 .. file
      BY <1>1, <1>5, <2>2 DEF Processed
    <2>4. TypeInv'
      BY <1>5, <2>1 DEF IInv, TypeInv, Processed
    <2>5. AddingInv'
      BY <1>1, <1>5, <2>1, <2>2, <2>3 DEF IInv, AddingInv, Processed
    <2> QED
      BY <1>5, <2>4, <2>5 DEF IInv, PartialWithinOneFile, Processed
  <1>6. CASE PrintLine
    <2> USE <1>6 DEF PrintLine
    <2>1. Accumulators' = Accumulators
      BY DEF Accumulators
    <2>2. /\ pc = "print" /\ file <= Len(traces) /\ processed = 1 .. file
          /\ \A n \in DOMAIN acc : acc[n] = 1 .. file
      BY <1>1 DEF IInv, AddingInv, Finished
    <2>3. TypeInv'
      BY <1>1, <2>1, <2>2 DEF IInv, TypeInv
    <2>4. CASE Unprintable
      BY <2>3, <2>4 DEF IInv, AddingInv, PartialWithinOneFile
    <2>5. CASE ~Unprintable
      <3>1. pc' = "load" /\ file' = file + 1 /\ file' - 1 = file
        BY <1>1, <2>5
      <3>2. AddingInv'
        BY <2>2, <3>1 DEF AddingInv, Finished
      <3> QED
        BY <2>3, <3>1, <3>2 DEF IInv, PartialWithinOneFile
    <2> QED
      BY <2>4, <2>5
  <1>7. CASE Complete
    BY <1>7, PayloadWithinOneFile DEF Complete
  <1>8. CASE Interrupt
    <2>1. pc # "exited" /\ WritePayload("interrupted", processed)
      BY <1>8 DEF Interrupt
    <2>2. "interrupted" # "complete"
      OBVIOUS
    <2> QED
      BY <2>1, <2>2, PayloadWithinOneFile
  <1>9. CASE InterruptAgain
    <2> USE <1>9 DEF InterruptAgain
    <2>1. Accumulators' = Accumulators
      BY DEF Accumulators
    <2>2. TypeInv' /\ AddingInv'
      BY <2>1 DEF IInv, TypeInv, AddingInv
    <2>3. CASE out' = out
      BY <2>2, <2>3 DEF IInv, PartialWithinOneFile
    <2>4. CASE out' = TornFile
      BY <2>2, <2>4 DEF IInv, PartialWithinOneFile, TornFile, NoFile
    <2> QED
      BY <2>3, <2>4
  <1>10. CASE UNCHANGED vars
    <2>1. Accumulators' = Accumulators /\ Finished' = Finished
      BY <1>10 DEF vars, Accumulators, Finished
    <2> QED
      BY <1>10, <2>1 DEF IInv, TypeInv, AddingInv, PartialWithinOneFile, vars
  <1> QED
    BY <1>2, <1>3, <1>4, <1>5, <1>6, <1>7, <1>8, <1>9, <1>10 DEF Next

\* What Ctrl+C leaves of an analysis (analyze_locality.py, prefetch_simulation.py,
\* analyze_predictability.py): in every accumulator the files of the list, and of
\* the others at most the one that was being added; in a complete payload all.
THEOREM PartialAggregates == Spec => []PartialWithinOneFile
PROOF
  <1>1. IInv => PartialWithinOneFile
    BY DEF IInv
  <1> QED
    BY <1>1, InitInv, InvStep, PTL DEF Spec
=============================================================================
