--------------------------- MODULE MoeCache_proofs ---------------------------
(***************************************************************************)
(* The safety properties of MoeCache, for every number of experts, slots,  *)
(* experts per token, tokens per call and requests.  What makes the        *)
(* invariant inductive is PinnedSlots (the experts resolved so far for a   *)
(* token sit at the front of the LRU list, so none of them is the next     *)
(* victim) and StreamHolds (what each slot will contain when the stream    *)
(* gets to a given operation).                                             *)
(***************************************************************************)
EXTENDS MoeCache, SequenceTheorems, TLAPS

(* The slots resolved for the current token still hold its experts, and     *)
(* occupy the first positions of the LRU list.                              *)
PinnedSlots ==
    \A k \in 1 .. Len(slot_ids_host) :
        /\ slot_expert[slot_ids_host[k]] = Head(batch)[k]
        /\ \E p \in 1 .. Len(slot_ids_host) : p <= Cap /\ lru[p] = slot_ids_host[k]

(* A call that resolves tokens passed the assertion on the number of slots. *)
FitsInSlots == phase \in {"tokens", "sync"} => n_used <= Cap

(* Slot s holds x once the first i - 1 operations of ops have run on mem.   *)
Writes(o, s) == o.op = "fetch" /\ o.slot = s
Holds(mem, ops, i, s, x) ==
    \/ mem[s] = x /\ \A j \in 1 .. i - 1 : ~Writes(ops[j], s)
    \/ \E j \in 1 .. i - 1 : /\ Writes(ops[j], s)
                             /\ ops[j].expert = x
                             /\ \A k \in j + 1 .. i - 1 : ~Writes(ops[k], s)

(* The maps of the host describe the slots as they will be when the stream  *)
(* has run everything enqueued so far.                                      *)
SlotsWillHold ==
    \A s \in Slots : Holds(vram, stream, Len(stream) + 1, s, slot_expert[s])

(* The ids buffer as the i-th operation finds it, when an upload precedes.  *)
IdsAt(i) == IF i = 1 THEN slot_ids_dev ELSE stream[i - 1].slots

(* Every kernel of the stream will find its token's experts in the slots    *)
(* its ids name.                                                            *)
KernelsWillRead ==
    \A i \in 1 .. Len(stream) : stream[i].op = "kernel" =>
        /\ i > 1 => stream[i - 1].op = "upload"
        /\ \A k \in 1 .. n_used :
             /\ IdsAt(i)[k] \in Slots
             /\ Holds(vram, stream, i, IdsAt(i)[k], stream[i].token[k])

StreamHolds == SlotsWillHold /\ KernelsWillRead

IInv ==
    /\ TypeOK
    /\ CacheConsistent
    /\ ExactLru
    /\ FitsInSlots
    /\ PinnedSlots
    /\ StreamHolds
    /\ KernelReadsRequested

-----------------------------------------------------------------------------
(* The LRU list under MoveToFront.                                          *)

(* Where the slot at position i of the new list was in the old one.         *)
Source(p, i) == IF i = 1 THEN p ELSE IF i <= p THEN i - 1 ELSE i

(* A slot of the list has a position, which PositionOf finds.               *)
LEMMA PositionOfSlot ==
  ASSUME LruPermutation, NEW s \in Slots
  PROVE  PositionOf(s) \in 1 .. Cap /\ lru[PositionOf(s)] = s
  BY DEF LruPermutation, PositionOf

(* Two positions of the list never hold the same slot.                      *)
LEMMA ListInjective ==
  ASSUME lru \in [1 .. Cap -> Slots], LruPermutation,
         NEW i \in 1 .. Cap, NEW j \in 1 .. Cap, lru[i] = lru[j]
  PROVE  i = j
<1>1. lru[i] \in Slots
  OBVIOUS
<1> QED BY <1>1 DEF LruPermutation

(* Moving a slot to the front reorders the list and changes nothing else.   *)
LEMMA MoveToFrontSource ==
  ASSUME lru \in [1 .. Cap -> Slots], NEW p \in 1 .. Cap, NEW i \in 1 .. Cap
  PROVE  /\ Source(p, i) \in 1 .. Cap
         /\ MoveToFront(p)[i] = lru[Source(p, i)]
  BY CacheAssumption DEF MoveToFront, Source, CacheAssumption

(* Moving a slot to the front gives a list of slots.                        *)
LEMMA MoveToFrontType ==
  ASSUME lru \in [1 .. Cap -> Slots], NEW p \in 1 .. Cap
  PROVE  MoveToFront(p) \in [1 .. Cap -> Slots]
  BY CacheAssumption DEF MoveToFront, CacheAssumption

(* Erasing a slot and pushing it to the front keeps every slot in the list  *)
(* exactly once.                                                            *)
LEMMA MoveToFrontPermutes ==
  ASSUME lru \in [1 .. Cap -> Slots], LruPermutation, NEW p \in 1 .. Cap,
         lru' = MoveToFront(p)
  PROVE  LruPermutation'
<1> USE CacheAssumption DEF CacheAssumption
<1> SUFFICES ASSUME NEW s \in Slots
             PROVE  \E q \in 1 .. Cap :
                       lru'[q] = s /\ \A r \in 1 .. Cap : lru'[r] = s => r = q
  BY DEF LruPermutation, Slots
<1>1. PICK o \in 1 .. Cap : lru[o] = s
  BY DEF LruPermutation
<1> DEFINE q == IF o = p THEN 1 ELSE IF o < p THEN o + 1 ELSE o
<1>2. q \in 1 .. Cap /\ Source(p, q) = o
  BY DEF Source
<1> HIDE DEF q
<1>3. lru'[q] = s
  <2>1. MoveToFront(p)[q] = lru[Source(p, q)]
    BY <1>2, MoveToFrontSource
  <2> QED BY <1>1, <1>2, <2>1
<1>4. ASSUME NEW r \in 1 .. Cap, lru'[r] = s
      PROVE  r = q
  <2> USE DEF q
  <2>1. Source(p, r) \in 1 .. Cap /\ lru[Source(p, r)] = lru[o]
    BY <1>1, <1>4, MoveToFrontSource
  <2>2. Source(p, r) = o
    BY <2>1, ListInjective
  <2> QED BY <2>2 DEF Source
<1> QED BY <1>2, <1>3, <1>4

-----------------------------------------------------------------------------
(* Type correctness, one lemma for the actions and one for the steps of     *)
(* moe_cache_resolve.                                                       *)

(* The expert requested by a token is an expert.                            *)
LEMMA RequestedType ==
  ASSUME TypeOK, phase = "tokens", Len(slot_ids_host) < n_used
  PROVE  Requested \in Experts
<1>1. batch # <<>> /\ Head(batch) \in [1 .. n_used -> Experts]
  BY DEF TypeOK
<1>2. Len(slot_ids_host) + 1 \in 1 .. n_used
  BY CacheAssumption DEF TypeOK, CacheAssumption
<1> QED BY <1>1, <1>2 DEF Requested

(* What a hit and a miss have in common: the slot at some position p of the *)
(* list moves to the front, holds the expert and is appended to the ids.    *)
Served(e, p) ==
    /\ lru' = MoveToFront(p)
    /\ slot_ids_host' = Append(slot_ids_host, lru[p])
    /\ slot_expert' = [slot_expert EXCEPT ![lru[p]] = e]
    /\ expert_slot'[e] = lru[p]
    /\ hits' \in Nat /\ misses' \in Nat /\ hits' + misses' = Now
    /\ \/ /\ UNCHANGED <<expert_slot, slot_expert, stream>>
          /\ expert_slot[e] = lru[p]
       \/ /\ p = Cap
          /\ expert_slot[e] = NoSlot
          /\ stream' = Append(stream, Fetch(lru[p], e))
          /\ expert_slot' = [x \in Experts |->
                                IF x = e THEN lru[p]
                                ELSE IF x = slot_expert[lru[p]] THEN NoSlot
                                ELSE expert_slot[x]]

(* Each request is served by a slot of the list.                            *)
LEMMA ResolveServes ==
  ASSUME TypeOK, CacheConsistent, Resolve
  PROVE  /\ Requested \in Experts
         /\ \E p \in 1 .. Cap : Served(Requested, p)
<1> USE CacheAssumption DEF CacheAssumption
<1> DEFINE e == Requested
<1>1. e \in Experts
  BY RequestedType DEF Resolve
<1>2. CASE Hit(e)
  <2> DEFINE p == PositionOf(expert_slot[e])
  <2>1. expert_slot[e] \in Slots
    BY <1>1, <1>2 DEF Hit, TypeOK
  <2>2. p \in 1 .. Cap /\ lru[p] = expert_slot[e]
    BY <2>1, PositionOfSlot DEF CacheConsistent
  <2>3. slot_expert[expert_slot[e]] = e
    BY <1>1, <2>1 DEF CacheConsistent, MapsInverse
  <2>4. slot_expert' = [slot_expert EXCEPT ![lru[p]] = e]
    BY <1>2, <2>1, <2>2, <2>3 DEF Hit, TypeOK
  <2>5. hits' \in Nat /\ misses' \in Nat /\ hits' + misses' = Now
    BY <1>2 DEF Hit, Now, TypeOK
  <2>6. Served(e, p)
    BY <1>2, <2>2, <2>4, <2>5 DEF Hit, Served
  <2> QED BY <1>1, <2>2, <2>6
<1>3. CASE Miss(e)
  <2>1. hits' \in Nat /\ misses' \in Nat /\ hits' + misses' = Now
    BY <1>3 DEF Miss, Now, TypeOK
  <2>2. expert_slot'[e] = lru[Cap]
    BY <1>1, <1>3 DEF Miss
  <2>3. Served(e, Cap)
    BY <1>3, <2>1, <2>2 DEF Miss, Served
  <2> QED BY <1>1, <2>3
<1> QED BY <1>2, <1>3 DEF Resolve

(* The registered cache is well typed.                                      *)
LEMMA InitTypeOK == Init => TypeOK
  BY CacheAssumption DEF Init, RegisteredList, TypeOK, Slots, NoSlot, CacheAssumption

(* A hit or a miss of moe_cache_resolve keeps the types.                    *)
LEMMA ResolveTypeOK ==
  ASSUME TypeOK, CacheConsistent, Resolve
  PROVE  TypeOK'
<1> USE CacheAssumption DEF CacheAssumption
<1> DEFINE e == Requested
<1>1. PICK p \in 1 .. Cap : Served(e, p)
  BY ResolveServes
<1>2. e \in Experts /\ lru[p] \in Slots
  BY ResolveServes DEF TypeOK
<1>3. /\ UNCHANGED <<n_used, phase, batch, vram, slot_ids_dev>>
      /\ Len(slot_ids_host) < n_used /\ phase = "tokens"
  BY DEF Resolve, device
<1>4. hits' \in Nat /\ misses' \in Nat /\ hits' + misses' = hits + misses + 1
  BY <1>1 DEF Served, Now
<1>5. stamp' \in [Experts -> 0 .. hits' + misses']
  <2>1. stamp' = [stamp EXCEPT ![e] = Now] /\ Now = hits + misses + 1
    BY DEF Resolve, Now
  <2>2. stamp \in [Experts -> 0 .. hits + misses] /\ hits + misses \in Nat
    BY DEF TypeOK
  <2> HIDE DEF e
  <2> QED BY <1>2, <1>4, <2>1, <2>2
<1>6. lru' \in [1 .. Cap -> Slots]
  BY <1>1, MoveToFrontType DEF Served, TypeOK
<1>7. /\ expert_slot' \in [Experts -> Slots \cup {NoSlot}]
      /\ slot_expert' \in [Slots -> Experts \cup {None}]
  BY <1>1, <1>2 DEF Served, TypeOK
<1>8. slot_ids_host' \in Seq(Slots) /\ Len(slot_ids_host') <= n_used
  BY <1>1, <1>2, <1>3 DEF Served, TypeOK
<1>9. Fetch(lru[p], e) \in Operations
  BY <1>2 DEF Fetch, Operations
<1>10. stream' \in Seq(Operations)
  <2>1. stream' = stream \/ stream' = Append(stream, Fetch(lru[p], e))
    BY <1>1 DEF Served
  <2>2. stream \in Seq(Operations)
    BY DEF TypeOK
  <2> HIDE DEF e
  <2> QED BY <1>9, <2>1, <2>2
<1> QED
  BY <1>3, <1>4, <1>5, <1>6, <1>7, <1>8, <1>10 DEF TypeOK, Operations

(* A sequence of length zero is the empty one.                              *)
LEMMA EmptySequence ==
  ASSUME NEW S, NEW s \in Seq(S)
  PROVE  s = <<>> <=> Len(s) = 0
  OBVIOUS

(* The launches of a token keep the types.                                  *)
LEMMA LaunchTypeOK ==
  ASSUME TypeOK, LaunchToken
  PROVE  TypeOK'
<1> USE CacheAssumption DEF CacheAssumption
<1>1. batch # <<>> /\ Head(batch) \in [1 .. n_used -> Experts]
  BY DEF TypeOK, LaunchToken
<1>2. slot_ids_host \in [1 .. n_used -> Slots]
  BY DEF TypeOK, LaunchToken
<1>3. Upload(slot_ids_host) \in Operations /\ Kernel(Head(batch)) \in Operations
  BY <1>1, <1>2 DEF Operations, Upload, Kernel
<1>4. stream' \in Seq(Operations)
  BY <1>3 DEF LaunchToken, TypeOK
<1>5. /\ batch' \in Seq([1 .. n_used -> Experts])
      /\ (batch' = <<>>) <=> (phase' \in {"idle", "aborted"})
      /\ phase' \in {"idle", "tokens"}
  <2>1. /\ batch \in Seq([1 .. n_used -> Experts])
        /\ batch' = Tail(batch)
        /\ phase' = IF Len(batch) = 1 THEN "idle" ELSE "tokens"
    BY DEF LaunchToken, TypeOK
  <2>2. batch' = <<>> <=> Len(batch) = 1
    <3>1. /\ Tail(batch) \in Seq([1 .. n_used -> Experts])
          /\ Len(Tail(batch)) = Len(batch) - 1
      BY <1>1, <2>1, HeadTailProperties
    <3>2. batch' = <<>> <=> Len(batch') = 0
      BY <2>1, <3>1, EmptySequence
    <3>3. Len(batch) \in Nat
      BY <2>1, LenProperties
    <3> QED BY <2>1, <3>1, <3>2, <3>3
  <2> QED BY <1>1, <2>1, <2>2
<1>6. slot_ids_host' \in Seq(Slots) /\ Len(slot_ids_host') <= n_used
  BY DEF LaunchToken, TypeOK
<1> QED
  BY <1>4, <1>5, <1>6 DEF LaunchToken, TypeOK, host, device, Operations

(* What the device executes keeps the types.                                *)
LEMMA StreamStepTypeOK ==
  ASSUME TypeOK, StreamStep
  PROVE  TypeOK'
<1> USE CacheAssumption DEF CacheAssumption
<1> DEFINE o == Head(stream)
<1>1. o \in Operations /\ stream' \in Seq(Operations)
  BY DEF StreamStep, TypeOK
<1>2. /\ vram' \in [Slots -> Experts \cup {None}]
      /\ slot_ids_dev' \in [1 .. n_used -> Slots \cup {NoSlot}]
  <2>1. CASE o.op = "fetch"
    <3>1. o.slot \in Slots /\ o.expert \in Experts
      BY <2>1, <1>1 DEF Operations
    <3> QED BY <2>1, <3>1 DEF StreamStep, Execute, TypeOK
  <2>2. CASE o.op = "upload"
    <3>1. o.slots \in [1 .. n_used -> Slots]
      BY <2>2, <1>1 DEF Operations
    <3> QED BY <2>2, <3>1 DEF StreamStep, Execute, TypeOK
  <2>3. CASE o.op = "kernel"
    BY <2>3 DEF StreamStep, Execute, TypeOK
  <2> QED BY <2>1, <2>2, <2>3 DEF StreamStep, Execute
<1> QED BY <1>1, <1>2 DEF StreamStep, host, call, TypeOK, Operations

(* A call of moe_cache_forward begins well typed.                           *)
LEMMA ForwardTypeOK ==
  ASSUME TypeOK, Forward
  PROVE  TypeOK'
<1> USE CacheAssumption DEF CacheAssumption
<1>1. PICK b \in Batches : batch' = b
  BY DEF Forward
<1>2. b \in Seq([1 .. n_used -> Experts]) /\ b # <<>>
  BY <1>1 DEF Batches, TokensOf
<1> QED BY <1>1, <1>2 DEF Forward, TypeOK, host, device, Operations

(* Every step keeps the types.                                              *)
LEMMA StepTypeOK == TypeOK /\ CacheConsistent /\ [Next]_vars => TypeOK'
<1> SUFFICES ASSUME TypeOK, CacheConsistent, [Next]_vars PROVE TypeOK'
  OBVIOUS
<1>1. CASE Resolve
  BY <1>1, ResolveTypeOK
<1>2. CASE Forward
  BY <1>2, ForwardTypeOK
<1>3. CASE ForwardAborts
  BY <1>3 DEF ForwardAborts, TypeOK, host, device, Operations
<1>4. CASE StreamSynchronized
  BY <1>4 DEF StreamSynchronized, TypeOK, host, device, Operations
<1>5. CASE LaunchToken
  BY <1>5, LaunchTypeOK
<1>6. CASE StreamStep
  BY <1>6, StreamStepTypeOK
<1>7. CASE UNCHANGED vars
  BY <1>7 DEF vars, host, call, device, TypeOK, Operations
<1> QED BY <1>1, <1>2, <1>3, <1>4, <1>5, <1>6, <1>7 DEF Next

-----------------------------------------------------------------------------
(* The maps and the LRU list under one resolution.                          *)

(* A hit or a miss keeps the two maps inverse and every slot in the list.   *)
LEMMA ResolveConsistent ==
  ASSUME TypeOK, CacheConsistent, NEW e \in Experts, NEW p \in 1 .. Cap, Served(e, p)
  PROVE  CacheConsistent'
<1>1. LruPermutation'
  BY MoveToFrontPermutes DEF Served, CacheConsistent, TypeOK
<1>2. lru[p] \in Slots /\ NoSlot \notin Slots
  BY CacheAssumption DEF TypeOK, NoSlot, Slots, CacheAssumption
<1>3. MapsInverse'
  <2> SUFFICES ASSUME NEW x \in Experts, NEW s \in Slots
               PROVE  expert_slot'[x] = s <=> slot_expert'[s] = x
    BY DEF MapsInverse, Slots
  <2>1. expert_slot[x] = s <=> slot_expert[s] = x
    BY DEF CacheConsistent, MapsInverse
  <2>2. slot_expert'[s] = IF s = lru[p] THEN e ELSE slot_expert[s]
    BY <1>2 DEF Served, TypeOK
  <2>3. CASE expert_slot[e] = lru[p] /\ UNCHANGED <<expert_slot, slot_expert>>
    BY <2>1, <2>3
  <2>4. CASE expert_slot[e] = NoSlot /\
             expert_slot' = [y \in Experts |->
                                IF y = e THEN lru[p]
                                ELSE IF y = slot_expert[lru[p]] THEN NoSlot
                                ELSE expert_slot[y]]
    <3>1. expert_slot'[x] = IF x = e THEN lru[p]
                            ELSE IF x = slot_expert[lru[p]] THEN NoSlot
                            ELSE expert_slot[x]
      BY <2>4
    <3>2. expert_slot[x] = lru[p] <=> slot_expert[lru[p]] = x
      BY <1>2 DEF CacheConsistent, MapsInverse
    <3> QED BY <1>2, <2>1, <2>2, <2>4, <3>1, <3>2
  <2> QED BY <2>3, <2>4 DEF Served
<1> QED BY <1>1, <1>3 DEF CacheConsistent

(* The slots that are not served keep their expert and the expert its       *)
(* stamp; the served one carries the latest stamp.                          *)
LEMMA ResolveSlots ==
  ASSUME TypeOK, CacheConsistent, NEW e \in Experts, NEW p \in 1 .. Cap, Served(e, p),
         stamp' = [stamp EXCEPT ![e] = Now], NEW i \in 1 .. Cap
  PROVE  /\ Source(p, i) \in 1 .. Cap
         /\ i = 1 => slot_expert'[lru'[i]] = e
         /\ i > 1 => /\ slot_expert'[lru'[i]] = slot_expert[lru[Source(p, i)]]
                     /\ slot_expert'[lru'[i]] # e
                     /\ slot_expert'[lru'[i]] # None =>
                          stamp'[slot_expert'[lru'[i]]] = stamp[slot_expert[lru[Source(p, i)]]]
<1>1. /\ Source(p, i) \in 1 .. Cap
      /\ lru'[i] = lru[Source(p, i)]
  BY MoveToFrontSource DEF Served, TypeOK
<1>2. lru[p] \in Slots /\ lru[Source(p, i)] \in Slots
  BY <1>1 DEF TypeOK
<1>3. slot_expert'[lru[Source(p, i)]] =
        IF lru[Source(p, i)] = lru[p] THEN e ELSE slot_expert[lru[Source(p, i)]]
  BY <1>2 DEF Served, TypeOK
<1>4. CASE i = 1
  BY <1>1, <1>3, <1>4 DEF Source
<1>5. CASE i > 1
  <2>1. Source(p, i) # p
    BY <1>5 DEF Source
  <2>2. lru[Source(p, i)] # lru[p]
    BY <1>1, <2>1, ListInjective DEF CacheConsistent, TypeOK
  <2>3. slot_expert[lru[Source(p, i)]] # e
    <3>1. expert_slot[e] = lru[p] \/ expert_slot[e] = NoSlot
      BY DEF Served
    <3>2. expert_slot[e] # lru[Source(p, i)]
      BY <1>2, <2>2, <3>1 DEF NoSlot, Slots
    <3> QED BY <1>2, <3>2 DEF CacheConsistent, MapsInverse
  <2>4. slot_expert[lru[Source(p, i)]] \in Experts \cup {None}
    BY <1>2 DEF TypeOK
  <2> QED BY <1>1, <1>3, <1>5, <2>2, <2>3, <2>4 DEF TypeOK
<1> QED BY <1>1, <1>4, <1>5

(* A hit or a miss leaves the list in the order of the last uses.           *)
LEMMA ResolveExactLru ==
  ASSUME TypeOK, CacheConsistent, ExactLru,
         NEW e \in Experts, NEW p \in 1 .. Cap, Served(e, p),
         stamp' = [stamp EXCEPT ![e] = Now]
  PROVE  ExactLru'
<1> USE CacheAssumption DEF CacheAssumption
<1>1. /\ Now \in Nat
      /\ \A x \in Experts : stamp[x] \in Nat /\ stamp[x] < Now
      /\ stamp'[e] = Now
      /\ \A x \in Experts : x # e => stamp'[x] = stamp[x]
  BY DEF TypeOK, Now
<1>0. ASSUME NEW i \in 1 .. Cap
      PROVE
        /\ Source(p, i) \in 1 .. Cap
        /\ i = 1 => slot_expert'[lru'[i]] = e
        /\ i > 1 => /\ slot_expert'[lru'[i]] = slot_expert[lru[Source(p, i)]]
                    /\ slot_expert'[lru'[i]] # e
                    /\ slot_expert'[lru'[i]] # None =>
                         stamp'[slot_expert'[lru'[i]]] = stamp[slot_expert[lru[Source(p, i)]]]
  BY ResolveSlots
<1>2. ListByRecency'
  <2> SUFFICES ASSUME NEW i \in 1 .. Cap, NEW j \in 1 .. Cap, i < j,
                      slot_expert'[lru'[j]] # None
               PROVE  /\ slot_expert'[lru'[i]] # None
                      /\ stamp'[slot_expert'[lru'[i]]] > stamp'[slot_expert'[lru'[j]]]
    BY DEF ListByRecency
  <2> DEFINE si == Source(p, i)
             sj == Source(p, j)
  <2>0. j > 1
    OBVIOUS
  <2>1. /\ sj \in 1 .. Cap
        /\ slot_expert'[lru'[j]] = slot_expert[lru[sj]]
        /\ slot_expert'[lru'[j]] # e
        /\ stamp'[slot_expert'[lru'[j]]] = stamp[slot_expert[lru[sj]]]
    BY <2>0, <1>0
  <2>2. slot_expert[lru[sj]] \in Experts
    BY <2>1 DEF TypeOK
  <2>3. CASE i = 1
    <3>1. slot_expert'[lru'[i]] = e
      BY <2>3, <1>0
    <3> QED BY <1>1, <2>1, <2>2, <3>1
  <2>4. CASE i > 1
    <3>1. /\ si \in 1 .. Cap
          /\ slot_expert'[lru'[i]] = slot_expert[lru[si]]
      BY <2>4, <1>0
    <3>2. si < sj
      BY <2>4 DEF Source
    <3>3. /\ slot_expert[lru[si]] # None
          /\ stamp[slot_expert[lru[si]]] > stamp[slot_expert[lru[sj]]]
      BY <2>1, <2>2, <3>1, <3>2 DEF ExactLru, ListByRecency
    <3>4. stamp'[slot_expert'[lru'[i]]] = stamp[slot_expert[lru[si]]]
      BY <2>4, <3>1, <3>3, <1>0
    <3> QED BY <2>1, <3>1, <3>3, <3>4
  <2> QED BY <2>3, <2>4
<1>3. ResidentMostRecent'
  <2> SUFFICES ASSUME NEW x \in Experts, NEW y \in Experts,
                      expert_slot'[x] # NoSlot, expert_slot'[y] = NoSlot
               PROVE  stamp'[x] > stamp'[y]
    BY DEF ResidentMostRecent
  <2>1. y # e
    <3>1. expert_slot'[e] = lru[p] /\ lru[p] \in Slots
      BY DEF Served, TypeOK
    <3>2. NoSlot \notin Slots
      BY DEF NoSlot, Slots
    <3> QED BY <3>1, <3>2
  <2>2. CASE x = e
    BY <1>1, <2>1, <2>2
  <2>3. CASE x # e
    <3>1. stamp'[x] = stamp[x] /\ stamp'[y] = stamp[y]
      BY <1>1, <2>1, <2>3
    <3>2. CASE expert_slot' = expert_slot
      BY <3>1, <3>2 DEF ExactLru, ResidentMostRecent
    <3>3. CASE /\ p = Cap
               /\ expert_slot' = [z \in Experts |->
                                IF z = e THEN lru[p]
                                ELSE IF z = slot_expert[lru[p]] THEN NoSlot
                                ELSE expert_slot[z]]
      <4>1. x # slot_expert[lru[Cap]] /\ expert_slot[x] # NoSlot
        BY <2>3, <3>3
      <4>2. CASE expert_slot[y] = NoSlot
        BY <3>1, <4>1, <4>2 DEF ExactLru, ResidentMostRecent
      <4>3. CASE y = slot_expert[lru[Cap]]
        <5>1. expert_slot[x] \in Slots
          BY <4>1 DEF TypeOK
        <5>2. PICK i \in 1 .. Cap : lru[i] = expert_slot[x]
          BY <5>1 DEF CacheConsistent, LruPermutation
        <5>3. slot_expert[lru[i]] = x
          BY <5>1, <5>2 DEF CacheConsistent, MapsInverse
        <5>4. i < Cap
          BY <4>1, <5>2, <5>3
        <5>5. y # None
          OBVIOUS
        <5>6. stamp[slot_expert[lru[i]]] > stamp[slot_expert[lru[Cap]]]
          BY <4>3, <5>4, <5>5 DEF ExactLru, ListByRecency
        <5> QED BY <3>1, <4>3, <5>3, <5>6
      <4> QED BY <2>1, <3>3, <4>2, <4>3
    <3> QED BY <3>2, <3>3 DEF Served
  <2> QED BY <2>2, <2>3
<1> QED BY <1>2, <1>3 DEF ExactLru

(* The slots already resolved for the token move back by at most one        *)
(* position, and the victim is behind them all because the token's experts  *)
(* fit the slots.                                                           *)
LEMMA ResolvePinned ==
  ASSUME TypeOK, CacheConsistent, FitsInSlots, PinnedSlots, Resolve,
         NEW p \in 1 .. Cap, Served(Requested, p)
  PROVE  PinnedSlots'
<1> USE CacheAssumption DEF CacheAssumption
<1> DEFINE n == Len(slot_ids_host)
           e == Requested
<1>0. Served(e, p)
  OBVIOUS
<1>1. n < n_used /\ n_used <= Cap /\ n \in Nat /\ n_used \in Nat /\ Cap \in Nat
  BY DEF Resolve, FitsInSlots, TypeOK
<1>2. e \in Experts /\ lru[p] \in Slots
  BY ResolveServes DEF TypeOK
<1>3. /\ Len(slot_ids_host') = n + 1
      /\ slot_ids_host'[n + 1] = lru[p]
      /\ \A k \in 1 .. n : slot_ids_host'[k] = slot_ids_host[k]
  BY <1>2 DEF Served, TypeOK
<1>4. batch' = batch /\ e = Head(batch)[n + 1]
  BY DEF Resolve, Requested
<1>a. \A k \in 1 .. n :
        /\ slot_expert[slot_ids_host[k]] = Head(batch)[k]
        /\ \E o \in 1 .. n : o <= Cap /\ lru[o] = slot_ids_host[k]
  BY DEF PinnedSlots
<1> SUFFICES ASSUME NEW k \in 1 .. n + 1
             PROVE  /\ slot_expert'[slot_ids_host'[k]] = Head(batch)[k]
                    /\ \E q \in 1 .. n + 1 : q <= Cap /\ lru'[q] = slot_ids_host'[k]
  BY <1>3, <1>4 DEF PinnedSlots
<1> HIDE DEF n, e
<1>5. CASE k = n + 1
  <2>1. slot_expert'[lru[p]] = e
    BY <1>0, <1>2 DEF Served, TypeOK
  <2>2. lru'[1] = lru[p]
    <3>1. lru' = MoveToFront(p) /\ 1 \in 1 .. Cap
      BY <1>0 DEF Served
    <3> QED BY <3>1 DEF MoveToFront
  <2> QED BY <1>1, <1>3, <1>4, <1>5, <2>1, <2>2
<1>6. CASE k \in 1 .. n
  <2>1. PICK o \in 1 .. n : o <= Cap /\ lru[o] = slot_ids_host[k]
    BY <1>6, <1>a
  <2>2. slot_expert[slot_ids_host[k]] = Head(batch)[k]
    BY <1>6, <1>a
  <2>3. slot_ids_host'[k] = lru[o] /\ o \in 1 .. Cap /\ lru[o] \in Slots
    BY <1>1, <1>3, <1>6, <2>1 DEF TypeOK
  <2>4. slot_expert'[lru[o]] = slot_expert[lru[o]]
    <3>1. CASE UNCHANGED slot_expert
      BY <3>1
    <3>2. CASE p = Cap
      <4>1. o # p
        BY <1>1, <2>1, <3>2
      <4>2. lru[o] # lru[p]
        BY <2>3, <4>1, ListInjective DEF CacheConsistent, TypeOK
      <4> QED BY <1>2, <1>0, <2>3, <4>2 DEF Served, TypeOK
    <3> QED BY <3>1, <3>2, <1>0 DEF Served
  <2> DEFINE q == IF o = p THEN 1 ELSE IF o < p THEN o + 1 ELSE o
  <2>5. q \in 1 .. n + 1 /\ q \in 1 .. Cap /\ Source(p, q) = o
    BY <1>1, <2>1, <2>3 DEF Source
  <2> HIDE DEF q
  <2>6. lru'[q] = lru[o]
    <3>1. MoveToFront(p)[q] = lru[Source(p, q)]
      BY <2>5, MoveToFrontSource DEF TypeOK
    <3> QED BY <1>0, <2>5, <3>1 DEF Served
  <2> QED BY <2>1, <2>2, <2>3, <2>4, <2>5, <2>6
<1> QED BY <1>1, <1>5, <1>6

-----------------------------------------------------------------------------
(* What a slot holds at a later point of the stream.                        *)

(* It depends only on the operations before that point.                     *)
LEMMA HoldsPrefix ==
  ASSUME NEW mem, NEW ops, NEW ops2, NEW s, NEW x, NEW i \in Nat,
         \A j \in 1 .. i - 1 : ops2[j] = ops[j],
         Holds(mem, ops, i, s, x)
  PROVE  Holds(mem, ops2, i, s, x)
  BY DEF Holds

(* An operation that does not write the slot keeps what it holds.           *)
LEMMA HoldsKept ==
  ASSUME NEW mem, NEW ops, NEW s, NEW x, NEW i \in Nat \ {0},
         Holds(mem, ops, i, s, x), ~Writes(ops[i], s)
  PROVE  Holds(mem, ops, i + 1, s, x)
  BY DEF Holds

(* A fetch decides what the slot holds after it.                            *)
LEMMA HoldsFetched ==
  ASSUME NEW mem, NEW ops, NEW s, NEW i \in Nat \ {0}, Writes(ops[i], s)
  PROVE  Holds(mem, ops, i + 1, s, ops[i].expert)
  BY DEF Holds

(* Executing the first operation brings every later point one step closer.  *)
LEMMA HoldsTail ==
  ASSUME NEW S, NEW mem, NEW mem2, NEW ops \in Seq(S), ops # <<>>, NEW s, NEW x,
         NEW i \in 1 .. Len(ops), Holds(mem, ops, i + 1, s, x),
         mem2[s] = IF Writes(ops[1], s) THEN ops[1].expert ELSE mem[s]
  PROVE  Holds(mem2, Tail(ops), i, s, x)
<1>1. \A j \in 1 .. Len(ops) - 1 : Tail(ops)[j] = ops[j + 1]
  BY HeadTailProperties
<1>2. Len(ops) \in Nat /\ i \in Nat
  BY LenProperties
<1>3. CASE mem[s] = x /\ \A j \in 1 .. i : ~Writes(ops[j], s)
  <2>1. mem2[s] = x
    BY <1>2, <1>3
  <2>2. \A j \in 1 .. i - 1 : ~Writes(Tail(ops)[j], s)
    BY <1>1, <1>2, <1>3
  <2> QED BY <2>1, <2>2 DEF Holds
<1>4. ASSUME NEW j \in 1 .. i, Writes(ops[j], s), ops[j].expert = x,
             \A k \in j + 1 .. i : ~Writes(ops[k], s)
      PROVE  Holds(mem2, Tail(ops), i, s, x)
  <2>1. CASE j = 1
    <3>1. mem2[s] = x
      BY <1>4, <2>1
    <3>2. \A k \in 1 .. i - 1 : ~Writes(Tail(ops)[k], s)
      BY <1>1, <1>2, <1>4, <2>1
    <3> QED BY <3>1, <3>2 DEF Holds
  <2>2. CASE j > 1
    <3>1. j - 1 \in 1 .. i - 1 /\ Tail(ops)[j - 1] = ops[j]
      BY <1>1, <1>2, <2>2
    <3>2. \A k \in (j - 1) + 1 .. i - 1 : ~Writes(Tail(ops)[k], s)
      BY <1>1, <1>2, <1>4, <2>2
    <3> QED BY <1>4, <3>1, <3>2 DEF Holds
  <2> QED BY <2>1, <2>2
<1>5. \/ mem[s] = x /\ \A j \in 1 .. i : ~Writes(ops[j], s)
      \/ \E j \in 1 .. i : /\ Writes(ops[j], s) /\ ops[j].expert = x
                           /\ \A k \in j + 1 .. i : ~Writes(ops[k], s)
  <2>1. (i + 1) - 1 = i
    BY <1>2
  <2> QED BY <2>1, Zenon DEF Holds
<1> QED BY <1>3, <1>4, <1>5

-----------------------------------------------------------------------------
(* StreamHolds under each kind of step.                                     *)

(* Appending operations changes nothing for the kernels already enqueued.   *)
LEMMA KernelsBefore ==
  ASSUME TypeOK, StreamHolds, UNCHANGED <<n_used, vram, slot_ids_dev>>,
         \A j \in 1 .. Len(stream) : stream'[j] = stream[j],
         NEW i \in 1 .. Len(stream), stream'[i].op = "kernel"
  PROVE  /\ i > 1 => stream'[i - 1].op = "upload"
         /\ \A k \in 1 .. n_used :
              /\ IdsAt(i)'[k] \in Slots
              /\ Holds(vram, stream', i, IdsAt(i)'[k], stream'[i].token[k])
<1>1. Len(stream) \in Nat
  BY DEF TypeOK
<1>2. stream[i].op = "kernel" /\ stream'[i] = stream[i]
  OBVIOUS
<1>3. i > 1 => stream[i - 1].op = "upload" /\ stream'[i - 1] = stream[i - 1]
  BY <1>1, <1>2 DEF StreamHolds, KernelsWillRead
<1>4. IdsAt(i)' = IdsAt(i)
  BY <1>1, <1>3 DEF IdsAt
<1>5. ASSUME NEW k \in 1 .. n_used
      PROVE  /\ IdsAt(i)[k] \in Slots
             /\ Holds(vram, stream', i, IdsAt(i)[k], stream[i].token[k])
  <2>1. IdsAt(i)[k] \in Slots /\ Holds(vram, stream, i, IdsAt(i)[k], stream[i].token[k])
    BY <1>2 DEF StreamHolds, KernelsWillRead
  <2>2. \A j \in 1 .. i - 1 : stream'[j] = stream[j]
    BY <1>1
  <2> QED BY <1>1, <2>1, <2>2, HoldsPrefix
<1> QED BY <1>2, <1>3, <1>4, <1>5

(* Every change of the maps enqueues its copy behind the kernels before.    *)
LEMMA ResolveStreamHolds ==
  ASSUME TypeOK, CacheConsistent, StreamHolds, Resolve,
         NEW e \in Experts, NEW p \in 1 .. Cap, Served(e, p)
  PROVE  StreamHolds'
<1> DEFINE n == Len(stream)
<1>1. UNCHANGED <<n_used, vram, slot_ids_dev>>
  BY DEF Resolve, device
<1>2. CASE UNCHANGED <<slot_expert, stream>>
  BY <1>1, <1>2 DEF StreamHolds, SlotsWillHold, KernelsWillRead, IdsAt, Slots
<1>3. CASE stream' = Append(stream, Fetch(lru[p], e))
  <2>1. /\ stream \in Seq(Operations) /\ n \in Nat /\ n + 1 \in Nat \ {0}
        /\ lru[p] \in Slots
    <3>1. stream \in Seq(Operations) /\ lru[p] \in Slots
      BY DEF TypeOK
    <3>2. n \in Nat
      BY <3>1, LenProperties
    <3> QED BY <3>1, <3>2
  <2>2. /\ Len(stream') = n + 1
        /\ stream'[n + 1] = Fetch(lru[p], e)
        /\ \A j \in 1 .. n : stream'[j] = stream[j]
        /\ \A j \in 1 .. (n + 1) - 1 : stream'[j] = stream[j]
    BY <1>3, <2>1
  <2>3. \A s : Writes(stream'[n + 1], s) <=> s = lru[p]
    BY <2>2 DEF Writes, Fetch
  <2>4. SlotsWillHold'
    <3> SUFFICES ASSUME NEW s \in Slots
                 PROVE  Holds(vram, stream', (n + 1) + 1, s, slot_expert'[s])
      BY <1>1, <2>2 DEF SlotsWillHold, Slots
    <3>1. slot_expert'[s] = IF s = lru[p] THEN e ELSE slot_expert[s]
      BY <2>1 DEF Served, TypeOK
    <3>2. CASE s = lru[p]
      <4>1. Writes(stream'[n + 1], s)
        BY <2>3, <3>2
      <4>2. Holds(vram, stream', (n + 1) + 1, s, stream'[n + 1].expert)
        BY <2>1, <4>1, HoldsFetched
      <4> QED BY <2>2, <3>1, <3>2, <4>2 DEF Fetch
    <3>3. CASE s # lru[p]
      <4>1. Holds(vram, stream, n + 1, s, slot_expert[s])
        BY DEF StreamHolds, SlotsWillHold
      <4>2. Holds(vram, stream', n + 1, s, slot_expert[s])
        BY <2>1, <2>2, <4>1, HoldsPrefix
      <4>3. ~Writes(stream'[n + 1], s)
        BY <2>3, <3>3
      <4>4. Holds(vram, stream', (n + 1) + 1, s, slot_expert[s])
        BY <2>1, <4>2, <4>3, HoldsKept
      <4> QED BY <3>1, <3>3, <4>4
    <3> QED BY <3>2, <3>3
  <2>5. KernelsWillRead'
    <3> SUFFICES ASSUME NEW i \in 1 .. n + 1, stream'[i].op = "kernel"
                 PROVE  /\ i > 1 => stream'[i - 1].op = "upload"
                        /\ \A k \in 1 .. n_used :
                             /\ IdsAt(i)'[k] \in Slots
                             /\ Holds(vram, stream', i, IdsAt(i)'[k], stream'[i].token[k])
      BY <1>1, <2>2 DEF KernelsWillRead, Slots
    <3>1. i # n + 1
      BY <2>2 DEF Fetch
    <3>2. i \in 1 .. Len(stream)
      BY <2>1, <3>1
    <3> QED BY <1>1, <2>2, <3>2, KernelsBefore
  <2> QED BY <2>4, <2>5 DEF StreamHolds
<1> QED BY <1>2, <1>3 DEF Served

(* A kernel launched will find its token's experts at its turn.             *)
LEMMA LaunchStreamHolds ==
  ASSUME TypeOK, PinnedSlots, StreamHolds, LaunchToken
  PROVE  StreamHolds'
<1> DEFINE n == Len(stream)
           up == Upload(slot_ids_host)
           ke == Kernel(Head(batch))
<1>1. UNCHANGED <<n_used, vram, slot_ids_dev, slot_expert>>
  BY DEF LaunchToken, host, device
<1>2. /\ stream \in Seq(Operations) /\ n \in Nat /\ n + 1 \in Nat \ {0}
      /\ stream' = stream \o <<up, ke>>
  BY DEF TypeOK, LaunchToken
<1>3. /\ Len(stream') = n + 2
      /\ stream'[n + 1] = up /\ stream'[n + 2] = ke
      /\ \A j \in 1 .. n : stream'[j] = stream[j]
      /\ \A j \in 1 .. (n + 1) - 1 : stream'[j] = stream[j]
  BY <1>2
<1>4. \A s : ~Writes(stream'[n + 1], s) /\ ~Writes(stream'[n + 2], s)
  BY <1>3 DEF Writes, Upload, Kernel
<1>5. ASSUME NEW s \in Slots
      PROVE  /\ Holds(vram, stream', (n + 1) + 1, s, slot_expert[s])
             /\ Holds(vram, stream', ((n + 1) + 1) + 1, s, slot_expert[s])
  <2>1. Holds(vram, stream, n + 1, s, slot_expert[s])
    BY DEF StreamHolds, SlotsWillHold
  <2>2. Holds(vram, stream', n + 1, s, slot_expert[s])
    <3>1. n + 1 \in Nat /\ \A j \in 1 .. (n + 1) - 1 : stream'[j] = stream[j]
      BY <1>2, <1>3
    <3> HIDE DEF n
    <3> QED BY <2>1, <3>1, HoldsPrefix
  <2>3. Holds(vram, stream', (n + 1) + 1, s, slot_expert[s])
    BY <1>2, <1>4, <2>2, HoldsKept
  <2>4. ~Writes(stream'[(n + 1) + 1], s) /\ (n + 1) + 1 \in Nat \ {0}
    BY <1>2, <1>4
  <2> QED BY <2>3, <2>4, HoldsKept
<1>6. SlotsWillHold'
  <2>1. Len(stream') + 1 = ((n + 1) + 1) + 1
    BY <1>2, <1>3
  <2> QED BY <1>1, <1>5, <2>1 DEF SlotsWillHold, Slots
<1>7. KernelsWillRead'
  <2> SUFFICES ASSUME NEW i \in 1 .. n + 2, stream'[i].op = "kernel"
               PROVE  /\ i > 1 => stream'[i - 1].op = "upload"
                      /\ \A k \in 1 .. n_used :
                           /\ IdsAt(i)'[k] \in Slots
                           /\ Holds(vram, stream', i, IdsAt(i)'[k], stream'[i].token[k])
    BY <1>1, <1>3 DEF KernelsWillRead, Slots
  <2>1. i # n + 1
    BY <1>3 DEF Upload
  <2>2. CASE i \in 1 .. n
    BY <1>1, <1>3, <2>2, KernelsBefore
  <2>3. CASE i = n + 2
    <3>1. i > 1 /\ i - 1 = n + 1
      BY <1>2, <2>3
    <3>2. stream'[i - 1].op = "upload" /\ IdsAt(i)' = slot_ids_host
      BY <1>3, <3>1 DEF IdsAt, Upload
    <3>3. stream'[i].token = Head(batch)
      BY <1>3, <2>3 DEF Kernel
    <3>4. ASSUME NEW k \in 1 .. n_used
          PROVE  /\ slot_ids_host[k] \in Slots
                 /\ Holds(vram, stream', i, slot_ids_host[k], Head(batch)[k])
      <4>1. slot_ids_host[k] \in Slots /\ k \in 1 .. Len(slot_ids_host)
        BY DEF TypeOK, LaunchToken
      <4>2. slot_expert[slot_ids_host[k]] = Head(batch)[k]
        BY <4>1 DEF PinnedSlots
      <4>3. i = (n + 1) + 1
        BY <1>2, <2>3
      <4>4. Holds(vram, stream', (n + 1) + 1, slot_ids_host[k], slot_expert[slot_ids_host[k]])
        BY <1>5, <4>1
      <4> QED BY <4>1, <4>2, <4>3, <4>4
    <3> QED BY <3>1, <3>2, <3>3, <3>4
  <2>4. i \in 1 .. n \/ i = n + 2
    <3> HIDE DEF n
    <3> QED BY <1>2, <2>1
  <2> QED BY <2>2, <2>3, <2>4
<1> QED BY <1>6, <1>7 DEF StreamHolds

(* Running the oldest operation keeps what the others will find.            *)
LEMMA StreamStepHolds ==
  ASSUME TypeOK, StreamHolds, StreamStep
  PROVE  StreamHolds'
<1> DEFINE n == Len(stream)
<1>1. /\ stream \in Seq(Operations) /\ n \in Nat \ {0} /\ stream # <<>>
      /\ stream' = Tail(stream) /\ Head(stream) = stream[1]
      /\ stream[1] \in Operations
  BY DEF TypeOK, StreamStep
<1>2. Len(stream') = n - 1 /\ \A j \in 1 .. n - 1 : stream'[j] = stream[j + 1]
  BY <1>1, HeadTailProperties
<1>3. UNCHANGED <<n_used, slot_expert>>
  BY DEF StreamStep, host
<1>4. \A s \in Slots :
        vram'[s] = IF Writes(stream[1], s) THEN stream[1].expert ELSE vram[s]
  BY <1>1 DEF StreamStep, Execute, Writes, TypeOK
<1>5. ASSUME NEW i \in 1 .. n, NEW s \in Slots, NEW x,
             Holds(vram, stream, i + 1, s, x)
      PROVE  Holds(vram', stream', i, s, x)
  <2>1. vram'[s] = IF Writes(stream[1], s) THEN stream[1].expert ELSE vram[s]
    BY <1>4
  <2> QED BY <1>1, <1>5, <2>1, HoldsTail
<1>6. SlotsWillHold'
  <2> SUFFICES ASSUME NEW s \in Slots
               PROVE  Holds(vram', stream', n, s, slot_expert[s])
    BY <1>1, <1>2, <1>3 DEF SlotsWillHold, Slots
  <2>1. Holds(vram, stream, n + 1, s, slot_expert[s])
    BY DEF StreamHolds, SlotsWillHold
  <2> QED BY <1>1, <1>5, <2>1
<1>7. KernelsWillRead'
  <2> SUFFICES ASSUME NEW i \in 1 .. n - 1, stream'[i].op = "kernel"
               PROVE  /\ i > 1 => stream'[i - 1].op = "upload"
                      /\ \A k \in 1 .. n_used :
                           /\ IdsAt(i)'[k] \in Slots
                           /\ Holds(vram', stream', i, IdsAt(i)'[k], stream'[i].token[k])
    BY <1>2, <1>3 DEF KernelsWillRead, Slots
  <2>1. stream'[i] = stream[i + 1] /\ i + 1 \in 1 .. n /\ i + 1 > 1
    BY <1>1, <1>2
  <2>2. /\ stream[(i + 1) - 1].op = "upload"
        /\ \A k \in 1 .. n_used :
             /\ IdsAt(i + 1)[k] \in Slots
             /\ Holds(vram, stream, i + 1, IdsAt(i + 1)[k], stream[i + 1].token[k])
    BY <2>1 DEF StreamHolds, KernelsWillRead
  <2>3. IdsAt(i)' = IdsAt(i + 1)
    <3>1. IdsAt(i + 1) = stream[i].slots /\ stream[i].op = "upload"
      BY <1>1, <2>1, <2>2 DEF IdsAt
    <3>2. CASE i = 1
      <4>1. slot_ids_dev' = stream[1].slots
        BY <1>1, <3>1, <3>2 DEF StreamStep, Execute
      <4> QED BY <3>1, <3>2, <4>1 DEF IdsAt
    <3>3. CASE i > 1
      <4>1. stream'[i - 1] = stream[i]
        BY <1>1, <1>2, <3>3
      <4> QED BY <3>1, <3>3, <4>1 DEF IdsAt
    <3> QED BY <1>1, <3>2, <3>3
  <2>4. i > 1 => stream'[i - 1] = stream[i]
    BY <1>1, <1>2
  <2>5. i \in 1 .. n /\ (i + 1) - 1 = i
    BY <1>1
  <2> QED BY <1>5, <2>1, <2>2, <2>3, <2>4, <2>5
<1> QED BY <1>6, <1>7 DEF StreamHolds

(* The kernel at the head of the stream reads what its token asked for.     *)
LEMMA StreamStepReadsRequested ==
  ASSUME TypeOK, StreamHolds, KernelReadsRequested, StreamStep
  PROVE  KernelReadsRequested'
<1> DEFINE o == Head(stream)
<1>1. o \in Operations /\ o = stream[1] /\ Len(stream) >= 1 /\ Len(stream) \in Nat
  BY DEF TypeOK, StreamStep
<1>2. CASE o.op = "kernel"
  <2>1. o.token \in [1 .. n_used -> Experts]
    BY <1>1, <1>2 DEF Operations
  <2>2. /\ result' = [k \in 1 .. n_used |-> vram[slot_ids_dev[k]]]
        /\ wanted' = o.token
    BY <1>2 DEF StreamStep, Execute
  <2>3. ASSUME NEW k \in 1 .. n_used
        PROVE  vram[slot_ids_dev[k]] = o.token[k]
    <3>1. Holds(vram, stream, 1, IdsAt(1)[k], stream[1].token[k])
      BY <1>1, <1>2 DEF StreamHolds, KernelsWillRead
    <3> QED BY <1>1, <3>1 DEF Holds, IdsAt
  <2> QED BY <2>1, <2>2, <2>3 DEF KernelReadsRequested
<1>3. CASE o.op # "kernel"
  BY <1>3 DEF StreamStep, Execute, KernelReadsRequested
<1> QED BY <1>2, <1>3

-----------------------------------------------------------------------------
(* The inductive invariant.                                                 *)

(* The registered cache satisfies the inductive invariant.                  *)
LEMMA InitIInv == Init => IInv
<1> SUFFICES ASSUME Init PROVE IInv
  OBVIOUS
<1> USE CacheAssumption DEF CacheAssumption
<1>1. TypeOK
  BY InitTypeOK
<1>2. CacheConsistent
  <2>1. MapsInverse
    BY DEF Init, MapsInverse, Slots, NoSlot
  <2>2. ASSUME NEW s \in Slots
        PROVE  \E p \in 1 .. Cap :
                  lru[p] = s /\ \A q \in 1 .. Cap : lru[q] = s => q = p
    <3>1. Cap - s \in 1 .. Cap /\ lru[Cap - s] = s
      BY DEF Init, RegisteredList, Slots
    <3>2. \A q \in 1 .. Cap : lru[q] = s => q = Cap - s
      BY DEF Init, RegisteredList, Slots
    <3> QED BY <3>1, <3>2
  <2> QED BY <2>1, <2>2 DEF CacheConsistent, LruPermutation
<1>3. ExactLru
  BY <1>1 DEF Init, ExactLru, ListByRecency, ResidentMostRecent, TypeOK
<1>4. FitsInSlots /\ PinnedSlots
  BY DEF Init, FitsInSlots, PinnedSlots
<1>5. StreamHolds
  BY DEF Init, StreamHolds, SlotsWillHold, KernelsWillRead, Holds
<1>6. KernelReadsRequested
  BY DEF Init, KernelReadsRequested
<1> QED BY <1>1, <1>2, <1>3, <1>4, <1>5, <1>6 DEF IInv

(* Everything but the stream stays as it is while the host is between two   *)
(* tokens or the device runs.                                               *)
LEMMA CacheUnchanged ==
  ASSUME CacheConsistent, ExactLru, UNCHANGED host
  PROVE  CacheConsistent' /\ ExactLru'
<1>1. CacheConsistent'
  BY DEF CacheConsistent, MapsInverse, LruPermutation, Slots, NoSlot, host
<1>2. ExactLru'
  BY DEF ExactLru, ListByRecency, ResidentMostRecent, NoSlot, host
<1> QED BY <1>1, <1>2

(* A step that leaves slots, stream and maps alone keeps StreamHolds.       *)
LEMMA StreamUnchanged ==
  ASSUME StreamHolds, KernelReadsRequested, UNCHANGED <<host, stream, device>>
  PROVE  StreamHolds' /\ KernelReadsRequested'
<1>1. SlotsWillHold'
  BY DEF StreamHolds, SlotsWillHold, Slots, host, device
<1>2. KernelsWillRead'
  BY DEF StreamHolds, KernelsWillRead, IdsAt, Slots, host, device
<1>3. KernelReadsRequested'
  BY DEF KernelReadsRequested, device
<1> QED BY <1>1, <1>2, <1>3 DEF StreamHolds

(* Every step keeps the inductive invariant.                                *)
LEMMA StepIInv == IInv /\ [Next]_vars => IInv'
<1> SUFFICES ASSUME IInv, [Next]_vars PROVE IInv'
  OBVIOUS
<1> USE CacheAssumption DEF CacheAssumption
<1>0. /\ TypeOK /\ CacheConsistent /\ ExactLru /\ FitsInSlots
      /\ PinnedSlots /\ StreamHolds /\ KernelReadsRequested
  BY DEF IInv
<1>1. TypeOK'
  BY <1>0, StepTypeOK
<1>2. CASE Resolve
  <2>1. Requested \in Experts /\ \E p \in 1 .. Cap : Served(Requested, p)
    BY <1>0, <1>2, ResolveServes
  <2>2. PICK p \in 1 .. Cap : Served(Requested, p)
    BY <2>1
  <2>3. stamp' = [stamp EXCEPT ![Requested] = Now]
    BY <1>2 DEF Resolve
  <2>4. CacheConsistent'
    BY <1>0, <2>1, <2>2, ResolveConsistent
  <2>5. ExactLru'
    BY <1>0, <2>1, <2>2, <2>3, ResolveExactLru
  <2>6. FitsInSlots'
    BY <1>0, <1>2 DEF Resolve, FitsInSlots
  <2>7. PinnedSlots'
    BY <1>0, <1>2, <2>2, ResolvePinned
  <2>8. StreamHolds'
    BY <1>0, <1>2, <2>1, <2>2, ResolveStreamHolds
  <2>9. KernelReadsRequested'
    BY <1>0, <1>2 DEF Resolve, device, KernelReadsRequested
  <2> QED BY <1>1, <2>4, <2>5, <2>6, <2>7, <2>8, <2>9 DEF IInv
<1>3. CASE Forward
  <2>1. UNCHANGED <<host, stream, device>> /\ slot_ids_host' = slot_ids_host
    BY <1>3 DEF Forward
  <2>2. slot_ids_host' = <<>> /\ n_used' <= Cap
    BY <1>0, <1>3, <2>1 DEF Forward, TypeOK, TooManyExperts, host
  <2>3. FitsInSlots' /\ PinnedSlots'
    BY <2>2 DEF FitsInSlots, PinnedSlots
  <2> QED BY <1>0, <1>1, <2>1, <2>3, CacheUnchanged, StreamUnchanged DEF IInv
<1>4. CASE ForwardAborts
  <2>1. UNCHANGED <<host, batch, slot_ids_host, stream, device>> /\ phase' = "aborted"
    BY <1>4 DEF ForwardAborts
  <2>2. FitsInSlots' /\ PinnedSlots'
    BY <1>0, <2>1 DEF FitsInSlots, PinnedSlots, host
  <2> QED BY <1>0, <1>1, <2>1, <2>2, CacheUnchanged, StreamUnchanged DEF IInv
<1>5. CASE StreamSynchronized
  <2>1. UNCHANGED <<host, batch, slot_ids_host, stream, device>> /\ phase = "sync"
    BY <1>5 DEF StreamSynchronized
  <2>2. FitsInSlots' /\ PinnedSlots'
    BY <1>0, <2>1 DEF FitsInSlots, PinnedSlots, host
  <2> QED BY <1>0, <1>1, <2>1, <2>2, CacheUnchanged, StreamUnchanged DEF IInv
<1>6. CASE LaunchToken
  <2>1. UNCHANGED <<host, device>> /\ slot_ids_host' = <<>> /\ phase = "tokens"
    BY <1>6 DEF LaunchToken
  <2>2. FitsInSlots' /\ PinnedSlots'
    BY <1>0, <2>1 DEF FitsInSlots, PinnedSlots, host
  <2>3. StreamHolds'
    BY <1>0, <1>6, LaunchStreamHolds
  <2>4. KernelReadsRequested'
    BY <1>0, <2>1 DEF KernelReadsRequested, device
  <2> QED BY <1>0, <1>1, <2>1, <2>2, <2>3, <2>4, CacheUnchanged DEF IInv
<1>7. CASE StreamStep
  <2>1. UNCHANGED <<host, call>>
    BY <1>7 DEF StreamStep
  <2>2. FitsInSlots' /\ PinnedSlots'
    BY <1>0, <2>1 DEF FitsInSlots, PinnedSlots, host, call
  <2>3. StreamHolds' /\ KernelReadsRequested'
    BY <1>0, <1>7, StreamStepHolds, StreamStepReadsRequested
  <2> QED BY <1>0, <1>1, <2>1, <2>2, <2>3, CacheUnchanged DEF IInv
<1>8. CASE UNCHANGED vars
  <2>1. UNCHANGED <<host, call>> /\ UNCHANGED <<host, stream, device>>
    BY <1>8 DEF vars
  <2>2. FitsInSlots' /\ PinnedSlots'
    BY <1>0, <2>1 DEF FitsInSlots, PinnedSlots, host, call
  <2> QED BY <1>0, <1>1, <2>1, <2>2, CacheUnchanged, StreamUnchanged DEF IInv
<1> QED BY <1>2, <1>3, <1>4, <1>5, <1>6, <1>7, <1>8 DEF Next

(* The inductive invariant holds in every reachable state.                  *)
LEMMA Invariance == Spec => []IInv
  BY InitIInv, StepIInv, PTL DEF Spec

(* The variables of the cache, of the call in progress and of the device    *)
(* keep their types: slots in range, the list of full length, at most       *)
(* n_used slots resolved (moe_cache_state, ggml_cuda_moe_cache_forward).    *)
THEOREM TypeCorrect == Spec => []TypeOK
<1>1. IInv => TypeOK
  BY DEF IInv
<1> QED BY <1>1, Invariance, PTL

(* However many experts, slots and requests there are, expert_slot and      *)
(* slot_expert stay inverse and the LRU list stays a permutation of the     *)
(* slots (moe_cache_resolve).                                               *)
THEOREM CacheStaysConsistent == Spec => []CacheConsistent
<1>1. IInv => CacheConsistent
  BY DEF IInv
<1> QED BY <1>1, Invariance, PTL

(* The resident experts are exactly the most recently requested ones and    *)
(* the list orders them by recency: the eviction policy the analyses of     *)
(* the repository assume is the one the code implements.                    *)
THEOREM CacheIsExactLru == Spec => []ExactLru
<1>1. IInv => ExactLru
  BY DEF IInv
<1> QED BY <1>1, Invariance, PTL

(* No kernel ever multiplies with the weights of an expert its token did    *)
(* not choose, nor with an empty or half recycled slot, whatever the host   *)
(* has evicted since the launch (moe-cache.cu:175-178).                     *)
THEOREM KernelsReadWhatWasRequested == Spec => []KernelReadsRequested
<1>1. IInv => KernelReadsRequested
  BY DEF IInv
<1> QED BY <1>1, Invariance, PTL

-----------------------------------------------------------------------------
(* The tokens that are not computed are the ones of the kernels in the      *)
(* stream and those of the batch, in the order they were submitted.         *)

Launched == Len(submitted) - Len(batch)

(* The i-th of the first n tokens is that of the i-th kernel of the stream. *)
LaunchedAt(f, n, ops, tokens) ==
    /\ \A i, j \in 1 .. n : i < j => f[i] < f[j]
    /\ \A i \in 1 .. n : ops[f[i]] = Kernel(tokens[i])
    /\ \A k \in 1 .. Len(ops) : ops[k].op = "kernel" => \E i \in 1 .. n : f[i] = k

InOrder ==
    /\ submitted \in Seq([1 .. n_used -> Experts])
    /\ Launched \in Nat
    /\ \A i \in 1 .. Len(batch) : submitted[Launched + i] = batch[i]
    /\ \E f \in [1 .. Launched -> 1 .. Len(stream)] :
         LaunchedAt(f, Launched, stream, submitted)

(* A kernel is told by its token.                                           *)
LEMMA KernelOf ==
  ASSUME NEW o \in Operations, o.op = "kernel"
  PROVE  o = Kernel(o.token) /\ o.token \in [1 .. n_used -> Experts]
  BY DEF Operations, Kernel

(* A call adds its tokens behind all others.                                *)
LEMMA ForwardInOrder ==
  ASSUME TypeOK, InOrder, Forward
  PROVE  /\ InOrder'
         /\ \E b \in Seq([1 .. n_used -> Experts]) : b # <<>> /\ submitted' = submitted \o b
<1>1. PICK b \in Batches : batch' = b /\ submitted' = submitted \o b
  BY DEF Forward
<1>2. b \in Seq([1 .. n_used -> Experts]) /\ b # <<>>
  BY <1>1 DEF Batches, TokensOf
<1>3. batch = <<>> /\ n_used' = n_used /\ stream' = stream
  BY DEF Forward, TypeOK, host
<1>4. /\ submitted \in Seq([1 .. n_used -> Experts]) /\ Launched = Len(submitted)
      /\ Len(submitted) \in Nat /\ Len(b) \in Nat
  BY <1>2, <1>3 DEF InOrder, Launched
<1>5. /\ submitted' \in Seq([1 .. n_used' -> Experts])
      /\ Len(submitted') = Len(submitted) + Len(b)
      /\ \A i \in 1 .. Len(submitted) : submitted'[i] = submitted[i]
      /\ \A i \in 1 .. Len(b) : submitted'[Len(submitted) + i] = b[i]
  BY <1>1, <1>2, <1>3, <1>4, ConcatProperties
<1>6. Launched' = Launched
  BY <1>1, <1>4, <1>5 DEF Launched
<1>7. PICK f \in [1 .. Launched -> 1 .. Len(stream)] :
          LaunchedAt(f, Launched, stream, submitted)
  BY DEF InOrder
<1>8. LaunchedAt(f, Launched', stream', submitted')
  BY <1>3, <1>4, <1>5, <1>6, <1>7 DEF LaunchedAt, Kernel
<1>9. InOrder'
  BY <1>1, <1>3, <1>4, <1>5, <1>6, <1>8 DEF InOrder
<1> QED BY <1>1, <1>2, <1>9

(* A miss enqueues a copy, which is no kernel.                              *)
LEMMA ResolveInOrder ==
  ASSUME TypeOK, InOrder, Resolve
  PROVE  InOrder'
<1>1. UNCHANGED <<n_used, batch, submitted>> /\ Launched' = Launched
  BY DEF Resolve, Launched
<1>2. stream' = stream \/ \E s, e : stream' = Append(stream, Fetch(s, e))
  BY DEF Resolve, Hit, Miss
<1>3. PICK f \in [1 .. Launched -> 1 .. Len(stream)] :
          LaunchedAt(f, Launched, stream, submitted)
  BY DEF InOrder
<1>4. Launched \in Nat /\ stream \in Seq(Operations) /\ Len(stream) \in Nat
  BY DEF InOrder, TypeOK
<1>5. /\ Len(stream') \in {Len(stream), Len(stream) + 1}
      /\ \A k \in 1 .. Len(stream) : stream'[k] = stream[k]
      /\ \A k \in 1 .. Len(stream') : k > Len(stream) => stream'[k].op # "kernel"
  <2>1. CASE stream' = stream
    BY <1>4, <2>1
  <2>2. ASSUME NEW s, NEW e, stream' = Append(stream, Fetch(s, e))
        PROVE  /\ Len(stream') = Len(stream) + 1
               /\ \A k \in 1 .. Len(stream) : stream'[k] = stream[k]
               /\ stream'[Len(stream) + 1].op # "kernel"
    <3> DEFINE o == Fetch(s, e)
    <3>1. o.op # "kernel"
      BY DEF Fetch
    <3> HIDE DEF o
    <3>2. stream' = Append(stream, o) /\ stream \in Seq(Operations \cup {o})
      BY <1>4, <2>2 DEF o
    <3> QED BY <3>1, <3>2
  <2> QED BY <1>2, <1>4, <2>1, <2>2
<1>6. f \in [1 .. Launched' -> 1 .. Len(stream')]
  BY <1>1, <1>3, <1>4, <1>5
<1>7. LaunchedAt(f, Launched', stream', submitted')
  <2>1. \A i \in 1 .. Launched : stream'[f[i]] = Kernel(submitted[i])
    BY <1>3, <1>4, <1>5 DEF LaunchedAt
  <2>2. \A k \in 1 .. Len(stream') : stream'[k].op = "kernel" =>
            \E i \in 1 .. Launched : f[i] = k
    BY <1>3, <1>4, <1>5 DEF LaunchedAt
  <2> QED BY <1>1, <1>3, <2>1, <2>2 DEF LaunchedAt, Kernel
<1> QED BY <1>1, <1>6, <1>7 DEF InOrder

(* The kernel of the first token of the batch is enqueued behind the others. *)
LEMMA LaunchInOrder ==
  ASSUME TypeOK, InOrder, LaunchToken
  PROVE  InOrder'
<1> DEFINE n == Launched
           m == Len(stream)
<1>1. /\ batch \in Seq([1 .. n_used -> Experts]) /\ batch # <<>>
      /\ batch' = Tail(batch) /\ UNCHANGED <<n_used, submitted>>
      /\ stream' = stream \o <<Upload(slot_ids_host), Kernel(Head(batch))>>
  BY DEF TypeOK, LaunchToken, host
<1>2. /\ n \in Nat /\ m \in Nat /\ Len(submitted) \in Nat
      /\ stream \in Seq(Operations) /\ Len(batch) \in Nat
  <2>1. n \in Nat /\ submitted \in Seq([1 .. n_used -> Experts])
    BY DEF InOrder
  <2>2. stream \in Seq(Operations)
    BY DEF TypeOK
  <2> QED BY <1>1, <2>1, <2>2, LenProperties
<1>3. /\ Len(batch') = Len(batch) - 1 /\ Len(batch) > 0
      /\ \A i \in 1 .. Len(batch') : batch'[i] = batch[i + 1]
      /\ Head(batch) = batch[1]
  BY <1>1, <1>2, HeadTailProperties
<1>4. Launched' = n + 1
  BY <1>1, <1>2, <1>3 DEF Launched
<1>5. submitted[n + 1] = Head(batch)
  BY <1>2, <1>3 DEF InOrder
<1>6. /\ Len(stream') = m + 2
      /\ \A k \in 1 .. m : stream'[k] = stream[k]
      /\ stream'[m + 1] = Upload(slot_ids_host) /\ stream'[m + 2] = Kernel(Head(batch))
  <2> DEFINE u == Upload(slot_ids_host)
             k == Kernel(Head(batch))
  <2> HIDE DEF u, k
  <2>1. stream' = stream \o <<u, k>> /\ stream \in Seq(Operations \cup {u, k})
    BY <1>1, <1>2 DEF u, k
  <2>2. Len(stream') = m + 2 /\ stream'[m + 1] = u /\ stream'[m + 2] = k
        /\ \A i \in 1 .. m : stream'[i] = stream[i]
    BY <2>1
  <2> QED BY <2>2 DEF u, k
<1>7. PICK f \in [1 .. n -> 1 .. m] : LaunchedAt(f, n, stream, submitted)
  BY DEF InOrder
<1> DEFINE g == [i \in 1 .. n + 1 |-> IF i = n + 1 THEN m + 2 ELSE f[i]]
<1>8. g \in [1 .. n + 1 -> 1 .. m + 2]
  BY <1>2, <1>7
<1>9. /\ g[n + 1] = m + 2
      /\ \A i \in 1 .. n + 1 : i # n + 1 => i \in 1 .. n /\ g[i] = f[i] /\ f[i] \in 1 .. m
  BY <1>2, <1>7
<1> HIDE DEF n, m, g
<1>10. LaunchedAt(g, n + 1, stream', submitted')
  <2>1. ASSUME NEW i \in 1 .. n + 1, NEW j \in 1 .. n + 1, i < j
        PROVE  g[i] < g[j]
    <3>1. i # n + 1 /\ i \in 1 .. n /\ g[i] = f[i] /\ f[i] \in 1 .. m
      BY <1>2, <1>9, <2>1
    <3>2. CASE j = n + 1
      BY <1>2, <1>9, <3>1, <3>2
    <3>3. CASE j # n + 1
      <4>1. j \in 1 .. n /\ g[j] = f[j]
        BY <1>9, <3>3
      <4>2. f[i] < f[j]
        BY <1>7, <2>1, <3>1, <4>1 DEF LaunchedAt
      <4> QED BY <3>1, <4>1, <4>2
    <3> QED BY <3>2, <3>3
  <2>2. ASSUME NEW i \in 1 .. n + 1
        PROVE  stream'[g[i]] = Kernel(submitted[i])
    <3>1. CASE i = n + 1
      BY <1>5, <1>6, <1>9, <3>1
    <3>2. CASE i # n + 1
      BY <1>6, <1>7, <1>9, <3>2 DEF LaunchedAt
    <3> QED BY <3>1, <3>2
  <2>3. ASSUME NEW k \in 1 .. m + 2, stream'[k].op = "kernel"
        PROVE  \E i \in 1 .. n + 1 : g[i] = k
    <3>1. k # m + 1
      BY <1>6, <2>3 DEF Upload
    <3>2. CASE k = m + 2
      BY <1>2, <1>9, <3>2
    <3>3. CASE k \in 1 .. m
      <4>1. stream[k].op = "kernel"
        BY <1>6, <2>3, <3>3
      <4>2. PICK i \in 1 .. n : f[i] = k
        BY <1>7, <3>3, <4>1 DEF LaunchedAt, m
      <4>3. i \in 1 .. n + 1 /\ i # n + 1
        BY <1>2
      <4> QED BY <1>9, <4>2, <4>3
    <3> QED BY <1>2, <3>1, <3>2, <3>3
  <2> QED BY <1>1, <1>6, <2>1, <2>2, <2>3 DEF LaunchedAt, Kernel
<1>11. \A i \in 1 .. Len(batch') : submitted'[Launched' + i] = batch'[i]
  <2>1. ASSUME NEW i \in 1 .. Len(batch')
        PROVE  submitted[(n + 1) + i] = batch'[i]
    <3>1. i + 1 \in 1 .. Len(batch) /\ n + (i + 1) = (n + 1) + i
      BY <1>2, <1>3
    <3>2. submitted[n + (i + 1)] = batch[i + 1]
      BY <3>1 DEF InOrder, n
    <3> QED BY <1>3, <3>1, <3>2
  <2> QED BY <1>1, <1>4, <2>1
<1>12. submitted' \in Seq([1 .. n_used' -> Experts])
  BY <1>1 DEF InOrder
<1>13. Launched' \in Nat
  BY <1>2, <1>4
<1> QED BY <1>4, <1>6, <1>8, <1>10, <1>11, <1>12, <1>13 DEF InOrder

(* What the device executes next is no kernel, or the kernel of the oldest  *)
(* token that is not computed.                                              *)
LEMMA StreamStepInOrder ==
  ASSUME TypeOK, InOrder, StreamStep
  PROVE  /\ InOrder'
         /\ \/ UNCHANGED <<submitted, result>>
            \/ /\ submitted # <<>> /\ wanted' = Head(submitted)
               /\ submitted' = Tail(submitted)
<1> DEFINE n == Launched
           m == Len(stream)
           o == Head(stream)
<1>1. /\ stream # <<>> /\ stream' = Tail(stream) /\ Execute(o)
      /\ UNCHANGED <<n_used, batch>>
  BY DEF StreamStep, host, call
<1>2. /\ n \in Nat /\ m \in Nat /\ Len(submitted) \in Nat /\ Len(batch) \in Nat
      /\ stream \in Seq(Operations) /\ submitted \in Seq([1 .. n_used -> Experts])
      /\ n = Len(submitted) - Len(batch)
  <2>1. n \in Nat /\ submitted \in Seq([1 .. n_used -> Experts])
    BY DEF InOrder
  <2>2. stream \in Seq(Operations) /\ batch \in Seq([1 .. n_used -> Experts])
    BY DEF TypeOK
  <2> QED BY <2>1, <2>2, LenProperties DEF Launched
<1>3. /\ m > 0 /\ o = stream[1] /\ o \in Operations /\ Len(stream') = m - 1
      /\ \A k \in 1 .. m - 1 : stream'[k] = stream[k + 1]
  BY <1>1, <1>2, HeadTailProperties
<1>4. PICK f \in [1 .. n -> 1 .. m] : LaunchedAt(f, n, stream, submitted)
  BY DEF InOrder
<1>5. Launched' = Len(submitted') - Len(batch)
  BY <1>1 DEF Launched
<1>6. CASE o.op # "kernel"
  <2>1. UNCHANGED <<submitted, result>>
    BY <1>1, <1>6 DEF Execute
  <2>2. Launched' = n
    BY <1>2, <1>5, <2>1
  <2> DEFINE g == [i \in 1 .. n |-> f[i] - 1]
  <2>3. ASSUME NEW i \in 1 .. n
        PROVE  f[i] \in 1 .. m /\ f[i] \in Int /\ stream[f[i]].op = "kernel"
    <3>1. f[i] \in 1 .. m
      BY <1>4
    <3>2. stream[f[i]] = Kernel(submitted[i])
      BY <1>4 DEF LaunchedAt
    <3> QED BY <3>1, <3>2 DEF Kernel
  <2>4. \A i \in 1 .. n : f[i] # 1 /\ g[i] = f[i] - 1 /\ g[i] \in 1 .. m - 1
    BY <1>2, <1>3, <1>6, <2>3
  <2>5. g \in [1 .. n -> 1 .. m - 1]
    BY <2>4
  <2> HIDE DEF n, m, o, g
  <2>6. LaunchedAt(g, n, stream', submitted')
    <3>1. \A i, j \in 1 .. n : i < j => g[i] < g[j]
      <4>1. ASSUME NEW i \in 1 .. n, NEW j \in 1 .. n, i < j
            PROVE  g[i] < g[j]
        <5>1. f[i] < f[j]
          BY <1>4, <4>1 DEF LaunchedAt
        <5> QED BY <2>3, <2>4, <5>1
      <4> QED BY <4>1
    <3>2. ASSUME NEW i \in 1 .. n PROVE stream'[g[i]] = Kernel(submitted[i])
      <4>1. stream'[g[i]] = stream[g[i] + 1] /\ g[i] + 1 = f[i]
        <5>1. f[i] \in Int /\ g[i] = f[i] - 1 /\ g[i] \in 1 .. m - 1
          BY <2>3, <2>4
        <5> QED BY <1>3, <5>1
      <4> QED BY <1>4, <4>1 DEF LaunchedAt
    <3>3. ASSUME NEW k \in 1 .. m - 1, stream'[k].op = "kernel"
          PROVE  \E i \in 1 .. n : g[i] = k
      <4>1. k + 1 \in 1 .. m /\ stream[k + 1].op = "kernel"
        BY <1>2, <1>3, <3>3
      <4>2. PICK i \in 1 .. n : f[i] = k + 1
        BY <1>4, <4>1 DEF LaunchedAt, m
      <4>3. g[i] = (k + 1) - 1 /\ (k + 1) - 1 = k
        BY <2>4, <4>2
      <4> QED BY <4>3
    <3> QED BY <1>3, <2>1, <3>1, <3>2, <3>3 DEF LaunchedAt, Kernel
  <2>7. InOrder'
    <3>1. \A i \in 1 .. Len(batch') : submitted'[n + i] = batch'[i]
      BY <1>1, <2>1 DEF InOrder, n
    <3> QED BY <1>1, <1>2, <1>3, <2>1, <2>2, <2>5, <2>6, <3>1 DEF InOrder
  <2> QED BY <2>1, <2>7
<1>7. CASE o.op = "kernel"
  <2>1. submitted' = Tail(submitted) /\ wanted' = o.token
    BY <1>1, <1>7 DEF Execute
  <2>2. o = Kernel(o.token)
    BY <1>3, <1>7, KernelOf
  <2>3. 1 \in 1 .. n /\ f[1] = 1
    <3>1. PICK i \in 1 .. n : f[i] = 1
      <4>1. 1 \in 1 .. m /\ stream[1].op = "kernel"
        BY <1>2, <1>3, <1>7
      <4> QED BY <1>4, <4>1 DEF LaunchedAt
    <3>2. 1 \in 1 .. n
      BY <1>2, <3>1
    <3>3. f[1] \in 1 .. m
      BY <1>4, <3>2
    <3>4. ~(1 < i)
      <4>1. ASSUME 1 < i PROVE f[1] < f[i]
        BY <1>4, <3>1, <3>2, <4>1 DEF LaunchedAt
      <4> QED BY <1>2, <3>1, <3>3, <4>1
    <3>5. i = 1
      BY <1>2, <3>1, <3>4
    <3> QED BY <3>1, <3>2, <3>5
  <2>4. Kernel(submitted[1]) = Kernel(o.token)
    BY <1>3, <1>4, <2>2, <2>3 DEF LaunchedAt
  <2>5. submitted[1] = o.token
    BY <2>4 DEF Kernel
  <2>6. /\ submitted # <<>> /\ Head(submitted) = submitted[1]
        /\ submitted' \in Seq([1 .. n_used -> Experts])
        /\ Len(submitted') = Len(submitted) - 1
        /\ \A i \in 1 .. Len(submitted) - 1 : submitted'[i] = submitted[i + 1]
    <3>1. Len(submitted) >= 1
      BY <1>2, <2>3
    <3>2. submitted # <<>>
      BY <1>2, <3>1
    <3> QED BY <1>2, <2>1, <3>2, HeadTailProperties
  <2>7. Launched' = n - 1 /\ n - 1 \in Nat /\ n <= Len(submitted)
    BY <1>2, <1>5, <2>3, <2>6
  <2> DEFINE g == [i \in 1 .. n - 1 |-> f[i + 1] - 1]
  <2>8. \A i \in 1 .. n : f[i] \in 1 .. m
    BY <1>4
  <2>9. \A i \in 1 .. n - 1 :
            /\ i + 1 \in 1 .. n /\ f[i + 1] > 1
            /\ g[i] = f[i + 1] - 1 /\ g[i] \in 1 .. m - 1
    <3>1. ASSUME NEW i \in 1 .. n - 1 PROVE i + 1 \in 1 .. n /\ f[1] < f[i + 1]
      BY <1>2, <1>4, <2>3 DEF LaunchedAt
    <3> QED BY <1>2, <2>3, <2>8, <3>1
  <2>10. g \in [1 .. n - 1 -> 1 .. m - 1]
    BY <2>9
  <2> HIDE DEF n, m, o, g
  <2>11. LaunchedAt(g, n - 1, stream', submitted')
    <3>1. ASSUME NEW i \in 1 .. n - 1, NEW j \in 1 .. n - 1, i < j
          PROVE  g[i] < g[j]
      <4>1. i + 1 < j + 1 /\ f[i + 1] < f[j + 1]
        BY <1>2, <1>4, <2>9, <3>1 DEF LaunchedAt
      <4> QED BY <1>2, <2>8, <2>9, <4>1
    <3>2. ASSUME NEW i \in 1 .. n - 1 PROVE stream'[g[i]] = Kernel(submitted'[i])
      <4>1. stream'[g[i]] = stream[g[i] + 1] /\ g[i] + 1 = f[i + 1]
        <5>1. f[i + 1] \in Int /\ g[i] = f[i + 1] - 1 /\ g[i] \in 1 .. m - 1
          BY <2>8, <2>9
        <5> QED BY <1>3, <5>1
      <4>2. submitted'[i] = submitted[i + 1]
        BY <1>2, <2>6, <2>7
      <4> QED BY <1>4, <2>9, <4>1, <4>2 DEF LaunchedAt
    <3>3. ASSUME NEW k \in 1 .. m - 1, stream'[k].op = "kernel"
          PROVE  \E i \in 1 .. n - 1 : g[i] = k
      <4>1. k + 1 \in 1 .. m /\ stream[k + 1].op = "kernel"
        BY <1>2, <1>3, <3>3
      <4>2. PICK i \in 1 .. n : f[i] = k + 1
        BY <1>4, <4>1 DEF LaunchedAt, m
      <4>3. i # 1 /\ i - 1 \in 1 .. n - 1 /\ (i - 1) + 1 = i
        BY <1>2, <2>3, <4>2
      <4>4. g[i - 1] = f[i] - 1 /\ f[i] - 1 = k
        BY <2>9, <4>2, <4>3
      <4> QED BY <4>3, <4>4
    <3> QED BY <1>3, <3>1, <3>2, <3>3 DEF LaunchedAt, Kernel
  <2>12. \A i \in 1 .. Len(batch) : submitted'[(n - 1) + i] = batch[i]
    <3>1. ASSUME NEW i \in 1 .. Len(batch)
          PROVE  /\ (n - 1) + i \in 1 .. Len(submitted) - 1
                 /\ ((n - 1) + i) + 1 = n + i /\ submitted[n + i] = batch[i]
      BY <1>2, <2>3 DEF InOrder, n
    <3> QED BY <2>6, <3>1
  <2>13. InOrder'
    BY <1>1, <1>3, <2>6, <2>7, <2>10, <2>11, <2>12 DEF InOrder
  <2> QED BY <2>1, <2>5, <2>6, <2>13
<1> QED BY <1>6, <1>7

(* Nothing is submitted or launched by the other steps.                     *)
LEMMA OrderUnchanged ==
  ASSUME InOrder, UNCHANGED <<n_used, batch, stream, submitted>>
  PROVE  InOrder'
<1>1. Launched' = Launched
  BY DEF Launched
<1> QED BY <1>1 DEF InOrder

(* Every step of the cache is a step of the uncached path, or none of it.   *)
LEMMA StepUncached ==
  ASSUME IInv, IInv', InOrder, [Next]_vars
  PROVE  InOrder' /\ [Uncached!Next]_(Uncached!vars)
<1> USE DEF Uncached!vars
<1>0. TypeOK /\ KernelReadsRequested'
  BY DEF IInv
<1>1. CASE Resolve
  <2>1. UNCHANGED <<submitted, result>>
    BY <1>1 DEF Resolve, device
  <2> QED BY <1>0, <1>1, <2>1, ResolveInOrder
<1>2. CASE Forward
  <2>1. PICK b \in Seq([1 .. n_used -> Experts]) : b # <<>> /\ submitted' = submitted \o b
    BY <1>0, <1>2, ForwardInOrder
  <2>2. result' = result
    BY <1>2 DEF Forward, device
  <2>3. submitted \in Seq([1 .. n_used -> Experts]) /\ n_used \in Nat
    BY <1>0, CacheAssumption DEF InOrder, TypeOK, CacheAssumption
  <2>4. \A t \in [1 .. n_used -> Experts] : t \in Seq(Experts)
    BY <2>3
  <2>5. Uncached!Submit
    <3>1. /\ Len(submitted) \in Nat /\ Len(b) \in Nat /\ Len(b) > 0
          /\ Len(submitted') = Len(submitted) + Len(b)
          /\ \A i \in 1 .. Len(submitted) : submitted'[i] = submitted[i]
          /\ \A i \in 1 .. Len(b) : submitted'[Len(submitted) + i] = b[i]
      BY <2>1, <2>3, ConcatProperties, EmptySequence
    <3>2. \A i \in 1 .. Len(b) : b[i] \in Seq(Experts)
      BY <2>1, <2>4
    <3>3. ASSUME NEW i \in 1 .. Len(submitted'), i > Len(submitted)
          PROVE  submitted'[i] \in Seq(Experts)
      <4> DEFINE k == i - Len(submitted)
      <4>1. k \in 1 .. Len(b) /\ Len(submitted) + k = i
        BY <3>1, <3>3
      <4> HIDE DEF k
      <4>2. submitted'[Len(submitted) + k] = b[k]
        BY <3>1, <4>1
      <4> QED BY <3>2, <4>1, <4>2
    <3> QED BY <2>2, <3>1, <3>3 DEF Uncached!Submit
  <2> QED BY <1>0, <1>2, <2>5, ForwardInOrder DEF Uncached!Next
<1>3. CASE ForwardAborts
  BY <1>3, OrderUnchanged DEF ForwardAborts, host, device
<1>4. CASE StreamSynchronized
  BY <1>4, OrderUnchanged DEF StreamSynchronized, host, device
<1>5. CASE LaunchToken
  <2>1. UNCHANGED <<submitted, result>>
    BY <1>5 DEF LaunchToken, device
  <2> QED BY <1>0, <1>5, <2>1, LaunchInOrder
<1>6. CASE StreamStep
  <2>1. InOrder' /\ \/ UNCHANGED <<submitted, result>>
                    \/ /\ submitted # <<>> /\ wanted' = Head(submitted)
                       /\ submitted' = Tail(submitted)
    BY <1>0, <1>6, StreamStepInOrder
  <2> QED BY <1>0, <2>1 DEF KernelReadsRequested, Uncached!Next, Uncached!Compute
<1>7. CASE UNCHANGED vars
  BY <1>7, OrderUnchanged DEF vars, host, call, device
<1> QED BY <1>1, <1>2, <1>3, <1>4, <1>5, <1>6, <1>7 DEF Next

(* Nothing is submitted at first.                                           *)
LEMMA InitUncached == Init => InOrder /\ Uncached!Init
<1> SUFFICES ASSUME Init PROVE InOrder /\ Uncached!Init
  OBVIOUS
<1>1. submitted = <<>> /\ batch = <<>> /\ stream = <<>> /\ result = None
  BY DEF Init
<1>2. Launched = 0
  BY <1>1 DEF Launched
<1>3. submitted \in Seq([1 .. n_used -> Experts])
  BY <1>1
<1>4. \E f \in [1 .. 0 -> 1 .. Len(stream)] : LaunchedAt(f, 0, stream, submitted)
  <2> DEFINE f == [i \in 1 .. 0 |-> 0]
  <2>1. f \in [1 .. 0 -> 1 .. Len(stream)]
    OBVIOUS
  <2>2. LaunchedAt(f, 0, stream, submitted)
    BY <1>1 DEF LaunchedAt
  <2> QED BY <2>1, <2>2
<1>5. Launched \in Nat /\ \A i \in 1 .. Len(batch) : submitted[Launched + i] = batch[i]
  BY <1>1, <1>2
<1>6. InOrder
  BY <1>2, <1>3, <1>4, <1>5 DEF InOrder
<1> QED BY <1>1, <1>6 DEF Uncached!Init

(* Whatever is cached, evicted and still in the stream, the cache computes  *)
(* what mul_mat_id computes with all weights in device memory: the tokens   *)
(* of the calls in the order they were submitted, each with its own experts *)
(* (ggml_cuda_moe_cache_forward).                                           *)
THEOREM ComputesUncached == Spec => Uncached!Safety
<1>1. IInv /\ InOrder /\ [Next]_vars => InOrder' /\ [Uncached!Next]_(Uncached!vars)
  BY StepIInv, StepUncached
<1> QED BY <1>1, InitIInv, StepIInv, InitUncached, PTL DEF Spec, Uncached!Safety

==============================================================================
