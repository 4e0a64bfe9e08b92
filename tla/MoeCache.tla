------------------------------- MODULE MoeCache -------------------------------
(***************************************************************************)
(* The VRAM cache of one fused expert tensor (moe-cache.cu).  The host     *)
(* resolves each requested expert to one of Cap slots, evicting the least  *)
(* recently used one, and enqueues the copy of the expert's slice, the     *)
(* upload of the slot ids and the kernel on the context's one CUDA stream. *)
(* The stream runs them later, in order, while the host goes on resolving. *)
(*                                                                         *)
(* The ids of a batch, the order of the host's steps and the LRU list are  *)
(* modelled step by step; a weight slice is the expert it belongs to.      *)
(***************************************************************************)
EXTENDS Integers, Sequences, FiniteSets

CONSTANTS Experts,      (* the experts of the tensor (n_experts of them)     *)
          None,         (* no expert: an empty slot, uninitialised memory    *)
          Cap,          (* slots of the tensor (cap, ne[2])                  *)
          MaxUsed,      (* bound: experts per token (n_used = ids->ne[0])    *)
          MaxTokens,    (* bound: tokens per call (ids->ne[1])               *)
          MaxRequests   (* bound: experts requested over the whole run       *)

ASSUME CacheAssumption ==
    /\ Cap \in Nat \ {0}                                \* get_config
    /\ IsFiniteSet(Experts) /\ Cardinality(Experts) > Cap  \* register
    /\ None \notin Experts
    /\ MaxUsed \in Nat \ {0}
    /\ MaxTokens \in Nat \ {0}
    /\ MaxRequests \in Nat

Slots == 0 .. Cap - 1
NoSlot == -1

VARIABLES
    n_used,         (* experts per token, fixed by the model that was loaded *)
    expert_slot,    (* expert -> its slot, or NoSlot                         *)
    slot_expert,    (* slot -> the expert resolved to it, or None            *)
    lru,            (* the slots, most recently used first                   *)
    hits, misses,   (* the counters of the statistics                        *)
    phase,          (* where the host is in ggml_cuda_moe_cache_forward      *)
    batch,          (* the tokens of the call that are not launched yet      *)
    slot_ids_host,  (* slots resolved so far for the first token of batch    *)
    stream,         (* operations enqueued and not executed, oldest first    *)
    vram,           (* slot -> the expert whose slice its memory holds       *)
    slot_ids_dev,   (* the device buffer the kernel reads its slots from     *)
    result,         (* the experts the last kernel multiplied with           *)
    wanted,         (* history: the experts the router chose for that token  *)
    stamp,          (* history: expert -> when it was last requested         *)
    submitted       (* history: the tokens of the calls so far that are not  *)
                    (* computed, oldest first                                *)

host    == <<n_used, expert_slot, slot_expert, lru, hits, misses, stamp>>
call    == <<phase, batch, slot_ids_host>>
device  == <<vram, slot_ids_dev, result, wanted>>
vars    == <<host, call, stream, device, submitted>>

(* The router picks the top n experts of a token: n different ones.         *)
TokensOf(n) == {t \in [1 .. n -> Experts] : \A i, j \in 1 .. n : t[i] = t[j] => i = j}

Fetch(slot, expert) == [op |-> "fetch", slot |-> slot, expert |-> expert]
Upload(slots)       == [op |-> "upload", slots |-> slots]
Kernel(token)       == [op |-> "kernel", token |-> token]

\* Mutant: the slots are counted from one when they are pushed.
RegisteredListFromOne == [i \in 1 .. Cap |-> Cap - i + 1]

RegisteredList == [i \in 1 .. Cap |-> Cap - i]

(* The state ggml_cuda_moe_cache_register leaves: no expert resident, slot  *)
(* Cap - 1 pushed to the front of the list last, nothing on the device.     *)
Init ==
    /\ n_used \in 1 .. MaxUsed
    /\ expert_slot = [e \in Experts |-> NoSlot]
    /\ slot_expert = [s \in Slots |-> None]
    /\ lru = RegisteredList
    /\ hits = 0 /\ misses = 0
    /\ phase = "idle" /\ batch = <<>> /\ slot_ids_host = <<>>
    /\ stream = <<>>
    /\ vram = [s \in Slots |-> None]
    /\ slot_ids_dev = [i \in 1 .. n_used |-> NoSlot]
    /\ result = None /\ wanted = None
    /\ stamp = [e \in Experts |-> 0]
    /\ submitted = <<>>

-----------------------------------------------------------------------------
(* moe_cache_resolve                                                        *)

(* lru.erase(lru_pos[slot]) and lru.push_front(slot), slot at position p.   *)
MoveToFront(p) ==
    [i \in 1 .. Cap |-> IF i = 1 THEN lru[p]
                        ELSE IF i <= p THEN lru[i - 1]
                        ELSE lru[i]]

PositionOf(slot) == CHOOSE p \in 1 .. Cap : lru[p] = slot

Requested == Head(batch)[Len(slot_ids_host) + 1]
Now == hits + misses + 1

\* Mutant: a hit does not refresh the recency of the slot.
HitKeepsOrder(e) ==
    /\ expert_slot[e] # NoSlot
    /\ hits' = hits + 1
    /\ slot_ids_host' = Append(slot_ids_host, expert_slot[e])
    /\ UNCHANGED <<lru, expert_slot, slot_expert, misses, stream>>

Hit(e) ==
    /\ expert_slot[e] # NoSlot
    /\ lru' = MoveToFront(PositionOf(expert_slot[e]))
    /\ hits' = hits + 1
    /\ slot_ids_host' = Append(slot_ids_host, expert_slot[e])
    /\ UNCHANGED <<expert_slot, slot_expert, misses, stream>>

\* Mutant: the evicted expert keeps its slot in expert_slot.
MissKeepsEvicted(e) ==
    LET slot == lru[Cap] IN
    /\ expert_slot[e] = NoSlot
    /\ lru' = MoveToFront(Cap)
    /\ stream' = Append(stream, Fetch(slot, e))
    /\ expert_slot' = [expert_slot EXCEPT ![e] = slot]
    /\ slot_expert' = [slot_expert EXCEPT ![slot] = e]
    /\ misses' = misses + 1
    /\ slot_ids_host' = Append(slot_ids_host, slot)
    /\ UNCHANGED hits

Miss(e) ==
    LET slot    == lru[Cap]
        evicted == slot_expert[slot]
    IN
    /\ expert_slot[e] = NoSlot
    /\ lru' = MoveToFront(Cap)
    /\ stream' = Append(stream, Fetch(slot, e))
    /\ expert_slot' = [x \in Experts |-> IF x = e THEN slot
                                         ELSE IF x = evicted THEN NoSlot
                                         ELSE expert_slot[x]]
    /\ slot_expert' = [slot_expert EXCEPT ![slot] = e]
    /\ misses' = misses + 1
    /\ slot_ids_host' = Append(slot_ids_host, slot)
    /\ UNCHANGED hits

Resolve ==
    /\ phase = "tokens"
    /\ Len(slot_ids_host) < n_used
    /\ Hit(Requested) \/ Miss(Requested)
    /\ stamp' = [stamp EXCEPT ![Requested] = Now]
    /\ UNCHANGED <<n_used, phase, batch, device, submitted>>

-----------------------------------------------------------------------------
(* ggml_cuda_moe_cache_forward                                              *)

Batches == UNION {[1 .. k -> TokensOf(n_used)] : k \in 1 .. MaxTokens}

\* Mutant: the assertion that a token's experts fit the slots is left out.
TooManyExpertsNever == FALSE

(* GGML_ASSERT(cap >= ids->ne[0])                                           *)
TooManyExperts == Cap < n_used

ForwardAborts ==
    /\ phase = "idle"
    /\ TooManyExperts
    /\ phase' = "aborted"
    /\ UNCHANGED <<host, batch, slot_ids_host, stream, device, submitted>>

(* The ids are copied from a host buffer at once, or downloaded through the *)
(* stream: then the host waits until the stream has run everything.         *)
Forward ==
    /\ phase = "idle"
    /\ ~TooManyExperts
    /\ \E b \in Batches :
         /\ hits + misses + Len(b) * n_used <= MaxRequests
         /\ batch' = b
         /\ submitted' = submitted \o b
    /\ phase' \in {"tokens", "sync"}
    /\ UNCHANGED <<host, slot_ids_host, stream, device>>

StreamSynchronized ==
    /\ phase = "sync"
    /\ stream = <<>>
    /\ phase' = "tokens"
    /\ UNCHANGED <<host, batch, slot_ids_host, stream, device, submitted>>

(* The upload reads slot_ids_host before the call returns (pageable memory  *)
(* is staged), the device buffer is written when the stream gets there.     *)
LaunchToken ==
    /\ phase = "tokens"
    /\ Len(slot_ids_host) = n_used
    /\ stream' = stream \o <<Upload(slot_ids_host), Kernel(Head(batch))>>
    /\ batch' = Tail(batch)
    /\ slot_ids_host' = <<>>
    /\ phase' = IF Len(batch) = 1 THEN "idle" ELSE "tokens"
    /\ UNCHANGED <<host, device, submitted>>

-----------------------------------------------------------------------------
(* The CUDA stream: one operation at a time, in the order of the enqueues.  *)

Execute(o) ==
    \/ /\ o.op = "fetch"
       /\ vram' = [vram EXCEPT ![o.slot] = o.expert]
       /\ UNCHANGED <<slot_ids_dev, result, wanted, submitted>>
    \/ /\ o.op = "upload"
       /\ slot_ids_dev' = o.slots
       /\ UNCHANGED <<vram, result, wanted, submitted>>
    \/ /\ o.op = "kernel"
       /\ result' = [i \in 1 .. n_used |-> vram[slot_ids_dev[i]]]
       /\ wanted' = o.token
       /\ submitted' = Tail(submitted)
       /\ UNCHANGED <<vram, slot_ids_dev>>

\* Mutant: the fetches go through a copy stream of their own, and nothing
\* orders them with the kernels.
StreamStepUnordered ==
    /\ \E i \in DOMAIN stream :
         /\ i = 1 \/ stream[i].op = "fetch"
         /\ Execute(stream[i])
         /\ stream' = SubSeq(stream, 1, i - 1) \o SubSeq(stream, i + 1, Len(stream))
    /\ UNCHANGED <<host, call>>

StreamStep ==
    /\ stream # <<>>
    /\ Execute(Head(stream))
    /\ stream' = Tail(stream)
    /\ UNCHANGED <<host, call>>

-----------------------------------------------------------------------------
Next ==
    \/ Resolve
    \/ Forward
    \/ ForwardAborts
    \/ StreamSynchronized
    \/ LaunchToken
    \/ StreamStep

(* The device makes progress by itself, and a call that has started runs to *)
(* its end; nobody has to start another one.                                *)
Fairness ==
    /\ WF_vars(Resolve)
    /\ WF_vars(StreamSynchronized)
    /\ WF_vars(LaunchToken)
    /\ WF_vars(StreamStep)

Spec == Init /\ [][Next]_vars /\ Fairness

-----------------------------------------------------------------------------
(* Properties                                                               *)

Operations ==
         [op : {"fetch"}, slot : Slots, expert : Experts]
    \cup [op : {"upload"}, slots : [1 .. n_used -> Slots]]
    \cup [op : {"kernel"}, token : [1 .. n_used -> Experts]]

(* Every variable keeps its type.                                           *)
TypeOK ==
    /\ n_used \in 1 .. MaxUsed
    /\ expert_slot \in [Experts -> Slots \cup {NoSlot}]
    /\ slot_expert \in [Slots -> Experts \cup {None}]
    /\ lru \in [1 .. Cap -> Slots]
    /\ hits \in Nat /\ misses \in Nat
    /\ phase \in {"idle", "sync", "tokens", "aborted"}
    /\ batch \in Seq([1 .. n_used -> Experts])
    /\ (batch = <<>>) <=> (phase \in {"idle", "aborted"})
    /\ slot_ids_host \in Seq(Slots) /\ Len(slot_ids_host) <= n_used
    /\ phase # "tokens" => slot_ids_host = <<>>
    /\ stream \in Seq(Operations)
    /\ vram \in [Slots -> Experts \cup {None}]
    /\ slot_ids_dev \in [1 .. n_used -> Slots \cup {NoSlot}]
    /\ stamp \in [Experts -> 0 .. hits + misses]

(* The two maps of the cache stay inverse to each other and every slot      *)
(* stays in the LRU list exactly once, whatever is hit, missed or evicted:  *)
(* an erase through a stale iterator, or an evicted expert that still       *)
(* points at its slot, would break it (moe_cache_resolve).                  *)
MapsInverse ==
    \A e \in Experts, s \in Slots : expert_slot[e] = s <=> slot_expert[s] = e

LruPermutation ==
    \A s \in Slots : \E p \in 1 .. Cap :
        lru[p] = s /\ \A q \in 1 .. Cap : lru[q] = s => q = p

CacheConsistent == MapsInverse /\ LruPermutation

(* The cache is an exact LRU: the list is ordered by the last request of    *)
(* each slot's expert, empty slots last, and no absent expert was requested *)
(* after a resident one.                                                    *)
ListByRecency ==
    LET At(i) == slot_expert[lru[i]] IN
    \A i, j \in 1 .. Cap : i < j /\ At(j) # None =>
        At(i) # None /\ stamp[At(i)] > stamp[At(j)]

ResidentMostRecent ==
    \A e, f \in Experts : expert_slot[e] # NoSlot /\ expert_slot[f] = NoSlot =>
        stamp[e] > stamp[f]

ExactLru == ListByRecency /\ ResidentMostRecent

(* The kernel of a token multiplies with the weights of exactly the experts *)
(* the router chose, though the slots are evicted and refilled by the host  *)
(* long before the kernel runs (moe-cache.cu:175-178).                      *)
KernelReadsRequested == result = wanted

(* The cache computes what the stock path computes with all the weights in  *)
(* device memory, every token and in order, and every submitted token is    *)
(* computed at last.                                                        *)
Uncached == INSTANCE UncachedExperts WITH
                Tokens  <- Seq(Experts),
                NoToken <- None,
                pending <- submitted,
                result  <- result

ImplementsUncached == Uncached!Spec
=============================================================================
