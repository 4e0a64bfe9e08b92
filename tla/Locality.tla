------------------------------ MODULE Locality ------------------------------
(***************************************************************************)
(* What the analyses of routing traces compute. A trace file is a sequence *)
(* of lines [pos, layer, experts], one per token and layer; the functions  *)
(* work on the records of a layer, in the order of their positions.        *)
(***************************************************************************)
EXTENDS Integers, SequencesExt, FiniteSetsExt, TLC

Count(S) == Cardinality(S)
Total(S, value(_)) == MapThenSumSet(value, S)

\* Records of the layers of a file, sorted by position.
LoadTrace(lines) ==
    [l \in {lines[n].layer : n \in DOMAIN lines} |->
        SortSeq(SelectSeq(lines, LAMBDA r : r.layer = l), LAMBDA r, q : r.pos < q.pos)]

Chosen(record) == ToSet(record.experts)
Requests(records) == Total(DOMAIN records, LAMBDA n : Count(Chosen(records[n])))

\* expert_frequency: how many tokens chose an expert.
Frequency(records) ==
    [e \in UNION {Chosen(records[n]) : n \in DOMAIN records} |->
        Count({n \in DOMAIN records : e \in Chosen(records[n])})]

SetsByPos(records) ==
    [p \in {records[n].pos : n \in DOMAIN records} |->
        Chosen(records[Max({n \in DOMAIN records : records[n].pos = p})])]

\* consecutive_overlap: the sizes of the common sets of the pairs at a distance.
Pairs(records, distance) ==
    LET sets == SetsByPos(records) IN {p \in DOMAIN sets : p + distance \in DOMAIN sets}
Overlap(records, distance) ==
    LET sets == SetsByPos(records)
    IN Total(Pairs(records, distance), LAMBDA p : Count(sets[p] \cap sets[p + distance]))

\* reuse_distance: the distances since the last position an expert was seen at.
ReuseDistances(records) ==
    LET see(st, r) ==
            [last |-> [e \in DOMAIN st.last \cup Chosen(r) |->
                          IF e \in Chosen(r) THEN r.pos ELSE st.last[e]],
             distances |-> st.distances \o
                 SetToSeq({<<e, r.pos - st.last[e]>> : e \in Chosen(r) \cap DOMAIN st.last})]
    IN FoldLeft(see, [last |-> <<>>, distances |-> <<>>], records).distances

\* lru_hit_rates: the experts of a token are looked up and moved to the front;
\* the list is cut when the token is done.
Cut(cache, capacity) == SubSeq(cache, 1, Min({Len(cache), capacity}))
WithoutExpert(cache, e) == SelectSeq(cache, LAMBDA x : x # e)

LookupInPlace(st, e) ==
    IF Contains(st.cache, e) THEN [st EXCEPT !.hits = @ + 1]
    ELSE [st EXCEPT !.cache = <<e>> \o @]

Lookup(st, e) ==
    [cache |-> <<e>> \o WithoutExpert(st.cache, e),
     hits |-> st.hits + IF Contains(st.cache, e) THEN 1 ELSE 0]

LruHits(records, capacity) ==
    LET token(st, r) == [FoldLeft(Lookup, st, r.experts) EXCEPT !.cache = Cut(@, capacity)]
    IN FoldLeft(token, [cache |-> <<>>, hits |-> 0], records).hits

\* prefetch_simulation.simulate: a hit is in the set of the token before, or in
\* the residual LRU list.
SimulateAfterUpdate(records, capacity) ==
    LET front(list, e) == <<e>> \o WithoutExpert(list, e)
        token(st, r) ==
            LET residual == Cut(FoldLeft(front, st.residual, r.experts), capacity)
            IN [hits |-> st.hits + Count(Chosen(r) \cap (st.predicted \cup ToSet(residual))),
                residual |-> residual, predicted |-> Chosen(r)]
    IN FoldLeft(token, [hits |-> 0, residual |-> <<>>, predicted |-> {}], records).hits

Simulate(records, capacity) ==
    LET front(list, e) == <<e>> \o WithoutExpert(list, e)
        token(st, r) ==
            [hits |-> st.hits + Count(Chosen(r) \cap (st.predicted \cup ToSet(st.residual))),
             residual |-> Cut(FoldLeft(front, st.residual, r.experts), capacity),
             predicted |-> Chosen(r)]
    IN FoldLeft(token, [hits |-> 0, residual |-> <<>>, predicted |-> {}], records).hits

\* analyze_predictability: the sets a predictor unites. It is scored only where
\* it has one, the unions with the layer before only where there is that layer.
Recent(m, l, p, k) == {m[l][p - d] : d \in {d \in 1 .. k : p - d \in DOMAIN m[l]}}
Cross(m, l, p) == IF l - 1 \in DOMAIN m /\ p \in DOMAIN m[l - 1] THEN {m[l - 1][p]} ELSE {}

FateAnywhere(m, l, p, k) == Cross(m, l, p) \cup Recent(m, l, p, k)
Fate(m, l, p, k) == IF l - 1 \in DOMAIN m THEN Cross(m, l, p) \cup Recent(m, l, p, k) ELSE {}

Predictors == <<"temporal-1", "cross-layer", "fate-union", "fate-union-2",
                "oracle-last2", "oracle-last4", "oracle-last8">>
Predicted(name, m, l, p) ==
    CASE name = "temporal-1" -> Recent(m, l, p, 1)
      [] name = "cross-layer" -> Cross(m, l, p)
      [] name = "fate-union" -> Fate(m, l, p, 1)
      [] name = "fate-union-2" -> Fate(m, l, p, 2)
      [] name = "oracle-last2" -> Recent(m, l, p, 2)
      [] name = "oracle-last4" -> Recent(m, l, p, 4)
      [] name = "oracle-last8" -> Recent(m, l, p, 8)

\* What score_trace adds up for a predictor; recall is correct / actual.
Score(per_layer, name) ==
    LET m == [l \in DOMAIN per_layer |-> SetsByPos(per_layer[l])]
        scored == {s \in UNION {{l} \X DOMAIN m[l] : l \in DOMAIN m} :
                       m[s[1]][s[2]] # {} /\ Predicted(name, m, s[1], s[2]) # {}}
    IN [correct |-> Total(scored, LAMBDA s :
            Count(m[s[1]][s[2]] \cap UNION Predicted(name, m, s[1], s[2]))),
        actual |-> Total(scored, LAMBDA s : Count(m[s[1]][s[2]])),
        predicted |-> Total(scored, LAMBDA s : Count(UNION Predicted(name, m, s[1], s[2])))]

------------------------------------------------------------------------------
(* Reference definitions. *)

\* The requests of a layer one after the other, and a perfect LRU: a request
\* hits if fewer than capacity other experts came since the last one of its own.
Flat(records) == FlattenSeq([n \in DOMAIN records |-> records[n].experts])

PerfectHits(records, capacity) ==
    LET requests == Flat(records)
        hit(n) == \E k \in 1 .. n - 1 :
            /\ requests[k] = requests[n]
            /\ Count({requests[j] : j \in k + 1 .. n - 1} \ {requests[n]}) < capacity
    IN Count({n \in DOMAIN requests : hit(n)})
==============================================================================
