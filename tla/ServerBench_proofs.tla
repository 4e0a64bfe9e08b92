------------------------- MODULE ServerBench_proofs -------------------------
(***************************************************************************)
(* Proofs about the server benches, for any lists of configurations, any   *)
(* number of repetitions, sessions, interrupts and servers that die.       *)
(***************************************************************************)
EXTENDS ServerBench, TLAPS, FiniteSetTheorems, SequenceTheorems

Names == ToSet(Configs) \cup ToSet(NgramConfigs)
MaxLives == Reps * (Len(Configs) + Len(NgramConfigs))
Record == [config : Names, rep : 0 .. Reps - 1, ok : BOOLEAN, server : Pids,
           by : Pids \cup {None}]
Server == [phase : Phases, told : BOOLEAN]
Life == [config : Names, reps : Seq(0 .. Reps - 1)]

\* TypeOK, and what it leaves open of the sequences and records.
TypeInv ==
    /\ TypeOK
    /\ servers \in [DOMAIN servers -> Server]
    /\ records \in Seq(Record)
    /\ out \in [status : Exits \cup {None, Torn}, records : Seq(Record)]
    /\ lives \in Seq(Life)

\* The server of the life l answers the repetition rep of c.
Answers(l, c, rep) == l.config = c /\ \E r \in DOMAIN l.reps : l.reps[r] = rep

\* The lives cover every repetition of what was asked, and no two of them
\* write to one log.
LivesInv ==
    /\ Len(lives) <= MaxLives
    /\ \A l \in DOMAIN lives :
        /\ Len(lives[l].reps) \in 1 .. Reps
        /\ bench.interleave => Len(lives[l].reps) = 1
    /\ \A k, l \in DOMAIN lives : LogOf(lives[k]) = LogOf(lives[l]) => k = l
    /\ \A c \in {a \in asked : Selectable(a)}, rep \in 0 .. Reps - 1 :
        \E l \in DOMAIN lives : Answers(lives[l], c, rep)

\* In the body of the loop; once the server is told to end, its answers are
\* all there if the loop goes on.
Running == {"started", "polling", "handed", "asking", "stopping"}
LoopInv ==
    /\ pc # "idle" => session > 0
    /\ pc \in Running =>
        /\ life \in DOMAIN lives
        /\ answered <= Len(lives[life].reps)
        /\ pc = "stopping" /\ after = "next" => answered = Len(lives[life].reps)
    /\ pc \in {"closing", "truncated"} =>
        /\ after \in {"next", "interrupted"}
        /\ after = "next" => life > Len(lives)

\* The only server of the session is the one of the loop, and there is none
\* when the next one is started.
ServerInv ==
    /\ \A s \in DOMAIN servers :
        /\ s[1] <= session
        /\ pc # "idle" /\ s[1] = session => s = Me /\ pc # "loop"
    /\ pc = "stopping" /\ Alive(Me) => servers[Me].told
    /\ pc \in {"closing", "truncated"} =>
        \A s \in DOMAIN servers : s[1] = session =>
            /\ after = "interrupted"
            /\ servers[s].told \/ struck \in {"started", "handed"}

\* Records are of lives that have begun, and so are the logs.
RecordsInv ==
    /\ \A i \in DOMAIN records :
        LET s == records[i].server
        IN /\ s[1] = session /\ s[2] \in DOMAIN lives /\ s[2] <= life
           /\ pc = "loop" => s[2] < life
    /\ GptOss /\ pc \in Running =>
        LogOf(lives[life]) \in DOMAIN logs /\ logs[LogOf(lives[life])] = Me

\* Every repetition of the lives that are over has its record, and so have the
\* answers of the current one.
Covered(l, rep) ==
    \E i \in DOMAIN records :
        /\ records[i].config = lives[l].config
        /\ records[i].rep = rep \/ (~records[i].ok /\ ~bench.interleave)
CoveredInv ==
    pc # "idle" =>
        /\ \A l \in DOMAIN lives : l < life =>
            \A r \in DOMAIN lives[l].reps : Covered(l, lives[l].reps[r])
        /\ pc \in Running =>
            \A r \in 1 .. answered : Covered(life, lives[life].reps[r])

IInv ==
    /\ TypeInv /\ LivesInv /\ LoopInv
    /\ ServerInv /\ ServersLeft
    /\ RecordsInv /\ OwnServer /\ ServerLogs
    /\ CoveredInv /\ Accounted
------------------------------------------------------------------------------
(* The lives of a session. *)

\* A quotient and a remainder are determined by their equation.
LEMMA QuotientUnique ==
    ASSUME NEW n \in Nat, NEW q \in Int, NEW p \in Int,
           NEW r \in 0 .. n - 1, NEW s \in 0 .. n - 1, n * q + r = n * p + s
    PROVE  q = p /\ r = s
PROOF
  <1> DEFINE d == q - p
  <1>1. d \in Int /\ n * d = s - r /\ n \in Nat /\ n > 0
    BY Z3
  <1> HIDE DEF d
  <1>2. ASSUME NEW e \in Int, e >= 1
        PROVE  n * e >= n /\ n * (0 - e) <= 0 - n
    BY <1>1, <1>2, Z3
  <1>3. ~(d >= 1)
    BY <1>1, <1>2, Z3
  <1>4. ASSUME d <= 0 - 1 PROVE FALSE
    <2>1. 0 - d \in Int /\ 0 - d >= 1 /\ 0 - (0 - d) = d
      BY <1>1, <1>4
    <2>2. n * d <= 0 - n
      BY <1>2, <2>1, Z3
    <2> QED
      BY <1>1, <2>2
  <1>5. d = 0
    BY <1>1, <1>3, <1>4
  <1>6. q = p
    BY <1>5 DEF d
  <1> QED
    BY <1>6

\* The rounds of an interleaved session: a run has a place in its round.
LEMMA RunHasPlace ==
    ASSUME NEW n \in Nat, NEW m \in Nat, NEW k \in 1 .. m * n
    PROVE  /\ n > 0
           /\ (k - 1) \div n \in 0 .. m - 1
           /\ (k - 1) % n \in 0 .. n - 1
           /\ k - 1 = n * ((k - 1) \div n) + ((k - 1) % n)
PROOF
  <1>1. n > 0
    <2>1. CASE n = 0
      <3>1. m * n = 0
        BY <2>1, Z3
      <3> QED
        BY <3>1
    <2> QED
      BY <2>1
  <1> DEFINE j == k - 1
             q == j \div n
             r == j % n
  <1>2. j \in Nat /\ j < m * n
    OBVIOUS
  <1>3. q \in Int /\ q >= 0 /\ r \in 0 .. n - 1 /\ j = n * q + r
    <2> HIDE DEF j
    <2> QED
      BY <1>1, <1>2, SMTT(60)
  <1> HIDE DEF j, q, r
  <1>4. ~(q >= m)
    <2>1. ASSUME q >= m PROVE FALSE
      <3> DEFINE d == q - m
      <3>1. d \in Nat /\ q = m + d
        BY <1>3, <2>1
      <3> HIDE DEF d
      <3>2. n * d >= 0
        BY <3>1, Z3
      <3>3. n * q = n * m + n * d
        BY <3>1, Z3
      <3>4. n * m = m * n /\ n * m \in Int /\ n * d \in Int
        BY <3>1, Z3
      <3>5. n * q >= m * n
        BY <3>2, <3>3, <3>4
      <3> QED
        BY <1>2, <1>3, <3>4, <3>5, Z3
    <2> QED
      BY <2>1
  <1> QED
    BY <1>1, <1>3, <1>4 DEF j, q, r

\* A place in a round is the place of a run.
LEMMA PlaceHasRun ==
    ASSUME NEW n \in Nat, NEW m \in Nat, NEW rep \in 0 .. m - 1, NEW i \in 1 .. n
    PROVE  LET k == n * rep + i
           IN  k \in 1 .. m * n /\ (k - 1) \div n = rep /\ ((k - 1) % n) + 1 = i
PROOF
  <1> DEFINE k == n * rep + i
             d == m - 1 - rep
  <1>1. d \in Nat /\ m = d + rep + 1 /\ n \in Nat /\ n > 0
    OBVIOUS
  <1> HIDE DEF d
  <1>2. n * d >= 0 /\ n * rep >= 0 /\ n * d \in Int /\ n * rep \in Int
    BY <1>1, Z3
  <1>3. m * n = n * d + n * rep + n
    BY <1>1, Z3
  <1>4. k \in 1 .. m * n
    BY <1>2, <1>3
  <1> HIDE DEF k
  <1>5. /\ (k - 1) \div n \in 0 .. m - 1
        /\ (k - 1) % n \in 0 .. n - 1
        /\ k - 1 = n * ((k - 1) \div n) + ((k - 1) % n)
    BY <1>4, RunHasPlace
  <1> DEFINE q == (k - 1) \div n
             r == (k - 1) % n
  <1>6. q \in Int /\ r \in 0 .. n - 1 /\ k - 1 = n * q + r
    BY <1>5
  <1>7. n * q + r = n * rep + (i - 1)
    BY <1>2, <1>6 DEF k
  <1> HIDE DEF q, r
  <1>8. q = rep /\ r = i - 1
    BY <1>6, <1>7, QuotientUnique
  <1>9. q = rep /\ r + 1 = i
    BY <1>8
  <1> QED
    BY <1>4, <1>9 DEF k, q, r

\* A list of configurations as a session runs it.
Listing(configs) == configs \in Seq(Names) /\ IsInjective(configs)

\* The lengths are numbers.
LEMMA LongestIsNat == {Len(Configs), Len(NgramConfigs), MaxLives} \subseteq Nat /\ Reps > 0
PROOF
  <1>1. Len(Configs) \in Nat /\ Len(NgramConfigs) \in Nat /\ Reps \in Nat /\ Reps > 0
    BY BenchAssumption, LenProperties
  <1>2. ASSUME NEW m \in Nat PROVE Reps * m \in Nat
    BY <1>1, SMT
  <1> QED
    BY <1>1, <1>2 DEF MaxLives

\* The list of the script is one.
LEMMA ListedIsListing ==
    ASSUME bench \in Benches
    PROVE  /\ Listing(Listed)
           /\ Len(Listed) <= Len(Configs) + Len(NgramConfigs)
           /\ \A c \in ToSet(Listed) : \E i \in DOMAIN Listed : Listed[i] = c
           /\ ToSet(Listed) \subseteq Names
PROOF
  <1>1. Configs \in Seq(Names) /\ NgramConfigs \in Seq(Names)
    BY BenchAssumption, SeqMonotonic, ElementOfSeq DEF Names
  <1> QED
    BY <1>1, BenchAssumption, LongestIsNat DEF Listed, Listing, Names, ToSet

\* What --configs selects is in the list, in its order, and all that is wanted
\* of it.
LEMMA SelectionIsListing ==
    ASSUME NEW wanted, NEW configs \in Selections(wanted)
    PROVE  /\ Listing(configs)
           /\ Len(configs) <= Len(Configs) + Len(NgramConfigs)
           /\ \A c \in wanted \cap ToSet(Configs) : \E i \in DOMAIN configs : configs[i] = c
           /\ \A i \in DOMAIN configs : configs[i] \in wanted \cap ToSet(Configs)
PROOF
  <1> DEFINE chosen == {i \in DOMAIN Configs : Configs[i] \in wanted}
             n == Cardinality(chosen)
  <1>1. PICK p \in Bijection(1 .. n, chosen) : configs = [i \in DOMAIN p |-> Configs[p[i]]]
    BY DEF Selections
  <1>2. Len(Configs) \in Nat /\ DOMAIN Configs = 1 .. Len(Configs)
    BY BenchAssumption, LenProperties
  <1>3. n \in Nat /\ n <= Len(Configs)
    <2>1. IsFiniteSet(1 .. Len(Configs)) /\ Cardinality(1 .. Len(Configs)) = Len(Configs)
      <3>1. ASSUME NEW b \in Nat
            PROVE  IsFiniteSet(1 .. b) /\ Cardinality(1 .. b) = b
        <4>1. IsFiniteSet(1 .. b) /\ Cardinality(1 .. b) = IF 1 > b THEN 0 ELSE b - 1 + 1
          BY FS_Interval, 1 \in Int, b \in Int
        <4> QED
          BY <4>1
      <3> QED
        BY <1>2, <3>1
    <2>2. chosen \in SUBSET (1 .. Len(Configs))
      BY <1>2
    <2> HIDE DEF chosen
    <2>3. IsFiniteSet(chosen) /\ Cardinality(chosen) <= Cardinality(1 .. Len(Configs))
      BY <2>1, <2>2, FS_Subset
    <2> QED
      BY <2>1, <2>3, FS_CardinalityType
  <1> HIDE DEF n
  <1>4. /\ p \in [1 .. n -> chosen]
        /\ \A i, j \in 1 .. n : p[i] = p[j] => i = j
        /\ \A t \in chosen : \E i \in 1 .. n : p[i] = t
    BY <1>1 DEF Bijection, Injection, Surjection, IsInjective
  <1>5. DOMAIN configs = 1 .. n /\ \A i \in 1 .. n : configs[i] = Configs[p[i]]
    BY <1>1, <1>4
  <1>6. \A i \in 1 .. n : configs[i] \in wanted \cap ToSet(Configs)
    BY <1>4, <1>5 DEF ToSet
  <1>7. configs \in Seq(Names) /\ Len(configs) = n
    <2>1. configs \in [1 .. n -> Names]
      BY <1>1, <1>4, <1>5, <1>6 DEF Names
    <2> QED
      BY <1>3, <2>1
  <1>8. IsInjective(configs)
    <2>1. \A a, b \in DOMAIN Configs : Configs[a] = Configs[b] => a = b
      BY BenchAssumption DEF IsInjective
    <2> QED
      BY <1>4, <1>5, <2>1 DEF IsInjective
  <1>9. ASSUME NEW c \in wanted \cap ToSet(Configs)
        PROVE  \E i \in DOMAIN configs : configs[i] = c
    <2>1. PICK t \in chosen : Configs[t] = c
      BY <1>9 DEF ToSet
    <2> QED
      BY <1>4, <1>5, <2>1
  <1> QED
    BY <1>2, <1>3, <1>5, <1>6, <1>7, <1>8, <1>9, LongestIsNat DEF Listing

\* What a session runs: a life for every repetition of every configuration.
SoundLives(configs, list) ==
    /\ list \in Seq(Life) /\ Len(list) <= Reps * Len(configs)
    /\ \A l \in DOMAIN list :
        /\ Len(list[l].reps) \in 1 .. Reps
        /\ bench.interleave => Len(list[l].reps) = 1
    /\ \A k, l \in DOMAIN list : LogOf(list[k]) = LogOf(list[l]) => k = l
    /\ \A i \in DOMAIN configs, rep \in 0 .. Reps - 1 :
        \E l \in DOMAIN list : Answers(list[l], configs[i], rep)
    /\ configs = <<>> => list = <<>>

\* One server for all repetitions.
LEMMA BatchedLives ==
    ASSUME NEW configs, Listing(configs), bench.interleave = FALSE
    PROVE  SoundLives(configs, Lives(configs))
PROOF
  <1> DEFINE n == Len(configs)
             all == [rep \in 1 .. Reps |-> rep - 1]
             list == [i \in 1 .. n |-> [config |-> configs[i], reps |-> all]]
  <1>1. Lives(configs) = list
    BY DEF Lives
  <1>2. n \in Nat /\ DOMAIN configs = 1 .. n /\ Reps \in Nat /\ Reps > 0
    BY LenProperties, BenchAssumption DEF Listing
  <1>3. \A i \in 1 .. n : configs[i] \in Names
    BY <1>2, ElementOfSeq DEF Listing
  <1>4. all \in Seq(0 .. Reps - 1) /\ Len(all) = Reps /\ DOMAIN all = 1 .. Reps
        /\ \A r \in 1 .. Reps : all[r] = r - 1
    <2>1. all \in [1 .. Reps -> 0 .. Reps - 1]
      BY <1>2
    <2> QED
      BY <1>2, <2>1
  <1> HIDE DEF all, n
  <1>5. list \in Seq(Life) /\ Len(list) = n /\ DOMAIN list = 1 .. n
    <2>1. list \in [1 .. n -> Life]
      BY <1>3, <1>4 DEF Life
    <2> QED
      BY <1>2, <2>1
  <1>6. n <= Reps * n
    BY <1>2, Z3
  <1>7. \A k, l \in 1 .. n : LogOf(list[k]) = LogOf(list[l]) => k = l
    <2>1. \A a, b \in DOMAIN configs : configs[a] = configs[b] => a = b
      BY DEF Listing, IsInjective
    <2> QED
      BY <1>2, <2>1 DEF LogOf
  <1>8. \A l \in 1 .. n : list[l].reps = all /\ list[l].config = configs[l]
    OBVIOUS
  <1> HIDE DEF list
  <1>9. ASSUME NEW i \in 1 .. n, NEW rep \in 0 .. Reps - 1
        PROVE  \E l \in 1 .. n : Answers(list[l], configs[i], rep)
    <2>1. rep + 1 \in 1 .. Reps /\ all[rep + 1] = rep
      BY <1>2, <1>4
    <2> QED
      BY <1>4, <1>8, <2>1 DEF Answers
  <1>10. configs = <<>> => list = <<>>
    <2>1. configs = <<>> => n = 0
      BY DEF n
    <2> QED
      BY <1>5, <2>1, EmptySeq, SeqEqual
  <1> QED
    <2>1. \A l \in 1 .. n : Len(list[l].reps) \in 1 .. Reps
      BY <1>2, <1>4, <1>8
    <2> HIDE DEF Listing, Life
    <2>2. list \in Seq(Life) /\ Len(list) <= Reps * Len(configs)
      BY <1>5, <1>6 DEF n
    <2>3. \A k, l \in DOMAIN list : LogOf(list[k]) = LogOf(list[l]) => k = l
      BY <1>5, <1>7
    <2>4. \A i \in DOMAIN configs, rep \in 0 .. Reps - 1 :
            \E l \in DOMAIN list : Answers(list[l], configs[i], rep)
      BY <1>2, <1>5, <1>9
    <2>5. \A l \in DOMAIN list :
            /\ Len(list[l].reps) \in 1 .. Reps
            /\ bench.interleave => Len(list[l].reps) = 1
      BY <1>5, <2>1
    <2>6. SoundLives(configs, list)
      BY <1>10, <2>2, <2>3, <2>4, <2>5, Zenon DEF SoundLives
    <2> QED
      BY <1>1, <2>6

\* One server for every repetition.
LEMMA InterleavedLives ==
    ASSUME NEW configs, Listing(configs), bench.interleave = TRUE
    PROVE  SoundLives(configs, Lives(configs))
PROOF
  <1> DEFINE n == Len(configs)
             order(rep) == IF rep % 2 = 0 THEN configs ELSE Reverse(configs)
             round(k) == (k - 1) \div n
             spot(k) == ((k - 1) % n) + 1
             run(k) == [config |-> order(round(k))[spot(k)], reps |-> <<round(k)>>]
             list == [k \in 1 .. Reps * n |-> run(k)]
  <1>1. Lives(configs) = list
    BY DEF Lives
  <1>2. n \in Nat /\ DOMAIN configs = 1 .. n /\ Reps \in Nat /\ Reps > 0 /\ Reps * n \in Nat
    <2>1. n \in Nat /\ Reps \in Nat /\ Reps > 0
      BY LenProperties, BenchAssumption DEF Listing
    <2> QED
      BY <2>1, LenProperties, SMT DEF Listing
  <1>3. \A i \in 1 .. n : configs[i] \in Names
    BY <1>2, ElementOfSeq DEF Listing
  <1>4. \A i, j \in 1 .. n : configs[i] = configs[j] => i = j
    BY <1>2 DEF Listing, IsInjective
  <1>5. ASSUME NEW k \in 1 .. Reps * n
        PROVE  /\ round(k) \in 0 .. Reps - 1 /\ spot(k) \in 1 .. n
               /\ k - 1 = n * round(k) + (spot(k) - 1)
    <2>1. /\ (k - 1) \div n \in 0 .. Reps - 1
          /\ (k - 1) % n \in 0 .. n - 1
          /\ k - 1 = n * ((k - 1) \div n) + ((k - 1) % n)
      <3> HIDE DEF n
      <3> QED
        BY <1>2, RunHasPlace
    <2> DEFINE q == (k - 1) \div n
               r == (k - 1) % n
    <2>2. q \in 0 .. Reps - 1 /\ r \in 0 .. n - 1 /\ k - 1 = n * q + r
      BY <2>1
    <2> HIDE DEF q, r, n
    <2>3. q \in 0 .. Reps - 1 /\ r + 1 \in 1 .. n /\ k - 1 = n * q + ((r + 1) - 1)
      <3>1. (r + 1) - 1 = r
        BY <2>2
      <3> QED
        BY <1>2, <2>2, <3>1
    <2> QED
      BY <2>3 DEF q, r
  <1>6. ASSUME NEW rep \in 0 .. Reps - 1, NEW i \in 1 .. n
        PROVE  \E k \in 1 .. Reps * n : round(k) = rep /\ spot(k) = i
    <2>1. LET k == n * rep + i
          IN  k \in 1 .. Reps * n /\ (k - 1) \div n = rep /\ ((k - 1) % n) + 1 = i
      <3> HIDE DEF n
      <3> QED
        BY <1>2, PlaceHasRun
    <2> QED
      BY <2>1
  <1> HIDE DEF n, round, spot
  <1>7. ASSUME NEW rep \in 0 .. Reps - 1
        PROVE  /\ \A i \in 1 .. n : order(rep)[i] \in Names
               /\ \A i, j \in 1 .. n : order(rep)[i] = order(rep)[j] => i = j
               /\ \A i \in 1 .. n : \E j \in 1 .. n : order(rep)[j] = configs[i]
    <2>1. CASE rep % 2 = 0
      BY <1>3, <1>4, <2>1
    <2>2. CASE rep % 2 # 0
      <3>1. order(rep) = [i \in 1 .. n |-> configs[n - i + 1]]
        BY <2>2 DEF Reverse, n
      <3>2. \A i \in 1 .. n : n - i + 1 \in 1 .. n /\ n - (n - i + 1) + 1 = i
        BY <1>2
      <3>3. \A i \in 1 .. n : order(rep)[i] = configs[n - i + 1]
        BY <3>1
      <3> HIDE DEF order
      <3>4. \A i \in 1 .. n : order(rep)[i] \in Names
        BY <1>3, <3>2, <3>3
      <3>5. \A i, j \in 1 .. n : order(rep)[i] = order(rep)[j] => i = j
        BY <1>2, <1>4, <3>2, <3>3
      <3>6. \A i \in 1 .. n : order(rep)[n - i + 1] = configs[i]
        BY <3>2, <3>3
      <3> QED
        BY <3>2, <3>4, <3>5, <3>6
    <2> QED
      BY <2>1, <2>2
  <1> HIDE DEF order
  <1>8. ASSUME NEW k \in 1 .. Reps * n
        PROVE  /\ run(k) \in Life /\ run(k).config = order(round(k))[spot(k)]
               /\ run(k).reps = <<round(k)>> /\ Len(run(k).reps) = 1
               /\ DOMAIN run(k).reps = {1} /\ run(k).reps[1] = round(k)
    <2>1. run(k).config \in Names
      BY <1>5, <1>7
    <2>2. <<round(k)>> \in Seq(0 .. Reps - 1)
      BY <1>5
    <2> QED
      BY <2>1, <2>2 DEF Life
  <1>9. list \in Seq(Life) /\ Len(list) = Reps * n /\ DOMAIN list = 1 .. Reps * n
    <2>1. list \in [1 .. Reps * n -> Life]
      BY <1>8
    <2> QED
      BY <1>2, <2>1
  <1>10. \A k \in 1 .. Reps * n : list[k] = run(k)
    OBVIOUS
  <1> HIDE DEF list
  <1>11. ASSUME NEW k \in 1 .. Reps * n, NEW l \in 1 .. Reps * n, LogOf(list[k]) = LogOf(list[l])
         PROVE  k = l
    <2>1. run(k).config = run(l).config /\ run(k).reps[1] = run(l).reps[1]
      BY <1>10, <1>11 DEF LogOf
    <2>2. round(k) = round(l) /\ order(round(k))[spot(k)] = order(round(l))[spot(l)]
      BY <1>8, <2>1
    <2>3. spot(k) = spot(l)
      BY <1>5, <1>7, <2>2
    <2> QED
      BY <1>2, <1>5, <2>2, <2>3
  <1>12. ASSUME NEW i \in 1 .. n, NEW rep \in 0 .. Reps - 1
         PROVE  \E l \in 1 .. Reps * n : Answers(list[l], configs[i], rep)
    <2>1. PICK j \in 1 .. n : order(rep)[j] = configs[i]
      BY <1>7
    <2>2. PICK k \in 1 .. Reps * n : round(k) = rep /\ spot(k) = j
      BY <1>6
    <2>3. list[k].config = configs[i] /\ 1 \in DOMAIN list[k].reps /\ list[k].reps[1] = rep
      BY <1>8, <1>10, <2>1, <2>2
    <2> QED
      BY <2>3 DEF Answers
  <1>13. configs = <<>> => list = <<>>
    <2>1. configs = <<>> => Reps * n = 0
      BY <1>2, SMT DEF n
    <2> QED
      BY <1>9, <2>1, EmptySeq, SeqEqual
  <1> QED
    <2>1. \A l \in DOMAIN list :
            /\ Len(list[l].reps) \in 1 .. Reps
            /\ bench.interleave => Len(list[l].reps) = 1
      <3>1. ASSUME NEW l \in 1 .. Reps * n
            PROVE  Len(list[l].reps) = 1
        BY <1>8, <1>10
      <3>2. \A l \in DOMAIN list : Len(list[l].reps) = 1
        BY <1>9, <3>1
      <3>3. 1 \in 1 .. Reps
        BY <1>2
      <3> QED
        BY <3>2, <3>3
    <2>2. list \in Seq(Life) /\ Len(list) <= Reps * Len(configs)
      BY <1>2, <1>9 DEF n
    <2>3. \A k, l \in DOMAIN list : LogOf(list[k]) = LogOf(list[l]) => k = l
      BY <1>9, <1>11
    <2>4. \A i \in DOMAIN configs, rep \in 0 .. Reps - 1 :
            \E l \in DOMAIN list : Answers(list[l], configs[i], rep)
      BY <1>2, <1>9, <1>12
    <2>5. SoundLives(configs, list)
      BY <1>13, <2>1, <2>2, <2>3, <2>4, Zenon DEF SoundLives
    <2> QED
      BY <1>1, <2>5

\* What a session runs when it starts is sound.
LEMMA StartedLives ==
    ASSUME TypeInv, StartSession
    PROVE  lives' \in Seq(Life) /\ LivesInv'
PROOF
  <1>1. /\ bench \in Benches /\ bench' = bench /\ bench.interleave \in BOOLEAN
        /\ bench.ngram \in BOOLEAN
    BY DEF TypeInv, TypeOK, StartSession, Benches
  <1>2. ASSUME NEW configs, Listing(configs), Len(configs) <= Len(Configs) + Len(NgramConfigs),
               lives' = Lives(configs),
               \A c \in asked' :
                    \/ c \in ToSet(Configs)
                    \/ asked' = ToSet(Listed) /\ configs # <<>>
                    => \E i \in DOMAIN configs : configs[i] = c
        PROVE  lives' \in Seq(Life) /\ LivesInv'
    <2>1. SoundLives(configs, lives')
      BY <1>1, <1>2, BatchedLives, InterleavedLives
    <2>2. Reps * Len(configs) <= MaxLives
      <3>1. Reps \in Nat /\ Len(configs) \in Nat /\ Len(Configs) + Len(NgramConfigs) \in Nat
        BY <1>2, LenProperties, BenchAssumption DEF Listing
      <3>2. ASSUME NEW a \in Nat, NEW b \in Nat, a <= b
            PROVE  Reps * a <= Reps * b
        <4> DEFINE d == b - a
        <4>1. d \in Nat /\ b = a + d
          BY <3>2
        <4> HIDE DEF d
        <4>2. Reps * b = Reps * a + Reps * d /\ Reps * d >= 0
          BY <3>1, <4>1, Z3
        <4>3. Reps * a \in Int /\ Reps * d \in Int
          BY <3>1, <4>1, Z3
        <4> QED
          BY <4>2, <4>3
      <3> QED
        BY <1>2, <3>1, <3>2 DEF MaxLives
    <2>3. lives' \in Seq(Life) /\ Len(lives') <= MaxLives
      <3>1. lives' \in Seq(Life) /\ Len(lives') <= Reps * Len(configs)
        BY <2>1 DEF SoundLives
      <3>2. Len(lives') \in Int /\ Reps * Len(configs) \in Int /\ MaxLives \in Int
        <4>1. Reps \in Int /\ Len(configs) \in Int
          BY <1>2, LenProperties, BenchAssumption DEF Listing
        <4>2. Reps * Len(configs) \in Int
          BY <4>1, Z3
        <4> QED
          BY <3>1, <4>2, LenProperties, LongestIsNat
      <3> QED
        BY <2>2, <3>1, <3>2
    <2>4. \A l \in DOMAIN lives' :
            /\ Len(lives'[l].reps) \in 1 .. Reps
            /\ bench'.interleave => Len(lives'[l].reps) = 1
      BY <1>1, <2>1 DEF SoundLives
    <2>5. \A k, l \in DOMAIN lives' : LogOf(lives[k])' = LogOf(lives[l])' => k = l
      BY <1>1, <2>1 DEF SoundLives, LogOf
    <2>6. ASSUME NEW c \in asked', Selectable(c)', NEW rep \in 0 .. Reps - 1
          PROVE  \E l \in DOMAIN lives' : Answers(lives'[l], c, rep)
      <3>1. c \in ToSet(Configs) \/ (asked' = ToSet(Listed) /\ configs # <<>>)
        BY <1>1, <2>1, <2>6 DEF SoundLives, Selectable, Listed
      <3>2. PICK i \in DOMAIN configs : configs[i] = c
        BY <1>2, <2>6, <3>1
      <3>3. \E l \in DOMAIN lives' : Answers(lives'[l], configs[i], rep)
        BY <2>1 DEF SoundLives
      <3> QED
        BY <3>2, <3>3
    <2> QED
      BY <2>3, <2>4, <2>5, <2>6 DEF LivesInv
  <1>3. CASE asked' = ToSet(Listed) /\ lives' = Lives(Listed)
    BY <1>1, <1>2, <1>3, ListedIsListing
  <1>4. ASSUME NEW wanted, NEW configs \in Selections(wanted),
               asked' = wanted, lives' = Lives(configs)
        PROVE  lives' \in Seq(Life) /\ LivesInv'
    <2>1. /\ Listing(configs)
          /\ Len(configs) <= Len(Configs) + Len(NgramConfigs)
          /\ \A c \in wanted \cap ToSet(Configs) : \E i \in DOMAIN configs : configs[i] = c
          /\ \A i \in DOMAIN configs : configs[i] \in wanted \cap ToSet(Configs)
      BY SelectionIsListing
    <2>2. ASSUME wanted = ToSet(Listed), configs # <<>>
          PROVE  wanted \subseteq ToSet(Configs)
      <3>1. CASE ~bench.ngram
        BY <2>2, <3>1 DEF Listed
      <3>2. CASE bench.ngram
        <4>1. 1 \in DOMAIN configs
          <5>1. configs \in Seq(Names) /\ configs # <<>>
            BY <2>1, <2>2 DEF Listing
          <5> QED
            BY <5>1, EmptySeq, LenProperties
        <4>2. configs[1] \in ToSet(NgramConfigs) /\ configs[1] \in ToSet(Configs)
          BY <2>1, <2>2, <3>2, <4>1 DEF Listed
        <4> QED
          BY <4>2, BenchAssumption
      <3> QED
        BY <3>1, <3>2
    <2> QED
      BY <1>2, <1>4, <2>1, <2>2
  <1> QED
    BY <1>3, <1>4 DEF StartSession

------------------------------------------------------------------------------
(* The server processes. *)

\* An entry is added to a function, or replaces the one it has.
LEMMA EntryAdded ==
    ASSUME NEW f, NEW x, NEW y
    PROVE  /\ DOMAIN With(f, x, y) = DOMAIN f \cup {x} /\ With(f, x, y)[x] = y
           /\ \A z \in DOMAIN f \ {x} : With(f, x, y)[z] = f[z]
PROOF
  BY DEF With

\* A life of the session has a name among the servers.
LEMMA PidsOfLives ==
    ASSUME NEW l \in DOMAIN lives, LivesInv, TypeInv, session > 0
    PROVE  <<session, l>> \in Pids
PROOF
  <1>1. l \in 1 .. Len(lives) /\ Len(lives) \in Nat /\ Len(lives) <= MaxLives
    BY LenProperties DEF LivesInv, TypeInv
  <1>2. l \in 1 .. MaxLives
    BY <1>1, LongestIsNat
  <1>3. session \in 1 .. MaxSessions
    BY DEF TypeInv, TypeOK
  <1> QED
    BY <1>2, <1>3 DEF Pids, MaxLives

\* A server keeps what it is and was told.
Kept ==
    /\ DOMAIN servers' \subseteq DOMAIN servers
    /\ servers' \in [DOMAIN servers' -> Server]
    /\ \A s \in DOMAIN servers' : servers[s].told => servers'[s].told

\* A server that binds the port stays what it was told.
LEMMA BindsKeeps ==
    ASSUME servers \in [DOMAIN servers -> Server], NEW s, ServerBinds(s)
    PROVE  Kept
PROOF
  <1>1. \A r \in Server :
            LET q == [r EXCEPT !.phase = "loading"] IN q \in Server /\ q.told = r.told
    BY DEF Server, Phases
  <1> QED
    BY <1>1 DEF ServerBinds, Kept, Alive

\* So does one that has loaded its model.
LEMMA LoadsKeeps ==
    ASSUME servers \in [DOMAIN servers -> Server], NEW s, ServerLoads(s)
    PROVE  Kept
PROOF
  <1>1. \A r \in Server :
            LET q == [r EXCEPT !.phase = "ready"] IN q \in Server /\ q.told = r.told
    BY DEF Server, Phases
  <1> QED
    BY <1>1 DEF ServerLoads, Kept, Alive

\* The others stay when a server dies.
LEMMA DiesKeeps ==
    ASSUME servers \in [DOMAIN servers -> Server], NEW s, ServerDies(s)
    PROVE  Kept
PROOF
  BY DEF ServerDies, Without, Kept

\* A server that is told to end knows it, and stays until it does.
LEMMA TellKeeps ==
    ASSUME servers \in [DOMAIN servers -> Server], Tell
    PROVE  Kept /\ DOMAIN servers' = DOMAIN servers /\ (Alive(Me) => servers'[Me].told)
PROOF
  <1>1. \A r \in Server : [r EXCEPT !.told = TRUE] \in Server /\ [r EXCEPT !.told = TRUE].told
    BY DEF Server
  <1> QED
    BY <1>1 DEF Tell, Kept, Alive

------------------------------------------------------------------------------
(* Types. *)

\* Types hold at first.
LEMMA InitTypes == Init => TypeInv
PROOF
  <1> SUFFICES ASSUME Init PROVE TypeInv
    OBVIOUS
  <1>1. servers \in [DOMAIN servers -> Server] /\ DOMAIN servers = {} /\ DOMAIN logs = {}
    BY DEF Init
  <1>2. records = <<>> /\ records \in Seq(Record) /\ lives = <<>> /\ lives \in Seq(Life)
        /\ Len(lives) = 0 /\ DOMAIN records = {}
    BY EmptySeq DEF Init
  <1>3. out \in [status : Exits \cup {None, Torn}, records : Seq(Record)]
        /\ out.status \in Exits \cup {None, Torn} /\ DOMAIN out.records = {}
    BY EmptySeq DEF Init
  <1>4. /\ session \in 0 .. MaxSessions /\ pressed \in 0 .. MaxInterrupts
        /\ faults \in 0 .. MaxFaults /\ answered \in 0 .. Reps /\ life \in 1 .. (Len(lives) + 1)
    BY <1>2, BenchAssumption DEF Init
  <1> QED
    BY <1>1, <1>2, <1>3, <1>4 DEF Init, TypeInv, TypeOK

\* Records are as IsRecord describes them.
LEMMA RecordsTyped ==
    ASSUME NEW s, s \in Seq(Record)
    PROVE  \A i \in DOMAIN s : IsRecord(s[i])
PROOF
  <1>1. \A i \in DOMAIN s : s[i] \in Record
    BY ElementOfSeq, LenProperties
  <1> QED
    BY <1>1 DEF IsRecord, Record, Names

\* The list of records has one more.
Grows ==
    /\ DOMAIN records' = DOMAIN records \cup {Len(records) + 1}
    /\ \A i \in DOMAIN records : i # Len(records) + 1 /\ records'[i] = records[i]

\* Append makes it grow.
LEMMA AppendGrows ==
    ASSUME records \in Seq(Record), NEW r \in Record, records' = Append(records, r)
    PROVE  records' \in Seq(Record) /\ Grows /\ records'[Len(records) + 1] = r
PROOF
  <1> HIDE DEF Record
  <1>1. /\ records' \in Seq(Record) /\ Len(records') = Len(records) + 1
        /\ \A i \in 1 .. Len(records) : records'[i] = records[i]
        /\ records'[Len(records) + 1] = r
    BY AppendProperties
  <1>2. Len(records) \in Nat /\ DOMAIN records = 1 .. Len(records)
        /\ DOMAIN records' = 1 .. Len(records')
    BY <1>1, LenProperties
  <1> QED
    BY <1>1, <1>2 DEF Grows

\* The record of a death is one, of the life of the loop.
LEMMA DeathTyped ==
    ASSUME TypeInv, LivesInv, LoopInv, pc \in Running, RecordDeath
    PROVE  records' \in Seq(Record) /\ Grows
           /\ LET r == records'[Len(records) + 1]
              IN  /\ r.config = Config /\ r.rep = lives[life].reps[1] /\ r.ok = FALSE
                  /\ r.server = Me
PROOF
  <1> DEFINE r == [config |-> Config, rep |-> lives[life].reps[1], ok |-> FALSE,
                   server |-> Me, by |-> None]
  <1>1. life \in DOMAIN lives /\ lives[life] \in Life /\ Len(lives[life].reps) \in 1 .. Reps
    BY ElementOfSeq, LenProperties DEF LoopInv, LivesInv, TypeInv
  <1>2. Config \in Names /\ lives[life].reps[1] \in 0 .. Reps - 1
    <2>1. lives[life].reps \in Seq(0 .. Reps - 1) /\ Config \in Names
      BY <1>1 DEF Config, Life
    <2>2. 1 \in 1 .. Len(lives[life].reps)
      BY <1>1
    <2> QED
      BY <2>1, <2>2, ElementOfSeq
  <1>3. Me \in Pids
    <2>1. session > 0
      BY DEF LoopInv, Running
    <2> QED
      BY <1>1, <2>1, PidsOfLives DEF Me
  <1>4. r \in Record
    BY <1>2, <1>3 DEF Record
  <1>5. records' = Append(records, r) /\ records \in Seq(Record)
    BY DEF RecordDeath, TypeInv
  <1> HIDE DEF r
  <1>6. records' \in Seq(Record) /\ Grows /\ records'[Len(records) + 1] = r
    BY <1>4, <1>5, AppendGrows
  <1> QED
    BY <1>6 DEF r

\* The record of an answer is one, by the server that answers.
LEMMA AnswerTyped ==
    ASSUME TypeInv, LivesInv, LoopInv, NEW s \in DOMAIN servers, Completion(s)
    PROVE  /\ records' \in Seq(Record) /\ Grows
           /\ LET r == records'[Len(records) + 1]
              IN  r.config = Config /\ r.rep = Rep /\ r.ok = TRUE /\ r.server = Me /\ r.by = s
           /\ answered' \in 0 .. Reps /\ answered' = answered + 1
           /\ answered < Len(lives[life].reps) /\ Len(lives[life].reps) \in Nat
PROOF
  <1> DEFINE r == [config |-> Config, rep |-> Rep, ok |-> TRUE, server |-> Me, by |-> s]
  <1>1. life \in DOMAIN lives /\ lives[life] \in Life /\ Len(lives[life].reps) \in 1 .. Reps
    BY ElementOfSeq, LenProperties DEF LoopInv, LivesInv, TypeInv, Completion, Running
  <1>2. answered \in 0 .. Reps /\ answered < Len(lives[life].reps) /\ answered' = answered + 1
        /\ Reps \in Nat
    BY BenchAssumption DEF Completion, TypeInv, TypeOK
  <1>3. Config \in Names /\ Rep \in 0 .. Reps - 1
    <2>1. lives[life].reps \in Seq(0 .. Reps - 1) /\ Config \in Names
      BY <1>1 DEF Config, Life
    <2>2. answered + 1 \in 1 .. Len(lives[life].reps)
      BY <1>1, <1>2
    <2> QED
      BY <2>1, <2>2, ElementOfSeq DEF Rep
  <1>4. Me \in Pids /\ s \in Pids
    <2>1. session > 0
      BY DEF LoopInv, Completion
    <2> QED
      BY <1>1, <2>1, PidsOfLives DEF Me, TypeInv, TypeOK
  <1>5. r \in Record
    BY <1>3, <1>4 DEF Record
  <1>6. records' = Append(records, r) /\ records \in Seq(Record)
    BY DEF Completion, TypeInv
  <1> HIDE DEF r
  <1>7. records' \in Seq(Record) /\ Grows /\ records'[Len(records) + 1] = r
    BY <1>5, <1>6, AppendGrows
  <1>8. answered' \in 0 .. Reps
    BY <1>1, <1>2
  <1> QED
    BY <1>1, <1>2, <1>7, <1>8 DEF r

\* What the scripts do to the types of their lists and of the servers.
LEMMA ListsStep ==
    ASSUME TypeInv, LivesInv, LoopInv, Next
    PROVE  lives' \in Seq(Life) /\ records' \in Seq(Record)
           /\ out' \in [status : Exits \cup {None, Torn}, records : Seq(Record)]
PROOF
  <1>1. /\ lives \in Seq(Life) /\ records \in Seq(Record)
        /\ out \in [status : Exits \cup {None, Torn}, records : Seq(Record)]
    BY DEF TypeInv
  <1>2. CASE StartSession
    BY <1>1, <1>2, StartedLives DEF StartSession, files
  <1>3. CASE \E s \in DOMAIN servers : Completion(s)
    BY <1>1, <1>3, AnswerTyped DEF Completion, call, files
  <1>4. CASE PollFindsDead \/ Stopped
    <2>1. pc \in Running /\ (RecordDeath \/ UNCHANGED records)
      BY <1>4 DEF PollFindsDead, Stopped, Resume, Running
    <2>2. UNCHANGED <<lives, out>>
      BY <1>4 DEF PollFindsDead, Stopped, call, files
    <2> QED
      BY <1>1, <2>1, <2>2, DeathTyped
  <1>5. CASE Truncate
    BY <1>1, <1>5, EmptySeq DEF Truncate, call
  <1>6. CASE Fill
    BY <1>1, <1>6 DEF Fill, call, Status, Exits
  <1>7. CASE \/ Popen \/ EnterTry \/ Healthy \/ Deadline \/ EnterMeasure
             \/ CompletionRaises \/ Measured \/ StopTimesOut \/ LoopEnds \/ Servers \/ Interrupt
    <2>1. UNCHANGED <<lives, out, records>>
      BY <1>7 DEF Popen, EnterTry, Healthy, Deadline, EnterMeasure, CompletionRaises, Measured,
                  StopTimesOut, LoopEnds, Servers, ServerBinds, ServerLoads, ServerDies,
                  Interrupt, call, files
    <2> QED
      BY <1>1, <2>1
  <1> QED
    BY <1>2, <1>3, <1>4, <1>5, <1>6, <1>7 DEF Next, Script

\* A step but Popen adds no server, and none forgets what it was told.
LEMMA ServersKept ==
    ASSUME TypeInv, Next, ~Popen
    PROVE  Kept
PROOF
  <1>1. servers \in [DOMAIN servers -> Server]
    BY DEF TypeInv
  <1>2. UNCHANGED servers => Kept
    BY <1>1 DEF Kept
  <1>3. ASSUME NEW what, StopThen(what) PROVE Kept
    BY <1>1, <1>3, TellKeeps DEF StopThen
  <1>4. CASE Servers
    BY <1>1, <1>4, BindsKeeps, LoadsKeeps, DiesKeeps DEF Servers
  <1>5. CASE Deadline \/ CompletionRaises \/ Measured \/ Interrupt
    <2>1. \/ UNCHANGED servers \/ StopThen("died") \/ StopThen("traceback") \/ StopThen("next")
          \/ StopThen("interrupted")
      <3>1. CASE Deadline
        BY <3>1, Zenon DEF Deadline
      <3>2. CASE CompletionRaises \/ Measured
        BY <3>2 DEF CompletionRaises, Measured
      <3>3. CASE Interrupt
        BY <3>3 DEF Interrupt
      <3> QED
        BY <1>5, <3>1, <3>2, <3>3
    <2> QED
      BY <1>2, <1>3, <2>1
  <1>6. CASE \/ StartSession \/ EnterTry \/ Healthy \/ PollFindsDead \/ EnterMeasure
             \/ \E s \in DOMAIN servers : Completion(s)
             \/ Stopped \/ StopTimesOut \/ LoopEnds \/ Truncate \/ Fill
    <2>1. UNCHANGED servers
      BY <1>6 DEF StartSession, EnterTry, Healthy, PollFindsDead, EnterMeasure, Completion,
                  Stopped, StopTimesOut, LoopEnds, Truncate, Fill
    <2> QED
      BY <1>2, <2>1
  <1> QED
    BY <1>4, <1>5, <1>6 DEF Next, Script

\* A server that is started has a name and a log of its own.
LEMMA StartTyped ==
    ASSUME TypeInv, LivesInv, LoopInv, Popen
    PROVE  /\ life \in DOMAIN lives /\ Me \in Pids
           /\ servers' \in [DOMAIN servers' -> Server]
           /\ DOMAIN servers' = DOMAIN servers \cup {Me} /\ DOMAIN servers' \subseteq Pids
           /\ \A s \in DOMAIN servers : s # Me => servers'[s] = servers[s]
           /\ \A l \in DOMAIN logs' : logs'[l] \in Pids
PROOF
  <1>1. life \in DOMAIN lives
    <2>1. life \in 1 .. Len(lives) + 1 /\ life <= Len(lives) /\ Len(lives) \in Nat
          /\ DOMAIN lives = 1 .. Len(lives)
      BY LenProperties DEF TypeInv, TypeOK, Popen
    <2> QED
      BY <2>1
  <1>2. Me \in Pids
    <2>1. session > 0
      BY DEF LoopInv, Popen
    <2> QED
      BY <1>1, <2>1, PidsOfLives DEF Me
  <1> DEFINE new == [phase |-> "starting", told |-> FALSE]
  <1>3. new \in Server
    BY DEF Server, Phases
  <1> HIDE DEF new
  <1>4. servers' = With(servers, Me, new)
    BY DEF Popen, new
  <1>5. servers' = [s \in DOMAIN servers \cup {Me} |-> IF s = Me THEN new ELSE servers[s]]
    BY <1>4 DEF With
  <1>6. servers \in [DOMAIN servers -> Server] /\ DOMAIN servers \subseteq Pids
        /\ \A l \in DOMAIN logs : logs[l] \in Pids
    BY DEF TypeInv, TypeOK
  <1> HIDE DEF Server, Pids
  <1>7. /\ servers' \in [DOMAIN servers' -> Server]
        /\ DOMAIN servers' = DOMAIN servers \cup {Me}
        /\ \A s \in DOMAIN servers : s # Me => servers'[s] = servers[s]
    BY <1>3, <1>5, <1>6
  <1>8. \A l \in DOMAIN logs' : logs'[l] \in Pids
    BY <1>2, <1>6 DEF Popen, With
  <1> QED
    BY <1>1, <1>2, <1>6, <1>7, <1>8

\* The control of the loop keeps its types.
PlaceTypes ==
    /\ bench \in Benches /\ session \in 0 .. MaxSessions
    /\ pc \in {"idle", "loop", "started", "polling", "handed", "asking", "stopping",
               "closing", "truncated"}
    /\ life \in 1 .. (Len(lives) + 1) /\ answered \in 0 .. Reps
    /\ after \in {"next", "died", "interrupted", "traceback"}
    /\ exit \in Exits \cup {None, "traceback"}
    /\ pressed \in 0 .. MaxInterrupts /\ faults \in 0 .. MaxFaults

\* A step keeps them.
LEMMA PlaceStep ==
    ASSUME TypeInv, LivesInv, LoopInv, Next
    PROVE  PlaceTypes'
PROOF
  <1>1. PlaceTypes
    BY DEF PlaceTypes, TypeInv, TypeOK
  <1>2. /\ Len(lives) \in Nat /\ Reps \in Nat
        /\ {MaxSessions, MaxInterrupts, MaxFaults} \subseteq Nat
        /\ pc \in Running => life \in 1 .. Len(lives)
    BY LenProperties, BenchAssumption DEF TypeInv, LoopInv
  <1> USE DEF PlaceTypes
  <1>3. CASE StartSession
    <2>1. Len(lives') \in Nat
      BY <1>3, StartedLives, LenProperties
    <2> QED
      BY <1>1, <1>2, <1>3, <2>1 DEF StartSession, counts, files
  <1>4. CASE Popen
    BY <1>1, <1>2, <1>4 DEF Popen, call, counts
  <1>5. CASE EnterTry \/ Healthy \/ EnterMeasure
    BY <1>1, <1>5 DEF EnterTry, Healthy, EnterMeasure, call, place, counts
  <1>6. CASE PollFindsDead
    BY <1>1, <1>2, <1>6 DEF PollFindsDead, RecordDeath, NextLife, call, counts, Running
  <1>7. CASE Deadline
    BY <1>1, <1>7 DEF Deadline, StopThen, call, counts
  <1>8. CASE \E s \in DOMAIN servers : Completion(s)
    BY <1>1, <1>8, AnswerTyped DEF Completion, call, counts
  <1>9. CASE CompletionRaises \/ Measured
    BY <1>1, <1>9 DEF CompletionRaises, Measured, StopThen, call, counts
  <1>10. CASE Stopped
    BY <1>1, <1>2, <1>10 DEF Stopped, Resume, RecordDeath, NextLife, call, counts, Running
  <1>11. CASE StopTimesOut
    BY <1>1, <1>11 DEF StopTimesOut, call, place, counts
  <1>12. CASE LoopEnds
    BY <1>1, <1>12 DEF LoopEnds, call, counts
  <1>13. CASE Truncate
    BY <1>1, <1>13 DEF Truncate, call, place, counts
  <1>14. CASE Fill
    BY <1>1, <1>14 DEF Fill, Status, Exits, call, place, counts
  <1>15. CASE Servers
    <2>1. faults' = faults \/ Fault
      BY <1>15 DEF Servers, ServerBinds, ServerLoads, ServerDies, counts
    <2>2. faults' \in 0 .. MaxFaults
      BY <1>1, <1>2, <2>1 DEF Fault
    <2> QED
      BY <1>1, <1>15, <2>2 DEF Servers, ServerBinds, ServerLoads, ServerDies, call, place, counts
  <1>16. CASE Interrupt
    <2>1. pressed' \in 0 .. MaxInterrupts
      BY <1>1, <1>2, <1>16 DEF Interrupt
    <2>2. UNCHANGED <<bench, session, lives, life, answered, faults>>
      BY <1>16 DEF Interrupt, call
    <2>3. /\ pc' \in {"stopping", "idle", "closing"}
          /\ after' = "interrupted" \/ after' = after
          /\ exit' = "traceback" \/ exit' = exit
      BY <1>16 DEF Interrupt, StopThen
    <2> QED
      BY <1>1, <2>1, <2>2, <2>3
  <1> QED
    BY <1>3, <1>4, <1>5, <1>6, <1>7, <1>8, <1>9, <1>10, <1>11, <1>12, <1>13, <1>14, <1>15, <1>16
       DEF Next, Script

\* A step keeps all types.
LEMMA TypesStep ==
    ASSUME TypeInv, LivesInv, LoopInv, Next
    PROVE  TypeInv'
PROOF
  <1>1. PlaceTypes'
    BY PlaceStep
  <1>2. lives' \in Seq(Life) /\ records' \in Seq(Record)
        /\ out' \in [status : Exits \cup {None, Torn}, records : Seq(Record)]
    BY ListsStep
  <1>3. /\ \A i \in DOMAIN records' : IsRecord(records'[i])
        /\ out.status' \in Exits \cup {None, Torn}
        /\ \A i \in DOMAIN out.records' : IsRecord(out.records'[i])
    <2>1. out'.records \in Seq(Record) /\ out'.status \in Exits \cup {None, Torn}
      BY <1>2
    <2> QED
      BY <1>2, <2>1, RecordsTyped
  <1>4. /\ DOMAIN servers' \subseteq Pids
        /\ servers' \in [DOMAIN servers' -> Server]
        /\ \A l \in DOMAIN logs' : logs'[l] \in Pids
    <2>1. CASE Popen
      BY <2>1, StartTyped
    <2>2. CASE ~Popen
      <3>1. Kept
        BY <2>2, ServersKept
      <3>2. logs' = logs
        BY <2>2 DEF Next, Script, Servers, StartSession, EnterTry, Healthy, PollFindsDead, Deadline,
                    EnterMeasure, Completion, CompletionRaises, Measured, Stopped, StopTimesOut,
                    LoopEnds, Truncate, Fill, ServerBinds, ServerLoads, ServerDies, Interrupt, files
      <3> QED
        BY <3>1, <3>2 DEF Kept, TypeInv, TypeOK
    <2> QED
      BY <2>1, <2>2
  <1>5. \A s \in DOMAIN servers' : servers'[s].phase \in Phases /\ servers'[s].told \in BOOLEAN
    <2>1. \A s \in DOMAIN servers' : servers'[s] \in Server
      BY <1>4
    <2> QED
      BY <2>1 DEF Server
  <1> QED
    BY <1>1, <1>2, <1>3, <1>4, <1>5 DEF TypeInv, TypeOK, PlaceTypes

------------------------------------------------------------------------------
(* The loop. *)

\* The session, its lives and how the script is called do not change before
\* the next session.
LEMMA SameCall ==
    ASSUME Next, ~StartSession
    PROVE  UNCHANGED call
PROOF
  BY DEF Next, Script, Servers, Popen, EnterTry, Healthy, PollFindsDead, Deadline,
         EnterMeasure, Completion, CompletionRaises, Measured, Stopped, StopTimesOut,
         LoopEnds, Truncate, Fill, ServerBinds, ServerLoads, ServerDies, Interrupt

\* The lives of a session stay sound.
LEMMA LivesStep ==
    ASSUME TypeInv, LivesInv, Next
    PROVE  LivesInv'
PROOF
  <1>1. CASE StartSession
    BY <1>1, StartedLives
  <1>2. CASE ~StartSession
    <2>1. UNCHANGED call
      BY <1>2, SameCall
    <2> QED
      BY <2>1 DEF LivesInv, LogOf, Selectable, Listed, call
  <1> QED
    BY <1>1, <1>2

\* A step keeps the life of the loop among the lives, and the count of its answers.
LEMMA LoopStep ==
    ASSUME TypeInv, LivesInv, LoopInv, Next
    PROVE  LoopInv'
PROOF
  <1>1. /\ Len(lives) \in Nat /\ DOMAIN lives = 1 .. Len(lives) /\ life \in Nat
        /\ session \in Nat /\ answered \in Nat
        /\ \A l \in DOMAIN lives : Len(lives[l].reps) \in Nat
    BY LenProperties DEF TypeInv, TypeOK, LivesInv
  <1> USE DEF LoopInv, Running, call
  <1>2. CASE StartSession
    BY <1>1, <1>2 DEF StartSession
  <1>3. CASE Popen
    BY <1>1, <1>3, StartTyped DEF Popen
  <1>4. CASE EnterTry \/ Healthy \/ EnterMeasure
    BY <1>4 DEF EnterTry, Healthy, EnterMeasure, place
  <1>5. CASE PollFindsDead
    BY <1>5 DEF PollFindsDead, RecordDeath, NextLife
  <1>6. CASE Deadline
    BY <1>6 DEF Deadline, StopThen
  <1>7. CASE \E s \in DOMAIN servers : Completion(s)
    BY <1>1, <1>7 DEF Completion
  <1>8. CASE CompletionRaises \/ Measured
    BY <1>8 DEF CompletionRaises, Measured, StopThen
  <1>9. CASE Stopped
    BY <1>9 DEF Stopped, Resume, RecordDeath, NextLife
  <1>10. CASE StopTimesOut
    BY <1>10 DEF StopTimesOut
  <1>11. CASE LoopEnds
    BY <1>11 DEF LoopEnds
  <1>12. CASE Truncate \/ Fill
    BY <1>12 DEF Truncate, Fill, place
  <1>13. CASE Servers
    BY <1>13 DEF Servers, ServerBinds, ServerLoads, ServerDies, place
  <1>14. CASE Interrupt
    BY <1>14 DEF Interrupt, StopThen, Guarded
  <1> QED
    BY <1>2, <1>3, <1>4, <1>5, <1>6, <1>7, <1>8, <1>9, <1>10, <1>11, <1>12, <1>13, <1>14
       DEF Next, Script

------------------------------------------------------------------------------
(* The servers of a session. *)

\* A step leaves no server of the session but the loop's: the next one is started
\* when the last is gone.
LEMMA ServerStep ==
    ASSUME TypeInv, LivesInv, LoopInv, ServerInv, Next
    PROVE  ServerInv'
PROOF
  <1>1. /\ session \in Nat /\ \A s \in DOMAIN servers : s[1] \in Nat
        /\ Alive(Me) <=> Me \in DOMAIN servers
    BY DEF TypeInv, TypeOK, Pids, Alive
  <1>2. ~Popen => Kept
    BY ServersKept
  <1>3. \A s \in DOMAIN servers : servers[s].told \in BOOLEAN
    BY DEF TypeInv, TypeOK
  <1>4. ASSUME NEW what, StopThen(what), UNCHANGED <<session, life>>, pc \notin {"idle", "loop"}
        PROVE  ServerInv'
    <2>1. Kept /\ (Alive(Me) => servers'[Me].told) /\ pc' = "stopping"
      BY <1>4, TellKeeps DEF StopThen, TypeInv
    <2> QED
      BY <1>4, <2>1 DEF Kept, ServerInv, Me, Alive
  <1> USE DEF ServerInv, call, Me, Alive
  <1>5. CASE StartSession
    BY <1>1, <1>5 DEF StartSession
  <1>6. CASE Popen
    BY <1>1, <1>6, StartTyped DEF Popen
  <1>7. CASE EnterTry \/ Healthy \/ EnterMeasure
    BY <1>7 DEF EnterTry, Healthy, EnterMeasure, place
  <1>8. CASE PollFindsDead
    BY <1>8 DEF PollFindsDead, RecordDeath, NextLife
  <1>9. CASE Deadline
    <2>1. CASE GptOss
      BY <1>4, <1>9, <2>1 DEF Deadline
    <2>2. CASE ~GptOss
      BY <1>9, <2>2 DEF Deadline
    <2> QED
      BY <2>1, <2>2
  <1>10. CASE \E s \in DOMAIN servers : Completion(s)
    BY <1>10 DEF Completion
  <1>11. CASE CompletionRaises \/ Measured
    BY <1>4, <1>11 DEF CompletionRaises, Measured
  <1>12. CASE Stopped
    BY <1>12 DEF Stopped, Resume, RecordDeath, NextLife
  <1>13. CASE StopTimesOut
    BY <1>13 DEF StopTimesOut
  <1>14. CASE LoopEnds
    BY <1>14 DEF LoopEnds
  <1>15. CASE Truncate \/ Fill
    BY <1>15 DEF Truncate, Fill, place
  <1>16. CASE Servers
    <2>1. UNCHANGED <<pc, session, life, after, struck>>
      BY <1>16 DEF Servers, ServerBinds, ServerLoads, ServerDies, place
    <2>2. Kept
      BY <1>2, <1>16 DEF Servers, ServerBinds, ServerLoads, ServerDies, Popen, call
    <2> QED
      BY <1>3, <2>1, <2>2 DEF Kept
  <1>17. CASE Interrupt
    <2>1. CASE Guarded
      <3>1. StopThen("interrupted") /\ UNCHANGED <<session, life>> /\ pc \notin {"idle", "loop"}
        BY <1>17, <2>1 DEF Interrupt, Guarded
      <3> QED
        BY <1>4, <3>1
    <2>2. CASE ~Guarded
      <3>1. CASE pc \in {"closing", "truncated"}
        BY <1>17, <2>2, <3>1 DEF Interrupt
      <3>2. CASE pc \notin {"closing", "truncated"}
        <4>1. /\ UNCHANGED <<servers, session, life>> /\ pc' = "closing"
              /\ after' = "interrupted" /\ struck' = pc
          BY <1>17, <2>2, <3>2 DEF Interrupt
        <4>2. pc \in {"loop", "started", "handed", "stopping"}
          BY <1>17, <2>2, <3>2 DEF Interrupt, Guarded, TypeInv, TypeOK
        <4> QED
          BY <4>1, <4>2
      <3> QED
        BY <3>1, <3>2
    <2> QED
      BY <2>1, <2>2
  <1> QED
    BY <1>5, <1>6, <1>7, <1>8, <1>9, <1>10, <1>11, <1>12, <1>13, <1>14, <1>15, <1>16, <1>17
       DEF Next, Script

\* What is left when a session ends was told to end, or Ctrl+C struck where
\* nothing tells it.
LEMMA LeftStep ==
    ASSUME TypeInv, LoopInv, ServerInv, ServersLeft, Next
    PROVE  ServersLeft'
PROOF
  <1>1. SUFFICES ASSUME pc' = "idle"
                 PROVE  \/ exit' = "traceback"
                        \/ \A s \in DOMAIN servers' : s[1] = session' =>
                            /\ exit' # "complete"
                            /\ exit' = "interrupted" =>
                                servers'[s].told \/ struck' \in {"started", "handed"}
    BY DEF ServersLeft
  <1>2. CASE StartSession
    BY <1>1, <1>2 DEF StartSession
  <1>3. CASE \/ Popen \/ EnterTry \/ Healthy \/ EnterMeasure
             \/ \E s \in DOMAIN servers : Completion(s)
             \/ CompletionRaises \/ Measured \/ LoopEnds \/ Truncate
    BY <1>1, <1>3 DEF Popen, EnterTry, Healthy, EnterMeasure, Completion, CompletionRaises,
                      Measured, LoopEnds, Truncate, StopThen
  <1>4. CASE PollFindsDead
    BY <1>1, <1>4 DEF PollFindsDead, RecordDeath, NextLife
  <1>5. CASE Deadline
    BY <1>1, <1>5 DEF Deadline, StopThen
  <1>6. CASE Stopped
    BY <1>1, <1>6 DEF Stopped, Resume, RecordDeath, NextLife
  <1>7. CASE StopTimesOut
    BY <1>7 DEF StopTimesOut
  <1>8. CASE Fill
    <2>1. pc = "truncated" /\ UNCHANGED <<servers, struck, session>> /\ exit' = Status
      BY <1>8 DEF Fill, call
    <2> QED
      BY <2>1 DEF ServerInv, Status
  <1>9. CASE Servers
    <2>1. UNCHANGED <<pc, session, exit, struck>>
      BY <1>9 DEF Servers, ServerBinds, ServerLoads, ServerDies, call
    <2>2. Kept
      BY <1>9, <2>1, ServersKept DEF Popen
    <2>3. \A s \in DOMAIN servers : s[1] = session =>
            /\ exit # "complete"
            /\ exit = "interrupted" => servers[s].told \/ struck \in {"started", "handed"}
      BY <1>1, <2>1 DEF ServersLeft
    <2> QED
      BY <2>1, <2>2, <2>3 DEF Kept
  <1>10. CASE Interrupt
    BY <1>1, <1>10 DEF Interrupt, StopThen
  <1> QED
    BY <1>2, <1>3, <1>4, <1>5, <1>6, <1>7, <1>8, <1>9, <1>10 DEF Next, Script

------------------------------------------------------------------------------
(* The records. *)

\* How a step can change the records: none, a new list, the death of the
\* server of the loop, an answer to it.
LEMMA RecordsChange ==
    ASSUME TypeInv, LivesInv, LoopInv, Next
    PROVE  \/ UNCHANGED records
           \/ StartSession /\ records' = <<>>
           \/ /\ pc \in Running /\ RecordDeath /\ Grows /\ UNCHANGED <<call, logs>>
              /\ PollFindsDead \/ Stopped
              /\ LET r == records'[Len(records) + 1]
                 IN  /\ r.config = Config /\ r.rep = lives[life].reps[1] /\ r.ok = FALSE
                     /\ r.server = Me
           \/ \E s \in DOMAIN servers :
                /\ Completion(s) /\ Grows /\ UNCHANGED <<call, logs, pc, life>>
                /\ LET r == records'[Len(records) + 1]
                   IN  /\ r.config = Config /\ r.rep = Rep /\ r.ok = TRUE
                       /\ r.server = Me /\ r.by = s
PROOF
  <1>1. CASE StartSession
    BY <1>1 DEF StartSession
  <1>2. CASE \E s \in DOMAIN servers : Completion(s)
    <2>1. PICK s \in DOMAIN servers : Completion(s)
      BY <1>2
    <2> QED
      BY <2>1, AnswerTyped DEF Completion, files
  <1>3. CASE PollFindsDead \/ Stopped
    <2>1. pc \in Running /\ (RecordDeath \/ UNCHANGED records)
      BY <1>3 DEF PollFindsDead, Stopped, Resume, Running
    <2>2. UNCHANGED <<call, logs>>
      BY <1>3 DEF PollFindsDead, Stopped, files
    <2> QED
      BY <1>3, <2>1, <2>2, DeathTyped
  <1>4. CASE \/ Popen \/ EnterTry \/ Healthy \/ Deadline \/ EnterMeasure \/ CompletionRaises
             \/ Measured \/ StopTimesOut \/ LoopEnds \/ Truncate \/ Fill \/ Servers \/ Interrupt
    BY <1>4 DEF Popen, EnterTry, Healthy, Deadline, EnterMeasure, CompletionRaises, Measured,
                StopTimesOut, LoopEnds, Truncate, Fill, Servers, ServerBinds, ServerLoads,
                ServerDies, Interrupt
  <1> QED
    BY <1>1, <1>2, <1>3, <1>4 DEF Next, Script

\* The holder of the port is the server of the loop, or one of an earlier session.
LEMMA OwnServerStep ==
    ASSUME TypeInv, LivesInv, LoopInv, ServerInv, OwnServer, Next
    PROVE  OwnServer'
PROOF
  <1>1. CASE StartSession
    BY <1>1 DEF StartSession, OwnServer
  <1>2. CASE ~StartSession
    <2>1. session' = session
      BY <1>2, SameCall DEF call
    <2>2. CASE UNCHANGED records
      BY <2>1, <2>2 DEF OwnServer
    <2>3. CASE ~UNCHANGED records
      <3>1. CASE Grows /\ records'[Len(records) + 1].ok = FALSE
        BY <2>1, <3>1 DEF Grows, OwnServer
      <3>2. ASSUME NEW s \in DOMAIN servers, Completion(s), Grows,
                   records'[Len(records) + 1].server = Me, records'[Len(records) + 1].by = s
            PROVE  OwnServer'
        <4>1. s = Me \/ s[1] < session
          BY <3>2 DEF ServerInv, Completion, TypeInv, TypeOK, Pids
        <4> QED
          BY <2>1, <3>2, <4>1 DEF Grows, OwnServer
      <3> QED
        BY <1>2, <2>3, <3>1, <3>2, RecordsChange
    <2> QED
      BY <2>2, <2>3
  <1> QED
    BY <1>1, <1>2

\* The loop goes on to the next life, or stays where it is.
LEMMA LifeMoves ==
    ASSUME TypeInv, Next, ~StartSession
    PROVE  /\ life' \in {life, life + 1}
           /\ pc' = "loop" => life' = life + 1 \/ pc = "loop"
           /\ life' = life + 1 => pc' = "loop" /\ (PollFindsDead \/ Stopped)
           /\ pc' \in Running => life' = life /\ (Popen \/ (pc \in Running /\ ~Popen))
           /\ ~Popen => UNCHANGED logs
PROOF
  <1>1. life \in Nat /\ life # life + 1
    BY DEF TypeInv, TypeOK
  <1> USE DEF Running, place, files
  <1>2. CASE Popen
    BY <1>1, <1>2 DEF Popen
  <1>3. CASE \/ EnterTry \/ Healthy \/ EnterMeasure \/ \E s \in DOMAIN servers : Completion(s)
             \/ CompletionRaises \/ Measured \/ LoopEnds \/ StopTimesOut \/ Truncate \/ Fill
    BY <1>1, <1>3 DEF EnterTry, Healthy, EnterMeasure, Completion, CompletionRaises, Measured,
                      LoopEnds, StopTimesOut, Truncate, Fill, StopThen, Popen
  <1>4. CASE PollFindsDead
    BY <1>1, <1>4 DEF PollFindsDead, RecordDeath, NextLife, Popen
  <1>5. CASE Deadline
    BY <1>1, <1>5 DEF Deadline, StopThen, Popen
  <1>6. CASE Stopped
    BY <1>1, <1>6 DEF Stopped, Resume, RecordDeath, NextLife, Popen
  <1>7. CASE Servers
    BY <1>1, <1>7 DEF Servers, ServerBinds, ServerLoads, ServerDies, Popen
  <1>8. CASE Interrupt
    BY <1>1, <1>8 DEF Interrupt, StopThen, Guarded, Popen
  <1> QED
    BY <1>2, <1>3, <1>4, <1>5, <1>6, <1>7, <1>8 DEF Next, Script

\* What starting a server does to the logs.
LEMMA LogStarted ==
    ASSUME Popen, GptOss
    PROVE  /\ DOMAIN logs' = DOMAIN logs \cup {LogOf(lives[life])}
           /\ logs'[LogOf(lives[life])] = Me
           /\ \A l \in DOMAIN logs : l # LogOf(lives[life]) => logs'[l] = logs[l]
PROOF
  BY DEF Popen, With

\* Records are of lives that have begun, and the log of the loop is its server's.
LEMMA RecordsStep ==
    ASSUME TypeInv, LivesInv, LoopInv, RecordsInv, Next
    PROVE  RecordsInv'
PROOF
  <1>1. CASE StartSession
    BY <1>1 DEF StartSession, RecordsInv, Running
  <1>2. CASE ~StartSession
    <2>1. UNCHANGED call /\ life \in Nat /\ DOMAIN lives \subseteq Nat
      BY <1>2, SameCall, LenProperties DEF TypeInv, TypeOK
    <2>2. /\ life' \in {life, life + 1}
          /\ pc' = "loop" => life' = life + 1 \/ pc = "loop"
          /\ pc' \in Running => life' = life /\ (Popen \/ (pc \in Running /\ ~Popen))
          /\ ~Popen => UNCHANGED logs
      BY <1>2, LifeMoves
    <2> DEFINE Known(s) ==
                  /\ s[1] = session' /\ s[2] \in DOMAIN lives' /\ s[2] <= life'
                  /\ pc' = "loop" => s[2] < life'
    <2>3. ASSUME NEW i \in DOMAIN records
          PROVE  Known(records[i].server)
      BY <2>1, <2>2 DEF RecordsInv, call
    <2>4. ASSUME pc \in Running
          PROVE  Known(Me)
      BY <2>1, <2>2, <2>4 DEF LoopInv, Me, call, Running
    <2>5. ASSUME NEW i \in DOMAIN records'
          PROVE  Known(records'[i].server)
      <3> HIDE DEF Known
      <3>1. CASE UNCHANGED records
        BY <2>3, <3>1
      <3>2. CASE Grows /\ pc \in Running /\ records'[Len(records) + 1].server = Me
        BY <2>3, <2>4, <3>2 DEF Grows
      <3>3. \A s : Completion(s) => pc \in Running
        BY DEF Completion, Running
      <3> QED
        BY <1>2, <3>1, <3>2, <3>3, RecordsChange
    <2>6. GptOss' /\ pc' \in Running =>
            LogOf(lives[life])' \in DOMAIN logs' /\ logs'[LogOf(lives[life])'] = Me'
      <3>1. CASE Popen
        BY <2>1, <3>1, LogStarted DEF call, Popen, Me, LogOf, GptOss
      <3>2. CASE ~Popen
        BY <2>1, <2>2, <3>2 DEF RecordsInv, call, Me, LogOf, GptOss
      <3> QED
        BY <3>1, <3>2
    <2> QED
      BY <2>5, <2>6 DEF RecordsInv
  <1> QED
    BY <1>1, <1>2

\* Starting a server empties no log of another life.
LEMMA LogsStep ==
    ASSUME TypeInv, LivesInv, LoopInv, RecordsInv, ServerLogs, Next
    PROVE  ServerLogs'
PROOF
  <1>1. CASE StartSession
    BY <1>1 DEF StartSession, ServerLogs
  <1>2. CASE ~StartSession
    <2>1. UNCHANGED call
      BY <1>2, SameCall
    <2>2. SUFFICES ASSUME GptOss
                   PROVE  \A i \in DOMAIN records' :
                            LET l == lives[records'[i].server[2]]
                            IN  LogOf(l) \in DOMAIN logs' /\ logs'[LogOf(l)] = records'[i].server
      BY <2>1 DEF ServerLogs, LogOf, GptOss, call
    <2> DEFINE Logged(s, list) ==
                  LogOf(lives[s[2]]) \in DOMAIN list /\ list[LogOf(lives[s[2]])] = s
    <2>3. \A i \in DOMAIN records : Logged(records[i].server, logs)
      BY <2>2 DEF ServerLogs
    <2>4. pc \in Running => Logged(Me, logs)
      BY <2>2 DEF RecordsInv, Me
    <2>5. ASSUME NEW i \in DOMAIN records
          PROVE  Logged(records[i].server, logs')
      <3>1. CASE Popen
        <4>1. life \in DOMAIN lives
          BY <3>1, StartTyped
        <4>2. records[i].server[2] \in DOMAIN lives /\ records[i].server[2] < life
          BY <3>1 DEF RecordsInv, Popen
        <4>3. records[i].server[2] # life
          <5>1. life \in Nat /\ DOMAIN lives \subseteq Nat
            BY LenProperties DEF TypeInv, TypeOK
          <5> QED
            BY <4>2, <5>1
        <4>4. LogOf(lives[records[i].server[2]]) # LogOf(lives[life])
          BY <4>1, <4>2, <4>3 DEF LivesInv
        <4> QED
          BY <2>2, <2>3, <3>1, <4>4, LogStarted
      <3>2. CASE ~Popen
        <4>1. UNCHANGED logs
          BY <1>2, <3>2, LifeMoves
        <4> QED
          BY <2>3, <4>1
      <3> QED
        BY <3>1, <3>2
    <2>6. CASE UNCHANGED records
      BY <2>5, <2>6
    <2>7. CASE /\ Grows /\ pc \in Running /\ UNCHANGED logs
               /\ records'[Len(records) + 1].server = Me
      <3> HIDE DEF Logged
      <3>1. \A i \in DOMAIN records' : Logged(records'[i].server, logs')
        BY <2>4, <2>5, <2>7 DEF Grows
      <3> QED
        BY <3>1 DEF Logged
    <2>8. \A s : Completion(s) => pc \in Running
      BY DEF Completion, Running
    <2> QED
      BY <1>2, <2>6, <2>7, <2>8, RecordsChange
  <1> QED
    BY <1>1, <1>2

------------------------------------------------------------------------------
(* Nothing is dropped. *)

\* Covered after a step, when the lives are the same.
CoveredNext(l, rep) ==
    \E i \in DOMAIN records' :
        /\ records'[i].config = lives[l].config
        /\ records'[i].rep = rep \/ (~records'[i].ok /\ ~bench.interleave)

\* What has its record keeps it.
LEMMA StaysCovered ==
    ASSUME UNCHANGED records \/ Grows, NEW l, NEW rep, Covered(l, rep)
    PROVE  CoveredNext(l, rep)
PROOF
  BY DEF Covered, CoveredNext, Grows

\* The record of the death of a server stands for all it was to answer.
LEMMA DeathCovers ==
    ASSUME TypeInv, LivesInv, LoopInv, pc \in Running, Grows,
           LET r == records'[Len(records) + 1]
           IN  r.config = Config /\ r.rep = lives[life].reps[1] /\ r.ok = FALSE
    PROVE  \A r \in DOMAIN lives[life].reps : CoveredNext(life, lives[life].reps[r])
PROOF
  <1>1. Len(records) + 1 \in DOMAIN records'
    BY DEF Grows
  <1>2. CASE ~bench.interleave
    BY <1>1, <1>2 DEF CoveredNext, Config
  <1>3. CASE bench.interleave
    <2>1. life \in DOMAIN lives /\ Len(lives[life].reps) = 1
      BY <1>3 DEF LoopInv, LivesInv
    <2>2. DOMAIN lives[life].reps = {1}
      <3>1. lives[life] \in Life
        BY <2>1, ElementOfSeq, LenProperties DEF TypeInv
      <3>2. lives[life].reps \in Seq(0 .. Reps - 1)
        BY <3>1 DEF Life
      <3> QED
        BY <2>1, <3>2, LenProperties
    <2> QED
      BY <1>1, <2>2 DEF CoveredNext, Config
  <1> QED
    BY <1>2, <1>3

\* The loop leaves no life before it has its records.
LEMMA CoveredStep ==
    ASSUME TypeInv, LivesInv, LoopInv, CoveredInv, Next
    PROVE  CoveredInv'
PROOF
  <1>1. CASE StartSession
    <2>1. life' = 1 /\ pc' \notin Running
      BY <1>1 DEF StartSession, Running
    <2>2. \A l \in DOMAIN lives' : ~(l < life')
      <3>1. lives' \in Seq(Life)
        BY <1>1, StartedLives
      <3>2. DOMAIN lives' = 1 .. Len(lives') /\ Len(lives') \in Nat
        BY <3>1, LenProperties
      <3> QED
        BY <2>1, <3>2
    <2> QED
      BY <2>1, <2>2 DEF CoveredInv
  <1>2. CASE ~StartSession /\ pc = "idle"
    <2>1. pc' = "idle"
      BY <1>2 DEF Next, Script, Popen, EnterTry, Healthy, PollFindsDead, Deadline, EnterMeasure,
                  Completion, CompletionRaises, Measured, Stopped, StopTimesOut, LoopEnds,
                  Truncate, Fill, Servers, ServerBinds, ServerLoads, ServerDies, Interrupt
    <2> QED
      BY <2>1 DEF CoveredInv
  <1>3. CASE ~StartSession /\ pc # "idle"
    <2>1. UNCHANGED call /\ life \in Nat /\ DOMAIN lives \subseteq Nat
      BY <1>3, SameCall, LenProperties DEF TypeInv, TypeOK
    <2>2. UNCHANGED records \/ Grows
      BY <1>3, RecordsChange
    <2>3. ASSUME NEW l \in DOMAIN lives, l < life, NEW r \in DOMAIN lives[l].reps
          PROVE  CoveredNext(l, lives[l].reps[r])
      BY <1>3, <2>2, <2>3, StaysCovered DEF CoveredInv
    <2>4. ASSUME pc \in Running, NEW r \in 1 .. answered
          PROVE  CoveredNext(life, lives[life].reps[r])
      BY <2>2, <2>4, <1>3, StaysCovered DEF CoveredInv
    <2>5. ASSUME life' = life + 1, NEW r \in DOMAIN lives[life].reps
          PROVE  CoveredNext(life, lives[life].reps[r])
      <3>1. pc' = "loop" /\ (PollFindsDead \/ Stopped)
        BY <1>3, <2>5, LifeMoves
      <3>2. pc \in Running
        BY <3>1 DEF PollFindsDead, Stopped, Running
      <3>3. CASE UNCHANGED records
        <4>1. ~RecordDeath
          <5>1. Grows => records' # records
            BY DEF Grows
          <5> QED
            BY <3>2, <3>3, <5>1, DeathTyped
        <4>2. life # life + 1
          BY <2>1
        <4>3. pc = "stopping" /\ after = "next"
          BY <2>5, <3>1, <4>1, <4>2 DEF PollFindsDead, Stopped, Resume
        <4>4. answered = Len(lives[life].reps) /\ life \in DOMAIN lives
          BY <4>3 DEF LoopInv, Running
        <4>5. lives[life].reps \in Seq(0 .. Reps - 1)
          <5>1. lives[life] \in Life
            BY <4>4, ElementOfSeq, LenProperties DEF TypeInv
          <5> QED
            BY <5>1 DEF Life
        <4>6. DOMAIN lives[life].reps = 1 .. answered
          BY <4>4, <4>5, LenProperties
        <4> QED
          BY <2>4, <2>5, <3>2, <4>6
      <3>4. CASE ~UNCHANGED records
        <4>1. \A s : Completion(s) => life' = life
          BY DEF Completion
        <4>2. life # life + 1
          BY <2>1
        <4>3. Grows /\ LET d == records'[Len(records) + 1]
                       IN  d.config = Config /\ d.rep = lives[life].reps[1] /\ d.ok = FALSE
          BY <1>3, <2>5, <3>4, <4>1, <4>2, RecordsChange
        <4> QED
          BY <2>5, <3>2, <4>3, DeathCovers
      <3> QED
        BY <3>3, <3>4
    <2>6. ASSUME NEW l \in DOMAIN lives, l < life', NEW r \in DOMAIN lives[l].reps
          PROVE  CoveredNext(l, lives[l].reps[r])
      <3>1. l < life \/ (l = life /\ life' = life + 1)
        <4>1. life' \in {life, life + 1}
          BY <1>3, LifeMoves
        <4> QED
          BY <2>1, <2>6, <4>1
      <3> QED
        BY <2>3, <2>5, <2>6, <3>1
    <2>7. ASSUME pc' \in Running, NEW r \in 1 .. answered'
          PROVE  life' = life /\ CoveredNext(life, lives[life].reps[r])
      <3>1. life' = life /\ (Popen \/ pc \in Running)
        BY <1>3, <2>7, LifeMoves
      <3>2. CASE Popen
        BY <2>7, <3>2 DEF Popen
      <3>3. CASE pc \in Running /\ answered' = answered
        BY <2>4, <2>7, <3>1, <3>3
      <3>4. ASSUME NEW s \in DOMAIN servers, Completion(s)
            PROVE  CoveredNext(life, lives[life].reps[r])
        <4>1. /\ Grows /\ answered' = answered + 1
              /\ LET d == records'[Len(records) + 1]
                 IN  d.config = Config /\ d.rep = Rep
          BY <3>4, AnswerTyped
        <4>2. answered \in Nat /\ pc \in Running
          BY <3>4 DEF TypeInv, TypeOK, Completion, Running
        <4>3. CASE r = answered + 1
          BY <4>1, <4>3 DEF Grows, CoveredNext, Config, Rep
        <4>4. CASE r # answered + 1
          <5>1. r \in 1 .. answered
            BY <2>7, <4>1, <4>2, <4>4
          <5> QED
            BY <2>4, <4>2, <5>1
        <4> QED
          BY <4>3, <4>4
      <3>5. Popen \/ answered' = answered \/ \E s \in DOMAIN servers : Completion(s)
        BY <1>3 DEF Next, Script, EnterTry, Healthy, PollFindsDead, Deadline, EnterMeasure,
                    CompletionRaises, Measured, Stopped, StopTimesOut, LoopEnds, Truncate,
                    Fill, Servers, ServerBinds, ServerLoads, ServerDies, Interrupt, place
      <3> QED
        BY <3>1, <3>2, <3>3, <3>4, <3>5
    <2> QED
      BY <2>1, <2>6, <2>7 DEF CoveredInv, Covered, CoveredNext, call
  <1> QED
    BY <1>1, <1>2, <1>3

\* The file gets them all.
LEMMA AccountedStep ==
    ASSUME TypeInv, LivesInv, LoopInv, CoveredInv, Accounted, Next
    PROVE  Accounted'
PROOF
  <1> SUFFICES ASSUME pc' = "idle" /\ exit' \in Exits
               PROVE  Accounted'
    BY DEF Accounted
  <1>1. CASE Fill
    <2>1. /\ pc = "truncated" /\ exit' = Status /\ UNCHANGED <<call, after, life, records>>
          /\ out' = [status |-> Status, records |-> records]
      BY <1>1 DEF Fill, place
    <2>2. out'.status = exit' /\ out'.records = records'
      BY <2>1
    <2>3. ASSUME exit' = "complete", NEW c \in asked, Selectable(c), NEW rep \in 0 .. Reps - 1
          PROVE  \E i \in DOMAIN records :
                    /\ records[i].config = c
                    /\ records[i].rep = rep \/ (~records[i].ok /\ ~bench.interleave)
      <3>1. after = "next"
        BY <2>1, <2>3 DEF Status, LoopInv
      <3>2. life > Len(lives)
        BY <2>1, <3>1 DEF LoopInv
      <3>3. PICK l \in DOMAIN lives : Answers(lives[l], c, rep)
        BY <2>3 DEF LivesInv
      <3>4. l < life
        <4>1. l \in 1 .. Len(lives) /\ Len(lives) \in Nat /\ life \in Nat
          BY LenProperties DEF TypeInv, TypeOK
        <4> QED
          BY <3>2, <4>1
      <3>5. PICK r \in DOMAIN lives[l].reps : lives[l].reps[r] = rep
        BY <3>3 DEF Answers
      <3>6. Covered(l, rep)
        BY <2>1, <3>4, <3>5 DEF CoveredInv
      <3> QED
        BY <3>3, <3>6 DEF Covered, Answers
    <2> QED
      BY <2>1, <2>2, <2>3 DEF Accounted, Selectable, Listed, call
  <1>2. CASE ~Fill
    <2>1. Servers
      <3>1. CASE Stopped
        BY <3>1 DEF Stopped, Resume, RecordDeath, NextLife, Exits
      <3>2. CASE PollFindsDead \/ Deadline
        BY <3>2 DEF PollFindsDead, Deadline, RecordDeath, NextLife, StopThen, Exits
      <3>3. CASE Interrupt
        BY <3>3 DEF Interrupt, StopThen, Exits
      <3>4. CASE \/ StartSession \/ Popen \/ EnterTry \/ Healthy \/ EnterMeasure
                 \/ \E s \in DOMAIN servers : Completion(s)
                 \/ CompletionRaises \/ Measured \/ StopTimesOut \/ LoopEnds \/ Truncate
        BY <3>4 DEF StartSession, Popen, EnterTry, Healthy, EnterMeasure, Completion,
                    CompletionRaises, Measured, StopTimesOut, LoopEnds, Truncate, StopThen, Exits
      <3> QED
        BY <1>2, <3>1, <3>2, <3>3, <3>4 DEF Next, Script
    <2>2. UNCHANGED <<call, pc, exit, out, records>>
      BY <2>1 DEF Servers, ServerBinds, ServerLoads, ServerDies, files
    <2> QED
      BY <2>2 DEF Accounted, Selectable, Listed, call
  <1> QED
    BY <1>1, <1>2

------------------------------------------------------------------------------
(* The theorems. *)

\* The invariant holds at first.
LEMMA InitHolds == Init => IInv
PROOF
  <1> SUFFICES ASSUME Init PROVE IInv
    OBVIOUS
  <1>1. TypeInv
    BY InitTypes
  <1>2. pc = "idle" /\ session = 0 /\ asked = {} /\ lives = <<>> /\ records = <<>> /\ servers = <<>>
        /\ DOMAIN lives = {} /\ DOMAIN records = {} /\ DOMAIN servers = {} /\ Len(lives) = 0
        /\ out.status = None /\ out.records = <<>> /\ exit = None
    BY DEF Init
  <1>3. LivesInv
    BY <1>2, LongestIsNat DEF LivesInv
  <1>4. LoopInv /\ ServerInv /\ ServersLeft /\ RecordsInv /\ OwnServer /\ ServerLogs /\ CoveredInv
    BY <1>2 DEF LoopInv, ServerInv, ServersLeft, RecordsInv, OwnServer, ServerLogs, CoveredInv,
                Running
  <1>5. Accounted
    BY <1>2 DEF Accounted
  <1> QED
    BY <1>1, <1>3, <1>4, <1>5 DEF IInv

\* A step keeps the invariant.
LEMMA NextHolds == IInv /\ [Next]_vars => IInv'
PROOF
  <1>1. ASSUME IInv, Next PROVE IInv'
    BY <1>1, TypesStep, LivesStep, LoopStep, ServerStep, LeftStep, RecordsStep, OwnServerStep,
       LogsStep, CoveredStep, AccountedStep DEF IInv
  <1>2. ASSUME IInv, UNCHANGED vars PROVE IInv'
    <2>1. /\ UNCHANGED <<bench, session, asked, lives, life, answered, after, out, logs>>
          /\ UNCHANGED <<pressed, faults, pc, struck, servers, records, exit>>
      BY <1>2 DEF vars, call, place, files, counts
    <2>2. TypeInv'
      BY <1>2, <2>1 DEF IInv, TypeInv, TypeOK
    <2>3. LivesInv'
      BY <1>2, <2>1 DEF IInv, LivesInv, LogOf, Selectable, Listed
    <2>4. LoopInv'
      BY <1>2, <2>1 DEF IInv, LoopInv
    <2>5. ServerInv'
      BY <1>2, <2>1 DEF IInv, ServerInv, Me, Alive
    <2>6. ServersLeft'
      BY <1>2, <2>1 DEF IInv, ServersLeft
    <2>7. RecordsInv'
      BY <1>2, <2>1 DEF IInv, RecordsInv, GptOss, LogOf, Me
    <2>8. OwnServer'
      BY <1>2, <2>1 DEF IInv, OwnServer
    <2>9. ServerLogs'
      BY <1>2, <2>1 DEF IInv, ServerLogs, GptOss, LogOf
    <2>10. CoveredInv'
      BY <1>2, <2>1 DEF IInv, CoveredInv, Covered
    <2>11. Accounted'
      BY <1>2, <2>1 DEF IInv, Accounted, Selectable, Listed
    <2> QED
      BY <2>2, <2>3, <2>4, <2>5, <2>6, <2>7, <2>8, <2>9, <2>10, <2>11 DEF IInv
  <1> QED
    BY <1>1, <1>2

\* So it holds throughout.
LEMMA Inductive == Spec => []IInv
PROOF
  BY InitHolds, NextHolds, PTL DEF Spec

\* No state has a value outside its type: a server is one of a life of some
\* session, a repetition one of those that were asked for.
THEOREM TypeCorrect == Spec => []TypeOK
PROOF
  <1>1. IInv => TypeOK
    BY DEF IInv, TypeInv
  <1> QED
    BY <1>1, Inductive, PTL

\* A measurement was answered by the server that was started for it, or by one
\* of an earlier session (start_server's poll of /health asks the port, not the
\* process).
THEOREM AnsweredByOwn == Spec => []OwnServer
PROOF
  <1>1. IInv => OwnServer
    BY DEF IInv
  <1> QED
    BY <1>1, Inductive, PTL

\* The log of every measurement of a session is the one of its own server
\* (open(log_path, "w") before Popen in start_server).
THEOREM LogsKept == Spec => []ServerLogs
PROOF
  <1>1. IInv => ServerLogs
    BY DEF IInv
  <1> QED
    BY <1>1, Inductive, PTL

\* A completed session leaves no server, an interrupted one none that it has not
\* told to end, but for Ctrl+C at the two points main does not guard (terminate_child
\* in start_server and in main).
THEOREM NoServerLeft == Spec => []ServersLeft
PROOF
  <1>1. IInv => ServersLeft
    BY DEF IInv
  <1> QED
    BY <1>1, Inductive, PTL

\* The file of a session has all its records, and a complete one accounts for
\* every repetition of every configuration that was asked for and is known to
\* main (its loops, and the selection before them).
THEOREM AllAccounted == Spec => []Accounted
PROOF
  <1>1. IInv => Accounted
    BY DEF IInv
  <1> QED
    BY <1>1, Inductive, PTL
=============================================================================
