---------------------------- MODULE Campaign_proofs ----------------------------
(***************************************************************************)
(* Proofs about the experiment drivers, for any lists of parameters,       *)
(* models, configurations and prompts, any number of repetitions, sessions,*)
(* interrupts and failures.                                                *)
(***************************************************************************)
EXTENDS Campaign, TLAPS, FiniteSetTheorems, SequenceTheorems

------------------------------------------------------------------------------
(* The inductive invariant. *)

Outcomes == [status : {"ok", "error", "parse_error"}, value : BOOLEAN] \cup {Raises, Exits}
Runs == Nat \X Nat
Rows ==
    [name : ArmNames, status : RowStatuses, value : BOOLEAN, run : Runs,
     metrics : Runs \cup {Torn}]

\* Scripts whose file has records, and those that keep a file per arm.
Tabulates(d) == d.keeps \in {"records", "merged"}
Files(d) == d.log # "none" /\ d # MeasureCachePoc

\* A row names one arm, or the arms of one model, which follow each other.
WellNamed(list) ==
    /\ \A i, j \in DOMAIN list : list[i].name = list[j].name => i = j
    /\ \A i, j \in DOMAIN list : list[i].name = <<list[j].model>> => i = j
    /\ \A i, j, k \in DOMAIN list :
        i <= k /\ k <= j /\ list[i].model = list[j].model /\ list[i].model # None =>
            list[k].model = list[i].model

\* No two arms share a file, and no model is looked for.
WellLogged(list) ==
    /\ \A i, j \in DOMAIN list : list[i].log = list[j].log => i = j
    /\ \A i \in DOMAIN list : list[i].model = None

\* What the proofs need of a script.
Sound(d) ==
    /\ d.plan \in Seq(ToSet(d.plan))
    /\ \A i \in DOMAIN d.plan :
        /\ d.plan[i].model \in ToSet(Models) \cup {None}
        /\ d.plan[i].model # None => d.absent \in {"missing", "skipped"}
    /\ d.outcome \in [Results -> Outcomes]
    /\ Tabulates(d) => WellNamed(d.plan)
    /\ Files(d) => WellLogged(d.plan)
    /\ d.keeps = "records" => ~d.only
    /\ d.reparse => d.keeps = "records" /\ d.log = "after" /\ Files(d) /\ d.sweep = 0
    /\ d.sweep \in Nat /\ d.log \in {"none", "child", "before", "after"}
    /\ d.only \in BOOLEAN /\ d.parity \in BOOLEAN /\ d.reparse \in BOOLEAN

\* TypeOK, and what it leaves open of sequences and functions.
TypeInv ==
    /\ driver \in Scripts
    /\ session \in 0 .. MaxSessions
    /\ pc \in {"idle", "loop", "running", "returned", "logged", "appended",
               "closing", "truncated", "rewriting"}
    /\ plan \in Seq(ToSet(driver.plan)) /\ absent \subseteq ToSet(Models)
    /\ next \in 1 .. Len(plan) + 1
    /\ results \in Seq(Results)
    /\ records \in Seq(Rows) /\ draft \in Seq(Rows)
    /\ status \in Statuses \cup {None}
    /\ out \in [status : Statuses \cup {None, Torn}, records : Seq(Rows)]
    /\ logs \in [DOMAIN logs -> Runs \cup {Torn}]
    /\ DOMAIN logs \subseteq {driver.plan[i].log : i \in DOMAIN driver.plan}
    /\ pressed \in 0 .. MaxInterrupts /\ faults \in 0 .. MaxFaults
    /\ exit \in Statuses \cup {None, "error", "traceback"}

\* What is true of the plan of a script is true of what --only selects.
PlanInv ==
    /\ Tabulates(driver) => WellNamed(plan)
    /\ Files(driver) => WellLogged(plan)
    /\ session > 0 /\ ~driver.only => plan = driver.plan

AtLaunched == {"running", "returned", "logged", "appended"}
AtWriter == {"closing", "truncated"}
AtRest == {"idle", "rewriting"}

\* Where the loop is when the script is elsewhere.
PlaceInv ==
    /\ pc # "idle" => session > 0
    /\ pc \in AtLaunched => next <= Len(plan)
    /\ pc \in {"returned", "logged", "appended"} => results # <<>>
    /\ pc \in AtWriter \cup {"rewriting"} => status \in Statuses
    /\ pc \in AtWriter /\ status = "complete" => next > Len(plan)
    /\ pc \in AtWriter /\ status = "failed" => driver.sweep > 0 /\ next = driver.sweep + 1
    /\ pc \in {"truncated", "rewriting"} => out.status = Torn
    /\ out.status = Torn => out.records = <<>>

\* Rows of the current session, in the order of its plan.
OwnRows(rows) ==
    /\ \A i \in DOMAIN rows : rows[i].run[1] = session /\ rows[i].run[2] \in 1 .. next
    /\ \A i, j \in DOMAIN rows : i < j => rows[i].run[2] < rows[j].run[2]
    /\ driver.reparse => \A i \in DOMAIN rows :
        /\ rows[i].run[2] \in DOMAIN plan
        /\ rows[i].name = plan[rows[i].run[2]].name

OneRowEach(rows) == \A i, j \in DOMAIN rows : rows[i].name = rows[j].name => i = j

\* The arms behind the loop, and no others, have a row.
RecordsInv ==
    Tabulates(driver) =>
        /\ OwnRows(records)
        /\ \A i \in DOMAIN records :
            /\ records[i].metrics = records[i].run
            /\ pc \in InLoop /\ pc # "appended" => records[i].run[2] < next
        /\ pc \in InLoop =>
            CoveredBy(records) = IF pc = "appended" THEN 1 .. next ELSE 1 .. next - 1
        /\ pc \in AtWriter =>
            /\ CoveredBy(records) \in {1 .. next - 1, 1 .. next}
            /\ status = "complete" => CoveredBy(records) = DOMAIN plan
            /\ status = "failed" => CoveredBy(records) = 1 .. driver.sweep

\* Each table has one row for a name; what is about to be written is what was
\* measured.
TablesInv ==
    Tabulates(driver) =>
        /\ OneRowEach(records) /\ OneRowEach(draft) /\ OneRowEach(out.records)
        /\ pc = "truncated" /\ driver.keeps = "records" => draft = records

\* What a session that ended by itself has left, also while it is reparsed.
Left(state, rows) ==
    /\ state = exit
    /\ OwnRows(rows)
    /\ CASE exit = "complete" -> CoveredBy(rows) = DOMAIN plan /\ next > Len(plan)
         [] exit = "failed" -> CoveredBy(rows) = 1 .. driver.sweep /\ ~driver.reparse
         [] OTHER -> CoveredBy(rows) \in {1 .. (next - 1), 1 .. next}

\* The metrics of a row are those of its run, but perhaps in the last row of an
\* interrupted session.
OwnMetrics(rows) ==
    \A i \in DOMAIN rows :
        \/ rows[i].metrics = rows[i].run
        \/ exit = "interrupted" /\ i = Len(rows) /\ rows[i].run[2] = next

LeftInv ==
    exit \in Statuses /\ driver.keeps = "records" =>
        /\ pc = "idle" => Left(out.status, out.records)
        /\ pc = "rewriting" => Left(status, draft)
        /\ driver.reparse /\ pc = "idle" => OwnMetrics(out.records)
        /\ driver.reparse /\ pc = "rewriting" => OwnMetrics(draft)

\* The file of arm i is that of its run in this session.
Filed(i) == plan[i].log \in DOMAIN logs /\ logs[plan[i].log] = <<session, i>>

FilesInv ==
    Files(driver) =>
        /\ pc \in {"loop", "running"} => Len(results) = next - 1
        /\ pc \in {"returned", "logged", "appended"} => Len(results) = next
        /\ Len(results) <= next
        /\ \A i \in DOMAIN results : i < next /\ results[i].zero => Filed(i)
        /\ pc = "returned" /\ driver.log = "child" /\ results[next].zero => Filed(next)
        /\ pc = "logged" => Filed(next)
        /\ driver.reparse => \A i \in 1 .. next - 1 : Filed(i)

IInv ==
    /\ TypeInv /\ PlanInv /\ PlaceInv
    /\ RecordsInv /\ TablesInv /\ LeftInv
    /\ FilesInv

------------------------------------------------------------------------------
(* The lists of the scripts. *)

\* A quotient and a remainder are determined by their equation.
LEMMA QuotientUnique ==
    ASSUME NEW n \in Nat, NEW q \in Int, NEW p \in Int,
           NEW r \in 0 .. n - 1, NEW s \in 0 .. n - 1, n * q + r = n * p + s
    PROVE  q = p /\ r = s
PROOF
  <1> DEFINE d == q - p
  <1>1. d \in Int /\ n * d = s - r /\ n \in Nat /\ n > 0
    BY Z3
  <1> HIDE DEF d
  <1>2. ASSUME NEW e \in Int, e >= 1
        PROVE  n * e >= n /\ n * (0 - e) <= 0 - n
    BY <1>1, <1>2, Z3
  <1>3. ~(d >= 1)
    BY <1>1, <1>2, Z3
  <1>4. ASSUME d <= 0 - 1 PROVE FALSE
    <2>1. 0 - d \in Int /\ 0 - d >= 1 /\ 0 - (0 - d) = d
      BY <1>1, <1>4
    <2>2. n * d <= 0 - n
      BY <1>2, <2>1, Z3
    <2> QED
      BY <1>1, <2>2
  <1>5. d = 0
    BY <1>1, <1>3, <1>4
  <1>6. q = p
    BY <1>5 DEF d
  <1> QED
    BY <1>6

\* A place of a nested loop has a place in the outer and one in the inner list.
LEMMA QuotientExists ==
    ASSUME NEW n \in Nat, NEW m \in Nat, NEW k \in 1 .. m * n
    PROVE  /\ n > 0
           /\ (k - 1) \div n \in 0 .. m - 1
           /\ (k - 1) % n \in 0 .. n - 1
           /\ k - 1 = n * ((k - 1) \div n) + ((k - 1) % n)
PROOF
  <1>1. n > 0
    <2>1. CASE n = 0
      <3>1. m * n = 0
        BY <2>1, Z3
      <3> QED
        BY <3>1
    <2> QED
      BY <2>1
  <1> DEFINE j == k - 1
             q == j \div n
             r == j % n
  <1>2. j \in Nat /\ j < m * n
    OBVIOUS
  <1>3. q \in Int /\ q >= 0 /\ r \in 0 .. n - 1 /\ j = n * q + r
    <2> HIDE DEF j
    <2> QED
      BY <1>1, <1>2, SMTT(60)
  <1> HIDE DEF j, q, r
  <1>4. ~(q >= m)
    <2>1. ASSUME q >= m PROVE FALSE
      <3> DEFINE d == q - m
      <3>1. d \in Nat /\ q = m + d
        BY <1>3, <2>1
      <3> HIDE DEF d
      <3>2. n * d >= 0
        BY <3>1, Z3
      <3>3. n * q = n * m + n * d
        BY <3>1, Z3
      <3>4. n * m = m * n /\ n * m \in Int /\ n * d \in Int
        BY <3>1, Z3
      <3>5. n * q >= m * n
        BY <3>2, <3>3, <3>4
      <3> QED
        BY <1>2, <1>3, <3>4, <3>5, Z3
    <2> QED
      BY <2>1
  <1> QED
    BY <1>1, <1>3, <1>4 DEF j, q, r

\* The quotient grows with the number.
LEMMA QuotientGrows ==
    ASSUME NEW n \in Nat, NEW q \in Int, NEW p \in Int,
           NEW r \in 0 .. n - 1, NEW s \in 0 .. n - 1, n * q + r <= n * p + s
    PROVE  q <= p
PROOF
  <1>1. ASSUME p < q PROVE FALSE
    <2> DEFINE d == q - p - 1
    <2>1. d \in Nat /\ q = p + 1 + d
      BY <1>1
    <2> HIDE DEF d
    <2>2. n * d >= 0 /\ n * d \in Int /\ n * p \in Int
      BY <2>1, Z3
    <2>3. n * q = n * p + n + n * d
      BY <2>1, Z3
    <2> QED
      BY <2>2, <2>3
  <1> QED
    BY <1>1

\* A function on 1 .. n is a list of its values.
LEMMA ListOf ==
    ASSUME NEW f, NEW n \in Nat, DOMAIN f = 1 .. n, f = [i \in 1 .. n |-> f[i]]
    PROVE  f \in Seq(ToSet(f)) /\ Len(f) = n
PROOF
  <1>1. f \in [1 .. n -> ToSet(f)]
    BY DEF ToSet
  <1> QED
    BY <1>1

\* Lists of a script, and UpTo, have no duplicates.
Listing(list) ==
    list \in Seq(ToSet(list)) /\ IsInjective(list)

\* Places, elements and injectivity of such a list.
LEMMA ListingOf ==
    ASSUME NEW list, Listing(list)
    PROVE  /\ Len(list) \in Nat /\ DOMAIN list = 1 .. Len(list)
           /\ \A i \in 1 .. Len(list) : list[i] \in ToSet(list)
           /\ \A i, j \in 1 .. Len(list) : list[i] = list[j] => i = j
PROOF
  BY LenProperties DEF Listing, ToSet, IsInjective

\* The numbers of the rounds are such a list.
LEMMA UpToListing ==
    ASSUME NEW n \in Nat
    PROVE  Listing(UpTo(n)) /\ Len(UpTo(n)) = n
PROOF
  <1>1. UpTo(n) \in Seq(ToSet(UpTo(n))) /\ Len(UpTo(n)) = n
    BY ListOf DEF UpTo
  <1> QED
    BY <1>1 DEF Listing, UpTo, IsInjective

\* A nested loop runs over all pairs, once each; those of one element of the
\* outer list follow each other.
LEMMA NestedListing ==
    ASSUME NEW outer, NEW inner, Listing(outer), Listing(inner)
    PROVE  LET list == Nested(outer, inner)
           IN  /\ Listing(list)
               /\ DOMAIN list = 1 .. Len(outer) * Len(inner)
               /\ Len(outer) * Len(inner) \in Nat
               /\ \A i \in DOMAIN list :
                    \E a \in ToSet(outer), b \in ToSet(inner) : list[i] = <<a, b>>
               /\ \A i, j, k \in DOMAIN list :
                    i <= k /\ k <= j /\ list[i][1] = list[j][1] => list[k][1] = list[i][1]
PROOF
  <1> DEFINE m == Len(outer)
             n == Len(inner)
             q(i) == (i - 1) \div n
             r(i) == (i - 1) % n
             list == Nested(outer, inner)
  <1>1. m \in Nat /\ n \in Nat
    BY ListingOf
  <1>2. m * n \in Nat
    BY <1>1, SMT
  <1>3. DOMAIN list = 1 .. m * n /\ list = [i \in 1 .. m * n |-> list[i]]
        /\ \A i \in 1 .. m * n : list[i] = <<outer[q(i) + 1], inner[r(i) + 1]>>
    BY DEF Nested
  <1>4. ASSUME NEW i \in 1 .. m * n
        PROVE  /\ n > 0 /\ q(i) \in 0 .. m - 1 /\ r(i) \in 0 .. n - 1
               /\ i - 1 = n * q(i) + r(i)
    BY <1>1, QuotientExists
  <1> HIDE DEF m, n, q, r, list
  <1>5. ASSUME NEW i \in 1 .. m * n
        PROVE  /\ q(i) + 1 \in 1 .. m /\ r(i) + 1 \in 1 .. n
               /\ outer[q(i) + 1] \in ToSet(outer) /\ inner[r(i) + 1] \in ToSet(inner)
    <2>1. q(i) + 1 \in 1 .. m /\ r(i) + 1 \in 1 .. n
      BY <1>1, <1>4
    <2> QED
      BY <2>1, ListingOf DEF m, n
  <1>6. ASSUME NEW i \in 1 .. m * n, NEW j \in 1 .. m * n, list[i][1] = list[j][1]
        PROVE  q(i) = q(j)
    <2>1. outer[q(i) + 1] = outer[q(j) + 1]
      BY <1>3, <1>6
    <2>2. q(i) + 1 = q(j) + 1
      BY <1>5, <2>1, ListingOf DEF m
    <2> QED
      BY <1>4, <2>2
  <1>7. ASSUME NEW i \in 1 .. m * n, NEW j \in 1 .. m * n, list[i] = list[j]
        PROVE  i = j
    <2>1. q(i) = q(j)
      BY <1>6, <1>7
    <2>2. inner[r(i) + 1] = inner[r(j) + 1]
      BY <1>3, <1>7
    <2>3. r(i) + 1 = r(j) + 1
      BY <1>5, <2>2, ListingOf DEF n
    <2>4. i - 1 = j - 1
      BY <1>4, <2>1, <2>3
    <2> QED
      BY <2>4
  <1>8. ASSUME NEW i \in 1 .. m * n, NEW j \in 1 .. m * n, NEW k \in 1 .. m * n,
               i <= k, k <= j, list[i][1] = list[j][1]
        PROVE  list[k][1] = list[i][1]
    <2>1. q(i) = q(j)
      BY <1>6, <1>8
    <2>2. q(i) <= q(k)
      <3>1. n * q(i) + r(i) <= n * q(k) + r(k)
        BY <1>4, <1>8
      <3>2. q(i) \in Int /\ q(k) \in Int
        BY <1>1, <1>4
      <3> QED
        BY <1>1, <1>4, <3>1, <3>2, QuotientGrows
    <2>3. q(k) <= q(j)
      <3>1. n * q(k) + r(k) <= n * q(j) + r(j)
        BY <1>4, <1>8
      <3>2. q(j) \in Int /\ q(k) \in Int
        BY <1>1, <1>4
      <3> QED
        BY <1>1, <1>4, <3>1, <3>2, QuotientGrows
    <2>4. q(k) = q(i)
      <3>1. q(i) \in Int /\ q(k) \in Int
        BY <1>1, <1>4
      <3> HIDE DEF q
      <3> QED
        BY <2>1, <2>2, <2>3, <3>1
    <2> QED
      BY <1>3, <2>4
  <1>9. list \in Seq(ToSet(list))
    BY <1>2, <1>3, ListOf
  <1>10. IsInjective(list)
    BY <1>3, <1>7 DEF IsInjective
  <1>11. \A i \in DOMAIN list :
            \E a \in ToSet(outer), b \in ToSet(inner) : list[i] = <<a, b>>
    BY <1>3, <1>5
  <1> QED
    BY <1>2, <1>3, <1>8, <1>9, <1>10, <1>11 DEF Listing, list, m, n

\* Backwards or forwards, a round has the same arms.
LEMMA RoundListing ==
    ASSUME NEW names, NEW r \in Nat, Listing(names)
    PROVE  /\ \A i \in 1 .. Len(names) : RoundOrder(names, r)[i] \in ToSet(names)
           /\ \A i, j \in 1 .. Len(names) :
                RoundOrder(names, r)[i] = RoundOrder(names, r)[j] => i = j
PROOF
  <1> DEFINE n == Len(names)
  <1>1. /\ n \in Nat /\ \A i \in 1 .. n : names[i] \in ToSet(names)
        /\ \A i, j \in 1 .. n : names[i] = names[j] => i = j
    BY ListingOf
  <1> HIDE DEF n
  <1>2. \A i \in 1 .. n : n - i + 1 \in 1 .. n
    BY <1>1
  <1>3. \A i \in 1 .. n : RoundOrder(names, r)[i] = IF r % 2 = 1 THEN names[i] ELSE names[n - i + 1]
    BY <1>1 DEF RoundOrder, Reverse, n
  <1> DEFINE round == RoundOrder(names, r)
  <1>4. CASE r % 2 = 1
    <2>1. \A i \in 1 .. n : round[i] = names[i]
      BY <1>3, <1>4
    <2> HIDE DEF round
    <2> QED
      BY <1>1, <2>1 DEF n, round
  <1>5. CASE r % 2 # 1
    <2>1. \A i \in 1 .. n : round[i] = names[n - i + 1]
      BY <1>3, <1>5
    <2> HIDE DEF round
    <2>2. ASSUME NEW i \in 1 .. n, NEW j \in 1 .. n, round[i] = round[j]
          PROVE  i = j
      <3>1. n - i + 1 = n - j + 1
        BY <1>1, <1>2, <2>1, <2>2
      <3> QED
        BY <1>1, <3>1
    <2> QED
      BY <1>1, <1>2, <2>1, <2>2 DEF n, round
  <1> QED
    BY <1>4, <1>5

\* The rounds have every arm once.
LEMMA AlternatingListing ==
    ASSUME NEW names, NEW rounds \in Nat, Listing(names)
    PROVE  LET list == Alternating(names, rounds)
           IN  /\ Listing(list)
               /\ DOMAIN list = 1 .. rounds * Len(names) /\ rounds * Len(names) \in Nat
               /\ \A i \in DOMAIN list :
                    \E r \in 1 .. rounds, a \in ToSet(names) : list[i] = <<r, a>>
PROOF
  <1> DEFINE n == Len(names)
             places == Nested(UpTo(rounds), UpTo(n))
             list == Alternating(names, rounds)
  <1>1. n \in Nat /\ Listing(UpTo(rounds)) /\ Listing(UpTo(n))
        /\ Len(UpTo(rounds)) = rounds /\ Len(UpTo(n)) = n
        /\ ToSet(UpTo(rounds)) = 1 .. rounds /\ ToSet(UpTo(n)) = 1 .. n
    <2>1. n \in Nat
      BY ListingOf
    <2> QED
      BY <2>1, UpToListing DEF UpTo, ToSet
  <1>2. /\ Listing(places) /\ DOMAIN places = 1 .. rounds * n /\ rounds * n \in Nat
        /\ \A i \in DOMAIN places : \E a \in 1 .. rounds, b \in 1 .. n : places[i] = <<a, b>>
    BY <1>1, NestedListing
  <1>3. /\ DOMAIN list = 1 .. rounds * n /\ list = [i \in 1 .. rounds * n |-> list[i]]
        /\ \A i \in 1 .. rounds * n :
            list[i] = <<places[i][1], RoundOrder(names, places[i][1])[places[i][2]]>>
    BY <1>2 DEF Alternating, ForEach
  <1> HIDE DEF n, places, list
  <1>4. ASSUME NEW i \in 1 .. rounds * n
        PROVE  /\ places[i][1] \in 1 .. rounds /\ places[i][2] \in 1 .. n
               /\ places[i] = <<places[i][1], places[i][2]>>
    BY <1>2
  <1>5. ASSUME NEW i \in 1 .. rounds * n, NEW j \in 1 .. rounds * n, list[i] = list[j]
        PROVE  i = j
    <2>1. places[i][1] = places[j][1]
      BY <1>3, <1>5
    <2>2. RoundOrder(names, places[i][1])[places[i][2]]
            = RoundOrder(names, places[i][1])[places[j][2]]
      BY <1>3, <1>5, <2>1
    <2>3. places[i][2] = places[j][2]
      <3>1. places[i][1] \in Nat
        BY <1>4
      <3> QED
        BY <1>4, <2>2, <3>1, RoundListing DEF n
    <2>4. places[i] = places[j]
      BY <1>4, <2>1, <2>3
    <2> QED
      BY <1>2, <2>4, ListingOf DEF Listing, IsInjective
  <1>6. \A i \in 1 .. rounds * n :
            \E r \in 1 .. rounds, a \in ToSet(names) : list[i] = <<r, a>>
    <2> TAKE i \in 1 .. rounds * n
    <2>1. places[i][1] \in Nat /\ places[i][1] \in 1 .. rounds
      BY <1>4
    <2>2. RoundOrder(names, places[i][1])[places[i][2]] \in ToSet(names)
      BY <1>4, <2>1, RoundListing DEF n
    <2> QED
      BY <1>3, <2>1, <2>2
  <1>7. list \in Seq(ToSet(list))
    BY <1>2, <1>3, ListOf
  <1>8. IsInjective(list)
    BY <1>3, <1>5 DEF IsInjective
  <1> QED
    BY <1>2, <1>3, <1>6, <1>7, <1>8 DEF Listing, list, n

------------------------------------------------------------------------------
(* The scripts. *)

\* The lists that the scripts loop over.
LEMMA ScriptLists ==
    /\ Listing(Points) /\ Listing(Models) /\ Listing(Configs) /\ Listing(Prompts)
    /\ None \notin ToSet(Points) /\ None \notin ToSet(Models) /\ None \notin ToSet(Prompts)
    /\ Len(Points) \in Nat /\ Reps \in Nat /\ Listing(UpTo(Reps))
PROOF
  <1>1. Listing(Points) /\ Listing(Models) /\ Listing(Configs) /\ Listing(Prompts)
    BY DriverAssumption DEF Listing
  <1> QED
    BY <1>1, DriverAssumption, ListingOf, UpToListing

\* What a script makes of a result is one of a few outcomes.
LEMMA OutcomeTypes ==
    ASSUME NEW r \in Results
    PROVE  /\ GridOutcome(r) \in Outcomes /\ ThreadSweepOutcome(r) \in Outcomes
           /\ RunBench(r) \in Outcomes /\ RunArm(r) \in Outcomes
           /\ PerplexityOutcome(r) \in Outcomes /\ MeasureOutcome(r) \in Outcomes
           /\ FateOutcome(r) \in Outcomes
           /\ Recorded(IF r.zero THEN "ok" ELSE "error", r.zero) \in Outcomes
           /\ (IF r.zero THEN Recorded("ok", TRUE) ELSE Exits) \in Outcomes
PROOF
  <1>1. r.zero \in BOOLEAN
    BY DEF Results
  <1>2. ASSUME NEW s \in {"ok", "error", "parse_error"}, NEW v \in BOOLEAN
        PROVE  Recorded(s, v) \in Outcomes
    BY DEF Recorded, Outcomes
  <1>3. Raises \in Outcomes /\ Exits \in Outcomes /\ Error \in Outcomes
    BY <1>2 DEF Outcomes, Error
  <1>4. GridOutcome(r) \in Outcomes /\ ThreadSweepOutcome(r) \in Outcomes
    <2>1. CASE ~r.zero
      BY <1>3, <2>1 DEF GridOutcome, ThreadSweepOutcome
    <2>2. CASE r.zero /\ r.output = "garbled"
      BY <1>2, <2>2 DEF GridOutcome, ThreadSweepOutcome
    <2>3. CASE r.zero /\ r.output = "full"
      BY <1>2, <2>3 DEF GridOutcome, ThreadSweepOutcome
    <2>4. CASE r.zero /\ r.output \notin {"garbled", "full"}
      BY <1>2, <1>3, <2>4 DEF GridOutcome, ThreadSweepOutcome
    <2> QED
      BY <2>1, <2>2, <2>3, <2>4
  <1>5. RunBench(r) \in Outcomes /\ RunArm(r) \in Outcomes
    BY <1>2, <1>3 DEF RunBench, RunArm
  <1>6. PerplexityOutcome(r) \in Outcomes /\ MeasureOutcome(r) \in Outcomes
        /\ FateOutcome(r) \in Outcomes
    BY <1>2, <1>3 DEF PerplexityOutcome, MeasureOutcome, FateOutcome
  <1>7. /\ Recorded(IF r.zero THEN "ok" ELSE "error", r.zero) \in Outcomes
        /\ (IF r.zero THEN Recorded("ok", TRUE) ELSE Exits) \in Outcomes
    BY <1>1, <1>2, <1>3
  <1> QED
    BY <1>4, <1>5, <1>6, <1>7

\* A script that keeps records and looks for no model is sound when its names
\* are, and, if it keeps files, its logs.
PlainArms(d, n) ==
    /\ DOMAIN d.plan = 1 .. n /\ d.plan = [i \in 1 .. n |-> d.plan[i]]
    /\ \A i \in 1 .. n : d.plan[i].model = None
    /\ \A i \in 1 .. n : d.plan[i].name # <<None>>
    /\ \A i, j \in 1 .. n : d.plan[i].name = d.plan[j].name => i = j
    /\ Files(d) => \A i, j \in 1 .. n : d.plan[i].log = d.plan[j].log => i = j

PlainSettings(d) ==
    /\ d.outcome \in [Results -> Outcomes]
    /\ d.keeps = "records" /\ d.only = FALSE /\ d.parity = FALSE /\ d.sweep \in Nat
    /\ d.log \in {"none", "child", "before", "after"} /\ d.reparse \in BOOLEAN
    /\ d.reparse => d.log = "after" /\ Files(d) /\ d.sweep = 0

\* Arms and settings of that kind make a sound script.
LEMMA PlainSound ==
    ASSUME NEW d, NEW n \in Nat, PlainArms(d, n), PlainSettings(d)
    PROVE  Sound(d)
PROOF
  <1> USE DEF PlainArms, PlainSettings
  <1>1. d.plan \in Seq(ToSet(d.plan))
    BY ListOf
  <1>2. WellNamed(d.plan)
    <2>1. \A i, j \in 1 .. n : d.plan[i].name # <<d.plan[j].model>>
      OBVIOUS
    <2> QED
      BY <2>1 DEF WellNamed
  <1>3. Files(d) => WellLogged(d.plan)
    BY DEF WellLogged
  <1> QED
    BY <1>1, <1>2, <1>3 DEF Sound

\* Names of one and of several parts differ.
LEMMA NamesDiffer == \A a, b, m : <<a, b>> # <<m>>
PROOF
  <1>1. \A a, b, m : Len(<<a, b>>) = 2 /\ Len(<<m>>) = 1
    OBVIOUS
  <1> QED
    BY <1>1

\* One arm for each point; the other two grids are the same.
LEMMA MoePlacementGridSound == Sound(MoePlacementGrid)
PROOF
  <1> DEFINE d == MoePlacementGrid
             n == Len(Points)
  <1>1. /\ d.plan = [i \in DOMAIN Points |-> Arm(<<Points[i]>>)]
        /\ d.outcome = [r \in Results |-> GridOutcome(r)]
        /\ d.keeps = "records" /\ d.log = "none" /\ d.only = FALSE /\ d.parity = FALSE
        /\ d.reparse = FALSE /\ d.sweep = 0
    BY DEF MoePlacementGrid, Script, ForEach
  <1> HIDE DEF d
  <1>2. /\ n \in Nat /\ DOMAIN d.plan = 1 .. n /\ d.plan = [i \in 1 .. n |-> d.plan[i]]
        /\ \A i \in 1 .. n :
            d.plan[i].model = None /\ d.plan[i].name = <<Points[i]>> /\ Points[i] \in ToSet(Points)
    BY <1>1, ScriptLists, ListingOf DEF Arm
  <1>3. \A i \in 1 .. n : d.plan[i].name # <<None>>
    BY <1>2, ScriptLists
  <1>4. \A i, j \in 1 .. n : d.plan[i].name = d.plan[j].name => i = j
    BY <1>2, ScriptLists, ListingOf
  <1>5. d.outcome \in [Results -> Outcomes]
    BY <1>1, OutcomeTypes
  <1>6. ~Files(d)
    BY <1>1 DEF Files
  <1>7. PlainSettings(d) /\ PlainArms(d, n)
    <2>1. PlainSettings(d)
      <3>1. d.sweep \in Nat
        BY <1>1
      <3> QED
        BY <1>1, <1>5, <3>1 DEF PlainSettings
    <2>2. PlainArms(d, n)
      BY <1>2, <1>3, <1>4, <1>6 DEF PlainArms
    <2> QED
      BY <2>1, <2>2
  <1>8. Sound(d)
    BY <1>2, <1>7, PlainSound
  <1> QED
    BY <1>8 DEF d

\* All pairs of thread counts.
LEMMA ThreadSweepSound == Sound(ThreadSweep)
PROOF
  <1> DEFINE d == ThreadSweep
             list == Nested(Points, Points)
             n == Len(Points) * Len(Points)
  <1>1. /\ d.plan = [i \in DOMAIN list |-> Arm(list[i])]
        /\ d.outcome = [r \in Results |-> ThreadSweepOutcome(r)]
        /\ d.keeps = "records" /\ d.log = "none" /\ d.only = FALSE /\ d.parity = FALSE
        /\ d.reparse = FALSE /\ d.sweep = 0
    BY DEF ThreadSweep, Script, ForEach
  <1>2. /\ n \in Nat /\ DOMAIN list = 1 .. n /\ Listing(list)
        /\ \A i \in 1 .. n : \E a, b : list[i] = <<a, b>>
    BY ScriptLists, NestedListing
  <1> HIDE DEF d, list, n
  <1>3. /\ DOMAIN d.plan = 1 .. n /\ d.plan = [i \in 1 .. n |-> d.plan[i]]
        /\ \A i \in 1 .. n : d.plan[i].model = None /\ d.plan[i].name = list[i]
    BY <1>1, <1>2 DEF Arm
  <1>4. \A i \in 1 .. n : d.plan[i].name # <<None>>
    <2> TAKE i \in 1 .. n
    <2>1. PICK a, b : list[i] = <<a, b>>
      BY <1>2
    <2> QED
      BY <1>3, <2>1, NamesDiffer
  <1>5. \A i, j \in 1 .. n : d.plan[i].name = d.plan[j].name => i = j
    BY <1>2, <1>3 DEF Listing, IsInjective
  <1>6. d.outcome \in [Results -> Outcomes]
    BY <1>1, OutcomeTypes
  <1>7. ~Files(d)
    BY <1>1 DEF Files
  <1>8. PlainSettings(d) /\ PlainArms(d, n)
    <2>1. PlainSettings(d)
      <3>1. d.sweep \in Nat
        BY <1>1
      <3> QED
        BY <1>1, <1>6, <3>1 DEF PlainSettings
    <2>2. PlainArms(d, n)
      BY <1>3, <1>4, <1>5, <1>7 DEF PlainArms
    <2> QED
      BY <2>1, <2>2
  <1>9. Sound(d)
    BY <1>2, <1>8, PlainSound
  <1> QED
    BY <1>9 DEF d

\* Rounds of arms, backwards every other time.
LEMMA IkHybridAbSound == Sound(IkHybridAb)
PROOF
  <1> DEFINE d == IkHybridAb
             list == Alternating(Points, Reps)
             n == Reps * Len(Points)
  <1>1. /\ d.plan = [i \in DOMAIN list |-> Arm(list[i])]
        /\ d.outcome = [r \in Results |-> RunArm(r)]
        /\ d.keeps = "records" /\ d.log = "none" /\ d.only = FALSE /\ d.parity = FALSE
        /\ d.reparse = FALSE /\ d.sweep = 0
    BY DEF IkHybridAb, Script, ForEach
  <1>2. /\ n \in Nat /\ DOMAIN list = 1 .. n /\ Listing(list)
        /\ \A i \in 1 .. n : \E a, b : list[i] = <<a, b>>
    BY ScriptLists, AlternatingListing
  <1> HIDE DEF d, list, n
  <1>3. /\ DOMAIN d.plan = 1 .. n /\ d.plan = [i \in 1 .. n |-> d.plan[i]]
        /\ \A i \in 1 .. n : d.plan[i].model = None /\ d.plan[i].name = list[i]
    BY <1>1, <1>2 DEF Arm
  <1>4. \A i \in 1 .. n : d.plan[i].name # <<None>>
    <2> TAKE i \in 1 .. n
    <2>1. PICK a, b : list[i] = <<a, b>>
      BY <1>2
    <2> QED
      BY <1>3, <2>1, NamesDiffer
  <1>5. \A i, j \in 1 .. n : d.plan[i].name = d.plan[j].name => i = j
    BY <1>2, <1>3 DEF Listing, IsInjective
  <1>6. d.outcome \in [Results -> Outcomes]
    BY <1>1, OutcomeTypes
  <1>7. ~Files(d)
    BY <1>1 DEF Files
  <1>8. PlainSettings(d) /\ PlainArms(d, n)
    <2>1. PlainSettings(d)
      <3>1. d.sweep \in Nat
        BY <1>1
      <3> QED
        BY <1>1, <1>6, <3>1 DEF PlainSettings
    <2>2. PlainArms(d, n)
      BY <1>3, <1>4, <1>5, <1>7 DEF PlainArms
    <2> QED
      BY <2>1, <2>2
  <1>9. Sound(d)
    BY <1>2, <1>8, PlainSound
  <1> QED
    BY <1>9 DEF d

\* Two phases: a sweep, then the rounds of the comparison.
LEMMA MixedPrecisionSpeedSound == Sound(MixedPrecisionSpeed)
PROOF
  <1> DEFINE d == MixedPrecisionSpeed
             sweep == [i \in DOMAIN Points |-> Arm(<<"sweep", Points[i]>>)]
             list == Alternating(<<"hybrid", "original">>, Reps)
             ab == [i \in DOMAIN list |-> Arm(<<"ab", list[i]>>)]
             m == Len(Points)
             k == Reps * Len(<<"hybrid", "original">>)
             n == m + k
             S == ToSet(sweep) \cup ToSet(ab)
  <1>1. /\ d.plan = sweep \o ab
        /\ d.outcome = [r \in Results |-> RunBench(r)]
        /\ d.keeps = "records" /\ d.log = "none" /\ d.only = FALSE /\ d.parity = FALSE
        /\ d.reparse = FALSE /\ d.sweep = m
    BY DEF MixedPrecisionSpeed, Script, ForEach
  <1>2. Listing(<<"hybrid", "original">>)
    <2>1. <<"hybrid", "original">> \in Seq(ToSet(<<"hybrid", "original">>))
      BY DEF ToSet
    <2> QED
      BY <2>1 DEF Listing, IsInjective
  <1>3. k \in Nat /\ DOMAIN list = 1 .. k /\ Listing(list)
    BY <1>2, ScriptLists, AlternatingListing
  <1>4. m \in Nat /\ DOMAIN Points = 1 .. m
    BY ScriptLists, ListingOf
  <1> HIDE DEF d, list, m, k
  <1>5. /\ \A i \in 1 .. m : sweep[i].model = None /\ sweep[i].name = <<"sweep", Points[i]>>
        /\ \A i \in 1 .. k : ab[i].model = None /\ ab[i].name = <<"ab", list[i]>>
    BY <1>3, <1>4 DEF Arm
  <1>6. DOMAIN sweep = 1 .. m /\ DOMAIN ab = 1 .. k
    BY <1>3, <1>4
  <1>7. sweep \in Seq(S) /\ Len(sweep) = m /\ ab \in Seq(S) /\ Len(ab) = k
    <2>1. sweep \in Seq(ToSet(sweep)) /\ Len(sweep) = m /\ ab \in Seq(ToSet(ab)) /\ Len(ab) = k
      BY <1>3, <1>4, <1>6, ListOf
    <2> HIDE DEF sweep, ab
    <2> QED
      BY <2>1, SeqMonotonic
  <1> HIDE DEF sweep, ab, S
  <1>8. /\ d.plan \in Seq(S) /\ Len(d.plan) = n
        /\ \A i \in 1 .. n : d.plan[i] = IF i <= m THEN sweep[i] ELSE ab[i - m]
    <2>1. /\ d.plan \in Seq(S) /\ Len(d.plan) = Len(sweep) + Len(ab)
          /\ \A i \in 1 .. Len(sweep) + Len(ab) :
                d.plan[i] = IF i <= Len(sweep) THEN sweep[i] ELSE ab[i - Len(sweep)]
      <3> DEFINE both == sweep \o ab
      <3>1. /\ both \in Seq(S) /\ Len(both) = Len(sweep) + Len(ab)
            /\ \A i \in 1 .. Len(sweep) + Len(ab) :
                  both[i] = IF i <= Len(sweep) THEN sweep[i] ELSE ab[i - Len(sweep)]
        BY <1>7, ConcatProperties
      <3>2. d.plan = both
        BY <1>1
      <3> HIDE DEF both
      <3> QED
        BY <3>1, <3>2
    <2> QED
      BY <1>7, <2>1
  <1>9. DOMAIN d.plan = 1 .. n /\ d.plan = [i \in 1 .. n |-> d.plan[i]] /\ n \in Nat
    BY <1>3, <1>4, <1>8
  <1>10. ASSUME NEW i \in 1 .. n
         PROVE  /\ d.plan[i].model = None
                /\ i \in 1 .. m => d.plan[i].name = <<"sweep", Points[i]>>
                /\ i \notin 1 .. m => i - m \in 1 .. k /\ d.plan[i].name = <<"ab", list[i - m]>>
    <2>1. CASE i \in 1 .. m
      BY <1>4, <1>5, <1>8, <2>1
    <2>2. CASE i \notin 1 .. m
      <3>1. i - m \in 1 .. k /\ ~(i <= m)
        BY <1>3, <1>4, <2>2
      <3> QED
        BY <1>5, <1>8, <2>2, <3>1
    <2> QED
      BY <2>1, <2>2
  <1> HIDE DEF n
  <1>11. \A i \in 1 .. n : d.plan[i].name # <<None>>
    BY <1>10, NamesDiffer
  <1>12. ASSUME NEW i \in 1 .. n, NEW j \in 1 .. n, d.plan[i].name = d.plan[j].name
         PROVE  i = j
    <2>1. CASE i \in 1 .. m /\ j \in 1 .. m
      <3>1. Points[i] = Points[j]
        BY <1>10, <1>12, <2>1
      <3> QED
        BY <2>1, <3>1, ScriptLists, ListingOf DEF m
    <2>2. CASE i \notin 1 .. m /\ j \notin 1 .. m
      <3>1. i - m \in 1 .. k /\ j - m \in 1 .. k /\ list[i - m] = list[j - m]
        BY <1>10, <1>12, <2>2
      <3>2. i - m = j - m
        BY <1>3, <3>1 DEF Listing, IsInjective
      <3> QED
        BY <1>4, <1>9, <3>2
    <2>3. CASE ~(i \in 1 .. m <=> j \in 1 .. m)
      <3>1. \A a, b : <<"sweep", a>> # <<"ab", b>>
        OBVIOUS
      <3> QED
        BY <1>10, <1>12, <2>3, <3>1
    <2> QED
      BY <2>1, <2>2, <2>3
  <1>13. PlainSettings(d)
    <2>1. d.outcome \in [Results -> Outcomes]
      BY <1>1, OutcomeTypes
    <2> QED
      BY <1>1, <1>4, <2>1 DEF PlainSettings
  <1>14. PlainArms(d, n)
    <2>1. ~Files(d)
      BY <1>1 DEF Files
    <2> QED
      BY <1>9, <1>10, <1>11, <1>12, <2>1 DEF PlainArms
  <1>15. Sound(d)
    BY <1>9, <1>13, <1>14, PlainSound
  <1> QED
    BY <1>15 DEF d

\* The prompts and repetitions of every configuration, as both scripts of the
\* cache run them.
LEMMA CacheArms ==
    LET list == Nested(Configs, Nested(Prompts, UpTo(Reps)))
        n == Len(Configs) * Len(Nested(Prompts, UpTo(Reps)))
    IN  /\ Listing(list) /\ n \in Nat /\ DOMAIN list = 1 .. n
        /\ \A i \in 1 .. n : \E c, p, r : list[i] = <<c, <<p, r>>>>
PROOF
  <1> DEFINE inner == Nested(Prompts, UpTo(Reps))
             list == Nested(Configs, inner)
             n == Len(Configs) * Len(inner)
  <1>1. Listing(inner) /\ \A i \in DOMAIN inner : \E p, r : inner[i] = <<p, r>>
    BY ScriptLists, NestedListing
  <1> HIDE DEF inner
  <1>2. /\ Listing(list) /\ n \in Nat /\ DOMAIN list = 1 .. n
        /\ \A i \in 1 .. n : \E c \in ToSet(Configs), b \in ToSet(inner) : list[i] = <<c, b>>
    BY <1>1, ScriptLists, NestedListing
  <1> HIDE DEF list, n
  <1>3. ASSUME NEW i \in 1 .. n
        PROVE  \E c, p, r : list[i] = <<c, <<p, r>>>>
    <2>1. PICK c \in ToSet(Configs), b \in ToSet(inner) : list[i] = <<c, b>>
      BY <1>2
    <2>2. PICK p, r : b = <<p, r>>
      BY <1>1 DEF ToSet
    <2> QED
      BY <2>1, <2>2
  <1> QED
    BY <1>2, <1>3 DEF list, n, inner

\* Records have names of their own, though the files do not.
LEMMA MeasureCachePocSound == Sound(MeasureCachePoc)
PROOF
  <1> DEFINE d == MeasureCachePoc
             list == Nested(Configs, Nested(Prompts, UpTo(Reps)))
             n == Len(Configs) * Len(Nested(Prompts, UpTo(Reps)))
  <1>1. /\ d.plan = [i \in DOMAIN list |-> Logged(list[i], <<list[i][1], list[i][2][2]>>)]
        /\ d.outcome = [r \in Results |-> MeasureOutcome(r)]
        /\ d.keeps = "records" /\ d.log = "after" /\ d.only = FALSE /\ d.parity = FALSE
        /\ d.reparse = FALSE /\ d.sweep = 0
    BY DEF MeasureCachePoc, Script, ForEach
  <1>2. /\ n \in Nat /\ DOMAIN list = 1 .. n /\ Listing(list)
        /\ \A i \in 1 .. n : \E a, b : list[i] = <<a, b>>
    BY CacheArms
  <1>3. ~Files(d)
    BY DEF Files
  <1> HIDE DEF d, list, n
  <1>4. /\ DOMAIN d.plan = 1 .. n /\ d.plan = [i \in 1 .. n |-> d.plan[i]]
        /\ \A i \in 1 .. n : d.plan[i].model = None /\ d.plan[i].name = list[i]
    BY <1>1, <1>2 DEF Arm, Logged
  <1>5. \A i \in 1 .. n : d.plan[i].name # <<None>>
    <2> TAKE i \in 1 .. n
    <2>1. PICK a, b : list[i] = <<a, b>>
      BY <1>2
    <2> QED
      BY <1>4, <2>1, NamesDiffer
  <1>6. \A i, j \in 1 .. n : d.plan[i].name = d.plan[j].name => i = j
    <2>1. \A i, j \in 1 .. n : list[i] = list[j] => i = j
      BY <1>2 DEF Listing, IsInjective
    <2> QED
      BY <1>4, <2>1
  <1>7. PlainSettings(d)
    <2>1. d.outcome \in [Results -> Outcomes]
      BY <1>1, OutcomeTypes
    <2>2. d.sweep \in Nat
      BY <1>1
    <2> QED
      BY <1>1, <2>1, <2>2 DEF PlainSettings
  <1>8. PlainArms(d, n)
    BY <1>3, <1>4, <1>5, <1>6 DEF PlainArms
  <1>9. Sound(d)
    BY <1>2, <1>7, <1>8, PlainSound
  <1> QED
    BY <1>9 DEF d

\* Records and files have names of their own: what --reparse relies on.
LEMMA FateReproSound == Sound(FateRepro)
PROOF
  <1> DEFINE d == FateRepro
             list == Nested(Configs, Nested(Prompts, UpTo(Reps)))
             n == Len(Configs) * Len(Nested(Prompts, UpTo(Reps)))
  <1>1. /\ d.plan = [i \in DOMAIN list |->
                        Logged(list[i], FateStem(list[i][1], list[i][2][1], list[i][2][2]))]
        /\ d.outcome = [r \in Results |-> FateOutcome(r)]
        /\ d.keeps = "records" /\ d.log = "after" /\ d.only = FALSE /\ d.parity = FALSE
        /\ d.reparse = TRUE /\ d.sweep = 0
    BY DEF FateRepro, Script, ForEach
  <1>2. /\ n \in Nat /\ DOMAIN list = 1 .. n /\ Listing(list)
        /\ \A i \in 1 .. n : \E c, p, r : list[i] = <<c, <<p, r>>>>
    BY CacheArms
  <1>3. Files(d)
    <2>1. MeasureCachePoc.reparse = FALSE
      BY DEF MeasureCachePoc, Script
    <2> QED
      BY <1>1, <2>1 DEF Files
  <1> HIDE DEF d, list, n
  <1>4. /\ DOMAIN d.plan = 1 .. n /\ d.plan = [i \in 1 .. n |-> d.plan[i]]
        /\ \A i \in 1 .. n : /\ d.plan[i].model = None /\ d.plan[i].name = list[i]
                             /\ d.plan[i].log = <<list[i][1], list[i][2][1], list[i][2][2]>>
    BY <1>1, <1>2 DEF Arm, Logged, FateStem
  <1>5. \A i \in 1 .. n : d.plan[i].name # <<None>>
    <2> TAKE i \in 1 .. n
    <2>1. PICK c, p, r : list[i] = <<c, <<p, r>>>>
      BY <1>2
    <2> QED
      BY <1>4, <2>1, NamesDiffer
  <1>6. \A i, j \in 1 .. n : d.plan[i].name = d.plan[j].name => i = j
    <2>1. \A i, j \in 1 .. n : list[i] = list[j] => i = j
      BY <1>2 DEF Listing, IsInjective
    <2> QED
      BY <1>4, <2>1
  <1>7. ASSUME NEW i \in 1 .. n, NEW j \in 1 .. n, d.plan[i].log = d.plan[j].log
        PROVE  i = j
    <2>1. PICK c, p, r : list[i] = <<c, <<p, r>>>>
      BY <1>2
    <2>2. PICK e, q, s : list[j] = <<e, <<q, s>>>>
      BY <1>2
    <2>3. <<c, p, r>> = <<e, q, s>>
      BY <1>4, <1>7, <2>1, <2>2
    <2>4. c = e /\ p = q /\ r = s
      BY <2>3
    <2>5. list[i] = list[j]
      BY <2>1, <2>2, <2>4
    <2> QED
      BY <1>2, <2>5 DEF Listing, IsInjective
  <1>8. PlainSettings(d)
    <2>1. d.outcome \in [Results -> Outcomes]
      BY <1>1, OutcomeTypes
    <2>2. d.sweep \in Nat
      BY <1>1
    <2> QED
      BY <1>1, <1>3, <2>1, <2>2 DEF PlainSettings
  <1>9. PlainArms(d, n)
    BY <1>4, <1>5, <1>6, <1>7 DEF PlainArms
  <1>10. Sound(d)
    BY <1>2, <1>8, <1>9, PlainSound
  <1> QED
    BY <1>10 DEF d

\* All arms of a model, one model after the other.
LEMMA BenchQuantsSound == Sound(BenchQuants)
PROOF
  <1> DEFINE d == BenchQuants
             list == Nested(Models, Points)
             n == Len(Models) * Len(Points)
  <1>1. /\ d.plan = [i \in DOMAIN list |-> ArmOf(list[i][1], list[i])]
        /\ d.outcome = [r \in Results |-> GridOutcome(r)]
        /\ d.absent = "missing"
        /\ d.keeps = "records" /\ d.log = "none" /\ d.only = FALSE /\ d.parity = FALSE
        /\ d.reparse = FALSE /\ d.sweep = 0
    BY DEF BenchQuants, Script, ForEach
  <1>2. /\ n \in Nat /\ DOMAIN list = 1 .. n /\ Listing(list)
        /\ \A i \in 1 .. n : \E m \in ToSet(Models), b \in ToSet(Points) : list[i] = <<m, b>>
        /\ \A i, j, k \in 1 .. n :
                    i <= k /\ k <= j /\ list[i][1] = list[j][1] => list[k][1] = list[i][1]
    BY ScriptLists, NestedListing
  <1> HIDE DEF d, list, n
  <1>3. /\ DOMAIN d.plan = 1 .. n /\ d.plan = [i \in 1 .. n |-> d.plan[i]]
        /\ \A i \in 1 .. n : d.plan[i].model = list[i][1] /\ d.plan[i].name = list[i]
    BY <1>1, <1>2 DEF Arm, ArmOf
  <1>4. ASSUME NEW i \in 1 .. n
        PROVE  d.plan[i].model \in ToSet(Models) /\ \A m : d.plan[i].name # <<m>>
    <2>1. PICK m \in ToSet(Models), b \in ToSet(Points) : list[i] = <<m, b>>
      BY <1>2
    <2>2. d.plan[i].model = m
      BY <1>3, <2>1
    <2>3. d.plan[i].name = <<m, b>>
      BY <1>3, <2>1
    <2> QED
      BY <2>2, <2>3, NamesDiffer
  <1>5. WellNamed(d.plan)
    <2>1. \A i, j \in 1 .. n : d.plan[i].name = d.plan[j].name => i = j
      <3>1. \A i, j \in 1 .. n : list[i] = list[j] => i = j
        BY <1>2 DEF Listing, IsInjective
      <3> QED
        BY <1>3, <3>1
    <2>2. \A i, j, k \in 1 .. n :
            i <= k /\ k <= j /\ d.plan[i].model = d.plan[j].model =>
                d.plan[k].model = d.plan[i].model
      BY <1>2, <1>3
    <2> QED
      BY <1>3, <1>4, <2>1, <2>2 DEF WellNamed
  <1>6. d.outcome \in [Results -> Outcomes] /\ d.sweep \in Nat
    <2>1. d.outcome \in [Results -> Outcomes]
      BY <1>1, OutcomeTypes
    <2>2. d.sweep \in Nat
      BY <1>1
    <2> QED
      BY <2>1, <2>2
  <1>7. ~Files(d)
    BY <1>1 DEF Files
  <1>8. d.plan \in Seq(ToSet(d.plan))
    BY <1>2, <1>3, ListOf
  <1>9. Sound(d)
    BY <1>1, <1>3, <1>4, <1>5, <1>6, <1>7, <1>8 DEF Sound
  <1> QED
    BY <1>9 DEF d

\* One arm for each model.
ModelArms == [i \in DOMAIN Models |-> ArmOf(Models[i], <<Models[i]>>)]

\* Such arms are named, and follow each other, as the table needs.
LEMMA ModelArmsSound ==
    /\ ModelArms \in Seq(ToSet(ModelArms)) /\ WellNamed(ModelArms)
    /\ \A i \in DOMAIN ModelArms : ModelArms[i].model \in ToSet(Models)
PROOF
  <1> DEFINE n == Len(Models)
  <1>1. /\ n \in Nat /\ DOMAIN Models = 1 .. n
        /\ \A i \in 1 .. n : Models[i] \in ToSet(Models)
        /\ \A i, j \in 1 .. n : Models[i] = Models[j] => i = j
    BY ScriptLists, ListingOf
  <1> HIDE DEF n
  <1>2. /\ DOMAIN ModelArms = 1 .. n /\ ModelArms = [i \in 1 .. n |-> ModelArms[i]]
        /\ \A i \in 1 .. n : ModelArms[i].model = Models[i] /\ ModelArms[i].name = <<Models[i]>>
    BY <1>1 DEF ModelArms, ArmOf, Arm
  <1>3. ModelArms \in Seq(ToSet(ModelArms))
    BY <1>1, <1>2, ListOf
  <1>4. \A i, j \in 1 .. n : <<Models[i]>> = <<Models[j]>> => i = j
    BY <1>1
  <1>5. \A i, j, k \in 1 .. n : i <= k /\ k <= j /\ Models[i] = Models[j] => k = i
    BY <1>1
  <1>6. WellNamed(ModelArms)
    BY <1>2, <1>4, <1>5 DEF WellNamed
  <1> QED
    BY <1>1, <1>2, <1>3, <1>6

\* Missing models make a record.
LEMMA PerplexityQuantsSound == Sound(PerplexityQuants)
PROOF
  <1> DEFINE d == PerplexityQuants
  <1>1. /\ d.plan = ModelArms
        /\ d.outcome = [r \in Results |-> PerplexityOutcome(r)]
        /\ d.absent = "missing"
        /\ d.keeps = "records" /\ d.log = "none" /\ d.only = FALSE /\ d.parity = FALSE
        /\ d.reparse = FALSE /\ d.sweep = 0
    BY DEF PerplexityQuants, Script, ForEach, ModelArms
  <1> HIDE DEF d
  <1>2. d.outcome \in [Results -> Outcomes] /\ d.sweep \in Nat
    <2>1. d.outcome \in [Results -> Outcomes]
      BY <1>1, OutcomeTypes
    <2>2. d.sweep \in Nat
      BY <1>1
    <2> QED
      BY <2>1, <2>2
  <1>3. ~Files(d)
    BY <1>1 DEF Files
  <1>4. Sound(d)
    BY <1>1, <1>2, <1>3, ModelArmsSound DEF Sound
  <1> QED
    BY <1>4 DEF d

\* Skipped models make a record; --only selects, and the tables are merged.
LEMMA MixedPrecisionGateSound == Sound(MixedPrecisionGate)
PROOF
  <1> DEFINE d == MixedPrecisionGate
  <1>1. /\ d.plan = ModelArms
        /\ d.outcome = [r \in Results |-> PerplexityOutcome(r)]
        /\ d.absent = "skipped"
        /\ d.keeps = "merged" /\ d.log = "none" /\ d.only = TRUE /\ d.parity = FALSE
        /\ d.reparse = FALSE /\ d.sweep = 0
    BY DEF MixedPrecisionGate, Script, ForEach, ModelArms
  <1> HIDE DEF d
  <1>2. d.outcome \in [Results -> Outcomes] /\ d.sweep \in Nat
    <2>1. d.outcome \in [Results -> Outcomes]
      BY <1>1, OutcomeTypes
    <2>2. d.sweep \in Nat
      BY <1>1
    <2> QED
      BY <2>1, <2>2
  <1>3. ~Files(d)
    BY <1>1 DEF Files
  <1>4. Sound(d)
    BY <1>1, <1>2, <1>3, ModelArmsSound DEF Sound
  <1> QED
    BY <1>4 DEF d

\* A script that keeps no records needs only files of its own for its arms.
LEMMA FilesSound ==
    ASSUME NEW d, NEW n \in Nat, DOMAIN d.plan = 1 .. n, d.plan = [i \in 1 .. n |-> d.plan[i]],
           \A i \in 1 .. n : d.plan[i].model = None,
           \A i, j \in 1 .. n : d.plan[i].log = d.plan[j].log => i = j,
           d.outcome \in [Results -> Outcomes], d.keeps \in {"manifest", "files"},
           d.log \in {"none", "child", "before", "after"},
           d.only \in BOOLEAN, d.parity \in BOOLEAN, d.reparse = FALSE, d.sweep \in Nat
    PROVE  Sound(d)
PROOF
  <1>1. d.plan \in Seq(ToSet(d.plan))
    BY ListOf
  <1>2. WellLogged(d.plan)
    BY DEF WellLogged
  <1>3. ~Tabulates(d)
    BY DEF Tabulates
  <1>4. d.keeps # "records"
    OBVIOUS
  <1> QED
    BY <1>1, <1>2, <1>3, <1>4 DEF Sound

\* No two runs of the comparison of engines write the same file.
LEMMA IkAbSound == Sound(IkAb)
PROOF
  <1> DEFINE d == IkAb
             arms2 == Nested(Configs, UpTo(Len(Engines)))
             list == Nested(UpTo(Reps), arms2)
             n == Len(UpTo(Reps)) * Len(arms2)
             engine(i) == RoundOrder(Engines, list[i][1])[list[i][2][2]]
  <1>1. /\ d.plan = [i \in DOMAIN list |-> Logged(<<list[i][1], list[i][2][1], engine(i)>>,
                                                <<engine(i), list[i][2][1], list[i][1]>>)]
        /\ d.outcome = [r \in Results |-> Recorded(IF r.zero THEN "ok" ELSE "error", r.zero)]
        /\ d.keeps = "manifest" /\ d.log = "child" /\ d.only = FALSE /\ d.parity = FALSE
        /\ d.reparse = FALSE /\ d.sweep = 0
    BY DEF IkAb, Script, ForEach, IkAbLog
  <1>2. Listing(Engines) /\ Len(Engines) = 2
    <2>1. Engines \in Seq(ToSet(Engines))
      BY DEF ToSet, Engines
    <2> QED
      BY <2>1 DEF Listing, IsInjective, Engines
  <1>3. Listing(UpTo(Len(Engines))) /\ ToSet(UpTo(Len(Engines))) = 1 .. Len(Engines)
    BY <1>2, UpToListing DEF UpTo, ToSet
  <1>4. /\ Listing(arms2)
        /\ \A i \in DOMAIN arms2 : \E c, e : e \in 1 .. Len(Engines) /\ arms2[i] = <<c, e>>
    BY <1>3, ScriptLists, NestedListing
  <1> HIDE DEF arms2
  <1>5. /\ n \in Nat /\ DOMAIN list = 1 .. n /\ Listing(list)
        /\ \A i \in 1 .. n : \E r \in ToSet(UpTo(Reps)), b \in ToSet(arms2) : list[i] = <<r, b>>
    BY <1>4, ScriptLists, NestedListing
  <1>6. ToSet(UpTo(Reps)) = 1 .. Reps /\ Reps \in Nat
    BY ScriptLists, UpToListing DEF UpTo, ToSet
  <1> HIDE DEF d, list, n, engine
  <1>7. ASSUME NEW i \in 1 .. n
        PROVE  \E r, c, e : r \in Nat /\ e \in 1 .. Len(Engines) /\ list[i] = <<r, <<c, e>>>>
    <2>1. PICK r \in 1 .. Reps, b \in ToSet(arms2) : list[i] = <<r, b>>
      BY <1>5, <1>6
    <2>2. PICK c, e : e \in 1 .. Len(Engines) /\ b = <<c, e>>
      BY <1>4 DEF ToSet
    <2> QED
      BY <1>6, <2>1, <2>2
  <1>8. /\ DOMAIN d.plan = 1 .. n /\ d.plan = [i \in 1 .. n |-> d.plan[i]]
        /\ \A i \in 1 .. n : /\ d.plan[i].model = None
                             /\ d.plan[i].log = <<engine(i), list[i][2][1], list[i][1]>>
    BY <1>1, <1>5 DEF Arm, Logged
  <1>9. ASSUME NEW i \in 1 .. n, NEW j \in 1 .. n, d.plan[i].log = d.plan[j].log
        PROVE  i = j
    <2>1. PICK r, c, e : r \in Nat /\ e \in 1 .. Len(Engines) /\ list[i] = <<r, <<c, e>>>>
      BY <1>7
    <2>2. PICK s, g, f : s \in Nat /\ f \in 1 .. Len(Engines) /\ list[j] = <<s, <<g, f>>>>
      BY <1>7
    <2>3. engine(i) = RoundOrder(Engines, r)[e] /\ engine(j) = RoundOrder(Engines, s)[f]
      BY <2>1, <2>2 DEF engine
    <2>4. <<engine(i), c, r>> = <<engine(j), g, s>>
      <3>1. list[i][1] = r /\ list[i][2][1] = c /\ list[j][1] = s /\ list[j][2][1] = g
        BY <2>1, <2>2
      <3> QED
        BY <1>8, <1>9, <3>1
    <2>5. engine(i) = engine(j) /\ c = g /\ r = s
      BY <2>4
    <2>6. e = f
      BY <1>2, <2>1, <2>2, <2>3, <2>5, RoundListing
    <2>7. list[i] = list[j]
      BY <2>1, <2>2, <2>5, <2>6
    <2> QED
      BY <1>5, <2>7 DEF Listing, IsInjective
  <1>10. d.outcome \in [Results -> Outcomes] /\ d.sweep \in Nat
    <2>1. d.outcome \in [Results -> Outcomes]
      BY <1>1, OutcomeTypes
    <2>2. d.sweep \in Nat
      BY <1>1
    <2> QED
      BY <2>1, <2>2
  <1>11. Sound(d)
    BY <1>1, <1>5, <1>8, <1>9, <1>10, FilesSound
  <1> QED
    BY <1>11 DEF d

\* Each prompt has its trace.
LEMMA RunTracesSound == Sound(RunTraces)
PROOF
  <1> DEFINE d == RunTraces
             n == Len(Prompts)
  <1>1. /\ d.plan = [i \in DOMAIN Prompts |-> Logged(<<Prompts[i]>>, <<Prompts[i]>>)]
        /\ d.outcome = [r \in Results |-> IF r.zero THEN Recorded("ok", TRUE) ELSE Exits]
        /\ d.keeps = "files" /\ d.log = "child" /\ d.only = TRUE /\ d.parity = FALSE
        /\ d.reparse = FALSE /\ d.sweep = 0
    BY DEF RunTraces, Script, ForEach
  <1>2. /\ n \in Nat /\ DOMAIN Prompts = 1 .. n
        /\ \A i, j \in 1 .. n : Prompts[i] = Prompts[j] => i = j
    BY ScriptLists, ListingOf
  <1> HIDE DEF d, n
  <1>3. /\ DOMAIN d.plan = 1 .. n /\ d.plan = [i \in 1 .. n |-> d.plan[i]]
        /\ \A i \in 1 .. n : d.plan[i].model = None /\ d.plan[i].log = <<Prompts[i]>>
    BY <1>1, <1>2 DEF Arm, Logged
  <1>4. \A i, j \in 1 .. n : d.plan[i].log = d.plan[j].log => i = j
    BY <1>2, <1>3
  <1>5. d.outcome \in [Results -> Outcomes] /\ d.sweep \in Nat
    <2>1. d.outcome \in [Results -> Outcomes]
      <3>1. d.outcome = [r \in Results |-> IF r.zero THEN Recorded("ok", TRUE) ELSE Exits]
        BY <1>1
      <3> QED
        BY <3>1, OutcomeTypes
    <2>2. d.sweep \in Nat
      BY <1>1
    <2> QED
      BY <2>1, <2>2
  <1>6. Sound(d)
    <2>1. /\ d.only \in BOOLEAN /\ d.parity \in BOOLEAN
          /\ d.keeps \in {"manifest", "files"} /\ d.reparse = FALSE
          /\ d.log \in {"none", "child", "before", "after"}
      BY <1>1
    <2> QED
      BY <1>2, <1>3, <1>4, <1>5, <2>1, FilesSound
  <1> QED
    BY <1>6 DEF d

\* Each of the two programs has its output.
LEMMA ParityCheckSound == Sound(ParityCheck)
PROOF
  <1> DEFINE d == ParityCheck
             programs == <<"trace", "cli">>
  <1>1. /\ d.plan = [i \in DOMAIN programs |-> Logged(<<programs[i]>>, <<programs[i]>>)]
        /\ d.outcome = [r \in Results |-> IF r.zero THEN Recorded("ok", TRUE) ELSE Exits]
        /\ d.keeps = "files" /\ d.log = "before" /\ d.only = FALSE /\ d.parity = TRUE
        /\ d.reparse = FALSE /\ d.sweep = 0
    BY DEF ParityCheck, Script, ForEach
  <1>2. DOMAIN programs = 1 .. 2 /\ \A i, j \in 1 .. 2 : programs[i] = programs[j] => i = j
    OBVIOUS
  <1> HIDE DEF d, programs
  <1>3. /\ DOMAIN d.plan = 1 .. 2 /\ d.plan = [i \in 1 .. 2 |-> d.plan[i]]
        /\ \A i \in 1 .. 2 : d.plan[i].model = None /\ d.plan[i].log = <<programs[i]>>
    BY <1>1, <1>2 DEF Arm, Logged
  <1>4. \A i, j \in 1 .. 2 : d.plan[i].log = d.plan[j].log => i = j
    BY <1>2, <1>3
  <1>5. d.outcome \in [Results -> Outcomes] /\ d.sweep \in Nat
    <2>1. d.outcome \in [Results -> Outcomes]
      BY <1>1, OutcomeTypes
    <2>2. d.sweep \in Nat
      BY <1>1
    <2> QED
      BY <2>1, <2>2
  <1>6. Sound(d)
    <2>1. /\ d.only \in BOOLEAN /\ d.parity \in BOOLEAN
          /\ d.keeps \in {"manifest", "files"} /\ d.reparse = FALSE
          /\ d.log \in {"none", "child", "before", "after"}
      BY <1>1
    <2>2. 2 \in Nat
      OBVIOUS
    <2> QED
      BY <1>3, <1>4, <1>5, <2>1, <2>2, FilesSound
  <1> QED
    BY <1>6 DEF d

\* Every script is sound.
LEMMA ScriptsSound == ASSUME NEW d \in Scripts PROVE Sound(d)
PROOF
  <1>1. GptPlacementGrid = MoePlacementGrid /\ DensePlacementSweep = MoePlacementGrid
    BY DEF GptPlacementGrid, DensePlacementSweep
  <1> QED
    BY <1>1, MoePlacementGridSound, BenchQuantsSound, ThreadSweepSound, MixedPrecisionSpeedSound,
       IkHybridAbSound, IkAbSound, PerplexityQuantsSound, MixedPrecisionGateSound,
       MeasureCachePocSound, FateReproSound, RunTracesSound, ParityCheckSound DEF Scripts

------------------------------------------------------------------------------
(* The operators of the loop. *)

\* The script of a behaviour is sound.
LEMMA DriverSound == ASSUME TypeInv PROVE Sound(driver)
PROOF
  BY ScriptsSound DEF TypeInv

\* Picks go up through the plan of the script.
LEMMA PickFacts ==
    ASSUME NEW p \in Picks, driver.plan \in Seq(ToSet(driver.plan))
    PROVE  /\ Len(p) \in Nat /\ DOMAIN p = 1 .. Len(p) /\ p = [i \in 1 .. Len(p) |-> p[i]]
           /\ \A i \in DOMAIN p : p[i] \in DOMAIN driver.plan /\ p[i] \in Int
           /\ \A i, j \in DOMAIN p : i < j => p[i] < p[j]
           /\ \A i, j \in DOMAIN p : p[i] = p[j] => i = j
           /\ \A i, j \in DOMAIN p : i <= j => p[i] <= p[j]
PROOF
  <1>1. DOMAIN driver.plan \subseteq Int /\ Len(driver.plan) \in Nat
    BY LenProperties
  <1>2. PICK n \in 0 .. Len(driver.plan) : p \in [1 .. n -> DOMAIN driver.plan]
    BY DEF Picks
  <1>3. Len(p) = n /\ n \in Nat
    BY <1>1, <1>2
  <1>4. \A i, j \in DOMAIN p : i < j => p[i] < p[j]
    BY DEF Picks
  <1>5. /\ DOMAIN p = 1 .. n /\ p = [i \in 1 .. n |-> p[i]]
        /\ \A i \in DOMAIN p : p[i] \in DOMAIN driver.plan /\ p[i] \in Int
    BY <1>1, <1>2
  <1>6. ASSUME NEW i \in DOMAIN p, NEW j \in DOMAIN p
        PROVE  /\ p[i] = p[j] => i = j
               /\ i <= j => p[i] <= p[j]
    <2>1. i \in Int /\ j \in Int /\ p[i] \in Int /\ p[j] \in Int
      BY <1>3, <1>5
    <2>2. i < j => p[i] < p[j]
      BY <1>4
    <2>3. j < i => p[j] < p[i]
      BY <1>4
    <2> QED
      BY <2>1, <2>2, <2>3
  <1> QED
    BY <1>3, <1>4, <1>5, <1>6

\* What is true of the plan of a sound script is true of a part of it.
LEMMA SelectionFacts ==
    ASSUME Sound(driver), NEW list \in Selections
    PROVE  /\ list \in Seq(ToSet(driver.plan))
           /\ Tabulates(driver) => WellNamed(list)
           /\ Files(driver) => WellLogged(list)
           /\ ~driver.only => list = driver.plan
PROOF
  <1>1. driver.plan \in Seq(ToSet(driver.plan))
    BY DEF Sound
  <1>2. CASE ~driver.only
    BY <1>1, <1>2 DEF Selections, Sound
  <1>3. CASE driver.only
    <2>1. PICK p \in Picks : list = [i \in DOMAIN p |-> driver.plan[p[i]]]
      BY <1>3 DEF Selections
    <2>2. /\ Len(p) \in Nat /\ DOMAIN p = 1 .. Len(p)
          /\ \A i \in DOMAIN p : p[i] \in DOMAIN driver.plan /\ p[i] \in Int
          /\ \A i, j \in DOMAIN p : p[i] = p[j] => i = j
          /\ \A i, j \in DOMAIN p : i <= j => p[i] <= p[j]
      BY <1>1, PickFacts
    <2>3. DOMAIN list = DOMAIN p /\ \A i \in DOMAIN p : list[i] = driver.plan[p[i]]
      BY <2>1
    <2>4. list \in Seq(ToSet(driver.plan))
      <3>1. \A i \in 1 .. Len(p) : driver.plan[p[i]] \in ToSet(driver.plan)
        BY <2>2 DEF ToSet
      <3>2. list \in [1 .. Len(p) -> ToSet(driver.plan)]
        BY <2>1, <2>2, <3>1
      <3> QED
        BY <2>2, <3>2
    <2>5. ASSUME Tabulates(driver) PROVE WellNamed(list)
      <3>1. /\ \A i, j \in DOMAIN driver.plan :
                driver.plan[i].name = driver.plan[j].name => i = j
            /\ \A i, j \in DOMAIN driver.plan :
                driver.plan[i].name = <<driver.plan[j].model>> => i = j
            /\ \A i, j, k \in DOMAIN driver.plan :
                i <= k /\ k <= j /\ driver.plan[i].model = driver.plan[j].model
                /\ driver.plan[i].model # None =>
                    driver.plan[k].model = driver.plan[i].model
        BY <2>5 DEF Sound, WellNamed
      <3>2. \A i, j \in DOMAIN list : list[i].name = list[j].name => i = j
        BY <2>2, <2>3, <3>1
      <3>3. \A i, j \in DOMAIN list : list[i].name = <<list[j].model>> => i = j
        BY <2>2, <2>3, <3>1
      <3>4. \A i, j, k \in DOMAIN list :
                i <= k /\ k <= j /\ list[i].model = list[j].model /\ list[i].model # None =>
                    list[k].model = list[i].model
        BY <2>2, <2>3, <3>1
      <3> QED
        BY <3>2, <3>3, <3>4 DEF WellNamed
    <2>6. ASSUME Files(driver) PROVE WellLogged(list)
      BY <2>2, <2>3, <2>6 DEF Sound, WellLogged
    <2> QED
      BY <1>3, <2>4, <2>5, <2>6
  <1> QED
    BY <1>2, <1>3

\* Arms of the plan of a session are arms of the script.
LEMMA PlanArms ==
    ASSUME TypeInv, NEW i \in DOMAIN plan
    PROVE  /\ plan[i] \in ToSet(driver.plan) /\ plan[i].name \in ArmNames
           /\ plan[i].log \in {driver.plan[j].log : j \in DOMAIN driver.plan}
           /\ plan[i].model \in ToSet(Models) \cup {None}
           /\ plan[i].model # None => driver.absent \in {"missing", "skipped"}
PROOF
  <1>1. plan[i] \in ToSet(driver.plan)
    BY DEF TypeInv
  <1>2. PICK j \in DOMAIN driver.plan : plan[i] = driver.plan[j]
    BY <1>1 DEF ToSet
  <1>3. Sound(driver)
    BY DriverSound
  <1> QED
    BY <1>1, <1>2, <1>3 DEF Sound, ArmNames

\* The plan and the place in it.
LEMMA PlanPlaces ==
    ASSUME TypeInv
    PROVE  /\ Len(plan) \in Nat /\ DOMAIN plan = 1 .. Len(plan)
           /\ next \in 1 .. Len(plan) + 1 /\ session \in Nat
           /\ Run \in Runs /\ driver.plan \in Seq(ToSet(driver.plan))
PROOF
  <1>1. Len(plan) \in Nat /\ DOMAIN plan = 1 .. Len(plan)
    BY LenProperties DEF TypeInv
  <1>2. next \in 1 .. Len(plan) + 1
    BY DEF TypeInv
  <1>3. session \in Nat
    BY CampaignAssumption DEF TypeInv
  <1>4. Sound(driver)
    BY DriverSound
  <1> QED
    BY <1>1, <1>2, <1>3, <1>4 DEF Run, Runs, Sound

\* The arms of a model that is not there are passed over together.
OfModel == {i \in next .. Len(plan) : plan[i].model = plan[next].model}

\* They are a section of the plan that starts where the loop is.
LEMMA SkippedPlaces ==
    ASSUME TypeInv, AtArm, Missing
    PROVE  /\ next + Cardinality(OfModel) \in next + 1 .. Len(plan) + 1
           /\ plan[next].model \in ToSet(Models) /\ plan[next].model # None
           /\ WellNamed(plan) => OfModel = next .. (next + Cardinality(OfModel)) - 1
PROOF
  <1>1. Len(plan) \in Nat /\ DOMAIN plan = 1 .. Len(plan) /\ next \in 1 .. Len(plan)
    BY PlanPlaces DEF AtArm
  <1>2. plan[next].model \in ToSet(Models) /\ plan[next].model # None
    BY ScriptLists DEF TypeInv, Missing
  <1> DEFINE c == Cardinality(OfModel)
  <1>3. IsFiniteSet(next .. Len(plan)) /\ Cardinality(next .. Len(plan)) = Len(plan) - next + 1
    BY <1>1, FS_Interval
  <1>4. OfModel \subseteq next .. Len(plan) /\ next \in OfModel
    BY <1>1 DEF OfModel
  <1>5. IsFiniteSet(OfModel) /\ c <= Len(plan) - next + 1 /\ c \in Nat
    <2>1. OfModel \in SUBSET (next .. Len(plan))
      BY <1>4
    <2>2. IsFiniteSet(OfModel) /\ c <= Cardinality(next .. Len(plan))
      BY <1>3, <2>1, FS_Subset
    <2>3. c \in Nat
      BY <2>2, FS_CardinalityType
    <2> QED
      BY <1>3, <2>2, <2>3
  <1>6. c # 0
    BY <1>4, <1>5, FS_EmptySet
  <1> HIDE DEF c
  <1>7. ASSUME WellNamed(plan) PROVE OfModel = next .. (next + c) - 1
    <2>1. ASSUME NEW i \in OfModel PROVE i \in next .. (next + c) - 1
      <3>1. next .. i \subseteq OfModel
        <4> SUFFICES ASSUME NEW k \in next .. i PROVE k \in OfModel
          OBVIOUS
        <4>1. i \in 1 .. Len(plan) /\ k \in next .. Len(plan) /\ next <= k /\ k <= i
          BY <1>1, <1>4
        <4>2. plan[k].model = plan[next].model
          BY <1>1, <1>2, <1>7, <2>1, <4>1 DEF WellNamed, OfModel
        <4> QED
          BY <4>1, <4>2 DEF OfModel
      <3>2. i \in Int /\ next <= i
        BY <1>1, <1>4
      <3>3. Cardinality(next .. i) = i - next + 1
        BY <1>1, <3>2, FS_Interval
      <3>4. i - next + 1 <= c
        <4>1. next .. i \in SUBSET OfModel
          BY <3>1
        <4>2. Cardinality(next .. i) <= Cardinality(OfModel)
          BY <1>5, <4>1, FS_Subset
        <4> QED
          BY <3>3, <4>2 DEF c
      <3> QED
        BY <1>1, <1>5, <3>2, <3>4
    <2>2. IsFiniteSet(next .. (next + c) - 1) /\ Cardinality(next .. (next + c) - 1) = c
      <3> DEFINE b == (next + c) - 1
      <3>1. b \in Int /\ ~(next > b) /\ b - next + 1 = c
        BY <1>1, <1>5, <1>6
      <3> HIDE DEF b
      <3>2. IsFiniteSet(next .. b) /\ Cardinality(next .. b) = c
        <4>1. next \in Int
          BY <1>1
        <4>2. /\ IsFiniteSet(next .. b)
              /\ Cardinality(next .. b) = IF next > b THEN 0 ELSE b - next + 1
          BY <3>1, <4>1, FS_Interval
        <4> QED
          BY <3>1, <4>2
      <3> QED
        BY <3>2 DEF b
    <2>3. OfModel \in SUBSET (next .. (next + c) - 1)
      BY <2>1
    <2> QED
      BY <2>2, <2>3, FS_Subset DEF c
  <1>8. next + c \in next + 1 .. Len(plan) + 1
    BY <1>1, <1>5, <1>6
  <1> QED
    BY <1>2, <1>7, <1>8 DEF c

\* A record is a row of the table.
LEMMA RecordRow ==
    ASSUME NEW name \in ArmNames, NEW o, NEW run \in Runs,
           o.status \in RowStatuses, o.value \in BOOLEAN
    PROVE  /\ Record(name, o, run) \in Rows
           /\ Record(name, o, run).name = name /\ Record(name, o, run).run = run
           /\ Record(name, o, run).metrics = run
PROOF
  BY DEF Record, Rows

\* An outcome that is neither an exception nor an exit is recorded.
LEMMA RecordedOutcomes ==
    ASSUME TypeInv, results # <<>>, Outcome \notin {Raises, Exits}
    PROVE  Outcome.status \in RowStatuses /\ Outcome.value \in BOOLEAN
PROOF
  <1>1. Last(results) \in Results
    <2>1. results \in Seq(Results) /\ Len(results) \in 1 .. Len(results)
      BY EmptySeq, LenProperties DEF TypeInv
    <2> QED
      BY <2>1, ElementOfSeq DEF Last
  <1>2. driver.outcome \in [Results -> Outcomes]
    BY DriverSound DEF Sound
  <1>3. Recorded("ok", TRUE) \in Outcomes
    BY DEF Recorded, Outcomes
  <1>4. Outcome \in Outcomes
    BY <1>1, <1>2, <1>3 DEF Outcome
  <1>5. Outcome \in [status : {"ok", "error", "parse_error"}, value : BOOLEAN]
    BY <1>4 DEF Outcomes
  <1> QED
    BY <1>5 DEF RowStatuses

\* A file is written anew, the others stay.
LEMMA WithFacts ==
    ASSUME NEW f, NEW x, NEW y
    PROVE  /\ DOMAIN With(f, x, y) = DOMAIN f \cup {x}
           /\ With(f, x, y)[x] = y
           /\ \A z \in DOMAIN f : z # x => With(f, x, y)[z] = f[z]
PROOF
  BY DEF With

\* The content of the files stays of its type.
LEMMA WithType ==
    ASSUME NEW f, NEW x, NEW y
    PROVE  \A R : f \in [DOMAIN f -> R] /\ y \in R =>
                    With(f, x, y) \in [DOMAIN With(f, x, y) -> R]
PROOF
  BY DEF With

\* The row of a name that is in a table.
LEMMA RowOfFacts ==
    ASSUME NEW rows \in Seq(Rows), NEW n \in NamesIn(rows)
    PROVE  RowOf(rows, n) \in Rows /\ RowOf(rows, n).name = n
PROOF
  <1>1. \E i \in DOMAIN rows : rows[i].name = n
    BY DEF NamesIn
  <1> DEFINE k == CHOOSE i \in DOMAIN rows : rows[i].name = n
  <1>2. k \in DOMAIN rows /\ rows[k].name = n
    BY <1>1
  <1>3. rows[k] \in Rows
    BY <1>2
  <1> QED
    BY <1>2, <1>3 DEF RowOf

\* A list that was merged has the names of both tables, each once.
LEMMA MergedFacts ==
    ASSUME TypeInv, NEW list \in MergedLists
    PROVE  /\ list \in Seq(Rows)
           /\ NamesIn(list) = NamesIn(records) \cup NamesIn(out.records)
           /\ \A i \in DOMAIN list : list[i] = Merged(list[i].name)
           /\ WellNamed(driver.plan) => OneRowEach(list)
PROOF
  <1> DEFINE names == NamesIn(records) \cup NamesIn(out.records)
             name(i) == driver.plan[i].name
  <1>1. PICK p \in Picks : /\ {name(p[i]) : i \in DOMAIN p} = names
                           /\ list = [i \in DOMAIN p |-> Merged(name(p[i]))]
    BY DEF MergedLists
  <1>2. /\ Len(p) \in Nat /\ DOMAIN p = 1 .. Len(p)
        /\ \A i \in DOMAIN p : p[i] \in DOMAIN driver.plan
        /\ \A i, j \in DOMAIN p : p[i] = p[j] => i = j
    BY PlanPlaces, PickFacts
  <1>3. records \in Seq(Rows) /\ out.records \in Seq(Rows)
    BY DEF TypeInv
  <1>4. ASSUME NEW n \in names
        PROVE  Merged(n) \in Rows /\ Merged(n).name = n
    BY <1>3, <1>4, RowOfFacts DEF Merged
  <1>5. ASSUME NEW i \in DOMAIN p
        PROVE  /\ list[i] \in Rows /\ list[i].name = name(p[i])
               /\ list[i] = Merged(list[i].name)
    <2>1. name(p[i]) \in names
      BY <1>1
    <2>2. list[i] = Merged(name(p[i]))
      BY <1>1
    <2> QED
      BY <1>4, <2>1, <2>2
  <1>6. DOMAIN list = DOMAIN p
    BY <1>1
  <1>7. list \in Seq(Rows)
    <2>1. \A i \in DOMAIN p : Merged(name(p[i])) \in Rows
      BY <1>1, <1>4
    <2>2. list \in [1 .. Len(p) -> Rows]
      BY <1>1, <1>2, <2>1
    <2> QED
      BY <1>2, <2>2
  <1>8. NamesIn(list) = names
    <2>1. NamesIn(list) = {list[i].name : i \in DOMAIN p}
      BY <1>6 DEF NamesIn
    <2>2. {list[i].name : i \in DOMAIN p} = {name(p[i]) : i \in DOMAIN p}
      BY <1>5
    <2> QED
      BY <1>1, <2>1, <2>2
  <1>9. ASSUME WellNamed(driver.plan) PROVE OneRowEach(list)
    BY <1>2, <1>5, <1>6, <1>9 DEF OneRowEach, WellNamed
  <1> QED
    BY <1>5, <1>6, <1>7, <1>8, <1>9

\* Only the metrics of a row change in a reparse.
LEMMA ReparsedFacts ==
    ASSUME TypeInv, NEW r \in Rows
    PROVE  /\ Reparsed(r) \in Rows
           /\ Reparsed(r).name = r.name /\ Reparsed(r).status = r.status
           /\ Reparsed(r).run = r.run
PROOF
  <1> DEFINE log == driver.plan[CHOOSE i \in DOMAIN driver.plan : driver.plan[i].name = r.name].log
  <1>1. Reparsed(r) = IF log \in DOMAIN logs THEN [r EXCEPT !.metrics = logs[log]] ELSE r
    BY DEF Reparsed
  <1> HIDE DEF log
  <1>2. CASE log \in DOMAIN logs
    <2>1. logs[log] \in Runs \cup {Torn}
      BY <1>2 DEF TypeInv
    <2>2. Reparsed(r) = [r EXCEPT !.metrics = logs[log]]
      BY <1>1, <1>2
    <2> QED
      BY <2>1, <2>2 DEF Rows
  <1>3. CASE log \notin DOMAIN logs
    BY <1>1, <1>3
  <1> QED
    BY <1>2, <1>3

------------------------------------------------------------------------------
(* Types. *)

\* No step changes the script.
LEMMA DriverFixed ==
    ASSUME [Next]_vars
    PROVE  driver' = driver /\ Rows' = Rows
PROOF
  <1>1. driver' = driver
    BY DEF Next, vars, arms, StartSession, Skip, Launch, SweepFails, SweepRaises, RunReturns,
           RunRaises, WriteLog, AppendRecord, Stops, LoopEnds, FilesDone, Truncate, Fill,
           Interrupt, Reparse, Rewritten
  <1> QED
    BY <1>1 DEF Rows, ArmNames

\* The invariant has TypeOK in it.
LEMMA TypeInvTypeOK == TypeInv => TypeOK
PROOF
  <1> SUFFICES ASSUME TypeInv PROVE TypeOK
    OBVIOUS
  <1>1. ToSet(plan) \subseteq ToSet(driver.plan)
    <2> DEFINE S == ToSet(driver.plan)
    <2>1. plan \in Seq(S)
      BY DEF TypeInv
    <2> HIDE DEF S
    <2>2. ToSet(plan) \subseteq S
      BY <2>1 DEF ToSet
    <2> QED
      BY <2>2 DEF S
  <1>2. \A r \in Rows : IsRecord(r)
    BY DEF Rows, IsRecord
  <1>3. /\ \A i \in DOMAIN records : IsRecord(records[i])
        /\ \A i \in DOMAIN out.records : IsRecord(out.records[i])
        /\ \A i \in DOMAIN results : results[i] \in Results
    <2>1. records \in Seq(Rows) /\ out.records \in Seq(Rows) /\ results \in Seq(Results)
      BY DEF TypeInv
    <2> QED
      BY <1>2, <2>1
  <1>4. out.status \in Statuses \cup {None, Torn}
    BY DEF TypeInv
  <1> QED
    BY <1>1, <1>3, <1>4 DEF TypeInv, TypeOK

\* Before the first session.
LEMMA InitInv == Init => IInv
PROOF
  <1> SUFFICES ASSUME Init PROVE IInv
    OBVIOUS
  <1> USE DEF Init
  <1>1. Sound(driver)
    BY ScriptsSound
  <1>2. TypeInv
    <2>1. out \in [status : Statuses \cup {None, Torn}, records : Seq(Rows)]
      BY DEF NoFile
    <2>2. 0 \in 0 .. MaxSessions /\ 0 \in 0 .. MaxInterrupts /\ 0 \in 0 .. MaxFaults
      BY CampaignAssumption
    <2> QED
      BY <2>1, <2>2 DEF TypeInv
  <1>3. PlanInv
    BY DEF PlanInv, WellNamed, WellLogged
  <1>4. PlaceInv
    BY CampaignAssumption DEF PlaceInv, AtLaunched, AtWriter, NoFile
  <1>5. RecordsInv /\ TablesInv
    BY DEF RecordsInv, TablesInv, OwnRows, OneRowEach, InLoop, AtWriter, NoFile
  <1>6. LeftInv
    <2>1. None \notin Statuses \/ driver.keeps # "records" \/ exit \notin Statuses
      BY CampaignAssumption DEF Statuses
    <2> QED
      BY <2>1 DEF LeftInv
  <1>7. FilesInv
    BY DEF FilesInv
  <1> QED
    BY <1>2, <1>3, <1>4, <1>5, <1>6, <1>7 DEF IInv

\* The plan of a session is a selection of the script's.
LEMMA PlanStep ==
    ASSUME IInv, [Next]_vars
    PROVE  PlanInv'
PROOF
  <1>1. Sound(driver) /\ driver' = driver
    BY DriverSound, DriverFixed DEF IInv
  <1>2. CASE StartSession
    <2>1. plan' \in Selections
      BY <1>2 DEF StartSession
    <2> QED
      BY <1>1, <2>1, SelectionFacts DEF PlanInv
  <1>3. CASE plan' = plan /\ session' = session
    BY <1>1, <1>3 DEF IInv, PlanInv
  <1>4. StartSession \/ (plan' = plan /\ session' = session)
    BY DEF Next, vars, arms, Skip, Launch, SweepFails, SweepRaises, RunReturns,
           RunRaises, WriteLog, AppendRecord, Stops, LoopEnds, FilesDone, Truncate, Fill,
           Interrupt, Reparse, Rewritten
  <1> QED
    BY <1>2, <1>3, <1>4

\* A record is added at the end.
LEMMA AppendedRow ==
    ASSUME NEW rows \in Seq(Rows), NEW r \in Rows, NEW more, more = Append(rows, r)
    PROVE  /\ more \in Seq(Rows) /\ Len(more) = Len(rows) + 1 /\ Len(rows) \in Nat
           /\ DOMAIN rows = 1 .. Len(rows) /\ DOMAIN more = 1 .. Len(rows) + 1
           /\ \A i \in DOMAIN rows : more[i] = rows[i]
           /\ more[Len(rows) + 1] = r
PROOF
  BY AppendProperties, LenProperties

\* What Skip adds.
LEMMA SkippedRow ==
    ASSUME IInv, Skip
    PROVE  LET r == Record(<<plan[next].model>>, Recorded(driver.absent, FALSE), Run)
           IN  r \in Rows /\ r.run = Run /\ r.metrics = Run /\ r.name = <<plan[next].model>>
               /\ records' = Append(records, r)
PROOF
  <1> DEFINE o == Recorded(driver.absent, FALSE)
             n == <<plan[next].model>>
  <1>1. plan[next].model \in ToSet(Models) /\ plan[next].model # None
    BY SkippedPlaces DEF IInv, Skip
  <1>2. next \in DOMAIN plan
    BY PlanPlaces DEF IInv, Skip, AtArm
  <1>3. driver.absent \in RowStatuses
    BY <1>1, <1>2, PlanArms DEF IInv, RowStatuses
  <1>4. o.status \in RowStatuses /\ o.value \in BOOLEAN
    BY <1>3 DEF Recorded
  <1>5. n \in ArmNames
    BY <1>1 DEF ArmNames
  <1>6. Run \in Runs
    BY PlanPlaces DEF IInv
  <1>7. records' = Append(records, Record(n, o, Run))
    BY DEF Skip
  <1> HIDE DEF n, o
  <1>8. /\ Record(n, o, Run) \in Rows /\ Record(n, o, Run).run = Run
        /\ Record(n, o, Run).metrics = Run /\ Record(n, o, Run).name = n
    BY <1>4, <1>5, <1>6, RecordRow
  <1> QED
    BY <1>7, <1>8 DEF n, o

\* What AppendRecord adds.
LEMMA AppendedRecord ==
    ASSUME IInv, AppendRecord
    PROVE  LET r == Record(plan[next].name, Outcome, Run)
           IN  r \in Rows /\ r.run = Run /\ r.metrics = Run /\ r.name = plan[next].name
               /\ records' = Append(records, r) /\ next \in DOMAIN plan
PROOF
  <1>1. pc \in {"returned", "logged"}
    BY DEF AppendRecord, Classified
  <1>2. next <= Len(plan) /\ results # <<>>
    BY <1>1 DEF IInv, PlaceInv, AtLaunched
  <1>3. next \in DOMAIN plan
    BY <1>2, PlanPlaces DEF IInv
  <1>4. plan[next].name \in ArmNames
    BY <1>3, PlanArms DEF IInv
  <1>5. Outcome.status \in RowStatuses /\ Outcome.value \in BOOLEAN
    BY <1>2, RecordedOutcomes DEF IInv, AppendRecord
  <1>6. Run \in Runs
    BY PlanPlaces DEF IInv
  <1>7. records' = Append(records, Record(plan[next].name, Outcome, Run))
    BY DEF AppendRecord
  <1> QED
    BY <1>3, <1>4, <1>5, <1>6, <1>7, RecordRow

\* The loop goes on behind an arm.
LEMMA NextPlace ==
    ASSUME IInv, next \in DOMAIN plan
    PROVE  next + 1 \in 1 .. Len(plan) + 1
PROOF
  BY PlanPlaces DEF IInv

\* What is written consists of rows.
LEMMA PayloadRows ==
    ASSUME IInv, Truncate
    PROVE  draft' \in Seq(Rows)
PROOF
  <1>1. draft' \in Payloads
    BY DEF Truncate
  <1>2. records \in Seq(Rows) /\ <<>> \in Seq(Rows)
    BY DEF IInv, TypeInv
  <1>3. CASE driver.keeps = "records"
    <2>1. draft' = records
      BY <1>1, <1>3 DEF Payloads
    <2> QED
      BY <1>2, <2>1
  <1>4. CASE driver.keeps = "merged"
    <2>1. draft' \in MergedLists
      BY <1>1, <1>4 DEF Payloads
    <2> QED
      BY <2>1, MergedFacts DEF IInv
  <1>5. CASE driver.keeps \notin {"records", "merged"}
    <2>1. draft' = <<>>
      BY <1>1, <1>5 DEF Payloads
    <2> QED
      BY <1>2, <2>1
  <1> QED
    BY <1>3, <1>4, <1>5

\* The files of the arms stay files of the arms.
LEMMA LogsStep ==
    ASSUME IInv, next \in DOMAIN plan, NEW y \in Runs \cup {Torn},
           logs' = With(logs, plan[next].log, y), driver' = driver
    PROVE  /\ logs' \in [DOMAIN logs' -> Runs \cup {Torn}]
           /\ DOMAIN logs' \subseteq {driver'.plan[i].log : i \in DOMAIN driver'.plan}
PROOF
  <1>1. plan[next].log \in {driver.plan[i].log : i \in DOMAIN driver.plan}
    BY PlanArms DEF IInv
  <1>2. /\ logs \in [DOMAIN logs -> Runs \cup {Torn}]
        /\ DOMAIN logs \subseteq {driver.plan[i].log : i \in DOMAIN driver.plan}
    BY DEF IInv, TypeInv
  <1> DEFINE R == Runs \cup {Torn}
             x == plan[next].log
  <1>3. logs' = With(logs, x, y) /\ logs \in [DOMAIN logs -> R] /\ y \in R
    BY <1>2
  <1> HIDE DEF R, x
  <1>4. DOMAIN logs' = DOMAIN logs \cup {x} /\ logs' \in [DOMAIN logs' -> R]
    <2>1. /\ DOMAIN With(logs, x, y) = DOMAIN logs \cup {x}
          /\ With(logs, x, y) \in [DOMAIN With(logs, x, y) -> R]
      BY <1>3, WithFacts, WithType
    <2> QED
      BY <1>3, <2>1
  <1> QED
    BY <1>1, <1>2, <1>4 DEF R, x

\* Types, step by step.
LEMMA TypeStep ==
    ASSUME IInv, [Next]_vars
    PROVE  TypeInv'
PROOF
  <1>1. driver' = driver /\ Rows' = Rows
    BY DriverFixed
  <1>2. /\ session \in 0 .. MaxSessions
        /\ plan \in Seq(ToSet(driver.plan)) /\ absent \subseteq ToSet(Models)
        /\ next \in 1 .. Len(plan) + 1
        /\ results \in Seq(Results)
        /\ records \in Seq(Rows) /\ draft \in Seq(Rows)
        /\ status \in Statuses \cup {None}
        /\ out \in [status : Statuses \cup {None, Torn}, records : Seq(Rows)]
        /\ logs \in [DOMAIN logs -> Runs \cup {Torn}]
        /\ DOMAIN logs \subseteq {driver.plan[i].log : i \in DOMAIN driver.plan}
        /\ pressed \in 0 .. MaxInterrupts /\ faults \in 0 .. MaxFaults
        /\ exit \in Statuses \cup {None, "error", "traceback"}
        /\ driver \in Scripts
    BY DEF IInv, TypeInv
  <1>3. /\ <<>> \in Seq(Rows) /\ <<>> \in Seq(Results)
        /\ [status |-> Torn, records |-> <<>>] \in
                [status : Statuses \cup {None, Torn}, records : Seq(Rows)]
    OBVIOUS
  <1>4. Len(plan) \in Nat /\ DOMAIN plan = 1 .. Len(plan) /\ Run \in Runs
    BY PlanPlaces DEF IInv
  <1>5. pc \in AtLaunched => next \in DOMAIN plan
    BY <1>2, <1>4 DEF IInv, PlaceInv
  <1>6. AtArm => next \in DOMAIN plan
    BY <1>2, <1>4 DEF AtArm
  <1>7. next \in DOMAIN plan => next + 1 \in 1 .. Len(plan) + 1
    BY NextPlace
  <1> USE DEF arms, memory, payload, files, counts
  <1>8. CASE StartSession
    <2>1. plan' \in Seq(ToSet(driver.plan))
      BY <1>8, DriverSound, SelectionFacts DEF IInv, StartSession
    <2>2. absent' \subseteq ToSet(Models)
      <3> SUFFICES ASSUME NEW m \in absent' PROVE m \in ToSet(Models)
        OBVIOUS
      <3>1. PICK i \in DOMAIN plan' : m = plan'[i].model /\ m # None
        BY <1>8 DEF StartSession
      <3>2. plan'[i] \in ToSet(driver.plan)
        <4> DEFINE S == ToSet(driver.plan)
        <4> HIDE DEF S
        <4>1. plan' \in Seq(S)
          BY <2>1 DEF S
        <4>2. plan'[i] \in S
          BY <4>1
        <4> QED
          BY <4>2 DEF S
      <3>3. PICK j \in DOMAIN driver.plan : plan'[i] = driver.plan[j]
        BY <3>2 DEF ToSet
      <3>4. driver.plan[j].model \in ToSet(Models) \cup {None}
        BY DriverSound DEF IInv, Sound
      <3> QED
        BY <3>1, <3>3, <3>4
    <2>3. session' \in 0 .. MaxSessions
      BY <1>2, <1>8, CampaignAssumption DEF StartSession
    <2>4. next' \in 1 .. Len(plan') + 1
      <3>1. Len(plan') \in Nat
        BY <2>1, LenProperties
      <3> QED
        BY <1>8, <3>1 DEF StartSession
    <2> QED
      BY <1>1, <1>2, <1>3, <1>8, <2>1, <2>2, <2>3, <2>4 DEF TypeInv, StartSession
  <1>9. CASE Skip
    <2>1. records' \in Seq(Rows)
      <3>1. PICK r \in Rows : records' = Append(records, r)
        BY <1>9, SkippedRow
      <3> QED
        BY <1>2, <3>1, AppendProperties
    <2>2. next' \in 1 .. Len(plan) + 1
      <3>1. next' = next + Cardinality(OfModel) /\ AtArm /\ Missing
        BY <1>9 DEF Skip, OfModel
      <3>2. next + Cardinality(OfModel) \in next + 1 .. Len(plan) + 1
        BY <3>1, SkippedPlaces DEF IInv
      <3>3. next' \in next + 1 .. Len(plan) + 1
        BY <3>1, <3>2
      <3> QED
        BY <1>2, <1>4, <3>3
    <2> QED
      BY <1>1, <1>2, <1>9, <2>1, <2>2 DEF TypeInv, Skip, AtArm
  <1>10. CASE Launch
    <2>1. /\ logs' \in [DOMAIN logs' -> Runs \cup {Torn}]
          /\ DOMAIN logs' \subseteq {driver'.plan[i].log : i \in DOMAIN driver'.plan}
      <3>1. CASE driver.log = "child"
        BY <1>1, <1>6, <1>10, <3>1, LogsStep DEF Launch
      <3>2. CASE driver.log # "child"
        BY <1>1, <1>2, <1>10, <3>2 DEF Launch
      <3> QED
        BY <3>1, <3>2
    <2> QED
      BY <1>1, <1>2, <1>10, <2>1 DEF TypeInv, Launch
  <1>11. CASE SweepFails
    BY <1>1, <1>2, <1>11 DEF TypeInv, SweepFails, Statuses
  <1>12. CASE SweepRaises
    BY <1>1, <1>2, <1>12 DEF TypeInv, SweepRaises, ExitWith
  <1>13. ASSUME NEW result \in Results, RunReturns(result)
         PROVE  TypeInv'
    <2>1. /\ logs' \in [DOMAIN logs' -> Runs \cup {Torn}]
          /\ DOMAIN logs' \subseteq {driver'.plan[i].log : i \in DOMAIN driver'.plan}
      <3>1. CASE driver.log = "child" /\ result.zero
        BY <1>1, <1>4, <1>5, <1>13, <3>1, LogsStep DEF RunReturns, AtLaunched
      <3>2. CASE ~(driver.log = "child" /\ result.zero)
        BY <1>1, <1>2, <1>13, <3>2 DEF RunReturns
      <3> QED
        BY <3>1, <3>2
    <2>2. results' \in Seq(Results)
      BY <1>2, <1>13, AppendProperties DEF RunReturns
    <2>3. faults' \in 0 .. MaxFaults
      BY <1>2, <1>13, CampaignAssumption DEF RunReturns
    <2> QED
      BY <1>1, <1>2, <1>13, <2>1, <2>2, <2>3 DEF TypeInv, RunReturns
  <1>14. CASE RunRaises
    BY <1>1, <1>2, <1>14 DEF TypeInv, RunRaises, ExitWith
  <1>15. CASE WriteLog
    <2>1. next \in DOMAIN plan
      BY <1>5, <1>15 DEF WriteLog, AtLaunched
    <2>2. /\ logs' \in [DOMAIN logs' -> Runs \cup {Torn}]
          /\ DOMAIN logs' \subseteq {driver'.plan[i].log : i \in DOMAIN driver'.plan}
      BY <1>1, <1>4, <1>15, <2>1, LogsStep DEF WriteLog
    <2>3. next' \in 1 .. Len(plan) + 1
      BY <1>2, <1>7, <1>15, <2>1 DEF WriteLog
    <2> QED
      BY <1>1, <1>2, <1>15, <2>2, <2>3 DEF TypeInv, WriteLog
  <1>16. CASE AppendRecord
    <2>1. records' \in Seq(Rows) /\ next \in DOMAIN plan
      <3>1. PICK r \in Rows : records' = Append(records, r)
        BY <1>16, AppendedRecord
      <3>2. next \in DOMAIN plan
        BY <1>16, AppendedRecord
      <3> QED
        BY <1>2, <3>1, <3>2, AppendProperties
    <2>2. next' \in 1 .. Len(plan) + 1
      BY <1>2, <1>7, <1>16, <2>1 DEF AppendRecord
    <2>3. pc' \in {"appended", "loop"}
      BY <1>16 DEF AppendRecord
    <2> QED
      BY <1>1, <1>2, <1>16, <2>1, <2>2, <2>3 DEF TypeInv, AppendRecord
  <1>17. CASE Stops
    BY <1>1, <1>2, <1>17 DEF TypeInv, Stops, ExitWith
  <1>18. CASE LoopEnds
    BY <1>1, <1>2, <1>18 DEF TypeInv, LoopEnds, Statuses
  <1>19. CASE FilesDone
    BY <1>1, <1>2, <1>19 DEF TypeInv, FilesDone, ExitWith, Statuses
  <1>20. CASE Truncate
    <2>1. draft' \in Seq(Rows)
      BY <1>20, PayloadRows
    <2> QED
      BY <1>1, <1>2, <1>3, <1>20, <2>1 DEF TypeInv, Truncate
  <1>21. CASE Fill
    <2>1. status \in Statuses
      BY <1>21 DEF IInv, PlaceInv, Fill, AtWriter
    <2> QED
      BY <1>1, <1>2, <1>3, <1>21, <2>1 DEF TypeInv, Fill, ExitWith
  <1>22. CASE Interrupt
    <2>1. /\ logs' \in [DOMAIN logs' -> Runs \cup {Torn}]
          /\ DOMAIN logs' \subseteq {driver'.plan[i].log : i \in DOMAIN driver'.plan}
      <3>1. CASE logs' = logs
        BY <1>1, <1>2, <3>1
      <3>2. CASE WritingLog /\ logs' = With(logs, plan[next].log, Torn)
        BY <1>1, <1>5, <3>2, LogsStep DEF WritingLog, AtLaunched
      <3> QED
        BY <1>22, <3>1, <3>2 DEF Interrupt
    <2>2. pressed' \in 0 .. MaxInterrupts
      BY <1>2, <1>22, CampaignAssumption DEF Interrupt
    <2>3. /\ pc' \in {"idle", "closing"} /\ status' \in Statuses \cup {None}
          /\ exit' \in Statuses \cup {None, "error", "traceback"}
      BY <1>2, <1>22 DEF Interrupt, ExitWith, Statuses
    <2> QED
      BY <1>1, <1>2, <1>22, <2>1, <2>2, <2>3 DEF TypeInv, Interrupt
  <1>23. CASE Reparse
    <2>1. draft' \in Seq(Rows)
      <3>1. /\ out.records \in Seq(Rows)
            /\ draft' = [i \in DOMAIN out.records |-> Reparsed(out.records[i])]
        BY <1>2, <1>23 DEF Reparse, ForEach
      <3>2. Len(out.records) \in Nat /\ DOMAIN out.records = 1 .. Len(out.records)
        BY <3>1, LenProperties
      <3>3. \A i \in 1 .. Len(out.records) : Reparsed(out.records[i]) \in Rows
        BY <3>1, ReparsedFacts DEF IInv
      <3>4. draft' \in [1 .. Len(out.records) -> Rows]
        BY <3>1, <3>2, <3>3
      <3> QED
        BY <3>2, <3>4
    <2> QED
      BY <1>1, <1>2, <1>3, <1>23, <2>1 DEF TypeInv, Reparse
  <1>24. CASE Rewritten
    <2>1. status \in Statuses
      BY <1>24 DEF IInv, PlaceInv, Rewritten
    <2> QED
      BY <1>1, <1>2, <1>3, <1>24, <2>1 DEF TypeInv, Rewritten
  <1>25. CASE UNCHANGED vars
    <2>1. /\ session' = session /\ pc' = pc /\ plan' = plan /\ absent' = absent /\ next' = next
          /\ results' = results /\ records' = records /\ draft' = draft /\ status' = status
          /\ out' = out /\ logs' = logs /\ pressed' = pressed /\ faults' = faults /\ exit' = exit
      BY <1>25 DEF vars
    <2> QED
      BY <1>1, <2>1 DEF IInv, TypeInv
  <1> QED
    BY <1>8, <1>9, <1>10, <1>11, <1>12, <1>13, <1>14, <1>15, <1>16, <1>17, <1>18, <1>19, <1>20,
       <1>21, <1>22, <1>23, <1>24, <1>25 DEF Next

------------------------------------------------------------------------------
(* Places. *)

\* The place in the loop, the status and the file agree after every step.
LEMMA PlaceStep ==
    ASSUME IInv, [Next]_vars
    PROVE  PlaceInv'
PROOF
  <1> DEFINE Ended == {"returned", "logged", "appended"}
  <1>1. driver' = driver
    BY DriverFixed
  <1>2. /\ pc # "idle" => session > 0
        /\ pc \in AtLaunched => next <= Len(plan)
        /\ pc \in Ended => results # <<>>
        /\ pc \in AtWriter \cup {"rewriting"} => status \in Statuses
        /\ pc \in AtWriter /\ status = "complete" => next > Len(plan)
        /\ pc \in AtWriter /\ status = "failed" => driver.sweep > 0 /\ next = driver.sweep + 1
        /\ pc \in {"truncated", "rewriting"} => out.status = Torn
        /\ out.status = Torn => out.records = <<>>
    BY DEF IInv, PlaceInv
  <1>3. Torn \notin Statuses
    BY CampaignAssumption DEF Statuses
  <1>4. session \in Nat /\ next \in Nat /\ Len(plan) \in Nat
    BY PlanPlaces DEF IInv
  <1> USE DEF arms, memory, payload, files, counts, AtLaunched, AtWriter
  <1>5. CASE StartSession
    <2>1. session' > 0
      BY <1>4, <1>5 DEF StartSession
    <2> QED
      BY <1>1, <1>2, <1>5, <2>1 DEF PlaceInv, StartSession
  <1>6. CASE Skip
    BY <1>1, <1>2, <1>6 DEF PlaceInv, Skip, AtArm
  <1>7. CASE Launch
    BY <1>1, <1>2, <1>7 DEF PlaceInv, Launch, AtArm
  <1>8. CASE SweepFails
    BY <1>1, <1>2, <1>8 DEF PlaceInv, SweepFails, AtArm, SweepDone, Statuses
  <1>9. CASE SweepRaises \/ RunRaises \/ Stops \/ FilesDone
    <2>1. pc' = "idle" /\ out' = out
      BY <1>9 DEF SweepRaises, RunRaises, Stops, FilesDone, ExitWith
    <2> QED
      BY <1>2, <2>1 DEF PlaceInv
  <1>10. ASSUME NEW result \in Results, RunReturns(result)
         PROVE  PlaceInv'
    <2>1. results' # <<>>
      <3>1. results \in Seq(Results)
        BY DEF IInv, TypeInv
      <3> QED
        BY <1>10, <3>1, AppendProperties DEF RunReturns
    <2> QED
      BY <1>1, <1>2, <1>10, <2>1 DEF PlaceInv, RunReturns
  <1>11. CASE WriteLog
    BY <1>1, <1>2, <1>11 DEF PlaceInv, WriteLog
  <1>12. CASE AppendRecord
    <2>1. pc \in {"returned", "logged"}
      BY <1>12 DEF AppendRecord, Classified
    <2> QED
      BY <1>1, <1>2, <1>12, <2>1 DEF PlaceInv, AppendRecord
  <1>13. CASE LoopEnds
    BY <1>1, <1>2, <1>13 DEF PlaceInv, LoopEnds, AtEnd, Statuses
  <1>14. CASE Truncate
    BY <1>1, <1>2, <1>14 DEF PlaceInv, Truncate
  <1>15. CASE Fill
    <2>1. status # Torn
      BY <1>2, <1>3, <1>15 DEF Fill
    <2> QED
      BY <1>1, <1>2, <1>15, <2>1 DEF PlaceInv, Fill, ExitWith
  <1>16. CASE Interrupt
    <2>1. /\ pc # "idle" /\ out' = out /\ plan' = plan /\ session' = session /\ next' = next
          /\ \/ pc' = "idle"
             \/ pc' = "closing" /\ status' = "interrupted"
      BY <1>16 DEF Interrupt, ExitWith
    <2> QED
      BY <1>1, <1>2, <2>1 DEF PlaceInv, Statuses
  <1>17. CASE Reparse
    BY <1>1, <1>2, <1>17 DEF PlaceInv, Reparse
  <1>18. CASE Rewritten
    <2>1. status # Torn
      BY <1>2, <1>3, <1>18 DEF Rewritten
    <2> QED
      BY <1>1, <1>2, <1>18, <2>1 DEF PlaceInv, Rewritten
  <1>19. CASE UNCHANGED vars
    BY <1>1, <1>2, <1>19 DEF PlaceInv, vars
  <1> QED
    BY <1>5, <1>6, <1>7, <1>8, <1>9, <1>10, <1>11, <1>12, <1>13, <1>14, <1>15, <1>16, <1>17,
       <1>18, <1>19 DEF Next

------------------------------------------------------------------------------
(* Rows of a session. *)

\* A row covers an arm when it has its name, or that of its model.
Covers(r) == {i \in DOMAIN plan : r.name = plan[i].name \/ r.name = <<plan[i].model>>}

\* What one more row covers.
LEMMA CoveredByMore ==
    ASSUME NEW rows \in Seq(Rows), NEW r \in Rows
    PROVE  CoveredBy(Append(rows, r)) = CoveredBy(rows) \cup Covers(r)
PROOF
  <1> DEFINE more == Append(rows, r)
  <1>1. /\ Len(rows) \in Nat
        /\ DOMAIN rows = 1 .. Len(rows) /\ DOMAIN more = 1 .. Len(rows) + 1
        /\ \A i \in DOMAIN rows : more[i] = rows[i]
        /\ more[Len(rows) + 1] = r
    BY AppendedRow
  <1> HIDE DEF more
  <1>2. ASSUME NEW arm
        PROVE  Named(more, arm) <=> Named(rows, arm) \/ r.name = arm.name \/ r.name = <<arm.model>>
    <2>1. \A i \in DOMAIN more : i \in DOMAIN rows \/ i = Len(rows) + 1
      BY <1>1
    <2>2. DOMAIN rows \subseteq DOMAIN more /\ Len(rows) + 1 \in DOMAIN more
      BY <1>1
    <2> QED
      BY <1>1, <2>1, <2>2 DEF Named
  <1>3. CoveredBy(more) = CoveredBy(rows) \cup Covers(r)
    BY <1>2 DEF CoveredBy, Covers
  <1> QED
    BY <1>3 DEF more

\* Where the loop is, no arm has a row yet.
LEMMA NoRowYet ==
    ASSUME IInv, Tabulates(driver), pc \in InLoop, pc # "appended", next \in DOMAIN plan
    PROVE  \A i \in DOMAIN records :
                records[i].name # plan[next].name /\ records[i].name # <<plan[next].model>>
PROOF
  <1>1. CoveredBy(records) = 1 .. next - 1
    BY DEF IInv, RecordsInv
  <1>2. next \notin 1 .. next - 1
    BY PlanPlaces DEF IInv
  <1>3. ~Named(records, plan[next])
    BY <1>1, <1>2 DEF CoveredBy
  <1> QED
    BY <1>3 DEF Named

\* A row for the arm where the loop is, or for the arms of its model.
LEMMA RowAdded ==
    ASSUME IInv, Tabulates(driver), pc \in InLoop, pc # "appended", next \in DOMAIN plan,
           NEW r \in Rows, r.run = Run, records' = Append(records, r),
           r.name \in {plan[next].name, <<plan[next].model>>},
           r.name = plan[next].name \/ ~driver.reparse,
           session' = session, plan' = plan, driver' = driver,
           next' \in Nat, next' >= next
    PROVE  OwnRows(records)' /\ OneRowEach(records)'
PROOF
  <1> DEFINE n == Len(records)
  <1>1. records \in Seq(Rows)
    BY DEF IInv, TypeInv
  <1>2. /\ n \in Nat /\ DOMAIN records = 1 .. n /\ DOMAIN records' = 1 .. n + 1
        /\ \A i \in 1 .. n : records'[i] = records[i]
        /\ records'[n + 1] = r
    BY <1>1, AppendedRow
  <1>3. OwnRows(records) /\ OneRowEach(records)
    BY DEF IInv, RecordsInv, TablesInv
  <1>4. \A i \in 1 .. n : records[i].run[2] < next
    BY <1>2 DEF IInv, RecordsInv
  <1>5. r.run[1] = session /\ r.run[2] = next /\ next \in Nat /\ next > 0
    BY PlanPlaces DEF Run, IInv
  <1> HIDE DEF n
  <1>6. \A i \in 1 .. n + 1 : i \in 1 .. n \/ i = n + 1
    BY <1>2
  <1>7. /\ \A i \in 1 .. n : /\ records[i].run[1] = session /\ records[i].run[2] \in 1 .. next
                             /\ driver.reparse => records[i].run[2] \in DOMAIN plan
                             /\ driver.reparse => records[i].name = plan[records[i].run[2]].name
        /\ \A i, j \in 1 .. n : i < j => records[i].run[2] < records[j].run[2]
    BY <1>2, <1>3 DEF OwnRows
  <1>8. \A i \in DOMAIN records' :
            records'[i].run[1] = session' /\ records'[i].run[2] \in 1 .. next'
    <2> TAKE i \in DOMAIN records'
    <2>1. CASE i \in 1 .. n
      BY <1>2, <1>5, <1>7, <2>1
    <2>2. CASE i = n + 1
      BY <1>2, <1>5, <2>2
    <2> QED
      BY <1>2, <1>6, <2>1, <2>2
  <1>9. \A i, j \in DOMAIN records' : i < j => records'[i].run[2] < records'[j].run[2]
    <2> SUFFICES ASSUME NEW i \in 1 .. n + 1, NEW j \in 1 .. n + 1, i < j
                 PROVE  records'[i].run[2] < records'[j].run[2]
      BY <1>2
    <2>1. i \in 1 .. n
      BY <1>2
    <2>2. CASE j \in 1 .. n
      BY <1>2, <1>7, <2>1, <2>2
    <2>3. CASE j = n + 1
      BY <1>2, <1>4, <1>5, <2>1, <2>3
    <2> QED
      BY <1>6, <2>2, <2>3
  <1>10. ASSUME driver'.reparse, NEW i \in DOMAIN records'
         PROVE  /\ records'[i].run[2] \in DOMAIN plan'
                /\ records'[i].name = plan'[records'[i].run[2]].name
    <2>1. CASE i \in 1 .. n
      BY <1>2, <1>7, <1>10, <2>1
    <2>2. CASE i = n + 1
      BY <1>2, <1>5, <1>10, <2>2
    <2> QED
      BY <1>2, <1>6, <2>1, <2>2
  <1>11. OneRowEach(records)'
    <2>1. \A i \in 1 .. n : records[i].name # r.name
      BY <1>2, NoRowYet
    <2>2. \A i, j \in 1 .. n : records[i].name = records[j].name => i = j
      BY <1>2, <1>3 DEF OneRowEach
    <2> SUFFICES ASSUME NEW i \in 1 .. n + 1, NEW j \in 1 .. n + 1,
                        records'[i].name = records'[j].name
                 PROVE  i = j
      BY <1>2 DEF OneRowEach
    <2> QED
      BY <1>2, <1>6, <2>1, <2>2
  <1> QED
    BY <1>8, <1>9, <1>10, <1>11 DEF OwnRows

\* The arms a record of AppendRecord, or of Skip, is for.
LEMMA CoversOne ==
    ASSUME WellNamed(plan), next \in DOMAIN plan, NEW r, r.name = plan[next].name
    PROVE  Covers(r) = {next}
PROOF
  BY DEF WellNamed, Covers

\* The row of a missing model covers all its arms, and nothing behind them.
LEMMA CoversModel ==
    ASSUME TypeInv, WellNamed(plan), AtArm, Missing,
           NEW r, r.name = <<plan[next].model>>
    PROVE  (1 .. next - 1) \cup Covers(r) = 1 .. (next + Cardinality(OfModel)) - 1
PROOF
  <1> DEFINE e == (next + Cardinality(OfModel)) - 1
  <1>0. next + Cardinality(OfModel) \in next + 1 .. Len(plan) + 1
    BY SkippedPlaces
  <1>1. OfModel = next .. e
    BY SkippedPlaces
  <1>2. Len(plan) \in Nat /\ DOMAIN plan = 1 .. Len(plan) /\ next \in 1 .. Len(plan)
    BY PlanPlaces DEF AtArm
  <1>3. e \in next .. Len(plan)
    <2> DEFINE c == next + Cardinality(OfModel)
    <2>1. c \in next + 1 .. Len(plan) + 1 /\ e = c - 1
      BY <1>0
    <2> HIDE DEF c, e
    <2> QED
      BY <1>2, <2>1
  <1> HIDE DEF e
  <1>4. next .. e \subseteq Covers(r)
    <2> SUFFICES ASSUME NEW i \in next .. e PROVE i \in Covers(r)
      OBVIOUS
    <2>1. i \in DOMAIN plan
      BY <1>2, <1>3
    <2>2. plan[i].model = plan[next].model
      BY <1>1 DEF OfModel
    <2> QED
      BY <2>1, <2>2 DEF Covers
  <1>5. Covers(r) \subseteq 1 .. e
    <2> SUFFICES ASSUME NEW i \in Covers(r) PROVE i \in 1 .. e
      OBVIOUS
    <2>1. i \in 1 .. Len(plan)
      BY <1>2 DEF Covers
    <2>2. i = next \/ plan[i].model = plan[next].model
      <3>1. <<plan[next].model>> = plan[i].name => i = next
        BY <1>2, <2>1 DEF WellNamed
      <3>2. <<plan[next].model>> = <<plan[i].model>> => plan[i].model = plan[next].model
        OBVIOUS
      <3> QED
        BY <3>1, <3>2 DEF Covers
    <2>3. CASE i \in next .. Len(plan)
      <3>1. i \in OfModel
        BY <1>2, <2>2, <2>3 DEF OfModel
      <3> QED
        BY <1>1, <1>2, <1>3, <3>1
    <2>4. CASE i \notin next .. Len(plan)
      BY <1>2, <1>3, <2>1, <2>4
    <2> QED
      BY <2>3, <2>4
  <1>6. (1 .. next - 1) \cup (next .. e) = 1 .. e
    BY <1>2, <1>3
  <1>7. (1 .. next - 1) \subseteq 1 .. e
    BY <1>2, <1>3
  <1>8. (1 .. next - 1) \cup Covers(r) = 1 .. e
    BY <1>4, <1>5, <1>6, <1>7
  <1> QED
    BY <1>8 DEF e

\* Scripts that keep files look for no models.
LEMMA ReparsesNoModel ==
    ASSUME IInv, driver.reparse \/ Files(driver), AtArm
    PROVE  ~Missing
PROOF
  <1>1. Files(driver)
    BY DriverSound DEF IInv, Sound
  <1>2. next \in DOMAIN plan
    BY PlanPlaces DEF IInv, AtArm
  <1>3. plan[next].model = None
    BY <1>1, <1>2 DEF IInv, PlanInv, WellLogged
  <1>4. None \notin absent
    BY ScriptLists DEF IInv, TypeInv
  <1> QED
    BY <1>3, <1>4 DEF Missing

\* One record for a missing model keeps the rows in order.
LEMMA SkipRecords ==
    ASSUME IInv, Skip, Tabulates(driver)
    PROVE  RecordsInv' /\ OneRowEach(records)'
PROOF
  <1> DEFINE r == Record(<<plan[next].model>>, Recorded(driver.absent, FALSE), Run)
  <1>1. AtArm /\ Missing /\ ~driver.reparse
    BY ReparsesNoModel DEF Skip
  <1>2. /\ r \in Rows /\ r.run = Run /\ r.metrics = Run /\ r.name = <<plan[next].model>>
        /\ records' = Append(records, r)
    BY SkippedRow
  <1>3. /\ pc = "loop" /\ pc' = pc /\ next' = next + Cardinality(OfModel)
        /\ driver' = driver /\ plan' = plan /\ session' = session
    BY <1>1 DEF Skip, arms, AtArm, OfModel
  <1>4. next + Cardinality(OfModel) \in next + 1 .. Len(plan) + 1
    BY <1>1, SkippedPlaces DEF IInv
  <1>5. WellNamed(plan)
    BY DEF IInv, PlanInv
  <1>6. (1 .. next - 1) \cup Covers(r) = 1 .. next' - 1
    <2>1. (1 .. next - 1) \cup Covers(r) = 1 .. (next + Cardinality(OfModel)) - 1
      BY <1>1, <1>2, <1>5, CoversModel DEF IInv
    <2> DEFINE c == next + Cardinality(OfModel)
    <2>2. next' = c
      BY <1>3
    <2>3. (1 .. next - 1) \cup Covers(r) = 1 .. c - 1
      BY <2>1
    <2> HIDE DEF r, c
    <2> QED
      BY <2>2, <2>3
  <1> HIDE DEF r
  <1>7. next \in DOMAIN plan /\ next \in Nat /\ Len(plan) \in Nat
    BY <1>1, PlanPlaces DEF IInv, AtArm
  <1>8. next' \in Nat /\ next' > next
    BY <1>3, <1>4, <1>7
  <1>9. OwnRows(records)' /\ OneRowEach(records)'
    <2>1. next' >= next
      BY <1>7, <1>8
    <2> QED
      BY <1>1, <1>2, <1>3, <1>7, <1>8, <2>1, RowAdded DEF InLoop
  <1>10. CoveredBy(records) = 1 .. next - 1 /\ records \in Seq(Rows)
    BY <1>3 DEF IInv, RecordsInv, InLoop, TypeInv
  <1>11. CoveredBy(records)' = 1 .. next' - 1
    <2>1. CoveredBy(records)' = CoveredBy(Append(records, r))
      BY <1>2, <1>3 DEF CoveredBy
    <2>2. CoveredBy(Append(records, r)) = CoveredBy(records) \cup Covers(r)
      BY <1>2, <1>10, CoveredByMore
    <2> QED
      BY <1>3, <1>6, <1>10, <2>1, <2>2
  <1>12. \A i \in DOMAIN records' :
            records'[i].metrics = records'[i].run /\ records'[i].run[2] < next'
    <2> DEFINE n == Len(records)
    <2>1. /\ n \in Nat /\ DOMAIN records = 1 .. n /\ DOMAIN records' = 1 .. n + 1
          /\ \A i \in 1 .. n : records'[i] = records[i]
          /\ records'[n + 1] = r
      BY <1>2, <1>10, AppendedRow
    <2>2. \A i \in 1 .. n : /\ records[i].metrics = records[i].run
                            /\ records[i].run[2] < next /\ records[i].run[2] \in 1 .. next
      BY <1>3, <2>1 DEF IInv, RecordsInv, InLoop, OwnRows
    <2>3. r.metrics = r.run /\ r.run[2] = next
      BY <1>2 DEF Run
    <2> HIDE DEF n
    <2> TAKE i \in DOMAIN records'
    <2>4. CASE i \in 1 .. n
      BY <1>7, <1>8, <2>1, <2>2, <2>4
    <2>5. CASE i = n + 1
      BY <1>8, <2>1, <2>3, <2>5
    <2> QED
      BY <2>1, <2>4, <2>5
  <1> QED
    BY <1>3, <1>9, <1>11, <1>12 DEF RecordsInv, InLoop, AtWriter

\* So does the record of a measurement.
LEMMA AppendRecords ==
    ASSUME IInv, AppendRecord, Tabulates(driver)
    PROVE  RecordsInv' /\ OneRowEach(records)'
PROOF
  <1> DEFINE r == Record(plan[next].name, Outcome, Run)
  <1>1. /\ r \in Rows /\ r.run = Run /\ r.metrics = Run /\ r.name = plan[next].name
        /\ records' = Append(records, r) /\ next \in DOMAIN plan
    BY AppendedRecord
  <1>2. /\ pc \in {"returned", "logged"}
        /\ driver' = driver /\ plan' = plan /\ session' = session
        /\ \/ pc' = "appended" /\ next' = next
           \/ pc' = "loop" /\ next' = next + 1
    BY DEF AppendRecord, Classified, arms
  <1> HIDE DEF r
  <1>3. WellNamed(plan)
    BY DEF IInv, PlanInv
  <1>4. next \in Nat
    BY PlanPlaces DEF IInv
  <1>5. next' \in Nat /\ next' >= next
    BY <1>2, <1>4
  <1>6. OwnRows(records)' /\ OneRowEach(records)'
    BY <1>1, <1>2, <1>5, RowAdded DEF InLoop
  <1>7. CoveredBy(records) = 1 .. next - 1 /\ records \in Seq(Rows)
    BY <1>2 DEF IInv, RecordsInv, InLoop, TypeInv
  <1>8. CoveredBy(records)' = 1 .. next
    <2>1. CoveredBy(records)' = CoveredBy(Append(records, r))
      BY <1>1, <1>2 DEF CoveredBy
    <2>2. CoveredBy(Append(records, r)) = CoveredBy(records) \cup Covers(r)
      BY <1>1, <1>7, CoveredByMore
    <2>3. Covers(r) = {next}
      BY <1>1, <1>3, CoversOne
    <2>4. (1 .. next - 1) \cup {next} = 1 .. next
      BY <1>4, PlanPlaces DEF IInv
    <2> QED
      BY <1>7, <2>1, <2>2, <2>3, <2>4
  <1>9. \A i \in DOMAIN records' :
            /\ records'[i].metrics = records'[i].run
            /\ pc' = "loop" => records'[i].run[2] < next'
    <2> DEFINE n == Len(records)
    <2>1. /\ n \in Nat /\ DOMAIN records = 1 .. n /\ DOMAIN records' = 1 .. n + 1
          /\ \A i \in 1 .. n : records'[i] = records[i]
          /\ records'[n + 1] = r
      BY <1>1, <1>7, AppendedRow
    <2>2. \A i \in 1 .. n : /\ records[i].metrics = records[i].run
                            /\ records[i].run[2] < next /\ records[i].run[2] \in 1 .. next
      BY <1>2, <2>1 DEF IInv, RecordsInv, InLoop, OwnRows
    <2>3. r.metrics = r.run /\ r.run[2] = next
      BY <1>1 DEF Run
    <2> HIDE DEF n
    <2> TAKE i \in DOMAIN records'
    <2>4. CASE i \in 1 .. n
      BY <1>2, <1>4, <2>1, <2>2, <2>4
    <2>5. CASE i = n + 1
      BY <1>2, <1>4, <2>1, <2>3, <2>5
    <2> QED
      BY <2>1, <2>4, <2>5
  <1>10. pc' = "loop" => 1 .. next' - 1 = 1 .. next
    BY <1>2, <1>4
  <1> QED
    BY <1>2, <1>6, <1>8, <1>9, <1>10 DEF RecordsInv, InLoop, AtWriter

\* Behind the loop every arm has its row, whatever the step.
LEMMA RecordsStep ==
    ASSUME IInv, [Next]_vars
    PROVE  RecordsInv'
PROOF
  <1> SUFFICES ASSUME Tabulates(driver) PROVE RecordsInv'
    BY DriverFixed DEF RecordsInv
  <1>1. driver' = driver
    BY DriverFixed
  <1>2. /\ OwnRows(records)
        /\ \A i \in DOMAIN records :
            /\ records[i].metrics = records[i].run
            /\ pc \in InLoop /\ pc # "appended" => records[i].run[2] < next
        /\ pc \in InLoop =>
            CoveredBy(records) = IF pc = "appended" THEN 1 .. next ELSE 1 .. next - 1
        /\ pc \in AtWriter =>
            /\ CoveredBy(records) \in {1 .. next - 1, 1 .. next}
            /\ status = "complete" => CoveredBy(records) = DOMAIN plan
            /\ status = "failed" => CoveredBy(records) = 1 .. driver.sweep
    BY DEF IInv, RecordsInv
  <1>3. Len(plan) \in Nat /\ DOMAIN plan = 1 .. Len(plan) /\ next \in 1 .. Len(plan) + 1
    BY PlanPlaces DEF IInv
  <1>4. ASSUME records' = records, plan' = plan, session' = session, next' \in Nat, next' >= next
        PROVE  OwnRows(records)' /\ CoveredBy(records)' = CoveredBy(records)
    <2>1. CoveredBy(records)' = CoveredBy(records)
      BY <1>4 DEF CoveredBy
    <2>2. \A i \in DOMAIN records :
            records[i].run[2] \in 1 .. next => records[i].run[2] \in 1 .. next'
      BY <1>3, <1>4
    <2>3. OwnRows(records)'
      BY <1>1, <1>2, <1>4, <2>2 DEF OwnRows
    <2> QED
      BY <2>1, <2>3
  <1>5. ASSUME records' = records, plan' = plan, session' = session, next' = next
        PROVE  OwnRows(records)' /\ CoveredBy(records)' = CoveredBy(records)
    <2>1. next' \in Nat /\ next' >= next
      BY <1>3, <1>5
    <2> QED
      BY <1>4, <1>5, <2>1
  <1> USE DEF arms, memory, payload, files, counts, AtWriter, InLoop
  <1>6. CASE StartSession
    <2>1. records' = <<>> /\ next' = 1 /\ pc' = "loop"
      BY <1>6 DEF StartSession
    <2>2. DOMAIN records' = {}
      BY <2>1
    <2>3. CoveredBy(records)' = {}
      BY <2>2 DEF CoveredBy, Named
    <2>4. 1 .. next' - 1 = {}
      BY <2>1
    <2> QED
      BY <2>1, <2>2, <2>3, <2>4 DEF RecordsInv, OwnRows
  <1>7. CASE Skip
    BY <1>7, SkipRecords
  <1>8. CASE AppendRecord
    BY <1>8, AppendRecords
  <1>9. CASE Launch \/ \E result \in Results : RunReturns(result)
    <2>1. /\ records' = records /\ plan' = plan /\ session' = session /\ next' = next
          /\ pc \in {"loop", "running"} /\ pc' \in {"running", "returned"}
      BY <1>9 DEF Launch, RunReturns, AtArm
    <2> QED
      BY <1>1, <1>2, <1>5, <2>1 DEF RecordsInv
  <1>10. CASE WriteLog
    <2>1. CASE pc = "returned" /\ pc' = "logged" /\ next' = next
      <3>1. records' = records /\ plan' = plan /\ session' = session
        BY <1>10 DEF WriteLog
      <3> QED
        BY <1>1, <1>2, <1>5, <2>1, <3>1 DEF RecordsInv
    <2>2. CASE pc = "appended" /\ pc' = "loop" /\ next' = next + 1
      <3>1. records' = records /\ plan' = plan /\ session' = session
        BY <1>10 DEF WriteLog
      <3>2. next' \in Nat /\ next' >= next /\ 1 .. next' - 1 = 1 .. next
        BY <1>3, <2>2
      <3>3. OwnRows(records)' /\ CoveredBy(records)' = 1 .. next
        BY <1>2, <1>4, <2>2, <3>1, <3>2
      <3>4. \A i \in DOMAIN records : records[i].run[2] < next'
        <4>1. \A i \in DOMAIN records : records[i].run[2] \in 1 .. next
          BY <1>2 DEF OwnRows
        <4> QED
          BY <1>3, <2>2, <4>1
      <3> QED
        BY <1>1, <1>2, <2>2, <3>1, <3>2, <3>3, <3>4 DEF RecordsInv
    <2> QED
      BY <1>10, <2>1, <2>2 DEF WriteLog
  <1>11. CASE SweepFails
    <2>1. /\ records' = records /\ plan' = plan /\ session' = session /\ next' = next
          /\ pc = "loop" /\ pc' = "closing" /\ status' = "failed"
          /\ next = driver.sweep + 1
      BY <1>11 DEF SweepFails, AtArm, SweepDone
    <2>2. driver.sweep \in Nat
      BY DriverSound DEF IInv, Sound
    <2>3. 1 .. next - 1 = 1 .. driver.sweep
      BY <2>1, <2>2
    <2> QED
      BY <1>1, <1>2, <1>5, <2>1, <2>3 DEF RecordsInv
  <1>12. CASE LoopEnds
    <2>1. /\ records' = records /\ plan' = plan /\ session' = session /\ next' = next
          /\ pc = "loop" /\ pc' = "closing" /\ status' = "complete"
          /\ next > Len(plan)
      BY <1>12 DEF LoopEnds, AtEnd
    <2>2. 1 .. next - 1 = DOMAIN plan
      BY <1>3, <2>1
    <2> QED
      BY <1>1, <1>2, <1>5, <2>1, <2>2 DEF RecordsInv
  <1>13. CASE Truncate
    <2>1. /\ records' = records /\ plan' = plan /\ session' = session /\ next' = next
          /\ pc = "closing" /\ pc' = "truncated" /\ status' = status
      BY <1>13 DEF Truncate
    <2> QED
      BY <1>1, <1>2, <1>5, <2>1 DEF RecordsInv
  <1>14. CASE Interrupt
    <2>1. /\ records' = records /\ plan' = plan /\ session' = session /\ next' = next
          /\ \/ pc' = "idle"
             \/ /\ pc \in InLoop \/ pc \in AtWriter
                /\ pc' = "closing" /\ status' = "interrupted"
      BY <1>14 DEF Interrupt, InTry, ExitWith
    <2> QED
      BY <1>1, <1>2, <1>5, <2>1 DEF RecordsInv
  <1>15. CASE SweepRaises \/ RunRaises \/ Stops \/ FilesDone \/ Fill \/ Reparse \/ Rewritten
    <2>1. /\ records' = records /\ plan' = plan /\ session' = session /\ next' = next
          /\ pc' \in {"idle", "rewriting"}
      BY <1>15 DEF SweepRaises, RunRaises, Stops, FilesDone, Fill, Reparse, Rewritten, ExitWith
    <2> QED
      BY <1>1, <1>2, <1>5, <2>1 DEF RecordsInv
  <1>16. CASE UNCHANGED vars
    <2>1. /\ records' = records /\ plan' = plan /\ session' = session /\ next' = next
          /\ pc' = pc /\ status' = status
      BY <1>16 DEF vars
    <2> QED
      BY <1>1, <1>2, <1>5, <2>1 DEF RecordsInv
  <1> QED
    BY <1>6, <1>7, <1>8, <1>9, <1>10, <1>11, <1>12, <1>13, <1>14, <1>15, <1>16 DEF Next

------------------------------------------------------------------------------
(* Tables. *)

\* No step makes two rows of one name.
LEMMA TablesStep ==
    ASSUME IInv, [Next]_vars
    PROVE  TablesInv'
PROOF
  <1> SUFFICES ASSUME Tabulates(driver) PROVE TablesInv'
    BY DriverFixed DEF TablesInv
  <1>1. driver' = driver
    BY DriverFixed
  <1>2. /\ OneRowEach(records) /\ OneRowEach(draft) /\ OneRowEach(out.records)
        /\ pc = "truncated" /\ driver.keeps = "records" => draft = records
    BY DEF IInv, TablesInv
  <1>3. OneRowEach(<<>>)
    BY DEF OneRowEach
  <1> USE DEF arms, memory, payload, files, counts
  <1>4. CASE StartSession
    BY <1>2, <1>4 DEF TablesInv, OneRowEach, StartSession
  <1>5. CASE Skip \/ AppendRecord
    <2>1. OneRowEach(records)'
      BY <1>5, SkipRecords, AppendRecords
    <2>2. draft' = draft /\ out' = out /\ pc' # "truncated"
      BY <1>5 DEF Skip, AppendRecord, AtArm
    <2>3. OneRowEach(draft)' /\ OneRowEach(out.records)'
      BY <1>2, <2>2 DEF OneRowEach
    <2> QED
      BY <2>1, <2>2, <2>3 DEF TablesInv
  <1>6. CASE Truncate
    <2>1. records' = records /\ out'.records = <<>> /\ draft' \in Payloads
      BY <1>6 DEF Truncate
    <2>2. OneRowEach(draft') /\ (driver.keeps = "records" => draft' = records)
      <3>1. CASE driver.keeps = "records"
        <4>1. draft' = records
          BY <2>1, <3>1 DEF Payloads
        <4> QED
          BY <1>2, <4>1
      <3>2. CASE driver.keeps # "records"
        <4>1. driver.keeps = "merged"
          BY <3>2 DEF Tabulates
        <4>2. draft' \in MergedLists
          BY <2>1, <4>1 DEF Payloads
        <4>3. WellNamed(driver.plan)
          BY DriverSound DEF IInv, Sound
        <4> QED
          BY <3>2, <4>2, <4>3, MergedFacts DEF IInv
      <3> QED
        BY <3>1, <3>2
    <2> QED
      BY <1>1, <1>2, <2>1, <2>2 DEF TablesInv, OneRowEach
  <1>7. CASE Fill \/ Rewritten
    <2>1. records' = records /\ out'.records = draft /\ draft' = <<>> /\ pc' = "idle"
      BY <1>7 DEF Fill, Rewritten, ExitWith
    <2> QED
      BY <1>2, <2>1 DEF TablesInv, OneRowEach
  <1>8. CASE Reparse
    <2>1. records' = records /\ out'.records = <<>> /\ pc' = "rewriting"
          /\ draft' = [i \in DOMAIN out.records |-> Reparsed(out.records[i])]
      BY <1>8 DEF Reparse, ForEach
    <2>2. \A i \in DOMAIN out.records : out.records[i] \in Rows
      <3>1. out.records \in Seq(Rows)
        BY DEF IInv, TypeInv
      <3> QED
        BY <3>1
    <2>3. \A i \in DOMAIN out.records : draft'[i].name = out.records[i].name
      BY <2>1, <2>2, ReparsedFacts DEF IInv
    <2>4. DOMAIN draft' = DOMAIN out.records
      BY <2>1
    <2>5. OneRowEach(draft')
      BY <1>2, <2>3, <2>4 DEF OneRowEach
    <2>6. OneRowEach(records)' /\ OneRowEach(out.records)' /\ pc' # "truncated"
      <3>1. records' = records /\ out'.records = <<>> /\ pc' = "rewriting"
        BY <2>1
      <3> QED
        BY <1>2, <3>1 DEF OneRowEach
    <2> QED
      BY <2>5, <2>6 DEF TablesInv, OneRowEach
  <1>9. CASE \/ Launch \/ SweepFails \/ SweepRaises \/ (\E result \in Results : RunReturns(result))
             \/ RunRaises \/ WriteLog \/ Stops \/ LoopEnds \/ FilesDone \/ Interrupt
             \/ UNCHANGED vars
    <2>1. records' = records /\ draft' = draft /\ out' = out
          /\ (pc' = "truncated" => pc = "truncated")
      BY <1>9 DEF Launch, SweepFails, SweepRaises, RunReturns, RunRaises, WriteLog, Stops,
           LoopEnds, FilesDone, Interrupt, ExitWith, vars
    <2> QED
      BY <1>1, <1>2, <2>1 DEF TablesInv, OneRowEach
  <1> QED
    BY <1>4, <1>5, <1>6, <1>7, <1>8, <1>9 DEF Next

------------------------------------------------------------------------------
(* What a session leaves. *)

\* A reparse takes the metrics of a row from the file of its run.
LEMMA ReparsedMetrics ==
    ASSUME IInv, driver.reparse, session > 0, OwnRows(out.records), OwnMetrics(out.records),
           NEW i \in DOMAIN out.records, Left(out.status, out.records), exit \in Statuses
    PROVE  \/ Reparsed(out.records[i]).metrics = out.records[i].run
           \/ exit = "interrupted" /\ i = Len(out.records) /\ out.records[i].run[2] = next
PROOF
  <1> DEFINE r == out.records[i]
             k == r.run[2]
  <1>1. out.records \in Seq(Rows) /\ r \in Rows
    <2>1. out.records \in Seq(Rows)
      BY DEF IInv, TypeInv
    <2> QED
      BY <2>1
  <1>2. Len(out.records) \in Nat /\ DOMAIN out.records = 1 .. Len(out.records)
    BY <1>1, LenProperties
  <1>3. /\ r.run[1] = session /\ k \in 1 .. next /\ k \in DOMAIN plan
        /\ r.name = plan[k].name
        /\ \A j \in DOMAIN out.records : i < j => k < out.records[j].run[2]
        /\ \A j \in DOMAIN out.records : out.records[j].run[2] \in 1 .. next
    BY DEF OwnRows
  <1>4. r.run = <<session, k>>
    <2>1. r.run \in Nat \X Nat
      BY <1>1 DEF Rows, Runs
    <2> QED
      BY <1>3, <2>1
  <1>5. /\ driver.keeps = "records" /\ Files(driver) /\ ~driver.only
        /\ Tabulates(driver)
    BY DriverSound DEF IInv, Sound, Tabulates
  <1>6. plan = driver.plan /\ WellNamed(plan)
    BY <1>5 DEF IInv, PlanInv
  <1>7. next \in Nat /\ Len(plan) \in Nat /\ DOMAIN plan = 1 .. Len(plan)
    BY PlanPlaces DEF IInv
  <1> HIDE DEF k, r
  <1>8. CASE k = next
    <2>1. i = Len(out.records)
      <3>1. \A j \in DOMAIN out.records : ~(i < j)
        BY <1>3, <1>7, <1>8
      <3>2. Len(out.records) \in DOMAIN out.records /\ i \in 1 .. Len(out.records)
        BY <1>2
      <3>3. ~(i < Len(out.records))
        BY <3>1, <3>2
      <3> QED
        BY <1>2, <3>2, <3>3
    <2>2. exit = "interrupted"
      <3>1. exit # "complete"
        BY <1>3, <1>7, <1>8 DEF Left
      <3>2. exit # "failed"
        BY DEF Left
      <3> QED
        BY <3>1, <3>2 DEF Statuses
    <2> QED
      BY <1>8, <2>1, <2>2 DEF k, r
  <1>9. CASE k # next
    <2>1. k \in 1 .. next - 1
      BY <1>3, <1>7, <1>9
    <2>2. Filed(k)
      BY <1>5, <2>1 DEF IInv, FilesInv
    <2>3. (CHOOSE j \in DOMAIN driver.plan : driver.plan[j].name = r.name) = k
      BY <1>3, <1>6 DEF WellNamed
    <2>4. Reparsed(r) = IF plan[k].log \in DOMAIN logs
                        THEN [r EXCEPT !.metrics = logs[plan[k].log]] ELSE r
      <3> DEFINE place == CHOOSE j \in DOMAIN driver.plan : driver.plan[j].name = r.name
                 log == driver.plan[place].log
      <3>1. Reparsed(r) = IF log \in DOMAIN logs THEN [r EXCEPT !.metrics = logs[log]] ELSE r
        BY DEF Reparsed
      <3>2. place = k
        BY <2>3
      <3> HIDE DEF place
      <3>3. log = plan[k].log
        BY <1>6, <3>2
      <3> HIDE DEF log
      <3> QED
        BY <3>1, <3>3
    <2>5. Reparsed(r) = [r EXCEPT !.metrics = <<session, k>>]
      BY <2>2, <2>4 DEF Filed
    <2>6. Reparsed(r).metrics = r.run
      BY <1>1, <1>4, <2>5 DEF Rows
    <2> QED
      BY <2>6 DEF r
  <1> QED
    BY <1>8, <1>9

\* What a session leaves is what it measured, and a reparse does not change that.
LEMMA LeftStep ==
    ASSUME IInv, [Next]_vars
    PROVE  LeftInv'
PROOF
  <1>1. driver' = driver
    BY DriverFixed
  <1> SUFFICES ASSUME exit' \in Statuses, driver.keeps = "records"
               PROVE  /\ pc' = "idle" => Left(out.status, out.records)'
                      /\ pc' = "rewriting" => Left(status, draft)'
                      /\ driver.reparse /\ pc' = "idle" => OwnMetrics(out.records)'
                      /\ driver.reparse /\ pc' = "rewriting" => OwnMetrics(draft)'
    BY <1>1 DEF LeftInv
  <1>2. None \notin Statuses /\ "traceback" \notin Statuses /\ "error" \notin Statuses
    BY CampaignAssumption DEF Statuses
  <1> USE DEF arms, memory, payload, files, counts
  <1>3. CASE StartSession \/ SweepRaises \/ RunRaises \/ Stops \/ FilesDone
    BY <1>2, <1>3 DEF StartSession, SweepRaises, RunRaises, Stops, FilesDone, ExitWith
  <1>4. CASE Interrupt
    <2>1. pc' = "closing"
      BY <1>2, <1>4 DEF Interrupt, ExitWith
    <2> QED
      BY <2>1
  <1>5. CASE \/ Skip \/ Launch \/ (\E result \in Results : RunReturns(result)) \/ WriteLog
             \/ AppendRecord \/ SweepFails \/ LoopEnds \/ Truncate
    <2>1. pc' \notin {"idle", "rewriting"}
      BY <1>5 DEF Skip, Launch, RunReturns, WriteLog, AppendRecord, SweepFails, LoopEnds,
           Truncate, AtArm
    <2> QED
      BY <2>1
  <1>6. CASE Fill
    <2>1. /\ pc = "truncated" /\ pc' = "idle" /\ exit' = status
          /\ out' = [status |-> status, records |-> draft]
          /\ session' = session /\ plan' = plan /\ next' = next
      BY <1>6 DEF Fill, ExitWith
    <2>2. Tabulates(driver)
      BY DEF Tabulates
    <2>3. draft = records
      BY <2>1, <2>2 DEF IInv, TablesInv
    <2>4. out'.status = exit' /\ out'.records = records /\ exit' = status
      BY <2>1, <2>3
    <2>5. OwnRows(records) /\ \A i \in DOMAIN records : records[i].metrics = records[i].run
      BY <2>2 DEF IInv, RecordsInv
    <2>6. /\ CoveredBy(records) \in {1 .. next - 1, 1 .. next}
          /\ status = "complete" => CoveredBy(records) = DOMAIN plan /\ next > Len(plan)
          /\ status = "failed" => CoveredBy(records) = 1 .. driver.sweep /\ driver.sweep > 0
      BY <2>1, <2>2 DEF IInv, RecordsInv, PlaceInv, AtWriter
    <2>7. status = "failed" => ~driver.reparse
      <3>1. driver.reparse => driver.sweep = 0
        BY DriverSound DEF IInv, Sound
      <3> QED
        BY <2>6, <3>1
    <2>8. OwnRows(out.records)' /\ CoveredBy(out.records)' = CoveredBy(records)
      <3>1. OwnRows(out.records)'
        BY <1>1, <2>1, <2>4, <2>5 DEF OwnRows
      <3>2. CoveredBy(out.records)' = CoveredBy(records)
        BY <2>1, <2>4 DEF CoveredBy
      <3> QED
        BY <3>1, <3>2
    <2>9. Left(out.status, out.records)'
      BY <1>1, <2>1, <2>4, <2>6, <2>7, <2>8 DEF Left
    <2>10. OwnMetrics(out.records)'
      BY <2>4, <2>5 DEF OwnMetrics
    <2> QED
      BY <2>1, <2>9, <2>10
  <1>7. CASE Rewritten
    <2>1. /\ pc = "rewriting" /\ pc' = "idle" /\ exit' = exit
          /\ out'.status = status /\ out'.records = draft
          /\ session' = session /\ plan' = plan /\ next' = next
      BY <1>7 DEF Rewritten
    <2>2. Left(status, draft) /\ (driver.reparse => OwnMetrics(draft))
      BY <2>1 DEF IInv, LeftInv
    <2>3. OwnRows(out.records)' /\ CoveredBy(out.records)' = CoveredBy(draft)
      <3>1. OwnRows(out.records)'
        BY <1>1, <2>1, <2>2 DEF OwnRows, Left
      <3>2. CoveredBy(out.records)' = CoveredBy(draft)
        BY <2>1 DEF CoveredBy
      <3> QED
        BY <3>1, <3>2
    <2>4. Left(out.status, out.records)'
      BY <1>1, <2>1, <2>2, <2>3 DEF Left
    <2>5. driver.reparse => OwnMetrics(out.records)'
      BY <2>1, <2>2 DEF OwnMetrics
    <2> QED
      BY <2>1, <2>4, <2>5
  <1>8. CASE Reparse
    <2>1. /\ pc = "idle" /\ pc' = "rewriting" /\ exit' = exit /\ status' = out.status
          /\ driver.reparse /\ session > 0
          /\ session' = session /\ plan' = plan /\ next' = next
      BY <1>8 DEF Reparse
    <2>2. draft' = [i \in DOMAIN out.records |-> Reparsed(out.records[i])]
      BY <1>8 DEF Reparse, ForEach
    <2>3. Left(out.status, out.records) /\ OwnMetrics(out.records) /\ OwnRows(out.records)
      BY <2>1 DEF IInv, LeftInv, Left
    <2>4. \A i \in DOMAIN out.records : out.records[i] \in Rows
      <3>1. out.records \in Seq(Rows)
        BY DEF IInv, TypeInv
      <3> QED
        BY <3>1
    <2>5. DOMAIN draft' = DOMAIN out.records /\ Len(draft') = Len(out.records)
      <3>1. out.records \in Seq(Rows)
        BY DEF IInv, TypeInv
      <3>2. Len(out.records) \in Nat /\ DOMAIN out.records = 1 .. Len(out.records)
        BY <3>1, LenProperties
      <3> QED
        BY <2>2, <3>2
    <2>6. \A i \in DOMAIN out.records :
                draft'[i].name = out.records[i].name /\ draft'[i].run = out.records[i].run
      BY <2>2, <2>4, ReparsedFacts DEF IInv
    <2>7. \A i \in DOMAIN out.records :
                \/ draft'[i].metrics = out.records[i].run
                \/ exit = "interrupted" /\ i = Len(out.records) /\ out.records[i].run[2] = next
      <3> TAKE i \in DOMAIN out.records
      <3>1. draft'[i] = Reparsed(out.records[i])
        BY <2>2
      <3>2. exit \in Statuses
        BY <2>1
      <3> QED
        BY <2>1, <2>3, <3>1, <3>2, ReparsedMetrics
    <2>8. OwnRows(draft)'
      BY <1>1, <2>1, <2>3, <2>5, <2>6 DEF OwnRows
    <2>9. CoveredBy(draft)' = CoveredBy(out.records)
      <3>1. \A arm : Named(draft', arm) <=> Named(out.records, arm)
        BY <2>5, <2>6 DEF Named
      <3> QED
        BY <2>1, <3>1 DEF CoveredBy
    <2>10. Left(status, draft)'
      BY <1>1, <2>1, <2>3, <2>8, <2>9 DEF Left
    <2>11. OwnMetrics(draft)'
      BY <2>1, <2>5, <2>6, <2>7 DEF OwnMetrics
    <2> QED
      BY <2>1, <2>10, <2>11
  <1>9. CASE UNCHANGED vars
    <2>1. /\ pc' = pc /\ exit' = exit /\ status' = status /\ out' = out /\ draft' = draft
          /\ session' = session /\ plan' = plan /\ next' = next
      BY <1>9 DEF vars
    <2>2. /\ pc = "idle" => Left(out.status, out.records)
          /\ pc = "rewriting" => Left(status, draft)
          /\ driver.reparse /\ pc = "idle" => OwnMetrics(out.records)
          /\ driver.reparse /\ pc = "rewriting" => OwnMetrics(draft)
      BY <2>1 DEF IInv, LeftInv
    <2> QED
      BY <1>1, <2>1, <2>2 DEF Left, OwnRows, CoveredBy, OwnMetrics
  <1> QED
    BY <1>3, <1>4, <1>5, <1>6, <1>7, <1>8, <1>9 DEF Next

------------------------------------------------------------------------------
(* Files of the arms. *)

\* Writing the file of the arm where the loop is leaves those of the others.
LEMMA FiledElsewhere ==
    ASSUME IInv, Files(driver), next \in DOMAIN plan, NEW y,
           logs' = With(logs, plan[next].log, y), plan' = plan, session' = session,
           NEW i \in DOMAIN plan, i # next, Filed(i)
    PROVE  plan'[i].log \in DOMAIN logs' /\ logs'[plan'[i].log] = <<session', i>>
PROOF
  <1>1. plan[i].log # plan[next].log
    BY DEF IInv, PlanInv, WellLogged
  <1> DEFINE x == plan[next].log
  <1> HIDE DEF x
  <1>2. logs' = With(logs, x, y) /\ plan[i].log # x
    BY <1>1 DEF x
  <1>3. /\ DOMAIN With(logs, x, y) = DOMAIN logs \cup {x}
        /\ \A z \in DOMAIN logs : z # x => With(logs, x, y)[z] = logs[z]
    BY DEF With
  <1> QED
    BY <1>2, <1>3 DEF Filed

\* It is then that of this run.
LEMMA FiledHere ==
    ASSUME logs' = With(logs, plan[next].log, Run), plan' = plan, session' = session
    PROVE  plan'[next].log \in DOMAIN logs' /\ logs'[plan'[next].log] = <<session', next>>
PROOF
  <1> DEFINE x == plan[next].log
             run == <<session, next>>
  <1>1. logs' = With(logs, x, run) /\ plan'[next].log = x /\ <<session', next>> = run
    BY DEF Run
  <1> HIDE DEF x, run
  <1>2. DOMAIN With(logs, x, run) = DOMAIN logs \cup {x} /\ With(logs, x, run)[x] = run
    BY DEF With
  <1> QED
    BY <1>1, <1>2

\* The files of the arms behind the loop stay when that of another is written.
LEMMA FilesBehind ==
    ASSUME IInv, Files(driver), next \in DOMAIN plan, plan' = plan, session' = session,
           \/ results' = results
           \/ Len(results) = next - 1 /\ \E x \in Results : results' = Append(results, x),
           \/ logs' = logs
           \/ \E y : logs' = With(logs, plan[next].log, y)
    PROVE  /\ \A i \in DOMAIN results' : i < next /\ results'[i].zero =>
                    plan'[i].log \in DOMAIN logs' /\ logs'[plan'[i].log] = <<session', i>>
           /\ driver.reparse => \A i \in 1 .. next - 1 :
                    plan'[i].log \in DOMAIN logs' /\ logs'[plan'[i].log] = <<session', i>>
PROOF
  <1> DEFINE Kept(i) == plan'[i].log \in DOMAIN logs' /\ logs'[plan'[i].log] = <<session', i>>
  <1>1. ASSUME NEW i \in DOMAIN plan, i # next, Filed(i)
        PROVE  Kept(i)
    <2>1. CASE logs' = logs
      BY <1>1, <2>1 DEF Filed
    <2>2. ASSUME NEW y, logs' = With(logs, plan[next].log, y)
          PROVE  Kept(i)
      BY <1>1, <2>2, FiledElsewhere
    <2> QED
      BY <2>1, <2>2
  <1>2. /\ Len(plan) \in Nat /\ DOMAIN plan = 1 .. Len(plan) /\ next \in 1 .. Len(plan) + 1
        /\ next \in 1 .. Len(plan)
    BY PlanPlaces DEF IInv
  <1>3. /\ \A i \in DOMAIN results : i < next /\ results[i].zero => Filed(i)
        /\ driver.reparse => \A i \in 1 .. next - 1 : Filed(i)
        /\ Len(results) <= next
    BY DEF IInv, FilesInv
  <1>4. results \in Seq(Results) /\ Len(results) \in Nat /\ DOMAIN results = 1 .. Len(results)
    BY LenProperties DEF IInv, TypeInv
  <1>5. ASSUME NEW i \in DOMAIN results', i < next,
               i \in DOMAIN results, results'[i] = results[i], results'[i].zero
        PROVE  Kept(i)
    <2>1. Filed(i)
      BY <1>3, <1>5
    <2>2. i \in DOMAIN plan /\ i # next
      BY <1>2, <1>4, <1>5
    <2> QED
      BY <1>1, <2>1, <2>2
  <1> HIDE DEF Kept
  <1>6. \A i \in DOMAIN results' : i < next /\ results'[i].zero => Kept(i)
    <2>1. CASE results' = results
      BY <1>5, <2>1
    <2>2. ASSUME NEW x \in Results, results' = Append(results, x), Len(results) = next - 1
          PROVE  \A i \in DOMAIN results' : i < next /\ results'[i].zero => Kept(i)
      <3>1. /\ DOMAIN results' = 1 .. Len(results')
            /\ Len(results') = Len(results) + 1 /\ Len(results') \in Nat
            /\ \A i \in 1 .. Len(results) : results'[i] = results[i]
        BY <1>4, <2>2, AppendProperties, LenProperties
      <3>2. \A i \in DOMAIN results' : i < next => i \in 1 .. Len(results)
        BY <1>2, <1>4, <2>2, <3>1
      <3>3. \A i \in DOMAIN results' :
                i < next => i \in DOMAIN results /\ results'[i] = results[i]
        BY <1>4, <3>1, <3>2
      <3> QED
        BY <1>5, <3>3
    <2> QED
      BY <2>1, <2>2
  <1>7. driver.reparse => \A i \in 1 .. next - 1 : Kept(i)
    <2>1. \A i \in 1 .. next - 1 : i \in DOMAIN plan /\ i # next
      BY <1>2
    <2> QED
      BY <1>1, <1>3, <2>1
  <1> QED
    BY <1>6, <1>7 DEF Kept

\* A step leaves the files of the arms behind the loop alone.
LEMMA FilesStep ==
    ASSUME IInv, [Next]_vars
    PROVE  FilesInv'
PROOF
  <1>1. driver' = driver
    BY DriverFixed
  <1> SUFFICES ASSUME Files(driver) PROVE FilesInv'
    BY <1>1 DEF FilesInv
  <1>2. /\ pc \in {"loop", "running"} => Len(results) = next - 1
        /\ pc \in {"returned", "logged", "appended"} => Len(results) = next
        /\ Len(results) <= next
        /\ \A i \in DOMAIN results : i < next /\ results[i].zero => Filed(i)
        /\ pc = "returned" /\ driver.log = "child" /\ results[next].zero => Filed(next)
        /\ pc = "logged" => Filed(next)
        /\ driver.reparse => \A i \in 1 .. next - 1 : Filed(i)
    BY DEF IInv, FilesInv
  <1>3. /\ Len(plan) \in Nat /\ DOMAIN plan = 1 .. Len(plan) /\ next \in 1 .. Len(plan) + 1
        /\ next \in Nat
    BY PlanPlaces DEF IInv
  <1>4. /\ AtArm => next \in DOMAIN plan
        /\ pc \in AtLaunched => next \in DOMAIN plan
    BY <1>3 DEF AtArm, IInv, PlaceInv
  <1>5. results \in Seq(Results) /\ Len(results) \in Nat /\ DOMAIN results = 1 .. Len(results)
    BY LenProperties DEF IInv, TypeInv
  <1>6. driver.log \in {"child", "before", "after"} /\ (driver.reparse => driver.log = "after")
    BY DriverSound DEF IInv, Sound, Files
  <1>7. ASSUME plan' = plan, session' = session, logs' = logs, NEW i, Filed(i)
        PROVE  plan'[i].log \in DOMAIN logs' /\ logs'[plan'[i].log] = <<session', i>>
    BY <1>7 DEF Filed
  <1> USE DEF arms, memory, payload, files, counts, AtLaunched
  <1>8. CASE StartSession
    <2>1. next' = 1 /\ results' = <<>> /\ pc' = "loop"
      BY <1>8 DEF StartSession
    <2>2. 1 .. next' - 1 = {} /\ DOMAIN results' = {} /\ Len(results') = next' - 1
      BY <2>1
    <2>3. Len(results') <= next'
      BY <2>1
    <2> QED
      BY <2>1, <2>2, <2>3 DEF FilesInv
  <1>9. CASE Skip
    BY <1>9, ReparsesNoModel DEF Skip
  <1>10. CASE Launch
    <2>1. /\ plan' = plan /\ session' = session /\ results' = results /\ next' = next
          /\ pc = "loop" /\ pc' = "running" /\ next \in DOMAIN plan
          /\ logs' = logs \/ \E y : logs' = With(logs, plan[next].log, y)
      BY <1>4, <1>10 DEF Launch, AtArm
    <2>2. /\ \A i \in DOMAIN results' : i < next /\ results'[i].zero =>
                    plan'[i].log \in DOMAIN logs' /\ logs'[plan'[i].log] = <<session', i>>
          /\ driver.reparse => \A i \in 1 .. next - 1 :
                    plan'[i].log \in DOMAIN logs' /\ logs'[plan'[i].log] = <<session', i>>
      BY <2>1, FilesBehind
    <2> QED
      BY <1>1, <1>2, <2>1, <2>2 DEF FilesInv, Filed
  <1>11. ASSUME NEW result \in Results, RunReturns(result)
         PROVE  FilesInv'
    <2>1. /\ plan' = plan /\ session' = session /\ next' = next
          /\ results' = Append(results, result) /\ Len(results) = next - 1
          /\ pc = "running" /\ pc' = "returned" /\ next \in DOMAIN plan
          /\ logs' = logs \/ \E y : logs' = With(logs, plan[next].log, y)
      BY <1>2, <1>4, <1>11 DEF RunReturns
    <2>2. /\ \A i \in DOMAIN results' : i < next /\ results'[i].zero =>
                    plan'[i].log \in DOMAIN logs' /\ logs'[plan'[i].log] = <<session', i>>
          /\ driver.reparse => \A i \in 1 .. next - 1 :
                    plan'[i].log \in DOMAIN logs' /\ logs'[plan'[i].log] = <<session', i>>
      BY <2>1, FilesBehind
    <2>3. Len(results') = next /\ results'[next] = result
      <3>1. Len(results') = Len(results) + 1 /\ results'[Len(results) + 1] = result
        BY <1>5, <2>1, AppendProperties
      <3>2. Len(results) + 1 = next
        BY <1>3, <2>1
      <3> QED
        BY <3>1, <3>2
    <2>4. driver.log = "child" /\ result.zero =>
                plan'[next].log \in DOMAIN logs' /\ logs'[plan'[next].log] = <<session', next>>
      <3> SUFFICES ASSUME driver.log = "child", result.zero
                   PROVE  /\ plan'[next].log \in DOMAIN logs'
                          /\ logs'[plan'[next].log] = <<session', next>>
        OBVIOUS
      <3>1. logs' = With(logs, plan[next].log, Run)
        BY <1>11 DEF RunReturns
      <3> QED
        BY <2>1, <3>1, FiledHere
    <2>5. Len(results') <= next
      BY <1>3, <2>3
    <2> QED
      BY <1>1, <2>1, <2>2, <2>3, <2>4, <2>5 DEF FilesInv, Filed
  <1>12. CASE WriteLog
    <2>1. /\ plan' = plan /\ session' = session /\ results' = results
          /\ logs' = With(logs, plan[next].log, Run) /\ next \in DOMAIN plan
          /\ \/ pc = "returned" /\ pc' = "logged" /\ next' = next
             \/ pc = "appended" /\ pc' = "loop" /\ next' = next + 1
      BY <1>4, <1>12 DEF WriteLog
    <2>2. /\ \A i \in DOMAIN results' : i < next /\ results'[i].zero =>
                    plan'[i].log \in DOMAIN logs' /\ logs'[plan'[i].log] = <<session', i>>
          /\ driver.reparse => \A i \in 1 .. next - 1 :
                    plan'[i].log \in DOMAIN logs' /\ logs'[plan'[i].log] = <<session', i>>
      BY <2>1, FilesBehind
    <2>3. plan'[next].log \in DOMAIN logs' /\ logs'[plan'[next].log] = <<session', next>>
      BY <2>1, FiledHere
    <2>4. CASE pc = "returned" /\ pc' = "logged" /\ next' = next
      BY <1>1, <1>2, <2>1, <2>2, <2>3, <2>4 DEF FilesInv, Filed
    <2>5. CASE pc = "appended" /\ pc' = "loop" /\ next' = next + 1
      <3>1. /\ Len(results') = next' - 1 /\ Len(results') <= next'
            /\ \A i \in DOMAIN results' : i < next' => i < next \/ i = next
            /\ \A i \in 1 .. next' - 1 : i \in 1 .. next - 1 \/ i = next
        BY <1>2, <1>3, <1>5, <2>1, <2>5
      <3> QED
        BY <1>1, <2>2, <2>3, <2>5, <3>1 DEF FilesInv, Filed
    <2> QED
      BY <2>1, <2>4, <2>5
  <1>13. CASE AppendRecord
    <2>1. /\ plan' = plan /\ session' = session /\ results' = results /\ logs' = logs
          /\ pc = IF driver.log = "before" THEN "logged" ELSE "returned"
          /\ IF driver.log = "after" THEN pc' = "appended" /\ next' = next
             ELSE pc' = "loop" /\ next' = next + 1
      BY <1>13 DEF AppendRecord, Classified
    <2>2. /\ \A i \in DOMAIN results : i < next /\ results[i].zero => Filed(i)'
          /\ \A i \in 1 .. next - 1 : driver.reparse => Filed(i)'
      BY <1>2, <2>1 DEF Filed
    <2>3. CASE driver.log = "after"
      BY <1>1, <1>2, <2>1, <2>2, <2>3 DEF FilesInv
    <2>4. CASE driver.log # "after"
      <3>1. results[next].zero => Filed(next)
        BY <1>2, <1>6, <2>1, <2>4
      <3>2. results[next].zero =>
                plan'[next].log \in DOMAIN logs' /\ logs'[plan'[next].log] = <<session', next>>
        BY <2>1, <3>1 DEF Filed
      <3>3. /\ Len(results') = next' - 1 /\ Len(results') <= next'
            /\ \A i \in DOMAIN results' : i < next' => i < next \/ i = next
        BY <1>2, <1>3, <1>5, <2>1, <2>4
      <3> QED
        BY <1>1, <1>6, <2>1, <2>2, <2>4, <3>2, <3>3 DEF FilesInv, Filed
    <2> QED
      BY <2>3, <2>4
  <1>14. CASE Interrupt
    <2>1. /\ plan' = plan /\ session' = session /\ results' = results /\ next' = next
          /\ pc' \in {"idle", "closing"}
          /\ logs' = logs \/ (next \in DOMAIN plan /\ \E y : logs' = With(logs, plan[next].log, y))
      <3>1. /\ plan' = plan /\ session' = session /\ results' = results /\ next' = next
            /\ pc' \in {"idle", "closing"}
            /\ logs' = logs \/ (WritingLog /\ logs' = With(logs, plan[next].log, Torn))
        <4>1. pc' \in {"idle", "closing"}
          BY <1>14 DEF Interrupt, ExitWith
        <4>2. logs' = logs \/ (WritingLog /\ logs' = With(logs, plan[next].log, Torn))
          BY <1>14 DEF Interrupt
        <4> QED
          BY <1>14, <4>1, <4>2 DEF Interrupt
      <3>2. WritingLog => next \in DOMAIN plan
        BY <1>4 DEF WritingLog
      <3> QED
        BY <3>1, <3>2
    <2>2. /\ \A i \in DOMAIN results' : i < next /\ results'[i].zero =>
                    plan'[i].log \in DOMAIN logs' /\ logs'[plan'[i].log] = <<session', i>>
          /\ driver.reparse => \A i \in 1 .. next - 1 :
                    plan'[i].log \in DOMAIN logs' /\ logs'[plan'[i].log] = <<session', i>>
      <3>1. CASE logs' = logs
        BY <1>2, <2>1, <3>1 DEF Filed
      <3>2. CASE logs' # logs
        BY <2>1, <3>2, FilesBehind
      <3> QED
        BY <3>1, <3>2
    <2> QED
      BY <1>1, <1>2, <2>1, <2>2 DEF FilesInv, Filed
  <1>15. CASE \/ SweepFails \/ SweepRaises \/ RunRaises \/ Stops \/ LoopEnds \/ FilesDone
              \/ Truncate \/ Fill \/ Reparse \/ Rewritten \/ UNCHANGED vars
    <2>1. /\ plan' = plan /\ session' = session /\ results' = results /\ next' = next
          /\ logs' = logs
          /\ pc' \in {"idle", "closing", "truncated", "rewriting"} \/ pc' = pc
      BY <1>15 DEF SweepFails, SweepRaises, RunRaises, Stops, LoopEnds, FilesDone, Truncate,
           Fill, Reparse, Rewritten, ExitWith, vars
    <2> QED
      BY <1>1, <1>2, <2>1 DEF FilesInv, Filed
  <1> QED
    BY <1>8, <1>9, <1>10, <1>11, <1>12, <1>13, <1>14, <1>15 DEF Next

------------------------------------------------------------------------------
(* The properties. *)

\* All parts together.
LEMMA InvStep == IInv /\ [Next]_vars => IInv'
PROOF
  BY TypeStep, PlanStep, PlaceStep, RecordsStep, TablesStep, LeftStep, FilesStep DEF IInv

\* The invariant holds of every behaviour.
LEMMA Invariance == Spec => []IInv
PROOF
  BY InitInv, InvStep, PTL DEF Spec

\* Every variable keeps its type, in whatever order sessions, interrupts, failures
\* and reparses come.
THEOREM Typed == Spec => []TypeOK
PROOF
  <1>1. IInv => TypeOK
    BY TypeInvTypeOK DEF IInv
  <1> QED
    BY <1>1, Invariance, PTL

\* No arm is dropped: a session that ends by itself leaves its file with its status
\* and the rows of its own runs, in the order of the plan (of the scripts that
\* replace their records, none of which has --only).
THEOREM RecordsAreKept == Spec => []NeverDropped
PROOF
  <1>1. IInv => NeverDropped
    <2> SUFFICES ASSUME IInv, pc = "idle", exit \in Statuses, driver.keeps = "records"
                 PROVE  NeverDropped
      BY DEF NeverDropped
    <2>1. Left(out.status, out.records)
      BY DEF IInv, LeftInv
    <2>2. /\ \A i \in DOMAIN out.records : out.records[i].run[1] = session
          /\ \A i, j \in DOMAIN out.records :
                i < j => out.records[i].run[2] < out.records[j].run[2]
      BY <2>1 DEF Left, OwnRows
    <2>3. CASE exit = "complete"
      BY <2>1, <2>2, <2>3 DEF Left, NeverDropped
    <2>4. CASE exit = "failed"
      BY <2>1, <2>2, <2>4 DEF Left, NeverDropped
    <2>5. CASE exit \notin {"complete", "failed"}
      BY <2>1, <2>2, <2>5 DEF Left, NeverDropped
    <2> QED
      BY <2>3, <2>4, <2>5
  <1> QED
    BY <1>1, Invariance, PTL

\* A reparse gives every row the metrics of its own run, but perhaps the last row of
\* an interrupted session.
THEOREM ReparseIsFaithful == Spec => []ReparseFaithful
PROOF
  <1>1. IInv => ReparseFaithful
    <2> SUFFICES ASSUME IInv, driver.reparse, pc = "idle", exit \in Statuses
                 PROVE  ReparseFaithful
      BY DEF ReparseFaithful
    <2>1. driver.keeps = "records"
      BY DriverSound DEF IInv, Sound
    <2>2. OwnMetrics(out.records)
      BY <2>1 DEF IInv, LeftInv
    <2> QED
      BY <2>2 DEF OwnMetrics, ReparseFaithful
  <1> QED
    BY <1>1, Invariance, PTL

\* The file of an arm that the loop has left behind is that of its run in this
\* session.
THEOREM FilesAreOfTheirRuns == Spec => []FilesOfCompletedArms
PROOF
  <1>1. IInv => FilesOfCompletedArms
    BY DEF IInv, FilesInv, Filed, Files, FilesOfCompletedArms
  <1> QED
    BY <1>1, Invariance, PTL

------------------------------------------------------------------------------
(* The output file is the table of ResultTable. *)

\* The rows that make the abstract table, and those that make its batch.
Shown ==
    IF out.status # Torn THEN out.records
    ELSE IF pc \in {"truncated", "rewriting"} THEN draft ELSE <<>>
Collected == IF driver.keeps \in {"records", "merged"} THEN records ELSE <<>>

\* The table of a list, by names.
LEMMA TableOfRows ==
    ASSUME NEW rows
    PROVE  TableOf(rows) = [n \in NamesIn(rows) |-> Row(RowOf(rows, n))]
PROOF
  BY DEF TableOf, NamesIn, RowOf

\* An empty list makes an empty table.
LEMMA EmptyTable == TableOf(<<>>) = <<>>
PROOF
  <1>1. NamesIn(<<>>) = {}
    BY DEF NamesIn
  <1>2. TableOf(<<>>) = [n \in {} |-> Row(RowOf(<<>>, n))]
    BY <1>1, TableOfRows
  <1> QED
    BY <1>2

\* The row of a name in a table where names are unique.
LEMMA UniqueRow ==
    ASSUME NEW rows, OneRowEach(rows), NEW i \in DOMAIN rows
    PROVE  rows[i].name \in NamesIn(rows) /\ RowOf(rows, rows[i].name) = rows[i]
PROOF
  <1> DEFINE k == CHOOSE j \in DOMAIN rows : rows[j].name = rows[i].name
  <1>1. k \in DOMAIN rows /\ rows[k].name = rows[i].name
    OBVIOUS
  <1>2. k = i
    BY <1>1 DEF OneRowEach
  <1>3. RowOf(rows, rows[i].name) = rows[k]
    BY DEF RowOf
  <1> HIDE DEF k
  <1> QED
    BY <1>2, <1>3 DEF NamesIn

\* Tables with the same rows, but for the metrics, are equal.
LEMMA SameTable ==
    ASSUME NEW rows, NEW more, OneRowEach(rows), OneRowEach(more), DOMAIN more = DOMAIN rows,
           \A i \in DOMAIN rows : more[i].name = rows[i].name /\ Row(more[i]) = Row(rows[i])
    PROVE  TableOf(more) = TableOf(rows)
PROOF
  <1>1. NamesIn(more) = NamesIn(rows)
    BY DEF NamesIn
  <1>2. ASSUME NEW n \in NamesIn(rows)
        PROVE  Row(RowOf(more, n)) = Row(RowOf(rows, n))
    <2>1. PICK i \in DOMAIN rows : rows[i].name = n
      BY DEF NamesIn
    <2>2. RowOf(rows, n) = rows[i] /\ RowOf(more, n) = more[i]
      BY <2>1, UniqueRow
    <2> QED
      BY <2>2
  <1>3. /\ TableOf(more) = [n \in NamesIn(more) |-> Row(RowOf(more, n))]
        /\ TableOf(rows) = [n \in NamesIn(rows) |-> Row(RowOf(rows, n))]
    BY TableOfRows
  <1> QED
    BY <1>1, <1>2, <1>3

\* A row that is appended is one row of the table more.
LEMMA TableMeasures ==
    ASSUME NEW rows \in Seq(Rows), NEW r \in Rows,
           OneRowEach(rows), OneRowEach(Append(rows, r))
    PROVE  /\ r.name \in DOMAIN TableOf(Append(rows, r))
           /\ DOMAIN TableOf(Append(rows, r)) = DOMAIN TableOf(rows) \cup {r.name}
           /\ \A n \in DOMAIN TableOf(rows) \ {r.name} :
                    TableOf(Append(rows, r))[n] = TableOf(rows)[n]
PROOF
  <1> DEFINE more == Append(rows, r)
  <1>1. /\ Len(rows) \in Nat
        /\ DOMAIN rows = 1 .. Len(rows) /\ DOMAIN more = 1 .. Len(rows) + 1
        /\ \A i \in DOMAIN rows : more[i] = rows[i]
        /\ more[Len(rows) + 1] = r
    BY AppendedRow
  <1> HIDE DEF more
  <1>0. OneRowEach(more)
    BY DEF more
  <1>2. /\ \A i \in DOMAIN more : i \in DOMAIN rows \/ i = Len(rows) + 1
        /\ DOMAIN rows \subseteq DOMAIN more /\ Len(rows) + 1 \in DOMAIN more
    BY <1>1
  <1>3. NamesIn(more) = NamesIn(rows) \cup {r.name}
    BY <1>1, <1>2 DEF NamesIn
  <1>4. ASSUME NEW n \in NamesIn(rows)
        PROVE  RowOf(more, n) = RowOf(rows, n)
    <2>1. PICK i \in DOMAIN rows : rows[i].name = n
      BY DEF NamesIn
    <2>2. i \in DOMAIN more /\ more[i] = rows[i]
      BY <1>1, <1>2
    <2>3. RowOf(rows, n) = rows[i]
      BY <2>1, UniqueRow
    <2>4. RowOf(more, n) = more[i]
      BY <1>0, <2>1, <2>2, UniqueRow
    <2> QED
      BY <2>2, <2>3, <2>4
  <1>5. /\ TableOf(more) = [n \in NamesIn(more) |-> Row(RowOf(more, n))]
        /\ TableOf(rows) = [n \in NamesIn(rows) |-> Row(RowOf(rows, n))]
    BY TableOfRows
  <1> QED
    BY <1>3, <1>4, <1>5 DEF more

\* Merging updates the table.
LEMMA TableMerges ==
    ASSUME TypeInv, WellNamed(driver.plan), NEW list \in MergedLists
    PROVE  TableOf(list) =
                [n \in DOMAIN TableOf(records) \cup DOMAIN TableOf(out.records) |->
                    IF n \in DOMAIN TableOf(records) THEN TableOf(records)[n]
                    ELSE TableOf(out.records)[n]]
PROOF
  <1>1. /\ NamesIn(list) = NamesIn(records) \cup NamesIn(out.records)
        /\ \A i \in DOMAIN list : list[i] = Merged(list[i].name)
        /\ OneRowEach(list)
    BY MergedFacts
  <1>2. ASSUME NEW n \in NamesIn(list)
        PROVE  RowOf(list, n) = Merged(n)
    <2>1. PICK i \in DOMAIN list : list[i].name = n
      BY DEF NamesIn
    <2>2. RowOf(list, n) = list[i]
      BY <1>1, <2>1, UniqueRow
    <2> QED
      BY <1>1, <2>1, <2>2
  <1>3. /\ TableOf(records) = [n \in NamesIn(records) |-> Row(RowOf(records, n))]
        /\ TableOf(out.records) = [n \in NamesIn(out.records) |-> Row(RowOf(out.records, n))]
        /\ TableOf(list) = [n \in NamesIn(list) |-> Row(RowOf(list, n))]
    BY TableOfRows
  <1>4. /\ DOMAIN TableOf(records) = NamesIn(records)
        /\ DOMAIN TableOf(out.records) = NamesIn(out.records)
        /\ \A n \in NamesIn(records) : TableOf(records)[n] = Row(RowOf(records, n))
        /\ \A n \in NamesIn(out.records) : TableOf(out.records)[n] = Row(RowOf(out.records, n))
    BY <1>3
  <1>5. \A n \in NamesIn(list) :
            Row(RowOf(list, n)) = IF n \in DOMAIN TableOf(records) THEN TableOf(records)[n]
                                  ELSE TableOf(out.records)[n]
    <2> TAKE n \in NamesIn(list)
    <2>1. RowOf(list, n) = Merged(n)
      BY <1>2
    <2> QED
      BY <1>1, <1>4, <2>1 DEF Merged
  <1>6. TableOf(list) =
            [n \in NamesIn(list) |->
                IF n \in DOMAIN TableOf(records) THEN TableOf(records)[n]
                ELSE TableOf(out.records)[n]]
    BY <1>3, <1>5
  <1> QED
    BY <1>1, <1>4, <1>6

\* What the abstract variables are.
LEMMA ShownRows ==
    ASSUME IInv
    PROVE  /\ pc \notin {"truncated", "rewriting"} => Shown = out.records
           /\ pc \in {"truncated", "rewriting"} => Shown = draft /\ out.status = Torn
           /\ Tabulates(driver) => Collected = records
           /\ ~Tabulates(driver) => Collected = <<>>
PROOF
  <1>1. out.status = Torn => out.records = <<>>
    BY DEF IInv, PlaceInv
  <1>2. pc \in {"truncated", "rewriting"} => out.status = Torn
    BY DEF IInv, PlaceInv
  <1> QED
    BY <1>1, <1>2 DEF Shown, Collected, Tabulates

\* The script starts with an empty table.
LEMMA TableInit == Init => Table!Init
PROOF
  <1> SUFFICES ASSUME Init PROVE Table!Init
    OBVIOUS
  <1>1. out.status # Torn /\ out.records = <<>> /\ records = <<>>
    BY CampaignAssumption DEF Init, NoFile
  <1>2. Shown = <<>> /\ Collected = <<>>
    BY <1>1 DEF Shown, Collected
  <1>3. TableOf(Shown) = <<>> /\ TableOf(Collected) = <<>>
    BY <1>2, EmptyTable
  <1> QED
    BY <1>1, <1>3 DEF Table!Init, Shown, Collected

\* Every step is one of the table, or changes nothing of it.
LEMMA TableStep ==
    ASSUME IInv, IInv', [Next]_vars
    PROVE  [Table!Next]_(Table!vars)
PROOF
  <1>1. driver' = driver
    BY DriverFixed
  <1>2. /\ pc \notin {"truncated", "rewriting"} => Shown = out.records
        /\ pc \in {"truncated", "rewriting"} => Shown = draft /\ out.status = Torn
        /\ Tabulates(driver) => Collected = records
        /\ ~Tabulates(driver) => Collected = <<>>
    BY ShownRows
  <1>3. /\ pc' \notin {"truncated", "rewriting"} => Shown' = out'.records
        /\ pc' \in {"truncated", "rewriting"} => Shown' = draft' /\ out'.status = Torn
        /\ Tabulates(driver) => Collected' = records'
        /\ ~Tabulates(driver) => Collected' = <<>>
    <2>1. out'.status = Torn => out'.records = <<>>
      BY DEF IInv, PlaceInv
    <2>2. pc' \in {"truncated", "rewriting"} => out'.status = Torn
      BY DEF IInv, PlaceInv
    <2> QED
      BY <1>1, <2>1, <2>2 DEF Shown, Collected, Tabulates
  <1>4. ASSUME Shown' = Shown, Collected' = Collected, out'.status = out.status
        PROVE  UNCHANGED Table!vars
    <2>1. TableOf(Shown)' = TableOf(Shown) /\ TableOf(Collected)' = TableOf(Collected)
      BY <1>4
    <2> QED
      BY <1>1, <1>4, <2>1 DEF Table!vars, Shown, Collected
  <1> USE DEF arms, memory, payload, files, counts
  <1>5. CASE StartSession
    <2>1. /\ out' = out /\ records' = <<>> /\ pc = "idle" /\ pc' = "loop"
      BY <1>5 DEF StartSession
    <2>2. Shown' = Shown /\ Collected' = <<>> /\ out'.status = out.status
      BY <1>2, <1>3, <2>1
    <2>3. TableOf(Collected)' = <<>> /\ TableOf(Shown)' = TableOf(Shown)
      BY <2>2, EmptyTable
    <2>4. Table!NewSession
      BY <1>1, <2>2, <2>3 DEF Table!NewSession, Shown, Collected
    <2> QED
      BY <2>4 DEF Table!Next
  <1>6. CASE Skip \/ AppendRecord
    <2>1. /\ out' = out /\ draft' = draft
          /\ pc \notin {"truncated", "rewriting"} /\ pc' \notin {"truncated", "rewriting"}
      BY <1>6 DEF Skip, AppendRecord, AtArm, Classified
    <2>2. Shown' = Shown /\ out'.status = out.status
      BY <1>2, <1>3, <2>1
    <2>3. CASE ~Tabulates(driver)
      <3>1. Collected' = Collected
        BY <1>2, <1>3, <2>3
      <3> QED
        BY <1>4, <2>2, <3>1
    <2>4. CASE Tabulates(driver)
      <3>1. PICK r \in Rows : records' = Append(records, r)
        BY <1>6, SkippedRow, AppendedRecord
      <3>2. records \in Seq(Rows) /\ OneRowEach(records) /\ OneRowEach(records')
        <4>1. OneRowEach(records)'
          BY <1>6, <2>4, SkipRecords, AppendRecords
        <4> QED
          BY <2>4, <4>1 DEF IInv, TypeInv, TablesInv, OneRowEach
      <3>3. /\ r.name \in DOMAIN TableOf(records')
            /\ DOMAIN TableOf(records') = DOMAIN TableOf(records) \cup {r.name}
            /\ \A n \in DOMAIN TableOf(records) \ {r.name} :
                    TableOf(records')[n] = TableOf(records)[n]
        BY <3>1, <3>2, TableMeasures
      <3>4. TableOf(Collected)' = TableOf(records') /\ TableOf(Collected) = TableOf(records)
        BY <1>2, <1>3, <2>4
      <3>5. TableOf(Shown)' = TableOf(Shown)
        BY <2>2
      <3>6. Table!Measure
        <4>1. /\ \E n \in DOMAIN TableOf(Collected)' :
                    /\ DOMAIN TableOf(Collected)' = DOMAIN TableOf(Collected) \cup {n}
                    /\ \A other \in DOMAIN TableOf(Collected) \ {n} :
                            TableOf(Collected)'[other] = TableOf(Collected)[other]
          BY <3>3, <3>4
        <4> QED
          BY <1>1, <2>2, <3>5, <4>1 DEF Table!Measure, Shown, Collected
      <3> QED
        BY <3>6 DEF Table!Next
    <2> QED
      BY <2>3, <2>4
  <1>7. CASE Truncate
    <2>1. /\ pc = "closing" /\ pc' = "truncated" /\ records' = records /\ out'.status = Torn
          /\ draft' \in Payloads
      BY <1>7 DEF Truncate
    <2>2. Shown = out.records /\ Shown' = draft' /\ Collected' = Collected
      BY <1>2, <1>3, <2>1
    <2>3. CASE driver.keeps = "merged"
      <3>1. draft' \in MergedLists
        BY <2>1, <2>3 DEF Payloads
      <3>2. WellNamed(driver.plan) /\ Tabulates(driver)
        BY <2>3, DriverSound DEF IInv, Sound, Tabulates
      <3>3. TableOf(draft') =
                [n \in DOMAIN TableOf(records) \cup DOMAIN TableOf(out.records) |->
                    IF n \in DOMAIN TableOf(records) THEN TableOf(records)[n]
                    ELSE TableOf(out.records)[n]]
        BY <3>1, <3>2, TableMerges DEF IInv
      <3>4. /\ TableOf(Shown)' = TableOf(draft') /\ TableOf(Shown) = TableOf(out.records)
            /\ TableOf(Collected) = TableOf(records) /\ TableOf(Collected)' = TableOf(Collected)
        BY <1>2, <2>2, <3>2
      <3>5. TableOf(Shown)' =
                [n \in DOMAIN TableOf(Collected) \cup DOMAIN TableOf(Shown) |->
                    IF n \in DOMAIN TableOf(Collected) THEN TableOf(Collected)[n]
                    ELSE TableOf(Shown)[n]]
        BY <3>3, <3>4
      <3>6. Table!Write
        BY <1>1, <2>1, <2>3, <3>4, <3>5 DEF Table!Write, Table!Updated, Shown, Collected
      <3> QED
        BY <3>6 DEF Table!Next
    <2>4. CASE driver.keeps # "merged"
      <3>1. draft' = Collected
        BY <1>2, <2>1, <2>4 DEF Payloads, Tabulates
      <3>2. TableOf(Shown)' = TableOf(Collected) /\ TableOf(Collected)' = TableOf(Collected)
        BY <2>2, <3>1
      <3>3. Table!Write
        BY <1>1, <2>1, <2>4, <3>2 DEF Table!Write, Shown, Collected
      <3> QED
        BY <3>3 DEF Table!Next
    <2> QED
      BY <2>3, <2>4
  <1>8. CASE Fill \/ Rewritten
    <2>1. /\ pc \in {"truncated", "rewriting"} /\ pc' = "idle" /\ records' = records
          /\ out'.status = status /\ out'.records = draft
      BY <1>8 DEF Fill, Rewritten, ExitWith
    <2>2. status \in Statuses
      BY <2>1 DEF IInv, PlaceInv, AtWriter
    <2>3. out'.status # Torn /\ out.status = Torn
      BY <1>2, <2>1, <2>2, CampaignAssumption DEF Statuses
    <2>4. Shown' = Shown /\ Collected' = Collected
      BY <1>2, <1>3, <2>1
    <2>5. TableOf(Shown)' = TableOf(Shown) /\ TableOf(Collected)' = TableOf(Collected)
      BY <2>4
    <2>6. Table!Written
      BY <1>1, <2>3, <2>5 DEF Table!Written, Shown, Collected
    <2> QED
      BY <2>6 DEF Table!Next
  <1>9. CASE Reparse
    <2>1. /\ pc = "idle" /\ pc' = "rewriting" /\ records' = records /\ out.status \in Statuses
          /\ out'.status = Torn /\ driver.reparse
      BY <1>9 DEF Reparse
    <2>2. draft' = [i \in DOMAIN out.records |-> Reparsed(out.records[i])]
      BY <1>9 DEF Reparse, ForEach
    <2>3. out.status # Torn
      BY <2>1, CampaignAssumption DEF Statuses
    <2>4. Shown = out.records /\ Shown' = draft' /\ Collected' = Collected
      BY <1>2, <1>3, <2>1
    <2>5. OneRowEach(out.records) /\ OneRowEach(draft')
      <3>1. Tabulates(driver)
        BY <2>1, DriverSound DEF IInv, Sound, Tabulates
      <3>2. TablesInv'
        BY DEF IInv
      <3> QED
        BY <1>1, <3>1, <3>2 DEF IInv, TablesInv, OneRowEach
    <2>6. \A i \in DOMAIN out.records :
                draft'[i].name = out.records[i].name /\ Row(draft'[i]) = Row(out.records[i])
      <3>1. out.records \in Seq(Rows)
        BY DEF IInv, TypeInv
      <3> TAKE i \in DOMAIN out.records
      <3>2. out.records[i] \in Rows
        BY <3>1
      <3>3. draft'[i] = Reparsed(out.records[i])
        BY <2>2
      <3> QED
        BY <3>2, <3>3, ReparsedFacts DEF IInv, Row
    <2>7. DOMAIN draft' = DOMAIN out.records
      BY <2>2
    <2>8. TableOf(draft') = TableOf(out.records)
      BY <2>5, <2>6, <2>7, SameTable
    <2>9. TableOf(Shown)' = TableOf(Shown) /\ TableOf(Collected)' = TableOf(Collected)
      BY <2>4, <2>8
    <2>10. Table!Rewrite
      BY <1>1, <2>1, <2>3, <2>9 DEF Table!Rewrite, Shown, Collected
    <2> QED
      BY <2>10 DEF Table!Next
  <1>10. CASE Interrupt
    <2>1. records' = records /\ out' = out /\ pc' \notin {"truncated", "rewriting"}
      BY <1>10 DEF Interrupt, ExitWith
    <2>2. Collected' = Collected /\ Shown' = out.records
      BY <1>2, <1>3, <2>1
    <2>3. CASE pc \in {"truncated", "rewriting"}
      <3>1. out.status = Torn /\ out.records = <<>>
        BY <1>2, <2>3 DEF IInv, PlaceInv
      <3>2. TableOf(Shown)' = <<>> /\ TableOf(Collected)' = TableOf(Collected)
        BY <2>2, <3>1, EmptyTable
      <3>3. Table!CutOff
        BY <1>1, <2>1, <3>1, <3>2 DEF Table!CutOff, Shown, Collected
      <3> QED
        BY <3>3 DEF Table!Next
    <2>4. CASE pc \notin {"truncated", "rewriting"}
      BY <1>2, <1>4, <2>1, <2>2, <2>4
    <2> QED
      BY <2>3, <2>4
  <1>11. CASE \/ Launch \/ SweepFails \/ SweepRaises \/ (\E result \in Results : RunReturns(result))
              \/ RunRaises \/ WriteLog \/ Stops \/ LoopEnds \/ FilesDone
    <2>1. /\ records' = records /\ out' = out
          /\ pc \notin {"truncated", "rewriting"} /\ pc' \notin {"truncated", "rewriting"}
      BY <1>11 DEF Launch, SweepFails, SweepRaises, RunReturns, RunRaises, WriteLog, Stops,
           LoopEnds, FilesDone, ExitWith, AtArm, AtEnd, Classified
    <2>2. Shown' = Shown /\ Collected' = Collected
      BY <1>2, <1>3, <2>1
    <2> QED
      BY <1>4, <2>1, <2>2
  <1>12. CASE UNCHANGED vars
    <2>1. records' = records /\ out' = out /\ pc' = pc /\ draft' = draft
      BY <1>12 DEF vars
    <2>2. Shown' = Shown /\ Collected' = Collected
      BY <1>2, <1>3, <2>1
    <2> QED
      BY <1>4, <2>1, <2>2
  <1> QED
    BY <1>5, <1>6, <1>7, <1>8, <1>9, <1>10, <1>11, <1>12 DEF Next

\* The output file is a table that a session replaces or updates, and that only a
\* write that was cut off loses.
THEOREM FileIsTable == Spec => ImplementsResultTable
PROOF
  <1>1. Init => Table!Init
    BY TableInit
  <1>2. IInv /\ IInv' /\ [Next]_vars => [Table!Next]_(Table!vars)
    BY TableStep
  <1> QED
    BY <1>1, <1>2, Invariance, PTL DEF Spec, ImplementsResultTable, Table!Spec
==============================================================================
