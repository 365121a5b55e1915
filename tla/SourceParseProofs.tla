------------------------- MODULE SourceParseProofs --------------------------
(***************************************************************************)
(* The outcome of a source parse is a function of the bytes, for every     *)
(* budget and every input, however long.                                   *)
(*                                                                         *)
(* The callbacks count as they go: bytes fetched, polls, a watch over      *)
(* error recovery.  The invariant says what the counters are, at every     *)
(* poll, of the bytes alone, and that no poll so far ran into a limit; so  *)
(* the poll that gives up is the first that the bytes make give up.        *)
(***************************************************************************)
EXTENDS SourceParseProps, Totals, SequenceTheorems, TLAPS

-----------------------------------------------------------------------------
(* What tree-sitter does with the bytes.                                   *)

Report == [recovering : BOOLEAN, end : BOOLEAN, fetch : Nat]

\* A script: once at the end of the input, a parse stays there.
Wellformed(s) ==
  /\ s.report \in Seq(Report)
  /\ \A p, q \in 1..Len(s.report) : (p <= q /\ s.report[p].end) => s.report[q].end
  /\ s.tail \in Nat

\* A grammar that may run has a script.
Scripted == /\ Wellformed(input["own"])
            /\ input.type = "c" => Wellformed(input["cpp"])

\* Every report sequence considered is one.
LEMMA ReportsWellformed ==
  ASSUME NEW type \in FileTypes, NEW g, NEW R \in Reports(type, g)
  PROVE  /\ R \in Seq(Report)
         /\ \A p, q \in 1..Len(R) : (p <= q /\ R[p].end) => R[q].end
<1> DEFINE C(n) == [r : [1..n -> IF Capped(type, g) THEN BOOLEAN ELSE {FALSE}],
                    e : IF Capped(type, g) THEN 1..(n + 1) ELSE {n + 1},
                    f : [1..n -> Fetches[type]]]
           Rep(n, c) ==
             [p \in 1..n |-> [recovering |-> c.r[p], end |-> p >= c.e, fetch |-> c.f[p]]]
<1>1. PICK n \in 0..MaxPolls : R \in {Rep(n, c) : c \in C(n)}
  BY DEF Reports
<1>2. PICK c \in C(n) : R = Rep(n, c)
  BY <1>1
<1>3. n \in Nat /\ c.e \in Nat /\ Fetches[type] \subseteq Nat
  BY ConstantsTyped DEF ConstantsTyped
<1>4. \A p \in 1..n : c.r[p] \in BOOLEAN /\ (p >= c.e) \in BOOLEAN /\ c.f[p] \in Nat
  <2> TAKE p \in 1..n
  <2>1. c.r[p] \in IF Capped(type, g) THEN BOOLEAN ELSE {FALSE}
    OBVIOUS
  <2>2. c.r[p] \in BOOLEAN
    BY <2>1
  <2>3. c.f[p] \in Nat
    BY <1>3
  <2>4. (p >= c.e) \in BOOLEAN
    OBVIOUS
  <2> QED
    BY <2>2, <2>3, <2>4
<1>5. R \in [1..n -> Report]
  BY <1>2, <1>4 DEF Report
<1>6. R \in Seq(Report) /\ Len(R) = n
  BY <1>3, <1>5
<1>7. \A p, q \in 1..n : (p <= q /\ R[p].end) => R[q].end
  <2> SUFFICES ASSUME NEW p \in 1..n, NEW q \in 1..n, p <= q, R[p].end PROVE R[q].end
    OBVIOUS
  <2>1. R[p].end = (p >= c.e) /\ R[q].end = (q >= c.e)
    BY <1>2
  <2>2. p >= c.e
    BY <2>1, Zenon
  <2>3. q >= c.e
    BY <1>3, <2>2
  <2> QED
    BY <2>1, <2>3, Zenon
<1> QED
  BY <1>6, <1>7

\* So the inputs considered have scripts.
LEMMA InputScripted ==
  ASSUME input \in UNION {Input(type) : type \in FileTypes}
  PROVE  Scripted
<1>1. PICK type \in FileTypes : input \in Input(type)
  OBVIOUS
<1>2. /\ input.type = type /\ input.own \in Script(type, "own")
      /\ type = "c" => input.cpp \in Script(type, "cpp")
  BY <1>1 DEF Input
<1>3. \A g, s : s \in Script(type, g) => s.report \in Reports(type, g) /\ s.tail \in Nat
  BY ConstantsTyped DEF Script, ConstantsTyped
<1>4. \A g, s : s \in Script(type, g) => Wellformed(s)
  BY <1>3, ReportsWellformed DEF Wellformed
<1> QED
  BY <1>2, <1>4 DEF Scripted

-----------------------------------------------------------------------------
(* The lexer's bytes.                                                      *)

\* What TotalFetched sums, as a function, and its fold.
Fetch(s) == [j \in Nat |-> s.report[j].fetch]
Step(s, S, g) ==
  [r \in SUBSET S |-> IF r = {} THEN 0 ELSE s.report[Pick(r)].fetch + g[r \ {Pick(r)}]]
Partial(s, S) == CHOOSE g : g = Step(s, S, g)

\* TotalFetched is the fold it is written as ...
LEMMA FetchedFold == \A s, p : TotalFetched(s, p) = Partial(s, 1..p)[1..p]
  BY DEF TotalFetched, MapThenSumSet, MapThenFoldSet, Partial, Step, Pick

\* ... and so a total.
LEMMA FetchedTotal ==
  ASSUME NEW s, NEW p \in Nat
  PROVE  TotalFetched(s, p) = Total(Fetch(s), 1..p)
<1> DEFINE S == 1..p
<1>0. IsFiniteSet(S) /\ S \subseteq Nat
  BY FS_Interval
<1> HIDE DEF S
<1>1. ASSUME NEW g PROVE Step(s, S, g) = Unfolded(Fetch(s), S, g)
  <2>1. \A r \in SUBSET S : r # {} => Pick(r) \in Nat
    BY <1>0, PickIn
  <2> QED
    BY <2>1 DEF Step, Unfolded, Fetch
<1>2. Table(Fetch(s), S) = Unfolded(Fetch(s), S, Table(Fetch(s), S))
  BY <1>0, TableUnfolds
<1>3. Partial(s, S) = Step(s, S, Partial(s, S))
  BY <1>1, <1>2 DEF Partial
<1>4. Partial(s, S)[S] = Table(Fetch(s), S)[S]
  BY <1>0, <1>1, <1>2, <1>3, TablesAgree
<1> QED
  BY <1>4, FetchedFold DEF Total, S

\* Every poll reports a number of bytes.
LEMMA FetchesNumbers ==
  ASSUME NEW s, Wellformed(s), NEW j \in 1..Len(s.report)
  PROVE  s.report[j].fetch \in Nat /\ Fetch(s)[j] = s.report[j].fetch /\ Fetch(s)[j] \in Nat
<1>1. s.report[j] \in Report
  BY DEF Wellformed
<1> QED
  BY <1>1 DEF Report, Fetch, Wellformed

\* A poll further, the lexer has fetched what that poll reports more.
LEMMA FetchedNext ==
  ASSUME NEW s, Wellformed(s), NEW p \in Nat, p < Len(s.report)
  PROVE  TotalFetched(s, p + 1) = TotalFetched(s, p) + s.report[p + 1].fetch
<1> DEFINE S == 1..(p + 1)
<1>0. p \in 0..Len(s.report) /\ p + 1 \in 1..Len(s.report) /\ Len(s.report) \in Nat
  BY DEF Wellformed
<1>1. IsFiniteSet(S) /\ p + 1 \in S /\ S \ {p + 1} = 1..p
  <2>1. IsFiniteSet(S)
    BY FS_Interval
  <2>2. \A x : x \in S \ {p + 1} <=> x \in 1..p
    OBVIOUS
  <2> QED
    BY <2>1, <2>2
<1>2. /\ \A j \in S : Fetch(s)[j] \in Nat
      /\ Fetch(s)[p + 1] = s.report[p + 1].fetch
  <2>1. \A j \in S : j \in 1..Len(s.report)
    BY <1>0
  <2> HIDE DEF S
  <2> QED
    BY <1>0, <2>1, FetchesNumbers
<1>3. Total(Fetch(s), S) = Fetch(s)[p + 1] + Total(Fetch(s), S \ {p + 1})
  <2> HIDE DEF S
  <2> QED
    BY <1>1, <1>2, TotalRemove
<1>4. Total(Fetch(s), 1..p) \in Nat
  <2>1. 1..p \subseteq S /\ IsFiniteSet(1..p)
    BY FS_Interval
  <2> QED
    BY <1>2, <2>1, TotalNat
<1>5. /\ TotalFetched(s, p + 1) = Total(Fetch(s), S)
      /\ TotalFetched(s, p) = Total(Fetch(s), 1..p)
  BY FetchedTotal
<1>6. s.report[p + 1].fetch \in Nat
  BY <1>0, FetchesNumbers
<1>7. TotalFetched(s, p + 1) = s.report[p + 1].fetch + TotalFetched(s, p)
  <2> HIDE DEF S
  <2> QED
    BY <1>1, <1>2, <1>3, <1>5, Zenon
<1> QED
  BY <1>4, <1>5, <1>6, <1>7

\* The bytes fetched so far are a number, none at first.
LEMMA FetchedNumber ==
  ASSUME NEW s, Wellformed(s)
  PROVE  /\ TotalFetched(s, 0) = 0
         /\ \A p \in 0..Len(s.report) : TotalFetched(s, p) \in Nat
<1>1. TotalFetched(s, 0) = 0
  <2>1. 1..0 = {}
    OBVIOUS
  <2> QED
    BY <2>1, FetchedTotal, TotalEmpty
<1>2. ASSUME NEW p \in 0..Len(s.report) PROVE TotalFetched(s, p) \in Nat
  <2>1. p \in Nat /\ IsFiniteSet(1..p)
    BY FS_Interval DEF Wellformed
  <2>2. \A j \in 1..p : Fetch(s)[j] \in Nat
    BY <2>1, FetchesNumbers DEF Wellformed
  <2> QED
    BY <2>1, <2>2, FetchedTotal, TotalNat
<1> QED
  BY <1>1, <1>2

-----------------------------------------------------------------------------
(* The watch over error recovery.                                          *)

\* What the watch w has seen after p polls, said of the bytes.
Early(s, p) == \A q \in 1..p : ~s.report[q].end
Spent(s, p) == {q \in 1..p : s.report[q].end /\ s.report[q].recovering}
Running(s, p, run) ==
  /\ run <= p
  /\ \A q \in (p - run + 1)..p : s.report[q].recovering
  /\ run < p => ~s.report[p - run].recovering
Watched(s, p, w) ==
  /\ w \in [run : Nat, reached : Int, end : Nat]
  /\ Early(s, p) => w.reached = -1 /\ w.end = 0 /\ Running(s, p, w.run)
  /\ ~Early(s, p) => /\ w.reached \in 0..(p - 1)
                     /\ Early(s, w.reached)
                     /\ s.report[w.reached + 1].end
                     /\ w.end = Cardinality(Spent(s, p))

\* A new watch has seen nothing.
LEMMA NewWatched == \A s : Watched(s, 0, NewWatch)
  BY DEF Watched, NewWatch, Early, Running

\* Recovery polls at the end, one poll further.
LEMMA SpentNext ==
  ASSUME NEW s, Wellformed(s), NEW p \in Nat, p < Len(s.report)
  PROVE  /\ Cardinality(Spent(s, p)) \in Nat
         /\ Early(s, p) => Cardinality(Spent(s, p)) = 0
         /\ Cardinality(Spent(s, p + 1)) =
              Cardinality(Spent(s, p))
                + IF s.report[p + 1].end /\ s.report[p + 1].recovering THEN 1 ELSE 0
<1> DEFINE hit == s.report[p + 1].end /\ s.report[p + 1].recovering
<1>1. IsFiniteSet(Spent(s, p))
  <2>1. IsFiniteSet(1..p) /\ Spent(s, p) \in SUBSET (1..p)
    BY FS_Interval DEF Spent
  <2> QED
    BY <2>1, FS_Subset
<1>2. Cardinality(Spent(s, p)) \in Nat
  BY <1>1, FS_CardinalityType
<1>3. Early(s, p) => Cardinality(Spent(s, p)) = 0
  <2>1. Early(s, p) => Spent(s, p) = {}
    BY DEF Early, Spent
  <2> QED
    BY <2>1, FS_EmptySet
<1>4. CASE hit
  <2>1. p + 1 \notin Spent(s, p)
    BY DEF Spent
  <2>2. Spent(s, p + 1) = Spent(s, p) \cup {p + 1}
    <3>1. \A q : q \in Spent(s, p + 1) <=> q \in Spent(s, p) \cup {p + 1}
      BY <1>4 DEF Spent
    <3> QED
      BY <3>1
  <2> QED
    BY <1>1, <1>2, <1>3, <1>4, <2>1, <2>2, FS_AddElement
<1>5. CASE ~hit
  <2>1. Spent(s, p + 1) = Spent(s, p)
    <3>1. \A q : q \in Spent(s, p + 1) <=> q \in Spent(s, p)
      BY <1>5 DEF Spent
    <3> QED
      BY <3>1
  <2> QED
    BY <1>2, <1>3, <1>5, <2>1
<1> QED
  BY <1>4, <1>5

\* RecoveryWatch::poll counts as the watch is read.
LEMMA WatchNext ==
  ASSUME NEW s, Wellformed(s), NEW p \in Nat, p < Len(s.report), NEW w, Watched(s, p, w)
  PROVE  Watched(s, p + 1, Watch(w, p + 1, s.report[p + 1]))
<1> DEFINE r == s.report[p + 1]
           v == Watch(w, p + 1, r)
<1>t. /\ w \in [run : Nat, reached : Int, end : Nat]
      /\ p + 1 \in 1..Len(s.report) /\ r \in Report
  BY DEF Watched, Wellformed
<1>c. /\ Cardinality(Spent(s, p)) \in Nat
      /\ Early(s, p) => Cardinality(Spent(s, p)) = 0
      /\ Cardinality(Spent(s, p + 1)) =
           Cardinality(Spent(s, p)) + IF r.end /\ r.recovering THEN 1 ELSE 0
  BY SpentNext
\* Before the end.
<1>1. CASE Early(s, p) /\ ~r.end
  <2>1. Early(s, p + 1)
    BY <1>1 DEF Early
  <2>2. w.reached = -1 /\ w.end = 0 /\ Running(s, p, w.run)
    BY <1>1 DEF Watched
  <2>3. v = [w EXCEPT !.run = IF r.recovering THEN @ + 1 ELSE 0]
    BY <1>1, <1>t, <2>2 DEF Watch
  <2>4. /\ v.reached = -1 /\ v.end = 0
        /\ v.run = IF r.recovering THEN w.run + 1 ELSE 0
        /\ v \in [run : Nat, reached : Int, end : Nat]
    BY <1>t, <2>2, <2>3
  <2>5. Running(s, p + 1, v.run)
    <3>1. CASE r.recovering
      <4>1. PICK k \in Nat : k = w.run
        BY <1>t
      <4>2. v.run = k + 1 /\ p + 1 - v.run = p - k
        BY <2>4, <3>1, <4>1
      <4>3. /\ k <= p /\ \A q \in (p - k + 1)..p : s.report[q].recovering
            /\ k < p => ~s.report[p - k].recovering
        BY <2>2, <4>1 DEF Running
      <4>4. \A q \in (p - k + 1)..(p + 1) : s.report[q].recovering
        <5> TAKE q \in (p - k + 1)..(p + 1)
        <5>1. CASE q = p + 1
          BY <3>1, <5>1
        <5>2. CASE q # p + 1
          BY <4>3, <5>2
        <5> QED
          BY <5>1, <5>2
      <4>5. v.run < p + 1 => ~s.report[p + 1 - v.run].recovering
        <5> SUFFICES ASSUME v.run < p + 1 PROVE ~s.report[p - k].recovering
          BY <4>2
        <5>1. k < p
          BY <4>2
        <5> QED
          BY <4>3, <5>1
      <4>6. v.run <= p + 1
        BY <4>2, <4>3
      <4> QED
        BY <4>2, <4>4, <4>5, <4>6 DEF Running
    <3>2. CASE ~r.recovering
      BY <2>4, <3>2 DEF Running
    <3> QED
      BY <3>1, <3>2
  <2> QED
    BY <2>1, <2>4, <2>5 DEF Watched
\* The poll that meets the end.
<1>2. CASE Early(s, p) /\ r.end
  <2>1. ~Early(s, p + 1)
    BY <1>2 DEF Early
  <2>2. w.reached = -1 /\ w.end = 0
    BY <1>2 DEF Watched
  <2> DEFINE at == [w EXCEPT !.reached = p + 1 - 1]
  <2>3. at.reached = p /\ at.end = 0 /\ at \in [run : Nat, reached : Int, end : Nat]
    BY <1>t, <2>2
  <2>4. /\ v.reached = p /\ v.end = IF r.recovering THEN 1 ELSE 0
        /\ v \in [run : Nat, reached : Int, end : Nat]
    <3>1. v = IF at.reached >= 0
              THEN [at EXCEPT !.end = @ + (IF r.recovering THEN 1 ELSE 0)]
              ELSE [at EXCEPT !.run = IF r.recovering THEN @ + 1 ELSE 0]
      <4> DEFINE met == IF r.end /\ w.reached < 0 THEN [w EXCEPT !.reached = p + 1 - 1] ELSE w
      <4>1. met = at
        BY <1>2, <2>2
      <4>2. v = IF met.reached >= 0
                THEN [met EXCEPT !.end = @ + (IF r.recovering THEN 1 ELSE 0)]
                ELSE [met EXCEPT !.run = IF r.recovering THEN @ + 1 ELSE 0]
        BY DEF Watch
      <4> HIDE DEF met, at, v
      <4> QED
        BY <4>1, <4>2, Zenon
    <3> HIDE DEF at, v
    <3>2. v = [at EXCEPT !.end = @ + (IF r.recovering THEN 1 ELSE 0)]
      BY <2>3, <3>1
    <3> QED
      BY <2>3, <3>2
  <2>5. v.end = Cardinality(Spent(s, p + 1))
    BY <1>2, <1>c, <2>4
  <2> QED
    BY <1>2, <2>1, <2>4, <2>5 DEF Watched
\* At the end.
<1>3. CASE ~Early(s, p)
  <2>1. ~Early(s, p + 1)
    BY <1>3 DEF Early
  <2>2. /\ w.reached \in 0..(p - 1) /\ Early(s, w.reached) /\ s.report[w.reached + 1].end
        /\ w.end = Cardinality(Spent(s, p))
    BY <1>3 DEF Watched
  <2>3. r.end
    BY <1>t, <2>2 DEF Wellformed
  <2>4. v = [w EXCEPT !.end = @ + (IF r.recovering THEN 1 ELSE 0)]
    BY <1>t, <2>2, <2>3 DEF Watch
  <2>5. /\ v.reached = w.reached /\ v.end = w.end + IF r.recovering THEN 1 ELSE 0
        /\ v \in [run : Nat, reached : Int, end : Nat]
    BY <1>t, <2>4
  <2>6. v.end = Cardinality(Spent(s, p + 1))
    BY <1>c, <2>2, <2>3, <2>5
  <2> QED
    BY <2>1, <2>2, <2>5, <2>6 DEF Watched
<1> QED
  BY <1>1, <1>2, <1>3

\* ... and its verdict is the bytes'.
LEMMA VerdictRight ==
  ASSUME NEW s, Wellformed(s), NEW p \in 1..Len(s.report), NEW w, Watched(s, p, w)
  PROVE  Verdict(w) = IF LongRecovery(s, p) THEN "error_recovery"
                      ELSE IF LongEnd(s, p) THEN "eof_recovery" ELSE "none"
<1>t. /\ w \in [run : Nat, reached : Int, end : Nat] /\ p \in Nat
      /\ RecoveryCap \in Nat /\ EofFloor \in Nat /\ Len(s.report) \in Nat
  BY ConstantsTyped DEF Watched, ConstantsTyped, Wellformed
<1>1. CASE Early(s, p)
  <2>1. w.reached = -1 /\ Running(s, p, w.run)
    BY <1>1 DEF Watched
  <2>2. p \in Before(s)
    BY <1>1, <1>t DEF Early, Before
  <2>3. ~LongEnd(s, p)
    <3>1. Spent(s, p) = {}
      BY <1>1 DEF Early, Spent
    <3>2. Cardinality(Spent(s, p)) = 0
      BY <3>1, FS_EmptySet
    <3> QED
      BY <1>t, <3>2 DEF LongEnd, Spent
  <2>4. LongRecovery(s, p) <=> w.run > RecoveryCap
    <3>1. ASSUME w.run > RecoveryCap PROVE LongRecovery(s, p)
      BY <1>t, <2>1, <2>2, <3>1 DEF Running, LongRecovery
    <3>2. ASSUME LongRecovery(s, p), ~(w.run > RecoveryCap) PROVE FALSE
      <4>1. w.run < p /\ p - w.run \in (p - RecoveryCap)..p
        BY <1>t, <3>2 DEF LongRecovery
      <4> QED
        BY <2>1, <3>2, <4>1 DEF Running, LongRecovery
    <3> QED
      BY <3>1, <3>2
  <2> QED
    BY <1>t, <2>1, <2>3, <2>4 DEF Verdict
<1>2. CASE ~Early(s, p)
  <2>1. /\ w.reached \in 0..(p - 1) /\ Early(s, w.reached) /\ s.report[w.reached + 1].end
        /\ w.end = Cardinality(Spent(s, p))
    BY <1>2 DEF Watched
  <2>2. Before(s) = 1..w.reached
    <3>1. \A q \in 1..Len(s.report) : s.report[q].end <=> q > w.reached
      BY <1>t, <2>1 DEF Wellformed, Early
    <3> QED
      BY <1>t, <2>1, <3>1 DEF Before
  <2>3. Cardinality(Before(s)) = w.reached
    BY <1>t, <2>1, <2>2, FS_Interval
  <2>4. ~LongRecovery(s, p)
    BY <1>t, <2>1, <2>2 DEF LongRecovery
  <2>5. LongEnd(s, p) <=> w.end > EofFloor /\ w.end > w.reached
    BY <2>1, <2>3 DEF LongEnd, Spent
  <2> QED
    BY <1>t, <2>1, <2>4, <2>5 DEF Verdict
<1> QED
  BY <1>1, <1>2

-----------------------------------------------------------------------------
(* What the bytes decide of a parse.                                       *)

\* The first poll to run into a limit is where an undisturbed parse ends.
LEMMA FirstLimit ==
  ASSUME NEW g \in Grammar, Wellformed(input[g]), ~input.guard,
         NEW p \in Nat, p < Len(input[g].report),
         \A q \in 1..p : Limit(g, input[g], q) = "none",
         Limit(g, input[g], p + 1) # "none"
  PROVE  Undisturbed(g) = Unavailable(Limit(g, input[g], p + 1))
<1> DEFINE s == input[g]
           hits == {q \in 1..Len(s.report) : Limit(g, s, q) # "none"}
<1>1. p + 1 \in hits /\ \A q \in hits : p + 1 <= q
  BY DEF Wellformed
<1>2. \A m \in hits : (\A q \in hits : m <= q) => m = p + 1
  BY <1>1
<1>3. Min(hits) = p + 1
  <2> HIDE DEF hits
  <2> QED
    BY <1>1, <1>2 DEF Min
<1> HIDE DEF hits
<1>4. hits # {} /\ Undisturbed(g) =
        IF input.guard THEN Unavailable("guard")
        ELSE IF hits # {} THEN Unavailable(Limit(g, s, Min(hits)))
        ELSE IF TotalFetched(s, Len(s.report)) + s.tail > FetchBudget THEN Unavailable("lexer")
        ELSE IF s.tree.costly THEN Unavailable("runs") ELSE Parsed(s.tree)
  BY <1>1, Zenon DEF Undisturbed, hits
<1> QED
  BY <1>3, <1>4, Zenon

\* When no poll does, the bytes past the last one decide, and the tree.
LEMMA NoLimit ==
  ASSUME NEW g \in Grammar, ~input.guard,
         \A q \in 1..Len(input[g].report) : Limit(g, input[g], q) = "none"
  PROVE  Undisturbed(g) =
           IF TotalFetched(input[g], Len(input[g].report)) + input[g].tail > FetchBudget
           THEN Unavailable("lexer")
           ELSE IF input[g].tree.costly THEN Unavailable("runs") ELSE Parsed(input[g].tree)
<1> DEFINE s == input[g]
           hits == {q \in 1..Len(s.report) : Limit(g, s, q) # "none"}
<1>1. hits = {}
  OBVIOUS
<1> HIDE DEF hits
<1>2. Undisturbed(g) =
        IF input.guard THEN Unavailable("guard")
        ELSE IF hits # {} THEN Unavailable(Limit(g, s, Min(hits)))
        ELSE IF TotalFetched(s, Len(s.report)) + s.tail > FetchBudget THEN Unavailable("lexer")
        ELSE IF s.tree.costly THEN Unavailable("runs") ELSE Parsed(s.tree)
  BY Zenon DEF Undisturbed, hits
<1> QED
  BY <1>1, <1>2, Zenon

-----------------------------------------------------------------------------
(* The invariant.                                                          *)

TypeOK ==
  /\ input \in UNION {Input(type) : type \in FileTypes}
  /\ pc \in {"start", "read", "poll", "finish", "done"} /\ grammar \in Grammar
  /\ polls \in Nat /\ fetched \in Nat
  /\ recovery \in [run : Nat, reached : Int, end : Nat]
  /\ stop \in Stops /\ late \in BOOLEAN /\ cancelled \in BOOLEAN
  /\ ended \in [Grammar -> Outcome]

\* What the counters of a parse under way say of the bytes.
Counted(g, s) ==
  /\ ~input.guard
  /\ polls \in 0..Len(s.report)
  /\ \A q \in 1..polls : Limit(g, s, q) = "none"
  /\ Capped(input.type, g) => Watched(s, polls, recovery)
  /\ pc = "read" => stop = "none" /\ fetched = TotalFetched(s, polls)
  /\ pc \in {"poll", "finish"} =>
       /\ fetched = IF polls < Len(s.report) THEN TotalFetched(s, polls + 1)
                    ELSE TotalFetched(s, polls) + s.tail
       /\ stop = IF fetched > FetchBudget THEN "lexer" ELSE "none"
       /\ stop = "none" => (pc = "poll" <=> polls < Len(s.report))
Counting == pc \in {"read", "poll", "finish"} => Counted(grammar, Current)

\* Which parses have run.
InOrder ==
  /\ (grammar = "own" /\ pc # "done") => ended["own"] = NotRun
  /\ grammar = "own" => ended["cpp"] = NotRun
  /\ grammar = "cpp" => input.type = "c" /\ Bad(ended["own"])
  /\ pc = "done" => ended[grammar] # NotRun
  /\ (pc = "done" /\ grammar = "own" /\ input.type = "c" /\ Bad(ended["own"])) => cancelled

\* A parse that ran ended as the bytes decide, or says that it did not.
Settled(g) == ended[g] = NotRun \/ ended[g] = Undisturbed(g) \/ Transient(ended[g])

ParseInv == TypeOK /\ Counting /\ InOrder /\ \A g \in Grammar : Settled(g)

-----------------------------------------------------------------------------
(* Every step keeps it.                                                    *)

\* The grammar being parsed with has a script.
LEMMA CurrentWellformed ==
  TypeOK /\ (grammar = "cpp" => input.type = "c") => Wellformed(Current)
BY InputScripted DEF TypeOK, Scripted, Current, Grammar

\* What the bytes decide does not change while they are parsed.
LEMMA SameBytes ==
  ASSUME input' = input
  PROVE  /\ \A g : Undisturbed(g)' = Undisturbed(g)
         /\ \A g, s, p : Limit(g, s, p)' = Limit(g, s, p)
<1>1. \A g : Undisturbed(g)' = Undisturbed(g)
  BY DEF Undisturbed, Limit
<1>2. \A g, s, p : Limit(g, s, p)' = Limit(g, s, p)
  BY DEF Limit
<1> QED
  BY <1>1, <1>2

\* A parse that ends as the bytes decide, or says that it did not, leaves the
\* call at the next grammar or done.
LEMMA EndKeeps ==
  ASSUME ParseInv, pc # "done", NEW o \in Outcome, End(o),
         o.kind # "notrun", o = Undisturbed(grammar) \/ Transient(o),
         UNCHANGED <<input, cancelled>>
  PROVE  /\ pc' \in {"start", "done"} /\ grammar' \in Grammar
         /\ ended' \in [Grammar -> Outcome]
         /\ Counting' /\ InOrder' /\ (\A g \in Grammar : Settled(g))'
<1>0. /\ grammar \in Grammar /\ ended \in [Grammar -> Outcome] /\ InOrder
      /\ \A g \in Grammar : Settled(g)
      /\ input' = input /\ cancelled' = cancelled
  BY DEF ParseInv, TypeOK
<1>1. /\ ended' = [ended EXCEPT ![grammar] = o]
      /\ ended' \in [Grammar -> Outcome] /\ ended'[grammar] = o
      /\ \A g \in Grammar : g # grammar => ended'[g] = ended[g]
  BY <1>0 DEF End
<1>2. /\ o # NotRun
      /\ Bad(NotRun) = FALSE
  BY DEF NotRun, Bad
<1>3. (\A g \in Grammar : Settled(g))'
  <2> SUFFICES ASSUME NEW g \in Grammar PROVE Settled(g)'
    OBVIOUS
  <2>1. Undisturbed(g)' = Undisturbed(g)
    BY <1>0, SameBytes
  <2>2. CASE g = grammar
    BY <1>1, <2>1, <2>2 DEF Settled, Transient
  <2>3. CASE g # grammar
    BY <1>0, <1>1, <2>1, <2>3 DEF Settled, Transient
  <2> QED
    BY <2>2, <2>3
<1>4. CASE grammar = "own" /\ TriesCpp(o)
  <2>1. pc' = "start" /\ grammar' = "cpp"
    BY <1>4 DEF End
  <2>2. ended'["own"] = o /\ input'.type = "c" /\ Bad(o)
    BY <1>0, <1>1, <1>4 DEF TriesCpp, Grammar
  <2>3. InOrder'
    BY <2>1, <2>2 DEF InOrder, Bad
  <2> QED
    BY <1>1, <1>3, <2>1, <2>3 DEF Counting, Grammar
<1>5. CASE ~(grammar = "own" /\ TriesCpp(o))
  <2>1. pc' = "done" /\ grammar' = grammar
    BY <1>5 DEF End
  <2>2. InOrder'
    <3>1. CASE grammar = "own"
      <4>1. ended'["own"] = o /\ ended'["cpp"] = NotRun
        BY <1>0, <1>1, <3>1 DEF Grammar, InOrder
      <4>2. (input'.type = "c" /\ Bad(o)) => cancelled'
        <5>1. input.type = "c" /\ Bad(o) => cancelled
          BY <1>5, <3>1 DEF TriesCpp
        <5> QED
          BY <1>0, <5>1
      <4> QED
        BY <1>2, <2>1, <3>1, <4>1, <4>2 DEF InOrder, Bad
    <3>2. CASE grammar = "cpp"
      <4>1. ended'["own"] = ended["own"] /\ ended'["cpp"] = o
        BY <1>1, <3>2 DEF Grammar
      <4> QED
        BY <1>0, <1>2, <2>1, <3>2, <4>1 DEF InOrder, Bad
    <3> QED
      BY <1>0, <3>1, <3>2 DEF Grammar
  <2> QED
    BY <1>0, <1>1, <1>3, <2>1, <2>2 DEF Counting
<1> QED
  BY <1>4, <1>5

\* Each parse starts counting anew.
LEMMA StartKeeps == ParseInv /\ Start => ParseInv'
<1> SUFFICES ASSUME ParseInv, Start PROVE ParseInv'
  OBVIOUS
<1>1. /\ pc = "start" /\ ~input.guard /\ pc' = "read"
      /\ polls' = 0 /\ fetched' = 0 /\ recovery' = NewWatch /\ stop' = "none"
      /\ UNCHANGED <<input, grammar, cancelled, ended>>
  BY DEF Start
<1>2. TypeOK'
  <2>1. NewWatch \in [run : Nat, reached : Int, end : Nat]
    BY DEF NewWatch
  <2>2. late' = FALSE
    BY DEF Start
  <2> QED
    BY <1>1, <2>1, <2>2 DEF ParseInv, TypeOK, Stops
<1>3. Counting'
  <2>1. PICK g, s : g = grammar /\ s = Current
    OBVIOUS
  <2>2. g = grammar' /\ s = Current'
    BY <1>1, <2>1 DEF Current
  <2>3. Wellformed(s)
    BY <2>1, CurrentWellformed DEF ParseInv, InOrder
  <2>4. TotalFetched(s, 0) = 0 /\ Watched(s, 0, NewWatch) /\ 0 \in 0..Len(s.report)
    BY <2>3, FetchedNumber, NewWatched DEF Wellformed
  <2>5. Counted(g, s)'
    BY <1>1, <2>4 DEF Counted
  <2> QED
    BY <2>2, <2>5 DEF Counting
<1>4. InOrder'
  BY <1>1 DEF ParseInv, InOrder, Bad
<1>5. (\A g \in Grammar : Settled(g))'
  BY <1>1, SameBytes DEF ParseInv, Settled, Transient
<1> QED
  BY <1>2, <1>3, <1>4, <1>5 DEF ParseInv

\* The read callback fetches what the next poll, or the end, is reported with.
LEMMA ReadKeeps == ParseInv /\ Read => ParseInv'
<1> SUFFICES ASSUME ParseInv, Read PROVE ParseInv'
  OBVIOUS
<1> DEFINE n == IF polls < Segments THEN Current.report[polls + 1].fetch ELSE Current.tail
<1>1. /\ pc = "read" /\ fetched' = fetched + n
      /\ stop' = IF fetched + n > FetchBudget THEN "lexer" ELSE stop
      /\ pc' \in IF fetched + n > FetchBudget THEN {"poll", "finish"}
                 ELSE IF polls < Segments THEN {"poll"} ELSE {"finish"}
      /\ UNCHANGED <<input, grammar, polls, recovery, late, cancelled, ended>>
  BY DEF Read
<1>2. PICK g, s, p : g = grammar /\ s = Current /\ p = polls
  OBVIOUS
<1>3. g = grammar' /\ s = Current' /\ p = polls'
  BY <1>1, <1>2 DEF Current
<1>4. Wellformed(s) /\ Len(s.report) \in Nat /\ FetchBudget \in Nat
  BY <1>2, CurrentWellformed, ConstantsTyped DEF ParseInv, InOrder, Wellformed, ConstantsTyped
<1>5. /\ ~input.guard /\ p \in 0..Len(s.report)
      /\ \A q \in 1..p : Limit(g, s, q) = "none"
      /\ Capped(input.type, g) => Watched(s, p, recovery)
      /\ stop = "none" /\ fetched = TotalFetched(s, p)
  BY <1>1, <1>2 DEF ParseInv, Counting, Counted
<1>6. n = IF p < Len(s.report) THEN s.report[p + 1].fetch ELSE s.tail
  BY <1>2 DEF Segments
<1>7. TotalFetched(s, p) \in Nat /\ n \in Nat
  <2>1. p < Len(s.report) => s.report[p + 1].fetch \in Nat
    BY <1>4, <1>5, FetchesNumbers
  <2> QED
    BY <1>4, <1>5, <1>6, <2>1, FetchedNumber DEF Wellformed
<1> HIDE DEF n
<1>8. fetched' = IF p < Len(s.report) THEN TotalFetched(s, p + 1)
                 ELSE TotalFetched(s, p) + s.tail
  <2>1. p \in Nat
    BY <1>4, <1>5
  <2> QED
    BY <1>1, <1>4, <1>5, <1>6, <2>1, FetchedNext
<1>9. /\ fetched' \in Nat /\ stop' = IF fetched' > FetchBudget THEN "lexer" ELSE "none"
      /\ pc' \in {"poll", "finish"}
      /\ stop' = "none" => (pc' = "poll" <=> p < Len(s.report))
  <2>1. polls < Segments <=> p < Len(s.report)
    BY <1>2 DEF Segments
  <2> QED
    BY <1>1, <1>4, <1>5, <1>7, <2>1
<1>10. TypeOK'
  BY <1>1, <1>9 DEF ParseInv, TypeOK, Stops
<1>11. Counting'
  <2>1. \A q \in 1..p : Limit(g, s, q)' = "none"
    BY <1>1, <1>5, SameBytes
  <2>2. Counted(g, s)'
    BY <1>1, <1>3, <1>5, <1>8, <1>9, <2>1 DEF Counted
  <2> QED
    BY <1>3, <2>2 DEF Counting
<1>12. InOrder'
  BY <1>1, <1>9 DEF ParseInv, InOrder, Bad
<1>13. (\A x \in Grammar : Settled(x))'
  BY <1>1, SameBytes DEF ParseInv, Settled, Transient
<1> QED
  BY <1>10, <1>11, <1>12, <1>13 DEF ParseInv

\* The outcomes a parse can have.
LEMMA OutcomesTyped ==
  /\ \A why \in Why : /\ Unavailable(why) \in Outcome
                      /\ Unavailable(why).kind # "notrun"
  /\ \A why \in {"cancelled", "backstop"} : Transient(Unavailable(why))
  /\ TypeOK /\ (grammar = "cpp" => input.type = "c")
       => Parsed(Current.tree) \in Outcome
  /\ \A t : Parsed(t).kind # "notrun"
<1>1. \A why \in Why : Unavailable(why) \in Outcome /\ Unavailable(why).kind # "notrun"
  BY DEF Outcome, Unavailable
<1>2. \A why \in {"cancelled", "backstop"} : Transient(Unavailable(why))
  BY DEF Transient, Unavailable
<1>3. ASSUME TypeOK, grammar = "cpp" => input.type = "c" PROVE Parsed(Current.tree) \in Outcome
  <2>1. PICK type \in FileTypes : input \in Input(type)
    BY <1>3 DEF TypeOK
  <2>2. /\ input.type = type /\ input.own \in Script(type, "own")
        /\ type = "c" => input.cpp \in Script(type, "cpp")
    BY <2>1 DEF Input
  <2>3. /\ input.own.tree \in OwnTrees[type]
        /\ type = "c" => input.cpp.tree \in CppTrees
    BY <2>2 DEF Script
  <2>4. Current.tree \in CppTrees \cup UNION {OwnTrees[x] : x \in FileTypes}
    BY <1>3, <2>2, <2>3 DEF Current, TypeOK, Grammar
  <2> QED
    BY <2>4 DEF Outcome
<1>4. \A t : Parsed(t).kind # "notrun"
  BY DEF Parsed
<1> QED
  BY <1>1, <1>2, <1>3, <1>4

\* A parse that breaks off for a reason the bytes give, or says that load or
\* the caller broke it off.
LEMMA EndedKeeps ==
  ASSUME ParseInv, pc # "done", NEW o \in Outcome,
         End(o), o.kind # "notrun", o = Undisturbed(grammar) \/ Transient(o),
         UNCHANGED <<input, late, cancelled>>,
         polls' \in Nat, fetched' \in Nat, stop' \in Stops,
         recovery' \in [run : Nat, reached : Int, end : Nat]
  PROVE  ParseInv'
<1>1. /\ pc' \in {"start", "done"} /\ grammar' \in Grammar
      /\ ended' \in [Grammar -> Outcome]
      /\ Counting' /\ InOrder' /\ (\A g \in Grammar : Settled(g))'
  BY EndKeeps
<1>2. TypeOK'
  BY <1>1 DEF ParseInv, TypeOK
<1> QED
  BY <1>1, <1>2 DEF ParseInv

\* A refusal says what the bytes say.
LEMMA RefuseKeeps == ParseInv /\ Refuse => ParseInv'
<1> SUFFICES ASSUME ParseInv, Refuse PROVE ParseInv'
  OBVIOUS
<1>1. Unavailable("guard") = Undisturbed(grammar)
  BY DEF Refuse, Undisturbed
<1>2. Unavailable("guard") \in Outcome /\ Unavailable("guard").kind # "notrun"
  BY OutcomesTyped DEF Why
<1> QED
  BY <1>1, <1>2, EndedKeeps DEF ParseInv, TypeOK, Refuse

\* The lexer's budget is spent where the bytes spend it.
LEMMA LexerRight ==
  ASSUME ParseInv, pc \in {"poll", "finish"}, stop = "lexer"
  PROVE  Undisturbed(grammar) = Unavailable("lexer")
<1>1. PICK g, s, p : g = grammar /\ s = input[g] /\ p = polls
  OBVIOUS
<1>2. g \in Grammar /\ Wellformed(s) /\ Len(s.report) \in Nat
  BY <1>1, CurrentWellformed DEF ParseInv, TypeOK, InOrder, Wellformed, Current
<1>3. /\ ~input.guard /\ p \in 0..Len(s.report)
      /\ \A q \in 1..p : Limit(g, s, q) = "none"
      /\ fetched = IF p < Len(s.report) THEN TotalFetched(s, p + 1)
                   ELSE TotalFetched(s, p) + s.tail
      /\ fetched > FetchBudget
  BY <1>1 DEF ParseInv, Counting, Counted, Current
<1>4. CASE p < Len(s.report)
  <2>1. Limit(g, s, p + 1) = "lexer"
    BY <1>3, <1>4 DEF Limit, LexerOut
  <2>2. p \in Nat
    BY <1>2, <1>3
  <2> QED
    BY <1>1, <1>2, <1>3, <1>4, <2>1, <2>2, FirstLimit
<1>5. CASE ~(p < Len(s.report))
  <2>1. p = Len(s.report)
    BY <1>2, <1>3, <1>5
  <2> QED
    BY <1>1, <1>2, <1>3, <1>5, <2>1, NoLimit
<1> QED
  BY <1>4, <1>5

\* The poll that sees the lexer's budget spent.
LEMMA PollLexerKeeps == ParseInv /\ PollLexer => ParseInv'
<1> SUFFICES ASSUME ParseInv, PollLexer PROVE ParseInv'
  OBVIOUS
<1>1. Unavailable("lexer") = Undisturbed(grammar)
  BY LexerRight DEF PollLexer
<1>2. Unavailable("lexer") \in Outcome /\ Unavailable("lexer").kind # "notrun"
  BY OutcomesTyped DEF Why, Stops
<1> QED
  BY <1>1, <1>2, EndedKeeps DEF ParseInv, TypeOK, PollLexer, Break

\* The poll that sees the caller's flag says so.
LEMMA PollCancelledKeeps == ParseInv /\ PollCancelled => ParseInv'
<1> SUFFICES ASSUME ParseInv, PollCancelled PROVE ParseInv'
  OBVIOUS
<1>1. Transient(Unavailable("cancelled"))
  BY OutcomesTyped
<1>2. Unavailable("cancelled") \in Outcome /\ Unavailable("cancelled").kind # "notrun"
  BY OutcomesTyped DEF Why, Stops
<1>3. "cancelled" \in Stops
  BY DEF Stops
<1> QED
  BY <1>1, <1>2, <1>3, EndedKeeps DEF ParseInv, TypeOK, PollCancelled, Break

\* At a poll with the lexer's budget unspent: the bytes have spent neither it,
\* nor, by any poll before, another limit.
LEMMA AtPoll ==
  ASSUME ParseInv, pc = "poll", stop # "lexer"
  PROVE  /\ grammar \in Grammar /\ Wellformed(Current) /\ ~input.guard
         /\ polls \in Nat /\ polls < Len(Current.report)
         /\ \A q \in 1..polls : Limit(grammar, Current, q) = "none"
         /\ Capped(input.type, grammar) => Watched(Current, polls, recovery)
         /\ stop = "none" /\ fetched = TotalFetched(Current, polls + 1)
         /\ ~LexerOut(Current, polls + 1)
<1>1. PICK g, s, p : g = grammar /\ s = Current /\ p = polls
  OBVIOUS
<1>2. g \in Grammar /\ Wellformed(s) /\ Len(s.report) \in Nat
  BY <1>1, CurrentWellformed DEF ParseInv, TypeOK, InOrder, Wellformed
<1>3. Counted(g, s)
  BY <1>1 DEF ParseInv, Counting
<1>4. /\ stop = "none" /\ p < Len(s.report) /\ fetched = TotalFetched(s, p + 1)
      /\ ~(fetched > FetchBudget) /\ ~input.guard /\ p \in 0..Len(s.report)
      /\ \A q \in 1..p : Limit(g, s, q) = "none"
      /\ Capped(input.type, g) => Watched(s, p, recovery)
  BY <1>1, <1>3 DEF Counted
<1> QED
  BY <1>1, <1>2, <1>4 DEF LexerOut

\* The poll that spends the budget is the bytes' first beyond it.
LEMMA PollBudgetKeeps == ParseInv /\ PollBudget => ParseInv'
<1> SUFFICES ASSUME ParseInv, PollBudget PROVE ParseInv'
  OBVIOUS
<1>1. /\ pc = "poll" /\ stop # "lexer" /\ polls + 1 > Budget /\ polls' = polls + 1
      /\ stop' = "budget" /\ End(Unavailable("budget"))
      /\ UNCHANGED <<input, fetched, recovery, late, cancelled>>
  BY DEF PollBudget, Break
<1>2. Limit(grammar, Current, polls + 1) = "budget"
  BY <1>1, AtPoll DEF Limit
<1>3. Undisturbed(grammar) = Unavailable("budget")
  <2>1. PICK g, s, p : g = grammar /\ s = input[g] /\ p = polls
    OBVIOUS
  <2>2. g \in Grammar /\ Wellformed(s) /\ ~input.guard /\ p \in Nat /\ p < Len(s.report)
        /\ (\A q \in 1..p : Limit(g, s, q) = "none") /\ Limit(g, s, p + 1) = "budget"
    BY <1>1, <1>2, <2>1, AtPoll DEF Current
  <2> QED
    BY <2>1, <2>2, FirstLimit
<1>4. Unavailable("budget") \in Outcome /\ Unavailable("budget").kind # "notrun"
  BY OutcomesTyped DEF Why, Stops
<1>5. "budget" \in Stops /\ polls' \in Nat
  BY <1>1 DEF Stops, ParseInv, TypeOK
<1> QED
  BY <1>1, <1>3, <1>4, <1>5, EndedKeeps DEF ParseInv, TypeOK

\* A watch stays one.
LEMMA WatchTyped ==
  ASSUME NEW w \in [run : Nat, reached : Int, end : Nat], NEW p \in Nat, NEW r \in Report
  PROVE  Watch(w, p, r) \in [run : Nat, reached : Int, end : Nat]
BY DEF Watch, Report

\* A poll within the budget breaks off where the bytes do, or for the clock.
LEMMA PollKeeps == ParseInv /\ Poll => ParseInv'
<1> SUFFICES ASSUME ParseInv, Poll PROVE ParseInv'
  OBVIOUS
<1> DEFINE v == Watch(recovery, polls + 1, Current.report[polls + 1])
           why == IF Capped(input.type, grammar) THEN Verdict(v) ELSE "none"
<1>1. /\ pc = "poll" /\ stop # "lexer" /\ polls + 1 <= Budget /\ polls' = polls + 1
      /\ recovery' = IF Capped(input.type, grammar) THEN v ELSE recovery
      /\ IF why # "none" THEN Break(why)
         ELSE IF late THEN Break("backstop")
         ELSE pc' = "read" /\ UNCHANGED <<stop, grammar, ended>>
      /\ UNCHANGED <<input, fetched, late, cancelled>>
  BY DEF Poll
<1>2. PICK g, s, p : g = grammar /\ s = Current /\ p = polls
  OBVIOUS
<1>3. /\ g \in Grammar /\ Wellformed(s) /\ ~input.guard /\ p \in Nat /\ p < Len(s.report)
      /\ \A q \in 1..p : Limit(g, s, q) = "none"
      /\ Capped(input.type, g) => Watched(s, p, recovery)
      /\ stop = "none" /\ fetched = TotalFetched(s, p + 1) /\ ~LexerOut(s, p + 1)
  BY <1>1, <1>2, AtPoll
<1>4. p + 1 \in 1..Len(s.report) /\ s.report[p + 1] \in Report /\ Budget \in Nat
  BY <1>3, ConstantsTyped DEF Wellformed, ConstantsTyped
<1>5. v = Watch(recovery, p + 1, s.report[p + 1])
  BY <1>2
<1>6. v \in [run : Nat, reached : Int, end : Nat]
  <2>1. recovery \in [run : Nat, reached : Int, end : Nat]
    BY DEF ParseInv, TypeOK
  <2>2. p + 1 \in Nat \ {0}
    BY <1>4, <1>3 DEF Wellformed
  <2> QED
    BY <1>4, <1>5, <2>1, <2>2, WatchTyped
<1>7. Capped(input.type, g) => Watched(s, p + 1, v)
  BY <1>3, <1>5, WatchNext
<1> HIDE DEF v
<1>8. Limit(g, s, p + 1) = why
  <2>1. ~(p + 1 > Budget)
    BY <1>1, <1>2, <1>3, <1>4
  <2>2. CASE Capped(input.type, g)
    <3>1. Verdict(v) = IF LongRecovery(s, p + 1) THEN "error_recovery"
                       ELSE IF LongEnd(s, p + 1) THEN "eof_recovery" ELSE "none"
      BY <1>3, <1>4, <1>7, <2>2, VerdictRight
    <3> QED
      BY <1>2, <1>3, <2>1, <2>2, <3>1, Zenon DEF Limit
  <2>3. CASE ~Capped(input.type, g)
    BY <1>2, <1>3, <2>1, <2>3, Zenon DEF Limit
  <2> QED
    BY <2>2, <2>3
<1> HIDE DEF why
<1>9. /\ polls' \in Nat /\ fetched' \in Nat
      /\ recovery' \in [run : Nat, reached : Int, end : Nat]
  BY <1>1, <1>6 DEF ParseInv, TypeOK
<1>10. CASE why # "none"
  <2>1. stop' = why /\ End(Unavailable(why))
    BY <1>1, <1>10, Zenon DEF Break
  <2>2. why \in Stops \ {"none"}
    BY <1>10 DEF why, Verdict, Stops
  <2>3. Undisturbed(grammar) = Unavailable(why)
    <3>1. g = grammar /\ s = input[g]
      BY <1>2 DEF Current
    <3> QED
      BY <1>3, <1>8, <1>10, <3>1, FirstLimit
  <2>4. Unavailable(why) \in Outcome /\ Unavailable(why).kind # "notrun"
    BY <2>2, OutcomesTyped DEF Why
  <2> QED
    BY <1>1, <1>9, <2>1, <2>2, <2>3, <2>4, EndedKeeps
<1>11. CASE why = "none" /\ late
  <2>1. stop' = "backstop" /\ End(Unavailable("backstop"))
    BY <1>1, <1>11, Zenon DEF Break
  <2>2. "backstop" \in Stops \ {"none"}
    BY DEF Stops
  <2>3. Transient(Unavailable("backstop"))
    BY OutcomesTyped
  <2>4. Unavailable("backstop") \in Outcome /\ Unavailable("backstop").kind # "notrun"
    BY <2>2, OutcomesTyped DEF Why
  <2> QED
    BY <1>1, <1>9, <2>1, <2>2, <2>3, <2>4, EndedKeeps
<1>12. CASE why = "none" /\ ~late
  <2>1. pc' = "read" /\ UNCHANGED <<stop, grammar, ended>>
    BY <1>1, <1>12, Zenon
  <2>2. TypeOK'
    BY <1>1, <1>9, <2>1 DEF ParseInv, TypeOK
  <2>3. g = grammar' /\ s = Current' /\ p + 1 = polls'
    BY <1>1, <1>2, <2>1 DEF Current
  <2>4. \A q \in 1..(p + 1) : Limit(g, s, q)' = "none"
    <3> TAKE q \in 1..(p + 1)
    <3>1. q = p + 1 \/ q \in 1..p
      BY <1>3
    <3>2. Limit(g, s, q) = "none"
      BY <1>3, <1>8, <1>12, <3>1
    <3> QED
      BY <1>1, <3>2, SameBytes
  <2>5. Capped(input.type, g) => recovery' = v
    BY <1>1, <1>2
  <2>6. Counted(g, s)'
    <3>1. polls' \in 0..Len(s.report)
      BY <1>3, <1>4, <2>3
    <3>2. \A q \in 1..polls' : Limit(g, s, q)' = "none"
      BY <2>3, <2>4
    <3>3. Capped(input'.type, g) => Watched(s, polls', recovery')
      BY <1>1, <1>7, <2>3, <2>5
    <3> QED
      BY <1>1, <1>3, <2>1, <2>3, <3>1, <3>2, <3>3 DEF Counted
  <2>7. Counting'
    BY <2>3, <2>6 DEF Counting
  <2>8. InOrder'
    BY <1>1, <2>1 DEF ParseInv, InOrder, Bad
  <2>9. (\A x \in Grammar : Settled(x))'
    BY <1>1, <2>1, SameBytes DEF ParseInv, Settled, Transient
  <2> QED
    BY <2>2, <2>7, <2>8, <2>9 DEF ParseInv
<1> QED
  BY <1>10, <1>11, <1>12

\* The tree a parse ends with is the one the bytes give.
LEMMA FinishKeeps == ParseInv /\ Finish => ParseInv'
<1> SUFFICES ASSUME ParseInv, Finish PROVE ParseInv'
  OBVIOUS
<1> DEFINE o == IF stop = "lexer" THEN Unavailable("lexer")
                ELSE IF Current.tree.costly THEN Unavailable("runs") ELSE Parsed(Current.tree)
<1>1. /\ pc = "finish" /\ End(o)
      /\ UNCHANGED <<input, polls, fetched, recovery, stop, late, cancelled>>
  BY DEF Finish, TreeUsable
<1>2. o \in Outcome /\ o.kind # "notrun"
  BY OutcomesTyped DEF Why, Stops, ParseInv, InOrder
<1>3. o = Undisturbed(grammar)
  <2>1. CASE stop = "lexer"
    BY <1>1, <2>1, LexerRight
  <2>2. CASE stop # "lexer"
    <3>1. PICK g, s : g = grammar /\ s = input[g]
      OBVIOUS
    <3>2. g \in Grammar /\ Wellformed(s) /\ Len(s.report) \in Nat
      BY <3>1, CurrentWellformed DEF ParseInv, TypeOK, InOrder, Wellformed, Current
    <3>3. Counted(g, s)
      BY <1>1, <3>1 DEF ParseInv, Counting, Current
    <3>4. /\ polls = Len(s.report) /\ ~input.guard
          /\ \A q \in 1..Len(s.report) : Limit(g, s, q) = "none"
          /\ ~(TotalFetched(s, Len(s.report)) + s.tail > FetchBudget)
      BY <1>1, <2>2, <3>2, <3>3 DEF Counted
    <3>5. Undisturbed(g) = IF s.tree.costly THEN Unavailable("runs") ELSE Parsed(s.tree)
      BY <3>1, <3>2, <3>4, NoLimit
    <3> QED
      BY <2>2, <3>1, <3>5 DEF Current
  <2> QED
    BY <2>1, <2>2
<1> HIDE DEF o
<1> QED
  BY <1>1, <1>2, <1>3, EndedKeeps DEF ParseInv, TypeOK

\* The clock and the caller disturb no count.
LEMMA OutsideKeeps == ParseInv /\ (TimeUp \/ Cancel \/ UNCHANGED vars) => ParseInv'
<1> SUFFICES ASSUME ParseInv, TimeUp \/ Cancel \/ UNCHANGED vars PROVE ParseInv'
  OBVIOUS
<1>1. /\ UNCHANGED <<input, pc, grammar, polls, fetched, recovery, stop, ended>>
      /\ late' \in BOOLEAN /\ cancelled' \in BOOLEAN /\ (cancelled => cancelled')
  BY DEF TimeUp, Cancel, vars, ParseInv, TypeOK
<1>2. TypeOK'
  BY <1>1 DEF ParseInv, TypeOK
<1>3. Counting'
  <2>1. PICK g, s : g = grammar /\ s = Current
    OBVIOUS
  <2>2. g = grammar' /\ s = Current'
    BY <1>1, <2>1 DEF Current
  <2>3. ASSUME Counted(g, s) PROVE Counted(g, s)'
    <3>1. \A q : Limit(g, s, q)' = Limit(g, s, q)
      BY <1>1, SameBytes
    <3> QED
      BY <1>1, <2>3, <3>1 DEF Counted
  <2> QED
    BY <1>1, <2>1, <2>2, <2>3 DEF ParseInv, Counting
<1>4. InOrder'
  BY <1>1 DEF ParseInv, InOrder, Bad
<1>5. (\A g \in Grammar : Settled(g))'
  BY <1>1, SameBytes DEF ParseInv, Settled, Transient
<1> QED
  BY <1>2, <1>3, <1>4, <1>5 DEF ParseInv

\* It holds when the call begins.
LEMMA InitKeeps == Init => ParseInv
<1> SUFFICES ASSUME Init PROVE ParseInv
  OBVIOUS
<1>1. TypeOK
  <2>1. NotRun \in Outcome /\ "own" \in Grammar
    BY DEF Outcome, Grammar
  <2>2. NewWatch \in [run : Nat, reached : Int, end : Nat]
    BY DEF NewWatch
  <2> QED
    BY <2>1, <2>2 DEF Init, TypeOK, Stops
<1>2. Counting /\ InOrder /\ \A g \in Grammar : Settled(g)
  BY DEF Init, Counting, InOrder, Settled, Grammar
<1> QED
  BY <1>1, <1>2 DEF ParseInv

\* The counters of a parse are what the bytes make them, whatever the caller
\* and the clock do meanwhile.
THEOREM CountsFromBytes == Spec => []ParseInv
<1>1. ParseInv /\ [Next]_vars => ParseInv'
  BY RefuseKeeps, StartKeeps, ReadKeeps, FinishKeeps, PollLexerKeeps, PollCancelledKeeps,
     PollBudgetKeeps, PollKeeps, OutsideKeeps DEF Next
<1> QED
  BY <1>1, InitKeeps, PTL DEF Spec

\* The state stays typed: the counters of TreeCache::parse, and its outcomes.
THEOREM TypeCorrect == Spec => []TypeOK
BY CountsFromBytes, PTL DEF ParseInv

-----------------------------------------------------------------------------
(* What follows.                                                           *)

\* A call ends with one grammar's outcome unless both ran.
LEMMA ReturnedOwn ==
  ended["cpp"] = NotRun => Returned = ended["own"]
BY DEF Returned, Choose, TakesCpp, NotRun

\* A file parsed with one grammar: whatever the load, an outcome that does not
\* call itself transient is the one every run gives on these bytes.
THEOREM SameForEveryRun == Spec => []OneGrammarFromBytes
<1>1. ParseInv => OneGrammarFromBytes
  <2> SUFFICES ASSUME ParseInv, input.type # "c", pc = "done", ~Transient(Returned)
               PROVE  Returned = FromBytes
    BY DEF OneGrammarFromBytes, OutcomeFromBytes
  <2>1. grammar = "own" /\ ended["cpp"] = NotRun /\ ended["own"] # NotRun
    BY DEF ParseInv, InOrder, TypeOK, Grammar
  <2>2. Returned = ended["own"]
    BY <2>1, ReturnedOwn
  <2>3. Settled("own")
    BY DEF ParseInv, Grammar
  <2>4. ended["own"] = Undisturbed("own")
    BY <2>1, <2>2, <2>3 DEF Settled
  <2> QED
    BY <2>2, <2>4 DEF FromBytes
<1> QED
  BY <1>1, CountsFromBytes, PTL

\* A C file: when neither parse was stopped by load or cancellation, and no
\* cancellation kept one from running.
THEOREM SameForUndisturbedRuns == Spec => []UndisturbedFromBytes
<1>1. ParseInv => UndisturbedFromBytes
  <2> SUFFICES ASSUME ParseInv, pc = "done", ~cancelled,
                      \A g \in Grammar : ~Transient(ended[g])
               PROVE  Returned = FromBytes
    BY DEF UndisturbedFromBytes
  <2>1. Settled("own") /\ Settled("cpp") /\ ~Transient(ended["own"]) /\ ~Transient(ended["cpp"])
    BY DEF ParseInv, Grammar
  <2>2. CASE grammar = "own"
    <3>1. ended["cpp"] = NotRun /\ ended["own"] # NotRun
          /\ ~(input.type = "c" /\ Bad(ended["own"]))
      BY <2>2 DEF ParseInv, InOrder
    <3>2. Returned = ended["own"] /\ ended["own"] = Undisturbed("own")
      BY <2>1, <3>1, ReturnedOwn DEF Settled
    <3> QED
      BY <3>1, <3>2 DEF FromBytes
  <2>3. CASE grammar = "cpp"
    <3>1. ended["cpp"] # NotRun /\ input.type = "c" /\ Bad(ended["own"])
      BY <2>3 DEF ParseInv, InOrder
    <3>2. ended["own"] # NotRun
      BY <3>1 DEF Bad, NotRun
    <3>3. ended["own"] = Undisturbed("own") /\ ended["cpp"] = Undisturbed("cpp")
      BY <2>1, <3>1, <3>2 DEF Settled
    <3> QED
      BY <3>1, <3>3, Zenon DEF FromBytes, Returned, Choose, TakesCpp
  <2> QED
    BY <2>2, <2>3 DEF ParseInv, TypeOK, Grammar
<1> QED
  BY <1>1, CountsFromBytes, PTL

=============================================================================
