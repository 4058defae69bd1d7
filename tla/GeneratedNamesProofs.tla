------------------------ MODULE GeneratedNamesProofs ------------------------
(***************************************************************************)
(* What is proved of GeneratedNames, for any programs that are sequences   *)
(* of statements: the names that the generator reads off a disciplined     *)
(* source are those its routers serve, and each procedure's middlewares    *)
(* are those of the routers around it, in order.                           *)
(*                                                                         *)
(* First the walks over merges: that they end, and what merging adds to    *)
(* them.  Then the routers after each statement of a factory, and of main: *)
(* what they hold comes from a registration whose router is known.  When   *)
(* main is over, a count shows that no registration was lost.              *)
(***************************************************************************)
EXTENDS GeneratedNames, WatchProofs, SequenceTheorems, FiniteSetTheorems

-----------------------------------------------------------------------------
(* Sequences *)

LEMMA MaxOf ==
  ASSUME NEW S \in SUBSET Nat, NEW i \in S, \A j \in S : j <= i
  PROVE  Max(S) = i
  <1>1. \A j \in S : i >= j
    OBVIOUS
  <1>2. \A x \in S : (\A j \in S : x >= j) => x = i
    <2> TAKE x \in S
    <2> HAVE \A j \in S : x >= j
    <2>1. x >= i /\ i >= x /\ x \in Nat /\ i \in Nat
      BY <1>1
    <2> QED BY <2>1
  <1>3. (CHOOSE x \in S : \A y \in S : x >= y) = i
    BY <1>1, <1>2
  <1> QED BY <1>3 DEF Max

LEMMA MaxOfOne == \A i \in Nat : Max({i}) = i
  BY DEF Max

LEMMA Join ==
  /\ <<>> \in Seq(STRING)
  /\ \A a \in Seq(STRING) : <<>> \o a = a /\ a \o <<>> = a
  /\ \A a \in Seq(STRING), b \in Seq(STRING) : a \o b \in Seq(STRING)
  OBVIOUS

LEMMA Rebracket ==
  ASSUME NEW a \in Seq(STRING), NEW b \in Seq(STRING), NEW c \in Seq(STRING)
  PROVE  (a \o b) \o c = a \o (b \o c)
  OBVIOUS

\* Merge finds a name behind its prefix.
LEMMA BehindPrefix ==
  ASSUME NEW S, NEW a \in Seq(S), NEW b \in Seq(S)
  PROVE  SubSeq(a \o b, Len(a) + 1, Len(a \o b)) = b
  OBVIOUS

-----------------------------------------------------------------------------
(* The functions by which the modules iterate *)

UsesFirst(q) == <<>>
UsesStep(q, n, x) ==
  IF q[1][n].pkg = q[2] /\ q[1][n].op = "use" /\ q[1][n].var = q[3]
  THEN Append(x, q[1][n].mw) ELSE x
UsesSteps == INSTANCE Iteration WITH First <- UsesFirst, Step <- UsesStep

AfterFirst(q) == <<>>
AfterStep(q, n, x) == IF q[1][n].pkg = q[2] THEN Exec(x, q[3], q[1][n]) ELSE x
AfterSteps == INSTANCE Iteration WITH First <- AfterFirst, Step <- AfterStep

WalkFirst(q) == [var |-> q[2], prefix |-> <<>>, seen |-> {}]
WalkStep(q, n, x) == Up(q[1], x)
WalkSteps == INSTANCE Iteration WITH First <- WalkFirst, Step <- WalkStep

AroundFirst(q) == [var |-> q[2], chain |-> UsedBy(q[1], q[2], Len(q[1]))]
AroundStep(q, n, x) == Outwards(q[1], x)
AroundSteps == INSTANCE Iteration WITH First <- AroundFirst, Step <- AroundStep

\* Induction, over sets of numbers.
LEMMA AllNumbers ==
  ASSUME NEW T \in SUBSET Nat, 0 \in T, \A n \in T : n + 1 \in T
  PROVE  T = Nat
  <1> SUFFICES ASSUME Nat \ T # {} PROVE FALSE
    OBVIOUS
  <1>1. PICK x \in Nat \ T : \A y \in Nat \ T : x <= y
    <2> DEFINE S == Nat \ T
    <2>1. S \in SUBSET Nat /\ S # {}
      OBVIOUS
    <2> HIDE DEF S
    <2>2. \E x \in S : \A y \in S : x <= y
      BY <2>1, UsesSteps!LeastNatural
    <2> QED BY <2>2 DEF S
  <1>2. x # 0 /\ x - 1 \in Nat
    BY <1>1
  <1>3. x - 1 \in T
    BY <1>1, <1>2
  <1> QED BY <1>1, <1>2, <1>3

UsesAt(p, pkg, var, n) == Uses(p, pkg, var)[n]

Using(s, pkg, var) == s.pkg = pkg /\ s.op = "use" /\ s.var = var

\* What was used on a router by each statement.
LEMMA UsesOf ==
  ASSUME NEW p, NEW pkg, NEW var
  PROVE  /\ UsesAt(p, pkg, var, 0) = <<>>
         /\ \A n \in Nat \ {0} :
              UsesAt(p, pkg, var, n) =
                IF Using(p[n], pkg, var)
                THEN Append(UsesAt(p, pkg, var, n - 1), p[n].mw) ELSE UsesAt(p, pkg, var, n - 1)
  <1> DEFINE q == <<p, pkg, var>>
  <1>1. PICK f : UsesSteps!Iterates(f, q, Nat)
    BY UsesSteps!IterationExists
  <1>2. q[1] = p /\ q[2] = pkg /\ q[3] = var
    OBVIOUS
  <1> HIDE DEF q
  <1>3. f = [n \in Nat |->
         IF n = 0 THEN <<>>
         ELSE IF p[n].pkg = pkg /\ p[n].op = "use" /\ p[n].var = var
              THEN Append(f[n - 1], p[n].mw) ELSE f[n - 1]]
    BY <1>1, <1>2 DEF UsesSteps!Iterates, UsesFirst, UsesStep
  <1>4. Uses(p, pkg, var) = [n \in Nat |->
         IF n = 0 THEN <<>>
         ELSE IF p[n].pkg = pkg /\ p[n].op = "use" /\ p[n].var = var
              THEN Append(Uses(p, pkg, var)[n - 1], p[n].mw) ELSE Uses(p, pkg, var)[n - 1]]
    BY <1>3, Zenon DEF Uses
  <1> QED BY <1>4 DEF UsesAt, Using

EnvAt(p, pkg, make, n) == After(p, pkg, make)[n]

Within(s, pkg) == s.pkg = pkg

\* The routers after each statement.
LEMMA AfterOf ==
  ASSUME NEW p, NEW pkg, NEW make
  PROVE  /\ EnvAt(p, pkg, make, 0) = <<>>
         /\ \A n \in Nat \ {0} :
              EnvAt(p, pkg, make, n) =
                IF Within(p[n], pkg) THEN Exec(EnvAt(p, pkg, make, n - 1), make, p[n])
                ELSE EnvAt(p, pkg, make, n - 1)
  <1> DEFINE q == <<p, pkg, make>>
  <1>1. PICK f : AfterSteps!Iterates(f, q, Nat)
    BY AfterSteps!IterationExists
  <1>2. q[1] = p /\ q[2] = pkg /\ q[3] = make
    OBVIOUS
  <1> HIDE DEF q
  <1>3. f = [n \in Nat |->
         IF n = 0 THEN <<>>
         ELSE IF p[n].pkg = pkg THEN Exec(f[n - 1], make, p[n]) ELSE f[n - 1]]
    BY <1>1, <1>2 DEF AfterSteps!Iterates, AfterFirst, AfterStep
  <1>4. After(p, pkg, make) = [n \in Nat |->
         IF n = 0 THEN <<>>
         ELSE IF p[n].pkg = pkg THEN Exec(After(p, pkg, make)[n - 1], make, p[n])
              ELSE After(p, pkg, make)[n - 1]]
    BY <1>3, Zenon DEF After
  <1> QED BY <1>4 DEF EnvAt, Within

\* The walk of resolvePrefixes, step by step.
LEMMA WalkOf ==
  ASSUME NEW merges, NEW var
  PROVE  /\ Walk(merges, var)[0] = [var |-> var, prefix |-> <<>>, seen |-> {}]
         /\ \A n \in Nat : Walk(merges, var)[n + 1] = Up(merges, Walk(merges, var)[n])
  <1> DEFINE q == <<merges, var>>
  <1>1. PICK f : WalkSteps!Iterates(f, q, Nat)
    BY WalkSteps!IterationExists
  <1>2. q[1] = merges /\ q[2] = var
    OBVIOUS
  <1> HIDE DEF q
  <1>3. f = [n \in Nat |->
         IF n = 0 THEN [var |-> var, prefix |-> <<>>, seen |-> {}] ELSE Up(merges, f[n - 1])]
    BY <1>1, <1>2 DEF WalkSteps!Iterates, WalkFirst, WalkStep
  <1>4. Walk(merges, var) = [n \in Nat |->
         IF n = 0 THEN [var |-> var, prefix |-> <<>>, seen |-> {}]
         ELSE Up(merges, Walk(merges, var)[n - 1])]
    BY <1>3, Zenon DEF Walk
  <1>5. ASSUME NEW n \in Nat PROVE n + 1 \in Nat /\ n + 1 # 0 /\ (n + 1) - 1 = n
    OBVIOUS
  <1> QED BY <1>4, <1>5

AroundAt(p, var, n) == Around(p, var)[n]

\* The walk outwards, step by step.
LEMMA AroundOf ==
  ASSUME NEW p, NEW var
  PROVE  /\ AroundAt(p, var, 0) = [var |-> var, chain |-> UsedBy(p, var, Len(p))]
         /\ \A n \in Nat : AroundAt(p, var, n + 1) = Outwards(p, AroundAt(p, var, n))
  <1> DEFINE q == <<p, var>>
  <1>1. PICK f : AroundSteps!Iterates(f, q, Nat)
    BY AroundSteps!IterationExists
  <1>2. q[1] = p /\ q[2] = var
    OBVIOUS
  <1> HIDE DEF q
  <1>3. f = [n \in Nat |->
         IF n = 0 THEN [var |-> var, chain |-> UsedBy(p, var, Len(p))] ELSE Outwards(p, f[n - 1])]
    BY <1>1, <1>2 DEF AroundSteps!Iterates, AroundFirst, AroundStep
  <1>4. Around(p, var) = [n \in Nat |->
         IF n = 0 THEN [var |-> var, chain |-> UsedBy(p, var, Len(p))]
         ELSE Outwards(p, Around(p, var)[n - 1])]
    BY <1>3, Zenon DEF Around
  <1>5. ASSUME NEW n \in Nat PROVE n + 1 \in Nat /\ n + 1 # 0 /\ (n + 1) - 1 = n
    OBVIOUS
  <1> QED BY <1>4, <1>5 DEF AroundAt

-----------------------------------------------------------------------------
(* Disciplined programs *)

Registers(p) == Positions(p, "register")
Merges(p) == Positions(p, "merge")
Assigns(p) == Positions(p, "assign")

\* Held in a variable, and not what a call returns.
InVariable(v) == v # ""

Good(p, typed) == WellFormed(p) /\ Disciplined(p, typed)

\* Factories use and register on "r"; all else is main's.
LEMMA Statements ==
  ASSUME NEW p, NEW typed, Good(p, typed)
  PROVE  /\ Len(p) \in Nat /\ DOMAIN p = 1..Len(p)
         /\ \A i \in DOMAIN p :
              /\ p[i].op \in {"use", "register", "merge", "assign"}
              /\ p[i].pkg # Main => p[i].op \in {"use", "register"} /\ p[i].var = "r"
              /\ p[i].op = "use" => p[i].mw \in STRING
              /\ p[i].op = "register" =>
                   p[i].name \in Seq(STRING) /\ p[i].type \in STRING /\ p[i].own \in Seq(STRING)
         /\ \A i \in Merges(p) \cup Assigns(p) : p[i].pkg = Main
         /\ \A i \in Assigns(p) : p[i].of \in Packages(p)
  <1>1. WellFormed(p) /\ FactoriesSimple(p, typed)
    BY DEF Good, Disciplined
  <1>2. Len(p) \in Nat /\ DOMAIN p = 1..Len(p)
    BY <1>1 DEF WellFormed
  <1>3. ASSUME NEW i \in DOMAIN p
        PROVE  /\ p[i].op \in {"use", "register", "merge", "assign"}
               /\ p[i].pkg # Main => p[i].op \in {"use", "register"} /\ p[i].var = "r"
               /\ p[i].op = "use" => p[i].mw \in STRING
               /\ p[i].op = "register" =>
                    p[i].name \in Seq(STRING) /\ p[i].type \in STRING /\ p[i].own \in Seq(STRING)
    <2>1. p[i].pkg # Main => p[i].op \in {"use", "register"} /\ p[i].var = "r"
      BY <1>1 DEF FactoriesSimple, InMain
    <2> QED BY <1>1, <2>1 DEF WellFormed
  <1>4. \A i \in Merges(p) \cup Assigns(p) : p[i].pkg = Main
    BY <1>3 DEF Merges, Assigns, Positions
  <1>5. \A i \in Assigns(p) : p[i].of \in Packages(p)
    BY <1>1 DEF WellFormed, Assigns, Positions
  <1> QED BY <1>2, <1>3, <1>4, <1>5

\* A merged router is merged by one statement, after every statement that
\* changes it; all but the one that serves are.
LEMMA Merging ==
  ASSUME NEW p, NEW typed, Good(p, typed)
  PROVE  /\ Merges(p) \in SUBSET Nat /\ IsFiniteSet(Merges(p)) /\ Cardinality(Merges(p)) \in Nat
         /\ MergeInfos(p) = [n \in Merges(p) |-> p[n]]
         /\ \A i \in Merges(p) :
              /\ p[i].prefix \in Seq(STRING)
              /\ InVariable(p[i].child) /\ p[i].child # AppRouter
              /\ \A j \in Merges(p) : p[j].child = p[i].child => j = i
              /\ p[i].parent = AppRouter
                   \/ \E j \in Merges(p) : p[j].child = p[i].parent /\ i < j
              /\ \A j \in DOMAIN p :
                   p[j].pkg = Main /\ Receiver(p[j]) = p[i].child =>
                     j < i \/ (p[j].op = "assign" /\ ~p[j].router)
  <1>1. WellFormed(p) /\ Plain(p) /\ MergedOnce(p)
    BY DEF Good, Disciplined
  <1>2. /\ Len(p) \in Nat /\ DOMAIN p = 1..Len(p) /\ Merges(p) \subseteq InMain(p)
        /\ Merges(p) \subseteq DOMAIN p
    BY Statements DEF Merges, Positions, InMain
  <1>3. IsFiniteSet(Merges(p)) /\ Cardinality(Merges(p)) \in Nat
    <2>1. IsFiniteSet(1..Len(p))
      BY <1>2, FS_Interval
    <2>2. IsFiniteSet(Merges(p))
      BY <1>2, <2>1, FS_Subset
    <2> QED BY <2>2, FS_CardinalityType
  <1>4. MergeInfos(p) = [n \in Merges(p) |-> p[n]]
    <2>1. Literal(p, "merge") = Merges(p)
      BY <1>1 DEF Literal, Merges, Positions, Plain
    <2> QED BY <2>1 DEF MergeInfos
  <1>5. ASSUME NEW i \in Merges(p)
        PROVE  /\ p[i].prefix \in Seq(STRING)
               /\ InVariable(p[i].child) /\ p[i].child # AppRouter
               /\ \A j \in Merges(p) : p[j].child = p[i].child => j = i
    <2>1. p[i].prefix \in Seq(STRING) /\ InVariable(p[i].child)
      BY <1>1 DEF WellFormed, Plain, Merges, Positions, InVariable
    <2>2. p[i].child # AppRouter /\ \A j \in Merges(p) : p[j].child = p[i].child => j = i
      BY <1>1 DEF MergedOnce, Merges
    <2> QED BY <2>1, <2>2
  <1>6. ASSUME NEW j \in InMain(p), Receiver(p[j]) # AppRouter, ~(p[j].op = "assign" /\ ~p[j].router)
        PROVE  \E i \in Merges(p) : p[i].child = Receiver(p[j]) /\ j < i
    BY <1>1, <1>6 DEF MergedOnce, Merges
  <1>7. ASSUME NEW i \in Merges(p), p[i].parent # AppRouter
        PROVE  \E j \in Merges(p) : p[j].child = p[i].parent /\ i < j
    <2>1. Receiver(p[i]) = p[i].parent /\ p[i].op = "merge"
      BY DEF Receiver, Merges, Positions
    <2> QED BY <1>2, <1>6, <1>7, <2>1
  <1>8. ASSUME NEW i \in Merges(p), NEW j \in DOMAIN p, p[j].pkg = Main, Receiver(p[j]) = p[i].child
        PROVE  j < i \/ (p[j].op = "assign" /\ ~p[j].router)
    <2>1. j \in InMain(p)
      BY <1>8 DEF InMain
    <2> QED BY <1>5, <1>6, <1>8, <2>1
  <1>9. Merges(p) \in SUBSET Nat
    BY <1>2
  <1>10. \A i \in Merges(p) :
           p[i].parent = AppRouter \/ \E j \in Merges(p) : p[j].child = p[i].parent /\ i < j
    BY <1>7, Zenon
  <1>11. \A i \in Merges(p), j \in DOMAIN p :
           p[j].pkg = Main /\ Receiver(p[j]) = p[i].child =>
             j < i \/ (p[j].op = "assign" /\ ~p[j].router)
    BY <1>8, Zenon
  <1> QED BY <1>3, <1>4, <1>5, <1>9, <1>10, <1>11, Zenon

-----------------------------------------------------------------------------
(* The prefixes of a router *)

\* One step of the walk, from a router that is merged and one that is not.
LEMMA UpOf ==
  ASSUME NEW p, NEW typed, Good(p, typed), NEW w
  PROVE  /\ (\A i \in Merges(p) : p[i].child # w.var) => Up(MergeInfos(p), w) = w
         /\ \A i \in Merges(p) :
              p[i].child = w.var /\ w.var \notin w.seen =>
                Up(MergeInfos(p), w) = [var    |-> p[i].parent,
                                        prefix |-> p[i].prefix \o w.prefix,
                                        seen   |-> w.seen \cup {w.var}]
  <1> DEFINE found == {n \in DOMAIN MergeInfos(p) : MergeInfos(p)[n].child = w.var}
  <1>1. MergeInfos(p) = [n \in Merges(p) |-> p[n]]
    BY Merging
  <1>2. found = {n \in Merges(p) : p[n].child = w.var}
    BY <1>1
  <1>3. Up(MergeInfos(p), w) =
          IF w.var \in w.seen \/ found = {} THEN w
          ELSE [var    |-> MergeInfos(p)[Max(found)].parent,
                prefix |-> MergeInfos(p)[Max(found)].prefix \o w.prefix,
                seen   |-> w.seen \cup {w.var}]
    BY DEF Up
  <1> HIDE DEF found
  <1>4. (\A i \in Merges(p) : p[i].child # w.var) => Up(MergeInfos(p), w) = w
    BY <1>2, <1>3
  <1>5. ASSUME NEW i \in Merges(p), p[i].child = w.var, w.var \notin w.seen
        PROVE  Up(MergeInfos(p), w) = [var    |-> p[i].parent,
                                       prefix |-> p[i].prefix \o w.prefix,
                                       seen   |-> w.seen \cup {w.var}]
    <2>1. i \in Nat /\ \A n \in Merges(p) : p[n].child = p[i].child => n = i
      BY Merging
    <2>2. found = {i}
      BY <1>2, <1>5, <2>1
    <2>3. Max(found) = i /\ found # {}
      BY <2>1, <2>2, MaxOfOne
    <2> QED BY <1>1, <1>3, <1>5, <2>3
  <1> QED BY <1>4, <1>5

\* A walk never comes back, as routers are merged later and later; each step
\* leaves fewer merges for the next.
WalkFine(p, w, n) ==
  /\ w = [var |-> w.var, prefix |-> w.prefix, seen |-> w.seen]
  /\ w.prefix \in Seq(STRING)
  /\ \A i \in Merges(p) : p[i].child = w.var =>
       /\ \A x \in w.seen : \E j \in Merges(p) : p[j].child = x /\ j < i
       /\ Cardinality({j \in Merges(p) : j >= i}) + n <= Cardinality(Merges(p))

LEMMA WalkFineUp ==
  ASSUME NEW p, NEW typed, Good(p, typed), NEW w, NEW n \in Nat, WalkFine(p, w, n)
  PROVE  /\ WalkFine(p, Up(MergeInfos(p), w), n + 1)
         /\ \A i \in Merges(p) : p[i].child = w.var => w.var \notin w.seen
  <1> DEFINE after(i) == {j \in Merges(p) : j >= i}
  <1>1. /\ Merges(p) \in SUBSET Nat /\ IsFiniteSet(Merges(p)) /\ Cardinality(Merges(p)) \in Nat
        /\ \A i \in Merges(p) :
             /\ p[i].prefix \in Seq(STRING)
             /\ \A j \in Merges(p) : p[j].child = p[i].child => j = i
             /\ \A j \in Merges(p) : p[j].child = p[i].parent =>  i < j
    <2>1. ASSUME NEW i \in Merges(p), NEW j \in Merges(p), p[j].child = p[i].parent
          PROVE  i < j
      <3>1. p[j].child # AppRouter
        BY Merging
      <3>2. PICK k \in Merges(p) : p[k].child = p[i].parent /\ i < k
        BY <2>1, <3>1, Merging
      <3>3. p[j].child = p[k].child
        BY <2>1, <3>2
      <3>4. \A h \in Merges(p) : p[h].child = p[k].child => h = k
        BY <3>2, Merging
      <3>5. j = k
        BY <3>3, <3>4
      <3> QED BY <3>2, <3>5
    <2>2. \A i \in Merges(p) :
             /\ p[i].prefix \in Seq(STRING)
             /\ \A j \in Merges(p) : p[j].child = p[i].child => j = i
      BY Merging
    <2>3. Merges(p) \in SUBSET Nat /\ IsFiniteSet(Merges(p)) /\ Cardinality(Merges(p)) \in Nat
      BY Merging
    <2> QED BY <2>1, <2>2, <2>3
  <1>2. ASSUME NEW i \in Merges(p), p[i].child = w.var PROVE w.var \notin w.seen
    <2> SUFFICES ASSUME w.var \in w.seen PROVE FALSE
      OBVIOUS
    <2>1. PICK j \in Merges(p) : p[j].child = w.var /\ j < i
      BY <1>2 DEF WalkFine
    <2>2. j = i
      BY <1>1, <1>2, <2>1
    <2> QED BY <1>1, <2>1, <2>2
  <1>3. CASE \A i \in Merges(p) : p[i].child # w.var
    BY <1>3, UpOf DEF WalkFine
  <1>4. ASSUME NEW i \in Merges(p), p[i].child = w.var
        PROVE  WalkFine(p, Up(MergeInfos(p), w), n + 1)
    <2> DEFINE u == [var |-> p[i].parent, prefix |-> p[i].prefix \o w.prefix,
                     seen |-> w.seen \cup {w.var}]
    <2>1. Up(MergeInfos(p), w) = u
      BY <1>2, <1>4, UpOf
    <2>2. u.var = p[i].parent /\ u.seen = w.seen \cup {w.var} /\ u.prefix \in Seq(STRING)
          /\ u = [var |-> u.var, prefix |-> u.prefix, seen |-> u.seen]
      BY <1>1, Join DEF WalkFine
    <2>3. /\ \A x \in w.seen : \E j \in Merges(p) : p[j].child = x /\ j < i
          /\ Cardinality(after(i)) + n <= Cardinality(Merges(p))
      BY <1>4 DEF WalkFine
    <2> HIDE DEF u
    <2>4. ASSUME NEW k \in Merges(p), p[k].child = u.var
          PROVE  /\ \A x \in u.seen : \E j \in Merges(p) : p[j].child = x /\ j < k
                 /\ Cardinality(after(k)) + (n + 1) <= Cardinality(Merges(p))
      <3>1. i < k /\ i \in Nat /\ k \in Nat
        BY <1>1, <2>2, <2>4
      <3>2. ASSUME NEW x \in u.seen PROVE \E j \in Merges(p) : p[j].child = x /\ j < k
        <4>1. CASE x \in w.seen
          <5>1. PICK j \in Merges(p) : p[j].child = x /\ j < i
            BY <2>3, <4>1
          <5>2. j \in Nat
            BY <1>1
          <5>3. j < k
            BY <3>1, <5>1, <5>2
          <5> QED BY <5>1, <5>3
        <4>2. CASE x = w.var
          BY <1>4, <3>1, <4>2
        <4> QED BY <2>2, <4>1, <4>2
      <3>3. /\ IsFiniteSet(after(i)) /\ i \in after(i) /\ i \notin after(k)
            /\ after(k) \subseteq after(i) \ {i}
        <4>1. after(i) \subseteq Merges(p)
          OBVIOUS
        <4>2. IsFiniteSet(after(i))
          BY <1>1, <4>1, FS_Subset
        <4>3. i \in after(i) /\ i \notin after(k) /\ after(k) \subseteq after(i) \ {i}
          BY <1>1, <3>1
        <4> QED BY <4>2, <4>3
      <3> HIDE DEF after
      <3>4. IsFiniteSet(after(i) \ {i}) /\ Cardinality(after(i) \ {i}) = Cardinality(after(i)) - 1
        BY <3>3, FS_RemoveElement
      <3>5. IsFiniteSet(after(k)) /\ Cardinality(after(k)) <= Cardinality(after(i) \ {i})
        BY <3>3, <3>4, FS_Subset
      <3>6. Cardinality(after(k)) \in Nat /\ Cardinality(after(i)) \in Nat
        BY <3>3, <3>5, FS_CardinalityType
      <3>7. Cardinality(after(k)) + (n + 1) <= Cardinality(Merges(p))
        BY <1>1, <2>3, <3>4, <3>5, <3>6
      <3> QED BY <3>2, <3>7
    <2> QED BY <2>1, <2>2, <2>4 DEF WalkFine
  <1> QED BY <1>2, <1>3, <1>4

LEMMA WalkIsFine ==
  ASSUME NEW p, NEW typed, Good(p, typed), NEW v
  PROVE  \A n \in Nat : WalkFine(p, Walk(MergeInfos(p), v)[n], n)
  <1> DEFINE walk == Walk(MergeInfos(p), v)
             T == {n \in Nat : WalkFine(p, walk[n], n)}
  <1>1. walk[0] = [var |-> v, prefix |-> <<>>, seen |-> {}]
        /\ \A n \in Nat : walk[n + 1] = Up(MergeInfos(p), walk[n])
    BY WalkOf
  <1> HIDE DEF walk
  <1>2. 0 \in T
    <2>1. ASSUME NEW i \in Merges(p)
          PROVE  Cardinality({j \in Merges(p) : j >= i}) + 0 <= Cardinality(Merges(p))
      <3>1. /\ {j \in Merges(p) : j >= i} \subseteq Merges(p) /\ IsFiniteSet(Merges(p))
        BY Merging
      <3>2. /\ Cardinality({j \in Merges(p) : j >= i}) <= Cardinality(Merges(p))
            /\ IsFiniteSet({j \in Merges(p) : j >= i})
        BY <3>1, FS_Subset
      <3>3. Cardinality({j \in Merges(p) : j >= i}) \in Nat
        BY <3>2, FS_CardinalityType
      <3> QED BY <3>2, <3>3
    <2> DEFINE start == [var |-> v, prefix |-> <<>>, seen |-> {}]
    <2>2. start.prefix \in Seq(STRING) /\ start.seen = {}
          /\ start = [var |-> start.var, prefix |-> start.prefix, seen |-> start.seen]
      OBVIOUS
    <2> HIDE DEF start
    <2>3. WalkFine(p, start, 0)
      BY <2>1, <2>2 DEF WalkFine
    <2>4. walk[0] = start
      BY <1>1 DEF start
    <2> QED BY <2>3, <2>4
  <1>3. \A n \in T : n + 1 \in T
    BY <1>1, WalkFineUp
  <1> HIDE DEF T
  <1>4. T = Nat
    <2>1. T \in SUBSET Nat
      BY DEF T
    <2> QED BY <1>2, <1>3, <2>1, AllNumbers
  <1> QED BY <1>4 DEF T, walk

\* After as many steps as there are merges a walk is over.
LEMMA WalkEnds ==
  ASSUME NEW p, NEW typed, Good(p, typed), NEW v
  PROVE  LET walk == Walk(MergeInfos(p), v)
             n == Cardinality(Merges(p)) IN
         walk[n + 1] = walk[n] /\ walk[n].prefix \in Seq(STRING)
  <1> DEFINE walk == Walk(MergeInfos(p), v)
             n == Cardinality(Merges(p))
  <1>1. n \in Nat /\ Merges(p) \in SUBSET Nat /\ IsFiniteSet(Merges(p))
    BY Merging
  <1>2. walk[n + 1] = Up(MergeInfos(p), walk[n])
    BY <1>1, WalkOf
  <1>3. WalkFine(p, walk[n], n)
    BY <1>1, WalkIsFine
  <1> HIDE DEF walk
  <1>4. ASSUME NEW i \in Merges(p), p[i].child = walk[n].var PROVE FALSE
    <2> DEFINE rest == {j \in Merges(p) : j >= i}
    <2>1. Cardinality(rest) + n <= n
      BY <1>3, <1>4 DEF WalkFine
    <2>2. rest \subseteq Merges(p) /\ i \in rest
      BY <1>1
    <2>3. IsFiniteSet(rest) /\ rest # {}
      BY <1>1, <2>2, FS_Subset
    <2> HIDE DEF rest
    <2>4. Cardinality(rest) # 0 /\ Cardinality(rest) \in Nat
      BY <2>3, FS_EmptySet, FS_CardinalityType
    <2> HIDE DEF n
    <2> QED BY <1>1, <2>1, <2>4
  <1>5. Up(MergeInfos(p), walk[n]) = walk[n]
    BY <1>4, UpOf
  <1> QED BY <1>2, <1>3, <1>5 DEF WalkFine, walk

\* What is in front of the names of a router's procedures.
Prefix(p, v) == PrefixOf(MergeInfos(p), v)

WalkAt(p, v, n) == Walk(MergeInfos(p), v)[n]

\* The walk of a merged router is its own step and then the one of its parent.
LEMMA WalkOfChild ==
  ASSUME NEW p, NEW typed, Good(p, typed), NEW i \in Merges(p)
  PROVE  \A n \in Nat \ {0} :
           WalkAt(p, p[i].child, n) =
             [var    |-> WalkAt(p, p[i].parent, n - 1).var,
              prefix |-> WalkAt(p, p[i].parent, n - 1).prefix \o p[i].prefix,
              seen   |-> WalkAt(p, p[i].parent, n - 1).seen \cup {p[i].child}]
  <1> DEFINE up(w) == Up(MergeInfos(p), w)
             a == Walk(MergeInfos(p), p[i].child)
             b == Walk(MergeInfos(p), p[i].parent)
             below(w) == [var    |-> w.var,
                          prefix |-> w.prefix \o p[i].prefix,
                          seen   |-> w.seen \cup {p[i].child}]
             T == {n \in Nat : a[n + 1] = below(b[n])}
  <1>1. /\ a[0] = [var |-> p[i].child, prefix |-> <<>>, seen |-> {}]
        /\ b[0] = [var |-> p[i].parent, prefix |-> <<>>, seen |-> {}]
        /\ \A n \in Nat : a[n + 1] = up(a[n]) /\ b[n + 1] = up(b[n])
    BY WalkOf
  <1>2. \A n \in Nat : WalkFine(p, a[n], n) /\ WalkFine(p, b[n], n)
    BY WalkIsFine
  <1>3. /\ \A j \in Merges(p) : p[j].prefix \in Seq(STRING)
        /\ p[i].prefix \in Seq(STRING)
    BY Merging
  <1>u. \A w : (\A j \in Merges(p) : p[j].child # w.var) => up(w) = w
    BY UpOf
  <1>v. ASSUME NEW w, NEW j \in Merges(p), p[j].child = w.var, w.var \notin w.seen
        PROVE  up(w) = [var |-> p[j].parent, prefix |-> p[j].prefix \o w.prefix,
                        seen |-> w.seen \cup {w.var}]
    BY <1>v, UpOf
  <1>w. \A w : /\ below(w).var = w.var /\ below(w).prefix = w.prefix \o p[i].prefix
               /\ below(w).seen = w.seen \cup {p[i].child}
    OBVIOUS
  <1>x. \A d, e, f :
          below([var |-> d, prefix |-> e, seen |-> f])
            = [var |-> d, prefix |-> e \o p[i].prefix, seen |-> f \cup {p[i].child}]
    OBVIOUS
  <1> HIDE DEF a, b, up, below
  <1>4. 0 \in T
    <2>1. a[0].var = p[i].child /\ a[0].prefix = <<>> /\ a[0].seen = {}
      BY <1>1
    <2>2. up(a[0]) = [var |-> p[i].parent, prefix |-> p[i].prefix \o <<>>, seen |-> {} \cup {p[i].child}]
      BY <1>v, <2>1
    <2>3. p[i].prefix \o <<>> = <<>> \o p[i].prefix
      BY <1>3, Join
    <2>4. below(b[0]) = [var |-> p[i].parent, prefix |-> <<>> \o p[i].prefix, seen |-> {} \cup {p[i].child}]
      BY <1>1, <1>x
    <2>5. a[0 + 1] = up(a[0])
      BY <1>1
    <2> QED BY <2>2, <2>3, <2>4, <2>5
  <1>5. ASSUME NEW n \in T PROVE n + 1 \in T
    <2> DEFINE w == b[n]
    <2>1. /\ n \in Nat /\ a[n + 1] = below(w) /\ a[(n + 1) + 1] = up(below(w)) /\ b[n + 1] = up(w)
      <3>1. n \in Nat /\ n + 1 \in Nat /\ a[n + 1] = below(w)
        OBVIOUS
      <3>2. a[(n + 1) + 1] = up(a[n + 1]) /\ b[n + 1] = up(w)
        BY <1>1, <3>1
      <3> QED BY <3>1, <3>2
    <2>2. /\ w = [var |-> w.var, prefix |-> w.prefix, seen |-> w.seen] /\ w.prefix \in Seq(STRING)
          /\ WalkFine(p, w, n) /\ WalkFine(p, below(w), n + 1)
      <3>1. WalkFine(p, w, n)
        BY <1>2, <2>1
      <3>2. WalkFine(p, a[n + 1], n + 1)
        BY <1>2, <2>1
      <3> QED BY <2>1, <3>1, <3>2 DEF WalkFine
    <2> HIDE DEF w
    <2>4. CASE \A j \in Merges(p) : p[j].child # w.var
      <3>1. up(w) = w
        BY <1>u, <2>4
      <3>2. up(below(w)) = below(w)
        BY <1>u, <1>w, <2>4
      <3>3. a[(n + 1) + 1] = below(b[n + 1])
        BY <2>1, <3>1, <3>2
      <3> QED BY <2>1, <3>3
    <2>5. ASSUME NEW j \in Merges(p), p[j].child = w.var
          PROVE  n + 1 \in T
      <3>1. w.var \notin w.seen
        BY <2>1, <2>2, <2>5, WalkFineUp
      <3>2. w.var \notin below(w).seen
        <4>1. n + 1 \in Nat /\ p[j].child = below(w).var
          BY <1>w, <2>1, <2>5
        <4> QED BY <1>w, <2>2, <2>5, <4>1, WalkFineUp
      <3>3. up(w) = [var |-> p[j].parent, prefix |-> p[j].prefix \o w.prefix,
                     seen |-> w.seen \cup {w.var}]
        BY <1>v, <2>5, <3>1
      <3>4. up(below(w)) = [var |-> p[j].parent, prefix |-> p[j].prefix \o (w.prefix \o p[i].prefix),
                            seen |-> (w.seen \cup {p[i].child}) \cup {w.var}]
        <4> DEFINE x == below(w)
        <4>1. x.var = w.var /\ x.prefix = w.prefix \o p[i].prefix /\ x.seen = w.seen \cup {p[i].child}
          BY <1>w
        <4> HIDE DEF x
        <4>2. up(x) = [var |-> p[j].parent, prefix |-> p[j].prefix \o x.prefix,
                       seen |-> x.seen \cup {x.var}]
          BY <1>v, <2>5, <3>2, <4>1 DEF x
        <4> QED BY <4>1, <4>2 DEF x
      <3>5. p[j].prefix \o (w.prefix \o p[i].prefix) = (p[j].prefix \o w.prefix) \o p[i].prefix
        <4>1. p[j].prefix \in Seq(STRING) /\ w.prefix \in Seq(STRING) /\ p[i].prefix \in Seq(STRING)
          BY <1>3, <2>2
        <4> QED BY <4>1, Rebracket
      <3>6. (w.seen \cup {w.var}) \cup {p[i].child} = (w.seen \cup {p[i].child}) \cup {w.var}
        OBVIOUS
      <3>7. below(up(w)) = [var |-> p[j].parent, prefix |-> (p[j].prefix \o w.prefix) \o p[i].prefix,
                            seen |-> (w.seen \cup {w.var}) \cup {p[i].child}]
        BY <1>x, <3>3
      <3>8. below(up(w)) = up(below(w))
        BY <3>4, <3>5, <3>6, <3>7
      <3>9. a[(n + 1) + 1] = below(b[n + 1])
        BY <2>1, <3>8
      <3> QED BY <2>1, <3>9
    <2> QED BY <2>4, <2>5
  <1> HIDE DEF T
  <1>6. T = Nat
    <2>1. T \in SUBSET Nat
      BY DEF T
    <2> QED BY <1>4, <1>5, <2>1, AllNumbers
  <1>7. ASSUME NEW n \in Nat \ {0} PROVE a[n] = below(b[n - 1])
    <2>1. n - 1 \in T /\ (n - 1) + 1 = n
      BY <1>6
    <2> QED BY <2>1 DEF T
  <1> QED BY <1>7 DEF a, b, below, WalkAt

\* Merging puts its prefix behind those of the parent; the router that serves
\* has none.
LEMMA PrefixOfChild ==
  ASSUME NEW p, NEW typed, Good(p, typed)
  PROVE  /\ \A v : Prefix(p, v) \in Seq(STRING)
         /\ Prefix(p, AppRouter) = <<>>
         /\ \A i \in Merges(p) : Prefix(p, p[i].child) = Prefix(p, p[i].parent) \o p[i].prefix
  <1> DEFINE n == Cardinality(Merges(p))
             walk(v) == Walk(MergeInfos(p), v)
  <1>1. n \in Nat /\ DOMAIN MergeInfos(p) = Merges(p)
    <2>1. MergeInfos(p) = [m \in Merges(p) |-> p[m]]
      BY Merging
    <2>2. n \in Nat
      BY Merging
    <2> QED BY <2>1, <2>2
  <1>2. \A v : Prefix(p, v) = walk(v)[n].prefix
    BY <1>1 DEF Prefix, PrefixOf
  <1>3. \A v : walk(v)[n + 1] = walk(v)[n] /\ walk(v)[n].prefix \in Seq(STRING)
    BY WalkEnds
  <1>4. Prefix(p, AppRouter) = <<>>
    <2> DEFINE a == walk(AppRouter)
               start == [var |-> AppRouter, prefix |-> <<>>, seen |-> {}]
               T == {m \in Nat : a[m] = start}
    <2>1. a[0] = start /\ \A m \in Nat : a[m + 1] = Up(MergeInfos(p), a[m])
      BY WalkOf
    <2>2. start.var = AppRouter /\ start.prefix = <<>>
      OBVIOUS
    <2>3. \A i \in Merges(p) : p[i].child # AppRouter
      BY Merging
    <2> HIDE DEF a, start
    <2>4. Up(MergeInfos(p), start) = start
      BY <2>2, <2>3, UpOf
    <2>5. 0 \in T /\ \A m \in T : m + 1 \in T
      BY <2>1, <2>4
    <2> HIDE DEF T
    <2>6. T = Nat
      <3>1. T \in SUBSET Nat
        BY DEF T
      <3> QED BY <2>5, <3>1, AllNumbers
    <2>7. a[n] = start
      BY <1>1, <2>6 DEF T
    <2> QED BY <1>2, <2>2, <2>7 DEF a
  <1>5. ASSUME NEW i \in Merges(p)
        PROVE  Prefix(p, p[i].child) = Prefix(p, p[i].parent) \o p[i].prefix
    <2> DEFINE c == walk(p[i].child)[n + 1]
               w == walk(p[i].parent)[n]
    <2>1. c = [var |-> w.var, prefix |-> w.prefix \o p[i].prefix, seen |-> w.seen \cup {p[i].child}]
      <3> DEFINE m == n + 1
      <3>1. m \in Nat \ {0} /\ m - 1 = n
        BY <1>1
      <3> HIDE DEF m, n
      <3>2. WalkAt(p, p[i].child, m) =
              [var    |-> WalkAt(p, p[i].parent, m - 1).var,
               prefix |-> WalkAt(p, p[i].parent, m - 1).prefix \o p[i].prefix,
               seen   |-> WalkAt(p, p[i].parent, m - 1).seen \cup {p[i].child}]
        BY <3>1, WalkOfChild
      <3> QED BY <3>1, <3>2 DEF m, WalkAt
    <2> HIDE DEF c, w
    <2>2. c.prefix = w.prefix \o p[i].prefix
      BY <2>1
    <2> HIDE DEF walk
    <2> QED BY <1>2, <1>3, <2>2 DEF c, w
  <1> QED BY <1>2, <1>3, <1>4, <1>5

-----------------------------------------------------------------------------
(* What was used on a router *)

LEMMA UsesType ==
  ASSUME NEW p, NEW typed, Good(p, typed), NEW pkg, NEW v
  PROVE  \A n \in 0..Len(p) : UsesAt(p, pkg, v, n) \in Seq(STRING)
  <1> DEFINE T == {n \in Nat : n <= Len(p) => UsesAt(p, pkg, v, n) \in Seq(STRING)}
  <1>1. Len(p) \in Nat /\ DOMAIN p = 1..Len(p)
    BY Statements
  <1>2. 0 \in T
    <2>1. UsesAt(p, pkg, v, 0) = <<>> /\ <<>> \in Seq(STRING)
      BY UsesOf
    <2> QED BY <2>1
  <1>3. ASSUME NEW n \in T PROVE n + 1 \in T
    <2> DEFINE m == n + 1
    <2>1. m \in Nat \ {0} /\ m - 1 = n /\ n \in Nat
      OBVIOUS
    <2> SUFFICES ASSUME m <= Len(p) PROVE UsesAt(p, pkg, v, m) \in Seq(STRING)
      BY <2>1
    <2>2. m \in DOMAIN p /\ UsesAt(p, pkg, v, m - 1) \in Seq(STRING)
      BY <1>1, <2>1
    <2>3. p[m].op = "use" => p[m].mw \in STRING
      BY <2>2, Statements
    <2> HIDE DEF m, T
    <2>4. UsesAt(p, pkg, v, m) =
            IF Using(p[m], pkg, v)
            THEN Append(UsesAt(p, pkg, v, m - 1), p[m].mw) ELSE UsesAt(p, pkg, v, m - 1)
      BY <2>1, UsesOf
    <2>5. CASE Using(p[m], pkg, v)
      <3>1. p[m].mw \in STRING
        BY <2>3, <2>5 DEF Using
      <3>2. Append(UsesAt(p, pkg, v, m - 1), p[m].mw) \in Seq(STRING)
        BY <2>2, <3>1
      <3> QED BY <2>4, <2>5, <3>2
    <2>6. CASE ~Using(p[m], pkg, v)
      BY <2>2, <2>4, <2>6
    <2> QED BY <2>5, <2>6
  <1> HIDE DEF T
  <1>4. T = Nat
    <2>1. T \in SUBSET Nat
      BY DEF T
    <2> QED BY <1>2, <1>3, <2>1, AllNumbers
  <1> QED BY <1>1, <1>4 DEF T

\* What main has used on a router by a statement: by its factory, and since.
FromAt(p, v, n) == {i \in Assigns(p) : i <= n /\ p[i].router /\ p[i].var = v}

LEMMA UsedByIs ==
  ASSUME NEW p, NEW v, NEW n
  PROVE  UsedBy(p, v, n) =
           (IF FromAt(p, v, n) = {} THEN <<>>
            ELSE UsesAt(p, p[Max(FromAt(p, v, n))].of, "r", Len(p))) \o UsesAt(p, Main, v, n)
  BY DEF UsedBy, FromAt, UsesAt, Assigns

LEMMA UsedByType ==
  ASSUME NEW p, NEW typed, Good(p, typed), NEW v
  PROVE  \A n \in 0..Len(p) : UsedBy(p, v, n) \in Seq(STRING)
  <1> TAKE n \in 0..Len(p)
  <1>1. Len(p) \in 0..Len(p)
    BY Statements
  <1>2. UsesAt(p, Main, v, n) \in Seq(STRING)
    BY UsesType
  <1>3. UsesAt(p, p[Max(FromAt(p, v, n))].of, "r", Len(p)) \in Seq(STRING)
    BY <1>1, UsesType
  <1> QED BY <1>2, <1>3, UsedByIs, Join

\* A router of a factory was not used before main assigns it.
LEMMA UsedBefore ==
  ASSUME NEW p, NEW typed, Good(p, typed), NEW k \in Assigns(p)
  PROVE  UsesAt(p, Main, p[k].var, k) = <<>>
  <1> DEFINE v == p[k].var
             T == {n \in Nat : n <= k => UsesAt(p, Main, v, n) = <<>>}
  <1>1. k \in Nat /\ k \in DOMAIN p /\ p[k].op = "assign" /\ DOMAIN p = 1..Len(p) /\ Len(p) \in Nat
    BY Statements DEF Assigns, Positions
  <1>2. ASSUME NEW j \in DOMAIN p, p[j].pkg = Main, j < k PROVE p[k].var # Receiver(p[j])
    BY <1>2 DEF Good, Disciplined, FactoriesSimple, Assigns, InMain
  <1>3. 0 \in T
    BY UsesOf
  <1>4. ASSUME NEW n \in T PROVE n + 1 \in T
    <2> DEFINE m == n + 1
    <2>1. m \in Nat \ {0} /\ m - 1 = n /\ n \in Nat
      OBVIOUS
    <2> SUFFICES ASSUME m <= k PROVE UsesAt(p, Main, v, m) = <<>>
      BY <2>1
    <2>2. m \in DOMAIN p /\ UsesAt(p, Main, v, m - 1) = <<>>
      BY <1>1, <2>1
    <2>3. ~Using(p[m], Main, v)
      <3>1. CASE m = k
        BY <1>1, <3>1 DEF Using
      <3>2. CASE m < k
        BY <1>2, <2>2, <3>2 DEF Receiver, Using
      <3> QED BY <1>1, <2>1, <3>1, <3>2
    <2> HIDE DEF m, T
    <2>4. UsesAt(p, Main, v, m) = UsesAt(p, Main, v, m - 1)
      BY <2>1, <2>3, UsesOf
    <2> QED BY <2>2, <2>4
  <1> HIDE DEF T
  <1>5. T = Nat
    <2>1. T \in SUBSET Nat
      BY DEF T
    <2> QED BY <1>3, <1>4, <2>1, AllNumbers
  <1> QED BY <1>1, <1>5 DEF T

\* What a statement of main uses.
LEMMA UsedByStep ==
  ASSUME NEW p, NEW typed, Good(p, typed), NEW k \in DOMAIN p, NEW v
  PROVE  LET s == p[k] IN
         /\ s.pkg = Main /\ s.op = "use" /\ s.var = v =>
              UsedBy(p, v, k) = Append(UsedBy(p, v, k - 1), s.mw)
         /\ s.pkg = Main /\ s.op = "assign" /\ s.router /\ s.var = v =>
              UsedBy(p, v, k) = UsesAt(p, s.of, "r", Len(p))
         /\ ~(s.pkg = Main /\ s.op = "use" /\ s.var = v)
              /\ ~(s.pkg = Main /\ s.op = "assign" /\ s.router /\ s.var = v) =>
              UsedBy(p, v, k) = UsedBy(p, v, k - 1)
  <1> DEFINE s == p[k]
             from(n) == FromAt(p, v, n)
             made(n) == IF from(n) = {} THEN <<>> ELSE UsesAt(p, p[Max(from(n))].of, "r", Len(p))
  <1>1. /\ k \in Nat \ {0} /\ k - 1 \in 0..Len(p) /\ Len(p) \in 0..Len(p) /\ k \in 0..Len(p)
        /\ Assigns(p) \in SUBSET Nat
        /\ Assigns(p) = {i \in DOMAIN p : p[i].op = "assign"}
        /\ \A i \in Assigns(p) : p[i].pkg = Main
    BY Statements DEF Assigns, Positions
  <1>2. \A n \in {k, k - 1} : UsedBy(p, v, n) = made(n) \o UsesAt(p, Main, v, n)
    BY UsedByIs
  <1>3. UsesAt(p, Main, v, k) =
          IF Using(s, Main, v)
          THEN Append(UsesAt(p, Main, v, k - 1), s.mw) ELSE UsesAt(p, Main, v, k - 1)
    BY <1>1, UsesOf
  <1>4. made(k) \in Seq(STRING) /\ made(k - 1) \in Seq(STRING) /\ UsesAt(p, Main, v, k - 1) \in Seq(STRING)
    BY <1>1, UsesType, Join
  <1>5. ASSUME ~(s.pkg = Main /\ s.op = "assign" /\ s.router /\ s.var = v)
        PROVE  made(k) = made(k - 1)
    <2>1. from(k) = from(k - 1)
      BY <1>1, <1>5 DEF FromAt
    <2> QED BY <2>1
  <1>6. ASSUME s.pkg = Main, s.op = "use", s.var = v
        PROVE  UsedBy(p, v, k) = Append(UsedBy(p, v, k - 1), s.mw)
    <2>1. s.mw \in STRING
      BY <1>6, Statements
    <2>2. made(k) = made(k - 1)
      BY <1>5, <1>6
    <2> HIDE DEF made
    <2>3. made(k) \o Append(UsesAt(p, Main, v, k - 1), s.mw) = Append(made(k) \o UsesAt(p, Main, v, k - 1), s.mw)
      BY <1>4, <2>1
    <2> QED BY <1>2, <1>3, <1>6, <2>2, <2>3 DEF Using
  <1>7. ASSUME s.pkg = Main, s.op = "assign", s.router, s.var = v
        PROVE  UsedBy(p, v, k) = UsesAt(p, s.of, "r", Len(p))
    <2>1. k \in from(k) /\ from(k) \in SUBSET Nat /\ \A j \in from(k) : j <= k
      BY <1>1, <1>7 DEF FromAt
    <2>2. Max(from(k)) = k
      BY <2>1, MaxOf
    <2>3. made(k) = UsesAt(p, s.of, "r", Len(p))
      BY <2>1, <2>2
    <2>4. UsesAt(p, Main, v, k) = <<>>
      BY <1>1, <1>7, UsedBefore
    <2> HIDE DEF made
    <2> QED BY <1>2, <1>4, <2>3, <2>4, Join
  <1>8. ASSUME ~(s.pkg = Main /\ s.op = "use" /\ s.var = v),
               ~(s.pkg = Main /\ s.op = "assign" /\ s.router /\ s.var = v)
        PROVE  UsedBy(p, v, k) = UsedBy(p, v, k - 1)
    <2>1. made(k) = made(k - 1)
      BY <1>5, <1>8
    <2> HIDE DEF made
    <2> QED BY <1>2, <1>3, <1>8, <2>1 DEF Using
  <1> QED BY <1>6, <1>7, <1>8

\* A router that is merged is complete.
LEMMA UsedAtMerge ==
  ASSUME NEW p, NEW typed, Good(p, typed), NEW i \in Merges(p)
  PROVE  UsedBy(p, p[i].child, i - 1) = UsedBy(p, p[i].child, Len(p))
  <1> DEFINE c == p[i].child
             T == {n \in Nat : n + (i - 1) <= Len(p) => UsedBy(p, c, n + (i - 1)) = UsedBy(p, c, i - 1)}
  <1>1. i \in DOMAIN p /\ i \in Nat \ {0} /\ DOMAIN p = 1..Len(p) /\ Len(p) \in Nat
    BY Statements DEF Merges, Positions
  <1>2. 0 \in T
    BY <1>1
  <1>3. ASSUME NEW n \in T PROVE n + 1 \in T
    <2> DEFINE k == (n + 1) + (i - 1)
    <2>1. k \in Nat /\ k >= i /\ k - 1 = n + (i - 1) /\ n \in Nat
      BY <1>1
    <2> SUFFICES ASSUME k <= Len(p) PROVE UsedBy(p, c, k) = UsedBy(p, c, i - 1)
      BY <2>1
    <2>2. k \in DOMAIN p /\ UsedBy(p, c, k - 1) = UsedBy(p, c, i - 1)
      BY <1>1, <2>1
    <2> HIDE DEF k
    <2>3. p[k].pkg = Main /\ Receiver(p[k]) = c => p[k].op = "assign" /\ ~p[k].router
      <3>1. p[k].pkg = Main /\ Receiver(p[k]) = c => k < i \/ (p[k].op = "assign" /\ ~p[k].router)
        BY <2>2, Merging
      <3> QED BY <1>1, <2>1, <3>1
    <2>4. UsedBy(p, c, k) = UsedBy(p, c, k - 1)
      BY <2>2, <2>3, UsedByStep DEF Receiver
    <2> QED BY <2>2, <2>4
  <1> HIDE DEF T
  <1>4. T = Nat
    <2>1. T \in SUBSET Nat
      BY DEF T
    <2> QED BY <1>2, <1>3, <2>1, AllNumbers
  <1>5. Len(p) - (i - 1) \in T /\ (Len(p) - (i - 1)) + (i - 1) = Len(p)
    BY <1>1, <1>4
  <1> QED BY <1>1, <1>5 DEF T

-----------------------------------------------------------------------------
(* The middlewares around a router *)

LEMMA OutwardsOf ==
  ASSUME NEW p, NEW typed, Good(p, typed), NEW w
  PROVE  /\ (\A i \in Merges(p) : p[i].child # w.var) => Outwards(p, w) = w
         /\ \A i \in Merges(p) :
              p[i].child = w.var =>
                Outwards(p, w) = [var   |-> p[i].parent,
                                  chain |-> UsedBy(p, p[i].parent, Len(p)) \o w.chain]
  <1> DEFINE found == {n \in Merges(p) : p[n].child = w.var}
  <1>1. Outwards(p, w) =
          IF found = {} THEN w
          ELSE [var   |-> p[Max(found)].parent,
                chain |-> UsedBy(p, p[Max(found)].parent, Len(p)) \o w.chain]
    BY DEF Outwards, Merges
  <1>2. ASSUME NEW i \in Merges(p), p[i].child = w.var
        PROVE  Outwards(p, w) = [var   |-> p[i].parent,
                                 chain |-> UsedBy(p, p[i].parent, Len(p)) \o w.chain]
    <2>1. i \in Nat /\ \A n \in Merges(p) : p[n].child = p[i].child => n = i
      BY Merging
    <2>2. found = {i}
      BY <1>2, <2>1
    <2> HIDE DEF found
    <2>3. Max(found) = i /\ found # {}
      BY <2>1, <2>2, MaxOfOne
    <2> QED BY <1>1, <2>3
  <1>3. (\A i \in Merges(p) : p[i].child # w.var) => Outwards(p, w) = w
    BY <1>1
  <1> QED BY <1>2, <1>3

\* Each step goes to a later merge.
AroundFine(p, w, n) ==
  /\ w = [var |-> w.var, chain |-> w.chain] /\ w.chain \in Seq(STRING)
  /\ \A i \in Merges(p) : p[i].child = w.var => n < i

LEMMA AroundIsFine ==
  ASSUME NEW p, NEW typed, Good(p, typed), NEW v
  PROVE  \A n \in Nat : AroundFine(p, AroundAt(p, v, n), n)
  <1> DEFINE T == {n \in Nat : AroundFine(p, AroundAt(p, v, n), n)}
  <1>1. /\ Merges(p) \subseteq 1..Len(p) /\ Len(p) \in Nat /\ Len(p) \in 0..Len(p)
    BY Statements DEF Merges, Positions
  <1>2. \A u : UsedBy(p, u, Len(p)) \in Seq(STRING)
    BY <1>1, UsedByType
  <1>3. 0 \in T
    <2> DEFINE w == [var |-> v, chain |-> UsedBy(p, v, Len(p))]
    <2>1. w = [var |-> w.var, chain |-> w.chain] /\ w.chain \in Seq(STRING)
      BY <1>2
    <2>2. AroundAt(p, v, 0) = w
      BY AroundOf
    <2> HIDE DEF w
    <2>3. AroundFine(p, w, 0)
      BY <1>1, <2>1 DEF AroundFine
    <2> QED BY <2>2, <2>3
  <1>4. ASSUME NEW n \in T PROVE n + 1 \in T
    <2> DEFINE w == AroundAt(p, v, n)
    <2>1. n \in Nat /\ AroundFine(p, w, n)
      OBVIOUS
    <2>2. AroundAt(p, v, n + 1) = Outwards(p, w)
      BY AroundOf
    <2> HIDE DEF w
    <2>3. CASE \A i \in Merges(p) : p[i].child # w.var
      <3>1. Outwards(p, w) = w
        BY <2>3, OutwardsOf
      <3>2. AroundFine(p, w, n + 1)
        BY <2>1, <2>3 DEF AroundFine
      <3> QED BY <2>1, <2>2, <3>1, <3>2
    <2>4. ASSUME NEW i \in Merges(p), p[i].child = w.var PROVE n + 1 \in T
      <3> DEFINE u == [var |-> p[i].parent, chain |-> UsedBy(p, p[i].parent, Len(p)) \o w.chain]
      <3>1. Outwards(p, w) = u
        BY <2>4, OutwardsOf
      <3>2. UsedBy(p, p[i].parent, Len(p)) \o w.chain \in Seq(STRING) /\ n < i
        BY <1>2, <2>1, <2>4, Join DEF AroundFine
      <3>3. u.var = p[i].parent /\ u.chain \in Seq(STRING) /\ u = [var |-> u.var, chain |-> u.chain]
        BY <3>2
      <3> HIDE DEF u
      <3>4. ASSUME NEW j \in Merges(p), p[j].child = u.var PROVE n + 1 < j
        <4>1. p[j].child # AppRouter
          BY Merging
        <4>2. PICK k \in Merges(p) : p[k].child = p[i].parent /\ i < k
          BY <3>3, <3>4, <4>1, Merging
        <4>3. p[j].child = p[k].child
          BY <3>3, <3>4, <4>2
        <4>4. \A h \in Merges(p) : p[h].child = p[k].child => h = k
          BY Merging
        <4>5. j = k
          BY <4>3, <4>4
        <4> QED BY <1>1, <2>1, <3>2, <4>2, <4>5
      <3>5. AroundFine(p, u, n + 1)
        BY <3>3, <3>4 DEF AroundFine
      <3> QED BY <2>1, <2>2, <3>1, <3>5
    <2> QED BY <2>3, <2>4
  <1> HIDE DEF T
  <1>5. T = Nat
    <2>1. T \in SUBSET Nat
      BY DEF T
    <2> QED BY <1>3, <1>4, <2>1, AllNumbers
  <1> QED BY <1>5 DEF T

\* The walk outwards of a merged router, and that of its parent.
LEMMA AroundOfChild ==
  ASSUME NEW p, NEW typed, Good(p, typed), NEW i \in Merges(p)
  PROVE  \A n \in Nat \ {0} :
           AroundAt(p, p[i].child, n) =
             [var   |-> AroundAt(p, p[i].parent, n - 1).var,
              chain |-> AroundAt(p, p[i].parent, n - 1).chain \o UsedBy(p, p[i].child, Len(p))]
  <1> DEFINE out(w) == Outwards(p, w)
             a(n) == AroundAt(p, p[i].child, n)
             b(n) == AroundAt(p, p[i].parent, n)
             used == UsedBy(p, p[i].child, Len(p))
             below(w) == [var |-> w.var, chain |-> w.chain \o used]
             T == {n \in Nat : a(n + 1) = below(b(n))}
  <1>1. Len(p) \in 0..Len(p)
    BY Statements
  <1>2. \A v : UsedBy(p, v, Len(p)) \in Seq(STRING)
    BY <1>1, UsedByType
  <1>3. /\ a(0) = [var |-> p[i].child, chain |-> used]
        /\ b(0) = [var |-> p[i].parent, chain |-> UsedBy(p, p[i].parent, Len(p))]
        /\ \A n \in Nat : a(n + 1) = out(a(n)) /\ b(n + 1) = out(b(n))
    BY AroundOf
  <1>4. \A n \in Nat : AroundFine(p, b(n), n)
    BY AroundIsFine
  <1>5. used \in Seq(STRING)
    BY <1>2
  <1>6. \A w : below(w).var = w.var /\ below(w).chain = w.chain \o used
    OBVIOUS
  <1>7. \A d, e : below([var |-> d, chain |-> e]) = [var |-> d, chain |-> e \o used]
    OBVIOUS
  <1>u. \A w : (\A j \in Merges(p) : p[j].child # w.var) => out(w) = w
    BY OutwardsOf
  <1>v. ASSUME NEW w, NEW j \in Merges(p), p[j].child = w.var
        PROVE  out(w) = [var |-> p[j].parent, chain |-> UsedBy(p, p[j].parent, Len(p)) \o w.chain]
    BY <1>v, OutwardsOf
  <1> HIDE DEF a, b, used, below, out
  <1>8. 0 \in T
    <2>1. a(0).var = p[i].child /\ a(0).chain = used
      BY <1>3
    <2>2. out(a(0)) = [var |-> p[i].parent, chain |-> UsedBy(p, p[i].parent, Len(p)) \o a(0).chain]
      BY <1>v, <2>1
    <2>3. below(b(0)) = [var |-> p[i].parent, chain |-> UsedBy(p, p[i].parent, Len(p)) \o used]
      BY <1>3, <1>7
    <2>4. a(0 + 1) = out(a(0))
      BY <1>3
    <2> QED BY <2>1, <2>2, <2>3, <2>4
  <1>9. ASSUME NEW n \in T PROVE n + 1 \in T
    <2> DEFINE w == b(n)
    <2>1. /\ n \in Nat /\ a((n + 1) + 1) = out(below(w)) /\ b(n + 1) = out(w)
      <3>1. n \in Nat /\ n + 1 \in Nat /\ a(n + 1) = below(w)
        OBVIOUS
      <3>2. a((n + 1) + 1) = out(a(n + 1)) /\ b(n + 1) = out(w)
        BY <1>3, <3>1
      <3> QED BY <3>1, <3>2
    <2>2. w.chain \in Seq(STRING)
      BY <1>4, <2>1 DEF AroundFine
    <2> HIDE DEF w
    <2>3. out(below(w)) = below(out(w))
      <3>1. CASE \A j \in Merges(p) : p[j].child # w.var
        <4>1. out(w) = w
          BY <1>u, <3>1
        <4>2. out(below(w)) = below(w)
          BY <1>6, <1>u, <3>1
        <4> QED BY <4>1, <4>2
      <3>2. ASSUME NEW j \in Merges(p), p[j].child = w.var
            PROVE  out(below(w)) = below(out(w))
        <4> DEFINE x == below(w)
                   more == UsedBy(p, p[j].parent, Len(p))
        <4>1. x.var = w.var /\ x.chain = w.chain \o used
          BY <1>6
        <4>2. out(w) = [var |-> p[j].parent, chain |-> more \o w.chain]
          BY <1>v, <3>2
        <4> HIDE DEF x
        <4>3. out(x) = [var |-> p[j].parent, chain |-> more \o x.chain]
          BY <1>v, <3>2, <4>1
        <4>4. more \in Seq(STRING)
          BY <1>2
        <4> HIDE DEF more
        <4>5. more \o (w.chain \o used) = (more \o w.chain) \o used
          BY <1>5, <2>2, <4>4, Rebracket
        <4>6. below(out(w)) = [var |-> p[j].parent, chain |-> (more \o w.chain) \o used]
          BY <1>7, <4>2
        <4> QED BY <4>1, <4>3, <4>5, <4>6 DEF x
      <3> QED BY <3>1, <3>2
    <2>4. a((n + 1) + 1) = below(b(n + 1))
      BY <2>1, <2>3
    <2> QED BY <2>1, <2>4
  <1> HIDE DEF T
  <1>10. T = Nat
    <2>1. T \in SUBSET Nat
      BY DEF T
    <2> QED BY <1>8, <1>9, <2>1, AllNumbers
  <1>11. ASSUME NEW n \in Nat \ {0} PROVE a(n) = below(b(n - 1))
    <2>1. n - 1 \in T /\ (n - 1) + 1 = n
      BY <1>10
    <2> QED BY <2>1 DEF T
  <1> QED BY <1>11 DEF a, b, below, used

\* The middlewares around the procedures of a router.
Outer(p, v) == Around(p, v)[Len(p)].chain

LEMMA OuterOfChild ==
  ASSUME NEW p, NEW typed, Good(p, typed)
  PROVE  /\ \A v : Outer(p, v) \in Seq(STRING)
         /\ Outer(p, AppRouter) = UsedBy(p, AppRouter, Len(p))
         /\ \A i \in Merges(p) :
              Outer(p, p[i].child) = Outer(p, p[i].parent) \o UsedBy(p, p[i].child, Len(p))
  <1> DEFINE n == Len(p)
             w(v) == AroundAt(p, v, n)
  <1>1. n \in Nat /\ Merges(p) \subseteq 1..n
    BY Statements DEF Merges, Positions
  <1>2. \A v : Outer(p, v) = w(v).chain
    BY DEF Outer, AroundAt
  <1>3. \A v : AroundFine(p, w(v), n)
    BY <1>1, AroundIsFine
  <1>4. ASSUME NEW v
        PROVE  AroundAt(p, v, n + 1) = w(v) /\ Outer(p, v) \in Seq(STRING)
    <2> DEFINE x == w(v)
    <2>1. AroundFine(p, x, n) /\ Outer(p, v) = x.chain
      BY <1>2, <1>3
    <2>2. AroundAt(p, v, n + 1) = Outwards(p, x)
      BY <1>1, AroundOf
    <2> HIDE DEF x, n
    <2>3. \A i \in Merges(p) : p[i].child # x.var
      BY <1>1, <2>1 DEF AroundFine
    <2>4. Outwards(p, x) = x
      BY <2>3, OutwardsOf
    <2> QED BY <2>1, <2>2, <2>4 DEF AroundFine, x
  <1>5. Outer(p, AppRouter) = UsedBy(p, AppRouter, n)
    <2> DEFINE start == [var |-> AppRouter, chain |-> UsedBy(p, AppRouter, n)]
               T == {m \in Nat : AroundAt(p, AppRouter, m) = start}
    <2>1. /\ AroundAt(p, AppRouter, 0) = start
          /\ \A m \in Nat : AroundAt(p, AppRouter, m + 1) = Outwards(p, AroundAt(p, AppRouter, m))
      BY AroundOf
    <2>2. start.var = AppRouter /\ start.chain = UsedBy(p, AppRouter, n)
      OBVIOUS
    <2>3. \A i \in Merges(p) : p[i].child # AppRouter
      BY Merging
    <2> HIDE DEF start
    <2>4. Outwards(p, start) = start
      BY <2>2, <2>3, OutwardsOf
    <2>5. 0 \in T /\ \A m \in T : m + 1 \in T
      BY <2>1, <2>4
    <2> HIDE DEF T
    <2>6. T = Nat
      <3>1. T \in SUBSET Nat
        BY DEF T
      <3> QED BY <2>5, <3>1, AllNumbers
    <2>7. w(AppRouter) = start
      BY <1>1, <2>6 DEF T
    <2> QED BY <1>2, <2>2, <2>7
  <1>6. ASSUME NEW i \in Merges(p)
        PROVE  Outer(p, p[i].child) = Outer(p, p[i].parent) \o UsedBy(p, p[i].child, Len(p))
    <2> DEFINE c == AroundAt(p, p[i].child, n + 1)
               x == w(p[i].parent)
               used == UsedBy(p, p[i].child, Len(p))
    <2>1. c = [var |-> x.var, chain |-> x.chain \o used]
      <3> DEFINE m == n + 1
      <3>1. m \in Nat \ {0} /\ m - 1 = n
        BY <1>1
      <3> HIDE DEF m
      <3>2. AroundAt(p, p[i].child, m) =
              [var   |-> AroundAt(p, p[i].parent, m - 1).var,
               chain |-> AroundAt(p, p[i].parent, m - 1).chain \o UsedBy(p, p[i].child, Len(p))]
        BY <3>1, AroundOfChild
      <3> QED BY <3>1, <3>2 DEF m
    <2> HIDE DEF c, x, used
    <2>2. c.chain = x.chain \o used
      BY <2>1
    <2>3. c = w(p[i].child)
      BY <1>4 DEF c
    <2>4. Outer(p, p[i].child) = c.chain /\ Outer(p, p[i].parent) = x.chain
      BY <1>2, <2>3 DEF x
    <2> QED BY <2>2, <2>4 DEF used
  <1> QED BY <1>4, <1>5, <1>6

-----------------------------------------------------------------------------
(* Routers *)

Shaped(r) == r = [procedures |-> r.procedures, middlewares |-> r.middlewares]

LEMMA NewRouterIs ==
  Shaped(NewRouter) /\ DOMAIN NewRouter.procedures = {} /\ NewRouter.middlewares = <<>>
  BY DEF NewRouter, Shaped

LEMMA RouterPut ==
  ASSUME NEW env, NEW x, NEW r, NEW v
  PROVE  Router(Put(env, x, r), v) = IF v = x THEN r ELSE Router(env, v)
  BY DEF Router, Put, Over

LEMMA UseIs ==
  ASSUME NEW r, Shaped(r), NEW mw
  PROVE  /\ Shaped(Use(r, mw)) /\ Use(r, mw).procedures = r.procedures
         /\ Use(r, mw).middlewares = Append(r.middlewares, mw)
  <1> DEFINE procs == r.procedures
             mws == r.middlewares
  <1>1. r = [procedures |-> procs, middlewares |-> mws]
    BY DEF Shaped
  <1> HIDE DEF procs, mws
  <1>2. Use(r, mw) = [procedures |-> procs, middlewares |-> Append(mws, mw)]
    BY <1>1 DEF Use
  <1> QED BY <1>2 DEF Shaped, procs, mws

LEMMA RegisterIs ==
  ASSUME NEW r, Shaped(r), NEW s
  PROVE  LET u == Register(r, s) IN
         /\ Shaped(u) /\ u.middlewares = r.middlewares
         /\ DOMAIN u.procedures = DOMAIN r.procedures \cup {s.name}
         /\ u.procedures[s.name] = [type |-> s.type, middlewares |-> s.own]
         /\ \A n \in DOMAIN r.procedures : n # s.name => u.procedures[n] = r.procedures[n]
  <1> DEFINE procs == r.procedures
             mws == r.middlewares
             proc == [type |-> s.type, middlewares |-> s.own]
             name == s.name
             more == Put(procs, name, proc)
  <1>1. r = [procedures |-> procs, middlewares |-> mws]
    BY DEF Shaped
  <1> HIDE DEF procs, mws, proc, name
  <1>2. Register(r, s) = [procedures |-> more, middlewares |-> mws]
    BY <1>1 DEF Register, proc, name
  <1>3. /\ DOMAIN more = DOMAIN procs \cup {name}
        /\ more[name] = proc
        /\ \A n \in DOMAIN procs : n # name => more[n] = procs[n]
    BY DEF Put, Over
  <1> HIDE DEF more
  <1>4. Shaped(Register(r, s)) /\ Register(r, s).middlewares = mws /\ Register(r, s).procedures = more
    BY <1>2 DEF Shaped
  <1> QED BY <1>3, <1>4 DEF procs, mws, proc, name

Recorded(r) ==
  \A n \in DOMAIN r.procedures :
    /\ n \in Seq(STRING)
    /\ r.procedures[n] = [type        |-> r.procedures[n].type,
                          middlewares |-> r.procedures[n].middlewares]

\* A procedure after a merge was there before, or is the other router's.
Grown(r, prefix, other, u) ==
  /\ Shaped(u) /\ u.middlewares = r.middlewares
  /\ \A m \in DOMAIN u.procedures :
       \/ m \in DOMAIN r.procedures /\ u.procedures[m] = r.procedures[m]
       \/ \E n \in DOMAIN other.procedures :
            /\ m = prefix \o n
            /\ u.procedures[m] = [type        |-> other.procedures[n].type,
                                  middlewares |-> other.middlewares \o other.procedures[n].middlewares]

LEMMA MergeIs ==
  ASSUME NEW r, Shaped(r), NEW prefix \in Seq(STRING), NEW other, Recorded(other)
  PROVE  Grown(r, prefix, other, Merge(r, prefix, other))
  <1> DEFINE procs == r.procedures
             mws == r.middlewares
             theirs == other.procedures
             local(m) == SubSeq(m, Len(prefix) + 1, Len(m))
             mine(proc) == [proc EXCEPT !.middlewares = Merged(other, proc)]
             new == [m \in {prefix \o n : n \in DOMAIN theirs} |-> mine(theirs[local(m)])]
             more == Over(new, procs)
  <1>1. r = [procedures |-> procs, middlewares |-> mws]
    BY DEF Shaped
  <1>2. Merge(r, prefix, other) = [r EXCEPT !.procedures = more]
    BY DEF Merge
  <1> HIDE DEF procs, mws
  <1>3. /\ DOMAIN more = DOMAIN new \cup DOMAIN procs
        /\ \A m \in DOMAIN new : more[m] = new[m]
        /\ \A m \in DOMAIN procs : m \notin DOMAIN new => more[m] = procs[m]
    <2> HIDE DEF new
    <2> QED BY DEF Over
  <1>4. ASSUME NEW m \in DOMAIN new
        PROVE  \E n \in DOMAIN theirs :
                 /\ m = prefix \o n
                 /\ new[m] = [type        |-> theirs[n].type,
                              middlewares |-> other.middlewares \o theirs[n].middlewares]
    <2>1. PICK n \in DOMAIN theirs : m = prefix \o n
      OBVIOUS
    <2>2. n \in Seq(STRING)
      BY DEF Recorded
    <2>3. local(m) = n
      BY <2>1, <2>2, BehindPrefix
    <2>4. new[m] = mine(theirs[n])
      BY <2>3
    <2> DEFINE type == theirs[n].type
               own == theirs[n].middlewares
    <2>5. theirs[n] = [type |-> type, middlewares |-> own]
      BY DEF Recorded
    <2> HIDE DEF type, own, theirs, new
    <2> DEFINE chain == other.middlewares \o own
               proc == theirs[n]
    <2>6. Merged(other, proc) = chain /\ proc = [type |-> type, middlewares |-> own]
      BY <2>5 DEF Merged
    <2> HIDE DEF chain, proc
    <2>7. mine(proc) = [type |-> type, middlewares |-> chain]
      BY <2>6
    <2> HIDE DEF mine
    <2> QED BY <2>1, <2>4, <2>7 DEF type, own, chain, proc
  <1> HIDE DEF new, more
  <1>5. Merge(r, prefix, other) = [procedures |-> more, middlewares |-> mws]
    BY <1>1, <1>2
  <1> DEFINE u == Merge(r, prefix, other)
  <1>6. Shaped(u) /\ u.middlewares = mws /\ u.procedures = more
    BY <1>5 DEF Shaped
  <1> HIDE DEF u
  <1>7. ASSUME NEW m \in DOMAIN more
        PROVE  \/ m \in DOMAIN procs /\ more[m] = procs[m]
               \/ \E n \in DOMAIN theirs :
                    /\ m = prefix \o n
                    /\ more[m] = [type        |-> theirs[n].type,
                                  middlewares |-> other.middlewares \o theirs[n].middlewares]
    <2>1. CASE m \in DOMAIN new
      BY <1>3, <1>4, <2>1
    <2>2. CASE m \notin DOMAIN new
      BY <1>3, <2>2
    <2> QED BY <2>1, <2>2
  <1>8. Grown(r, prefix, other, u)
    BY <1>6, <1>7 DEF Grown, procs, mws
  <1> QED BY <1>8 DEF u

-----------------------------------------------------------------------------
(* The variable that holds the router of a procedure *)

Owner(p, typed, j) == CallerVar(Parse(p, typed), Parse(p, typed).procedures[j])

\* A procedure of main is registered on the variable; the router of a factory
\* is in the variable main assigns it to.
LEMMA OwnerIs ==
  ASSUME NEW p, NEW typed, Good(p, typed), NEW j \in Registers(p)
  PROVE  /\ p[j].pkg = Main => Owner(p, typed, j) = p[j].var
         /\ \A k \in Assigns(p) :
              p[k].router /\ p[k].of = p[j].pkg => Owner(p, typed, j) = p[k].var
         /\ Owner(p, typed, j) # ""
  <1> DEFINE F == FactoryCalls(p, typed)
             proc == Parse(p, typed).procedures[j]
             calls == {n \in DOMAIN F : F[n].pkg = proc.pkg}
  <1>1. /\ Plain(p) /\ FactoriesSimple(p, typed)
        /\ j \in DOMAIN p /\ p[j].op = "register"
        /\ \A i \in Assigns(p) : i \in DOMAIN p /\ p[i].op = "assign" /\ i \in Nat
    BY Statements DEF Good, Disciplined, Registers, Assigns, Positions
  <1>2. /\ DOMAIN F = {n \in Assigns(p) : p[n].router \/ ~typed}
        /\ \A n \in DOMAIN F : F[n].var = p[n].var /\ F[n].pkg = ProcedurePkg(p[n].of, typed)
    <2>1. ASSUME NEW n \in Assigns(p)
          PROVE  /\ ImportFound(p[n], typed) /\ ~InLibrary(p[n].of)
                 /\ FactoryPkg(p[n].of, typed) = ProcedurePkg(p[n].of, typed)
      <3>1. Followed(p[n].of, typed)
        BY <1>1, Statements DEF FactoriesSimple
      <3> QED BY <3>1 DEF Followed, ImportFound, FactoryPkg, ProcedurePkg
    <2>2. /\ DOMAIN F = {n \in Assigns(p) :
                (p[n].router \/ ~typed) /\ ImportFound(p[n], typed) /\ ~InLibrary(p[n].of)}
          /\ \A n \in DOMAIN F : F[n].var = p[n].var /\ F[n].pkg = FactoryPkg(p[n].of, typed)
      BY DEF FactoryCalls, Assigns
    <2> HIDE DEF F
    <2> QED BY <2>1, <2>2
  <1>3. proc.var = p[j].var /\ proc.pkg = ProcedurePkg(p[j].pkg, typed)
    <2>1. j \in Literal(p, "register")
      BY <1>1 DEF Literal, Plain, Positions
    <2> QED BY <2>1 DEF Parse, ProcedureInfos
  <1>4. calls = {n \in DOMAIN F : p[n].of = p[j].pkg}
    <2>1. p[j].pkg \in Packages(p) \cup {Main}
      BY <1>1 DEF Packages
    <2>2. \A n \in DOMAIN F : p[n].of \in Packages(p)
      BY <1>2, Statements
    <2>3. \A n \in DOMAIN F : ProcedurePkg(p[n].of, typed) = ProcedurePkg(p[j].pkg, typed) => p[n].of = p[j].pkg
      BY <1>1, <2>1, <2>2 DEF FactoriesSimple
    <2> HIDE DEF F
    <2> QED BY <1>2, <1>3, <2>3
  <1>5. Owner(p, typed, j) = IF calls = {} THEN proc.var ELSE F[Max(calls)].var
    BY DEF Owner, CallerVar, Parse
  <1> HIDE DEF F, proc
  <1>6. ASSUME NEW k \in calls PROVE Owner(p, typed, j) = p[k].var
    <2>1. \A n \in calls : n = k
      BY <1>1, <1>4, <1>6 DEF FactoriesSimple, F
    <2>2. calls = {k} /\ k \in Nat /\ k \in DOMAIN F
      BY <1>1, <1>2, <2>1
    <2> HIDE DEF calls
    <2>3. Max(calls) = k /\ calls # {}
      BY <2>2, MaxOfOne
    <2> QED BY <1>2, <1>5, <2>2, <2>3
  <1>7. p[j].pkg = Main => Owner(p, typed, j) = p[j].var
    <2>1. \A n \in DOMAIN F : p[n].of # Main
      BY <1>2, Statements DEF Packages
    <2> QED BY <1>3, <1>4, <1>5, <2>1
  <1>8. ASSUME NEW k \in Assigns(p), p[k].router, p[k].of = p[j].pkg
        PROVE  Owner(p, typed, j) = p[k].var
    BY <1>2, <1>4, <1>6, <1>8
  <1>9. Owner(p, typed, j) # ""
    <2>1. \A n \in DOMAIN p : p[n].op # "merge" => p[n].var # ""
      BY <1>1 DEF Plain, Receiver
    <2>2. CASE calls = {}
      BY <1>1, <1>3, <1>5, <2>1, <2>2
    <2>3. ASSUME NEW k \in calls PROVE Owner(p, typed, j) # ""
      <3>1. k \in DOMAIN p /\ p[k].op # "merge"
        BY <1>1, <1>2
      <3> QED BY <1>6, <2>1, <3>1
    <2> HIDE DEF calls
    <2> QED BY <2>2, <2>3
  <1> QED BY <1>7, <1>8, <1>9

\* What is generated of a registration.
LEMMA ResolvedIs ==
  ASSUME NEW p, NEW typed, Good(p, typed)
  PROVE  /\ DOMAIN Parse(p, typed).procedures = Registers(p)
         /\ DOMAIN Procedures(p, typed) = Registers(p)
         /\ \A j \in Registers(p) :
              /\ Procedures(p, typed)[j].name = Prefix(p, Owner(p, typed, j)) \o p[j].name
              /\ Procedures(p, typed)[j].type = p[j].type
  <1> DEFINE parsed == Parse(p, typed)
  <1>1. parsed.procedures = ProcedureInfos(p, typed) /\ parsed.merges = MergeInfos(p)
    BY DEF Parse
  <1>2. DOMAIN parsed.procedures = Registers(p)
    BY <1>1 DEF ProcedureInfos, Literal, Registers, Positions, Good, Disciplined, Plain
  <1>3. DOMAIN Procedures(p, typed) = Registers(p)
    BY <1>2 DEF Procedures, Resolved
  <1>4. ASSUME NEW j \in Registers(p)
        PROVE  /\ Procedures(p, typed)[j].name = Prefix(p, Owner(p, typed, j)) \o p[j].name
               /\ Procedures(p, typed)[j].type = p[j].type
    <2> DEFINE proc == parsed.procedures[j]
               var == CallerVar(parsed, proc)
    <2>1. Procedures(p, typed)[j] =
            IF DOMAIN parsed.merges = {} \/ var = "" THEN proc
            ELSE [proc EXCEPT !.name = PrefixOf(parsed.merges, var) \o @]
      BY <1>2 DEF Procedures, Resolved
    <2>2. var = Owner(p, typed, j) /\ var # ""
      <3>1. var = Owner(p, typed, j)
        BY DEF Owner
      <3>2. Owner(p, typed, j) # ""
        BY OwnerIs
      <3> QED BY <3>1, <3>2
    <2>3. proc = [name |-> p[j].name, type |-> p[j].type, var |-> p[j].var,
                  pkg |-> ProcedurePkg(p[j].pkg, typed), in |-> p[j].in, out |-> p[j].out]
      BY <1>1, <1>2 DEF ProcedureInfos
    <2> HIDE DEF proc, var, parsed
    <2>4. CASE DOMAIN MergeInfos(p) = {}
      <3>1. Prefix(p, Owner(p, typed, j)) = <<>>
        <4> DEFINE v == Owner(p, typed, j)
        <4>1. Cardinality(DOMAIN MergeInfos(p)) = 0
          BY <2>4, FS_EmptySet
        <4>2. Walk(MergeInfos(p), v)[0] = [var |-> v, prefix |-> <<>>, seen |-> {}]
          BY WalkOf
        <4> HIDE DEF v
        <4>3. Prefix(p, v) = <<>>
          BY <4>1, <4>2 DEF Prefix, PrefixOf
        <4> QED BY <4>3 DEF v
      <3>2. p[j].name \in Seq(STRING)
        BY Statements DEF Registers, Positions
      <3>3. Procedures(p, typed)[j] = proc
        BY <1>1, <2>1, <2>4
      <3>4. <<>> \o p[j].name = p[j].name
        BY <3>2, Join
      <3> QED BY <2>3, <3>1, <3>3, <3>4
    <2>5. CASE DOMAIN MergeInfos(p) # {}
      <3>1. Procedures(p, typed)[j] = [proc EXCEPT !.name = PrefixOf(MergeInfos(p), var) \o @]
        BY <1>1, <2>1, <2>2, <2>5
      <3>2. /\ Procedures(p, typed)[j].name = PrefixOf(MergeInfos(p), var) \o proc.name
            /\ Procedures(p, typed)[j].type = proc.type
        BY <2>3, <3>1
      <3>3. proc.name = p[j].name /\ proc.type = p[j].type
        BY <2>3
      <3>4. PrefixOf(MergeInfos(p), var) = Prefix(p, Owner(p, typed, j))
        BY <2>2 DEF Prefix
      <3> QED BY <3>2, <3>3, <3>4
    <2> QED BY <2>4, <2>5
  <1> QED BY <1>2, <1>3, <1>4

-----------------------------------------------------------------------------
(* The routers of factories *)

\* A statement changes one router.
LEMMA ExecUse ==
  ASSUME NEW env, NEW make, NEW s, s.op = "use", NEW v
  PROVE  Router(Exec(env, make, s), v) =
           IF v = s.var THEN Use(Router(env, v), s.mw) ELSE Router(env, v)
  <1>1. Exec(env, make, s) = Put(env, s.var, Use(Router(env, s.var), s.mw))
    BY DEF Exec
  <1> QED BY <1>1, RouterPut

LEMMA ExecRegister ==
  ASSUME NEW env, NEW make, NEW s, s.op = "register", NEW v
  PROVE  Router(Exec(env, make, s), v) =
           IF v = s.var THEN Register(Router(env, v), s) ELSE Router(env, v)
  <1>1. Exec(env, make, s) = Put(env, s.var, Register(Router(env, s.var), s))
    BY DEF Exec
  <1> QED BY <1>1, RouterPut

LEMMA ExecMerge ==
  ASSUME NEW env, NEW make, NEW s, s.op = "merge", InVariable(s.child), NEW v
  PROVE  Router(Exec(env, make, s), v) =
           IF v = s.parent THEN Merge(Router(env, v), s.prefix, Router(env, s.child))
           ELSE Router(env, v)
  <1>1. Exec(env, make, s) =
          Put(env, s.parent, Merge(Router(env, s.parent), s.prefix, Router(env, s.child)))
    BY DEF Exec, InVariable
  <1> DEFINE merged == Merge(Router(env, s.parent), s.prefix, Router(env, s.child))
             parent == s.parent
  <1>2. Exec(env, make, s) = Put(env, parent, merged)
    BY <1>1
  <1>3. v = parent => merged = Merge(Router(env, v), s.prefix, Router(env, s.child))
    OBVIOUS
  <1> HIDE DEF merged, parent
  <1>4. Router(Put(env, parent, merged), v) = IF v = parent THEN merged ELSE Router(env, v)
    BY RouterPut
  <1> QED BY <1>2, <1>3, <1>4 DEF parent

LEMMA ExecAssign ==
  ASSUME NEW env, NEW make, NEW s, s.op = "assign", NEW v
  PROVE  Router(Exec(env, make, s), v) =
           IF s.router /\ v = s.var THEN make[s.of] ELSE Router(env, v)
  <1>1. Exec(env, make, s) = IF s.router THEN Put(env, s.var, make[s.of]) ELSE env
    BY DEF Exec
  <1> QED BY <1>1, RouterPut

FactoryAt(p, pkg, n) == Router(EnvAt(p, pkg, <<>>, n), "r")

\* A factory's router has used what the factory uses, and its procedures are
\* the factory's, with their own middlewares.
FactoryFilled(p, pkg, r, n) ==
  /\ Shaped(r) /\ r.middlewares = UsesAt(p, pkg, "r", n)
  /\ \A m \in DOMAIN r.procedures :
       \E j \in Registers(p) :
         /\ p[j].pkg = pkg /\ m = p[j].name
         /\ r.procedures[m] = [type |-> p[j].type, middlewares |-> p[j].own]

LEMMA FactoryStep ==
  ASSUME NEW p, NEW typed, Good(p, typed), NEW pkg, pkg # Main, NEW k \in DOMAIN p,
         FactoryFilled(p, pkg, FactoryAt(p, pkg, k - 1), k - 1)
  PROVE  FactoryFilled(p, pkg, FactoryAt(p, pkg, k), k)
  <1> DEFINE s == p[k]
             env == EnvAt(p, pkg, <<>>, k - 1)
             r == Router(env, "r")
  <1>1. k \in Nat \ {0}
    BY Statements
  <1>2. /\ FactoryFilled(p, pkg, r, k - 1)
        /\ FactoryAt(p, pkg, k) = IF s.pkg = pkg THEN Router(Exec(env, <<>>, s), "r") ELSE r
    <2>1. EnvAt(p, pkg, <<>>, k) = IF Within(s, pkg) THEN Exec(env, <<>>, s) ELSE env
      BY <1>1, AfterOf
    <2> QED BY <2>1 DEF FactoryAt, Within
  <1>3. UsesAt(p, pkg, "r", k) =
          IF Using(s, pkg, "r") THEN Append(UsesAt(p, pkg, "r", k - 1), s.mw) ELSE UsesAt(p, pkg, "r", k - 1)
    BY <1>1, UsesOf
  <1>4. s.pkg = pkg => s.op \in {"use", "register"} /\ s.var = "r"
    BY Statements
  <1>5. s.op = "register" => k \in Registers(p)
    BY DEF Registers, Positions
  <1> HIDE DEF env, r, s
  <1>6. CASE s.pkg # pkg
    BY <1>2, <1>3, <1>6 DEF FactoryFilled, Using
  <1>7. CASE s.pkg = pkg /\ s.op = "use"
    <2> DEFINE u == Use(r, s.mw)
    <2>1. FactoryAt(p, pkg, k) = u
      <3>1. Router(Exec(env, <<>>, s), "r") = IF "r" = s.var THEN Use(Router(env, "r"), s.mw) ELSE Router(env, "r")
        BY <1>7, ExecUse
      <3> QED BY <1>2, <1>4, <1>7, <3>1 DEF r
    <2>2. Shaped(u) /\ u.procedures = r.procedures /\ u.middlewares = Append(r.middlewares, s.mw)
      BY <1>2, UseIs DEF FactoryFilled
    <2>3. Using(s, pkg, "r")
      BY <1>4, <1>7 DEF Using
    <2> HIDE DEF u
    <2> QED BY <1>2, <1>3, <2>1, <2>2, <2>3 DEF FactoryFilled
  <1>8. CASE s.pkg = pkg /\ s.op = "register"
    <2> DEFINE u == Register(r, s)
    <2>1. FactoryAt(p, pkg, k) = u
      <3>1. Router(Exec(env, <<>>, s), "r") = IF "r" = s.var THEN Register(Router(env, "r"), s) ELSE Router(env, "r")
        BY <1>8, ExecRegister
      <3> QED BY <1>2, <1>4, <1>8, <3>1 DEF r
    <2>2. Shaped(r)
      BY <1>2 DEF FactoryFilled
    <2>3. /\ Shaped(u) /\ u.middlewares = r.middlewares
          /\ DOMAIN u.procedures = DOMAIN r.procedures \cup {s.name}
          /\ u.procedures[s.name] = [type |-> s.type, middlewares |-> s.own]
          /\ \A n \in DOMAIN r.procedures : n # s.name => u.procedures[n] = r.procedures[n]
      BY <2>2, RegisterIs
    <2> HIDE DEF u
    <2>4. u.middlewares = UsesAt(p, pkg, "r", k)
      BY <1>2, <1>3, <1>8, <2>3 DEF FactoryFilled, Using
    <2>5. ASSUME NEW m \in DOMAIN u.procedures
          PROVE  \E j \in Registers(p) :
                   /\ p[j].pkg = pkg /\ m = p[j].name
                   /\ u.procedures[m] = [type |-> p[j].type, middlewares |-> p[j].own]
      <3>1. CASE m = s.name
        BY <1>5, <1>8, <2>3, <3>1 DEF s
      <3>2. CASE m # s.name
        BY <1>2, <2>3, <3>2 DEF FactoryFilled
      <3> QED BY <3>1, <3>2
    <2> QED BY <2>1, <2>3, <2>4, <2>5 DEF FactoryFilled
  <1> QED BY <1>4, <1>6, <1>7, <1>8

LEMMA FactoryIsFilled ==
  ASSUME NEW p, NEW typed, Good(p, typed), NEW pkg \in Packages(p)
  PROVE  FactoryFilled(p, pkg, Made(p)[pkg], Len(p))
  <1> DEFINE T == {n \in Nat : n <= Len(p) => FactoryFilled(p, pkg, FactoryAt(p, pkg, n), n)}
  <1>1. Len(p) \in Nat /\ DOMAIN p = 1..Len(p) /\ pkg # Main
    BY Statements DEF Packages
  <1>2. 0 \in T
    <2>1. FactoryAt(p, pkg, 0) = NewRouter
      BY AfterOf DEF FactoryAt, Router
    <2>2. UsesAt(p, pkg, "r", 0) = <<>>
      BY UsesOf
    <2>3. FactoryFilled(p, pkg, NewRouter, 0)
      BY <2>2, NewRouterIs DEF FactoryFilled
    <2> QED BY <2>1, <2>3
  <1>3. ASSUME NEW n \in T PROVE n + 1 \in T
    <2> DEFINE k == n + 1
    <2>1. k \in Nat /\ k - 1 = n /\ n \in Nat
      OBVIOUS
    <2> SUFFICES ASSUME k <= Len(p) PROVE FactoryFilled(p, pkg, FactoryAt(p, pkg, k), k)
      BY <2>1
    <2>2. k \in DOMAIN p /\ FactoryFilled(p, pkg, FactoryAt(p, pkg, k - 1), k - 1)
      BY <1>1, <2>1
    <2> HIDE DEF k, T
    <2> QED BY <1>1, <2>2, FactoryStep
  <1> HIDE DEF T
  <1>4. T = Nat
    <2>1. T \in SUBSET Nat
      BY DEF T
    <2> QED BY <1>2, <1>3, <2>1, AllNumbers
  <1>5. Made(p)[pkg] = FactoryAt(p, pkg, Len(p))
    BY DEF Made, Run, FactoryAt, EnvAt
  <1> QED BY <1>1, <1>4, <1>5 DEF T

-----------------------------------------------------------------------------
(* The routers of main *)

\* Where a procedure of a router comes from.  What is in front of its name and
\* around its middlewares, on the way out to the router that serves, is what
\* is in front and around on the way from the variable it was registered on.
Comes(p, typed, v, m, proc) ==
  \E j \in Registers(p), own \in Seq(STRING) :
    /\ proc = [type |-> p[j].type, middlewares |-> own]
    /\ Prefix(p, v) \o m = Prefix(p, Owner(p, typed, j)) \o p[j].name
    /\ Outer(p, v) \o own = Outer(p, Owner(p, typed, j)) \o p[j].own

Filled(p, typed, v, r, used) ==
  /\ Shaped(r) /\ r.middlewares = used
  /\ \A m \in DOMAIN r.procedures :
       m \in Seq(STRING) /\ Comes(p, typed, v, m, r.procedures[m])

RouterAt(p, v, n) == Router(EnvAt(p, Main, Made(p), n), v)

\* A statement that uses, ...
LEMMA FilledUse ==
  ASSUME NEW p, NEW typed, NEW v, NEW r, NEW used, Filled(p, typed, v, r, used), NEW mw
  PROVE  Filled(p, typed, v, Use(r, mw), Append(used, mw))
  <1> DEFINE u == Use(r, mw)
  <1>1. Shaped(u) /\ u.procedures = r.procedures /\ u.middlewares = Append(r.middlewares, mw)
    BY UseIs DEF Filled
  <1> HIDE DEF u
  <1>2. Filled(p, typed, v, u, Append(used, mw))
    BY <1>1 DEF Filled
  <1> QED BY <1>2 DEF u

\* ... registers, ...
LEMMA FilledRegister ==
  ASSUME NEW p, NEW typed, Good(p, typed), NEW j \in Registers(p), p[j].pkg = Main,
         NEW r, NEW used, Filled(p, typed, p[j].var, r, used)
  PROVE  Filled(p, typed, p[j].var, Register(r, p[j]), used)
  <1> DEFINE u == Register(r, p[j])
             v == p[j].var
  <1>1. Shaped(r)
    BY DEF Filled
  <1>2. /\ Shaped(u) /\ u.middlewares = r.middlewares
        /\ DOMAIN u.procedures = DOMAIN r.procedures \cup {p[j].name}
        /\ u.procedures[p[j].name] = [type |-> p[j].type, middlewares |-> p[j].own]
        /\ \A n \in DOMAIN r.procedures : n # p[j].name => u.procedures[n] = r.procedures[n]
    BY <1>1, RegisterIs
  <1>3. p[j].name \in Seq(STRING) /\ p[j].own \in Seq(STRING)
    BY Statements DEF Registers, Positions
  <1>4. Owner(p, typed, j) = v
    BY OwnerIs
  <1>5. Comes(p, typed, v, p[j].name, u.procedures[p[j].name])
    <2> DEFINE proc == u.procedures[p[j].name]
    <2>1. proc = [type |-> p[j].type, middlewares |-> p[j].own]
      BY <1>2
    <2> HIDE DEF proc, v
    <2>2. Comes(p, typed, v, p[j].name, proc)
      BY <1>3, <1>4, <2>1 DEF Comes
    <2> QED BY <2>2 DEF proc
  <1> HIDE DEF u, v
  <1>6. ASSUME NEW m \in DOMAIN u.procedures
        PROVE  m \in Seq(STRING) /\ Comes(p, typed, v, m, u.procedures[m])
    <2>1. CASE m = p[j].name
      BY <1>3, <1>5, <2>1
    <2>2. CASE m # p[j].name
      BY <1>2, <2>2 DEF Filled, v
    <2> QED BY <2>1, <2>2
  <1>7. Filled(p, typed, v, u, used)
    BY <1>2, <1>6 DEF Filled, v
  <1> QED BY <1>7 DEF u, v

\* ... merges a complete router, ...
LEMMA FilledMerge ==
  ASSUME NEW p, NEW typed, Good(p, typed), NEW i \in Merges(p),
         NEW r, NEW used, Filled(p, typed, p[i].parent, r, used),
         NEW other, Filled(p, typed, p[i].child, other, UsedBy(p, p[i].child, Len(p)))
  PROVE  Filled(p, typed, p[i].parent, Merge(r, p[i].prefix, other), used)
  <1> DEFINE u == Merge(r, p[i].prefix, other)
             v == p[i].parent
             c == p[i].child
             q == p[i].prefix
             around == UsedBy(p, c, Len(p))
             theirs == other.procedures
  <1>1. q \in Seq(STRING)
    BY Merging
  <1>2. /\ Prefix(p, v) \in Seq(STRING) /\ Prefix(p, c) = Prefix(p, v) \o q
        /\ Outer(p, v) \in Seq(STRING) /\ Outer(p, c) = Outer(p, v) \o around
    BY PrefixOfChild, OuterOfChild
  <1>3. around \in Seq(STRING)
    <2>1. Len(p) \in 0..Len(p)
      BY Statements
    <2> QED BY <2>1, UsedByType
  <1>4. Shaped(r) /\ other.middlewares = around
        /\ \A n \in DOMAIN theirs : n \in Seq(STRING) /\ Comes(p, typed, c, n, theirs[n])
    BY DEF Filled
  <1>5. \A n \in DOMAIN theirs :
          theirs[n] = [type |-> theirs[n].type, middlewares |-> theirs[n].middlewares]
    <2> TAKE n \in DOMAIN theirs
    <2> DEFINE proc == theirs[n]
    <2>1. PICK j \in Registers(p), own \in Seq(STRING) : proc = [type |-> p[j].type, middlewares |-> own]
      BY <1>4 DEF Comes
    <2> HIDE DEF proc
    <2>2. proc = [type |-> proc.type, middlewares |-> proc.middlewares]
      BY <2>1
    <2> QED BY <2>2 DEF proc
  <1>6. /\ Shaped(u) /\ u.middlewares = r.middlewares
        /\ \A m \in DOMAIN u.procedures :
             \/ m \in DOMAIN r.procedures /\ u.procedures[m] = r.procedures[m]
             \/ \E n \in DOMAIN theirs :
                  /\ m = q \o n
                  /\ u.procedures[m] = [type        |-> theirs[n].type,
                                        middlewares |-> other.middlewares \o theirs[n].middlewares]
    <2>1. Recorded(other)
      BY <1>4, <1>5 DEF Recorded
    <2>2. Shaped(r)
      BY <1>4
    <2>3. Grown(r, q, other, u)
      BY <1>1, <2>1, <2>2, MergeIs
    <2> QED BY <2>3 DEF Grown
  <1> HIDE DEF u, v, c, q, around
  <1>7. ASSUME NEW n \in DOMAIN theirs
        PROVE  /\ q \o n \in Seq(STRING)
               /\ Comes(p, typed, v, q \o n,
                    [type |-> theirs[n].type, middlewares |-> around \o theirs[n].middlewares])
    <2> DEFINE proc == theirs[n]
    <2>1. n \in Seq(STRING) /\ Comes(p, typed, c, n, proc)
      BY <1>4
    <2> HIDE DEF proc
    <2>2. PICK j \in Registers(p), own \in Seq(STRING) :
            /\ proc = [type |-> p[j].type, middlewares |-> own]
            /\ Prefix(p, c) \o n = Prefix(p, Owner(p, typed, j)) \o p[j].name
            /\ Outer(p, c) \o own = Outer(p, Owner(p, typed, j)) \o p[j].own
      BY <2>1 DEF Comes
    <2>3. proc.type = p[j].type /\ proc.middlewares = own
      BY <2>2
    <2>4. Prefix(p, v) \o (q \o n) = Prefix(p, c) \o n /\ q \o n \in Seq(STRING)
      <3>1. Prefix(p, v) \in Seq(STRING) /\ q \in Seq(STRING) /\ n \in Seq(STRING)
        BY <1>1, <1>2, <2>1
      <3>2. (Prefix(p, v) \o q) \o n = Prefix(p, v) \o (q \o n)
        BY <3>1, Rebracket
      <3> QED BY <1>2, <3>1, <3>2, Join
    <2>5. Outer(p, v) \o (around \o own) = Outer(p, c) \o own /\ around \o own \in Seq(STRING)
      <3>1. Outer(p, v) \in Seq(STRING) /\ around \in Seq(STRING) /\ own \in Seq(STRING)
        BY <1>2, <1>3
      <3>2. (Outer(p, v) \o around) \o own = Outer(p, v) \o (around \o own)
        BY <3>1, Rebracket
      <3> QED BY <1>2, <3>1, <3>2, Join
    <2>6. Comes(p, typed, v, q \o n, [type |-> p[j].type, middlewares |-> around \o own])
      BY <2>2, <2>4, <2>5 DEF Comes
    <2> QED BY <2>3, <2>4, <2>6 DEF proc
  <1>8. ASSUME NEW m \in DOMAIN u.procedures
        PROVE  m \in Seq(STRING) /\ Comes(p, typed, v, m, u.procedures[m])
    <2>1. CASE m \in DOMAIN r.procedures /\ u.procedures[m] = r.procedures[m]
      BY <2>1 DEF Filled, v
    <2>2. ASSUME NEW n \in DOMAIN theirs, m = q \o n,
                 u.procedures[m] = [type        |-> theirs[n].type,
                                    middlewares |-> other.middlewares \o theirs[n].middlewares]
          PROVE  m \in Seq(STRING) /\ Comes(p, typed, v, m, u.procedures[m])
      BY <1>4, <1>7, <2>2
    <2> QED BY <1>6, <2>1, <2>2
  <1>9. Filled(p, typed, v, u, used)
    BY <1>6, <1>8 DEF Filled, v
  <1> QED BY <1>9 DEF u, v, q

\* ... or assigns the router of a factory.
LEMMA FilledAssign ==
  ASSUME NEW p, NEW typed, Good(p, typed), NEW k \in Assigns(p), p[k].router
  PROVE  Filled(p, typed, p[k].var, Made(p)[p[k].of], UsesAt(p, p[k].of, "r", Len(p)))
  <1> DEFINE r == Made(p)[p[k].of]
             v == p[k].var
             pkg == p[k].of
  <1>1. FactoryFilled(p, pkg, r, Len(p))
    BY Statements, FactoryIsFilled
  <1>2. \A j \in Registers(p) : p[j].pkg = pkg => Owner(p, typed, j) = v
    BY OwnerIs
  <1>3. \A j \in Registers(p) : p[j].name \in Seq(STRING) /\ p[j].own \in Seq(STRING)
    BY Statements DEF Registers, Positions
  <1> HIDE DEF r, v, pkg
  <1>4. ASSUME NEW m \in DOMAIN r.procedures
        PROVE  m \in Seq(STRING) /\ Comes(p, typed, v, m, r.procedures[m])
    <2> DEFINE proc == r.procedures[m]
    <2>1. PICK j \in Registers(p) :
            /\ p[j].pkg = pkg /\ m = p[j].name
            /\ proc = [type |-> p[j].type, middlewares |-> p[j].own]
      BY <1>1 DEF FactoryFilled
    <2> HIDE DEF proc
    <2>2. Owner(p, typed, j) = v /\ m \in Seq(STRING) /\ p[j].own \in Seq(STRING)
      BY <1>2, <1>3, <2>1
    <2>3. Comes(p, typed, v, m, proc)
      BY <2>1, <2>2 DEF Comes
    <2> QED BY <2>2, <2>3 DEF proc
  <1>5. Filled(p, typed, v, r, UsesAt(p, pkg, "r", Len(p)))
    BY <1>1, <1>4 DEF Filled, FactoryFilled
  <1> QED BY <1>5 DEF r, v, pkg

\* What main's routers hold after each statement.
LEMMA MainStep ==
  ASSUME NEW p, NEW typed, Good(p, typed), NEW k \in DOMAIN p,
         \A v : Filled(p, typed, v, RouterAt(p, v, k - 1), UsedBy(p, v, k - 1)),
         NEW v
  PROVE  Filled(p, typed, v, RouterAt(p, v, k), UsedBy(p, v, k))
  <1> DEFINE s == p[k]
             make == Made(p)
             env == EnvAt(p, Main, make, k - 1)
             after == Exec(env, make, s)
             before(x) == Router(env, x)
  <1>1. k \in Nat \ {0} /\ s.op \in {"use", "register", "merge", "assign"}
    BY Statements
  <1>2. \A x : Filled(p, typed, x, before(x), UsedBy(p, x, k - 1))
    BY DEF RouterAt
  <1>3. RouterAt(p, v, k) = IF s.pkg = Main THEN Router(after, v) ELSE before(v)
    <2>1. EnvAt(p, Main, make, k) = IF Within(s, Main) THEN after ELSE env
      BY <1>1, AfterOf
    <2> HIDE DEF after, env, make
    <2> QED BY <2>1 DEF RouterAt, Within, make
  <1>4. /\ s.pkg = Main /\ s.op = "use" /\ s.var = v =>
             UsedBy(p, v, k) = Append(UsedBy(p, v, k - 1), s.mw)
        /\ s.pkg = Main /\ s.op = "assign" /\ s.router /\ s.var = v =>
             UsedBy(p, v, k) = UsesAt(p, s.of, "r", Len(p))
        /\ ~(s.pkg = Main /\ s.op = "use" /\ s.var = v)
             /\ ~(s.pkg = Main /\ s.op = "assign" /\ s.router /\ s.var = v) =>
             UsedBy(p, v, k) = UsedBy(p, v, k - 1)
    BY UsedByStep
  <1> HIDE DEF env, make
  <1>5. CASE s.pkg # Main
    BY <1>2, <1>3, <1>4, <1>5
  <1>6. CASE s.pkg = Main /\ s.op = "use"
    <2>1. Router(after, v) = IF v = s.var THEN Use(before(v), s.mw) ELSE before(v)
      BY <1>6, ExecUse
    <2> HIDE DEF after, s, before
    <2>2. CASE v = s.var
      BY <1>2, <1>3, <1>4, <1>6, <2>1, <2>2, FilledUse
    <2>3. CASE v # s.var
      BY <1>2, <1>3, <1>4, <1>6, <2>1, <2>3
    <2> QED BY <2>2, <2>3
  <1>7. CASE s.pkg = Main /\ s.op = "register"
    <2>1. Router(after, v) = IF v = s.var THEN Register(before(v), s) ELSE before(v)
      BY <1>7, ExecRegister
    <2>2. k \in Registers(p)
      BY <1>7 DEF Registers, Positions
    <2>3. UsedBy(p, v, k) = UsedBy(p, v, k - 1)
      BY <1>4, <1>7
    <2> HIDE DEF after, before
    <2>4. CASE v = s.var
      <3>1. Filled(p, typed, p[k].var, before(v), UsedBy(p, v, k - 1))
        BY <1>2, <2>4
      <3>2. Filled(p, typed, p[k].var, Register(before(v), p[k]), UsedBy(p, v, k - 1))
        BY <1>7, <2>2, <3>1, FilledRegister
      <3> QED BY <1>3, <1>7, <2>1, <2>3, <2>4, <3>2
    <2>5. CASE v # s.var
      BY <1>2, <1>3, <1>7, <2>1, <2>3, <2>5
    <2> QED BY <2>4, <2>5
  <1>8. CASE s.pkg = Main /\ s.op = "merge"
    <2>1. k \in Merges(p)
      BY <1>8 DEF Merges, Positions
    <2>2. InVariable(s.child)
      BY <2>1, Merging
    <2>3. Router(after, v) =
            IF v = s.parent THEN Merge(before(v), s.prefix, before(s.child)) ELSE before(v)
      <3> HIDE DEF s
      <3> QED BY <1>8, <2>2, ExecMerge
    <2>4. UsedBy(p, v, k) = UsedBy(p, v, k - 1)
      BY <1>4, <1>8
    <2>5. Filled(p, typed, p[k].child, before(s.child), UsedBy(p, p[k].child, Len(p)))
      <3>1. UsedBy(p, p[k].child, k - 1) = UsedBy(p, p[k].child, Len(p))
        BY <2>1, UsedAtMerge
      <3> HIDE DEF before
      <3> QED BY <1>2, <3>1
    <2> HIDE DEF after, before
    <2>6. CASE v = s.parent
      <3>1. Filled(p, typed, p[k].parent, before(v), UsedBy(p, v, k - 1))
        BY <1>2, <2>6
      <3>2. Filled(p, typed, p[k].parent, Merge(before(v), p[k].prefix, before(s.child)), UsedBy(p, v, k - 1))
        BY <2>1, <2>5, <3>1, FilledMerge
      <3> QED BY <1>3, <1>8, <2>3, <2>4, <2>6, <3>2
    <2>7. CASE v # s.parent
      BY <1>2, <1>3, <1>8, <2>3, <2>4, <2>7
    <2> QED BY <2>6, <2>7
  <1>9. CASE s.pkg = Main /\ s.op = "assign"
    <2>1. k \in Assigns(p)
      BY <1>9 DEF Assigns, Positions
    <2>2. Router(after, v) = IF s.router /\ v = s.var THEN make[s.of] ELSE before(v)
      BY <1>9, ExecAssign
    <2> HIDE DEF after, before
    <2>3. CASE s.router /\ v = s.var
      <3>1. Filled(p, typed, p[k].var, make[p[k].of], UsesAt(p, p[k].of, "r", Len(p)))
        BY <2>1, <2>3, FilledAssign DEF make
      <3> QED BY <1>3, <1>4, <1>9, <2>2, <2>3, <3>1
    <2>4. CASE ~(s.router /\ v = s.var)
      BY <1>2, <1>3, <1>4, <1>9, <2>2, <2>4
    <2> QED BY <2>3, <2>4
  <1> QED BY <1>1, <1>5, <1>6, <1>7, <1>8, <1>9

LEMMA MainIsFilled ==
  ASSUME NEW p, NEW typed, Good(p, typed), NEW v
  PROVE  Filled(p, typed, v, RouterAt(p, v, Len(p)), UsedBy(p, v, Len(p)))
  <1> DEFINE fine(n) == \A x : Filled(p, typed, x, RouterAt(p, x, n), UsedBy(p, x, n))
             T == {n \in Nat : n <= Len(p) => fine(n)}
  <1>1. Len(p) \in Nat /\ DOMAIN p = 1..Len(p)
    BY Statements
  <1>2. 0 \in T
    <2>1. ASSUME NEW x PROVE Filled(p, typed, x, RouterAt(p, x, 0), UsedBy(p, x, 0))
      <3>1. RouterAt(p, x, 0) = NewRouter
        BY AfterOf DEF RouterAt, Router
      <3>2. FromAt(p, x, 0) = {} /\ UsesAt(p, Main, x, 0) = <<>>
        BY <1>1, UsesOf DEF FromAt, Assigns, Positions
      <3>3. UsedBy(p, x, 0) = <<>> \o <<>> /\ <<>> \o <<>> = <<>>
        BY <3>2, UsedByIs
      <3>4. Filled(p, typed, x, NewRouter, <<>>)
        BY NewRouterIs DEF Filled
      <3> QED BY <3>1, <3>3, <3>4
    <2> QED BY <2>1
  <1>3. ASSUME NEW n \in T PROVE n + 1 \in T
    <2> DEFINE k == n + 1
    <2>1. k \in Nat /\ k - 1 = n /\ n \in Nat
      OBVIOUS
    <2> SUFFICES ASSUME k <= Len(p) PROVE fine(k)
      BY <2>1
    <2>2. k \in DOMAIN p /\ fine(k - 1)
      BY <1>1, <2>1
    <2> HIDE DEF k, T
    <2>3. ASSUME NEW x PROVE Filled(p, typed, x, RouterAt(p, x, k), UsedBy(p, x, k))
      BY <2>2, MainStep
    <2> QED BY <2>3
  <1> HIDE DEF T
  <1>4. T = Nat
    <2>1. T \in SUBSET Nat
      BY DEF T
    <2> QED BY <1>2, <1>3, <2>1, AllNumbers
  <1>5. fine(Len(p))
    BY <1>1, <1>4 DEF T
  <1> QED BY <1>5

-----------------------------------------------------------------------------
(* The router that serves *)

\* The name that is generated of a registration.
Full(p, typed, j) == Prefix(p, Owner(p, typed, j)) \o p[j].name

\* Whatever is served comes from a registration, under its generated name, with
\* its type, and with the middlewares around it.
LEMMA ServedComes ==
  ASSUME NEW p, NEW typed, Good(p, typed), NEW m \in DOMAIN Served(p)
  PROVE  \E j \in Registers(p) :
           /\ m = Full(p, typed, j)
           /\ Served(p)[m].type = p[j].type
           /\ Chain(p, m) = Outer(p, Owner(p, typed, j)) \o p[j].own
  <1> DEFINE r == Serving(p)
             proc == r.procedures[m]
  <1>1. Filled(p, typed, AppRouter, r, UsedBy(p, AppRouter, Len(p)))
    <2>1. r = RouterAt(p, AppRouter, Len(p))
      BY DEF Serving, Run, RouterAt, EnvAt
    <2> QED BY <2>1, MainIsFilled
  <1>2. /\ m \in DOMAIN r.procedures /\ proc = Served(p)[m]
        /\ Chain(p, m) = r.middlewares \o proc.middlewares
    BY DEF Served, Chain
  <1>3. /\ m \in Seq(STRING) /\ Comes(p, typed, AppRouter, m, proc)
        /\ r.middlewares = UsedBy(p, AppRouter, Len(p))
    BY <1>1, <1>2 DEF Filled
  <1> HIDE DEF proc, r
  <1>4. Prefix(p, AppRouter) = <<>> /\ Outer(p, AppRouter) = UsedBy(p, AppRouter, Len(p))
    BY PrefixOfChild, OuterOfChild
  <1>5. PICK j \in Registers(p), own \in Seq(STRING) :
          /\ proc = [type |-> p[j].type, middlewares |-> own]
          /\ Prefix(p, AppRouter) \o m = Prefix(p, Owner(p, typed, j)) \o p[j].name
          /\ Outer(p, AppRouter) \o own = Outer(p, Owner(p, typed, j)) \o p[j].own
    BY <1>3 DEF Comes
  <1>6. proc.type = p[j].type /\ proc.middlewares = own
    BY <1>5
  <1>7. m = Full(p, typed, j)
    <2>1. <<>> \o m = m
      BY <1>3, Join
    <2> QED BY <1>4, <1>5, <2>1 DEF Full
  <1> QED BY <1>2, <1>3, <1>4, <1>5, <1>6, <1>7

\* If no name is served twice every registration is: there are as many names
\* as registrations, and each name is one's.
LEMMA ServedAll ==
  ASSUME NEW p, NEW typed, Good(p, typed), NamesDistinct(p)
  PROVE  /\ \A i \in Registers(p), j \in Registers(p) : Full(p, typed, i) = Full(p, typed, j) => i = j
         /\ DOMAIN Served(p) = {Full(p, typed, j) : j \in Registers(p)}
         /\ \A j \in Registers(p) :
              /\ Served(p)[Full(p, typed, j)].type = p[j].type
              /\ Chain(p, Full(p, typed, j)) = Outer(p, Owner(p, typed, j)) \o p[j].own
  <1> DEFINE R == Registers(p)
             D == DOMAIN Served(p)
             full == [j \in R |-> Full(p, typed, j)]
             I == {full[j] : j \in R}
  <1>1. IsFiniteSet(R)
    <2>1. Len(p) \in Nat /\ R \subseteq 1..Len(p)
      BY Statements DEF Registers, Positions
    <2>2. IsFiniteSet(1..Len(p))
      BY <2>1, FS_Interval
    <2> QED BY <2>1, <2>2, FS_Subset
  <1>2. Cardinality(D) = Cardinality(R)
    BY DEF NamesDistinct, Registers
  <1>3. D \subseteq I
    <2> SUFFICES ASSUME NEW m \in D PROVE m \in I
      OBVIOUS
    <2>1. PICK j \in R : m = Full(p, typed, j)
      BY ServedComes
    <2> QED BY <2>1
  <1> HIDE DEF R, D
  <1>4. full \in Surjection(R, I)
    <2>1. full \in [R -> I] /\ \A x \in I : \E j \in R : full[j] = x
      OBVIOUS
    <2> QED BY <2>1 DEF Surjection
  <1>5. \A j \in R : full[j] = Full(p, typed, j)
    OBVIOUS
  <1>6. I = {Full(p, typed, j) : j \in R}
    OBVIOUS
  <1> HIDE DEF full, I
  <1>7. /\ IsFiniteSet(I) /\ Cardinality(I) <= Cardinality(R)
        /\ Cardinality(I) = Cardinality(R) => full \in Injection(R, I)
    BY <1>1, <1>4, FS_Surjection
  <1>8. IsFiniteSet(D) /\ Cardinality(D) <= Cardinality(I) /\ (Cardinality(D) = Cardinality(I) => D = I)
    BY <1>3, <1>7, FS_Subset
  <1>9. Cardinality(D) = Cardinality(I) /\ Cardinality(I) = Cardinality(R)
    <2>1. Cardinality(R) \in Nat /\ Cardinality(I) \in Nat /\ Cardinality(D) \in Nat
      BY <1>1, <1>7, <1>8, FS_CardinalityType
    <2> QED BY <1>2, <1>7, <1>8, <2>1
  <1>10. \A i \in R, j \in R : Full(p, typed, i) = Full(p, typed, j) => i = j
    <2>1. full \in Injection(R, I)
      BY <1>7, <1>9
    <2>2. \A i \in R, j \in R : full[i] = full[j] => i = j
      BY <2>1 DEF Injection, IsInjective
    <2> QED BY <1>5, <2>2
  <1>11. D = {Full(p, typed, j) : j \in R}
    BY <1>6, <1>8, <1>9
  <1>12. ASSUME NEW j \in R
         PROVE  /\ Served(p)[Full(p, typed, j)].type = p[j].type
                /\ Chain(p, Full(p, typed, j)) = Outer(p, Owner(p, typed, j)) \o p[j].own
    <2> DEFINE m == Full(p, typed, j)
    <2>1. m \in D
      BY <1>11
    <2>2. PICK i \in R :
            /\ m = Full(p, typed, i)
            /\ Served(p)[m].type = p[i].type
            /\ Chain(p, m) = Outer(p, Owner(p, typed, i)) \o p[i].own
      BY <2>1, ServedComes DEF D, R
    <2>3. i = j
      BY <1>10, <2>2
    <2> QED BY <2>2, <2>3
  <1> QED BY <1>10, <1>11, <1>12 DEF R, D

LEMMA AllSame ==
  ASSUME NEW p, NEW typed, Good(p, typed), NamesDistinct(p)
  PROVE  SameProcedures(Procedures(p, typed), Served(p))
  <1> DEFINE procs == Procedures(p, typed)
             served == Served(p)
             R == Registers(p)
             full(j) == Full(p, typed, j)
  <1>1. /\ DOMAIN procs = R
        /\ \A j \in R : procs[j].name = full(j) /\ procs[j].type = p[j].type
    BY ResolvedIs DEF Full
  <1>2. /\ \A i \in R, j \in R : full(i) = full(j) => i = j
        /\ DOMAIN served = {full(j) : j \in R}
        /\ \A j \in R : served[full(j)].type = p[j].type
    BY ServedAll
  <1>3. R \subseteq Nat
    BY Statements DEF Registers, Positions
  <1>4. \A m \in DOMAIN served, n \in DOMAIN served : ~IsStrictPrefix(m, n)
    BY DEF NamesDistinct
  <1> HIDE DEF procs, served, R, full
  <1>5. Visible(procs) = DOMAIN procs
    <2>1. ASSUME NEW i \in R, NEW j \in R
          PROVE  /\ ~IsStrictPrefix(procs[j].name, procs[i].name)
                 /\ procs[j].name = procs[i].name => j <= i
      <3>1. ~IsStrictPrefix(full(j), full(i))
        BY <1>2, <1>4
      <3>2. full(j) = full(i) => j <= i
        BY <1>2, <1>3
      <3> QED BY <1>1, <3>1, <3>2
    <2> QED BY <1>1, <2>1 DEF Visible
  <1>6. {<<procs[i].name, procs[i].type>> : i \in R} = {<<full(i), p[i].type>> : i \in R}
    BY <1>1
  <1>7. {<<n, served[n].type>> : n \in DOMAIN served} = {<<full(i), p[i].type>> : i \in R}
    BY <1>2
  <1>8. SameProcedures(procs, served)
    BY <1>1, <1>5, <1>6, <1>7 DEF SameProcedures
  <1> QED BY <1>8 DEF procs, served

LEMMA Chains ==
  ASSUME NEW p, NEW typed, Good(p, typed), NamesDistinct(p), NEW i \in DOMAIN Parse(p, typed).procedures
  PROVE  LET parsed == Parse(p, typed) IN
         Chain(p, Resolved(parsed)[i].name)
           = Around(p, CallerVar(parsed, parsed.procedures[i]))[Len(p)].chain \o p[i].own
  <1>1. i \in Registers(p) /\ Procedures(p, typed)[i].name = Full(p, typed, i)
    BY ResolvedIs DEF Full
  <1>2. Chain(p, Full(p, typed, i)) = Outer(p, Owner(p, typed, i)) \o p[i].own
    BY <1>1, ServedAll
  <1> QED BY <1>1, <1>2 DEF Procedures, Outer, Owner

-----------------------------------------------------------------------------
(* The command *)

\* The source on disk is one of the programs.
LEMMA SourceHolds == Spec => [](source \in Programs)
  <1>1. WatchInv => source \in Programs
    BY DEF WatchInv, Typed
  <1> QED BY <1>1, WatchInvHolds, PTL

\* The router type that a generation writes for the source as it is has exactly
\* the procedures that the routers of this source come to serve, under their
\* full names and with their types of call; none is hidden behind another, and
\* it makes no difference if the source was parsed with types or without.  The
\* prefixes are found by walking from each registration to the router that
\* serves, the names by merging router into router: they agree if the source is
\* disciplined and no two of its procedures are served under one name.
THEOREM NamesAlwaysAgree == Spec => []NamesAgree
  <1>1. source \in Programs => NamesAgree
    <2> SUFFICES ASSUME source \in Programs, NEW g \in Fresh,
                        Disciplined(source, gens[g].read.typed), NamesDistinct(source)
                 PROVE  SameProcedures(Procedures(source, gens[g].read.typed), Served(source))
      BY DEF NamesAgree
    <2>1. Good(source, gens[g].read.typed)
      BY ProgramsAssumption DEF Good
    <2> QED BY <2>1, AllSame
  <1> QED BY <1>1, SourceHolds, PTL

\* A request to a procedure passes first the middlewares of the router that
\* serves, then those of each router its own was merged through, its own
\* router's and its own, each router's in the order they were used, those of
\* its factory before those used on the variable it was assigned to.  For that
\* every router has to be complete before it is merged: its middlewares are
\* copied into its procedures then.
THEOREM ChainAlwaysOrdered == Spec => []ChainOrder
  <1>1. source \in Programs => ChainOrder
    <2> SUFFICES ASSUME source \in Programs, Disciplined(source, TRUE), NamesDistinct(source),
                        NEW i \in DOMAIN Parse(source, TRUE).procedures
                 PROVE  LET parsed == Parse(source, TRUE) IN
                        Chain(source, Resolved(parsed)[i].name)
                          = Around(source, CallerVar(parsed, parsed.procedures[i]))[Len(source)].chain
                              \o source[i].own
      BY DEF ChainOrder
    <2>1. Good(source, TRUE)
      BY ProgramsAssumption DEF Good
    <2> QED BY <2>1, Chains
  <1> QED BY <1>1, SourceHolds, PTL
=============================================================================
