---------------------------- MODULE GetOptProofs ----------------------------
(***************************************************************************)
(* The command line is decided as the whole line reads, for any words and  *)
(* any length of the line.                                                 *)
(***************************************************************************)
EXTENDS GetOpt, FiniteSetTheorems, WellFoundedInduction, TLAPS

(* Induction over the words of a line, from the order of the numbers.      *)

LEMMA LeastNumber ==
  ASSUME NEW T, T \subseteq Nat, T # {}
  PROVE \E n \in T : \A m \in T : n <= m
<1> DEFINE R == {x \in Nat \X Nat : x[1] < x[2]}
<1>1. OpToRel(<, Nat) = R  BY DEF OpToRel
<1>2. IsWellFoundedOn(R, Nat)   BY <1>1, NatLessThanWellFounded
<1> HIDE DEF R
<1>3. PICK n \in T : \A m \in T : ~(<<m, n>> \in R)
  BY <1>2, WFMin
<1>4. SUFFICES ASSUME NEW m \in T PROVE n <= m   OBVIOUS
<1>5. m \in Nat /\ n \in Nat   OBVIOUS
<1>6. <<m, n>> \notin R   BY <1>3
<1>7. QED BY <1>5, <1>6 DEF R


\* The recursive function IsValue exists: a shortest line without one could be extended.
LEMMA TakenEquation ==
  ASSUME argv \in Seq(Words)
  PROVE  \A i \in 1..Len(argv) : IsValue[i] = (i > 1 /\ ~IsValue[i - 1] /\ Wants(argv[i - 1]))
<1> DEFINE Rule(T, i) == i \in T <=> (i > 1 /\ i - 1 \notin T /\ Wants(argv[i - 1]))
           Upto(n, T) == \A i \in 1..n : Rule(T, i)
           Bad == {n \in 0..Len(argv) : ~\E T \in SUBSET (1..n) : Upto(n, T)}
<1>1. Len(argv) \in Nat   OBVIOUS
<1>2. Bad = {}
  <2>1. SUFFICES ASSUME Bad # {} PROVE FALSE   OBVIOUS
  <2>2. PICK n \in Bad : \A m \in Bad : n <= m
    <3>1. Bad \subseteq Nat   BY <1>1
    <3> HIDE DEF Bad
    <3>2. QED   BY <2>1, <3>1, LeastNumber
  <2>3. n \in 0..Len(argv) /\ n \in Nat   BY <1>1
  <2>4. n # 0
    <3>1. SUFFICES ASSUME n = 0 PROVE FALSE   OBVIOUS
    <3>2. 1..n = {}   BY <3>1
    <3>3. \A T : Upto(n, T)   BY <3>2
    <3> HIDE DEF Upto
    <3>4. QED   BY <3>3
  <2>5. n - 1 \in 0..Len(argv) /\ ~(n <= n - 1)   BY <1>1, <2>3, <2>4
  <2>6. n - 1 \notin Bad
    <3> HIDE DEF Bad
    <3> QED   BY <2>2, <2>5
  <2>7. PICK T \in SUBSET (1..(n - 1)) : Upto(n - 1, T)
    <3> HIDE DEF Upto
    <3> QED   BY <2>5, <2>6
  <2> DEFINE more == {i \in {n} : n > 1 /\ n - 1 \notin T /\ Wants(argv[n - 1])}
             S == T \union more
  <2>8. S \in SUBSET (1..n)
    <3>1. T \subseteq 1..n /\ n \in 1..n   BY <2>3, <2>4
    <3>2. more \subseteq {n}   OBVIOUS
    <3> HIDE DEF more
    <3>3. QED   BY <3>1, <3>2
  <2>9. ASSUME NEW i \in 1..n PROVE Rule(S, i)
    <3>1. CASE i = n
      <4>1. n \notin T /\ n - 1 # n   BY <2>3
      <4>2. n - 1 \in S <=> n - 1 \in T   BY <4>1
      <4>3. n \in S <=> n \in more   BY <4>1
      <4>4. n \in more <=> n > 1 /\ n - 1 \notin T /\ Wants(argv[n - 1])   OBVIOUS
      <4> HIDE DEF more, S
      <4>5. QED   BY <3>1, <4>2, <4>3, <4>4
    <3>2. CASE i # n
      <4>1. i \in 1..(n - 1) /\ i - 1 # n   BY <2>3, <3>2
      <4>2. Rule(T, i)   BY <2>7, <4>1
      <4>3. more \subseteq {n}   OBVIOUS
      <4> HIDE DEF more
      <4>4. (i \in S <=> i \in T) /\ (i - 1 \in S <=> i - 1 \in T)   BY <3>2, <4>1, <4>3
      <4> HIDE DEF S
      <4>5. QED   BY <4>2, <4>4
    <3>3. QED   BY <3>1, <3>2
  <2>10. Upto(n, S)   BY <2>9
  <2> HIDE DEF Upto, S
  <2>11. QED   BY <2>8, <2>10
<1>3. PICK T \in SUBSET (1..Len(argv)) : Upto(Len(argv), T)
  <2>1. Len(argv) \in 0..Len(argv)   BY <1>1
  <2> HIDE DEF Upto
  <2>2. QED   BY <1>2, <2>1
<1> DEFINE f == [i \in 1..Len(argv) |-> i \in T]
           Eq(t) == t = [i \in 1..Len(argv) |-> i > 1 /\ ~t[i - 1] /\ Wants(argv[i - 1])]
<1>4. Eq(f)
  <2>1. ASSUME NEW i \in 1..Len(argv)
        PROVE  (i \in T) = (i > 1 /\ ~f[i - 1] /\ Wants(argv[i - 1]))
    <3>1. i > 1 => i - 1 \in 1..Len(argv)   BY <1>1
    <3>2. i > 1 => (f[i - 1] <=> i - 1 \in T)   BY <3>1
    <3>3. Rule(T, i)   BY <1>3
    <3> HIDE DEF f
    <3>4. i \in T <=> (i > 1 /\ ~f[i - 1] /\ Wants(argv[i - 1]))   BY <3>2, <3>3
    <3> DEFINE rest == i > 1 /\ ~f[i - 1] /\ Wants(argv[i - 1])
    <3>5. i \in T <=> rest   BY <3>4
    <3> HIDE DEF rest
    <3>6. (i \in T) = rest   BY <3>5
    <3> USE DEF rest
    <3>7. QED   BY <3>6
  <2> DEFINE g == [i \in 1..Len(argv) |-> i > 1 /\ ~f[i - 1] /\ Wants(argv[i - 1])]
  <2>2. \A i \in 1..Len(argv) : f[i] = g[i]
    <3> SUFFICES ASSUME NEW i \in 1..Len(argv) PROVE f[i] = g[i]   OBVIOUS
    <3>1. f[i] = (i \in T)   OBVIOUS
    <3>2. g[i] = (i > 1 /\ ~f[i - 1] /\ Wants(argv[i - 1]))
      <4> HIDE DEF f
      <4>1. QED   OBVIOUS
    <3>3. (i \in T) = (i > 1 /\ ~f[i - 1] /\ Wants(argv[i - 1]))   BY <2>1
    <3> HIDE DEF f, g
    <3>4. QED   BY <3>1, <3>2, <3>3
  <2>3. f = [i \in 1..Len(argv) |-> f[i]] /\ g = [i \in 1..Len(argv) |-> g[i]]   OBVIOUS
  <2> HIDE DEF f
  <2>4. f = g
    <3> HIDE DEF g
    <3>1. QED   BY <2>2, <2>3
  <2>5. QED   BY <2>4
<1>5. IsValue = CHOOSE t : Eq(t)   BY DEF IsValue
<1>6. Eq(IsValue)
  <2> HIDE DEF Eq
  <2>1. Eq(CHOOSE t : Eq(t))  BY <1>4
  <2>2. QED   BY <1>5, <2>1
<1>7. QED   BY <1>6

----------------------------------------------------------------------------
(* Types.                                                                  *)

\* The tables of the programs: an option has one kind.
LEMMA Tables ==
  ASSUME program \in DOMAIN Programs
  PROVE  /\ "h" \in options.flag /\ options.file \subseteq {"c"}
         /\ {"?", "EOF"} \intersect (WithValue \union options.flag) = {}
         /\ options.flag \intersect WithValue = {}
         /\ options.text \intersect options.number = {}
         /\ "c" \notin options.text \union options.number \union options.flag
BY DEF Programs, options, WithValue, um_perf_pub, um_perf_sub, sock_perf_pub, sock_perf_pub2,
       sock_perf_sub, um_perf_jitter

LEMMA SameLine ==
  ASSUME program' = program, argv' = argv
  PROVE  options' = options /\ WithValue' = WithValue /\ argc' = argc
BY DEF options, WithValue, argc

LEMMA TypeInit == Init => TypeOK
<1> SUFFICES ASSUME Init PROVE TypeOK   OBVIOUS
<1>1. program \in DOMAIN Programs /\ argv \in Seq(Words)   BY WordsAssumption DEF Init
<1>2. optind \in 1..argc   BY <1>1 DEF Init, argc
<1>3. setting \in [WithValue -> Values \union {"unset"}]   BY DEF Init
<1>4. configs \in Seq(Values)   BY DEF Init
<1>5. QED   BY <1>1, <1>2, <1>3, <1>4 DEF Init, TypeOK

LEMMA TypeStep == TypeOK /\ [Next]_vars => TypeOK'
<1> SUFFICES ASSUME TypeOK, [Next]_vars PROVE TypeOK'   OBVIOUS
<1>1. CASE UNCHANGED vars
  <2>1. program' = program /\ argv' = argv   BY <1>1 DEF vars
  <2>2. QED   BY <1>1, <2>1, SameLine DEF vars, TypeOK
<1>2. program' = program /\ argv' = argv /\ argv \in Seq(Words) /\ Len(argv) \in Nat
  BY DEF TypeOK, Next, cprt_getopt, EndOfOptions, EndMarker, BadOption, FlagOption,
         AttachedValue, SeparateValue, Returns, get_my_opts, Help, Usage, LoopEnds, Check,
         Text, Number, Config, Flag, Switch, Finished, vars
<1>3. options' = options /\ WithValue' = WithValue /\ argc' = argc   BY <1>2, SameLine
<1>4. optind \in 1..argc /\ argc = Len(argv) + 1 /\ argc \in Nat   BY <1>2 DEF TypeOK, argc
<1>5. ASSUME NEW o \in WithValue \union options.flag \union {"?", "EOF"},
             NEW v \in {{}} \union {{x} : x \in Values}, NEW n \in {0, 1, 2},
             Returns(o, v, n), o \in WithValue => v # {}, optind + n <= argc
      PROVE  TypeOK'
  <2>1. optind' \in 1..argc   BY <1>4, <1>5 DEF Returns
  <2>2. QED   BY <1>3, <1>5, <2>1 DEF Returns, TypeOK
<1>6. {"?", "EOF"} \intersect (WithValue \union options.flag) = {}
      /\ options.flag \intersect WithValue = {}
  BY Tables DEF TypeOK
<1>7. ASSUME IsOption
      PROVE  /\ optind + 1 <= argc /\ word \in Words
             /\ word \in DOMAIN Attached => Attached[word] \in Values
             /\ optind + 1 < argc => argv[optind + 1] \in Values /\ optind + 2 <= argc
  <2>1. optind \in 1..Len(argv)   BY <1>4, <1>7 DEF IsOption
  <2>2. optind + 1 < argc => optind + 1 \in 1..Len(argv)   BY <1>4
  <2>3. \A i \in 1..Len(argv) : argv[i] \in Words   BY <1>2
  <2>4. QED   BY <1>4, <2>1, <2>2, <2>3 DEF word, Values
<1>8. CASE EndOfOptions   BY <1>4, <1>5, <1>6, <1>8 DEF EndOfOptions
<1>9. CASE EndMarker
  <2>1. optind + 1 <= argc   BY <1>4, <1>9 DEF EndMarker
  <2>2. Returns("EOF", {}, 1)   BY <1>9 DEF EndMarker
  <2>3. QED   BY <1>5, <1>6, <2>1, <2>2
<1>10. CASE BadOption   BY <1>4, <1>5, <1>6, <1>10 DEF BadOption
<1>11. CASE FlagOption   BY <1>5, <1>6, <1>7, <1>11 DEF FlagOption
<1>12. CASE AttachedValue   BY <1>5, <1>6, <1>7, <1>12 DEF AttachedValue
<1>13. CASE SeparateValue
  <2>1. CASE optind + 1 >= argc
    <3>1. Returns("?", {}, 1)   BY <1>13, <2>1 DEF SeparateValue
    <3>2. optind + 1 <= argc   BY <1>7, <1>13 DEF SeparateValue
    <3>3. QED   BY <1>5, <1>6, <3>1, <3>2
  <2>2. CASE ~(optind + 1 >= argc)
    <3>1. Returns(letter, {argv[optind + 1]}, 2) /\ letter \in WithValue
      BY <1>13, <2>2 DEF SeparateValue
    <3>2. argv[optind + 1] \in Values /\ optind + 2 <= argc
      BY <1>4, <1>7, <1>13, <2>2 DEF SeparateValue
    <3>3. QED   BY <1>5, <3>1, <3>2
  <2>3. QED   BY <2>1, <2>2
<1>14. CASE Help \/ Usage \/ LoopEnds \/ Check
  BY <1>3, <1>14 DEF Help, Usage, LoopEnds, Check, Switch, Done, TypeOK
<1>15. ASSUME NEW o \in options.flag, Flag(o) PROVE TypeOK'
  BY <1>3, <1>15 DEF Flag, Switch, TypeOK
<1>16. ASSUME NEW v \in optarg PROVE v \in Values   BY DEF TypeOK
<1>17. ASSUME NEW o \in WithValue, NEW v \in Values, Keep(o, v)
       PROVE  setting' \in [WithValue -> Values \union {"unset"}]
  BY <1>17 DEF Keep, TypeOK
<1>18. ASSUME NEW o \in WithValue, Text(o) PROVE TypeOK'
  <2>1. PICK v \in optarg : Keep(o, v)   BY <1>18 DEF Text
  <2>2. setting' \in [WithValue -> Values \union {"unset"}]   BY <1>16, <1>17, <2>1
  <2>3. QED   BY <1>3, <1>18, <2>2 DEF Text, Switch, TypeOK
<1>19. ASSUME NEW o \in WithValue, Number(o) PROVE TypeOK'
  <2>1. PICK v \in optarg : \/ Keep(o, v) /\ pc' = "getopt" /\ UNCHANGED verdict
                            \/ Done("rejected") /\ UNCHANGED setting
    BY <1>19 DEF Number
  <2>2. setting' \in [WithValue -> Values \union {"unset"}]
    BY <1>3, <1>16, <1>17, <2>1 DEF TypeOK
  <2>3. QED   BY <1>3, <1>19, <2>1, <2>2 DEF Number, Done, Switch, TypeOK
<1>20. ASSUME NEW o \in WithValue, Config(o) PROVE TypeOK'
  <2>1. PICK v \in optarg : Keep(o, v) /\ (configs' = Append(configs, v) \/ UNCHANGED configs)
                            /\ ((pc' = "getopt" /\ UNCHANGED verdict) \/ Done("rejected"))
    BY <1>20 DEF Config
  <2>2. configs' \in Seq(Values)   BY <1>16, <2>1 DEF TypeOK
  <2>3. setting' \in [WithValue -> Values \union {"unset"}]   BY <1>16, <1>17, <2>1
  <2>4. QED   BY <1>3, <1>20, <2>1, <2>2, <2>3 DEF Config, Done, Switch, TypeOK
<1>21. CASE Finished   BY <1>1, <1>21 DEF Finished
<1>22. QED
  BY <1>1, <1>8, <1>9, <1>10, <1>11, <1>12, <1>13, <1>14, <1>15, <1>18, <1>19, <1>20, <1>21
  DEF Next, cprt_getopt, get_my_opts

\* The moving index stays inside the line, and an option that needs a value has one when its
\* case of the switch is reached (cprt.c:414-491).
THEOREM TypeCorrect == Spec => []TypeOK
<1>1. QED   BY TypeInit, TypeStep, PTL DEF Spec

----------------------------------------------------------------------------
(* The moving index reads what the whole line says.                        *)

\* The options before position m whose letter is in O.
Before(O, m) == {i \in 1..(m - 1) : ~IsValue[i] /\ Letter[argv[i]] \in O}

\* The words before position m are options, none of which ends the program, and their values.
Place(m) ==
  /\ m \in 1..argc
  /\ m <= Len(argv) => ~IsValue[m]
  /\ \A i \in 1..(m - 1) : IsValue[i] \/ argv[i] \in DOMAIN Letter
  /\ \A i \in 1..(m - 1) : ~IsValue[i] => ~Wrong(i) /\ Letter[argv[i]] # "h"

Option(m) == Place(m) /\ m <= Len(argv) /\ argv[m] \in DOMAIN Letter
After(m) == IF Wants(argv[m]) THEN m + 2 ELSE m + 1

\* Settings S, flags F and configurations C are what those options ask for.
Kept(m, S) ==
  S = [o \in WithValue |-> IF Before({o}, m) = {} THEN "unset" ELSE ValueOf(Max(Before({o}, m)))]
Flagged(m, F) == F = {o \in options.flag : Before({o}, m) # {}}
Loaded(m, C) ==
  LET at == Before({"c"}, m)
  IN  /\ Len(C) = Cardinality(at)
      /\ \A i \in at : C[Cardinality({j \in at : j <= i})] = ValueOf(i)
Asked(m, S, F, C) == Kept(m, S) /\ Flagged(m, F) /\ Loaded(m, C)

LEMMA SameReading ==
  ASSUME program' = program, argv' = argv
  PROVE  /\ \A m : Place(m)' = Place(m) /\ Option(m)' = Option(m) /\ After(m)' = After(m)
         /\ \A m, S, F, C : Asked(m, S, F, C)' = Asked(m, S, F, C)
         /\ \A i : ValueOf(i)' = ValueOf(i) /\ Wrong(i)' = Wrong(i) /\ Lacking(i)' = Lacking(i)
         /\ Verdict' = Verdict
<1>1. options' = options /\ WithValue' = WithValue /\ argc' = argc   BY SameLine
<1>2. \A w : Wants(w)' = Wants(w)   BY <1>1 DEF Wants
<1>3. IsValue' = IsValue   BY <1>2 DEF IsValue
<1>4. \A O, m : Before(O, m)' = Before(O, m)   BY <1>3 DEF Before
<1>5. \A i : ValueOf(i)' = ValueOf(i) /\ Lacking(i)' = Lacking(i)   BY <1>2 DEF ValueOf, Lacking
<1>6. \A i : Wrong(i)' = Wrong(i)   BY <1>1, <1>5 DEF Wrong
<1>7. \A m : Place(m)' = Place(m)   BY <1>1, <1>3, <1>6 DEF Place
<1>8. \A m : Option(m)' = Option(m) /\ After(m)' = After(m)   BY <1>2, <1>7 DEF Option, After
<1>9. \A m, S, F, C : Asked(m, S, F, C)' = Asked(m, S, F, C)
  <2>1. \A m, S : Kept(m, S)' = Kept(m, S)   BY <1>1, <1>4, <1>5 DEF Kept
  <2>2. \A m, F : Flagged(m, F)' = Flagged(m, F)   BY <1>1, <1>4 DEF Flagged
  <2>3. \A m, C : Loaded(m, C)' = Loaded(m, C)   BY <1>4, <1>5 DEF Loaded
  <2>4. QED   BY <2>1, <2>2, <2>3 DEF Asked
<1>10. Verdict' = Verdict
  <2>1. FirstArg' = FirstArg   BY <1>1, <1>3 DEF FirstArg
  <2>2. \A O : OptionsAt(O)' = OptionsAt(O)   BY <1>3, <2>1 DEF OptionsAt
  <2>3. Stops' = Stops   BY <1>6, <2>2 DEF Stops
  <2>4. LastValue' = LastValue   BY <1>1, <1>5, <2>2 DEF LastValue
  <2>5. NoArguments' = NoArguments   BY <1>1, <2>1 DEF NoArguments
  <2>6. Accepts(LastValue)' = Accepts(LastValue)   BY <1>1, <2>4 DEF Accepts
  <2>7. QED   BY <1>6, <2>3, <2>5, <2>6 DEF Verdict
<1>11. QED   BY <1>5, <1>6, <1>7, <1>8, <1>9, <1>10

\* The position after an option and its value is a place again, unless the option ends the
\* program.
LEMMA NextPlace ==
  ASSUME TypeOK, NEW m, Option(m), ~Wrong(m), Letter[argv[m]] # "h"
  PROVE  /\ Place(After(m))
         /\ \A O : Before(O, After(m)) =
                     Before(O, m) \union (IF Letter[argv[m]] \in O THEN {m} ELSE {})
<1> DEFINE n == After(m)
<1>1. argv \in Seq(Words) /\ Len(argv) \in Nat /\ argc = Len(argv) + 1   BY DEF TypeOK, argc
<1>2. m \in 1..Len(argv) /\ ~IsValue[m]   BY <1>1 DEF Option, Place
<1>3. \A i \in 1..Len(argv) : IsValue[i] = (i > 1 /\ ~IsValue[i - 1] /\ Wants(argv[i - 1]))
  BY <1>1, TakenEquation
<1>4. Wants(argv[m]) => m + 1 \in 1..Len(argv)   BY <1>1, <1>2 DEF Wrong, Lacking
<1>5. m + 1 <= Len(argv) => (IsValue[m + 1] <=> Wants(argv[m]))
  <2>1. m + 1 <= Len(argv) => m + 1 \in 1..Len(argv)   BY <1>1, <1>2
  <2>2. m + 1 > 1 /\ (m + 1) - 1 = m   BY <1>2
  <2>3. QED   BY <1>2, <1>3, <2>1, <2>2
<1>6. m + 2 <= Len(argv) /\ Wants(argv[m]) => ~IsValue[m + 2]
  <2>1. m + 2 <= Len(argv) => m + 2 \in 1..Len(argv)   BY <1>1, <1>2
  <2>2. (m + 2) - 1 = m + 1   BY <1>2
  <2>3. Wants(argv[m]) => IsValue[m + 1]   BY <1>1, <1>4, <1>5
  <2>4. QED   BY <1>3, <2>1, <2>2, <2>3
<1>7. n \in 1..argc /\ (n <= Len(argv) => ~IsValue[n])   BY <1>1, <1>2, <1>4, <1>5, <1>6 DEF After
<1>8. ASSUME NEW i \in 1..(n - 1)
      PROVE  i \in 1..(m - 1) \/ i = m \/ (i = m + 1 /\ IsValue[i] /\ Wants(argv[m]))
  BY <1>1, <1>2, <1>4, <1>5 DEF After
<1>9. ASSUME NEW i \in 1..(m - 1) \union {m} PROVE i \in 1..(n - 1)   BY <1>2 DEF After
<1>10. Place(n)
  <2>1. ASSUME NEW i \in 1..(n - 1), ~IsValue[i]
        PROVE  argv[i] \in DOMAIN Letter /\ ~Wrong(i) /\ Letter[argv[i]] # "h"
    BY <1>8, <2>1 DEF Option, Place
  <2> HIDE DEF n
  <2>2. QED   BY <1>7, <2>1 DEF Place
<1>11. ASSUME NEW O
       PROVE  Before(O, n) = Before(O, m) \union (IF Letter[argv[m]] \in O THEN {m} ELSE {})
  <2> HIDE DEF n
  <2>1. QED   BY <1>2, <1>8, <1>9 DEF Before
<1>12. QED   BY <1>10, <1>11

\* A set of positions and a position after all of them.
LEMMA NewLast ==
  ASSUME NEW m \in Nat \ {0}, NEW T \in SUBSET (1..(m - 1))
  PROVE  /\ IsFiniteSet(T) /\ Cardinality(T) \in Nat
         /\ Max(T \union {m}) = m
         /\ Cardinality(T \union {m}) = Cardinality(T) + 1
         /\ {j \in T \union {m} : j <= m} = T \union {m}
         /\ \A i \in T : /\ {j \in T \union {m} : j <= i} = {j \in T : j <= i}
                         /\ Cardinality({j \in T : j <= i}) \in 1..Cardinality(T)
<1>1. T \subseteq Int /\ m \notin T /\ \A j \in T : j < m   OBVIOUS
<1>2. IsFiniteSet(T)
  <2>1. IsFiniteSet(1..(m - 1))   BY FS_Interval
  <2>2. QED   BY <2>1, FS_Subset
<1>3. Cardinality(T) \in Nat   BY <1>2, FS_CardinalityType
<1>4. Max(T \union {m}) = m
  <2>1. m \in T \union {m} /\ \A y \in T \union {m} : m >= y   BY <1>1
  <2>2. \A x \in T \union {m} : (\A y \in T \union {m} : x >= y) => x = m   BY <1>1
  <2>3. QED   BY <2>1, <2>2 DEF Max
<1>5. Cardinality(T \union {m}) = Cardinality(T) + 1   BY <1>1, <1>2, FS_AddElement
<1>6. {j \in T \union {m} : j <= m} = T \union {m}
  <2>1. \A j \in T \union {m} : j <= m   BY <1>1
  <2>2. QED   BY <2>1
<1>7. ASSUME NEW i \in T
      PROVE  /\ {j \in T \union {m} : j <= i} = {j \in T : j <= i}
             /\ Cardinality({j \in T : j <= i}) \in 1..Cardinality(T)
  <2> DEFINE U == {j \in T : j <= i}
  <2>1. {j \in T \union {m} : j <= i} = U   BY <1>1
  <2>2. U \subseteq T /\ i \in U   BY <1>1
  <2> HIDE DEF U
  <2>3. IsFiniteSet(U) /\ Cardinality(U) <= Cardinality(T)   BY <1>2, <2>2, FS_Subset
  <2>4. Cardinality(U) \in Nat /\ Cardinality(U) # 0
    BY <2>2, <2>3, FS_CardinalityType, FS_EmptySet
  <2>5. Cardinality(U) \in 1..Cardinality(T)   BY <1>3, <2>3, <2>4
  <2>6. QED   BY <2>1, <2>5 DEF U
<1>8. QED   BY <1>2, <1>3, <1>4, <1>5, <1>6, <1>7

\* One option more: its setting, its flag, its configuration file.
LEMMA NextAsked ==
  ASSUME TypeOK, NEW m, Option(m), ~Wrong(m), Letter[argv[m]] # "h",
         NEW S, NEW F, NEW C \in Seq(Values), Asked(m, S, F, C)
  PROVE  LET l == Letter[argv[m]]
             v == ValueOf(m)
         IN  Asked(After(m), IF l \in WithValue THEN [S EXCEPT ![l] = v] ELSE S,
                             IF l \in options.flag THEN F \union {l} ELSE F,
                             IF l \in options.file THEN Append(C, v) ELSE C)
<1> DEFINE l == Letter[argv[m]]
           v == ValueOf(m)
           n == After(m)
           Old(o) == Before({o}, m)
           New(o) == Before({o}, n)
<1>1. m \in Nat \ {0} /\ \A O : Before(O, m) \in SUBSET (1..(m - 1))
  BY DEF TypeOK, argc, Option, Place, Before
<1>2. \A o : New(o) = IF o = l THEN Old(o) \union {m} ELSE Old(o)
  <2>1. \A O : Before(O, n) = Before(O, m) \union (IF l \in O THEN {m} ELSE {})   BY NextPlace
  <2> HIDE DEF l, n
  <2>2. QED   BY <2>1
<1>3. \A o : Old(o) \in SUBSET (1..(m - 1))   BY <1>1
<1> HIDE DEF n, Old, New
<1>4. Kept(n, IF l \in WithValue THEN [S EXCEPT ![l] = v] ELSE S)
  <2> DEFINE Newest(o) == IF New(o) = {} THEN "unset" ELSE ValueOf(Max(New(o)))
             Was(o) == IF Old(o) = {} THEN "unset" ELSE ValueOf(Max(Old(o)))
  <2>1. S = [o \in WithValue |-> Was(o)]   BY DEF Asked, Kept, Old
  <2>2. Newest(l) = v
    <3>1. Max(Old(l) \union {m}) = m   BY <1>1, <1>3, NewLast
    <3>2. New(l) = Old(l) \union {m}   BY <1>2
    <3>3. QED   BY <3>1, <3>2
  <2>3. \A o : o # l => Newest(o) = Was(o)   BY <1>2
  <2> HIDE DEF Newest, Was, l, v
  <2>4. (IF l \in WithValue THEN [S EXCEPT ![l] = v] ELSE S) = [o \in WithValue |-> Newest(o)]
    <3>1. CASE l \in WithValue   BY <2>1, <2>2, <2>3, <3>1
    <3>2. CASE l \notin WithValue   BY <2>1, <2>3, <3>2
    <3>3. QED   BY <3>1, <3>2
  <2>5. QED   BY <2>4 DEF Kept, Newest, New
<1>5. Flagged(n, IF l \in options.flag THEN F \union {l} ELSE F)
  <2>1. F = {o \in options.flag : Old(o) # {}}   BY DEF Asked, Flagged, Old
  <2>2. \A o : New(o) # {} <=> Old(o) # {} \/ o = l   BY <1>2
  <2> HIDE DEF l
  <2>3. (IF l \in options.flag THEN F \union {l} ELSE F) = {o \in options.flag : New(o) # {}}
    BY <2>1, <2>2
  <2>4. QED   BY <2>3 DEF Flagged, New
<1>6. Loaded(n, IF l \in options.file THEN Append(C, v) ELSE C)
  <2> DEFINE at == Old("c")
  <2>1. Len(C) = Cardinality(at) /\ \A i \in at : C[Cardinality({j \in at : j <= i})] = ValueOf(i)
    BY DEF Asked, Loaded, Old
  <2>2. l \in options.file <=> l = "c"
    <3>1. l = "c" => l \in options.file
      BY Tables DEF TypeOK, Wrong, WithValue
    <3>2. QED   BY <3>1, Tables DEF TypeOK
  <2>3. CASE l # "c"
    <3>1. New("c") = at   BY <1>2, <2>3
    <3>2. QED   BY <2>1, <2>2, <2>3, <3>1 DEF Loaded, New
  <2>4. CASE l = "c"
    <3> DEFINE D == Append(C, v)
    <3>1. New("c") = at \union {m}   BY <1>2, <2>4
    <3>2. at \in SUBSET (1..(m - 1))   BY <1>3
    <3> HIDE DEF at
    <3>3. /\ Cardinality(at) \in Nat
          /\ Cardinality(at \union {m}) = Cardinality(at) + 1
          /\ {j \in at \union {m} : j <= m} = at \union {m}
          /\ \A i \in at : /\ {j \in at \union {m} : j <= i} = {j \in at : j <= i}
                           /\ Cardinality({j \in at : j <= i}) \in 1..Cardinality(at)
      BY <1>1, <3>2, NewLast
    <3>4. Len(D) = Cardinality(at) + 1 /\ D[Cardinality(at) + 1] = v
          /\ \A k \in 1..Cardinality(at) : D[k] = C[k]
      BY <2>1
    <3> HIDE DEF D
    <3>5. ASSUME NEW i \in at \union {m}
          PROVE  D[Cardinality({j \in at \union {m} : j <= i})] = ValueOf(i)
      <4>1. CASE i = m   BY <3>3, <3>4, <4>1
      <4>2. CASE i \in at   BY <2>1, <3>3, <3>4, <4>2
      <4>3. QED   BY <4>1, <4>2
    <3>6. Loaded(n, D)   BY <3>1, <3>3, <3>4, <3>5 DEF Loaded, New
    <3>7. QED   BY <2>2, <2>4, <3>6 DEF D
  <2>5. QED   BY <2>3, <2>4
<1>7. QED   BY <1>4, <1>5, <1>6 DEF Asked, n

LEMMA MinOf ==
  ASSUME NEW T, T \subseteq Nat, T # {}
  PROVE  Min(T) \in T /\ \A y \in T : Min(T) <= y
BY LeastNumber DEF Min

\* The first argument is where the reading ends, and after an option that is still being read.
LEMMA FirstArgument ==
  ASSUME TypeOK, NEW m, Place(m)
  PROVE  /\ m = argc \/ argv[m] \notin DOMAIN Letter => FirstArg = m
         /\ Option(m) => FirstArg \in (m + 1)..argc
<1> DEFINE Args == {i \in 1..Len(argv) : ~IsValue[i] /\ argv[i] \notin DOMAIN Letter} \union {argc}
<1>1. Len(argv) \in Nat /\ argc = Len(argv) + 1   BY DEF TypeOK, argc
<1>2. m \in 1..argc   BY DEF Place
<1>3. \A i \in Args : i \in 1..argc /\ i >= m
  <2> SUFFICES ASSUME NEW i \in Args PROVE i \in 1..argc /\ i >= m   OBVIOUS
  <2>1. i \in 1..argc   BY <1>1
  <2>2. i \notin 1..(m - 1)   BY <1>1, <1>2 DEF Place
  <2>3. QED   BY <1>1, <1>2, <2>1, <2>2
<1>4. m = argc \/ argv[m] \notin DOMAIN Letter => m \in Args
  <2>1. m # argc => m \in 1..Len(argv)   BY <1>1, <1>2
  <2>2. QED   BY <1>1, <1>2, <2>1 DEF Place
<1>5. Option(m) => m \notin Args   BY <1>1, <1>2 DEF Option
<1>6. Min(Args) \in Args /\ \A y \in Args : Min(Args) <= y
  <2>1. Args \subseteq Nat /\ Args # {}   BY <1>1
  <2> HIDE DEF Args
  <2>2. QED   BY <2>1, MinOf
<1>7. FirstArg = Min(Args)   BY DEF FirstArg
<1> HIDE DEF Args
<1>8. FirstArg \in 1..argc /\ FirstArg >= m   BY <1>3, <1>6, <1>7
<1>9. m = argc \/ argv[m] \notin DOMAIN Letter => FirstArg = m
  <2>1. m \in Args => FirstArg <= m   BY <1>6, <1>7
  <2>2. QED   BY <1>1, <1>2, <1>4, <1>8, <2>1
<1>10. Option(m) => FirstArg \in (m + 1)..argc
  <2>1. Option(m) => FirstArg # m   BY <1>5, <1>6, <1>7
  <2>2. QED   BY <1>1, <1>2, <1>8, <2>1
<1>11. QED   BY <1>9, <1>10

\* The options end at m, where the index is, or just before it for "--".
End(m) ==
  /\ Place(m)
  /\ m = argc \/ argv[m] \notin DOMAIN Letter
  /\ optind = IF m < argc /\ argv[m] = DashDash THEN m + 1 ELSE m

\* At the end of the options everything is as the whole line asks for.
LEMMA AtEnd ==
  ASSUME TypeOK, NEW m, End(m), NEW S, NEW F, NEW C, Asked(m, S, F, C)
  PROVE  /\ \A O : OptionsAt(O) = Before(O, m)
         /\ S = LastValue
         /\ Verdict = IF Accepts(S) /\ optind = argc THEN "run" ELSE "rejected"
<1>1. Len(argv) \in Nat /\ argc = Len(argv) + 1   BY DEF TypeOK, argc
<1>2. m \in 1..argc   BY DEF End, Place
<1>3. FirstArg = m   BY FirstArgument DEF End
<1>4. \A O : OptionsAt(O) = Before(O, m)   BY <1>3 DEF OptionsAt, Before
<1>5. S = LastValue   BY <1>4 DEF Asked, Kept, LastValue
<1>6. Stops = {}
  <2>1. \A i \in Before(Letters, m) : ~Wrong(i)   BY DEF End, Place, Before
  <2>2. Before({"h"}, m) = {}   BY DEF End, Place, Before
  <2>3. QED   BY <1>4, <2>1, <2>2 DEF Stops
<1>7. NoArguments <=> optind = argc   BY <1>1, <1>2, <1>3 DEF NoArguments, End
<1>8. QED   BY <1>4, <1>5, <1>6, <1>7 DEF Verdict

\* An option that ends the program is the first that does.
LEMMA AtStop ==
  ASSUME TypeOK, NEW m, Option(m), Wrong(m) \/ Letter[argv[m]] = "h"
  PROVE  Verdict = IF Wrong(m) THEN "rejected" ELSE "help"
<1>1. Len(argv) \in Nat /\ argc = Len(argv) + 1   BY DEF TypeOK, argc
<1>2. m \in 1..Len(argv) /\ ~IsValue[m] /\ argv[m] \in DOMAIN Letter
  BY <1>1 DEF Option, Place
<1>3. FirstArg \in (m + 1)..argc   BY FirstArgument DEF Option
<1>4. m \in Stops
  <2>1. m \in 1..(FirstArg - 1)   BY <1>1, <1>2, <1>3
  <2>2. QED   BY <1>2, <2>1 DEF Stops, OptionsAt, Letters
<1>5. \A i \in Stops : i \in Nat /\ i >= m
  <2> SUFFICES ASSUME NEW i \in Stops PROVE i \in Nat /\ i >= m   OBVIOUS
  <2>1. i \in 1..(FirstArg - 1) /\ ~IsValue[i] /\ (Wrong(i) \/ Letter[argv[i]] = "h")
    BY DEF Stops, OptionsAt
  <2>2. i \notin 1..(m - 1)   BY <2>1 DEF Option, Place
  <2>3. QED   BY <1>1, <1>2, <1>3, <2>1, <2>2
<1>6. Min(Stops) = m
  <2>1. Stops \subseteq Nat /\ Stops # {}   BY <1>4, <1>5
  <2>2. Min(Stops) \in Stops /\ Min(Stops) <= m   BY <1>4, <2>1, MinOf
  <2>3. QED   BY <1>2, <1>5, <2>2
<1>7. QED   BY <1>4, <1>6 DEF Verdict

\* The option cprt_getopt() has just returned stands at m.
InHand(m) ==
  /\ Option(m)
  /\ Letter[argv[m]] = opt
  /\ opt \in WithValue \union options.flag
  /\ opt \in options.flag => argv[m] \notin DOMAIN Attached
  /\ optind = After(m)
  /\ ~Lacking(m)
  /\ opt \in WithValue => optarg = {ValueOf(m)}

AskedTo(m) == Asked(m, setting, flags, configs)

\* What has been read, at each position of the code.
Reading ==
  /\ pc = "getopt" => Place(optind) /\ AskedTo(optind)
  /\ pc = "switch" =>
       \/ opt = "EOF" /\ \E m : End(m) /\ AskedTo(m)
       \/ opt = "?" /\ \E m : Option(m) /\ Wrong(m)
       \/ \E m : InHand(m) /\ AskedTo(m)
  /\ pc = "checks" => \E m : End(m) /\ AskedTo(m)
  /\ pc # "done" => verdict = "none"
  /\ pc = "done" => verdict = Verdict
  /\ verdict = "run" => Accepts(setting) /\ \E m : End(m) /\ AskedTo(m)

LEMMA ReadingInit == Init => Reading
<1> SUFFICES ASSUME Init PROVE Reading   OBVIOUS
<1>1. TypeOK   BY TypeInit
<1>2. optind = 1 /\ argc \in Nat \ {0} /\ argv \in Seq(Words)   BY <1>1 DEF Init, TypeOK, argc
<1>3. 1..(optind - 1) = {}   BY <1>2
<1>4. Place(optind)
  <2>1. 1 <= Len(argv) => ~IsValue[1]
    <3>1. 1 <= Len(argv) => 1 \in 1..Len(argv)   BY <1>2
    <3>2. \A i \in 1..Len(argv) :
            IsValue[i] = (i > 1 /\ ~IsValue[i - 1] /\ Wants(argv[i - 1]))
      BY <1>2, TakenEquation
    <3>3. 1 <= Len(argv) => IsValue[1] = (1 > 1 /\ ~IsValue[1 - 1] /\ Wants(argv[1 - 1]))
      BY <3>1, <3>2
    <3>4. ~(1 > 1)   OBVIOUS
    <3>5. QED   BY <3>3, <3>4
  <2>2. optind \in 1..argc   BY <1>2
  <2>3. QED   BY <1>2, <1>3, <2>1, <2>2 DEF Place
<1>5. \A O : Before(O, optind) = {}   BY <1>3 DEF Before
<1>6. Asked(optind, setting, flags, configs)
  <2>1. Kept(optind, setting)   BY <1>5 DEF Init, Kept
  <2>2. Flagged(optind, flags)   BY <1>5 DEF Init, Flagged
  <2>3. Loaded(optind, configs)   BY <1>5, FS_EmptySet DEF Init, Loaded
  <2>4. QED   BY <2>1, <2>2, <2>3 DEF Asked
<1>7. QED   BY <1>4, <1>6 DEF Reading, AskedTo, Init

\* cprt_getopt() returns what stands at the index.
LEMMA GetOptStep ==
  ASSUME TypeOK, Reading, cprt_getopt
  PROVE  Reading'
<1>1. program' = program /\ argv' = argv /\ pc = "getopt" /\ pc' = "switch" /\ verdict = "none"
      /\ setting' = setting /\ flags' = flags /\ configs' = configs /\ verdict' = verdict
  BY DEF cprt_getopt, EndOfOptions, EndMarker, BadOption, FlagOption, AttachedValue,
         SeparateValue, Returns, Reading
<1>2. options' = options /\ WithValue' = WithValue /\ argc' = argc   BY <1>1, SameLine
<1>3. Place(optind) /\ AskedTo(optind)   BY <1>1 DEF Reading
<1>4. Len(argv) \in Nat /\ argc = Len(argv) + 1 /\ optind \in 1..argc   BY DEF TypeOK, argc
<1>5. /\ \A m : Place(m)' = Place(m) /\ Option(m)' = Option(m) /\ After(m)' = After(m)
      /\ \A i : ValueOf(i)' = ValueOf(i) /\ Wrong(i)' = Wrong(i) /\ Lacking(i)' = Lacking(i)
      /\ \A m, S, F, C : Asked(m, S, F, C)' = Asked(m, S, F, C)
  BY <1>1, SameReading
<1>6. AskedTo(optind)' <=> Asked(optind', setting, flags, configs)   BY <1>1, <1>5 DEF AskedTo
<1>7. \A m : AskedTo(m)' = AskedTo(m)   BY <1>1, <1>5 DEF AskedTo
<1>8. ASSUME opt' = "EOF",
             optind' = IF optind < argc /\ word = DashDash THEN optind + 1 ELSE optind,
             optind = argc \/ word \notin DOMAIN Letter
      PROVE  Reading'
  <2>1. \E m : End(m)' /\ AskedTo(m)'
    BY <1>1, <1>2, <1>3, <1>5, <1>7, <1>8 DEF End, word
  <2>2. QED   BY <1>1, <1>8, <2>1 DEF Reading
<1>9. ASSUME IsOption PROVE Option(optind) /\ argv[optind] = word /\ Letter[argv[optind]] = letter
  BY <1>3, <1>4, <1>9 DEF IsOption, Option, word, letter
<1>10. ASSUME IsOption, opt' = "?", Wrong(optind) PROVE Reading'
  <2>1. Option(optind)   BY <1>9, <1>10
  <2>2. \E m : Option(m)' /\ Wrong(m)'   BY <1>5, <1>10, <2>1
  <2>3. QED   BY <1>1, <1>10, <2>2 DEF Reading
<1>11. ASSUME NEW m, m = optind, IsOption, opt' = letter, letter \in WithValue \union options.flag,
              letter \in options.flag => word \notin DOMAIN Attached,
              optind' = After(m), ~Lacking(m), letter \in WithValue => optarg' = {ValueOf(m)}
       PROVE  Reading'
  <2>1. InHand(m)'   BY <1>1, <1>2, <1>5, <1>9, <1>11 DEF InHand
  <2>2. AskedTo(m)'   BY <1>3, <1>7, <1>11
  <2>3. QED   BY <1>1, <2>1, <2>2 DEF Reading
<1>12. options.flag \intersect WithValue = {}   BY Tables DEF TypeOK
<1>13. CASE EndOfOptions   BY <1>4, <1>8, <1>13 DEF EndOfOptions, Returns, IsOption
<1>14. CASE EndMarker   BY <1>8, <1>14, WordsAssumption DEF EndMarker, Returns
<1>15. CASE BadOption   BY <1>9, <1>10, <1>15 DEF BadOption, Returns, Wrong
<1>16. CASE FlagOption
  <2>1. ~Wants(word)   BY <1>12, <1>16 DEF FlagOption, Wants, letter
  <2>2. ~Lacking(optind) /\ After(optind) = optind + 1
    BY <1>9, <1>16, <2>1 DEF FlagOption, Lacking, After
  <2>3. QED   BY <1>11, <1>12, <1>16, <2>2 DEF FlagOption, Returns
<1>17. CASE AttachedValue
  <2>1. ~Wants(word)   BY <1>17 DEF AttachedValue, Wants
  <2>2. ~Lacking(optind) /\ After(optind) = optind + 1 /\ ValueOf(optind) = Attached[word]
    BY <1>9, <1>17, <2>1 DEF AttachedValue, Lacking, After, ValueOf
  <2>3. QED   BY <1>11, <1>12, <1>17, <2>2 DEF AttachedValue, Returns
<1>18. CASE SeparateValue
  <2>1. Wants(word) /\ letter \in WithValue   BY <1>18 DEF SeparateValue, Wants, letter, IsOption
  <2>2. Option(optind) /\ argv[optind] = word   BY <1>9, <1>18 DEF SeparateValue
  <2>3. After(optind) = optind + 2 /\ ValueOf(optind) = argv[optind + 1]
    BY <2>1, <2>2 DEF After, ValueOf
  <2>4. Lacking(optind) <=> optind + 1 >= argc   BY <1>4, <2>1, <2>2 DEF Lacking, Option
  <2>5. CASE Lacking(optind)   BY <1>10, <1>18, <2>4, <2>5 DEF SeparateValue, Returns, Wrong
  <2>6. CASE ~Lacking(optind)
    BY <1>11, <1>12, <1>18, <2>1, <2>3, <2>4, <2>6 DEF SeparateValue, Returns
  <2>7. QED   BY <2>5, <2>6
<1>19. QED   BY <1>13, <1>14, <1>15, <1>16, <1>17, <1>18 DEF cprt_getopt

\* An option in hand is not one that ends the program, but for a value that is no number or
\* no configuration.
LEMMA HandFacts ==
  ASSUME TypeOK, NEW m, InHand(m)
  PROVE  /\ Option(m) /\ optind = After(m) /\ opt \notin {"?", "EOF"}
         /\ opt \in options.flag => ~Wrong(m) /\ opt \notin WithValue
         /\ opt \in options.text => ~Wrong(m)
         /\ opt \in options.number => (Wrong(m) <=> ValueOf(m) \notin DOMAIN IntOf)
         /\ opt \in options.file => (Wrong(m) <=> ValueOf(m) \notin Files)
<1>1. /\ options.flag \intersect WithValue = {}
      /\ options.text \intersect options.number = {}
      /\ options.file \subseteq {"c"} /\ "c" \notin options.text \union options.number
      /\ {"?", "EOF"} \intersect (WithValue \union options.flag) = {}
  BY Tables DEF TypeOK
<1>2. QED   BY <1>1 DEF InHand, Wrong, WithValue

\* The switch puts an option in hand away and goes back for the next.
LEMMA PutAway ==
  ASSUME TypeOK, NEW m, InHand(m), AskedTo(m), ~Wrong(m), opt # "h",
         UNCHANGED <<program, argv, optind, opt, verdict>>, verdict = "none", pc' = "getopt",
         setting' = IF opt \in WithValue THEN [setting EXCEPT ![opt] = ValueOf(m)] ELSE setting,
         flags' = IF opt \in options.flag THEN flags \union {opt} ELSE flags,
         configs' = IF opt \in options.file THEN Append(configs, ValueOf(m)) ELSE configs
  PROVE  Reading'
<1>1. Option(m) /\ Letter[argv[m]] = opt /\ optind = After(m)   BY DEF InHand
<1>2. Place(optind)   BY <1>1, NextPlace
<1>3. configs \in Seq(Values)   BY DEF TypeOK
<1>4. Asked(optind, setting', flags', configs')
  <2>1. LET l == opt
            v == ValueOf(m)
        IN  Asked(After(m), IF l \in WithValue THEN [setting EXCEPT ![l] = v] ELSE setting,
                            IF l \in options.flag THEN flags \union {l} ELSE flags,
                            IF l \in options.file THEN Append(configs, v) ELSE configs)
    BY <1>1, <1>3, NextAsked DEF AskedTo
  <2>2. QED   BY <1>1, <2>1
<1>5. Place(optind)' /\ AskedTo(optind)'
  <2>1. (\A i : Place(i)' = Place(i)) /\ \A i, S, F, C : Asked(i, S, F, C)' = Asked(i, S, F, C)
    BY SameReading
  <2>2. QED   BY <1>2, <1>4, <2>1 DEF AskedTo
<1>6. QED   BY <1>5 DEF Reading

LEMMA SwitchStep ==
  ASSUME TypeOK, Reading, get_my_opts
  PROVE  Reading'
<1>1. program' = program /\ argv' = argv /\ optind' = optind /\ opt' = opt
  BY DEF get_my_opts, Help, Usage, LoopEnds, Check, Text, Number, Config, Flag, Switch
<1>2. Verdict' = Verdict   BY <1>1, SameReading
<1>3. /\ \A m : End(m)' = End(m)
      /\ \A m, S, F, C : Asked(m, S, F, C)' = Asked(m, S, F, C)
  <2>1. argc' = argc   BY <1>1, SameLine
  <2>2. \A m : Place(m)' = Place(m)   BY <1>1, SameReading
  <2>3. \A m : End(m)' = End(m)   BY <1>1, <2>1, <2>2 DEF End
  <2>4. QED   BY <1>1, <2>3, SameReading
<1>4. {"h", "?", "EOF"} \intersect WithValue = {} /\ "h" \in options.flag
      /\ {"?", "EOF"} \intersect options.flag = {} /\ options.flag \intersect WithValue = {}
      /\ options.text \intersect options.number = {}
      /\ options.file \subseteq {"c"} /\ "c" \notin options.text \union options.number
  BY Tables DEF TypeOK
<1>5. ASSUME pc = "switch", opt \in WithValue \union options.flag
      PROVE  verdict = "none" /\ \E m : InHand(m) /\ AskedTo(m)
  BY <1>4, <1>5 DEF Reading
<1>6. ASSUME NEW m, Option(m), Wrong(m), Done("rejected") PROVE Reading'
  <2>1. Verdict = "rejected"   BY <1>6, AtStop
  <2>2. QED   BY <1>2, <1>6, <2>1 DEF Done, Reading
<1>7. CASE Help
  <2>1. pc = "switch" /\ opt = "h" /\ Done("help")   BY <1>7 DEF Help, Switch
  <2>2. PICK m : InHand(m)   BY <1>4, <1>5, <2>1
  <2>3. Option(m) /\ ~Wrong(m) /\ Letter[argv[m]] = "h"
    BY <1>4, <2>1, <2>2, HandFacts DEF InHand
  <2>4. Verdict = "help"   BY <2>3, AtStop
  <2>5. QED   BY <1>2, <2>1, <2>4 DEF Done, Reading
<1>8. CASE Usage
  <2>1. pc = "switch" /\ opt = "?" /\ Done("rejected")   BY <1>8 DEF Usage, Switch
  <2>2. \E m : Option(m) /\ Wrong(m)   BY <1>4, <2>1 DEF Reading, InHand
  <2>3. QED   BY <1>6, <2>1, <2>2
<1>9. CASE LoopEnds
  <2>1. pc = "switch" /\ opt = "EOF"   BY <1>9 DEF LoopEnds, Switch
  <2>2. \E m : End(m) /\ AskedTo(m)   BY <1>4, <2>1 DEF Reading, InHand
  <2>3. \E m : End(m)' /\ AskedTo(m)'   BY <1>3, <1>9, <2>2 DEF LoopEnds, AskedTo
  <2>4. pc' = "checks" /\ verdict' = "none"   BY <1>9, <2>1 DEF LoopEnds, Reading
  <2>5. QED   BY <2>3, <2>4 DEF Reading
<1>10. CASE Check
  <2>1. PICK m : End(m) /\ AskedTo(m)   BY <1>10 DEF Check, Reading
  <2>2. Verdict = IF Accepts(setting) /\ optind = argc THEN "run" ELSE "rejected"
    BY <2>1, AtEnd DEF AskedTo
  <2>3. pc' = "done" /\ verdict' = Verdict   BY <1>10, <2>2 DEF Check, Done
  <2>4. \E i : End(i)' /\ AskedTo(i)'   BY <1>3, <1>10, <2>1 DEF Check, AskedTo
  <2>5. verdict' = "run" => Accepts(setting)'   BY <1>10 DEF Check, Done, Accepts
  <2>6. QED   BY <1>2, <2>3, <2>4, <2>5 DEF Reading
<1>11. ASSUME NEW o \in options.flag, Flag(o) PROVE Reading'
  <2>1. pc = "switch" /\ opt = o /\ o # "h"   BY <1>11 DEF Flag, Switch
  <2>2. PICK m : InHand(m) /\ AskedTo(m)   BY <1>5, <2>1
  <2>3. ~Wrong(m) /\ opt \notin WithValue /\ opt \notin options.file
    BY <2>1, <2>2, HandFacts DEF WithValue
  <2>4. QED   BY <1>1, <1>5, <1>11, <2>1, <2>2, <2>3, PutAway DEF Flag
<1>12. ASSUME NEW o \in WithValue, Switch(o)
       PROVE  /\ opt = o /\ opt # "h" /\ opt \notin options.flag /\ verdict = "none"
              /\ \E m : InHand(m) /\ AskedTo(m) /\ optarg = {ValueOf(m)}
  BY <1>4, <1>5, <1>12 DEF Switch, InHand
<1>13. ASSUME NEW o \in WithValue, Text(o) PROVE Reading'
  <2>1. Switch(o) /\ o \in options.text   BY <1>13 DEF Text
  <2>2. PICK m : InHand(m) /\ AskedTo(m) /\ optarg = {ValueOf(m)}   BY <1>12, <2>1
  <2>3. opt = o /\ ~Wrong(m) /\ opt \notin options.file
    BY <1>4, <1>12, <2>1, <2>2, HandFacts
  <2>4. setting' = [setting EXCEPT ![opt] = ValueOf(m)] /\ pc' = "getopt"
        /\ UNCHANGED <<verdict, flags, configs>>
    BY <1>13, <2>2, <2>3 DEF Text, Keep
  <2>5. QED   BY <1>1, <1>12, <2>1, <2>2, <2>3, <2>4, PutAway
<1>14. ASSUME NEW o \in WithValue, Number(o) PROVE Reading'
  <2>1. Switch(o) /\ o \in options.number   BY <1>14 DEF Number
  <2>2. PICK m : InHand(m) /\ AskedTo(m) /\ optarg = {ValueOf(m)}   BY <1>12, <2>1
  <2>3. opt = o /\ opt \notin options.file /\ Option(m)
        /\ (Wrong(m) <=> ValueOf(m) \notin DOMAIN IntOf)
    BY <1>4, <1>12, <2>1, <2>2, HandFacts
  <2>4. CASE Wrong(m)   BY <1>6, <1>14, <2>2, <2>3, <2>4 DEF Number
  <2>5. CASE ~Wrong(m)
    <3>1. setting' = [setting EXCEPT ![opt] = ValueOf(m)] /\ pc' = "getopt"
          /\ UNCHANGED <<verdict, flags, configs>>
      BY <1>14, <2>2, <2>3, <2>5 DEF Number, Keep
    <3>2. QED   BY <1>1, <1>12, <2>1, <2>2, <2>3, <2>5, <3>1, PutAway
  <2>6. QED   BY <2>4, <2>5
<1>15. ASSUME NEW o \in WithValue, Config(o) PROVE Reading'
  <2>1. Switch(o) /\ o \in options.file   BY <1>15 DEF Config
  <2>2. PICK m : InHand(m) /\ AskedTo(m) /\ optarg = {ValueOf(m)}   BY <1>12, <2>1
  <2>3. opt = o /\ Option(m) /\ (Wrong(m) <=> ValueOf(m) \notin Files)
    BY <1>12, <2>1, <2>2, HandFacts
  <2>4. CASE Wrong(m)   BY <1>6, <1>15, <2>2, <2>3, <2>4 DEF Config
  <2>5. CASE ~Wrong(m)
    <3>1. setting' = [setting EXCEPT ![opt] = ValueOf(m)] /\ pc' = "getopt"
          /\ configs' = Append(configs, ValueOf(m)) /\ UNCHANGED <<verdict, flags>>
      BY <1>15, <2>2, <2>3, <2>5 DEF Config, Keep
    <3>2. QED   BY <1>1, <1>12, <2>1, <2>2, <2>3, <2>5, <3>1, PutAway
  <2>6. QED   BY <2>4, <2>5
<1>16. QED   BY <1>7, <1>8, <1>9, <1>10, <1>11, <1>13, <1>14, <1>15 DEF get_my_opts

LEMMA StillReading == ASSUME TypeOK, Reading, UNCHANGED vars PROVE Reading'
<1>1. program' = program /\ argv' = argv /\ optind' = optind   BY DEF vars
<1>2. argc' = argc /\ WithValue' = WithValue /\ options' = options   BY <1>1, SameLine
<1>3. /\ \A m : Place(m)' = Place(m) /\ Option(m)' = Option(m) /\ After(m)' = After(m)
      /\ \A i : ValueOf(i)' = ValueOf(i) /\ Wrong(i)' = Wrong(i) /\ Lacking(i)' = Lacking(i)
      /\ Verdict' = Verdict
  BY <1>1, SameReading
<1>4. \A m : End(m)' = End(m)   BY <1>1, <1>2, <1>3 DEF End
<1>5. \A m : InHand(m)' = InHand(m)   BY <1>1, <1>2, <1>3 DEF InHand, vars
<1>6. \A m : AskedTo(m)' = AskedTo(m)   BY <1>1, SameReading DEF AskedTo, vars
<1>7. Accepts(setting)' = Accepts(setting)   BY DEF Accepts, vars
<1>8. QED   BY <1>1, <1>3, <1>4, <1>5, <1>6, <1>7 DEF Reading, vars

LEMMA Invariance == Spec => [](TypeOK /\ Reading)
<1>1. Init => TypeOK /\ Reading   BY TypeInit, ReadingInit
<1>2. TypeOK /\ Reading /\ [Next]_vars => (TypeOK /\ Reading)'
  <2> SUFFICES ASSUME TypeOK, Reading, [Next]_vars PROVE TypeOK' /\ Reading'   OBVIOUS
  <2>1. TypeOK'   BY TypeStep
  <2>2. CASE cprt_getopt   BY <2>1, <2>2, GetOptStep
  <2>3. CASE get_my_opts   BY <2>1, <2>3, SwitchStep
  <2>4. CASE UNCHANGED vars   BY <2>1, <2>4, StillReading
  <2>5. QED   BY <2>2, <2>3, <2>4 DEF Next, Finished
<1>3. QED   BY <1>1, <1>2, PTL DEF Spec

\* cprt_getopt() and the switch of get_my_opts(), which see one word at a time, decide every
\* line as the reading of the whole line does.
THEOREM DecidesRightly == Spec => []DecidesExactly
<1>1. Reading => DecidesExactly   BY DEF Reading, DecidesExactly
<1>2. QED   BY <1>1, Invariance, PTL

\* A program that runs has the settings its line asks for: no value is taken for an option or
\* an option for a value, the last value counts, and each configuration file is loaded in order.
THEOREM ReadsAsGiven == Spec => []SettingsAsGiven
<1>1. TypeOK /\ Reading => SettingsAsGiven
  <2> SUFFICES ASSUME TypeOK, Reading, verdict = "run" PROVE SettingsAsGiven
    BY DEF SettingsAsGiven
  <2>1. PICK m : End(m) /\ AskedTo(m)   BY DEF Reading
  <2>2. (\A O : OptionsAt(O) = Before(O, m)) /\ setting = LastValue   BY <2>1, AtEnd DEF AskedTo
  <2>3. flags = {o \in options.flag : OptionsAt({o}) # {}}
    BY <2>1, <2>2 DEF AskedTo, Asked, Flagged
  <2>4. Loaded(m, configs)   BY <2>1 DEF AskedTo, Asked
  <2>5. QED   BY <2>2, <2>3, <2>4 DEF Loaded, SettingsAsGiven
<1>2. QED   BY <1>1, Invariance, PTL
=============================================================================
