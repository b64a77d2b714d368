------------------------------- MODULE GetOpt -------------------------------
(***************************************************************************)
(* The command lines of the six programs: cprt_getopt() of cprt.c, the     *)
(* loop of get_my_opts() that calls it, and the checks after it.  A word   *)
(* of the command line is an opaque value; what the code finds by looking  *)
(* at its characters is given by the constants.  Any word may also be the  *)
(* value of an option.                                                     *)
(***************************************************************************)
EXTENDS Integers, SequencesExt

CONSTANTS
  Lines,        \* each program to the command lines considered, argv[1] ..
  Words,        \* the words they are made of
  Letter,       \* words of two or more characters starting with '-', except "--", to
                \* the letter that follows the '-'
  Attached,     \* those of them that are longer than two characters to the rest
  DashDash,     \* the word "--"
  Empty,        \* the empty word
  IntOf,        \* values CPRT_ATOI takes, to the int they give
  Chunks,       \* values with commas to the sequence of their commas and the rest
  Files,        \* values that name a configuration lbm_config() loads
  Addresses,    \* values inet_aton() takes
  Persists      \* values -p allows: '', 'r' and 's'

\* The option string and the switch of each program: options without a value, whose
\* value is kept as text, read as a number, loaded as a configuration.
um_perf_pub    == [flag |-> {"h", "g"}, text |-> {"H", "p", "t", "w", "x"},
                   number |-> {"a", "l", "L", "m", "n", "r"}, file |-> {"c"}]
um_perf_sub    == [flag |-> {"h", "E"}, text |-> {"p", "t", "x"}, number |-> {"a", "s"},
                   file |-> {"c"}]
sock_perf_pub  == [flag |-> {"h"}, text |-> {"g", "H", "i", "w"},
                   number |-> {"a", "m", "n", "r", "s"}, file |-> {}]
sock_perf_pub2 == [flag |-> {"h"}, text |-> {"G", "g", "H", "i", "w"},
                   number |-> {"a", "m", "n", "r", "S", "s"}, file |-> {}]
sock_perf_sub  == [flag |-> {"h"}, text |-> {"g", "H", "i"}, number |-> {"a"}, file |-> {}]
um_perf_jitter == [flag |-> {"h"}, text |-> {"H"}, number |-> {"a", "j", "m", "s"}, file |-> {}]

Programs ==
  [um_perf_pub |-> um_perf_pub, um_perf_sub |-> um_perf_sub, sock_perf_pub |-> sock_perf_pub,
   sock_perf_pub2 |-> sock_perf_pub2, sock_perf_sub |-> sock_perf_sub,
   um_perf_jitter |-> um_perf_jitter]

ASSUME WordsAssumption ==
  /\ DOMAIN Attached \subseteq DOMAIN Letter
  /\ DOMAIN Letter \subseteq Words
  /\ {DashDash, Empty} \subseteq Words \ DOMAIN Letter
  /\ DOMAIN Lines \subseteq DOMAIN Programs
  /\ \A p \in DOMAIN Lines : Lines[p] \subseteq Seq(Words)
  /\ \A v \in DOMAIN IntOf : IntOf[v] \in Int

VARIABLES
  program, argv,   \* argv[1] .. argv[argc - 1]
  optind,       \* cprt_optind
  opt,          \* what cprt_getopt() has returned: a letter, "?" or "EOF"
  optarg,       \* cprt_optarg, a set of one value or of none (NULL)
  pc,           \* "getopt", "switch", "checks" or "done"
  verdict,      \* "run", "help" or "rejected" when done
  setting,      \* the o_ variable of each option with a value, "unset" for its default
  flags,        \* options without a value that were given
  configs       \* the configuration files loaded, in order

vars == <<program, argv, optind, opt, optarg, pc, verdict, setting, flags, configs>>

options == Programs[program]
WithValue == options.text \union options.number \union options.file

argc == Len(argv) + 1
Values == Words \union {Attached[w] : w \in DOMAIN Attached}

\* Types, and the index that never passes the end of argv.
TypeOK ==
  /\ program \in DOMAIN Programs
  /\ argv \in Seq(Words)
  /\ optind \in 1..argc
  /\ opt \in WithValue \union options.flag \union {"?", "EOF"}
  /\ optarg \in {{}} \union {{v} : v \in Values}
  /\ (pc = "switch" /\ opt \in WithValue) => optarg # {}
  /\ pc \in {"getopt", "switch", "checks", "done"}
  /\ verdict \in {"none", "run", "help", "rejected"}
  /\ setting \in [WithValue -> Values \union {"unset"}]
  /\ flags \subseteq options.flag
  /\ configs \in Seq(Values)

Init ==
  /\ program \in DOMAIN Lines
  /\ argv \in Lines[program]
  /\ optind = 1
  /\ opt = "EOF"
  /\ optarg = {}
  /\ pc = "getopt"
  /\ verdict = "none"
  /\ setting = [o \in WithValue |-> "unset"]
  /\ flags = {}
  /\ configs = <<>>

Done(v) == pc' = "done" /\ verdict' = v

----------------------------------------------------------------------------
(* cprt_getopt().                                                          *)

word == argv[optind]
letter == Letter[word]
IsOption == optind < argc /\ word \in DOMAIN Letter

\* cprt_getopt() returns o, with value v, having moved the index by n.
Returns(o, v, n) ==
  /\ pc = "getopt"
  /\ opt' = o
  /\ optarg' = v
  /\ optind' = optind + n
  /\ pc' = "switch"
  /\ UNCHANGED <<program, argv, verdict, setting, flags, configs>>

\* The end of the command line, or a word that is no option.
EndOfOptions ==
  /\ ~IsOption
  /\ ~(optind < argc /\ word = DashDash)
  /\ Returns("EOF", {}, 0)

\* "--" is skipped: the next word is the first argument.
EndMarker ==
  /\ optind < argc /\ word = DashDash
  /\ Returns("EOF", {}, 1)

\* A character that is no option, or text after an option without value.
BadOption ==
  /\ IsOption
  /\ \/ letter \notin WithValue \union options.flag
     \/ letter \in options.flag /\ word \in DOMAIN Attached
  /\ Returns("?", {}, 0)

MutFlagOption ==   \* the index stays where it is
  /\ IsOption
  /\ letter \in options.flag /\ word \notin DOMAIN Attached
  /\ Returns(letter, {}, 0)

FlagOption ==
  /\ IsOption
  /\ letter \in options.flag /\ word \notin DOMAIN Attached
  /\ Returns(letter, {}, 1)

AttachedValue ==
  /\ IsOption
  /\ letter \in WithValue /\ word \in DOMAIN Attached
  /\ Returns(letter, {Attached[word]}, 1)

MutSeparateValue ==   \* another option is not taken for the value
  /\ IsOption
  /\ letter \in WithValue /\ word \notin DOMAIN Attached
  /\ IF optind + 1 >= argc \/ argv[optind + 1] \in DOMAIN Letter
       THEN Returns("?", {}, 1)
       ELSE Returns(letter, {argv[optind + 1]}, 2)

\* The next word is the value, whatever it looks like; without one the option is an error.
SeparateValue ==
  /\ IsOption
  /\ letter \in WithValue /\ word \notin DOMAIN Attached
  /\ IF optind + 1 >= argc
       THEN Returns("?", {}, 1)
       ELSE Returns(letter, {argv[optind + 1]}, 2)

cprt_getopt ==
  \/ EndOfOptions \/ EndMarker \/ BadOption \/ FlagOption \/ AttachedValue \/ SeparateValue

----------------------------------------------------------------------------
(* The switch of get_my_opts(), and its checks.                            *)

Switch(o) == pc = "switch" /\ opt = o /\ UNCHANGED <<program, argv, optind, opt, optarg>>

Help == Switch("h") /\ Done("help") /\ UNCHANGED <<setting, flags, configs>>

Usage == Switch("?") /\ Done("rejected") /\ UNCHANGED <<setting, flags, configs>>

Flag(o) ==
  /\ o \in options.flag \ {"h"}
  /\ Switch(o)
  /\ flags' = flags \union {o}
  /\ pc' = "getopt"
  /\ UNCHANGED <<verdict, setting, configs>>

MutKeep(o, v) ==   \* the first value stays
  setting' = IF setting[o] = "unset" THEN [setting EXCEPT ![o] = v] ELSE setting

\* A value replaces an earlier one of the same option.
Keep(o, v) == setting' = [setting EXCEPT ![o] = v]

Text(o) ==
  /\ o \in options.text
  /\ Switch(o)
  /\ \E v \in optarg : Keep(o, v)
  /\ pc' = "getopt"
  /\ UNCHANGED <<verdict, flags, configs>>

\* CPRT_ATOI exits when the text is no number, or one beyond an int.
Number(o) ==
  /\ o \in options.number
  /\ Switch(o)
  /\ \E v \in optarg :
       IF v \in DOMAIN IntOf
         THEN Keep(o, v) /\ pc' = "getopt" /\ UNCHANGED verdict
         ELSE Done("rejected") /\ UNCHANGED setting
  /\ UNCHANGED <<flags, configs>>

\* -c: the file is loaded at once, each time.
Config(o) ==
  /\ o \in options.file
  /\ Switch(o)
  /\ \E v \in optarg :
       /\ Keep(o, v)
       /\ IF v \in Files
            THEN pc' = "getopt" /\ configs' = Append(configs, v) /\ UNCHANGED verdict
            ELSE Done("rejected") /\ UNCHANGED configs
  /\ UNCHANGED flags

LoopEnds == Switch("EOF") /\ pc' = "checks" /\ UNCHANGED <<verdict, setting, flags, configs>>

\* What the checks look at, for settings S.  All defaults are '' or 0 here, "0,0" for pairs.
Given(S, o) == S[o] \notin {"unset", Empty}   \* strlen(o_...) > 0
Int0(S, o) == IF S[o] = "unset" THEN 0 ELSE IntOf[S[o]]

\* CPRT_STRTOK with "," until NULL: commas next to each other count as one.  The positions
\* of the tokens, and the k-th of them.
Split(v) == IF v \in DOMAIN Chunks THEN Chunks[v] ELSE <<v>>
Tokens(v) == IF v = Empty THEN {} ELSE {i \in DOMAIN Split(v) : Split(v)[i] # ","}
Token(v, k) ==
  Split(v)[CHOOSE i \in Tokens(v) : Cardinality({j \in Tokens(v) : j <= i}) = k]

\* "hist_num_buckets,hist_ns_per_bucket", "warmup_loops,warmup_rate"
TwoNumbers(S, o) ==
  S[o] # "unset" =>
    Cardinality(Tokens(S[o])) = 2 /\ \A i \in Tokens(S[o]) : Split(S[o])[i] \in DOMAIN IntOf
Part(S, o, k) == IF S[o] = "unset" THEN 0 ELSE IntOf[Token(S[o], k)]

Pair(S, o) == TwoNumbers(S, o) /\ (Part(S, o, 1) > 0 => Part(S, o, 2) > 0)

Mode(S) == Given(S, "p") => S["p"] \in Persists
Xml(S) == Given(S, "x") => S["x"] \in Files
Address(S, o) == S[o] \in Addresses
Work(S) == Int0(S, "n") > 0 /\ Int0(S, "m") > 0
RateOrSleep(S) ==
  \/ Int0(S, "r") > 0 /\ Int0(S, "s") = 0
  \/ Int0(S, "r") = 0 /\ Int0(S, "s") > 0

UmPub(S) ==
  /\ Int0(S, "r") > 0 /\ Work(S) /\ Given(S, "t")
  /\ Pair(S, "H") /\ Mode(S) /\ Pair(S, "w") /\ Xml(S)
UmSub(S) == Given(S, "t") /\ Mode(S) /\ Xml(S)
SockPub(S) ==
  /\ RateOrSleep(S) /\ Work(S)
  /\ Pair(S, "H") /\ Address(S, "g") /\ Address(S, "i") /\ Pair(S, "w")
SockPub2(S) == SockPub(S) /\ (Given(S, "G") => Address(S, "G"))
SockSub(S) == Address(S, "g") /\ Pair(S, "H") /\ Address(S, "i")
Jitter(S) == TwoNumbers(S, "H")   \* the width is not looked at

Accepts(S) ==
  CASE program = "um_perf_pub" -> UmPub(S)
    [] program = "um_perf_sub" -> UmSub(S)
    [] program = "sock_perf_pub" -> SockPub(S)
    [] program = "sock_perf_pub2" -> SockPub2(S)
    [] program = "sock_perf_sub" -> SockSub(S)
    [] program = "um_perf_jitter" -> Jitter(S)

\* There are no positional parameters.
Check ==
  /\ pc = "checks"
  /\ Done(IF Accepts(setting) /\ optind = argc THEN "run" ELSE "rejected")
  /\ UNCHANGED <<program, argv, optind, opt, optarg, setting, flags, configs>>

get_my_opts ==
  \/ Help \/ Usage \/ LoopEnds \/ Check
  \/ \E o \in WithValue : Text(o) \/ Number(o) \/ Config(o)
  \/ \E o \in options.flag : Flag(o)

Finished == pc = "done" /\ UNCHANGED vars

Next == cprt_getopt \/ get_my_opts \/ Finished
Spec == Init /\ [][Next]_vars /\ WF_vars(cprt_getopt \/ get_my_opts)

----------------------------------------------------------------------------
(* The command line read as a whole, without an index that moves.          *)

\* A word is the value of the option before it when that option has none attached.
Wants(w) == w \in DOMAIN Letter \ DOMAIN Attached /\ Letter[w] \in WithValue
IsValue == LET taken[i \in 1..Len(argv)] == i > 1 /\ ~taken[i - 1] /\ Wants(argv[i - 1])
           IN  taken

\* The options come before the first word that is neither an option nor a value.
FirstArg ==
  Min({i \in 1..Len(argv) : ~IsValue[i] /\ argv[i] \notin DOMAIN Letter} \union {argc})
OptionsAt(O) == {i \in 1..(FirstArg - 1) : ~IsValue[i] /\ Letter[argv[i]] \in O}
ValueOf(i) == IF Wants(argv[i]) THEN argv[i + 1] ELSE Attached[argv[i]]

Lacking(i) == Wants(argv[i]) /\ i = Len(argv)
Wrong(i) ==
  \/ Letter[argv[i]] \notin WithValue \union options.flag
  \/ Letter[argv[i]] \in options.flag /\ argv[i] \in DOMAIN Attached
  \/ Lacking(i)
  \/ Letter[argv[i]] \in options.number /\ ~Lacking(i) /\ ValueOf(i) \notin DOMAIN IntOf
  \/ Letter[argv[i]] \in options.file /\ ~Lacking(i) /\ ValueOf(i) \notin Files
Letters == {Letter[w] : w \in DOMAIN Letter}
Stops == {i \in OptionsAt(Letters) : Wrong(i)} \union OptionsAt({"h"})

LastValue ==
  [o \in WithValue |-> LET at == OptionsAt({o}) IN IF at = {} THEN "unset" ELSE ValueOf(Max(at))]
NoArguments == FirstArg = argc \/ (FirstArg = Len(argv) /\ argv[FirstArg] = DashDash)

Verdict ==
  IF Stops # {} THEN IF Wrong(Min(Stops)) THEN "rejected" ELSE "help"
  ELSE IF NoArguments /\ Accepts(LastValue) THEN "run" ELSE "rejected"

(* Properties.                                                             *)

\* A command line is decided exactly as the reading of the whole line says, whatever order
\* its words come in (cprt.c:405-492, get_my_opts()).
DecidesExactly == pc = "done" => verdict = Verdict

\* And every line of every program is decided: the loop of get_my_opts() ends, because each
\* call of cprt_getopt() that does not end it moves the index.
EveryLineDecided == <>(pc = "done")

\* A run has the settings the whole line asks for: the last value of each option, the
\* configuration files all loaded in their order, a flag wherever it stands -- and never a
\* value taken for an option or an option for a value.
SettingsAsGiven ==
  verdict = "run" =>
    /\ setting = LastValue
    /\ flags = {o \in options.flag : OptionsAt({o}) # {}}
    /\ LET at == OptionsAt({"c"})
       IN  /\ Len(configs) = Cardinality(at)
           /\ \A i \in at : configs[Cardinality({j \in at : j <= i})] = ValueOf(i)
=============================================================================
