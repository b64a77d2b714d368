------------------------------ MODULE MCGetOpt ------------------------------
(***************************************************************************)
(* For um_perf_sub all lines of up to three words, and those of four of    *)
(* the FewWords.  For the others lines that have all that is required, or  *)
(* lack one word of it, with up to two more words after, before or around. *)
(***************************************************************************)
EXTENDS GetOpt

SubWords == {"-E", "-Ev", "-h", "-1", "-t", "-tv", "-c", "-p", "-x", "-a", "--", "v", "7", ""}
FewWords == {"-E", "-h", "-t", "-tv", "-c", "-a", "--", "v", "7"}

Bare == "-E" :> "E" @@ "-h" :> "h" @@ "-1" :> "1" @@ "-t" :> "t" @@ "-c" :> "c" @@ "-p" :> "p" @@
        "-x" :> "x" @@ "-a" :> "a" @@ "-g" :> "g" @@ "-G" :> "G" @@ "-H" :> "H" @@ "-w" :> "w" @@
        "-s" :> "s" @@ "-S" :> "S" @@ "-l" :> "l" @@ "-L" :> "L" @@ "-j" :> "j" @@ "-m" :> "m"
Long == "-Ev" :> <<"E", "v">> @@ "-tv" :> <<"t", "v">> @@ "-t," :> <<"t", ",">> @@
        "-n7" :> <<"n", "7">> @@ "-m7" :> <<"m", "7">> @@ "-r7" :> <<"r", "7">> @@
        "-r0" :> <<"r", "0">> @@ "-s7" :> <<"s", "7">> @@ "-gv" :> <<"g", "v">> @@
        "-iv" :> <<"i", "v">> @@ "-H7,0" :> <<"H", "7,0">> @@ "-w7,0" :> <<"w", "7,0">>

MCLetter == Bare @@ [w \in DOMAIN Long |-> Long[w][1]]
MCAttached == [w \in DOMAIN Long |-> Long[w][2]]
MCIntOf == "-1" :> 0 - 1 @@ "0" :> 0 @@ "7" :> 7
MCChunks == "," :> <<",">> @@ "7,0" :> <<"7", ",", "0">> @@ "7,-1" :> <<"7", ",", "-1">> @@ ",7,,7" :> <<",", "7", ",", ",", "7">> @@
            "0,0,7" :> <<"0", ",", "0", ",", "7">>
Plain == {"--", "v", "7", "", ",", "7,0", "7,-1", ",7,,7", "0,0,7"}
MCWords == DOMAIN MCLetter \union Plain

Required ==
  [um_perf_pub |-> <<"-tv", "-n7", "-m7", "-r7">>,
   sock_perf_pub |-> <<"-gv", "-iv", "-n7", "-m7", "-r7">>,
   sock_perf_pub2 |-> <<"-gv", "-iv", "-n7", "-m7", "-r7">>,
   sock_perf_sub |-> <<"-gv", "-iv">>,
   um_perf_jitter |-> <<>>]

UpTo(n, S) == UNION {[1..k -> S] : k \in 0..n}

LinesOf(p) ==
  LET base == Required[p]
  IN  {<<>>} \union {before \o base \o after : before \in UpTo(1, MCWords), after \in UpTo(1, MCWords)}
      \union {RemoveAt(base, k) \o after : k \in DOMAIN base, after \in UpTo(1, MCWords)}
      \union {base \o after : after \in UpTo(2, MCWords)}

MCLines == [p \in DOMAIN Programs |-> IF p = "um_perf_sub" THEN UpTo(3, SubWords) \union [1..4 -> FewWords] ELSE LinesOf(p)]
=============================================================================
