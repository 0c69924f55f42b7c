------------------------------ MODULE MCTools ------------------------------
(* The tools around an analysis: the build log, the choice of checkers, the  *)
(* collection of cross translation unit data, the conversion of output and   *)
(* what hides reports.  They meet in files only, so each behaviour looks at  *)
(* one of them while the others rest.                                        *)
EXTENDS BuildLog, Checkers, CtuMap, TidyOutput, Suppression, TLC

\* Command lines of up to three words, one by one, and four entries of a log
\* in which a build repeats itself.
FileNames == {"a.c", "b.cc", "a.o", "Makefile", "@rsp"}
Languages == [f \in FileNames |->
                CASE f = "a.c" -> "c" [] f = "b.cc" -> "c++" [] OTHER -> "none"]
Triples == [c \in {"gcc", "arm-gcc", "g++"} |->
              CASE c = "gcc" -> "x86" [] c = "arm-gcc" -> "arm" [] OTHER -> ""]
SomeWords == {"-c", "-E", "-x", "-o", "-include", "-fPIC", "-D", "-MF", "-MD", "-sectorder",
              "-filelist", "-mpowerpc", "-framework", "-DNDEBUG", "a.c", "a.o", "y"}
Run(file, compiler, args) ==
  [valid |-> TRUE, file |-> file, compiler |-> compiler, args |-> args]
Lengths == [lines |-> 1, repeats |-> 4]
Logs ==
  [lines |-> {Run("a.c", "gcc", args) : args \in UNION {[1 .. n -> SomeWords] : n \in 0 .. 3}},
   repeats |->
     {Run("a.c", c, args) : c \in {"gcc", "arm-gcc"}, args \in {<<"-c", "a.c">>, <<"@rsp">>}}
     \cup {Run("a.c", "g++", <<"-m32", "a.c">>), Run("b.cc", "gcc", <<"-c", "b.cc">>),
           Run("a.c", "gcc", <<"-E", "a.c">>), Run("Makefile", "gcc", <<"a.o">>),
           [Run("a.c", "gcc", <<"a.c">>) EXCEPT !.valid = FALSE]}]
FromFile == <<"b.cc">>

\* Three checkers of one analyzer and one of another; the name of one begins
\* with that of another; the profile "core" has the name of a group.
CheckerAnalyzer ==
  [c \in {"core.A", "core.AB", "alpha.X", "misc-b"} |-> IF c = "misc-b" THEN "tidy" ELSE "sa"]
BeginningWith ==
  [n \in DOMAIN CheckerAnalyzer \cup {"core", "alpha", "nothing"} |->
     CASE n \in {"core", "core.A"} -> {"core.A", "core.AB"}
       [] n = "alpha" -> {"alpha.X"}
       [] n = "nothing" -> {}
       [] OTHER -> {n}]
Profiles ==
  [p \in {"default", "extreme", "core", "list"} |->
     IF p = "extreme" THEN {"core.AB", "misc-b"} ELSE {"core.A"}]

\* The first source is compiled twice; one compilation is for another target.
UnitSource == <<"s1", "s1", "s2", "s2">>
UnitArch == <<"x86", "x86", "x86", "arm">>
SomeBuilds ==
  {[s \in {"s1", "s2"} |-> IF s = "s1" THEN {"f", "g"} ELSE {"f"}],
   [s \in {"s1", "s2"} |-> IF s = "s1" THEN {"g"} ELSE {"f"}]}
SomeSkips == {{}, {3}}

\* Two reports with the same hash, in files of the same name.
ReportHash == [r \in {"r1", "r2", "r3"} |-> IF r = "r3" THEN "g" ELSE "h"]
ReportBase == [r \in {"r1", "r2", "r3"} |-> "a.c"]
ReportChecker == [r \in {"r1", "r2", "r3"} |-> IF r = "r2" THEN "unix" ELSE "core"]
ReportPath == [r \in {"r1", "r2", "r3"} |-> IF r = "r1" THEN "p/a.c" ELSE "q/a.c"]
SkipFiles ==
  LET rule(sign, paths) == [sign |-> sign, paths |-> paths]
  IN {<<>>, <<rule("+", {"p/a.c"}), rule("-", {"p/a.c", "q/a.c"})>>,
      <<rule("-", {"p/a.c"}), rule("+", {"p/a.c"})>>}
CommentBlocks ==
  LET mark(names) == [is |-> "marker", names |-> names, bracket |-> FALSE, bar |-> FALSE]
      plain(is) == [mark(<<"none">>) EXCEPT !.is = is]
  IN {<<>>, <<plain("comment"), mark(<<"core">>)>>, <<plain("code"), mark(<<"all">>)>>,
      <<[mark(<<"all">>) EXCEPT !.bar = TRUE]>>, <<mark(<<"all", "unix">>)>>,
      <<[mark(<<"unix", "core">>) EXCEPT !.bracket = TRUE]>>}
HandWritten ==
  LET entry(base, pad) == [hash |-> "h", base |-> base, pad |-> pad, bar |-> FALSE]
  IN {entry("a.c", FALSE), entry("a.c", TRUE), entry("", FALSE)}

VARIABLE watched

\* Those that rest begin in one state only.
Init ==
  /\ watched \in {"log", "checkers", "ctu", "tidy", "reports"}
  /\ LogInit
  /\ watched # "log" => log = "lines"
  /\ CheckersInit
  /\ watched # "checkers" => enableAll
  /\ CtuInit
  /\ watched # "ctu" => skipped = {} /\ defines["s1"] = {"g"}
  /\ TidyInit
  /\ SuppInit
  /\ watched # "reports" => skiplist = <<>> /\ \A r \in Report : above[r] = <<>>

Next ==
  \/ watched = "log" /\ LogNext /\ UNCHANGED <<watched, checkerVars, ctuVars, tidyVars, suppVars>>
  \/ watched = "checkers" /\ CheckersNext /\ UNCHANGED <<watched, logVars, ctuVars, tidyVars, suppVars>>
  \/ watched = "ctu" /\ CtuNext /\ UNCHANGED <<watched, logVars, checkerVars, tidyVars, suppVars>>
  \/ watched = "tidy" /\ TidyNext /\ UNCHANGED <<watched, logVars, checkerVars, ctuVars, suppVars>>
  \/ watched = "reports" /\ SuppNext /\ UNCHANGED <<watched, logVars, checkerVars, ctuVars, tidyVars>>

Spec == Init /\ [][Next]_<<watched, logVars, checkerVars, ctuVars, tidyVars, suppVars>>

\* The two texts that are read, the build log and the output of clang-tidy,
\* are taken for what they say (log_parser.py, tidy_output_converter.py).
TextsRead == LogRead /\ OutputRead
=============================================================================
