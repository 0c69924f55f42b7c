---------------------------- MODULE Suppression ----------------------------
(***************************************************************************)
(* Which reports CodeChecker parse shows: analyze/skiplist_handler.py,     *)
(* analyze/plist_parser.py, suppress_handler.py, suppress_file_handler.py, *)
(* generic_package_suppress_handler.py, libhandlers/parse.py and           *)
(* analyze/analyzers/result_handler_plist_to_stdout.py.                    *)
(*                                                                         *)
(* An analysis removes the reports in skipped files from its plists.  Each *)
(* parse looks at the reports that are left in some order, hides those     *)
(* that the suppress file or a comment above their line suppresses, and    *)
(* may write the latter into the file.  Users edit the file at any time.   *)
(***************************************************************************)
EXTENDS Naturals, SequencesExt

CONSTANTS
  Report,
  HashOfReport, CheckerOfReport,
  BaseOfReport,  \* the base name of its file, for the suppress file
  PathOfReport,  \* and the path, for the skip list
  SkipLists,  \* skip files considered: sequences of [sign, paths]
  Comments,   \* what may be above the line of a report, nearest line first:
              \* [is, names, bracket, bar]
  Edits,      \* lines that users may add to the suppress file
  MaxParses,  \* bound: parses
  MaxEdits,   \* bound: edits of the sources or of the suppress file
  NoSuppressFile

VARIABLES
  skiplist,  \* the skip file of the analysis
  above,     \* comment block above each report
  sfile,     \* the suppress file: lines [hash, base, pad, bar], or NoSuppressFile
  memory,    \* suppress_info of the running parse
  handler,   \* its suppress handler: "none", "read" or "write"; "off" between
  left,      \* reports it has not looked at
  hidden,    \* reports it has hidden
  shown,     \* and printed
  parses,    \* parses begun
  edits      \* edits made

suppVars == <<skiplist, above, sfile, memory, handler, left, hidden, shown, parses, edits>>

FileLine == Edits \cup [hash : {HashOfReport[r] : r \in Report},
                    base : {BaseOfReport[r] : r \in Report}, pad : {FALSE}, bar : BOOLEAN]

Rule == [sign : {"+", "-"}, paths : SUBSET {PathOfReport[r] : r \in Report}]

LineAbove == [is : {"marker", "comment", "code"}, names : Seq(STRING),
              bracket : BOOLEAN, bar : BOOLEAN]

ASSUME SuppAssumption ==
  /\ SkipLists \subseteq Seq(Rule)
  /\ Comments \subseteq Seq(LineAbove)
  /\ NoSuppressFile \notin Seq(FileLine)

---------------------------------------------------------------------------
(* Skip lists *)

\* Mutant: every rule counts, not the first that matches.
ShouldSkipAny(rules, path) == \E i \in DOMAIN rules : path \in rules[i].paths /\ rules[i].sign = "-"

\* The first line that matches decides.
ShouldSkip(rules, path) ==
  LET m == {i \in DOMAIN rules : path \in rules[i].paths}
  IN m # {} /\ rules[Min(m)].sign = "-"

\* remove_report_from_plist: what an analysis leaves in the plists.
InPlists == {r \in Report : ~ShouldSkip(skiplist, PathOfReport[r])}

---------------------------------------------------------------------------
(* Comments in the source *)

\* All the markers of a block; as a mutant, those of Marker are not filtered.
MarkersAbove(block) == {i \in DOMAIN block : block[i].is = "marker"}

\* The nearest marker, with nothing but comments between it and the line.
Marker(block) ==
  {i \in MarkersAbove(block) : \A j \in 1 .. i - 1 : block[j].is = "comment"}

\* The pattern is greedy: with a ] in the text of the comment the last of the
\* names and the text up to the bracket are taken for names.
NamesIn(line) == IF line.bracket THEN ToSet(Front(line.names)) ELSE ToSet(line.names)

\* SourceSuppressHandler.get_suppressed
SourceSuppressed(r) ==
  \E i \in Marker(above[r]) :
    LET names == NamesIn(above[r][i])
    IN CheckerOfReport[r] \in names \/ names = {"all"}

CommentOf(r) == above[r][CHOOSE i \in Marker(above[r]) : TRUE]

---------------------------------------------------------------------------
(* The suppress file *)

\* get_suppress_data: a | in the comment makes a line malformed; the pattern
\* of a file name takes the spaces after it.
Data(lines) ==
  {[hash |-> l.hash, base |-> l.base, pad |-> l.pad] : l \in {k \in ToSet(lines) : ~k.bar}}

Suppressed(data, r) == [hash |-> HashOfReport[r], base |-> BaseOfReport[r], pad |-> FALSE] \in data

EntryFor(r) ==
  [hash |-> HashOfReport[r], base |-> BaseOfReport[r], pad |-> FALSE, bar |-> CommentOf(r).bar]

\* Mutant: the hash alone decides whether an entry is there.
WriteByHash(lines, r) ==
  IF \E d \in Data(lines) : d.hash = HashOfReport[r] THEN lines ELSE Append(lines, EntryFor(r))

\* write_to_suppress_file: an entry of the old format, which has no file
\* name, counts as found.
Write(lines, r) ==
  IF Suppressed(Data(lines), r) \/ \E d \in Data(lines) : d.hash = HashOfReport[r] /\ d.base = ""
  THEN lines ELSE Append(lines, EntryFor(r))

---------------------------------------------------------------------------
SuppInit ==
  /\ skiplist \in SkipLists
  /\ above \in [Report -> Comments]
  /\ sfile = NoSuppressFile
  /\ memory = {}
  /\ handler = "off"
  /\ left = {} /\ hidden = {} /\ shown = {}
  /\ parses = 0 /\ edits = 0

\* main: the file is created only when comments are to be written into it;
\* without a file nothing is suppressed by it.
BeginParse(given, export) ==
  /\ handler = "off"
  /\ parses < MaxParses
  /\ parses' = parses + 1
  /\ export => given
  /\ handler' = IF ~given \/ (sfile = NoSuppressFile /\ ~export) THEN "none"
                ELSE IF export THEN "write" ELSE "read"
  /\ sfile' = IF sfile = NoSuppressFile /\ export THEN <<>> ELSE sfile
  /\ memory' = IF handler' = "none" THEN {} ELSE Data(sfile')
  /\ left' = InPlists
  /\ hidden' = {} /\ shown' = {}
  /\ UNCHANGED <<skiplist, above, edits>>

Look(r) == handler # "off" /\ r \in left /\ left' = left \ {r}

HideByFile(r) ==
  /\ Look(r)
  /\ Suppressed(memory, r)
  /\ hidden' = hidden \cup {r}
  /\ UNCHANGED <<skiplist, above, sfile, memory, handler, shown, parses, edits>>

\* The entry is written and the file read again, so that the reports that
\* follow are compared with it.
HideByComment(r) ==
  /\ Look(r)
  /\ ~Suppressed(memory, r)
  /\ SourceSuppressed(r)
  /\ hidden' = hidden \cup {r}
  /\ sfile' = IF handler = "write" THEN Write(sfile, r) ELSE sfile
  /\ memory' = IF handler = "write" THEN Data(sfile') ELSE memory
  /\ UNCHANGED <<skiplist, above, handler, shown, parses, edits>>

Show(r) ==
  /\ Look(r)
  /\ ~Suppressed(memory, r)
  /\ ~SourceSuppressed(r)
  /\ shown' = shown \cup {r}
  /\ UNCHANGED <<skiplist, above, sfile, memory, handler, hidden, parses, edits>>

EndParse ==
  /\ handler # "off"
  /\ left = {}
  /\ handler' = "off"
  /\ memory' = {}
  /\ UNCHANGED <<skiplist, above, sfile, left, hidden, shown, parses, edits>>

EditFile(l) ==
  /\ edits < MaxEdits
  /\ edits' = edits + 1
  /\ sfile' = Append(IF sfile = NoSuppressFile THEN <<>> ELSE sfile, l)
  /\ UNCHANGED <<skiplist, above, memory, handler, left, hidden, shown, parses>>

\* The comment above a report is removed between two parses.
Uncomment(r) ==
  /\ handler = "off"
  /\ edits < MaxEdits
  /\ edits' = edits + 1
  /\ above' = [above EXCEPT ![r] = <<>>]
  /\ UNCHANGED <<skiplist, sfile, memory, handler, left, hidden, shown, parses>>

SuppNext ==
  \/ \E given, export \in BOOLEAN : BeginParse(given, export)
  \/ \E r \in Report : HideByFile(r) \/ HideByComment(r) \/ Show(r) \/ Uncomment(r)
  \/ EndParse
  \/ \E l \in Edits : EditFile(l)

SuppSpec == SuppInit /\ [][SuppNext]_suppVars

---------------------------------------------------------------------------
(* Properties *)

SuppTypeOK ==
  /\ handler \in {"off", "none", "read", "write"}
  /\ left \cup hidden \cup shown \subseteq Report
  /\ handler \in {"read", "write"} => sfile # NoSuppressFile
  /\ above \in [Report -> Comments \cup {<<>>}]

Lines == IF sfile = NoSuppressFile THEN {} ELSE ToSet(sfile)

\* A comment that a reader of the source would take to suppress the report:
\* no line that is not a comment in between, and the checker or all of them.
CommentSays(r) ==
  \E i \in DOMAIN above[r] :
    /\ above[r][i].is = "marker"
    /\ ~\E j \in 1 .. i - 1 : above[r][j].is # "comment"
    /\ ToSet(above[r][i].names) \cap {"all", CheckerOfReport[r]} # {}

\* A report is hidden only for a line of the suppress file with its hash and
\* base name or for a comment that names its checker.  One that a comment
\* suppresses is shown only if the comment has a ] in its text, or lists all
\* next to other checkers (PlistToStdout.__print_bugs).
HiddenForAReason ==
  handler # "off" =>
    /\ \A r \in hidden :
         CommentSays(r) \/ \E l \in Lines : l.hash = HashOfReport[r] /\ l.base = BaseOfReport[r] /\ ~l.bar
    /\ \A r \in shown :
         CommentSays(r) =>
           \E i \in Marker(above[r]) : above[r][i].bracket \/ CheckerOfReport[r] \notin ToSet(above[r][i].names)

\* A parse looks at every report of the files that the skip list leaves,
\* where the first line that matches a file has the last word.
LooksAtTheRest ==
  handler # "off" =>
    \A r \in Report :
      r \in left \cup hidden \cup shown
        <=> \A i \in DOMAIN skiplist :
              PathOfReport[r] \in skiplist[i].paths /\ skiplist[i].sign = "-"
                => \E j \in 1 .. i - 1 :
                     PathOfReport[r] \in skiplist[j].paths /\ skiplist[j].sign = "+"

\* What a parse hid for a comment it was to write into the suppress file is
\* hidden by the file from then on, whatever the order of the reports: but
\* where the text of the comment has a | in it, or an entry of the old
\* format kept it from being written (write_to_suppress_file).
ExportHolds ==
  handler = "write" =>
    \A r \in hidden :
      \/ Suppressed(Data(sfile), r)
      \/ CommentOf(r).bar
      \/ \E l \in Lines : l.hash = HashOfReport[r] /\ l.base = ""

\* A parse shows all reports but those that somebody suppressed
\* (PlistToStdout).
ReportsHidden == SuppTypeOK /\ HiddenForAReason /\ LooksAtTheRest /\ ExportHolds
=============================================================================
