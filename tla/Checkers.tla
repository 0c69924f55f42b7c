------------------------------ MODULE Checkers ------------------------------
(***************************************************************************)
(* Which checkers an analysis runs: analyzers/analyzer_types.py and        *)
(* analyzers/config_handler.py.                                            *)
(*                                                                         *)
(* The analyzers that can be run list their checkers.  All are off at      *)
(* first; then the default profile, --enable-all and the --enable and      *)
(* --disable options, in the order of the command line, turn them on and   *)
(* off.  A name stands for every checker whose name begins with it.        *)
(***************************************************************************)
EXTENDS Naturals, Sequences

CONSTANTS
  Analyzer,
  AnalyzerOf,  \* of each checker
  Under,       \* for each checker or group, the checkers that begin with it
  Profile,     \* for each profile, the checkers that list it
  Guarded,     \* alpha., debug. and osx. checkers, which --enable-all leaves
  MaxOptions   \* bound: --enable and --disable options

Checker == DOMAIN AnalyzerOf

ASSUME CheckersAssumption ==
  /\ "default" \in DOMAIN Profile
  /\ \A c \in Checker : c \in DOMAIN Under /\ c \in Under[c]
  /\ \A p \in DOMAIN Profile : Profile[p] \subseteq Checker

VARIABLES
  usable,     \* analyzers whose binary can be run
  enableAll,
  given,      \* options handled so far: [name, on]
  enabled,    \* checkers that are on
  setup       \* "analyzers", "defaults", "options", "ready" or "refused"

checkerVars == <<usable, enableAll, given, enabled, setup>>

CheckersInit ==
  /\ usable = {}
  /\ enableAll \in BOOLEAN
  /\ given = <<>>
  /\ enabled = {}
  /\ setup = "analyzers"

\* check_supported_analyzers: those that fail are left out without an error.
CheckAnalyzers ==
  /\ setup = "analyzers"
  /\ usable' \in SUBSET Analyzer
  /\ setup' = "defaults"
  /\ UNCHANGED <<enableAll, given, enabled>>

Known == {c \in Checker : AnalyzerOf[c] \in usable}

\* Mutant: a name also stands for the checkers of analyzers that are not used.
BeginsOfAll(names) == UNION {Under[n] : n \in names}

\* enable_checker goes through all checkers of the handler.
Begins(names) == (UNION {Under[n] : n \in names}) \cap Known

\* initialize_checkers: the default profile and --enable-all.
SetDefaults ==
  /\ setup = "defaults"
  /\ enabled' = Begins(Profile["default"])
                \cup (IF enableAll THEN Begins(Known \ Guarded) ELSE {})
  /\ setup' = "options"
  /\ UNCHANGED <<usable, enableAll, given>>

Reserved(p) == p = "list" \/ (p \in DOMAIN Under /\ Under[p] \cap Known # {})

\* Mutant: a name stands for the checker with just that name.
MeantExactly(n) == IF n \in DOMAIN Profile THEN Profile[n] \cap Known ELSE {n} \cap Known

\* A profile stands for its checkers, each of them by its name.
Meant(n) == IF n \in DOMAIN Profile THEN Begins(Profile[n]) ELSE Begins({n})

SetOption(n, on) ==
  /\ setup = "options"
  /\ Len(given) < MaxOptions
  /\ n \notin DOMAIN Profile \/ ~Reserved(n)
  /\ given' = Append(given, [name |-> n, on |-> on])
  /\ enabled' = IF on THEN enabled \cup Meant(n) ELSE enabled \ Meant(n)
  /\ UNCHANGED <<usable, enableAll, setup>>

\* A profile whose name is that of a group, or list, ends the program.
RefuseProfile(n) ==
  /\ setup = "options"
  /\ n \in DOMAIN Profile
  /\ Reserved(n)
  /\ usable # {}
  /\ setup' = "refused"
  /\ UNCHANGED <<usable, enableAll, given, enabled>>

\* perform_analysis writes the checkers that are on into the metadata.
Ready ==
  /\ setup = "options"
  /\ setup' = "ready"
  /\ UNCHANGED <<usable, enableAll, given, enabled>>

CheckersNext ==
  \/ CheckAnalyzers \/ SetDefaults \/ Ready
  \/ \E n \in DOMAIN Under \cup DOMAIN Profile :
       RefuseProfile(n) \/ \E on \in BOOLEAN : SetOption(n, on)

CheckersSpec == CheckersInit /\ [][CheckersNext]_checkerVars

---------------------------------------------------------------------------
(* Properties *)

CheckersTypeOK ==
  /\ usable \subseteq Analyzer
  /\ enabled \subseteq Known
  /\ setup \in {"analyzers", "defaults", "options", "ready", "refused"}

\* What an option is about for a reader of the documentation: the checkers
\* of a profile, or those of the group.
Touches(o, c) ==
  IF o.name \in DOMAIN Profile THEN c \in Profile[o.name] ELSE c \in Under[o.name]

\* Names of checkers that begin with the name of another one.
Longer(c) == {d \in Checker : d # c /\ c \in Under[d]}

\* The last option that is about a checker decides, and where there is none
\* the default profile and --enable-all do: a checker may differ only if its
\* name begins with that of another checker, which a profile or --enable-all
\* turns on or off by its name (docs/user_guide.md on the order of options).
LastOptionDecides ==
  setup \in {"options", "ready"} =>
    \A c \in Known :
      LET about == {i \in DOMAIN given : Touches(given[i], c)}
          last == CHOOSE i \in about : \A j \in about : j <= i
      IN Longer(c) = {} =>
           (c \in enabled <=> IF about # {} THEN given[last].on
                              ELSE c \in Profile["default"] \/ (enableAll /\ c \notin Guarded))

\* The enabled checkers are those the options ask for (initialize_checkers).
CheckersChosen == CheckersTypeOK /\ LastOptionDecides
=============================================================================
