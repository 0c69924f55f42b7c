------------------------------ MODULE BuildLog ------------------------------
(***************************************************************************)
(* The compilation database: analyze/log_parser.py, log/option_parser.py   *)
(* and log/build_action.py.                                                *)
(*                                                                         *)
(* The entries of the log are read in order.  The command line of each is  *)
(* split into what is passed on to the analyzers, what is dropped and      *)
(* what is a file; the defaults of a compiler are asked for when its name  *)
(* is met for the first time; an action whose key is known is dropped.     *)
(*                                                                         *)
(* An option table is represented by some of the options it lists, and a   *)
(* pattern by some of the words that it matches.                           *)
(***************************************************************************)
EXTENDS Naturals, SequencesExt

CONSTANTS
  MaxRead,    \* for each log considered, how many entries of it are read
  EntriesOf,  \* and which they may be: [valid, file, compiler, args]
  TargetOf,   \* the triple that each compiler prints, "" if it prints none
  Cxx,        \* compilers with ++ in their names
  LangOf,     \* language by the extension of each file name, NoLang if none
  Listed,     \* names in the file of -filelist
  NoLang

ASSUME BuildLogAssumption ==
  /\ Cxx \subseteq DOMAIN TargetOf
  /\ \A l \in DOMAIN MaxRead : \A e \in EntriesOf[l] :
       e.compiler \in DOMAIN TargetOf /\ e.file \in DOMAIN LangOf

VARIABLES
  log,       \* the log that is read, a choice of MaxRead's
  read,      \* its entries that have been read
  actions,   \* filtered_build_actions
  includes,  \* compiler_includes: for each compiler met, the language and
             \* options its defaults were asked with
  target,    \* compiler_target: the triple of the compiler met last
  rejected   \* whether the parser has given up

logVars == <<log, read, actions, includes, target, rejected>>

---------------------------------------------------------------------------
(* Command lines *)

\* A handler of arg_check takes the options in `of`, puts the option itself
\* into `field`, and the words after it into the fields of `next`.
Handler(of, field, next) == [of |-> of, field |-> field, next |-> next]

UnknownOptions == {"-fipa-sra", "-DNDEBUG"}
CompileOptions == {"-include", "-isystem"}
BothOptions == {"-Xlinker"}
LinkerPattern == {"-lm", "-static"}
CompilePattern == {"-fPIC", "-m32", "-std=c99", "-mpowerpc", "-fipa-sra", "-framework",
                   "-multiply_defined", "-fobjc-link-runtime", "-fsyntax-only", "--sysroot=/s"}
\* Mutant: -MF and its file are not skipped.
SkippedWithoutDepFile == {"-framework", "-u", "-multiply_defined"}
SkippedWithWord == {"-framework", "-MF", "-u", "-multiply_defined"}
SkippedAlone == {"-MD", "-MP", "-MM", "-fsyntax-only", "-save-temps", "-g"}

\* arg_collection: the first handler that takes a word decides.
Handlers ==
  <<Handler({"-mpowerpc"}, "replaced", <<"dropped">>),
    Handler(UnknownOptions, "dropped", <<>>),
    Handler({"-x"}, "dropped", <<"lang">>),
    Handler({"-o"}, "dropped", <<"output">>),
    Handler({"-arch"}, "dropped", <<"arch">>),
    Handler({"-c"}, "COMPILE", <<>>),
    Handler({"-E", "-M", "-MM"}, "PREPROCESS", <<>>),
    Handler({"-print-prog-name"}, "INFO", <<>>),
    Handler(CompileOptions, "compile", <<"compile">>),
    Handler({"-nostdinc"}, "compile", <<>>),
    Handler(BothOptions, "link", <<"link">>),
    Handler({"-s", "-pie"}, "link", <<>>),
    Handler(LinkerPattern, "link", <<>>),
    Handler(CompilePattern, "compile", <<>>),
    Handler({"-DX", "-Iinc"}, "compile", <<>>),
    Handler({"-D", "-I"}, "compile", <<"compile">>),
    Handler({"-L"}, "link", <<"link">>),
    Handler(SkippedWithWord, "dropped", <<"dropped">>),
    Handler({"-sectorder"}, "dropped", <<"dropped", "dropped", "dropped">>),
    Handler(SkippedAlone, "dropped", <<>>),
    Handler({"-filelist"}, "dropped", <<"listed">>),
    Handler(DOMAIN LangOf, "files", <<>>)>>

NoOptions ==
  [compile |-> <<>>, link |-> <<>>, files |-> <<>>, lang |-> NoLang, arch |-> "",
   output |-> "", action |-> "COMPILE", next |-> <<>>]

Put(r, field, w) ==
  CASE field = "dropped" -> r
    [] field = "replaced" -> [r EXCEPT !.compile = @ \o <<"-target", "powerpc">>]
    [] field = "listed" -> [r EXCEPT !.files = @ \o Listed]
    [] field \in {"compile", "link", "files"} -> [r EXCEPT ![field] = Append(@, w)]
    [] field \in {"lang", "arch", "output"} -> [r EXCEPT ![field] = w]
    [] field \in {"COMPILE", "PREPROCESS", "INFO"} -> [r EXCEPT !.action = field]

\* One word of the command line, which may belong to the option before it.
ArgCheck(r, w) ==
  LET h == {i \in DOMAIN Handlers : w \in Handlers[i].of}
  IN IF r.next # <<>> THEN Put([r EXCEPT !.next = Tail(@)], Head(r.next), w)
     ELSE IF h = {} THEN r
     ELSE Put([r EXCEPT !.next = Handlers[Min(h)].next], Handlers[Min(h)].field, w)

\* The words that are left to take when the command line ends make the
\* iterator raise StopIteration, which nobody catches.
Incomplete(args) == FoldLeft(ArgCheck, NoOptions, args).next # <<>>

HasLang(f) == LangOf[f] # NoLang

\* Mutant: the language does not depend on the extension.
ParseWithoutExtension(compiler, args) ==
  LET r == FoldLeft(ArgCheck, NoOptions, args)
  IN [r EXCEPT !.lang = IF compiler \in Cxx THEN "c++" ELSE @]

ParseOptions(compiler, args) ==
  LET r == FoldLeft(ArgCheck, NoOptions, args)
      sources == SelectSeq(r.files, HasLang)
  IN [r EXCEPT
        !.lang = IF compiler \in Cxx THEN "c++"
                 ELSE IF @ = NoLang /\ sources # <<>> THEN LangOf[Head(sources)] ELSE @,
        !.action = IF sources = <<>> THEN "LINK" ELSE @]

---------------------------------------------------------------------------
(* The log *)

LogInit ==
  /\ log \in DOMAIN MaxRead
  /\ read = <<>>
  /\ actions = {}
  /\ includes = <<>>
  /\ target = ""
  /\ rejected = FALSE

\* What the defaults of a compiler are asked with: the language, and the
\* options that COMPILE_OPTS_FWD_TO_DEFAULTS_GETTER and --sysroot= forward.
AskedWith(r) ==
  [lang |-> r.lang, with |-> ToSet(r.compile) \cap {"-m32", "-std=c99", "--sysroot=/s"}]

\* Mutant: the file is not part of the key.
KeyWithoutFile(e, r, triple) == [options |-> r.compile, arch |-> r.arch, file |-> ""]

\* cmp_key joins the options, the architecture and the source.
Key(e, r, triple) ==
  [options |-> r.compile \o (IF triple = "" THEN <<>> ELSE <<"--target", triple>>),
   arch |-> r.arch, file |-> e.file]

\* Mutant: only the first compiler is asked for its target.
TargetKept(e) == IF includes = <<>> THEN TargetOf[e.compiler] ELSE target

\* The target is asked for when a compiler is met; otherwise the variable
\* still holds that of the compiler met last.
TargetFor(e) == IF e.compiler \in DOMAIN includes THEN target ELSE TargetOf[e.compiler]

ReadEntry(e) ==
  /\ ~rejected
  /\ Len(read) < MaxRead[log]
  /\ read' = Append(read, e)
  /\ UNCHANGED log

\* An entry whose file has no known extension is passed over.
PassOver(e) ==
  /\ ReadEntry(e)
  /\ ~HasLang(e.file)
  /\ UNCHANGED <<actions, includes, target, rejected>>

\* Without a command, with a command line that ends too early, or when the
\* defaults of a compiler are asked for without a language, parse_log ends
\* the program.
Reject(e) ==
  /\ ReadEntry(e)
  /\ HasLang(e.file)
  /\ \/ ~e.valid
     \/ Incomplete(e.args)
     \/ /\ ParseOptions(e.compiler, e.args).lang = NoLang
        /\ e.compiler \notin DOMAIN includes
  /\ rejected' = TRUE
  /\ UNCHANGED <<actions, includes, target>>

\* The flag "skip" of the action is set and never read, so preprocessing
\* commands are analysed too.
AddAction(e) ==
  LET r == ParseOptions(e.compiler, e.args)
      triple == TargetFor(e)
      key == Key(e, r, triple)
      asked == IF e.compiler \in DOMAIN includes THEN includes[e.compiler] ELSE AskedWith(r)
  IN /\ ReadEntry(e)
     /\ HasLang(e.file)
     /\ e.valid
     /\ ~Incomplete(e.args)
     /\ r.lang # NoLang \/ e.compiler \in DOMAIN includes
     /\ target' = triple
     /\ includes' = [c \in DOMAIN includes \cup {e.compiler} |->
                       IF c = e.compiler THEN asked ELSE includes[c]]
     /\ actions' = IF \E a \in actions : a.key = key THEN actions
                   ELSE actions \cup {[key |-> key, entry |-> Len(read) + 1, lang |-> r.lang,
                                       target |-> triple, asked |-> asked,
                                       skip |-> r.action \notin {"COMPILE", "LINK"}]}
     /\ UNCHANGED rejected

LogNext ==
  /\ Len(read) < MaxRead[log]
  /\ \E e \in EntriesOf[log] : PassOver(e) \/ Reject(e) \/ AddAction(e)

---------------------------------------------------------------------------
(* Properties *)

LogTypeOK ==
  /\ log \in DOMAIN MaxRead
  /\ Len(read) <= MaxRead[log]
  /\ \A a \in actions : a.entry \in DOMAIN read /\ a.skip \in BOOLEAN
  /\ DOMAIN includes \subseteq DOMAIN TargetOf
  /\ rejected \in BOOLEAN

\* How many words after it belong to an option, as compilers read them.
Words(w) ==
  CASE w \in {"-include", "-isystem", "-x", "-o", "-arch", "-Xlinker", "-D", "-I", "-L",
             "-MF", "-u", "-filelist", "-framework", "-multiply_defined"} -> 1
    [] w = "-sectorder" -> 3
    [] OTHER -> 0

\* The positions of a command line that are words of their own.
Free(args) ==
  CHOOSE S \in SUBSET DOMAIN args :
    \A i \in DOMAIN args : i \in S <=> \A j \in S : j < i => j + Words(args[j]) < i

Arguments(args) ==
  LET n == [i \in DOMAIN args |->
              IF i \notin Free(args) THEN <<>>
              ELSE IF args[i] = "-filelist" THEN Listed
              ELSE IF args[i] \in DOMAIN LangOf THEN <<args[i]>> ELSE <<>>]
  IN FlattenSeq(n)

\* -framework and -multiply_defined are taken by the pattern -f.* or -m.*
\* before the table that would skip their word, and a replaced target option
\* loses the word after it.
Irregular == {"-framework", "-multiply_defined", "-mpowerpc"}

\* The files of a command line are the words that no option takes, in their
\* order, whatever comes before them, but for the irregular options
\* (option_parser.py, arg_collection).
FilesAreArguments ==
  \A i \in DOMAIN read :
    LET args == read[i].args
    IN ~Incomplete(args) /\ ToSet(args) \cap Irregular = {}
       => ParseOptions(read[i].compiler, args).files = Arguments(args)

Own(e) == ParseOptions(e.compiler, e.args)
FirstMet(c) == Min({i \in DOMAIN read : read[i].compiler = c /\ HasLang(read[i].file)})
Same(d, e) == d.file = e.file /\ Own(d).compile = Own(e).compile /\ Own(d).arch = Own(e).arch

\* Every entry that was accepted has an action with its file and options, of
\* the same or an earlier entry, and two actions for the same file and
\* options differ in their targets only (log_parser.py, the filter of
\* duplicates and cmp_key).
EntriesCovered ==
  /\ \A i \in DOMAIN read :
       HasLang(read[i].file) /\ ~(rejected /\ i = Len(read))
         => \E a \in actions : a.entry <= i /\ Same(read[a.entry], read[i])
  /\ \A a, b \in actions :
       a # b /\ Same(read[a.entry], read[b.entry]) => a.target # b.target

\* An action has another target than its compiler prints only if another
\* compiler was met between the first use of its own and this one, and
\* defaults for another language or architecture only if the first use of
\* its compiler had them (log_parser.py, compiler_target and
\* compiler_includes).
DefaultsForAReason ==
  \A a \in actions :
    LET e == read[a.entry]
        first == FirstMet(e.compiler)
    IN /\ a.target # TargetOf[e.compiler]
            => \E c \in DOMAIN includes :
                 /\ first < FirstMet(c) /\ FirstMet(c) < a.entry
                 /\ TargetOf[c] = a.target
       /\ a.asked = AskedWith(Own(read[first]))

\* The log is given up only for an entry without a command, a command line
\* that ends before the word an option takes, or a compiler that is met
\* with no language; the order of the entries decides about the last.
RejectedForAReason ==
  rejected =>
    LET e == read[Len(read)]
    IN \/ ~e.valid
       \/ ToSet(e.args) \cap Irregular # {}
       \/ \E i \in Free(e.args) : i + Words(e.args[i]) > Len(e.args)
       \/ /\ \A i \in 1 .. Len(read) - 1 : read[i].compiler # e.compiler \/ ~HasLang(read[i].file)
          /\ e.compiler \notin Cxx
          /\ \A f \in ToSet(Arguments(e.args)) : ~HasLang(f)
          /\ \A i \in Free(e.args) : e.args[i] # "-x"

\* The same compilation is analysed once, however often the build ran it
\* (the comment of cmp_key, log/build_action.py).
CheckedOnce ==
  \A a, b \in actions :
    /\ read[a.entry].compiler = read[b.entry].compiler
    /\ Same(read[a.entry], read[b.entry])
    => a = b

\* The actions are what the log says (parse_compile_commands_json).
LogRead == LogTypeOK /\ FilesAreArguments /\ EntriesCovered /\ DefaultsForAReason /\ RejectedForAReason
=============================================================================
