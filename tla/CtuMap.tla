------------------------------- MODULE CtuMap -------------------------------
(***************************************************************************)
(* The collection of cross translation unit data: analyze/ctu_manager.py,  *)
(* analyzers/ctu_triple_arch.py, and the phases in libhandlers/analyze.py  *)
(* and analyze/analyzer.py.                                                *)
(*                                                                         *)
(* A pool of workers writes, for each compilation, the AST of its source   *)
(* and a temporary file that maps the functions it defines to that AST.    *)
(* When all are done the temporary files of each architecture are merged   *)
(* into one map, which leaves out functions found in several ASTs.  The    *)
(* collection may be stopped at any time and begun anew.                   *)
(***************************************************************************)
EXTENDS Naturals, FiniteSets

CONSTANTS
  Unit,        \* compilations
  SourceOf, ArchOf,
  Skips,       \* compilations that a skip list may exclude
  Builds,      \* what each source may define: functions
  PoolSize,    \* workers of the pool
  MaxCollects, \* bound: collections begun
  MaxBroken,   \* bound: steps of a worker that fail
  NoMap

ASSUME CtuAssumption ==
  /\ PoolSize \in Nat \ {0}
  /\ \A lines \in SUBSET ((UNION {d[SourceOf[u]] : d \in Builds, u \in Unit})
                             \X {SourceOf[u] : u \in Unit}) :
       lines # NoMap

VARIABLES
  defines,   \* functions that each source defines, fixed during a collection
  skipped,   \* compilations that the skip list excludes
  phase,     \* "idle", "collect", "merge", "ready" or "stopped"
  job,       \* progress of each compilation
  asts,      \* <<arch, source>> of the AST files
  temp,      \* temporary map files: unit and lines <<function, source>>
  map,       \* externalFnMap.txt of each architecture, or NoMap
  folders,   \* architectures that have a folder
  mapped,    \* <<arch, function, source>> found by this collection
  unwritten, \* <<arch, source>> whose AST was not written by it
  collects, failures

ctuVars == <<defines, skipped, phase, job, asts, temp, map, folders, mapped, unwritten,
             collects, failures>>

Archs == {ArchOf[u] : u \in Unit}
Sources == {SourceOf[u] : u \in Unit}

CtuInit ==
  /\ defines \in Builds
  /\ skipped \in Skips
  /\ phase = "idle"
  /\ job = [u \in Unit |-> "todo"]
  /\ asts = {} /\ temp = {} /\ mapped = {} /\ unwritten = {}
  /\ map = [a \in Archs |-> NoMap]
  /\ folders = {}
  /\ collects = 0 /\ failures = 0

\* The folder of an earlier collection is removed first.
BeginCollect ==
  /\ phase \in {"idle", "ready", "stopped"}
  /\ collects < MaxCollects
  /\ collects' = collects + 1
  /\ phase' = "collect"
  /\ job' = [u \in Unit |-> IF u \in skipped THEN "done" ELSE "todo"]
  /\ asts' = {} /\ temp' = {} /\ folders' = {} /\ mapped' = {} /\ unwritten' = {}
  /\ map' = [a \in Archs |-> NoMap]
  /\ defines' \in Builds
  /\ UNCHANGED <<skipped, failures>>

Place(u) == <<ArchOf[u], SourceOf[u]>>
AtWork == {u \in Unit : job[u] = "ast"}

\* Mutant: an AST that exists is not made again.
GenerateAstOnce(u) ==
  /\ phase = "collect"
  /\ job[u] = "todo"
  /\ Cardinality(AtWork) < PoolSize
  /\ job' = [job EXCEPT ![u] = "ast"]
  /\ folders' = folders \cup {ArchOf[u]}
  /\ asts' = IF \E p \in asts : p[2] = SourceOf[u] THEN asts ELSE asts \cup {Place(u)}
  /\ UNCHANGED <<defines, skipped, phase, temp, map, mapped, unwritten, collects, failures>>

\* generate_ast: an error is logged, and the functions are mapped all the
\* same.
GenerateAst(u) ==
  /\ phase = "collect"
  /\ job[u] = "todo"
  /\ Cardinality(AtWork) < PoolSize
  /\ job' = [job EXCEPT ![u] = "ast"]
  /\ folders' = folders \cup {ArchOf[u]}
  /\ \/ asts' = asts \cup {Place(u)} /\ UNCHANGED <<unwritten, failures>>
     \/ /\ failures < MaxBroken
        /\ failures' = failures + 1
        /\ unwritten' = unwritten \cup {Place(u)}
        /\ UNCHANGED asts
  /\ UNCHANGED <<defines, skipped, phase, temp, map, mapped, collects>>

\* map_functions: no file is written when the command fails or finds nothing.
MapFunctions(u) ==
  /\ phase = "collect"
  /\ job[u] = "ast"
  /\ job' = [job EXCEPT ![u] = "done"]
  /\ LET lines == {<<f, SourceOf[u]>> : f \in defines[SourceOf[u]]}
     IN \/ /\ temp' = IF lines = {} THEN temp
                      ELSE temp \cup {[unit |-> u, arch |-> ArchOf[u], lines |-> lines]}
           /\ mapped' = mapped \cup {<<ArchOf[u], l[1], l[2]>> : l \in lines}
           /\ UNCHANGED failures
        \/ /\ failures < MaxBroken
           /\ failures' = failures + 1
           /\ UNCHANGED <<temp, mapped>>
  /\ UNCHANGED <<defines, skipped, phase, asts, map, folders, unwritten, collects>>

BeginMerge ==
  /\ phase = "collect"
  /\ \A u \in Unit : job[u] = "done"
  /\ phase' = "merge"
  /\ UNCHANGED <<defines, skipped, job, asts, temp, map, folders, mapped, unwritten, collects, failures>>

LinesOf(a) == UNION {t.lines : t \in {x \in temp : x.arch = a}}

\* Mutant: two compilations with the same function make it ambiguous.
GlobalMapOfLists(a) ==
  {l \in LinesOf(a) :
     Cardinality({t \in temp : t.arch = a /\ \E k \in t.lines : k[1] = l[1]}) = 1}

\* create_global_ctu_function_map: names with one AST only, however many
\* compilations map them to it.
GlobalMap(a) ==
  {l \in LinesOf(a) : \A k \in LinesOf(a) : k[1] = l[1] => k[2] = l[2]}

\* Mutant: the maps that were merged are not removed.
MergeArchOnly(a) ==
  /\ phase = "merge"
  /\ a \in folders
  /\ map[a] = NoMap
  /\ map' = [map EXCEPT ![a] = GlobalMap(a)]
  /\ UNCHANGED <<defines, skipped, phase, job, asts, temp, folders, mapped, unwritten, collects, failures>>

\* merge_ctu_func_maps, one architecture after the other.
MergeArch(a) ==
  /\ phase = "merge"
  /\ a \in folders
  /\ map[a] = NoMap
  /\ map' = [map EXCEPT ![a] = GlobalMap(a)]
  /\ temp' = {t \in temp : t.arch # a}
  /\ UNCHANGED <<defines, skipped, phase, job, asts, folders, mapped, unwritten, collects, failures>>

EndMerge ==
  /\ phase = "merge"
  /\ \A a \in folders : map[a] # NoMap
  /\ phase' = "ready"
  /\ UNCHANGED <<defines, skipped, job, asts, temp, map, folders, mapped, unwritten, collects, failures>>

\* A worker raises, or the user stops the program: the pool is terminated
\* and nothing is merged from then on.
Stop ==
  /\ phase \in {"collect", "merge"}
  /\ phase' = "stopped"
  /\ UNCHANGED <<defines, skipped, job, asts, temp, map, folders, mapped, unwritten, collects, failures>>

\* When the analysis was asked for together with the collection, its folder
\* is removed at the end.
RemoveFolder ==
  /\ phase = "ready"
  /\ phase' = "idle"
  /\ job' = [u \in Unit |-> "todo"]
  /\ asts' = {} /\ temp' = {} /\ folders' = {} /\ mapped' = {} /\ unwritten' = {}
  /\ map' = [a \in Archs |-> NoMap]
  /\ UNCHANGED <<defines, skipped, collects, failures>>

CtuNext ==
  \/ BeginCollect \/ BeginMerge \/ EndMerge \/ Stop \/ RemoveFolder
  \/ \E u \in Unit : GenerateAst(u) \/ MapFunctions(u)
  \/ \E a \in Archs : MergeArch(a)

CtuSpec == CtuInit /\ [][CtuNext]_ctuVars

\* --ctu-analyze alone needs no more than the folder.
MayAnalyze == phase \notin {"collect", "merge"} /\ folders # {}

---------------------------------------------------------------------------
(* Properties *)

CtuTypeOK ==
  /\ phase \in {"idle", "collect", "merge", "ready", "stopped"}
  /\ job \in [Unit -> {"todo", "ast", "done"}]
  /\ asts \cup unwritten \subseteq Archs \X Sources
  /\ Cardinality(AtWork) <= PoolSize

\* A map holds exactly the functions that the successful compilations of its
\* architecture in this collection define in one source, in whatever order
\* the workers found them; nothing of an earlier collection is left in it
\* (ctu_manager.py, do_ctu_collect).
MapIsOfThisCollect ==
  \A a \in Archs :
    map[a] # NoMap =>
      map[a] = {<<m[2], m[3]>> : m \in
                  {x \in mapped : x[1] = a /\ \A y \in mapped : y[1] = a /\ y[2] = x[2] => y[3] = x[3]}}

\* When a map can be used, every AST it names exists, unless the compilation
\* that should have written it failed: the functions of a source are mapped
\* even then (generate_ast, collect_build_action).
MapHasAsts ==
  \A a \in Archs :
    MayAnalyze /\ map[a] # NoMap =>
      \A l \in map[a] : <<a, l[2]>> \in asts \cup unwritten

\* After a collection that was not stopped every architecture with a folder
\* has its map, and no temporary file is left.
ReadyIsWhole == phase = "ready" => temp = {} /\ \A a \in folders : map[a] # NoMap

\* The maps an analysis uses are those of the last collection, whole
\* (do_ctu_collect).
MapsRight == CtuTypeOK /\ MapIsOfThisCollect /\ MapHasAsts /\ ReadyIsWhole
=============================================================================
