-------------------------- MODULE MCProjectAnalysis --------------------------
(* A package with a main and a run, a second run twice on the path, once a *)
(* script and once with a local main, and a private function.              *)
EXTENDS ProjectAnalysis

File(path, package, private, script, names) ==
  [path |-> path, package |-> package, class |-> "", private |-> private,
   script |-> script, functions |-> [i \in DOMAIN names |-> [name |-> names[i], method |-> FALSE]]]

MCFiles == << File("+pkg/main.m", "pkg", FALSE, FALSE, <<"main">>),
              File("+pkg/run.m", "pkg", FALSE, FALSE, <<"run">>),
              File("old/run.m", "", FALSE, TRUE, <<"run">>),
              File("private/aux.m", "", TRUE, FALSE, <<"aux">>),
              File("run.m", "", FALSE, FALSE, <<"run", "main">>) >>
MCOrder == <<"aux", "pkg.main", "pkg.run", "run", "run>main">>

(* Every definition calls at most one name; or four of them call each      *)
(* other in any way, by qualified names.                                   *)
Names == {{}, {"aux"}, {"run"}, {"main"}, {"pkg.run"}}
Top == <<"pkg.main", "pkg.run", "run", "aux">>
MCCalls ==
  {[d \in 1 .. 6 |-> IF d = 5 THEN {"main"} ELSE IF d = 6 THEN c[5] ELSE c[d]] :
     c \in [1 .. 5 -> Names]}
  \cup {[d \in 1 .. 6 |-> {Top[k] : k \in {k \in 1 .. 4 : <<d, k>> \in g}}] :
          g \in SUBSET {e \in (1 .. 4) \X (1 .. 4) : e[1] # e[2]}}
MCEntries == {{}, {"run"}, {"main"}}
MCTokens == <<2, 1, 2, 1, 1>>

(* A chunk holds two functions, of which one may be a large one.           *)
MCChunkLimits == [input |-> 4, output |-> 5, functions |-> 3, modules |-> 2]
=============================================================================
