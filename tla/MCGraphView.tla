----------------------------- MODULE MCGraphView -----------------------------
(* Three functions in one file, one beside it and one in the project.      *)
EXTENDS GraphView
MCFileOf == << <<1, 1>>, <<1, 1>>, <<1, 1>>, <<2>>, <<1, 2>> >>
MCGraphs == SUBSET ({e \in (1 .. 3) \X (1 .. 3) : e[1] # e[2]}
                      \cup {<<4, 1>>, <<5, 1>>, <<2, 5>>})
MCMarked == {{}, {2}}
=============================================================================
