--------------------------- MODULE MCDirPreviewer ---------------------------
(* A repository with a tracked and a new file below d1 and a clean          *)
(* directory d2; outside it d3, with a file that has no size, and d4, which *)
(* cannot be read.                                                          *)
EXTENDS DirPreviewer

CONSTANTS d1, d2, d3, d4, f, g

MCFilesOf == [d \in RepoDir |-> IF d = d1 THEN {f, g} ELSE {}]
=============================================================================
