-------------------------- MODULE MCFilePreviewers --------------------------
(* Two files of each kind whose previews can overtake each other, one of    *)
(* the others, and a directory.                                             *)
EXTENDS FilePreviewers

CONSTANTS t1, t2, m1, j1, j2, d1, i1, dir

MCKindOf == [e \in Entry |-> CASE e \in {t1, t2} -> "text"
                               [] e = m1 -> "markdown"
                               [] e \in {j1, j2} -> "json"
                               [] e = d1 -> "dsstore"
                               [] e = i1 -> "image"
                               [] OTHER -> "dir"]
=============================================================================
