---------------------------- MODULE MCFilesTable ----------------------------
(* A local directory with a sub-directory and two files of different kinds, *)
(* in a git work tree; "/" with two files; an FTP site with one of them.    *)
EXTENDS FilesTable, TLC

CONSTANTS local, ftp, root, d1, sub, h, a, b, x, y

MCOrder == <<sub, h, a, b>>
MCExtOf == (sub :> y) @@ (h :> x) @@ (a :> x) @@ (b :> y)
MCDisk == (local :> ((root :> {a, b}) @@ (d1 :> {sub, a, b})))
            @@ (ftp :> ((root :> {}) @@ (d1 :> {a})))
=============================================================================
