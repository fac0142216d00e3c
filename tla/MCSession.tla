----------------------------- MODULE MCSession -----------------------------
(* The disk, with "/" and a directory below home; a web site whose URL has  *)
(* a path, with a directory below it; an FTP site whose URL has none, and   *)
(* the favourites of a first start that lead to the sites: that of the FTP  *)
(* site has no path.                                                        *)
EXTENDS Session, TLC

CONSTANTS local, web, ftp, home, x, pub, a

MCHome == <<Slash, home>>
MCRootPath == (local :> <<>>) @@ (web :> <<Slash, pub>>) @@ (ftp :> <<>>)
MCPlace == {[store |-> local, path |-> <<Slash, home, x>>],
            [store |-> web, path |-> <<Slash, pub, x>>]}
MCDefaults == {[store |-> web, path |-> <<Slash, pub>>], [store |-> ftp, path |-> <<>>]}
=============================================================================
