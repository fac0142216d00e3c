---------------------------- MODULE MCNavigator ----------------------------
(* Small file systems for Navigator: "~" is a, a directory of "/".  The     *)
(* file a user picks is everywhere but in the site's a; the local a is in a *)
(* git work tree.                                                           *)
EXTENDS Navigator

CONSTANTS disk, site, slash, tilde, a

MCStore == {disk, site}
MCPath == {slash, tilde, a}
MCParent == [p \in Path |-> slash]
MCSubdirs == [s \in MCStore |->
               [p \in Path |-> IF p = slash THEN Path \ {slash, tilde} ELSE {}]]
MCHasFile == [s \in MCStore |-> [p \in Path |-> s = disk \/ p # a]]
MCInRepo == {<<disk, a>>}
=============================================================================
