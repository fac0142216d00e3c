----------------------------- MODULE MCFtpStore -----------------------------
(* Two calls; a server lists a file, the directory itself, or nothing.      *)
EXTENDS FtpStore

CONSTANTS c1, c2, f, dot
=============================================================================
