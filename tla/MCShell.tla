------------------------------- MODULE MCShell -------------------------------
(* Instances of the shell small enough for TLC. *)
EXTENDS Shell

CONSTANTS d1, d2, x

\* An image file by its path, and as it is called in the directory it is in:
\* there are two files, and the relative name means one or the other, so a
\* file has two names and a name two files.
AllNames == Bases \cup Paths
==============================================================================
