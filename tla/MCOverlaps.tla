------------------------------ MODULE MCOverlaps ------------------------------
(* Three images, one with two fingerprints, for TLC. *)
EXTENDS Overlaps, TLC

CONSTANTS f1, f2, g, h, v1, v2, v3

MCPathOf == f1 :> v1 @@ f2 :> v1 @@ g :> v2 @@ h :> v3

File(sum, size, hello) == [sum |-> sum, size |-> size, hello |-> hello]
D(files, active, inactive) == [files |-> files, active |-> active, inactive |-> inactive]

\* One file, two files, one of them a boot program called hello (on Two it is
\* called something else), one of no bytes; no file.
One   == D(<<File(1, 5, FALSE)>>, 1 :> 1, 3 :> EmptySector)
Two   == D(<<File(1, 5, FALSE), File(3, 4, FALSE)>>, 1 :> 1 @@ 2 :> 2, 3 :> EmptySector)
Boot  == D(<<File(1, 5, FALSE), File(3, 4, TRUE)>>, 1 :> 1 @@ 2 :> 3, 3 :> 1)
Zero  == D(<<File(1, 5, FALSE), File(4, 0, FALSE), File(1, 5, FALSE)>>, 1 :> 1, 3 :> 1)
Blank == D(<<>>, 1 :> EmptySector, 3 :> EmptySector)

S(x, y, z) == f1 :> x @@ f2 :> y @@ g :> One @@ h :> z

MCStores ==
  {S(One, Two, Two), S(Torn, Two, Blank), S(Torn, Boot, Boot), S(One, Boot, Two), S(Torn, Two, Zero)}

R(of, keep, n) == [of |-> of, keep |-> keep, n |-> n]

MCReports ==
  {R("files", "above", 50), R("files", "above", 100), R("files", "subset", 0),
   R("files", "same", 1), R("files", "diff", 1),
   R("sectors", "above", 40), R("active", "subset", 0)}
==============================================================================
