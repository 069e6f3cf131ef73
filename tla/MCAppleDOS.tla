------------------------------ MODULE MCAppleDOS ------------------------------
(* Instances of the DOS 3.3 volume small enough for TLC. *)
EXTENDS AppleDOSFiles

CONSTANTS long, a, b, p1, p2

\* A 30-character prefix that is also a name of its own.
MCTruncated == [n \in LongNames |-> a]

\* SectorBytes is 2: a payload of one chunk, and one of exactly two chunks,
\* for which WriteFile takes a third sector it never writes.  With MaxPairs 3
\* the three just fit one list, and it takes a second list all the same.
SmallSizes == [p \in Payloads |-> IF p = p1 THEN 1 ELSE 4]

\* With MaxPairs 2: a payload of one list, and one of three chunks, whose
\* pairs do not fit in one list.
LargeSizes == [p \in Payloads |-> IF p = p1 THEN 1 ELSE 5]
==============================================================================
