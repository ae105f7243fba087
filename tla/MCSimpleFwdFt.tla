---------------------------- MODULE MCSimpleFwdFt ----------------------------
(***************************************************************************)
(* Two lcores and the aging thread on a table of two buckets: the flows f1 *)
(* and f2 of different lcores collide in the first bucket.                 *)
(***************************************************************************)
EXTENDS SimpleFwdFt

CONSTANTS c1, c2, f1, f2

MCLcores == {c1, c2}
MCFlows == {f1, f2}
MCOwner == [f \in MCFlows |-> IF f = f2 THEN c2 ELSE c1]
MCBucketOf == [f \in MCFlows |-> 1]
MCAges == {1}

\* The behaviour after a use of a freed entry is followed while the last entry
\* is not allocated: a flow's second entry behind another flow's takes three,
\* but only up to such a use, and what holds beyond it can break with two.
AfterUse == touched => entry[MaxEntries].state = "unused"
=============================================================================
