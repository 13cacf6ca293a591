---------------------------- MODULE MCStateStore ----------------------------
EXTENDS StateStore
\* The first outlier names the second.
MCOutlierAuth == [o \in {101, 102} |-> IF o = 101 THEN {102} ELSE {}]
NoOutliers == [o \in {} |-> {}]
=============================================================================
