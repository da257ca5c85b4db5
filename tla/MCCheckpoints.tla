---------------------------- MODULE MCCheckpoints -----------------------------
EXTENDS Checkpoints

CONSTANTS short, long

\* The long record has a field the short one has not.
MCFields == [r \in Records |-> IF r = short THEN {"time"} ELSE {"time", "message"}]
MCSize == [r \in Records |-> IF r = short THEN 1 ELSE 2]
===============================================================================
