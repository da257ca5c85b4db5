----------------------------- MODULE MCSliceEngine ----------------------------
EXTENDS SliceEngine

CONSTANTS d1, d2, d3

\* Two sources, one of them selected twice; two documents in the first.
MCSelected == <<"syslog", "windows", "syslog">>
MCSourceOf == [d \in Docs |-> IF d = d3 THEN "windows" ELSE "syslog"]
===============================================================================
