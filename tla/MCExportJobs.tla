----------------------------- MODULE MCExportJobs -----------------------------
EXTENDS ExportJobs, TLC

\* Workers are interchangeable: no constant and no property names one of them.
Symmetry == Permutations(Workers)
===============================================================================
