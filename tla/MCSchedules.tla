------------------------------ MODULE MCSchedules -----------------------------
EXTENDS Schedules

\* All schedules save the same export, and users start it by hand as well.
MCKey == [s \in Schedules |-> "syslog"]
ByHand(policy, from, to) ==
  [owner |-> User, key |-> "syslog", policy |-> policy, start |-> from, end |-> to]
MCUserExports == {ByHand("reject", 0, 2)}
===============================================================================
