--------------------------- MODULE DispatchStore ---------------------------
(***************************************************************************)
(* The marker files of one-time dispatches (tools/skills-contract.py). A   *)
(* marker is made by an exclusive create and filled by a later write, and  *)
(* finalizing truncates it before it is written again: a crash in between  *)
(* leaves a blank file, which every reader takes for consumed.             *)
(***************************************************************************)
EXTENDS Naturals

CONSTANT Dispatches   \* dispatch ids

VARIABLE marker       \* for each dispatch, its marker file

\* owner: the effect and the attempt a marker is for, <<>> for none.
Absent == [state |-> "absent", owner |-> <<>>]
Blank == [state |-> "consumed", owner |-> <<>>]
DispatchRecords(owners) ==
  {Absent, Blank} \cup [state: {"reserved", "consumed"}, owner: owners]

InitMarkers == marker = [d \in Dispatches |-> Absent]

BindingMatches(d, owner) == marker[d].owner = owner

\* consume_dispatch_once: whoever creates the marker has the dispatch.
Overwrite(d) == marker' = [marker EXCEPT ![d] = Blank]
ConsumeOnce(d) == marker[d] = Absent /\ marker' = [marker EXCEPT ![d] = Blank]

\* reserve_dispatch: "free" stands for an exclusive create that succeeds.
ReserveAnswer(d, owner) ==
  IF marker[d] = Absent THEN "free"
  ELSE IF ~BindingMatches(d, owner) THEN "conflict"
  ELSE IF marker[d].state = "consumed" THEN "owned_consumed" ELSE "owned_reserved"
CreateMarker(d) == marker' = [marker EXCEPT ![d] = Blank]
WriteReserved(d, owner) == marker' = [marker EXCEPT ![d] = [state |-> "reserved", owner |-> owner]]

AlwaysOk(d, owner) == "ok"

\* finalize_dispatch: "empty" stands for a reservation that may be rewritten.
FinalizeAnswer(d, owner) ==
  IF marker[d] = Absent \/ ~BindingMatches(d, owner) THEN "conflict"
  ELSE IF marker[d].state = "consumed" THEN "ok" ELSE "empty"
TruncateMarker(d) == marker' = [marker EXCEPT ![d] = Blank]
WriteConsumed(d, owner) == marker' = [marker EXCEPT ![d] = [state |-> "consumed", owner |-> owner]]
=============================================================================
