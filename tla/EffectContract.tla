--------------------------- MODULE EffectContract ---------------------------
(***************************************************************************)
(* What the watch host promises its owner: an effect is sent at most once, *)
(* its delivery is reported at most once, and only after it was sent.      *)
(***************************************************************************)
EXTENDS Sequences, Naturals

CONSTANT Effects
VARIABLE log      \* what has happened outside, in order

Happened(what, e) == \E i \in DOMAIN log : log[i] = <<what, e>>

Send(e) == ~Happened("sent", e) /\ log' = Append(log, <<"sent", e>>)
Report(e) ==
  Happened("sent", e) /\ ~Happened("reported", e) /\ log' = Append(log, <<"reported", e>>)

Init == log = <<>>
Next == \E e \in Effects : Send(e) \/ Report(e)
Spec == Init /\ [][Next]_log
=============================================================================
