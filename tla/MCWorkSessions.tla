--------------------------- MODULE MCWorkSessions ---------------------------
(***************************************************************************)
(* Two workers and three workstreams. ws2 writes the path of ws1's code    *)
(* another way, has two slashes in front of its worktree and shares a      *)
(* runtime with ws3; ws3 is of another repository and names ws1's worktree,*)
(* by another spelling, and its packet is not tidy. The decoy is as like   *)
(* ws1's worktree as a directory can be.                                   *)
(***************************************************************************)
EXTENDS WorkSessions, TLC

P1 == <<"wt", "one">>
P2 == <<"wt", "two">>
TheWorktrees == P1 :> "A" @@ P2 :> "B"
Checkout(branch) == [branch |-> branch, head |-> 0, change |-> "NONE", unpushed |-> FALSE,
                     origin |-> "r1"]
TheDirectories == "A" :> Checkout("b1") @@ "B" :> Checkout("b2") @@ "D" :> Checkout("b1")

Db == [id |-> "db", isolated |-> FALSE]
TheBindings == {WholeBinding, {"workstream"}}

TheWork ==
  "ws1" :> [tree |-> <<"/">> \o P1, owned |-> {<<"app">>}, runtime |-> NoRuntime] @@
  "ws2" :> [tree |-> <<"/", "">> \o P2, owned |-> {<<"docs", "..", "app", "x">>}, runtime |-> Db] @@
  "ws3" :> [tree |-> <<"/", "wt", ".", "two", "..", "one">>, owned |-> {<<"docs">>},
            runtime |-> [Db EXCEPT !.isolated = TRUE]]

TheProfile == [id |-> "standard", rev |-> 1, legacy |-> {"cursor"},
               primary |-> "claude", disabled |-> {"codex"}]
Packet(w, repo, branch) ==
  [version |-> 3, repo |-> repo, workstream |-> w, status |-> "ACTIVE", branch |-> branch, head |-> 0,
   rev |-> 1, profile |-> [id |-> "standard", rev |-> 1], implementer |-> "NONE", sound |-> TRUE,
   tidy |-> TRUE, blocker |-> FALSE, waiting |-> FALSE, next |-> TRUE]
ThePackets ==
  "ws1" :> Packet("ws1", "r1", "b1") @@
  "ws2" :> [Packet("ws2", "r1", "b2") EXCEPT !.version = 2, !.implementer = "cursor",
                                             !.profile = [id |-> "NONE", rev |-> 0]] @@
  "ws3" :> [Packet("ws3", "r2", "b1") EXCEPT !.tidy = FALSE]

CONSTANTS s1, s2
TheSessions == {s1, s2}
Alike == Permutations(TheSessions)
=============================================================================
