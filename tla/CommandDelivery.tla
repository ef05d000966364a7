--------------------------- MODULE CommandDelivery ---------------------------
(***************************************************************************)
(* What the heartbeat channel promises about one command, with the         *)
(* database, the agents and the network left out.  A command is accepted   *)
(* once, handed to at most one agent, started at most once, and once it    *)
(* was started, finished or lost it never waits for delivery again.        *)
(* Nothing is promised about how long a stage lasts: delivery is           *)
(* at-most-once, so a command may be lost from every stage.                *)
(***************************************************************************)

CONSTANT Commands

VARIABLE stage

Stages == {"absent", "waiting", "taken", "started", "finished", "lost"}

(* A simulated command is started by the server itself, without delivery.  *)
Moves ==
    { <<"absent",  "waiting">>,  <<"absent",  "started">>,
      <<"waiting", "taken">>,    <<"waiting", "lost">>,
      <<"taken",   "started">>,  <<"taken",   "lost">>,
      <<"started", "finished">>, <<"started", "lost">> }

Init == stage = [c \in Commands |-> "absent"]

(* A crash ends several commands in one step, so every command may move.   *)
Next ==
    /\ stage' \in [Commands -> Stages]
    /\ \A c \in Commands :
          stage'[c] # stage[c] => <<stage[c], stage'[c]>> \in Moves

Spec == Init /\ [][Next]_stage

=============================================================================
