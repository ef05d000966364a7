------------------------- MODULE MCQuickTestDispatch -------------------------
(***************************************************************************)
(* Instances of QuickTestDispatch for TLC: two rows, one agent with a      *)
(* process and one test agent.                                             *)
(***************************************************************************)
EXTENDS QuickTestDispatch, TLC

(* Every event that may disturb the channel.                               *)
AnyEvent == EnvEvents

(* The network loses heartbeat requests, and a simulation may fail.        *)
OnlyRequestsLost == {"lostRequest", "simError"}

(* A benchmark and the command without a status updater.  An engine        *)
(* command takes a benchmark's steps but for resolving and reporting.      *)
SomeKinds == {"run_test", "cleanup_storage"}

LiveKinds == {"run_test", "install_engine", "cleanup_storage"}

(* For the runs that ask one question.                                     *)
EngineCommands == {"install_engine", "stop_engine"}
BenchmarksOnly == {"run_test"}
NoEvent == {}
UsersStop == {"userStop"}

RowSymmetry == Permutations(Tests)

(* All that a day does is to stamp rows: it passes between two stamps, any *)
(* other one leads to states that differ from these in today only.         *)
DayBetweenStamps == NewDay /\ rows \in 1..(Cardinality(Tests) - 1)

NextBetweenStamps == WithinDay \/ DayBetweenStamps \/ ServerRestart

SpecBetweenStamps == Init /\ [][NextBetweenStamps]_vars

=============================================================================
