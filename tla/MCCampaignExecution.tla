------------------------- MODULE MCCampaignExecution -------------------------
(***************************************************************************)
(* Instances of CampaignExecution for TLC: a campaign of up to two runs on *)
(* an agent with a process or on a test agent.                             *)
(***************************************************************************)
EXTENDS CampaignExecution, TLC

Benchmarks == {"run_test"}

(* What can put a row's status at odds with its test, and end the thread.  *)
Trouble == {"slowPost", "serverCrash", "simError", "executorError"}

NoEvent == {}

RowSymmetry == Permutations(Tests)

=============================================================================
