------------------------- MODULE MCItsQuantization -------------------------
(***************************************************************************)
(* A campaign of two quantizations, each in a directory of one repository, *)
(* for TLC.                                                                *)
(***************************************************************************)
EXTENDS CampaignRunner

OneEach == [k \in Keys |-> 1]
OneRepo == [k \in Keys |-> "repo"]
BothQuantizations == <<[how |-> "gguf", keys |-> SetToSeq(Keys)]>>

=============================================================================
