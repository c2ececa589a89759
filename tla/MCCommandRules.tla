---------------------------- MODULE MCCommandRules ----------------------------
(* One rule of each way to decide or not, up to two in a section.             *)
EXTENDS CommandRules

RulesUnderTest ==
  {[enabled |-> TRUE,  kind |-> "exact",   expression |-> "matches", action |-> "allow"],
   [enabled |-> TRUE,  kind |-> "exact",   expression |-> "any",     action |-> "other"],
   [enabled |-> TRUE,  kind |-> "reg_exp", expression |-> "throws",  action |-> "allow"],
   [enabled |-> TRUE,  kind |-> "fetch",   expression |-> "differs", action |-> "allow"],
   [enabled |-> FALSE, kind |-> "exact",   expression |-> "any",     action |-> "allow"]}
=============================================================================
