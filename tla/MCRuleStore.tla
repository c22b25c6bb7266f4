---------------------------- MODULE MCRuleStore ------------------------------
(***************************************************************************)
(* RuleStore with two rules that change their action, their condition and  *)
(* their names, an administrator, the poller and one evaluation.           *)
(***************************************************************************)
EXTENDS RuleStore

CONSTANTS a1, poller, e1, n1, n2

OneAdmin == {a1}
OneEvaluation == {e1}

TwoNames == {n1, n2}
Blocks == [name |-> n1, match |-> TRUE, action |-> "block"]
Reviews(n) == [name |-> n, match |-> TRUE, action |-> "review"]
SomeRows == {Blocks, Reviews(n1), Reviews(n2)}
SomeTables == {<<Off, Off>>, <<Reviews(n2), Blocks>>}

=============================================================================
