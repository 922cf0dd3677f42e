----------------------------- MODULE MCMonitoring -----------------------------
(* A small instance of Monitoring: two rules with windows of 0 and 1 days.    *)
EXTENDS Monitoring, TLC
CONSTANTS up, cpu, short, long
MCRuleMetric == [r \in Rule |-> cpu]
MCWindow == [r \in Rule |-> IF r = short THEN 0 ELSE 1]
MCLoads == {[kinds |-> {"breach", "probe", "scan"}, days |-> 1],
            [kinds |-> {"batch", "rollup"}, days |-> 3]}
Symmetry == Permutations(Job)
=============================================================================
