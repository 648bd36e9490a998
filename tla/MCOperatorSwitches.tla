-------------------------- MODULE MCOperatorSwitches --------------------------
(* OperatorSwitches for TLC, with one of the two switches in use: the gate of  *)
(* one pair, with two starts of the runner, or the pause of two pairs.         *)
EXTENDS OperatorSwitches
VARIABLE switch

GoldOnly == [p \in Pairs |-> IF p = "gold" THEN Names ELSE {}]

SwitchInit == Init /\ switch \in {"gate", "pause"}
SwitchNext ==
    /\ UNCHANGED switch
    /\ Next
    /\ \/ switch = "gate" /\ modeCommands' = 0 /\ bars' <= 2 /\ tasks'["euro"] = IdleTask
       \/ switch = "pause" /\ gateCommands' = 0 /\ starts' <= 1 /\ bars' <= 2
OneSwitch == SwitchInit /\ [][SwitchNext]_<<vars, switch>>
================================================================================
