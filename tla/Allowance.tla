------------------------------ MODULE Allowance ------------------------------
(***************************************************************************)
(* What a token bucket promises: an allowance that grows by Rate at every  *)
(* tick up to a full burst, that every command it admits pays from, and    *)
(* that turns away a command only when it cannot pay.                      *)
(***************************************************************************)
EXTENDS Integers

CONSTANTS Meters,  \* the buckets
          Most,    \* the allowance of a full bucket; 0 turns a bucket off
          Cost,    \* what one command costs
          Rate     \* what one tick gives back

VARIABLES level,    \* what each bucket could pay now
          admitted, \* commands each let through
          refused   \* commands each turned away

vars == <<level, admitted, refused>>

Refilled(b) == IF level[b] + Rate < Most[b] THEN level[b] + Rate ELSE Most[b]

Init == /\ level = Most
        /\ admitted = [b \in Meters |-> 0]
        /\ refused = [b \in Meters |-> 0]

Pay(b) == /\ Most[b] > 0
          /\ level[b] >= Cost
          /\ level' = [level EXCEPT ![b] = @ - Cost]
          /\ admitted' = [admitted EXCEPT ![b] = @ + 1]
          /\ UNCHANGED refused

Free(b) == /\ Most[b] = 0
           /\ admitted' = [admitted EXCEPT ![b] = @ + 1]
           /\ UNCHANGED <<level, refused>>

Refuse(b) == /\ Most[b] > 0
             /\ level[b] < Cost
             /\ refused' = [refused EXCEPT ![b] = @ + 1]
             /\ UNCHANGED <<level, admitted>>

Tick == /\ level' = [b \in Meters |-> Refilled(b)]
        /\ UNCHANGED <<admitted, refused>>

Next == Tick \/ \E b \in Meters : Pay(b) \/ Free(b) \/ Refuse(b)

Spec == Init /\ [][Next]_vars

=============================================================================
