---------------------------- MODULE MCAiAnalysis ----------------------------
(* Values for TLC.                                                          *)
EXTENDS AiAnalysis, TLC

CONSTANTS n1, a1, a2

SomePriorities == [a \in Accounts |-> IF a = a1 THEN 1 ELSE 2]

\* Every kind of gateway behind the first account, a complete one behind the other.
AnyGateway ==
    [apis : SUBSET Apis \ {{}}, json : BOOLEAN, temp : BOOLEAN]
        \cup {[apis |-> {}, json |-> TRUE, temp |-> TRUE]}
Complete == [apis |-> Apis, json |-> TRUE, temp |-> TRUE]
SomeGateways == [a \in Accounts |-> IF a = a1 THEN AnyGateway ELSE {Complete}]
=============================================================================
