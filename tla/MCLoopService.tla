---------------------------- MODULE MCLoopService ----------------------------
(* Instances of LoopService for TLC: the options of the loops. *)
EXTENDS LoopService

CONSTANTS l1, l2

(* One loop verified by an agent, twice, with a sleep in between, whose agents are archived; one *)
(* verified by a command.                                                                         *)
AgentAndCommand ==
    [l \in Loop |->
       IF l = l1 THEN [checks |-> 0, verifier |-> TRUE, sleeps |-> TRUE, timed |-> TRUE,
                       archive |-> TRUE, maxIterations |-> 2]
       ELSE [checks |-> 1, verifier |-> FALSE, sleeps |-> FALSE, timed |-> FALSE,
             archive |-> FALSE, maxIterations |-> 1]]
=============================================================================
