------------------------------ MODULE MCAgentRun ------------------------------
(* Instances of AgentRun for TLC: which operations each call may be. *)
EXTENDS AgentRun, TLC

CONSTANTS c1, c2, c3, c4

(* Two runs, then the operations that tear the agent down and bring it back. *)
OpsAll ==
    c1 :> {"stream"} @@ c2 :> {"replace"} @@
    c3 :> {"cancel", "reload", "close"} @@ c4 :> {"resume"}

(* Runs, replacements and cancels of one agent that stays registered. *)
OpsRuns ==
    c1 :> {"stream"} @@ c2 :> {"replace"} @@ c3 :> {"cancel"}

(* Two replacements of one running turn. *)
OpsReplace ==
    c1 :> {"stream"} @@ c2 :> {"replace"} @@ c3 :> {"replace"}

(* A reload while a run starts. *)
OpsReload ==
    c1 :> {"stream"} @@ c2 :> {"reload"}

=============================================================================
