---------------------------- MODULE MCAgentTimeline ----------------------------
(* Instances of AgentTimeline for TLC: kinds of rows, and what happens in one behaviour. *)
EXTENDS AgentTimeline

(* Text, then something else, then text again; or text only at first. *)
TextAndOthers ==
    {[e \in 1..MaxEpochs |-> [n \in 1..MaxRows |-> IF (n + e) % 2 = 0 THEN "assistant" ELSE "other"]]}

(* Any two of these, or one of the others. *)
PairsAndFaults ==
    kSubset(2, {"disconnect", "restart", "focus", "reload", "hide"})
        \cup {{"timeout"}, {"error"}, {"reloadElsewhere"}}

=============================================================================
