---------------------------- MODULE MCAgentStorage ----------------------------
(* Instances of AgentStorage for TLC: what each call slot is used for. *)
EXTENDS AgentStorage

CONSTANTS r1, r2

(* Every two calls at a time but two registrations or two titles. *)
AllOps == [r \in Request |-> Operation \ {IF r = r1 THEN "setTitle" ELSE "register"}]
OpsArchive == [r \in Request |-> IF r = r1 THEN {"archive"} ELSE {"register"}]

(* No file, one at the legacy place or in another project's directory, or an interrupted move. *)
NewOrMoved == {{}, {1}, {3}, {2, 3}}

=============================================================================
