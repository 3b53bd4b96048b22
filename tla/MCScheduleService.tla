--------------------------- MODULE MCScheduleService ---------------------------
(* Instances of ScheduleService for TLC: what each job slot is used for. *)
EXTENDS ScheduleService, TLC

CONSTANTS j1, j2, j3

(* One tick against API calls on the schedule it runs, then a restart. *)
OpsRace ==
    j1 :> {"create", "tick"} @@
    j2 :> {"tick", "pause", "resume", "update", "runOnce", "delete"}

(* Only the timer, on schedules created beforehand. *)
OpsTicks ==
    j1 :> {"tick"} @@ j2 :> {"tick"} @@ j3 :> {"create"}

(* One schedule deleted while a tick is busy with another. *)
OpsDelete ==
    j1 :> {"tick"} @@ j2 :> {"create", "delete"}

NoLimit == {None}
Limits == {2}

=============================================================================
