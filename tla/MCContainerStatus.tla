--------------------------- MODULE MCContainerStatus ---------------------------
(* Instances of ContainerStatus for TLC: a user, the scheduler, and a Node. *)
EXTENDS ContainerStatus

CONSTANTS user, scheduler, node

MCWants ==
    [w \in Workers |->
        CASE w = user      -> {"CANCELLED"}
          [] w = scheduler -> {"DECLINED", "PENDING", "SCHEDULED"}
          [] w = node      -> {"RUNNING", "FAILED", "STOPPED"}]
=============================================================================
