---------------------------- MODULE MCTaskLifecycle ----------------------------
(* A manager who creates and decides, an assignee with no permission, and an *)
(* assignee who may cancel: the smallest tenant in which the creator and a   *)
(* permission holder differ and a task can have two assignees.               *)
EXTENDS TaskLifecycle, TLC

CONSTANTS manager, ann, bob

MCUsers == {manager, ann, bob}

MCHolders == [p \in Permissions |->
                IF p = "task.cancel" THEN {manager, bob} ELSE {manager}]

\* Workers are interchangeable.
WorkerSymmetry == Permutations(Workers)
=============================================================================
