--------------------------- MODULE TaskStateMachine ---------------------------
(* The life of a task as the controllers' own comments promise it: the       *)
(* status diagram at the head of task-transitions.controller.ts together    *)
(* with the reassignment flow at the head of task-reassignment.controller.ts,*)
(* every request taking effect at once.  It keeps the status and, while a    *)
(* reassignment request is open, the status to come back to.                 *)
EXTENDS Naturals

VARIABLES status,  \* tasks.status, "absent" before POST /tasks
          origin   \* status a refused reassignment restores, else "none"

vars == <<status, origin>>

Terminal == {"completed", "cancelled"}

Init == /\ status = "absent"
        /\ origin = "none"

Move(from, to) == /\ status \in from
                  /\ status' = to
                  /\ origin' = "none"

Create == \E s \in {"draft", "assigned"} : Move({"absent"}, s)
Start == Move({"assigned"}, "in_progress")
Submit == Move({"in_progress"}, "submitted")
Approve == Move({"submitted"}, "completed")
RequestRevision == Move({"submitted"}, "in_progress")

Cancel ==
  Move({"draft", "assigned", "in_progress", "submitted", "reassignment_requested"},
       "cancelled")

RequestReassignment == /\ status \in {"assigned", "in_progress"}
                       /\ status' = "reassignment_requested"
                       /\ origin' = status

GrantReassignment == Move({"reassignment_requested"}, "draft")
RefuseReassignment == Move({"reassignment_requested"}, origin)

Next == \/ Create
        \/ Start
        \/ Submit
        \/ Approve
        \/ RequestRevision
        \/ Cancel
        \/ RequestReassignment
        \/ GrantReassignment
        \/ RefuseReassignment

Spec == Init /\ [][Next]_vars
=============================================================================
