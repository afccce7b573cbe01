--------------------------- MODULE MCBrainServer ---------------------------
(* One WorkerClient that takes coder tasks and one other client that takes   *)
(* any task.  With two coder subtasks both clients and the dispatch compete  *)
(* for the same tasks; the LAN test has a planner and a coder subtask.       *)
EXTENDS BrainServer

CONSTANT plan1

MCWorkers == {"client", "rest"}
MCCapability == [w \in MCWorkers |-> IF w = "client" THEN "coder" ELSE AnyCapability]
MCPlans == {plan1}
MCSubtasks == [p \in MCPlans |-> <<"coder", "coder">>]
MCLanSubtasks == [p \in MCPlans |-> <<"planner", "coder">>]
=============================================================================
