------------------------------ MODULE MCSubTasks ------------------------------
(* Small instances of SubTasks. *)
EXTENDS SubTasks

MCFiles == 1..2
MCPaths == 1..2
MCSize == <<1, 2>>
MCPathOf == <<1, 2>>
MCExisting == {1}
MCPlanCopy == <<"Scan", "Copy">>
MCPlanMove == <<"FastMove", "Scan", "Copy", "Delete">>
MCPlanMoveReordered == <<"Scan", "FastMove", "Copy", "Delete">>
=============================================================================
