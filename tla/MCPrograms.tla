----------------------------- MODULE MCPrograms -----------------------------
(***************************************************************************)
(* The small programs for TLC: the items that main posts to the priority   *)
(* scheduler ("333" and the second items of each priority are left out).   *)
(***************************************************************************)
EXTENDS Programs

MCPriorities == <<0, 1, 2, 2, -1>>
=============================================================================
