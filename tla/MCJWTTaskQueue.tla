--------------------------- MODULE MCJWTTaskQueue ---------------------------
(***************************************************************************)
(* Instances of JWTTaskQueue for TLC, and what the documents say of it.    *)
(***************************************************************************)
EXTENDS JWTTaskQueue

CONSTANTS t1, t2, t3, c1, c2

TwoTasks == {t1, t2}
ThreeTasks == {t1, t2, t3}
OneUserTask == {t2}
OneClient == {c1}
TwoClients == {c1, c2}

-----------------------------------------------------------------------------
(* docs/jwt-task-api.md describes the statuses: "processing" is "正在处理中",  *)
(* being worked on right now.                                              *)
ProcessingMeansBeingProcessed ==
  \A t \in Present : rows[t].status = "processing" => t = cur
=============================================================================
