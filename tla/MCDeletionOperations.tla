----------------------- MODULE MCDeletionOperations -----------------------
(***************************************************************************)
(* Deletion on a small instance: execute_deletion calls under one          *)
(* operation id, and requests to delete a workspace.                       *)
(***************************************************************************)
EXTENDS DeletionOperations

MCOpOf == [c \in Calls |-> IF c \in Requests THEN "ws" ELSE "op"]
MCResourceOf == [o \in Ops |-> IF o = "ws" THEN "workspace" ELSE "dataset"]
=============================================================================
