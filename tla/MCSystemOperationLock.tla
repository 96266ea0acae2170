----------------------- MODULE MCSystemOperationLock -----------------------
(* Instances of SystemOperationLock for TLC. *)
EXTENDS SystemOperationLock

CONSTANTS o1, o2, o3

\* Every call has its own operation id, or they are retries of one.
MCOwnIds == [o \in Ops |-> CASE o = o1 -> "op1" [] o = o2 -> "op2" [] OTHER -> "op3"]
MCOneId == [o \in Ops |-> "op1"]
=============================================================================
