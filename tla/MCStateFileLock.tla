-------------------------- MODULE MCStateFileLock --------------------------
(* Small instances of StateFileLock: processes as model values.            *)
EXTENDS StateFileLock
=============================================================================
