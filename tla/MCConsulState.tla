----------------------------- MODULE MCConsulState -----------------------------
(* Small instances of ConsulState: clients as model values. *)
EXTENDS ConsulState
================================================================================
