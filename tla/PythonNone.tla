----------------------------- MODULE PythonNone -----------------------------
(***************************************************************************)
(* The value Python's None has in every module that needs one.             *)
(***************************************************************************)
CONSTANT None
=============================================================================
