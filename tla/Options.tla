------------------------------ MODULE Options ------------------------------
(* `Option::None`, for every module that has optional state. *)
CONSTANT None
=============================================================================
