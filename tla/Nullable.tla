------------------------------ MODULE Nullable ------------------------------
(* What stands for nothing: NULL in a column, no holder of a lock, no      *)
(* entry in a dictionary.                                                  *)
CONSTANT None
=============================================================================
