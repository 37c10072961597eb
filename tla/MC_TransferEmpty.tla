---- MODULE MC_TransferEmpty ----
(* Model-checking instance of FileTransfer; the constants are set in the cfg. *)
EXTENDS FileTransfer
====
