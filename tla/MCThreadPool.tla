----------------------------- MODULE MCThreadPool -----------------------------
(* TLC instance of ThreadPool: three workers and three jobs. *)
EXTENDS ThreadPool
==============================================================================
