---------------------------- MODULE MCThreadPool ----------------------------
(***************************************************************************)
(* Instances of ThreadPool for TLC: two producers, two workers and two      *)
(* destroyers over a list of two jobs.                                      *)
(***************************************************************************)
EXTENDS ThreadPool
=============================================================================
