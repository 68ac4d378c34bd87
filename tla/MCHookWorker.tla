---------------------------- MODULE MCHookWorker ----------------------------
(* TLC instance of HookWorker: two attaches, games that may stop running.  *)
EXTENDS HookWorker
NoSession == {}
=============================================================================
