----------------------------- MODULE MCHookText -----------------------------
(* TLC instance of HookText: one text thread, and one menu that is left     *)
(* open while the game prints.                                              *)
EXTENDS HookText
CONSTANT s1

Spec == Init /\ [][Next]_vars
=============================================================================
