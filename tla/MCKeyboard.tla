------------------------------ MODULE MCKeyboard ------------------------------
(* Keyboard with a ring of two keys and two reading tasks, for TLC.          *)
EXTENDS Keyboard
===============================================================================
