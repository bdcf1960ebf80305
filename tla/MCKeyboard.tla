------------------------------ MODULE MCKeyboard ------------------------------
(***************************************************************************)
(* Instances of Keyboard for TLC: the kernel with its keyboard.            *)
(***************************************************************************)
EXTENDS Keyboard

=============================================================================
