------------------------------ MODULE MCUserInput -----------------------------
(* A small buffer, filled up to its half (MCUserInput.cfg) or to its end   *)
(* (UserInputFull.cfg).                                                    *)
EXTENDS UserInput
=============================================================================
