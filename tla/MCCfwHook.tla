------------------------------- MODULE MCCfwHook -------------------------------
(***************************************************************************)
(* CfwHook for TLC: a thread that runs the callback and one that renders,  *)
(* in either role, on the double-buffered framebuffer of the R1.  What     *)
(* more threads could do is proved (CfwHookProofs).                        *)
(***************************************************************************)
EXTENDS CfwHook

================================================================================
