--------------------------- MODULE MCBuildBinary ---------------------------
(***************************************************************************)
(* Instantiates BuildBinary for TLC: two architectures (enough for one to  *)
(* be handled before the other fails), three invocations, and requests     *)
(* that reach every step of build_binary.                                  *)
(***************************************************************************)
EXTENDS BuildBinary

CONSTANTS arm, x86

MCArchSeq == <<arm, x86>>
MCRequests == {{"magiskinit"}, {"magisk"}, {"resetprop"}, {"busybox", "su"}, {"su"}}
MCCleanRequests == {{"native"}, {"java"}}
=============================================================================
