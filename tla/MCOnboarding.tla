--------------------------- MODULE MCOnboarding ---------------------------
(* Small instances of Onboarding for TLC.                                  *)
EXTENDS Onboarding
===========================================================================
