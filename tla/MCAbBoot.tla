------------------------------ MODULE MCAbBoot ------------------------------
(* Instances of AbBoot for TLC: one sound and one unsound build, enough for *)
(* a slot to be switched to and fail, or to be switched to and hold.        *)
EXTENDS AbBoot

CONSTANTS sound, unsound

MCBuilds == {sound, unsound}
MCSound  == {sound}
=============================================================================
