------------------------------ MODULE SlotTrial ------------------------------
(***************************************************************************)
(* What the A/B scheme promises, without slots' contents, commands or the  *)
(* keys of an environment block: a machine has a slot it trusts and, at    *)
(* times, a slot on trial with a number of attempts left.  Only a running  *)
(* system starts or ends a trial or changes what is trusted; the firmware  *)
(* can only spend attempts, spends at least one on every boot of the slot  *)
(* on trial, and with none left boots the trusted slot.                    *)
(***************************************************************************)
EXTENDS Integers

CONSTANTS Slots, None, Tries

VARIABLES
  on,      \* the slot that is booting or running, or None
  trusted, \* the slot to fall back to, or None before the first success
  trial,   \* the slot on trial, or None
  left,    \* attempts left to it
  once     \* has a one-shot boot been asked for

vars == <<on, trusted, trial, left, once>>

Init == on = None /\ trusted = None /\ trial = None /\ left = 0 /\ once = FALSE

\* Attempts that are gone end the trial.
Left(n) == left' = n /\ trial' = IF n = 0 THEN None ELSE trial

Boot ==
  /\ on = None /\ ~once
  /\ on' \in Slots
  /\ \/ left > 0 /\ on' = trial /\ \E n \in 0..(left - 1) : Left(n)
     \/ left = 0 /\ trusted \in {None, on'} /\ Left(0)
  /\ UNCHANGED <<trusted, once>>

OneShot ==
  /\ on = None /\ once
  /\ on' \in Slots /\ once' = FALSE
  /\ UNCHANGED <<trusted, trial, left>>

\* Power lost before anything was booted: attempts or the one-shot are gone.
Lose ==
  /\ on = None
  /\ once' = FALSE
  /\ \E n \in 0..left : Left(n)
  /\ UNCHANGED <<on, trusted>>

Stop ==
  /\ on # None /\ on' = None
  /\ UNCHANGED <<trusted, trial, left, once>>

\* The decisions of a running system.
Arm    == left' = Tries /\ trial' \in Slots /\ UNCHANGED <<trusted, once>>
Aim    == left > 0 /\ left' = left /\ trial' \in Slots /\ UNCHANGED <<trusted, once>>
Disarm == Left(0) /\ UNCHANGED <<trusted, once>>
Trust  == trusted' \in Slots /\ UNCHANGED <<trial, left, once>>
Ask    == once' = TRUE /\ UNCHANGED <<trusted, trial, left>>

Decide == on # None /\ on' = on /\ (Arm \/ Aim \/ Disarm \/ Trust \/ Ask)

Next == Boot \/ OneShot \/ Lose \/ Stop \/ Decide

Spec == Init /\ [][Next]_vars
=============================================================================
