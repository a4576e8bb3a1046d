----------------------------- MODULE MCReminders -----------------------------
(***************************************************************************)
(* An instance of Reminders for TLC with the weekly cadence: weeks of two  *)
(* days, and days of four units (one of three, in spring).                 *)
(***************************************************************************)
EXTENDS Reminders

AllIntents == Polls \X (0 .. MaxStalls)

FiringTimes == <<-9, -5, -1, 2, 6, 10, 14>>

=============================================================================
