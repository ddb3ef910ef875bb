----------------------------- MODULE MCReminders -----------------------------
EXTENDS Reminders

(* Due dates from today on or in the past: a PATCH may set any.  Midnight  *)
(* is 0, the run reads the clock at 1 or 2, the evening is 3.              *)
MCDueDays == {-3, 0, 3}
=============================================================================
