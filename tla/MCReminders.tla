----------------------------- MODULE MCReminders -----------------------------
(* The instance of Reminders: one of each kind of schedule and end condition *)
EXTENDS Reminders

Cron(p) == [kind |-> "cron", at |-> p]
Once(t) == [kind |-> "once", at |-> t]
OnEvent == [kind |-> "on_event", at |-> 0]
End(k, n) == [kind |-> k, n |-> n]

MCTemplates ==
  {[sched |-> Cron(1), watch |-> FALSE, delay |-> 0, skip |-> FALSE, end |-> End("max_count", 1)],
   [sched |-> Cron(1), watch |-> FALSE, delay |-> 0, skip |-> TRUE, end |-> End("until", 3)],
   [sched |-> OnEvent, watch |-> TRUE, delay |-> 1, skip |-> TRUE, end |-> End("never", 0)]}

\* Edits to a one-shot schedule, the third kind.
MCEdits == {Once(3)}
=============================================================================
