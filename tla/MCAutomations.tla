---------------------------- MODULE MCAutomations ----------------------------
(* Module Automations on small instances. *)
EXTENDS Automations

\* Saved as it was but for its prompt, made rolling, given a new schedule.
SomeDrafts ==
    {[mode |-> "fresh", enabled |-> TRUE, reschedule |-> FALSE],
     [mode |-> "rolling", enabled |-> TRUE, reschedule |-> FALSE],
     [mode |-> "fresh", enabled |-> TRUE, reschedule |-> TRUE]}

=============================================================================
