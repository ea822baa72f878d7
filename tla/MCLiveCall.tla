----------------------------- MODULE MCLiveCall -----------------------------
(* Instances of LiveCall for TLC. *)
EXTENDS LiveCall

\* An old relay and a good microphone, as shipped; the newest relay with the
\* turn hold on a leaking speaker; and the two between.
FourSetups ==
    {[knob |-> FALSE, clock |-> FALSE, echo |-> FALSE, prior |-> FALSE],
     [knob |-> FALSE, clock |-> TRUE, echo |-> TRUE, prior |-> FALSE],
     [knob |-> TRUE, clock |-> FALSE, echo |-> TRUE, prior |-> TRUE],
     [knob |-> TRUE, clock |-> TRUE, echo |-> FALSE, prior |-> FALSE]}

EveryKind == {"mic", "busy", "drop", "outage", "dead", "route", "mute",
              "foreign", "voice", "stop", "confirm", "upload", "exit", "lost"}
=============================================================================
