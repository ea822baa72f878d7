---------------------------- MODULE MCDictation ----------------------------
(* Instances of Dictation for TLC. *)
EXTENDS Dictation

\* Clips alone; the relay without the leg clock; and the one with it.
Knobs ==
    {[stream |-> FALSE, clock |-> FALSE, settle |-> FALSE, autoSend |-> TRUE],
     [stream |-> TRUE, clock |-> FALSE, settle |-> FALSE, autoSend |-> TRUE],
     [stream |-> TRUE, clock |-> TRUE, settle |-> TRUE, autoSend |-> FALSE]}

With(knobs, recs, said, events) ==
    {[stream |-> k.stream, clock |-> k.clock, settle |-> k.settle, autoSend |-> k.autoSend,
      recs |-> recs, said |-> said, events |-> events] : k \in knobs}

\* Two faults or moves over one recording of two phrases; one over two
\* recordings of one phrase each, and two where both are clips.
TwoSizes ==
    With(Knobs, 1, 2, 2) \cup With(Knobs, 2, 1, 1)
         \cup With({k \in Knobs : ~k.stream}, 2, 1, 2)
=============================================================================
