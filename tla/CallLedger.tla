------------------------------ MODULE CallLedger ------------------------------
(***************************************************************************)
(* What the durable record of a conversation promises of each tool call    *)
(* the model makes: it is opened once and closed for good; it begins at    *)
(* most once, never while the owner is being asked about it, and once it   *)
(* has begun the owner is never asked about it again, so that no crash,    *)
(* Stop or second Allow can make it take effect twice.                     *)
(***************************************************************************)
EXTENDS Naturals

CONSTANT Calls

VARIABLES
    status,     \* of each call: absent, open, asked or closed
    begun,      \* the calls that were let through to their tool
    effects     \* how often each call took effect

Init ==
    /\ status = [c \in Calls |-> "absent"]
    /\ begun = {}
    /\ effects = [c \in Calls |-> 0]

\* One step may move several calls (a batch is opened, or reconciled, as one).
Moves(c) ==
    \/ status'[c] = status[c]
    \/ status[c] = "absent" /\ status'[c] = "open"
    \/ status[c] = "open" /\ status'[c] = "asked" /\ c \notin begun
    \/ status[c] = "open" /\ status'[c] = "closed"
    \/ status[c] = "asked" /\ status'[c] \in {"open", "closed"}

Record ==
    /\ status' \in [Calls -> {"absent", "open", "asked", "closed"}]
    /\ \A c \in Calls : Moves(c)
    /\ UNCHANGED <<begun, effects>>

Begin(c) ==
    /\ status[c] = "open" /\ c \notin begun
    /\ begun' = begun \cup {c}
    /\ UNCHANGED <<status, effects>>

\* The tool's work: it may outlive the wait for it.
Effect(c) ==
    /\ c \in begun /\ effects[c] = 0
    /\ effects' = [effects EXCEPT ![c] = 1]
    /\ UNCHANGED <<status, begun>>

Next == Record \/ \E c \in Calls : Begin(c) \/ Effect(c)

Spec == Init /\ [][Next]_<<status, begun, effects>>

=============================================================================
