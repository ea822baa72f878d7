----------------------------- MODULE MCChatView -----------------------------
EXTENDS ChatView

\* The owner waits for the boot, and for a thread-less send to be given its conversation.
World(made, stored, at, sends, most, kinds, echo) ==
    [made |-> made, stored |-> stored, at |-> at, sends |-> sends, stirs |-> most,
     kinds |-> kinds, waits |-> {"boot", "mint"}, echo |-> echo]

Doors == {"open", "agent", "new", "unmade", "call", "delete"}
Faults1 == {"lost", "busy", "refused", "unsent", "cut", "unheard", "call"}
AllKinds == Doors \cup Faults1 \cup {"return", "reconnect", "stop", "unstopped", "foreign"}

EveryWorld == {
    World(1, 0, 1, 2, 1, Faults1, FALSE),              \* two sends and a fault
    World(1, 0, 1, 2, 1, {"stop"}, FALSE),             \* two sends and a Stop
    World(1, 0, 1, 1, 2, {"stop", "unstopped"}, FALSE),
    World(1, 1, 0, 1, 1, AllKinds, FALSE),             \* a boot, a send, one of anything
    World(0, 0, 0, 2, 0, {}, TRUE),                    \* a conversation made by its first send
    World(1, 0, 0, 1, 2, Doors \cup {"refused"}, TRUE),
    World(2, 0, 1, 1, 3, Doors \cup {"refused"}, FALSE)} \* doors against each other

\* A send that may not reach the server.
Unsent == {World(1, 0, 1, 1, 1, {"unsent"}, FALSE)}

\* A page that boots into a conversation another device is talking in.
Watched == {World(1, 1, 0, 0, 1, {"foreign"}, FALSE)}
=============================================================================
