---------------------------- MODULE MCToolCalls ----------------------------
\* The instances of ToolCalls that TLC explores.
EXTENDS ToolCalls

\* A question and two equal calls the gate asks about, the second in a later message.
AskBatch == <<1, 1, 2>>
AskKind == <<"question", "risky", "risky">>
AskSig == <<1, 2, 2>>

\* Three reads at once, then a call that did not parse and one that acts.
ReadBatch == <<1, 1, 1, 1, 1>>
ReadKind == <<"read", "read", "read", "malformed", "act">>
ReadSig == <<1, 2, 3, 4, 5>>

=============================================================================
