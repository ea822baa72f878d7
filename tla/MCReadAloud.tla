----------------------------- MODULE MCReadAloud -----------------------------
(* Instances of ReadAloud for TLC. *)
EXTENDS ReadAloud

\* The chat with read-along, two replies of two chunks; a call with one reply on
\* a moving route, and one whose replies supersede each other on it; whole clips,
\* in a call.
Chat == [replies |-> 2, chunked |-> TRUE, along |-> TRUE, call |-> FALSE,
         kinds |-> {"tap", "seek", "stop", "fail", "forget", "rewrite", "clear",
                    "prime", "refuse", "media", "focus"}]
Call == [replies |-> 1, chunked |-> TRUE, along |-> TRUE, call |-> TRUE,
         kinds |-> {"tap", "seek", "stop", "fail", "speech", "route", "hangup"}]
Clips == [replies |-> 2, chunked |-> FALSE, along |-> FALSE, call |-> TRUE,
          kinds |-> {"tap", "stop", "fail", "speech", "route", "forget",
                     "clear"}]
Tapping == [Chat EXCEPT !.along = FALSE]

LongCall == [Call EXCEPT !.replies = 3, !.kinds = {"route", "tap"}]

EveryWorld == {Chat, Call, LongCall, Clips, Tapping}
=============================================================================
