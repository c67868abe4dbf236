--------------------------- MODULE MCFastifyUpload ---------------------------
(* Two requests, the first with two files of one field, the second with a    *)
(* file of the same original name as one of them and one of another field.   *)
EXTENDS FastifyUpload

CONSTANTS r1, r2, a, b, c

MCRequests == {r1, r2}
MCFiles    == {a, b, c}
MCRequest  == [f \in MCFiles |-> IF f \in {a, b} THEN r1 ELSE r2]
MCField    == [f \in MCFiles |-> IF f = b THEN "cover" ELSE "avatar"]
MCName     == [f \in MCFiles |-> IF f = b THEN "b.png" ELSE "a.png"]

Default ==
  [handler |-> "any", accepts |-> {"avatar"}, maxCount |-> 1, storage |-> "memory",
   dest |-> FALSE, removeAfter |-> FALSE, customName |-> FALSE]

MCOptions ==
  {Default,
   [Default EXCEPT !.handler = "single", !.storage = "stream", !.dest = TRUE],
   [Default EXCEPT !.handler = "multiple", !.storage = "disk", !.removeAfter = TRUE, !.accepts = {"avatar", "cover"}],
   [Default EXCEPT !.handler = "fields", !.storage = "disk", !.accepts = {"avatar", "cover"}],
   [Default EXCEPT !.storage = "disk", !.removeAfter = TRUE, !.customName = TRUE],
   [Default EXCEPT !.storage = "stream"]}
=============================================================================
