------------------------------ MODULE MCServer ------------------------------
(* Requests of every path; two of them ask for the same completion in its   *)
(* two forms.                                                               *)
EXTENDS Server

Ask(path, stream, sound, expect) ==
  [path |-> path, stream |-> stream, sound |-> sound, expect |-> expect]

Completions == {Ask("chat", TRUE, TRUE, FALSE), Ask("text", FALSE, TRUE, FALSE),
                Ask("text", TRUE, FALSE, FALSE)}
EveryPath == Completions \cup
  {Ask("chat", FALSE, FALSE, FALSE), Ask("health", FALSE, FALSE, FALSE),
   Ask("models", FALSE, FALSE, FALSE), Ask("chat", FALSE, TRUE, TRUE),
   Ask("options", FALSE, FALSE, FALSE), Ask("other", FALSE, FALSE, TRUE)}
=============================================================================
