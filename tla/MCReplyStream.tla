--------------------------- MODULE MCReplyStream ---------------------------
(* Short tags stand for the long ones: what matters is that each has a      *)
(* first byte in common with the others, and a last byte that completes it. *)
EXTENDS ReplyStream

MCThinkOpen == <<"<", "t", ">">>
MCThinkClose == <<"<", "/", "t", ">">>
MCToolOpen == <<"<", "c", ">">>
MCToolClose == <<"<", "/", "c", ">">>
MCBlank == {"n", " "}

\* The opening tags come as one token, as the vocabulary has them, the closing
\* tags are cut into two; a call's body is one token, a newline another.  One token
\* closes the reasoning and goes on with more than the tool filter holds back: a
\* callback writes no, one or two frames.
TwoFrames == MCThinkClose \o <<"n", "f", "f", "f">>
ReplyTokens ==
  {MCToolOpen, MCThinkOpen, <<"<", "/", "t">>, <<"<", "/", "c">>, <<">">>, <<"n">>, <<"f">>, TwoFrames}
\* A character cut into two tokens.
Characters == {<<"x">>, <<"m">>, <<"w">>, <<"m", "w">>}

Setup(keep, inThink, chat) == [keep |-> keep, inThink |-> inThink, chat |-> chat]
\* Reasoning split off (prompt open or not), kept, and the legacy endpoint.
SomeSetups == {Setup(FALSE, FALSE, TRUE), Setup(FALSE, TRUE, TRUE), Setup(TRUE, FALSE, TRUE),
               Setup(FALSE, TRUE, FALSE)}
ChatSetups == {Setup(FALSE, FALSE, TRUE), Setup(FALSE, TRUE, TRUE)}
=============================================================================
