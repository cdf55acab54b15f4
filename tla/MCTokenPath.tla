------------------------------ MODULE MCTokenPath ------------------------------
(* From a text to the text of a reply in one run: the words of the prompt      *)
(* (Tokenizer), a token through the layers of the target model (Decoder), the  *)
(* choice of the next one (Sampler) and what the client is sent of it          *)
(* (ReplyStream).  They hand values to each other and share no state: a        *)
(* behaviour is one of them, and the others are idle in it.                    *)
EXTENDS MCDecoder, MCReplyStream, MCTokenizer, MCSampler

VARIABLE part   \* the one that runs

DecoderIdle == Init /\ mode = (CHOOSE m \in KvModes : TRUE) /\ tok = a
ReplyIdle == RsInit /\ setup = CHOOSE s \in Setups : TRUE

PathInit ==
  \/ part = "words" /\ DecoderIdle /\ ReplyIdle /\ TkInit /\ SmIdle
  \/ part = "forward" /\ Init /\ ReplyIdle /\ TkIdle /\ SmIdle
  \/ part = "sample" /\ DecoderIdle /\ ReplyIdle /\ TkIdle /\ SmInit
  \/ part = "reply" /\ DecoderIdle /\ RsInit /\ TkIdle /\ SmIdle

\* A text, a choice and a reply end; the model takes another token, or a reset.
Ended ==
  \/ part = "words" /\ tkAt = "done"
  \/ part = "sample" /\ smAt = "done"
  \/ part = "reply" /\ rsAt \in {"done", "error", "panicked"}

\* A reply with the token that writes two frames has one token less, a bound.
PathNext ==
  /\ \/ part = "words" /\ TkNext /\ UNCHANGED <<vars, rsVars, smVars>>
     \/ part = "forward" /\ Next /\ UNCHANGED <<rsVars, tkVars, smVars>>
     \/ part = "sample" /\ SmNext /\ UNCHANGED <<vars, rsVars, tkVars>>
     \/ /\ part = "reply" /\ RsNext /\ UNCHANGED <<vars, tkVars, smVars>>
        /\ Has(raw, TwoFrames) => taken' < MaxReply /\ raw' # raw \o TwoFrames
        /\ raw' = raw \o TwoFrames => taken' < MaxReply
     \/ Ended /\ UNCHANGED <<vars, rsVars, tkVars, smVars>>
  /\ UNCHANGED part

PathSpec == PathInit /\ [][PathNext]_<<part, vars, rsVars, tkVars, smVars>>
=============================================================================
