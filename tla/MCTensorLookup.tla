--------------------------- MODULE MCTensorLookup ---------------------------
(* A recurrent layer and one of full attention, every width its own number;  *)
(* the sound file, and files with one tensor missing, of another type, or a  *)
(* row or a column short.                                                    *)
EXTENDS TensorLookup, SequencesExt

LkConfig == [layers |-> 2, interval |-> 2, embd |-> 2, ff |-> 3, heads |-> 2, kv |-> 1, hd |-> 3,
             kernel |-> 2, state |-> 1, groups |-> 1, rank |-> 2, inner |-> 2]
Entry(name, ty, dims, of) == [name |-> name, ty |-> ty, dims |-> dims, of |-> of]
LayerNames(il) ==
  <<"attn_norm", "post_attention_norm", "ffn_gate", "ffn_up", "ffn_down">>
  \o (IF il = 1 THEN <<"attn_q", "attn_q_norm", "attn_k", "attn_k_norm", "attn_v", "attn_output">>
      ELSE <<"attn_qkv", "attn_gate", "ssm_a", "ssm_alpha", "ssm_beta", "ssm_conv1d", "ssm_dt",
             "ssm_norm", "ssm_out">>)
LayerTensors(il) ==
  [k \in DOMAIN LayerNames(il) |->
     LET e == CHOOSE e \in ExpectedTensors(LkConfig, il) : e.name[2] = LayerNames(il)[k] IN
     Entry(e.name, e.ty, e.dims, <<"layer", ToString(il), e.name[2]>>)]
LkSound ==
  <<Entry(<<-1, "token_embd">>, "pq2", <<2, 3>>, <<"embeddings">>)>>
  \o LayerTensors(0) \o LayerTensors(1)
  \o <<Entry(<<-1, "output_norm">>, "f32", <<2>>, <<"norm">>),
       Entry(<<-1, "output">>, "pq2", <<2, 3>>, <<"head">>)>>

Probed == {"ssm_conv1d", "attn_k", "ffn_down"}
Shorter(dims, k) == [dims EXCEPT ![k] = @ - 1]
Alterations ==
  {<<"none", 0>>, <<"metadata", 0>>} \cup ({"lost"} \X DOMAIN LkSound)
  \cup ({"type", "rows", "columns"} \X {i \in DOMAIN LkSound : LkSound[i].name[2] \in Probed})
Altered(how, i) ==
  CASE how = "lost" -> RemoveAt(LkSound, i)
    [] how = "type" -> [LkSound EXCEPT ![i].ty = IF @ = "pq2" THEN "f32" ELSE "pq2"]
    [] how = "rows" -> [LkSound EXCEPT ![i].dims = Shorter(@, Len(@))]
    [] how = "columns" -> [LkSound EXCEPT ![i].dims = Shorter(@, 1)]
    [] OTHER -> LkSound
LkModels ==
  [alt \in Alterations |->
     [sound |-> alt[1] # "metadata", cfg |-> LkConfig, tensors |-> Altered(alt[1], alt[2])]]

\* A sidecar that has the model's embeddings, byte for byte, and a head of its own.
DraftConfig(snr) ==
  [layers |-> 1, embd |-> 2, ff |-> 4, heads |-> 3, kv |-> 1, hd |-> 2, taps |-> 2, vocab |-> 3,
   markov |-> 4, freqs |-> 4, snr |-> snr]
LkOriginal(snr) ==
  LET own(name, ty, dims) == Entry(name, ty, dims, <<"draft", name[2]>>) IN
  [cfg |-> DraftConfig(snr), tensors |->
    <<own(<<-1, "fc">>, "q4_1", <<4, 2>>), own(<<-1, "hidden_norm">>, "f32", <<2>>),
      own(<<0, "attn_norm">>, "f32", <<2>>), own(<<0, "attn_q_norm">>, "f32", <<2>>),
      own(<<0, "attn_k_norm">>, "f32", <<2>>), own(<<0, "ffn_norm">>, "f32", <<2>>),
      own(<<0, "attn_q">>, "bf16", <<2, 6>>), own(<<0, "attn_k">>, "bf16", <<2, 2>>),
      Entry(<<-1, "token_embd">>, "pq2", <<2, 3>>, <<"embeddings">>),
      own(<<0, "attn_v">>, "q4_1", <<2, 2>>), own(<<0, "attn_output">>, "bf16", <<6, 2>>),
      own(<<0, "ffn_gate">>, "bf16", <<2, 4>>), own(<<0, "ffn_up">>, "bf16", <<2, 4>>),
      own(<<0, "ffn_down">>, "q4_1", <<4, 2>>), own(<<-1, "output_norm">>, "f32", <<2>>),
      own(<<-1, "output">>, "pq2", <<2, 3>>), own(<<-1, "confidence">>, "f32", <<6>>),
      own(<<-1, "confidence.bias">>, "f32", <<1>>), own(<<-1, "markov_a">>, "bf16", <<4, 3>>),
      own(<<-1, "markov_b">>, "q4_1", <<4, 3>>)>>
    \o (IF ~snr THEN <<>>
        ELSE <<own(<<-1, "fc1">>, "bf16", <<4, 2>>), own(<<-1, "fc1.bias">>, "f32", <<2>>),
               own(<<-1, "fc2">>, "bf16", <<2, 2>>), own(<<-1, "fc2.bias">>, "f32", <<2>>)>>)]
LkOriginals == {LkOriginal(TRUE)}
LkReferences == {<<"none", 0>>}
=============================================================================
