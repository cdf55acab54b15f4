--------------------------- MODULE DeviceSequence ---------------------------
(***************************************************************************)
(* The target model on the GPU: GDev of src/gdev.rs with the command        *)
(* recording of src/vk.rs.  A call appends one token (forward_token), or a  *)
(* whole prompt, window by window and layer by layer                        *)
(* (prefill_batch_windowed), to caches that live in device memory.          *)
(*                                                                          *)
(* The host records commands, submits them and waits for the fence; the     *)
(* device executes them in order.  Every host step and every command may    *)
(* fail.  Vectors are abstracted to what they were computed from            *)
(* (ModelShape).                                                            *)
(***************************************************************************)
EXTENDS ModelShape

CONSTANTS
  NCtx,      \* BONSAI_CTX, the rows of every cache
  Widths,    \* BONSAI_BATCH
  MaxSets    \* sets of the descriptor pool: one for every command of a recording

ASSUME DeviceAssumption ==
  /\ NCtx \in Nat \ {0}
  /\ Widths \subseteq Nat
  /\ MaxSets \in Nat

VARIABLES
  mode,                \* BONSAI_KV
  fed,                 \* history: tokens the caches hold since they were zeroed
  pc,                  \* the host: "idle" or its next step
  call,                \* the call under way
  base,                \* position of column 0
  il,                  \* the layer
  open, cmds,          \* recording: rec_open, the command buffer
  done,                \* commands the device has executed
  act,                 \* activations, by column (cur, or the tile xb)
  cache, conv, state,  \* device caches
  hidden               \* what the last call that succeeded returned

host == <<mode, fed, call, base>>
recording == <<open, cmds>>
device == <<act, cache, conv, state>>
vars == <<mode, fed, pc, call, base, il, open, cmds, done, act, cache,
          conv, state, hidden>>

Least(a, b) == IF a <= b THEN a ELSE b
Positions == 0..(NCtx - 1)

\* The cache buffers and which of them a mode has.
Stores == {"k", "v", "kq", "vq", "k16", "v16"}
Used ==
  CASE mode = "f32" -> {"k", "v"}
    [] mode = "f16" -> {"k16", "v16"}
    [] mode = "planark" -> {"kq", "v"}
    [] OTHER -> {"kq", "vq"}
Keys == CASE mode = "f32" -> "k" [] mode = "f16" -> "k16" [] OTHER -> "kq"

Row(v, p) == [in |-> v, pos |-> p]
\* Zeros or uninitialized memory: no token's row.
NoRow == Row(<<Bad>>, -1)

\* Columns of this window.
Width == IF call.batch THEN Least(call.width, Len(call.toks) - base) ELSE 1

-----------------------------------------------------------------------------
\* The commands of one layer, column after column.  One stands for the dispatches
\* up to the change of a cache or of the column, the FFN with the last.
StorePos(c) == base + c

Command(op, l, c) == [op |-> op, layer |-> l, pos |-> StorePos(c), col |-> c]
Commands(l) ==
  IF l = NLayers THEN <<[op |-> "norm"]>>
  ELSE IF IsFullAttention(l)
  THEN [i \in 1..(2 * Width) |->
          Command(IF i % 2 = 1 THEN "store" ELSE "attend", l, (i - 1) \div 2)]
  ELSE [i \in 1..Width |-> Command("recur", l, i - 1)]

\* Attention of column c at position p reads rows 0 to p.
Attended(l, p, c) ==
  LET rows == cache[l][Keys] IN
  IF /\ rows[p].in = act[c]
     /\ \A q \in 0..p : rows[q].pos = q /\ \A st \in Used : cache[l][st][q] = rows[q]
  THEN Mix(l, [j \in 1..(p + 1) |-> rows[j - 1].in]) ELSE <<Bad>>

Store(d) ==
  /\ d.op = "store"
  /\ cache' = [cache EXCEPT ![d.layer] = [st \in Stores |->
       IF st \in Used THEN [@[st] EXCEPT ![d.pos] = Row(act[d.col], d.pos)] ELSE @[st]]]
  /\ UNCHANGED <<act, conv, state>>

Attend(d) ==
  /\ d.op = "attend"
  /\ act' = [act EXCEPT ![d.col] = Attended(d.layer, d.pos, d.col)]
  /\ UNCHANGED <<cache, conv, state>>

\* conv1d_silu sees the cached inputs and the current one and shifts the cache;
\* gdn_step folds what it returns into the state.
Shifted(l, v) == Append(Tail(conv[l]), v)

Recur(d) ==
  /\ d.op = "recur"
  /\ conv' = [conv EXCEPT ![d.layer] = Shifted(d.layer, act[d.col])]
  /\ state' = [state EXCEPT ![d.layer] = Append(@, Append(conv[d.layer], act[d.col]))]
  /\ act' = [act EXCEPT ![d.col] = Folded(d.layer, state'[d.layer])]
  /\ UNCHANGED cache

\* The output norm of a right vector is right.
Norm(d) == d.op = "norm" /\ UNCHANGED device

-----------------------------------------------------------------------------
NoColumns == [c \in Positions |-> <<Bad>>]
NoCall == [batch |-> FALSE, toks |-> <<>>, width |-> 1]

Init ==
  /\ mode \in KvModes
  /\ fed = <<>>
  /\ pc = "idle" /\ il = 0 /\ base = 0
  /\ call = NoCall
  /\ open = FALSE /\ cmds = <<>> /\ done = 0
  /\ act = NoColumns
  /\ hidden = <<>>
  /\ cache = [l \in AttnLayers |-> [st \in Stores |-> [p \in Positions |-> NoRow]]]
  /\ conv = [l \in SsmLayers |-> ZeroConv]
  /\ state = [l \in SsmLayers |-> <<>>]

Start(batch, toks, width, pos) ==
  /\ pc = "idle"
  /\ call' = [batch |-> batch, toks |-> toks, width |-> width]
  /\ base' = pos /\ il' = 0
  /\ fed' = SubSeq(fed, 1, pos)
  /\ pc' = IF pos = 0 THEN "zero" ELSE "upload"
  /\ hidden' = <<>>
  /\ UNCHANGED <<mode, recording, done, device>>

\* forward_token: the caller goes on behind what the caches hold, or begins again
\* at 0.  (A refused call changes nothing.)
ForwardToken(t) ==
  \E pos \in {0, Len(fed)} : pos < NCtx /\ Start(FALSE, <<t>>, 1, pos)

Clamped_Above(width, n) == Least(width, n)
Clamped(width, n) == Least(IF width < 1 THEN 1 ELSE width, n)

\* prefill_batch_windowed: f32 caches only, a width clamped to the prompt.
Prefill(prompt, width) ==
  /\ mode = "f32" /\ Len(prompt) \in 1..NCtx
  /\ Start(TRUE, prompt, Clamped(width, Len(prompt)), 0)

\* A new sequence zeroes the f32 caches and the recurrent state, layer by layer,
\* and leaves quantized and f16 rows as they are.
Zeroed == {"k", "v"}
ZeroState_Kept(l) == state[l]
ZeroState(l) == <<>>

ZeroLayer ==
  /\ pc = "zero"
  /\ IF il \in AttnLayers
     THEN /\ cache' = [cache EXCEPT ![il] = [st \in Stores |->
               IF st \in Zeroed THEN [p \in Positions |-> NoRow] ELSE @[st]]]
          /\ UNCHANGED <<conv, state>>
     ELSE /\ conv' = [conv EXCEPT ![il] = ZeroConv]
          /\ state' = [state EXCEPT ![il] = ZeroState(il)]
          /\ UNCHANGED cache
  /\ IF il = NLayers - 1 THEN pc' = "upload" /\ UNCHANGED il ELSE il' = il + 1 /\ UNCHANGED pc
  /\ UNCHANGED <<host, recording, done, act, hidden>>

\* The embeddings of the window; columns behind it keep what an earlier one left.
Upload ==
  /\ pc = "upload"
  /\ act' = [c \in Positions |->
               IF c < Width THEN <<call.toks[base - Len(fed) + c + 1]>> ELSE act[c]]
  /\ il' = 0
  /\ pc' = "begin"
  /\ UNCHANGED <<host, recording, done, cache, conv, state, hidden>>

\* rec_begin drops whatever an earlier recording left.
Begun_Appends == cmds
Begun == <<>>

RecBegin ==
  /\ pc = "begin"
  /\ open' = TRUE /\ cmds' = Begun
  /\ pc' = "record"
  /\ UNCHANGED <<host, il, done, device, hidden>>

Room(n) == Len(cmds) + n <= MaxSets

\* A token is one recording, a batch one for every layer and one for the norm.
Record ==
  /\ pc = "record" /\ open /\ Room(Len(Commands(il)))
  /\ cmds' = cmds \o Commands(il)
  /\ IF call.batch \/ il = NLayers THEN pc' = "submit" /\ UNCHANGED il
                                   ELSE il' = il + 1 /\ UNCHANGED pc
  /\ UNCHANGED <<host, open, done, device, hidden>>

Submit ==
  /\ pc = "submit"
  /\ pc' = "wait"
  /\ UNCHANGED <<host, il, recording, done, device, hidden>>

Execute ==
  /\ pc = "wait" /\ done < Len(cmds)
  /\ done' = done + 1
  /\ LET d == cmds[done + 1] IN Store(d) \/ Attend(d) \/ Recur(d) \/ Norm(d)
  /\ UNCHANGED <<host, pc, il, recording, hidden>>

Fence ==
  /\ pc = "wait" /\ done = Len(cmds)
  /\ open' = FALSE /\ cmds' = <<>> /\ done' = 0
  /\ IF il = NLayers THEN pc' = "read" /\ UNCHANGED il ELSE pc' = "begin" /\ il' = il + 1
  /\ UNCHANGED <<host, device, hidden>>

\* The normed columns come back; the next window, or the end of the call.
NextBase == base + Width

\* The end of a call: its locals are gone, its tile is freed.
Leave ==
  /\ pc' = "idle"
  /\ call' = NoCall /\ base' = 0 /\ il' = 0 /\ done' = 0
  /\ act' = NoColumns
  /\ UNCHANGED <<cache, conv, state>>

Read ==
  /\ pc = "read"
  /\ IF call.batch /\ base + Width < Len(call.toks)
     THEN pc' = "upload" /\ base' = NextBase /\ UNCHANGED <<fed, call, il, done, device, hidden>>
     ELSE /\ hidden' = [i \in 1..Width |-> act[i - 1]]
          /\ fed' = fed \o call.toks
          /\ Leave
  /\ UNCHANGED <<mode, recording>>

\* An error ends the call where it is: commands that were not submitted stay in
\* the recording, commands that were executed have changed the caches, and
\* rec_open stays set.  A layer may be recorded in part.  The caller gives the
\* sequence up (the programs in src/bin end; another may begin again at 0).
Fail ==
  /\ pc # "idle"
  /\ \/ UNCHANGED cmds
     \/ pc = "begin" /\ cmds' = <<>>
     \/ /\ pc = "record"
        /\ \E n \in 1..Len(Commands(il)) :
             Len(cmds) + n <= MaxSets /\ cmds' = cmds \o SubSeq(Commands(il), 1, n)
  /\ fed' = <<>>
  /\ Leave
  /\ UNCHANGED <<mode, open, hidden>>

Run == ZeroLayer \/ Upload \/ RecBegin \/ Record \/ Submit \/ Execute \/ Fence \/ Read \/ Fail

Prompts == UNION {[1..n -> Token] : n \in 1..NCtx}

Next ==
  \/ \E t \in Token : ForwardToken(t)
  \/ \E s \in Prompts, w \in Widths : Prefill(s, w)
  \/ Run

\* The host thread runs and the device goes on with what was submitted.
Spec == Init /\ [][Next]_vars /\ WF_vars(Run)
-----------------------------------------------------------------------------
Digests == UNION {[1..n -> Token \cup {Bad}] : n \in 0..NCtx}
Windows == [1..(NPrev + 1) -> Digests]

\* Type invariant.
TypeOK ==
  /\ mode \in KvModes /\ open \in BOOLEAN
  /\ fed \in Seq(Token) /\ Len(fed) <= NCtx
  /\ pc \in {"idle", "zero", "upload", "begin", "record", "submit", "wait", "read"}
  /\ base \in 0..NCtx /\ il \in 0..NLayers
  /\ Len(cmds) <= MaxSets /\ done \in 0..Len(cmds)
  /\ act \in [Positions -> Digests]
  /\ cache \in [AttnLayers -> [Stores -> [Positions ->
                  [in : Digests, pos : Positions \cup {-1}]]]]
  /\ conv \in [SsmLayers -> [1..NPrev -> Digests]]
  /\ \A l \in SsmLayers : \A j \in 1..Len(state[l]) : state[l][j] \in Windows

\* gdev.rs:1330, "left exactly as the sequential token loop leaves them": after a
\* call, by token or by batch, in windows of any width, every cache holds what
\* one token after the other would have left, whatever call failed before.
CachesAsTokenLoop ==
  pc = "idle" /\ fed # <<>> =>
    /\ \A l \in AttnLayers, st \in Used, p \in 0..(Len(fed) - 1) :
         cache[l][st][p] = Row(InputAt(l, fed, p + 1), p)
    /\ \A l \in SsmLayers :
         LET ins == [j \in 1..Len(fed) |-> InputAt(l, fed, j)] IN
         /\ state[l] = [j \in 1..Len(fed) |-> WindowAt(ins, j)]
         /\ conv[l] = Tail(WindowAt(ins, Len(fed)))

\* gdev.rs:1356: a call returns the model's answer to the last tokens of the
\* sequence, a batch those of its last window.
HiddenRight ==
  pc = "idle" /\ fed # <<>> =>
    /\ Len(hidden) \in 1..Len(fed)
    /\ \A i \in 1..Len(hidden) : hidden[i] = SubSeq(fed, 1, Len(fed) - Len(hidden) + i)

\* Between calls the device cannot be told from a loop over the tokens: same caches,
\* same answers (gdev.rs:1330 and 1356).
EqualsTokenLoop == CachesAsTokenLoop /\ HiddenRight

\* A token's recording goes through the layers: behind the last command of a
\* layer comes the first one of the next.
Follower(d) ==
  IF d.op = "store" THEN [d EXCEPT !.op = "attend"] ELSE Commands(d.layer + 1)[1]
WholeToken ==
  /\ cmds # <<>> /\ cmds[1] = Commands(0)[1] /\ cmds[Len(cmds)] = Commands(NLayers)[1]
  /\ \A i \in 1..(Len(cmds) - 1) : cmds[i].op # "norm" /\ cmds[i + 1] = Follower(cmds[i])

\* What the device is given is one whole recording of this call, every command in
\* its place, and nothing of a call that failed while it was recording.
SubmittedWhole ==
  pc \in {"submit", "wait"} => IF call.batch THEN cmds = Commands(il) ELSE WholeToken

\* Within the limits of its buffers, a call submits one whole recording of its own.
RecordsWhole == TypeOK /\ SubmittedWhole

\* Every call returns: no window is done twice, no fence is waited for in vain.
CallsReturn == pc # "idle" ~> pc = "idle"
=============================================================================
