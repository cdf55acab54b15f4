----------------------------- MODULE MCGenerate -----------------------------
(* Small instances of Generate for TLC: one ordinary token and one stop     *)
(* token are enough for a draft to be right or wrong at every position.     *)
EXTENDS Generate

CONSTANTS A, E, P, G

MCTokens == {A, E}
MCStop == {E}

Switches(d, n, w) ==
  [drafter : {d}, ref : BOOLEAN, anchor : BOOLEAN, extra : {0, 1}, nDraft : n, whole : {w}]

\* The default switches and the plain engine.
Default(ms) == {m \in ms : m.ref /\ ~m.anchor /\ m.extra = 0}
MCWhole == Default(Switches(TRUE, {2}, TRUE) \union Switches(FALSE, {2}, TRUE))
\* The same with a sidecar that breaks, in both block orders.
MCBreaking == MCWhole \union {m \in Switches(TRUE, {2}, FALSE) : ~m.anchor /\ m.extra = 0}
\* Every combination of the switches besides, with a usable n_draft and an unusable one.
MCModes == Switches(TRUE, {0, 2}, TRUE) \union MCBreaking

\* The requests made: in every mode one with a short prompt; on an engine in one of
\* the modes MCBreaking also prompts up to and past the draft context, and a second
\* request after one that ended as it may.
Long == {NCtx - 1, NCtx + 1}
Asked(n, max) ==
  IF n = 0
  THEN {r \in Requests : r.prompt <= 2 \/ (r.prompt \in Long /\ r.max = 2 /\ mode \in MCBreaking)}
  ELSE {r \in Requests : mode \in MCBreaking /\ max <= 2 /\ r.max = 2 /\ r.prompt \in {1} \union Long}

\* Before the first request plain stands for nothing; a reply of two tokens leaves
\* its last element alone.
MCInit == Init /\ \A i \in 1..Horizon : plain[i] = A
MCNext ==
  \/ Refuse
  \/ \E r \in Asked(req.n, req.max) : Start(r) /\ (r.max <= 2 => plain'[Horizon] = A)
  \/ Run
MCSpec == MCInit /\ [][MCNext]_vars /\ WF_vars(Run)
=============================================================================
