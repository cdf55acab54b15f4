------------------------------ MODULE MCRequests ------------------------------
(***************************************************************************)
(* A request's way through the host in one run: the connections and the    *)
(* engine's mutex (Server), the JSON of a request and of its frames (Json), *)
(* the merges that make a prompt's words tokens (BpeMerge); and the program *)
(* that answers without a server (Chat).  They hand values to each other   *)
(* and share no state: a behaviour is one of them, and the others are idle *)
(* in it.                                                                  *)
(***************************************************************************)
EXTENDS MCServer, MCBpeMerge, MCJson, Chat

VARIABLE part   \* the one that runs

ServerIdle == Init

RequestInit ==
  \/ part = "server" /\ Init /\ BpeIdle /\ JsIdle /\ ChIdle
  \/ part = "merge" /\ ServerIdle /\ BpeInit /\ JsIdle /\ ChIdle
  \/ part = "json" /\ ServerIdle /\ BpeIdle /\ JsInit /\ ChIdle
  \/ part = "chat" /\ ServerIdle /\ BpeIdle /\ JsIdle /\ ChInit

Ended ==
  \/ part = "server" /\ \A c \in Conns : pc[c] \in {"closed", "panicked"}
  \/ part = "merge" /\ at = "done"
  \/ part = "json" /\ jsAt = "done"
  \/ part = "chat" /\ chAt = "ended"

RequestNext ==
  /\ \/ part = "server" /\ Next /\ UNCHANGED <<bpeVars, jsVars, chVars>>
     \/ part = "merge" /\ BpeNext /\ UNCHANGED <<vars, jsVars, chVars>>
     \/ part = "json" /\ JsNext /\ UNCHANGED <<vars, bpeVars, chVars>>
     \/ part = "chat" /\ ChNext /\ UNCHANGED <<vars, bpeVars, jsVars>>
     \/ Ended /\ UNCHANGED <<vars, bpeVars, jsVars, chVars>>
  /\ UNCHANGED part

RequestSpec ==
  /\ RequestInit /\ [][RequestNext]_<<part, vars, bpeVars, jsVars, chVars>>
  /\ Fairness /\ BpeFair /\ ChFair
=============================================================================
