--------------------------- MODULE MCAsyncEngine ----------------------------
(* Three requests, the second of two tokens, and a queue depth of one: the *)
(* backlog reaches its bound of two, and could exceed it.  The scheduler may*)
(* hold all three sequences at once.                                       *)
EXTENDS AsyncEngine

MCRequests == 1 .. 3
MCMaxTokens == <<1, 2, 1>>
=============================================================================
