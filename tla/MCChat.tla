------------------------------- MODULE MCChat -------------------------------
(* A page that lists one saved conversation, and a new thread for every    *)
(* request.                                                                *)
EXTENDS ChatSession

CONSTANTS old, t1, t2
=============================================================================
