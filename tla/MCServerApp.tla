----------------------------- MODULE MCServerApp -----------------------------
(* ServerApp on two requests. *)
EXTENDS ServerApp
=============================================================================
