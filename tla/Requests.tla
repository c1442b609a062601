----------------------------- MODULE Requests -----------------------------
(* What the modules of handlers have in common: the pool of requests.      *)
CONSTANT Request   \* requests in progress at the same time
===========================================================================
