------------------------- MODULE MCRuntimeLifecycle -------------------------
(* Two runtimes, each in a process of its own, over one session.            *)
EXTENDS RuntimeLifecycle, TLC

CONSTANTS r1, r2, p1, p2

MCProcOf == (r1 :> p1) @@ (r2 :> p2)
=============================================================================
