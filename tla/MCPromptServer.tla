--------------------------- MODULE MCPromptServer ---------------------------
(* Values for model checking PromptServer. *)
EXTENDS PromptServer, TLC

CONSTANTS c1, c2, c3, c4, a1, a2

\* Three connections from one address, one from another.
MCAddrOf  == (c1 :> a1) @@ (c2 :> a1) @@ (c3 :> a1) @@ (c4 :> a2)
MCPortOf  == (c1 :> 1) @@ (c2 :> 2) @@ (c3 :> 3) @@ (c4 :> 1)

\* Two connections from one address, one from another.
LiveAddrOf == (c1 :> a1) @@ (c2 :> a1) @@ (c4 :> a2)
LivePortOf == (c1 :> 1) @@ (c2 :> 2) @@ (c4 :> 1)

ServersAndThreads == Permutations(Servs) \cup Permutations(Threads)
=============================================================================
