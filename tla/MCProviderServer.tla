-------------------------- MODULE MCProviderServer --------------------------
(* Two schema calls, which may share a computation or follow one another,  *)
(* a StopProvider and one other RPC.                                       *)
EXTENDS ProviderServer

CONSTANTS s1, s2, stop, other

MCKindOf ==
  [c \in Call |-> CASE c \in {s1, s2} -> "schema" [] c = stop -> "stop" [] OTHER -> "other"]

=============================================================================
