---------------------------- MODULE MCLLMClient ----------------------------
(***************************************************************************)
(* Two hosted clients that share a namespace, one in another namespace,    *)
(* and a local one.                                                        *)
(***************************************************************************)
EXTENDS LLMClient

MCModelOf == [c \in Clients |-> IF c = "local" THEN "qwen" ELSE "nemotron"]

MCNamespaceOf == [c \in Clients |-> IF c = "other" THEN "p2-full" ELSE "p2-fork"]
=============================================================================
