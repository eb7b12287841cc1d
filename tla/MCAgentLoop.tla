----------------------------- MODULE MCAgentLoop -----------------------------
(***************************************************************************)
(* AgentLoop, and the conversion of its history, on a small instance: one  *)
(* signed-in user and one visitor, the inference tools of registry.py.     *)
(***************************************************************************)
EXTENDS AnthropicMessages

CONSTANTS u1, none

MCUsers == {u1}
MCInferenceTools == {"classify_issue", "extract_entities", "summarize_issue"}
==============================================================================
