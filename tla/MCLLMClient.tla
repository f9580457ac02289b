----------------------------- MODULE MCLLMClient -----------------------------
(* LLMClient with a target that sends text, reasoning and two tool calls. *)
EXTENDS LLMClient, TLC

MCDeltas ==
    {[kind |-> "text"], [kind |-> "reasoning"],
     [kind |-> "call", idx |-> 0, id |-> TRUE, name |-> TRUE],
     [kind |-> "call", idx |-> 0, id |-> FALSE, name |-> FALSE],
     [kind |-> "call", idx |-> 1, id |-> FALSE, name |-> TRUE]}
=============================================================================
