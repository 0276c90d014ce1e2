---------------------------- MODULE MCAgentStream ----------------------------
(* Instance of AgentStream: plain answers longer than the queue, and answers *)
(* with a tool call after text and with one in two chunks around text.       *)
EXTENDS AgentStream

MCScripts == {<<>>, <<"text", "text", "text", "text">>,
              <<"text", "text", "call">>, <<"call", "text", "call">>}
==============================================================================
