---------------------------- MODULE MCAgentStream -----------------------------
(* AgentStream for TLC: the read loop announces the request; the consumer     *)
(* relays two steps and the result.                                           *)
EXTENDS AgentStream, TLC

CONSTANTS ws, consumer

MCScripts ==
    {ws :> <<"agent.start">> @@ consumer :> <<"agent.step", "agent.step", "agent.done">>}
==============================================================================
