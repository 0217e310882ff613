---------------------------- MODULE MCAgentEngine -----------------------------
(* AgentEngine for TLC: the coordinator calls a local or an MCP tool, asks    *)
(* for a new plan, finishes with and without an answer, and leaves keys of    *)
(* its reply out or empty.                                                    *)
EXTENDS AgentEngine

R(t, i, n, a) == [tool |-> t, input |-> i, name |-> n, arguments |-> a]

MCReplies ==
    {R("search_rag", "plain", Absent, Absent), R("mcp:fetch", "plain", Absent, Absent),
     R("replan", "plain", Absent, Absent), R("finish", "final", Absent, Absent),
     R("finish", Absent, Absent, Absent), R("finish", "", Absent, Absent),
     R("finish", "", Absent, "final"), R(Absent, Absent, "search_rag", "plain"),
     R("", "", "mcp:fetch", "plain"), R("", "plain", "", Absent)}
==============================================================================
