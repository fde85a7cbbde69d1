---------------------------- MODULE MCToolCalls ----------------------------
(* Two MCP servers, and two of the tools: one of the second server and one *)
(* of the skills, which are asked after both servers.                      *)
EXTENDS ToolCalls

Offered == [p \in Providers |-> CASE p = "b" -> {"mcp.b.ping"}
                                  [] p = "skills" -> {"skill.shell.run"}
                                  [] OTHER -> {}]

Configured == <<"a", "b">>
=============================================================================
