---------------------------- MODULE MCAgentGraph ----------------------------
(* Instances of AgentGraph for TLC.                                        *)
EXTENDS AgentGraph

CONSTANTS
    k1,          \* a chunk of the policies
    stray,       \* an id of no chunk
    garbled,     \* an id that the citation pattern does not match
    a1, a2       \* rows of pending_actions

(* One call of each tool, two writes, and a refusal beside a write.        *)
MCToolCalls == {<<"read">>, <<"search_policies">>, <<"write">>, <<"decline_request">>,
                <<"write", "write">>, <<"decline_request", "write">>}

=============================================================================
