---------------------------- MODULE MCMcpSession ----------------------------
(***************************************************************************)
(* Two callers, three sessions, and servers that call their tools by the   *)
(* default names, by other names, or do not name one at all.               *)
(***************************************************************************)
EXTENDS McpSession

PurposesVal == {"run", "generate"}
NamesVal == {"splunk_run_query", "saia_generate_spl", "run_spl"}
ExactVal == [p \in PurposesVal |-> IF p = "run" THEN "splunk_run_query"
                                   ELSE "saia_generate_spl"]
AliasedVal == [p \in PurposesVal |-> IF p = "run" THEN {"splunk_run_query", "run_spl"}
                                     ELSE {"saia_generate_spl"}]
ListsVal == {<<"saia_generate_spl", "splunk_run_query">>, <<"run_spl">>}
=============================================================================
