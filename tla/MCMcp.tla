------------------------------- MODULE MCMcp -------------------------------
(* The lines a client of each era sends, for the run of Mcp.               *)
EXTENDS Mcp

Plain == [kind |-> "request", method |-> "tools/call", meta |-> "none", good |-> TRUE,
          call |-> [tool |-> "drop", args |-> "all"], client |-> "c1", capable |-> TRUE,
          consent |-> FALSE, state |-> "none", blob |-> 0, answer |-> "none", number |-> 0]
Modern == [Plain EXCEPT !.meta = "valid"]
Return(answer) == [Modern EXCEPT !.state = "issued", !.answer = answer]

MCLines ==
    {Plain, Modern, Return("accept"), Return("reject"), Return("empty"),
     [Return("accept") EXCEPT !.client = "c2"],
     [Return("accept") EXCEPT !.call.args = "some"],
     [Return("accept") EXCEPT !.state = "forged"],
     [Modern EXCEPT !.answer = "accept"],
     [Modern EXCEPT !.call.tool = "list"],
     [Modern EXCEPT !.call.tool = "purge"],
     [Modern EXCEPT !.consent = TRUE],
     [Modern EXCEPT !.method = "tools/list"],
     [Plain EXCEPT !.method = "initialize"],
     [Plain EXCEPT !.kind = "garbage"],
     [Plain EXCEPT !.kind = "response", !.state = "issued", !.answer = "accept"],
     [Plain EXCEPT !.kind = "response", !.state = "issued", !.answer = "error"]}
============================================================================
