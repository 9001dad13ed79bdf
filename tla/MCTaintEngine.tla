---------------------------- MODULE MCTaintEngine ----------------------------
(***************************************************************************)
(* Small instance of TaintEngine: two variables, two sources, a command    *)
(* sink, a merge, axios, and three wrappers: one with a log and an SQL     *)
(* query in it, one of axios, and one of which no declaration is known.    *)
(***************************************************************************)
EXTENDS TaintEngine

CONSTANTS x, y, params, body

assign(v, e) == [op |-> "assign", to |-> {v}, adds |-> FALSE, expr |-> e]
call(f, args) == [op |-> "call", callee |-> f, args |-> args]
arg(e) == [expr |-> e, url |-> << >>, holes |-> FALSE]
config(e) == [expr |-> << >>, url |-> e, holes |-> FALSE]

MCSinksIn == [f \in Callees |->
    CASE f = "exec" -> <<[kind |-> "command", params |-> <<1>>]>>
      [] f = "merge" -> <<[kind |-> "proto", params |-> <<2>>]>>
      [] f = "find" -> <<[kind |-> "log", params |-> << >>], [kind |-> "sql", params |-> <<2, 1>>],
                         [kind |-> "path", params |-> <<1>>]>>
      [] f = "axios" -> <<[kind |-> "axiosConfig", params |-> <<1>>]>>
      [] f = "get" -> <<[kind |-> "axiosConfig", params |-> <<2>>]>>
      [] f = "run" -> <<[kind |-> "command", params |-> <<1>>]>>]

MCStatements == {
    assign(x, <<params>>), assign(x, <<y>>), assign(x, << >>),
    assign(y, <<x>>), assign(y, <<y, body>>),
    [op |-> "assign", to |-> {x, y}, adds |-> FALSE, expr |-> <<body>>],
    [op |-> "assign", to |-> {y}, adds |-> TRUE, expr |-> <<x>>],
    call("exec", <<arg(<<x>>)>>),
    call("merge", <<arg(<< >>), arg(<<y>>)>>),
    call("merge", <<arg(<<y>>), arg(<< >>)>>),
    call("find", <<arg(<<x>>), arg(<<x, y>>)>>),
    call("find", <<[arg(<< >>) EXCEPT !.holes = TRUE], arg(<<y>>)>>),
    call("axios", <<config(<<x>>)>>),
    call("axios", <<arg(<<y>>)>>),
    call("get", <<config(<<x>>), arg(<<y>>)>>),
    call("run", <<arg(<<x>>)>>)}
=============================================================================
