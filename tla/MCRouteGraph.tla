---------------------------- MODULE MCRouteGraph ----------------------------
(***************************************************************************)
(* Small instance of RouteGraph: an app and two routers, mounted in the    *)
(* app or in each other, before or after what is put on them.              *)
(***************************************************************************)
EXTENDS RouteGraph

CONSTANTS app, api, adm, auth, csrf, x, admin, login, id, key

lit(p) == [kind |-> "lit", path |-> p]
ident(v) == [kind |-> "id", name |-> v]
expr == [kind |-> "expr"]
fn(body, verified) == [kind |-> "fn", text |-> [NoText EXCEPT !.body = body, !.verified = verified]]
call(on, op, args) == [on |-> on, op |-> op, args |-> args]

MCCalls == {
    call(app, "use", <<lit(<<admin>>), ident(api)>>),
    call(app, "use", <<ident(api)>>),
    call(api, "use", <<lit(<<x>>), ident(adm)>>),
    call(app, "use", <<lit(<<admin>>), ident(adm)>>),
    call(app, "use", <<ident(auth), ident(adm)>>),
    call(app, "use", <<lit(<<x>>), expr, ident(api)>>),
    call(api, "use", <<ident(auth)>>),
    call(app, "use", <<lit(<<x>>), ident(auth)>>),
    call(app, "POST", <<lit(<<admin, x>>), fn(TRUE, TRUE)>>),
    call(api, "POST", <<lit(<<login>>), fn(FALSE, TRUE), ident(csrf), fn(TRUE, FALSE)>>),
    call(api, "GET", <<lit(<<id>>), ident(auth), expr>>),
    call(adm, "POST", <<lit(<<x>>), ident(auth), fn(TRUE, FALSE)>>),
    call(adm, "POST", <<lit(<<x>>), expr>>),
    call(app, "POST", <<lit(<<login>>), ident(auth)>>),
    call(adm, "GET", <<lit(<<key>>), expr>>)}

op(m, p, s) == [method |-> m, path |-> p, security |-> s]
MCSpecs == {
    [operations |-> <<op("GET", <<admin, id>>, "absent"), op("POST", <<admin, x>>, "schemes"),
                      op("POST", <<admin, x>>, "empty")>>, security |-> "schemes"],
    [operations |-> <<op("POST", <<x>>, "absent"), op("GET", <<x, id>>, "empty"),
                      op("POST", <<login>>, "schemes")>>, security |-> "schemes"]}
=============================================================================
