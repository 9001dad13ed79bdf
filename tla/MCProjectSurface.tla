-------------------------- MODULE MCProjectSurface --------------------------
(***************************************************************************)
(* Small instance of ProjectSurface: an Express file, a route module of a  *)
(* Next.js app and one of an app of a package of the same repository.      *)
(***************************************************************************)
EXTENDS ProjectSurface

CONSTANTS server, page, mono, client, store, axios, scoped, db, sub, own, fs, dot,
          home, packages, admin, login, group, id, colonId, hook

imported(form, spec, name, inner) ==
    [kind |-> "import", form |-> form, spec |-> spec, name |-> name, inner |-> inner]
text(names, body) == [NoText EXCEPT !.names = names, !.body = body]
route(method, path, names, shown, refs) ==
    [kind |-> "route", method |-> method, path |-> path, middlewares |-> {}, names |-> names,
     text |-> shown, refs |-> refs]
exported(form, name, shown, refs) ==
    [kind |-> "export", form |-> form, name |-> name, middlewares |-> {}, names |-> {},
     text |-> shown, refs |-> refs]
called(names, severity, labelled) ==
    [kind |-> "call", rule |-> "rule", names |-> names, refs |-> names, severity |-> severity, labelled |-> labelled]
setup(name, wildcard) == [kind |-> "setup", name |-> name, wildcard |-> wildcard]

MCFiles == <<server, page, mono>>
MCStmts == [f \in {server, page, mono} |->
    CASE f = server -> {
            imported("require", <<axios>>, client, FALSE),
            imported("destructured", <<scoped, db, sub>>, client, TRUE),
            imported("member", <<scoped, db>>, "", FALSE),
            route("POST", <<login>>, {}, text({client}, FALSE), {client}),
            route("PUT", <<login>>, {client}, NoText, {client}),
            called({client}, "error", TRUE), setup("helmet", FALSE), setup("cors", TRUE)}
      [] f = page -> {
            imported("named", <<scoped, db>>, store, FALSE),
            imported("default", <<own, sub>>, client, FALSE),
            imported("named", <<dot, db>>, client, FALSE),
            exported("declared", "GET", text({store, client}, TRUE), {store, client}),
            exported("listed", "POST", NoText, {store}),
            called({store}, "critical", FALSE)}
      [] f = mono -> {
            imported("namespace", <<fs>>, store, FALSE),
            imported("default", <<axios, sub>>, store, FALSE),
            exported("declared", "POST", text({store}, TRUE), {store})}]

MCPlace == [f \in {server, page, mono} |->
    CASE f = server -> << >>
      [] f = page -> <<SrcDir, AppDir, group, admin, id>>
      [] f = mono -> <<packages, AppDir, hook>>]
MCAppDepth == [f \in {server, page, mono} |-> IF f = server THEN 0 ELSE 2]
MCPathNames == [f \in {server, page, mono} |-> IF f = mono THEN {store} ELSE {}]
MCRoots == {<<home>>, <<home, AppDir>>}
MCDynamic == [d \in {id} |-> colonId]

MCManifests == {
    [deps |-> [k \in Sequence(DependencyKinds) |->
        IF k = "dependency" THEN {<<axios>>} ELSE {<<axios>>, <<scoped, db>>}], workspaces |-> {<<own>>}]}
MCBuiltins == {<<fs>>}
=============================================================================
