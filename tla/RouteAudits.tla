---------------------------- MODULE RouteAudits ----------------------------
(***************************************************************************)
(* What vibescan says of one extracted route, and of a list of them:       *)
(* runMiddlewareAudit, runWebhookAudit (engine/) and the route inventory.  *)
(* Paths are sequences of segments; a handler is what its text shows, and  *)
(* NoText when it is given by name only.                                   *)
(***************************************************************************)
EXTENDS Integers, FiniteSets, Sequences

CONSTANTS
    AuthNames, CsrfNames, LimitNames,   \* what the lists of names match
    AdminSegs, SensitiveSegs,           \* and the path patterns
    HookSegs, UploadSegs,
    ParamSegs         \* segments that begin with a colon, or are in braces

STATE_CHANGING == {"POST", "PUT", "PATCH", "DELETE"}
OBJECT_FETCH == {"GET", "HEAD"}

\* names a text refers to, whether it reads the body, and hints at verifying
NoText == [names |-> {}, body |-> FALSE, verified |-> FALSE]

Sequence(s) == {s[i] : i \in DOMAIN s}
Matches(names, list) == names \cap list # {}
IsAdminSensitivePath(p) == Sequence(p) \cap AdminSegs # {}
IsSensitivePath(p) == Sequence(p) \cap SensitiveSegs # {}
IsWebhookLikePath(p) == Sequence(p) \cap HookSegs # {}
IsObjectScoped(p) == Sequence(p) \cap ParamSegs # {}

\* rules for a route of a method, a full path, an own path, names and a text
Rules(method, full, own, names, text) ==
    LET hasAuth == Matches(names, AuthNames)
        stateChanging == method \in STATE_CHANGING
        adminish == IsAdminSensitivePath(full)
        sensitive == IsSensitivePath(full)
    IN {rule \in {"AUTH-003", "AUTH-004", "AUTH-005", "MW-001", "MW-002", "WEBHOOK-001"} :
          CASE rule = "AUTH-005" -> method \in OBJECT_FETCH /\ IsObjectScoped(own) /\ ~hasAuth
            [] rule = "AUTH-004" -> stateChanging /\ ~hasAuth /\ adminish
            [] rule = "AUTH-003" -> stateChanging /\ ~hasAuth /\ ~adminish /\ sensitive
            [] rule = "MW-001" -> stateChanging /\ ~Matches(names, CsrfNames)
            [] rule = "MW-002" -> stateChanging /\ sensitive /\ ~Matches(names, LimitNames)
            [] rule = "WEBHOOK-001" -> /\ method \in {"POST", "PUT"} /\ IsWebhookLikePath(full)
                                       /\ text.body /\ ~text.verified}

-----------------------------------------------------------------------------
(* The inventory: an entry for each route *)

riskTags(full) ==
    {t \in {"admin", "webhook", "upload", "auth-sensitive"} :
        CASE t = "admin" -> IsAdminSensitivePath(full)
          [] t = "webhook" -> IsWebhookLikePath(full)
          [] t = "upload" -> Sequence(full) \cap UploadSegs # {}
          [] t = "auth-sensitive" -> IsSensitivePath(full) /\ ~IsAdminSensitivePath(full)}

InventoryEntry(r) ==
    [file |-> r.file, fullPath |-> r.fullPath, line |-> r.line, tags |-> riskTags(r.fullPath),
     sensitivePath |-> IsSensitivePath(r.fullPath), adminPath |-> IsAdminSensitivePath(r.fullPath),
     objectScoped |-> IsObjectScoped(r.path),
     hasAuthMiddleware |-> Matches(r.middlewares, AuthNames)]
=============================================================================
