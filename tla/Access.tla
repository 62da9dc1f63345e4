------------------------------- MODULE Access -------------------------------
(***************************************************************************)
(* Who may do what: the permission that internal/middleware/rbac.go        *)
(* derives from a route, the routes of internal/server/router.go, the      *)
(* roles that internal/repository/db.go seeds at every start, the checks   *)
(* the handlers add, and the authorizer of the AI assistant               *)
(* (internal/ai/authz.go).                                                 *)
(*                                                                         *)
(* A path is the sequence of its segments after /api/v1, with ":" for a    *)
(* parameter; a permission is a pair <<resource, action>>.                 *)
(***************************************************************************)
EXTENDS Naturals, Sequences, FiniteSets

CONSTANT Edits  \* the permission lists an operator may give the custom role

AdminRoles == {"super-admin", "admin"}
Roles == AdminRoles \cup {"editor", "viewer", "custom"}

VARIABLES
  permissions, \* Roles -> the permission set of the role's row
  answer       \* the last request: who asked, what for, whether it was let through

vars == <<permissions, answer>>

-----------------------------------------------------------------------------
(* The routes behind authentication and RBAC.                              *)

Under(prefix, routes) == {<<r[1], prefix \o r[2]>> : r \in routes}

ClusterRoutes ==
  Under(<<"clusters">>,
    {<<"GET", <<>>>>, <<"POST", <<>>>>, <<"GET", <<":">>>>, <<"DELETE", <<":">>>>,
     <<"POST", <<":", "batch-restart">>>>, <<"GET", <<":", "quota-summary">>>>,
     <<"GET", <<":", "overview">>>>, <<"GET", <<":", "search">>>>,
     <<"GET", <<":", "crds">>>>, <<"POST", <<":", "crds", "refresh">>>>})
  \cup Under(<<"clusters", ":", "resources">>,
    {<<"GET", <<":">>>>, <<"POST", <<":">>>>, <<"POST", <<":", "dry-run">>>>,
     <<"PUT", <<":", ":", "dry-run">>>>, <<"POST", <<"batch-delete">>>>}
    \cup {<<m, <<":", ":">>>> : m \in {"GET", "PUT", "DELETE", "PATCH"}})
  \cup Under(<<"clusters", ":", "namespaces", ":">>,
    {<<"PUT", <<":", ":", "scale">>>>, <<"POST", <<":", ":", "restart">>>>,
     <<"GET", <<"deployments", ":", "history">>>>,
     <<"POST", <<"deployments", ":", "rollback">>>>, <<"GET", <<"topology">>>>})

AdminRoutes ==
  {<<"DELETE", <<"users", ":", "public-key-credentials", ":">>>>, <<"GET", <<"audit-logs">>>>}
  \cup Under(<<"directory">>, {<<"GET", <<"config">>>>, <<"PUT", <<"config">>>>,
                               <<"POST", <<"test">>>>, <<"POST", <<"preview">>>>})

UserRoutes == Under(<<"users">>,
  {<<"GET", <<>>>>, <<"POST", <<>>>>, <<"PUT", <<":", "reset-password">>>>}
  \cup {<<m, <<":">>>> : m \in {"GET", "PUT", "DELETE"}})

FavoriteRoutes == Under(<<"favorites">>,
  {<<"GET", <<>>>>, <<"POST", <<>>>>, <<"DELETE", <<":">>>>, <<"POST", <<"toggle">>>>,
   <<"PUT", <<"reorder">>>>, <<"GET", <<"check">>>>})

SettingRoutes ==
  Under(<<"plugins">>, {<<"GET", <<>>>>, <<"GET", <<":">>>>, <<"PUT", <<":">>>>,
    <<"GET", <<":", "health">>>>, <<"GET", <<"prometheus", "query">>>>,
    <<"GET", <<"grafana", "dashboards">>>>, <<"GET", <<"argocd", "applications">>>>})
  \cup Under(<<"templates">>, {<<"GET", <<>>>>, <<"GET", <<":">>>>, <<"POST", <<>>>>,
    <<"DELETE", <<":">>>>})
  \cup Under(<<"api-keys">>, {<<"GET", <<>>>>, <<"POST", <<>>>>, <<"DELETE", <<":">>>>})
  \cup Under(<<"webhooks">>, {<<"GET", <<>>>>, <<"POST", <<>>>>, <<"PUT", <<":">>>>,
    <<"DELETE", <<":">>>>, <<"POST", <<":", "test">>>>})
  \cup Under(<<"terminal-sessions">>, {<<"GET", <<>>>>, <<"GET", <<":">>>>,
    <<"GET", <<":", "play">>>>})
  \cup {<<"GET", <<"registry-tags">>>>, <<"POST", <<"compare">>>>,
        <<"GET", <<"ws", "watch">>>>}

Protected == ClusterRoutes \cup AdminRoutes \cup UserRoutes \cup FavoriteRoutes \cup SettingRoutes

(* Routes without RBAC whose handler asks for a permission of its own.     *)
PodPath == <<"clusters", ":", "namespaces", ":", "pods", ":">>
HandlerPermission ==
  [r \in {<<"GET", PodPath \o <<"exec">>>>, <<"GET", PodPath \o <<"logs">>>>} \cup
         ({"GET", "HEAD"} \X {<<"clusters", ":", "namespaces", ":", "http", kind, ":">> :
                                 kind \in {"pods", "services"}}) |->
     IF r[2][Len(r[2])] = "exec" THEN <<"pods", "exec">>
     ELSE IF r[2][Len(r[2])] = "logs" THEN <<"pods", "list">> ELSE <<r[2][6], "get">>]

-----------------------------------------------------------------------------
(* RBACMiddleware.                                                         *)

(* The last segment that is no parameter; no route of the table lacks one. *)
ExtractResource(path) ==
  path[CHOOSE i \in DOMAIN path :
         path[i] # ":" /\ \A j \in DOMAIN path : j > i => path[j] = ":"]

\* a slip: PATCH is not listed
PatchForgotten == [POST |-> "create", PUT |-> "update", DELETE |-> "delete"]
ActionOf == [POST |-> "create", PUT |-> "update", PATCH |-> "update", DELETE |-> "delete"]
ExtractAction(method, path) ==
  IF path[Len(path)] \in {"exec", "logs"} THEN path[Len(path)]
  ELSE IF method = "GET" THEN IF path[Len(path)] = ":" THEN "get" ELSE "list"
  ELSE IF method \in DOMAIN ActionOf THEN ActionOf[method] ELSE "get"

HasPermission(granted, resource, action) ==
  \E p \in granted : p[1] \in {"*", resource} /\ p[2] \in {"*", action}

RoleHas(role, resource, action) ==
  role \in AdminRoles \/ HasPermission(permissions[role], resource, action)

(* RBAC, then what the handler itself demands.                             *)
MayCall(role, route) ==
  IF route \in DOMAIN HandlerPermission
  THEN RoleHas(role, HandlerPermission[route][1], HandlerPermission[route][2])
  ELSE /\ RoleHas(role, ExtractResource(route[2]), ExtractAction(route[1], route[2]))
       /\ route \in AdminRoutes => role \in AdminRoles

-----------------------------------------------------------------------------
(* The assistant's tools.                                                  *)

Kinds == {"pods", "deployments", "secrets", "clusterroles", "nodes"}
AdminOnlyKinds == {"clusterroles", "nodes"}
MutationTools == {"create_resource", "update_resource", "patch_resource", "delete_resource"}
Tools == MutationTools \cup
         {"get_resource", "list_resources", "get_pod_logs", "get_cluster_overview", "query_prometheus"}

\* a slip: every tool asks for a read permission
ReadSuffices(tool, kind) == <<kind, IF tool = "list_resources" THEN "list" ELSE "get">>
RequiredPermission(tool, kind) ==
  CASE tool = "get_resource" -> <<kind, "get">>
    [] tool = "list_resources" -> <<kind, "list">>
    [] tool = "get_pod_logs" -> <<"pods", "list">>
    [] tool = "get_cluster_overview" -> <<"overview", "list">>
    [] tool = "query_prometheus" -> <<"prometheus", "query">>
    [] tool = "create_resource" -> <<kind, "create">>
    [] tool \in {"update_resource", "patch_resource"} -> <<kind, "update">>
    [] tool = "delete_resource" -> <<kind, "delete">>

(* highRiskMutation; whether a manifest asks for privileges of the node is *)
(* an input of the call.                                                   *)
HighRisk(tool, kind, privileged) ==
  /\ tool \in MutationTools
  /\ kind \in AdminOnlyKinds \/ (tool # "delete_resource" /\ privileged)

MayUse(role, tool, kind, privileged) ==
  \/ role \in AdminRoles
  \/ /\ tool # "query_prometheus" /\ ~HighRisk(tool, kind, privileged)
     /\ LET needed == RequiredPermission(tool, kind)
        IN \E resource \in {needed[1], "resources"} :
             HasPermission(permissions[role], resource, needed[2])

-----------------------------------------------------------------------------
(* initSystemRoles: a missing role is created, an existing one gets these  *)
(* permissions again, at every start.                                      *)
ReadResources == {"clusters", "resources"} \X {"get", "list"}
FavoriteGrants == {"favorites"} \X {"get", "list", "create", "delete"}
ViewerGrants ==
  ReadResources \cup FavoriteGrants
  \cup ({"search", "topology", "quota-summary", "history", "pods", "overview", "registry-tags"} \X {"list"})
  \cup {<<"compare", "create">>, <<"package-releases", "read">>}
EditorGrants ==
  ViewerGrants \cup ({"resources"} \X {"create", "update", "delete"})
  \cup ({"rollback", "restart", "batch-delete", "batch-restart"} \X {"create"})
  \cup {<<"scale", "update">>, <<"pods", "exec">>}
  \cup ({"package-releases"} \X {"install", "upgrade", "rollback", "remove"})
Seeded ==
  [role \in Roles |->
     CASE role \in AdminRoles -> {<<"*", "*">>}
       [] role = "editor" -> EditorGrants
       [] role = "viewer" -> ViewerGrants
       [] role = "custom" -> ReadResources]

NoAnswer == [role |-> "none"]

TypeOK ==
  /\ permissions \in [Roles -> SUBSET (STRING \X STRING)]
  /\ answer = NoAnswer \/ (answer.role \in Roles /\ answer.ok \in BOOLEAN)

Init == permissions = Seeded /\ answer = NoAnswer

Restart == permissions' = Seeded /\ answer' = NoAnswer

(* No handler edits a role: an operator writes the row of the custom role. *)
EditRole ==
  /\ \E edit \in Edits : permissions' = [permissions EXCEPT !["custom"] = edit]
  /\ answer' = NoAnswer

Request(role, route) ==
  /\ answer' = [role |-> role, by |-> "http", call |-> route, ok |-> MayCall(role, route)]
  /\ UNCHANGED permissions

ToolCall(role, tool, kind, privileged) ==
  /\ answer' = [role |-> role, by |-> "assistant", call |-> <<tool, kind>>,
                ok |-> MayUse(role, tool, kind, privileged)]
  /\ UNCHANGED permissions

Next ==
  \/ Restart
  \/ EditRole
  \/ \E role \in Roles : \E route \in Protected \cup DOMAIN HandlerPermission : Request(role, route)
  \/ \E role \in Roles, tool \in Tools, kind \in Kinds, privileged \in BOOLEAN :
       ToolCall(role, tool, kind, privileged)

Spec == Init /\ [][Next]_vars

-----------------------------------------------------------------------------
Served(by) == answer # NoAnswer /\ answer.by = by /\ answer.ok

(* The writing routes that change nothing others see: a comparison, and    *)
(* the user's own favorites.                                               *)
Harmless == FavoriteRoutes \cup {<<"POST", <<"compare">>>>}

(* db.go calls the viewer read-only.  No route that changes something is   *)
(* open to a viewer, though the permission of a route is only guessed from *)
(* its method and its last segment.                                        *)
ReadersChangeNothing ==
  Served("http") /\ answer.role = "viewer" =>
    answer.call[1] \in {"GET", "HEAD"} \/ answer.call \in Harmless

(* The HTTP route that does what a tool does.                              *)
SameByHTTP(tool) ==
  LET resource == <<"clusters", ":", "resources", ":">> IN
  CASE tool = "create_resource" -> <<"POST", resource>>
    [] tool = "update_resource" -> <<"PUT", Append(resource, ":")>>
    [] tool = "patch_resource" -> <<"PATCH", Append(resource, ":")>>
    [] tool = "delete_resource" -> <<"DELETE", Append(resource, ":")>>
    [] tool = "get_resource" -> <<"GET", Append(resource, ":")>>
    [] tool = "list_resources" -> <<"GET", resource>>
    [] tool = "get_pod_logs" -> <<"GET", PodPath \o <<"logs">>>>
    [] tool = "get_cluster_overview" -> <<"GET", <<"clusters", ":", "overview">>>>
    [] tool = "query_prometheus" -> <<"GET", <<"plugins", "prometheus", "query">>>>

(* A permission on the kind itself, of the action HTTP asks for: only the  *)
(* custom role can be given one, and only the assistant looks at it.       *)
NamesKind(tool, kind) ==
  LET route == SameByHTTP(tool) IN
  \E p \in permissions["custom"] : p[1] = kind /\ p[2] \in {"*", ExtractAction(route[1], route[2])}

(* authz.go: the assistant cannot exceed the user's own privileges.  What  *)
(* a tool call may change the same user may change over HTTP, whatever the *)
(* custom role is edited to, unless it is given a permission on that kind. *)
WritesWithinOwnPrivileges ==
  Served("assistant") /\ answer.call[1] \in MutationTools =>
    \/ MayCall(answer.role, SameByHTTP(answer.call[1]))
    \/ answer.role = "custom" /\ NamesKind(answer.call[1], answer.call[2])

(* The same of every tool, with the roles as seeded.                       *)
WithinOwnPrivileges ==
  Served("assistant") /\ permissions = Seeded => MayCall(answer.role, SameByHTTP(answer.call[1]))

(* db.go: the editor manages favorites.                                    *)
EditorManagesFavorites ==
  answer # NoAnswer /\ answer.role = "editor" /\ answer.by = "http" /\ answer.call \in FavoriteRoutes
    => answer.ok
=============================================================================
