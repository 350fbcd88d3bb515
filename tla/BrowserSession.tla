------------------------------- MODULE BrowserSession -------------------------------
(* One browser and the four single-page applications that sign in at the identity       *)
(* provider: the redirect there and back, the session kept in the storage of each       *)
(* application, the provider component that every guard asks, and the links a person     *)
(* is shown - in the menus, on the pages, and in the header that leads from one          *)
(* application to another.                                                               *)
EXTENDS FiniteSets, Naturals

CONSTANTS Nobody,     \* nobody, no link
          Claims,   \* the sets of roles a person may come with
          Grants    \* the sets of services a person may be granted
ASSUME BrowserAssumption == Nobody # {} /\ \A roles \in Claims : roles # Nobody

VARIABLES
  claims, grants,  \* the person: roles and services at the identity provider
  app,             \* the application in the window
  path,            \* its address, "idp" while the window is there
  sessions,        \* application -> "none", "valid" or "expired": what its storage keeps
  provider,        \* AuthProvider: the user shown, and whether it has read the storage
  callback,        \* OidcCallback: whether it ran, and what its calls will come to
  pkce,            \* applications with the state of a sign-in that began
  signedIn,        \* the exchange of this page succeeded
  followed         \* the link that led here, over sign-ins in between
browserVars ==
  <<claims, grants, app, path, sessions, provider, callback, pkce, signedIn, followed>>

(* ----------------------------------- who may what ------------------------------------- *)
AnalyticsRoles == {"SuperAdmin", "TenantAdmin", "AIManager", "ReportDesigner",
                   "DashboardDesigner", "PowerUser", "Viewer"}
ROLE_PERMISSIONS ==
  LET all == {"reports:write", "reports:delete", "reports:execute", "data:export", "ai:manage",
              "datasources:manage", "users:manage", "audit:read"}
      write == {"reports:write", "reports:execute", "data:export"}
  IN [SuperAdmin |-> all, TenantAdmin |-> all,
      AIManager |-> {"reports:execute", "ai:manage", "audit:read"},
      ReportDesigner |-> write \cup {"reports:delete"},
      DashboardDesigner |-> write, PowerUser |-> write, Viewer |-> {"reports:execute"}]
permissionsFor(roles) == UNION {ROLE_PERMISSIONS[r] : r \in roles}

\* The roles of the platform, and the native ones, a "report." before their name.
Native == [r \in {"report.SuperAdmin", "report.TenantAdmin", "report.AIManager",
                  "report.ReportDesigner", "report.DashboardDesigner", "report.PowerUser",
                  "report.Viewer"} |->
             CASE r = "report.SuperAdmin" -> "SuperAdmin"
               [] r = "report.TenantAdmin" -> "TenantAdmin"
               [] r = "report.AIManager" -> "AIManager"
               [] r = "report.ReportDesigner" -> "ReportDesigner"
               [] r = "report.DashboardDesigner" -> "DashboardDesigner"
               [] r = "report.PowerUser" -> "PowerUser"
               [] OTHER -> "Viewer"]
mapLegacyRoles(from) ==
  LET mapped == {Native[r] : r \in from \cap DOMAIN Native}
                  \cup (IF "Administrator" \in from THEN {"SuperAdmin"} ELSE {})
                  \cup (IF "User" \in from THEN {"PowerUser"} ELSE {})
  IN IF mapped = {} THEN {"Viewer"} ELSE mapped
isAdmin(from) == "Administrator" \in from

\* AuthProvider of the analytics front end.
SeesAdmin(roles) ==
  \/ roles \cap {"SuperAdmin", "TenantAdmin", "AIManager"} # {}
  \/ permissionsFor(roles)
       \cap {"ai:manage", "datasources:manage", "users:manage", "audit:read"} # {}

(* ------------------------------------- the pages -------------------------------------- *)
\* A page asks for one of the roles of every set, and for permissions.
Route(p, roleSets, perms) == [path |-> p, roleSets |-> roleSets, perms |-> perms]
Open(p) == Route(p, {}, {})

LandingRoutes == {Open(p) : p \in
  {"/", "/news", "/categories", "/slides", "/quick-links", "/footer-links", "/people", "/units",
   "/tab-groups", "/org-pages", "/forms", "/submissions", "/messages", "/settings"}}
AdminRoutes == {Open(p) : p \in {"/", "/users", "/reference"}}
MunRoutes == {Open(p) : p \in {"/", "/logs"}}
AnalyticsRoutes ==
  LET zone == {"SuperAdmin", "TenantAdmin", "AIManager"}
      Admin(p, perm) == Route(p, {zone}, {perm})
      Builder(p) == Route(p, {{"DashboardDesigner", "TenantAdmin", "SuperAdmin"}}, {})
  IN {Open(p) : p \in {"/ask", "/reports", "/reports/1", "/dashboards", "/dashboards/1",
                       "/profile", "/settings", "/favorites"}}
     \cup {Builder("/dashboards/new"), Builder("/dashboards/1/edit"),
           Route("/data", {AnalyticsRoles \ {"Viewer"}}, {}),
           Route("/exports", {}, {"data:export"}), Route("/admin", {zone}, {}),
           Route("/admin/tenants", {zone, {"SuperAdmin"}}, {}),
           Route("/admin/system", {zone, {"SuperAdmin"}}, {})}
     \cup {Admin(p, "users:manage") : p \in {"/admin/users", "/admin/roles", "/admin/tenant"}}
     \cup {Admin(p, "datasources:manage") :
             p \in {"/admin/data-sources", "/admin/semantic-models"}}
     \cup {Admin(p, "ai:manage") : p \in {"/admin/ai/providers", "/admin/ai/routing",
                                          "/admin/ai/prompts", "/admin/ai/usage"}}
     \cup {Admin("/admin/audit", "audit:read")}

App == {"landing-panel", "admin", "mun-sanandaj", "analytics"}
Routes == [a \in App |-> CASE a = "landing-panel" -> LandingRoutes
                           [] a = "admin" -> AdminRoutes
                           [] a = "mun-sanandaj" -> MunRoutes
                           [] OTHER -> AnalyticsRoutes]
Home(a) == IF a = "analytics" THEN "/ask" ELSE "/"

(* ------------------------------------ the guards -------------------------------------- *)
\* RequireRole and RequirePermission.
CanReach(a, p, from) ==
  \E r \in Routes[a] :
    /\ r.path = p
    /\ LET roles == mapLegacyRoles(from)
       IN /\ \A allow \in r.roleSets : roles \cap allow # {}
          /\ r.perms \subseteq permissionsFor(roles)

\* RequireAuth, RequireAdmin, LoginScreen: where an address leads, once the provider has
\* read the storage.  The panels keep the address and say what is missing.
Land(a, p, user) ==
  IF p \in {"/auth/callback", "error", "/403", "denied"} THEN p
  ELSE IF user = Nobody THEN "/login"
  ELSE IF a \in {"landing-panel", "admin"} /\ ~ isAdmin(user) THEN "adminRequired"
  ELSE IF a = "mun-sanandaj" /\ ~ isAdmin(user) THEN "/403"
  ELSE IF p \in {"/login", "/"} THEN Home(a)
  ELSE IF \A r \in Routes[a] : r.path # p THEN "404"
  ELSE IF ~ CanReach(a, p, user) THEN "/403" ELSE p
Refusals == {"/403", "404", "adminRequired", "denied"}

(* ------------------------------------- the links -------------------------------------- *)
LandingNav ==
  {"/", "/news", "/categories", "/slides", "/quick-links", "/footer-links", "/people", "/units",
   "/tab-groups", "/org-pages", "/forms", "/submissions", "/messages", "/settings"}
AdminNav == {"/", "/reference"}
MunNav == {"/", "/logs"}
\* Sidebar of the analytics front end: one menu in the admin zone, another outside.
AdminZone ==
  LET zone == {"SuperAdmin", "TenantAdmin", "AIManager"}
  IN {r.path : r \in {q \in AnalyticsRoutes :
                        \E s \in q.roleSets : "AIManager" \in s /\ s \subseteq zone}}
\* Mutant: the exports are in everybody's menu.
UserMenuWithExports(from) ==
  {"/ask", "/reports", "/dashboards", "/favorites", "/data", "/profile", "/settings", "/exports"}
  \cup (IF SeesAdmin(mapLegacyRoles(from)) THEN {"/admin"} ELSE {})
UserMenu(from) ==
  LET roles == mapLegacyRoles(from)
  IN {"/ask", "/reports", "/dashboards", "/favorites", "/data", "/profile", "/settings"}
     \cup (IF "data:export" \in permissionsFor(roles) THEN {"/exports"} ELSE {})
     \cup (IF SeesAdmin(roles) THEN {"/admin"} ELSE {})
AdminMenu(from) ==
  LET roles == mapLegacyRoles(from)
      Needing(perm, items) == IF perm \in permissionsFor(roles) THEN items ELSE {}
  IN {"/admin", "/admin/roles", "/admin/tenant", "/admin/tenant/quota", "/"}
     \cup Needing("users:manage", {"/admin/users"})
     \cup Needing("datasources:manage", {"/admin/data-sources", "/admin/semantic-models"})
     \cup Needing("ai:manage", {"/admin/ai/providers", "/admin/ai/routing", "/admin/ai/prompts",
                                "/admin/ai/usage"})
     \cup Needing("audit:read", {"/admin/audit"})
     \cup (IF "SuperAdmin" \in roles THEN {"/admin/tenants"} ELSE {})
PageLinks(p) ==
  CASE p = "/reports" -> {"/reports/1", "/ask"}
    [] p = "/reports/1" -> {"/ask"}
    [] p = "/dashboards" -> {"/dashboards/1/edit"}
    [] p = "/dashboards/1/edit" -> {"/dashboards"}
    [] p = "/admin/tenant" -> {"/admin/ai/providers"}
    [] p = "/admin/data-sources" -> {"/admin/semantic-models"}
    [] OTHER -> {}
Menu(a, p, from) ==
  CASE a = "landing-panel" -> LandingNav
    [] a = "admin" -> AdminNav
    [] a = "mun-sanandaj" -> MunNav
    [] OTHER -> (IF p \in AdminZone THEN AdminMenu(from) ELSE UserMenu(from)) \cup PageLinks(p)

\* AppSwitcher: the services of a person, hidden when there is one.  Two of them, the
\* workspace and the plan, are not among these applications.
AppSwitcher(from, services) ==
  LET visible == (IF isAdmin(from) THEN {"admin"} ELSE {})
                   \cup {s \in {"mabhas19", "analytics", "mun-sanandaj", "landing-panel", "plan"} :
                           services = {} \/ s \in services}
  IN IF Cardinality(visible) < 2 THEN {} ELSE visible \cap App

\* AuthorizationController: a person with grants gets tokens for those services only.
Authorizes(a) == a = "admin" \/ grants = {} \/ a \in grants

(* ------------------------------------- the steps -------------------------------------- *)
NoCallback == [ran |-> FALSE, exchanges |-> {}]
\* A page is loaded: nothing is left but what the storage keeps.
Load(a, p) ==
  /\ app' = a /\ path' = p
  /\ provider' = [user |-> Nobody, ready |-> FALSE]
  /\ callback' = NoCallback /\ signedIn' = FALSE
Profile(session) == IF session = "valid" THEN claims ELSE Nobody
\* What a guard shows after the provider took a user.
Apply(user, p) ==
  /\ provider' = [user |-> user, ready |-> TRUE]
  /\ path' = Land(app, p, user)

BrowserInit ==
  /\ claims \in Claims /\ grants \in Grants
  /\ app \in App /\ path = "/"
  /\ sessions = [a \in App |-> "none"]
  /\ provider = [user |-> Nobody, ready |-> FALSE]
  /\ callback = NoCallback /\ pkce = {} /\ signedIn = FALSE /\ followed = Nobody

\* getUser of the storage: it takes no turn of the event loop, no answer comes before it.
InitialRead ==
  /\ path # "idp" /\ ~ provider.ready
  /\ Apply(Profile(sessions[app]), path)
  /\ UNCHANGED <<claims, grants, app, sessions, callback, pkce, signedIn, followed>>

Login ==
  /\ path = "/login" /\ provider.ready
  /\ path' = "idp" /\ pkce' = pkce \cup {app}
  /\ UNCHANGED <<claims, grants, app, sessions, provider, callback, signedIn, followed>>
\* The person signs in there and is sent back with a code, or with a refusal ("denied").
Authorize ==
  /\ path = "idp" /\ Authorizes(app)
  /\ Load(app, "/auth/callback")
  /\ UNCHANGED <<claims, grants, sessions, pkce, followed>>
Forbid ==
  /\ path = "idp" /\ ~ Authorizes(app)
  /\ Load(app, "denied")
  /\ UNCHANGED <<claims, grants, sessions, pkce, followed>>

\* Mutant: the effect runs again with every rendering.
OidcCallbackAgain ==
  /\ path = "/auth/callback"
  /\ callback' = [ran |-> TRUE,
                  exchanges |-> callback.exchanges
                                  \cup {IF app \in pkce THEN "sent" ELSE "no matching state"}]
  /\ pkce' = pkce \ {app}
  /\ UNCHANGED <<claims, grants, app, path, sessions, provider, signedIn, followed>>
\* "Exactly once: the PKCE state is consumed by the first call"; the effect runs twice in
\* development, and again when the translations come.
OidcCallback ==
  /\ path = "/auth/callback" /\ ~ callback.ran
  /\ callback' = [ran |-> TRUE,
                  exchanges |-> callback.exchanges
                                  \cup {IF app \in pkce THEN "sent" ELSE "no matching state"}]
  /\ pkce' = pkce \ {app}
  /\ UNCHANGED <<claims, grants, app, path, sessions, provider, signedIn, followed>>
\* The user is stored, userLoaded is raised, and the callback navigates home.
Exchanged ==
  /\ "sent" \in callback.exchanges /\ provider.ready
  /\ sessions' = [sessions EXCEPT ![app] = "valid"]
  /\ Apply(claims, Home(app))
  /\ callback' = [callback EXCEPT !.exchanges = @ \ {"sent"}]
  /\ signedIn' = TRUE
  /\ UNCHANGED <<claims, grants, app, pkce, followed>>
ExchangeFailed ==
  /\ \E e \in callback.exchanges : callback' = [callback EXCEPT !.exchanges = @ \ {e}]
  /\ path' = IF path = "/auth/callback" THEN "error" ELSE path
  /\ UNCHANGED <<claims, grants, app, sessions, provider, pkce, signedIn, followed>>
\* The panels have a button on their error; elsewhere the page is opened again.
TryAgain ==
  /\ path \in {"error"} \cup Refusals
  /\ IF path = "error" /\ app \in {"landing-panel", "admin"}
     THEN path' = "/login" /\ UNCHANGED <<app, provider, callback, signedIn>>
     ELSE Load(app, "/")
  /\ followed' = Nobody
  /\ UNCHANGED <<claims, grants, sessions, pkce>>

Showing == path \notin {"idp", "/login", "/auth/callback", "error"} \cup Refusals
             /\ provider.ready /\ provider.user # Nobody
Follow ==
  /\ Showing
  /\ \E p \in Menu(app, path, provider.user) :
       path' = Land(app, p, provider.user) /\ followed' = p
  /\ signedIn' = FALSE
  /\ UNCHANGED <<claims, grants, app, sessions, provider, callback, pkce>>
SwitchTo ==
  /\ Showing
  /\ \E a \in AppSwitcher(provider.user, grants) : Load(a, "/") /\ followed' = a
  /\ UNCHANGED <<claims, grants, sessions, pkce>>

Reload ==
  /\ Showing
  /\ Load(app, path)
  /\ UNCHANGED <<claims, grants, sessions, pkce, followed>>
\* The token's half hour is over: nobody hears of it.
SessionExpires ==
  /\ \E a \in App : sessions[a] = "valid" /\ sessions' = [sessions EXCEPT ![a] = "expired"]
  /\ UNCHANGED <<claims, grants, app, path, provider, callback, pkce, signedIn, followed>>
\* The hidden frame: the user it stores is heard of like any other.
SilentRenew ==
  /\ Showing /\ sessions[app] # "none"
  /\ sessions' = [sessions EXCEPT ![app] = "valid"]
  /\ Apply(claims, path)
  /\ UNCHANGED <<claims, grants, app, callback, pkce, signedIn, followed>>
Logout ==
  /\ provider.ready /\ provider.user # Nobody /\ path \notin {"idp", "/auth/callback", "error"}
  /\ app \in {"landing-panel", "admin"} \/ path \notin Refusals
  /\ sessions' = [sessions EXCEPT ![app] = "none"]
  /\ Load(app, "/")
  /\ followed' = Nobody
  /\ UNCHANGED <<claims, grants, pkce>>
BrowserNext ==
  \/ InitialRead \/ Login \/ Authorize \/ Forbid \/ OidcCallback \/ Exchanged \/ ExchangeFailed
  \/ TryAgain \/ Follow \/ SwitchTo \/ Reload \/ SessionExpires \/ SilentRenew \/ Logout

(* ----------------------------------- properties --------------------------------------- *)
\* "works on the second click": a person whom the identity provider let in, and whose code
\* was exchanged, is shown the application or told what is missing, never the login screen
\* again, and no error is shown while the exchange is under way.
SignInTakesOneClick ==
  /\ signedIn => path \notin {"/login", "error", "/auth/callback"}
  /\ path = "error" => "sent" \notin callback.exchanges

\* The links the code shows to people its own guards refuse.
DeadLinks(to, from) ==
  LET roles == mapLegacyRoles(from)
  IN \/ to = "/data" /\ roles = {"Viewer"}
     \/ to \in {"/admin/roles", "/admin/tenant"} /\ "users:manage" \notin permissionsFor(roles)
     \/ to = "/admin/tenant/quota"
     \/ /\ to = "/dashboards/1/edit"
        /\ roles \cap {"DashboardDesigner", "TenantAdmin", "SuperAdmin"} = {}
     \/ to \in {"landing-panel", "mun-sanandaj"} /\ ~ isAdmin(from)
\* "Every entry has a route": whoever follows a link of a menu, of a page or of the header
\* gets there, signing in again where it is needed, but for the dead links above.
MenusLead ==
  (followed # Nobody /\ path \in Refusals) => DeadLinks(followed, claims)
====================================================================================
