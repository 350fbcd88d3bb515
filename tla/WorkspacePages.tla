------------------------------- MODULE WorkspacePages -------------------------------
(* The pages of the other front ends that keep their lists in the same kind of cache:   *)
(* the admin panel, the analytics front end, the web workspace, the MunSanandaj panel.  *)
EXTENDS PanelPages

(* ---------------------------------- admin panel --------------------------------------- *)
AdminUsersPage ==
  Page({<<"users", "list", "page">>, <<"roles", "list">>, <<"services", "list">>},
       <<"users", "list", "page">>, "open",
       {Write(kind, "users", {<<"users">>}) : kind \in {"form", "set"}})
RolesServicesPage == Reader({<<"roles", "list">>, <<"services", "list">>})
AdminPages == [Users |-> AdminUsersPage, RolesServices |-> RolesServicesPage]

(* --------------------------------- analytics front end -------------------------------- *)
\* What a read is kept under; the tenant, or the row, that every key also has is one.
UseReports == <<"reports">>
UseReport == <<"report">>
UseDashboards == <<"dashboards">>
UseDashboard == <<"dashboard">>
UseUsers == <<"users">>
UseTenants == <<"tenants">>
UseTenant == <<"tenant">>
UseTenantUsage == <<"tenantUsage">>
UseSystemSettings == <<"systemSettings">>
UseTenantAIConfig == <<"tenantAIConfig">>

UseSaveReport == Write("set", "reports", {UseReports})
UseDeleteReport == Write("set", "reports", {UseReports})
UseCreateDashboard == Write("set", "dashboards", {UseDashboards})
UseSaveDashboard == Write("form", "dashboards", {UseDashboards})
UseDeleteDashboard == Write("set", "dashboards", {UseDashboards})
UseUpsertUser == Write("form", "users", {UseUsers})
UseSetUserActive == Write("found", "users", {UseUsers})
UseUpdateTenant == Write("form", "tenants", {UseTenants, UseTenant})
UseUpsertTenant == Write("form", "tenants", {UseTenants})
UseSetTenantStatus == Write("found", "tenants", {UseTenants})
UseUpdateSystemSettings == Write("form", "systemSettings", {UseSystemSettings})
\* Mutant: a change of the AI configuration drops nothing.
UpdateTenantAIConfigQuietly == Write("row", "tenantAIConfig", {})
UseUpdateTenantAIConfig == Write("row", "tenantAIConfig", {UseTenantAIConfig})

ReportLibrary == Page({UseReports}, NULL, "never", {UseDeleteReport})
AskAiBuilder == Page({}, NULL, "never", {UseSaveReport})
ReportViewerPage == Reader({UseReport})
DashboardList == Page({UseDashboards}, NULL, "never", {UseCreateDashboard, UseDeleteDashboard})
\* The widgets are filled again by every answer; a widget reads its own report.
DashboardBuilder ==
  Page({UseDashboard, UseReport, UseReports}, UseDashboard, "fresh",
       {UseSaveDashboard})
\* At /new an empty dashboard is created, once, and the builder goes to it.
NewDashboard == Page({}, NULL, "never", {UseCreateDashboard})
UserList == Page({UseUsers}, UseUsers, "open", {UseUpsertUser, UseSetUserActive})
TenantList == Page({UseTenants}, UseTenants, "open", {UseUpsertTenant, UseSetTenantStatus})
\* The draft is the first answer of the visit.
TenantSettings ==
  Page({UseTenant, UseTenantUsage}, UseTenant, "once", {UseUpdateTenant})
SystemSettingsPage ==
  Page({UseSystemSettings}, UseSystemSettings, "once", {UseUpdateSystemSettings})
\* Providers, quotas and the fallback chain are all sent as {...cfg, the part changed}.
AIProviderList ==
  Page({UseTenantAIConfig}, UseTenantAIConfig, "never", {UseUpdateTenantAIConfig})
AIRoutingRules ==
  Page({UseTenantAIConfig}, UseTenantAIConfig, "never", {UseUpdateTenantAIConfig})
AnalyticsPages ==
  [ReportLibrary |-> ReportLibrary, AskAi |-> AskAiBuilder, ReportViewer |-> ReportViewerPage,
   DashboardList |-> DashboardList, NewDashboard |-> NewDashboard,
   DashboardBuilder |-> DashboardBuilder, UserList |-> UserList, TenantList |-> TenantList,
   TenantSettings |-> TenantSettings, SystemSettings |-> SystemSettingsPage,
   AIProviderList |-> AIProviderList, AIRoutingRules |-> AIRoutingRules]
AnalyticsAnswers(resource) ==
  CASE resource = "report" -> {<<"reports", c>> : c \in Columns}
    [] resource = "dashboard" -> {<<"dashboards", c>> : c \in Columns}
    [] resource = "tenant" -> {<<"tenants", c>> : c \in Columns}
    [] OTHER -> {}

(* ------------------------------------ web workspace ----------------------------------- *)
\* The keys of one project start with the key of the list.
ProjectsKey == <<"projects">>
ProjectKey == <<"projects", "id">>
AssessmentKey == <<"projects", "id", "assessment">>
UseCreateProject == Write("set", "projects", {ProjectsKey})
\* Mutant: a change of a project drops what is kept of that project only.
UpdateProjectOnItsPage == Write("form", "projects", {ProjectKey})
UseUpdateProject == Write("form", "projects", {ProjectKey, ProjectsKey})
UseDeleteProject == Write("set", "projects", {ProjectsKey})
UseImportProject == Write("set", "projects", {ProjectsKey})
UseSaveAssessment == Write("flag", "assessments", {AssessmentKey, ProjectKey})

WebDashboardPage == Reader({ProjectsKey, <<"subscription">>})
WebProjectsPage == Page({ProjectsKey}, NULL, "never", {UseCreateProject, UseDeleteProject})
WebProjectPage ==
  Page({ProjectKey, AssessmentKey}, ProjectKey, "open", {UseUpdateProject, UseDeleteProject})
AssessmentPage == Page({ProjectKey, AssessmentKey}, NULL, "never", {UseSaveAssessment})
WebImportPage == Page({}, NULL, "never", {UseImportProject})
WebPages ==
  [Dashboard |-> WebDashboardPage, Projects |-> WebProjectsPage, Project |-> WebProjectPage,
   Assessment |-> AssessmentPage, Import |-> WebImportPage]
\* A project of the list carries whether it was assessed, and its score.
WebAnswers(key) ==
  CASE key = AssessmentKey -> {<<"assessments", c>> : c \in Columns}
    [] key = ProjectKey -> {<<"projects", c>> : c \in Columns}
    [] key = ProjectsKey -> {<<t, c>> : t \in {"projects", "assessments"}, c \in Columns}
    [] OTHER -> {}

(* --------------------------------- MunSanandaj panel ---------------------------------- *)
UseTriggerRun == Write("set", "mun-runs", {<<"mun-runs">>})
MunDashboard == Page({<<"mun-runs">>, <<"mun-run">>}, NULL, "never", {UseTriggerRun})
LogsPage == Reader({<<"mun-logs">>})
MunPages == [Dashboard |-> MunDashboard, Logs |-> LogsPage]

(* ------------------------------------- all of them ------------------------------------ *)
App == {"landing", "admin", "analytics", "web", "mun"}
PagesOf ==
  [landing |-> LandingPages, admin |-> AdminPages, analytics |-> AnalyticsPages,
   web |-> WebPages, mun |-> MunPages]
KeysOf(app) ==
  UNION {PagesOf[app][p].reads \cup ({PagesOf[app][p].source} \ {NULL}) : p \in DOMAIN PagesOf[app]}
\* What the answer of each key is made from.
AnswersOf ==
  [app \in App |-> [key \in KeysOf(app) |->
     LET own == {<<key[1], c>> : c \in Columns}
     IN CASE app = "landing" -> own \cup LandingAnswers(key[1])
          [] app = "analytics" -> own \cup AnalyticsAnswers(key[1])
          [] app = "web" -> WebAnswers(key)
          [] OTHER -> own]]
\* Which columns of a table an answer is made from.
Shows(app, key, table) == {c \in Columns : <<table, c>> \in AnswersOf[app][key]}
====================================================================================
