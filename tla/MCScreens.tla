---------------------------------- MODULE MCScreens ----------------------------------
(* The screens that keep something of their own: a form, the attachments of a news
   item, a question, a report, the session of a phone, that of a browser, and the
   pages of the public site.  They share nothing; one run explores them side by side. *)
EXTENDS PlatformForms, NewsAttachments, ReportScreens, MobileSession, BrowserSession,
        PublicSite

MCLetters == {0, 1, 15, 31, 100, 200, 256, 301, 500, 1000, 2001}
MCRoles == {"Administrator", "User"} \cup DOMAIN Native
MCClaims == {{}, {"Administrator", "User"}, {"User", "report.AIManager"},
             {"report.AIManager", "report.ReportDesigner"}} \cup {{r} : r \in MCRoles}
MCGrants == {{}, {"analytics", "landing-panel"}, {"mabhas19", "mun-sanandaj"}}

VARIABLE scene
vars == <<scene, formVars, fileVars, askVars, viewerVars, sessionVars, browserVars, siteVars>>

FormIdle == of = NoText /\ typed = NoText /\ touched = FALSE /\ row = NoText /\ drawer = "closed"
BrowserIdle ==
  /\ claims = {} /\ grants = {} /\ app = "analytics" /\ path = "/"
  /\ sessions = [a \in App |-> "none"]
  /\ provider = [user |-> Nobody, ready |-> FALSE]
  /\ callback = NoCallback /\ pkce = {} /\ signedIn = FALSE /\ followed = Nobody
Init ==
  /\ FilesInit /\ AskInit /\ ViewerInit /\ SessionInit /\ SiteInit
  /\ \/ scene = "form" /\ FormsInit /\ BrowserIdle
     \/ scene = "browser" /\ FormIdle /\ BrowserInit
     \/ scene \in {"files", "ask", "view", "phone", "site"} /\ FormIdle /\ BrowserIdle

Form ==
  scene = "form" /\ UNCHANGED <<scene, fileVars, askVars, viewerVars, sessionVars, browserVars, siteVars>>
Files ==
  scene = "files" /\ UNCHANGED <<scene, formVars, askVars, viewerVars, sessionVars, browserVars, siteVars>>
Ask ==
  scene = "ask" /\ UNCHANGED <<scene, formVars, fileVars, viewerVars, sessionVars, browserVars, siteVars>>
View ==
  scene = "view" /\ UNCHANGED <<scene, formVars, fileVars, askVars, sessionVars, browserVars, siteVars>>
Phone ==
  scene = "phone" /\ UNCHANGED <<scene, formVars, fileVars, askVars, viewerVars, browserVars, siteVars>>
Browser ==
  scene = "browser" /\ UNCHANGED <<scene, formVars, fileVars, askVars, viewerVars, sessionVars, siteVars>>
Site ==
  scene = "site" /\ UNCHANGED <<scene, formVars, fileVars, askVars, viewerVars, sessionVars, browserVars>>

Next ==
  \/ Form /\ Type
  \/ Form /\ HandleSubmit
  \/ Form /\ Store
  \/ Form /\ Refuse
  \/ Form /\ OpenDrawer
  \/ Files /\ Pick
  \/ Files /\ RemoveShown
  \/ Files /\ Render
  \/ Files /\ OpenAnother
  \/ \E f \in File : Files /\ Push(f)
  \/ \E f \in File : Files /\ Fail(f)
  \/ Ask /\ Submit
  \/ \E c \in calls : Ask /\ Generated(c)
  \/ \E c \in calls : Ask /\ Executed(c)
  \/ \E c \in calls : Ask /\ Failed(c)
  \/ Ask /\ Drill
  \/ \E c \in calls : Ask /\ Drilled(c)
  \/ \E c \in calls : Ask /\ DrillFailed(c)
  \/ Ask /\ DrillUp
  \/ View /\ ChangeFilter
  \/ \E r \in runs : View /\ Computed(r)
  \/ \E r \in runs : View /\ RunFailed(r)
  \/ View /\ DrillIn
  \/ \E r \in runs : View /\ DrilledIn(r)
  \/ \E r \in runs : View /\ DrillInFailed(r)
  \/ View /\ BackUp
  \/ Phone /\ Start
  \/ Phone /\ Expire
  \/ Phone /\ CompleteSignIn
  \/ Phone /\ StoreSignIn
  \/ Phone /\ SignOut
  \/ Phone /\ StoreSignOut
  \/ Phone /\ Kill
  \/ \E c \in Caller : Phone /\ ApiFetch(c)
  \/ \E c \in Caller : Phone /\ Succeed(c)
  \/ \E c \in Caller : Phone /\ Unauthorized(c)
  \/ \E c \in Caller : Phone /\ Lose(c)
  \/ \E c \in Caller : Phone /\ Redeem(c)
  \/ \E c \in Caller : Phone /\ KeepTokens(c)
  \/ \E c \in Caller : Phone /\ DropTokens(c)
  \/ \E c \in Caller : Phone /\ StoreAccess(c)
  \/ \E c \in Caller : Phone /\ StoreRefresh(c)
  \/ Browser /\ InitialRead
  \/ Browser /\ Login
  \/ Browser /\ Authorize
  \/ Browser /\ Forbid
  \/ Browser /\ OidcCallback
  \/ Browser /\ Exchanged
  \/ Browser /\ ExchangeFailed
  \/ Browser /\ TryAgain
  \/ Browser /\ Follow
  \/ Browser /\ SwitchTo
  \/ Browser /\ Reload
  \/ Browser /\ SessionExpires
  \/ Browser /\ SilentRenew
  \/ Browser /\ Logout
  \/ Site /\ CreateNews
  \/ Site /\ DeleteNews
  \/ Site /\ CreateSlide
  \/ Site /\ UpdateSlide
  \/ Site /\ DeleteSlide
  \/ Site /\ CreateTabItem
  \/ Site /\ UpdateTabItem
  \/ Site /\ DeleteTabItem
  \/ Site /\ DeleteTabGroup
  \/ Site /\ DeleteCategory
  \/ Site /\ DeleteUnit
  \/ Site /\ DeleteForm
  \/ Site /\ DeleteOrgPage
  \/ Site /\ SendSlides
  \/ Site /\ SendNews
  \/ Site /\ SendTabGroups
  \/ Site /\ RootLayout
  \/ Site /\ FollowLink
  \/ Site /\ TurnSlide
  \/ Site /\ SetCat
  \/ Site /\ NewsReader

\* Calls, their refreshes and the writes to the store go on by themselves.
Spec == Init /\ [][Next]_vars /\ \A c \in Caller : WF_vars(Phone /\ SessionStep(c))

\* Every link of a menu, a page or a header leads somewhere, in the applications behind the
\* sign-in and on the public site, but for the dead ones each module names.
LinksLeadSomewhere == MenusLead /\ SiteLinksLead
====================================================================================
