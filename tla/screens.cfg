\* Seven screens, one in use at a time: every form of the platform against its validator, three
\* files over two openings of their drawer, three questions, two changes of a filter, three
\* calls of a phone over three pairs of tokens and one kill, a browser with four applications
\* for a person of no role, of every single one or of some pairs, and the public site over
\* two changes of its tables.
SPECIFICATION Spec
CONSTANTS
  NoText = NoText
  Nothing = Nothing
  Nobody = Nobody
  Unlimited = 5000
  Letters <- MCLetters
  File = {f1, f2, f3}
  MaxOpenings = 2
  MaxAttached = 1
  MaxAsks = 3
  MaxChanges = 2
  MaxDrills = 2
  Me = me
  Caller = {me, c1, c2}
  MaxGrants = 3
  MaxKills = 1
  Claims <- MCClaims
  Grants <- MCGrants
  MaxNews = 3
  NewsLimit = 2
  MaxEdits = 2
  OrgSlugs = {"p/modir"}
INVARIANTS
  
  UploadedFilesAreKept
  ErrorIsOfTheLatest
  ComputedIsWanted
  RefreshTokenUsedOnce
  SignInTakesOneClick
  LinksLeadSomewhere
PROPERTIES
  CallsFinish
CHECK_DEADLOCK FALSE
