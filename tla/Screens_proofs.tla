------------------------------- MODULE Screens_proofs -------------------------------
(* Proofs about the screens of MCScreens, for any number of files, questions, filters,   *)
(* calls, pairs of tokens and news, any texts and any person: the screens share nothing,  *)
(* so what holds of one of them alone holds of it beside the others.                      *)
EXTENDS MCScreens, TLAPS, FiniteSetTheorems, WellFoundedInduction

AskNext ==
  \/ Submit \/ Drill \/ DrillUp
  \/ \E c \in calls : Generated(c) \/ Executed(c) \/ Failed(c) \/ Drilled(c) \/ DrillFailed(c)
ViewerNext ==
  \/ ChangeFilter \/ DrillIn \/ BackUp
  \/ \E r \in runs : Computed(r) \/ RunFailed(r) \/ DrilledIn(r) \/ DrillInFailed(r)
SessionNext ==
  \/ Start \/ Expire \/ CompleteSignIn \/ StoreSignIn \/ SignOut \/ StoreSignOut \/ Kill
  \/ \E c \in Caller : ApiFetch(c) \/ SessionStep(c)

\* A step of the screens is a step of one of them, and leaves the others as they are.
LEMMA StepsOfScreens ==
  ASSUME [Next]_vars
  PROVE  /\ [FilesNext]_fileVars
         /\ [AskNext]_askVars
         /\ [ViewerNext]_viewerVars
         /\ [SessionNext]_sessionVars
<1>1. CASE UNCHANGED vars
  BY <1>1 DEF vars
<1>2. CASE Next
  BY <1>2 DEF Next, Form, Files, Ask, View, Phone, Browser, Site, FilesNext, AskNext, ViewerNext,
              SessionNext, SessionStep
<1>3. QED
  BY <1>1, <1>2

------------------------------------------------------------------------------------
(* Attachments. *)

\* What is shown is never longer than what the handlers of its uploader append to, which is
\* what will be sent as long as no uploader of an earlier opening has changed that.
FilesInv ==
  /\ value \in Seq(File) /\ stored \in Seq(File)
  /\ latest \in [1..MaxOpenings -> Seq(File)]
  /\ opening \in 1..MaxOpenings /\ late \in BOOLEAN
  /\ Len(value) <= Len(latest[opening])
  /\ ~ late => stored = latest[opening]
  /\ files \in [File -> {"known", "uploading", "kept", "failed", "removed"}]
  /\ picked \in [File -> Nat]
  /\ \A f \in File : picked[f] <= opening
  /\ \A f \in File : files[f] = "uploading" => picked[f] \in 1..opening
  /\ UploadedFilesAreKept

\* A file other than the one that is taken out is still there.
LEMMA RemovingOne ==
  ASSUME NEW S, NEW s \in Seq(S), NEW i \in 1..Len(s)
  PROVE  /\ RemoveAt(s, i) \in Seq(S)
         /\ \A j \in 1..Len(s) : s[j] # s[i] =>
              \E k \in 1..Len(RemoveAt(s, i)) : RemoveAt(s, i)[k] = s[j]
<1> DEFINE before == SubSeq(s, 1, i - 1)
           after == SubSeq(s, i + 1, Len(s))
           left == before \o after
<1>1. /\ before \in Seq(S) /\ Len(before) = i - 1
      /\ \A k \in 1..(i - 1) : before[k] = s[k]
  OBVIOUS
<1>2. /\ after \in Seq(S) /\ Len(after) = Len(s) - i
      /\ \A k \in 1..(Len(s) - i) : after[k] = s[i + k]
  OBVIOUS
<1> HIDE DEF before, after
<1>3. /\ left \in Seq(S) /\ Len(left) = Len(s) - 1
      /\ \A k \in 1..(i - 1) : left[k] = s[k]
      /\ \A k \in i..(Len(s) - 1) : left[k] = s[k + 1]
  <2>1. left \in Seq(S) /\ Len(left) = Len(s) - 1
    BY <1>1, <1>2
  <2>2. ASSUME NEW k \in 1..(i - 1) PROVE left[k] = s[k]
    BY <1>1, <1>2
  <2>3. ASSUME NEW k \in i..(Len(s) - 1) PROVE left[k] = s[k + 1]
    <3>1. left[k] = after[k - (i - 1)]
      BY <1>1, <1>2
    <3>2. k - (i - 1) \in 1..(Len(s) - i) /\ i + (k - (i - 1)) = k + 1
      OBVIOUS
    <3>3. QED
      BY <1>2, <3>1, <3>2
  <2>4. QED
    BY <2>1, <2>2, <2>3
<1> HIDE DEF left
<1>4. ASSUME NEW j \in 1..Len(s), s[j] # s[i]
      PROVE  \E k \in 1..Len(left) : left[k] = s[j]
  <2>1. CASE j < i
    <3>1. j \in 1..(i - 1) /\ j \in 1..Len(left)
      BY <2>1, <1>3
    <3>2. QED
      BY <3>1, <1>3
  <2>2. CASE j > i
    <3>1. j - 1 \in i..(Len(s) - 1) /\ j - 1 \in 1..Len(left) /\ (j - 1) + 1 = j
      BY <2>2, <1>3
    <3>2. QED
      BY <3>1, <1>3
  <2>3. QED
    BY <1>4, <2>1, <2>2
<1>5. RemoveAt(s, i) = left
  BY DEF RemoveAt, left, before, after
<1>6. QED
  BY <1>3, <1>4, <1>5

LEMMA FilesStart == ASSUME FilesInit PROVE FilesInv
<1>1. << >> \in Seq(File) /\ Len(<< >>) = 0 /\ 1 \in 1..MaxOpenings
  BY AttachmentsAssumption
<1>2. latest \in [1..MaxOpenings -> Seq(File)] /\ latest[1] = << >>
  BY <1>1 DEF FilesInit
<1>3. value = << >> /\ stored = << >> /\ opening = 1 /\ late = FALSE
  BY DEF FilesInit
<1>4. /\ files \in [File -> {"known", "uploading", "kept", "failed", "removed"}]
      /\ picked \in [File -> Nat]
      /\ \A f \in File : files[f] = "known" /\ picked[f] = 0
  BY DEF FilesInit
<1>5. UploadedFilesAreKept
  BY <1>4 DEF UploadedFilesAreKept
<1>6. value \in Seq(File) /\ stored \in Seq(File) /\ opening \in 1..MaxOpenings /\ late \in BOOLEAN
  BY <1>1, <1>3
<1>7. Len(value) <= Len(latest[opening]) /\ stored = latest[opening]
  BY <1>1, <1>2, <1>3
<1>8. \A f \in File : picked[f] <= opening /\ files[f] # "uploading"
  BY <1>3, <1>4
<1>9. QED
  BY <1>2, <1>4, <1>5, <1>6, <1>7, <1>8 DEF FilesInv

LEMMA FilesStep == ASSUME FilesInv, [FilesNext]_fileVars PROVE FilesInv'
<1> USE AttachmentsAssumption DEF FilesInv
<1>1. CASE UNCHANGED fileVars
  BY <1>1 DEF fileVars, UploadedFilesAreKept
<1>2. CASE Pick
  BY <1>2 DEF Pick, UploadedFilesAreKept
<1>3. ASSUME NEW f \in File, Push(f) PROVE FilesInv'
  <2> DEFINE o == picked[f]
             list == Append(latest[o], f)
  <2>1. /\ o \in 1..opening /\ o \in 1..MaxOpenings
        /\ latest' = [latest EXCEPT ![o] = list]
        /\ stored' = latest'[o] /\ late' = (late \/ o # opening)
        /\ files' = [files EXCEPT ![f] = "kept"] /\ UNCHANGED <<value, picked, opening>>
    BY <1>3 DEF Push, Becomes
  <2>2. latest[o] \in Seq(File)
    BY <2>1
  <2>3. /\ list \in Seq(File) /\ Len(list) = Len(latest[o]) + 1 /\ f \in ToSet(list)
        /\ ToSet(latest[o]) \subseteq ToSet(list)
    <3> HIDE DEF o
    <3>1. list \in Seq(File) /\ Len(list) = Len(latest[o]) + 1
      BY <2>2
    <3>2. /\ DOMAIN list = 1..(Len(latest[o]) + 1) /\ DOMAIN latest[o] = 1..Len(latest[o])
          /\ Len(latest[o]) \in Nat
      BY <2>2
    <3>3. list[Len(latest[o]) + 1] = f /\ \A i \in 1..Len(latest[o]) : list[i] = latest[o][i]
      BY <2>2
    <3> HIDE DEF list
    <3>4. DOMAIN list = 1..Len(list) /\ Len(list) = Len(latest[o]) + 1
      BY <3>1
    <3>5. ToSet(latest[o]) \subseteq ToSet(list)
      BY <3>2, <3>3, <3>4 DEF ToSet
    <3>6. f \in ToSet(list)
      <4>1. Len(list) \in DOMAIN list /\ list[Len(list)] = f
        BY <3>2, <3>3, <3>4
      <4>2. QED
        BY <4>1 DEF ToSet
    <3>7. QED
      BY <3>1, <3>5, <3>6
  <2> HIDE DEF list
  <2>4. stored' = list /\ latest'[o] = list
    BY <2>1
  <2>5. UploadedFilesAreKept'
    <3> SUFFICES ASSUME ~ late', NEW g \in File, files'[g] = "kept", picked'[g] = opening'
                 PROVE  g \in ToSet(stored')
      BY DEF UploadedFilesAreKept
    <3>1. ~ late /\ o = opening
      BY <2>1
    <3>2. CASE g = f
      BY <2>3, <2>4, <3>2
    <3>3. CASE g # f
      <4>1. files[g] = "kept" /\ picked[g] = opening
        BY <2>1, <3>3
      <4>2. g \in ToSet(latest[o])
        BY <3>1, <4>1 DEF UploadedFilesAreKept
      <4>3. QED
        BY <2>3, <2>4, <4>2
    <3>4. QED
      BY <3>2, <3>3
  <2>6. Len(value) <= Len(latest'[opening]) /\ (~ late' => stored' = latest'[opening'])
    <3>1. Len(latest[opening]) \in Nat /\ Len(value) \in Nat
      OBVIOUS
    <3>2. CASE o = opening
      <4>1. Len(list) = Len(latest[opening]) + 1 /\ latest'[opening] = list /\ opening' = opening
        BY <2>1, <2>3, <2>4, <3>2
      <4>2. QED
        BY <2>4, <3>1, <4>1
    <3>3. CASE o # opening
      <4>1. latest'[opening] = latest[opening] /\ late'
        BY <2>1, <3>3
      <4>2. QED
        BY <4>1
    <3>4. QED
      BY <3>2, <3>3
  <2>7. /\ latest' \in [1..MaxOpenings -> Seq(File)] /\ stored' \in Seq(File)
        /\ value' \in Seq(File) /\ opening' \in 1..MaxOpenings /\ late' \in BOOLEAN
    BY <2>1, <2>3, <2>4
  <2>8. /\ files' \in [File -> {"known", "uploading", "kept", "failed", "removed"}]
        /\ picked' \in [File -> Nat]
        /\ \A g \in File : picked'[g] <= opening'
        /\ \A g \in File : files'[g] = "uploading" => picked'[g] \in 1..opening'
    BY <2>1
  <2>9. QED
    BY <2>1, <2>5, <2>6, <2>7, <2>8
<1>4. ASSUME NEW f \in File, Fail(f) PROVE FilesInv'
  BY <1>4 DEF Fail, Becomes, UploadedFilesAreKept
<1>5. CASE RemoveShown
  <2> DEFINE list == latest[opening]
  <2>1. PICK i \in DOMAIN value :
          /\ latest' = [latest EXCEPT ![opening] = RemoveAt(list, i)]
          /\ stored' = latest'[opening] /\ value' = stored'
          /\ files' = [files EXCEPT ![list[i]] = "removed"]
          /\ UNCHANGED <<picked, opening, late>>
    BY <1>5 DEF RemoveShown, Becomes
  <2>2. list \in Seq(File)
    OBVIOUS
  <2>3. i \in 1..Len(list) /\ list[i] \in File
    OBVIOUS
  <2>4. /\ RemoveAt(list, i) \in Seq(File)
        /\ \A j \in 1..Len(list) : list[j] # list[i] =>
             \E k \in 1..Len(RemoveAt(list, i)) : RemoveAt(list, i)[k] = list[j]
    BY <2>2, <2>3, RemovingOne
  <2>5. stored' = RemoveAt(list, i) /\ latest'[opening] = RemoveAt(list, i) /\ value' = RemoveAt(list, i)
    BY <2>1
  <2>6. UploadedFilesAreKept'
    <3> SUFFICES ASSUME ~ late', NEW f \in File, files'[f] = "kept", picked'[f] = opening'
                 PROVE  f \in ToSet(stored')
      BY DEF UploadedFilesAreKept
    <3>1. f # list[i] /\ files[f] = "kept" /\ picked[f] = opening /\ ~ late
      BY <2>1, <2>3
    <3>2. f \in ToSet(list)
      BY <3>1 DEF UploadedFilesAreKept
    <3>3. PICK j \in 1..Len(list) : list[j] = f
      BY <2>2, <3>2 DEF ToSet
    <3>4. PICK k \in 1..Len(RemoveAt(list, i)) : RemoveAt(list, i)[k] = f
      BY <2>4, <3>1, <3>3
    <3>5. DOMAIN RemoveAt(list, i) = 1..Len(RemoveAt(list, i))
      BY <2>4
    <3>6. QED
      BY <2>5, <3>4, <3>5 DEF ToSet
  <2> HIDE DEF list
  <2>7. /\ latest' \in [1..MaxOpenings -> Seq(File)] /\ stored' \in Seq(File)
        /\ value' \in Seq(File) /\ Len(value') <= Len(latest'[opening'])
        /\ (~ late' => stored' = latest'[opening'])
    <3>1. Len(RemoveAt(list, i)) \in Nat
      BY <2>4
    <3>2. QED
      BY <2>1, <2>4, <2>5, <3>1
  <2>8. QED
    BY <2>1, <2>3, <2>6, <2>7
<1>6. CASE Render
  <2>1. /\ value' = stored /\ latest' = [latest EXCEPT ![opening] = stored]
        /\ UNCHANGED <<stored, files, picked, opening, late>>
    BY <1>6 DEF Render
  <2>2. latest'[opening] = stored /\ Len(stored) \in Nat
    BY <2>1
  <2>3. UploadedFilesAreKept'
    BY <2>1 DEF UploadedFilesAreKept
  <2>4. QED
    BY <2>1, <2>2, <2>3
<1>7. CASE OpenAnother
  <2> DEFINE known == {f \in File : files[f] = "known"}
  <2>1. PICK has \in BoundedSeq(known, MaxAttached) :
          /\ opening < MaxOpenings /\ opening' = opening + 1 /\ late' = FALSE
          /\ stored' = has /\ value' = has
          /\ latest' = [latest EXCEPT ![opening'] = has]
          /\ files' = [f \in File |-> IF f \in ToSet(has) THEN "kept" ELSE files[f]]
          /\ picked' = [f \in File |-> IF f \in ToSet(has) THEN opening' ELSE picked[f]]
    BY <1>7 DEF OpenAnother
  <2>2. has \in Seq(known)
    BY DEF BoundedSeq, SeqOf
  <2>3. has \in Seq(File) /\ Len(has) \in Nat
    BY <2>2
  <2>4. opening' \in 1..MaxOpenings /\ latest'[opening'] = has
    BY <2>1
  <2>5. UploadedFilesAreKept'
    BY <2>1 DEF UploadedFilesAreKept
  <2>6. /\ latest' \in [1..MaxOpenings -> Seq(File)] /\ value' \in Seq(File) /\ stored' \in Seq(File)
        /\ Len(value') <= Len(latest'[opening']) /\ stored' = latest'[opening']
    BY <2>1, <2>3, <2>4
  <2> HIDE DEF known
  <2>7. /\ files' \in [File -> {"known", "uploading", "kept", "failed", "removed"}]
        /\ picked' \in [File -> Nat]
        /\ \A f \in File : picked'[f] <= opening'
        /\ \A f \in File : files'[f] = "uploading" => picked'[f] \in 1..opening'
    BY <2>1
  <2>8. QED
    BY <2>1, <2>4, <2>5, <2>6, <2>7
<1>8. QED
  BY <1>1, <1>2, <1>3, <1>4, <1>5, <1>6, <1>7 DEF FilesNext

\* A file that a news item had, or that was uploaded for it, and that was not removed is sent
\* with it, as long as no upload of an earlier opening ends, for any number of files and
\* openings and any order of answers, renderings and removals.
THEOREM UploadedFilesAreKeptHolds == Spec => []UploadedFilesAreKept
<1>1. Init => FilesInv
  BY FilesStart DEF Init
<1>2. FilesInv /\ [Next]_vars => FilesInv'
  BY FilesStep, StepsOfScreens
<1>3. FilesInv => UploadedFilesAreKept
  BY DEF FilesInv
<1>4. QED
  BY <1>1, <1>2, <1>3, PTL DEF Spec

------------------------------------------------------------------------------------
(* Questions. *)

Asking(c) == c.kind \in {"generate", "execute"}

\* Of each question there is one call at a time, and none of one that was not asked.
AskInv ==
  /\ reqSeq \in Nat
  /\ ask = [phase |-> ask.phase, shown |-> ask.shown, path |-> ask.path, clicks |-> ask.clicks]
  /\ \A c \in calls : Asking(c) => c.of.of \in Nat /\ c.of.of <= reqSeq
  /\ \A c, d \in calls : (Asking(c) /\ Asking(d) /\ c.of.of = d.of.of) => c = d
  /\ ErrorIsOfTheLatest

LEMMA AskStart == ASSUME AskInit PROVE AskInv
  BY DEF AskInit, AskInv, ErrorIsOfTheLatest, Asking

LEMMA AskStep == ASSUME AskInv, [AskNext]_askVars PROVE AskInv'
<1> USE DEF AskInv, Asking, ErrorIsOfTheLatest
<1>1. CASE UNCHANGED askVars
  BY <1>1 DEF askVars
<1>2. CASE Submit
  <2> DEFINE new == Call("generate", Root(reqSeq + 1), 0)
  <2>1. new.kind = "generate" /\ new.of.of = reqSeq + 1
    BY DEF Call, Root
  <2> HIDE DEF new
  <2>2. /\ reqSeq' = reqSeq + 1 /\ calls' = calls \cup {new}
        /\ ask' = [ask EXCEPT !.phase = "thinking"]
    BY <1>2 DEF Submit, new
  <2>3. QED
    BY <2>1, <2>2
<1>3. CASE Drill
  BY <1>3 DEF Drill, Call
<1>4. CASE DrillUp
  BY <1>4 DEF DrillUp
<1>5. ASSUME NEW c \in calls, Generated(c) PROVE AskInv'
  BY <1>5 DEF Generated, Call
<1>6. ASSUME NEW c \in calls, Executed(c) PROVE AskInv'
  BY <1>6 DEF Executed
<1>7. ASSUME NEW c \in calls, Failed(c) PROVE AskInv'
  BY <1>7 DEF Failed
<1>8. ASSUME NEW c \in calls, Drilled(c) PROVE AskInv'
  BY <1>8 DEF Drilled, Child
<1>9. ASSUME NEW c \in calls, DrillFailed(c) PROVE AskInv'
  BY <1>9 DEF DrillFailed
<1>10. QED
  BY <1>1, <1>2, <1>3, <1>4, <1>5, <1>6, <1>7, <1>8, <1>9 DEF AskNext

\* The error on the screen is that of the last question, in whatever order calls come back.
THEOREM ErrorIsOfTheLatestHolds == Spec => []ErrorIsOfTheLatest
<1>1. Init => AskInv
  BY AskStart DEF Init
<1>2. AskInv /\ [Next]_vars => AskInv'
  BY AskStep, StepsOfScreens
<1>3. AskInv => ErrorIsOfTheLatest
  BY DEF AskInv
<1>4. QED
  BY <1>1, <1>2, <1>3, PTL DEF Spec

------------------------------------------------------------------------------------
(* Filters. *)

\* The call that is not cancelled is the one for the filters on the screen.
ViewerInv ==
  /\ viewer.live \in Nat /\ viewer.error \in BOOLEAN
  /\ viewer = [live |-> viewer.live, computed |-> viewer.computed, error |-> viewer.error,
               path |-> viewer.path, clicks |-> viewer.clicks]
  /\ \A r \in runs : /\ r.cancelled \in BOOLEAN
                     /\ r = [kind |-> r.kind, of |-> r.of, click |-> r.click,
                             cancelled |-> r.cancelled]
  /\ \A r \in runs : (r.kind = "run" /\ ~ r.cancelled) => r.of = Root(viewer.live)
  /\ ComputedIsWanted

LEMMA ViewerStart == ASSUME ViewerInit PROVE ViewerInv
  BY DEF ViewerInit, ViewerInv, ComputedIsWanted, Run

LEMMA ViewerStep == ASSUME ViewerInv, [ViewerNext]_viewerVars PROVE ViewerInv'
<1> USE DEF ViewerInv, ComputedIsWanted
<1>1. CASE UNCHANGED viewerVars
  BY <1>1 DEF viewerVars
<1>2. CASE ChangeFilter
  <2> DEFINE new == Run("run", Root(viewer.live + 1), 0)
             old(r) == [r EXCEPT !.cancelled = r.cancelled \/ r.kind = "run"]
  <2>1. /\ new.kind = "run" /\ new.of = Root(viewer.live + 1) /\ new.cancelled = FALSE
        /\ new = [kind |-> new.kind, of |-> new.of, click |-> new.click, cancelled |-> FALSE]
    BY DEF Run
  <2>2. ASSUME NEW r \in runs
        PROVE  /\ old(r).kind = r.kind /\ old(r).cancelled = (r.cancelled \/ r.kind = "run")
               /\ old(r) = [kind |-> old(r).kind, of |-> old(r).of, click |-> old(r).click,
                            cancelled |-> old(r).cancelled]
    OBVIOUS
  <2>3. /\ runs' = {old(r) : r \in runs} \cup {new}
        /\ viewer' = [viewer EXCEPT !.live = viewer.live + 1]
    BY <1>2 DEF ChangeFilter
  <2> HIDE DEF new, old
  <2>4. viewer'.live = viewer.live + 1 /\ viewer'.error = viewer.error
        /\ viewer'.computed = viewer.computed
        /\ viewer' = [live |-> viewer'.live, computed |-> viewer'.computed,
                      error |-> viewer'.error, path |-> viewer'.path, clicks |-> viewer'.clicks]
    BY <2>3
  <2>5. ASSUME NEW r \in runs'
        PROVE  /\ r.cancelled \in BOOLEAN
               /\ r = [kind |-> r.kind, of |-> r.of, click |-> r.click, cancelled |-> r.cancelled]
               /\ (r.kind = "run" /\ ~ r.cancelled) => r.of = Root(viewer'.live)
    <3>1. CASE r = new
      BY <2>1, <2>4, <3>1
    <3>2. CASE r # new
      <4>1. PICK q \in runs : r = old(q)
        BY <2>3, <3>2
      <4>2. r.cancelled = (q.cancelled \/ q.kind = "run") /\ r.kind = q.kind
        BY <2>2, <4>1
      <4>3. r.cancelled \in BOOLEAN /\ (r.kind = "run" => r.cancelled)
        BY <4>2
      <4>4. QED
        BY <2>2, <4>1, <4>3
    <3>3. QED
      BY <3>1, <3>2
  <2>6. ComputedIsWanted'
    BY <2>1, <2>3, <2>4
  <2>7. QED
    BY <2>4, <2>5, <2>6
<1>3. CASE DrillIn
  <2> DEFINE new == Run("drill", ActiveDef, viewer.clicks + 1)
  <2>1. /\ new.kind = "drill" /\ new.cancelled = FALSE
        /\ new = [kind |-> new.kind, of |-> new.of, click |-> new.click, cancelled |-> FALSE]
    BY DEF Run
  <2> HIDE DEF new
  <2>2. /\ runs' = runs \cup {new} /\ viewer' = [viewer EXCEPT !.clicks = viewer.clicks + 1]
    BY <1>3 DEF DrillIn, new
  <2>3. QED
    BY <2>1, <2>2
<1>4. CASE BackUp
  BY <1>4 DEF BackUp
<1>5. ASSUME NEW r \in runs, Computed(r) PROVE ViewerInv'
  BY <1>5 DEF Computed
<1>6. ASSUME NEW r \in runs, RunFailed(r) PROVE ViewerInv'
  BY <1>6 DEF RunFailed
<1>7. ASSUME NEW r \in runs, DrilledIn(r) PROVE ViewerInv'
  BY <1>7 DEF DrilledIn
<1>8. ASSUME NEW r \in runs, DrillInFailed(r) PROVE ViewerInv'
  BY <1>8 DEF DrillInFailed
<1>9. QED
  BY <1>1, <1>2, <1>3, <1>4, <1>5, <1>6, <1>7, <1>8 DEF ViewerNext

\* The result under the filter bar is that of the filters, or it is on its way, or an error is
\* shown, however often filters change and in whatever order the answers come.
THEOREM ComputedIsWantedHolds == Spec => []ComputedIsWanted
<1>1. Init => ViewerInv
  BY ViewerStart DEF Init
<1>2. ViewerInv /\ [Next]_vars => ViewerInv'
  BY ViewerStep, StepsOfScreens
<1>3. ViewerInv => ComputedIsWanted
  BY DEF ViewerInv
<1>4. QED
  BY <1>1, <1>2, <1>3, PTL DEF Spec

------------------------------------------------------------------------------------
(* The phone. *)

Tokens == 0..MaxGrants
Tasks(pcs) == [pc : {"idle"} \cup pcs, token : Tokens]
Unused(token) == token = 0 \/ redeemed[token] = 0

\* Only pairs that were given go round, at most one refresh is under way, and nothing is while
\* the application starts.
SessionTypes ==
  /\ granted \in Tokens /\ redeemed \in [1..MaxGrants -> Nat]
  /\ memory \in [access : Tokens, refresh : Tokens] /\ store \in [access : Tokens, refresh : Tokens]
  /\ refreshes \in [Caller -> Tasks({"asking", "granted", "access", "refresh"})]
  /\ signIn \in Tasks({"access", "refresh"})
  /\ torn \in BOOLEAN /\ phone \in {"loading", "ready"}
  /\ memory.refresh <= granted /\ store.refresh <= granted /\ signIn.token <= granted
  /\ \A c \in Caller : refreshes[c].token <= granted
  /\ \A g \in 1..MaxGrants : g > granted => redeemed[g] = 0
  /\ \A c, d \in Caller : (refreshes[c].pc # "idle" /\ refreshes[d].pc # "idle") => c = d
  /\ phone = "loading" => signIn.pc = "idle" /\ signOut.pc = "idle" /\ ~ Refreshing

\* A token that may still be redeemed was not: the one that is asked with, the one that was
\* just given, the one in memory unless it is being replaced, and the one a restart will read.
OneUse ==
  ~ torn =>
    /\ \A g \in 1..MaxGrants : redeemed[g] <= 1
    /\ \A c \in Caller : refreshes[c].pc = "asking" => refreshes[c].token # 0
    /\ \A c \in Caller : refreshes[c].pc # "idle" => Unused(refreshes[c].token)
    /\ (\A c \in Caller : refreshes[c].pc # "granted") => Unused(memory.refresh)
    /\ phone = "loading" => Unused(store.refresh)

\* No call is made before the application has read its keys.
AsleepAtStart ==
  /\ requests = [c \in Caller |-> requests[c]]
  /\ phone = "loading" => \A c \in Caller : requests[c].pc = "idle"

SessionInv == SessionTypes /\ OneUse /\ AsleepAtStart

LEMMA SessionStart == ASSUME SessionInit PROVE SessionInv
<1> USE SessionAssumption DEF SessionInit, Pair, NoTask, Refreshing
<1>1. refreshes \in [Caller -> Tasks({"asking", "granted", "access", "refresh"})]
  BY DEF Tasks, Tokens
<1>2. \A c \in Caller : refreshes[c].token = 0 /\ refreshes[c].pc = "idle"
  OBVIOUS
<1>3. signIn \in Tasks({"access", "refresh"})
  BY DEF Tasks, Tokens
<1>4. /\ memory \in [access : Tokens, refresh : Tokens] /\ store \in [access : Tokens, refresh : Tokens]
      /\ granted \in Tokens /\ redeemed \in [1..MaxGrants -> Nat]
      /\ memory.refresh <= granted /\ store.refresh <= granted /\ signIn.token <= granted
  BY DEF Tokens
<1>5. SessionTypes
  BY <1>1, <1>2, <1>3, <1>4 DEF SessionTypes
<1>6. OneUse
  BY DEF OneUse, Unused
<1>7. AsleepAtStart
  BY DEF AsleepAtStart, NoCall
<1>8. QED
  BY <1>5, <1>6, <1>7 DEF SessionInv

LEMMA AsleepStep ==
  ASSUME SessionTypes, AsleepAtStart, [SessionNext]_sessionVars
  PROVE  AsleepAtStart'
<1> USE SessionAssumption DEF SessionTypes, AsleepAtStart, Refreshing, NoCall
<1>1. CASE UNCHANGED sessionVars
  BY <1>1 DEF sessionVars, lifeVars
<1>2. CASE Start
  BY <1>2 DEF Start, AskMe
<1>3. CASE Expire
  BY <1>3 DEF Expire, lifeVars
<1>4. CASE CompleteSignIn
  BY <1>4 DEF CompleteSignIn, lifeVars
<1>5. CASE StoreSignIn
  BY <1>5 DEF StoreSignIn, lifeVars, AskMe
<1>6. CASE SignOut
  BY <1>6 DEF SignOut, lifeVars
<1>7. CASE StoreSignOut
  BY <1>7 DEF StoreSignOut, lifeVars
<1>8. CASE Kill
  BY <1>8 DEF Kill
<1>9. ASSUME NEW c \in Caller, ApiFetch(c) PROVE AsleepAtStart'
  BY <1>9 DEF ApiFetch, lifeVars
<1>10. ASSUME NEW c \in Caller, Succeed(c) \/ Lose(c) PROVE AsleepAtStart'
  BY <1>10 DEF Succeed, Lose, lifeVars, Finish
<1>11. ASSUME NEW c \in Caller, Unauthorized(c) PROVE AsleepAtStart'
  BY <1>11 DEF Unauthorized, lifeVars, Finish
<1>12. ASSUME NEW c \in Caller, Redeem(c) \/ KeepTokens(c) \/ DropTokens(c) \/ StoreAccess(c)
       PROVE  AsleepAtStart'
  BY <1>12 DEF Redeem, KeepTokens, DropTokens, StoreAccess, lifeVars
<1>13. ASSUME NEW c \in Caller, StoreRefresh(c) PROVE AsleepAtStart'
  BY <1>13 DEF StoreRefresh, lifeVars, Resume, Finish
<1>14. QED
  BY <1>1, <1>2, <1>3, <1>4, <1>5, <1>6, <1>7, <1>8, <1>9, <1>10, <1>11, <1>12, <1>13
  DEF SessionNext, SessionStep

LEMMA TokensStep ==
  ASSUME SessionInv, [SessionNext]_sessionVars
  PROVE  SessionTypes' /\ OneUse'
<1> USE SessionAssumption DEF SessionInv, SessionTypes, OneUse, Tokens, Tasks, Unused, Refreshing,
          Pair, Task, NoTask, AsleepAtStart
<1> DEFINE Same == UNCHANGED <<idpVars, tokenVars, lifeVars, refreshes, signIn, signOut>>
<1>1. ASSUME Same PROVE (SessionTypes /\ OneUse)'
  BY <1>1 DEF idpVars, tokenVars, lifeVars
<1>2. CASE UNCHANGED sessionVars
  BY <1>1, <1>2 DEF sessionVars
<1>3. CASE Start
  BY <1>3 DEF Start, idpVars
<1>4. CASE Expire
  BY <1>4 DEF Expire, tokenVars, lifeVars
<1>5. CASE CompleteSignIn
  BY <1>5 DEF CompleteSignIn, lifeVars
<1>6. CASE StoreSignIn
  BY <1>6 DEF StoreSignIn, WriteKeys, idpVars, lifeVars
<1>7. CASE SignOut
  BY <1>7 DEF SignOut, idpVars, lifeVars
<1>8. CASE StoreSignOut
  BY <1>8 DEF StoreSignOut, WriteKeys, idpVars, lifeVars
<1>9. CASE Kill
  <2>1. /\ UNCHANGED <<granted, redeemed, store>> /\ memory' = Pair(0, 0) /\ phone' = "loading"
        /\ refreshes' = [c \in Caller |-> NoTask] /\ signIn' = NoTask /\ signOut' = NoTask
        /\ torn' \in BOOLEAN
    BY <1>9 DEF Kill, idpVars
  <2>2. ~ torn' => ~ torn /\ ~ Refreshing /\ store = memory
    BY <1>9 DEF Kill
  <2>3. ~ torn' => Unused(store.refresh)
    BY <2>2
  <2>4. SessionTypes'
    BY <2>1
  <2>5. OneUse'
    BY <2>1, <2>2, <2>3
  <2>6. QED
    BY <2>4, <2>5
<1>10. ASSUME NEW c \in Caller, ApiFetch(c) \/ Succeed(c) \/ Lose(c) PROVE (SessionTypes /\ OneUse)'
  BY <1>1, <1>10 DEF ApiFetch, Succeed, Lose
<1>11. ASSUME NEW c \in Caller, Unauthorized(c) PROVE (SessionTypes /\ OneUse)'
  <2>1. UNCHANGED <<granted, redeemed, memory, store, torn, phone, signIn, signOut>>
    BY <1>11 DEF Unauthorized, idpVars, tokenVars, lifeVars
  <2>2. \/ UNCHANGED refreshes
        \/ /\ ~ Refreshing /\ memory.refresh # 0
           /\ refreshes' = [refreshes EXCEPT ![c] = [pc |-> "asking", token |-> memory.refresh]]
    BY <1>11 DEF Unauthorized
  <2>3. CASE UNCHANGED refreshes
    BY <2>1, <2>3
  <2>4. CASE /\ ~ Refreshing /\ memory.refresh # 0
             /\ refreshes' = [refreshes EXCEPT ![c] = [pc |-> "asking", token |-> memory.refresh]]
    <3> DEFINE new == [pc |-> "asking", token |-> memory.refresh]
    <3>1. /\ memory.refresh \in 0..MaxGrants /\ memory.refresh <= granted /\ memory.refresh # 0
          /\ \A d \in Caller : refreshes[d].pc = "idle"
          /\ refreshes' = [refreshes EXCEPT ![c] = new]
      BY <2>4
    <3>2. new \in [pc : {"idle", "asking", "granted", "access", "refresh"}, token : 0..MaxGrants]
      BY <3>1
    <3>3. new.token = memory.refresh /\ new.pc = "asking"
      OBVIOUS
    <3> HIDE DEF new
    <3>4. refreshes'[c] = new /\ \A d \in Caller : d # c => refreshes'[d] = refreshes[d]
      BY <3>1
    <3>5. refreshes' \in [Caller -> [pc : {"idle"} \cup {"asking", "granted", "access", "refresh"},
                                     token : 0..MaxGrants]]
      BY <3>1, <3>2
    <3>6. phone = "ready" /\ phone' = "ready"
      BY <1>11, <2>1 DEF Unauthorized
    <3>7. /\ \A d \in Caller : refreshes'[d].token <= granted
          /\ \A d, e \in Caller : (refreshes'[d].pc # "idle" /\ refreshes'[e].pc # "idle") => d = e
      BY <3>1, <3>3, <3>4
    <3>8. SessionTypes'
      BY <2>1, <3>5, <3>6, <3>7
    <3>9. ~ torn => Unused(memory.refresh)
      BY <3>1
    <3>10. OneUse'
      BY <2>1, <3>1, <3>3, <3>4, <3>6, <3>9
    <3>11. QED
      BY <3>8, <3>10
  <2>5. QED
    BY <2>2, <2>3, <2>4
<1>12. ASSUME NEW c \in Caller, Redeem(c) PROVE (SessionTypes /\ OneUse)'
  <2> DEFINE t == refreshes[c].token
  <2>1. /\ UNCHANGED <<memory, store, torn, phone, signIn, signOut>>
        /\ refreshes[c].pc = "asking" /\ granted < MaxGrants /\ granted' = granted + 1
        /\ redeemed' = [redeemed EXCEPT ![t] = redeemed[t] + 1]
        /\ refreshes' = [refreshes EXCEPT ![c] = [pc |-> "granted", token |-> granted + 1]]
    BY <1>12 DEF Redeem, tokenVars, lifeVars
  <2>2. t \in Tokens /\ t <= granted /\ phone # "loading"
    <3>1. refreshes[c] \in Tasks({"asking", "granted", "access", "refresh"})
      OBVIOUS
    <3>2. Refreshing
      BY <2>1
    <3>3. QED
      BY <3>1, <3>2
  <2>3. redeemed' \in [1..MaxGrants -> Nat]
    <3>1. redeemed \in [1..MaxGrants -> Nat]
      OBVIOUS
    <3>2. t \in 1..MaxGrants => redeemed[t] + 1 \in Nat
      BY <3>1
    <3> HIDE DEF t
    <3>3. QED
      BY <2>1, <3>1, <3>2
  <2>4. \A g \in 1..MaxGrants : g # t => redeemed'[g] = redeemed[g]
    BY <2>1
  <2>5. SessionTypes'
    BY <2>1, <2>2, <2>3, <2>4
  <2>6. ASSUME ~ torn PROVE t \in 1..MaxGrants /\ redeemed[t] = 0 /\ redeemed'[t] = 1
    <3>1. t # 0 /\ Unused(t)
      BY <2>1, <2>6
    <3>2. t \in 1..MaxGrants /\ redeemed[t] = 0
      BY <2>2, <3>1
    <3>3. QED
      BY <2>1, <3>2
  <2>7. OneUse'
    BY <2>1, <2>2, <2>4, <2>6
  <2>8. QED
    BY <2>5, <2>7
<1>13. ASSUME NEW c \in Caller, KeepTokens(c) PROVE (SessionTypes /\ OneUse)'
  BY <1>13 DEF KeepTokens, idpVars, lifeVars
<1>14. ASSUME NEW c \in Caller, DropTokens(c) PROVE (SessionTypes /\ OneUse)'
  BY <1>14 DEF DropTokens, idpVars, lifeVars
<1>15. ASSUME NEW c \in Caller, StoreAccess(c) PROVE (SessionTypes /\ OneUse)'
  BY <1>15 DEF StoreAccess, WriteKeys, idpVars, lifeVars
<1>16. ASSUME NEW c \in Caller, StoreRefresh(c) PROVE (SessionTypes /\ OneUse)'
  BY <1>16 DEF StoreRefresh, WriteKeys, idpVars, lifeVars
<1>17. QED
  BY <1>2, <1>3, <1>4, <1>5, <1>6, <1>7, <1>8, <1>9, <1>10, <1>11, <1>12, <1>13, <1>14, <1>15,
     <1>16 DEF SessionNext, SessionStep

LEMMA SessionStepKeeps == ASSUME SessionInv, [SessionNext]_sessionVars PROVE SessionInv'
  BY AsleepStep, TokensStep DEF SessionInv

\* A refresh token is redeemed once, for any number of calls and pairs of tokens, unless the
\* application was killed with a refresh under way or a store that was behind its memory.
THEOREM RefreshTokenUsedOnceHolds == Spec => []RefreshTokenUsedOnce
<1>1. Init => SessionInv
  BY SessionStart DEF Init
<1>2. SessionInv /\ [Next]_vars => SessionInv'
  BY SessionStepKeeps, StepsOfScreens
<1>3. SessionInv => RefreshTokenUsedOnce
  BY DEF SessionInv, SessionTypes, OneUse, RefreshTokenUsedOnce
<1>4. QED
  BY <1>1, <1>2, <1>3, PTL DEF Spec

------------------------------------------------------------------------------------
(* Forms. *)

LEMMA LettersAreNumbers ==
  Unlimited \in Nat \ {0} /\ Letters \subseteq Nat /\ \A n \in Letters : n < Unlimited
  BY FormsAssumption

\* A form lets in no more than the server takes, and asks for what the server asks for, but
\* for what the lists name.
Fits(field, here, there) ==
  /\ here.limit \in Nat /\ there.max \in Nat \ {0}
  /\ field \in LimitedByTheServer \/ there.max = Unlimited \/ here.limit <= there.max
  /\ here.asks # "no" => there.notEmpty
  /\ there.notEmpty => field \in AskedForByTheServer \/ here.asks # "no"
  /\ here.asks \in {"given", "text", "no"}
  /\ here.sends \in {"asIs", "trim", "orEmpty", "orNull", "orKeep"}
  /\ 0 \in here.spaces
LEMMA FormsFit ==
  ASSUME NEW page \in DOMAIN Drawers, NEW item \in DOMAIN Drawers[page]
  PROVE  Fits([page |-> page, item |-> item], Drawers[page][item], Rules[page][item])
<1>1. CASE page = "News"
  <2>0. /\ [page |-> "News", item |-> "image"] \in AskedForByTheServer
        /\ [page |-> "News", item |-> "date"] \in LimitedByTheServer
    BY DEF AskedForByTheServer, LimitedByTheServer
  <2>1. \A i \in DOMAIN NewsForm :
           Fits([page |-> "News", item |-> i], NewsForm[i], NewsRules[i])
    BY <2>0, LettersAreNumbers DEF NewsForm, NewsRules, Fits, Item, Word, Image, PathLength, GroupLength, CityLength, Rule
  <2>2. QED
    BY <1>1, <2>1 DEF Drawers, Rules
<1>2. CASE page = "Categories"
  <2>1. \A i \in DOMAIN CategoriesForm :
           Fits([page |-> "Categories", item |-> i], CategoriesForm[i], CategoriesRules[i])
    BY LettersAreNumbers DEF CategoriesForm, CategoriesRules, Fits, Item, Word, Image, PathLength, GroupLength, CityLength,
      Rule, AskedForByTheServer, LimitedByTheServer
  <2>2. QED
    BY <1>2, <2>1 DEF Drawers, Rules
<1>3. CASE page = "FooterLinks"
  <2>1. \A i \in DOMAIN FooterLinksForm :
           Fits([page |-> "FooterLinks", item |-> i], FooterLinksForm[i], FooterLinksRules[i])
    BY LettersAreNumbers DEF FooterLinksForm, FooterLinksRules, Fits, Item, Word, Image, PathLength, GroupLength, CityLength,
      Rule, AskedForByTheServer, LimitedByTheServer
  <2>2. QED
    BY <1>3, <2>1 DEF Drawers, Rules
<1>4. CASE page = "QuickLinks"
  <2>1. \A i \in DOMAIN QuickLinksForm :
           Fits([page |-> "QuickLinks", item |-> i], QuickLinksForm[i], QuickLinksRules[i])
    BY LettersAreNumbers DEF QuickLinksForm, QuickLinksRules, Fits, Item, Word, Image, PathLength, GroupLength, CityLength,
      Rule, AskedForByTheServer, LimitedByTheServer
  <2>2. QED
    BY <1>4, <2>1 DEF Drawers, Rules
<1>5. CASE page = "Units"
  <2>0. [page |-> "Units", item |-> "description"] \in AskedForByTheServer
    BY DEF AskedForByTheServer, LimitedByTheServer
  <2>1. \A i \in DOMAIN UnitsForm :
           Fits([page |-> "Units", item |-> i], UnitsForm[i], UnitsRules[i])
    BY <2>0, LettersAreNumbers DEF UnitsForm, UnitsRules, Fits, Item, Word, Image, PathLength, GroupLength, CityLength, Rule
  <2>2. QED
    BY <1>5, <2>1 DEF Drawers, Rules
<1>6. CASE page = "OrgPages"
  <2>0. /\ [page |-> "OrgPages", item |-> "intro"] \in AskedForByTheServer
        /\ [page |-> "OrgPages", item |-> "slug"] \in LimitedByTheServer
        /\ [page |-> "OrgPages", item |-> "title"] \in LimitedByTheServer
    BY DEF AskedForByTheServer, LimitedByTheServer
  <2>1. \A i \in DOMAIN OrgPagesForm :
           Fits([page |-> "OrgPages", item |-> i], OrgPagesForm[i], OrgPagesRules[i])
    BY <2>0, LettersAreNumbers DEF OrgPagesForm, OrgPagesRules, Fits, Item, Word, Image, PathLength, GroupLength, CityLength, Rule
  <2>2. QED
    BY <1>6, <2>1 DEF Drawers, Rules
<1>7. CASE page = "People"
  <2>1. \A i \in DOMAIN PeopleForm :
           Fits([page |-> "People", item |-> i], PeopleForm[i], PeopleRules[i])
    BY LettersAreNumbers DEF PeopleForm, PeopleRules, Fits, Item, Word, Image, PathLength, GroupLength, CityLength,
      Rule, AskedForByTheServer, LimitedByTheServer
  <2>2. QED
    BY <1>7, <2>1 DEF Drawers, Rules
<1>8. CASE page = "Slides"
  <2>1. \A i \in DOMAIN SlidesForm :
           Fits([page |-> "Slides", item |-> i], SlidesForm[i], SlidesRules[i])
    BY LettersAreNumbers DEF SlidesForm, SlidesRules, Fits, Item, Word, Image, PathLength, GroupLength, CityLength,
      Rule, AskedForByTheServer, LimitedByTheServer
  <2>2. QED
    BY <1>8, <2>1 DEF Drawers, Rules
<1>9. CASE page = "Forms"
  <2>1. \A i \in DOMAIN FormsForm :
           Fits([page |-> "Forms", item |-> i], FormsForm[i], FormsRules[i])
    BY LettersAreNumbers DEF FormsForm, FormsRules, Fits, Item, Word, Image, PathLength, GroupLength, CityLength,
      Rule, AskedForByTheServer, LimitedByTheServer
  <2>2. QED
    BY <1>9, <2>1 DEF Drawers, Rules
<1>10. CASE page = "Settings"
  <2>1. \A i \in DOMAIN SettingsForm :
           Fits([page |-> "Settings", item |-> i], SettingsForm[i], SettingsRules[i])
    BY LettersAreNumbers DEF SettingsForm, SettingsRules, Fits, Item, Word, Image, PathLength, GroupLength, CityLength,
      Rule, AskedForByTheServer, LimitedByTheServer
  <2>2. QED
    BY <1>10, <2>1 DEF Drawers, Rules
<1>11. CASE page = "TabGroup"
  <2>1. \A i \in DOMAIN TabGroupForm :
           Fits([page |-> "TabGroup", item |-> i], TabGroupForm[i], TabGroupRules[i])
    BY LettersAreNumbers DEF TabGroupForm, TabGroupRules, Fits, Item, Word, Image, PathLength, GroupLength, CityLength,
      Rule, AskedForByTheServer, LimitedByTheServer
  <2>2. QED
    BY <1>11, <2>1 DEF Drawers, Rules
<1>12. CASE page = "TabItem"
  <2>1. \A i \in DOMAIN TabItemForm :
           Fits([page |-> "TabItem", item |-> i], TabItemForm[i], TabItemRules[i])
    BY LettersAreNumbers DEF TabItemForm, TabItemRules, Fits, Item, Word, Image, PathLength, GroupLength, CityLength,
      Rule, AskedForByTheServer, LimitedByTheServer
  <2>2. QED
    BY <1>12, <2>1 DEF Drawers, Rules
<1>13. CASE page = "User"
  <2>0. [page |-> "User", item |-> "email"] \in LimitedByTheServer
    BY DEF AskedForByTheServer, LimitedByTheServer
  <2>1. \A i \in DOMAIN UserForm :
           Fits([page |-> "User", item |-> i], UserForm[i], UserRules[i])
    BY <2>0, LettersAreNumbers DEF UserForm, UserRules, Fits, Item, Word, Image, PathLength, GroupLength, CityLength, Rule
  <2>2. QED
    BY <1>13, <2>1 DEF Drawers, Rules
<1>14. CASE page = "WebProject"
  <2>1. \A i \in DOMAIN WebProjectForm :
           Fits([page |-> "WebProject", item |-> i], WebProjectForm[i], ProjectRules[i])
    BY LettersAreNumbers DEF WebProjectForm, ProjectRules, Fits, Item, Word, Image, PathLength, GroupLength, CityLength,
      Rule, AskedForByTheServer, LimitedByTheServer
  <2>2. QED
    BY <1>14, <2>1 DEF Drawers, Rules
<1>15. CASE page = "MobileProject"
  <2>1. \A i \in DOMAIN MobileProjectForm :
           Fits([page |-> "MobileProject", item |-> i], MobileProjectForm[i], ProjectRules[i])
    BY LettersAreNumbers DEF MobileProjectForm, ProjectRules, Fits, Item, Word, Image, PathLength, GroupLength, CityLength,
      Rule, AskedForByTheServer, LimitedByTheServer
  <2>2. QED
    BY <1>15, <2>1 DEF Drawers, Rules
<1>16. CASE page = "Submission"
  <2>1. \A i \in DOMAIN SubmissionForm :
           Fits([page |-> "Submission", item |-> i], SubmissionForm[i], SubmissionRules[i])
    BY LettersAreNumbers DEF SubmissionForm, SubmissionRules, Fits, Item, Word, Image, PathLength, GroupLength, CityLength,
      Rule, AskedForByTheServer, LimitedByTheServer
  <2>2. QED
    BY <1>16, <2>1 DEF Drawers, Rules
<1>17. CASE page = "Contact"
  <2>0. /\ [page |-> "Contact", item |-> "subject"] \in AskedForByTheServer
        /\ \A i \in {"name", "phone", "subject"} : [page |-> "Contact", item |-> i] \in LimitedByTheServer
    BY DEF AskedForByTheServer, LimitedByTheServer
  <2>1. \A i \in DOMAIN ContactForm :
           Fits([page |-> "Contact", item |-> i], ContactForm[i], ContactRules[i])
    BY <2>0, LettersAreNumbers DEF ContactForm, ContactRules, Fits, Item, Word, Image, PathLength, GroupLength, CityLength, Rule
  <2>2. QED
    BY <1>17, <2>1 DEF Drawers, Rules
<1>18. QED
  BY <1>1, <1>2, <1>3, <1>4, <1>5, <1>6, <1>7, <1>8, <1>9,
      <1>10, <1>11, <1>12, <1>13, <1>14, <1>15, <1>16, <1>17
  DEF Drawers

\* What becomes of a text, and whether a form with it is complete.
SentFor(t) ==
  IF Here.sends = "asIs" THEN t
  ELSE IF t # NoText /\ t.letters > 0 THEN Trim(t)
  ELSE IF Here.sends \in {"orNull", "orKeep"} THEN NoText ELSE EmptyText
CompleteWith(t) ==
  Here.asks = "no" \/ (t # NoText /\ (IF Here.asks = "text" THEN t.letters > 0 ELSE t # EmptyText))
\* What is typed fits in, what is stored is what would be sent for it, and a drawer that was
\* opened and left alone shows what is stored.
MayBe(t) == t \in [letters : Letters \cup {0}, space : {0, 1}] /\ LetsIn(t)
FormsInv ==
  /\ of = [page |-> of.page, item |-> of.item] /\ Fits(of, Here, There)
  /\ typed # NoText => MayBe(typed)
  /\ row # NoText => MayBe(row) /\ ~ Refused(row) /\ SentFor(row) = row /\ CompleteWith(row)
  /\ drawer \in {"waiting", "refused"} => CompleteWith(typed)
  /\ drawer = "refused" => Refused(Sent)
  /\ drawer = "open" /\ ~ touched /\ row # NoText => typed = row

LEMMA FormsStart == ASSUME FormsInit PROVE FormsInv
  BY FormsFit DEF FormsInit, FormsInv, Here, There

LEMMA TextsMayBe ==
  ASSUME NEW t \in Texts, LetsIn(t) PROVE MayBe(t)
  BY DEF Texts, Text, MayBe

\* What is sent for a text, when the server takes it, would be sent again as it is.
LEMMA SentIsStable ==
  ASSUME Fits(of, Here, There), NEW t, t # NoText => MayBe(t), CompleteWith(t),
         SentFor(t) # NoText, ~ Refused(SentFor(t))
  PROVE  /\ MayBe(SentFor(t)) /\ SentFor(SentFor(t)) = SentFor(t) /\ CompleteWith(SentFor(t))
<1> DEFINE s == SentFor(t)
<1>1. CASE Here.sends = "asIs"
  BY <1>1 DEF SentFor
<1>2. CASE Here.sends # "asIs" /\ t # NoText /\ t.letters > 0
  <2>1. s = [letters |-> t.letters, space |-> 0] /\ t.letters \in Letters
    BY <1>2 DEF SentFor, Trim, Text, MayBe
  <2>2. t.letters \in Nat /\ Long(t) \in Nat /\ t.letters <= Long(t)
    BY <2>1, <1>2, LettersAreNumbers DEF Long, MayBe
  <2>3. s # NoText /\ s.letters = t.letters /\ s.letters > 0 /\ s.space = 0
    BY <1>2, <2>1
  <2>4. Trim(s) = s
    BY <2>1, <2>3 DEF Trim, Text
  <2>5. MayBe(s)
    <3>1. Long(s) <= Long(t) /\ Long(s) \in Nat
      BY <2>2, <2>3 DEF Long
    <3>2. Long(t) <= Here.limit /\ Here.limit \in Nat
      BY <1>2 DEF MayBe, LetsIn, Fits
    <3>3. Long(s) <= Here.limit
      BY <2>2, <3>1, <3>2
    <3>4. QED
      BY <2>1, <2>3, <3>3 DEF MayBe, LetsIn, Fits
  <2>6. s # EmptyText
    BY <2>1, <2>3 DEF EmptyText, Text
  <2> HIDE DEF s
  <2>7. SentFor(s) = s
    BY <1>2, <2>3, <2>4 DEF SentFor
  <2>8. CompleteWith(s)
    BY <2>3, <2>6 DEF CompleteWith
  <2>9. QED
    BY <2>5, <2>7, <2>8 DEF s
<1>3. CASE Here.sends # "asIs" /\ ~ (t # NoText /\ t.letters > 0)
  <2>1. s = [letters |-> 0, space |-> 0] /\ Here.sends \notin {"orNull", "orKeep"}
    BY <1>3 DEF SentFor, EmptyText, Text
  <2>2. Here.asks = "no"
    BY <2>1 DEF Fits, Refused
  <2>3. SentFor(s) = s
    BY <1>3, <2>1 DEF SentFor, EmptyText, Text
  <2>4. MayBe(s)
    <3>1. Long(s) = 0 /\ Here.limit \in Nat
      BY <2>1 DEF Long, Fits
    <3>2. QED
      BY <2>1, <3>1 DEF MayBe, LetsIn, Fits
  <2>5. QED
    BY <2>2, <2>3, <2>4 DEF CompleteWith
<1>4. QED
  BY <1>1, <1>2, <1>3

LEMMA FormsStep == ASSUME FormsInv, [FormsNext]_formVars PROVE FormsInv'
<1>1. Sent = SentFor(typed) /\ Complete = CompleteWith(typed)
  BY DEF Sent, SentFor, Complete, CompleteWith
<1>2. CASE UNCHANGED formVars
  BY <1>2 DEF formVars, FormsInv, Here, There, Sent, SentFor, CompleteWith, MayBe, LetsIn, Refused
<1>3. ASSUME UNCHANGED of
      PROVE  /\ Here' = Here /\ There' = There
             /\ \A t : /\ MayBe(t)' = MayBe(t) /\ Refused(t)' = Refused(t)
                       /\ SentFor(t)' = SentFor(t) /\ CompleteWith(t)' = CompleteWith(t)
  BY <1>3 DEF Here, There, MayBe, LetsIn, Refused, SentFor, CompleteWith
<1>4. CASE Type
  <2>1. /\ UNCHANGED <<of, row>> /\ touched' = TRUE /\ drawer' = "open"
        /\ typed' \in Texts /\ LetsIn(typed')
    BY <1>4 DEF Type
  <2>2. MayBe(typed')
    BY <2>1, TextsMayBe
  <2>3. QED
    BY <1>3, <2>1, <2>2 DEF FormsInv
<1>5. CASE HandleSubmit
  <2>1. /\ UNCHANGED <<of, typed, touched, row>> /\ drawer' = "waiting" /\ CompleteWith(typed)
    BY <1>1, <1>5 DEF HandleSubmit
  <2>2. QED
    BY <1>3, <2>1 DEF FormsInv
<1>6. CASE Store
  <2>1. /\ UNCHANGED <<of, typed, touched>> /\ drawer' = "closed" /\ ~ Refused(Sent)
        /\ row' = row \/ row' = Sent
    BY <1>6 DEF Store
  <2>2. CompleteWith(typed)
    BY <1>6 DEF Store, FormsInv
  <2>3. QED
    BY <1>1, <1>3, <2>1, <2>2, SentIsStable DEF FormsInv
<1>7. CASE Refuse
  <2>1. /\ UNCHANGED <<of, typed, touched, row>> /\ drawer' = "refused" /\ Refused(Sent)
    BY <1>7 DEF Refuse
  <2>2. Refused(Sent)'
    BY <2>1 DEF Refused, Sent, Here, There
  <2>3. CompleteWith(typed)
    BY <1>7 DEF Refuse, FormsInv
  <2>4. QED
    BY <1>3, <2>1, <2>2, <2>3 DEF FormsInv
<1>8. CASE OpenDrawer
  <2>1. /\ UNCHANGED <<of, row>> /\ drawer' = "open" /\ typed' = row
    BY <1>8 DEF OpenDrawer
  <2>2. QED
    BY <1>3, <2>1 DEF FormsInv
<1>9. QED
  BY <1>2, <1>4, <1>5, <1>6, <1>7, <1>8 DEF FormsNext

\* Of a text with letters the server can only mind the length, and not that of a text that is
\* no longer than the form lets in where the form is the stricter one.
LEMMA LettersAreTaken ==
  ASSUME FormsInv, typed # NoText, typed.letters > 0, of \notin LimitedByTheServer
  PROVE  ~ Refused(Sent)
<1>1. typed \in [letters : Letters \cup {0}, space : {0, 1}] /\ typed.letters \in Letters
  BY DEF FormsInv, MayBe
<1>2. typed.letters \in Nat /\ typed.letters < Unlimited /\ Unlimited \in Nat
  BY <1>1, LettersAreNumbers
<1>3. /\ Sent \in [letters : Nat, space : {0, 1}]
      /\ Sent.letters = typed.letters /\ Sent.space <= typed.space
  <2>1. CASE Here.sends = "asIs"
    BY <1>1, <1>2, <2>1 DEF Sent
  <2>2. CASE Here.sends # "asIs"
    <3>1. Sent = [letters |-> typed.letters, space |-> 0]
      BY <2>2 DEF Sent, Trim, Text
    <3>2. QED
      BY <1>1, <1>2, <3>1
  <2>3. QED
    BY <2>1, <2>2
<1>4. Sent # NoText
  BY <1>3, FormsAssumption
<1>5. Long(Sent) \in Nat /\ Long(Sent) <= Long(typed) /\ Long(typed) \in Nat /\ Long(Sent) <= Unlimited
  BY <1>1, <1>2, <1>3 DEF Long
<1>6. Long(typed) <= Here.limit /\ Here.limit \in Nat
  BY DEF FormsInv, MayBe, LetsIn, Fits
<1>7. Long(Sent) <= There.max
  <2>1. There.max \in Nat /\ (There.max = Unlimited \/ Here.limit <= There.max)
    BY DEF FormsInv, Fits
  <2>2. QED
    BY <1>5, <1>6, <2>1
<1>8. There.max \in Nat
  BY DEF FormsInv, Fits
<1>9. Sent.letters # 0
  BY <1>2, <1>3
<1>10. QED
  BY <1>4, <1>5, <1>7, <1>8, <1>9 DEF Refused

\* A text without letters is refused only where the server asks for one.
LEMMA BlanksAreAskedFor ==
  ASSUME FormsInv, typed = NoText \/ typed.letters = 0, Refused(Sent)
  PROVE  There.notEmpty
<1>1. CASE Sent = NoText
  BY <1>1 DEF Refused
<1>2. CASE Sent # NoText
  <2>1. Sent = [letters |-> 0, space |-> 0] \/ (typed # NoText /\ Sent = typed)
    BY <1>2 DEF Sent, EmptyText, Text
  <2>2. Sent.letters = 0 /\ Sent.space \in {0, 1}
    BY <2>1 DEF FormsInv, MayBe
  <2>3. Long(Sent) <= There.max /\ There.max \in Nat /\ Long(Sent) \in Nat
    BY <2>2 DEF Long, FormsInv, Fits
  <2>4. QED
    BY <1>2, <2>3 DEF Refused
<1>3. QED
  BY <1>1, <1>2

LEMMA FormsFitIt == ASSUME FormsInv PROVE FormsFitTheServer
<1>1. OnlyKnownRefusals
  <2> SUFFICES ASSUME drawer = "refused"
               PROVE  \/ of \in AskedForByTheServer /\ (typed = NoText \/ typed.letters = 0)
                      \/ of \in LimitedByTheServer /\ Sent # NoText /\ Long(Sent) > There.max
                      \/ Here.asks = "given" /\ typed = Text(0, 1)
    BY DEF OnlyKnownRefusals
  <2>1. Refused(Sent) /\ CompleteWith(typed) /\ Fits(of, Here, There)
    BY DEF FormsInv
  <2>2. CASE typed = NoText \/ typed.letters = 0
    <3>1. There.notEmpty
      BY <2>1, <2>2, BlanksAreAskedFor
    <3>2. CASE Here.asks = "no"
      BY <2>1, <2>2, <3>1, <3>2 DEF Fits
    <3>3. CASE Here.asks = "given"
      <4>1. typed # NoText /\ typed # EmptyText
        BY <2>1, <3>3 DEF CompleteWith
      <4>2. typed \in [letters : Letters \cup {0}, space : {0, 1}] /\ typed.letters = 0
        BY <2>2, <4>1 DEF FormsInv, MayBe
      <4>3. typed = [letters |-> 0, space |-> 1]
        BY <4>1, <4>2 DEF EmptyText, Text
      <4>4. QED
        BY <3>3, <4>3 DEF Text
    <3>4. CASE Here.asks = "text"
      <4>1. typed # NoText /\ typed.letters > 0
        BY <2>1, <3>4 DEF CompleteWith
      <4>2. QED
        BY <2>2, <4>1
    <3>5. QED
      BY <2>1, <3>2, <3>3, <3>4 DEF Fits
  <2>3. CASE typed # NoText /\ typed.letters # 0
    <3>1. typed.letters > 0
      <4>1. typed.letters \in Letters \cup {0}
        <5>1. typed \in [letters : Letters \cup {0}, space : {0, 1}]
          BY <2>3 DEF FormsInv, MayBe
        <5>2. QED
          BY <5>1
      <4>2. typed.letters \in Nat
        <5>1. Letters \cup {0} \subseteq Nat
          BY LettersAreNumbers
        <5>2. QED
          BY <4>1, <5>1
      <4>3. typed.letters # 0
        BY <2>3
      <4>4. QED
        BY <4>2, <4>3
    <3>2. of \in LimitedByTheServer
      BY <2>1, <2>3, <3>1, LettersAreTaken
    <3>3. Sent # NoText /\ Sent.letters # 0
      <4>1. CASE Here.sends = "asIs"
        BY <2>3, <4>1 DEF Sent
      <4>2. CASE Here.sends # "asIs"
        <5>1. typed.letters \in Nat
          BY <2>3, LettersAreNumbers DEF FormsInv, MayBe
        <5>2. Sent = [letters |-> typed.letters, space |-> 0]
          BY <2>3, <3>1, <4>2 DEF Sent, Trim, Text
        <5>3. Sent \in [letters : Nat, space : {0, 1}] /\ Sent.letters = typed.letters
          BY <5>1, <5>2
        <5>4. QED
          BY <2>3, <5>3, FormsAssumption
      <4>3. QED
        BY <4>1, <4>2
    <3>4. QED
      BY <2>1, <3>2, <3>3 DEF Refused
  <2>4. QED
    BY <2>2, <2>3
<1>2. RowsCanBeSavedAgain
  <2> SUFFICES ASSUME drawer = "open", ~ touched, row # NoText
               PROVE  Complete /\ ~ Refused(Sent) /\ Sent = row
    BY DEF RowsCanBeSavedAgain
  <2>1. typed = row /\ ~ Refused(row) /\ SentFor(row) = row /\ CompleteWith(row)
    BY DEF FormsInv
  <2>2. Sent = row
    BY <2>1 DEF Sent, SentFor
  <2>3. Complete
    BY <2>1 DEF Complete, CompleteWith
  <2>4. QED
    BY <2>1, <2>2, <2>3
<1>3. QED
  BY <1>1, <1>2 DEF FormsFitTheServer

\* A form that is not there is not opened.
LEMMA NoForm == ASSUME FormIdle, [FormsNext]_formVars PROVE FormIdle'
  BY DEF FormIdle, FormsNext, formVars, Type, HandleSubmit, Store, Refuse, OpenDrawer

LEMMA StepsOfTheForms == ASSUME [Next]_vars PROVE [FormsNext]_formVars
<1>1. CASE UNCHANGED vars
  BY <1>1 DEF vars
<1>2. CASE Next
  BY <1>2 DEF Next, Form, Files, Ask, View, Phone, Browser, Site, FormsNext
<1>3. QED
  BY <1>1, <1>2

\* Every form fits the validator behind it: the server refuses nothing but what the two lists
\* name and nothing but spaces, and a stored row can be opened and saved as it is, for every
\* form, any texts, and any order of typing, refusals and openings.
THEOREM FormsFitTheServerHolds == Spec => []FormsFitTheServer
<1>1. Init => FormsInv \/ FormIdle
  BY FormsStart DEF Init
<1>2. (FormsInv \/ FormIdle) /\ [Next]_vars => (FormsInv \/ FormIdle)'
  BY FormsStep, NoForm, StepsOfTheForms
<1>3. FormsInv \/ FormIdle => FormsFitTheServer
  BY FormsFitIt DEF FormIdle, FormsFitTheServer, OnlyKnownRefusals, RowsCanBeSavedAgain
<1>4. QED
  BY <1>1, <1>2, <1>3, PTL DEF Spec
------------------------------------------------------------------------------------
(* The browser. *)
LEMMA StepsOfTheBrowser == ASSUME [Next]_vars PROVE [BrowserNext]_browserVars
<1>1. CASE UNCHANGED vars
  BY <1>1 DEF vars
<1>2. CASE Next
  BY <1>2 DEF Next, Form, Files, Ask, View, Phone, Browser, Site, BrowserNext
<1>3. QED
  BY <1>1, <1>2

BrowserTypes ==
  /\ app \in App /\ claims # Nobody
  /\ provider \in [user : {Nobody, claims}, ready : BOOLEAN]
  /\ callback \in [ran : BOOLEAN, exchanges : SUBSET {"sent", "no matching state"}]
  /\ sessions \in [App -> {"none", "valid", "expired"}]

\* A code is exchanged on the page it came to and once, and the page that shows the
\* application afterwards is not one of the sign-in.
OneExchange ==
  /\ callback.exchanges # {} => callback.ran /\ path = "/auth/callback"
  /\ \A e, f \in callback.exchanges : e = f
  /\ path = "/auth/callback" => ~ signedIn
  /\ signedIn => provider.ready /\ path \notin {"/login", "error"}

\* Who is known is not asked to sign in.
LEMMA LandsInside ==
  ASSUME NEW a \in App, NEW p, NEW who, who # Nobody,
         p \notin {"/auth/callback", "error"}
  PROVE  Land(a, p, who) \notin {"/login", "/auth/callback", "error"}
<1>1. Home(a) \in {"/ask", "/"}
  BY DEF Home
<1>2. QED
  BY <1>1 DEF Land

LEMMA BrowserStart == ASSUME BrowserInit \/ BrowserIdle PROVE BrowserTypes /\ OneExchange
<1>1. /\ app \in App /\ sessions = [a \in App |-> "none"]
      /\ provider = [user |-> Nobody, ready |-> FALSE]
      /\ callback = [ran |-> FALSE, exchanges |-> {}] /\ signedIn = FALSE
  BY DEF BrowserInit, BrowserIdle, NoCallback, App
<1>2. claims # Nobody
  BY BrowserAssumption DEF BrowserInit, BrowserIdle
<1>3. QED
  BY <1>1, <1>2 DEF BrowserTypes, OneExchange

LEMMA BrowserStep ==
  ASSUME BrowserTypes, OneExchange, [BrowserNext]_browserVars
  PROVE  (BrowserTypes /\ OneExchange)'
<1> USE DEF BrowserTypes, OneExchange, Load, NoCallback
<1>1. CASE UNCHANGED browserVars
  BY <1>1 DEF browserVars
<1>2. CASE InitialRead
  <2>1. CASE Profile(sessions[app]) = Nobody
    <3>1. path' \in {"/auth/callback", "error", "/403", "denied", "/login"}
      BY <1>2, <2>1 DEF InitialRead, Apply, Land
    <3>2. path = "/auth/callback" => path' = path
      BY <1>2 DEF InitialRead, Apply, Land
    <3>3. path' = "/auth/callback" => path = path'
      BY <1>2, <2>1 DEF InitialRead, Apply, Land
    <3>4. ~ signedIn
      BY <1>2 DEF InitialRead
    <3>5. QED
      BY <1>2, <2>1, <3>1, <3>2, <3>3, <3>4 DEF InitialRead, Apply
  <2>2. CASE Profile(sessions[app]) = claims
    <3>1. path \in {"/auth/callback", "error"} => path' = path
      BY <1>2 DEF InitialRead, Apply, Land
    <3>2. path \notin {"/auth/callback", "error"} => path' \notin {"/auth/callback", "error"}
      BY <1>2, <2>2, LandsInside DEF InitialRead, Apply
    <3>3. ~ signedIn
      BY <1>2 DEF InitialRead
    <3>4. QED
      BY <1>2, <2>2, <3>1, <3>2, <3>3 DEF InitialRead, Apply
  <2>3. QED
    BY <2>1, <2>2 DEF Profile
<1>3. CASE Login
  BY <1>3 DEF Login
<1>4. CASE Authorize
  BY <1>4 DEF Authorize
<1>5. CASE Forbid
  BY <1>5 DEF Forbid
<1>6. CASE OidcCallback
  BY <1>6 DEF OidcCallback
<1>7. CASE Exchanged
  <2>1. Home(app) \notin {"/auth/callback", "error"}
    BY DEF Home
  <2>2. path' \notin {"/login", "/auth/callback", "error"}
    BY <1>7, <2>1, LandsInside DEF Exchanged, Apply
  <2>3. callback.exchanges \ {"sent"} = {}
    BY <1>7 DEF Exchanged
  <2>4. QED
    BY <1>7, <2>2, <2>3 DEF Exchanged, Apply
<1>8. CASE ExchangeFailed
  <2>1. PICK e \in callback.exchanges :
          callback' = [callback EXCEPT !.exchanges = callback.exchanges \ {e}]
    BY <1>8 DEF ExchangeFailed
  <2>2. callback.exchanges \ {e} = {}
    OBVIOUS
  <2>3. path' = "error" /\ ~ signedIn
    BY <1>8 DEF ExchangeFailed
  <2>4. QED
    BY <1>8, <2>1, <2>2, <2>3 DEF ExchangeFailed
<1>9. CASE TryAgain
  <2>1. path # "/auth/callback" /\ callback.exchanges = {}
    BY <1>9 DEF TryAgain, Refusals
  <2>2. CASE path = "error" /\ app \in {"landing-panel", "admin"}
    BY <1>9, <2>1, <2>2 DEF TryAgain
  <2>3. CASE ~ (path = "error" /\ app \in {"landing-panel", "admin"})
    <3>1. Load(app, "/") /\ UNCHANGED <<claims, sessions>>
      BY <1>9, <2>3 DEF TryAgain
    <3>2. QED
      BY <3>1
  <2>4. QED
    BY <2>2, <2>3
<1>10. CASE Follow
  <2>1. callback.exchanges = {} /\ signedIn' = FALSE
    BY <1>10 DEF Follow, Showing
  <2>2. QED
    BY <1>10, <2>1 DEF Follow
<1>11. CASE SwitchTo
  <2>1. PICK a \in AppSwitcher(provider.user, grants) : Load(a, "/")
    BY <1>11 DEF SwitchTo
  <2>2. a \in App
    BY <2>1 DEF AppSwitcher
  <2>3. QED
    BY <1>11, <2>1, <2>2 DEF SwitchTo
<1>12. CASE Reload
  BY <1>12 DEF Reload, Showing
<1>13. CASE SessionExpires
  BY <1>13 DEF SessionExpires
<1>14. CASE SilentRenew
  <2>1. path \notin {"/auth/callback", "error"}
    BY <1>14 DEF SilentRenew, Showing
  <2>2. path' \notin {"/login", "/auth/callback", "error"}
    BY <1>14, <2>1, LandsInside DEF SilentRenew, Apply
  <2>3. QED
    BY <1>14, <2>1, <2>2 DEF SilentRenew, Apply
<1>15. CASE Logout
  BY <1>15 DEF Logout
<1>16. QED
  BY <1>1, <1>2, <1>3, <1>4, <1>5, <1>6, <1>7, <1>8, <1>9, <1>10, <1>11, <1>12, <1>13, <1>14, <1>15
  DEF BrowserNext

\* Whoever the identity provider lets in is shown the application, or told what is missing,
\* after one sign-in, for any person, any grants and any order of loads, answers and expiries.
THEOREM SignInTakesOneClickHolds == Spec => []SignInTakesOneClick
<1>1. Init => BrowserTypes /\ OneExchange
  BY BrowserStart DEF Init
<1>2. BrowserTypes /\ OneExchange /\ [Next]_vars => (BrowserTypes /\ OneExchange)'
  BY BrowserStep, StepsOfTheBrowser
<1>3. BrowserTypes /\ OneExchange => SignInTakesOneClick
  BY DEF OneExchange, SignInTakesOneClick
<1>4. QED
  BY <1>1, <1>2, <1>3, PTL DEF Spec
------------------------------------------------------------------------------------
(* Links. *)
ZoneRoles == {"SuperAdmin", "TenantAdmin", "AIManager"}
Builders == {"DashboardDesigner", "TenantAdmin", "SuperAdmin"}

\* The roles with each permission.
LEMMA RolesOfPermissions ==
  ASSUME NEW from
  PROVE  LET roles == mapLegacyRoles(from)
             Has(perm, some) == perm \in permissionsFor(roles) <=> roles \cap some # {}
         IN /\ roles \subseteq AnalyticsRoles /\ roles # {}
            /\ Has("data:export", {"SuperAdmin", "TenantAdmin", "DashboardDesigner",
                                   "ReportDesigner", "PowerUser"})
            /\ Has("ai:manage", {"SuperAdmin", "TenantAdmin", "AIManager"})
            /\ Has("audit:read", {"SuperAdmin", "TenantAdmin", "AIManager"})
            /\ Has("users:manage", {"SuperAdmin", "TenantAdmin"})
            /\ Has("datasources:manage", {"SuperAdmin", "TenantAdmin"})
<1> DEFINE roles == mapLegacyRoles(from)
<1>1. roles \subseteq AnalyticsRoles /\ roles # {}
  BY DEF mapLegacyRoles, AnalyticsRoles, Native
<1> HIDE DEF roles
<1>2. \A p : p \in permissionsFor(roles) <=> \E r \in roles : p \in ROLE_PERMISSIONS[r]
  BY DEF permissionsFor
<1>3. ASSUME NEW r \in AnalyticsRoles
      PROVE  /\ "data:export" \in ROLE_PERMISSIONS[r] <=>
                  r \in {"SuperAdmin", "TenantAdmin", "DashboardDesigner", "ReportDesigner",
                         "PowerUser"}
             /\ "ai:manage" \in ROLE_PERMISSIONS[r] <=> r \in ZoneRoles
             /\ "audit:read" \in ROLE_PERMISSIONS[r] <=> r \in ZoneRoles
             /\ "users:manage" \in ROLE_PERMISSIONS[r] <=> r \in {"SuperAdmin", "TenantAdmin"}
             /\ "datasources:manage" \in ROLE_PERMISSIONS[r] <=>
                  r \in {"SuperAdmin", "TenantAdmin"}
  BY DEF AnalyticsRoles, ROLE_PERMISSIONS, ZoneRoles
<1>4. QED
  BY <1>1, <1>2, <1>3 DEF roles, ZoneRoles

\* The pages of the analytics front end, and what each asks for.
Asks(p, roles, perms) ==
  CASE p = "/data" -> roles \cap (AnalyticsRoles \ {"Viewer"}) # {}
    [] p \in {"/dashboards/new", "/dashboards/1/edit"} -> roles \cap Builders # {}
    [] p = "/exports" -> "data:export" \in perms
    [] p = "/admin" -> roles \cap ZoneRoles # {}
    [] p \in {"/admin/tenants", "/admin/system"} -> "SuperAdmin" \in roles
    [] p \in {"/admin/users", "/admin/roles", "/admin/tenant"} ->
         roles \cap ZoneRoles # {} /\ "users:manage" \in perms
    [] p \in {"/admin/data-sources", "/admin/semantic-models"} ->
         roles \cap ZoneRoles # {} /\ "datasources:manage" \in perms
    [] p \in {"/admin/ai/providers", "/admin/ai/routing", "/admin/ai/prompts", "/admin/ai/usage"}
         -> roles \cap ZoneRoles # {} /\ "ai:manage" \in perms
    [] p = "/admin/audit" -> roles \cap ZoneRoles # {} /\ "audit:read" \in perms
    [] OTHER -> TRUE
OpenPages == {"/ask", "/reports", "/reports/1", "/dashboards", "/dashboards/1", "/profile",
              "/settings", "/favorites"}
ZonePages ==
  {"/admin", "/admin/tenants", "/admin/system", "/admin/users", "/admin/roles", "/admin/tenant",
   "/admin/data-sources", "/admin/semantic-models", "/admin/ai/providers", "/admin/ai/routing",
   "/admin/ai/prompts", "/admin/ai/usage", "/admin/audit"}
AnalyticsPages ==
  OpenPages \cup {"/dashboards/new", "/dashboards/1/edit", "/data", "/exports"} \cup ZonePages


LEMMA RoutesListed ==
  \A r : r \in AnalyticsRoutes <=>
    \/ \E p \in OpenPages : r = Route(p, {}, {})
    \/ \E p \in {"/dashboards/new", "/dashboards/1/edit"} : r = Route(p, {Builders}, {})
    \/ r = Route("/data", {AnalyticsRoles \ {"Viewer"}}, {})
    \/ r = Route("/exports", {}, {"data:export"})
    \/ r = Route("/admin", {ZoneRoles}, {})
    \/ \E p \in {"/admin/tenants", "/admin/system"} : r = Route(p, {ZoneRoles, {"SuperAdmin"}}, {})
    \/ \E p \in {"/admin/users", "/admin/roles", "/admin/tenant"} :
         r = Route(p, {ZoneRoles}, {"users:manage"})
    \/ \E p \in {"/admin/data-sources", "/admin/semantic-models"} :
         r = Route(p, {ZoneRoles}, {"datasources:manage"})
    \/ \E p \in {"/admin/ai/providers", "/admin/ai/routing", "/admin/ai/prompts", "/admin/ai/usage"} :
         r = Route(p, {ZoneRoles}, {"ai:manage"})
    \/ r = Route("/admin/audit", {ZoneRoles}, {"audit:read"})
  BY Zenon DEF AnalyticsRoutes, Open, OpenPages, ZoneRoles, Builders

LEMMA RoutesAsk ==
  ASSUME NEW r \in AnalyticsRoutes, NEW roles, NEW perms
  PROVE  /\ r.path \in AnalyticsPages
         /\ Asks(r.path, roles, perms) <=>
              (\A allow \in r.roleSets : roles \cap allow # {}) /\ r.perms \subseteq perms
<1> USE DEF Route, Asks, AnalyticsPages, ZonePages
<1>1. CASE \E p \in OpenPages : r = Route(p, {}, {})
  BY <1>1 DEF OpenPages
<1>2. CASE \E p \in {"/dashboards/new", "/dashboards/1/edit"} : r = Route(p, {Builders}, {})
  BY <1>2
<1>3. CASE r = Route("/data", {AnalyticsRoles \ {"Viewer"}}, {})
  BY <1>3
<1>4. CASE r = Route("/exports", {}, {"data:export"})
  BY <1>4
<1>5. CASE r = Route("/admin", {ZoneRoles}, {})
  BY <1>5
<1>6. CASE \E p \in {"/admin/tenants", "/admin/system"} : r = Route(p, {ZoneRoles, {"SuperAdmin"}}, {})
  <2>1. PICK p \in {"/admin/tenants", "/admin/system"} :
          r = Route(p, {ZoneRoles, {"SuperAdmin"}}, {})
    BY <1>6
  <2>2. r.path = p /\ r.roleSets = {ZoneRoles, {"SuperAdmin"}} /\ r.perms = {}
    BY <2>1
  <2>3. (\A allow \in r.roleSets : roles \cap allow # {}) <=> "SuperAdmin" \in roles
    BY <2>2 DEF ZoneRoles
  <2>4. Asks(p, roles, perms) <=> "SuperAdmin" \in roles
    OBVIOUS
  <2>5. QED
    BY <2>2, <2>3, <2>4
<1>7. CASE \E p \in {"/admin/users", "/admin/roles", "/admin/tenant"} :
             r = Route(p, {ZoneRoles}, {"users:manage"})
  BY <1>7
<1>8. CASE \E p \in {"/admin/data-sources", "/admin/semantic-models"} :
             r = Route(p, {ZoneRoles}, {"datasources:manage"})
  BY <1>8
<1>9. CASE \E p \in {"/admin/ai/providers", "/admin/ai/routing", "/admin/ai/prompts",
                     "/admin/ai/usage"} : r = Route(p, {ZoneRoles}, {"ai:manage"})
  BY <1>9
<1>10. CASE r = Route("/admin/audit", {ZoneRoles}, {"audit:read"})
  BY <1>10
<1>11. QED
  BY <1>1, <1>2, <1>3, <1>4, <1>5, <1>6, <1>7, <1>8, <1>9, <1>10, RoutesListed, Zenon

LEMMA PagesHaveRoutes ==
  ASSUME NEW p \in AnalyticsPages
  PROVE  \E r \in AnalyticsRoutes : r.path = p
<1>1. \A q, sets, perms : Route(q, sets, perms).path = q
  BY DEF Route
<1>2. \/ p \in OpenPages \/ p \in {"/dashboards/new", "/dashboards/1/edit"} \/ p = "/data"
      \/ p = "/exports" \/ p = "/admin" \/ p \in {"/admin/tenants", "/admin/system"}
      \/ p \in {"/admin/users", "/admin/roles", "/admin/tenant"}
      \/ p \in {"/admin/data-sources", "/admin/semantic-models"}
      \/ p \in {"/admin/ai/providers", "/admin/ai/routing", "/admin/ai/prompts", "/admin/ai/usage"}
      \/ p = "/admin/audit"
  BY DEF AnalyticsPages, ZonePages
<1>3. ASSUME NEW sets, NEW perms, Route(p, sets, perms) \in AnalyticsRoutes
      PROVE  \E r \in AnalyticsRoutes : r.path = p
  BY <1>1, <1>3
<1>4. \E sets, perms : Route(p, sets, perms) \in AnalyticsRoutes
  BY <1>2, RoutesListed, Zenon
<1>5. QED
  BY <1>3, <1>4

LandingPages ==
  {"/", "/news", "/categories", "/slides", "/quick-links", "/footer-links", "/people", "/units",
   "/tab-groups", "/org-pages", "/forms", "/submissions", "/messages", "/settings"}
LEMMA LandingLinks == /\ LandingRoutes = {Route(q, {}, {}) : q \in LandingPages}
                      /\ LandingNav = LandingPages
  BY DEF LandingRoutes, LandingNav, LandingPages, Open

Pages(a) ==
  CASE a = "landing-panel" -> LandingPages [] a = "admin" -> {"/", "/users", "/reference"}
    [] a = "mun-sanandaj" -> MunNav [] OTHER -> AnalyticsPages
LEMMA Reaching ==
  ASSUME NEW a \in App, NEW p, NEW from
  PROVE  /\ (\E r \in Routes[a] : r.path = p) <=> p \in Pages(a)
         /\ CanReach(a, p, from) <=>
              /\ p \in Pages(a)
              /\ a = "analytics" =>
                   Asks(p, mapLegacyRoles(from), permissionsFor(mapLegacyRoles(from)))
<1> DEFINE roles == mapLegacyRoles(from)
           perms == permissionsFor(roles)
<1> HIDE DEF roles, perms
<1>1. CanReach(a, p, from) <=>
        \E r \in Routes[a] : /\ r.path = p
                             /\ \A allow \in r.roleSets : roles \cap allow # {}
                             /\ r.perms \subseteq perms
  BY DEF CanReach, roles, perms
<1>2. CASE a = "analytics"
  <2>1. Routes[a] = AnalyticsRoutes /\ Pages(a) = AnalyticsPages
    BY <1>2 DEF Routes, Pages
  <2>2. (\E r \in AnalyticsRoutes : r.path = p) <=> p \in AnalyticsPages
    BY RoutesAsk, PagesHaveRoutes
  <2>3. \A r \in AnalyticsRoutes : Asks(r.path, roles, perms) <=>
          (\A allow \in r.roleSets : roles \cap allow # {}) /\ r.perms \subseteq perms
    BY RoutesAsk
  <2>4. CanReach(a, p, from) <=> \E r \in AnalyticsRoutes : r.path = p /\ Asks(r.path, roles, perms)
    BY <1>1, <2>1, <2>3
  <2>5. CanReach(a, p, from) <=> p \in AnalyticsPages /\ Asks(p, roles, perms)
    BY <2>2, <2>4
  <2>6. QED
    BY <1>2, <2>1, <2>2, <2>5 DEF roles, perms
<1>3. CASE a # "analytics"
  <2>1. Routes[a] = {Route(q, {}, {}) : q \in Pages(a)}
    <3>1. CASE a = "landing-panel"
      BY <3>1, LandingLinks DEF Routes, Pages
    <3>2. CASE a = "admin"
      BY <3>2 DEF Routes, AdminRoutes, Open, Pages, App
    <3>3. CASE a = "mun-sanandaj"
      BY <3>3 DEF Routes, MunRoutes, MunNav, Open, Pages, App
    <3>4. QED
      BY <1>3, <3>1, <3>2, <3>3 DEF App
  <2>2. /\ \A q \in Pages(a) : \E r \in Routes[a] : r.path = q /\ r.roleSets = {} /\ r.perms = {}
        /\ \A r \in Routes[a] : r.path \in Pages(a) /\ r.roleSets = {} /\ r.perms = {}
    <3>1. \A q : LET r == Route(q, {}, {})
                 IN r.path = q /\ r.roleSets = {} /\ r.perms = {}
      BY DEF Route
    <3>2. QED
      BY <2>1, <3>1, Zenon
  <2>3. (\E r \in Routes[a] : r.path = p) <=> p \in Pages(a)
    BY <2>2
  <2>4. CanReach(a, p, from) <=> p \in Pages(a)
    BY <1>1, <2>2
  <2>5. QED
    BY <1>3, <2>3, <2>4
<1>4. QED
  BY <1>2, <1>3

Unwelcome(a, from) == a # "analytics" /\ ~ isAdmin(from)
LEMMA HomeIsAPage ==
  ASSUME NEW a \in App, NEW from
  PROVE  Home(a) \in Pages(a) /\ CanReach(a, Home(a), from)
<1>1. Home(a) \in Pages(a)
  BY DEF Home, Pages, LandingPages, MunNav, AnalyticsPages, OpenPages, App
<1>2. a = "analytics" => Asks("/ask", mapLegacyRoles(from), permissionsFor(mapLegacyRoles(from)))
  BY DEF Asks
<1>3. QED
  BY <1>1, <1>2, Reaching DEF Home

LEMMA WhereItLands ==
  ASSUME NEW a \in App, NEW p, NEW from, from # Nobody
  PROVE  /\ p \in {"/auth/callback", "error", "/403", "denied"} => Land(a, p, from) = p
         /\ p \notin {"/auth/callback", "error", "/403", "denied"} =>
              /\ Unwelcome(a, from) => Land(a, p, from) \in {"adminRequired", "/403"}
              /\ ~ Unwelcome(a, from) =>
                   /\ p \in {"/login", "/"} => Land(a, p, from) = Home(a)
                   /\ p \notin {"/login", "/"} =>
                        /\ p \notin Pages(a) => Land(a, p, from) = "404"
                        /\ p \in Pages(a) /\ ~ CanReach(a, p, from) => Land(a, p, from) = "/403"
                        /\ p \in Pages(a) /\ CanReach(a, p, from) => Land(a, p, from) = p
<1>1. (\A r \in Routes[a] : r.path # p) <=> p \notin Pages(a)
  BY Reaching
<1>2. QED
  BY <1>1 DEF Land, Unwelcome, App

NoPages == {"/403", "404", "adminRequired", "denied", "/login", "/auth/callback", "error"}
LEMMA NotPages == ASSUME NEW a \in App PROVE Pages(a) \cap NoPages = {}
  BY DEF Pages, LandingPages, MunNav, AnalyticsPages, OpenPages, ZonePages, App, NoPages

\* Where a guard leads, it leaves alone.
LEMMA LandsOnce ==
  ASSUME NEW a \in App, NEW p, NEW from, from # Nobody
  PROVE  Land(a, Land(a, p, from), from) = Land(a, p, from)
<1> DEFINE q == Land(a, p, from)
<1>1. \/ q \in {"/auth/callback", "error", "/403", "denied"}
      \/ q = "adminRequired" /\ Unwelcome(a, from)
      \/ ~ Unwelcome(a, from) /\ q = Home(a)
      \/ ~ Unwelcome(a, from) /\ q = "404"
      \/ ~ Unwelcome(a, from) /\ q = p /\ p \notin {"/login", "/"} /\ p \in Pages(a)
           /\ CanReach(a, p, from)
  BY WhereItLands
<1> HIDE DEF q
<1>2. CASE q \in {"/auth/callback", "error", "/403", "denied"}
  BY <1>2, WhereItLands DEF q
<1>3. CASE q = "adminRequired" /\ Unwelcome(a, from)
  BY <1>3 DEF Land, Unwelcome, App, q
<1>4. CASE ~ Unwelcome(a, from) /\ q = Home(a)
  <2>1. Home(a) \in Pages(a) /\ CanReach(a, Home(a), from)
    BY HomeIsAPage
  <2>2. Home(a) \in {"/", "/ask"} /\ (Home(a) = "/" => Land(a, Home(a), from) = Home(a))
    BY <1>4, WhereItLands DEF Home
  <2>3. Home(a) = "/ask" => Land(a, Home(a), from) = Home(a)
    BY <1>4, <2>1, WhereItLands
  <2>4. QED
    BY <1>4, <2>2, <2>3 DEF q
<1>5. CASE ~ Unwelcome(a, from) /\ q = "404"
  BY <1>5, WhereItLands, NotPages DEF NoPages, q
<1>6. CASE ~ Unwelcome(a, from) /\ q = p /\ p \notin {"/login", "/"} /\ p \in Pages(a)
             /\ CanReach(a, p, from)
  BY <1>6, WhereItLands, NotPages DEF NoPages, q
<1>7. QED
  BY <1>1, <1>2, <1>3, <1>4, <1>5, <1>6 DEF q

\* A page that is shown is one of the application's, and its guards let the person in.
Leads(a, p, from) == Land(a, p, from) \notin Refusals
LEMMA ShownPages ==
  ASSUME NEW a \in App, NEW p, NEW from, from # Nobody, Land(a, p, from) = p,
         p \notin {"idp", "/login", "/auth/callback", "error"} \cup Refusals
  PROVE  ~ Unwelcome(a, from) /\ p \in Pages(a) /\ CanReach(a, p, from)
  BY WhereItLands, HomeIsAPage DEF Refusals

LEMMA Leading ==
  ASSUME NEW a \in App, NEW from, from # Nobody
  PROVE  /\ ~ Unwelcome(a, from) =>
              /\ Leads(a, "/", from) /\ Leads(a, "/login", from) /\ Leads(a, Home(a), from)
              /\ \A p \in Pages(a) : CanReach(a, p, from) => Leads(a, p, from)
         /\ Leads(a, "/auth/callback", from) /\ Leads(a, "error", from)
         /\ Leads(a, Home(a), from) => ~ Unwelcome(a, from)
         /\ \A p \in Refusals : ~ Leads(a, p, from)
<1>1. Home(a) \notin Refusals
  BY DEF Home, Refusals
<1>2. ~ Unwelcome(a, from) => Leads(a, "/", from) /\ Leads(a, "/login", from)
  BY <1>1, WhereItLands DEF Leads
<1>3. ASSUME ~ Unwelcome(a, from), NEW p \in Pages(a), CanReach(a, p, from)
      PROVE  Leads(a, p, from)
  BY <1>1, <1>3, WhereItLands, NotPages DEF Leads, Refusals, NoPages
<1>4. Leads(a, "/auth/callback", from) /\ Leads(a, "error", from)
  BY WhereItLands DEF Leads, Refusals
<1>5. Leads(a, Home(a), from) => ~ Unwelcome(a, from)
  BY WhereItLands DEF Leads, Refusals, Home
<1>6. ASSUME NEW p \in Refusals PROVE ~ Leads(a, p, from)
  BY <1>6, WhereItLands, NotPages DEF Leads, Refusals, NoPages
<1>7. QED
  BY <1>2, <1>3, <1>4, <1>5, <1>6, HomeIsAPage

LEMMA TheZone == AdminZone \subseteq ZonePages
<1> SUFFICES ASSUME NEW r \in AnalyticsRoutes, NEW s \in r.roleSets,
                    "AIManager" \in s, s \subseteq ZoneRoles
             PROVE  r.path \in ZonePages
  BY DEF AdminZone, ZoneRoles
<1> USE DEF Route, ZonePages
<1>1. ~ \E p \in OpenPages : r = Route(p, {}, {})
  OBVIOUS
<1>2. ~ \E p \in {"/dashboards/new", "/dashboards/1/edit"} : r = Route(p, {Builders}, {})
  BY DEF Builders
<1>3. r # Route("/data", {AnalyticsRoles \ {"Viewer"}}, {})
  BY DEF AnalyticsRoles, ZoneRoles
<1>4. r # Route("/exports", {}, {"data:export"})
  OBVIOUS
<1>5. r = Route("/admin", {ZoneRoles}, {}) => r.path \in ZonePages
  OBVIOUS
<1>6. (\E p \in {"/admin/tenants", "/admin/system"} : r = Route(p, {ZoneRoles, {"SuperAdmin"}}, {}))
        => r.path \in ZonePages
  OBVIOUS
<1>7. (\E p \in {"/admin/users", "/admin/roles", "/admin/tenant"} :
             r = Route(p, {ZoneRoles}, {"users:manage"})) => r.path \in ZonePages
  OBVIOUS
<1>8. (\E p \in {"/admin/data-sources", "/admin/semantic-models"} :
             r = Route(p, {ZoneRoles}, {"datasources:manage"})) => r.path \in ZonePages
  OBVIOUS
<1>9. (\E p \in {"/admin/ai/providers", "/admin/ai/routing", "/admin/ai/prompts",
                 "/admin/ai/usage"} : r = Route(p, {ZoneRoles}, {"ai:manage"}))
        => r.path \in ZonePages
  OBVIOUS
<1>10. r = Route("/admin/audit", {ZoneRoles}, {"audit:read"}) => r.path \in ZonePages
  OBVIOUS
<1> HIDE DEF Route, ZonePages
<1>11. QED
  BY <1>1, <1>2, <1>3, <1>4, <1>5, <1>6, <1>7, <1>8, <1>9, <1>10, RoutesListed, Zenon

\* Every link of the page a person is on leads somewhere, or is one of the dead ones.
LEMMA MenusReach ==
  ASSUME NEW a \in App, NEW p, NEW from, from # Nobody, Land(a, p, from) = p,
         p \notin {"idp", "/login", "/auth/callback", "error"} \cup Refusals,
         NEW l \in Menu(a, p, from)
  PROVE  DeadLinks(l, from) \/ Leads(a, l, from)
<1> DEFINE roles == mapLegacyRoles(from)
           perms == permissionsFor(roles)
<1>1. ~ Unwelcome(a, from) /\ p \in Pages(a) /\ CanReach(a, p, from)
  BY ShownPages
<1>2. CASE a # "analytics"
  <2>1. l \in Pages(a)
    BY <1>2, LandingLinks DEF Menu, AdminNav, MunNav, Pages, App
  <2>2. QED
    BY <1>1, <1>2, <2>1, Reaching, Leading
<1>3. CASE a = "analytics"
  <2>1. Pages(a) = AnalyticsPages
    BY <1>3 DEF Pages
  <2>2. Asks(p, roles, perms)
    BY <1>1, <1>3, Reaching
  <2>3. ASSUME l \in AnalyticsPages, Asks(l, roles, perms) PROVE Leads(a, l, from)
    BY <1>1, <1>3, <2>1, <2>3, Reaching, Leading
  <2>4. /\ roles \subseteq AnalyticsRoles /\ roles # {}
        /\ "ai:manage" \in perms <=> roles \cap ZoneRoles # {}
        /\ "audit:read" \in perms <=> roles \cap ZoneRoles # {}
        /\ "users:manage" \in perms <=> roles \cap {"SuperAdmin", "TenantAdmin"} # {}
        /\ "datasources:manage" \in perms <=> roles \cap {"SuperAdmin", "TenantAdmin"} # {}
    BY RolesOfPermissions DEF ZoneRoles
  <2>5. SeesAdmin(roles) => roles \cap ZoneRoles # {}
    BY <2>4 DEF SeesAdmin, ZoneRoles
  <2>6. \/ l \in UserMenu(from)
        \/ l \in AdminMenu(from) /\ p \in ZonePages
        \/ l \in PageLinks(p)
    BY <1>3, TheZone DEF Menu
  <2>7. DeadLinks(l, from) <=>
          \/ l = "/data" /\ roles = {"Viewer"}
          \/ l \in {"/admin/roles", "/admin/tenant"} /\ "users:manage" \notin perms
          \/ l = "/admin/tenant/quota"
          \/ l = "/dashboards/1/edit" /\ roles \cap Builders = {}
          \/ l \in {"landing-panel", "mun-sanandaj"} /\ ~ isAdmin(from)
    BY DEF DeadLinks, Builders
  <2> HIDE DEF roles, perms
  <2>8. CASE l \in UserMenu(from)
    <3>1. \/ l \in {"/ask", "/reports", "/dashboards", "/favorites", "/profile", "/settings"}
          \/ l = "/data"
          \/ l = "/exports" /\ "data:export" \in perms
          \/ l = "/admin" /\ SeesAdmin(roles)
      BY <2>8 DEF UserMenu, roles, perms
    <3>2. l = "/data" => DeadLinks(l, from) \/ Asks(l, roles, perms)
      BY <2>4, <2>7 DEF Asks
    <3>3. l # "/data" => Asks(l, roles, perms)
      BY <2>5, <3>1 DEF Asks
    <3>4. l \in AnalyticsPages
      BY <3>1 DEF AnalyticsPages, OpenPages, ZonePages
    <3>5. QED
      BY <2>3, <3>2, <3>3, <3>4
  <2>9. CASE l \in AdminMenu(from) /\ p \in ZonePages
    <3>1. roles \cap ZoneRoles # {}
      BY <2>2, <2>9 DEF Asks, ZonePages, ZoneRoles
    <3>2. \/ l \in {"/admin", "/admin/tenant/quota", "/"}
          \/ l \in {"/admin/roles", "/admin/tenant"}
          \/ l = "/admin/users" /\ "users:manage" \in perms
          \/ l \in {"/admin/data-sources", "/admin/semantic-models"} /\ "datasources:manage" \in perms
          \/ l \in {"/admin/ai/providers", "/admin/ai/routing", "/admin/ai/prompts",
                    "/admin/ai/usage"} /\ "ai:manage" \in perms
          \/ l = "/admin/audit" /\ "audit:read" \in perms
          \/ l = "/admin/tenants" /\ "SuperAdmin" \in roles
      BY <2>9 DEF AdminMenu, roles, perms
    <3>3. l = "/" => Leads(a, l, from)
      BY <1>1, Leading
    <3>4. \/ l \in {"/admin/tenant/quota", "/"}
          \/ DeadLinks(l, from)
          \/ l \in AnalyticsPages /\ Asks(l, roles, perms)
      <4>1. l \in {"/admin/tenant/quota", "/"} \cup ZonePages
        BY <3>2 DEF ZonePages
      <4>2. CASE l \in {"/admin/roles", "/admin/tenant"}
        <5>1. Asks(l, roles, perms) <=> "users:manage" \in perms
          BY <3>1, <4>2 DEF Asks
        <5>2. l \in AnalyticsPages
          BY <4>1, <4>2 DEF AnalyticsPages
        <5>3. QED
          BY <2>7, <4>2, <5>1, <5>2
      <4>3. CASE l \notin {"/admin/roles", "/admin/tenant", "/admin/tenant/quota", "/"}
        <5>1. Asks(l, roles, perms)
          BY <3>1, <3>2, <4>3 DEF Asks
        <5>2. QED
          BY <4>1, <4>3, <5>1 DEF AnalyticsPages
      <4>4. QED
        BY <4>2, <4>3, Zenon
    <3>5. QED
      BY <2>3, <2>7, <3>3, <3>4
  <2>10. CASE l \in PageLinks(p)
    <3>1. \/ l \in {"/reports/1", "/ask", "/dashboards"}
          \/ l = "/dashboards/1/edit"
          \/ p = "/admin/tenant" /\ l = "/admin/ai/providers"
          \/ p = "/admin/data-sources" /\ l = "/admin/semantic-models"
      BY <2>10 DEF PageLinks
    <3>2. \/ DeadLinks(l, from)
          \/ l \in AnalyticsPages /\ Asks(l, roles, perms)
      BY <2>2, <2>4, <2>7, <3>1 DEF Asks, AnalyticsPages, OpenPages, ZonePages
    <3>3. QED
      BY <2>3, <3>2
  <2>11. QED
    BY <2>6, <2>8, <2>9, <2>10
<1>4. QED
  BY <1>2, <1>3

\* Who is known is let in by the identity provider, the page they are on is one the guards
\* leave alone, and a link that is not dead leads somewhere from wherever it led by now.
Trail ==
  /\ provider.user # Nobody \/ path = "/auth/callback" => Authorizes(app)
  /\ \A a \in App : sessions[a] # "none" => Authorizes(a)
  /\ Showing => Land(app, path, claims) = path
  /\ followed # Nobody =>
       \/ DeadLinks(followed, claims)
       \/ /\ Authorizes(app) /\ Leads(app, Home(app), claims)
          /\ path # "idp" => Leads(app, path, claims)

LEMMA TrailStart == ASSUME BrowserInit \/ BrowserIdle PROVE Trail
  BY DEF BrowserInit, BrowserIdle, Trail, Showing

LEMMA TrailStep ==
  ASSUME BrowserTypes, OneExchange, Trail, [BrowserNext]_browserVars
  PROVE  Trail'
<1> USE DEF BrowserTypes, Trail, Load
<1>1. CASE UNCHANGED browserVars
  BY <1>1 DEF browserVars, Showing, Authorizes
<1>2. CASE InitialRead
  <2>1. /\ path # "idp" /\ path' = Land(app, path, provider'.user)
        /\ provider' = [user |-> Profile(sessions[app]), ready |-> TRUE]
        /\ UNCHANGED <<claims, grants, app, sessions, followed>>
    BY <1>2 DEF InitialRead, Apply
  <2>2. provider'.user # Nobody => provider'.user = claims /\ Authorizes(app)
    BY <2>1 DEF Profile
  <2>3. Land(app, path', claims) = path' \/ provider'.user = Nobody
    <3>1. Land(app, Land(app, path, claims), claims) = Land(app, path, claims)
      BY LandsOnce
    <3>2. QED
      BY <2>1, <2>2, <3>1
  <2>4. path' = "/auth/callback" => path = "/auth/callback"
    BY <2>1, <2>2, LandsInside DEF Land
  <2>5. CASE provider'.user = claims
    <3>1. Leads(app, path, claims) => Leads(app, path', claims)
      BY <2>1, <2>3, <2>5 DEF Leads
    <3>2. QED
      BY <2>1, <2>2, <2>3, <2>4, <2>5, <3>1 DEF Authorizes, Showing
  <2>6. CASE provider'.user = Nobody
    <3>1. path' \in {path, "/login"}
      BY <2>1, <2>6 DEF Land
    <3>2. Leads(app, Home(app), claims) /\ Leads(app, path, claims) => Leads(app, path', claims)
      BY <3>1, Leading
    <3>3. QED
      BY <2>1, <2>4, <2>6, <3>2 DEF Authorizes, Showing
  <2>7. QED
    BY <2>2, <2>5, <2>6
<1>3. CASE Login
  BY <1>3 DEF Login, Showing, Authorizes
<1>4. CASE Authorize
  BY <1>4, Leading DEF Authorize, Showing, Authorizes
<1>5. CASE Forbid
  BY <1>5 DEF Forbid, Showing, Authorizes
<1>6. CASE OidcCallback
  BY <1>6 DEF OidcCallback, Showing, Authorizes
<1>7. CASE Exchanged
  <2>1. /\ path = "/auth/callback" /\ path' = Land(app, Home(app), claims)
        /\ sessions' = [sessions EXCEPT ![app] = "valid"]
        /\ provider' = [user |-> claims, ready |-> TRUE]
        /\ UNCHANGED <<claims, grants, app, followed>>
    BY <1>7 DEF Exchanged, Apply, OneExchange
  <2>2. Land(app, path', claims) = path'
    <3>1. Land(app, Land(app, Home(app), claims), claims) = Land(app, Home(app), claims)
      BY LandsOnce
    <3>2. QED
      BY <2>1, <3>1
  <2>3. Leads(app, Home(app), claims) => Leads(app, path', claims)
    BY <2>1, <2>2 DEF Leads
  <2>4. QED
    BY <2>1, <2>2, <2>3 DEF Authorizes
<1>8. CASE ExchangeFailed
  <2>1. /\ path' = "error"
        /\ UNCHANGED <<claims, grants, app, sessions, provider, followed>>
    BY <1>8 DEF ExchangeFailed, OneExchange
  <2>2. QED
    BY <2>1, Leading DEF Showing, Authorizes
<1>9. CASE TryAgain
  <2>1. followed' = Nobody /\ UNCHANGED <<claims, grants, sessions>>
    BY <1>9 DEF TryAgain
  <2>2. CASE path = "error" /\ app \in {"landing-panel", "admin"}
    BY <1>9, <2>1, <2>2 DEF TryAgain, Showing, Authorizes
  <2>3. CASE ~ (path = "error" /\ app \in {"landing-panel", "admin"})
    <3>1. Load(app, "/")
      BY <1>9, <2>3 DEF TryAgain
    <3>2. QED
      BY <2>1, <3>1 DEF Showing, Authorizes
  <2>4. QED
    BY <2>2, <2>3
<1>10. CASE Follow
  <2>1. PICK p \in Menu(app, path, provider.user) :
          path' = Land(app, p, provider.user) /\ followed' = p
    BY <1>10 DEF Follow
  <2>2. /\ provider.user = claims /\ Land(app, path, claims) = path /\ Authorizes(app)
        /\ path \notin {"idp", "/login", "/auth/callback", "error"} \cup Refusals
        /\ UNCHANGED <<claims, grants, app, sessions, provider>>
    BY <1>10 DEF Follow, Showing
  <2>3. DeadLinks(p, claims) \/ Leads(app, p, claims)
    BY <2>1, <2>2, MenusReach
  <2>4. Land(app, path', claims) = path'
    BY <2>1, <2>2, LandsOnce
  <2>5. Leads(app, p, claims) => Leads(app, path', claims)
    BY <2>1, <2>2, <2>4 DEF Leads
  <2>6. Leads(app, Home(app), claims)
    BY <2>2, ShownPages, Leading
  <2>7. QED
    BY <2>1, <2>2, <2>3, <2>4, <2>5, <2>6 DEF Authorizes
<1>11. CASE SwitchTo
  <2>1. PICK a \in AppSwitcher(provider.user, grants) : Load(a, "/") /\ followed' = a
    BY <1>11 DEF SwitchTo
  <2>2. provider.user = claims /\ UNCHANGED <<claims, grants, sessions>>
    BY <1>11 DEF SwitchTo, Showing
  <2>3. a \in App /\ (a = "admin" => isAdmin(claims)) /\ (a = "admin" \/ grants = {} \/ a \in grants)
    BY <2>1, <2>2 DEF AppSwitcher, App
  <2>4. DeadLinks(a, claims) \/ ~ Unwelcome(a, claims)
    BY <2>3 DEF DeadLinks, Unwelcome, App
  <2>5. ~ Unwelcome(a, claims) => Leads(a, "/", claims) /\ Leads(a, Home(a), claims)
    BY <2>3, Leading
  <2>6. QED
    BY <2>1, <2>2, <2>3, <2>4, <2>5 DEF Authorizes, Showing
<1>12. CASE Reload
  BY <1>12 DEF Reload, Showing, Authorizes
<1>13. CASE SessionExpires
  BY <1>13 DEF SessionExpires, Showing, Authorizes
<1>14. CASE SilentRenew
  <2>1. /\ Showing /\ path' = Land(app, path, claims)
        /\ sessions[app] # "none" /\ sessions' = [sessions EXCEPT ![app] = "valid"]
        /\ provider' = [user |-> claims, ready |-> TRUE]
        /\ UNCHANGED <<claims, grants, app, followed>>
    BY <1>14 DEF SilentRenew, Apply
  <2>2. path' = path
    BY <2>1
  <2>3. QED
    BY <2>1, <2>2 DEF Authorizes, Showing
<1>15. CASE Logout
  BY <1>15 DEF Logout, Showing, Authorizes
<1>16. QED
  BY <1>1, <1>2, <1>3, <1>4, <1>5, <1>6, <1>7, <1>8, <1>9, <1>10, <1>11, <1>12, <1>13, <1>14, <1>15
  DEF BrowserNext

LEMMA TrailLeads == ASSUME BrowserTypes, Trail PROVE MenusLead
<1> SUFFICES ASSUME followed # Nobody, path \in Refusals PROVE DeadLinks(followed, claims)
  BY DEF MenusLead
<1>1. path # "idp"
  BY DEF Refusals
<1>2. ~ Leads(app, path, claims)
  BY Leading DEF BrowserTypes
<1>3. QED
  BY <1>1, <1>2 DEF Trail
\* Every set of natural numbers with an element has a least one.
LEMMA LeastNatural == ASSUME NEW T \in SUBSET Nat, T # {} PROVE \E x \in T : \A y \in T : x <= y
<1>1. PICK x \in T : \A y \in T : ~ (<<y, x>> \in OpToRel(<, Nat))
  BY WFMin, NatLessThanWellFounded, Zenon
<1>2. \A y \in Nat : <<y, x>> \in OpToRel(<, Nat) <=> y < x
  BY Zenon DEF OpToRel
<1>3. \A y \in T : ~ (y < x)
  BY <1>1, <1>2
<1>4. QED
  BY <1>3
------------------------------------------------------------------------------------
(* The public site. *)

\* The newest k of some articles are all of them, or k.
LEMMA NewestAreFew ==
  ASSUME NEW S, S \subseteq Nat, IsFiniteSet(S), NEW k \in Nat
  PROVE  /\ Newest(S, k) \subseteq S
         /\ Newest(S, k) = S \/ Cardinality(Newest(S, k)) = k
<1> DEFINE above(n) == {m \in S : m > n}
           c(n) == Cardinality(above(n))
           T == Newest(S, k)
<1>1. T = {n \in S : c(n) < k}
  BY DEF Newest
<1>2. \A n \in Nat : IsFiniteSet(above(n)) /\ c(n) \in Nat
  BY FS_Subset, FS_CardinalityType
<1>3. \A m, n \in Nat : m \in S /\ m > n => c(m) < c(n)
  <2> SUFFICES ASSUME NEW m \in Nat, NEW n \in Nat, m \in S, m > n PROVE c(m) < c(n)
    OBVIOUS
  <2>1. above(m) \in SUBSET above(n) /\ m \in above(n) /\ m \notin above(m)
    <3>1. \A x \in S : x > m => x > n
      OBVIOUS
    <3>2. \A x \in Nat : ~ (x > x)
      OBVIOUS
    <3>3. QED
      BY <3>1, <3>2
  <2>0. IsFiniteSet(above(n)) /\ c(m) \in Nat /\ c(n) \in Nat
    BY <1>2
  <2>2. above(m) # above(n)
    BY <2>1
  <2> HIDE DEF above
  <2>3. c(m) <= c(n) /\ (c(n) = c(m) => above(n) = above(m))
    BY <2>0, <2>1, FS_Subset
  <2> HIDE DEF c
  <2>4. QED
    BY <2>0, <2>1, <2>2, <2>3
<1>4. IsFiniteSet(T) /\ Cardinality(T) \in Nat
  BY <1>1, FS_Subset, FS_CardinalityType
<1> HIDE DEF c, T
<1>5. CASE T # S
  <2> DEFINE out == {c(n) : n \in S \ T}
  <2>1. out \in SUBSET Nat /\ out # {}
    <3>1. T \subseteq S
      BY <1>1
    <3>2. S \ T # {}
      BY <1>5, <3>1
    <3>3. \A n \in S \ T : c(n) \in Nat
      BY <1>2
    <3>4. QED
      BY <3>2, <3>3
  <2>2. PICK v \in out : \A w \in out : v <= w
    BY <2>1, LeastNatural
  <2>3. PICK x \in S \ T : c(x) = v
    BY <2>2
  <2>4. \A n \in S \ T : c(x) <= c(n)
    BY <2>2, <2>3
  <2> HIDE DEF out
  <2>5. T = above(x)
    <3>1. ASSUME NEW m \in S, m > x PROVE m \in T
      <4>1. c(m) < c(x)
        BY <1>3, <3>1
      <4>2. c(m) \in Nat /\ c(x) \in Nat
        BY <1>2
      <4>3. QED
        BY <2>4, <4>1, <4>2
    <3>2. ASSUME NEW m \in T PROVE m > x
      <4>1. m \in S /\ c(m) < k /\ ~ (c(x) < k)
        BY <1>1, <2>3
      <4>2. m # x
        BY <4>1
      <4>3. ASSUME x > m PROVE FALSE
        <5>1. c(x) < c(m)
          BY <1>3, <4>1, <4>3
        <5>2. c(m) \in Nat /\ c(x) \in Nat
          BY <1>2, <4>1
        <5>3. QED
          BY <4>1, <5>1, <5>2
      <4>4. QED
        BY <4>1, <4>2, <4>3
    <3>3. QED
      BY <1>1, <3>1, <3>2
  <2>6. Cardinality(T) >= k
    <3>1. ~ (c(x) < k) /\ c(x) \in Nat
      BY <1>1, <1>2, <2>3
    <3>2. c(x) = Cardinality(T)
      BY <2>5 DEF c
    <3>3. QED
      BY <3>1, <3>2
  <2>7. Cardinality(T) <= k
    <3>1. CASE T = {}
      BY <3>1, FS_EmptySet
    <3>2. CASE T # {}
      <4>1. T \in SUBSET Nat
        BY <1>1
      <4>2. PICK y \in T : \A t \in T : y <= t
        BY <3>2, <4>1, LeastNatural
      <4>3. T \ {y} \subseteq above(y)
        BY <1>1, <4>1, <4>2
      <4>4. y \in Nat /\ c(y) < k /\ c(y) \in Nat /\ IsFiniteSet(above(y))
        BY <1>1, <1>2
      <4>5. Cardinality(T \ {y}) <= c(y)
        BY <4>3, <4>4, FS_Subset DEF c
      <4>6. Cardinality(T \ {y}) = Cardinality(T) - 1
        BY <1>4, FS_RemoveElement
      <4>7. QED
        BY <1>4, <4>4, <4>5, <4>6
    <3>3. QED
      BY <3>1, <3>2
  <2>8. QED
    BY <1>1, <1>4, <2>6, <2>7 DEF T
<1>6. QED
  BY <1>1, <1>5 DEF T

SiteNext ==
  \/ CreateNews \/ DeleteNews \/ CreateSlide \/ UpdateSlide \/ DeleteSlide \/ CreateTabItem
  \/ UpdateTabItem \/ DeleteTabItem \/ DeleteTabGroup \/ DeleteCategory \/ DeleteUnit
  \/ DeleteForm \/ DeleteOrgPage \/ SendSlides \/ SendNews \/ SendTabGroups \/ RootLayout
  \/ FollowLink \/ TurnSlide \/ SetCat \/ NewsReader
LEMMA StepsOfTheSite == ASSUME [Next]_vars PROVE [SiteNext]_siteVars
<1>1. CASE UNCHANGED vars
  BY <1>1 DEF vars
<1>2. CASE Next
  BY <1>2 DEF Next, Form, Files, Ask, View, Phone, Browser, Site, SiteNext
<1>3. QED
  BY <1>1, <1>2

Articles == {news \in SUBSET (Nat \ {0}) : IsFiniteSet(news)}
\* The tables: no slide names an article that was deleted, an item may.
RowsOf(t) ==
  /\ t = [news |-> t.news, published |-> t.published, slides |-> t.slides, items |-> t.items,
          categories |-> t.categories, units |-> t.units, forms |-> t.forms,
          orgPages |-> t.orgPages]
  /\ t.news \in Articles /\ t.slides \in Seq(Nat) /\ t.published \in Nat
  /\ t.units \subseteq Nat /\ t.forms \subseteq Nat
  /\ \A i \in 1..Len(t.slides) : t.slides[i] \in t.news \cup {0}
  /\ t.news \subseteq 1..t.published /\ t.items \subseteq 1..t.published
Old(p) == Cardinality(p.news) = NewsLimit \/ p.torn
\* A payload that was not torn: the articles of its slides and items are in it, but for old
\* ones, and those of items that were deleted by now.
Payload(p) ==
  /\ p.slides \in Seq(Nat) /\ p.units \subseteq Nat /\ p.forms \subseteq Nat
  /\ p.items \subseteq 1..tables.published
  /\ \A i \in 1..Len(p.slides) : p.slides[i] \in p.news \cup {0} \/ Old(p)
  /\ \A n \in p.items : n \in p.news \/ n \notin tables.news \/ Old(p)
\* A read that was not torn has the rows of the tables.
PartRead ==
  /\ reading = [under |-> reading.under, slides |-> reading.slides,
                categories |-> reading.categories, news |-> reading.news, torn |-> reading.torn]
  /\ reading.slides \in Seq(Nat)
  /\ reading.under \in {"slides", "news"} => reading.torn \/ reading.slides = tables.slides
  /\ reading.under = "news" => reading.torn \/ reading.news = Newest(tables.news, NewsLimit)
ServerInv == RowsOf(tables) /\ PartRead /\ Payload(kept) /\ Payload(content)
VisitorInv ==
  /\ content.slides # << >> => index \in 1..Len(content.slides)
  /\ selected \in content.news \cup {0}
  /\ SiteLinksLead
\* A change of the tables gives no number twice.
Onward(to) ==
  /\ tables.published <= to.published
  /\ \A n \in 1..tables.published : n \in to.news => n \in tables.news

LEMMA EditKeeps ==
  ASSUME ServerInv, VisitorInv, NEW to, RowsOf(to), Onward(to), Edit(to)
  PROVE  (ServerInv /\ VisitorInv)'
<1>1. /\ tables' = to /\ UNCHANGED <<kept, content, place, via, index, cat, selected>>
      /\ reading' = [reading EXCEPT !.torn = reading.under # "no"]
  BY DEF Edit
<1>2. PartRead'
  <2>1. PICK u, s, c, n, t :
          reading = [under |-> u, slides |-> s, categories |-> c, news |-> n, torn |-> t]
    BY DEF ServerInv, PartRead
  <2>2. reading' = [under |-> u, slides |-> s, categories |-> c, news |-> n, torn |-> u # "no"]
    BY <1>1, <2>1
  <2>3. s \in Seq(Nat)
    BY <2>1 DEF ServerInv, PartRead
  <2>4. QED
    BY <2>2, <2>3 DEF PartRead
<1>3. tables.published \in Nat /\ to.published \in Nat
  BY DEF ServerInv, RowsOf
<1>4. 1..tables.published \subseteq 1..to.published
  BY <1>3 DEF Onward
<1>5. ASSUME NEW p, Payload(p)
      PROVE  /\ p.items \subseteq 1..to.published
             /\ \A n \in p.items : n \in p.news \/ n \notin to.news \/ Old(p)
  BY <1>4, <1>5 DEF Payload, Onward
<1>6. Payload(kept)' /\ Payload(content)'
  BY <1>1, <1>5 DEF Payload, ServerInv, Old
<1>7. ServerInv'
  BY <1>1, <1>2, <1>6 DEF ServerInv
<1>8. ArticleLinks(content.items \ tables.news) \subseteq ArticleLinks(content.items \ to.news)
  <2>1. content.items \subseteq 1..tables.published
    BY DEF ServerInv, Payload
  <2>2. content.items \ tables.news \subseteq content.items \ to.news
    BY <2>1 DEF Onward
  <2>3. QED
    BY <2>2 DEF ArticleLinks
<1>9. SiteLinksLead'
  BY <1>1, <1>8 DEF VisitorInv, SiteLinksLead, Found
<1>10. VisitorInv'
  BY <1>1, <1>9 DEF VisitorInv
<1>11. QED
  BY <1>7, <1>10

LEMMA RowsChanged ==
  ASSUME RowsOf(tables), NEW x
  PROVE  /\ /\ x \in Articles /\ x \subseteq tables.news
            /\ \A i \in 1..Len(tables.slides) : tables.slides[i] \in x \cup {0}
            => RowsOf([tables EXCEPT !.news = x]) /\ Onward([tables EXCEPT !.news = x])
         /\ x \in Seq(Nat) /\ (\A i \in 1..Len(x) : x[i] \in tables.news \cup {0})
            => RowsOf([tables EXCEPT !.slides = x]) /\ Onward([tables EXCEPT !.slides = x])
         /\ x \subseteq 1..tables.published
            => RowsOf([tables EXCEPT !.items = x]) /\ Onward([tables EXCEPT !.items = x])
         /\ RowsOf([tables EXCEPT !.categories = x]) /\ Onward([tables EXCEPT !.categories = x])
         /\ x \subseteq Nat
            => RowsOf([tables EXCEPT !.units = x]) /\ Onward([tables EXCEPT !.units = x])
         /\ x \subseteq Nat
            => RowsOf([tables EXCEPT !.forms = x]) /\ Onward([tables EXCEPT !.forms = x])
         /\ RowsOf([tables EXCEPT !.orgPages = x]) /\ Onward([tables EXCEPT !.orgPages = x])
<1>1. PICK n, h, s, a, c, u, f, o :
        /\ tables = [news |-> n, published |-> h, slides |-> s, items |-> a, categories |-> c,
                     units |-> u, forms |-> f, orgPages |-> o]
        /\ n \in Articles /\ s \in Seq(Nat) /\ u \subseteq Nat /\ f \subseteq Nat /\ h \in Nat
        /\ \A i \in 1..Len(s) : s[i] \in n \cup {0}
        /\ n \subseteq 1..h /\ a \subseteq 1..h
  BY DEF RowsOf
<1>2. ASSUME x \in Articles, x \subseteq n, \A i \in 1..Len(s) : s[i] \in x \cup {0}
      PROVE  RowsOf([tables EXCEPT !.news = x]) /\ Onward([tables EXCEPT !.news = x])
  <2>1. [tables EXCEPT !.news = x] =
          [news |-> x, published |-> h, slides |-> s, items |-> a, categories |-> c,
           units |-> u, forms |-> f, orgPages |-> o]
    BY <1>1
  <2>2. x \subseteq 1..h
    BY <1>1, <1>2
  <2>3. RowsOf([tables EXCEPT !.news = x])
    BY <1>1, <1>2, <2>1, <2>2 DEF RowsOf
  <2>4. Onward([tables EXCEPT !.news = x])
    BY <1>1, <1>2, <2>1 DEF Onward
  <2>5. QED
    BY <2>3, <2>4
<1>3. ASSUME x \in Seq(Nat), \A i \in 1..Len(x) : x[i] \in n \cup {0}
      PROVE  RowsOf([tables EXCEPT !.slides = x]) /\ Onward([tables EXCEPT !.slides = x])
  <2>1. [tables EXCEPT !.slides = x] =
          [news |-> n, published |-> h, slides |-> x, items |-> a, categories |-> c,
           units |-> u, forms |-> f, orgPages |-> o]
    BY <1>1
  <2>2. RowsOf([tables EXCEPT !.slides = x])
    BY <1>1, <1>3, <2>1 DEF RowsOf
  <2>3. Onward([tables EXCEPT !.slides = x])
    BY <1>1, <2>1 DEF Onward
  <2>4. QED
    BY <2>2, <2>3
<1>4. ASSUME x \subseteq 1..h
      PROVE  RowsOf([tables EXCEPT !.items = x]) /\ Onward([tables EXCEPT !.items = x])
  BY <1>1, <1>4 DEF RowsOf, Onward
<1>5. RowsOf([tables EXCEPT !.categories = x]) /\ Onward([tables EXCEPT !.categories = x])
  BY <1>1 DEF RowsOf, Onward
<1>6. ASSUME x \subseteq Nat
      PROVE  RowsOf([tables EXCEPT !.units = x]) /\ Onward([tables EXCEPT !.units = x])
  BY <1>1, <1>6 DEF RowsOf, Onward
<1>7. ASSUME x \subseteq Nat
      PROVE  RowsOf([tables EXCEPT !.forms = x]) /\ Onward([tables EXCEPT !.forms = x])
  BY <1>1, <1>7 DEF RowsOf, Onward
<1>8. RowsOf([tables EXCEPT !.orgPages = x]) /\ Onward([tables EXCEPT !.orgPages = x])
  BY <1>1 DEF RowsOf, Onward
<1>9. tables.news = n /\ tables.slides = s /\ tables.published = h
  BY <1>1
<1>10. QED
  BY <1>2, <1>3, <1>4, <1>5, <1>6, <1>7, <1>8, <1>9

LEMMA PanelSteps ==
  ASSUME ServerInv, VisitorInv,
         \/ CreateNews \/ DeleteNews \/ CreateSlide \/ UpdateSlide \/ DeleteSlide \/ CreateTabItem
         \/ UpdateTabItem \/ DeleteTabItem \/ DeleteTabGroup \/ DeleteCategory \/ DeleteUnit
         \/ DeleteForm \/ DeleteOrgPage
  PROVE  (ServerInv /\ VisitorInv)'
<1>0. /\ RowsOf(tables)
      /\ tables.news \in Articles /\ tables.slides \in Seq(Nat)
      /\ tables.units \subseteq Nat /\ tables.forms \subseteq Nat
      /\ \A i \in 1..Len(tables.slides) : tables.slides[i] \in tables.news \cup {0}
      /\ tables.published \in Nat
      /\ tables.news \subseteq 1..tables.published /\ tables.items \subseteq 1..tables.published
  BY DEF ServerInv, RowsOf
<1>1. CASE CreateNews
  <2>1. PICK n \in 1..MaxNews :
          /\ n > tables.published
          /\ Edit([tables EXCEPT !.news = @ \cup {n}, !.published = n])
    BY <1>1, Zenon DEF CreateNews
  <2> DEFINE to == [tables EXCEPT !.news = @ \cup {n}, !.published = n]
  <2>2. n \in Nat \ {0}
    BY SiteAssumption
  <2>3. tables.news \cup {n} \in Articles
    <3>1. IsFiniteSet(tables.news) /\ tables.news \subseteq Nat \ {0}
      BY <1>0 DEF Articles
    <3>2. IsFiniteSet(tables.news \cup {n})
      BY <3>1, FS_AddElement
    <3>3. QED
      BY <2>2, <3>1, <3>2 DEF Articles
  <2>4. 1..tables.published \subseteq 1..n /\ n \in 1..n
    BY <1>0, <2>1, <2>2
  <2>5. to = [news |-> tables.news \cup {n}, published |-> n, slides |-> tables.slides,
                 items |-> tables.items, categories |-> tables.categories,
                 units |-> tables.units, forms |-> tables.forms, orgPages |-> tables.orgPages]
    <3>1. PICK a, h, s, i, c, u, f, o :
            tables = [news |-> a, published |-> h, slides |-> s, items |-> i, categories |-> c,
                      units |-> u, forms |-> f, orgPages |-> o]
      BY DEF ServerInv, RowsOf
    <3>2. PICK w : w = [tables EXCEPT !.news = @ \cup {n}]
      OBVIOUS
    <3>3. w = [news |-> a \cup {n}, published |-> h, slides |-> s, items |-> i,
               categories |-> c, units |-> u, forms |-> f, orgPages |-> o]
      BY <3>1, <3>2
    <3>4. [w EXCEPT !.published = n]
            = [news |-> a \cup {n}, published |-> n, slides |-> s, items |-> i,
               categories |-> c, units |-> u, forms |-> f, orgPages |-> o]
      BY <3>3
    <3>5. to = [w EXCEPT !.published = n]
      BY <3>2, Zenon
    <3>6. QED
      BY <3>1, <3>4, <3>5
  <2>6. RowsOf(to)
    <3> HIDE DEF to
    <3>1. QED
      BY <1>0, <2>2, <2>3, <2>4, <2>5 DEF RowsOf
  <2>7. Onward(to)
    <3> HIDE DEF to
    <3>1. QED
      BY <1>0, <2>1, <2>2, <2>5 DEF Onward
  <2>8. QED
    BY <2>1, <2>6, <2>7, EditKeeps
<1>2. CASE DeleteNews
  <2>1. PICK n \in tables.news : /\ \A i \in DOMAIN tables.slides : tables.slides[i] # n
                                 /\ Edit([tables EXCEPT !.news = tables.news \ {n}])
    BY <1>2 DEF DeleteNews
  <2>2. tables.news \ {n} \in Articles
    BY <1>0, FS_RemoveElement DEF Articles
  <2>3. \A i \in 1..Len(tables.slides) : tables.slides[i] \in (tables.news \ {n}) \cup {0}
    BY <1>0, <2>1
  <2>4. RowsOf([tables EXCEPT !.news = tables.news \ {n}]) /\ Onward([tables EXCEPT !.news = tables.news \ {n}])
    BY <1>0, <2>2, <2>3, RowsChanged
  <2>5. QED
    BY <2>1, <2>4, EditKeeps
<1>3. CASE CreateSlide
  <2>1. PICK n \in tables.news \cup {0} :
          Edit([tables EXCEPT !.slides = Append(tables.slides, n)])
    BY <1>3 DEF CreateSlide
  <2>2. n \in Nat
    BY <1>0 DEF Articles
  <2>3. /\ Append(tables.slides, n) \in Seq(Nat)
        /\ \A i \in 1..Len(Append(tables.slides, n)) :
             Append(tables.slides, n)[i] \in tables.news \cup {0}
    BY <1>0, <2>1, <2>2
  <2>4. RowsOf([tables EXCEPT !.slides = Append(tables.slides, n)])
        /\ Onward([tables EXCEPT !.slides = Append(tables.slides, n)])
    BY <1>0, <2>3, RowsChanged
  <2>5. QED
    BY <2>1, <2>4, EditKeeps
<1>4. CASE UpdateSlide
  <2>1. PICK i \in DOMAIN tables.slides, n \in tables.news \cup {0} :
          Edit([tables EXCEPT !.slides = ReplaceAt(tables.slides, i, n)])
    BY <1>4 DEF UpdateSlide
  <2>2. n \in Nat
    BY <1>0 DEF Articles
  <2> DEFINE s == ReplaceAt(tables.slides, i, n)
  <2>3. s = [tables.slides EXCEPT ![i] = n]
    BY <1>0 DEF ReplaceAt
  <2>4. s \in Seq(Nat) /\ \A j \in 1..Len(s) : s[j] \in tables.news \cup {0}
    BY <1>0, <2>1, <2>2, <2>3
  <2>5. RowsOf([tables EXCEPT !.slides = s])
        /\ Onward([tables EXCEPT !.slides = s])
    <3> HIDE DEF s
    <3>1. QED
      BY <1>0, <2>4, RowsChanged
  <2>6. QED
    BY <2>1, <2>5, EditKeeps
<1>5. CASE DeleteSlide
  <2>1. PICK i \in DOMAIN tables.slides :
          Edit([tables EXCEPT !.slides = RemoveAt(tables.slides, i)])
    BY <1>5 DEF DeleteSlide
  <2> DEFINE s == RemoveAt(tables.slides, i)
  <2>2. tables.slides \in Seq(tables.news \cup {0})
    BY <1>0
  <2>3. s \in Seq(tables.news \cup {0})
    BY <2>1, <2>2, RemovingOne
  <2>4. RowsOf([tables EXCEPT !.slides = s])
        /\ Onward([tables EXCEPT !.slides = s])
    <3> HIDE DEF s
    <3>1. s \in Seq(Nat) /\ \A j \in 1..Len(s) : s[j] \in tables.news \cup {0}
      BY <1>0, <2>3 DEF Articles
    <3>2. QED
      BY <1>0, <3>1, RowsChanged
  <2>5. QED
    BY <2>1, <2>4, EditKeeps
<1>6. CASE CreateTabItem \/ UpdateTabItem \/ DeleteTabItem \/ DeleteTabGroup
  <2>1. PICK a : a \subseteq tables.items \cup tables.news /\ Edit([tables EXCEPT !.items = a])
    <3>1. CASE CreateTabItem
      <4>1. PICK n \in tables.news : Edit([tables EXCEPT !.items = tables.items \cup {n}])
        BY <3>1 DEF CreateTabItem
      <4>2. tables.items \cup {n} \subseteq tables.items \cup tables.news
        OBVIOUS
      <4>3. QED
        BY <4>1, <4>2
    <3>2. CASE UpdateTabItem
      <4>1. PICK m \in tables.items, n \in tables.news :
              Edit([tables EXCEPT !.items = (tables.items \ {m}) \cup {n}])
        BY <3>2 DEF UpdateTabItem
      <4>2. (tables.items \ {m}) \cup {n} \subseteq tables.items \cup tables.news
        OBVIOUS
      <4>3. QED
        BY <4>1, <4>2
    <3>3. CASE DeleteTabItem
      <4>1. PICK m \in tables.items : Edit([tables EXCEPT !.items = tables.items \ {m}])
        BY <3>3 DEF DeleteTabItem
      <4>2. tables.items \ {m} \subseteq tables.items \cup tables.news
        OBVIOUS
      <4>3. QED
        BY <4>1, <4>2
    <3>4. CASE DeleteTabGroup
      <4>1. PICK group \in SUBSET tables.items :
              Edit([tables EXCEPT !.items = tables.items \ group])
        BY <3>4 DEF DeleteTabGroup
      <4>2. tables.items \ group \subseteq tables.items \cup tables.news
        OBVIOUS
      <4>3. QED
        BY <4>1, <4>2
    <3>5. QED
      BY <1>6, <3>1, <3>2, <3>3, <3>4
  <2>2. a \subseteq 1..tables.published
    BY <1>0, <2>1
  <2>3. RowsOf([tables EXCEPT !.items = a]) /\ Onward([tables EXCEPT !.items = a])
    BY <1>0, <2>2, RowsChanged
  <2>4. QED
    BY <2>1, <2>3, EditKeeps
<1>7. CASE DeleteCategory
  <2>1. PICK c : Edit([tables EXCEPT !.categories = tables.categories \ {c}])
    BY <1>7 DEF DeleteCategory
  <2>2. RowsOf([tables EXCEPT !.categories = tables.categories \ {c}])
        /\ Onward([tables EXCEPT !.categories = tables.categories \ {c}])
    BY <1>0, RowsChanged
  <2>3. QED
    BY <2>1, <2>2, EditKeeps
<1>8. CASE DeleteUnit
  <2>1. PICK u : Edit([tables EXCEPT !.units = tables.units \ {u}])
    BY <1>8 DEF DeleteUnit
  <2>2. RowsOf([tables EXCEPT !.units = tables.units \ {u}])
        /\ Onward([tables EXCEPT !.units = tables.units \ {u}])
    BY <1>0, RowsChanged
  <2>3. QED
    BY <2>1, <2>2, EditKeeps
<1>9. CASE DeleteForm
  <2>1. PICK f : Edit([tables EXCEPT !.forms = tables.forms \ {f}])
    BY <1>9 DEF DeleteForm
  <2>2. RowsOf([tables EXCEPT !.forms = tables.forms \ {f}])
        /\ Onward([tables EXCEPT !.forms = tables.forms \ {f}])
    BY <1>0, RowsChanged
  <2>3. QED
    BY <2>1, <2>2, EditKeeps
<1>10. CASE DeleteOrgPage
  <2>1. PICK p : Edit([tables EXCEPT !.orgPages = tables.orgPages \ {p}])
    BY <1>10 DEF DeleteOrgPage
  <2>2. RowsOf([tables EXCEPT !.orgPages = tables.orgPages \ {p}])
        /\ Onward([tables EXCEPT !.orgPages = tables.orgPages \ {p}])
    BY <1>0, RowsChanged
  <2>3. QED
    BY <2>1, <2>2, EditKeeps
<1>11. QED
  BY <1>1, <1>2, <1>3, <1>4, <1>5, <1>6, <1>7, <1>8, <1>9, <1>10

LEMMA SiteStart == ASSUME SiteInit PROVE ServerInv /\ VisitorInv
<1>1. {2} \in Articles
  <2>1. IsFiniteSet({2})
    BY FS_Singleton
  <2>2. QED
    BY <2>1 DEF Articles
<1>2. RowsOf(tables)
  BY <1>1 DEF SiteInit, RowsOf
<1>3. PartRead /\ Payload(kept) /\ Payload(content)
  BY DEF SiteInit, PartRead, NotReading, Payload, EMPTY_CONTENT
<1>4. VisitorInv
  BY DEF SiteInit, VisitorInv, SiteLinksLead, EMPTY_CONTENT
<1>5. QED
  BY <1>2, <1>3, <1>4 DEF ServerInv

\* Every link of a page is in the payload it shows, or is one of the four exceptions.
LEMMA LinksOfThePage ==
  ASSUME ServerInv, VisitorInv, NEW to \in Links
  PROVE  \/ to.page \in OrgSlugs
         \/ CASE to.page = "news" -> to.id = 0 \/ to.id \in content.news
              [] to.page = "tab-item" -> to.id \in content.units
              [] to.page = "forms" -> to.id \in content.forms
              [] OTHER -> TRUE
         \/ to.page = "forms" /\ content.forms = {}
         \/ place.page = "home" /\ Old(content)
            /\ to \in ArticleLinks(ToSet(content.slides) \cup content.items)
         \/ place.page = "home" /\ to \in ArticleLinks(content.items \ tables.news)
<1> DEFINE Fine(l) == CASE l.page = "news" -> l.id = 0 \/ l.id \in content.news
                        [] l.page = "tab-item" -> l.id \in content.units
                        [] l.page = "forms" -> l.id \in content.forms
                        [] OTHER -> TRUE
<1>1. \A p : p \notin {"tab-item", "forms"} => Fine(Page(p))
  BY DEF Page, At
<1>2. \A p : p \in OrgSlugs => Page(p).page \in OrgSlugs
  BY DEF Page, At
<1>3. /\ \A c : Fine(At("news?category", c))
      /\ \A u \in content.units : Fine(At("tab-item", u))
      /\ \A f \in content.forms : Fine(At("forms", f))
  BY DEF At
<1>4. \A articles : articles \subseteq content.news => \A l \in ArticleLinks(articles) : Fine(l)
  BY DEF ArticleLinks, Shown, At
<1>5. CASE to \in useNav
  BY <1>1, <1>2, <1>3, <1>5 DEF useNav
<1>6. CASE place.page = "home" /\ to \in Slider
  <2>1. content.slides # << >> /\ to = Shown(content.slides[index]) /\ content.slides[index] # 0
    BY <1>6 DEF Slider
  <2>2. index \in 1..Len(content.slides) /\ content.slides \in Seq(Nat)
    BY <2>1 DEF VisitorInv, ServerInv, Payload
  <2>3. content.slides[index] \in ToSet(content.slides)
    BY <2>2 DEF ToSet
  <2>4. content.slides[index] \in content.news \cup {0} \/ Old(content)
    BY <2>2 DEF ServerInv, Payload
  <2>5. content.slides[index] \in content.news => Fine(to)
    BY <2>1 DEF Shown, At
  <2>6. to \in ArticleLinks(ToSet(content.slides) \cup content.items)
    BY <2>1, <2>3 DEF ArticleLinks
  <2> HIDE DEF Fine
  <2>7. Fine(to) \/ Old(content)
    BY <2>1, <2>4, <2>5
  <2>8. QED
    BY <1>6, <2>6, <2>7 DEF Fine
<1>7. CASE place.page = "home" /\ to \in Ticker \cup UnitsCompact \cup NewsHub \cup {Page("news"), Page("p/arkan")}
  <2>1. Newest(content.news, 6) \subseteq content.news
    BY DEF Newest
  <2>2. to \in Ticker => Fine(to)
    BY <1>4, <2>1 DEF Ticker
  <2>3. to \in UnitsCompact => Fine(to) \/ to \in ArticleLinks(content.items)
    BY <1>3 DEF UnitsCompact
  <2>4. selected # 0 => Fine(Shown(selected))
    BY DEF VisitorInv, Shown, At
  <2>5. to \in NewsHub => Fine(to)
    BY <1>1, <1>3, <2>4 DEF NewsHub
  <2>6. to \in {Page("news"), Page("p/arkan")} => Fine(to)
    BY <1>1
  <2>7. ASSUME NEW n \in content.items, to = Shown(n)
        PROVE  \/ Fine(to)
               \/ Old(content) /\ to \in ArticleLinks(ToSet(content.slides) \cup content.items)
               \/ to \in ArticleLinks(content.items \ tables.news)
    <3>1. n \in content.news \/ n \notin tables.news \/ Old(content)
      BY DEF ServerInv, Payload
    <3>2. n \in content.news => Fine(to)
      BY <2>7 DEF Shown, At
    <3> HIDE DEF Fine
    <3>3. QED
      BY <2>7, <3>1, <3>2 DEF ArticleLinks
  <2> HIDE DEF Fine
  <2>8. to \in ArticleLinks(content.items) => \E n \in content.items : to = Shown(n)
    BY DEF ArticleLinks
  <2>9. \/ Fine(to)
        \/ Old(content) /\ to \in ArticleLinks(ToSet(content.slides) \cup content.items)
        \/ to \in ArticleLinks(content.items \ tables.news)
    BY <1>7, <2>2, <2>3, <2>5, <2>6, <2>7, <2>8
  <2>10. QED
    BY <1>7, <2>9 DEF Fine
<1>8. CASE to \in NewsDetailPage
  <2>1. Newest(Related, 3) \subseteq content.news
    BY DEF Newest, Related, InCategory
  <2>2. Fine(to)
    BY <1>1, <1>4, <1>8, <2>1 DEF NewsDetailPage
  <2>3. QED
    BY <2>2
<1>9. CASE to \in NewsList
  <2>1. /\ InCategory(place.id) \subseteq content.news /\ content.news \subseteq content.news
    BY DEF InCategory
  <2>2. Fine(to)
    BY <1>1, <1>3, <1>4, <1>9, <2>1 DEF NewsList
  <2>3. QED
    BY <2>2
<1>10. CASE to \in UnitPage
  <2>1. CASE content.forms = {}
    <3>1. Fine(to) \/ to.page = "forms"
      BY <1>1, <1>4, <1>10 DEF UnitPage, At
    <3>2. QED
      BY <2>1, <3>1
  <2>2. CASE content.forms # {}
    <3> DEFINE least == CHOOSE f \in content.forms : \A g \in content.forms : f <= g
    <3>1. least \in content.forms
      BY <2>2, LeastNatural DEF ServerInv, Payload
    <3>2. to \in {Page("home"), At("forms", least)} \cup ArticleLinks(content.news)
      BY <1>10, <2>2 DEF UnitPage
    <3> HIDE DEF least
    <3>3. Fine(to)
      BY <1>1, <1>3, <1>4, <3>1, <3>2
    <3>4. QED
      BY <3>3
  <2>3. QED
    BY <2>1, <2>2
<1>11. CASE to \in ArkanPage
  BY <1>2, <1>11 DEF ArkanPage
<1>12. CASE to = Page("home")
  BY <1>1, <1>12
<1>13. \/ to \in useNav
       \/ /\ place.page = "home"
          /\ to \in Slider \cup Ticker \cup UnitsCompact \cup NewsHub \cup {Page("news"), Page("p/arkan")}
       \/ to \in NewsDetailPage \/ to \in NewsList \/ to \in UnitPage \/ to \in ArkanPage
       \/ to = Page("home")
  BY DEF Links, Hero
<1> HIDE DEF Fine
<1>14. QED
  BY <1>5, <1>6, <1>7, <1>8, <1>9, <1>10, <1>11, <1>12, <1>13

LEMMA VisitorSteps ==
  ASSUME ServerInv, VisitorInv,
         \/ SendSlides \/ SendNews \/ SendTabGroups \/ RootLayout \/ FollowLink \/ TurnSlide
         \/ SetCat \/ NewsReader
  PROVE  (ServerInv /\ VisitorInv)'
<1>1. CASE SendSlides
  <2>1. /\ reading' = [under |-> "slides", slides |-> tables.slides,
                       categories |-> tables.categories, news |-> {}, torn |-> FALSE]
        /\ UNCHANGED <<tables, kept, content, place, via, index, cat, selected>>
    BY <1>1 DEF SendSlides, NotReading
  <2>2. PartRead'
    BY <2>1 DEF PartRead, ServerInv, RowsOf
  <2>3. QED
    BY <2>1, <2>2 DEF ServerInv, Payload, Old, VisitorInv, SiteLinksLead, Found
<1>2. CASE SendNews
  <2>1. /\ reading.under = "slides"
        /\ reading' = [reading EXCEPT !.under = "news", !.news = Newest(tables.news, NewsLimit)]
        /\ UNCHANGED <<tables, kept, content, place, via, index, cat, selected>>
    BY <1>2 DEF SendNews
  <2>2. PICK s, c, n, t :
          reading = [under |-> "slides", slides |-> s, categories |-> c, news |-> n, torn |-> t]
    BY <2>1 DEF ServerInv, PartRead
  <2>3. s \in Seq(Nat) /\ (t \/ s = tables.slides)
    BY <2>2 DEF ServerInv, PartRead
  <2>4. reading' = [under |-> "news", slides |-> s, categories |-> c,
                    news |-> Newest(tables.news, NewsLimit), torn |-> t]
    BY <2>1, <2>2
  <2>5. Newest(tables.news, NewsLimit)' = Newest(tables.news, NewsLimit)
    BY <2>1 DEF Newest
  <2>6. PartRead'
    <3>1. /\ reading'.under = "news" /\ reading'.slides = s /\ reading'.categories = c
          /\ reading'.news = Newest(tables.news, NewsLimit) /\ reading'.torn = t
      BY <2>4
    <3>2. t \/ s = tables'.slides
      BY <2>1, <2>3
    <3>3. reading'.news = Newest(tables.news, NewsLimit)'
      BY <2>5, <3>1
    <3>4. reading' = [under |-> reading'.under, slides |-> reading'.slides,
                      categories |-> reading'.categories, news |-> reading'.news,
                      torn |-> reading'.torn]
      BY <2>4, <3>1
    <3>5. QED
      BY <2>3, <3>1, <3>2, <3>3, <3>4 DEF PartRead
  <2>7. QED
    BY <2>1, <2>6 DEF ServerInv, Payload, Old, VisitorInv, SiteLinksLead, Found
<1>3. CASE SendTabGroups
  <2>1. /\ reading.under = "news"
        /\ kept' = [news |-> reading.news, slides |-> reading.slides,
                    categories |-> reading.categories, units |-> tables.units,
                    items |-> tables.items, forms |-> tables.forms,
                    orgPages |-> tables.orgPages, torn |-> reading.torn]
        /\ reading' = NotReading
        /\ UNCHANGED <<tables, content, place, via, index, cat, selected>>
    BY <1>3 DEF SendTabGroups
  <2>2. /\ reading.slides \in Seq(Nat)
        /\ \/ reading.torn
           \/ reading.slides = tables.slides /\ reading.news = Newest(tables.news, NewsLimit)
    BY <2>1 DEF ServerInv, PartRead
  <2> DEFINE news == Newest(tables.news, NewsLimit)
  <2>3. news = tables.news \/ Cardinality(news) = NewsLimit
    BY NewestAreFew, SiteAssumption DEF ServerInv, RowsOf, Articles
  <2>4. /\ tables.units \subseteq Nat /\ tables.forms \subseteq Nat
        /\ tables.items \subseteq 1..tables.published
        /\ \A i \in 1..Len(tables.slides) : tables.slides[i] \in tables.news \cup {0}
    BY DEF ServerInv, RowsOf
  <2> HIDE DEF news
  <2>5. Payload(kept')
    <3>1. CASE reading.torn
      BY <2>1, <2>2, <2>4, <3>1 DEF Payload, Old
    <3>2. CASE reading.slides = tables.slides /\ reading.news = news
      BY <2>1, <2>2, <2>3, <2>4, <3>2 DEF Payload, Old
    <3>3. QED
      BY <2>2, <3>1, <3>2 DEF news
  <2>6. PartRead'
    BY <2>1 DEF PartRead, NotReading
  <2>7. QED
    BY <2>1, <2>5, <2>6 DEF ServerInv, Payload, Old, VisitorInv, SiteLinksLead, Found
<1>4. CASE RootLayout
  <2>1. /\ content' = kept /\ via' = "none" /\ index' = 1 /\ selected' = 0
        /\ UNCHANGED <<tables, reading, kept>>
    BY <1>4 DEF RootLayout, Mount
  <2>2. content'.slides # << >> => 1 \in 1..Len(content'.slides)
    BY <2>1 DEF ServerInv, Payload
  <2>3. QED
    BY <2>1, <2>2 DEF ServerInv, PartRead, Payload, Old, VisitorInv, SiteLinksLead
<1>5. CASE FollowLink
  <2>1. PICK to \in Links : place' = to /\ via' = IF place.page = "home" THEN "home" ELSE "other"
    BY <1>5 DEF FollowLink
  <2>2. /\ index' = 1 /\ selected' = 0
        /\ UNCHANGED <<tables, reading, kept, content>>
    BY <1>5 DEF FollowLink, Mount
  <2>3. content.slides # << >> => 1 \in 1..Len(content.slides)
    BY DEF ServerInv, Payload
  <2>4. SiteLinksLead'
    <3>1. to \in Links => via' = "home" \/ place.page # "home"
      BY <2>1
    <3>2. /\ ArticleLinks(ToSet(content.slides) \cup content.items)'
               = ArticleLinks(ToSet(content.slides) \cup content.items)
          /\ ArticleLinks(content.items \ tables.news)' = ArticleLinks(content.items \ tables.news)
      BY <2>2
    <3>3. QED
      BY <2>1, <2>2, <3>1, <3>2, LinksOfThePage DEF SiteLinksLead, Found, Old
  <2>5. QED
    BY <2>2, <2>3, <2>4 DEF ServerInv, PartRead, Payload, Old, VisitorInv
<1>6. CASE TurnSlide
  <2>1. /\ content.slides # << >>
        /\ LET n == Len(content.slides)
           IN index' \in {(index % n) + 1, ((index - 2 + n) % n) + 1} \cup 1..n
        /\ UNCHANGED <<tables, reading, kept, content, place, via, selected>>
    BY <1>6 DEF TurnSlide, AtHome
  <2>2. content.slides \in Seq(Nat) /\ index \in 1..Len(content.slides)
    BY <2>1 DEF ServerInv, Payload, VisitorInv
  <2>3. \A n \in Nat \ {0} : \A i \in 1..n :
          (i % n) + 1 \in 1..n /\ ((i - 2 + n) % n) + 1 \in 1..n
    OBVIOUS
  <2>4. index' \in 1..Len(content.slides)
    <3>1. Len(content.slides) \in Nat \ {0}
      BY <2>2
    <3>2. PICK n : n = Len(content.slides)
      OBVIOUS
    <3>3. /\ n \in Nat \ {0} /\ index \in 1..n
          /\ index' \in {(index % n) + 1, ((index - 2 + n) % n) + 1} \cup 1..n
      BY <2>1, <2>2, <3>1, <3>2
    <3>4. index' \in 1..n
      BY <2>3, <3>3
    <3>5. QED
      BY <3>2, <3>4
  <2>5. QED
    BY <2>1, <2>4 DEF ServerInv, PartRead, Payload, Old, VisitorInv, SiteLinksLead, Found
<1>7. CASE SetCat
  BY <1>7 DEF SetCat, AtHome, ServerInv, PartRead, Payload, Old, VisitorInv, SiteLinksLead, Found
<1>8. CASE NewsReader
  <2>1. selected' \in content.news \cup {0}
    BY <1>8 DEF NewsReader, Newest, InCategory
  <2>2. QED
    BY <1>8, <2>1 DEF NewsReader, AtHome, ServerInv, PartRead, Payload, Old, VisitorInv, SiteLinksLead, Found
<1>9. QED
  BY <1>1, <1>2, <1>3, <1>4, <1>5, <1>6, <1>7, <1>8

LEMMA SiteStep ==
  ASSUME ServerInv, VisitorInv, [SiteNext]_siteVars
  PROVE  (ServerInv /\ VisitorInv)'
<1>1. CASE UNCHANGED siteVars
  BY <1>1 DEF siteVars, ServerInv, PartRead, Payload, Old, VisitorInv, SiteLinksLead, Found
<1>2. CASE SiteNext
  BY <1>2, PanelSteps, VisitorSteps DEF SiteNext
<1>3. QED
  BY <1>1, <1>2

LEMMA SiteLeads ==
  ASSUME ServerInv /\ VisitorInv PROVE SiteLinksLead
  BY DEF VisitorInv

\* Whoever follows a link gets a page: for any person and any grants, over sign-ins, switches
\* and expiries, in the applications behind the sign-in; and on the public site for any number
\* of articles and changes of the tables between the queries of a read, whatever is shown;
\* but for the dead links that the two properties name.
THEOREM LinksLeadSomewhereHolds == Spec => []LinksLeadSomewhere
<1> DEFINE IInv == BrowserTypes /\ OneExchange /\ Trail /\ ServerInv /\ VisitorInv
<1>1. Init => IInv
  BY BrowserStart, TrailStart, SiteStart DEF Init
<1>2. IInv /\ [Next]_vars => IInv'
  BY BrowserStep, TrailStep, StepsOfTheBrowser, SiteStep, StepsOfTheSite
<1>3. IInv => LinksLeadSomewhere
  BY TrailLeads, SiteLeads DEF LinksLeadSomewhere
<1> HIDE DEF IInv
<1>4. QED
  BY <1>1, <1>2, <1>3, PTL DEF Spec
====================================================================================
