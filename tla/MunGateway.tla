------------------------------ MODULE MunGateway ------------------------------
(***************************************************************************)
(* What the municipality (mahyapardaz) may answer to the three requests of *)
(* the MunSanandaj sync, and what MunSanandajGatewayClient makes of each   *)
(* answer.  A body is abstracted to the parts its parser looks at; a part  *)
(* may be absent, well formed, or of a JSON kind the parser does not       *)
(* expect, in which case System.Text.Json throws.                          *)
(***************************************************************************)
CONSTANT Engineer      \* national ids the municipality may name in an answer

\* Bodies that are not a JSON document, and documents whose root is no object.
NotObject == [json : {"text", "array"}]

ReportBody ==
  NotObject \cup
  [json : {"object"},
   report : {"absent", "notobject", "noflag", "notbool", "true", "false"},
   id : BOOLEAN,                              \* peigiri present and not empty
   error : {"absent", "string", "notstring"}]

\* The "engineers" member gives a verdict for each code it lists.
EngineersMember == [Engineer -> {"unlisted", "ok", "unknown", "odd"}]

MapBody ==
  NotObject \cup
  [json : {"object"},
   error : {"absent", "string", "notstring"},
   engineers : EngineersMember,
   files : {"absent", "stored", "notstored", "odd"}]

AddBody ==
  NotObject \cup
  [json : {"object"},
   success : {"absent", "true", "false", "notbool"},
   entry : {"absent", "true", "false", "notbool"}]

-----------------------------------------------------------------------------
(* MunGatewayResult: Success, whether a RemoteSubmissionId came with it, and
   the keys of FailedEngineerMessages.  "throws" is the exception that leaves
   the parser instead of a result. *)
Verdict == {"success", "failed", "throws"}
Result == [verdict : Verdict, id : BOOLEAN, unknown : SUBSET Engineer]

Succeeded(id)    == [verdict |-> "success", id |-> id, unknown |-> {}]
Refused(unknown) == [verdict |-> "failed", id |-> FALSE, unknown |-> unknown]
Throws           == [verdict |-> "throws", id |-> FALSE, unknown |-> {}]

\* error is read with GetString, which throws on a number or an object.
ErrorResult(error) == IF error = "notstring" THEN Throws ELSE Refused({})

\* Mutant: a parser that takes any answer without an error for a success.
LenientParseReport(b) ==
  IF b.json = "text" THEN Refused({})
  ELSE IF b.json = "array" \/ b.report = "notobject" THEN Throws
  ELSE IF b.error = "absent" THEN Succeeded(b.id)
  ELSE ErrorResult(b.error)
UnknownIn(b) == {c \in Engineer : b.engineers[c] = "unknown"}
ParseSaveEngineerReport(b) ==
  IF b.json = "text" THEN Refused({})
  ELSE IF b.json = "array" \/ b.report \in {"notobject", "notbool"} THEN Throws
  ELSE IF b.report = "true" THEN Succeeded(b.id)
  ELSE ErrorResult(b.error)

ParseSaveEngMap(b) ==
  IF b.json = "text" THEN Refused({})
  ELSE IF b.json = "array" THEN Throws
  ELSE IF b.error # "absent" THEN ErrorResult(b.error)
  ELSE IF \E c \in Engineer : b.engineers[c] = "odd" THEN Throws
  ELSE IF UnknownIn(b) # {} THEN Refused(UnknownIn(b))
  ELSE IF b.files = "odd" THEN Throws
  ELSE Succeeded(b.files = "stored")

ParseAddEngineer(b) ==
  IF b.json = "text" THEN "failed"
  ELSE IF b.json = "array" \/ b.success = "notbool" THEN "throws"
  ELSE IF b.success = "false" THEN "failed"
  ELSE IF b.entry = "notbool" THEN "throws"
  ELSE IF b.entry = "true" THEN "success" ELSE "failed"

-----------------------------------------------------------------------------
(* The municipality itself is external.  It is taken to be honest: an answer
   that can be read names the stored file exactly when the file was stored (a
   map's file may be stored although an engineer is unknown); an answer that
   cannot be read, or never arrives, says nothing about what was stored. *)
ReportConfirms(b) == b.report = "true"
MapConfirms(b)    == b.error = "absent" /\ b.files = "stored"
AddConfirms(b)    == b.success \in {"absent", "true"} /\ b.entry = "true"

\* The three answers to saveEngMap the integration knows: an error, engineers
\* that are unknown, a stored file.  Anything else the parser takes for success.
Documented(b) == b.error # "absent" \/ UnknownIn(b) # {} \/ MapConfirms(b)

\* An outcome of a request: was it stored, what does the client return, and is
\* the answer one of the documented ones (unreadable answers count as such)?
Outcome == [stored : BOOLEAN, documented : BOOLEAN, result : Result]

Honest(st, b, r, confirms) ==
  b.json = "object" /\ r.verdict # "throws" => (st <=> confirms)

ReportOutcome ==
  {[stored |-> sb[1], documented |-> TRUE, result |-> ParseSaveEngineerReport(sb[2])] :
     sb \in {x \in BOOLEAN \X ReportBody :
              Honest(x[1], x[2], ParseSaveEngineerReport(x[2]), ReportConfirms(x[2]))}}

MapOutcome ==
  {[stored |-> sb[1],
    documented |-> sb[2].json = "object" => Documented(sb[2]),
    result |-> ParseSaveEngMap(sb[2])] :
     sb \in {x \in BOOLEAN \X MapBody :
              Honest(x[1], x[2], ParseSaveEngMap(x[2]), MapConfirms(x[2]))}}

AddOutcome ==
  {[stored |-> sb[1], verdict |-> ParseAddEngineer(sb[2])] :
     sb \in {x \in BOOLEAN \X AddBody :
              x[2].json = "object" /\ ParseAddEngineer(x[2]) # "throws" =>
                (x[1] <=> AddConfirms(x[2]))}}

\* The connection fails, the request times out or the answer is cut off: the
\* exception reaches the caller whether or not the request was stored.
Lost == [stored : BOOLEAN, documented : {TRUE}, result : {Throws}]
=============================================================================
