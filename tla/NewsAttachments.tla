------------------------------- MODULE NewsAttachments -------------------------------
(* The attachments of a news item in its drawer: several files are picked at once, each  *)
(* is uploaded by itself, and the answers come in any order, between two renderings.     *)
(* Every opening of the drawer resets the form, which mounts a new uploader; the one     *)
(* before is no longer shown, and what it uploads still ends in its handlers.            *)
EXTENDS Integers, SequencesExt

CONSTANTS File,          \* bound: the files that are picked
          MaxOpenings,   \* bound: how often the drawer is opened
          MaxAttached    \* bound: the files of a news item that is opened
ASSUME AttachmentsAssumption == MaxOpenings \in Nat \ {0} /\ MaxAttached \in Nat

VARIABLES value,    \* the form's list, as the uploader shown was last rendered with it
          latest,   \* opening -> the list the handlers of its uploader append to (a ref)
          stored,   \* the form's list, as it would be sent
          files,    \* file -> "known", "uploading", "kept", "failed" or "removed"
          picked,   \* file -> the opening it was picked in, or came with the news item in
          opening,  \* the opening of the drawer
          late      \* an upload of an earlier opening ended in this one (history)
fileVars == <<value, latest, stored, files, picked, opening, late>>

FilesInit ==
  /\ value = << >> /\ latest = [o \in 1..MaxOpenings |-> << >>] /\ stored = << >>
  /\ files = [f \in File |-> "known"]
  /\ picked = [f \in File |-> 0] /\ opening = 1 /\ late = FALSE

Becomes(f, state) == files' = [files EXCEPT ![f] = state]
\* The button waits while files of its own uploader are uploaded.
Pick ==
  /\ \A f \in File : picked[f] = opening => files[f] # "uploading"
  /\ \E some \in SUBSET {f \in File : files[f] = "known"} :
       /\ some # {}
       /\ files' = [f \in File |-> IF f \in some THEN "uploading" ELSE files[f]]
       /\ picked' = [f \in File |-> IF f \in some THEN opening ELSE picked[f]]
  /\ UNCHANGED <<value, latest, stored, opening, late>>

\* Mutant: a file is added to the list the component was rendered with.
PushToTheRendered(f) ==
  /\ files[f] = "uploading"
  /\ latest' = [latest EXCEPT ![picked[f]] = Append(value, f)]
  /\ stored' = latest'[picked[f]] /\ late' = (late \/ picked[f] # opening)
  /\ Becomes(f, "kept")
  /\ UNCHANGED <<value, picked, opening>>
\* The list of the uploader that began it, with the file, becomes the list of the form.
Push(f) ==
  /\ files[f] = "uploading"
  /\ latest' = [latest EXCEPT ![picked[f]] = Append(@, f)]
  /\ stored' = latest'[picked[f]] /\ late' = (late \/ picked[f] # opening)
  /\ Becomes(f, "kept")
  /\ UNCHANGED <<value, picked, opening>>
Fail(f) ==
  /\ files[f] = "uploading"
  /\ Becomes(f, "failed")
  /\ UNCHANGED <<value, latest, stored, picked, opening, late>>

\* The place in the list that is shown; the click is followed by a rendering.
RemoveShown ==
  \E i \in DOMAIN value :
    /\ latest' = [latest EXCEPT ![opening] = RemoveAt(@, i)]
    /\ stored' = latest'[opening] /\ value' = stored'
    /\ Becomes(latest[opening][i], "removed")
    /\ UNCHANGED <<picked, opening, late>>
Render ==
  /\ value # stored
  /\ value' = stored /\ latest' = [latest EXCEPT ![opening] = stored]
  /\ UNCHANGED <<stored, files, picked, opening, late>>
\* The drawer is opened for another news item; the form is reset and filled with the files
\* that one has, and what is uploaded goes on.
OpenAnother ==
  /\ opening < MaxOpenings
  /\ opening' = opening + 1
  /\ \E has \in BoundedSeq({f \in File : files[f] = "known"}, MaxAttached) :
       /\ stored' = has /\ value' = has
       /\ latest' = [latest EXCEPT ![opening'] = has]
       /\ files' = [f \in File |-> IF f \in ToSet(has) THEN "kept" ELSE files[f]]
       /\ picked' = [f \in File |-> IF f \in ToSet(has) THEN opening' ELSE picked[f]]
  /\ late' = FALSE

FilesNext ==
  \/ Pick \/ RemoveShown \/ Render \/ OpenAnother
  \/ \E f \in File : Push(f) \/ Fail(f)

\* "Appending via a ref keeps every file instead of letting the last upload win": a file
\* that the news item had, or that was uploaded for it, and that was not removed is sent
\* with it.  It is so until an upload of an earlier opening ends: its uploader is gone and
\* its list, of another news item, replaces the one of the form.
UploadedFilesAreKept ==
  ~ late => \A f \in File : (files[f] = "kept" /\ picked[f] = opening) => f \in ToSet(stored)
====================================================================================
