------------------------------ MODULE FileRecorder ------------------------------
(***************************************************************************)
(* The local recorder and its replay (packages/ai-sdk/src/recording.ts).   *)
(* The body is written first and the manifest last, so that a recorder     *)
(* stopped between two writes leaves nothing that replays.                 *)
(***************************************************************************)
EXTENDS Naturals, Sequences

CONSTANTS
  MaxResponses,
  Recording    \* "refused" or "all", the recorder's modes, or "off": no onCapture

Responses == 1..MaxResponses

VARIABLES
  disk         \* per response: how much of response.sse and recording.json exists

FileStates == { "absent", "partial", "whole" }

RecorderInit ==
  disk = [ r \in Responses |-> [ body |-> "absent", manifest |-> "absent" ] ]

\* Which responses reach the disk, past the early returns.
Recorded(status) == Recording = "all" \/ (Recording = "refused" /\ status = "refused")

Grown(file) == IF file = "absent" THEN "partial" ELSE "whole"

\* One more write reaches the disk: the whole body precedes the manifest.
WriteNext(r) ==
  IF disk[r].body # "whole"
    THEN disk' = [ disk EXCEPT ![r].body = Grown(@) ]
    ELSE disk' = [ disk EXCEPT ![r].manifest = Grown(@) ]

Saved(r) == disk[r].manifest = "whole"

\* No write is synced: what a power loss leaves of the two files may have the
\* manifest and lack bytes of the body.
Survivors(files) ==
  { files } \cup IF files.body = "whole" THEN { [ files EXCEPT !.body = "partial" ] }
                ELSE {}

\* Mutant of Replayed: the hash of the body is not compared.
ReplayedUnhashed(files, bodyComplete, verdict) ==
  IF files.manifest # "whole" THEN "error"
  ELSE IF ~bodyComplete THEN "refused"
  ELSE verdict

\* What replayRecording() answers: an error unless the manifest parses and the
\* body has its hash; a body whose end was not seen is refused unread.
Replayed(files, bodyComplete, verdict) ==
  IF files.manifest # "whole" \/ files.body # "whole" THEN "error"
  ELSE IF ~bodyComplete THEN "refused"
  ELSE verdict
================================================================================
