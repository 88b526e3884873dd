---------------------------- MODULE MediaUploads ----------------------------
(***************************************************************************)
(* UploadsController and UploadsService: presigned URLs with a pending     *)
(* record each, and the confirmation of an upload.  The object itself goes *)
(* from the browser to the bucket; the service never looks at it.          *)
(***************************************************************************)
EXTENDS HttpSession

CONSTANTS
    MaxFiles,   \* files of one request; the DTO allows three
    Pending     \* keys recorded, and not confirmed, before any of the requests

Fresh == Requests \X (1..MaxFiles)   \* a new UUID for each file of each request
Keys  == Fresh \cup Pending

ASSUME MaxFilesAssumption == MaxFiles \in 1..3
ASSUME PendingAssumption == Pending \cap Fresh = {}
ASSUME FilesAssumption == \A c \in Calls : c.files \in 1..MaxFiles /\ c.key \in Keys

VARIABLES
    assets,   \* the status of each key's record
    signed,   \* how many files of each request have a URL and a record
    \* ------------ history, read by properties only
    earlier   \* the keys confirmed before each request arrived

uploadVars == <<assets, signed, earlier>>

InitUploads ==
    /\ assets = [k \in Keys |-> IF k \in Pending THEN "pending" ELSE "none"]
    /\ signed = [r \in Requests |-> 0]
    /\ earlier = [r \in Requests |-> {}]

Handles(r, kind) == pc[r] = "handling" /\ call[r].kind = kind

\* An InfrastructureException, or whatever the driver throws: 500 or 503.
Breaks(r) == Reply(r, "error")

------------------------------------------------------------------------------
\* generateUploadUrl, the next file: the storage adapter signs a URL.
Presign(r) ==
    /\ Handles(r, "presign")
    /\ \/ Goto(r, "recording") /\ UNCHANGED reply
       \/ Breaks(r)
    /\ UNCHANGED <<call, loaded, entitled, sessionVars, uploadVars>>

NextKey(r) == <<r, signed[r] + 1>>

MutantPush(r) ==
    /\ signed' = [signed EXCEPT ![r] = @ + 1]
    /\ IF signed[r] = call[r].files
       THEN Reply(r, "ok")
       ELSE Goto(r, "handling") /\ UNCHANGED reply

\* results.push, and the next file or the answer.
Push(r) ==
    /\ signed' = [signed EXCEPT ![r] = @ + 1]
    /\ IF signed[r] + 1 = call[r].files
       THEN Reply(r, "ok")
       ELSE Goto(r, "handling") /\ UNCHANGED reply

MutantRecord(r) ==
    /\ pc[r] = "recording"
    /\ assets' \in {assets, [assets EXCEPT ![NextKey(r)] = "pending"]}
    /\ Push(r)
    /\ UNCHANGED <<call, loaded, entitled, sessionVars, earlier>>

\* The pending record of that file.  An error answers the request, whether or
\* not the record was written; the files before keep theirs.
Record(r) ==
    /\ pc[r] = "recording"
    /\ \/ /\ assets' = [assets EXCEPT ![NextKey(r)] = "pending"]
          /\ Push(r)
       \/ /\ assets' \in {assets, [assets EXCEPT ![NextKey(r)] = "pending"]}
          /\ Breaks(r)
          /\ UNCHANGED signed
    /\ UNCHANGED <<call, loaded, entitled, sessionVars, earlier>>

MutantFindAsset(r) ==
    /\ Handles(r, "confirm")
    /\ \/ assets[call[r].key] = "none" /\ Reply(r, "unknown")
       \/ assets[call[r].key] # "none" /\ Goto(r, "updating") /\ UNCHANGED reply
    /\ UNCHANGED <<call, loaded, entitled, sessionVars, uploadVars>>

\* confirmUpload: 400 for a key without record, 400 for a confirmed one.
FindAsset(r) ==
    /\ Handles(r, "confirm")
    /\ \/ assets[call[r].key] = "none" /\ Reply(r, "unknown")
       \/ assets[call[r].key] = "confirmed" /\ Reply(r, "already")
       \/ assets[call[r].key] = "pending" /\ Goto(r, "updating") /\ UNCHANGED reply
       \/ Breaks(r)
    /\ UNCHANGED <<call, loaded, entitled, sessionVars, uploadVars>>

\* updateStatus, whatever the status has become meanwhile.
UpdateStatus(r) ==
    /\ pc[r] = "updating"
    /\ \/ /\ assets' = [assets EXCEPT ![call[r].key] = "confirmed"]
          /\ Reply(r, "ok")
       \/ /\ assets' \in {assets, [assets EXCEPT ![call[r].key] = "confirmed"]}
          /\ Breaks(r)
    /\ UNCHANGED <<call, loaded, entitled, sessionVars, signed, earlier>>

HandleUploads(r) == Presign(r) \/ Record(r) \/ FindAsset(r) \/ UpdateStatus(r)

------------------------------------------------------------------------------
UploadTypeOK ==
    /\ assets \in [Keys -> {"none", "pending", "confirmed"}]
    /\ signed \in [Requests -> 0..MaxFiles]
    /\ earlier \in [Requests -> SUBSET Keys]

\* All or nothing, as the client sees it: an answer with URLs has one for every
\* file and a record behind each, so that none of the uploads can turn out
\* impossible to confirm.  Records without a URL come from failed requests only.
UrlsHaveRecords ==
    \A r \in Requests :
        /\ call[r].kind = "presign" /\ reply[r] = "ok" =>
              \A n \in 1..call[r].files : assets[<<r, n>>] # "none"
        /\ pc[r] = "done" /\ (\E n \in 1..MaxFiles : assets[<<r, n>>] # "none") =>
              call[r].kind = "presign" /\ reply[r] \in {"ok", "error"}

\* A confirmation that succeeds confirmed something: the asset is confirmed now
\* and was not yet when the request arrived.  Two requests both succeed only
\* when they overlap.
ConfirmationsAreNews ==
    \A r \in Requests :
        call[r].kind = "confirm" /\ reply[r] = "ok" =>
            assets[call[r].key] = "confirmed" /\ call[r].key \notin earlier[r]

\* Records are made, and confirmed, for those only whom the login service had
\* made an administrator by the time their request arrived, unless a request
\* overlapped its last word on the session.
AssetsAreAdministrators ==
    /\ \A k \in Fresh : assets[k] # "none" => k[1] \in entitled
    /\ \A r \in Requests :
          call[r].kind = "confirm" /\ reply[r] = "ok" => r \in entitled
==============================================================================
