------------------------------ MODULE AutoEdit -------------------------------
(***************************************************************************)
(* An upload session of the auto-edit API: UploadService.store_part and    *)
(* complete (auto_edit_service.py) over the rows of AutoEditRepository and *)
(* the staging folder of the session, with requests that overlap.          *)
(*                                                                         *)
(* A file is an inode holding a content; a part is written through a       *)
(* temporary name all writers of that part share, and every completion     *)
(* assembles into the one name assembled.bin.  The analysis of the asset   *)
(* is in Analyses.                                                         *)
(***************************************************************************)
EXTENDS Naturals, FiniteSets

CONSTANTS
    UParts,             \* numbers of the parts
    UContents,          \* contents a part may have, positive numbers
    UExpected,          \* checksum the client announced, as the contents of the parts
    UWriters,           \* requests that store a part, positive numbers
    UCompleters         \* requests that complete the upload

ASSUME UploadConstants ==
    /\ UContents \subseteq Nat \ {0}
    /\ UWriters \subseteq Nat \ {0}
    /\ UExpected \in [UParts -> UContents]

VARIABLES
    upload,             \* row: [status, quarantine, recorded, asset]
    uDisk,              \* content of each inode, named by the writer that made it; 0 is empty
    uTmp,               \* inode of each part's temporary file, 0 for none
    uPart,              \* inode of each part's staged file, 0 for none
    uAssembled,         \* assembled.bin: <<>> for none, <<file>> otherwise
    uFolder,            \* whether the staging folder is there
    uWriter,            \* [pc, part, content, node] of each writer
    uCompleter,         \* [pc, sum, put, verdict]; what a completer hashed and what it stored
    uObjects,           \* object storage: [key, content], one for each key
    uAssets             \* the registry of assets: [key, content]

uVars == <<upload, uDisk, uTmp, uPart, uAssembled, uFolder, uWriter, uCompleter,
           uObjects, uAssets>>
uFiles == <<uDisk, uTmp, uPart, uAssembled, uFolder>>

Empty == [n \in UParts |-> 0]
Accepting == upload.status \in {"initialized", "uploading"}
WIdle == [pc |-> "idle", part |-> 0, content |-> 0, node |-> 0]
CIdle == [pc |-> "idle", sum |-> Empty, put |-> Empty, verdict |-> "none"]

UInit ==
    /\ upload = [status |-> "initialized", quarantine |-> "not_scanned",
                 recorded |-> {}, asset |-> {}]
    /\ uDisk = [w \in UWriters |-> 0]
    /\ uTmp = [n \in UParts |-> 0]
    /\ uPart = [n \in UParts |-> 0]
    /\ uAssembled = <<>>
    /\ uFolder = TRUE
    /\ uWriter = [w \in UWriters |-> WIdle]
    /\ uCompleter = [c \in UCompleters |-> CIdle]
    /\ uObjects = {}
    /\ uAssets = {}

-----------------------------------------------------------------------------
(* store_part: the row is read, the body streamed, the file renamed, and    *)
(* the part recorded if the upload still accepts parts.                     *)

OpenPart(w, n, content) ==
    /\ uWriter[w].pc = "idle"
    /\ Accepting
    /\ LET node == IF uTmp[n] = 0 THEN w ELSE uTmp[n]
       IN  /\ uDisk' = [uDisk EXCEPT ![node] = 0]
           /\ uTmp' = [uTmp EXCEPT ![n] = node]
           /\ uWriter' = [uWriter EXCEPT ![w] =
                 [pc |-> "open", part |-> n, content |-> content, node |-> node]]
    /\ uFolder' = TRUE
    /\ UNCHANGED <<upload, uPart, uAssembled, uCompleter, uObjects, uAssets>>

WritePart(w) ==
    /\ uWriter[w].pc = "open"
    /\ uDisk' = [uDisk EXCEPT ![uWriter[w].node] = uWriter[w].content]
    /\ uWriter' = [uWriter EXCEPT ![w].pc = "written"]
    /\ UNCHANGED <<upload, uTmp, uPart, uAssembled, uFolder, uCompleter, uObjects, uAssets>>

\* The body has the wrong size or checksum, or the client goes away.
AbandonPart(w) ==
    /\ uWriter[w].pc \in {"open", "written"}
    /\ uTmp' = [uTmp EXCEPT ![uWriter[w].part] = 0]
    /\ uWriter' = [uWriter EXCEPT ![w].pc = "over"]
    /\ UNCHANGED <<upload, uDisk, uPart, uAssembled, uFolder, uCompleter, uObjects, uAssets>>

\* temporary.replace(destination); without a temporary file it raises.
ReplacePart(w) ==
    LET n == uWriter[w].part
    IN  /\ uWriter[w].pc = "written"
        /\ IF uTmp[n] = 0
           THEN uWriter' = [uWriter EXCEPT ![w].pc = "over"] /\ UNCHANGED <<uPart, uTmp>>
           ELSE /\ uPart' = [uPart EXCEPT ![n] = uTmp[n]]
                /\ uTmp' = [uTmp EXCEPT ![n] = 0]
                /\ uWriter' = [uWriter EXCEPT ![w].pc = "staged"]
        /\ UNCHANGED <<upload, uDisk, uAssembled, uFolder, uCompleter, uObjects, uAssets>>

RecordPart(w) ==
    /\ uWriter[w].pc = "staged"
    /\ IF Accepting
       THEN upload' = [upload EXCEPT !.status = "uploading",
                                     !.recorded = @ \cup {uWriter[w].part}]
       ELSE UNCHANGED upload
    /\ uWriter' = [uWriter EXCEPT ![w].pc = "over"]
    /\ UNCHANGED <<uFiles, uCompleter, uObjects, uAssets>>

-----------------------------------------------------------------------------
(* complete.                                                               *)

Goes(c, pc) == uCompleter' = [uCompleter EXCEPT ![c].pc = pc]

\* Accepted with every part recorded and staged; anything else is answered at once.
BeginComplete(c) ==
    /\ uCompleter[c].pc = "idle"
    /\ IF Accepting /\ upload.recorded = UParts /\ \A n \in UParts : uPart[n] # 0
       THEN Goes(c, "assembling")
       ELSE Goes(c, "over")
    /\ UNCHANGED <<upload, uFiles, uWriter, uObjects, uAssets>>

\* _assemble, in a thread: assembled.bin is opened anew, then filled part by part.
OpenAssembled(c) ==
    /\ uCompleter[c].pc = "assembling"
    /\ IF uFolder
       THEN uAssembled' = <<Empty>> /\ Goes(c, "filling")
       ELSE UNCHANGED uAssembled /\ Goes(c, "over")
    /\ UNCHANGED <<upload, uDisk, uTmp, uPart, uFolder, uWriter, uObjects, uAssets>>

FillAssembled(c) ==
    /\ uCompleter[c].pc = "filling"
    /\ IF \E n \in UParts : uPart[n] = 0
       THEN UNCHANGED uAssembled /\ Goes(c, "over")
       ELSE LET file == [n \in UParts |-> uDisk[uPart[n]]]
            IN  /\ uAssembled' = IF uAssembled = <<>> THEN <<>> ELSE <<file>>
                /\ uCompleter' = [uCompleter EXCEPT ![c].pc = "filled", ![c].sum = file]
    /\ UNCHANGED <<upload, uDisk, uTmp, uPart, uFolder, uWriter, uObjects, uAssets>>

\* mark_upload_failed looks at nothing.  (Mutant: an unknown status.)
MarkUnknown == upload' = [upload EXCEPT !.status = "error"]
MarkFailed == upload' = [upload EXCEPT !.status = "failed"]

\* Size and announced checksum are those of what was hashed.  (Mutant: the
\* checksum is not compared.)
SizeOnly(c) == \A n \in UParts : uCompleter[c].sum[n] # 0
AsAnnounced(c) == uCompleter[c].sum = UExpected

CheckAssembled(c) ==
    /\ uCompleter[c].pc = "filled"
    /\ IF AsAnnounced(c)
       THEN UNCHANGED upload /\ Goes(c, "checked")
       ELSE MarkFailed /\ Goes(c, "over")
    /\ UNCHANGED <<uFiles, uWriter, uObjects, uAssets>>

\* mark_upload_quarantined.  (Mutant: from any status.)
QuarantinableAlways(status) == TRUE
Quarantinable(status) == status \in {"initialized", "uploading", "quarantined"}

Quarantine(c) ==
    /\ uCompleter[c].pc = "checked"
    /\ IF Quarantinable(upload.status)
       THEN /\ upload' = [upload EXCEPT !.status = "quarantined", !.quarantine = "quarantined"]
            /\ Goes(c, "quarantined")
       ELSE UNCHANGED upload /\ Goes(c, "over")
    /\ UNCHANGED <<uFiles, uWriter, uObjects, uAssets>>

\* The scanner hashes assembled.bin again before it judges it.
Scan(c) ==
    /\ uCompleter[c].pc = "quarantined"
    /\ \E verdict \in IF uAssembled = <<uCompleter[c].sum>>
                      THEN {"clean", "rejected", "error"} ELSE {"error"} :
          uCompleter' = [uCompleter EXCEPT ![c].pc = "scanned", ![c].verdict = verdict]
    /\ UNCHANGED <<upload, uFiles, uWriter, uObjects, uAssets>>

\* record_upload_scan: an error leaves the upload in quarantine.
RecordScan(c) ==
    LET verdict == uCompleter[c].verdict
        awaited == upload.status = "quarantined" /\ upload.quarantine = "quarantined"
    IN  /\ uCompleter[c].pc = "scanned"
        /\ upload' = IF ~awaited \/ verdict = "error" THEN upload
                     ELSE IF verdict = "clean" THEN [upload EXCEPT !.quarantine = "trusted"]
                     ELSE [upload EXCEPT !.status = "rejected", !.quarantine = "rejected"]
        /\ Goes(c, IF awaited /\ verdict = "clean" THEN "probing" ELSE "over")
        /\ UNCHANGED <<uFiles, uWriter, uObjects, uAssets>>

\* Signature and probe; a file that is gone or not media fails the upload.
ProbeMedia(c) ==
    /\ uCompleter[c].pc = "probing"
    /\ \/ uAssembled # <<>> /\ Goes(c, "probed") /\ UNCHANGED upload
       \/ MarkFailed /\ Goes(c, "over")
    /\ UNCHANGED <<uFiles, uWriter, uObjects, uAssets>>

\* find_duplicate_asset: an asset of the project with the hashed content is reused.
FindDuplicate(c) ==
    /\ uCompleter[c].pc = "probed"
    /\ Goes(c, IF \E a \in uAssets : a.content = uCompleter[c].sum THEN "stored" ELSE "storing")
    /\ UNCHANGED <<upload, uFiles, uWriter, uObjects, uAssets>>

\* put_file stores what assembled.bin holds now under the key of what was hashed.
PutUpload(c) ==
    LET key == uCompleter[c].sum
    IN  /\ uCompleter[c].pc = "storing"
        /\ uAssembled # <<>>
        /\ uObjects' = {o \in uObjects : o.key # key} \cup {[key |-> key, content |-> uAssembled[1]]}
        /\ uCompleter' = [uCompleter EXCEPT ![c].pc = "put", ![c].put = uAssembled[1]]
        /\ UNCHANGED <<upload, uFiles, uWriter, uAssets>>

\* register_asset: a key registered with other content is refused.
RegisterUpload(c) ==
    LET asset == [key |-> uCompleter[c].sum, content |-> uCompleter[c].put]
    IN  /\ uCompleter[c].pc = "put"
        /\ IF \E a \in uAssets : a.key = asset.key /\ a # asset
           THEN MarkFailed /\ Goes(c, "over") /\ UNCHANGED uAssets
           ELSE uAssets' = uAssets \cup {asset} /\ Goes(c, "stored") /\ UNCHANGED upload
        /\ UNCHANGED <<uFiles, uWriter, uObjects>>

\* Storage or the registry raises, or assembled.bin is gone.
StorageFails(c) ==
    /\ uCompleter[c].pc \in {"storing", "put"}
    /\ MarkFailed
    /\ Goes(c, "over")
    /\ UNCHANGED <<uFiles, uWriter, uObjects, uAssets>>

\* finish_upload, then the folder is removed.
Promotable == upload.quarantine = "trusted"

FinishUpload(c) ==
    /\ uCompleter[c].pc = "stored"
    /\ IF Promotable
       THEN /\ upload' = [upload EXCEPT !.status = "completed", !.asset = {uCompleter[c].sum}]
            /\ Goes(c, "cleaning")
       ELSE UNCHANGED upload /\ Goes(c, "over")
    /\ UNCHANGED <<uFiles, uWriter, uObjects, uAssets>>

RemoveFolder(c) ==
    /\ uCompleter[c].pc = "cleaning"
    /\ uFolder' = FALSE
    /\ uTmp' = [n \in UParts |-> 0]
    /\ uPart' = [n \in UParts |-> 0]
    /\ uAssembled' = <<>>
    /\ Goes(c, "over")
    /\ UNCHANGED <<upload, uDisk, uWriter, uObjects, uAssets>>

-----------------------------------------------------------------------------
UNext ==
    \/ \E w \in UWriters :
          \/ \E n \in UParts, content \in UContents : OpenPart(w, n, content)
          \/ WritePart(w) \/ AbandonPart(w) \/ ReplacePart(w) \/ RecordPart(w)
    \/ \E c \in UCompleters :
          \/ BeginComplete(c) \/ OpenAssembled(c) \/ FillAssembled(c) \/ CheckAssembled(c)
          \/ Quarantine(c) \/ Scan(c) \/ RecordScan(c) \/ ProbeMedia(c) \/ FindDuplicate(c)
          \/ PutUpload(c) \/ RegisterUpload(c) \/ StorageFails(c) \/ FinishUpload(c) \/ RemoveFolder(c)

USpec == UInit /\ [][UNext]_uVars

-----------------------------------------------------------------------------
(* Properties.                                                             *)

\* The row and the files have their types.
UTypeOK ==
    /\ upload.status \in {"initialized", "uploading", "quarantined", "rejected",
                          "completed", "failed"}
    /\ upload.quarantine \in {"not_scanned", "quarantined", "trusted", "rejected"}
    /\ upload.recorded \subseteq UParts
    /\ uDisk \in [UWriters -> UContents \cup {0}]
    /\ uTmp \in [UParts -> UWriters \cup {0}] /\ uPart \in [UParts -> UWriters \cup {0}]

\* Once one completion has rejected the media, no other completion of the same
\* upload, wherever it stands, turns it into an asset of the project.
RejectedStaysRejected ==
    [][upload.quarantine = "rejected" =>
          upload'.quarantine = "rejected" /\ upload'.status # "completed"]_uVars

\* A completed upload names an asset that is registered under the checksum the
\* client announced, however its parts were sent again meanwhile.
CompletedNamesAnAsset ==
    upload.status = "completed" =>
        upload.asset = {UExpected} /\ \E a \in uAssets : UExpected \in {a.key, a.content}

\* "Completion streams parts into one assembled file, verifies the expected
\* checksum": what a completed upload stored is what the client announced.
CompletedIsVerified ==
    upload.status = "completed" => \E a \in uAssets : a.content = UExpected
=============================================================================
