---------------------------- MODULE DocumentStore ----------------------------
(***************************************************************************)
(* Documents live in two places that nothing updates together: the file    *)
(* <id>.bin written by docstore.Store and the row of table documents.      *)
(* UploadDocument writes first the one and then the other; it can fail, or *)
(* the process end, between any two of its steps.  DownloadDocument and    *)
(* CreateTask read the row and then the file.  A document's id is a fresh  *)
(* uuid, so an upload is named by it.                                      *)
(***************************************************************************)
CONSTANTS
  Docs,          \* uploads, and the documents they make
  Downloads,     \* DownloadDocument requests
  Submissions,   \* CreateTask requests, which hash the document again
  DocOf,         \* the document each of these requests names
  Crashes,       \* may the process end and be started again
  RemoveFails    \* may os.Remove fail (its error is discarded)

ASSUME DocumentAssumption ==
  /\ DocOf \in [Downloads \cup Submissions -> Docs]
  /\ {Crashes, RemoveFails} \subseteq BOOLEAN

VARIABLES
  tmp,       \* <id>.bin.tmp: none, part of the document, or all of it
  bin,       \* <id>.bin
  row,       \* the row: none, or whether it holds a checksum
  upload,    \* where UploadDocument is
  download,  \* where DownloadDocument is
  submit     \* where CreateTask is, and whether its task has a checksum

diskVars == <<tmp, bin>>
readVars == <<download, submit>>
vars == <<diskVars, row, upload, readVars>>


(* The final name only ever holds a whole document. *)
TypeOK ==
  /\ tmp \in [Docs -> {"none", "part", "whole"}] /\ bin \in [Docs -> {"none", "whole"}]
  /\ row \in [Docs -> {"none", "hashed", "unhashed"}]
  /\ upload \in [Docs -> {"idle", "copy", "rename", "hash", "insert", "insert unhashed",
                          "undo", "ok", "failed", "lost"}]
  /\ download \in [Downloads -> {"idle", "load", "send", "ok", "missing", "lost"}]
  /\ submit \in [Submissions -> {"idle", "hash", "ok", "ok unhashed", "lost"}]

Init ==
  /\ tmp = [d \in Docs |-> "none"] /\ bin = [d \in Docs |-> "none"]
  /\ row = [d \in Docs |-> "none"] /\ upload = [d \in Docs |-> "idle"]
  /\ download = [r \in Downloads |-> "idle"] /\ submit = [k \in Submissions |-> "idle"]

(* os.Remove whose error is discarded. *)
Remove(f, d) == {[f EXCEPT ![d] = "none"]} \cup (IF RemoveFails THEN {f} ELSE {})

-----------------------------------------------------------------------------
(* Save fails before it has a file, *)
SaveRefused(d) ==
  /\ upload[d] = "idle"
  /\ upload' = [upload EXCEPT ![d] = "failed"]
  /\ UNCHANGED <<diskVars, row, readVars>>

(* or makes the temporary file, *)
SaveCreate(d) ==
  /\ upload[d] = "idle"
  /\ tmp' = [tmp EXCEPT ![d] = "part"]
  /\ upload' = [upload EXCEPT ![d] = "copy"]
  /\ UNCHANGED <<bin, row, readVars>>

(* copies the document into it, *)
SaveCopy(d) ==
  /\ upload[d] = "copy"
  /\ tmp' = [tmp EXCEPT ![d] = "whole"]
  /\ upload' = [upload EXCEPT ![d] = "rename"]
  /\ UNCHANGED <<bin, row, readVars>>

(* Mutant: a failed upload leaves its temporary file. *)
SaveFailsLeaves(d) ==
  /\ upload[d] \in {"copy", "rename"}
  /\ upload' = [upload EXCEPT ![d] = "failed"]
  /\ UNCHANGED <<diskVars, row, readVars>>

(* removes it when the copy, the close or the rename fails, *)
SaveFails(d) ==
  /\ upload[d] \in {"copy", "rename"}
  /\ tmp' \in Remove(tmp, d)
  /\ upload' = [upload EXCEPT ![d] = "failed"]
  /\ UNCHANGED <<bin, row, readVars>>

(* Mutant: the file gets its name before it is complete. *)
SaveRenameEarly(d) ==
  /\ upload[d] \in {"copy", "rename"}
  /\ bin' = [bin EXCEPT ![d] = tmp[d]]
  /\ tmp' = [tmp EXCEPT ![d] = "none"]
  /\ upload' = [upload EXCEPT ![d] = "hash"]
  /\ UNCHANGED <<row, readVars>>

(* and gives it its final name in one step. *)
SaveRename(d) ==
  /\ upload[d] = "rename"
  /\ bin' = [bin EXCEPT ![d] = tmp[d]]
  /\ tmp' = [tmp EXCEPT ![d] = "none"]
  /\ upload' = [upload EXCEPT ![d] = "hash"]
  /\ UNCHANGED <<row, readVars>>

(* CalcChecksum reads the file back. *)
Hash(d) ==
  /\ upload[d] = "hash"
  /\ upload' = [upload EXCEPT ![d] = "insert"]
  /\ UNCHANGED <<diskVars, row, readVars>>

(* Mutant: a file that cannot be hashed is dropped, and the upload goes on. *)
HashFailsDrops(d) ==
  /\ upload[d] = "hash"
  /\ bin' = [bin EXCEPT ![d] = "none"]
  /\ upload' = [upload EXCEPT ![d] = "insert unhashed"]
  /\ UNCHANGED <<tmp, row, readVars>>

(* Its error is discarded. *)
HashFails(d) ==
  /\ upload[d] = "hash"
  /\ upload' = [upload EXCEPT ![d] = "insert unhashed"]
  /\ UNCHANGED <<diskVars, row, readVars>>

Insert(d) ==
  /\ upload[d] \in {"insert", "insert unhashed"}
  /\ row' = [row EXCEPT ![d] = IF upload[d] = "insert" THEN "hashed" ELSE "unhashed"]
  /\ upload' = [upload EXCEPT ![d] = "ok"]
  /\ UNCHANGED <<diskVars, readVars>>

(* Mutant: the insert is reported as failed after it took effect. *)
InsertFailsLate(d) ==
  /\ upload[d] \in {"insert", "insert unhashed"}
  /\ row' = [row EXCEPT ![d] = "unhashed"]
  /\ upload' = [upload EXCEPT ![d] = "undo"]
  /\ UNCHANGED <<diskVars, readVars>>

(* The insert fails (its user is gone, its client has left): no row.  That *)
(* an error means that nothing was stored is an assumption about the       *)
(* SQLite driver.  UploadDocument inserts under the context of the         *)
(* request, which ends when the client leaves: a driver that could report  *)
(* the end of the context after the row was committed would behave like    *)
(* InsertFailsLate, and a row would be left without its file.              *)
InsertFails(d) ==
  /\ upload[d] \in {"insert", "insert unhashed"}
  /\ upload' = [upload EXCEPT ![d] = "undo"]
  /\ UNCHANGED <<diskVars, row, readVars>>

(* The file is deleted again. *)
Undo(d) ==
  /\ upload[d] = "undo"
  /\ bin' \in Remove(bin, d)
  /\ upload' = [upload EXCEPT ![d] = "failed"]
  /\ UNCHANGED <<tmp, row, readVars>>

-----------------------------------------------------------------------------
(* DownloadDocument finds the row, *)
DownloadRead(r) ==
  /\ download[r] = "idle" /\ row[DocOf[r]] # "none"
  /\ download' = [download EXCEPT ![r] = "load"]
  /\ UNCHANGED <<diskVars, row, upload, submit>>

(* opens the file, or answers "document file not found", *)
DownloadLoad(r) ==
  /\ download[r] = "load"
  /\ download' = [download EXCEPT ![r] =
                    IF bin[DocOf[r]] = "none" THEN "missing" ELSE "send"]
  /\ UNCHANGED <<diskVars, row, upload, submit>>

(* and copies it to the client after the row's checksum. *)
DownloadSend(r) ==
  /\ download[r] = "send"
  /\ download' = [download EXCEPT ![r] = "ok"]
  /\ UNCHANGED <<diskVars, row, upload, submit>>

(* CreateTask finds the row, *)
SubmitRead(k) ==
  /\ submit[k] = "idle" /\ row[DocOf[k]] # "none"
  /\ submit' = [submit EXCEPT ![k] = "hash"]
  /\ UNCHANGED <<diskVars, row, upload, download>>

(* and hashes the file; the task has no checksum if that fails. *)
SubmitHash(k) ==
  /\ submit[k] = "hash"
  /\ \/ /\ bin[DocOf[k]] # "none"
        /\ submit' = [submit EXCEPT ![k] = "ok"]
     \/ submit' = [submit EXCEPT ![k] = "ok unhashed"]
  /\ UNCHANGED <<diskVars, row, upload, download>>

(* The process ends: requests are gone, files and rows stay. *)
Crash ==
  /\ Crashes
  /\ upload' = [d \in Docs |->
       IF upload[d] \in {"idle", "ok", "failed"} THEN upload[d] ELSE "lost"]
  /\ download' = [r \in Downloads |->
       IF download[r] \in {"load", "send"} THEN "lost" ELSE download[r]]
  /\ submit' = [k \in Submissions |-> IF submit[k] = "hash" THEN "lost" ELSE submit[k]]
  /\ UNCHANGED <<diskVars, row>>

UploadStep(d) ==
  \/ SaveRefused(d) \/ SaveCreate(d) \/ SaveCopy(d) \/ SaveFails(d)
  \/ SaveRename(d) \/ Hash(d) \/ HashFails(d) \/ Insert(d) \/ InsertFails(d) \/ Undo(d)
DownloadStep(r) == DownloadRead(r) \/ DownloadLoad(r) \/ DownloadSend(r)
SubmitStep(k) == SubmitRead(k) \/ SubmitHash(k)

Next ==
  \/ \E d \in Docs : UploadStep(d)
  \/ \E r \in Downloads : DownloadStep(r)
  \/ \E k \in Submissions : SubmitStep(k)
  \/ Crash

Spec == Init /\ [][Next]_vars
-----------------------------------------------------------------------------
(* A document that has a row has its whole file: a crash or a failure      *)
(* anywhere in an upload leaves no row that leads nowhere.                 *)
RowHasFile == \A d \in Docs : row[d] # "none" => bin[d] = "whole"

(* And a request that has found the row finds the file: nothing takes it   *)
(* away between the two reads, and a task gets the document's own checksum. *)
DocumentsReadable ==
  /\ RowHasFile
  /\ \A r \in Downloads : download[r] # "missing"
  /\ \A k \in Submissions : submit[k] = "hash" => bin[DocOf[k]] = "whole"

(* An upload that was answered leaves either a row and its file or nothing *)
(* at all (while files can be removed): only a crash leaves a file that no *)
(* row names.                                                              *)
AnsweredIsClean ==
  \A d \in Docs : upload[d] \in {"ok", "failed"} =>
    tmp[d] = "none" /\ (bin[d] # "none" <=> row[d] # "none")
=============================================================================
