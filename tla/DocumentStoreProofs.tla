------------------------- MODULE DocumentStoreProofs -------------------------
(***************************************************************************)
(* A row of documents always has its file, and readers of the row find it. *)
(***************************************************************************)
EXTENDS DocumentStore, TLAPS

Stored == {"hash", "insert", "insert unhashed", "undo"}

(* An upload between the rename and its end has its file and no row, ... *)
UploadInv ==
  \A d \in Docs :
    /\ upload[d] = "rename" => tmp[d] = "whole"
    /\ upload[d] \in Stored => bin[d] = "whole"
    /\ upload[d] # "ok" => row[d] = "none"
    /\ upload[d] = "ok" => bin[d] = "whole"

(* ... and a reader that is past its first read has found the row. *)
ReaderInv ==
  /\ \A r \in Downloads : /\ download[r] = "load" => row[DocOf[r]] # "none"
                          /\ download[r] # "missing"
  /\ \A k \in Submissions : submit[k] = "hash" => row[DocOf[k]] # "none"

DocInv == TypeOK /\ UploadInv /\ ReaderInv

LEMMA InitInv == Init => DocInv
BY DEF Init, DocInv, TypeOK, UploadInv, ReaderInv, Stored

(* An uploading request touches only its own document, and takes a row or  *)
(* a file away from nobody.                                                *)
LEMMA UploadKeepsInv ==
  ASSUME DocInv, NEW d \in Docs, UploadStep(d)
  PROVE  DocInv'
<1> USE DocumentAssumption DEF diskVars, readVars, Remove, Stored
<1>1. CASE SaveRefused(d)
  BY <1>1, ZenonT(30) DEF SaveRefused, DocInv, TypeOK, UploadInv, ReaderInv
<1>2. CASE SaveCreate(d)
  BY <1>2, ZenonT(30) DEF SaveCreate, DocInv, TypeOK, UploadInv, ReaderInv
<1>3. CASE SaveCopy(d)
  BY <1>3, ZenonT(30) DEF SaveCopy, DocInv, TypeOK, UploadInv, ReaderInv
<1>4. CASE SaveFails(d)
  BY <1>4, ZenonT(30) DEF SaveFails, DocInv, TypeOK, UploadInv, ReaderInv
<1>5. CASE SaveRename(d)
  BY <1>5, ZenonT(30) DEF SaveRename, DocInv, TypeOK, UploadInv, ReaderInv
<1>6. CASE Hash(d)
  BY <1>6, ZenonT(30) DEF Hash, DocInv, TypeOK, UploadInv, ReaderInv
<1>7. CASE HashFails(d)
  BY <1>7, ZenonT(30) DEF HashFails, DocInv, TypeOK, UploadInv, ReaderInv
<1>8. CASE Insert(d)
  BY <1>8, ZenonT(30) DEF Insert, DocInv, TypeOK, UploadInv, ReaderInv
<1>9. CASE InsertFails(d)
  BY <1>9, ZenonT(30) DEF InsertFails, DocInv, TypeOK, UploadInv, ReaderInv
<1>10. CASE Undo(d)
  <2>1. /\ upload[d] = "undo" /\ upload' = [upload EXCEPT ![d] = "failed"]
        /\ UNCHANGED <<tmp, row, download, submit>>
    BY <1>10 DEF Undo
  <2>2. CASE bin' = bin
    BY <2>1, <2>2, ZenonT(30) DEF DocInv, TypeOK, UploadInv, ReaderInv
  <2>3. CASE bin' = [bin EXCEPT ![d] = "none"]
    BY <2>1, <2>3, ZenonT(30) DEF DocInv, TypeOK, UploadInv, ReaderInv
  <2> QED
    BY <1>10, <2>2, <2>3 DEF Undo
<1> QED
  BY <1>1, <1>2, <1>3, <1>4, <1>5, <1>6, <1>7, <1>8, <1>9, <1>10 DEF UploadStep

(* A reader changes only its own progress. *)
LEMMA DownloadKeepsInv ==
  ASSUME DocInv, NEW r \in Downloads, DownloadStep(r)
  PROVE  DocInv'
<1> USE DocumentAssumption DEF diskVars
<1>1. CASE DownloadLoad(r)
  BY <1>1, ZenonT(30) DEF DownloadLoad, DocInv, TypeOK, UploadInv, ReaderInv
<1>2. CASE DownloadSend(r)
  BY <1>2, ZenonT(30) DEF DownloadSend, DocInv, TypeOK, UploadInv, ReaderInv
<1>3. CASE DownloadRead(r)
  BY <1>3, ZenonT(30) DEF DownloadRead, DocInv, TypeOK, UploadInv, ReaderInv
<1> QED
  BY <1>1, <1>2, <1>3 DEF DownloadStep

LEMMA SubmitKeepsInv ==
  ASSUME DocInv, NEW k \in Submissions, SubmitStep(k)
  PROVE  DocInv'
<1> USE DocumentAssumption DEF diskVars
<1>1. CASE SubmitHash(k)
  <2>1. PICK pc \in {"ok", "ok unhashed"} : submit' = [submit EXCEPT ![k] = pc]
    BY <1>1 DEF SubmitHash
  <2>2. UNCHANGED <<tmp, bin, row, upload, download>>
    BY <1>1 DEF SubmitHash
  <2> QED
    BY <2>1, <2>2, ZenonT(30) DEF DocInv, TypeOK, UploadInv, ReaderInv
<1>2. CASE SubmitRead(k)
  BY <1>2, ZenonT(30) DEF SubmitRead, DocInv, TypeOK, UploadInv, ReaderInv
<1> QED
  BY <1>1, <1>2 DEF SubmitStep

LEMMA CrashKeepsInv == DocInv /\ Crash => DocInv'
<1> SUFFICES ASSUME DocInv, Crash PROVE DocInv'
  OBVIOUS
<1>1. TypeOK'
  BY DEF Crash, DocInv, TypeOK, diskVars
<1>2. UploadInv'
  BY DEF Crash, DocInv, TypeOK, UploadInv, Stored, diskVars
<1>3. ReaderInv'
  BY DEF Crash, DocInv, TypeOK, ReaderInv, diskVars
<1> QED
  BY <1>1, <1>2, <1>3 DEF DocInv

LEMMA StepKeepsInv == DocInv /\ [Next]_vars => DocInv'
<1> SUFFICES ASSUME DocInv, [Next]_vars PROVE DocInv'
  OBVIOUS
<1>1. ASSUME NEW d \in Docs, UploadStep(d) PROVE DocInv'
  BY <1>1, UploadKeepsInv
<1>2. ASSUME NEW r \in Downloads, DownloadStep(r) PROVE DocInv'
  BY <1>2, DownloadKeepsInv
<1>3. ASSUME NEW k \in Submissions, SubmitStep(k) PROVE DocInv'
  BY <1>3, SubmitKeepsInv
<1>4. CASE Crash
  BY <1>4, CrashKeepsInv
<1>5. CASE UNCHANGED vars
  BY <1>5 DEF vars, diskVars, readVars, DocInv, TypeOK, UploadInv, ReaderInv
<1> QED
  BY <1>1, <1>2, <1>3, <1>4, <1>5 DEF Next

LEMMA InvImplies == DocInv => TypeOK /\ DocumentsReadable
BY DocumentAssumption DEF DocInv, TypeOK, UploadInv, ReaderInv, RowHasFile, DocumentsReadable

(* The state stays well typed; above all, no document is ever in part      *)
(* under its final name (store.go writes it under another and renames).    *)
THEOREM TypeCorrect == Spec => []TypeOK
BY InitInv, StepKeepsInv, InvImplies, PTL DEF Spec

(* A row always has its whole file, whatever fails in an upload and        *)
(* whenever the process ends (UploadDocument inserts the row last), and    *)
(* DownloadDocument and CreateTask find the file of a row they have read.  *)
THEOREM DocumentsReadableAlways == Spec => []DocumentsReadable
BY InitInv, StepKeepsInv, InvImplies, PTL DEF Spec

-----------------------------------------------------------------------------
(* Where an upload is says which of its two files there are.               *)
CleanInv ==
  \A d \in Docs :
    /\ upload[d] \in {"idle", "copy", "rename", "failed"} => bin[d] = "none"
    /\ upload[d] \in Stored \cup {"idle", "ok", "failed"} => tmp[d] = "none"
    /\ upload[d] = "ok" => row[d] # "none"

LEMMA UploadKeepsClean ==
  ASSUME RemoveFails = FALSE, DocInv, CleanInv, NEW d \in Docs, UploadStep(d)
  PROVE  CleanInv'
<1> USE DEF DocInv, TypeOK, CleanInv, diskVars, readVars, Stored
<1>1. CASE SaveRefused(d)
  BY <1>1 DEF SaveRefused
<1>2. CASE SaveCreate(d)
  BY <1>2 DEF SaveCreate
<1>3. CASE SaveCopy(d)
  BY <1>3 DEF SaveCopy
<1>4. CASE SaveFails(d)
  <2>1. tmp' = [tmp EXCEPT ![d] = "none"]
    BY <1>4 DEF SaveFails, Remove
  <2>2. QED
    BY <1>4, <2>1 DEF SaveFails
<1>5. CASE SaveRename(d)
  BY <1>5 DEF SaveRename
<1>6. CASE Hash(d)
  BY <1>6 DEF Hash
<1>7. CASE HashFails(d)
  BY <1>7 DEF HashFails
<1>8. CASE Insert(d)
  BY <1>8 DEF Insert
<1>9. CASE InsertFails(d)
  BY <1>9 DEF InsertFails
<1>10. CASE Undo(d)
  <2>1. bin' = [bin EXCEPT ![d] = "none"]
    BY <1>10 DEF Undo, Remove
  <2>2. QED
    BY <1>10, <2>1 DEF Undo
<1>11. QED
  BY <1>1, <1>2, <1>3, <1>4, <1>5, <1>6, <1>7, <1>8, <1>9, <1>10 DEF UploadStep

(* While files can be removed, an upload that was answered leaves a row    *)
(* and its file or nothing, whichever of its steps failed:                 *)
(* AnsweredIsClean.                                                        *)
THEOREM AnsweredIsCleanAlways ==
  ASSUME RemoveFails = FALSE
  PROVE  Spec => []AnsweredIsClean
<1>1. Init => CleanInv
  BY DEF Init, CleanInv, Stored
<1>2. DocInv /\ CleanInv /\ [Next]_vars => CleanInv'
  <2> SUFFICES ASSUME DocInv, CleanInv, [Next]_vars PROVE CleanInv'
    OBVIOUS
  <2>1. CASE UNCHANGED <<diskVars, row, upload>>
    BY <2>1 DEF CleanInv, diskVars
  <2>2. CASE Crash
    BY <2>2 DEF Crash, DocInv, TypeOK, CleanInv, Stored, diskVars
  <2>3. QED
    BY <2>1, <2>2, UploadKeepsClean
       DEF Next, vars, DownloadStep, DownloadRead, DownloadLoad, DownloadSend,
           SubmitStep, SubmitRead, SubmitHash
<1>3. DocInv /\ CleanInv => AnsweredIsClean
  BY DEF DocInv, UploadInv, CleanInv, AnsweredIsClean, Stored
<1>4. QED
  BY <1>1, <1>2, <1>3, InitInv, StepKeepsInv, PTL DEF Spec
=============================================================================
