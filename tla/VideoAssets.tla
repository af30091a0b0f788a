----------------------------- MODULE VideoAssets -----------------------------
(***************************************************************************)
(* What a video owns in the object storage: its file, uploaded by the      *)
(* client in parts and completed by the backend, and the two documents of  *)
(* its AI report (internal/modules/video/service.go, report_service.go).   *)
(*                                                                         *)
(* The row and the objects are written by separate calls with no           *)
(* transaction around them, and a handler may fail between any two.  The   *)
(* objects of the report keep their names from one evaluation to the next, *)
(* so that writing a report replaces the one before.                       *)
(***************************************************************************)
EXTENDS Naturals

CONSTANTS
  Uploads,        \* handlers of requests about the video
  MaxVerdicts     \* bound: AI evaluations of the video, known by their rank

ASSUME VideoAssetsAssumption == MaxVerdicts \in Nat

VARIABLES
  clipRow,    \* the row of videos
  bucket,     \* the object storage
  verdict,    \* the latest AI evaluation of the video
  upload,     \* what a handler has done and read
  solo        \* handlers do not overlap in this behaviour

assetsVars == <<clipRow, bucket, verdict, upload, solo>>

Evaluation == 0..MaxVerdicts   \* 0: none

\* metadata.aiReport
StoredReport == [status : {"none", "ready", "failed"}, eval : Evaluation]

NoReport == [status |-> "none", eval |-> 0]
FailedReport == [status |-> "failed", eval |-> 0]
ReadyReport(e) == [status |-> "ready", eval |-> e]

HandlerStep == {"idle", "opened", "loaded", "completed", "marked", "found",
                "objectGone", "reporting", "notReady", "rendering", "htmlPut", "pdfPut"}

Handler == [step : HandlerStep, eval : Evaluation, report : StoredReport]

IdleHandler == [step |-> "idle", eval |-> 0, report |-> NoReport]

VideoAssetsTypeOK ==
  /\ clipRow \in [status : {"none", "uploading", "ready", "deleted"},
                  report : StoredReport]
  /\ bucket \in [multipart : {"none", "open", "completed"}, video : BOOLEAN,
                 html : Evaluation, pdf : Evaluation]
  /\ verdict \in [eval : Evaluation, status : {"none", "processing", "completed", "failed"}]
  /\ upload \in [Uploads -> Handler]
  /\ solo \in BOOLEAN

AssetsRest ==
  /\ clipRow = [status |-> "none", report |-> NoReport]
  /\ bucket = [multipart |-> "none", video |-> FALSE, html |-> 0, pdf |-> 0]
  /\ verdict = [eval |-> 0, status |-> "none"]
  /\ upload = [h \in Uploads |-> IdleHandler]

VideoAssetsInit == AssetsRest /\ solo \in BOOLEAN
-----------------------------------------------------------------------------
Present == clipRow.status \in {"uploading", "ready"}

\* A request arrives.
Arrives(h) ==
  /\ upload[h].step = "idle"
  /\ solo => \A g \in Uploads : upload[g].step = "idle"

GoesTo(h, step) == upload' = [upload EXCEPT ![h].step = step]

EndsRequest(h) == upload' = [upload EXCEPT ![h] = IdleHandler]

\* An error or a crash between two calls.
RequestFails(h) ==
  /\ upload[h].step # "idle"
  /\ EndsRequest(h)
  /\ UNCHANGED <<clipRow, bucket, verdict, solo>>
-----------------------------------------------------------------------------
(***************************************************************************)
(* CreateUploadCredential: the multipart upload comes before the row.      *)
(***************************************************************************)

OpenMultipart(h) ==
  /\ Arrives(h)
  /\ clipRow.status = "none" /\ bucket.multipart = "none"
  /\ bucket' = [bucket EXCEPT !.multipart = "open"]
  /\ GoesTo(h, "opened")
  /\ UNCHANGED <<clipRow, verdict, solo>>

CreateVideo(h) ==
  /\ upload[h].step = "opened"
  /\ clipRow' = [clipRow EXCEPT !.status = "uploading"]
  /\ EndsRequest(h)
  /\ UNCHANGED <<bucket, verdict, solo>>
-----------------------------------------------------------------------------
(***************************************************************************)
(* ConfirmUpload.  An upload can be completed once: a confirmation that    *)
(* fails after that cannot be repeated.                                    *)
(***************************************************************************)

LoadForConfirm(h) ==
  /\ Arrives(h)
  /\ Present
  /\ GoesTo(h, "loaded")
  /\ UNCHANGED <<clipRow, bucket, verdict, solo>>

CompleteUpload(h) ==
  /\ upload[h].step = "loaded"
  /\ bucket.multipart = "open"
  /\ bucket' = [bucket EXCEPT !.multipart = "completed", !.video = TRUE]
  /\ GoesTo(h, "completed")
  /\ UNCHANGED <<clipRow, verdict, solo>>

\* The update finds no row when the video was deleted; that is no error.
MarkReady(h) ==
  /\ upload[h].step = "completed"
  /\ clipRow' = IF Present THEN [clipRow EXCEPT !.status = "ready"] ELSE clipRow
  /\ GoesTo(h, "marked")
  /\ UNCHANGED <<bucket, verdict, solo>>

\* The row is read again, an AI evaluation is created if there is none yet, and the
\* answer is put together; the handler panics if a deletion took the row away.
AnswerConfirm(h) ==
  /\ upload[h].step = "marked"
  /\ verdict' = IF Present /\ verdict.eval = 0 /\ MaxVerdicts > 0
                THEN [eval |-> 1, status |-> "processing"] ELSE verdict
  /\ EndsRequest(h)
  /\ UNCHANGED <<clipRow, bucket, solo>>
-----------------------------------------------------------------------------
(***************************************************************************)
(* Delete: the object of the video comes before its row.                   *)
(***************************************************************************)

LoadForDelete(h) ==
  /\ Arrives(h)
  /\ Present
  /\ GoesTo(h, "found")
  /\ UNCHANGED <<clipRow, bucket, verdict, solo>>

\* Mutated: an upload that is not finished is taken for one without an object.
DeleteObjectOfReady(h) ==
  /\ upload[h].step = "found"
  /\ bucket' = IF clipRow.status = "ready" THEN [bucket EXCEPT !.video = FALSE] ELSE bucket
  /\ GoesTo(h, "objectGone")
  /\ UNCHANGED <<clipRow, verdict, solo>>

DeleteObject(h) ==
  /\ upload[h].step = "found"
  /\ bucket' = [bucket EXCEPT !.video = FALSE]
  /\ GoesTo(h, "objectGone")
  /\ UNCHANGED <<clipRow, verdict, solo>>

DeleteVideoRow(h) ==
  /\ upload[h].step = "objectGone"
  /\ clipRow' = [clipRow EXCEPT !.status = "deleted", !.report = NoReport]
  /\ EndsRequest(h)
  /\ UNCHANGED <<bucket, verdict, solo>>
-----------------------------------------------------------------------------
(***************************************************************************)
(* GenerateAIReport, and the rendering of a report, which generates it     *)
(* when the stored one does not belong to the latest evaluation.           *)
(***************************************************************************)

LoadForReport(h) ==
  /\ Arrives(h)
  /\ Present
  /\ upload' = [upload EXCEPT ![h].step = "reporting", ![h].report = clipRow.report]
  /\ UNCHANGED <<clipRow, bucket, verdict, solo>>

CanReuse(report, e) == report = ReadyReport(e)

\* buildVideoReportContext: only the latest evaluation counts, and only completed; any
\* error on the way, of the database too, is one of the report.
BuildReportContext(h) ==
  /\ upload[h].step = "reporting"
  /\ \/ GoesTo(h, "notReady")
     \/ /\ verdict.status = "completed"
        /\ IF CanReuse(upload[h].report, verdict.eval) THEN EndsRequest(h)
           ELSE upload' = [upload EXCEPT ![h].step = "rendering",
                                         ![h].eval = verdict.eval]
  /\ UNCHANGED <<clipRow, bucket, verdict, solo>>

WriteReport(report) ==
  clipRow' = IF Present THEN [clipRow EXCEPT !.report = report] ELSE clipRow

FailReport(h) ==
  /\ upload[h].step = "notReady"
  /\ WriteReport(FailedReport)
  /\ EndsRequest(h)
  /\ UNCHANGED <<bucket, verdict, solo>>

\* Mutated: the row is told before the document is there.
PutHTMLAnnounced(h) ==
  /\ upload[h].step = "rendering"
  /\ bucket' = [bucket EXCEPT !.html = upload[h].eval]
  /\ WriteReport(ReadyReport(upload[h].eval))
  /\ GoesTo(h, "htmlPut")
  /\ UNCHANGED <<verdict, solo>>

PutHTML(h) ==
  /\ upload[h].step = "rendering"
  /\ bucket' = [bucket EXCEPT !.html = upload[h].eval]
  /\ GoesTo(h, "htmlPut")
  /\ UNCHANGED <<clipRow, verdict, solo>>

PutPDF(h) ==
  /\ upload[h].step = "htmlPut"
  /\ bucket' = [bucket EXCEPT !.pdf = upload[h].eval]
  /\ GoesTo(h, "pdfPut")
  /\ UNCHANGED <<clipRow, verdict, solo>>

StoreReport(h) ==
  /\ upload[h].step = "pdfPut"
  /\ WriteReport(ReadyReport(upload[h].eval))
  /\ EndsRequest(h)
  /\ UNCHANGED <<bucket, verdict, solo>>
-----------------------------------------------------------------------------
(***************************************************************************)
(* The AI side (AIEvaluation): it takes no part in solo.                   *)
(***************************************************************************)

RunAgain ==
  /\ clipRow.status = "ready"
  /\ verdict.status # "processing" /\ verdict.eval < MaxVerdicts
  /\ verdict' = [eval |-> verdict.eval + 1, status |-> "processing"]
  /\ UNCHANGED <<clipRow, bucket, upload, solo>>

VerdictArrives ==
  /\ verdict.status = "processing"
  /\ \E outcome \in {"completed", "failed"} :
       verdict' = [verdict EXCEPT !.status = outcome]
  /\ UNCHANGED <<clipRow, bucket, upload, solo>>

VideoAssetsNext ==
  \/ \E h \in Uploads :
       \/ OpenMultipart(h) \/ CreateVideo(h)
       \/ LoadForConfirm(h) \/ CompleteUpload(h) \/ MarkReady(h) \/ AnswerConfirm(h)
       \/ LoadForDelete(h) \/ DeleteObject(h) \/ DeleteVideoRow(h)
       \/ LoadForReport(h) \/ BuildReportContext(h) \/ FailReport(h)
       \/ PutHTML(h) \/ PutPDF(h) \/ StoreReport(h)
       \/ RequestFails(h)
  \/ RunAgain
  \/ VerdictArrives

VideoAssetsSpec == VideoAssetsInit /\ [][VideoAssetsNext]_assetsVars
-----------------------------------------------------------------------------
(***************************************************************************)
(* Properties.                                                             *)
(***************************************************************************)

\* Whatever fails and however requests overlap, a video is ready only once its upload
\* was completed, and a report is ready only when both documents are stored; one by
\* one, the report that is ready for the latest evaluation has the documents of that
\* evaluation, which are the ones a rendering reads.
ReadyMeansStored ==
  /\ clipRow.status = "ready" => bucket.multipart = "completed"
  /\ clipRow.report.status = "ready" => bucket.html # 0 /\ bucket.pdf # 0
  /\ solo /\ clipRow.report = ReadyReport(verdict.eval) =>
       bucket.html = verdict.eval /\ bucket.pdf = verdict.eval

\* One by one, a deleted video leaves no file behind, also after a confirmation or
\* an earlier deletion that failed half way.
DeletedVideosLeaveNoFile ==
  solo /\ clipRow.status = "deleted" => ~bucket.video
=============================================================================
