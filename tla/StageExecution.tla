---------------------------- MODULE StageExecution ----------------------------
(***************************************************************************)
(* One execution of a leased stage: WorkerAgent._produce_result_uri         *)
(* (parser_serve/worker/agent.py) with the download of the source from the *)
(* control plane, a web site or an object store, the conversion of legacy  *)
(* documents, a parser service behind the remote protocol                  *)
(* (parser_serve/backends/remote.py), the gateway that serves this         *)
(* protocol (parser_serve/ray_serve/gateway.py), and the upload of what    *)
(* was produced.                                                           *)
(*                                                                         *)
(* Contents are compared as their digests are.  A content may be altered   *)
(* on its way; a call may fail; the service may be any implementation of   *)
(* the protocol, the gateway among them, and may go on after the worker    *)
(* has given up.                                                           *)
(***************************************************************************)
EXTENDS Naturals

CONSTANTS
  Jobs,               \* the stages: see JobsAssumption
  MaximumDownload,    \* limit of a download from a site or an object store
  MaximumFile,        \* maximum_file_bytes of the gateway
  MaximumRedirects,
  MaximumArtifacts

(* kind: of the source; legacy: a file that is a document to be converted; *)
(* gateway: the service is the gateway of this repository; authorized: the *)
(* service accepts the worker's credentials.                               *)
ASSUME JobsAssumption ==
  /\ Jobs \subseteq [kind : {"text", "uploaded", "url", "object"},
                     legacy : BOOLEAN, gateway : BOOLEAN, authorized : BOOLEAN]
  /\ \A j \in Jobs : j.kind = "text" => ~j.legacy
ASSUME ExecNumbersAssumption ==
  /\ MaximumDownload \in Nat /\ MaximumFile \in Nat
  /\ MaximumRedirects \in Nat /\ MaximumArtifacts \in Nat

VARIABLES
  job,       \* the stage
  run,       \* its execution by the worker
  service    \* the call at the parser service

execVars == <<job, run, service>>

(* Contents, with their sizes: right is the one that the lease of an       *)
(* uploaded file names; disguised is not what its name and type say, and   *)
(* garbled bears no signature and is no text.                              *)
SizeOf == [right |-> 2, altered |-> 2, disguised |-> 2, garbled |-> 2,
           short |-> 1, large |-> 3, oversized |-> 4]

Contents == DOMAIN SizeOf

File(content) == [of |-> content, converted |-> FALSE]

NoFile == File("text")

(* The statuses by which a service says that it cannot answer now, and the *)
(* other ones.                                                             *)
Retryable_without_overload == {408, 425, 500, 502, 503, 504}

_RETRYABLE_STATUS_CODES == {408, 425, 429, 500, 502, 503, 504}

OtherStatuses == {200, 401, 404}

(* What goes wrong in the world.  Passing faults may not happen next time; *)
(* lasting ones will.  Neither is said of faults at the control plane and  *)
(* the object store and of the conversion.                                 *)
Passing == {"network", "unavailable", "time_out", "busy"}

Lasting == {"content", "integrity", "size", "redirects", "address",
            "credentials", "model", "foreign_result"}

-----------------------------------------------------------------------------
(* The worker. *)

At(phase) == run.phase = phase

Goes(phase) ==
  run' = [run EXCEPT !.phase = phase] /\ UNCHANGED <<job, service>>

Takes(content) ==
  /\ run' = [run EXCEPT !.phase = "prepare", !.file = File(content),
                        !.origin = content]
  /\ UNCHANGED <<job, service>>

(* The end of the execution by an exception: a BackendExecutionError says  *)
(* whether it is retryable, any other is an INTERNAL_ERROR that is not.    *)
Fails(fault, retryable) ==
  /\ run' = [run EXCEPT !.phase = "failed", !.fault = fault,
                        !.retryable = retryable]
  /\ UNCHANGED <<job, service>>

(* A call of the control plane fails or is refused. *)
ControlPlaneFails == Fails("control_plane", FALSE)

(* What the first bytes of a content show it to be: by a signature, or as  *)
(* a text.  Here short is a text of its declared type.                     *)
_binary_inspection(content) ==
  CASE content = "disguised" -> {"another type"}
    [] content \in {"garbled", "short"} -> {}
    [] OTHER -> {"declared type"}

_text_inspection(content) ==
  IF content = "garbled" THEN {} ELSE {"declared type"}

(* What is seen agrees with the extension and the declared type. *)
inspect_content(content) ==
  LET binary == _binary_inspection(content)
      seen == IF binary = {} THEN _text_inspection(content) ELSE binary
  IN seen = {"declared type"}

(* A download that has ended is inspected, and removed when it is refused. *)
Inspected(content) ==
  \/ inspect_content(content) /\ Takes(content)
  \/ ~inspect_content(content) /\ Fails("content", FALSE)

ResolveText ==
  /\ At("resolve") /\ job.kind = "text"
  /\ Goes("execute")

(* The headers and the bytes must be those that the lease names. *)
download_source ==
  /\ At("resolve") /\ job.kind = "uploaded"
  /\ \/ ControlPlaneFails
     \/ \E declared, content \in Contents :
          IF {declared, content} = {"right"}
            THEN Inspected(content)
            ELSE Fails("integrity", FALSE)

TooLarge == {content \in Contents : SizeOf[content] > MaximumDownload}

(* validate_source_url refuses a host, or cannot resolve its name. *)
validate_source_url ==
  \/ Fails("address", FALSE)
  \/ Fails("network", TRUE)

(* A redirection without a target, beyond the limit, or away from https;   *)
(* or the next address to try.                                             *)
Redirect ==
  \/ Fails("redirects", FALSE)
  \/ /\ run.redirects < MaximumRedirects
     /\ run' = [run EXCEPT !.redirects = @ + 1]
     /\ UNCHANGED <<job, service>>

fetch_url_source ==
  /\ At("resolve") /\ job.kind = "url"
  /\ \/ validate_source_url
     \/ Redirect
     \/ Fails("unavailable", TRUE)        \* a status of 500 and above
     \/ Fails("refused", FALSE)           \* any other one
     \/ Fails("network", TRUE)
     \/ \E content \in Contents :
          IF content \in TooLarge
            THEN Fails("size", FALSE)
            ELSE Inspected(content)

(* A location that is unsafe, or in a bucket that is not allowed. *)
_location == Fails("address", FALSE)

(* What the store raises is retryable, also when it has no such object. *)
download_object_storage_source ==
  /\ At("resolve") /\ job.kind = "object"
  /\ \/ _location
     \/ Fails("object_store", TRUE)
     \/ \E declared, content \in Contents :
          IF {declared, content} \cap TooLarge # {}
            THEN Fails("size", FALSE)
            ELSE IF SizeOf[declared] # SizeOf[content]
                   THEN Fails("integrity", FALSE)
                   ELSE Inspected(content)

(* LibreOffice writes the new document; or it is missing, takes too long,  *)
(* fails, or writes nothing.                                               *)
convert_legacy_office ==
  \/ /\ run' = [run EXCEPT !.phase = "execute", !.file.converted = TRUE]
     /\ UNCHANGED <<job, service>>
  \/ Fails("conversion", TRUE)

(* LegacyOfficePreprocessor: every failure of LibreOffice is retryable. *)
prepare ==
  /\ At("prepare")
  /\ IF job.legacy THEN convert_legacy_office ELSE Goes("execute")

-----------------------------------------------------------------------------
(* RemoteHttpBackend.execute *)

(* _request names the size and the digest of the file; then the progress   *)
(* is reported.                                                            *)
_request ==
  /\ At("execute")
  /\ \/ /\ run' = [run EXCEPT !.phase = "send", !.named = run.file]
        /\ UNCHANGED <<job, service>>
     \/ ControlPlaneFails

(* The request reaches the service, its file perhaps not as it was sent.   *)
Receive ==
  /\ At("send")
  /\ \E content \in IF job.kind = "text" THEN {"text"} ELSE Contents :
       service' = [service EXCEPT !.phase = "received",
                      !.file = [run.file EXCEPT !.of = content],
                      !.named = run.named]
  /\ run' = [run EXCEPT !.phase = "sent"]
  /\ UNCHANGED job

(* No answer: a timeout, or an error of the connection. *)
SendFails == (At("send") \/ At("sent")) /\ Fails("network", TRUE)

(* The result is for this task and its source, and refers to no artifact. *)
_validate_result(answer) == answer.own /\ answer.source_kept /\ answer.plain

(* An answer that is none of the protocol or says that the call has failed *)
(* is retryable by its status, or because its body says so.                *)
Rejected(answer) ==
  \/ answer.status \in _RETRYABLE_STATUS_CODES
  \/ answer.body = "failed" /\ answer.retryable

(* The limits on the number and the sizes of the artifacts. *)
ArtifactsFit(answer) ==
  answer.artifacts <= MaximumArtifacts /\ ~answer.artifact_oversized

(* The declared and the received length of the answer. *)
_read_response(answer) == ~answer.oversized

(* _read_response, _send and the checks of execute, in their order. *)
Answered ==
  /\ At("sent") /\ service.phase = "answered"
  /\ LET answer == service.answer IN
       IF ~_read_response(answer) THEN Fails("size", FALSE)
       ELSE IF answer.status # 200 \/ answer.body # "succeeded"
         THEN Fails(answer.fault, Rejected(answer))
       ELSE IF ~_validate_result(answer) THEN Fails("foreign_result", FALSE)
       ELSE IF ~ArtifactsFit(answer) THEN Fails("size", FALSE)
       ELSE \/ /\ run' = [run EXCEPT !.phase = "upload",
                                     !.due = answer.artifacts + 1]
               /\ UNCHANGED <<job, service>>
            \/ ControlPlaneFails

(* wait_for ends an execution that takes longer than the lease allows. *)
TimeOut ==
  /\ run.phase \in {"execute", "send", "sent"}
  /\ Fails("time_out", TRUE)

(* upload_artifact, one after the other; the first one is the result. *)
upload_artifact ==
  /\ At("upload")
  /\ \/ /\ run' = [run EXCEPT !.due = @ - 1,
                     !.phase = IF run.due = 1 THEN "succeeded" ELSE "upload"]
        /\ UNCHANGED <<job, service>>
     \/ ControlPlaneFails

(* The renewal of the lease has failed: the work is cancelled. *)
RenewalFails ==
  /\ run.phase \notin {"failed", "succeeded"}
  /\ Fails("lease", TRUE)

-----------------------------------------------------------------------------
(* The parser service. *)

(* The results that a model may return: at most one thing is wrong, and    *)
(* there may be too many artifacts.                                        *)
Flaws == {"none", "task", "source", "reference", "artifact", "length"}

Result(n, flaw) ==
  [status |-> 200, body |-> "succeeded", retryable |-> FALSE,
   own |-> flaw # "task", source_kept |-> flaw # "source",
   plain |-> flaw # "reference", artifacts |-> n,
   artifact_oversized |-> flaw = "artifact", oversized |-> flaw = "length",
   fault |-> "none"]

Results == {Result(n, flaw) : n \in 0 .. MaximumArtifacts + 1, flaw \in Flaws}

Success == Result(0, "none")

Failure(status, retryable, fault) ==
  [Success EXCEPT !.status = status, !.body = "failed",
                  !.retryable = retryable, !.fault = fault]

WithBody(answer, body) == [answer EXCEPT !.body = body]

Answers(answer) ==
  /\ service' = [service EXCEPT !.phase = "answered", !.answer = answer]
  /\ UNCHANGED <<job, run>>

(* _failure: answered with 503 when it is retryable, else with 200. *)
_failure(retryable, fault) ==
  Failure(IF retryable THEN 503 ELSE 200, retryable, fault)

(* _validate_file: none for a text; else the size within the limit, the    *)
(* size and the digest as the request names them.                          *)
_validate_file_by_size(file) ==
  IF job.kind = "text" THEN "none"
  ELSE IF SizeOf[file.of] > MaximumFile THEN "size"
  ELSE IF SizeOf[file.of] # SizeOf[service.named.of] THEN "integrity"
  ELSE "none"

_validate_file(file) ==
  IF job.kind = "text" THEN "none"
  ELSE IF SizeOf[file.of] > MaximumFile THEN "size"
  ELSE IF file # service.named THEN "integrity"
  ELSE "none"

Parse(file) ==
  /\ service' = [service EXCEPT !.phase = "parsing", !.parsed = file]
  /\ UNCHANGED <<job, run>>

(* The body, which has some room for metadata, and then the upload in it   *)
(* are read up to their limits.                                            *)
Room == 1

_read_request_body(file) ==
  job.kind = "text" \/ SizeOf[file.of] <= MaximumFile + Room

_read_upload(file) == job.kind = "text" \/ SizeOf[file.of] <= MaximumFile

(* __call__ of the ingress and parse of RemoteProtocolGateway, up to the   *)
(* call of the model.                                                      *)
GatewayAccepts ==
  /\ job.gateway /\ service.phase = "received"
  /\ IF ~job.authorized
       THEN Answers(Failure(401, FALSE, "credentials"))
       ELSE IF ~_read_request_body(service.file) \/ ~_read_upload(service.file)
         THEN Answers(_failure(FALSE, "size"))
       ELSE LET refusal == _validate_file(service.file) IN
              \/ Answers(_failure(FALSE, "integrity"))    \* no valid form
              \/ refusal # "none" /\ Answers(_failure(FALSE, refusal))
              \/ refusal = "none" /\ Parse(service.file)

(* The model at the gateway: it exceeds its time, raises or returns what   *)
(* is no answer, reports a failure, or returns a result.                   *)
GatewayAnswers ==
  /\ job.gateway /\ service.phase = "parsing"
  /\ \/ Answers(_failure(TRUE, "time_out"))
     \/ Answers(_failure(FALSE, "model"))
     \/ Answers(_failure(TRUE, "busy"))
     \/ \E result \in Results :
          IF result.own /\ result.source_kept
            THEN Answers(result)
            ELSE Answers(_failure(FALSE, "foreign_result"))

(* Another service keeps to the protocol: it checks the file, and says of  *)
(* a failure whether it is passing, by the status or in the body.          *)
ServiceAccepts ==
  /\ ~job.gateway /\ service.phase = "received"
  /\ \/ /\ ~job.authorized
        /\ \E body \in {"failed", "invalid"} :
             Answers(WithBody(Failure(401, FALSE, "credentials"), body))
     \/ /\ job.authorized /\ service.file # service.named
        /\ Answers(Failure(200, FALSE, "integrity"))
     \/ /\ job.authorized /\ service.file = service.named
        /\ Parse(service.file)

ServiceAnswers ==
  /\ ~job.gateway /\ service.phase = "parsing"
  /\ \/ \E result \in Results : Answers(result)
     \/ \E status \in {408, 425, 429, 500, 502, 503, 504},
           body \in {"succeeded", "failed", "invalid"} :
          Answers(WithBody(Failure(status, FALSE, "busy"), body))
     \/ \E status \in OtherStatuses : Answers(Failure(status, TRUE, "busy"))
     \/ \E status \in OtherStatuses, body \in {"failed", "invalid"} :
          Answers(WithBody(Failure(status, FALSE, "model"), body))

-----------------------------------------------------------------------------
ExecInit ==
  /\ job \in Jobs
  /\ run = [phase |-> "resolve", file |-> NoFile, named |-> NoFile,
            origin |-> "text", redirects |-> 0, due |-> 0,
            fault |-> "none", retryable |-> FALSE]
  /\ service = [phase |-> "idle", file |-> NoFile, named |-> NoFile,
                parsed |-> NoFile, answer |-> Success]

ExecNext ==
  \/ ResolveText \/ download_source \/ fetch_url_source
  \/ download_object_storage_source \/ prepare
  \/ _request \/ Receive \/ SendFails \/ Answered \/ TimeOut
  \/ upload_artifact \/ RenewalFails
  \/ GatewayAccepts \/ GatewayAnswers \/ ServiceAccepts \/ ServiceAnswers

ExecSpec == ExecInit /\ [][ExecNext]_execVars

-----------------------------------------------------------------------------
(* A stage that succeeds has the result of its own source: what the model  *)
(* parsed is the content that was fetched, converted if it had to be, and  *)
(* for an uploaded file the one that the lease names, whatever happened on *)
(* the way to the worker and to the service; the result is for this task,  *)
(* refers to no artifact the control plane has not assigned, and what was  *)
(* uploaded with it keeps to the limits.                                   *)
ResultIsOfTheSource ==
  run.phase = "succeeded" =>
    /\ service.parsed = [of |-> run.origin, converted |-> job.legacy]
    /\ job.kind = "uploaded" => run.origin = "right"
    /\ job.kind \in {"url", "object"} =>
         run.origin \notin TooLarge \cup {"disguised", "garbled"}
    /\ service.answer.own /\ service.answer.source_kept /\ service.answer.plain
    /\ service.answer.artifacts <= MaximumArtifacts
    /\ ~service.answer.artifact_oversized

(* A stage is tried again after a fault that may pass, such as an overload *)
(* or a timeout of the service behind the gateway, and is not after one    *)
(* that will not, such as a wrong content or a refused credential          *)
(* (docs/remote-backends.md, docs/error-codes.md).                         *)
FaultsAreTold ==
  run.phase = "failed" =>
    /\ run.fault \in Passing => run.retryable
    /\ run.fault \in Lasting => ~run.retryable
=============================================================================
