--------------------------- MODULE ServicesProofs ---------------------------
(***************************************************************************)
(* Theorems about four components that share no state: StageExecution,     *)
(* one execution of a stage by a worker with its parser service;           *)
(* BackendLifecycle, the models that a worker keeps in memory; ApiKeys,    *)
(* the keys that requests are let in with; and TaskRouting, the creation   *)
(* and routing of tasks.                                                   *)
(***************************************************************************)
EXTENDS StageExecution, BackendLifecycle, ApiKeys, TaskRouting, SequenceTheorems,
        FiniteSetTheorems, WellFoundedInduction, TLAPS

-----------------------------------------------------------------------------
(* The execution of a stage. *)

Faults ==
  Passing \cup Lasting
    \cup {"none", "control_plane", "refused", "object_store", "conversion", "lease"}

Bodies == {"succeeded", "failed", "invalid"}

Refusals == {"failed", "invalid"}

FileStates == [of : Contents \cup {"text"}, converted : BOOLEAN]

Runs ==
  [phase : {"resolve", "prepare", "execute", "send", "sent", "upload",
            "succeeded", "failed"},
   file : FileStates, named : FileStates, origin : Contents \cup {"text"},
   redirects : Nat, due : Int, fault : Faults, retryable : BOOLEAN]

AnswerStates ==
  [status : Nat, body : {"succeeded", "failed", "invalid"},
   retryable : BOOLEAN, own : BOOLEAN,
   source_kept : BOOLEAN, plain : BOOLEAN, artifacts : Int,
   artifact_oversized : BOOLEAN, oversized : BOOLEAN, fault : Faults]

Services ==
  [phase : {"idle", "received", "parsing", "answered"}, file : FileStates,
   named : FileStates, parsed : FileStates, answer : AnswerStates]

ExecTypes == job \in Jobs /\ run \in Runs /\ service \in Services

(* What the execution is about: the content that was fetched, converted    *)
(* when it is a legacy document.                                           *)
Prepared == [of |-> run.origin, converted |-> job.legacy]

OriginOK ==
  /\ job.kind = "text" => run.origin = "text"
  /\ job.kind = "uploaded" => run.origin = "right"
  /\ job.kind \in {"url", "object"} =>
       run.origin \notin TooLarge \cup {"disguised", "garbled"}

(* What the worker knows, phase by phase.                                  *)
RunSound ==
  /\ run.phase = "resolve" => run.file = NoFile /\ run.origin = "text"
  /\ run.phase = "prepare" => run.file = File(run.origin) /\ OriginOK
  /\ run.phase \in {"execute", "send", "sent", "upload", "succeeded"} =>
       run.file = Prepared /\ OriginOK
  /\ run.phase \in {"send", "sent"} => run.named = Prepared

Succeeding(answer) == answer.status = 200 /\ answer.body = "succeeded"

(* What an answer says of its fault is what the fault is.                  *)
AnswerTold(answer) ==
  /\ answer.fault \in Passing => Rejected(answer)
  /\ answer.fault \in Lasting => ~Rejected(answer)

(* What the service knows: it was called for this file only, and a model   *)
(* that has returned a result has parsed it.                               *)
ServiceSound ==
  /\ service.phase # "idle" =>
       /\ run.phase \in {"sent", "upload", "succeeded", "failed"}
       /\ service.named = Prepared
       /\ job.kind = "text" => service.file = Prepared
  /\ service.phase = "parsing" => service.parsed = Prepared
  /\ service.phase = "answered" =>
       /\ AnswerTold(service.answer)
       /\ Succeeding(service.answer) => service.parsed = Prepared
  /\ run.phase \in {"upload", "succeeded"} =>
       /\ service.phase = "answered" /\ Succeeding(service.answer)
       /\ _validate_result(service.answer) /\ ArtifactsFit(service.answer)

ExecInv == ExecTypes /\ RunSound /\ ServiceSound /\ FaultsAreTold

LEMMA ContentsKnown ==
  Contents = {"right", "altered", "disguised", "garbled", "short", "large", "oversized"}
BY DEF Contents, SizeOf

LEMMA ResultType ==
  ASSUME NEW n \in Int, NEW flaw
  PROVE  /\ Result(n, flaw) \in AnswerStates /\ Result(n, flaw).status = 200
         /\ Result(n, flaw).body = "succeeded" /\ Result(n, flaw).fault = "none"
<1> DEFINE a == flaw # "task"
           b == flaw # "source"
           c == flaw # "reference"
           d == flaw = "artifact"
           e == flaw = "length"
<1>1. a \in BOOLEAN /\ b \in BOOLEAN /\ c \in BOOLEAN /\ d \in BOOLEAN /\ e \in BOOLEAN
  OBVIOUS
<1>2. Result(n, flaw) = [status |-> 200, body |-> "succeeded", retryable |-> FALSE,
        own |-> a, source_kept |-> b, plain |-> c, artifacts |-> n,
        artifact_oversized |-> d, oversized |-> e, fault |-> "none"]
  BY Zenon DEF Result
<1> HIDE DEF a, b, c, d, e
<1> QED BY <1>1, <1>2 DEF AnswerStates, Faults

LEMMA SuccessType == Success \in AnswerStates
BY ResultType DEF Success

LEMMA NoFileType == NoFile \in FileStates
BY DEF NoFile, File, FileStates

LEMMA FileWritten ==
  ASSUME NEW content, NEW a, NEW b
  PROVE  [[of |-> content, converted |-> a] EXCEPT !.converted = b]
           = [of |-> content, converted |-> b]
OBVIOUS

LEMMA ConvertedFile ==
  ASSUME NEW content
  PROVE  [File(content) EXCEPT !.converted = TRUE] = [of |-> content, converted |-> TRUE]
BY FileWritten, Zenon DEF File

LEMMA ExecInitInv == ExecInit => ExecInv
<1> SUFFICES ASSUME ExecInit PROVE ExecInv
  OBVIOUS
<1>1. ExecTypes
  BY NoFileType, SuccessType DEF ExecInit, ExecTypes, Runs, Services, Faults
<1>2. RunSound /\ ServiceSound /\ FaultsAreTold
  BY DEF ExecInit, RunSound, ServiceSound, FaultsAreTold
<1> QED BY <1>1, <1>2 DEF ExecInv

(* The end by an exception tells no lie, and leaves what is known as it is.*)
LEMMA FailsStep ==
  ASSUME ExecInv, NEW fault \in Faults, NEW retryable \in BOOLEAN,
         Fails(fault, retryable),
         fault \in Passing => retryable, fault \in Lasting => ~retryable
  PROVE  ExecInv'
<1>1. run \in Runs
  BY DEF ExecInv, ExecTypes
<1>2. run' \in Runs
  BY <1>1 DEF Fails, Runs
<1>3. /\ run'.phase = "failed" /\ run'.fault = fault /\ run'.retryable = retryable
      /\ run'.origin = run.origin /\ job' = job /\ service' = service
  BY <1>1 DEF Fails, Runs
<1>4. ExecTypes'
  BY <1>2, <1>3 DEF ExecInv, ExecTypes
<1>5. RunSound' /\ FaultsAreTold'
  BY <1>3 DEF RunSound, FaultsAreTold
<1>6. ServiceSound'
  <2>1. Prepared' = Prepared
    BY <1>3 DEF Prepared
  <2> QED BY <1>3, <2>1 DEF ExecInv, ServiceSound, Succeeding, AnswerTold, Rejected
<1> QED BY <1>4, <1>5, <1>6 DEF ExecInv

LEMMA ControlPlaneStep ==
  ASSUME ExecInv, ControlPlaneFails
  PROVE  ExecInv'
BY FailsStep DEF ControlPlaneFails, Passing, Lasting, Faults

(* Before the file has been sent, the service is idle: what the worker     *)
(* learns is all there is.                                                 *)
LEMMA FetchedStep ==
  ASSUME ExecInv, run.phase \in {"resolve", "prepare", "execute"},
         run' \in Runs, job' = job, service' = service, RunSound',
         run'.phase \notin {"upload", "succeeded", "failed"}
  PROVE  ExecInv'
<1>1. service.phase = "idle"
  BY DEF ExecInv, ServiceSound, ExecTypes, Services
<1>2. ServiceSound' /\ FaultsAreTold' /\ ExecTypes'
  BY <1>1 DEF ExecInv, ExecTypes, ServiceSound, FaultsAreTold
<1> QED BY <1>2 DEF ExecInv

LEMMA TakesStep ==
  ASSUME ExecInv, run.phase = "resolve", NEW content \in Contents, Takes(content),
         job.kind # "text", job.kind = "uploaded" => content = "right",
         job.kind \in {"url", "object"} =>
           content \notin TooLarge \cup {"disguised", "garbled"}
  PROVE  ExecInv'
<1>1. run \in Runs /\ File(content) \in FileStates
  BY DEF ExecInv, ExecTypes, File, FileStates
<1>2. /\ run' \in Runs /\ job' = job /\ service' = service
      /\ run'.phase = "prepare" /\ run'.file = File(content) /\ run'.origin = content
  BY <1>1 DEF Takes, Runs
<1>3. RunSound'
  BY <1>2 DEF RunSound, OriginOK
<1> QED BY <1>2, <1>3, FetchedStep

LEMMA InspectedStep ==
  ASSUME ExecInv, run.phase = "resolve", NEW content \in Contents, Inspected(content),
         job.kind # "text", job.kind = "uploaded" => content = "right",
         job.kind \in {"url", "object"} => content \notin TooLarge
  PROVE  ExecInv'
<1>1. CASE inspect_content(content) /\ Takes(content)
  <2>1. content \notin {"disguised", "garbled"}
    BY <1>1 DEF inspect_content, _binary_inspection, _text_inspection
  <2> QED BY <1>1, <2>1, TakesStep
<1>2. CASE Fails("content", FALSE)
  BY <1>2, FailsStep DEF Passing, Lasting, Faults
<1> QED BY <1>1, <1>2 DEF Inspected

LEMMA ResolveSteps ==
  ASSUME ExecInv, \/ ResolveText \/ download_source \/ fetch_url_source
                  \/ download_object_storage_source
  PROVE  ExecInv'
<1>0. run \in Runs /\ job \in Jobs
  BY DEF ExecInv, ExecTypes
<1>1. CASE ResolveText
  <2>1. run.phase = "resolve" /\ job.kind = "text"
    BY <1>1 DEF ResolveText, At
  <2>2. /\ run' \in Runs /\ job' = job /\ service' = service
        /\ run'.phase = "execute" /\ run'.file = run.file /\ run'.origin = run.origin
    BY <1>0, <1>1 DEF ResolveText, Goes, Runs
  <2>3. ~job.legacy
    BY <1>0, <2>1, JobsAssumption
  <2>4. RunSound'
    <3>1. run.file = File("text") /\ run.origin = "text"
      BY <2>1 DEF ExecInv, RunSound, NoFile
    <3>2. job.legacy = FALSE
      BY <1>0, <2>3, JobsAssumption
    <3>3. run.file = Prepared
      BY <3>1, <3>2 DEF File, Prepared
    <3> QED BY <2>1, <2>2, <3>1, <3>3 DEF RunSound, OriginOK, Prepared
  <2> QED BY <2>1, <2>2, <2>4, FetchedStep
<1>2. CASE download_source
  <2>0. run.phase = "resolve" /\ job.kind = "uploaded"
    BY <1>2 DEF download_source, At
  <2>1. CASE ControlPlaneFails
    BY <2>1, ControlPlaneStep
  <2>2. ASSUME NEW declared \in Contents, NEW content \in Contents,
               {declared, content} = {"right"}, Inspected(content)
        PROVE  ExecInv'
    <3>1. content = "right"
      BY <2>2
    <3> QED BY <2>0, <2>2, <3>1, InspectedStep
  <2>3. CASE Fails("integrity", FALSE)
    BY <2>3, FailsStep DEF Passing, Lasting, Faults
  <2> QED BY <1>2, <2>1, <2>2, <2>3 DEF download_source
<1>3. CASE fetch_url_source
  <2>0. run.phase = "resolve" /\ job.kind = "url"
    BY <1>3 DEF fetch_url_source, At
  <2>1. CASE validate_source_url \/ Fails("unavailable", TRUE) \/ Fails("refused", FALSE)
             \/ Fails("network", TRUE) \/ Fails("redirects", FALSE) \/ Fails("size", FALSE)
    BY <2>1, FailsStep DEF validate_source_url, Passing, Lasting, Faults
  <2>2. CASE /\ run.redirects < MaximumRedirects
             /\ run' = [run EXCEPT !.redirects = @ + 1]
             /\ UNCHANGED <<job, service>>
    <3>1. /\ run' \in Runs /\ run'.phase = "resolve"
          /\ run'.file = run.file /\ run'.origin = run.origin
      BY <1>0, <2>0, <2>2 DEF Runs
    <3>2. RunSound'
      BY <2>0, <3>1 DEF RunSound, ExecInv
    <3> QED BY <2>0, <2>2, <3>1, <3>2, FetchedStep
  <2>3. ASSUME NEW content \in Contents, content \notin TooLarge, Inspected(content)
        PROVE  ExecInv'
    BY <2>0, <2>3, InspectedStep
  <2> QED BY <1>3, <2>1, <2>2, <2>3 DEF fetch_url_source, Redirect
<1>4. CASE download_object_storage_source
  <2>0. run.phase = "resolve" /\ job.kind = "object"
    BY <1>4 DEF download_object_storage_source, At
  <2>1. CASE _location \/ Fails("object_store", TRUE) \/ Fails("size", FALSE)
             \/ Fails("integrity", FALSE)
    BY <2>1, FailsStep DEF _location, Passing, Lasting, Faults
  <2>2. ASSUME NEW declared \in Contents, NEW content \in Contents,
               {declared, content} \cap TooLarge = {}, Inspected(content)
        PROVE  ExecInv'
    BY <2>0, <2>2, InspectedStep
  <2> QED BY <1>4, <2>1, <2>2 DEF download_object_storage_source
<1> QED BY <1>1, <1>2, <1>3, <1>4

LEMMA PrepareSteps ==
  ASSUME ExecInv, prepare \/ _request
  PROVE  ExecInv'
<1>0. run \in Runs /\ job \in Jobs /\ job.legacy \in BOOLEAN
  BY JobsAssumption DEF ExecInv, ExecTypes
<1>1. CASE prepare
  <2>0. run.phase = "prepare" /\ run.file = File(run.origin) /\ OriginOK
    BY <1>1 DEF prepare, At, ExecInv, RunSound
  <2>1. CASE job.legacy /\ convert_legacy_office /\ ~Fails("conversion", TRUE)
    <3>1. /\ run' = [run EXCEPT !.phase = "execute", !.file.converted = TRUE]
          /\ job' = job /\ service' = service
      BY <2>1 DEF convert_legacy_office
    <3>2. run.file \in FileStates
      BY <1>0 DEF Runs
    <3>3. /\ run' \in Runs /\ run'.phase = "execute" /\ run'.origin = run.origin
          /\ run'.file = [run.file EXCEPT !.converted = TRUE]
      BY <1>0, <3>1, <3>2 DEF Runs, FileStates
    <3>4. run'.file = Prepared
      <4>1. job.legacy = TRUE
        BY <1>0, <2>1
      <4>2. Prepared = [of |-> run.origin, converted |-> TRUE]
        BY <4>1 DEF Prepared
      <4> QED BY <2>0, <3>3, <4>2, ConvertedFile
    <3>5. RunSound'
      BY <2>0, <3>1, <3>3, <3>4 DEF RunSound, OriginOK, Prepared
    <3> QED BY <2>0, <3>1, <3>3, <3>5, FetchedStep
  <2>2. CASE Fails("conversion", TRUE)
    BY <2>2, FailsStep DEF Passing, Lasting, Faults
  <2>3. CASE ~job.legacy /\ Goes("execute")
    <3>1. /\ run' \in Runs /\ run'.phase = "execute" /\ run'.origin = run.origin
          /\ run'.file = run.file /\ job' = job /\ service' = service
      BY <1>0, <2>3 DEF Goes, Runs
    <3>2. run.file = Prepared
      BY <1>0, <2>0, <2>3 DEF File, Prepared
    <3>3. RunSound'
      BY <2>0, <3>1, <3>2 DEF RunSound, OriginOK, Prepared
    <3> QED BY <2>0, <3>1, <3>3, FetchedStep
  <2> QED BY <1>1, <2>1, <2>2, <2>3 DEF prepare
<1>2. CASE _request
  <2>0. run.phase = "execute" /\ run.file = Prepared /\ OriginOK
    BY <1>2 DEF _request, At, ExecInv, RunSound
  <2>1. CASE run' = [run EXCEPT !.phase = "send", !.named = run.file]
             /\ UNCHANGED <<job, service>>
    <3>1. /\ run' \in Runs /\ run'.phase = "send" /\ run'.origin = run.origin
          /\ run'.file = run.file /\ run'.named = run.file
      BY <1>0, <2>1 DEF Runs
    <3>2. RunSound'
      BY <2>0, <2>1, <3>1 DEF RunSound, OriginOK, Prepared
    <3> QED BY <2>0, <2>1, <3>1, <3>2, FetchedStep
  <2>2. CASE ControlPlaneFails
    BY <2>2, ControlPlaneStep
  <2> QED BY <1>2, <2>1, <2>2 DEF _request
<1> QED BY <1>1, <1>2

LEMMA KnownResult ==
  ASSUME NEW result \in Results
  PROVE  /\ result \in AnswerStates /\ Succeeding(result) /\ result.fault = "none"
<1>1. PICK n \in 0 .. MaximumArtifacts + 1, flaw \in Flaws : result = Result(n, flaw)
  BY DEF Results
<1>2. n \in Int
  BY ExecNumbersAssumption
<1> QED BY <1>1, <1>2, ResultType DEF Succeeding

(* The service answers, while the worker waits or has given up.            *)
LEMMA AnswersStep ==
  ASSUME ExecInv, service.phase \in {"received", "parsing"},
         NEW answer \in AnswerStates, Answers(answer), AnswerTold(answer),
         service.phase = "parsing" \/ ~Succeeding(answer)
  PROVE  ExecInv'
<1>1. service \in Services
  BY DEF ExecInv, ExecTypes
<1>2. /\ service' \in Services /\ job' = job /\ run' = run
      /\ service'.phase = "answered" /\ service'.answer = answer
      /\ service'.named = service.named /\ service'.file = service.file
      /\ service'.parsed = service.parsed
  BY <1>1 DEF Answers, Services
<1>3. Prepared' = Prepared /\ AnswerTold(answer)' = AnswerTold(answer)
      /\ Succeeding(answer)' = Succeeding(answer)
  BY <1>2 DEF Prepared, AnswerTold, Succeeding, Rejected
<1>4. ExecTypes' /\ RunSound' /\ FaultsAreTold'
  BY <1>2, <1>3 DEF ExecInv, ExecTypes, RunSound, FaultsAreTold, OriginOK
<1>5. run.phase \notin {"upload", "succeeded"}
  BY DEF ExecInv, ServiceSound
<1>6. ServiceSound'
  BY <1>2, <1>5 DEF ExecInv, ServiceSound, Prepared, AnswerTold, Succeeding, Rejected
<1> QED BY <1>4, <1>6 DEF ExecInv

LEMMA ParseStep ==
  ASSUME ExecInv, service.phase = "received", Parse(service.file),
         service.file = service.named
  PROVE  ExecInv'
<1>1. service \in Services
  BY DEF ExecInv, ExecTypes
<1>2. /\ service' \in Services /\ job' = job /\ run' = run
      /\ service'.phase = "parsing"
      /\ service'.named = service.named /\ service'.file = service.file
      /\ service'.parsed = service.named
  BY <1>1 DEF Parse, Services
<1>4. ExecTypes' /\ RunSound' /\ FaultsAreTold'
  BY <1>2 DEF ExecInv, ExecTypes, RunSound, FaultsAreTold, OriginOK, Prepared
<1>5. run.phase \notin {"upload", "succeeded"}
  BY DEF ExecInv, ServiceSound
<1>6. ServiceSound'
  BY <1>2, <1>5 DEF ExecInv, ServiceSound, Prepared
<1> QED BY <1>4, <1>6 DEF ExecInv

(* A failure that is answered with the status or the mark that belongs to  *)
(* it.                                                                     *)
LEMMA FailureAnswered ==
  ASSUME ExecInv, service.phase \in {"received", "parsing"},
         NEW status \in Nat, NEW retryable \in BOOLEAN, NEW fault \in Faults,
         NEW body \in {"failed", "invalid", "succeeded"},
         \/ Answers(Failure(status, retryable, fault)) /\ body = "failed"
         \/ Answers(WithBody(Failure(status, retryable, fault), body)),
         body = "succeeded" => status # 200,
         fault \in Passing =>
           status \in _RETRYABLE_STATUS_CODES \/ (body = "failed" /\ retryable),
         fault \in Lasting => status \notin _RETRYABLE_STATUS_CODES /\ ~retryable
  PROVE  ExecInv'
<1> DEFINE f == Failure(status, retryable, fault)
           g == WithBody(f, body)
<1>0. /\ f \in AnswerStates /\ f.status = status /\ f.body = "failed"
      /\ f.retryable = retryable /\ f.fault = fault
  BY SuccessType DEF Failure, AnswerStates
<1>2. (Answers(f) /\ body = "failed") \/ Answers(g)
  OBVIOUS
<1> HIDE DEF f
<1>1. /\ g \in AnswerStates /\ g.status = status /\ g.body = body
      /\ g.retryable = retryable /\ g.fault = fault
  BY <1>0 DEF WithBody, AnswerStates
<1> HIDE DEF g
<1>3. CASE Answers(f) /\ body = "failed"
  <2>1. AnswerTold(f) /\ ~Succeeding(f)
    BY <1>0, <1>3 DEF AnswerTold, Rejected, Succeeding
  <2> QED BY <1>0, <1>3, <2>1, AnswersStep
<1>4. CASE Answers(g)
  <2>1. AnswerTold(g) /\ ~Succeeding(g)
    BY <1>1 DEF AnswerTold, Rejected, Succeeding
  <2> QED BY <1>1, <1>4, <2>1, AnswersStep
<1> QED BY <1>2, <1>3, <1>4

LEMMA ResultAnswered ==
  ASSUME ExecInv, service.phase = "parsing", NEW result \in Results, Answers(result)
  PROVE  ExecInv'
<1>1. AnswerTold(result)
  BY KnownResult DEF AnswerTold, Passing, Lasting
<1> QED BY <1>1, KnownResult, AnswersStep

(* The two forms of it, told by the mark.                                  *)
LEMMA LastingAnswered ==
  ASSUME ExecInv, service.phase \in {"received", "parsing"},
         NEW status \in Nat, status \notin _RETRYABLE_STATUS_CODES, NEW fault \in Lasting,
         NEW body \in Refusals,
         \/ Answers(Failure(status, FALSE, fault)) /\ body = "failed"
         \/ Answers(WithBody(Failure(status, FALSE, fault), body))
  PROVE  ExecInv'
<1>1. PICK r \in BOOLEAN : r = FALSE
  OBVIOUS
<1>2. \/ Answers(Failure(status, r, fault)) /\ body = "failed"
      \/ Answers(WithBody(Failure(status, r, fault), body))
  BY <1>1, Zenon
<1>3. fault \in Faults /\ fault \notin Passing
  BY DEF Faults, Passing, Lasting
<1> QED BY <1>1, <1>2, <1>3, FailureAnswered DEF Refusals

LEMMA PassingAnswered ==
  ASSUME ExecInv, service.phase \in {"received", "parsing"},
         NEW status \in Nat, NEW fault \in Passing,
         Answers(Failure(status, TRUE, fault))
  PROVE  ExecInv'
<1>1. PICK r \in BOOLEAN : r = TRUE
  OBVIOUS
<1>2. Answers(Failure(status, r, fault))
  BY <1>1, Zenon
<1>3. fault \in Faults /\ fault \notin Lasting
  BY DEF Faults, Passing, Lasting
<1> QED BY <1>1, <1>2, <1>3, FailureAnswered

(* And the one that is told by the status.                                 *)
LEMMA OverloadAnswered ==
  ASSUME ExecInv, service.phase \in {"received", "parsing"},
         NEW status \in _RETRYABLE_STATUS_CODES, NEW fault \in Passing,
         NEW body \in Bodies,
         Answers(WithBody(Failure(status, FALSE, fault), body))
  PROVE  ExecInv'
<1>1. PICK r \in BOOLEAN : r = FALSE
  OBVIOUS
<1>2. Answers(WithBody(Failure(status, r, fault), body))
  BY <1>1, Zenon
<1>3. fault \in Faults /\ fault \notin Lasting
  BY DEF Faults, Passing, Lasting
<1>4. status \in Nat /\ status # 200
  BY DEF _RETRYABLE_STATUS_CODES
<1> QED BY <1>1, <1>2, <1>3, <1>4, FailureAnswered DEF Bodies

LEMMA ServiceSteps ==
  ASSUME ExecInv, GatewayAccepts \/ GatewayAnswers \/ ServiceAccepts \/ ServiceAnswers
  PROVE  ExecInv'
<1>0. /\ "failed" \in Refusals /\ 200 \in Nat /\ 503 \in Nat /\ 401 \in Nat
      /\ 200 \notin _RETRYABLE_STATUS_CODES /\ 401 \notin _RETRYABLE_STATUS_CODES
  BY DEF Refusals, _RETRYABLE_STATUS_CODES
<1>1. ASSUME service.phase \in {"received", "parsing"}, NEW fault \in Lasting,
             Answers(_failure(FALSE, fault))
      PROVE  ExecInv'
  <2>1. Answers(Failure(200, FALSE, fault))
    BY <1>1 DEF _failure
  <2> QED BY <1>0, <1>1, <2>1, LastingAnswered, Zenon
<1>2. ASSUME service.phase \in {"received", "parsing"}, NEW fault \in Passing,
             Answers(_failure(TRUE, fault))
      PROVE  ExecInv'
  <2>1. Answers(Failure(503, TRUE, fault))
    BY <1>2 DEF _failure
  <2> QED BY <1>0, <1>2, <2>1, PassingAnswered, Zenon
<1>3. ASSUME service.phase = "received", NEW body \in Refusals,
             Answers(WithBody(Failure(401, FALSE, "credentials"), body))
      PROVE  ExecInv'
  <2>1. "credentials" \in Lasting
    BY DEF Lasting
  <2> QED BY <1>0, <1>3, <2>1, LastingAnswered, ZenonT(40)
<1>4. CASE GatewayAccepts
  <2>0. service.phase = "received"
    BY <1>4 DEF GatewayAccepts
  <2>1. CASE Answers(Failure(401, FALSE, "credentials"))
    <3>1. "credentials" \in Lasting
      BY DEF Lasting
    <3> QED BY <1>0, <2>0, <2>1, <3>1, LastingAnswered, Zenon
  <2>2. CASE Answers(_failure(FALSE, "size")) \/ Answers(_failure(FALSE, "integrity"))
    BY <1>1, <2>0, <2>2 DEF Lasting
  <2>3. CASE _validate_file(service.file) = "none" /\ Parse(service.file)
    <3>1. service.file = service.named
      BY <2>0, <2>3 DEF _validate_file, ExecInv, ServiceSound
    <3> QED BY <2>0, <2>3, <3>1, ParseStep
  <2>4. _validate_file(service.file) \in {"none", "size", "integrity"}
    BY DEF _validate_file
  <2> QED BY <1>4, <2>1, <2>2, <2>3, <2>4 DEF GatewayAccepts
<1>5. CASE GatewayAnswers
  <2>0. service.phase = "parsing"
    BY <1>5 DEF GatewayAnswers
  <2>1. CASE Answers(_failure(TRUE, "time_out")) \/ Answers(_failure(TRUE, "busy"))
    BY <1>2, <2>0, <2>1 DEF Passing
  <2>2. CASE \/ Answers(_failure(FALSE, "model"))
             \/ Answers(_failure(FALSE, "foreign_result"))
    BY <1>1, <2>0, <2>2 DEF Lasting
  <2> QED BY <1>5, <2>0, <2>1, <2>2, ResultAnswered DEF GatewayAnswers
<1>6. CASE ServiceAccepts
  <2>0. service.phase = "received"
    BY <1>6 DEF ServiceAccepts
  <2>1. CASE Answers(Failure(200, FALSE, "integrity"))
    <3>1. "integrity" \in Lasting
      BY DEF Lasting
    <3> QED BY <1>0, <2>0, <2>1, <3>1, LastingAnswered, Zenon
  <2> QED BY <1>3, <1>6, <2>0, <2>1, ParseStep DEF ServiceAccepts, Refusals
<1>7. CASE ServiceAnswers
  <2>0. service.phase = "parsing"
    BY <1>7 DEF ServiceAnswers
  <2>1. "busy" \in Passing /\ "model" \in Lasting
    BY DEF Passing, Lasting
  <2>2. ASSUME NEW status \in _RETRYABLE_STATUS_CODES,
               NEW body \in Bodies,
               Answers(WithBody(Failure(status, FALSE, "busy"), body))
        PROVE  ExecInv'
    BY <2>0, <2>1, <2>2, OverloadAnswered, Zenon
  <2>3. ASSUME NEW status \in OtherStatuses, Answers(Failure(status, TRUE, "busy"))
        PROVE  ExecInv'
    <3>1. status \in Nat
      BY DEF OtherStatuses
    <3> QED BY <2>0, <2>1, <2>3, <3>1, PassingAnswered, Zenon
  <2>4. ASSUME NEW status \in OtherStatuses, NEW body \in Refusals,
               Answers(WithBody(Failure(status, FALSE, "model"), body))
        PROVE  ExecInv'
    <3>1. status \in Nat /\ status \notin _RETRYABLE_STATUS_CODES
      BY DEF OtherStatuses, _RETRYABLE_STATUS_CODES
    <3> QED BY <2>0, <2>1, <2>4, <3>1, LastingAnswered, Zenon
  <2>5. \/ \E result \in Results : Answers(result)
        \/ \E status \in _RETRYABLE_STATUS_CODES, body \in Bodies :
             Answers(WithBody(Failure(status, FALSE, "busy"), body))
        \/ \E status \in OtherStatuses : Answers(Failure(status, TRUE, "busy"))
        \/ \E status \in OtherStatuses, body \in Refusals :
             Answers(WithBody(Failure(status, FALSE, "model"), body))
    BY <1>7, Zenon DEF ServiceAnswers, _RETRYABLE_STATUS_CODES, Bodies, Refusals
  <2> QED BY <2>0, <2>2, <2>3, <2>4, <2>5, ResultAnswered, Zenon
<1> QED BY <1>4, <1>5, <1>6, <1>7

LEMMA SendSteps ==
  ASSUME ExecInv, Receive \/ SendFails \/ Answered \/ TimeOut \/ upload_artifact
                  \/ RenewalFails
  PROVE  ExecInv'
<1>0. run \in Runs /\ service \in Services /\ service.answer \in AnswerStates
  BY DEF ExecInv, ExecTypes, Services
<1>1. CASE Receive
  <2>0. run.phase = "send" /\ run.file = Prepared /\ OriginOK /\ run.named = Prepared
    BY <1>1 DEF Receive, At, ExecInv, RunSound
  <2>1. PICK content \in IF job.kind = "text" THEN {"text"} ELSE Contents :
          service' = [service EXCEPT !.phase = "received",
                        !.file = [run.file EXCEPT !.of = content], !.named = run.named]
    BY <1>1 DEF Receive
  <2> DEFINE sent == [run.file EXCEPT !.of = content]
  <2>2. sent \in FileStates /\ run.named \in FileStates
    BY <1>0 DEF Runs, FileStates
  <2>3. job.kind = "text" => sent = Prepared
    BY <2>0 DEF OriginOK, Prepared
  <2>4. service' = [service EXCEPT !.phase = "received", !.file = sent, !.named = run.named]
    BY <2>1
  <2> HIDE DEF sent
  <2>5. /\ service' \in Services /\ service'.phase = "received"
        /\ service'.file = sent /\ service'.named = Prepared
    BY <1>0, <2>0, <2>2, <2>4 DEF Services
  <2>6. /\ run' \in Runs /\ run'.phase = "sent" /\ run'.file = run.file
        /\ run'.named = run.named /\ run'.origin = run.origin /\ job' = job
    BY <1>0, <1>1 DEF Receive, Runs
  <2>7. ExecTypes' /\ FaultsAreTold'
    BY <2>5, <2>6 DEF ExecInv, ExecTypes, FaultsAreTold
  <2>8. RunSound' /\ ServiceSound'
    BY <2>0, <2>3, <2>5, <2>6 DEF RunSound, ServiceSound, OriginOK, Prepared
  <2> QED BY <2>7, <2>8 DEF ExecInv
<1>2. CASE SendFails \/ TimeOut \/ RenewalFails
  BY <1>2, FailsStep DEF SendFails, TimeOut, RenewalFails, Passing, Lasting, Faults
<1>3. CASE Answered
  <2> DEFINE answer == service.answer
  <2>0. run.phase = "sent" /\ service.phase = "answered"
    BY <1>3 DEF Answered, At
  <2>1. CASE Fails("size", FALSE) \/ Fails("foreign_result", FALSE)
    BY <2>1, FailsStep DEF Passing, Lasting, Faults
  <2>2. CASE Fails(answer.fault, Rejected(answer))
    <3> DEFINE r == Rejected(answer)
    <3>1. r \in BOOLEAN
      BY <1>0 DEF Rejected, AnswerStates
    <3>2. answer.fault \in Faults
      BY <1>0 DEF AnswerStates
    <3>3. (answer.fault \in Passing => r) /\ (answer.fault \in Lasting => ~r)
      BY <2>0 DEF ExecInv, ServiceSound, AnswerTold
    <3>4. Fails(answer.fault, r)
      BY <2>2
    <3> HIDE DEF r, answer
    <3> QED BY <3>1, <3>2, <3>3, <3>4, FailsStep
  <2>3. CASE ControlPlaneFails
    BY <2>3, ControlPlaneStep
  <2>4. ASSUME Succeeding(answer), _validate_result(answer), ArtifactsFit(answer),
               run' = [run EXCEPT !.phase = "upload", !.due = answer.artifacts + 1],
               job' = job, service' = service
        PROVE  ExecInv'
    <3>1. answer.artifacts + 1 \in Int
      BY <1>0 DEF AnswerStates
    <3>2. /\ run' \in Runs /\ run'.phase = "upload" /\ run'.file = run.file
          /\ run'.origin = run.origin
      BY <1>0, <2>4, <3>1 DEF Runs
    <3>3. ExecTypes' /\ FaultsAreTold' /\ RunSound'
      BY <2>0, <2>4, <3>2 DEF ExecInv, ExecTypes, FaultsAreTold, RunSound, OriginOK, Prepared
    <3>4. ServiceSound'
      BY <2>0, <2>4, <3>2 DEF ExecInv, ServiceSound, Prepared, AnswerTold, Succeeding,
           Rejected, _validate_result, ArtifactsFit
    <3> QED BY <3>3, <3>4 DEF ExecInv
  <2> QED BY <1>3, <2>1, <2>2, <2>3, <2>4 DEF Answered, Succeeding
<1>4. CASE upload_artifact
  <2>0. run.phase = "upload"
    BY <1>4 DEF upload_artifact, At
  <2>1. CASE ControlPlaneFails
    BY <2>1, ControlPlaneStep
  <2>2. CASE /\ run' = [run EXCEPT !.due = @ - 1,
                     !.phase = IF run.due = 1 THEN "succeeded" ELSE "upload"]
             /\ UNCHANGED <<job, service>>
    <3> DEFINE left == run.due - 1
               next == IF run.due = 1 THEN "succeeded" ELSE "upload"
    <3>0. left \in Int /\ next \in {"upload", "succeeded"}
      BY <1>0 DEF Runs
    <3>1. /\ run' \in Runs /\ run'.phase \in {"upload", "succeeded"}
          /\ run'.file = run.file /\ run'.origin = run.origin
      <4>1. run' = [run EXCEPT !.due = left, !.phase = next]
        BY <2>2
      <4> HIDE DEF left, next
      <4> QED BY <1>0, <3>0, <4>1 DEF Runs
    <3>2. ExecTypes' /\ FaultsAreTold' /\ RunSound'
      BY <2>0, <2>2, <3>1 DEF ExecInv, ExecTypes, FaultsAreTold, RunSound, OriginOK, Prepared
    <3>3. ServiceSound'
      BY <2>0, <2>2, <3>1 DEF ExecInv, ServiceSound, Prepared, AnswerTold, Succeeding,
           Rejected, _validate_result, ArtifactsFit
    <3> QED BY <3>2, <3>3 DEF ExecInv
  <2> QED BY <1>4, <2>1, <2>2 DEF upload_artifact
<1> QED BY <1>1, <1>2, <1>3, <1>4

LEMMA ExecStep == ExecInv /\ [ExecNext]_execVars => ExecInv'
<1>1. ASSUME ExecInv, ExecNext
      PROVE  ExecInv'
  BY <1>1, ResolveSteps, PrepareSteps, SendSteps, ServiceSteps DEF ExecNext
<1>2. ASSUME ExecInv, UNCHANGED execVars
      PROVE  ExecInv'
  BY <1>2 DEF execVars, ExecInv, ExecTypes, RunSound, ServiceSound, FaultsAreTold,
              OriginOK, Prepared, AnswerTold, Succeeding, Rejected, _validate_result,
              ArtifactsFit
<1> QED BY <1>1, <1>2

(* In every reachable state the worker and the service know what ExecInv   *)
(* says (_produce_result_uri, RemoteHttpBackend.execute, the gateway).     *)
THEOREM ExecInvariance == ExecSpec => []ExecInv
BY ExecInitInv, ExecStep, PTL DEF ExecSpec

(* A stage that succeeds has the result of its own source: the digest that *)
(* _request names is of the file that was fetched and converted, and       *)
(* nothing is parsed that does not have it (_validate_file).               *)
THEOREM ResultOfTheSource == ExecSpec => []ResultIsOfTheSource
<1>1. ExecInv => ResultIsOfTheSource
  BY DEF ExecInv, RunSound, ServiceSound, ResultIsOfTheSource, OriginOK, Prepared,
         _validate_result, ArtifactsFit
<1> QED BY <1>1, ExecInvariance, PTL

(* A fault that may pass is told to be retryable, and one that will not is *)
(* told not to be, from the model behind the gateway up to the report of   *)
(* the worker.                                                             *)
THEOREM FaultsTold == ExecSpec => []FaultsAreTold
<1>1. ExecInv => FaultsAreTold
  BY DEF ExecInv
<1> QED BY <1>1, ExecInvariance, PTL

-----------------------------------------------------------------------------
(* The models that a worker keeps in memory. *)

CallStates ==
  [phase : {"idle", "loading", "rolling_back", "raising", "unloading"},
   todo : Seq(Models \cup Unmanaged), batch : Seq(Models), before : Seq(Models),
   cuts : Nat, made : Nat]

LifecycleTypes ==
  /\ lock \in Loaders \cup {NoLoader} /\ listed \in Seq(Models)
  /\ call \in [Loaders -> CallStates]

(* What a call knows of the list while it holds the lock: the list is what *)
(* it was, followed by the models of the batch that are loaded.            *)
CallSound(c) ==
  /\ call[c].phase # "idle" => lock = c
  /\ call[c].phase = "idle" => call[c].batch = <<>>
  /\ call[c].phase \in {"loading", "rolling_back"} =>
       listed = call[c].before \o call[c].batch
  /\ call[c].phase = "raising" /\ call[c].cuts < 2 => listed = call[c].before

ModelsInv ==
  /\ LifecycleTypes
  /\ memory \subseteq ToSet(listed) \cup stuck
  /\ IsInjective(listed)
  /\ \A c \in Loaders : CallSound(c)

LEMMA FrontLength ==
  ASSUME NEW n \in Nat \ {0}
  PROVE  (IF 1 <= n - 1 THEN (n - 1) - 1 + 1 ELSE 0) = n - 1
OBVIOUS

LEMMA RestLength ==
  ASSUME NEW n \in Nat, NEW i \in 1 .. n
  PROVE  (IF i + 1 <= n THEN n - (i + 1) + 1 ELSE 0) = n - i
OBVIOUS

(* What is left of a list without duplicates when an element is removed.   *)
LEMMA Removed ==
  ASSUME NEW S, NEW s \in Seq(S), IsInjective(s), NEW i \in 1 .. Len(s)
  PROVE  /\ Loses(s, s[i]) \in Seq(S) /\ Len(Loses(s, s[i])) = Len(s) - 1
         /\ \A k \in 1 .. Len(s) - 1 :
              Loses(s, s[i])[k] = IF k < i THEN s[k] ELSE s[k + 1]
<1> DEFINE e == s[i]
           I == {j \in 1 .. Len(s) : s[j] = e}
<1>0. Len(s) \in Nat /\ DOMAIN s = 1 .. Len(s) /\ \A j \in 1 .. Len(s) : s[j] \in S
  BY LenProperties, ElementOfSeq
<1>1. I = {i}
  BY <1>0 DEF IsInjective
<1>2. Min(I) = i
  BY <1>0, <1>1 DEF Min
<1>3. Loses(s, e) = RemoveAt(s, i)
  BY <1>1, <1>2 DEF Loses, RemoveFirst, SelectInSeq
<1> DEFINE l == SubSeq(s, 1, i - 1)
           r == SubSeq(s, i + 1, Len(s))
<1>4. /\ l \in Seq(S) /\ Len(l) = i - 1
      /\ \A k \in 1 .. i - 1 : l[k] = s[k]
  <2>1. \A k \in 1 .. i - 1 : s[k] \in S
    BY <1>0
  <2>2. i - 1 \in Int /\ 1 \in Int
    BY <1>0
  <2>3. /\ l \in Seq(S) /\ Len(l) = IF 1 <= i - 1 THEN (i - 1) - 1 + 1 ELSE 0
        /\ \A k \in 1 .. (i - 1) - 1 + 1 : l[k] = s[1 + k - 1]
    BY <2>1, <2>2, SubSeqProperties
  <2> QED BY <1>0, <2>3
<1>5. /\ r \in Seq(S) /\ Len(r) = Len(s) - i
      /\ \A k \in 1 .. Len(s) - i : r[k] = s[i + k]
  <2>1. \A k \in i + 1 .. Len(s) : s[k] \in S
    BY <1>0
  <2>2. i + 1 \in Int /\ Len(s) \in Int
    BY <1>0
  <2>3. /\ r \in Seq(S) /\ Len(r) = IF i + 1 <= Len(s) THEN Len(s) - (i + 1) + 1 ELSE 0
        /\ \A k \in 1 .. Len(s) - (i + 1) + 1 : r[k] = s[(i + 1) + k - 1]
    BY <2>1, <2>2, SubSeqProperties
  <2>4. Len(r) = Len(s) - i
    BY <1>0, <2>3, RestLength, Zenon
  <2>5. ASSUME NEW k \in 1 .. Len(s) - i
        PROVE  r[k] = s[i + k]
    <3>1. k \in 1 .. Len(s) - (i + 1) + 1 /\ (i + 1) + k - 1 = i + k
      BY <1>0
    <3> QED BY <2>3, <3>1
  <2> QED BY <2>3, <2>4, <2>5
<1>6. Loses(s, e) = l \o r
  BY <1>3 DEF RemoveAt
<1> HIDE DEF l, r
<1>7. /\ l \o r \in Seq(S) /\ Len(l \o r) = Len(s) - 1
      /\ \A k \in 1 .. Len(s) - 1 : (l \o r)[k] = IF k <= i - 1 THEN l[k] ELSE r[k - (i - 1)]
  <2>1. /\ l \o r \in Seq(S) /\ Len(l \o r) = Len(l) + Len(r)
        /\ \A k \in 1 .. Len(l) + Len(r) :
             (l \o r)[k] = IF k <= Len(l) THEN l[k] ELSE r[k - Len(l)]
    BY <1>4, <1>5, ConcatProperties
  <2>2. Len(l) + Len(r) = Len(s) - 1
    BY <1>0, <1>4, <1>5
  <2> QED BY <1>4, <2>1, <2>2
<1>8. \A k \in 1 .. Len(s) - 1 : (l \o r)[k] = IF k < i THEN s[k] ELSE s[k + 1]
  <2> SUFFICES ASSUME NEW k \in 1 .. Len(s) - 1
               PROVE  (l \o r)[k] = IF k < i THEN s[k] ELSE s[k + 1]
    OBVIOUS
  <2>1. CASE k < i
    BY <1>0, <1>4, <1>7, <2>1
  <2>2. CASE k >= i
    <3>1. k - (i - 1) \in 1 .. Len(s) - i /\ i + (k - (i - 1)) = k + 1
      BY <1>0, <2>2
    <3>2. ~(k <= i - 1) /\ ~(k < i)
      BY <1>0, <2>2
    <3> QED BY <1>5, <1>7, <3>1, <3>2
  <2>3. k < i \/ k >= i
    BY <1>0
  <2> QED BY <2>1, <2>2, <2>3
<1> QED BY <1>6, <1>7, <1>8

LEMMA RemovedSet ==
  ASSUME NEW S, NEW s \in Seq(S), IsInjective(s), NEW e \in ToSet(s)
  PROVE  /\ Loses(s, e) \in Seq(S) /\ IsInjective(Loses(s, e))
         /\ ToSet(Loses(s, e)) = ToSet(s) \ {e}
<1> DEFINE r == Loses(s, e)
<1>0. Len(s) \in Nat /\ DOMAIN s = 1 .. Len(s)
  BY LenProperties
<1>1. PICK i \in 1 .. Len(s) : e = s[i]
  BY <1>0 DEF ToSet
<1>2. /\ r \in Seq(S) /\ Len(r) = Len(s) - 1
      /\ \A k \in 1 .. Len(s) - 1 : r[k] = IF k < i THEN s[k] ELSE s[k + 1]
  BY <1>1, Removed
<1> HIDE DEF r
<1>3. DOMAIN r = 1 .. Len(s) - 1
  BY <1>2, LenProperties
<1>4. IsInjective(r)
  <2> SUFFICES ASSUME NEW a \in 1 .. Len(s) - 1, NEW b \in 1 .. Len(s) - 1, r[a] = r[b]
               PROVE  a = b
    BY <1>3 DEF IsInjective
  <2> DEFINE x == IF a < i THEN a ELSE a + 1
             y == IF b < i THEN b ELSE b + 1
  <2>1. x \in 1 .. Len(s) /\ y \in 1 .. Len(s) /\ s[x] = s[y]
    BY <1>0, <1>2
  <2>2. x = y
    BY <1>0, <2>1 DEF IsInjective
  <2> QED BY <1>0, <2>2
<1>5. ASSUME NEW x \in ToSet(r)
      PROVE  x \in ToSet(s) \ {e}
  <2>1. PICK k \in 1 .. Len(s) - 1 : x = r[k]
    BY <1>3 DEF ToSet
  <2> DEFINE j == IF k < i THEN k ELSE k + 1
  <2>2. j \in 1 .. Len(s) /\ x = s[j] /\ j # i
    BY <1>0, <1>2, <2>1
  <2> HIDE DEF j
  <2> QED BY <1>0, <1>1, <2>2 DEF ToSet, IsInjective
<1>6. ASSUME NEW x \in ToSet(s), x # e
      PROVE  x \in ToSet(r)
  <2>1. PICK j \in 1 .. Len(s) : x = s[j]
    BY <1>0 DEF ToSet
  <2>2. j # i
    BY <1>1, <1>6, <2>1
  <2> DEFINE k == IF j < i THEN j ELSE j - 1
  <2>3. k \in 1 .. Len(s) - 1 /\ r[k] = x
    BY <1>0, <1>2, <2>1, <2>2
  <2> HIDE DEF k
  <2> QED BY <1>3, <2>3 DEF ToSet
<1>7. ToSet(r) = ToSet(s) \ {e}
  BY <1>5, <1>6
<1> QED BY <1>2, <1>4, <1>7 DEF r

(* The last model of the batch is the last one of the list.                *)
LEMMA LastRemoved ==
  ASSUME NEW S, NEW s \in Seq(S), NEW b \in Seq(S), b # <<>>, IsInjective(s \o b)
  PROVE  /\ Loses(s \o b, Last(b)) = s \o Front(b)
         /\ Last(b) \in ToSet(s \o b)
         /\ Front(b) \in Seq(S)
<1> DEFINE t == s \o b
<1>1. /\ Len(s) \in Nat /\ Len(b) \in Nat \ {0} /\ t \in Seq(S)
      /\ Len(t) = Len(s) + Len(b) /\ DOMAIN t = 1 .. Len(t)
      /\ \A i \in 1 .. Len(t) : t[i] = IF i <= Len(s) THEN s[i] ELSE b[i - Len(s)]
      /\ \A i \in 1 .. Len(b) : b[i] \in S
  BY ConcatProperties, LenProperties, EmptySeq, ElementOfSeq
<1> HIDE DEF t
<1>2. Last(b) = t[Len(t)] /\ Len(t) \in 1 .. Len(t)
  BY <1>1 DEF Last
<1>3. /\ Loses(t, Last(b)) \in Seq(S) /\ Len(Loses(t, Last(b))) = Len(t) - 1
      /\ \A k \in 1 .. Len(t) - 1 : Loses(t, Last(b))[k] = t[k]
  <2>1. /\ Loses(t, Last(b)) \in Seq(S) /\ Len(Loses(t, Last(b))) = Len(t) - 1
        /\ \A k \in 1 .. Len(t) - 1 : Loses(t, Last(b))[k] =
             IF k < Len(t) THEN t[k] ELSE t[k + 1]
    BY <1>1, <1>2, Removed DEF t
  <2> QED BY <1>1, <2>1
<1>4. /\ Front(b) \in Seq(S) /\ Len(Front(b)) = Len(b) - 1
      /\ \A k \in 1 .. Len(b) - 1 : Front(b)[k] = b[k]
  <2>1. \A k \in 1 .. Len(b) - 1 : b[k] \in S
    BY <1>1
  <2>2. /\ Front(b) \in Seq(S)
        /\ Len(Front(b)) = IF 1 <= Len(b) - 1 THEN (Len(b) - 1) - 1 + 1 ELSE 0
        /\ \A k \in 1 .. (Len(b) - 1) - 1 + 1 : Front(b)[k] = b[1 + k - 1]
    BY <1>1, <2>1, SubSeqProperties DEF Front
  <2>3. ASSUME NEW k \in 1 .. Len(b) - 1
        PROVE  Front(b)[k] = b[k]
    <3>1. k \in 1 .. (Len(b) - 1) - 1 + 1 /\ 1 + k - 1 = k
      BY <1>1
    <3> QED BY <2>2, <3>1
  <2>4. Len(Front(b)) = Len(b) - 1
    <3>1. Len(Front(b)) = IF 1 <= Len(b) - 1 THEN (Len(b) - 1) - 1 + 1 ELSE 0
      BY <2>2
    <3>2. Len(b) \in Nat \ {0}
      BY <1>1
    <3> QED BY <3>1, <3>2, FrontLength, Zenon
  <2> QED BY <2>2, <2>3, <2>4
<1> DEFINE u == s \o Front(b)
<1>5. /\ u \in Seq(S) /\ Len(u) = Len(t) - 1
      /\ \A i \in 1 .. Len(s) + (Len(b) - 1) :
           u[i] = IF i <= Len(s) THEN s[i] ELSE Front(b)[i - Len(s)]
  <2>1. /\ u \in Seq(S) /\ Len(u) = Len(s) + Len(Front(b))
        /\ \A i \in 1 .. Len(s) + Len(Front(b)) :
             u[i] = IF i <= Len(s) THEN s[i] ELSE Front(b)[i - Len(s)]
    BY <1>4, ConcatProperties
  <2> QED BY <1>1, <1>4, <2>1
<1> HIDE DEF u
<1>6. ASSUME NEW i \in 1 .. Len(t) - 1
      PROVE  u[i] = Loses(t, Last(b))[i]
  <2>1. CASE i <= Len(s)
    BY <1>1, <1>3, <1>5, <2>1
  <2>2. CASE i > Len(s)
    <3>1. i - Len(s) \in 1 .. Len(b) - 1
      BY <1>1, <2>2
    <3>2. i \in 1 .. Len(s) + (Len(b) - 1) /\ ~(i <= Len(s)) /\ i \in 1 .. Len(t)
      BY <1>1, <2>2
    <3>3. u[i] = b[i - Len(s)]
      BY <1>4, <1>5, <3>1, <3>2
    <3>4. t[i] = b[i - Len(s)]
      BY <1>1, <3>2
    <3> QED BY <1>3, <3>3, <3>4
  <2> QED BY <1>1, <2>1, <2>2
<1>7. u = Loses(t, Last(b))
  BY <1>3, <1>5, <1>6, SeqEqual
<1>8. Last(b) \in ToSet(t)
  BY <1>1, <1>2 DEF ToSet
<1> QED BY <1>4, <1>7, <1>8 DEF t, u

LEMMA LosesAny ==
  ASSUME NEW S, NEW s \in Seq(S), IsInjective(s), NEW e
  PROVE  /\ Loses(s, e) \in Seq(S) /\ IsInjective(Loses(s, e))
         /\ ToSet(Loses(s, e)) = ToSet(s) \ {e}
<1>1. CASE e \in ToSet(s)
  BY <1>1, RemovedSet
<1>2. CASE e \notin ToSet(s)
  <2>1. DOMAIN s = 1 .. Len(s)
    BY LenProperties
  <2>2. Loses(s, e) = s
    BY <1>2, <2>1 DEF Loses, RemoveFirst, ToSet
  <2> QED BY <1>2, <2>2
<1> QED BY <1>1, <1>2

LEMMA Grown ==
  ASSUME NEW S, NEW s \in Seq(S), IsInjective(s), NEW e \in S, e \notin ToSet(s)
  PROVE  /\ Append(s, e) \in Seq(S) /\ IsInjective(Append(s, e))
         /\ ToSet(Append(s, e)) = ToSet(s) \cup {e}
<1> DEFINE r == Append(s, e)
<1>0. Len(s) \in Nat /\ DOMAIN s = 1 .. Len(s)
  BY LenProperties
<1>1. /\ r \in Seq(S) /\ Len(r) = Len(s) + 1 /\ r[Len(s) + 1] = e
      /\ \A i \in 1 .. Len(s) : r[i] = s[i]
  BY AppendProperties
<1> HIDE DEF r
<1>2. DOMAIN r = 1 .. Len(s) + 1
  BY <1>1, LenProperties
<1>3. \A i \in 1 .. Len(s) : r[i] # e
  BY <1>0, <1>1 DEF ToSet
<1>4. IsInjective(r)
  <2> SUFFICES ASSUME NEW a \in 1 .. Len(s) + 1, NEW b \in 1 .. Len(s) + 1, r[a] = r[b]
               PROVE  a = b
    BY <1>2 DEF IsInjective
  <2>1. CASE a = Len(s) + 1 \/ b = Len(s) + 1
    BY <1>0, <1>1, <1>3, <2>1
  <2>2. CASE a # Len(s) + 1 /\ b # Len(s) + 1
    <3>1. a \in 1 .. Len(s) /\ b \in 1 .. Len(s)
      BY <1>0, <2>2
    <3> QED BY <1>0, <1>1, <3>1 DEF IsInjective
  <2> QED BY <2>1, <2>2
<1>5. ToSet(r) = ToSet(s) \cup {e}
  <2>1. ASSUME NEW x \in ToSet(r)
        PROVE  x \in ToSet(s) \cup {e}
    <3>1. PICK i \in 1 .. Len(s) + 1 : x = r[i]
      BY <1>2 DEF ToSet
    <3>2. i = Len(s) + 1 \/ i \in 1 .. Len(s)
      BY <1>0
    <3> QED BY <1>0, <1>1, <3>1, <3>2 DEF ToSet
  <2>2. ASSUME NEW x \in ToSet(s)
        PROVE  x \in ToSet(r)
    <3>1. PICK i \in 1 .. Len(s) : x = s[i]
      BY <1>0 DEF ToSet
    <3>2. i \in 1 .. Len(s) + 1
      BY <1>0
    <3> QED BY <1>1, <1>2, <3>1, <3>2 DEF ToSet
  <2>3. e \in ToSet(r)
    <3>1. Len(s) + 1 \in 1 .. Len(s) + 1
      BY <1>0
    <3> QED BY <1>1, <1>2, <3>1 DEF ToSet
  <2> QED BY <2>1, <2>2, <2>3
<1> QED BY <1>1, <1>4, <1>5 DEF r

LEMMA AppendedBatch ==
  \A s, b \in Seq(Models), e \in Models : Append(s \o b, e) = s \o Append(b, e)
<1> SUFFICES ASSUME NEW s \in Seq(Models), NEW b \in Seq(Models), NEW e \in Models
             PROVE  Append(s \o b, e) = s \o Append(b, e)
  OBVIOUS
<1>1. <<e>> \in Seq(Models) /\ s \o b \in Seq(Models)
  BY ConcatProperties
<1>2. Append(s \o b, e) = (s \o b) \o <<e>> /\ Append(b, e) = b \o <<e>>
  BY <1>1, AppendIsConcat
<1>3. (s \o b) \o <<e>> = s \o (b \o <<e>>)
  BY <1>1, ConcatAssociative
<1> QED BY <1>2, <1>3

LEMMA ModelsInit == LifecycleInit => ModelsInv
<1> SUFFICES ASSUME LifecycleInit PROVE ModelsInv
  OBVIOUS
<1>1. LifecycleTypes
  BY EmptySeq DEF LifecycleInit, LifecycleTypes, NoCall, CallStates
<1>2. IsInjective(listed)
  BY DEF LifecycleInit, IsInjective
<1>3. \A c \in Loaders : CallSound(c)
  BY DEF LifecycleInit, CallSound, NoCall
<1> QED BY <1>1, <1>2, <1>3 DEF ModelsInv, LifecycleInit

(* A step of the call c: every other call is idle and stays so.            *)
LEMMA CallStep ==
  ASSUME ModelsInv, NEW c \in Loaders, lock \in {c, NoLoader}, LifecycleTypes',
         memory' \subseteq ToSet(listed') \cup stuck', IsInjective(listed'),
         \A d \in Loaders \ {c} : call'[d] = call[d],
         CallSound(c)'
  PROVE  ModelsInv'
<1>1. ASSUME NEW d \in Loaders \ {c}
      PROVE  CallSound(d)'
  <2>1. call[d].phase = "idle" /\ call[d].batch = <<>>
    BY BatchesAssumption DEF ModelsInv, CallSound
  <2> QED BY <2>1 DEF CallSound
<1> QED BY <1>1 DEF ModelsInv

(* The call is over.                                                       *)
LEMMA LeavesStep ==
  ASSUME ModelsInv, NEW c \in Loaders, lock \in {c, NoLoader}, Leaves(c),
         listed' = listed, memory' \subseteq memory, stuck' = stuck
  PROVE  ModelsInv'
<1> DEFINE n == 0 + call[c].made + 1
           q == [NoCall EXCEPT !.made = n]
<1>0. call \in [Loaders -> CallStates] /\ call[c] \in CallStates
  BY DEF ModelsInv, LifecycleTypes
<1>1. n \in Nat
  BY <1>0 DEF CallStates
<1>2. call' = [call EXCEPT ![c] = q]
  BY DEF Leaves, NoCall
<1> HIDE DEF n
<1>3. q \in CallStates /\ q.phase = "idle" /\ q.batch = <<>>
  BY <1>1, EmptySeq DEF NoCall, CallStates
<1> HIDE DEF q
<1>4. LifecycleTypes' /\ CallSound(c)'
  BY <1>0, <1>2, <1>3 DEF Leaves, ModelsInv, LifecycleTypes, CallSound
<1> QED BY <1>0, <1>2, <1>4, CallStep DEF ModelsInv

(* A step that writes the row of the call only.                            *)
LEMMA OwnStep ==
  ASSUME ModelsInv, NEW c \in Loaders, lock \in {c, NoLoader}, lock' = c,
         NEW q \in CallStates, call' = [call EXCEPT ![c] = q],
         listed' \in Seq(Models), IsInjective(listed'),
         memory' \subseteq ToSet(listed') \cup stuck',
         q.phase # "idle",
         q.phase \in {"loading", "rolling_back"} => listed' = q.before \o q.batch,
         q.phase = "raising" /\ q.cuts < 2 => listed' = q.before
  PROVE  ModelsInv'
<1>1. call \in [Loaders -> CallStates]
  BY DEF ModelsInv, LifecycleTypes
<1>2. LifecycleTypes' /\ CallSound(c)'
  BY <1>1 DEF LifecycleTypes, CallSound
<1> QED BY <1>1, <1>2, CallStep

LEMMA PreloadSteps ==
  ASSUME ModelsInv, NEW c \in Loaders, Preload(c) \/ Load(c) \/ Preloaded(c)
  PROVE  ModelsInv'
<1>0. /\ call \in [Loaders -> CallStates] /\ call[c] \in CallStates
      /\ listed \in Seq(Models) /\ IsInjective(listed)
      /\ memory \subseteq ToSet(listed) \cup stuck /\ CallSound(c)
  BY DEF ModelsInv, LifecycleTypes
<1>1. CASE Preload(c)
  <2>1. PICK targets \in Batches :
          call' = [call EXCEPT ![c].phase = "loading", ![c].todo = targets,
                               ![c].before = listed]
    BY <1>1 DEF Preload
  <2> DEFINE q == [call[c] EXCEPT !.phase = "loading", !.todo = targets, !.before = listed]
  <2>2. call' = [call EXCEPT ![c] = q]
    BY <1>0, <2>1
  <2>3. targets \in Seq(Models \cup Unmanaged)
    BY BatchesAssumption
  <2>4. /\ q \in CallStates /\ q.phase = "loading" /\ q.before = listed
        /\ q.batch = call[c].batch
    BY <1>0, <2>3 DEF CallStates
  <2> HIDE DEF q
  <2>5. q.batch = <<>>
    BY <1>0, <1>1, <2>4 DEF Preload, CallSound
  <2>6. listed = q.before \o q.batch
    BY <1>0, <2>4, <2>5, ConcatEmptySeq
  <2> QED BY <1>0, <1>1, <2>2, <2>4, <2>6, OwnStep DEF Preload
<1>2. CASE Load(c)
  <2> DEFINE target == Head(call[c].todo)
  <2>0. /\ lock = c /\ lock' = c /\ call[c].phase = "loading" /\ call[c].todo # <<>>
        /\ listed = call[c].before \o call[c].batch
        /\ call[c].before \in Seq(Models) /\ call[c].batch \in Seq(Models)
    BY <1>0, <1>2 DEF Load, Holds, CallSound, CallStates
  <2>1. Tail(call[c].todo) \in Seq(Models \cup Unmanaged)
    BY <1>0, <2>0, HeadTailProperties DEF CallStates
  <2>2. CASE Skip(c) /\ UNCHANGED <<listed, memory, stuck>>
    <3> DEFINE q == [call[c] EXCEPT !.todo = Tail(@)]
    <3>1. call' = [call EXCEPT ![c] = q]
      BY <2>2 DEF Skip
    <3>2. /\ q \in CallStates /\ q.phase = "loading" /\ q.before = call[c].before
          /\ q.batch = call[c].batch
      BY <1>0, <2>0, <2>1 DEF CallStates
    <3> HIDE DEF q
    <3> QED BY <1>0, <2>0, <2>2, <3>1, <3>2, OwnStep
  <2>3. CASE /\ target \in Models \ ToSet(listed)
             /\ listed' = Append(listed, target)
             /\ memory' = memory \cup {target} /\ stuck' = stuck \ {target}
             /\ call' = [call EXCEPT ![c].todo = Tail(@), ![c].batch = Append(@, target)]
    <3> HIDE DEF target
    <3> DEFINE q == [call[c] EXCEPT !.todo = Tail(@), !.batch = Append(@, target)]
    <3>1. call' = [call EXCEPT ![c] = q]
      BY <1>0, <2>3
    <3>2. Append(call[c].batch, target) \in Seq(Models)
      BY <2>0, <2>3, AppendProperties
    <3>3. /\ q \in CallStates /\ q.phase = "loading" /\ q.before = call[c].before
          /\ q.batch = Append(call[c].batch, target)
      BY <1>0, <2>0, <2>1, <3>2 DEF CallStates
    <3> HIDE DEF q
    <3>4. /\ listed' \in Seq(Models) /\ IsInjective(listed')
          /\ ToSet(listed') = ToSet(listed) \cup {target}
      <4>1. /\ Append(listed, target) \in Seq(Models) /\ IsInjective(Append(listed, target))
            /\ ToSet(Append(listed, target)) = ToSet(listed) \cup {target}
        BY <1>0, <2>3, Grown
      <4> QED BY <2>3, <4>1
    <3>5. listed' = q.before \o q.batch
      <4>1. target \in Models
        BY <2>3
      <4>2. Append(call[c].before \o call[c].batch, target)
              = call[c].before \o Append(call[c].batch, target)
        <5>1. call[c].before \in Seq(Models) /\ call[c].batch \in Seq(Models)
          BY <2>0
        <5> QED BY <4>1, <5>1, AppendedBatch
      <4>3. listed' = Append(call[c].before \o call[c].batch, target)
        BY <2>0, <2>3
      <4> QED BY <3>3, <4>2, <4>3
    <3>6. memory' \subseteq ToSet(listed') \cup stuck'
      BY <1>0, <2>3, <3>4
    <3> QED BY <1>0, <2>0, <3>1, <3>3, <3>4, <3>5, <3>6, OwnStep
  <2>4. CASE TakeBack(c) /\ UNCHANGED <<listed, memory, stuck>>
    <3> DEFINE q == [call[c] EXCEPT !.phase = "rolling_back"]
    <3>1. call' = [call EXCEPT ![c] = q]
      BY <2>4 DEF TakeBack
    <3>2. /\ q \in CallStates /\ q.phase = "rolling_back" /\ q.before = call[c].before
          /\ q.batch = call[c].batch
      BY <1>0 DEF CallStates
    <3> HIDE DEF q
    <3> QED BY <1>0, <2>0, <2>4, <3>1, <3>2, OwnStep
  <2> QED BY <1>2, <2>2, <2>3, <2>4 DEF Load
<1>3. CASE Preloaded(c)
  BY <1>3, LeavesStep DEF Preloaded, Holds
<1> QED BY <1>1, <1>2, <1>3

LEMMA RollbackSteps ==
  ASSUME ModelsInv, NEW c \in Loaders,
         UnloadOfBatch(c) \/ Cut(c) \/ CutAgain(c) \/ RolledBack(c) \/ Raise(c)
  PROVE  ModelsInv'
<1>0. /\ call \in [Loaders -> CallStates] /\ call[c] \in CallStates
      /\ listed \in Seq(Models) /\ IsInjective(listed)
      /\ memory \subseteq ToSet(listed) \cup stuck /\ CallSound(c)
      /\ call[c].before \in Seq(Models) /\ call[c].batch \in Seq(Models)
  BY DEF ModelsInv, LifecycleTypes, CallStates
<1>1. CASE UnloadOfBatch(c)
  <2> DEFINE model == Last(call[c].batch)
             left == Front(call[c].batch)
             q == [call[c] EXCEPT !.batch = left]
  <2>0. /\ lock = c /\ lock' = c /\ call[c].phase = "rolling_back" /\ call[c].batch # <<>>
        /\ listed = call[c].before \o call[c].batch
        /\ listed' = Loses(listed, model)
        /\ \/ memory' = memory \ {model} /\ UNCHANGED stuck
           \/ stuck' = stuck \cup {model} /\ UNCHANGED memory
    BY <1>0, <1>1 DEF UnloadOfBatch, Holds, CallSound
  <2>1. call' = [call EXCEPT ![c] = q]
    BY <1>1 DEF UnloadOfBatch
  <2>2. listed' = call[c].before \o left /\ left \in Seq(Models)
    BY <1>0, <2>0, LastRemoved
  <2>3. /\ listed' \in Seq(Models) /\ IsInjective(listed')
        /\ ToSet(listed') = ToSet(listed) \ {model}
    BY <1>0, <2>0, LosesAny
  <2> HIDE DEF left
  <2>4. /\ q \in CallStates /\ q.phase = "rolling_back" /\ q.before = call[c].before
        /\ q.batch = left
    BY <1>0, <2>0, <2>2 DEF CallStates
  <2> HIDE DEF q, model
  <2>5. memory' \subseteq ToSet(listed') \cup stuck'
    BY <1>0, <2>0, <2>3
  <2> QED BY <2>0, <2>1, <2>2, <2>3, <2>4, <2>5, OwnStep
<1>2. CASE Cut(c)
  <2> DEFINE q == [call[c] EXCEPT !.cuts = 1]
  <2>1. call' = [call EXCEPT ![c] = q]
    BY <1>2 DEF Cut
  <2>2. /\ q \in CallStates /\ q.phase = call[c].phase /\ q.before = call[c].before
        /\ q.batch = call[c].batch
    BY <1>0 DEF CallStates
  <2> HIDE DEF q
  <2> QED BY <1>0, <1>2, <2>1, <2>2, OwnStep, ZenonT(40) DEF Cut, Holds, CallSound
<1>3. CASE CutAgain(c)
  <2> DEFINE q == [call[c] EXCEPT !.cuts = 2, !.phase = "raising"]
  <2>1. call' = [call EXCEPT ![c] = q]
    BY <1>0, <1>3 DEF CutAgain
  <2>2. q \in CallStates /\ q.phase = "raising" /\ q.cuts = 2
    BY <1>0 DEF CallStates
  <2> HIDE DEF q
  <2>3. memory' \subseteq ToSet(listed') \cup stuck'
    BY <1>0, <1>3 DEF CutAgain
  <2>4. lock = c /\ lock' = c /\ listed' = listed
    BY <1>3 DEF CutAgain, Holds
  <2>5. ~(q.cuts < 2)
    BY <2>2
  <2> QED BY <1>0, <2>1, <2>2, <2>3, <2>4, <2>5, OwnStep
<1>4. CASE RolledBack(c)
  <2> DEFINE q == [call[c] EXCEPT !.phase = "raising"]
  <2>1. call' = [call EXCEPT ![c] = q]
    BY <1>4 DEF RolledBack
  <2>2. q \in CallStates /\ q.phase = "raising" /\ q.before = call[c].before
    BY <1>0 DEF CallStates
  <2> HIDE DEF q
  <2>3. listed = call[c].before
    BY <1>0, <1>4, ConcatEmptySeq DEF RolledBack, Holds, CallSound
  <2> QED BY <1>0, <1>4, <2>1, <2>2, <2>3, OwnStep DEF RolledBack, Holds
<1>5. CASE Raise(c)
  BY <1>5, LeavesStep DEF Raise, Holds
<1> QED BY <1>1, <1>2, <1>3, <1>4, <1>5

LEMMA UnloadSteps ==
  ASSUME ModelsInv, NEW c \in Loaders,
         UnloadAll(c) \/ Unload(c) \/ UnloadCancelled(c) \/ Unloaded(c)
  PROVE  ModelsInv'
<1>0. /\ call \in [Loaders -> CallStates] /\ call[c] \in CallStates
      /\ listed \in Seq(Models) /\ IsInjective(listed)
      /\ memory \subseteq ToSet(listed) \cup stuck
  BY DEF ModelsInv, LifecycleTypes
<1>1. CASE UnloadAll(c)
  <2> DEFINE r == Reverse(listed)
             q == [call[c] EXCEPT !.phase = "unloading", !.todo = r]
  <2>1. r \in Seq(Models \cup Unmanaged)
    <3>1. Len(listed) \in Nat
      BY <1>0, LenProperties
    <3>2. \A i \in 1 .. Len(listed) : listed[(Len(listed) - i) + 1] \in Models
      <4> SUFFICES ASSUME NEW i \in 1 .. Len(listed)
                   PROVE  listed[(Len(listed) - i) + 1] \in Models
        OBVIOUS
      <4>1. (Len(listed) - i) + 1 \in 1 .. Len(listed)
        BY <3>1
      <4> QED BY <1>0, <4>1, ElementOfSeq
    <3>3. r \in [1 .. Len(listed) -> Models]
      BY <3>2 DEF Reverse
    <3>4. r \in Seq(Models)
      BY <3>1, <3>3, SeqDef
    <3> QED BY <3>4, SeqMonotonic
  <2>2. call' = [call EXCEPT ![c] = q]
    BY <1>0, <1>1 DEF UnloadAll
  <2> HIDE DEF r
  <2>3. q \in CallStates /\ q.phase = "unloading"
    BY <1>0, <2>1 DEF CallStates
  <2> HIDE DEF q
  <2> QED BY <1>0, <1>1, <2>2, <2>3, OwnStep DEF UnloadAll
<1>2. CASE Unload(c)
  <2> DEFINE model == Head(call[c].todo)
             q == [call[c] EXCEPT !.todo = Tail(@)]
  <2>0. /\ lock = c /\ lock' = c /\ call[c].phase = "unloading" /\ call[c].todo # <<>>
        /\ \/ /\ listed' = Loses(listed, model) /\ memory' = memory \ {model}
              /\ UNCHANGED stuck
           \/ /\ stuck' = stuck \cup {model}
              /\ UNCHANGED <<listed, memory>>
    BY <1>2 DEF Unload, Holds
  <2>1. call' = [call EXCEPT ![c] = q]
    BY <1>2 DEF Unload, Skip
  <2>2. Tail(call[c].todo) \in Seq(Models \cup Unmanaged)
    BY <1>0, <2>0, HeadTailProperties DEF CallStates
  <2>3. q \in CallStates /\ q.phase = "unloading"
    BY <1>0, <2>0, <2>2 DEF CallStates
  <2> HIDE DEF q, model
  <2>4. /\ listed' \in Seq(Models) /\ IsInjective(listed')
        /\ memory' \subseteq ToSet(listed') \cup stuck'
    <3>1. /\ Loses(listed, model) \in Seq(Models) /\ IsInjective(Loses(listed, model))
          /\ ToSet(Loses(listed, model)) = ToSet(listed) \ {model}
      BY <1>0, LosesAny
    <3> QED BY <1>0, <2>0, <3>1
  <2> QED BY <2>0, <2>1, <2>3, <2>4, OwnStep
<1>3. CASE UnloadCancelled(c)
  BY <1>3, LeavesStep DEF UnloadCancelled, Holds
<1>4. CASE Unloaded(c)
  BY <1>4, LeavesStep DEF Unloaded, Holds
<1> QED BY <1>1, <1>2, <1>3, <1>4

LEMMA ModelsStep == ModelsInv /\ [LifecycleNext]_lifecycleVars => ModelsInv'
<1>1. ASSUME ModelsInv, LifecycleNext
      PROVE  ModelsInv'
  BY <1>1, PreloadSteps, RollbackSteps, UnloadSteps DEF LifecycleNext
<1>2. ASSUME ModelsInv, UNCHANGED lifecycleVars
      PROVE  ModelsInv'
  BY <1>2 DEF lifecycleVars, ModelsInv, LifecycleTypes, CallSound
<1> QED BY <1>1, <1>2

(* unload_all finds every model that is in memory, unless its own unload   *)
(* has raised, and a preload that fails leaves the list as it found it,    *)
(* for any calls, batches and cancellations (BackendRegistry): a call adds *)
(* to the end of the list only what it takes back from there.              *)
THEOREM CanBeFreed == LifecycleSpec => []ModelsCanBeFreed
<1>1. ModelsInv => ModelsCanBeFreed
  BY DEF ModelsInv, CallSound, ModelsCanBeFreed
<1> QED BY <1>1, ModelsInit, ModelsStep, PTL DEF LifecycleSpec

-----------------------------------------------------------------------------
(* The keys.  For any keys, workers, requests and times, no request is let *)
(* in with a secret that was not usable while it was being handled.  The   *)
(* property alone is not inductive: the row is judged when it is read, the *)
(* worker it is bound to when the transaction has ended.  KeysInv adds     *)
(* what a request knows in between (ReadersFit), and the types of rows and *)
(* requests.                                                               *)

AdminStates ==
  {IdleAdmin}
    \cup [phase : {"begun"}, id : KeyIds, change : Changes, now : 1..MaxKeyTime]
    \cup [phase : {"writing"}, id : KeyIds, now : 1..MaxKeyTime,
          row : ApiKeyRows \cup {NoApiKey}]

Presented ==
  [phase : {"begun", "accepted", "refused", "unavailable"}, for : Gates,
   secret : Secrets, now : 1..MaxKeyTime]

RowRead ==
  [phase : {"read"}, for : Gates, secret : [id : KeyIds, generation : 0..MaxGeneration],
   now : 1..MaxKeyTime, bound : KeyWorkers \cup {NoWorkerId}]

CallerStates == {IdleCaller} \cup Presented \cup RowRead

AccessTypes ==
  /\ KeysTypeOK
  /\ admin \in [Admins -> AdminStates]
  /\ caller \in [Callers -> CallerStates]

(* A request that has read its row was usable then, if its row serves the  *)
(* worker that it names.                                                   *)
ReadersFit ==
  \A r \in Callers :
    caller[r].phase = "read"
      /\ _require_worker_identity(caller[r].bound, caller[r].for.worker)
    => fit[r]

KeysInv == AccessTypes /\ ReadersFit /\ OnlyLiveKeysAreAccepted

LEMMA KeysInitInv == KeysInit => KeysInv
  BY BoundsAssumption
  DEF KeysInit, KeysInv, AccessTypes, KeysTypeOK, CallerStates, AdminStates, IdleCaller,
      IdleAdmin, ReadersFit, OnlyLiveKeysAreAccepted

(* What a management request writes is a row, or none.                     *)
LEMMA WrittenType ==
  ASSUME NEW row \in ApiKeyRows, NEW c \in Changes,
         c.op = "rotate" => row.generation < MaxGeneration
  PROVE  Written(row, c) \in ApiKeyRows \cup {NoApiKey}
<1>1. CASE c.op = "update"
  <2>1. c \in [op : {"update"}, enabled : {"same", "on", "off"}, expires : Expiries]
    BY <1>1 DEF Changes
  <2>. QED
    BY <1>1, <2>1 DEF Written, update, ApiKeyRows
<1>2. CASE c.op = "rotate"
  BY <1>2, BoundsAssumption DEF Written, rotate, ApiKeyRows
<1>3. CASE c.op = "delete"
  BY <1>3 DEF Written
<1>. QED
  BY <1>1, <1>2, <1>3 DEF Changes

(* A secret in the headers is a secret.                                    *)
LEMMA ExtractedType ==
  ASSUME NEW authorization \in Authorizations, NEW header \in HeaderKeys,
         NEW s \in _extract_api_key(authorization, header)
  PROVE  s \in Secrets
  BY DEF Authorizations, HeaderKeys, _extract_api_key, Secrets

(* The row that a request is authenticated by.                             *)
LEMMA MatchType ==
  ASSUME KeysTypeOK, NEW s \in Secrets, NEW g, NEW k \in Matches(s, g)
  PROVE  /\ s \in [id : KeyIds, generation : 0..MaxGeneration]
         /\ k \in KeyIds /\ k = s.id
         /\ apiKeys[k] \in ApiKeyRows
  BY DEF Matches, KeyRows, KeysTypeOK, Secrets, NoApiKey

LEMMA KeysTypesStep == AccessTypes /\ KeyStep /\ Witnessed => AccessTypes'
<1>. SUFFICES ASSUME AccessTypes, KeyStep, Witnessed
              PROVE  AccessTypes'
  OBVIOUS
<1>. USE BoundsAssumption
<1>0. fit' \in [Callers -> BOOLEAN]
  BY DEF Witnessed
<1>1. ASSUME NEW k \in KeyIds, NEW kind \in Kinds,
             NEW worker \in KeyWorkers \cup {NoWorkerId},
             NEW expires \in Expiries, create(k, kind, worker, expires)
      PROVE  AccessTypes'
  BY <1>0, <1>1 DEF create, AccessTypes, KeysTypeOK, ApiKeyRows, Expiries
<1>2. ASSUME NEW a \in Admins, NEW k \in KeyIds, NEW c \in Changes,
             AdminBegin(a, k, c)
      PROVE  AccessTypes'
  BY <1>0, <1>2 DEF AdminBegin, AccessTypes, KeysTypeOK, AdminStates
<1>3. ASSUME NEW a \in Admins, AdminWrite(a)
      PROVE  AccessTypes'
  <2>. DEFINE row == apiKeys[admin[a].id]
              c == admin[a].change
  <2>1. admin[a] \in [phase : {"begun"}, id : KeyIds, change : Changes,
                      now : 1..MaxKeyTime]
    BY <1>3 DEF AdminWrite, AccessTypes, AdminStates, IdleAdmin
  <2>2. row \in ApiKeyRows \cup {NoApiKey} /\ c \in Changes
    BY <2>1 DEF AccessTypes, KeysTypeOK
  <2>3. CASE admin' = [admin EXCEPT ![a] = IdleAdmin]
    BY <1>0, <1>3, <2>3 DEF AdminWrite, AccessTypes, KeysTypeOK, AdminStates
  <2>4. CASE /\ row # NoApiKey
             /\ c.op = "rotate" => row.generation < MaxGeneration
             /\ admin' = [admin EXCEPT ![a] =
                  [phase |-> "writing", id |-> @.id, now |-> @.now,
                   row |-> Written(row, c)]]
    <3>1. Written(row, c) \in ApiKeyRows \cup {NoApiKey}
      BY <2>2, <2>4, WrittenType
    <3>2. [phase |-> "writing", id |-> admin[a].id, now |-> admin[a].now,
           row |-> Written(row, c)] \in AdminStates
      BY <2>1, <3>1 DEF AdminStates
    <3>3. admin' \in [Admins -> AdminStates]
      BY <2>4, <3>2 DEF AccessTypes
    <3>. QED
      BY <1>0, <1>3, <3>3 DEF AdminWrite, AccessTypes, KeysTypeOK
  <2>. QED
    BY <1>3, <2>3, <2>4 DEF AdminWrite
<1>4. ASSUME NEW a \in Admins, AdminCommit(a)
      PROVE  AccessTypes'
  <2>1. admin[a] \in [phase : {"writing"}, id : KeyIds, now : 1..MaxKeyTime,
                      row : ApiKeyRows \cup {NoApiKey}]
    BY <1>4 DEF AdminCommit, AccessTypes, AdminStates, IdleAdmin
  <2>. QED
    BY <1>0, <1>4, <2>1 DEF AdminCommit, AccessTypes, KeysTypeOK, AdminStates
<1>5. ASSUME NEW a \in Admins, AdminAbort(a)
      PROVE  AccessTypes'
  BY <1>0, <1>5 DEF AdminAbort, AccessTypes, KeysTypeOK, AdminStates
<1>6. ASSUME NEW r \in Callers, NEW g \in Gates,
             NEW authorization \in Authorizations, NEW header \in HeaderKeys,
             CallBegin(r, g, authorization, header)
      PROVE  AccessTypes'
  <2>1. PICK s \in _extract_api_key(authorization, header) :
          caller' = [caller EXCEPT ![r] =
            [phase |-> IF s = Configured(g) THEN "accepted" ELSE "begun",
             for |-> g, secret |-> s, now |-> keyClock]]
    BY <1>6 DEF CallBegin, _candidate
  <2>2. s \in Secrets
    BY ExtractedType
  <2>. QED
    BY <1>0, <1>6, <2>1, <2>2 DEF CallBegin, AccessTypes, KeysTypeOK, CallerStates, Presented
<1>7. ASSUME NEW r \in Callers, authenticate(r)
      PROVE  AccessTypes'
  <2>. DEFINE found == {k \in Matches(caller[r].secret, caller[r].for) :
                          _is_active(apiKeys[k], caller[r].now)}
  <2>1. caller[r] \in Presented
    BY <1>7 DEF authenticate, AccessTypes, CallerStates, RowRead, IdleCaller
  <2>2. CASE found = {}
    <3>1. caller' = [caller EXCEPT ![r] = [@ EXCEPT !.phase = "refused"]]
      BY <1>7, <2>2 DEF authenticate
    <3>2. [caller[r] EXCEPT !.phase = "refused"] \in CallerStates
      BY <2>1 DEF Presented, CallerStates
    <3>. QED
      BY <1>0, <1>7, <3>1, <3>2 DEF authenticate, AccessTypes, KeysTypeOK
  <2>3. CASE found # {}
    <3>1. caller' = [caller EXCEPT ![r] =
            [phase |-> "read", for |-> @.for, secret |-> @.secret,
             now |-> @.now, bound |-> apiKeys[caller[r].secret.id].worker]]
      BY <1>7, <2>3 DEF authenticate
    <3>2. /\ caller[r].secret \in [id : KeyIds, generation : 0..MaxGeneration]
          /\ apiKeys[caller[r].secret.id] \in ApiKeyRows
      <4>1. PICK k \in Matches(caller[r].secret, caller[r].for) : TRUE
        BY <2>3
      <4>. QED
        BY <2>1, <4>1, MatchType DEF Presented, AccessTypes
    <3>3. [phase |-> "read", for |-> caller[r].for, secret |-> caller[r].secret,
           now |-> caller[r].now,
           bound |-> apiKeys[caller[r].secret.id].worker] \in CallerStates
      BY <2>1, <3>2 DEF Presented, RowRead, CallerStates, ApiKeyRows
    <3>4. caller' \in [Callers -> CallerStates]
      BY <3>1, <3>3 DEF AccessTypes
    <3>. QED
      BY <1>0, <1>7, <3>4 DEF authenticate, AccessTypes, KeysTypeOK
  <2>. QED
    BY <2>2, <2>3
<1>8. ASSUME NEW r \in Callers, CallEnd(r)
      PROVE  AccessTypes'
  <2>1. caller[r] \in RowRead
    BY <1>8 DEF CallEnd, AccessTypes, CallerStates, Presented, IdleCaller
  <2>2. PICK phase \in {"accepted", "refused", "unavailable"} :
          caller' = [caller EXCEPT ![r] =
            [phase |-> phase, for |-> @.for, secret |-> @.secret, now |-> @.now]]
    BY <1>8 DEF CallEnd, Unavailable
  <2>3. [phase |-> phase, for |-> caller[r].for, secret |-> caller[r].secret,
         now |-> caller[r].now] \in CallerStates
    BY <2>1 DEF RowRead, Presented, CallerStates, Secrets
  <2>. QED
    BY <1>0, <1>8, <2>2, <2>3 DEF CallEnd, AccessTypes, KeysTypeOK
<1>9. CASE KeyTick
  BY <1>0, <1>9 DEF KeyTick, AccessTypes, KeysTypeOK
<1>. QED
  BY <1>1, <1>2, <1>3, <1>4, <1>5, <1>6, <1>7, <1>8, <1>9 DEF KeyStep

-----------------------------------------------------------------------------
(* A request that is not idle stays so, and what has been usable once has  *)
(* been usable since.                                                      *)
LEMMA FitStays ==
  ASSUME Witnessed, NEW r \in Callers, fit[r], caller'[r] # IdleCaller
  PROVE  fit'[r]
  BY DEF Witnessed

(* What a request that has stayed as it was knows, it still knows.         *)
LEMMA SameCaller ==
  ASSUME KeysInv, Witnessed, NEW r \in Callers, caller'[r] = caller[r]
  PROVE  /\ caller'[r].phase = "read"
              /\ _require_worker_identity(caller'[r].bound, caller'[r].for.worker)
            => fit'[r]
         /\ caller'[r].phase = "accepted"
            => caller'[r].secret = Configured(caller'[r].for) \/ fit'[r]
<1>1. caller[r].phase \in {"read", "accepted"} => caller[r] # IdleCaller
  BY DEF IdleCaller
<1>. QED
  BY <1>1, FitStays DEF KeysInv, ReadersFit, OnlyLiveKeysAreAccepted

(* No request but the one that moves changes what it knows.                *)
LEMMA OneCaller ==
  ASSUME KeysInv, Witnessed, AccessTypes', NEW r \in Callers,
         \A q \in Callers \ {r} : caller'[q] = caller[q],
         caller'[r].phase = "read"
           /\ _require_worker_identity(caller'[r].bound, caller'[r].for.worker)
         => fit'[r],
         caller'[r].phase = "accepted"
         => caller'[r].secret = Configured(caller'[r].for) \/ fit'[r]
  PROVE  KeysInv'
<1>1. \A q \in Callers :
        /\ caller'[q].phase = "read"
             /\ _require_worker_identity(caller'[q].bound, caller'[q].for.worker)
           => fit'[q]
        /\ caller'[q].phase = "accepted"
           => caller'[q].secret = Configured(caller'[q].for) \/ fit'[q]
  BY SameCaller
<1>2. ReadersFit'
  BY <1>1 DEF ReadersFit, _require_worker_identity
<1>3. OnlyLiveKeysAreAccepted'
  BY <1>1 DEF OnlyLiveKeysAreAccepted, Configured
<1>. QED
  BY <1>2, <1>3 DEF KeysInv

LEMMA KeysStep == KeysInv /\ KeyStep /\ Witnessed => KeysInv'
<1>. SUFFICES ASSUME KeysInv, KeyStep, Witnessed
              PROVE  KeysInv'
  OBVIOUS
<1>0. AccessTypes /\ AccessTypes'
  BY KeysTypesStep DEF KeysInv
<1>1. CASE caller' = caller
  <2>1. ReadersFit'
    BY <1>1, SameCaller DEF ReadersFit, _require_worker_identity
  <2>2. OnlyLiveKeysAreAccepted'
    BY <1>1, SameCaller DEF OnlyLiveKeysAreAccepted, Configured
  <2>. QED
    BY <1>0, <2>1, <2>2 DEF KeysInv
<1>2. ASSUME NEW r \in Callers, NEW g \in Gates,
             NEW authorization \in Authorizations, NEW header \in HeaderKeys,
             CallBegin(r, g, authorization, header)
      PROVE  KeysInv'
  <2>1. PICK s \in _extract_api_key(authorization, header) :
          caller' = [caller EXCEPT ![r] =
            [phase |-> IF s = Configured(g) THEN "accepted" ELSE "begun",
             for |-> g, secret |-> s, now |-> keyClock]]
    BY <1>2 DEF CallBegin, _candidate
  <2>2. caller'[r] = [phase |-> IF s = Configured(g) THEN "accepted" ELSE "begun",
                      for |-> g, secret |-> s, now |-> keyClock]
    BY <1>0, <2>1 DEF AccessTypes
  <2>3. \A q \in Callers \ {r} : caller'[q] = caller[q]
    BY <1>0, <2>1 DEF AccessTypes
  <2>4. caller'[r].phase # "read"
    BY <2>2
  <2>5. caller'[r].phase = "accepted" => caller'[r].secret = Configured(caller'[r].for)
    BY <2>2
  <2>. QED
    BY <1>0, <2>3, <2>4, <2>5, OneCaller
<1>3. ASSUME NEW r \in Callers, authenticate(r)
      PROVE  KeysInv'
  <2>. DEFINE found == {k \in Matches(caller[r].secret, caller[r].for) :
                          _is_active(apiKeys[k], caller[r].now)}
  <2>1. caller[r] \in Presented
    BY <1>0, <1>3 DEF authenticate, AccessTypes, CallerStates, RowRead, IdleCaller
  <2>2. \A q \in Callers \ {r} : caller'[q] = caller[q]
    BY <1>0, <1>3 DEF authenticate, AccessTypes
  <2>3. CASE found = {}
    <3>1. caller'[r] = [caller[r] EXCEPT !.phase = "refused"]
      BY <1>0, <1>3, <2>3 DEF authenticate, AccessTypes
    <3>2. caller'[r].phase = "refused"
      BY <2>1, <3>1 DEF Presented
    <3>. QED
      BY <1>0, <2>2, <3>2, OneCaller
  <2>4. CASE found # {}
    <3>1. caller'[r] =
            [phase |-> "read", for |-> caller[r].for, secret |-> caller[r].secret,
             now |-> caller[r].now, bound |-> apiKeys[caller[r].secret.id].worker]
      BY <1>0, <1>3, <2>4 DEF authenticate, AccessTypes
    <3>2. ASSUME _require_worker_identity(caller'[r].bound, caller'[r].for.worker)
          PROVE  fit'[r]
      <4>1. PICK k \in Matches(caller[r].secret, caller[r].for) :
              _is_active(apiKeys[k], caller[r].now)
        BY <2>4
      <4>2. k \in KeyIds /\ k = caller[r].secret.id
        BY <1>0, <2>1, <4>1, MatchType DEF Presented, AccessTypes
      <4>3. apiKeys[k].worker \in {NoWorkerId, caller[r].for.worker}
        BY <3>1, <3>2, <4>2 DEF _require_worker_identity
      <4>4. /\ k \in Matches(caller[r].secret, caller[r].for)'
            /\ caller'[r].now = caller[r].now /\ caller'[r].for = caller[r].for
            /\ apiKeys' = apiKeys
        BY <1>3, <3>1, <4>1 DEF authenticate, Matches, KeyRows, KindOf
      <4>5. caller'[r] # IdleCaller
        BY <3>1 DEF IdleCaller
      <4>6. Usable(r)'
        BY <4>1, <4>3, <4>4, <4>5 DEF Usable, _is_active
      <4>. QED
        BY <4>5, <4>6 DEF Witnessed
    <3>3. caller'[r].phase = "read"
      BY <3>1
    <3>. QED
      BY <1>0, <2>2, <3>2, <3>3, OneCaller
  <2>. QED
    BY <2>3, <2>4
<1>4. ASSUME NEW r \in Callers, CallEnd(r)
      PROVE  KeysInv'
  <2>1. caller[r] \in RowRead
    BY <1>0, <1>4 DEF CallEnd, AccessTypes, CallerStates, Presented, IdleCaller
  <2>2. \A q \in Callers \ {r} : caller'[q] = caller[q]
    BY <1>0, <1>4 DEF CallEnd, AccessTypes
  <2>3. caller'[r] =
          [phase |->
             IF apiKeys[caller[r].secret.id] = NoApiKey THEN Unavailable(caller[r].for)
             ELSE IF _require_worker_identity(caller[r].bound, caller[r].for.worker)
                    THEN "accepted" ELSE "refused",
           for |-> caller[r].for, secret |-> caller[r].secret, now |-> caller[r].now]
    BY <1>0, <1>4 DEF CallEnd, AccessTypes
  <2>4. caller'[r].phase # "read"
    BY <2>3 DEF Unavailable
  <2>5. ASSUME caller'[r].phase = "accepted"
        PROVE  fit'[r]
    <3>1. _require_worker_identity(caller[r].bound, caller[r].for.worker)
      BY <2>3, <2>5 DEF Unavailable
    <3>2. fit[r]
      BY <1>4, <3>1 DEF CallEnd, KeysInv, ReadersFit
    <3>3. caller'[r] # IdleCaller
      BY <2>5 DEF IdleCaller
    <3>. QED
      BY <3>2, <3>3, FitStays
  <2>. QED
    BY <1>0, <2>2, <2>4, <2>5, OneCaller
<1>. QED
  BY <1>1, <1>2, <1>3, <1>4
  DEF KeyStep, create, AdminBegin, AdminWrite, AdminCommit, AdminAbort, KeyTick

(* The invariant of the key store and of the requests that present a key.  *)
THEOREM KeysInvariance == KeysSpec => []KeysInv
<1>1. KeysInv /\ [KeysNext]_keyVars => KeysInv'
  <2>1. KeysInv /\ KeysNext => KeysInv'
    BY KeysStep DEF KeysNext
  <2>2. KeysInv /\ UNCHANGED keyVars => KeysInv'
    BY DEF KeysInv, AccessTypes, KeysTypeOK, ReadersFit, OnlyLiveKeysAreAccepted, keyVars,
           Configured, _require_worker_identity
  <2>. QED
    BY <2>1, <2>2
<1>. QED
  BY KeysInitInv, <1>1, PTL DEF KeysSpec

(* ApiKeyService.authenticate and the middleware let a request in only     *)
(* with a configured key of its kind, or with a secret that was the        *)
(* present one of an enabled, unexpired key of the right kind and worker   *)
(* at some moment of the request, whatever management requests, however    *)
(* many of them, are in flight.                                            *)
THEOREM Live == KeysSpec => []OnlyLiveKeysAreAccepted
<1>1. KeysInv => OnlyLiveKeysAreAccepted
  BY DEF KeysInv
<1>. QED
  BY KeysInvariance, <1>1, PTL

(* The rows stay rows: rotations stay within their bound and no request    *)
(* writes anything else into the table.                                    *)
THEOREM KeysTypes == KeysSpec => []KeysTypeOK
<1>1. KeysInv => KeysTypeOK
  BY DEF KeysInv, AccessTypes
<1>. QED
  BY KeysInvariance, <1>1, PTL

(* What a management request is about to commit.  If it takes an active    *)
(* ordinary key out of use, another one has been counted and is still      *)
(* there: with no other management request in flight, keys are only added. *)
WriteCounted(a) ==
  admin[a].phase = "writing" =>
    LET k == admin[a].id
        written == admin[a].row
    IN /\ apiKeys[k].state = "row"
       /\ written.state = "row" => written.kind = apiKeys[k].kind
       /\ \/ apiKeys[k].kind # "ordinary" \/ ~_is_active(apiKeys[k], admin[a].now)
          \/ written.state = "row" /\ _is_active(written, admin[a].now)
          \/ Others(k, admin[a].now) # {}

AtMostOneAdmin == \A a, b \in Admins : a = b

(* A row that is written keeps its kind, and stays active unless the other *)
(* keys were counted.                                                      *)
LEMMA WrittenCounted ==
  ASSUME NEW row \in ApiKeyRows, NEW c \in Changes, NEW time \in 1..MaxKeyTime,
         c.op = "rotate" => row.generation < MaxGeneration,
         ~Deactivates(row, c, time)
  PROVE  /\ Written(row, c).state = "row" => Written(row, c).kind = row.kind
         /\ \/ row.kind # "ordinary" \/ ~_is_active(row, time)
            \/ Written(row, c).state = "row" /\ _is_active(Written(row, c), time)
<1>1. CASE c.op = "update"
  BY <1>1 DEF Written, update, ApiKeyRows, Deactivates
<1>2. CASE c.op = "rotate"
  BY <1>2 DEF Written, rotate, ApiKeyRows, _is_active
<1>3. CASE c.op = "delete"
  BY <1>3 DEF Written, NoApiKey, Deactivates
<1> QED BY <1>1, <1>2, <1>3 DEF Changes

LEMMA WrittenKind ==
  ASSUME NEW row \in ApiKeyRows, NEW c \in Changes
  PROVE  Written(row, c).state = "row" => Written(row, c).kind = row.kind
<1>1. CASE c.op = "update"
  BY <1>1 DEF Written, update, ApiKeyRows
<1>2. CASE c.op = "rotate"
  BY <1>2 DEF Written, rotate, ApiKeyRows
<1>3. CASE c.op = "delete"
  BY <1>3 DEF Written, NoApiKey
<1> QED BY <1>1, <1>2, <1>3 DEF Changes

LEMMA CountedStep ==
  ASSUME AtMostOneAdmin, NEW a \in Admins, AccessTypes, WriteCounted(a), KeyStep
  PROVE  WriteCounted(a)'
<1>0. /\ apiKeys \in [KeyIds -> ApiKeyRows \cup {NoApiKey}]
      /\ admin \in [Admins -> AdminStates]
  BY DEF AccessTypes, KeysTypeOK
<1>1. ASSUME UNCHANGED <<apiKeys, admin>>
      PROVE  WriteCounted(a)'
  BY <1>1 DEF WriteCounted, Others, KeyRows
<1>2. CASE \E k \in KeyIds, kind \in Kinds, worker \in KeyWorkers \cup {NoWorkerId},
              expires \in Expiries : create(k, kind, worker, expires)
  <2>0. PICK k \in KeyIds : /\ apiKeys[k] = NoApiKey /\ admin' = admin
                            /\ \E row : apiKeys' = [apiKeys EXCEPT ![k] = row]
    BY <1>2 DEF create
  <2>1. PICK row : /\ apiKeys[k] = NoApiKey /\ admin' = admin
                   /\ apiKeys' = [apiKeys EXCEPT ![k] = row]
    BY <2>0
  <2>2. \A j \in KeyIds : apiKeys[j].state = "row" => apiKeys'[j] = apiKeys[j]
    BY <1>0, <2>1 DEF NoApiKey
  <2> SUFFICES ASSUME admin[a].phase = "writing"
               PROVE  WriteCounted(a)'
    BY <2>1 DEF WriteCounted
  <2>3. /\ admin[a].id \in KeyIds /\ apiKeys[admin[a].id].state = "row"
    BY <1>0 DEF AdminStates, IdleAdmin, WriteCounted
  <2>4. apiKeys'[admin[a].id] = apiKeys[admin[a].id]
    BY <2>2, <2>3
  <2>5. Others(admin[a].id, admin[a].now) \subseteq Others(admin[a].id, admin[a].now)'
    BY <2>1, <2>2 DEF Others, KeyRows
  <2> QED BY <2>1, <2>3, <2>4, <2>5 DEF WriteCounted
<1>3. CASE \E b \in Admins, k \in KeyIds, c \in Changes : AdminBegin(b, k, c)
  <2>1. PICK k, c : admin' = [admin EXCEPT ![a] =
                      [phase |-> "begun", id |-> k, change |-> c, now |-> keyClock]]
    BY <1>3 DEF AdminBegin, AtMostOneAdmin
  <2>2. admin'[a].phase = "begun"
    BY <1>0, <2>1
  <2> QED BY <2>2 DEF WriteCounted
<1>4. CASE \E b \in Admins : AdminCommit(b) \/ AdminAbort(b)
  <2>1. admin' = [admin EXCEPT ![a] = IdleAdmin]
    BY <1>4 DEF AdminCommit, AdminAbort, AtMostOneAdmin
  <2>2. admin'[a].phase = "idle"
    BY <1>0, <2>1 DEF IdleAdmin
  <2> QED BY <2>2 DEF WriteCounted
<1>5. CASE \E b \in Admins : AdminWrite(b)
  <2>1. AdminWrite(a)
    BY <1>5 DEF AtMostOneAdmin
  <2> DEFINE row == apiKeys[admin[a].id]
             c == admin[a].change
  <2>2. /\ admin[a].id \in KeyIds /\ c \in Changes /\ admin[a].now \in 1..MaxKeyTime
    BY <1>0, <2>1 DEF AdminWrite, AdminStates, IdleAdmin
  <2>3. CASE admin' = [admin EXCEPT ![a] = IdleAdmin]
    <3>1. admin'[a].phase = "idle"
      BY <1>0, <2>3 DEF IdleAdmin
    <3> QED BY <3>1 DEF WriteCounted
  <2>4. CASE /\ row # NoApiKey
             /\ ~Deactivates(row, c, admin[a].now)
                  \/ _require_another_active_key(admin[a].id, admin[a].now)
             /\ c.op = "rotate" => row.generation < MaxGeneration
             /\ admin' = [admin EXCEPT ![a] =
                    [phase |-> "writing", id |-> @.id, now |-> @.now,
                     row |-> Written(row, c)]]
    <3>1. /\ admin'[a].id = admin[a].id /\ admin'[a].now = admin[a].now
          /\ admin'[a].row = Written(row, c) /\ apiKeys' = apiKeys
      BY <1>0, <2>1, <2>4 DEF AdminWrite
    <3>2. row \in ApiKeyRows /\ row.state = "row"
      BY <1>0, <2>2, <2>4 DEF ApiKeyRows
    <3>3. Written(row, c).state = "row" => Written(row, c).kind = row.kind
      BY <2>2, <3>2, WrittenKind
    <3>4. \/ row.kind # "ordinary" \/ ~_is_active(row, admin[a].now)
          \/ /\ Written(row, c).state = "row"
             /\ _is_active(Written(row, c), admin[a].now)
          \/ Others(admin[a].id, admin[a].now) # {}
      BY <2>2, <2>4, <3>2, WrittenCounted DEF _require_another_active_key
    <3> HIDE DEF row, c
    <3>5. Others(admin[a].id, admin[a].now)' = Others(admin[a].id, admin[a].now)
      BY <3>1 DEF Others, KeyRows
    <3> QED BY <3>1, <3>2, <3>3, <3>4, <3>5 DEF WriteCounted, row
  <2> QED BY <2>1, <2>3, <2>4 DEF AdminWrite
<1>6. CASE \E r \in Callers, g \in Gates, authorization \in Authorizations,
              header \in HeaderKeys : CallBegin(r, g, authorization, header)
  BY <1>1, <1>6 DEF CallBegin
<1>7. CASE \E r \in Callers : authenticate(r) \/ CallEnd(r)
  BY <1>1, <1>7 DEF authenticate, CallEnd
<1>8. CASE KeyTick
  BY <1>1, <1>8 DEF KeyTick
<1> QED BY <1>2, <1>3, <1>4, <1>5, <1>6, <1>7, <1>8 DEF KeyStep

(* As long as at most one management request is in flight no commit takes  *)
(* away the last active ordinary key (update, delete): what was counted is *)
(* still there when the change is committed.                               *)
THEOREM LastKey ==
  ASSUME AtMostOneAdmin
  PROVE  KeysSpec => LastKeyIsProtected
<1> DEFINE Counted == \A a \in Admins : WriteCounted(a)
           Kept == \A a \in Admins :
             AdminCommit(a) /\ admin[a].now = keyClock /\ Active(keyClock) # {}
             => Active(keyClock)' # {}
<1>1. KeysInit => Counted
  BY DEF KeysInit, WriteCounted, IdleAdmin
<1>2. KeysInv /\ Counted /\ [KeysNext]_keyVars => Counted'
  <2>1. ASSUME KeysInv, Counted, KeysNext PROVE Counted'
    BY <2>1, CountedStep DEF KeysInv, KeysNext
  <2>2. ASSUME Counted, UNCHANGED keyVars PROVE Counted'
    BY <2>2 DEF keyVars, WriteCounted, Others, KeyRows
  <2> QED BY <2>1, <2>2
<1>3. KeysInv /\ Counted /\ [KeysNext]_keyVars => [Kept]_keyVars
  <2> SUFFICES ASSUME KeysInv, Counted, NEW a \in Admins, AdminCommit(a),
                      admin[a].now = keyClock, Active(keyClock) # {}
               PROVE  Active(keyClock)' # {}
    OBVIOUS
  <2> DEFINE k == admin[a].id
             written == admin[a].row
  <2>1. /\ k \in KeyIds /\ keyClock' = keyClock
        /\ apiKeys' = [apiKeys EXCEPT ![k] = written]
        /\ apiKeys \in [KeyIds -> ApiKeyRows \cup {NoApiKey}]
    BY DEF AdminCommit, KeysInv, AccessTypes, KeysTypeOK, AdminStates, IdleAdmin
  <2>2. /\ apiKeys[k].state = "row"
        /\ written.state = "row" => written.kind = apiKeys[k].kind
        /\ \/ apiKeys[k].kind # "ordinary" \/ ~_is_active(apiKeys[k], keyClock)
           \/ written.state = "row" /\ _is_active(written, keyClock)
           \/ Others(k, keyClock) # {}
    BY DEF WriteCounted, AdminCommit
  <2> HIDE DEF k, written
  <2>3. apiKeys'[k] = written /\ \A j \in KeyIds \ {k} : apiKeys'[j] = apiKeys[j]
    BY <2>1
  <2>4. CASE \E j \in KeyIds \ {k} : j \in Active(keyClock)
    <3>1. PICK j \in KeyIds \ {k} : j \in Active(keyClock)
      BY <2>4
    <3>2. j \in Active(keyClock)'
      BY <2>1, <2>3, <3>1 DEF Active, KeyRows
    <3> QED BY <3>2
  <2>5. CASE ~\E j \in KeyIds \ {k} : j \in Active(keyClock)
    <3>1. k \in Active(keyClock)
      BY <2>5 DEF Active, KeyRows
    <3>2. Others(k, keyClock) = {}
      BY <2>5 DEF Others, Active, KeyRows
    <3>3. /\ written.state = "row" /\ written.kind = "ordinary"
          /\ _is_active(written, keyClock)
      BY <2>2, <3>1, <3>2 DEF Active
    <3>4. k \in Active(keyClock)'
      BY <2>1, <2>3, <3>3 DEF Active, KeyRows
    <3> QED BY <3>4
  <2> QED BY <2>4, <2>5
<1> QED BY <1>1, <1>2, <1>3, KeysInvariance, PTL DEF KeysSpec, LastKeyIsProtected

-----------------------------------------------------------------------------
(* Creating and routing tasks.  The answers of two requests with one key   *)
(* agree because a task with a number comes from the request with that     *)
(* number alone (Born), its key is held by no other task (KeysApart), and  *)
(* a request that met the unique index finds the holder of its key when it *)
(* asks again (AgainFinds).                                                *)

IsTaskRow(row) ==
  row \in [status : {row.status}, key : {row.key}, request : {row.request},
           stages : {row.stages}, pipeline : {row.pipeline}]

IsCreation(c) ==
  c \in [state : {c.state}, key : {c.key}, request : {c.request}, task : {c.task}]

RoutingTypes ==
  /\ task = [t \in Tasks |-> task[t]] /\ client = [t \in Tasks |-> client[t]]
  /\ \A t \in Tasks : IsTaskRow(task[t]) /\ IsCreation(client[t])

Born ==
  \A t \in Tasks :
    /\ task[t].status # "none" => client[t].state = "answered" /\ client[t].task = t
    /\ task[t].status = "none" => task[t].stages = << >>

KeysApart ==
  \A t, u \in Tasks :
    /\ task[t].status # "none" /\ task[u].status # "none"
    /\ task[t].key = task[u].key /\ task[t].key # None
    => t = u

AgainFinds ==
  \A t \in Tasks : client[t].state = "again" =>
    client[t].key # None /\ Holders(client[t].key) # {}

RoutingInv == RoutingTypes /\ Born /\ KeysApart /\ AgainFinds /\ AnswersAgree

LEMMA RoutingInitInv == Init => RoutingInv
<1> SUFFICES ASSUME Init PROVE RoutingInv
  OBVIOUS
<1>1. \A t \in Tasks : task[t] = NoRow /\ client[t] = NoRequest
  BY DEF Init
<1>2. RoutingTypes
  BY <1>1 DEF RoutingTypes, Init, IsTaskRow, IsCreation, NoRow, NoRequest
<1>3. \A t \in Tasks : /\ task[t].status = "none" /\ task[t].stages = << >>
                       /\ client[t].state = "idle"
  BY <1>1 DEF NoRow, NoRequest
<1> QED BY <1>2, <1>3 DEF RoutingInv, Born, KeysApart, AgainFinds, AnswersAgree

(* Only the holder of a key is found under it. *)
LEMMA HolderAlone ==
  ASSUME RoutingInv, NEW key, key # None, NEW h \in Holders(key)
  PROVE  /\ h \in Tasks /\ task[h].status # "none" /\ task[h].key = key
         /\ Holders(key) = {h}
  BY DEF RoutingInv, KeysApart, Holders

(* Changes of rows and requests, field by field. *)
LEMMA Asked ==
  ASSUME NEW key, NEW request
  PROVE  /\ IsCreation([NoRequest EXCEPT !.key = key, !.request = request])
         /\ [NoRequest EXCEPT !.key = key, !.request = request].key = key
<1>1. IsCreation(NoRequest)
  BY DEF IsCreation, NoRequest
<1> QED BY <1>1 DEF IsCreation

LEMMA NewTask ==
  ASSUME NEW c, NEW id
  PROVE  /\ IsTaskRow(NewRow(c)) /\ NewRow(c).status = "pending"
         /\ NewRow(c).key = c.key /\ NewRow(c).request = c.request
         /\ IsTaskRow([NewRow(c) EXCEPT !.pipeline = id])
         /\ [NewRow(c) EXCEPT !.pipeline = id].status = "pending"
         /\ [NewRow(c) EXCEPT !.pipeline = id].key = c.key
         /\ [NewRow(c) EXCEPT !.pipeline = id].request = c.request
<1>1. IsTaskRow(NoRow)
  BY DEF IsTaskRow, NoRow
<1>2. /\ IsTaskRow(NewRow(c)) /\ NewRow(c).status = "pending"
      /\ NewRow(c).key = c.key /\ NewRow(c).request = c.request
  BY <1>1 DEF IsTaskRow, NewRow
<1> QED BY <1>2 DEF IsTaskRow

(* What is done to a task that exists leaves what was asked for alone. *)
LEMMA ExistingTaskMoves ==
  ASSUME RoutingInv, NEW t \in Tasks, task[t].status # "none",
         NEW row, IsTaskRow(row), row.status # "none",
         row.key = task[t].key, row.request = task[t].request,
         task' = [task EXCEPT ![t] = row], client' = client
  PROVE  RoutingInv'
<1> USE DEF RoutingInv
<1>1. /\ task' = [u \in Tasks |-> task'[u]] /\ task'[t] = row
      /\ \A u \in Tasks \ {t} : task'[u] = task[u]
  BY DEF RoutingTypes
<1>2. \A u \in Tasks : /\ task'[u].status # "none" <=> task[u].status # "none"
                       /\ task'[u].key = task[u].key
                       /\ task'[u].request = task[u].request
  BY <1>1
<1>3. RoutingTypes'
  BY <1>1 DEF RoutingTypes
<1>4. Born'
  BY <1>1, <1>2 DEF Born
<1>5. KeysApart'
  BY <1>2 DEF KeysApart
<1>6. \A key : Holders(key)' = Holders(key)
  BY <1>2 DEF Holders
<1>7. AgainFinds'
  BY <1>2 DEF AgainFinds, Holders
<1>8. AnswersAgree'
  BY <1>2 DEF AnswersAgree, Holders
<1> QED BY <1>3, <1>4, <1>5, <1>7, <1>8

(* A request that has made no task goes on. *)
LEMMA CreationMoves ==
  ASSUME RoutingInv, NEW t \in Tasks, task[t].status = "none",
         NEW c, IsCreation(c), task' = task, client' = [client EXCEPT ![t] = c],
         c.state = "again" => c.key # None /\ Holders(c.key) # {},
         c.state = "answered" =>
           /\ c.task \in Tasks /\ task[c.task].status # "none"
           /\ task[c.task].request = c.request
           /\ c.key # None => Holders(c.key) = {c.task}
  PROVE  RoutingInv'
<1> USE DEF RoutingInv
<1>1. /\ client' = [u \in Tasks |-> client'[u]] /\ client'[t] = c
      /\ \A u \in Tasks \ {t} : client'[u] = client[u]
  BY DEF RoutingTypes
<1>3. RoutingTypes'
  BY <1>1 DEF RoutingTypes
<1>4. Born'
  BY <1>1 DEF Born
<1>5. KeysApart'
  BY DEF KeysApart
<1>7. AgainFinds'
  BY <1>1 DEF AgainFinds, Holders
<1>8. AnswersAgree'
  BY <1>1 DEF AnswersAgree, Holders
<1> QED BY <1>3, <1>4, <1>5, <1>7, <1>8

(* A request makes its task, under a key that no other task has. *)
LEMMA TaskMade ==
  ASSUME RoutingInv, NEW t \in Tasks, task[t].status = "none",
         NEW row, IsTaskRow(row), row.status = "pending",
         NEW c, IsCreation(c), c.state = "answered", c.task = t,
         c.key = row.key, c.request = row.request,
         c.key # None => Holders(c.key) = {},
         task' = [task EXCEPT ![t] = row], client' = [client EXCEPT ![t] = c]
  PROVE  RoutingInv'
<1> USE DEF RoutingInv
<1>1. /\ client' = [u \in Tasks |-> client'[u]] /\ client'[t] = c
      /\ \A u \in Tasks \ {t} : client'[u] = client[u]
      /\ task' = [u \in Tasks |-> task'[u]] /\ task'[t] = row
      /\ \A u \in Tasks \ {t} : task'[u] = task[u]
  BY DEF RoutingTypes
<1>2. RoutingTypes'
  BY <1>1 DEF RoutingTypes
<1>3. Born'
  BY <1>1 DEF Born
<1>4. \A u \in Tasks \ {t} : task[u].status # "none" /\ c.key # None => task[u].key # c.key
  BY DEF Holders
<1>5. KeysApart'
  BY <1>1, <1>4 DEF KeysApart
<1>6. \A u \in Tasks : task[u].status # "none" => u # t
  OBVIOUS
<1>7. AgainFinds'
  <2> SUFFICES ASSUME NEW u \in Tasks, client'[u].state = "again"
               PROVE  client'[u].key # None /\ Holders(client[u].key)' # {}
    BY DEF AgainFinds
  <2>1. u # t /\ client'[u] = client[u]
    BY <1>1
  <2>2. PICK h \in Tasks : task[h].status # "none" /\ task[h].key = client[u].key
    BY <2>1 DEF AgainFinds, Holders
  <2>3. task'[h] = task[h]
    BY <1>1, <1>6, <2>2
  <2> QED BY <2>1, <2>2, <2>3 DEF AgainFinds, Holders
<1>8. AnswersAgree'
  <2> SUFFICES ASSUME NEW u \in Tasks, client'[u].state = "answered"
               PROVE  /\ client'[u].task \in Tasks
                      /\ task'[client'[u].task].status # "none"
                      /\ task'[client'[u].task].request = client'[u].request
                      /\ client'[u].key # None =>
                           Holders(client[u].key)' = {client'[u].task}
    BY DEF AnswersAgree
  <2>1. CASE u = t
    BY <1>1, <1>4, <2>1 DEF Holders
  <2>2. CASE u # t
    <3>1. /\ client'[u] = client[u] /\ client[u].task \in Tasks
          /\ task[client[u].task].status # "none"
          /\ task[client[u].task].request = client[u].request
          /\ client[u].key # None => Holders(client[u].key) = {client[u].task}
      BY <1>1, <2>2 DEF AnswersAgree
    <3>2. task'[client[u].task] = task[client[u].task]
      BY <1>1, <1>6, <3>1
    <3>3. client[u].key # None => client[u].key # c.key
      BY <3>1
    <3>4. client[u].key # None => Holders(client[u].key)' = Holders(client[u].key)
      BY <1>1, <3>1, <3>3 DEF Holders
    <3> QED BY <3>1, <3>2, <3>4
  <2> QED BY <2>1, <2>2
<1> QED BY <1>2, <1>3, <1>5, <1>7, <1>8

LEMMA PlannedRow ==
  ASSUME NEW row, IsTaskRow(row), NEW allow_unpublished,
         NEW planned \in Planned(row, allow_unpublished)
  PROVE  /\ IsTaskRow(planned) /\ planned.status = row.status
         /\ planned.key = row.key /\ planned.request = row.request
<1>1. PICK stages, id : planned = [row EXCEPT !.stages = stages, !.pipeline = id]
  BY DEF Planned
<1> QED BY <1>1 DEF IsTaskRow

(* route, of a task or of a number that is none. *)
LEMMA RouteStep ==
  ASSUME RoutingInv, NEW t, route(t), client' = client
  PROVE  RoutingInv'
<1>1. CASE task' = task
  BY <1>1 DEF RoutingInv, RoutingTypes, Born, KeysApart, AgainFinds, AnswersAgree, Holders
<1>2. CASE t \in Tasks /\ task' # task
  <2>1. task[t].status = "pending" /\ IsTaskRow(task[t])
    BY <1>2 DEF route, Waiting, RoutingInv, RoutingTypes
  <2>2. PICK row \in Planned(task[t], FALSE) : task' = [task EXCEPT ![t] = row]
    BY <1>2 DEF route
  <2> QED BY <1>2, <2>1, <2>2, PlannedRow, ExistingTaskMoves
<1>3. CASE t \notin Tasks
  <2>1. task' = task
    BY <1>3 DEF route, RoutingInv, RoutingTypes
  <2> QED BY <1>1, <2>1
<1> QED BY <1>1, <1>2, <1>3

LEMMA LeaveStep ==
  ASSUME RoutingInv, NEW t \in Tasks, lease(t) \/ cancel(t) \/ retry(t)
  PROVE  RoutingInv'
<1>1. PICK status \in {"leased", "cancelled", "pending"} :
        task' = [task EXCEPT ![t].status = status]
  BY DEF lease, cancel, retry, Leave
<1>2. task[t].status # "none" /\ client' = client
  BY DEF lease, cancel, retry, Leave
<1> DEFINE row == [task[t] EXCEPT !.status = status]
<1>3. IsTaskRow(task[t])
  BY DEF RoutingInv, RoutingTypes
<1>4. /\ IsTaskRow(row) /\ row.status # "none" /\ row.key = task[t].key
      /\ row.request = task[t].request
  BY <1>3 DEF IsTaskRow
<1>5. task' = [task EXCEPT ![t] = row]
  BY <1>1
<1> HIDE DEF row
<1> QED BY <1>2, <1>4, <1>5, ExistingTaskMoves

(* The answer to a request whose key is held by a task. *)
LEMMA ExistingAnswer ==
  ASSUME RoutingInv, NEW c, IsCreation(c), c.key # None, NEW h \in Holders(c.key)
  PROVE  /\ IsCreation(Existing(c, h)) /\ Existing(c, h).state # "again"
         /\ Existing(c, h).state = "answered" =>
              /\ Existing(c, h).task \in Tasks
              /\ task[Existing(c, h).task].status # "none"
              /\ task[Existing(c, h).task].request = Existing(c, h).request
              /\ Existing(c, h).key # None =>
                   Holders(Existing(c, h).key) = {Existing(c, h).task}
<1>1. h \in Tasks /\ task[h].status # "none" /\ Holders(c.key) = {h}
  BY HolderAlone
<1>2. CASE task[h].request = c.request
  <2>1. Existing(c, h) = [c EXCEPT !.state = "answered", !.task = h]
    BY <1>2 DEF Existing
  <2> QED BY <1>1, <1>2, <2>1 DEF IsCreation
<1>3. CASE task[h].request # c.request
  <2>1. Existing(c, h) = [c EXCEPT !.state = "conflict", !.task = NoTask]
    BY <1>3 DEF Existing
  <2> QED BY <2>1 DEF IsCreation
<1> QED BY <1>2, <1>3

(* A request that has not been answered has made no task. *)
LEMMA NoneYet ==
  ASSUME RoutingInv, NEW t \in Tasks, client[t].state # "answered"
  PROVE  task[t].status = "none" /\ task[t].stages = << >>
  BY DEF RoutingInv, Born

LEMMA BeginStep ==
  ASSUME RoutingInv, NEW t \in Tasks, NEW key, NEW request, CreateBegin(t, key, request)
  PROVE  RoutingInv'
<1> DEFINE asked == [NoRequest EXCEPT !.key = key, !.request = request]
<1>0. task[t].status = "none" /\ task' = task
  BY NoneYet DEF CreateBegin
<1>1. IsCreation(asked) /\ asked.key = key
  BY Asked
<1>2. CASE key # None /\ Holders(key) # {}
  <2> DEFINE h == CHOOSE u \in Holders(key) : TRUE
             c == Existing(asked, h)
  <2>1. h \in Holders(asked.key)
    BY <1>1, <1>2
  <2>2. client' = [client EXCEPT ![t] = c]
    BY <1>2 DEF CreateBegin
  <2> HIDE DEF h, asked
  <2>3. /\ IsCreation(c) /\ c.state # "again"
        /\ c.state = "answered" =>
             /\ c.task \in Tasks /\ task[c.task].status # "none"
             /\ task[c.task].request = c.request
             /\ c.key # None => Holders(c.key) = {c.task}
    BY <1>1, <1>2, <2>1, ExistingAnswer
  <2> HIDE DEF c
  <2> QED BY <1>0, <2>2, <2>3, CreationMoves
<1>3. CASE ~(key # None /\ Holders(key) # {})
  <2>1. PICK state \in {"creating", "refused"} :
          client' = [client EXCEPT ![t] = [asked EXCEPT !.state = state]]
    BY <1>3 DEF CreateBegin
  <2> DEFINE c == [asked EXCEPT !.state = state]
  <2>2. IsCreation(c) /\ c.state = state
    BY <1>1 DEF IsCreation
  <2>3. c.state \notin {"again", "answered"}
    BY <2>2
  <2> HIDE DEF c, asked
  <2> QED BY <1>0, <2>1, <2>2, <2>3, CreationMoves DEF c
<1> QED BY <1>2, <1>3

LEMMA CommitStep ==
  ASSUME RoutingInv, NEW t \in Tasks, CreateCommit(t)
  PROVE  RoutingInv'
<1>0. /\ task[t].status = "none" /\ client[t].state = "creating"
      /\ IsCreation(client[t])
  BY NoneYet DEF CreateCommit, RoutingInv, RoutingTypes
<1>1. CASE client[t].key # None /\ Holders(client[t].key) # {}
  <2> DEFINE c == [client[t] EXCEPT !.state = "again"]
  <2>1. client' = [client EXCEPT ![t] = c] /\ task' = task
    BY <1>1 DEF CreateCommit
  <2>2. IsCreation(c) /\ c.state = "again" /\ c.key = client[t].key
    BY <1>0 DEF IsCreation
  <2> HIDE DEF c
  <2> QED BY <1>0, <1>1, <2>1, <2>2, CreationMoves
<1>2. CASE ~(client[t].key # None /\ Holders(client[t].key) # {})
  <2> DEFINE new == NewRow(client[t])
             c == [client[t] EXCEPT !.state = "answered", !.task = t]
  <2>1. /\ IsTaskRow(new) /\ new.status = "pending" /\ new.key = client[t].key
        /\ new.request = client[t].request
    BY NewTask
  <2>2. PICK row \in {new} \cup Planned(new, FALSE) : task' = [task EXCEPT ![t] = row]
    BY <1>2 DEF CreateCommit, Insert
  <2>3. client' = [client EXCEPT ![t] = c]
    BY <1>2 DEF CreateCommit, Insert
  <2>4. /\ IsCreation(c) /\ c.state = "answered" /\ c.task = t
        /\ c.key = client[t].key /\ c.request = client[t].request
    BY <1>0 DEF IsCreation
  <2> HIDE DEF c, new
  <2>5. /\ IsTaskRow(row) /\ row.status = "pending" /\ row.key = client[t].key
        /\ row.request = client[t].request
    BY <2>1, <2>2, PlannedRow
  <2> QED BY <1>0, <1>2, <2>2, <2>3, <2>4, <2>5, TaskMade
<1> QED BY <1>1, <1>2

LEMMA AgainStep ==
  ASSUME RoutingInv, NEW t \in Tasks, CreateAgain(t)
  PROVE  RoutingInv'
<1> DEFINE h == CHOOSE u \in Holders(client[t].key) : TRUE
           c == Existing(client[t], h)
<1>1. /\ task[t].status = "none" /\ IsCreation(client[t])
      /\ client[t].key # None /\ Holders(client[t].key) # {}
  BY NoneYet DEF CreateAgain, RoutingInv, RoutingTypes, AgainFinds
<1>2. h \in Holders(client[t].key)
  BY <1>1
<1>3. client' = [client EXCEPT ![t] = c] /\ task' = task
  BY DEF CreateAgain
<1> HIDE DEF h
<1>4. /\ IsCreation(c) /\ c.state # "again"
      /\ c.state = "answered" =>
           /\ c.task \in Tasks /\ task[c.task].status # "none"
           /\ task[c.task].request = c.request
           /\ c.key # None => Holders(c.key) = {c.task}
  BY <1>1, <1>2, ExistingAnswer
<1> HIDE DEF c
<1> QED BY <1>1, <1>3, <1>4, CreationMoves

LEMMA FailsToCreate ==
  ASSUME RoutingInv, NEW t \in Tasks, CreateFails(t)
  PROVE  RoutingInv'
<1> DEFINE c == [client[t] EXCEPT !.state = "refused"]
<1>1. /\ task[t].status = "none" /\ IsCreation(client[t])
  BY NoneYet DEF CreateFails, RoutingInv, RoutingTypes
<1>2. client' = [client EXCEPT ![t] = c] /\ task' = task
  BY DEF CreateFails
<1>3. IsCreation(c) /\ c.state = "refused"
  BY <1>1 DEF IsCreation
<1> HIDE DEF c
<1> QED BY <1>1, <1>2, <1>3, CreationMoves

LEMMA TestStep ==
  ASSUME RoutingInv, NEW t \in Tasks, NEW p, NEW v, NEW request,
         test_pipeline(t, p, v, request)
  PROVE  RoutingInv'
<1> DEFINE asked == [request EXCEPT !.pipeline = <<p, v>>]
           new == [NewRow([key |-> None, request |-> asked]) EXCEPT !.pipeline = <<p, v>>]
           c == [state |-> "answered", key |-> None, request |-> asked, task |-> t]
<1>1. task[t].status = "none"
  BY NoneYet DEF test_pipeline
<1>2. PICK row \in Planned(new, TRUE) : task' = [task EXCEPT ![t] = row]
  BY DEF test_pipeline
<1>3. client' = [client EXCEPT ![t] = c]
  BY DEF test_pipeline
<1> HIDE DEF asked
<1>4. IsTaskRow(new) /\ new.status = "pending" /\ new.key = None /\ new.request = asked
  BY NewTask
<1>5. /\ IsCreation(c) /\ c.state = "answered" /\ c.task = t /\ c.key = None
      /\ c.request = asked
  BY DEF IsCreation
<1> HIDE DEF new, c
<1>6. IsTaskRow(row) /\ row.status = "pending" /\ row.key = None /\ row.request = asked
  BY <1>4, PlannedRow
<1> QED BY <1>1, <1>2, <1>3, <1>5, <1>6, TaskMade

LEMMA RoutingStep == RoutingInv /\ [Next]_vars => RoutingInv'
<1> SUFFICES ASSUME RoutingInv, [Next]_vars PROVE RoutingInv'
  OBVIOUS
<1>1. ASSUME task' = task, client' = client
      PROVE  RoutingInv'
  BY <1>1, ZenonT(40)
     DEF RoutingInv, RoutingTypes, Born, KeysApart, AgainFinds, AnswersAgree, Holders
<1>2. CASE RegistryNext
  <2>1. task' = task /\ client' = client
    BY <1>2 DEF RegistryNext, create_backend, update_backend, create_pipeline,
                PublishBegin, PublishSelect, PublishCommit, PublishFails,
                initialize_default_catalog
  <2> QED BY <1>1, <2>1
<1>3. CASE TaskNext
  <2>1. PICK t \in Tasks :
          \/ \E key \in Keys \cup {None}, request \in Requests :
                CreateBegin(t, key, request)
          \/ CreateCommit(t) \/ CreateAgain(t) \/ CreateFails(t)
          \/ \E p \in Pipelines, v \in Versions, request \in Requests :
                test_pipeline(t, p, v, request)
          \/ route_task(t) \/ lease(t) \/ cancel(t) \/ retry(t)
    BY <1>3 DEF TaskNext
  <2>2. CASE route_task(t)
    BY <2>2, RouteStep DEF route_task
  <2> QED BY <2>1, <2>2, BeginStep, CommitStep, AgainStep, FailsToCreate, TestStep,
             LeaveStep
<1>4. CASE LoopNext
  <2>1. CASE LoopStep
    BY <2>1, RouteStep DEF LoopStep
  <2>2. CASE LoopRead \/ LoopFails
    BY <1>1, <2>2 DEF LoopRead, LoopFails
  <2> QED BY <1>4, <2>1, <2>2 DEF LoopNext
<1>5. CASE UNCHANGED vars
  BY <1>1, <1>5 DEF vars
<1> QED BY <1>2, <1>3, <1>4, <1>5 DEF Next

(* The invariant of requests and tasks, for any tasks, keys, requests,     *)
(* registries and batches.                                                 *)
THEOREM RoutingInvariance == Spec => []RoutingInv
BY RoutingInitInv, RoutingStep, PTL DEF Spec

(* Requests that bear the same key get one task between them, and every    *)
(* answer names a task that exists and is what was asked for, however many *)
(* requests overlap (create_task's lookup, insert and IntegrityError path).*)
THEOREM KeyedAnswersAgree == Spec => []AnswersAgree
<1>1. RoutingInv => AnswersAgree
  BY DEF RoutingInv
<1> QED BY <1>1, RoutingInvariance, PTL

(* A task that has stages keeps them, and only a pending one is given any, *)
(* whatever list the routing loop has read and whoever else routes or      *)
(* retries (TaskRouter.route).                                             *)
THEOREM TasksRoutedOnce == Spec => RoutedOnce
<1> DEFINE Once ==
      \A t \in Tasks :
        /\ task[t].stages # << >> =>
             task'[t].stages = task[t].stages /\ task'[t].pipeline = task[t].pipeline
        /\ task[t].stages # task'[t].stages => task'[t].status = "pending"
<1>1. RoutingInv /\ [Next]_vars => [Once]_vars
  <2> SUFFICES ASSUME RoutingInv, Next PROVE Once
    OBVIOUS
  <2>1. ASSUME task' = task PROVE Once
    BY <2>1
  <2>2. ASSUME NEW t, NEW row, task' = [task EXCEPT ![t] = row],
               t \in Tasks => \/ task[t].stages = << >> /\ row.status = "pending"
                              \/ row.stages = task[t].stages /\ row.pipeline = task[t].pipeline
        PROVE  Once
    BY <2>2 DEF RoutingInv, RoutingTypes
  <2>3. ASSUME NEW t, route(t) PROVE Once
    <3>1. CASE task' = task
      BY <2>1, <3>1
    <3>2. CASE task' # task
      <4>1. PICK row \in Planned(task[t], FALSE) : task' = [task EXCEPT ![t] = row]
        BY <2>3, <3>2 DEF route
      <4>2. t \in Tasks => task[t].stages = << >> /\ row.status = "pending"
        <5> SUFFICES ASSUME t \in Tasks
                     PROVE  task[t].stages = << >> /\ row.status = "pending"
          OBVIOUS
        <5>1. IsTaskRow(task[t])
          BY DEF RoutingInv, RoutingTypes
        <5> QED BY <2>3, <3>2, <5>1, PlannedRow DEF route, Waiting
      <4> QED BY <2>2, <4>1, <4>2
    <3> QED BY <3>1, <3>2
  <2>4. CASE RegistryNext
    <3>1. task' = task
      BY <2>4 DEF RegistryNext, create_backend, update_backend, create_pipeline,
                  PublishBegin, PublishSelect, PublishCommit, PublishFails,
                  initialize_default_catalog
    <3> QED BY <2>1, <3>1
  <2>5. CASE LoopNext
    BY <2>1, <2>3, <2>5 DEF LoopNext, LoopRead, LoopStep, LoopFails
  <2>6. CASE TaskNext
    <3>1. PICK t \in Tasks :
            \/ \E key \in Keys \cup {None}, request \in Requests :
                  CreateBegin(t, key, request)
            \/ CreateCommit(t) \/ CreateAgain(t) \/ CreateFails(t)
            \/ \E p \in Pipelines, v \in Versions, request \in Requests :
                  test_pipeline(t, p, v, request)
            \/ route_task(t) \/ lease(t) \/ cancel(t) \/ retry(t)
      BY <2>6 DEF TaskNext
    <3>2. CASE \/ \E key \in Keys \cup {None}, request \in Requests :
                    CreateBegin(t, key, request)
               \/ CreateAgain(t) \/ CreateFails(t)
      BY <2>1, <3>2 DEF CreateBegin, CreateAgain, CreateFails
    <3>3. CASE CreateCommit(t)
      <4>1. task[t].stages = << >>
        BY <3>3, NoneYet DEF CreateCommit
      <4>2. CASE task' = task
        BY <2>1, <4>2
      <4>3. CASE task' # task
        <5> DEFINE new == NewRow(client[t])
        <5>1. IsTaskRow(new) /\ new.status = "pending"
          BY NewTask
        <5>2. PICK row \in {new} \cup Planned(new, FALSE) :
                task' = [task EXCEPT ![t] = row]
          BY <3>3, <4>3 DEF CreateCommit, Insert
        <5> HIDE DEF new
        <5>3. row.status = "pending"
          BY <5>1, <5>2, PlannedRow
        <5> QED BY <2>2, <4>1, <5>2, <5>3
      <4> QED BY <4>2, <4>3
    <3>4. CASE \E p \in Pipelines, v \in Versions, request \in Requests :
                 test_pipeline(t, p, v, request)
      <4>1. PICK p \in Pipelines, v \in Versions, request \in Requests :
              test_pipeline(t, p, v, request)
        BY <3>4
      <4>2. task[t].stages = << >>
        BY <4>1, NoneYet DEF test_pipeline
      <4> DEFINE asked == [request EXCEPT !.pipeline = <<p, v>>]
                 new == [NewRow([key |-> None, request |-> asked])
                           EXCEPT !.pipeline = <<p, v>>]
      <4>3. PICK row \in Planned(new, TRUE) : task' = [task EXCEPT ![t] = row]
        BY <4>1 DEF test_pipeline
      <4> HIDE DEF asked
      <4>4. IsTaskRow(new) /\ new.status = "pending"
        BY NewTask
      <4> HIDE DEF new
      <4>5. row.status = "pending"
        BY <4>3, <4>4, PlannedRow
      <4> QED BY <2>2, <4>2, <4>3, <4>5
    <3>5. CASE route_task(t)
      BY <2>3, <3>5 DEF route_task
    <3>6. CASE lease(t) \/ cancel(t) \/ retry(t)
      <4>1. PICK status : task' = [task EXCEPT ![t].status = status]
        BY <3>6 DEF lease, cancel, retry, Leave
      <4> DEFINE row == [task[t] EXCEPT !.status = status]
      <4>2. task' = [task EXCEPT ![t] = row]
        BY <4>1
      <4>3. row.stages = task[t].stages /\ row.pipeline = task[t].pipeline
        BY DEF RoutingInv, RoutingTypes, IsTaskRow
      <4> HIDE DEF row
      <4> QED BY <2>2, <4>2, <4>3
    <3> QED BY <3>1, <3>2, <3>3, <3>4, <3>5, <3>6
  <2> QED BY <2>4, <2>5, <2>6 DEF Next
<1> QED BY <1>1, RoutingInvariance, PTL DEF Spec, RoutedOnce

-----------------------------------------------------------------------------
(* The graphs of pipelines.  validate_dag is proved exact for every finite *)
(* graph: the search is a recursive function over what is left of it, so   *)
(* that such a function exists (SearchIsDefined) and what it returns       *)
(* (SearchSound, SearchComplete) follow by induction on a measure, stated  *)
(* with the set of what has the property (MeasureInduction).               *)

LEMMA LeastNatural ==
  ASSUME NEW T, T \subseteq Nat, T # {}
  PROVE  \E x \in T : \A y \in T : x <= y
<1> DEFINE R == OpToRel(<, Nat)
<1>1. IsWellFoundedOn(R, Nat)
  BY NatLessThanWellFounded
<1> HIDE DEF R
<1>2. PICK x \in T : \A y \in T : ~(<<y, x>> \in R)
  BY <1>1, WFMin
<1>3. \A y \in T : ~(y < x)
  BY <1>2 DEF R, OpToRel
<1> QED BY <1>3

(* Induction on a measure, with the set of what has the property. *)
LEMMA MeasureInduction ==
  ASSUME NEW S, NEW m \in [S -> Nat], NEW G,
         \A s \in S : (\A t \in S : m[t] < m[s] => t \in G) => s \in G
  PROVE  S \subseteq G
<1> SUFFICES ASSUME S \ G # {} PROVE FALSE
  OBVIOUS
<1> DEFINE T == {m[s] : s \in S \ G}
<1>1. T \subseteq Nat /\ T # {}
  OBVIOUS
<1>2. PICK x \in T : \A y \in T : x <= y
  BY <1>1, LeastNatural
<1>3. PICK s \in S \ G : x = m[s]
  BY <1>2
<1>4. \A t \in S : m[t] < m[s] => t \in G
  <2> SUFFICES ASSUME NEW t \in S, m[t] < m[s], t \notin G PROVE FALSE
    OBVIOUS
  <2>1. m[t] \in T
    OBVIOUS
  <2>2. m[s] <= m[t] /\ m[s] \in Nat /\ m[t] \in Nat
    BY <1>2, <1>3, <2>1
  <2> QED BY <2>2
<1> QED BY <1>3, <1>4

-----------------------------------------------------------------------------
(* Graphs whose dependencies are names of the graph. *)
IsGraph(graph) ==
  /\ IsFiniteSet(DOMAIN graph)
  /\ \A name \in DOMAIN graph : graph[name] \subseteq DOMAIN graph

Outcomes(names) == [ok : BOOLEAN, visited : SUBSET names]

(* What is left of a search: it goes down once per name at most, and on    *)
(* each level through a set of names.                                      *)
Left(names, search) ==
  Cardinality(names \ search.visiting) * (Cardinality(names) + 1)
    + Cardinality(search.todo)

Below(graph, name, search) ==
  [todo |-> graph[name], visiting |-> search.visiting \cup {name},
   visited |-> search.visited]

After(name, search, visited) ==
  [search EXCEPT !.todo = @ \ {name}, !.visited = visited]

LEMMA LeftType ==
  ASSUME NEW names, IsFiniteSet(names), NEW search \in Searches(names)
  PROVE  /\ Left(names, search) \in Nat
         /\ IsFiniteSet(search.todo) /\ IsFiniteSet(names \ search.visiting)
         /\ Cardinality(names \ search.visiting) \in Nat /\ Cardinality(names) \in Nat
         /\ Cardinality(search.todo) \in Nat
         /\ Cardinality(search.todo) <= Cardinality(names)
<1>1. search.todo \in SUBSET names /\ names \ search.visiting \in SUBSET names
  BY DEF Searches
<1>2. /\ IsFiniteSet(search.todo) /\ IsFiniteSet(names \ search.visiting)
      /\ Cardinality(search.todo) <= Cardinality(names)
  BY <1>1, FS_Subset
<1>3. /\ Cardinality(names \ search.visiting) \in Nat /\ Cardinality(names) \in Nat
      /\ Cardinality(search.todo) \in Nat
  BY <1>2, FS_CardinalityType
<1> DEFINE a == Cardinality(names \ search.visiting)
           b == Cardinality(names)
           c == Cardinality(search.todo)
<1>4. a * (b + 1) + c \in Nat
  <2>1. a \in Nat /\ b \in Nat /\ c \in Nat
    BY <1>3
  <2> HIDE DEF a, b, c
  <2> QED BY <2>1
<1> QED BY <1>2, <1>3, <1>4 DEF Left

LEMMA BelowIsLess ==
  ASSUME NEW graph, IsGraph(graph), NEW search \in Searches(DOMAIN graph),
         NEW name \in DOMAIN graph, name \notin search.visiting
  PROVE  /\ Below(graph, name, search) \in Searches(DOMAIN graph)
         /\ Left(DOMAIN graph, Below(graph, name, search)) < Left(DOMAIN graph, search)
<1> DEFINE names == DOMAIN graph
           low == Below(graph, name, search)
<1>1. low \in Searches(names)
  BY DEF Below, Searches, IsGraph
<1>2. /\ low.visiting = search.visiting \cup {name} /\ low.todo \subseteq names
  BY <1>1 DEF Below, Searches
<1>3. names \ low.visiting = (names \ search.visiting) \ {name}
  BY <1>2
<1>4. IsFiniteSet(names)
  BY DEF IsGraph
<1>5. Cardinality(names \ low.visiting) = Cardinality(names \ search.visiting) - 1
  <2> DEFINE open == names \ search.visiting
  <2>1. IsFiniteSet(open) /\ name \in open
    BY <1>4, LeftType
  <2>2. Cardinality(open \ {name}) = Cardinality(open) - 1
    <3> HIDE DEF open
    <3> QED BY <2>1, FS_RemoveElement
  <2> QED BY <1>3, <2>2
<1> DEFINE a == Cardinality(names \ search.visiting)
           b == Cardinality(names)
           c == Cardinality(search.todo)
           d == Cardinality(low.todo)
<1>6. /\ a \in Nat /\ b \in Nat /\ c \in Nat /\ d \in Nat /\ d <= b
  BY <1>1, <1>4, LeftType
<1>7. Left(names, low) = (a - 1) * (b + 1) + d /\ Left(names, search) = a * (b + 1) + c
  BY <1>5 DEF Left
<1>8. (a - 1) * (b + 1) + d < a * (b + 1) + c
  <2> HIDE DEF a, b, c, d
  <2>1. (a - 1) * (b + 1) = a * (b + 1) - (b + 1)
    BY <1>6
  <2>2. a * (b + 1) \in Int
    BY <1>6
  <2> QED BY <1>6, <2>1, <2>2
<1> QED BY <1>1, <1>7, <1>8

LEMMA AfterIsLess ==
  ASSUME NEW names, IsFiniteSet(names), NEW search \in Searches(names),
         NEW name \in search.todo, NEW visited \in SUBSET names
  PROVE  /\ After(name, search, visited) \in Searches(names)
         /\ Left(names, After(name, search, visited)) < Left(names, search)
<1> DEFINE next == After(name, search, visited)
<1>1. next \in Searches(names)
  BY DEF After, Searches
<1>2. next.visiting = search.visiting /\ next.todo = search.todo \ {name}
  BY DEF After, Searches
<1>3. Cardinality(next.todo) = Cardinality(search.todo) - 1
  <2>1. IsFiniteSet(search.todo)
    BY LeftType
  <2> QED BY <1>2, <2>1, FS_RemoveElement
<1> DEFINE a == Cardinality(names \ search.visiting)
           b == Cardinality(names)
           c == Cardinality(search.todo)
<1>4. a \in Nat /\ b \in Nat /\ c \in Nat
  BY LeftType
<1>5. Left(names, next) = a * (b + 1) + (c - 1) /\ Left(names, search) = a * (b + 1) + c
  BY <1>2, <1>3 DEF Left
<1>6. a * (b + 1) + (c - 1) < a * (b + 1) + c
  <2> HIDE DEF a, b, c
  <2>1. a * (b + 1) \in Int
    BY <1>4
  <2> QED BY <1>4, <2>1
<1> QED BY <1>1, <1>5, <1>6

-----------------------------------------------------------------------------
(* One step of the search, case by case. *)
LEMMA ExploredNothing ==
  ASSUME NEW graph, NEW outcome, NEW search, search.todo = {}
  PROVE  Explored(graph, outcome, search) = [ok |-> TRUE, visited |-> search.visited]
BY DEF Explored

LEMMA ExploredCycle ==
  ASSUME NEW graph, NEW outcome, NEW search, search.todo # {},
         Picked(search.todo) \in search.visiting
  PROVE  Explored(graph, outcome, search) = [ok |-> FALSE, visited |-> search.visited]
<1>1. visit(Picked(search.todo), search) = "cycle"
  BY DEF visit
<1> QED BY <1>1 DEF Explored

LEMMA ExploredVisited ==
  ASSUME NEW graph, NEW outcome, NEW search, search.todo # {},
         Picked(search.todo) \notin search.visiting,
         Picked(search.todo) \in search.visited
  PROVE  Explored(graph, outcome, search)
           = outcome[After(Picked(search.todo), search, search.visited)]
<1>1. visit(Picked(search.todo), search) = "visited"
  BY DEF visit
<1> QED BY <1>1 DEF Explored, After

LEMMA ExploredEntered ==
  ASSUME NEW graph, NEW outcome, NEW search, search.todo # {},
         Picked(search.todo) \notin search.visiting,
         Picked(search.todo) \notin search.visited
  PROVE  LET name == Picked(search.todo)
             below == outcome[Below(graph, name, search)]
         IN Explored(graph, outcome, search)
              = IF below.ok THEN outcome[After(name, search, below.visited \cup {name})]
                ELSE below
<1>1. visit(Picked(search.todo), search) = "entered"
  BY DEF visit
<1> QED BY <1>1 DEF Explored, After, Below

LEMMA ExploredType ==
  ASSUME NEW graph, IsGraph(graph),
         NEW outcome \in [Searches(DOMAIN graph) -> Outcomes(DOMAIN graph)],
         NEW search \in Searches(DOMAIN graph)
  PROVE  Explored(graph, outcome, search) \in Outcomes(DOMAIN graph)
<1> DEFINE names == DOMAIN graph
           name == Picked(search.todo)
<1>0. /\ search.todo \subseteq names /\ search.visited \subseteq names
      /\ IsFiniteSet(names)
      /\ search.todo # {} => name \in search.todo
  BY DEF Searches, IsGraph, Picked
<1> HIDE DEF name
<1>1. CASE search.todo = {}
  <2>1. Explored(graph, outcome, search) = [ok |-> TRUE, visited |-> search.visited]
    BY <1>1, ExploredNothing, Zenon
  <2> QED BY <1>0, <2>1 DEF Outcomes
<1>4. CASE search.todo # {} /\ name \in search.visiting
  <2>1. Explored(graph, outcome, search) = [ok |-> FALSE, visited |-> search.visited]
    BY <1>4, ExploredCycle, Zenon DEF name
  <2> QED BY <1>0, <2>1 DEF Outcomes
<1>2. CASE search.todo # {} /\ name \notin search.visiting /\ name \in search.visited
  <2>1. After(name, search, search.visited) \in Searches(names)
    BY <1>0, <1>2, AfterIsLess
  <2> QED BY <1>2, <2>1, ExploredVisited DEF name
<1>3. CASE search.todo # {} /\ name \notin search.visiting /\ name \notin search.visited
  <2> DEFINE below == outcome[Below(graph, name, search)]
  <2>1. Below(graph, name, search) \in Searches(names)
    BY <1>0, <1>3, BelowIsLess
  <2>2. below \in Outcomes(names) /\ below.visited \cup {name} \in SUBSET names
    BY <1>0, <1>3, <2>1 DEF Outcomes
  <2>3. After(name, search, below.visited \cup {name}) \in Searches(names)
    BY <1>0, <1>3, <2>2, AfterIsLess
  <2>4. Explored(graph, outcome, search)
          = IF below.ok THEN outcome[After(name, search, below.visited \cup {name})]
            ELSE below
    BY <1>3, ExploredEntered DEF name
  <2> HIDE DEF below
  <2> QED BY <2>2, <2>3, <2>4
<1> QED BY <1>1, <1>2, <1>3, <1>4

(* A step looks only at what is less. *)
LEMMA ExploredBelow ==
  ASSUME NEW graph, IsGraph(graph), NEW search \in Searches(DOMAIN graph),
         NEW f \in [Searches(DOMAIN graph) -> Outcomes(DOMAIN graph)],
         NEW g,
         \A s \in Searches(DOMAIN graph) :
           Left(DOMAIN graph, s) < Left(DOMAIN graph, search) => f[s] = g[s]
  PROVE  Explored(graph, f, search) = Explored(graph, g, search)
<1> DEFINE names == DOMAIN graph
           name == Picked(search.todo)
<1>0. /\ search.todo \subseteq names /\ search.visited \subseteq names
      /\ IsFiniteSet(names)
      /\ search.todo # {} => name \in search.todo
  BY DEF Searches, IsGraph, Picked
<1> HIDE DEF name
<1>1. CASE search.todo = {}
  <2>1. ASSUME NEW o PROVE Explored(graph, o, search)
                             = [ok |-> TRUE, visited |-> search.visited]
    BY <1>1, ExploredNothing, Zenon
  <2> QED BY <2>1
<1>4. CASE search.todo # {} /\ name \in search.visiting
  <2>1. ASSUME NEW o PROVE Explored(graph, o, search)
                             = [ok |-> FALSE, visited |-> search.visited]
    BY <1>4, ExploredCycle, Zenon DEF name
  <2> QED BY <2>1
<1>2. CASE search.todo # {} /\ name \notin search.visiting /\ name \in search.visited
  <2>1. f[After(name, search, search.visited)] = g[After(name, search, search.visited)]
    BY <1>0, <1>2, AfterIsLess
  <2> QED BY <1>2, <2>1, ExploredVisited DEF name
<1>3. CASE search.todo # {} /\ name \notin search.visiting /\ name \notin search.visited
  <2> DEFINE low == Below(graph, name, search)
             next == After(name, search, f[low].visited \cup {name})
  <2>1. low \in Searches(names) /\ f[low] = g[low]
    BY <1>0, <1>3, BelowIsLess
  <2>2. f[low].visited \cup {name} \in SUBSET names
    BY <1>0, <1>3, <2>1 DEF Outcomes
  <2>3. f[next] = g[next]
    BY <1>0, <1>3, <2>2, AfterIsLess
  <2>4. ASSUME NEW o PROVE Explored(graph, o, search)
          = IF o[low].ok THEN o[After(name, search, o[low].visited \cup {name})]
            ELSE o[low]
    BY <1>3, ExploredEntered DEF name
  <2> HIDE DEF low
  <2> QED BY <2>1, <2>3, <2>4
<1> QED BY <1>1, <1>2, <1>3, <1>4

-----------------------------------------------------------------------------
(* The search is defined: a function that explores as the code does exists, *)
(* one bound on what is left after the other.                              *)
Follows(graph, f, n) ==
  \A s \in Searches(DOMAIN graph) :
    Left(DOMAIN graph, s) < n => f[s] = Explored(graph, f, s)

LEMMA FollowsOneMore ==
  ASSUME NEW graph, IsGraph(graph), NEW n \in Nat,
         NEW f \in [Searches(DOMAIN graph) -> Outcomes(DOMAIN graph)],
         Follows(graph, f, n)
  PROVE  \E g \in [Searches(DOMAIN graph) -> Outcomes(DOMAIN graph)] :
           Follows(graph, g, n + 1)
<1> DEFINE S == Searches(DOMAIN graph)
           L(s) == Left(DOMAIN graph, s)
           g == [s \in S |-> IF L(s) < n + 1 THEN Explored(graph, f, s) ELSE f[s]]
<1>1. g \in [S -> Outcomes(DOMAIN graph)]
  BY ExploredType
<1>2. \A s \in S : L(s) \in Nat
  BY LeftType DEF IsGraph
<1>3. \A s \in S : L(s) < n => g[s] = f[s]
  BY <1>2 DEF Follows
<1>4. ASSUME NEW s \in S, L(s) < n + 1
      PROVE  g[s] = Explored(graph, g, s)
  <2>1. \A t \in S : L(t) < L(s) => f[t] = g[t]
    BY <1>2, <1>3, <1>4
  <2>2. Explored(graph, f, s) = Explored(graph, g, s)
    <3> HIDE DEF g
    <3> QED BY <1>1, <2>1, ExploredBelow
  <2>3. g[s] = Explored(graph, f, s)
    BY <1>4
  <2> QED BY <2>2, <2>3
<1>5. Follows(graph, g, n + 1)
  <2> HIDE DEF g
  <2> QED BY <1>4 DEF Follows
<1> HIDE DEF g
<1> QED BY <1>1, <1>5

LEMMA FollowsAny ==
  ASSUME NEW graph, IsGraph(graph), NEW n \in Nat
  PROVE  \E f \in [Searches(DOMAIN graph) -> Outcomes(DOMAIN graph)] :
           Follows(graph, f, n)
<1> DEFINE F == [Searches(DOMAIN graph) -> Outcomes(DOMAIN graph)]
           G == {k \in Nat : \E f \in F : Follows(graph, f, k)}
           m == [k \in Nat |-> k]
<1>1. m \in [Nat -> Nat]
  OBVIOUS
<1>2. ASSUME NEW k \in Nat, \A l \in Nat : m[l] < m[k] => l \in G
      PROVE  k \in G
  <2>1. CASE k = 0
    <3> DEFINE f == [s \in Searches(DOMAIN graph) |->
                       [ok |-> TRUE, visited |-> s.visited]]
    <3>1. f \in F
      BY DEF Outcomes, Searches
    <3>2. Follows(graph, f, 0)
      <4>1. \A s \in Searches(DOMAIN graph) : ~(Left(DOMAIN graph, s) < 0)
        <5> SUFFICES ASSUME NEW s \in Searches(DOMAIN graph)
                     PROVE  ~(Left(DOMAIN graph, s) < 0)
          OBVIOUS
        <5>1. Left(DOMAIN graph, s) \in Nat
          BY LeftType DEF IsGraph
        <5> QED BY <5>1
      <4> QED BY <4>1 DEF Follows
    <3> HIDE DEF f
    <3> QED BY <2>1, <3>1, <3>2
  <2>2. CASE k # 0
    <3>1. k - 1 \in Nat /\ m[k - 1] < m[k] /\ (k - 1) + 1 = k
      BY <2>2
    <3>2. PICK f \in F : Follows(graph, f, k - 1)
      BY <1>2, <3>1
    <3>3. \E g \in F : Follows(graph, g, (k - 1) + 1)
      BY <3>1, <3>2, FollowsOneMore
    <3> QED BY <3>1, <3>3
  <2> QED BY <2>1, <2>2
<1>3. Nat \subseteq G
  <2> HIDE DEF G, m
  <2> QED BY <1>1, <1>2, MeasureInduction
<1> QED BY <1>3

LEMMA SearchIsDefined ==
  ASSUME NEW graph, IsGraph(graph)
  PROVE  /\ VisitAll(graph) \in [Searches(DOMAIN graph) -> Outcomes(DOMAIN graph)]
         /\ \A s \in Searches(DOMAIN graph) :
              VisitAll(graph)[s] = Explored(graph, VisitAll(graph), s)
<1> DEFINE names == DOMAIN graph
           S == Searches(names)
           b == Cardinality(names)
           n == b * (b + 1) + b + 1
<1>1. IsFiniteSet(names) /\ b \in Nat
  BY FS_CardinalityType DEF IsGraph
<1>2. n \in Nat
  <2> HIDE DEF b
  <2> QED BY <1>1
<1>3. \A s \in S : Left(names, s) < n
  <2> SUFFICES ASSUME NEW s \in S PROVE Left(names, s) < n
    OBVIOUS
  <2> DEFINE a == Cardinality(names \ s.visiting)
             c == Cardinality(s.todo)
  <2>1. a \in Nat /\ c \in Nat /\ c <= b
    BY <1>1, LeftType
  <2>2. a <= b
    <3>1. names \ s.visiting \in SUBSET names
      OBVIOUS
    <3> QED BY <1>1, <3>1, FS_Subset
  <2>3. Left(names, s) = a * (b + 1) + c
    BY DEF Left
  <2> HIDE DEF a, b, c
  <2>4. a * (b + 1) <= b * (b + 1) /\ a * (b + 1) \in Int /\ b * (b + 1) \in Int
    BY <1>1, <2>1, <2>2
  <2> QED BY <1>1, <2>1, <2>3, <2>4
<1> HIDE DEF n
<1>4. PICK f \in [S -> Outcomes(names)] : Follows(graph, f, n)
  BY <1>2, FollowsAny
<1>5. f = [s \in S |-> Explored(graph, f, s)]
  BY <1>3, <1>4 DEF Follows
<1>6. VisitAll(graph) = [s \in S |-> Explored(graph, VisitAll(graph), s)]
  BY <1>5, Zenon DEF VisitAll
<1>7. \A s \in S : VisitAll(graph)[s] = Explored(graph, VisitAll(graph), s)
  BY <1>6
<1> DEFINE V == VisitAll(graph)
           m == [s \in S |-> Left(names, s)]
           G == {s \in S : f[s] = V[s]}
<1> HIDE DEF V
<1>8. m \in [S -> Nat]
  BY <1>1, LeftType
<1>9. ASSUME NEW s \in S, \A t \in S : m[t] < m[s] => t \in G
      PROVE  s \in G
  <2>1. \A t \in S : Left(names, t) < Left(names, s) => f[t] = V[t]
    BY <1>9
  <2>2. Explored(graph, f, s) = Explored(graph, V, s)
    BY <2>1, ExploredBelow
  <2> QED BY <1>5, <1>7, <2>2 DEF V
<1>10. S \subseteq G
  <2> HIDE DEF G, m
  <2> QED BY <1>8, <1>9, MeasureInduction
<1>11. V \in [S -> Outcomes(names)]
  <2>1. \A s \in S : V[s] \in Outcomes(names)
    BY <1>4, <1>10
  <2>2. V = [s \in S |-> Explored(graph, V, s)]
    BY <1>6 DEF V
  <2>3. V = [s \in S |-> V[s]]
    BY <2>2
  <2> QED BY <2>1, <2>3
<1> QED BY <1>7, <1>11 DEF V

-----------------------------------------------------------------------------
(* What has been visited can be executed: with each name all that it       *)
(* depends on, in an order.                                                *)
Orders(graph, V) ==
  {place \in [V -> 1..Cardinality(V)] :
     \A name \in V : \A d \in graph[name] : d \in V /\ place[d] < place[name]}

Orderly(graph, V) == V \subseteq DOMAIN graph /\ Orders(graph, V) # {}

LEMMA OneMoreName ==
  ASSUME NEW graph, IsGraph(graph), NEW V, Orderly(graph, V),
         NEW name \in DOMAIN graph, graph[name] \subseteq V
  PROVE  Orderly(graph, V \cup {name})
<1>1. CASE name \in V
  <2>1. V \cup {name} = V
    BY <1>1
  <2> QED BY <2>1
<1>2. CASE name \notin V
  <2> DEFINE W == V \cup {name}
             n == Cardinality(V)
  <2>1. PICK place \in Orders(graph, V) : TRUE
    BY DEF Orderly
  <2>2. /\ place \in [V -> 1..n]
        /\ \A x \in V : \A d \in graph[x] : d \in V /\ place[d] < place[x]
    BY <2>1 DEF Orders
  <2>3. n \in Nat /\ Cardinality(W) = n + 1
    <3>1. IsFiniteSet(V)
      BY FS_Subset DEF IsGraph, Orderly
    <3> QED BY <1>2, <3>1, FS_AddElement, FS_CardinalityType
  <2> HIDE DEF n
  <2> DEFINE longer == [x \in W |-> IF x = name THEN n + 1 ELSE place[x]]
  <2>4. longer \in [W -> 1..(n + 1)]
    BY <1>2, <2>2, <2>3
  <2>5. ASSUME NEW x \in W, NEW d \in graph[x]
        PROVE  d \in W /\ longer[d] < longer[x]
    <3>1. CASE x = name
      <4>1. d \in V /\ d # name /\ place[d] \in 1..n
        BY <1>2, <2>2, <3>1
      <4>2. longer[d] = place[d] /\ longer[x] = n + 1
        BY <3>1, <4>1
      <4> QED BY <2>3, <4>1, <4>2
    <3>2. CASE x # name
      <4>1. x \in V /\ d \in V /\ d # name /\ place[d] < place[x]
        BY <1>2, <2>2, <3>2
      <4> QED BY <3>2, <4>1
    <3> QED BY <3>1, <3>2
  <2>6. longer \in Orders(graph, W)
    <3> HIDE DEF longer
    <3> QED BY <2>3, <2>4, <2>5 DEF Orders
  <2>7. W \subseteq DOMAIN graph
    BY DEF Orderly
  <2> QED BY <2>6, <2>7 DEF Orderly
<1> QED BY <1>1, <1>2

(* A search that meets no cycle has visited what it had to, and only what  *)
(* can be executed.                                                        *)
Sound(graph, s, r) ==
  Orderly(graph, s.visited) /\ r.ok =>
    /\ Orderly(graph, r.visited)
    /\ s.visited \subseteq r.visited /\ s.todo \subseteq r.visited

LEMMA SearchSound ==
  ASSUME NEW graph, IsGraph(graph), NEW search \in Searches(DOMAIN graph)
  PROVE  Sound(graph, search, VisitAll(graph)[search])
<1> DEFINE names == DOMAIN graph
           S == Searches(names)
           V == VisitAll(graph)
           m == [s \in S |-> Left(names, s)]
           G == {s \in S : Sound(graph, s, V[s])}
<1>1. V \in [S -> Outcomes(names)] /\ \A s \in S : V[s] = Explored(graph, V, s)
  BY SearchIsDefined
<1> HIDE DEF V
<1>2. m \in [S -> Nat] /\ IsFiniteSet(names)
  BY LeftType DEF IsGraph
<1>3. ASSUME NEW s \in S, \A t \in S : m[t] < m[s] => t \in G
      PROVE  s \in G
  <2> SUFFICES ASSUME Orderly(graph, s.visited), V[s].ok
               PROVE  /\ Orderly(graph, V[s].visited)
                      /\ s.visited \subseteq V[s].visited
                      /\ s.todo \subseteq V[s].visited
    BY DEF Sound
  <2> DEFINE name == Picked(s.todo)
  <2>0. /\ s.todo \subseteq names /\ s.visited \subseteq names
        /\ s.todo # {} => name \in s.todo
        /\ \A t \in S : Left(names, t) < Left(names, s) => Sound(graph, t, V[t])
    BY <1>3 DEF Searches, Picked
  <2> HIDE DEF name
  <2>1. CASE s.todo = {}
    <3>0. Explored(graph, V, s) = [ok |-> TRUE, visited |-> s.visited]
      BY <2>1, ExploredNothing, Zenon
    <3>1. V[s] = [ok |-> TRUE, visited |-> s.visited]
      BY <1>1, <3>0
    <3> QED BY <2>1, <3>1
  <2>2. CASE s.todo # {} /\ name \in s.visiting
    <3>0. Explored(graph, V, s) = [ok |-> FALSE, visited |-> s.visited]
      BY <2>2, ExploredCycle, Zenon DEF name
    <3>1. V[s] = [ok |-> FALSE, visited |-> s.visited]
      BY <1>1, <3>0
    <3> QED BY <3>1
  <2>3. CASE s.todo # {} /\ name \notin s.visiting /\ name \in s.visited
    <3> DEFINE next == After(name, s, s.visited)
    <3>1. V[s] = V[next]
      BY <1>1, <2>3, ExploredVisited DEF name
    <3>2. next \in S /\ Left(names, next) < Left(names, s)
      BY <1>2, <2>0, <2>3, AfterIsLess
    <3>3. next.visited = s.visited /\ next.todo = s.todo \ {name}
      BY DEF After, Searches
    <3> HIDE DEF next
    <3> QED BY <2>0, <2>3, <3>1, <3>2, <3>3 DEF Sound
  <2>4. CASE s.todo # {} /\ name \notin s.visiting /\ name \notin s.visited
    <3> DEFINE low == Below(graph, name, s)
               more == V[low].visited \cup {name}
               next == After(name, s, more)
    <3>1. V[s] = IF V[low].ok THEN V[next] ELSE V[low]
      BY <1>1, <2>4, ExploredEntered DEF name
    <3>2. low \in S /\ Left(names, low) < Left(names, s)
      BY <2>0, <2>4, BelowIsLess
    <3>3. low.visited = s.visited /\ low.todo = graph[name]
      BY DEF Below
    <3> HIDE DEF low
    <3>4. V[low].ok /\ V[s] = V[next]
      BY <3>1
    <3>5. /\ Orderly(graph, V[low].visited) /\ s.visited \subseteq V[low].visited
          /\ graph[name] \subseteq V[low].visited
      BY <2>0, <3>2, <3>3, <3>4 DEF Sound
    <3>6. Orderly(graph, more)
      BY <2>0, <2>4, <3>5, OneMoreName
    <3>7. more \in SUBSET names
      BY <3>6 DEF Orderly
    <3>8. next \in S /\ Left(names, next) < Left(names, s)
      BY <1>2, <2>0, <2>4, <3>7, AfterIsLess
    <3>9. next.visited = more /\ next.todo = s.todo \ {name}
      BY DEF After, Searches
    <3> HIDE DEF next
    <3>10. Sound(graph, next, V[next])
      BY <2>0, <3>8
    <3> QED BY <3>4, <3>5, <3>6, <3>9, <3>10 DEF Sound
  <2> QED BY <2>1, <2>2, <2>3, <2>4
<1>4. S \subseteq G
  <2> HIDE DEF G, m
  <2> QED BY <1>2, <1>3, MeasureInduction
<1> QED BY <1>4 DEF V

(* A search of a graph that can be executed meets no cycle: what it is on  *)
(* the way to comes before what it comes from.                             *)
Descends(place, s) == \A x \in s.todo, y \in s.visiting : place[x] < place[y]

LEMMA SearchComplete ==
  ASSUME NEW graph, IsGraph(graph), NEW search \in Searches(DOMAIN graph),
         NEW place \in Orders(graph, DOMAIN graph), Descends(place, search)
  PROVE  VisitAll(graph)[search].ok
<1> DEFINE names == DOMAIN graph
           S == Searches(names)
           V == VisitAll(graph)
           m == [s \in S |-> Left(names, s)]
           G == {s \in S : Descends(place, s) => V[s].ok}
<1>1. V \in [S -> Outcomes(names)] /\ \A s \in S : V[s] = Explored(graph, V, s)
  BY SearchIsDefined
<1> HIDE DEF V
<1>2. m \in [S -> Nat] /\ IsFiniteSet(names)
  BY LeftType DEF IsGraph
<1>a. /\ \A x \in names : place[x] \in Int
      /\ \A x \in names : \A d \in graph[x] : d \in names /\ place[d] < place[x]
  BY DEF Orders
<1>3. ASSUME NEW s \in S, \A t \in S : m[t] < m[s] => t \in G
      PROVE  s \in G
  <2> SUFFICES ASSUME Descends(place, s) PROVE V[s].ok
    OBVIOUS
  <2> DEFINE name == Picked(s.todo)
  <2>0. /\ s.todo \subseteq names /\ s.visited \subseteq names /\ s.visiting \subseteq names
        /\ s.todo # {} => name \in s.todo
        /\ \A t \in S : Left(names, t) < Left(names, s) /\ Descends(place, t) => V[t].ok
    BY <1>3 DEF Searches, Picked
  <2> HIDE DEF name
  <2>1. CASE s.todo = {}
    <3>0. Explored(graph, V, s) = [ok |-> TRUE, visited |-> s.visited]
      BY <2>1, ExploredNothing, Zenon
    <3>1. V[s] = [ok |-> TRUE, visited |-> s.visited]
      BY <1>1, <3>0
    <3> QED BY <3>1
  <2>2. CASE s.todo # {} /\ name \in s.visiting
    BY <1>a, <2>0, <2>2 DEF Descends
  <2>3. CASE s.todo # {} /\ name \notin s.visiting /\ name \in s.visited
    <3> DEFINE next == After(name, s, s.visited)
    <3>1. V[s] = V[next]
      BY <1>1, <2>3, ExploredVisited DEF name
    <3>2. next \in S /\ Left(names, next) < Left(names, s)
      BY <1>2, <2>0, <2>3, AfterIsLess
    <3>3. next.visiting = s.visiting /\ next.todo = s.todo \ {name}
      BY DEF After, Searches
    <3> HIDE DEF next
    <3>4. Descends(place, next)
      BY <3>3 DEF Descends
    <3> QED BY <2>0, <3>1, <3>2, <3>4
  <2>4. CASE s.todo # {} /\ name \notin s.visiting /\ name \notin s.visited
    <3> DEFINE low == Below(graph, name, s)
               more == V[low].visited \cup {name}
               next == After(name, s, more)
    <3>1. V[s] = IF V[low].ok THEN V[next] ELSE V[low]
      BY <1>1, <2>4, ExploredEntered DEF name
    <3>2. low \in S /\ Left(names, low) < Left(names, s)
      BY <2>0, <2>4, BelowIsLess
    <3>3. low.visiting = s.visiting \cup {name} /\ low.todo = graph[name]
      BY DEF Below
    <3> HIDE DEF low
    <3>4. Descends(place, low)
      <4> SUFFICES ASSUME NEW x \in graph[name], NEW y \in s.visiting \cup {name}
                   PROVE  place[x] < place[y]
        BY <3>3 DEF Descends
      <4>1. name \in names /\ x \in names /\ y \in names /\ place[x] < place[name]
        BY <1>a, <2>0, <2>4
      <4>2. y = name \/ place[name] < place[y]
        BY <2>0, <2>4 DEF Descends
      <4> QED BY <1>a, <4>1, <4>2
    <3>5. V[low].ok /\ V[low] \in Outcomes(names)
      BY <1>1, <2>0, <3>2, <3>4
    <3>6. more \in SUBSET names
      BY <2>0, <2>4, <3>5 DEF Outcomes
    <3>7. next \in S /\ Left(names, next) < Left(names, s)
      BY <1>2, <2>0, <2>4, <3>6, AfterIsLess
    <3>8. next.visiting = s.visiting /\ next.todo = s.todo \ {name}
      BY DEF After, Searches
    <3> HIDE DEF next
    <3>9. Descends(place, next)
      BY <3>8 DEF Descends
    <3> QED BY <2>0, <3>1, <3>5, <3>7, <3>9
  <2> QED BY <2>1, <2>2, <2>3, <2>4
<1>4. S \subseteq G
  <2> HIDE DEF G, m
  <2> QED BY <1>2, <1>3, MeasureInduction
<1> QED BY <1>4 DEF V

-----------------------------------------------------------------------------
(* PipelineDefinition.validate_dag accepts a graph of stages, with however *)
(* many stages and in whatever order it visits them, if and only if its    *)
(* stages can be executed one after the other.                             *)
THEOREM DagCheck ==
  ASSUME NEW graph, IsFiniteSet(DOMAIN graph)
  PROVE  validate_dag(graph) <=> Executable(graph)
<1> DEFINE names == DOMAIN graph
           start == [todo |-> names, visiting |-> {}, visited |-> {}]
<1>1. start \in Searches(names)
  BY DEF Searches
<1>2. ASSUME validate_dag(graph) PROVE Executable(graph)
  <2>1. IsGraph(graph) /\ names # {} /\ VisitAll(graph)[start].ok
    BY <1>2 DEF validate_dag, IsGraph
  <2>2. Orderly(graph, {})
    <3> DEFINE none == [x \in {} |-> 0]
    <3>1. none \in [{} -> 1..Cardinality({})]
      OBVIOUS
    <3> HIDE DEF none
    <3>2. none \in Orders(graph, {})
      BY <3>1 DEF Orders
    <3> QED BY <3>2 DEF Orderly
  <2> DEFINE all == VisitAll(graph)[start].visited
  <2>3. Orderly(graph, all) /\ names \subseteq all
    <3>1. Sound(graph, start, VisitAll(graph)[start])
      BY <1>1, <2>1, SearchSound
    <3> QED BY <2>1, <2>2, <3>1 DEF Sound
  <2>4. all = names
    BY <2>3 DEF Orderly
  <2>5. PICK place \in Orders(graph, names) : TRUE
    BY <2>3, <2>4 DEF Orderly
  <2> QED BY <2>1, <2>5 DEF Orders, Executable
<1>3. ASSUME Executable(graph) PROVE validate_dag(graph)
  <2>1. PICK place \in [names -> 1..Cardinality(names)] :
          \A x \in names : \A d \in graph[x] : d \in names /\ place[d] < place[x]
    BY <1>3 DEF Executable
  <2>2. place \in Orders(graph, names) /\ \A x \in names : place[x] \in Int
    BY <2>1 DEF Orders
  <2>3. IsGraph(graph) /\ names # {}
    BY <1>3, <2>1 DEF IsGraph, Executable
  <2>4. validate_dependencies(graph)
    BY <2>1, <2>2 DEF validate_dependencies
  <2>5. VisitAll(graph)[start].ok
    BY <1>1, <2>2, <2>3, SearchComplete DEF Descends
  <2> QED BY <2>3, <2>4, <2>5 DEF validate_dag, IsGraph
<1> QED BY <1>2, <1>3

-----------------------------------------------------------------------------
(* The registry.  A version is made by PipelineDefinition, which checks    *)
(* its graph, and afterwards changes its status only; a request that       *)
(* publishes has locked versions that exist (PublishersSound).             *)
VersionRows ==
  [status : {"none", "draft", "published", "disabled"},
   definition : Definitions \cup {Default, None}]

Made(row) ==
  /\ row.definition \in Definitions \cup {Default}
  /\ validate_dag(StageGraph(row.definition))

VersionsSound ==
  /\ pipeline \in [Pipelines -> [Versions -> VersionRows]]
  /\ \A p \in Pipelines, v \in Versions :
       pipeline[p][v].status # "none" => Made(pipeline[p][v])

PublisherRows ==
  [state : {"idle", "locked", "selected"}, id : Pipelines \cup {None},
   version : Versions \cup {0}, others : SUBSET Versions]

PublishersSound ==
  /\ publisher \in [Publishers -> PublisherRows]
  /\ \A x \in Publishers : publisher[x].state # "idle" =>
       /\ publisher[x].id \in Pipelines /\ publisher[x].version \in Versions
       /\ \A v \in {publisher[x].version} \cup publisher[x].others :
            pipeline[publisher[x].id][v].status # "none"

RegistryInv == VersionsSound /\ PublishersSound

LEMMA MaxOf ==
  ASSUME NEW T, T # {}, NEW n \in Nat, T \subseteq 1..n
  PROVE  Max(T) \in T
<1> DEFINE U == {n - x : x \in T}
<1>0. \A x \in T : x \in Int /\ n - x \in Nat
  OBVIOUS
<1>1. U \subseteq Nat /\ U # {}
  BY <1>0
<1>2. PICK a \in U : \A b \in U : a <= b
  BY <1>1, LeastNatural
<1>3. PICK x \in T : a = n - x
  BY <1>2
<1>4. \A y \in T : n - x <= n - y
  BY <1>2, <1>3
<1>5. \A y \in T : x >= y
  BY <1>0, <1>4
<1> QED BY <1>5 DEF Max

(* What the registry does to the versions of one pipeline. *)
LEMMA VersionsMove ==
  ASSUME RegistryInv, publisher' = publisher,
         NEW p, NEW versions \in [Versions -> VersionRows],
         pipeline' = [pipeline EXCEPT ![p] = versions],
         p \in Pipelines =>
           \A v \in Versions : /\ versions[v].status # "none" => Made(versions[v])
                               /\ pipeline[p][v].status # "none" => versions[v].status # "none"
  PROVE  RegistryInv'
<1>0. pipeline \in [Pipelines -> [Versions -> VersionRows]]
  BY DEF RegistryInv, VersionsSound
<1>1. /\ pipeline' \in [Pipelines -> [Versions -> VersionRows]]
      /\ \A q \in Pipelines : pipeline'[q] = IF q = p THEN versions ELSE pipeline[q]
  BY <1>0
<1>2. ASSUME NEW q \in Pipelines, NEW v \in Versions, pipeline'[q][v].status # "none"
      PROVE  Made(pipeline'[q][v])
  BY <1>1, <1>2 DEF RegistryInv, VersionsSound
<1>3. \A q \in Pipelines, v \in Versions :
        pipeline[q][v].status # "none" => pipeline'[q][v].status # "none"
  BY <1>1
<1>4. VersionsSound'
  BY <1>1, <1>2 DEF VersionsSound, Made
<1>5. PublishersSound'
  <2>1. publisher \in [Publishers -> PublisherRows]
    BY DEF RegistryInv, PublishersSound
  <2>2. ASSUME NEW x \in Publishers, publisher[x].state # "idle",
               NEW v \in {publisher[x].version} \cup publisher[x].others
        PROVE  /\ publisher[x].id \in Pipelines /\ publisher[x].version \in Versions
               /\ pipeline'[publisher[x].id][v].status # "none"
    <3>1. /\ publisher[x].id \in Pipelines /\ publisher[x].version \in Versions
          /\ pipeline[publisher[x].id][v].status # "none"
      BY <2>2 DEF RegistryInv, PublishersSound
    <3>2. v \in Versions
      BY <2>1, <3>1 DEF PublisherRows
    <3> QED BY <1>3, <3>1, <3>2
  <2> QED BY <2>1, <2>2 DEF PublishersSound, PublisherRows
<1> QED BY <1>4, <1>5 DEF RegistryInv

(* publish changes the status of versions that exist, and nothing else. *)
LEMMA PublishedRows ==
  ASSUME NEW versions \in [Versions -> VersionRows], NEW v \in Versions, NEW others,
         \A u \in Versions : versions[u].status # "none" => Made(versions[u]),
         \A u \in {v} \cup others : u \in Versions => versions[u].status # "none"
  PROVE  /\ publish(versions, v, others) \in [Versions -> VersionRows]
         /\ \A u \in Versions :
              LET row == publish(versions, v, others)[u]
              IN /\ row.status # "none" => Made(row)
                 /\ versions[u].status # "none" => row.status # "none"
<1> DEFINE after == publish(versions, v, others)
<1>1. ASSUME NEW u \in Versions
      PROVE  /\ after[u] \in VersionRows /\ after[u].definition = versions[u].definition
             /\ after[u].status # "none" <=> versions[u].status # "none"
  <2>0. versions[u] \in VersionRows
    OBVIOUS
  <2>1. CASE u = v
    <3>1. after[u] = [versions[u] EXCEPT !.status = "published"]
      BY <2>1 DEF publish
    <3> QED BY <2>0, <2>1, <3>1 DEF VersionRows
  <2>2. CASE u # v /\ u \in others
    <3>1. after[u] = [versions[u] EXCEPT !.status = "disabled"]
      BY <2>2 DEF publish
    <3> QED BY <2>0, <2>2, <3>1 DEF VersionRows
  <2>3. CASE u # v /\ u \notin others
    <3>1. after[u] = versions[u]
      BY <2>3 DEF publish
    <3> QED BY <2>0, <3>1
  <2> QED BY <2>1, <2>2, <2>3
<1>2. after \in [Versions -> VersionRows]
  <2>1. after = [u \in Versions |-> after[u]]
    BY DEF publish
  <2> QED BY <1>1, <2>1
<1> QED BY <1>1, <1>2 DEF Made

LEMMA CreateVersion ==
  ASSUME RegistryInv, NEW p \in Pipelines, NEW definition \in Definitions,
         create_pipeline(p, definition)
  PROVE  RegistryInv'
<1> DEFINE n == NextVersion(p)
           versions == [pipeline[p] EXCEPT ![n] = Draft(definition)]
<1>0. pipeline \in [Pipelines -> [Versions -> VersionRows]] /\ n \in Versions
  BY DEF RegistryInv, VersionsSound, create_pipeline
<1>1. /\ pipeline' = [pipeline EXCEPT ![p] = versions] /\ publisher' = publisher
      /\ validate_dag(StageGraph(definition))
  BY <1>0 DEF create_pipeline
<1> HIDE DEF n
<1>2. Draft(definition) \in VersionRows /\ Draft(definition).status # "none"
      /\ Draft(definition).definition = definition
  BY DEF Draft, VersionRows
<1>3. Made(Draft(definition))
  BY <1>1, <1>2 DEF Made
<1>4. versions \in [Versions -> VersionRows]
  BY <1>0, <1>2
<1>5. \A v \in Versions : /\ versions[v].status # "none" => Made(versions[v])
                          /\ pipeline[p][v].status # "none" => versions[v].status # "none"
  BY <1>0, <1>2, <1>3 DEF RegistryInv, VersionsSound
<1> HIDE DEF versions
<1> QED BY <1>1, <1>4, <1>5, VersionsMove

LEMMA CommitVersion ==
  ASSUME RegistryInv, NEW x \in Publishers, PublishCommit(x)
  PROVE  RegistryInv'
<1> DEFINE p == publisher[x].id
           v == publisher[x].version
           others == publisher[x].others
           versions == publish(pipeline[p], v, others)
<1>0. /\ pipeline \in [Pipelines -> [Versions -> VersionRows]]
      /\ p \in Pipelines /\ v \in Versions
      /\ \A u \in {v} \cup others : pipeline[p][u].status # "none"
  BY DEF RegistryInv, VersionsSound, PublishersSound, PublishCommit
<1>1. pipeline' = [pipeline EXCEPT ![p] = versions]
  BY <1>0 DEF PublishCommit
<1>2. /\ versions \in [Versions -> VersionRows]
      /\ \A u \in Versions : /\ versions[u].status # "none" => Made(versions[u])
                             /\ pipeline[p][u].status # "none" => versions[u].status # "none"
  <2>1. \A u \in Versions : pipeline[p][u].status # "none" => Made(pipeline[p][u])
    BY <1>0 DEF RegistryInv, VersionsSound
  <2>2. pipeline[p] \in [Versions -> VersionRows]
    BY <1>0
  <2> HIDE DEF p, v, others
  <2> QED BY <1>0, <2>1, <2>2, PublishedRows
<1> HIDE DEF versions
<1>3. /\ pipeline' \in [Pipelines -> [Versions -> VersionRows]]
      /\ \A q \in Pipelines : pipeline'[q] = IF q = p THEN versions ELSE pipeline[q]
  <2> HIDE DEF p
  <2> QED BY <1>0, <1>1, <1>2
<1>4. VersionsSound'
  BY <1>2, <1>3 DEF VersionsSound, RegistryInv, Made
<1>5. publisher' = [publisher EXCEPT ![x] = NotPublishing]
  BY DEF PublishCommit
<1>6. PublishersSound'
  <2>1. \A q \in Pipelines, u \in Versions :
          pipeline[q][u].status # "none" => pipeline'[q][u].status # "none"
    BY <1>2, <1>3
  <2> QED BY <1>5, <2>1 DEF RegistryInv, PublishersSound, NotPublishing, PublisherRows
<1> QED BY <1>4, <1>6 DEF RegistryInv

LEMMA InstallVersion ==
  ASSUME RegistryInv, initialize_default_catalog
  PROVE  RegistryInv'
<1> DEFINE p == DefaultId
           catalog == Install(backend)
           versions == _install_pipeline(catalog, pipeline[p])
<1>0. /\ pipeline \in [Pipelines -> [Versions -> VersionRows]]
      /\ publisher' = publisher
      /\ p \notin Pipelines => pipeline' = pipeline
  BY DEF RegistryInv, VersionsSound, initialize_default_catalog
<1>1. CASE p \notin Pipelines
  BY <1>0, <1>1 DEF RegistryInv, VersionsSound, PublishersSound, Made
<1>2. CASE p \in Pipelines
  <2> DEFINE old == pipeline[p]
             known == {u \in Versions : old[u].status # "none"}
             last == IF known = {} THEN 1 ELSE Max(known)
             row == IF known = {} THEN Draft(Default) ELSE old[last]
             others == {u \in Versions : old[u].status = "published"} \ {last}
             installed == [old EXCEPT ![last] = row]
  <2>1. /\ pipeline' = [pipeline EXCEPT ![p] = versions]
        /\ versions = IF row.status # "published" /\ validate(catalog, row.definition)
                      THEN publish(installed, last, others) ELSE installed
    BY <1>0, <1>2 DEF initialize_default_catalog, _install_pipeline
  <2>2. /\ old \in [Versions -> VersionRows]
        /\ \A u \in Versions : old[u].status # "none" => Made(old[u])
    BY <1>0, <1>2 DEF RegistryInv, VersionsSound
  <2>3. known # {} => last \in known
    <3> DEFINE n == Cardinality(Versions)
    <3>1. n \in Nat /\ Versions = 1..n
      BY OrdersAssumption, FS_CardinalityType
    <3> HIDE DEF n
    <3> QED BY <3>1, MaxOf
  <2>4. last \in Versions => row \in VersionRows /\ row.status # "none" /\ Made(row)
    <3>1. CASE known # {}
      <4>1. last \in known /\ row = old[last]
        BY <2>3, <3>1
      <4> HIDE DEF last, row
      <4> QED BY <2>2, <4>1
    <3>2. CASE known = {}
      <4>1. validate_dag(StageGraph(Default))
        BY <3>2 DEF initialize_default_catalog, VersionsOf
      <4>2. row = Draft(Default)
        BY <3>2
      <4>3. /\ Draft(Default) \in VersionRows /\ Draft(Default).status # "none"
            /\ Draft(Default).definition = Default
        BY DEF Draft, VersionRows
      <4>4. Made(Draft(Default))
        BY <4>1, <4>3 DEF Made
      <4> HIDE DEF row
      <4> QED BY <4>2, <4>3, <4>4
    <3> QED BY <3>1, <3>2
  <2> HIDE DEF last, row, old, known
  <2>5. /\ installed \in [Versions -> VersionRows]
        /\ \A u \in Versions : /\ installed[u].status # "none" => Made(installed[u])
                               /\ old[u].status # "none" => installed[u].status # "none"
        /\ last \in Versions => installed[last].status # "none"
        /\ last \notin Versions => installed = old
    BY <2>2, <2>4
  <2>6. /\ versions \in [Versions -> VersionRows]
        /\ \A u \in Versions : /\ versions[u].status # "none" => Made(versions[u])
                               /\ old[u].status # "none" => versions[u].status # "none"
    <3> DEFINE after == publish(installed, last, others)
    <3>1. CASE last \in Versions
      <4>1. \A u \in {last} \cup others : u \in Versions => installed[u].status # "none"
        BY <2>5, <3>1
      <4> HIDE DEF installed, others
      <4>2. /\ after \in [Versions -> VersionRows]
            /\ \A u \in Versions :
                 /\ after[u].status # "none" => Made(after[u])
                 /\ installed[u].status # "none" => after[u].status # "none"
        BY <2>5, <3>1, <4>1, PublishedRows
      <4> HIDE DEF after, versions
      <4>3. versions = after \/ versions = installed
        BY <2>1 DEF after
      <4> QED BY <2>5, <4>2, <4>3
    <3>2. CASE last \notin Versions
      <4>1. known = {}
        BY <2>3, <3>2 DEF known
      <4>2. others = {}
        BY <4>1 DEF known
      <4>3. publish(old, last, others) = old
        BY <2>2, <3>2, <4>2 DEF publish
      <4> HIDE DEF versions, others
      <4>4. versions = old
        BY <2>1, <2>5, <3>2, <4>3
      <4> QED BY <2>2, <4>4
    <3> QED BY <3>1, <3>2
  <2> HIDE DEF versions, p
  <2> QED BY <1>0, <2>1, <2>6, VersionsMove DEF old
<1> QED BY <1>1, <1>2

LEMMA PublisherMoves ==
  ASSUME RegistryInv, NEW x \in Publishers,
         \/ \E p \in Pipelines, v \in Versions : PublishBegin(x, p, v)
         \/ PublishSelect(x) \/ PublishFails(x)
  PROVE  RegistryInv'
<1>0. pipeline' = pipeline /\ publisher \in [Publishers -> PublisherRows]
  BY DEF PublishBegin, PublishSelect, PublishFails, RegistryInv, PublishersSound
<1>1. VersionsSound'
  BY <1>0 DEF RegistryInv, VersionsSound, Made
<1>2. ASSUME NEW row \in PublisherRows, publisher' = [publisher EXCEPT ![x] = row],
             row.state # "idle" =>
               /\ row.id \in Pipelines /\ row.version \in Versions
               /\ \A v \in {row.version} \cup row.others : pipeline[row.id][v].status # "none"
      PROVE  RegistryInv'
  <2>1. /\ publisher' \in [Publishers -> PublisherRows]
        /\ \A y \in Publishers : publisher'[y] = IF y = x THEN row ELSE publisher[y]
    BY <1>0, <1>2
  <2>2. PublishersSound'
    BY <1>0, <1>2, <2>1 DEF RegistryInv, PublishersSound
  <2> QED BY <1>1, <2>2 DEF RegistryInv
<1>3. CASE \E p \in Pipelines, v \in Versions : PublishBegin(x, p, v)
  <2>1. PICK p \in Pipelines, v \in Versions : PublishBegin(x, p, v)
    BY <1>3
  <2> DEFINE row == [state |-> "locked", id |-> p, version |-> v, others |-> {}]
  <2>2. publisher' = [publisher EXCEPT ![x] = row] /\ pipeline[p][v].status # "none"
    BY <2>1 DEF PublishBegin, VersionsOf
  <2>3. row \in PublisherRows /\ row.id = p /\ row.version = v /\ row.others = {}
    BY DEF PublisherRows
  <2> HIDE DEF row
  <2> QED BY <1>2, <2>2, <2>3
<1>4. CASE PublishSelect(x)
  <2> DEFINE p == publisher[x].id
             chosen == PublishedVersions(p) \ {publisher[x].version}
             row == [publisher[x] EXCEPT !.state = "selected", !.others = chosen]
  <2>1. publisher' = [publisher EXCEPT ![x] = row] /\ publisher[x].state # "idle"
    BY <1>0, <1>4 DEF PublishSelect
  <2>2. \A v \in chosen : v \in Versions /\ pipeline[p][v].status # "none"
    BY DEF PublishedVersions
  <2>3. /\ row \in PublisherRows /\ row.id = p /\ row.version = publisher[x].version
        /\ row.others = chosen
    <3> HIDE DEF chosen
    <3> QED BY <1>0, <2>2 DEF PublisherRows
  <2> HIDE DEF row, chosen
  <2> QED BY <1>2, <2>1, <2>2, <2>3 DEF RegistryInv, PublishersSound
<1>5. CASE PublishFails(x)
  <2>1. NotPublishing \in PublisherRows /\ NotPublishing.state = "idle"
    BY DEF NotPublishing, PublisherRows
  <2> QED BY <1>2, <1>5, <2>1 DEF PublishFails
<1> QED BY <1>3, <1>4, <1>5

LEMMA RegistryStep == RegistryInv /\ [Next]_vars => RegistryInv'
<1> SUFFICES ASSUME RegistryInv, [Next]_vars PROVE RegistryInv'
  OBVIOUS
<1>1. ASSUME pipeline' = pipeline, publisher' = publisher
      PROVE  RegistryInv'
  BY <1>1 DEF RegistryInv, VersionsSound, PublishersSound, Made
<1>2. CASE RegistryNext
  <2>1. CASE \E b \in Backends : create_backend(b) \/ update_backend(b)
    BY <1>1, <2>1 DEF create_backend, update_backend
  <2> QED BY <1>2, <2>1, CreateVersion, CommitVersion, InstallVersion, PublisherMoves
          DEF RegistryNext
<1>3. CASE TaskNext \/ LoopNext \/ UNCHANGED vars
  <2>1. pipeline' = pipeline /\ publisher' = publisher
    BY <1>3 DEF TaskNext, LoopNext, vars, registry, CreateBegin, CreateCommit, CreateAgain,
                CreateFails, test_pipeline, route_task, lease, cancel, retry, Leave,
                LoopRead, LoopStep, LoopFails
  <2> QED BY <1>1, <2>1
<1> QED BY <1>2, <1>3 DEF Next

(* Every version of a pipeline that exists was made by PipelineDefinition  *)
(* from a definition whose graph it has checked, and every request that    *)
(* publishes holds versions that exist.                                    *)
THEOREM RegistryInvariance == Spec => []RegistryInv
<1>1. Init => RegistryInv
  BY DEF Init, RegistryInv, VersionsSound, PublishersSound, NoVersion, NotPublishing,
         VersionRows, PublisherRows
<1> QED BY <1>1, RegistryStep, PTL DEF Spec

(* validate_dag decides what it is meant to, and no version in the         *)
(* registry - drafted, published, disabled or installed at the start - has *)
(* a graph that cannot be executed.                                        *)
THEOREM Executables == Spec => []GraphsAreExecutable
<1>1. DagCheckExact
  <2> SUFFICES ASSUME NEW graph \in GraphsOver(GraphNames)
               PROVE  validate_dag(graph) <=> Executable(graph)
    BY DEF DagCheckExact
  <2>1. PICK stages \in SUBSET GraphNames : graph \in [stages -> SUBSET GraphNames]
    BY DEF GraphsOver
  <2>2. DOMAIN graph = stages /\ IsFiniteSet(stages)
    BY <2>1, FS_Subset, DefinitionsAssumption
  <2> QED BY <2>2, DagCheck
<1>2. RegistryInv => GraphsAreExecutable
  <2> SUFFICES ASSUME RegistryInv, NEW p \in Pipelines, NEW v \in Versions,
                      pipeline[p][v].status # "none"
               PROVE  Executable(StageGraph(pipeline[p][v].definition))
    BY <1>1 DEF GraphsAreExecutable
  <2> DEFINE definition == pipeline[p][v].definition
  <2>1. definition \in Definitions \cup {Default} /\ validate_dag(StageGraph(definition))
    BY DEF RegistryInv, VersionsSound, Made
  <2> HIDE DEF definition
  <2>2. DOMAIN StageGraph(definition) = DOMAIN definition.stages
    BY DEF StageGraph
  <2>3. IsFiniteSet(DOMAIN StageGraph(definition))
    BY <2>1, <2>2, DefinitionsAssumption
  <2>4. Executable(StageGraph(definition))
    BY <2>1, <2>3, DagCheck
  <2> QED BY <2>4 DEF definition
<1> QED BY <1>2, RegistryInvariance, PTL
=============================================================================
