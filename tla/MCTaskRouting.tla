---------------------------- MODULE MCTaskRouting ----------------------------
(* Constants for the runs of TaskRouting.                                  *)
EXTENDS TaskRouting

CONSTANTS cpu, gpu, web, text, html, a, b, ocr, reader, pl

MCCapability ==
  [x \in Backends |->
     IF x = ocr THEN [categories |-> {web}, mimes |-> {}, runtimes |-> {gpu}]
     ELSE [categories |-> {}, mimes |-> {html}, runtimes |-> {cpu, gpu}]]

Stage(depends_on, backends, runtimes) ==
  [depends_on |-> depends_on, backends |-> backends, runtimes |-> runtimes]

(* The default pipeline falls back on another backend; the other one asks  *)
(* for a runtime, in a chain; the third is a cycle and never created.      *)
MCDefault ==
  [categories |-> {web}, mimes |-> {}, priority |-> 0,
   stages |-> [s \in {a} |-> Stage({}, <<ocr, reader>>, {})]]
MCDefinitions ==
  {[categories |-> {web}, mimes |-> {html}, priority |-> 1,
    stages |-> [s \in {a, b} |->
      IF s = a THEN Stage({}, <<reader>>, {}) ELSE Stage({a}, <<reader, ocr>>, {gpu})]],
   [categories |-> {text}, mimes |-> {}, priority |-> 0,
    stages |-> [s \in {a, b} |->
      Stage(IF s = a THEN {b} ELSE {a}, <<reader>>, {})]]}

Asks(category, pipeline_, backend_, strategy, runtimes) ==
  [category |-> category, mime |-> html, pipeline |-> pipeline_, backend |-> backend_,
   strategy |-> strategy, runtimes |-> runtimes]

MCRequests == {Asks(web, None, None, "prefer", {cpu}),
               Asks(web, <<pl, 1>>, reader, "require", {gpu})}
=============================================================================
