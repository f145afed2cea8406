---------------------------- MODULE PipelineGraph ----------------------------
(***************************************************************************)
(* The stage graphs of pipelines: PipelineStageDefinition and              *)
(* PipelineDefinition.validate_dag (parser_serve/schema/pipeline.py), a    *)
(* depth-first search, beside what it is meant to decide.                  *)
(*                                                                         *)
(* A graph maps the name of each stage to the names it depends on.         *)
(***************************************************************************)
EXTENDS Naturals, FiniteSets

(* How far the search is: the names it has still to look at, those on the  *)
(* way to them, and those it is done with.                                 *)
Searches(names) ==
  [todo : SUBSET names, visiting : SUBSET names, visited : SUBSET names]

(* visit: a name that is being visited closes a cycle; one that has been   *)
(* visited is not entered again.                                           *)
visit_once(name, search) ==
  IF name \in search.visiting \cup search.visited THEN "visited" ELSE "entered"

visit(name, search) ==
  IF name \in search.visiting THEN "cycle"
  ELSE IF name \in search.visited THEN "visited" ELSE "entered"

(* The names are looked at in some order. *)
Picked(names) == CHOOSE name \in names : TRUE

(* One step of the search: the next name, below it what it depends on, and *)
(* then the other names. The outcome of a search is whether it met no      *)
(* cycle, and what has been visited.                                       *)
Explored(graph, outcome, search) ==
  LET name == Picked(search.todo)
      below == outcome[[todo |-> graph[name],
                        visiting |-> search.visiting \cup {name},
                        visited |-> search.visited]]
      Rest(visited) == outcome[[search EXCEPT !.todo = @ \ {name},
                                              !.visited = visited]]
  IN CASE search.todo = {} -> [ok |-> TRUE, visited |-> search.visited]
       [] search.todo # {} /\ visit(name, search) = "cycle" ->
            [ok |-> FALSE, visited |-> search.visited]
       [] search.todo # {} /\ visit(name, search) = "visited" -> Rest(search.visited)
       [] search.todo # {} /\ visit(name, search) = "entered" ->
            IF below.ok THEN Rest(below.visited \cup {name}) ELSE below

VisitAll(graph) ==
  LET outcome[search \in Searches(DOMAIN graph)] == Explored(graph, outcome, search)
  IN outcome

validate_dependencies(graph) == \A name \in DOMAIN graph : name \notin graph[name]

validate_dag(graph) ==
  /\ DOMAIN graph # {}
  /\ validate_dependencies(graph)
  /\ \A name \in DOMAIN graph : graph[name] \subseteq DOMAIN graph
  /\ VisitAll(graph)[[todo |-> DOMAIN graph, visiting |-> {}, visited |-> {}]].ok

(* A graph can be executed if its stages can be put in an order in which   *)
(* everything a stage depends on exists and comes before it.               *)
Executable(graph) ==
  /\ DOMAIN graph # {}
  /\ \E place \in [DOMAIN graph -> 1..Cardinality(DOMAIN graph)] :
       \A name \in DOMAIN graph : \A dependency \in graph[name] :
         dependency \in DOMAIN graph /\ place[dependency] < place[name]

(* All graphs over some of the names, with dependencies among all of them. *)
GraphsOver(names) ==
  UNION {[stages -> SUBSET names] : stages \in SUBSET names \ {{}}}
=============================================================================
