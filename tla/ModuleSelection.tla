---------------------------- MODULE ModuleSelection ----------------------------
(***************************************************************************)
(* What a Quick Deploy selection installs: validate_plan_module_selection  *)
(* checks the requested applications against the plan's rules and calls    *)
(* resolve_module_selection, which adds the modules they need (add_module, *)
(* a recursion here unrolled into a stack of calls) and orders them        *)
(* (_topological_order, Kahn's algorithm).  Sources:                       *)
(* platform_plan_selection, platform_plan_module_rules,                    *)
(* module_dependency_resolver, module_catalog_service.                     *)
(***************************************************************************)
EXTENDS Integers, Sequences, FiniteSets

CONSTANTS
    Modules,        \* technical names: numbers, in the order of the names
    Catalogs,       \* catalogue contents to check
    Rulesets,       \* the plan's rules for a module, and for its category
    Requests,       \* sequences of distinct requested modules
    MaxSelectedApps \* max_selected_apps

VARIABLES
    catalog,    \* kind, required dependencies and auto_install list of each module
    rules,      \* the plan's active rules
    requested,  \* the ids the customer posted
    phase, errors,
    calls,      \* add_module calls still to make: name and from_request
    selected, missing, blocked,
    indegree, queue, order, cycle

vars == <<catalog, rules, requested, phase, errors, calls, selected, missing, blocked,
          indegree, queue, order, cycle>>

(* A row: "open" is an application a customer may select, "hidden" only a    *)
(* dependency, "barred" an enterprise, non-installable or invalid module,    *)
(* "absent" no active row.                                                   *)
Kinds == {"open", "hidden", "barred", "absent"}

SelectionAssumption ==
    /\ Modules \subseteq Nat /\ IsFiniteSet(Modules)
    /\ Catalogs \subseteq [kind : [Modules -> Kinds], deps : [Modules -> SUBSET Modules],
                           auto : [Modules -> SUBSET Modules]]
    /\ Requests \subseteq Seq(Modules)

Elements(s) == {s[i] : i \in 1 .. Len(s)}
Least(S) == CHOOSE x \in S : \A y \in S : x <= y
Ascending(S) == [i \in 1 .. Cardinality(S) |->
                   CHOOSE x \in S : Cardinality({y \in S : y < x}) = i - 1]

Init ==
    /\ catalog \in Catalogs /\ rules \in Rulesets /\ requested \in Requests
    /\ phase = "validate" /\ errors = {} /\ calls = <<>>
    /\ selected = {} /\ missing = {} /\ blocked = {}
    /\ indegree = [m \in Modules |-> 0] /\ queue = {} /\ order = <<>> /\ cycle = {}

---------------------------------------------------------------------------
(* The plan. *)

(* catalog_blocks_module *)
catalog_blocks_module(m) == catalog.kind[m] # "open"

(* evaluate_module_rule: a block of the module or of its category, then a    *)
(* requirement, then an allowance; no rule denies.                           *)
evaluate_module_rule(m) ==
    IF catalog_blocks_module(m) THEN "blocked"
    ELSE IF "blocked" \in rules.module[m] \cup rules.category THEN "blocked"
    ELSE IF "required" \in rules.module[m] THEN "required"
    ELSE IF "allowed" \in rules.module[m] \cup rules.category THEN "allowed"
    ELSE "denied"

(* list_active_rules: the modules the plan adds to every selection. *)
Required == {m \in Modules : "required" \in rules.module[m] /\ catalog.kind[m] # "absent"}

(* The requested applications that count, and the refusals of the others. *)
RequestedApps == SelectSeq(requested, LAMBDA m :
                    m \notin Required /\ evaluate_module_rule(m) \in {"allowed", "required"})

Refusal(m) == IF m \in Required THEN {}
              ELSE IF catalog.kind[m] = "absent" THEN {"unknown_module"}
              ELSE IF catalog_blocks_module(m) THEN {"catalog_blocked"}
              ELSE IF evaluate_module_rule(m) \in {"allowed", "required"} THEN {}
              ELSE {"plan_refused"}

Unknown == {m \in Elements(requested) : catalog.kind[m] = "absent"}

(* The checks of validate_plan_module_selection; then resolve_module_selection *)
(* with the required modules after the requested, or its early return.         *)
validate_plan_module_selection ==
    /\ phase = "validate"
    /\ errors' = (UNION {Refusal(m) : m \in Elements(requested)})
                   \cup (IF Len(RequestedApps) > MaxSelectedApps THEN {"app_limit_exceeded"} ELSE {})
                   \cup (IF Unknown # {} THEN {"dependency_error"} ELSE {})
    /\ IF Unknown # {}
       THEN phase' = "done" /\ UNCHANGED calls
       ELSE /\ phase' = "resolve"
            /\ calls' = [i \in 1 .. Len(requested) |-> <<requested[i], TRUE>>]
                          \o [i \in 1 .. Cardinality(Required \ Elements(requested)) |->
                                <<Ascending(Required \ Elements(requested))[i], TRUE>>]
    /\ UNCHANGED <<catalog, rules, requested, selected, missing, blocked,
                   indegree, queue, order, cycle>>

---------------------------------------------------------------------------
(* The closure. *)

(* Mutant: the auto_install list is not followed. *)
NeedsDepsOnly(m) == LET needs == Ascending(catalog.deps[m])
                    IN [i \in 1 .. Len(needs) |-> <<needs[i], FALSE>>]

(* The calls add_module makes for a module it selects: its required          *)
(* dependencies, then its auto_install list.                                 *)
Needs(m) == LET needs == Ascending(catalog.deps[m]) \o Ascending(catalog.auto[m])
            IN [i \in 1 .. Len(needs) |-> <<needs[i], FALSE>>]

add_module ==
    /\ phase = "resolve" /\ calls # <<>>
    /\ LET m == Head(calls)[1]
           kind == catalog.kind[m]
           refuse == kind = "barred" \/ (kind = "hidden" /\ Head(calls)[2])
       IN IF m \in selected
          THEN calls' = Tail(calls) /\ UNCHANGED <<selected, missing, blocked, errors>>
          ELSE IF kind = "absent"
          THEN /\ missing' = missing \cup {m} /\ calls' = Tail(calls)
               /\ UNCHANGED <<selected, blocked, errors>>
          ELSE IF refuse
          THEN /\ blocked' = blocked \cup {m} /\ errors' = errors \cup {"dependency_error"}
               /\ calls' = Tail(calls) /\ UNCHANGED <<selected, missing>>
          ELSE /\ selected' = selected \cup {m} /\ calls' = Needs(m) \o Tail(calls)
               /\ UNCHANGED <<missing, blocked, errors>>
    /\ UNCHANGED <<catalog, rules, requested, phase, indegree, queue, order, cycle>>

---------------------------------------------------------------------------
(* The order. *)

(* The edges of the graph: required dependencies that are selected. *)
graph(m) == (catalog.deps[m] \cap selected) \ {m}

(* Mutant: a module with one dependency counts as one without. *)
StartOrderShort ==
    /\ phase = "resolve" /\ calls = <<>>
    /\ phase' = "order"
    /\ indegree' = [m \in Modules |-> IF m \in selected THEN Cardinality(graph(m)) ELSE 0]
    /\ queue' = {m \in selected : Cardinality(graph(m)) <= 1}
    /\ UNCHANGED <<catalog, rules, requested, errors, calls, selected, missing, blocked,
                   order, cycle>>

StartOrder ==
    /\ phase = "resolve" /\ calls = <<>>
    /\ phase' = "order"
    /\ indegree' = [m \in Modules |-> IF m \in selected THEN Cardinality(graph(m)) ELSE 0]
    /\ queue' = {m \in selected : graph(m) = {}}
    /\ UNCHANGED <<catalog, rules, requested, errors, calls, selected, missing, blocked,
                   order, cycle>>

_topological_order ==
    /\ phase = "order" /\ queue # {}
    /\ LET n == Least(queue)
           lower == [m \in Modules |-> IF m \in selected /\ n \in graph(m)
                                       THEN indegree[m] - 1 ELSE indegree[m]]
       IN /\ order' = Append(order, n)
          /\ indegree' = lower
          /\ queue' = (queue \ {n}) \cup {m \in selected : n \in graph(m) /\ lower[m] = 0}
    /\ UNCHANGED <<catalog, rules, requested, phase, errors, calls, selected, missing,
                   blocked, cycle>>

(* The modules left with a positive degree are reported as a cycle. *)
resolve_module_selection ==
    /\ phase = "order" /\ queue = {}
    /\ phase' = "done"
    /\ cycle' = IF Len(order) = Cardinality(selected) THEN {}
                ELSE {m \in selected : indegree[m] > 0}
    /\ errors' = IF cycle' = {} THEN errors ELSE errors \cup {"dependency_cycle"}
    /\ UNCHANGED <<catalog, rules, requested, calls, selected, missing, blocked,
                   indegree, queue, order>>

---------------------------------------------------------------------------

Next == \/ validate_plan_module_selection \/ add_module \/ StartOrder
        \/ _topological_order \/ resolve_module_selection

Spec == Init /\ [][Next]_vars

Fairness == WF_vars(Next)

---------------------------------------------------------------------------

TypeOK ==
    /\ phase \in {"validate", "resolve", "order", "done"}
    /\ selected \subseteq Modules /\ missing \subseteq Modules /\ blocked \subseteq Modules
    /\ indegree \in [Modules -> Int] /\ queue \subseteq selected
    /\ cycle \subseteq selected /\ Elements(order) \subseteq selected

(* The least set of modules that holds the roots and, with a module, every   *)
(* module of the catalogue it needs.                                         *)
Closed(S) == \A m \in S : (catalog.deps[m] \cup catalog.auto[m]) \ missing \subseteq S
Closure == LET roots == Elements(requested) \cup Required
           IN CHOOSE S \in SUBSET Modules :
                /\ roots \subseteq S /\ Closed(S)
                /\ \A T \in SUBSET Modules : roots \subseteq T /\ Closed(T) => S \subseteq T

(* A valid selection installs exactly the closure of what was asked and what *)
(* the plan requires, no module of it barred by the catalogue, each once and *)
(* after the modules it depends on (add_module, _topological_order).         *)
ValidInstallsClosure ==
    phase = "done" /\ errors = {} =>
        /\ selected = Closure
        /\ \A m \in selected : catalog.kind[m] \notin {"barred", "absent"}
        /\ Len(order) = Cardinality(selected) /\ Elements(order) = selected
        /\ \A i \in 1 .. Len(order) : graph(order[i]) \subseteq {order[j] : j \in 1 .. i - 1}

(* A cycle is reported exactly when some selected modules each need another  *)
(* of them (_topological_order).                                             *)
CycleIsReported ==
    phase = "done" /\ calls = <<>> =>
        ("dependency_cycle" \in errors
            <=> \E S \in SUBSET selected : S # {} /\ \A m \in S : graph(m) \cap S # {})

(* A selection that is accepted needs nothing the catalogue lacks: the       *)
(* result's missing_dependencies say what could not be found.                *)
ValidIsComplete == phase = "done" /\ errors = {} => missing = {}
===============================================================================
