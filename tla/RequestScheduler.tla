--------------------------- MODULE RequestScheduler ---------------------------
(***************************************************************************)
(* The fair queue in front of contract queries.                            *)
(*                                                                         *)
(* At most depth queries run at a time.  A query that finds all slots      *)
(* taken waits in the backlog under a start tag: the virtual time at which *)
(* its flow (the contract) has paid for its earlier queries.  A slot that  *)
(* is released goes to the smallest tag.  A full backlog turns the new     *)
(* query away, or drops the one with the largest tag if that is later.     *)
(*                                                                         *)
(* All state is behind one mutex, so that an operation is a step.  A query *)
(* that is abandoned while it waits stays in the backlog with nobody at    *)
(* the other end of its channel.                                           *)
(***************************************************************************)
EXTENDS Integers, Sequences, FiniteSets

CONSTANTS Flows,       \* contracts that are queried
          Weights,     \* weights of contracts
          Costs,       \* costs a query may turn out to have
          backlog_cap,
          depth,
          MaxRequests  \* bound: queries that are made

ASSUME ConstantsAssumption ==
    /\ Weights \subseteq Nat /\ Costs \subseteq Nat
    /\ backlog_cap \in Nat \ {0} /\ depth \in Nat \ {0} /\ MaxRequests \in Nat

VARIABLES
    requests,      \* the queries in the order in which they were made
    flows,         \* what the scheduler knows of each flow
    backlog,       \* queries that wait, by number
    serving,       \* slots in use
    virtual_time,
    stuck          \* a thread waits for the mutex that it holds itself

vars == <<requests, flows, backlog, serving, virtual_time, stuck>>

-----------------------------------------------------------------------------

States == {"waiting", "serving", "done", "overloaded", "dropped", "abandoned"}

Larger(a, b) == IF a >= b THEN a ELSE b

Tag(r) == requests[r].start_tag

(* The tree of waiting queries keeps equal tags in any order.              *)
First == {r \in backlog : \A q \in backlog : Tag(r) <= Tag(q)}

Last == {r \in backlog : \A q \in backlog : Tag(q) <= Tag(r)}

(* A flow is created on demand, with nothing paid and no known cost.       *)
Init ==
    /\ requests = <<>>
    /\ flows = [f \in Flows |-> [previous_finish_tag |-> 0, average_cost |-> 0]]
    /\ backlog = {}
    /\ serving = 0
    /\ virtual_time = 0
    /\ stuck = FALSE

-----------------------------------------------------------------------------
(* acquire.                                                                *)

(* Fault: a query starts when the flow has paid, even in the past.         *)
FinishTagOnly(f) == flows[f].previous_finish_tag

StartTag(f) == Larger(virtual_time, flows[f].previous_finish_tag)

EstimatedCost(f, weight) ==
    Larger(flows[f].average_cost \div Larger(weight, 1), 1)

NewRequest(f, weight, state) ==
    [flow |-> f, start_tag |-> StartTag(f), cost |-> EstimatedCost(f, weight),
     state |-> state]

Full == Cardinality(backlog) >= backlog_cap

LeastUrgent(f) == \A r \in Last : StartTag(f) >= Tag(r)

(* The flow of a query that is turned away has paid up to its start tag.   *)
TurnAway(f, weight) ==
    /\ requests' = Append(requests, NewRequest(f, weight, "overloaded"))
    /\ flows' = [flows EXCEPT ![f].previous_finish_tag = StartTag(f)]
    /\ UNCHANGED <<backlog, serving, virtual_time, stuck>>

(* The flow of a query that is dropped gets the query's cost back.         *)
Refund(paid, r) ==
    [paid EXCEPT ![requests[r].flow].previous_finish_tag = @ - requests[r].cost]

(* What the flows have paid for once the new query has entered.            *)
Paid(f, weight) ==
    [flows EXCEPT ![f].previous_finish_tag = StartTag(f) + EstimatedCost(f, weight)]

(* A new query pays, the dropped one (if any) leaves, and the new one is   *)
(* dispatched or waits.                                                    *)
Enter(f, weight, dropped, paid) ==
    LET new == Len(requests) + 1
        dispatched == serving < depth
    IN  /\ requests' = Append([r \in DOMAIN requests |->
                                   IF r \in dropped
                                   THEN [requests[r] EXCEPT !.state = "dropped"]
                                   ELSE requests[r]],
                              NewRequest(f, weight, IF dispatched THEN "serving"
                                                                  ELSE "waiting"))
        /\ flows' = paid
        /\ backlog' = (backlog \ dropped) \cup (IF dispatched THEN {} ELSE {new})
        /\ serving' = IF dispatched THEN serving + 1 ELSE serving
        /\ virtual_time' = IF dispatched THEN StartTag(f) ELSE virtual_time
        /\ UNCHANGED stuck

DropLast(f, weight) ==
    \E r \in Last : Enter(f, weight, {r}, Refund(Paid(f, weight), r))

Acquire(f, weight) ==
    /\ ~stuck
    /\ Len(requests) < MaxRequests
    /\ \/ Full /\ LeastUrgent(f) /\ TurnAway(f, weight)
       \/ Full /\ ~LeastUrgent(f) /\ DropLast(f, weight)
       \/ ~Full /\ Enter(f, weight, {}, Paid(f, weight))

(* The future that awaits a slot is dropped, and the receiver with it.     *)
Abandon(r) ==
    /\ requests[r].state = "waiting"
    /\ requests' = [requests EXCEPT ![r].state = "abandoned"]
    /\ UNCHANGED <<flows, backlog, serving, virtual_time, stuck>>

-----------------------------------------------------------------------------
(* release, when a ServingGuard is dropped.                                *)

(* try_pickup_next and dispatch, still under the lock: a guard that nobody *)
(* receives is dropped at once, and its destructor takes the lock again.   *)
PickNext(r) ==
    \E next \in First :
        /\ backlog' = backlog \ {next}
        /\ virtual_time' = Tag(next)
        /\ stuck' = (requests[next].state = "abandoned")
        /\ requests' = [requests EXCEPT
               ![r].state = "done",
               ![next].state = IF @ = "waiting" THEN "serving" ELSE @]
        /\ UNCHANGED serving

(* Fault: a slot that nobody waits for is not given back.                  *)
KeepSlot(r) ==
    /\ backlog = {}
    /\ requests' = [requests EXCEPT ![r].state = "done"]
    /\ UNCHANGED <<backlog, serving, virtual_time, stuck>>

FreeSlot(r) ==
    /\ backlog = {}
    /\ serving' = serving - 1
    /\ requests' = [requests EXCEPT ![r].state = "done"]
    /\ UNCHANGED <<backlog, virtual_time, stuck>>

(* Fault: the slot is freed although queries wait.                         *)
ReleaseOnly(r, actual_cost) ==
    /\ ~stuck
    /\ requests[r].state = "serving"
    /\ serving' = serving - 1
    /\ requests' = [requests EXCEPT ![r].state = "done"]
    /\ flows' = [flows EXCEPT ![requests[r].flow].average_cost =
                                  (@ * 4 + actual_cost) \div 5]
    /\ UNCHANGED <<backlog, virtual_time, stuck>>

Release(r, actual_cost) ==
    /\ ~stuck
    /\ requests[r].state = "serving"
    /\ flows' = [flows EXCEPT ![requests[r].flow].average_cost =
                                  (@ * 4 + actual_cost) \div 5]
    /\ PickNext(r) \/ FreeSlot(r)

Next ==
    \/ \E f \in Flows, w \in Weights : Acquire(f, w)
    \/ \E r \in DOMAIN requests : Abandon(r)
    \/ \E r \in DOMAIN requests, c \in Costs : Release(r, c)

(* Every query that has its slot ends some time.                           *)
Fairness ==
    \A r \in 1..MaxRequests :
        WF_vars(r \in DOMAIN requests /\ \E c \in Costs : Release(r, c))

Spec == Init /\ [][Next]_vars /\ Fairness

-----------------------------------------------------------------------------
(* Properties.                                                             *)

Requests == [flow : Flows, start_tag : Nat, cost : Nat \ {0}, state : States]

FlowStates == [previous_finish_tag : Nat, average_cost : Nat]

(* The scheduler's state is well formed: no counter of acquire or release  *)
(* underflows and the backlog keeps to its capacity.                       *)
TypeOK ==
    /\ requests \in Seq(Requests)
    /\ Len(requests) <= MaxRequests
    /\ flows \in [Flows -> FlowStates]
    /\ backlog \subseteq DOMAIN requests
    /\ Cardinality(backlog) <= backlog_cap
    /\ serving \in 0..depth
    /\ virtual_time \in Nat
    /\ stuck \in BOOLEAN

(* A query waits only while all slots are in use by other queries, however *)
(* queries enter, end, are dropped or abandoned (acquire, release): no     *)
(* slot leaks, and no place in the backlog.                                *)
WorkConserving ==
    /\ ~stuck => serving = Cardinality({r \in DOMAIN requests :
                                            requests[r].state = "serving"})
    /\ backlog # {} => serving = depth
    /\ Cardinality(backlog) <= backlog_cap
    /\ \A r \in DOMAIN requests : requests[r].state = "waiting" => r \in backlog

(* The queries of a contract are served in the order in which they were    *)
(* made, whatever the weights, the costs and the refunds for dropped       *)
(* queries do to the tags of acquire.                                      *)
FlowFifo ==
    \A q, r \in DOMAIN requests :
        (q < r /\ requests[q].flow = requests[r].flow /\ requests[q].state = "waiting")
            => requests[r].state \notin {"serving", "done"}

(* Virtual time never passes a query that waits: dispatch serves nobody    *)
(* whose flow has paid for a later time while an earlier one waits, and a  *)
(* new flow cannot start in the past.                                      *)
NotPassedOver == \A r \in backlog : virtual_time <= Tag(r)

(* Queries are served in order, within a contract and between contracts.   *)
ServedInOrder == FlowFifo /\ NotPassedOver

Waiting(r) == r \in DOMAIN requests /\ requests[r].state = "waiting"

(* A query that waits gets a slot, is dropped for a more urgent one or is  *)
(* abandoned, however many others come (dispatch and the backlog's order), *)
(* as long as the scheduler does not block itself (HandsOnSlot).           *)
Served == \A r \in 1..MaxRequests : Waiting(r) ~> (~Waiting(r) \/ stuck)

(* When dispatch finds that nobody waits for the slot any more, the slot   *)
(* is handed on to the next query ("would further try to pickup next       *)
(* request"): the mutex is never left locked.  It does not hold: README.   *)
HandsOnSlot == ~stuck
=============================================================================
