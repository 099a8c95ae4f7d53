------------------------ MODULE RequestSchedulerProofs ------------------------
(***************************************************************************)
(* Proofs about the fair queue, for any flows, weights, costs, capacity    *)
(* and depth, and any number of queries.                                   *)
(***************************************************************************)
EXTENDS RequestScheduler, FiniteSetTheorems, TLAPS

Cost(r) == requests[r].cost

Serving == {r \in DOMAIN requests : requests[r].state = "serving"}

(* A query in the backlog still waits, or was abandoned there.             *)
BacklogWaits == \A r \in backlog : requests[r].state \in {"waiting", "abandoned"}

(* A flow has paid for each of its queries in the backlog.                 *)
PaidFor ==
    \A r \in backlog : Tag(r) + Cost(r) <= flows[requests[r].flow].previous_finish_tag

(* A query starts after the earlier ones of its flow have paid.            *)
TagsInOrder ==
    \A q, r \in backlog :
        (q < r /\ requests[q].flow = requests[r].flow) => Tag(q) + Cost(q) <= Tag(r)

(* The inductive invariant: a refund can only be taken back from the last  *)
(* query that a flow has paid for, and cannot make a tag negative or put a *)
(* query before an earlier one of its flow.                                *)
IInv ==
    /\ TypeOK
    /\ BacklogWaits
    /\ PaidFor
    /\ TagsInOrder
    /\ WorkConserving
    /\ ServedInOrder

-----------------------------------------------------------------------------
(* Lemmas on the operators of the model.                                   *)

(* What the type invariant says of single queries and flows.               *)
LEMMA Types ==
    ASSUME TypeOK
    PROVE  /\ Len(requests) \in Nat /\ DOMAIN requests = 1..Len(requests)
           /\ \A r \in DOMAIN requests : /\ requests[r] \in Requests
                                         /\ requests[r].flow \in Flows
                                         /\ Tag(r) \in Nat /\ Cost(r) \in Nat \ {0}
                                         /\ requests[r].state \in States
           /\ \A f \in Flows : /\ flows[f] \in FlowStates
                               /\ flows[f].previous_finish_tag \in Nat
                               /\ flows[f].average_cost \in Nat
           /\ IsFiniteSet(backlog) /\ IsFiniteSet(Serving)
<1>1. Len(requests) \in Nat /\ DOMAIN requests = 1..Len(requests)
  BY DEF TypeOK
<1>2. IsFiniteSet(1..Len(requests))
  BY <1>1, FS_Interval
<1>3. IsFiniteSet(backlog) /\ IsFiniteSet(Serving)
  BY <1>1, <1>2, FS_Subset DEF TypeOK, Serving
<1>4. ASSUME NEW r \in DOMAIN requests
      PROVE  /\ requests[r] \in Requests /\ requests[r].flow \in Flows
             /\ Tag(r) \in Nat /\ Cost(r) \in Nat \ {0}
             /\ requests[r].state \in States
  <2>1. requests[r] \in Requests
    BY <1>1 DEF TypeOK
  <2> QED
    BY <2>1 DEF Requests, Tag, Cost
<1>5. ASSUME NEW f \in Flows
      PROVE  /\ flows[f] \in FlowStates
             /\ flows[f].previous_finish_tag \in Nat
             /\ flows[f].average_cost \in Nat
  BY DEF TypeOK, FlowStates
<1> QED
  BY <1>1, <1>3, <1>4, <1>5

(* Division of naturals by a positive natural.                             *)
LEMMA DivNat ==
    ASSUME NEW a \in Nat, NEW b \in Nat \ {0}
    PROVE  a \div b \in Nat
  OBVIOUS

(* A new query starts at the virtual time or when its flow has paid, and   *)
(* costs something.                                                        *)
LEMMA NewTypes ==
    ASSUME TypeOK, NEW f \in Flows, NEW w \in Weights
    PROVE  /\ StartTag(f) \in Nat /\ StartTag(f) >= virtual_time
           /\ StartTag(f) >= flows[f].previous_finish_tag
           /\ EstimatedCost(f, w) \in Nat \ {0}
<1>1. virtual_time \in Nat /\ flows[f].previous_finish_tag \in Nat
      /\ flows[f].average_cost \in Nat /\ w \in Nat
  BY Types, ConstantsAssumption DEF TypeOK
<1>2. Larger(w, 1) \in Nat \ {0}
  BY <1>1 DEF Larger
<1>3. flows[f].average_cost \div Larger(w, 1) \in Nat
  BY <1>1, <1>2, DivNat
<1> QED
  BY <1>1, <1>3 DEF StartTag, EstimatedCost, Larger

-----------------------------------------------------------------------------
(* One lemma for each action.                                              *)

(* A query is turned away.                                                 *)
LEMMA TurnAwayKeeps ==
    ASSUME IInv, NEW f \in Flows, NEW w \in Weights,
           Len(requests) < MaxRequests, TurnAway(f, w)
    PROVE  IInv'
<1> DEFINE new == NewRequest(f, w, "overloaded")
           n == Len(requests) + 1
<1> TypeOK
  BY DEF IInv
<1>1. new \in Requests /\ new.state = "overloaded"
  BY NewTypes DEF NewRequest, Requests, States
<1>2. requests' = Append(requests, new)
  BY DEF TurnAway
<1> HIDE DEF new
<1>3. /\ requests' \in Seq(Requests) /\ Len(requests') = n
      /\ DOMAIN requests' = 1..n /\ requests'[n] = new
      /\ \A r \in DOMAIN requests : r \in DOMAIN requests' /\ requests'[r] = requests[r]
  BY <1>1, <1>2, Types DEF TypeOK
<1>4. \A r \in DOMAIN requests' : r \in DOMAIN requests \/ r = n
  BY <1>3, Types
<1>5. flows' \in [Flows -> FlowStates]
      /\ \A g \in Flows : flows'[g].previous_finish_tag >= flows[g].previous_finish_tag
  <2>1. flows' = [flows EXCEPT ![f].previous_finish_tag = StartTag(f)]
    BY DEF TurnAway
  <2>2. flows \in [Flows -> FlowStates] /\ StartTag(f) \in Nat
        /\ StartTag(f) >= flows[f].previous_finish_tag
    BY NewTypes DEF TypeOK
  <2>3. ASSUME NEW g \in Flows
        PROVE  /\ flows'[g] \in FlowStates
               /\ flows'[g].previous_finish_tag >= flows[g].previous_finish_tag
    <3>1. CASE g = f
      BY <2>1, <2>2, <3>1 DEF FlowStates
    <3>2. CASE g # f
      BY <2>1, <2>2, <3>2 DEF FlowStates
    <3> QED
      BY <3>1, <3>2
  <2>4. flows' = [g \in Flows |-> flows'[g]]
    BY <2>1, <2>2
  <2> QED
    BY <2>3, <2>4
<1>6. backlog' = backlog /\ serving' = serving /\ virtual_time' = virtual_time
      /\ stuck' = stuck /\ backlog \subseteq DOMAIN requests
  BY DEF TurnAway, TypeOK
<1>7. TypeOK'
  BY <1>3, <1>5, <1>6, Types, ConstantsAssumption DEF TypeOK
<1>8. Serving' = Serving
  BY <1>1, <1>3, <1>4 DEF Serving
<1>9. BacklogWaits' /\ TagsInOrder'
  BY <1>3, <1>6 DEF IInv, BacklogWaits, TagsInOrder, Tag, Cost
<1>10. PaidFor'
  <2> SUFFICES ASSUME NEW r \in backlog
               PROVE  Tag(r) + Cost(r) <= flows'[requests[r].flow].previous_finish_tag
    BY <1>3, <1>6 DEF PaidFor, Tag, Cost
  <2>1. /\ Tag(r) \in Nat /\ Cost(r) \in Nat /\ requests[r].flow \in Flows
        /\ Tag(r) + Cost(r) <= flows[requests[r].flow].previous_finish_tag
    BY <1>6, Types DEF IInv, PaidFor
  <2> DEFINE g == requests[r].flow
  <2>2. flows[g].previous_finish_tag \in Nat /\ flows'[g].previous_finish_tag \in Nat
    BY <2>1, <1>5, Types DEF FlowStates
  <2> QED
    BY <2>1, <2>2, <1>5
<1>11. WorkConserving'
  BY <1>1, <1>3, <1>4, <1>6, <1>8 DEF IInv, WorkConserving, Serving
<1>12. ServedInOrder'
  <2>1. NotPassedOver'
    BY <1>3, <1>6 DEF IInv, ServedInOrder, NotPassedOver, Tag
  <2>2. FlowFifo'
    BY <1>1, <1>3, <1>4 DEF IInv, ServedInOrder, FlowFifo
  <2> QED
    BY <2>1, <2>2 DEF ServedInOrder
<1> QED
  BY <1>7, <1>9, <1>10, <1>11, <1>12 DEF IInv

(* What a flow has paid for once a new query has entered, and with the     *)
(* cost of a query of another flow given back.                             *)
LEMMA PaidType ==
    ASSUME TypeOK, NEW f \in Flows, NEW w \in Weights
    PROVE  /\ Paid(f, w) \in [Flows -> FlowStates]
           /\ Paid(f, w)[f].previous_finish_tag = StartTag(f) + EstimatedCost(f, w)
           /\ \A g \in Flows \ {f} : Paid(f, w)[g] = flows[g]
<1>1. flows \in [Flows -> FlowStates] /\ StartTag(f) + EstimatedCost(f, w) \in Nat
  BY NewTypes DEF TypeOK
<1>2. ASSUME NEW g \in Flows
      PROVE  Paid(f, w)[g] \in FlowStates
  <2>1. CASE g = f
    BY <1>1, <2>1 DEF Paid, FlowStates
  <2>2. CASE g # f
    BY <1>1, <2>2 DEF Paid
  <2> QED
    BY <2>1, <2>2
<1> QED
  BY <1>1, <1>2 DEF Paid, FlowStates

(* A query enters, for another one or with room in the backlog.            *)
LEMMA EnterKeeps ==
    ASSUME IInv, NEW f \in Flows, NEW w \in Weights,
           Len(requests) < MaxRequests, ~stuck,
           NEW dropped \in SUBSET backlog,
           NEW paid \in [Flows -> FlowStates],
           Cardinality(backlog \ dropped) < backlog_cap,
           paid[f].previous_finish_tag = StartTag(f) + EstimatedCost(f, w),
           \A r \in backlog \ dropped :
               Tag(r) + Cost(r) <= paid[requests[r].flow].previous_finish_tag,
           Enter(f, w, dropped, paid)
    PROVE  IInv'
<1> DEFINE dispatched == serving < depth
           new == NewRequest(f, w, IF dispatched THEN "serving" ELSE "waiting")
           n == Len(requests) + 1
           old == [r \in DOMAIN requests |->
                       IF r \in dropped THEN [requests[r] EXCEPT !.state = "dropped"]
                       ELSE requests[r]]
<1> TypeOK
  BY DEF IInv
<1>1. /\ new \in Requests /\ new.flow = f /\ new.start_tag = StartTag(f)
      /\ new.cost = EstimatedCost(f, w)
      /\ new.state = IF dispatched THEN "serving" ELSE "waiting"
  BY NewTypes DEF NewRequest, Requests, States
<1>2. requests' = Append(old, new)
  BY DEF Enter
<1>3. ASSUME NEW r \in DOMAIN requests
      PROVE  /\ old[r] \in Requests /\ old[r].flow = requests[r].flow
             /\ old[r].start_tag = Tag(r) /\ old[r].cost = Cost(r)
             /\ old[r].state = IF r \in dropped THEN "dropped" ELSE requests[r].state
  BY Types DEF Requests, Tag, Cost, States
<1>4. old \in Seq(Requests) /\ Len(old) = Len(requests)
  BY <1>3, Types
<1> HIDE DEF new, old
<1>5. /\ requests' \in Seq(Requests) /\ Len(requests') = n
      /\ DOMAIN requests' = 1..n /\ requests'[n] = new
      /\ \A r \in DOMAIN requests : r \in DOMAIN requests' /\ requests'[r] = old[r]
  BY <1>1, <1>2, <1>4, Types
<1>6. \A r \in DOMAIN requests' : r \in DOMAIN requests \/ r = n
  BY <1>5, Types
<1>7. /\ flows' = paid /\ stuck' = stuck
      /\ backlog' = (backlog \ dropped) \cup (IF dispatched THEN {} ELSE {n})
      /\ serving' = IF dispatched THEN serving + 1 ELSE serving
      /\ virtual_time' = IF dispatched THEN StartTag(f) ELSE virtual_time
  BY DEF Enter
<1>8. backlog \subseteq DOMAIN requests /\ n \notin DOMAIN requests
  BY Types DEF TypeOK
<1>9. dispatched => backlog = {} /\ dropped = {}
  BY ConstantsAssumption DEF IInv, WorkConserving, TypeOK
<1>10. \A r \in backlog' : \/ r \in backlog /\ r \notin dropped
                           \/ r = n /\ ~dispatched
  <2>1. CASE dispatched
    BY <2>1, <1>7
  <2>2. CASE ~dispatched
    BY <2>2, <1>7
  <2> QED
    BY <2>1, <2>2
<1>11. Cardinality(backlog') <= backlog_cap /\ backlog' \subseteq DOMAIN requests'
  <2>1. IsFiniteSet(backlog \ dropped) /\ Cardinality(backlog \ dropped) \in Nat
    BY Types, FS_Subset, FS_CardinalityType
  <2>2. CASE dispatched
    BY <2>1, <2>2, <1>5, <1>7, <1>8, ConstantsAssumption
  <2>3. CASE ~dispatched
    <3>1. backlog' = (backlog \ dropped) \cup {n} /\ n \notin backlog \ dropped
      BY <1>7, <1>8, <2>3
    <3>2. Cardinality(backlog') = Cardinality(backlog \ dropped) + 1
      BY <3>1, <2>1, FS_AddElement
    <3> QED
      BY <3>1, <3>2, <2>1, <1>5, <1>8, Types, ConstantsAssumption
  <2> QED
    BY <2>2, <2>3
<1>12. serving' \in 0..depth /\ virtual_time' \in Nat
  BY <1>7, NewTypes, ConstantsAssumption DEF TypeOK
<1>13. TypeOK'
  BY <1>5, <1>7, <1>11, <1>12, Types, ConstantsAssumption DEF TypeOK
<1>14. BacklogWaits'
  BY <1>1, <1>3, <1>5, <1>8, <1>10 DEF IInv, BacklogWaits
<1>15. PaidFor'
  <2> SUFFICES ASSUME NEW r \in backlog'
               PROVE  (Tag(r) + Cost(r))' <= paid[requests'[r].flow].previous_finish_tag
    BY <1>7 DEF PaidFor
  <2>1. CASE r \in backlog /\ r \notin dropped
    BY <2>1, <1>3, <1>5, <1>8 DEF Tag, Cost
  <2>2. CASE r = n
    BY <2>2, <1>1, <1>5, NewTypes DEF Tag, Cost
  <2> QED
    BY <2>1, <2>2, <1>10
<1>16. TagsInOrder'
  <2> SUFFICES ASSUME NEW q \in backlog', NEW r \in backlog', q < r,
                      requests'[q].flow = requests'[r].flow
               PROVE  (Tag(q) + Cost(q))' <= Tag(r)'
    BY DEF TagsInOrder
  <2>1. q \in backlog /\ q \notin dropped
    BY <1>8, <1>10, Types
  <2>2. CASE r \in backlog
    BY <2>1, <2>2, <1>3, <1>5, <1>8 DEF IInv, TagsInOrder, Tag, Cost
  <2>3. CASE r = n
    <3>1. Tag(q) + Cost(q) <= flows[f].previous_finish_tag
      BY <2>1, <2>3, <1>1, <1>3, <1>5, <1>8 DEF IInv, PaidFor
    <3>2. (Tag(q) + Cost(q))' = Tag(q) + Cost(q) /\ Tag(r)' = StartTag(f)
      BY <2>1, <2>3, <1>1, <1>3, <1>5, <1>8 DEF Tag, Cost
    <3>3. Tag(q) + Cost(q) \in Nat
      BY <2>1, <1>8, Types
    <3> QED
      BY <3>1, <3>2, <3>3, NewTypes, Types
  <2> QED
    BY <2>2, <2>3, <1>10
<1>17. WorkConserving'
  <2>1. Serving' = IF dispatched THEN Serving \cup {n} ELSE Serving
    <3>1. \A r \in dropped : r \in DOMAIN requests /\ requests[r].state # "serving"
      BY <1>8 DEF IInv, BacklogWaits
    <3> QED
      BY <3>1, <1>1, <1>3, <1>5, <1>6, <1>8 DEF Serving
  <2>2. Cardinality(Serving)' = serving'
    <3>1. serving = Cardinality(Serving) /\ n \notin Serving /\ IsFiniteSet(Serving)
      BY <1>8, Types DEF IInv, WorkConserving, Serving
    <3>2. Cardinality(Serving \cup {n}) = serving + 1
      BY <3>1, FS_AddElement
    <3> QED
      BY <3>1, <3>2, <2>1, <1>7
  <2>3. backlog' # {} => serving' = depth
    BY <1>7, <1>9, ConstantsAssumption DEF TypeOK
  <2>4. \A r \in DOMAIN requests' : requests'[r].state = "waiting" => r \in backlog'
    <3> TAKE r \in DOMAIN requests'
    <3>1. CASE r = n
      BY <3>1, <1>1, <1>5, <1>7
    <3>2. CASE r \in DOMAIN requests
      BY <3>2, <1>3, <1>5, <1>7 DEF IInv, WorkConserving
    <3> QED
      BY <3>1, <3>2, <1>6
  <2> QED
    BY <2>2, <2>3, <2>4, <1>11 DEF WorkConserving, Serving
<1>18. NotPassedOver'
  <2> SUFFICES ASSUME NEW r \in backlog' PROVE virtual_time' <= Tag(r)'
    BY DEF NotPassedOver
  <2>1. CASE r \in backlog
    BY <2>1, <1>3, <1>5, <1>7, <1>8, <1>9 DEF IInv, ServedInOrder, NotPassedOver, Tag
  <2>2. CASE r = n /\ ~dispatched
    BY <2>2, <1>1, <1>5, <1>7, NewTypes DEF Tag
  <2> QED
    BY <2>1, <2>2, <1>10
<1>19. FlowFifo'
  <2> SUFFICES ASSUME NEW q \in DOMAIN requests', NEW r \in DOMAIN requests', q < r,
                      requests'[q].flow = requests'[r].flow,
                      requests'[q].state = "waiting"
               PROVE  requests'[r].state \notin {"serving", "done"}
    BY DEF FlowFifo
  <2>1. q \in DOMAIN requests
    BY <1>6, <1>8, <1>5, Types
  <2>2. requests[q].state = "waiting" /\ requests[q].flow = requests'[q].flow
        /\ q \in backlog
    BY <2>1, <1>3, <1>5 DEF IInv, WorkConserving
  <2>3. CASE r \in DOMAIN requests
    BY <2>1, <2>2, <2>3, <1>3, <1>5 DEF IInv, ServedInOrder, FlowFifo
  <2>4. CASE r = n
    BY <2>2, <2>4, <1>1, <1>5, <1>9
  <2> QED
    BY <2>3, <2>4, <1>6
<1> QED
  BY <1>13, <1>14, <1>15, <1>16, <1>17, <1>18, <1>19 DEF IInv, ServedInOrder

(* The dropped query is of another flow, and the last that its flow has    *)
(* paid for: the refund leaves what was paid for the others.               *)
LEMMA DropKeeps ==
    ASSUME IInv, NEW f \in Flows, NEW w \in Weights,
           Len(requests) < MaxRequests, ~stuck, ~LeastUrgent(f), DropLast(f, w)
    PROVE  IInv'
<1> TypeOK
  BY DEF IInv
<1>1. PICK d \in Last : Enter(f, w, {d}, Refund(Paid(f, w), d))
  BY DEF DropLast
<1> DEFINE g == requests[d].flow
           paid == Refund(Paid(f, w), d)
<1>2. /\ d \in backlog /\ d \in DOMAIN requests /\ g \in Flows
      /\ backlog \subseteq DOMAIN requests
      /\ Tag(d) \in Nat /\ Cost(d) \in Nat \ {0}
      /\ \A q \in backlog : Tag(q) <= Tag(d)
  BY Types DEF TypeOK, Last
<1>3. /\ flows[g].previous_finish_tag \in Nat
      /\ flows[g].previous_finish_tag >= Tag(d) + Cost(d)
  BY <1>2, Types DEF IInv, PaidFor
<1>4. StartTag(f) < Tag(d)
  <2>1. PICK r \in Last : ~(StartTag(f) >= Tag(r))
    BY DEF LeastUrgent
  <2>2. r \in backlog /\ Tag(r) \in Nat
    BY <1>2, Types DEF Last
  <2> QED
    BY <2>1, <2>2, <1>2, NewTypes
<1>5. g # f
  BY <1>2, <1>3, <1>4, NewTypes, Types
<1>6. Paid(f, w) \in [Flows -> FlowStates] /\ Paid(f, w)[g] = flows[g]
      /\ Paid(f, w)[f].previous_finish_tag = StartTag(f) + EstimatedCost(f, w)
      /\ \A h \in Flows \ {f} : Paid(f, w)[h] = flows[h]
  BY <1>2, <1>5, PaidType
<1>7. paid = [Paid(f, w) EXCEPT ![g].previous_finish_tag = @ - Cost(d)]
  BY DEF Refund, Cost
<1>8. /\ paid[g].previous_finish_tag = flows[g].previous_finish_tag - Cost(d)
      /\ paid[g] \in FlowStates
  <2>1. Paid(f, w)[g] \in FlowStates
    BY <1>2, <1>6
  <2>2. paid[g] = [flows[g] EXCEPT !.previous_finish_tag = @ - Cost(d)]
    BY <1>2, <1>6, <1>7
  <2>3. flows[g] \in FlowStates /\ flows[g].previous_finish_tag - Cost(d) \in Nat
    BY <2>1, <1>2, <1>3, <1>6
  <2> HIDE DEF g, paid
  <2> QED
    BY <2>2, <2>3 DEF FlowStates
<1>9. \A h \in Flows \ {g} : paid[h] = Paid(f, w)[h]
  BY <1>2, <1>6, <1>7
<1>10. paid \in [Flows -> FlowStates]
  BY <1>2, <1>6, <1>7, <1>8, <1>9
<1> HIDE DEF paid
<1>11. Cardinality(backlog \ {d}) < backlog_cap
  <2>1. IsFiniteSet(backlog) /\ Cardinality(backlog) <= backlog_cap
    BY Types DEF TypeOK
  <2>2. Cardinality(backlog \ {d}) = Cardinality(backlog) - 1
        /\ Cardinality(backlog) \in Nat
    BY <2>1, <1>2, FS_RemoveElement, FS_CardinalityType
  <2> QED
    BY <2>1, <2>2, ConstantsAssumption
<1>12. ASSUME NEW r \in backlog \ {d}
       PROVE  Tag(r) + Cost(r) <= paid[requests[r].flow].previous_finish_tag
  <2>1. /\ Tag(r) \in Nat /\ Cost(r) \in Nat \ {0} /\ requests[r].flow \in Flows
        /\ Tag(r) + Cost(r) <= flows[requests[r].flow].previous_finish_tag
        /\ r \in 1..Len(requests) /\ d \in 1..Len(requests)
    BY <1>2, Types DEF IInv, PaidFor
  <2>2. CASE requests[r].flow = g
    <3>1. r < d
      <4>1. ~(d < r)
        BY <2>1, <2>2, <1>2 DEF IInv, TagsInOrder
      <4> QED
        BY <4>1, <2>1
    <3>2. Tag(r) + Cost(r) <= Tag(d)
      BY <3>1, <2>2, <1>2 DEF IInv, TagsInOrder
    <3> QED
      BY <3>2, <2>1, <2>2, <1>2, <1>3, <1>8
  <2>3. CASE requests[r].flow = f
    BY <2>1, <2>3, <1>5, <1>6, <1>9, NewTypes, Types
  <2>4. CASE requests[r].flow # f /\ requests[r].flow # g
    BY <2>1, <2>4, <1>6, <1>9
  <2> QED
    BY <2>2, <2>3, <2>4
<1>13. paid[f].previous_finish_tag = StartTag(f) + EstimatedCost(f, w)
  BY <1>5, <1>6, <1>9
<1> QED
  BY <1>1, <1>2, <1>10, <1>11, <1>12, <1>13, EnterKeeps DEF paid

(* A query enters with room in the backlog.                                *)
LEMMA RoomKeeps ==
    ASSUME IInv, NEW f \in Flows, NEW w \in Weights,
           Len(requests) < MaxRequests, ~stuck, ~Full,
           Enter(f, w, {}, Paid(f, w))
    PROVE  IInv'
<1> TypeOK
  BY DEF IInv
<1>1. backlog \ {} = backlog /\ Cardinality(backlog \ {}) < backlog_cap
  BY Types, FS_CardinalityType, ConstantsAssumption DEF Full
<1>2. ASSUME NEW r \in backlog
      PROVE  Tag(r) + Cost(r) <= Paid(f, w)[requests[r].flow].previous_finish_tag
  <2>1. /\ Tag(r) + Cost(r) \in Nat /\ requests[r].flow \in Flows
        /\ Tag(r) + Cost(r) <= flows[requests[r].flow].previous_finish_tag
    BY Types DEF IInv, PaidFor, TypeOK
  <2>2. CASE requests[r].flow = f
    BY <2>1, <2>2, PaidType, NewTypes, Types
  <2>3. CASE requests[r].flow # f
    BY <2>1, <2>3, PaidType
  <2> QED
    BY <2>2, <2>3
<1> QED
  BY <1>1, <1>2, PaidType, EnterKeeps

(* A query changes its state only: it is abandoned, or it ends and another *)
(* may take its slot.                                                      *)
LEMMA AbandonKeeps ==
    ASSUME IInv, NEW d \in DOMAIN requests, Abandon(d)
    PROVE  IInv'
<1> TypeOK
  BY DEF IInv
<1>1. requests' = [requests EXCEPT ![d].state = "abandoned"]
      /\ requests[d].state = "waiting"
  BY DEF Abandon
<1>2. ASSUME NEW r \in DOMAIN requests
      PROVE  /\ requests'[r] \in Requests /\ requests'[r].flow = requests[r].flow
             /\ Tag(r)' = Tag(r) /\ Cost(r)' = Cost(r)
             /\ requests'[r].state = IF r = d THEN "abandoned" ELSE requests[r].state
  BY <1>1, Types DEF Requests, Tag, Cost, States
<1>3. requests' \in Seq(Requests) /\ DOMAIN requests' = DOMAIN requests
      /\ Len(requests') = Len(requests)
  <2>1. requests \in Seq(Requests) /\ DOMAIN requests = 1..Len(requests)
        /\ Len(requests) \in Nat
    BY Types DEF TypeOK
  <2>2. requests' = [r \in 1..Len(requests) |-> requests'[r]]
    BY <2>1, <1>1
  <2> QED
    BY <2>1, <2>2, <1>2
<1>4. flows' = flows /\ backlog' = backlog /\ serving' = serving
      /\ virtual_time' = virtual_time /\ stuck' = stuck
      /\ backlog \subseteq DOMAIN requests
  BY DEF Abandon, TypeOK
<1>5. TypeOK'
  BY <1>3, <1>4 DEF TypeOK
<1>6. BacklogWaits' /\ PaidFor' /\ TagsInOrder' /\ NotPassedOver'
  BY <1>2, <1>4 DEF IInv, BacklogWaits, PaidFor, TagsInOrder, ServedInOrder, NotPassedOver
<1>7. Serving' = Serving
  BY <1>1, <1>2, <1>3 DEF Serving
<1>8. WorkConserving'
  BY <1>2, <1>3, <1>4, <1>7 DEF IInv, WorkConserving, Serving
<1>9. FlowFifo'
  BY <1>2, <1>3 DEF IInv, ServedInOrder, FlowFifo
<1> QED
  BY <1>5, <1>6, <1>8, <1>9 DEF IInv, ServedInOrder

(* The new average cost of a flow leaves what it has paid for.             *)
LEMMA AverageCost ==
    ASSUME TypeOK, NEW d \in DOMAIN requests, NEW c \in Costs, Release(d, c)
    PROVE  /\ flows' \in [Flows -> FlowStates]
           /\ \A g \in Flows :
                 flows'[g].previous_finish_tag = flows[g].previous_finish_tag
<1> DEFINE f == requests[d].flow
<1>1. flows' = [flows EXCEPT ![f].average_cost = (@ * 4 + c) \div 5]
  BY DEF Release
<1>2. f \in Flows /\ flows \in [Flows -> FlowStates] /\ c \in Nat
  BY Types, ConstantsAssumption DEF TypeOK
<1>3. (flows[f].average_cost * 4 + c) \div 5 \in Nat
  BY <1>2, DivNat DEF FlowStates
<1> HIDE DEF f
<1>4. ASSUME NEW g \in Flows
      PROVE  /\ flows'[g] \in FlowStates
             /\ flows'[g].previous_finish_tag = flows[g].previous_finish_tag
  <2>1. CASE g = f
    BY <1>1, <1>2, <1>3, <2>1 DEF FlowStates
  <2>2. CASE g # f
    BY <1>1, <1>2, <2>2
  <2> QED
    BY <2>1, <2>2
<1> QED
  BY <1>1, <1>2, <1>4

(* A slot is released that no query waits for.                             *)
LEMMA FreeKeeps ==
    ASSUME IInv, NEW d \in DOMAIN requests, NEW c \in Costs, Release(d, c), FreeSlot(d)
    PROVE  IInv'
<1> TypeOK
  BY DEF IInv
<1>1. /\ requests' = [requests EXCEPT ![d].state = "done"]
      /\ backlog = {} /\ backlog' = {} /\ serving' = serving - 1
      /\ virtual_time' = virtual_time /\ stuck' = stuck
      /\ ~stuck /\ requests[d].state = "serving"
  BY DEF FreeSlot, Release
<1>2. ASSUME NEW r \in DOMAIN requests
      PROVE  /\ requests'[r] \in Requests
             /\ requests'[r].state = IF r = d THEN "done" ELSE requests[r].state
  BY <1>1, Types DEF Requests, States
<1>3. requests' \in Seq(Requests) /\ DOMAIN requests' = DOMAIN requests
      /\ Len(requests') = Len(requests)
  <2>1. requests \in Seq(Requests) /\ DOMAIN requests = 1..Len(requests)
        /\ Len(requests) \in Nat
    BY Types DEF TypeOK
  <2>2. requests' = [r \in 1..Len(requests) |-> requests'[r]]
    BY <2>1, <1>1
  <2> QED
    BY <2>1, <2>2, <1>2
<1>4. serving' = Cardinality(Serving') /\ serving' \in 0..depth
  <2>1. d \in Serving /\ IsFiniteSet(Serving) /\ serving = Cardinality(Serving)
    BY <1>1, Types DEF IInv, WorkConserving, Serving
  <2>2. Serving' = Serving \ {d}
    BY <1>2, <1>3, <2>1 DEF Serving
  <2>3. Cardinality(Serving \ {d}) = Cardinality(Serving) - 1
        /\ Cardinality(Serving) \in Nat /\ Cardinality(Serving \ {d}) \in Nat
    BY <2>1, FS_RemoveElement, FS_CardinalityType
  <2> QED
    BY <2>1, <2>2, <2>3, <1>1, ConstantsAssumption DEF TypeOK
<1>5. Cardinality({}) = 0
  BY FS_EmptySet
<1>6. TypeOK'
  BY <1>1, <1>3, <1>4, <1>5, AverageCost, ConstantsAssumption DEF TypeOK
<1>7. BacklogWaits' /\ PaidFor' /\ TagsInOrder' /\ NotPassedOver'
  BY <1>1 DEF BacklogWaits, PaidFor, TagsInOrder, NotPassedOver
<1>8. ASSUME NEW r \in DOMAIN requests' PROVE requests'[r].state # "waiting"
  BY <1>1, <1>2, <1>3 DEF IInv, WorkConserving
<1>9. WorkConserving'
  BY <1>1, <1>4, <1>5, <1>8, ConstantsAssumption DEF WorkConserving, Serving
<1>10. FlowFifo'
  BY <1>8 DEF FlowFifo
<1> QED
  BY <1>6, <1>7, <1>9, <1>10 DEF IInv, ServedInOrder

(* A slot is released and goes to the first query of the backlog.          *)
LEMMA PickKeeps ==
    ASSUME IInv, NEW d \in DOMAIN requests, NEW c \in Costs, Release(d, c), PickNext(d)
    PROVE  IInv'
<1> TypeOK
  BY DEF IInv
<1>1. PICK next \in First :
          /\ backlog' = backlog \ {next}
          /\ virtual_time' = Tag(next)
          /\ stuck' = (requests[next].state = "abandoned")
          /\ requests' = [requests EXCEPT
                 ![d].state = "done",
                 ![next].state = IF @ = "waiting" THEN "serving" ELSE @]
          /\ serving' = serving
  BY DEF PickNext
<1>2. ~stuck /\ requests[d].state = "serving"
  BY DEF Release
<1>3. /\ next \in backlog /\ next \in DOMAIN requests /\ next # d
      /\ backlog \subseteq DOMAIN requests
      /\ requests[next].state \in {"waiting", "abandoned"}
      /\ \A q \in backlog : Tag(next) <= Tag(q)
  BY <1>2 DEF First, TypeOK, IInv, BacklogWaits
<1>4. ASSUME NEW r \in DOMAIN requests
      PROVE  /\ requests'[r] \in Requests /\ requests'[r].flow = requests[r].flow
             /\ Tag(r)' = Tag(r) /\ Cost(r)' = Cost(r)
             /\ requests'[r].state =
                  IF r = d THEN "done"
                  ELSE IF r = next /\ requests[r].state = "waiting" THEN "serving"
                  ELSE requests[r].state
  <2>1. requests[r] \in Requests
    BY Types
  <2>2. CASE r = d
    BY <1>1, <1>3, <2>1, <2>2 DEF Requests, Tag, Cost, States
  <2>3. CASE r = next
    BY <1>1, <1>3, <2>1, <2>3 DEF Requests, Tag, Cost, States
  <2>4. CASE r # d /\ r # next
    BY <1>1, <1>3, <2>1, <2>4 DEF Tag, Cost
  <2> QED
    BY <2>2, <2>3, <2>4
<1>5. requests' \in Seq(Requests) /\ DOMAIN requests' = DOMAIN requests
      /\ Len(requests') = Len(requests)
  <2>1. requests \in Seq(Requests) /\ DOMAIN requests = 1..Len(requests)
        /\ Len(requests) \in Nat
    BY Types DEF TypeOK
  <2>2. requests' = [r \in 1..Len(requests) |-> requests'[r]]
    BY <2>1, <1>1
  <2> QED
    BY <2>1, <2>2, <1>4
<1>6. Cardinality(backlog') <= backlog_cap
  <2>1. IsFiniteSet(backlog) /\ Cardinality(backlog) <= backlog_cap
    BY Types DEF TypeOK
  <2>2. Cardinality(backlog \ {next}) = Cardinality(backlog) - 1
        /\ Cardinality(backlog) \in Nat
    BY <2>1, <1>3, FS_RemoveElement, FS_CardinalityType
  <2> QED
    BY <2>1, <2>2, <1>1, ConstantsAssumption
<1>7. TypeOK'
  BY <1>1, <1>3, <1>5, <1>6, Types, AverageCost DEF TypeOK
<1>8. BacklogWaits'
  BY <1>1, <1>2, <1>3, <1>4 DEF IInv, BacklogWaits
<1>9. PaidFor'
  <2> SUFFICES ASSUME NEW r \in backlog
               PROVE  Tag(r) + Cost(r) <= flows'[requests[r].flow].previous_finish_tag
    BY <1>1, <1>3, <1>4 DEF PaidFor
  <2>1. requests[r].flow \in Flows
    BY <1>3, Types
  <2> QED
    BY <2>1, AverageCost DEF IInv, PaidFor
<1>10. TagsInOrder'
  BY <1>1, <1>3, <1>4 DEF IInv, TagsInOrder
<1>11. NotPassedOver'
  BY <1>1, <1>3, <1>4 DEF NotPassedOver
<1>12. WorkConserving'
  <2>1. ASSUME ~stuck' PROVE serving' = Cardinality(Serving')
    <3>1. requests[next].state = "waiting"
      BY <2>1, <1>1, <1>3
    <3>2. d \in Serving /\ next \notin Serving /\ IsFiniteSet(Serving)
          /\ serving = Cardinality(Serving)
      BY <1>2, <1>3, <3>1, Types DEF IInv, WorkConserving, Serving
    <3>3. Serving' = (Serving \ {d}) \cup {next}
      BY <1>3, <1>4, <1>5, <3>1 DEF Serving
    <3>4. IsFiniteSet(Serving \ {d}) /\ next \notin Serving \ {d}
          /\ Cardinality(Serving \ {d}) = serving - 1
      BY <3>2, FS_RemoveElement
    <3>5. Cardinality(Serving') = (serving - 1) + 1
      BY <3>3, <3>4, FS_AddElement
    <3> QED
      BY <3>5, <1>1 DEF TypeOK
  <2>2. ASSUME NEW r \in DOMAIN requests', requests'[r].state = "waiting"
        PROVE  r \in backlog'
    BY <2>2, <1>1, <1>3, <1>4, <1>5 DEF IInv, WorkConserving
  <2>3. backlog' # {} => serving' = depth
    BY <1>1 DEF IInv, WorkConserving
  <2> QED
    BY <2>1, <2>2, <2>3, <1>6 DEF WorkConserving, Serving
<1>13. FlowFifo'
  <2> SUFFICES ASSUME NEW q \in DOMAIN requests, NEW r \in DOMAIN requests, q < r,
                      requests[q].flow = requests[r].flow,
                      requests'[q].state = "waiting",
                      requests'[r].state \in {"serving", "done"}
               PROVE  FALSE
    BY <1>4, <1>5 DEF FlowFifo
  <2>1. requests[q].state = "waiting" /\ q \in backlog /\ q # next
    BY <1>3, <1>4 DEF IInv, WorkConserving
  <2>2. r = next
    BY <2>1, <1>2, <1>4 DEF IInv, ServedInOrder, FlowFifo
  <2>3. Tag(q) + Cost(q) <= Tag(next) /\ Tag(next) <= Tag(q)
    BY <2>1, <2>2, <1>3 DEF IInv, TagsInOrder
  <2> QED
    BY SMTT(30), <2>3, <1>3, Types
<1> QED
  BY <1>7, <1>8, <1>9, <1>10, <1>11, <1>12, <1>13 DEF IInv, ServedInOrder

-----------------------------------------------------------------------------
(* The theorems.                                                           *)

(* The inductive invariant holds initially.                                *)
LEMMA InitIInv == Init => IInv
<1> SUFFICES ASSUME Init PROVE IInv
  OBVIOUS
<1>1. /\ requests = << >> /\ backlog = {} /\ serving = 0 /\ virtual_time = 0
      /\ stuck = FALSE
      /\ flows = [f \in Flows |-> [previous_finish_tag |-> 0, average_cost |-> 0]]
  BY DEF Init
<1>2. Cardinality({}) = 0 /\ Serving = {} /\ DOMAIN requests = {} /\ Len(requests) = 0
  BY <1>1, FS_EmptySet DEF Serving
<1>3. TypeOK
  <2>1. flows \in [Flows -> FlowStates]
    BY <1>1 DEF FlowStates
  <2>2. requests \in Seq(Requests)
    BY <1>1
  <2>3. Cardinality(backlog) <= backlog_cap /\ serving \in 0..depth
        /\ Len(requests) <= MaxRequests /\ virtual_time \in Nat
    BY <1>1, <1>2, ConstantsAssumption
  <2>4. backlog \subseteq DOMAIN requests /\ stuck \in BOOLEAN
    BY <1>1
  <2> QED
    BY <2>1, <2>2, <2>3, <2>4 DEF TypeOK
<1> QED
  BY <1>1, <1>2, <1>3, ConstantsAssumption
  DEF IInv, BacklogWaits, PaidFor, TagsInOrder, WorkConserving, ServedInOrder,
      FlowFifo, NotPassedOver, Serving

(* Every step keeps it.                                                    *)
LEMMA NextIInv == IInv /\ [Next]_vars => IInv'
<1> SUFFICES ASSUME IInv, [Next]_vars PROVE IInv'
  OBVIOUS
<1>1. ASSUME NEW f \in Flows, NEW w \in Weights, Acquire(f, w)
      PROVE  IInv'
  BY <1>1, TurnAwayKeeps, DropKeeps, RoomKeeps DEF Acquire
<1>2. ASSUME NEW r \in DOMAIN requests, Abandon(r)
      PROVE  IInv'
  BY <1>2, AbandonKeeps
<1>3. ASSUME NEW r \in DOMAIN requests, NEW c \in Costs, Release(r, c)
      PROVE  IInv'
  <2>1. PickNext(r) \/ FreeSlot(r)
    BY <1>3 DEF Release
  <2> QED
    BY <1>3, <2>1, PickKeeps, FreeKeeps
<1>4. CASE UNCHANGED vars
  BY <1>4 DEF vars, IInv, TypeOK, BacklogWaits, PaidFor, TagsInOrder, WorkConserving,
              ServedInOrder, FlowFifo, NotPassedOver, Tag, Cost
<1> QED
  BY <1>1, <1>2, <1>3, <1>4 DEF Next

(* The inductive invariant holds in every reachable state.                 *)
THEOREM Inductive == Spec => []IInv
  BY InitIInv, NextIInv, PTL DEF Spec

(* No counter of acquire or release underflows: what a flow has paid for   *)
(* stays a natural number when the cost of a dropped query is taken back,  *)
(* and serving stays between 0 and depth.                                  *)
THEOREM TypeCorrect == Spec => []TypeOK
<1>1. IInv => TypeOK
  BY DEF IInv
<1> QED
  BY <1>1, Inductive, PTL

(* A query waits only while all slots are in use, serving counts the       *)
(* queries that run, and the backlog keeps to its capacity.                *)
THEOREM WorkIsConserved == Spec => []WorkConserving
<1>1. IInv => WorkConserving
  BY DEF IInv
<1> QED
  BY <1>1, Inductive, PTL

(* Queries of a contract are served in the order in which they were made,  *)
(* and virtual time never passes a query that waits.                       *)
THEOREM ServiceIsOrdered == Spec => []ServedInOrder
<1>1. IInv => ServedInOrder
  BY DEF IInv
<1> QED
  BY <1>1, Inductive, PTL
=============================================================================
