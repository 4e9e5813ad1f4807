---------------------------- MODULE BillingProofs ----------------------------
(***************************************************************************)
(* Proofs about Billing, for any number of subscriptions, tabs, requests   *)
(* in flight, grants and faults.  Three inductive invariants:              *)
(*   IType  types, and no row or request names a subscription that Stripe  *)
(*          has not created;                                               *)
(*   IPlan  what a request carries between its SELECT and its UPDATE is    *)
(*          true of the subscription's past, which is what makes a late    *)
(*          write harmless to the two invariants about the row.            *)
(*   IBilled  with one tab, whatever is paid for is paid for by the one     *)
(*          customer whose subscriptions assertNoLiveSubscription lists.   *)
(***************************************************************************)
EXTENDS Billing, TLAPS

\* A request that has a subscription in hand got it from Stripe.
Known ==
  /\ org.sub /= 0 => Exists(org.sub)
  /\ \A c \in Request :
       /\ req[c].sub /= 0 => Exists(req[c].sub)
       /\ req[c].pc \in {"select", "update", "retrieve"} => req[c].sub /= 0

IType == TypeOK /\ Known

LEMMA StatusFacts ==
  ASSUME history \in [Sub -> Seq(Status)], NEW s \in Sub, Exists(s)
  PROVE  /\ Len(history[s]) \in Nat \ {0}
         /\ Current(s) \in Status
  BY DEF Exists, Current

LEMMA FreeFacts == /\ Free \in Local
                   /\ Free.pc = "idle"
                   /\ Free.sub = 0
                   /\ [Free EXCEPT !.pc = "read"] \in Local
  BY DEF Free, Local, Customer, Status, Plan, Grace

LEMMA RequestFacts == /\ PageLoad \in Request \ Event
                      /\ Return \in Request \ Event
                      /\ Event \subseteq Request
                      /\ PageLoad /= Return
  BY BillingAssumption DEF Request, Event, PageLoad, Return

\* One request changes, and perhaps the row: what has to hold of their new values.
LEMMA WriteStep ==
  ASSUME IType, NEW c \in Request, NEW l \in Local,
         req' = [req EXCEPT ![c] = l],
         seen \subseteq seen', seen' \subseteq Event,
         c \in Event => req[c].pc /= "idle" \/ c \in seen',
         l.sub /= 0 => Exists(l.sub),
         l.pc \in {"select", "update", "retrieve"} => l.sub /= 0,
         org' \in Row, org'.sub /= 0 => Exists(org'.sub),
         UNCHANGED <<history, payer, tab, grants, faults>>
  PROVE  IType'
  BY DEF IType, TypeOK, Known, Exists

LEMMA RequestStep ==
  ASSUME IType, NEW c \in Request, NEW l \in Local,
         req' = [req EXCEPT ![c] = l],
         seen \subseteq seen', seen' \subseteq Event,
         c \in Event => req[c].pc /= "idle" \/ c \in seen',
         l.sub /= 0 => Exists(l.sub),
         l.pc \in {"select", "update", "retrieve"} => l.sub /= 0,
         UNCHANGED <<history, payer, tab, org, grants, faults>>
  PROVE  IType'
<1>1. org' \in Row /\ (org'.sub /= 0 => Exists(org'.sub))
  BY DEF IType, TypeOK, Known
<1> QED BY <1>1, WriteStep

LEMMA FoundFacts ==
  ASSUME IType, NEW s \in Sub, Exists(s)
  PROVE  Found(s) \in Local /\ Found(s).sub = s /\ Found(s).pc = "select"
  BY StatusFacts, FreeFacts DEF Found, IType, TypeOK, Free, Local, Customer, Status, Plan, Grace

LEMMA BeforeFacts ==
  ASSUME IType, NEW s \in Sub, NEW st \in Status
  PROVE  Before(s, st) \in Local /\ Before(s, st).sub = s /\ Before(s, st).pc = "update"
         /\ Before(s, st).status = st
  BY DEF Before, IType, TypeOK, Free, Local, Row, Customer, Status, Plan, Grace

LEMMA InitType == Init => IType
<1> SUFFICES ASSUME Init PROVE IType
  OBVIOUS
<1>1. history \in [Sub -> Seq(Status)] /\ payer \in [Sub -> Customer]
  BY DEF Init, Customer
<1>2. tab \in [Tab -> [pc : {"idle", "create", "check", "open"}, customer : Customer]]
  BY DEF Init, NoTab, Customer
<1>3. org \in Row /\ org.sub = 0
  BY DEF Init, Row, Plan, Grace, Customer
<1>4. req \in [Request -> Local] /\ \A c \in Request : req[c] = Free
  BY FreeFacts DEF Init
<1>5. seen = {} /\ grants \in 0 .. MaxGrants /\ faults \in 0 .. MaxFaults
  BY BillingAssumption DEF Init
<1>6. TypeOK
  BY <1>1, <1>2, <1>3, <1>4, <1>5, FreeFacts, RequestFacts DEF TypeOK
<1>7. Known
  BY <1>3, <1>4, FreeFacts DEF Known
<1> QED BY <1>6, <1>7 DEF IType

LEMMA DoneType ==
  ASSUME IType, NEW c \in Request, req[c].pc /= "idle", Done(c),
         UNCHANGED <<history, payer, tab, org, seen, grants, faults>>
  PROVE  IType'
  BY FreeFacts, RequestStep DEF Done, IType, TypeOK

LEMMA AppliedType ==
  ASSUME IType, NEW c \in Request, req[c].pc /= "idle", Applied(c),
         UNCHANGED <<history, payer, tab, org, seen, grants, faults>>
  PROVE  IType'
<1> DEFINE l == IF c = Return THEN [Free EXCEPT !.pc = "read"] ELSE Free
<1>1. l \in Local /\ l.sub = 0 /\ l.pc \in {"idle", "read"}
  BY FreeFacts DEF Free
<1>2. req' = [req EXCEPT ![c] = l]
  BY DEF Applied
<1> HIDE DEF l
<1> QED BY <1>1, <1>2, RequestStep DEF IType, TypeOK

-----------------------------------------------------------------------------
(* Each action preserves IType *)

LEMMA StripeType ==
  ASSUME IType, NEW s \in Sub, NEW status \in Status, SubChanges(s, status)
  PROVE  IType'
<1>1. history' \in [Sub -> Seq(Status)] /\ \A u \in Sub : Exists(u) => Exists(u)'
  BY DEF SubChanges, IType, TypeOK, Exists
<1> QED BY <1>1 DEF SubChanges, IType, TypeOK, Known, Row, Local

LEMMA CheckoutType ==
  ASSUME IType, NEW t \in Tab, Checkout(t)
  PROVE  IType'
<1> USE DEF Customer
<1>1. CASE CheckoutStart(t)
  <2>1. org.customer \in Customer
    BY DEF IType, TypeOK, Row
  <2> QED BY <1>1, <2>1 DEF CheckoutStart, IType, TypeOK, Known, Exists
<1>2. CASE CheckoutCustomer(t)
  <2>1. org' \in Row /\ org'.sub = org.sub
    BY <1>2 DEF CheckoutCustomer, IType, TypeOK, Row
  <2> QED BY <1>2, <2>1 DEF CheckoutCustomer, IType, TypeOK, Known, Exists
<1>3. CASE CheckoutSession(t)
  BY <1>3 DEF CheckoutSession, NoTab, IType, TypeOK, Known, Exists
<1>4. CASE CheckoutEnds(t)
  BY <1>4 DEF CheckoutEnds, NoTab, IType, TypeOK, Known, Exists
<1>5. CASE Pay(t)
  <2>1. history' \in [Sub -> Seq(Status)] /\ \A u \in Sub : Exists(u) => Exists(u)'
    BY <1>5 DEF Pay, IType, TypeOK, Exists, Status
  <2>2. payer' \in [Sub -> Customer]
    BY <1>5 DEF Pay, IType, TypeOK
  <2>3. tab' \in [Tab -> [pc : {"idle", "create", "check", "open"}, customer : Customer]]
    BY <1>5 DEF Pay, IType, TypeOK, NoTab
  <2> QED BY <1>5, <2>1, <2>2, <2>3 DEF Pay, IType, TypeOK, Known, Row, Local
<1> QED BY <1>1, <1>2, <1>3, <1>4, <1>5 DEF Checkout

LEMMA EventFacts ==
  ASSUME IType, NEW e \in Event, Sent(e)
  PROVE  /\ e[1] \in Sub /\ Exists(e[1])
         /\ e[2] > 0 => /\ e[2] \in 1 .. Len(history[e[1]])
                        /\ history[e[1]][e[2]] \in Status
<1>1. e[1] \in Sub /\ e[2] \in 0 .. MaxChanges /\ MaxChanges \in Nat
  BY BillingAssumption DEF Event
<1>2. history[e[1]] \in Seq(Status)
  BY <1>1 DEF IType, TypeOK
<1>3. Exists(e[1]) /\ e[2] <= Len(history[e[1]])
  BY DEF Sent
<1> QED BY <1>1, <1>2, <1>3

LEMMA CheckoutCompletedType ==
  ASSUME IType, NEW e \in Event, CheckoutCompleted(e)
  PROVE  IType'
<1>1. e[1] \in Sub /\ Exists(e[1])
  BY EventFacts DEF CheckoutCompleted, Recorded
<1>2. org' \in Row /\ org'.sub = e[1]
  BY <1>1 DEF CheckoutCompleted, IType, TypeOK, Row, Plan
<1>3. seen' \subseteq Event /\ seen \subseteq seen'
  BY DEF CheckoutCompleted, Recorded, IType, TypeOK
<1> QED BY <1>1, <1>2, <1>3 DEF CheckoutCompleted, IType, TypeOK, Known, Exists

LEMMA SubscriptionEventType ==
  ASSUME IType, NEW e \in Event, SubscriptionEvent(e)
  PROVE  IType'
<1> DEFINE st == history[e[1]][e[2]]
           l  == IF Ignored(st) THEN Free ELSE Before(e[1], st)
<1>1. e[1] \in Sub /\ Exists(e[1]) /\ st \in Status
  BY EventFacts DEF SubscriptionEvent, Recorded
<1>2. /\ l \in Local
      /\ l.sub /= 0 => Exists(l.sub)
      /\ l.pc \in {"select", "update", "retrieve"} => l.sub /= 0
  <2>1. e[1] /= 0
    BY <1>1, BillingAssumption
  <2> QED BY <1>1, <2>1, FreeFacts, BeforeFacts
<1>3. req' = [req EXCEPT ![e] = l]
  BY DEF SubscriptionEvent
<1>4. seen' \subseteq Event /\ seen \subseteq seen' /\ e \in seen'
  BY DEF SubscriptionEvent, Recorded, IType, TypeOK
<1>5. UNCHANGED <<history, payer, tab, org, grants, faults>>
  BY DEF SubscriptionEvent
<1> HIDE DEF l
<1> QED BY <1>2, <1>3, <1>4, <1>5, RequestStep, RequestFacts

LEMMA SelectType ==
  ASSUME IType, NEW c \in Request, Select(c)
  PROVE  IType'
<1>1. CASE Ignored(req[c].status)
  BY <1>1, AppliedType DEF Select
<1>2. CASE ~Ignored(req[c].status)
  <2> DEFINE l == Before(req[c].sub, req[c].status)
  <2>1. req[c].sub \in Sub /\ req[c].status \in Status /\ Exists(req[c].sub)
    BY DEF Select, IType, TypeOK, Known, Local
  <2>2. l \in Local /\ l.sub = req[c].sub
    BY <2>1, BeforeFacts
  <2>3. l.sub /= 0
    BY <2>1, <2>2, BillingAssumption
  <2>4. req' = [req EXCEPT ![c] = l]
    BY <1>2 DEF Select
  <2>5. req[c].pc /= "idle" /\ UNCHANGED <<history, payer, tab, org, seen, grants, faults>>
    BY DEF Select
  <2>6. seen \subseteq seen' /\ seen' \subseteq Event
    BY <2>5 DEF IType, TypeOK
  <2> HIDE DEF l
  <2> QED BY <2>1, <2>2, <2>3, <2>4, <2>5, <2>6, RequestStep
<1> QED BY <1>1, <1>2

LEMMA UpdateType ==
  ASSUME IType, NEW c \in Request, Update(c)
  PROVE  IType'
<1> DEFINE l == IF c = Return THEN [Free EXCEPT !.pc = "read"] ELSE Free
<1>1. req[c].sub \in Sub /\ req[c] \in Local /\ Exists(req[c].sub)
  BY DEF Update, IType, TypeOK, Known, Local
<1>2. graceEndsAt(req[c]) \in Grace /\ NewPlan(req[c].status) \in Plan
  BY <1>1 DEF graceEndsAt, NewPlan, Grace, Plan, Local
<1>3. org' \in Row /\ org'.sub = req[c].sub
  BY <1>1, <1>2 DEF Update, IType, TypeOK, Row
<1>4. l \in Local /\ l.sub = 0 /\ l.pc \in {"idle", "read"}
  BY FreeFacts DEF Free
<1>5. req' = [req EXCEPT ![c] = l]
  BY DEF Update, Applied
<1>6. req[c].pc /= "idle" /\ UNCHANGED <<history, payer, tab, seen, grants, faults>>
  BY DEF Update
<1>7. seen \subseteq seen' /\ seen' \subseteq Event
  BY <1>6 DEF IType, TypeOK
<1> HIDE DEF l
<1> QED BY <1>1, <1>3, <1>4, <1>5, <1>6, <1>7, WriteStep

LEMMA PageReadType ==
  ASSUME IType, NEW c \in {PageLoad, Return}, PageRead(c)
  PROVE  IType'
<1> DEFINE l == IF org.source = "admin" THEN Free
                ELSE IF MayBeOverProvisioned
                THEN [Free EXCEPT !.pc = "retrieve", !.sub = org.sub]
                ELSE IF MayBeUnderProvisioned
                THEN [Free EXCEPT !.pc = "list", !.customer = org.customer]
                ELSE Free
<1>1. org \in Row /\ (org.sub /= 0 => Exists(org.sub))
  BY DEF IType, TypeOK, Known
<1>2. /\ l \in Local
      /\ l.sub /= 0 => Exists(l.sub)
      /\ l.pc \in {"select", "update", "retrieve"} => l.sub /= 0
  BY <1>1 DEF Free, Local, Row, Customer, Status, Plan, Grace, MayBeOverProvisioned
<1>3. req' = [req EXCEPT ![c] = l]
  BY DEF PageRead
<1>4. UNCHANGED <<history, payer, tab, org, seen, grants, faults>>
  BY DEF PageRead
<1>5. seen \subseteq seen' /\ seen' \subseteq Event
  BY <1>4 DEF IType, TypeOK
<1>6. c \in Request /\ c \notin Event
  BY RequestFacts
<1> HIDE DEF l
<1> QED BY <1>2, <1>3, <1>4, <1>5, <1>6, RequestStep

\* A reconciliation goes on with a subscription that Stripe named.
LEMMA FoundType ==
  ASSUME IType, NEW c \in Request, req[c].pc /= "idle", NEW s \in Sub, Exists(s),
         req' = [req EXCEPT ![c] = Found(s)],
         UNCHANGED <<history, payer, tab, org, seen, grants, faults>>
  PROVE  IType'
<1> DEFINE l == Found(s)
<1>1. l \in Local /\ l.sub = s /\ s /= 0
  BY FoundFacts, BillingAssumption
<1>2. seen \subseteq seen' /\ seen' \subseteq Event /\ req' = [req EXCEPT ![c] = l]
  BY DEF IType, TypeOK
<1> HIDE DEF l
<1> QED BY <1>1, <1>2, RequestStep

LEMMA RetrieveType ==
  ASSUME IType, NEW c \in Request, Retrieve(c)
  PROVE  IType'
<1>1. req[c].sub \in Sub /\ Exists(req[c].sub)
  BY DEF Retrieve, IType, TypeOK, Known, Local
<1>2. CASE Current(req[c].sub) \in Ended
  BY <1>1, <1>2, FoundType DEF Retrieve
<1>3. CASE Current(req[c].sub) \notin Ended
  BY <1>3, DoneType DEF Retrieve, Done
<1> QED BY <1>2, <1>3

LEMMA ListType ==
  ASSUME IType, NEW c \in Request, List(c)
  PROVE  IType'
<1>1. CASE Done(c)
  BY <1>1, DoneType DEF List
<1>2. CASE ~Done(c)
  <2>1. PICK s \in Sub : Exists(s) /\ req' = [req EXCEPT ![c] = Found(s)]
    BY <1>2 DEF List, First, Listed
  <2> QED BY <2>1, FoundType DEF List
<1> QED BY <1>1, <1>2

LEMMA ReturnStartType ==
  ASSUME IType, ReturnStart
  PROVE  IType'
<1> DEFINE l == IF org.customer = 0 THEN [Free EXCEPT !.pc = "read"]
                ELSE [Free EXCEPT !.pc = "listall", !.customer = org.customer]
<1>1. l \in Local /\ l.sub = 0 /\ l.pc \in {"read", "listall"}
  BY DEF IType, TypeOK, Free, Local, Row, Customer, Status, Plan, Grace
<1>2. req' = [req EXCEPT ![Return] = l]
  BY DEF ReturnStart
<1>3. UNCHANGED <<history, payer, tab, org, seen, grants, faults>>
  BY DEF ReturnStart
<1>4. seen \subseteq seen' /\ seen' \subseteq Event
  BY <1>3 DEF IType, TypeOK
<1> HIDE DEF l
<1> QED BY <1>1, <1>2, <1>3, <1>4, RequestFacts, RequestStep

LEMMA ReturnListType ==
  ASSUME IType, ReturnList
  PROVE  IType'
<1>1. CASE Applied(Return)
  BY <1>1, AppliedType, RequestFacts DEF ReturnList
<1>2. CASE ~Applied(Return)
  <2>1. PICK s \in Sub : Exists(s) /\ req' = [req EXCEPT ![Return] = Found(s)]
    BY <1>2 DEF ReturnList, First, Listed
  <2> QED BY <2>1, FoundType, RequestFacts DEF ReturnList
<1> QED BY <1>1, <1>2

\* The steps that write the row alone, and not its subscription.
LEMMA RowType ==
  ASSUME IType, org' \in Row, org'.sub = org.sub, grants' \in 0 .. MaxGrants,
         UNCHANGED <<history, payer, tab, seen, req, faults>>
  PROVE  IType'
  BY DEF IType, TypeOK, Known, Exists

LEMMA TypeStep == IType /\ [Next]_vars => IType'
<1> SUFFICES ASSUME IType, [Next]_vars PROVE IType'
  OBVIOUS
<1>1. ASSUME NEW s \in Sub, NEW status \in Status, SubChanges(s, status) PROVE IType'
  BY <1>1, StripeType
<1>2. ASSUME NEW t \in Tab, Checkout(t) PROVE IType'
  BY <1>2, CheckoutType
<1>3. ASSUME NEW e \in Event, CheckoutCompleted(e) \/ SubscriptionEvent(e) PROVE IType'
  BY <1>3, CheckoutCompletedType, SubscriptionEventType
<1>4. ASSUME NEW c \in Request, Continue(c) PROVE IType'
  BY <1>4, SelectType, UpdateType, RetrieveType, ListType, ReturnListType,
     PageReadType DEF Continue
<1>5. ASSUME NEW c \in Request, RequestFails(c) PROVE IType'
  <2>1. faults' \in 0 .. MaxFaults
    BY <1>5, BillingAssumption DEF RequestFails, IType, TypeOK
  <2>2. Free \in Local /\ Free.sub = 0 /\ Free.pc = "idle"
    BY FreeFacts
  <2> QED BY <1>5, <2>1, <2>2 DEF RequestFails, Done, IType, TypeOK, Known, Exists
<1>6. CASE PageRead(PageLoad)
  BY <1>6, PageReadType
<1>7. CASE ReturnStart
  BY <1>7, ReturnStartType
<1>8. ASSUME NEW plan \in Plan, NEW expiry \in {"none", "set"}, AdminGrants(plan, expiry)
      PROVE  IType'
  <2>1. org' \in Row /\ org'.sub = org.sub
    BY <1>8 DEF AdminGrants, IType, TypeOK, Row
  <2>2. grants' \in 0 .. MaxGrants
    BY <1>8, BillingAssumption DEF AdminGrants, IType, TypeOK
  <2> QED BY <1>8, <2>1, <2>2, RowType DEF AdminGrants
<1>9. CASE expireAdminOverride
  <2>1. org' \in Row /\ org'.sub = org.sub
    BY <1>9 DEF expireAdminOverride, IType, TypeOK, Row, Plan
  <2> QED BY <1>9, <2>1, RowType DEF expireAdminOverride, IType, TypeOK
<1>10. CASE GraceEnds
  <2>1. org' \in Row /\ org'.sub = org.sub
    BY <1>10 DEF GraceEnds, IType, TypeOK, Row, Grace
  <2> QED BY <1>10, <2>1, RowType DEF GraceEnds, IType, TypeOK
<1>11. CASE UNCHANGED vars
  BY <1>11 DEF vars, IType, TypeOK, Known, Exists
<1> QED BY <1>1, <1>2, <1>3, <1>4, <1>5, <1>6, <1>7, <1>8, <1>9, <1>10, <1>11 DEF Next

\* Types hold in every reachable state, and no event is handled that is not
\* recorded in stripe_webhook_events (handleWebhookEvent).
THEOREM BillingTypeCorrect == Spec => []TypeOK
<1>1. IType => TypeOK
  BY DEF IType
<1> QED BY InitType, TypeStep, <1>1, PTL DEF Spec

-----------------------------------------------------------------------------
(* The row *)

\* A request that is about to take Pro away holds a status its subscription had.
Snapshots ==
  \A c \in Request :
    req[c].pc \in {"select", "update"} /\ req[c].status \in Ended => HasEnded(req[c].sub)

\* Where an operator decides the plan, the subscription on record had ended.
GrantsFollowEnd == org.source = "admin" /\ org.sub /= 0 => HasEnded(org.sub)

IPlan == ProIsReconcilable /\ LaunchMeansEnded /\ GrantsFollowEnd /\ Snapshots

LEMMA CurrentEnded ==
  ASSUME IType, NEW s \in Sub, Exists(s), Current(s) \in Ended
  PROVE  HasEnded(s)
<1>1. Len(history[s]) \in 1 .. Len(history[s])
  BY StatusFacts DEF IType, TypeOK
<1> QED BY <1>1 DEF HasEnded, Current

\* What a subscription went through stays part of its history.
LEMMA HistoryStep ==
  ASSUME IType, IPlan, \A u \in Sub : HasEnded(u) => HasEnded(u)', UNCHANGED <<org, req>>
  PROVE  IPlan'
<1>1. org.sub /= 0 => org.sub \in Sub
  BY DEF IType, TypeOK, Row
<1>2. \A c \in Request : req[c].pc \in {"select", "update"} => req[c].sub \in Sub
  BY DEF IType, TypeOK, Known, Local
<1> QED BY <1>1, <1>2
    DEF IPlan, ProIsReconcilable, LaunchMeansEnded, GrantsFollowEnd, Snapshots

LEMMA StripePlan ==
  ASSUME IType, IPlan, NEW s \in Sub, NEW status \in Status, SubChanges(s, status)
  PROVE  IPlan'
<1>1. ASSUME NEW u \in Sub, HasEnded(u) PROVE HasEnded(u)'
  <2>1. PICK n \in 1 .. Len(history[u]) : history[u][n] \in Ended
    BY <1>1 DEF HasEnded
  <2>2. history[u] \in Seq(Status) /\ history[s] \in Seq(Status)
    BY DEF IType, TypeOK
  <2>3. n \in 1 .. Len(history'[u]) /\ history'[u][n] = history[u][n]
    BY <2>1, <2>2 DEF SubChanges, IType, TypeOK
  <2> QED BY <2>1, <2>3 DEF HasEnded
<1> QED BY <1>1, HistoryStep DEF SubChanges

LEMMA CheckoutPlan ==
  ASSUME IType, IPlan, NEW t \in Tab, Checkout(t)
  PROVE  IPlan'
<1>1. CASE Pay(t)
  <2>1. ASSUME NEW u \in Sub, HasEnded(u) PROVE HasEnded(u)'
    <3>1. PICK n \in 1 .. Len(history[u]) : history[u][n] \in Ended
      BY <2>1 DEF HasEnded
    <3>2. Exists(u)
      BY <3>1 DEF Exists
    <3>3. history'[u] = history[u]
      BY <1>1, <3>2 DEF Pay, IType, TypeOK
    <3> QED BY <3>1, <3>3 DEF HasEnded
  <2> QED BY <1>1, <2>1, HistoryStep DEF Pay
<1>2. CASE CheckoutCustomer(t)
  <2>1. org'.sub = org.sub /\ org'.plan = org.plan /\ org'.source = org.source
    BY <1>2 DEF CheckoutCustomer, IType, TypeOK, Row
  <2> QED BY <1>2, <2>1 DEF CheckoutCustomer, HasEnded, IPlan, ProIsReconcilable,
        LaunchMeansEnded, GrantsFollowEnd, Snapshots
<1>3. CASE CheckoutStart(t) \/ CheckoutSession(t) \/ CheckoutEnds(t)
  BY <1>3 DEF CheckoutStart, CheckoutSession, CheckoutEnds, HasEnded, IPlan,
     ProIsReconcilable, LaunchMeansEnded, GrantsFollowEnd, Snapshots
<1> QED BY <1>1, <1>2, <1>3 DEF Checkout

\* One request changes, and not the row.
LEMMA RequestPlan ==
  ASSUME IType, IPlan, NEW c \in Request, NEW l,
         req' = [req EXCEPT ![c] = l],
         l.pc \in {"select", "update"} /\ l.status \in Ended => HasEnded(l.sub),
         UNCHANGED <<history, org>>
  PROVE  IPlan'
<1>1. Snapshots'
  BY DEF IPlan, Snapshots, HasEnded, IType, TypeOK
<1> QED BY <1>1
    DEF IPlan, ProIsReconcilable, LaunchMeansEnded, GrantsFollowEnd, HasEnded

\* The row changes, and not the requests.
LEMMA RowPlan ==
  ASSUME IType, IPlan, UNCHANGED <<history, req>>,
         org'.plan = "pro" /\ org'.source = "stripe" => org'.sub /= 0,
         org'.plan = "launch" /\ org'.source = "stripe" /\ org'.sub /= 0
           => HasEnded(org'.sub),
         org'.source = "admin" /\ org'.sub /= 0 => HasEnded(org'.sub)
  PROVE  IPlan'
  BY DEF IPlan, ProIsReconcilable, LaunchMeansEnded, GrantsFollowEnd, Snapshots, HasEnded

LEMMA AppliedPlan ==
  ASSUME IType, IPlan, NEW c \in Request, Applied(c), UNCHANGED <<history, org>>
  PROVE  IPlan'
<1> DEFINE l == IF c = Return THEN [Free EXCEPT !.pc = "read"] ELSE Free
<1>1. l.pc \in {"idle", "read"} /\ req' = [req EXCEPT ![c] = l]
  BY DEF Applied, Free
<1> HIDE DEF l
<1> QED BY <1>1, RequestPlan

LEMMA DonePlan ==
  ASSUME IType, IPlan, NEW c \in Request, Done(c), UNCHANGED <<history, org>>
  PROVE  IPlan'
  BY FreeFacts, RequestPlan DEF Done

LEMMA FoundPlan ==
  ASSUME IType, IPlan, NEW c \in Request, NEW s \in Sub, Exists(s),
         req' = [req EXCEPT ![c] = Found(s)], UNCHANGED <<history, org>>
  PROVE  IPlan'
<1> DEFINE l == Found(s)
<1>1. l.sub = s /\ l.status = Current(s)
  BY DEF Found, Free
<1>2. l.status \in Ended => HasEnded(l.sub)
  BY <1>1, CurrentEnded
<1>3. req' = [req EXCEPT ![c] = l]
  OBVIOUS
<1> HIDE DEF l
<1> QED BY <1>2, <1>3, RequestPlan

LEMMA EventPlan ==
  ASSUME IType, IPlan, NEW e \in Event, CheckoutCompleted(e) \/ SubscriptionEvent(e)
  PROVE  IPlan'
<1>1. CASE CheckoutCompleted(e)
  <2>1. e[1] \in Sub /\ e[1] /= 0
    BY <1>1, EventFacts, BillingAssumption DEF CheckoutCompleted, Recorded
  <2>2. org'.plan = "pro" /\ org'.source = "stripe" /\ org'.sub = e[1]
    BY <1>1, <2>1 DEF CheckoutCompleted, IType, TypeOK, Row
  <2> QED BY <1>1, <2>1, <2>2, RowPlan DEF CheckoutCompleted
<1>2. CASE SubscriptionEvent(e)
  <2> DEFINE st == history[e[1]][e[2]]
             l  == IF Ignored(st) THEN Free ELSE Before(e[1], st)
  <2>1. e[1] \in Sub /\ e[2] \in 1 .. Len(history[e[1]]) /\ st \in Status
    BY <1>2, EventFacts DEF SubscriptionEvent, Recorded
  <2>2. st \in Ended => HasEnded(e[1])
    BY <2>1 DEF HasEnded
  <2>3. l.pc \in {"select", "update"} /\ l.status \in Ended => HasEnded(l.sub)
    BY <2>1, <2>2, BeforeFacts, FreeFacts
  <2>4. req' = [req EXCEPT ![e] = l]
    BY <1>2 DEF SubscriptionEvent
  <2>5. UNCHANGED <<history, org>> /\ e \in Request
    BY <1>2, RequestFacts DEF SubscriptionEvent
  <2> HIDE DEF l
  <2> QED BY <2>3, <2>4, <2>5, RequestPlan
<1> QED BY <1>1, <1>2

LEMMA SelectPlan ==
  ASSUME IType, IPlan, NEW c \in Request, Select(c)
  PROVE  IPlan'
<1>1. CASE Ignored(req[c].status)
  BY <1>1, AppliedPlan DEF Select
<1>2. CASE ~Ignored(req[c].status)
  <2> DEFINE l == Before(req[c].sub, req[c].status)
  <2>1. req[c].sub \in Sub /\ req[c].status \in Status
    BY DEF Select, IType, TypeOK, Known, Local
  <2>2. l.sub = req[c].sub /\ l.status = req[c].status
    BY <2>1, BeforeFacts
  <2>3. l.status \in Ended => HasEnded(l.sub)
    BY <2>2 DEF Select, IPlan, Snapshots
  <2>4. req' = [req EXCEPT ![c] = l] /\ UNCHANGED <<history, org>>
    BY <1>2 DEF Select
  <2> HIDE DEF l
  <2> QED BY <2>3, <2>4, RequestPlan
<1> QED BY <1>1, <1>2

LEMMA UpdatePlan ==
  ASSUME IType, IPlan, NEW c \in Request, Update(c)
  PROVE  IPlan'
<1> DEFINE l == IF c = Return THEN [Free EXCEPT !.pc = "read"] ELSE Free
<1>1. req[c].sub \in Sub /\ req[c].sub /= 0
  BY DEF Update, IType, TypeOK, Known, Local
<1>2. /\ org'.sub = req[c].sub
      /\ org'.source = "stripe"
      /\ org'.plan = NewPlan(req[c].status)
  BY DEF Update, IType, TypeOK, Row
<1>3. org'.plan = "launch" => HasEnded(org'.sub)
  BY <1>2 DEF Update, NewPlan, IPlan, Snapshots
<1>4. l.pc \in {"idle", "read"} /\ req' = [req EXCEPT ![c] = l]
  BY DEF Update, Applied, Free
<1>5. history' = history
  BY DEF Update
<1>6. Snapshots'
  <2> HIDE DEF l
  <2> QED BY <1>4, <1>5 DEF IPlan, Snapshots, HasEnded, IType, TypeOK
<1> QED BY <1>1, <1>2, <1>3, <1>5, <1>6
    DEF IPlan, ProIsReconcilable, LaunchMeansEnded, GrantsFollowEnd, HasEnded

LEMMA PageReadPlan ==
  ASSUME IType, IPlan, NEW c \in Request, PageRead(c)
  PROVE  IPlan'
<1> DEFINE l == IF org.source = "admin" THEN Free
                ELSE IF MayBeOverProvisioned
                THEN [Free EXCEPT !.pc = "retrieve", !.sub = org.sub]
                ELSE IF MayBeUnderProvisioned
                THEN [Free EXCEPT !.pc = "list", !.customer = org.customer]
                ELSE Free
<1>1. l.pc \in {"idle", "retrieve", "list"}
  BY DEF Free
<1>2. req' = [req EXCEPT ![c] = l] /\ UNCHANGED <<history, org>>
  BY DEF PageRead
<1> HIDE DEF l
<1> QED BY <1>1, <1>2, RequestPlan

LEMMA StripeAnswerPlan ==
  ASSUME IType, IPlan, NEW c \in Request, Retrieve(c) \/ List(c) \/ (c = Return /\ ReturnList)
  PROVE  IPlan'
<1>1. UNCHANGED <<history, org>>
  BY DEF Retrieve, List, ReturnList
<1>2. CASE Done(c) \/ Applied(c)
  BY <1>1, <1>2, DonePlan, AppliedPlan
<1>3. CASE ~Done(c) /\ ~Applied(c)
  <2>1. req[c].pc = "retrieve" => req[c].sub \in Sub /\ Exists(req[c].sub)
    BY DEF IType, TypeOK, Known, Local
  <2>2. PICK s \in Sub : Exists(s) /\ req' = [req EXCEPT ![c] = Found(s)]
    <3>1. CASE Retrieve(c)
      BY <1>3, <2>1, <3>1 DEF Retrieve, Done
    <3>2. CASE List(c)
      BY <1>3, <3>2 DEF List, First, Listed
    <3>3. CASE c = Return /\ ReturnList
      BY <1>3, <3>3 DEF ReturnList, First, Listed
    <3> QED BY <3>1, <3>2, <3>3
  <2> QED BY <1>1, <2>2, FoundPlan
<1> QED BY <1>2, <1>3

LEMMA ReturnStartPlan ==
  ASSUME IType, IPlan, ReturnStart
  PROVE  IPlan'
<1> DEFINE l == IF org.customer = 0 THEN [Free EXCEPT !.pc = "read"]
                ELSE [Free EXCEPT !.pc = "listall", !.customer = org.customer]
<1>1. l.pc \in {"read", "listall"}
  BY DEF Free
<1>2. req' = [req EXCEPT ![Return] = l] /\ UNCHANGED <<history, org>>
  BY DEF ReturnStart
<1> HIDE DEF l
<1> QED BY <1>1, <1>2, RequestFacts, RequestPlan

LEMMA GrantPlan ==
  ASSUME IType, IPlan, NEW plan \in Plan, NEW expiry \in {"none", "set"},
         AdminGrants(plan, expiry)
  PROVE  IPlan'
<1>1. org'.source = "admin" /\ org'.sub = org.sub
  BY DEF AdminGrants, IType, TypeOK, Row
<1>2. org.sub /= 0 => HasEnded(org.sub)
  <2>1. org.sub /= 0 => org.sub \in Sub /\ Exists(org.sub)
    BY DEF IType, TypeOK, Known, Row
  <2> QED BY <2>1, CurrentEnded DEF AdminGrants
<1> QED BY <1>1, <1>2, RowPlan DEF AdminGrants

LEMMA ExpiryPlan ==
  ASSUME IType, IPlan, expireAdminOverride
  PROVE  IPlan'
<1>1. org'.source = "stripe" /\ org'.plan = "launch" /\ org'.sub = org.sub
  BY DEF expireAdminOverride, IType, TypeOK, Row
<1>2. org.sub /= 0 => HasEnded(org.sub)
  BY DEF expireAdminOverride, IPlan, GrantsFollowEnd
<1> QED BY <1>1, <1>2, RowPlan DEF expireAdminOverride

LEMMA GracePlan ==
  ASSUME IType, IPlan, GraceEnds
  PROVE  IPlan'
<1>1. org'.source = org.source /\ org'.plan = org.plan /\ org'.sub = org.sub
  BY DEF GraceEnds, IType, TypeOK, Row
<1> QED BY <1>1, RowPlan
    DEF GraceEnds, IPlan, ProIsReconcilable, LaunchMeansEnded, GrantsFollowEnd

LEMMA InitPlan == Init => IPlan
  BY DEF Init, Free, IPlan, ProIsReconcilable, LaunchMeansEnded, GrantsFollowEnd, Snapshots

LEMMA PlanStep == IType /\ IPlan /\ [Next]_vars => IPlan'
<1> SUFFICES ASSUME IType, IPlan, [Next]_vars PROVE IPlan'
  OBVIOUS
<1>1. ASSUME NEW s \in Sub, NEW status \in Status, SubChanges(s, status) PROVE IPlan'
  BY <1>1, StripePlan
<1>2. ASSUME NEW t \in Tab, Checkout(t) PROVE IPlan'
  BY <1>2, CheckoutPlan
<1>3. ASSUME NEW e \in Event, CheckoutCompleted(e) \/ SubscriptionEvent(e) PROVE IPlan'
  BY <1>3, EventPlan
<1>4. ASSUME NEW c \in Request, Continue(c) PROVE IPlan'
  BY <1>4, SelectPlan, UpdatePlan, PageReadPlan, StripeAnswerPlan DEF Continue
<1>5. ASSUME NEW c \in Request, RequestFails(c) PROVE IPlan'
  BY <1>5, DonePlan DEF RequestFails
<1>6. CASE PageRead(PageLoad)
  BY <1>6, PageReadPlan, RequestFacts
<1>7. CASE ReturnStart
  BY <1>7, ReturnStartPlan
<1>8. ASSUME NEW plan \in Plan, NEW expiry \in {"none", "set"}, AdminGrants(plan, expiry)
      PROVE  IPlan'
  BY <1>8, GrantPlan
<1>9. CASE expireAdminOverride
  BY <1>9, ExpiryPlan
<1>10. CASE GraceEnds
  BY <1>10, GracePlan
<1>11. CASE UNCHANGED vars
  BY <1>11 DEF vars, IPlan, ProIsReconcilable, LaunchMeansEnded, GrantsFollowEnd,
     Snapshots, HasEnded
<1> QED BY <1>1, <1>2, <1>3, <1>4, <1>5, <1>6, <1>7, <1>8, <1>9, <1>10, <1>11 DEF Next

LEMMA PlanInvariant == Spec => []IPlan
  BY InitType, TypeStep, InitPlan, PlanStep, PTL DEF Spec

\* However webhooks, reconciliations, grants and their expiry interleave, a plan
\* that is Pro on Stripe's authority has a subscription id that
\* reconcileDriftedPlan can look up.
THEOREM ProCanBeTakenBack == Spec => []ProIsReconcilable
<1>1. IPlan => ProIsReconcilable
  BY DEF IPlan
<1> QED BY PlanInvariant, <1>1, PTL

\* However late or out of order an event is applied, a workspace is never on
\* Launch next to the id of a subscription that has always been live
\* (applySubscriptionState, expireAdminOverride).
THEOREM LaunchIsEarned == Spec => []LaunchMeansEnded
<1>1. IPlan => LaunchMeansEnded
  BY DEF IPlan
<1> QED BY PlanInvariant, <1>1, PTL

-----------------------------------------------------------------------------
(* One tab, one subscription *)

\* The tab's customer is the workspace's, so that assertNoLiveSubscription sees every
\* subscription there is, and while a checkout is open none of them is left.
OneCustomer(t) ==
  /\ org.customer \in {0, t}
  /\ tab[t].pc \in {"check", "open"} => tab[t].customer = t
  /\ \A s \in Sub : Exists(s) => payer[s] = t
  /\ tab[t].pc = "open" => \A s \in Sub : Exists(s) => Current(s) = "over"

IBilled(t) == OneCustomer(t) /\ NoDoubleBilling

LEMMA StripeBilled ==
  ASSUME IType, NEW t \in Tab, IBilled(t), NEW s \in Sub, NEW status \in Status, SubChanges(s, status)
  PROVE  IBilled(t)'
<1> DEFINE h == Append(history[s], status)
<1>1. /\ Exists(s) /\ Current(s) \in Live /\ history' = [history EXCEPT ![s] = h] /\ UNCHANGED <<payer, tab, org>>
  BY StatusFacts DEF SubChanges, IType, TypeOK, Status, Live
<1>2. h /= <<>> /\ h[Len(h)] = status
  <2>1. history[s] \in Seq(Status)
    BY DEF IType, TypeOK
  <2>2. Len(h) = Len(history[s]) + 1 /\ h[Len(history[s]) + 1] = status
    BY <2>1
  <2> QED
    BY <2>1, <2>2
<1> HIDE DEF h
<1>3. \A u \in Sub : history'[u] = IF u = s THEN h ELSE history[u]
  BY <1>1 DEF IType, TypeOK
<1>4. \A u \in Sub : /\ Exists(u)' <=> Exists(u)
                     /\ u /= s => Current(u)' = Current(u)
  BY <1>1, <1>2, <1>3 DEF Exists, Current
<1>5. tab[t].pc /= "open"
  BY <1>1 DEF IBilled, OneCustomer, Live
<1> QED
  BY <1>1, <1>4, <1>5 DEF IBilled, OneCustomer, NoDoubleBilling

LEMMA CheckoutBilled ==
  ASSUME IType, NEW t \in Tab, IBilled(t), Checkout(t)
  PROVE  IBilled(t)'
<1>0. t /= 0 /\ tab \in [Tab -> [pc : {"idle", "create", "check", "open"}, customer : Customer]] /\ org \in Row
  BY BillingAssumption DEF IType, TypeOK
<1>1. CASE CheckoutStart(t)
  <2>1. tab'[t].pc = "create" \/ (tab'[t].pc = "check" /\ tab'[t].customer = t)
    BY <1>0, <1>1 DEF CheckoutStart, IBilled, OneCustomer
  <2> QED
    BY <1>1, <2>1 DEF CheckoutStart, IBilled, OneCustomer, NoDoubleBilling, Exists, Current
<1>2. CASE CheckoutCustomer(t)
  <2>1. tab'[t].pc = "check" /\ tab'[t].customer = t /\ org'.customer = t /\ UNCHANGED <<history, payer>>
    BY <1>0, <1>2 DEF CheckoutCustomer, Row
  <2> QED
    BY <2>1 DEF IBilled, OneCustomer, NoDoubleBilling, Exists, Current
<1>3. CASE CheckoutSession(t)
  <2>1. UNCHANGED <<history, payer, org>>
    BY <1>3 DEF CheckoutSession
  <2>2. CASE Listed(tab[t].customer, Live) = {}
    <3>1. tab'[t].pc = "open" /\ tab'[t].customer = t
      BY <1>0, <1>3, <2>2 DEF CheckoutSession, IBilled, OneCustomer
    <3>2. \A s \in Sub : Exists(s) => Current(s) = "over"
      BY <1>3, <2>2, StatusFacts DEF CheckoutSession, IBilled, OneCustomer, Listed, Live, Status, IType, TypeOK
    <3> QED
      BY <2>1, <3>1, <3>2 DEF IBilled, OneCustomer, NoDoubleBilling, Exists, Current
  <2>3. CASE Listed(tab[t].customer, Live) /= {}
    <3>1. tab'[t].pc = "idle"
      BY <1>0, <1>3, <2>3 DEF CheckoutSession, NoTab
    <3> QED
      BY <2>1, <3>1 DEF IBilled, OneCustomer, NoDoubleBilling, Exists, Current
  <2> QED
    BY <2>2, <2>3
<1>4. CASE CheckoutEnds(t)
  <2>1. tab'[t].pc = "idle" /\ UNCHANGED <<history, payer, org>>
    BY <1>0, <1>4 DEF CheckoutEnds, NoTab
  <2> QED
    BY <2>1 DEF IBilled, OneCustomer, NoDoubleBilling, Exists, Current
<1>5. CASE Pay(t)
  <2>1. PICK s \in Sub : /\ ~Exists(s) /\ history' = [history EXCEPT ![s] = <<"live">>]
                         /\ payer' = [payer EXCEPT ![s] = tab[t].customer]
    BY <1>5 DEF Pay
  <2>2. /\ tab[t].customer = t /\ tab'[t].pc = "idle" /\ UNCHANGED org
        /\ \A u \in Sub : Exists(u) => Current(u) = "over" /\ payer[u] = t
    BY <1>0, <1>5 DEF Pay, NoTab, IBilled, OneCustomer
  <2>3. \A u \in Sub : u /= s => (Exists(u)' <=> Exists(u)) /\ Current(u)' = Current(u) /\ payer'[u] = payer[u]
    BY <2>1 DEF IType, TypeOK, Exists, Current
  <2>4. payer'[s] = t
    BY <2>1, <2>2 DEF IType, TypeOK
  <2> QED
    BY <2>2, <2>3, <2>4 DEF IBilled, OneCustomer, NoDoubleBilling, Live
<1> QED
  BY <1>1, <1>2, <1>3, <1>4, <1>5 DEF Checkout

LEMMA OthersBilled ==
  ASSUME IType, NEW t \in Tab, IBilled(t), UNCHANGED <<history, payer, tab>>, org'.customer = org.customer
  PROVE  IBilled(t)'
  BY DEF IBilled, OneCustomer, NoDoubleBilling, Exists, Current

LEMMA BilledStep ==
  ASSUME NEW t, Tab = {t}, IType, IBilled(t), [Next]_vars
  PROVE  IBilled(t)'
<1>0. org \in Row /\ t \in Tab
  BY DEF IType, TypeOK
<1>1. ASSUME NEW c \in Request, Update(c) PROVE org'.customer = org.customer /\ UNCHANGED <<history, payer, tab>>
  BY <1>0, <1>1 DEF Update, Row
<1>2. ASSUME NEW e \in Event, CheckoutCompleted(e) PROVE org'.customer = org.customer /\ UNCHANGED <<history, payer, tab>>
  BY <1>0, <1>2 DEF CheckoutCompleted, Row
<1>3. ASSUME NEW plan \in Plan, NEW expiry \in {"none", "set"}, AdminGrants(plan, expiry) \/ expireAdminOverride \/ GraceEnds
      PROVE  org'.customer = org.customer /\ UNCHANGED <<history, payer, tab>>
  BY <1>0, <1>3 DEF AdminGrants, expireAdminOverride, GraceEnds, Row
<1>4. ASSUME NEW c \in Request,
             Select(c) \/ Retrieve(c) \/ List(c) \/ ReturnList \/ PageRead(c) \/ RequestFails(c) \/ ReturnStart
      PROVE  UNCHANGED <<history, payer, tab, org>>
  BY <1>4 DEF Select, Retrieve, List, ReturnList, PageRead, RequestFails, ReturnStart
<1>5. ASSUME NEW e \in Event, SubscriptionEvent(e) PROVE UNCHANGED <<history, payer, tab, org>>
  BY <1>5 DEF SubscriptionEvent
<1>6. CASE \E s \in Sub, status \in Status : SubChanges(s, status)
  BY <1>0, <1>6, StripeBilled
<1>7. CASE \E u \in Tab : Checkout(u)
  BY <1>0, <1>7, CheckoutBilled
<1>8. CASE UNCHANGED vars
  BY <1>0, <1>8, OthersBilled DEF vars
<1>9. CASE \E c \in Request : Continue(c) \/ RequestFails(c)
  BY <1>0, <1>1, <1>4, <1>9, OthersBilled DEF Continue
<1>10. CASE \E e \in Event : CheckoutCompleted(e) \/ SubscriptionEvent(e)
  BY <1>0, <1>2, <1>5, <1>10, OthersBilled
<1>11. CASE PageRead(PageLoad) \/ ReturnStart
  BY <1>0, <1>4, <1>11, RequestFacts, OthersBilled
<1>12. CASE (\E plan \in Plan, expiry \in {"none", "set"} : AdminGrants(plan, expiry)) \/ expireAdminOverride \/ GraceEnds
  BY <1>0, <1>3, <1>12, OthersBilled DEF Plan
<1> QED
  BY <1>6, <1>7, <1>8, <1>9, <1>10, <1>11, <1>12 DEF Next

\* Whoever pays for a workspace from one tab, through any checkouts abandoned, webhooks lost and
\* subscriptions ended and begun again, never pays two subscriptions at a time
\* (assertNoLiveSubscription).
THEOREM PaysOnce ==
  ASSUME NEW t, Tab = {t}
  PROVE  Spec => []NoDoubleBilling
<1>1. Init => IBilled(t)
  BY DEF Init, IBilled, OneCustomer, NoDoubleBilling, NoTab, Exists
<1>2. IType /\ IBilled(t) /\ [Next]_vars => IBilled(t)'
  BY BilledStep
<1>3. IBilled(t) => NoDoubleBilling
  BY DEF IBilled
<1> QED
  BY InitType, TypeStep, <1>1, <1>2, <1>3, PTL DEF Spec
=============================================================================
