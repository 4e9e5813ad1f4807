------------------------------- MODULE Billing -------------------------------
(***************************************************************************)
(* The plan of one workspace: the columns plan, plan_source,               *)
(* stripe_customer_id, stripe_subscription_id, plan_grace_ends_at and      *)
(* plan_override_expires_at of its row in organizations, and everything    *)
(* that writes them.  Writers are Stripe's webhooks, the reconciliation    *)
(* done by every load of the billing page, the one done when checkout      *)
(* redirects back, the checkout request (which stores the customer), the   *)
(* operator who grants a plan by hand, and the lazy expiry of that grant.  *)
(*                                                                         *)
(* A request reads the row with one statement and writes it with another,  *)
(* so that other requests run in between.  Stripe delivers an event any    *)
(* number of times, in any order, or never.                                *)
(*                                                                         *)
(* Stripe's statuses are told apart as far as the two sets of              *)
(* billing.service.ts do: "live" stands for active, trialing, past_due and *)
(* incomplete, "over" for canceled and incomplete_expired.                 *)
(***************************************************************************)
EXTENDS Integers, Sequences, FiniteSets

CONSTANTS
  Sub,         \* subscriptions Stripe may create, in order of creation
  Tab,         \* browser tabs that may start a checkout
  MaxChanges,  \* bound: statuses a subscription goes through
  MaxBusy,     \* bound: webhooks and page requests in flight at once
  MaxGrants,   \* bound: plans granted by an operator
  MaxFaults    \* bound: requests that fail half way

ASSUME BillingAssumption ==
  /\ Sub \subseteq Nat \ {0}
  /\ IsFiniteSet(Sub)
  /\ Tab \subseteq Nat \ {0}
  /\ MaxChanges \in Nat \ {0}
  /\ MaxBusy \in Nat \ {0}
  /\ MaxGrants \in Nat
  /\ MaxFaults \in Nat

VARIABLES
  history,  \* Stripe: the statuses each subscription has had, the latest last
  payer,    \* Stripe: the customer each subscription bills
  tab,      \* the checkout of each tab and the customer it uses
  org,      \* the workspace's row
  seen,     \* stripe_webhook_events
  req,      \* each request in flight: its next step and its local variables
  grants, faults

vars == <<history, payer, tab, org, seen, req, grants, faults>>

Status == {"live", "unpaid", "over"}
Ended  == {"unpaid", "over"}  \* ENDED_SUBSCRIPTION_STATUSES
Live   == {"live", "unpaid"}  \* LIVE_SUBSCRIPTION_STATUSES
Plan   == {"launch", "pro"}

\* Event <<s, 0>> is the checkout.session.completed of subscription s and
\* <<s, n>> is the customer.subscription.* that carries its n-th status.
Event    == Sub \X (0 .. MaxChanges)
PageLoad == <<0, 0>>          \* GET /api/billing
Return   == <<0, 1>>          \* POST /api/billing/reconcile, back from checkout
Request  == Event \cup {PageLoad, Return}

Free == [pc |-> "idle", sub |-> 0, status |-> "over", customer |-> 0,
         plan |-> "launch", grace |-> "none"]

NoTab == [pc |-> "idle", customer |-> 0]

Init ==
  /\ history = [s \in Sub |-> <<>>]
  /\ payer = [s \in Sub |-> 0]
  /\ tab = [t \in Tab |-> NoTab]
  /\ org = [plan |-> "launch", source |-> "stripe", customer |-> 0, sub |-> 0,
            grace |-> "none", expiry |-> "none"]
  /\ seen = {}
  /\ req = [c \in Request |-> Free]
  /\ grants = 0
  /\ faults = 0

-----------------------------------------------------------------------------
(* Stripe *)

Exists(s)  == history[s] /= <<>>
Current(s) == history[s][Len(history[s])]

\* The customer's subscriptions with a status in S.
Listed(c, S) == {s \in Sub : Exists(s) /\ payer[s] = c /\ Current(s) \in S}

\* The list is sorted, the most recent first: {} or the first one of L.
First(L) == {s \in L : \A u \in L : u <= s}

\* Dunning gives up, the invoice is settled after all, or the subscription ends.
SubChanges(s, status) ==
  /\ Exists(s)
  /\ Len(history[s]) < MaxChanges
  /\ Current(s) /= "over"
  /\ status /= Current(s)
  /\ history' = [history EXCEPT ![s] = Append(@, status)]
  /\ UNCHANGED <<payer, tab, org, seen, req, grants, faults>>

-----------------------------------------------------------------------------
(* createCheckoutSession *)

\* The first SELECT of resolveStripeCustomerId.  A checkout in one currency never
\* meets a customer pinned to another.
CheckoutStart(t) ==
  /\ tab[t].pc = "idle"
  /\ tab' = [tab EXCEPT ![t] =
       [pc |-> IF org.customer = 0 THEN "create" ELSE "check",
        customer |-> org.customer]]
  /\ UNCHANGED <<history, payer, org, seen, req, grants, faults>>

\* customers.create, then the UPDATE.  A tab creates at most one customer, which
\* gets the tab's number.
CheckoutCustomer(t) ==
  /\ tab[t].pc = "create"
  /\ tab' = [tab EXCEPT ![t] = [pc |-> "check", customer |-> t]]
  /\ org' = [org EXCEPT !.customer = t]
  /\ UNCHANGED <<history, payer, seen, req, grants, faults>>

\* Mutant: the workspace's own plan is asked.
CheckoutSessionByPlan(t) ==
  /\ tab[t].pc = "check"
  /\ tab' = [tab EXCEPT ![t] =
       IF org.plan = "launch" THEN [@ EXCEPT !.pc = "open"] ELSE NoTab]
  /\ UNCHANGED <<history, payer, org, seen, req, grants, faults>>

\* assertNoLiveSubscription, then sessions.create, which changes nothing that
\* another step reads.
CheckoutSession(t) ==
  /\ tab[t].pc = "check"
  /\ tab' = [tab EXCEPT ![t] =
       IF Listed(tab[t].customer, Live) = {} THEN [@ EXCEPT !.pc = "open"] ELSE NoTab]
  /\ UNCHANGED <<history, payer, org, seen, req, grants, faults>>

\* A Stripe call of the checkout fails, or the customer leaves the session.
CheckoutEnds(t) ==
  /\ tab[t].pc /= "idle"
  /\ tab' = [tab EXCEPT ![t] = NoTab]
  /\ UNCHANGED <<history, payer, org, seen, req, grants, faults>>

\* The customer pays: Stripe creates the next subscription.
Pay(t) ==
  /\ tab[t].pc = "open"
  /\ \E s \in Sub :
       /\ ~Exists(s)
       /\ \A u \in Sub : u < s => Exists(u)
       /\ history' = [history EXCEPT ![s] = <<"live">>]
       /\ payer' = [payer EXCEPT ![s] = tab[t].customer]
  /\ tab' = [tab EXCEPT ![t] = NoTab]
  /\ UNCHANGED <<org, seen, req, grants, faults>>

-----------------------------------------------------------------------------
(* handleWebhookEvent *)

Busy == Cardinality({c \in Request : req[c].pc /= "idle"})

Done(c) == req' = [req EXCEPT ![c] = Free]

\* Stripe has sent the event.
Sent(e) == Exists(e[1]) /\ e[2] <= Len(history[e[1]])

\* The INSERT into stripe_webhook_events ... ON CONFLICT DO NOTHING concerns this
\* event only, so that it is one step with the statement after it; a delivery of a
\* recorded event does nothing.
Recorded(e) ==
  /\ Busy < MaxBusy
  /\ Sent(e)
  /\ e \notin seen
  /\ seen' = seen \cup {e}

\* case "checkout.session.completed": the grace window is left as it is.
CheckoutCompleted(e) ==
  /\ e[2] = 0
  /\ Recorded(e)
  /\ org' = [org EXCEPT !.plan = "pro", !.sub = e[1], !.source = "stripe",
                        !.expiry = "none"]
  /\ UNCHANGED <<history, payer, tab, req, grants, faults>>

\* A statement or a Stripe call fails, or the process dies.  The event id stays
\* recorded; a page load swallows the error.
RequestFails(c) ==
  /\ req[c].pc /= "idle"
  /\ faults < MaxFaults
  /\ faults' = faults + 1
  /\ Done(c)
  /\ UNCHANGED <<history, payer, tab, org, seen, grants>>

-----------------------------------------------------------------------------
(* applySubscriptionState, for the webhooks and both reconciliations *)

\* reconcileFromStripe goes on to getBillingInfo; the others end.
Applied(c) ==
  req' = [req EXCEPT ![c] = IF c = Return THEN [Free EXCEPT !.pc = "read"] ELSE Free]

\* The return for a plan that an operator set.
Ignored(status) == org.source = "admin" /\ status \in Ended

\* What the SELECT leaves for the UPDATE.
Before(s, status) ==
  [Free EXCEPT !.pc = "update", !.sub = s, !.status = status, !.plan = org.plan,
               !.grace = org.grace]

\* case "customer.subscription.*", up to the SELECT.  The event carries the status
\* the subscription had when it was sent.
SubscriptionEvent(e) ==
  /\ e[2] > 0
  /\ Recorded(e)
  /\ LET status == history[e[1]][e[2]]
     IN  req' = [req EXCEPT ![e] =
           IF Ignored(status) THEN Free ELSE Before(e[1], status)]
  /\ UNCHANGED <<history, payer, tab, org, grants, faults>>

\* The SELECT for a subscription that a reconciliation got from Stripe.
Select(c) ==
  /\ req[c].pc = "select"
  /\ IF Ignored(req[c].status)
     THEN Applied(c)
     ELSE req' = [req EXCEPT ![c] = Before(req[c].sub, req[c].status)]
  /\ UNCHANGED <<history, payer, tab, org, seen, grants, faults>>

NewPlan(status) == IF status \in Ended THEN "launch" ELSE "pro"

\* graceEndsAt, from the plan and the deadline read by the SELECT.
graceEndsAt(r) ==
  IF NewPlan(r.status) = "pro" THEN "none"
  ELSE IF r.plan = "pro" /\ r.grace = "none" THEN "open"
  ELSE r.grace

\* Mutant: a subscription id that is already recorded is kept.
UpdateKeepsSub(c) ==
  /\ req[c].pc = "update"
  /\ org' = [org EXCEPT !.plan = NewPlan(req[c].status), !.grace = graceEndsAt(req[c]),
                        !.sub = IF org.sub = 0 THEN req[c].sub ELSE org.sub,
                        !.source = "stripe", !.expiry = "none"]
  /\ Applied(c)
  /\ UNCHANGED <<history, payer, tab, seen, grants, faults>>

Update(c) ==
  /\ req[c].pc = "update"
  /\ org' = [org EXCEPT !.plan = NewPlan(req[c].status), !.sub = req[c].sub,
                        !.grace = graceEndsAt(req[c]), !.source = "stripe",
                        !.expiry = "none"]
  /\ Applied(c)
  /\ UNCHANGED <<history, payer, tab, seen, grants, faults>>

-----------------------------------------------------------------------------
(* getBillingInfo: reconcileDriftedPlan *)

Reading(c) ==
  \/ c = PageLoad /\ req[c].pc = "idle" /\ Busy < MaxBusy
  \/ c = Return /\ req[c].pc = "read"

MayBeUnderProvisioned == org.plan = "launch" /\ org.customer /= 0 /\ org.sub = 0
MayBeOverProvisioned  == org.plan = "pro" /\ org.sub /= 0

\* Mutant: only the downgrade is reconciled.
PageReadOverOnly(c) ==
  /\ Reading(c)
  /\ req' = [req EXCEPT ![c] =
       IF org.source = "stripe" /\ MayBeOverProvisioned
       THEN [Free EXCEPT !.pc = "retrieve", !.sub = org.sub]
       ELSE Free]
  /\ UNCHANGED <<history, payer, tab, org, seen, grants, faults>>

\* The SELECT and the gates before any call to Stripe.
PageRead(c) ==
  /\ Reading(c)
  /\ req' = [req EXCEPT ![c] =
       IF org.source = "admin" THEN Free
       ELSE IF MayBeOverProvisioned
       THEN [Free EXCEPT !.pc = "retrieve", !.sub = org.sub]
       ELSE IF MayBeUnderProvisioned
       THEN [Free EXCEPT !.pc = "list", !.customer = org.customer]
       ELSE Free]
  /\ UNCHANGED <<history, payer, tab, org, seen, grants, faults>>

\* Stripe answered with subscription s, which is to be applied.
Found(s) == [Free EXCEPT !.pc = "select", !.sub = s, !.status = Current(s)]

\* Mutant: the status is tested against the wrong set.
RetrieveNotLive(c) ==
  /\ req[c].pc = "retrieve"
  /\ req' = [req EXCEPT ![c] =
       IF Current(req[c].sub) \in Live THEN Free ELSE Found(req[c].sub)]
  /\ UNCHANGED <<history, payer, tab, org, seen, grants, faults>>

\* subscriptions.retrieve of the recorded subscription
Retrieve(c) ==
  /\ req[c].pc = "retrieve"
  /\ req' = [req EXCEPT ![c] =
       IF Current(req[c].sub) \in Ended THEN Found(req[c].sub) ELSE Free]
  /\ UNCHANGED <<history, payer, tab, org, seen, grants, faults>>

\* subscriptions.list of the customer, of which the first live one is applied.
List(c) ==
  /\ req[c].pc = "list"
  /\ LET live == Listed(req[c].customer, Live)
     IN  \/ live = {} /\ Done(c)
         \/ \E s \in First(live) : req' = [req EXCEPT ![c] = Found(s)]
  /\ UNCHANGED <<history, payer, tab, org, seen, grants, faults>>

-----------------------------------------------------------------------------
(* reconcileFromStripe *)

ReturnStart ==
  /\ req[Return].pc = "idle"
  /\ Busy < MaxBusy
  /\ req' = [req EXCEPT ![Return] =
       IF org.customer = 0 THEN [Free EXCEPT !.pc = "read"]
       ELSE [Free EXCEPT !.pc = "listall", !.customer = org.customer]]
  /\ UNCHANGED <<history, payer, tab, org, seen, grants, faults>>

\* The first live subscription of the list, else its first.
ReturnList ==
  /\ req[Return].pc = "listall"
  /\ LET all  == Listed(req[Return].customer, Status)
         live == Listed(req[Return].customer, Live)
     IN  \/ all = {} /\ Applied(Return)
         \/ \E s \in First(IF live = {} THEN all ELSE live) :
              req' = [req EXCEPT ![Return] = Found(s)]
  /\ UNCHANGED <<history, payer, tab, org, seen, grants, faults>>

-----------------------------------------------------------------------------
(* The admin panel, the clock, and PlanLimitsService *)

\* An operator sets the plan of a workspace that has no subscription running.
AdminGrants(plan, expiry) ==
  /\ grants < MaxGrants
  /\ org.sub /= 0 => Current(org.sub) \in Ended
  /\ org' = [org EXCEPT !.plan = plan, !.source = "admin", !.expiry = expiry]
  /\ grants' = grants + 1
  /\ UNCHANGED <<history, payer, tab, seen, req, faults>>

\* Mutant: the lapsed grant is handed back to Stripe with its plan.
expireAdminOverrideKeepsPlan ==
  /\ org.source = "admin"
  /\ org.expiry = "set"
  /\ org' = [org EXCEPT !.source = "stripe", !.expiry = "none"]
  /\ UNCHANGED <<history, payer, tab, seen, req, grants, faults>>

\* getEntitlement runs after the end date of a grant.  The UPDATE tests again all
\* that the SELECT before it tested, so that they are one step; until then a lapsed
\* grant is like any other.
expireAdminOverride ==
  /\ org.source = "admin"
  /\ org.expiry = "set"
  /\ org' = [org EXCEPT !.plan = "launch", !.source = "stripe", !.expiry = "none"]
  /\ UNCHANGED <<history, payer, tab, seen, req, grants, faults>>

\* plan_grace_ends_at passes.  No request lasts as long as PLAN_GRACE_DAYS.
GraceEnds ==
  /\ org.grace = "open"
  /\ \A c \in Request : req[c].pc /= "update"
  /\ org' = [org EXCEPT !.grace = "ended"]
  /\ UNCHANGED <<history, payer, tab, seen, req, grants, faults>>

\* getEntitlement: the plan whose limits apply.
EffectivePlan(o) == IF o.grace = "open" THEN "pro" ELSE o.plan

-----------------------------------------------------------------------------
(* The specification *)

Checkout(t) ==
  \/ CheckoutStart(t) \/ CheckoutCustomer(t) \/ CheckoutSession(t)
  \/ CheckoutEnds(t) \/ Pay(t)

Continue(c) ==
  \/ Select(c) \/ Update(c) \/ Retrieve(c) \/ List(c)
  \/ c = Return /\ (ReturnList \/ PageRead(c))

Next ==
  \/ \E s \in Sub, status \in Status : SubChanges(s, status)
  \/ \E t \in Tab : Checkout(t)
  \/ \E e \in Event : CheckoutCompleted(e) \/ SubscriptionEvent(e)
  \/ \E c \in Request : Continue(c) \/ RequestFails(c)
  \/ PageRead(PageLoad)
  \/ ReturnStart
  \/ \E plan \in Plan, expiry \in {"none", "set"} : AdminGrants(plan, expiry)
  \/ expireAdminOverride \/ GraceEnds

Spec == Init /\ [][Next]_vars

\* Requests that have begun go on, and the billing page is opened again and again.
\* Nobody has to click, Stripe may never deliver, and checkout may never return.
FairSpec ==
  /\ Spec
  /\ \A c \in Request : WF_vars(Continue(c))
  /\ SF_vars(PageRead(PageLoad))

-----------------------------------------------------------------------------
(* Properties *)

Customer == Tab \cup {0}
Grace    == {"none", "open", "ended"}
Row   == [plan : Plan, source : {"stripe", "admin"}, customer : Customer,
          sub : Sub \cup {0}, grace : Grace, expiry : {"none", "set"}]
Local == [pc : {"idle", "select", "update", "retrieve", "list", "listall", "read"},
          sub : Sub \cup {0}, status : Status, customer : Customer, plan : Plan,
          grace : Grace]

\* Types; an event that is being handled is recorded as seen.
TypeOK ==
  /\ history \in [Sub -> Seq(Status)]
  /\ payer \in [Sub -> Customer]
  /\ tab \in [Tab -> [pc : {"idle", "create", "check", "open"}, customer : Customer]]
  /\ org \in Row
  /\ seen \subseteq Event
  /\ req \in [Request -> Local]
  /\ \A e \in Event : req[e].pc /= "idle" => e \in seen
  /\ grants \in 0 .. MaxGrants
  /\ faults \in 0 .. MaxFaults

\* reconcileDriftedPlan takes Pro away only where a subscription id is recorded.
\* It can therefore reach every workspace whose Pro is Stripe's to decide: none
\* of the writers, in any interleaving, leaves Pro there without an id.
ProIsReconcilable ==
  org.plan = "pro" /\ org.source = "stripe" => org.sub /= 0

HasEnded(s) == \E n \in 1 .. Len(history[s]) : history[s][n] \in Ended

\* A workspace with a recorded subscription is on Launch only if that subscription
\* did end: neither late events, nor the reconciliations, nor the expiry of a
\* grant made by hand take Pro away from a subscription that never ended.
LaunchMeansEnded ==
  org.plan = "launch" /\ org.source = "stripe" /\ org.sub /= 0 => HasEnded(org.sub)

\* No two subscriptions are billed for one workspace: assertNoLiveSubscription
\* asks Stripe because the workspace's own row may be behind.  It holds as long
\* as a single tab is used.
NoDoubleBilling ==
  \A s, u \in Sub :
    Exists(s) /\ Exists(u) /\ Current(s) \in Live /\ Current(u) \in Live => s = u

Paying(c) == c /= 0 /\ Listed(c, {"live"}) /= {}

\* A first subscription is activated by loads of the billing page alone, even if
\* no webhook ever arrives and checkout never returns.
UnderProvisionedHeals ==
  (org.plan = "launch" /\ org.source = "stripe" /\ org.sub = 0 /\ Paying(org.customer))
    ~> (\/ org.plan = "pro" \/ org.source = "admin" \/ org.sub /= 0
        \/ ~Paying(org.customer))

AllEnded == \A s \in Sub : Exists(s) => Current(s) \in Ended

\* Pro does not survive the end of every subscription, whatever was lost: "Left
\* alone, a cancelled customer keeps Pro forever" (reconcileDriftedPlan).
OverProvisionedHeals ==
  (org.plan = "pro" /\ org.source = "stripe" /\ AllEnded)
    ~> (org.plan = "launch" \/ org.source = "admin" \/ ~AllEnded)
=============================================================================
