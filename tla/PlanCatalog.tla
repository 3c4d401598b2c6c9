------------------------------ MODULE PlanCatalog ------------------------------
(***************************************************************************)
(* The plans on sale and what Stripe knows of them: an administrator edits *)
(* plans, starts of the server reset them to plans.yaml, and              *)
(* StripePlanSyncService brings them to Stripe (for one plan from the      *)
(* console, for all by command) in several calls with nothing to keep two  *)
(* syncs apart.  Meanwhile users buy: the checkout makes their customer.   *)
(***************************************************************************)
EXTENDS Integers, FiniteSets, SequencesExt

CONSTANTS Plans,        \* slugs; a slug is never changed
          Amounts,      \* what a plan may cost
          Config,       \* plans.yaml: the amount of each plan
          Users,
          Workers,      \* requests and commands that run at a time
          Scenes,       \* bounds: what happens, and how often
          None

VARIABLES open,         \* BillingConfig: users may buy through Stripe
          plan,         \* Plan: its id, its amount, on sale or not; or None
          row,          \* PlanPrice of a plan for Stripe: price and amount; or None
          price,        \* Stripe: prices, by id
          product,      \* Stripe: number of unified products
          searchable,   \* Stripe: products a search finds
          key,          \* Stripe: what the idempotency key of a user made; or None
          made,         \* Stripe: number of customers
          customer,     \* dj-stripe's Customer rows of a user
          session,      \* Stripe: checkouts opened, the price of each
          served,       \* purchases whose event found a plan
          job,
          spoiled,      \* history: plans whose last sync was cut short or overlapped
          budget

vars == <<open, plan, row, price, product, searchable, key, made, customer, session,
          served, job, spoiled, budget>>
stripe == <<price, product, searchable>>
people == <<key, made, customer, session, served>>

ASSUME CatalogAssumption == None \notin Nat

Idle == [pc |-> "idle", todo |-> <<>>, product |-> None, match |-> None,
         made |-> None, dropped |-> FALSE, alone |-> TRUE, user |-> None]

Init ==
  /\ open = TRUE
  /\ plan = [s \in Plans |-> [id |-> 0, amount |-> Config[s], sale |-> TRUE]]
  /\ row = [s \in Plans |-> None]
  /\ price = <<>>
  /\ product = 0
  /\ searchable = {}
  /\ key = [u \in Users |-> None]
  /\ made = 0
  /\ customer = [u \in Users |-> {}]
  /\ session = {}
  /\ served = {}
  /\ job = [w \in Workers |-> Idle]
  /\ spoiled = {}
  /\ budget \in Scenes

Spend(k) ==
  /\ k \in DOMAIN budget
  /\ budget[k] > 0
  /\ budget' = [budget EXCEPT ![k] = @ - 1]
-----------------------------------------------------------------------------
(* The administrator and the start of the server *)

EditPlan(s) ==
  /\ plan[s] # None
  /\ Spend("edit")
  /\ \E a \in Amounts, b \in BOOLEAN :
       plan' = [plan EXCEPT ![s].amount = a, ![s].sale = b]
  /\ UNCHANGED <<open, row, stripe, people, job, spoiled>>

(* The slug of a deleted plan is free again; the new row has an id of its own. *)
CreatePlan(s) ==
  /\ plan[s] = None
  /\ Spend("create")
  /\ \E a \in Amounts, b \in BOOLEAN :
       plan' = [plan EXCEPT ![s] = [id |-> 1 + budget["create"], amount |-> a, sale |-> b]]
  /\ UNCHANGED <<open, row, stripe, people, job, spoiled>>

(* The prices of a plan go with it; a subscription protects it. *)
DeletePlan(s) ==
  /\ plan[s] # None
  /\ \A x \in served : x.plan # s
  /\ Spend("delete")
  /\ plan' = [plan EXCEPT ![s] = None]
  /\ row' = [row EXCEPT ![s] = None]
  /\ UNCHANGED <<open, stripe, people, job, spoiled>>

(* upsert_plans_from_config undoes what the administrator has edited. *)
Upserted ==
  [s \in Plans |-> [id |-> IF plan[s] = None THEN 1 ELSE plan[s].id,
                    amount |-> Config[s], sale |-> TRUE]]

(* update_billing_config *)
EditConfig ==
  /\ Spend("config")
  /\ open' = ~open
  /\ UNCHANGED <<plan, row, stripe, people, job, spoiled>>

InitBase ==
  /\ Spend("base")
  /\ plan' = Upserted
  /\ UNCHANGED <<open, row, stripe, people, job, spoiled>>
-----------------------------------------------------------------------------
(* The sync of plans *)

Snapshot(s, p) == [slug |-> s, id |-> p[s].id, amount |-> p[s].amount]
Set(w, r) == job' = [job EXCEPT ![w] = r]
At(w, pc) == job[w].pc = pc
Now(w) == Head(job[w].todo)
On(s) == {w \in Workers : job[w].todo # <<>> /\ ~At(w, "next") /\ Now(w).slug = s}

(* What is left to a worker after the plan it is at. *)
Rest(w) == IF Len(job[w].todo) > 1
           THEN [Idle EXCEPT !.pc = "next", !.todo = Tail(job[w].todo)] ELSE Idle

SyncPlan(w, s) ==
  /\ At(w, "idle")
  /\ plan[s] # None /\ plan[s].sale
  /\ Spend("sync")
  /\ Set(w, [Idle EXCEPT !.pc = "next", !.todo = <<Snapshot(s, plan)>>])
  /\ UNCHANGED <<open, plan, row, stripe, people, spoiled>>

CheapestFirst(S) == SetToSortSeq(S, LAMBDA a, b : a.amount < b.amount)
OnSale(p) == {s \in Plans : p[s].sale}

(* init_billing_stripe: all plans as they are now, the cheapest first. *)
SyncAll(w) ==
  /\ At(w, "idle")
  /\ Spend("command")
  /\ plan' = Upserted
  /\ Set(w, [Idle EXCEPT !.pc = "next",
               !.todo = CheapestFirst({Snapshot(s, Upserted) : s \in OnSale(Upserted)})])
  /\ UNCHANGED <<open, row, stripe, people, spoiled>>

(* A worker turns to a plan; who else is at it is disturbed. *)
BeginPlan(w) ==
  /\ At(w, "next") /\ job[w].todo # <<>>
  /\ LET s == Now(w).slug IN
     /\ job' = [v \in Workers |->
                 IF v = w THEN [job[w] EXCEPT !.pc = "search", !.alone = On(s) = {}]
                 ELSE [job[v] EXCEPT !.alone = @ /\ v \notin On(s)]]
     /\ spoiled' = IF On(s) = {} THEN spoiled ELSE spoiled \cup {s}
  /\ UNCHANGED <<open, plan, row, stripe, people, budget>>

(* _ensure_unified_product *)
SearchProduct(w) ==
  /\ At(w, "search")
  /\ \/ \E p \in searchable : Set(w, [job[w] EXCEPT !.pc = "list", !.product = p])
     \/ searchable = {} /\ Set(w, [job[w] EXCEPT !.pc = "product"])
  /\ UNCHANGED <<open, plan, row, stripe, people, spoiled, budget>>

CreateProduct(w) ==
  /\ At(w, "product")
  /\ product' = product + 1
  /\ Set(w, [job[w] EXCEPT !.pc = "list", !.product = product'])
  /\ UNCHANGED <<open, plan, row, price, searchable, people, spoiled, budget>>

(* Mutant of Matching: the slug is left out. *)
OfProduct(p, s) == {i \in DOMAIN price : price[i].active /\ price[i].product = p}
(* _find_matching_price: the first of the list, which has no order. *)
Matching(p, s) ==
  {i \in DOMAIN price : price[i].active /\ price[i].product = p /\ price[i].slug = s}

(* _ensure_price *)
ListPrices(w) ==
  LET found == Matching(job[w].product, Now(w).slug) IN
  /\ At(w, "list")
  /\ \/ found = {} /\ Set(w, [job[w] EXCEPT !.pc = "create"])
     \/ \E i \in found :
          Set(w, IF price[i].amount = Now(w).amount
                 THEN [job[w] EXCEPT !.pc = "save", !.made = i]
                 ELSE [job[w] EXCEPT !.pc = "modify", !.match = i])
  /\ UNCHANGED <<open, plan, row, stripe, people, spoiled, budget>>

DropPrice(w) ==
  /\ At(w, "modify")
  /\ price' = [price EXCEPT ![job[w].match].active = FALSE]
  /\ Set(w, [job[w] EXCEPT !.pc = "create", !.dropped = TRUE])
  /\ UNCHANGED <<open, plan, row, product, searchable, people, spoiled, budget>>

CreatePrice(w) ==
  /\ At(w, "create")
  /\ price' = Append(price, [slug |-> Now(w).slug, amount |-> Now(w).amount,
                             product |-> job[w].product, active |-> TRUE])
  /\ Set(w, [job[w] EXCEPT !.pc = "save", !.made = Len(price')])
  /\ UNCHANGED <<open, plan, row, product, searchable, people, spoiled, budget>>

Exists(x) == plan[x.slug] # None /\ plan[x.slug].id = x.id

(* update_or_create, in the transaction of the request or of its own. *)
SaveRow(w) ==
  LET x == Now(w) IN
  /\ At(w, "save")
  /\ Exists(x)
  /\ row' = [row EXCEPT ![x.slug] = [price |-> job[w].made, amount |-> x.amount]]
  /\ spoiled' = IF job[w].alone THEN spoiled \ {x.slug} ELSE spoiled
  /\ Set(w, Rest(w))
  /\ UNCHANGED <<open, plan, stripe, people, budget>>

(* A call to Stripe or to the database fails, or the plan of the row is     *)
(* gone: the command goes on with the next plan, the request ends and takes *)
(* back its own writes, not what it has done at Stripe.                     *)
Spoils(w) == IF job[w].dropped THEN spoiled \cup {Now(w).slug} ELSE spoiled

SyncFails(w) ==
  /\ job[w].todo # <<>> /\ ~At(w, "next")
  /\ IF At(w, "save") /\ ~Exists(Now(w)) THEN UNCHANGED budget ELSE Spend("fail")
  /\ spoiled' = Spoils(w)
  /\ Set(w, Rest(w))
  /\ UNCHANGED <<open, plan, row, stripe, people>>

SyncDies(w) ==
  /\ job[w].todo # <<>>
  /\ Spend("crash")
  /\ spoiled' = Spoils(w)
  /\ Set(w, Idle)
  /\ UNCHANGED <<open, plan, row, stripe, people>>

(* Stripe finds a product only some time after it was made. *)
Indexed ==
  /\ \E p \in 1..product \ searchable : searchable' = searchable \cup {p}
  /\ UNCHANGED <<open, plan, row, price, product, people, job, spoiled, budget>>
-----------------------------------------------------------------------------
(* The checkout *)

(* can_user_purchase *)
Offered(s) == open /\ plan[s] # None /\ plan[s].sale /\ row[s] # None

(* More than one customer of a user: 409. *)
AskCheckout(w, u) ==
  /\ At(w, "idle")
  /\ Cardinality(customer[u]) <= 1
  /\ Spend("buy")
  /\ \E s \in {s \in Plans : Offered(s)} :
       Set(w, [Idle EXCEPT !.pc = IF customer[u] = {} THEN "customer" ELSE "session",
                           !.user = u, !.match = row[s].price])
  /\ UNCHANGED <<open, plan, row, stripe, people, spoiled>>

(* Mutant of Remembered: the request has no idempotency key. *)
Forgotten(u) == made + 1
(* Stripe answers a key it knows with what the key has made. *)
Remembered(u) == IF key[u] = None THEN made + 1 ELSE key[u]

MakeCustomer(w) ==
  LET u == job[w].user
      c == Remembered(u) IN
  /\ At(w, "customer")
  /\ key' = [key EXCEPT ![u] = c]
  /\ made' = IF c > made THEN c ELSE made
  /\ Set(w, [job[w] EXCEPT !.pc = "keep", !.made = c])
  /\ UNCHANGED <<open, plan, row, stripe, customer, session, served, spoiled, budget>>

KeepCustomer(w) ==
  /\ At(w, "keep")
  /\ customer' = [customer EXCEPT ![job[w].user] = @ \cup {job[w].made}]
  /\ Set(w, [job[w] EXCEPT !.pc = "session"])
  /\ UNCHANGED <<open, plan, row, stripe, key, made, session, served, spoiled, budget>>

(* Stripe opens no session for a price that is not active. *)
OpenSession(w) ==
  /\ At(w, "session")
  /\ session' = IF price[job[w].match].active THEN session \cup {job[w].match} ELSE session
  /\ Set(w, Idle)
  /\ UNCHANGED <<open, plan, row, stripe, key, made, customer, served, spoiled, budget>>

CheckoutFails(w) ==
  /\ job[w].user # None
  /\ Spend("fail")
  /\ Set(w, Idle)
  /\ UNCHANGED <<open, plan, row, stripe, people, spoiled>>

(* Stripe keeps a key for a day; a request is over by then. *)
KeyExpires(u) ==
  /\ key[u] # None
  /\ \A w \in Workers : job[w].user # u
  /\ Spend("day")
  /\ key' = [key EXCEPT ![u] = None]
  /\ UNCHANGED <<open, plan, row, stripe, made, customer, session, served, job, spoiled>>

(* sync_from_djstripe finds the plan of a paid session by the price in its   *)
(* row; when no row has the price any more it raises StripePlanMappingError. *)
ServeSession(i) ==
  /\ \E s \in Plans :
       /\ row[s] # None /\ row[s].price = i
       /\ served' = served \cup {[price |-> i, plan |-> s]}
  /\ UNCHANGED <<open, plan, row, stripe, key, made, customer, session, job, spoiled, budget>>
-----------------------------------------------------------------------------
WorkerStep(w) ==
  \/ SyncAll(w) \/ BeginPlan(w) \/ SearchProduct(w) \/ CreateProduct(w)
  \/ ListPrices(w) \/ DropPrice(w) \/ CreatePrice(w) \/ SaveRow(w)
  \/ SyncFails(w) \/ SyncDies(w)
  \/ MakeCustomer(w) \/ KeepCustomer(w) \/ OpenSession(w) \/ CheckoutFails(w)
  \/ \E s \in Plans : SyncPlan(w, s)
  \/ \E u \in Users : AskCheckout(w, u)

Next ==
  \/ \E s \in Plans : EditPlan(s) \/ CreatePlan(s) \/ DeletePlan(s)
  \/ InitBase \/ EditConfig \/ Indexed
  \/ \E w \in Workers : WorkerStep(w)
  \/ \E u \in Users : KeyExpires(u)
  \/ \E i \in session : ServeSession(i)

Spec == Init /\ [][Next]_vars
-----------------------------------------------------------------------------
(* Properties *)

(* What is offered at Stripe is what the row says: whatever edits, deletions *)
(* and syncs overlap, the price in a row is a price of that plan and of that *)
(* amount, and a purchase is served with the plan its price was made for.    *)
(* Users can buy it (the price is active) unless the last sync of the plan   *)
(* was cut short between its calls or overlapped with another; the next sync *)
(* that runs alone repairs it.                                               *)
OffersAreTrue ==
  /\ \A s \in Plans : row[s] # None =>
       LET p == price[row[s].price] IN
       /\ p.slug = s
       /\ p.amount = row[s].amount
       /\ p.active \/ s \in spoiled \/ On(s) # {}
  /\ \A x \in served : price[x.price].slug = x.plan

(* "Stripe idempotency is what keeps two concurrent customer-creation        *)
(* requests from creating duplicate customers" (payment_provider_gateway.py) *)
(* A second customer would refuse all further checkouts of the user.         *)
OneCustomerPerUser == \A u \in Users : Cardinality(customer[u]) <= 1
=============================================================================
