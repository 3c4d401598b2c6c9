-------------------------- MODULE CatalogForestProofs --------------------------
(***************************************************************************)
(* Proofs about PlanCatalog and, below, about MergeForest.                 *)
(*                                                                         *)
(* However many checkouts of a user overlap, fail and are repeated, the    *)
(* user gets one Stripe customer: while a checkout that may make a         *)
(* customer is under way, the key of its user knows the customer in the    *)
(* row, if there is one (KeyedCustomers), for the key is kept until no     *)
(* checkout of the user is left.                                           *)
(*                                                                         *)
(* And what is offered is true (OfferInv): a worker that is alone at a     *)
(* plan leaves its row with an active price, one that is not alone leaves  *)
(* the plan on the list of those to repair, and a price that was dropped   *)
(* is made good by the worker that dropped it or recorded there.           *)
(*                                                                         *)
(* The pointers between emails form no circle while two workers run at     *)
(* most (Forest): the email of a task is not among those that a walk from  *)
(* its target meets (ApartFrom), and if the email of the other task is, it *)
(* is the target itself, which the other one has locked (Known).           *)
(***************************************************************************)
EXTENDS CatalogForest, FiniteSetTheorems, SequenceTheorems, WellFoundedInduction, TLAPS

(* A checkout that may still make a customer. *)
Making == {"customer", "keep"}

(* The record of a worker; V is whatever it holds, which is of no concern. *)
Places == {"idle", "next", "search", "list", "product", "modify", "create", "save",
           "session"} \cup Making
Holding(V) == [pc : Places, todo : V, product : V, match : V, made : V,
               dropped : BOOLEAN, alone : BOOLEAN, user : V]
WorkersAre == \E V : job \in [Workers -> Holding(V)]

KeysAre ==
  /\ made \in Nat
  /\ key \in [Users -> Nat \cup {None}]
  /\ customer \in [Users -> SUBSET Nat]

AtMostOne == \A u \in Users : customer[u] = {} \/ \E c \in Nat : customer[u] = {c}

Keyed(u) == customer[u] # {} => key[u] # None /\ customer[u] = {key[u]}
KeyedCustomers ==
  \A w \in Workers : job[w].pc \in Making =>
    /\ job[w].user \in Users
    /\ Keyed(job[w].user)
    /\ job[w].pc = "keep" => job[w].made = key[job[w].user] /\ job[w].made # None

Inv == WorkersAre /\ KeysAre /\ AtMostOne /\ KeyedCustomers
-----------------------------------------------------------------------------
(* A worker that takes up something else forgets nothing of the others.     *)
LEMMA SetSets ==
  ASSUME WorkersAre, NEW w \in Workers, NEW W, NEW r \in Holding(W), Set(w, r)
  PROVE  WorkersAre' /\ job'[w] = r /\ \A v \in Workers \ {w} : job'[v] = job[v]
<1>1. PICK V : job \in [Workers -> Holding(V)]
  BY DEF WorkersAre
<1>2. r \in Holding(V \cup W) /\ \A v \in Workers : job[v] \in Holding(V \cup W)
  BY <1>1 DEF Holding
<1>3. job' \in [Workers -> Holding(V \cup W)]
  BY <1>1, <1>2 DEF Set
<1> QED
  BY <1>1, <1>3 DEF Set, WorkersAre

(* A step of a worker that makes no customer.                               *)
LEMMA Elsewhere ==
  ASSUME Inv, NEW w \in Workers, NEW W, NEW r \in Holding(W), Set(w, r),
         r.pc \notin Making, UNCHANGED <<key, made, customer>>
  PROVE  Inv'
<1>1. WorkersAre' /\ job'[w] = r /\ \A v \in Workers \ {w} : job'[v] = job[v]
  BY SetSets DEF Inv
<1>2. KeysAre' /\ AtMostOne'
  BY DEF Inv, KeysAre, AtMostOne
<1>3. KeyedCustomers'
  BY <1>1 DEF Inv, KeyedCustomers, Keyed
<1> QED
  BY <1>1, <1>2, <1>3 DEF Inv

(* What a worker that starts, or is done with a plan, has in mind.          *)
LEMMA FreshRecord ==
  ASSUME NEW q
  PROVE  /\ Idle \in Holding({<<>>, None, q}) /\ Idle.pc = "idle"
         /\ [Idle EXCEPT !.pc = "next", !.todo = q] \in Holding({<<>>, None, q})
         /\ [Idle EXCEPT !.pc = "next", !.todo = q].pc = "next"
<1> DEFINE V == {<<>>, None, q}
           none == <<>>
<1>1. none \in V /\ None \in V /\ q \in V /\ {"idle", "next"} \subseteq Places
  BY DEF Places
<1> HIDE DEF V, none
<1>2. Idle \in Holding(V) /\ Idle.pc = "idle"
  BY <1>1 DEF Idle, Holding, none
<1>3. ASSUME NEW j \in Holding(V)
      PROVE  /\ [j EXCEPT !.pc = "next", !.todo = q] \in Holding(V)
             /\ [j EXCEPT !.pc = "next", !.todo = q].pc = "next"
  BY <1>1 DEF Holding
<1>4. /\ [Idle EXCEPT !.pc = "next", !.todo = q] \in Holding(V)
      /\ [Idle EXCEPT !.pc = "next", !.todo = q].pc = "next"
  BY <1>2, <1>3, Zenon
<1> QED
  BY <1>2, <1>4, Zenon DEF V

(* What is left to a worker after a plan.                                  *)
LEMMA RestRecord ==
  ASSUME NEW w \in Workers
  PROVE  LET V == {<<>>, None, Tail(job[w].todo)} IN
         Rest(w) \in Holding(V) /\ Rest(w).pc \in {"next", "idle"}
BY FreshRecord DEF Rest

(* The steps of a sync make no customer.                                    *)
LEMMA SyncStep ==
  ASSUME Inv, NEW w \in Workers,
         \/ SyncAll(w) \/ SearchProduct(w) \/ CreateProduct(w) \/ ListPrices(w)
         \/ DropPrice(w) \/ CreatePrice(w) \/ SaveRow(w) \/ SyncFails(w) \/ SyncDies(w)
         \/ \E s \in Plans : SyncPlan(w, s)
  PROVE  Inv'
<1>1. PICK V : job[w] \in Holding(V)
  BY DEF Inv, WorkersAre
<1>2. UNCHANGED <<key, made, customer>>
  BY DEF SyncAll, SearchProduct, CreateProduct, ListPrices, DropPrice, CreatePrice,
         SaveRow, SyncFails, SyncDies, SyncPlan, people
<1>3. ASSUME NEW q, Set(w, [Idle EXCEPT !.pc = "next", !.todo = q]) \/ Set(w, Idle)
      PROVE  Inv'
  BY <1>2, <1>3, FreshRecord, Elsewhere DEF Making
<1>4. ASSUME Set(w, Rest(w)) PROVE Inv'
  BY <1>2, <1>4, RestRecord, Elsewhere DEF Making
<1>5. ASSUME NEW l \in Places \ Making, NEW x,
             \/ Set(w, [job[w] EXCEPT !.pc = l])
             \/ Set(w, [job[w] EXCEPT !.pc = l, !.product = x])
             \/ Set(w, [job[w] EXCEPT !.pc = l, !.match = x])
             \/ Set(w, [job[w] EXCEPT !.pc = l, !.made = x])
             \/ Set(w, [job[w] EXCEPT !.pc = l, !.dropped = TRUE])
      PROVE  Inv'
  <2> DEFINE j == job[w]
             W == Holding(V \cup {x})
             r1 == [j EXCEPT !.pc = l]
             r2 == [j EXCEPT !.pc = l, !.product = x]
             r3 == [j EXCEPT !.pc = l, !.match = x]
             r4 == [j EXCEPT !.pc = l, !.made = x]
             r5 == [j EXCEPT !.pc = l, !.dropped = TRUE]
  <2>1. Set(w, r1) \/ Set(w, r2) \/ Set(w, r3) \/ Set(w, r4) \/ Set(w, r5)
    BY <1>5
  <2>2. j \in Holding(V) /\ l \in Places
    BY <1>1
  <2> HIDE DEF j
  <2>3. /\ r1 \in W /\ r1.pc = l
        /\ r2 \in W /\ r2.pc = l
        /\ r3 \in W /\ r3.pc = l
        /\ r4 \in W /\ r4.pc = l
        /\ r5 \in W /\ r5.pc = l
    BY <2>2 DEF Holding
  <2> HIDE DEF W, r1, r2, r3, r4, r5
  <2>4. \A r \in W : Set(w, r) /\ r.pc = l => Inv'
    BY <1>2, Elsewhere DEF W
  <2> QED
    BY <2>1, <2>3, <2>4
<1>6. {"list", "product", "save", "modify", "create"} \subseteq Places \ Making
  BY DEF Places, Making
<1>7. CASE SyncAll(w)
  BY <1>3, <1>7 DEF SyncAll
<1>8. ASSUME NEW s \in Plans, SyncPlan(w, s) PROVE Inv'
  BY <1>3, <1>8 DEF SyncPlan
<1>9. CASE SearchProduct(w)
  BY <1>5, <1>6, <1>9 DEF SearchProduct
<1>10. CASE CreateProduct(w)
  BY <1>5, <1>6, <1>10 DEF CreateProduct
<1>11. CASE ListPrices(w)
  <2>1. PICK i : \/ Set(w, [job[w] EXCEPT !.pc = "create"])
                 \/ Set(w, [job[w] EXCEPT !.pc = "save", !.made = i])
                 \/ Set(w, [job[w] EXCEPT !.pc = "modify", !.match = i])
    BY <1>11 DEF ListPrices
  <2> QED
    BY <1>5, <1>6, <2>1
<1>12. CASE DropPrice(w)
  BY <1>5, <1>6, <1>12 DEF DropPrice
<1>13. CASE CreatePrice(w)
  BY <1>5, <1>6, <1>13 DEF CreatePrice
<1>14. CASE SaveRow(w) \/ SyncFails(w)
  BY <1>4, <1>14 DEF SaveRow, SyncFails
<1>15. CASE SyncDies(w)
  BY <1>3, <1>15 DEF SyncDies
<1> QED
  BY <1>7, <1>8, <1>9, <1>10, <1>11, <1>12, <1>13, <1>14, <1>15

(* A worker that turns to a plan makes itself and the others at it known.    *)
LEMMA BeginEffect ==
  ASSUME Inv, NEW w \in Workers, BeginPlan(w)
  PROVE  /\ WorkersAre'
         /\ job'[w].pc = "search" /\ job'[w].todo = job[w].todo /\ job[w].todo # <<>>
         /\ job'[w].user = job[w].user /\ job'[w].alone = (On(Now(w).slug) = {})
         /\ \A v \in Workers \ {w} :
              /\ job'[v].pc = job[v].pc /\ job'[v].todo = job[v].todo
              /\ job'[v].user = job[v].user /\ job'[v].match = job[v].match
              /\ job'[v].made = job[v].made /\ job'[v].dropped = job[v].dropped
              /\ job'[v].alone = (job[v].alone /\ v \notin On(Now(w).slug))
<1> DEFINE S == On(Now(w).slug)
<1>1. PICK V : job \in [Workers -> Holding(V)]
  BY DEF Inv, WorkersAre
<1>2. /\ job' = [v \in Workers |->
                  IF v = w THEN [job[w] EXCEPT !.pc = "search", !.alone = S = {}]
                  ELSE [job[v] EXCEPT !.alone = @ /\ v \notin S]]
      /\ job[w].todo # <<>>
  BY DEF BeginPlan
<1> HIDE DEF S
<1>3. /\ job'[w] \in Holding(V) /\ job'[w].pc = "search" /\ job'[w].todo = job[w].todo
      /\ job'[w].user = job[w].user /\ job'[w].alone = (S = {})
  <2> DEFINE j == job[w]
  <2>1. PICK b \in BOOLEAN : b = (S = {})
    OBVIOUS
  <2>2. job'[w] = [j EXCEPT !.pc = "search", !.alone = b]
    BY <1>2, <2>1
  <2>3. j \in Holding(V)
    BY <1>1
  <2> HIDE DEF j
  <2>4. /\ job'[w] \in Holding(V) /\ job'[w].pc = "search" /\ job'[w].todo = j.todo
        /\ job'[w].user = j.user /\ job'[w].alone = b
    BY <2>2, <2>3 DEF Holding, Places
  <2> QED
    BY <2>1, <2>4 DEF j
<1>4. ASSUME NEW v \in Workers \ {w}
      PROVE  /\ job'[v] \in Holding(V)
             /\ job'[v].pc = job[v].pc /\ job'[v].todo = job[v].todo
             /\ job'[v].user = job[v].user /\ job'[v].match = job[v].match
             /\ job'[v].made = job[v].made /\ job'[v].dropped = job[v].dropped
             /\ job'[v].alone = (job[v].alone /\ v \notin S)
  <2> DEFINE j == job[v]
  <2>1. j \in Holding(V)
    BY <1>1
  <2>2. PICK b \in BOOLEAN : b = (j.alone /\ v \notin S)
    OBVIOUS
  <2>3. job'[v] = [j EXCEPT !.alone = b]
    BY <1>2, <2>2
  <2> HIDE DEF j
  <2>4. /\ job'[v] \in Holding(V)
        /\ job'[v].pc = j.pc /\ job'[v].todo = j.todo
        /\ job'[v].user = j.user /\ job'[v].match = j.match
        /\ job'[v].made = j.made /\ job'[v].dropped = j.dropped
        /\ job'[v].alone = b
    BY <2>1, <2>3 DEF Holding
  <2> QED
    BY <2>2, <2>4 DEF j
<1>5. job' = [v \in Workers |-> job'[v]]
  BY <1>2
<1>6. WorkersAre'
  BY <1>3, <1>4, <1>5 DEF WorkersAre
<1> QED
  BY <1>2, <1>3, <1>4, <1>6 DEF S

(* That changes nothing of a checkout.                                      *)
LEMMA BeginStep ==
  ASSUME Inv, NEW w \in Workers, BeginPlan(w)
  PROVE  Inv'
<1>1. /\ WorkersAre' /\ job'[w].pc = "search"
      /\ \A v \in Workers \ {w} : job'[v].pc = job[v].pc /\ job'[v].user = job[v].user
                                 /\ job'[v].made = job[v].made
  BY BeginEffect
<1>2. UNCHANGED <<key, made, customer>>
  BY DEF BeginPlan, people
<1>3. KeyedCustomers'
  BY <1>1, <1>2 DEF Inv, KeyedCustomers, Keyed, Making
<1> QED
  BY <1>1, <1>2, <1>3 DEF Inv, KeysAre, AtMostOne
-----------------------------------------------------------------------------
(* The checkout *)

(* A checkout begins to make a customer when its user has none.             *)
LEMMA AskStep ==
  ASSUME Inv, NEW w \in Workers, NEW u \in Users, AskCheckout(w, u)
  PROVE  Inv'
<1> DEFINE l == IF customer[u] = {} THEN "customer" ELSE "session"
<1>1. PICK m : Set(w, [Idle EXCEPT !.pc = l, !.user = u, !.match = m])
  BY DEF AskCheckout
<1> DEFINE V == {<<>>, None, m, u}
           none == <<>>
           j == Idle
           r == [j EXCEPT !.pc = l, !.user = u, !.match = m]
<1>2. l \in Places /\ (l \in Making => customer[u] = {} /\ l = "customer")
  BY DEF Places, Making
<1>3. Set(w, r) /\ UNCHANGED <<key, made, customer>>
  BY <1>1 DEF AskCheckout, people
<1>4. none \in V /\ None \in V /\ m \in V /\ u \in V /\ "idle" \in Places
  BY DEF Places
<1> HIDE DEF V, none, l
<1>5. j \in Holding(V)
  BY <1>4 DEF Idle, Holding, none
<1> HIDE DEF j
<1>6. r \in Holding(V) /\ r.pc = l /\ r.user = u
  BY <1>2, <1>4, <1>5 DEF Holding
<1> HIDE DEF r
<1>7. WorkersAre' /\ job'[w] = r /\ \A v \in Workers \ {w} : job'[v] = job[v]
  BY <1>3, <1>6, SetSets DEF Inv
<1>8. KeysAre' /\ AtMostOne'
  BY <1>3 DEF Inv, KeysAre, AtMostOne
<1>9. KeyedCustomers'
  BY <1>2, <1>3, <1>6, <1>7 DEF Inv, KeyedCustomers, Keyed
<1> QED
  BY <1>7, <1>8, <1>9 DEF Inv

(* Stripe answers a known key with the customer it has made: the key of a   *)
(* user with a customer does not change.                                    *)
LEMMA MakeStep ==
  ASSUME Inv, NEW w \in Workers, MakeCustomer(w)
  PROVE  Inv'
<1> DEFINE j == job[w]
           u == job[w].user
           c == Remembered(u)
           r == [j EXCEPT !.pc = "keep", !.made = c]
<1>1. PICK V : j \in Holding(V)
  BY DEF Inv, WorkersAre
<1>2. u \in Users /\ Keyed(u) /\ j.pc = "customer"
  BY DEF MakeCustomer, At, Inv, KeyedCustomers, Making
<1>3. /\ c \in Nat /\ c # None /\ (key[u] # None => c = key[u])
      /\ key' = [key EXCEPT ![u] = c] /\ UNCHANGED customer /\ made' \in Nat
  BY <1>2, CatalogAssumption DEF MakeCustomer, Remembered, Inv, KeysAre
<1>4. Set(w, r)
  BY DEF MakeCustomer
<1>5. j.user = u
  OBVIOUS
<1> HIDE DEF j, c, u
<1>6. r \in Holding(V \cup {c}) /\ r.pc = "keep" /\ r.made = c /\ r.user = u
  BY <1>1, <1>5 DEF Holding, Places, Making
<1> HIDE DEF r
<1>7. WorkersAre' /\ job'[w] = r /\ \A v \in Workers \ {w} : job'[v] = job[v]
  BY <1>4, <1>6, SetSets DEF Inv
<1>8. KeysAre' /\ AtMostOne'
  BY <1>2, <1>3 DEF Inv, KeysAre, AtMostOne
<1>9. \A x \in Users : Keyed(x) => Keyed(x)'
  BY <1>2, <1>3 DEF Keyed, Inv, KeysAre
<1>10. \A x \in Users : x # u => key'[x] = key[x]
  BY <1>3 DEF Inv, KeysAre
<1>11. key'[u] = c
  BY <1>2, <1>3 DEF Inv, KeysAre
<1>12. ASSUME NEW v \in Workers, v # w, job[v].pc = "keep"
       PROVE  job[v].made = key'[job[v].user]
  BY <1>3, <1>10, <1>11, <1>12 DEF Inv, KeyedCustomers, Making
<1>13. KeyedCustomers'
  BY <1>2, <1>3, <1>6, <1>7, <1>9, <1>11, <1>12 DEF Inv, KeyedCustomers
<1> QED
  BY <1>7, <1>8, <1>13 DEF Inv

(* The customer a checkout keeps is the one its key has made.               *)
LEMMA KeepStep ==
  ASSUME Inv, NEW w \in Workers, KeepCustomer(w)
  PROVE  Inv'
<1> DEFINE j == job[w]
           u == job[w].user
           r == [j EXCEPT !.pc = "session"]
<1>1. PICK V : j \in Holding(V)
  BY DEF Inv, WorkersAre
<1>2. u \in Users /\ Keyed(u) /\ job[w].made = key[u] /\ key[u] # None /\ key[u] \in Nat
  BY DEF KeepCustomer, At, Inv, KeyedCustomers, Making, KeysAre
<1>3. /\ customer' = [customer EXCEPT ![u] = customer[u] \cup {key[u]}]
      /\ UNCHANGED <<key, made>>
  BY <1>2 DEF KeepCustomer
<1>4. Set(w, r)
  BY DEF KeepCustomer
<1> HIDE DEF j
<1>5. r \in Holding(V) /\ r.pc = "session"
  BY <1>1 DEF Holding, Places
<1> HIDE DEF r, u
<1>6. WorkersAre' /\ job'[w] = r /\ \A v \in Workers \ {w} : job'[v] = job[v]
  BY <1>4, <1>5, SetSets DEF Inv
<1>7. customer'[u] = {key[u]} /\ \A x \in Users : x # u => customer'[x] = customer[x]
  BY <1>2, <1>3 DEF Keyed, Inv, KeysAre
<1>8. KeysAre' /\ AtMostOne'
  BY <1>2, <1>3, <1>7 DEF Inv, KeysAre, AtMostOne
<1>9. \A x \in Users : Keyed(x) => Keyed(x)'
  BY <1>2, <1>3, <1>7 DEF Keyed
<1>10. KeyedCustomers'
  BY <1>3, <1>5, <1>6, <1>9 DEF Inv, KeyedCustomers, Making
<1> QED
  BY <1>6, <1>8, <1>10 DEF Inv

(* A key expires only when no checkout of its user is left to ask for it.   *)
LEMMA ExpiryStep ==
  ASSUME Inv, NEW u \in Users, KeyExpires(u)
  PROVE  Inv'
<1>1. /\ UNCHANGED <<job, made, customer>> /\ \A w \in Workers : job[w].user # u
      /\ key' \in [Users -> Nat \cup {None}]
      /\ \A x \in Users : x # u => key'[x] = key[x]
  BY DEF KeyExpires, Inv, KeysAre
<1> QED
  BY <1>1 DEF Inv, WorkersAre, KeysAre, AtMostOne, KeyedCustomers, Keyed, Making

LEMMA InvStep == Inv /\ [Next]_vars => Inv'
<1> SUFFICES ASSUME Inv, [Next]_vars PROVE Inv'
  OBVIOUS
<1>1. ASSUME UNCHANGED <<job, key, made, customer>> PROVE Inv'
  BY <1>1 DEF Inv, WorkersAre, KeysAre, AtMostOne, KeyedCustomers, Keyed
<1>2. ASSUME NEW w \in Workers, OpenSession(w) \/ CheckoutFails(w) PROVE Inv'
  BY <1>2, FreshRecord, Elsewhere DEF OpenSession, CheckoutFails, Making, people
<1>3. ASSUME NEW s \in Plans, EditPlan(s) \/ CreatePlan(s) \/ DeletePlan(s) PROVE Inv'
  BY <1>1, <1>3 DEF EditPlan, CreatePlan, DeletePlan, people
<1>4. CASE InitBase \/ EditConfig \/ Indexed
  BY <1>1, <1>4 DEF InitBase, EditConfig, Indexed, people
<1>5. ASSUME NEW i \in session, ServeSession(i) PROVE Inv'
  BY <1>1, <1>5 DEF ServeSession
<1>6. CASE UNCHANGED vars
  BY <1>1, <1>6 DEF vars, people
<1>7. ASSUME NEW w \in Workers, WorkerStep(w) PROVE Inv'
  BY <1>2, <1>7, SyncStep, BeginStep, AskStep, MakeStep, KeepStep DEF WorkerStep
<1> QED
  BY <1>3, <1>4, <1>5, <1>6, <1>7, ExpiryStep DEF Next

LEMMA InvInit == Init => Inv
<1> SUFFICES ASSUME Init PROVE Inv
  OBVIOUS
<1>1. \A w \in Workers : job[w] = Idle
  BY DEF Init
<1>2. job \in [Workers -> Holding({<<>>, None, 0})]
  BY FreshRecord DEF Init
<1>3. KeysAre /\ AtMostOne
  BY DEF Init, KeysAre, AtMostOne
<1>4. KeyedCustomers
  BY <1>1, FreshRecord DEF KeyedCustomers, Making
<1> QED
  BY <1>2, <1>3, <1>4 DEF Inv, WorkersAre

(* Two checkouts of a user that overlap, a checkout that is repeated after a *)
(* failure, and keys that expire never leave the user with two customers,    *)
(* which would refuse every checkout from then on.                           *)
THEOREM OneCustomer == Spec => []OneCustomerPerUser
<1>1. Inv => OneCustomerPerUser
  <2> SUFFICES ASSUME Inv, NEW u \in Users PROVE Cardinality(customer[u]) <= 1
    BY DEF OneCustomerPerUser
  <2>1. CASE customer[u] = {}
    <3>1. Cardinality({}) = 0
      BY FS_EmptySet
    <3> QED
      BY <2>1, <3>1
  <2>2. ASSUME NEW c \in Nat, customer[u] = {c} PROVE Cardinality(customer[u]) <= 1
    <3>1. Cardinality({c}) = 1
      BY FS_Singleton
    <3> QED
      BY <2>2, <3>1
  <2> QED
    BY <2>1, <2>2 DEF Inv, AtMostOne
<1> QED
  BY <1>1, InvInit, InvStep, PTL DEF Spec
-----------------------------------------------------------------------------
(* What is offered *)

(* What Stripe and the rows of the plans hold; V is whatever they hold.      *)
PricesAre == \E V : price \in Seq([slug : V, amount : V, product : V, active : BOOLEAN])
RowsAre == \E V : row \in [Plans -> V]

(* The places of a worker that is at a plan.                                *)
AtPlan == {"search", "list", "product", "modify", "create", "save"}

(* A worker has plans left just while it syncs.                             *)
Queued(w) ==
  /\ job[w].pc \in AtPlan => job[w].todo # <<>>
  /\ job[w].todo # <<>> => job[w].pc \in AtPlan \cup {"next"} /\ job[w].user = None

(* What a worker has found or made is a price of the plan it is at, and of   *)
(* the amount it has read; the price stays active while nobody else is at    *)
(* the plan.                                                                 *)
IsPriceOf(i, s) == i \in DOMAIN price /\ price[i].slug = s
Found(w) ==
  /\ At(w, "modify") => IsPriceOf(job[w].match, Now(w).slug)
  /\ At(w, "save") =>
       /\ IsPriceOf(job[w].made, Now(w).slug)
       /\ price[job[w].made].amount = Now(w).amount
       /\ job[w].alone => price[job[w].made].active

(* Workers that are at the same plan know that they are not alone, and the   *)
(* plan is on the list of those to repair.                                   *)
Busy(w) == job[w].todo # <<>> /\ ~At(w, "next")
Disturbed(w) == Busy(w) /\ ~job[w].alone => Now(w).slug \in spoiled
Apart(v, w) ==
  v # w /\ Busy(v) /\ Busy(w) /\ Now(v).slug = Now(w).slug => ~job[v].alone

(* A row is true; when its price is no longer active, the plan is to be      *)
(* repaired or the worker that has dropped the price is still at it.         *)
Repairs(w, s) == Busy(w) /\ Now(w).slug = s /\ job[w].alone /\ job[w].dropped
TrueRow(s) ==
  row[s] # None =>
    /\ IsPriceOf(row[s].price, s)
    /\ price[row[s].price].amount = row[s].amount
    /\ \/ price[row[s].price].active
       \/ s \in spoiled
       \/ \E w \in Workers : Repairs(w, s)
TrueServed == \A x \in served : IsPriceOf(x.price, x.plan)

OfferInv ==
  /\ PricesAre /\ RowsAre
  /\ \A w \in Workers : Queued(w) /\ Found(w) /\ Disturbed(w)
  /\ \A v, w \in Workers : Apart(v, w)
  /\ \A s \in Plans : TrueRow(s)
  /\ TrueServed
-----------------------------------------------------------------------------
(* A worker that is at no plan afterwards: it starts, buys, or has done.     *)
LEMMA Outside ==
  ASSUME Inv, OfferInv, NEW w \in Workers, NEW W, NEW r \in Holding(W), Set(w, r),
         r.pc \notin AtPlan, r.todo # <<>> => r.pc = "next" /\ r.user = None,
         UNCHANGED <<price, served>>, RowsAre',
         \A s \in Plans : TrueRow(s)',
         \A v \in Workers \ {w} : Disturbed(v)'
  PROVE  OfferInv'
<1>1. job'[w] = r /\ \A v \in Workers \ {w} : job'[v] = job[v]
  BY SetSets DEF Inv
<1>2. PricesAre' /\ TrueServed'
  BY DEF OfferInv, PricesAre, TrueServed, IsPriceOf
<1>3. ~Busy(w)' /\ Queued(w)' /\ Found(w)'
  BY <1>1 DEF Busy, Queued, Found, At, AtPlan
<1>4. ASSUME NEW v \in Workers \ {w}
      PROVE  Queued(v)' /\ Found(v)' /\ (Busy(v)' <=> Busy(v)) /\ Now(v)' = Now(v)
  <2>1. job'[v] = job[v] /\ Queued(v) /\ Found(v)
    BY <1>1 DEF OfferInv
  <2> QED
    BY <2>1 DEF Queued, Found, Busy, At, Now, IsPriceOf
<1>5. Disturbed(w)'
  BY <1>3 DEF Disturbed
<1>6. \A v, x \in Workers : Apart(v, x)'
  BY <1>1, <1>3, <1>4 DEF OfferInv, Apart
<1> QED
  BY <1>2, <1>3, <1>4, <1>5, <1>6 DEF OfferInv

(* It was at no plan before either.                                         *)
LEMMA StaysOutside ==
  ASSUME Inv, OfferInv, NEW w \in Workers, NEW W, NEW r \in Holding(W), Set(w, r),
         r.pc \notin AtPlan, r.todo # <<>> => r.pc = "next" /\ r.user = None,
         ~Busy(w), UNCHANGED <<price, served, row>>, spoiled \subseteq spoiled'
  PROVE  OfferInv'
<1>1. job'[w] = r /\ \A v \in Workers \ {w} : job'[v] = job[v]
  BY SetSets DEF Inv
<1>2. RowsAre'
  BY DEF OfferInv, RowsAre
<1>3. \A v \in Workers \ {w} : Disturbed(v)'
  BY <1>1 DEF OfferInv, Disturbed, Busy, At, Now
<1>4. ASSUME NEW s \in Plans PROVE TrueRow(s)'
  <2>1. TrueRow(s)
    BY DEF OfferInv
  <2>2. ASSUME NEW v \in Workers, Repairs(v, s) PROVE Repairs(v, s)'
    BY <1>1, <2>2 DEF Repairs, Busy, At, Now
  <2> QED
    BY <2>1, <2>2 DEF TrueRow, IsPriceOf
<1> QED
  BY <1>2, <1>3, <1>4, Outside

(* A worker that goes on with the plan it is at.  Prices stay what they are; *)
(* at most a price of its plan ceases to be active.                          *)
LEMMA GoesOn ==
  ASSUME Inv, OfferInv, NEW w \in Workers, NEW W, NEW r \in Holding(W), Set(w, r),
         job[w].pc \in AtPlan, r.pc \in AtPlan,
         r.todo = job[w].todo, r.user = job[w].user, r.alone = job[w].alone,
         job[w].dropped => r.dropped,
         UNCHANGED <<row, spoiled, served>>, PricesAre',
         \A i \in DOMAIN price :
           /\ i \in DOMAIN price'
           /\ price'[i].slug = price[i].slug /\ price'[i].amount = price[i].amount
           /\ price[i].active /\ ~price'[i].active => price[i].slug = Now(w).slug /\ r.dropped
           /\ ~price[i].active => ~price'[i].active,
         Found(w)'
  PROVE  OfferInv'
<1>1. job'[w] = r /\ \A v \in Workers \ {w} : job'[v] = job[v]
  BY SetSets DEF Inv
<1>2. RowsAre' /\ TrueServed'
  BY DEF OfferInv, RowsAre, TrueServed, IsPriceOf
<1>3. Busy(w) /\ Busy(w)' /\ Now(w)' = Now(w) /\ Queued(w)'
  BY <1>1 DEF OfferInv, Busy, At, AtPlan, Queued, Now
<1>4. ASSUME NEW v \in Workers \ {w}
      PROVE  Queued(v)' /\ (Busy(v)' <=> Busy(v)) /\ Now(v)' = Now(v)
             /\ job'[v].alone = job[v].alone
  <2>1. job'[v] = job[v] /\ Queued(v)
    BY <1>1 DEF OfferInv
  <2> QED
    BY <2>1 DEF Queued, Busy, At, Now
<1>5. \A v \in Workers : Disturbed(v)'
  BY <1>1, <1>3, <1>4 DEF OfferInv, Disturbed
<1>6. \A v, x \in Workers : Apart(v, x)'
  BY <1>1, <1>3, <1>4 DEF OfferInv, Apart
<1>7. ASSUME NEW v \in Workers \ {w} PROVE Found(v)'
  <2>1. job'[v] = job[v] /\ Found(v) /\ Queued(v) /\ Apart(v, w)
    BY <1>1 DEF OfferInv
  <2>2. At(v, "save") => Busy(v)
    BY <2>1 DEF Queued, AtPlan, At, Busy
  <2> QED
    BY <1>3, <2>1, <2>2 DEF Found, IsPriceOf, At, Now, Apart
<1>8. ASSUME NEW s \in Plans PROVE TrueRow(s)'
  <2>1. TrueRow(s) /\ Disturbed(w)
    BY DEF OfferInv
  <2>2. ASSUME NEW v \in Workers, Repairs(v, s) PROVE Repairs(v, s)'
    BY <1>1, <1>3, <1>4, <2>2 DEF Repairs
  <2>3. Now(w).slug = s /\ r.dropped => s \in spoiled \/ Repairs(w, s)'
    BY <1>1, <1>3, <2>1 DEF Repairs, Disturbed
  <2> QED
    BY <2>1, <2>2, <2>3 DEF TrueRow, IsPriceOf
<1> QED
  BY <1>2, <1>3, <1>4, <1>5, <1>6, <1>7, <1>8 DEF OfferInv
-----------------------------------------------------------------------------
(* The steps of a sync *)

(* A worker that begins, or is at the checkout, leaves plans and rows alone. *)
LEMMA StartStep ==
  ASSUME Inv, OfferInv, NEW w \in Workers,
         \/ \E s \in Plans : SyncPlan(w, s)
         \/ \E u \in Users : AskCheckout(w, u)
         \/ SyncAll(w) \/ MakeCustomer(w) \/ KeepCustomer(w) \/ OpenSession(w)
         \/ CheckoutFails(w)
  PROVE  OfferInv'
<1>1. Queued(w)
  BY DEF OfferInv
<1>2. PICK V : job[w] \in Holding(V)
  BY DEF Inv, WorkersAre
<1>3. ~Busy(w)
  BY <1>1 DEF SyncPlan, AskCheckout, SyncAll, MakeCustomer, KeepCustomer, OpenSession,
              CheckoutFails, Busy, Queued, At, AtPlan
<1>4. UNCHANGED <<price, served, row, spoiled>>
  BY DEF SyncPlan, AskCheckout, SyncAll, MakeCustomer, KeepCustomer, OpenSession,
         CheckoutFails, stripe, people
<1>5. ASSUME NEW q, Set(w, [Idle EXCEPT !.pc = "next", !.todo = q])
      PROVE  OfferInv'
  <2>1. [Idle EXCEPT !.pc = "next", !.todo = q].user = None
    BY DEF Idle
  <2> QED
    BY <1>3, <1>4, <1>5, <2>1, FreshRecord, StaysOutside DEF AtPlan
<1>6. ASSUME Set(w, Idle) PROVE OfferInv'
  <2>1. Idle.todo = <<>>
    BY DEF Idle
  <2> QED
    BY <1>3, <1>4, <1>6, <2>1, FreshRecord, StaysOutside DEF AtPlan
<1>7. ASSUME NEW u \in Users, AskCheckout(w, u) PROVE OfferInv'
  <2> DEFINE l == IF customer[u] = {} THEN "customer" ELSE "session"
  <2>1. PICK m : Set(w, [Idle EXCEPT !.pc = l, !.user = u, !.match = m])
    BY <1>7 DEF AskCheckout
  <2> DEFINE U == {<<>>, None, m, u}
             none == <<>>
             j == Idle
             r == [j EXCEPT !.pc = l, !.user = u, !.match = m]
  <2>2. l \in Places /\ l \notin AtPlan
    BY DEF Places, Making, AtPlan
  <2>3. none \in U /\ None \in U /\ m \in U /\ u \in U /\ "idle" \in Places
    BY DEF Places
  <2>4. Set(w, r)
    BY <2>1
  <2> HIDE DEF U, none, l
  <2>5. j \in Holding(U) /\ j.todo = none
    BY <2>3 DEF Idle, Holding, none
  <2> HIDE DEF j
  <2>6. r \in Holding(U) /\ r.pc = l /\ r.todo = none
    BY <2>2, <2>3, <2>5 DEF Holding
  <2> HIDE DEF r
  <2> QED
    BY <1>3, <1>4, <2>2, <2>4, <2>6, StaysOutside DEF none
<1>8. ASSUME NEW x, \/ MakeCustomer(w) /\ Set(w, [job[w] EXCEPT !.pc = "keep", !.made = x])
                    \/ KeepCustomer(w) /\ Set(w, [job[w] EXCEPT !.pc = "session"])
      PROVE  OfferInv'
  <2> DEFINE j == job[w]
             none == <<>>
             r1 == [j EXCEPT !.pc = "keep", !.made = x]
             r2 == [j EXCEPT !.pc = "session"]
  <2>1. j \in Holding(V) /\ (Set(w, r1) \/ Set(w, r2))
    BY <1>2, <1>8
  <2>2. j.todo = none
    BY <1>3, <1>8 DEF Busy, MakeCustomer, KeepCustomer, At
  <2> HIDE DEF j, none
  <2>3. /\ r1 \in Holding(V \cup {x}) /\ r1.pc = "keep" /\ r1.todo = none
        /\ r2 \in Holding(V \cup {x}) /\ r2.pc = "session" /\ r2.todo = none
    BY <2>1, <2>2 DEF Holding, Places, Making
  <2> HIDE DEF r1, r2
  <2> QED
    BY <1>3, <1>4, <2>1, <2>3, StaysOutside DEF AtPlan, none
<1>9. MakeCustomer(w) => \E x : Set(w, [job[w] EXCEPT !.pc = "keep", !.made = x])
  BY DEF MakeCustomer
<1>10. KeepCustomer(w) => Set(w, [job[w] EXCEPT !.pc = "session"])
  BY DEF KeepCustomer
<1>11. SyncAll(w) => \E q : Set(w, [Idle EXCEPT !.pc = "next", !.todo = q])
  BY DEF SyncAll
<1>12. OpenSession(w) \/ CheckoutFails(w) => Set(w, Idle)
  BY DEF OpenSession, CheckoutFails
<1>13. \A s \in Plans : SyncPlan(w, s) => \E q : Set(w, [Idle EXCEPT !.pc = "next", !.todo = q])
  BY DEF SyncPlan
<1> QED
  BY <1>5, <1>6, <1>7, <1>8, <1>9, <1>10, <1>11, <1>12, <1>13

(* The record of a worker that goes on.                                     *)
Continued(j, l, x, r) ==
  \/ r = [j EXCEPT !.pc = l]
  \/ r = [j EXCEPT !.pc = l, !.product = x]
  \/ r = [j EXCEPT !.pc = l, !.match = x]
  \/ r = [j EXCEPT !.pc = l, !.made = x]
  \/ r = [j EXCEPT !.pc = l, !.dropped = TRUE]

LEMMA NextRecord ==
  ASSUME NEW V, NEW j \in Holding(V), NEW l \in Places, NEW x, NEW r, Continued(j, l, x, r)
  PROVE  /\ r \in Holding(V \cup {x})
         /\ r.pc = l /\ r.todo = j.todo /\ r.user = j.user /\ r.alone = j.alone
         /\ j.dropped => r.dropped
BY DEF Holding, Continued

(* The match of a list is a price of the plan and of the amount, and the new *)
(* places of the worker expect no more.                                      *)
LEMMA LookStep ==
  ASSUME Inv, OfferInv, NEW w \in Workers,
         SearchProduct(w) \/ CreateProduct(w) \/ ListPrices(w)
  PROVE  OfferInv'
<1>1. UNCHANGED <<price, served, row, spoiled>>
  BY DEF SearchProduct, CreateProduct, ListPrices, stripe, people
<1>2. PICK V : job[w] \in Holding(V)
  BY DEF Inv, WorkersAre
<1>3. job[w].pc \in AtPlan
  BY DEF SearchProduct, CreateProduct, ListPrices, At, AtPlan
<1>4. PricesAre'
  BY <1>1 DEF OfferInv, PricesAre
<1>5. ASSUME NEW l \in AtPlan, NEW x, NEW r, Continued(job[w], l, x, r),
             Set(w, r),
             l = "modify" => r.match = x /\ IsPriceOf(x, Now(w).slug),
             l = "save" => /\ r.made = x /\ IsPriceOf(x, Now(w).slug)
                           /\ price[x].active /\ price[x].amount = Now(w).amount
      PROVE  OfferInv'
  <2>1. l \in Places
    BY DEF AtPlan, Places
  <2>2. /\ r \in Holding(V \cup {x})
        /\ r.pc = l /\ r.todo = job[w].todo /\ r.user = job[w].user
        /\ r.alone = job[w].alone /\ (job[w].dropped => r.dropped)
    BY <1>2, <1>5, <2>1, NextRecord
  <2>3. job'[w] = r
    BY <1>5, <2>2, SetSets DEF Inv
  <2>4. Found(w)'
    BY <1>1, <1>5, <2>2, <2>3 DEF Found, At, Now, IsPriceOf
  <2> QED
    BY <1>1, <1>3, <1>4, <1>5, <2>2, <2>4, GoesOn
<1>6. {"list", "product", "save", "modify", "create"} \subseteq AtPlan
  BY DEF AtPlan
<1>7. CASE SearchProduct(w)
  <2>1. ASSUME NEW p, NEW r, Set(w, r), r = [job[w] EXCEPT !.pc = "list", !.product = p]
        PROVE  OfferInv'
    <3>1. Continued(job[w], "list", p, r)
      BY <2>1 DEF Continued
    <3> QED
      BY <1>5, <1>6, <2>1, <3>1
  <2>2. ASSUME NEW r, Set(w, r), r = [job[w] EXCEPT !.pc = "product"] PROVE OfferInv'
    <3>1. Continued(job[w], "product", None, r)
      BY <2>2 DEF Continued
    <3> QED
      BY <1>5, <1>6, <2>2, <3>1
  <2> QED
    BY <1>7, <2>1, <2>2 DEF SearchProduct
<1>8. CASE CreateProduct(w)
  <2>1. PICK p, r : Set(w, r) /\ r = [job[w] EXCEPT !.pc = "list", !.product = p]
    BY <1>8 DEF CreateProduct
  <2>2. Continued(job[w], "list", p, r)
    BY <2>1 DEF Continued
  <2> QED
    BY <1>5, <1>6, <2>1, <2>2
<1>9. CASE ListPrices(w)
  <2>1. ASSUME NEW r, Set(w, r), r = [job[w] EXCEPT !.pc = "create"] PROVE OfferInv'
    <3>1. Continued(job[w], "create", None, r)
      BY <2>1 DEF Continued
    <3> QED
      BY <1>5, <1>6, <2>1, <3>1
  <2>2. ASSUME NEW i \in Matching(job[w].product, Now(w).slug), NEW r, Set(w, r),
               r = IF price[i].amount = Now(w).amount
                   THEN [job[w] EXCEPT !.pc = "save", !.made = i]
                   ELSE [job[w] EXCEPT !.pc = "modify", !.match = i]
        PROVE  OfferInv'
    <3>1. IsPriceOf(i, Now(w).slug) /\ price[i].active
      BY DEF Matching, IsPriceOf
    <3>2. \/ /\ Continued(job[w], "save", i, r) /\ r.made = i
             /\ price[i].amount = Now(w).amount
          \/ Continued(job[w], "modify", i, r) /\ r.match = i
      BY <1>2, <2>2 DEF Holding, Continued
    <3> QED
      BY <1>5, <1>6, <2>2, <3>1, <3>2
  <2> QED
    BY <1>9, <2>1, <2>2 DEF ListPrices
<1> QED
  BY <1>7, <1>8, <1>9

(* DropPrice ends the life of a price of the plan the worker is at.          *)
LEMMA DropStep ==
  ASSUME Inv, OfferInv, NEW w \in Workers, DropPrice(w)
  PROVE  OfferInv'
<1> DEFINE j == job[w]
           m == job[w].match
           r == [j EXCEPT !.pc = "create", !.dropped = TRUE]
<1>1. PICK V : j \in Holding(V)
  BY DEF Inv, WorkersAre
<1>2. /\ j.pc = "modify" /\ IsPriceOf(m, Now(w).slug) /\ Set(w, r)
      /\ price' = [price EXCEPT ![m].active = FALSE]
      /\ UNCHANGED <<row, spoiled, served>>
  BY DEF DropPrice, At, OfferInv, Found, people
<1>3. PICK P : price \in Seq([slug : P, amount : P, product : P, active : BOOLEAN])
  BY DEF OfferInv, PricesAre
<1> HIDE DEF j, m
<1>4. r \in Holding(V) /\ r.pc = "create" /\ r.todo = j.todo /\ r.user = j.user
      /\ r.alone = j.alone /\ r.dropped
  BY <1>1 DEF Holding, Places
<1> HIDE DEF r
<1>5. m \in DOMAIN price /\ price[m].slug = Now(w).slug
  BY <1>2 DEF IsPriceOf
<1>6. /\ price' \in Seq([slug : P, amount : P, product : P, active : BOOLEAN])
      /\ DOMAIN price' = DOMAIN price
      /\ \A i \in DOMAIN price :
           /\ price'[i].slug = price[i].slug /\ price'[i].amount = price[i].amount
           /\ i # m => price'[i] = price[i]
      /\ ~price'[m].active
  <2> DEFINE R == [slug : P, amount : P, product : P, active : BOOLEAN]
             q == [price[m] EXCEPT !.active = FALSE]
  <2>1. price[m] \in R
    <3>1. price \in Seq(R)
      BY <1>3
    <3> HIDE DEF R
    <3> QED
      BY <1>5, <3>1
  <2>2. q \in R /\ q.slug = price[m].slug /\ q.amount = price[m].amount /\ ~q.active
    BY <2>1
  <2>3. price' = [price EXCEPT ![m] = q]
    BY <1>2
  <2> HIDE DEF R, q
  <2>4. price \in Seq(R) /\ m \in 1..Len(price) /\ DOMAIN price = 1..Len(price)
    BY <1>3, <1>5, LenProperties DEF R
  <2>5. price' \in Seq(R) /\ DOMAIN price' = DOMAIN price
        /\ \A i \in DOMAIN price : price'[i] = IF i = m THEN q ELSE price[i]
    BY <2>2, <2>3, <2>4
  <2> QED
    BY <1>5, <2>2, <2>5 DEF R
<1>7. PricesAre'
  BY <1>6 DEF PricesAre
<1>8. job'[w] = r
  BY <1>2, <1>4, SetSets DEF Inv
<1>9. Found(w)'
  BY <1>4, <1>8 DEF Found, At
<1>10. j.pc \in AtPlan /\ r.pc \in AtPlan
  BY <1>2, <1>4 DEF AtPlan
<1>11. \A i \in DOMAIN price :
         /\ i \in DOMAIN price'
         /\ price'[i].slug = price[i].slug /\ price'[i].amount = price[i].amount
         /\ price[i].active /\ ~price'[i].active => price[i].slug = Now(w).slug /\ r.dropped
         /\ ~price[i].active => ~price'[i].active
  BY <1>4, <1>5, <1>6
<1> QED
  BY <1>2, <1>4, <1>7, <1>9, <1>10, <1>11, GoesOn DEF j

(* CreatePrice makes a price of the plan and of the amount the worker has read. *)
LEMMA CreateStep ==
  ASSUME Inv, OfferInv, NEW w \in Workers, CreatePrice(w)
  PROVE  OfferInv'
<1> DEFINE j == job[w]
           q == [slug |-> Now(w).slug, amount |-> Now(w).amount,
                 product |-> job[w].product, active |-> TRUE]
           n == Len(price')
           r == [j EXCEPT !.pc = "save", !.made = n]
<1>1. PICK V : j \in Holding(V)
  BY DEF Inv, WorkersAre
<1>2. /\ j.pc = "create" /\ Set(w, r) /\ price' = Append(price, q)
      /\ UNCHANGED <<row, spoiled, served>>
  BY DEF CreatePrice, At, people
<1>3. PICK P : price \in Seq([slug : P, amount : P, product : P, active : BOOLEAN])
  BY DEF OfferInv, PricesAre
<1> DEFINE Q == P \cup {Now(w).slug, Now(w).amount, job[w].product}
           R == [slug : Q, amount : Q, product : Q, active : BOOLEAN]
<1>4. price \in Seq(R) /\ q \in R
  <2> DEFINE S == [slug : P, amount : P, product : P, active : BOOLEAN]
  <2>1. S \subseteq R /\ price \in Seq(S)
    BY <1>3
  <2>2. q \in R
    OBVIOUS
  <2> HIDE DEF S, R
  <2> QED
    BY <2>1, <2>2, SeqMonotonic
<1>5. q.slug = Now(w).slug /\ q.amount = Now(w).amount /\ q.active
  OBVIOUS
<1> HIDE DEF q, R
<1>6. /\ price' \in Seq(R) /\ n = Len(price) + 1 /\ price'[n] = q /\ n \in DOMAIN price'
      /\ \A i \in DOMAIN price : i \in DOMAIN price' /\ price'[i] = price[i]
  BY <1>2, <1>4, AppendProperties, LenProperties
<1>7. PricesAre'
  BY <1>6 DEF PricesAre, R
<1> HIDE DEF j, n
<1>8. /\ r \in Holding(V \cup {n}) /\ r.pc = "save" /\ r.todo = j.todo /\ r.user = j.user
      /\ r.alone = j.alone /\ r.dropped = j.dropped /\ r.made = n
  BY <1>1 DEF Holding, Places
<1> HIDE DEF r
<1>9. job'[w] = r
  BY <1>2, <1>8, SetSets DEF Inv
<1>10. Now(w)' = Now(w)
  BY <1>8, <1>9 DEF Now, j
<1>11. Found(w)'
  BY <1>5, <1>6, <1>8, <1>9, <1>10 DEF Found, At, IsPriceOf
<1>12. j.pc \in AtPlan /\ r.pc \in AtPlan
  BY <1>2, <1>8 DEF AtPlan
<1> QED
  BY <1>2, <1>6, <1>7, <1>8, <1>11, <1>12, GoesOn DEF j

(* Who was alone at a plan no longer is when another turns to it, and the   *)
(* plan is then one to repair.                                              *)
LEMMA TurnStep ==
  ASSUME Inv, OfferInv, NEW w \in Workers, BeginPlan(w)
  PROVE  OfferInv'
<1> DEFINE s0 == Now(w).slug
<1>1. /\ job'[w].pc = "search" /\ job'[w].todo = job[w].todo /\ job[w].todo # <<>>
      /\ job'[w].user = job[w].user /\ job'[w].alone = (On(s0) = {})
  BY BeginEffect
<1>2. \A v \in Workers \ {w} :
        /\ job'[v].pc = job[v].pc /\ job'[v].todo = job[v].todo
        /\ job'[v].user = job[v].user /\ job'[v].match = job[v].match
        /\ job'[v].made = job[v].made /\ job'[v].dropped = job[v].dropped
        /\ job'[v].alone = (job[v].alone /\ v \notin On(s0))
  BY BeginEffect
<1>3. /\ UNCHANGED <<price, served, row>> /\ At(w, "next")
      /\ spoiled' = IF On(s0) = {} THEN spoiled ELSE spoiled \cup {s0}
  BY DEF BeginPlan, stripe, people
<1>4. ~Busy(w) /\ Busy(w)' /\ Now(w)' = Now(w)
  BY <1>1, <1>3 DEF Busy, At, Now
<1>5. ASSUME NEW v \in Workers \ {w}
      PROVE  (Busy(v)' <=> Busy(v)) /\ Now(v)' = Now(v)
             /\ (v \in On(s0) <=> Busy(v) /\ Now(v).slug = s0)
  BY <1>2 DEF Busy, At, Now, On
<1>6. w \notin On(s0)
  BY <1>3 DEF On
<1> HIDE DEF s0
<1>7. PricesAre' /\ RowsAre' /\ TrueServed'
  BY <1>3 DEF OfferInv, PricesAre, RowsAre, TrueServed, IsPriceOf
<1>8. Queued(w)' /\ Found(w)'
  BY <1>1 DEF OfferInv, Queued, Found, At, AtPlan
<1>9. ASSUME NEW v \in Workers \ {w} PROVE Queued(v)' /\ Found(v)'
  <2>1. Queued(v) /\ Found(v)
    BY DEF OfferInv
  <2> QED
    BY <1>2, <1>3, <1>5, <2>1 DEF Queued, Found, At, IsPriceOf
<1>10. On(s0) # {} => \E v \in Workers \ {w} : v \in On(s0)
  BY <1>6 DEF On
<1>11. Disturbed(w)'
  BY <1>1, <1>3, <1>4 DEF Disturbed, s0
<1>12. ASSUME NEW v \in Workers \ {w} PROVE Disturbed(v)'
  <2>1. Disturbed(v)
    BY DEF OfferInv
  <2> QED
    BY <1>2, <1>3, <1>5, <2>1 DEF Disturbed
<1>13. \A v, x \in Workers : Apart(v, x)'
  <2> SUFFICES ASSUME NEW v \in Workers, NEW x \in Workers, v # x, Busy(v)', Busy(x)',
                      Now(v)'.slug = Now(x)'.slug
               PROVE  ~job'[v].alone
    BY DEF Apart
  <2>1. CASE v = w
    <3>1. x \in On(s0)
      BY <1>4, <1>5, <2>1 DEF s0
    <3> QED
      BY <1>1, <2>1, <3>1
  <2>2. CASE x = w
    <3>1. v \in On(s0)
      BY <1>4, <1>5, <2>2 DEF s0
    <3> QED
      BY <1>2, <2>2, <3>1
  <2>3. CASE v # w /\ x # w
    <3>1. v \in Workers \ {w} /\ x \in Workers \ {w}
      BY <2>3
    <3>2. Busy(v) /\ Busy(x) /\ Now(v).slug = Now(x).slug
      BY <1>5, <3>1
    <3>3. Apart(v, x)
      BY DEF OfferInv
    <3>4. ~job[v].alone
      BY <3>2, <3>3 DEF Apart
    <3> QED
      BY <1>2, <3>1, <3>4
  <2> QED
    BY <2>1, <2>2, <2>3
<1>14. ASSUME NEW s \in Plans PROVE TrueRow(s)'
  <2>1. TrueRow(s)
    BY DEF OfferInv
  <2>2. ASSUME NEW v \in Workers, Repairs(v, s) PROVE s \in spoiled' \/ Repairs(v, s)'
    <3>1. v # w
      BY <1>4, <2>2 DEF Repairs
    <3>2. CASE v \in On(s0)
      BY <1>3, <1>5, <2>2, <3>1, <3>2 DEF Repairs
    <3>3. CASE v \notin On(s0)
      BY <1>2, <1>5, <2>2, <3>1, <3>3 DEF Repairs
    <3> QED
      BY <3>2, <3>3
  <2> QED
    BY <1>3, <2>1, <2>2 DEF TrueRow, IsPriceOf
<1> QED
  BY <1>7, <1>8, <1>9, <1>11, <1>12, <1>13, <1>14 DEF OfferInv

(* What is left to a worker after a plan.                                   *)
LEMMA LeftOver ==
  ASSUME NEW w \in Workers, NEW r \in {Rest(w), Idle}
  PROVE  /\ r \in Holding({<<>>, None, Tail(job[w].todo)})
         /\ r.pc \notin AtPlan
         /\ r.todo # <<>> => r.pc = "next" /\ r.user = None
<1> DEFINE q == Tail(job[w].todo)
           i == Idle
           t == [Idle EXCEPT !.pc = "next", !.todo = q]
<1>1. /\ i \in Holding({<<>>, None, q}) /\ i.pc = "idle"
      /\ t \in Holding({<<>>, None, q}) /\ t.pc = "next"
  BY FreshRecord
<1>2. i.todo = <<>> /\ t.user = None
  BY DEF Idle
<1>3. r = i \/ r = t
  BY DEF Rest
<1> HIDE DEF i, t
<1> QED
  BY <1>1, <1>2, <1>3 DEF AtPlan

(* SaveRow: a worker that was alone at the plan has repaired it, for nobody  *)
(* else has dropped its price meanwhile.                                     *)
LEMMA SaveStep ==
  ASSUME Inv, OfferInv, NEW w \in Workers, SaveRow(w)
  PROVE  OfferInv'
<1> DEFINE s0 == Now(w).slug
           q == [price |-> job[w].made, amount |-> Now(w).amount]
<1>1. /\ At(w, "save") /\ Set(w, Rest(w)) /\ row' = [row EXCEPT ![s0] = q]
      /\ spoiled' = IF job[w].alone THEN spoiled \ {s0} ELSE spoiled
      /\ UNCHANGED <<price, served>>
  BY DEF SaveRow, stripe, people
<1>2. q.price = job[w].made /\ q.amount = Now(w).amount
  OBVIOUS
<1>3. Queued(w) /\ Found(w) /\ Disturbed(w)
  BY DEF OfferInv
<1>4. Busy(w)
  BY <1>1, <1>3 DEF Busy, At, Queued, AtPlan
<1> DEFINE r == Rest(w)
<1>5. job'[w] = r /\ \A v \in Workers \ {w} : job'[v] = job[v]
  BY <1>1, LeftOver, SetSets DEF Inv
<1>6. PICK W : row \in [Plans -> W]
  BY DEF OfferInv, RowsAre
<1> HIDE DEF q
<1>7. row' \in [Plans -> W \cup {q}]
  BY <1>1, <1>6
<1>8. \A s \in Plans : row'[s] = IF s = s0 THEN q ELSE row[s]
  BY <1>1, <1>6
<1>9. ASSUME NEW v \in Workers \ {w}
      PROVE  (Busy(v)' <=> Busy(v)) /\ Now(v)' = Now(v) /\ job'[v] = job[v]
  BY <1>5 DEF Busy, Now, At
<1>10. ASSUME NEW v \in Workers \ {w} PROVE Disturbed(v)'
  <2>1. Disturbed(v) /\ Apart(w, v)
    BY DEF OfferInv
  <2> QED
    BY <1>1, <1>4, <1>9, <2>1 DEF Disturbed, Apart
<1>11. ASSUME NEW s \in Plans PROVE TrueRow(s)'
  <2>1. CASE s = s0
    <3>1. row'[s] = q
      BY <1>8, <2>1
    <3>2. /\ IsPriceOf(q.price, s) /\ price[q.price].amount = q.amount
          /\ price[q.price].active \/ s \in spoiled'
      BY <1>1, <1>2, <1>3, <1>4, <2>1 DEF Found, Disturbed
    <3> QED
      BY <1>1, <3>1, <3>2 DEF TrueRow, IsPriceOf
  <2>2. CASE s # s0
    <3>1. TrueRow(s) /\ row'[s] = row[s] /\ (s \in spoiled => s \in spoiled')
      BY <1>1, <1>8, <2>2 DEF OfferInv
    <3>2. ASSUME NEW v \in Workers, Repairs(v, s) PROVE Repairs(v, s)'
      BY <1>9, <2>2, <3>2 DEF Repairs
    <3> QED
      BY <1>1, <3>1, <3>2 DEF TrueRow, IsPriceOf
  <2> QED
    BY <2>1, <2>2
<1>12. RowsAre'
  BY <1>7 DEF RowsAre
<1> HIDE DEF s0
<1> QED
  BY <1>1, <1>10, <1>11, <1>12, LeftOver, Outside

(* A sync that fails or dies leaves its plan to be repaired if it has dropped *)
(* a price.                                                                   *)
LEMMA BreakStep ==
  ASSUME Inv, OfferInv, NEW w \in Workers, SyncFails(w) \/ SyncDies(w)
  PROVE  OfferInv'
<1>1. /\ Set(w, Rest(w)) \/ Set(w, Idle)
      /\ spoiled' = Spoils(w)
      /\ UNCHANGED <<price, served, row>>
  BY DEF SyncFails, SyncDies, stripe, people
<1>2. PICK r \in {Rest(w), Idle} : Set(w, r)
  BY <1>1
<1>3. job'[w] = r /\ \A v \in Workers \ {w} : job'[v] = job[v]
  BY <1>2, LeftOver, SetSets DEF Inv
<1>4. spoiled \subseteq spoiled' /\ (job[w].dropped => Now(w).slug \in spoiled')
  BY <1>1 DEF Spoils
<1>5. ASSUME NEW v \in Workers \ {w}
      PROVE  (Busy(v)' <=> Busy(v)) /\ Now(v)' = Now(v) /\ job'[v] = job[v]
  BY <1>3 DEF Busy, Now, At
<1>6. ASSUME NEW v \in Workers \ {w} PROVE Disturbed(v)'
  <2>1. Disturbed(v)
    BY DEF OfferInv
  <2> QED
    BY <1>4, <1>5, <2>1 DEF Disturbed
<1>7. ASSUME NEW s \in Plans PROVE TrueRow(s)'
  <2>1. TrueRow(s)
    BY DEF OfferInv
  <2>2. ASSUME NEW v \in Workers, Repairs(v, s) PROVE s \in spoiled' \/ Repairs(v, s)'
    BY <1>4, <1>5, <2>2 DEF Repairs
  <2> QED
    BY <1>1, <1>4, <2>1, <2>2 DEF TrueRow, IsPriceOf
<1>8. RowsAre'
  BY <1>1 DEF OfferInv, RowsAre
<1> QED
  BY <1>1, <1>2, <1>6, <1>7, <1>8, LeftOver, Outside

(* Deleting a plan deletes its row; a purchase is served by the plan whose   *)
(* row has its price.                                                        *)
LEMMA CatalogStep ==
  ASSUME OfferInv, UNCHANGED <<job, price, spoiled>>,
         \/ UNCHANGED <<row, served>>
         \/ \E s \in Plans : DeletePlan(s)
         \/ \E i \in session : ServeSession(i)
  PROVE  OfferInv'
<1>1. PricesAre'
  BY DEF OfferInv, PricesAre
<1>2. RowsAre' /\ \A s \in Plans : row'[s] = row[s] \/ row'[s] = None
  <2>1. PICK W : row \in [Plans -> W]
    BY DEF OfferInv, RowsAre
  <2>2. row' \in [Plans -> W \cup {None}] /\ \A s \in Plans : row'[s] = row[s] \/ row'[s] = None
    BY <2>1 DEF DeletePlan, ServeSession
  <2> QED
    BY <2>2 DEF RowsAre
<1>3. \A w \in Workers : Queued(w)' /\ Found(w)' /\ Disturbed(w)'
  BY DEF OfferInv, Queued, Found, Disturbed, Busy, At, Now, IsPriceOf
<1>4. \A v, w \in Workers : Apart(v, w)'
  BY DEF OfferInv, Apart, Busy, At, Now
<1>5. ASSUME NEW s \in Plans PROVE TrueRow(s)'
  <2>1. TrueRow(s) /\ (row'[s] = row[s] \/ row'[s] = None)
    BY <1>2 DEF OfferInv
  <2>2. \A v \in Workers : Repairs(v, s) => Repairs(v, s)'
    BY DEF Repairs, Busy, At, Now
  <2> QED
    BY <2>1, <2>2 DEF TrueRow, IsPriceOf
<1>6. ASSUME NEW x \in served' PROVE IsPriceOf(x.price, x.plan)
  <2>1. CASE x \in served
    BY <2>1 DEF OfferInv, TrueServed
  <2>2. CASE x \notin served
    <3>1. PICK s \in Plans, i \in session : /\ row[s] # None /\ row[s].price = i
                                         /\ x = [price |-> i, plan |-> s]
      BY <1>6, <2>2 DEF DeletePlan, ServeSession, people
    <3>2. TrueRow(s)
      BY DEF OfferInv
    <3> QED
      BY <3>1, <3>2 DEF TrueRow
  <2> QED
    BY <2>1, <2>2
<1>7. TrueServed'
  BY <1>6 DEF TrueServed, IsPriceOf
<1> QED
  BY <1>1, <1>2, <1>3, <1>4, <1>5, <1>7 DEF OfferInv

LEMMA OfferStep == Inv /\ OfferInv /\ [Next]_vars => OfferInv'
<1> SUFFICES ASSUME Inv, OfferInv, [Next]_vars PROVE OfferInv'
  OBVIOUS
<1>1. ASSUME NEW s \in Plans, EditPlan(s) \/ CreatePlan(s) \/ DeletePlan(s) PROVE OfferInv'
  BY <1>1, CatalogStep DEF EditPlan, CreatePlan, DeletePlan, people, stripe
<1>2. CASE InitBase \/ EditConfig \/ Indexed
  BY <1>2, CatalogStep DEF InitBase, EditConfig, Indexed, people, stripe
<1>3. ASSUME NEW u \in Users, KeyExpires(u) PROVE OfferInv'
  BY <1>3, CatalogStep DEF KeyExpires, stripe
<1>4. ASSUME NEW i \in session, ServeSession(i) PROVE OfferInv'
  BY <1>4, CatalogStep DEF ServeSession, stripe
<1>5. CASE UNCHANGED vars
  BY <1>5, CatalogStep DEF vars, people, stripe
<1>6. ASSUME NEW w \in Workers, WorkerStep(w) PROVE OfferInv'
  BY <1>6, StartStep, LookStep, DropStep, CreateStep, TurnStep, SaveStep, BreakStep
     DEF WorkerStep
<1> QED
  BY <1>1, <1>2, <1>3, <1>4, <1>5, <1>6 DEF Next

LEMMA OfferInit == Init => OfferInv
<1> SUFFICES ASSUME Init PROVE OfferInv
  OBVIOUS
<1>1. \A w \in Workers : job[w].todo = <<>> /\ job[w].pc = "idle"
  BY DEF Init, Idle
<1>2. PricesAre
  BY EmptySeq DEF Init, PricesAre
<1>3. RowsAre
  BY DEF Init, RowsAre
<1>4. \A w \in Workers : Queued(w) /\ Found(w) /\ ~Busy(w)
  BY <1>1 DEF Queued, Found, Busy, At, AtPlan
<1>5. \A s \in Plans : TrueRow(s)
  BY DEF Init, TrueRow
<1>6. TrueServed
  BY DEF Init, TrueServed
<1> QED
  BY <1>2, <1>3, <1>4, <1>5, <1>6 DEF OfferInv, Disturbed, Apart

(* Whatever edits, deletions, crashes and overlapping syncs come together, a *)
(* row names a price of its plan and its amount, a purchase is served with   *)
(* the plan its price was made for, and a plan that cannot be bought is one  *)
(* a sync is at or one whose last sync was cut short or overlapped.          *)
THEOREM TrueOffers == Spec => []OffersAreTrue
<1>1. Inv /\ OfferInv => OffersAreTrue
  <2> SUFFICES ASSUME OfferInv PROVE OffersAreTrue
    OBVIOUS
  <2>1. ASSUME NEW s \in Plans, row[s] # None
        PROVE  /\ price[row[s].price].slug = s
               /\ price[row[s].price].amount = row[s].amount
               /\ price[row[s].price].active \/ s \in spoiled \/ On(s) # {}
    BY <2>1 DEF OfferInv, TrueRow, IsPriceOf, Repairs, Busy, On
  <2>2. \A x \in served : price[x.price].slug = x.plan
    BY DEF OfferInv, TrueServed, IsPriceOf
  <2> QED
    BY <2>1, <2>2 DEF OffersAreTrue
<1> QED
  BY <1>1, InvInit, InvStep, OfferInit, OfferStep, PTL DEF Spec
-----------------------------------------------------------------------------
(* MergeForest *)

USE ForestAssumption

(* The evidence of an automatic merge. *)
Evidence == [reason : F!Auto, signal : F!Auto \cup {"containment"}]

(* The record of a task; where pointers form a circle a head is whatever     *)
(* it is, some V.                                                            *)
Heads(V) == UNION {[D -> V] : D \in SUBSET F!Ids}
Tasks(V) == [pc : {"idle", "own", "link", "absorb"}, email : F!Ids \cup {None},
             heads : Heads(V), moved : SUBSET F!Ids, target : V \cup {None},
             proof : Evidence \cup {None}]

ForestTypes ==
  /\ crew \in Crews
  /\ fresh \subseteq Manuals /\ here \subseteq F!Ids \ fresh
  /\ mail = [e \in F!Ids |-> mail[e]] /\ \A e \in F!Ids : mail[e].day \in Nat
  /\ into \in [F!Ids -> here \cup {None}] /\ \A e \in F!Ids \ here : into[e] = None
  /\ why \in [F!Ids -> {"", "manual"} \cup F!Auto]
  /\ proof \in [F!Ids -> Evidence \cup {None}]
  /\ lock \in [F!Ids -> F!CrewMembers \cup {None}]
  /\ queue \subseteq F!Ids \ fresh
  /\ command \subseteq F!Ids
  /\ \E V : task \in [F!CrewMembers -> Tasks(V)]

Deciding(w) == task[w].pc \in {"link", "absorb"}
Held(w) ==
  /\ task[w].pc # "idle" => w \in crew /\ task[w].email \in F!Ids \ fresh
  /\ Deciding(w) =>
       /\ task[w].email \in here /\ into[task[w].email] = None
       /\ lock[task[w].email] = w
       /\ task[w].proof \in Evidence /\ F!Agrees(task[w].proof)
  /\ task[w].pc = "link" => task[w].target # task[w].email
  /\ task[w].pc = "absorb" =>
       /\ \A h \in task[w].moved : h \in here \ {task[w].email} /\ lock[h] = w
       /\ \A c \in DOMAIN task[w].heads : task[w].heads[c] # task[w].email
OneEach ==
  \A w, v \in F!CrewMembers :
    w # v /\ task[w].pc # "idle" /\ task[v].pc # "idle" => task[w].email # task[v].email

MergeInv == ForestTypes /\ OneEach /\ (\A w \in F!CrewMembers : Held(w)) /\ F!EvidenceAgrees
-----------------------------------------------------------------------------
LEMMA ForestConstants ==
  /\ F!Ids \subseteq Nat /\ None \notin F!Ids /\ None \notin F!CrewMembers
  /\ Mails \subseteq F!Ids /\ Manuals \subseteq F!Ids
BY DEF F!Ids, F!CrewMembers

LEMMA SameCardinality == \A S : F!Cardinality(S) = Cardinality(S)
BY DEF Cardinality, F!Cardinality

LEMMA LeastNat == ASSUME NEW D \in SUBSET Nat, D # {} PROVE \E d \in D : \A x \in D : ~(x < d)
<1>1. PICK d \in D : \A x \in D : ~(<<x, d>> \in OpToRel(<, Nat))
  BY NatLessThanWellFounded, WFMin
<1> QED
  BY <1>1 DEF OpToRel

LEMMA FirstIsIn ==
  ASSUME \A e \in F!Ids : mail[e].day \in Nat, NEW S \in SUBSET F!Ids, S # {}
  PROVE  F!First(S) \in S
<1> DEFINE D == {mail[e].day : e \in S}
<1>1. PICK d \in D : \A x \in D : ~(x < d)
  <2>1. D \in SUBSET Nat /\ D # {}
    OBVIOUS
  <2> HIDE DEF D
  <2> QED
    BY <2>1, LeastNat
<1> DEFINE T == {e \in S : mail[e].day = d}
<1>2. PICK t \in T : \A x \in T : ~(x < t)
  <2>1. T \in SUBSET Nat /\ T # {}
    BY ForestConstants
  <2> HIDE DEF T
  <2> QED
    BY <2>1, LeastNat
<1>3. \A y \in S : ~F!Before(y, t)
  <2> SUFFICES ASSUME NEW y \in S, F!Before(y, t) PROVE FALSE
    OBVIOUS
  <2>1. mail[y].day \in Nat /\ mail[t].day = d /\ ~(mail[y].day < d)
    BY <1>1
  <2>2. y \in T /\ y < t
    BY <2>1 DEF F!Before
  <2> QED
    BY <1>2, <2>2
<1> QED
  BY <1>3 DEF F!First

LEMMA NewIdIsFresh ==
  ASSUME fresh \subseteq Manuals, fresh # {} PROVE F!NewId \in fresh
<1>1. PICK d \in fresh : \A x \in fresh : ~(x < d)
  <2>1. fresh \in SUBSET Nat
    OBVIOUS
  <2> QED
    BY <2>1, LeastNat
<1>2. \A x \in fresh : d <= x
  BY <1>1
<1> QED
  BY <1>2 DEF F!NewId

LEMMA EvidenceIsGood ==
  ASSUME \A e \in F!Ids : mail[e].day \in Nat, NEW e, NEW S \in SUBSET F!Ids, S # {}
  PROVE  F!EvidenceFor(e, S) \in Evidence /\ F!Agrees(F!EvidenceFor(e, S))
<1> DEFINE best == F!StrongestReason(e, S)
           P == {c \in S : F!ReasonOf(e, c) = best}
           p == F!PrimarySource(e, S)
<1>1. best \in F!Auto /\ P # {}
  <2>1. \A c \in S : F!ReasonOf(e, c) \in {"thread_relation", "forward_chain", "text_similarity"}
    BY DEF F!ReasonOf, F!SignalOf
  <2> QED
    BY <2>1 DEF F!StrongestReason, F!Auto
<1>2. p \in P
  BY <1>1, FirstIsIn DEF F!PrimarySource
<1>3. F!SignalOf(e, p) \in F!Auto \cup {"containment"}
  BY DEF F!SignalOf, F!Auto
<1>4. best = IF F!SignalOf(e, p) = "containment" THEN "text_similarity" ELSE F!SignalOf(e, p)
  BY <1>2 DEF F!ReasonOf
<1> QED
  BY <1>1, <1>3, <1>4 DEF F!EvidenceFor, F!Agrees, Evidence

LEMMA HeadsAreOthers ==
  ASSUME NEW e, NEW S \in SUBSET F!Ids
  PROVE  /\ F!HeadsOf(e, S) \in Heads({F!HeadOf(c) : c \in S})
         /\ \A c \in DOMAIN F!HeadsOf(e, S) :
              c \in S /\ F!HeadsOf(e, S)[c] = F!HeadOf(c) /\ F!HeadOf(c) # e
<1> DEFINE head == [c \in S |-> F!HeadOf(c)]
           firsts == {c \in S : head[c] # e /\ \A d \in S : head[d] = head[c] => ~F!Before(d, c)}
<1>1. F!HeadsOf(e, S) = [c \in firsts |-> F!HeadOf(c)]
  BY DEF F!HeadsOf, Restrict, F!Restrict
<1>2. firsts \in SUBSET F!Ids /\ \A c \in firsts : c \in S /\ F!HeadOf(c) # e
  OBVIOUS
<1> HIDE DEF firsts
<1>3. F!HeadsOf(e, S) \in [firsts -> {F!HeadOf(c) : c \in S}]
  BY <1>1, <1>2
<1>4. F!HeadsOf(e, S) \in Heads({F!HeadOf(c) : c \in S})
  BY <1>2, <1>3 DEF Heads
<1> QED
  BY <1>1, <1>2, <1>4
-----------------------------------------------------------------------------
LEMMA IdleTask == F!Idle \in Tasks({}) /\ F!Idle.pc = "idle"
<1>1. F!NoHeads \in [{} -> {}]
  BY DEF F!NoHeads
<1>2. F!NoHeads \in Heads({})
  BY <1>1 DEF Heads
<1> QED
  BY <1>2 DEF F!Idle, Tasks

TasksAre == \E V : task \in [F!CrewMembers -> Tasks(V)]

LEMMA SetTask ==
  ASSUME TasksAre, NEW w \in F!CrewMembers, NEW W, NEW r \in Tasks(W),
         task' = [task EXCEPT ![w] = r]
  PROVE  TasksAre' /\ task'[w] = r /\ \A v \in F!CrewMembers \ {w} : task'[v] = task[v]
<1>1. PICK V : task \in [F!CrewMembers -> Tasks(V)]
  BY DEF TasksAre
<1>2. \A X, Y : X \subseteq Y => Heads(X) \subseteq Heads(Y)
  BY DEF Heads
<1>3. Heads(V) \subseteq Heads(V \cup W) /\ Heads(W) \subseteq Heads(V \cup W)
  BY <1>2
<1>4. r \in Tasks(V \cup W) /\ \A v \in F!CrewMembers : task[v] \in Tasks(V \cup W)
  BY <1>1, <1>3 DEF Tasks
<1>5. task' \in [F!CrewMembers -> Tasks(V \cup W)]
  BY <1>1, <1>4
<1> QED
  BY <1>1, <1>5 DEF TasksAre

LEMMA HeldStays ==
  ASSUME NEW v, Held(v), task'[v] = task[v], crew' = crew, fresh' \subseteq fresh,
         Deciding(v) => /\ task[v].email \in here' /\ into'[task[v].email] = None
                        /\ lock'[task[v].email] = v,
         task[v].pc = "absorb" => \A h \in task[v].moved : h \in here' /\ lock'[h] = v
  PROVE  Held(v)'
BY DEF Held, Deciding, F!Agrees

LEMMA IdleIsHeld == ASSUME NEW v, task[v]' = F!Idle PROVE Held(v)'
BY IdleTask DEF Held, Deciding

LEMMA EvidenceStays ==
  ASSUME F!EvidenceAgrees, ForestTypes, here' \subseteq F!Ids,
         \A e \in F!Ids : into'[e] # None =>
           \/ into[e] # None /\ why'[e] = why[e] /\ proof'[e] = proof[e]
           \/ why'[e] \notin F!Auto
           \/ proof'[e].reason = why'[e] /\ F!Agrees(proof'[e])
  PROVE  F!EvidenceAgrees'
<1>1. \A e \in F!Ids : into[e] # None => e \in here
  BY DEF ForestTypes
<1> QED
  BY <1>1 DEF F!EvidenceAgrees, F!Agrees, F!Auto

LEMMA MergeStart == F!Init => MergeInv
<1> SUFFICES ASSUME F!Init PROVE MergeInv
  OBVIOUS
<1>1. TasksAre /\ \A w \in F!CrewMembers : task[w] = F!Idle
  BY IdleTask DEF F!Init, TasksAre
<1>2. \A e \in F!Ids : mail[e].day \in Nat
  BY DEF F!Init, F!Blank
<1>3. ForestTypes
  BY <1>1, <1>2, ForestConstants DEF F!Init, ForestTypes, TasksAre, F!Ids
<1>4. OneEach /\ \A w \in F!CrewMembers : Held(w)
  BY <1>1, IdleTask DEF OneEach, Held, Deciding
<1>5. F!EvidenceAgrees
  BY DEF F!Init, F!EvidenceAgrees, F!Ids
<1> QED
  BY <1>3, <1>4, <1>5 DEF MergeInv

LEMMA TaskStartKeeps ==
  ASSUME MergeInv, NEW w \in F!CrewMembers, NEW e \in queue, F!TaskStart(w, e) PROVE MergeInv'
<1> DEFINE r == [F!Idle EXCEPT !.pc = "own", !.email = e]
<1>0. e \in F!Ids \ fresh
  BY DEF MergeInv, ForestTypes
<1>1. r \in Tasks({}) /\ r.pc = "own" /\ r.email = e
  BY <1>0, IdleTask DEF Tasks
<1> HIDE DEF r
<1>2. UNCHANGED <<crew, tally, fresh, here, mail, into, why, proof, lock, command>>
  BY DEF F!TaskStart, F!rows, F!texts
<1>3. queue' \subseteq F!Ids \ fresh
  BY DEF F!TaskStart, MergeInv, ForestTypes
<1>4. w \in crew /\ (task' = task \/ task' = [task EXCEPT ![w] = r])
  BY DEF F!TaskStart, r
<1>5. F!EvidenceAgrees'
  BY <1>2 DEF MergeInv, F!EvidenceAgrees, F!Agrees
<1>6. CASE task' = task
  <2>1. ForestTypes' /\ OneEach'
    BY <1>2, <1>3, <1>6 DEF MergeInv, ForestTypes, OneEach
  <2>2. \A v \in F!CrewMembers : Held(v)'
    BY <1>2, <1>6 DEF MergeInv, Held, Deciding, F!Agrees
  <2> QED
    BY <1>5, <2>1, <2>2 DEF MergeInv
<1>7. CASE task' = [task EXCEPT ![w] = r]
  <2>1. TasksAre' /\ task'[w] = r /\ \A v \in F!CrewMembers \ {w} : task'[v] = task[v]
    BY <1>1, <1>7, SetTask DEF MergeInv, ForestTypes, TasksAre
  <2>2. ForestTypes'
    BY <1>2, <1>3, <2>1 DEF MergeInv, ForestTypes, TasksAre
  <2>3. OneEach'
    BY <1>1, <2>1 DEF MergeInv, OneEach, F!TaskStart
  <2>4. \A v \in F!CrewMembers \ {w} : Held(v)'
    BY <1>2, <2>1 DEF MergeInv, Held, Deciding, F!Agrees
  <2>5. Held(w)'
    BY <1>0, <1>1, <1>2, <1>4, <2>1 DEF Held, Deciding
  <2> QED
    BY <1>5, <2>2, <2>3, <2>4, <2>5 DEF MergeInv
<1> QED
  BY <1>4, <1>6, <1>7

(* What a task leaves when it ends: the other tasks keep their locks.        *)
LEMMA EndKeeps ==
  ASSUME MergeInv, NEW w \in F!CrewMembers, F!End(w), F!Unlock(w) \/ UNCHANGED lock,
         UNCHANGED <<crew, fresh, here, mail, queue, command>>,
         into' \in [F!Ids -> here \cup {None}], \A e \in F!Ids \ here : into'[e] = None,
         why' \in [F!Ids -> {"", "manual"} \cup F!Auto],
         proof' \in [F!Ids -> Evidence \cup {None}],
         \A v \in F!CrewMembers \ {w} :
           Deciding(v) => into'[task[v].email] = None,
         F!EvidenceAgrees'
  PROVE  MergeInv'
<1>1. TasksAre' /\ task'[w] = F!Idle /\ \A v \in F!CrewMembers \ {w} : task'[v] = task[v]
  BY IdleTask, SetTask DEF MergeInv, ForestTypes, TasksAre, F!End
<1>2. /\ lock' \in [F!Ids -> F!CrewMembers \cup {None}]
      /\ \A e \in F!Ids, v \in F!CrewMembers \ {w} : lock[e] = v => lock'[e] = v
  <2>1. lock \in [F!Ids -> F!CrewMembers \cup {None}]
    BY DEF MergeInv, ForestTypes
  <2>2. CASE lock' = [x \in F!Ids |-> IF lock[x] = w THEN None ELSE lock[x]]
    BY <2>1, <2>2
  <2> QED
    BY <2>1, <2>2 DEF F!Unlock
<1>3. ForestTypes'
  BY <1>1, <1>2 DEF MergeInv, ForestTypes, TasksAre
<1>4. OneEach'
  BY <1>1, IdleTask DEF MergeInv, OneEach
<1>5. ASSUME NEW v \in F!CrewMembers \ {w} PROVE Held(v)'
  <2>1. here \subseteq F!Ids /\ Held(v)
    BY DEF MergeInv, ForestTypes
  <2>2. Deciding(v) => task[v].email \in here /\ lock[task[v].email] = v
    BY <2>1 DEF Held
  <2>3. task[v].pc = "absorb" => \A h \in task[v].moved : h \in here /\ lock[h] = v
    BY <2>1 DEF Held
  <2> QED
    BY <1>1, <1>2, <2>1, <2>2, <2>3, HeldStays
<1>6. Held(w)'
  BY <1>1, IdleIsHeld
<1> QED
  BY <1>3, <1>4, <1>5, <1>6 DEF MergeInv

LEMMA RolledBackKeeps ==
  ASSUME MergeInv, NEW w \in F!CrewMembers, F!RolledBack(w) PROVE MergeInv'
<1>1. UNCHANGED <<crew, tally, fresh, here, mail, into, why, proof, queue, command>>
      /\ F!Unlock(w) /\ F!End(w)
  BY DEF F!RolledBack, F!rows, F!texts
<1>2. F!EvidenceAgrees'
  BY <1>1 DEF MergeInv, F!EvidenceAgrees, F!Agrees
<1> QED
  BY <1>1, <1>2, EndKeeps DEF MergeInv, ForestTypes, Held

(* A task that links or absorbs holds the email it is about.                 *)
LEMMA DeciderHolds ==
  ASSUME MergeInv, NEW w \in F!CrewMembers, Deciding(w)
  PROVE  /\ w \in crew /\ task[w].email \in here /\ task[w].email \in F!Ids
         /\ into[task[w].email] = None /\ lock[task[w].email] = w
         /\ task[w].proof \in Evidence /\ F!Agrees(task[w].proof)
BY DEF MergeInv, ForestTypes, Held, Deciding

LEMMA LinkKeeps ==
  ASSUME MergeInv, NEW w \in F!CrewMembers, F!Link(w) PROVE MergeInv'
<1> DEFINE e == task[w].email
           m == task[w].target
           ev == task[w].proof
<1>1. Deciding(w) /\ m \in here /\ F!Marked({e}, m, ev, why) /\ F!Unlock(w) /\ F!End(w)
  BY DEF F!Link, Deciding
<1>2. e \in here /\ e \in F!Ids /\ lock[e] = w /\ ev \in Evidence /\ F!Agrees(ev)
  BY <1>1, DeciderHolds
<1>3. UNCHANGED <<crew, fresh, here, mail, queue, command>>
  BY DEF F!Link, F!texts
<1> HIDE DEF e, m, ev
<1>4. /\ into' = [x \in F!Ids |-> IF x = e THEN m ELSE into[x]]
      /\ why' = [x \in F!Ids |-> IF x = e THEN ev.reason ELSE why[x]]
      /\ proof' = [x \in F!Ids |-> IF x = e THEN ev ELSE proof[x]]
  BY <1>1 DEF F!Marked
<1>5. /\ into' \in [F!Ids -> here \cup {None}] /\ \A x \in F!Ids \ here : into'[x] = None
      /\ why' \in [F!Ids -> {"", "manual"} \cup F!Auto]
      /\ proof' \in [F!Ids -> Evidence \cup {None}]
  BY <1>1, <1>2, <1>4 DEF MergeInv, ForestTypes, Evidence
<1>6. \A v \in F!CrewMembers \ {w} : Deciding(v) => into'[task[v].email] = None
  BY <1>2, <1>4, DeciderHolds
<1>7. F!EvidenceAgrees'
  BY <1>2, <1>3, <1>4, EvidenceStays DEF MergeInv, ForestTypes
<1> QED
  BY <1>1, <1>3, <1>5, <1>6, <1>7, EndKeeps

LEMMA AbsorbDoneKeeps ==
  ASSUME MergeInv, NEW w \in F!CrewMembers, F!AbsorbDone(w) PROVE MergeInv'
<1> DEFINE e == task[w].email
           M == task[w].moved
           ev == task[w].proof
           reasons == [why EXCEPT ![e] = ""]
<1>1. Deciding(w) /\ F!Marked(M, e, ev, reasons) /\ F!Unlock(w) /\ F!End(w)
  BY DEF F!AbsorbDone, Deciding
<1>2. e \in here /\ e \in F!Ids /\ ev \in Evidence /\ F!Agrees(ev) /\ into[e] = None
  BY <1>1, DeciderHolds
<1>3. UNCHANGED <<crew, fresh, here, mail, queue, command>>
  BY DEF F!AbsorbDone, F!texts
<1>4. \A h \in M : h \in here /\ lock[h] = w /\ h # e
  BY DEF MergeInv, Held, F!AbsorbDone
<1>5. reasons \in [F!Ids -> {"", "manual"} \cup F!Auto] /\ \A x \in F!Ids \ {e} : reasons[x] = why[x]
  BY <1>2 DEF MergeInv, ForestTypes
<1> HIDE DEF e, M, ev, reasons
<1>6. /\ into' = [x \in F!Ids |-> IF x \in M THEN e ELSE into[x]]
      /\ why' = [x \in F!Ids |-> IF x \in M THEN ev.reason ELSE reasons[x]]
      /\ proof' = [x \in F!Ids |-> IF x \in M THEN ev ELSE proof[x]]
  BY <1>1 DEF F!Marked
<1>7. /\ into' \in [F!Ids -> here \cup {None}] /\ \A x \in F!Ids \ here : into'[x] = None
      /\ why' \in [F!Ids -> {"", "manual"} \cup F!Auto]
      /\ proof' \in [F!Ids -> Evidence \cup {None}]
  BY <1>2, <1>4, <1>5, <1>6 DEF MergeInv, ForestTypes, Evidence
<1>8. \A v \in F!CrewMembers \ {w} : Deciding(v) => into'[task[v].email] = None
  BY <1>4, <1>6, DeciderHolds
<1>9. \A x \in F!Ids : into'[x] # None =>
        \/ into[x] # None /\ why'[x] = why[x] /\ proof'[x] = proof[x]
        \/ proof'[x].reason = why'[x] /\ F!Agrees(proof'[x])
  BY <1>2, <1>5, <1>6
<1>10. F!EvidenceAgrees'
  BY <1>3, <1>9, EvidenceStays DEF MergeInv, ForestTypes
<1> QED
  BY <1>1, <1>3, <1>7, <1>8, <1>10, EndKeeps

LEMMA MoveOn ==
  ASSUME NEW V, NEW t \in Tasks(V), NEW G, NEW N
  PROVE  [t EXCEPT !.heads = G, !.moved = N] =
           [pc |-> t.pc, email |-> t.email, heads |-> G, moved |-> N,
            target |-> t.target, proof |-> t.proof]
<1> DEFINE e == [t EXCEPT !.heads = G, !.moved = N]
<1>1. t \in [pc : {t.pc}, email : {t.email}, heads : {t.heads}, moved : {t.moved},
             target : {t.target}, proof : {t.proof}]
  BY DEF Tasks
<1>2. e \in [pc : {t.pc}, email : {t.email}, heads : {G}, moved : {N},
             target : {t.target}, proof : {t.proof}]
  BY <1>1
<1> HIDE DEF e
<1>3. e = [pc |-> t.pc, email |-> t.email, heads |-> G, moved |-> N,
           target |-> t.target, proof |-> t.proof]
  BY <1>2
<1> QED
  BY <1>3 DEF e

LEMMA AbsorbNextKeeps ==
  ASSUME MergeInv, NEW w \in F!CrewMembers, F!AbsorbNext(w) PROVE MergeInv'
<1> DEFINE t == task[w]
           c == F!First(DOMAIN t.heads)
           h == t.heads[c]
           M == IF into[h] = t.email THEN t.moved ELSE t.moved \cup {h}
           H == [x \in DOMAIN t.heads \ {c} |-> t.heads[x]]
           r == [pc |-> t.pc, email |-> t.email, heads |-> H, moved |-> M,
                 target |-> t.target, proof |-> t.proof]
<1>1. t.pc = "absorb" /\ DOMAIN t.heads # {} /\ h \in here /\ F!Free(h, w)
      /\ lock' = [lock EXCEPT ![h] = w]
      /\ UNCHANGED <<crew, tally, fresh, here, mail, into, why, proof, queue, command>>
  BY DEF F!AbsorbNext, F!rows, F!texts
<1>2. PICK V : task \in [F!CrewMembers -> Tasks(V)]
  BY DEF MergeInv, ForestTypes
<1>3. PICK D \in SUBSET F!Ids : t.heads \in [D -> V]
  BY <1>2 DEF Tasks, Heads
<1>4. c \in D
  BY <1>1, <1>3, FirstIsIn DEF MergeInv, ForestTypes
<1>5. h \in F!Ids /\ h # t.email
  <2>1. Held(w) /\ here \subseteq F!Ids
    BY DEF MergeInv, ForestTypes
  <2>2. c \in DOMAIN t.heads
    BY <1>3, <1>4
  <2> HIDE DEF c
  <2> QED
    BY <1>1, <2>1, <2>2 DEF Held
<1>6. task' = [task EXCEPT ![w] = r]
  <2>1. task' = [task EXCEPT ![w] = [t EXCEPT !.heads = H, !.moved = M]]
    BY DEF F!AbsorbNext, F!Restrict, Restrict
  <2>2. t \in Tasks(V)
    BY <1>2
  <2> HIDE DEF H, M, t
  <2>3. [t EXCEPT !.heads = H, !.moved = M] = r
    BY <2>2, MoveOn
  <2> QED
    BY <2>1, <2>3
<1>7. /\ r.pc = "absorb" /\ r.email = t.email /\ r.moved = M /\ r.proof = t.proof
      /\ r.heads = [x \in D \ {c} |-> t.heads[x]]
  BY <1>1, <1>3
<1> HIDE DEF c, h
<1>8. r \in Tasks(V)
  <2>0. t.pc \in {"idle", "own", "link", "absorb"} /\ t.email \in F!Ids \cup {None}
        /\ t.moved \in SUBSET F!Ids /\ t.target \in V \cup {None}
        /\ t.proof \in Evidence \cup {None}
    BY <1>2 DEF Tasks
  <2>1. [x \in D \ {c} |-> t.heads[x]] \in [D \ {c} -> V]
    BY <1>3
  <2>2. [x \in D \ {c} |-> t.heads[x]] \in Heads(V)
    BY <2>1 DEF Heads
  <2>3. M \in SUBSET F!Ids
    BY <1>5, <2>0
  <2>4. H \in Heads(V)
    BY <1>3, <2>2
  <2> HIDE DEF H, M
  <2> QED
    BY <2>0, <2>3, <2>4 DEF Tasks
<1> HIDE DEF r, H, M
<1>9. TasksAre' /\ task'[w] = r /\ \A v \in F!CrewMembers \ {w} : task'[v] = task[v]
  BY <1>6, <1>8, SetTask DEF MergeInv, ForestTypes, TasksAre
<1>10. ForestTypes'
  BY <1>1, <1>9 DEF MergeInv, ForestTypes, TasksAre
<1>11. OneEach'
  BY <1>1, <1>7, <1>9 DEF MergeInv, OneEach
<1>12. \A x \in F!Ids : x # h => lock'[x] = lock[x]
  BY <1>1 DEF MergeInv, ForestTypes
<1>13. lock'[h] = w /\ \A v \in F!CrewMembers \ {w} : lock[h] # v
  BY <1>1, <1>5, ForestConstants DEF MergeInv, ForestTypes, F!Free
<1>14. ASSUME NEW v \in F!CrewMembers \ {w} PROVE Held(v)'
  <2>1. here \subseteq F!Ids /\ Held(v)
    BY DEF MergeInv, ForestTypes
  <2> QED
    BY <1>1, <1>9, <1>12, <1>13, <2>1, HeldStays DEF Held
<1>15. Held(w)'
  <2>1. here \subseteq F!Ids /\ Held(w)
    BY DEF MergeInv, ForestTypes
  <2>2. \A x \in M : x \in here \ {t.email} /\ lock'[x] = w
    BY <1>1, <1>5, <1>12, <1>13, <2>1 DEF Held, M
  <2>3. lock'[t.email] = w
    BY <1>1, <1>5, <1>12, <2>1 DEF Held, Deciding
  <2>4. \A x \in DOMAIN r.heads : r.heads[x] # t.email
    BY <1>1, <1>3, <1>7, <2>1 DEF Held
  <2> QED
    BY <1>1, <1>7, <1>9, <2>1, <2>2, <2>3, <2>4 DEF Held, Deciding, F!Agrees
<1>16. F!EvidenceAgrees'
  BY <1>1 DEF MergeInv, F!EvidenceAgrees, F!Agrees
<1> QED
  BY <1>10, <1>11, <1>14, <1>15, <1>16 DEF MergeInv

(* What a task has decided: its email is there, points nowhere and is locked;*)
(* the record holds the heads of what it matches, and evidence.              *)
Decision(w, e, found) ==
  /\ task[w].pc = "own" /\ e = task[w].email
  /\ e \in here /\ into[e] = None /\ F!Free(e, w)
  /\ found \subseteq here /\ found # {}
  /\ lock' = [lock EXCEPT ![e] = w]
  /\ UNCHANGED <<crew, tally, fresh, here, mail, into, why, proof, queue, command>>

LEMMA DecideEffect ==
  ASSUME MergeInv, NEW w \in F!CrewMembers, F!Decide(w)
  PROVE  \/ /\ F!End(w) /\ UNCHANGED lock
            /\ UNCHANGED <<crew, fresh, here, mail, into, proof, queue, command>>
            /\ \/ UNCHANGED why
               \/ /\ into[task[w].email] = None
                  /\ why' = [why EXCEPT ![task[w].email] = ""]
         \/ \E e, found, r :
              /\ Decision(w, e, found)
              /\ task' = [task EXCEPT ![w] = r]
              /\ LET heads == F!HeadsOf(e, found)
                     manual == {c \in DOMAIN heads : heads[c] \in Manuals}
                 IN r = [pc |-> IF manual = {} THEN "absorb" ELSE "link", email |-> e,
                         heads |-> heads, moved |-> {},
                         target |-> IF manual = {} THEN None ELSE heads[F!First(manual)],
                         proof |-> F!EvidenceFor(e, found)]
<1> DEFINE e == task[w].email
           found == {c \in here \ {e} : F!Matches(e, c)}
           heads == F!HeadsOf(e, found)
           manual == {c \in DOMAIN heads : heads[c] \in Manuals}
           r == [pc |-> IF manual = {} THEN "absorb" ELSE "link", email |-> e,
                 heads |-> heads, moved |-> {},
                 target |-> IF manual = {} THEN None ELSE heads[F!First(manual)],
                 proof |-> F!EvidenceFor(e, found)]
<1>1. UNCHANGED <<crew, tally, fresh, here, mail, into, proof, queue, command>>
      /\ task[w].pc = "own" /\ F!Free(e, w)
  BY DEF F!Decide, F!texts
<1>2. \/ F!End(w) /\ UNCHANGED <<lock, why>>
      \/ F!End(w) /\ why' = [why EXCEPT ![e] = ""] /\ UNCHANGED lock /\ into[e] = None
      \/ /\ e \in here /\ into[e] = None /\ found # {}
         /\ F!LockOwn(w, e) /\ task' = [task EXCEPT ![w] = r] /\ UNCHANGED why
  BY DEF F!Decide
<1>3. CASE /\ e \in here /\ into[e] = None /\ found # {}
           /\ F!LockOwn(w, e) /\ task' = [task EXCEPT ![w] = r] /\ UNCHANGED why
  <2>1. Decision(w, e, found)
    BY <1>1, <1>3 DEF Decision, F!LockOwn
  <2> QED
    BY <1>3, <2>1
<1> QED
  BY <1>1, <1>2, <1>3

LEMMA DecideKeeps ==
  ASSUME MergeInv, NEW w \in F!CrewMembers, F!Decide(w) PROVE MergeInv'
<1>1. CASE /\ F!End(w) /\ UNCHANGED lock
           /\ UNCHANGED <<crew, fresh, here, mail, into, proof, queue, command>>
           /\ \/ UNCHANGED why
              \/ into[task[w].email] = None /\ why' = [why EXCEPT ![task[w].email] = ""]
  <2>1. why' \in [F!Ids -> {"", "manual"} \cup F!Auto]
    BY <1>1 DEF MergeInv, ForestTypes
  <2>2. \A x \in F!Ids : into[x] # None => why'[x] = why[x]
    BY <1>1 DEF MergeInv, ForestTypes
  <2>3. F!EvidenceAgrees'
    BY <1>1, <2>2, EvidenceStays DEF MergeInv, ForestTypes
  <2> QED
    BY <1>1, <2>1, <2>3, EndKeeps DEF MergeInv, ForestTypes, Held
<1>2. ASSUME NEW e, NEW found, NEW r, Decision(w, e, found), task' = [task EXCEPT ![w] = r],
             LET heads == F!HeadsOf(e, found)
                 manual == {c \in DOMAIN heads : heads[c] \in Manuals}
             IN r = [pc |-> IF manual = {} THEN "absorb" ELSE "link", email |-> e,
                     heads |-> heads, moved |-> {},
                     target |-> IF manual = {} THEN None ELSE heads[F!First(manual)],
                     proof |-> F!EvidenceFor(e, found)]
      PROVE  MergeInv'
  <2> DEFINE heads == F!HeadsOf(e, found)
             manual == {c \in DOMAIN heads : heads[c] \in Manuals}
             W == {F!HeadOf(c) : c \in found}
  <2>1. e \in F!Ids /\ found \subseteq F!Ids /\ found # {} /\ e \in F!Ids \ fresh
    BY <1>2 DEF Decision, MergeInv, ForestTypes
  <2>2. /\ heads \in Heads(W)
        /\ \A c \in DOMAIN heads : heads[c] # e /\ heads[c] \in W
    <3>1. /\ heads \in Heads(W)
          /\ \A c \in DOMAIN heads : c \in found /\ heads[c] = F!HeadOf(c) /\ F!HeadOf(c) # e
      BY <2>1, HeadsAreOthers
    <3> QED
      BY <3>1
  <2>3. DOMAIN heads \subseteq F!Ids
    BY <2>2 DEF Heads
  <2> HIDE DEF heads
  <2>4. manual # {} => F!First(manual) \in DOMAIN heads
    <3>1. manual \in SUBSET F!Ids /\ manual \subseteq DOMAIN heads
      BY <2>3
    <3> HIDE DEF manual
    <3> QED
      BY <3>1, FirstIsIn DEF MergeInv, ForestTypes
  <2>5. F!EvidenceFor(e, found) \in Evidence /\ F!Agrees(F!EvidenceFor(e, found))
    BY <2>1, EvidenceIsGood DEF MergeInv, ForestTypes
  <2>6. r = [pc |-> IF manual = {} THEN "absorb" ELSE "link", email |-> e,
             heads |-> heads, moved |-> {},
             target |-> IF manual = {} THEN None ELSE heads[F!First(manual)],
             proof |-> F!EvidenceFor(e, found)]
    BY <1>2 DEF heads
  <2> HIDE DEF manual, W
  <2>7. r \in Tasks(W)
    BY <2>1, <2>2, <2>4, <2>5, <2>6 DEF Tasks
  <2>8. TasksAre' /\ task'[w] = r /\ \A v \in F!CrewMembers \ {w} : task'[v] = task[v]
    BY <1>2, <2>7, SetTask DEF MergeInv, ForestTypes, TasksAre
  <2>9. ForestTypes'
    BY <1>2, <2>1, <2>8 DEF MergeInv, ForestTypes, TasksAre, Decision
  <2>10. OneEach'
    BY <1>2, <2>6, <2>8 DEF MergeInv, OneEach, Decision
  <2>11. lock'[e] = w /\ \A x \in F!Ids \ {e} : lock'[x] = lock[x]
    BY <1>2, <2>1 DEF Decision, MergeInv, ForestTypes
  <2>12. ASSUME NEW v \in F!CrewMembers \ {w} PROVE Held(v)'
    <3>1. here \subseteq F!Ids /\ Held(v)
      BY DEF MergeInv, ForestTypes
    <3>2. lock[e] # v
      BY <1>2, ForestConstants DEF Decision, F!Free
    <3>3. Deciding(v) => task[v].email \in here /\ into[task[v].email] = None
                         /\ lock[task[v].email] = v
      BY <3>1 DEF Held
    <3>4. task[v].pc = "absorb" => \A h \in task[v].moved : h \in here /\ lock[h] = v
      BY <3>1 DEF Held
    <3>5. UNCHANGED <<crew, fresh, here, into>> /\ task'[v] = task[v]
      BY <1>2, <2>8 DEF Decision
    <3> QED
      BY <2>11, <3>1, <3>2, <3>3, <3>4, <3>5, HeldStays
  <2>13. Held(w)'
    <3>1. w \in crew
      BY <1>2 DEF MergeInv, Held, Decision
    <3>2. r.pc = "link" => r.target # e
      BY <2>2, <2>4, <2>6
    <3>3. /\ r.email = e /\ r.moved = {} /\ r.heads = heads
          /\ r.proof \in Evidence /\ F!Agrees(r.proof)
      BY <2>5, <2>6
    <3>4. F!Agrees(r.proof)'
      BY <1>2, <2>8, <3>3 DEF F!Agrees
    <3>5. e \in here' /\ into'[e] = None /\ UNCHANGED <<crew, fresh>>
      BY <1>2 DEF Decision
    <3>6. task'[w] = r
      BY <2>8
    <3> HIDE DEF heads
    <3> QED
      BY <2>1, <2>2, <2>11, <3>1, <3>2, <3>3, <3>4, <3>5, <3>6 DEF Held, Deciding, F!Agrees
  <2>14. F!EvidenceAgrees'
    BY <1>2 DEF MergeInv, F!EvidenceAgrees, F!Agrees, Decision
  <2> QED
    BY <2>9, <2>10, <2>12, <2>13, <2>14 DEF MergeInv
<1> QED
  BY <1>1, <1>2, DecideEffect

LEMMA ManualMergeKeeps ==
  ASSUME MergeInv, NEW S \in SUBSET here, fresh # {}, F!Unlocked(S), F!ManualMerge(S),
         UNCHANGED <<crew, lock, task>>, command' \subseteq F!Ids
  PROVE  MergeInv'
<1>1. PICK n \in fresh : n = F!NewId
  BY NewIdIsFresh DEF MergeInv, ForestTypes
<1>2. n \in F!Ids /\ n \notin here /\ here \subseteq F!Ids /\ n # None
  BY <1>1, ForestConstants DEF MergeInv, ForestTypes
<1>3. /\ fresh' = fresh \ {n} /\ here' = here \cup {n}
      /\ mail' = [mail EXCEPT ![n] = F!Merged(S)]
      /\ into' = [e \in F!Ids |-> IF e \in S THEN n ELSE into[e]]
      /\ why' = [e \in F!Ids |-> IF e \in S THEN "manual" ELSE why[e]]
      /\ proof' = proof /\ queue' = queue \cup {n}
  BY <1>1 DEF F!ManualMerge
<1>4. mail' = [e \in F!Ids |-> mail'[e]] /\ \A e \in F!Ids : mail'[e].day \in Nat
  <2>1. F!Merged(S).day \in Nat
    BY DEF F!Merged
  <2>2. mail = [e \in F!Ids |-> mail[e]] /\ \A e \in F!Ids : mail[e].day \in Nat
    BY DEF MergeInv, ForestTypes
  <2> QED
    BY <1>2, <1>3, <2>1, <2>2
<1>5. ForestTypes'
  BY <1>2, <1>3, <1>4 DEF MergeInv, ForestTypes
<1>6. OneEach'
  BY DEF MergeInv, OneEach
<1>7. ASSUME NEW v \in F!CrewMembers PROVE Held(v)'
  <2>1. Held(v)
    BY DEF MergeInv
  <2>2. Deciding(v) => /\ task[v].email \in here /\ into[task[v].email] = None
                       /\ lock[task[v].email] = v
    BY <2>1 DEF Held
  <2>3. Deciding(v) => into'[task[v].email] = None
    BY <1>2, <1>3, <2>2, ForestConstants DEF F!Unlocked
  <2>4. task[v].pc = "absorb" => \A h \in task[v].moved : h \in here /\ lock[h] = v
    BY <2>1 DEF Held
  <2> QED
    BY <1>3, <2>1, <2>2, <2>3, <2>4, HeldStays
<1>8. F!EvidenceAgrees'
  <2>1. "manual" \notin F!Auto
    BY DEF F!Auto
  <2>2. here' \subseteq F!Ids
    BY <1>2, <1>3
  <2>3. \A e \in F!Ids : into'[e] # None =>
           \/ into[e] # None /\ why'[e] = why[e] /\ proof'[e] = proof[e]
           \/ why'[e] \notin F!Auto
    BY <1>3, <2>1
  <2> QED
    BY <2>2, <2>3, EvidenceStays DEF MergeInv
<1> QED
  BY <1>5, <1>6, <1>7, <1>8 DEF MergeInv

LEMMA BatchMergeKeeps ==
  ASSUME MergeInv, NEW S \in SUBSET here, F!BatchMerge(S) PROVE MergeInv'
BY ManualMergeKeeps DEF F!BatchMerge, MergeInv, ForestTypes

(* Steps that touch neither pointers nor tasks.                              *)
LEMMA OthersKeep ==
  ASSUME MergeInv, UNCHANGED <<crew, fresh, here, mail, into, why, proof, lock, task>>,
         queue' \subseteq F!Ids \ fresh, command' \subseteq F!Ids
  PROVE  MergeInv'
<1>1. ForestTypes' /\ OneEach'
  BY DEF MergeInv, ForestTypes, OneEach
<1>2. \A v \in F!CrewMembers : Held(v)'
  BY DEF MergeInv, Held, Deciding, F!Agrees
<1>3. F!EvidenceAgrees'
  BY DEF MergeInv, F!EvidenceAgrees, F!Agrees
<1> QED
  BY <1>1, <1>2, <1>3 DEF MergeInv

LEMMA CommandChecksKeeps ==
  ASSUME MergeInv, NEW S \in SUBSET here, F!CommandChecks(S) PROVE MergeInv'
BY OthersKeep DEF F!CommandChecks, F!rows, F!texts, MergeInv, ForestTypes

LEMMA CommandMergesKeeps == ASSUME MergeInv, F!CommandMerges PROVE MergeInv'
<1>1. CASE command \subseteq here /\ fresh # {}
  <2>1. F!ManualMerge(command) /\ F!Unlocked(command)
    BY <1>1 DEF F!CommandMerges, F!Unlocked
  <2>2. UNCHANGED <<crew, lock, task>> /\ command' \subseteq F!Ids
    BY DEF F!CommandMerges
  <2> QED
    BY <1>1, <2>1, <2>2, ManualMergeKeeps
<1>2. CASE ~(command \subseteq here /\ fresh # {})
  BY <1>2, OthersKeep DEF F!CommandMerges, F!rows, F!texts, MergeInv, ForestTypes
<1> QED
  BY <1>1, <1>2

LEMMA DeleteEmailKeeps == ASSUME MergeInv, NEW e \in here, F!DeleteEmail(e) PROVE MergeInv'
<1>0. /\ e \in F!Ids /\ here \subseteq F!Ids /\ lock[e] = None
      /\ UNCHANGED <<crew, fresh, mail, lock, queue, task, command>>
  BY DEF F!DeleteEmail, F!Unlocked, F!texts, MergeInv, ForestTypes
<1>1. /\ here' = here \ {e}
      /\ into' = [c \in F!Ids |-> IF c = e \/ into[c] = e THEN None ELSE into[c]]
      /\ why' = [why EXCEPT ![e] = ""] /\ proof' = [proof EXCEPT ![e] = None]
  <2>1. \A c \in F!Ids : c \in F!Orphans(e) <=> into[c] = e
    BY <1>0, ForestConstants DEF F!Orphans, F!Children, MergeInv, ForestTypes
  <2> QED
    BY <2>1 DEF F!DeleteEmail
<1>2. ForestTypes' /\ OneEach'
  BY <1>0, <1>1 DEF MergeInv, ForestTypes, OneEach
<1>3. ASSUME NEW v \in F!CrewMembers PROVE Held(v)'
  <2>1. Held(v)
    BY DEF MergeInv
  <2>2. Deciding(v) => /\ task[v].email \in here /\ into[task[v].email] = None
                       /\ lock[task[v].email] = v
    BY <2>1 DEF Held
  <2>3. Deciding(v) => task[v].email \in here' /\ into'[task[v].email] = None
    BY <1>0, <1>1, <2>2, ForestConstants
  <2>4. task[v].pc = "absorb" => \A h \in task[v].moved : h \in here' /\ lock[h] = v
    BY <1>0, <1>1, <2>1, ForestConstants DEF Held
  <2> QED
    BY <1>0, <2>1, <2>2, <2>3, <2>4, HeldStays
<1>4. \A c \in F!Ids : into'[c] # None =>
        into[c] # None /\ why'[c] = why[c] /\ proof'[c] = proof[c]
  BY <1>0, <1>1 DEF MergeInv, ForestTypes
<1>5. F!EvidenceAgrees'
  BY <1>0, <1>1, <1>4, EvidenceStays DEF MergeInv
<1> QED
  BY <1>2, <1>3, <1>5 DEF MergeInv

LEMMA RetryEmailKeeps == ASSUME MergeInv, NEW e \in here, F!RetryEmail(e) PROVE MergeInv'
<1>1. e \in F!Ids \ fresh /\ (into[e] # None => into[e] \in F!Ids \ fresh)
  BY DEF MergeInv, ForestTypes
<1>2. queue' \subseteq F!Ids \ fresh /\ UNCHANGED fresh
  BY <1>1 DEF F!RetryEmail, F!rows, F!texts, MergeInv, ForestTypes
<1> QED
  BY <1>2, OthersKeep DEF F!RetryEmail, F!rows, F!texts, MergeInv, ForestTypes

LEMMA MergeStep == ASSUME MergeInv, [F!Next]_(F!vars) PROVE MergeInv'
<1>1. CASE UNCHANGED F!vars
  BY <1>1, OthersKeep DEF F!vars, MergeInv, ForestTypes
<1>2. ASSUME NEW w \in F!CrewMembers, F!TaskStep(w) PROVE MergeInv'
  BY <1>2, TaskStartKeeps, DecideKeeps, LinkKeeps, AbsorbNextKeeps, AbsorbDoneKeeps,
     RolledBackKeeps DEF F!TaskStep
<1> QED
  BY <1>1, <1>2, BatchMergeKeeps, CommandChecksKeeps, CommandMergesKeeps,
     DeleteEmailKeeps, RetryEmailKeeps DEF F!Next

LEMMA MergeHolds == F!Spec => []MergeInv
<1>1. MergeInv /\ [F!Next]_(F!vars) => MergeInv'
  BY MergeStep
<1> QED
  BY MergeStart, <1>1, PTL DEF F!Spec

(* Whatever tasks, merges and deletions overlap, the evidence kept for an    *)
(* automatic merge agrees with its reason (_primary_source,                  *)
(* _collect_evidence, _mark_source_as_merged).                               *)
THEOREM EvidenceIsTrue == F!Spec => []EvidenceAgrees
<1>1. MergeInv => EvidenceAgrees
  BY DEF MergeInv, EvidenceAgrees
<1> QED
  BY <1>1, MergeHolds, PTL
-----------------------------------------------------------------------------
(* Pointers: from every set of emails one of them points out of the set.     *)
Rooted == \A S \in SUBSET F!Ids : S # {} => \E e \in S : into[e] \notin S
ApartFrom(w) ==
  task[w].pc = "link" =>
    task[w].target \in F!Ids /\ task[w].email \notin F!Above(task[w].target)
Known(w, v) ==
  task[w].pc = "link" /\ task[v].pc # "idle" /\ task[v].email \in F!Above(task[w].target) =>
    task[v].email = task[w].target
Forest ==
  /\ Rooted
  /\ \A w \in F!CrewMembers : ApartFrom(w)
  /\ \A w, v \in F!CrewMembers : w # v => Known(w, v)
Few == Cardinality(crew) <= 2
ForestInv == Few => Forest

LEMMA AboveIsUpward ==
  ASSUME ForestTypes, NEW e \in F!Ids
  PROVE  /\ e \in F!Above(e) /\ F!Above(e) \subseteq F!Ids /\ F!Upward(F!Above(e))
         /\ \A S \in SUBSET F!Ids : e \in S /\ F!Upward(S) => F!Above(e) \subseteq S
<1>1. \A x \in F!Ids : into[x] \in F!Ids \cup {None}
  BY DEF ForestTypes
<1>2. e \in F!Above(e) /\ F!Above(e) \subseteq F!Ids
  BY DEF F!Above
<1>3. ASSUME NEW x \in F!Above(e), into[x] # None PROVE into[x] \in F!Above(e)
  <2>1. x \in F!Ids /\ into[x] \in F!Ids
    BY <1>1, <1>2, <1>3
  <2>2. ASSUME NEW S \in SUBSET F!Ids, e \in S, F!Upward(S) PROVE into[x] \in S
    <3>1. x \in S
      BY <1>3, <2>2 DEF F!Above
    <3> QED
      BY <1>3, <2>2, <3>1 DEF F!Upward
  <2> QED
    BY <2>1, <2>2 DEF F!Above
<1>4. F!Upward(F!Above(e))
  BY <1>3 DEF F!Upward
<1>5. ASSUME NEW S \in SUBSET F!Ids, e \in S, F!Upward(S) PROVE F!Above(e) \subseteq S
  BY <1>5 DEF F!Above
<1> QED
  BY <1>2, <1>4, <1>5

(* What the next walk can meet at most.                                      *)
LEMMA AboveNext ==
  ASSUME NEW e, NEW S \in SUBSET F!Ids, e \in S,
         \A x \in S : into'[x] \in S \cup {None}
  PROVE  F!Above(e)' \subseteq S
BY DEF F!Above, F!Upward

LEMMA AboveRoot ==
  ASSUME ForestTypes, NEW e \in F!Ids, into[e] = None PROVE F!Above(e) = {e}
<1>1. F!Upward({e})
  BY DEF F!Upward
<1> QED
  BY <1>1, AboveIsUpward

LEMMA HeadIsRoot ==
  ASSUME ForestTypes, Rooted, NEW e \in F!Ids
  PROVE  F!HeadOf(e) \in F!Above(e) /\ F!HeadOf(e) \in F!Ids /\ into[F!HeadOf(e)] = None
<1>1. PICK r \in F!Above(e) : into[r] \notin F!Above(e)
  BY AboveIsUpward DEF Rooted
<1>2. into[r] = None
  BY <1>1, AboveIsUpward DEF F!Upward
<1>3. ASSUME NEW x \in F!Ids PROVE ~F!OnCircle(x)
  <2> SUFFICES ASSUME F!OnCircle(x) PROVE FALSE
    OBVIOUS
  <2>1. into[x] # None /\ into[x] \in F!Ids /\ x \in F!Above(into[x])
    BY DEF F!OnCircle, ForestTypes
  <2> DEFINE T == {y \in F!Above(into[x]) : x \in F!Above(y)}
  <2>2. /\ F!Above(into[x]) \subseteq F!Ids /\ F!Upward(F!Above(into[x]))
        /\ into[x] \in F!Above(into[x])
    BY <2>1, AboveIsUpward
  <2>3. x \in T /\ into[x] \in T
    BY <2>1, <2>2, AboveIsUpward
  <2>4. PICK y \in T : into[y] \notin T
    BY <2>2, <2>3 DEF Rooted
  <2>5. y \in F!Ids /\ y # x /\ x \in F!Above(y)
    BY <2>2, <2>3, <2>4
  <2>6. into[y] # None
    BY <2>5, AboveRoot
  <2>7. into[y] \in F!Above(into[x]) /\ into[y] \in F!Ids
    BY <2>2, <2>4, <2>6 DEF F!Upward
  <2>8. x \in F!Above(into[y])
    <3> DEFINE S == {y} \cup F!Above(into[y])
    <3>1. /\ into[y] \in F!Above(into[y]) /\ F!Above(into[y]) \subseteq F!Ids
          /\ F!Upward(F!Above(into[y]))
      BY <2>7, AboveIsUpward
    <3>2. S \in SUBSET F!Ids /\ y \in S /\ F!Upward(S)
      BY <2>5, <3>1 DEF F!Upward
    <3>3. F!Above(y) \subseteq S
      BY <2>5, <3>2, AboveIsUpward
    <3> QED
      BY <2>5, <3>3
  <2> QED
    BY <2>4, <2>7, <2>8
<1>4. CASE into[e] = None
  BY <1>4, AboveIsUpward DEF F!HeadOf
<1>5. CASE into[e] # None
  <2> DEFINE Ends(x) ==
        \/ into[x] = None
        \/ /\ F!OnCircle(x)
           /\ x = e \/ \E y \in F!Above(e) : into[y] = x /\ ~F!OnCircle(y)
  <2>1. F!HeadOf(e) = CHOOSE x \in F!Above(e) : Ends(x)
    BY <1>5 DEF F!HeadOf
  <2>2. Ends(r)
    BY <1>2
  <2> HIDE DEF Ends
  <2>3. F!HeadOf(e) \in F!Above(e) /\ Ends(F!HeadOf(e))
    BY <1>1, <2>1, <2>2
  <2>4. F!HeadOf(e) \in F!Ids
    BY <2>3, AboveIsUpward
  <2> QED
    BY <1>3, <2>3, <2>4 DEF Ends
<1> QED
  BY <1>4, <1>5

(* Of a crew of two at most, one other can be at work.                       *)
LEMMA NoThird ==
  ASSUME ForestTypes, Few, NEW w \in crew, NEW v \in crew, NEW u \in crew, w # v, u # w
  PROVE  u = v
<1> SUFFICES ASSUME u # v PROVE FALSE
  OBVIOUS
<1>1. IsFiniteSet(crew) /\ {w, v, u} \subseteq crew
  BY DEF ForestTypes
<1>2. /\ IsFiniteSet({w}) /\ Cardinality({w}) = 1
  BY FS_Singleton
<1> DEFINE T == {w} \cup {v}
<1>3. IsFiniteSet(T) /\ Cardinality(T) = 2 /\ u \notin T
  <2>1. v \notin {w} /\ u \notin T
    OBVIOUS
  <2>2. IsFiniteSet(T) /\ Cardinality(T) = 1 + 1
    BY <1>2, <2>1, FS_AddElement
  <2> HIDE DEF T
  <2> QED
    BY <2>1, <2>2
<1>4. T \cup {u} = {w, v, u}
  OBVIOUS
<1> HIDE DEF T
<1>5. Cardinality(T \cup {u}) = Cardinality(T) + 1
  BY <1>3, FS_AddElement
<1>6. Cardinality(T \cup {u}) <= Cardinality(crew) /\ Cardinality(crew) \in Nat
  BY <1>1, <1>4, FS_Subset, FS_CardinalityType
<1>7. Cardinality(crew) <= 2
  BY DEF Few
<1> QED
  BY <1>3, <1>5, <1>6, <1>7

(* Steps after which no task has more in hand than before ...                *)
NoMore ==
  \A w \in F!CrewMembers :
    /\ task'[w].pc # "idle" => task[w].pc # "idle" /\ task'[w].email = task[w].email
    /\ task'[w].pc = "link" => task[w].pc = "link" /\ task'[w].target = task[w].target

(* ... and that cut pointers, if anything, or turn them to one root.         *)
LEMMA Loosened ==
  ASSUME ForestTypes, Forest, NoMore, \A x \in F!Ids : into'[x] \in {into[x], None}
  PROVE  Forest'
<1>1. Rooted'
  BY ForestConstants DEF Forest, Rooted
<1>2. ASSUME NEW m \in F!Ids PROVE F!Above(m)' \subseteq F!Above(m)
  <2>1. F!Above(m) \in SUBSET F!Ids /\ m \in F!Above(m) /\ F!Upward(F!Above(m))
    BY AboveIsUpward
  <2>2. \A x \in F!Above(m) : into'[x] \in F!Above(m) \cup {None}
    BY <2>1 DEF F!Upward
  <2> QED
    BY <2>1, <2>2, AboveNext
<1>3. \A w \in F!CrewMembers : ApartFrom(w)'
  BY <1>2 DEF Forest, ApartFrom, NoMore
<1>4. \A w, v \in F!CrewMembers : w # v => Known(w, v)'
  BY <1>2 DEF Forest, ApartFrom, Known, NoMore
<1> QED
  BY <1>1, <1>3, <1>4 DEF Forest

LEMMA TurnedToRoot ==
  ASSUME ForestTypes, Forest, NoMore, NEW n \in F!Ids, into[n] = None, into'[n] = None,
         \A x \in F!Ids : into'[x] \in {into[x], n},
         \A w \in F!CrewMembers : task'[w].pc # "idle" => task'[w].email # n
  PROVE  Forest'
<1>1. Rooted'
  <2> SUFFICES ASSUME NEW S \in SUBSET F!Ids, S # {} PROVE \E e \in S : into'[e] \notin S
    BY DEF Rooted
  <2>1. CASE n \in S
    BY <2>1, ForestConstants
  <2>2. CASE n \notin S
    <3>1. PICK e \in S : into[e] \notin S
      BY DEF Forest, Rooted
    <3> QED
      BY <2>2, <3>1
  <2> QED
    BY <2>1, <2>2
<1>2. ASSUME NEW m \in F!Ids PROVE F!Above(m)' \subseteq F!Above(m) \cup {n}
  <2>1. F!Above(m) \in SUBSET F!Ids /\ m \in F!Above(m) /\ F!Upward(F!Above(m))
    BY AboveIsUpward
  <2>2. PICK S \in SUBSET F!Ids : S = F!Above(m) \cup {n}
    BY <2>1
  <2>3. m \in S /\ \A x \in S : into'[x] \in S \cup {None}
    BY <2>1, <2>2 DEF F!Upward
  <2> QED
    BY <2>2, <2>3, AboveNext
<1>3. \A w \in F!CrewMembers : ApartFrom(w)'
  BY <1>2 DEF Forest, ApartFrom, NoMore
<1>4. \A w, v \in F!CrewMembers : w # v => Known(w, v)'
  BY <1>2 DEF Forest, ApartFrom, Known, NoMore
<1> QED
  BY <1>1, <1>3, <1>4 DEF Forest

LEMMA TaskStartForest ==
  ASSUME MergeInv, Forest, NEW w \in F!CrewMembers, NEW e \in queue, F!TaskStart(w, e) PROVE Forest'
<1> DEFINE r == [F!Idle EXCEPT !.pc = "own", !.email = e]
<1>1. UNCHANGED into /\ task[w] = F!Idle /\ e \in F!Ids
  BY DEF F!TaskStart, F!rows, MergeInv, ForestTypes
<1>2. CASE UNCHANGED task
  BY <1>1, <1>2, Loosened DEF MergeInv, NoMore
<1>3. CASE F!Children(e) = {} /\ task' = [task EXCEPT ![w] = r]
  <2>1. r \in Tasks({}) /\ r.pc = "own" /\ r.email = e
    BY <1>1, IdleTask DEF Tasks
  <2> HIDE DEF r
  <2>2. TasksAre' /\ task'[w] = r /\ \A v \in F!CrewMembers \ {w} : task'[v] = task[v]
    BY <1>3, <2>1, SetTask DEF MergeInv, ForestTypes, TasksAre
  <2>3. \A m : F!Above(m)' = F!Above(m)
    BY <1>1 DEF F!Above, F!Upward
  <2>4. \A x \in F!Ids : into[x] # e
    <3>1. \A x \in F!Ids : into[x] # None => x \in here
      BY DEF MergeInv, ForestTypes
    <3>2. e # None
      BY <1>1, ForestConstants
    <3> QED
      BY <1>3, <3>1, <3>2 DEF F!Children
  <2>5. ASSUME NEW m \in F!Ids, e \in F!Above(m) PROVE e = m
    <3> SUFFICES ASSUME e # m PROVE FALSE
      OBVIOUS
    <3> DEFINE S == F!Above(m) \ {e}
    <3>1. F!Above(m) \in SUBSET F!Ids /\ m \in F!Above(m) /\ F!Upward(F!Above(m))
      BY AboveIsUpward DEF MergeInv
    <3>2. S \in SUBSET F!Ids /\ m \in S /\ F!Upward(S)
      BY <2>4, <3>1 DEF F!Upward
    <3>3. F!Above(m) \subseteq S
      BY <3>2, AboveIsUpward DEF MergeInv
    <3> QED
      BY <2>5, <3>3
  <2>6. Rooted'
    BY <1>1 DEF Forest, Rooted
  <2>7. \A v \in F!CrewMembers : ApartFrom(v)'
    BY <2>1, <2>2, <2>3 DEF Forest, ApartFrom
  <2>8. ASSUME NEW u \in F!CrewMembers, NEW v \in F!CrewMembers, u # v PROVE Known(u, v)'
    <3>1. CASE v = w
      BY <2>1, <2>2, <2>3, <2>5, <2>8, <3>1 DEF Known, Forest, ApartFrom
    <3>2. CASE v # w
      BY <2>1, <2>2, <2>3, <2>8, <3>2 DEF Known, Forest
    <3> QED
      BY <3>1, <3>2
  <2> QED
    BY <2>6, <2>7, <2>8 DEF Forest
<1> QED
  BY <1>2, <1>3 DEF F!TaskStart

LEMMA LinkForest ==
  ASSUME MergeInv, Few, Forest, NEW w \in F!CrewMembers, F!Link(w) PROVE Forest'
<1> DEFINE e == task[w].email
           m == task[w].target
<1>1. /\ Deciding(w) /\ task[w].pc = "link"
      /\ F!Marked({e}, m, task[w].proof, why) /\ F!End(w) /\ F!Free(m, w)
  BY DEF F!Link, Deciding
<1>2. e \in F!Ids /\ lock[e] = w /\ into[e] = None /\ w \in crew
  BY <1>1, DeciderHolds
<1>3. m \in F!Ids /\ e \notin F!Above(m)
  BY <1>1 DEF Forest, ApartFrom
<1>4. task'[w] = F!Idle /\ \A v \in F!CrewMembers \ {w} : task'[v] = task[v]
  BY <1>1, IdleTask, SetTask DEF F!End, MergeInv, ForestTypes, TasksAre
<1>5. into'[e] = m /\ \A x \in F!Ids \ {e} : into'[x] = into[x]
  BY <1>1, <1>2 DEF F!Marked
<1>6. Rooted'
  <2> SUFFICES ASSUME NEW S \in SUBSET F!Ids, S # {}, \A x \in S : into'[x] \in S PROVE FALSE
    BY DEF Rooted
  <2>1. e \in S
    BY <1>5 DEF Forest, Rooted
  <2> DEFINE T == F!Above(m) \cap S
  <2>2. F!Above(m) \in SUBSET F!Ids /\ m \in F!Above(m) /\ F!Upward(F!Above(m))
    BY <1>3, AboveIsUpward DEF MergeInv
  <2>3. T # {} /\ T \in SUBSET F!Ids
    BY <1>5, <2>1, <2>2
  <2>4. PICK x \in T : into[x] \notin T
    BY <2>3 DEF Forest, Rooted
  <2>5. x # e /\ into'[x] = into[x] /\ into[x] \in S
    BY <1>3, <1>5, <2>4
  <2>6. into[x] \in F!Above(m)
    BY <2>2, <2>4, <2>5, ForestConstants DEF F!Upward
  <2> QED
    BY <2>4, <2>5, <2>6
<1>7. ASSUME NEW q \in F!Ids
      PROVE  F!Above(q)' \subseteq IF e \in F!Above(q) THEN F!Above(q) \cup F!Above(m)
                                   ELSE F!Above(q)
  <2>1. /\ F!Above(q) \in SUBSET F!Ids /\ q \in F!Above(q) /\ F!Upward(F!Above(q))
        /\ F!Above(m) \in SUBSET F!Ids /\ m \in F!Above(m) /\ F!Upward(F!Above(m))
    BY <1>3, AboveIsUpward DEF MergeInv
  <2>2. CASE e \in F!Above(q)
    <3>1. \A x \in F!Above(q) \cup F!Above(m) :
            into'[x] \in (F!Above(q) \cup F!Above(m)) \cup {None}
      BY <1>5, <2>1 DEF F!Upward
    <3>2. PICK S \in SUBSET F!Ids : S = F!Above(q) \cup F!Above(m)
      BY <2>1
    <3>3. F!Above(q)' \subseteq S
      BY <2>1, <3>1, <3>2, AboveNext
    <3> QED
      BY <2>2, <3>2, <3>3
  <2>3. CASE e \notin F!Above(q)
    <3>1. \A x \in F!Above(q) : into'[x] \in F!Above(q) \cup {None}
      BY <1>5, <2>1, <2>3 DEF F!Upward
    <3> QED
      BY <2>1, <2>3, <3>1, AboveNext
  <2> QED
    BY <2>2, <2>3
<1>8. ASSUME NEW v \in F!CrewMembers PROVE ApartFrom(v)'
  <2>0. PICK y, q : y = task[v].email /\ q = task[v].target
    OBVIOUS
  <2>1. CASE v = w
    BY <1>4, <2>1, IdleTask DEF ApartFrom
  <2>2. CASE v # w /\ task[v].pc = "link"
    <3>1. q \in F!Ids /\ y \notin F!Above(q) /\ Known(v, w) /\ Known(w, v)
      BY <2>0, <2>2 DEF Forest, ApartFrom
    <3>2. y \in here /\ y \in F!Ids /\ lock[y] = v
      BY <2>0, <2>2, DeciderHolds DEF Deciding
    <3>3. y \notin F!Above(q)'
      <4> SUFFICES ASSUME y \in F!Above(q)' PROVE FALSE
        OBVIOUS
      <4>1. e \in F!Above(q) /\ y \in F!Above(m)
        BY <1>7, <3>1
      <4>2. y = m
        BY <1>1, <2>0, <2>2, <3>1, <4>1 DEF Known
      <4>3. lock[m] \in {None, w}
        BY <1>1 DEF F!Free
      <4> QED
        BY <2>2, <3>2, <4>2, <4>3, ForestConstants
    <3> QED
      BY <1>4, <2>0, <2>2, <3>1, <3>3 DEF ApartFrom
  <2> QED
    BY <1>4, <2>1, <2>2 DEF ApartFrom
<1>9. ASSUME NEW u \in F!CrewMembers, NEW v \in F!CrewMembers, u # v PROVE Known(u, v)'
  <2> SUFFICES ASSUME task'[u].pc = "link", task'[v].pc # "idle" PROVE FALSE
    BY DEF Known
  <2>1. u # w /\ v # w
    BY <1>4, IdleTask
  <2>2. u \in crew /\ v \in crew
    BY <1>4, <2>1 DEF MergeInv, Held
  <2> QED
    BY <1>2, <1>9, <2>1, <2>2, NoThird DEF MergeInv
<1> QED
  BY <1>6, <1>8, <1>9 DEF Forest

LEMMA DecideForest ==
  ASSUME MergeInv, Forest, NEW w \in F!CrewMembers, F!Decide(w) PROVE Forest'
<1>1. CASE F!End(w) /\ UNCHANGED into
  <2>1. task'[w] = F!Idle /\ \A v \in F!CrewMembers \ {w} : task'[v] = task[v]
    BY <1>1, IdleTask, SetTask DEF F!End, MergeInv, ForestTypes, TasksAre
  <2> QED
    BY <1>1, <2>1, IdleTask, Loosened DEF MergeInv, ForestTypes, NoMore
<1>2. ASSUME NEW e, NEW found, NEW r, Decision(w, e, found), task' = [task EXCEPT ![w] = r],
             LET heads == F!HeadsOf(e, found)
                 manual == {c \in DOMAIN heads : heads[c] \in Manuals}
             IN r = [pc |-> IF manual = {} THEN "absorb" ELSE "link", email |-> e,
                     heads |-> heads, moved |-> {},
                     target |-> IF manual = {} THEN None ELSE heads[F!First(manual)],
                     proof |-> F!EvidenceFor(e, found)]
      PROVE  Forest'
  <2> DEFINE heads == F!HeadsOf(e, found)
             manual == {c \in DOMAIN heads : heads[c] \in Manuals}
  <2>1. /\ found \subseteq F!Ids /\ task[w].pc = "own" /\ task[w].email = e
        /\ into' = into
    BY <1>2 DEF Decision, MergeInv, ForestTypes
  <2>2. \A c \in DOMAIN heads :
          c \in F!Ids /\ heads[c] \in F!Ids /\ into[heads[c]] = None /\ heads[c] # e
    <3>1. \A c \in DOMAIN heads :
            c \in found /\ heads[c] = F!HeadOf(c) /\ F!HeadOf(c) # e
      <4>1. found \in SUBSET F!Ids
        BY <2>1
      <4> QED
        BY <4>1, HeadsAreOthers, Zenon
    <3> HIDE DEF heads
    <3>2. \A c \in F!Ids : F!HeadOf(c) \in F!Ids /\ into[F!HeadOf(c)] = None
      BY HeadIsRoot DEF MergeInv, Forest
    <3> QED
      BY <2>1, <3>1, <3>2
  <2> HIDE DEF heads
  <2>3. manual # {} => F!First(manual) \in DOMAIN heads
    <3>1. manual \in SUBSET F!Ids /\ manual \subseteq DOMAIN heads
      BY <2>2
    <3> HIDE DEF manual
    <3> QED
      BY <3>1, FirstIsIn DEF MergeInv, ForestTypes
  <2>4. r.email = e /\ r.pc \in {"link", "absorb"}
        /\ (r.pc = "link" => manual # {} /\ r.target = heads[F!First(manual)])
    BY <1>2 DEF heads
  <2> HIDE DEF manual
  <2>5. r.pc = "link" =>
          r.target \in F!Ids /\ F!Above(r.target) = {r.target} /\ r.target # e
    BY <2>2, <2>3, <2>4, AboveRoot DEF MergeInv
  <2>6. task'[w] = r /\ \A v \in F!CrewMembers \ {w} : task'[v] = task[v]
    BY <1>2 DEF MergeInv, ForestTypes
  <2>7. \A m : F!Above(m)' = F!Above(m)
    BY <2>1 DEF F!Above, F!Upward
  <2>8. Rooted'
    BY <2>1 DEF Forest, Rooted
  <2>9. ASSUME NEW v \in F!CrewMembers PROVE ApartFrom(v)'
    <3>1. CASE v = w
      BY <2>4, <2>5, <2>6, <2>7, <3>1 DEF ApartFrom
    <3>2. CASE v # w
      BY <2>6, <2>7, <3>2 DEF ApartFrom, Forest
    <3> QED
      BY <3>1, <3>2
  <2>10. ASSUME NEW u \in F!CrewMembers, NEW v \in F!CrewMembers, u # v PROVE Known(u, v)'
    <3>1. CASE u = w
      BY <2>5, <2>6, <2>7, <3>1, <2>10 DEF Known
    <3>2. CASE v = w
      BY <2>1, <2>4, <2>6, <2>7, <2>10, <3>2 DEF Known, Forest
    <3>3. CASE u # w /\ v # w
      BY <2>6, <2>7, <2>10, <3>3 DEF Known, Forest
    <3> QED
      BY <3>1, <3>2, <3>3
  <2> QED
    BY <2>8, <2>9, <2>10 DEF Forest
<1> QED
  BY <1>1, <1>2, DecideEffect

LEMMA AbsorbDoneForest ==
  ASSUME MergeInv, Forest, NEW w \in F!CrewMembers, F!AbsorbDone(w) PROVE Forest'
<1>1. PICK e : e = task[w].email
  OBVIOUS
<1>2. /\ Deciding(w) /\ F!End(w)
      /\ F!Marked(task[w].moved, e, task[w].proof, [why EXCEPT ![e] = ""])
  BY <1>1 DEF F!AbsorbDone, Deciding
<1>3. e \in F!Ids /\ into[e] = None /\ e \notin task[w].moved
  BY <1>1, <1>2, DeciderHolds DEF MergeInv, Held, F!AbsorbDone
<1>4. into'[e] = None /\ \A x \in F!Ids : into'[x] \in {into[x], e}
  BY <1>2, <1>3 DEF F!Marked
<1>5. task'[w] = F!Idle /\ \A v \in F!CrewMembers \ {w} : task'[v] = task[v]
  BY <1>2, IdleTask, SetTask DEF F!End, MergeInv, ForestTypes, TasksAre
<1>6. NoMore
  BY <1>5, IdleTask DEF NoMore
<1>7. \A v \in F!CrewMembers : task'[v].pc # "idle" => task'[v].email # e
  BY <1>1, <1>2, <1>5, IdleTask DEF MergeInv, OneEach, Deciding
<1> QED
  BY <1>3, <1>4, <1>6, <1>7, TurnedToRoot DEF MergeInv

LEMMA ManualMergeForest ==
  ASSUME MergeInv, Forest, NEW S \in SUBSET here, fresh # {}, F!ManualMerge(S), UNCHANGED task
  PROVE  Forest'
<1>1. PICK n \in fresh : n = F!NewId
  BY NewIdIsFresh DEF MergeInv, ForestTypes
<1>2. n \in F!Ids /\ n \notin here /\ into[n] = None
  BY <1>1 DEF MergeInv, ForestTypes, F!Ids
<1>3. into'[n] = None /\ \A x \in F!Ids : into'[x] \in {into[x], n}
  BY <1>1, <1>2 DEF F!ManualMerge
<1>4. \A w \in F!CrewMembers : task'[w].pc # "idle" => task'[w].email # n
  BY <1>1 DEF MergeInv, Held
<1> QED
  BY <1>2, <1>3, <1>4, TurnedToRoot DEF MergeInv, NoMore

LEMMA DeleteEmailForest == ASSUME MergeInv, Forest, NEW e \in here, F!DeleteEmail(e) PROVE Forest'
BY Loosened DEF F!DeleteEmail, MergeInv, NoMore

LEMMA AbsorbNextForest ==
  ASSUME MergeInv, Forest, NEW w \in F!CrewMembers, F!AbsorbNext(w) PROVE Forest'
<1>1. PICK V : task \in [F!CrewMembers -> Tasks(V)]
  BY DEF MergeInv, ForestTypes
<1>2. task[w].pc = "absorb" /\ UNCHANGED into
  BY DEF F!AbsorbNext, F!rows
<1>3. PICK G, M : task' = [task EXCEPT ![w] = [task[w] EXCEPT !.heads = G, !.moved = M]]
  BY DEF F!AbsorbNext
<1>4. task'[w].pc = "absorb" /\ task'[w].email = task[w].email
      /\ \A v \in F!CrewMembers \ {w} : task'[v] = task[v]
  <2>1. PICK t \in Tasks(V) : t = task[w]
    BY <1>1
  <2>2. PICK r : r = [t EXCEPT !.heads = G, !.moved = M]
    OBVIOUS
  <2>3. r.pc = t.pc /\ r.email = t.email
    BY <2>2, MoveOn
  <2>4. task'[w] = r /\ \A v \in F!CrewMembers \ {w} : task'[v] = task[v]
    BY <1>1, <1>3, <2>1, <2>2
  <2> QED
    BY <1>2, <2>1, <2>3, <2>4
<1> QED
  BY <1>2, <1>4, Loosened DEF MergeInv, NoMore

LEMMA ForestStep == ASSUME MergeInv, ForestInv, [F!Next]_(F!vars) PROVE ForestInv'
<1>1. UNCHANGED crew
  BY DEF F!Next, F!vars, F!TaskStep, F!TaskStart, F!Decide, F!Link, F!AbsorbNext,
     F!AbsorbDone, F!RolledBack, F!BatchMerge, F!CommandChecks, F!CommandMerges,
     F!DeleteEmail, F!RetryEmail
<1> SUFFICES ASSUME Few, Forest PROVE Forest'
  BY <1>1 DEF ForestInv, Few
<1>2. ASSUME UNCHANGED <<into, task>> PROVE Forest'
  BY <1>2, Loosened DEF MergeInv, NoMore
<1>3. ASSUME NEW w \in F!CrewMembers, F!TaskStep(w) PROVE Forest'
  <2>1. ASSUME F!RolledBack(w) PROVE Forest'
    <3>1. task'[w] = F!Idle /\ \A v \in F!CrewMembers \ {w} : task'[v] = task[v]
      BY <2>1, IdleTask, SetTask DEF F!RolledBack, F!End, MergeInv, ForestTypes, TasksAre
    <3> QED
      BY <2>1, <3>1, IdleTask, Loosened DEF F!RolledBack, F!rows, MergeInv, NoMore
  <2> QED
    BY <1>3, <2>1, TaskStartForest, DecideForest, LinkForest, AbsorbNextForest,
       AbsorbDoneForest DEF F!TaskStep
<1>4. ASSUME NEW S \in SUBSET here, F!BatchMerge(S) \/ F!CommandChecks(S) PROVE Forest'
  BY <1>2, <1>4, ManualMergeForest DEF F!BatchMerge, F!CommandChecks, F!rows
<1>5. ASSUME F!CommandMerges PROVE Forest'
  BY <1>2, <1>5, ManualMergeForest DEF F!CommandMerges, F!rows
<1>6. ASSUME NEW e \in here, F!RetryEmail(e) PROVE Forest'
  BY <1>2, <1>6 DEF F!RetryEmail, F!rows
<1> QED
  BY <1>2, <1>3, <1>4, <1>5, <1>6, DeleteEmailForest DEF F!Next, F!vars

LEMMA ForestStart == F!Init => ForestInv
<1> SUFFICES ASSUME F!Init PROVE Forest
  BY DEF ForestInv
<1>1. \A w \in F!CrewMembers : task[w].pc = "idle"
  BY IdleTask DEF F!Init
<1>2. Rooted
  BY ForestConstants DEF F!Init, Rooted
<1> QED
  BY <1>1, <1>2 DEF Forest, ApartFrom, Known

LEMMA ForestHolds == F!Spec => [](MergeInv /\ ForestInv)
<1>1. F!Init => MergeInv /\ ForestInv
  BY MergeStart, ForestStart
<1>2. MergeInv /\ ForestInv /\ [F!Next]_(F!vars) => (MergeInv /\ ForestInv)'
  BY MergeStep, ForestStep
<1> QED
  BY <1>1, <1>2, PTL DEF F!Spec

(* However tasks, merges by hand and deletions of two workers overlap, each  *)
(* conversation has a canonical record (resolve_canonical).                  *)
THEOREM EveryWalkEnds == F!Spec => []NoCircle
<1>1. MergeInv /\ ForestInv => NoCircle
  <2>1. ASSUME MergeInv, Forest, NEW e \in here PROVE into[F!HeadOf(e)] = None
    <3>1. e \in F!Ids
      BY <2>1 DEF MergeInv, ForestTypes
    <3> QED
      BY <2>1, <3>1, HeadIsRoot DEF MergeInv, Forest
  <2> QED
    BY <2>1, SameCardinality DEF ForestInv, Few, NoCircle, F!NoCircle
<1> QED
  BY <1>1, ForestHolds, PTL
-----------------------------------------------------------------------------
(* One worker, no merges by hand: there is no manual canonical to link to,   *)
(* and what a task takes for the head of a conversation still is one when it *)
(* is done.                                                                  *)
Alone ==
  /\ here \subseteq Mails /\ command = {}
  /\ \A w \in F!CrewMembers :
       /\ task[w].pc # "link"
       /\ task[w].pc = "absorb" =>
            /\ \A h \in task[w].moved : into[h] = None
            /\ \A c \in DOMAIN task[w].heads :
                 task[w].heads[c] \in F!Ids /\ into[task[w].heads[c]] = None
SerialInv == F!Serial => Alone

LEMMA OneWorker ==
  ASSUME MergeInv, F!Serial, NEW w \in crew, NEW v \in F!CrewMembers, v # w
  PROVE  task[v].pc = "idle"
<1>1. IsFiniteSet(crew) /\ Cardinality(crew) = 1
  BY SameCardinality DEF F!Serial, MergeInv, ForestTypes
<1>2. PICK x : crew = {x}
  BY <1>1, FS_Singleton
<1> QED
  BY <1>2 DEF MergeInv, Held

(* Steps that leave the records of tasks, or end one, and cut pointers only. *)
LEMMA StaysAlone ==
  ASSUME MergeInv, Alone, here' \subseteq here, command' = {},
         \A x \in F!Ids : into'[x] = into[x] \/ into'[x] = None,
         \A w \in F!CrewMembers : task'[w] = task[w] \/ task'[w].pc \in {"idle", "own"}
  PROVE  Alone'
<1>1. \A w \in F!CrewMembers : task[w].moved \subseteq F!Ids
  BY DEF MergeInv, ForestTypes, Tasks
<1> QED
  BY <1>1 DEF Alone

LEMMA AbsorbNextAlone ==
  ASSUME MergeInv, Alone, NEW w \in F!CrewMembers, F!AbsorbNext(w) PROVE Alone'
<1> DEFINE t == task[w]
           c == F!First(DOMAIN t.heads)
           h == t.heads[c]
           M == IF into[h] = t.email THEN t.moved ELSE t.moved \cup {h}
           H == [x \in DOMAIN t.heads \ {c} |-> t.heads[x]]
<1>1. t.pc = "absorb" /\ DOMAIN t.heads # {}
      /\ task' = [task EXCEPT ![w] = [t EXCEPT !.heads = H, !.moved = M]]
      /\ UNCHANGED <<here, into, command>>
  BY DEF F!AbsorbNext, F!Restrict, Restrict, F!rows
<1>2. PICK V : task \in [F!CrewMembers -> Tasks(V)]
  BY DEF MergeInv, ForestTypes
<1>3. c \in DOMAIN t.heads
  <2>1. DOMAIN t.heads \in SUBSET F!Ids
    BY <1>2 DEF Tasks, Heads
  <2> QED
    BY <1>1, <2>1, FirstIsIn DEF MergeInv, ForestTypes
<1> HIDE DEF c
<1>4. (\A x \in M : into[x] = None) /\ \A x \in DOMAIN H : H[x] \in F!Ids /\ into[H[x]] = None
  BY <1>1, <1>3 DEF Alone
<1>5. PICK r : r = [t EXCEPT !.heads = H, !.moved = M]
  OBVIOUS
<1>6. t \in Tasks(V)
  BY <1>2
<1>7. r.pc = t.pc /\ r.heads = H /\ r.moved = M
  <2> HIDE DEF H, M, t
  <2> QED
    BY <1>5, <1>6, MoveOn
<1>8. task'[w] = r /\ \A v \in F!CrewMembers \ {w} : task'[v] = task[v]
  BY <1>1, <1>2, <1>5
<1> HIDE DEF H, M
<1> QED
  BY <1>1, <1>4, <1>7, <1>8 DEF Alone

LEMMA DecideAlone ==
  ASSUME MergeInv, Rooted, Alone, NEW w \in F!CrewMembers, F!Decide(w) PROVE Alone'
<1>1. CASE F!End(w) /\ UNCHANGED <<here, into, command>>
  <2>1. task'[w] = F!Idle /\ \A v \in F!CrewMembers \ {w} : task'[v] = task[v]
    BY <1>1, IdleTask, SetTask DEF F!End, MergeInv, ForestTypes, TasksAre
  <2> QED
    BY <1>1, <2>1, IdleTask, StaysAlone DEF Alone
<1>2. ASSUME NEW e, NEW found, NEW r, Decision(w, e, found), task' = [task EXCEPT ![w] = r],
             LET heads == F!HeadsOf(e, found)
                 manual == {c \in DOMAIN heads : heads[c] \in Manuals}
             IN r = [pc |-> IF manual = {} THEN "absorb" ELSE "link", email |-> e,
                     heads |-> heads, moved |-> {},
                     target |-> IF manual = {} THEN None ELSE heads[F!First(manual)],
                     proof |-> F!EvidenceFor(e, found)]
      PROVE  Alone'
  <2> DEFINE heads == F!HeadsOf(e, found)
             manual == {c \in DOMAIN heads : heads[c] \in Manuals}
  <2>1. found \in SUBSET F!Ids /\ found \subseteq here /\ UNCHANGED <<here, into, command>>
    BY <1>2 DEF Decision, MergeInv, ForestTypes
  <2>2. \A c \in DOMAIN heads : c \in found /\ heads[c] = F!HeadOf(c)
    BY <2>1, HeadsAreOthers, Zenon
  <2>3. \A c \in here : F!HeadOf(c) \in here /\ into[F!HeadOf(c)] = None
    <3>1. here \in SUBSET F!Ids /\ F!Upward(here)
      BY DEF F!Upward, MergeInv, ForestTypes
    <3> QED
      BY <3>1, AboveIsUpward, HeadIsRoot DEF MergeInv
  <2> HIDE DEF heads
  <2>4. manual = {} /\ \A c \in DOMAIN heads : heads[c] \in F!Ids /\ into[heads[c]] = None
    <3>1. here \subseteq Mails
      BY DEF Alone
    <3>2. \A c \in DOMAIN heads : heads[c] \in here /\ into[heads[c]] = None
      BY <2>1, <2>2, <2>3
    <3> QED
      BY <3>1, <3>2, ForestConstants
  <2>5. r.pc = "absorb" /\ r.heads = heads /\ r.moved = {}
    BY <1>2, <2>4 DEF heads
  <2>6. task'[w] = r /\ \A v \in F!CrewMembers \ {w} : task'[v] = task[v]
    BY <1>2 DEF MergeInv, ForestTypes
  <2> QED
    BY <2>1, <2>4, <2>5, <2>6 DEF Alone
<1> QED
  BY <1>1, <1>2, DecideEffect

LEMMA TaskStartAlone ==
  ASSUME MergeInv, Alone, NEW w \in F!CrewMembers, NEW e \in queue, F!TaskStart(w, e) PROVE Alone'
<1> DEFINE r == [F!Idle EXCEPT !.pc = "own", !.email = e]
<1>1. r.pc = "own"
  BY IdleTask DEF F!Idle
<1> HIDE DEF r
<1>2. UNCHANGED <<here, into, command>> /\ (task' = task \/ task' = [task EXCEPT ![w] = r])
  BY DEF F!TaskStart, F!rows, r
<1>3. \A v \in F!CrewMembers : task'[v] = task[v] \/ task'[v] = r
  BY <1>2 DEF MergeInv, ForestTypes
<1> QED
  BY <1>1, <1>2, <1>3, StaysAlone DEF Alone

(* Absorbing adds pointers of heads, which had none.                         *)
LEMMA AbsorbDoneAlone ==
  ASSUME MergeInv, F!Serial, Alone, NEW w \in F!CrewMembers, F!AbsorbDone(w)
  PROVE  Alone' /\ F!KeptTogether
<1>1. PICK e, M : e = task[w].email /\ M = task[w].moved
  OBVIOUS
<1>2. /\ Deciding(w) /\ F!End(w) /\ UNCHANGED <<here, command>>
      /\ into' = [x \in F!Ids |-> IF x \in M THEN e ELSE into[x]]
  BY <1>1 DEF F!AbsorbDone, Deciding, F!Marked
<1>3. task'[w] = F!Idle /\ \A v \in F!CrewMembers \ {w} : task'[v] = task[v]
  BY <1>2, IdleTask, SetTask DEF F!End, MergeInv, ForestTypes, TasksAre
<1>4. \A v \in F!CrewMembers : task'[v].pc = "idle"
  BY <1>2, <1>3, IdleTask, DeciderHolds, OneWorker
<1>5. Alone'
  BY <1>2, <1>4 DEF Alone
<1>6. ASSUME NEW x \in here PROVE F!Cluster(x) \subseteq F!Cluster(x)'
  <2>1. \A h \in M : into[h] = None
    BY <1>1 DEF Alone, F!AbsorbDone
  <2>2. ASSUME NEW S \in SUBSET F!Ids, F!Together(S)' PROVE F!Together(S)
    <3>1. F!Upward(S)
      BY <1>2, <2>1, <2>2 DEF F!Together, F!Upward
    <3>2. ASSUME NEW z \in S, NEW c \in F!Children(z) PROVE c \in S
      <4>1. c \in here /\ c \in F!Ids /\ into[c] = z /\ z # None
        BY <3>2, ForestConstants DEF F!Children, MergeInv, ForestTypes
      <4>2. c \in F!Children(z)'
        BY <1>2, <2>1, <4>1 DEF F!Children
      <4> QED
        BY <2>2, <4>2 DEF F!Together
    <3> QED
      BY <3>1, <3>2 DEF F!Together
  <2> QED
    BY <2>2 DEF F!Cluster
<1> QED
  BY <1>5, <1>6 DEF F!KeptTogether

LEMMA SerialStep ==
  ASSUME MergeInv, ForestInv, SerialInv, [F!Next]_(F!vars)
  PROVE  SerialInv' /\ (F!Serial => F!KeptTogether)
<1>1. F!Serial' => F!Serial
  BY DEF F!Next, F!vars, F!TaskStep, F!TaskStart, F!Decide, F!Link, F!AbsorbNext,
     F!AbsorbDone, F!RolledBack, F!BatchMerge, F!CommandChecks, F!CommandMerges,
     F!DeleteEmail, F!RetryEmail, F!Starts, F!Serial
<1> SUFFICES ASSUME F!Serial PROVE Alone' /\ F!KeptTogether
  BY <1>1 DEF SerialInv
<1>2. Alone /\ Rooted
  BY SameCardinality DEF SerialInv, ForestInv, Few, Forest, F!Serial
<1>3. UNCHANGED into => F!KeptTogether
  BY DEF F!KeptTogether
<1>4. ASSUME UNCHANGED <<here, into, command, task>> PROVE Alone' /\ F!KeptTogether
  BY <1>2, <1>3, <1>4, StaysAlone DEF Alone
<1>5. ASSUME NEW w \in F!CrewMembers, F!TaskStep(w) PROVE Alone' /\ F!KeptTogether
  <2>1. ASSUME F!RolledBack(w) PROVE Alone' /\ F!KeptTogether
    <3>1. task'[w] = F!Idle /\ \A v \in F!CrewMembers \ {w} : task'[v] = task[v]
      BY <2>1, IdleTask, SetTask DEF F!RolledBack, F!End, MergeInv, ForestTypes, TasksAre
    <3> QED
      BY <1>2, <1>3, <2>1, <3>1, IdleTask, StaysAlone DEF F!RolledBack, F!rows, Alone
  <2>2. ~F!Link(w)
    BY <1>2 DEF Alone, F!Link
  <2>3. UNCHANGED into \/ F!AbsorbDone(w)
    BY <1>5, <2>2 DEF F!TaskStep, F!TaskStart, F!Decide, F!AbsorbNext, F!RolledBack, F!rows
  <2> QED
    BY <1>2, <1>3, <1>5, <2>1, <2>2, <2>3, TaskStartAlone, DecideAlone, AbsorbNextAlone,
       AbsorbDoneAlone DEF F!TaskStep
<1>6. ASSUME NEW S \in SUBSET here, F!BatchMerge(S) \/ F!CommandChecks(S) PROVE FALSE
  BY <1>6 DEF F!BatchMerge, F!CommandChecks, F!Starts, F!Serial
<1>7. ~F!CommandMerges
  BY <1>2 DEF Alone, F!CommandMerges
<1>8. ASSUME NEW e \in here, F!RetryEmail(e) PROVE Alone' /\ F!KeptTogether
  BY <1>4, <1>8 DEF F!RetryEmail, F!rows
<1>9. ASSUME NEW e \in here, F!DeleteEmail(e) PROVE Alone' /\ F!KeptTogether
  <2>1. e \in here /\ e \notin here' /\ here' \subseteq here /\ UNCHANGED <<command, task>>
        /\ \A x \in F!Ids : into'[x] = into[x] \/ into'[x] = None
    BY <1>9 DEF F!DeleteEmail
  <2> QED
    BY <1>2, <2>1, StaysAlone DEF F!KeptTogether, Alone
<1> QED
  BY <1>4, <1>5, <1>6, <1>7, <1>8, <1>9 DEF F!Next, F!vars

(* While one worker runs all merge tasks and nobody merges by hand, a merge  *)
(* never takes two emails of one conversation apart                          *)
(* (_distinct_cluster_heads, _absorb_sources_into_canonical).                *)
THEOREM ConversationsStay == F!Spec => SerialMergesKeepTogether
<1>1. F!Init => SerialInv
  BY IdleTask, ForestConstants DEF F!Init, SerialInv, Alone
<1>2. MergeInv /\ ForestInv /\ SerialInv /\ [F!Next]_(F!vars) =>
        SerialInv' /\ [F!Serial => F!KeptTogether]_(F!vars)
  BY SerialStep
<1> QED
  BY <1>1, <1>2, ForestHolds, PTL DEF F!Spec, SerialMergesKeepTogether,
     F!SerialMergesKeepTogether
=============================================================================
