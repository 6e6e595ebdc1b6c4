---------------------------- MODULE BillingProofs ----------------------------
(***************************************************************************)
(* Theorems about orders, subscriptions and refunds, for every number of   *)
(* orders and of subscriptions and every catalogue: the value chain and    *)
(* the types whatever the environment does, and then, for an environment   *)
(* in which one thing is pending at a time, the time that was paid for.    *)
(***************************************************************************)
EXTENDS BillingProperties, FiniteSetTheorems, WellFoundedInduction, TLAPS

Columns == DOMAIN BlankOrder

\* The blank row has the columns the proofs speak of.
LEMMA ColumnsKnown ==
    Columns = {"kind", "plan", "cycle", "action", "sources", "anchor", "base",
               "days", "credit", "payable", "carry", "status", "provider", "created",
               "paidOn", "refund", "settlement", "superseded", "parent",
               "chain", "sub"}
  BY DEF Columns, BlankOrder

\* The value chain holds of the empty database.
LEMMA InitChain == Init => ChainInvariant
  BY BoundsAssumption DEF Init, ChainInvariant, LinksJoinOrders, SupersededIsLinked,
     SourcesAreOlder, ValueFlowsForward

\* What a step must leave alone for the chain not to notice it: rows may go and
\* rows may change, but not what they consume or which subscription they are for.
Quiet ==
    /\ made' = made /\ granted' = granted
    /\ placed' \subseteq placed /\ subs' \subseteq subs
    /\ links' = {e \in links : e[1] \in placed' /\ e[2] \in placed'}
    /\ DOMAIN order' = Order
    /\ \A o \in Order : DOMAIN order'[o] = Columns
    /\ \A o \in placed' :
         /\ order'[o].action = order[o].action
         /\ order'[o].sources = order[o].sources
         /\ order'[o].sub = order[o].sub
         /\ order'[o].superseded =
              IF order[o].superseded \in placed' THEN order[o].superseded ELSE None

LEMMA QuietKeepsChain ==
    ASSUME ChainInvariant, Quiet
    PROVE  ChainInvariant'
  <1>1. LinksJoinOrders'
    BY DEF ChainInvariant, Quiet, LinksJoinOrders
  <1>2. SupersededIsLinked'
    BY DEF ChainInvariant, Quiet, SupersededIsLinked, LinksJoinOrders, None
  <1>3. SourcesAreOlder'
    BY DEF ChainInvariant, Quiet, SourcesAreOlder
  <1>4. ValueFlowsForward'
    BY DEF ChainInvariant, Quiet, ValueFlowsForward
  <1> QED BY <1>1, <1>2, <1>3, <1>4 DEF ChainInvariant, Quiet, Columns

\* The usual case: no order comes or goes.
LEMMA RowsKept ==
    ASSUME ChainInvariant,
           UNCHANGED <<made, granted, placed, links>>, subs' \subseteq subs,
           DOMAIN order' = Order, \A o \in Order : DOMAIN order'[o] = Columns,
           \A o \in placed : /\ order'[o].action = order[o].action
                            /\ order'[o].sources = order[o].sources
                            /\ order'[o].sub = order[o].sub
                            /\ order'[o].superseded = order[o].superseded
    PROVE  ChainInvariant'
  <1>1. \A o \in placed : order[o].superseded \in placed \/ order[o].superseded = None
    BY DEF ChainInvariant, SupersededIsLinked, LinksJoinOrders
  <1>2. links = {e \in links : e[1] \in placed /\ e[2] \in placed}
    BY DEF ChainInvariant, LinksJoinOrders
  <1> QED BY <1>1, <1>2, QuietKeepsChain DEF Quiet

-----------------------------------------------------------------------------
(* Fulfilment.                                                             *)

\* What fulfilling order o as row must find.
Fits(o, row) ==
    /\ DOMAIN row = Columns
    /\ o \in placed => row.action = order[o].action /\ row.sources = order[o].sources
    /\ row.superseded # None => o \in placed /\ <<o, row.superseded>> \in links
    /\ row.sub \in 0..granted
    /\ row.action \in Consuming => row.sub \notin row.sources
    /\ row.action \in Consuming =>
         /\ row.sources \subseteq 1..granted
         /\ \A a \in placed \ {o} :
               order[a].action # "RENEW" /\ order[a].sub \in row.sources => a < o
    /\ row.action # "RENEW" =>
         \A b \in placed :
            order[b].action \in Consuming /\ row.sub \in order[b].sources => o < b

\* A sale extends the anchor or grants the next id.
LEMMA SaleGrants ==
    ASSUME ChainInvariant, NEW row, Sell(row)
    PROVE  LET target == IF Extends(row) THEN row.anchor ELSE granted + 1
           IN  /\ granted' \in {granted, granted + 1} /\ granted' \in 0..MaxSubs
               /\ subs' \subseteq 1..granted'
               /\ target \in 1..granted'
               /\ row.action # "RENEW" => target = granted + 1 /\ granted' = granted + 1
  <1>1. /\ granted \in Nat /\ granted \in 0..MaxSubs /\ MaxSubs \in Nat
        /\ subs \subseteq 1..granted
    BY BoundsAssumption DEF ChainInvariant
  <1>2. CASE Extends(row)
    <2>1. granted' = granted /\ subs' = subs
      BY <1>2 DEF Sell
    <2>2. row.action = "RENEW" /\ row.anchor \in subs
      BY <1>2 DEF Extends, Running
    <2> QED BY <1>1, <1>2, <2>1, <2>2
  <1>3. CASE ~Extends(row)
    <2>1. granted < MaxSubs /\ granted' = granted + 1 /\ subs' = subs \cup {granted + 1}
      BY <1>3 DEF Sell
    <2> QED BY <1>1, <1>3, <2>1
  <1> QED BY <1>2, <1>3

LEMMA PlanFulfilled ==
    ASSUME ChainInvariant, NEW o \in Order, NEW row, NEW bal, NEW led,
           Fits(o, row), FulfilPlan(o, row, bal, led),
           made' \in made..MaxOrders, o \in 1..made', placed' = placed \cup {o}
    PROVE  ChainInvariant'
  <1> DEFINE target == IF Extends(row) THEN row.anchor ELSE granted + 1
             used   == ConsumedBy(o, row)
  <1>1. /\ granted \in Nat /\ granted \in 0..MaxSubs /\ MaxSubs \in Nat
        /\ made \in Nat /\ MaxOrders \in Nat
    BY BoundsAssumption DEF ChainInvariant
  <1>2. /\ granted' \in {granted, granted + 1} /\ granted' \in 0..MaxSubs
        /\ subs' \subseteq 1..granted'
        /\ target \in 1..granted'
        /\ row.action # "RENEW" => target = granted + 1
    <2>1. Sell(row)
      BY DEF FulfilPlan
    <2> QED BY <2>1, SaleGrants
  <1>3. /\ used \subseteq placed \ {o}
        /\ used # {} => row.action \in Consuming
        /\ \A q \in used : order[q].sub \in row.sources
    BY DEF ConsumedBy
  <1>4. /\ DOMAIN order' = Order
        /\ \A q \in Order : DOMAIN order'[q] = Columns
        /\ order'[o].action = row.action /\ order'[o].sources = row.sources
        /\ order'[o].sub = target /\ order'[o].superseded = row.superseded
        /\ \A q \in Order \ {o} :
              /\ order'[q].action = order[q].action
              /\ order'[q].sources = order[q].sources
              /\ order'[q].sub = order[q].sub
              /\ order'[q].superseded = IF q \in used THEN o ELSE order[q].superseded
    BY <1>3, ColumnsKnown DEF FulfilPlan, Fits, ChainInvariant, Columns
  <1>5. links' = links \cup (used \X {o})
    BY DEF FulfilPlan
  <1>6. placed \subseteq Order /\ placed' \subseteq 1..made' /\ placed' \subseteq Order
    BY <1>1 DEF ChainInvariant, Order
  <1>7. LinksJoinOrders'
    <2>1. ASSUME NEW e \in links
          PROVE  /\ e[1] \in placed' /\ e[2] \in placed' /\ e[1] # e[2]
                 /\ order'[e[2]].action \in Consuming
      <3>1. e[1] \in placed /\ e[2] \in placed /\ e[1] # e[2]
            /\ order[e[2]].action \in Consuming
        BY DEF LinksJoinOrders, ChainInvariant
      <3>2. e[2] = o => row.action = order[o].action
        BY <3>1 DEF Fits
      <3> QED BY <1>4, <1>6, <3>1, <3>2
    <2>2. ASSUME NEW q \in used
          PROVE  /\ q \in placed' /\ o \in placed' /\ q # o
                 /\ order'[o].action \in Consuming
      BY <1>3, <1>4
    <2>3. \A e \in used \X {o} : e[1] \in used /\ e[2] = o
      OBVIOUS
    <2> HIDE DEF used
    <2> QED BY <1>5, <2>1, <2>2, <2>3 DEF LinksJoinOrders
  <1>8. SupersededIsLinked'
    BY <1>3, <1>4, <1>5, <1>6 DEF SupersededIsLinked, ChainInvariant, Fits
  <1>9. SourcesAreOlder'
    <2>1. \A q \in placed' : order'[q].sub \in 0..granted'
      BY <1>1, <1>2, <1>4, <1>6 DEF SourcesAreOlder, ChainInvariant
    <2>2. ASSUME NEW b \in placed', order'[b].action \in Consuming
          PROVE  /\ order'[b].sources \subseteq 1..granted
                 /\ order'[b].sources \subseteq 1..granted'
      BY <1>1, <1>2, <1>4, <1>6, <2>2 DEF SourcesAreOlder, ChainInvariant, Fits
    <2>3. ASSUME NEW b \in placed', order'[b].action \in Consuming, NEW a \in placed',
                 order'[a].action # "RENEW", order'[a].sub \in order'[b].sources
          PROVE  a < b
      <3>1. a # o
        BY <1>1, <1>2, <1>4, <2>2, <2>3
      <3>2. CASE b = o
        BY <1>4, <1>6, <2>3, <3>1, <3>2 DEF Fits
      <3>3. CASE b # o
        BY <1>4, <1>6, <2>3, <3>1, <3>3 DEF SourcesAreOlder, ChainInvariant
      <3> QED BY <3>2, <3>3
    <2> QED BY <2>1, <2>2, <2>3 DEF SourcesAreOlder
  <1>10. ValueFlowsForward'
    <2>1. ASSUME NEW e \in links, order'[e[1]].action # "RENEW"
          PROVE  e[1] < e[2]
      BY <1>4, <1>6, <2>1 DEF ValueFlowsForward, LinksJoinOrders, ChainInvariant, Fits
    <2>2. ASSUME NEW q \in used, order'[q].action # "RENEW"
          PROVE  q < o
      <3>1. q \in placed \ {o} /\ q \in Order \ {o} /\ order[q].sub \in row.sources
            /\ row.action \in Consuming
        BY <1>3, <1>6
      <3>2. order[q].action # "RENEW"
        BY <1>4, <2>2, <3>1
      <3> QED BY <3>1, <3>2 DEF Fits
    <2>3. \A e \in used \X {o} : e[1] \in used /\ e[2] = o
      OBVIOUS
    <2> HIDE DEF used
    <2> QED BY <1>5, <2>1, <2>2, <2>3 DEF ValueFlowsForward
  <1> QED BY <1>1, <1>2, <1>4, <1>6, <1>7, <1>8, <1>9, <1>10 DEF ChainInvariant, Columns

\* Writing a row that fits, and nothing else, keeps the chain.
LEMMA RowWritten ==
    ASSUME ChainInvariant, NEW o \in Order, NEW row, Fits(o, row),
           order' = [order EXCEPT ![o] = row],
           UNCHANGED <<links, granted, subs>>,
           made' \in made..MaxOrders, o \in 1..made', placed' = placed \cup {o}
    PROVE  ChainInvariant'
  <1>1. /\ granted \in 0..MaxSubs /\ MaxSubs \in Nat
        /\ made \in Nat /\ MaxOrders \in Nat
    BY BoundsAssumption DEF ChainInvariant
  <1>2. /\ DOMAIN order' = Order /\ order'[o] = row
        /\ \A q \in Order \ {o} : order'[q] = order[q]
        /\ \A q \in Order : DOMAIN order'[q] = Columns
    BY DEF ChainInvariant, Fits, Columns
  <1>3. placed \subseteq Order /\ placed' \subseteq 1..made' /\ placed' \subseteq Order
    BY <1>1 DEF ChainInvariant, Order
  <1>4. LinksJoinOrders'
    BY <1>2, <1>3 DEF LinksJoinOrders, ChainInvariant, Fits
  <1>5. SupersededIsLinked'
    BY <1>2, <1>3 DEF SupersededIsLinked, ChainInvariant, Fits
  <1>6. SourcesAreOlder'
    <2>1. \A q \in placed' : order'[q].sub \in 0..granted
      BY <1>2, <1>3 DEF SourcesAreOlder, ChainInvariant, Fits
    <2>2. \A b \in placed' : order'[b].action \in Consuming =>
             order'[b].sources \subseteq 1..granted
      BY <1>2, <1>3 DEF SourcesAreOlder, ChainInvariant, Fits
    <2>3. ASSUME NEW b \in placed', order'[b].action \in Consuming, NEW a \in placed',
                 order'[a].action # "RENEW", order'[a].sub \in order'[b].sources
          PROVE  a < b \/ (a = o /\ b = o)
      <3>1. CASE a # o /\ b # o
        BY <1>2, <1>3, <2>3, <3>1 DEF SourcesAreOlder, ChainInvariant
      <3>2. CASE a # o /\ b = o
        BY <1>2, <1>3, <2>3, <3>2 DEF Fits
      <3>3. CASE a = o /\ b # o
        BY <1>2, <1>3, <2>3, <3>3 DEF Fits
      <3> QED BY <3>1, <3>2, <3>3
    <2>4. ~(row.action \in Consuming /\ row.action # "RENEW" /\ row.sub \in row.sources)
      BY DEF Fits
    <2> QED BY <1>2, <2>1, <2>2, <2>3, <2>4 DEF SourcesAreOlder
  <1>7. ValueFlowsForward'
    BY <1>2, <1>3 DEF ValueFlowsForward, LinksJoinOrders, ChainInvariant, Fits
  <1> QED BY <1>1, <1>2, <1>3, <1>4, <1>5, <1>6, <1>7 DEF ChainInvariant, Columns

\* What a row may differ in without ceasing to fit.
LEMMA FitsAgain ==
    ASSUME NEW o, NEW row, NEW new, Fits(o, row), DOMAIN new = Columns,
           new.action = row.action, new.sources = row.sources,
           new.superseded = row.superseded, new.sub = row.sub
    PROVE  Fits(o, new)
  BY DEF Fits

\* An order that exists fits as it is.
LEMMA PlacedFits ==
    ASSUME ChainInvariant, NEW o \in placed
    PROVE  Fits(o, order[o])
  <1>1. o \in Order /\ made \in Nat /\ \A a \in placed : a \in Int
    BY BoundsAssumption DEF ChainInvariant, Order
  <1>2. DOMAIN order[o] = Columns
    BY <1>1 DEF ChainInvariant, Columns
  <1>3. order[o].superseded # None => <<o, order[o].superseded>> \in links
    BY DEF ChainInvariant, SupersededIsLinked
  <1>4. order[o].action \in Consuming =>
           order[o].action # "RENEW" /\ order[o].sub \notin order[o].sources
    BY <1>1 DEF ChainInvariant, SourcesAreOlder, Consuming
  <1>5. order[o].sub \in 0..granted
    BY DEF ChainInvariant, SourcesAreOlder
  <1>6. order[o].action \in Consuming =>
           /\ order[o].sources \subseteq 1..granted
           /\ \A a \in placed \ {o} :
                 order[a].action # "RENEW" /\ order[a].sub \in order[o].sources => a < o
    BY DEF ChainInvariant, SourcesAreOlder
  <1>7. order[o].action # "RENEW" =>
           \A b \in placed :
              order[b].action \in Consuming /\ order[o].sub \in order[b].sources => o < b
    BY DEF ChainInvariant, SourcesAreOlder
  <1> QED BY <1>2, <1>3, <1>4, <1>5, <1>6, <1>7 DEF Fits

LEMMA PaidOrderHandled ==
    ASSUME ChainInvariant, NEW o \in Order, NEW row, NEW bal, NEW led,
           Fits(o, row), HandlePaidOrder(o, row, bal, led),
           made' \in made..MaxOrders, o \in 1..made', placed' = placed \cup {o}
    PROVE  ChainInvariant'
  <1>1. CASE FulfilPlan(o, row, bal, led)
    BY <1>1, PlanFulfilled
  <1>2. CASE FulfilNothing(o, row, bal, led)
    <2> DEFINE new == [row EXCEPT !.status = "PAID", !.paidOn = now]
    <2>1. Fits(o, new)
      <3>1. DOMAIN new = Columns /\ new.action = row.action /\ new.sources = row.sources
            /\ new.superseded = row.superseded /\ new.sub = row.sub
        BY ColumnsKnown DEF Fits
      <3> QED BY <3>1, FitsAgain
    <2>2. order' = [order EXCEPT ![o] = new] /\ UNCHANGED <<links, granted, subs>>
      BY <1>2 DEF FulfilNothing
    <2> HIDE DEF new
    <2> QED BY <2>1, <2>2, RowWritten
  <1>3. CASE FulfilRecharge(o, row, bal, led)
    <2> DEFINE new == [row EXCEPT !.status = "COMPLETED", !.paidOn = now,
                                  !.settlement = Open(row)]
    <2>1. Fits(o, new)
      <3>1. DOMAIN new = Columns /\ new.action = row.action /\ new.sources = row.sources
            /\ new.superseded = row.superseded /\ new.sub = row.sub
        BY ColumnsKnown DEF Fits
      <3> QED BY <3>1, FitsAgain
    <2>2. order' = [order EXCEPT ![o] = new] /\ UNCHANGED <<links, granted, subs>>
      BY <1>3 DEF FulfilRecharge
    <2> HIDE DEF new
    <2> QED BY <2>1, <2>2, RowWritten
  <1> QED BY <1>1, <1>2, <1>3 DEF HandlePaidOrder

\* The case of the handlers that pay an order that exists.
LEMMA PlacedOrderHandled ==
    ASSUME ChainInvariant, NEW o \in placed, NEW provider, NEW bal, NEW led,
           HandlePaidOrder(o, [order[o] EXCEPT !.provider = provider], bal, led),
           UNCHANGED <<placed, made>>
    PROVE  ChainInvariant'
  <1> DEFINE row == [order[o] EXCEPT !.provider = provider]
  <1>1. o \in 1..made /\ made \in 0..MaxOrders /\ MaxOrders \in Nat
    BY BoundsAssumption DEF ChainInvariant
  <1>2. o \in Order /\ made' \in made..MaxOrders /\ o \in 1..made' /\ placed' = placed \cup {o}
    BY <1>1 DEF Order
  <1>3. Fits(o, row)
    <2>1. Fits(o, order[o])
      BY PlacedFits
    <2>2. DOMAIN row = Columns /\ row.action = order[o].action
          /\ row.sources = order[o].sources
          /\ row.superseded = order[o].superseded /\ row.sub = order[o].sub
      BY <2>1, ColumnsKnown DEF Fits
    <2> QED BY <2>1, <2>2, FitsAgain
  <1>4. HandlePaidOrder(o, row, bal, led)
    OBVIOUS
  <1> HIDE DEF row
  <1> QED BY <1>2, <1>3, <1>4, PaidOrderHandled

-----------------------------------------------------------------------------
(* Each step keeps the chain.                                              *)

LEMMA NextIdIsNew ==
    ASSUME ChainInvariant, made < MaxOrders
    PROVE  /\ made + 1 \in Order /\ made + 1 \in made..MaxOrders /\ made + 1 \in 1..(made + 1)
           /\ made + 1 \notin placed /\ \A a \in placed : a < made + 1
  BY BoundsAssumption DEF ChainInvariant, Order

\* A new order that supersedes nothing and is for no subscription yet.
LEMMA NewRowFits ==
    ASSUME ChainInvariant, made < MaxOrders, NEW row, DOMAIN row = Columns,
           row.superseded = None, row.sub = None,
           row.action \in Consuming => row.sources \subseteq subs
    PROVE  Fits(made + 1, row)
  <1>1. made + 1 \notin placed /\ \A a \in placed : a < made + 1
    BY NextIdIsNew
  <1>2. granted \in Nat /\ subs \subseteq 1..granted
    BY BoundsAssumption DEF ChainInvariant
  <1>3. \A b \in placed : order[b].action \in Consuming => None \notin order[b].sources
    BY <1>2 DEF ChainInvariant, SourcesAreOlder, None
  <1>4. ASSUME row.action \in Consuming
        PROVE  row.sources \subseteq 1..granted /\ None \notin row.sources
    <2>1. row.sources \subseteq subs
      BY <1>4
    <2>2. None \notin 1..granted
      BY <1>2 DEF None
    <2> QED BY <1>2, <2>1, <2>2
  <1> QED BY <1>1, <1>2, <1>3, <1>4 DEF Fits, None

LEMMA CreateOrderKeepsChain ==
    ASSUME ChainInvariant, NEW p, NEW c, CreateOrder(p, c)
    PROVE  ChainInvariant'
  <1> DEFINE o    == made + 1
             view == Preview(p, c)
  <1>1. made < MaxOrders /\ made' = o /\ placed' = placed \cup {o}
    BY DEF CreateOrder
  <1>2. o \in Order /\ made' \in made..MaxOrders /\ o \in 1..made'
    BY <1>1, NextIdIsNew
  <1>3. PICK parent \in AnchorOrders(ChainSources(view)) :
          LET row  == NewOrder(o, p, c, view, parent)
              zero == [row EXCEPT !.provider = "ZERO"]
          IN  \/ order' = [order EXCEPT ![o] = row] /\ UNCHANGED <<links, subs, granted>>
              \/ order' = [order EXCEPT ![o] = zero] /\ UNCHANGED <<links, subs, granted>>
              \/ HandlePaidOrder(o, zero, balance, ledger)
    BY DEF CreateOrder
  <1> DEFINE row  == NewOrder(o, p, c, view, parent)
             zero == [row EXCEPT !.provider = "ZERO"]
  <1>4. Fits(o, row)
    <2>1. view.action \in Consuming => view.sources \subseteq subs
      BY DEF Preview, Running
    <2>2. /\ DOMAIN row = Columns /\ row.superseded = None /\ row.sub = None
          /\ row.action = view.action /\ row.sources = view.sources
      <3> HIDE DEF view
      <3> QED BY ColumnsKnown DEF NewOrder, BlankOrder
    <2> HIDE DEF row, view
    <2> QED BY <1>1, <2>1, <2>2, NewRowFits
  <1>5. Fits(o, zero)
    <2> HIDE DEF row
    <2>1. DOMAIN zero = Columns /\ zero.action = row.action /\ zero.sources = row.sources
          /\ zero.superseded = row.superseded /\ zero.sub = row.sub
      BY <1>4, ColumnsKnown DEF Fits
    <2> QED BY <1>4, <2>1, FitsAgain
  <1>6. \/ order' = [order EXCEPT ![o] = row] /\ UNCHANGED <<links, subs, granted>>
        \/ order' = [order EXCEPT ![o] = zero] /\ UNCHANGED <<links, subs, granted>>
        \/ HandlePaidOrder(o, zero, balance, ledger)
    BY <1>3
  <1> HIDE DEF o, row, zero
  <1> QED BY <1>1, <1>2, <1>4, <1>5, <1>6, RowWritten, PaidOrderHandled

LEMMA CreateRechargeOrderKeepsChain ==
    ASSUME ChainInvariant, NEW a, CreateRechargeOrder(a)
    PROVE  ChainInvariant'
  <1> DEFINE o   == made + 1
             row == [BlankOrder EXCEPT !.base = a, !.payable = a,
                                       !.created = now, !.chain = o]
  <1>1. /\ made < MaxOrders /\ made' = o /\ placed' = placed \cup {o}
        /\ order' = [order EXCEPT ![o] = row] /\ UNCHANGED <<links, subs, granted>>
    BY DEF CreateRechargeOrder
  <1>2. o \in Order /\ made' \in made..MaxOrders /\ o \in 1..made'
    BY <1>1, NextIdIsNew
  <1>3. Fits(o, row)
    <2>1. DOMAIN row = Columns /\ row.superseded = None /\ row.sub = None
          /\ row.action = "NONE"
      BY ColumnsKnown DEF BlankOrder
    <2> HIDE DEF row
    <2> QED BY <1>1, <2>1, NewRowFits DEF Consuming
  <1> HIDE DEF o, row
  <1> QED BY <1>1, <1>2, <1>3, RowWritten

\* Row r keeps what the chain is about in its successor.
SameInChain(r, new) ==
    /\ DOMAIN new = Columns
    /\ new.action = r.action /\ new.sources = r.sources
    /\ new.sub = r.sub /\ new.superseded = r.superseded

LEMMA SameRowsKeepChain ==
    ASSUME ChainInvariant, UNCHANGED <<made, granted, placed, links>>, subs' \subseteq subs,
           DOMAIN order' = Order, \A q \in Order : SameInChain(order[q], order'[q])
    PROVE  ChainInvariant'
  <1>1. placed \subseteq Order
    BY BoundsAssumption DEF ChainInvariant, Order
  <1> QED BY <1>1, RowsKept DEF SameInChain

\* The handlers that leave orders, links and subscription ids alone.
LEMMA StutterKeepsChain ==
    ASSUME ChainInvariant, UNCHANGED <<order, made, granted, placed, links>>,
           subs' \subseteq subs
    PROVE  ChainInvariant'
  BY SameRowsKeepChain DEF ChainInvariant, SameInChain, Columns

LEMMA SmallStepsKeepChain ==
    ASSUME ChainInvariant, NEW o \in Order,
           \/ PayLink(o) \/ RequestRefund(o) \/ RejectRefund(o) \/ ApproveOriginalRefund(o)
           \/ \E status \in {"CREATED", "CANCELED", "TIMEOUT"} : AdminSetStatus(o, status)
    PROVE  ChainInvariant'
  <1>1. /\ DOMAIN order = Order /\ \A q \in Order : DOMAIN order[q] = Columns
    BY DEF ChainInvariant, Columns
  <1>2. UNCHANGED <<made, granted, placed, links, subs>>
    BY DEF PayLink, RequestRefund, RejectRefund, ApproveOriginalRefund, AdminSetStatus
  <1>3. CASE PayLink(o)
    <2>1. order' = [order EXCEPT ![o].provider = "EPAY"]
      BY <1>3 DEF PayLink
    <2>2. \A q \in Order : SameInChain(order[q], order'[q])
      BY <1>1, <2>1, ColumnsKnown DEF SameInChain
    <2> QED BY <1>1, <1>2, <2>1, <2>2, SameRowsKeepChain
  <1>4. ASSUME NEW refund, order' = [order EXCEPT ![o].refund = refund]
        PROVE  ChainInvariant'
    <2>1. \A q \in Order : SameInChain(order[q], order'[q])
      BY <1>1, <1>4, ColumnsKnown DEF SameInChain
    <2> QED BY <1>1, <1>2, <1>4, <2>1, SameRowsKeepChain
  <1>5. CASE RequestRefund(o) \/ RejectRefund(o) \/ ApproveOriginalRefund(o)
    BY <1>4, <1>5 DEF RequestRefund, RejectRefund, ApproveOriginalRefund
  <1>6. ASSUME NEW status, AdminSetStatus(o, status)
        PROVE  ChainInvariant'
    <2>1. order' = [order EXCEPT ![o].status = status, ![o].paidOn = None]
      BY <1>6 DEF AdminSetStatus
    <2>2. \A q \in Order : SameInChain(order[q], order'[q])
      BY <1>1, <2>1, ColumnsKnown DEF SameInChain
    <2> QED BY <1>1, <1>2, <2>1, <2>2, SameRowsKeepChain
  <1> QED BY <1>3, <1>5, <1>6

LEMMA EndUnpaidKeepsChain ==
    ASSUME ChainInvariant, NEW S, NEW status, EndUnpaid(S, status)
    PROVE  ChainInvariant'
  <1>1. /\ UNCHANGED <<made, granted, placed, links, subs>>
        /\ order' = [o \in Order |-> IF o \in S THEN [order[o] EXCEPT !.status = status]
                                     ELSE order[o]]
    BY DEF EndUnpaid
  <1>2. \A q \in Order : SameInChain(order[q], order'[q])
    BY <1>1, ColumnsKnown DEF SameInChain, ChainInvariant, Columns
  <1> QED BY <1>1, <1>2, SameRowsKeepChain

LEMMA CompleteRefundKeepsChain ==
    ASSUME ChainInvariant, NEW o, CompleteRefund(o)
    PROVE  ChainInvariant'
  <1>1. UNCHANGED <<made, granted, placed, links>> /\ DOMAIN order' = Order
    BY DEF CompleteRefund
  <1>2. subs' \subseteq subs
    BY DEF CompleteRefund, RollbackSubscription
  <1>3. ASSUME NEW q \in Order
        PROVE  SameInChain(order[q], order'[q])
    <2>1. DOMAIN order[q] = Columns
      BY DEF ChainInvariant, Columns
    <2>2. ASSUME NEW settlement
          PROVE  SameInChain(order[q], Refunded(order[q], settlement))
      BY <2>1, ColumnsKnown DEF SameInChain, Refunded
    <2>3. \/ order'[q] = order[q]
          \/ order'[q] = Refunded(order[q], "REFUNDED")
          \/ order'[q] = Refunded(order[q], "COVERED_BY_DESCENDANT_REFUND")
      BY DEF CompleteRefund
    <2>4. SameInChain(order[q], order[q])
      BY <2>1 DEF SameInChain
    <2> QED BY <2>2, <2>3, <2>4
  <1> QED BY <1>1, <1>2, <1>3, SameRowsKeepChain

LEMMA RemoveOrdersKeepsChain ==
    ASSUME ChainInvariant, NEW S, RemoveOrders(S)
    PROVE  ChainInvariant'
  <1>1. /\ made' = made /\ granted' = granted /\ subs' = subs
        /\ placed' = placed \ S
        /\ links' = {e \in links : e[1] \notin S /\ e[2] \notin S}
        /\ DOMAIN order' = Order
    BY DEF RemoveOrders, LinksWithout
  <1>2. links' = {e \in links : e[1] \in placed' /\ e[2] \in placed'}
    BY <1>1 DEF ChainInvariant, LinksJoinOrders
  <1>3. \A q \in Order : DOMAIN order[q] = Columns
    BY DEF ChainInvariant, Columns
  <1>4. ASSUME NEW q \in Order
        PROVE  DOMAIN order'[q] = Columns
    BY <1>3 DEF RemoveOrders, Detached, Columns
  <1>5. ASSUME NEW q \in placed'
        PROVE  /\ order'[q].action = order[q].action
               /\ order'[q].sources = order[q].sources
               /\ order'[q].sub = order[q].sub
               /\ order'[q].superseded =
                    IF order[q].superseded \in placed' THEN order[q].superseded ELSE None
    <2>1. q \in placed /\ q \notin S /\ q \in Order
      BY <1>1, BoundsAssumption DEF ChainInvariant, Order
    <2>2. order'[q] = Detached(q, S)
      BY <2>1 DEF RemoveOrders
    <2>3. DOMAIN order[q] = Columns
      BY <1>3, <2>1
    <2>4. order[q].superseded \in placed \/ order[q].superseded = None
      BY <2>1 DEF ChainInvariant, SupersededIsLinked, LinksJoinOrders
    <2>5. /\ order'[q].action = order[q].action
          /\ order'[q].sources = order[q].sources
          /\ order'[q].sub = order[q].sub
          /\ order'[q].superseded =
               IF order[q].superseded \in S THEN None ELSE order[q].superseded
      BY <2>2, <2>3, ColumnsKnown DEF Detached
    <2> QED BY <1>1, <2>4, <2>5
  <1> QED BY <1>1, <1>2, <1>4, <1>5, QuietKeepsChain DEF Quiet

LEMMA DeletePlanKeepsChain ==
    ASSUME ChainInvariant, NEW p, DeletePlan(p)
    PROVE  ChainInvariant'
  <1>1. /\ UNCHANGED <<made, granted, placed, links>> /\ subs' \subseteq subs
        /\ order' = [o \in Order |-> IF order[o].plan = p
                                     THEN [order[o] EXCEPT !.plan = NoPlan]
                                     ELSE order[o]]
    BY DEF DeletePlan
  <1>2. \A q \in Order : SameInChain(order[q], order'[q])
    BY <1>1, ColumnsKnown DEF SameInChain, ChainInvariant, Columns
  <1> QED BY <1>1, <1>2, SameRowsKeepChain

LEMMA NextKeepsChain ==
    ASSUME ChainInvariant, [Next]_vars
    PROVE  ChainInvariant'
  <1>1. \A o \in placed : o \in Order
    BY BoundsAssumption DEF ChainInvariant, Order
  <1>2. ASSUME NEW p \in Plan, NEW c \in Cycle, CreateOrder(p, c)
        PROVE  ChainInvariant'
    BY <1>2, CreateOrderKeepsChain
  <1>3. ASSUME NEW a \in RechargeAmounts, CreateRechargeOrder(a)
        PROVE  ChainInvariant'
    BY <1>3, CreateRechargeOrderKeepsChain
  <1>4. ASSUME NEW o \in Order, PayLink(o) \/ RequestRefund(o)
        PROVE  ChainInvariant'
    BY <1>4, SmallStepsKeepChain
  <1>5. ASSUME NEW o \in Order, PayByBalance(o)
        PROVE  ChainInvariant'
    BY <1>5, PlacedOrderHandled DEF PayByBalance, Payable
  <1>6. ASSUME NEW o \in Order, CloseOrder(o) \/ CancelOrder(o)
        PROVE  ChainInvariant'
    BY <1>6, EndUnpaidKeepsChain DEF CloseOrder, CancelOrder
  <1>7. CASE UserStep
    BY <1>2, <1>3, <1>4, <1>5, <1>6, <1>7 DEF UserStep
  <1>8. CASE GatewayStep
    <2>1. ASSUME NEW o \in Order, GatewayPay(o) \/ GatewaySettle(o)
          PROVE  ChainInvariant'
      BY <2>1, StutterKeepsChain DEF GatewayPay, GatewaySettle
    <2>2. ASSUME NEW o \in Order, Notify(o)
          PROVE  ChainInvariant'
      <3>1. CASE Live(order[o])
        BY <2>2, <3>1, StutterKeepsChain DEF Notify
      <3>2. CASE ~Live(order[o])
        <4>1. o \in placed /\ UNCHANGED <<placed, made>>
              /\ HandlePaidOrder(o, order[o], balance, ledger)
          BY <2>2, <3>2 DEF Notify
        <4>2. o \in 1..made /\ made' \in made..MaxOrders /\ placed' = placed \cup {o}
          BY <4>1, BoundsAssumption DEF ChainInvariant
        <4>3. Fits(o, order[o])
          BY <4>1, PlacedFits
        <4> QED BY <4>1, <4>2, <4>3, PaidOrderHandled
      <3> QED BY <3>1, <3>2
    <2> QED BY <1>8, <2>1, <2>2 DEF GatewayStep
  <1>9. CASE AdminStep
    <2>1. ASSUME NEW o \in Order, RejectRefund(o) \/ ApproveOriginalRefund(o)
          PROVE  ChainInvariant'
      BY <2>1, SmallStepsKeepChain
    <2>2. ASSUME NEW o \in Order, RefundToBalance(o) \/ QueryOriginalRefund(o)
          PROVE  ChainInvariant'
      BY <2>2, CompleteRefundKeepsChain DEF RefundToBalance, QueryOriginalRefund
    <2>3. ASSUME NEW o \in Order, RefundCallLost(o)
          PROVE  ChainInvariant'
      BY <2>3, StutterKeepsChain DEF RefundCallLost
    <2>4. ASSUME NEW o \in Order, AdminComplete(o)
          PROVE  ChainInvariant'
      BY <2>4, PlacedOrderHandled DEF AdminComplete
    <2>5. ASSUME NEW o \in Order, NEW status \in {"CREATED", "CANCELED", "TIMEOUT"},
                 AdminSetStatus(o, status)
          PROVE  ChainInvariant'
      BY <2>5, SmallStepsKeepChain
    <2>6. ASSUME NEW S, DeleteOrders(S)
          PROVE  ChainInvariant'
      BY <2>6, RemoveOrdersKeepsChain DEF DeleteOrders
    <2>7. ASSUME NEW day, CleanupOrders(day)
          PROVE  ChainInvariant'
      BY <2>7, RemoveOrdersKeepsChain DEF CleanupOrders
    <2>8. ASSUME NEW p \in Plan, DeletePlan(p)
          PROVE  ChainInvariant'
      BY <2>8, DeletePlanKeepsChain
    <2>9. ASSUME NEW p \in Plan, NEW c \in Cycle, DropCycle(p, c)
          PROVE  ChainInvariant'
      BY <2>9, StutterKeepsChain DEF DropCycle
    <2> QED BY <1>9, <2>1, <2>2, <2>3, <2>4, <2>5, <2>6, <2>7, <2>8, <2>9 DEF AdminStep
  <1>10. CASE JobStep
    <2>1. ASSUME NEW S, FinalizeStale(S)
          PROVE  ChainInvariant'
      BY <2>1, EndUnpaidKeepsChain DEF FinalizeStale
    <2>2. CASE ExpireDue
      BY <2>2, StutterKeepsChain DEF ExpireDue
    <2>3. CASE CleanupExpired
      BY <2>3, StutterKeepsChain DEF CleanupExpired
    <2> QED BY <1>10, <2>1, <2>2, <2>3 DEF JobStep
  <1>11. CASE Tick
    BY <1>11, StutterKeepsChain DEF Tick
  <1>12. CASE UNCHANGED vars
    BY <1>12, StutterKeepsChain DEF vars
  <1> QED BY <1>7, <1>8, <1>9, <1>10, <1>11, <1>12 DEF Next

-----------------------------------------------------------------------------
(* What holds of every behaviour.                                          *)

\* The inductive invariant holds always.
THEOREM ChainInvariantHolds == Spec => []ChainInvariant
  <1>1. Init => ChainInvariant
    BY InitChain
  <1>2. ChainInvariant /\ [Next]_vars => ChainInvariant'
    BY NextKeepsChain
  <1> QED BY <1>1, <1>2, PTL DEF Spec

\* Value flows only from older orders to younger ones, so the links between
\* them, which refunds follow backwards, never lead back to where they began,
\* except through a renewal.
THEOREM ValueAlwaysFlowsForward == Spec => []ValueFlowsForward
  <1>1. ChainInvariant => ValueFlowsForward
    BY DEF ChainInvariant
  <1> QED BY <1>1, ChainInvariantHolds, PTL

\* No deletion leaves a link or a superseded_by column that names no order.
THEOREM NoDanglingLinks == Spec => [](LinksJoinOrders /\ SupersededIsLinked)
  <1>1. ChainInvariant => LinksJoinOrders /\ SupersededIsLinked
    BY DEF ChainInvariant
  <1> QED BY <1>1, ChainInvariantHolds, PTL

-----------------------------------------------------------------------------
(* A finished refund is final.                                             *)

RefundsStayFinal == \A o \in placed \cap placed' : StaysRefunded(order[o], order'[o])

\* A row that keeps both columns stays refunded.
LEMMA SameStaysRefunded ==
    ASSUME NEW row, NEW new, new.refund = row.refund, new.settlement = row.settlement
    PROVE  StaysRefunded(row, new)
  BY DEF StaysRefunded

\* Fulfilment, whatever order it is called for: it opens no settled order.
LEMMA FulfilmentKeepsRefunds ==
    ASSUME ChainInvariant, NEW o \in Order, NEW row, NEW bal, NEW led, DOMAIN row = Columns,
           o \in placed => row.refund = order[o].refund /\ row.settlement = order[o].settlement,
           HandlePaidOrder(o, row, bal, led)
    PROVE  RefundsStayFinal
  <1>1. placed \subseteq Order /\ DOMAIN order = Order
        /\ \A q \in Order : DOMAIN order[q] = Columns
    BY BoundsAssumption DEF ChainInvariant, Order, Columns
  <1>2. ASSUME NEW q \in placed
        PROVE  StaysRefunded(order[q], order'[q])
    <2>1. q \in Order /\ DOMAIN order[q] = Columns
      BY <1>1
    <2>2. CASE FulfilPlan(o, row, bal, led)
      <3>1. CASE q = o
        <4>1. \E target : order'[q] =
                 [row EXCEPT !.status = "COMPLETED", !.paidOn = now,
                             !.sub = target, !.settlement = Open(row)]
          BY <2>1, <2>2, <3>1 DEF FulfilPlan
        <4>2. order'[q].refund = row.refund /\ order'[q].settlement = Open(row)
          BY <4>1, ColumnsKnown
        <4> QED BY <3>1, <4>2 DEF StaysRefunded, Open
      <3>2. CASE q # o
        <4>1. \/ order'[q] = order[q]
              \/ order'[q] =
                   [order[q] EXCEPT !.superseded = o,
                                    !.settlement = IF @ = "REFUNDED" THEN @ ELSE "CONSUMED"]
          BY <2>1, <2>2, <3>2 DEF FulfilPlan
        <4> QED BY <2>1, <4>1, ColumnsKnown DEF StaysRefunded
      <3> QED BY <3>1, <3>2
    <2>3. CASE FulfilNothing(o, row, bal, led)
      <3>1. order'[q] = IF q = o THEN [row EXCEPT !.status = "PAID", !.paidOn = now]
                        ELSE order[q]
        BY <1>1, <2>1, <2>3 DEF FulfilNothing
      <3> QED BY <3>1, ColumnsKnown DEF StaysRefunded
    <2>4. CASE FulfilRecharge(o, row, bal, led)
      <3>1. order'[q] = IF q = o THEN [row EXCEPT !.status = "COMPLETED", !.paidOn = now,
                                                  !.settlement = Open(row)]
                        ELSE order[q]
        BY <1>1, <2>1, <2>4 DEF FulfilRecharge
      <3> QED BY <3>1, ColumnsKnown DEF StaysRefunded, Open
    <2> QED BY <2>2, <2>3, <2>4 DEF HandlePaidOrder
  <1> QED BY <1>2 DEF RefundsStayFinal

\* A completed refund settles only orders that were not refunded before.
LEMMA CompletedRefundKeepsRefunds ==
    ASSUME ChainInvariant, NEW o, CompleteRefund(o)
    PROVE  RefundsStayFinal
  <1>1. ASSUME NEW q \in placed
        PROVE  StaysRefunded(order[q], order'[q])
    <2>1. q \in Order /\ DOMAIN order[q] = Columns
      BY BoundsAssumption DEF ChainInvariant, Order, Columns
    <2>2. \/ order'[q] = Refunded(order[q], "REFUNDED")
          \/ order[q].refund # "REFUNDED"
          \/ order'[q] = order[q]
      BY <2>1 DEF CompleteRefund, Covered
    <2> QED BY <2>1, <2>2, ColumnsKnown DEF StaysRefunded, Refunded
  <1> QED BY <1>1 DEF RefundsStayFinal

\* A handler that changes one order, and neither column of a refunded one.
LEMMA OneRowKeepsRefunds ==
    ASSUME NEW o, NEW new, StaysRefunded(order[o], new), DOMAIN order = Order,
           placed \subseteq Order, order' = [order EXCEPT ![o] = new]
    PROVE  RefundsStayFinal
  <1>1. \A q \in placed : order'[q] = new \/ order'[q] = order[q]
    OBVIOUS
  <1>2. \A q \in placed : q = o \/ order'[q] = order[q]
    OBVIOUS
  <1>3. \A q \in placed : StaysRefunded(order[q], order[q])
    BY SameStaysRefunded
  <1> QED BY <1>1, <1>2, <1>3 DEF RefundsStayFinal

LEMMA NextKeepsRefunds ==
    ASSUME ChainInvariant, Next
    PROVE  RefundsStayFinal
  <1>1. placed \subseteq Order /\ DOMAIN order = Order
        /\ \A q \in Order : DOMAIN order[q] = Columns
    BY BoundsAssumption DEF ChainInvariant, Order, Columns
  <1>2. ASSUME UNCHANGED order
        PROVE  RefundsStayFinal
    BY <1>2, SameStaysRefunded DEF RefundsStayFinal
  <1>3. ASSUME \A q \in placed \cap placed' : order'[q].refund = order[q].refund
                                           /\ order'[q].settlement = order[q].settlement
        PROVE  RefundsStayFinal
    BY <1>3, SameStaysRefunded DEF RefundsStayFinal
  <1>4. ASSUME NEW o \in placed, NEW refund, order[o].refund # "REFUNDED",
               order' = [order EXCEPT ![o].refund = refund]
        PROVE  RefundsStayFinal
    <2>1. order' = [order EXCEPT ![o] = [order[o] EXCEPT !.refund = refund]]
      BY <1>4
    <2>2. StaysRefunded(order[o], [order[o] EXCEPT !.refund = refund])
      BY <1>4 DEF StaysRefunded
    <2> QED BY <1>1, <2>1, <2>2, OneRowKeepsRefunds
  <1>5. ASSUME NEW o \in placed, NEW provider, NEW bal, NEW led,
               HandlePaidOrder(o, [order[o] EXCEPT !.provider = provider], bal, led)
        PROVE  RefundsStayFinal
    <2> DEFINE row == [order[o] EXCEPT !.provider = provider]
    <2>1. o \in Order /\ DOMAIN row = Columns /\ row.refund = order[o].refund
          /\ row.settlement = order[o].settlement
      BY <1>1, ColumnsKnown
    <2>2. HandlePaidOrder(o, row, bal, led)
      BY <1>5
    <2> HIDE DEF row
    <2> QED BY <2>1, <2>2, FulfilmentKeepsRefunds
  <1>6. ASSUME NEW S, NEW status, EndUnpaid(S, status)
        PROVE  RefundsStayFinal
    <2>1. \A q \in placed : \/ order'[q] = [order[q] EXCEPT !.status = status]
                            \/ order'[q] = order[q]
      BY <1>1, <1>6 DEF EndUnpaid
    <2> QED BY <1>1, <1>3, <2>1, ColumnsKnown
  <1>7. ASSUME NEW S, RemoveOrders(S)
        PROVE  RefundsStayFinal
    <2>1. \A q \in placed \cap placed' : order'[q] = Detached(q, S)
      BY <1>1, <1>7 DEF RemoveOrders
    <2>2. ASSUME NEW q \in placed \cap placed'
          PROVE  order'[q].refund = order[q].refund /\ order'[q].settlement = order[q].settlement
      <3>1. DOMAIN order[q] = Columns /\ order'[q] = Detached(q, S)
        BY <1>1, <2>1
      <3> QED BY <3>1, ColumnsKnown DEF Detached
    <2> QED BY <1>3, <2>2
  <1>8. ASSUME NEW p \in Plan, NEW c \in Cycle, CreateOrder(p, c)
        PROVE  RefundsStayFinal
    <2> DEFINE o    == made + 1
               view == Preview(p, c)
    <2>1. o \in Order /\ o \notin placed
      BY <1>8, NextIdIsNew DEF CreateOrder
    <2>2. PICK parent \in AnchorOrders(ChainSources(view)) :
            LET row  == NewOrder(o, p, c, view, parent)
                zero == [row EXCEPT !.provider = "ZERO"]
            IN  \/ order' = [order EXCEPT ![o] = row]
                \/ order' = [order EXCEPT ![o] = zero]
                \/ HandlePaidOrder(o, zero, balance, ledger)
      BY <1>8 DEF CreateOrder
    <2> DEFINE row  == NewOrder(o, p, c, view, parent)
               zero == [row EXCEPT !.provider = "ZERO"]
    <2>3. DOMAIN row = Columns
      BY ColumnsKnown DEF NewOrder, BlankOrder
    <2>4. DOMAIN zero = Columns
      BY <2>3
    <2>5. CASE HandlePaidOrder(o, zero, balance, ledger)
      <3> HIDE DEF row, zero
      <3> QED BY <2>1, <2>4, <2>5, FulfilmentKeepsRefunds
    <2>6. ASSUME NEW new, order' = [order EXCEPT ![o] = new]
          PROVE  RefundsStayFinal
      <3> HIDE DEF o
      <3> QED BY <1>3, <2>1, <2>6
    <2> QED BY <2>2, <2>5, <2>6
  <1>9. ASSUME NEW a, CreateRechargeOrder(a)
        PROVE  RefundsStayFinal
    <2>1. made + 1 \notin placed
      BY <1>9, NextIdIsNew DEF CreateRechargeOrder
    <2>2. \A q \in placed : order'[q] = order[q]
      BY <1>1, <1>9, <2>1 DEF CreateRechargeOrder
    <2> QED BY <1>3, <2>2
  <1>10. CASE UserStep
    <2>1. ASSUME NEW o \in Order, PayLink(o)
          PROVE  RefundsStayFinal
      <3>1. order' = [order EXCEPT ![o].provider = "EPAY"]
        BY <2>1 DEF PayLink
      <3> QED BY <1>1, <1>3, <3>1, ColumnsKnown
    <2>2. ASSUME NEW o \in Order, RequestRefund(o)
          PROVE  RefundsStayFinal
      BY <1>4, <2>2 DEF RequestRefund, Refundable
    <2>3. ASSUME NEW o \in Order, PayByBalance(o)
          PROVE  RefundsStayFinal
      BY <1>5, <2>3 DEF PayByBalance, Payable
    <2>4. ASSUME NEW o \in Order, CloseOrder(o) \/ CancelOrder(o)
          PROVE  RefundsStayFinal
      BY <1>6, <2>4 DEF CloseOrder, CancelOrder
    <2> QED BY <1>8, <1>9, <1>10, <2>1, <2>2, <2>3, <2>4 DEF UserStep
  <1>11. CASE GatewayStep
    <2>1. ASSUME NEW o \in Order, GatewayPay(o) \/ GatewaySettle(o)
          PROVE  RefundsStayFinal
      BY <1>2, <2>1 DEF GatewayPay, GatewaySettle
    <2>2. ASSUME NEW o \in Order, Notify(o)
          PROVE  RefundsStayFinal
      <3>1. o \in placed /\ DOMAIN order[o] = Columns
        BY <1>1, <2>2 DEF Notify
      <3>2. UNCHANGED order \/ HandlePaidOrder(o, order[o], balance, ledger)
        BY <2>2 DEF Notify
      <3> QED BY <1>2, <3>1, <3>2, FulfilmentKeepsRefunds
    <2> QED BY <1>11, <2>1, <2>2 DEF GatewayStep
  <1>12. CASE AdminStep
    <2>1. ASSUME NEW o \in Order, RejectRefund(o)
          PROVE  RefundsStayFinal
      BY <1>4, <2>1 DEF RejectRefund
    <2>2. ASSUME NEW o \in Order, RefundToBalance(o) \/ QueryOriginalRefund(o)
          PROVE  RefundsStayFinal
      BY <2>2, CompletedRefundKeepsRefunds DEF RefundToBalance, QueryOriginalRefund
    <2>3. ASSUME NEW o \in Order, ApproveOriginalRefund(o)
          PROVE  RefundsStayFinal
      BY <1>4, <2>3 DEF ApproveOriginalRefund, AdminMayRefund, Refundable
    <2>4. ASSUME NEW o \in Order, AdminComplete(o)
          PROVE  RefundsStayFinal
      BY <1>5, <2>4 DEF AdminComplete
    <2>5. ASSUME NEW o \in Order, NEW status, AdminSetStatus(o, status)
          PROVE  RefundsStayFinal
      <3>1. order' = [order EXCEPT ![o].status = status, ![o].paidOn = None]
        BY <2>5 DEF AdminSetStatus
      <3> QED BY <1>1, <1>3, <3>1, ColumnsKnown
    <2>6. ASSUME NEW S, DeleteOrders(S)
          PROVE  RefundsStayFinal
      BY <1>7, <2>6 DEF DeleteOrders
    <2>7. ASSUME NEW day, CleanupOrders(day)
          PROVE  RefundsStayFinal
      BY <1>7, <2>7 DEF CleanupOrders
    <2>8. ASSUME NEW p \in Plan, DeletePlan(p)
          PROVE  RefundsStayFinal
      <3>1. \A q \in placed : \/ order'[q] = [order[q] EXCEPT !.plan = NoPlan]
                              \/ order'[q] = order[q]
        BY <1>1, <2>8 DEF DeletePlan
      <3> QED BY <1>1, <1>3, <3>1, ColumnsKnown
    <2>9. ASSUME NEW o \in Order, RefundCallLost(o)
          PROVE  RefundsStayFinal
      BY <1>2, <2>9 DEF RefundCallLost
    <2>10. ASSUME NEW p \in Plan, NEW c \in Cycle, DropCycle(p, c)
           PROVE  RefundsStayFinal
      BY <1>2, <2>10 DEF DropCycle
    <2> QED BY <1>12, <2>1, <2>2, <2>3, <2>4, <2>5, <2>6, <2>7, <2>8, <2>9, <2>10
            DEF AdminStep
  <1>13. CASE JobStep
    <2>1. ASSUME NEW S, FinalizeStale(S)
          PROVE  RefundsStayFinal
      BY <1>6, <2>1 DEF FinalizeStale
    <2>2. CASE ExpireDue \/ CleanupExpired
      BY <1>2, <2>2 DEF ExpireDue, CleanupExpired
    <2> QED BY <1>13, <2>1, <2>2 DEF JobStep
  <1>14. CASE Tick
    BY <1>2, <1>14 DEF Tick
  <1> QED BY <1>10, <1>11, <1>12, <1>13, <1>14 DEF Next

\* No callback, status change, refund or deletion undoes a finished refund.
THEOREM RefundsAreFinal == Spec => RefundIsFinal
  <1>1. ChainInvariant /\ [Next]_vars => [RefundsStayFinal]_vars
    BY NextKeepsRefunds
  <1> QED BY <1>1, ChainInvariantHolds, PTL DEF Spec, RefundIsFinal, RefundsStayFinal

(***************************************************************************)
(* Some member of a nonempty set of subsets of a finite set has no other   *)
(* inside it.                                                              *)
(***************************************************************************)
LEMMA LeastSubset ==
    ASSUME NEW T, IsFiniteSet(T), NEW M, M \subseteq SUBSET T, M # {}
    PROVE  \E B \in M : \A U \in M : U \subseteq B => U = B
<1>1. IsWellFoundedOn(StrictSubsetOrdering(T), FiniteSubsetsOf(T))
    BY FS_StrictSubsetOrderingWellFounded
<1>2. M \subseteq FiniteSubsetsOf(T)
    BY FS_Subset DEF FiniteSubsetsOf
<1>3. PICK B \in M : \A U \in M : <<U, B>> \notin StrictSubsetOrdering(T)
    BY <1>1, <1>2, WFMin
<1> QED BY <1>3 DEF StrictSubsetOrdering

-----------------------------------------------------------------------------
(* MapThenSumSet: the sum over a finite set adds up, whatever element it   *)
(* is begun with.                                                          *)

Some(U) == CHOOSE x \in U : TRUE

\* g is how MapThenSumSet adds up f over T and its subsets.
AddsUp(g, f, T) ==
    g = [U \in SUBSET T |-> IF U = {} THEN 0 ELSE f[Some(U)] + g[U \ {Some(U)}]]

Sum(f, T) == MapThenSumSet(LAMBDA x : f[x], T)

LEMMA SumUnfolds ==
    ASSUME NEW T, NEW f
    PROVE  Sum(f, T) = (CHOOSE g : AddsUp(g, f, T))[T]
BY DEF Sum, MapThenSumSet, MapThenFoldSet, AddsUp, Some

LEMMA AddsUpFacts ==
    ASSUME NEW T, NEW f, NEW g, AddsUp(g, f, T)
    PROVE  /\ g[{}] = 0
           /\ \A U \in SUBSET T : U # {} => /\ g[U] = f[Some(U)] + g[U \ {Some(U)}]
                                            /\ Some(U) \in U
<1> DEFINE h == [U \in SUBSET T |-> IF U = {} THEN 0 ELSE f[Some(U)] + g[U \ {Some(U)}]]
<1>1. \A U \in SUBSET T : h[U] = IF U = {} THEN 0 ELSE f[Some(U)] + g[U \ {Some(U)}]
    OBVIOUS
<1>2. g = h
    BY DEF AddsUp
<1> HIDE DEF h
<1> QED BY <1>1, <1>2 DEF Some

LEMMA AddsUpOnce ==
    ASSUME NEW T, IsFiniteSet(T), NEW T2, NEW f, NEW g, NEW g2,
           AddsUp(g, f, T), AddsUp(g2, f, T2)
    PROVE  \A U \in SUBSET (T \cap T2) : g[U] = g2[U]
<1> DEFINE M == {U \in SUBSET (T \cap T2) : g[U] # g2[U]}
<1> SUFFICES ASSUME M # {} PROVE FALSE
    OBVIOUS
<1>0. M \subseteq SUBSET T
    OBVIOUS
<1>1. PICK B \in M : \A U \in M : U \subseteq B => U = B
    <2> HIDE DEF M
    <2> QED BY <1>0, LeastSubset
<1>2. B \in SUBSET T /\ B \in SUBSET T2 /\ g[B] # g2[B]
    OBVIOUS
<1>3. B # {}
    BY <1>2, AddsUpFacts
<1>4. /\ g[B] = f[Some(B)] + g[B \ {Some(B)}]
      /\ g2[B] = f[Some(B)] + g2[B \ {Some(B)}]
      /\ Some(B) \in B
    BY <1>2, <1>3, AddsUpFacts
<1>5. B \ {Some(B)} \notin M
    BY <1>1, <1>4
<1>6. g[B \ {Some(B)}] = g2[B \ {Some(B)}]
    BY <1>2, <1>5
<1> QED BY <1>2, <1>4, <1>6

LEMMA AddsUpExists ==
    ASSUME NEW T, IsFiniteSet(T), NEW f
    PROVE  AddsUp(CHOOSE g : AddsUp(g, f, T), f, T)
<1> DEFINE M == {U \in SUBSET T : ~ \E g : AddsUp(g, f, U)}
           G(U) == CHOOSE g : AddsUp(g, f, U)
<1> SUFFICES ASSUME M # {} PROVE FALSE
    OBVIOUS
<1>0. M \subseteq SUBSET T
    OBVIOUS
<1>1. PICK B \in M : \A U \in M : U \subseteq B => U = B
    <2> HIDE DEF M
    <2> QED BY <1>0, LeastSubset
<1>2. \A U \in SUBSET B : U # B => AddsUp(G(U), f, U)
    BY <1>1
<1> DEFINE h == [U \in SUBSET B |-> IF U = {} THEN 0
                                    ELSE f[Some(U)] + G(U \ {Some(U)})[U \ {Some(U)}]]
<1>3. \A U \in SUBSET B :
          h[U] = IF U = {} THEN 0 ELSE f[Some(U)] + G(U \ {Some(U)})[U \ {Some(U)}]
    OBVIOUS
<1>4. \A U \in SUBSET B : IsFiniteSet(U)
    BY FS_Subset
<1> HIDE DEF h, G
<1>5. ASSUME NEW U \in SUBSET B, U # {}
      PROVE  h[U] = f[Some(U)] + h[U \ {Some(U)}]
    <2> DEFINE V == U \ {Some(U)}
    <2>1. Some(U) \in U
        BY <1>5 DEF Some
    <2>2. V \in SUBSET B /\ V # B /\ h[U] = f[Some(U)] + G(V)[V]
        BY <1>3, <1>5, <2>1
    <2>3. AddsUp(G(V), f, V)
        BY <1>2, <2>2
    <2> HIDE DEF V
    <2>4. CASE V = {}
        BY <1>3, <2>2, <2>3, <2>4, AddsUpFacts DEF V
    <2>5. CASE V # {}
        <3> DEFINE W == V \ {Some(V)}
        <3>1. G(V)[V] = f[Some(V)] + G(V)[W] /\ Some(V) \in V
            BY <2>3, <2>5, AddsUpFacts
        <3>2. W \in SUBSET B /\ W # B /\ W \in SUBSET (V \cap W)
            BY <2>2, <3>1
        <3>3. AddsUp(G(W), f, W)
            BY <1>2, <3>2
        <3>4. h[V] = f[Some(V)] + G(W)[W]
            BY <1>3, <2>2, <2>5
        <3> HIDE DEF W
        <3>5. G(V)[W] = G(W)[W]
            BY <1>4, <2>2, <2>3, <3>2, <3>3, AddsUpOnce
        <3> QED BY <2>2, <3>1, <3>4, <3>5 DEF V
    <2> QED BY <2>4, <2>5
<1>6. h = [U \in SUBSET B |-> h[U]]
    BY DEF h
<1>7. AddsUp(h, f, B)
    <2> DEFINE k == [U \in SUBSET B |-> IF U = {} THEN 0 ELSE f[Some(U)] + h[U \ {Some(U)}]]
    <2>1. \A U \in SUBSET B : h[U] = k[U]
        BY <1>3, <1>5
    <2>2. k = [U \in SUBSET B |-> k[U]]
        OBVIOUS
    <2>3. h = k
        <3> HIDE DEF k
        <3> QED BY <1>6, <2>1, <2>2
    <2> QED BY <2>3 DEF AddsUp
<1> QED BY <1>1, <1>7

(***************************************************************************)
(* A sum without elements is 0, any other is begun with some element.      *)
(***************************************************************************)
LEMMA SumBegins ==
    ASSUME NEW T, IsFiniteSet(T), NEW f
    PROVE  /\ Sum(f, {}) = 0
           /\ T # {} => /\ Some(T) \in T
                        /\ Sum(f, T) = f[Some(T)] + Sum(f, T \ {Some(T)})
<1> DEFINE G(U) == CHOOSE g : AddsUp(g, f, U)
<1>1. \A U \in SUBSET T : AddsUp(G(U), f, U) /\ IsFiniteSet(U)
    BY FS_Subset, AddsUpExists
<1>2. \A U : Sum(f, U) = G(U)[U]
    BY SumUnfolds
<1> HIDE DEF G
<1>3. G({})[{}] = 0
    BY <1>1, AddsUpFacts
<1>4. ASSUME T # {}
      PROVE  Some(T) \in T /\ Sum(f, T) = f[Some(T)] + Sum(f, T \ {Some(T)})
    <2> DEFINE V == T \ {Some(T)}
    <2>1. Some(T) \in T /\ G(T)[T] = f[Some(T)] + G(T)[V]
        BY <1>1, <1>4, AddsUpFacts
    <2>2. V \in SUBSET (T \cap V)
        OBVIOUS
    <2>3. AddsUp(G(T), f, T) /\ AddsUp(G(V), f, V)
        BY <1>1
    <2> HIDE DEF V
    <2>4. G(T)[V] = G(V)[V]
        BY <2>2, <2>3, AddsUpOnce
    <2> QED BY <1>2, <2>1, <2>4 DEF V
<1> QED BY <1>2, <1>3, <1>4

LEMMA SumOfNone == \A f : Sum(f, {}) = 0
BY SumBegins, FS_EmptySet

LEMMA SumIsNat ==
    ASSUME NEW T, IsFiniteSet(T), NEW f, \A x \in T : f[x] \in Nat
    PROVE  Sum(f, T) \in Nat
<1> DEFINE M == {U \in SUBSET T : Sum(f, U) \notin Nat}
<1> SUFFICES ASSUME M # {} PROVE FALSE
    OBVIOUS
<1>0. M \subseteq SUBSET T
    OBVIOUS
<1>1. PICK B \in M : \A U \in M : U \subseteq B => U = B
    <2> HIDE DEF M
    <2> QED BY <1>0, LeastSubset
<1>2. IsFiniteSet(B) /\ B \in SUBSET T /\ Sum(f, B) \notin Nat
    BY FS_Subset
<1>3. B # {}
    <2>1. 0 \in Nat
        OBVIOUS
    <2> QED BY <1>2, <2>1, SumOfNone
<1>4. Some(B) \in B /\ Sum(f, B) = f[Some(B)] + Sum(f, B \ {Some(B)})
    BY <1>2, <1>3, SumBegins
<1>5. Sum(f, B \ {Some(B)}) \in Nat
    BY <1>1, <1>4
<1> QED BY <1>2, <1>4, <1>5

(***************************************************************************)
(* A sum may be begun with any element.                                    *)
(***************************************************************************)
LEMMA SumSplits ==
    ASSUME NEW T, IsFiniteSet(T), NEW f, \A y \in T : f[y] \in Nat, NEW x \in T
    PROVE  Sum(f, T) = f[x] + Sum(f, T \ {x})
<1> DEFINE M == {U \in SUBSET T : \E y \in U : Sum(f, U) # f[y] + Sum(f, U \ {y})}
<1> SUFFICES ASSUME M # {} PROVE FALSE
    OBVIOUS
<1>0. M \subseteq SUBSET T
    OBVIOUS
<1>1. PICK B \in M : \A U \in M : U \subseteq B => U = B
    <2> HIDE DEF M
    <2> QED BY <1>0, LeastSubset
<1> DEFINE p == Some(B)
<1>2. \A U \in SUBSET T : IsFiniteSet(U) /\ Sum(f, U) \in Nat
    BY FS_Subset, SumIsNat
<1>3. PICK y \in B : Sum(f, B) # f[y] + Sum(f, B \ {y})
    OBVIOUS
<1>4. p \in B /\ Sum(f, B) = f[p] + Sum(f, B \ {p})
    BY <1>2, SumBegins
<1> HIDE DEF p
<1>5. p # y
    BY <1>3, <1>4
<1>6. \A U \in SUBSET B : U # B => \A z \in U : Sum(f, U) = f[z] + Sum(f, U \ {z})
    BY <1>1
<1> DEFINE U == (B \ {p}) \ {y}
<1>7. (B \ {y}) \ {p} = U /\ U \in SUBSET T
    OBVIOUS
<1>8. Sum(f, B \ {p}) = f[y] + Sum(f, U)
    BY <1>4, <1>5, <1>6
<1>9. Sum(f, B \ {y}) = f[p] + Sum(f, U)
    BY <1>4, <1>5, <1>6, <1>7
<1>10. f[p] \in Nat /\ f[y] \in Nat /\ Sum(f, U) \in Nat
    BY <1>2, <1>4, <1>7
<1> HIDE DEF U
<1>11. f[p] + (f[y] + Sum(f, U)) = f[y] + (f[p] + Sum(f, U))
    BY <1>10
<1> QED BY <1>3, <1>4, <1>8, <1>9, <1>11

(***************************************************************************)
(* Smaller parts and fewer of them make a smaller sum.                     *)
(***************************************************************************)
LEMMA SumOfLess ==
    ASSUME NEW T, IsFiniteSet(T), NEW f, NEW g,
           \A x \in T : f[x] \in Nat /\ g[x] \in Nat /\ f[x] <= g[x]
    PROVE  Sum(f, T) <= Sum(g, T)
<1> DEFINE M == {U \in SUBSET T : ~ (Sum(f, U) <= Sum(g, U))}
<1> SUFFICES ASSUME M # {} PROVE FALSE
    OBVIOUS
<1>0. M \subseteq SUBSET T
    OBVIOUS
<1>1. PICK B \in M : \A U \in M : U \subseteq B => U = B
    <2> HIDE DEF M
    <2> QED BY <1>0, LeastSubset
<1>2. \A U \in SUBSET T : IsFiniteSet(U) /\ Sum(f, U) \in Nat /\ Sum(g, U) \in Nat
    BY FS_Subset, SumIsNat
<1>3. B \in SUBSET T /\ ~ (Sum(f, B) <= Sum(g, B))
    OBVIOUS
<1>4. PICK y \in B : TRUE
    <2> SUFFICES ASSUME B = {} PROVE FALSE
        OBVIOUS
    <2>1. Sum(f, B) = 0 /\ Sum(g, B) = 0
        BY SumOfNone
    <2> QED BY <1>3, <2>1
<1> DEFINE U == B \ {y}
<1>5. U \in SUBSET T /\ Sum(f, U) <= Sum(g, U)
    BY <1>1, <1>4
<1>6. Sum(f, B) = f[y] + Sum(f, U) /\ Sum(g, B) = g[y] + Sum(g, U)
    BY <1>2, <1>3, <1>4, SumSplits
<1>7. Sum(f, U) \in Nat /\ Sum(g, U) \in Nat
    BY <1>2, <1>5
<1>8. f[y] \in Nat /\ g[y] \in Nat /\ f[y] <= g[y]
    BY <1>3, <1>4
<1> HIDE DEF U
<1>9. f[y] + Sum(f, U) <= g[y] + Sum(g, U)
    BY <1>5, <1>7, <1>8
<1> QED BY <1>3, <1>6, <1>9

LEMMA SumOfFewer ==
    ASSUME NEW T, IsFiniteSet(T), NEW f, \A x \in T : f[x] \in Nat, NEW U \in SUBSET T
    PROVE  Sum(f, U) <= Sum(f, T)
<1> DEFINE M == {V \in SUBSET T : U \subseteq V /\ ~ (Sum(f, U) <= Sum(f, V))}
<1> SUFFICES ASSUME M # {} PROVE FALSE
    OBVIOUS
<1>0. M \subseteq SUBSET T
    OBVIOUS
<1>1. PICK B \in M : \A V \in M : V \subseteq B => V = B
    <2> HIDE DEF M
    <2> QED BY <1>0, LeastSubset
<1>2. \A V \in SUBSET T : IsFiniteSet(V) /\ Sum(f, V) \in Nat
    BY FS_Subset, SumIsNat
<1>3. B \in SUBSET T /\ U \subseteq B /\ ~ (Sum(f, U) <= Sum(f, B))
    OBVIOUS
<1>4. PICK y \in B : y \notin U
    BY <1>2, <1>3
<1> DEFINE V == B \ {y}
<1>5. V \in SUBSET T /\ Sum(f, U) <= Sum(f, V)
    BY <1>1, <1>4
<1>6. Sum(f, B) = f[y] + Sum(f, V) /\ f[y] \in Nat
    BY <1>2, <1>3, <1>4, SumSplits
<1>7. Sum(f, U) \in Nat /\ Sum(f, V) \in Nat
    BY <1>2, <1>5
<1> HIDE DEF V
<1>8. Sum(f, U) <= f[y] + Sum(f, V)
    BY <1>5, <1>6, <1>7
<1> QED BY <1>3, <1>6, <1>8

(***************************************************************************)
(* A sum of nothing but zeros is zero.                                     *)
(***************************************************************************)
LEMMA SumOfZeros ==
    ASSUME NEW T, IsFiniteSet(T), NEW f, \A x \in T : f[x] = 0
    PROVE  Sum(f, T) = 0
<1> DEFINE M == {U \in SUBSET T : Sum(f, U) # 0}
<1> SUFFICES ASSUME M # {} PROVE FALSE
    OBVIOUS
<1>0. M \subseteq SUBSET T
    OBVIOUS
<1>1. PICK B \in M : \A U \in M : U \subseteq B => U = B
    <2> HIDE DEF M
    <2> QED BY <1>0, LeastSubset
<1>2. IsFiniteSet(B) /\ B \in SUBSET T /\ Sum(f, B) # 0
    BY FS_Subset
<1>3. B # {}
    BY <1>2, SumOfNone
<1>4. Some(B) \in B /\ Sum(f, B) = f[Some(B)] + Sum(f, B \ {Some(B)})
    BY <1>2, <1>3, SumBegins
<1>5. Sum(f, B \ {Some(B)}) = 0
    BY <1>1, <1>4
<1> QED BY <1>2, <1>4, <1>5

(***************************************************************************)
(* A sum is that of any other function with the same values.               *)
(***************************************************************************)
LEMMA SumOfSame ==
    ASSUME NEW T, IsFiniteSet(T), NEW f, NEW g, \A x \in T : f[x] = g[x]
    PROVE  Sum(f, T) = Sum(g, T)
<1> DEFINE M == {U \in SUBSET T : Sum(f, U) # Sum(g, U)}
<1> SUFFICES ASSUME M # {} PROVE FALSE
    OBVIOUS
<1>0. M \subseteq SUBSET T
    OBVIOUS
<1>1. PICK B \in M : \A U \in M : U \subseteq B => U = B
    <2> HIDE DEF M
    <2> QED BY <1>0, LeastSubset
<1>2. IsFiniteSet(B) /\ B \in SUBSET T /\ Sum(f, B) # Sum(g, B)
    BY FS_Subset
<1>3. B # {}
    BY <1>2, SumOfNone
<1>4. /\ Some(B) \in B /\ Sum(f, B) = f[Some(B)] + Sum(f, B \ {Some(B)})
      /\ Sum(g, B) = g[Some(B)] + Sum(g, B \ {Some(B)})
    BY <1>2, <1>3, SumBegins
<1>5. Sum(f, B \ {Some(B)}) = Sum(g, B \ {Some(B)})
    BY <1>1, <1>4
<1>6. f[Some(B)] = g[Some(B)]
    BY <1>2, <1>4
<1> QED BY <1>2, <1>4, <1>5, <1>6

-----------------------------------------------------------------------------
(* The sums of the model, as sums of functions.                            *)

Bases   == [o \in Order |-> order[o].base]
Days    == [o \in Order |-> order[o].days]
Most    == [o \in Order |-> Longest(order[o])]
Least   == [o \in Order |-> Shortest(order[o])]
Credits == [s \in Sub |-> RemainingCredit(s)]

\* The orders that count for the days of subscription s, all but o.
Paying(o, s) == {q \in LiveOrdersOf(s) \ {o} : order[q].kind = "PLAN"}

\* The least and the most time those orders can have bought.
LeastLeft(o, s) == Sum(Least, Paying(o, s))
MostLeft(o, s)  == Sum(Most, Paying(o, s))
Allowed(o, s)   == LeastLeft(o, s)..MostLeft(o, s)

LEMMA IdsAreFinite ==
    /\ \A S \in SUBSET Order : IsFiniteSet(S)
    /\ \A S \in SUBSET Sub : IsFiniteSet(S)
  <1>1. IsFiniteSet(Order) /\ IsFiniteSet(Sub)
    <2>1. 1 \in Int /\ MaxOrders \in Int /\ MaxSubs \in Int
      BY BoundsAssumption
    <2> QED BY <2>1, FS_Interval DEF Order, Sub
  <1> QED BY <1>1, FS_Subset

LEMMA OriginalAmountIsSum ==
    ASSUME NEW s, placed \subseteq Order, LiveOrdersOf(s) # {}
    PROVE  OriginalAmount(s) = Sum(Bases, LiveOrdersOf(s))
  <1> DEFINE S == LiveOrdersOf(s)
             Body(g) == [U \in SUBSET S |->
                            IF U = {} THEN 0 ELSE order[Some(U)].base + g[U \ {Some(U)}]]
             h == CHOOSE g : g = Body(g)
             k == CHOOSE g : AddsUp(g, Bases, S)
  <1>1. OriginalAmount(s) = h[S]
    BY DEF OriginalAmount, MapThenSumSet, MapThenFoldSet, Some
  <1>2. Sum(Bases, S) = k[S]
    BY SumUnfolds
  <1>3. S \in SUBSET Order /\ IsFiniteSet(S)
    BY IdsAreFinite DEF LiveOrdersOf
  <1> HIDE DEF S
  <1>4. \A U \in SUBSET S : U # {} => Bases[Some(U)] = order[Some(U)].base
    BY <1>3 DEF Some, Bases
  <1>5. \A g : AddsUp(g, Bases, S) <=> g = Body(g)
    BY <1>4 DEF AddsUp
  <1>6. AddsUp(k, Bases, S)
    BY <1>3, AddsUpExists
  <1>7. h = Body(h)
    <2> HIDE DEF Body, k
    <2> QED BY <1>5, <1>6
  <1>8. AddsUp(h, Bases, S)
    BY <1>5, <1>7
  <1> HIDE DEF h, k
  <1>9. h[S] = k[S]
    BY <1>3, <1>6, <1>8, AddsUpOnce
  <1> QED BY <1>1, <1>2, <1>9 DEF S

LEMMA DaysLeftIsSum ==
    ASSUME NEW o, NEW s, placed \subseteq Order
    PROVE  DaysLeft(o, s) = Sum(Days, Paying(o, s))
  <1> DEFINE S == Paying(o, s)
             Body(g) == [U \in SUBSET S |->
                            IF U = {} THEN 0
                            ELSE order[Some(U)].days + g[U \ {Some(U)}]]
             h == CHOOSE g : g = Body(g)
             k == CHOOSE g : AddsUp(g, Days, S)
  <1>1. DaysLeft(o, s) = h[S]
    BY DEF DaysLeft, MapThenSumSet, MapThenFoldSet, Some, Paying
  <1>2. Sum(Days, S) = k[S]
    BY SumUnfolds
  <1>3. S \in SUBSET Order /\ IsFiniteSet(S)
    BY IdsAreFinite DEF LiveOrdersOf, Paying
  <1> HIDE DEF S
  <1>4. \A U \in SUBSET S : U # {} => Days[Some(U)] = order[Some(U)].days
    BY <1>3 DEF Some, Days
  <1>5. \A g : AddsUp(g, Days, S) <=> g = Body(g)
    BY <1>4 DEF AddsUp
  <1>6. AddsUp(k, Days, S)
    BY <1>3, AddsUpExists
  <1>7. h = Body(h)
    <2> HIDE DEF Body, k
    <2> QED BY <1>5, <1>6
  <1>8. AddsUp(h, Days, S)
    BY <1>5, <1>7
  <1> HIDE DEF h, k
  <1>9. h[S] = k[S]
    BY <1>3, <1>6, <1>8, AddsUpOnce
  <1> QED BY <1>1, <1>2, <1>9 DEF S

LEMMA MostDaysIsSum ==
    ASSUME NEW s, placed \subseteq Order
    PROVE  MostDays(s) = Sum(Most, PlanOrdersOf(s))
  <1> DEFINE S == PlanOrdersOf(s)
             Body(g) == [U \in SUBSET S |->
                            IF U = {} THEN 0
                            ELSE Longest(order[Some(U)]) + g[U \ {Some(U)}]]
             h == CHOOSE g : g = Body(g)
             k == CHOOSE g : AddsUp(g, Most, S)
  <1>1. MostDays(s) = h[S]
    BY DEF MostDays, MapThenSumSet, MapThenFoldSet, Some
  <1>2. Sum(Most, S) = k[S]
    BY SumUnfolds
  <1>3. S \in SUBSET Order /\ IsFiniteSet(S)
    BY IdsAreFinite DEF LiveOrdersOf, PlanOrdersOf
  <1> HIDE DEF S
  <1>4. \A U \in SUBSET S : U # {} => Most[Some(U)] = Longest(order[Some(U)])
    BY <1>3 DEF Some, Most
  <1>5. \A g : AddsUp(g, Most, S) <=> g = Body(g)
    BY <1>4 DEF AddsUp
  <1>6. AddsUp(k, Most, S)
    BY <1>3, AddsUpExists
  <1>7. h = Body(h)
    <2> HIDE DEF Body, k
    <2> QED BY <1>5, <1>6
  <1>8. AddsUp(h, Most, S)
    BY <1>5, <1>7
  <1> HIDE DEF h, k
  <1>9. h[S] = k[S]
    BY <1>3, <1>6, <1>8, AddsUpOnce
  <1> QED BY <1>1, <1>2, <1>9 DEF S

LEMMA LeastDaysIsSum ==
    ASSUME NEW s, placed \subseteq Order
    PROVE  LeastDays(s) = Sum(Least, PlanOrdersOf(s))
  <1> DEFINE S == PlanOrdersOf(s)
             Body(g) == [U \in SUBSET S |->
                            IF U = {} THEN 0
                            ELSE Shortest(order[Some(U)]) + g[U \ {Some(U)}]]
             h == CHOOSE g : g = Body(g)
             k == CHOOSE g : AddsUp(g, Least, S)
  <1>1. LeastDays(s) = h[S]
    BY DEF LeastDays, MapThenSumSet, MapThenFoldSet, Some
  <1>2. Sum(Least, S) = k[S]
    BY SumUnfolds
  <1>3. S \in SUBSET Order /\ IsFiniteSet(S)
    BY IdsAreFinite DEF LiveOrdersOf, PlanOrdersOf
  <1> HIDE DEF S
  <1>4. \A U \in SUBSET S : U # {} => Least[Some(U)] = Shortest(order[Some(U)])
    BY <1>3 DEF Some, Least
  <1>5. \A g : AddsUp(g, Least, S) <=> g = Body(g)
    BY <1>4 DEF AddsUp
  <1>6. AddsUp(k, Least, S)
    BY <1>3, AddsUpExists
  <1>7. h = Body(h)
    <2> HIDE DEF Body, k
    <2> QED BY <1>5, <1>6
  <1>8. AddsUp(h, Least, S)
    BY <1>5, <1>7
  <1> HIDE DEF h, k
  <1>9. h[S] = k[S]
    BY <1>3, <1>6, <1>8, AddsUpOnce
  <1> QED BY <1>1, <1>2, <1>9 DEF S

LEMMA TotalCreditIsSum ==
    ASSUME Running \subseteq Sub
    PROVE  TotalCredit = Sum(Credits, Running)
  <1> DEFINE S == Running
             Body(g) == [U \in SUBSET S |->
                            IF U = {} THEN 0 ELSE RemainingCredit(Some(U)) + g[U \ {Some(U)}]]
             h == CHOOSE g : g = Body(g)
             k == CHOOSE g : AddsUp(g, Credits, S)
  <1>1. TotalCredit = h[S]
    BY DEF TotalCredit, MapThenSumSet, MapThenFoldSet, Some
  <1>2. Sum(Credits, S) = k[S]
    BY SumUnfolds
  <1>3. S \in SUBSET Sub /\ IsFiniteSet(S)
    BY IdsAreFinite
  <1> HIDE DEF S
  <1>4. \A U \in SUBSET S : U # {} => Credits[Some(U)] = RemainingCredit(Some(U))
    BY <1>3 DEF Some, Credits
  <1>5. \A g : AddsUp(g, Credits, S) <=> g = Body(g)
    BY <1>4 DEF AddsUp
  <1>6. AddsUp(k, Credits, S)
    BY <1>3, AddsUpExists
  <1>7. h = Body(h)
    <2> HIDE DEF Body, k
    <2> QED BY <1>5, <1>6
  <1>8. AddsUp(h, Credits, S)
    BY <1>5, <1>7
  <1> HIDE DEF h, k
  <1>9. h[S] = k[S]
    BY <1>3, <1>6, <1>8, AddsUpOnce
  <1> QED BY <1>1, <1>2, <1>9 DEF S

-----------------------------------------------------------------------------
(* Numbers.                                                                *)

(***************************************************************************)
(* In a finite set that is not empty, some element is measured by a set    *)
(* that no other element's measure is smaller than.                        *)
(***************************************************************************)
LEMMA LeastMeasure ==
    ASSUME NEW S, IsFiniteSet(S), S # {}
    PROVE  \A f \in [S -> SUBSET S] :
               \E m \in S : \A y \in S : f[y] \subseteq f[m] => f[y] = f[m]
  <1> TAKE f \in [S -> SUBSET S]
  <1> DEFINE M == {f[m] : m \in S}
  <1>1. M \subseteq SUBSET S /\ M # {}
    OBVIOUS
  <1>2. PICK B \in M : \A T \in M : T \subseteq B => T = B
    <2> HIDE DEF M
    <2> QED BY <1>1, LeastSubset
  <1> QED BY <1>2

\* In a finite set of subscriptions that is not empty, one ends last, the
\* youngest of those that do.
LEMMA LastExists ==
    ASSUME NEW S \in SUBSET Sub, S # {}, \A s \in S : sub[s].end \in Nat
    PROVE  Last(S) \in S
  <1> DEFINE before(s, t) == sub[s].end < sub[t].end \/ (sub[s].end = sub[t].end /\ s < t)
             after == [s \in S |-> {t \in S : before(s, t)}]
  <1>1. IsFiniteSet(S) /\ \A s \in S : s \in Nat
    BY IdsAreFinite, BoundsAssumption DEF Sub
  <1>2. after \in [S -> SUBSET S] /\ \A s \in S : after[s] = {t \in S : before(s, t)}
    OBVIOUS
  <1>3. /\ \A s, t, u \in S : before(s, t) /\ before(t, u) => before(s, u)
        /\ \A s \in S : ~before(s, s)
        /\ \A s, t \in S : before(s, t) \/ sub[t].end < sub[s].end
                           \/ (sub[t].end = sub[s].end /\ t <= s)
    BY <1>1
  <1> HIDE DEF before, after
  <1>4. PICK m \in S : \A y \in S : after[y] \subseteq after[m] => after[y] = after[m]
    BY <1>1, <1>2, LeastMeasure
  <1>5. \A t \in S : ~before(m, t)
    <2> SUFFICES ASSUME NEW t \in S, before(m, t) PROVE FALSE
      OBVIOUS
    <2>1. t \in after[m] /\ t \notin after[t]
      BY <1>2, <1>3
    <2>2. after[t] \subseteq after[m]
      BY <1>2, <1>3
    <2> QED BY <1>4, <2>1, <2>2
  <1>6. \A t \in S : sub[t].end < sub[m].end \/ (sub[t].end = sub[m].end /\ t <= m)
    BY <1>3, <1>5
  <1> QED BY <1>6 DEF Last

LEMMA MaxExists ==
    ASSUME NEW S \in SUBSET Nat, IsFiniteSet(S), S # {}
    PROVE  Max(S) \in S
  <1> DEFINE above == [m \in S |-> {y \in S : y > m}]
  <1>1. above \in [S -> SUBSET S]
    OBVIOUS
  <1>2. \A s \in S : above[s] = {y \in S : y > s}
    OBVIOUS
  <1> HIDE DEF above
  <1>0. \A f \in [S -> SUBSET S] :
           \E m \in S : \A y \in S : f[y] \subseteq f[m] => f[y] = f[m]
    BY LeastMeasure
  <1>3. PICK m \in S : \A y \in S : above[y] \subseteq above[m] => above[y] = above[m]
    BY <1>0, <1>1
  <1>4. \A y \in S : m >= y
    <2> SUFFICES ASSUME NEW y \in S, y > m PROVE FALSE
      OBVIOUS
    <2>1. y \in above[m]
      BY <1>2
    <2>2. y \notin above[y]
      BY <1>2
    <2>3. ASSUME NEW z \in above[y] PROVE z \in above[m]
      <3>1. z \in S /\ z > y
        BY <1>2
      <3>2. z > m
        BY <3>1
      <3> QED BY <1>2, <3>1, <3>2
    <2> QED BY <1>3, <2>1, <2>2, <2>3
  <1> QED BY <1>4 DEF Max

LEMMA MinOfTwo ==
    ASSUME NEW a \in Nat, NEW b \in Nat
    PROVE  Min({a, b}) \in Nat /\ Min({a, b}) = (IF a <= b THEN a ELSE b)
  BY DEF Min

LEMMA MaxOfTwo ==
    ASSUME NEW a \in Nat, NEW b \in Nat
    PROVE  Max({a, b}) \in Nat /\ Max({a, b}) = (IF a <= b THEN b ELSE a)
  BY DEF Max

LEMMA HalfUpIsNat ==
    ASSUME NEW a \in Nat, NEW b \in Nat, b > 0
    PROVE  HalfUp(a, b) \in Nat
  <1> DEFINE m == 2 * a + b
             n == 2 * b
  <1>1. m \in Nat /\ n \in Nat /\ n > 0
    OBVIOUS
  <1> HIDE DEF m, n
  <1>2. m \div n \in Nat
    BY <1>1
  <1> QED BY <1>2 DEF HalfUp, m, n

LEMMA ProductIsNat == \A a, b \in Nat : a * b \in Nat
  OBVIOUS

-----------------------------------------------------------------------------
(* Types.                                                                  *)

\* With TypeOK, a subscription that exists is of a plan that exists and has
\* begun.
Typed ==
    /\ TypeOK
    /\ \A s \in subs : sub[s].plan \in Plan /\ sub[s].start \in 1..now

LEMMA BlanksTyped ==
    BlankOrder \in OrderRow /\ BlankSub \in SubRow /\ BlankTrade \in Trade
  BY BoundsAssumption
     DEF BlankOrder, BlankSub, BlankTrade, OrderRow, SubRow, Trade, None, Cycle, OrderStatus,
         Provider, RefundStatus, Settlement, SubStatus

LEMMA InitTyped == Init => Typed
  <1> SUFFICES ASSUME Init PROVE Typed
    OBVIOUS
  <1>1. order \in [Order -> OrderRow] /\ sub \in [Sub -> SubRow] /\ gateway \in [Order -> Trade]
    BY BlanksTyped DEF Init
  <1>2. now \in 1..MaxNow /\ balance \in Nat
    BY BoundsAssumption DEF Init
  <1> QED BY <1>1, <1>2, BoundsAssumption DEF Init, Typed, TypeOK

\* What may be written in one column of an order, or several.
LEMMA OrderColumns ==
    ASSUME NEW row \in OrderRow
    PROVE  /\ \A v \in OrderStatus : [row EXCEPT !.status = v] \in OrderRow
           /\ \A v \in Provider : [row EXCEPT !.provider = v] \in OrderRow
           /\ \A v \in RefundStatus : [row EXCEPT !.refund = v] \in OrderRow
           /\ [row EXCEPT !.plan = NoPlan] \in OrderRow
           /\ \A v \in OrderStatus, d \in 0..MaxNow :
                 [row EXCEPT !.status = v, !.paidOn = d] \in OrderRow
           /\ \A v \in OrderStatus, d \in 0..MaxNow, w \in Settlement :
                 [row EXCEPT !.status = v, !.paidOn = d, !.settlement = w] \in OrderRow
           /\ \A v \in OrderStatus, d \in 0..MaxNow, w \in Settlement, s \in Sub :
                 [row EXCEPT !.status = v, !.paidOn = d, !.sub = s, !.settlement = w] \in OrderRow
           /\ \A q \in Order, w \in Settlement :
                 [row EXCEPT !.superseded = q, !.settlement = w] \in OrderRow
           /\ \A v \in OrderStatus, r \in RefundStatus, w \in Settlement :
                 [row EXCEPT !.status = v, !.refund = r, !.settlement = w] \in OrderRow
           /\ \A a, b, c \in Order \cup {None} :
                 [row EXCEPT !.parent = a, !.superseded = b, !.chain = c] \in OrderRow
  <1> USE DEF OrderRow
  <1>1. \A v \in OrderStatus : [row EXCEPT !.status = v] \in OrderRow
    OBVIOUS
  <1>2. \A v \in Provider : [row EXCEPT !.provider = v] \in OrderRow
    OBVIOUS
  <1>3. \A v \in RefundStatus : [row EXCEPT !.refund = v] \in OrderRow
    OBVIOUS
  <1>4. [row EXCEPT !.plan = NoPlan] \in OrderRow
    OBVIOUS
  <1>5. \A v \in OrderStatus, d \in 0..MaxNow :
           [row EXCEPT !.status = v, !.paidOn = d] \in OrderRow
    OBVIOUS
  <1>6. \A v \in OrderStatus, d \in 0..MaxNow, w \in Settlement :
           [row EXCEPT !.status = v, !.paidOn = d, !.settlement = w] \in OrderRow
    OBVIOUS
  <1>7. \A v \in OrderStatus, d \in 0..MaxNow, w \in Settlement, s \in Sub :
           [row EXCEPT !.status = v, !.paidOn = d, !.sub = s, !.settlement = w] \in OrderRow
    <2> TAKE v \in OrderStatus, d \in 0..MaxNow, w \in Settlement, s \in Sub
    <2> QED OBVIOUS
  <1>8. \A q \in Order, w \in Settlement :
           [row EXCEPT !.superseded = q, !.settlement = w] \in OrderRow
    OBVIOUS
  <1>9. \A v \in OrderStatus, r \in RefundStatus, w \in Settlement :
           [row EXCEPT !.status = v, !.refund = r, !.settlement = w] \in OrderRow
    OBVIOUS
  <1>10. \A a, b, c \in Order \cup {None} :
            [row EXCEPT !.parent = a, !.superseded = b, !.chain = c] \in OrderRow
    OBVIOUS
  <1> QED BY <1>1, <1>2, <1>3, <1>4, <1>5, <1>6, <1>7, <1>8, <1>9, <1>10

LEMMA OrderColumnsRead ==
    ASSUME NEW row \in OrderRow
    PROVE  /\ row.kind \in {"PLAN", "RECHARGE"} /\ row.plan \in Plan \cup {NoPlan}
           /\ row.cycle \in Cycle /\ row.sources \subseteq Sub /\ row.anchor \in Sub \cup {None}
           /\ row.days \in Nat
           /\ row.base \in Nat /\ row.credit \in Nat /\ row.payable \in Nat /\ row.carry \in Nat
           /\ row.status \in OrderStatus /\ row.provider \in Provider
           /\ row.refund \in RefundStatus /\ row.settlement \in Settlement
           /\ row.superseded \in Order \cup {None} /\ row.parent \in Order \cup {None}
           /\ row.chain \in Order \cup {None} /\ row.sub \in Sub \cup {None}
           /\ row.created \in 0..MaxNow /\ row.paidOn \in 0..MaxNow
  BY DEF OrderRow

\* ... and of a subscription.
LEMMA SubColumns ==
    ASSUME NEW row \in SubRow
    PROVE  /\ row.status \in SubStatus /\ row.start \in Nat /\ row.end \in Nat /\ row.cycle \in Cycle
           /\ row.plan \in Plan \cup {NoPlan}
           /\ \A v \in SubStatus : [row EXCEPT !.status = v] \in SubRow
           /\ \A e \in Nat : [row EXCEPT !.end = e] \in SubRow
           /\ \A v \in SubStatus, e \in Nat : [row EXCEPT !.status = v, !.end = e] \in SubRow
           /\ \A v \in SubStatus, e \in Nat : [row EXCEPT !.end = e, !.status = v] \in SubRow
           /\ \A c \in Cycle, e \in Nat : [row EXCEPT !.cycle = c, !.end = e] \in SubRow
  BY DEF SubRow

\* The parts of Typed: the ids handed out, the rows, and what is outside.
IdsTyped == made \in 0..MaxOrders /\ placed \subseteq 1..made

SubsTyped ==
    /\ sub \in [Sub -> SubRow]
    /\ granted \in 0..MaxSubs /\ subs \subseteq 1..granted
    /\ now \in 1..MaxNow
    /\ \A s \in subs : sub[s].plan \in Plan /\ sub[s].start \in 1..now

RowsTyped ==
    /\ order \in [Order -> OrderRow]
    /\ links \subseteq Order \X Order
    /\ SubsTyped
    /\ balance \in Nat /\ ledger \in Int
    /\ offered \subseteq Catalogue

OutsideTyped == gateway \in [Order -> Trade] /\ received \in Nat /\ returned \in Nat

LEMMA TypedParts == Typed <=> IdsTyped /\ RowsTyped /\ OutsideTyped
  BY DEF Typed, TypeOK, IdsTyped, RowsTyped, SubsTyped, OutsideTyped

LEMMA TypedPartsNext == (Typed <=> IdsTyped /\ RowsTyped /\ OutsideTyped)'
  BY TypedParts, PTL

LEMMA IdSets ==
    ASSUME Typed
    PROVE  /\ placed \subseteq Order /\ subs \subseteq Sub
           /\ now \in Nat /\ now \in 0..MaxNow /\ now + 1 \in Nat
           /\ \A s \in subs : s \in Nat /\ sub[s] \in SubRow
  BY BoundsAssumption DEF Typed, TypeOK, Order, Sub

\* Marking stale rows changes the status of some and nothing else.
LEMMA Stale ==
    ASSUME now \in Nat, NEW t \in [Sub -> SubRow], NEW ids
    PROVE  /\ ExpireStale(t, ids) \in [Sub -> SubRow]
           /\ \A s \in Sub :
                /\ ExpireStale(t, ids)[s].plan = t[s].plan
                /\ ExpireStale(t, ids)[s].cycle = t[s].cycle
                /\ ExpireStale(t, ids)[s].start = t[s].start
                /\ ExpireStale(t, ids)[s].end = t[s].end
                /\ ExpireStale(t, ids)[s].status = "ACTIVE" => t[s].status = "ACTIVE"
                /\ t[s].end > now \/ t[s].status # "ACTIVE" => ExpireStale(t, ids)[s] = t[s]
  <1> DEFINE u == ExpireStale(t, ids)
  <1>1. \A s \in Sub : t[s] \in SubRow
    OBVIOUS
  <1>2. u = [s \in Sub |-> IF s \in ids /\ t[s].status = "ACTIVE" /\ t[s].end <= now
                           THEN [t[s] EXCEPT !.status = "EXPIRED"] ELSE t[s]]
    BY DEF ExpireStale
  <1>3. ASSUME NEW s \in Sub
        PROVE  /\ u[s] = t[s] \/ u[s] = [t[s] EXCEPT !.status = "EXPIRED"]
               /\ t[s].end > now \/ t[s].status # "ACTIVE" => u[s] = t[s]
    <2>1. u[s] = IF s \in ids /\ t[s].status = "ACTIVE" /\ t[s].end <= now
                 THEN [t[s] EXCEPT !.status = "EXPIRED"] ELSE t[s]
      BY <1>2
    <2>2. t[s].end \in Nat
      BY <1>1, SubColumns
    <2> HIDE DEF u
    <2>3. CASE s \in ids /\ t[s].status = "ACTIVE" /\ t[s].end <= now
      BY <2>1, <2>2, <2>3
    <2>4. CASE ~(s \in ids /\ t[s].status = "ACTIVE" /\ t[s].end <= now)
      BY <2>1, <2>4
    <2> QED BY <2>3, <2>4
  <1>4. "EXPIRED" \in SubStatus
    BY DEF SubStatus
  <1> HIDE DEF u
  <1>5. ASSUME NEW s \in Sub
        PROVE  /\ u[s] \in SubRow
               /\ u[s].plan = t[s].plan /\ u[s].cycle = t[s].cycle
               /\ u[s].start = t[s].start /\ u[s].end = t[s].end
               /\ u[s].status = "ACTIVE" => t[s].status = "ACTIVE"
    BY <1>1, <1>3, <1>4 DEF SubRow
  <1>6. u \in [Sub -> SubRow]
    BY <1>2, <1>5
  <1> QED BY <1>3, <1>5, <1>6 DEF u

\* The sources of an upgrade end, and no sooner than they began.
LEMMA SourcesCanceled ==
    ASSUME Typed, NEW row
    PROVE  /\ CancelSources(row) \in [Sub -> SubRow]
           /\ \A s \in Sub :
                /\ CancelSources(row)[s].plan = sub[s].plan
                /\ CancelSources(row)[s].cycle = sub[s].cycle
                /\ CancelSources(row)[s].start = sub[s].start
                /\ sub[s].start <= sub[s].end => sub[s].start <= CancelSources(row)[s].end
                /\ IF row.action \in Consuming /\ s \in row.sources \cap subs
                   THEN CancelSources(row)[s].status = "CANCELED"
                   ELSE CancelSources(row)[s] = sub[s]
  <1> DEFINE t == CancelSources(row)
             end(s) == Min({sub[s].end, Max({now, sub[s].start})})
  <1>1. now \in Nat /\ \A s \in Sub : sub[s] \in SubRow
    BY IdSets DEF Typed, TypeOK
  <1>2. t = [s \in Sub |-> IF row.action \in Consuming /\ s \in row.sources \cap subs
                           THEN [sub[s] EXCEPT !.status = "CANCELED", !.end = end(s)]
                           ELSE sub[s]]
    BY DEF CancelSources
  <1>3. ASSUME NEW s \in Sub
        PROVE  end(s) \in Nat /\ (sub[s].start <= sub[s].end => sub[s].start <= end(s))
    <2>1. sub[s].start \in Nat /\ sub[s].end \in Nat
      BY <1>1, SubColumns
    <2> DEFINE m == Max({now, sub[s].start})
    <2>2. m \in Nat /\ m = IF now <= sub[s].start THEN sub[s].start ELSE now
      BY <1>1, <2>1, MaxOfTwo
    <2> HIDE DEF m
    <2>3. /\ Min({sub[s].end, m}) \in Nat
          /\ Min({sub[s].end, m}) = IF sub[s].end <= m THEN sub[s].end ELSE m
      BY <2>1, <2>2, MinOfTwo
    <2> QED BY <1>1, <2>1, <2>2, <2>3 DEF m
  <1> HIDE DEF end
  <1>4. ASSUME NEW s \in Sub
        PROVE  t[s] = IF row.action \in Consuming /\ s \in row.sources \cap subs
                      THEN [sub[s] EXCEPT !.status = "CANCELED", !.end = end(s)]
                      ELSE sub[s]
    BY <1>2
  <1> HIDE DEF t
  <1>5. ASSUME NEW s \in Sub
        PROVE  /\ t[s] \in SubRow
               /\ t[s].plan = sub[s].plan /\ t[s].cycle = sub[s].cycle
               /\ t[s].start = sub[s].start
               /\ sub[s].start <= sub[s].end => sub[s].start <= t[s].end
               /\ IF row.action \in Consuming /\ s \in row.sources \cap subs
                  THEN t[s].status = "CANCELED" ELSE t[s] = sub[s]
    <2>1. CASE row.action \in Consuming /\ s \in row.sources \cap subs
      <3>1. t[s] = [sub[s] EXCEPT !.status = "CANCELED", !.end = end(s)]
        BY <1>4, <2>1
      <3>2. "CANCELED" \in SubStatus /\ sub[s] \in SubRow
        BY <1>1 DEF SubStatus
      <3>3. t[s].end = end(s) /\ t[s].status = "CANCELED" /\ t[s].plan = sub[s].plan
            /\ t[s].cycle = sub[s].cycle /\ t[s].start = sub[s].start
        BY <3>1, <3>2 DEF SubRow
      <3>4. end(s) \in Nat /\ (sub[s].start <= sub[s].end => sub[s].start <= end(s))
        BY <1>3
      <3>5. [sub[s] EXCEPT !.status = "CANCELED", !.end = end(s)] \in SubRow
        BY <3>2, <3>4, SubColumns
      <3> QED BY <2>1, <3>1, <3>3, <3>4, <3>5
    <2>2. CASE ~(row.action \in Consuming /\ s \in row.sources \cap subs)
      BY <1>1, <1>4, <2>2
    <2> QED BY <2>1, <2>2
  <1>6. t \in [Sub -> SubRow]
    BY <1>2, <1>5
  <1> QED BY <1>5, <1>6 DEF t

\* How long a term is, and what an order stores of it.
LEMMA TermLength ==
    ASSUME NEW c \in Cycle, NEW d \in Nat
    PROVE  /\ CycleEnd(d, c) \in Nat /\ CycleEnd(d, c) > d
           /\ CycleEnd(d, c) >= d + ShortTerm[c] /\ CycleEnd(d, c) <= d + LongTerm[c]
           /\ ShortTerm[c] \in Nat \ {0} /\ LongTerm[c] \in Nat \ {0}
           /\ DurationDays(d, c) \in Nat
           /\ c = "LIFETIME" => DurationDays(d, c) = 0
           /\ c # "LIFETIME" => DurationDays(d, c) \in ShortTerm[c]..LongTerm[c]
  <1>1. CalendarDays \in Nat \ {0} /\ TermDays \in [Cycle -> [0..(CalendarDays - 1) -> Nat \ {0}]]
        /\ ShortTerm[c] \in Nat \ {0} /\ LongTerm[c] \in Nat \ {0}
    BY CalendarAssumption
  <1>2. PICK e : e = d % CalendarDays
    OBVIOUS
  <1>3. e \in 0..(CalendarDays - 1)
    BY <1>1, <1>2
  <1>4. PICK n : n = TermDays[c][e]
    OBVIOUS
  <1>5. n \in Nat \ {0} /\ ShortTerm[c] <= n /\ n <= LongTerm[c]
    BY <1>1, <1>3, <1>4, CalendarAssumption
  <1>6. CycleEnd(d, c) = d + n
    BY <1>2, <1>4 DEF CycleEnd
  <1> QED BY <1>1, <1>5, <1>6 DEF DurationDays

\* A sale, exactly: which subscription gets how much time, and what becomes of
\* the others.
LEMMA Sold ==
    ASSUME Typed, NEW row \in OrderRow, row.plan \in Plan, Sell(row), now' = now
    PROVE  LET target == IF Extends(row) THEN row.anchor ELSE granted + 1
           IN  /\ SubsTyped'
               /\ target \in Sub /\ target \in subs' /\ subs' = subs \cup {target}
               /\ granted' = IF Extends(row) THEN granted ELSE granted + 1
               /\ sub'[target].plan = row.plan /\ sub'[target].cycle = row.cycle
               /\ sub'[target].end =
                    CycleEnd(IF Extends(row) THEN sub[target].end ELSE now, row.cycle)
               /\ sub'[target].start = IF Extends(row) THEN sub[target].start ELSE now
               /\ sub'[target].status = "ACTIVE"
               /\ \A s \in Sub \ {target} : /\ sub'[s].plan = sub[s].plan
                                            /\ sub'[s].cycle = sub[s].cycle
                                            /\ sub'[s].start = sub[s].start
                                            /\ sub[s].start <= sub[s].end =>
                                                  sub[s].start <= sub'[s].end
                                            /\ sub'[s].status = "ACTIVE" => sub[s].status = "ACTIVE"
                                            /\ IF row.action \in Consuming /\ s \in row.sources \cap subs
                                               THEN sub'[s].status = "CANCELED"
                                               ELSE sub'[s].end = sub[s].end
  <1> DEFINE target == IF Extends(row) THEN row.anchor ELSE granted + 1
             t == CancelSources(row)
             w == SoldRows(row)
             fresh == [plan |-> row.plan, cycle |-> row.cycle, status |-> "ACTIVE",
                       start |-> now, end |-> TermEnd(row)]
             longer == [t[target] EXCEPT !.cycle = row.cycle, !.end = TermEnd(row)]
  <1>1. /\ granted \in Nat /\ granted \in 0..MaxSubs /\ MaxSubs \in Nat /\ MaxNow \in Nat
        /\ subs \subseteq 1..granted /\ now \in Nat /\ now >= 1 /\ now \in 1..MaxNow
        /\ \A s \in Sub : sub[s] \in SubRow
        /\ \A s \in subs : sub[s].plan \in Plan /\ sub[s].start \in 1..now
    BY BoundsAssumption DEF Typed, TypeOK
  <1>2. row.cycle \in Cycle
    BY OrderColumnsRead
  <1>3. /\ target \in Sub /\ target \in subs' /\ subs' = subs \cup {target}
        /\ granted' = IF Extends(row) THEN granted ELSE granted + 1
        /\ granted' \in 0..MaxSubs /\ subs' \subseteq 1..granted'
        /\ sub' = ExpireStale(w, subs')
    <2>1. CASE Extends(row)
      <3>1. row.anchor \in subs /\ granted' = granted /\ subs' = subs
        BY <2>1 DEF Sell, Extends, Running
      <3>2. row.anchor \in Sub
        <4>1. subs \subseteq Sub
          BY IdSets DEF Typed
        <4> QED BY <3>1, <4>1
      <3>3. target = row.anchor
        BY <2>1
      <3>4. sub' = ExpireStale(w, subs')
        BY DEF Sell
      <3> HIDE DEF target, w
      <3>5. target \in Sub /\ subs' = subs \cup {target} /\ target \in subs'
        BY <3>1, <3>2, <3>3
      <3> QED BY <1>1, <2>1, <3>1, <3>4, <3>5
    <2>2. CASE ~Extends(row)
      <3>1. granted < MaxSubs /\ granted' = granted + 1 /\ subs' = subs \cup {granted + 1}
        BY <2>2 DEF Sell
      <3> QED BY <1>1, <2>2, <3>1 DEF Sell, Sub
    <2> QED BY <2>1, <2>2
  <1>4. /\ t \in [Sub -> SubRow]
        /\ \A s \in Sub :
             /\ t[s].plan = sub[s].plan /\ t[s].cycle = sub[s].cycle
             /\ t[s].start = sub[s].start
             /\ sub[s].start <= sub[s].end => sub[s].start <= t[s].end
             /\ IF row.action \in Consuming /\ s \in row.sources \cap subs
                THEN t[s].status = "CANCELED" ELSE t[s] = sub[s]
    BY SourcesCanceled
  <1>5. Extends(row) => /\ sub[target].status = "ACTIVE" /\ sub[target].end > now
                        /\ sub[target].plan = row.plan /\ t[target] = sub[target]
                        /\ target \in subs
    BY <1>3, <1>4 DEF Extends, Running, Consuming
  <1>6. /\ TermEnd(row) = CycleEnd(IF Extends(row) THEN sub[target].end ELSE now, row.cycle)
        /\ TermEnd(row) \in Nat /\ TermEnd(row) > now
    <2>1. sub[target].end \in Nat
      BY <1>1, <1>3, SubColumns
    <2>2. /\ TermStart(row) = IF Extends(row) THEN sub[target].end ELSE now
          /\ TermStart(row) \in Nat /\ TermStart(row) >= now
      BY <1>1, <1>5, <2>1 DEF TermStart
    <2>3. CycleEnd(TermStart(row), row.cycle) \in Nat
          /\ CycleEnd(TermStart(row), row.cycle) > TermStart(row)
      BY <1>2, <2>2, TermLength
    <2> QED BY <1>1, <2>2, <2>3 DEF TermEnd
  <1>7. fresh \in SubRow
    BY <1>1, <1>2, <1>6 DEF SubRow, SubStatus
  <1>8. longer \in SubRow
    BY <1>2, <1>3, <1>4, <1>6, SubColumns
  <1>9. w = [t EXCEPT ![target] = IF Extends(row) THEN longer ELSE fresh]
    BY <1>3, <1>4 DEF SoldRows
  <1> HIDE DEF t, w, target
  <1>10. /\ w \in [Sub -> SubRow]
         /\ w[target] = IF Extends(row) THEN longer ELSE fresh
         /\ \A s \in Sub \ {target} : w[s] = t[s]
    BY <1>3, <1>4, <1>7, <1>8, <1>9
  <1>11. /\ w[target].plan = row.plan /\ w[target].cycle = row.cycle
         /\ w[target].end = TermEnd(row) /\ w[target].status = "ACTIVE"
         /\ w[target].start = IF Extends(row) THEN sub[target].start ELSE now
    <2>1. CASE Extends(row)
      <3>1. w[target] = longer /\ t[target] \in SubRow /\ t[target] = sub[target]
        BY <1>3, <1>4, <1>5, <1>10, <2>1
      <3> QED BY <1>5, <2>1, <3>1 DEF SubRow
    <2>2. CASE ~Extends(row)
      BY <1>10, <2>2
    <2> QED BY <2>1, <2>2
  <1> HIDE DEF longer, fresh
  <1>12. /\ sub' \in [Sub -> SubRow]
         /\ \A s \in Sub : /\ sub'[s].plan = w[s].plan /\ sub'[s].cycle = w[s].cycle
                           /\ sub'[s].start = w[s].start /\ sub'[s].end = w[s].end
                           /\ sub'[s].status = "ACTIVE" => w[s].status = "ACTIVE"
                           /\ w[s].end > now \/ w[s].status # "ACTIVE" => sub'[s] = w[s]
    BY <1>1, <1>3, <1>10, Stale
  <1>13. ASSUME NEW s \in Sub \ {target}
         PROVE  /\ sub'[s].plan = sub[s].plan
                /\ sub'[s].cycle = sub[s].cycle
                /\ sub'[s].start = sub[s].start
                /\ sub[s].start <= sub[s].end => sub[s].start <= sub'[s].end
                /\ sub'[s].status = "ACTIVE" => sub[s].status = "ACTIVE"
                /\ IF row.action \in Consuming /\ s \in row.sources \cap subs
                   THEN sub'[s].status = "CANCELED"
                   ELSE sub'[s].end = sub[s].end
    <2>1. w[s] = t[s]
      BY <1>10
    <2>2. CASE row.action \in Consuming /\ s \in row.sources \cap subs
      <3>1. w[s].status = "CANCELED" /\ w[s].status # "ACTIVE"
        BY <1>4, <2>1, <2>2
      <3>2. sub'[s] = w[s]
        BY <1>12, <3>1
      <3> QED BY <1>4, <2>1, <2>2, <3>1, <3>2
    <2>3. CASE ~(row.action \in Consuming /\ s \in row.sources \cap subs)
      <3>1. w[s] = sub[s]
        BY <1>4, <2>1, <2>3
      <3> QED BY <1>12, <2>3, <3>1
    <2> QED BY <2>2, <2>3
  <1>14. /\ sub'[target].plan = row.plan /\ sub'[target].cycle = row.cycle
         /\ sub'[target].end = TermEnd(row) /\ sub'[target].status = "ACTIVE"
         /\ sub'[target].start = IF Extends(row) THEN sub[target].start ELSE now
    BY <1>3, <1>6, <1>11, <1>12
  <1>15. \A s \in subs' : sub'[s].plan \in Plan /\ sub'[s].start \in 1..now
    <2> SUFFICES ASSUME NEW s \in subs' PROVE sub'[s].plan \in Plan /\ sub'[s].start \in 1..now
      OBVIOUS
    <2>1. CASE s = target
      <3>1. Extends(row) => sub[target].start \in 1..now
        BY <1>1, <1>5
      <3>2. now \in 1..now
        BY <1>1
      <3> QED BY <1>14, <2>1, <3>1, <3>2
    <2>2. CASE s # target
      <3>1. s \in subs /\ s \in Sub
        BY <1>1, <1>3, <2>2 DEF Sub
      <3> QED BY <1>1, <1>13, <2>2, <3>1
    <2> QED BY <2>1, <2>2
  <1>16. SubsTyped'
    BY <1>1, <1>3, <1>12, <1>15 DEF SubsTyped
  <1>17. sub'[target].end = CycleEnd(IF Extends(row) THEN sub[target].end ELSE now, row.cycle)
    BY <1>6, <1>14
  <1> QED BY <1>3, <1>13, <1>14, <1>16, <1>17 DEF target

LEMMA OriginalAmountIsNat ==
    ASSUME Typed, NEW s \in subs
    PROVE  OriginalAmount(s) \in Nat
  <1>1. placed \subseteq Order /\ sub[s] \in SubRow /\ sub[s].plan \in Plan
    BY IdSets DEF Typed
  <1>2. CASE LiveOrdersOf(s) = {}
    <2>1. <<sub[s].plan, sub[s].cycle>> \in Plan \X Cycle
      BY <1>1, SubColumns
    <2> QED BY <1>2, <2>1, CatalogueAssumption DEF OriginalAmount
  <1>3. CASE LiveOrdersOf(s) # {}
    <2>1. LiveOrdersOf(s) \subseteq Order
      BY <1>1 DEF LiveOrdersOf
    <2>2. \A o \in LiveOrdersOf(s) : Bases[o] \in Nat
      BY <2>1, OrderColumnsRead DEF Bases, Typed, TypeOK
    <2>3. Sum(Bases, LiveOrdersOf(s)) \in Nat
      BY <2>1, <2>2, IdsAreFinite, SumIsNat
    <2> QED BY <1>1, <1>3, <2>3, OriginalAmountIsSum
  <1> QED BY <1>2, <1>3

LEMMA RemainingCreditIsNat ==
    ASSUME Typed, NEW s \in Running
    PROVE  RemainingCredit(s) \in Nat /\ RemainingCredit(s) <= OriginalAmount(s)
  <1> DEFINE original == OriginalAmount(s)
             left == sub[s].end - now
             term == sub[s].end - sub[s].start
             share == HalfUp(original * left, term)
  <1>1. s \in subs /\ sub[s].end > now /\ sub[s].start \in 1..now /\ now \in Nat /\ sub[s].end \in Nat
    BY IdSets, SubColumns DEF Running, Typed
  <1>2. original \in Nat
    BY <1>1, OriginalAmountIsNat
  <1>3. left \in Nat /\ term \in Nat /\ term > 0
    BY <1>1
  <1> HIDE DEF original, left, term
  <1>4. original * left \in Nat
    BY <1>2, <1>3, ProductIsNat
  <1>5. share \in Nat
    BY <1>3, <1>4, HalfUpIsNat
  <1>6. RemainingCredit(s) = IF sub[s].cycle = "LIFETIME" \/ share > original
                             THEN original ELSE share
    BY DEF RemainingCredit, original, left, term
  <1> HIDE DEF share
  <1> QED BY <1>2, <1>5, <1>6 DEF original

LEMMA TotalCreditIsNat ==
    ASSUME Typed
    PROVE  TotalCredit \in Nat
  <1>1. Running \subseteq Sub
    BY IdSets DEF Running
  <1>2. \A s \in Running : Credits[s] \in Nat
    BY <1>1, RemainingCreditIsNat DEF Credits
  <1>3. Sum(Credits, Running) \in Nat
    BY <1>1, <1>2, IdsAreFinite, SumIsNat
  <1> QED BY <1>1, <1>3, TotalCreditIsSum

\* The current and the latest subscription run, when there are any; since
\* every subscription has begun they are the same.
LEMMA CurrentRuns ==
    ASSUME Typed
    PROVE  /\ Effective = Running /\ Current = Latest
           /\ Latest = None <=> Running = {}
           /\ Running # {} => Latest \in Running
           /\ Running \subseteq Sub
  <1>1. Running \subseteq Sub /\ \A s \in Running : sub[s].end \in Nat /\ sub[s].start <= now
    <2>1. Running \subseteq subs
      BY DEF Running
    <2>2. subs \subseteq Sub /\ \A s \in subs : sub[s] \in SubRow
      BY IdSets
    <2>3. \A s \in subs : sub[s].start \in 1..now
      BY DEF Typed
    <2>4. \A s \in subs : sub[s].end \in Nat
      BY <2>2, SubColumns
    <2>5. now \in Nat
      BY IdSets
    <2>6. \A s \in subs : sub[s].start <= now
      BY <2>3, <2>5
    <2> QED BY <2>1, <2>2, <2>4, <2>6
  <1>2. Effective = Running
    BY <1>1 DEF Effective
  <1>3. Running # {} => Last(Running) \in Running
    BY <1>1, LastExists
  <1>4. None \notin Sub
    BY BoundsAssumption DEF None, Sub
  <1>5. Latest = IF Running = {} THEN None ELSE Last(Running)
    BY DEF Latest
  <1>6. Current = Latest
    BY <1>2, <1>5 DEF Current
  <1>7. Latest = None <=> Running = {}
    BY <1>1, <1>3, <1>4, <1>5
  <1> QED BY <1>1, <1>2, <1>3, <1>5, <1>6, <1>7

LEMMA PreviewTyped ==
    ASSUME Typed, NEW p \in Plan, NEW c \in Cycle
    PROVE  LET view == Preview(p, c)
           IN  /\ view.action \in {"BLOCKED", "DIRECT_PURCHASE", "RENEW"} \cup Consuming
               /\ view.sources \subseteq Sub /\ view.anchor \in Sub \cup {None}
               /\ view.base \in Nat /\ view.credit \in Nat
               /\ view.payable \in Nat /\ view.carry \in Nat
               /\ view.action \in Consuming => view.sources = Running /\ view.credit = TotalCredit
               /\ view.action = "RENEW" => view.anchor = Latest
               /\ view.base = ListPrice[<<p, c>>]
               /\ view.action \notin Consuming => view.credit = 0
               /\ view.payable = IF view.base > view.credit THEN view.base - view.credit ELSE 0
               /\ view.carry = IF view.credit > view.base THEN view.credit - view.base ELSE 0
               /\ view.action = PurchaseAction(p, c)
  <1> DEFINE action == PurchaseAction(p, c)
             base == ListPrice[<<p, c>>]
             credit == IF action \in Consuming THEN TotalCredit ELSE 0
             sources == IF action \in Consuming THEN Running
                        ELSE {IF Current = None THEN Latest ELSE Current} \ {None}
             anchor == IF action = "RENEW" THEN Latest ELSE None
  <1>1. action \in {"BLOCKED", "DIRECT_PURCHASE", "RENEW"} \cup Consuming
    BY DEF PurchaseAction, ActionOnCurrent, ActionOnQueued, Consuming
  <1>2. base \in Nat /\ credit \in Nat
    BY CatalogueAssumption, TotalCreditIsNat
  <1>3. sources \subseteq Sub /\ anchor \in Sub \cup {None}
    BY CurrentRuns
  <1>4. Preview(p, c) = [action |-> action, sources |-> sources, anchor |-> anchor,
                         base |-> base, credit |-> credit,
                         payable |-> IF base > credit THEN base - credit ELSE 0,
                         carry |-> IF credit > base THEN credit - base ELSE 0]
    BY DEF Preview
  <1>5. /\ action \in Consuming => sources = Running /\ credit = TotalCredit
        /\ action = "RENEW" => anchor = Latest
        /\ action \notin Consuming => credit = 0
    OBVIOUS
  <1> DEFINE payable == IF base > credit THEN base - credit ELSE 0
             carry == IF credit > base THEN credit - base ELSE 0
  <1>6. payable \in Nat /\ carry \in Nat
    <2> HIDE DEF base, credit
    <2> QED BY <1>2
  <1>7. action = PurchaseAction(p, c) /\ base = ListPrice[<<p, c>>]
    OBVIOUS
  <1> HIDE DEF action, base, credit, sources, anchor
  <1> QED BY <1>1, <1>2, <1>3, <1>4, <1>5, <1>6, <1>7

LEMMA AnchorOrdersTyped ==
    ASSUME Typed, NEW S
    PROVE  AnchorOrders(S) \subseteq Order \cup {None}
  <1> DEFINE C == {q \in placed : /\ order[q].kind = "PLAN"
                                  /\ order[q].sub \in S
                                  /\ Successful(order[q])}
             unpaid == {q \in C : order[q].paidOn = None}
  <1>1. C \subseteq Order /\ unpaid \subseteq Order
    BY IdSets
  <1>2. unpaid # {} => Max(unpaid) \in unpaid
    <2>1. unpaid \in SUBSET Nat /\ IsFiniteSet(unpaid)
      BY <1>1, BoundsAssumption, IdsAreFinite DEF Order
    <2> HIDE DEF unpaid
    <2> QED BY <2>1, MaxExists
  <1> QED BY <1>1, <1>2 DEF AnchorOrders

LEMMA NewOrderTyped ==
    ASSUME Typed, NEW o \in Order, NEW p \in Plan, NEW c \in Cycle,
           Preview(p, c).action # "BLOCKED", NEW parent \in AnchorOrders(ChainSources(Preview(p, c)))
    PROVE  NewOrder(o, p, c, Preview(p, c), parent) \in OrderRow
  <1> DEFINE view == Preview(p, c)
             row == NewOrder(o, p, c, view, parent)
             chain == IF parent = None THEN o ELSE order[parent].chain
             days == DurationDays(now, c)
  <1>1. /\ view.action \in {"NONE", "DIRECT_PURCHASE", "RENEW"} \cup Consuming
        /\ view.sources \in SUBSET Sub /\ view.anchor \in Sub \cup {None}
        /\ view.base \in Nat /\ view.credit \in Nat
        /\ view.payable \in Nat /\ view.carry \in Nat
    BY PreviewTyped
  <1>2. parent \in Order \cup {None}
    BY AnchorOrdersTyped
  <1>3. chain \in Order \cup {None}
    BY <1>2, OrderColumnsRead DEF Typed, TypeOK
  <1>4. now \in 0..MaxNow /\ days \in Nat
    <2>1. now \in 0..MaxNow /\ now \in Nat
      BY IdSets, BoundsAssumption
    <2> QED BY <2>1, TermLength
  <1> HIDE DEF view, chain, days
  <1>5. row = [BlankOrder EXCEPT
                 !.kind = "PLAN", !.plan = p, !.cycle = c, !.action = view.action,
                 !.sources = view.sources, !.anchor = view.anchor, !.days = days,
                 !.base = view.base,
                 !.credit = view.credit, !.payable = view.payable, !.carry = view.carry,
                 !.created = now, !.parent = parent, !.chain = chain]
    BY DEF NewOrder, chain, days
  <1> HIDE DEF row
  <1>6. row \in OrderRow
    BY <1>1, <1>2, <1>3, <1>4, <1>5, BlanksTyped DEF OrderRow
  <1> QED BY <1>6 DEF row, view

-----------------------------------------------------------------------------
(* Every action keeps the types.                                           *)

LEMMA RowTyped ==
    ASSUME Typed, NEW o \in Order, NEW row \in OrderRow, order' = [order EXCEPT ![o] = row]
    PROVE  order' \in [Order -> OrderRow]
  BY DEF Typed, TypeOK

LEMMA HandledTyped ==
    ASSUME Typed, NEW o \in Order, NEW row \in OrderRow, NEW bal \in Nat, NEW led \in Int,
           HandlePaidOrder(o, row, bal, led)
    PROVE  RowsTyped'
  <1>1. /\ RowsTyped /\ offered' = offered /\ now' = now /\ now \in 0..MaxNow
        /\ row.plan \in Plan \cup {NoPlan} /\ row.payable \in Nat /\ row.carry \in Nat
        /\ placed \subseteq Order
    BY TypedParts, OrderColumnsRead, IdSets DEF HandlePaidOrder
  <1>2. /\ "COMPLETED" \in OrderStatus /\ "PAID" \in OrderStatus
        /\ Open(row) \in Settlement /\ "CONSUMED" \in Settlement
    BY DEF OrderStatus, Settlement, Open
  <1>3. CASE FulfilPlan(o, row, bal, led)
    <2> DEFINE target == IF Extends(row) THEN row.anchor ELSE granted + 1
               new == [row EXCEPT !.status = "COMPLETED", !.paidOn = now,
                                  !.sub = target, !.settlement = Open(row)]
               spent(q) == [order[q] EXCEPT !.superseded = o,
                              !.settlement = IF @ = "REFUNDED" THEN @ ELSE "CONSUMED"]
    <2>1. row.plan \in Plan /\ Sell(row)
      BY <1>1, <1>3 DEF FulfilPlan
    <2>2. SubsTyped' /\ target \in Sub
      BY <1>1, <2>1, Sold
    <2>3. new \in OrderRow
      BY <1>1, <1>2, <2>2, OrderColumns
    <2>4. \A q \in Order : order[q] \in OrderRow
      BY DEF Typed, TypeOK
    <2>5. \A q \in Order : spent(q) \in OrderRow
      <3> SUFFICES ASSUME NEW q \in Order PROVE spent(q) \in OrderRow
        OBVIOUS
      <3> DEFINE w == IF order[q].settlement = "REFUNDED" THEN order[q].settlement ELSE "CONSUMED"
      <3>1. w \in Settlement
        BY <1>2, <2>4, OrderColumnsRead
      <3>2. spent(q) = [order[q] EXCEPT !.superseded = o, !.settlement = w]
        BY <2>4 DEF OrderRow
      <3> HIDE DEF w
      <3> QED BY <2>4, <3>1, <3>2, OrderColumns
    <2>6. order' = [q \in Order |-> IF q = o THEN new
                                    ELSE IF q \in ConsumedBy(o, row) THEN spent(q) ELSE order[q]]
      <3> HIDE DEF target
      <3> QED BY <1>3 DEF FulfilPlan, target
    <2> HIDE DEF new, spent
    <2>7. order' \in [Order -> OrderRow]
      BY <2>3, <2>4, <2>5, <2>6
    <2>8. links' \subseteq Order \X Order
      <3>1. links' = links \cup (ConsumedBy(o, row) \X {o})
        BY <1>3 DEF FulfilPlan
      <3>2. ConsumedBy(o, row) \subseteq Order
        BY <1>1 DEF ConsumedBy
      <3> QED BY <1>1, <3>1, <3>2 DEF RowsTyped
    <2>9. balance' \in Nat /\ ledger' \in Int
      <3>1. balance' = bal + row.carry /\ ledger' = led + row.carry
        BY <1>3 DEF FulfilPlan
      <3> QED BY <1>1, <3>1
    <2> QED BY <1>1, <2>2, <2>7, <2>8, <2>9 DEF RowsTyped
  <1>4. CASE FulfilNothing(o, row, bal, led)
    <2> DEFINE new == [row EXCEPT !.status = "PAID", !.paidOn = now]
    <2>1. new \in OrderRow
      BY <1>1, <1>2, OrderColumns
    <2>2. order' = [order EXCEPT ![o] = new] /\ UNCHANGED <<links, sub, subs, granted>>
          /\ balance' = bal /\ ledger' = led
      BY <1>4 DEF FulfilNothing
    <2> HIDE DEF new
    <2>3. order' \in [Order -> OrderRow]
      BY <2>1, <2>2, RowTyped
    <2> QED BY <1>1, <2>2, <2>3 DEF RowsTyped, SubsTyped
  <1>5. CASE FulfilRecharge(o, row, bal, led)
    <2> DEFINE new == [row EXCEPT !.status = "COMPLETED", !.paidOn = now,
                                  !.settlement = Open(row)]
    <2>1. new \in OrderRow
      BY <1>1, <1>2, OrderColumns
    <2>2. order' = [order EXCEPT ![o] = new] /\ UNCHANGED <<links, sub, subs, granted>>
          /\ balance' = bal + row.payable /\ ledger' = led + row.payable
      BY <1>5 DEF FulfilRecharge
    <2> HIDE DEF new
    <2>3. order' \in [Order -> OrderRow]
      BY <2>1, <2>2, RowTyped
    <2>4. balance' \in Nat /\ ledger' \in Int
      BY <1>1, <2>2
    <2> QED BY <1>1, <2>2, <2>3, <2>4 DEF RowsTyped, SubsTyped
  <1> QED BY <1>3, <1>4, <1>5 DEF HandlePaidOrder

LEMMA NewIdTyped ==
    ASSUME Typed, made < MaxOrders, made' = made + 1, placed' = placed \cup {made + 1}
    PROVE  made + 1 \in Order /\ IdsTyped'
  BY BoundsAssumption DEF Typed, TypeOK, Order, IdsTyped

LEMMA CreateOrderTyped ==
    ASSUME Typed, NEW p \in Plan, NEW c \in Cycle, CreateOrder(p, c)
    PROVE  Typed'
  <1> DEFINE o    == made + 1
             view == Preview(p, c)
  <1>1. o \in Order /\ IdsTyped' /\ OutsideTyped' /\ view.action # "BLOCKED"
    BY NewIdTyped, TypedParts DEF CreateOrder, OutsideTyped, outside
  <1>2. PICK parent \in AnchorOrders(ChainSources(view)) :
          LET row  == NewOrder(o, p, c, view, parent)
              zero == [row EXCEPT !.provider = "ZERO"]
          IN  \/ order' = [order EXCEPT ![o] = row]
                 /\ UNCHANGED <<links, sub, subs, granted, money, offered, now>>
              \/ order' = [order EXCEPT ![o] = zero]
                 /\ UNCHANGED <<links, sub, subs, granted, money, offered, now>>
              \/ HandlePaidOrder(o, zero, balance, ledger)
    BY DEF CreateOrder
  <1> DEFINE row  == NewOrder(o, p, c, view, parent)
             zero == [row EXCEPT !.provider = "ZERO"]
  <1>3. row \in OrderRow
    BY <1>1, NewOrderTyped
  <1>4. zero \in OrderRow
    <2> HIDE DEF row
    <2>1. "ZERO" \in Provider
      BY DEF Provider
    <2> QED BY <1>3, <2>1, OrderColumns
  <1>5. \/ /\ order' = [order EXCEPT ![o] = row] \/ order' = [order EXCEPT ![o] = zero]
           /\ UNCHANGED <<links, sub, subs, granted, money, offered, now>>
        \/ HandlePaidOrder(o, zero, balance, ledger)
    BY <1>2
  <1> HIDE DEF o, row, zero
  <1>6. CASE /\ order' = [order EXCEPT ![o] = row] \/ order' = [order EXCEPT ![o] = zero]
             /\ UNCHANGED <<links, sub, subs, granted, money, offered, now>>
    <2>1. order' \in [Order -> OrderRow]
      BY <1>1, <1>3, <1>4, <1>6, RowTyped
    <2>2. RowsTyped'
      BY <1>6, <2>1, TypedParts DEF RowsTyped, SubsTyped, money
    <2> QED BY <1>1, <2>2, TypedPartsNext
  <1>7. CASE HandlePaidOrder(o, zero, balance, ledger)
    <2>1. balance \in Nat /\ ledger \in Int
      BY DEF Typed, TypeOK
    <2>2. RowsTyped'
      BY <1>1, <1>4, <1>7, <2>1, HandledTyped
    <2> QED BY <1>1, <2>2, TypedPartsNext
  <1> QED BY <1>5, <1>6, <1>7

LEMMA CreateRechargeOrderTyped ==
    ASSUME Typed, NEW a \in RechargeAmounts, CreateRechargeOrder(a)
    PROVE  Typed'
  <1> DEFINE o == made + 1
             row == [BlankOrder EXCEPT !.base = a, !.payable = a, !.created = now, !.chain = o]
  <1>1. o \in Order /\ IdsTyped' /\ OutsideTyped'
    BY NewIdTyped, TypedParts DEF CreateRechargeOrder, OutsideTyped, outside
  <1>2. row \in OrderRow
    <2>1. a \in Nat /\ now \in 0..MaxNow
      BY SettingsAssumption, IdSets
    <2> HIDE DEF o
    <2> QED BY <1>1, <2>1, BlanksTyped DEF OrderRow
  <1>3. order' = [order EXCEPT ![o] = row] /\ UNCHANGED <<links, sub, subs, granted, money, offered, now>>
    BY DEF CreateRechargeOrder
  <1> HIDE DEF o, row
  <1>4. order' \in [Order -> OrderRow]
    BY <1>1, <1>2, <1>3, RowTyped
  <1>5. RowsTyped'
    BY <1>3, <1>4, TypedParts DEF RowsTyped, SubsTyped, money
  <1> QED BY <1>1, <1>5, TypedPartsNext

\* The actions that write an order and do not touch the ids, the subscriptions
\* and the money of the user.
LEMMA OrderWrittenTyped ==
    ASSUME Typed, order' \in [Order -> OrderRow], OutsideTyped', placed' \subseteq placed,
           links' \subseteq links, UNCHANGED <<made, sub, subs, granted, money, offered, now>>
    PROVE  Typed'
  <1>1. IdsTyped'
    BY TypedParts DEF IdsTyped
  <1>2. RowsTyped'
    BY TypedParts DEF RowsTyped, SubsTyped, money
  <1> QED BY <1>1, <1>2, TypedPartsNext

LEMMA OneOrderTyped ==
    ASSUME Typed, NEW o \in placed, NEW row \in OrderRow, order' = [order EXCEPT ![o] = row]
    PROVE  order' \in [Order -> OrderRow]
  BY IdSets, RowTyped

LEMMA OutsideKept ==
    ASSUME Typed, UNCHANGED outside
    PROVE  OutsideTyped'
  BY TypedParts DEF OutsideTyped, outside

LEMMA SmallOrderStepsTyped ==
    ASSUME Typed, NEW o \in Order,
           PayLink(o) \/ RequestRefund(o) \/ RejectRefund(o) \/ ApproveOriginalRefund(o)
    PROVE  Typed'
  <1>1. o \in placed /\ o \in Order /\ order[o] \in OrderRow
    BY DEF Typed, TypeOK, PayLink, Payable, RequestRefund, Refundable, RejectRefund,
           ApproveOriginalRefund, AdminMayRefund
  <1>2. /\ UNCHANGED <<placed, made, links, sub, subs, granted, money, offered, now>>
        /\ received' = received /\ returned' = returned
        /\ \/ order' = [order EXCEPT ![o].provider = "EPAY"]
           \/ \E v \in {"PENDING", "REJECTED", "PROCESSING"} : order' = [order EXCEPT ![o].refund = v]
    BY DEF PayLink, RequestRefund, RejectRefund, ApproveOriginalRefund, outside
  <1>3. order' \in [Order -> OrderRow]
    <2>1. "EPAY" \in Provider /\ {"PENDING", "REJECTED", "PROCESSING"} \subseteq RefundStatus
      BY DEF Provider, RefundStatus
    <2>2. \E row \in OrderRow : order' = [order EXCEPT ![o] = row]
      BY <1>1, <1>2, <2>1, OrderColumns
    <2> QED BY <1>1, <2>2, OneOrderTyped
  <1>4. gateway' \in [Order -> Trade]
    BY DEF PayLink, RequestRefund, RejectRefund, ApproveOriginalRefund, outside, Typed, TypeOK, Trade
  <1>5. OutsideTyped'
    BY <1>2, <1>4, TypedParts DEF OutsideTyped
  <1> QED BY <1>2, <1>3, <1>5, OrderWrittenTyped

LEMMA EndUnpaidTyped ==
    ASSUME Typed, NEW S, NEW status \in OrderStatus, EndUnpaid(S, status)
    PROVE  Typed'
  <1>1. \A o \in Order : order[o] \in OrderRow /\ [order[o] EXCEPT !.status = status] \in OrderRow
    BY OrderColumns DEF Typed, TypeOK
  <1>2. order' \in [Order -> OrderRow]
    BY <1>1 DEF EndUnpaid
  <1>3. gateway' \in [Order -> Trade]
    <2>1. PICK C : gateway' = [o \in Order |-> IF o \in C THEN [gateway[o] EXCEPT !.trade = "closed"]
                                              ELSE gateway[o]]
      BY DEF EndUnpaid
    <2>2. \A o \in Order : gateway[o] \in Trade /\ [gateway[o] EXCEPT !.trade = "closed"] \in Trade
      BY DEF Typed, TypeOK, Trade
    <2> QED BY <2>1, <2>2
  <1>4. OutsideTyped'
    BY <1>3, TypedParts DEF OutsideTyped, EndUnpaid
  <1> QED BY <1>2, <1>4, OrderWrittenTyped DEF EndUnpaid

LEMMA GatewayStepsTyped ==
    ASSUME Typed, NEW o \in Order, GatewayPay(o) \/ GatewaySettle(o) \/ RefundCallLost(o)
    PROVE  Typed'
  <1>1. UNCHANGED <<order, placed, made, links, sub, subs, granted, money, offered, now>>
    BY DEF GatewayPay, GatewaySettle, RefundCallLost
  <1>2. gateway' \in [Order -> Trade]
    BY DEF GatewayPay, GatewaySettle, RefundCallLost, Typed, TypeOK, Trade
  <1>3. received' \in Nat /\ returned' \in Nat
    <2>1. received \in Nat /\ returned \in Nat /\ order[o].payable \in Nat
      BY OrderColumnsRead DEF Typed, TypeOK
    <2> QED BY <2>1 DEF GatewayPay, GatewaySettle, RefundCallLost
  <1>4. OutsideTyped'
    BY <1>2, <1>3 DEF OutsideTyped
  <1>5. order' \in [Order -> OrderRow]
    BY <1>1 DEF Typed, TypeOK
  <1> QED BY <1>1, <1>4, <1>5, OrderWrittenTyped

LEMMA NotifyTyped ==
    ASSUME Typed, NEW o \in Order, Notify(o)
    PROVE  Typed'
  <1>1. gateway' \in [Order -> Trade] /\ UNCHANGED <<placed, made, received, returned>>
    BY DEF Notify, Typed, TypeOK, Trade
  <1>2. IdsTyped' /\ OutsideTyped'
    BY <1>1, TypedParts DEF IdsTyped, OutsideTyped
  <1>3. RowsTyped'
    <2>1. CASE Live(order[o])
      BY <2>1, TypedParts DEF Notify, RowsTyped, SubsTyped, money
    <2>2. CASE ~Live(order[o])
      <3>1. HandlePaidOrder(o, order[o], balance, ledger)
        BY <2>2 DEF Notify
      <3>2. order[o] \in OrderRow /\ balance \in Nat /\ ledger \in Int
        BY DEF Typed, TypeOK
      <3> QED BY <3>1, <3>2, HandledTyped
    <2> QED BY <2>1, <2>2
  <1> QED BY <1>2, <1>3, TypedPartsNext

\* The orders paid from the balance, and those an admin completes.
LEMMA PaidInOfficeTyped ==
    ASSUME Typed, NEW o \in Order, PayByBalance(o) \/ AdminComplete(o)
    PROVE  Typed'
  <1>1. /\ UNCHANGED <<placed, made, outside>> /\ o \in placed /\ order[o] \in OrderRow
        /\ balance \in Nat /\ ledger \in Int /\ order[o].payable \in Nat
        /\ order[o].provider \in Provider
    BY OrderColumnsRead DEF PayByBalance, AdminComplete, Payable, Typed, TypeOK
  <1>2. IdsTyped' /\ OutsideTyped'
    BY <1>1, TypedParts, OutsideKept DEF IdsTyped
  <1>3. RowsTyped'
    <2>1. CASE PayByBalance(o)
      <3> DEFINE row == [order[o] EXCEPT !.provider = "BALANCE"]
                 bal == balance - order[o].payable
                 led == ledger - order[o].payable
      <3>1. HandlePaidOrder(o, row, bal, led) /\ Affords(o)
        BY <2>1 DEF PayByBalance
      <3>2. bal \in Nat /\ led \in Int
        BY <1>1, <3>1 DEF Affords
      <3>3. row \in OrderRow
        <4>1. "BALANCE" \in Provider
          BY DEF Provider
        <4> QED BY <1>1, <4>1, OrderColumns
      <3> HIDE DEF row, bal, led
      <3> QED BY <3>1, <3>2, <3>3, HandledTyped
    <2>2. CASE AdminComplete(o)
      <3> DEFINE v == IF order[o].provider = "NONE" THEN "ADMIN" ELSE order[o].provider
                 row == [order[o] EXCEPT !.provider = v]
      <3>1. HandlePaidOrder(o, row, balance, ledger)
        BY <2>2 DEF AdminComplete
      <3>2. v \in Provider
        BY <1>1 DEF Provider
      <3> HIDE DEF v
      <3>3. row \in OrderRow
        BY <1>1, <3>2, OrderColumns
      <3> HIDE DEF row
      <3> QED BY <1>1, <3>1, <3>3, HandledTyped
    <2> QED BY <2>1, <2>2
  <1> QED BY <1>2, <1>3, TypedPartsNext

LEMMA AdminSetStatusTyped ==
    ASSUME Typed, NEW o \in Order, NEW status \in {"CREATED", "CANCELED", "TIMEOUT"},
           AdminSetStatus(o, status)
    PROVE  Typed'
  <1>1. o \in placed /\ order[o] \in OrderRow
    BY DEF AdminSetStatus, Typed, TypeOK
  <1>2. [order[o] EXCEPT !.status = status, !.paidOn = None] \in OrderRow
    <2>1. status \in OrderStatus /\ None \in 0..MaxNow
      BY BoundsAssumption DEF OrderStatus, None
    <2> QED BY <1>1, <2>1, OrderColumns
  <1>3. order' = [order EXCEPT ![o] = [order[o] EXCEPT !.status = status, !.paidOn = None]]
    BY <1>1 DEF AdminSetStatus, Typed, TypeOK
  <1>4. order' \in [Order -> OrderRow]
    BY <1>2, <1>3, RowTyped
  <1> QED BY <1>4, OutsideKept, OrderWrittenTyped DEF AdminSetStatus

LEMMA RemoveOrdersTyped ==
    ASSUME Typed, NEW S, RemoveOrders(S)
    PROVE  Typed'
  <1>1. \A o \in Order : [BlankOrder EXCEPT !.payable = order[o].payable] \in OrderRow
    <2> SUFFICES ASSUME NEW o \in Order
                 PROVE  [BlankOrder EXCEPT !.payable = order[o].payable] \in OrderRow
      OBVIOUS
    <2>1. order[o].payable \in Nat
      BY OrderColumnsRead DEF Typed, TypeOK
    <2> QED BY <2>1, BlanksTyped DEF OrderRow
  <1>2. \A o \in Order : Detached(o, S) \in OrderRow
    <2> SUFFICES ASSUME NEW o \in Order PROVE Detached(o, S) \in OrderRow
      OBVIOUS
    <2> DEFINE a == IF order[o].parent \in S THEN None ELSE order[o].parent
               b == IF order[o].superseded \in S THEN None ELSE order[o].superseded
               c == IF order[o].chain \in S THEN o ELSE order[o].chain
    <2>1. order[o] \in OrderRow
      BY DEF Typed, TypeOK
    <2>2. a \in Order \cup {None} /\ b \in Order \cup {None} /\ c \in Order \cup {None}
      BY <2>1, OrderColumnsRead
    <2>3. Detached(o, S) = [order[o] EXCEPT !.parent = a, !.superseded = b, !.chain = c]
      BY DEF Detached
    <2> HIDE DEF a, b, c
    <2>4. \A x, y, z \in Order \cup {None} :
             [order[o] EXCEPT !.parent = x, !.superseded = y, !.chain = z] \in OrderRow
      BY <2>1, OrderColumns
    <2>5. [order[o] EXCEPT !.parent = a, !.superseded = b, !.chain = c] \in OrderRow
      BY <2>2, <2>4
    <2> QED BY <2>3, <2>5
  <1>3. order' \in [Order -> OrderRow]
    BY <1>1, <1>2 DEF RemoveOrders
  <1>4. placed' \subseteq placed /\ links' \subseteq links
    BY DEF RemoveOrders, LinksWithout
  <1> QED BY <1>3, <1>4, OutsideKept, OrderWrittenTyped DEF RemoveOrders

LEMMA SubscriptionOfTyped ==
    ASSUME Typed, NEW o \in Order
    PROVE  /\ SubscriptionOf(o) \in subs \cup {None}
           /\ order[o].sub \in subs => SubscriptionOf(o) = order[o].sub
  <1> DEFINE same == {s \in subs : sub[s].plan = order[o].plan /\ sub[s].status = "ACTIVE"}
  <1>1. same \subseteq subs /\ same \in SUBSET Nat /\ IsFiniteSet(same)
    <2>1. subs \subseteq Sub /\ \A s \in subs : s \in Nat
      BY IdSets
    <2> QED BY <2>1, IdsAreFinite
  <1>2. SubscriptionOf(o) = IF order[o].sub \in subs THEN order[o].sub
                            ELSE IF same = {} THEN None ELSE Max(same)
    BY DEF SubscriptionOf
  <1> HIDE DEF same
  <1>3. same # {} => Max(same) \in same
    BY <1>1, MaxExists
  <1> QED BY <1>1, <1>2, <1>3

LEMMA DaysLeftIsNat ==
    ASSUME Typed, NEW o, NEW s
    PROVE  DaysLeft(o, s) \in Nat
  <1>1. Paying(o, s) \subseteq Order /\ placed \subseteq Order
    BY IdSets DEF Paying, LiveOrdersOf
  <1>2. \A q \in Order : Days[q] \in Nat
    <2> SUFFICES ASSUME NEW q \in Order PROVE Days[q] \in Nat
      OBVIOUS
    <2>1. order[q].days \in Nat
      BY OrderColumnsRead DEF Typed, TypeOK
    <2> QED BY <2>1 DEF Days
  <1>3. Sum(Days, Paying(o, s)) \in Nat
    BY <1>1, <1>2, IdsAreFinite, SumIsNat
  <1> QED BY <1>1, <1>3, DaysLeftIsSum

\* What the refund of order o does to the subscriptions, exactly.
LEMMA RolledBack ==
    ASSUME Typed, NEW o \in Order, RollbackSubscription(o), now' = now, granted' = granted
    PROVE  LET s    == SubscriptionOf(o)
               days == DaysLeft(o, s)
           IN  /\ SubsTyped'
               /\ subs' = IF s = None \/ days > 0 THEN subs ELSE subs \ {s}
               /\ s # None /\ days > 0 =>
                    /\ sub'[s].plan = sub[s].plan /\ sub'[s].cycle = sub[s].cycle
                    /\ sub'[s].start = sub[s].start /\ sub'[s].end = sub[s].start + days
               /\ \A r \in subs \ {s} :
                    /\ sub'[r].plan = sub[r].plan /\ sub'[r].cycle = sub[r].cycle
                    /\ sub'[r].start = sub[r].start /\ sub'[r].end = sub[r].end
                    /\ sub'[r].status = "ACTIVE" => sub[r].status = "ACTIVE"
                    /\ sub[r].end > now => sub'[r] = sub[r]
  <1> DEFINE s == SubscriptionOf(o)
             days == DaysLeft(o, s)
             end == sub[s].start + days
             ids == IF s = None \/ days > 0 THEN subs ELSE subs \ {s}
             new == [sub[s] EXCEPT !.end = end, !.status = IF end <= now THEN "CANCELED" ELSE "ACTIVE"]
             t == IF s # None /\ days > 0
                  THEN [sub EXCEPT ![s].end = end,
                                   ![s].status = IF end <= now THEN "CANCELED" ELSE "ACTIVE"]
                  ELSE [r \in Sub |-> IF r \in ids THEN sub[r] ELSE BlankSub]
  <1>1. /\ s \in subs \cup {None} /\ days \in Nat /\ now \in Nat /\ subs \subseteq Sub
        /\ granted \in 0..MaxSubs /\ subs \subseteq 1..granted /\ now \in 1..MaxNow
        /\ sub \in [Sub -> SubRow] /\ \A r \in Sub : sub[r] \in SubRow
        /\ \A r \in subs : sub[r].plan \in Plan /\ sub[r].start \in 1..now
    BY IdSets, SubscriptionOfTyped, DaysLeftIsNat DEF Typed, TypeOK
  <1>2. subs' = ids /\ sub' = ExpireStale(t, ids)
    BY DEF RollbackSubscription
  <1>3. ASSUME s \in subs
        PROVE  /\ new \in SubRow /\ new.plan = sub[s].plan /\ new.cycle = sub[s].cycle
               /\ new.start = sub[s].start /\ new.end = end
    <2> DEFINE v == IF end <= now THEN "CANCELED" ELSE "ACTIVE"
    <2>1. v \in SubStatus
      BY DEF SubStatus
    <2>2. end \in Nat /\ sub[s] \in SubRow
      <3> HIDE DEF s, days
      <3>1. sub[s] \in SubRow /\ days \in Nat
        BY <1>1, <1>3
      <3>2. sub[s].start \in Nat
        BY <3>1, SubColumns
      <3> QED BY <3>1, <3>2
    <2>3. new = [sub[s] EXCEPT !.end = end, !.status = v]
      OBVIOUS
    <2> HIDE DEF v, end, new, s
    <2>4. new \in SubRow
      BY <2>1, <2>2, <2>3, SubColumns
    <2> QED BY <2>2, <2>3, <2>4 DEF SubRow
  <1>4. s # None /\ days > 0 => t = [sub EXCEPT ![s] = new]
    BY <1>1
  <1>5. ~(s # None /\ days > 0) => t = [r \in Sub |-> IF r \in ids THEN sub[r] ELSE BlankSub]
    OBVIOUS
  <1>6. ids \subseteq subs /\ (s # None /\ days > 0 => ids = subs)
    OBVIOUS
  <1>7. subs' = IF s = None \/ days > 0 THEN subs ELSE subs \ {s}
    BY <1>2
  <1> HIDE DEF t, new, end, ids, days, s
  <1>8. /\ t \in [Sub -> SubRow]
        /\ s # None /\ days > 0 => t[s] = new
        /\ \A r \in ids \ {s} : t[r] = sub[r]
    <2>1. CASE s # None /\ days > 0
      <3>1. s \in subs /\ s \in Sub /\ ids \subseteq Sub
        BY <1>1, <1>6, <2>1
      <3>2. new \in SubRow /\ t = [sub EXCEPT ![s] = new]
        BY <1>3, <1>4, <2>1, <3>1
      <3> QED BY <1>1, <2>1, <3>1, <3>2
    <2>2. CASE ~(s # None /\ days > 0)
      BY <1>1, <1>5, <1>6, <2>2, BlanksTyped
    <2> QED BY <2>1, <2>2
  <1>9. /\ sub' \in [Sub -> SubRow]
        /\ \A r \in Sub :
             /\ sub'[r].plan = t[r].plan /\ sub'[r].cycle = t[r].cycle
             /\ sub'[r].start = t[r].start /\ sub'[r].end = t[r].end
             /\ sub'[r].status = "ACTIVE" => t[r].status = "ACTIVE"
             /\ t[r].end > now \/ t[r].status # "ACTIVE" => sub'[r] = t[r]
    BY <1>1, <1>2, <1>8, Stale
  <1>10. s # None /\ days > 0 =>
           /\ sub'[s].plan = sub[s].plan /\ sub'[s].cycle = sub[s].cycle
           /\ sub'[s].start = sub[s].start /\ sub'[s].end = sub[s].start + days
    BY <1>1, <1>3, <1>8, <1>9 DEF end
  <1>11. \A r \in ids \ {s} :
           /\ sub'[r].plan = sub[r].plan /\ sub'[r].cycle = sub[r].cycle
           /\ sub'[r].start = sub[r].start /\ sub'[r].end = sub[r].end
           /\ sub'[r].status = "ACTIVE" => sub[r].status = "ACTIVE"
           /\ sub[r].end > now => sub'[r] = sub[r]
    BY <1>1, <1>6, <1>8, <1>9
  <1>12. subs \ {s} = ids \ {s}
    BY <1>2, <1>7
  <1>13. \A r \in subs' : sub'[r].plan \in Plan /\ sub'[r].start \in 1..now
    <2> SUFFICES ASSUME NEW r \in subs' PROVE sub'[r].plan \in Plan /\ sub'[r].start \in 1..now
      OBVIOUS
    <2>1. r \in ids /\ r \in subs
      BY <1>2, <1>6
    <2>2. CASE r = s
      <3>1. s # None /\ days > 0
        <4>1. s # None
          BY <1>1, <2>1, <2>2, BoundsAssumption DEF None, Sub
        <4> QED BY <1>2, <1>7, <2>2, <4>1
      <3> QED BY <1>1, <1>10, <2>1, <2>2, <3>1
    <2>3. CASE r # s
      BY <1>1, <1>11, <2>1, <2>3
    <2> QED BY <2>2, <2>3
  <1>14. SubsTyped'
    <2>1. subs' \subseteq 1..granted
      BY <1>1, <1>2, <1>6
    <2> QED BY <1>1, <1>9, <1>13, <2>1 DEF SubsTyped
  <1> QED BY <1>7, <1>10, <1>11, <1>12, <1>14 DEF s, days

LEMMA RefundTyped ==
    ASSUME Typed, NEW o \in Order, CompleteRefund(o), balance' \in Nat, ledger' \in Int,
           UNCHANGED outside
    PROVE  Typed'
  <1>1. RollbackSubscription(o) /\ UNCHANGED <<placed, made, links, granted, offered, now>>
    BY DEF CompleteRefund
  <1>2. SubsTyped'
    BY <1>1, RolledBack
  <1>3. ASSUME NEW q \in Order, NEW w \in Settlement
        PROVE  Refunded(order[q], w) \in OrderRow
    <2>1. order[q] \in OrderRow /\ "REFUNDED" \in OrderStatus /\ "REFUNDED" \in RefundStatus
      BY DEF Typed, TypeOK, OrderStatus, RefundStatus
    <2> QED BY <2>1, OrderColumns DEF Refunded
  <1>4. order' \in [Order -> OrderRow]
    <2>1. "REFUNDED" \in Settlement /\ "COVERED_BY_DESCENDANT_REFUND" \in Settlement
          /\ \A q \in Order : order[q] \in OrderRow
      BY DEF Settlement, Typed, TypeOK
    <2>2. order' = [q \in Order |->
             IF q = o THEN Refunded(order[q], "REFUNDED")
             ELSE IF q \in Covered(o) THEN Refunded(order[q], "COVERED_BY_DESCENDANT_REFUND")
             ELSE order[q]]
      BY DEF CompleteRefund
    <2> QED BY <1>3, <2>1, <2>2
  <1>5. RowsTyped'
    BY <1>1, <1>2, <1>4, TypedParts DEF RowsTyped
  <1>6. IdsTyped'
    BY <1>1, TypedParts DEF IdsTyped
  <1> QED BY <1>5, <1>6, OutsideKept, TypedPartsNext

LEMMA RefundStepsTyped ==
    ASSUME Typed, NEW o \in Order, RefundToBalance(o) \/ QueryOriginalRefund(o)
    PROVE  Typed'
  <1>1. /\ balance \in Nat /\ ledger \in Int
        /\ RefundTotal(order[o]) \in Nat /\ CreditPart(order[o]) \in Nat
    <2>1. order[o].payable \in Nat /\ order[o].credit \in Nat
      BY OrderColumnsRead DEF Typed, TypeOK
    <2> QED BY <2>1 DEF RefundTotal, CreditPart, Typed, TypeOK
  <1>2. balance' \in Nat /\ ledger' \in Int
    BY <1>1 DEF RefundToBalance, QueryOriginalRefund
  <1>3. CompleteRefund(o) /\ UNCHANGED outside
    BY DEF RefundToBalance, QueryOriginalRefund
  <1> QED BY <1>2, <1>3, RefundTyped

LEMMA DeletePlanTyped ==
    ASSUME Typed, NEW p \in Plan, DeletePlan(p)
    PROVE  Typed'
  <1> DEFINE gone == {s \in subs : sub[s].plan = p}
  <1>1. /\ UNCHANGED <<placed, made, links, granted, money, outside, now>>
        /\ subs' = subs \ gone
        /\ sub' = [s \in Sub |-> IF s \in gone THEN BlankSub ELSE sub[s]]
        /\ order' = [o \in Order |-> IF order[o].plan = p
                                     THEN [order[o] EXCEPT !.plan = NoPlan] ELSE order[o]]
        /\ offered' \subseteq offered
    BY DEF DeletePlan
  <1>2. order' \in [Order -> OrderRow]
    <2>1. \A o \in Order : order[o] \in OrderRow /\ [order[o] EXCEPT !.plan = NoPlan] \in OrderRow
      BY OrderColumns DEF Typed, TypeOK
    <2> QED BY <1>1, <2>1
  <1>3. SubsTyped'
    <2>1. SubsTyped /\ subs \subseteq Sub
      BY TypedParts, IdSets DEF RowsTyped
    <2>2. sub' \in [Sub -> SubRow]
      BY <1>1, <2>1, BlanksTyped DEF SubsTyped
    <2>3. \A s \in subs' : s \in subs /\ sub'[s] = sub[s]
      BY <1>1, <2>1
    <2> QED BY <1>1, <2>1, <2>2, <2>3 DEF SubsTyped
  <1>4. RowsTyped'
    BY <1>1, <1>2, <1>3, TypedParts DEF RowsTyped, money
  <1>5. IdsTyped'
    BY <1>1, TypedParts DEF IdsTyped
  <1> QED BY <1>1, <1>4, <1>5, OutsideKept, TypedPartsNext

LEMMA ExpiryTyped ==
    ASSUME Typed, ExpireDue \/ CleanupExpired
    PROVE  Typed'
  <1>1. /\ UNCHANGED <<order, placed, made, links, granted, money, offered, outside, now>>
        /\ \E t \in [Sub -> SubRow] : /\ sub' = ExpireStale(t, subs')
                                      /\ \A s \in subs' : t[s] = sub[s]
        /\ subs' \subseteq subs
    <2>1. sub \in [Sub -> SubRow] /\ subs \subseteq Sub
      BY IdSets DEF Typed, TypeOK
    <2>2. CASE ExpireDue
      BY <2>1, <2>2 DEF ExpireDue
    <2>3. CASE CleanupExpired
      <3> DEFINE old == {s \in subs : sub[s].status = "EXPIRED" /\ sub[s].end + Retention <= now}
                 t == [s \in Sub |-> IF s \in old THEN BlankSub ELSE sub[s]]
      <3>1. /\ subs' = subs \ old /\ sub' = ExpireStale(t, subs')
            /\ UNCHANGED <<order, placed, made, links, granted, money, offered, outside, now>>
        BY <2>3 DEF CleanupExpired
      <3>2. t \in [Sub -> SubRow]
        BY <2>1, BlanksTyped
      <3>3. \A s \in subs' : t[s] = sub[s]
        BY <2>1, <3>1
      <3> QED BY <3>1, <3>2, <3>3
    <2> QED BY <2>2, <2>3
  <1>2. PICK t \in [Sub -> SubRow] : sub' = ExpireStale(t, subs') /\ \A s \in subs' : t[s] = sub[s]
    BY <1>1
  <1>3. now \in Nat /\ subs \subseteq Sub
    BY IdSets
  <1>4. /\ sub' \in [Sub -> SubRow]
        /\ \A s \in Sub : sub'[s].plan = t[s].plan /\ sub'[s].start = t[s].start
    BY <1>2, <1>3, Stale
  <1>5. SubsTyped'
    <2>1. SubsTyped
      BY TypedParts DEF RowsTyped
    <2>2. \A s \in subs' : s \in Sub /\ sub'[s].plan = sub[s].plan /\ sub'[s].start = sub[s].start
      BY <1>1, <1>2, <1>3, <1>4
    <2> QED BY <1>1, <1>4, <2>1, <2>2 DEF SubsTyped
  <1>6. RowsTyped'
    BY <1>1, <1>5, TypedParts DEF RowsTyped, money
  <1>7. IdsTyped'
    BY <1>1, TypedParts DEF IdsTyped
  <1> QED BY <1>1, <1>6, <1>7, OutsideKept, TypedPartsNext

LEMMA TickTyped == ASSUME Typed, Tick PROVE Typed'
  <1>1. /\ now' \in 1..MaxNow /\ now' = now + 1 /\ now \in Nat
        /\ UNCHANGED <<order, placed, made, links, sub, subs, granted, money, offered, outside>>
    BY BoundsAssumption, IdSets DEF Tick, Typed, TypeOK
  <1>2. SubsTyped'
    BY <1>1, TypedParts DEF RowsTyped, SubsTyped
  <1>3. RowsTyped' /\ IdsTyped'
    BY <1>1, <1>2, TypedParts DEF RowsTyped, IdsTyped, money
  <1> QED BY <1>1, <1>3, OutsideKept, TypedPartsNext

LEMMA NextTyped == Typed /\ [Next]_vars => Typed'
  <1> SUFFICES ASSUME Typed, [Next]_vars PROVE Typed'
    OBVIOUS
  <1>1. CASE UserStep
    <2>1. ASSUME NEW o \in Order, CloseOrder(o) \/ CancelOrder(o) PROVE Typed'
      <3>1. "TIMEOUT" \in OrderStatus /\ "CANCELED" \in OrderStatus
        BY DEF OrderStatus
      <3> QED BY <2>1, <3>1, EndUnpaidTyped DEF CloseOrder, CancelOrder
    <2> QED BY <1>1, <2>1, CreateOrderTyped, CreateRechargeOrderTyped, SmallOrderStepsTyped,
               PaidInOfficeTyped DEF UserStep
  <1>2. CASE GatewayStep
    BY <1>2, GatewayStepsTyped, NotifyTyped DEF GatewayStep
  <1>3. CASE AdminStep
    <2>1. ASSUME NEW p \in Plan, NEW c \in Cycle, DropCycle(p, c) PROVE Typed'
      <3>1. offered' \subseteq offered
            /\ UNCHANGED <<order, placed, made, links, sub, subs, granted, money, outside, now>>
        BY <2>1 DEF DropCycle
      <3> QED BY <3>1 DEF Typed, TypeOK, money, outside
    <2>2. \A S : DeleteOrders(S) => Typed'
      BY RemoveOrdersTyped DEF DeleteOrders
    <2>3. \A day : CleanupOrders(day) => Typed'
      BY RemoveOrdersTyped DEF CleanupOrders
    <2> QED BY <1>3, <2>1, <2>2, <2>3, SmallOrderStepsTyped, RefundStepsTyped, GatewayStepsTyped,
               PaidInOfficeTyped, AdminSetStatusTyped, DeletePlanTyped DEF AdminStep
  <1>4. CASE JobStep
    <2>1. ASSUME NEW S, FinalizeStale(S) PROVE Typed'
      <3>1. "TIMEOUT" \in OrderStatus
        BY DEF OrderStatus
      <3> QED BY <2>1, <3>1, EndUnpaidTyped DEF FinalizeStale
    <2> QED BY <1>4, <2>1, ExpiryTyped DEF JobStep
  <1>5. CASE Tick
    BY <1>5, TickTyped
  <1>6. CASE UNCHANGED vars
    BY <1>6 DEF vars, Typed, TypeOK
  <1> QED BY <1>1, <1>2, <1>3, <1>4, <1>5, <1>6 DEF Next

\* Every column keeps a value of its type and the balance is never overdrawn,
\* whatever the catalogue, the amounts and the handlers: no credit, no refund
\* and no number of days is ever computed from a row it is not defined for.
THEOREM ColumnsKeepTheirTypes == Spec => []TypeOK
  <1>1. Typed => TypeOK
    BY DEF Typed
  <1> QED BY <1>1, InitTyped, NextTyped, PTL DEF Spec

-----------------------------------------------------------------------------
(* Time that was paid for, while one thing is pending at a time.           *)

\* What the theorems below suppose: nothing is bought or refunded while
\* something is pending, callbacks that were answered do not come again, admins
\* do nothing but settle refunds, and no subscription is so old that its row
\* is cleaned up.
Orderly == OneAtATime /\ ~Redeliver /\ AdminTools = {} /\ MaxNow <= Retention

Unsold(row) == row.status \in {"CREATED", "CANCELED", "TIMEOUT"}

\* Order o is pending: Idle says that none is.
Busy(o) ==
    \/ o \in placed /\ (order[o].status = "CREATED" \/ order[o].refund = "PROCESSING")
    \/ gateway[o].trade = "open"
    \/ gateway[o].trade = "paid" /\ ~gateway[o].acked

Alone == \A o, q \in Order : Busy(o) /\ Busy(q) => o = q

\* What an order of the cycle can have stored as its days.
Storable(days, c) == IF c = "LIFETIME" THEN days = 0 ELSE days \in ShortTerm[c]..LongTerm[c]

\* The columns of a row agree: what was not sold yet is for no subscription and
\* was never consumed or refunded, what is live was not refunded, and what is
\* being refunded is live and nobody's source.
RowAgrees(row) ==
    /\ row.kind = "PLAN" => row.plan \in Plan
    /\ row.kind = "RECHARGE" => /\ row.sub = None /\ row.action = "NONE"
                               /\ row.refund = "NONE" /\ row.settlement = "OPEN"
    /\ Unsold(row) => row.sub = None /\ row.settlement = "OPEN" /\ row.refund = "NONE"
    /\ Live(row) => row.settlement \in {"OPEN", "CONSUMED"} /\ row.refund # "REFUNDED"
    /\ row.status = "REFUNDED" => row.refund = "REFUNDED"
    /\ row.refund = "PROCESSING" => Live(row) /\ row.settlement = "OPEN"
    /\ row.action = "RENEW" => row.cycle # "LIFETIME"
    /\ row.kind = "PLAN" => Storable(row.days, row.cycle)

\* An order that is sold, whose value is its own.
Holds(row) == row.kind = "PLAN" /\ Live(row) /\ row.settlement = "OPEN"

\* Some order holds value that an upgrade stored as row will consume.
Claimed(row) == \E q \in placed : Holds(order[q]) /\ order[q].sub \in row.sources

\* A renewal is not of a lifetime, whatever became of the subscription.
AnchorAgrees(row) ==
    row.action = "RENEW" =>
        /\ row.anchor \in 1..granted
        /\ row.anchor \in subs => sub[row.anchor].cycle # "LIFETIME"

\* How order o agrees with the other tables.
Agrees(o) ==
    /\ ~Unsold(order[o]) /\ order[o].provider = "EPAY" => gateway[o].acked
    /\ ~Unsold(order[o]) /\ order[o].kind = "PLAN" => order[o].sub \in 1..granted
    /\ Holds(order[o]) => order[o].sub \in subs
    /\ AnchorAgrees(order[o])
    /\ ~Unsold(order[o]) /\ order[o].action \in Consuming => \E e \in links : e[2] = o
    /\ Unsold(order[o]) /\ Busy(o) /\ order[o].action \in Consuming => Claimed(order[o])

OrdersAgree == \A o \in placed : RowAgrees(order[o]) /\ Agrees(o)

\* Links join orders that were sold, and the source has nothing left.
LinksAreSpent ==
    \A e \in links : /\ order[e[1]].settlement # "OPEN"
                     /\ ~Unsold(order[e[1]]) /\ ~Unsold(order[e[2]])

\* The orders of one subscription are all lifetimes or all not, one of them
\* granted it and the others renewed it, and they are consumed together.
OrdersShare ==
    \A o \in placed : order[o].sub # None =>
        /\ order[o].sub \in subs =>
              (sub[order[o].sub].cycle = "LIFETIME" <=> order[o].cycle = "LIFETIME")
        /\ \A q \in placed : order[q].sub = order[o].sub =>
              /\ order[o].action # "RENEW" /\ order[q].action # "RENEW" => o = q
              /\ Live(order[o]) /\ Live(order[q]) => order[o].settlement = order[q].settlement

\* A subscription that is active has an order that holds value, and one with
\* such an order lasts as long as its live orders paid for: one term of each,
\* of the length of some month.
TermIsPaid(s) ==
    /\ sub[s].start <= sub[s].end
    /\ sub[s].status = "ACTIVE" => \E o \in LiveOrdersOf(s) : order[o].settlement = "OPEN"
    /\ sub[s].cycle # "LIFETIME" =>
          \A o \in LiveOrdersOf(s) : order[o].settlement = "OPEN" => Term(s) \in Allowed(None, s)

TermsArePaid == \A s \in subs : TermIsPaid(s)

TimeInvariant ==
    /\ Typed /\ ChainInvariant
    /\ Alone /\ OrdersAgree /\ LinksAreSpent /\ OrdersShare /\ TermsArePaid

LEMMA InitTime == Init => TimeInvariant
  <1> SUFFICES ASSUME Init PROVE TimeInvariant
    OBVIOUS
  <1>1. Typed /\ ChainInvariant
    BY InitTyped, InitChain
  <1>2. placed = {} /\ links = {} /\ subs = {} /\ \A o \in Order : gateway[o].trade = "none"
    BY DEF Init, BlankTrade
  <1>3. Alone /\ OrdersAgree /\ LinksAreSpent /\ OrdersShare /\ TermsArePaid
    BY <1>2 DEF Alone, Busy, OrdersAgree, LinksAreSpent, OrdersShare, TermsArePaid
  <1> QED BY <1>1, <1>3 DEF TimeInvariant

LEMMA IdleIsNoneBusy == Idle <=> \A o \in Order : ~Busy(o)
  BY DEF Idle, Busy

\* What a row says that was not sold, is live, or was refunded.
LEMMA Kinds ==
    ASSUME NEW row \in OrderRow
    PROVE  /\ Unsold(row) => ~Live(row) /\ ~Successful(row) /\ row.status # "REFUNDED"
           /\ Live(row) => Successful(row) /\ row.status # "REFUNDED"
           /\ Successful(row) <=> ~Unsold(row)
           /\ ~Unsold(row) <=> Live(row) \/ row.status = "REFUNDED"
  BY DEF Unsold, Live, Successful, OrderRow, OrderStatus

LEMMA SoldFacts ==
    ASSUME TimeInvariant, NEW o \in placed
    PROVE  /\ o \in Order /\ order[o] \in OrderRow /\ RowAgrees(order[o]) /\ Agrees(o)
           /\ order[o].sub # None => order[o].kind = "PLAN" /\ ~Unsold(order[o])
           /\ order[o].sub \in Sub \cup {None} /\ None \notin Sub /\ None \notin subs
  <1>1. o \in Order /\ order[o] \in OrderRow /\ RowAgrees(order[o]) /\ Agrees(o)
    BY IdSets DEF TimeInvariant, OrdersAgree, Typed, TypeOK
  <1>2. order[o].kind \in {"PLAN", "RECHARGE"} /\ order[o].sub \in Sub \cup {None}
    BY <1>1, OrderColumnsRead
  <1>3. None \notin Sub /\ subs \subseteq Sub
    BY IdSets, BoundsAssumption DEF None, Sub, TimeInvariant
  <1> QED BY <1>1, <1>2, <1>3 DEF RowAgrees

-----------------------------------------------------------------------------
(* The days of a subscription, before and after a step.                    *)

\* The columns of LeastLeft and MostLeft are numbers, nothing for a lifetime.
LEMMA LengthsTyped ==
    ASSUME Typed, NEW r \in Order
    PROVE  /\ Least[r] = Shortest(order[r]) /\ Most[r] = Longest(order[r])
           /\ Least[r] \in Nat /\ Most[r] \in Nat
           /\ Days[r] = order[r].days /\ Days[r] \in Nat
           /\ order[r].cycle = "LIFETIME" => Least[r] = 0 /\ Most[r] = 0
           /\ order[r].cycle # "LIFETIME" => /\ Least[r] = ShortTerm[order[r].cycle]
                                             /\ Most[r] = LongTerm[order[r].cycle]
                                             /\ Least[r] # 0
  <1>1. order[r].cycle \in Cycle /\ order[r].days \in Nat
    BY OrderColumnsRead DEF Typed, TypeOK
  <1>2. ShortTerm[order[r].cycle] \in Nat \ {0} /\ LongTerm[order[r].cycle] \in Nat \ {0}
    BY <1>1, CalendarAssumption
  <1> QED BY <1>1, <1>2 DEF Least, Most, Days, Shortest, Longest

LEMMA AllowedTyped ==
    ASSUME Typed, NEW o, NEW s
    PROVE  /\ LeastLeft(o, s) \in Nat /\ MostLeft(o, s) \in Nat
           /\ LeastDays(s) = LeastLeft(None, s) /\ MostDays(s) = MostLeft(None, s)
  <1>1. placed \subseteq Order /\ None \notin Order
    BY IdSets, BoundsAssumption DEF None, Order
  <1>2. Paying(o, s) \subseteq Order /\ IsFiniteSet(Paying(o, s))
    BY <1>1, IdsAreFinite DEF Paying, LiveOrdersOf
  <1>3. \A r \in Paying(o, s) : Least[r] \in Nat /\ Most[r] \in Nat
    BY <1>2, LengthsTyped
  <1>4. PlanOrdersOf(s) = Paying(None, s)
    BY <1>1 DEF PlanOrdersOf, Paying, LiveOrdersOf
  <1> QED BY <1>1, <1>2, <1>3, <1>4, SumIsNat, MostDaysIsSum, LeastDaysIsSum
          DEF LeastLeft, MostLeft

LEMMA AllowedTypedNext ==
    (Typed => \A o, s : LeastLeft(o, s) \in Nat /\ MostLeft(o, s) \in Nat)'
  <1>1. Typed => \A o, s : LeastLeft(o, s) \in Nat /\ MostLeft(o, s) \in Nat
    BY AllowedTyped
  <1> QED BY <1>1, PTL

\* The time allowed follows from the orders that count and their cycles.
LEMMA AllowedFollows ==
    ASSUME placed \subseteq Order, (placed \subseteq Order)', NEW o, NEW q, NEW s,
           Paying(q, s)' = Paying(o, s),
           \A r \in Paying(o, s) : order'[r].cycle = order[r].cycle
    PROVE  /\ LeastLeft(q, s)' = LeastLeft(o, s) /\ MostLeft(q, s)' = MostLeft(o, s)
           /\ Allowed(q, s)' = Allowed(o, s)
  <1> DEFINE g == Least'
             h == Most'
             P == Paying(o, s)
  <1>1. LeastLeft(q, s)' = Sum(g, P) /\ MostLeft(q, s)' = Sum(h, P)
    BY DEF LeastLeft, MostLeft
  <1>2. P \subseteq Order /\ IsFiniteSet(P)
    BY IdsAreFinite DEF Paying, LiveOrdersOf
  <1>3. \A r \in P : g[r] = Least[r] /\ h[r] = Most[r]
    <2>1. \A r \in Order : /\ g[r] = Shortest(order'[r]) /\ Least[r] = Shortest(order[r])
                           /\ h[r] = Longest(order'[r]) /\ Most[r] = Longest(order[r])
      BY DEF Least, Most, Shortest, Longest
    <2> HIDE DEF g, h
    <2> QED BY <1>2, <2>1 DEF Shortest, Longest
  <1> HIDE DEF g, h
  <1>4. Sum(g, P) = Sum(Least, P) /\ Sum(h, P) = Sum(Most, P)
    BY <1>2, <1>3, SumOfSame
  <1>5. LeastLeft(q, s)' = LeastLeft(o, s) /\ MostLeft(q, s)' = MostLeft(o, s)
    BY <1>1, <1>4 DEF LeastLeft, MostLeft
  <1>6. Allowed(q, s)' = LeastLeft(q, s)'..MostLeft(q, s)'
    BY DEF Allowed
  <1> QED BY <1>5, <1>6 DEF Allowed

\* One order more, or one left out.
LEMMA AllowedSplits ==
    ASSUME Typed, NEW s, NEW q \in Paying(None, s)
    PROVE  /\ LeastLeft(None, s) = Shortest(order[q]) + LeastLeft(q, s)
           /\ MostLeft(None, s) = Longest(order[q]) + MostLeft(q, s)
  <1>1. placed \subseteq Order /\ None \notin Order
    BY IdSets, BoundsAssumption DEF None, Order
  <1>2. Paying(None, s) \subseteq Order /\ IsFiniteSet(Paying(None, s))
    BY <1>1, IdsAreFinite DEF Paying, LiveOrdersOf
  <1>3. \A r \in Paying(None, s) : Least[r] \in Nat /\ Most[r] \in Nat
    BY <1>2, LengthsTyped
  <1>4. /\ Sum(Least, Paying(None, s)) = Least[q] + Sum(Least, Paying(None, s) \ {q})
        /\ Sum(Most, Paying(None, s)) = Most[q] + Sum(Most, Paying(None, s) \ {q})
    BY <1>2, <1>3, SumSplits
  <1>5. Paying(None, s) \ {q} = Paying(q, s)
    <2>1. None \notin LiveOrdersOf(s)
      BY <1>1 DEF LiveOrdersOf
    <2> QED BY <2>1 DEF Paying
  <1>6. Least[q] = Shortest(order[q]) /\ Most[q] = Longest(order[q])
    BY <1>2, LengthsTyped
  <1> QED BY <1>4, <1>5, <1>6 DEF LeastLeft, MostLeft

\* The days the orders stored are days they can have bought.  When some are
\* left some order accounts for them; when none are, the others are lifetimes.
LEMMA DaysAreOrders ==
    ASSUME TimeInvariant, NEW o, NEW s
    PROVE  /\ DaysLeft(o, s) \in Allowed(o, s)
           /\ DaysLeft(o, s) # 0 => Paying(o, s) # {}
           /\ DaysLeft(o, s) = 0 => \A q \in Paying(o, s) : order[q].cycle = "LIFETIME"
           /\ (\A q \in Paying(o, s) : order[q].cycle = "LIFETIME") => LeastLeft(o, s) = 0
  <1> DEFINE P == Paying(o, s)
  <1>1. placed \subseteq Order /\ Typed
    BY IdSets DEF TimeInvariant
  <1>2. P \subseteq Order /\ IsFiniteSet(P)
    BY <1>1, IdsAreFinite DEF Paying, LiveOrdersOf
  <1>3. \A r \in P : /\ Days[r] \in Nat /\ Least[r] \in Nat /\ Most[r] \in Nat
                     /\ Least[r] <= Days[r] /\ Days[r] <= Most[r]
                     /\ Days[r] = 0 => order[r].cycle = "LIFETIME"
                     /\ order[r].cycle = "LIFETIME" => Least[r] = 0
    <2> SUFFICES ASSUME NEW r \in P
                 PROVE  /\ Days[r] \in Nat /\ Least[r] \in Nat /\ Most[r] \in Nat
                        /\ Least[r] <= Days[r] /\ Days[r] <= Most[r]
                        /\ Days[r] = 0 => order[r].cycle = "LIFETIME"
                        /\ order[r].cycle = "LIFETIME" => Least[r] = 0
      OBVIOUS
    <2>1. r \in Order /\ r \in placed /\ order[r].kind = "PLAN"
      BY <1>2 DEF Paying, LiveOrdersOf
    <2>2. Storable(order[r].days, order[r].cycle)
      BY <2>1 DEF TimeInvariant, OrdersAgree, RowAgrees
    <2>3. /\ Least[r] = Shortest(order[r]) /\ Most[r] = Longest(order[r])
          /\ Least[r] \in Nat /\ Most[r] \in Nat
          /\ Days[r] = order[r].days /\ Days[r] \in Nat
          /\ order[r].cycle = "LIFETIME" => Least[r] = 0 /\ Most[r] = 0
          /\ order[r].cycle # "LIFETIME" => /\ Least[r] = ShortTerm[order[r].cycle]
                                            /\ Most[r] = LongTerm[order[r].cycle]
                                            /\ Least[r] # 0
      BY <1>1, <2>1, LengthsTyped
    <2> QED BY <2>2, <2>3 DEF Storable
  <1>4. DaysLeft(o, s) = Sum(Days, P)
    BY <1>1, DaysLeftIsSum
  <1>5. Allowed(o, s) = Sum(Least, P)..Sum(Most, P) /\ LeastLeft(o, s) = Sum(Least, P)
    BY DEF Allowed, LeastLeft, MostLeft
  <1> HIDE DEF P
  <1>6. Sum(Days, P) \in Nat /\ Sum(Least, P) \in Nat /\ Sum(Most, P) \in Nat
    BY <1>2, <1>3, SumIsNat
  <1>7. Sum(Least, P) <= Sum(Days, P) /\ Sum(Days, P) <= Sum(Most, P)
    BY <1>2, <1>3, SumOfLess
  <1>8. Sum(Days, P) # 0 => P # {}
    BY SumOfNone
  <1>9. ASSUME Sum(Days, P) = 0, NEW q \in P PROVE Days[q] = 0
    <2>1. Sum(Days, P) = Days[q] + Sum(Days, P \ {q})
      BY <1>2, <1>3, SumSplits
    <2>2. Sum(Days, P \ {q}) \in Nat
      <3>1. IsFiniteSet(P \ {q}) /\ \A r \in P \ {q} : Days[r] \in Nat
        BY <1>2, <1>3, FS_Subset
      <3> QED BY <3>1, SumIsNat
    <2> QED BY <1>3, <1>9, <2>1, <2>2
  <1>10. (\A q \in P : Least[q] = 0) => Sum(Least, P) = 0
    BY <1>2, SumOfZeros
  <1> QED BY <1>3, <1>4, <1>5, <1>6, <1>7, <1>8, <1>9, <1>10 DEF P

-----------------------------------------------------------------------------
(* Steps that sell nothing and refund nothing.                             *)

\* What such a step leaves alone in a row.
SameSale(row, new) ==
    /\ new.kind = row.kind /\ new.plan = row.plan /\ new.cycle = row.cycle
    /\ new.action = row.action /\ new.sources = row.sources /\ new.anchor = row.anchor
    /\ new.sub = row.sub /\ new.settlement = row.settlement /\ new.days = row.days
    /\ Unsold(new) <=> Unsold(row)
    /\ Live(new) <=> Live(row)
    /\ ~Unsold(row) => new.provider = row.provider

QuietTime ==
    /\ placed' \subseteq placed /\ links' = links /\ granted' = granted /\ subs' = subs
    /\ \A o \in placed \ placed' : Unsold(order[o])
    /\ \A o \in placed' : /\ SameSale(order[o], order'[o]) /\ RowAgrees(order'[o])
                          /\ Unsold(order[o]) /\ Busy(o)' => Busy(o)
                          /\ gateway[o].acked => gateway'[o].acked
    /\ \A s \in subs : /\ sub'[s].cycle = sub[s].cycle
                       /\ sub'[s].start = sub[s].start /\ sub'[s].end = sub[s].end
                       /\ sub'[s].status = "ACTIVE" => sub[s].status = "ACTIVE"

LEMMA QuietKeepsTime ==
    ASSUME TimeInvariant, Typed', ChainInvariant', Alone', QuietTime
    PROVE  TimeInvariant'
  <1>1. \A o \in placed : o \in Order /\ order[o] \in OrderRow /\ RowAgrees(order[o]) /\ Agrees(o)
    BY SoldFacts
  <1>2. \A o \in placed' : /\ o \in placed /\ SameSale(order[o], order'[o])
                           /\ Holds(order'[o]) <=> Holds(order[o])
    BY DEF QuietTime, SameSale, Holds
  <1>3. \A o \in placed : Live(order[o]) => o \in placed'
    BY <1>1, Kinds DEF QuietTime
  <1>4. \A s : LiveOrdersOf(s)' = LiveOrdersOf(s)
    BY <1>2, <1>3 DEF LiveOrdersOf, SameSale
  <1>5. OrdersAgree'
    <2> SUFFICES ASSUME NEW o \in placed' PROVE RowAgrees(order'[o]) /\ Agrees(o)'
      BY DEF OrdersAgree
    <2>1. o \in placed /\ SameSale(order[o], order'[o]) /\ Agrees(o)
      BY <1>1, <1>2
    <2>2. AnchorAgrees(order[o])'
      <3>1. AnchorAgrees(order[o])
        BY <2>1 DEF Agrees
      <3> QED BY <2>1, <3>1 DEF AnchorAgrees, QuietTime, SameSale
    <2>3. Claimed(order[o]) => Claimed(order[o])'
      <3>1. ASSUME NEW q \in placed, Holds(order[q]), order[q].sub \in order[o].sources
            PROVE  q \in placed' /\ Holds(order'[q]) /\ order'[q].sub \in order'[o].sources
        <4>1. q \in placed'
          BY <1>3, <3>1 DEF Holds
        <4> QED BY <1>2, <2>1, <3>1, <4>1 DEF SameSale
      <3> QED BY <3>1 DEF Claimed
    <2>4. ~Unsold(order'[o]) /\ order'[o].provider = "EPAY" => gateway'[o].acked
      BY <2>1 DEF Agrees, QuietTime, SameSale
    <2>5. ~Unsold(order'[o]) /\ order'[o].kind = "PLAN" => order'[o].sub \in 1..granted'
      BY <2>1 DEF Agrees, QuietTime, SameSale
    <2>6. Holds(order'[o]) => order'[o].sub \in subs'
      BY <1>2, <2>1 DEF Agrees, QuietTime, SameSale
    <2>7. ~Unsold(order'[o]) /\ order'[o].action \in Consuming => \E e \in links' : e[2] = o
      BY <2>1 DEF Agrees, QuietTime, SameSale
    <2>8. Unsold(order'[o]) /\ Busy(o)' /\ order'[o].action \in Consuming => Claimed(order[o])'
      BY <2>1, <2>3 DEF Agrees, QuietTime, SameSale
    <2> QED BY <2>2, <2>4, <2>5, <2>6, <2>7, <2>8 DEF Agrees, QuietTime
  <1>6. LinksAreSpent'
    <2> SUFFICES ASSUME NEW e \in links
                 PROVE  /\ order'[e[1]].settlement # "OPEN"
                        /\ ~Unsold(order'[e[1]]) /\ ~Unsold(order'[e[2]])
      BY DEF LinksAreSpent, QuietTime
    <2>1. e[1] \in placed /\ e[2] \in placed
      BY DEF TimeInvariant, ChainInvariant, LinksJoinOrders
    <2>2. order[e[1]].settlement # "OPEN" /\ ~Unsold(order[e[1]]) /\ ~Unsold(order[e[2]])
      BY DEF TimeInvariant, LinksAreSpent
    <2>3. e[1] \in placed' /\ e[2] \in placed'
      BY <2>1, <2>2 DEF QuietTime
    <2> QED BY <1>2, <2>2, <2>3 DEF SameSale
  <1>7. OrdersShare'
    <2> SUFFICES ASSUME NEW o \in placed', order'[o].sub # None
                 PROVE  /\ order'[o].sub \in subs' =>
                             (sub'[order'[o].sub].cycle = "LIFETIME" <=> order'[o].cycle = "LIFETIME")
                        /\ \A q \in placed' : order'[q].sub = order'[o].sub =>
                             /\ order'[o].action # "RENEW" /\ order'[q].action # "RENEW" => o = q
                             /\ Live(order'[o]) /\ Live(order'[q]) =>
                                   order'[o].settlement = order'[q].settlement
      BY DEF OrdersShare
    <2>1. o \in placed /\ SameSale(order[o], order'[o]) /\ order[o].sub # None
      BY <1>2 DEF SameSale
    <2>2. order[o].sub \in subs => (sub[order[o].sub].cycle = "LIFETIME" <=> order[o].cycle = "LIFETIME")
      BY <2>1 DEF TimeInvariant, OrdersShare
    <2>3. ASSUME NEW q \in placed', order'[q].sub = order'[o].sub
          PROVE  /\ order'[o].action # "RENEW" /\ order'[q].action # "RENEW" => o = q
                 /\ Live(order'[o]) /\ Live(order'[q]) => order'[o].settlement = order'[q].settlement
      <3>1. q \in placed /\ SameSale(order[q], order'[q]) /\ order[q].sub = order[o].sub
        BY <1>2, <2>1, <2>3 DEF SameSale
      <3>2. /\ order[o].action # "RENEW" /\ order[q].action # "RENEW" => o = q
            /\ Live(order[o]) /\ Live(order[q]) => order[o].settlement = order[q].settlement
        BY <2>1, <3>1 DEF TimeInvariant, OrdersShare
      <3> QED BY <2>1, <3>1, <3>2 DEF SameSale
    <2>4. order'[o].sub \in subs' =>
             (sub'[order'[o].sub].cycle = "LIFETIME" <=> order'[o].cycle = "LIFETIME")
      BY <2>1, <2>2 DEF SameSale, QuietTime
    <2> QED BY <2>3, <2>4
  <1>8. TermsArePaid'
    <2> SUFFICES ASSUME NEW s \in subs PROVE TermIsPaid(s)'
      BY DEF TermsArePaid, QuietTime
    <2>1. /\ TermIsPaid(s) /\ sub'[s].cycle = sub[s].cycle
          /\ sub'[s].start = sub[s].start /\ sub'[s].end = sub[s].end
          /\ sub'[s].status = "ACTIVE" => sub[s].status = "ACTIVE"
      BY DEF TimeInvariant, TermsArePaid, QuietTime
    <2>2. \A o \in LiveOrdersOf(s) : o \in placed' /\ SameSale(order[o], order'[o])
      BY <1>2, <1>4 DEF LiveOrdersOf
    <2>3. \A o \in LiveOrdersOf(s) : order'[o].settlement = order[o].settlement
                                     /\ order'[o].kind = order[o].kind
                                     /\ order'[o].cycle = order[o].cycle
      BY <2>2 DEF SameSale
    <2>4. Allowed(None, s)' = Allowed(None, s)
      <3>1. placed \subseteq Order /\ (placed \subseteq Order)'
        BY <1>1 DEF QuietTime
      <3>2. Paying(None, s)' = Paying(None, s)
        BY <1>4, <2>3 DEF Paying
      <3>3. \A r \in Paying(None, s) : order'[r].cycle = order[r].cycle
        BY <2>3 DEF Paying
      <3> QED BY <3>1, <3>2, <3>3, AllowedFollows
    <2>5. Term(s)' = Term(s)
      BY <2>1 DEF Term
    <2> QED BY <1>4, <2>1, <2>3, <2>4, <2>5 DEF TermIsPaid
  <1> QED BY <1>5, <1>6, <1>7, <1>8 DEF TimeInvariant

LEMMA StillAlone ==
    ASSUME Alone, \A q \in Order : Busy(q)' => Busy(q)
    PROVE  Alone'
  BY DEF Alone

LEMMA AloneNow ==
    ASSUME Idle, NEW o, \A q \in Order \ {o} : Busy(q)' => Busy(q)
    PROVE  Alone'
  <1>1. \A q \in Order : ~Busy(q)
    BY IdleIsNoneBusy
  <1> QED BY <1>1 DEF Alone

\* The handlers that write order rows and tell the gateway.
LEMMA RowsQuiet ==
    ASSUME TimeInvariant, Typed', ChainInvariant', Alone',
           UNCHANGED <<placed, links, granted, sub, subs>>,
           \A o \in placed : SameSale(order[o], order'[o]) /\ RowAgrees(order'[o]),
           \A o \in placed : /\ Unsold(order[o]) /\ Busy(o)' => Busy(o)
                             /\ gateway[o].acked => gateway'[o].acked
    PROVE  TimeInvariant'
  <1>1. QuietTime
    BY DEF QuietTime
  <1> QED BY <1>1, QuietKeepsTime

LEMMA SameRowSells == \A row : SameSale(row, row)
  BY DEF SameSale

\* One row is written, in a column that says nothing of the sale.
LEMMA OneRowQuiet ==
    ASSUME TimeInvariant, Typed', ChainInvariant', Alone',
           UNCHANGED <<placed, links, granted, sub, subs>>,
           NEW o \in placed, NEW row, order' = [order EXCEPT ![o] = row],
           SameSale(order[o], row), RowAgrees(row),
           Unsold(order[o]) => Busy(o),
           \A q \in Order : gateway[q].acked => gateway'[q].acked,
           \A q \in Order \ {o} : gateway'[q] = gateway[q]
    PROVE  TimeInvariant'
  <1>1. \A q \in placed : q \in Order /\ order[q] \in OrderRow /\ RowAgrees(order[q])
    BY SoldFacts
  <1>2. order \in [Order -> OrderRow] /\ o \in Order
    BY <1>1 DEF TimeInvariant, Typed, TypeOK
  <1>3. order'[o] = row /\ \A q \in placed \ {o} : order'[q] = order[q]
    BY <1>1, <1>2
  <1>4. \A q \in placed : SameSale(order[q], order'[q]) /\ RowAgrees(order'[q])
    BY <1>1, <1>3, SameRowSells
  <1>5. \A q \in placed : Unsold(order[q]) /\ Busy(q)' => Busy(q)
    BY <1>1, <1>3 DEF Busy
  <1> QED BY <1>1, <1>4, <1>5, RowsQuiet

LEMMA PayLinkKeepsTime ==
    ASSUME TimeInvariant, Typed', ChainInvariant', NEW o \in Order, PayLink(o)
    PROVE  TimeInvariant'
  <1> DEFINE row == [order[o] EXCEPT !.provider = "EPAY"]
  <1>1. o \in placed /\ order[o].status = "CREATED" /\ order' = [order EXCEPT ![o] = row]
        /\ UNCHANGED <<placed, links, granted, sub, subs>>
        /\ gateway' = [gateway EXCEPT ![o].trade = IF @ = "none" THEN "open" ELSE @]
    BY DEF PayLink, Payable
  <1>2. order[o] \in OrderRow /\ RowAgrees(order[o]) /\ gateway \in [Order -> Trade]
        /\ order \in [Order -> OrderRow] /\ Alone
    BY <1>1, SoldFacts DEF TimeInvariant, Typed, TypeOK
  <1>3. SameSale(order[o], row) /\ RowAgrees(row)
    BY <1>1, <1>2 DEF OrderRow, SameSale, RowAgrees, Unsold, Live
  <1>4. /\ \A q \in Order : gateway[q].acked => gateway'[q].acked
        /\ \A q \in Order \ {o} : gateway'[q] = gateway[q]
        /\ \A q \in Order \ {o} : order'[q] = order[q]
    BY <1>1, <1>2 DEF Trade
  <1>5. Busy(o) /\ \A q \in Order \ {o} : Busy(q)' => Busy(q)
    BY <1>1, <1>4 DEF Busy
  <1>6. Alone'
    BY <1>2, <1>5, StillAlone
  <1> HIDE DEF row
  <1> QED BY <1>1, <1>3, <1>4, <1>5, <1>6, OneRowQuiet

\* The refund column, but for a refund that is done.
LEMMA RefundColumnKeepsTime ==
    ASSUME TimeInvariant, Typed', ChainInvariant', NEW o \in placed,
           NEW refund \in {"PENDING", "REJECTED", "PROCESSING"},
           order' = [order EXCEPT ![o].refund = refund],
           order[o].kind # "RECHARGE", Live(order[o]), order[o].refund # "REFUNDED",
           refund = "PROCESSING" => Idle /\ order[o].settlement = "OPEN",
           UNCHANGED <<placed, links, granted, sub, subs>>,
           \A q \in Order : /\ gateway'[q].acked = gateway[q].acked
                            /\ gateway'[q].trade = gateway[q].trade,
           \A q \in Order \ {o} : gateway'[q] = gateway[q]
    PROVE  TimeInvariant'
  <1> DEFINE row == [order[o] EXCEPT !.refund = refund]
  <1>1. order' = [order EXCEPT ![o] = row]
    OBVIOUS
  <1>2. o \in Order /\ order[o] \in OrderRow /\ RowAgrees(order[o])
        /\ order \in [Order -> OrderRow] /\ Alone
    BY SoldFacts DEF TimeInvariant, Typed, TypeOK
  <1>3. /\ row.kind = order[o].kind /\ row.plan = order[o].plan /\ row.cycle = order[o].cycle
        /\ row.action = order[o].action /\ row.sources = order[o].sources
        /\ row.anchor = order[o].anchor /\ row.sub = order[o].sub
        /\ row.settlement = order[o].settlement /\ row.status = order[o].status
        /\ row.provider = order[o].provider /\ row.refund = refund
        /\ row.days = order[o].days
    BY <1>2 DEF OrderRow
  <1>4. ~Unsold(order[o]) /\ order[o].status # "REFUNDED"
    BY <1>2, Kinds
  <1>5. order'[o] = row /\ \A q \in Order \ {o} : order'[q] = order[q]
    BY <1>1, <1>2
  <1> HIDE DEF row
  <1>6. SameSale(order[o], row) /\ RowAgrees(row)
    BY <1>2, <1>3, <1>4 DEF SameSale, RowAgrees, Unsold, Live
  <1>7. \A q \in Order \ {o} : Busy(q)' => Busy(q)
    <2> SUFFICES ASSUME NEW q \in Order \ {o} PROVE Busy(q)' => Busy(q)
      OBVIOUS
    <2>1. order'[q] = order[q] /\ gateway'[q] = gateway[q] /\ placed' = placed
      BY <1>5
    <2> QED BY <2>1 DEF Busy
  <1>8. Alone'
    <2>1. CASE refund = "PROCESSING"
      BY <1>7, <2>1, AloneNow
    <2>2. CASE refund # "PROCESSING"
      <3>1. Busy(o)' => Busy(o)
        <4>1. /\ gateway'[o].acked = gateway[o].acked /\ gateway'[o].trade = gateway[o].trade
              /\ placed' = placed /\ o \in placed
              /\ order'[o].status = order[o].status /\ order'[o].refund # "PROCESSING"
          BY <1>2, <1>3, <1>5, <2>2
        <4>2. ~gateway'[o].acked => ~gateway[o].acked
          BY <4>1
        <4> QED BY <4>1, <4>2 DEF Busy
      <3> QED BY <1>2, <1>7, <3>1, StillAlone
    <2> QED BY <2>1, <2>2
  <1>9. /\ \A q \in Order : gateway[q].acked => gateway'[q].acked
        /\ \A q \in Order \ {o} : gateway'[q] = gateway[q]
        /\ UNCHANGED <<placed, links, granted, sub, subs>>
    OBVIOUS
  <1>10. Unsold(order[o]) => Busy(o)
    BY <1>4
  <1> QED BY <1>1, <1>6, <1>8, <1>9, <1>10, OneRowQuiet

LEMMA RefundRequestsKeepTime ==
    ASSUME OneAtATime, TimeInvariant, Typed', ChainInvariant', NEW o \in Order,
           RequestRefund(o) \/ RejectRefund(o) \/ ApproveOriginalRefund(o)
    PROVE  TimeInvariant'
  <1>1. o \in placed /\ RowAgrees(order[o]) /\ order[o] \in OrderRow
        /\ UNCHANGED <<placed, links, granted, sub, subs>> /\ gateway \in [Order -> Trade]
    BY SoldFacts DEF RequestRefund, RejectRefund, ApproveOriginalRefund, AdminMayRefund,
                     Refundable, TimeInvariant, Typed, TypeOK
  <1>2. CASE RequestRefund(o)
    <2>1. /\ order' = [order EXCEPT ![o].refund = "PENDING"] /\ gateway' = gateway
          /\ order[o].kind # "RECHARGE" /\ Live(order[o]) /\ order[o].refund # "REFUNDED"
      BY <1>2 DEF RequestRefund, Refundable, outside
    <2> QED BY <1>1, <2>1, RefundColumnKeepsTime
  <1>3. CASE RejectRefund(o)
    <2>1. /\ order' = [order EXCEPT ![o].refund = "REJECTED"] /\ gateway' = gateway
          /\ order[o].refund = "PENDING"
      BY <1>3 DEF RejectRefund, outside
    <2>2. order[o].kind # "RECHARGE" /\ Live(order[o])
      BY <1>1, <2>1, Kinds DEF RowAgrees
    <2> QED BY <1>1, <2>1, <2>2, RefundColumnKeepsTime
  <1>4. CASE ApproveOriginalRefund(o)
    <2>1. /\ order' = [order EXCEPT ![o].refund = "PROCESSING"]
          /\ order[o].kind # "RECHARGE" /\ Live(order[o]) /\ order[o].refund # "REFUNDED"
          /\ order[o].settlement # "CONSUMED" /\ Idle
      BY <1>4 DEF ApproveOriginalRefund, AdminMayRefund, Refundable
    <2>2. order[o].settlement = "OPEN"
      BY <1>1, <2>1 DEF RowAgrees
    <2>3. /\ \A q \in Order : /\ gateway'[q].acked = gateway[q].acked
                              /\ gateway'[q].trade = gateway[q].trade
          /\ \A q \in Order \ {o} : gateway'[q] = gateway[q]
      BY <1>1, <1>4 DEF ApproveOriginalRefund, Trade
    <2> QED BY <1>1, <2>1, <2>2, <2>3, RefundColumnKeepsTime
  <1> QED BY <1>2, <1>3, <1>4

LEMMA EndUnpaidKeepsTime ==
    ASSUME TimeInvariant, Typed', ChainInvariant', NEW S \in SUBSET placed,
           NEW status \in {"CANCELED", "TIMEOUT"}, EndUnpaid(S, status),
           \A o \in S : order[o].status = "CREATED"
    PROVE  TimeInvariant'
  <1>1. /\ \A q \in placed : q \in Order /\ order[q] \in OrderRow /\ RowAgrees(order[q])
        /\ gateway \in [Order -> Trade] /\ Alone
    BY SoldFacts DEF TimeInvariant, Typed, TypeOK
  <1>2. /\ UNCHANGED <<placed, links, granted, sub, subs>>
        /\ \A q \in Order : order'[q] = IF q \in S THEN [order[q] EXCEPT !.status = status]
                                        ELSE order[q]
    BY DEF EndUnpaid
  <1>3. \A q \in Order : /\ gateway'[q].acked = gateway[q].acked
                         /\ gateway'[q].trade \in {gateway[q].trade, "closed"}
    BY <1>1 DEF EndUnpaid, Trade
  <1>4. \A q \in placed : /\ SameSale(order[q], order'[q]) /\ RowAgrees(order'[q])
                          /\ order'[q].status = "CREATED" => order[q].status = "CREATED"
                          /\ order'[q].refund = order[q].refund
    <2> SUFFICES ASSUME NEW q \in placed
                 PROVE  /\ SameSale(order[q], order'[q]) /\ RowAgrees(order'[q])
                        /\ order'[q].status = "CREATED" => order[q].status = "CREATED"
                        /\ order'[q].refund = order[q].refund
      OBVIOUS
    <2>1. order[q] \in OrderRow /\ RowAgrees(order[q])
      BY <1>1
    <2>2. CASE q \in S
      <3>1. order'[q] = [order[q] EXCEPT !.status = status] /\ order[q].status = "CREATED"
        BY <1>1, <1>2, <2>2
      <3> QED BY <2>1, <3>1 DEF OrderRow, SameSale, RowAgrees, Unsold, Live
    <2>3. CASE q \notin S
      BY <1>1, <1>2, <2>1, <2>3, SameRowSells
    <2> QED BY <2>2, <2>3
  <1>5. \A q \in Order : Busy(q)' => Busy(q)
    BY <1>2, <1>3, <1>4 DEF Busy
  <1>6. Alone'
    BY <1>1, <1>5, StillAlone
  <1> QED BY <1>1, <1>2, <1>3, <1>4, <1>5, <1>6, RowsQuiet

LEMMA GatewayKeepsTime ==
    ASSUME ~Redeliver, TimeInvariant, Typed', ChainInvariant', NEW o \in Order,
           \/ GatewayPay(o) \/ GatewaySettle(o) \/ RefundCallLost(o)
           \/ Notify(o) /\ Live(order[o])
    PROVE  TimeInvariant'
  <1>1. /\ \A q \in placed : q \in Order /\ order[q] \in OrderRow /\ RowAgrees(order[q])
        /\ gateway \in [Order -> Trade] /\ Alone
    BY SoldFacts DEF TimeInvariant, Typed, TypeOK
  <1>2. UNCHANGED <<order, placed, links, granted, sub, subs>>
    BY DEF GatewayPay, GatewaySettle, RefundCallLost, Notify
  <1>3. /\ \A q \in Order \ {o} : gateway'[q] = gateway[q]
        /\ gateway[o].acked => gateway'[o].acked
        /\ gateway'[o].trade = "open" => gateway[o].trade = "open"
        /\ gateway'[o].trade = "paid" /\ ~gateway'[o].acked =>
              gateway[o].trade = "open" \/ (gateway[o].trade = "paid" /\ ~gateway[o].acked)
    BY <1>1 DEF GatewayPay, GatewaySettle, RefundCallLost, Notify, Trade
  <1>4. \A q \in Order : Busy(q)' => Busy(q)
    BY <1>2, <1>3 DEF Busy
  <1>5. Alone'
    BY <1>1, <1>4, StillAlone
  <1>6. \A q \in placed : SameSale(order[q], order'[q]) /\ RowAgrees(order'[q])
    BY <1>1, <1>2, SameRowSells
  <1>7. \A q \in placed : gateway[q].acked => gateway'[q].acked
    BY <1>1, <1>3
  <1> QED BY <1>1, <1>2, <1>4, <1>5, <1>6, <1>7, RowsQuiet

LEMMA CleanupOrdersKeepsTime ==
    ASSUME TimeInvariant, Typed', ChainInvariant', NEW day, CleanupOrders(day)
    PROVE  TimeInvariant'
  <1> DEFINE S == {o \in placed : order[o].status \in {"TIMEOUT", "CANCELED"}
                                  /\ order[o].created < day}
  <1>1. RemoveOrders(S)
    BY DEF CleanupOrders
  <1>2. S \subseteq placed /\ \A o \in S : Unsold(order[o])
    BY DEF Unsold
  <1> HIDE DEF S
  <1>3. /\ \A q \in placed : q \in Order /\ order[q] \in OrderRow /\ RowAgrees(order[q])
        /\ Alone
    BY SoldFacts DEF TimeInvariant
  <1>4. /\ UNCHANGED <<granted, sub, subs, gateway>> /\ placed' = placed \ S
        /\ links' = {e \in links : e[1] \notin S /\ e[2] \notin S}
        /\ \A o \in Order \ S : order'[o] = Detached(o, S)
    BY <1>1 DEF RemoveOrders, LinksWithout, outside
  <1>5. links' = links
    BY <1>2, <1>4 DEF TimeInvariant, LinksAreSpent
  <1>6. ASSUME NEW q \in placed \ S
        PROVE  /\ SameSale(order[q], order'[q]) /\ RowAgrees(order'[q])
               /\ order'[q].status = order[q].status /\ order'[q].refund = order[q].refund
    <2>1. order[q] \in OrderRow /\ RowAgrees(order[q]) /\ order'[q] = Detached(q, S)
      BY <1>3, <1>4
    <2> DEFINE new == Detached(q, S)
    <2>2. /\ new.kind = order[q].kind /\ new.plan = order[q].plan /\ new.cycle = order[q].cycle
          /\ new.action = order[q].action /\ new.sources = order[q].sources
          /\ new.anchor = order[q].anchor /\ new.sub = order[q].sub
          /\ new.settlement = order[q].settlement /\ new.status = order[q].status
          /\ new.provider = order[q].provider /\ new.refund = order[q].refund
          /\ new.days = order[q].days
      BY <2>1 DEF OrderRow, Detached
    <2> HIDE DEF new
    <2>3. SameSale(order[q], new) /\ RowAgrees(new)
      BY <2>1, <2>2 DEF SameSale, RowAgrees, Unsold, Live
    <2> QED BY <2>1, <2>2, <2>3 DEF new
  <1>7. \A q \in Order : Busy(q)' => Busy(q)
    BY <1>4, <1>6 DEF Busy
  <1>8. Alone'
    BY <1>3, <1>7, StillAlone
  <1>9. QuietTime
    BY <1>2, <1>3, <1>4, <1>5, <1>6, <1>7 DEF QuietTime
  <1> QED BY <1>8, <1>9, QuietKeepsTime

LEMMA ClockKeepsTime ==
    ASSUME MaxNow <= Retention, TimeInvariant, Typed', ChainInvariant',
           ExpireDue \/ CleanupExpired \/ Tick \/ UNCHANGED vars
    PROVE  TimeInvariant'
  <1>1. /\ \A q \in placed : q \in Order /\ order[q] \in OrderRow /\ RowAgrees(order[q])
        /\ Alone /\ sub \in [Sub -> SubRow] /\ now \in Nat /\ now \in 0..MaxNow
        /\ subs \subseteq Sub /\ Retention \in Nat /\ MaxNow \in Nat
    BY SoldFacts, IdSets, BoundsAssumption, SettingsAssumption DEF TimeInvariant, Typed, TypeOK
  <1>2. ~CleanupExpired
    <2>1. \A s \in subs : sub[s].start \in Nat /\ sub[s].start >= 1 /\ sub[s].end \in Nat
                          /\ sub[s].start <= sub[s].end
      <3>1. \A s \in subs : sub[s].start \in 1..now /\ sub[s].start <= sub[s].end
        BY DEF TimeInvariant, Typed, TermsArePaid, TermIsPaid
      <3>2. \A s \in subs : sub[s] \in SubRow
        BY <1>1
      <3>3. \A row \in SubRow : row.start \in Nat /\ row.end \in Nat
        BY SubColumns
      <3>4. \A s \in subs : sub[s].start \in Nat /\ sub[s].end \in Nat
        BY <3>2, <3>3
      <3> QED BY <1>1, <3>1, <3>4
    <2>2. \A s \in subs : ~(sub[s].end + Retention <= now)
      BY <1>1, <2>1
    <2> QED BY <2>2 DEF CleanupExpired
  <1>3. UNCHANGED <<order, placed, links, granted, subs, gateway>>
    BY <1>2 DEF ExpireDue, Tick, vars, outside
  <1>4. \A s \in subs : /\ sub'[s].cycle = sub[s].cycle
                        /\ sub'[s].start = sub[s].start /\ sub'[s].end = sub[s].end
                        /\ sub'[s].status = "ACTIVE" => sub[s].status = "ACTIVE"
    <2>1. CASE ExpireDue
      <3>1. sub' = ExpireStale(sub, subs)
        BY <2>1 DEF ExpireDue
      <3> QED BY <1>1, <3>1, Stale
    <2>2. CASE Tick \/ UNCHANGED vars
      BY <2>2 DEF Tick, vars
    <2> QED BY <1>2, <2>1, <2>2
  <1>5. \A q \in Order : Busy(q)' => Busy(q)
    BY <1>3 DEF Busy
  <1>6. Alone'
    BY <1>1, <1>5, StillAlone
  <1>7. QuietTime
    BY <1>1, <1>3, <1>4, <1>5, SameRowSells DEF QuietTime
  <1> QED BY <1>6, <1>7, QuietKeepsTime

-----------------------------------------------------------------------------
(* Placing an order.                                                       *)

\* A subscription that is active is held by an order of its own.
LEMMA ActiveIsHeld ==
    ASSUME TimeInvariant, NEW s \in Running
    PROVE  \E q \in placed : Holds(order[q]) /\ order[q].sub = s
  <1>1. s \in subs /\ sub[s].status = "ACTIVE"
    BY DEF Running
  <1>2. PICK q \in LiveOrdersOf(s) : order[q].settlement = "OPEN"
    BY <1>1 DEF TimeInvariant, TermsArePaid, TermIsPaid
  <1>3. q \in placed /\ order[q].sub = s /\ Live(order[q])
    BY DEF LiveOrdersOf
  <1>4. order[q].kind = "PLAN"
    BY <1>1, <1>3, SoldFacts
  <1> QED BY <1>2, <1>3, <1>4 DEF Holds

\* Without a lifetime lock nothing that runs is of a lifetime.
LEMMA NoLockNoLifetime ==
    ASSUME TimeInvariant, ~LifetimeLock, NEW s \in Running
    PROVE  sub[s].cycle # "LIFETIME"
  <1>1. PICK q \in placed : Holds(order[q]) /\ order[q].sub = s
    BY ActiveIsHeld
  <1>2. order[q].kind = "PLAN" /\ Live(order[q]) /\ order[q].plan \in Plan
        /\ order[q].refund # "REFUNDED"
    BY <1>1, SoldFacts DEF Holds, RowAgrees
  <1>3. order[q].cycle # "LIFETIME"
    BY <1>2, CatalogueAssumption DEF LifetimeLock
  <1>4. s \in subs /\ s # None
    BY SoldFacts DEF Running
  <1> QED BY <1>1, <1>3, <1>4 DEF TimeInvariant, OrdersShare

\* A renewal is of a subscription that runs, and neither is for a lifetime.
LEMMA RenewalIsTimed ==
    ASSUME TimeInvariant, NEW p, NEW c, PurchaseAction(p, c) = "RENEW"
    PROVE  /\ c # "LIFETIME" /\ Latest \in subs /\ Latest \in 1..granted
           /\ sub[Latest].cycle # "LIFETIME"
  <1>1. Typed
    BY DEF TimeInvariant
  <1>2. ~LifetimeLock /\ Current # None /\ ActionOnCurrent(p, c) = "RENEW"
    BY <1>1, CurrentRuns DEF PurchaseAction
  <1>3. Current = Latest /\ Latest \in Running
    BY <1>1, <1>2, CurrentRuns
  <1>4. sub[Latest].cycle # "LIFETIME"
    BY <1>2, <1>3, NoLockNoLifetime
  <1>5. c # "LIFETIME"
    <2>1. CycleOf(Current) # "LIFETIME"
      BY <1>2, <1>3, <1>4 DEF CycleOf
    <2> QED BY <1>2, <2>1 DEF ActionOnCurrent
  <1>6. Latest \in subs /\ Latest \in 1..granted
    BY <1>1, <1>3 DEF Running, Typed, TypeOK
  <1> QED BY <1>4, <1>5, <1>6

\* An upgrade has something to consume.
LEMMA UpgradeHasSources ==
    ASSUME TimeInvariant, NEW p, NEW c, PurchaseAction(p, c) \in Consuming
    PROVE  Running # {}
  <1>1. Typed
    BY DEF TimeInvariant
  <1>2. Current # None \/ Latest # None
    BY DEF PurchaseAction, LifetimeTierUp, Consuming
  <1> QED BY <1>1, <1>2, CurrentRuns

\* What a row says that is placed, or was and is not sold yet.
Fresh(row) ==
    /\ row \in OrderRow /\ Unsold(row) /\ RowAgrees(row) /\ AnchorAgrees(row)
    /\ row.action \in Consuming => Claimed(row)

LEMMA NewOrderIsFresh ==
    ASSUME TimeInvariant, NEW o \in Order, NEW p \in Plan, NEW c \in Cycle,
           Preview(p, c).action # "BLOCKED",
           NEW parent \in AnchorOrders(ChainSources(Preview(p, c)))
    PROVE  /\ Fresh(NewOrder(o, p, c, Preview(p, c), parent))
           /\ NewOrder(o, p, c, Preview(p, c), parent).provider = "NONE"
           /\ NewOrder(o, p, c, Preview(p, c), parent).status = "CREATED"
  <1> DEFINE view == Preview(p, c)
             row == NewOrder(o, p, c, view, parent)
  <1>1. Typed
    BY DEF TimeInvariant
  <1>2. row \in OrderRow
    BY <1>1, NewOrderTyped
  <1>3. view.action = PurchaseAction(p, c)
        /\ (view.action \in Consuming => view.sources = Running)
        /\ (view.action = "RENEW" => view.anchor = Latest)
    BY <1>1, PreviewTyped DEF Preview
  <1>4. /\ row.kind = "PLAN" /\ row.plan = p /\ row.cycle = c /\ row.action = view.action
        /\ row.sources = view.sources /\ row.anchor = view.anchor /\ row.sub = None
        /\ row.status = "CREATED" /\ row.refund = "NONE" /\ row.settlement = "OPEN"
        /\ row.provider = "NONE" /\ row.days = DurationDays(now, c)
    BY DEF NewOrder, BlankOrder
  <1>5. row.action = "RENEW" => row.cycle # "LIFETIME" /\ AnchorAgrees(row)
    BY <1>3, <1>4, RenewalIsTimed DEF AnchorAgrees
  <1>6. row.action \in Consuming => Claimed(row)
    <2> SUFFICES ASSUME row.action \in Consuming PROVE Claimed(row)
      OBVIOUS
    <2>1. PICK s \in Running : TRUE
      BY <1>3, <1>4, UpgradeHasSources
    <2>2. PICK q \in placed : Holds(order[q]) /\ order[q].sub = s
      BY ActiveIsHeld
    <2>3. row.sources = Running
      BY <1>3, <1>4
    <2> HIDE DEF row
    <2> QED BY <2>1, <2>2, <2>3 DEF Claimed
  <1> HIDE DEF row, view
  <1>9. Storable(DurationDays(now, c), c)
    <2>1. now \in Nat
      BY <1>1, IdSets, BoundsAssumption
    <2> QED BY <2>1, TermLength DEF Storable
  <1>7. Unsold(row) /\ RowAgrees(row)
    BY <1>4, <1>5, <1>9 DEF Unsold, RowAgrees, Live
  <1>8. AnchorAgrees(row)
    BY <1>5 DEF AnchorAgrees
  <1> QED BY <1>2, <1>4, <1>6, <1>7, <1>8 DEF Fresh, row, view

LEMMA PlacedKeepsTime ==
    ASSUME TimeInvariant, Typed', ChainInvariant', Idle,
           NEW o \in Order, o \notin placed, placed' = placed \cup {o},
           NEW row, Fresh(row), row.status = "CREATED", order' = [order EXCEPT ![o] = row],
           UNCHANGED <<links, sub, subs, granted, gateway>>
    PROVE  TimeInvariant'
  <1>1. /\ \A q \in placed : q \in Order /\ order[q] \in OrderRow /\ RowAgrees(order[q]) /\ Agrees(q)
        /\ Typed /\ order \in [Order -> OrderRow] /\ placed \subseteq Order
        /\ row \in OrderRow /\ Unsold(row) /\ RowAgrees(row) /\ ~Live(row)
        /\ row.sub = None
    BY SoldFacts, Kinds, IdSets DEF TimeInvariant, Typed, TypeOK, Fresh, RowAgrees
  <1>2. order'[o] = row /\ \A q \in placed : order'[q] = order[q] /\ q # o
    BY <1>1
  <1>3. \A s : LiveOrdersOf(s)' = LiveOrdersOf(s)
    BY <1>1, <1>2 DEF LiveOrdersOf
  <1>4. \A q \in Order \ {o} : Busy(q)' => Busy(q)
    <2>1. \A q \in Order \ {o} : order'[q] = order[q] /\ (q \in placed' => q \in placed)
      BY <1>1
    <2> QED BY <2>1 DEF Busy
  <1>5. Alone'
    BY <1>4, AloneNow
  <1>6. \A q \in placed : Claimed(order[q]) => Claimed(order[q])'
    BY <1>2 DEF Claimed
  <1>7. OrdersAgree'
    <2> SUFFICES ASSUME NEW q \in placed' PROVE RowAgrees(order'[q]) /\ Agrees(q)'
      BY DEF OrdersAgree
    <2>1. CASE q = o
      <3>1. AnchorAgrees(order[o])' /\ (row.action \in Consuming => Claimed(order[o])')
        <4>1. AnchorAgrees(row) /\ (row.action \in Consuming => Claimed(row))
          BY DEF Fresh
        <4>2. Claimed(row) => Claimed(order[o])'
          BY <1>2 DEF Claimed
        <4> QED BY <1>2, <4>1, <4>2 DEF AnchorAgrees
      <3>2. ~Holds(row)
        BY <1>1 DEF Holds
      <3> QED BY <1>1, <1>2, <2>1, <3>1, <3>2 DEF Agrees
    <2>2. CASE q # o
      <3>1. q \in placed /\ order'[q] = order[q] /\ Agrees(q) /\ RowAgrees(order[q]) /\ q \in Order
        BY <1>1, <1>2, <2>2
      <3>2. AnchorAgrees(order[q])'
        BY <3>1 DEF Agrees, AnchorAgrees
      <3>3. Busy(q)' => Busy(q)
        BY <1>4, <2>2, <3>1
      <3> QED BY <1>6, <3>1, <3>2, <3>3 DEF Agrees
    <2> QED BY <2>1, <2>2
  <1>8. LinksAreSpent'
    <2>1. \A e \in links : e[1] \in placed /\ e[2] \in placed
      BY DEF TimeInvariant, ChainInvariant, LinksJoinOrders
    <2> QED BY <1>2, <2>1 DEF TimeInvariant, LinksAreSpent
  <1>9. OrdersShare'
    <2> SUFFICES ASSUME NEW q \in placed', order'[q].sub # None
                 PROVE  /\ order'[q].sub \in subs' =>
                             (sub'[order'[q].sub].cycle = "LIFETIME" <=> order'[q].cycle = "LIFETIME")
                        /\ \A r \in placed' : order'[r].sub = order'[q].sub =>
                             /\ order'[q].action # "RENEW" /\ order'[r].action # "RENEW" => q = r
                             /\ Live(order'[q]) /\ Live(order'[r]) =>
                                   order'[q].settlement = order'[r].settlement
      BY DEF OrdersShare
    <2>1. q \in placed /\ order'[q] = order[q]
      BY <1>1, <1>2
    <2>2. \A r \in placed' : order'[r].sub = order'[q].sub => r \in placed /\ order'[r] = order[r]
      BY <1>1, <1>2
    <2> QED BY <2>1, <2>2 DEF TimeInvariant, OrdersShare
  <1>10. TermsArePaid'
    <2> SUFFICES ASSUME NEW s \in subs PROVE TermIsPaid(s)'
      BY DEF TermsArePaid
    <2>1. TermIsPaid(s) /\ sub' = sub
      BY DEF TimeInvariant, TermsArePaid
    <2>2. \A q \in LiveOrdersOf(s) : order'[q] = order[q]
      BY <1>2 DEF LiveOrdersOf
    <2>3. Allowed(None, s)' = Allowed(None, s)
      <3>1. Paying(None, s)' = Paying(None, s)
        BY <1>3, <2>2 DEF Paying
      <3>2. \A r \in Paying(None, s) : order'[r].cycle = order[r].cycle
        BY <2>2 DEF Paying
      <3>3. placed' \subseteq Order
        BY <1>1
      <3> QED BY <1>1, <3>1, <3>2, <3>3, AllowedFollows
    <2>4. Term(s)' = Term(s)
      BY DEF Term
    <2> QED BY <1>3, <2>1, <2>2, <2>3, <2>4 DEF TermIsPaid
  <1> QED BY <1>5, <1>7, <1>8, <1>9, <1>10 DEF TimeInvariant

-----------------------------------------------------------------------------
(* Fulfilling an order.                                                    *)

LEMMA AllowedSplitsNext ==
    (Typed => \A s : \A q \in Paying(None, s) :
        /\ LeastLeft(None, s) = Shortest(order[q]) + LeastLeft(q, s)
        /\ MostLeft(None, s) = Longest(order[q]) + MostLeft(q, s))'
  <1>1. Typed => \A s : \A q \in Paying(None, s) :
           /\ LeastLeft(None, s) = Shortest(order[q]) + LeastLeft(q, s)
           /\ MostLeft(None, s) = Longest(order[q]) + MostLeft(q, s)
    BY AllowedSplits
  <1> QED BY <1>1, PTL

\* Order o is fulfilled as row, and is the only thing pending.
Fulfils(o, row) ==
    /\ o \in Order /\ Fresh(row) /\ (o \in placed => Unsold(order[o]))
    /\ placed' = placed \cup {o}
    /\ \A q \in Order \ {o} : ~Busy(q) /\ gateway'[q] = gateway[q]
    /\ row.provider = "EPAY" => gateway'[o].acked

\* What the sale of a plan makes of the orders.
PlanSold(o, row, target, used) ==
    /\ used \subseteq placed \ {o}
    /\ \A q \in placed : q \in used <=> /\ q # o /\ row.action \in Consuming
                                        /\ order[q].kind = "PLAN" /\ Successful(order[q])
                                        /\ order[q].sub \in row.sources
    /\ links' = links \cup (used \X {o})
    /\ row.kind = "PLAN"
    /\ order'[o].kind = "PLAN" /\ order'[o].plan \in Plan /\ order'[o].cycle = row.cycle
    /\ order'[o].action = row.action /\ order'[o].sources = row.sources
    /\ order'[o].anchor = row.anchor /\ order'[o].provider = row.provider
    /\ order'[o].status = "COMPLETED" /\ order'[o].settlement = "OPEN"
    /\ order'[o].refund = "NONE" /\ order'[o].sub = target /\ order'[o].days = row.days
    /\ \A q \in placed \ {o} :
         /\ order'[q].kind = order[q].kind /\ order'[q].plan = order[q].plan
         /\ order'[q].cycle = order[q].cycle /\ order'[q].action = order[q].action
         /\ order'[q].sources = order[q].sources /\ order'[q].anchor = order[q].anchor
         /\ order'[q].provider = order[q].provider /\ order'[q].status = order[q].status
         /\ order'[q].refund = order[q].refund /\ order'[q].sub = order[q].sub
         /\ order'[q].days = order[q].days
         /\ order'[q].settlement = IF q \in used /\ order[q].settlement # "REFUNDED"
                                   THEN "CONSUMED" ELSE order[q].settlement

LEMMA FulfilSells ==
    ASSUME TimeInvariant, NEW o, NEW row, NEW bal, NEW led, Fulfils(o, row),
           FulfilPlan(o, row, bal, led)
    PROVE  LET target == IF Extends(row) THEN row.anchor ELSE granted + 1
           IN  PlanSold(o, row, target, ConsumedBy(o, row))
  <1> DEFINE target == IF Extends(row) THEN row.anchor ELSE granted + 1
             used == ConsumedBy(o, row)
             new == [row EXCEPT !.status = "COMPLETED", !.paidOn = now,
                                !.sub = target, !.settlement = Open(row)]
             over(q) == [order[q] EXCEPT
                           !.superseded = o,
                           !.settlement = IF @ = "REFUNDED" THEN @ ELSE "CONSUMED"]
  <1>1. /\ row \in OrderRow /\ RowAgrees(row) /\ Unsold(row) /\ row.kind = "PLAN"
        /\ o \in Order /\ \A q \in placed : q \in Order /\ order[q] \in OrderRow
    BY SoldFacts DEF Fulfils, Fresh, FulfilPlan
  <1>2. /\ order'[o] = new /\ links' = links \cup (used \X {o})
        /\ \A q \in Order \ {o} : order'[q] = IF q \in used THEN over(q) ELSE order[q]
    BY <1>1 DEF FulfilPlan
  <1>3. /\ used \subseteq placed \ {o}
        /\ \A q \in placed : q \in used <=> /\ q # o /\ row.action \in Consuming
                                            /\ order[q].kind = "PLAN" /\ Successful(order[q])
                                            /\ order[q].sub \in row.sources
    BY DEF ConsumedBy
  <1>4. row.plan \in Plan /\ row.refund = "NONE" /\ row.settlement = "OPEN"
    BY <1>1 DEF RowAgrees
  <1>5. /\ new.kind = "PLAN" /\ new.plan \in Plan /\ new.cycle = row.cycle
        /\ new.action = row.action /\ new.sources = row.sources
        /\ new.anchor = row.anchor /\ new.provider = row.provider
        /\ new.status = "COMPLETED" /\ new.settlement = "OPEN"
        /\ new.refund = "NONE" /\ new.sub = target /\ new.days = row.days
    BY <1>1, <1>4 DEF OrderRow, Open
  <1>6. ASSUME NEW q \in placed
        PROVE  /\ over(q).kind = order[q].kind /\ over(q).plan = order[q].plan
               /\ over(q).cycle = order[q].cycle /\ over(q).action = order[q].action
               /\ over(q).sources = order[q].sources /\ over(q).anchor = order[q].anchor
               /\ over(q).provider = order[q].provider /\ over(q).status = order[q].status
               /\ over(q).refund = order[q].refund /\ over(q).sub = order[q].sub
               /\ over(q).days = order[q].days
               /\ over(q).settlement = IF order[q].settlement # "REFUNDED"
                                       THEN "CONSUMED" ELSE order[q].settlement
    <2>1. order[q] \in OrderRow
      BY <1>1
    <2> QED BY <2>1 DEF OrderRow
  <1> HIDE DEF target, used, new, over
  <1>7. ASSUME NEW q \in placed \ {o}
        PROVE  /\ order'[q].kind = order[q].kind /\ order'[q].plan = order[q].plan
               /\ order'[q].cycle = order[q].cycle /\ order'[q].action = order[q].action
               /\ order'[q].sources = order[q].sources /\ order'[q].anchor = order[q].anchor
               /\ order'[q].provider = order[q].provider /\ order'[q].status = order[q].status
               /\ order'[q].refund = order[q].refund /\ order'[q].sub = order[q].sub
               /\ order'[q].days = order[q].days
               /\ order'[q].settlement = IF q \in used /\ order[q].settlement # "REFUNDED"
                                         THEN "CONSUMED" ELSE order[q].settlement
    <2>1. order'[q] = IF q \in used THEN over(q) ELSE order[q]
      BY <1>1, <1>2
    <2>2. CASE q \in used
      BY <1>6, <2>1, <2>2
    <2>3. CASE q \notin used
      BY <2>1, <2>3
    <2> QED BY <2>2, <2>3
  <1>8. PlanSold(o, row, target, used)
    BY <1>1, <1>2, <1>3, <1>5, <1>7 DEF PlanSold
  <1> QED BY <1>8 DEF target, used

\* What it makes of the subscriptions.
TermSold(row, target) ==
    /\ target = IF Extends(row) THEN row.anchor ELSE granted + 1
    /\ target \in subs' /\ subs' = subs \cup {target}
    /\ granted' = IF Extends(row) THEN granted ELSE granted + 1
    /\ sub'[target].cycle = row.cycle /\ sub'[target].status = "ACTIVE"
    /\ sub'[target].start = IF Extends(row) THEN sub[target].start ELSE now
    /\ sub'[target].end = CycleEnd(IF Extends(row) THEN sub[target].end ELSE now, row.cycle)
    /\ \A s \in subs \ {target} :
         /\ sub'[s].cycle = sub[s].cycle /\ sub'[s].start = sub[s].start
         /\ sub[s].start <= sub[s].end => sub[s].start <= sub'[s].end
         /\ sub'[s].status = "ACTIVE" => sub[s].status = "ACTIVE"
         /\ row.action \in Consuming /\ s \in row.sources => sub'[s].status = "CANCELED"
         /\ ~(row.action \in Consuming /\ s \in row.sources) => sub'[s].end = sub[s].end

Sale(o, row, target, used) ==
    Fulfils(o, row) /\ PlanSold(o, row, target, used) /\ TermSold(row, target)

LEMMA FulfilIsSale ==
    ASSUME TimeInvariant, NEW o, NEW row, NEW bal, NEW led, Fulfils(o, row),
           FulfilPlan(o, row, bal, led), now' = now
    PROVE  \E target, used : Sale(o, row, target, used)
  <1> DEFINE target == IF Extends(row) THEN row.anchor ELSE granted + 1
  <1>1. PlanSold(o, row, target, ConsumedBy(o, row))
    BY FulfilSells
  <1>2. row \in OrderRow /\ row.plan \in Plan /\ Sell(row) /\ Typed /\ subs \subseteq Sub
    <2>1. row \in OrderRow /\ RowAgrees(row) /\ row.kind = "PLAN" /\ Sell(row)
      BY DEF Fulfils, Fresh, FulfilPlan
    <2> QED BY <2>1, IdSets DEF RowAgrees, TimeInvariant
  <1>3. /\ target \in Sub /\ target \in subs' /\ subs' = subs \cup {target}
        /\ granted' = IF Extends(row) THEN granted ELSE granted + 1
        /\ sub'[target].cycle = row.cycle /\ sub'[target].status = "ACTIVE"
        /\ sub'[target].end =
              CycleEnd(IF Extends(row) THEN sub[target].end ELSE now, row.cycle)
        /\ sub'[target].start = IF Extends(row) THEN sub[target].start ELSE now
        /\ \A s \in Sub \ {target} :
              /\ sub'[s].cycle = sub[s].cycle /\ sub'[s].start = sub[s].start
              /\ sub[s].start <= sub[s].end => sub[s].start <= sub'[s].end
              /\ sub'[s].status = "ACTIVE" => sub[s].status = "ACTIVE"
              /\ IF row.action \in Consuming /\ s \in row.sources \cap subs
                 THEN sub'[s].status = "CANCELED"
                 ELSE sub'[s].end = sub[s].end
    BY <1>2, Sold
  <1>4. TermSold(row, target)
    <2>1. target = IF Extends(row) THEN row.anchor ELSE granted + 1
      OBVIOUS
    <2> HIDE DEF target
    <2> QED BY <1>2, <1>3, <2>1 DEF TermSold
  <1> QED BY <1>1, <1>4 DEF Sale

\* What every part of the proof reads.
LEMMA SaleFacts ==
    ASSUME TimeInvariant, NEW o, NEW row, NEW target, NEW used, Sale(o, row, target, used)
    PROVE  /\ o \in Order /\ row \in OrderRow /\ Unsold(row) /\ RowAgrees(row)
           /\ placed' = placed \cup {o} /\ (o \in placed => Unsold(order[o]))
           /\ Typed /\ granted \in Nat /\ subs \subseteq 1..granted /\ now \in Nat
           /\ \A q \in placed : /\ q \in Order /\ order[q] \in OrderRow
                                /\ RowAgrees(order[q]) /\ Agrees(q)
                                /\ order[q].sub \in 0..granted
                                /\ order[q].sub # None =>
                                     order[q].kind = "PLAN" /\ ~Unsold(order[q])
           /\ \A q \in placed : Live(order[q]) => Successful(order[q]) /\ q # o
           /\ \A q \in placed \ {o} : /\ Unsold(order'[q]) <=> Unsold(order[q])
                                      /\ Live(order'[q]) <=> Live(order[q])
           /\ Live(order'[o]) /\ ~Unsold(order'[o])
           /\ target \in 1..granted' /\ granted' >= granted /\ granted' \in Nat
           /\ granted + 1 \notin 0..granted /\ granted + 1 \notin subs
           /\ Extends(row) => /\ row.action = "RENEW" /\ row.action \notin Consuming
                              /\ target \in subs /\ sub[target].status = "ACTIVE"
                              /\ used = {} /\ sub[target].cycle # "LIFETIME"
                              /\ row.cycle # "LIFETIME"
           /\ ~Extends(row) => target = granted + 1
  <1>1. /\ o \in Order /\ row \in OrderRow /\ Unsold(row) /\ RowAgrees(row) /\ AnchorAgrees(row)
        /\ placed' = placed \cup {o} /\ (o \in placed => Unsold(order[o]))
    BY DEF Sale, Fulfils, Fresh
  <1>2. Typed /\ granted \in Nat /\ subs \subseteq 1..granted /\ now \in Nat
    BY IdSets DEF TimeInvariant, Typed, TypeOK
  <1>3. \A q \in placed : /\ q \in Order /\ order[q] \in OrderRow
                          /\ RowAgrees(order[q]) /\ Agrees(q)
                          /\ order[q].sub # None => order[q].kind = "PLAN" /\ ~Unsold(order[q])
    BY SoldFacts
  <1>4. \A q \in placed : order[q].sub \in 0..granted
    BY DEF TimeInvariant, ChainInvariant, SourcesAreOlder
  <1>5. \A q \in placed : Live(order[q]) => Successful(order[q]) /\ q # o
    BY <1>1, <1>3, Kinds
  <1>6. /\ \A q \in placed \ {o} : /\ Unsold(order'[q]) <=> Unsold(order[q])
                                   /\ Live(order'[q]) <=> Live(order[q])
        /\ Live(order'[o]) /\ ~Unsold(order'[o])
    BY DEF Sale, PlanSold, Unsold, Live
  <1>7. Extends(row) => /\ row.action = "RENEW" /\ row.action \notin Consuming
                        /\ target \in subs /\ sub[target].status = "ACTIVE" /\ target = row.anchor
    BY DEF Extends, Consuming, Running, Sale, TermSold
  <1>8. Extends(row) => used = {}
    BY <1>7 DEF Sale, PlanSold
  <1>9. Extends(row) => sub[target].cycle # "LIFETIME" /\ row.cycle # "LIFETIME"
    BY <1>1, <1>7 DEF AnchorAgrees, RowAgrees
  <1>10. ~Extends(row) => target = granted + 1
    BY DEF Sale, TermSold
  <1>11. target \in 1..granted' /\ granted' >= granted /\ granted' \in Nat
    <2>1. granted' = IF Extends(row) THEN granted ELSE granted + 1
      BY DEF Sale, TermSold
    <2>2. CASE Extends(row)
      <3>1. granted' = granted
        BY <2>1, <2>2
      <3>2. target \in subs
        BY <1>7, <2>2
      <3> QED BY <1>2, <3>1, <3>2
    <2>3. CASE ~Extends(row)
      BY <1>2, <1>10, <2>1, <2>3
    <2> QED BY <2>2, <2>3
  <1>12. granted + 1 \notin 0..granted /\ granted + 1 \notin subs
    BY <1>2
  <1> QED BY <1>1, <1>2, <1>3, <1>4, <1>5, <1>6, <1>7, <1>8, <1>9, <1>10, <1>11, <1>12

LEMMA SaleAgrees ==
    ASSUME TimeInvariant, NEW o, NEW row, NEW target, NEW used, Sale(o, row, target, used)
    PROVE  OrdersAgree'
  <1>1. /\ o \in Order /\ Unsold(row) /\ RowAgrees(row)
        /\ placed' = placed \cup {o}
        /\ granted \in Nat /\ subs \subseteq 1..granted
        /\ target \in 1..granted' /\ granted' >= granted /\ granted' \in Nat
        /\ granted + 1 \notin subs
        /\ \A q \in placed : /\ q \in Order /\ RowAgrees(order[q]) /\ Agrees(q)
                             /\ Live(order[q]) => Successful(order[q]) /\ q # o
        /\ \A q \in placed \ {o} : /\ Unsold(order'[q]) <=> Unsold(order[q])
                                   /\ Live(order'[q]) <=> Live(order[q])
        /\ Live(order'[o]) /\ ~Unsold(order'[o])
        /\ Extends(row) => row.cycle # "LIFETIME"
        /\ ~Extends(row) => target = granted + 1
    BY SaleFacts
  <1>2. PlanSold(o, row, target, used) /\ TermSold(row, target) /\ Fulfils(o, row)
    BY DEF Sale
  <1>3. \A r : AnchorAgrees(r) => /\ r.action = "RENEW" =>
                                       /\ r.anchor \in 1..granted'
                                       /\ r.anchor \in subs' => sub'[r.anchor].cycle # "LIFETIME"
    <2> SUFFICES ASSUME NEW r, AnchorAgrees(r), r.action = "RENEW"
                 PROVE  /\ r.anchor \in 1..granted'
                        /\ r.anchor \in subs' => sub'[r.anchor].cycle # "LIFETIME"
      OBVIOUS
    <2>1. r.anchor \in 1..granted /\ (r.anchor \in subs => sub[r.anchor].cycle # "LIFETIME")
      BY DEF AnchorAgrees
    <2>2. r.anchor \in 1..granted'
      BY <1>1, <2>1
    <2>3. CASE r.anchor = target
      <3>1. Extends(row)
        BY <1>1, <2>1, <2>3
      <3>2. sub'[target].cycle = row.cycle
        BY <1>2 DEF TermSold
      <3> QED BY <1>1, <2>2, <2>3, <3>1, <3>2
    <2>4. CASE r.anchor # target
      <3>1. r.anchor \in subs' => r.anchor \in subs \ {target}
        BY <1>2, <2>4 DEF TermSold
      <3>2. \A s \in subs \ {target} : sub'[s].cycle = sub[s].cycle
        BY <1>2 DEF TermSold
      <3> QED BY <2>1, <2>2, <3>1, <3>2
    <2> QED BY <2>3, <2>4
  <1>4. RowAgrees(order'[o]) /\ Agrees(o)'
    <2>1. RowAgrees(order'[o])
      BY <1>1, <1>2 DEF RowAgrees, PlanSold, Unsold
    <2>2. AnchorAgrees(order[o])'
      <3>1. AnchorAgrees(row)
        BY <1>2 DEF Fulfils, Fresh
      <3>2. order'[o].action = row.action /\ order'[o].anchor = row.anchor
        BY <1>2 DEF PlanSold
      <3> QED BY <1>3, <3>1, <3>2 DEF AnchorAgrees
    <2>3. order'[o].action \in Consuming => \E e \in links' : e[2] = o
      <3> SUFFICES ASSUME row.action \in Consuming PROVE \E e \in links' : e[2] = o
        BY <1>2 DEF PlanSold
      <3>1. PICK q \in placed : Holds(order[q]) /\ order[q].sub \in row.sources
        BY <1>2 DEF Fulfils, Fresh, Claimed
      <3>2. q \in used
        BY <1>1, <1>2, <3>1 DEF Holds, PlanSold
      <3>3. <<q, o>> \in links'
        BY <1>2, <3>2 DEF PlanSold
      <3> QED BY <3>3
    <2>4. order'[o].provider = "EPAY" => gateway'[o].acked
      BY <1>2 DEF PlanSold, Fulfils
    <2>5. order'[o].sub = target /\ target \in subs' /\ target \in 1..granted'
      BY <1>1, <1>2 DEF PlanSold, TermSold
    <2> QED BY <1>1, <2>1, <2>2, <2>3, <2>4, <2>5 DEF Agrees
  <1>5. ASSUME NEW q \in placed \ {o}
        PROVE  RowAgrees(order'[q]) /\ Agrees(q)'
    <2>1. /\ q \in Order /\ RowAgrees(order[q]) /\ Agrees(q) /\ ~Busy(q)
          /\ gateway'[q] = gateway[q] /\ q \in placed'
      BY <1>1, <1>2 DEF Fulfils
    <2>2. order[q].refund # "PROCESSING"
      BY <2>1 DEF Busy
    <2>3. /\ order'[q].kind = order[q].kind /\ order'[q].plan = order[q].plan
          /\ order'[q].cycle = order[q].cycle /\ order'[q].action = order[q].action
          /\ order'[q].anchor = order[q].anchor
          /\ order'[q].provider = order[q].provider /\ order'[q].status = order[q].status
          /\ order'[q].refund = order[q].refund /\ order'[q].sub = order[q].sub
          /\ order'[q].days = order[q].days
          /\ order'[q].settlement = IF q \in used /\ order[q].settlement # "REFUNDED"
                                    THEN "CONSUMED" ELSE order[q].settlement
          /\ q \in used => order[q].kind = "PLAN" /\ Successful(order[q])
      BY <1>2 DEF PlanSold
    <2>4. RowAgrees(order'[q])
      BY <2>1, <2>2, <2>3 DEF RowAgrees, Unsold, Live, Successful
    <2>5. AnchorAgrees(order[q])'
      <3>1. AnchorAgrees(order[q])
        BY <2>1 DEF Agrees
      <3> QED BY <1>3, <2>3, <3>1 DEF AnchorAgrees
    <2>6. ~Busy(q)'
      BY <2>1, <2>3 DEF Busy
    <2>7. order'[q].sub \in 1..granted => order'[q].sub \in 1..granted'
      BY <1>1
    <2>8. subs \subseteq subs' /\ links \subseteq links'
      BY <1>2 DEF TermSold, PlanSold
    <2>9. Holds(order'[q]) => Holds(order[q])
      BY <2>3 DEF Holds, Live
    <2>10. Unsold(order'[q]) <=> Unsold(order[q])
      BY <2>3 DEF Unsold
    <2> QED BY <2>1, <2>3, <2>4, <2>5, <2>6, <2>7, <2>8, <2>9, <2>10 DEF Agrees
  <1>6. placed' = (placed \ {o}) \cup {o}
    BY <1>1
  <1> QED BY <1>4, <1>5, <1>6 DEF OrdersAgree

LEMMA SaleLinks ==
    ASSUME TimeInvariant, NEW o, NEW row, NEW target, NEW used, Sale(o, row, target, used)
    PROVE  LinksAreSpent' /\ Alone'
  <1>1. /\ o \in placed => Unsold(order[o])
        /\ \A q \in placed : order[q] \in OrderRow
        /\ \A q \in placed \ {o} : Unsold(order'[q]) <=> Unsold(order[q])
        /\ ~Unsold(order'[o])
    BY SaleFacts
  <1>2. PlanSold(o, row, target, used) /\ Fulfils(o, row)
    BY DEF Sale
  <1>3. LinksAreSpent'
    <2>1. ASSUME NEW e \in links
          PROVE  /\ order'[e[1]].settlement # "OPEN"
                 /\ ~Unsold(order'[e[1]]) /\ ~Unsold(order'[e[2]])
      <3>1. e[1] \in placed /\ e[2] \in placed
        BY DEF TimeInvariant, ChainInvariant, LinksJoinOrders
      <3>2. order[e[1]].settlement # "OPEN" /\ ~Unsold(order[e[1]]) /\ ~Unsold(order[e[2]])
        BY DEF TimeInvariant, LinksAreSpent
      <3>3. e[1] \in placed \ {o} /\ e[2] \in placed \ {o}
        BY <1>1, <3>1, <3>2
      <3> QED BY <1>1, <1>2, <3>2, <3>3 DEF PlanSold
    <2>2. ASSUME NEW q \in used
          PROVE  order'[q].settlement # "OPEN" /\ ~Unsold(order'[q])
      <3>1. q \in placed \ {o} /\ Successful(order[q])
        BY <1>2 DEF PlanSold
      <3>2. ~Unsold(order'[q])
        BY <1>1, <3>1, Kinds
      <3>3. order'[q].settlement # "OPEN"
        BY <1>2, <3>1 DEF PlanSold
      <3> QED BY <3>2, <3>3
    <2>3. \A e \in used \X {o} : e[1] \in used /\ e[2] = o
      OBVIOUS
    <2>4. links' = links \cup (used \X {o})
      BY <1>2 DEF PlanSold
    <2> QED BY <1>1, <2>1, <2>2, <2>3, <2>4 DEF LinksAreSpent
  <1>4. \A q \in Order \ {o} : ~Busy(q)'
    <2> SUFFICES ASSUME NEW q \in Order \ {o} PROVE ~Busy(q)'
      OBVIOUS
    <2>1. ~Busy(q) /\ gateway'[q] = gateway[q] /\ (q \in placed' => q \in placed \ {o})
      BY <1>2 DEF Fulfils
    <2>2. q \in placed \ {o} => order'[q].status = order[q].status /\ order'[q].refund = order[q].refund
      BY <1>2 DEF PlanSold
    <2> QED BY <2>1, <2>2 DEF Busy
  <1> QED BY <1>3, <1>4 DEF Alone

LEMMA SaleShares ==
    ASSUME TimeInvariant, NEW o, NEW row, NEW target, NEW used, Sale(o, row, target, used)
    PROVE  OrdersShare'
  <1>1. /\ placed' = placed \cup {o} /\ o \in Order
        /\ \A q \in placed : /\ order[q].sub \in 0..granted
                             /\ order[q].sub # None => order[q].kind = "PLAN" /\ ~Unsold(order[q])
                             /\ Live(order[q]) => Successful(order[q]) /\ q # o
        /\ \A q \in placed \ {o} : Live(order'[q]) <=> Live(order[q])
        /\ granted + 1 \notin 0..granted
        /\ Extends(row) => /\ row.action = "RENEW"
                           /\ target \in subs /\ sub[target].status = "ACTIVE"
                           /\ used = {} /\ sub[target].cycle # "LIFETIME"
                           /\ row.cycle # "LIFETIME"
        /\ ~Extends(row) => target = granted + 1
    BY SaleFacts
  <1>2. PlanSold(o, row, target, used) /\ TermSold(row, target)
    BY DEF Sale
  <1>3. /\ order'[o].sub = target /\ order'[o].cycle = row.cycle
        /\ order'[o].action = row.action /\ order'[o].settlement = "OPEN"
        /\ sub'[target].cycle = row.cycle
        /\ \A q \in placed \ {o} :
             /\ order'[q].cycle = order[q].cycle /\ order'[q].action = order[q].action
             /\ order'[q].sub = order[q].sub
             /\ order'[q].settlement = IF q \in used /\ order[q].settlement # "REFUNDED"
                                       THEN "CONSUMED" ELSE order[q].settlement
    BY <1>2 DEF PlanSold, TermSold
  \* An order of the subscription that is sold is one of those that the sale
  \* extends.
  <1>4. ASSUME NEW q \in placed \ {o}, order[q].sub = target
        PROVE  /\ Extends(row) /\ row.action = "RENEW"
               /\ Live(order[q]) => order'[q].settlement = "OPEN"
               /\ order[q].cycle # "LIFETIME"
    <2>1. Extends(row)
      BY <1>1, <1>4
    <2>2. PICK x \in LiveOrdersOf(target) : order[x].settlement = "OPEN"
      BY <1>1, <2>1 DEF TimeInvariant, TermsArePaid, TermIsPaid
    <2>3. x \in placed /\ order[x].sub = target /\ Live(order[x]) /\ target # None
      BY <1>1, <2>1, <2>2, SoldFacts DEF LiveOrdersOf
    <2>4. Live(order[q]) => order[q].settlement = "OPEN"
      BY <1>4, <2>2, <2>3 DEF TimeInvariant, OrdersShare
    <2>5. order[q].cycle # "LIFETIME"
      BY <1>1, <1>4, <2>1, <2>3 DEF TimeInvariant, OrdersShare
    <2> QED BY <1>1, <1>3, <2>1, <2>4, <2>5
  <1>5. ASSUME NEW q \in placed', order'[q].sub # None, order'[q].sub \in subs'
        PROVE  sub'[order'[q].sub].cycle = "LIFETIME" <=> order'[q].cycle = "LIFETIME"
    <2>1. CASE q = o
      BY <1>3, <2>1
    <2>2. CASE q # o
      <3>1. q \in placed \ {o} /\ order[q].sub # None
        BY <1>1, <1>3, <1>5, <2>2
      <3>2. CASE order[q].sub = target
        BY <1>1, <1>3, <1>4, <3>1, <3>2
      <3>3. CASE order[q].sub # target
        <4>1. order[q].sub \in subs \ {target}
          BY <1>2, <1>3, <1>5, <3>1, <3>3 DEF TermSold
        <4>2. sub'[order[q].sub].cycle = sub[order[q].sub].cycle
          BY <1>2, <4>1 DEF TermSold
        <4>3. sub[order[q].sub].cycle = "LIFETIME" <=> order[q].cycle = "LIFETIME"
          BY <3>1, <4>1 DEF TimeInvariant, OrdersShare
        <4> QED BY <1>3, <3>1, <4>2, <4>3
      <3> QED BY <3>2, <3>3
    <2> QED BY <2>1, <2>2
  <1>6. ASSUME NEW q \in placed', NEW r \in placed', order'[q].sub # None,
               order'[r].sub = order'[q].sub
        PROVE  /\ order'[q].action # "RENEW" /\ order'[r].action # "RENEW" => q = r
               /\ Live(order'[q]) /\ Live(order'[r]) =>
                     order'[q].settlement = order'[r].settlement
    <2>1. CASE q = o /\ r = o
      BY <2>1
    <2>2. CASE q = o /\ r # o
      <3>1. r \in placed \ {o} /\ order[r].sub = target
        BY <1>1, <1>3, <1>6, <2>2
      <3> QED BY <1>1, <1>3, <1>4, <2>2, <3>1
    <2>3. CASE q # o /\ r = o
      <3>1. q \in placed \ {o} /\ order[q].sub = target
        BY <1>1, <1>3, <1>6, <2>3
      <3> QED BY <1>1, <1>3, <1>4, <2>3, <3>1
    <2>4. CASE q # o /\ r # o
      <3>1. /\ q \in placed \ {o} /\ r \in placed \ {o}
            /\ order[q].sub # None /\ order[r].sub = order[q].sub
        BY <1>1, <1>3, <1>6, <2>4
      <3>2. /\ order[q].action # "RENEW" /\ order[r].action # "RENEW" => q = r
            /\ Live(order[q]) /\ Live(order[r]) => order[q].settlement = order[r].settlement
        BY <3>1 DEF TimeInvariant, OrdersShare
      <3>3. Live(order[q]) /\ Live(order[r]) => (q \in used <=> r \in used)
        BY <1>1, <1>2, <3>1 DEF PlanSold
      <3> QED BY <1>1, <1>3, <3>1, <3>2, <3>3
    <2> QED BY <2>1, <2>2, <2>3, <2>4
  <1> QED BY <1>5, <1>6 DEF OrdersShare

LEMMA SaleTerms ==
    ASSUME TimeInvariant, Typed', NEW o, NEW row, NEW target, NEW used,
           Sale(o, row, target, used)
    PROVE  TermsArePaid'
  <1>1. /\ placed' = placed \cup {o} /\ o \in Order /\ row \in OrderRow
        /\ (o \in placed => Unsold(order[o]))
        /\ Typed /\ now \in Nat /\ subs \subseteq 1..granted
        /\ \A q \in placed : /\ q \in Order /\ order[q] \in OrderRow
                             /\ order[q].sub \in 0..granted
                             /\ order[q].sub # None => order[q].kind = "PLAN" /\ ~Unsold(order[q])
                             /\ Live(order[q]) => Successful(order[q]) /\ q # o
        /\ \A q \in placed \ {o} : Live(order'[q]) <=> Live(order[q])
        /\ Live(order'[o])
        /\ granted + 1 \notin 0..granted /\ granted + 1 \notin subs
        /\ Extends(row) => /\ row.action \notin Consuming
                           /\ target \in subs /\ sub[target].status = "ACTIVE"
                           /\ used = {} /\ sub[target].cycle # "LIFETIME"
                           /\ row.cycle # "LIFETIME"
        /\ ~Extends(row) => target = granted + 1
    BY SaleFacts
  <1>2. PlanSold(o, row, target, used) /\ TermSold(row, target)
    BY DEF Sale
  <1>3. /\ order'[o].sub = target /\ order'[o].cycle = row.cycle /\ order'[o].kind = "PLAN"
        /\ order'[o].settlement = "OPEN"
        /\ \A q \in placed \ {o} :
             /\ order'[q].cycle = order[q].cycle /\ order'[q].kind = order[q].kind
             /\ order'[q].sub = order[q].sub
             /\ order'[q].settlement = IF q \in used /\ order[q].settlement # "REFUNDED"
                                       THEN "CONSUMED" ELSE order[q].settlement
             /\ q \in used => order[q].sub \in row.sources /\ row.action \in Consuming
    BY <1>2 DEF PlanSold
  <1>4. \A s : LiveOrdersOf(s)' = IF s = target THEN LiveOrdersOf(s) \cup {o} ELSE LiveOrdersOf(s)
    <2> SUFFICES ASSUME NEW s
                 PROVE  LiveOrdersOf(s)' = IF s = target THEN LiveOrdersOf(s) \cup {o}
                                           ELSE LiveOrdersOf(s)
      OBVIOUS
    <2>1. \A q \in placed \ {o} : q \in LiveOrdersOf(s)' <=> q \in LiveOrdersOf(s)
      BY <1>1, <1>3 DEF LiveOrdersOf
    <2>2. o \in LiveOrdersOf(s)' <=> s = target
      BY <1>1, <1>3 DEF LiveOrdersOf
    <2>3. o \notin LiveOrdersOf(s)
      BY <1>1 DEF LiveOrdersOf
    <2>4. LiveOrdersOf(s)' \subseteq (placed \ {o}) \cup {o} /\ LiveOrdersOf(s) \subseteq placed \ {o}
      BY <1>1, <2>3 DEF LiveOrdersOf
    <2> QED BY <2>1, <2>2, <2>3, <2>4
  <1>5. /\ ShortTerm[row.cycle] \in Nat /\ LongTerm[row.cycle] \in Nat
        /\ \A d \in Nat : /\ CycleEnd(d, row.cycle) \in Nat
                          /\ CycleEnd(d, row.cycle) >= d + ShortTerm[row.cycle]
                          /\ CycleEnd(d, row.cycle) <= d + LongTerm[row.cycle]
    BY <1>1, OrderColumnsRead, TermLength
  <1>6. o \notin LiveOrdersOf(target) /\ LiveOrdersOf(target) \subseteq placed \ {o}
    BY <1>1 DEF LiveOrdersOf
  <1>7. row.cycle # "LIFETIME" =>
           /\ LeastLeft(None, target)' = ShortTerm[row.cycle] + LeastLeft(o, target)'
           /\ MostLeft(None, target)' = LongTerm[row.cycle] + MostLeft(o, target)'
    <2> SUFFICES ASSUME row.cycle # "LIFETIME"
                 PROVE  /\ LeastLeft(None, target)' = ShortTerm[row.cycle] + LeastLeft(o, target)'
                        /\ MostLeft(None, target)' = LongTerm[row.cycle] + MostLeft(o, target)'
      OBVIOUS
    <2>1. o \in Paying(None, target)'
      <3>1. o \in LiveOrdersOf(target)'
        BY <1>4
      <3>2. o # None
        BY <1>1, BoundsAssumption DEF Order, None
      <3> QED BY <1>3, <3>1, <3>2 DEF Paying
    <2>2. /\ LeastLeft(None, target)' = Shortest(order'[o]) + LeastLeft(o, target)'
          /\ MostLeft(None, target)' = Longest(order'[o]) + MostLeft(o, target)'
      BY <2>1, AllowedSplitsNext
    <2>3. Shortest(order'[o]) = ShortTerm[row.cycle] /\ Longest(order'[o]) = LongTerm[row.cycle]
      BY <1>3 DEF Shortest, Longest
    <2> QED BY <2>2, <2>3
  <1>8. placed \subseteq Order /\ placed' \subseteq Order
    BY <1>1
  <1>9. \A s : LiveOrdersOf(s) \subseteq placed \ {o}
    BY <1>1 DEF LiveOrdersOf
  <1>10. ASSUME ~Extends(row)
         PROVE  TermIsPaid(target)'
    <2>1. /\ sub'[target].start = now /\ sub'[target].end = CycleEnd(now, row.cycle)
          /\ sub'[target].cycle = row.cycle
      BY <1>2, <1>10 DEF TermSold
    <2>2. LiveOrdersOf(target)' = {o}
      <3>1. LiveOrdersOf(target) = {}
        BY <1>1, <1>10 DEF LiveOrdersOf
      <3> QED BY <1>4, <3>1
    <2>3. LeastLeft(o, target)' = 0 /\ MostLeft(o, target)' = 0
      <3>1. Paying(o, target)' = {}
        BY <2>2 DEF Paying
      <3>2. LeastLeft(o, target)' = Sum(Least', {}) /\ MostLeft(o, target)' = Sum(Most', {})
        BY <3>1 DEF LeastLeft, MostLeft
      <3> QED BY <3>2, SumOfNone
    <2>4. /\ Term(target)' = CycleEnd(now, row.cycle) - now
          /\ sub'[target].start <= sub'[target].end
      BY <1>1, <1>5, <2>1 DEF Term
    <2>5. row.cycle # "LIFETIME" => Term(target)' \in Allowed(None, target)'
      <3>1. Allowed(None, target)' = LeastLeft(None, target)'..MostLeft(None, target)'
        BY DEF Allowed
      <3>2. PICK e, a, b, t : /\ e = CycleEnd(now, row.cycle) /\ t = Term(target)'
                              /\ a = LeastLeft(None, target)' /\ b = MostLeft(None, target)'
        OBVIOUS
      <3>3. /\ e \in Nat /\ e >= now + ShortTerm[row.cycle] /\ e <= now + LongTerm[row.cycle]
        BY <1>1, <1>5, <3>2
      <3>4. row.cycle # "LIFETIME" => a = ShortTerm[row.cycle] /\ b = LongTerm[row.cycle]
        BY <1>5, <1>7, <2>3, <3>2
      <3>5. t = e - now
        BY <2>4, <3>2
      <3>6. row.cycle # "LIFETIME" => t \in a..b
        BY <1>1, <1>5, <3>3, <3>4, <3>5
      <3> QED BY <3>1, <3>2, <3>6
    <2> QED BY <1>3, <2>1, <2>2, <2>4, <2>5 DEF TermIsPaid
  <1>11. ASSUME Extends(row)
         PROVE  TermIsPaid(target)'
    <2>1. /\ sub'[target].start = sub[target].start
          /\ sub'[target].end = CycleEnd(sub[target].end, row.cycle)
          /\ sub'[target].cycle = row.cycle
      BY <1>2, <1>11 DEF TermSold
    <2>2. TermIsPaid(target) /\ sub[target].start \in Nat /\ sub[target].end \in Nat
      <3>1. target \in subs /\ sub[target] \in SubRow
        BY <1>1, <1>11, IdSets
      <3> QED BY <3>1, SubColumns DEF TimeInvariant, TermsArePaid
    <2>3. /\ Term(target) \in LeastLeft(None, target)..MostLeft(None, target)
          /\ sub[target].start <= sub[target].end
      BY <1>1, <1>11, <2>2 DEF TermIsPaid, Allowed
    <2>4. LiveOrdersOf(target)' = LiveOrdersOf(target) \cup {o}
      BY <1>4
    <2>5. /\ LeastLeft(o, target)' = LeastLeft(None, target)
          /\ MostLeft(o, target)' = MostLeft(None, target)
      <3>1. None \notin LiveOrdersOf(target) /\ \A q \in LiveOrdersOf(target) : q \in placed \ {o}
        BY <1>6, <1>8, BoundsAssumption DEF Order, None
      <3>2. Paying(o, target)' = Paying(None, target)
        BY <1>3, <1>6, <2>4, <3>1 DEF Paying
      <3>3. \A r \in Paying(None, target) : order'[r].cycle = order[r].cycle
        BY <1>3, <3>1 DEF Paying
      <3> QED BY <1>8, <3>2, <3>3, AllowedFollows
    <2>6. /\ Term(target) = sub[target].end - sub[target].start
          /\ Term(target)' = CycleEnd(sub[target].end, row.cycle) - sub[target].start
          /\ sub'[target].start <= sub'[target].end
      BY <1>5, <2>1, <2>2, <2>3 DEF Term
    <2>7. Term(target)' \in Allowed(None, target)'
      <3>1. Allowed(None, target)' = LeastLeft(None, target)'..MostLeft(None, target)'
        BY DEF Allowed
      <3>2. LeastLeft(None, target) \in Nat /\ MostLeft(None, target) \in Nat
        BY <1>1, AllowedTyped
      <3>3. PICK e, a, b, t : /\ e = CycleEnd(sub[target].end, row.cycle) /\ t = Term(target)'
                              /\ a = LeastLeft(None, target)' /\ b = MostLeft(None, target)'
        OBVIOUS
      <3>4. /\ e \in Nat /\ e >= sub[target].end + ShortTerm[row.cycle]
            /\ e <= sub[target].end + LongTerm[row.cycle]
        BY <1>5, <2>2, <3>3
      <3>5. /\ a = ShortTerm[row.cycle] + LeastLeft(None, target)
            /\ b = LongTerm[row.cycle] + MostLeft(None, target)
        BY <1>1, <1>7, <1>11, <2>5, <3>3
      <3>6. t = e - sub[target].start
        BY <2>6, <3>3
      <3>7. t \in a..b
        BY <1>5, <2>2, <2>3, <2>6, <3>2, <3>4, <3>5, <3>6
      <3> QED BY <3>1, <3>3, <3>7
    <2> QED BY <1>3, <2>4, <2>6, <2>7 DEF TermIsPaid
  <1>12. ASSUME NEW s \in subs \ {target}
         PROVE  TermIsPaid(s)'
    <2>1. /\ sub'[s].cycle = sub[s].cycle /\ sub'[s].start = sub[s].start
          /\ sub[s].start <= sub[s].end => sub[s].start <= sub'[s].end
          /\ sub'[s].status = "ACTIVE" => sub[s].status = "ACTIVE"
          /\ row.action \in Consuming /\ s \in row.sources => sub'[s].status = "CANCELED"
          /\ ~(row.action \in Consuming /\ s \in row.sources) => sub'[s].end = sub[s].end
      BY <1>2 DEF TermSold
    <2>2. TermIsPaid(s)
      BY DEF TimeInvariant, TermsArePaid
    <2>3. LiveOrdersOf(s)' = LiveOrdersOf(s)
      BY <1>4
    <2>4. CASE row.action \in Consuming /\ s \in row.sources
      <3>1. \A q \in LiveOrdersOf(s) : q \in used
        <4> SUFFICES ASSUME NEW q \in LiveOrdersOf(s) PROVE q \in used
          OBVIOUS
        <4>1. q \in placed /\ order[q].sub = s /\ Live(order[q]) /\ s # None
          BY SoldFacts DEF LiveOrdersOf
        <4>2. order[q].kind = "PLAN" /\ Successful(order[q]) /\ q # o
          BY <1>1, <4>1
        <4> QED BY <1>2, <2>4, <4>1, <4>2 DEF PlanSold
      <3>2. \A q \in LiveOrdersOf(s) : order'[q].settlement # "OPEN"
        BY <1>3, <1>9, <3>1
      <3> QED BY <2>1, <2>2, <2>3, <2>4, <3>2 DEF TermIsPaid
    <2>5. CASE ~(row.action \in Consuming /\ s \in row.sources)
      <3>1. \A q \in LiveOrdersOf(s) : order[q].sub = s /\ q \in placed \ {o}
        BY <1>9 DEF LiveOrdersOf
      <3>2. \A q \in LiveOrdersOf(s) : order'[q].settlement = order[q].settlement
        BY <1>3, <2>5, <3>1
      <3>3. Allowed(None, s)' = Allowed(None, s)
        <4>1. Paying(None, s)' = Paying(None, s)
          BY <1>3, <2>3, <3>1 DEF Paying
        <4>2. \A r \in Paying(None, s) : order'[r].cycle = order[r].cycle
          BY <1>3, <3>1 DEF Paying
        <4> QED BY <1>8, <4>1, <4>2, AllowedFollows
      <3>4. Term(s)' = Term(s)
        BY <2>1, <2>5 DEF Term
      <3> QED BY <2>1, <2>2, <2>3, <2>5, <3>2, <3>3, <3>4 DEF TermIsPaid
    <2> QED BY <2>4, <2>5
  <1>13. subs' = (subs \ {target}) \cup {target}
    BY <1>2 DEF TermSold
  <1> QED BY <1>10, <1>11, <1>12, <1>13 DEF TermsArePaid

LEMMA SaleKeepsTime ==
    ASSUME TimeInvariant, Typed', ChainInvariant', NEW o, NEW row, NEW bal, NEW led,
           Fulfils(o, row), FulfilPlan(o, row, bal, led), now' = now
    PROVE  TimeInvariant'
  <1>1. PICK target, used : Sale(o, row, target, used)
    BY FulfilIsSale
  <1> QED BY <1>1, SaleAgrees, SaleLinks, SaleShares, SaleTerms DEF TimeInvariant

\* A recharge is for no subscription.
LEMMA RechargeKeepsTime ==
    ASSUME TimeInvariant, Typed', ChainInvariant', NEW o, NEW row, NEW bal, NEW led,
           Fulfils(o, row), FulfilRecharge(o, row, bal, led), o \in placed
    PROVE  TimeInvariant'
  <1> DEFINE new == [row EXCEPT !.status = "COMPLETED", !.paidOn = now, !.settlement = Open(row)]
  <1>1. /\ o \in Order /\ row \in OrderRow /\ RowAgrees(row) /\ Unsold(row)
        /\ row.kind = "RECHARGE" /\ Unsold(order[o]) /\ placed' = placed
        /\ order' = [order EXCEPT ![o] = new]
        /\ UNCHANGED <<links, sub, subs, granted>>
        /\ \A q \in Order \ {o} : ~Busy(q) /\ gateway'[q] = gateway[q]
        /\ row.provider = "EPAY" => gateway'[o].acked
    BY DEF Fulfils, Fresh, FulfilRecharge
  <1>2. /\ \A q \in placed : /\ q \in Order /\ order[q] \in OrderRow
                             /\ RowAgrees(order[q]) /\ Agrees(q)
        /\ order \in [Order -> OrderRow] /\ Typed /\ placed \subseteq Order
    BY SoldFacts DEF TimeInvariant, Typed, TypeOK
  <1>3. row.settlement = "OPEN" /\ row.refund = "NONE" /\ row.sub = None /\ row.action = "NONE"
    BY <1>1 DEF RowAgrees
  <1>4. /\ new.kind = "RECHARGE" /\ new.action = "NONE" /\ new.sub = None
        /\ new.status = "COMPLETED" /\ new.settlement = "OPEN" /\ new.refund = "NONE"
        /\ new.provider = row.provider
    BY <1>1, <1>3 DEF OrderRow, Open
  <1>5. order'[o] = new /\ \A q \in Order \ {o} : order'[q] = order[q]
    BY <1>1, <1>2
  <1> HIDE DEF new
  <1>6. \A q \in placed : Live(order[q]) => q # o
    BY <1>1, <1>2, Kinds
  <1>7. order[o].sub = None
    BY <1>1, <1>2 DEF RowAgrees
  <1>8. \A s \in subs : s # None
    BY SoldFacts, IdSets, BoundsAssumption DEF TimeInvariant, None, Sub
  <1>9. \A s \in subs : LiveOrdersOf(s)' = LiveOrdersOf(s)
                        /\ \A q \in LiveOrdersOf(s) : order'[q] = order[q]
    BY <1>1, <1>2, <1>4, <1>5, <1>7, <1>8 DEF LiveOrdersOf
  <1>10. OrdersAgree'
    <2> SUFFICES ASSUME NEW q \in placed PROVE RowAgrees(order'[q]) /\ Agrees(q)'
      BY <1>1 DEF OrdersAgree
    <2>1. CASE q = o
      <3>1. RowAgrees(new) /\ ~Holds(new) /\ ~(new.action \in Consuming) /\ AnchorAgrees(order[o])'
        BY <1>4, <1>5 DEF RowAgrees, Holds, Unsold, Live, Consuming, AnchorAgrees
      <3> QED BY <1>1, <1>4, <1>5, <2>1, <3>1 DEF Agrees
    <2>2. CASE q # o
      <3>1. order'[q] = order[q] /\ q \in Order \ {o} /\ gateway'[q] = gateway[q] /\ ~Busy(q)
            /\ RowAgrees(order[q]) /\ Agrees(q)
        BY <1>1, <1>2, <1>5, <2>2
      <3>2. ~Busy(q)'
        BY <1>1, <3>1 DEF Busy
      <3>3. AnchorAgrees(order[q])'
        BY <1>1, <3>1 DEF AnchorAgrees, Agrees
      <3> QED BY <1>1, <3>1, <3>2, <3>3 DEF Agrees
    <2> QED BY <2>1, <2>2
  <1>11. LinksAreSpent'
    <2> SUFFICES ASSUME NEW e \in links
                 PROVE  /\ order'[e[1]].settlement # "OPEN"
                        /\ ~Unsold(order'[e[1]]) /\ ~Unsold(order'[e[2]])
      BY <1>1 DEF LinksAreSpent
    <2>1. e[1] \in placed /\ e[2] \in placed
      BY DEF TimeInvariant, ChainInvariant, LinksJoinOrders
    <2>2. order[e[1]].settlement # "OPEN" /\ ~Unsold(order[e[1]]) /\ ~Unsold(order[e[2]])
      BY DEF TimeInvariant, LinksAreSpent
    <2>3. e[1] \in Order \ {o} /\ e[2] \in Order \ {o}
      BY <1>1, <1>2, <2>1, <2>2
    <2> QED BY <1>5, <2>2, <2>3
  <1>12. OrdersShare'
    <2> SUFFICES ASSUME NEW q \in placed, order'[q].sub # None
                 PROVE  /\ order'[q].sub \in subs' =>
                             (sub'[order'[q].sub].cycle = "LIFETIME" <=> order'[q].cycle = "LIFETIME")
                        /\ \A r \in placed : order'[r].sub = order'[q].sub =>
                             /\ order'[q].action # "RENEW" /\ order'[r].action # "RENEW" => q = r
                             /\ Live(order'[q]) /\ Live(order'[r]) =>
                                   order'[q].settlement = order'[r].settlement
      BY <1>1 DEF OrdersShare
    <2>1. \A r \in placed : order'[r].sub # None => order'[r] = order[r]
      BY <1>2, <1>4, <1>5
    <2>2. order'[q] = order[q]
      BY <2>1
    <2>3. \A r \in placed : order'[r].sub = order'[q].sub => order'[r] = order[r]
      BY <2>1
    <2> QED BY <1>1, <2>2, <2>3 DEF TimeInvariant, OrdersShare
  <1>13. TermsArePaid'
    <2> SUFFICES ASSUME NEW s \in subs PROVE TermIsPaid(s)'
      BY <1>1 DEF TermsArePaid
    <2>1. TermIsPaid(s) /\ sub' = sub
      BY <1>1 DEF TimeInvariant, TermsArePaid
    <2>2. LiveOrdersOf(s)' = LiveOrdersOf(s) /\ \A q \in LiveOrdersOf(s) : order'[q] = order[q]
      BY <1>9
    <2>3. Allowed(None, s)' = Allowed(None, s)
      <3>1. Paying(None, s)' = Paying(None, s)
        BY <2>2 DEF Paying
      <3>2. \A r \in Paying(None, s) : order'[r].cycle = order[r].cycle
        BY <2>2 DEF Paying
      <3>3. placed \subseteq Order /\ placed' \subseteq Order
        BY <1>1, <1>2
      <3> QED BY <3>1, <3>2, <3>3, AllowedFollows
    <2>4. Term(s)' = Term(s)
      BY <2>1 DEF Term
    <2> QED BY <2>1, <2>2, <2>3, <2>4 DEF TermIsPaid
  <1>14. Alone'
    <2>1. \A q \in Order \ {o} : ~Busy(q)'
      <3> SUFFICES ASSUME NEW q \in Order \ {o} PROVE ~Busy(q)'
        OBVIOUS
      <3>1. order'[q] = order[q] /\ gateway'[q] = gateway[q] /\ placed' = placed /\ ~Busy(q)
        BY <1>1, <1>5
      <3> QED BY <3>1 DEF Busy
    <2> QED BY <2>1 DEF Alone
  <1> QED BY <1>10, <1>11, <1>12, <1>13, <1>14 DEF TimeInvariant

\* An order that waits, alone, may be fulfilled.
LEMMA WaitingIsFresh ==
    ASSUME TimeInvariant, NEW o \in placed, Unsold(order[o]), Busy(o), NEW provider \in Provider
    PROVE  Fresh([order[o] EXCEPT !.provider = provider])
  <1> DEFINE row == [order[o] EXCEPT !.provider = provider]
  <1>1. order[o] \in OrderRow /\ RowAgrees(order[o]) /\ Agrees(o)
    BY SoldFacts
  <1>2. row \in OrderRow
    BY <1>1, OrderColumns
  <1>3. /\ row.kind = order[o].kind /\ row.plan = order[o].plan /\ row.cycle = order[o].cycle
        /\ row.action = order[o].action /\ row.sources = order[o].sources
        /\ row.anchor = order[o].anchor /\ row.sub = order[o].sub
        /\ row.settlement = order[o].settlement /\ row.status = order[o].status
        /\ row.refund = order[o].refund /\ row.days = order[o].days
    BY <1>1 DEF OrderRow
  <1> HIDE DEF row
  <1>4. Unsold(row) /\ RowAgrees(row)
    BY <1>1, <1>3 DEF RowAgrees, Unsold, Live
  <1>5. AnchorAgrees(row)
    BY <1>1, <1>3 DEF Agrees, AnchorAgrees
  <1>6. row.action \in Consuming => Claimed(row)
    BY <1>1, <1>3 DEF Agrees, Claimed
  <1> QED BY <1>2, <1>4, <1>5, <1>6 DEF Fresh, row

LEMMA FulfilKeepsTime ==
    ASSUME TimeInvariant, Typed', ChainInvariant', NEW o, NEW row, NEW bal, NEW led,
           Fulfils(o, row), HandlePaidOrder(o, row, bal, led),
           row.kind = "RECHARGE" => o \in placed
    PROVE  TimeInvariant'
  <1>1. ~FulfilNothing(o, row, bal, led)
    BY CatalogueAssumption DEF FulfilNothing, Fulfils, Fresh, RowAgrees
  <1>2. FulfilPlan(o, row, bal, led) \/ FulfilRecharge(o, row, bal, led)
    BY <1>1 DEF HandlePaidOrder
  <1>3. now' = now
    BY DEF HandlePaidOrder
  <1> QED BY <1>2, <1>3, SaleKeepsTime, RechargeKeepsTime DEF FulfilRecharge

LEMMA NotifyKeepsTime ==
    ASSUME ~Redeliver, TimeInvariant, Typed', ChainInvariant', NEW o \in Order, Notify(o)
    PROVE  TimeInvariant'
  <1>1. CASE Live(order[o])
    BY <1>1, GatewayKeepsTime
  <1>2. CASE ~Live(order[o])
    <2>1. /\ o \in placed /\ order[o].provider = "EPAY" /\ gateway[o].trade = "paid"
          /\ ~gateway[o].acked /\ placed' = placed
          /\ gateway' = [gateway EXCEPT ![o].acked = TRUE]
          /\ HandlePaidOrder(o, order[o], balance, ledger)
      BY <1>2 DEF Notify, Accepted
    <2>2. order[o] \in OrderRow /\ RowAgrees(order[o]) /\ Agrees(o) /\ gateway \in [Order -> Trade]
      BY <2>1, SoldFacts DEF TimeInvariant, Typed, TypeOK
    <2>3. Unsold(order[o])
      BY <2>1, <2>2 DEF Agrees
    <2>4. Busy(o) /\ \A q \in Order \ {o} : ~Busy(q)
      BY <2>1 DEF Busy, TimeInvariant, Alone
    <2>5. order[o] = [order[o] EXCEPT !.provider = "EPAY"]
      BY <2>1, <2>2 DEF OrderRow
    <2>6. Fresh(order[o])
      <3>1. "EPAY" \in Provider
        BY DEF Provider
      <3> QED BY <2>1, <2>3, <2>4, <2>5, <3>1, WaitingIsFresh
    <2>7. Fulfils(o, order[o])
      <3>1. gateway'[o].acked /\ \A q \in Order \ {o} : gateway'[q] = gateway[q]
        BY <2>1, <2>2 DEF Trade
      <3>2. placed' = placed \cup {o}
        BY <2>1
      <3> QED BY <2>3, <2>4, <2>6, <3>1, <3>2 DEF Fulfils
    <2> QED BY <2>1, <2>7, FulfilKeepsTime
  <1> QED BY <1>1, <1>2

LEMMA PayByBalanceKeepsTime ==
    ASSUME TimeInvariant, Typed', ChainInvariant', NEW o \in Order, PayByBalance(o)
    PROVE  TimeInvariant'
  <1> DEFINE row == [order[o] EXCEPT !.provider = "BALANCE"]
             bal == balance - order[o].payable
             led == ledger - order[o].payable
  <1>1. /\ o \in placed /\ order[o].status = "CREATED" /\ placed' = placed /\ gateway' = gateway
        /\ HandlePaidOrder(o, row, bal, led) /\ order[o] \in OrderRow
    BY SoldFacts DEF PayByBalance, Payable, outside
  <1>2. Unsold(order[o]) /\ Busy(o) /\ \A q \in Order \ {o} : ~Busy(q)
    BY <1>1 DEF Busy, TimeInvariant, Alone, Unsold
  <1>3. Fresh(row) /\ row.provider = "BALANCE"
    <2>1. "BALANCE" \in Provider
      BY DEF Provider
    <2> QED BY <1>1, <1>2, <2>1, WaitingIsFresh DEF OrderRow
  <1> HIDE DEF row, bal, led
  <1>4. Fulfils(o, row)
    <2>1. placed' = placed \cup {o} /\ \A q \in Order \ {o} : gateway'[q] = gateway[q]
      BY <1>1
    <2> QED BY <1>2, <1>3, <2>1 DEF Fulfils
  <1> QED BY <1>1, <1>4, FulfilKeepsTime

LEMMA CreateOrderKeepsTime ==
    ASSUME OneAtATime, TimeInvariant, Typed', ChainInvariant', NEW p \in Plan, NEW c \in Cycle,
           CreateOrder(p, c)
    PROVE  TimeInvariant'
  <1> DEFINE o == made + 1
             view == Preview(p, c)
  <1>1. /\ Idle /\ view.action # "BLOCKED" /\ placed' = placed \cup {o} /\ gateway' = gateway
    BY DEF CreateOrder, outside
  <1>2. o \in Order /\ o \notin placed
    BY NextIdIsNew DEF CreateOrder, TimeInvariant
  <1>3. PICK parent \in AnchorOrders(ChainSources(view)) :
          LET row  == NewOrder(o, p, c, view, parent)
              zero == [row EXCEPT !.provider = "ZERO"]
          IN  \/ /\ order' = [order EXCEPT ![o] = row]
                 /\ UNCHANGED <<links, sub, subs, granted, money, offered, now>>
              \/ /\ order' = [order EXCEPT ![o] = zero]
                 /\ UNCHANGED <<links, sub, subs, granted, money, offered, now>>
              \/ HandlePaidOrder(o, zero, balance, ledger)
    BY DEF CreateOrder
  <1> DEFINE row  == NewOrder(o, p, c, view, parent)
             zero == [row EXCEPT !.provider = "ZERO"]
  <1>4. Fresh(row) /\ row.status = "CREATED"
    BY <1>1, <1>2, NewOrderIsFresh
  <1>5. Fresh(zero) /\ zero.status = "CREATED" /\ zero.provider = "ZERO"
        /\ (zero.kind = "RECHARGE" => row.kind = "RECHARGE")
    <2> HIDE DEF row
    <2>1. row \in OrderRow /\ RowAgrees(row) /\ Unsold(row) /\ "ZERO" \in Provider
      BY <1>4 DEF Fresh, Provider
    <2>2. zero \in OrderRow
      BY <2>1, OrderColumns
    <2>3. /\ zero.kind = row.kind /\ zero.plan = row.plan /\ zero.cycle = row.cycle
          /\ zero.action = row.action /\ zero.sources = row.sources
          /\ zero.anchor = row.anchor /\ zero.sub = row.sub
          /\ zero.settlement = row.settlement /\ zero.status = row.status
          /\ zero.refund = row.refund /\ zero.provider = "ZERO" /\ zero.days = row.days
      BY <2>1 DEF OrderRow
    <2> HIDE DEF zero
    <2>4. Unsold(zero) /\ RowAgrees(zero)
      BY <2>1, <2>3 DEF RowAgrees, Unsold, Live
    <2>5. AnchorAgrees(zero) /\ (zero.action \in Consuming => Claimed(zero))
      BY <1>4, <2>3 DEF Fresh, AnchorAgrees, Claimed
    <2> QED BY <1>4, <2>2, <2>3, <2>4, <2>5 DEF Fresh
  <1>6. row.kind = "PLAN"
    BY DEF NewOrder, BlankOrder
  <1> HIDE DEF row, zero, o, view
  <1>7. CASE HandlePaidOrder(o, zero, balance, ledger)
    <2>1. Fulfils(o, zero)
      <3>1. \A q \in Order \ {o} : ~Busy(q) /\ gateway'[q] = gateway[q]
        BY <1>1, IdleIsNoneBusy
      <3> QED BY <1>1, <1>2, <1>5, <3>1 DEF Fulfils
    <2>2. zero.kind # "RECHARGE"
      BY <1>5, <1>6
    <2> QED BY <1>7, <2>1, <2>2, FulfilKeepsTime
  <1>8. ASSUME NEW new, Fresh(new), new.status = "CREATED", order' = [order EXCEPT ![o] = new],
               UNCHANGED <<links, sub, subs, granted, money, offered, now>>
        PROVE  TimeInvariant'
    BY <1>1, <1>2, <1>8, PlacedKeepsTime
  <1> QED BY <1>3, <1>4, <1>5, <1>7, <1>8 DEF row, zero

LEMMA CreateRechargeOrderKeepsTime ==
    ASSUME OneAtATime, TimeInvariant, Typed', ChainInvariant', NEW a \in RechargeAmounts,
           CreateRechargeOrder(a)
    PROVE  TimeInvariant'
  <1> DEFINE o == made + 1
             row == [BlankOrder EXCEPT !.base = a, !.payable = a, !.created = now, !.chain = o]
  <1>1. /\ Idle /\ placed' = placed \cup {o} /\ order' = [order EXCEPT ![o] = row]
        /\ UNCHANGED <<links, sub, subs, granted, gateway>>
    BY DEF CreateRechargeOrder, outside
  <1>2. o \in Order /\ o \notin placed
    BY NextIdIsNew DEF CreateRechargeOrder, TimeInvariant
  <1>3. /\ row.kind = "RECHARGE" /\ row.action = "NONE" /\ row.sub = None
        /\ row.status = "CREATED" /\ row.settlement = "OPEN" /\ row.refund = "NONE"
    BY DEF BlankOrder
  <1>4. row \in OrderRow
    <2>1. order'[o] = row /\ order' \in [Order -> OrderRow]
      BY <1>1, <1>2 DEF TimeInvariant, Typed, TypeOK
    <2> QED BY <1>2, <2>1
  <1> HIDE DEF row, o
  <1>5. Fresh(row)
    BY <1>3, <1>4 DEF Fresh, RowAgrees, AnchorAgrees, Unsold, Live, Consuming
  <1> QED BY <1>1, <1>2, <1>3, <1>5, PlacedKeepsTime

-----------------------------------------------------------------------------
(* A refund that is completed.                                             *)

\* Order o is refunded while nothing else is pending.
Refunds(o) ==
    /\ o \in placed /\ Holds(order[o])
    /\ \A q \in Order \ {o} : ~Busy(q)
    /\ CompleteRefund(o) /\ gateway' = gateway

\* What it makes of the orders: those it covers were consumed before.
RowsRefunded(o, covered) ==
    /\ order'[o].status = "REFUNDED" /\ order'[o].refund = "REFUNDED"
    /\ order'[o].settlement = "REFUNDED"
    /\ \A q \in placed :
         /\ order'[q].kind = order[q].kind /\ order'[q].plan = order[q].plan
         /\ order'[q].cycle = order[q].cycle /\ order'[q].action = order[q].action
         /\ order'[q].sources = order[q].sources /\ order'[q].anchor = order[q].anchor
         /\ order'[q].provider = order[q].provider /\ order'[q].sub = order[q].sub
         /\ order'[q].days = order[q].days
    /\ \A q \in placed \ {o} :
         IF q \in covered
         THEN /\ order'[q].status = "REFUNDED" /\ order'[q].refund = "REFUNDED"
              /\ order'[q].settlement = "COVERED_BY_DESCENDANT_REFUND"
         ELSE /\ order'[q].status = order[q].status /\ order'[q].refund = order[q].refund
              /\ order'[q].settlement = order[q].settlement
    /\ \A q \in covered : q \in placed \ {o} /\ order[q].settlement # "OPEN" /\ ~Unsold(order[q])

\* What is related to an order was consumed by one that is linked to it.
LEMMA RelatedAreLinked ==
    ASSUME TimeInvariant, NEW o \in placed, ~Unsold(order[o])
    PROVE  \A q \in RelatedSources(o) : q # o /\ \E e \in links : e[1] = q
  <1> DEFINE R == {<<e[2], e[1]>> : e \in links}
             linked == Reach(o, R) \ {o}
             C == {q \in Order : \E e \in links : e[1] = q}
  <1>1. placed \subseteq Order /\ Agrees(o)
        /\ \A e \in links : e[1] \in Order /\ e[1] # e[2]
    BY SoldFacts, IdSets DEF TimeInvariant, ChainInvariant, LinksJoinOrders
  <1>2. \A q \in Reach(o, R) : q \in C
    <2>1. C \in SUBSET Order
      OBVIOUS
    <2>2. \A e \in R : e[2] \in C
      BY <1>1
    <2>3. \A e \in R : e[1] \in C \cup {o} => e[2] \in C
      BY <2>2
    <2> HIDE DEF C, R
    <2> QED BY <2>1, <2>3 DEF Reach
  <1>3. order[o].action \in Consuming => linked # {}
    <2> SUFFICES ASSUME order[o].action \in Consuming PROVE linked # {}
      OBVIOUS
    <2>1. PICK e \in links : e[2] = o
      BY <1>1 DEF Agrees
    <2> DEFINE f == <<e[2], e[1]>>
    <2>2. f \in R /\ f[1] = o /\ f[2] = e[1]
      BY <2>1
    <2>3. e[1] \in Order /\ e[1] # o
      BY <1>1, <2>1
    <2> HIDE DEF R, f
    <2>4. ASSUME NEW D \in SUBSET Order, \A g \in R : g[1] \in D \cup {o} => g[2] \in D
          PROVE  e[1] \in D
      BY <2>2, <2>4
    <2>5. e[1] \in Reach(o, R)
      BY <2>3, <2>4 DEF Reach
    <2> QED BY <2>3, <2>5
  <1>4. RelatedSources(o) \subseteq linked
    BY <1>3 DEF RelatedSources
  <1> HIDE DEF R
  <1> QED BY <1>2, <1>4

LEMMA RefundWrites ==
    ASSUME TimeInvariant, NEW o, Refunds(o)
    PROVE  RowsRefunded(o, Covered(o))
  <1>1. /\ o \in placed /\ Live(order[o]) /\ CompleteRefund(o)
        /\ \A q \in placed : q \in Order /\ order[q] \in OrderRow
    BY SoldFacts DEF Refunds, Holds
  <1>2. ~Unsold(order[o])
    BY <1>1, Kinds
  <1>3. \A q \in Covered(o) : q # o /\ \E e \in links : e[1] = q
    BY <1>1, <1>2, RelatedAreLinked DEF Covered
  <1>4. \A e \in links : e[1] \in placed /\ order[e[1]].settlement # "OPEN" /\ ~Unsold(order[e[1]])
    BY DEF TimeInvariant, ChainInvariant, LinksJoinOrders, LinksAreSpent
  <1>5. \A q \in Covered(o) : q \in placed \ {o} /\ order[q].settlement # "OPEN" /\ ~Unsold(order[q])
    BY <1>3, <1>4
  <1>6. ASSUME NEW q \in placed, NEW w
        PROVE  LET new == Refunded(order[q], w)
               IN  /\ new.kind = order[q].kind /\ new.plan = order[q].plan
                   /\ new.cycle = order[q].cycle /\ new.action = order[q].action
                   /\ new.sources = order[q].sources /\ new.anchor = order[q].anchor
                   /\ new.provider = order[q].provider /\ new.sub = order[q].sub
                   /\ new.days = order[q].days
                   /\ new.status = "REFUNDED" /\ new.refund = "REFUNDED" /\ new.settlement = w
    <2>1. order[q] \in OrderRow
      BY <1>1
    <2> QED BY <2>1 DEF OrderRow, Refunded
  <1>7. \A q \in placed : order'[q] = IF q = o THEN Refunded(order[q], "REFUNDED")
                                     ELSE IF q \in Covered(o)
                                     THEN Refunded(order[q], "COVERED_BY_DESCENDANT_REFUND")
                                     ELSE order[q]
    BY <1>1 DEF CompleteRefund
  <1> QED BY <1>1, <1>5, <1>6, <1>7 DEF RowsRefunded

\* And of the subscriptions: s is that of the order, and days what its other
\* orders pay for.
TermRefunded(o, s) ==
    /\ s = order[o].sub /\ s \in subs
    /\ subs' = IF DaysLeft(o, s) > 0 THEN subs ELSE subs \ {s}
    /\ DaysLeft(o, s) > 0 => /\ sub'[s].cycle = sub[s].cycle /\ sub'[s].start = sub[s].start
                             /\ sub'[s].end = sub[s].start + DaysLeft(o, s)
    /\ \A r \in subs \ {s} :
         /\ sub'[r].cycle = sub[r].cycle
         /\ sub'[r].start = sub[r].start /\ sub'[r].end = sub[r].end
         /\ sub'[r].status = "ACTIVE" => sub[r].status = "ACTIVE"
         /\ sub[r].end > now => sub'[r] = sub[r]

LEMMA RefundShortens ==
    ASSUME TimeInvariant, NEW o, Refunds(o)
    PROVE  TermRefunded(o, order[o].sub)
  <1>1. /\ o \in placed /\ o \in Order /\ Holds(order[o]) /\ Agrees(o)
        /\ Typed /\ RollbackSubscription(o) /\ now' = now /\ granted' = granted
    BY SoldFacts DEF Refunds, CompleteRefund, TimeInvariant
  <1> DEFINE s == order[o].sub
  <1>2. s \in subs /\ SubscriptionOf(o) = s
    BY <1>1, SubscriptionOfTyped DEF Agrees
  <1>3. s # None
    BY <1>1, <1>2, SoldFacts
  <1>4. /\ subs' = IF s = None \/ DaysLeft(o, s) > 0 THEN subs ELSE subs \ {s}
        /\ s # None /\ DaysLeft(o, s) > 0 =>
             /\ sub'[s].plan = sub[s].plan /\ sub'[s].cycle = sub[s].cycle
             /\ sub'[s].start = sub[s].start /\ sub'[s].end = sub[s].start + DaysLeft(o, s)
        /\ \A r \in subs \ {s} :
             /\ sub'[r].plan = sub[r].plan /\ sub'[r].cycle = sub[r].cycle
             /\ sub'[r].start = sub[r].start /\ sub'[r].end = sub[r].end
             /\ sub'[r].status = "ACTIVE" => sub[r].status = "ACTIVE"
             /\ sub[r].end > now => sub'[r] = sub[r]
    BY <1>1, <1>2, RolledBack
  <1> HIDE DEF s
  <1>5. TermRefunded(o, s)
    BY <1>2, <1>3, <1>4 DEF TermRefunded, s
  <1> QED BY <1>5 DEF s

\* What every part of the proof reads.
LEMMA RefundFacts ==
    ASSUME TimeInvariant, NEW o, Refunds(o)
    PROVE  /\ RowsRefunded(o, Covered(o)) /\ TermRefunded(o, order[o].sub)
           /\ o \in placed /\ Holds(order[o]) /\ ~Unsold(order[o]) /\ Live(order[o])
           /\ order[o].kind = "PLAN" /\ order[o].settlement = "OPEN"
           /\ UNCHANGED <<placed, links, granted, gateway>> /\ placed \subseteq Order
           /\ \A q \in placed : q \in Order /\ order[q] \in OrderRow
                                /\ RowAgrees(order[q]) /\ Agrees(q)
                                /\ (order[q].sub # None =>
                                      order[q].kind = "PLAN" /\ ~Unsold(order[q]))
           /\ order[o].sub \in subs /\ order[o].sub # None
           /\ DaysLeft(o, order[o].sub) \in Nat
           /\ \A q \in placed : Unsold(order'[q]) <=> Unsold(order[q])
           /\ \A q \in placed : Live(order'[q]) <=> Live(order[q]) /\ q \notin Covered(o) \cup {o}
  <1>1. RowsRefunded(o, Covered(o)) /\ TermRefunded(o, order[o].sub)
    BY RefundWrites, RefundShortens
  <1>2. /\ o \in placed /\ Holds(order[o]) /\ Live(order[o])
        /\ order[o].kind = "PLAN" /\ order[o].settlement = "OPEN"
        /\ UNCHANGED <<placed, links, granted, gateway>> /\ placed \subseteq Order
    BY IdSets DEF Refunds, Holds, CompleteRefund, TimeInvariant
  <1>3. \A q \in placed : q \in Order /\ order[q] \in OrderRow
                          /\ RowAgrees(order[q]) /\ Agrees(q)
                          /\ (order[q].sub # None =>
                                order[q].kind = "PLAN" /\ ~Unsold(order[q]))
    BY SoldFacts
  <1>4. ~Unsold(order[o])
    BY <1>2, <1>3, Kinds
  <1>5. order[o].sub \in subs /\ order[o].sub # None
    <2>1. order[o].sub \in subs /\ None \notin subs
      BY <1>1, SoldFacts DEF TermRefunded, Refunds
    <2> QED BY <2>1
  <1>6. DaysLeft(o, order[o].sub) \in Nat
    BY DaysLeftIsNat DEF TimeInvariant
  <1>7. ASSUME NEW q \in placed
        PROVE  /\ Unsold(order'[q]) <=> Unsold(order[q])
               /\ Live(order'[q]) <=> Live(order[q]) /\ q \notin Covered(o) \cup {o}
    <2>1. CASE q = o
      BY <1>1, <1>4, <2>1 DEF RowsRefunded, Unsold, Live
    <2>2. CASE q \in Covered(o)
      BY <1>1, <2>2 DEF RowsRefunded, Unsold, Live
    <2>3. CASE q # o /\ q \notin Covered(o)
      BY <1>1, <2>3 DEF RowsRefunded, Unsold, Live
    <2> QED BY <2>1, <2>2, <2>3
  <1> QED BY <1>1, <1>2, <1>3, <1>4, <1>5, <1>6, <1>7

\* A subscription whose row goes had no other order of value.
LEMMA LastOrderGone ==
    ASSUME TimeInvariant, NEW o, Refunds(o), NEW q \in placed \ {o}, Holds(order[q]),
           order[q].sub = order[o].sub
    PROVE  DaysLeft(o, order[o].sub) # 0
  <1> SUFFICES ASSUME DaysLeft(o, order[o].sub) = 0 PROVE FALSE
    OBVIOUS
  <1> DEFINE s == order[o].sub
  <1>1. /\ o \in placed /\ s \in subs /\ s # None /\ RowAgrees(order[o]) /\ RowAgrees(order[q])
    BY RefundFacts
  <1>2. q \in Paying(o, s)
    BY DEF Holds, Paying, LiveOrdersOf
  <1>3. order[q].cycle = "LIFETIME"
    BY <1>2, DaysAreOrders
  <1>4. order[o].cycle = "LIFETIME"
    <2>1. sub[s].cycle = "LIFETIME" <=> order[q].cycle = "LIFETIME"
      BY <1>1 DEF TimeInvariant, OrdersShare
    <2>2. sub[s].cycle = "LIFETIME" <=> order[o].cycle = "LIFETIME"
      BY <1>1 DEF TimeInvariant, OrdersShare
    <2> QED BY <1>3, <2>1, <2>2
  <1>5. order[q].action # "RENEW" /\ order[o].action # "RENEW"
    BY <1>1, <1>3, <1>4 DEF RowAgrees
  <1> QED BY <1>1, <1>5 DEF TimeInvariant, OrdersShare

LEMMA RefundAgrees ==
    ASSUME TimeInvariant, NEW o, Refunds(o)
    PROVE  OrdersAgree'
  <1> DEFINE s == order[o].sub
  <1>1. /\ RowsRefunded(o, Covered(o)) /\ TermRefunded(o, s)
        /\ o \in placed /\ order[o].kind = "PLAN"
        /\ UNCHANGED <<placed, links, granted, gateway>>
        /\ \A q \in placed : q \in Order /\ RowAgrees(order[q]) /\ Agrees(q)
        /\ s \in subs /\ DaysLeft(o, s) \in Nat
        /\ \A q \in placed : Unsold(order'[q]) <=> Unsold(order[q])
        /\ \A q \in placed : Live(order'[q]) <=> Live(order[q]) /\ q \notin Covered(o) \cup {o}
        /\ ~Unsold(order[o])
    BY RefundFacts
  <1> HIDE DEF s
  <1> SUFFICES ASSUME NEW q \in placed PROVE RowAgrees(order'[q]) /\ Agrees(q)'
    BY <1>1 DEF OrdersAgree
  <1>2. /\ order'[q].kind = order[q].kind /\ order'[q].plan = order[q].plan
        /\ order'[q].cycle = order[q].cycle /\ order'[q].action = order[q].action
        /\ order'[q].anchor = order[q].anchor
        /\ order'[q].provider = order[q].provider /\ order'[q].sub = order[q].sub
        /\ order'[q].days = order[q].days
    BY <1>1 DEF RowsRefunded
  <1>3. RowAgrees(order'[q])
    <2>1. CASE q = o
      <3>1. order'[q].status = "REFUNDED" /\ order'[q].refund = "REFUNDED"
        BY <1>1, <2>1 DEF RowsRefunded
      <3> QED BY <1>1, <1>2, <2>1, <3>1 DEF RowAgrees, Unsold, Live
    <2>2. CASE q # o /\ q \in Covered(o)
      <3>1. order'[q].status = "REFUNDED" /\ order'[q].refund = "REFUNDED"
            /\ order[q].settlement # "OPEN"
        BY <1>1, <2>2 DEF RowsRefunded
      <3> QED BY <1>1, <1>2, <3>1 DEF RowAgrees, Unsold, Live
    <2>3. CASE q # o /\ q \notin Covered(o)
      <3>1. order'[q].status = order[q].status /\ order'[q].refund = order[q].refund
            /\ order'[q].settlement = order[q].settlement
        BY <1>1, <2>3 DEF RowsRefunded
      <3> QED BY <1>1, <1>2, <3>1 DEF RowAgrees, Unsold, Live
    <2> QED BY <2>1, <2>2, <2>3
  <1>4. Holds(order'[q]) => order[q].sub \in subs'
    <2> SUFFICES ASSUME Holds(order'[q]) PROVE order[q].sub \in subs'
      OBVIOUS
    <2>1. q # o /\ q \notin Covered(o) /\ Live(order[q])
      BY <1>1 DEF Holds
    <2>2. Holds(order[q])
      BY <1>1, <1>2, <2>1 DEF Holds, RowsRefunded
    <2>3. order[q].sub \in subs
      BY <1>1, <2>2 DEF Agrees
    <2>4. order[q].sub = s => DaysLeft(o, s) > 0
      <3>1. order[q].sub = s => DaysLeft(o, s) # 0
        BY <2>1, <2>2, LastOrderGone DEF s
      <3> QED BY <1>1, <3>1
    <2> QED BY <1>1, <2>3, <2>4 DEF TermRefunded
  <1>5. AnchorAgrees(order[q])'
    <2>1. AnchorAgrees(order[q])
      BY <1>1 DEF Agrees
    <2>2. \A r \in subs' : r \in subs /\ sub'[r].cycle = sub[r].cycle
      BY <1>1 DEF TermRefunded
    <2> QED BY <1>1, <1>2, <2>1, <2>2 DEF AnchorAgrees
  <1>6. ~(Unsold(order'[q]) /\ Busy(q)')
    <2> SUFFICES ASSUME Unsold(order'[q]) PROVE ~Busy(q)'
      OBVIOUS
    <2>1. Unsold(order[q])
      BY <1>1
    <2>2. q # o
      BY <1>1, <2>1
    <2>3. q \notin Covered(o)
      BY <1>1, <2>1 DEF RowsRefunded
    <2>4. order'[q].status = order[q].status /\ order'[q].refund = order[q].refund
      BY <1>1, <2>2, <2>3 DEF RowsRefunded
    <2>5. ~Busy(q)
      BY <1>1, <2>2 DEF Refunds
    <2> QED BY <1>1, <2>4, <2>5 DEF Busy
  <1>7. Agrees(q)
    BY <1>1
  <1>8. Unsold(order'[q]) <=> Unsold(order[q])
    BY <1>1
  <1> QED BY <1>1, <1>2, <1>3, <1>4, <1>5, <1>6, <1>7, <1>8 DEF Agrees

LEMMA RefundLinks ==
    ASSUME TimeInvariant, NEW o, Refunds(o)
    PROVE  LinksAreSpent' /\ Alone' /\ OrdersShare'
  <1>1. /\ RowsRefunded(o, Covered(o)) /\ TermRefunded(o, order[o].sub)
        /\ UNCHANGED <<placed, links, granted, gateway>>
        /\ \A q \in placed : Unsold(order'[q]) <=> Unsold(order[q])
        /\ \A q \in placed : Live(order'[q]) <=> Live(order[q]) /\ q \notin Covered(o) \cup {o}
    BY RefundFacts
  <1>2. LinksAreSpent'
    <2> SUFFICES ASSUME NEW e \in links
                 PROVE  /\ order'[e[1]].settlement # "OPEN"
                        /\ ~Unsold(order'[e[1]]) /\ ~Unsold(order'[e[2]])
      BY <1>1 DEF LinksAreSpent
    <2>1. e[1] \in placed /\ e[2] \in placed
      BY DEF TimeInvariant, ChainInvariant, LinksJoinOrders
    <2>2. order[e[1]].settlement # "OPEN" /\ ~Unsold(order[e[1]]) /\ ~Unsold(order[e[2]])
      BY DEF TimeInvariant, LinksAreSpent
    <2>3. order'[e[1]].settlement \in
             {order[e[1]].settlement, "REFUNDED", "COVERED_BY_DESCENDANT_REFUND"}
      BY <1>1, <2>1 DEF RowsRefunded
    <2> QED BY <1>1, <2>1, <2>2, <2>3
  <1>3. Alone'
    <2>1. \A q \in Order \ {o} : ~Busy(q)'
      <3> SUFFICES ASSUME NEW q \in Order \ {o} PROVE ~Busy(q)'
        OBVIOUS
      <3>1. ~Busy(q) /\ gateway'[q] = gateway[q] /\ placed' = placed
        BY <1>1 DEF Refunds
      <3>2. q \in placed => \/ /\ order'[q].status = "REFUNDED" /\ order'[q].refund = "REFUNDED"
                            \/ /\ order'[q].status = order[q].status
                               /\ order'[q].refund = order[q].refund
        BY <1>1 DEF RowsRefunded
      <3> QED BY <3>1, <3>2 DEF Busy
    <2> QED BY <2>1 DEF Alone
  <1>4. OrdersShare'
    <2> SUFFICES ASSUME NEW q \in placed, order'[q].sub # None
                 PROVE  /\ order'[q].sub \in subs' =>
                             (sub'[order'[q].sub].cycle = "LIFETIME" <=> order'[q].cycle = "LIFETIME")
                        /\ \A r \in placed : order'[r].sub = order'[q].sub =>
                             /\ order'[q].action # "RENEW" /\ order'[r].action # "RENEW" => q = r
                             /\ Live(order'[q]) /\ Live(order'[r]) =>
                                   order'[q].settlement = order'[r].settlement
      BY <1>1 DEF OrdersShare
    <2>1. \A r \in placed : /\ order'[r].sub = order[r].sub /\ order'[r].cycle = order[r].cycle
                            /\ order'[r].action = order[r].action
      BY <1>1 DEF RowsRefunded
    <2>2. order'[q].sub \in subs' =>
             (sub'[order'[q].sub].cycle = "LIFETIME" <=> order'[q].cycle = "LIFETIME")
      <3>1. \A r \in subs' : r \in subs /\ sub'[r].cycle = sub[r].cycle
        BY <1>1 DEF TermRefunded
      <3> QED BY <2>1, <3>1 DEF TimeInvariant, OrdersShare
    <2>3. ASSUME NEW r \in placed, order'[r].sub = order'[q].sub
          PROVE  /\ order'[q].action # "RENEW" /\ order'[r].action # "RENEW" => q = r
                 /\ Live(order'[q]) /\ Live(order'[r]) =>
                       order'[q].settlement = order'[r].settlement
      <3>1. /\ order[q].sub # None /\ order[r].sub = order[q].sub
        BY <2>1, <2>3
      <3>2. /\ order[q].action # "RENEW" /\ order[r].action # "RENEW" => q = r
            /\ Live(order[q]) /\ Live(order[r]) => order[q].settlement = order[r].settlement
        BY <3>1 DEF TimeInvariant, OrdersShare
      <3>3. \A x \in placed : Live(order'[x]) =>
               Live(order[x]) /\ order'[x].settlement = order[x].settlement
        BY <1>1 DEF RowsRefunded
      <3> QED BY <2>1, <3>2, <3>3
    <2> QED BY <2>2, <2>3
  <1> QED BY <1>2, <1>3, <1>4

LEMMA RefundTerms ==
    ASSUME TimeInvariant, NEW o, Refunds(o)
    PROVE  TermsArePaid'
  <1>0. PICK s : s = order[o].sub
    OBVIOUS
  <1>1. /\ RowsRefunded(o, Covered(o)) /\ TermRefunded(o, s)
        /\ o \in placed /\ Live(order[o]) /\ order[o].settlement = "OPEN" /\ s # None
        /\ placed' = placed /\ placed \subseteq Order /\ s \in subs
        /\ DaysLeft(o, s) \in Nat
        /\ \A q \in placed : Live(order'[q]) <=> Live(order[q]) /\ q \notin Covered(o) \cup {o}
    BY <1>0, RefundFacts
  <1>2. \A r : LiveOrdersOf(r)' = LiveOrdersOf(r) \ (Covered(o) \cup {o})
    BY <1>1 DEF LiveOrdersOf, RowsRefunded
  <1>3. \A q \in placed \ (Covered(o) \cup {o}) :
           /\ order'[q].kind = order[q].kind /\ order'[q].cycle = order[q].cycle
           /\ order'[q].settlement = order[q].settlement
    BY <1>1 DEF RowsRefunded
  \* Where one live order has its value, all have, and none is covered.
  <1>4. ASSUME NEW r, r # None, NEW x \in LiveOrdersOf(r), order[x].settlement = "OPEN"
        PROVE  \A q \in LiveOrdersOf(r) : order[q].settlement = "OPEN" /\ q \notin Covered(o)
    <2>1. \A q \in LiveOrdersOf(r) : order[q].settlement = "OPEN"
      BY <1>4 DEF LiveOrdersOf, TimeInvariant, OrdersShare
    <2> QED BY <1>1, <2>1 DEF RowsRefunded
  <1>5. ASSUME s \in subs'
        PROVE  TermIsPaid(s)'
    <2>1. DaysLeft(o, s) > 0
      BY <1>1, <1>5 DEF TermRefunded
    <2>2. /\ sub'[s].cycle = sub[s].cycle /\ sub'[s].start = sub[s].start
          /\ sub'[s].end = sub[s].start + DaysLeft(o, s)
      BY <1>1, <2>1 DEF TermRefunded
    <2>3. sub[s].start \in Nat
      <3>1. sub[s] \in SubRow
        BY <1>1, IdSets DEF TimeInvariant
      <3> QED BY <3>1, SubColumns
    <2>4. sub'[s].start <= sub'[s].end /\ Term(s)' = DaysLeft(o, s)
      BY <1>1, <2>2, <2>3 DEF Term
    <2>5. o \in LiveOrdersOf(s)
      BY <1>0, <1>1 DEF LiveOrdersOf
    <2>6. \A q \in LiveOrdersOf(s) : order[q].settlement = "OPEN" /\ q \notin Covered(o)
      BY <1>1, <1>4, <2>5
    <2>7. LiveOrdersOf(s)' = LiveOrdersOf(s) \ {o}
      BY <1>2, <2>6
    <2>8. \A q \in LiveOrdersOf(s) \ {o} : q \in placed \ (Covered(o) \cup {o})
      BY <2>6 DEF LiveOrdersOf
    <2>9. Paying(None, s)' = Paying(o, s)
      <3>1. None \notin LiveOrdersOf(s)
        BY <1>1, BoundsAssumption DEF LiveOrdersOf, None, Order
      <3>2. \A q \in LiveOrdersOf(s) \ {o} : order'[q].kind = order[q].kind
        BY <1>3, <2>8
      <3> QED BY <2>7, <3>1, <3>2 DEF Paying
    <2>10. Allowed(None, s)' = Allowed(o, s) /\ DaysLeft(o, s) \in Allowed(o, s)
      <3>1. \A r \in Paying(o, s) : order'[r].cycle = order[r].cycle
        BY <1>3, <2>8 DEF Paying
      <3> QED BY <1>1, <2>9, <3>1, AllowedFollows, DaysAreOrders
    <2>11. \E q \in LiveOrdersOf(s)' : order'[q].settlement = "OPEN"
      <3>1. Paying(o, s) # {}
        BY <2>1, DaysAreOrders
      <3>2. PICK q \in LiveOrdersOf(s) \ {o} : TRUE
        BY <3>1 DEF Paying
      <3>3. q \in LiveOrdersOf(s)' /\ order'[q].settlement = "OPEN"
        BY <1>3, <2>6, <2>7, <2>8, <3>2
      <3> QED BY <3>3
    <2> QED BY <2>4, <2>10, <2>11 DEF TermIsPaid
  <1>6. ASSUME NEW r \in subs \ {s}
        PROVE  TermIsPaid(r)'
    <2>1. /\ sub'[r].cycle = sub[r].cycle
          /\ sub'[r].start = sub[r].start /\ sub'[r].end = sub[r].end
          /\ sub'[r].status = "ACTIVE" => sub[r].status = "ACTIVE"
      BY <1>1 DEF TermRefunded
    <2>2. TermIsPaid(r) /\ r # None
      BY <1>1, SoldFacts DEF TimeInvariant, TermsArePaid
    <2>3. Term(r)' = Term(r)
      BY <2>1 DEF Term
    <2>4. CASE \E x \in LiveOrdersOf(r) : order[x].settlement = "OPEN"
      <3>1. \A q \in LiveOrdersOf(r) : q \notin Covered(o)
        BY <1>4, <2>2, <2>4
      <3>2. o \notin LiveOrdersOf(r)
        BY <1>0 DEF LiveOrdersOf
      <3>3. LiveOrdersOf(r)' = LiveOrdersOf(r)
        BY <1>2, <3>1, <3>2
      <3>4. \A q \in LiveOrdersOf(r) : q \in placed \ (Covered(o) \cup {o})
        BY <3>1, <3>2 DEF LiveOrdersOf
      <3>5. Allowed(None, r)' = Allowed(None, r)
        <4>1. Paying(None, r)' = Paying(None, r)
          BY <1>3, <3>3, <3>4 DEF Paying
        <4>2. \A q \in Paying(None, r) : order'[q].cycle = order[q].cycle
          BY <1>3, <3>4 DEF Paying
        <4> QED BY <1>1, <4>1, <4>2, AllowedFollows
      <3>6. \A q \in LiveOrdersOf(r) : order'[q].settlement = order[q].settlement
        BY <1>3, <3>4
      <3> QED BY <2>1, <2>2, <2>3, <3>3, <3>5, <3>6 DEF TermIsPaid
    <2>5. CASE \A x \in LiveOrdersOf(r) : order[x].settlement # "OPEN"
      <3>1. \A q \in LiveOrdersOf(r)' : q \in LiveOrdersOf(r)
                                       /\ order'[q].settlement = order[q].settlement
        BY <1>2, <1>3 DEF LiveOrdersOf
      <3>2. \A q \in LiveOrdersOf(r)' : order'[q].settlement # "OPEN"
        BY <2>5, <3>1
      <3> QED BY <2>1, <2>2, <2>5, <3>2 DEF TermIsPaid
    <2> QED BY <2>4, <2>5
  <1>7. subs' \subseteq subs
    BY <1>1 DEF TermRefunded
  <1> QED BY <1>5, <1>6, <1>7 DEF TermsArePaid

LEMMA RefundKeepsTime ==
    ASSUME OneAtATime, TimeInvariant, Typed', ChainInvariant', NEW o \in Order,
           RefundToBalance(o) \/ QueryOriginalRefund(o)
    PROVE  TimeInvariant' /\ Refunds(o)
  <1>1. o \in placed /\ CompleteRefund(o) /\ gateway' = gateway
    BY DEF RefundToBalance, QueryOriginalRefund, AdminMayRefund, Refundable, outside
  <1>2. order[o] \in OrderRow /\ RowAgrees(order[o])
    BY <1>1, SoldFacts
  <1>3. Holds(order[o]) /\ \A q \in Order \ {o} : ~Busy(q)
    <2>1. CASE RefundToBalance(o)
      <3>1. /\ Idle /\ Live(order[o]) /\ order[o].kind # "RECHARGE"
            /\ order[o].settlement # "CONSUMED"
        BY <2>1 DEF RefundToBalance, AdminMayRefund, Refundable
      <3>2. order[o].kind = "PLAN" /\ order[o].settlement = "OPEN"
        BY <1>2, <3>1, OrderColumnsRead DEF RowAgrees
      <3> QED BY <3>1, <3>2, IdleIsNoneBusy DEF Holds
    <2>2. CASE QueryOriginalRefund(o)
      <3>1. order[o].refund = "PROCESSING"
        BY <2>2 DEF QueryOriginalRefund
      <3>2. Live(order[o]) /\ order[o].settlement = "OPEN" /\ order[o].kind # "RECHARGE"
        BY <1>2, <3>1 DEF RowAgrees
      <3>3. order[o].kind = "PLAN"
        BY <1>2, <3>2, OrderColumnsRead
      <3>4. Busy(o)
        BY <1>1, <3>1 DEF Busy
      <3> QED BY <3>2, <3>3, <3>4 DEF Holds, TimeInvariant, Alone
    <2> QED BY <2>1, <2>2
  <1>4. Refunds(o)
    BY <1>1, <1>3 DEF Refunds
  <1> QED BY <1>4, RefundAgrees, RefundLinks, RefundTerms DEF TimeInvariant

LEMMA NextKeepsTime ==
    ASSUME Orderly, TimeInvariant, [Next]_vars
    PROVE  TimeInvariant'
  <1>1. OneAtATime /\ ~Redeliver /\ AdminTools = {} /\ MaxNow <= Retention
    BY DEF Orderly
  <1>2. Typed' /\ ChainInvariant'
    BY NextTyped, NextKeepsChain DEF TimeInvariant
  <1>3. CASE UserStep
    <2>1. ASSUME NEW p \in Plan, NEW c \in Cycle, CreateOrder(p, c) PROVE TimeInvariant'
      BY <1>1, <1>2, <2>1, CreateOrderKeepsTime
    <2>2. ASSUME NEW a \in RechargeAmounts, CreateRechargeOrder(a) PROVE TimeInvariant'
      BY <1>1, <1>2, <2>2, CreateRechargeOrderKeepsTime
    <2>3. ASSUME NEW o \in Order, CloseOrder(o) \/ CancelOrder(o) PROVE TimeInvariant'
      <3>1. {o} \in SUBSET placed /\ \A q \in {o} : order[q].status = "CREATED"
        BY <2>3 DEF CloseOrder, CancelOrder, Payable
      <3> QED BY <1>2, <2>3, <3>1, EndUnpaidKeepsTime DEF CloseOrder, CancelOrder
    <2>4. ASSUME NEW o \in Order, PayLink(o) PROVE TimeInvariant'
      BY <1>2, <2>4, PayLinkKeepsTime
    <2>5. ASSUME NEW o \in Order, PayByBalance(o) PROVE TimeInvariant'
      BY <1>2, <2>5, PayByBalanceKeepsTime
    <2>6. ASSUME NEW o \in Order, RequestRefund(o) PROVE TimeInvariant'
      BY <1>1, <1>2, <2>6, RefundRequestsKeepTime
    <2> QED BY <1>3, <2>1, <2>2, <2>3, <2>4, <2>5, <2>6 DEF UserStep
  <1>4. CASE GatewayStep
    <2>1. ASSUME NEW o \in Order, GatewayPay(o) \/ GatewaySettle(o) PROVE TimeInvariant'
      BY <1>1, <1>2, <2>1, GatewayKeepsTime
    <2>2. ASSUME NEW o \in Order, Notify(o) PROVE TimeInvariant'
      BY <1>1, <1>2, <2>2, NotifyKeepsTime
    <2> QED BY <1>4, <2>1, <2>2 DEF GatewayStep
  <1>5. CASE AdminStep
    <2>1. ASSUME NEW o \in Order, RejectRefund(o) \/ ApproveOriginalRefund(o) PROVE TimeInvariant'
      BY <1>1, <1>2, <2>1, RefundRequestsKeepTime
    <2>2. ASSUME NEW o \in Order, RefundToBalance(o) \/ QueryOriginalRefund(o) PROVE TimeInvariant'
      BY <1>1, <1>2, <2>2, RefundKeepsTime
    <2>3. ASSUME NEW o \in Order, RefundCallLost(o) PROVE TimeInvariant'
      BY <1>1, <1>2, <2>3, GatewayKeepsTime
    <2>4. ASSUME NEW day, CleanupOrders(day) PROVE TimeInvariant'
      BY <1>2, <2>4, CleanupOrdersKeepsTime
    <2>5. /\ \A o \in Order : ~AdminComplete(o)
          /\ \A o \in Order, status \in {"CREATED", "CANCELED", "TIMEOUT"} :
                ~AdminSetStatus(o, status)
          /\ \A S \in SUBSET Order : ~DeleteOrders(S)
          /\ \A p \in Plan : ~DeletePlan(p)
          /\ \A p \in Plan, c \in Cycle : ~DropCycle(p, c)
      BY <1>1 DEF AdminComplete, AdminSetStatus, DeleteOrders, DeletePlan, DropCycle
    <2> QED BY <1>5, <2>1, <2>2, <2>3, <2>4, <2>5 DEF AdminStep
  <1>6. CASE JobStep
    <2>1. ASSUME NEW S, FinalizeStale(S) PROVE TimeInvariant'
      BY <1>2, <2>1, EndUnpaidKeepsTime DEF FinalizeStale
    <2>2. CASE ExpireDue \/ CleanupExpired
      BY <1>1, <1>2, <2>2, ClockKeepsTime
    <2> QED BY <1>6, <2>1, <2>2 DEF JobStep
  <1>7. CASE Tick \/ UNCHANGED vars
    BY <1>1, <1>2, <1>7, ClockKeepsTime
  <1> QED BY <1>3, <1>4, <1>5, <1>6, <1>7 DEF Next

LEMMA TimeInvariantHolds ==
    ASSUME Orderly
    PROVE  Spec => []TimeInvariant
  <1>1. TimeInvariant /\ [Next]_vars => TimeInvariant'
    BY NextKeepsTime
  <1> QED BY <1>1, InitTime, PTL DEF Spec

\* One thing at a time, and an active subscription lasts no longer than a long
\* term of each of its live orders: renewals, upgrades that end it, and refunds
\* of any order of it leave no month that nobody paid, though some days where
\* the months differ (handle_paid_order, rollback_subscription_for_order).
THEOREM ActiveTimeIsPaidFor ==
    ASSUME Orderly
    PROVE  Spec => []TimeIsPaidFor
  <1>1. TimeInvariant => TimeIsPaidFor
    <2> SUFFICES ASSUME TimeInvariant, NEW s \in subs, sub[s].status = "ACTIVE"
                 PROVE  /\ LiveOrdersOf(s) # {}
                        /\ sub[s].cycle # "LIFETIME" => Term(s) <= MostDays(s)
      BY DEF TimeIsPaidFor
    <2>1. /\ TermIsPaid(s) /\ LeastLeft(None, s) \in Nat /\ MostLeft(None, s) \in Nat
          /\ MostDays(s) = MostLeft(None, s)
      BY AllowedTyped DEF TimeInvariant, TermsArePaid
    <2> QED BY <2>1 DEF TermIsPaid, Allowed
  <1> QED BY <1>1, TimeInvariantHolds, PTL

\* And no shorter: as long as an order is live and no upgrade took it over, its
\* subscription exists and lasts at least a short term of each of its live
\* orders.
THEOREM NoPaidTimeIsLost ==
    ASSUME Orderly
    PROVE  Spec => []PaidTimeIsKept
  <1>1. TimeInvariant => PaidTimeIsKept
    <2> SUFFICES ASSUME TimeInvariant, NEW o \in placed, Holds(order[o])
                 PROVE  /\ order[o].sub \in subs
                        /\ Term(order[o].sub) >= LeastDays(order[o].sub)
      BY DEF PaidTimeIsKept, Holds
    <2> DEFINE s == order[o].sub
    <2>1. s \in subs /\ s # None
      BY SoldFacts DEF Agrees
    <2>2. /\ TermIsPaid(s) /\ LeastLeft(None, s) \in Nat /\ MostLeft(None, s) \in Nat
          /\ LeastDays(s) = LeastLeft(None, s)
          /\ sub[s].start \in Nat /\ sub[s].end \in Nat
      <3>1. sub[s] \in SubRow
        BY <2>1, IdSets DEF TimeInvariant
      <3> QED BY <2>1, <3>1, AllowedTyped, SubColumns DEF TimeInvariant, TermsArePaid
    <2>3. CASE sub[s].cycle # "LIFETIME"
      <3>1. o \in LiveOrdersOf(s) /\ order[o].settlement = "OPEN"
        BY DEF LiveOrdersOf, Holds
      <3> QED BY <2>1, <2>2, <2>3, <3>1 DEF TermIsPaid, Allowed
    <2>4. CASE sub[s].cycle = "LIFETIME"
      <3>1. \A q \in Paying(None, s) : order[q].cycle = "LIFETIME"
        BY <2>1, <2>4 DEF Paying, LiveOrdersOf, TimeInvariant, OrdersShare
      <3>2. LeastLeft(None, s) = 0
        BY <3>1, DaysAreOrders
      <3> QED BY <2>1, <2>2, <3>2 DEF TermIsPaid, Term
    <2> QED BY <2>3, <2>4
  <1> QED BY <1>1, TimeInvariantHolds, PTL

-----------------------------------------------------------------------------
(* What a refund settles.                                                  *)

NothingSettled ==
    \A o \in placed : order[o].settlement # "REFUNDED" => order'[o].settlement # "REFUNDED"

LEMMA FulfilSettlesNothing ==
    ASSUME Typed, NEW x \in Order, NEW row, NEW bal, NEW led, HandlePaidOrder(x, row, bal, led),
           row \in OrderRow, row.settlement # "REFUNDED"
    PROVE  NothingSettled
  <1> SUFFICES ASSUME NEW o \in placed, order[o].settlement # "REFUNDED"
               PROVE  order'[o].settlement # "REFUNDED"
    BY DEF NothingSettled
  <1>1. o \in Order /\ order[o] \in OrderRow /\ order \in [Order -> OrderRow]
    BY IdSets DEF Typed, TypeOK
  <1>2. CASE FulfilPlan(x, row, bal, led)
    <2>1. CASE o = x
      <3>1. PICK target : order'[o] = [row EXCEPT !.status = "COMPLETED", !.paidOn = now,
                                                  !.sub = target, !.settlement = Open(row)]
        BY <1>1, <1>2, <2>1 DEF FulfilPlan
      <3> QED BY <3>1 DEF OrderRow, Open
    <2>2. CASE o # x
      <3>1. \/ order'[o] = order[o]
            \/ order'[o] = [order[o] EXCEPT !.superseded = x,
                                            !.settlement = IF @ = "REFUNDED" THEN @ ELSE "CONSUMED"]
        BY <1>1, <1>2, <2>2 DEF FulfilPlan
      <3> QED BY <1>1, <3>1 DEF OrderRow
    <2> QED BY <2>1, <2>2
  <1>3. CASE FulfilNothing(x, row, bal, led) \/ FulfilRecharge(x, row, bal, led)
    <2>1. \/ order'[o] = order[o]
          \/ order'[o] = [row EXCEPT !.status = "PAID", !.paidOn = now]
          \/ order'[o] = [row EXCEPT !.status = "COMPLETED", !.paidOn = now,
                                     !.settlement = Open(row)]
      BY <1>1, <1>3 DEF FulfilNothing, FulfilRecharge
    <2> QED BY <2>1 DEF OrderRow, Open
  <1> QED BY <1>2, <1>3 DEF HandlePaidOrder

\* Only the refund of an order settles it as refunded.
LEMMA OnlyRefundSettles ==
    ASSUME Orderly, TimeInvariant, Next
    PROVE  NothingSettled \/ \E x \in Order : Refunds(x) /\ RowsRefunded(x, Covered(x))
  <1>1. /\ OneAtATime /\ ~Redeliver /\ AdminTools = {}
        /\ Typed /\ Typed' /\ ChainInvariant'
        /\ order \in [Order -> OrderRow] /\ placed \subseteq Order
    BY IdSets, NextTyped, NextKeepsChain DEF Orderly, TimeInvariant, Typed, TypeOK
  <1>2. ASSUME \A q \in placed : order'[q].settlement \in {order[q].settlement, "OPEN"}
        PROVE  NothingSettled
    BY <1>2 DEF NothingSettled
  <1>3. ASSUME UNCHANGED order
        PROVE  NothingSettled
    BY <1>3 DEF NothingSettled
  <1>4. ASSUME NEW x \in Order, NEW refund, order' = [order EXCEPT ![x].refund = refund]
        PROVE  NothingSettled
    BY <1>1, <1>2, <1>4 DEF OrderRow
  <1>5. ASSUME NEW x \in placed, NEW provider \in Provider, NEW bal, NEW led,
               Unsold(order[x]) \/ order[x].settlement # "REFUNDED",
               HandlePaidOrder(x, [order[x] EXCEPT !.provider = provider], bal, led)
        PROVE  NothingSettled
    <2> DEFINE row == [order[x] EXCEPT !.provider = provider]
    <2>1. x \in Order /\ order[x] \in OrderRow /\ RowAgrees(order[x])
      BY <1>5, SoldFacts
    <2>2. row \in OrderRow /\ row.settlement = order[x].settlement
      BY <2>1 DEF OrderRow
    <2>3. order[x].settlement # "REFUNDED"
      BY <1>5, <2>1 DEF RowAgrees
    <2>4. HandlePaidOrder(x, row, bal, led)
      BY <1>5
    <2> HIDE DEF row
    <2> QED BY <1>1, <2>1, <2>2, <2>3, <2>4, FulfilSettlesNothing
  <1>6. ASSUME NEW S, NEW status, EndUnpaid(S, status)
        PROVE  NothingSettled
    <2>1. ASSUME NEW q \in placed
          PROVE  order'[q].settlement = order[q].settlement
      <3>1. order[q] \in OrderRow
            /\ (order'[q] = [order[q] EXCEPT !.status = status] \/ order'[q] = order[q])
        BY <1>1, <1>6 DEF EndUnpaid
      <3> QED BY <3>1 DEF OrderRow
    <2> QED BY <1>2, <2>1
  <1>7. CASE UserStep
    <2>1. ASSUME NEW p \in Plan, NEW c \in Cycle, CreateOrder(p, c) PROVE NothingSettled
      <3> DEFINE x    == made + 1
                 view == Preview(p, c)
      <3>1. x \in Order /\ x \notin placed /\ view.action # "BLOCKED"
        BY <2>1, NextIdIsNew DEF CreateOrder, TimeInvariant
      <3>2. PICK parent \in AnchorOrders(ChainSources(view)) :
              LET row  == NewOrder(x, p, c, view, parent)
                  zero == [row EXCEPT !.provider = "ZERO"]
              IN  \/ order' = [order EXCEPT ![x] = row]
                  \/ order' = [order EXCEPT ![x] = zero]
                  \/ HandlePaidOrder(x, zero, balance, ledger)
        BY <2>1 DEF CreateOrder
      <3> DEFINE row  == NewOrder(x, p, c, view, parent)
                 zero == [row EXCEPT !.provider = "ZERO"]
      <3>3. row \in OrderRow
        BY <1>1, <3>1, NewOrderIsFresh DEF Fresh
      <3>4. row.settlement = "OPEN"
        BY DEF NewOrder, BlankOrder
      <3>5. zero \in OrderRow /\ zero.settlement = "OPEN"
        <4> HIDE DEF row
        <4>1. "ZERO" \in Provider
          BY DEF Provider
        <4> QED BY <3>3, <3>4, <4>1 DEF OrderRow
      <3> HIDE DEF row, zero, x, view
      <3>6. CASE HandlePaidOrder(x, zero, balance, ledger)
        BY <1>1, <3>1, <3>5, <3>6, FulfilSettlesNothing
      <3>7. ASSUME NEW new, order' = [order EXCEPT ![x] = new]
            PROVE  NothingSettled
        BY <1>1, <1>2, <3>1, <3>7
      <3> QED BY <3>2, <3>6, <3>7 DEF row, zero
    <2>2. ASSUME NEW a \in RechargeAmounts, CreateRechargeOrder(a) PROVE NothingSettled
      <3>1. made + 1 \notin placed
        BY <2>2, NextIdIsNew DEF CreateRechargeOrder, TimeInvariant
      <3>2. \A q \in placed : order'[q] = order[q]
        BY <1>1, <2>2, <3>1 DEF CreateRechargeOrder
      <3> QED BY <1>2, <3>2
    <2>3. ASSUME NEW x \in Order, CloseOrder(x) \/ CancelOrder(x) PROVE NothingSettled
      BY <1>6, <2>3 DEF CloseOrder, CancelOrder
    <2>4. ASSUME NEW x \in Order, PayLink(x) PROVE NothingSettled
      <3>1. order' = [order EXCEPT ![x].provider = "EPAY"]
        BY <2>4 DEF PayLink
      <3> QED BY <1>1, <1>2, <3>1 DEF OrderRow
    <2>5. ASSUME NEW x \in Order, PayByBalance(x) PROVE NothingSettled
      <3>1. x \in placed /\ order[x].status = "CREATED" /\ "BALANCE" \in Provider
        BY <2>5 DEF PayByBalance, Payable, Provider
      <3>2. Unsold(order[x])
        BY <3>1 DEF Unsold
      <3> QED BY <1>5, <2>5, <3>1, <3>2 DEF PayByBalance
    <2>6. ASSUME NEW x \in Order, RequestRefund(x) PROVE NothingSettled
      BY <1>4, <2>6 DEF RequestRefund
    <2> QED BY <1>7, <2>1, <2>2, <2>3, <2>4, <2>5, <2>6 DEF UserStep
  <1>8. CASE GatewayStep
    <2>1. ASSUME NEW x \in Order, GatewayPay(x) \/ GatewaySettle(x) PROVE NothingSettled
      BY <1>3, <2>1 DEF GatewayPay, GatewaySettle
    <2>2. ASSUME NEW x \in Order, Notify(x) PROVE NothingSettled
      <3>1. CASE Live(order[x])
        BY <1>3, <2>2, <3>1 DEF Notify
      <3>2. CASE ~Live(order[x])
        <4>1. /\ x \in placed /\ order[x].provider = "EPAY" /\ ~gateway[x].acked
              /\ HandlePaidOrder(x, order[x], balance, ledger) /\ "EPAY" \in Provider
          BY <1>1, <2>2, <3>2 DEF Notify, Accepted, Provider
        <4>2. Unsold(order[x]) /\ order[x] \in OrderRow
          BY <4>1, SoldFacts DEF Agrees
        <4>3. order[x] = [order[x] EXCEPT !.provider = "EPAY"]
          BY <4>1, <4>2 DEF OrderRow
        <4>4. HandlePaidOrder(x, [order[x] EXCEPT !.provider = "EPAY"], balance, ledger)
          BY <4>1, <4>3
        <4> QED BY <1>5, <4>1, <4>2, <4>4
      <3> QED BY <3>1, <3>2
    <2> QED BY <1>8, <2>1, <2>2 DEF GatewayStep
  <1>9. CASE AdminStep
    <2>1. ASSUME NEW x \in Order, RejectRefund(x) \/ ApproveOriginalRefund(x)
          PROVE  NothingSettled
      BY <1>4, <2>1 DEF RejectRefund, ApproveOriginalRefund
    <2>2. ASSUME NEW x \in Order, RefundToBalance(x) \/ QueryOriginalRefund(x)
          PROVE  Refunds(x) /\ RowsRefunded(x, Covered(x))
      BY <1>1, <2>2, RefundKeepsTime, RefundFacts
    <2>3. ASSUME NEW x \in Order, RefundCallLost(x) PROVE NothingSettled
      BY <1>3, <2>3 DEF RefundCallLost
    <2>4. ASSUME NEW day, CleanupOrders(day) PROVE NothingSettled
      <3>1. PICK S : RemoveOrders(S)
        BY <2>4 DEF CleanupOrders
      <3>2. ASSUME NEW q \in placed
            PROVE  order'[q].settlement \in {order[q].settlement, "OPEN"}
        <4>1. order[q] \in OrderRow
              /\ order'[q] = IF q \in S THEN [BlankOrder EXCEPT !.payable = order[q].payable]
                             ELSE Detached(q, S)
          BY <1>1, <3>1 DEF RemoveOrders
        <4>2. CASE q \in S
          BY <4>1, <4>2 DEF BlankOrder
        <4>3. CASE q \notin S
          BY <4>1, <4>3 DEF Detached, OrderRow
        <4> QED BY <4>2, <4>3
      <3> QED BY <1>2, <3>2
    <2>5. /\ \A x \in Order : ~AdminComplete(x)
          /\ \A x \in Order, status \in {"CREATED", "CANCELED", "TIMEOUT"} :
                ~AdminSetStatus(x, status)
          /\ \A S \in SUBSET Order : ~DeleteOrders(S)
          /\ \A p \in Plan : ~DeletePlan(p)
          /\ \A p \in Plan, c \in Cycle : ~DropCycle(p, c)
      BY <1>1 DEF AdminComplete, AdminSetStatus, DeleteOrders, DeletePlan, DropCycle
    <2> QED BY <1>9, <2>1, <2>2, <2>3, <2>4, <2>5 DEF AdminStep
  <1>10. CASE JobStep
    <2>1. ASSUME NEW S, FinalizeStale(S) PROVE NothingSettled
      BY <1>6, <2>1 DEF FinalizeStale
    <2>2. CASE ExpireDue \/ CleanupExpired
      BY <1>3, <2>2 DEF ExpireDue, CleanupExpired
    <2> QED BY <1>10, <2>1, <2>2 DEF JobStep
  <1>11. CASE Tick
    BY <1>3, <1>11 DEF Tick
  <1> QED BY <1>7, <1>8, <1>9, <1>10, <1>11 DEF Next

\* So an order that becomes settled as refunded is the one refunded.
LEMMA SettledIsRefunded ==
    ASSUME Orderly, TimeInvariant, Next, NEW o \in placed, order[o].refund # "REFUNDED",
           order'[o].settlement = "REFUNDED"
    PROVE  Refunds(o)
  <1>1. order[o] \in OrderRow /\ RowAgrees(order[o])
    BY SoldFacts
  <1>2. order[o].settlement # "REFUNDED"
    BY <1>1, Kinds DEF RowAgrees
  <1>3. PICK x \in Order : Refunds(x) /\ RowsRefunded(x, Covered(x))
    BY <1>2, OnlyRefundSettles DEF NothingSettled
  <1>4. o = x
    BY <1>2, <1>3 DEF RowsRefunded
  <1> QED BY <1>3, <1>4

\* One thing at a time, and an order whose value an upgrade took over is never
\* settled by a refund of its own (ORDER_VALUE_ALREADY_USED in refunds.py).
THEOREM UsedValueIsNotRefunded ==
    ASSUME Orderly
    PROVE  Spec => ConsumedNotRefundedAgain
  <1>1. ASSUME TimeInvariant, Next, NEW o \in placed, order[o].refund # "REFUNDED",
               NEW e \in links, e[1] = o
        PROVE  order'[o].settlement # "REFUNDED"
    <2>1. order[o].settlement # "OPEN"
      BY <1>1 DEF TimeInvariant, LinksAreSpent
    <2>2. ~Refunds(o)
      BY <2>1 DEF Refunds, Holds
    <2> QED BY <1>1, <2>2, SettledIsRefunded
  <1>2. TimeInvariant /\ [Next]_vars => [
          \A o \in placed :
            order[o].refund # "REFUNDED" /\ (\E e \in links : e[1] = o) =>
                order'[o].settlement # "REFUNDED"]_vars
    BY <1>1
  <1> QED BY <1>2, TimeInvariantHolds, PTL DEF Spec, ConsumedNotRefundedAgain

-----------------------------------------------------------------------------
(* Money: the sums it takes.                                               *)

LEMMA SumOfParts ==
    ASSUME NEW T, IsFiniteSet(T), NEW f, \A x \in T : f[x] \in Nat, NEW H \in SUBSET T
    PROVE  Sum(f, T) = Sum(f, H) + Sum(f, T \ H)
<1> DEFINE M == {U \in SUBSET T : Sum(f, T) # Sum(f, U) + Sum(f, T \ U)}
<1> SUFFICES ASSUME M # {} PROVE FALSE
    OBVIOUS
<1>0. M \subseteq SUBSET T
    OBVIOUS
<1>1. PICK B \in M : \A U \in M : U \subseteq B => U = B
    <2> HIDE DEF M
    <2> QED BY <1>0, LeastSubset
<1>2. \A U \in SUBSET T : IsFiniteSet(U) /\ Sum(f, U) \in Nat
    BY FS_Subset, SumIsNat
<1>3. B \in SUBSET T /\ Sum(f, T) # Sum(f, B) + Sum(f, T \ B)
    OBVIOUS
<1>4. PICK y \in B : TRUE
    <2> SUFFICES ASSUME B = {} PROVE FALSE
        OBVIOUS
    <2>1. Sum(f, B) = 0 /\ T \ B = T /\ Sum(f, T) \in Nat
        BY <1>2, SumOfNone
    <2> QED BY <1>3, <2>1
<1> DEFINE U == B \ {y}
           W == T \ B
<1>5. U \in SUBSET T /\ W \in SUBSET T /\ Sum(f, T) = Sum(f, U) + Sum(f, T \ U)
    BY <1>1, <1>4
<1>6. Sum(f, B) = f[y] + Sum(f, U)
    BY <1>2, <1>3, <1>4, SumSplits
<1>7. T \ U = W \cup {y} /\ (W \cup {y}) \ {y} = W /\ W \cup {y} \in SUBSET T
    BY <1>3, <1>4
<1>8. Sum(f, T \ U) = f[y] + Sum(f, W)
    <2>1. y \in W \cup {y} /\ IsFiniteSet(W \cup {y}) /\ \A z \in W \cup {y} : f[z] \in Nat
        BY <1>2, <1>7
    <2>2. Sum(f, W \cup {y}) = f[y] + Sum(f, (W \cup {y}) \ {y})
        BY <2>1, SumSplits
    <2> QED BY <1>7, <2>2
<1>9. f[y] \in Nat /\ Sum(f, U) \in Nat /\ Sum(f, W) \in Nat
    BY <1>2, <1>3, <1>4, <1>5
<1>10. Sum(f, B) + Sum(f, W) = Sum(f, T)
    <2> HIDE DEF U, W
    <2> QED BY <1>5, <1>6, <1>8, <1>9
<1> QED BY <1>3, <1>10

\* One of the terms changes, those of H go, and no other grows.
LEMMA SumWithout ==
    ASSUME NEW T, IsFiniteSet(T), NEW f, NEW g, NEW x \in T, NEW H \in SUBSET (T \ {x}),
           \A y \in T : f[y] \in Nat /\ g[y] \in Nat,
           \A y \in T \ {x} : g[y] <= f[y],
           \A y \in H : g[y] = 0
    PROVE  Sum(g, T) + f[x] + Sum(f, H) <= Sum(f, T) + g[x]
<1> DEFINE R == T \ {x}
           Q == R \ H
<1>1. \A U \in SUBSET T : /\ IsFiniteSet(U) /\ Sum(f, U) \in Nat /\ Sum(g, U) \in Nat
    BY FS_Subset, SumIsNat
<1>2. Sum(f, T) = f[x] + Sum(f, R) /\ Sum(g, T) = g[x] + Sum(g, R)
    BY SumSplits
<1>3. R \in SUBSET T /\ Q \in SUBSET T /\ H \in SUBSET T /\ H \in SUBSET R
    OBVIOUS
<1>4. Sum(f, R) = Sum(f, H) + Sum(f, Q) /\ Sum(g, R) = Sum(g, H) + Sum(g, Q)
    BY <1>1, <1>3, SumOfParts
<1>5. Sum(g, H) = 0
    BY <1>1, <1>3, SumOfZeros
<1>6. Sum(g, Q) <= Sum(f, Q)
    <2>1. IsFiniteSet(Q) /\ \A y \in Q : f[y] \in Nat /\ g[y] \in Nat /\ g[y] <= f[y]
        BY <1>1, <1>3
    <2> QED BY <2>1, SumOfLess
<1>7. /\ Sum(f, R) \in Nat /\ Sum(f, H) \in Nat /\ Sum(f, Q) \in Nat /\ Sum(g, Q) \in Nat
      /\ Sum(g, R) \in Nat /\ f[x] \in Nat /\ g[x] \in Nat
    BY <1>1, <1>3
<1> HIDE DEF R, Q
<1> QED BY <1>2, <1>4, <1>5, <1>6, <1>7

LEMMA SumWithOne ==
    ASSUME NEW T, IsFiniteSet(T), NEW f, NEW g, NEW x \in T,
           \A y \in T : f[y] \in Nat /\ g[y] \in Nat,
           \A y \in T \ {x} : g[y] <= f[y]
    PROVE  Sum(g, T) + f[x] <= Sum(f, T) + g[x]
<1>1. {} \in SUBSET (T \ {x}) /\ \A y \in {} : g[y] = 0
    OBVIOUS
<1>2. Sum(g, T) + f[x] + Sum(f, {}) <= Sum(f, T) + g[x]
    BY <1>1, SumWithout
<1>3. Sum(f, {}) = 0 /\ Sum(g, T) \in Nat /\ f[x] \in Nat
    BY SumOfNone, SumIsNat
<1> QED BY <1>2, <1>3

-----------------------------------------------------------------------------
(* Money, while no upgrade is cheaper than its credit.                     *)

Dearer == \A o \in placed : order[o].carry = 0

\* What an order costs: its base price, part of it in money and the rest, in
\* an upgrade, in credit.
Priced(row) ==
    row.kind = "PLAN" =>
        /\ row.payable + row.credit = row.base + row.carry
        /\ row.action \notin Consuming => row.credit = 0

\* The orders that hold value for the subscriptions in S.
Held(S) == {q \in placed : Holds(order[q]) /\ order[q].sub \in S}

\* The credit of an upgrade that may still be paid is covered by orders that it
\* will consume.
Backed(o) ==
    Unsold(order[o]) /\ Busy(o) /\ order[o].action \in Consuming =>
        order[o].credit <= Sum(Bases, Held(order[o].sources))

\* The gateway knows of a refund only if the order is waiting for it or has had it.
RefundTracked(o) ==
    gateway[o].refund \in {"accepted", "done"} =>
        /\ o \in placed
        /\ \/ order[o].refund = "PROCESSING"
           \/ gateway[o].refund = "done" /\ order[o].status = "REFUNDED"

\* What the user may still get for order o: a refund, or its fulfilment when the
\* gateway has captured the payment and was not answered.
Unanswered(o) == gateway[o].trade = "paid" /\ ~gateway[o].acked
Due(o) == (IF o \in placed THEN Owed(o) ELSE 0)
          + (IF Unanswered(o) THEN order[o].payable ELSE 0)
Dues == [o \in Order |-> Due(o)]

Funded == balance + returned + Sum(Dues, Order) <= InitialBalance + received

PricesHold == \A o \in placed : Priced(order[o]) /\ Backed(o)
RefundsTracked == \A o \in Order : RefundTracked(o)

MoneyInvariant == TimeInvariant /\ PricesHold /\ RefundsTracked /\ Funded

-----------------------------------------------------------------------------
\* What is owed for an order that was placed.
LEMMA OwedIs ==
    ASSUME Typed, NEW o \in placed
    PROVE  /\ o \in Order /\ order[o] \in OrderRow /\ order[o].payable \in Nat
           /\ order[o].base \in Nat /\ order[o].credit \in Nat /\ order[o].carry \in Nat
           /\ CreditPart(order[o]) \in Nat
           /\ Owed(o) \in Nat
           /\ Owed(o) = IF Live(order[o]) /\ order[o].kind = "PLAN"
                           /\ order[o].settlement # "CONSUMED"
                        THEN IF gateway[o].refund = "done" THEN CreditPart(order[o])
                             ELSE order[o].payable + CreditPart(order[o])
                        ELSE 0
  <1>1. o \in Order /\ order[o] \in OrderRow
    BY IdSets DEF Typed, TypeOK
  <1>2. /\ order[o].payable \in Nat /\ order[o].base \in Nat
        /\ order[o].credit \in Nat /\ order[o].carry \in Nat
    BY <1>1 DEF OrderRow
  <1>3. CreditPart(order[o]) \in Nat
    BY <1>2 DEF CreditPart
  <1>4. Owed(o) = IF Live(order[o]) /\ order[o].kind = "PLAN"
                     /\ order[o].settlement # "CONSUMED"
                  THEN IF gateway[o].refund = "done" THEN CreditPart(order[o])
                       ELSE order[o].payable + CreditPart(order[o])
                  ELSE 0
    <2> DEFINE p == order[o].payable
               c == CreditPart(order[o])
    <2>1. Owed(o) = IF Live(order[o]) /\ order[o].kind = "PLAN"
                       /\ order[o].settlement # "CONSUMED"
                    THEN (p + c) - (IF gateway[o].refund = "done" THEN p ELSE 0) ELSE 0
      BY DEF Owed, RefundTotal
    <2>2. p \in Nat /\ c \in Nat
      BY <1>2, <1>3
    <2> HIDE DEF p, c
    <2>3. (p + c) - p = c /\ (p + c) - 0 = p + c
      BY <2>2
    <2>4. Owed(o) = IF Live(order[o]) /\ order[o].kind = "PLAN"
                       /\ order[o].settlement # "CONSUMED"
                    THEN IF gateway[o].refund = "done" THEN c ELSE p + c
                    ELSE 0
      <3>1. CASE gateway[o].refund = "done"
        BY <2>1, <2>3, <3>1
      <3>2. CASE gateway[o].refund # "done"
        BY <2>1, <2>3, <3>2
      <3> QED BY <3>1, <3>2
    <2> QED BY <2>4 DEF p, c
  <1>5. Owed(o) \in Nat
    BY <1>2, <1>3, <1>4
  <1> QED BY <1>1, <1>2, <1>3, <1>4, <1>5

LEMMA DuesAreNat ==
    ASSUME Typed
    PROVE  /\ Dues \in [Order -> Nat] /\ Sum(Dues, Order) \in Nat
           /\ \A o \in Order : Due(o) \in Nat /\ order[o].payable \in Nat
  <1>1. \A o \in Order : order[o].payable \in Nat
    BY DEF Typed, TypeOK, OrderRow
  <1>2. ASSUME NEW o \in Order PROVE Due(o) \in Nat
    <2> DEFINE a == IF o \in placed THEN Owed(o) ELSE 0
               b == IF Unanswered(o) THEN order[o].payable ELSE 0
    <2>1. a \in Nat
      BY OwedIs
    <2>2. b \in Nat
      BY <1>1
    <2>3. Due(o) = a + b
      BY DEF Due
    <2> HIDE DEF a, b
    <2> QED BY <2>1, <2>2, <2>3
  <1>3. Dues \in [Order -> Nat]
    BY <1>2 DEF Dues
  <1>4. IsFiniteSet(Order)
    BY IdsAreFinite
  <1> QED BY <1>1, <1>2, <1>3, <1>4, SumIsNat

LEMMA DuesAreNatNext ==
    (Typed => /\ Dues \in [Order -> Nat] /\ Sum(Dues, Order) \in Nat
              /\ \A o \in Order : Due(o) \in Nat /\ order[o].payable \in Nat)'
  <1>1. Typed => /\ Dues \in [Order -> Nat] /\ Sum(Dues, Order) \in Nat
                 /\ \A o \in Order : Due(o) \in Nat /\ order[o].payable \in Nat
    BY DuesAreNat
  <1> QED BY <1>1, PTL

LEMMA OwedIsNext ==
    (Typed => \A o \in placed :
       /\ CreditPart(order[o]) \in Nat
       /\ Owed(o) = IF Live(order[o]) /\ order[o].kind = "PLAN"
                       /\ order[o].settlement # "CONSUMED"
                    THEN IF gateway[o].refund = "done" THEN CreditPart(order[o])
                         ELSE order[o].payable + CreditPart(order[o])
                    ELSE 0)'
  <1>1. Typed => \A o \in placed :
          /\ CreditPart(order[o]) \in Nat
          /\ Owed(o) = IF Live(order[o]) /\ order[o].kind = "PLAN"
                          /\ order[o].settlement # "CONSUMED"
                       THEN IF gateway[o].refund = "done" THEN CreditPart(order[o])
                            ELSE order[o].payable + CreditPart(order[o])
                       ELSE 0
    BY OwedIs
  <1> QED BY <1>1, PTL

\* The funds after a step that settles the orders in H and changes what is due
\* for x, while no other order gets any more: the money that came in, with what
\* H is worth no longer, pays for it.
LEMMA FundsFollow ==
    ASSUME Typed, Typed', Funded, NEW x \in Order, NEW H \in SUBSET (Order \ {x}),
           \A q \in Order \ {x} : Due(q)' <= Due(q),
           \A q \in H : Due(q)' = 0,
           balance' + returned' + Due(x)' + received
              <= balance + returned + Due(x) + received' + Sum(Dues, H)
    PROVE  Funded'
  <1> DEFINE f == Dues
             g == Dues'
  <1>1. /\ IsFiniteSet(Order) /\ IsFiniteSet(H)
        /\ \A q \in Order : f[q] \in Nat /\ f[q] = Due(q)
        /\ \A q \in Order : g[q] \in Nat /\ g[q] = Due(q)'
        /\ Sum(f, Order) \in Nat /\ Sum(g, Order) \in Nat
    <2>1. Order' = Order
      BY DEF Order
    <2>2. \A q \in Order : f[q] = Due(q) /\ g[q] = Due(q)'
      BY <2>1 DEF Dues
    <2>3. /\ \A q \in Order : Due(q) \in Nat
          /\ Sum(f, Order) \in Nat
      BY DuesAreNat
    <2>4. /\ \A q \in Order : Due(q)' \in Nat
          /\ Sum(g, Order) \in Nat
      BY <2>1, DuesAreNatNext
    <2> QED BY <2>2, <2>3, <2>4, IdsAreFinite
  <1>2. /\ \A q \in Order \ {x} : g[q] <= f[q]
        /\ \A q \in H : g[q] = 0
    BY <1>1
  <1>3. Sum(f, H) \in Nat
    BY <1>1, SumIsNat
  <1>4. /\ balance \in Nat /\ returned \in Nat /\ received \in Nat
        /\ balance' \in Nat /\ returned' \in Nat /\ received' \in Nat /\ InitialBalance \in Nat
    BY BoundsAssumption DEF Typed, TypeOK
  <1>5. balance + returned + Sum(f, Order) <= InitialBalance + received
    BY DEF Funded
  <1>6. balance' + returned' + g[x] + received <= balance + returned + f[x] + received' + Sum(f, H)
    BY <1>1
  <1>7. Funded' <=> balance' + returned' + Sum(g, Order) <= InitialBalance + received'
    BY DEF Funded, Order
  <1> HIDE DEF f, g
  <1>8. Sum(g, Order) + f[x] + Sum(f, H) <= Sum(f, Order) + g[x]
    BY <1>1, <1>2, SumWithout
  <1>9. balance' + returned' + Sum(g, Order) <= InitialBalance + received'
    <2>1. f[x] \in Nat /\ g[x] \in Nat
      BY <1>1
    <2> QED BY <1>1, <1>3, <1>4, <1>5, <1>6, <1>8, <2>1
  <1> QED BY <1>7, <1>9

LEMMA FundsMove ==
    ASSUME Typed, Typed', Funded, NEW x \in Order,
           \A q \in Order \ {x} : Due(q)' <= Due(q),
           balance' + returned' + Due(x)' + received <= balance + returned + Due(x) + received'
    PROVE  Funded'
  <1>1. Sum(Dues, {}) = 0
    BY SumOfNone
  <1>2. /\ balance \in Nat /\ returned \in Nat /\ received' \in Nat /\ Due(x) \in Nat
    BY DuesAreNat DEF Typed, TypeOK
  <1>3. balance + returned + Due(x) + received' + 0 = balance + returned + Due(x) + received'
    BY <1>2
  <1> QED BY <1>1, <1>3, FundsFollow

LEMMA FundsStay ==
    ASSUME Typed, Typed', Funded, UNCHANGED <<balance, returned, received>>,
           \A q \in Order : Due(q)' <= Due(q)
    PROVE  Funded'
  <1> DEFINE f == Dues
             g == Dues'
  <1>1. /\ IsFiniteSet(Order)
        /\ \A q \in Order : f[q] \in Nat /\ g[q] \in Nat /\ g[q] <= f[q]
        /\ Sum(f, Order) \in Nat /\ Sum(g, Order) \in Nat
    <2>1. Order' = Order
      BY DEF Order
    <2>2. \A q \in Order : f[q] = Due(q) /\ g[q] = Due(q)'
      BY <2>1 DEF Dues
    <2>3. /\ \A q \in Order : Due(q) \in Nat
          /\ Sum(f, Order) \in Nat
      BY DuesAreNat
    <2>4. /\ \A q \in Order : Due(q)' \in Nat
          /\ Sum(g, Order) \in Nat
      BY <2>1, DuesAreNatNext
    <2> QED BY <2>2, <2>3, <2>4, IdsAreFinite
  <1>2. balance + returned + Sum(f, Order) <= InitialBalance + received
    BY DEF Funded
  <1>3. Funded' <=> balance + returned + Sum(g, Order) <= InitialBalance + received
    BY DEF Funded, Order
  <1>4. balance \in Nat /\ returned \in Nat /\ received \in Nat /\ InitialBalance \in Nat
    BY BoundsAssumption DEF Typed, TypeOK
  <1> HIDE DEF f, g
  <1>5. Sum(g, Order) <= Sum(f, Order)
    BY <1>1, SumOfLess
  <1>6. balance + returned + Sum(g, Order) <= InitialBalance + received
    BY <1>1, <1>2, <1>4, <1>5
  <1> QED BY <1>3, <1>6

\* The properties of money follow.
LEMMA FundedIsSolvent ==
    ASSUME Typed, Funded
    PROVE  Solvent
  <1> DEFINE S == placed
             h0 == [o \in Order |-> IF o \in placed THEN Owed(o) ELSE 0]
             Body(g) == [U \in SUBSET S |->
                            IF U = {} THEN 0 ELSE Owed(Some(U)) + g[U \ {Some(U)}]]
             h == CHOOSE g : g = Body(g)
             k == CHOOSE g : AddsUp(g, h0, S)
             owed == MapThenSumSet(Owed, placed)
  <1>1. owed = h[S]
    BY DEF MapThenSumSet, MapThenFoldSet, Some
  <1>2. Sum(h0, S) = k[S]
    BY SumUnfolds
  <1>3. S \in SUBSET Order /\ IsFiniteSet(S) /\ IsFiniteSet(Order)
    BY IdsAreFinite, IdSets
  <1>4. \A U \in SUBSET S : U # {} => h0[Some(U)] = Owed(Some(U))
    BY <1>3 DEF Some
  <1>5. \A o \in Order : /\ h0[o] \in Nat /\ Dues[o] \in Nat /\ h0[o] <= Dues[o]
    <2> SUFFICES ASSUME NEW o \in Order
                 PROVE  h0[o] \in Nat /\ Dues[o] \in Nat /\ h0[o] <= Dues[o]
      OBVIOUS
    <2> DEFINE a == IF o \in placed THEN Owed(o) ELSE 0
               b == IF Unanswered(o) THEN order[o].payable ELSE 0
    <2>1. h0[o] = a /\ Dues[o] = a + b
      BY DEF Dues, Due
    <2>2. a \in Nat
      BY OwedIs
    <2>3. b \in Nat
      BY DuesAreNat
    <2> HIDE DEF a, b, h0
    <2> QED BY <2>1, <2>2, <2>3
  <1> HIDE DEF h0
  <1>6. \A g : AddsUp(g, h0, S) <=> g = Body(g)
    BY <1>4 DEF AddsUp
  <1>7. AddsUp(k, h0, S)
    BY <1>3, AddsUpExists
  <1>8. h = Body(h)
    <2> HIDE DEF Body, k
    <2> QED BY <1>6, <1>7
  <1>9. AddsUp(h, h0, S)
    BY <1>6, <1>8
  <1> HIDE DEF h, k
  <1>10. h[S] = k[S]
    BY <1>3, <1>7, <1>9, AddsUpOnce
  <1>11. owed = Sum(h0, S)
    BY <1>1, <1>2, <1>10
  <1>12. Sum(h0, S) <= Sum(Dues, S) /\ Sum(Dues, S) <= Sum(Dues, Order)
    <2>1. \A o \in S : h0[o] \in Nat /\ Dues[o] \in Nat /\ h0[o] <= Dues[o]
      BY <1>3, <1>5
    <2>2. Sum(h0, S) <= Sum(Dues, S)
      BY <1>3, <2>1, SumOfLess
    <2>3. Sum(Dues, S) <= Sum(Dues, Order)
      BY <1>3, <1>5, SumOfFewer
    <2> QED BY <2>2, <2>3
  <1>13. Sum(h0, S) \in Nat /\ Sum(Dues, S) \in Nat /\ Sum(Dues, Order) \in Nat
    BY <1>3, <1>5, SumIsNat
  <1>14. balance \in Nat /\ returned \in Nat /\ received \in Nat /\ InitialBalance \in Nat
    BY BoundsAssumption DEF Typed, TypeOK
  <1>15. Solvent <=> balance + returned + owed <= InitialBalance + received
    BY DEF Solvent
  <1>16. balance + returned + Sum(Dues, Order) <= InitialBalance + received
    BY DEF Funded
  <1> HIDE DEF owed, S
  <1>17. balance + returned + owed <= InitialBalance + received
    BY <1>11, <1>12, <1>13, <1>14, <1>16
  <1> QED BY <1>15, <1>17

LEMMA InitMoney == Init => MoneyInvariant
  <1> SUFFICES ASSUME Init PROVE MoneyInvariant
    OBVIOUS
  <1>1. TimeInvariant /\ Typed
    BY InitTime DEF TimeInvariant
  <1>2. placed = {} /\ \A o \in Order : gateway[o] = BlankTrade
    BY DEF Init
  <1>3. PricesHold /\ RefundsTracked
    BY <1>2 DEF PricesHold, RefundsTracked, RefundTracked, BlankTrade
  <1>4. \A o \in Order : Dues[o] = 0
    BY <1>2 DEF Dues, Due, Unanswered, BlankTrade
  <1>5. Sum(Dues, Order) = 0
    BY <1>4, SumOfZeros, IdsAreFinite
  <1>6. Funded
    <2>1. balance = InitialBalance /\ returned = 0 /\ received = 0 /\ InitialBalance \in Nat
      BY BoundsAssumption DEF Init
    <2> QED BY <1>5, <2>1 DEF Funded
  <1> QED BY <1>1, <1>3, <1>6 DEF MoneyInvariant

-----------------------------------------------------------------------------
(* Steps that sell nothing and pay no refund.                              *)

SameValue(row, new) ==
    /\ new.kind = row.kind /\ new.action = row.action /\ new.sources = row.sources
    /\ new.base = row.base /\ new.credit = row.credit
    /\ new.payable = row.payable /\ new.carry = row.carry
    /\ new.sub = row.sub /\ new.settlement = row.settlement /\ new.days = row.days
    /\ Unsold(new) <=> Unsold(row)
    /\ Live(new) <=> Live(row)

LEMMA SameValues ==
    ASSUME NEW row \in OrderRow
    PROVE  /\ SameValue(row, row)
           /\ \A v \in RefundStatus : SameValue(row, [row EXCEPT !.refund = v])
           /\ \A v \in Provider : SameValue(row, [row EXCEPT !.provider = v])
           /\ \A v \in {"CREATED", "CANCELED", "TIMEOUT"} :
                 Unsold(row) => SameValue(row, [row EXCEPT !.status = v])
           /\ \A a, b, c : SameValue(row, [row EXCEPT !.parent = a, !.superseded = b, !.chain = c])
  BY DEF OrderRow, SameValue, Unsold, Live

\* An order's value and what it may still be paid stay.
Unmoved(q) ==
    /\ q \in placed' => q \in placed /\ SameValue(order[q], order'[q])
    /\ q \in placed \ placed' => Unsold(order[q])
    /\ Unsold(order[q]) /\ Busy(q)' => Busy(q)
    /\ order'[q].payable = order[q].payable

QuietMoney == \A q \in Order : Unmoved(q)

LEMMA QuietKeepsPrices ==
    ASSUME TimeInvariant, Typed', PricesHold, QuietMoney
    PROVE  PricesHold'
  <1>1. placed \subseteq Order /\ placed' \subseteq placed
    <2>1. placed' \subseteq 1..made' /\ made' \in 0..MaxOrders
      BY DEF Typed, TypeOK
    <2>2. placed' \subseteq Order
      BY <2>1, BoundsAssumption DEF Order
    <2> QED BY <2>2, IdSets DEF TimeInvariant, QuietMoney, Unmoved
  <1>2. \A q \in placed' : q \in Order /\ q \in placed /\ SameValue(order[q], order'[q])
                           /\ (Unsold(order[q]) /\ Busy(q)' => Busy(q))
    BY <1>1 DEF QuietMoney, Unmoved
  <1>3. \A q \in placed : Holds(order[q]) => q \in placed'
    <2>1. \A q \in placed : Holds(order[q]) => ~Unsold(order[q])
      BY SoldFacts, Kinds DEF Holds
    <2> QED BY <1>1, <2>1 DEF QuietMoney, Unmoved
  <1>4. \A S : Held(S)' = Held(S)
    <2>1. \A q \in placed' : /\ Holds(order'[q]) <=> Holds(order[q])
                             /\ order'[q].sub = order[q].sub
      BY <1>2 DEF SameValue, Holds
    <2> QED BY <1>2, <1>3, <2>1 DEF Held
  <1>5. \A S : Sum(Bases', Held(S)) = Sum(Bases, Held(S))
    <2> TAKE S
    <2> DEFINE g == Bases'
    <2>1. Held(S) \subseteq placed' /\ Held(S) \subseteq Order
      BY <1>1, <1>3 DEF Held
    <2>2. \A q \in Held(S) : g[q] = Bases[q]
      <3>1. \A q \in Order : g[q] = order'[q].base /\ Bases[q] = order[q].base
        BY DEF Bases, Order
      <3>2. \A q \in Held(S) : order'[q].base = order[q].base
        BY <1>2, <2>1 DEF SameValue
      <3> QED BY <2>1, <3>1, <3>2
    <2> HIDE DEF g
    <2>3. IsFiniteSet(Held(S))
      BY <2>1, IdsAreFinite
    <2>4. Sum(g, Held(S)) = Sum(Bases, Held(S))
      BY <2>2, <2>3, SumOfSame
    <2> QED BY <2>4 DEF g
  <1> SUFFICES ASSUME NEW o \in placed, o \in placed'
               PROVE  Priced(order'[o]) /\ Backed(o)'
    BY <1>1 DEF PricesHold
  <1>6. SameValue(order[o], order'[o]) /\ Priced(order[o]) /\ Backed(o)
        /\ (Unsold(order[o]) /\ Busy(o)' => Busy(o))
    BY <1>2 DEF PricesHold
  <1>7. Priced(order'[o])
    BY <1>6 DEF Priced, SameValue
  <1>8. Backed(o)'
    <2> SUFFICES ASSUME Unsold(order'[o]), Busy(o)', order'[o].action \in Consuming
                 PROVE  order'[o].credit <= Sum(Bases', Held(order[o].sources)')
      BY DEF Backed
    <2>1. /\ Unsold(order[o]) /\ Busy(o) /\ order[o].action \in Consuming
          /\ order'[o].credit = order[o].credit /\ order'[o].sources = order[o].sources
      BY <1>6 DEF SameValue
    <2>2. order[o].credit <= Sum(Bases, Held(order[o].sources))
      BY <1>6, <2>1 DEF Backed
    <2>3. PICK S : S = order[o].sources
      OBVIOUS
    <2>4. Sum(Bases', Held(S)') = Sum(Bases, Held(S))
      BY <1>4, <1>5
    <2> QED BY <2>1, <2>2, <2>3, <2>4
  <1> QED BY <1>7, <1>8

\* What is due for an order whose value stays.
LEMMA QuietDue ==
    ASSUME Typed, Typed', NEW q \in Order, Unmoved(q),
           Unanswered(q)' => Unanswered(q),
           gateway[q].refund = "done" => gateway'[q].refund = "done"
    PROVE  Due(q)' <= Due(q)
  <1> DEFINE a0 == IF q \in placed THEN Owed(q) ELSE 0
             b0 == IF Unanswered(q) THEN order[q].payable ELSE 0
             a1 == IF q \in placed' THEN Owed(q)' ELSE 0
             b1 == IF Unanswered(q)' THEN order'[q].payable ELSE 0
  <1>1. Due(q) = a0 + b0 /\ Due(q)' = a1 + b1
    BY DEF Due
  <1>2. a0 \in Nat /\ b0 \in Nat /\ b1 \in Nat /\ b1 <= b0
    <2>1. order[q].payable \in Nat
      BY DuesAreNat
    <2>2. b0 \in Nat /\ b1 \in Nat /\ b1 <= b0
      BY <2>1 DEF Unmoved
    <2> QED BY <2>2, OwedIs
  <1>3. a1 \in Nat /\ a1 <= a0
    <2>1. CASE q \notin placed'
      BY <1>2, <2>1
    <2>2. CASE q \in placed'
      <3>1. q \in placed /\ SameValue(order[q], order'[q])
        BY <2>2 DEF Unmoved
      <3> DEFINE c == CreditPart(order[q])
                 p == order[q].payable
      <3>2. /\ c \in Nat /\ p \in Nat
            /\ Owed(q) = IF Live(order[q]) /\ order[q].kind = "PLAN"
                            /\ order[q].settlement # "CONSUMED"
                         THEN IF gateway[q].refund = "done" THEN c ELSE p + c
                         ELSE 0
        BY <3>1, OwedIs
      <3>3. Owed(q)' = IF Live(order'[q]) /\ order'[q].kind = "PLAN"
                          /\ order'[q].settlement # "CONSUMED"
                       THEN IF gateway'[q].refund = "done" THEN CreditPart(order'[q])
                            ELSE order'[q].payable + CreditPart(order'[q])
                       ELSE 0
        BY <2>2, OwedIsNext
      <3>4. CreditPart(order'[q]) = c /\ order'[q].payable = p
        BY <3>1 DEF SameValue, CreditPart
      <3>5. Owed(q)' = IF Live(order[q]) /\ order[q].kind = "PLAN"
                          /\ order[q].settlement # "CONSUMED"
                       THEN IF gateway'[q].refund = "done" THEN c ELSE p + c
                       ELSE 0
        BY <3>1, <3>3, <3>4 DEF SameValue
      <3>6. a1 = Owed(q)' /\ a0 = Owed(q)
        BY <2>2, <3>1
      <3> HIDE DEF c, p, a0, a1
      <3>7. Owed(q)' \in Nat /\ Owed(q)' <= Owed(q)
        BY <3>2, <3>5
      <3> QED BY <3>6, <3>7
    <2> QED BY <2>1, <2>2
  <1> HIDE DEF a0, a1, b0, b1
  <1> QED BY <1>1, <1>2, <1>3

\* A step that is quiet for all orders and moves no money.
LEMMA QuietKeepsMoney ==
    ASSUME MoneyInvariant, TimeInvariant', QuietMoney, RefundsTracked',
           UNCHANGED <<balance, returned, received>>,
           \A q \in Order : /\ Unanswered(q)' => Unanswered(q)
                            /\ gateway[q].refund = "done" => gateway'[q].refund = "done"
    PROVE  MoneyInvariant'
  <1>1. Typed /\ Typed' /\ TimeInvariant /\ PricesHold /\ Funded
    BY DEF MoneyInvariant, TimeInvariant
  <1>2. PricesHold'
    BY <1>1, QuietKeepsPrices
  <1>3. \A q \in Order : Due(q)' <= Due(q)
    BY <1>1, QuietDue DEF QuietMoney
  <1>4. Funded'
    BY <1>1, <1>3, FundsStay
  <1> QED BY <1>2, <1>4 DEF MoneyInvariant

LEMMA OneRowUnmoved ==
    ASSUME TimeInvariant, NEW x \in placed, NEW new, SameValue(order[x], new),
           order' = [order EXCEPT ![x] = new], placed' = placed,
           Unsold(order[x]) => Busy(x),
           \A q \in Order \ {x} : gateway'[q] = gateway[q]
    PROVE  QuietMoney
  <1> SUFFICES ASSUME NEW q \in Order PROVE Unmoved(q)
    BY DEF QuietMoney
  <1>1. /\ order \in [Order -> OrderRow] /\ x \in Order
        /\ \A p \in placed : SameValue(order[p], order[p])
    BY SoldFacts, SameValues DEF TimeInvariant, Typed, TypeOK
  <1>2. CASE q = x
    <2>1. order'[q] = new
      BY <1>1, <1>2
    <2> QED BY <1>2, <2>1 DEF Unmoved, SameValue
  <1>3. CASE q # x
    <2>1. order'[q] = order[q] /\ gateway'[q] = gateway[q]
      BY <1>1, <1>3
    <2>2. Busy(q)' => Busy(q)
      BY <2>1 DEF Busy
    <2> QED BY <1>1, <2>1, <2>2 DEF Unmoved
  <1> QED BY <1>2, <1>3

LEMMA NoRowUnmoved ==
    ASSUME TimeInvariant, UNCHANGED <<order, placed>>,
           \A q \in Order : \/ gateway'[q] = gateway[q]
                            \/ /\ gateway'[q].trade \in {gateway[q].trade, "closed"}
                               /\ gateway[q].acked => gateway'[q].acked
                            \/ gateway[q].trade = "open"
    PROVE  QuietMoney
  <1> SUFFICES ASSUME NEW q \in Order PROVE Unmoved(q)
    BY DEF QuietMoney
  <1>1. gateway[q].acked \in BOOLEAN /\ gateway[q].trade \in {"none", "open", "paid", "closed"}
    BY DEF TimeInvariant, Typed, TypeOK, Trade
  <1>2. Busy(q)' => Busy(q)
    BY <1>1 DEF Busy
  <1>3. q \in placed => SameValue(order[q], order[q])
    BY SoldFacts, SameValues
  <1> QED BY <1>2, <1>3 DEF Unmoved

LEMMA PayLinkKeepsMoney ==
    ASSUME MoneyInvariant, TimeInvariant', NEW x \in Order, PayLink(x)
    PROVE  MoneyInvariant'
  <1> DEFINE new == [order[x] EXCEPT !.provider = "EPAY"]
  <1>1. /\ x \in placed /\ order[x].status = "CREATED" /\ placed' = placed
        /\ TimeInvariant /\ gateway \in [Order -> Trade]
        /\ order' = [order EXCEPT ![x] = new]
        /\ UNCHANGED <<balance, returned, received>>
    BY DEF PayLink, Payable, MoneyInvariant, TimeInvariant, Typed, TypeOK, money
  <1>2. /\ SameValue(order[x], new) /\ order[x] \in OrderRow
        /\ new.status = order[x].status /\ new.refund = order[x].refund
    <2>1. order[x] \in OrderRow /\ "EPAY" \in Provider
      BY <1>1, SoldFacts DEF Provider
    <2>2. new.status = order[x].status /\ new.refund = order[x].refund
      BY <2>1 DEF OrderRow
    <2> QED BY <2>1, <2>2, SameValues
  <1> HIDE DEF new
  <1>3. \A q \in Order : /\ q # x => gateway'[q] = gateway[q]
                         /\ gateway'[q].refund = gateway[q].refund
                         /\ gateway'[q].acked = gateway[q].acked
                         /\ gateway'[q].trade = "paid" => gateway[q].trade = "paid"
    <2>1. gateway' = [gateway EXCEPT ![x].trade = IF @ = "none" THEN "open" ELSE @]
      BY DEF PayLink
    <2> QED BY <1>1, <2>1 DEF Trade
  <1>4. QuietMoney
    <2>1. Busy(x)
      BY <1>1 DEF Busy
    <2> QED BY <1>1, <1>2, <1>3, <2>1, OneRowUnmoved
  <1>5. RefundsTracked'
    <2>1. order \in [Order -> OrderRow]
      BY <1>1 DEF TimeInvariant, Typed, TypeOK
    <2>2. \A q \in Order : order'[q].status = order[q].status /\ order'[q].refund = order[q].refund
      BY <1>1, <1>2, <2>1
    <2> QED BY <1>1, <1>3, <2>2 DEF MoneyInvariant, RefundsTracked, RefundTracked, Order
  <1>6. \A q \in Order : /\ Unanswered(q)' => Unanswered(q)
                         /\ gateway[q].refund = "done" => gateway'[q].refund = "done"
    BY <1>3 DEF Unanswered
  <1> QED BY <1>1, <1>4, <1>5, <1>6, QuietKeepsMoney

\* Requests and answers about a refund: the refund column of a live order.
LEMMA RefundColumnKeepsMoney ==
    ASSUME MoneyInvariant, TimeInvariant', NEW x \in placed, NEW v \in RefundStatus,
           order' = [order EXCEPT ![x].refund = v], placed' = placed,
           ~Unsold(order[x]),
           UNCHANGED <<balance, returned, received>>,
           \A q \in Order : /\ q # x => gateway'[q] = gateway[q]
                            /\ gateway'[q].trade = gateway[q].trade
                            /\ gateway'[q].acked = gateway[q].acked,
           v = "PROCESSING" \/ (order[x].refund # "PROCESSING" /\ gateway' = gateway),
           gateway[x].refund = "done" => gateway'[x].refund = "done"
    PROVE  MoneyInvariant'
  <1> DEFINE new == [order[x] EXCEPT !.refund = v]
  <1>1. /\ order' = [order EXCEPT ![x] = new] /\ order[x] \in OrderRow
        /\ TimeInvariant /\ order \in [Order -> OrderRow] /\ x \in Order
    BY SoldFacts DEF MoneyInvariant, TimeInvariant, Typed, TypeOK
  <1>2. /\ SameValue(order[x], new)
        /\ new.status = order[x].status /\ new.refund = v
    <2>1. new.status = order[x].status /\ new.refund = v
      BY <1>1 DEF OrderRow
    <2> QED BY <1>1, <2>1, SameValues
  <1> HIDE DEF new
  <1>3. QuietMoney
    BY <1>1, <1>2, OneRowUnmoved
  <1>4. RefundsTracked'
    <2> SUFFICES ASSUME NEW q \in Order PROVE RefundTracked(q)'
      BY DEF RefundsTracked, Order
    <2>1. RefundTracked(q)
      BY DEF MoneyInvariant, RefundsTracked
    <2>2. CASE q # x
      <3>1. order'[q] = order[q] /\ gateway'[q] = gateway[q]
        BY <1>1, <2>2
      <3> QED BY <2>1, <3>1 DEF RefundTracked
    <2>3. CASE q = x
      <3>1. order'[q].status = order[q].status /\ order'[q].refund = v
        BY <1>1, <1>2, <2>3
      <3> QED BY <2>1, <2>3, <3>1 DEF RefundTracked
    <2> QED BY <2>2, <2>3
  <1>5. \A q \in Order : /\ Unanswered(q)' => Unanswered(q)
                         /\ gateway[q].refund = "done" => gateway'[q].refund = "done"
    BY DEF Unanswered
  <1> QED BY <1>1, <1>3, <1>4, <1>5, QuietKeepsMoney

LEMMA RefundRequestsKeepMoney ==
    ASSUME MoneyInvariant, TimeInvariant', NEW x \in Order,
           RequestRefund(x) \/ RejectRefund(x) \/ ApproveOriginalRefund(x)
    PROVE  MoneyInvariant'
  <1>1. /\ TimeInvariant /\ gateway \in [Order -> Trade] /\ x \in placed
        /\ placed' = placed /\ UNCHANGED <<balance, returned, received>>
    BY DEF MoneyInvariant, TimeInvariant, Typed, TypeOK, RequestRefund, RejectRefund,
           ApproveOriginalRefund, Refundable, AdminMayRefund, outside, money
  <1>2. order[x] \in OrderRow /\ RowAgrees(order[x])
    BY <1>1, SoldFacts
  <1>3. ~Unsold(order[x])
    <2>1. Live(order[x]) \/ order[x].refund = "PENDING"
      BY DEF RequestRefund, RejectRefund, ApproveOriginalRefund, AdminMayRefund, Refundable
    <2>2. Live(order[x]) => ~Unsold(order[x])
      BY <1>2, Kinds
    <2> QED BY <1>2, <2>1, <2>2 DEF RowAgrees
  <1>4. CASE RequestRefund(x)
    <2>1. /\ order' = [order EXCEPT ![x].refund = "PENDING"] /\ gateway' = gateway
          /\ order[x].refund # "PROCESSING" /\ "PENDING" \in RefundStatus
      BY <1>4 DEF RequestRefund, Requestable, outside, RefundStatus
    <2> QED BY <1>1, <1>3, <2>1, RefundColumnKeepsMoney
  <1>5. CASE RejectRefund(x)
    <2>1. /\ order' = [order EXCEPT ![x].refund = "REJECTED"] /\ gateway' = gateway
          /\ order[x].refund # "PROCESSING" /\ "REJECTED" \in RefundStatus
      BY <1>5 DEF RejectRefund, outside, RefundStatus
    <2> QED BY <1>1, <1>3, <2>1, RefundColumnKeepsMoney
  <1>6. CASE ApproveOriginalRefund(x)
    <2>1. /\ order' = [order EXCEPT ![x].refund = "PROCESSING"]
          /\ "PROCESSING" \in RefundStatus
      BY <1>6 DEF ApproveOriginalRefund, RefundStatus
    <2>2. /\ \A q \in Order : /\ q # x => gateway'[q] = gateway[q]
                              /\ gateway'[q].trade = gateway[q].trade
                              /\ gateway'[q].acked = gateway[q].acked
          /\ gateway[x].refund = "done" => gateway'[x].refund = "done"
      <3>1. CASE /\ GatewayAccepts(x)
                 /\ gateway' = [gateway EXCEPT ![x].refund = "accepted", ![x].known = TRUE]
        BY <1>1, <3>1 DEF GatewayAccepts, Trade
      <3>2. CASE gateway' = [gateway EXCEPT ![x].refund = IF @ = "none" THEN "refused" ELSE @]
        BY <1>1, <3>2 DEF Trade
      <3> QED BY <1>6, <3>1, <3>2 DEF ApproveOriginalRefund
    <2> QED BY <1>1, <1>3, <2>1, <2>2, RefundColumnKeepsMoney
  <1> QED BY <1>4, <1>5, <1>6

LEMMA EndUnpaidKeepsMoney ==
    ASSUME MoneyInvariant, TimeInvariant', NEW S \in SUBSET placed,
           NEW status \in {"CANCELED", "TIMEOUT"}, EndUnpaid(S, status),
           \A o \in S : order[o].status = "CREATED"
    PROVE  MoneyInvariant'
  <1>1. /\ TimeInvariant /\ \A q \in placed : q \in Order /\ order[q] \in OrderRow
        /\ gateway \in [Order -> Trade] /\ order \in [Order -> OrderRow]
        /\ \A q \in placed : RowAgrees(order[q])
    BY SoldFacts DEF MoneyInvariant, TimeInvariant, Typed, TypeOK
  <1>2. /\ UNCHANGED <<placed, balance, returned, received>>
        /\ \A q \in Order : order'[q] = IF q \in S THEN [order[q] EXCEPT !.status = status]
                                        ELSE order[q]
    BY DEF EndUnpaid, money
  <1>3. \A q \in Order : /\ gateway'[q].acked = gateway[q].acked
                         /\ gateway'[q].refund = gateway[q].refund
                         /\ gateway'[q].trade \in {gateway[q].trade, "closed"}
    BY <1>1 DEF EndUnpaid, Trade
  <1>4. ASSUME NEW q \in Order
        PROVE  /\ order'[q].payable = order[q].payable
               /\ order'[q].refund = order[q].refund
               /\ q \in placed => SameValue(order[q], order'[q])
               /\ order'[q].status = "CREATED" => order[q].status = "CREATED"
               /\ order[q].status = "REFUNDED" => order'[q].status = "REFUNDED"
    <2>1. order[q] \in OrderRow
      BY <1>1
    <2>2. CASE q \in S
      <3> DEFINE new == [order[q] EXCEPT !.status = status]
      <3>1. order'[q] = new /\ order[q].status = "CREATED"
        BY <1>2, <2>2
      <3>2. /\ new.payable = order[q].payable /\ new.refund = order[q].refund
            /\ new.status = status
        BY <2>1 DEF OrderRow
      <3>3. SameValue(order[q], new)
        <4>1. \A v \in {"CREATED", "CANCELED", "TIMEOUT"} :
                 Unsold(order[q]) => SameValue(order[q], [order[q] EXCEPT !.status = v])
          BY <2>1, SameValues
        <4> QED BY <3>1, <4>1 DEF Unsold
      <3> HIDE DEF new
      <3> QED BY <3>1, <3>2, <3>3
    <2>3. CASE q \notin S
      <3>1. order'[q] = order[q] /\ SameValue(order[q], order[q])
        BY <1>2, <2>1, <2>3, SameValues
      <3> QED BY <3>1
    <2> QED BY <2>2, <2>3
  <1>5. \A q \in Order : Busy(q)' => Busy(q)
    BY <1>2, <1>3, <1>4 DEF Busy
  <1>6. QuietMoney
    BY <1>1, <1>2, <1>4, <1>5 DEF QuietMoney, Unmoved
  <1>7. RefundsTracked'
    BY <1>2, <1>3, <1>4 DEF MoneyInvariant, RefundsTracked, RefundTracked, Order
  <1>8. \A q \in Order : /\ Unanswered(q)' => Unanswered(q)
                         /\ gateway[q].refund = "done" => gateway'[q].refund = "done"
    BY <1>3 DEF Unanswered
  <1> QED BY <1>2, <1>6, <1>7, <1>8, QuietKeepsMoney

LEMMA CleanupOrdersKeepsMoney ==
    ASSUME MoneyInvariant, TimeInvariant', NEW day, CleanupOrders(day)
    PROVE  MoneyInvariant'
  <1> DEFINE S == {o \in placed : order[o].status \in {"TIMEOUT", "CANCELED"}
                                  /\ order[o].created < day}
  <1>1. RemoveOrders(S)
    BY DEF CleanupOrders
  <1>2. S \subseteq placed /\ \A o \in S : Unsold(order[o])
    BY DEF Unsold
  <1> HIDE DEF S
  <1>3. /\ TimeInvariant /\ \A q \in placed : q \in Order /\ order[q] \in OrderRow
        /\ order \in [Order -> OrderRow]
        /\ \A q \in placed : RowAgrees(order[q])
    BY SoldFacts DEF MoneyInvariant, TimeInvariant, Typed, TypeOK
  <1>4. /\ UNCHANGED <<gateway, balance, received, returned>> /\ placed' = placed \ S
        /\ \A o \in Order \ S : order'[o] = Detached(o, S)
        /\ \A o \in S : order'[o] = [BlankOrder EXCEPT !.payable = order[o].payable]
    BY <1>1, <1>2, <1>3 DEF RemoveOrders, outside, money
  <1>5. ASSUME NEW q \in Order \ S
        PROVE  /\ SameValue(order[q], order'[q])
               /\ order'[q].payable = order[q].payable
               /\ order'[q].status = order[q].status /\ order'[q].refund = order[q].refund
    <2>1. order[q] \in OrderRow /\ order'[q] = Detached(q, S)
      BY <1>3, <1>4
    <2> DEFINE new == Detached(q, S)
    <2>2. /\ new.payable = order[q].payable
          /\ new.status = order[q].status /\ new.refund = order[q].refund
      BY <2>1 DEF OrderRow, Detached
    <2>3. SameValue(order[q], new)
      <3>1. \A a, b, c : SameValue(order[q], [order[q] EXCEPT !.parent = a, !.superseded = b, !.chain = c])
        BY <2>1, SameValues
      <3> QED BY <3>1 DEF Detached
    <2> HIDE DEF new
    <2> QED BY <2>1, <2>2, <2>3 DEF new
  <1>6. \A q \in S : order'[q].payable = order[q].payable
    <2>1. \A p : [BlankOrder EXCEPT !.payable = p].payable = p
      BY DEF BlankOrder
    <2> QED BY <1>4, <2>1
  <1>7. \A q \in Order : Busy(q)' => Busy(q)
    BY <1>4, <1>5 DEF Busy
  <1>8. QuietMoney
    BY <1>2, <1>3, <1>4, <1>5, <1>6, <1>7 DEF QuietMoney, Unmoved
  <1>9. RefundsTracked'
    <2> SUFFICES ASSUME NEW q \in Order PROVE RefundTracked(q)'
      BY DEF RefundsTracked, Order
    <2>1. RefundTracked(q)
      BY DEF MoneyInvariant, RefundsTracked
    <2>2. CASE q \in S
      <3>1. order[q].refund # "PROCESSING" /\ order[q].status # "REFUNDED"
        <4>1. RowAgrees(order[q]) /\ Unsold(order[q])
          BY <1>2, <1>3, <2>2
        <4> QED BY <4>1 DEF RowAgrees, Unsold
      <3> QED BY <1>4, <2>1, <3>1 DEF RefundTracked
    <2>3. CASE q \notin S
      BY <1>4, <1>5, <2>1, <2>3 DEF RefundTracked
    <2> QED BY <2>2, <2>3
  <1>10. \A q \in Order : /\ Unanswered(q)' => Unanswered(q)
                          /\ gateway[q].refund = "done" => gateway'[q].refund = "done"
    BY <1>4 DEF Unanswered
  <1> QED BY <1>4, <1>8, <1>9, <1>10, QuietKeepsMoney

\* Steps that leave the orders, the gateway and the money alone.
LEMMA StillKeepsMoney ==
    ASSUME MoneyInvariant, TimeInvariant',
           UNCHANGED <<order, placed, gateway, balance, returned, received>>
    PROVE  MoneyInvariant'
  <1>1. TimeInvariant
    BY DEF MoneyInvariant
  <1>2. QuietMoney
    <2>1. \A q \in placed : SameValue(order[q], order[q])
      BY <1>1, SoldFacts, SameValues
    <2>2. \A q \in Order : Busy(q)' => Busy(q)
      BY DEF Busy
    <2> QED BY <2>1, <2>2 DEF QuietMoney, Unmoved
  <1>3. RefundsTracked'
    BY DEF MoneyInvariant, RefundsTracked, RefundTracked, Order
  <1>4. \A q \in Order : /\ Unanswered(q)' => Unanswered(q)
                         /\ gateway[q].refund = "done" => gateway'[q].refund = "done"
    BY DEF Unanswered
  <1> QED BY <1>2, <1>3, <1>4, QuietKeepsMoney

LEMMA ClockKeepsMoney ==
    ASSUME MoneyInvariant, TimeInvariant',
           ExpireDue \/ CleanupExpired \/ Tick \/ UNCHANGED vars
    PROVE  MoneyInvariant'
  <1>1. UNCHANGED <<order, placed, gateway, balance, returned, received>>
    BY DEF ExpireDue, CleanupExpired, Tick, vars, outside, money
  <1> QED BY <1>1, StillKeepsMoney

-----------------------------------------------------------------------------
(* Money that the gateway takes and pays back.                             *)

LEMMA GatewayPayKeepsMoney ==
    ASSUME MoneyInvariant, TimeInvariant', NEW x \in Order, GatewayPay(x)
    PROVE  MoneyInvariant'
  <1>1. /\ TimeInvariant /\ Typed /\ Typed' /\ Funded /\ gateway \in [Order -> Trade]
        /\ PricesHold /\ RefundsTracked
    BY DEF MoneyInvariant, TimeInvariant, Typed, TypeOK
  <1>2. /\ UNCHANGED <<order, placed, balance, returned>>
        /\ gateway[x].trade = "open" /\ gateway'[x].trade = "paid"
        /\ \A q \in Order : /\ q # x => gateway'[q] = gateway[q]
                            /\ gateway'[q].acked = gateway[q].acked
                            /\ gateway'[q].refund = gateway[q].refund
        /\ received' = received + order[x].payable
    BY <1>1 DEF GatewayPay, Trade, money
  <1>3. QuietMoney
    <2>1. Busy(x)
      BY <1>2 DEF Busy
    <2>2. \A q \in Order : Busy(q)' => Busy(q)
      BY <1>2, <2>1 DEF Busy
    <2>3. \A q \in placed : SameValue(order[q], order[q])
      BY <1>1, SoldFacts, SameValues
    <2> QED BY <1>2, <2>2, <2>3 DEF QuietMoney, Unmoved
  <1>4. PricesHold'
    BY <1>1, <1>3, QuietKeepsPrices
  <1>5. RefundsTracked'
    BY <1>1, <1>2 DEF RefundsTracked, RefundTracked, Order
  <1>6. \A q \in Order \ {x} : Due(q)' <= Due(q)
    <2> SUFFICES ASSUME NEW q \in Order \ {x} PROVE Due(q)' <= Due(q)
      OBVIOUS
    <2>1. Unmoved(q) /\ (Unanswered(q)' => Unanswered(q)) /\ gateway'[q] = gateway[q]
      BY <1>2, <1>3 DEF QuietMoney, Unanswered
    <2> QED BY <1>1, <2>1, QuietDue
  <1>7. Due(x)' <= Due(x) + order[x].payable
    <2> DEFINE a == IF x \in placed THEN Owed(x) ELSE 0
               p == order[x].payable
    <2>1. Due(x) = a + 0 /\ p \in Nat /\ a \in Nat
      BY <1>1, <1>2, OwedIs, DuesAreNat DEF Due, Unanswered
    <2>2. Owed(x)' = Owed(x)
      BY <1>2 DEF Owed
    <2>3. Due(x)' = a + (IF Unanswered(x)' THEN p ELSE 0)
      BY <1>2, <2>2 DEF Due
    <2> HIDE DEF a, p
    <2>4. Due(x)' <= a + p /\ Due(x) = a
      BY <2>1, <2>3
    <2> QED BY <2>4 DEF p
  <1>8. balance' + returned' + Due(x)' + received <= balance + returned + Due(x) + received'
    <2> DEFINE d == Due(x)
               e == Due(x)'
               p == order[x].payable
    <2>1. /\ balance \in Nat /\ returned \in Nat /\ received \in Nat /\ p \in Nat
          /\ d \in Nat /\ e \in Nat /\ e <= d + p
      BY <1>1, <1>7, DuesAreNat, DuesAreNatNext DEF Typed, TypeOK, Order
    <2>2. balance' = balance /\ returned' = returned /\ received' = received + p
      BY <1>2
    <2> HIDE DEF d, e, p
    <2>3. balance' + returned' + e + received <= balance + returned + d + received'
      BY <2>1, <2>2
    <2> QED BY <2>3 DEF d, e
  <1>9. Funded'
    BY <1>1, <1>6, <1>8, FundsMove
  <1> QED BY <1>4, <1>5, <1>9 DEF MoneyInvariant

\* The gateway pays an order back only while the order waits for that.
LEMMA GatewaySettleKeepsMoney ==
    ASSUME MoneyInvariant, TimeInvariant', NEW x \in Order, GatewaySettle(x)
    PROVE  MoneyInvariant'
  <1>1. /\ TimeInvariant /\ Typed /\ Typed' /\ Funded /\ gateway \in [Order -> Trade]
        /\ PricesHold /\ RefundsTracked
    BY DEF MoneyInvariant, TimeInvariant, Typed, TypeOK
  <1>2. /\ UNCHANGED <<order, placed, balance, received>>
        /\ gateway[x].refund = "accepted" /\ gateway'[x].refund = "done"
        /\ \A q \in Order : /\ q # x => gateway'[q] = gateway[q]
                            /\ gateway'[q].acked = gateway[q].acked
                            /\ gateway'[q].trade = gateway[q].trade
        /\ returned' = returned + order[x].payable
    BY <1>1 DEF GatewaySettle, Trade, money
  <1>3. QuietMoney
    <2>1. \A q \in Order : Busy(q)' => Busy(q)
      BY <1>2 DEF Busy
    <2>2. \A q \in placed : SameValue(order[q], order[q])
      BY <1>1, SoldFacts, SameValues
    <2> QED BY <1>2, <2>1, <2>2 DEF QuietMoney, Unmoved
  <1>4. PricesHold'
    BY <1>1, <1>3, QuietKeepsPrices
  <1>5. x \in placed /\ order[x].refund = "PROCESSING"
    BY <1>1, <1>2 DEF RefundsTracked, RefundTracked
  <1>6. Live(order[x]) /\ order[x].settlement = "OPEN" /\ order[x].kind = "PLAN"
    <2>1. RowAgrees(order[x]) /\ order[x] \in OrderRow
      BY <1>1, <1>5, SoldFacts
    <2> QED BY <1>5, <2>1 DEF RowAgrees, OrderRow
  <1>7. RefundsTracked'
    BY <1>1, <1>2, <1>5 DEF RefundsTracked, RefundTracked, Order
  <1>8. \A q \in Order \ {x} : Due(q)' <= Due(q)
    <2> SUFFICES ASSUME NEW q \in Order \ {x} PROVE Due(q)' <= Due(q)
      OBVIOUS
    <2>1. Unmoved(q) /\ (Unanswered(q)' => Unanswered(q)) /\ gateway'[q] = gateway[q]
      BY <1>2, <1>3 DEF QuietMoney, Unanswered
    <2> QED BY <1>1, <2>1, QuietDue
  <1>9. balance' + returned' + Due(x)' + received <= balance + returned + Due(x) + received'
    <2> DEFINE c == CreditPart(order[x])
               p == order[x].payable
               b == IF Unanswered(x) THEN p ELSE 0
               d == Due(x)
               e == Due(x)'
    <2>1. /\ c \in Nat /\ p \in Nat /\ Owed(x) = p + c
      BY <1>1, <1>2, <1>5, <1>6, OwedIs
    <2>2. Owed(x)' = c
      <3>1. Owed(x)' = IF Live(order'[x]) /\ order'[x].kind = "PLAN"
                          /\ order'[x].settlement # "CONSUMED"
                       THEN IF gateway'[x].refund = "done" THEN CreditPart(order'[x])
                            ELSE order'[x].payable + CreditPart(order'[x])
                       ELSE 0
        BY <1>1, <1>2, <1>5, OwedIsNext
      <3> QED BY <1>2, <1>6, <3>1
    <2>3. d = Owed(x) + b
      BY <1>5 DEF Due
    <2>4. e = Owed(x)' + b
      BY <1>2, <1>5 DEF Due, Unanswered
    <2>5. b \in Nat
      BY <2>1
    <2>6. /\ balance \in Nat /\ returned \in Nat /\ received \in Nat
          /\ balance' = balance /\ received' = received /\ returned' = returned + p
      BY <1>1, <1>2 DEF Typed, TypeOK
    <2> HIDE DEF b, c, d, e, p
    <2>7. balance' + returned' + e + received <= balance + returned + d + received'
      BY <2>1, <2>2, <2>3, <2>4, <2>5, <2>6
    <2> QED BY <2>7 DEF d, e
  <1>10. Funded'
    BY <1>1, <1>8, <1>9, FundsMove
  <1> QED BY <1>4, <1>7, <1>10 DEF MoneyInvariant

-----------------------------------------------------------------------------
(* Placing an order: its credit is covered.                                *)

\* What is at most the sum of its own part, for parts that share nothing.
LEMMA SumOverParts ==
    ASSUME NEW T, IsFiniteSet(T), NEW B, IsFiniteSet(B), NEW part \in [T -> SUBSET B],
           \A s, t \in T : s # t => part[s] \cap part[t] = {},
           NEW f, \A y \in B : f[y] \in Nat,
           NEW c, \A s \in T : c[s] \in Nat /\ c[s] <= Sum(f, part[s])
    PROVE  Sum(c, T) <= Sum(f, UNION {part[s] : s \in T})
<1> DEFINE All(U) == UNION {part[s] : s \in U}
           M == {U \in SUBSET T : ~(Sum(c, U) <= Sum(f, All(U)))}
<1>1. SUFFICES ASSUME M # {} PROVE FALSE
    OBVIOUS
<1>2. M \subseteq SUBSET T
    OBVIOUS
<1>3. PICK D \in M : \A U \in M : U \subseteq D => U = D
    <2> HIDE DEF M
    <2> QED BY <1>1, <1>2, LeastSubset
<1>4. \A U \in SUBSET T : IsFiniteSet(U) /\ Sum(c, U) \in Nat
    BY FS_Subset, SumIsNat
<1>5. \A U \in SUBSET B : IsFiniteSet(U) /\ Sum(f, U) \in Nat
    BY FS_Subset, SumIsNat
<1>6. \A U \in SUBSET T : All(U) \in SUBSET B
    OBVIOUS
<1>7. D \in SUBSET T /\ ~(Sum(c, D) <= Sum(f, All(D)))
    OBVIOUS
<1>8. PICK y \in D : TRUE
    <2> SUFFICES ASSUME D = {} PROVE FALSE
        OBVIOUS
    <2>1. All({}) = {}
        OBVIOUS
    <2>2. Sum(c, D) = 0 /\ Sum(f, All(D)) = 0
        BY <2>1, SumOfNone
    <2> QED BY <1>7, <2>2
<1> DEFINE U == D \ {y}
<1>9. U \in SUBSET T /\ Sum(c, U) <= Sum(f, All(U))
    BY <1>3, <1>8
<1>10. Sum(c, D) = c[y] + Sum(c, U)
    BY <1>4, <1>7, <1>8, SumSplits
<1>11. /\ All(D) \in SUBSET B /\ part[y] \in SUBSET All(D) /\ All(D) \ part[y] = All(U)
    <2>1. part[y] \in SUBSET All(D) /\ All(D) \in SUBSET B
        BY <1>6, <1>7, <1>8
    <2>2. \A z \in All(D) \ part[y] : z \in All(U)
        OBVIOUS
    <2>3. \A z \in All(U) : z \in All(D) /\ z \notin part[y]
        <3> SUFFICES ASSUME NEW s \in U, NEW z \in part[s]
                     PROVE  z \in All(D) /\ z \notin part[y]
            OBVIOUS
        <3>1. s # y /\ s \in T /\ y \in T
            BY <1>7, <1>8
        <3> QED BY <3>1
    <2> QED BY <2>1, <2>2, <2>3
<1> DEFINE A == All(D)
           P == part[y]
           R == All(U)
<1>12. A \in SUBSET B /\ P \in SUBSET A /\ A \ P = R /\ ~(Sum(c, D) <= Sum(f, A))
       /\ Sum(c, U) <= Sum(f, R)
    BY <1>7, <1>9, <1>11
<1>13. c[y] \in Nat /\ c[y] <= Sum(f, P) /\ y \in T
    BY <1>7, <1>8
<1> HIDE DEF A, P, R, All, M
<1>14. Sum(f, A) = Sum(f, P) + Sum(f, R)
    <2>1. IsFiniteSet(A) /\ \A z \in A : f[z] \in Nat
        BY <1>5, <1>12
    <2>2. Sum(f, A) = Sum(f, P) + Sum(f, A \ P)
        BY <1>12, <2>1, SumOfParts
    <2> QED BY <1>12, <2>2
<1>15. Sum(f, P) \in Nat /\ Sum(f, R) \in Nat /\ Sum(c, U) \in Nat
    BY <1>4, <1>5, <1>9, <1>12
<1> HIDE DEF U
<1>16. c[y] + Sum(c, U) <= Sum(f, P) + Sum(f, R)
    BY <1>12, <1>13, <1>15
<1> QED BY <1>10, <1>12, <1>14, <1>16

\* What the preview credits is no more than what the orders cost that an upgrade will consume.
LEMMA CreditIsCovered ==
    ASSUME TimeInvariant
    PROVE  TotalCredit <= Sum(Bases, Held(Running))
  <1> DEFINE part == [s \in Running |-> LiveOrdersOf(s)]
  <1>1. Typed /\ placed \subseteq Order /\ Running \subseteq Sub /\ Running \subseteq subs
    BY IdSets DEF TimeInvariant, Running
  <1>2. IsFiniteSet(Running) /\ IsFiniteSet(Order)
    BY <1>1, IdsAreFinite
  <1>3. part \in [Running -> SUBSET Order]
    BY <1>1 DEF LiveOrdersOf
  <1>4. \A s, t \in Running : s # t => part[s] \cap part[t] = {}
    BY DEF LiveOrdersOf
  <1>5. \A q \in Order : Bases[q] \in Nat
    BY <1>1, OrderColumnsRead DEF Bases, Typed, TypeOK
  <1>6. ASSUME NEW s \in Running
        PROVE  Credits[s] \in Nat /\ Credits[s] <= Sum(Bases, part[s])
    <2>1. LiveOrdersOf(s) # {}
      BY ActiveIsHeld DEF Holds, LiveOrdersOf
    <2>2. OriginalAmount(s) = Sum(Bases, LiveOrdersOf(s))
      BY <1>1, <2>1, OriginalAmountIsSum
    <2>3. RemainingCredit(s) \in Nat /\ RemainingCredit(s) <= OriginalAmount(s)
      BY <1>1, RemainingCreditIsNat
    <2>4. Credits[s] = RemainingCredit(s)
      BY <1>1 DEF Credits
    <2> QED BY <2>2, <2>3, <2>4
  <1>7. UNION {part[s] : s \in Running} = Held(Running)
    <2>1. ASSUME NEW s \in Running, NEW q \in LiveOrdersOf(s)
          PROVE  q \in Held(Running)
      <3>1. q \in placed /\ order[q].sub = s /\ Live(order[q]) /\ s \in subs /\ sub[s].status = "ACTIVE"
        BY DEF LiveOrdersOf, Running
      <3>2. order[q].kind = "PLAN" /\ s # None
        BY <3>1, SoldFacts
      <3>3. PICK r \in placed : Holds(order[r]) /\ order[r].sub = s
        BY ActiveIsHeld
      <3>4. order[q].settlement = order[r].settlement
        BY <3>1, <3>2, <3>3 DEF TimeInvariant, OrdersShare, Holds
      <3> QED BY <3>1, <3>2, <3>3, <3>4 DEF Held, Holds
    <2>2. ASSUME NEW q \in Held(Running)
          PROVE  order[q].sub \in Running /\ q \in LiveOrdersOf(order[q].sub)
      BY DEF Held, Holds, LiveOrdersOf
    <2> QED BY <2>1, <2>2
  <1>8. Sum(Credits, Running) <= Sum(Bases, UNION {part[s] : s \in Running})
    <2> HIDE DEF part
    <2> QED BY <1>2, <1>3, <1>4, <1>5, <1>6, SumOverParts
  <1> QED BY <1>1, <1>7, <1>8, TotalCreditIsSum

LEMMA PlacedKeepsMoney ==
    ASSUME MoneyInvariant, TimeInvariant', Idle,
           NEW o \in Order, o \notin placed, placed' = placed \cup {o},
           NEW row, Fresh(row), Priced(row), order' = [order EXCEPT ![o] = row],
           row.action \in Consuming => row.credit <= Sum(Bases, Held(row.sources)),
           UNCHANGED <<gateway, balance, received, returned>>
    PROVE  MoneyInvariant'
  <1>1. /\ TimeInvariant /\ Typed /\ Typed' /\ Funded /\ PricesHold /\ RefundsTracked
        /\ order \in [Order -> OrderRow] /\ placed \subseteq Order
    BY IdSets DEF MoneyInvariant, TimeInvariant, Typed, TypeOK
  <1>2. order'[o] = row /\ \A q \in Order \ {o} : order'[q] = order[q] /\ (q \in placed' <=> q \in placed)
    BY <1>1
  <1>3. ~Live(row) /\ Unsold(row)
    BY Kinds DEF Fresh
  <1>4. \A q \in Order : ~Busy(q)
    BY IdleIsNoneBusy
  <1>5. \A q \in Order \ {o} : ~Busy(q)'
    BY <1>2, <1>4 DEF Busy
  <1>6. \A S : Sum(Bases', Held(S)') = Sum(Bases, Held(S))
    <2> TAKE S
    <2> DEFINE g == Bases'
    <2>1. Held(S)' = Held(S)
      BY <1>1, <1>2, <1>3 DEF Held, Holds
    <2>2. Held(S) \subseteq Order \ {o} /\ IsFiniteSet(Held(S))
      BY <1>1, IdsAreFinite DEF Held
    <2>3. \A q \in Held(S) : g[q] = Bases[q]
      <3>1. \A q \in Order : g[q] = order'[q].base /\ Bases[q] = order[q].base
        BY DEF Bases, Order
      <3> QED BY <1>2, <2>2, <3>1
    <2> HIDE DEF g
    <2>4. Sum(g, Held(S)) = Sum(Bases, Held(S))
      BY <2>2, <2>3, SumOfSame
    <2> QED BY <2>1, <2>4 DEF g
  <1>7. PricesHold'
    <2> SUFFICES ASSUME NEW q \in placed' PROVE Priced(order'[q]) /\ Backed(q)'
      BY DEF PricesHold
    <2>1. CASE q = o
      <3>1. PICK S : S = row.sources
        OBVIOUS
      <3>2. row.action \in Consuming => row.credit <= Sum(Bases', Held(S)')
        BY <1>6, <3>1
      <3> QED BY <1>2, <2>1, <3>1, <3>2 DEF Backed
    <2>2. CASE q # o
      <3>1. q \in Order \ {o} /\ q \in placed
        BY <1>1, <2>2
      <3>2. order'[q] = order[q] /\ ~Busy(q)' /\ Priced(order[q])
        BY <1>1, <1>2, <1>5, <3>1 DEF PricesHold
      <3> QED BY <3>2 DEF Backed
    <2> QED BY <2>1, <2>2
  <1>8. RefundsTracked'
    <2> SUFFICES ASSUME NEW q \in Order PROVE RefundTracked(q)'
      BY DEF RefundsTracked, Order
    <2>1. RefundTracked(q)
      BY <1>1 DEF RefundsTracked
    <2>2. CASE q = o
      BY <2>1, <2>2 DEF RefundTracked
    <2>3. CASE q # o
      BY <1>2, <2>1, <2>3 DEF RefundTracked
    <2> QED BY <2>2, <2>3
  <1>9. \A q \in Order : Due(q)' <= Due(q)
    <2> SUFFICES ASSUME NEW q \in Order PROVE Due(q)' <= Due(q)
      OBVIOUS
    <2>1. ~Unanswered(q) /\ ~Unanswered(q)'
      BY <1>4 DEF Unanswered, Busy
    <2>2. CASE q = o
      <3>1. Owed(o)' = 0
        BY <1>2, <1>3 DEF Owed
      <3>2. Due(q)' = 0 + 0
        BY <2>1, <2>2, <3>1 DEF Due
      <3>3. Due(q) \in Nat
        BY <1>1, DuesAreNat
      <3> QED BY <3>2, <3>3
    <2>3. CASE q # o
      <3>1. order'[q] = order[q] /\ (q \in placed' <=> q \in placed)
        BY <1>2, <2>3
      <3>2. Due(q)' = Due(q) /\ Due(q) \in Nat
        BY <1>1, <2>1, <3>1, DuesAreNat DEF Due, Owed
      <3> QED BY <3>2
    <2> QED BY <2>2, <2>3
  <1>10. Funded'
    BY <1>1, <1>9, FundsStay
  <1> QED BY <1>7, <1>8, <1>10 DEF MoneyInvariant

\* The price of an order that the preview asks for.
LEMMA NewOrderIsPriced ==
    ASSUME TimeInvariant, NEW o \in Order, NEW p \in Plan, NEW c \in Cycle,
           Preview(p, c).action # "BLOCKED", NEW parent
    PROVE  LET row == NewOrder(o, p, c, Preview(p, c), parent)
           IN  /\ Priced(row)
               /\ row.action \in Consuming => row.credit <= Sum(Bases, Held(row.sources))
  <1> DEFINE view == Preview(p, c)
             row == NewOrder(o, p, c, view, parent)
  <1>1. Typed
    BY DEF TimeInvariant
  <1>2. /\ view.action \in Consuming => view.sources = Running /\ view.credit = TotalCredit
        /\ view.action \notin Consuming => view.credit = 0
        /\ view.base \in Nat /\ view.credit \in Nat
        /\ view.payable = IF view.base > view.credit THEN view.base - view.credit ELSE 0
        /\ view.carry = IF view.credit > view.base THEN view.credit - view.base ELSE 0
    BY <1>1, PreviewTyped
  <1>3. /\ row.action = view.action /\ row.sources = view.sources /\ row.credit = view.credit
        /\ row.base = view.base /\ row.payable = view.payable /\ row.carry = view.carry
    BY DEF NewOrder, BlankOrder
  <1> HIDE DEF row
  <1>4. row.payable + row.credit = row.base + row.carry
    <2> DEFINE b == view.base
               d == view.credit
    <2>1. /\ b \in Nat /\ d \in Nat /\ row.base = b /\ row.credit = d
          /\ row.payable = IF b > d THEN b - d ELSE 0
          /\ row.carry = IF d > b THEN d - b ELSE 0
      BY <1>2, <1>3
    <2> HIDE DEF b, d
    <2>2. CASE b > d
      BY <2>1, <2>2
    <2>3. CASE d > b
      BY <2>1, <2>3
    <2>4. CASE b = d
      BY <2>1, <2>4
    <2> QED BY <2>1, <2>2, <2>3, <2>4
  <1>5. row.action \in Consuming => row.credit <= Sum(Bases, Held(row.sources))
    BY <1>2, <1>3, CreditIsCovered
  <1>6. Priced(row)
    BY <1>2, <1>3, <1>4 DEF Priced
  <1> QED BY <1>5, <1>6 DEF row

-----------------------------------------------------------------------------
(* Sales: what is paid for an order, in money and in the value of those    *)
(* that it consumes.                                                       *)

SamePrice(row, new) ==
    /\ new.kind = row.kind /\ new.action = row.action
    /\ new.base = row.base /\ new.credit = row.credit
    /\ new.payable = row.payable /\ new.carry = row.carry

LEMMA SamePrices ==
    ASSUME NEW row \in OrderRow
    PROVE  /\ SamePrice(row, row)
           /\ \A v \in Provider : SamePrice(row, [row EXCEPT !.provider = v])
           /\ \A a, b, c, d : SamePrice(row, [row EXCEPT !.status = a, !.paidOn = b,
                                                        !.sub = c, !.settlement = d])
           /\ \A a, b, c : SamePrice(row, [row EXCEPT !.status = a, !.paidOn = b, !.settlement = c])
           /\ \A a, b, c : SamePrice(row, [row EXCEPT !.status = a, !.refund = b, !.settlement = c])
           /\ \A a, b : SamePrice(row, [row EXCEPT !.superseded = a, !.settlement = b])
  BY DEF OrderRow, SamePrice

LEMMA SalePrices ==
    ASSUME TimeInvariant, NEW o, NEW row, NEW bal, NEW led, Fulfils(o, row),
           FulfilPlan(o, row, bal, led)
    PROVE  /\ SamePrice(row, order'[o])
           /\ \A q \in Order \ {o} : /\ SamePrice(order[q], order'[q])
                                     /\ q \notin placed => order'[q] = order[q]
  <1> DEFINE target == IF Extends(row) THEN row.anchor ELSE granted + 1
             used == ConsumedBy(o, row)
             new == [row EXCEPT !.status = "COMPLETED", !.paidOn = now,
                                !.sub = target, !.settlement = Open(row)]
             over(q) == [order[q] EXCEPT
                           !.superseded = o,
                           !.settlement = IF @ = "REFUNDED" THEN @ ELSE "CONSUMED"]
  <1>1. /\ row \in OrderRow /\ o \in Order /\ order \in [Order -> OrderRow]
    BY DEF Fulfils, Fresh, TimeInvariant, Typed, TypeOK
  <1>2. /\ order'[o] = new /\ used \subseteq placed
        /\ \A q \in Order \ {o} : order'[q] = IF q \in used THEN over(q) ELSE order[q]
    BY <1>1 DEF FulfilPlan, ConsumedBy
  <1>3. SamePrice(row, new)
    <2>1. \A a, b, c, d : SamePrice(row, [row EXCEPT !.status = a, !.paidOn = b,
                                                    !.sub = c, !.settlement = d])
      BY <1>1, SamePrices
    <2> QED BY <2>1
  <1>4. \A q \in Order : SamePrice(order[q], over(q)) /\ SamePrice(order[q], order[q])
    <2> TAKE q \in Order
    <2>1. \A a, b : SamePrice(order[q], [order[q] EXCEPT !.superseded = a, !.settlement = b])
      BY <1>1, SamePrices
    <2>2. SamePrice(order[q], order[q])
      BY <1>1, SamePrices
    <2> QED BY <2>1, <2>2
  <1> HIDE DEF target, used, new, over
  <1> QED BY <1>2, <1>3, <1>4

\* Orders that hold value, with nothing of them pending, are worth their price.
LEMMA HeldIsDue ==
    ASSUME MoneyInvariant, Dearer, NEW q \in placed, Holds(order[q]), ~Busy(q)
    PROVE  order[q].base <= Due(q) /\ order[q].base \in Nat
  <1>1. /\ TimeInvariant /\ Typed /\ q \in Order /\ Priced(order[q]) /\ RefundTracked(q)
        /\ order[q].carry = 0
    BY SoldFacts DEF MoneyInvariant, TimeInvariant, PricesHold, RefundsTracked, Dearer
  <1>2. /\ order[q].refund # "PROCESSING" /\ order[q].status # "REFUNDED" /\ ~Unanswered(q)
        /\ Live(order[q]) /\ order[q].kind = "PLAN" /\ order[q].settlement = "OPEN"
    BY DEF Busy, Unanswered, Holds, Live
  <1>3. gateway[q].refund # "done"
    BY <1>1, <1>2 DEF RefundTracked
  <1> DEFINE p == order[q].payable
             c == order[q].credit
             b == order[q].base
             d == CreditPart(order[q])
  <1>4. /\ p \in Nat /\ b \in Nat /\ c \in Nat /\ d \in Nat /\ Owed(q) = p + d
    BY <1>1, <1>2, <1>3, OwedIs
  <1>5. p + c = b + 0 /\ (order[q].action \notin Consuming => c = 0)
    BY <1>1, <1>2 DEF Priced
  <1>6. d = IF order[q].action \in Consuming THEN c ELSE 0
    BY DEF CreditPart
  <1>7. Due(q) = Owed(q) + 0
    BY <1>2 DEF Due
  <1> HIDE DEF p, c, b, d
  <1>8. b <= Due(q)
    <2>1. d = c
      BY <1>5, <1>6
    <2> QED BY <1>4, <1>5, <1>7, <2>1
  <1> QED BY <1>4, <1>8 DEF b

LEMMA SaleKeepsMoney ==
    ASSUME MoneyInvariant, TimeInvariant', Dearer,
           NEW o, NEW row, NEW bal \in Nat, NEW led, Fulfils(o, row), FulfilPlan(o, row, bal, led),
           Priced(row), row.carry = 0,
           row.action \in Consuming => row.credit <= Sum(Bases, Held(row.sources)),
           UNCHANGED <<received, returned>>, gateway'[o].refund = gateway[o].refund,
           bal + (IF Unanswered(o)' THEN row.payable ELSE 0) + row.payable
              <= balance + (IF Unanswered(o) THEN order[o].payable ELSE 0)
    PROVE  MoneyInvariant'
  <1> DEFINE used == ConsumedBy(o, row)
             H == IF row.action \in Consuming THEN Held(row.sources) ELSE {}
  <1>1. /\ TimeInvariant /\ Typed /\ Typed' /\ Funded /\ PricesHold /\ RefundsTracked
        /\ placed \subseteq Order /\ o \in Order
        /\ \A q \in placed : order[q] \in OrderRow /\ RowAgrees(order[q])
    BY SoldFacts, IdSets DEF MoneyInvariant, TimeInvariant, Fulfils
  <1>2. PICK target : PlanSold(o, row, target, used)
    BY <1>1, FulfilSells
  <1>3. /\ SamePrice(row, order'[o])
        /\ \A q \in Order \ {o} : /\ SamePrice(order[q], order'[q])
                                  /\ q \notin placed => order'[q] = order[q]
    BY <1>1, SalePrices
  <1>4. /\ row \in OrderRow /\ Unsold(row) /\ (o \in placed => Unsold(order[o]))
        /\ placed' = placed \cup {o}
        /\ \A q \in Order \ {o} : ~Busy(q) /\ gateway'[q] = gateway[q]
        /\ row.kind = "PLAN" /\ balance' = bal + row.carry
    BY DEF Fulfils, Fresh, FulfilPlan
  <1> HIDE DEF used
  <1>5. \A q \in placed \ {o} : /\ order'[q].status = order[q].status
                                /\ order'[q].refund = order[q].refund
                                /\ order'[q].settlement =
                                     IF q \in used /\ order[q].settlement # "REFUNDED"
                                     THEN "CONSUMED" ELSE order[q].settlement
    BY <1>2 DEF PlanSold
  <1>6. \A q \in Order \ {o} : ~Busy(q)' /\ ~Unanswered(q)'
    <2> SUFFICES ASSUME NEW q \in Order \ {o} PROVE ~Busy(q)' /\ ~Unanswered(q)'
      OBVIOUS
    <2>1. ~Busy(q) /\ gateway'[q] = gateway[q] /\ (q \in placed' <=> q \in placed)
      BY <1>4
    <2>2. q \in placed => order'[q].status = order[q].status /\ order'[q].refund = order[q].refund
      BY <1>5
    <2> QED BY <2>1, <2>2 DEF Busy, Unanswered
  <1>7. PricesHold'
    <2> SUFFICES ASSUME NEW q \in placed' PROVE Priced(order'[q]) /\ Backed(q)'
      BY DEF PricesHold
    <2>1. CASE q = o
      <3>1. ~Unsold(order'[o])
        BY <1>2 DEF PlanSold, Unsold
      <3>2. Priced(order'[o])
        BY <1>3 DEF SamePrice, Priced
      <3> QED BY <2>1, <3>1, <3>2 DEF Backed
    <2>2. CASE q # o
      <3>1. q \in Order \ {o} /\ q \in placed
        BY <1>1, <1>4, <2>2
      <3>2. SamePrice(order[q], order'[q]) /\ Priced(order[q]) /\ ~Busy(q)'
        BY <1>1, <1>3, <1>6, <3>1 DEF PricesHold
      <3> QED BY <3>2 DEF Backed, Priced, SamePrice
    <2> QED BY <2>1, <2>2
  <1>8. RefundsTracked'
    <2> SUFFICES ASSUME NEW q \in Order PROVE RefundTracked(q)'
      BY DEF RefundsTracked, Order
    <2>1. RefundTracked(q)
      BY <1>1 DEF RefundsTracked
    <2>2. CASE q = o
      <3>1. o \in placed => order[o].refund # "PROCESSING" /\ order[o].status # "REFUNDED"
        BY <1>1, <1>4 DEF RowAgrees, Unsold
      <3>2. gateway[o].refund \notin {"accepted", "done"}
        BY <2>1, <2>2, <3>1 DEF RefundTracked
      <3> QED BY <2>2, <3>2 DEF RefundTracked
    <2>3. CASE q # o
      <3>1. gateway'[q] = gateway[q] /\ (q \in placed' <=> q \in placed)
        BY <1>4, <2>3
      <3>2. q \in placed => order'[q].status = order[q].status /\ order'[q].refund = order[q].refund
        BY <1>5, <2>3
      <3> QED BY <2>1, <3>1, <3>2 DEF RefundTracked
    <2> QED BY <2>2, <2>3
  <1>9. H \in SUBSET (Order \ {o}) /\ H \subseteq placed
        /\ \A q \in H : Holds(order[q]) /\ q \in used /\ ~Busy(q)
    <2> SUFFICES ASSUME NEW q \in H, row.action \in Consuming
                 PROVE  /\ q \in placed /\ q \in Order \ {o}
                        /\ Holds(order[q]) /\ q \in used /\ ~Busy(q)
      OBVIOUS
    <2>1. q \in placed /\ Holds(order[q]) /\ order[q].sub \in row.sources
      BY DEF Held
    <2>2. Live(order[q]) /\ order[q].kind = "PLAN" /\ Successful(order[q]) /\ ~Unsold(order[q])
      BY <1>1, <2>1, Kinds DEF Holds
    <2>3. q # o
      BY <1>4, <2>1, <2>2
    <2>4. q \in used
      BY <1>2, <2>1, <2>2, <2>3 DEF PlanSold
    <2> QED BY <1>1, <1>4, <2>1, <2>3, <2>4
  <1> HIDE DEF H
  <1>10. \A q \in H : Due(q)' = 0
    <2> SUFFICES ASSUME NEW q \in H PROVE Due(q)' = 0
      OBVIOUS
    <2>1. q \in placed \ {o} /\ q \in Order \ {o} /\ Holds(order[q]) /\ q \in used
      BY <1>9
    <2>2. order'[q].settlement = "CONSUMED"
      BY <1>5, <2>1 DEF Holds
    <2>3. Owed(q)' = 0 /\ ~Unanswered(q)'
      BY <1>6, <2>1, <2>2 DEF Owed
    <2>4. Due(q)' = 0 + 0
      BY <2>3 DEF Due
    <2> QED BY <2>4
  <1>11. \A q \in Order \ {o} : Due(q)' <= Due(q)
    <2> SUFFICES ASSUME NEW q \in Order \ {o} PROVE Due(q)' <= Due(q)
      OBVIOUS
    <2>1. Due(q) \in Nat /\ ~Unanswered(q)' /\ (q \in placed' <=> q \in placed)
          /\ ~Unanswered(q)
      BY <1>1, <1>4, <1>6, DuesAreNat DEF Unanswered, Busy
    <2>2. CASE q \notin placed
      <3>1. Due(q)' = 0 + 0
        BY <2>1, <2>2 DEF Due
      <3> QED BY <2>1, <3>1
    <2>3. CASE q \in placed
      <3>1. /\ SamePrice(order[q], order'[q]) /\ gateway'[q] = gateway[q]
            /\ order'[q].status = order[q].status
            /\ order'[q].settlement \in {order[q].settlement, "CONSUMED"}
        BY <1>3, <1>4, <1>5, <2>3
      <3>2. Owed(q)' = Owed(q) \/ Owed(q)' = 0
        BY <3>1 DEF Owed, Live, SamePrice, RefundTotal, CreditPart
      <3>3. Due(q) = Owed(q) + 0 /\ Due(q)' = Owed(q)' + 0 /\ Owed(q) \in Nat
        BY <1>1, <2>1, <2>3, OwedIs DEF Due
      <3> QED BY <3>2, <3>3
    <2> QED BY <2>2, <2>3
  <1>12. CreditPart(row) <= Sum(Dues, H) /\ CreditPart(row) \in Nat /\ Sum(Dues, H) \in Nat
    <2>1. IsFiniteSet(H) /\ \A q \in H : /\ Bases[q] \in Nat /\ Dues[q] \in Nat
                                         /\ Bases[q] <= Dues[q]
      <3>1. IsFiniteSet(H)
        BY <1>9, IdsAreFinite
      <3>2. \A q \in H : Dues[q] = Due(q) /\ Bases[q] = order[q].base
        BY <1>9 DEF Dues, Bases
      <3>3. \A q \in H : order[q].base <= Due(q) /\ order[q].base \in Nat /\ Due(q) \in Nat
        BY <1>1, <1>9, HeldIsDue, DuesAreNat
      <3> QED BY <3>1, <3>2, <3>3
    <2>2. Sum(Bases, H) <= Sum(Dues, H) /\ Sum(Bases, H) \in Nat /\ Sum(Dues, H) \in Nat
      BY <2>1, SumOfLess, SumIsNat
    <2>3. row.credit \in Nat
      BY <1>4 DEF OrderRow
    <2>4. CASE row.action \in Consuming
      <3>1. CreditPart(row) = row.credit /\ row.credit <= Sum(Bases, H)
        BY <2>4 DEF CreditPart, H
      <3> QED BY <2>2, <2>3, <3>1
    <2>5. CASE row.action \notin Consuming
      <3>1. CreditPart(row) = 0
        BY <2>5 DEF CreditPart
      <3> QED BY <2>2, <3>1
    <2> QED BY <2>4, <2>5
  <1>13. balance' + returned' + Due(o)' + received
            <= balance + returned + Due(o) + received' + Sum(Dues, H)
    <2> DEFINE p == row.payable
               c == CreditPart(row)
               b0 == IF Unanswered(o) THEN order[o].payable ELSE 0
               b1 == IF Unanswered(o)' THEN row.payable ELSE 0
               d == Due(o)
               e == Due(o)'
               w == Owed(o)'
               h == Sum(Dues, H)
    <2>1. order'[o].payable = p /\ CreditPart(order'[o]) = c /\ o \in placed'
      BY <1>3, <1>4 DEF SamePrice, CreditPart
    <2>2. p \in Nat /\ c \in Nat /\ h \in Nat /\ c <= h
      BY <1>4, <1>12 DEF OrderRow
    <2>3. w = p + c \/ w = c \/ w = 0
      <3>1. w = IF Live(order'[o]) /\ order'[o].kind = "PLAN"
                   /\ order'[o].settlement # "CONSUMED"
                THEN IF gateway'[o].refund = "done" THEN CreditPart(order'[o])
                     ELSE order'[o].payable + CreditPart(order'[o])
                ELSE 0
        BY <1>1, <2>1, OwedIsNext
      <3> QED BY <2>1, <3>1
    <2>4. e = w + b1
      BY <2>1 DEF Due
    <2>5. d = b0
      <3>1. o \in placed => Owed(o) = 0
        <4>1. o \in placed => ~Live(order[o])
          BY <1>1, <1>4, Kinds
        <4> QED BY <4>1 DEF Owed
      <3>2. Due(o) = 0 + b0
        BY <3>1 DEF Due
      <3>3. b0 \in Nat
        BY <1>1, DuesAreNat
      <3> HIDE DEF b0
      <3> QED BY <3>2, <3>3
    <2>6. b0 \in Nat /\ b1 \in Nat
      BY <1>1, <2>2, DuesAreNat
    <2>7. /\ balance \in Nat /\ returned \in Nat /\ received \in Nat
          /\ balance' = bal + 0 /\ returned' = returned /\ received' = received
          /\ bal + b1 + p <= balance + b0
      BY <1>1, <1>4 DEF Typed, TypeOK
    <2> HIDE DEF p, c, b0, b1, d, e, w, h
    <2>8. w <= p + c /\ w \in Nat
      BY <2>2, <2>3
    <2>9. balance' + returned' + e + received <= balance + returned + d + received' + h
      BY <2>2, <2>4, <2>5, <2>6, <2>7, <2>8
    <2> QED BY <2>9 DEF d, e, h
  <1>14. Funded'
    BY <1>1, <1>9, <1>10, <1>11, <1>13, FundsFollow
  <1> QED BY <1>7, <1>8, <1>14 DEF MoneyInvariant

-----------------------------------------------------------------------------
(* The steps that fulfil an order, or place one.                           *)

\* The gateway reports a recharge: what was due for it is on the balance.
LEMMA RechargeKeepsMoney ==
    ASSUME MoneyInvariant, TimeInvariant', NEW o \in placed, NEW led, Fulfils(o, order[o]),
           FulfilRecharge(o, order[o], balance, led), Unanswered(o), ~Unanswered(o)',
           UNCHANGED <<received, returned>>, gateway'[o].refund = gateway[o].refund
    PROVE  MoneyInvariant'
  <1> DEFINE new == [order[o] EXCEPT !.status = "COMPLETED", !.paidOn = now,
                                     !.settlement = Open(order[o])]
  <1>1. /\ TimeInvariant /\ Typed /\ Typed' /\ Funded /\ PricesHold /\ RefundsTracked
        /\ order \in [Order -> OrderRow] /\ placed \subseteq Order
        /\ o \in Order /\ order[o] \in OrderRow /\ RowAgrees(order[o]) /\ Unsold(order[o])
    BY SoldFacts, IdSets DEF MoneyInvariant, TimeInvariant, Typed, TypeOK, Fulfils, Fresh
  <1>2. /\ order[o].kind = "RECHARGE" /\ order' = [order EXCEPT ![o] = new] /\ placed' = placed
        /\ balance' = balance + order[o].payable
        /\ \A q \in Order \ {o} : ~Busy(q) /\ gateway'[q] = gateway[q]
    BY DEF FulfilRecharge, Fulfils
  <1>3. /\ new.kind = "RECHARGE" /\ new.action = "NONE" /\ new.refund = "NONE"
        /\ new.status = "COMPLETED" /\ new.payable = order[o].payable
    BY <1>1, <1>2 DEF OrderRow, RowAgrees
  <1> HIDE DEF new
  <1>4. order'[o] = new /\ \A q \in Order \ {o} : order'[q] = order[q]
    BY <1>1, <1>2
  <1>5. PricesHold'
    <2> SUFFICES ASSUME NEW q \in placed PROVE Priced(order'[q]) /\ Backed(q)'
      BY <1>2 DEF PricesHold
    <2>1. CASE q = o
      BY <1>3, <1>4, <2>1 DEF Priced, Backed, Unsold
    <2>2. CASE q # o
      <3>1. q \in Order \ {o} /\ order'[q] = order[q] /\ gateway'[q] = gateway[q] /\ ~Busy(q)
        BY <1>1, <1>2, <1>4, <2>2
      <3>2. ~Busy(q)' /\ Priced(order[q])
        BY <1>1, <1>2, <3>1 DEF Busy, PricesHold
      <3> QED BY <3>1, <3>2 DEF Backed
    <2> QED BY <2>1, <2>2
  <1>6. RefundsTracked'
    <2> SUFFICES ASSUME NEW q \in Order PROVE RefundTracked(q)'
      BY DEF RefundsTracked, Order
    <2>1. RefundTracked(q)
      BY <1>1 DEF RefundsTracked
    <2>2. CASE q = o
      <3>1. gateway[o].refund \notin {"accepted", "done"}
        BY <1>1, <2>1, <2>2 DEF RefundTracked, RowAgrees, Unsold
      <3> QED BY <2>2, <3>1 DEF RefundTracked
    <2>3. CASE q # o
      BY <1>2, <1>4, <2>1, <2>3 DEF RefundTracked
    <2> QED BY <2>2, <2>3
  <1>7. \A q \in Order \ {o} : Due(q)' <= Due(q)
    <2> SUFFICES ASSUME NEW q \in Order \ {o} PROVE Due(q)' <= Due(q)
      OBVIOUS
    <2>1. Due(q)' = Due(q)
      BY <1>2, <1>4 DEF Due, Owed, Unanswered
    <2> QED BY <1>1, <2>1, DuesAreNat
  <1>8. balance' + returned' + Due(o)' + received <= balance + returned + Due(o) + received'
    <2>1. Owed(o) = 0 /\ Owed(o)' = 0
      BY <1>2, <1>3, <1>4 DEF Owed
    <2>2. Due(o) = 0 + order[o].payable /\ Due(o)' = 0 + 0
      BY <2>1 DEF Due
    <2>3. order[o].payable \in Nat /\ balance \in Nat /\ returned \in Nat /\ received \in Nat
      BY <1>1 DEF OrderRow, Typed, TypeOK
    <2> QED BY <1>2, <2>2, <2>3
  <1>9. Funded'
    BY <1>1, <1>7, <1>8, FundsMove
  <1> QED BY <1>5, <1>6, <1>9 DEF MoneyInvariant

LEMMA NotifyKeepsMoney ==
    ASSUME ~Redeliver, MoneyInvariant, TimeInvariant', Dearer, NEW o \in Order, Notify(o)
    PROVE  MoneyInvariant'
  <1>1. /\ TimeInvariant /\ gateway \in [Order -> Trade] /\ PricesHold
        /\ o \in placed /\ gateway[o].trade = "paid" /\ ~gateway[o].acked
        /\ order[o].provider = "EPAY"
        /\ gateway' = [gateway EXCEPT ![o].acked = TRUE]
        /\ UNCHANGED <<placed, received, returned>>
    BY DEF MoneyInvariant, TimeInvariant, Typed, TypeOK, Notify, Accepted
  <1>2. /\ \A q \in Order : /\ q # o => gateway'[q] = gateway[q]
                            /\ gateway'[q].trade = gateway[q].trade
                            /\ gateway'[q].refund = gateway[q].refund
                            /\ gateway[q].acked => gateway'[q].acked
        /\ gateway'[o].acked
    BY <1>1 DEF Trade
  <1>3. CASE Live(order[o])
    <2>1. UNCHANGED <<order, balance>>
      BY <1>3 DEF Notify, money
    <2>2. QuietMoney
      BY <1>1, <1>2, <2>1, NoRowUnmoved
    <2>3. RefundsTracked'
      <3> SUFFICES ASSUME NEW q \in Order PROVE RefundTracked(q)'
        BY DEF RefundsTracked, Order
      <3>1. RefundTracked(q)
        BY DEF MoneyInvariant, RefundsTracked
      <3> QED BY <1>1, <1>2, <2>1, <3>1 DEF RefundTracked
    <2>4. \A q \in Order : /\ Unanswered(q)' => Unanswered(q)
                           /\ gateway[q].refund = "done" => gateway'[q].refund = "done"
      BY <1>2 DEF Unanswered
    <2> QED BY <1>1, <2>1, <2>2, <2>3, <2>4, QuietKeepsMoney
  <1>4. CASE ~Live(order[o])
    <2>1. HandlePaidOrder(o, order[o], balance, ledger)
      BY <1>4 DEF Notify
    <2>2. order[o] \in OrderRow /\ RowAgrees(order[o]) /\ Agrees(o)
      BY <1>1, SoldFacts
    <2>3. Unsold(order[o]) /\ Busy(o) /\ \A q \in Order \ {o} : ~Busy(q)
      BY <1>1, <1>4, <2>2 DEF Agrees, Busy, TimeInvariant, Alone
    <2>4. Fresh(order[o])
      <3>1. order[o] = [order[o] EXCEPT !.provider = "EPAY"] /\ "EPAY" \in Provider
        BY <1>1, <2>2 DEF OrderRow, Provider
      <3> QED BY <1>1, <2>3, <3>1, WaitingIsFresh
    <2>5. Fulfils(o, order[o])
      BY <1>1, <1>2, <2>3, <2>4 DEF Fulfils
    <2>6. ~FulfilNothing(o, order[o], balance, ledger)
      BY <2>2, CatalogueAssumption DEF FulfilNothing, RowAgrees
    <2>7. Unanswered(o) /\ ~Unanswered(o)'
      BY <1>1, <1>2 DEF Unanswered
    <2>8. CASE FulfilRecharge(o, order[o], balance, ledger)
      BY <1>1, <1>2, <2>5, <2>7, <2>8, RechargeKeepsMoney
    <2>9. CASE FulfilPlan(o, order[o], balance, ledger)
      <3>1. Priced(order[o]) /\ order[o].carry = 0
            /\ (order[o].action \in Consuming =>
                  order[o].credit <= Sum(Bases, Held(order[o].sources)))
        BY <1>1, <2>3 DEF PricesHold, Backed, Dearer
      <3>2. balance \in Nat /\ order[o].payable \in Nat
        BY <1>1, <2>2 DEF OrderRow, TimeInvariant, Typed, TypeOK
      <3>3. balance + (IF Unanswered(o)' THEN order[o].payable ELSE 0) + order[o].payable
               <= balance + (IF Unanswered(o) THEN order[o].payable ELSE 0)
        <4>1. balance + 0 + order[o].payable <= balance + order[o].payable
          BY <3>2
        <4> QED BY <2>7, <4>1
      <3> QED BY <1>1, <1>2, <2>5, <2>9, <3>1, <3>2, <3>3, SaleKeepsMoney
    <2> QED BY <2>1, <2>6, <2>8, <2>9 DEF HandlePaidOrder
  <1> QED BY <1>3, <1>4

LEMMA PayByBalanceKeepsMoney ==
    ASSUME MoneyInvariant, TimeInvariant', Dearer, NEW o \in Order, PayByBalance(o)
    PROVE  MoneyInvariant'
  <1> DEFINE row == [order[o] EXCEPT !.provider = "BALANCE"]
             bal == balance - order[o].payable
             led == ledger - order[o].payable
  <1>1. /\ o \in placed /\ order[o].status = "CREATED" /\ order[o].kind = "PLAN"
        /\ UNCHANGED <<placed, gateway, received, returned>>
        /\ order[o].payable <= balance
        /\ HandlePaidOrder(o, row, bal, led)
        /\ TimeInvariant /\ PricesHold
    BY DEF MoneyInvariant, PayByBalance, Payable, Affords, outside
  <1>2. order[o] \in OrderRow /\ RowAgrees(order[o]) /\ balance \in Nat
        /\ order[o].payable \in Nat
    BY <1>1, SoldFacts DEF TimeInvariant, Typed, TypeOK, OrderRow
  <1>3. Unsold(order[o]) /\ Busy(o) /\ \A q \in Order \ {o} : ~Busy(q)
    BY <1>1 DEF Busy, TimeInvariant, Alone, Unsold
  <1>4. Fresh(row) /\ row.provider = "BALANCE" /\ row.sources = order[o].sources
        /\ SamePrice(order[o], row) /\ row.plan = order[o].plan
    <2>1. "BALANCE" \in Provider
      BY DEF Provider
    <2>2. \A v \in Provider : SamePrice(order[o], [order[o] EXCEPT !.provider = v])
      BY <1>2, SamePrices
    <2>3. Fresh(row)
      BY <1>1, <1>3, <2>1, WaitingIsFresh
    <2> QED BY <1>2, <2>1, <2>2, <2>3 DEF OrderRow
  <1>5. bal \in Nat /\ bal + order[o].payable = balance
    BY <1>1, <1>2
  <1> HIDE DEF row, bal, led
  <1>6. Fulfils(o, row)
    BY <1>1, <1>3, <1>4 DEF Fulfils
  <1>7. FulfilPlan(o, row, bal, led)
    <2>1. row.kind = "PLAN" /\ row.plan # NoPlan
      BY <1>1, <1>2, <1>4, CatalogueAssumption DEF SamePrice, RowAgrees
    <2> QED BY <1>1, <2>1 DEF HandlePaidOrder, FulfilNothing, FulfilRecharge
  <1>8. Priced(row) /\ row.carry = 0 /\ row.payable = order[o].payable
        /\ (row.action \in Consuming => row.credit <= Sum(Bases, Held(row.sources)))
    <2>1. Priced(order[o]) /\ Backed(o) /\ order[o].carry = 0
      BY <1>1 DEF PricesHold, Dearer
    <2> QED BY <1>3, <1>4, <2>1 DEF SamePrice, Priced, Backed
  <1>9. bal + (IF Unanswered(o)' THEN row.payable ELSE 0) + row.payable
           <= balance + (IF Unanswered(o) THEN order[o].payable ELSE 0)
    <2>1. Unanswered(o)' <=> Unanswered(o)
      BY <1>1 DEF Unanswered
    <2> DEFINE p == order[o].payable
               u == IF Unanswered(o) THEN p ELSE 0
    <2>2. p \in Nat /\ u \in Nat /\ bal + p = balance
      BY <1>2, <1>5
    <2> HIDE DEF u, p
    <2>3. bal + u + p <= balance + u
      BY <1>2, <1>5, <2>2
    <2> QED BY <1>8, <2>1, <2>3 DEF u, p
  <1>10. gateway'[o].refund = gateway[o].refund
    BY <1>1
  <1> QED BY <1>1, <1>5, <1>6, <1>7, <1>8, <1>9, <1>10, SaleKeepsMoney

LEMMA CreateRechargeOrderKeepsMoney ==
    ASSUME OneAtATime, MoneyInvariant, TimeInvariant', NEW a \in RechargeAmounts,
           CreateRechargeOrder(a)
    PROVE  MoneyInvariant'
  <1> DEFINE o == made + 1
             row == [BlankOrder EXCEPT !.base = a, !.payable = a, !.created = now, !.chain = o]
  <1>1. /\ Idle /\ placed' = placed \cup {o} /\ order' = [order EXCEPT ![o] = row]
        /\ UNCHANGED <<gateway, balance, received, returned>> /\ TimeInvariant
        /\ order' \in [Order -> OrderRow] /\ order \in [Order -> OrderRow]
    BY DEF CreateRechargeOrder, outside, money, MoneyInvariant, TimeInvariant, Typed, TypeOK
  <1>2. o \in Order /\ o \notin placed
    BY NextIdIsNew DEF CreateRechargeOrder, MoneyInvariant, TimeInvariant
  <1>3. /\ row.kind = "RECHARGE" /\ row.action = "NONE" /\ row.sub = None
        /\ row.status = "CREATED" /\ row.settlement = "OPEN" /\ row.refund = "NONE"
    BY DEF BlankOrder
  <1> HIDE DEF row, o
  <1>4. row \in OrderRow
    <2>1. order'[o] = row
      BY <1>1, <1>2
    <2> QED BY <1>1, <1>2, <2>1
  <1>5. Fresh(row)
    BY <1>3, <1>4 DEF Fresh, RowAgrees, AnchorAgrees, Unsold, Live, Consuming
  <1>6. Priced(row) /\ row.action \notin Consuming
    BY <1>3 DEF Priced, Consuming
  <1> QED BY <1>1, <1>2, <1>5, <1>6, PlacedKeepsMoney

LEMMA CreateOrderKeepsMoney ==
    ASSUME OneAtATime, MoneyInvariant, TimeInvariant', Dearer, Dearer',
           NEW p \in Plan, NEW c \in Cycle, CreateOrder(p, c)
    PROVE  MoneyInvariant'
  <1>0. PICK o : o = made + 1
    OBVIOUS
  <1> DEFINE view == Preview(p, c)
  <1>1. /\ Idle /\ view.action # "BLOCKED" /\ placed' = placed \cup {o}
        /\ UNCHANGED <<gateway, received, returned>> /\ TimeInvariant
        /\ balance \in Nat /\ order \in [Order -> OrderRow]
    BY <1>0 DEF CreateOrder, outside, MoneyInvariant, TimeInvariant, Typed, TypeOK
  <1>2. o \in Order /\ o \notin placed
    BY <1>0, NextIdIsNew DEF CreateOrder, MoneyInvariant, TimeInvariant
  <1>3. PICK parent \in AnchorOrders(ChainSources(view)) :
          LET row  == NewOrder(o, p, c, view, parent)
              zero == [row EXCEPT !.provider = "ZERO"]
          IN  \/ order' = [order EXCEPT ![o] = row] /\ UNCHANGED money
              \/ order' = [order EXCEPT ![o] = zero] /\ UNCHANGED money
              \/ row.payable = 0 /\ HandlePaidOrder(o, zero, balance, ledger)
    BY <1>0 DEF CreateOrder
  <1> DEFINE row  == NewOrder(o, p, c, view, parent)
             zero == [row EXCEPT !.provider = "ZERO"]
  <1>4. Fresh(row)
    BY <1>1, <1>2, NewOrderIsFresh
  <1>5. /\ Priced(row)
        /\ row.action \in Consuming => row.credit <= Sum(Bases, Held(row.sources))
    BY <1>1, <1>2, NewOrderIsPriced
  <1>6. row.kind = "PLAN" /\ row.plan = p
    BY DEF NewOrder, BlankOrder
  <1>7. /\ Fresh(zero) /\ Priced(zero) /\ zero.kind = "PLAN" /\ zero.plan = p
        /\ zero.provider = "ZERO" /\ zero.payable = row.payable
        /\ zero.action \in Consuming => zero.credit <= Sum(Bases, Held(zero.sources))
    <2> HIDE DEF row
    <2>1. row \in OrderRow /\ RowAgrees(row) /\ Unsold(row) /\ "ZERO" \in Provider
      BY <1>4 DEF Fresh, Provider
    <2>2. zero \in OrderRow
      BY <2>1, OrderColumns
    <2>3. /\ zero.kind = row.kind /\ zero.plan = row.plan /\ zero.cycle = row.cycle
          /\ zero.action = row.action /\ zero.sources = row.sources
          /\ zero.anchor = row.anchor /\ zero.sub = row.sub
          /\ zero.settlement = row.settlement /\ zero.status = row.status
          /\ zero.refund = row.refund /\ zero.provider = "ZERO" /\ zero.days = row.days
      BY <2>1 DEF OrderRow
    <2>4. SamePrice(row, zero)
      BY <2>1, SamePrices
    <2> HIDE DEF zero
    <2>5. Unsold(zero) /\ RowAgrees(zero)
      BY <2>1, <2>3 DEF RowAgrees, Unsold, Live
    <2>6. AnchorAgrees(zero) /\ (zero.action \in Consuming => Claimed(zero))
      BY <1>4, <2>3 DEF Fresh, AnchorAgrees, Claimed
    <2>7. Priced(zero) /\ zero.payable = row.payable /\ zero.credit = row.credit
      BY <1>5, <2>4 DEF Priced, SamePrice
    <2> QED BY <1>5, <1>6, <2>2, <2>3, <2>5, <2>6, <2>7 DEF Fresh
  <1> HIDE DEF row, zero, view
  <1>8. CASE row.payable = 0 /\ HandlePaidOrder(o, zero, balance, ledger)
    <2>1. FulfilPlan(o, zero, balance, ledger)
      BY <1>7, <1>8, CatalogueAssumption DEF HandlePaidOrder, FulfilNothing, FulfilRecharge
    <2>2. Fulfils(o, zero)
      <3>1. \A q \in Order \ {o} : ~Busy(q) /\ gateway'[q] = gateway[q]
        BY <1>1, IdleIsNoneBusy
      <3> QED BY <1>1, <1>2, <1>7, <3>1 DEF Fulfils
    <2>3. zero.carry = 0
      <3>1. SamePrice(zero, order'[o])
        BY <1>1, <2>1, <2>2, SalePrices
      <3>2. order'[o].carry = 0
        BY <1>1 DEF Dearer
      <3> QED BY <3>1, <3>2 DEF SamePrice
    <2>4. ~Unanswered(o) /\ ~Unanswered(o)'
      BY <1>1, <1>2, IdleIsNoneBusy DEF Busy, Unanswered
    <2>5. balance + (IF Unanswered(o)' THEN zero.payable ELSE 0) + zero.payable
             <= balance + (IF Unanswered(o) THEN order[o].payable ELSE 0)
      <3>1. balance + 0 + 0 <= balance + 0
        BY <1>1
      <3> QED BY <1>7, <1>8, <2>4, <3>1
    <2>6. gateway'[o].refund = gateway[o].refund
      BY <1>1
    <2> QED BY <1>1, <1>7, <2>1, <2>2, <2>3, <2>5, <2>6, SaleKeepsMoney
  <1>9. ASSUME NEW new, Fresh(new), Priced(new), order' = [order EXCEPT ![o] = new],
               new.action \in Consuming => new.credit <= Sum(Bases, Held(new.sources)),
               UNCHANGED money
        PROVE  MoneyInvariant'
    <2>1. UNCHANGED balance
      BY <1>9 DEF money
    <2> QED BY <1>1, <1>2, <1>9, <2>1, PlacedKeepsMoney
  <1> QED BY <1>3, <1>4, <1>5, <1>7, <1>8, <1>9 DEF row, zero

-----------------------------------------------------------------------------
(* Refunds: the user gets what the order is owed, once.                    *)

LEMMA CompleteRefundKeepsMoney ==
    ASSUME MoneyInvariant, TimeInvariant', NEW x \in Order, Refunds(x),
           gateway[x].refund # "accepted", balance' = balance + Owed(x),
           UNCHANGED <<received, returned>>
    PROVE  MoneyInvariant'
  <1>1. /\ TimeInvariant /\ Typed /\ Typed' /\ Funded /\ PricesHold /\ RefundsTracked
        /\ order \in [Order -> OrderRow]
    BY DEF MoneyInvariant, TimeInvariant, Typed, TypeOK
  <1>2. /\ RowsRefunded(x, Covered(x)) /\ x \in placed /\ ~Unsold(order[x])
        /\ placed' = placed /\ gateway' = gateway /\ placed \subseteq Order
        /\ \A q \in placed : RowAgrees(order[q]) /\ (Unsold(order'[q]) <=> Unsold(order[q]))
        /\ \A q \in Order \ {x} : ~Busy(q)
        /\ Covered(x) \subseteq placed \ {x}
    <2>1. /\ RowsRefunded(x, Covered(x)) /\ x \in placed /\ ~Unsold(order[x])
          /\ placed' = placed /\ gateway' = gateway /\ placed \subseteq Order
          /\ \A q \in placed : RowAgrees(order[q]) /\ (Unsold(order'[q]) <=> Unsold(order[q]))
      BY <1>1, RefundFacts
    <2> QED BY <2>1 DEF Refunds, RowsRefunded
  <1>3. \A q \in Order : SamePrice(order[q], order'[q])
    <2> SUFFICES ASSUME NEW q \in Order PROVE SamePrice(order[q], order'[q])
      OBVIOUS
    <2>1. SamePrice(order[q], order[q]) /\ order[q] \in OrderRow
      BY <1>1, SamePrices
    <2>2. ASSUME NEW w PROVE SamePrice(order[q], Refunded(order[q], w))
      BY <2>1 DEF SamePrice, Refunded, OrderRow
    <2>3. \/ order'[q] = order[q]
          \/ order'[q] = Refunded(order[q], "REFUNDED")
          \/ order'[q] = Refunded(order[q], "COVERED_BY_DESCENDANT_REFUND")
      BY DEF Refunds, CompleteRefund
    <2>4. /\ SamePrice(order[q], Refunded(order[q], "REFUNDED"))
          /\ SamePrice(order[q], Refunded(order[q], "COVERED_BY_DESCENDANT_REFUND"))
      BY <2>2
    <2> QED BY <2>1, <2>3, <2>4
  <1>4. \A q \in Order \ {x} : q \notin Covered(x) => order'[q] = order[q]
    BY DEF Refunds, CompleteRefund
  <1>5. \A q \in placed : q \in Covered(x) \cup {x} =>
           order'[q].status = "REFUNDED" /\ order'[q].refund = "REFUNDED"
    BY <1>2 DEF RowsRefunded
  <1>6. PricesHold'
    <2> SUFFICES ASSUME NEW q \in placed PROVE Priced(order'[q]) /\ Backed(q)'
      BY <1>2 DEF PricesHold
    <2>1. q \in Order /\ SamePrice(order[q], order'[q]) /\ Priced(order[q])
      BY <1>1, <1>2, <1>3 DEF PricesHold
    <2>2. Priced(order'[q])
      BY <2>1 DEF Priced, SamePrice
    <2>3. Unsold(order'[q]) => ~Busy(q)'
      <3> SUFFICES ASSUME Unsold(order'[q]) PROVE ~Busy(q)'
        OBVIOUS
      <3>1. Unsold(order[q]) /\ q \in Order \ {x} /\ ~Busy(q)
        BY <1>2, <2>1
      <3>2. q \notin Covered(x)
        BY <1>2, <3>1 DEF RowsRefunded
      <3>3. order'[q] = order[q]
        BY <1>4, <3>1, <3>2
      <3> QED BY <1>2, <3>1, <3>3 DEF Busy
    <2> QED BY <2>2, <2>3 DEF Backed
  <1>7. RefundsTracked'
    <2> SUFFICES ASSUME NEW q \in Order PROVE RefundTracked(q)'
      BY DEF RefundsTracked, Order
    <2>1. RefundTracked(q)
      BY <1>1 DEF RefundsTracked
    <2>2. CASE q = x
      BY <1>2, <1>5, <2>2 DEF RefundTracked
    <2>3. CASE q \in Covered(x)
      <3>1. q \in placed /\ order[q].settlement # "OPEN" /\ RowAgrees(order[q])
            /\ order'[q].status = "REFUNDED"
        BY <1>2, <1>5, <2>3 DEF RowsRefunded
      <3>2. order[q].refund # "PROCESSING"
        BY <3>1 DEF RowAgrees
      <3> QED BY <1>2, <2>1, <3>1, <3>2 DEF RefundTracked
    <2>4. CASE q # x /\ q \notin Covered(x)
      <3>1. order'[q] = order[q]
        BY <1>4, <2>4
      <3> QED BY <1>2, <2>1, <3>1 DEF RefundTracked
    <2> QED BY <2>2, <2>3, <2>4
  <1>8. \A q \in Order : /\ Unanswered(q)' <=> Unanswered(q)
                         /\ order'[q].payable = order[q].payable
    BY <1>2, <1>3 DEF Unanswered, SamePrice
  <1>9. \A q \in placed : q \in Covered(x) \cup {x} => Owed(q)' = 0
    BY <1>5 DEF Owed, Live
  <1>10. \A q \in Order \ {x} : Due(q)' <= Due(q)
    <2> SUFFICES ASSUME NEW q \in Order \ {x} PROVE Due(q)' <= Due(q)
      OBVIOUS
    <2> DEFINE u == IF Unanswered(q) THEN order[q].payable ELSE 0
    <2>1. u \in Nat /\ Due(q) \in Nat
      BY <1>1, DuesAreNat
    <2>2. CASE q \in Covered(x)
      <3>1. q \in placed /\ Owed(q)' = 0 /\ Owed(q) \in Nat
        BY <1>1, <1>2, <1>9, <2>2, OwedIs
      <3>2. Due(q) = Owed(q) + u /\ Due(q)' = 0 + u
        BY <1>2, <1>8, <3>1 DEF Due
      <3> HIDE DEF u
      <3> QED BY <2>1, <3>1, <3>2
    <2>3. CASE q \notin Covered(x)
      <3>1. order'[q] = order[q]
        BY <1>4, <2>3
      <3>2. Due(q)' = Due(q)
        BY <1>2, <1>8, <3>1 DEF Due, Owed
      <3> QED BY <2>1, <3>2
    <2> QED BY <2>2, <2>3
  <1>11. balance' + returned' + Due(x)' + received <= balance + returned + Due(x) + received'
    <2> DEFINE u == IF Unanswered(x) THEN order[x].payable ELSE 0
               w == Owed(x)
    <2>1. u \in Nat /\ w \in Nat
      BY <1>1, <1>2, DuesAreNat, OwedIs
    <2>2. Due(x) = w + u /\ Due(x)' = 0 + u
      BY <1>2, <1>8, <1>9 DEF Due
    <2>3. balance \in Nat /\ returned \in Nat /\ received \in Nat /\ balance' = balance + w
      BY <1>1 DEF Typed, TypeOK
    <2> HIDE DEF u, w
    <2> QED BY <2>1, <2>2, <2>3
  <1>12. Funded'
    BY <1>1, <1>10, <1>11, FundsMove
  <1> QED BY <1>6, <1>7, <1>12 DEF MoneyInvariant

LEMMA RefundKeepsMoney ==
    ASSUME OneAtATime, MoneyInvariant, TimeInvariant', ChainInvariant', NEW x \in Order,
           RefundToBalance(x) \/ QueryOriginalRefund(x)
    PROVE  MoneyInvariant'
  <1>1. TimeInvariant /\ Typed /\ Typed' /\ RefundTracked(x)
    BY DEF MoneyInvariant, TimeInvariant, RefundsTracked
  <1>2. Refunds(x)
    BY <1>1, RefundKeepsTime
  <1>3. x \in placed /\ Holds(order[x])
    BY <1>2 DEF Refunds
  <1>4. UNCHANGED <<received, returned>>
    BY DEF RefundToBalance, QueryOriginalRefund, outside
  <1>5. Owed(x) = IF gateway[x].refund = "done" THEN CreditPart(order[x])
                  ELSE order[x].payable + CreditPart(order[x])
    BY <1>1, <1>3, OwedIs DEF Holds
  <1>6. CASE RefundToBalance(x)
    <2>1. order[x].refund # "PROCESSING" /\ order[x].status # "REFUNDED"
      BY <1>3, <1>6 DEF RefundToBalance, AdminMayRefund, Idle, Holds, Live
    <2>2. gateway[x].refund # "accepted" /\ gateway[x].refund # "done"
      BY <1>1, <2>1 DEF RefundTracked
    <2>3. balance' = balance + Owed(x)
      BY <1>5, <1>6, <2>2 DEF RefundToBalance, RefundTotal
    <2> QED BY <1>2, <1>4, <2>2, <2>3, CompleteRefundKeepsMoney
  <1>7. CASE QueryOriginalRefund(x)
    <2>1. gateway[x].refund = "done" /\ balance' = balance + Owed(x)
      BY <1>5, <1>7 DEF QueryOriginalRefund
    <2> QED BY <1>2, <1>4, <2>1, CompleteRefundKeepsMoney
  <1> QED BY <1>6, <1>7

LEMMA NextKeepsMoney ==
    ASSUME Orderly, ~LossyGateway, MoneyInvariant, Dearer, Dearer', [Next]_vars
    PROVE  MoneyInvariant'
  <1>1. OneAtATime /\ ~Redeliver /\ AdminTools = {} /\ TimeInvariant
    BY DEF Orderly, MoneyInvariant
  <1>2. TimeInvariant' /\ ChainInvariant'
    BY <1>1, NextKeepsTime, NextKeepsChain DEF TimeInvariant
  <1>3. CASE UserStep
    <2>1. ASSUME NEW p \in Plan, NEW c \in Cycle, CreateOrder(p, c) PROVE MoneyInvariant'
      BY <1>1, <1>2, <2>1, CreateOrderKeepsMoney
    <2>2. ASSUME NEW a \in RechargeAmounts, CreateRechargeOrder(a) PROVE MoneyInvariant'
      BY <1>1, <1>2, <2>2, CreateRechargeOrderKeepsMoney
    <2>3. ASSUME NEW o \in Order, CloseOrder(o) \/ CancelOrder(o) PROVE MoneyInvariant'
      <3>1. {o} \in SUBSET placed /\ \A q \in {o} : order[q].status = "CREATED"
        BY <2>3 DEF CloseOrder, CancelOrder, Payable
      <3> QED BY <1>2, <2>3, <3>1, EndUnpaidKeepsMoney DEF CloseOrder, CancelOrder
    <2>4. ASSUME NEW o \in Order, PayLink(o) PROVE MoneyInvariant'
      BY <1>2, <2>4, PayLinkKeepsMoney
    <2>5. ASSUME NEW o \in Order, PayByBalance(o) PROVE MoneyInvariant'
      BY <1>2, <2>5, PayByBalanceKeepsMoney
    <2>6. ASSUME NEW o \in Order, RequestRefund(o) PROVE MoneyInvariant'
      BY <1>2, <2>6, RefundRequestsKeepMoney
    <2> QED BY <1>3, <2>1, <2>2, <2>3, <2>4, <2>5, <2>6 DEF UserStep
  <1>4. CASE GatewayStep
    <2>1. ASSUME NEW o \in Order, GatewayPay(o) PROVE MoneyInvariant'
      BY <1>2, <2>1, GatewayPayKeepsMoney
    <2>2. ASSUME NEW o \in Order, GatewaySettle(o) PROVE MoneyInvariant'
      BY <1>2, <2>2, GatewaySettleKeepsMoney
    <2>3. ASSUME NEW o \in Order, Notify(o) PROVE MoneyInvariant'
      BY <1>1, <1>2, <2>3, NotifyKeepsMoney
    <2> QED BY <1>4, <2>1, <2>2, <2>3 DEF GatewayStep
  <1>5. CASE AdminStep
    <2>1. ASSUME NEW o \in Order, RejectRefund(o) \/ ApproveOriginalRefund(o)
          PROVE  MoneyInvariant'
      BY <1>2, <2>1, RefundRequestsKeepMoney
    <2>2. ASSUME NEW o \in Order, RefundToBalance(o) \/ QueryOriginalRefund(o)
          PROVE  MoneyInvariant'
      BY <1>1, <1>2, <2>2, RefundKeepsMoney
    <2>3. ASSUME NEW day, CleanupOrders(day) PROVE MoneyInvariant'
      BY <1>2, <2>3, CleanupOrdersKeepsMoney
    <2>4. /\ \A o \in Order : ~AdminComplete(o) /\ ~RefundCallLost(o)
          /\ \A o \in Order, status \in {"CREATED", "CANCELED", "TIMEOUT"} :
                ~AdminSetStatus(o, status)
          /\ \A S \in SUBSET Order : ~DeleteOrders(S)
          /\ \A p \in Plan : ~DeletePlan(p)
          /\ \A p \in Plan, c \in Cycle : ~DropCycle(p, c)
      BY <1>1 DEF AdminComplete, RefundCallLost, AdminSetStatus, DeleteOrders, DeletePlan,
                  DropCycle
    <2> QED BY <1>5, <2>1, <2>2, <2>3, <2>4 DEF AdminStep
  <1>6. CASE JobStep
    <2>1. ASSUME NEW S, FinalizeStale(S) PROVE MoneyInvariant'
      BY <1>2, <2>1, EndUnpaidKeepsMoney DEF FinalizeStale
    <2>2. CASE ExpireDue \/ CleanupExpired
      BY <1>2, <2>2, ClockKeepsMoney
    <2> QED BY <1>6, <2>1, <2>2 DEF JobStep
  <1>7. CASE Tick \/ UNCHANGED vars
    BY <1>2, <1>7, ClockKeepsMoney
  <1> QED BY <1>3, <1>4, <1>5, <1>6, <1>7 DEF Next

\* One thing at a time, a gateway whose answers arrive, and upgrades that are
\* never cheaper than the credit they take: then no sequence of purchases,
\* renewals, upgrades, refunds and callbacks leaves the user with more, in the
\* balance, in money paid back and in orders that can be refunded, than was put
\* in (handle_paid_order, refund_to_balance, query_original_refund).
THEOREM NoMoneyIsMade ==
    ASSUME Orderly, ~LossyGateway
    PROVE  Spec /\ []Dearer => []Solvent
  <1>1. MoneyInvariant /\ Dearer /\ Dearer' /\ [Next]_vars => MoneyInvariant'
    BY NextKeepsMoney
  <1>2. MoneyInvariant => Solvent
    BY FundedIsSolvent DEF MoneyInvariant, TimeInvariant
  <1> QED BY <1>1, <1>2, InitMoney, PTL DEF Spec
=============================================================================
