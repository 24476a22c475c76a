-------------------------------- MODULE Shop --------------------------------
(***************************************************************************)
(* The hardware shop (shop/views.py, and its pages in                      *)
(* operator_panel/admin.py): the cart checked against the stock, the order *)
(* made and its charge begun at Paystack, Paystack's webhook that marks it *)
(* paid and takes its items from the stock, the operator's bulk actions,   *)
(* and the operator's two pages that write back what they showed.          *)
(*                                                                         *)
(* Nothing is reserved and nothing locked: each read and each write of a   *)
(* request is a step, requests interleave, and a worker can be killed.     *)
(***************************************************************************)
EXTENDS Integers, Sequences, FiniteSets, FiniteSetsExt, Functions

CONSTANTS Goods,      \* the products
          FirstStock, \* the units of each at first
          Carts,      \* what is ordered: units of some of the goods
          Tills,      \* requests under way at once
          MaxOrders, MaxCrashes \* bounds: orders made, workers killed

VARIABLES stock,   \* Product.stock
          orders,  \* the Order rows with their items
          deals,   \* each order's transaction at Paystack
          desk,    \* the operator's open page
          till, sale, \* where each request is, and what it has read
          crashes  \* workers killed

shopVars == <<stock, orders, deals, desk, till, sale, crashes>>

Statuses == {"pending", "paid", "processing", "shipped", "delivered", "cancelled"}
Order == [cart : Carts, live : BOOLEAN, status : Statuses, paystack : {"pending", "success"}]
Closed == [page |-> "none", stock |-> FirstStock, order |-> 0, status |-> "pending", copy |-> <<>>]
Free == [cart |-> <<>>, rest |-> {}, order |-> 0]

At(w, place, s) == till' = [till EXCEPT ![w] = place] /\ sale' = [sale EXCEPT ![w] = s]
Leave(w) == At(w, "idle", Free)

ShopInit ==
  /\ stock = FirstStock /\ orders = <<>> /\ deals = <<>> /\ crashes = 0
  /\ desk = Closed
  /\ till = [w \in Tills |-> "idle"] /\ sale = [w \in Tills |-> Free]

(* The checkout: api_initiate_payment. *************************************)

Checkout(w, cart) ==
  /\ till[w] = "idle" /\ Len(orders) < MaxOrders
  /\ At(w, "check", [Free EXCEPT !.cart = cart, !.rest = DOMAIN cart])
  /\ UNCHANGED <<stock, orders, deals, desk, crashes>>

\* Each product is loaded in turn; one that is short ends the request.
CheckStock(w) ==
  /\ till[w] = "check" /\ sale[w].rest # {}
  /\ \E g \in sale[w].rest :
       IF stock[g] < sale[w].cart[g] THEN Leave(w)
       ELSE At(w, "check", [sale[w] EXCEPT !.rest = @ \ {g}])
  /\ UNCHANGED <<stock, orders, deals, desk, crashes>>
MakeOrder(w) ==
  /\ till[w] = "check" /\ sale[w].rest = {} /\ Len(orders) < MaxOrders
  /\ orders' = Append(orders, [cart |-> sale[w].cart, live |-> TRUE,
                               status |-> "pending", paystack |-> "pending"])
  /\ deals' = Append(deals, "none")
  /\ At(w, "initialise", [Free EXCEPT !.order = Len(orders) + 1])
  /\ UNCHANGED <<stock, desk, crashes>>

\* Without a key, without an answer or with a refusal, the order is deleted.
Initialise(w, ok) ==
  /\ till[w] = "initialise" /\ Leave(w)
  /\ IF ok THEN deals' = [deals EXCEPT ![sale[w].order] = "open"] /\ UNCHANGED orders
     ELSE orders' = [orders EXCEPT ![sale[w].order].live = FALSE] /\ UNCHANGED deals
  /\ UNCHANGED <<stock, desk, crashes>>

(* Paystack: the customer pays; the event is sent again until answered. ****)

PayOrder(o) ==
  /\ deals[o] = "open" /\ deals' = [deals EXCEPT ![o] = "paid"]
  /\ UNCHANGED <<stock, orders, desk, till, sale, crashes>>

(* The webhook: api_shop_webhook. ******************************************)

Processed(o) == orders[o].paystack = "success"

Answer(o) == deals' = [deals EXCEPT ![o] = "answered"]
Webhook(w, o) ==
  /\ till[w] = "idle" /\ deals[o] = "paid"
  /\ IF orders[o].live /\ ~Processed(o)
     THEN At(w, "mark", [Free EXCEPT !.order = o, !.rest = DOMAIN orders[o].cart]) /\ UNCHANGED deals
     ELSE Answer(o) /\ UNCHANGED <<till, sale>>
  /\ UNCHANGED <<stock, orders, desk, crashes>>
\* Fault for mutation: only the order's own status is set.
Marked_Status(row) == [row EXCEPT !.status = "paid"]
Marked(row) == [row EXCEPT !.paystack = "success", !.status = "paid"]

Mark(w) ==
  /\ till[w] = "mark" /\ At(w, "take", sale[w])
  /\ orders' = [orders EXCEPT ![sale[w].order] = Marked(@)]
  /\ UNCHANGED <<stock, deals, desk, crashes>>

Short(g, n) == stock[g] < n

\* One conditional UPDATE per item: one that is short is passed over.
Take(w) ==
  LET o == sale[w].order IN
  /\ till[w] = "take"
  /\ IF sale[w].rest = {} THEN Leave(w) /\ Answer(o) /\ UNCHANGED stock
     ELSE \E g \in sale[w].rest :
            /\ At(w, "take", [sale[w] EXCEPT !.rest = @ \ {g}]) /\ UNCHANGED deals
            /\ stock' = IF Short(g, orders[o].cart[g]) THEN stock
                        ELSE [stock EXCEPT ![g] = @ - orders[o].cart[g]]
  /\ UNCHANGED <<orders, desk, crashes>>

KillTill(w) ==
  /\ till[w] # "idle" /\ crashes < MaxCrashes /\ crashes' = crashes + 1 /\ Leave(w)
  /\ UNCHANGED <<stock, orders, deals, desk>>

(* The operator: OrderAdmin's actions and form, ProductAdmin's list. *******)

Shippable == {"paid", "processing"}

MarkAs(o, from, to) ==
  /\ orders[o].live /\ orders[o].status \in from
  /\ orders' = [orders EXCEPT ![o].status = to]
  /\ UNCHANGED <<stock, deals, desk, till, sale, crashes>>
Fulfil == \E o \in DOMAIN orders : \/ MarkAs(o, {"paid"}, "processing")
                                   \/ MarkAs(o, Shippable, "shipped")
                                   \/ MarkAs(o, {"shipped"}, "delivered")

\* The form shows a status; on save the row is loaded, the status chosen on
\* the page is put in, and every field is written.
OpenForm(o) ==
  /\ desk.page = "none" /\ orders[o].live
  /\ desk' = [Closed EXCEPT !.page = "form", !.order = o, !.status = orders[o].status]
  /\ UNCHANGED <<stock, orders, deals, till, sale, crashes>>
PostForm(s) ==
  /\ desk.page = "form"
  /\ desk' = [desk EXCEPT !.page = "saving", !.copy = [orders[desk.order] EXCEPT !.status = s]]
  /\ UNCHANGED <<stock, orders, deals, till, sale, crashes>>
SaveForm ==
  /\ desk.page = "saving" /\ desk' = Closed
  /\ orders' = [orders EXCEPT ![desk.order] = desk.copy]
  /\ UNCHANGED <<stock, deals, till, sale, crashes>>

\* The list's stock fields are inputs: every one that differs from the row
\* is saved, whoever changed it.
OpenList ==
  /\ desk.page = "none" /\ desk' = [Closed EXCEPT !.page = "list", !.stock = stock]
  /\ UNCHANGED <<stock, orders, deals, till, sale, crashes>>
SaveList(g, n) ==
  /\ desk.page = "list" /\ desk' = Closed
  /\ stock' = [desk.stock EXCEPT ![g] = n]
  /\ UNCHANGED <<orders, deals, till, sale, crashes>>

Selling(w) == (\E ok \in BOOLEAN : Initialise(w, ok)) \/ CheckStock(w) \/ MakeOrder(w) \/ Mark(w) \/ Take(w)
Customers(w) == (\E cart \in Carts : Checkout(w, cart)) \/ \E o \in DOMAIN deals : PayOrder(o)
Pages == \/ OpenList \/ SaveForm
         \/ \E o \in DOMAIN orders : OpenForm(o)
         \/ \E s \in {desk.status, "cancelled"} : PostForm(s)
         \/ \E g \in Goods : SaveList(g, FirstStock[g])

ShopNext ==
  \/ \E w \in Tills : \/ Selling(w) \/ Customers(w) \/ KillTill(w)
                      \/ \E o \in DOMAIN deals : Webhook(w, o)
  \/ Fulfil \/ Pages
ShopSpec == ShopInit /\ [][ShopNext]_shopVars

(* Properties. *************************************************************)

\* The types of the rows, the transactions and the requests.
ShopType ==
  /\ stock \in [Goods -> Nat] /\ \A o \in DOMAIN orders : orders[o] \in Order
  /\ Len(deals) = Len(orders) /\ Range(deals) \subseteq {"none", "open", "paid", "answered"}
  /\ till \in [Tills -> {"idle", "check", "initialise", "mark", "take"}]
  /\ \A w \in Tills : sale[w].order \in 0..Len(orders) /\ sale[w].rest \subseteq Goods
  /\ desk.page \in {"none", "form", "saving", "list"} /\ crashes \in 0..MaxCrashes

Units(o, g) == IF g \in DOMAIN orders[o].cart THEN orders[o].cart[g] ELSE 0
Bought(g) == MapThenSumSet(LAMBDA o : Units(o, g), {o \in DOMAIN orders : orders[o].paystack = "success"})

\* Units leave the stock with paid orders only and once for each, however often
\* Paystack sends the event; and when nothing was oversold and no worker was
\* killed they have all left once the requests are over. It needs that two
\* deliveries of one event do not overlap (api_shop_webhook reads, then saves).
StockBooked ==
  \A g \in Goods :
    /\ FirstStock[g] - stock[g] <= Bought(g)
    /\ (/\ crashes = 0 /\ Bought(g) <= FirstStock[g]
        /\ \A w \in Tills : till[w] = "idle") => FirstStock[g] - stock[g] = Bought(g)

\* An order that has been shipped was paid for, and does not return to the
\* orders to be shipped: it would be shipped twice (api_shop_webhook sets
\* "paid" whatever the status is; the actions filter by status).
ShippedStep ==
  \A o \in DOMAIN orders :
    /\ orders'[o].status \in {"shipped", "delivered"} => deals[o] \in {"paid", "answered"}
    /\ orders[o].status \in {"shipped", "delivered"} => orders'[o].status \in {"shipped", "delivered"}

\* Whoever paid has an order marked paid in the end, through killed workers
\* and repeated deliveries (api_shop_webhook).
PaidIsSeen ==
  \A o \in 1..MaxOrders :
    (o \in DOMAIN deals /\ deals[o] = "paid") ~> (o \in DOMAIN orders /\ orders[o].paystack = "success")
=============================================================================
