------------------------------ MODULE CartStore ------------------------------
(***************************************************************************)
(* The shopping cart example: the six routes of example/rest/shoppingcart/ *)
(* endpoint and the statements each makes through PostgresStore of         *)
(* service/database/database.go.  A statement is atomic; an operation is   *)
(* several statements and has no transaction, so requests interleave       *)
(* between them, and an error leaves the earlier ones done.  NOW() is the  *)
(* time a statement begins at: of the times, the model keeps whether a     *)
(* cart's updated_at is before the created_at of an item.                  *)
(***************************************************************************)
EXTENDS Integers, FiniteSets

CONSTANTS
    Client,         \* clients with one request each at a time
    CartId, ItemId,
    Malformed,      \* a path parameter uuid.Parse refuses
    Quantity,
    MaxRequests,    \* bound on the requests of all clients
    MaxFaults       \* bound on the statements that fail

ASSUME IdAssumption ==
    /\ Malformed \notin CartId \union ItemId
    /\ CartId \intersect ItemId = {}
ASSUME QuantityAssumption == Quantity \subseteq Int /\ 0 \in Quantity
ASSUME BoundAssumption == MaxRequests \in Nat /\ MaxFaults \in Nat

VARIABLES
    carts,       \* the rows of table carts
    items,       \* the rows of table cart_items
    ids,         \* the identifiers gen_random_uuid has made
    stale,       \* the carts whose updated_at is before the created_at of an item added
    touch,       \* where the UPDATE carts of each client's addition is
    missed,      \* history: the carts whose last update failed or was overtaken
    call,        \* where each client's request is
    answer,      \* the response each client got last
    requests, faults

boundVars == <<requests, faults>>
times == <<stale, touch, missed>>
tables == <<carts, items, ids, times>>
vars == <<tables, call, answer, boundVars>>

Row == [item : ItemId, cart : CartId, quantity : Quantity]
Op == {"create", "get", "delete", "add", "update", "remove"}
Request == [op : Op, cart : CartId \union {Malformed}, item : ItemId \union {Malformed},
            quantity : Quantity]
Body == SUBSET (Row \union CartId)
Error == {"nil", "NotFoundError", "ErrCartNotFound", "ErrItemNotFound", "failed"}
Response == [status : {0, 200, 201, 204, 404, 500}, body : Body]

(***************************************************************************)
(* The routes: the path parameters a handler parses, the error of the      *)
(* store it answers 404 for, and the status of a success.                  *)
(***************************************************************************)
Route(params, notFound, success) ==
    [params |-> params, notFound |-> notFound, success |-> success]

CreateCartRoute == Route({}, {}, 201)
GetCartRoute == Route({"cart"}, {"ErrCartNotFound"}, 200)
DeleteCartRoute == Route({"cart"}, {"ErrCartNotFound"}, 204)
AddCartItemRoute == Route({"cart"}, {"ErrCartNotFound"}, 201)
UpdateCartItemRoute == Route({"cart", "item"}, {"ErrItemNotFound"}, 200)
RemoveCartItemRoute == Route({"cart", "item"}, {"ErrItemNotFound"}, 204)

Routes ==
    [create |-> CreateCartRoute, get |-> GetCartRoute, delete |-> DeleteCartRoute,
     add |-> AddCartItemRoute, update |-> UpdateCartItemRoute, remove |-> RemoveCartItemRoute]

(* ErrorJSON[NotFoundError] takes the 404s, CatchAll every other error. *)
Status(op, err) ==
    IF err = "nil" THEN Routes[op].success
    ELSE IF err \in {"NotFoundError"} \union Routes[op].notFound THEN 404
    ELSE 500

-----------------------------------------------------------------------------
Idle == [at |-> "idle"]
Statement == {"insertCart", "selectCart", "selectItems", "deleteCart", "insertItem",
              "updateItem", "deleteItem"}

(* found: whether the cart was there when the request arrived (history).   *)
Working(at, request, found) == [at |-> at, request |-> request, found |-> found]
Touching(request, row) == [at |-> "touchCart", request |-> request, row |-> row]
Responding(request, err, body) ==
    [at |-> "respond", request |-> request, err |-> err, body |-> body]

(* An update that began before another item was added is overtaken. *)
Touch == {"none", "begun", "overtaken"}

Call ==
    {Idle}
    \union [at : {"handle"} \union Statement, request : Request, found : BOOLEAN]
    \union [at : {"touchCart"}, request : Request, row : Row]
    \union [at : {"respond"}, request : Request, err : Error, body : Body]

Goes(cl, to) == call' = [call EXCEPT ![cl] = to]
Ends(cl, err, body) == Goes(cl, Responding(call[cl].request, err, body))
Continues(cl, at) == Goes(cl, Working(at, call[cl].request, call[cl].found))

TypeOK ==
    /\ carts \subseteq CartId
    /\ items \subseteq Row
    /\ ids \subseteq CartId \union ItemId
    /\ stale \subseteq CartId
    /\ touch \in [Client -> Touch]
    /\ missed \subseteq CartId
    /\ call \in [Client -> Call]
    /\ answer \in [Client -> Response]
    /\ requests \in 0 .. MaxRequests
    /\ faults \in 0 .. MaxFaults

Init ==
    /\ carts = {}
    /\ items = {}
    /\ ids = {}
    /\ stale = {}
    /\ touch = [cl \in Client |-> "none"]
    /\ missed = {}
    /\ call = [cl \in Client |-> Idle]
    /\ answer = [cl \in Client |-> [status |-> 0, body |-> {}]]
    /\ requests = 0
    /\ faults = 0

(***************************************************************************)
(* The handlers.  A client knows an identifier once it has been made; what *)
(* a route does not read is pinned.                                        *)
(***************************************************************************)
Sendable(request) ==
    /\ request.cart \in ids \union {Malformed}
    /\ request.item \in ids \union {Malformed}
    /\ "cart" \notin Routes[request.op].params => request.cart = Malformed
    /\ "item" \notin Routes[request.op].params => request.item = Malformed
    /\ request.op \notin {"add", "update"} => request.quantity = 0

(* Bound: the identifiers are finite, and no insert may wait for one. *)
Unserved(op) == {cl \in Client : call[cl].at # "idle" /\ call[cl].request.op = op}
IdsLeft(op) ==
    /\ op = "create" => Cardinality(Unserved(op)) < Cardinality(CartId \ ids)
    /\ op = "add" => Cardinality(Unserved(op)) < Cardinality(ItemId \ ids)

Arrives(cl, request) ==
    /\ call[cl] = Idle
    /\ requests < MaxRequests
    /\ IdsLeft(request.op)
    /\ Sendable(request)
    /\ requests' = requests + 1
    /\ Goes(cl, Working("handle", request, request.cart \in carts))
    /\ UNCHANGED <<tables, answer, faults>>

(* Mutant of FirstStatement: DeleteCart does not look for the cart first. *)
FirstStatementUnchecked ==
    [create |-> "insertCart", get |-> "selectCart", delete |-> "deleteCart",
     add |-> "selectCart", update |-> "updateItem", remove |-> "deleteItem"]

FirstStatement ==
    [create |-> "insertCart", get |-> "selectCart", delete |-> "selectCart",
     add |-> "selectCart", update |-> "updateItem", remove |-> "deleteItem"]

Handle(cl) ==
    /\ call[cl].at = "handle"
    /\ LET request == call[cl].request
           params == Routes[request.op].params
       IN  IF \/ "cart" \in params /\ request.cart = Malformed
              \/ "item" \in params /\ request.item = Malformed
           THEN Ends(cl, "NotFoundError", {})
           ELSE Continues(cl, FirstStatement[request.op])
    /\ UNCHANGED <<tables, answer, boundVars>>

Respond(cl) ==
    /\ call[cl].at = "respond"
    /\ LET status == Status(call[cl].request.op, call[cl].err)
       IN  answer' = [answer EXCEPT ![cl] =
                        [status |-> status,
                         body |-> IF status \in {404, 500} THEN {} ELSE call[cl].body]]
    /\ Goes(cl, Idle)
    /\ UNCHANGED <<tables, boundVars>>

-----------------------------------------------------------------------------
(***************************************************************************)
(* The store.  Executes(cl, at, op) is a statement of operation op.        *)
(***************************************************************************)
Executes(cl, at, op) ==
    /\ call[cl].at = at
    /\ call[cl].request.op = op
    /\ UNCHANGED <<answer, boundVars>>

Rows(c) == {row \in items : row.cart = c}
Matching(request) == {row \in Rows(request.cart) : row.item = request.item}

SelectCart(cl, op, next) ==
    /\ Executes(cl, "selectCart", op)
    /\ IF call[cl].request.cart \in carts
       THEN Continues(cl, next)
       ELSE Ends(cl, "ErrCartNotFound", {})
    /\ UNCHANGED tables

CreateCart(cl) ==
    /\ Executes(cl, "insertCart", "create")
    /\ \E c \in CartId \ ids :
          /\ carts' = carts \union {c}
          /\ ids' = ids \union {c}
          /\ Ends(cl, "nil", {c})
    /\ UNCHANGED <<items, times>>

GetCart(cl) ==
    \/ SelectCart(cl, "get", "selectItems")
    \/ /\ Executes(cl, "selectItems", "get")
       /\ Ends(cl, "nil", Rows(call[cl].request.cart))
       /\ UNCHANGED tables

(* Deletes no row when another deletion came between its two statements;   *)
(* the items go by the schema's ON DELETE CASCADE.                         *)
DeleteCart(cl) ==
    \/ SelectCart(cl, "delete", "deleteCart")
    \/ /\ Executes(cl, "deleteCart", "delete")
       /\ carts' = carts \ {call[cl].request.cart}
       /\ items' = items \ Rows(call[cl].request.cart)
       /\ stale' = stale \ {call[cl].request.cart}
       /\ Ends(cl, "nil", {})
       /\ UNCHANGED <<ids, touch, missed>>

(* Mutant of Accepts: cart_items does not reference carts. *)
AcceptsOrphans(request) == request.quantity > 0

(* The references and the check of cart_items. *)
Accepts(request) == request.cart \in carts /\ request.quantity > 0

(* The other additions whose update of the cart has begun are overtaken.   *)
(* Its created_at is no later than the step that inserts the item.         *)
InsertItem(cl) ==
    /\ Executes(cl, "insertItem", "add")
    /\ LET request == call[cl].request IN
       \/ ~Accepts(request) /\ Ends(cl, "failed", {}) /\ UNCHANGED tables
       \/ /\ Accepts(request)
          /\ \E i \in ItemId \ ids :
                LET row == [item |-> i, cart |-> request.cart, quantity |-> request.quantity]
                IN  /\ items' = items \union {row}
                    /\ ids' = ids \union {i}
                    /\ Goes(cl, Touching(request, row))
          /\ stale' = stale \union {request.cart}
          /\ touch' = [d \in Client |->
                          IF touch[d] = "begun" /\ call[d].request.cart = request.cart
                          THEN "overtaken" ELSE touch[d]]
          /\ UNCHANGED <<carts, missed>>

(* The update takes its NOW(), and may then wait for the row. *)
BeginTouch(cl) ==
    /\ Executes(cl, "touchCart", "add")
    /\ touch[cl] = "none"
    /\ touch' = [touch EXCEPT ![cl] = "begun"]
    /\ UNCHANGED <<carts, items, ids, stale, missed, call>>

(* Mutant of TouchCart: the update of the cart is left out. *)
TouchNothing(cl) ==
    /\ Executes(cl, "touchCart", "add")
    /\ touch' = [touch EXCEPT ![cl] = "none"]
    /\ Ends(cl, "nil", {call[cl].row})
    /\ UNCHANGED <<carts, items, ids, stale, missed>>

(* An update that was overtaken sets the cart's time back. *)
TouchCart(cl) ==
    /\ Executes(cl, "touchCart", "add")
    /\ LET c == call[cl].request.cart IN
       \/ /\ touch[cl] = "begun"
          /\ stale' = stale \ {c}
          /\ missed' = missed \ {c}
       \/ /\ touch[cl] = "overtaken"
          /\ stale' = stale \union ({c} \intersect carts)
          /\ missed' = missed \union {c}
    /\ touch' = [touch EXCEPT ![cl] = "none"]
    /\ Ends(cl, "nil", {call[cl].row})
    /\ UNCHANGED <<carts, items, ids>>

AddCartItem(cl) ==
    SelectCart(cl, "add", "insertItem") \/ InsertItem(cl) \/ BeginTouch(cl) \/ TouchCart(cl)

(* Mutant of SetQuantity: the statement adds to the quantity. *)
AddQuantity(row, quantity) == [row EXCEPT !.quantity = @ + quantity]

SetQuantity(row, quantity) == [row EXCEPT !.quantity = quantity]

(* The check of the quantity bites only if there is a row to update.  The  *)
(* item's own updated_at moves, and its cart is not touched.               *)
UpdateCartItem(cl) ==
    /\ Executes(cl, "updateItem", "update")
    /\ LET request == call[cl].request IN
       \/ Matching(request) = {} /\ Ends(cl, "ErrItemNotFound", {}) /\ UNCHANGED items
       \/ Matching(request) # {} /\ request.quantity <= 0
             /\ Ends(cl, "failed", {}) /\ UNCHANGED items
       \/ /\ request.quantity > 0
          /\ \E row \in Matching(request) :
                LET updated == SetQuantity(row, request.quantity)
                IN  items' = (items \ {row}) \union {updated} /\ Ends(cl, "nil", {updated})
    /\ UNCHANGED <<carts, ids, times>>

RemoveCartItem(cl) ==
    /\ Executes(cl, "deleteItem", "remove")
    /\ IF Matching(call[cl].request) = {}
       THEN Ends(cl, "ErrItemNotFound", {}) /\ UNCHANGED items
       ELSE Ends(cl, "nil", {}) /\ items' = items \ Matching(call[cl].request)
    /\ UNCHANGED <<carts, ids, times>>

(* A statement is refused, or its answer is lost after it took effect; it  *)
(* takes no effect later.                                                  *)
StatementFails(cl) ==
    /\ faults < MaxFaults
    /\ \/ call[cl].at \in Statement \union {"touchCart"}
       \/ call[cl].at = "respond" /\ call[cl].err = "nil"
    /\ faults' = faults + 1
    /\ missed' = IF call[cl].at = "touchCart" THEN missed \union {call[cl].request.cart}
                 ELSE missed
    /\ touch' = [touch EXCEPT ![cl] = "none"]
    /\ Ends(cl, "failed", {})
    /\ UNCHANGED <<carts, items, ids, stale, answer, requests>>

(* The clients have nothing more to ask. *)
Quiet ==
    /\ requests = MaxRequests
    /\ \A cl \in Client : call[cl] = Idle
    /\ UNCHANGED vars

Serves(cl) ==
    \/ \E request \in Request : Arrives(cl, request)
    \/ Handle(cl)
    \/ CreateCart(cl) \/ GetCart(cl) \/ DeleteCart(cl)
    \/ AddCartItem(cl) \/ UpdateCartItem(cl) \/ RemoveCartItem(cl)
    \/ StatementFails(cl)
    \/ Respond(cl)

Next == (\E cl \in Client : Serves(cl)) \/ Quiet

Spec == Init /\ [][Next]_vars

-----------------------------------------------------------------------------
(* No interleaving of additions and deletions leaves an item in a cart     *)
(* that is gone, where no request could reach it: AddCartItem checks the   *)
(* cart in an earlier statement than its insert, DeleteCart deletes no     *)
(* item itself, so both rest on the references of the schema.              *)
ItemsHaveCarts == \A row \in items : row.cart \in carts

(* AddCartItem updates the cart's time after an item's, in a statement of  *)
(* its own that other additions overtake.  A cart's updated_at is behind   *)
(* the created_at of an item added to it only while an addition has yet to *)
(* update it, or when its last update failed or was overtaken: such an     *)
(* update sets the cart's time back although both additions are answered   *)
(* 201, until an update that nothing overtakes makes up for it.            *)
StaleOnlyIfMissed ==
    \A c \in stale \ missed :
        \E cl \in Client : call[cl].at = "touchCart" /\ call[cl].request.cart = c

(* The statements of an operation together are as good as one: every       *)
(* request takes effect at one instant between its arrival and its         *)
(* response, which reports the carts of that instant, as CartService says. *)
Outcome(status) ==
    CASE status = 0 -> "none"
      [] status \in {200, 201, 204} -> "ok"
      [] status = 404 -> "absent"
      [] status = 500 -> "failed"

Seen(c) ==
    CASE c.at = "idle" -> [phase |-> "idle"]
      [] c.at \in {"handle"} \union Statement ->
            [phase |-> "called", request |-> c.request, found |-> c.found]
      [] c.at = "touchCart" ->
            [phase |-> "done", answer |-> [result |-> "ok", body |-> {c.row}]]
      [] c.at = "respond" ->
            [phase |-> "done",
             answer |-> [result |-> Outcome(Status(c.request.op, c.err)), body |-> c.body]]

callSeen == [cl \in Client |-> Seen(call[cl])]
answerSeen ==
    [cl \in Client |-> [result |-> Outcome(answer[cl].status), body |-> answer[cl].body]]

Service == INSTANCE CartService WITH call <- callSeen, answer <- answerSeen

ImplementsCartService == Service!Spec
=============================================================================
