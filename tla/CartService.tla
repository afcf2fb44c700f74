----------------------------- MODULE CartService -----------------------------
(***************************************************************************)
(* What the shopping cart API promises its clients, without statements,    *)
(* status codes or connections: every request takes effect at one instant  *)
(* between its call and its answer, or not at all, and its answer says     *)
(* what the carts were at that instant.  Two things keep the store from    *)
(* being a plain map: a request that fails may have taken effect, and a    *)
(* cart that goes away during a request may be reported as found.          *)
(***************************************************************************)
CONSTANTS
    Client,
    CartId, ItemId,
    Malformed,     \* a path parameter that is no identifier
    Quantity

VARIABLES
    carts,     \* the carts there are
    items,     \* the rows of all carts
    ids,       \* the identifiers ever given out: none is given out twice
    call,      \* each client's request
    answer     \* the last answer each client got

vars == <<carts, items, ids, call, answer>>

Row == [item : ItemId, cart : CartId, quantity : Quantity]
Request == [op : {"create", "get", "delete", "add", "update", "remove"},
            cart : CartId \union {Malformed}, item : ItemId \union {Malformed},
            quantity : Quantity]
Result == {"none", "ok", "absent", "failed"}
Answer(result, body) == [result |-> result, body |-> body]
NoAnswer == Answer("none", {})

Idle == [phase |-> "idle"]
Called(request, found) == [phase |-> "called", request |-> request, found |-> found]
Done(a) == [phase |-> "done", answer |-> a]

Init ==
    /\ carts = {}
    /\ items = {}
    /\ ids = {}
    /\ call = [cl \in Client |-> Idle]
    /\ answer = [cl \in Client |-> NoAnswer]

Calls(cl) ==
    /\ call[cl] = Idle /\ call'[cl] # Idle
    /\ UNCHANGED <<carts, items, ids, answer>>
    /\ \E request \in Request :
          call' = [call EXCEPT ![cl] = Called(request, request.cart \in carts)]

Answers(cl) ==
    /\ call[cl].phase = "done"
    /\ answer' = [answer EXCEPT ![cl] = call[cl].answer]
    /\ call' = [call EXCEPT ![cl] = Idle]
    /\ UNCHANGED <<carts, items, ids>>

Pending(cl, op) == call[cl].phase = "called" /\ call[cl].request.op = op
Ends(cl, result, body) == call' = [call EXCEPT ![cl] = Done(Answer(result, body))]
RowsOf(c) == {row \in items : row.cart = c}
Named(request) == {row \in RowsOf(request.cart) : row.item = request.item}

(* An error, before the request takes effect or after. *)
Fails(cl) ==
    /\ call[cl].phase # "idle"
    /\ Ends(cl, "failed", {})
    /\ UNCHANGED <<carts, items, ids, answer>>

NotFound(cl) ==
    /\ call[cl].phase = "called"
    /\ call[cl].request.op \in {"get", "delete", "add"} => call[cl].request.cart \notin carts
    /\ call[cl].request.op \in {"update", "remove"} => Named(call[cl].request) = {}
    /\ call[cl].request.op # "create"
    /\ Ends(cl, "absent", {})
    /\ UNCHANGED <<carts, items, ids, answer>>

(* The cart was there when the request was made. *)
GoneMeanwhile(cl) ==
    /\ Pending(cl, "get") \/ Pending(cl, "delete")
    /\ call[cl].found
    /\ call[cl].request.cart \notin carts
    /\ Ends(cl, "ok", {})
    /\ UNCHANGED <<carts, items, ids, answer>>

Create(cl) ==
    /\ Pending(cl, "create")
    /\ \E c \in CartId \ ids :
          /\ carts' = carts \union {c}
          /\ ids' = ids \union {c}
          /\ Ends(cl, "ok", {c})
    /\ UNCHANGED <<items, answer>>

Get(cl) ==
    /\ Pending(cl, "get")
    /\ call[cl].request.cart \in carts
    /\ Ends(cl, "ok", RowsOf(call[cl].request.cart))
    /\ UNCHANGED <<carts, items, ids, answer>>

Delete(cl) ==
    /\ Pending(cl, "delete")
    /\ call[cl].request.cart \in carts
    /\ carts' = carts \ {call[cl].request.cart}
    /\ items' = items \ RowsOf(call[cl].request.cart)
    /\ Ends(cl, "ok", {})
    /\ UNCHANGED <<ids, answer>>

(* A cart is given an item only if it was there when the request was made. *)
Add(cl) ==
    /\ Pending(cl, "add")
    /\ call[cl].found
    /\ call[cl].request.cart \in carts
    /\ \E i \in ItemId \ ids :
          LET row == [item |-> i, cart |-> call[cl].request.cart,
                      quantity |-> call[cl].request.quantity]
          IN  /\ items' = items \union {row}
              /\ ids' = ids \union {i}
              /\ Ends(cl, "ok", {row})
    /\ UNCHANGED <<carts, answer>>

Update(cl) ==
    /\ Pending(cl, "update")
    /\ \E row \in Named(call[cl].request) :
          LET updated == [row EXCEPT !.quantity = call[cl].request.quantity]
          IN  /\ items' = (items \ {row}) \union {updated}
              /\ Ends(cl, "ok", {updated})
    /\ UNCHANGED <<carts, ids, answer>>

Remove(cl) ==
    /\ Pending(cl, "remove")
    /\ \E row \in Named(call[cl].request) : items' = items \ {row}
    /\ Ends(cl, "ok", {})
    /\ UNCHANGED <<carts, ids, answer>>

Next ==
    \E cl \in Client :
        \/ Calls(cl)
        \/ Create(cl) \/ Get(cl) \/ Delete(cl) \/ Add(cl) \/ Update(cl) \/ Remove(cl)
        \/ NotFound(cl) \/ GoneMeanwhile(cl) \/ Fails(cl)
        \/ Answers(cl)

Spec == Init /\ [][Next]_vars
=============================================================================
