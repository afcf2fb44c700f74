--------------------------- MODULE CartStoreProofs ---------------------------
(***************************************************************************)
(* Proofs about CartStore for any clients, identifiers, quantities and     *)
(* bounds: the types, the two invariants of the tables, and that the       *)
(* statements of the store implement CartService.                          *)
(***************************************************************************)
EXTENDS CartStore, TLAPS

(* An identifier is used for one row only. *)
IdsAreUsedOnce ==
    /\ carts \subseteq ids
    /\ \A row \in items : row.item \in ids
    /\ \A row, other \in items : row.item = other.item => row = other
    /\ stale \subseteq carts

(* A cart that was gone when a request for it arrived does not come back,  *)
(* so a request that got past selectCart found it there.                   *)
Searching(c) ==
    c.at \in {"handle"} \union Statement =>
        /\ c.request.cart \in ids \union {Malformed}
        /\ ~c.found => c.request.cart \notin carts
        /\ c.at \in {"selectItems", "deleteCart", "insertItem"} => c.found
SearchesAreCurrent == \A cl \in Client : Searching(call[cl])

(* An error has no body. *)
ErrorsAreBare ==
    \A cl \in Client : call[cl].at = "respond" /\ call[cl].err # "nil" => call[cl].body = {}

(* An addition touches the cart of its row. *)
TouchesItsCart ==
    \A cl \in Client : call[cl].at = "touchCart" => call[cl].request.cart = call[cl].row.cart

IInv ==
    /\ TypeOK
    /\ IdsAreUsedOnce
    /\ ItemsHaveCarts
    /\ StaleOnlyIfMissed
    /\ SearchesAreCurrent
    /\ ErrorsAreBare
    /\ TouchesItsCart

USE IdAssumption, QuantityAssumption, BoundAssumption DEF times

(* No table has a row and no client a request. *)
LEMMA InitIInv == Init => IInv
<1> SUFFICES ASSUME Init PROVE IInv
  OBVIOUS
<1>1. TypeOK
  BY DEF Init, TypeOK, Touch, Call, Idle, Response, Body
<1>2. ItemsHaveCarts /\ StaleOnlyIfMissed /\ IdsAreUsedOnce
  BY DEF Init, ItemsHaveCarts, StaleOnlyIfMissed, IdsAreUsedOnce
<1>3. SearchesAreCurrent /\ ErrorsAreBare /\ TouchesItsCart
  BY DEF Init, SearchesAreCurrent, TouchesItsCart, Searching, Statement, ErrorsAreBare, Idle
<1> QED
  BY <1>1, <1>2, <1>3 DEF IInv

-----------------------------------------------------------------------------
(* Where a client's request is tells what is known of it. *)
LEMMA CallKinds ==
  ASSUME NEW c \in Call
  PROVE  /\ c.at = "idle" => c = Idle
         /\ c.at \in {"idle", "handle", "touchCart", "respond"} \union Statement
         /\ c.at # "idle" => c.request \in Request
         /\ c.at \in {"handle"} \union Statement => c.found \in BOOLEAN
         /\ c.at = "touchCart" => c.row \in Row
         /\ c.at = "respond" => c.err \in Error /\ c.body \in Body
<1>1. CASE c = Idle
  BY <1>1 DEF Idle, Statement
<1>2. CASE c \in [at : {"handle"} \union Statement, request : Request, found : BOOLEAN]
  BY <1>2 DEF Statement
<1>3. CASE c \in [at : {"touchCart"}, request : Request, row : Row]
  BY <1>3 DEF Statement
<1>4. CASE c \in [at : {"respond"}, request : Request, err : Error, body : Body]
  BY <1>4 DEF Statement
<1> QED
  BY <1>1, <1>2, <1>3, <1>4 DEF Call

(* Every step a request takes leads to a place of its own. *)
LEMMA CallTypes ==
  ASSUME NEW request \in Request
  PROVE  /\ Idle \in Call
         /\ \A at \in {"handle"} \union Statement, found \in BOOLEAN :
               Working(at, request, found) \in Call
         /\ \A row \in Row : Touching(request, row) \in Call
         /\ \A err \in Error, body \in Body : Responding(request, err, body) \in Call
  BY DEF Call, Working, Touching, Responding

(* One client's request moves and no other does. *)
LEMMA OneMoves ==
  ASSUME call \in [Client -> Call], NEW cl \in Client, NEW to \in Call, Goes(cl, to)
  PROVE  /\ call' \in [Client -> Call]
         /\ call'[cl] = to
         /\ \A d \in Client \ {cl} : call'[d] = call[d]
  BY DEF Goes

(* A request ends with a response to it, and continues with a statement.   *)
LEMMA EndsAndContinues ==
  ASSUME TypeOK, NEW cl \in Client, call[cl].at # "idle"
  PROVE  /\ \A err \in Error, body \in Body : Ends(cl, err, body) =>
               /\ call' \in [Client -> Call]
               /\ call'[cl] = Responding(call[cl].request, err, body)
               /\ \A d \in Client \ {cl} : call'[d] = call[d]
         /\ call[cl].at \in {"handle"} \union Statement =>
               \A at \in {"handle"} \union Statement : Continues(cl, at) =>
                  /\ call' \in [Client -> Call]
                  /\ call'[cl] = Working(at, call[cl].request, call[cl].found)
                  /\ \A d \in Client \ {cl} : call'[d] = call[d]
<1>1. call \in [Client -> Call] /\ call[cl] \in Call /\ call[cl].request \in Request
  BY CallKinds DEF TypeOK
<1>2. ASSUME NEW err \in Error, NEW body \in Body, Ends(cl, err, body)
      PROVE  /\ call' \in [Client -> Call]
             /\ call'[cl] = Responding(call[cl].request, err, body)
             /\ \A d \in Client \ {cl} : call'[d] = call[d]
  <2>1. Responding(call[cl].request, err, body) \in Call
    BY <1>1, CallTypes
  <2> QED
    BY <1>1, <1>2, <2>1, OneMoves DEF Ends
<1>3. ASSUME call[cl].at \in {"handle"} \union Statement,
             NEW at \in {"handle"} \union Statement, Continues(cl, at)
      PROVE  /\ call' \in [Client -> Call]
             /\ call'[cl] = Working(at, call[cl].request, call[cl].found)
             /\ \A d \in Client \ {cl} : call'[d] = call[d]
  <2>1. Working(at, call[cl].request, call[cl].found) \in Call
    BY <1>1, <1>3, CallTypes, CallKinds
  <2> QED
    BY <1>1, <1>3, <2>1, OneMoves DEF Continues
<1> QED
  BY <1>2, <1>3

(* What a request is about. *)
LEMMA RequestTypes ==
  ASSUME NEW request \in Request
  PROVE  /\ request.op \in Op
         /\ request.cart \in CartId \union {Malformed}
         /\ request.item \in ItemId \union {Malformed}
         /\ request.quantity \in Quantity
  BY DEF Request

LEMMA RowTypes ==
  ASSUME NEW row \in Row
  PROVE  row.item \in ItemId /\ row.cart \in CartId /\ row.quantity \in Quantity
  BY DEF Row

(* Every status is one of six. *)
LEMMA StatusTypes ==
  ASSUME NEW op \in Op, NEW err \in Error
  PROVE  /\ Status(op, err) \in {200, 201, 204, 404, 500}
         /\ err = "nil" <=> Status(op, err) \in {200, 201, 204}
  BY DEF Op, Status, Routes, Route, CreateCartRoute, GetCartRoute, DeleteCartRoute,
         AddCartItemRoute, UpdateCartItemRoute, RemoveCartItemRoute

-----------------------------------------------------------------------------
(* A step of one client keeps the types, moves no other client's request   *)
(* and forgets no identifier.                                              *)
Moves(cl) ==
    /\ TypeOK'
    /\ \A d \in Client \ {cl} : call'[d] = call[d]
    /\ ids \subseteq ids'

LEMMA ArrivesMoves ==
  ASSUME TypeOK, NEW cl \in Client, NEW request \in Request, Arrives(cl, request)
  PROVE  /\ Moves(cl)
         /\ call'[cl] = Working("handle", request, request.cart \in carts)
<1> DEFINE to == Working("handle", request, request.cart \in carts)
<1>1. to \in Call
  <2>1. (request.cart \in carts) \in BOOLEAN
    OBVIOUS
  <2>2. \A found \in BOOLEAN : Working("handle", request, found) \in Call
    BY CallTypes
  <2> QED
    BY <2>1, <2>2, Zenon
<1> HIDE DEF to
<1>2. /\ call' \in [Client -> Call] /\ call'[cl] = to
      /\ \A d \in Client \ {cl} : call'[d] = call[d]
  <2>1. Goes(cl, to)
    BY DEF Arrives, to
  <2> QED
    BY <1>1, <2>1, OneMoves DEF TypeOK
<1>3. requests' \in 0 .. MaxRequests /\ UNCHANGED <<tables, answer, faults>>
  BY DEF Arrives, TypeOK
<1> QED
  BY <1>2, <1>3 DEF to, Moves, TypeOK, tables

LEMMA HandleMoves ==
  ASSUME TypeOK, NEW cl \in Client, Handle(cl)
  PROVE  /\ Moves(cl)
         /\ \/ call'[cl] = Responding(call[cl].request, "NotFoundError", {})
            \/ call'[cl] = Working(FirstStatement[call[cl].request.op],
                                   call[cl].request, call[cl].found)
<1> DEFINE op == call[cl].request.op
<1>1. call[cl].at = "handle" /\ op \in Op
  BY CallKinds, RequestTypes DEF Handle, TypeOK
<1>2. FirstStatement[op] \in Statement
  BY <1>1 DEF FirstStatement, Statement, Op
<1>3. "NotFoundError" \in Error /\ {} \in Body
  BY DEF Error, Body
<1>4. Ends(cl, "NotFoundError", {}) \/ Continues(cl, FirstStatement[op])
  BY DEF Handle
<1> HIDE DEF op
<1>5. /\ call' \in [Client -> Call]
      /\ \A d \in Client \ {cl} : call'[d] = call[d]
      /\ \/ call'[cl] = Responding(call[cl].request, "NotFoundError", {})
         \/ call'[cl] = Working(FirstStatement[op], call[cl].request, call[cl].found)
  BY <1>1, <1>2, <1>3, <1>4, EndsAndContinues
<1> QED
  BY <1>5 DEF op, Moves, Handle, TypeOK, tables, boundVars

LEMMA RespondMoves ==
  ASSUME TypeOK, NEW cl \in Client, Respond(cl)
  PROVE  /\ Moves(cl)
         /\ call'[cl] = Idle
<1>1. call[cl] \in Call /\ call[cl].at = "respond"
  BY DEF Respond, TypeOK
<1>2. call[cl].request.op \in Op /\ call[cl].err \in Error /\ call[cl].body \in Body
  BY <1>1, CallKinds, RequestTypes
<1>3. /\ call' \in [Client -> Call] /\ call'[cl] = Idle
      /\ \A d \in Client \ {cl} : call'[d] = call[d]
  <2>1. Goes(cl, Idle) /\ Idle \in Call
    BY DEF Respond, Call
  <2> QED
    BY <2>1, OneMoves DEF TypeOK
<1>4. answer' \in [Client -> Response]
  <2> DEFINE status == Status(call[cl].request.op, call[cl].err)
             response == [status |-> status,
                          body |-> IF status \in {404, 500} THEN {} ELSE call[cl].body]
  <2>1. status \in {200, 201, 204, 404, 500}
    BY <1>2, StatusTypes
  <2> HIDE DEF status
  <2>2. response \in Response
    BY <1>2, <2>1 DEF Response, Body
  <2>3. answer' = [answer EXCEPT ![cl] = response]
    BY DEF Respond, status
  <2> HIDE DEF response
  <2> QED
    BY <2>2, <2>3 DEF TypeOK
<1> QED
  BY <1>3, <1>4 DEF Moves, Respond, TypeOK, tables, boundVars

(* Where a statement leaves a request: with a response, or with the next   *)
(* statement.                                                              *)
Answered(cl, err, body) ==
    Moves(cl) /\ call'[cl] = Responding(call[cl].request, err, body)

LEMMA SelectCartMoves ==
  ASSUME TypeOK, NEW cl \in Client, NEW op, NEW next \in Statement, SelectCart(cl, op, next)
  PROVE  \/ /\ call[cl].request.cart \in carts
            /\ Moves(cl)
            /\ call'[cl] = Working(next, call[cl].request, call[cl].found)
         \/ call[cl].request.cart \notin carts /\ Answered(cl, "ErrCartNotFound", {})
<1>1. /\ call[cl].at = "selectCart" /\ "selectCart" \in Statement
      /\ UNCHANGED <<carts, items, ids, times, answer, requests, faults>>
  BY DEF SelectCart, Executes, Statement, tables, boundVars
<1>2. "ErrCartNotFound" \in Error /\ {} \in Body
  BY DEF Error, Body
<1>3. CASE call[cl].request.cart \in carts
  <2>1. Continues(cl, next)
    BY <1>3 DEF SelectCart
  <2>2. /\ call' \in [Client -> Call]
        /\ call'[cl] = Working(next, call[cl].request, call[cl].found)
        /\ \A d \in Client \ {cl} : call'[d] = call[d]
    BY <1>1, <2>1, EndsAndContinues
  <2> QED
    BY <1>1, <1>3, <2>2 DEF Moves, TypeOK
<1>4. CASE call[cl].request.cart \notin carts
  <2>1. Ends(cl, "ErrCartNotFound", {})
    BY <1>4 DEF SelectCart
  <2>2. /\ call' \in [Client -> Call]
        /\ call'[cl] = Responding(call[cl].request, "ErrCartNotFound", {})
        /\ \A d \in Client \ {cl} : call'[d] = call[d]
    BY <1>1, <1>2, <2>1, EndsAndContinues
  <2> QED
    BY <1>1, <1>4, <2>2 DEF Moves, Answered, TypeOK
<1> QED
  BY <1>3, <1>4

LEMMA CreateCartMoves ==
  ASSUME TypeOK, NEW cl \in Client, CreateCart(cl)
  PROVE  \E c \in CartId \ ids :
            /\ Answered(cl, "nil", {c})
            /\ carts' = carts \union {c} /\ ids' = ids \union {c}
<1>1. PICK c \in CartId \ ids :
        carts' = carts \union {c} /\ ids' = ids \union {c} /\ Ends(cl, "nil", {c})
  BY DEF CreateCart
<1>2. call[cl].at # "idle" /\ UNCHANGED <<items, times, answer, requests, faults>>
  BY DEF CreateCart, Executes, boundVars
<1>3. "nil" \in Error /\ {c} \in Body
  BY DEF Error, Body
<1>4. /\ call' \in [Client -> Call]
      /\ call'[cl] = Responding(call[cl].request, "nil", {c})
      /\ \A d \in Client \ {cl} : call'[d] = call[d]
  BY <1>1, <1>2, <1>3, EndsAndContinues
<1> QED
  BY <1>1, <1>2, <1>4 DEF Moves, Answered, TypeOK

LEMMA SelectItemsMoves ==
  ASSUME TypeOK, NEW cl \in Client, Executes(cl, "selectItems", "get"),
         Ends(cl, "nil", Rows(call[cl].request.cart)), UNCHANGED tables
  PROVE  Answered(cl, "nil", Rows(call[cl].request.cart))
<1>1. "nil" \in Error /\ Rows(call[cl].request.cart) \in Body
  BY DEF Error, Body, Rows, TypeOK
<1>2. call[cl].at # "idle"
  BY DEF Executes
<1>3. /\ call' \in [Client -> Call]
      /\ call'[cl] = Responding(call[cl].request, "nil", Rows(call[cl].request.cart))
      /\ \A d \in Client \ {cl} : call'[d] = call[d]
  BY <1>1, <1>2, EndsAndContinues
<1> QED
  BY <1>3 DEF Moves, Answered, TypeOK, Executes, tables, boundVars

LEMMA DeleteCartMoves ==
  ASSUME TypeOK, NEW cl \in Client, Executes(cl, "deleteCart", "delete"),
         carts' = carts \ {call[cl].request.cart},
         items' = items \ Rows(call[cl].request.cart),
         stale' = stale \ {call[cl].request.cart}, Ends(cl, "nil", {}),
         UNCHANGED <<ids, touch, missed>>
  PROVE  Answered(cl, "nil", {})
<1>1. "nil" \in Error /\ {} \in Body /\ call[cl].at # "idle"
  BY DEF Error, Body, Executes
<1>2. /\ call' \in [Client -> Call]
      /\ call'[cl] = Responding(call[cl].request, "nil", {})
      /\ \A d \in Client \ {cl} : call'[d] = call[d]
  BY <1>1, EndsAndContinues
<1> QED
  BY <1>2 DEF Moves, Answered, TypeOK, Executes, boundVars

LEMMA InsertItemMoves ==
  ASSUME TypeOK, NEW cl \in Client, InsertItem(cl)
  PROVE  \/ Answered(cl, "failed", {}) /\ UNCHANGED tables
         \/ /\ call[cl].request.cart \in carts
            /\ \E i \in ItemId \ ids :
                 LET row == [item |-> i, cart |-> call[cl].request.cart,
                             quantity |-> call[cl].request.quantity]
                 IN  /\ Moves(cl)
                     /\ row \in Row
                     /\ items' = items \union {row} /\ ids' = ids \union {i}
                     /\ stale' = stale \union {call[cl].request.cart}
                     /\ call'[cl] = Touching(call[cl].request, row)
                     /\ UNCHANGED <<carts, missed>>
<1>1. /\ call[cl].at # "idle" /\ call[cl].request \in Request
      /\ UNCHANGED <<answer, requests, faults>>
  BY CallKinds DEF InsertItem, Executes, boundVars, TypeOK
<1>2. CASE Ends(cl, "failed", {}) /\ UNCHANGED tables
  <2>1. "failed" \in Error /\ {} \in Body
    BY DEF Error, Body
  <2>2. /\ call' \in [Client -> Call]
        /\ call'[cl] = Responding(call[cl].request, "failed", {})
        /\ \A d \in Client \ {cl} : call'[d] = call[d]
    BY <1>1, <1>2, <2>1, EndsAndContinues
  <2> QED
    BY <1>1, <1>2, <2>2 DEF Moves, Answered, TypeOK, tables
<1>3. ASSUME ~(Ends(cl, "failed", {}) /\ UNCHANGED tables)
      PROVE  /\ call[cl].request.cart \in carts
             /\ \E i \in ItemId \ ids :
                  LET row == [item |-> i, cart |-> call[cl].request.cart,
                              quantity |-> call[cl].request.quantity]
                  IN  /\ Moves(cl)
                      /\ row \in Row
                      /\ items' = items \union {row} /\ ids' = ids \union {i}
                      /\ stale' = stale \union {call[cl].request.cart}
                      /\ call'[cl] = Touching(call[cl].request, row)
                      /\ UNCHANGED <<carts, missed>>
  <2>1. /\ call[cl].request.cart \in carts /\ UNCHANGED <<carts, missed>>
        /\ stale' = stale \union {call[cl].request.cart}
        /\ touch' = [d \in Client |->
                       IF touch[d] = "begun" /\ call[d].request.cart = call[cl].request.cart
                       THEN "overtaken" ELSE touch[d]]
    BY <1>3 DEF InsertItem, Accepts
  <2> DEFINE rowOf(i) == [item |-> i, cart |-> call[cl].request.cart,
                          quantity |-> call[cl].request.quantity]
  <2>2. PICK i \in ItemId \ ids :
          /\ items' = items \union {rowOf(i)} /\ ids' = ids \union {i}
          /\ Goes(cl, Touching(call[cl].request, rowOf(i)))
    BY <1>3 DEF InsertItem
  <2>3. rowOf(i) \in Row
    BY <1>1, <2>1, RequestTypes DEF Row, TypeOK
  <2> HIDE DEF rowOf
  <2>4. Touching(call[cl].request, rowOf(i)) \in Call
    BY <1>1, <2>3, CallTypes
  <2>5. /\ call' \in [Client -> Call]
        /\ call'[cl] = Touching(call[cl].request, rowOf(i))
        /\ \A d \in Client \ {cl} : call'[d] = call[d]
    BY <2>2, <2>4, OneMoves DEF TypeOK
  <2>6. touch' \in [Client -> Touch]
    BY <2>1 DEF TypeOK, Touch
  <2>7. Moves(cl)
    BY <1>1, <2>1, <2>2, <2>3, <2>5, <2>6 DEF Moves, TypeOK
  <2> QED
    BY <2>1, <2>2, <2>3, <2>5, <2>7 DEF rowOf
<1> QED
  BY <1>2, <1>3

(* The update of the cart begins: the request stays where it is. *)
LEMMA BeginTouchMoves ==
  ASSUME TypeOK, NEW cl \in Client, BeginTouch(cl)
  PROVE  Moves(cl) /\ UNCHANGED <<call, carts, items, ids, stale, missed, answer>>
<1>1. /\ UNCHANGED <<call, carts, items, ids, stale, missed, answer, requests, faults>>
      /\ touch' = [touch EXCEPT ![cl] = "begun"]
  BY DEF BeginTouch, Executes, boundVars
<1> QED
  BY <1>1 DEF Moves, TypeOK, Touch

LEMMA TouchCartMoves ==
  ASSUME TypeOK, TouchesItsCart, NEW cl \in Client, TouchCart(cl)
  PROVE  Answered(cl, "nil", {call[cl].row})
<1>1. /\ call[cl].at = "touchCart" /\ UNCHANGED <<answer, requests, faults>>
      /\ UNCHANGED <<carts, items, ids>>
      /\ touch' = [touch EXCEPT ![cl] = "none"]
      /\ Ends(cl, "nil", {call[cl].row})
  BY DEF TouchCart, Executes, boundVars
<1>2. "nil" \in Error /\ {call[cl].row} \in Body
  BY <1>1, CallKinds DEF Error, Body, TypeOK
<1>3. /\ call' \in [Client -> Call]
      /\ call'[cl] = Responding(call[cl].request, "nil", {call[cl].row})
      /\ \A d \in Client \ {cl} : call'[d] = call[d]
  BY <1>1, <1>2, EndsAndContinues
<1>4. stale' \subseteq CartId /\ missed' \subseteq CartId /\ touch' \in [Client -> Touch]
  <2>1. call[cl].request.cart \in CartId
    BY <1>1, CallKinds, RowTypes DEF TouchesItsCart, TypeOK
  <2> QED
    BY <1>1, <2>1 DEF TouchCart, TypeOK, Touch
<1> QED
  BY <1>1, <1>3, <1>4 DEF Moves, Answered, TypeOK

LEMMA UpdateCartItemMoves ==
  ASSUME TypeOK, NEW cl \in Client, UpdateCartItem(cl)
  PROVE  \/ /\ Matching(call[cl].request) = {}
            /\ Answered(cl, "ErrItemNotFound", {}) /\ UNCHANGED items
         \/ Answered(cl, "failed", {}) /\ UNCHANGED items
         \/ \E row \in Matching(call[cl].request) :
              LET updated == SetQuantity(row, call[cl].request.quantity)
              IN  /\ updated \in Row
                  /\ updated.item = row.item /\ updated.cart = row.cart
                  /\ items' = (items \ {row}) \union {updated}
                  /\ Answered(cl, "nil", {updated})
<1>1. /\ call[cl].at # "idle" /\ call[cl].request \in Request
      /\ UNCHANGED <<carts, ids, times, answer, requests, faults>>
  BY CallKinds DEF UpdateCartItem, Executes, boundVars, TypeOK
<1>2. ASSUME NEW err \in Error, NEW body \in Body, Ends(cl, err, body), items' \subseteq Row
      PROVE  Answered(cl, err, body)
  <2>1. /\ call' \in [Client -> Call]
        /\ call'[cl] = Responding(call[cl].request, err, body)
        /\ \A d \in Client \ {cl} : call'[d] = call[d]
    BY <1>1, <1>2, EndsAndContinues
  <2> QED
    BY <1>1, <1>2, <2>1 DEF Moves, Answered, TypeOK
<1>3. "failed" \in Error /\ "ErrItemNotFound" \in Error /\ "nil" \in Error /\ {} \in Body
  BY DEF Error, Body
<1>4. items \subseteq Row
  BY DEF TypeOK
<1>5. CASE \/ Matching(call[cl].request) = {} /\ Ends(cl, "ErrItemNotFound", {}) /\ UNCHANGED items
           \/ Ends(cl, "failed", {}) /\ UNCHANGED items
  BY <1>2, <1>3, <1>4, <1>5
<1>6. ASSUME NEW row \in Matching(call[cl].request),
             items' = (items \ {row}) \union {SetQuantity(row, call[cl].request.quantity)},
             Ends(cl, "nil", {SetQuantity(row, call[cl].request.quantity)})
      PROVE  LET updated == SetQuantity(row, call[cl].request.quantity)
             IN  /\ updated \in Row
                 /\ updated.item = row.item /\ updated.cart = row.cart
                 /\ items' = (items \ {row}) \union {updated}
                 /\ Answered(cl, "nil", {updated})
  <2> DEFINE updated == SetQuantity(row, call[cl].request.quantity)
  <2>1. row \in Row /\ call[cl].request.quantity \in Quantity
    BY <1>1, <1>4, RequestTypes DEF Matching, Rows
  <2>2. updated \in Row /\ updated.item = row.item /\ updated.cart = row.cart
    BY <2>1 DEF SetQuantity, Row
  <2> HIDE DEF updated
  <2>3. {updated} \in Body
    BY <2>2 DEF Body
  <2>4. Answered(cl, "nil", {updated})
    BY <1>2, <1>3, <1>4, <1>6, <2>2, <2>3 DEF updated
  <2> QED
    BY <1>6, <2>2, <2>4 DEF updated
<1> QED
  BY <1>5, <1>6 DEF UpdateCartItem

LEMMA RemoveCartItemMoves ==
  ASSUME TypeOK, NEW cl \in Client, RemoveCartItem(cl)
  PROVE  \/ /\ Matching(call[cl].request) = {}
            /\ Answered(cl, "ErrItemNotFound", {}) /\ UNCHANGED items
         \/ /\ Matching(call[cl].request) # {}
            /\ Answered(cl, "nil", {}) /\ items' = items \ Matching(call[cl].request)
<1>1. call[cl].at # "idle" /\ UNCHANGED <<carts, ids, times, answer, requests, faults>>
  BY DEF RemoveCartItem, Executes, boundVars
<1>2. ASSUME NEW err \in Error, Ends(cl, err, {}), items' \subseteq Row
      PROVE  Answered(cl, err, {})
  <2>1. {} \in Body
    BY DEF Body
  <2>2. /\ call' \in [Client -> Call]
        /\ call'[cl] = Responding(call[cl].request, err, {})
        /\ \A d \in Client \ {cl} : call'[d] = call[d]
    BY <1>1, <1>2, <2>1, EndsAndContinues
  <2> QED
    BY <1>1, <1>2, <2>2 DEF Moves, Answered, TypeOK
<1>3. "ErrItemNotFound" \in Error /\ "nil" \in Error
  BY DEF Error
<1> QED
  BY <1>2, <1>3 DEF RemoveCartItem, TypeOK

LEMMA StatementFailsMoves ==
  ASSUME TypeOK, TouchesItsCart, NEW cl \in Client, StatementFails(cl)
  PROVE  Answered(cl, "failed", {})
<1>1. call[cl].at # "idle" /\ faults < MaxFaults /\ faults' = faults + 1
      /\ UNCHANGED <<carts, items, ids, stale, answer, requests>>
      /\ touch' = [touch EXCEPT ![cl] = "none"]
      /\ Ends(cl, "failed", {})
  BY DEF StatementFails, Statement
<1>2. "failed" \in Error /\ {} \in Body
  BY DEF Error, Body
<1>3. /\ call' \in [Client -> Call]
      /\ call'[cl] = Responding(call[cl].request, "failed", {})
      /\ \A d \in Client \ {cl} : call'[d] = call[d]
  BY <1>1, <1>2, EndsAndContinues
<1>4. missed' \subseteq CartId /\ touch' \in [Client -> Touch]
  <2>1. call[cl].at = "touchCart" => call[cl].request.cart \in CartId
    BY CallKinds, RowTypes DEF TouchesItsCart, TypeOK
  <2> QED
    BY <1>1, <2>1 DEF StatementFails, TypeOK, Touch
<1> QED
  BY <1>1, <1>3, <1>4 DEF Moves, Answered, TypeOK

-----------------------------------------------------------------------------
(* What a step of one client must be like to keep the invariants of the    *)
(* others' requests: no cart comes back, and only the client itself ends   *)
(* what makes a cart's time late.                                          *)
LEMMA OthersKept ==
  ASSUME IInv, NEW cl \in Client, Moves(cl),
         \A c \in ids : c \in carts' => c \in carts,
         Searching(call[cl])',
         call'[cl].at = "respond" /\ call'[cl].err # "nil" => call'[cl].body = {},
         call'[cl].at = "touchCart" => call'[cl].request.cart = call'[cl].row.cart,
         \A c \in stale' \ missed' :
            \/ c \in stale \ missed /\ ~(call[cl].at = "touchCart" /\ call[cl].request.cart = c)
            \/ call'[cl].at = "touchCart" /\ call'[cl].request.cart = c
  PROVE  SearchesAreCurrent' /\ ErrorsAreBare' /\ TouchesItsCart' /\ StaleOnlyIfMissed'
<1>1. SearchesAreCurrent'
  <2>1. Malformed \notin carts'
    BY DEF Moves, TypeOK
  <2>2. ASSUME NEW d \in Client \ {cl} PROVE Searching(call[d])'
    <3>1. call'[d] = call[d] /\ ids \subseteq ids'
      BY DEF Moves
    <3>2. Searching(call[d])
      BY DEF IInv, SearchesAreCurrent
    <3> QED
      BY <2>1, <3>1, <3>2 DEF Searching
  <2> QED
    BY <2>2 DEF SearchesAreCurrent
<1>2. ErrorsAreBare' /\ TouchesItsCart'
  BY DEF Moves, IInv, ErrorsAreBare, TouchesItsCart
<1>3. StaleOnlyIfMissed'
  BY DEF Moves, IInv, StaleOnlyIfMissed
<1> QED
  BY <1>1, <1>2, <1>3

LEMMA AnswerKeeps ==
  ASSUME IInv, NEW cl \in Client, NEW err, NEW body, Answered(cl, err, body),
         err # "nil" => body = {},
         \A c \in ids : c \in carts' => c \in carts,
         stale' \ missed' \subseteq stale \ missed,
         call[cl].at = "touchCart" => call[cl].request.cart \notin stale' \ missed'
  PROVE  SearchesAreCurrent' /\ ErrorsAreBare' /\ TouchesItsCart' /\ StaleOnlyIfMissed'
<1>1. /\ Moves(cl) /\ call'[cl].at = "respond"
      /\ call'[cl].err = err /\ call'[cl].body = body
  BY DEF Answered, Responding
<1>2. Searching(call[cl])'
  BY <1>1 DEF Searching, Statement
<1> QED
  BY <1>1, <1>2, OthersKept

(* Every step of every client preserves IInv; one step per action. *)
LEMMA ServesIInv ==
  ASSUME IInv, NEW cl \in Client, Serves(cl)
  PROVE  IInv'
<1> DEFINE Kept == SearchesAreCurrent' /\ ErrorsAreBare' /\ TouchesItsCart' /\ StaleOnlyIfMissed'
<1>0. TypeOK
  BY DEF IInv
<1>a. ASSUME UNCHANGED <<carts, items, ids, stale>>
      PROVE  ItemsHaveCarts' /\ IdsAreUsedOnce'
  BY <1>a DEF IInv, ItemsHaveCarts, IdsAreUsedOnce
<1>b. ASSUME NEW err, Answered(cl, err, {}), UNCHANGED <<carts, items, ids, times>>,
             call[cl].at # "touchCart"
      PROVE  IInv'
  <2>1. Kept
    BY <1>b, AnswerKeeps
  <2> QED
    BY <1>a, <1>b, <2>1 DEF IInv, Answered, Moves
<1>1. ASSUME NEW request \in Request, Arrives(cl, request) PROVE IInv'
  <2> DEFINE found == request.cart \in carts
  <2>1. /\ Moves(cl) /\ UNCHANGED <<carts, items, ids, times>>
        /\ call'[cl] = Working("handle", request, found)
        /\ request.cart \in ids \union {Malformed} /\ call[cl].at # "touchCart"
    BY <1>0, <1>1, ArrivesMoves DEF Arrives, Sendable, tables, Idle
  <2>2. /\ call'[cl].at = "handle" /\ call'[cl].request = request
        /\ call'[cl].found = found
    BY <2>1 DEF Working
  <2>3. Searching(call[cl])'
    BY <2>1, <2>2 DEF Searching
  <2>4. Kept
    BY <2>1, <2>2, <2>3, OthersKept
  <2> QED
    BY <1>a, <2>1, <2>4 DEF IInv, Moves
<1>2. CASE Handle(cl)
  <2>1. /\ call[cl].at = "handle" /\ UNCHANGED <<carts, items, ids, times>>
        /\ call[cl].request.op \in Op
    BY <1>0, <1>2, CallKinds, RequestTypes DEF Handle, tables, TypeOK
  <2>2. CASE call'[cl] = Responding(call[cl].request, "NotFoundError", {})
    BY <1>0, <1>2, <1>b, <2>1, <2>2, HandleMoves DEF Answered
  <2>3. CASE call'[cl] = Working(FirstStatement[call[cl].request.op],
                                 call[cl].request, call[cl].found)
    <3>1. /\ call'[cl].at = FirstStatement[call[cl].request.op]
          /\ call'[cl].request = call[cl].request /\ call'[cl].found = call[cl].found
      BY <2>3 DEF Working
    <3>2. /\ call'[cl].at \in {"insertCart", "selectCart", "updateItem", "deleteItem"}
      BY <2>1, <3>1 DEF FirstStatement, Op
    <3>3. Searching(call[cl])'
      BY <2>1, <3>1, <3>2 DEF Searching, IInv, SearchesAreCurrent
    <3>4. Kept
      BY <1>0, <1>2, <2>1, <3>2, <3>3, HandleMoves, OthersKept
    <3> QED
      BY <1>0, <1>2, <1>a, <2>1, <3>4, HandleMoves DEF IInv, Moves
  <2> QED
    BY <1>0, <1>2, <2>2, <2>3, HandleMoves
<1>3. CASE Respond(cl)
  <2>1. /\ Moves(cl) /\ call'[cl] = Idle /\ call[cl].at = "respond"
        /\ UNCHANGED <<carts, items, ids, times>>
    BY <1>0, <1>3, RespondMoves DEF Respond, tables
  <2>2. Searching(call[cl])' /\ call'[cl].at = "idle"
    BY <2>1 DEF Searching, Statement, Idle
  <2>3. Kept
    BY <2>1, <2>2, OthersKept
  <2> QED
    BY <1>a, <2>1, <2>3 DEF IInv, Moves
<1>4. ASSUME NEW op, NEW next \in {"selectItems", "deleteCart", "insertItem"},
             SelectCart(cl, op, next)
      PROVE  IInv'
  <2>1. /\ call[cl].at = "selectCart" /\ "selectCart" \in Statement
        /\ UNCHANGED <<carts, items, ids, times>>
    BY <1>4 DEF SelectCart, Executes, tables, Statement
  <2>2. next \in Statement
    BY DEF Statement
  <2>3. CASE Answered(cl, "ErrCartNotFound", {})
    BY <1>b, <2>1, <2>3
  <2>4. CASE /\ call[cl].request.cart \in carts
             /\ Moves(cl)
             /\ call'[cl] = Working(next, call[cl].request, call[cl].found)
    <3>1. /\ call'[cl].at = next
          /\ call'[cl].request = call[cl].request /\ call'[cl].found = call[cl].found
      BY <2>4 DEF Working
    <3>2. Searching(call[cl])'
      BY <2>1, <2>4, <3>1 DEF Searching, IInv, SearchesAreCurrent
    <3>3. Kept
      BY <2>1, <2>4, <3>1, <3>2, OthersKept
    <3> QED
      BY <1>a, <2>1, <2>4, <3>3 DEF IInv, Moves
  <2> QED
    BY <1>0, <1>4, <2>2, <2>3, <2>4, SelectCartMoves
<1>5. CASE CreateCart(cl)
  <2>1. PICK c \in CartId \ ids :
          /\ Answered(cl, "nil", {c})
          /\ carts' = carts \union {c} /\ ids' = ids \union {c}
    BY <1>0, <1>5, CreateCartMoves
  <2>2. UNCHANGED <<items, times>> /\ call[cl].at # "touchCart"
    BY <1>5 DEF CreateCart, Executes
  <2>3. Kept
    BY <2>1, <2>2, AnswerKeeps
  <2>4. ItemsHaveCarts' /\ IdsAreUsedOnce'
    BY <2>1, <2>2 DEF IInv, ItemsHaveCarts, IdsAreUsedOnce
  <2> QED
    BY <2>1, <2>3, <2>4 DEF IInv, Answered, Moves
<1>6. CASE /\ Executes(cl, "selectItems", "get")
           /\ Ends(cl, "nil", Rows(call[cl].request.cart))
           /\ UNCHANGED tables
  <2>1. /\ Answered(cl, "nil", Rows(call[cl].request.cart))
        /\ UNCHANGED <<carts, items, ids, times>> /\ call[cl].at # "touchCart"
    BY <1>0, <1>6, SelectItemsMoves DEF Executes, tables
  <2>2. Kept
    BY <2>1, AnswerKeeps
  <2> QED
    BY <1>a, <2>1, <2>2 DEF IInv, Answered, Moves
<1>7. CASE /\ Executes(cl, "deleteCart", "delete")
           /\ carts' = carts \ {call[cl].request.cart}
           /\ items' = items \ Rows(call[cl].request.cart)
           /\ stale' = stale \ {call[cl].request.cart}
           /\ Ends(cl, "nil", {})
           /\ UNCHANGED <<ids, touch, missed>>
  <2>1. Answered(cl, "nil", {}) /\ UNCHANGED missed /\ call[cl].at # "touchCart"
    BY <1>0, <1>7, DeleteCartMoves DEF Executes
  <2>2. Kept
    BY <1>7, <2>1, AnswerKeeps
  <2>3. ItemsHaveCarts' /\ IdsAreUsedOnce'
    BY <1>7 DEF IInv, ItemsHaveCarts, IdsAreUsedOnce, Rows
  <2> QED
    BY <2>1, <2>2, <2>3 DEF IInv, Answered, Moves
<1>8. CASE InsertItem(cl)
  <2>1. call[cl].at # "touchCart"
    BY <1>8 DEF InsertItem, Executes
  <2>2. CASE Answered(cl, "failed", {}) /\ UNCHANGED tables
    BY <1>b, <2>1, <2>2 DEF tables
  <2>3. ASSUME ~(Answered(cl, "failed", {}) /\ UNCHANGED tables) PROVE IInv'
    <3>1. call[cl].request.cart \in carts
      BY <1>0, <1>8, <2>3, InsertItemMoves
    <3>2. PICK i \in ItemId \ ids, row \in Row :
            /\ row.item = i /\ row.cart = call[cl].request.cart
            /\ Moves(cl) /\ UNCHANGED <<carts, missed>>
            /\ items' = items \union {row} /\ ids' = ids \union {i}
            /\ stale' = stale \union {call[cl].request.cart}
            /\ call'[cl] = Touching(call[cl].request, row)
      <4> DEFINE rowOf(i) == [item |-> i, cart |-> call[cl].request.cart,
                              quantity |-> call[cl].request.quantity]
      <4>1. PICK i \in ItemId \ ids :
              /\ Moves(cl) /\ rowOf(i) \in Row /\ UNCHANGED <<carts, missed>>
              /\ items' = items \union {rowOf(i)} /\ ids' = ids \union {i}
              /\ stale' = stale \union {call[cl].request.cart}
              /\ call'[cl] = Touching(call[cl].request, rowOf(i))
        BY <1>0, <1>8, <2>3, InsertItemMoves
      <4>2. rowOf(i).item = i /\ rowOf(i).cart = call[cl].request.cart
        OBVIOUS
      <4> HIDE DEF rowOf
      <4> QED
        BY <4>1, <4>2
    <3>3. /\ call'[cl].at = "touchCart" /\ call'[cl].request = call[cl].request
          /\ call'[cl].row = row
      BY <3>2 DEF Touching
    <3>4. Searching(call[cl])'
      BY <3>3 DEF Searching, Statement
    <3>5. Kept
      BY <2>1, <3>2, <3>3, <3>4, OthersKept
    <3>6. ItemsHaveCarts' /\ IdsAreUsedOnce'
      BY <3>1, <3>2 DEF IInv, ItemsHaveCarts, IdsAreUsedOnce
    <3> QED
      BY <3>2, <3>5, <3>6 DEF IInv, Moves
  <2> QED
    BY <2>2, <2>3
<1>9. CASE TouchCart(cl)
  <2>1. Answered(cl, "nil", {call[cl].row}) /\ UNCHANGED <<carts, items, ids>>
    BY <1>0, <1>9, TouchCartMoves DEF IInv, TouchCart, Executes
  <2> DEFINE c == call[cl].request.cart
  <2>2. \/ stale' = stale \ {c} /\ missed' = missed \ {c}
        \/ stale' = stale \union ({c} \intersect carts) /\ missed' = missed \union {c}
    BY <1>9 DEF TouchCart
  <2>3. Kept
    BY <2>1, <2>2, AnswerKeeps
  <2>4. ItemsHaveCarts' /\ IdsAreUsedOnce'
    BY <2>1, <2>2 DEF IInv, ItemsHaveCarts, IdsAreUsedOnce
  <2> QED
    BY <2>1, <2>3, <2>4 DEF IInv, Answered, Moves
<1>10. CASE UpdateCartItem(cl)
  <2>1. UNCHANGED <<carts, ids, times>> /\ call[cl].at # "touchCart"
    BY <1>10 DEF UpdateCartItem, Executes
  <2>2. CASE \E err : Answered(cl, err, {}) /\ UNCHANGED items
    BY <1>b, <2>1, <2>2
  <2>3. ASSUME NEW row \in Matching(call[cl].request), NEW updated \in Row,
               updated.item = row.item, updated.cart = row.cart,
               items' = (items \ {row}) \union {updated},
               Answered(cl, "nil", {updated})
        PROVE  IInv'
    <3>1. Kept
      BY <2>1, <2>3, AnswerKeeps
    <3>2. row \in items
      BY DEF Matching, Rows
    <3>3. ItemsHaveCarts' /\ IdsAreUsedOnce'
      BY <2>1, <2>3, <3>2 DEF IInv, ItemsHaveCarts, IdsAreUsedOnce
    <3> QED
      BY <2>3, <3>1, <3>3 DEF IInv, Answered, Moves
  <2> QED
    BY <1>0, <1>10, <2>2, <2>3, UpdateCartItemMoves
<1>11. CASE RemoveCartItem(cl)
  <2>1. UNCHANGED <<carts, ids, times>> /\ call[cl].at # "touchCart"
    BY <1>11 DEF RemoveCartItem, Executes
  <2>2. PICK err : Answered(cl, err, {}) /\ items' \subseteq items
    BY <1>0, <1>11, RemoveCartItemMoves
  <2>3. Kept
    BY <2>1, <2>2, AnswerKeeps
  <2>4. ItemsHaveCarts' /\ IdsAreUsedOnce'
    BY <2>1, <2>2 DEF IInv, ItemsHaveCarts, IdsAreUsedOnce
  <2> QED
    BY <2>2, <2>3, <2>4 DEF IInv, Answered, Moves
<1>12. CASE StatementFails(cl)
  <2>1. /\ Answered(cl, "failed", {}) /\ UNCHANGED <<carts, items, ids, stale>>
        /\ missed' = IF call[cl].at = "touchCart" THEN missed \union {call[cl].request.cart}
                     ELSE missed
    BY <1>0, <1>12, StatementFailsMoves DEF IInv, StatementFails
  <2>2. Kept
    BY <2>1, AnswerKeeps
  <2> QED
    BY <1>a, <2>1, <2>2 DEF IInv, Answered, Moves
<1>13. CASE BeginTouch(cl)
  <2>1. Moves(cl) /\ UNCHANGED <<call, carts, items, ids, stale, missed>>
    BY <1>0, <1>13, BeginTouchMoves
  <2>2. Kept
    BY <2>1 DEF IInv, SearchesAreCurrent, Searching, ErrorsAreBare, TouchesItsCart,
                StaleOnlyIfMissed
  <2> QED
    BY <1>a, <2>1, <2>2 DEF IInv, Moves
<1> QED
  BY <1>1, <1>2, <1>3, <1>4, <1>5, <1>6, <1>7, <1>8, <1>9, <1>10, <1>11, <1>12,
     <1>13
  DEF Serves, GetCart, DeleteCart, AddCartItem

(* IInv holds in every reachable state. *)
THEOREM InductiveInvariant == Spec => []IInv
<1>1. ASSUME IInv, UNCHANGED vars PROVE IInv'
  BY <1>1 DEF IInv, vars, tables, boundVars, TypeOK, IdsAreUsedOnce, ItemsHaveCarts,
              StaleOnlyIfMissed, SearchesAreCurrent, Searching, ErrorsAreBare, TouchesItsCart
<1>2. IInv /\ [Next]_vars => IInv'
  BY <1>1, ServesIInv DEF Next, Quiet
<1> QED
  BY <1>2, InitIInv, PTL DEF Spec

(* Every variable keeps its type. *)
THEOREM TypeCorrect == Spec => []TypeOK
<1>1. IInv => TypeOK
  BY DEF IInv
<1> QED
  BY <1>1, InductiveInvariant, PTL

(* No interleaving of requests leaves an item in a cart that is gone.      *)
THEOREM NoOrphans == Spec => []ItemsHaveCarts
<1>1. IInv => ItemsHaveCarts
  BY DEF IInv
<1> QED
  BY <1>1, InductiveInvariant, PTL

(* A cart's time is behind its items only while an addition has yet to     *)
(* update it, or when its last update failed or was overtaken.             *)
THEOREM CartsAreTouched == Spec => []StaleOnlyIfMissed
<1>1. IInv => StaleOnlyIfMissed
  BY DEF IInv
<1> QED
  BY <1>1, InductiveInvariant, PTL

-----------------------------------------------------------------------------
(* What CartService sees of a request at each place. *)
LEMMA SeenKinds ==
  ASSUME NEW c \in Call
  PROVE  /\ c.at = "idle" => Seen(c) = Service!Idle
         /\ c.at \in {"handle"} \union Statement => Seen(c) = Service!Called(c.request, c.found)
         /\ c.at = "touchCart" => Seen(c) = Service!Done(Service!Answer("ok", {c.row}))
         /\ c.at = "respond" =>
               Seen(c) = Service!Done(Service!Answer(Outcome(Status(c.request.op, c.err)), c.body))
  BY DEF Seen, Statement, Service!Idle, Service!Called, Service!Done, Service!Answer

(* What it sees of an error. *)
LEMMA Outcomes ==
  ASSUME NEW op \in Op
  PROVE  /\ Outcome(Status(op, "nil")) = "ok"
         /\ Outcome(Status(op, "failed")) = "failed"
         /\ Outcome(Status(op, "NotFoundError")) = "absent"
         /\ op \in {"get", "delete", "add"} => Outcome(Status(op, "ErrCartNotFound")) = "absent"
         /\ op \in {"update", "remove"} => Outcome(Status(op, "ErrItemNotFound")) = "absent"
  BY DEF Op, Outcome, Status, Routes, Route, CreateCartRoute, GetCartRoute, DeleteCartRoute,
         AddCartItemRoute, UpdateCartItemRoute, RemoveCartItemRoute

(* A step of one client is seen as a step of that client. *)
LEMMA SeenMoves ==
  ASSUME NEW cl \in Client, Moves(cl)
  PROVE  callSeen' = [callSeen EXCEPT ![cl] = Seen(call'[cl])]
<1>1. callSeen' = [d \in Client |-> Seen(call'[d])]
  BY DEF callSeen
<1>2. \A d \in Client \ {cl} : call'[d] = call[d]
  BY DEF Moves
<1> QED
  BY <1>1, <1>2 DEF callSeen

(* A response is seen as the end of the request. *)
LEMMA AnswerSeen ==
  ASSUME NEW cl \in Client, NEW err, NEW body, Answered(cl, err, body)
  PROVE  Service!Ends(cl, Outcome(Status(call[cl].request.op, err)), body)
<1> DEFINE to == Responding(call[cl].request, err, body)
<1>1. Moves(cl) /\ call'[cl] = to
  BY DEF Answered
<1>2. /\ to.at = "respond" /\ to.request = call[cl].request
      /\ to.err = err /\ to.body = body
  BY DEF Responding
<1>3. to \in Call
  BY <1>1 DEF Moves, TypeOK
<1> HIDE DEF to
<1>4. Seen(to) = Service!Done(Service!Answer(Outcome(Status(call[cl].request.op, err)), body))
  BY <1>2, <1>3, SeenKinds
<1> QED
  BY <1>1, <1>4, SeenMoves DEF Service!Ends

(* A request that is being served is seen as called. *)
LEMMA CalledSeen ==
  ASSUME TypeOK, NEW cl \in Client, call[cl].at \in {"handle"} \union Statement
  PROVE  /\ callSeen[cl].phase = "called"
         /\ callSeen[cl].request = call[cl].request
         /\ callSeen[cl].found = call[cl].found
         /\ call[cl].request \in Request /\ call[cl].request.op \in Op
<1>1. call[cl] \in Call /\ call[cl].request \in Request /\ call[cl].request.op \in Op
  BY CallKinds, RequestTypes DEF TypeOK, Statement
<1>2. callSeen[cl] = Service!Called(call[cl].request, call[cl].found)
  BY <1>1, SeenKinds DEF callSeen
<1> QED
  BY <1>1, <1>2 DEF Service!Called

(* A request that has gone on to another statement is still seen as called. *)
LEMMA ContinueSeen ==
  ASSUME TypeOK, NEW cl \in Client, call[cl].at \in {"handle"} \union Statement,
         NEW at \in Statement, Moves(cl), UNCHANGED <<carts, items, ids, answer>>,
         call'[cl] = Working(at, call[cl].request, call[cl].found)
  PROVE  UNCHANGED Service!vars
<1>1. /\ call'[cl].at = at /\ call'[cl].request = call[cl].request
      /\ call'[cl].found = call[cl].found
  BY DEF Working
<1>2. call'[cl] \in Call /\ call[cl] \in Call
  BY DEF Moves, TypeOK
<1>3. Seen(call'[cl]) = Seen(call[cl])
  BY <1>1, <1>2, SeenKinds
<1>4. UNCHANGED callSeen
  BY <1>3, SeenMoves DEF callSeen
<1> QED
  BY <1>4 DEF Service!vars, answerSeen

(* The handlers: an arrival is a call, a malformed parameter is not found, *)
(* and a response is the answer.                                           *)
LEMMA HandlersSeen ==
  ASSUME IInv, NEW cl \in Client,
         (\E request \in Request : Arrives(cl, request)) \/ Handle(cl) \/ Respond(cl)
  PROVE  Service!Next \/ UNCHANGED Service!vars
<1>0. TypeOK
  BY DEF IInv
<1>1. ASSUME NEW request \in Request, Arrives(cl, request) PROVE Service!Calls(cl)
  <2> DEFINE to == Working("handle", request, request.cart \in carts)
  <2>1. /\ Moves(cl) /\ call[cl] = Idle /\ call'[cl] = to
        /\ UNCHANGED <<carts, items, ids, answer>>
    BY <1>0, <1>1, ArrivesMoves DEF Arrives, tables
  <2>2. /\ to.at = "handle" /\ to.request = request
        /\ to.found = (request.cart \in carts)
    BY DEF Working
  <2>3. to \in Call /\ call[cl] \in Call /\ call[cl].at = "idle"
    BY <1>0, <2>1 DEF Moves, TypeOK, Idle
  <2> HIDE DEF to
  <2>4. Seen(to) = Service!Called(request, request.cart \in carts) /\ callSeen[cl] = Service!Idle
    BY <2>2, <2>3, SeenKinds DEF callSeen
  <2>5. callSeen' = [callSeen EXCEPT ![cl] = Service!Called(request, request.cart \in carts)]
    BY <2>1, <2>4, SeenMoves
  <2>6. callSeen'[cl] = Service!Called(request, request.cart \in carts)
    BY <2>5 DEF callSeen
  <2>7. callSeen'[cl] # Service!Idle
    BY <2>6 DEF Service!Called, Service!Idle
  <2>8. request \in Service!Request
    BY DEF Request, Op, Service!Request
  <2>9. UNCHANGED answerSeen
    BY <2>1 DEF answerSeen
  <2> QED
    BY <2>1, <2>4, <2>5, <2>7, <2>8, <2>9 DEF Service!Calls
<1>2. CASE Handle(cl)
  <2>1. call[cl].at = "handle" /\ UNCHANGED <<carts, items, ids, answer>>
    BY <1>2 DEF Handle, tables
  <2>2. CASE call'[cl] = Responding(call[cl].request, "NotFoundError", {})
    <3> DEFINE request == call[cl].request
    <3>1. Answered(cl, "NotFoundError", {}) /\ request \in Request /\ request.op \in Op
      BY <1>0, <1>2, <2>1, <2>2, CalledSeen, HandleMoves DEF Answered
    <3>2. Service!Ends(cl, "absent", {})
      BY <3>1, AnswerSeen, Outcomes
    <3>3. \/ "cart" \in Routes[request.op].params /\ request.cart = Malformed
          \/ "item" \in Routes[request.op].params /\ request.item = Malformed
      <4> DEFINE malformed == \/ "cart" \in Routes[request.op].params /\ request.cart = Malformed
                              \/ "item" \in Routes[request.op].params /\ request.item = Malformed
      <4>1. ASSUME ~malformed PROVE FALSE
        <5>a. IF malformed THEN Ends(cl, "NotFoundError", {})
                           ELSE Continues(cl, FirstStatement[request.op])
          BY <1>2 DEF Handle
        <5> HIDE DEF malformed
        <5>1. Continues(cl, FirstStatement[request.op])
          BY <4>1, <5>a
        <5>2. FirstStatement[request.op] \in Statement
          BY <3>1 DEF FirstStatement, Statement, Op
        <5>3. call'[cl] = Working(FirstStatement[request.op], request, call[cl].found)
          BY <1>0, <2>1, <5>1, <5>2, EndsAndContinues
        <5>4. call'[cl].at = FirstStatement[request.op] /\ call'[cl].at = "respond"
          BY <2>2, <5>3 DEF Working, Responding
        <5> QED
          BY <5>2, <5>4 DEF Statement
      <4> QED
        BY <4>1
    <3>4. request.op # "create" /\ (request.op \in {"get", "delete", "add"} => request.cart = Malformed)
      BY <3>1, <3>3 DEF Routes, Route, CreateCartRoute, GetCartRoute, DeleteCartRoute,
            AddCartItemRoute, UpdateCartItemRoute, RemoveCartItemRoute, Op
    <3>5. request.cart = Malformed \/ request.item = Malformed
      BY <3>3
    <3>6. request.cart = Malformed => request.cart \notin carts
      BY <1>0 DEF TypeOK
    <3>7. Service!Named(request) = {}
      <4>1. \A row \in items : row.item # Malformed /\ row.cart # Malformed
        BY <1>0, RowTypes DEF TypeOK
      <4> QED
        BY <3>5, <4>1 DEF Service!Named, Service!RowsOf
    <3>8. /\ callSeen[cl].phase = "called" /\ callSeen[cl].request = request
      BY <1>0, <2>1, CalledSeen
    <3>9. UNCHANGED <<carts, items, ids, answerSeen>>
      BY <2>1 DEF answerSeen
    <3> HIDE DEF request
    <3>10. Service!NotFound(cl)
      BY <3>2, <3>4, <3>6, <3>7, <3>8, <3>9 DEF Service!NotFound
    <3> QED
      BY <3>10 DEF Service!Next
  <2>3. CASE call'[cl] = Working(FirstStatement[call[cl].request.op],
                                 call[cl].request, call[cl].found)
    <3>1. FirstStatement[call[cl].request.op] \in Statement
      BY <1>0, <2>1, CalledSeen DEF FirstStatement, Statement, Op
    <3> QED
      BY <1>0, <1>2, <2>1, <2>3, <3>1, HandleMoves, ContinueSeen
  <2> QED
    BY <1>0, <1>2, <2>2, <2>3, HandleMoves
<1>3. CASE Respond(cl)
  <2> DEFINE status == Status(call[cl].request.op, call[cl].err)
             body == IF status \in {404, 500} THEN {} ELSE call[cl].body
  <2>1. /\ Moves(cl) /\ call'[cl] = Idle /\ call[cl].at = "respond"
        /\ call[cl] \in Call /\ UNCHANGED <<carts, items, ids>>
        /\ answer' = [answer EXCEPT ![cl] = [status |-> status, body |-> body]]
    BY <1>0, <1>3, RespondMoves DEF Respond, TypeOK, tables
  <2>2. call[cl].request.op \in Op /\ call[cl].err \in Error
    BY <2>1, CallKinds, RequestTypes
  <2>3. body = call[cl].body
    <3>1. call[cl].err # "nil" => call[cl].body = {}
      BY <2>1 DEF IInv, ErrorsAreBare
    <3>2. call[cl].err = "nil" => status \in {200, 201, 204}
      BY <2>2, StatusTypes
    <3> QED
      BY <3>1, <3>2
  <2>4. callSeen[cl] = Service!Done(Service!Answer(Outcome(status), body))
    <3>1. Seen(call[cl]) = Service!Done(Service!Answer(Outcome(status), call[cl].body))
      BY <2>1, SeenKinds
    <3>2. callSeen[cl] = Seen(call[cl])
      BY DEF callSeen
    <3> HIDE DEF status, body
    <3> QED
      BY <2>3, <3>1, <3>2
  <2> HIDE DEF status, body
  <2>5. answerSeen' = [answerSeen EXCEPT ![cl] = Service!Answer(Outcome(status), body)]
    <3>1. \A d \in Client : answer'[d] = IF d = cl THEN [status |-> status, body |-> body]
                                         ELSE answer[d]
      BY <1>0, <2>1 DEF TypeOK
    <3> DEFINE seen(a) == [result |-> Outcome(a.status), body |-> a.body]
    <3>2. answerSeen' = [d \in Client |-> seen(answer'[d])]
      BY DEF answerSeen
    <3>3. seen([status |-> status, body |-> body]) = Service!Answer(Outcome(status), body)
      BY DEF Service!Answer
    <3>4. answerSeen = [d \in Client |-> seen(answer[d])]
      BY DEF answerSeen
    <3> HIDE DEF seen
    <3> QED
      BY <3>1, <3>2, <3>3, <3>4
  <2>6. callSeen' = [callSeen EXCEPT ![cl] = Service!Idle]
    <3>1. Idle \in Call /\ Idle.at = "idle"
      BY DEF Call, Idle
    <3>2. Seen(call'[cl]) = Service!Idle
      BY <2>1, <3>1, SeenKinds
    <3> QED
      BY <2>1, <3>2, SeenMoves
  <2>7. callSeen[cl].phase = "done" /\ callSeen[cl].answer = Service!Answer(Outcome(status), body)
    BY <2>4 DEF Service!Done
  <2>8. Service!Answers(cl)
    BY <2>1, <2>5, <2>6, <2>7 DEF Service!Answers
  <2> QED
    BY <2>8 DEF Service!Next
<1> QED
  BY <1>1, <1>2, <1>3 DEF Service!Next

(* The statements that look a cart up: one that is found goes on, one that *)
(* is not is reported.                                                     *)
LEMMA SelectCartSeen ==
  ASSUME IInv, NEW cl \in Client, NEW op \in {"get", "delete", "add"},
         NEW next \in Statement, SelectCart(cl, op, next)
  PROVE  Service!Next \/ UNCHANGED Service!vars
<1>1. /\ TypeOK /\ call[cl].at = "selectCart" /\ "selectCart" \in Statement
      /\ call[cl].request.op = op /\ op \in Op
      /\ UNCHANGED <<carts, items, ids, answer>>
  BY DEF IInv, SelectCart, Executes, tables, Statement, Op
<1>2. CASE /\ Moves(cl)
           /\ call'[cl] = Working(next, call[cl].request, call[cl].found)
  BY <1>1, <1>2, ContinueSeen
<1>3. CASE call[cl].request.cart \notin carts /\ Answered(cl, "ErrCartNotFound", {})
  <2>1. Service!Ends(cl, "absent", {})
    BY <1>1, <1>3, AnswerSeen, Outcomes
  <2>2. callSeen[cl].phase = "called" /\ callSeen[cl].request = call[cl].request
    BY <1>1, CalledSeen
  <2>3. UNCHANGED <<carts, items, ids, answerSeen>>
    BY <1>1 DEF answerSeen
  <2>4. Service!NotFound(cl)
    BY <1>1, <1>3, <2>1, <2>2, <2>3 DEF Service!NotFound
  <2> QED
    BY <2>4 DEF Service!Next
<1> QED
  BY <1>1, <1>2, <1>3, SelectCartMoves

(* The statements on carts. *)
LEMMA CartsSeen ==
  ASSUME IInv, NEW cl \in Client, CreateCart(cl) \/ GetCart(cl) \/ DeleteCart(cl)
  PROVE  Service!Next \/ UNCHANGED Service!vars
<1>0. TypeOK /\ "selectItems" \in Statement /\ "deleteCart" \in Statement /\ "insertCart" \in Statement
  BY DEF IInv, Statement
<1>1. CASE CreateCart(cl)
  <2>1. /\ call[cl].at = "insertCart" /\ call[cl].request.op = "create"
        /\ UNCHANGED <<items, answer>>
    BY <1>1 DEF CreateCart, Executes
  <2>2. PICK c \in CartId \ ids :
          /\ Answered(cl, "nil", {c})
          /\ carts' = carts \union {c} /\ ids' = ids \union {c}
    BY <1>0, <1>1, CreateCartMoves
  <2>3. /\ callSeen[cl].phase = "called" /\ callSeen[cl].request = call[cl].request
        /\ call[cl].request.op \in Op
    BY <1>0, <2>1, CalledSeen
  <2>4. Service!Ends(cl, "ok", {c})
    BY <2>2, <2>3, AnswerSeen, Outcomes
  <2>5. UNCHANGED <<items, answerSeen>>
    BY <2>1 DEF answerSeen
  <2>6. Service!Create(cl)
    BY <2>1, <2>2, <2>3, <2>4, <2>5 DEF Service!Create, Service!Pending
  <2> QED
    BY <2>6 DEF Service!Next
<1>2. ASSUME Executes(cl, "selectItems", "get"),
             Ends(cl, "nil", Rows(call[cl].request.cart)), UNCHANGED tables
      PROVE  Service!Next
  <2> DEFINE c == call[cl].request.cart
  <2>1. /\ call[cl].at = "selectItems" /\ call[cl].request.op = "get"
        /\ UNCHANGED <<carts, items, ids, answer>>
    BY <1>2 DEF Executes, tables
  <2>2. Answered(cl, "nil", Rows(c))
    BY <1>0, <1>2, SelectItemsMoves
  <2>3. /\ callSeen[cl].phase = "called" /\ callSeen[cl].request = call[cl].request
        /\ callSeen[cl].found = call[cl].found /\ call[cl].request.op \in Op
    BY <1>0, <2>1, CalledSeen
  <2>4. Service!Ends(cl, "ok", Rows(c))
    BY <2>2, <2>3, AnswerSeen, Outcomes
  <2>5. UNCHANGED answerSeen
    BY <2>1 DEF answerSeen
  <2>6. CASE c \in carts
    <3>1. Rows(c) = Service!RowsOf(c)
      BY DEF Rows, Service!RowsOf
    <3>2. Service!Get(cl)
      BY <2>1, <2>3, <2>4, <2>5, <2>6, <3>1 DEF Service!Get, Service!Pending
    <3> QED
      BY <3>2 DEF Service!Next
  <2>7. CASE c \notin carts
    <3>1. call[cl].found
      BY <1>0, <2>1 DEF IInv, SearchesAreCurrent, Searching
    <3>2. Rows(c) = {}
      BY <2>7 DEF Rows, IInv, ItemsHaveCarts
    <3>3. Service!GoneMeanwhile(cl)
      BY <2>1, <2>3, <2>4, <2>5, <2>7, <3>1, <3>2 DEF Service!GoneMeanwhile, Service!Pending
    <3> QED
      BY <3>3 DEF Service!Next
  <2> QED
    BY <2>6, <2>7
<1>3. ASSUME Executes(cl, "deleteCart", "delete"),
             carts' = carts \ {call[cl].request.cart},
             items' = items \ Rows(call[cl].request.cart),
             stale' = stale \ {call[cl].request.cart}, Ends(cl, "nil", {}),
             UNCHANGED <<ids, touch, missed>>
      PROVE  Service!Next
  <2> DEFINE c == call[cl].request.cart
  <2>1. /\ call[cl].at = "deleteCart" /\ call[cl].request.op = "delete" /\ UNCHANGED answer
    BY <1>3 DEF Executes
  <2>2. Answered(cl, "nil", {})
    BY <1>0, <1>3, DeleteCartMoves
  <2>3. /\ callSeen[cl].phase = "called" /\ callSeen[cl].request = call[cl].request
        /\ callSeen[cl].found = call[cl].found /\ call[cl].request.op \in Op
    BY <1>0, <2>1, CalledSeen
  <2>4. Service!Ends(cl, "ok", {})
    BY <2>2, <2>3, AnswerSeen, Outcomes
  <2>5. UNCHANGED answerSeen
    BY <2>1 DEF answerSeen
  <2>6. CASE c \in carts
    <3>1. Rows(c) = Service!RowsOf(c)
      BY DEF Rows, Service!RowsOf
    <3>2. Service!Delete(cl)
      BY <1>3, <2>1, <2>3, <2>4, <2>5, <2>6, <3>1 DEF Service!Delete, Service!Pending
    <3> QED
      BY <3>2 DEF Service!Next
  <2>7. CASE c \notin carts
    <3>1. call[cl].found
      BY <1>0, <2>1 DEF IInv, SearchesAreCurrent, Searching
    <3>2. UNCHANGED <<carts, items, ids>>
      <4>1. Rows(c) = {}
        BY <2>7 DEF Rows, IInv, ItemsHaveCarts
      <4> QED
        BY <1>3, <2>7, <4>1
    <3>3. Service!GoneMeanwhile(cl)
      BY <2>1, <2>3, <2>4, <2>5, <2>7, <3>1, <3>2 DEF Service!GoneMeanwhile, Service!Pending
    <3> QED
      BY <3>3 DEF Service!Next
  <2> QED
    BY <2>6, <2>7
<1>4. ASSUME NEW op \in {"get", "delete"}, NEW next \in {"selectItems", "deleteCart"},
             SelectCart(cl, op, next)
      PROVE  Service!Next \/ UNCHANGED Service!vars
  BY <1>0, <1>4, SelectCartSeen
<1> QED
  BY <1>1, <1>2, <1>3, <1>4 DEF GetCart, DeleteCart

(* A statement that fails, before it takes effect or after. *)
LEMMA FailureSeen ==
  ASSUME TypeOK, NEW cl \in Client, call[cl].at # "idle", Answered(cl, "failed", {}),
         UNCHANGED <<carts, items, ids, answer>>
  PROVE  Service!Fails(cl)
<1>1. call[cl] \in Call /\ call[cl].request.op \in Op
  BY CallKinds, RequestTypes DEF TypeOK
<1>2. Service!Ends(cl, "failed", {})
  BY <1>1, AnswerSeen, Outcomes
<1>3. callSeen[cl].phase # "idle"
  <2>1. callSeen[cl] = Seen(call[cl])
    BY DEF callSeen
  <2> QED
    <3>1. CASE call[cl].at \in {"handle"} \union Statement
      <4>1. callSeen[cl] = Service!Called(call[cl].request, call[cl].found)
        BY <1>1, <2>1, <3>1, SeenKinds
      <4> QED
        BY <4>1 DEF Service!Called
    <3>2. CASE call[cl].at = "touchCart"
      <4>1. callSeen[cl] = Service!Done(Service!Answer("ok", {call[cl].row}))
        BY <1>1, <2>1, <3>2, SeenKinds
      <4> QED
        BY <4>1 DEF Service!Done
    <3>3. CASE call[cl].at = "respond"
      <4>1. callSeen[cl] = Service!Done(Service!Answer(
                              Outcome(Status(call[cl].request.op, call[cl].err)), call[cl].body))
        BY <1>1, <2>1, <3>3, SeenKinds
      <4> QED
        BY <4>1 DEF Service!Done
    <3> QED
      BY <1>1, <3>1, <3>2, <3>3, CallKinds
<1>4. UNCHANGED answerSeen
  BY DEF answerSeen
<1> QED
  BY <1>2, <1>3, <1>4 DEF Service!Fails

(* The statements on items. *)
LEMMA ItemsSeen ==
  ASSUME IInv, NEW cl \in Client,
         \/ AddCartItem(cl) \/ UpdateCartItem(cl) \/ RemoveCartItem(cl)
         \/ StatementFails(cl)
  PROVE  Service!Next \/ UNCHANGED Service!vars
<1>0. /\ TypeOK /\ "insertItem" \in Statement
      /\ "updateItem" \in Statement /\ "deleteItem" \in Statement
  BY DEF IInv, Statement
<1>a. \A request : Matching(request) = Service!Named(request)
  BY DEF Matching, Rows, Service!Named, Service!RowsOf
<1>1. CASE SelectCart(cl, "add", "insertItem")
  BY <1>0, <1>1, SelectCartSeen
<1>2. CASE InsertItem(cl)
  <2>1. call[cl].at = "insertItem" /\ call[cl].request.op = "add" /\ UNCHANGED answer
    BY <1>2 DEF InsertItem, Executes
  <2>2. CASE Answered(cl, "failed", {}) /\ UNCHANGED tables
    <3>1. Service!Fails(cl)
      BY <1>0, <2>1, <2>2, FailureSeen DEF tables
    <3> QED
      BY <3>1 DEF Service!Next
  <2>3. ASSUME ~(Answered(cl, "failed", {}) /\ UNCHANGED tables) PROVE Service!Add(cl)
    <3> DEFINE rowOf(i) == [item |-> i, cart |-> call[cl].request.cart,
                            quantity |-> call[cl].request.quantity]
    <3>1. call[cl].request.cart \in carts
      BY <1>0, <1>2, <2>3, InsertItemMoves
    <3>2. PICK i \in ItemId \ ids :
            /\ Moves(cl) /\ rowOf(i) \in Row /\ UNCHANGED carts
            /\ items' = items \union {rowOf(i)} /\ ids' = ids \union {i}
            /\ call'[cl] = Touching(call[cl].request, rowOf(i))
      BY <1>0, <1>2, <2>3, InsertItemMoves
    <3> DEFINE row == rowOf(i)
    <3>3. Service!Ends(cl, "ok", {row})
      <4> HIDE DEF row
      <4>1. call'[cl] = Touching(call[cl].request, row)
        BY <3>2 DEF row
      <4>2. call'[cl] \in Call /\ call'[cl].at = "touchCart" /\ call'[cl].row = row
        BY <3>2, <4>1 DEF Touching, Moves, TypeOK
      <4>3. Seen(call'[cl]) = Service!Done(Service!Answer("ok", {row}))
        BY <4>2, SeenKinds
      <4> QED
        BY <3>2, <4>3, SeenMoves DEF Service!Ends
    <3>4. /\ callSeen[cl].phase = "called" /\ callSeen[cl].request = call[cl].request
          /\ callSeen[cl].found = call[cl].found
      BY <1>0, <2>1, CalledSeen
    <3>5. call[cl].found
      BY <1>0, <2>1 DEF IInv, SearchesAreCurrent, Searching
    <3>6. UNCHANGED <<carts, answerSeen>>
      BY <2>1, <3>2 DEF answerSeen
    <3>7. row = [item |-> i, cart |-> callSeen[cl].request.cart,
                 quantity |-> callSeen[cl].request.quantity]
      BY <3>4
    <3> HIDE DEF rowOf
    <3>8. items' = items \union {row} /\ ids' = ids \union {i}
      BY <3>2
    <3> HIDE DEF row
    <3> QED
      BY <2>1, <3>1, <3>3, <3>4, <3>5, <3>6, <3>7, <3>8 DEF Service!Add, Service!Pending
  <2> QED
    BY <2>2, <2>3 DEF Service!Next
<1>3. CASE TouchCart(cl)
  <2>1. /\ call[cl].at = "touchCart" /\ call[cl].request.op = "add" /\ call[cl] \in Call
        /\ UNCHANGED <<carts, items, ids, answer>>
    BY <1>0, <1>3 DEF TouchCart, Executes, TypeOK
  <2>2. Answered(cl, "nil", {call[cl].row})
    BY <1>0, <1>3, TouchCartMoves DEF IInv
  <2>3. Service!Ends(cl, "ok", {call[cl].row})
    BY <2>1, <2>2, AnswerSeen, Outcomes DEF Op
  <2>4. callSeen[cl] = Service!Done(Service!Answer("ok", {call[cl].row}))
    BY <2>1, SeenKinds DEF callSeen
  <2>5. callSeen' = callSeen
    BY <2>3, <2>4 DEF Service!Ends, callSeen
  <2> QED
    BY <2>1, <2>5 DEF Service!vars, answerSeen
<1>4. CASE UpdateCartItem(cl)
  <2>1. /\ call[cl].at = "updateItem" /\ call[cl].request.op = "update"
        /\ UNCHANGED <<carts, ids, answer>>
    BY <1>4 DEF UpdateCartItem, Executes
  <2>2. /\ callSeen[cl].phase = "called" /\ callSeen[cl].request = call[cl].request
        /\ call[cl].request.op \in Op
    BY <1>0, <2>1, CalledSeen
  <2>3. UNCHANGED answerSeen
    BY <2>1 DEF answerSeen
  <2>4. CASE /\ Matching(call[cl].request) = {}
             /\ Answered(cl, "ErrItemNotFound", {}) /\ UNCHANGED items
    <3>1. Service!Ends(cl, "absent", {})
      BY <2>1, <2>2, <2>4, AnswerSeen, Outcomes
    <3>2. Service!NotFound(cl)
      BY <1>a, <2>1, <2>2, <2>3, <2>4, <3>1 DEF Service!NotFound
    <3> QED
      BY <3>2 DEF Service!Next
  <2>5. CASE Answered(cl, "failed", {}) /\ UNCHANGED items
    <3>1. Service!Fails(cl)
      BY <1>0, <2>1, <2>5, FailureSeen
    <3> QED
      BY <3>1 DEF Service!Next
  <2>6. ASSUME NEW row \in Matching(call[cl].request),
               LET updated == SetQuantity(row, call[cl].request.quantity)
               IN  /\ items' = (items \ {row}) \union {updated}
                   /\ Answered(cl, "nil", {updated})
        PROVE  Service!Update(cl)
    <3> DEFINE updated == SetQuantity(row, call[cl].request.quantity)
    <3>1. /\ items' = (items \ {row}) \union {updated}
          /\ Answered(cl, "nil", {updated})
      BY <2>6
    <3>2. updated = [row EXCEPT !.quantity = callSeen[cl].request.quantity]
      BY <2>2 DEF SetQuantity
    <3>3. row \in Service!Named(callSeen[cl].request)
      BY <1>a, <2>2
    <3> HIDE DEF updated
    <3>4. Service!Ends(cl, "ok", {updated})
      BY <2>2, <3>1, AnswerSeen, Outcomes
    <3> QED
      BY <2>1, <2>2, <2>3, <3>1, <3>2, <3>3, <3>4 DEF Service!Update, Service!Pending
  <2> QED
    BY <1>0, <1>4, <2>4, <2>5, <2>6, UpdateCartItemMoves DEF Service!Next
<1>5. CASE RemoveCartItem(cl)
  <2>1. /\ call[cl].at = "deleteItem" /\ call[cl].request.op = "remove"
        /\ UNCHANGED <<carts, ids, answer>>
    BY <1>5 DEF RemoveCartItem, Executes
  <2>2. /\ callSeen[cl].phase = "called" /\ callSeen[cl].request = call[cl].request
        /\ call[cl].request.op \in Op
    BY <1>0, <2>1, CalledSeen
  <2>3. UNCHANGED answerSeen
    BY <2>1 DEF answerSeen
  <2>4. CASE /\ Matching(call[cl].request) = {}
             /\ Answered(cl, "ErrItemNotFound", {}) /\ UNCHANGED items
    <3>1. Service!Ends(cl, "absent", {})
      BY <2>1, <2>2, <2>4, AnswerSeen, Outcomes
    <3>2. Service!NotFound(cl)
      BY <1>a, <2>1, <2>2, <2>3, <2>4, <3>1 DEF Service!NotFound
    <3> QED
      BY <3>2 DEF Service!Next
  <2>5. CASE /\ Matching(call[cl].request) # {}
             /\ Answered(cl, "nil", {}) /\ items' = items \ Matching(call[cl].request)
    <3>1. Service!Ends(cl, "ok", {})
      BY <2>2, <2>5, AnswerSeen, Outcomes
    <3>2. PICK row \in Matching(call[cl].request) : TRUE
      BY <2>5
    <3>3. Matching(call[cl].request) = {row}
      BY <3>2 DEF Matching, Rows, IInv, IdsAreUsedOnce
    <3>4. items' = items \ {row} /\ row \in Service!Named(callSeen[cl].request)
      BY <1>a, <2>2, <2>5, <3>2, <3>3
    <3>5. Service!Remove(cl)
      BY <2>1, <2>2, <2>3, <3>1, <3>4 DEF Service!Remove, Service!Pending
    <3> QED
      BY <3>5 DEF Service!Next
  <2> QED
    BY <1>0, <1>5, <2>4, <2>5, RemoveCartItemMoves
<1>6. CASE StatementFails(cl)
  <2>1. /\ Answered(cl, "failed", {}) /\ UNCHANGED <<carts, items, ids, answer>>
        /\ call[cl].at # "idle"
    BY <1>0, <1>6, StatementFailsMoves DEF IInv, StatementFails, Statement
  <2> QED
    BY <1>0, <2>1, FailureSeen DEF Service!Next
<1>7. CASE BeginTouch(cl)
  <2>1. UNCHANGED <<call, carts, items, ids, answer>>
    BY <1>0, <1>7, BeginTouchMoves
  <2> QED
    BY <2>1 DEF Service!vars, callSeen, answerSeen
<1> QED
  BY <1>1, <1>2, <1>3, <1>4, <1>5, <1>6, <1>7 DEF AddCartItem

(* The statements of the store, interleaved and failing as they may, are   *)
(* together as good as one: the store implements CartService.              *)
THEOREM ImplementsService == Spec => ImplementsCartService
<1>1. Init => Service!Init
  <2> SUFFICES ASSUME Init PROVE Service!Init
    OBVIOUS
  <2>1. callSeen = [cl \in Client |-> Service!Idle]
    <3>1. Idle \in Call /\ Idle.at = "idle"
      BY DEF Call, Idle
    <3>2. Seen(Idle) = Service!Idle
      BY <3>1, SeenKinds
    <3>3. callSeen = [cl \in Client |-> Seen(Idle)]
      BY DEF Init, callSeen
    <3> QED
      BY <3>2, <3>3
  <2>2. answerSeen = [cl \in Client |-> Service!NoAnswer]
    BY DEF Init, answerSeen, Outcome, Service!NoAnswer, Service!Answer
  <2> QED
    BY <2>1, <2>2 DEF Init, Service!Init
<1>2. IInv /\ [Next]_vars => [Service!Next]_(Service!vars)
  <2> SUFFICES ASSUME IInv, [Next]_vars PROVE Service!Next \/ UNCHANGED Service!vars
    OBVIOUS
  <2>1. ASSUME NEW cl \in Client, Serves(cl) PROVE Service!Next \/ UNCHANGED Service!vars
    BY <2>1, HandlersSeen, CartsSeen, ItemsSeen DEF Serves
  <2>2. CASE UNCHANGED vars
    BY <2>2 DEF vars, tables, Service!vars, callSeen, answerSeen
  <2> QED
    BY <2>1, <2>2 DEF Next, Quiet
<1> QED
  BY <1>1, <1>2, InductiveInvariant, PTL DEF Spec, ImplementsCartService, Service!Spec
=============================================================================
