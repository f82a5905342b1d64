------------------------- MODULE BookingPageProofs --------------------------
(***************************************************************************)
(* Theorems about PageDisciplines, for any number of seats and overlapping *)
(* requests and any length of a hold: the page promises no more time than  *)
(* the server grants, shows the seats that are held, and sells what it     *)
(* showed.                                                                 *)
(***************************************************************************)
EXTENDS PageDisciplines, FiniteSetTheorems, WellFoundedInduction, TLAPS

-----------------------------------------------------------------------------
(* Types: a slot's chain of requests has the shape its click gave it. *)

PCs == {"idle", "Delete", "Deleted", "Reserve", "Reserved", "List", "Listed", "Map", "Mapped",
        "Confirm", "Confirmed", "CancelAll", "Cancelled"}
Todos == {<<>>, <<"Map">>, <<"List">>, <<"List", "Map">>, <<"Reserve", "List">>}

Row == [id: Nat, seat: Seats, child: BOOLEAN, expires: Nat]

Shaped(h) ==
    /\ h.pc \in {"Delete", "Deleted"} => h.todo \in {<<"List", "Map">>, <<"Reserve", "List">>}
    /\ h.pc \in {"Delete", "Deleted", "Reserve", "Reserved"} => h.seat \in Seats
    /\ h.pc \in {"Reserve", "Reserved"} => h.todo \in {<<"List", "Map">>, <<"List">>}
    /\ h.pc \in {"List", "Listed"} => h.todo \in {<<>>, <<"Map">>}
    /\ h.pc \in {"CancelAll", "Cancelled"} => h.todo = <<"Map">>
    /\ h.pc \in {"idle", "Map", "Mapped", "Confirm", "Confirmed"} => h.todo = <<>>

Locals == [pc: PCs, todo: Todos, seat: Seats \cup {0}, id: Nat, child: BOOLEAN,
           list: SUBSET Row, map: SUBSET Seats, ok: BOOLEAN]
Handler == {h \in Locals : Shaped(h)}

Page == [list: SUBSET Row, selected: SUBSET Seats, kids: SUBSET Seats, map: SUBSET Seats,
         loading: BOOLEAN, error: BOOLEAN, left: BOOLEAN, timeLeft: Nat, due: BOOLEAN, behind: Int]

\* What only the answers about them change.
Fields == {"list", "selected", "kids", "map", "left", "timeLeft", "due", "behind"}

TypeOK ==
    /\ holds \subseteq Row /\ mine \subseteq Seats
    /\ now \in Nat /\ serial \in Nat
    /\ page \in Page
    /\ req \in [Slots -> Handler]

LEMMA Tuples ==
  /\ \A x : /\ <<x>> # <<>> /\ Head(<<x>>) = x /\ Tail(<<x>>) = <<>>
  /\ \A x, y : /\ <<x, y>> # <<>> /\ Head(<<x, y>>) = x /\ Tail(<<x, y>>) = <<y>>
               /\ \A z : <<x, y>> # <<z>>
OBVIOUS

LEMMA IdleTyped == Idle \in Handler
BY DEF Idle, Handler, Locals, Shaped, PCs, Todos

LEMMA Continues ==
  ASSUME NEW h \in Handler
  PROVE  /\ Continue(h) \in Handler
         /\ h.todo = <<>> => Continue(h) = Idle
         /\ h.todo = <<"Map">> => Continue(h).pc = "Map" /\ Continue(h).todo = <<>>
         /\ h.todo = <<"List">> => Continue(h).pc = "List" /\ Continue(h).todo = <<>>
         /\ h.todo = <<"List", "Map">> => Continue(h).pc = "List" /\ Continue(h).todo = <<"Map">>
         /\ h.todo = <<"Reserve", "List">> =>
              /\ Continue(h).pc = "Reserve" /\ Continue(h).todo = <<"List">>
              /\ Continue(h).seat = h.seat /\ Continue(h).child = h.child
<1>1. CASE h.todo = <<>>
  BY <1>1, IdleTyped, Tuples DEF Continue
<1>2. ASSUME NEW p \in {"List", "Map"}, NEW t, h.todo # <<>>, Head(h.todo) = p, Tail(h.todo) = t
      PROVE  Continue(h) = [pc |-> p, todo |-> t, seat |-> 0, id |-> 0, child |-> FALSE,
                            list |-> {}, map |-> {}, ok |-> TRUE]
  BY <1>2 DEF Continue, Idle
<1>3. ASSUME NEW p \in {"List", "Map"}, NEW t \in {<<>>, <<"Map">>}, t = <<"Map">> => p = "List"
      PROVE  [pc |-> p, todo |-> t, seat |-> 0, id |-> 0, child |-> FALSE,
              list |-> {}, map |-> {}, ok |-> TRUE] \in Handler
  BY <1>3, Tuples DEF Handler, Locals, Shaped, PCs, Todos
<1>4. CASE h.todo = <<"Map">>
  <2>1. h.todo # <<>> /\ Head(h.todo) = "Map" /\ Tail(h.todo) = <<>>
    BY <1>4, Tuples
  <2>2. Continue(h) = [pc |-> "Map", todo |-> <<>>, seat |-> 0, id |-> 0, child |-> FALSE,
                       list |-> {}, map |-> {}, ok |-> TRUE]
    BY <2>1, <1>2
  <2>3. Continue(h) \in Handler /\ Continue(h).pc = "Map" /\ Continue(h).todo = <<>>
    BY <2>2, <1>3
  <2> QED
    BY <1>4, <2>3, Tuples
<1>5. CASE h.todo = <<"List">>
  <2>1. h.todo # <<>> /\ Head(h.todo) = "List" /\ Tail(h.todo) = <<>>
    BY <1>5, Tuples
  <2>2. Continue(h) = [pc |-> "List", todo |-> <<>>, seat |-> 0, id |-> 0, child |-> FALSE,
                       list |-> {}, map |-> {}, ok |-> TRUE]
    BY <2>1, <1>2
  <2>3. Continue(h) \in Handler /\ Continue(h).pc = "List" /\ Continue(h).todo = <<>>
    BY <2>2, <1>3
  <2> QED
    BY <1>5, <2>3, Tuples
<1>6. CASE h.todo = <<"List", "Map">>
  <2>1. h.todo # <<>> /\ Head(h.todo) = "List" /\ Tail(h.todo) = <<"Map">>
    BY <1>6, Tuples
  <2>2. Continue(h) = [pc |-> "List", todo |-> <<"Map">>, seat |-> 0, id |-> 0, child |-> FALSE,
                       list |-> {}, map |-> {}, ok |-> TRUE]
    BY <2>1, <1>2
  <2>3. Continue(h) \in Handler /\ Continue(h).pc = "List" /\ Continue(h).todo = <<"Map">>
    BY <2>2, <1>3
  <2> QED
    BY <1>6, <2>3, Tuples
<1>7. CASE h.todo = <<"Reserve", "List">>
  <2>1. Continue(h) = [h EXCEPT !.pc = "Reserve", !.todo = <<"List">>]
    BY <1>7, Tuples DEF Continue
  <2>2. [h EXCEPT !.pc = "Reserve", !.todo = <<"List">>] \in Locals
    BY DEF Handler, Locals, PCs, Todos
  <2>3. Shaped([h EXCEPT !.pc = "Reserve", !.todo = <<"List">>])
    <3>1. h.pc \in {"Delete", "Deleted"}
      BY <1>7, Tuples DEF Handler, Locals, Shaped, PCs
    <3> QED
      BY <3>1 DEF Handler, Locals, Shaped
  <2>4. Continue(h) \in Handler /\ Continue(h).pc = "Reserve" /\ Continue(h).todo = <<"List">>
        /\ Continue(h).seat = h.seat /\ Continue(h).child = h.child
    BY <2>1, <2>2, <2>3 DEF Handler, Locals
  <2> QED
    BY <1>7, <2>4, Tuples
<1> QED
  BY <1>1, <1>4, <1>5, <1>6, <1>7 DEF Handler, Locals, Todos

LEMMA Loads ==
  ASSUME NEW h, NEW p \in Page
  PROVE  /\ Loading(h, p) \in Page
         /\ \A f \in Fields : Loading(h, p)[f] = p[f]
BY DEF Loading, Page, Fields

LEMMA ServeTyped ==
  ASSUME TypeOK, NEW r \in Slots, NEW stage, NEW answer \in Handler, Serve(r, stage, answer),
         holds' \subseteq Row, mine' \subseteq Seats, serial' \in Nat
  PROVE  TypeOK'
BY DEF TypeOK, Serve

LEMMA ShowTyped ==
  ASSUME TypeOK, NEW r \in Slots, NEW stage, NEW shown \in Page, Show(r, stage, shown)
  PROVE  /\ TypeOK'
         /\ now' = now
         /\ \A f \in Fields : page'[f] = shown[f]
<1>1. req[r] \in Handler
  BY DEF TypeOK
<1>2. /\ Continue(req[r]) \in Handler
      /\ Loading(req[r], shown) \in Page
      /\ \A f \in Fields :
            Loading(req[r], shown)[f] = shown[f]
  BY <1>1, Continues, Loads
<1> QED
  BY <1>2 DEF TypeOK, Show, server

\* An answer keeps the rest of what the slot remembers.
LEMMA Answered ==
  ASSUME NEW h \in Handler
  PROVE  /\ h.pc = "Delete" => [h EXCEPT !.pc = "Deleted"] \in Handler
         /\ \A b \in BOOLEAN : h.pc = "Reserve" => [h EXCEPT !.pc = "Reserved", !.ok = b] \in Handler
         /\ \A l \in SUBSET Row : h.pc = "List" => [h EXCEPT !.pc = "Listed", !.list = l] \in Handler
         /\ \A m \in SUBSET Seats : h.pc = "Map" => [h EXCEPT !.pc = "Mapped", !.map = m] \in Handler
         /\ \A b \in BOOLEAN : h.pc = "Confirm" => [h EXCEPT !.pc = "Confirmed", !.ok = b] \in Handler
         /\ h.pc = "CancelAll" => [h EXCEPT !.pc = "Cancelled"] \in Handler
<1> USE DEF Handler, Locals, Shaped, PCs
<1>1. h.pc = "Delete" => [h EXCEPT !.pc = "Deleted"] \in Handler
  OBVIOUS
<1>2. ASSUME NEW b \in BOOLEAN, h.pc = "Reserve" PROVE [h EXCEPT !.pc = "Reserved", !.ok = b] \in Handler
  BY <1>2
<1>3. ASSUME NEW l \in SUBSET Row, h.pc = "List" PROVE [h EXCEPT !.pc = "Listed", !.list = l] \in Handler
  BY <1>3
<1>4. ASSUME NEW m \in SUBSET Seats, h.pc = "Map" PROVE [h EXCEPT !.pc = "Mapped", !.map = m] \in Handler
  BY <1>4
<1>5. ASSUME NEW b \in BOOLEAN, h.pc = "Confirm" PROVE [h EXCEPT !.pc = "Confirmed", !.ok = b] \in Handler
  BY <1>5
<1>6. h.pc = "CancelAll" => [h EXCEPT !.pc = "Cancelled"] \in Handler
  OBVIOUS
<1> QED
  BY <1>1, <1>2, <1>3, <1>4, <1>5, <1>6

LEMMA RowParts ==
  ASSUME NEW l \in SUBSET Row
  PROVE  /\ Seats_(l) \subseteq Seats /\ Children(l) \subseteq Seats
         /\ Unexpired(l) \subseteq l /\ {h.expires : h \in l} \subseteq Nat
BY DEF Row, Seats_, Children, Unexpired

LEMMA Least ==
  ASSUME NEW S \in SUBSET Nat, S # {}
  PROVE  Min(S) \in S /\ \A y \in S : Min(S) <= y
<1>1. PICK m \in S : \A y \in S : ~(y < m)
  <2> DEFINE R == OpToRel(<, Nat)
  <2>1. \A i, j \in Nat : i < j => <<i, j>> \in R
    BY DEF OpToRel
  <2>2. IsWellFoundedOn(R, Nat)
    BY NatLessThanWellFounded
  <2> HIDE DEF R
  <2>3. \E m \in S : \A y \in S : ~(<<y, m>> \in R)
    BY <2>2, WFMin
  <2> QED
    BY <2>1, <2>3
<1>2. \A y \in S : m <= y
  BY <1>1
<1> QED
  BY <1>2 DEF Min

LEMMA AtLeastNone ==
  ASSUME NEW x \in Int
  PROVE  Max({0, x}) \in Nat /\ Max({0, x}) = IF x > 0 THEN x ELSE 0
<1>1. \E m \in {0, x} : \A y \in {0, x} : m >= y
  BY x >= 0 \/ x < 0
<1>2. Max({0, x}) \in {0, x} /\ \A y \in {0, x} : Max({0, x}) >= y
  BY <1>1 DEF Max
<1> QED
  BY <1>2

\* The list that is shown, and the time that is left for it.
LEMMA Countdown ==
  ASSUME NEW l \in SUBSET Row, NEW c \in Int, l # {}
  PROVE  LET t == Max({0, Min({h.expires : h \in l}) - c}) IN
         t \in Nat /\ \A h \in l : t <= Max({0, h.expires - c})
<1> DEFINE S == {h.expires : h \in l}
           t == Max({0, Min(S) - c})
<1>1. S \in SUBSET Nat /\ S # {}
  BY RowParts
<1>2. Min(S) \in Nat /\ \A y \in S : Min(S) <= y
  <2> HIDE DEF S
  <2> QED
    BY <1>1, Least
<1>3. t \in Nat /\ t = IF Min(S) - c > 0 THEN Min(S) - c ELSE 0
  <2> HIDE DEF S
  <2> QED
    BY <1>2, AtLeastNone
<1>4. ASSUME NEW h \in l PROVE t <= Max({0, h.expires - c})
  <2>1. h.expires \in Nat /\ Min(S) <= h.expires
    BY <1>2 DEF Row
  <2>2. Max({0, h.expires - c}) = IF h.expires - c > 0 THEN h.expires - c ELSE 0
    BY <2>1, AtLeastNone
  <2> HIDE DEF S
  <2> QED
    BY <1>2, <1>3, <2>1, <2>2
<1> QED
  BY <1>3, <1>4

-----------------------------------------------------------------------------
(* Every step keeps the types, and but for an answer of the list and the passing *)
(* of time it leaves the countdown of a page that goes on showing seats alone.   *)

Untouched ==
    /\ now' = now /\ page'.behind = page.behind
    /\ page'.list # {} /\ ~page'.left =>
         ~page.left /\ \A f \in {"list", "timeLeft", "due"} : page'[f] = page[f]

LEMMA ServerTyped ==
  ASSUME TypeOK, NEW r \in Slots,
         Delete(r) \/ Reserve(r) \/ List(r) \/ Map(r) \/ Confirm(r) \/ CancelAll(r)
  PROVE  TypeOK' /\ Untouched
<1> DEFINE h == req[r]
<1>1. h \in Handler /\ h.id \in Nat /\ h.seat \in Seats \cup {0} /\ h.child \in BOOLEAN
  BY DEF TypeOK, Handler, Locals
<1>2. Unexpired(holds) \subseteq Row
  BY RowParts DEF TypeOK
<1>3. CASE Delete(r)
  <2>1. [h EXCEPT !.pc = "Deleted"] \in Handler
    BY <1>1, <1>3, Answered DEF Delete, Serve, At
  <2>2. holds' \subseteq Row /\ mine' \subseteq Seats /\ serial' \in Nat
    BY <1>3 DEF Delete, TypeOK
  <2> QED
    BY <2>1, <2>2, <1>3, ServeTyped DEF Delete, Serve, TypeOK, Untouched
<1>4. CASE Reserve(r)
  <2> DEFINE ok == others[h.seat] = "free" /\ h.seat \notin mine
                   /\ Cardinality(Unexpired(holds)) + Cardinality(mine) < Limit
  <2>0. ok \in BOOLEAN
    OBVIOUS
  <2>1. [h EXCEPT !.pc = "Reserved", !.ok = ok] \in Handler
    <3> HIDE DEF ok, h
    <3> QED
      BY <2>0, <1>1, <1>4, Answered DEF Reserve, Serve, At, h
  <2>2. mine' \subseteq Seats /\ serial' \in Nat
    BY <1>4 DEF Reserve, TypeOK
  <2>3. holds' \subseteq Row
    <3>0. serial \in Nat /\ now + HoldTime \in Nat
      BY PageAssumption DEF TypeOK
    <3>1. h.seat \in Seats
      BY <1>1, <1>4 DEF Reserve, Serve, At, Handler, Shaped
    <3>2. [id |-> serial, seat |-> h.seat, child |-> h.child, expires |-> now + HoldTime] \in Row
      BY <3>0, <3>1, <1>1 DEF Row
    <3> QED
      BY <1>2, <1>4, <3>2 DEF Reserve
  <2> QED
    BY <2>1, <2>2, <2>3, <1>4, ServeTyped DEF Reserve, Serve, TypeOK, Untouched
<1>5. CASE List(r)
  <2>1. [h EXCEPT !.pc = "Listed", !.list = Unexpired(holds)] \in Handler
    <3>1. Unexpired(holds) \in SUBSET Row /\ h.pc = "List"
      BY <1>2, <1>5 DEF List, Serve, At
    <3> QED
      BY <1>1, <3>1, Answered
  <2>2. holds' \subseteq Row /\ mine' \subseteq Seats /\ serial' \in Nat
    BY <1>2, <1>5 DEF List, TypeOK
  <2> QED
    BY <2>1, <2>2, <1>5, ServeTyped DEF List, Serve, TypeOK, Untouched
<1>6. CASE Map(r)
  <2> DEFINE m == mine \cup {s \in Seats : others[s] = "sold"}
  <2>1. [h EXCEPT !.pc = "Mapped", !.map = m] \in Handler
    <3>1. m \in SUBSET Seats /\ h.pc = "Map"
      BY <1>6 DEF Map, Serve, At, TypeOK
    <3> HIDE DEF m
    <3> QED
      BY <1>1, <3>1, Answered
  <2>2. holds' \subseteq Row /\ mine' \subseteq Seats /\ serial' \in Nat
    BY <1>2, <1>6 DEF Map, TypeOK
  <2> QED
    BY <2>1, <2>2, <1>6, ServeTyped DEF Map, Serve, TypeOK, Untouched
<1>7. CASE Confirm(r)
  <2>1. [h EXCEPT !.pc = "Confirmed", !.ok = Unexpired(holds) # {}] \in Handler
    <3>1. (Unexpired(holds) # {}) \in BOOLEAN /\ h.pc = "Confirm"
      BY <1>7 DEF Confirm, Serve, At
    <3> DEFINE b == Unexpired(holds) # {}
    <3> HIDE DEF b
    <3>2. [h EXCEPT !.pc = "Confirmed", !.ok = b] \in Handler
      BY <1>1, <3>1, Answered DEF b
    <3> QED
      BY <3>2 DEF b
  <2>2. holds' \subseteq Row /\ mine' \subseteq Seats /\ serial' \in Nat
    BY <1>2, <1>7, RowParts DEF Confirm, TypeOK
  <2> QED
    BY <2>1, <2>2, <1>7, ServeTyped DEF Confirm, Serve, TypeOK, Untouched
<1>8. CASE CancelAll(r)
  <2>1. [h EXCEPT !.pc = "Cancelled"] \in Handler
    BY <1>1, <1>8, Answered DEF CancelAll, Serve, At
  <2>2. holds' \subseteq Row /\ mine' \subseteq Seats /\ serial' \in Nat
    BY <1>8 DEF CancelAll, TypeOK
  <2> QED
    BY <2>1, <2>2, <1>8, ServeTyped DEF CancelAll, Serve, TypeOK, Untouched
<1> QED
  BY <1>3, <1>4, <1>5, <1>6, <1>7, <1>8

LEMMA AnswerTyped ==
  ASSUME TypeOK, NEW r \in Slots,
         Deleted(r) \/ Reserved(r) \/ ReserveRefused(r) \/ Mapped(r) \/ Confirmed(r)
         \/ Cancelled(r)
  PROVE  TypeOK' /\ Untouched
<1> DEFINE h == req[r]
<1>1. h \in Handler /\ h.seat \in Seats \cup {0} /\ h.list \in SUBSET Row /\ h.map \in SUBSET Seats
      /\ h.ok \in BOOLEAN
  BY DEF TypeOK, Handler, Locals
<1>2. page \in Page /\ now \in Nat
  BY DEF TypeOK
<1>3. CASE Deleted(r)
  <2> DEFINE shown == IF Head(req[r].todo) = "Reserve" THEN page
                      ELSE [page EXCEPT !.selected = @ \ {req[r].seat}, !.kids = @ \ {req[r].seat}]
  <2>1. shown \in Page /\ \A f \in {"list", "left", "timeLeft", "due", "behind"} :
                           shown[f] = page[f]
    BY <1>2 DEF Page
  <2>2. Show(r, "Deleted", shown)
    BY <1>3 DEF Deleted
  <2> HIDE DEF shown
  <2> QED
    BY <2>1, <2>2, ShowTyped DEF TypeOK, Untouched, Fields
<1>4. CASE Reserved(r)
  <2> DEFINE shown == IF req[r].todo # <<"List">> THEN page
                      ELSE [page EXCEPT !.kids = IF req[r].child THEN @ \cup {req[r].seat}
                                                 ELSE @ \ {req[r].seat}]
  <2>0. h.seat \in Seats
    BY <1>1, <1>4 DEF Reserved, Show, At, Handler, Shaped
  <2>1. shown \in Page /\ \A f \in {"list", "left", "timeLeft", "due", "behind"} :
                           shown[f] = page[f]
    BY <1>2, <2>0 DEF Page
  <2>2. Show(r, "Reserved", shown)
    BY <1>4 DEF Reserved
  <2> HIDE DEF shown
  <2> QED
    BY <2>1, <2>2, ShowTyped DEF TypeOK, Untouched, Fields
<1>5. CASE ReserveRefused(r)
  BY <1>5, IdleTyped DEF ReserveRefused, TypeOK, server, Untouched
<1>7. CASE Mapped(r)
  <2> DEFINE shown == [page EXCEPT !.map = req[r].map, !.loading = FALSE]
  <2>1. shown \in Page /\ \A f \in {"list", "left", "timeLeft", "due", "behind"} :
                           shown[f] = page[f]
    BY <1>1, <1>2 DEF Page
  <2>2. Show(r, "Mapped", shown)
    BY <1>7 DEF Mapped
  <2> HIDE DEF shown
  <2> QED
    BY <2>1, <2>2, ShowTyped DEF TypeOK, Untouched, Fields
<1>8. CASE Confirmed(r)
  <2> DEFINE shown == [page EXCEPT !.left = @ \/ req[r].ok]
  <2>1. /\ shown \in Page /\ (page.left => shown.left)
        /\ \A f \in {"list", "timeLeft", "due", "behind"} : shown[f] = page[f]
    BY <1>1, <1>2 DEF Page
  <2>2. Show(r, "Confirmed", shown)
    BY <1>8 DEF Confirmed
  <2> HIDE DEF shown
  <2> QED
    BY <2>1, <2>2, ShowTyped DEF TypeOK, Untouched, Fields
<1>9. CASE Cancelled(r)
  <2> DEFINE shown == [page EXCEPT !.list = {}, !.selected = {}, !.kids = {}, !.due = FALSE]
  <2>1. shown \in Page /\ shown.list = {} /\ shown.behind = page.behind
    BY <1>2 DEF Page
  <2>2. Show(r, "Cancelled", shown)
    BY <1>9 DEF Cancelled
  <2> HIDE DEF shown
  <2> QED
    BY <2>1, <2>2, ShowTyped DEF TypeOK, Untouched, Fields
<1> QED
  BY <1>3, <1>4, <1>5, <1>7, <1>8, <1>9

\* An answer of the list sets the countdown to its first expiry.
LEMMA ListedTyped ==
  ASSUME TypeOK, NEW r \in Slots, Listed(r)
  PROVE  /\ TypeOK' /\ now' = now /\ page'.behind = page.behind
         /\ \A g \in page'.list : page'.timeLeft <= Max({0, g.expires - Clock})
<1> DEFINE l == req[r].list
           t == IF l = {} THEN page.timeLeft ELSE Max({0, Min({g.expires : g \in l}) - Clock})
           shown == [page EXCEPT !.list = l, !.selected = Seats_(l), !.kids = Children(l),
                                 !.due = @ /\ l # {}, !.timeLeft = t]
<1>1. l \in SUBSET Row /\ page \in Page /\ Clock \in Int
  BY DEF TypeOK, Handler, Locals, Page, Clock
<1>2. t \in Nat /\ \A g \in l : t <= Max({0, g.expires - Clock})
  <2>1. CASE l = {}
    BY <1>1, <2>1 DEF Page
  <2>2. CASE l # {}
    <3> HIDE DEF l
    <3> QED
      BY <1>1, <2>2, Countdown
  <2> QED
    BY <2>1, <2>2
<1>3. Seats_(l) \subseteq Seats /\ Children(l) \subseteq Seats
  BY <1>1, RowParts
<1>4. Show(r, "Listed", shown)
  BY DEF Listed
<1>5. shown \in Page /\ shown.list = l /\ shown.timeLeft = t /\ shown.behind = page.behind
  <2> HIDE DEF t, l
  <2> QED
    BY <1>1, <1>2, <1>3 DEF Page
<1> HIDE DEF shown, t, l
<1> QED
  BY <1>2, <1>4, <1>5, ShowTyped DEF Fields

\* What a click remembers.
LEMMA ClickHandlers ==
  /\ \A h \in Row :
       [Idle EXCEPT !.pc = "Delete", !.todo = <<"List", "Map">>, !.seat = h.seat, !.id = h.id] \in Handler
  /\ \A s \in Seats :
       [Idle EXCEPT !.pc = "Reserve", !.todo = <<"List", "Map">>, !.seat = s] \in Handler
  /\ \A h \in Row, b \in BOOLEAN :
       [Idle EXCEPT !.pc = "Delete", !.todo = <<"Reserve", "List">>, !.seat = h.seat,
                    !.id = h.id, !.child = b] \in Handler
  /\ \A l \in SUBSET Row : [Idle EXCEPT !.pc = "Confirm", !.list = l] \in Handler
  /\ [Idle EXCEPT !.pc = "CancelAll", !.todo = <<"Map">>] \in Handler
  /\ [Idle EXCEPT !.pc = "Map"] \in Handler /\ [Idle EXCEPT !.pc = "List"] \in Handler
<1> USE DEF Handler, Locals, Shaped, PCs, Todos, Idle, Row
<1>1. ASSUME NEW h \in Row
      PROVE [Idle EXCEPT !.pc = "Delete", !.todo = <<"List", "Map">>, !.seat = h.seat, !.id = h.id]
              \in Handler
  OBVIOUS
<1>2. ASSUME NEW s \in Seats
      PROVE [Idle EXCEPT !.pc = "Reserve", !.todo = <<"List", "Map">>, !.seat = s] \in Handler
  OBVIOUS
<1>3. ASSUME NEW h \in Row, NEW b \in BOOLEAN
      PROVE [Idle EXCEPT !.pc = "Delete", !.todo = <<"Reserve", "List">>, !.seat = h.seat,
                         !.id = h.id, !.child = b] \in Handler
  OBVIOUS
<1>4. ASSUME NEW l \in SUBSET Row PROVE [Idle EXCEPT !.pc = "Confirm", !.list = l] \in Handler
  OBVIOUS
<1>5. /\ [Idle EXCEPT !.pc = "CancelAll", !.todo = <<"Map">>] \in Handler
      /\ [Idle EXCEPT !.pc = "Map"] \in Handler /\ [Idle EXCEPT !.pc = "List"] \in Handler
  OBVIOUS
<1> QED
  BY <1>1, <1>2, <1>3, <1>4, <1>5

LEMMA ClickTyped ==
  ASSUME TypeOK, NEW r \in Slots,
         ToggleOff(r) \/ ToggleOn(r) \/ ToggleChild(r) \/ ConfirmClick(r) \/ CancelAllClick(r)
  PROVE  TypeOK' /\ Untouched
<1>1. ASSUME NEW h \in Handler, Click(r, h) PROVE TypeOK' /\ Untouched
  <2>1. TypeOK'
    BY <1>1 DEF Click, TypeOK, server
  <2> QED
    BY <1>1, <2>1 DEF Click, server, Untouched
<1>2. page.list \in SUBSET Row /\ Chosen \subseteq Row
  BY DEF Chosen, TypeOK, Page
<1>3. CASE ToggleOff(r)
  BY <1>1, <1>2, <1>3, ClickHandlers DEF ToggleOff
<1>4. CASE ToggleOn(r)
  BY <1>1, <1>4, ClickHandlers DEF ToggleOn, Clickable
<1>5. CASE ToggleChild(r)
  <2>1. PICK h \in Chosen :
          Click(r, [Idle EXCEPT !.pc = "Delete", !.todo = <<"Reserve", "List">>, !.seat = h.seat,
                                !.id = h.id, !.child = h.seat \notin page.kids])
    BY <1>5 DEF ToggleChild
  <2> DEFINE b == h.seat \notin page.kids
  <2>2. b \in BOOLEAN
    OBVIOUS
  <2> HIDE DEF b
  <2>3. [Idle EXCEPT !.pc = "Delete", !.todo = <<"Reserve", "List">>, !.seat = h.seat,
                     !.id = h.id, !.child = b] \in Handler
    BY <1>2, <2>2, ClickHandlers
  <2> QED
    BY <1>1, <2>1, <2>3 DEF b
<1>6. CASE ConfirmClick(r)
  BY <1>1, <1>2, <1>6, ClickHandlers DEF ConfirmClick
<1>7. CASE CancelAllClick(r)
  BY <1>1, <1>7, ClickHandlers DEF CancelAllClick
<1> QED
  BY <1>3, <1>4, <1>5, <1>6, <1>7

LEMMA LostTyped ==
  ASSUME TypeOK, NEW r \in Slots, Lost(r)
  PROVE  TypeOK' /\ Untouched
<1>1. req[r] \in Handler /\ page \in Page
  BY DEF TypeOK
<1>2. Continue(req[r]) \in Handler /\ Idle \in Handler
  BY <1>1, Continues, IdleTyped
<1>3. Loading(req[r], page) \in Page
      /\ \A f \in {"list", "left", "timeLeft", "due", "behind"} : Loading(req[r], page)[f] = page[f]
  BY <1>1, Loads DEF Fields
<1>4. [page EXCEPT !.loading = FALSE, !.error = TRUE] \in Page
  BY <1>1 DEF Page
<1>5. TypeOK'
  BY <1>1, <1>2, <1>3, <1>4 DEF Lost, TypeOK, server
<1>6. \A f \in {"list", "left", "timeLeft", "due", "behind"} : page'[f] = page[f]
  BY <1>1, <1>3 DEF Lost, Page
<1> QED
  BY <1>5, <1>6 DEF Lost, server, Untouched

LEMMA CountedTyped ==
  ASSUME page \in Page
  PROVE  Counted(page) \in Page
<1>1. CASE page.timeLeft > 1
  <2>1. page.timeLeft - 1 \in Nat
    BY <1>1 DEF Page
  <2>2. Counted(page) = [page EXCEPT !.timeLeft = page.timeLeft - 1, !.due = FALSE]
    BY <1>1 DEF Counted
  <2> QED
    BY <2>1, <2>2 DEF Page
<1>2. CASE ~(page.timeLeft > 1)
  <2> DEFINE p == [page EXCEPT !.timeLeft = 0, !.list = {}, !.selected = {}, !.kids = {}]
  <2>1. p \in Page
    BY DEF Page
  <2>2. Counted(page) = [p EXCEPT !.loading = TRUE, !.error = FALSE, !.due = FALSE]
    BY <1>2 DEF Counted
  <2> HIDE DEF p
  <2> QED
    BY <2>1, <2>2 DEF Page
<1> QED
  BY <1>1, <1>2

LEMMA TimeTyped ==
  ASSUME TypeOK, Tick \/ Count
  PROVE  TypeOK'
<1>1. page \in Page /\ now \in Nat /\ req \in [Slots -> Handler]
  BY DEF TypeOK
<1>2. CASE Tick
  <2> DEFINE b == page.list # {} /\ ~page.left
  <2>0. b \in BOOLEAN /\ page' = [page EXCEPT !.due = b] /\ now' = now + 1
    BY <1>2 DEF Tick
  <2> HIDE DEF b
  <2>1. page' \in Page /\ now' \in Nat
    BY <1>1, <2>0 DEF Page
  <2>2. UNCHANGED <<holds, mine, serial, req>>
    BY <1>2 DEF Tick
  <2> QED
    BY <2>1, <2>2 DEF TypeOK
<1>3. CASE Count
  <2>1. page' \in Page
    BY <1>1, <1>3, CountedTyped DEF Count
  <2>2. req' \in [Slots -> Handler]
    BY <1>1, <1>3, ClickHandlers DEF Count, Slots
  <2> QED
    BY <1>3, <2>1, <2>2 DEF Count, TypeOK, server
<1> QED
  BY <1>2, <1>3

LEMMA TypeStep ==
  ASSUME TypeOK, [Next]_vars
  PROVE  TypeOK'
<1>1. CASE UNCHANGED vars
  BY <1>1 DEF vars, server, TypeOK
<1>2. CASE Other
  BY <1>2 DEF Other, TypeOK
<1>3. ASSUME NEW r \in Slots, Answer(r) PROVE TypeOK'
  BY <1>3, ServerTyped, AnswerTyped, ListedTyped DEF Answer
<1>4. ASSUME NEW r \in Clicks,
             ToggleOff(r) \/ ToggleOn(r) \/ ToggleChild(r) \/ ConfirmClick(r) \/ CancelAllClick(r)
      PROVE TypeOK'
  BY <1>4, ClickTyped DEF Slots
<1> QED
  BY <1>1, <1>2, <1>3, <1>4, LostTyped, TimeTyped DEF Next

LEMMA TypeInit == Init => TypeOK
<1> SUFFICES ASSUME Init PROVE TypeOK
  OBVIOUS
<1>1. holds \subseteq Row
  <2>1. (CHOOSE s \in Seats : TRUE) \in Seats
    BY PageAssumption
  <2> DEFINE s0 == CHOOSE s \in Seats : TRUE
  <2> HIDE DEF s0
  <2>2. s0 \in Seats
    BY <2>1 DEF s0
  <2>3. [id |-> 0, seat |-> s0, child |-> FALSE, expires |-> 1] \in Row
    BY <2>2 DEF Row
  <2> QED
    BY <2>3 DEF Init, s0
<1>2. page \in Page /\ page.list = {}
  BY PageAssumption DEF Init, NewPage, Page
<1>3. req \in [Slots -> Handler]
  BY ClickHandlers, IdleTyped DEF Init
<1> QED
  BY <1>1, <1>2, <1>3 DEF Init, TypeOK

-----------------------------------------------------------------------------
(* The countdown, second by second: what it may promise more is one second for  *)
(* each firing that is due, and one for each that was missed.                    *)

Honest == missed \in Nat /\ CountdownHonest

LEMMA NextTouches ==
  ASSUME TypeOK, Next
  PROVE  Untouched \/ (\E r \in Slots : Listed(r)) \/ Tick \/ Count
<1>1. ASSUME NEW r \in Slots, Answer(r), ~Listed(r) PROVE Untouched
  BY <1>1, ServerTyped, AnswerTyped DEF Answer
<1>2. ASSUME NEW r \in Slots, Lost(r) PROVE Untouched
  BY <1>2, LostTyped
<1>3. ASSUME NEW r \in Clicks,
             ToggleOff(r) \/ ToggleOn(r) \/ ToggleChild(r) \/ ConfirmClick(r) \/ CancelAllClick(r)
      PROVE  Untouched
  BY <1>3, ClickTyped DEF Slots
<1>4. CASE Other
  BY <1>4 DEF Other, Untouched
<1> QED
  BY <1>1, <1>2, <1>3, <1>4 DEF Next

LEMMA HonestStep ==
  ASSUME TypeOK, TypeOK', Honest, Next, missed' = Missed
  PROVE  Honest'
<1> DEFINE one(b) == IF b THEN 1 ELSE 0
           granted(g) == Max({0, g.expires - Clock})
<1>1. missed \in Nat /\ missed' \in Nat
  BY DEF Honest, Missed
<1> SUFFICES ASSUME ~page'.left, NEW g \in page'.list
             PROVE  page'.timeLeft <= (granted(g))' + missed' + one(page'.due)
  BY <1>1 DEF Honest, CountdownHonest
<1>2. /\ page \in Page /\ page' \in Page /\ now \in Nat /\ now' \in Nat
      /\ Clock \in Int /\ Clock' \in Int /\ g.expires \in Nat
  BY DEF TypeOK, Page, Row, Clock
<1>3. /\ granted(g) = IF g.expires - Clock > 0 THEN g.expires - Clock ELSE 0
      /\ (granted(g))' = IF g.expires - Clock' > 0 THEN g.expires - Clock' ELSE 0
  BY <1>2, AtLeastNone
<1>4. ~page.left /\ g \in page.list => page.timeLeft <= granted(g) + missed + one(page.due)
  BY DEF Honest, CountdownHonest
<1> HIDE DEF granted
<1>5. CASE \E r \in Slots : Listed(r)
  <2>1. page'.timeLeft <= granted(g) /\ Clock' = Clock
    BY <1>5, ListedTyped DEF granted, Clock
  <2> QED
    BY <1>1, <1>2, <1>3, <2>1 DEF Page
<1>6. CASE Untouched /\ ~\E r \in Slots : Listed(r)
  <2>1. /\ ~page.left /\ page'.list = page.list /\ page'.timeLeft = page.timeLeft
        /\ page'.due = page.due /\ Clock' = Clock
    BY <1>6 DEF Untouched, Clock
  <2>2. missed' = missed
    BY <1>2, <1>6 DEF Missed, Tick, Untouched
  <2> QED
    BY <1>3, <1>4, <2>1, <2>2
<1>7. CASE Tick /\ ~\E r \in Slots : Listed(r)
  <2>1. /\ page'.list = page.list /\ page'.left = page.left /\ page'.timeLeft = page.timeLeft
        /\ page'.due = (page.list # {} /\ ~page.left) /\ page'.behind = page.behind
    BY <1>2, <1>7 DEF Tick, Page
  <2>2. page'.due /\ Clock' = Clock + 1
    BY <1>2, <1>7, <2>1 DEF Tick, Clock, Page
  <2>3. missed' = missed + one(page.due)
    BY <1>1, <1>7 DEF Missed
  <2> QED
    BY <1>1, <1>2, <1>3, <1>4, <2>1, <2>2, <2>3 DEF Page
<1>8. CASE Count /\ ~\E r \in Slots : Listed(r)
  <2>1. page.due /\ page' = Counted(page) /\ now' = now /\ ~page.left
    BY <1>8 DEF Count, server
  <2>2. page.timeLeft > 1
    BY <1>2, <2>1 DEF Counted, Page
  <2>3. /\ page'.list = page.list /\ page'.timeLeft = page.timeLeft - 1 /\ ~page'.due
        /\ page'.behind = page.behind
    BY <1>2, <2>1, <2>2 DEF Counted, Page
  <2>4. missed' = missed /\ Clock' = Clock
    BY <1>2, <1>8, <2>1, <2>3 DEF Missed, Tick, Clock
  <2> QED
    BY <1>1, <1>2, <1>3, <1>4, <2>1, <2>3, <2>4 DEF Page
<1> QED
  BY <1>5, <1>6, <1>7, <1>8, NextTouches

\* The countdown that the page shows ('Время резервации') promises no more time than
\* the server grants any of the seats that are shown, but for the browser's clock being
\* behind and the seconds its interval missed, for any clicks, any loss, any order of
\* the answers and any delay of the interval.
THEOREM CountdownIsHonest == DisciplineSpec => []CountdownHonest
<1>1. DisciplineInit => TypeOK /\ Honest
  <2> SUFFICES ASSUME DisciplineInit PROVE TypeOK /\ Honest
    OBVIOUS
  <2>1. page.list = {} /\ missed = 0
    BY DEF DisciplineInit, Init, NewPage
  <2> QED
    BY <2>1, TypeInit DEF DisciplineInit, Honest, CountdownHonest
<1>2. TypeOK /\ Honest /\ [DisciplineNext]_<<vars, history>> => (TypeOK /\ Honest)'
  <2> SUFFICES ASSUME TypeOK, Honest, [DisciplineNext]_<<vars, history>> PROVE (TypeOK /\ Honest)'
    OBVIOUS
  <2>1. CASE DisciplineNext
    BY <2>1, TypeStep, HonestStep DEF DisciplineNext
  <2>2. CASE UNCHANGED <<vars, history>>
    BY <2>2, TypeStep DEF vars, server, history, Honest, CountdownHonest, Clock
  <2> QED
    BY <2>1, <2>2
<1>3. Honest => CountdownHonest
  BY DEF Honest
<1> QED
  BY <1>1, <1>2, <1>3, PTL DEF DisciplineSpec

-----------------------------------------------------------------------------
(* What is shown agrees with the server, or something on its way will see to it. *)

\* The slot will replace the list by what the server has, or the page will be left.
Owed(h) ==
    \/ h.pc \in {"Deleted", "List"}
    \/ h.pc = "Reserve" /\ h.todo = <<"List">>
    \/ h.pc = "Reserved" /\ (h.ok \/ h.todo = <<"List">>)
    \/ h.pc = "Confirmed" /\ h.ok

Replaces(h) == h.pc \in {"Listed", "Cancelled"}

\* The answer that will replace the list, or the page without one, has what the
\* server has.
Fresh ==
    /\ \A r \in Slots : At(r, "Listed") => Strictly(req[r].list) = Strictly(holds)
    /\ \A r \in Slots : At(r, "Cancelled") => Strictly(holds) = {}
    /\ (\A r \in Slots : ~Replaces(req[r])) =>
         /\ Strictly(page.list) = Strictly(holds)
         /\ page.selected = Seats_(page.list) /\ page.kids = Children(page.list)

Owing == \E r \in Slots : Owed(req[r])

Synced == Faithful /\ ~page.left => Owing \/ Fresh

\* While a booking is confirmed alone, the button's list covers what will be sold.
Asked == Faithful /\ Kept({"alone"}) =>
    \A r \in Slots : At(r, "Confirm") =>
        /\ \A q \in Slots \ {r} : req[q] = Idle
        /\ Strictly(holds) \subseteq req[r].list

Single == \A r, q \in Slots : Replaces(req[r]) /\ Replaces(req[q]) => q = r
Ordered == Faithful => Single

Step == DisciplineNext

LEMMA StrictlyLive ==
  ASSUME NEW l \in SUBSET Row, now \in Nat
  PROVE  Strictly(Unexpired(l)) = Strictly(l)
BY DEF Strictly, Unexpired, Row

\* What a step has not broken.
LEMMA StillFaithful ==
  ASSUME broken' = broken \cup Breaks, Faithful'
  PROVE  Faithful /\ InOrder' /\ Delivered /\ Reheld /\ OneExpiry
BY DEF Faithful, Kept, Breaks

LEMMA StillAlone ==
  ASSUME broken' = broken \cup Breaks, Kept({"alone"})'
  PROVE  Kept({"alone"}) /\ Alone'
BY DEF Kept, Breaks

LEMMA FreshFrame ==
  ASSUME Fresh, req \in [Slots -> Handler], NEW r \in Slots, NEW x, req' = [req EXCEPT ![r] = x],
         ~Replaces(req[r]), ~Replaces(x), now' = now, Strictly(holds)' = Strictly(holds),
         page'.list = page.list, page'.selected = page.selected, page'.kids = page.kids
  PROVE  Fresh'
<1>1. \A q \in Slots : (At(q, "Listed")' => At(q, "Listed") /\ req'[q] = req[q])
                       /\ (At(q, "Cancelled")' => At(q, "Cancelled"))
  BY DEF At, Replaces
<1>2. (\A q \in Slots : ~Replaces(req[q]))' => \A q \in Slots : ~Replaces(req[q])
  BY DEF Replaces
<1>4. \A q \in Slots : At(q, "Listed")' => (Strictly(req[q].list) = Strictly(holds))'
  BY <1>1 DEF Fresh, Strictly
<1>5. \A q \in Slots : At(q, "Cancelled")' => (Strictly(holds) = {})'
  BY <1>1 DEF Fresh
<1>6. (\A q \in Slots : ~Replaces(req[q]))' =>
        (/\ Strictly(page.list) = Strictly(holds)
         /\ page.selected = Seats_(page.list) /\ page.kids = Children(page.list))'
  BY <1>2 DEF Fresh, Strictly, Seats_, Children
<1> QED
  BY <1>4, <1>5, <1>6 DEF Fresh

LEMMA OneSlot ==
  ASSUME TypeOK, Next
  PROVE  \E r \in Slots : \E x : req' = [req EXCEPT ![r] = x]
<1>0. Timer \in Slots /\ req = [req EXCEPT ![Timer] = req[Timer]]
  BY DEF Slots, TypeOK
<1>1. ASSUME NEW r \in Slots, Answer(r) \/ Lost(r) PROVE \E x : req' = [req EXCEPT ![r] = x]
  <2>1. CASE Lost(r)
    BY <2>1 DEF Lost
  <2>2. CASE Delete(r) \/ Reserve(r) \/ List(r) \/ Map(r) \/ Confirm(r) \/ CancelAll(r)
    BY <2>2 DEF Delete, Reserve, List, Map, Confirm, CancelAll, Serve
  <2>3. CASE Deleted(r) \/ Reserved(r) \/ ReserveRefused(r) \/ Listed(r) \/ Mapped(r)
             \/ Confirmed(r) \/ Cancelled(r)
    BY <2>3 DEF Deleted, Reserved, ReserveRefused, Listed, Mapped, Confirmed, Cancelled, Show
  <2> QED
    BY <1>1, <2>1, <2>2, <2>3 DEF Answer
<1>2. ASSUME NEW r \in Clicks,
             ToggleOff(r) \/ ToggleOn(r) \/ ToggleChild(r) \/ ConfirmClick(r) \/ CancelAllClick(r)
      PROVE \E x : req' = [req EXCEPT ![r] = x]
  BY <1>2 DEF ToggleOff, ToggleOn, ToggleChild, ConfirmClick, CancelAllClick, Click
<1>3. CASE Tick \/ Count
  BY <1>0, <1>3 DEF Tick, Count
<1>4. CASE Other
  BY <1>0, <1>4 DEF Other
<1>5. Clicks \subseteq Slots
  BY DEF Slots
<1> QED
  BY <1>1, <1>2, <1>3, <1>4, <1>5 DEF Next

LEMMA Pair == ASSUME NEW a, NEW b, a # b PROVE Cardinality({a, b}) = 2
<1>1. {a, b} = {b} \cup {a}
  OBVIOUS
<1>2. IsFiniteSet({b}) /\ Cardinality({b}) = 1
  BY FS_Singleton
<1>3. Cardinality({b} \cup {a}) = 1 + 1
  BY <1>2, FS_AddElement
<1> QED
  BY <1>1, <1>3

\* Two answers at most replace the list after a step: the one before it and its own.
LEMMA OrderedStep ==
  ASSUME TypeOK, Ordered, Step
  PROVE  Ordered'
<1> SUFFICES ASSUME Faithful' PROVE Single'
  BY DEF Ordered
<1>1. Single /\ InOrder'
  BY StillFaithful DEF Ordered, Step, DisciplineNext
<1>2. PICK r \in Slots : \E x : req' = [req EXCEPT ![r] = x]
  BY OneSlot DEF Step, DisciplineNext
<1> DEFINE S == {q \in Slots : req'[q].pc \in {"Listed", "Cancelled"}}
<1>3. \A q \in Slots \ {r} : req'[q] = req[q]
  BY <1>2 DEF TypeOK
<1>4. ASSUME NEW a \in S, NEW b \in S, a # b PROVE FALSE
  <2>1. S \subseteq {a, b}
    BY <1>1, <1>3, <1>4 DEF Single, Replaces
  <2>2. S = {a, b}
    BY <2>1
  <2>3. Cardinality({a, b}) = 2
    BY <1>4, Pair
  <2>4. Cardinality(S) <= 1
    BY <1>1 DEF InOrder
  <2> QED
    BY <2>2, <2>3, <2>4
<1> QED
  BY <1>4 DEF Single, Replaces

LEMMA ServerSynced ==
  ASSUME TypeOK, Synced, Step, Faithful', NEW r \in Slots,
         Delete(r) \/ Reserve(r) \/ List(r) \/ Map(r) \/ Confirm(r) \/ CancelAll(r),
         Single', ~page.left
  PROVE  Owing' \/ Fresh'
<1> DEFINE h == req[r]
<1>1. req \in [Slots -> Handler] /\ h \in Handler /\ holds \in SUBSET Row /\ now \in Nat
  BY DEF TypeOK
<1>2. Strictly(Unexpired(holds)) = Strictly(holds)
  BY <1>1, StrictlyLive
<1>3. Owing \/ Fresh
  BY StillFaithful DEF Synced, Step, DisciplineNext
<1>4. ASSUME NEW x, req' = [req EXCEPT ![r] = x], Owed(x) PROVE Owing'
  BY <1>1, <1>4 DEF Owing
<1>5. ASSUME NEW x, req' = [req EXCEPT ![r] = x], ~Owed(h), ~Replaces(h), ~Replaces(x),
             Strictly(holds)' = Strictly(holds), page' = page, now' = now
      PROVE  Owing' \/ Fresh'
  <2>1. CASE Owing
    BY <1>1, <1>5, <2>1 DEF Owing
  <2>2. CASE Fresh
    BY <1>1, <1>5, <2>2, FreshFrame
  <2> QED
    BY <1>3, <2>1, <2>2
<1>6. CASE Delete(r)
  <2>1. Owed([h EXCEPT !.pc = "Deleted"])
    BY <1>1 DEF Owed, Handler, Locals
  <2> QED
    BY <1>4, <1>6, <2>1 DEF Delete, Serve
<1>7. CASE Reserve(r)
  <2> DEFINE ok == others[h.seat] = "free" /\ h.seat \notin mine
                   /\ Cardinality(Unexpired(holds)) + Cardinality(mine) < Limit
             x == [h EXCEPT !.pc = "Reserved", !.ok = ok]
  <2>1. req' = [req EXCEPT ![r] = x] /\ h.pc = "Reserve"
    BY <1>7 DEF Reserve, Serve, At
  <2>2. x.pc = "Reserved" /\ x.ok = ok /\ x.todo = h.todo
    <3> HIDE DEF ok
    <3> QED
      BY <1>1 DEF Handler, Locals
  <2>3. CASE ok \/ h.todo = <<"List">>
    <3>1. Owed(x)
      BY <2>2, <2>3 DEF Owed
    <3> HIDE DEF x
    <3> QED
      BY <1>4, <2>1, <3>1
  <2>4. CASE ~(ok \/ h.todo = <<"List">>)
    <3>1. holds' = Unexpired(holds) /\ page' = page /\ now' = now
      BY <1>7, <2>4 DEF Reserve, Serve
    <3>2. Strictly(holds)' = Strictly(holds)
      BY <3>1, <1>2 DEF Strictly
    <3>3. ~Owed(h) /\ ~Replaces(h) /\ ~Replaces(x)
      BY <2>1, <2>2, <2>4 DEF Owed, Replaces
    <3> HIDE DEF x
    <3> QED
      BY <1>5, <2>1, <3>1, <3>2, <3>3
  <2> QED
    BY <2>3, <2>4
<1>8. CASE List(r)
  <2> DEFINE x == [h EXCEPT !.pc = "Listed", !.list = Unexpired(holds)]
  <2>1. req' = [req EXCEPT ![r] = x] /\ holds' = Unexpired(holds) /\ now' = now
    BY <1>8 DEF List, Serve
  <2>2. x.pc = "Listed" /\ x.list = Unexpired(holds)
    BY <1>1 DEF Handler, Locals
  <2> HIDE DEF x
  <2>3. req'[r] = x /\ \A q \in Slots \ {r} : ~Replaces(req[q])'
    BY <1>1, <2>1, <2>2 DEF Single, Replaces
  <2>4. Fresh'
    BY <2>1, <2>2, <2>3 DEF Fresh, At, Replaces, Strictly
  <2> QED
    BY <2>4
<1>9. CASE Map(r)
  <2> DEFINE x == [h EXCEPT !.pc = "Mapped", !.map = mine \cup {s \in Seats : others[s] = "sold"}]
  <2>1. req' = [req EXCEPT ![r] = x] /\ holds' = Unexpired(holds) /\ now' = now /\ page' = page
        /\ h.pc = "Map"
    BY <1>9 DEF Map, Serve, At
  <2>2. x.pc = "Mapped"
    BY <1>1 DEF Handler, Locals
  <2>3. Strictly(holds)' = Strictly(holds)
    BY <2>1, <1>2 DEF Strictly
  <2>4. ~Owed(h) /\ ~Replaces(h) /\ ~Replaces(x)
    BY <2>1, <2>2 DEF Owed, Replaces
  <2> HIDE DEF x
  <2> QED
    BY <1>5, <2>1, <2>3, <2>4
<1>10. CASE Confirm(r)
  <2> DEFINE b == Unexpired(holds) # {}
             x == [h EXCEPT !.pc = "Confirmed", !.ok = b]
  <2>1. req' = [req EXCEPT ![r] = x] /\ holds' = {} /\ now' = now /\ page' = page
        /\ h.pc = "Confirm"
    BY <1>10 DEF Confirm, Serve, At
  <2>2. x.pc = "Confirmed" /\ x.ok = b
    <3> HIDE DEF b
    <3> QED
      BY <1>1 DEF Handler, Locals
  <2>3. CASE b
    <3>1. Owed(x)
      BY <2>2, <2>3 DEF Owed
    <3> HIDE DEF x
    <3> QED
      BY <1>4, <2>1, <3>1
  <2>4. CASE ~b
    <3>1. Strictly(holds)' = Strictly(holds)
      <4>1. Strictly(holds) = {}
        BY <1>2, <2>4 DEF Strictly
      <4> QED
        BY <2>1, <4>1 DEF Strictly
    <3>2. ~Owed(h) /\ ~Replaces(h) /\ ~Replaces(x)
      BY <2>1, <2>2 DEF Owed, Replaces
    <3> HIDE DEF x
    <3> QED
      BY <1>5, <2>1, <3>1, <3>2
  <2> QED
    BY <2>3, <2>4
<1>11. CASE CancelAll(r)
  <2> DEFINE x == [h EXCEPT !.pc = "Cancelled"]
  <2>1. req' = [req EXCEPT ![r] = x] /\ holds' = {} /\ now' = now
    BY <1>11 DEF CancelAll, Serve
  <2>2. x.pc = "Cancelled"
    BY <1>1 DEF Handler, Locals
  <2> HIDE DEF x
  <2>3. req'[r] = x /\ \A q \in Slots \ {r} : ~Replaces(req[q])'
    BY <1>1, <2>1, <2>2 DEF Single, Replaces
  <2>4. Fresh'
    BY <2>1, <2>2, <2>3 DEF Fresh, At, Replaces, Strictly
  <2> QED
    BY <2>4
<1> QED
  BY <1>6, <1>7, <1>8, <1>9, <1>10, <1>11

LEMMA AnswerSynced ==
  ASSUME TypeOK, Synced, Step, Faithful', NEW r \in Slots, Single,
         Deleted(r) \/ Reserved(r) \/ ReserveRefused(r) \/ Listed(r) \/ Mapped(r)
         \/ Confirmed(r) \/ Cancelled(r),
         ~page.left, ~page'.left
  PROVE  Owing' \/ Fresh'
<1> DEFINE h == req[r]
<1>1. req \in [Slots -> Handler] /\ h \in Handler /\ page \in Page
  BY DEF TypeOK
<1>2. /\ h.todo = <<>> => Continue(h) = Idle
      /\ h.todo = <<"Map">> => Continue(h).pc = "Map"
      /\ h.todo \in {<<"List">>, <<"List", "Map">>} => Continue(h).pc = "List"
      /\ h.todo = <<"Reserve", "List">> => Continue(h).pc = "Reserve" /\ Continue(h).todo = <<"List">>
  BY <1>1, Continues
<1>3. Owing \/ Fresh
  BY StillFaithful DEF Synced, Step, DisciplineNext
<1>4. ASSUME NEW x, req' = [req EXCEPT ![r] = x], Owed(x) PROVE Owing'
  BY <1>1, <1>4 DEF Owing
<1>5. ASSUME NEW x, req' = [req EXCEPT ![r] = x], ~Owed(h), ~Replaces(h), ~Replaces(x),
             page'.list = page.list, page'.selected = page.selected, page'.kids = page.kids,
             UNCHANGED <<holds, now>>
      PROVE  Owing' \/ Fresh'
  <2>1. CASE Owing
    BY <1>1, <1>5, <2>1 DEF Owing
  <2>2. CASE Fresh
    <3>1. Strictly(holds)' = Strictly(holds)
      BY <1>5 DEF Strictly
    <3> QED
      BY <1>1, <1>5, <2>2, <3>1, FreshFrame
  <2> QED
    BY <1>3, <2>1, <2>2
<1>6. CASE Deleted(r)
  <2>1. h.pc = "Deleted" /\ req' = [req EXCEPT ![r] = Continue(h)]
    BY <1>6 DEF Deleted, Show, At
  <2>2. h.todo \in {<<"List", "Map">>, <<"Reserve", "List">>}
    BY <1>1, <2>1 DEF Handler, Shaped
  <2>3. Owed(Continue(h))
    BY <1>2, <2>2 DEF Owed
  <2> QED
    BY <1>4, <2>1, <2>3
<1>7. CASE Reserved(r)
  <2>1. h.pc = "Reserved" /\ req' = [req EXCEPT ![r] = Continue(h)]
    BY <1>7 DEF Reserved, Show, At
  <2>2. h.todo \in {<<"List", "Map">>, <<"List">>}
    BY <1>1, <2>1 DEF Handler, Shaped
  <2>3. Owed(Continue(h))
    BY <1>2, <2>2 DEF Owed
  <2> QED
    BY <1>4, <2>1, <2>3
<1>8. CASE ReserveRefused(r)
  <2>1. h.pc = "Reserved" /\ ~h.ok /\ req' = [req EXCEPT ![r] = Idle] /\ page' = page
        /\ UNCHANGED <<holds, now>>
    BY <1>8 DEF ReserveRefused, At, server
  <2>2. h.todo # <<"List">>
    BY <1>8, StillFaithful DEF Reheld, Step, DisciplineNext
  <2>3. ~Owed(h) /\ ~Replaces(h) /\ ~Replaces(Idle)
    BY <2>1, <2>2 DEF Owed, Replaces, Idle
  <2> QED
    BY <1>5, <2>1, <2>3
<1>9. ASSUME h.pc \in {"Listed", "Cancelled"}, req' = [req EXCEPT ![r] = Continue(h)],
             UNCHANGED <<holds, now>>
      PROVE  \A q \in Slots : ~Replaces(req[q])'
  <2>1. h.todo \in {<<>>, <<"Map">>}
    BY <1>1, <1>9 DEF Handler, Shaped
  <2>2. ~Replaces(Continue(h))
    BY <1>2, <2>1 DEF Replaces, Idle
  <2>3. \A q \in Slots \ {r} : ~Replaces(req[q])
    BY <1>9 DEF Single, Replaces
  <2> QED
    BY <1>1, <1>9, <2>2, <2>3 DEF Replaces
<1>10. CASE Listed(r)
  <2> DEFINE l == h.list
             t == IF l = {} THEN page.timeLeft ELSE Max({0, Min({g.expires : g \in l}) - Clock})
             shown == [page EXCEPT !.list = l, !.selected = Seats_(l), !.kids = Children(l),
                                   !.due = @ /\ l # {}, !.timeLeft = t]
  <2>1. h.pc = "Listed" /\ req' = [req EXCEPT ![r] = Continue(h)] /\ UNCHANGED <<holds, now>>
        /\ page' = Loading(h, shown)
    BY <1>10 DEF Listed, Show, At, server
  <2>2. page'.list = l /\ page'.selected = Seats_(l) /\ page'.kids = Children(l)
    <3> HIDE DEF t, l
    <3> QED
      BY <1>1, <2>1 DEF Loading, Page
  <2> HIDE DEF t, shown
  <2>3. \A q \in Slots : ~Replaces(req[q])'
    BY <1>9, <2>1
  <2>4. CASE Owing
    <3>1. PICK q \in Slots : Owed(req[q])
      BY <2>4 DEF Owing
    <3>2. q # r
      BY <2>1, <3>1 DEF Owed
    <3> QED
      BY <1>1, <2>1, <3>1, <3>2 DEF Owing
  <2>5. CASE Fresh
    <3>1. Strictly(l) = Strictly(holds)
      BY <2>1, <2>5 DEF Fresh, At
    <3>2. Strictly(page.list)' = Strictly(holds)'
      BY <2>1, <2>2, <3>1 DEF Strictly
    <3>3. page'.selected = Seats_(page.list)' /\ page'.kids = Children(page.list)'
      BY <2>2 DEF Seats_, Children
    <3> QED
      BY <2>3, <3>2, <3>3 DEF Fresh, At, Replaces
  <2> QED
    BY <1>3, <2>4, <2>5
<1>11. CASE Mapped(r)
  <2> DEFINE shown == [page EXCEPT !.map = req[r].map, !.loading = FALSE]
  <2>1. h.pc = "Mapped" /\ req' = [req EXCEPT ![r] = Continue(h)] /\ UNCHANGED <<holds, now>>
        /\ page' = Loading(h, shown)
    BY <1>11 DEF Mapped, Show, At, server
  <2>2. page'.list = page.list /\ page'.selected = page.selected /\ page'.kids = page.kids
    BY <1>1, <2>1 DEF Loading, Page
  <2>3. h.todo = <<>>
    BY <1>1, <2>1 DEF Handler, Shaped
  <2>4. ~Owed(h) /\ ~Replaces(h) /\ ~Replaces(Continue(h))
    BY <2>1, <2>3, <1>2 DEF Owed, Replaces, Idle
  <2> QED
    BY <1>5, <2>1, <2>2, <2>4
<1>12. CASE Confirmed(r)
  <2> DEFINE shown == [page EXCEPT !.left = @ \/ req[r].ok]
  <2>1. h.pc = "Confirmed" /\ req' = [req EXCEPT ![r] = Continue(h)] /\ UNCHANGED <<holds, now>>
        /\ page' = Loading(h, shown)
    BY <1>12 DEF Confirmed, Show, At, server
  <2>2. page'.list = page.list /\ page'.selected = page.selected /\ page'.kids = page.kids
        /\ (h.ok => page'.left)
    BY <1>1, <2>1 DEF Loading, Page
  <2>3. h.todo = <<>>
    BY <1>1, <2>1 DEF Handler, Shaped
  <2>4. ~Owed(h) /\ ~Replaces(h) /\ ~Replaces(Continue(h))
    BY <2>1, <2>2, <2>3, <1>2 DEF Owed, Replaces, Idle
  <2> QED
    BY <1>5, <2>1, <2>2, <2>4
<1>13. CASE Cancelled(r)
  <2> DEFINE shown == [page EXCEPT !.list = {}, !.selected = {}, !.kids = {}, !.due = FALSE]
  <2>1. h.pc = "Cancelled" /\ req' = [req EXCEPT ![r] = Continue(h)] /\ UNCHANGED <<holds, now>>
        /\ page' = Loading(h, shown)
    BY <1>13 DEF Cancelled, Show, At, server
  <2>2. page'.list = {} /\ page'.selected = {} /\ page'.kids = {}
    BY <1>1, <2>1 DEF Loading, Page
  <2>3. \A q \in Slots : ~Replaces(req[q])'
    BY <1>9, <2>1
  <2>4. CASE Owing
    <3>1. PICK q \in Slots : Owed(req[q])
      BY <2>4 DEF Owing
    <3>2. q # r
      BY <2>1, <3>1 DEF Owed
    <3> QED
      BY <1>1, <2>1, <3>1, <3>2 DEF Owing
  <2>5. CASE Fresh
    <3>1. Strictly(holds) = {}
      BY <2>1, <2>5 DEF Fresh, At
    <3>2. Strictly(page.list)' = Strictly(holds)'
      BY <2>1, <2>2, <3>1 DEF Strictly
    <3>3. page'.selected = Seats_(page.list)' /\ page'.kids = Children(page.list)'
      BY <2>2 DEF Seats_, Children
    <3> QED
      BY <2>3, <3>2, <3>3 DEF Fresh, At, Replaces
  <2> QED
    BY <1>3, <2>4, <2>5
<1> QED
  BY <1>6, <1>7, <1>8, <1>10, <1>11, <1>12, <1>13

LEMMA ClickEffect ==
  ASSUME NEW r,
         ToggleOff(r) \/ ToggleOn(r) \/ ToggleChild(r) \/ ConfirmClick(r) \/ CancelAllClick(r)
  PROVE  /\ \E x : /\ req' = [req EXCEPT ![r] = x]
                   /\ x.pc \in {"Delete", "Reserve", "Confirm", "CancelAll"}
                   /\ x.pc = "Reserve" => x.todo = <<"List", "Map">>
                   /\ x.pc = "Confirm" => x.list = page.list
         /\ req[r] = Idle /\ Shown
         /\ UNCHANGED <<server, page>>
<1>0. ASSUME NEW x, Click(r, x),
             x.pc \in {"Delete", "Reserve", "Confirm", "CancelAll"},
             x.pc = "Reserve" => x.todo = <<"List", "Map">>,
             x.pc = "Confirm" => x.list = page.list
      PROVE  /\ \E y : /\ req' = [req EXCEPT ![r] = y]
                       /\ y.pc \in {"Delete", "Reserve", "Confirm", "CancelAll"}
                       /\ y.pc = "Reserve" => y.todo = <<"List", "Map">>
                       /\ y.pc = "Confirm" => y.list = page.list
             /\ req[r] = Idle /\ Shown
             /\ UNCHANGED <<server, page>>
  BY <1>0 DEF Click
<1>1. CASE ToggleOff(r)
  <2>1. PICK h \in Chosen :
          Click(r, [Idle EXCEPT !.pc = "Delete", !.todo = <<"List", "Map">>, !.seat = h.seat,
                                !.id = h.id])
    BY <1>1 DEF ToggleOff
  <2> DEFINE x == [Idle EXCEPT !.pc = "Delete", !.todo = <<"List", "Map">>, !.seat = h.seat,
                               !.id = h.id]
  <2>2. x.pc = "Delete"
    BY DEF Idle
  <2> HIDE DEF x
  <2>3. Click(r, x)
    BY <2>1 DEF x
  <2> QED
    BY <1>0, <2>2, <2>3
<1>2. CASE ToggleOn(r)
  <2>1. PICK s \in Seats :
          Click(r, [Idle EXCEPT !.pc = "Reserve", !.todo = <<"List", "Map">>, !.seat = s])
    BY <1>2 DEF ToggleOn, Clickable
  <2> DEFINE x == [Idle EXCEPT !.pc = "Reserve", !.todo = <<"List", "Map">>, !.seat = s]
  <2>2. x.pc = "Reserve" /\ x.todo = <<"List", "Map">>
    BY DEF Idle
  <2> HIDE DEF x
  <2>3. Click(r, x)
    BY <2>1 DEF x
  <2> QED
    BY <1>0, <2>2, <2>3
<1>3. CASE ToggleChild(r)
  <2>1. PICK h \in Chosen :
          Click(r, [Idle EXCEPT !.pc = "Delete", !.todo = <<"Reserve", "List">>, !.seat = h.seat,
                                !.id = h.id, !.child = h.seat \notin page.kids])
    BY <1>3 DEF ToggleChild
  <2> DEFINE b == h.seat \notin page.kids
             x == [Idle EXCEPT !.pc = "Delete", !.todo = <<"Reserve", "List">>, !.seat = h.seat,
                               !.id = h.id, !.child = b]
  <2>2. x.pc = "Delete"
    <3> HIDE DEF b
    <3> QED
      BY DEF Idle
  <2>3. Click(r, x)
    BY <2>1
  <2> HIDE DEF x
  <2> QED
    BY <1>0, <2>2, <2>3
<1>4. CASE ConfirmClick(r)
  <2> DEFINE x == [Idle EXCEPT !.pc = "Confirm", !.list = page.list]
  <2>2. x.pc = "Confirm" /\ x.list = page.list
    BY DEF Idle
  <2>3. Click(r, x)
    BY <1>4 DEF ConfirmClick
  <2> HIDE DEF x
  <2> QED
    BY <1>0, <2>2, <2>3
<1>5. CASE CancelAllClick(r)
  <2> DEFINE x == [Idle EXCEPT !.pc = "CancelAll", !.todo = <<"Map">>]
  <2>2. x.pc = "CancelAll"
    BY DEF Idle
  <2>3. Click(r, x)
    BY <1>5 DEF CancelAllClick
  <2> HIDE DEF x
  <2> QED
    BY <1>0, <2>2, <2>3
<1> QED
  BY <1>1, <1>2, <1>3, <1>4, <1>5

LEMMA ClickSynced ==
  ASSUME TypeOK, Synced, Step, Faithful', NEW r \in Clicks, ~page.left,
         ToggleOff(r) \/ ToggleOn(r) \/ ToggleChild(r) \/ ConfirmClick(r) \/ CancelAllClick(r)
  PROVE  Owing' \/ Fresh'
<1>1. r \in Slots /\ req \in [Slots -> Handler]
  BY DEF Slots, TypeOK
<1>2. PICK x : /\ req' = [req EXCEPT ![r] = x]
               /\ x.pc \in {"Delete", "Reserve", "Confirm", "CancelAll"}
  BY ClickEffect
<1>3. req[r] = Idle /\ UNCHANGED <<server, page>>
  BY ClickEffect
<1>4. ~Owed(req[r]) /\ ~Replaces(req[r]) /\ ~Replaces(x)
  BY <1>2, <1>3 DEF Owed, Replaces, Idle
<1>5. CASE Owing
  BY <1>1, <1>2, <1>4, <1>5 DEF Owing
<1>6. CASE Fresh
  <2>1. now' = now /\ Strictly(holds)' = Strictly(holds)
    BY <1>3 DEF server, Strictly
  <2> QED
    BY <1>1, <1>2, <1>3, <1>4, <1>6, <2>1, FreshFrame
<1> QED
  BY <1>5, <1>6, StillFaithful DEF Synced, Step, DisciplineNext

LEMMA TickSynced ==
  ASSUME TypeOK, Synced, Step, Faithful', ~page.left, Tick
  PROVE  Owing' \/ Fresh'
<1>1. page \in Page /\ now \in Nat /\ now' = now + 1 /\ holds' = holds /\ holds \subseteq Row
      /\ req' = req /\ req \in [Slots -> Handler]
  BY DEF TypeOK, Tick
<1>2. page'.list = page.list /\ page'.selected = page.selected /\ page'.kids = page.kids
  BY <1>1 DEF Tick, Page
<1>3. CASE Owing
  BY <1>1, <1>3 DEF Owing
<1>4. CASE Fresh
  <2>1. ASSUME NEW l \in SUBSET Row, NEW m \in SUBSET Row, Strictly(l) = Strictly(m)
        PROVE  {h \in l : h.expires > now'} = {h \in m : h.expires > now'}
    BY <1>1, <2>1 DEF Strictly, Row
  <2>2. ASSUME NEW q \in Slots, At(q, "Listed")' PROVE (Strictly(req[q].list) = Strictly(holds))'
    <3>1. At(q, "Listed") /\ req[q].list \in SUBSET Row
      BY <1>1, <2>2 DEF At, Handler, Locals
    <3> QED
      BY <1>1, <1>4, <2>1, <3>1 DEF Fresh, Strictly
  <2>3. ASSUME NEW q \in Slots, At(q, "Cancelled")' PROVE (Strictly(holds) = {})'
    <3>1. At(q, "Cancelled")
      BY <1>1, <2>3 DEF At
    <3>2. Strictly(holds) = Strictly({})
      BY <1>4, <3>1 DEF Fresh, Strictly
    <3> QED
      BY <1>1, <2>1, <3>2 DEF Strictly
  <2>4. ASSUME \A q \in Slots : ~Replaces(req'[q])
        PROVE  /\ Strictly(page.list)' = Strictly(holds)'
               /\ page'.selected = Seats_(page'.list) /\ page'.kids = Children(page'.list)
    <3>1. Strictly(page.list) = Strictly(holds) /\ page.list \in SUBSET Row
          /\ page.selected = Seats_(page.list) /\ page.kids = Children(page.list)
      BY <1>1, <1>4, <2>4 DEF Fresh, Page
    <3> QED
      BY <1>1, <1>2, <2>1, <3>1 DEF Strictly
  <2> QED
    BY <2>2, <2>3, <2>4 DEF Fresh, Seats_, Children, At
<1> QED
  BY <1>3, <1>4, StillFaithful DEF Synced, Step, DisciplineNext

\* The end of the countdown empties the page: all holds have expired by then.
LEMMA CountSynced ==
  ASSUME TypeOK, Synced, Step, Faithful', ~page.left, Count
  PROVE  Owing' \/ Fresh'
<1>1. Timer \in Slots /\ req \in [Slots -> Handler] /\ page \in Page
      /\ UNCHANGED <<holds, now>> /\ page' = Counted(page) /\ holds \subseteq Row /\ now \in Nat
  BY DEF Slots, TypeOK, Count, server
<1>2. \A q \in Slots : req'[q] = req[q] \/ (q = Timer /\ req[q] = Idle /\ req'[q].pc = "Map")
  BY <1>1 DEF Count, Idle
<1>3. CASE Owing
  <2>1. PICK q \in Slots : Owed(req[q])
    BY <1>3 DEF Owing
  <2>2. req[q] # Idle
    BY <2>1 DEF Owed, Idle
  <2> QED
    BY <1>2, <2>1, <2>2 DEF Owing
<1>4. CASE Fresh
  <2>1. ASSUME NEW q \in Slots, At(q, "Listed")' PROVE (Strictly(req[q].list) = Strictly(holds))'
    <3>1. req'[q] = req[q] /\ At(q, "Listed")
      BY <1>2, <2>1 DEF At
    <3> QED
      BY <1>1, <1>4, <3>1 DEF Fresh, Strictly
  <2>2. ASSUME NEW q \in Slots, At(q, "Cancelled")' PROVE (Strictly(holds) = {})'
    <3>1. At(q, "Cancelled")
      BY <1>2, <2>2 DEF At
    <3> QED
      BY <1>1, <1>4, <3>1 DEF Fresh, Strictly
  <2>3. ASSUME \A q \in Slots : ~Replaces(req'[q])
        PROVE  /\ Strictly(page.list)' = Strictly(holds)'
               /\ page'.selected = Seats_(page'.list) /\ page'.kids = Children(page'.list)
    <3>1. \A q \in Slots : ~Replaces(req[q])
      BY <1>2, <2>3 DEF Replaces, Idle
    <3>2. Strictly(page.list) = Strictly(holds)
          /\ page.selected = Seats_(page.list) /\ page.kids = Children(page.list)
      BY <1>4, <3>1 DEF Fresh
    <3>3. CASE RunsOut
      <4>1. page'.list = {} /\ page'.selected = {} /\ page'.kids = {}
        BY <1>1, <3>3 DEF RunsOut, Counted, Page
      <4>2. \A h \in holds : h.expires <= now
        BY <3>3, StillFaithful DEF OneExpiry, Step, DisciplineNext
      <4>3. Strictly(holds) = {}
        BY <1>1, <4>2 DEF Row, Strictly
      <4> QED
        BY <1>1, <4>1, <4>3 DEF Strictly, Seats_, Children
    <3>4. CASE ~RunsOut
      <4>1. page'.list = page.list /\ page'.selected = page.selected /\ page'.kids = page.kids
        BY <1>1, <3>4 DEF RunsOut, Counted, Page
      <4> QED
        BY <1>1, <3>2, <4>1 DEF Strictly
    <3> QED
      BY <3>3, <3>4
  <2> QED
    BY <2>1, <2>2, <2>3 DEF Fresh, Seats_, Children, At
<1> QED
  BY <1>3, <1>4, StillFaithful DEF Synced, Step, DisciplineNext

\* A page that was left stays so.
LEMMA LeftStays ==
  ASSUME TypeOK, Next, ~page'.left
  PROVE  ~page.left
<1> SUFFICES ASSUME page.left PROVE page'.left
  OBVIOUS
<1>1. page \in Page
  BY DEF TypeOK
<1>2. CASE page' = page
  BY <1>2
<1>3. CASE Tick \/ Count
  BY <1>1, <1>3 DEF Tick, Count, Page
<1>4. ASSUME NEW r \in Slots, Lost(r) PROVE page'.left
  BY <1>1, <1>4 DEF Lost, Loading, Page
<1>6. ASSUME NEW r \in Slots, Deleted(r) PROVE page'.left
  BY <1>1, <1>6 DEF Deleted, Show, Loading, Page
<1>7. ASSUME NEW r \in Slots, Reserved(r) PROVE page'.left
  BY <1>1, <1>7 DEF Reserved, Show, Loading, Page
<1>8. ASSUME NEW r \in Slots, Listed(r) PROVE page'.left
  <2> DEFINE l == req[r].list
             t == IF l = {} THEN page.timeLeft ELSE Max({0, Min({g.expires : g \in l}) - Clock})
             shown == [page EXCEPT !.list = l, !.selected = Seats_(l), !.kids = Children(l),
                                   !.due = @ /\ l # {}, !.timeLeft = t]
  <2>1. page' = Loading(req[r], shown)
    BY <1>8 DEF Listed, Show
  <2> HIDE DEF t
  <2> QED
    BY <1>1, <2>1 DEF Loading, Page
<1>9. ASSUME NEW r \in Slots, Mapped(r) PROVE page'.left
  BY <1>1, <1>9 DEF Mapped, Show, Loading, Page
<1>10. ASSUME NEW r \in Slots, Confirmed(r) PROVE page'.left
  BY <1>1, <1>10 DEF Confirmed, Show, Loading, Page
<1>11. ASSUME NEW r \in Slots, Cancelled(r) PROVE page'.left
  BY <1>1, <1>11 DEF Cancelled, Show, Loading, Page
<1>12. ASSUME NEW r \in Slots, Answer(r) PROVE page'.left
  BY <1>2, <1>6, <1>7, <1>8, <1>9, <1>10, <1>11, <1>12
  DEF Answer, Delete, Reserve, List, Map, Confirm, CancelAll, Serve, ReserveRefused
<1>13. ASSUME NEW r \in Clicks,
              ToggleOff(r) \/ ToggleOn(r) \/ ToggleChild(r) \/ ConfirmClick(r) \/ CancelAllClick(r)
       PROVE  page' = page
  BY <1>13, ClickEffect
<1> QED
  BY <1>2, <1>3, <1>4, <1>12, <1>13 DEF Next, Other

\* What is shown agrees with the server after a step.
LEMMA SyncedStep ==
  ASSUME TypeOK, Ordered, Ordered', Synced, Step
  PROVE  Synced'
<1> SUFFICES ASSUME Faithful', ~page'.left PROVE Owing' \/ Fresh'
  BY DEF Synced
<1>1. Faithful /\ Single /\ Single' /\ Delivered
  BY StillFaithful DEF Ordered, Step, DisciplineNext
<1>2. ~page.left
  BY LeftStays DEF Step, DisciplineNext
<1>3. ASSUME NEW r \in Slots, Answer(r) PROVE Owing' \/ Fresh'
  BY <1>1, <1>2, <1>3, ServerSynced, AnswerSynced DEF Answer
<1>4. ASSUME NEW r \in Slots, Lost(r) PROVE Owing' \/ Fresh'
  BY <1>1, <1>3, <1>4 DEF Delivered
<1>5. CASE Other
  <2>1. UNCHANGED <<holds, now, page, req>>
    BY <1>5 DEF Other
  <2> QED
    BY <1>1, <1>2, <2>1 DEF Synced, Owing, Fresh, At, Strictly, Seats_, Children
<1> QED
  BY <1>2, <1>3, <1>4, <1>5, ClickSynced, TickSynced, CountSynced DEF Step, DisciplineNext, Next

LEMMA BookingInit == DisciplineInit => TypeOK /\ Ordered /\ Synced /\ Asked
<1> SUFFICES ASSUME DisciplineInit PROVE Ordered /\ Synced /\ Asked
  BY TypeInit DEF DisciplineInit
<1> DEFINE c == CHOOSE r \in Clicks : TRUE
<1>1. c \in Clicks
  BY PageAssumption
<1> HIDE DEF c
<1>2. c # Timer /\ c \in Slots
  BY <1>1, PageAssumption DEF Slots
<1>3. req = [r \in Slots |-> CASE r = Timer -> [Idle EXCEPT !.pc = "Map"]
                               [] r = c -> [Idle EXCEPT !.pc = "List"]
                               [] OTHER -> Idle]
  BY DEF DisciplineInit, Init, c
<1>4. req[c].pc = "List" /\ \A r \in Slots : req[r].pc \in {"Map", "List", "idle"}
  BY <1>2, <1>3 DEF Idle
<1> QED
  BY <1>2, <1>4 DEF Ordered, Single, Replaces, Synced, Owing, Owed, Asked, At

\* An answer leaves no slot at the confirmation.
LEMMA NotAsked ==
  ASSUME TypeOK, NEW r \in Slots, Answer(r) \/ Lost(r)
  PROVE  req[r] # Idle /\ ~At(r, "Confirm")'
<1> DEFINE h == req[r]
<1>1. req \in [Slots -> Handler] /\ h \in Handler
  BY DEF TypeOK
<1>2. Continue(h).pc \in {"idle", "Map", "List", "Reserve"}
  BY <1>1, Continues DEF Handler, Locals, Todos, Idle
<1>3. CASE Lost(r)
  BY <1>1, <1>2, <1>3 DEF Lost, Idle, At
<1>4. ASSUME NEW stage, NEW x, Serve(r, stage, x), stage # "idle", x.pc # "Confirm"
      PROVE  req[r] # Idle /\ ~At(r, "Confirm")'
  BY <1>1, <1>4 DEF Serve, At, Idle
<1>5. CASE Delete(r) \/ Reserve(r) \/ List(r) \/ Map(r) \/ Confirm(r) \/ CancelAll(r)
  <2>1. CASE Delete(r)
    BY <1>1, <2>1 DEF Delete, Serve, At, Idle, Handler, Locals
  <2>2. CASE Reserve(r)
    <3> DEFINE ok == others[h.seat] = "free" /\ h.seat \notin mine
                     /\ Cardinality(Unexpired(holds)) + Cardinality(mine) < Limit
    <3>1. Serve(r, "Reserve", [h EXCEPT !.pc = "Reserved", !.ok = ok])
      BY <2>2 DEF Reserve
    <3> HIDE DEF ok
    <3>2. [h EXCEPT !.pc = "Reserved", !.ok = ok].pc = "Reserved"
      BY <1>1 DEF Handler, Locals
    <3> QED
      BY <1>4, <3>1, <3>2
  <2>3. CASE List(r)
    BY <1>1, <2>3 DEF List, Serve, At, Idle, Handler, Locals
  <2>4. CASE Map(r)
    BY <1>1, <2>4 DEF Map, Serve, At, Idle, Handler, Locals
  <2>5. CASE Confirm(r)
    <3> DEFINE b == Unexpired(holds) # {}
    <3>1. Serve(r, "Confirm", [h EXCEPT !.pc = "Confirmed", !.ok = b])
      BY <2>5 DEF Confirm
    <3> HIDE DEF b
    <3>2. [h EXCEPT !.pc = "Confirmed", !.ok = b].pc = "Confirmed"
      BY <1>1 DEF Handler, Locals
    <3> QED
      BY <1>4, <3>1, <3>2
  <2>6. CASE CancelAll(r)
    BY <1>1, <2>6 DEF CancelAll, Serve, At, Idle, Handler, Locals
  <2> QED
    BY <1>5, <2>1, <2>2, <2>3, <2>4, <2>5, <2>6
<1>6. ASSUME NEW stage, NEW shown, Show(r, stage, shown), stage # "idle"
      PROVE  req[r] # Idle /\ ~At(r, "Confirm")'
  BY <1>1, <1>2, <1>6 DEF Show, At, Idle
<1>7. CASE Deleted(r) \/ Reserved(r) \/ Listed(r) \/ Mapped(r) \/ Confirmed(r) \/ Cancelled(r)
  BY <1>6, <1>7 DEF Deleted, Reserved, Listed, Mapped, Confirmed, Cancelled
<1>8. CASE ReserveRefused(r)
  BY <1>1, <1>8 DEF ReserveRefused, At, Idle
<1> QED
  BY <1>3, <1>5, <1>7, <1>8 DEF Answer

LEMMA AskedStep ==
  ASSUME TypeOK, Synced, Asked, Step
  PROVE  Asked'
<1> SUFFICES ASSUME Faithful', Kept({"alone"})', NEW r \in Slots, At(r, "Confirm")'
             PROVE  /\ \A q \in Slots \ {r} : req'[q] = Idle
                    /\ Strictly(holds)' \subseteq req'[r].list
  BY DEF Asked
<1>1. Faithful /\ Kept({"alone"}) /\ Alone'
  BY StillFaithful, StillAlone DEF Step, DisciplineNext
<1>2. req \in [Slots -> Handler] /\ holds \subseteq Row /\ now \in Nat
  BY DEF TypeOK
<1>3. \A q \in Slots \ {r} : req'[q] = Idle
  BY <1>1 DEF Alone
<1>4. ASSUME req'[r] = req[r] PROVE Strictly(holds) \subseteq req'[r].list
                                    /\ \A q \in Slots \ {r} : req[q] = Idle
  BY <1>1, <1>4 DEF Asked, At
<1>5. ASSUME NEW q \in Slots, Answer(q) \/ Lost(q) PROVE FALSE
  <2>1. q # r /\ req[q] # Idle
    BY <1>5, NotAsked
  <2>2. req'[r] = req[r]
    <3>1. PICK p \in Slots : \E x : req' = [req EXCEPT ![p] = x]
      BY OneSlot DEF Step, DisciplineNext
    <3>2. req'[q] = Idle
      BY <1>3, <2>1
    <3> QED
      BY <1>2, <2>1, <3>1, <3>2
  <2> QED
    BY <1>4, <2>1, <2>2
<1>6. CASE Tick \/ Count
  <2>1. req'[r] = req[r]
    BY <1>2, <1>6 DEF Tick, Count, At, Idle
  <2>2. Strictly(holds)' \subseteq Strictly(holds)
    BY <1>2, <1>6 DEF Tick, Count, server, Strictly, Row
  <2> QED
    BY <1>3, <1>4, <2>1, <2>2
<1>7. CASE Other
  <2>1. req'[r] = req[r] /\ Strictly(holds)' = Strictly(holds)
    BY <1>7 DEF Other, Strictly
  <2> QED
    BY <1>3, <1>4, <2>1
<1>8. ASSUME NEW q \in Clicks,
             ToggleOff(q) \/ ToggleOn(q) \/ ToggleChild(q) \/ ConfirmClick(q) \/ CancelAllClick(q)
      PROVE  Strictly(holds)' \subseteq req'[r].list
  <2>0. q \in Slots
    BY DEF Slots
  <2>1. PICK x : /\ req' = [req EXCEPT ![q] = x]
                 /\ x.pc \in {"Delete", "Reserve", "Confirm", "CancelAll"}
                 /\ x.pc = "Confirm" => x.list = page.list
    BY <1>8, ClickEffect
  <2>2. req[q] = Idle /\ Shown /\ UNCHANGED <<server, page>>
    BY <1>8, ClickEffect
  <2>3. q = r
    BY <1>2, <1>3, <2>0, <2>1 DEF Idle
  <2>4. req'[r].list = page.list
    BY <1>2, <2>1, <2>3 DEF At
  <2>5. \A p \in Slots : req[p] = Idle
    BY <1>2, <1>3, <2>0, <2>1, <2>2, <2>3
  <2>6. ~Owing /\ \A p \in Slots : ~Replaces(req[p])
    BY <2>5 DEF Owing, Owed, Replaces, Idle
  <2>7. Strictly(page.list) = Strictly(holds)
    BY <1>1, <2>2, <2>6 DEF Synced, Fresh, Shown
  <2>8. Strictly(holds)' = Strictly(holds)
    BY <2>2 DEF server, Strictly
  <2> QED
    BY <2>4, <2>7, <2>8 DEF Strictly
<1> QED
  BY <1>3, <1>5, <1>6, <1>7, <1>8 DEF Step, DisciplineNext, Next

Invariant == TypeOK /\ Ordered /\ Synced /\ Asked

LEMMA InvariantStep ==
  ASSUME Invariant, [DisciplineNext]_<<vars, history>>
  PROVE  Invariant'
<1>1. CASE Step
  <2>1. TypeOK'
    BY <1>1, TypeStep DEF Invariant, Step, DisciplineNext
  <2>2. Ordered' /\ Asked'
    BY <1>1, OrderedStep, AskedStep DEF Invariant
  <2> QED
    BY <1>1, <2>1, <2>2, SyncedStep DEF Invariant
<1>2. CASE UNCHANGED <<vars, history>>
  <2>1. TypeOK'
    BY <1>2, TypeStep DEF Invariant
  <2>2. UNCHANGED <<holds, now, page, req, broken>>
    BY <1>2 DEF vars, server, history
  <2>3. Ordered'
    BY <2>2 DEF Invariant, Ordered, Faithful, Kept, Single, Replaces
  <2>4. Synced'
    BY <2>2 DEF Invariant, Synced, Faithful, Kept, Owing, Owed, Fresh, Replaces, At, Strictly,
       Seats_, Children
  <2>5. Asked'
    BY <2>2 DEF Invariant, Asked, Faithful, Kept, At, Strictly
  <2> QED
    BY <2>1, <2>3, <2>4, <2>5 DEF Invariant
<1> QED
  BY <1>1, <1>2 DEF Step, DisciplineNext

\* Once all requests are answered the page shows the seats the user holds and the
\* kind of their tickets, for any number of seats and overlapping clicks, while
\* answers arrive in order, no toggled seat is snatched and the holds expire together.
THEOREM PageShowsWhatIsHeld == DisciplineSpec => []ShownIsHeld
<1>1. DisciplineInit => Invariant
  BY BookingInit DEF Invariant
<1>2. Invariant /\ [DisciplineNext]_<<vars, history>> => Invariant'
  BY InvariantStep
<1>3. Invariant => ShownIsHeld
  <2> SUFFICES ASSUME Invariant, Faithful, ~page.left, \A r \in Slots : req[r] = Idle
               PROVE  /\ Strictly(page.list) = Strictly(holds)
                      /\ page.selected = Seats_(page.list) /\ page.kids = Children(page.list)
    BY DEF ShownIsHeld
  <2>1. ~Owing /\ \A r \in Slots : ~Replaces(req[r])
    BY DEF Owing, Owed, Replaces, Idle
  <2> QED
    BY <2>1 DEF Invariant, Synced, Fresh
<1> QED
  BY <1>1, <1>2, <1>3, PTL DEF DisciplineSpec

\* What a confirmation sells is what the page showed when its button was pressed,
\* while nothing else is in flight then.
THEOREM WhatIsSoldWasShown == DisciplineSpec => SoldAsShown
<1>1. DisciplineInit => Invariant
  BY BookingInit DEF Invariant
<1>2. Invariant /\ [DisciplineNext]_<<vars, history>> => Invariant'
  BY InvariantStep
<1>3. Invariant => [Faithful /\ Kept({"alone"}) =>
                      \A r \in Slots : Confirm(r) => Strictly(holds) \subseteq req[r].list]_vars
  BY DEF Invariant, Asked, Confirm, Serve, At
<1> QED
  BY <1>1, <1>2, <1>3, PTL DEF DisciplineSpec, SoldAsShown
=============================================================================
