-------------------------- MODULE DashboardProofs ---------------------------
(***************************************************************************)
(* Theorems about DashboardDisciplines, for any number of rows, values and *)
(* overlapping requests: the lists are the tables once all is answered, a  *)
(* form edits the row that was clicked and closes for its own answer.      *)
(***************************************************************************)
EXTENDS DashboardDisciplines, WellFoundedInduction, TLAPS

-----------------------------------------------------------------------------
(* Types *)

Row == [value : Nat, over : Nat, bus : Nat, free : SUBSET Nat, used : BOOLEAN]
Table == UNION {[ids -> Row] : ids \in SUBSET (Nat \ {0})}

Typed_ == [value : Nat, over : Nat, bus : Nat, seats : Nat]
Form == [id : Nat, fields : Typed_, closing : BOOLEAN]
Object == [kind : Kinds \cup {"none", "staff"}, id : Nat, row : Row, same : BOOLEAN]

Handlers == [pc : {"idle", "AddCheck", "AddSave", "UpdateFind", "UpdateWrite", "UpdateReread",
                   "Delete", "Answer"},
             op : {"none", "add", "update", "staff", "delete"},
             kind : Kinds \cup {"none", "staff"}, id : Nat, fields : Typed_,
             answer : {"none", "data", "nothing", "error"}, here : BOOLEAN]

\* What a request is doing fits what it was sent for.
Handler == {h \in Handlers :
    /\ h.pc = "idle" <=> h.op = "none"
    /\ h.pc = "idle" => h = Idle
    /\ h.pc \in {"AddCheck", "AddSave"} => h.op = "add"
    /\ h.pc \in {"UpdateFind", "UpdateWrite", "UpdateReread"} => h.op = "update"
    /\ h.pc = "Delete" => h.op = "delete"
    /\ h.op \in {"add", "update"} => h.kind \in Forms
    /\ h.op = "delete" => h.kind \in Kinds}

Fetches == {f \in [kinds : SUBSET Kinds, read : BOOLEAN,
                   rows : {<<>>} \cup UNION {[kinds -> Table] : kinds \in SUBSET Kinds}] :
               f.read => f.rows \in [f.kinds -> Table]}

ClientTypes ==
    /\ panel \in Panels /\ dialog \in [open : BOOLEAN, add : BOOLEAN]
    /\ current \in Object /\ selected \in Object
    /\ ask \in Object /\ (ask # NoEntity => ask.kind \in Kinds)
    /\ form \in Form /\ lists \in [Kinds -> Table] /\ fetches \subseteq Fetches

TypeOK ==
    /\ tables \in [Kinds -> Table] /\ last \in [Kinds -> Nat]
    /\ ClientTypes
    /\ req \in [Requests -> Handler]

-----------------------------------------------------------------------------
(* Tables *)

LEMMA TableEntry ==
  ASSUME NEW t \in Table
  PROVE  /\ DOMAIN t \subseteq Nat \ {0} /\ t \in [DOMAIN t -> Row]
         /\ t = [j \in DOMAIN t |-> t[j]]
BY DEF Table

LEMMA TableMade ==
  ASSUME NEW S \in SUBSET (Nat \ {0}), NEW t \in [S -> Row]
  PROVE  t \in Table
BY DEF Table

LEMMA NoTable == <<>> \in Table
<1>1. <<>> \in [{} -> Row]
  OBVIOUS
<1> QED
  BY <1>1 DEF Table

LEMMA TableAdd ==
  ASSUME NEW t \in Table, NEW i \in Nat \ {0}, NEW row \in Row
  PROVE  [j \in DOMAIN t \cup {i} |-> IF j = i THEN row ELSE t[j]] \in Table
BY TableEntry, TableMade

LEMMA TableStore ==
  ASSUME NEW t \in Table, NEW i, NEW row, i \in DOMAIN t => row \in Row
  PROVE  [j \in DOMAIN t |-> IF j = i THEN row ELSE t[j]] \in Table
<1>1. [j \in DOMAIN t |-> IF j = i THEN row ELSE t[j]] \in [DOMAIN t -> Row]
  BY TableEntry
<1> QED
  BY <1>1, TableEntry, TableMade

LEMMA TableRestrict ==
  ASSUME NEW t \in Table, NEW S \in SUBSET DOMAIN t
  PROVE  Restrict(t, S) \in Table
<1>1. Restrict(t, S) \in [S -> Row]
  BY TableEntry DEF Restrict
<1> QED
  BY <1>1, TableEntry, TableMade

LEMMA ListedTyped ==
  ASSUME tables \in [Kinds -> Table], NEW k \in Kinds
  PROVE  Listed(k) \in Table
<1>1. "trips" \in Kinds
  BY DEF Kinds, Forms
<1> QED
  BY <1>1, TableRestrict DEF Listed

-----------------------------------------------------------------------------
(* Forms and objects *)

LEMMA Constants ==
  /\ NoRow \in Row /\ NoEntity \in Object /\ Blank \in Typed_ /\ Empty \in Form
  /\ Idle \in Handler
  /\ \A k \in Kinds \cup {"staff"}, i \in Nat, row \in Row :
        /\ Entity(k, i, row) \in Object /\ Entity(k, i, row) # NoEntity
        /\ Entity(k, i, row).id = i /\ Entity(k, i, row).row = row
<1>1. NoRow \in Row /\ Blank \in Typed_
  BY DEF NoRow, Row, Blank, Typed_
<1>2. NoEntity \in Object /\ Empty \in Form
  BY <1>1 DEF NoEntity, Object, Empty, Form
<1>3. Idle \in Handler
  BY <1>1 DEF Idle, Handler, Handlers
<1>4. ASSUME NEW k \in Kinds \cup {"staff"}, NEW i \in Nat, NEW row \in Row
      PROVE  /\ Entity(k, i, row) \in Object /\ Entity(k, i, row) # NoEntity
             /\ Entity(k, i, row).id = i /\ Entity(k, i, row).row = row
  BY <1>4 DEF Entity, NoEntity, Object, Kinds, Forms
<1> QED
  BY <1>1, <1>2, <1>3, <1>4

LEMMA Least ==
  ASSUME NEW S \in SUBSET Nat
  PROVE  Min0(S) \in Nat
<1>1. CASE S = {}
  BY <1>1 DEF Min0
<1>2. CASE S # {}
  <2> DEFINE R == OpToRel(<, Nat)
  <2>1. \A i, j \in Nat : i < j => <<i, j>> \in R
    BY DEF OpToRel
  <2>2. IsWellFoundedOn(R, Nat)
    BY NatLessThanWellFounded
  <2> HIDE DEF R
  <2>3. \E m \in S : \A y \in S : ~(<<y, m>> \in R)
    BY <1>2, <2>2, WFMin
  <2>4. PICK m \in S : \A y \in S : ~(y < m)
    BY <2>1, <2>3
  <2>5. \A y \in S : m <= y
    BY <2>4
  <2> QED
    BY <1>2, <2>5 DEF Min0
<1> QED
  BY <1>1, <1>2

LEMMA FieldsTyped ==
  ASSUME NEW k, NEW row \in Row
  PROVE  Fields(k, row) \in Typed_
<1>1. RouteFields(row) \in Typed_ /\ ScheduleFields(row) \in Typed_ /\ TripFields(row) \in Typed_
  BY DEF RouteFields, ScheduleFields, TripFields, Blank, Typed_, Row
<1>2. Min0(row.free) \in Nat
  BY Least DEF Row
<1>3. BusFields(row) \in Typed_
  BY <1>2 DEF BusFields, Blank, Typed_, Row
<1> QED
  BY <1>1, <1>3 DEF Fields

LEMMA FilledTyped ==
  ASSUME NEW p, NEW e \in Object, NEW add \in BOOLEAN
  PROVE  /\ Filled(p, e, add) \in Form
         /\ Filled(p, e, add).closing = FALSE
         /\ p \in Forms /\ e # NoEntity /\ ~add =>
               Filled(p, e, add).id = e.id /\ Filled(p, e, add).fields = Fields(p, e.row)
         /\ ~(p \in Forms /\ e # NoEntity /\ ~add) => Filled(p, e, add) = Empty
<1>1. Fields(p, e.row) \in Typed_
  BY FieldsTyped DEF Object
<1>2. CASE p \in Forms /\ e # NoEntity /\ ~add
  <2> DEFINE f == Fields(p, e.row)
  <2>1. Filled(p, e, add) = [Empty EXCEPT !.id = e.id, !.fields = f]
    BY <1>2 DEF Filled
  <2>2. e.id \in Nat /\ f \in Typed_ /\ Empty \in Form /\ Empty.closing = FALSE
    BY <1>1, Constants DEF Object, Empty
  <2> HIDE DEF f
  <2>3. /\ [Empty EXCEPT !.id = e.id, !.fields = f] \in Form
        /\ [Empty EXCEPT !.id = e.id, !.fields = f].id = e.id
        /\ [Empty EXCEPT !.id = e.id, !.fields = f].fields = f
        /\ [Empty EXCEPT !.id = e.id, !.fields = f].closing = FALSE
    BY <2>2 DEF Form
  <2> QED
    BY <1>2, <2>1, <2>3 DEF f
<1>3. CASE ~(p \in Forms /\ e # NoEntity /\ ~add)
  BY <1>3, Constants DEF Filled, Empty
<1> QED
  BY <1>2, <1>3

LEMMA GivenTyped ==
  ASSUME NEW p, NEW c \in Object, NEW s \in Object
  PROVE  Given(p, c, s) \in Object
BY DEF Given

LEMMA StaleTyped ==
  ASSUME NEW e \in Object, NEW kinds \in SUBSET Kinds
  PROVE  /\ Stale(e, kinds) \in Object /\ Stale(e, kinds).id = e.id
         /\ Stale(e, kinds) = NoEntity <=> e = NoEntity
<1>1. CASE e.kind \in kinds
  <2>1. Stale(e, kinds) = [e EXCEPT !.same = FALSE]
    BY <1>1 DEF Stale
  <2>2. "none" \notin Kinds
    BY DEF Kinds, Forms
  <2>3. NoEntity.kind = "none"
    BY DEF NoEntity
  <2> QED
    BY <1>1, <2>1, <2>2, <2>3 DEF Object
<1>2. CASE e.kind \notin kinds
  BY <1>2 DEF Stale
<1> QED
  BY <1>1, <1>2

LEMMA PanelNeeds ==
  ASSUME NEW p \in Panels
  PROVE  Needs(p) \subseteq Mounts(p) /\ Mounts(p) \subseteq Kinds
BY DEF Needs, Mounts, Panels, Kinds, Forms

-----------------------------------------------------------------------------
(* Every step keeps the types. *)

LEMMA OpenEffect ==
  ASSUME NEW add \in BOOLEAN, NEW c, NEW s, Open(add, c, s), TypeOK, c \in Object, s \in Object
  PROVE  TypeOK'
<1>1. Filled(panel, Given(panel, c, s), add) \in Form
  BY FilledTyped, GivenTyped
<1>2. form \in Form /\ form.closing \in BOOLEAN
  BY DEF TypeOK, ClientTypes, Form
<1>3. [Filled(panel, Given(panel, c, s), add) EXCEPT !.closing = form.closing] \in Form
  BY <1>1, <1>2 DEF Form
<1>4. form' \in Form
  BY <1>2, <1>3 DEF Open
<1> QED
  BY <1>4 DEF Open, TypeOK, ClientTypes

OpenAny == OpenAdd \/ OpenRoute \/ OpenSchedule \/ OpenTrip \/ OpenBus \/ OpenStaff

LEMMA ListRow ==
  ASSUME TypeOK, NEW k \in Kinds, NEW i \in DOMAIN lists[k]
  PROVE  i \in Nat \ {0} /\ lists[k][i] \in Row
BY TableEntry DEF TypeOK, ClientTypes

\* The ways to open a form: a new one, a row's, or a member of the staff's.
LEMMA Opens ==
  ASSUME TypeOK, OpenAny
  PROVE  \E add \in BOOLEAN, c \in Object, s \in Object :
           /\ Open(add, c, s) /\ panel # "complaints"
           /\ add /\ panel \in Forms => Given(panel, c, s) = Given(panel, NoEntity, selected)
           /\ ~add /\ panel \in Forms => \E i \in DOMAIN lists[panel] :
                 Given(panel, c, s) = Entity(panel, i, lists[panel][i])
<1>0. NoEntity \in Object /\ selected \in Object /\ panel \in Panels
  BY Constants DEF TypeOK, ClientTypes
<1>1. CASE OpenAdd
  BY <1>0, <1>1 DEF OpenAdd, Forms
<1>2. ASSUME NEW k \in {"routes", "schedules", "trips"}, OpenEdit(k)
      PROVE  \E s \in Object :
               /\ Open(FALSE, NoEntity, s) /\ panel = k
               /\ \E i \in DOMAIN lists[panel] :
                     Given(panel, NoEntity, s) = Entity(panel, i, lists[panel][i])
  <2>1. PICK i \in DOMAIN lists[k] : panel = k /\ Open(FALSE, NoEntity, Entity(k, i, lists[k][i]))
    BY <1>2 DEF OpenEdit
  <2>2. k \in Kinds /\ k # "buses"
    BY DEF Kinds, Forms
  <2>3. Entity(k, i, lists[k][i]) \in Object
    BY <2>2, ListRow, Constants
  <2> QED
    BY <2>1, <2>2, <2>3 DEF Given
<1>3. CASE OpenRoute \/ OpenSchedule \/ OpenTrip
  BY <1>0, <1>2, <1>3 DEF OpenRoute, OpenSchedule, OpenTrip
<1>4. CASE OpenBus
  <2>1. PICK i \in DOMAIN lists.buses :
          panel = "buses" /\ Open(FALSE, Entity("buses", i, lists.buses[i]), selected)
    BY <1>4 DEF OpenBus
  <2>2. Entity("buses", i, lists.buses[i]) \in Object
    BY ListRow, Constants DEF Kinds, Forms
  <2> QED
    BY <1>0, <2>1, <2>2 DEF Given
<1>5. CASE OpenStaff
  <2>1. PICK add \in BOOLEAN, i \in Ids :
          /\ panel = "staff"
          /\ IF add THEN Open(TRUE, NoEntity, selected)
             ELSE Open(FALSE, Entity("staff", i, NoRow), Entity("staff", i, NoRow))
    BY <1>5 DEF OpenStaff
  <2>2. Entity("staff", i, NoRow) \in Object
    BY Constants DEF Ids
  <2>3. "staff" \notin Forms /\ panel # "complaints"
    BY <2>1 DEF Forms
  <2> QED
    BY <1>0, <2>1, <2>2, <2>3
<1> QED
  BY <1>1, <1>3, <1>4, <1>5 DEF OpenAny

\* A request whose page has changed its panel.
LEMMA Gone ==
  ASSUME NEW h \in Handler
  PROVE  /\ [h EXCEPT !.here = FALSE] \in Handler
         /\ [h EXCEPT !.here = FALSE] = Idle <=> h = Idle
         /\ \A f \in {"pc", "op", "kind", "id", "answer"} : [h EXCEPT !.here = FALSE][f] = h[f]
<1>1. \A f \in {"pc", "op", "kind", "id", "answer"} : [h EXCEPT !.here = FALSE][f] = h[f]
  BY DEF Handler, Handlers
<1>2. [h EXCEPT !.here = FALSE] \in Handlers
  BY DEF Handler, Handlers
<1>3. CASE h = Idle
  <2>1. h.here = FALSE
    BY <1>3 DEF Idle
  <2>2. [h EXCEPT !.here = FALSE] = h
    BY <2>1 DEF Handler, Handlers
  <2> QED
    BY <1>3, <2>2
<1>4. CASE h # Idle
  <2>1. h.pc # "idle"
    BY <1>4 DEF Handler
  <2>2. [h EXCEPT !.here = FALSE] # Idle
    BY <1>1, <2>1 DEF Idle
  <2> QED
    BY <1>1, <1>2, <1>4, <2>1, <2>2 DEF Handler
<1> QED
  BY <1>1, <1>3, <1>4

LEMMA ShowTypes ==
  ASSUME TypeOK, Show
  PROVE  TypeOK'
<1>1. PICK p \in Panels :
        /\ panel' = p /\ selected' = NoEntity
        /\ form' = Filled(p, Given(p, current, NoEntity), dialog.add)
        /\ fetches' = fetches \cup Fetch(Mounts(p))
        /\ req' = [r \in Requests |-> [req[r] EXCEPT !.here = FALSE]]
        /\ UNCHANGED <<tables, last, lists, dialog, current, ask>>
  BY DEF Show
<1>2. form' \in Form
  BY <1>1, Constants, FilledTyped, GivenTyped DEF TypeOK, ClientTypes
<1>3. Fetch(Mounts(p)) \subseteq Fetches
  BY PanelNeeds DEF Fetch, Fetches
<1>4. \A h \in Handler : [h EXCEPT !.here = FALSE] \in Handler
  BY Gone
<1> QED
  BY <1>1, <1>2, <1>3, <1>4, Constants DEF TypeOK, ClientTypes

LEMMA TypeTypes ==
  ASSUME TypeOK, TypeRoute \/ TypeSchedule \/ TypeTrip \/ TypeBus
  PROVE  TypeOK'
<1>0. form \in Form /\ form.fields \in Typed_ /\ Values \subseteq Nat /\ Seats \subseteq Nat
  BY DashboardAssumption DEF TypeOK, ClientTypes, Form, Seats
<1>1. ASSUME NEW k, NEW fields \in Typed_, Type(k, fields) PROVE TypeOK'
  <2>1. form' \in Form
    BY <1>0, <1>1 DEF Type, Form
  <2> QED
    BY <1>1, <2>1 DEF Type, TypeOK, ClientTypes
<1>2. CASE TypeRoute
  BY <1>0, <1>1, <1>2 DEF TypeRoute, Typed_
<1>3. CASE TypeSchedule
  <2>1. \A i \in DOMAIN lists.schedules : lists.schedules[i].over \in Nat
    BY ListRow DEF Kinds, Forms, Row
  <2> QED
    BY <1>0, <1>1, <1>3, <2>1 DEF TypeSchedule, Typed_
<1>4. CASE TypeTrip
  <2>1. DOMAIN lists.schedules \subseteq Nat /\ DOMAIN lists.buses \subseteq Nat
    BY ListRow DEF Kinds, Forms
  <2> QED
    BY <1>0, <1>1, <1>4, <2>1 DEF TypeTrip, Typed_
<1>5. CASE TypeBus
  BY <1>0, <1>1, <1>5 DEF TypeBus, Typed_
<1> QED
  BY <1>2, <1>3, <1>4, <1>5

LEMMA CloseTypes ==
  ASSUME TypeOK, Close \/ Faded \/ Ask \/ Decline
  PROVE  TypeOK'
<1>1. form \in Form /\ dialog \in [open : BOOLEAN, add : BOOLEAN] /\ NoEntity \in Object
  BY Constants DEF TypeOK, ClientTypes
<1>2. CASE Close
  BY <1>1, <1>2 DEF Close, TypeOK, ClientTypes, Form
<1>3. CASE Faded
  BY <1>1, <1>3 DEF Faded, TypeOK, ClientTypes, Form
<1>4. CASE Ask
  <2>1. panel \in Kinds /\ \A i \in DOMAIN lists[panel] :
          Entity(panel, i, NoRow) \in Object /\ Entity(panel, i, NoRow).kind = panel
    BY <1>4, ListRow, Constants DEF Ask, Kinds, Entity
  <2> QED
    BY <1>4, <2>1 DEF Ask, TypeOK, ClientTypes
<1>5. CASE Decline
  BY <1>1, <1>5 DEF Decline, TypeOK, ClientTypes
<1> QED
  BY <1>2, <1>3, <1>4, <1>5

LEMMA FetchTypes ==
  ASSUME TypeOK, NEW f \in fetches, FetchRead(f) \/ FetchArrive(f) \/ FetchFail(f)
  PROVE  TypeOK'
<1>1. f \in Fetches /\ tables \in [Kinds -> Table] /\ lists \in [Kinds -> Table]
  BY DEF TypeOK, ClientTypes
<1>2. CASE FetchRead(f)
  <2> DEFINE rows == [k \in f.kinds |-> Listed(k)]
             g == [f EXCEPT !.read = TRUE, !.rows = rows]
  <2>1. rows \in [f.kinds -> Table] /\ f.kinds \in SUBSET Kinds
    BY <1>1, ListedTyped DEF Fetches
  <2>2. g \in Fetches
    <3> HIDE DEF rows
    <3> QED
      BY <1>1, <2>1 DEF Fetches
  <2> HIDE DEF g
  <2>3. fetches' = (fetches \ {f}) \cup {g}
    BY <1>2 DEF FetchRead, g
  <2> QED
    BY <1>2, <2>2, <2>3 DEF FetchRead, TypeOK, ClientTypes
<1>3. CASE FetchArrive(f)
  <2>1. f.rows \in [f.kinds -> Table] /\ f.kinds \in SUBSET Kinds
    BY <1>1, <1>3 DEF FetchArrive, Fetches
  <2>2. [k \in Kinds |-> IF k \in f.kinds THEN f.rows[k] ELSE lists[k]] \in [Kinds -> Table]
    BY <1>1, <2>1
  <2>3. current' \in Object /\ selected' \in Object
    BY <1>3, <2>1, StaleTyped DEF FetchArrive, TypeOK, ClientTypes
  <2> QED
    BY <1>3, <2>2, <2>3 DEF FetchArrive, TypeOK, ClientTypes
<1>4. CASE FetchFail(f)
  BY <1>4 DEF FetchFail, TypeOK, ClientTypes
<1> QED
  BY <1>2, <1>3, <1>4

LEMMA HandlerKept ==
  ASSUME NEW h \in Handler, h.pc # "idle"
  PROVE  /\ \A a \in {"data", "nothing", "error"} :
               Answer(h, a) \in Handler /\ Answer(h, a).pc = "Answer" /\ Answer(h, a).answer = a
               /\ Answer(h, a).op = h.op /\ Answer(h, a).kind = h.kind /\ Answer(h, a).id = h.id
         /\ h.op = "add" => [h EXCEPT !.pc = "AddSave"] \in Handler
         /\ h.op = "update" => /\ [h EXCEPT !.pc = "UpdateWrite"] \in Handler
                               /\ [h EXCEPT !.pc = "UpdateReread"] \in Handler
<1>1. ASSUME NEW a \in {"data", "nothing", "error"}
      PROVE  Answer(h, a) \in Handler /\ Answer(h, a).pc = "Answer" /\ Answer(h, a).answer = a
             /\ Answer(h, a).op = h.op /\ Answer(h, a).kind = h.kind /\ Answer(h, a).id = h.id
  BY DEF Answer, Handler, Handlers
<1>2. h.op = "add" => [h EXCEPT !.pc = "AddSave"] \in Handler
  BY DEF Handler, Handlers
<1>3. h.op = "update" => /\ [h EXCEPT !.pc = "UpdateWrite"] \in Handler
                         /\ [h EXCEPT !.pc = "UpdateReread"] \in Handler
  BY DEF Handler, Handlers
<1> QED
  BY <1>1, <1>2, <1>3

LEMMA StoredTyped ==
  ASSUME NEW row \in Row, NEW k, NEW fields \in Typed_
  PROVE  Stored(row, k, fields) \in Row
<1> DEFINE free == IF k = "buses" THEN 1 .. fields.seats ELSE row.free
<1>1. free \in SUBSET Nat
  BY DEF Row, Typed_
<1>2. Stored(row, k, fields) = [row EXCEPT !.value = fields.value, !.over = fields.over,
                                           !.bus = fields.bus, !.free = free]
  BY DEF Stored, Row
<1> HIDE DEF free
<1> QED
  BY <1>1, <1>2 DEF Row, Typed_

LEMMA WithoutTyped ==
  ASSUME TypeOK, NEW k, NEW i
  PROVE  Without(k, i) \in [Kinds -> Table]
<1> DEFINE gone(j) == CASE j = "schedules" -> GoneSchedules(k, i)
                        [] j = "trips" -> GoneTrips(k, i)
                        [] OTHER -> IF j = k THEN {i} ELSE {}
<1>1. ASSUME NEW j \in Kinds PROVE Restrict(tables[j], DOMAIN tables[j] \ gone(j)) \in Table
  <2> HIDE DEF gone
  <2> QED
    BY TableRestrict DEF TypeOK
<1> QED
  BY <1>1 DEF Without

\* What the server does for a request: the handler it leaves is as it should be.
LEMMA ServerTypes ==
  ASSUME TypeOK, NEW r \in Requests,
         AddCheck(r) \/ AddSave(r) \/ UpdateFind(r) \/ UpdateWrite(r) \/ UpdateReread(r)
         \/ DeleteRow(r) \/ Fail(r)
  PROVE  TypeOK'
<1> DEFINE h == req[r]
<1>1. h \in Handler /\ h.fields \in Typed_ /\ h.id \in Nat /\ Forms \subseteq Kinds
  BY DEF TypeOK, Handler, Handlers, Kinds
<1>2. ASSUME NEW x \in Handler, Handle(r, x), tables' \in [Kinds -> Table], last' \in [Kinds -> Nat]
      PROVE  TypeOK'
  BY <1>2 DEF Handle, client, TypeOK, ClientTypes
<1>3. ASSUME NEW x \in Handler, Read(r, x) PROVE TypeOK'
  BY <1>2, <1>3 DEF Read, TypeOK
<1>4. CASE AddCheck(r)
  <2>1. h.pc = "AddCheck" /\ h.op = "add"
    BY <1>1, <1>4 DEF AddCheck, At, Handler
  <2>2. Answer(h, "data") \in Handler /\ [h EXCEPT !.pc = "AddSave"] \in Handler
    BY <1>1, <2>1, HandlerKept
  <2> QED
    BY <1>3, <1>4, <2>2 DEF AddCheck
<1>5. CASE AddSave(r)
  <2>1. h.pc = "AddSave" /\ h.op = "add" /\ h.kind \in Kinds
    BY <1>1, <1>5 DEF AddSave, At, Handler
  <2>2. Answer(h, "data") \in Handler /\ Answer(h, "error") \in Handler
    BY <1>1, <2>1, HandlerKept
  <2> DEFINE i == last[h.kind] + 1
             t == [j \in DOMAIN tables[h.kind] \cup {i} |->
                      IF j = i THEN Stored(NoRow, h.kind, h.fields) ELSE tables[h.kind][j]]
  <2>3. i \in Nat \ {0} /\ last' = [last EXCEPT ![h.kind] = i]
    BY <1>5, <2>1 DEF AddSave, TypeOK
  <2>4. t \in Table
    <3> DEFINE row == Stored(NoRow, h.kind, h.fields)
               old == tables[h.kind]
    <3>1. row \in Row /\ old \in Table
      BY <1>1, <2>1, StoredTyped, Constants DEF TypeOK
    <3> HIDE DEF row, old, i
    <3>2. [j \in DOMAIN old \cup {i} |-> IF j = i THEN row ELSE old[j]] \in Table
      BY <3>1, <2>3, TableAdd
    <3> QED
      BY <3>2 DEF row, old
  <2>5. tables' = tables \/ tables' = [tables EXCEPT ![h.kind] = t]
    BY <1>5 DEF AddSave
  <2> HIDE DEF t, i
  <2>6. tables' \in [Kinds -> Table] /\ last' \in [Kinds -> Nat]
    BY <2>1, <2>3, <2>4, <2>5 DEF TypeOK
  <2> QED
    BY <1>2, <1>5, <2>2, <2>6 DEF AddSave
<1>6. CASE UpdateFind(r)
  <2>1. h.pc = "UpdateFind" /\ h.op = "update"
    BY <1>1, <1>6 DEF UpdateFind, At, Handler
  <2>2. Answer(h, "data") \in Handler /\ Answer(h, "nothing") \in Handler
        /\ [h EXCEPT !.pc = "UpdateWrite"] \in Handler
    BY <1>1, <2>1, HandlerKept
  <2> QED
    BY <1>3, <1>6, <2>2 DEF UpdateFind
<1>7. CASE UpdateWrite(r)
  <2>1. h.pc = "UpdateWrite" /\ h.op = "update" /\ h.kind \in Kinds
    BY <1>1, <1>7 DEF UpdateWrite, At, Handler
  <2>2. Answer(h, "data") \in Handler /\ Answer(h, "error") \in Handler
        /\ [h EXCEPT !.pc = "UpdateReread"] \in Handler
    BY <1>1, <2>1, HandlerKept
  <2> DEFINE t == [j \in DOMAIN tables[h.kind] |->
                      IF j = h.id THEN Stored(tables[h.kind][h.id], h.kind, h.fields)
                      ELSE tables[h.kind][j]]
  <2>3. tables[h.kind] \in Table
    BY <2>1 DEF TypeOK
  <2>4. t \in Table
    <3> DEFINE row == Stored(tables[h.kind][h.id], h.kind, h.fields)
               old == tables[h.kind]
    <3>1. old \in Table /\ (h.id \in DOMAIN old => row \in Row)
      BY <1>1, <2>3, StoredTyped, TableEntry
    <3> HIDE DEF row, old
    <3>2. [j \in DOMAIN old |-> IF j = h.id THEN row ELSE old[j]] \in Table
      BY <3>1, TableStore
    <3> QED
      BY <3>2 DEF row, old
  <2>5. tables' = tables \/ tables' = [tables EXCEPT ![h.kind] = t]
    BY <1>7 DEF UpdateWrite
  <2> HIDE DEF t
  <2>6. tables' \in [Kinds -> Table] /\ last' = last
    BY <1>7, <2>1, <2>4, <2>5 DEF TypeOK, UpdateWrite
  <2> QED
    BY <1>2, <1>7, <2>2, <2>6 DEF UpdateWrite, TypeOK
<1>8. CASE UpdateReread(r)
  <2>1. h.pc = "UpdateReread"
    BY <1>8 DEF UpdateReread, At
  <2>2. Answer(h, "data") \in Handler /\ Answer(h, "nothing") \in Handler
    BY <1>1, <2>1, HandlerKept
  <2> QED
    BY <1>3, <1>8, <2>2 DEF UpdateReread
<1>9. CASE DeleteRow(r)
  <2>1. h.pc = "Delete"
    BY <1>9 DEF DeleteRow, At
  <2>2. Answer(h, "data") \in Handler /\ Answer(h, "error") \in Handler
    BY <1>1, <2>1, HandlerKept
  <2>3. tables' \in [Kinds -> Table] /\ last' \in [Kinds -> Nat]
    BY <1>9, WithoutTyped DEF DeleteRow, TypeOK
  <2> QED
    BY <1>2, <1>9, <2>2, <2>3 DEF DeleteRow
<1>10. CASE Fail(r)
  <2>1. h # Idle /\ h.answer # "error"
    BY <1>10 DEF Fail
  <2>2. Answer(h, "error") \in Handler
    <3>1. CASE h.pc # "idle"
      BY <1>1, <3>1, HandlerKept
    <3> QED
      BY <1>1, <2>1, <3>1 DEF Handler
  <2> QED
    BY <1>3, <1>10, <2>2 DEF Fail
<1> QED
  BY <1>4, <1>5, <1>6, <1>7, <1>8, <1>9, <1>10

LEMMA SubmitTypes ==
  ASSUME TypeOK, NEW r \in Requests,
         SubmitRoute(r) \/ SubmitSchedule(r) \/ SubmitTrip(r) \/ SubmitBus(r)
  PROVE  \E k \in Forms, x \in Handler :
            /\ dialog.open /\ panel = k /\ ask = NoEntity /\ UNCHANGED <<tables, last, client>>
            /\ req[r] = Idle /\ req' = [req EXCEPT ![r] = x]
            /\ x.pc \in {"AddCheck", "AddSave", "UpdateFind"}
            /\ x.op = IF dialog.add THEN "add" ELSE "update"
            /\ x.kind = k /\ x.id = IF dialog.add THEN 0 ELSE form.id
<1>1. form.fields \in Typed_ /\ form.id \in Nat
  BY DEF TypeOK, ClientTypes, Form
<1>2. ASSUME NEW k \in Forms, NEW valid, Submit(r, k, valid)
      PROVE  \E x \in Handler :
                /\ dialog.open /\ panel = k /\ ask = NoEntity /\ UNCHANGED <<tables, last, client>>
                /\ req[r] = Idle /\ req' = [req EXCEPT ![r] = x]
                /\ x.pc \in {"AddCheck", "AddSave", "UpdateFind"}
                /\ x.op = IF dialog.add THEN "add" ELSE "update"
                /\ x.kind = k /\ x.id = IF dialog.add THEN 0 ELSE form.id
  <2> DEFINE pc == IF ~dialog.add THEN "UpdateFind"
                   ELSE IF k \in {"schedules", "trips"} THEN "AddCheck" ELSE "AddSave"
             op == IF dialog.add THEN "add" ELSE "update"
             id == IF dialog.add THEN 0 ELSE form.id
             x == [pc |-> pc, op |-> op, kind |-> k, id |-> id,
                   fields |-> form.fields, answer |-> "none", here |-> TRUE]
  <2>1. /\ pc \in {"AddCheck", "AddSave", "UpdateFind"} /\ op \in {"add", "update"} /\ id \in Nat
        /\ pc \in {"AddCheck", "AddSave"} => op = "add"
        /\ pc = "UpdateFind" => op = "update"
    BY <1>1
  <2>2. req[r] = Idle /\ req' = [req EXCEPT ![r] = x] /\ dialog.open /\ panel = k /\ ask = NoEntity
        /\ UNCHANGED <<tables, last, client>>
    BY <1>2 DEF Submit, Start
  <2>3. x \in Handler
    <3> HIDE DEF pc, op, id
    <3> QED
      BY <1>1, <2>1 DEF Handler, Handlers, Kinds
  <2>4. x.pc = pc /\ x.op = op /\ x.kind = k /\ x.id = id
    OBVIOUS
  <2> HIDE DEF x
  <2> QED
    BY <2>1, <2>2, <2>3, <2>4
<1> QED
  BY <1>2 DEF SubmitRoute, SubmitSchedule, SubmitTrip, SubmitBus, Forms

\* What the other clicks that send something send.
LEMMA ClickTypes ==
  ASSUME TypeOK, NEW r \in Requests, SubmitStaff(r) \/ Confirm(r) \/ DeleteComplaint(r)
  PROVE  \E x \in Handler :
            /\ req[r] = Idle /\ req' = [req EXCEPT ![r] = x]
            /\ \/ SubmitStaff(r) /\ dialog.open /\ panel = "staff" /\ x.op = "staff" /\ x.pc = "Answer"
               \/ x.op = "delete" /\ x.pc = "Delete"
            /\ UNCHANGED <<tables, last, panel, lists, fetches, dialog, current, selected, form>>
            /\ ask' \in {ask, NoEntity}
<1>1. CASE SubmitStaff(r)
  <2> DEFINE x == [Idle EXCEPT !.pc = "Answer", !.op = "staff", !.kind = "staff", !.answer = "data"]
  <2>1. x \in Handler /\ x.op = "staff" /\ x.pc = "Answer"
    BY Constants DEF Idle, Handler, Handlers
  <2>2. req[r] = Idle /\ req' = [req EXCEPT ![r] = x] /\ dialog.open /\ panel = "staff"
        /\ UNCHANGED <<tables, last, client>>
    BY <1>1 DEF SubmitStaff, Start
  <2> HIDE DEF x
  <2> QED
    BY <1>1, <2>1, <2>2 DEF client
<1>2. ASSUME NEW k \in Kinds, NEW i \in Nat, Delete(r, k, i)
      PROVE  \E x \in Handler : /\ req[r] = Idle /\ req' = [req EXCEPT ![r] = x]
                                /\ x.op = "delete" /\ x.pc = "Delete"
  <2> DEFINE x == [Idle EXCEPT !.pc = "Delete", !.op = "delete", !.kind = k, !.id = i]
  <2>1. x \in Handler /\ x.op = "delete" /\ x.pc = "Delete"
    BY Constants DEF Idle, Handler, Handlers
  <2>2. req[r] = Idle /\ req' = [req EXCEPT ![r] = x]
    BY <1>2 DEF Delete, Start
  <2> HIDE DEF x
  <2> QED
    BY <2>1, <2>2
<1>3. CASE Confirm(r)
  <2>1. ask.kind \in Kinds /\ ask.id \in Nat
    BY <1>3 DEF Confirm, TypeOK, ClientTypes, Object
  <2> QED
    BY <1>2, <1>3, <2>1 DEF Confirm
<1>4. CASE DeleteComplaint(r)
  <2>1. PICK i \in ComplaintsShown : Delete(r, "complaints", i)
    BY <1>4 DEF DeleteComplaint
  <2>2. i \in Nat /\ "complaints" \in Kinds
    BY ListRow DEF ComplaintsShown, Kinds
  <2> QED
    BY <1>2, <1>4, <2>1, <2>2 DEF DeleteComplaint, client
<1> QED
  BY <1>1, <1>3, <1>4

LEMMA ReplyTypes ==
  ASSUME TypeOK, NEW r \in Requests, Reply(r)
  PROVE  TypeOK'
<1>1. panel \in Panels /\ form \in Form /\ dialog \in [open : BOOLEAN, add : BOOLEAN]
  BY DEF TypeOK, ClientTypes
<1>2. form' \in Form
  BY <1>1 DEF Reply, Form
<1>3. dialog' \in [open : BOOLEAN, add : BOOLEAN]
  BY <1>1 DEF Reply
<1>4. Fetch(Needs(panel)) \subseteq Fetches
  BY <1>1, PanelNeeds DEF Fetch, Fetches
<1>5. fetches' \subseteq fetches \cup Fetch(Needs(panel))
  BY DEF Reply
<1>6. req' \in [Requests -> Handler]
  BY Constants DEF Reply, TypeOK
<1> QED
  BY <1>2, <1>3, <1>4, <1>5, <1>6 DEF Reply, TypeOK, ClientTypes

LEMMA ElsewhereTypes ==
  ASSUME TypeOK, Elsewhere
  PROVE  TypeOK'
<1>1. tables \in [Kinds -> Table] /\ last \in [Kinds -> Nat]
      /\ {"complaints", "trips", "buses"} \subseteq Kinds /\ Forms \subseteq Kinds
      /\ Values \subseteq Nat
  BY DashboardAssumption DEF TypeOK, Kinds, Forms
<1>2. SUFFICES tables' \in [Kinds -> Table] /\ last' \in [Kinds -> Nat]
  BY DEF Elsewhere, client, TypeOK, ClientTypes
<1>3. ASSUME NEW k, NEW i, tables' = Without(k, i) /\ UNCHANGED last
      PROVE  tables' \in [Kinds -> Table] /\ last' \in [Kinds -> Nat]
  BY <1>1, <1>3, WithoutTyped
<1>4. ASSUME NEW k \in Kinds, NEW i \in DOMAIN tables[k], NEW row \in Row
      PROVE  [tables EXCEPT ![k] = [tables[k] EXCEPT ![i] = row]] \in [Kinds -> Table]
  <2>1. tables[k] \in [DOMAIN tables[k] -> Row] /\ DOMAIN tables[k] \in SUBSET (Nat \ {0})
    BY <1>1, TableEntry
  <2>2. [tables[k] EXCEPT ![i] = row] \in [DOMAIN tables[k] -> Row]
    BY <2>1
  <2>3. [tables[k] EXCEPT ![i] = row] \in Table
    BY <2>1, <2>2, TableMade
  <2> QED
    BY <1>1, <2>3
<1>5. ASSUME NEW k \in Kinds, NEW i \in DOMAIN tables[k] PROVE tables[k][i] \in Row
  BY <1>1, <1>5, TableEntry
<1>6. ASSUME NEW k \in Forms, NEW v \in Values, NEW i \in DOMAIN tables[k],
             tables' = [tables EXCEPT ![k][i].value = v], UNCHANGED last
      PROVE  tables' \in [Kinds -> Table] /\ last' \in [Kinds -> Nat]
  <2>1. [tables[k][i] EXCEPT !.value = v] \in Row
    BY <1>1, <1>5 DEF Row
  <2> QED
    BY <1>1, <1>4, <1>6, <2>1
<1>7. CASE Complain
  <2>1. PICK v \in Values :
          LET i == last.complaints + 1 IN
          /\ last' = [last EXCEPT !.complaints = i]
          /\ tables' = [tables EXCEPT !.complaints =
                [j \in DOMAIN @ \cup {i} |-> IF j = i THEN [NoRow EXCEPT !.value = v] ELSE @[j]]]
    BY <1>7 DEF Complain
  <2> DEFINE i == last.complaints + 1
             row == [NoRow EXCEPT !.value = v]
             old == tables.complaints
  <2>2. i \in Nat \ {0} /\ row \in Row /\ old \in Table
    <3>1. last.complaints \in Nat /\ v \in Nat /\ NoRow \in Row
      BY <1>1, Constants
    <3>2. [NoRow EXCEPT !.value = v] \in Row
      BY <3>1 DEF Row
    <3> QED
      BY <1>1, <3>1, <3>2
  <2>3. last' = [last EXCEPT !.complaints = i]
        /\ tables' = [tables EXCEPT !.complaints =
                        [j \in DOMAIN old \cup {i} |-> IF j = i THEN row ELSE old[j]]]
    BY <2>1
  <2> HIDE DEF i, row, old
  <2>4. [j \in DOMAIN old \cup {i} |-> IF j = i THEN row ELSE old[j]] \in Table
    BY <2>2, TableAdd
  <2> QED
    BY <1>1, <2>2, <2>3, <2>4
<1>8. ASSUME NEW t \in DOMAIN tables.trips, NEW n \in Seats,
             tables' = [tables EXCEPT !.trips[t].used = TRUE,
                                      !.buses[tables.trips[t].bus].free = @ \ {n}],
             UNCHANGED last
      PROVE  tables' \in [Kinds -> Table] /\ last' \in [Kinds -> Nat]
  <2> DEFINE trips == [tables.trips EXCEPT ![t] = [tables.trips[t] EXCEPT !.used = TRUE]]
             b == tables.trips[t].bus
             buses == [tables.buses EXCEPT ![b] = [tables.buses[b] EXCEPT !.free = @ \ {n}]]
  <2>1. trips \in Table
    <3>1. [tables.trips[t] EXCEPT !.used = TRUE] \in Row
      BY <1>1, <1>5 DEF Row
    <3>2. tables.trips \in [DOMAIN tables.trips -> Row]
          /\ DOMAIN tables.trips \in SUBSET (Nat \ {0})
      BY <1>1, TableEntry
    <3>3. trips \in [DOMAIN tables.trips -> Row]
      BY <3>1, <3>2
    <3> QED
      BY <3>2, <3>3, TableMade
  <2>2. buses \in Table
    <3>1. tables.buses \in [DOMAIN tables.buses -> Row]
          /\ DOMAIN tables.buses \in SUBSET (Nat \ {0})
      BY <1>1, TableEntry
    <3>2. b \in DOMAIN tables.buses => [tables.buses[b] EXCEPT !.free = @ \ {n}] \in Row
      BY <1>1, <1>5 DEF Row
    <3>3. buses \in [DOMAIN tables.buses -> Row]
      <4> HIDE DEF b
      <4> QED
        BY <3>1, <3>2
    <3> QED
      BY <3>1, <3>3, TableMade
  <2>3. tables' = [[tables EXCEPT !.trips = trips] EXCEPT !.buses = buses]
    BY <1>1, <1>8
  <2> HIDE DEF trips, buses
  <2> QED
    BY <1>1, <1>8, <2>1, <2>2, <2>3
<1> QED
  BY <1>1, <1>3, <1>6, <1>7, <1>8 DEF Elsewhere

LEMMA TypeInit == Init => TypeOK
<1> SUFFICES ASSUME Init PROVE TypeOK
  OBVIOUS
<1> DEFINE ids(k) == IF k = "buses" THEN 1 .. 2 ELSE {1}
           row(k) == [value |-> 1, over |-> IF k \in {"schedules", "trips"} THEN 1 ELSE 0,
                      bus |-> IF k = "trips" THEN 1 ELSE 0,
                      free |-> IF k = "buses" THEN Seats ELSE {}, used |-> FALSE]
<1>1. \A k : row(k) \in Row /\ ids(k) \in SUBSET (Nat \ {0})
  BY DashboardAssumption DEF Row, Seats
<1>2. tables = [k \in Kinds |-> [i \in ids(k) |-> row(k)]]
  BY DEF Init
<1> HIDE DEF ids, row
<1>3. \A k : [i \in ids(k) |-> row(k)] \in Table
  BY <1>1, TableMade
<1>4. tables \in [Kinds -> Table]
  BY <1>2, <1>3
<1>5. lists \in [Kinds -> Table]
  BY <1>4, NoTable DEF Init
<1>6. last \in [Kinds -> Nat]
  BY DEF Init
<1>7. panel \in Panels /\ dialog \in [open : BOOLEAN, add : BOOLEAN] /\ fetches \subseteq Fetches
  BY DEF Init
<1>8. /\ current \in Object /\ selected \in Object /\ ask = NoEntity /\ ask \in Object /\ form \in Form
      /\ req \in [Requests -> Handler]
  BY Constants DEF Init
<1> QED
  BY <1>4, <1>5, <1>6, <1>7, <1>8 DEF TypeOK, ClientTypes

LEMMA TypeStep ==
  ASSUME TypeOK, [Next]_vars
  PROVE  TypeOK'
<1>1. CASE UNCHANGED vars
  BY <1>1 DEF vars, client, TypeOK, ClientTypes
<1>2. CASE OpenAny
  BY <1>2, Opens, OpenEffect
<1>3. CASE Close \/ Faded \/ Ask \/ Decline
  BY <1>3, CloseTypes
<1>4. ASSUME NEW r \in Requests, Use(r) PROVE TypeOK'
  <2>1. CASE SubmitRoute(r) \/ SubmitSchedule(r) \/ SubmitTrip(r) \/ SubmitBus(r)
    <3>1. PICK x \in Handler : UNCHANGED <<tables, last, client>> /\ req' = [req EXCEPT ![r] = x]
      BY <2>1, SubmitTypes
    <3> QED
      BY <3>1 DEF client, TypeOK, ClientTypes
  <2>2. CASE SubmitStaff(r) \/ Confirm(r) \/ DeleteComplaint(r)
    <3>1. PICK x \in Handler :
            /\ req' = [req EXCEPT ![r] = x] /\ ask' \in {ask, NoEntity}
            /\ UNCHANGED <<tables, last, panel, lists, fetches, dialog, current, selected, form>>
      BY <2>2, ClickTypes
    <3> QED
      BY <3>1, Constants DEF TypeOK, ClientTypes
  <2> QED
    BY <1>4, <2>1, <2>2 DEF Use
<1>5. ASSUME NEW r \in Requests, Serve(r) PROVE TypeOK'
  BY <1>5, ServerTypes, ReplyTypes DEF Serve
<1> QED
  BY <1>1, <1>2, <1>3, <1>4, <1>5, ShowTypes, TypeTypes, FetchTypes, ElsewhereTypes DEF Next, OpenAny

-----------------------------------------------------------------------------
(* The lists of the panel are the tables, or something on its way will make  *)
(* them so.                                                                  *)

\* The answer to the request will have the lists fetched again.
Dirty(h) ==
    \/ h.pc = "Answer" /\ Triggers(h)
    \/ h.pc = "UpdateReread" /\ (h.kind = "schedules" \/ h.id \in DOMAIN tables[h.kind])

Unwritten == \E r \in Requests : Dirty(req[r])
Asked(k) == \E f \in fetches : ~f.read /\ k \in f.kinds

\* All that has been read of a kind is what the table is, and one of it will arrive
\* or has arrived last.
Settled(k) ==
    /\ \A f \in fetches : f.read /\ k \in f.kinds => f.rows[k] = Listed(k)
    /\ (\E f \in fetches : f.read /\ k \in f.kinds) \/ lists[k] = Listed(k)

\* What was read while the same list is asked for again was read just now.
ReadNow ==
    \A f, g \in fetches : f.read /\ ~g.read => \A k \in f.kinds \cap g.kinds : f.rows[k] = Listed(k)

Listing == Kept({"list"}) =>
    ReadNow /\ \A k \in Needs(panel) : Unwritten \/ Asked(k) \/ Settled(k)

LEMMA StillList ==
  ASSUME Record, Kept({"list"})'
  PROVE  Kept({"list"}) /\ InOrder /\ NoLoss /\ ~Elsewhere
BY DEF Record, Kept, Breaks

LEMMA ListedKept ==
  ASSUME tables' = tables, NEW k
  PROVE  Listed(k)' = Listed(k)
BY DEF Listed

LEMMA Carry ==
  ASSUME UNCHANGED <<tables, lists, fetches>>, Unwritten => Unwritten', NEW k,
         Unwritten \/ Asked(k) \/ Settled(k)
  PROVE  (Unwritten \/ Asked(k) \/ Settled(k))'
<1>1. Listed(k)' = Listed(k)
  BY ListedKept
<1> QED
  BY <1>1 DEF Asked, Settled

\* A slot that is not about to have the lists fetched leaves the others as they are.
LEMMA NotMine ==
  ASSUME TypeOK, UNCHANGED tables, NEW r \in Requests, NEW x, req' = [req EXCEPT ![r] = x],
         ~Dirty(req[r])
  PROVE  Unwritten => Unwritten'
<1>1. \A q \in Requests : Dirty(req[q]) => Dirty(req'[q])
  BY DEF TypeOK, Dirty, Triggers
<1> QED
  BY <1>1 DEF Unwritten, Dirty, Triggers

LEMMA Done ==
  ASSUME NEW h \in Handler, h.op \in {"add", "update", "delete"}
  PROVE  Answer(h, "data").pc = "Answer" /\ Triggers(Answer(h, "data"))
<1>1. h.pc # "idle"
  BY DEF Handler
<1>2. Answer(h, "data").pc = "Answer" /\ Answer(h, "data").answer = "data"
      /\ Answer(h, "data").op = h.op
  BY <1>1, HandlerKept
<1> QED
  BY <1>2 DEF Triggers

\* A change of the tables is answered such that the lists are fetched again.
LEMMA ServerWrites ==
  ASSUME TypeOK, TypeOK', NEW r \in Requests,
         AddCheck(r) \/ AddSave(r) \/ UpdateFind(r) \/ UpdateWrite(r) \/ UpdateReread(r)
         \/ DeleteRow(r)
  PROVE  /\ Unwritten' \/ (UNCHANGED tables /\ (Unwritten => Unwritten'))
         /\ UNCHANGED <<panel, lists, fetches>>
<1> DEFINE h == req[r]
<1>0. h \in Handler /\ req \in [Requests -> Handler]
  BY DEF TypeOK
<1>1. UNCHANGED <<panel, lists, fetches>>
  BY DEF AddCheck, AddSave, UpdateFind, UpdateWrite, UpdateReread, DeleteRow, Read, Handle, client
<1>2. ASSUME NEW x, Handle(r, x), UNCHANGED tables, ~Dirty(h) PROVE UNCHANGED tables /\ (Unwritten => Unwritten')
  BY <1>2, NotMine DEF Handle
<1>3. ASSUME NEW x, Handle(r, x), x.pc = "Answer", Triggers(x) PROVE Unwritten'
  <2>1. req'[r] = x
    BY <1>0, <1>3 DEF Handle
  <2> QED
    BY <1>3, <2>1 DEF Unwritten, Dirty, Triggers
<1>4. CASE AddCheck(r) \/ UpdateFind(r)
  <2>1. \E x : Read(r, x)
    BY <1>4 DEF AddCheck, UpdateFind
  <2>2. ~Dirty(h)
    BY <1>4 DEF AddCheck, UpdateFind, At, Dirty
  <2> QED
    BY <1>1, <1>2, <2>1, <2>2 DEF Read
<1>5. CASE AddSave(r)
  <2>1. h.pc = "AddSave" /\ h.op = "add"
    BY <1>0, <1>5 DEF AddSave, At, Handler
  <2>2. CASE Exist(h.kind, h.fields)
    <3>1. Handle(r, Answer(h, "data"))
      BY <1>5, <2>2 DEF AddSave
    <3>2. Answer(h, "data").pc = "Answer" /\ Triggers(Answer(h, "data"))
      BY <1>0, <2>1, Done
    <3> QED
      BY <1>1, <1>3, <3>1, <3>2
  <2>3. CASE ~Exist(h.kind, h.fields)
    <3>1. Handle(r, Answer(h, "error")) /\ UNCHANGED tables
      BY <1>5, <2>3 DEF AddSave
    <3>2. ~Dirty(h)
      BY <2>1 DEF Dirty
    <3> QED
      BY <1>1, <1>2, <3>1, <3>2
  <2> QED
    BY <2>2, <2>3
<1>6. CASE UpdateWrite(r)
  <2>1. h.pc = "UpdateWrite" /\ h.op = "update" /\ h.kind \in Kinds
    BY <1>0, <1>6 DEF UpdateWrite, At, Handler, Kinds
  <2>2. ~Dirty(h)
    BY <2>1 DEF Dirty
  <2>3. CASE h.id \in DOMAIN tables[h.kind] /\ ~Exist(h.kind, h.fields)
    <3>1. UNCHANGED tables /\ \E x : Handle(r, x)
      BY <1>6, <2>3 DEF UpdateWrite
    <3> QED
      BY <1>1, <1>2, <2>2, <3>1
  <2>4. CASE ~(h.id \in DOMAIN tables[h.kind] /\ ~Exist(h.kind, h.fields))
    <3> DEFINE x == [h EXCEPT !.pc = "UpdateReread"]
               t == [j \in DOMAIN tables[h.kind] |->
                        IF j = h.id THEN Stored(tables[h.kind][j], h.kind, h.fields)
                        ELSE tables[h.kind][j]]
    <3>1. Handle(r, x) /\ tables' = [tables EXCEPT ![h.kind] = t]
      BY <1>6, <2>4 DEF UpdateWrite
    <3>2. x.pc = "UpdateReread" /\ x.kind = h.kind /\ x.id = h.id
      BY <1>0 DEF Handler, Handlers
    <3>3. DOMAIN t = DOMAIN tables[h.kind]
      OBVIOUS
    <3>4. tables'[h.kind] = t
      <4> HIDE DEF t
      <4> QED
        BY <2>1, <3>1 DEF TypeOK
    <3>5. CASE h.id \in DOMAIN tables[h.kind]
      <4>1. req'[r] = x
        BY <1>0, <3>1 DEF Handle
      <4>2. x.id \in DOMAIN tables'[x.kind]
        <5> HIDE DEF x, t
        <5> QED
          BY <3>2, <3>3, <3>4, <3>5
      <4> HIDE DEF x, t
      <4>3. Unwritten'
        BY <3>2, <4>1, <4>2 DEF Unwritten, Dirty
      <4> QED
        BY <1>1, <4>3
    <3>6. CASE h.id \notin DOMAIN tables[h.kind]
      <4>1. tables[h.kind] = [j \in DOMAIN tables[h.kind] |-> tables[h.kind][j]]
        BY <2>1, TableEntry DEF TypeOK
      <4>2. t = tables[h.kind]
        BY <3>6, <4>1
      <4> HIDE DEF t
      <4>3. UNCHANGED tables
        BY <2>1, <3>1, <4>2 DEF TypeOK
      <4> QED
        BY <1>1, <1>2, <2>2, <3>1, <4>3
    <3> QED
      BY <3>5, <3>6
  <2> QED
    BY <2>3, <2>4
<1>7. CASE UpdateReread(r)
  <2>1. h.pc = "UpdateReread" /\ h.op = "update"
    BY <1>0, <1>7 DEF UpdateReread, At, Handler
  <2>2. CASE h.kind = "schedules" \/ h.id \in DOMAIN tables[h.kind]
    <3>1. Handle(r, Answer(h, "data"))
      BY <1>7, <2>2 DEF UpdateReread, Read
    <3>2. Answer(h, "data").pc = "Answer" /\ Triggers(Answer(h, "data"))
      BY <1>0, <2>1, Done
    <3> QED
      BY <1>1, <1>3, <3>1, <3>2
  <2>3. CASE ~(h.kind = "schedules" \/ h.id \in DOMAIN tables[h.kind])
    <3>1. ~Dirty(h)
      BY <2>1, <2>3 DEF Dirty
    <3>2. UNCHANGED tables /\ \E x : Handle(r, x)
      BY <1>7 DEF UpdateReread, Read
    <3> QED
      BY <1>1, <1>2, <3>1, <3>2
  <2> QED
    BY <2>2, <2>3
<1>8. CASE DeleteRow(r)
  <2>1. h.pc = "Delete" /\ h.op = "delete"
    BY <1>0, <1>8 DEF DeleteRow, At, Handler
  <2>2. CASE Refused(h.kind, h.id)
    <3>1. UNCHANGED tables /\ \E x : Handle(r, x)
      BY <1>8, <2>2 DEF DeleteRow
    <3>2. ~Dirty(h)
      BY <2>1 DEF Dirty
    <3> QED
      BY <1>1, <1>2, <3>1, <3>2
  <2>3. CASE ~Refused(h.kind, h.id)
    <3>1. Handle(r, Answer(h, "data"))
      BY <1>8, <2>3 DEF DeleteRow
    <3>2. Answer(h, "data").pc = "Answer" /\ Triggers(Answer(h, "data"))
      BY <1>0, <2>1, Done
    <3> QED
      BY <1>1, <1>3, <3>1, <3>2
  <2> QED
    BY <2>2, <2>3
<1> QED
  BY <1>4, <1>5, <1>6, <1>7, <1>8

LEMMA FetchListing ==
  ASSUME TypeOK, ReadNow, NEW f \in fetches, FetchRead(f) \/ FetchArrive(f), NEW k \in Kinds,
         Unwritten \/ Asked(k) \/ Settled(k)
  PROVE  (Unwritten \/ Asked(k) \/ Settled(k))'
<1>1. f \in Fetches /\ fetches \subseteq Fetches /\ lists \in [Kinds -> Table]
  BY DEF TypeOK, ClientTypes
<1>2. UNCHANGED <<tables, req>>
  BY DEF FetchRead, FetchArrive
<1>3. Listed(k)' = Listed(k)
  BY <1>2, ListedKept
<1>4. Unwritten => Unwritten'
  BY <1>2 DEF Unwritten, Dirty
<1>5. CASE FetchRead(f)
  <2> DEFINE rows == [j \in f.kinds |-> Listed(j)]
             g == [f EXCEPT !.read = TRUE, !.rows = rows]
  <2>1. fetches' = (fetches \ {f}) \cup {g} /\ lists' = lists /\ ~f.read
    BY <1>5 DEF FetchRead
  <2>2. g.read /\ g.kinds = f.kinds /\ g.rows = rows
    <3> HIDE DEF rows
    <3> QED
      BY <1>1 DEF Fetches
  <2>3. k \in f.kinds => g.rows[k] = Listed(k)
    BY <2>2
  <2> HIDE DEF g, rows
  <2>4. CASE \E e \in fetches : e # f /\ ~e.read /\ k \in e.kinds
    BY <2>1, <2>4 DEF Asked
  <2>5. CASE Asked(k) /\ ~\E e \in fetches : e # f /\ ~e.read /\ k \in e.kinds
    <3>1. k \in f.kinds
      BY <2>5 DEF Asked
    <3>2. \A e \in fetches : e.read /\ k \in e.kinds => e.rows[k] = Listed(k)
      BY <2>1, <3>1 DEF ReadNow
    <3> QED
      BY <1>3, <2>1, <2>2, <2>3, <3>1, <3>2 DEF Settled
  <2>6. CASE ~Asked(k) /\ Settled(k)
    <3>1. k \notin f.kinds
      BY <2>1, <2>6 DEF Asked
    <3> QED
      BY <1>3, <2>1, <2>2, <2>6, <3>1 DEF Settled
  <2> QED
    BY <1>4, <2>4, <2>5, <2>6
<1>6. CASE FetchArrive(f)
  <2>1. fetches' = fetches \ {f} /\ f.read
        /\ lists' = [j \in Kinds |-> IF j \in f.kinds THEN f.rows[j] ELSE lists[j]]
    BY <1>6 DEF FetchArrive
  <2>2. CASE Asked(k)
    BY <2>1, <2>2 DEF Asked
  <2>3. CASE Settled(k)
    <3>1. k \in f.kinds => lists'[k] = Listed(k)
      BY <2>1, <2>3 DEF Settled
    <3>2. k \notin f.kinds => lists'[k] = lists[k]
      BY <2>1
    <3> QED
      BY <1>3, <2>1, <2>3, <3>1, <3>2 DEF Settled
  <2> QED
    BY <1>4, <2>2, <2>3
<1> QED
  BY <1>5, <1>6

\* The steps that neither write nor fetch.
LEMMA ClientCalm ==
  ASSUME TypeOK,
         \/ OpenAny \/ Close \/ Faded \/ TypeRoute \/ TypeSchedule \/ TypeTrip \/ TypeBus
         \/ Ask \/ Decline \/ \E r \in Requests : Use(r)
  PROVE  /\ UNCHANGED <<tables, panel, lists, fetches>>
         /\ Unwritten => Unwritten'
<1>1. CASE OpenAny
  BY <1>1, Opens DEF Open, Unwritten, Dirty
<1>2. CASE Close \/ Faded \/ Ask \/ Decline
  BY <1>2 DEF Close, Faded, Ask, Decline, Unwritten, Dirty
<1>3. CASE TypeRoute \/ TypeSchedule \/ TypeTrip \/ TypeBus
  BY <1>3 DEF TypeRoute, TypeSchedule, TypeTrip, TypeBus, Type, Unwritten, Dirty
<1>4. ASSUME NEW r \in Requests, Use(r)
      PROVE  /\ UNCHANGED <<tables, panel, lists, fetches>>
             /\ Unwritten => Unwritten'
  <2>1. /\ UNCHANGED <<tables, panel, lists, fetches>>
        /\ \E x : req[r] = Idle /\ req' = [req EXCEPT ![r] = x]
    <3>1. CASE SubmitRoute(r) \/ SubmitSchedule(r) \/ SubmitTrip(r) \/ SubmitBus(r)
      BY <3>1, SubmitTypes DEF client
    <3>2. CASE SubmitStaff(r) \/ Confirm(r) \/ DeleteComplaint(r)
      BY <3>2, ClickTypes
    <3> QED
      BY <1>4, <3>1, <3>2 DEF Use
  <2>2. ~Dirty(req[r])
    BY <2>1 DEF Dirty, Idle
  <2> QED
    BY <2>1, <2>2, NotMine
<1> QED
  BY <1>1, <1>2, <1>3, <1>4

\* A step adds to the GETs only ones that are not read yet, or one that is read now.
LEMMA FetchesAdded ==
  ASSUME TypeOK, Next, ~Elsewhere, NEW g \in fetches', g \notin fetches
  PROVE  ~g.read \/ (UNCHANGED tables /\ \A k \in g.kinds : g.rows[k] = Listed(k))
<1>1. ASSUME NEW kinds, g \in Fetch(kinds) PROVE ~g.read
  BY <1>1 DEF Fetch
<1>2. CASE Show
  BY <1>1, <1>2 DEF Show
<1>3. CASE OpenAny \/ Close \/ Faded \/ TypeRoute \/ TypeSchedule \/ TypeTrip \/ TypeBus
           \/ Ask \/ Decline \/ \E r \in Requests : Use(r)
  BY <1>3, ClientCalm
<1>4. ASSUME NEW r \in Requests, Reply(r) PROVE ~g.read
  BY <1>1, <1>4 DEF Reply
<1>5. ASSUME NEW r \in Requests,
             AddCheck(r) \/ AddSave(r) \/ UpdateFind(r) \/ UpdateWrite(r) \/ UpdateReread(r)
             \/ DeleteRow(r) \/ Fail(r)
      PROVE  FALSE
  BY <1>5 DEF AddCheck, AddSave, UpdateFind, UpdateWrite, UpdateReread, DeleteRow, Fail, Read, Handle,
              client
<1>6. ASSUME NEW f \in fetches, FetchArrive(f) \/ FetchFail(f) PROVE FALSE
  BY <1>6 DEF FetchArrive, FetchFail
<1>7. ASSUME NEW f \in fetches, FetchRead(f)
      PROVE  UNCHANGED tables /\ \A k \in g.kinds : g.rows[k] = Listed(k)
  <2> DEFINE rows == [j \in f.kinds |-> Listed(j)]
  <2>1. g = [f EXCEPT !.read = TRUE, !.rows = rows] /\ UNCHANGED tables
    BY <1>7 DEF FetchRead
  <2>2. g.kinds = f.kinds /\ g.rows = rows
    <3> HIDE DEF rows
    <3> QED
      BY <2>1 DEF TypeOK, ClientTypes, Fetches
  <2> QED
    BY <2>1, <2>2
<1> QED
  BY <1>2, <1>3, <1>4, <1>5, <1>6, <1>7 DEF Next, OpenAny, Serve

LEMMA ListingStep ==
  ASSUME TypeOK, TypeOK', Listing, Next, Record
  PROVE  Listing'
<1> SUFFICES ASSUME Kept({"list"})'
             PROVE  ReadNow' /\ \A k \in Needs(panel') : (Unwritten \/ Asked(k) \/ Settled(k))'
  BY DEF Listing, Needs
<1>1. InOrder /\ NoLoss /\ ~Elsewhere /\ ReadNow
      /\ \A k \in Needs(panel) : Unwritten \/ Asked(k) \/ Settled(k)
  BY StillList DEF Listing
<1>2. panel \in Panels /\ panel' \in Panels /\ req \in [Requests -> Handler]
  BY DEF TypeOK, ClientTypes
<1>3. ReadNow'
  <2> SUFFICES ASSUME NEW f \in fetches', NEW g \in fetches', f.read, ~g.read, NEW k \in f.kinds \cap g.kinds
               PROVE  f.rows[k] = Listed(k)'
    BY DEF ReadNow
  <2>1. f \notin fetches
    BY <1>1 DEF InOrder
  <2>2. UNCHANGED tables /\ f.rows[k] = Listed(k)
    BY <1>1, <2>1, FetchesAdded
  <2> QED
    BY <2>2, ListedKept
<1>4. ASSUME UNCHANGED <<tables, panel, lists, fetches>>, Unwritten => Unwritten', NEW k \in Needs(panel')
      PROVE  (Unwritten \/ Asked(k) \/ Settled(k))'
  BY <1>1, <1>4, Carry
<1> SUFFICES ASSUME NEW k \in Needs(panel') PROVE (Unwritten \/ Asked(k) \/ Settled(k))'
  BY <1>3
<1>5. CASE Show
  <2>1. Fetch(Mounts(panel')) \subseteq fetches' /\ k \in Mounts(panel')
    BY <1>2, <1>5, PanelNeeds DEF Show
  <2> QED
    BY <2>1 DEF Fetch, Asked
<1>6. CASE OpenAny \/ Close \/ Faded \/ TypeRoute \/ TypeSchedule \/ TypeTrip \/ TypeBus
           \/ Ask \/ Decline \/ \E r \in Requests : Use(r)
  BY <1>4, <1>6, ClientCalm
<1>7. ASSUME NEW r \in Requests,
             AddCheck(r) \/ AddSave(r) \/ UpdateFind(r) \/ UpdateWrite(r) \/ UpdateReread(r)
             \/ DeleteRow(r)
      PROVE  (Unwritten \/ Asked(k) \/ Settled(k))'
  BY <1>4, <1>7, ServerWrites
<1>8. ASSUME NEW r \in Requests, Reply(r) PROVE (Unwritten \/ Asked(k) \/ Settled(k))'
  <2>1. UNCHANGED <<tables, panel, lists>> /\ At(r, "Answer") /\ req' = [req EXCEPT ![r] = Idle]
    BY <1>8 DEF Reply
  <2>2. CASE Triggers(req[r])
    <3>1. Fetch(Needs(panel)) \subseteq fetches'
      BY <1>8, <2>1, <2>2 DEF Reply
    <3> QED
      BY <2>1, <3>1 DEF Fetch, Asked
  <2>3. CASE ~Triggers(req[r])
    <3>1. fetches' = fetches
      BY <1>8, <2>3 DEF Reply
    <3>2. ~Dirty(req[r])
      BY <2>1, <2>3 DEF Dirty, At
    <3> QED
      BY <1>4, <2>1, <3>1, <3>2, NotMine
  <2> QED
    BY <2>2, <2>3
<1>9. ASSUME NEW f \in fetches, FetchRead(f) \/ FetchArrive(f)
      PROVE  (Unwritten \/ Asked(k) \/ Settled(k))'
  <2>1. panel' = panel /\ k \in Kinds
    BY <1>2, <1>9, PanelNeeds DEF FetchRead, FetchArrive
  <2> QED
    BY <1>1, <1>9, <2>1, FetchListing
<1> QED
  BY <1>1, <1>5, <1>6, <1>7, <1>8, <1>9 DEF Next, OpenAny, Serve, NoLoss

LEMMA ListingInit == Init => Listing
<1> SUFFICES ASSUME Init PROVE ReadNow /\ \A k \in Needs(panel) : Settled(k)
  BY DEF Listing
<1>r. ReadNow
  BY DEF Init, ReadNow
<1> SUFFICES ASSUME NEW k \in Needs(panel) PROVE Settled(k)
  BY <1>r
<1>0. TypeOK
  BY TypeInit
<1>1. fetches = {} /\ panel \in Panels
  BY DEF Init
<1>2. k \in Kinds /\ lists[k] = tables[k]
  BY <1>1, PanelNeeds DEF Init
<1>3. Listed(k) = tables[k]
  <2>1. CASE k # "trips"
    BY <2>1 DEF Listed
  <2>2. CASE k = "trips"
    <3>1. Seats # {}
      BY DashboardAssumption DEF Seats
    <3>2. DOMAIN tables.trips = {1} /\ tables.trips[1].bus = 1 /\ tables.buses[1].free = Seats
      BY DEF Init, Kinds, Forms
    <3>3. {t \in DOMAIN tables.trips : tables.buses[tables.trips[t].bus].free # {}} = {1}
      BY <3>1, <3>2
    <3>4. tables.trips \in Table
      BY <1>0, <1>2, <2>2 DEF TypeOK
    <3>5. Restrict(tables.trips, {1}) = tables.trips
      BY <3>2, <3>4, TableEntry DEF Restrict
    <3> QED
      BY <2>2, <3>3, <3>5 DEF Listed
  <2> QED
    BY <2>1, <2>2
<1> QED
  BY <1>1, <1>2, <1>3 DEF Settled

ListInv == TypeOK /\ Listing

LEMMA ListInvStep ==
  ASSUME ListInv, [Next /\ Record]_<<vars, opened, broken>>
  PROVE  ListInv'
<1>1. CASE Next /\ Record
  BY <1>1, TypeStep, ListingStep DEF ListInv
<1>2. CASE UNCHANGED <<vars, opened, broken>>
  <2>1. TypeOK'
    BY <1>2, TypeStep DEF ListInv
  <2>2. UNCHANGED <<tables, panel, lists, fetches, req, broken>>
    BY <1>2 DEF vars, client
  <2>3. Unwritten' = Unwritten
    BY <2>2 DEF Unwritten, Dirty
  <2>4. \A k : Listed(k)' = Listed(k)
    BY <2>2, ListedKept
  <2>5. ReadNow => ReadNow'
    BY <2>2, <2>4 DEF ReadNow
  <2>6. ASSUME NEW k, Unwritten \/ Asked(k) \/ Settled(k)
        PROVE (Unwritten \/ Asked(k) \/ Settled(k))'
    BY <2>2, <2>3, <2>6, Carry
  <2> QED
    BY <2>1, <2>2, <2>5, <2>6 DEF ListInv, Listing, Kept, Needs
<1> QED
  BY <1>1, <1>2

\* Once all requests are answered the lists of the panel are the tables, for any
\* tables, any number of requests and whatever panel was shown when they were sent,
\* while answers come, and in order, and nobody else writes.
THEOREM ListsAreTables == DisciplineSpec => []ListTrue
<1>1. DisciplineInit => ListInv
  BY TypeInit, ListingInit DEF DisciplineInit, ListInv
<1>2. ListInv /\ [Next /\ Record]_<<vars, opened, broken>> => ListInv'
  BY ListInvStep
<1>3. ListInv => ListTrue
  <2> SUFFICES ASSUME ListInv, Kept({"list"}), fetches = {}, \A r \in Requests : req[r] = Idle,
                      NEW k \in Needs(panel)
               PROVE  lists[k] = Listed(k)
    BY DEF ListTrue
  <2>1. ~Unwritten
    BY DEF Unwritten, Dirty, Idle
  <2> QED
    BY <2>1 DEF ListInv, Listing, Asked, Settled
<1> QED
  BY <1>1, <1>2, <1>3, PTL DEF DisciplineSpec

-----------------------------------------------------------------------------
(* The form that is open is the one that was opened, and waits for its answer. *)

\* The form has the id of what it was given.
FormOf == form.id = Filled(panel, Given(panel, current, selected), dialog.add).id

Opened == opened \in [kind : Panels \cup {"none"}, id : Nat, done : BOOLEAN, sent : SUBSET Requests]

Own == Kept({"form"}) =>
    /\ dialog.open => /\ opened.kind = panel /\ panel # "complaints"
                      /\ panel \in Forms => form.id = opened.id
    /\ form.closing => dialog.open /\ opened.done /\ panel \in {"trips", "buses"}
    /\ \A r \in Pending :
          dialog.open /\ r \in opened.sent /\ ~form.closing /\ req[r].kind = panel
    /\ \A r, q \in Pending : r = q

FormInv == TypeOK /\ clicks \in Nat /\ FormOf /\ Opened /\ Own

LEMMA StillForm ==
  ASSUME Record, Kept({"form"})'
  PROVE  Kept({"form"}) /\ NoBack /\ OneSend /\ Waits /\ NoAbandon
BY DEF Record, Kept, Breaks

\* The other steps leave the form, or reset its fields only.
LEMMA FormOfStep ==
  ASSUME TypeOK, FormOf, Next
  PROVE  FormOf'
<1>1. form \in Form /\ current \in Object /\ selected \in Object /\ dialog \in [open : BOOLEAN, add : BOOLEAN]
  BY DEF TypeOK, ClientTypes
<1>2. ASSUME UNCHANGED <<panel, current, selected>>, dialog'.add = dialog.add, form'.id = form.id
      PROVE  FormOf'
  BY <1>2 DEF FormOf, Given, Filled
<1>3. CASE Show
  <2>1. PICK p \in Panels :
          /\ panel' = p /\ selected' = NoEntity
          /\ form' = Filled(p, Given(p, current, NoEntity), dialog.add)
          /\ UNCHANGED <<dialog, current>>
    BY <1>3 DEF Show
  <2> QED
    BY <2>1 DEF FormOf, Given, Filled
<1>4. ASSUME NEW add \in BOOLEAN, NEW c \in Object, NEW s \in Object, Open(add, c, s)
      PROVE  FormOf'
  <2> DEFINE filled == Filled(panel, Given(panel, c, s), add)
  <2>1. panel' = panel /\ current' = c /\ selected' = s /\ dialog'.add = add
    BY <1>4 DEF Open
  <2>2. filled' = Filled(panel, Given(panel, current, selected), dialog.add)'
    BY <2>1
  <2>3. CASE add # dialog.add \/ Given(panel, c, s) # Given(panel, current, selected)
    <3>1. form' = [filled EXCEPT !.closing = form.closing] /\ filled \in Form
      BY <1>4, <2>3, FilledTyped, GivenTyped DEF Open
    <3>2. form'.id = filled.id
      BY <3>1 DEF Form
    <3> QED
      BY <2>1, <3>2 DEF FormOf, Given, Filled
  <2>4. CASE ~(add # dialog.add \/ Given(panel, c, s) # Given(panel, current, selected))
    <3>1. form' = form /\ filled = Filled(panel, Given(panel, current, selected), dialog.add)
      BY <1>4, <2>4 DEF Open
    <3> QED
      BY <2>1, <3>1 DEF FormOf, Given, Filled
  <2> QED
    BY <2>3, <2>4
<1>5. CASE OpenAny
  BY <1>4, <1>5, Opens
<1>6. CASE Close \/ Faded \/ Ask \/ Decline
  BY <1>1, <1>2, <1>6 DEF Close, Faded, Ask, Decline, Form
<1>7. CASE TypeRoute \/ TypeSchedule \/ TypeTrip \/ TypeBus
  BY <1>1, <1>2, <1>7 DEF TypeRoute, TypeSchedule, TypeTrip, TypeBus, Type, Form
<1>8. ASSUME NEW r \in Requests, Use(r) PROVE FormOf'
  <2>1. CASE SubmitRoute(r) \/ SubmitSchedule(r) \/ SubmitTrip(r) \/ SubmitBus(r)
    BY <1>2, <2>1, SubmitTypes DEF client
  <2>2. CASE SubmitStaff(r) \/ Confirm(r) \/ DeleteComplaint(r)
    BY <1>2, <2>2, ClickTypes
  <2> QED
    BY <1>8, <2>1, <2>2 DEF Use
<1>9. ASSUME NEW r \in Requests, Serve(r) PROVE FormOf'
  <2>1. CASE Reply(r)
    BY <1>1, <1>2, <2>1 DEF Reply, Form
  <2>2. CASE ~Reply(r)
    <3>1. UNCHANGED client
      BY <1>9, <2>2 DEF Serve, AddCheck, AddSave, UpdateFind, UpdateWrite, UpdateReread, DeleteRow, Fail,
                        Read, Handle
    <3> QED
      BY <1>2, <3>1 DEF client
  <2> QED
    BY <2>1, <2>2
<1>10. ASSUME NEW f \in fetches, FetchRead(f) \/ FetchFail(f) PROVE FormOf'
  BY <1>2, <1>10 DEF FetchRead, FetchFail
<1>11. ASSUME NEW f \in fetches, FetchArrive(f) PROVE FormOf'
  <2>1. f.kinds \in SUBSET Kinds
    BY DEF TypeOK, ClientTypes, Fetches
  <2>2. UNCHANGED <<panel, dialog, form>>
        /\ current' = Stale(current, f.kinds) /\ selected' = Stale(selected, f.kinds)
    BY <1>11 DEF FetchArrive
  <2> DEFINE e == Given(panel, current, selected)
             x == Given(panel, current', selected')
  <2>3. x = Stale(e, f.kinds) /\ e \in Object
    BY <1>1, <2>2, GivenTyped DEF Given
  <2>4. x \in Object /\ x.id = e.id /\ (x = NoEntity <=> e = NoEntity)
    <3> HIDE DEF e, x
    <3> QED
      BY <2>1, <2>3, StaleTyped
  <2>5. Filled(panel, x, dialog.add).id = Filled(panel, e, dialog.add).id
    <3> HIDE DEF e, x
    <3>1. dialog.add \in BOOLEAN
      BY <1>1
    <3>2. CASE panel \in Forms /\ e # NoEntity /\ ~dialog.add
      BY <2>3, <2>4, <3>1, <3>2, FilledTyped
    <3>3. CASE ~(panel \in Forms /\ e # NoEntity /\ ~dialog.add)
      BY <2>3, <2>4, <3>1, <3>3, FilledTyped
    <3> QED
      BY <3>2, <3>3
  <2>6. FormOf' <=> form'.id = Filled(panel', Given(panel', current', selected'), dialog'.add).id
    BY DEF FormOf, Given, Filled
  <2> QED
    BY <2>2, <2>5, <2>6 DEF FormOf
<1>12. CASE Elsewhere
  BY <1>2, <1>12 DEF Elsewhere, client
<1> QED
  BY <1>3, <1>5, <1>6, <1>7, <1>8, <1>9, <1>10, <1>11, <1>12 DEF Next, OpenAny

LEMMA OpeningOpens ==
  ASSUME TypeOK, Next, Opening, dialog.open => panel # "complaints"
  PROVE  OpenAny
<1>1. ~dialog.open /\ dialog'.open /\ panel' = panel
  BY DEF Opening, Overlay
<1>2. ~(Show \/ Close \/ Faded \/ Ask \/ Decline)
  BY <1>1 DEF Show, Close, Faded, Ask, Decline, TypeOK, ClientTypes
<1>3. ~(TypeRoute \/ TypeSchedule \/ TypeTrip \/ TypeBus)
  BY <1>1 DEF TypeRoute, TypeSchedule, TypeTrip, TypeBus, Type
<1>4. ASSUME NEW r \in Requests, Use(r) PROVE FALSE
  <2>1. CASE SubmitRoute(r) \/ SubmitSchedule(r) \/ SubmitTrip(r) \/ SubmitBus(r)
    BY <1>1, <2>1, SubmitTypes
  <2>2. CASE SubmitStaff(r) \/ Confirm(r) \/ DeleteComplaint(r)
    BY <1>1, <2>2, ClickTypes
  <2> QED
    BY <1>4, <2>1, <2>2 DEF Use
<1>5. ASSUME NEW r \in Requests, Serve(r) PROVE FALSE
  <2>1. CASE Reply(r)
    BY <1>1, <2>1 DEF Reply, TypeOK, ClientTypes
  <2>2. CASE ~Reply(r)
    BY <1>1, <1>5, <2>2 DEF Serve, AddCheck, AddSave, UpdateFind, UpdateWrite, UpdateReread, DeleteRow,
                            Fail, Read, Handle, client
  <2> QED
    BY <2>1, <2>2
<1>6. ASSUME NEW f \in fetches, FetchRead(f) \/ FetchArrive(f) \/ FetchFail(f) PROVE FALSE
  BY <1>1, <1>6 DEF FetchRead, FetchArrive, FetchFail
<1>7. ~Elsewhere
  BY <1>1 DEF Elsewhere, client
<1> QED
  BY <1>2, <1>3, <1>4, <1>5, <1>6, <1>7 DEF Next, OpenAny

\* What is recorded when a form opens, ...
LEMMA RecordOpening ==
  ASSUME Record, Opening
  PROVE  /\ opened'.kind = panel /\ opened'.done = FALSE /\ opened'.sent = {}
         /\ opened'.id = IF dialog'.add THEN 0 ELSE Given(panel, current', selected').id
BY DEF Record

\* ... and by the other steps.
LEMMA RecordLater ==
  ASSUME Record, ~Opening, Opened
  PROVE  /\ opened'.kind = opened.kind /\ opened'.id = opened.id
         /\ opened'.done = (opened.done \/ Close \/ \E r \in opened.sent : Reply(r))
         /\ opened'.sent = (opened.sent \cup {r \in Requests : Submitted(r)})
                               \ {r \in Requests : Reply(r)}
<1> DEFINE done == opened.done \/ Close \/ \E r \in opened.sent : Reply(r)
           sent == (opened.sent \cup {r \in Requests : Submitted(r)}) \ {r \in Requests : Reply(r)}
<1>1. opened' = [opened EXCEPT !.done = done, !.sent = sent]
  BY DEF Record
<1> HIDE DEF done, sent
<1>2. /\ opened'.kind = opened.kind /\ opened'.id = opened.id
      /\ opened'.done = done /\ opened'.sent = sent
  BY <1>1 DEF Opened
<1> QED
  BY <1>2 DEF done, sent

LEMMA OpenedStep ==
  ASSUME TypeOK, TypeOK', Opened, Record
  PROVE  Opened'
<1>1. CASE Opening
  <2>1. /\ panel \in Panels /\ dialog' \in [open : BOOLEAN, add : BOOLEAN]
        /\ current' \in Object /\ selected' \in Object
    BY DEF TypeOK, ClientTypes
  <2>2. Given(panel, current', selected').id \in Nat
    BY <2>1, GivenTyped DEF Object
  <2>3. opened' = [kind |-> panel, done |-> FALSE, sent |-> {},
                   id |-> IF dialog'.add THEN 0 ELSE Given(panel, current', selected').id]
    BY <1>1 DEF Record
  <2> QED
    BY <2>1, <2>2, <2>3 DEF Opened
<1>2. CASE ~Opening
  <2> DEFINE done == opened.done \/ Close \/ \E r \in opened.sent : Reply(r)
             sent == (opened.sent \cup {r \in Requests : Submitted(r)}) \ {r \in Requests : Reply(r)}
  <2>1. opened' = [opened EXCEPT !.done = done, !.sent = sent]
    BY <1>2 DEF Record
  <2>2. done \in BOOLEAN /\ sent \in SUBSET Requests
    BY DEF Opened
  <2> HIDE DEF done, sent
  <2> QED
    BY <2>1, <2>2 DEF Opened
<1> QED
  BY <1>1, <1>2

\* A request that is pending stays recorded.
LEMMA SentKept ==
  ASSUME TypeOK, Record, ~Opening, Opened, NEW r \in Requests, r \in opened.sent \/ Submitted(r),
         req'[r].op # "none"
  PROVE  r \in opened'.sent
<1>1. ~Reply(r)
  BY DEF Reply, Idle, TypeOK
<1> QED
  BY <1>1, RecordLater

\* What most steps leave of it.
Still ==
    /\ UNCHANGED <<panel, dialog>> /\ form'.id = form.id /\ form'.closing = form.closing
    /\ \A r \in Requests : \/ req'[r].op = req[r].op /\ req'[r].kind = req[r].kind
                           \/ req[r] = Idle /\ req'[r].op = "delete"

LEMMA StillSteps ==
  ASSUME TypeOK,
         \/ TypeRoute \/ TypeSchedule \/ TypeTrip \/ TypeBus \/ Ask \/ Decline
         \/ \E r \in Requests :
               \/ AddCheck(r) \/ AddSave(r) \/ UpdateFind(r) \/ UpdateWrite(r) \/ UpdateReread(r)
               \/ DeleteRow(r) \/ Fail(r) \/ Confirm(r) \/ DeleteComplaint(r)
         \/ \E f \in fetches : FetchRead(f) \/ FetchArrive(f) \/ FetchFail(f)
         \/ Elsewhere
  PROVE  Still
<1>1. form \in Form /\ req \in [Requests -> Handler]
  BY DEF TypeOK, ClientTypes
<1>2. CASE TypeRoute \/ TypeSchedule \/ TypeTrip \/ TypeBus
  BY <1>1, <1>2 DEF TypeRoute, TypeSchedule, TypeTrip, TypeBus, Type, Form, Still
<1>3. CASE Ask \/ Decline \/ Elsewhere \/ \E f \in fetches : FetchRead(f) \/ FetchArrive(f) \/ FetchFail(f)
  BY <1>3 DEF Ask, Decline, Elsewhere, FetchRead, FetchArrive, FetchFail, Still, client
<1>4. ASSUME NEW r \in Requests,
             \/ AddCheck(r) \/ AddSave(r) \/ UpdateFind(r) \/ UpdateWrite(r) \/ UpdateReread(r)
             \/ DeleteRow(r) \/ Fail(r)
      PROVE  Still
  <2> DEFINE h == req[r]
             answers == {Answer(h, "data"), Answer(h, "nothing"), Answer(h, "error")}
             on == {[h EXCEPT !.pc = "AddSave"], [h EXCEPT !.pc = "UpdateWrite"],
                    [h EXCEPT !.pc = "UpdateReread"]}
  <2>1. \E x \in answers \cup on : req' = [req EXCEPT ![r] = x] /\ UNCHANGED client
    <3>1. CASE AddCheck(r)
      BY <3>1 DEF AddCheck, Read, Handle
    <3>2. CASE AddSave(r)
      BY <3>2 DEF AddSave, Handle
    <3>3. CASE UpdateFind(r)
      BY <3>3 DEF UpdateFind, Read, Handle
    <3>4. CASE UpdateWrite(r)
      BY <3>4 DEF UpdateWrite, Handle
    <3>5. CASE UpdateReread(r)
      BY <3>5 DEF UpdateReread, Read, Handle
    <3>6. CASE DeleteRow(r)
      BY <3>6 DEF DeleteRow, Handle
    <3>7. CASE Fail(r)
      BY <3>7 DEF Fail, Read, Handle
    <3> QED
      BY <1>4, <3>1, <3>2, <3>3, <3>4, <3>5, <3>6, <3>7
  <2>2. \A x \in answers \cup on : x.op = h.op /\ x.kind = h.kind
    BY <1>1 DEF Answer, Handler, Handlers
  <2> HIDE DEF h, answers, on
  <2>3. \E x : req' = [req EXCEPT ![r] = x] /\ UNCHANGED client /\ x.op = h.op /\ x.kind = h.kind
    BY <2>1, <2>2
  <2> QED
    BY <1>1, <2>3 DEF Still, client, h
<1>5. ASSUME NEW r \in Requests, Confirm(r) \/ DeleteComplaint(r) PROVE Still
  <2>1. /\ UNCHANGED <<panel, dialog, form>>
        /\ \E x : req[r] = Idle /\ req' = [req EXCEPT ![r] = x] /\ x.op = "delete"
    <3>1. ~SubmitStaff(r)
      BY <1>5 DEF SubmitStaff, Confirm, DeleteComplaint, ComplaintsShown
    <3> QED
      BY <1>5, <3>1, ClickTypes
  <2> QED
    BY <1>1, <2>1 DEF Still
<1> QED
  BY <1>2, <1>3, <1>4, <1>5

LEMMA StillOwn ==
  ASSUME TypeOK, Opened, Own, Kept({"form"}), Record, ~Opening, Still
  PROVE  Own'
<1>1. /\ dialog.open => /\ opened.kind = panel /\ panel # "complaints"
                        /\ panel \in Forms => form.id = opened.id
      /\ form.closing => dialog.open /\ opened.done /\ panel \in {"trips", "buses"}
      /\ \A r \in Pending :
            dialog.open /\ r \in opened.sent /\ ~form.closing /\ req[r].kind = panel
      /\ \A r, q \in Pending : r = q
  BY DEF Own
<1>2. Pending' = Pending
  BY DEF Still, Pending, Idle
<1>3. \A r \in Pending : r \in opened'.sent
  <2> TAKE r \in Pending
  <2>1. req'[r].op # "none"
    BY <1>2 DEF Pending
  <2> QED
    BY <1>1, <2>1, SentKept DEF Pending
<1>4. opened'.kind = opened.kind /\ opened'.id = opened.id /\ (opened.done => opened'.done)
  BY RecordLater
<1>5. \A r \in Pending' : req'[r].kind = req[r].kind
  BY DEF Still, Pending, Idle
<1>6. panel' = panel /\ dialog' = dialog /\ form'.id = form.id /\ form'.closing = form.closing
  BY DEF Still
<1> QED
  BY <1>1, <1>2, <1>3, <1>4, <1>5, <1>6 DEF Own

\* A form that opens was not open, so that nothing is pending.
LEMMA OpeningOwn ==
  ASSUME TypeOK, TypeOK', FormOf', Own, Kept({"form"}), Record, Opening, OpenAny
  PROVE  Own'
<1>1. PICK add \in BOOLEAN, c \in Object, s \in Object :
        /\ Open(add, c, s) /\ panel # "complaints"
        /\ ~add /\ panel \in Forms => \E i \in DOMAIN lists[panel] :
              Given(panel, c, s) = Entity(panel, i, lists[panel][i])
  BY Opens
<1>2. ~dialog.open /\ panel # "complaints" /\ Pending = {} /\ ~form.closing
  BY <1>1 DEF Opening, Overlay, Own
<1>3. /\ panel' = panel /\ req' = req /\ current' = c /\ selected' = s
      /\ dialog' = [open |-> TRUE, add |-> add]
  BY <1>1 DEF Open
<1>4. dialog'.open /\ dialog'.add = add
  BY <1>3
<1>5. ~form'.closing
  <2>1. form \in Form /\ Filled(panel, Given(panel, c, s), add) \in Form
    BY <1>1, FilledTyped, GivenTyped DEF TypeOK, ClientTypes
  <2>2. \/ form' = form
        \/ form' = [Filled(panel, Given(panel, c, s), add) EXCEPT !.closing = form.closing]
    BY <1>1 DEF Open
  <2> QED
    BY <1>2, <2>1, <2>2 DEF Form
<1>6. Pending' = {}
  BY <1>2, <1>3 DEF Pending
<1>7. panel \in Forms => form'.id = opened'.id
  <2> SUFFICES ASSUME panel \in Forms PROVE form'.id = opened'.id
    OBVIOUS
  <2> DEFINE e == Given(panel, c, s)
  <2>1. form'.id = Filled(panel, e, add).id
    BY <1>3, <1>4 DEF FormOf, Filled, Given
  <2>2. opened'.id = IF add THEN 0 ELSE e.id
    BY <1>3, <1>4, RecordOpening
  <2>3. ~add => e # NoEntity
    <3>1. panel \in Kinds
      BY DEF Kinds
    <3> QED
      BY <1>1, <3>1, ListRow, Constants
  <2>4. e \in Object
    BY GivenTyped
  <2> HIDE DEF e
  <2>5. CASE add
    <3>1. Filled(panel, e, add) = Empty
      BY <2>4, <2>5, FilledTyped
    <3>2. Empty.id = 0
      BY DEF Empty
    <3> QED
      BY <2>1, <2>2, <2>5, <3>1, <3>2
  <2>6. CASE ~add
    BY <2>1, <2>2, <2>3, <2>4, <2>6, FilledTyped
  <2> QED
    BY <2>5, <2>6
<1>8. opened'.kind = panel
  BY RecordOpening
<1> QED
  BY <1>2, <1>3, <1>4, <1>5, <1>6, <1>7, <1>8 DEF Own

LEMMA ClosingOwn ==
  ASSUME TypeOK, Opened, Own, Kept({"form"}), Record, ~Opening, Waits, Close \/ Faded
  PROVE  Own'
<1>1. form \in Form /\ dialog \in [open : BOOLEAN, add : BOOLEAN]
  BY DEF TypeOK, ClientTypes
<1>2. /\ dialog.open => /\ opened.kind = panel /\ panel # "complaints"
                        /\ panel \in Forms => form.id = opened.id
      /\ form.closing => dialog.open /\ opened.done /\ panel \in {"trips", "buses"}
      /\ \A r \in Pending : ~form.closing
  BY DEF Own
<1>3. Pending' = {}
  <2>1. Pending = {}
    BY <1>2 DEF Waits, Faded
  <2> QED
    BY <2>1 DEF Pending, Close, Faded
<1>4. /\ opened'.kind = opened.kind /\ opened'.id = opened.id
      /\ opened'.done = (opened.done \/ Close \/ \E r \in opened.sent : Reply(r))
  BY RecordLater
<1>5. CASE Close
  <2>1. opened'.done /\ dialog.open /\ panel' = panel
    BY <1>4, <1>5 DEF Close
  <2>2. \/ form' = [form EXCEPT !.closing = TRUE] /\ dialog' = dialog /\ panel \in {"trips", "buses"}
        \/ form' = form /\ dialog' = [dialog EXCEPT !.open = FALSE] /\ panel \notin {"trips", "buses"}
    BY <1>5 DEF Close
  <2>3. CASE form' = [form EXCEPT !.closing = TRUE] /\ dialog' = dialog /\ panel \in {"trips", "buses"}
    BY <1>1, <1>2, <1>3, <1>4, <2>1, <2>3 DEF Own, Form
  <2>4. CASE form' = form /\ dialog' = [dialog EXCEPT !.open = FALSE] /\ panel \notin {"trips", "buses"}
    <3>1. ~form.closing
      BY <1>2, <2>4
    <3> QED
      BY <1>1, <1>2, <1>3, <1>4, <2>1, <2>4, <3>1 DEF Own
  <2> QED
    BY <2>2, <2>3, <2>4
<1>6. CASE Faded
  <2>1. ~form'.closing /\ ~dialog'.open
    BY <1>1, <1>6 DEF Faded, Form
  <2> QED
    BY <1>3, <2>1 DEF Own
<1> QED
  BY <1>5, <1>6

Sending(r) ==
    SubmitRoute(r) \/ SubmitSchedule(r) \/ SubmitTrip(r) \/ SubmitBus(r) \/ SubmitStaff(r)

LEMMA Steps ==
  ASSUME TypeOK, Next
  PROVE  \/ OpenAny \/ Close \/ Faded \/ Show \/ Still
         \/ \E r \in Requests : Sending(r) \/ Reply(r)
BY StillSteps DEF Next, OpenAny, Use, Serve, Sending

\* A form is sent from the panel it was opened in, for the row it was opened for.
LEMMA Sends ==
  ASSUME TypeOK, NEW r \in Requests, Sending(r)
  PROVE  /\ UNCHANGED <<panel, dialog, form>> /\ dialog.open /\ Submitted(r)
         /\ \A q \in Requests \ {r} : req'[q] = req[q]
         /\ req'[r].kind = panel
         /\ req'[r].op = "update" => panel \in Forms /\ req'[r].id = form.id
<1>1. req \in [Requests -> Handler]
  BY DEF TypeOK
<1>2. CASE SubmitRoute(r) \/ SubmitSchedule(r) \/ SubmitTrip(r) \/ SubmitBus(r)
  <2>1. PICK k \in Forms, x \in Handler :
          /\ dialog.open /\ panel = k /\ UNCHANGED client
          /\ req[r] = Idle /\ req' = [req EXCEPT ![r] = x]
          /\ x.op = IF dialog.add THEN "add" ELSE "update"
          /\ x.kind = k /\ x.id = IF dialog.add THEN 0 ELSE form.id
    BY <1>2, SubmitTypes
  <2> QED
    BY <1>1, <2>1 DEF Submitted, client
<1>3. CASE SubmitStaff(r)
  <2> DEFINE x == [Idle EXCEPT !.pc = "Answer", !.op = "staff", !.kind = "staff", !.answer = "data"]
  <2>1. x.op = "staff" /\ x.kind = "staff"
    BY DEF Idle
  <2>2. /\ req[r] = Idle /\ req' = [req EXCEPT ![r] = x]
        /\ dialog.open /\ panel = "staff" /\ UNCHANGED client
    BY <1>3 DEF SubmitStaff, Start
  <2> HIDE DEF x
  <2> QED
    BY <1>1, <2>1, <2>2 DEF Submitted, client
<1> QED
  BY <1>2, <1>3 DEF Sending

LEMMA SendingOwn ==
  ASSUME TypeOK, Opened, Own, Kept({"form"}), Record, ~Opening, OneSend,
         NEW r \in Requests, Sending(r)
  PROVE  Own'
<1>1. /\ UNCHANGED <<panel, dialog, form>> /\ dialog.open /\ Submitted(r)
      /\ \A q \in Requests \ {r} : req'[q] = req[q]
      /\ req'[r].kind = panel
  BY Sends
<1>2. Pending = {} /\ ~form.closing
  BY <1>1 DEF OneSend
<1>3. Pending' \subseteq {r}
  BY <1>1, <1>2 DEF Pending
<1>4. r \in opened'.sent
  <2>1. req'[r].op # "none"
    BY <1>1 DEF Submitted
  <2> QED
    BY <1>1, <2>1, SentKept
<1>5. opened'.kind = opened.kind /\ opened'.id = opened.id
  BY RecordLater
<1>6. dialog.open => opened.kind = panel /\ panel # "complaints" /\ (panel \in Forms => form.id = opened.id)
  BY DEF Own
<1> QED
  BY <1>1, <1>2, <1>3, <1>4, <1>5, <1>6 DEF Own

LEMMA ShowOwn ==
  ASSUME TypeOK, Opened, Own, Kept({"form"}), NoBack, Show
  PROVE  Own'
<1>1. PICK p \in Panels :
        /\ p # panel /\ panel' = p
        /\ form' = Filled(p, Given(p, current, NoEntity), dialog.add)
        /\ req' = [q \in Requests |-> [req[q] EXCEPT !.here = FALSE]]
        /\ UNCHANGED dialog
  BY DEF Show
<1>2. ~dialog.open /\ Pending = {}
  BY <1>1 DEF NoBack, Own
<1>3. ~form'.closing
  <2>1. Given(p, current, NoEntity) \in Object /\ dialog.add \in BOOLEAN
    BY Constants, GivenTyped DEF TypeOK, ClientTypes
  <2> QED
    BY <1>1, <2>1, FilledTyped
<1>4. Pending' = {}
  <2>1. \A q \in Requests : req'[q].op = req[q].op
    BY <1>1 DEF TypeOK, Handler, Handlers
  <2> QED
    BY <1>2, <2>1 DEF Pending
<1> QED
  BY <1>1, <1>2, <1>3, <1>4 DEF Own

LEMMA ReplyOwn ==
  ASSUME TypeOK, Opened, Own, Kept({"form"}), Record, ~Opening, NEW r \in Requests, Reply(r)
  PROVE  Own'
<1>1. /\ form \in Form /\ dialog \in [open : BOOLEAN, add : BOOLEAN]
      /\ req \in [Requests -> Handler]
  BY DEF TypeOK, ClientTypes
<1>2. /\ dialog.open => /\ opened.kind = panel /\ panel # "complaints"
                        /\ panel \in Forms => form.id = opened.id
      /\ form.closing => dialog.open /\ opened.done /\ panel \in {"trips", "buses"}
      /\ \A q \in Pending :
            dialog.open /\ q \in opened.sent /\ ~form.closing /\ req[q].kind = panel
      /\ \A p, q \in Pending : p = q
  BY DEF Own
<1>3. /\ opened'.kind = opened.kind /\ opened'.id = opened.id
      /\ opened'.done = (opened.done \/ Close \/ \E q \in opened.sent : Reply(q))
  BY RecordLater
<1>4. req' = [req EXCEPT ![r] = Idle] /\ panel' = panel /\ Pending' = Pending \ {r}
  <2>1. req' = [req EXCEPT ![r] = Idle] /\ panel' = panel
    BY DEF Reply
  <2> QED
    BY <1>1, <2>1 DEF Pending, Idle
<1>5. CASE Succeeds(req[r])
  <2>1. r \in Pending
    <3>1. req[r].pc = "Answer" /\ req[r].op # "delete"
      BY <1>5 DEF Reply, At, Succeeds
    <3> QED
      BY <1>1, <3>1 DEF Pending, Handler, Handlers
  <2>2. Pending' = {} /\ opened'.done /\ dialog.open /\ ~form.closing /\ req[r].kind = panel
    BY <1>2, <1>3, <1>4, <2>1
  <2>3. CASE panel \in {"trips", "buses"}
    <3>1. dialog' = dialog /\ form'.id = form.id
      BY <1>1, <2>2, <2>3 DEF Reply, Form
    <3> QED
      BY <1>2, <1>3, <1>4, <2>2, <2>3, <3>1 DEF Own
  <2>4. CASE panel \notin {"trips", "buses"}
    <3>1. ~dialog'.open /\ form' = form
      BY <1>1, <1>5, <2>2, <2>4 DEF Reply
    <3> QED
      BY <2>2, <3>1 DEF Own
  <2> QED
    BY <2>3, <2>4
<1>6. CASE ~Succeeds(req[r])
  <2>1. dialog' = dialog /\ form' = form
    BY <1>6 DEF Reply
  <2>2. \A q \in Pending' : req'[q] = req[q] /\ q \in opened'.sent
    <3> TAKE q \in Pending'
    <3>1. q \in Pending /\ q # r /\ req'[q] = req[q] /\ req'[q].op # "none" /\ q \in Requests
      BY <1>1, <1>4 DEF Pending
    <3> QED
      BY <1>2, <3>1, SentKept
  <2> QED
    BY <1>2, <1>3, <1>4, <2>1, <2>2 DEF Own
<1> QED
  BY <1>5, <1>6

LEMMA Counted ==
  ASSUME TypeOK, clicks \in Nat, Next
  PROVE  clicks' \in Nat
<1>1. CASE OpenAny
  BY <1>1, Opens DEF Open, Count
<1>2. CASE Show \/ Close \/ Faded \/ Ask \/ Decline
  BY <1>2 DEF Show, Close, Faded, Ask, Decline, Count
<1>3. CASE TypeRoute \/ TypeSchedule \/ TypeTrip \/ TypeBus
  BY <1>3 DEF TypeRoute, TypeSchedule, TypeTrip, TypeBus, Type
<1>4. ASSUME NEW r \in Requests, Use(r) PROVE clicks' \in Nat
  BY <1>4 DEF Use, SubmitRoute, SubmitSchedule, SubmitTrip, SubmitBus, Submit, SubmitStaff, Confirm,
              DeleteComplaint, Count
<1>5. ASSUME NEW r \in Requests, Serve(r) PROVE clicks' \in Nat
  BY <1>5 DEF Serve, AddCheck, AddSave, UpdateFind, UpdateWrite, UpdateReread, DeleteRow, Fail, Reply,
              Read, Handle
<1>6. ASSUME NEW f \in fetches, FetchRead(f) \/ FetchArrive(f) \/ FetchFail(f) PROVE clicks' \in Nat
  BY <1>6 DEF FetchRead, FetchArrive, FetchFail
<1>7. CASE Elsewhere
  <2>1. Count
    BY <1>7 DEF Elsewhere
  <2> QED
    BY <2>1 DEF Count
<1> QED
  BY <1>1, <1>2, <1>3, <1>4, <1>5, <1>6, <1>7 DEF Next, OpenAny

LEMMA FormInvStep ==
  ASSUME FormInv, [Next /\ Record]_<<vars, opened, broken>>
  PROVE  FormInv'
<1>1. CASE Next /\ Record
  <2>1. /\ TypeOK /\ TypeOK' /\ FormOf /\ FormOf' /\ Opened /\ Opened'
        /\ clicks \in Nat /\ clicks' \in Nat
    BY <1>1, TypeStep, FormOfStep, OpenedStep, Counted DEF FormInv
  <2>2. Own'
    <3> SUFFICES ASSUME Kept({"form"})' PROVE Own'
      BY DEF Own
    <3>1. Own /\ Kept({"form"}) /\ NoBack /\ OneSend /\ Waits /\ NoAbandon
      BY <1>1, StillForm DEF FormInv
    <3>2. CASE Opening
      <4>1. OpenAny
        BY <1>1, <2>1, <3>1, <3>2, OpeningOpens DEF Own
      <4> QED
        BY <1>1, <2>1, <3>1, <3>2, <4>1, OpeningOwn
    <3>3. CASE ~Opening
      <4>1. ~OpenAny
        <5> SUFFICES ASSUME OpenAny PROVE FALSE
          OBVIOUS
        <5>1. PICK add \in BOOLEAN, c \in Object, s \in Object : Open(add, c, s)
          BY <2>1, Opens
        <5>2. clicks' = clicks + 1 /\ dialog' = [open |-> TRUE, add |-> add] /\ panel' = panel /\ ~Overlay
          BY <5>1 DEF Open, Count
        <5>3. dialog'.open /\ clicks' # clicks
          BY <2>1, <5>2
        <5> QED
          BY <3>3, <5>2, <5>3 DEF Opening
      <4> QED
        BY <1>1, <2>1, <3>1, <3>3, <4>1, Steps, StillOwn, ClosingOwn, ShowOwn, SendingOwn, ReplyOwn
    <3> QED
      BY <3>2, <3>3
  <2> QED
    BY <2>1, <2>2 DEF FormInv
<1>2. CASE UNCHANGED <<vars, opened, broken>>
  <2>1. TypeOK'
    BY <1>2, TypeStep DEF FormInv
  <2>2. UNCHANGED <<panel, dialog, form, current, selected, req, clicks, opened, broken>>
    BY <1>2 DEF vars, client
  <2> QED
    BY <2>1, <2>2 DEF FormInv, FormOf, Opened, Own, Kept, Pending, Filled, Given
<1> QED
  BY <1>1, <1>2

LEMMA FormInvInit == DisciplineInit => FormInv
<1> SUFFICES ASSUME DisciplineInit PROVE FormInv
  OBVIOUS
<1>1. TypeOK
  BY TypeInit DEF DisciplineInit
<1>2. FormOf
  BY DEF DisciplineInit, Init, FormOf, Filled, Given, NoEntity, Empty
<1>3. Opened
  BY DEF DisciplineInit, Opened
<1>4. Own
  BY DEF DisciplineInit, Init, Own, Pending, Empty, Idle
<1>5. clicks \in Nat
  BY DEF DisciplineInit, Init
<1> QED
  BY <1>1, <1>2, <1>3, <1>4, <1>5 DEF FormInv

-----------------------------------------------------------------------------
(* What the steps under the disciplines do. *)

LEMMA EditsStep ==
  ASSUME FormInv, Next /\ Record
  PROVE  /\ Opening /\ panel \in Forms /\ Kept({"form"})' =>
               form'.fields = IF opened'.id = 0 THEN Blank ELSE Fields(panel, lists[panel][opened'.id])
         /\ Kept({"form"})' => \A r \in Requests : Submitted(r) /\ req'[r].op = "update" =>
               req'[r].kind = opened.kind /\ req'[r].id = opened.id
<1> SUFFICES ASSUME Kept({"form"})'
             PROVE  /\ Opening /\ panel \in Forms =>
                          form'.fields = IF opened'.id = 0 THEN Blank
                                         ELSE Fields(panel, lists[panel][opened'.id])
                    /\ \A r \in Requests : Submitted(r) /\ req'[r].op = "update" =>
                          req'[r].kind = opened.kind /\ req'[r].id = opened.id
  OBVIOUS
<1>1. TypeOK /\ FormOf /\ Opened /\ Own /\ Kept({"form"}) /\ NoBack /\ OneSend /\ Waits /\ NoAbandon
  BY StillForm DEF FormInv
<1>2. dialog.open => opened.kind = panel /\ panel # "complaints" /\ (panel \in Forms => form.id = opened.id)
  BY <1>1 DEF Own
<1>3. ASSUME Opening, panel \in Forms
      PROVE  form'.fields = IF opened'.id = 0 THEN Blank ELSE Fields(panel, lists[panel][opened'.id])
  <2>1. PICK add \in BOOLEAN, c \in Object, s \in Object :
          /\ Open(add, c, s)
          /\ ~add /\ panel \in Forms => \E i \in DOMAIN lists[panel] :
                Given(panel, c, s) = Entity(panel, i, lists[panel][i])
    BY <1>1, <1>2, <1>3, OpeningOpens, Opens
  <2> DEFINE e == Given(panel, c, s)
  <2>2. e \in Object /\ form \in Form /\ Filled(panel, e, add) \in Form
    BY <1>1, FilledTyped, GivenTyped DEF TypeOK, ClientTypes
  <2>3. form'.fields = Filled(panel, e, add).fields
    <3>1. CASE add # dialog.add \/ e # Given(panel, current, selected)
      <4>1. form' = [Filled(panel, e, add) EXCEPT !.closing = form.closing]
        BY <2>1, <3>1 DEF Open
      <4> HIDE DEF e
      <4> QED
        BY <2>2, <4>1 DEF Form
    <3>2. CASE ~(add # dialog.add \/ e # Given(panel, current, selected))
      <4>1. form' = form
        BY <2>1, <3>2 DEF Open
      <4>2. form.fields = Filled(panel, Given(panel, current, selected), dialog.add).fields
        BY <1>1, <1>3 DEF NoAbandon, Touched
      <4> QED
        BY <3>2, <4>1, <4>2
    <3> QED
      BY <3>1, <3>2
  <2>4. opened'.id = IF add THEN 0 ELSE e.id
    <3>1. panel' = panel /\ current' = c /\ selected' = s /\ dialog'.add = add
      BY <2>1 DEF Open
    <3> QED
      BY <1>3, <3>1, RecordOpening DEF FormInv
  <2>5. CASE add
    <3> HIDE DEF e
    <3>1. Filled(panel, e, add) = Empty
      BY <2>2, <2>5, FilledTyped
    <3>2. Empty.fields = Blank
      BY DEF Empty
    <3> QED
      BY <2>3, <2>4, <2>5, <3>1, <3>2
  <2>6. CASE ~add
    <3>1. PICK i \in DOMAIN lists[panel] : e = Entity(panel, i, lists[panel][i])
      BY <1>3, <2>1, <2>6
    <3> DEFINE row == lists[panel][i]
    <3>2. panel \in Kinds /\ i \in Nat \ {0} /\ row \in Row
      BY <1>1, <1>3, ListRow DEF Kinds
    <3>3. e # NoEntity /\ e.id = i /\ e.row = row
      BY <3>1, <3>2, Constants
    <3> HIDE DEF e, row
    <3>4. Filled(panel, e, add).fields = Fields(panel, row)
      BY <1>3, <2>2, <2>6, <3>3, FilledTyped
    <3>5. opened'.id = i /\ i # 0
      BY <2>4, <2>6, <3>2, <3>3
    <3> QED
      BY <2>3, <3>4, <3>5 DEF row
  <2> QED
    BY <2>5, <2>6
<1>4. ASSUME NEW r \in Requests, Submitted(r), req'[r].op = "update"
      PROVE  req'[r].kind = opened.kind /\ req'[r].id = opened.id
  <2>1. Sending(r)
    <3>0. req \in [Requests -> Handler] /\ Idle.op = "none"
      BY <1>1 DEF TypeOK, Idle
    <3>1. ~OpenAny
      BY <1>1, <1>4, <3>0, Opens DEF Open, Submitted
    <3>2. ~Close /\ ~Faded
      BY <1>4, <3>0 DEF Close, Faded, Submitted
    <3>3. ~Show
      BY <1>4, <3>0 DEF Show, Submitted, Idle, Handler, Handlers
    <3>4. ~Still
      BY <1>4, <3>0 DEF Still, Submitted
    <3>5. ASSUME NEW q \in Requests, Reply(q) PROVE FALSE
      BY <1>4, <3>0, <3>5 DEF Reply, Submitted
    <3>6. ASSUME NEW q \in Requests, Sending(q) PROVE q = r
      BY <1>1, <1>4, <3>0, <3>6, Sends DEF Submitted
    <3> QED
      BY <1>1, <3>1, <3>2, <3>3, <3>4, <3>5, <3>6, Steps
  <2>2. dialog.open /\ req'[r].kind = panel /\ panel \in Forms /\ req'[r].id = form.id
    BY <1>1, <1>4, <2>1, Sends
  <2> QED
    BY <1>2, <2>2
<1> QED
  BY <1>3, <1>4

LEMMA ClosesStep ==
  ASSUME FormInv, Next /\ Record, Kept({"form"})', dialog.open, ~dialog'.open
  PROVE  opened'.done
<1>1. TypeOK /\ Opened /\ Own /\ Kept({"form"})
  BY StillForm DEF FormInv
<1>2. ~Opening
  BY DEF Opening
<1>3. opened'.done = (opened.done \/ Close \/ \E r \in opened.sent : Reply(r))
  BY <1>1, <1>2, RecordLater
<1>4. CASE Close
  BY <1>3, <1>4
<1>5. CASE Faded
  BY <1>1, <1>3, <1>5 DEF Own, Faded
<1>6. ASSUME NEW r \in Requests, Reply(r) PROVE opened'.done
  <2>1. req[r].pc = "Answer" /\ Succeeds(req[r])
    BY <1>6 DEF Reply, At
  <2>2. r \in Pending
    BY <1>1, <2>1 DEF Pending, Succeeds, TypeOK, Handler, Handlers
  <2> QED
    BY <1>1, <1>3, <1>6, <2>2 DEF Own
<1>7. ~OpenAny
  BY <1>1, Opens DEF Open
<1>8. ~Show /\ ~Still
  BY DEF Show, Still
<1>9. ASSUME NEW r \in Requests, Sending(r) PROVE FALSE
  BY <1>1, <1>9, Sends
<1> QED
  BY <1>1, <1>4, <1>5, <1>6, <1>7, <1>8, <1>9, Steps

\* A form opens on the row whose pencil was clicked, and updates only that row, for any
\* tables and number of requests, while no form that was typed into is opened again
\* and nobody goes back with one open.
THEOREM FormsEditWhatWasClicked == DisciplineSpec => EditsClicked
<1>1. DisciplineInit => FormInv
  BY FormInvInit
<1>2. FormInv /\ [Next /\ Record]_<<vars, opened, broken>> => FormInv'
  BY FormInvStep
<1> DEFINE Edits ==
             /\ Opening /\ panel \in Forms /\ Kept({"form"})' =>
                   form'.fields = IF opened'.id = 0 THEN Blank
                                  ELSE Fields(panel, lists[panel][opened'.id])
             /\ Kept({"form"})' => \A r \in Requests : Submitted(r) /\ req'[r].op = "update" =>
                   req'[r].kind = opened.kind /\ req'[r].id = opened.id
<1>3. FormInv /\ [Next /\ Record]_<<vars, opened, broken>> => [Edits]_vars
  <2> SUFFICES ASSUME FormInv, Next /\ Record PROVE Edits
    OBVIOUS
  <2> QED
    BY EditsStep
<1>4. EditsClicked <=> [][Edits]_vars
  BY PTL DEF EditsClicked
<1> HIDE DEF Edits
<1> QED
  BY <1>1, <1>2, <1>3, <1>4, PTL DEF DisciplineSpec

\* A form closes only by hand or after an answer to its own request, under the same
\* disciplines and while it is sent once and left alone until it is answered.
THEOREM FormsCloseForTheirOwn == DisciplineSpec => ClosesOwn
<1>1. DisciplineInit => FormInv
  BY FormInvInit
<1>2. FormInv /\ [Next /\ Record]_<<vars, opened, broken>> => FormInv'
  BY FormInvStep
<1>3. FormInv /\ [Next /\ Record]_<<vars, opened, broken>> =>
        [Kept({"form"})' => (dialog.open /\ ~dialog'.open => opened'.done)]_vars
  <2> SUFFICES ASSUME FormInv, Next /\ Record, Kept({"form"})', dialog.open, ~dialog'.open
               PROVE  opened'.done
    OBVIOUS
  <2> QED
    BY ClosesStep
<1> QED
  BY <1>1, <1>2, <1>3, PTL DEF DisciplineSpec, ClosesOwn
=============================================================================
