----------------------------- MODULE Dashboard -----------------------------
(***************************************************************************)
(* The office's dashboard in one tab, over the tables it keeps.            *)
(*   frontend/.../Dashboard/context/DashboardContext.tsx                   *)
(*   frontend/.../Dashboard/components/*Managment.tsx, Form*.tsx           *)
(*   backend/src/routes, schedules, busschedules, buses, complaints        *)
(*                                                                         *)
(* The panels share one provider: the lists, the dialog (one flag for all  *)
(* forms) and the entity a form was opened for.  A panel and its form live *)
(* while the panel is shown.                                               *)
(***************************************************************************)
EXTENDS Integers, FiniteSets, SequencesExt

CONSTANTS
    MaxId,          \* bound: ids of each table
    Values,         \* what may be typed as the fields of a row that refer to nothing; 0: empty
    Unavailable,    \* those of a bus whose box 'available' is not ticked
    MaxSeat,        \* bound: size of a bus
    Requests,       \* slots for requests of the tab
    MaxClicks,      \* bound: clicks and foreign writes in a behaviour
    MaxShows        \* bound: changes of the panel

ASSUME DashboardAssumption ==
    /\ MaxId \in Nat \ {0, 1} /\ MaxSeat \in Nat \ {0} /\ {MaxClicks, MaxShows} \subseteq Nat
    /\ Values \subseteq Nat \ {0} /\ Values # {} /\ Unavailable \subseteq Values

Ids == 1 .. MaxId
Seats == 1 .. MaxSeat

Forms == {"routes", "schedules", "trips", "buses"}
Kinds == Forms \cup {"complaints"}
Panels == Kinds \cup {"staff"}

\* A row.  over: the route of a schedule, the schedule of a trip; used: other tables refer to
\* it (bookings, holds and calls to a trip, drivers to a bus).
NoRow == [value |-> 0, over |-> 0, bus |-> 0, free |-> {}, used |-> FALSE]

\* An object of a list that a form was opened for; same: the list still holds it.
NoEntity == [kind |-> "none", id |-> 0, row |-> NoRow, same |-> FALSE]
Entity(k, i, row) == [kind |-> k, id |-> i, row |-> row, same |-> TRUE]

Blank == [value |-> 0, over |-> 0, bus |-> 0, seats |-> 0]
Empty == [id |-> 0, fields |-> Blank, closing |-> FALSE]

Idle == [pc |-> "idle", op |-> "none", kind |-> "none", id |-> 0, fields |-> Blank,
         answer |-> "none", here |-> FALSE]

VARIABLES
    tables,     \* rows by kind and id
    last,       \* last id by kind
    panel,      \* the panel that is shown
    lists,      \* rows as fetched
    fetches,    \* GETs on their way
    dialog,     \* isModalFormOpen, isAddMode
    current,    \* currentEntity
    selected,   \* the panel's own selection
    form,       \* state of the form of the panel
    ask,        \* what the confirmation would delete
    req,        \* requests that write
    clicks, shows

client == <<panel, lists, fetches, dialog, current, selected, form, ask>>
vars == <<tables, last, client, req, clicks, shows>>

Min0(S) == IF S = {} THEN 0 ELSE CHOOSE n \in S : \A m \in S : n <= m

\* What the list of a kind is made of: trips on a bus without free seats are left out.
Listed(k) ==
    IF k # "trips" THEN tables[k]
    ELSE Restrict(tables.trips,
            {t \in DOMAIN tables.trips : tables.buses[tables.trips[t].bus].free # {}})

-----------------------------------------------------------------------------
(* Forms *)

\* What a form takes from the entity: for a bus, the first free seat as capacity.
RouteFields(row) == [Blank EXCEPT !.value = row.value]
ScheduleFields(row) == [Blank EXCEPT !.value = row.value, !.over = row.over]
TripFields(row) == [Blank EXCEPT !.value = row.value, !.over = row.over, !.bus = row.bus]
BusFields(row) == [Blank EXCEPT !.value = row.value, !.seats = Min0(row.free)]

Fields(k, row) ==
    CASE k = "routes" -> RouteFields(row)
      [] k = "schedules" -> ScheduleFields(row)
      [] k = "trips" -> TripFields(row)
      [] OTHER -> BusFields(row)

\* The effect of a form on its entity and its mode.
Filled(p, entity, add) ==
    IF p \in Forms /\ entity # NoEntity /\ ~add
    THEN [Empty EXCEPT !.id = entity.id, !.fields = Fields(p, entity.row)] ELSE Empty

\* The buses panel hands currentEntity to its form, the others their selection.
Given(p, c, s) == IF p = "buses" THEN c ELSE s

Overlay == (dialog.open \/ ask # NoEntity) /\ panel # "complaints"

\* The GETs that are sent together are read together and come together, and of two
\* that are not read yet the later one makes no difference.
Fetch(kinds) == {[kinds |-> kinds, read |-> FALSE, rows |-> <<>>]}

\* The lists a panel fetches again when something was written, ...
Needs(p) ==
    CASE p = "trips" -> {"trips", "buses", "schedules"}
      [] p = "staff" -> {}
      [] OTHER -> {p}
\* ... and when it appears.
Mounts(p) == IF p = "staff" THEN {"buses"} ELSE Needs(p)

Count == clicks < MaxClicks /\ clicks' = clicks + 1 /\ UNCHANGED shows

-----------------------------------------------------------------------------
(* Moving between panels *)

\* By a link of the sidebar, or by the browser's history, which the overlay of a form
\* or a question does not cover.
Show == \E p \in Panels :
    /\ p # panel /\ shows < MaxShows /\ shows' = shows + 1
    /\ panel' = p
    /\ selected' = NoEntity
    /\ form' = Filled(p, Given(p, current, NoEntity), dialog.add)
    /\ fetches' = fetches \cup Fetch(Mounts(p))
    /\ req' = [r \in Requests |-> [req[r] EXCEPT !.here = FALSE]]
    /\ UNCHANGED <<tables, last, lists, dialog, current, ask, clicks>>

-----------------------------------------------------------------------------
(* The dialog *)

\* Mutant: the effect depends on the mode only.
OpenModeOnly(add, c, s) ==
    /\ ~Overlay /\ Count
    /\ dialog' = [open |-> TRUE, add |-> add]
    /\ current' = c /\ selected' = s
    /\ form' = IF add # dialog.add
               THEN [Filled(panel, Given(panel, c, s), add) EXCEPT !.closing = form.closing]
               ELSE form
    /\ UNCHANGED <<tables, last, panel, lists, fetches, ask, req>>

\* OpenModalForm, and the effect of the form when its entity or mode changes.
Open(add, c, s) ==
    /\ ~Overlay /\ Count
    /\ dialog' = [open |-> TRUE, add |-> add]
    /\ current' = c /\ selected' = s
    /\ form' = IF add # dialog.add \/ Given(panel, c, s) # Given(panel, current, selected)
               THEN [Filled(panel, Given(panel, c, s), add) EXCEPT !.closing = form.closing]
               ELSE form
    /\ UNCHANGED <<tables, last, panel, lists, fetches, ask, req>>

OpenAdd == panel \in Forms /\ Open(TRUE, NoEntity, selected)

\* The pencil of a row.
OpenEdit(k) ==
    /\ panel = k
    /\ \E i \in DOMAIN lists[k] : Open(FALSE, NoEntity, Entity(k, i, lists[k][i]))

OpenRoute == OpenEdit("routes")
OpenSchedule == OpenEdit("schedules")
OpenTrip == OpenEdit("trips")

OpenBus ==
    /\ panel = "buses"
    /\ \E i \in DOMAIN lists.buses : Open(FALSE, Entity("buses", i, lists.buses[i]), selected)

\* The form of the staff has fields of its own; here it matters only that the user
\* becomes currentEntity.
OpenStaff == \E add \in BOOLEAN, i \in Ids :
    /\ panel = "staff"
    /\ LET user == Entity("staff", i, NoRow) IN
       IF add THEN Open(TRUE, NoEntity, selected) ELSE Open(FALSE, user, user)

\* The x, the overlay around the form, or Escape.
Close ==
    /\ dialog.open /\ panel # "complaints"
    /\ IF panel \in {"trips", "buses"}
       THEN form' = [form EXCEPT !.closing = TRUE] /\ UNCHANGED dialog
       ELSE dialog' = [dialog EXCEPT !.open = FALSE] /\ UNCHANGED form
    /\ UNCHANGED <<tables, last, panel, lists, fetches, current, selected, ask, req, clicks, shows>>

\* Mutant: the timer does not reset isClosing.
FadedAgain ==
    /\ form.closing
    /\ dialog' = [dialog EXCEPT !.open = FALSE]
    /\ UNCHANGED <<tables, last, panel, lists, fetches, current, selected, ask, req, clicks, shows, form>>

\* 300 ms later.
Faded ==
    /\ form.closing
    /\ form' = [form EXCEPT !.closing = FALSE]
    /\ dialog' = [dialog EXCEPT !.open = FALSE]
    /\ UNCHANGED <<tables, last, panel, lists, fetches, current, selected, ask, req, clicks, shows>>

Type(k, fields) ==
    /\ dialog.open /\ panel = k /\ ask = NoEntity
    /\ form' = [form EXCEPT !.fields = fields]
    /\ UNCHANGED <<tables, last, panel, lists, fetches, dialog, current, selected, ask, req, clicks, shows>>

TypeRoute == \E v \in Values : Type("routes", [form.fields EXCEPT !.value = v])

\* The routes to choose from are those of the schedules.
TypeSchedule == \E v \in Values :
    \E i \in {form.fields.over} \cup {lists.schedules[s].over : s \in DOMAIN lists.schedules} :
        Type("schedules", [form.fields EXCEPT !.value = v, !.over = i])

TypeTrip == \E v \in Values :
    \E s \in {form.fields.over} \cup DOMAIN lists.schedules,
       b \in {form.fields.bus} \cup DOMAIN lists.buses :
        Type("trips", [form.fields EXCEPT !.value = v, !.over = s, !.bus = b])

TypeBus == \E v \in Values, n \in {form.fields.seats} \cup Seats :
    Type("buses", [form.fields EXCEPT !.value = v, !.seats = n])

Start(r, request) ==
    /\ req[r] = Idle
    /\ req' = [req EXCEPT ![r] = request]

\* A form that is valid is sent; without an id an update is an error that is shown.
Submit(r, k, valid) ==
    /\ dialog.open /\ panel = k /\ ask = NoEntity /\ valid /\ Count
    /\ dialog.add \/ form.id # 0
    /\ Start(r, [pc |-> IF ~dialog.add THEN "UpdateFind"
                        ELSE IF k \in {"schedules", "trips"} THEN "AddCheck" ELSE "AddSave",
                 op |-> IF dialog.add THEN "add" ELSE "update",
                 kind |-> k, id |-> IF dialog.add THEN 0 ELSE form.id,
                 fields |-> form.fields, answer |-> "none", here |-> TRUE])
    /\ UNCHANGED <<tables, last, client>>

SubmitRoute(r) == Submit(r, "routes", form.fields.value # 0)
SubmitSchedule(r) == Submit(r, "schedules", form.fields.value # 0 /\ form.fields.over # 0)
SubmitTrip(r) == Submit(r, "trips", 0 \notin {form.fields.value, form.fields.over, form.fields.bus})
SubmitBus(r) == Submit(r, "buses", 0 \notin {form.fields.value, form.fields.seats})

\* The requests of the staff form write no table of this module.
SubmitStaff(r) ==
    /\ dialog.open /\ panel = "staff" /\ ask = NoEntity /\ Count
    /\ Start(r, [Idle EXCEPT !.pc = "Answer", !.op = "staff", !.kind = "staff", !.answer = "data"])
    /\ UNCHANGED <<tables, last, client>>

-----------------------------------------------------------------------------
(* Deleting *)

Ask ==
    /\ panel \in Forms /\ ~Overlay /\ Count
    /\ \E i \in DOMAIN lists[panel] : ask' = Entity(panel, i, NoRow)
    /\ UNCHANGED <<tables, last, panel, lists, fetches, dialog, current, selected, form, req>>

Delete(r, k, i) ==
    Start(r, [Idle EXCEPT !.pc = "Delete", !.op = "delete", !.kind = k, !.id = i])

\* The question outlives the panel that asked it.
Confirm(r) ==
    /\ ask # NoEntity /\ panel # "complaints"
    /\ Delete(r, ask.kind, ask.id) /\ ask' = NoEntity
    /\ UNCHANGED <<tables, last, panel, lists, fetches, dialog, current, selected, form, clicks, shows>>

Decline ==
    /\ ask # NoEntity /\ panel # "complaints" /\ ask' = NoEntity
    /\ UNCHANGED <<tables, last, panel, lists, fetches, dialog, current, selected, form, req, clicks, shows>>

\* The complaints that are shown, each with its button.
ComplaintsShown == IF panel = "complaints" THEN DOMAIN lists.complaints ELSE {}

\* window.confirm and the request, in one step.
DeleteComplaint(r) ==
    /\ Count
    /\ \E i \in ComplaintsShown : Delete(r, "complaints", i)
    /\ UNCHANGED <<tables, last, client>>

-----------------------------------------------------------------------------
(* The server: reads before a write are one step, the foreign keys see to the *)
(* rest.                                                                      *)

At(r, statement) == req[r].pc = statement
Answer(h, answer) == [h EXCEPT !.pc = "Answer", !.answer = answer]
Handle(r, handler) == req' = [req EXCEPT ![r] = handler] /\ UNCHANGED <<client, clicks, shows>>
Read(r, handler) == Handle(r, handler) /\ UNCHANGED <<tables, last>>

\* The rows that the fields name exist: all that is asked of a schedule, and what the
\* foreign keys want.
Exist(k, fields) ==
    /\ k = "schedules" => fields.over \in DOMAIN tables.routes
    /\ k = "trips" => fields.over \in DOMAIN tables.schedules /\ fields.bus \in DOMAIN tables.buses

\* The service's own check looks at the bus of a trip, too.
Valid(k, fields) ==
    Exist(k, fields) /\ (k = "trips" => tables.buses[fields.bus].value \notin Unavailable)

Stored(row, k, fields) ==
    [row EXCEPT !.value = fields.value, !.over = fields.over, !.bus = fields.bus,
                !.free = IF k = "buses" THEN 1 .. fields.seats ELSE @]

\* A schedule is created but never saved; an invalid trip is answered like a valid one.
AddCheck(r) ==
    LET h == req[r] IN
    /\ At(r, "AddCheck")
    /\ Read(r, IF h.kind = "schedules" \/ ~Valid(h.kind, h.fields) THEN Answer(h, "data")
               ELSE [h EXCEPT !.pc = "AddSave"])

AddSave(r) ==
    LET h == req[r]
        i == last[h.kind] + 1
    IN
    /\ At(r, "AddSave") /\ last[h.kind] < MaxId
    /\ last' = [last EXCEPT ![h.kind] = i]
    /\ IF Exist(h.kind, h.fields)
       THEN /\ tables' = [tables EXCEPT ![h.kind] =
                    [j \in DOMAIN @ \cup {i} |-> IF j = i THEN Stored(NoRow, h.kind, h.fields) ELSE @[j]]]
            /\ Handle(r, Answer(h, "data"))
       ELSE UNCHANGED tables /\ Handle(r, Answer(h, "error"))

\* A row that is gone is answered by nothing, but for a schedule.
UpdateFind(r) ==
    LET h == req[r] IN
    /\ At(r, "UpdateFind")
    /\ Read(r, IF h.kind # "schedules" /\ h.id \notin DOMAIN tables[h.kind] THEN Answer(h, "nothing")
               ELSE IF ~Valid(h.kind, h.fields) THEN Answer(h, "data")
               ELSE [h EXCEPT !.pc = "UpdateWrite"])

UpdateWrite(r) ==
    LET h == req[r] IN
    /\ At(r, "UpdateWrite") /\ UNCHANGED last
    /\ IF h.id \in DOMAIN tables[h.kind] /\ ~Exist(h.kind, h.fields)
       THEN /\ UNCHANGED tables
            /\ Handle(r, Answer(h, IF h.kind = "schedules" THEN "data" ELSE "error"))
       ELSE /\ tables' = [tables EXCEPT ![h.kind] =
                    [j \in DOMAIN @ |-> IF j = h.id THEN Stored(@[j], h.kind, h.fields) ELSE @[j]]]
            /\ Handle(r, [h EXCEPT !.pc = "UpdateReread"])

UpdateReread(r) ==
    LET h == req[r] IN
    /\ At(r, "UpdateReread")
    /\ Read(r, Answer(h, IF h.kind = "schedules" \/ h.id \in DOMAIN tables[h.kind]
                         THEN "data" ELSE "nothing"))

\* What goes with a row: ON DELETE CASCADE from routes to schedules to trips.
GoneSchedules(k, i) ==
    {s \in DOMAIN tables.schedules :
        (k = "schedules" /\ s = i) \/ (k = "routes" /\ tables.schedules[s].over = i)}
GoneTrips(k, i) ==
    {t \in DOMAIN tables.trips :
        (k = "trips" /\ t = i) \/ tables.trips[t].over \in GoneSchedules(k, i)}

\* The references without a cascade refuse it.
Refused(k, i) ==
    \/ \E t \in GoneTrips(k, i) : tables.trips[t].used
    \/ k = "buses" /\ i \in DOMAIN tables.buses /\
          (tables.buses[i].used \/ \E t \in DOMAIN tables.trips : tables.trips[t].bus = i)

Without(k, i) ==
    [j \in Kinds |->
        Restrict(tables[j], DOMAIN tables[j] \
            (CASE j = "schedules" -> GoneSchedules(k, i)
               [] j = "trips" -> GoneTrips(k, i)
               [] OTHER -> IF j = k THEN {i} ELSE {}))]

DeleteRow(r) ==
    LET h == req[r] IN
    /\ At(r, "Delete") /\ UNCHANGED last
    /\ IF Refused(h.kind, h.id)
       THEN UNCHANGED tables /\ Handle(r, Answer(h, "error"))
       ELSE tables' = Without(h.kind, h.id) /\ Handle(r, Answer(h, "data"))

\* The request, its handler or its answer is lost.
Fail(r) ==
    /\ req[r] # Idle /\ req[r].answer # "error"
    /\ Read(r, Answer(req[r], "error"))

-----------------------------------------------------------------------------
(* Answers *)

\* Mutant: updateEntity does not count the trigger up.
TriggersAddOnly(h) ==
    IF h.op = "delete" THEN h.answer # "error" ELSE h.op = "add" /\ h.answer = "data"

Triggers(h) ==
    IF h.op = "delete" THEN h.answer # "error" ELSE h.op \in {"add", "update"} /\ h.answer = "data"

Succeeds(h) == h.op # "delete" /\ h.answer # "error"

\* The lists of the panel that is shown by now are fetched, and the form closes:
\* at once, whichever form is open, or with its animation, if it is still there.
Reply(r) ==
    LET h == req[r] IN
    /\ At(r, "Answer")
    /\ fetches' = fetches \cup (IF Triggers(h) /\ Needs(panel) # {} THEN Fetch(Needs(panel)) ELSE {})
    /\ dialog' = IF Succeeds(h) /\ h.kind \notin {"trips", "buses"}
                 THEN [dialog EXCEPT !.open = FALSE] ELSE dialog
    /\ form' = IF Succeeds(h) /\ h.kind \in {"trips", "buses"} /\ h.here
               THEN [form EXCEPT !.closing = TRUE] ELSE form
    /\ req' = [req EXCEPT ![r] = Idle]
    /\ UNCHANGED <<tables, last, panel, lists, current, selected, ask, clicks, shows>>

FetchRead(f) ==
    /\ f \in fetches /\ ~f.read
    /\ fetches' = (fetches \ {f}) \cup {[f EXCEPT !.read = TRUE, !.rows = [k \in f.kinds |-> Listed(k)]]}
    /\ UNCHANGED <<tables, last, panel, lists, dialog, current, selected, form, ask, req, clicks, shows>>

Stale(entity, kinds) == IF entity.kind \in kinds THEN [entity EXCEPT !.same = FALSE] ELSE entity

FetchArrive(f) ==
    /\ f \in fetches /\ f.read
    /\ fetches' = fetches \ {f}
    /\ lists' = [k \in Kinds |-> IF k \in f.kinds THEN f.rows[k] ELSE lists[k]]
    /\ current' = Stale(current, f.kinds) /\ selected' = Stale(selected, f.kinds)
    /\ UNCHANGED <<tables, last, panel, dialog, form, ask, req, clicks, shows>>

\* The error is logged and the list stays; where a read was lost makes no difference.
FetchFail(f) ==
    /\ f \in fetches /\ f.read /\ fetches' = fetches \ {f}
    /\ UNCHANGED <<tables, last, panel, lists, dialog, current, selected, form, ask, req, clicks, shows>>

-----------------------------------------------------------------------------
(* Others: another office deletes or edits, a driver complains, seats are sold. *)

Complain == \E v \in Values :
    LET i == last.complaints + 1 IN
    /\ i <= MaxId /\ last' = [last EXCEPT !.complaints = i]
    /\ tables' = [tables EXCEPT !.complaints =
          [j \in DOMAIN @ \cup {i} |-> IF j = i THEN [NoRow EXCEPT !.value = v] ELSE @[j]]]

Elsewhere ==
    /\ Count
    /\ \/ \E k \in Kinds : \E i \in DOMAIN tables[k] :
              ~Refused(k, i) /\ tables' = Without(k, i) /\ UNCHANGED last
       \/ \E k \in Forms, v \in Values : \E i \in DOMAIN tables[k] :
              tables' = [tables EXCEPT ![k][i].value = v] /\ UNCHANGED last
       \/ Complain
       \/ \E t \in DOMAIN tables.trips, n \in Seats :
              /\ tables' = [tables EXCEPT !.trips[t].used = TRUE,
                                          !.buses[tables.trips[t].bus].free = @ \ {n}]
              /\ UNCHANGED last
    /\ UNCHANGED <<client, req>>

-----------------------------------------------------------------------------

\* The office has opened the dashboard on a panel, over a small catalogue.
Init ==
    /\ tables = [k \in Kinds |->
          [i \in IF k = "buses" THEN 1 .. 2 ELSE {1} |->
              [value |-> 1, over |-> IF k \in {"schedules", "trips"} THEN 1 ELSE 0,
               bus |-> IF k = "trips" THEN 1 ELSE 0,
               free |-> IF k = "buses" THEN Seats ELSE {}, used |-> FALSE]]]
    /\ last = [k \in Kinds |-> IF k = "buses" THEN 2 ELSE 1]
    /\ panel \in Panels
    /\ lists = [k \in Kinds |-> IF k \in Mounts(panel) THEN tables[k] ELSE <<>>] /\ fetches = {}
    /\ dialog = [open |-> FALSE, add |-> TRUE]
    /\ current = NoEntity /\ selected = NoEntity /\ form = Empty /\ ask = NoEntity
    /\ req = [r \in Requests |-> Idle] /\ clicks = 0 /\ shows = 0

Use(r) ==
    \/ SubmitRoute(r) \/ SubmitSchedule(r) \/ SubmitTrip(r) \/ SubmitBus(r) \/ SubmitStaff(r)
    \/ Confirm(r) \/ DeleteComplaint(r)

Serve(r) ==
    \/ AddCheck(r) \/ AddSave(r) \/ UpdateFind(r) \/ UpdateWrite(r) \/ UpdateReread(r)
    \/ DeleteRow(r) \/ Fail(r) \/ Reply(r)

Next ==
    \/ Show \/ OpenAdd \/ OpenRoute \/ OpenSchedule \/ OpenTrip \/ OpenBus \/ OpenStaff \/ Close \/ Faded
    \/ TypeRoute \/ TypeSchedule \/ TypeTrip \/ TypeBus \/ Ask \/ Decline
    \/ \E r \in Requests : Use(r) \/ Serve(r)
    \/ \E f \in fetches : FetchRead(f) \/ FetchArrive(f) \/ FetchFail(f)
    \/ Elsewhere

Spec == Init /\ [][Next]_vars
=============================================================================
