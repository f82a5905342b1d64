# Verification of the ticket booking system

TLA+ models, TLC runs and TLAPS proofs for the NestJS backend (`src/backend`)
and the React client (`src/frontend/ticket-booking-system`) that sell seats on
bus trips. Paths below are relative to the repository.

## 1. The system

One Node process serves HTTP and web sockets over a Postgres database reached
through TypeORM. **No handler opens a transaction, and no table has a unique
constraint besides its primary key and a few on user and bus columns.** A
handler runs alone between two `await`s, so the unit of interleaving on the
server is one SQL statement with the code up to the next `await`. Clients may
send any request at any time, twice, and in parallel. In a browser tab the unit
is one event (a click, an answer, a timer, a socket message) with the renders
and effects it leads to; what an event leaves awaited is handled at some later one.

| component | state it keeps | hard behaviour | what makes it correct | status |
|---|---|---|---|---|
| Seat reservations (`backend/src/seat-reservations`) | holds with an expiry | check-then-act over 5 to 20 statements, rows saved long after they were read, expiry, crashes | one holder per seat, seats sold once, the limit of 5, holds kept until expiry and released after it | modelled |
| Bookings (`backend/src/bookings`) | booking rows and their status | overlap with confirm and webhook; status goes back and forth | one selected booking per user and trip; trips counted once | modelled |
| Tickets and bus capacity (`tickets`, `buses`) | tickets, `buses.capacity` | read-modify-write of an array | each seat once in the array or on a ticket | modelled |
| Payments (`payments`) | nothing; Stripe keeps the sessions | at-least-once, late and crossing webhooks | booked means paid, and paid means booked | modelled |
| Bus schedules (trips), urgent calls (`busschedules`, `urgentcalls`) | trips, visited stops, calls | lists read, changed and written back | no stop is lost, a trip has a bus that somebody drives | modelled |
| Users and tokens (`users`), client authentication (`features/Auth`, `shared/utils/api.ts`) | user rows, sessions of tabs | whole rows saved after an `await`; refresh and retry; blocks by socket | a logout or block is not undone, emails are unique, requests end | modelled |
| Schedules, routes and buses; complaints | catalogue rows | what a removal cascades to or is refused for | the office edits what it sees | modelled |
| Drivers | `drivers.bus_id` | a driver's trips move with him in a later statement | every trip has a driven bus | partly |
| Notifications and Telegram | chat ids | messages that are refused | nobody is told of a stop that is not saved | partly |
| Socket gateway and radio (`socket`, `features/Radio`) | ids, peer connections | messages that cross, handlers that close over old state | every pair is joined, nothing leaks | partly |
| Booking and profile pages | a copy of the seat map, a timer, requests in flight | answers late, lost, out of order | what is shown is held, and what is sold was shown | partly |
| Driver page | a copy of one trip | overlapping clicks, two fetches | the page shows what is saved | partly |
| Dashboard, map and home | lists, one dialog for all forms, markers | stale objects, late answers, old handlers | lists, forms and markers are those of what is shown | partly |
| Migrations and triggers | foreign keys, the counting trigger | - | in the modules whose statements they guard | partly |

How they interact: the booking page calls the seat reservations; confirm writes
bookings and tickets directly through their repositories; the payment webhook
and the profile page change bookings through the bookings service, which deletes
holds; the tickets service changes the capacity that reserve and the seat map
read; the driver's page completes bookings, visits stops and has passengers
told; the office moves drivers, which moves trips, and blocks users, which the
gateway tells every tab; the map hands two stops to the home page, which leads to
the booking page.

`PROJECT.json` lists every component with its status, and under `hazards` what
is hard to test, each at its line with the properties that cover it.

## 2. Modules

A component has a module for its behaviour, a second one for what it promises
(`...Disciplines`) and an `MC...` module with symmetry and definitions for TLC.

| behaviour | promises | sources |
|---|---|---|
| `SeatBooking` | `SeatDisciplines`; `SeatBookingInv` has the inductive invariant | seat reservations and bookings of one trip |
| `Tickets` | `TicketDisciplines`, refining `SeatPool` | tickets service and one `buses.capacity` |
| `Payments` | in it | checkout, webhook, profile page |
| `Trips` | `TripDisciplines` | driver's page, trips, drivers, calls, completion of bookings |
| `Accounts` | `AccountDisciplines` | user rows, tokens, sessions of tabs, blocks |
| `BookingPage` | `PageDisciplines` | the booking page over a server that answers at once |
| `Radio` | `RadioDisciplines` | gateway ids and lists, offers and answers |
| `Dashboard` | `DashboardDisciplines` | panels, forms and catalogue tables |
| `Search` | `SearchDisciplines` | map, home page and its list of trips |

Proofs are in modules of their own: `SeatBookingProofs`, `TicketsProofs`, `TripsProofs`,
`AccountsProofs`, `CustomerProofs` (for `Payments` and `Search`), `BookingPageProofs`,
`DashboardProofs` and `RadioProofs`.

**Disciplines.** Most promises of this system hold only if some requests do not
overlap, some answers come in order or some message is not lost. Nothing in the
code provides that, and stating it shows exactly what each promise relies on: a
lock, a transaction, a unique constraint or a disabled button would have to
provide it. No behaviour is cut off: a history variable `broken` collects the
disciplines a behaviour has broken, each recognised from the step that breaks it,
and a property is claimed while its own are kept. Properties with no discipline
in their statement hold for every behaviour.

**Handler slots.** In the server modules and where a page has requests in flight,
`req[r]` is a slot: the statement it is about to run (`pc`) and the locals it still
needs. A local that is no longer used is reset, so that slots with the same
future are the same state. `served`, `clicks` and `turns` count what was started
(a bound).

### `SeatBooking`

`reservations`, `bookings` and `tickets` are the rows of the three tables for
**one** `bus_schedule_id` (every query of the two services is filtered by it or by
the id of a row that belongs to one; the purge of expired holds is not, but acts on
each trip alike). `serial` holds the next ids, `now` is the clock.

Actions. `XAccept` takes a request into a free slot; then one action per
statement, in the order of the source, with the code up to the next `await`:

- `reserve` (lines 120-198): `ReservePurge`, `ReserveCountTickets`,
  `ReserveCountHolds` (the limit and, after the read of the trip, which these
  services never write, the capacity), `ReserveCheckTaken`, `ReserveCheckHeld`,
  `ReserveSave`. The expiry comes from the time taken at the start, the count of
  holds from a second look at the clock.
- `CancelFind`, `CancelRemove`; `CancelAllDelete`.
- `confirmReservations` (222-334): `ConfirmFind`, `ConfirmCount`; for each valid
  row `ConfirmCheckTaken`, then `ConfirmDrop` or `ConfirmFindBooking`,
  [`ConfirmAddBooking`], `ConfirmAddTicket`, `ConfirmMark`; [`ConfirmPurge`],
  `ConfirmReply`. `repository.save(res)` is TypeORM's SELECT by id followed by an
  UPDATE or, when the row is gone, an INSERT with the old id: `ConfirmMark`
  writes the remembered columns in both cases, or nothing when the row goes
  away between the two.
- `getSeatMap`: `ViewPurge`, `ViewTickets`, `ViewHolds`; `ListPurge`.
- bookings `create`, `update`, `remove`: `SelectFind`, `SelectInsert`; `UpdateFind`,
  [`UpdateRelease`], `UpdateWrite`; `RemoveFind`, `RemoveRelease`, `RemoveDelete`
  (the foreign key of tickets refuses the delete of a booking that has any).
- `Cleanup` (the cron job), `Tick`, `Crash` (handlers are forgotten, tables stay).

Statuses that no query of these services tells apart are one (`"Booked"`); prices,
boarding points, child tickets and texts are left out; the limit of 5 is the
constant `Limit`, ten minutes are `HoldTime` ticks. `Update` of the model also
stands for the payment webhook, which calls the same method.

Guaranteed in every behaviour: `HoldKept` (an unexpired hold stops being a
`reserved` row only in a step of one of its own user's requests),
`ConfirmedHasTicket` (the ticket is written before the mark, at every crash
too), and under fairness `HoldReleased`, `Answered`. With disciplines: `SoldOnce`,
`TicketLimit`, `OneSelected` (one confirm or creation of a booking at a time, no
revival of cancelled bookings), `HoldExclusive` (one reserve at a time),
`SeatLimit` (a user waits for his answers). `HoldExclusive` is not obvious: confirm
writes rows back that it read long before, and may insert one that was deleted;
it writes them as `confirmed`, which is why no second hold appears.

### `Tickets`, `TicketDisciplines`, `SeatPool`

`capacity` (the array of free seats in the bus row), `tickets`, and `issued`: every
ticket that a page may still show, since `cansel` takes the ticket from the client
and may come twice or late. `create` is `CreateRead`, `CreateWrite`, `CreateSave`;
`cansel` is `CanselRead` (the array with the seat inserted), `CanselWrite`,
`CanselDelete`; `ResizeWrite` is `PATCH /buses/:id`; `Confirm` is the ticket of
`confirmReservations`, which leaves the array alone. Reads of rows that these
services never write are merged with the read of the bus. `InOrder` is the sort of
`create` (its k-th element is the one with fewer than k below it and k or more not above).

`Sorted` holds for every overlap and crash, and `cansel`'s search relies on it.
While the calls are orderly (one at a time, no crash, no cancellation of a ticket
that is gone, no resize, no confirm), `Tickets` implements `SeatPool`, a pool of
seats with atomic steps (`ImplementsPool`); the mapping `Free` keeps a seat free
until `CreateSave` and frees it from `CanselDelete` on.

### `Payments`

`status` of the bookings of one user and trip, `tickets` with their prices, the
profile page's load (`page`), handler slots; of Stripe, the `sessions` and the
`events` whose delivery has not been answered. `Deliver` takes any event to any
free slot as often as Stripe likes until `Reply`; `Update` is
`BookingsService.update` for webhook and client alike; `PageList`, `PageTickets` and
`PageCancel` are the load of the profile page, which cancels what it saw without
tickets. `BookedIsPaid`: nothing is 'Забронирован' without a paid session.
`PaidIsBooked`: a payment does get its booking there, across crashes and crossing
deliveries. That it may be cancelled before or after, be paid twice, or for tickets
that have changed since, the code neither prevents nor claims to.

### `Trips`

A slot is one click and the chain of requests the page sends for it; the buttons
are not disabled meanwhile, so clicks overlap. `trips`, `drivers`, `calls`, `bookings`
and `counts` are tables; `told` are the messages Telegram delivered; `page` is what
the driver sees, `here` whether the page that was clicked is still shown.

- Opening (`fetchDriverData`), once or twice at a time because provider and component
  both fetch: `OpenBus`, `OpenTrips`, `OpenPassengers`.
- A stop (`handleArrived`): `ArriveShow` (the page, before anything is saved),
  `VisitRead`, `VisitWrite` (`addVisitedStop`), `NotifyFind`, `NotifySend` for each
  passenger (may be refused), and at the last stop `CompleteFind`, `CompleteCount` for
  each booking, `CompleteWrite`.
- `Delay...`, `Present...` (the booking is looked for by the id of the route as well
  as of the trip), `Call...`.
- The office: `Driver...` (`DriverMove` moves the trips of the bus that was read
  first), `Assign...`, `RemoveTrip`, `RemoveCall`, and `Replace...`: the repository
  that is injected has no `replaceDriverAndBus`, the call throws, and the dashboard
  marks the urgent call as accepted all the same.
- `Book` and `Update` stand for what passengers do, one statement each, with the
  trigger that counts expired bookings.
- `Crash`: the page swallows the error of a stop or message that was being sent and
  goes on to finish the trip, when the server may be up again.

`NoStopTwice`, `StopsKept`, `Saved` (passengers are told of saved stops only, the
page shows what is saved or about to be), `NotUndercounted`, `CountExact` (completed
bookings against `count_trips`), `Crewed`.

### `Accounts`

`users` by id, `minted` tokens (two in one second are equal), and for each tab its
session, the token of its first render (which the first interceptor keeps) and the
ids its 'blocked' listeners compare with. `LoginFind`, `LoginSave`, ... save the
remembered row whole; `UpdateWrite` writes the columns of the form; `Refresh` and the
retry are the interceptor's; `BlockEmit`, `Hear`, `Lose` are the socket. An edit
without a password stores the hash of 'undefined', an empty field of the staff form
that of '': both are `Unset`. `WriteOther` are columns that other services write.
`Abandon` is a tab that is closed or reloaded before its answer.

`TypeOK` (with uniqueness of emails), `NothingLost`, `LoggedOut`, `NoBlockedSession`,
`SessionKept`, `RequestEnds`.

### `BookingPage`

The server's part (`Reserve`, `Delete`, `List`, `Map`, `Confirm`, `CancelAll`) is one step
each, since `SeatBooking` is about its inside; the page's part (`Reserved`, `Listed`, ...)
comes later, in any order, or never (`Lost`). `SeatStatus`, `Clickable` and `Chosen` are what
a seat looks like and what a click on it does. `Other` is what other users do with a seat.

The server's clock and the countdown are two things. `Listed` sets `timeLeft` from the
browser's `Date.now()` (`Clock`, `behind` the server's by any of `Offsets`); from then on
only the interval's callback counts (`Count`), whenever the browser gets to it. `Tick` is a
second of the server, and makes the callback `due`; one that is due already is not queued
twice, as in a hidden tab or while the computer sleeps, and the countdown then promises time
the server no longer grants. `missed` counts these seconds, and `CountdownHonest` says that
with the offset of the clock and the second that is passing they are all that can be
wrong with it. The end of the countdown empties the page, whatever the server still holds
(discipline "timer"). An offset is that of the page's whole life: clocks that are set
meanwhile are left out, and an interval that runs fast.
`ShownIsHeld`, `CountdownHonest`, `SoldAsShown`, `Usable`.

### `Radio`

`clients` is the gateway's map, `conn` the socket of each browser, `up` and `down`
the messages on each socket in order, `page` the provider's refs: its list, map of
connections, open connections (`pcs`) and what it awaits (`tasks`). Every list closes
every connection and does not make those to old members anew, since the effect sees
the list of its first run (`OnClients`). `NoneLeaked`, `NoGlare`, `NoGhost`, `AnswerFits`,
`Joins`.

### `Dashboard`

`tables` and `last` ids by kind on the server; in the tab `lists`, `fetches` (GETs read at
one moment, arrived at another), the one `dialog` and `current` entity that all panels
share, the panel's own `selected`, its `form`, the question `ask` before a deletion, and
requests that write. `Submit...` to `Reply` is one form's way; `Triggers` is which
lists a reply fetches anew; `GoneSchedules`, `GoneTrips`, `Refused` are the foreign
keys; `Valid` is the service's check before, which also refuses a bus that is not
available (`Unavailable`: which of the values typed for a bus leave its box empty).
`Elsewhere` is somebody else's write. `Complain` is the driver's complaint.
`ListTrue`, `EditsClicked`, `ClosesOwn`.

### `Search`

`markers` remember what was chosen when they were drawn (`seen`), because a marker keeps
the click handler of its render; `geocodes` are drawings whose places are still asked
for; `home` is the home page's date, stops, rows and flags, `fetches` its GETs, two for
each change of the date. `LineFits`, `MarkersTrue`, `TripsShown`.

## 3. Runs

Two overlapping handlers everywhere: every race of this code is between a check of
one and a write of the other. Symmetry in what is only compared for equality is
used where no liveness is checked.

| run | specification, calls | bounds | result |
|---|---|---|---|
| `safety` | `DisciplineSpec`, all nine operations of the seats | 2 users, 2 seats, 4 requests, limit 1 | 7 properties hold (763 thousand states) |
| `liveness` | `FairSpec`, all nine operations | 1 seat, 3 requests | `HoldReleased`, `Answered` hold (99 thousand) |
| `double_sale` | `Spec`; reserve, confirm | 3 requests | `SeatExclusive` violated |
| `tickets` | all operations, crashes | 3 seats, 5 requests | `Sorted`, `ImplementsPool` hold (237 thousand) |
| `duplicate` | confirm, cansel | 2 requests | `NoDuplicate` violated |
| `paying` | `FairSpec`, all actions | 2 bookings, 3 requests, 1 crash; deliveries unbounded | `BookedIsPaid`, `PaidIsBooked` hold (57 thousand) |
| `trips` | all calls, crashes | 2 trips of one line with 2 stops, 2 buses and drivers, 1 user with 2 bookings, 3 clicks | 6 properties hold (1.5 million) |
| `accounts` | all calls, crashes, lost messages | 2 tabs, 2 emails, 2 passwords, 2 requests | 6 properties hold (640 thousand) |
| `page` | all clicks, lost answers, missed seconds | 2 seats, hold of 2 ticks, 2 clicks beside the timer, a clock behind by 0 or 1 | 4 properties hold (811 thousand) |
| `radio` | all | 2 browsers, 3 socket ids, one lost connection, press or leaving | 5 properties hold (1.8 million) |
| `dashboard` | all | 3 ids a table, 1 value to type, 2 requests, 3 clicks, 1 change of the panel | 3 properties hold (2.4 million) |
| `search` | all | 2 lines that meet in a hub, 1 trip, 2 dates, any timetable, 3 clicks | 3 properties hold (2.2 million) |

Why the bounds are enough.

- Seats: the histories that set a race up (two holds, a sale, a cancellation, a
  revival) take at most three earlier requests. `HoldTime = 1` and `MaxTime = 2` let a
  hold be alive, expire, be purged and be held again while a handler still uses the
  old time. `Limit = 1` makes the limit bind.
- `tickets`: three seats let one be inserted before, between and after others.
- `paying`: a confirm, a checkout and one thing that crosses the payment.
- `trips`: two clicks that overlap and one before them, or a third that meets what
  two left. The one route has the id of a trip, so that a booking of the other trip
  can be marked.
- `accounts`: a request of one tab beside one of another tab or the office; chains of
  more than two overlapping saves add no new pair.
- `page`: two clicks, each a chain of up to four requests, beside the page's own;
  holds differ in their expiry by starting a tick apart. In two ticks a hold that was there
  expires and is purged, one made at once comes to its end, and the interval may keep
  step, miss one second or both.
- `radio`: a third id is for the reconnection; a page is opened and left once; ids are
  not used twice. It starts with both browsers connected, their pages in any of the
  states opening leads to.
- `dashboard`: starts with lists loaded; a row of each table and one more; lists that
  are fetched together come together.
- `search`: a hub is where the set of stops shown does not change with the choice; two
  lines do for races, not for what a reset leaves (section 4).

Deadlock is checked for the seats, where the cron job is always enabled and
`Answered` says what matters, that no handler is stuck. The others have no
background step: when clients want nothing the system rests, and their runs say
`CHECK_DEADLOCK FALSE`.

Fairness. Of seats, accounts, payments and the page: weak fairness of each slot's
`Handle` or `Answer` (Node resumes a handler when its query has returned; a request
is answered or fails). Of seats also of `Tick` and of `Cleanup` (`@Cron('*/1 * * * *')`);
their clock stops at `MaxTime`, so `HoldReleased` speaks of holds that expire before it.
Of Stripe: strong fairness of the delivery of each session's events. Stripe tries again
until it is answered, and the number of slots is a bound of the model and not of
Node, so an event may not wait for a free one for ever. Crashes are finitely many
there, since against a process that crashes in every delivery no retry helps;
elsewhere nothing is assumed of them. Nothing is assumed of clients.

For each property of a passing run `PROJECT.json` names a mutant: a definition next
to the action it changes (comment "Mutant"), an ordinary slip such as a forgotten
`user_id` in a query, with which the run finds the property violated.

### What the violations mean

A double click on "confirm" sells a seat twice to the same user (`double_sale`).
The cancellation of a ticket that confirm wrote puts its seat in the array a second
time, and no overlap is needed (`duplicate`).

### What the models show besides

Met while modelling; each is in the module as the code has it.

- `schedules.service.ts` `create` answers success and stores nothing; the schedule
  form offers only routes that already have a schedule.
- `FormBus.tsx` loads the first free seat as the bus's capacity: saving an edit
  resizes the bus. `busschedules` `findAll` leaves out trips on buses with an empty
  array.
- A form keeps what was typed when its dialog is closed, and after it was saved; the
  dialog and `currentEntity` are shared by all panels, the browser's back button
  included; an update of a row that is gone announces success.
- `users.update` hashes whatever password the request carries, also none.
- The interceptor refreshes a refused refresh again, for ever, if no row has the token.
- A list of radio clients closes the connections to those that stay.
- A radio page that is left while a connection is on its way keeps it, through a
  reconnection with another id too: two pages may then each wait for the other's answer.
  The one turn of the run is too few to show it; the attempt to prove `NoGlare` without the
  discipline "leave" did, and TLC with two turns.
- The map's markers keep an older choice after a departure is chosen at a hub. When such a
  choice is reset there, the next click asks whether to book from nowhere: with lines
  x-b-hub, b-hub-y and hub-c, the clicks x, b, hub, a click beside the markers, and b lead to
  the question about x-b-hub with no departure.
- `replaceDriverAndBus` has no effect.

## 4. Proofs

Each for all values of the constants that satisfy the module's assumption.

`SeatBookingProofs` (`ConstantsAssumption`: the capacity is among the seats, `None` is
none of the other values, bounds are naturals):

In every behaviour:

- `TypeCorrect`: `Spec => []TypeOK`.
- `HoldInvariant`: `Spec => []HoldInv`: no handler took its time from the future
  (`ClockInv`); rows with one id, in the table or remembered, agree on user, seat and
  expiry, and ids are below `serial.reservation` (`NameInv`); a handler remembers only
  rows of its own user (`OwnInv`).
- `HoldsAreKept`: `Spec => HoldKept`. A purge deletes what expired before a time that
  is not in the future; a delete by remembered rows hits rows that are, by `NameInv`,
  the same holds, and by `OwnInv` the user's own.
- `BookingInvariant`: ids are keys, tickets have their booking, confirm adds tickets
  to bookings of its user.
- `ConfirmedTickets`: `Spec => []ConfirmedHasTicket`, through `SaleInv`: a handler that
  is about to mark a row has written its ticket. That a later update or removal of the
  booking does not undo it rests on `BookingInv`.

`HoldKept` and `ConfirmedHasTicket` are not inductive: a remembered row could be
anybody's, or an id reused, without `HoldInv`.

With disciplines. Each promise becomes inductive when what handlers have seen is added
to it, so that the write that would break it is known to come after a look that still
holds:

- `SeatsSoldOnce`: `DisciplineSpec => []SoldOnce` and `TicketsLimited`: `... => []TicketLimit`, from
  `SaleState`: one seller at a time (`OneSeller`); the seat he is about to sell has no
  ticket (`SeatFree`); his tickets and the rows he still has to sell fit the limit
  together (`Fits`: at the mark a row counts twice, as ticket and as row). That his row is
  among the valid ones is an invariant of its own (`RowsInv`).
- `HoldsExclusive`: `... => []HoldExclusive`, from `HoldState`: whoever is about to save a hold
  (`ReserveSave`) has seen none on the seat, and nobody else saves one; that confirm,
  which may insert deleted rows, adds no hold is the lemma `HandlerHolds`.
- `SelectedOnce`: `... => []OneSelected`, from `SelectState`: whoever is about to insert a
  booking has seen that its user has none. Its hypothesis `"Selected" \notin Updates` is about
  clients: none of the pages sends 'Выбран' to `PATCH /bookings/:id`, which would accept it.
- `SeatsLimited`: `... => []SeatLimit`, from `CountState`: at each statement of reserve and
  confirm, the seats of the tickets and unexpired holds of its user, with those still to
  be sold, are within the limit (`Counted`). Cardinalities of unions are compared by the
  lemmas on finite sets in front of it.

`TicketsProofs` (`TicketsAssumption`: the seats are `1 .. Total` with `Total` above 0, calls are of the four
kinds):

- `CapacitySorted`: `Spec => []Sorted`. `OrderInv` adds the arrays that handlers are about to
  write; that an insertion and the sort keep the order, and that a sorted array is left as it
  is, are lemmas on sequences (`InOrderStays`, `Segment`, ...).
- `OrderlyPool`: `DisciplineSpec => ImplementsPool`, the refinement of `SeatPool`, step by step.
  `PoolState` says what the array is at each statement of the one handler in flight, and
  that seats are either in it or on a ticket: `CreateSave` is the pool's `Take` of the first
  free seat, `CanselDelete` its `Return`, and every other step leaves `Free` and the sold
  seats as they are.

`CustomerProofs` is about `Payments` (`PaymentsAssumption`: a fare above 0, bounds that are
naturals) and, below, `Search`; the assumptions are about different constants, and each
theorem uses that of its own module.

- `PaymentInvariant`: `PaymentsSpec => []PaymentsInv`, where `PaymentsInv` is `TypeOK` with `HandlerInv` (the
  booking of a handler, a session or the page exists, and a handler about to write
  'Забронирован' works for a paid session), `EventInv` (a completed event is of a paid
  session) and `BookedIsPaid`. `PaymentTypes` and `BookedPaid` follow from it.

`BookedIsPaid` is not inductive: what a handler is about to write matters, and that
comes from events. The proof first shows what no step takes back (`Grows`: rows,
sessions, payments), so that handlers that do not move stay right, and then one case
per action for the one that does.

`TripsProofs` (`TripsAssumption`: ids are naturals above 0, there are finitely many
slots (`Requests`) and bookings, `Me` is a driver, `None` is none of the other values):

- `TripsInvariant`: `Spec => []IInv`: rows, page and handlers have their types, each
  handler remembers what its next statement needs, and the list of stops it
  remembers, like each that is stored, has no stop twice. `NoStopTwice` is not
  inductive without the remembered lists: `VisitWrite` stores one.
- `StopsVisitedOnce`: `Spec => []NoStopTwice`, however `addVisitedStop` overlaps itself.
- `StopsStay`: `DisciplineSpec => StopsKept`. While no two stops of one trip are about to
  be written (`OneVisit`), every list about to be written is the stored one and one
  stop more (`Extending`). Only `VisitRead` prepares a list and only `VisitWrite` stores
  one (`StillWriting`, `SameVisited`: one case per action); the finite set of writers of a
  trip has one element (`OneWriter`), so what one stores is not what another has read.

More of trips with disciplines:

- `TripsCrewed`: `DisciplineSpec => []Crewed`, from `MoveState`: a driver at `DriverMove` has his
  new bus already, and a trip whose bus nobody drives is on the bus such a driver left.
- `StopsSaved`: `... => []Saved`, from `SaveState`: a stop that is being told of is in the stored
  list, and what the page shows as reached is stored or in the list of a slot that has yet to
  write it (`BeingSaved`).
- `TripsNotUndercounted`: `... => []NotUndercounted`. Neither the counts nor the statuses are
  inductive alone, as `CompleteCount` counts one booking at a time and `CompleteWrite`
  completes them all later. `NotUnder` counts a booking as soon as a completion under way has
  (`InCount`): a crash then only takes from the left side of the inequality.
- `TripsCountedExactly`: `... => []CountExact`, from `Exact`: while trips are completed once and
  whole, the same inequality is an equation, since a trip that is being completed has no
  completed booking (`OnceOnly`).

`AccountsProofs` (`AccountsAssumption`: `Unset` is no password, `None` no email or tab, there are
emails and passwords; ids are the naturals above 0 without a bound):

- `EmailsUnique`: `Spec => []TypeOK`. `IInv` says what each slot remembers: a row that is saved,
  even after it was removed, has an id that was given out, and the save is refused if the
  email was taken meanwhile (the column is unique).
- `LogoutsEnd`: `DisciplineSpec => []LoggedOut`, from `SessionState`: tokens are at most `minted` and
  each row's is its own; a logout between its statements names the only row that may have its
  token (`LogoutSlot`). Without it a save of an old row could bring the token back: it does
  not, since every save that carries a row also mints.
- `BlocksEndSessions`: `... => []NoBlockedSession`, from `BlockState`: a slot that signs in as a
  blocked user has read so.
- `WritesKept`: `DisciplineSpec => NothingLost` and `SessionsStay`: `... => SessionKept` are action
  properties. The first needs `PasswordState` (no row has the hash of nothing), the second
  `OneUser`, by which the id a tab hears of is that of its session.

`CustomerProofs`, of `Search` (`SearchAssumption`: `Lines` is a sequence, of lines with stops, `None` is no stop):

- `TripsListed`: `DisciplineSpec => []TripsShown`, from `FetchState`: what is outstanding is for
  the date that is shown and has read what the timetable still says.
- `MarkersDrawn`: `... => []MarkersTrue`, from `MarkState`: there is one drawing, its markers are of
  the stops that are shown and known but for those the geocoder still owes, and all have
  seen one choice; with "same", the choice that is shown (`SeenNow`).
- `RouteFits`: `... => []LineFits`, from `LineState`: a marker that awaits an arrival remembers the
  departure that is shown. The attempt to prove `LineFits` with "early" alone failed, and
  rightly: see "the map's markers" in section 3. The instance of the run is too small to
  show it (five stops on three lines and five clicks are needed); the theorem is for all
  lines. Also `FoundFits`: the first line with both stops has them, by the
  well-foundedness of the naturals.

`BookingPageProofs` (`PageAssumption`: there are seats and clicks, `Timer` is none of them,
limit, length of a hold and bounds are naturals above 0):

- `CountdownIsHonest`: `DisciplineSpec => []CountdownHonest`, for every behaviour and any
  offset of the clock: `Honest` counts what the countdown may promise too much, one second
  for a callback that is due and one for each that was missed. A tick adds one of these, a
  count takes one back with its second, an answer of the list starts anew from the rows it
  carries, and no other step touches a countdown that goes on (`Untouched`).
- `PageShowsWhatIsHeld`: `... => []ShownIsHeld`. That page and server agree is true only at rest, so
  the invariant says why they will: `Synced`. Either a slot owes a new list (`Owed`: it has
  changed a seat and has yet to fetch), or the last answer on its way has what the server
  has, or the page does (`Fresh`). `Ordered` (one list on its way at a time) is what the
  discipline on answers gives.
- `WhatIsSoldWasShown`: `... => SoldAsShown`, from `Asked`: while a confirmation is alone, the server
  has no hold that the button did not show.

`DashboardProofs` (`DashboardAssumption`: there are two ids a table, a seat and a value):

- `ListsAreTables`: `DisciplineSpec => []ListTrue`, from `Listing`: for each list the panel needs, the
  list is its table, or a write of it is unanswered, or it is being fetched; and of two
  fetches of one list, one sent after the other was read, nothing was written between
  (`ReadNow`).
- `FormsEditWhatWasClicked`: `... => EditsClicked` and `FormsCloseForTheirOwn`: `... => ClosesOwn`, from
  `FormInv`: the one dialog is open for the panel that is shown (`Own`), its form has the id
  of what it was given (`FormOf`), the only pending request was sent from it, and a timer
  that will close it was started by its own answer. The history variable `opened`
  remembers what was clicked.

`RadioProofs` (`RadioAssumption`: bounds are naturals, there are ids for all browsers, 0 is
no browser). All rest on `RadioInv`: pages have their types and every connection is filed
under its peer, numbers being used once (`TypeOK`); a stream of messages names the
socket's own id before anything else matters (`Tuned`), its last list is the server's
(`Latest`), and offers come after a list with their sender (`Announced`); a page that was
left at rest has nothing (`Clean`).

- `NothingLeaks`: `DisciplineSpec => []NoneLeaked`: the second look at the map after the microphone
  was awaited is what keeps two tasks from making two connections to one peer.
- `NobodyGlares`: `... => []NoGlare`, from `Lower`: what a browser offers or is about to is for lesser
  ids, which its reconnection with a new id does not change, since it closes all.
- `NobodyIsAGhost`: `... => []NoGhost`, from `Listed`: tasks too are for clients of the list.
- `AnswersFit`: `... => AnswerFits`, from `Fits`: an offer stands for the connection in the sender's
  map from the moment it is sent (`Sent`), while it is on its way, awaited and answered
  (`Returned`) to the moment the answer is read (`Replies`), or a list will be read before.
- `TwoAreJoined`: `... => []Joins`, the theorem with the longest argument. `Linked` says of two browsers
  with ids how far the greater is on its way to the other, wherever messages, tasks and
  answers are: a list with the other's id will reach it when it knows its own
  (`Invited`), or it awaits a connection to the other, or it has offered and the offer or
  its answer is somewhere (`Pending`), or the two are joined; unless a list will close all it
  has (`Doomed`). What makes it inductive: a page has its id or will hear it (`Knows`);
  tasks and offers are aimed from the greater to the lesser id (`Aimed`); what an open page
  awaits finds its connection (`Opens`); each answer under way is to an offer its sender
  has accepted and stands by (`AnswersStand`); and `Fits`. At rest only "joined" is left. TLC
  checked these invariants before they were proved, on three browsers with no turn and on two
  with two (the latter in part: 19 million states).

Every invariant and every action property of the runs is a theorem. Only model-checked
is what promises an end: `HoldReleased`, `Answered`, `PaidIsBooked`, `RequestEnds` and `Usable`, for
fairness and ENABLED are beyond the prover. The violations are TLC's counterexamples.

## 5. Hazards without a property

- The seat map reads tickets and holds in two statements (`seat-reservations.service.ts:52`):
  a sale between them shows a sold seat as free. The map is wrong until it is fetched
  again and the code claims no more; the reserve it leads to refuses the seat.
- The profile page cancels bookings it saw without tickets (`ProfileContext.tsx:113`):
  nothing keeps a confirm from coming between the look and the cancellation.

Where the code does not stand up to a hazard, a discipline names what must not happen,
and the property says what holds otherwise: it does not show that the hazard is harmless.
This is so for the revival of cancelled bookings (`SoldOnce`, `TicketLimit`), overlapping
visits (`StopsKept`), a crash within a driver's move (`Crewed`), lost messages about a block
(`NoBlockedSession`), the refresh that is refused for ever (`RequestEnds`), lists that close
living connections (`Joins`, `AnswerFits`; `NoGhost` meets them), a form that is opened again
with what was typed (`EditsClicked`), answers that overtake each other (`ListTrue`,
`TripsShown`).

## 6. Not modelled

- Rendering: the drawing of the map and its zoom, colours, animations, menus, the
  contents of static pages; validation of texts, the wording of messages and mails.
- The access token, which no handler checks, and the expiry of the refresh token.
- The figures of free seats (`availableSeats` and those of lists of trips): they are
  shown and not used.
- The booking page's boarding point (`BookingContext.tsx:270`: each map that is fetched
  puts the map page's choice back over the user's own); with it the page's state
  space is beyond TLC's reach beside the clicks.
- ICE candidates, their queue and sound; `broadcast-offer`, which no page sends.
- `create` and `remove` of drivers, one statement each.
- Removal of bookings beside payments and the driver's statuses there, signatures and
  rounding of Stripe.
- The bot's menus, which change nothing; `markAllArrived`, which nothing calls.
- Column definitions and the rows that migrations insert into timetables; webpack and
  other build configuration; generated coverage reports.
