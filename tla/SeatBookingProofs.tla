------------------------- MODULE SeatBookingProofs --------------------------
(***************************************************************************)
(* Theorems about SeatBooking and SeatDisciplines, for any number of       *)
(* users, seats and overlapping requests, any limit, any length of a hold, *)
(* any bound on the clock and on the requests.                             *)
(***************************************************************************)
EXTENDS SeatDisciplines, FiniteSetTheorems, TLAPS

-----------------------------------------------------------------------------
(* Type correctness. *)

LEMMA IdleTyped == Idle \in Handler
  BY ConstantsAssumption
  DEF Idle, Handler, Locals, Statements, ReserveSteps, ViewSteps

\* Counting rows of a table is counting a finite set.
LEMMA Counts ==
  ASSUME TypeOK
  PROVE  /\ \A S \in SUBSET reservations : IsFiniteSet(S) /\ Cardinality(S) \in Nat
         /\ \A S \in SUBSET tickets : IsFiniteSet(S) /\ Cardinality(S) \in Nat
  BY FS_Subset, FS_CardinalityType DEF TypeOK

LEMMA AcceptType ==
  ASSUME TypeOK, NEW r \in Requests, NEW call, NEW q \in Handler, Accept(r, call, q)
  PROVE  TypeOK'
  BY DEF TypeOK, Accept, db

LEMMA ReadType ==
  ASSUME TypeOK, NEW r \in Requests, NEW statement, NEW q \in Handler,
         Read(r, statement, q)
  PROVE  TypeOK'
  BY DEF TypeOK, Read, Go, db, env

\* A statement that deletes rows of seat_reservations.
LEMMA DeleteType ==
  ASSUME TypeOK, NEW r \in Requests, NEW q \in Handler, Go(r, q),
         reservations' \subseteq reservations, OnlyReservations
  PROVE  TypeOK'
  BY FS_Subset DEF TypeOK, Go, OnlyReservations, env

LEMMA ReserveType ==
  ASSUME TypeOK, NEW r \in Requests, ReserveAccept(r) \/ Reserve(r)
  PROVE  TypeOK'
<1> USE DEF Handler, Locals, Statements, ReserveSteps, CancelSteps, SellSteps,
            ViewSteps, FindSteps, ChangeSteps
<1>1. ASSUME ReserveAccept(r) PROVE TypeOK'
  <2>1. PICK u \in Users, s \in Seats :
          Accept(r, "reserve", [Idle EXCEPT !.pc = "ReservePurge", !.user = u,
                                            !.seat = s, !.at = now])
    BY <1>1 DEF ReserveAccept
  <2>2. [Idle EXCEPT !.pc = "ReservePurge", !.user = u,
                     !.seat = s, !.at = now] \in Handler
    BY IdleTyped DEF Idle, TypeOK
  <2> QED BY <2>1, <2>2, AcceptType
<1>2. ASSUME ReservePurge(r) PROVE TypeOK'
  <2>1. [req[r] EXCEPT !.pc = "ReserveCountTickets"] \in Handler
    BY <1>2 DEF ReservePurge, At, TypeOK
  <2> QED BY <1>2, <2>1, DeleteType DEF ReservePurge, Unexpired
<1>3. ASSUME ReserveCountTickets(r) PROVE TypeOK'
  <2>1. Cardinality(ActiveTicketsOf(req[r].user)) \in Nat
    BY Counts DEF ActiveTicketsOf
  <2>2. req[r] \in Handler /\ req[r].pc = "ReserveCountTickets"
    BY <1>3 DEF ReserveCountTickets, Read, At, TypeOK
  <2>3. \A n \in Nat : [req[r] EXCEPT !.pc = "ReserveCountHolds", !.count = n] \in Handler
    BY <2>2
  <2> QED BY <1>3, <2>1, <2>3, ReadType DEF ReserveCountTickets
<1>4. ASSUME ReserveCountHolds(r) PROVE TypeOK'
  <2>1. req[r] \in Handler /\ req[r].pc = "ReserveCountHolds"
    BY <1>4 DEF ReserveCountHolds, Read, At, TypeOK
  <2>2. [req[r] EXCEPT !.pc = "ReserveCheckTaken", !.count = 0] \in Handler
    BY <2>1
  <2> QED BY <1>4, <2>2, IdleTyped, ReadType DEF ReserveCountHolds
<1>5. ASSUME ReserveCheckTaken(r) PROVE TypeOK'
  <2>1. [req[r] EXCEPT !.pc = "ReserveCheckHeld"] \in Handler
    BY <1>5 DEF ReserveCheckTaken, Read, At, TypeOK
  <2> QED BY <1>5, <2>1, IdleTyped, ReadType DEF ReserveCheckTaken
<1>6. ASSUME ReserveCheckHeld(r) PROVE TypeOK'
  <2>1. [req[r] EXCEPT !.pc = "ReserveSave"] \in Handler
    BY <1>6 DEF ReserveCheckHeld, Read, At, TypeOK
  <2> QED BY <1>6, <2>1, IdleTyped, ReadType DEF ReserveCheckHeld
<1>7. ASSUME ReserveSave(r) PROVE TypeOK'
  <2> DEFINE row == [id |-> serial.reservation, user |-> req[r].user,
                     seat |-> req[r].seat, status |-> "reserved",
                     expires |-> req[r].at + HoldTime]
  <2>1. row \in Reservation
    BY <1>7, ConstantsAssumption DEF ReserveSave, TypeOK, Reservation, At
  <2>2. IsFiniteSet(reservations \cup {row})
    BY FS_AddElement DEF TypeOK
  <2>3. (req \in [Requests -> Handler])'
    BY <1>7, IdleTyped DEF ReserveSave, Answer, Go, TypeOK
  <2> QED BY <1>7, <2>1, <2>2, <2>3 DEF ReserveSave, TypeOK, env
<1> QED BY <1>1, <1>2, <1>3, <1>4, <1>5, <1>6, <1>7 DEF Reserve

LEMMA CancelType ==
  ASSUME TypeOK, NEW r \in Requests, CancelAccept(r) \/ CancelAllAccept(r) \/ Cancel(r)
  PROVE  TypeOK'
<1> USE DEF Handler, Locals, Statements, ReserveSteps, CancelSteps, SellSteps,
            ViewSteps, FindSteps, ChangeSteps
<1>1. ASSUME CancelAccept(r) PROVE TypeOK'
  <2>1. PICK u \in Users, id \in 1 .. serial.reservation - 1 :
          Accept(r, "cancel", [Idle EXCEPT !.pc = "CancelFind", !.user = u, !.id = id])
    BY <1>1 DEF CancelAccept
  <2>2. id \in Nat
    BY DEF TypeOK
  <2>3. [Idle EXCEPT !.pc = "CancelFind", !.user = u, !.id = id] \in Handler
    BY <2>2, IdleTyped DEF Idle
  <2> QED BY <2>1, <2>3, AcceptType
<1>2. ASSUME CancelAllAccept(r) PROVE TypeOK'
  <2>1. PICK u \in Users :
          Accept(r, "cancelAll", [Idle EXCEPT !.pc = "CancelAllDelete", !.user = u])
    BY <1>2 DEF CancelAllAccept
  <2>2. [Idle EXCEPT !.pc = "CancelAllDelete", !.user = u] \in Handler
    BY IdleTyped DEF Idle
  <2> QED BY <2>1, <2>2, AcceptType
<1>3. ASSUME CancelFind(r) PROVE TypeOK'
  <2>1. req[r] \in Handler /\ req[r].pc = "CancelFind" /\ reservations \subseteq Reservation
    BY <1>3 DEF CancelFind, Read, At, TypeOK
  <2>2. \A S \in SUBSET Reservation :
          [req[r] EXCEPT !.pc = "CancelRemove", !.rows = S] \in Handler
    BY <2>1
  <2>3. {h \in HoldsOf(req[r].user) : h.id = req[r].id} \in SUBSET Reservation
    BY <2>1 DEF HoldsOf, Holds
  <2> HIDE DEF Handler
  <2> QED BY <1>3, <2>2, <2>3, IdleTyped, ReadType DEF CancelFind
<1>4. ASSUME CancelRemove(r) PROVE TypeOK'
  BY <1>4, IdleTyped, DeleteType DEF CancelRemove, Answer, Without
<1>5. ASSUME CancelAllDelete(r) PROVE TypeOK'
  BY <1>5, IdleTyped, DeleteType DEF CancelAllDelete, Answer
<1> QED BY <1>1, <1>2, <1>3, <1>4, <1>5 DEF Cancel

\* The head of confirm's loop is a well-formed handler whatever rows are left.
LEMMA LoopTyped ==
  ASSUME NEW q \in Handler, q.pc \in SellSteps, NEW S \in SUBSET Reservation
  PROVE  Loop(q) \in Handler /\ Loop([q EXCEPT !.rows = S]) \in Handler
<1> DEFINE p == [q EXCEPT !.rows = S]
<1>1. q.user \in Users
  BY DEF Handler, Locals, Statements, ReserveSteps, SellSteps, ViewSteps, FindSteps
<1>2. p \in Handler /\ p.user \in Users
  BY <1>1 DEF Handler, Locals, Statements, SellSteps, ReserveSteps
<1>3. \A x \in Handler : x.user \in Users => Loop(x) \in Handler
  <2> SUFFICES ASSUME NEW x \in Handler, x.user \in Users,
                      NEW pc \in {"ConfirmCheckTaken", "ConfirmPurge", "ConfirmReply"}
               PROVE  [x EXCEPT !.id = 0, !.booking = 0, !.count = 0, !.pc = pc] \in Handler
    BY DEF Loop
  <2>1. x.user \in Users \cup {None} /\ pc \in Statements
    BY DEF Handler, Locals, Statements, SellSteps
  <2>2. pc \notin {"idle"} \cup ViewSteps \cup FindSteps
    BY DEF ViewSteps, FindSteps
  <2> QED BY <2>1, <2>2 DEF Handler, Locals, ReserveSteps, SellSteps
<1> QED BY <1>1, <1>2, <1>3

LEMMA ConfirmType ==
  ASSUME TypeOK, NEW r \in Requests, ConfirmAccept(r) \/ Confirm(r)
  PROVE  TypeOK'
<1> USE DEF Handler, Locals, Statements, ReserveSteps, CancelSteps, SellSteps,
            ViewSteps, FindSteps, ChangeSteps
<1>0. req[r] \in Handler /\ reservations \in SUBSET Reservation
  BY DEF TypeOK
<1>1. ASSUME ConfirmAccept(r) PROVE TypeOK'
  <2>1. PICK u \in Users :
          Accept(r, "confirm", [Idle EXCEPT !.pc = "ConfirmFind", !.user = u, !.at = now])
    BY <1>1 DEF ConfirmAccept
  <2>2. now \in Nat
    BY DEF TypeOK
  <2>3. [Idle EXCEPT !.pc = "ConfirmFind", !.user = u, !.at = now] \in Handler
    BY <2>2, IdleTyped DEF Idle
  <2> QED BY <2>1, <2>3, AcceptType
<1>2. ASSUME ConfirmFind(r) PROVE TypeOK'
  <2>1. req[r].pc = "ConfirmFind"
    BY <1>2 DEF ConfirmFind, Read, At
  <2>2. \A S \in SUBSET Reservation :
          [req[r] EXCEPT !.pc = "ConfirmCount", !.rows = S] \in Handler
    BY <1>0, <2>1
  <2>3. HoldsOf(req[r].user) \in SUBSET Reservation
    BY <1>0 DEF HoldsOf, Holds
  <2> HIDE DEF Handler
  <2> QED BY <1>2, <2>2, <2>3, IdleTyped, ReadType DEF ConfirmFind
<1>3. ASSUME ConfirmCount(r) PROVE TypeOK'
  <2>1. req[r].pc = "ConfirmCount"
    BY <1>3 DEF ConfirmCount, Read, At
  <2>2. Loop(req[r]) \in Handler
    BY <1>0, <2>1, LoopTyped
  <2> QED BY <1>3, <2>2, IdleTyped, ReadType DEF ConfirmCount
<1>4. ASSUME ConfirmCheckTaken(r) PROVE TypeOK'
  <2> DEFINE pc(h) == IF h.seat \in TakenSeats THEN "ConfirmDrop"
                      ELSE "ConfirmFindBooking"
  <2>1. PICK h \in Valid(req[r]) :
          Read(r, "ConfirmCheckTaken", [req[r] EXCEPT !.id = h.id, !.pc = pc(h)])
    BY <1>4 DEF ConfirmCheckTaken
  <2>2. req[r].pc = "ConfirmCheckTaken" /\ h.id \in Nat
    BY <1>0, <2>1 DEF Read, At, Valid, Reservation
  <2>3. pc(h) \in {"ConfirmDrop", "ConfirmFindBooking"}
    OBVIOUS
  <2> HIDE DEF pc
  <2>4. [req[r] EXCEPT !.id = h.id, !.pc = pc(h)] \in Handler
    BY <1>0, <2>2, <2>3
  <2> QED BY <2>1, <2>4, ReadType
<1>5. ASSUME ConfirmDrop(r) PROVE TypeOK'
  <2>1. req[r].pc = "ConfirmDrop" /\ req[r].rows \ Current(r) \in SUBSET Reservation
    BY <1>0, <1>5 DEF ConfirmDrop, At
  <2>2. Loop([req[r] EXCEPT !.rows = @ \ Current(r)]) \in Handler
    BY <1>0, <2>1, LoopTyped
  <2> QED BY <1>5, <2>2, DeleteType DEF ConfirmDrop, Without
<1>6. ASSUME ConfirmFindBooking(r) PROVE TypeOK'
  <2>1. req[r].pc = "ConfirmFindBooking"
    BY <1>6 DEF ConfirmFindBooking, Read, At
  <2>2. \A i \in Nat : [req[r] EXCEPT !.pc = "ConfirmAddTicket", !.booking = i] \in Handler
    BY <1>0, <2>1
  <2>3. [req[r] EXCEPT !.pc = "ConfirmAddBooking"] \in Handler
    BY <1>0, <2>1
  <2>4. \A b \in SelectedOf(req[r].user) : b.id \in Nat
    BY DEF SelectedOf, TypeOK, Booking
  <2>5. CASE SelectedOf(req[r].user) = {} /\ Read(r, "ConfirmFindBooking",
                  [req[r] EXCEPT !.pc = "ConfirmAddBooking"])
    BY <2>3, <2>5, ReadType
  <2>6. CASE \E b \in SelectedOf(req[r].user) : Read(r, "ConfirmFindBooking",
                  [req[r] EXCEPT !.pc = "ConfirmAddTicket", !.booking = b.id])
    BY <2>2, <2>4, <2>6, ReadType
  <2> QED BY <1>6, <2>5, <2>6 DEF ConfirmFindBooking
<1>7. ASSUME ConfirmAddBooking(r) PROVE TypeOK'
  <2> DEFINE row == [id |-> serial.booking, user |-> req[r].user, status |-> "Selected"]
  <2>1. req[r].pc = "ConfirmAddBooking" /\ serial.booking \in Nat
    BY <1>7 DEF ConfirmAddBooking, At, TypeOK
  <2>2. row \in Booking
    BY <1>0, <2>1 DEF Booking, Statuses
  <2>3. \A i \in Nat : [req[r] EXCEPT !.pc = "ConfirmAddTicket", !.booking = i] \in Handler
    BY <1>0, <2>1
  <2>5. [req[r] EXCEPT !.pc = "ConfirmAddTicket", !.booking = serial.booking] \in Handler
    BY <2>1, <2>3
  <2>4. (req \in [Requests -> Handler])'
    BY <1>7, <2>5 DEF ConfirmAddBooking, Go, TypeOK
  <2> QED BY <1>7, <2>2, <2>4 DEF ConfirmAddBooking, TypeOK, env
<1>8. ASSUME ConfirmAddTicket(r) PROVE TypeOK'
  <2>1. req[r].pc = "ConfirmAddTicket" /\ serial.ticket \in Nat
    BY <1>8 DEF ConfirmAddTicket, At, TypeOK
  <2>2. [req[r] EXCEPT !.pc = "ConfirmMark"] \in Handler
    BY <1>0, <2>1
  <2>3. (req \in [Requests -> Handler])'
    BY <1>8, <2>2, IdleTyped DEF ConfirmAddTicket, Answer, Go, TypeOK
  <2>4. ASSUME NEW h \in Current(r)
        PROVE  [id |-> serial.ticket, booking |-> req[r].booking, seat |-> h.seat] \in Ticket
    BY <1>0, <2>1 DEF Current, Reservation, Ticket
  <2>5. tickets' \in SUBSET Ticket /\ IsFiniteSet(tickets')
    <3>1. IsFiniteSet(tickets) /\ tickets \in SUBSET Ticket
      BY DEF TypeOK
    <3>2. CASE UNCHANGED tickets
      BY <3>1, <3>2
    <3>3. ASSUME NEW t \in Ticket, tickets' = tickets \cup {t}
          PROVE  tickets' \in SUBSET Ticket /\ IsFiniteSet(tickets')
      BY <3>1, <3>3, FS_AddElement
    <3> QED BY <1>8, <2>4, <3>2, <3>3 DEF ConfirmAddTicket
  <2>6. (serial \in [reservation: Nat, booking: Nat, ticket: Nat])'
    BY <1>8 DEF ConfirmAddTicket, TypeOK
  <2> QED BY <1>8, <2>3, <2>5, <2>6 DEF ConfirmAddTicket, TypeOK, env
<1>9. ASSUME ConfirmMark(r) PROVE TypeOK'
  <2>1. req[r].pc = "ConfirmMark" /\ req[r].rows \ Current(r) \in SUBSET Reservation
    BY <1>0, <1>9 DEF ConfirmMark, At
  <2>2. Loop([req[r] EXCEPT !.rows = @ \ Current(r)]) \in Handler
    BY <1>0, <2>1, LoopTyped
  <2>3. (req \in [Requests -> Handler])'
    BY <1>9, <2>2 DEF ConfirmMark, Go, TypeOK
  <2>4. CASE UNCHANGED reservations
    BY <1>9, <2>3, <2>4 DEF ConfirmMark, TypeOK, OnlyReservations, env
  <2>5. ASSUME NEW h \in Current(r),
               reservations' = Without({h}) \cup {[h EXCEPT !.status = "confirmed"]}
        PROVE  TypeOK'
    <3>1. h \in Reservation /\ [h EXCEPT !.status = "confirmed"] \in Reservation
      BY <1>0 DEF Current, Reservation
    <3>2. Without({h}) \in SUBSET reservations
      BY DEF Without
    <3>3. IsFiniteSet(reservations')
      BY <2>5, <3>2, Counts, FS_AddElement
    <3> QED BY <1>0, <1>9, <2>3, <2>5, <3>1, <3>2, <3>3
            DEF ConfirmMark, TypeOK, OnlyReservations, env
  <2> QED BY <1>9, <2>4, <2>5 DEF ConfirmMark
<1>10. ASSUME ConfirmPurge(r) PROVE TypeOK'
  <2>1. req[r].pc = "ConfirmPurge"
    BY <1>10 DEF ConfirmPurge, At
  <2>2. [req[r] EXCEPT !.pc = "ConfirmReply", !.rows = {}] \in Handler
    BY <1>0, <2>1
  <2> QED BY <1>10, <2>2, DeleteType DEF ConfirmPurge, Without
<1>11. ASSUME ConfirmReply(r) PROVE TypeOK'
  BY <1>11, IdleTyped, ReadType DEF ConfirmReply
<1> QED BY <1>1, <1>2, <1>3, <1>4, <1>5, <1>6, <1>7, <1>8, <1>9, <1>10, <1>11 DEF Confirm

LEMMA ViewType ==
  ASSUME TypeOK, NEW r \in Requests, ViewAccept(r) \/ ListAccept(r) \/ View(r)
  PROVE  TypeOK'
<1> USE DEF Handler, Locals, Statements, ReserveSteps, CancelSteps, SellSteps,
            ViewSteps, FindSteps, ChangeSteps
<1>0. req[r] \in Handler /\ now \in Nat
  BY DEF TypeOK
<1>1. ASSUME ViewAccept(r) PROVE TypeOK'
  <2>1. \A n \in Nat : [Idle EXCEPT !.pc = "ViewPurge", !.at = n] \in Handler
    BY IdleTyped DEF Idle
  <2> HIDE DEF Handler
  <2> QED BY <1>0, <1>1, <2>1, AcceptType DEF ViewAccept
<1>2. ASSUME ListAccept(r) PROVE TypeOK'
  <2>1. \A n \in Nat : [Idle EXCEPT !.pc = "ListPurge", !.at = n] \in Handler
    BY IdleTyped DEF Idle
  <2> HIDE DEF Handler
  <2> QED BY <1>0, <1>2, <2>1, AcceptType DEF ListAccept
<1>3. ASSUME ViewPurge(r) PROVE TypeOK'
  <2>1. req[r].pc = "ViewPurge"
    BY <1>3 DEF ViewPurge, At
  <2>2. [req[r] EXCEPT !.pc = "ViewTickets"] \in Handler
    BY <1>0, <2>1
  <2> QED BY <1>3, <2>2, DeleteType DEF ViewPurge, Unexpired
<1>4. ASSUME ViewTickets(r) PROVE TypeOK'
  <2>1. req[r].pc = "ViewTickets"
    BY <1>4 DEF ViewTickets, Read, At
  <2>2. TakenSeats \in SUBSET Seats
    BY DEF TakenSeats, ActiveTickets, TypeOK, Ticket
  <2>3. \A S \in SUBSET Seats : [req[r] EXCEPT !.pc = "ViewHolds", !.taken = S] \in Handler
    BY <1>0, <2>1
  <2> QED BY <1>4, <2>2, <2>3, ReadType DEF ViewTickets
<1>5. ASSUME ViewHolds(r) PROVE TypeOK'
  BY <1>5, IdleTyped, ReadType DEF ViewHolds
<1>6. ASSUME ListPurge(r) PROVE TypeOK'
  BY <1>6, IdleTyped, DeleteType DEF ListPurge, Unexpired, Answer
<1> QED BY <1>1, <1>2, <1>3, <1>4, <1>5, <1>6 DEF View

LEMMA BookType ==
  ASSUME TypeOK, NEW r \in Requests,
         SelectAccept(r) \/ UpdateAccept(r) \/ RemoveAccept(r) \/ Book(r)
  PROVE  TypeOK'
<1> USE DEF Handler, Locals, Statements, ReserveSteps, CancelSteps, SellSteps,
            ViewSteps, FindSteps, ChangeSteps
<1>0. req[r] \in Handler /\ bookings \in SUBSET Booking /\ serial.booking \in Nat
  BY DEF TypeOK
<1>1. ASSUME SelectAccept(r) PROVE TypeOK'
  <2>1. PICK u \in Users : Accept(r, "select", [Idle EXCEPT !.pc = "SelectFind", !.user = u])
    BY <1>1 DEF SelectAccept
  <2>2. [Idle EXCEPT !.pc = "SelectFind", !.user = u] \in Handler
    BY IdleTyped DEF Idle
  <2> QED BY <2>1, <2>2, AcceptType
<1>2. ASSUME UpdateAccept(r) PROVE TypeOK'
  <2>1. PICK id \in 1 .. serial.booking - 1, st \in Updates :
          Accept(r, "update", [Idle EXCEPT !.pc = "UpdateFind", !.id = id, !.status = st])
    BY <1>2 DEF UpdateAccept
  <2>2. id \in Nat /\ st \in Statuses
    BY <1>0, ConstantsAssumption
  <2>3. [Idle EXCEPT !.pc = "UpdateFind", !.id = id, !.status = st] \in Handler
    BY <2>2, IdleTyped DEF Idle
  <2> QED BY <2>1, <2>3, AcceptType
<1>3. ASSUME RemoveAccept(r) PROVE TypeOK'
  <2>1. PICK id \in 1 .. serial.booking - 1 :
          Accept(r, "remove", [Idle EXCEPT !.pc = "RemoveFind", !.id = id])
    BY <1>3 DEF RemoveAccept
  <2>2. id \in Nat
    BY <1>0
  <2>3. [Idle EXCEPT !.pc = "RemoveFind", !.id = id] \in Handler
    BY <2>2, IdleTyped DEF Idle
  <2> QED BY <2>1, <2>3, AcceptType
<1>4. ASSUME SelectFind(r) PROVE TypeOK'
  <2>1. req[r].pc = "SelectFind"
    BY <1>4 DEF SelectFind, Read, At
  <2>2. [req[r] EXCEPT !.pc = "SelectInsert"] \in Handler
    BY <1>0, <2>1
  <2> QED BY <1>4, <2>2, IdleTyped, ReadType DEF SelectFind
<1>5. ASSUME SelectInsert(r) PROVE TypeOK'
  <2> DEFINE row == [id |-> serial.booking, user |-> req[r].user, status |-> "Selected"]
  <2>1. req[r].pc = "SelectInsert"
    BY <1>5 DEF SelectInsert, At
  <2>2. row \in Booking
    BY <1>0, <2>1 DEF Booking, Statuses
  <2>3. (req \in [Requests -> Handler])'
    BY <1>5, IdleTyped DEF SelectInsert, Answer, Go, TypeOK
  <2> QED BY <1>5, <2>2, <2>3 DEF SelectInsert, TypeOK, env
<1>6. ASSUME UpdateFind(r) PROVE TypeOK'
  <2>1. req[r].pc = "UpdateFind"
    BY <1>6 DEF UpdateFind, Read, At
  <2> DEFINE pc == IF req[r].status \in Inactive THEN "UpdateRelease" ELSE "UpdateWrite"
  <2>2. pc \in {"UpdateRelease", "UpdateWrite"}
    OBVIOUS
  <2> HIDE DEF pc
  <2>3. ASSUME NEW b \in bookings,
               Read(r, "UpdateFind", [req[r] EXCEPT !.user = b.user, !.pc = pc])
        PROVE  TypeOK'
    <3>1. b.user \in Users
      BY <1>0 DEF Booking
    <3>2. [req[r] EXCEPT !.user = b.user, !.pc = pc] \in Handler
      BY <1>0, <2>1, <2>2, <3>1
    <3> QED BY <2>3, <3>2, ReadType
  <2> QED BY <1>6, <2>3, IdleTyped, ReadType DEF UpdateFind, pc
<1>7. ASSUME UpdateRelease(r) PROVE TypeOK'
  <2>1. req[r].pc = "UpdateRelease"
    BY <1>7 DEF UpdateRelease, At
  <2>2. [req[r] EXCEPT !.pc = "UpdateWrite"] \in Handler
    BY <1>0, <2>1
  <2> QED BY <1>7, <2>2, DeleteType DEF UpdateRelease
<1>8. ASSUME UpdateWrite(r) PROVE TypeOK'
  <2>1. req[r].status \in Statuses
    BY <1>0, <1>8 DEF UpdateWrite, At
  <2>2. \A b \in Booking : [b EXCEPT !.status = req[r].status] \in Booking
    BY <2>1 DEF Booking
  <2>3. bookings' \in SUBSET Booking
    BY <1>0, <1>8, <2>2 DEF UpdateWrite
  <2>4. (req \in [Requests -> Handler])'
    BY <1>8, IdleTyped DEF UpdateWrite, Answer, Go, TypeOK
  <2> QED BY <1>8, <2>3, <2>4 DEF UpdateWrite, TypeOK, env
<1>9. ASSUME RemoveFind(r) PROVE TypeOK'
  <2>1. req[r].pc = "RemoveFind"
    BY <1>9 DEF RemoveFind, Read, At
  <2>2. \A u \in Users : [req[r] EXCEPT !.pc = "RemoveRelease", !.user = u] \in Handler
    BY <1>0, <2>1
  <2>3. \A b \in bookings : b.user \in Users
    BY <1>0 DEF Booking
  <2>4. ASSUME NEW b \in bookings,
               Read(r, "RemoveFind", [req[r] EXCEPT !.pc = "RemoveRelease", !.user = b.user])
        PROVE  TypeOK'
    BY <2>2, <2>3, <2>4, ReadType
  <2> QED BY <1>9, <2>4, IdleTyped, ReadType DEF RemoveFind
<1>10. ASSUME RemoveRelease(r) PROVE TypeOK'
  <2>1. req[r].pc = "RemoveRelease"
    BY <1>10 DEF RemoveRelease, At
  <2>2. [req[r] EXCEPT !.pc = "RemoveDelete"] \in Handler
    BY <1>0, <2>1
  <2> QED BY <1>10, <2>2, DeleteType DEF RemoveRelease
<1>11. ASSUME RemoveDelete(r) PROVE TypeOK'
  <2>1. (req \in [Requests -> Handler])'
    BY <1>11, IdleTyped DEF RemoveDelete, Answer, Go, TypeOK
  <2> QED BY <1>11, <2>1 DEF RemoveDelete, TypeOK, env
<1> QED BY <1>1, <1>2, <1>3, <1>4, <1>5, <1>6, <1>7, <1>8, <1>9, <1>10, <1>11 DEF Book

\* In every reachable state the tables hold finitely many well-typed rows and
\* every handler has locals of their types (the parameters its statement needs
\* are there).
THEOREM TypeCorrect == Spec => []TypeOK
<1>1. Init => TypeOK
  BY IdleTyped, FS_EmptySet DEF Init, TypeOK
<1>2. TypeOK /\ [Next]_vars => TypeOK'
  <2> SUFFICES ASSUME TypeOK, [Next]_vars PROVE TypeOK'
    OBVIOUS
  <2>1. ASSUME NEW r \in Requests, NewRequest(r) \/ Handle(r) PROVE TypeOK'
    BY <2>1, ReserveType, CancelType, ConfirmType, ViewType, BookType
    DEF NewRequest, Handle
  <2>2. CASE Cleanup
    BY <2>2, FS_Subset DEF Cleanup, Unexpired, TypeOK, env
  <2>3. CASE Tick
    BY <2>3 DEF Tick, TypeOK, db
  <2>4. CASE Crash
    BY <2>4, IdleTyped DEF Crash, TypeOK, db, env
  <2>5. CASE UNCHANGED vars
    BY <2>5 DEF vars, TypeOK
  <2> QED BY <2>1, <2>2, <2>3, <2>4, <2>5 DEF Next
<1> QED BY <1>1, <1>2, PTL DEF Spec

-----------------------------------------------------------------------------
(* The rows that handlers remember. *)

\* A step of one handler keeps HoldInv if the rows it leaves in the table are
\* known ones (perhaps with another status) and it remembers known rows of its
\* user only.
LEMMA HoldStep ==
  ASSUME TypeOK, HoldInv, NEW r \in Requests, NEW q \in Handler, Go(r, q),
         now' = now, serial'.reservation = serial.reservation,
         q.at <= now,
         \A h \in reservations' : \E g \in Known : SameHold(g, h),
         \A h \in q.rows : h \in Known /\ h.user = q.user,
         q.pc \in FindSteps => q.rows = {}
  PROVE  HoldInv'
<1>1. req' = [req EXCEPT ![r] = q] /\ req \in [Requests -> Handler]
  BY DEF Go, TypeOK
<1>2. ClockInv'
  BY <1>1 DEF HoldInv, ClockInv
<1>3. OwnInv'
  BY <1>1 DEF HoldInv, OwnInv
<1>4. \A h \in Known' : \E g \in Known : SameHold(g, h)
  BY <1>1 DEF Known, SameHold
<1>5. NameInv'
  BY <1>4 DEF HoldInv, NameInv, SameHold
<1> QED BY <1>2, <1>3, <1>5 DEF HoldInv

\* The idle handler, and one that forgets nothing and learns nothing.
LEMMA HoldAnswer ==
  ASSUME TypeOK, HoldInv, NEW r \in Requests, Answer(r),
         now' = now, serial'.reservation = serial.reservation,
         \A h \in reservations' : \E g \in Known : SameHold(g, h)
  PROVE  HoldInv'
<1>1. Idle.rows = {} /\ Idle.at = 0 /\ Idle.pc = "idle"
  BY DEF Idle
<1>2. 0 <= now
  BY DEF TypeOK
<1> QED BY <1>1, <1>2, IdleTyped, HoldStep DEF Answer, FindSteps

LEMMA Remembered ==
  ASSUME NEW r \in Requests
  PROVE  /\ reservations \subseteq Known /\ req[r].rows \subseteq Known
         /\ \A h \in Known : SameHold(h, h)
  BY DEF Known, SameHold

\* A handler goes on with the rows it has, for the same user.
LEMMA HoldMove ==
  ASSUME TypeOK, HoldInv, NEW r \in Requests, NEW q \in Handler, Go(r, q),
         now' = now, serial'.reservation = serial.reservation,
         \A h \in reservations' : \E g \in Known : SameHold(g, h),
         q.at = req[r].at, q.user = req[r].user,
         q.rows \subseteq req[r].rows, q.pc \notin FindSteps
  PROVE  HoldInv'
<1>1. q.at <= now
  BY DEF HoldInv, ClockInv
<1>2. \A h \in q.rows : h \in Known /\ h.user = q.user
  BY Remembered DEF HoldInv, OwnInv
<1> QED BY <1>1, <1>2, HoldStep

\* A query that only reads leaves every row of the table as it is.
LEMMA ReadKeeps ==
  ASSUME TypeOK, NEW r \in Requests, NEW statement, NEW q, Read(r, statement, q)
  PROVE  /\ Go(r, q) /\ now' = now /\ serial'.reservation = serial.reservation
         /\ \A h \in reservations' : \E g \in Known : SameHold(g, h)
  BY Remembered DEF Read, db, env

\* So does one that deletes rows, for those that remain.
LEMMA DeleteKeeps ==
  ASSUME TypeOK, NEW r \in Requests, reservations' \subseteq reservations, OnlyReservations
  PROVE  /\ now' = now /\ serial'.reservation = serial.reservation
         /\ \A h \in reservations' : \E g \in Known : SameHold(g, h)
  BY Remembered DEF OnlyReservations, env

LEMMA NewRequestHold ==
  ASSUME TypeOK, TypeOK', HoldInv, NEW r \in Requests, NewRequest(r)
  PROVE  HoldInv'
<1> DEFINE q == req'[r]
<1>1. /\ Go(r, q) /\ UNCHANGED <<db, now>>
      /\ q.rows = {} /\ q.at \in {0, now}
  <2> USE DEF Accept, Go, Idle, TypeOK
  <2>1. CASE ReserveAccept(r)    BY <2>1 DEF ReserveAccept
  <2>2. CASE CancelAccept(r)     BY <2>2 DEF CancelAccept
  <2>3. CASE CancelAllAccept(r)  BY <2>3 DEF CancelAllAccept
  <2>4. CASE ConfirmAccept(r)    BY <2>4 DEF ConfirmAccept
  <2>5. CASE ViewAccept(r)       BY <2>5 DEF ViewAccept
  <2>6. CASE ListAccept(r)       BY <2>6 DEF ListAccept
  <2>7. CASE SelectAccept(r)     BY <2>7 DEF SelectAccept
  <2>8. CASE UpdateAccept(r)     BY <2>8 DEF UpdateAccept
  <2>9. CASE RemoveAccept(r)     BY <2>9 DEF RemoveAccept
  <2> QED BY <2>1, <2>2, <2>3, <2>4, <2>5, <2>6, <2>7, <2>8, <2>9 DEF NewRequest
<1>2. q \in Handler /\ q.at <= now
  BY <1>1 DEF TypeOK
<1>3. \A h \in reservations' : \E g \in Known : SameHold(g, h)
  BY <1>1, Remembered DEF db
<1> HIDE DEF q
<1> QED BY <1>1, <1>2, <1>3, HoldStep DEF db

\* The handler a step leaves behind has the type of a handler.
LEMMA GoTyped ==
  ASSUME TypeOK, TypeOK', NEW r \in Requests, NEW q, Go(r, q)
  PROVE  q \in Handler /\ req'[r] = q /\ req[r] \in Handler
  BY DEF TypeOK, Go

\* Reads after which the handler only moves on, or is answered.
LEMMA ReadMoveHold ==
  ASSUME TypeOK, TypeOK', HoldInv, NEW r \in Requests, NEW statement, NEW q,
         Read(r, statement, q), q.at = req[r].at, q.user = req[r].user,
         q.rows = req[r].rows, q.pc \notin FindSteps
  PROVE  HoldInv'
  BY ReadKeeps, GoTyped, HoldMove

LEMMA ReadPcHold ==
  ASSUME TypeOK, TypeOK', HoldInv, NEW r \in Requests, NEW statement,
         NEW p \in Statements \ FindSteps,
         Read(r, statement, [req[r] EXCEPT !.pc = p])
  PROVE  HoldInv'
<1> DEFINE q == [req[r] EXCEPT !.pc = p]
<1>1. q.rows = req[r].rows /\ q.user = req[r].user /\ q.at = req[r].at /\ q.pc = p
  BY DEF TypeOK, Handler, Locals
<1>2. Read(r, statement, q)
  OBVIOUS
<1> HIDE DEF q
<1> QED BY <1>1, <1>2, ReadMoveHold

LEMMA ReadIdleHold ==
  ASSUME TypeOK, HoldInv, NEW r \in Requests, NEW statement, Read(r, statement, Idle)
  PROVE  HoldInv'
  BY ReadKeeps, HoldAnswer DEF Answer

\* Deletions after which the handler only moves on, or is answered.
LEMMA DeletePcHold ==
  ASSUME TypeOK, TypeOK', HoldInv, NEW r \in Requests,
         NEW p \in Statements \ FindSteps, Go(r, [req[r] EXCEPT !.pc = p]),
         reservations' \subseteq reservations, OnlyReservations
  PROVE  HoldInv'
<1> DEFINE q == [req[r] EXCEPT !.pc = p]
<1>1. q.rows = req[r].rows /\ q.user = req[r].user /\ q.at = req[r].at /\ q.pc = p
  BY DEF TypeOK, Handler, Locals
<1>2. Go(r, q)
  OBVIOUS
<1> HIDE DEF q
<1> QED BY <1>1, <1>2, DeleteKeeps, GoTyped, HoldMove

LEMMA DeleteIdleHold ==
  ASSUME TypeOK, HoldInv, NEW r \in Requests, Answer(r),
         reservations' \subseteq reservations, OnlyReservations
  PROVE  HoldInv'
  BY DeleteKeeps, HoldAnswer

LEMMA ReserveHold ==
  ASSUME TypeOK, TypeOK', HoldInv, NEW r \in Requests, Reserve(r)
  PROVE  HoldInv'
<1> USE DEF FindSteps, Statements, ReserveSteps
<1>0. req[r] \in Locals
  BY DEF TypeOK, Handler
<1>1. CASE ReservePurge(r)
  BY <1>1, DeletePcHold DEF ReservePurge, Unexpired
<1>2. CASE ReserveCountTickets(r)
  <2> DEFINE n == Cardinality(ActiveTicketsOf(req[r].user))
             q == [req[r] EXCEPT !.pc = "ReserveCountHolds", !.count = n]
  <2>1. q.rows = req[r].rows /\ q.user = req[r].user /\ q.at = req[r].at
        /\ q.pc = "ReserveCountHolds"
    BY <1>0 DEF Locals
  <2>2. Read(r, "ReserveCountTickets", q)
    BY <1>2 DEF ReserveCountTickets
  <2> HIDE DEF q
  <2> QED BY <2>1, <2>2, ReadMoveHold
<1>3. CASE ReserveCountHolds(r)
  <2> DEFINE q == [req[r] EXCEPT !.pc = "ReserveCheckTaken", !.count = 0]
  <2>1. q.rows = req[r].rows /\ q.user = req[r].user /\ q.at = req[r].at
        /\ q.pc = "ReserveCheckTaken"
    BY <1>0 DEF Locals
  <2>2. Read(r, "ReserveCountHolds", Idle) \/ Read(r, "ReserveCountHolds", q)
    BY <1>3 DEF ReserveCountHolds
  <2> HIDE DEF q
  <2> QED BY <2>1, <2>2, ReadIdleHold, ReadMoveHold
<1>4. CASE ReserveCheckTaken(r)
  BY <1>4, ReadPcHold, ReadIdleHold DEF ReserveCheckTaken
<1>5. CASE ReserveCheckHeld(r)
  BY <1>5, ReadPcHold, ReadIdleHold DEF ReserveCheckHeld
<1>6. CASE ReserveSave(r)
  <2> DEFINE row == [id |-> serial.reservation, user |-> req[r].user,
                     seat |-> req[r].seat, status |-> "reserved",
                     expires |-> req[r].at + HoldTime]
  <2>1. /\ req' = [req EXCEPT ![r] = Idle] /\ req \in [Requests -> Handler]
        /\ reservations' = reservations \cup {row}
        /\ serial.reservation \in Nat /\ serial'.reservation = serial.reservation + 1
        /\ now' = now /\ now \in Nat
    BY <1>6 DEF ReserveSave, Answer, Go, TypeOK, env
  <2>2. Idle.rows = {} /\ Idle.at = 0 /\ Idle.pc = "idle"
    BY DEF Idle
  <2>3. ClockInv' /\ OwnInv'
    BY <2>1, <2>2 DEF HoldInv, ClockInv, OwnInv
  <2>4. \A h \in Known' : h \in Known \/ h = row
    BY <2>1, <2>2 DEF Known
  <2>5. row.id = serial.reservation /\ SameHold(row, row)
    BY DEF SameHold
  <2>6. \A g \in Known : g.id \in Nat /\ g.id < serial.reservation
    BY <2>1 DEF HoldInv, NameInv, Known, TypeOK, Handler, Locals, Reservation
  <2> HIDE DEF row
  <2>7. NameInv'
    BY <2>1, <2>4, <2>5, <2>6 DEF HoldInv, NameInv
  <2> QED BY <2>3, <2>7 DEF HoldInv
<1> QED BY <1>1, <1>2, <1>3, <1>4, <1>5, <1>6 DEF Reserve

LEMMA CancelHold ==
  ASSUME TypeOK, TypeOK', HoldInv, NEW r \in Requests, Cancel(r)
  PROVE  HoldInv'
<1>1. CASE CancelFind(r)
  <2> DEFINE mine == {h \in HoldsOf(req[r].user) : h.id = req[r].id}
             q == [req[r] EXCEPT !.pc = "CancelRemove", !.rows = mine]
  <2>1. q.rows = mine /\ q.user = req[r].user /\ q.at = req[r].at /\ q.pc = "CancelRemove"
    BY DEF TypeOK, Handler, Locals
  <2>2. \A h \in mine : h \in Known /\ h.user = req[r].user
    BY DEF HoldsOf, Holds, Known
  <2>3. q.at <= now
    BY <2>1 DEF HoldInv, ClockInv
  <2>4. Read(r, "CancelFind", Idle) \/ Read(r, "CancelFind", q)
    BY <1>1 DEF CancelFind
  <2> HIDE DEF q, mine
  <2>5. CASE Read(r, "CancelFind", q)
    BY <2>1, <2>2, <2>3, <2>5, ReadKeeps, GoTyped, HoldStep DEF FindSteps
  <2> QED BY <2>4, <2>5, ReadIdleHold
<1>2. CASE CancelRemove(r)
  BY <1>2, DeleteIdleHold DEF CancelRemove, Without
<1>3. CASE CancelAllDelete(r)
  BY <1>3, DeleteIdleHold DEF CancelAllDelete
<1> QED BY <1>1, <1>2, <1>3 DEF Cancel

\* The head of the loop changes neither the user nor the time nor the rows.
LEMMA LoopKeeps ==
  ASSUME NEW q \in Handler
  PROVE  /\ Loop(q).rows = q.rows /\ Loop(q).user = q.user /\ Loop(q).at = q.at
         /\ Loop(q).pc \in {"ConfirmCheckTaken", "ConfirmPurge", "ConfirmReply"}
  BY DEF Loop, Handler, Locals

\* Confirm drops or marks the row it is at and goes on with fewer rows.
LEMMA NextRow ==
  ASSUME TypeOK, TypeOK', HoldInv, NEW r \in Requests,
         At(r, "ConfirmDrop") \/ At(r, "ConfirmMark"),
         Go(r, Loop([req[r] EXCEPT !.rows = @ \ Current(r)])), OnlyReservations,
         \A h \in reservations' : \E g \in Known : SameHold(g, h)
  PROVE  HoldInv'
<1> DEFINE p == [req[r] EXCEPT !.rows = @ \ Current(r)]
<1>1. /\ p \in Handler /\ p.rows \subseteq req[r].rows
      /\ p.user = req[r].user /\ p.at = req[r].at
  BY DEF TypeOK, Handler, Locals
<1>2. Go(r, Loop(p))
  OBVIOUS
<1> HIDE DEF p
<1>3. /\ Loop(p).rows \subseteq req[r].rows /\ Loop(p).user = req[r].user
      /\ Loop(p).at = req[r].at /\ Loop(p).pc \notin FindSteps
  BY <1>1, LoopKeeps DEF FindSteps
<1> QED BY <1>2, <1>3, GoTyped, HoldMove DEF OnlyReservations, env

LEMMA ConfirmHold ==
  ASSUME TypeOK, TypeOK', HoldInv, NEW r \in Requests, Confirm(r)
  PROVE  HoldInv'
<1> USE DEF FindSteps, Statements, SellSteps
<1>0. req[r] \in Handler /\ req[r] \in Locals
  BY DEF TypeOK, Handler
<1>1. CASE ConfirmFind(r)
  <2> DEFINE q == [req[r] EXCEPT !.pc = "ConfirmCount", !.rows = HoldsOf(req[r].user)]
  <2>1. /\ q.rows = HoldsOf(req[r].user) /\ q.user = req[r].user
        /\ q.at = req[r].at /\ q.pc = "ConfirmCount"
    BY <1>0 DEF Locals
  <2>2. \A h \in HoldsOf(req[r].user) : h \in Known /\ h.user = req[r].user
    BY DEF HoldsOf, Holds, Known
  <2>3. q.at <= now
    BY <2>1 DEF HoldInv, ClockInv
  <2>4. Read(r, "ConfirmFind", Idle) \/ Read(r, "ConfirmFind", q)
    BY <1>1 DEF ConfirmFind
  <2> HIDE DEF q
  <2>5. CASE Read(r, "ConfirmFind", q)
    BY <2>1, <2>2, <2>3, <2>5, ReadKeeps, GoTyped, HoldStep
  <2> QED BY <2>4, <2>5, ReadIdleHold
<1>2. CASE ConfirmCount(r)
  BY <1>0, <1>2, LoopKeeps, ReadIdleHold, ReadMoveHold DEF ConfirmCount
<1>3. CASE ConfirmCheckTaken(r)
  <2> DEFINE pc(h) == IF h.seat \in TakenSeats THEN "ConfirmDrop" ELSE "ConfirmFindBooking"
             q(h) == [req[r] EXCEPT !.id = h.id, !.pc = pc(h)]
  <2>1. PICK h \in Valid(req[r]) : Read(r, "ConfirmCheckTaken", q(h))
    BY <1>3 DEF ConfirmCheckTaken
  <2>2. pc(h) \notin FindSteps
    OBVIOUS
  <2> HIDE DEF pc
  <2>3. /\ q(h).rows = req[r].rows /\ q(h).user = req[r].user
        /\ q(h).at = req[r].at /\ q(h).pc = pc(h)
    BY <1>0 DEF Locals
  <2> HIDE DEF q
  <2> QED BY <2>1, <2>2, <2>3, ReadMoveHold
<1>4. CASE ConfirmDrop(r)
  BY <1>4, DeleteKeeps, NextRow DEF ConfirmDrop, Without
<1>5. CASE ConfirmFindBooking(r)
  <2>1. CASE Read(r, "ConfirmFindBooking", [req[r] EXCEPT !.pc = "ConfirmAddBooking"])
    BY <2>1, ReadPcHold
  <2>2. ASSUME NEW b \in SelectedOf(req[r].user), Read(r, "ConfirmFindBooking",
                  [req[r] EXCEPT !.pc = "ConfirmAddTicket", !.booking = b.id])
        PROVE  HoldInv'
    <3> DEFINE q == [req[r] EXCEPT !.pc = "ConfirmAddTicket", !.booking = b.id]
    <3>1. q.rows = req[r].rows /\ q.user = req[r].user /\ q.at = req[r].at
          /\ q.pc = "ConfirmAddTicket"
      BY <1>0 DEF Locals
    <3>2. Read(r, "ConfirmFindBooking", q)
      BY <2>2
    <3> HIDE DEF q
    <3> QED BY <3>1, <3>2, ReadMoveHold
  <2> QED BY <1>5, <2>1, <2>2 DEF ConfirmFindBooking
<1>6. CASE ConfirmAddBooking(r)
  <2> DEFINE q == [req[r] EXCEPT !.pc = "ConfirmAddTicket", !.booking = serial.booking]
  <2>1. q.rows = req[r].rows /\ q.user = req[r].user /\ q.at = req[r].at
        /\ q.pc = "ConfirmAddTicket"
    BY <1>0 DEF Locals
  <2>2. /\ Go(r, q) /\ now' = now /\ UNCHANGED reservations
        /\ serial'.reservation = serial.reservation
    BY <1>6 DEF ConfirmAddBooking, env, TypeOK
  <2> HIDE DEF q
  <2> QED BY <2>1, <2>2, Remembered, GoTyped, HoldMove
<1>7. CASE ConfirmAddTicket(r)
  <2> DEFINE q == [req[r] EXCEPT !.pc = "ConfirmMark"]
  <2>1. q.rows = req[r].rows /\ q.user = req[r].user /\ q.at = req[r].at
        /\ q.pc = "ConfirmMark"
    BY <1>0 DEF Locals
  <2>2. /\ Go(r, q) \/ Answer(r)
        /\ now' = now /\ UNCHANGED reservations
        /\ serial'.reservation = serial.reservation
    BY <1>7 DEF ConfirmAddTicket, env, TypeOK
  <2> HIDE DEF q
  <2> QED BY <2>1, <2>2, Remembered, GoTyped, HoldMove, HoldAnswer
<1>8. CASE ConfirmMark(r)
  <2>1. ASSUME NEW h \in reservations'
        PROVE  \E g \in Known : SameHold(g, h)
    <3>1. CASE h \in reservations
      BY <3>1, Remembered
    <3>2. ASSUME NEW g \in Current(r), h = [g EXCEPT !.status = "confirmed"]
          PROVE  \E x \in Known : SameHold(x, h)
      BY <1>0, <3>2, Remembered DEF Current, Locals, Reservation, SameHold
    <3> QED BY <1>8, <3>1, <3>2 DEF ConfirmMark, Without
  <2> QED BY <1>8, <2>1, NextRow DEF ConfirmMark
<1>9. CASE ConfirmPurge(r)
  <2> DEFINE q == [req[r] EXCEPT !.pc = "ConfirmReply", !.rows = {}]
  <2>1. q.rows = {} /\ q.user = req[r].user /\ q.at = req[r].at /\ q.pc = "ConfirmReply"
    BY <1>0 DEF Locals
  <2>2. Go(r, q) /\ reservations' \subseteq reservations /\ OnlyReservations
    BY <1>9 DEF ConfirmPurge, Without
  <2> HIDE DEF q
  <2> QED BY <2>1, <2>2, DeleteKeeps, GoTyped, HoldMove
<1>10. CASE ConfirmReply(r)
  BY <1>10, ReadIdleHold DEF ConfirmReply
<1> QED BY <1>1, <1>2, <1>3, <1>4, <1>5, <1>6, <1>7, <1>8, <1>9, <1>10 DEF Confirm

LEMMA ViewHold ==
  ASSUME TypeOK, TypeOK', HoldInv, NEW r \in Requests, View(r)
  PROVE  HoldInv'
<1> USE DEF FindSteps, Statements, ViewSteps
<1>1. CASE ViewPurge(r)
  BY <1>1, DeletePcHold DEF ViewPurge, Unexpired
<1>2. CASE ViewTickets(r)
  <2> DEFINE q == [req[r] EXCEPT !.pc = "ViewHolds", !.taken = TakenSeats]
  <2>1. q.rows = req[r].rows /\ q.user = req[r].user /\ q.at = req[r].at
        /\ q.pc = "ViewHolds"
    BY DEF TypeOK, Handler, Locals
  <2>2. Read(r, "ViewTickets", q)
    BY <1>2 DEF ViewTickets
  <2> HIDE DEF q
  <2> QED BY <2>1, <2>2, ReadMoveHold
<1>3. CASE ViewHolds(r)
  BY <1>3, ReadIdleHold DEF ViewHolds
<1>4. CASE ListPurge(r)
  BY <1>4, DeleteIdleHold DEF ListPurge, Unexpired
<1> QED BY <1>1, <1>2, <1>3, <1>4 DEF View

\* A handler that learns whose booking it works on has remembered no rows.
LEMMA FindHold ==
  ASSUME TypeOK, TypeOK', HoldInv, NEW r \in Requests, NEW statement \in FindSteps,
         NEW u, NEW p, p \notin FindSteps,
         Read(r, statement, [req[r] EXCEPT !.user = u, !.pc = p])
  PROVE  HoldInv'
<1> DEFINE q == [req[r] EXCEPT !.user = u, !.pc = p]
<1>1. req[r].rows = {} /\ req[r].at <= now
  BY DEF Read, At, HoldInv, OwnInv, ClockInv
<1>2. q.rows = {} /\ q.at <= now
  BY <1>1 DEF TypeOK, Handler, Locals
<1>3. Read(r, statement, q)
  OBVIOUS
<1> HIDE DEF q
<1> QED BY <1>2, <1>3, ReadKeeps, GoTyped, HoldStep

LEMMA BookHold ==
  ASSUME TypeOK, TypeOK', HoldInv, NEW r \in Requests, Book(r)
  PROVE  HoldInv'
<1> USE DEF FindSteps, Statements, SellSteps, ChangeSteps
<1>1. CASE SelectFind(r)
  BY <1>1, ReadIdleHold, ReadPcHold DEF SelectFind
<1>2. CASE SelectInsert(r)
  BY <1>2, Remembered, HoldAnswer DEF SelectInsert, env, TypeOK
<1>3. CASE UpdateFind(r)
  <2> DEFINE pc == IF req[r].status \in Inactive THEN "UpdateRelease" ELSE "UpdateWrite"
  <2>1. pc \notin FindSteps
    OBVIOUS
  <2>2. Read(r, "UpdateFind", Idle) \/ \E b \in bookings :
           Read(r, "UpdateFind", [req[r] EXCEPT !.user = b.user, !.pc = pc])
    BY <1>3 DEF UpdateFind
  <2> HIDE DEF pc
  <2> QED BY <2>1, <2>2, FindHold, ReadIdleHold
<1>4. CASE UpdateRelease(r)
  BY <1>4, DeletePcHold DEF UpdateRelease
<1>5. CASE UpdateWrite(r)
  BY <1>5, Remembered, HoldAnswer DEF UpdateWrite, env
<1>6. CASE RemoveFind(r)
  <2>1. Read(r, "RemoveFind", Idle) \/ \E b \in bookings :
           Read(r, "RemoveFind", [req[r] EXCEPT !.user = b.user, !.pc = "RemoveRelease"])
    BY <1>6 DEF RemoveFind
  <2> QED BY <2>1, FindHold, ReadIdleHold
<1>7. CASE RemoveRelease(r)
  BY <1>7, DeletePcHold DEF RemoveRelease
<1>8. CASE RemoveDelete(r)
  BY <1>8, Remembered, HoldAnswer DEF RemoveDelete, env
<1> QED BY <1>1, <1>2, <1>3, <1>4, <1>5, <1>6, <1>7, <1>8 DEF Book

\* What handlers remember of the table stays right in every reachable state.
THEOREM HoldInvariant == Spec => []HoldInv
<1>1. Init => HoldInv
  BY DEF Init, HoldInv, ClockInv, NameInv, OwnInv, Known, Idle
<1>2. TypeOK /\ TypeOK' /\ HoldInv /\ [Next]_vars => HoldInv'
  <2> SUFFICES ASSUME TypeOK, TypeOK', HoldInv, [Next]_vars PROVE HoldInv'
    OBVIOUS
  <2>1. ASSUME NEW r \in Requests, NewRequest(r) PROVE HoldInv'
    BY <2>1, NewRequestHold
  <2>2. ASSUME NEW r \in Requests, Handle(r) PROVE HoldInv'
    BY <2>2, ReserveHold, CancelHold, ConfirmHold, ViewHold, BookHold DEF Handle
  <2>3. CASE Cleanup
    BY <2>3 DEF Cleanup, Unexpired, HoldInv, ClockInv, NameInv, OwnInv, Known, env
  <2>4. CASE Tick
    <3>1. \A r \in Requests : req[r].at \in Nat
      BY DEF TypeOK, Handler, Locals
    <3> QED BY <2>4, <3>1 DEF Tick, TypeOK, HoldInv, ClockInv, NameInv, OwnInv, Known, db
  <2>5. CASE Crash
    BY <2>5 DEF Crash, TypeOK, HoldInv, ClockInv, NameInv, OwnInv, Known, Idle, FindSteps,
                db, env
  <2>6. CASE UNCHANGED vars
    BY <2>6 DEF vars, HoldInv, ClockInv, NameInv, OwnInv, Known
  <2> QED BY <2>1, <2>2, <2>3, <2>4, <2>5, <2>6 DEF Next
<1> QED BY <1>1, <1>2, TypeCorrect, PTL DEF Spec

-----------------------------------------------------------------------------
(* Nobody else ends a hold. *)

\* Deleting what had expired at a time that is not in the future spares the
\* unexpired holds.
LEMMA PurgeSpares ==
  ASSUME TypeOK, NEW t \in Nat, t <= now, NEW h \in Holds, h.expires >= now,
         reservations' = Unexpired(t)
  PROVE  h \in reservations'
  BY DEF TypeOK, Unexpired, Holds, Reservation

LEMMA HandlerKeepsHolds ==
  ASSUME TypeOK, HoldInv, NEW r \in Requests, Handle(r),
         NEW h \in Holds, h.expires >= now, h \notin reservations'
  PROVE  OwnerStep(h)
<1>0. /\ h \in reservations /\ h \in Known
      /\ req[r].at \in Nat /\ req[r].at <= now
  BY DEF Holds, Known, HoldInv, ClockInv, TypeOK, Handler, Locals
<1>1. ASSUME NEW q, Go(r, q), req[r].user = h.user, q.pc # req[r].pc
      PROVE  OwnerStep(h)
  BY <1>1 DEF OwnerStep, Go, TypeOK
<1>2. Idle.pc = "idle"
  BY DEF Idle
<1>3. ASSUME NEW g \in req[r].rows, g.id = h.id PROVE req[r].user = h.user
  BY <1>0, <1>3 DEF HoldInv, NameInv, OwnInv, Known, SameHold
<1>4. CASE Reserve(r)
  BY <1>0, <1>4, PurgeSpares
  DEF Reserve, ReservePurge, ReserveCountTickets, ReserveCountHolds,
      ReserveCheckTaken, ReserveCheckHeld, ReserveSave, Read, db
<1>5. CASE Cancel(r)
  <2>1. ~ CancelFind(r)
    BY <1>0 DEF CancelFind, Read, db
  <2>2. CASE CancelRemove(r)
    BY <1>0, <1>1, <1>2, <1>3, <2>2 DEF CancelRemove, Without, Answer, At
  <2>3. CASE CancelAllDelete(r)
    BY <1>0, <1>1, <1>2, <2>3 DEF CancelAllDelete, HoldsOf, Answer, At
  <2> QED BY <1>5, <2>1, <2>2, <2>3 DEF Cancel
<1>6. CASE Confirm(r)
  <2>1. CASE ConfirmDrop(r) \/ ConfirmMark(r)
    <3>1. \E g \in req[r].rows : g.id = h.id
      BY <1>0, <2>1 DEF ConfirmDrop, ConfirmMark, Without, Current
    <3> DEFINE p == [req[r] EXCEPT !.rows = @ \ Current(r)]
    <3>2. p \in Handler /\ Go(r, Loop(p)) /\ req[r].pc \in {"ConfirmDrop", "ConfirmMark"}
      BY <2>1 DEF ConfirmDrop, ConfirmMark, At, TypeOK, Handler, Locals
    <3> HIDE DEF p
    <3> QED BY <1>1, <1>3, <3>1, <3>2, LoopKeeps
  <2>2. CASE ConfirmPurge(r)
    <3> DEFINE q == [req[r] EXCEPT !.pc = "ConfirmReply", !.rows = {}]
    <3>1. q.pc = "ConfirmReply"
      BY DEF TypeOK, Handler, Locals
    <3>2. Go(r, q) /\ req[r].pc = "ConfirmPurge" /\ \E g \in req[r].rows : g.id = h.id
      BY <1>0, <2>2 DEF ConfirmPurge, Without, At
    <3> HIDE DEF q
    <3> QED BY <1>1, <1>3, <3>1, <3>2
  <2> QED BY <1>0, <1>6, <2>1, <2>2
          DEF Confirm, ConfirmFind, ConfirmCount, ConfirmCheckTaken, ConfirmFindBooking,
              ConfirmAddBooking, ConfirmAddTicket, ConfirmReply, Read, db
<1>7. CASE View(r)
  BY <1>0, <1>7, PurgeSpares DEF View, ViewPurge, ViewTickets, ViewHolds, ListPurge, Read, db
<1>8. CASE Book(r)
  <2>1. CASE UpdateRelease(r) \/ RemoveRelease(r)
    <3>1. req[r].user = h.user
      BY <1>0, <2>1 DEF UpdateRelease, RemoveRelease, HoldsOf
    <3>2. PICK p \in {"UpdateWrite", "RemoveDelete"} :
            Go(r, [req[r] EXCEPT !.pc = p]) /\ req[r].pc \in {"UpdateRelease", "RemoveRelease"}
      BY <2>1 DEF UpdateRelease, RemoveRelease, At
    <3>3. [req[r] EXCEPT !.pc = p].pc = p
      BY DEF TypeOK, Handler, Locals
    <3> QED BY <1>1, <3>1, <3>2, <3>3
  <2> QED BY <1>0, <1>8, <2>1
          DEF Book, SelectFind, SelectInsert, UpdateFind, UpdateWrite, RemoveFind,
              RemoveDelete, Read, db
<1> QED BY <1>4, <1>5, <1>6, <1>7, <1>8 DEF Handle

\* Until it expires, a hold is only ended by a step of a request of its user.
THEOREM HoldsAreKept == Spec => HoldKept
<1>1. TypeOK /\ HoldInv /\ [Next]_vars =>
        [\A h \in Holds : h.expires >= now /\ h \notin reservations' => OwnerStep(h)]_vars
  <2> SUFFICES ASSUME TypeOK, HoldInv, Next,
                      NEW h \in Holds, h.expires >= now, h \notin reservations'
               PROVE  OwnerStep(h)
    OBVIOUS
  <2>0. h \in reservations
    BY DEF Holds
  <2>1. ASSUME NEW r \in Requests, NewRequest(r) PROVE FALSE
    BY <2>0, <2>1
    DEF NewRequest, ReserveAccept, CancelAccept, CancelAllAccept, ConfirmAccept,
        ViewAccept, ListAccept, SelectAccept, UpdateAccept, RemoveAccept, Accept, db
  <2>2. ~ Cleanup
    BY PurgeSpares DEF Cleanup, TypeOK
  <2>3. ~ Tick /\ ~ Crash
    BY <2>0 DEF Tick, Crash, db
  <2> QED BY <2>1, <2>2, <2>3, HandlerKeepsHolds DEF Next
<1> QED BY <1>1, TypeCorrect, HoldInvariant, PTL DEF Spec, HoldKept

-----------------------------------------------------------------------------
(* Bookings and tickets. *)

\* A step that leaves the two tables alone and does not bring its handler to
\* the ticket statement.
LEMMA BookingStep ==
  ASSUME TypeOK, BookingInv, NEW r \in Requests, NEW q, Go(r, q),
         UNCHANGED <<bookings, tickets>>, serial'.booking = serial.booking,
         q.pc # "ConfirmAddTicket"
  PROVE  BookingInv'
<1>1. req' = [req EXCEPT ![r] = q] /\ req \in [Requests -> Handler]
  BY DEF Go, TypeOK
<1> QED BY <1>1 DEF BookingInv, At

\* A row is added to bookings with a fresh id.
LEMMA NewBooking ==
  ASSUME TypeOK, BookingInv, NEW r \in Requests, NEW q, Go(r, q),
         NEW row \in Booking, row.id = serial.booking,
         bookings' = bookings \cup {row}, UNCHANGED tickets,
         serial'.booking = serial.booking + 1,
         q.pc = "ConfirmAddTicket" => q.booking = row.id /\ q.user = row.user
  PROVE  BookingInv'
<1>1. req' = [req EXCEPT ![r] = q] /\ req \in [Requests -> Handler]
      /\ serial.booking \in Nat /\ bookings \in SUBSET Booking
  BY DEF Go, TypeOK
<1>2. \A b \in bookings : b.id \in Nat /\ b.id < serial.booking
  BY <1>1 DEF BookingInv, Booking
<1>3. \A b, c \in bookings' : b.id = c.id => b = c
  BY <1>1, <1>2 DEF BookingInv
<1>4. \A b \in bookings' : b.id < serial'.booking
  BY <1>1, <1>2
<1>5. \A t \in tickets' : \E b \in bookings' : b.id = t.booking
  BY DEF BookingInv
<1>6. ASSUME NEW x \in Requests, req'[x].pc = "ConfirmAddTicket"
      PROVE  /\ req'[x].booking < serial'.booking
             /\ \A b \in bookings' : b.id = req'[x].booking => b.user = req'[x].user
  <2>1. CASE x = r
    BY <1>1, <1>2, <1>6, <2>1
  <2>2. CASE x # r
    <3>1. req'[x] = req[x] /\ req[x].booking \in Nat
      BY <1>1, <2>2 DEF Handler, Locals
    <3> QED BY <1>1, <1>6, <3>1 DEF BookingInv, At
  <2> QED BY <2>1, <2>2
<1> QED BY <1>3, <1>4, <1>5, <1>6 DEF BookingInv, At

\* Where the statements of a handler leave it.
LEMMA NotAtTicket ==
  ASSUME TypeOK, NEW r \in Requests,
         Reserve(r) \/ Cancel(r) \/ View(r) \/ Book(r) \/ ConfirmFind(r) \/ ConfirmCount(r)
         \/ ConfirmCheckTaken(r) \/ ConfirmDrop(r) \/ ConfirmAddTicket(r) \/ ConfirmMark(r)
         \/ ConfirmPurge(r) \/ ConfirmReply(r)
  PROVE  \E q : Go(r, q) /\ q.pc # "ConfirmAddTicket"
                /\ (q.pc = "ConfirmMark" => ConfirmAddTicket(r))
<1> DEFINE q == req'[r]
<1> SUFFICES Go(r, q) /\ q.pc # "ConfirmAddTicket"
             /\ (q.pc = "ConfirmMark" => ConfirmAddTicket(r))
  OBVIOUS
<1>0. req \in [Requests -> Handler] /\ Idle.pc = "idle"
      /\ req[r] \in [pc: Statements, user: Users \cup {None}, seat: Seats \cup {None},
                     id: Nat, status: Statuses \cup {None}, at: Nat,
                     rows: SUBSET Reservation, booking: Nat, count: Nat,
                     taken: SUBSET Seats]
  BY DEF TypeOK, Handler, Locals, Idle
<1> USE DEF Read, Go, Answer
<1>1. CASE Reserve(r)
  <2>1. CASE ReservePurge(r)         BY <1>0, <2>1 DEF ReservePurge
  <2>2. CASE ReserveCountTickets(r)  BY <1>0, <2>2 DEF ReserveCountTickets
  <2>3. CASE ReserveCountHolds(r)    BY <1>0, <2>3 DEF ReserveCountHolds
  <2>4. CASE ReserveCheckTaken(r)    BY <1>0, <2>4 DEF ReserveCheckTaken
  <2>5. CASE ReserveCheckHeld(r)     BY <1>0, <2>5 DEF ReserveCheckHeld
  <2>6. CASE ReserveSave(r)          BY <1>0, <2>6 DEF ReserveSave
  <2> QED BY <1>1, <2>1, <2>2, <2>3, <2>4, <2>5, <2>6 DEF Reserve
<1>2. CASE Cancel(r)
  <2>1. CASE CancelFind(r)           BY <1>0, <2>1 DEF CancelFind
  <2>2. CASE CancelRemove(r)         BY <1>0, <2>2 DEF CancelRemove
  <2>3. CASE CancelAllDelete(r)      BY <1>0, <2>3 DEF CancelAllDelete
  <2> QED BY <1>2, <2>1, <2>2, <2>3 DEF Cancel
<1>3. CASE View(r)
  <2>1. CASE ViewPurge(r)            BY <1>0, <2>1 DEF ViewPurge
  <2>2. CASE ViewTickets(r)          BY <1>0, <2>2 DEF ViewTickets
  <2>3. CASE ViewHolds(r)            BY <1>0, <2>3 DEF ViewHolds
  <2>4. CASE ListPurge(r)            BY <1>0, <2>4 DEF ListPurge
  <2> QED BY <1>3, <2>1, <2>2, <2>3, <2>4 DEF View
<1>4. CASE Book(r)
  <2>1. CASE SelectFind(r)           BY <1>0, <2>1 DEF SelectFind
  <2>2. CASE SelectInsert(r)         BY <1>0, <2>2 DEF SelectInsert
  <2>3. CASE UpdateFind(r)           BY <1>0, <2>3 DEF UpdateFind
  <2>4. CASE UpdateRelease(r)        BY <1>0, <2>4 DEF UpdateRelease
  <2>5. CASE UpdateWrite(r)          BY <1>0, <2>5 DEF UpdateWrite
  <2>6. CASE RemoveFind(r)           BY <1>0, <2>6 DEF RemoveFind
  <2>7. CASE RemoveRelease(r)        BY <1>0, <2>7 DEF RemoveRelease
  <2>8. CASE RemoveDelete(r)         BY <1>0, <2>8 DEF RemoveDelete
  <2> QED BY <1>4, <2>1, <2>2, <2>3, <2>4, <2>5, <2>6, <2>7, <2>8 DEF Book
<1>5. CASE ConfirmFind(r)        BY <1>0, <1>5 DEF ConfirmFind
<1>6. CASE ConfirmCount(r)       BY <1>0, <1>6 DEF ConfirmCount, Loop
<1>7. CASE ConfirmCheckTaken(r)  BY <1>0, <1>7 DEF ConfirmCheckTaken
<1>8. CASE ConfirmDrop(r)        BY <1>0, <1>8 DEF ConfirmDrop, Loop
<1>9. CASE ConfirmMark(r)        BY <1>0, <1>9 DEF ConfirmMark, Loop
<1>10. CASE ConfirmAddTicket(r)  BY <1>0, <1>10 DEF ConfirmAddTicket
<1>11. CASE ConfirmPurge(r)      BY <1>0, <1>11 DEF ConfirmPurge
<1>12. CASE ConfirmReply(r)      BY <1>0, <1>12 DEF ConfirmReply
<1> QED BY <1>1, <1>2, <1>3, <1>4, <1>5, <1>6, <1>7, <1>8, <1>9, <1>10, <1>11, <1>12

\* What the steps of handlers do to the two tables: most leave them alone.
LEMMA TablesAlone ==
  ASSUME TypeOK, NEW r \in Requests,
         \/ NewRequest(r) \/ Reserve(r) \/ Cancel(r) \/ View(r)
         \/ ConfirmFind(r) \/ ConfirmCount(r) \/ ConfirmCheckTaken(r) \/ ConfirmDrop(r)
         \/ ConfirmFindBooking(r) \/ ConfirmMark(r) \/ ConfirmPurge(r) \/ ConfirmReply(r)
         \/ SelectFind(r) \/ UpdateFind(r) \/ UpdateRelease(r) \/ RemoveFind(r)
         \/ RemoveRelease(r)
  PROVE  UNCHANGED <<bookings, tickets>> /\ serial'.booking = serial.booking
<1>1. CASE NewRequest(r)
  BY <1>1 DEF NewRequest, ReserveAccept, CancelAccept, CancelAllAccept, ConfirmAccept,
              ViewAccept, ListAccept, SelectAccept, UpdateAccept, RemoveAccept, Accept, db
<1>2. CASE Reserve(r)
  BY <1>2 DEF Reserve, ReservePurge, ReserveCountTickets, ReserveCountHolds,
              ReserveCheckTaken, ReserveCheckHeld, ReserveSave, Read, OnlyReservations,
              db, TypeOK
<1>3. CASE Cancel(r) \/ View(r)
  BY <1>3 DEF Cancel, CancelFind, CancelRemove, CancelAllDelete, View, ViewPurge,
              ViewTickets, ViewHolds, ListPurge, Read, OnlyReservations, db
<1>4. CASE ConfirmFind(r) \/ ConfirmCount(r) \/ ConfirmCheckTaken(r) \/ ConfirmDrop(r)
  BY <1>4 DEF ConfirmFind, ConfirmCount, ConfirmCheckTaken, ConfirmDrop, Read,
              OnlyReservations, db
<1>5. CASE ConfirmFindBooking(r) \/ ConfirmMark(r) \/ ConfirmPurge(r) \/ ConfirmReply(r)
  BY <1>5 DEF ConfirmFindBooking, ConfirmMark, ConfirmPurge, ConfirmReply, Read,
              OnlyReservations, db
<1>6. CASE SelectFind(r) \/ UpdateFind(r) \/ UpdateRelease(r) \/ RemoveFind(r) \/ RemoveRelease(r)
  BY <1>6 DEF SelectFind, UpdateFind, UpdateRelease, RemoveFind, RemoveRelease, Read,
              OnlyReservations, db
<1> QED BY <1>1, <1>2, <1>3, <1>4, <1>5, <1>6

LEMMA NewRequestStarts ==
  ASSUME TypeOK, NEW r \in Requests, NewRequest(r)
  PROVE  Go(r, req'[r]) /\ req'[r].pc \notin {"ConfirmAddTicket", "ConfirmMark"}
<1> USE DEF Accept, Go, Idle, TypeOK
<1>1. CASE ReserveAccept(r)    BY <1>1 DEF ReserveAccept
<1>2. CASE CancelAccept(r)     BY <1>2 DEF CancelAccept
<1>3. CASE CancelAllAccept(r)  BY <1>3 DEF CancelAllAccept
<1>4. CASE ConfirmAccept(r)    BY <1>4 DEF ConfirmAccept
<1>5. CASE ViewAccept(r)       BY <1>5 DEF ViewAccept
<1>6. CASE ListAccept(r)       BY <1>6 DEF ListAccept
<1>7. CASE SelectAccept(r)     BY <1>7 DEF SelectAccept
<1>8. CASE UpdateAccept(r)     BY <1>8 DEF UpdateAccept
<1>9. CASE RemoveAccept(r)     BY <1>9 DEF RemoveAccept
<1> QED BY <1>1, <1>2, <1>3, <1>4, <1>5, <1>6, <1>7, <1>8, <1>9 DEF NewRequest

\* An update of a booking's status rewrites rows and keeps their ids and users.
LEMMA BookingsRewritten ==
  ASSUME TypeOK, NEW r \in Requests, UpdateWrite(r)
  PROVE  \E w \in [bookings -> Booking] :
           /\ bookings' = {w[b] : b \in bookings}
           /\ \A b \in bookings : w[b].id = b.id /\ w[b].user = b.user
<1> DEFINE f(b) == IF b.id = req[r].id THEN [b EXCEPT !.status = req[r].status] ELSE b
<1>0. /\ bookings \in SUBSET Booking /\ req[r] \in Handler /\ req[r].pc = "UpdateWrite"
  BY DEF TypeOK, UpdateWrite, At
<1>1. req[r].status \in Statuses
  BY <1>0 DEF Handler
<1>2. \A b \in bookings : f(b) \in Booking /\ f(b).id = b.id /\ f(b).user = b.user
  BY <1>0, <1>1 DEF Booking
<1>3. bookings' = {f(b) : b \in bookings}
  BY DEF UpdateWrite
<1> DEFINE w == [b \in bookings |-> f(b)]
<1> HIDE DEF f
<1>4. w \in [bookings -> Booking] /\ \A b \in bookings : w[b] = f(b)
  BY <1>2
<1> HIDE DEF w
<1>5. bookings' = {w[b] : b \in bookings}
  BY <1>3, <1>4
<1> QED BY <1>2, <1>4, <1>5

LEMMA HandlerBooking ==
  ASSUME TypeOK, HoldInv, BookingInv, NEW r \in Requests, Handle(r)
  PROVE  BookingInv'
<1>0. /\ req \in [Requests -> Handler] /\ req[r] \in Locals /\ req[r] \in Handler
      /\ bookings \in SUBSET Booking /\ serial.booking \in Nat
  BY DEF TypeOK, Handler
<1>1. CASE \/ Reserve(r) \/ Cancel(r) \/ View(r) \/ ConfirmFind(r) \/ ConfirmCount(r)
           \/ ConfirmCheckTaken(r) \/ ConfirmDrop(r) \/ ConfirmMark(r)
           \/ ConfirmPurge(r) \/ ConfirmReply(r) \/ SelectFind(r) \/ UpdateFind(r)
           \/ UpdateRelease(r) \/ RemoveFind(r) \/ RemoveRelease(r)
  <2>1. UNCHANGED <<bookings, tickets>> /\ serial'.booking = serial.booking
    BY <1>1, TablesAlone
  <2>2. PICK q : Go(r, q) /\ q.pc # "ConfirmAddTicket"
    BY <1>1, NotAtTicket DEF Book
  <2> QED BY <2>1, <2>2, BookingStep
<1>2. CASE ConfirmFindBooking(r)
  <2>1. UNCHANGED <<bookings, tickets>> /\ serial'.booking = serial.booking
    BY <1>2, TablesAlone
  <2>2. CASE Read(r, "ConfirmFindBooking", [req[r] EXCEPT !.pc = "ConfirmAddBooking"])
    <3>1. [req[r] EXCEPT !.pc = "ConfirmAddBooking"].pc # "ConfirmAddTicket"
      BY <1>0 DEF Locals
    <3> QED BY <2>1, <2>2, <3>1, BookingStep DEF Read
  <2>3. ASSUME NEW b \in SelectedOf(req[r].user), Read(r, "ConfirmFindBooking",
                  [req[r] EXCEPT !.pc = "ConfirmAddTicket", !.booking = b.id])
        PROVE  BookingInv'
    <3> DEFINE q == [req[r] EXCEPT !.pc = "ConfirmAddTicket", !.booking = b.id]
    <3>1. q.booking = b.id /\ q.user = req[r].user
      BY <1>0 DEF Locals
    <3>2. req' = [req EXCEPT ![r] = q]
      BY <2>3 DEF Read, Go
    <3>3. b \in bookings /\ b.user = req[r].user
      BY DEF SelectedOf
    <3> HIDE DEF q
    <3> QED BY <1>0, <2>1, <3>1, <3>2, <3>3 DEF BookingInv, At
  <2> QED BY <1>2, <2>2, <2>3 DEF ConfirmFindBooking
<1>3. CASE ConfirmAddBooking(r)
  <2> DEFINE row == [id |-> serial.booking, user |-> req[r].user, status |-> "Selected"]
             q == [req[r] EXCEPT !.pc = "ConfirmAddTicket", !.booking = serial.booking]
  <2>1. q.booking = row.id /\ q.user = row.user /\ row.id = serial.booking
    BY <1>0 DEF Locals
  <2>2. req[r].pc = "ConfirmAddBooking"
    BY <1>3 DEF ConfirmAddBooking, At
  <2>3. row \in Booking
    BY <1>0, <2>2 DEF Booking, Statuses, Handler, Locals, Statements, SellSteps,
                      ReserveSteps, ViewSteps, FindSteps
  <2>4. /\ Go(r, q) /\ bookings' = bookings \cup {row} /\ UNCHANGED tickets
        /\ serial'.booking = serial.booking + 1
    BY <1>3 DEF ConfirmAddBooking, TypeOK
  <2> HIDE DEF row, q
  <2> QED BY <2>1, <2>3, <2>4, NewBooking
<1>4. CASE SelectInsert(r)
  <2> DEFINE row == [id |-> serial.booking, user |-> req[r].user, status |-> "Selected"]
  <2>1. req[r].pc = "SelectInsert" /\ Idle.pc = "idle"
    BY <1>4 DEF SelectInsert, At, Idle
  <2>2. row \in Booking
    BY <1>0, <2>1 DEF Booking, Statuses, Handler, Locals, Statements, SellSteps,
                      ReserveSteps, ViewSteps, FindSteps
  <2>3. /\ Go(r, Idle) /\ bookings' = bookings \cup {row} /\ UNCHANGED tickets
        /\ serial'.booking = serial.booking + 1 /\ row.id = serial.booking
    BY <1>4 DEF SelectInsert, Answer, TypeOK
  <2> HIDE DEF row
  <2> QED BY <2>1, <2>2, <2>3, NewBooking
<1>5. CASE ConfirmAddTicket(r)
  <2>1. /\ UNCHANGED bookings /\ serial'.booking = serial.booking
        /\ \A t \in tickets' : t \in tickets \/ \E b \in bookings : b.id = t.booking
    BY <1>5 DEF ConfirmAddTicket, TypeOK
  <2>2. PICK q : Go(r, q) /\ q.pc # "ConfirmAddTicket"
    BY <1>5, NotAtTicket
  <2>3. req' = [req EXCEPT ![r] = q]
    BY <2>2 DEF Go
  <2> QED BY <1>0, <2>1, <2>2, <2>3 DEF BookingInv, At
<1>6. CASE UpdateWrite(r)
  <2>1. /\ req' = [req EXCEPT ![r] = Idle] /\ Idle.pc = "idle"
        /\ UNCHANGED <<tickets, serial>>
    BY <1>6 DEF UpdateWrite, Answer, Go, Idle
  <2>2. PICK w \in [bookings -> Booking] :
          /\ bookings' = {w[b] : b \in bookings}
          /\ \A b \in bookings : w[b].id = b.id /\ w[b].user = b.user
    BY <1>6, BookingsRewritten
  <2>3. \A b, c \in bookings : b.id = c.id => b = c
    BY DEF BookingInv
  <2>4. \A b, c \in bookings' : b.id = c.id => b = c
    BY <2>2, <2>3
  <2>5. \A c \in bookings' : \E b \in bookings : c.id = b.id /\ c.user = b.user
    BY <2>2
  <2>6. \A b \in bookings : \E c \in bookings' : c.id = b.id
    BY <2>2
  <2> QED BY <1>0, <2>1, <2>4, <2>5, <2>6 DEF BookingInv, At
<1>7. CASE RemoveDelete(r)
  <2>1. /\ req' = [req EXCEPT ![r] = Idle] /\ Idle.pc = "idle"
        /\ UNCHANGED <<tickets, serial>> /\ bookings' \subseteq bookings
    BY <1>7 DEF RemoveDelete, Answer, Go, Idle
  <2>2. \A t \in tickets : \E b \in bookings' : b.id = t.booking
    BY <1>7 DEF RemoveDelete, BookingInv
  <2> QED BY <1>0, <2>1, <2>2 DEF BookingInv, At
<1> QED BY <1>1, <1>2, <1>3, <1>4, <1>5, <1>6, <1>7 DEF Handle, Confirm, Book

\* Ids are keys, tickets have their bookings, and confirm adds its tickets to
\* bookings of its own user, in every reachable state.
THEOREM BookingInvariant == Spec => []BookingInv
<1>1. Init => BookingInv
  BY DEF Init, BookingInv, At, Idle
<1>2. TypeOK /\ HoldInv /\ BookingInv /\ [Next]_vars => BookingInv'
  <2> SUFFICES ASSUME TypeOK, HoldInv, BookingInv, [Next]_vars PROVE BookingInv'
    OBVIOUS
  <2>1. ASSUME NEW r \in Requests, NewRequest(r) PROVE BookingInv'
    BY <2>1, NewRequestStarts, TablesAlone, BookingStep
  <2>2. ASSUME NEW r \in Requests, Handle(r) PROVE BookingInv'
    BY <2>2, HandlerBooking
  <2>3. CASE Cleanup \/ Tick \/ Crash \/ UNCHANGED vars
    BY <2>3 DEF Cleanup, Tick, Crash, vars, BookingInv, At, db, env, Idle
  <2> QED BY <2>1, <2>2, <2>3 DEF Next
<1> QED BY <1>1, <1>2, TypeCorrect, HoldInvariant, PTL DEF Spec

-----------------------------------------------------------------------------
(* A confirmed reservation has its ticket. *)

\* Tickets are never deleted, and a booking that has one keeps its id and user.
LEMMA TicketsStay ==
  ASSUME TypeOK, BookingInv, NEW r \in Requests, NewRequest(r) \/ Handle(r)
  PROVE  /\ tickets \subseteq tickets'
         /\ \A t \in tickets, b \in bookings : t.booking = b.id =>
              \E c \in bookings' : c.id = b.id /\ c.user = b.user
<1>1. CASE UNCHANGED <<bookings, tickets>>
  BY <1>1
<1>2. CASE ConfirmAddBooking(r) \/ SelectInsert(r)
  BY <1>2 DEF ConfirmAddBooking, SelectInsert
<1>3. CASE ConfirmAddTicket(r)
  BY <1>3 DEF ConfirmAddTicket
<1>4. CASE UpdateWrite(r)
  <2>1. PICK w \in [bookings -> Booking] :
          /\ bookings' = {w[b] : b \in bookings}
          /\ \A b \in bookings : w[b].id = b.id /\ w[b].user = b.user
    BY <1>4, BookingsRewritten
  <2>2. UNCHANGED tickets
    BY <1>4 DEF UpdateWrite
  <2> QED BY <2>1, <2>2
<1>5. CASE RemoveDelete(r)
  BY <1>5 DEF RemoveDelete
<1>6. CASE ConfirmFindBooking(r)
  BY <1>6, TablesAlone
<1> QED BY <1>1, <1>2, <1>3, <1>4, <1>5, <1>6, TablesAlone DEF Handle, Confirm, Book

LEMMA HasTicketStays ==
  ASSUME TypeOK, BookingInv, NEW r \in Requests, NewRequest(r) \/ Handle(r), NEW h, HasTicket(h)
  PROVE  HasTicket(h)'
<1>1. PICK t \in tickets, b \in bookings :
        t.seat = h.seat /\ t.booking = b.id /\ b.user = h.user
  BY DEF HasTicket
<1>2. PICK c \in bookings' : c.id = b.id /\ c.user = b.user
  BY <1>1, TicketsStay
<1>3. t \in tickets'
  BY TicketsStay
<1> QED BY <1>1, <1>2, <1>3 DEF HasTicket

\* HasTicket looks at the seat and the user of a reservation only.
LEMMA SameTicket ==
  ASSUME NEW g, NEW h, g.seat = h.seat, g.user = h.user, HasTicket(g)
  PROVE  HasTicket(h)
  BY DEF HasTicket

\* A step that brings no confirmed row without a ticket, and does not take its
\* handler to ConfirmMark without one.
LEMMA SaleStep ==
  ASSUME TypeOK, BookingInv, SaleInv, NEW r \in Requests, NewRequest(r) \/ Handle(r),
         NEW q, Go(r, q),
         \A h \in reservations' : h.status = "confirmed" =>
            h \in reservations \/ HasTicket(h)',
         q.pc = "ConfirmMark" => \A h \in q.rows : h.id = q.id => HasTicket(h)'
  PROVE  SaleInv'
<1>1. req' = [req EXCEPT ![r] = q] /\ req \in [Requests -> Handler]
  BY DEF Go, TypeOK
<1>2. ASSUME NEW h \in reservations', h.status = "confirmed" PROVE HasTicket(h)'
  BY <1>2, HasTicketStays DEF SaleInv
<1>3. ASSUME NEW x \in Requests, req'[x].pc = "ConfirmMark",
             NEW h \in req'[x].rows, h.id = req'[x].id
      PROVE  HasTicket(h)'
  <2>1. CASE x = r
    BY <1>1, <1>3, <2>1
  <2>2. CASE x # r
    <3>1. req'[x] = req[x]
      BY <1>1, <2>2
    <3>2. HasTicket(h)
      BY <1>3, <3>1 DEF SaleInv, At, Current
    <3> QED BY <3>2, HasTicketStays
  <2> QED BY <2>1, <2>2
<1> QED BY <1>2, <1>3 DEF SaleInv, At, Current

\* Statements other than ReserveSave and ConfirmMark add no row to the reservations.
LEMMA OnlyDeletes ==
  ASSUME NEW r \in Requests, NewRequest(r) \/ Handle(r), ~ReserveSave(r), ~ConfirmMark(r)
  PROVE  reservations' \subseteq reservations
<1>1. CASE NewRequest(r)
  BY <1>1 DEF NewRequest, ReserveAccept, CancelAccept, CancelAllAccept, ConfirmAccept,
              ViewAccept, ListAccept, SelectAccept, UpdateAccept, RemoveAccept, Accept, db
<1>2. CASE Reserve(r)
  BY <1>2 DEF Reserve, ReservePurge, ReserveCountTickets, ReserveCountHolds,
              ReserveCheckTaken, ReserveCheckHeld, Read, Unexpired, db
<1>3. CASE Cancel(r) \/ View(r)
  BY <1>3 DEF Cancel, CancelFind, CancelRemove, CancelAllDelete, View, ViewPurge,
              ViewTickets, ViewHolds, ListPurge, Read, Unexpired, Without, db
<1>4. CASE Confirm(r)
  BY <1>4 DEF Confirm, ConfirmFind, ConfirmCount, ConfirmCheckTaken, ConfirmDrop,
              ConfirmFindBooking, ConfirmAddBooking, ConfirmAddTicket, ConfirmPurge,
              ConfirmReply, Read, Without, db
<1>5. CASE Book(r)
  BY <1>5 DEF Book, SelectFind, SelectInsert, UpdateFind, UpdateRelease, UpdateWrite,
              RemoveFind, RemoveRelease, RemoveDelete, Read, db
<1> QED BY <1>1, <1>2, <1>3, <1>4, <1>5 DEF Handle

LEMMA HandlerSale ==
  ASSUME TypeOK, TypeOK', HoldInv, BookingInv, SaleInv, NEW r \in Requests, Handle(r)
  PROVE  SaleInv'
<1>0. /\ req \in [Requests -> Handler] /\ req[r] \in Locals
      /\ reservations \in SUBSET Reservation /\ serial.ticket \in Nat
  BY DEF TypeOK, Handler
<1>1. CASE ConfirmAddTicket(r)
  <2>1. CASE req' = [req EXCEPT ![r] = Idle]
    <3>1. Go(r, Idle) /\ Idle.pc = "idle"
      BY <2>1 DEF Go, Idle
    <3>2. reservations' = reservations
      BY <1>1 DEF ConfirmAddTicket
    <3> QED BY <3>1, <3>2, SaleStep
  <2>2. CASE req' # [req EXCEPT ![r] = Idle]
    <3> DEFINE q == [req[r] EXCEPT !.pc = "ConfirmMark"]
    <3>1. q.rows = req[r].rows /\ q.id = req[r].id
      BY <1>0 DEF Locals
    <3>2. Go(r, q) /\ UNCHANGED <<reservations, bookings>>
      BY <1>1, <2>2 DEF ConfirmAddTicket, Answer, Go
    <3>3. PICK b \in bookings : b.id = req[r].booking
      BY <1>1, <2>2 DEF ConfirmAddTicket, Answer, Go
    <3>4. PICK g \in Current(r) : tickets' = tickets \cup
            {[id |-> serial.ticket, booking |-> req[r].booking, seat |-> g.seat]}
      BY <1>1, <2>2 DEF ConfirmAddTicket, Answer, Go
    <3>5. b.user = req[r].user
      BY <1>1, <3>3 DEF BookingInv, ConfirmAddTicket
    <3>6. \E t \in tickets' : t.booking = b.id /\ t.seat = g.seat
      <4> DEFINE t == [id |-> serial.ticket, booking |-> req[r].booking, seat |-> g.seat]
      <4>1. t.booking = b.id /\ t.seat = g.seat
        BY <3>3
      <4>2. t \in tickets'
        BY <3>4
      <4> QED BY <4>1, <4>2
    <3>7. ASSUME NEW h \in req[r].rows, h.id = req[r].id PROVE HasTicket(h)'
      <4>1. h.user = req[r].user
        BY DEF HoldInv, OwnInv
      <4>2. g \in req[r].rows /\ g.id = h.id
        BY <3>7 DEF Current
      <4>3. h \in Known /\ g \in Known
        BY <4>2 DEF Known
      <4>4. h.seat = g.seat
        BY <4>2, <4>3 DEF HoldInv, NameInv, SameHold
      <4> QED BY <3>2, <3>5, <3>6, <4>1, <4>4 DEF HasTicket
    <3> HIDE DEF q
    <3> QED BY <3>1, <3>2, <3>7, SaleStep
  <2> QED BY <2>1, <2>2
<1>2. CASE ConfirmMark(r)
  <2>1. PICK q : Go(r, q) /\ q.pc # "ConfirmAddTicket"
                 /\ (q.pc = "ConfirmMark" => ConfirmAddTicket(r))
    BY <1>2, NotAtTicket
  <2>2. q.pc # "ConfirmMark"
    BY <1>2, <2>1 DEF ConfirmMark, ConfirmAddTicket, At
  <2>3. ASSUME NEW h \in reservations', h \notin reservations PROVE HasTicket(h)'
    <3>1. PICK g \in Current(r) :
            reservations' = Without({g}) \cup {[g EXCEPT !.status = "confirmed"]}
      BY <1>2, <2>3 DEF ConfirmMark
    <3>2. h = [g EXCEPT !.status = "confirmed"]
      BY <2>3, <3>1 DEF Without
    <3>3. g \in Reservation
      BY <1>0 DEF Current, Locals
    <3>4. h.seat = g.seat /\ h.user = g.user
      BY <3>2, <3>3 DEF Reservation
    <3>5. HasTicket(g)
      BY <1>2 DEF SaleInv, ConfirmMark
    <3> QED BY <3>4, <3>5, SameTicket, HasTicketStays
  <2> QED BY <2>1, <2>2, <2>3, SaleStep
<1>3. CASE ConfirmFindBooking(r) \/ ConfirmAddBooking(r)
  <2>1. PICK q : Go(r, q) /\ q.pc \in {"ConfirmAddBooking", "ConfirmAddTicket"}
    <3>1. req'[r].pc \in {"ConfirmAddBooking", "ConfirmAddTicket"} /\ Go(r, req'[r])
      BY <1>0, <1>3 DEF ConfirmFindBooking, ConfirmAddBooking, Read, Go, Locals
    <3> QED BY <3>1
  <2>2. reservations' = reservations
    BY <1>3 DEF ConfirmFindBooking, ConfirmAddBooking, Read, db
  <2> QED BY <2>1, <2>2, SaleStep
<1>4. CASE SelectInsert(r) \/ UpdateWrite(r) \/ RemoveDelete(r)
  <2>1. Go(r, Idle) /\ Idle.pc = "idle" /\ reservations' = reservations
    BY <1>4 DEF SelectInsert, UpdateWrite, RemoveDelete, Answer, Idle
  <2> QED BY <2>1, SaleStep
<1>5. CASE \/ Reserve(r) \/ Cancel(r) \/ View(r) \/ ConfirmFind(r) \/ ConfirmCount(r)
           \/ ConfirmCheckTaken(r) \/ ConfirmDrop(r) \/ ConfirmPurge(r)
           \/ ConfirmReply(r) \/ SelectFind(r) \/ UpdateFind(r)
           \/ UpdateRelease(r) \/ RemoveFind(r) \/ RemoveRelease(r)
  <2>1. PICK q : Go(r, q) /\ (q.pc = "ConfirmMark" => ConfirmAddTicket(r))
    BY <1>5, NotAtTicket DEF Book
  <2>2. CASE ConfirmAddTicket(r) \/ ConfirmMark(r)
    BY <1>1, <1>2, <2>2
  <2>3. CASE ReserveSave(r)
    BY <1>0, <2>1, <2>3, SaleStep
    DEF ReserveSave, ConfirmAddTicket, At
  <2>4. CASE ~ReserveSave(r) /\ ~ConfirmMark(r) /\ ~ConfirmAddTicket(r)
    BY <2>1, <2>4, OnlyDeletes, SaleStep
  <2> QED BY <2>2, <2>3, <2>4
<1> QED BY <1>1, <1>2, <1>3, <1>4, <1>5 DEF Handle, Confirm, Book

\* A reservation row says 'confirmed' only if its user has a ticket for its
\* seat: whatever overlaps and wherever the process crashes.
THEOREM ConfirmedTickets == Spec => []ConfirmedHasTicket
<1>1. Init => SaleInv
  BY DEF Init, SaleInv, At, Idle
<1>2. TypeOK /\ TypeOK' /\ HoldInv /\ BookingInv /\ SaleInv /\ [Next]_vars => SaleInv'
  <2> SUFFICES ASSUME TypeOK, TypeOK', HoldInv, BookingInv, SaleInv, [Next]_vars
               PROVE  SaleInv'
    OBVIOUS
  <2>1. ASSUME NEW r \in Requests, NewRequest(r) PROVE SaleInv'
    <3>1. Go(r, req'[r]) /\ req'[r].pc # "ConfirmMark"
      BY <2>1, NewRequestStarts
    <3>2. req[r] = Idle
      BY <2>1 DEF NewRequest, ReserveAccept, CancelAccept, CancelAllAccept, ConfirmAccept,
                  ViewAccept, ListAccept, SelectAccept, UpdateAccept, RemoveAccept, Accept
    <3>3. Idle.pc = "idle"
      BY DEF Idle
    <3>4. ~ReserveSave(r) /\ ~ConfirmMark(r)
      BY <3>2, <3>3 DEF ReserveSave, ConfirmMark, At
    <3> QED BY <2>1, <3>1, <3>4, OnlyDeletes, SaleStep
  <2>2. ASSUME NEW r \in Requests, Handle(r) PROVE SaleInv'
    BY <2>2, HandlerSale
  <2>3. CASE Cleanup
    BY <2>3 DEF Cleanup, Unexpired, SaleInv, HasTicket, At, Current
  <2>4. CASE Tick \/ Crash \/ UNCHANGED vars
    BY <2>4 DEF Tick, Crash, vars, db, env, SaleInv, HasTicket, At, Current, Idle
  <2> QED BY <2>1, <2>2, <2>3, <2>4 DEF Next
<1>3. SaleInv => ConfirmedHasTicket
  BY DEF SaleInv, HasTicket, ConfirmedHasTicket
<1> QED BY <1>1, <1>2, <1>3, TypeCorrect, HoldInvariant, BookingInvariant, PTL DEF Spec

-----------------------------------------------------------------------------
(* SeatDisciplines: what the seats of a trip rely on the order of requests   *)
(* for.                                                                      *)


\* What holds whatever overlaps.
Base == TypeOK /\ HoldInv /\ BookingInv

\* One step of a behaviour and of its history.
Step == Next /\ broken' = broken \cup Breaks

-----------------------------------------------------------------------------
(* The inductive invariants. *)

\* Where confirm is at one of the rows it has read, and where it is in its loop.
BodySteps == {"ConfirmDrop", "ConfirmFindBooking", "ConfirmAddBooking",
              "ConfirmAddTicket", "ConfirmMark"}
LoopSteps == BodySteps \cup {"ConfirmCheckTaken"}

\* A handler remembers finitely many rows, and the one it is at is among the valid ones.
RowsInv == \A r \in Requests :
    /\ IsFiniteSet(req[r].rows)
    /\ req[r].pc \in BodySteps => \E h \in Valid(req[r]) : h.id = req[r].id

\* The seat that confirm is about to sell has no ticket.
SeatFree(r) == req[r].pc \in {"ConfirmFindBooking", "ConfirmAddBooking", "ConfirmAddTicket"} =>
    \A h \in Current(r) : h.seat \notin TakenSeats

\* The tickets a user has and those he is about to get fit the limit; at the mark, the
\* row has become a ticket and is still among the rows.
Fits(r) ==
    /\ req[r].pc \in LoopSteps \ {"ConfirmMark"} =>
          Cardinality(ActiveTicketsOf(req[r].user)) + Cardinality(Valid(req[r])) <= Limit
    /\ req[r].pc = "ConfirmMark" =>
          Cardinality(ActiveTicketsOf(req[r].user)) + Cardinality(Valid(req[r])) <= Limit + 1

SaleState ==
    /\ OneSeller /\ SeatExclusive
    /\ \A r \in Requests : SeatFree(r) /\ Fits(r)
    /\ \A u \in Users : Cardinality(ActiveTicketsOf(u)) <= Limit

SaleKept == Kept(Sale) => SaleState

\* Whoever is about to insert a booking has seen that its user has none.
SelectState ==
    /\ OneSeller
    /\ \A u \in Users : \A b, c \in SelectedOf(u) : b = c
    /\ \A r \in Requests : req[r].pc \in {"ConfirmAddBooking", "SelectInsert"} =>
          SelectedOf(req[r].user) = {}

SelectKept == Kept(Sale) => SelectState

\* Whoever is about to save a hold has seen that there is none on its seat.
HoldState ==
    /\ OneReserver
    /\ \A g, h \in Holds : g.seat = h.seat => g = h
    /\ \A r \in Requests : req[r].pc = "ReserveSave" => \A h \in Holds : h.seat # req[r].seat

HoldingKept == Kept(Holding) => HoldState

\* A user's unexpired holds, and the seats he has together with his tickets.
HeldBy(u) == {h \in HoldsOf(u) : h.expires > now}
SeatsIn(rows) == {h.seat : h \in rows}
SeatsOf(u) == SeatsIn(ActiveTicketsOf(u)) \cup SeatsIn(HeldBy(u))

\* What a handler relies on of its user's seats, which nobody else adds to.
Counted(r) ==
    /\ req[r].pc = "ReserveCountHolds" =>
          Cardinality(ActiveTicketsOf(req[r].user)) <= req[r].count
    /\ req[r].pc \in {"ReserveCheckTaken", "ReserveCheckHeld", "ReserveSave"} =>
          Cardinality(SeatsOf(req[r].user)) < Limit
    /\ req[r].pc = "ConfirmCount" => HeldBy(req[r].user) \subseteq Valid(req[r])
    /\ req[r].pc \in LoopSteps =>
          Cardinality(SeatsOf(req[r].user) \cup SeatsIn(Valid(req[r]))) <= Limit

CountState ==
    /\ OnePerUser
    /\ \A u \in Users : Cardinality(SeatsOf(u)) <= Limit
    /\ \A r \in Requests : Counted(r)

CountKept == Kept(Counting) => CountState

-----------------------------------------------------------------------------
(* What a step may do to the tables. *)

\* A booking of the next state is one of this state, perhaps with another status, or
\* a new one with the next id.
BookingsGrow == \A c \in bookings' :
    \/ c.id = serial.booking
    \/ \E b \in bookings : b.id = c.id /\ b.user = c.user

LEMMA HandlerBookings ==
  ASSUME TypeOK, NEW r \in Requests, NewRequest(r) \/ Handle(r)
  PROVE  BookingsGrow
<1>1. CASE UNCHANGED bookings
  BY <1>1 DEF BookingsGrow
<1>2. CASE ConfirmAddBooking(r) \/ SelectInsert(r)
  BY <1>2 DEF ConfirmAddBooking, SelectInsert, BookingsGrow
<1>3. CASE UpdateWrite(r)
  <2>1. PICK w \in [bookings -> Booking] :
          /\ bookings' = {w[b] : b \in bookings}
          /\ \A b \in bookings : w[b].id = b.id /\ w[b].user = b.user
    BY <1>3, BookingsRewritten
  <2> QED BY <2>1 DEF BookingsGrow
<1>4. CASE RemoveDelete(r)
  BY <1>4 DEF RemoveDelete, BookingsGrow
<1>5. CASE ConfirmAddTicket(r)
  BY <1>1, <1>5 DEF ConfirmAddTicket
<1> QED BY <1>1, <1>2, <1>3, <1>4, <1>5, TablesAlone DEF Handle, Confirm, Book

LEMMA HandlerTickets ==
  ASSUME TypeOK, NEW r \in Requests, NewRequest(r) \/ Handle(r), ~ConfirmAddTicket(r)
  PROVE  tickets' = tickets
<1>1. CASE ConfirmAddBooking(r) \/ SelectInsert(r) \/ UpdateWrite(r) \/ RemoveDelete(r)
  BY <1>1 DEF ConfirmAddBooking, SelectInsert, UpdateWrite, RemoveDelete
<1> QED BY <1>1, TablesAlone DEF Handle, Confirm, Book

\* While no booking is revived and no ticket is added, nobody gets an active ticket.
LEMMA ActiveShrinks ==
  ASSUME TypeOK, BookingInv, BookingsGrow, NoRevival, tickets' = tickets
  PROVE  /\ \A u : (ActiveTicketsOf(u))' \subseteq ActiveTicketsOf(u)
         /\ ActiveTickets' \subseteq ActiveTickets
<1>1. ASSUME NEW t \in tickets, NEW c \in bookings', c.id = t.booking, Live(c)
      PROVE  \E b \in bookings : b.id = t.booking /\ b.user = c.user /\ Live(b)
  <2>1. PICK a \in bookings : a.id = t.booking
    BY DEF BookingInv
  <2>2. c.id # serial.booking
    BY <1>1, <2>1 DEF BookingInv, TypeOK, Booking
  <2>3. PICK b \in bookings : b.id = c.id /\ b.user = c.user
    BY <2>2 DEF BookingsGrow
  <2> QED BY <1>1, <2>3 DEF NoRevival
<1> QED BY <1>1 DEF ActiveTicketsOf, ActiveTickets

\* A new ticket is one of its handler's user.
LEMMA ActiveGrows ==
  ASSUME TypeOK, BookingInv, NEW r \in Requests, ConfirmAddTicket(r), At(r, "ConfirmAddTicket"),
         tickets' # tickets
  PROVE  \E h, t :
           /\ h \in Current(r) /\ t.seat = h.seat
           /\ ActiveTickets' \subseteq ActiveTickets \cup {t}
           /\ \A u \in Users : (ActiveTicketsOf(u))' \subseteq
                 IF u = req[r].user THEN ActiveTicketsOf(u) \cup {t} ELSE ActiveTicketsOf(u)
<1>1. PICK h \in Current(r) : tickets' = tickets \cup
        {[id |-> serial.ticket, booking |-> req[r].booking, seat |-> h.seat]}
  BY DEF ConfirmAddTicket
<1> DEFINE t == [id |-> serial.ticket, booking |-> req[r].booking, seat |-> h.seat]
<1>2. bookings' = bookings /\ t.booking = req[r].booking /\ t.seat = h.seat
  BY DEF ConfirmAddTicket
<1>3. \A b \in bookings : b.id = req[r].booking => b.user = req[r].user
  BY DEF BookingInv
<1>4. tickets' = tickets \cup {t}
  BY <1>1
<1> HIDE DEF t
<1>5. ActiveTickets' \subseteq ActiveTickets \cup {t}
  BY <1>2, <1>4 DEF ActiveTickets, Live
<1>6. ASSUME NEW u \in Users
      PROVE  (ActiveTicketsOf(u))' \subseteq
                IF u = req[r].user THEN ActiveTicketsOf(u) \cup {t} ELSE ActiveTicketsOf(u)
  BY <1>2, <1>3, <1>4 DEF ActiveTicketsOf, Live
<1> QED BY <1>2, <1>5, <1>6

\* Only the last statement of a reserve adds a hold: confirm saves its rows as confirmed.
LEMMA HandlerHolds ==
  ASSUME TypeOK, NEW r \in Requests, NewRequest(r) \/ Handle(r), ~ReserveSave(r)
  PROVE  Holds' \subseteq Holds
<1>1. CASE reservations' \subseteq reservations
  BY <1>1 DEF Holds
<1>2. CASE NewRequest(r)
  BY <1>1, <1>2 DEF NewRequest, ReserveAccept, CancelAccept, CancelAllAccept, ConfirmAccept,
              ViewAccept, ListAccept, SelectAccept, UpdateAccept, RemoveAccept, Accept, db
<1>3. CASE Reserve(r) \/ Cancel(r) \/ View(r)
  BY <1>1, <1>3
  DEF Reserve, ReservePurge, ReserveCountTickets, ReserveCountHolds, ReserveCheckTaken,
      ReserveCheckHeld, Cancel, CancelFind, CancelRemove, CancelAllDelete, View, ViewPurge,
      ViewTickets, ViewHolds, ListPurge, Read, Unexpired, Without, db
<1>4. CASE Book(r)
  BY <1>1, <1>4
  DEF Book, SelectFind, SelectInsert, UpdateFind, UpdateRelease, UpdateWrite, RemoveFind,
      RemoveRelease, RemoveDelete, Read, db
<1>5. CASE ConfirmMark(r)
  <2>1. CASE UNCHANGED reservations
    BY <1>1, <2>1
  <2>2. ASSUME NEW h \in Current(r),
               reservations' = Without({h}) \cup {[h EXCEPT !.status = "confirmed"]}
        PROVE  Holds' \subseteq Holds
    <3>1. h \in Reservation
      BY DEF Current, TypeOK, Handler, Locals
    <3>2. [h EXCEPT !.status = "confirmed"].status = "confirmed"
      BY <3>1 DEF Reservation
    <3> QED BY <2>2, <3>2 DEF Holds, Without
  <2> QED BY <1>5, <2>1, <2>2 DEF ConfirmMark
<1>6. CASE Confirm(r) /\ ~ConfirmMark(r)
  BY <1>1, <1>6
  DEF Confirm, ConfirmFind, ConfirmCount, ConfirmCheckTaken, ConfirmDrop, ConfirmFindBooking,
      ConfirmAddBooking, ConfirmAddTicket, ConfirmPurge, ConfirmReply, Read, Without, db
<1> QED BY <1>2, <1>3, <1>4, <1>5, <1>6 DEF Handle

-----------------------------------------------------------------------------
(* Where the statements of a handler leave it. *)

\* The user, the rows and the time of a handler stay as they are.
Keeps(r) == /\ req'[r].user = req[r].user /\ req'[r].rows = req[r].rows
            /\ req'[r].at = req[r].at

HeadSteps == {"ConfirmCheckTaken", "ConfirmPurge", "ConfirmReply"}

LEMMA LocalsOf ==
  ASSUME TypeOK, NEW r \in Requests
  PROVE  /\ req \in [Requests -> Handler] /\ req[r] \in Handler
         /\ req[r] \in [pc: Statements, user: Users \cup {None}, seat: Seats \cup {None},
                        id: Nat, status: Statuses \cup {None}, at: Nat,
                        rows: SUBSET Reservation, booking: Nat, count: Nat,
                        taken: SUBSET Seats]
         /\ Idle.pc = "idle" /\ Idle.rows = {}
  BY DEF TypeOK, Handler, Locals, Idle

LEMMA ConfirmMoves ==
  ASSUME TypeOK, NEW r \in Requests
  PROVE  /\ ConfirmFind(r) => /\ req[r].pc = "ConfirmFind"
                              /\ \/ req'[r] = Idle
                                 \/ /\ req'[r].pc = "ConfirmCount"
                                    /\ req'[r].user = req[r].user /\ req'[r].at = req[r].at
                                    /\ req'[r].rows = HoldsOf(req[r].user)
         /\ ConfirmCount(r) => /\ req[r].pc = "ConfirmCount"
                               /\ \/ req'[r] = Idle
                                  \/ /\ req'[r].pc \in HeadSteps /\ Keeps(r)
                                     /\ ~(Cardinality(ActiveTicketsOf(req[r].user))
                                            + Cardinality(Valid(req[r])) > Limit)
         /\ ConfirmCheckTaken(r) => /\ req[r].pc = "ConfirmCheckTaken" /\ Keeps(r)
                                    /\ \E h \in Valid(req[r]) :
                                          /\ req'[r].id = h.id
                                          /\ req'[r].pc = IF h.seat \in TakenSeats
                                                          THEN "ConfirmDrop" ELSE "ConfirmFindBooking"
         /\ ConfirmDrop(r) \/ ConfirmMark(r) =>
               /\ req[r].pc \in {"ConfirmDrop", "ConfirmMark"} /\ req'[r].pc \in HeadSteps
               /\ req'[r].user = req[r].user /\ req'[r].at = req[r].at
               /\ req'[r].rows = req[r].rows \ Current(r)
         /\ ConfirmFindBooking(r) =>
               /\ req[r].pc = "ConfirmFindBooking" /\ Keeps(r) /\ req'[r].id = req[r].id
               /\ \/ req'[r].pc = "ConfirmAddBooking" /\ SelectedOf(req[r].user) = {}
                  \/ req'[r].pc = "ConfirmAddTicket"
         /\ ConfirmAddBooking(r) =>
               /\ req[r].pc = "ConfirmAddBooking" /\ Keeps(r) /\ req'[r].id = req[r].id
               /\ req'[r].pc = "ConfirmAddTicket"
         /\ ConfirmAddTicket(r) => /\ req[r].pc = "ConfirmAddTicket"
                                   /\ \/ req'[r] = Idle /\ tickets' = tickets
                                      \/ /\ req'[r].pc = "ConfirmMark" /\ Keeps(r)
                                         /\ req'[r].id = req[r].id
         /\ ConfirmPurge(r) => req[r].pc = "ConfirmPurge" /\ req'[r].pc = "ConfirmReply"
                               /\ req'[r].rows = {}
         /\ ConfirmReply(r) => req[r].pc = "ConfirmReply" /\ req'[r] = Idle
         /\ Confirm(r) => Go(r, req'[r])
<1> USE LocalsOf DEF Go, Read, At, Keeps, HeadSteps
<1>1. ConfirmFind(r) => /\ req[r].pc = "ConfirmFind"
                        /\ \/ req'[r] = Idle
                           \/ /\ req'[r].pc = "ConfirmCount"
                              /\ req'[r].user = req[r].user /\ req'[r].at = req[r].at
                              /\ req'[r].rows = HoldsOf(req[r].user)
  BY DEF ConfirmFind
<1>2. ConfirmCount(r) => /\ req[r].pc = "ConfirmCount"
                         /\ \/ req'[r] = Idle
                            \/ /\ req'[r].pc \in HeadSteps /\ Keeps(r)
                               /\ ~(Cardinality(ActiveTicketsOf(req[r].user))
                                      + Cardinality(Valid(req[r])) > Limit)
  BY LoopKeeps DEF ConfirmCount
<1>3. ConfirmCheckTaken(r) => /\ req[r].pc = "ConfirmCheckTaken" /\ Keeps(r)
                              /\ \E h \in Valid(req[r]) :
                                    /\ req'[r].id = h.id
                                    /\ req'[r].pc = IF h.seat \in TakenSeats
                                                    THEN "ConfirmDrop" ELSE "ConfirmFindBooking"
  BY DEF ConfirmCheckTaken
<1>4. ConfirmDrop(r) \/ ConfirmMark(r) =>
         /\ req[r].pc \in {"ConfirmDrop", "ConfirmMark"} /\ req'[r].pc \in HeadSteps
         /\ req'[r].user = req[r].user /\ req'[r].at = req[r].at
         /\ req'[r].rows = req[r].rows \ Current(r)
  <2> DEFINE p == [req[r] EXCEPT !.rows = @ \ Current(r)]
  <2>1. /\ p \in Handler /\ p.rows = req[r].rows \ Current(r)
        /\ p.user = req[r].user /\ p.at = req[r].at
    BY DEF Handler, Locals
  <2>2. ConfirmDrop(r) \/ ConfirmMark(r) =>
           req[r].pc \in {"ConfirmDrop", "ConfirmMark"} /\ req'[r] = Loop(p)
    BY DEF ConfirmDrop, ConfirmMark
  <2> HIDE DEF p
  <2> QED BY <2>1, <2>2, LoopKeeps
<1>5. ConfirmFindBooking(r) =>
         /\ req[r].pc = "ConfirmFindBooking" /\ Keeps(r) /\ req'[r].id = req[r].id
         /\ \/ req'[r].pc = "ConfirmAddBooking" /\ SelectedOf(req[r].user) = {}
            \/ req'[r].pc = "ConfirmAddTicket"
  <2>1. CASE SelectedOf(req[r].user) = {}
    BY <2>1 DEF ConfirmFindBooking
  <2>2. CASE SelectedOf(req[r].user) # {}
    <3> DEFINE q(b) == [req[r] EXCEPT !.pc = "ConfirmAddTicket", !.booking = b]
    <3>1. \A b : /\ q(b).pc = "ConfirmAddTicket" /\ q(b).user = req[r].user /\ q(b).at = req[r].at
                 /\ q(b).rows = req[r].rows /\ q(b).id = req[r].id
      OBVIOUS
    <3>2. ConfirmFindBooking(r) => req[r].pc = "ConfirmFindBooking" /\ \E b : req'[r] = q(b)
      BY <2>2 DEF ConfirmFindBooking
    <3> HIDE DEF q
    <3> QED BY <3>1, <3>2
  <2> QED BY <2>1, <2>2
<1>6. ConfirmAddBooking(r) =>
         /\ req[r].pc = "ConfirmAddBooking" /\ Keeps(r) /\ req'[r].id = req[r].id
         /\ req'[r].pc = "ConfirmAddTicket"
  BY DEF ConfirmAddBooking
<1>7. ConfirmAddTicket(r) => /\ req[r].pc = "ConfirmAddTicket"
                             /\ \/ req'[r] = Idle /\ tickets' = tickets
                                \/ /\ req'[r].pc = "ConfirmMark" /\ Keeps(r)
                                   /\ req'[r].id = req[r].id
  BY DEF ConfirmAddTicket, Answer
<1>8. /\ ConfirmPurge(r) => req[r].pc = "ConfirmPurge" /\ req'[r].pc = "ConfirmReply"
                            /\ req'[r].rows = {}
      /\ ConfirmReply(r) => req[r].pc = "ConfirmReply" /\ req'[r] = Idle
  BY DEF ConfirmPurge, ConfirmReply
<1>9. Confirm(r) => Go(r, req'[r])
  <2>1. ConfirmFind(r) \/ ConfirmCount(r) \/ ConfirmCheckTaken(r) \/ ConfirmDrop(r) => Go(r, req'[r])
    BY DEF ConfirmFind, ConfirmCount, ConfirmCheckTaken, ConfirmDrop
  <2>2. ConfirmFindBooking(r) \/ ConfirmAddBooking(r) \/ ConfirmAddTicket(r) => Go(r, req'[r])
    BY DEF ConfirmFindBooking, ConfirmAddBooking, ConfirmAddTicket, Answer
  <2>3. ConfirmMark(r) \/ ConfirmPurge(r) \/ ConfirmReply(r) => Go(r, req'[r])
    BY DEF ConfirmMark, ConfirmPurge, ConfirmReply
  <2> QED BY <2>1, <2>2, <2>3 DEF Confirm
<1> QED BY <1>1, <1>2, <1>3, <1>4, <1>5, <1>6, <1>7, <1>8, <1>9

\* No other statement leads into confirm's loop.
LEMMA OtherMoves ==
  ASSUME TypeOK, NEW r \in Requests, NewRequest(r) \/ Reserve(r) \/ Cancel(r) \/ View(r) \/ Book(r)
  PROVE  /\ Go(r, req'[r]) /\ req'[r].pc \notin LoopSteps \cup {"ConfirmCount"}
         /\ \/ req'[r].rows = {} \/ req'[r].rows = req[r].rows
            \/ req'[r].rows \subseteq reservations
<1> USE DEF LoopSteps, BodySteps, Go, Read, Answer
<1>0. /\ req \in [Requests -> Handler] /\ Idle.pc = "idle" /\ Idle.rows = {}
      /\ req[r] \in [pc: Statements, user: Users \cup {None}, seat: Seats \cup {None},
                     id: Nat, status: Statuses \cup {None}, at: Nat,
                     rows: SUBSET Reservation, booking: Nat, count: Nat,
                     taken: SUBSET Seats]
  BY LocalsOf
<1>1. CASE NewRequest(r)
  <2> USE DEF Accept, Idle
  <2>1. CASE ReserveAccept(r)    BY <1>0, <2>1 DEF ReserveAccept
  <2>2. CASE CancelAccept(r)     BY <1>0, <2>2 DEF CancelAccept
  <2>3. CASE CancelAllAccept(r)  BY <1>0, <2>3 DEF CancelAllAccept
  <2>4. CASE ConfirmAccept(r)    BY <1>0, <2>4 DEF ConfirmAccept
  <2>5. CASE ViewAccept(r)       BY <1>0, <2>5 DEF ViewAccept
  <2>6. CASE ListAccept(r)       BY <1>0, <2>6 DEF ListAccept
  <2>7. CASE SelectAccept(r)     BY <1>0, <2>7 DEF SelectAccept
  <2>8. CASE UpdateAccept(r)     BY <1>0, <2>8 DEF UpdateAccept
  <2>9. CASE RemoveAccept(r)     BY <1>0, <2>9 DEF RemoveAccept
  <2> QED BY <1>1, <2>1, <2>2, <2>3, <2>4, <2>5, <2>6, <2>7, <2>8, <2>9 DEF NewRequest
<1>2. CASE Reserve(r)
  <2>1. CASE ReservePurge(r)       BY <1>0, <2>1 DEF ReservePurge
  <2>2. CASE ReserveCountTickets(r) BY <1>0, <2>2 DEF ReserveCountTickets
  <2>3. CASE ReserveCountHolds(r)  BY <1>0, <2>3 DEF ReserveCountHolds
  <2>4. CASE ReserveCheckTaken(r)  BY <1>0, <2>4 DEF ReserveCheckTaken
  <2>5. CASE ReserveCheckHeld(r)   BY <1>0, <2>5 DEF ReserveCheckHeld
  <2>6. CASE ReserveSave(r)        BY <1>0, <2>6 DEF ReserveSave
  <2> QED BY <1>2, <2>1, <2>2, <2>3, <2>4, <2>5, <2>6 DEF Reserve
<1>3. CASE Cancel(r)
  <2>1. CASE CancelFind(r)
    <3>1. \A S : LET q == [req[r] EXCEPT !.pc = "CancelRemove", !.rows = S] IN
                   q.pc = "CancelRemove" /\ q.rows = S
      BY <1>0
    <3>2. {h \in HoldsOf(req[r].user) : h.id = req[r].id} \subseteq reservations
      BY DEF HoldsOf, Holds
    <3> QED BY <1>0, <2>1, <3>1, <3>2 DEF CancelFind
  <2>2. CASE CancelRemove(r) \/ CancelAllDelete(r)
    BY <1>0, <2>2 DEF CancelRemove, CancelAllDelete
  <2> QED BY <1>3, <2>1, <2>2 DEF Cancel
<1>4. CASE View(r)
  <2>1. CASE ViewPurge(r)          BY <1>0, <2>1 DEF ViewPurge
  <2>2. CASE ViewTickets(r)        BY <1>0, <2>2 DEF ViewTickets
  <2>3. CASE ViewHolds(r)          BY <1>0, <2>3 DEF ViewHolds
  <2>4. CASE ListPurge(r)          BY <1>0, <2>4 DEF ListPurge
  <2> QED BY <1>4, <2>1, <2>2, <2>3, <2>4 DEF View
<1>5. CASE Book(r)
  <2>1. CASE SelectFind(r) \/ SelectInsert(r)
    BY <1>0, <2>1 DEF SelectFind, SelectInsert
  <2>2. CASE UpdateFind(r)
    <3>1. \A u, p : LET q == [req[r] EXCEPT !.user = u, !.pc = p] IN
                      q.pc = p /\ q.rows = req[r].rows
      BY <1>0
    <3> DEFINE p == IF req[r].status \in Inactive THEN "UpdateRelease" ELSE "UpdateWrite"
    <3>2. p \in {"UpdateRelease", "UpdateWrite"}
      OBVIOUS
    <3>3. \/ Go(r, Idle)
          \/ \E b \in bookings : Go(r, [req[r] EXCEPT !.user = b.user, !.pc = p])
      BY <2>2 DEF UpdateFind
    <3> HIDE DEF p
    <3>4. ASSUME NEW q, Go(r, q), q.pc \in {"idle"} \cup {"UpdateRelease", "UpdateWrite"},
                 q.rows = {} \/ q.rows = req[r].rows
          PROVE  /\ Go(r, req'[r]) /\ req'[r].pc \notin LoopSteps \cup {"ConfirmCount"}
                 /\ req'[r].rows = {} \/ req'[r].rows = req[r].rows
      BY <1>0, <3>4
    <3> HIDE DEF Go, LoopSteps, BodySteps
    <3>5. ASSUME NEW u, Go(r, [req[r] EXCEPT !.user = u, !.pc = p])
          PROVE  /\ Go(r, req'[r]) /\ req'[r].pc \notin LoopSteps \cup {"ConfirmCount"}
                 /\ req'[r].rows = {} \/ req'[r].rows = req[r].rows
      <4> DEFINE q == [req[r] EXCEPT !.user = u, !.pc = p]
      <4>1. q.pc = p /\ q.rows = req[r].rows
        BY <3>1
      <4>2. Go(r, q)
        BY <3>5
      <4> HIDE DEF q
      <4> QED BY <3>2, <3>4, <4>1, <4>2
    <3> QED BY <1>0, <3>3, <3>4, <3>5
  <2>3. CASE UpdateRelease(r)      BY <1>0, <2>3 DEF UpdateRelease
  <2>4. CASE UpdateWrite(r)        BY <1>0, <2>4 DEF UpdateWrite
  <2>5. CASE RemoveFind(r)
    <3> DEFINE q(u) == [req[r] EXCEPT !.pc = "RemoveRelease", !.user = u]
    <3>1. \A u : q(u).pc = "RemoveRelease" /\ q(u).rows = req[r].rows
      BY <1>0
    <3>2. Go(r, Idle) \/ \E u : Go(r, q(u))
      BY <2>5 DEF RemoveFind
    <3> HIDE DEF q
    <3>3. ASSUME NEW u, Go(r, q(u))
          PROVE  /\ Go(r, req'[r]) /\ req'[r].pc \notin LoopSteps \cup {"ConfirmCount"}
                 /\ req'[r].rows = req[r].rows
      BY <1>0, <3>1, <3>3
    <3> QED BY <1>0, <3>2, <3>3
  <2>6. CASE RemoveRelease(r)      BY <1>0, <2>6 DEF RemoveRelease
  <2>7. CASE RemoveDelete(r)       BY <1>0, <2>7 DEF RemoveDelete
  <2> QED BY <1>5, <2>1, <2>2, <2>3, <2>4, <2>5, <2>6, <2>7 DEF Book
<1> QED BY <1>1, <1>2, <1>3, <1>4, <1>5

-----------------------------------------------------------------------------
(* The rows that handlers remember are finitely many. *)

\* The row confirm is at is valid like the one with its id that was chosen.
LEMMA CurrentValid ==
  ASSUME TypeOK, HoldInv, RowsInv, NEW r \in Requests, req[r].pc \in BodySteps
  PROVE  Current(r) # {} /\ Current(r) \subseteq Valid(req[r])
<1>1. PICK h \in Valid(req[r]) : h.id = req[r].id
  BY DEF RowsInv
<1>2. \A g \in Current(r) : SameHold(g, h)
  BY <1>1 DEF Current, Valid, HoldInv, NameInv, Known
<1> QED BY <1>1, <1>2 DEF Current, Valid, SameHold

LEMMA RowsMove ==
  ASSUME TypeOK, RowsInv, NEW r \in Requests, Go(r, req'[r]), IsFiniteSet(req'[r].rows),
         req'[r].pc \in BodySteps => \E h \in Valid(req'[r]) : h.id = req'[r].id
  PROVE  RowsInv'
BY LocalsOf DEF RowsInv, Go, Valid

LEMMA RowsStep ==
  ASSUME TypeOK, HoldInv, RowsInv, Next
  PROVE  RowsInv'
<1> USE DEF BodySteps
<1>1. ASSUME NEW r \in Requests, NewRequest(r) \/ Reserve(r) \/ Cancel(r) \/ View(r) \/ Book(r)
      PROVE  RowsInv'
  <2>1. IsFiniteSet(req'[r].rows)
    BY <1>1, OtherMoves, Counts, FS_EmptySet DEF RowsInv
  <2> QED BY <1>1, <2>1, OtherMoves, RowsMove DEF LoopSteps
<1>2. ASSUME NEW r \in Requests, Confirm(r)
      PROVE  RowsInv'
  <2>0. Go(r, req'[r]) /\ IsFiniteSet(req[r].rows) /\ Idle.pc = "idle" /\ Idle.rows = {}
    BY <1>2, ConfirmMoves, LocalsOf DEF RowsInv
  <2>1. CASE ConfirmFind(r)
    <3>1. IsFiniteSet(HoldsOf(req[r].user)) /\ IsFiniteSet({})
      BY Counts, FS_EmptySet DEF HoldsOf, Holds
    <3> QED BY <2>0, <2>1, <3>1, ConfirmMoves, RowsMove
  <2>2. CASE ConfirmCount(r) \/ ConfirmPurge(r) \/ ConfirmReply(r)
    <3>1. IsFiniteSet({})
      BY FS_EmptySet
    <3> QED BY <2>0, <2>2, <3>1, ConfirmMoves, RowsMove DEF HeadSteps, Keeps
  <2>3. CASE ConfirmCheckTaken(r)
    BY <2>0, <2>3, ConfirmMoves, RowsMove DEF Keeps, Valid
  <2>4. CASE ConfirmDrop(r) \/ ConfirmMark(r)
    <3>1. IsFiniteSet(req[r].rows \ Current(r))
      BY <2>0, FS_Subset
    <3> QED BY <2>0, <2>4, <3>1, ConfirmMoves, RowsMove DEF HeadSteps
  <2>5. CASE ConfirmFindBooking(r) \/ ConfirmAddBooking(r) \/ ConfirmAddTicket(r)
    <3>1. req[r].pc \in BodySteps
      BY <2>5, ConfirmMoves
    <3>2. \E h \in Valid(req[r]) : h.id = req[r].id
      BY <3>1 DEF RowsInv
    <3>3. IsFiniteSet({})
      BY FS_EmptySet
    <3> QED BY <2>0, <2>5, <3>2, <3>3, ConfirmMoves, RowsMove DEF Keeps, Valid
  <2> QED BY <1>2, <2>1, <2>2, <2>3, <2>4, <2>5 DEF Confirm
<1>3. CASE Cleanup \/ Tick
  BY <1>3 DEF Cleanup, Tick, RowsInv, Valid
<1>4. CASE Crash
  BY <1>4, LocalsOf, FS_EmptySet DEF Crash, RowsInv
<1> QED BY <1>1, <1>2, <1>3, <1>4 DEF Next, Handle

-----------------------------------------------------------------------------
(* Sales. *)

\* Counting the tickets of a user and the valid rows of a handler is counting finite sets.
LEMMA SaleCounts ==
  ASSUME TypeOK, RowsInv
  PROVE  /\ \A u : IsFiniteSet(ActiveTicketsOf(u)) /\ Cardinality(ActiveTicketsOf(u)) \in Nat
         /\ \A r \in Requests : IsFiniteSet(Valid(req[r])) /\ Cardinality(Valid(req[r])) \in Nat
<1>1. ASSUME NEW u
      PROVE  IsFiniteSet(ActiveTicketsOf(u)) /\ Cardinality(ActiveTicketsOf(u)) \in Nat
  BY Counts DEF ActiveTicketsOf
<1>2. ASSUME NEW r \in Requests
      PROVE  IsFiniteSet(Valid(req[r])) /\ Cardinality(Valid(req[r])) \in Nat
  BY FS_Subset, FS_CardinalityType DEF RowsInv, Valid
<1> QED BY <1>1, <1>2

LEMMA FewerTickets ==
  ASSUME TypeOK, RowsInv, NEW u, (ActiveTicketsOf(u))' \subseteq ActiveTicketsOf(u)
  PROVE  /\ Cardinality((ActiveTicketsOf(u))') \in Nat
         /\ Cardinality((ActiveTicketsOf(u))') <= Cardinality(ActiveTicketsOf(u))
  BY SaleCounts, FS_Subset, FS_CardinalityType

\* A handler that does not move keeps what it relies on when no ticket becomes active.
LEMMA SlotSale ==
  ASSUME TypeOK, RowsInv, NEW q \in Requests, req'[q] = req[q], SeatFree(q), Fits(q),
         \A u : (ActiveTicketsOf(u))' \subseteq ActiveTicketsOf(u),
         ActiveTickets' \subseteq ActiveTickets
  PROVE  SeatFree(q)' /\ Fits(q)'
<1>1. SeatFree(q)'
  BY DEF SeatFree, Current, TakenSeats
<1> DEFINE n == Cardinality(ActiveTicketsOf(req[q].user))
           m == Cardinality((ActiveTicketsOf(req[q].user))')
           v == Cardinality(Valid(req[q]))
<1>2. n \in Nat /\ m \in Nat /\ v \in Nat /\ m <= n /\ Limit \in Nat
  BY SaleCounts, FewerTickets, ConstantsAssumption
<1>3. /\ req[q].pc \in LoopSteps \ {"ConfirmMark"} => n + v <= Limit
      /\ req[q].pc = "ConfirmMark" => n + v <= Limit + 1
  BY DEF Fits
<1>4. /\ req[q].pc \in LoopSteps \ {"ConfirmMark"} => m + v <= Limit
      /\ req[q].pc = "ConfirmMark" => m + v <= Limit + 1
  <2> HIDE DEF n, m, v
  <2> QED BY <1>2, <1>3
<1>5. Fits(q)'
  BY <1>4 DEF Fits, Valid
<1> QED BY <1>1, <1>5

\* What a statement of confirm, other than the one that writes the ticket, leaves its own
\* handler with.
LEMMA OwnSale ==
  ASSUME TypeOK, HoldInv, RowsInv, RowsInv', TypeOK', SaleState, NEW r \in Requests, Confirm(r),
         \A u : (ActiveTicketsOf(u))' \subseteq ActiveTicketsOf(u),
         ActiveTickets' \subseteq ActiveTickets, tickets' = tickets
  PROVE  SeatFree(r)' /\ Fits(r)'
<1> USE DEF LoopSteps, BodySteps
<1>0. Idle.pc = "idle" /\ SeatFree(r) /\ Fits(r) /\ Limit \in Nat
  BY LocalsOf, ConstantsAssumption DEF SaleState
<1>u. PICK u : u = req[r].user
  OBVIOUS
<1> DEFINE n == Cardinality(ActiveTicketsOf(u))
           m == Cardinality((ActiveTicketsOf(u))')
           v == Cardinality(Valid(req[r]))
           w == Cardinality(Valid(req'[r]))
<1>1. n \in Nat /\ m \in Nat /\ v \in Nat /\ w \in Nat /\ m <= n
  <2>1. IsFiniteSet(req'[r].rows)
    BY DEF RowsInv
  <2>2. w \in Nat
    BY <2>1, FS_Subset, FS_CardinalityType DEF Valid
  <2>3. n \in Nat /\ v \in Nat
    BY SaleCounts
  <2>4. m \in Nat /\ m <= n
    BY FewerTickets
  <2> QED BY <2>2, <2>3, <2>4
<1>2. ASSUME req'[r].pc \notin LoopSteps
      PROVE  SeatFree(r)' /\ Fits(r)'
  BY <1>2 DEF SeatFree, Fits
<1>3. ASSUME req'[r].user = req[r].user, req'[r].pc # "ConfirmMark", n + w <= Limit
      PROVE  Fits(r)'
  <2>1. m + w <= Limit
    <3> HIDE DEF n, m, w
    <3> QED BY <1>0, <1>1, <1>3
  <2> QED BY <1>u, <1>3, <2>1 DEF Fits, Valid
<1>4. ASSUME Keeps(r) PROVE w = v
  BY <1>4 DEF Keeps, Valid
<1>5. CASE ConfirmFind(r) \/ ConfirmPurge(r) \/ ConfirmReply(r)
  BY <1>0, <1>2, <1>5, ConfirmMoves
<1>6. CASE ConfirmCount(r)
  <2>1. CASE req'[r] = Idle
    BY <1>0, <1>2, <2>1
  <2>2. CASE req'[r].pc \in HeadSteps /\ Keeps(r) /\ ~(n + v > Limit)
    <3>1. n + w <= Limit
      <4>1. w = v
        BY <1>4, <2>2
      <4> HIDE DEF n, m, v, w
      <4> QED BY <1>0, <1>1, <2>2, <4>1
    <3> QED BY <1>3, <2>2, <3>1 DEF HeadSteps, Keeps, SeatFree
  <2> QED BY <1>u, <1>6, <2>1, <2>2, ConfirmMoves
<1>7. CASE ConfirmCheckTaken(r)
  <2>1. /\ req[r].pc = "ConfirmCheckTaken" /\ Keeps(r)
        /\ req'[r].pc \in {"ConfirmDrop", "ConfirmFindBooking"}
    BY <1>7, ConfirmMoves
  <2>2. PICK h \in Valid(req[r]) : /\ req'[r].id = h.id
                                   /\ req'[r].pc = IF h.seat \in TakenSeats
                                                   THEN "ConfirmDrop" ELSE "ConfirmFindBooking"
    BY <1>7, ConfirmMoves
  <2>3. \A g \in (Current(r))' : g.seat = h.seat
    BY <2>1, <2>2 DEF Current, Keeps, Valid, HoldInv, NameInv, Known, SameHold
  <2>4. SeatFree(r)'
    BY <2>1, <2>2, <2>3 DEF SeatFree, TakenSeats
  <2>5. n + w <= Limit
    <3>1. n + v <= Limit /\ w = v
      BY <1>0, <1>u, <1>4, <2>1 DEF Fits
    <3> HIDE DEF n, v, w
    <3> QED BY <3>1
  <2> QED BY <1>3, <2>1, <2>4, <2>5 DEF Keeps
<1>8. CASE ConfirmDrop(r) \/ ConfirmMark(r)
  <2>1. /\ req[r].pc \in {"ConfirmDrop", "ConfirmMark"} /\ req'[r].pc \in HeadSteps
        /\ req'[r].user = req[r].user /\ req'[r].at = req[r].at
        /\ req'[r].rows = req[r].rows \ Current(r)
    BY <1>8, ConfirmMoves
  <2>2. Current(r) # {} /\ Current(r) \subseteq Valid(req[r])
    BY <2>1, CurrentValid
  <2>3. PICK h \in Current(r) : TRUE
    BY <2>2
  <2>4. Valid(req'[r]) \subseteq Valid(req[r]) \ {h} /\ h \in Valid(req[r])
    BY <2>1, <2>2, <2>3 DEF Valid
  <2>5. w <= v - 1
    <3>1. IsFiniteSet(Valid(req[r]))
      BY SaleCounts
    <3>2. IsFiniteSet(Valid(req[r]) \ {h}) /\ Cardinality(Valid(req[r]) \ {h}) = v - 1
      BY <2>4, <3>1, FS_RemoveElement
    <3> QED BY <2>4, <3>2, FS_Subset
  <2>6. n + v <= Limit + 1
    <3>1. n + v <= Limit \/ n + v <= Limit + 1
      BY <1>0, <1>u, <2>1 DEF Fits
    <3> HIDE DEF n, v
    <3> QED BY <1>0, <1>1, <3>1
  <2>7. n + w <= Limit
    <3> HIDE DEF n, v, w
    <3> QED BY <1>0, <1>1, <2>5, <2>6
  <2> QED BY <1>3, <2>1, <2>7 DEF HeadSteps, SeatFree
<1>9. CASE ConfirmFindBooking(r) \/ ConfirmAddBooking(r)
  <2>1. /\ req[r].pc \in {"ConfirmFindBooking", "ConfirmAddBooking"} /\ Keeps(r)
        /\ req'[r].pc \in {"ConfirmAddBooking", "ConfirmAddTicket"} /\ req'[r].id = req[r].id
    BY <1>9, ConfirmMoves
  <2>2. SeatFree(r)'
    BY <1>0, <2>1 DEF SeatFree, Current, TakenSeats, Keeps
  <2>3. n + w <= Limit
    <3>1. n + v <= Limit /\ w = v
      BY <1>0, <1>u, <1>4, <2>1 DEF Fits
    <3> HIDE DEF n, v, w
    <3> QED BY <3>1
  <2> QED BY <1>3, <2>1, <2>2, <2>3 DEF Keeps
<1>10. CASE ConfirmAddTicket(r)
  <2>1. CASE req'[r] = Idle
    BY <1>0, <1>2, <2>1
  <2>2. CASE req[r].pc = "ConfirmAddTicket" /\ req'[r].pc = "ConfirmMark" /\ Keeps(r)
    <3>1. n + v <= Limit /\ w = v
      BY <1>0, <1>u, <1>4, <2>2 DEF Fits
    <3>2. m + w <= Limit + 1
      <4> HIDE DEF n, m, v, w
      <4> QED BY <1>0, <1>1, <3>1
    <3> QED BY <1>u, <2>2, <3>2 DEF Keeps, Fits, SeatFree, Valid
  <2> QED BY <1>10, <2>1, <2>2, ConfirmMoves
<1> QED BY <1>5, <1>6, <1>7, <1>8, <1>9, <1>10 DEF Confirm

\* A step that adds no ticket and revives no booking.
LEMMA NoTicketSale ==
  ASSUME Base, RowsInv, TypeOK', RowsInv', SaleState, OneSeller', NoRevival, BookingsGrow,
         tickets' = tickets,
         \A q \in Requests : req'[q] = req[q] \/ Confirm(q) \/ req'[q].pc \notin LoopSteps
  PROVE  SaleState'
<1>1. /\ \A u : (ActiveTicketsOf(u))' \subseteq ActiveTicketsOf(u)
      /\ ActiveTickets' \subseteq ActiveTickets
  BY ActiveShrinks DEF Base
<1>2. SeatExclusive'
  BY <1>1 DEF SeatExclusive, SaleState
<1>3. ASSUME NEW u \in Users PROVE Cardinality((ActiveTicketsOf(u))') <= Limit
  <2> DEFINE n == Cardinality(ActiveTicketsOf(u))
             m == Cardinality((ActiveTicketsOf(u))')
  <2>1. n \in Nat /\ n <= Limit
    BY SaleCounts DEF Base, SaleState
  <2>2. m \in Nat /\ m <= n
    BY <1>1, FewerTickets DEF Base
  <2> HIDE DEF n, m
  <2>3. m <= Limit
    BY <2>1, <2>2, ConstantsAssumption
  <2> QED BY <2>3 DEF m
<1>4. ASSUME NEW q \in Requests PROVE SeatFree(q)' /\ Fits(q)'
  <2>1. CASE req'[q] = req[q]
    BY <1>1, <2>1, SlotSale DEF Base, SaleState
  <2>2. CASE Confirm(q)
    BY <1>1, <2>2, OwnSale DEF Base
  <2>3. CASE req'[q].pc \notin LoopSteps
    BY <2>3 DEF SeatFree, Fits, LoopSteps, BodySteps
  <2> QED BY <2>1, <2>2, <2>3
<1> QED BY <1>2, <1>3, <1>4 DEF SaleState

LEMMA OneMore ==
  ASSUME NEW S, IsFiniteSet(S), NEW x
  PROVE  /\ IsFiniteSet(S \cup {x}) /\ Cardinality(S) \in Nat
         /\ Cardinality(S \cup {x}) \in Nat /\ Cardinality(S \cup {x}) <= Cardinality(S) + 1
BY FS_AddElement, FS_CardinalityType

\* The sale of a seat: nobody else is selling, the seat is free, and the row that
\* becomes a ticket was counted.
LEMMA TicketSale ==
  ASSUME Base, RowsInv, SaleState, OneSeller', NEW r \in Requests, ConfirmAddTicket(r),
         tickets' # tickets
  PROVE  SaleState'
<1> USE DEF LoopSteps, BodySteps
<1>1. /\ At(r, "ConfirmAddTicket") /\ req'[r].pc = "ConfirmMark" /\ Keeps(r)
      /\ Go(r, req'[r]) /\ \A q \in Requests \ {r} : req'[q] = req[q]
  <2>1. Confirm(r)
    BY DEF Confirm
  <2>2. At(r, "ConfirmAddTicket") /\ req'[r].pc = "ConfirmMark" /\ Keeps(r) /\ Go(r, req'[r])
    BY <2>1, ConfirmMoves DEF Base, At
  <2> QED BY <2>2 DEF Base, TypeOK, Go
<1>2. PICK h, t :
        /\ h \in Current(r) /\ t.seat = h.seat
        /\ ActiveTickets' \subseteq ActiveTickets \cup {t}
        /\ \A u \in Users : (ActiveTicketsOf(u))' \subseteq
              IF u = req[r].user THEN ActiveTicketsOf(u) \cup {t} ELSE ActiveTicketsOf(u)
  BY <1>1, ActiveGrows DEF Base
<1>3. SeatExclusive'
  <2>1. \A s \in ActiveTickets : s.seat # h.seat
    BY <1>1, <1>2 DEF SaleState, SeatFree, At, TakenSeats
  <2> QED BY <1>2, <2>1 DEF SeatExclusive, SaleState
<1>4. PICK c : c = req[r].user
  OBVIOUS
<1> DEFINE n(u) == Cardinality(ActiveTicketsOf(u))
           m(u) == Cardinality((ActiveTicketsOf(u))')
           v == Cardinality(Valid(req[r]))
<1>5. n(c) \in Nat /\ v \in Nat /\ v # 0 /\ n(c) + v <= Limit /\ Limit \in Nat
  <2>1. Valid(req[r]) # {}
    BY <1>1, CurrentValid DEF Base, At
  <2>2. IsFiniteSet(Valid(req[r])) /\ v \in Nat /\ n(c) \in Nat
    BY SaleCounts DEF Base
  <2>3. n(c) + v <= Limit
    BY <1>1, <1>4 DEF SaleState, Fits, At
  <2> QED BY <2>1, <2>2, <2>3, FS_EmptySet, ConstantsAssumption
<1>6. ASSUME NEW u \in Users
      PROVE  m(u) \in Nat /\ m(u) <= IF u = c THEN n(u) + 1 ELSE n(u)
  <2>1. IsFiniteSet(ActiveTicketsOf(u)) /\ n(u) \in Nat
    BY SaleCounts DEF Base
  <2>2. CASE u = c
    <3>1. (ActiveTicketsOf(u))' \subseteq ActiveTicketsOf(u) \cup {t}
      BY <1>2, <1>4, <2>2
    <3>2. /\ IsFiniteSet(ActiveTicketsOf(u) \cup {t})
          /\ Cardinality(ActiveTicketsOf(u) \cup {t}) \in Nat
          /\ Cardinality(ActiveTicketsOf(u) \cup {t}) <= n(u) + 1
      BY <2>1, OneMore
    <3>3. m(u) \in Nat /\ m(u) <= Cardinality(ActiveTicketsOf(u) \cup {t})
      BY <3>1, <3>2, FS_Subset, FS_CardinalityType
    <3> HIDE DEF n, m
    <3> QED BY <2>1, <2>2, <3>2, <3>3
  <2>3. CASE u # c
    <3>1. (ActiveTicketsOf(u))' \subseteq ActiveTicketsOf(u)
      BY <1>2, <1>4, <2>3
    <3> QED BY <2>3, <3>1, FewerTickets DEF Base
  <2> QED BY <2>2, <2>3
<1>7. ASSUME NEW u \in Users PROVE m(u) <= Limit
  <2>1. n(u) \in Nat /\ n(u) <= Limit
    BY SaleCounts DEF Base, SaleState
  <2>2. m(u) \in Nat /\ m(u) <= IF u = c THEN n(u) + 1 ELSE n(u)
    BY <1>6
  <2> HIDE DEF n, m, v
  <2> QED BY <1>5, <2>1, <2>2
<1>8. Fits(r)'
  <2>1. c \in Users
    BY <1>1, <1>4, LocalsOf DEF Base, At, Handler, ViewSteps, FindSteps, Statements, SellSteps
  <2>2. m(c) \in Nat /\ m(c) <= n(c) + 1
    BY <1>6, <2>1
  <2>3. m(c) + v <= Limit + 1
    <3> HIDE DEF n, m, v
    <3> QED BY <1>5, <2>2
  <2> QED BY <1>1, <1>4, <2>3 DEF Fits, Keeps, Valid
<1>9. ASSUME NEW q \in Requests PROVE SeatFree(q)' /\ Fits(q)'
  <2>1. CASE q = r
    BY <1>1, <1>8, <2>1 DEF SeatFree
  <2>2. CASE q # r
    <3>1. req'[q] = req[q] /\ req[q].pc \notin SellSteps
      BY <1>1, <2>2 DEF SaleState, OneSeller, In, At, SellSteps
    <3> QED BY <3>1 DEF SeatFree, Fits, SellSteps
  <2> QED BY <2>1, <2>2
<1> QED BY <1>3, <1>7, <1>9 DEF SaleState

\* Where a step may take a handler, and what it may do to the tables.
LEMMA StepMoves ==
  ASSUME TypeOK, Next
  PROVE  /\ BookingsGrow
         /\ \A q \in Requests : req'[q] = req[q] \/ Confirm(q) \/ req'[q].pc \notin LoopSteps
         /\ tickets' # tickets => \E r \in Requests : ConfirmAddTicket(r)
<1>1. CASE UNCHANGED <<bookings, tickets, req>>
  BY <1>1 DEF BookingsGrow
<1>2. CASE Crash
  BY <1>2, LocalsOf DEF Crash, db, BookingsGrow, LoopSteps, BodySteps
<1>3. ASSUME NEW r \in Requests, NewRequest(r) \/ Handle(r)
      PROVE  /\ BookingsGrow
             /\ \A q \in Requests : req'[q] = req[q] \/ Confirm(q) \/ req'[q].pc \notin LoopSteps
             /\ tickets' # tickets => \E q \in Requests : ConfirmAddTicket(q)
  <2>1. Go(r, req'[r])
    BY <1>3, ConfirmMoves, OtherMoves DEF Handle
  <2>2. \A q \in Requests \ {r} : req'[q] = req[q]
    BY <2>1 DEF Go, TypeOK
  <2>3. Confirm(r) \/ req'[r].pc \notin LoopSteps
    BY <1>3, OtherMoves DEF Handle
  <2> QED BY <1>3, <2>2, <2>3, HandlerBookings, HandlerTickets
<1> QED BY <1>1, <1>2, <1>3 DEF Next, Cleanup, Tick, db

\* A discipline that is kept after a step was kept before it and by it.
LEMMA StillKept ==
  ASSUME Step
  PROVE  /\ Kept(Sale)' => Kept(Sale) /\ OneSeller' /\ NoRevival
         /\ Kept(Holding)' => Kept(Holding) /\ OneReserver'
         /\ Kept(Counting)' => Kept(Counting) /\ OnePerUser' /\ NoRevival
BY DEF Step, Kept, Breaks, Sale, Holding, Counting

LEMMA SoldStep ==
  ASSUME Base, TypeOK', RowsInv, RowsInv', Step, SaleKept
  PROVE  SaleKept'
<1> SUFFICES ASSUME Kept(Sale)' PROVE SaleState'
  BY DEF SaleKept
<1>1. SaleState /\ OneSeller' /\ NoRevival
  BY StillKept DEF SaleKept
<1>2. CASE tickets' = tickets
  BY <1>1, <1>2, StepMoves, NoTicketSale DEF Step, Base
<1>3. CASE tickets' # tickets
  BY <1>1, <1>3, StepMoves, TicketSale DEF Step, Base
<1> QED BY <1>2, <1>3

-----------------------------------------------------------------------------
(* From steps to behaviours. *)

LEMMA BaseAlways == DisciplineSpec => []Base
<1>1. DisciplineInit => Init
  BY DEF DisciplineInit
<1>2. [Next /\ broken' = broken \cup Breaks]_<<vars, broken>> => [Next]_vars
  BY DEF vars
<1> QED BY <1>1, <1>2, TypeCorrect, HoldInvariant, BookingInvariant, PTL
        DEF DisciplineSpec, Spec, Base

LEMMA RowsAlways == DisciplineSpec => []RowsInv
<1>1. DisciplineInit => RowsInv
  BY FS_EmptySet DEF DisciplineInit, Init, RowsInv, Idle, BodySteps
<1>2. Base /\ RowsInv /\ [Next /\ broken' = broken \cup Breaks]_<<vars, broken>> => RowsInv'
  <2>1. Base /\ RowsInv /\ Next => RowsInv'
    BY RowsStep DEF Base
  <2>2. RowsInv /\ UNCHANGED <<vars, broken>> => RowsInv'
    BY DEF RowsInv, Valid, vars
  <2> QED BY <2>1, <2>2
<1> QED BY <1>1, <1>2, BaseAlways, PTL DEF DisciplineSpec

LEMMA SaleAlways == DisciplineSpec => []SaleKept
<1>1. DisciplineInit => SaleKept
  <2> SUFFICES ASSUME DisciplineInit PROVE SaleState
    BY DEF SaleKept
  <2>1. /\ \A r \in Requests : req[r].pc = "idle"
        /\ tickets = {}
    BY DEF DisciplineInit, Init, Idle
  <2>2. \A u \in Users : Cardinality(ActiveTicketsOf(u)) <= Limit
    <3>1. \A u \in Users : ActiveTicketsOf(u) = {}
      BY <2>1 DEF ActiveTicketsOf
    <3> QED BY <3>1, FS_EmptySet, ConstantsAssumption
  <2> QED BY <2>1, <2>2 DEF SaleState, OneSeller, In, SellSteps, SeatExclusive, ActiveTickets,
              SeatFree, Fits, LoopSteps, BodySteps
<1>2. Base /\ Base' /\ RowsInv /\ RowsInv' /\ SaleKept
         /\ [Next /\ broken' = broken \cup Breaks]_<<vars, broken>> => SaleKept'
  <2>1. Base /\ Base' /\ RowsInv /\ RowsInv' /\ SaleKept /\ Step => SaleKept'
    BY SoldStep DEF Base
  <2>2. SaleKept /\ UNCHANGED <<vars, broken>> => SaleKept'
    BY DEF SaleKept, SaleState, Kept, OneSeller, In, SeatExclusive, ActiveTickets, SeatFree,
           Current, TakenSeats, Fits, Valid, ActiveTicketsOf, vars
  <2> QED BY <2>1, <2>2 DEF Step
<1> QED BY <1>1, <1>2, BaseAlways, RowsAlways, PTL DEF DisciplineSpec

\* No seat of the trip is sold twice while sales do not overlap and no booking is
\* revived, whatever reserves, cancellations, seat maps, status changes, cron jobs and
\* crashes come between two statements of confirm.
THEOREM SeatsSoldOnce == DisciplineSpec => []SoldOnce
<1>1. SaleKept => SoldOnce
  BY DEF SaleKept, SaleState, SoldOnce
<1> QED BY <1>1, SaleAlways, PTL

\* Nor does a user get more than Limit tickets: each row of the loop is counted once,
\* either among the tickets or among the rows still to be sold.
THEOREM TicketsLimited == DisciplineSpec => []TicketLimit
<1>1. SaleKept => TicketLimit
  BY DEF SaleKept, SaleState, TicketLimit
<1> QED BY <1>1, SaleAlways, PTL

-----------------------------------------------------------------------------
(* The statements that rely on what the one before them has read. *)

UpdateSteps == {"UpdateFind", "UpdateRelease", "UpdateWrite"}
ChainSteps == UpdateSteps \cup {"ReserveCountHolds", "ReserveCheckTaken", "ReserveCheckHeld",
                                "ReserveSave", "SelectInsert"}

\* No other statement leads to one of them.
LEMMA ChainEntered ==
  ASSUME TypeOK, NEW r \in Requests,
         \/ NewRequest(r) /\ ~UpdateAccept(r)
         \/ ReservePurge(r) \/ ReserveSave(r) \/ Cancel(r) \/ Confirm(r) \/ View(r)
         \/ SelectInsert(r) \/ UpdateWrite(r) \/ RemoveFind(r) \/ RemoveRelease(r) \/ RemoveDelete(r)
  PROVE  req'[r].pc \notin ChainSteps
<1> USE DEF ChainSteps, UpdateSteps, Go, Read, Answer
<1>0. /\ req \in [Requests -> Handler] /\ Idle.pc = "idle"
      /\ req[r] \in [pc: Statements, user: Users \cup {None}, seat: Seats \cup {None},
                     id: Nat, status: Statuses \cup {None}, at: Nat,
                     rows: SUBSET Reservation, booking: Nat, count: Nat,
                     taken: SUBSET Seats]
  BY LocalsOf
<1>1. CASE NewRequest(r) /\ ~UpdateAccept(r)
  <2> USE DEF Accept, Idle
  <2>1. CASE ReserveAccept(r)    BY <1>0, <2>1 DEF ReserveAccept
  <2>2. CASE CancelAccept(r)     BY <1>0, <2>2 DEF CancelAccept
  <2>3. CASE CancelAllAccept(r)  BY <1>0, <2>3 DEF CancelAllAccept
  <2>4. CASE ConfirmAccept(r)    BY <1>0, <2>4 DEF ConfirmAccept
  <2>5. CASE ViewAccept(r)       BY <1>0, <2>5 DEF ViewAccept
  <2>6. CASE ListAccept(r)       BY <1>0, <2>6 DEF ListAccept
  <2>7. CASE SelectAccept(r)     BY <1>0, <2>7 DEF SelectAccept
  <2>8. CASE RemoveAccept(r)     BY <1>0, <2>8 DEF RemoveAccept
  <2> QED BY <1>1, <2>1, <2>2, <2>3, <2>4, <2>5, <2>6, <2>7, <2>8 DEF NewRequest
<1>2. CASE ReservePurge(r) \/ ReserveSave(r)
  BY <1>0, <1>2 DEF ReservePurge, ReserveSave
<1>3. CASE Cancel(r)
  <2>1. CASE CancelFind(r)
    <3>1. \A S : LET q == [req[r] EXCEPT !.pc = "CancelRemove", !.rows = S] IN
                   q.pc = "CancelRemove"
      BY <1>0
    <3> QED BY <1>0, <2>1, <3>1 DEF CancelFind
  <2>2. CASE CancelRemove(r) \/ CancelAllDelete(r)
    BY <1>0, <2>2 DEF CancelRemove, CancelAllDelete
  <2> QED BY <1>3, <2>1, <2>2 DEF Cancel
<1>4. CASE Confirm(r)
  <2>1. CASE ConfirmFind(r) \/ ConfirmCount(r) \/ ConfirmCheckTaken(r)
    BY <1>0, <2>1, ConfirmMoves DEF HeadSteps
  <2>2. CASE ConfirmDrop(r) \/ ConfirmMark(r)
    BY <1>0, <2>2, ConfirmMoves DEF HeadSteps
  <2>3. CASE ConfirmFindBooking(r) \/ ConfirmAddBooking(r)
    BY <1>0, <2>3, ConfirmMoves
  <2>4. CASE ConfirmAddTicket(r) \/ ConfirmPurge(r) \/ ConfirmReply(r)
    BY <1>0, <2>4, ConfirmMoves
  <2> QED BY <1>4, <2>1, <2>2, <2>3, <2>4 DEF Confirm
<1>5. CASE View(r)
  <2>1. CASE ViewPurge(r)          BY <1>0, <2>1 DEF ViewPurge
  <2>2. CASE ViewTickets(r)        BY <1>0, <2>2 DEF ViewTickets
  <2>3. CASE ViewHolds(r)          BY <1>0, <2>3 DEF ViewHolds
  <2>4. CASE ListPurge(r)          BY <1>0, <2>4 DEF ListPurge
  <2> QED BY <1>5, <2>1, <2>2, <2>3, <2>4 DEF View
<1>6. CASE SelectInsert(r) \/ UpdateWrite(r)
  BY <1>0, <1>6 DEF SelectInsert, UpdateWrite
<1>7. CASE RemoveFind(r) \/ RemoveRelease(r) \/ RemoveDelete(r)
  <2>1. CASE RemoveFind(r)           BY <1>0, <2>1 DEF RemoveFind
  <2>2. CASE RemoveRelease(r)        BY <1>0, <2>2 DEF RemoveRelease
  <2>3. CASE RemoveDelete(r)         BY <1>0, <2>3 DEF RemoveDelete
  <2> QED BY <1>7, <2>1, <2>2, <2>3
<1> QED BY <1>1, <1>2, <1>3, <1>4, <1>5, <1>6, <1>7

\* Where they lead.
LEMMA ChainMoves ==
  ASSUME TypeOK, NEW r \in Requests
  PROVE  /\ ReserveCountTickets(r) =>
               /\ req'[r].pc = "ReserveCountHolds" /\ req'[r].user = req[r].user
               /\ req'[r].count = Cardinality(ActiveTicketsOf(req[r].user))
         /\ ReserveCountHolds(r) =>
               /\ req[r].pc = "ReserveCountHolds"
               /\ \/ req'[r] = Idle
                  \/ /\ req'[r].pc = "ReserveCheckTaken" /\ req'[r].user = req[r].user
                     /\ ~(req[r].count + Cardinality(HeldBy(req[r].user)) >= Limit)
         /\ ReserveCheckTaken(r) =>
               /\ req[r].pc = "ReserveCheckTaken"
               /\ \/ req'[r] = Idle
                  \/ req'[r].pc = "ReserveCheckHeld" /\ req'[r].user = req[r].user
         /\ ReserveCheckHeld(r) =>
               /\ req[r].pc = "ReserveCheckHeld"
               /\ \/ req'[r] = Idle
                  \/ /\ req'[r].pc = "ReserveSave" /\ req'[r].user = req[r].user
                     /\ req'[r].seat = req[r].seat
                     /\ \A h \in Holds : h.seat # req[r].seat
         /\ SelectFind(r) =>
               \/ req'[r] = Idle
               \/ /\ req'[r].pc = "SelectInsert" /\ req'[r].user = req[r].user
                  /\ SelectedOf(req[r].user) = {}
         /\ UpdateAccept(r) => req'[r].pc = "UpdateFind" /\ req'[r].status \in Updates
         /\ UpdateFind(r) =>
               /\ req[r].pc = "UpdateFind"
               /\ \/ req'[r] = Idle
                  \/ req'[r].pc \in UpdateSteps /\ req'[r].status = req[r].status
         /\ UpdateRelease(r) =>
               /\ req[r].pc = "UpdateRelease" /\ req'[r].pc = "UpdateWrite"
               /\ req'[r].status = req[r].status
<1> USE DEF UpdateSteps, Go, Read, Answer, At
<1>0. /\ req \in [Requests -> Handler] /\ Idle.pc = "idle"
      /\ req[r] \in [pc: Statements, user: Users \cup {None}, seat: Seats \cup {None},
                     id: Nat, status: Statuses \cup {None}, at: Nat,
                     rows: SUBSET Reservation, booking: Nat, count: Nat,
                     taken: SUBSET Seats]
  BY LocalsOf
<1>1. ReserveCountTickets(r) =>
        /\ req'[r].pc = "ReserveCountHolds" /\ req'[r].user = req[r].user
        /\ req'[r].count = Cardinality(ActiveTicketsOf(req[r].user))
  BY <1>0 DEF ReserveCountTickets
<1>2. ReserveCountHolds(r) =>
        /\ req[r].pc = "ReserveCountHolds"
        /\ \/ req'[r] = Idle
           \/ /\ req'[r].pc = "ReserveCheckTaken" /\ req'[r].user = req[r].user
              /\ ~(req[r].count + Cardinality(HeldBy(req[r].user)) >= Limit)
  BY <1>0 DEF ReserveCountHolds, HeldBy
<1>3. ReserveCheckTaken(r) =>
        /\ req[r].pc = "ReserveCheckTaken"
        /\ \/ req'[r] = Idle
           \/ req'[r].pc = "ReserveCheckHeld" /\ req'[r].user = req[r].user
  BY <1>0 DEF ReserveCheckTaken
<1>4. ReserveCheckHeld(r) =>
        /\ req[r].pc = "ReserveCheckHeld"
        /\ \/ req'[r] = Idle
           \/ /\ req'[r].pc = "ReserveSave" /\ req'[r].user = req[r].user
              /\ req'[r].seat = req[r].seat
              /\ \A h \in Holds : h.seat # req[r].seat
  BY <1>0 DEF ReserveCheckHeld
<1>5. SelectFind(r) =>
        \/ req'[r] = Idle
        \/ /\ req'[r].pc = "SelectInsert" /\ req'[r].user = req[r].user
           /\ SelectedOf(req[r].user) = {}
  BY <1>0 DEF SelectFind
<1>6. UpdateAccept(r) => req'[r].pc = "UpdateFind" /\ req'[r].status \in Updates
  BY <1>0 DEF UpdateAccept, Accept, Idle
<1>7. UpdateFind(r) =>
        /\ req[r].pc = "UpdateFind"
        /\ \/ req'[r] = Idle
           \/ req'[r].pc \in UpdateSteps /\ req'[r].status = req[r].status
  <2> DEFINE p == IF req[r].status \in Inactive THEN "UpdateRelease" ELSE "UpdateWrite"
  <2>1. p \in UpdateSteps
    OBVIOUS
  <2>2. UpdateFind(r) =>
          /\ req[r].pc = "UpdateFind"
          /\ \/ Go(r, Idle)
             \/ \E b \in bookings : Go(r, [req[r] EXCEPT !.user = b.user, !.pc = p])
    BY DEF UpdateFind
  <2> HIDE DEF p
  <2> QED BY <1>0, <2>1, <2>2
<1>8. UpdateRelease(r) =>
        /\ req[r].pc = "UpdateRelease" /\ req'[r].pc = "UpdateWrite"
        /\ req'[r].status = req[r].status
  BY <1>0 DEF UpdateRelease
<1> QED BY <1>1, <1>2, <1>3, <1>4, <1>5, <1>6, <1>7, <1>8

\* A step is one of a handler, the others standing still, or no handler moves on.
LEMMA StepOf ==
  ASSUME TypeOK, Next
  PROVE  \/ \E r \in Requests : /\ NewRequest(r) \/ Handle(r)
                                /\ \A q \in Requests \ {r} : req'[q] = req[q]
         \/ /\ UNCHANGED <<bookings, tickets>> /\ reservations' \subseteq reservations
            /\ \A q \in Requests : req'[q] = req[q] \/ req'[q] = Idle
<1>1. CASE Cleanup \/ Tick \/ Crash
  BY <1>1 DEF Cleanup, Tick, Crash, Unexpired, db
<1>2. ASSUME NEW r \in Requests, NewRequest(r) \/ Handle(r)
      PROVE  \A q \in Requests \ {r} : req'[q] = req[q]
  <2>1. Go(r, req'[r])
    BY <1>2, ConfirmMoves, OtherMoves DEF Handle
  <2> QED BY <2>1 DEF Go, TypeOK
<1> QED BY <1>1, <1>2 DEF Next

\* At the last statement of a reserve, the handler has just looked for a hold.
LEMMA SavesFree ==
  ASSUME TypeOK, NEW r \in Requests, NewRequest(r) \/ Handle(r), req'[r].pc = "ReserveSave"
  PROVE  /\ \A h \in Holds : h.seat # req'[r].seat
         /\ Holds' \subseteq Holds
<1>1. ReserveCheckHeld(r)
  BY ChainEntered, ChainMoves, LocalsOf DEF Handle, Reserve, Book, ChainSteps, UpdateSteps
<1>2. ~ReserveSave(r)
  BY <1>1 DEF ReserveCheckHeld, ReserveSave, Read, At
<1> QED BY <1>1, <1>2, ChainMoves, HandlerHolds, LocalsOf

LEMMA OneHoldStep ==
  ASSUME TypeOK, HoldState, OneReserver', Next
  PROVE  HoldState'
<1>1. CASE Holds' \subseteq Holds /\ \A q \in Requests : req'[q].pc = "ReserveSave" =>
             \A h \in Holds : h.seat # req'[q].seat
  BY <1>1 DEF HoldState
<1>2. ASSUME NEW r \in Requests, ReserveSave(r), \A q \in Requests \ {r} : req'[q] = req[q]
      PROVE  HoldState'
  <2> DEFINE new == [id |-> serial.reservation, user |-> req[r].user, seat |-> req[r].seat,
                     status |-> "reserved", expires |-> req[r].at + HoldTime]
  <2>1. Holds' \subseteq Holds \cup {new} /\ new.seat = req[r].seat
    BY <1>2 DEF ReserveSave, Holds
  <2>2. req[r].pc = "ReserveSave" /\ req'[r].pc = "idle"
    BY <1>2, LocalsOf DEF ReserveSave, Answer, Go, At
  <2>3. \A q \in Requests : req'[q].pc # "ReserveSave"
    BY <1>2, <2>2 DEF HoldState, OneReserver, In, ReserveSteps
  <2> HIDE DEF new
  <2> QED BY <2>1, <2>2, <2>3 DEF HoldState
<1>3. ASSUME NEW r \in Requests, NewRequest(r) \/ Handle(r), ~ReserveSave(r),
             \A q \in Requests \ {r} : req'[q] = req[q]
      PROVE  HoldState'
  BY <1>1, <1>3, HandlerHolds, SavesFree DEF HoldState
<1>4. CASE /\ reservations' \subseteq reservations
           /\ \A q \in Requests : req'[q] = req[q] \/ req'[q] = Idle
  BY <1>1, <1>4, LocalsOf DEF HoldState, Holds
<1> QED BY <1>2, <1>3, <1>4, StepOf

\* A seat has one hold at most while reserves do not overlap, although confirms save rows
\* they read long before and any other request comes in between.
THEOREM HoldsExclusive == DisciplineSpec => []HoldExclusive
<1>1. DisciplineInit => HoldingKept
  BY DEF DisciplineInit, Init, Idle, HoldingKept, HoldState, OneReserver, In, ReserveSteps, Holds
<1>2. Base /\ HoldingKept /\ [Next /\ broken' = broken \cup Breaks]_<<vars, broken>>
        => HoldingKept'
  <2>1. Base /\ HoldingKept /\ Step => HoldingKept'
    BY StillKept, OneHoldStep DEF Base, HoldingKept, Step
  <2>2. HoldingKept /\ UNCHANGED <<vars, broken>> => HoldingKept'
    BY DEF HoldingKept, HoldState, Kept, OneReserver, In, Holds, vars
  <2> QED BY <2>1, <2>2 DEF Step
<1>3. HoldingKept => HoldExclusive
  BY DEF HoldingKept, HoldState, HoldExclusive
<1> QED BY <1>1, <1>2, <1>3, BaseAlways, PTL DEF DisciplineSpec

-----------------------------------------------------------------------------
(* The booking that tickets are added to. *)

\* Clients send the status of an update when they ask for it.
UpdatesSent == \A r \in Requests : req[r].pc \in UpdateSteps => req[r].status \in Updates

LEMMA UpdatesStep ==
  ASSUME TypeOK, UpdatesSent, Next
  PROVE  UpdatesSent'
<1>1. ASSUME NEW r \in Requests, NewRequest(r) \/ Handle(r), req'[r].pc \in UpdateSteps
      PROVE  req'[r].status \in Updates
  <2>1. UpdateAccept(r) \/ UpdateFind(r) \/ UpdateRelease(r)
    BY <1>1, ChainEntered, ChainMoves, LocalsOf DEF Handle, Reserve, Book, ChainSteps, UpdateSteps
  <2>2. \/ req'[r].status \in Updates
        \/ req'[r].status = req[r].status /\ req[r].pc \in UpdateSteps
    BY <1>1, <2>1, ChainMoves, LocalsOf DEF UpdateSteps
  <2> QED BY <2>2 DEF UpdatesSent
<1> QED BY <1>1, StepOf, LocalsOf DEF UpdatesSent, UpdateSteps

\* Only the two inserts select a booking, unless a client sends that status.
LEMMA Selecting ==
  ASSUME TypeOK, UpdatesSent, "Selected" \notin Updates, NEW r \in Requests,
         NewRequest(r) \/ Handle(r), ~ConfirmAddBooking(r), ~SelectInsert(r), NEW u
  PROVE  (SelectedOf(u))' \subseteq SelectedOf(u)
<1>1. CASE bookings' \subseteq bookings
  BY <1>1 DEF SelectedOf
<1>2. CASE UpdateWrite(r)
  <2> DEFINE f(b) == IF b.id = req[r].id THEN [b EXCEPT !.status = req[r].status] ELSE b
  <2>1. req[r].status # "Selected"
    BY <1>2 DEF UpdateWrite, At, UpdatesSent, UpdateSteps
  <2>2. ASSUME NEW b \in bookings
        PROVE  f(b).status = "Selected" => f(b) = b
    <3>1. b \in [id: Nat, user: Users, status: Statuses]
      BY DEF TypeOK, Booking
    <3>2. [b EXCEPT !.status = req[r].status].status = req[r].status
      BY <3>1
    <3> QED BY <2>1, <3>2
  <2>3. bookings' = {f(b) : b \in bookings}
    BY <1>2 DEF UpdateWrite
  <2> HIDE DEF f
  <2> QED BY <2>2, <2>3 DEF SelectedOf
<1>3. CASE RemoveDelete(r) \/ ConfirmAddTicket(r)
  BY <1>1, <1>3 DEF RemoveDelete, ConfirmAddTicket
<1> QED BY <1>1, <1>2, <1>3, TablesAlone DEF Handle, Confirm, Book

\* A handler that is about to insert has just looked for one.
LEMMA InsertsAlone ==
  ASSUME TypeOK, NEW r \in Requests, NewRequest(r) \/ Handle(r),
         req'[r].pc \in {"ConfirmAddBooking", "SelectInsert"}
  PROVE  /\ SelectedOf(req'[r].user) = {}
         /\ ~ConfirmAddBooking(r) /\ ~SelectInsert(r)
<1>1. CASE req'[r].pc = "ConfirmAddBooking"
  <2>1. Confirm(r)
    BY <1>1, OtherMoves DEF Handle, LoopSteps, BodySteps
  <2>2. ConfirmFindBooking(r)
    BY <1>1, <2>1, ConfirmMoves, LocalsOf DEF Confirm, HeadSteps
  <2>3. req[r].pc = "ConfirmFindBooking"
    BY <2>2, ConfirmMoves
  <2> QED BY <1>1, <2>2, <2>3, ConfirmMoves DEF Keeps, ConfirmAddBooking, SelectInsert, At
<1>2. CASE req'[r].pc = "SelectInsert"
  <2>1. SelectFind(r)
    BY <1>2, ChainEntered, ChainMoves, LocalsOf DEF Handle, Reserve, Book, ChainSteps, UpdateSteps
  <2> QED BY <1>2, <2>1, ChainMoves, LocalsOf
          DEF SelectFind, Read, ConfirmAddBooking, SelectInsert, At
<1> QED BY <1>1, <1>2

LEMMA OneSelectedStep ==
  ASSUME TypeOK, UpdatesSent, "Selected" \notin Updates, SelectState, OneSeller', Next
  PROVE  SelectState'
<1> USE DEF SellSteps
<1>1. ASSUME NEW r \in Requests, ConfirmAddBooking(r) \/ SelectInsert(r),
             \A q \in Requests \ {r} : req'[q] = req[q]
      PROVE  SelectState'
  <2> DEFINE new == [id |-> serial.booking, user |-> req[r].user, status |-> "Selected"]
  <2>1. \A u : (SelectedOf(u))' \subseteq SelectedOf(u) \cup {new}
    BY <1>1 DEF ConfirmAddBooking, SelectInsert, SelectedOf
  <2>2. \A u : u # req[r].user => (SelectedOf(u))' \subseteq SelectedOf(u)
    BY <1>1 DEF ConfirmAddBooking, SelectInsert, SelectedOf
  <2>3. SelectedOf(req[r].user) = {} /\ req[r].pc \in {"ConfirmAddBooking", "SelectInsert"}
    BY <1>1 DEF ConfirmAddBooking, SelectInsert, At, SelectState
  <2>4. req'[r].pc \notin {"ConfirmAddBooking", "SelectInsert"}
    BY <1>1, ConfirmMoves, ChainEntered, LocalsOf, InsertsAlone DEF Handle, Confirm, Book
  <2>5. \A q \in Requests : req'[q].pc \notin {"ConfirmAddBooking", "SelectInsert"}
    BY <1>1, <2>3, <2>4 DEF SelectState, OneSeller, In
  <2> HIDE DEF new
  <2>6. \A u \in Users : \A b, c \in (SelectedOf(u))' : b = c
    BY <2>1, <2>2, <2>3 DEF SelectState
  <2> QED BY <2>5, <2>6 DEF SelectState
<1>2. CASE /\ \A u : (SelectedOf(u))' \subseteq SelectedOf(u)
           /\ \A q \in Requests : req'[q].pc \in {"ConfirmAddBooking", "SelectInsert"} =>
                 SelectedOf(req'[q].user) = {}
  BY <1>2 DEF SelectState
<1>3. ASSUME NEW r \in Requests, NewRequest(r) \/ Handle(r), ~ConfirmAddBooking(r),
             ~SelectInsert(r), \A q \in Requests \ {r} : req'[q] = req[q]
      PROVE  SelectState'
  <2>1. \A u : (SelectedOf(u))' \subseteq SelectedOf(u)
    BY <1>3, Selecting
  <2>2. \A q \in Requests : req'[q].pc \in {"ConfirmAddBooking", "SelectInsert"} =>
           SelectedOf(req'[q].user) = {}
    BY <1>3, InsertsAlone DEF SelectState
  <2> QED BY <1>2, <2>1, <2>2
<1>4. CASE /\ UNCHANGED <<bookings, tickets>>
           /\ \A q \in Requests : req'[q] = req[q] \/ req'[q] = Idle
  BY <1>2, <1>4, LocalsOf DEF SelectState, SelectedOf
<1> QED BY <1>1, <1>3, <1>4, StepOf

\* A user has one selected booking at most while the two requests that create one do not
\* overlap.  The hypothesis is about the clients: none of them sends 'Выбран' to
\* PATCH /bookings/:id, where nothing would refuse it.
THEOREM SelectedOnce ==
  ASSUME "Selected" \notin Updates
  PROVE  DisciplineSpec => []OneSelected
<1>1. DisciplineInit => UpdatesSent /\ SelectKept
  BY DEF DisciplineInit, Init, Idle, UpdatesSent, UpdateSteps, SelectKept, SelectState, OneSeller,
         In, SellSteps, SelectedOf
<1>2. Base /\ UpdatesSent /\ SelectKept /\ [Next /\ broken' = broken \cup Breaks]_<<vars, broken>>
        => UpdatesSent' /\ SelectKept'
  <2> SUFFICES ASSUME Base, UpdatesSent, SelectKept,
                      [Next /\ broken' = broken \cup Breaks]_<<vars, broken>>
               PROVE  UpdatesSent' /\ SelectKept'
    OBVIOUS
  <2>1. CASE Step
    BY <2>1, StillKept, UpdatesStep, OneSelectedStep DEF Base, SelectKept, Step
  <2>2. CASE UNCHANGED <<vars, broken>>
    BY <2>2 DEF UpdatesSent, SelectKept, SelectState, Kept, OneSeller, In, SelectedOf, vars
  <2> QED BY <2>1, <2>2 DEF Step
<1>3. SelectKept => OneSelected
  BY DEF SelectKept, SelectState, OneSelected
<1> QED BY <1>1, <1>2, <1>3, BaseAlways, PTL DEF DisciplineSpec

-----------------------------------------------------------------------------
(* The seats a user has. *)

LEMMA SeatsCounted ==
  ASSUME NEW S, IsFiniteSet(S)
  PROVE  /\ IsFiniteSet(SeatsIn(S)) /\ Cardinality(SeatsIn(S)) \in Nat
         /\ Cardinality(SeatsIn(S)) <= Cardinality(S) /\ Cardinality(S) \in Nat
<1> DEFINE T == SeatsIn(S)
           f == [h \in S |-> h.seat]
<1>1. f \in Surjection(S, T)
  BY DEF Surjection, SeatsIn
<1> HIDE DEF f
<1> QED BY <1>1, FS_Surjection, FS_CardinalityType

LEMMA TwoSets ==
  ASSUME NEW S, NEW T, IsFiniteSet(S), IsFiniteSet(T)
  PROVE  /\ IsFiniteSet(S \cup T) /\ Cardinality(S \cup T) \in Nat
         /\ Cardinality(S \cup T) <= Cardinality(S) + Cardinality(T)
<1> DEFINE s == Cardinality(S)
           t == Cardinality(T)
           b == Cardinality(S \cap T)
           u == Cardinality(S \cup T)
<1>1. IsFiniteSet(S \cap T)
  BY FS_Subset
<1>2. IsFiniteSet(S \cup T) /\ u = s + t - b
  BY FS_Union
<1>3. s \in Nat /\ t \in Nat /\ b \in Nat /\ u \in Nat
  BY <1>1, <1>2, FS_CardinalityType
<1> HIDE DEF s, t, b, u
<1>4. u <= s + t
  BY <1>2, <1>3
<1> QED BY <1>2, <1>3, <1>4 DEF s, t, u

LEMMA SeatsFinite ==
  ASSUME TypeOK, RowsInv
  PROVE  /\ \A u : IsFiniteSet(SeatsOf(u)) /\ Cardinality(SeatsOf(u)) \in Nat
         /\ \A u : IsFiniteSet(HeldBy(u)) /\ Cardinality(HeldBy(u)) \in Nat
         /\ \A r \in Requests : \A u :
               /\ IsFiniteSet(SeatsOf(u) \cup SeatsIn(Valid(req[r])))
               /\ Cardinality(SeatsOf(u) \cup SeatsIn(Valid(req[r]))) \in Nat
<1>1. ASSUME NEW u PROVE IsFiniteSet(HeldBy(u)) /\ Cardinality(HeldBy(u)) \in Nat
  BY Counts DEF HeldBy, HoldsOf, Holds
<1>2. ASSUME NEW u PROVE IsFiniteSet(SeatsOf(u)) /\ Cardinality(SeatsOf(u)) \in Nat
  <2>1. IsFiniteSet(SeatsIn(ActiveTicketsOf(u))) /\ IsFiniteSet(SeatsIn(HeldBy(u)))
    BY <1>1, SaleCounts, SeatsCounted
  <2> QED BY <2>1, TwoSets DEF SeatsOf
<1>3. ASSUME NEW r \in Requests, NEW u
      PROVE  /\ IsFiniteSet(SeatsOf(u) \cup SeatsIn(Valid(req[r])))
             /\ Cardinality(SeatsOf(u) \cup SeatsIn(Valid(req[r]))) \in Nat
  BY <1>2, SaleCounts, SeatsCounted, TwoSets
<1> QED BY <1>1, <1>2, <1>3

\* The clock stands still in a step of a handler.
LEMMA NowStays ==
  ASSUME NEW r \in Requests, NewRequest(r) \/ Handle(r)
  PROVE  now' = now
<1> USE DEF Read, OnlyReservations, env
<1>1. CASE NewRequest(r)
  BY <1>1 DEF NewRequest, ReserveAccept, CancelAccept, CancelAllAccept, ConfirmAccept,
              ViewAccept, ListAccept, SelectAccept, UpdateAccept, RemoveAccept, Accept
<1>2. CASE Reserve(r) \/ Cancel(r) \/ View(r)
  BY <1>2
  DEF Reserve, ReservePurge, ReserveCountTickets, ReserveCountHolds, ReserveCheckTaken,
      ReserveCheckHeld, ReserveSave, Cancel, CancelFind, CancelRemove, CancelAllDelete, View,
      ViewPurge, ViewTickets, ViewHolds, ListPurge
<1>3. CASE Confirm(r)
  BY <1>3
  DEF Confirm, ConfirmFind, ConfirmCount, ConfirmCheckTaken, ConfirmDrop, ConfirmFindBooking,
      ConfirmAddBooking, ConfirmAddTicket, ConfirmMark, ConfirmPurge, ConfirmReply
<1>4. CASE Book(r)
  BY <1>4
  DEF Book, SelectFind, SelectInsert, UpdateFind, UpdateRelease, UpdateWrite, RemoveFind,
      RemoveRelease, RemoveDelete
<1> QED BY <1>1, <1>2, <1>3, <1>4 DEF Handle

\* A user's tickets and unexpired holds do not grow.
Shrinks(u) == (ActiveTicketsOf(u))' \subseteq ActiveTicketsOf(u) /\ (HeldBy(u))' \subseteq HeldBy(u)

LEMMA SeatsShrink ==
  ASSUME TypeOK, RowsInv, NEW u, Shrinks(u)
  PROVE  /\ (SeatsOf(u))' \subseteq SeatsOf(u)
         /\ Cardinality((SeatsOf(u))') \in Nat
         /\ Cardinality((SeatsOf(u))') <= Cardinality(SeatsOf(u))
<1>1. (SeatsOf(u))' \subseteq SeatsOf(u)
  BY DEF Shrinks, SeatsOf, SeatsIn
<1> QED BY <1>1, SeatsFinite, FS_Subset, FS_CardinalityType

LEMMA HeldShrinks ==
  ASSUME TypeOK, Holds' \subseteq Holds, now' \in Nat, now' >= now
  PROVE  \A u : (HeldBy(u))' \subseteq HeldBy(u)
BY DEF HeldBy, HoldsOf, Holds, TypeOK, Reservation

\* What a handler relies on stays true of the rows it has while its user's seats shrink.
LEMMA CountedStays ==
  ASSUME TypeOK, RowsInv, NEW q \in Requests, Counted(q), Shrinks(req[q].user), req'[q] = req[q]
  PROVE  Counted(q)'
<1>1. PICK u : u = req[q].user
  OBVIOUS
<1>2. Shrinks(u) /\ req'[q].user = u
  BY <1>1 DEF Shrinks
<1> DEFINE n == Cardinality(ActiveTicketsOf(u))
           m == Cardinality((ActiveTicketsOf(u))')
           s == Cardinality(SeatsOf(u))
           t == Cardinality((SeatsOf(u))')
           v == Cardinality(SeatsOf(u) \cup SeatsIn(Valid(req[q])))
           w == Cardinality((SeatsOf(u))' \cup SeatsIn(Valid(req'[q])))
<1>3. /\ n \in Nat /\ m \in Nat /\ m <= n /\ s \in Nat /\ t \in Nat /\ t <= s
      /\ Limit \in Nat /\ req[q].count \in Nat
  BY <1>2, SaleCounts, FewerTickets, SeatsFinite, SeatsShrink, ConstantsAssumption, LocalsOf
  DEF Shrinks
<1>4. v \in Nat /\ w \in Nat /\ w <= v
  <2>1. (SeatsOf(u))' \cup SeatsIn(Valid(req'[q])) \subseteq SeatsOf(u) \cup SeatsIn(Valid(req[q]))
    BY <1>2, SeatsShrink
  <2>2. IsFiniteSet(SeatsOf(u) \cup SeatsIn(Valid(req[q])))
    BY SeatsFinite
  <2> QED BY <2>1, <2>2, FS_Subset, FS_CardinalityType
<1>5. /\ req[q].pc = "ReserveCountHolds" => n <= req[q].count
      /\ req[q].pc \in {"ReserveCheckTaken", "ReserveCheckHeld", "ReserveSave"} => s < Limit
      /\ req[q].pc \in LoopSteps => v <= Limit
  BY <1>1 DEF Counted
<1>6. /\ req[q].pc = "ReserveCountHolds" => m <= req[q].count
      /\ req[q].pc \in {"ReserveCheckTaken", "ReserveCheckHeld", "ReserveSave"} => t < Limit
      /\ req[q].pc \in LoopSteps => w <= Limit
  <2> HIDE DEF n, m, s, t, v, w
  <2> QED BY <1>3, <1>4, <1>5
<1>7. req[q].pc = "ConfirmCount" => (HeldBy(u))' \subseteq Valid(req'[q])
  BY <1>1, <1>2 DEF Counted, Shrinks
<1> QED BY <1>2, <1>6, <1>7 DEF Counted

\* Confirm's loop is entered from the count, and its rows only become fewer.
LEMMA LoopFrom ==
  ASSUME TypeOK, NEW r \in Requests, NewRequest(r) \/ Handle(r), req'[r].pc \in LoopSteps
  PROVE  /\ req'[r].user = req[r].user /\ Valid(req'[r]) \subseteq Valid(req[r])
         /\ req[r].pc \in LoopSteps \/ ConfirmCount(r)
<1> USE DEF LoopSteps, BodySteps, Valid
<1>0. Confirm(r) /\ Idle.pc = "idle"
  BY OtherMoves, LocalsOf DEF Handle
<1>1. CASE ConfirmFind(r) \/ ConfirmCount(r)
  BY <1>0, <1>1, ConfirmMoves DEF Keeps
<1>2. CASE ConfirmCheckTaken(r)
  BY <1>2, ConfirmMoves DEF Keeps
<1>3. CASE ConfirmDrop(r) \/ ConfirmMark(r)
  BY <1>3, ConfirmMoves
<1>4. CASE ConfirmFindBooking(r) \/ ConfirmAddBooking(r)
  BY <1>4, ConfirmMoves DEF Keeps
<1>5. CASE ConfirmAddTicket(r)
  BY <1>0, <1>5, ConfirmMoves DEF Keeps
<1>6. CASE ConfirmPurge(r) \/ ConfirmReply(r)
  BY <1>0, <1>6, ConfirmMoves
<1> QED BY <1>0, <1>1, <1>2, <1>3, <1>4, <1>5, <1>6 DEF Confirm

\* What a handler has counted, it may rely on, as nobody adds to its user's seats.
LEMMA OwnCounted ==
  ASSUME TypeOK, HoldInv, RowsInv, NEW r \in Requests, NewRequest(r) \/ Handle(r), Counted(r),
         \A u : Shrinks(u)
  PROVE  Counted(r)'
<1>0. Idle.pc = "idle" /\ Limit \in Nat /\ req[r].count \in Nat
  BY LocalsOf, ConstantsAssumption
<1>1. PICK u : u = req[r].user
  OBVIOUS
<1> DEFINE a == Cardinality(ActiveTicketsOf(u))
           m == Cardinality((ActiveTicketsOf(u))')
           h == Cardinality(HeldBy(u))
           s == Cardinality(SeatsOf(u))
           t == Cardinality((SeatsOf(u))')
           rows == Valid(req[r])
           v == Cardinality(rows)
           w == Cardinality((SeatsOf(u))' \cup SeatsIn(Valid(req'[r])))
<1>2. /\ a \in Nat /\ m \in Nat /\ m <= a /\ h \in Nat /\ s \in Nat /\ t \in Nat /\ t <= s
      /\ v \in Nat
  BY SaleCounts, FewerTickets, SeatsFinite, SeatsShrink DEF Shrinks
<1>3. CASE req'[r].pc = "ReserveCountHolds"
  <2>1. req'[r].user = u /\ req'[r].count = a
    BY <1>1, <1>3, ChainEntered, ChainMoves, LocalsOf DEF Handle, Reserve, Book, ChainSteps, UpdateSteps
  <2> QED BY <1>2, <1>3, <2>1 DEF Counted, LoopSteps, BodySteps
<1>4. CASE req'[r].pc = "ReserveCheckTaken"
  <2>1. ReserveCountHolds(r)
    BY <1>4, ChainEntered, ChainMoves, LocalsOf DEF Handle, Reserve, Book, ChainSteps, UpdateSteps
  <2>2. req'[r].user = u /\ ~(req[r].count + h >= Limit) /\ a <= req[r].count
    BY <1>0, <1>1, <1>4, <2>1, ChainMoves DEF Counted
  <2>3. s <= a + h
    <3> DEFINE x == Cardinality(SeatsIn(ActiveTicketsOf(u)))
               y == Cardinality(SeatsIn(HeldBy(u)))
    <3>1. x \in Nat /\ x <= a /\ y \in Nat /\ y <= h
      BY SaleCounts, SeatsFinite, SeatsCounted
    <3>2. s <= x + y
      BY SaleCounts, SeatsFinite, SeatsCounted, TwoSets DEF SeatsOf
    <3> HIDE DEF a, h, s, x, y
    <3> QED BY <1>2, <3>1, <3>2
  <2>4. t < Limit
    <3> HIDE DEF a, h, s, t
    <3> QED BY <1>0, <1>2, <2>2, <2>3
  <2> QED BY <1>4, <2>2, <2>4 DEF Counted, LoopSteps, BodySteps
<1>5. CASE req'[r].pc \in {"ReserveCheckHeld", "ReserveSave"}
  <2>1. ReserveCheckTaken(r) \/ ReserveCheckHeld(r)
    BY <1>5, ChainEntered, ChainMoves, LocalsOf DEF Handle, Reserve, Book, ChainSteps, UpdateSteps
  <2>2. req'[r].user = u /\ s < Limit
    BY <1>0, <1>1, <1>5, <2>1, ChainMoves DEF Counted
  <2>3. t < Limit
    <3> HIDE DEF s, t
    <3> QED BY <1>0, <1>2, <2>2
  <2> QED BY <1>5, <2>2, <2>3 DEF Counted, LoopSteps, BodySteps
<1>6. CASE req'[r].pc = "ConfirmCount"
  <2>1. ConfirmFind(r)
    <3>1. Confirm(r)
      BY <1>6, OtherMoves DEF Handle
    <3> QED BY <1>0, <1>6, <3>1, ConfirmMoves DEF Confirm, HeadSteps
  <2>2. /\ req'[r].user = u /\ req'[r].at = req[r].at /\ req'[r].rows = HoldsOf(u)
    BY <1>0, <1>1, <1>6, <2>1, ConfirmMoves
  <2>3. HeldBy(u) \subseteq Valid(req'[r])
    BY <2>2, LocalsOf DEF HeldBy, Valid, HoldInv, ClockInv, TypeOK, HoldsOf, Holds, Reservation
  <2>4. (HeldBy(u))' \subseteq Valid(req'[r])
    BY <2>3 DEF Shrinks
  <2> QED BY <1>6, <2>2, <2>4 DEF Counted, LoopSteps, BodySteps
<1>7. CASE req'[r].pc \in LoopSteps
  <2>1. req'[r].user = u /\ Valid(req'[r]) \subseteq rows
    BY <1>1, <1>7, LoopFrom
  <2>2. (SeatsOf(u))' \cup SeatsIn(Valid(req'[r])) \subseteq SeatsOf(u) \cup SeatsIn(rows)
    BY <2>1, SeatsShrink DEF SeatsIn
  <2>3. Cardinality(SeatsOf(u) \cup SeatsIn(rows)) <= Limit
    <3>1. CASE req[r].pc \in LoopSteps
      BY <1>1, <3>1 DEF Counted
    <3>2. CASE ConfirmCount(r)
      <4>1. HeldBy(u) \subseteq rows /\ a + v <= Limit
        <5>1. req[r].pc = "ConfirmCount" /\ ~(a + v > Limit)
          BY <1>0, <1>1, <1>7, <3>2, ConfirmMoves DEF LoopSteps, BodySteps
        <5>2. HeldBy(u) \subseteq rows
          BY <1>1, <5>1 DEF Counted
        <5>3. a + v <= Limit
          <6> HIDE DEF a, v
          <6> QED BY <1>0, <1>2, <5>1
        <5> QED BY <5>2, <5>3
      <4> DEFINE A == SeatsIn(ActiveTicketsOf(u))
                 R == SeatsIn(rows)
      <4>2. SeatsOf(u) \cup R = A \cup R
        BY <4>1 DEF SeatsOf, SeatsIn
      <4>3. /\ IsFiniteSet(A) /\ Cardinality(A) \in Nat /\ Cardinality(A) <= a
            /\ IsFiniteSet(R) /\ Cardinality(R) \in Nat /\ Cardinality(R) <= v
        BY SaleCounts, SeatsCounted
      <4>4. Cardinality(A \cup R) \in Nat /\ Cardinality(A \cup R) <= Cardinality(A) + Cardinality(R)
        BY <4>3, TwoSets
      <4>5. Cardinality(A \cup R) <= Limit
        <5> HIDE DEF A, R, a, v
        <5> QED BY <1>0, <1>2, <4>1, <4>3, <4>4
      <4> QED BY <4>2, <4>5
    <3> QED BY <1>7, <3>1, <3>2, LoopFrom
  <2>4. w <= Limit
    <3>1. /\ IsFiniteSet(SeatsOf(u) \cup SeatsIn(rows))
          /\ Cardinality(SeatsOf(u) \cup SeatsIn(rows)) \in Nat
      BY SeatsFinite
    <3>2. w \in Nat /\ w <= Cardinality(SeatsOf(u) \cup SeatsIn(rows))
      BY <2>2, <3>1, FS_Subset, FS_CardinalityType
    <3> HIDE DEF w, rows
    <3> QED BY <1>0, <2>3, <3>1, <3>2
  <2> QED BY <1>7, <2>1, <2>4 DEF Counted, LoopSteps, BodySteps
<1> QED BY <1>3, <1>4, <1>5, <1>6, <1>7 DEF Counted

\* Only the requests of a user add to his seats, and there is one at a time.
LEMMA OthersShrink ==
  ASSUME TypeOK, RowsInv, CountState, OnePerUser', NEW r \in Requests, req[r].user \in Users,
         \A u \in Users : u # req[r].user => Shrinks(u),
         \A q \in Requests \ {r} : req'[q] = req[q],
         \A u \in Users : u = req[r].user => Cardinality((SeatsOf(u))') <= Limit,
         Counted(r)'
  PROVE  CountState'
<1>1. ASSUME NEW u \in Users PROVE Cardinality((SeatsOf(u))') <= Limit
  <2>1. CASE u # req[r].user
    <3> DEFINE s == Cardinality(SeatsOf(u))
               t == Cardinality((SeatsOf(u))')
    <3>1. s \in Nat /\ s <= Limit
      BY SeatsFinite DEF CountState
    <3>2. t \in Nat /\ t <= s
      BY <2>1, SeatsShrink
    <3>3. t <= Limit
      <4> HIDE DEF s, t
      <4> QED BY <3>1, <3>2, ConstantsAssumption
    <3> QED BY <3>3
  <2> QED BY <2>1
<1>2. ASSUME NEW q \in Requests, q # r PROVE Counted(q)'
  <2>1. CASE req[q].user \in Users
    <3>1. req[q].user # req[r].user
      BY <1>2, <2>1, ConstantsAssumption DEF CountState, OnePerUser
    <3>2. req'[q] = req[q] /\ Counted(q)
      BY <1>2 DEF CountState
    <3>3. PICK u \in Users : u = req[q].user
      BY <2>1
    <3>4. Shrinks(u)
      BY <3>1, <3>3
    <3>5. Shrinks(req[q].user)
      BY <3>2, <3>3, <3>4 DEF Shrinks, ActiveTicketsOf, HeldBy, HoldsOf, Holds
    <3> QED BY <3>2, <3>5, CountedStays
  <2>2. CASE req[q].user \notin Users
    <3>1. req[q].pc \in {"idle"} \cup ViewSteps \cup FindSteps
      BY <2>2, LocalsOf DEF Handler
    <3> QED BY <1>2, <3>1 DEF Counted, LoopSteps, BodySteps, ViewSteps, FindSteps
  <2> QED BY <2>1, <2>2
<1> QED BY <1>1, <1>2 DEF CountState

LEMMA NothingAdded ==
  ASSUME TypeOK, HoldInv, RowsInv, CountState, OnePerUser', Next, \A u : Shrinks(u)
  PROVE  CountState'
<1>1. ASSUME NEW u \in Users PROVE Cardinality((SeatsOf(u))') <= Limit
  <2> DEFINE s == Cardinality(SeatsOf(u))
             t == Cardinality((SeatsOf(u))')
  <2>1. s \in Nat /\ s <= Limit /\ t \in Nat /\ t <= s
    BY SeatsFinite, SeatsShrink DEF CountState
  <2>2. t <= Limit
    <3> HIDE DEF s, t
    <3> QED BY <2>1, ConstantsAssumption
  <2> QED BY <2>2
<1>2. ASSUME NEW q \in Requests, req'[q] = req[q] PROVE Counted(q)'
  <2>1. PICK u : u = req[q].user
    OBVIOUS
  <2>2. Shrinks(req[q].user)
    BY <1>2, <2>1 DEF Shrinks, ActiveTicketsOf, HeldBy, HoldsOf, Holds
  <2> QED BY <1>2, <2>2, CountedStays DEF CountState
<1>3. ASSUME NEW q \in Requests, req'[q] = Idle PROVE Counted(q)'
  BY <1>3, LocalsOf DEF Counted, LoopSteps, BodySteps
<1>4. ASSUME NEW q \in Requests, NewRequest(q) \/ Handle(q) PROVE Counted(q)'
  BY <1>4, OwnCounted DEF CountState
<1>5. \A q \in Requests : Counted(q)'
  BY <1>2, <1>3, <1>4, StepOf
<1> QED BY <1>1, <1>5 DEF CountState

LEMMA HoldAdded ==
  ASSUME TypeOK, RowsInv, CountState, OnePerUser', NEW r \in Requests, ReserveSave(r),
         \A q \in Requests \ {r} : req'[q] = req[q]
  PROVE  CountState'
<1> DEFINE new == [id |-> serial.reservation, user |-> req[r].user, seat |-> req[r].seat,
                   status |-> "reserved", expires |-> req[r].at + HoldTime]
<1>1. /\ req[r].pc = "ReserveSave" /\ req'[r].pc = "idle" /\ now' = now
      /\ UNCHANGED <<bookings, tickets>> /\ reservations' = reservations \cup {new}
      /\ new.user = req[r].user
  BY LocalsOf DEF ReserveSave, Answer, Go, At, env
<1>2. req[r].user \in Users
  BY <1>1, LocalsOf DEF Handler, ViewSteps, FindSteps, Statements, ReserveSteps
<1> HIDE DEF new
<1>3. \A u \in Users : /\ (ActiveTicketsOf(u))' = ActiveTicketsOf(u)
                       /\ u # req[r].user => (HeldBy(u))' \subseteq HeldBy(u)
                       /\ (HeldBy(u))' \subseteq HeldBy(u) \cup {new}
  BY <1>1 DEF ActiveTicketsOf, HeldBy, HoldsOf, Holds
<1>4. ASSUME NEW u \in Users, u = req[r].user PROVE Cardinality((SeatsOf(u))') <= Limit
  <2> DEFINE s == Cardinality(SeatsOf(u))
             t == Cardinality((SeatsOf(u))')
             x == Cardinality(SeatsOf(u) \cup {new.seat})
  <2>1. s < Limit /\ s \in Nat /\ IsFiniteSet(SeatsOf(u))
    BY <1>1, <1>4, SeatsFinite DEF CountState, Counted
  <2>2. IsFiniteSet(SeatsOf(u) \cup {new.seat}) /\ x \in Nat /\ x <= s + 1
    BY <2>1, OneMore
  <2>3. (SeatsOf(u))' \subseteq SeatsOf(u) \cup {new.seat}
    BY <1>3 DEF SeatsOf, SeatsIn
  <2>4. t \in Nat /\ t <= x
    BY <2>2, <2>3, FS_Subset, FS_CardinalityType
  <2>5. t <= Limit
    <3> HIDE DEF s, t, x
    <3> QED BY <2>1, <2>2, <2>4, ConstantsAssumption
  <2> QED BY <2>5
<1>5. Counted(r)'
  BY <1>1 DEF Counted, LoopSteps, BodySteps
<1> QED BY <1>2, <1>3, <1>4, <1>5, OthersShrink DEF Shrinks

LEMMA TicketAdded ==
  ASSUME Base, RowsInv, CountState, OnePerUser', NEW r \in Requests, ConfirmAddTicket(r),
         tickets' # tickets, \A q \in Requests \ {r} : req'[q] = req[q],
         \A u : (HeldBy(u))' \subseteq HeldBy(u)
  PROVE  CountState'
<1> USE DEF LoopSteps, BodySteps
<1>1. At(r, "ConfirmAddTicket") /\ req'[r].pc = "ConfirmMark" /\ Keeps(r)
  <2>1. Confirm(r)
    BY DEF Confirm
  <2> QED BY <2>1, ConfirmMoves DEF Base, At
<1>2. req[r].user \in Users
  BY <1>1, LocalsOf DEF Base, At, Handler, ViewSteps, FindSteps, Statements, SellSteps
<1>3. PICK h, t :
        /\ h \in Current(r) /\ t.seat = h.seat
        /\ ActiveTickets' \subseteq ActiveTickets \cup {t}
        /\ \A u \in Users : (ActiveTicketsOf(u))' \subseteq
              IF u = req[r].user THEN ActiveTicketsOf(u) \cup {t} ELSE ActiveTicketsOf(u)
  BY <1>1, ActiveGrows DEF Base
<1>4. PICK c \in Users : c = req[r].user
  BY <1>2
<1>5. h \in Valid(req[r]) /\ Valid(req'[r]) = Valid(req[r])
  BY <1>1, <1>3, CurrentValid DEF Base, At, Keeps, Valid
<1> DEFINE S == SeatsOf(c) \cup SeatsIn(Valid(req[r]))
<1>6. (SeatsOf(c))' \cup SeatsIn(Valid(req'[r])) \subseteq S /\ (SeatsOf(c))' \subseteq S
  BY <1>3, <1>4, <1>5 DEF SeatsOf, SeatsIn
<1>7. IsFiniteSet(S) /\ Cardinality(S) \in Nat /\ Cardinality(S) <= Limit
  BY <1>1, <1>4, SeatsFinite DEF Base, CountState, Counted, At
<1>8. /\ Cardinality((SeatsOf(c))' \cup SeatsIn(Valid(req'[r]))) <= Limit
      /\ Cardinality((SeatsOf(c))') <= Limit
  <2> DEFINE x == Cardinality((SeatsOf(c))' \cup SeatsIn(Valid(req'[r])))
             y == Cardinality((SeatsOf(c))')
             z == Cardinality(S)
  <2>1. x \in Nat /\ x <= z /\ y \in Nat /\ y <= z
    BY <1>6, <1>7, FS_Subset, FS_CardinalityType
  <2>2. z \in Nat /\ z <= Limit
    BY <1>7
  <2>3. x <= Limit /\ y <= Limit
    <3> HIDE DEF x, y, z
    <3> QED BY <2>1, <2>2, ConstantsAssumption
  <2> QED BY <2>3
<1>9. Counted(r)'
  BY <1>1, <1>4, <1>8 DEF Counted, Keeps
<1>10. \A u \in Users : u # req[r].user => Shrinks(u)
  BY <1>3 DEF Shrinks
<1>11. \A u \in Users : u = req[r].user => Cardinality((SeatsOf(u))') <= Limit
  BY <1>4, <1>8
<1> QED BY <1>2, <1>9, <1>10, <1>11, OthersShrink DEF Base

LEMMA SeatLimitStep ==
  ASSUME Base, TypeOK', RowsInv, CountState, OnePerUser', NoRevival, Next
  PROVE  CountState'
<1>1. now' \in Nat /\ now' >= now
  BY NowStays DEF Base, TypeOK, Next, Cleanup, Tick, Crash, env
<1>2. CASE Holds' \subseteq Holds
  <2>1. \A u : (HeldBy(u))' \subseteq HeldBy(u)
    BY <1>1, <1>2, HeldShrinks DEF Base
  <2>2. CASE tickets' = tickets
    BY <2>1, <2>2, StepMoves, ActiveShrinks, NothingAdded DEF Base, Shrinks
  <2>3. CASE tickets' # tickets
    <3>1. PICK r \in Requests : ConfirmAddTicket(r)
      BY <2>3, StepMoves DEF Base
    <3>2. \A q \in Requests \ {r} : req'[q] = req[q]
      BY <3>1, ConfirmMoves DEF Base, Confirm, Go, TypeOK
    <3> QED BY <2>1, <2>3, <3>1, <3>2, TicketAdded
  <2> QED BY <2>2, <2>3
<1>3. ASSUME NEW r \in Requests, ReserveSave(r) PROVE CountState'
  <2>1. \A q \in Requests \ {r} : req'[q] = req[q]
    BY <1>3 DEF ReserveSave, Answer, Go, Base, TypeOK
  <2> QED BY <1>3, <2>1, HoldAdded DEF Base
<1>4. CASE reservations' \subseteq reservations
  BY <1>2, <1>4 DEF Holds
<1> QED BY <1>2, <1>3, <1>4, StepOf, HandlerHolds DEF Base

\* A user's tickets and unexpired holds are on at most Limit seats together while he waits
\* for his answers: no other user's request, cron job or crash can make him exceed it.
THEOREM SeatsLimited == DisciplineSpec => []SeatLimit
<1>1. DisciplineInit => CountKept
  <2> SUFFICES ASSUME DisciplineInit PROVE CountState
    BY DEF CountKept
  <2>1. /\ \A r \in Requests : req[r].pc = "idle" /\ req[r].user = None
        /\ tickets = {} /\ reservations = {}
    BY DEF DisciplineInit, Init, Idle
  <2>2. \A u \in Users : Cardinality(SeatsOf(u)) <= Limit
    <3>1. \A u \in Users : SeatsOf(u) = {}
      BY <2>1 DEF ActiveTicketsOf, SeatsOf, SeatsIn, HeldBy, HoldsOf, Holds
    <3> QED BY <3>1, FS_EmptySet, ConstantsAssumption
  <2> QED BY <2>1, <2>2 DEF CountState, OnePerUser, Counted, LoopSteps, BodySteps
<1>2. Base /\ Base' /\ RowsInv /\ CountKept
         /\ [Next /\ broken' = broken \cup Breaks]_<<vars, broken>> => CountKept'
  <2>1. Base /\ Base' /\ RowsInv /\ CountKept /\ Step => CountKept'
    BY StillKept, SeatLimitStep DEF Base, CountKept, Step
  <2>2. CountKept /\ UNCHANGED <<vars, broken>> => CountKept'
    <3> SUFFICES ASSUME CountKept, UNCHANGED <<vars, broken>> PROVE CountKept'
      OBVIOUS
    <3>1. /\ \A u : /\ (HeldBy(u))' = HeldBy(u) /\ (ActiveTicketsOf(u))' = ActiveTicketsOf(u)
          /\ req' = req /\ broken' = broken
      BY DEF HeldBy, HoldsOf, Holds, ActiveTicketsOf, vars
    <3>2. \A u : (SeatsOf(u))' = SeatsOf(u)
      BY <3>1 DEF SeatsOf
    <3>3. \A r \in Requests : Counted(r) => Counted(r)'
      BY <3>1, <3>2 DEF Counted, Valid
    <3> QED BY <3>1, <3>2, <3>3 DEF CountKept, CountState, Kept, OnePerUser
  <2> QED BY <2>1, <2>2 DEF Step
<1>3. CountKept => SeatLimit
  BY DEF CountKept, CountState, SeatLimit, SeatsOf, SeatsIn, HeldBy
<1> QED BY <1>1, <1>2, <1>3, BaseAlways, RowsAlways, PTL DEF DisciplineSpec
=============================================================================
