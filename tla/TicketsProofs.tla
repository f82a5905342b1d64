--------------------------- MODULE TicketsProofs ----------------------------
(***************************************************************************)
(* Theorems about Tickets and TicketDisciplines, for any number of seats,  *)
(* bookings and overlapping requests: the array of the free seats stays in *)
(* order whoever writes it, and orderly calls are the steps of SeatPool.   *)
(***************************************************************************)
EXTENDS TicketDisciplines, FiniteSetTheorems, SequenceTheorems, TLAPS

-----------------------------------------------------------------------------
(* Sequences of seats. *)

Asc(s) == \A i, j \in DOMAIN s : i < j => s[i] <= s[j]

LEMMA Parts ==
  ASSUME NEW n \in Nat, NEW S \in SUBSET (1 .. n)
  PROVE  IsFiniteSet(S) /\ Cardinality(S) \in Nat /\ Cardinality(S) <= n
<1>1. IsFiniteSet(1 .. n) /\ Cardinality(1 .. n) = n
  BY FS_Interval
<1> QED BY <1>1, FS_Subset, FS_CardinalityType

\* A sequence in order is left as it is.
LEMMA InOrderStays ==
  ASSUME NEW s \in Seq(Nat), Asc(s)
  PROVE  InOrder(s) = s
<1> DEFINE below(e) == {i \in DOMAIN s : s[i] < e}
           upto(e) == {i \in DOMAIN s : s[i] <= e}
           Fit(e, k) == Cardinality(below(e)) < k /\ k <= Cardinality(upto(e))
<1>1. Len(s) \in Nat /\ DOMAIN s = 1 .. Len(s) /\ \A i \in 1 .. Len(s) : s[i] \in Nat
  BY LenProperties
<1>2. \A e : /\ IsFiniteSet(below(e)) /\ Cardinality(below(e)) \in Nat
             /\ IsFiniteSet(upto(e)) /\ Cardinality(upto(e)) \in Nat
  BY <1>1, Parts
<1>3. ASSUME NEW k \in DOMAIN s PROVE Fit(s[k], k)
  <2>1. below(s[k]) \subseteq 1 .. (k - 1)
    BY <1>1, <1>3 DEF Asc
  <2>2. 1 .. k \subseteq upto(s[k])
    BY <1>1, <1>3 DEF Asc
  <2>3. k \in Nat /\ k # 0 /\ k - 1 \in Nat
    BY <1>1
  <2>4. IsFiniteSet(1 .. (k - 1)) /\ Cardinality(1 .. (k - 1)) = k - 1
    BY <2>3, FS_Interval
  <2>5. Cardinality(1 .. k) = k
    BY <2>3, FS_Interval
  <2>6. IsFiniteSet(upto(s[k])) /\ Cardinality(below(s[k])) \in Nat /\ Cardinality(upto(s[k])) \in Nat
    BY <1>2
  <2>7. Cardinality(below(s[k])) <= Cardinality(1 .. (k - 1))
    BY <2>1, <2>4, FS_Subset
  <2>8. Cardinality(1 .. k) <= Cardinality(upto(s[k]))
    BY <2>2, <2>6, FS_Subset
  <2> HIDE DEF below, upto
  <2> QED BY <2>3, <2>4, <2>5, <2>6, <2>7, <2>8
<1>4. ASSUME NEW k \in DOMAIN s, NEW d \in ToSet(s), NEW e \in ToSet(s), Fit(d, k), Fit(e, k), d < e
      PROVE  FALSE
  <2>1. upto(d) \subseteq below(e)
    BY <1>1, <1>4 DEF ToSet
  <2>2. Cardinality(upto(d)) <= Cardinality(below(e))
    BY <1>2, <2>1, FS_Subset
  <2> HIDE DEF below, upto
  <2> QED BY <1>1, <1>2, <1>4, <2>2
<1>5. \A k \in DOMAIN s : \A e \in ToSet(s) : Fit(e, k) => e = s[k]
  <2> HIDE DEF Fit
  <2>1. \A e \in ToSet(s) : e \in Nat
    BY <1>1 DEF ToSet
  <2>2. \A k \in DOMAIN s : s[k] \in ToSet(s)
    BY DEF ToSet
  <2> QED BY <1>3, <1>4, <2>1, <2>2
<1>6. \A k \in DOMAIN s : (CHOOSE e \in ToSet(s) : Fit(e, k)) = s[k]
  <2> HIDE DEF Fit
  <2> QED BY <1>3, <1>5 DEF ToSet
<1>7. InOrder(s) = [k \in DOMAIN s |-> CHOOSE e \in ToSet(s) : Fit(e, k)]
  BY DEF InOrder
<1>8. s = [k \in DOMAIN s |-> s[k]]
  BY LenProperties
<1> HIDE DEF Fit
<1> QED BY <1>6, <1>7, <1>8

\* A set of places that holds every place before each of its own is an initial segment.
LEMMA Segment ==
  ASSUME NEW n \in Nat, NEW S \in SUBSET (1 .. n),
         \A i \in S : \A j \in 1 .. i : j \in S
  PROVE  /\ S = 1 .. Cardinality(S)
         /\ Cardinality(S) \in Nat /\ Cardinality(S) <= n
<1> DEFINE T == (1 .. (n + 1)) \ S
<1>1. n + 1 \in T /\ T \subseteq Nat
  OBVIOUS
<1>2. PICK m \in T : \A i \in T : ~(i < m)
  <2> DEFINE R == OpToRel(<, Nat)
  <2>1. IsWellFoundedOn(R, Nat)
    BY NatLessThanWellFounded
  <2>2. \A i, m \in Nat : i < m => <<i, m>> \in R
    BY DEF OpToRel
  <2>3. T # {} /\ T \subseteq Nat
    BY <1>1
  <2> HIDE DEF R, T
  <2>4. \E m \in T : \A i \in T : ~(<<i, m>> \in R)
    BY <2>1, <2>3, WFMin
  <2> QED BY <2>2, <2>3, <2>4
<1>3. m \in Nat /\ m - 1 \in Nat /\ m - 1 <= n
  OBVIOUS
<1>4. S = 1 .. (m - 1)
  <2>1. ASSUME NEW i \in 1 .. (m - 1) PROVE i \in S
    BY <1>2, <1>3
  <2>2. ASSUME NEW i \in S PROVE i \in 1 .. (m - 1)
    BY <1>2, <1>3
  <2> QED BY <2>1, <2>2
<1>5. Cardinality(S) = m - 1
  BY <1>3, <1>4, FS_Interval
<1> QED BY <1>3, <1>4, <1>5

\* What the loop of cansel finds, and what its slices make of it.
LEMMA InsertPlace ==
  ASSUME NEW S \in SUBSET Nat, NEW s \in Seq(S), NEW e \in S
  PROVE  /\ InsertSorted(s, e) \in Seq(S)
         /\ Len(InsertSorted(s, e)) = Len(s) + 1
         /\ \E k \in 0 .. Len(s) :
               /\ \A i \in 1 .. Len(s) + 1 : InsertSorted(s, e)[i] =
                     IF i <= k THEN s[i] ELSE IF i = k + 1 THEN e ELSE s[i - 1]
               /\ \A i \in 1 .. k : s[i] < e
               /\ k < Len(s) => e <= s[k + 1]
<1> DEFINE before == {i \in DOMAIN s : \A j \in 1 .. i : s[j] < e}
           k == Cardinality(before)
           n == Len(s)
<1>1. n \in Nat /\ DOMAIN s = 1 .. n /\ \A i \in 1 .. n : s[i] \in S
  BY LenProperties
<1>2. before = 1 .. k /\ k \in Nat /\ k <= n
  <2>1. before \in SUBSET (1 .. n) /\ \A i \in before : \A j \in 1 .. i : j \in before
    BY <1>1
  <2> HIDE DEF before
  <2> QED BY <1>1, <2>1, Segment
<1>3. \A i \in 1 .. k : s[i] < e
  <2>1. \A i \in before : s[i] < e
    BY <1>1
  <2> QED BY <1>2, <2>1
<1>4. k < n => e <= s[k + 1]
  <2> SUFFICES ASSUME k < n PROVE e <= s[k + 1]
    OBVIOUS
  <2>1. k + 1 \in 1 .. n /\ k + 1 \notin 1 .. k
    BY <1>1, <1>2
  <2>2. k + 1 \notin before
    BY <1>2, <2>1
  <2>3. PICK j \in 1 .. (k + 1) : ~(s[j] < e)
    BY <1>1, <2>1, <2>2
  <2> HIDE DEF k
  <2>4. j = k + 1
    BY <1>2, <1>3, <2>3
  <2>5. s[k + 1] \in Nat /\ e \in Nat
    BY <1>1, <2>1
  <2> QED BY <2>3, <2>4, <2>5
<1>5. InsertSorted(s, e) = SubSeq(s, 1, (k + 1) - 1) \o <<e>> \o SubSeq(s, k + 1, n)
  BY DEF InsertSorted, InsertAt
<1> HIDE DEF before, k, n
<1> DEFINE a == SubSeq(s, 1, k)
           c == SubSeq(s, k + 1, n)
<1>6. /\ a \in Seq(S) /\ Len(a) = k /\ \A i \in 1 .. k : a[i] = s[i]
  <2>1. \A i \in 1 .. k : s[i] \in S
    BY <1>1, <1>2
  <2>2. /\ a \in Seq(S) /\ Len(a) = (IF 1 <= k THEN k - 1 + 1 ELSE 0)
        /\ \A i \in 1 .. k - 1 + 1 : a[i] = s[1 + i - 1]
    BY <1>2, <2>1, SubSeqProperties
  <2> HIDE DEF a
  <2> QED BY <1>2, <2>2
<1>7. /\ c \in Seq(S) /\ Len(c) = n - k /\ \A i \in 1 .. (n - k) : c[i] = s[k + i]
  <2>1. \A i \in (k + 1) .. n : s[i] \in S
    BY <1>1, <1>2
  <2>2. /\ c \in Seq(S) /\ Len(c) = (IF k + 1 <= n THEN n - (k + 1) + 1 ELSE 0)
        /\ \A i \in 1 .. n - (k + 1) + 1 : c[i] = s[(k + 1) + i - 1]
    BY <1>1, <1>2, <2>1, SubSeqProperties
  <2> HIDE DEF c
  <2> QED BY <1>1, <1>2, <2>2
<1> HIDE DEF a, c
<1> DEFINE b == a \o <<e>>
           d == b \o c
<1>8. /\ b \in Seq(S) /\ Len(b) = k + 1
      /\ \A i \in 1 .. k + 1 : b[i] = IF i <= k THEN s[i] ELSE e
  BY <1>2, <1>6, ConcatProperties
<1> HIDE DEF b
<1>9. /\ d \in Seq(S) /\ Len(d) = n + 1
      /\ \A i \in 1 .. n + 1 : d[i] = IF i <= k + 1 THEN b[i] ELSE c[i - (k + 1)]
  BY <1>1, <1>2, <1>7, <1>8, ConcatProperties
<1>10. \A i \in 1 .. n + 1 : d[i] = IF i <= k THEN s[i] ELSE IF i = k + 1 THEN e ELSE s[i - 1]
  <2> HIDE DEF d
  <2> QED BY <1>1, <1>2, <1>7, <1>8, <1>9
<1>11. InsertSorted(s, e) = d
  <2>1. (k + 1) - 1 = k
    BY <1>2
  <2> QED BY <1>5, <2>1, Zenon DEF a, b, c
<1> HIDE DEF d
<1>12. k \in 0 .. n
  BY <1>1, <1>2
<1> QED BY <1>3, <1>4, <1>9, <1>10, <1>11, <1>12 DEF n

\* So a seat is put back in its place.
LEMMA InsertInOrder ==
  ASSUME NEW S \in SUBSET Nat, NEW s \in Seq(S), NEW e \in S, Asc(s)
  PROVE  Asc(InsertSorted(s, e))
<1> DEFINE t == InsertSorted(s, e)
<1>1. /\ Len(s) \in Nat /\ \A i \in 1 .. Len(s) : s[i] \in Nat
      /\ \A i, j \in 1 .. Len(s) : i < j => s[i] <= s[j]
  BY LenProperties DEF Asc
<1>2. t \in Seq(S) /\ Len(t) = Len(s) + 1 /\ DOMAIN t = 1 .. Len(s) + 1 /\ e \in Nat
  BY InsertPlace, LenProperties
<1>3. PICK k \in 0 .. Len(s) :
        /\ \A i \in 1 .. Len(s) + 1 : t[i] =
              IF i <= k THEN s[i] ELSE IF i = k + 1 THEN e ELSE s[i - 1]
        /\ \A i \in 1 .. k : s[i] < e
        /\ k < Len(s) => e <= s[k + 1]
  BY InsertPlace
<1> HIDE DEF t
<1>4. ASSUME NEW i \in 1 .. Len(s) + 1, NEW j \in 1 .. Len(s) + 1, i < j PROVE t[i] <= t[j]
  <2>1. CASE j <= k
    BY <1>1, <1>3, <1>4, <2>1
  <2>2. CASE j = k + 1
    BY <1>1, <1>2, <1>3, <1>4, <2>2
  <2>3. CASE j > k + 1
    <3>1. t[j] = s[j - 1] /\ j - 1 \in 1 .. Len(s) /\ k + 1 \in 1 .. Len(s) /\ k < Len(s)
      BY <1>1, <1>3, <2>3
    <3>2. CASE i <= k
      <4>1. t[i] = s[i] /\ i \in 1 .. Len(s) /\ i < j - 1
        BY <1>1, <1>3, <1>4, <2>3, <3>2
      <4> QED BY <1>1, <3>1, <4>1
    <3>3. CASE i = k + 1
      <4>1. t[i] = e /\ e <= s[k + 1]
        BY <1>1, <1>3, <3>1, <3>3
      <4>2. s[k + 1] <= s[j - 1] /\ s[j - 1] \in Nat /\ s[k + 1] \in Nat
        BY <1>1, <1>4, <3>1, <3>3
      <4> QED BY <1>2, <3>1, <4>1, <4>2
    <3>4. CASE i > k + 1
      <4>1. t[i] = s[i - 1] /\ i - 1 \in 1 .. Len(s) /\ i - 1 < j - 1
        BY <1>1, <1>3, <1>4, <3>4
      <4> QED BY <1>1, <3>1, <4>1
    <3> QED BY <1>1, <3>2, <3>3, <3>4
  <2> QED BY <1>1, <2>1, <2>2, <2>3
<1> QED BY <1>2, <1>4 DEF Asc, t

-----------------------------------------------------------------------------
(* Where a handler can be, and with what. *)

Array == Seq(Seats)

Handler ==
    [pc: {"idle"}] \cup [pc: {"CreateRead"}, booking: Bookings]
    \cup [pc: {"CreateWrite"}, booking: Bookings, seat: Seats, rest: Array]
    \cup [pc: {"CreateSave"}, booking: Bookings, seat: Seats]
    \cup [pc: {"CanselRead", "CanselDelete"}, ticket: Ticket]
    \cup [pc: {"CanselWrite"}, ticket: Ticket, rest: Array]
    \cup [pc: {"ResizeWrite"}, seats: Seats]

TypeOK ==
    /\ capacity \in Array
    /\ tickets \in SUBSET Ticket /\ issued \in SUBSET Ticket /\ serial \in Nat
    /\ req \in [Requests -> Handler]

\* The array is in order, and so is every array that is about to be written.
OrderInv ==
    /\ Asc(capacity)
    /\ \A r \in Requests : req[r].pc \in {"CreateWrite", "CanselWrite"} => Asc(req[r].rest)

LEMMA AtFields ==
  ASSUME TypeOK, NEW r \in Requests
  PROVE  /\ req[r] \in Handler /\ Idle \in Handler
         /\ req[r].pc = "idle" <=> req[r] = Idle
         /\ At(r, "CreateRead") => req[r].booking \in Bookings
         /\ At(r, "CreateWrite") => /\ req[r].booking \in Bookings /\ req[r].seat \in Seats
                                    /\ req[r].rest \in Array
         /\ At(r, "CreateSave") => req[r].booking \in Bookings /\ req[r].seat \in Seats
         /\ At(r, "CanselRead") => req[r].ticket \in Ticket
         /\ At(r, "CanselWrite") => req[r].ticket \in Ticket /\ req[r].rest \in Array
         /\ At(r, "CanselDelete") => req[r].ticket \in Ticket
         /\ At(r, "ResizeWrite") => req[r].seats \in Seats
<1>1. req[r] \in Handler /\ Idle \in Handler
  BY DEF TypeOK, Handler, Idle
<1> QED BY <1>1 DEF Handler, Idle, At

LEMMA Moved ==
  ASSUME TypeOK, NEW r \in Requests, NEW h, Go(r, h)
  PROVE  req'[r] = h /\ \A q \in Requests \ {r} : req'[q] = req[q]
BY DEF TypeOK, Go

LEMMA MovedType ==
  ASSUME TypeOK, NEW r \in Requests, NEW h \in Handler, Go(r, h)
  PROVE  req' \in [Requests -> Handler]
BY DEF TypeOK, Go

\* What is read from an array in order.
LEMMA SortedRead ==
  ASSUME NEW s \in Array, Asc(s), s # <<>>
  PROVE  /\ Head(InOrder(s)) = s[1] /\ s[1] \in Seats /\ 1 \in DOMAIN s
         /\ Tail(InOrder(s)) = Tail(s) /\ Tail(s) \in Array /\ Asc(Tail(s))
         /\ Len(Tail(s)) = Len(s) - 1 /\ Len(s) \in Nat /\ Len(s) # 0
         /\ DOMAIN s = 1 .. Len(s) /\ DOMAIN Tail(s) = 1 .. (Len(s) - 1)
         /\ \A i \in 1 .. (Len(s) - 1) : Tail(s)[i] = s[i + 1]
<1>1. Seats \subseteq Nat
  BY TicketsAssumption DEF Seats
<1>2. s \in Seq(Nat) /\ s \in Seq(Seats)
  BY <1>1, SeqMonotonic DEF Array
<1>3. InOrder(s) = s
  BY <1>2, InOrderStays
<1>4. /\ Len(s) \in Nat /\ Len(s) # 0 /\ DOMAIN s = 1 .. Len(s)
      /\ \A i \in 1 .. Len(s) : s[i] \in Seats
  BY <1>2, LenProperties, EmptySeq
<1>5. /\ Tail(s) \in Seq(Seats) /\ Len(Tail(s)) = Len(s) - 1
      /\ \A i \in 1 .. (Len(s) - 1) : Tail(s)[i] = s[i + 1]
  BY <1>2, HeadTailProperties
<1>6. DOMAIN Tail(s) = 1 .. (Len(s) - 1)
  BY <1>5, LenProperties
<1>7. Asc(Tail(s))
  BY <1>1, <1>4, <1>5, <1>6 DEF Asc
<1>8. Head(s) = s[1]
  BY <1>2
<1> QED BY <1>3, <1>4, <1>5, <1>6, <1>7, <1>8 DEF Array

LEMMA SeatsAreNumbers == Seats \subseteq Nat
  BY TicketsAssumption DEF Seats

LEMMA NumberedSeats ==
  ASSUME NEW n \in Seats
  PROVE  Numbered(n) \in Array /\ Asc(Numbered(n))
<1>1. n \in Nat /\ \A i \in 1 .. n : i \in Seats
  BY TicketsAssumption DEF Seats
<1>2. Numbered(n) \in [1 .. n -> Seats]
  BY <1>1 DEF Numbered
<1>3. Numbered(n) \in Seq(Seats)
  BY <1>1, <1>2
<1> QED BY <1>1, <1>3 DEF Numbered, Asc, Array

LEMMA ArrayStep ==
  ASSUME TypeOK, OrderInv, NEW r \in Requests, NewRequest(r) \/ Handle(r)
  PROVE  TypeOK' /\ OrderInv'
<1>0. req[r] \in Handler /\ Idle \in Handler /\ Idle.pc = "idle"
  BY AtFields DEF Idle
<1> USE DEF Accept, Read, Write, Answer
<1>1. ASSUME NEW h \in Handler, Go(r, h), h.pc \notin {"CreateWrite", "CanselWrite"},
             UNCHANGED capacity, tickets' \in SUBSET Ticket, issued' \in SUBSET Ticket, serial' \in Nat
      PROVE  TypeOK' /\ OrderInv'
  BY <1>1, Moved, MovedType DEF TypeOK, OrderInv
<1>2. ASSUME NEW h \in Handler, Go(r, h), h.pc \in {"CreateWrite", "CanselWrite"}, Asc(h.rest),
             UNCHANGED <<capacity, tickets, issued, serial>>
      PROVE  TypeOK' /\ OrderInv'
  BY <1>2, Moved, MovedType DEF TypeOK, OrderInv
<1>3. ASSUME NEW h \in Handler, Go(r, h), h.pc \notin {"CreateWrite", "CanselWrite"},
             capacity' \in Array, Asc(capacity'), UNCHANGED <<tickets, issued, serial>>
      PROVE  TypeOK' /\ OrderInv'
  BY <1>3, Moved, MovedType DEF TypeOK, OrderInv
<1>4. CASE CreateAccept(r)
  <2>1. PICK b \in Bookings : Accept(r, "create", [pc |-> "CreateRead", booking |-> b])
    BY <1>4 DEF CreateAccept
  <2> QED BY <1>1, <2>1 DEF Handler, TypeOK
<1>5. CASE CanselAccept(r)
  <2>1. PICK t \in issued : Accept(r, "cansel", [pc |-> "CanselRead", ticket |-> t])
    BY <1>5 DEF CanselAccept
  <2>2. t \in Ticket
    BY DEF TypeOK
  <2> QED BY <1>1, <2>1, <2>2 DEF Handler, TypeOK
<1>6. CASE ResizeAccept(r)
  <2>1. PICK n \in Seats : Accept(r, "resize", [pc |-> "ResizeWrite", seats |-> n])
    BY <1>6 DEF ResizeAccept
  <2> QED BY <1>1, <2>1 DEF Handler, TypeOK
<1>7. CASE CreateRead(r)
  <2>1. CASE capacity = <<>>
    BY <1>0, <1>1, <1>7, <2>1 DEF CreateRead, TypeOK
  <2>2. CASE capacity # <<>>
    <3> DEFINE h == [pc |-> "CreateWrite", booking |-> req[r].booking,
                     seat |-> Head(InOrder(capacity)), rest |-> Tail(InOrder(capacity))]
    <3>1. req[r].booking \in Bookings
      BY <1>7, AtFields DEF CreateRead
    <3>2. /\ Head(InOrder(capacity)) \in Seats /\ Tail(InOrder(capacity)) \in Array
          /\ Asc(Tail(InOrder(capacity)))
      BY <2>2, SortedRead DEF TypeOK, OrderInv
    <3>3. h \in Handler
      BY <3>1, <3>2 DEF Handler
    <3> QED BY <1>2, <1>7, <2>2, <3>2, <3>3 DEF CreateRead
  <2> QED BY <2>1, <2>2
<1>8. CASE CreateWrite(r)
  <2>1. /\ req[r].booking \in Bookings /\ req[r].seat \in Seats
        /\ req[r].rest \in Array /\ Asc(req[r].rest)
    BY <1>8, AtFields DEF CreateWrite, OrderInv, At
  <2> QED BY <1>3, <1>8, <2>1 DEF CreateWrite, Handler
<1>9. CASE CreateSave(r)
  <2>1. [id |-> serial, booking |-> req[r].booking, seat |-> req[r].seat] \in Ticket
    BY <1>9, AtFields DEF CreateSave, Ticket, TypeOK
  <2> QED BY <1>0, <1>1, <1>9, <2>1 DEF CreateSave, Insert, TypeOK
<1>10. CASE CanselRead(r)
  <2> DEFINE a == InsertSorted(capacity, req[r].ticket.seat)
             h == [pc |-> "CanselWrite", ticket |-> req[r].ticket, rest |-> a]
  <2>1. req[r].ticket \in Ticket /\ req[r].ticket.seat \in Seats
    BY <1>10, AtFields DEF CanselRead, Ticket
  <2>2. a \in Array /\ Asc(a)
    BY <2>1, SeatsAreNumbers, InsertPlace, InsertInOrder DEF TypeOK, OrderInv, Array
  <2>3. h \in Handler
    BY <2>1, <2>2 DEF Handler
  <2> QED BY <1>2, <1>10, <2>2, <2>3 DEF CanselRead
<1>11. CASE CanselWrite(r)
  <2>1. req[r].ticket \in Ticket /\ req[r].rest \in Array /\ Asc(req[r].rest)
    BY <1>11, AtFields DEF CanselWrite, OrderInv, At
  <2> QED BY <1>3, <1>11, <2>1 DEF CanselWrite, Handler
<1>12. CASE CanselDelete(r)
  BY <1>0, <1>1, <1>12 DEF CanselDelete, TypeOK
<1>13. CASE ResizeWrite(r)
  BY <1>0, <1>3, <1>13, AtFields, NumberedSeats DEF ResizeWrite
<1> QED BY <1>4, <1>5, <1>6, <1>7, <1>8, <1>9, <1>10, <1>11, <1>12, <1>13 DEF NewRequest, Handle

LEMMA OrderStep ==
  ASSUME TypeOK, OrderInv, [Next]_vars
  PROVE  TypeOK' /\ OrderInv'
<1>1. CASE Confirm
  <2>1. PICK b \in Bookings, s \in Seats : Insert([id |-> serial, booking |-> b, seat |-> s])
    BY <1>1 DEF Confirm
  <2>2. [id |-> serial, booking |-> b, seat |-> s] \in Ticket
    BY DEF Ticket, TypeOK
  <2> QED BY <1>1, <2>1, <2>2 DEF Confirm, Insert, TypeOK, OrderInv
<1>2. CASE Crash
  BY <1>2, AtFields DEF Crash, TypeOK, OrderInv, Idle, Handler
<1>3. CASE UNCHANGED vars
  BY <1>3 DEF vars, TypeOK, OrderInv
<1> QED BY <1>1, <1>2, <1>3, ArrayStep DEF Next, Work

LEMMA OrderStart == Init => TypeOK /\ OrderInv
<1> SUFFICES ASSUME Init PROVE TypeOK /\ OrderInv
  OBVIOUS
<1>1. Total \in Seats
  BY TicketsAssumption DEF Seats
<1> QED BY <1>1, NumberedSeats DEF Init, TypeOK, OrderInv, Handler, Idle

\* The array of a bus is in ascending order at any time, for any number of seats and of
\* creates, cancellations and resizings that overwrite each other's arrays.
THEOREM CapacitySorted == Spec => []Sorted
<1>1. TypeOK /\ OrderInv => Sorted
  BY DEF OrderInv, Asc, Sorted
<1> QED BY <1>1, OrderStart, OrderStep, PTL DEF Spec

-----------------------------------------------------------------------------
(* Orderly calls. *)

\* While the calls are orderly, a seat is in one place: in the array, on one ticket, or
\* on its way with the only request, which still finds what it has read.
PoolState ==
    /\ Alone
    /\ \A i, j \in DOMAIN capacity : capacity[i] = capacity[j] => i = j
    /\ \A s, t \in tickets : s.seat = t.seat \/ s.id = t.id => s = t
    /\ \A t \in tickets : t.id < serial
    /\ \A t \in tickets, i \in DOMAIN capacity : capacity[i] = t.seat =>
          \E r \in Requests : At(r, "CanselDelete") /\ req[r].ticket = t
    /\ \A r \in Requests :
          /\ At(r, "CreateWrite") => /\ capacity # <<>> /\ req[r].seat = capacity[1]
                                     /\ req[r].rest = Tail(capacity)
          /\ At(r, "CreateSave") => /\ \A i \in DOMAIN capacity : req[r].seat < capacity[i]
                                    /\ \A t \in tickets : t.seat # req[r].seat
          /\ At(r, "CanselWrite") => /\ req[r].ticket \in tickets
                                     /\ req[r].rest = InsertSorted(capacity, req[r].ticket.seat)
          /\ At(r, "CanselDelete") => /\ req[r].ticket \in tickets
                                      /\ \E i \in DOMAIN capacity : capacity[i] = req[r].ticket.seat

PoolInv == orderly \in BOOLEAN /\ (orderly => PoolState)

SoldSeats == {[seat |-> t.seat, booking |-> t.booking] : t \in tickets}

\* A step of the pool, or none.
PoolStep ==
    \/ \E b \in Bookings : Pool!Take(b)
    \/ \E t \in SoldSeats : Pool!Return(t)
    \/ UNCHANGED <<Free, SoldSeats>>

\* The request in flight is the only one.
LEMMA OthersIdle ==
  ASSUME TypeOK, PoolState, Alone', NEW r \in Requests, NewRequest(r) \/ Handle(r),
         NEW h, Go(r, h)
  PROVE  /\ req'[r] = h
         /\ \A q \in Requests \ {r} : req[q] = Idle /\ req'[q] = Idle
<1>1. req'[r] = h /\ \A q \in Requests \ {r} : req'[q] = req[q]
  BY Moved
<1>2. CASE req[r] # Idle
  BY <1>1, <1>2 DEF PoolState, Alone
<1>3. CASE NewRequest(r)
  <2>1. \E g : Go(r, g) /\ g # Idle
    <3>1. CASE CreateAccept(r)
      BY <3>1 DEF CreateAccept, Accept, Idle
    <3>2. CASE CanselAccept(r)
      BY <3>2 DEF CanselAccept, Accept, Idle
    <3>3. CASE ResizeAccept(r)
      BY <3>3 DEF ResizeAccept, Accept, Idle
    <3> QED BY <1>3, <3>1, <3>2, <3>3 DEF NewRequest
  <2>2. req'[r] # Idle
    BY <2>1, Moved
  <2> QED BY <1>1, <2>2 DEF Alone
<1>4. CASE Handle(r)
  BY <1>2, <1>4 DEF Handle, CreateRead, CreateWrite, CreateSave, CanselRead, CanselWrite,
       CanselDelete, ResizeWrite, Read, Write, At, Idle
<1> QED BY <1>1, <1>2, <1>3, <1>4

\* A step that only reads leaves the pool alone.
LEMMA PoolRead ==
  ASSUME TypeOK, PoolState, Alone', NEW r \in Requests, NewRequest(r) \/ Handle(r),
         NEW h \in Handler, Go(r, h), UNCHANGED <<capacity, tickets, serial>>,
         ~At(r, "CreateSave"), ~At(r, "CanselDelete"),
         h.pc \in {"idle", "CreateRead", "CreateWrite", "CanselRead", "CanselWrite", "ResizeWrite"},
         h.pc = "CreateWrite" => /\ capacity # <<>> /\ h.seat = capacity[1]
                                 /\ h.rest = Tail(capacity),
         h.pc = "CanselWrite" => /\ h.ticket \in tickets
                                 /\ h.rest = InsertSorted(capacity, h.ticket.seat)
  PROVE  PoolState' /\ PoolStep
<1>1. /\ req'[r] = h
      /\ \A q \in Requests \ {r} : req[q].pc = "idle" /\ req'[q].pc = "idle"
  BY OthersIdle DEF Idle
<1>2. \A q \in Requests : ~At(q, "CreateSave") /\ ~At(q, "CanselDelete")
  BY <1>1 DEF At
<1>3. \A q \in Requests : ~At(q, "CreateSave")' /\ ~At(q, "CanselDelete")'
  BY <1>1 DEF At
<1>4. UNCHANGED <<Free, SoldSeats>>
  <2>1. Free = {capacity[i] : i \in DOMAIN capacity}
    BY <1>2 DEF Free
  <2>2. Free' = {capacity'[i] : i \in DOMAIN capacity'}
    BY <1>3 DEF Free
  <2> QED BY <2>1, <2>2 DEF SoldSeats
<1>5. PoolState'
  <2>1. \A t \in tickets, i \in DOMAIN capacity : capacity[i] # t.seat
    BY <1>2 DEF PoolState
  <2> QED BY <1>1, <1>3, <2>1 DEF PoolState, At
<1> QED BY <1>4, <1>5 DEF PoolStep

\* The array loses its first seat; the seat is on its way to a ticket.
LEMMA PoolCreateWrite ==
  ASSUME TypeOK, OrderInv, PoolState, Alone', NEW r \in Requests, CreateWrite(r)
  PROVE  PoolState' /\ PoolStep
<1> DEFINE h == [pc |-> "CreateSave", booking |-> req[r].booking, seat |-> req[r].seat]
<1>1. /\ req'[r] = h
      /\ \A q \in Requests \ {r} : req[q].pc = "idle" /\ req'[q].pc = "idle"
  <2>1. Go(r, h) /\ Handle(r)
    BY DEF CreateWrite, Write, Handle
  <2> HIDE DEF h
  <2> QED BY <2>1, OthersIdle DEF Idle
<1>2. /\ At(r, "CreateWrite") /\ capacity # <<>> /\ req[r].seat = capacity[1]
      /\ capacity' = Tail(capacity) /\ tickets' = tickets /\ serial' = serial
  BY DEF CreateWrite, Write, PoolState
<1> DEFINE n == Len(capacity)
<1>3. /\ n \in Nat /\ n # 0 /\ DOMAIN capacity = 1 .. n /\ DOMAIN capacity' = 1 .. (n - 1)
      /\ \A i \in 1 .. (n - 1) : capacity'[i] = capacity[i + 1]
      /\ \A i \in 1 .. n : capacity[i] \in Nat
  <2>1. \A i \in DOMAIN capacity : capacity[i] \in Seats
    BY DEF TypeOK, Array
  <2> QED BY <1>2, <2>1, SortedRead, SeatsAreNumbers DEF TypeOK, OrderInv
<1> HIDE DEF n
<1>4. req'[r].pc = "CreateSave" /\ req'[r].seat = capacity[1]
  BY <1>1, <1>2
<1>5. /\ \A q \in Requests : At(q, "CreateSave")' <=> q = r
      /\ \A q \in Requests : ~At(q, "CanselDelete")'
      /\ \A q \in Requests : ~At(q, "CreateSave") /\ ~At(q, "CanselDelete")
  BY <1>1, <1>2, <1>4 DEF At
<1>6. Free = {capacity[i] : i \in 1 .. n}
  BY <1>3, <1>5 DEF Free
<1>7. Free' = {capacity'[i] : i \in 1 .. (n - 1)} \cup {capacity[1]}
  BY <1>3, <1>4, <1>5 DEF Free
<1>8. {capacity[i] : i \in 1 .. n} = {capacity'[i] : i \in 1 .. (n - 1)} \cup {capacity[1]}
  <2>1. ASSUME NEW i \in 1 .. n
        PROVE  capacity[i] \in {capacity'[j] : j \in 1 .. (n - 1)} \cup {capacity[1]}
    <3>1. CASE i # 1
      <4>1. i - 1 \in 1 .. (n - 1) /\ (i - 1) + 1 = i
        BY <1>3, <3>1
      <4> QED BY <1>3, <4>1
    <3> QED BY <3>1
  <2>2. ASSUME NEW j \in 1 .. (n - 1)
        PROVE  capacity'[j] \in {capacity[i] : i \in 1 .. n}
    <3>1. j + 1 \in 1 .. n
      BY <1>3
    <3> QED BY <1>3, <3>1
  <2>3. capacity[1] \in {capacity[i] : i \in 1 .. n}
    BY <1>3
  <2> QED BY <2>1, <2>2, <2>3
<1>9. UNCHANGED <<Free, SoldSeats>>
  BY <1>2, <1>6, <1>7, <1>8 DEF SoldSeats
<1>10. \A i \in 1 .. n, t \in tickets : capacity[i] # t.seat
  BY <1>3, <1>5 DEF PoolState
<1>. DEFINE c == capacity
<1>0. /\ \A i, j \in 1 .. n : i < j => c[i] <= c[j]
      /\ \A i, j \in 1 .. n : c[i] = c[j] => i = j
  BY <1>3 DEF OrderInv, Asc, PoolState
<1>11. ASSUME NEW i \in 1 .. (n - 1) PROVE capacity[1] < capacity'[i]
  <2>1. i + 1 \in 1 .. n /\ 1 \in 1 .. n /\ 1 < i + 1
    BY <1>3
  <2>2. c[1] <= c[i + 1] /\ c[1] # c[i + 1]
    BY <1>0, <2>1
  <2>3. c[1] \in Nat /\ c[i + 1] \in Nat /\ capacity'[i] = c[i + 1]
    BY <1>3, <2>1
  <2> QED BY <2>2, <2>3
<1>12. ASSUME NEW i \in 1 .. (n - 1), NEW j \in 1 .. (n - 1), capacity'[i] = capacity'[j]
       PROVE  i = j
  <2>1. i + 1 \in 1 .. n /\ j + 1 \in 1 .. n
    BY <1>3
  <2>2. c[i + 1] = c[j + 1]
    BY <1>3, <1>12
  <2>3. i + 1 = j + 1
    BY <1>0, <2>1, <2>2
  <2> QED BY <2>3
<1>13. PoolState'
  <2>1. \A t \in tickets, i \in 1 .. (n - 1) : capacity'[i] # t.seat
    BY <1>3, <1>10
  <2>2. 1 \in 1 .. n
    BY <1>3
  <2>3. \A t \in tickets : t.seat # capacity[1]
    BY <1>10, <2>2
  <2>4. \A t \in tickets, i \in DOMAIN capacity' : capacity'[i] # t.seat
    BY <1>3, <2>1
  <2>5. \A i, j \in DOMAIN capacity' : capacity'[i] = capacity'[j] => i = j
    BY <1>3, <1>12
  <2>6. /\ ~At(r, "CreateWrite")' /\ ~At(r, "CanselWrite")' /\ ~At(r, "CanselDelete")'
        /\ \A i \in DOMAIN capacity' : req'[r].seat < capacity'[i]
        /\ \A t \in tickets : t.seat # req'[r].seat
    BY <1>3, <1>4, <1>11, <2>3 DEF At
  <2>7. \A q \in Requests \ {r} : req'[q].pc = "idle"
    BY <1>1
  <2>8. /\ \A u, t \in tickets : u.seat = t.seat \/ u.id = t.id => u = t
        /\ \A t \in tickets : t.id < serial
    BY DEF PoolState
  <2> QED BY <1>2, <2>4, <2>5, <2>6, <2>7, <2>8 DEF PoolState, At
<1> QED BY <1>9, <1>13 DEF PoolStep

\* The ticket is stored: the first free seat is taken.
LEMMA PoolCreateSave ==
  ASSUME TypeOK, OrderInv, PoolState, Alone', NEW r \in Requests, CreateSave(r)
  PROVE  PoolState' /\ PoolStep
<1>0. PICK d \in Bookings : d = req[r].booking
  BY AtFields DEF CreateSave
<1> DEFINE s == req[r].seat
           new == [id |-> serial, booking |-> d, seat |-> s]
           array == {capacity[i] : i \in DOMAIN capacity}
<1>1. /\ req'[r] = Idle
      /\ \A q \in Requests \ {r} : req[q].pc = "idle" /\ req'[q].pc = "idle"
  <2>1. Go(r, Idle) /\ Handle(r)
    BY DEF CreateSave, Answer, Handle
  <2> QED BY <2>1, OthersIdle DEF Idle
<1>2. /\ capacity' = capacity /\ tickets' = tickets \cup {new} /\ serial' = serial + 1
      /\ At(r, "CreateSave") /\ s \in Seats
  BY <1>0, AtFields DEF CreateSave, Insert
<1>3. /\ \A i \in DOMAIN capacity : s < capacity[i] /\ capacity[i] \in Nat
      /\ \A t \in tickets : t.seat # s
      /\ s \in Nat
  <2>1. \A i \in DOMAIN capacity : capacity[i] \in Seats
    BY DEF TypeOK, Array
  <2> QED BY <1>2, <2>1, SeatsAreNumbers DEF PoolState
<1>4. /\ \A q \in Requests : At(q, "CreateSave") <=> q = r
      /\ \A q \in Requests : ~At(q, "CanselDelete") /\ ~At(q, "CreateWrite") /\ ~At(q, "CanselWrite")
      /\ \A q \in Requests : req'[q].pc = "idle"
  BY <1>1, <1>2 DEF At, Idle
<1>5. Free = array \cup {s}
  BY <1>4 DEF Free
<1>6. Free' = array
  <2>1. Free' = {capacity'[i] : i \in DOMAIN capacity'}
    BY <1>4 DEF Free, At
  <2> QED BY <1>2, <2>1
<1> DEFINE line == [seat |-> s, booking |-> d]
<1>7. SoldSeats' = SoldSeats \cup {line}
  <2>1. SoldSeats' = {[seat |-> t.seat, booking |-> t.booking] : t \in tickets \cup {new}}
    BY <1>2 DEF SoldSeats
  <2>2. [seat |-> new.seat, booking |-> new.booking] = line
    OBVIOUS
  <2> HIDE DEF line, new
  <2> QED BY <2>1, <2>2 DEF SoldSeats
<1>8. Pool!Take(d)
  <2> HIDE DEF s
  <2>1. s \in Free /\ \A t \in Free : s <= t
    BY <1>3, <1>5
  <2>2. Free' = Free \ {s}
    BY <1>3, <1>5, <1>6
  <2> QED BY <1>7, <2>1, <2>2 DEF Pool!Take, SoldSeats
<1>9. \A t \in tickets : t.id < serial /\ t.id \in Nat /\ serial \in Nat
  BY DEF PoolState, TypeOK, Ticket
<1>10. \A i \in DOMAIN capacity, t \in tickets : capacity[i] # t.seat
  BY <1>4 DEF PoolState
<1>11. PoolState'
  <2> HIDE DEF s
  <2>1. \A t, u \in tickets \cup {new} : t.seat = u.seat \/ t.id = u.id => t = u
    BY <1>3, <1>9 DEF PoolState
  <2>2. \A t \in tickets \cup {new} : t.id < serial + 1
    BY <1>9, AtFields DEF TypeOK
  <2>3. \A i \in DOMAIN capacity, t \in tickets \cup {new} : capacity[i] # t.seat
    BY <1>3, <1>10
  <2> HIDE DEF new
  <2>4. \A q \in Requests : /\ ~At(q, "CreateWrite")' /\ ~At(q, "CreateSave")'
                            /\ ~At(q, "CanselWrite")' /\ ~At(q, "CanselDelete")'
    BY <1>4 DEF At
  <2> QED BY <1>2, <2>1, <2>2, <2>3, <2>4 DEF PoolState
<1> QED BY <1>8, <1>11, Zenon DEF PoolStep

\* The seat is back in the array while its ticket is still there.
LEMMA PoolCanselWrite ==
  ASSUME TypeOK, OrderInv, PoolState, Alone', NEW r \in Requests, CanselWrite(r)
  PROVE  PoolState' /\ PoolStep
<1> DEFINE t == req[r].ticket
           e == t.seat
           h == [pc |-> "CanselDelete", ticket |-> t]
           n == Len(capacity)
<1>1. /\ req'[r] = h
      /\ \A q \in Requests \ {r} : req[q].pc = "idle" /\ req'[q].pc = "idle"
  <2>1. Go(r, h) /\ Handle(r)
    BY DEF CanselWrite, Write, Handle
  <2> HIDE DEF h
  <2> QED BY <2>1, OthersIdle DEF Idle
<1>2. /\ At(r, "CanselWrite") /\ t \in tickets /\ capacity' = InsertSorted(capacity, e)
      /\ tickets' = tickets /\ serial' = serial /\ e \in Seats
  BY DEF CanselWrite, Write, PoolState, TypeOK, Ticket
<1>3. /\ req'[r].pc = "CanselDelete" /\ req'[r].ticket = t
      /\ \A q \in Requests : At(q, "CanselDelete")' <=> q = r
      /\ \A q \in Requests : /\ ~At(q, "CreateSave")' /\ ~At(q, "CreateWrite")'
                             /\ ~At(q, "CanselWrite")'
      /\ \A q \in Requests : ~At(q, "CreateSave") /\ ~At(q, "CanselDelete")
  BY <1>1, <1>2 DEF At
<1>4. /\ n \in Nat /\ DOMAIN capacity = 1 .. n /\ DOMAIN capacity' = 1 .. (n + 1)
      /\ \A i \in 1 .. n : capacity[i] \in Nat
      /\ \E k \in 0 .. n : \A i \in 1 .. n + 1 : capacity'[i] =
            IF i <= k THEN capacity[i] ELSE IF i = k + 1 THEN e ELSE capacity[i - 1]
  <2>1. capacity \in Seq(Seats)
    BY DEF TypeOK, Array
  <2>2. \A i \in 1 .. n : capacity[i] \in Seats
    BY <2>1, LenProperties
  <2>3. InsertSorted(capacity, e) \in Seq(Seats) /\ Len(InsertSorted(capacity, e)) = n + 1
    BY <1>2, <2>1, SeatsAreNumbers, InsertPlace
  <2>4. \E k \in 0 .. n : \A i \in 1 .. n + 1 : InsertSorted(capacity, e)[i] =
            IF i <= k THEN capacity[i] ELSE IF i = k + 1 THEN e ELSE capacity[i - 1]
    <3>1. Seats \in SUBSET Nat /\ e \in Seats
      BY <1>2, SeatsAreNumbers
    <3> HIDE DEF e
    <3>2. PICK k \in 0 .. n : \A i \in 1 .. n + 1 : InsertSorted(capacity, e)[i] =
            IF i <= k THEN capacity[i] ELSE IF i = k + 1 THEN e ELSE capacity[i - 1]
      BY <2>1, <3>1, InsertPlace
    <3> QED BY <3>2
  <2>5. DOMAIN InsertSorted(capacity, e) = 1 .. (n + 1) /\ n \in Nat /\ DOMAIN capacity = 1 .. n
    BY <2>1, <2>3, LenProperties
  <2> QED BY <1>2, <2>2, <2>4, <2>5, SeatsAreNumbers
<1> HIDE DEF t, h, n, e
<1>5. PICK k \in 0 .. n : \A i \in 1 .. n + 1 : capacity'[i] =
            IF i <= k THEN capacity[i] ELSE IF i = k + 1 THEN e ELSE capacity[i - 1]
  BY <1>4
<1>6. \A i \in 1 .. n, u \in tickets : capacity[i] # u.seat
  BY <1>3, <1>4 DEF PoolState
<1>7. \A i \in 1 .. n : capacity[i] # e
  BY <1>2, <1>6 DEF e
<1>8. \A i, j \in 1 .. n : capacity[i] = capacity[j] => i = j
  BY <1>4 DEF PoolState
<1>9. ASSUME NEW i \in 1 .. n + 1, NEW j \in 1 .. n + 1, capacity'[i] = capacity'[j]
      PROVE  i = j
  <2> DEFINE F(m) == IF m <= k THEN m ELSE m - 1
  <2>1. \A m \in 1 .. n + 1 : m # k + 1 => F(m) \in 1 .. n /\ capacity'[m] = capacity[F(m)]
    BY <1>4, <1>5
  <2>2. capacity'[k + 1] = e /\ k + 1 \in 1 .. n + 1
    BY <1>4, <1>5
  <2>3. CASE i = k + 1 \/ j = k + 1
    <3> HIDE DEF F
    <3> QED BY <1>7, <1>9, <2>1, <2>2, <2>3
  <2>4. CASE i # k + 1 /\ j # k + 1
    <3>1. F(i) = F(j)
      <4> HIDE DEF F
      <4> QED BY <1>8, <1>9, <2>1, <2>4
    <3> QED BY <2>4, <3>1
  <2> QED BY <2>3, <2>4
<1>10. \A i \in 1 .. n + 1 : capacity'[i] = e \/ \E j \in 1 .. n : capacity'[i] = capacity[j]
  BY <1>4, <1>5
<1>11. {capacity'[i] : i \in 1 .. n + 1} = {capacity[i] : i \in 1 .. n} \cup {e}
  <2>1. ASSUME NEW i \in 1 .. n PROVE capacity[i] \in {capacity'[j] : j \in 1 .. n + 1}
    <3>1. CASE i <= k
      <4>1. i \in 1 .. n + 1 /\ capacity'[i] = capacity[i]
        BY <1>4, <1>5, <3>1
      <4> QED BY <4>1
    <3>2. CASE ~(i <= k)
      <4>1. i + 1 \in 1 .. n + 1 /\ capacity'[i + 1] = capacity[i]
        BY <1>4, <1>5, <3>2
      <4> QED BY <4>1
    <3> QED BY <3>1, <3>2
  <2>2. k + 1 \in 1 .. n + 1 /\ capacity'[k + 1] = e
    BY <1>4, <1>5
  <2> QED BY <1>10, <2>1, <2>2
<1>12. UNCHANGED <<Free, SoldSeats>>
  <2>1. Free = {capacity[i] : i \in 1 .. n}
    BY <1>3, <1>4 DEF Free
  <2>2. Free' = {capacity'[i] : i \in 1 .. n + 1} \ {req'[r].ticket.seat}
    BY <1>3, <1>4 DEF Free
  <2>3. req'[r].ticket.seat = e
    BY <1>3 DEF e
  <2>4. e \notin {capacity[i] : i \in 1 .. n}
    BY <1>7
  <2>5. Free' = Free
    BY <1>11, <2>1, <2>2, <2>3, <2>4
  <2> QED BY <1>2, <2>5 DEF SoldSeats
<1>13. PoolState'
  <2>1. ASSUME NEW u \in tickets, NEW i \in 1 .. n + 1, capacity'[i] = u.seat
        PROVE  At(r, "CanselDelete")' /\ req'[r].ticket = u
    <3>1. u.seat = t.seat
      BY <1>6, <1>10, <2>1 DEF e
    <3> QED BY <1>2, <1>3, <3>1 DEF PoolState
  <2>2. \A u \in tickets', i \in DOMAIN capacity' : capacity'[i] = u.seat =>
          \E q \in Requests : At(q, "CanselDelete")' /\ req'[q].ticket = u
    BY <1>2, <1>4, <2>1
  <2>3. \A i, j \in DOMAIN capacity' : capacity'[i] = capacity'[j] => i = j
    BY <1>4, <1>9
  <2>4. k + 1 \in DOMAIN capacity' /\ capacity'[k + 1] = req'[r].ticket.seat
    BY <1>3, <1>4, <1>5 DEF e
  <2>5. \A q \in Requests : At(q, "CanselDelete")' =>
          /\ req'[q].ticket \in tickets'
          /\ \E i \in DOMAIN capacity' : capacity'[i] = req'[q].ticket.seat
    BY <1>2, <1>3, <2>4
  <2> QED BY <1>2, <1>3, <2>2, <2>3, <2>5 DEF PoolState
<1> QED BY <1>12, <1>13 DEF PoolStep

\* The ticket is gone: its seat is returned.
LEMMA PoolCanselDelete ==
  ASSUME TypeOK, OrderInv, PoolState, Alone', NEW r \in Requests, CanselDelete(r)
  PROVE  PoolState' /\ PoolStep
<1> DEFINE t == req[r].ticket
           array == {capacity[i] : i \in DOMAIN capacity}
<1>1. /\ req'[r] = Idle
      /\ \A q \in Requests \ {r} : req[q].pc = "idle" /\ req'[q].pc = "idle"
  <2>1. Go(r, Idle) /\ Handle(r)
    BY DEF CanselDelete, Answer, Handle
  <2> QED BY <2>1, OthersIdle DEF Idle
<1>2. /\ At(r, "CanselDelete") /\ t \in tickets /\ capacity' = capacity /\ serial' = serial
      /\ tickets' = {u \in tickets : u.id # t.id}
  BY DEF CanselDelete, PoolState
<1>3. /\ \A q \in Requests : At(q, "CanselDelete") <=> q = r
      /\ \A q \in Requests : ~At(q, "CreateSave")
      /\ \A q \in Requests : req'[q].pc = "idle"
  BY <1>1, <1>2 DEF At, Idle
<1>4. tickets' = tickets \ {t}
  BY <1>2 DEF PoolState
<1>5. \A u \in tickets, i \in DOMAIN capacity : capacity[i] = u.seat => u = t
  BY <1>3 DEF PoolState
<1> DEFINE line == [seat |-> t.seat, booking |-> t.booking]
<1> HIDE DEF t
<1>6. SoldSeats' = SoldSeats \ {line} /\ line \in SoldSeats
  <2>1. SoldSeats' = {[seat |-> u.seat, booking |-> u.booking] : u \in tickets \ {t}}
    BY <1>4 DEF SoldSeats
  <2>2. \A u \in tickets : [seat |-> u.seat, booking |-> u.booking] = line => u = t
    BY <1>2 DEF PoolState
  <2> HIDE DEF line
  <2>3. SoldSeats' \subseteq SoldSeats \ {line}
    BY <1>2, <2>1, <2>2 DEF SoldSeats
  <2>4. SoldSeats \ {line} \subseteq SoldSeats'
    BY <2>1 DEF SoldSeats, line
  <2> QED BY <1>2, <2>3, <2>4 DEF SoldSeats, line
<1>7. Free = array \ {t.seat}
  BY <1>3 DEF Free, t
<1>8. Free' = array
  <2>1. Free' = {capacity'[i] : i \in DOMAIN capacity'}
    BY <1>3 DEF Free, At
  <2> QED BY <1>2, <2>1
<1>9. Free' = Free \cup {t.seat}
  <2>1. t.seat \in array
    BY <1>2 DEF PoolState, t
  <2> QED BY <1>7, <1>8, <2>1
<1>10. PICK l \in SoldSeats : l = line
  BY <1>6
<1>11. Pool!Return(l)
  BY <1>6, <1>9, <1>10 DEF Pool!Return, SoldSeats
<1>12. PoolState'
  <2>1. \A u \in tickets', i \in DOMAIN capacity' : capacity'[i] # u.seat
    BY <1>2, <1>4, <1>5
  <2>2. \A q \in Requests : /\ ~At(q, "CreateWrite")' /\ ~At(q, "CreateSave")'
                            /\ ~At(q, "CanselWrite")' /\ ~At(q, "CanselDelete")'
    BY <1>3 DEF At
  <2> QED BY <1>2, <1>4, <2>1, <2>2 DEF PoolState
<1> QED BY <1>11, <1>12, Zenon DEF PoolStep

\* A step of an orderly request.
LEMMA PoolOrderly ==
  ASSUME TypeOK, OrderInv, PoolState, Alone', Fresh, NEW r \in Requests,
         NewRequest(r) \/ Handle(r), ~At(r, "ResizeWrite")
  PROVE  PoolState' /\ PoolStep
<1>1. CASE CreateAccept(r)
  <2>1. PICK b \in Bookings : Accept(r, "create", [pc |-> "CreateRead", booking |-> b])
    BY <1>1 DEF CreateAccept
  <2> DEFINE h == [pc |-> "CreateRead", booking |-> b]
  <2>2. h \in Handler /\ h.pc = "CreateRead"
    BY DEF Handler
  <2>3. Go(r, h) /\ UNCHANGED <<capacity, tickets, serial>> /\ req[r].pc = "idle"
    BY <2>1 DEF Accept, Idle
  <2> HIDE DEF h
  <2> QED BY <2>2, <2>3, PoolRead DEF At
<1>2. CASE CanselAccept(r)
  <2>1. PICK t \in issued : Accept(r, "cansel", [pc |-> "CanselRead", ticket |-> t])
    BY <1>2 DEF CanselAccept
  <2> DEFINE h == [pc |-> "CanselRead", ticket |-> t]
  <2>2. h \in Handler /\ h.pc = "CanselRead"
    BY DEF Handler, TypeOK
  <2>3. Go(r, h) /\ UNCHANGED <<capacity, tickets, serial>> /\ req[r].pc = "idle"
    BY <2>1 DEF Accept, Idle
  <2> HIDE DEF h
  <2> QED BY <2>2, <2>3, PoolRead DEF At
<1>3. CASE ResizeAccept(r)
  <2>1. PICK n \in Seats : Accept(r, "resize", [pc |-> "ResizeWrite", seats |-> n])
    BY <1>3 DEF ResizeAccept
  <2> DEFINE h == [pc |-> "ResizeWrite", seats |-> n]
  <2>2. h \in Handler /\ h.pc = "ResizeWrite"
    BY DEF Handler
  <2>3. Go(r, h) /\ UNCHANGED <<capacity, tickets, serial>> /\ req[r].pc = "idle"
    BY <2>1 DEF Accept, Idle
  <2> HIDE DEF h
  <2> QED BY <2>2, <2>3, PoolRead DEF At
<1>4. CASE CreateRead(r)
  <2>1. At(r, "CreateRead") /\ req[r].booking \in Bookings /\ UNCHANGED <<capacity, tickets, serial>>
    BY <1>4, AtFields DEF CreateRead, Read
  <2>2. CASE capacity = <<>>
    <3>1. Go(r, Idle) /\ Idle \in Handler /\ Idle.pc = "idle"
      BY <1>4, <2>2, AtFields DEF CreateRead, Read, Idle
    <3> QED BY <2>1, <3>1, PoolRead DEF At
  <2>3. CASE capacity # <<>>
    <3> DEFINE h == [pc |-> "CreateWrite", booking |-> req[r].booking,
                     seat |-> Head(InOrder(capacity)), rest |-> Tail(InOrder(capacity))]
    <3>1. Go(r, h)
      BY <1>4, <2>3 DEF CreateRead, Read
    <3>2. /\ Head(InOrder(capacity)) = capacity[1] /\ capacity[1] \in Seats
          /\ Tail(InOrder(capacity)) = Tail(capacity) /\ Tail(capacity) \in Array
      BY <2>3, SortedRead DEF TypeOK, OrderInv
    <3>3. h \in Handler /\ h.pc = "CreateWrite" /\ h.seat = capacity[1] /\ h.rest = Tail(capacity)
      BY <2>1, <3>2 DEF Handler
    <3> HIDE DEF h
    <3> QED BY <2>1, <2>3, <3>1, <3>3, PoolRead DEF At
  <2> QED BY <2>2, <2>3
<1>5. CASE CreateWrite(r)
  BY <1>5, PoolCreateWrite
<1>6. CASE CreateSave(r)
  BY <1>6, PoolCreateSave
<1>7. CASE CanselRead(r)
  <2> DEFINE t == req[r].ticket
             h == [pc |-> "CanselWrite", ticket |-> t, rest |-> InsertSorted(capacity, t.seat)]
  <2>1. /\ At(r, "CanselRead") /\ t \in tickets /\ UNCHANGED <<capacity, tickets, serial>>
        /\ Go(r, h)
    BY <1>7 DEF CanselRead, Read, Fresh
  <2>2. t \in Ticket /\ t.seat \in Seats
    BY <2>1 DEF TypeOK, Ticket
  <2>3. InsertSorted(capacity, t.seat) \in Array
    BY <2>2, InsertPlace, SeatsAreNumbers DEF TypeOK, Array
  <2>4. /\ h \in Handler /\ h.pc = "CanselWrite" /\ h.ticket \in tickets
        /\ h.rest = InsertSorted(capacity, h.ticket.seat)
    BY <2>1, <2>2, <2>3 DEF Handler
  <2> HIDE DEF h
  <2> QED BY <2>1, <2>4, PoolRead DEF At
<1>8. CASE CanselWrite(r)
  BY <1>8, PoolCanselWrite
<1>9. CASE CanselDelete(r)
  BY <1>9, PoolCanselDelete
<1>10. CASE ResizeWrite(r)
  BY <1>10 DEF ResizeWrite, Write
<1> QED BY <1>1, <1>2, <1>3, <1>4, <1>5, <1>6, <1>7, <1>8, <1>9, <1>10 DEF NewRequest, Handle

\* Any step: a step of the pool while the calls are orderly, and no promise afterwards.
LEMMA PoolNext ==
  ASSUME TypeOK, OrderInv, PoolInv, [DisciplineNext]_<<vars, orderly>>
  PROVE  PoolInv' /\ [Pool!Next]_<<Free, SoldSeats, orderly>>
<1>1. CASE UNCHANGED <<vars, orderly>>
  <2>1. capacity' = capacity /\ tickets' = tickets /\ serial' = serial /\ req' = req /\ orderly' = orderly
    BY <1>1 DEF vars
  <2>2. PoolInv'
    BY <2>1 DEF PoolInv, PoolState, Alone, At
  <2>3. Free' = Free /\ SoldSeats' = SoldSeats
    BY <2>1 DEF Free, SoldSeats, At
  <2> QED BY <2>1, <2>2, <2>3
<1>2. CASE DisciplineNext
  <2>1. CASE orderly'
    <3>1. orderly /\ Alone' /\ Fresh /\ ~Confirm /\ \A r \in Requests : ~At(r, "ResizeWrite")
      BY <1>2, <2>1 DEF DisciplineNext
    <3>2. PICK r \in Requests : NewRequest(r) \/ Handle(r)
      BY <1>2, <2>1, <3>1 DEF DisciplineNext, Work
    <3>3. PoolState' /\ PoolStep
      BY <3>1, <3>2, PoolOrderly DEF PoolInv
    <3>4. orderly' = TRUE /\ orderly = TRUE
      BY <1>2, <2>1, <3>1 DEF PoolInv, DisciplineNext
    <3>5. PoolInv'
      BY <3>3, <3>4 DEF PoolInv
    <3>6. ASSUME NEW b \in Bookings, Pool!Take(b) PROVE Pool!Next
      BY <2>1, <3>1, <3>6 DEF Pool!Next
    <3>7. ASSUME NEW t \in SoldSeats, Pool!Return(t) PROVE Pool!Next
      BY <2>1, <3>1, <3>7 DEF Pool!Next, SoldSeats
    <3> QED BY <3>3, <3>4, <3>5, <3>6, <3>7 DEF PoolStep
  <2>2. CASE ~orderly'
    BY <1>2, <2>2 DEF DisciplineNext, PoolInv, Pool!Next
  <2> QED BY <2>1, <2>2
<1> QED BY <1>1, <1>2

LEMMA PoolStart == DisciplineInit => PoolInv /\ Pool!Init
<1> SUFFICES ASSUME DisciplineInit PROVE PoolInv /\ Pool!Init
  OBVIOUS
<1>1. /\ capacity = [i \in 1 .. Total |-> i] /\ tickets = {} /\ orderly = TRUE
      /\ \A r \in Requests : req[r] = Idle /\ Idle.pc = "idle"
  BY DEF DisciplineInit, Init, Numbered, Idle
<1>2. PoolInv
  BY <1>1 DEF PoolInv, PoolState, Alone, At
<1>3. Free = Seats
  BY <1>1 DEF Free, At, Seats
<1>4. {[seat |-> t.seat, booking |-> t.booking] : t \in tickets} = {}
  BY <1>1
<1> QED BY <1>1, <1>2, <1>3, <1>4 DEF Pool!Init

\* While the calls are orderly, create and cansel are the atomic steps of SeatPool: the
\* first free seat is taken and the seat of a cancelled ticket is given back, although
\* each service writes the array and the ticket in statements of their own.
THEOREM OrderlyPool == DisciplineSpec => ImplementsPool
<1>1. TypeOK /\ OrderInv /\ [DisciplineNext]_<<vars, orderly>> => TypeOK' /\ OrderInv'
  BY OrderStep DEF DisciplineNext, Next, vars
<1>2. DisciplineInit => TypeOK /\ OrderInv
  BY OrderStart DEF DisciplineInit
<1> QED BY <1>1, <1>2, PoolStart, PoolNext, PTL DEF DisciplineSpec, ImplementsPool, Pool!Spec, SoldSeats
=============================================================================
