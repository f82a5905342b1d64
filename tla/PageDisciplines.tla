-------------------------- MODULE PageDisciplines --------------------------
(***************************************************************************)
(* What the booking page shows is what the server has, while answers come  *)
(* in order and nothing fails.  A history variable records the disciplines *)
(* a behaviour has broken; a property names those it relies on.  Another   *)
(* counts the seconds the countdown missed.                                *)
(***************************************************************************)
EXTENDS BookingPage

VARIABLES
    broken,     \* the disciplines broken so far
    missed      \* firings the interval missed since the countdown was set

\* Two answers that replace the list are not on their way at the same time.
InOrder == Cardinality({r \in Slots : req[r].pc \in {"Listed", "Cancelled"}}) <= 1
\* No request and no answer is lost; losing an answer that changes nothing is no loss.
Delivered == \A r \in Slots : Lost(r) => Answer(r)
\* A seat whose ticket is toggled is not taken by somebody between the two requests.
Reheld == \A r \in Slots : ReserveRefused(r) => req[r].todo # <<"List">>
\* The countdown ends when all holds have expired, not only the first.
OneExpiry == Count /\ RunsOut => \A h \in holds : h.expires <= now
\* Nothing else is in flight when a booking is confirmed.
Alone == \A r, q \in Slots : At(r, "Confirm") /\ req[q] # Idle => q = r

Breaks ==
    {d \in {"order", "lost", "child", "timer", "alone"} :
        \/ d = "order" /\ ~InOrder'
        \/ d = "lost" /\ ~Delivered
        \/ d = "child" /\ ~Reheld
        \/ d = "timer" /\ ~OneExpiry
        \/ d = "alone" /\ ~Alone'}

Kept(disciplines) == broken \cap disciplines = {}
Faithful == Kept({"order", "lost", "child", "timer"})

Missed ==
    IF page'.list = {} \/ \E r \in Slots : Listed(r) THEN 0
    ELSE IF Tick /\ page.due THEN missed + 1 ELSE missed

DisciplineInit == Init /\ broken = {} /\ missed = 0
DisciplineNext == Next /\ broken' = broken \cup Breaks /\ missed' = Missed
history == <<broken, missed>>

DisciplineSpec ==
    /\ DisciplineInit
    /\ [][DisciplineNext]_<<vars, history>>
    /\ Fairness

Strictly(hs) == {h \in hs : h.expires > now}

-----------------------------------------------------------------------------

\* Once all requests are answered the page shows the seats the user holds and the
\* kind of their tickets, however his clicks overlapped, while answers arrive and
\* arrive in order, a toggled seat is not snatched, and its holds expire together.
ShownIsHeld == Faithful /\ ~page.left /\ (\A r \in Slots : req[r] = Idle) =>
    /\ Strictly(page.list) = Strictly(holds)
    /\ page.selected = Seats_(page.list) /\ page.kids = Children(page.list)

\* The countdown ('Время резервации') promises no more time than the server grants the
\* first of the seats that are shown, but for what the browser's clock was behind when
\* the list came, the seconds its interval missed since then in a hidden tab or asleep,
\* and the one that is just passing: whatever is clicked, lost, late or overlaps.
CountdownHonest == ~page.left => \A h \in page.list :
    page.timeLeft <= Max({0, h.expires - Clock}) + missed + (IF page.due THEN 1 ELSE 0)

\* What is sold by a confirmation is what the page showed when the button was
\* pressed, while nothing else is in flight then.
SoldAsShown == [][Faithful /\ Kept({"alone"}) =>
    \A r \in Slots : Confirm(r) => Strictly(holds) \subseteq req[r].list]_vars

\* The page comes out of 'Загрузка...': it is usable, or it says that it failed.
Usable == page.loading ~> ~page.loading
=============================================================================
