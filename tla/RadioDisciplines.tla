------------------------- MODULE RadioDisciplines -------------------------
(***************************************************************************)
(* What the radio promises while nothing happens at a bad moment.  A       *)
(* history variable records the disciplines a behaviour has broken; a      *)
(* property names those it relies on.                                      *)
(***************************************************************************)
EXTENDS Radio

VARIABLE broken     \* the disciplines broken so far

\* No list reaches a page that has connections: it closes them, and does not make
\* them anew.
ListBefore == \A b \in Browsers : OnClients(b) => page[b].map = <<>>
\* Nothing is awaited when a list arrives or the connection to the server is lost.
NothingLate == \A b \in Browsers : OnClients(b) \/ Drop(b) => page[b].tasks = {}
\* A page knows its id before it gets a list.
IdBefore == \A b \in Browsers : OnClients(b) => page[b].me # 0
\* Nothing is awaited when the page is left.
LeftAtRest == \A b \in Browsers : Leave(b) => page[b].tasks = {}
\* The page of whom is offered a connection is open.
OfferHeard == \A b \in Browsers : Ignore(b) => Head(down[b]).type # "offer"

Breaks ==
    {d \in {"list", "late", "early", "leave", "heard", "button"} :
        \/ d = "list" /\ ~ListBefore
        \/ d = "late" /\ ~NothingLate
        \/ d = "early" /\ ~IdBefore
        \/ d = "leave" /\ ~LeftAtRest
        \/ d = "heard" /\ ~OfferHeard
        \/ d = "button" /\ \E b \in Browsers : Press(b)}

Kept(disciplines) == broken \cap disciplines = {}

DisciplineInit == Init /\ broken = {}

DisciplineSpec ==
    /\ DisciplineInit
    /\ [][Next /\ broken' = broken \cup Breaks]_<<vars, broken>>

\* The two descriptions of the connections of b and c are of each other.
Joined(b, c) == \E x \in page[b].pcs, y \in page[c].pcs :
    /\ x.peer = conn[c] /\ y.peer = conn[b]
    /\ x.state = "joined" /\ y.state = "accepted"
    /\ x.with = y.n /\ y.with = x.n

AtRest == clients = Range(conn) /\ \A b \in Browsers :
    up[b] = <<>> /\ down[b] = <<>> /\ page[b].tasks = {}

Together(b, c) == b # c /\ \A x \in {b, c} : page[x].open = "yes" /\ conn[x] # 0

-----------------------------------------------------------------------------

\* Every peer connection that is not closed is in the map, where it will be closed
\* when the page is left, however the tasks that make them overlap, unless one was
\* still on its way then.
NoneLeaked == \A b \in Browsers : \A c \in page[b].pcs :
    \/ page[b].open = "yes" /\ c.peer \in DOMAIN page[b].map /\ page[b].map[c.peer] = c.n
    \/ ~Kept({"leave"})

\* Two browsers never wait for the answers to offers they made each other, while
\* the button is not pressed, no reconnection overtakes a task and no page is left
\* while something is awaited.
NoGlare == Kept({"button", "late", "leave"}) => \A b, c \in Browsers :
    ~\E x \in page[b].pcs, y \in page[c].pcs :
        /\ x.state = "offered" /\ y.state = "offered"
        /\ x.peer = conn[c] /\ y.peer = conn[b]

\* A page holds no connection to a client that its list no longer has, once it has
\* one, while nothing is awaited when a list arrives or the server is lost, and no list
\* comes before the id.
NoGhost == Kept({"late", "early"}) => \A b \in Browsers :
    page[b].open = "yes" /\ page[b].list # {} => DOMAIN page[b].map \subseteq page[b].list

\* The answer a connection takes is the answer to its own offer, while no list
\* closes the connection that made the offer.
AnswerFits == [][Kept({"list"}) => \A b \in Browsers :
    OnAnswer(b) /\ page' # page =>
        \E c \in Found(page[b], Head(down[b]).id) : c.n = Head(down[b]).to]_vars

\* Once nothing is on its way, two browsers on the page are joined, while no offer
\* finds the page not open yet and no list and no press comes at a bad moment.
Joins == AtRest /\ Kept({"list", "late", "heard", "button"}) =>
    \A b, c \in Browsers : Together(b, c) => Joined(b, c) \/ Joined(c, b)
=============================================================================
