------------------------------- MODULE Radio -------------------------------
(***************************************************************************)
(* The radio: browsers that find each other over the socket server and     *)
(* join their peer connections with an offer and an answer.                *)
(*   backend/src/socket/app.gateway.ts                                     *)
(*   frontend/.../Radio/context/RadioContext.tsx, components/Radio.tsx     *)
(* A socket delivers in order.  What a browser awaits (the microphone, an  *)
(* offer, an answer) is a task that ends at some later moment.  The        *)
(* candidates of ICE and the sound itself are left out.                    *)
(***************************************************************************)
EXTENDS Integers, Sequences, FiniteSets, Functions

CONSTANTS
    Browsers,
    MaxId,          \* bound: connections to the server
    MaxTurns        \* bound: lost connections, turns of the button and leavings

ASSUME RadioAssumption ==
    {MaxId, MaxTurns} \subseteq Nat /\ Cardinality(Browsers) <= MaxId /\ 0 \notin Browsers

VARIABLES
    clients,    \* the server's Map: ids it believes to be connected
    conn,       \* browser -> the id of its socket, 0 without one
    used,       \* ids handed out
    page,       \* browser -> the state of RadioProvider
    up, down,   \* browser -> messages to and from the server
    turns

net == <<clients, conn, used>>
vars == <<net, page, up, down, turns>>

Ids == 1 .. MaxId

\* open: the radio page is not opened yet, open, or left (once); ready: the promise of
\* the microphone is resolved; me: myClientIdRef; list: clientsList; map: peerConnectionsRef;
\* pcs: the connections that are not closed; tasks: what is awaited; next: numbers tasks
\* and the connections they make.
NewPage == [open |-> "no", ready |-> FALSE, me |-> 0, list |-> {}, map |-> <<>>,
            pcs |-> {}, tasks |-> {}, next |-> 1]

\* with: the number of the remote connection whose description was set.
NewConnection(n, peer) == [n |-> n, peer |-> peer, state |-> "new", with |-> 0]

\* sdp: the connection that is described; to: the offer that is answered.
Message(type, id) == [type |-> type, id |-> id, sdp |-> 0, to |-> 0, list |-> {}]
Init_(id) == Message("init", id)
List_(ids) == [Message("clients", 0) EXCEPT !.list = ids]

Closed(p) == [p EXCEPT !.pcs = {c \in @ : c.n \notin Range(p.map)}, !.map = <<>>]
With(p, c) == [p EXCEPT !.pcs = {d \in @ : d.n # c.n} \cup {c}]
Found(p, peer) == {c \in p.pcs : peer \in DOMAIN p.map /\ c.n = p.map[peer]}

\* createPeerConnection for each peer; sdp: the offer that waits for it, if any.
Awaiting(p, peers, sdp) ==
    LET made == {[kind |-> "create", n |-> p.next + Cardinality({x \in peers : x < peer}),
                  peer |-> peer, sdp |-> sdp] : peer \in peers} IN
    [p EXCEPT !.tasks = @ \cup made, !.next = @ + Cardinality(peers)]

\* Tasks that wait for a promise that is resolved run before the next event.
Creating(b) == {t \in page[b].tasks : t.kind = "create"}
Idle(b) == ~(page[b].ready /\ Creating(b) # {})
Turn(b) == Idle(b) /\ turns < MaxTurns /\ turns' = turns + 1
Emit(b, m) == up' = [up EXCEPT ![b] = Append(@, m)]
Update(b, p) == page' = [page EXCEPT ![b] = p]

\* A list goes to every socket, the newest after its id.
Broadcast(ids, sockets, new) ==
    down' = [b \in Browsers |->
        IF b = new THEN <<Init_(sockets[b]), List_(ids)>>
        ELSE IF sockets[b] # 0 THEN Append(down[b], List_(ids)) ELSE down[b]]

-----------------------------------------------------------------------------
(* Sockets *)

\* handleConnection: the id is random, so any that was not used.
Connect(b) == \E id \in Ids \ used :
    /\ conn[b] = 0
    /\ used' = used \cup {id}
    /\ clients' = clients \cup {id}
    /\ conn' = [conn EXCEPT ![b] = id]
    /\ Broadcast(clients', conn', b)
    /\ UNCHANGED <<page, up, turns>>

\* onDisconnect; what was on its way is lost, what is emitted from now on waits
\* for the next connection.
Drop(b) ==
    /\ Turn(b)
    /\ conn[b] # 0
    /\ conn' = [conn EXCEPT ![b] = 0]
    /\ up' = [up EXCEPT ![b] = <<>>] /\ down' = [down EXCEPT ![b] = <<>>]
    /\ Update(b, IF page[b].open = "yes" THEN Closed(page[b]) ELSE page[b])
    /\ UNCHANGED <<clients, used>>

\* handleDisconnect, when the server finds out
Notice == \E id \in clients \ Range(conn) :
    /\ clients' = clients \ {id}
    /\ Broadcast(clients', conn, 0)
    /\ UNCHANGED <<conn, used, page, up, turns>>

\* Mutant: only the id is told.
WhoamiInit(b) == down' = [down EXCEPT ![b] = Append(@, Init_(conn[b]))]

Whoami(b) == down' = [down EXCEPT ![b] = @ \o <<Init_(conn[b]), List_(clients)>>]

\* handleSignaling: to the socket of the target, with the sender's id.
Relay(b, m) ==
    down' = [c \in Browsers |->
        IF conn[c] = m.id THEN Append(down[c], [m EXCEPT !.id = conn[b]]) ELSE down[c]]

\* The server takes the next message of a browser.
Serve(b) ==
    /\ conn[b] # 0 /\ up[b] # <<>>
    /\ up' = [up EXCEPT ![b] = Tail(@)]
    /\ IF Head(up[b]).type = "whoami" THEN Whoami(b) ELSE Relay(b, Head(up[b]))
    /\ UNCHANGED <<net, page, turns>>

-----------------------------------------------------------------------------
(* The page *)

Open(b) ==
    /\ page[b].open = "no"
    /\ Update(b, [page[b] EXCEPT !.open = "yes"])
    /\ IF conn[b] # 0 THEN Emit(b, Message("whoami", 0)) ELSE UNCHANGED up
    /\ UNCHANGED <<net, down, turns>>

\* What was awaited goes on, and nobody listens any more.
Leave(b) ==
    /\ Turn(b)
    /\ page[b].open = "yes"
    /\ Update(b, [Closed(page[b]) EXCEPT !.open = "left"])
    /\ UNCHANGED <<net, up, down>>

\* The button of a client that has no connection.
Press(b) == \E peer \in page[b].list \ ({page[b].me} \cup DOMAIN page[b].map) :
    /\ Turn(b)
    /\ page[b].open = "yes"
    /\ Update(b, Awaiting(page[b], {peer}, 0))
    /\ UNCHANGED <<net, up, down>>

\* The next message is of the type, and the page listens.
Hears(b, type) ==
    /\ page[b].open = "yes"
    /\ Idle(b) /\ down[b] # <<>> /\ Head(down[b]).type = type
    /\ down' = [down EXCEPT ![b] = Tail(@)]
    /\ UNCHANGED <<net, up, turns>>

\* Nobody listens.
Ignore(b) ==
    /\ page[b].open # "yes" /\ down[b] # <<>>
    /\ down' = [down EXCEPT ![b] = Tail(@)]
    /\ UNCHANGED <<net, page, up, turns>>

OnInit(b) ==
    /\ Hears(b, "init")
    /\ Update(b, [page[b] EXCEPT !.me = Head(down[b]).id])

\* Mutant: whoever has no connection offers one.
CallAll(p, list) == {peer \in list : peer # p.me /\ peer \notin DOMAIN p.map}

\* Of two browsers the one with the greater id offers.
Call(p, list) == {peer \in list : p.me > peer /\ peer \notin DOMAIN p.map}

\* Mutant: the list closes nothing.
OnClientsKeep(b) ==
    LET p == page[b]
        list == Head(down[b]).list IN
    /\ Hears(b, "clients")
    /\ Update(b, [Awaiting(p, Call(p, list), 0) EXCEPT !.list = list])

\* The list that decides what to close is the one the effect saw when it ran, the
\* empty one: whatever is in the map is closed.
OnClients(b) ==
    LET p == page[b]
        list == Head(down[b]).list IN
    /\ Hears(b, "clients")
    /\ Update(b, IF p.me = 0 THEN [p EXCEPT !.list = list]
                 ELSE Closed([Awaiting(p, Call(p, list), 0) EXCEPT !.list = list]))

Answering(p, n, peer, sdp) ==
    [p EXCEPT !.tasks = @ \cup {[kind |-> "answer", n |-> n, peer |-> peer, sdp |-> sdp]}]

OnOffer(b) ==
    LET p == page[b]
        m == Head(down[b]) IN
    /\ Hears(b, "offer")
    /\ Update(b, IF m.id \in DOMAIN p.map THEN Answering(p, p.map[m.id], m.id, m.sdp)
                 ELSE Awaiting(p, {m.id}, m.sdp))

\* setRemoteDescription throws unless the connection has offered.
OnAnswer(b) ==
    LET p == page[b]
        m == Head(down[b])
        offered == {c \in Found(p, m.id) : c.state = "offered"} IN
    /\ Hears(b, "answer")
    /\ \/ offered = {} /\ UNCHANGED page
       \/ \E c \in offered : Update(b, With(p, [c EXCEPT !.state = "joined", !.with = m.sdp]))

-----------------------------------------------------------------------------
(* What was awaited *)

Awaited(b, t, kind) ==
    /\ t \in page[b].tasks /\ t.kind = kind
    /\ UNCHANGED <<net, down, turns>>
Done(b, t) == [page[b] EXCEPT !.tasks = @ \ {t}]

\* Mutant: the map was looked at before the microphone was awaited.
CreatedTwice(b, t) ==
    LET p == With(Done(b, t), NewConnection(t.n, t.peer))
        next == IF t.sdp = 0 THEN "offer" ELSE "answer" IN
    /\ Awaited(b, t, "create") /\ \A u \in Creating(b) : t.n <= u.n
    /\ Update(b, [p EXCEPT !.map = [x \in DOMAIN @ \cup {t.peer} |-> IF x = t.peer THEN t.n ELSE @[x]],
                           !.tasks = @ \cup {[t EXCEPT !.kind = next]}])
    /\ UNCHANGED up

\* initAudio: the microphone is there, or refused.
Ready(b) ==
    /\ page[b].open # "no" /\ ~page[b].ready
    /\ Update(b, [page[b] EXCEPT !.ready = TRUE])
    /\ UNCHANGED <<net, up, down, turns>>

\* The microphone is ready, or five seconds are over, for the first that waits.
Created(b, t) ==
    LET p == Done(b, t)
        has == t.peer \in DOMAIN p.map
        n == IF has THEN p.map[t.peer] ELSE t.n
        q == IF has THEN p
             ELSE [With(p, NewConnection(n, t.peer)) EXCEPT !.map =
                       [x \in DOMAIN @ \cup {t.peer} |-> IF x = t.peer THEN n ELSE @[x]]] IN
    /\ Awaited(b, t, "create") /\ \A u \in Creating(b) : t.n <= u.n
    /\ Update(b, IF t.sdp # 0 THEN Answering(q, n, t.peer, t.sdp)
                 ELSE IF has THEN q
                 ELSE [q EXCEPT !.tasks = @ \cup {[t EXCEPT !.kind = "offer"]}])
    /\ UNCHANGED up

\* A description of a connection that was closed meanwhile throws.
Described(b, t, state, m) == 
    LET opened == {c \in page[b].pcs : c.n = t.n} IN
    \/ /\ opened = {}
       /\ Update(b, Done(b, t)) /\ UNCHANGED up
    \/ \E c \in opened :
          /\ Update(b, With(Done(b, t), [c EXCEPT !.state = state, !.with = t.sdp]))
          /\ Emit(b, [m EXCEPT !.id = t.peer, !.sdp = t.n])

Offered(b, t) ==
    Awaited(b, t, "offer") /\ Described(b, t, "offered", Message("offer", 0))

\* An offer of one's own is rolled back.
Answered(b, t) ==
    Awaited(b, t, "answer") /\ Described(b, t, "accepted", [Message("answer", 0) EXCEPT !.to = t.sdp])

-----------------------------------------------------------------------------

Receive(b) == Ignore(b) \/ OnInit(b) \/ OnClients(b) \/ OnOffer(b) \/ OnAnswer(b)
Finish(b) == \E t \in page[b].tasks : Created(b, t) \/ Offered(b, t) \/ Answered(b, t)

\* The application is open and connected everywhere, the radio page nowhere.
Init ==
    /\ conn \in {f \in [Browsers -> Ids] : IsInjective(f)}
    /\ clients = Range(conn) /\ used = Range(conn) /\ turns = 0
    /\ page = [b \in Browsers |-> NewPage]
    /\ up = [b \in Browsers |-> <<>>] /\ down = [b \in Browsers |-> <<>>]

Next ==
    \/ Notice
    \/ \E b \in Browsers :
          \/ Connect(b) \/ Drop(b) \/ Serve(b) \/ Open(b) \/ Leave(b) \/ Press(b) \/ Ready(b)
          \/ Receive(b) \/ Finish(b)

Spec == Init /\ [][Next]_vars
=============================================================================
