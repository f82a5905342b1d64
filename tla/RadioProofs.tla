---------------------------- MODULE RadioProofs -----------------------------
(***************************************************************************)
(* Theorems about RadioDisciplines, for any number of browsers, of ids and *)
(* of messages: a page that is left keeps no connection, of two browsers   *)
(* one offers, a page is connected to members of its list only, an answer  *)
(* is that to the offer its connection made, and two browsers on the page  *)
(* are joined once nothing is on its way.                                  *)
(***************************************************************************)
EXTENDS RadioDisciplines, FiniteSetTheorems, TLAPS

-----------------------------------------------------------------------------
(* Types, over the ids U that were handed out *)

Connections(U) == [n : Nat \ {0}, peer : U, state : {"new", "offered", "accepted", "joined"}, with : Nat]
Tasks(U) == [kind : {"create", "offer", "answer"}, n : Nat \ {0}, peer : U, sdp : Nat]
Maps(U) == UNION {[S -> Nat \ {0}] : S \in SUBSET U}

Pages(U) == [open : {"no", "yes", "left"}, ready : BOOLEAN, me : U \cup {0}, list : SUBSET U,
             map : Maps(U), pcs : SUBSET Connections(U), tasks : SUBSET Tasks(U), next : Nat \ {0}]

Messages(U) ==
    {m \in [type : {"whoami", "init", "clients", "offer", "answer"}, id : U \cup {0}, sdp : Nat,
            to : Nat, list : SUBSET U] :
        m.type \in {"offer", "answer"} => m.id \in U /\ m.sdp # 0}
UpMessages(U) == {m \in Messages(U) : m.type \in {"whoami", "offer", "answer"}}
DownMessages(U) == {m \in Messages(U) : m.type \in {"init", "clients", "offer", "answer"}}

(* What a page keeps in order *)

\* Connections are in the map, and what is in the map is a connection.
Filed(p) ==
    /\ \A c \in p.pcs : c.peer \in DOMAIN p.map /\ p.map[c.peer] = c.n
    /\ \A x \in DOMAIN p.map : \E c \in p.pcs : c.n = p.map[x] /\ c.peer = x

\* A number belongs to a connection, or to a task that will make one; what is awaited
\* for a connection is for its peer.
Numbered(p) ==
    /\ \A c \in p.pcs : c.n < p.next
    /\ \A c, d \in p.pcs : c.n = d.n => c = d
    /\ \A t \in p.tasks : t.n < p.next
    /\ \A t, u \in p.tasks : t.kind = "create" /\ t.n = u.n => t = u
    /\ \A t, u \in p.tasks : t.kind = "offer" /\ u.kind = "offer" /\ t.n = u.n => t = u
    /\ \A t \in p.tasks, c \in p.pcs : t.n = c.n => t.kind # "create" /\ t.peer = c.peer

Sound(U, p) ==
    /\ p \in Pages(U) /\ Filed(p) /\ Numbered(p)
    /\ p.open = "no" => p.map = <<>> /\ p.pcs = {} /\ p.tasks = {} /\ p.me = 0 /\ p.list = {}

TypeOK ==
    /\ used \subseteq Ids /\ clients \subseteq used
    /\ conn \in [Browsers -> used \cup {0}]
    /\ \A b, c \in Browsers : conn[b] = conn[c] /\ conn[b] # 0 => b = c
    /\ page \in [Browsers -> Pages(used)] /\ \A b \in Browsers : Sound(used, page[b])
    /\ up \in [Browsers -> Seq(UpMessages(used))]
    /\ down \in [Browsers -> Seq(DownMessages(used))]

LEMMA Grows ==
  ASSUME NEW U, NEW V, U \subseteq V
  PROVE  /\ Pages(U) \subseteq Pages(V) /\ UpMessages(U) \subseteq UpMessages(V)
         /\ DownMessages(U) \subseteq DownMessages(V)
         /\ \A p : Sound(U, p) => Sound(V, p)
<1>1. Connections(U) \subseteq Connections(V) /\ Tasks(U) \subseteq Tasks(V) /\ Maps(U) \subseteq Maps(V)
  BY DEF Connections, Tasks, Maps
<1>2. Pages(U) \subseteq Pages(V)
  BY <1>1 DEF Pages
<1>3. Messages(U) \subseteq Messages(V)
  BY DEF Messages
<1> QED
  BY <1>2, <1>3 DEF UpMessages, DownMessages, Sound

LEMMA MapEntry ==
  ASSUME NEW U, NEW f \in Maps(U)
  PROVE  DOMAIN f \subseteq U /\ f \in [DOMAIN f -> Nat \ {0}]
BY DEF Maps

LEMMA MapMade ==
  ASSUME NEW U, NEW S \in SUBSET U, NEW f \in [S -> Nat \ {0}]
  PROVE  f \in Maps(U)
BY DEF Maps

LEMMA MapExtended ==
  ASSUME NEW U, NEW f \in Maps(U), NEW k \in U, NEW n \in Nat \ {0}
  PROVE  [x \in DOMAIN f \cup {k} |-> IF x = k THEN n ELSE f[x]] \in Maps(U)
<1>1. [x \in DOMAIN f \cup {k} |-> IF x = k THEN n ELSE f[x]] \in [DOMAIN f \cup {k} -> Nat \ {0}]
  BY MapEntry
<1>2. DOMAIN f \cup {k} \in SUBSET U
  BY MapEntry
<1> QED
  BY <1>1, <1>2, MapMade

LEMMA MapEmpty == \A U : <<>> \in Maps(U) /\ DOMAIN <<>> = {}
<1>1. <<>> \in [{} -> Nat \ {0}] /\ DOMAIN <<>> = {}
  OBVIOUS
<1> QED
  BY <1>1 DEF Maps

LEMMA FoundIds == Ids \subseteq Nat \ {0} /\ IsFiniteSet(Ids)
<1>1. MaxId \in Nat
  BY RadioAssumption
<1> QED
  BY <1>1, FS_Interval DEF Ids

\* The numbers that Awaiting hands out are in the order of the peers.
LEMMA Ranks ==
  ASSUME NEW S \in SUBSET Ids
  PROVE  /\ Cardinality(S) \in Nat
         /\ \A x \in S : /\ Cardinality({z \in S : z < x}) \in Nat
                         /\ Cardinality({z \in S : z < x}) < Cardinality(S)
         /\ \A x, y \in S :
               Cardinality({z \in S : z < x}) = Cardinality({z \in S : z < y}) => x = y
<1> DEFINE below(x) == {z \in S : z < x}
<1>1. IsFiniteSet(S) /\ S \subseteq Nat
  BY FoundIds, FS_Subset
<1>2. \A x : IsFiniteSet(below(x)) /\ Cardinality(below(x)) \in Nat
  BY <1>1, FS_Subset, FS_CardinalityType
<1>3. \A x \in S : Cardinality(below(x)) < Cardinality(S)
  <2> TAKE x \in S
  <2>1. x \notin below(x) /\ below(x) \in SUBSET S
    BY <1>1
  <2>2. Cardinality(below(x)) <= Cardinality(S) /\ Cardinality(S) # Cardinality(below(x))
    BY <1>1, <2>1, FS_Subset
  <2> QED
    BY <1>1, <1>2, <2>2, FS_CardinalityType
<1>4. ASSUME NEW x \in S, NEW y \in S, x < y PROVE Cardinality(below(x)) # Cardinality(below(y))
  <2>1. x \in Nat /\ y \in Nat
    BY <1>1
  <2>2. \A z \in S : z < x => z < y
    BY <1>1, <1>4, <2>1
  <2>3. below(x) \in SUBSET below(y)
    BY <2>2
  <2>4. x \in below(y) /\ x \notin below(x)
    BY <1>4, <2>1
  <2> QED
    BY <1>2, <2>3, <2>4, FS_Subset
<1>5. \A x, y \in S : x < y \/ y < x \/ x = y
  BY <1>1
<1> QED
  BY <1>1, <1>2, <1>3, <1>4, <1>5, FS_CardinalityType

-----------------------------------------------------------------------------
(* What is done to a page keeps it in order. *)

\* What an operation on the connections and tasks leaves alone.
Kin(p, q) == q.open = p.open /\ q.me = p.me /\ q.list = p.list /\ q.ready = p.ready

LEMMA ClosedSound ==
  ASSUME NEW U, NEW p, Sound(U, p)
  PROVE  /\ Sound(U, Closed(p)) /\ Kin(p, Closed(p))
         /\ Closed(p).pcs = {} /\ Closed(p).map = <<>> /\ Closed(p).tasks = p.tasks
<1>1. p \in Pages(U) /\ Filed(p)
  BY DEF Sound
<1>2. \A c \in p.pcs : c.n \in Range(p.map)
  BY <1>1 DEF Filed, Range
<1>3. Closed(p) = [p EXCEPT !.pcs = {}, !.map = <<>>]
  BY <1>2 DEF Closed
<1>4. [p EXCEPT !.pcs = {}, !.map = <<>>] \in Pages(U)
  BY <1>1, MapEmpty DEF Pages
<1> DEFINE q == [p EXCEPT !.pcs = {}, !.map = <<>>]
<1>5. /\ q.pcs = {} /\ q.map = <<>> /\ q.tasks = p.tasks /\ q.next = p.next /\ q.open = p.open
      /\ Kin(p, q)
  BY <1>1 DEF Pages, Kin
<1> HIDE DEF q
<1>6. Filed(q)
  BY <1>5, MapEmpty DEF Filed
<1>7. Numbered(q)
  BY <1>5 DEF Numbered, Sound
<1>8. q.open = "no" => q.map = <<>> /\ q.pcs = {} /\ q.tasks = {} /\ q.me = 0 /\ q.list = {}
  BY <1>5 DEF Sound, Kin
<1> QED
  BY <1>3, <1>4, <1>5, <1>6, <1>7, <1>8 DEF Sound, q

Made(p, peers, sdp) ==
    {[kind |-> "create", n |-> p.next + Cardinality({x \in peers : x < peer}),
      peer |-> peer, sdp |-> sdp] : peer \in peers}

LEMMA AwaitingSound ==
  ASSUME NEW U \in SUBSET Ids, NEW p, Sound(U, p), p.open # "no", NEW peers \in SUBSET U, NEW sdp \in Nat
  PROVE  /\ Sound(U, Awaiting(p, peers, sdp)) /\ Kin(p, Awaiting(p, peers, sdp))
         /\ Awaiting(p, peers, sdp).pcs = p.pcs /\ Awaiting(p, peers, sdp).map = p.map
         /\ Awaiting(p, peers, sdp).tasks = p.tasks \cup Made(p, peers, sdp)
         /\ \A t \in Made(p, peers, sdp) :
               t \in Tasks(U) /\ t.kind = "create" /\ t.peer \in peers /\ t.sdp = sdp
         /\ \A t, u \in Made(p, peers, sdp) : t.peer = u.peer => t = u
         /\ \A x \in peers : \E t \in Made(p, peers, sdp) : t.peer = x
<1> DEFINE made == Made(p, peers, sdp)
           q == [p EXCEPT !.tasks = @ \cup made, !.next = @ + Cardinality(peers)]
           rank(x) == Cardinality({z \in peers : z < x})
<1>1. p \in Pages(U) /\ p.next \in Nat \ {0} /\ p.tasks \subseteq Tasks(U) /\ p.pcs \subseteq Connections(U)
  BY DEF Sound, Pages
<1>2. /\ Cardinality(peers) \in Nat
      /\ \A x \in peers : rank(x) \in Nat /\ rank(x) < Cardinality(peers)
      /\ \A x, y \in peers : rank(x) = rank(y) => x = y
  BY Ranks
<1>3. \A t \in made : \E x \in peers :
         t = [kind |-> "create", n |-> p.next + rank(x), peer |-> x, sdp |-> sdp]
  BY DEF Made
<1>4. \A x \in peers : \E t \in made : t.peer = x
  <2> TAKE x \in peers
  <2> DEFINE t == [kind |-> "create", n |-> p.next + rank(x), peer |-> x, sdp |-> sdp]
  <2>1. t \in made /\ t.peer = x
    BY DEF Made
  <2> QED
    BY <2>1
<1> HIDE DEF made, rank
<1>5. \A t \in made : /\ t \in Tasks(U) /\ t.kind = "create" /\ t.peer \in peers /\ t.sdp = sdp
                      /\ t.n = p.next + rank(t.peer) /\ t.n >= p.next
                      /\ t.n < p.next + Cardinality(peers)
  BY <1>1, <1>2, <1>3 DEF Tasks
<1>6. \A t, u \in made : t.n = u.n \/ t.peer = u.peer => t = u
  <2> TAKE t, u \in made
  <2>1. t.n = u.n => t.peer = u.peer
    BY <1>1, <1>2, <1>5
  <2> QED
    BY <1>3, <2>1
<1>7. /\ q \in Pages(U)
      /\ q.pcs = p.pcs /\ q.map = p.map /\ q.tasks = p.tasks \cup made
      /\ q.next = p.next + Cardinality(peers) /\ Kin(p, q)
  <2> DEFINE k == Cardinality(peers)
  <2>1. p.tasks \cup made \subseteq Tasks(U) /\ p.next + k \in Nat \ {0}
    BY <1>1, <1>2, <1>5
  <2> HIDE DEF k
  <2> QED
    BY <1>1, <2>1 DEF Pages, Kin, k
<1> HIDE DEF q
<1>8. Filed(q)
  BY <1>7 DEF Filed, Sound
<1>9. Numbered(q)
  <2> DEFINE k == Cardinality(peers)
  <2>0. Numbered(p) /\ k \in Nat
    BY <1>2 DEF Sound
  <2> HIDE DEF k
  <2>1. \A c \in q.pcs : c.n < q.next
    BY <1>1, <1>7, <2>0 DEF Numbered, Connections, k
  <2>2. \A c, d \in q.pcs : c.n = d.n => c = d
    BY <1>7, <2>0 DEF Numbered
  <2>3. \A t \in p.tasks : t.n < p.next /\ t.n < q.next
    BY <1>1, <1>7, <2>0 DEF Numbered, Tasks, k
  <2>4. \A t \in p.tasks, u \in made : t.n # u.n
    BY <1>1, <1>5, <2>3 DEF Tasks
  <2>5. \A t \in made, c \in q.pcs : t.n # c.n
    BY <1>1, <1>5, <1>7, <2>0 DEF Tasks, Numbered, Connections
  <2>6. \A t \in q.tasks : t.n < q.next
    BY <1>5, <1>7, <2>3
  <2>7. \A t, u \in q.tasks : (t.kind = "create" /\ t.n = u.n) => t = u
    BY <1>6, <1>7, <2>0, <2>4 DEF Numbered
  <2>8. \A t, u \in q.tasks : t.kind = "offer" /\ u.kind = "offer" /\ t.n = u.n => t = u
    BY <1>5, <1>7, <2>0 DEF Numbered
  <2>9. \A t \in q.tasks, c \in q.pcs : t.n = c.n => t.kind # "create" /\ t.peer = c.peer
    BY <1>7, <2>0, <2>5 DEF Numbered
  <2> QED
    BY <2>1, <2>2, <2>6, <2>7, <2>8, <2>9 DEF Numbered
<1>10. Awaiting(p, peers, sdp) = q
  BY DEF Awaiting, q, made, Made
<1>11. Sound(U, q)
  BY <1>7, <1>8, <1>9 DEF Sound, Kin
<1> QED
  BY <1>4, <1>5, <1>6, <1>7, <1>10, <1>11 DEF made

\* q is the page p that awaits one more connection.
AwaitsOne(U, p, q, x, sdp) ==
    /\ Sound(U, q) /\ Kin(p, q) /\ q.pcs = p.pcs /\ q.map = p.map
    /\ \E t \in Tasks(U) : /\ t.kind = "create" /\ t.peer = x /\ t.sdp = sdp
                           /\ q.tasks = p.tasks \cup {t}

LEMMA AwaitingOne ==
  ASSUME NEW U \in SUBSET Ids, NEW p, Sound(U, p), p.open # "no", NEW x \in U, NEW sdp \in Nat
  PROVE  AwaitsOne(U, p, Awaiting(p, {x}, sdp), x, sdp)
<1> DEFINE peers == {x}
           made == Made(p, peers, sdp)
           q == Awaiting(p, peers, sdp)
<1>1. peers \in SUBSET U
  OBVIOUS
<1> HIDE DEF peers
<1>2. /\ Sound(U, q) /\ Kin(p, q) /\ q.pcs = p.pcs /\ q.map = p.map /\ q.tasks = p.tasks \cup made
      /\ \A t \in made : t \in Tasks(U) /\ t.kind = "create" /\ t.peer \in peers /\ t.sdp = sdp
      /\ \A t, u \in made : t.peer = u.peer => t = u
      /\ \A y \in peers : \E t \in made : t.peer = y
  BY <1>1, AwaitingSound
<1> HIDE DEF made, q
<1>3. x \in peers /\ \A y \in peers : y = x
  BY DEF peers
<1>4. PICK t \in made : t.peer = x
  BY <1>2, <1>3
<1>5. made = {t}
  BY <1>2, <1>3, <1>4
<1>6. t \in Tasks(U) /\ t.kind = "create" /\ t.sdp = sdp
  BY <1>2
<1> QED
  BY <1>2, <1>4, <1>5, <1>6 DEF q, peers, AwaitsOne

\* The other fields of a page that is open.
LEMMA FieldSound ==
  ASSUME NEW U, NEW p, Sound(U, p), NEW q \in Pages(U),
         q.pcs = p.pcs, q.map = p.map, q.next = p.next, q.tasks \subseteq p.tasks, q.open # "no"
  PROVE  Sound(U, q)
BY DEF Sound, Filed, Numbered

Answer(p, x, sdp) == [kind |-> "answer", n |-> p.map[x], peer |-> x, sdp |-> sdp]

LEMMA AnsweringSound ==
  ASSUME NEW U, NEW p, Sound(U, p), p.open # "no", NEW x \in DOMAIN p.map, NEW sdp \in Nat
  PROVE  /\ Sound(U, Answering(p, p.map[x], x, sdp)) /\ Kin(p, Answering(p, p.map[x], x, sdp))
         /\ Answering(p, p.map[x], x, sdp).pcs = p.pcs /\ Answering(p, p.map[x], x, sdp).map = p.map
         /\ Answering(p, p.map[x], x, sdp).tasks = p.tasks \cup {Answer(p, x, sdp)}
         /\ Answer(p, x, sdp) \in Tasks(U)
<1> DEFINE t == Answer(p, x, sdp)
           q == [p EXCEPT !.tasks = @ \cup {t}]
<1>1. p \in Pages(U) /\ Filed(p) /\ Numbered(p)
  BY DEF Sound
<1>2. x \in U /\ p.map[x] \in Nat \ {0}
  BY <1>1, MapEntry DEF Pages
<1>3. t \in Tasks(U) /\ t.kind = "answer" /\ t.n = p.map[x] /\ t.peer = x
  BY <1>2 DEF Answer, Tasks
<1>4. PICK d \in p.pcs : d.n = t.n /\ d.peer = x
  BY <1>1, <1>3 DEF Filed
<1> HIDE DEF t
<1>5. /\ q \in Pages(U) /\ q.pcs = p.pcs /\ q.map = p.map /\ q.next = p.next
      /\ q.tasks = p.tasks \cup {t} /\ Kin(p, q)
  BY <1>1, <1>3 DEF Pages, Kin
<1> HIDE DEF q
<1>6. Filed(q)
  BY <1>1, <1>5 DEF Filed
<1>7. Numbered(q)
  <2>1. t.n < q.next /\ \A u \in p.tasks : u.n = t.n => u.kind # "create"
    BY <1>1, <1>4, <1>5 DEF Numbered
  <2>2. \A c \in q.pcs : c.n = t.n => c.peer = t.peer
    BY <1>1, <1>3, <1>4, <1>5 DEF Numbered
  <2> QED
    BY <1>1, <1>3, <1>5, <2>1, <2>2 DEF Numbered
<1>8. Answering(p, p.map[x], x, sdp) = q
  BY DEF Answering, q, t, Answer
<1>9. Sound(U, q)
  BY <1>5, <1>6, <1>7 DEF Sound, Kin
<1> QED
  BY <1>3, <1>5, <1>8, <1>9 DEF t

\* A connection that changes its state.
LEMMA ChangedSound ==
  ASSUME NEW U, NEW p, Sound(U, p), NEW c \in p.pcs, NEW d \in Connections(U), d.n = c.n, d.peer = c.peer
  PROVE  /\ Sound(U, With(p, d)) /\ Kin(p, With(p, d))
         /\ With(p, d).pcs = (p.pcs \ {c}) \cup {d}
         /\ With(p, d).map = p.map /\ With(p, d).tasks = p.tasks
<1>1. p \in Pages(U) /\ Filed(p) /\ Numbered(p) /\ p.open # "no"
  BY DEF Sound
<1> DEFINE pcs == (p.pcs \ {c}) \cup {d}
           q == [p EXCEPT !.pcs = pcs]
<1>2. {e \in p.pcs : e.n # d.n} = p.pcs \ {c}
  BY <1>1 DEF Numbered
<1>3. With(p, d) = q
  BY <1>2 DEF With
<1>4. /\ q \in Pages(U) /\ q.pcs = pcs /\ q.map = p.map /\ q.next = p.next /\ q.tasks = p.tasks
      /\ Kin(p, q)
  BY <1>1 DEF Pages, Kin
<1> HIDE DEF q
<1>5. Filed(q)
  BY <1>1, <1>4 DEF Filed
<1>6. Numbered(q)
  BY <1>1, <1>4 DEF Numbered
<1>7. Sound(U, q)
  BY <1>1, <1>4, <1>5, <1>6 DEF Sound, Kin
<1> QED
  BY <1>3, <1>4, <1>7

\* A connection that is made for a task.
Plugged(p, t) ==
    [With([p EXCEPT !.tasks = @ \ {t}], NewConnection(t.n, t.peer)) EXCEPT !.map =
        [x \in DOMAIN @ \cup {t.peer} |-> IF x = t.peer THEN t.n ELSE @[x]]]

LEMMA PluggedSound ==
  ASSUME NEW U, NEW p, Sound(U, p), NEW t \in p.tasks, t.kind = "create", t.peer \notin DOMAIN p.map
  PROVE  /\ Sound(U, Plugged(p, t)) /\ Kin(p, Plugged(p, t)) /\ t \in Tasks(U)
         /\ NewConnection(t.n, t.peer) \in Connections(U)
         /\ Plugged(p, t).tasks = p.tasks \ {t}
         /\ Plugged(p, t).pcs = p.pcs \cup {NewConnection(t.n, t.peer)}
         /\ Plugged(p, t).next = p.next
         /\ DOMAIN Plugged(p, t).map = DOMAIN p.map \cup {t.peer} /\ Plugged(p, t).map[t.peer] = t.n
         /\ \A x \in DOMAIN p.map : Plugged(p, t).map[x] = p.map[x]
         /\ \A u \in p.tasks \ {t} : u.n # t.n
<1>1. p \in Pages(U) /\ Filed(p) /\ Numbered(p) /\ p.open # "no"
  BY DEF Sound
<1>2. t \in Tasks(U) /\ t.n \in Nat \ {0} /\ t.peer \in U
  BY <1>1 DEF Pages, Tasks
<1> DEFINE d == NewConnection(t.n, t.peer)
           tasks == p.tasks \ {t}
           pcs == p.pcs \cup {d}
           map == [x \in DOMAIN p.map \cup {t.peer} |-> IF x = t.peer THEN t.n ELSE p.map[x]]
           q == [p EXCEPT !.tasks = tasks, !.pcs = pcs, !.map = map]
<1>3. d \in Connections(U) /\ d.n = t.n /\ d.peer = t.peer
  BY <1>2 DEF NewConnection, Connections
<1>4. \A c \in p.pcs : c.n # t.n
  BY <1>1 DEF Numbered
<1>5. \A u \in tasks : u.n # t.n
  BY <1>1 DEF Numbered
<1> HIDE DEF d
<1>6. {e \in p.pcs : e.n # d.n} = p.pcs
  BY <1>3, <1>4
<1>7. map \in Maps(U)
  BY <1>1, <1>2, MapExtended DEF Pages
<1>8. p.map = p.map /\ DOMAIN map = DOMAIN p.map \cup {t.peer}
      /\ map[t.peer] = t.n /\ \A x \in DOMAIN p.map : map[x] = p.map[x]
  OBVIOUS
<1> HIDE DEF map, tasks, pcs
<1>9. /\ q \in Pages(U) /\ q.pcs = pcs /\ q.map = map /\ q.next = p.next /\ q.tasks = tasks
      /\ Kin(p, q)
  BY <1>1, <1>3, <1>7 DEF Pages, Kin, pcs, tasks
<1>10. Plugged(p, t) = q
  <2> DEFINE p1 == [p EXCEPT !.tasks = tasks]
             p2 == [p1 EXCEPT !.pcs = pcs]
  <2>1. With(p1, d) = p2
    <3>1. p1.pcs = p.pcs
      BY <1>1 DEF Pages
    <3> QED
      BY <1>6, <3>1 DEF With, pcs
  <2>2. p2.map = p.map
    BY <1>1 DEF Pages
  <2>3. [p2 EXCEPT !.map = map] = q
    BY <1>1 DEF Pages
  <2> QED
    BY <2>1, <2>2, <2>3 DEF Plugged, d, map, tasks
<1> HIDE DEF q
<1>11. Filed(q)
  BY <1>1, <1>3, <1>8, <1>9 DEF Filed, pcs
<1>12. Numbered(q)
  BY <1>1, <1>3, <1>4, <1>5, <1>9 DEF Numbered, pcs, tasks
<1>13. Sound(U, q)
  BY <1>1, <1>9, <1>11, <1>12 DEF Sound, Kin
<1> QED
  BY <1>2, <1>3, <1>5, <1>8, <1>9, <1>10, <1>13 DEF d, tasks, pcs

Offering(p, t) == [Plugged(p, t) EXCEPT !.tasks = @ \cup {[t EXCEPT !.kind = "offer"]}]

LEMMA OfferingSound ==
  ASSUME NEW U, NEW p, Sound(U, p), NEW t \in p.tasks, t.kind = "create", t.peer \notin DOMAIN p.map
  PROVE  /\ Sound(U, Offering(p, t)) /\ Kin(p, Offering(p, t))
         /\ [t EXCEPT !.kind = "offer"] \in Tasks(U)
         /\ Offering(p, t).tasks = (p.tasks \ {t}) \cup {[t EXCEPT !.kind = "offer"]}
         /\ Offering(p, t).pcs = Plugged(p, t).pcs /\ Offering(p, t).map = Plugged(p, t).map
<1> DEFINE q == Plugged(p, t)
           u == [t EXCEPT !.kind = "offer"]
           r == [q EXCEPT !.tasks = @ \cup {u}]
           d == NewConnection(t.n, t.peer)
<1>0. Sound(U, q) /\ t \in Tasks(U) /\ \A v \in p.tasks \ {t} : v.n # t.n
  BY PluggedSound
<1>1. q \in Pages(U) /\ Filed(q) /\ Numbered(q) /\ p \in Pages(U) /\ Numbered(p) /\ p.open # "no"
  BY <1>0 DEF Sound
<1>2. u \in Tasks(U) /\ u.kind = "offer" /\ u.n = t.n /\ u.peer = t.peer
  BY <1>0 DEF Tasks
<1>3. d.n = t.n /\ d.peer = t.peer
  BY DEF NewConnection
<1> HIDE DEF u, d
<1>4. q.tasks = p.tasks \ {t} /\ q.pcs = p.pcs \cup {d} /\ q.next = p.next /\ Kin(p, q)
  BY PluggedSound DEF d
<1> HIDE DEF q
<1>5. r \in Pages(U) /\ r.pcs = q.pcs /\ r.map = q.map /\ r.next = q.next /\ r.tasks = q.tasks \cup {u}
      /\ Kin(q, r)
  BY <1>1, <1>2 DEF Pages, Kin
<1> HIDE DEF r
<1>6. Filed(r)
  BY <1>1, <1>5 DEF Filed
<1>7. Numbered(r)
  <2>1. u.n < r.next /\ \A v \in q.tasks : v.n # u.n
    BY <1>0, <1>1, <1>2, <1>4, <1>5 DEF Numbered
  <2>2. d \in q.pcs /\ \A c \in q.pcs : c.n = u.n => c.peer = u.peer
    BY <1>1, <1>2, <1>3, <1>4 DEF Numbered
  <2> QED
    BY <1>1, <1>2, <1>5, <2>1, <2>2 DEF Numbered
<1>8. Sound(U, r) /\ Kin(p, r)
  BY <1>1, <1>4, <1>5, <1>6, <1>7 DEF Sound, Kin
<1> QED
  BY <1>2, <1>4, <1>5, <1>8 DEF Offering, r, q, u

-----------------------------------------------------------------------------
(* What the steps of a page do to it *)

LEMMA PageTyped ==
  ASSUME TypeOK, NEW b \in Browsers
  PROVE  /\ Sound(used, page[b]) /\ page[b] \in Pages(used) /\ used \in SUBSET Ids
         /\ page[b].tasks \subseteq Tasks(used) /\ page[b].pcs \subseteq Connections(used)
         /\ page[b].map \in Maps(used) /\ page[b].list \subseteq used
BY DEF TypeOK, Pages

LEMMA Updated ==
  ASSUME TypeOK, NEW b \in Browsers, NEW q, Update(b, q)
  PROVE  page'[b] = q /\ \A c \in Browsers \ {b} : page'[c] = page[c]
BY DEF Update, TypeOK

LEMMA HeadTyped ==
  ASSUME TypeOK, NEW b \in Browsers, down[b] # <<>>
  PROVE  Head(down[b]) \in DownMessages(used) /\ Head(down[b]) = down[b][1] /\ Len(down[b]) \in Nat \ {0}
BY DEF TypeOK

LEMMA OpenDoes ==
  ASSUME TypeOK, NEW b \in Browsers, Open(b)
  PROVE  /\ \A c \in Browsers \ {b} : page'[c] = page[c]
         /\ Sound(used, page'[b]) /\ page[b].open = "no" /\ page'[b].open = "yes"
         /\ page'[b].map = <<>> /\ page'[b].pcs = {} /\ page'[b].tasks = {} /\ page'[b].me = 0
         /\ page'[b].list = {}
<1> DEFINE p == page[b]
           q == [p EXCEPT !.open = "yes"]
<1>1. Sound(used, p) /\ p \in Pages(used) /\ p.open = "no" /\ Update(b, q)
  BY PageTyped DEF Open
<1>2. page'[b] = q /\ \A c \in Browsers \ {b} : page'[c] = page[c]
  BY <1>1, Updated
<1> HIDE DEF p
<1>3. /\ q \in Pages(used) /\ q.open = "yes" /\ q.map = p.map /\ q.pcs = p.pcs /\ q.tasks = p.tasks
      /\ q.me = p.me /\ q.list = p.list /\ q.next = p.next
  BY <1>1 DEF Pages
<1> HIDE DEF q
<1>4. Sound(used, q)
  BY <1>1, <1>3, FieldSound
<1> QED
  BY <1>1, <1>2, <1>3, <1>4 DEF Sound, p

LEMMA LeaveDoes ==
  ASSUME TypeOK, NEW b \in Browsers, Leave(b)
  PROVE  /\ \A c \in Browsers \ {b} : page'[c] = page[c]
         /\ Sound(used, page'[b]) /\ page[b].open = "yes" /\ page'[b].open = "left"
         /\ page'[b].map = <<>> /\ page'[b].pcs = {} /\ page'[b].tasks = page[b].tasks
         /\ page'[b].me = page[b].me /\ page'[b].list = page[b].list
<1> DEFINE p == Closed(page[b])
           q == [p EXCEPT !.open = "left"]
<1>1. /\ Sound(used, page[b]) /\ page[b].open = "yes" /\ page'[b] = q
      /\ \A c \in Browsers \ {b} : page'[c] = page[c]
  BY PageTyped, Updated DEF Leave
<1>2. Sound(used, p) /\ Kin(page[b], p) /\ p.pcs = {} /\ p.map = <<>> /\ p.tasks = page[b].tasks
  BY <1>1, ClosedSound
<1> HIDE DEF p
<1>3. /\ q \in Pages(used) /\ q.open = "left" /\ q.map = p.map /\ q.pcs = p.pcs /\ q.tasks = p.tasks
      /\ q.me = p.me /\ q.list = p.list /\ q.next = p.next
  BY <1>2 DEF Pages, Sound
<1> HIDE DEF q
<1>4. Sound(used, q)
  BY <1>2, <1>3, FieldSound
<1> QED
  BY <1>1, <1>2, <1>3, <1>4 DEF Kin

LEMMA PressDoes ==
  ASSUME TypeOK, NEW b \in Browsers, Press(b)
  PROVE  \E t \in Tasks(used) :
           LET p == page[b] q == page'[b] IN
           /\ \A c \in Browsers \ {b} : page'[c] = page[c]
           /\ Sound(used, q) /\ Kin(p, q) /\ p.open = "yes" /\ q.pcs = p.pcs /\ q.map = p.map
           /\ q.tasks = p.tasks \cup {t}
           /\ t.kind = "create" /\ t.peer \in p.list /\ t.sdp = 0
<1>1. PICK peer \in page[b].list : page[b].open = "yes" /\ Update(b, Awaiting(page[b], {peer}, 0))
  BY DEF Press
<1> DEFINE p == page[b]
           q == Awaiting(p, {peer}, 0)
<1>2. peer \in used /\ used \in SUBSET Ids /\ Sound(used, p) /\ p.open # "no"
  BY <1>1, PageTyped
<1>3. page'[b] = q /\ \A c \in Browsers \ {b} : page'[c] = page[c]
  BY <1>1, Updated
<1>4. AwaitsOne(used, p, q, peer, 0)
  BY <1>2, AwaitingOne
<1> QED
  BY <1>1, <1>3, <1>4 DEF AwaitsOne

LEMMA ReadyDoes ==
  ASSUME TypeOK, NEW b \in Browsers, Ready(b)
  PROVE  LET p == page[b] q == page'[b] IN
         /\ \A c \in Browsers \ {b} : page'[c] = page[c]
         /\ Sound(used, q) /\ q.open = p.open /\ q.me = p.me /\ q.list = p.list
         /\ q.pcs = p.pcs /\ q.map = p.map /\ q.tasks = p.tasks
<1> DEFINE p == page[b]
           q == [p EXCEPT !.ready = TRUE]
<1>1. /\ Sound(used, p) /\ p \in Pages(used) /\ page'[b] = q /\ p.open # "no"
      /\ \A c \in Browsers \ {b} : page'[c] = page[c]
  BY PageTyped, Updated DEF Ready
<1> HIDE DEF p
<1>2. /\ q \in Pages(used) /\ q.open = p.open /\ q.me = p.me /\ q.list = p.list
      /\ q.pcs = p.pcs /\ q.map = p.map /\ q.tasks = p.tasks /\ q.next = p.next
  BY <1>1 DEF Pages
<1> HIDE DEF q
<1> QED
  BY <1>1, <1>2, FieldSound DEF p

LEMMA InitDoes ==
  ASSUME TypeOK, NEW b \in Browsers, OnInit(b)
  PROVE  LET p == page[b] q == page'[b] IN
         /\ \A c \in Browsers \ {b} : page'[c] = page[c]
         /\ Sound(used, q) /\ q.open = "yes" /\ q.me = Head(down[b]).id /\ q.list = p.list
         /\ p.open = "yes" /\ q.pcs = p.pcs /\ q.map = p.map /\ q.tasks = p.tasks
<1> DEFINE p == page[b]
           id == Head(down[b]).id
           q == [p EXCEPT !.me = id]
<1>1. /\ Sound(used, p) /\ p \in Pages(used) /\ page'[b] = q /\ p.open = "yes"
      /\ \A c \in Browsers \ {b} : page'[c] = page[c]
  BY PageTyped, Updated DEF OnInit, Hears
<1>2. id \in used \cup {0}
  BY HeadTyped DEF OnInit, Hears, DownMessages, Messages
<1> HIDE DEF p, id
<1>3. /\ q \in Pages(used) /\ q.open = p.open /\ q.me = id /\ q.list = p.list
      /\ q.pcs = p.pcs /\ q.map = p.map /\ q.tasks = p.tasks /\ q.next = p.next
  BY <1>1, <1>2 DEF Pages
<1> HIDE DEF q
<1> QED
  BY <1>1, <1>3, FieldSound DEF p, id

LEMMA ClientsDoes ==
  ASSUME TypeOK, NEW b \in Browsers, OnClients(b)
  PROVE  LET p == page[b] q == page'[b] list == Head(down[b]).list made == Made(p, Call(p, list), 0) IN
         /\ \A c \in Browsers \ {b} : page'[c] = page[c]
         /\ Sound(used, q) /\ q.open = "yes" /\ q.me = p.me /\ q.list = list /\ p.open = "yes"
         /\ p.me = 0 => q.pcs = p.pcs /\ q.map = p.map /\ q.tasks = p.tasks
         /\ p.me # 0 => q.pcs = {} /\ q.map = <<>> /\ q.tasks = p.tasks \cup made
         /\ \A t \in made : /\ t \in Tasks(used) /\ t.kind = "create" /\ t.sdp = 0
                            /\ t.peer \in list /\ t.peer < p.me
         /\ \A t, u \in made : t.peer = u.peer => t = u
         /\ \A x \in Call(p, list) : \E t \in made : t.peer = x
<1> DEFINE p == page[b]
           list == Head(down[b]).list
           calls == Call(p, list)
           made == Made(p, calls, 0)
           q == page'[b]
           r == Awaiting(p, calls, 0)
           v == [r EXCEPT !.list = list]
           w == [p EXCEPT !.list = list]
<1>1. /\ Sound(used, p) /\ p \in Pages(used) /\ p.open = "yes" /\ used \in SUBSET Ids
      /\ q = IF p.me = 0 THEN w ELSE Closed(v)
      /\ \A c \in Browsers \ {b} : page'[c] = page[c]
  BY PageTyped, Updated DEF OnClients, Hears
<1>2. list \in SUBSET used
  BY HeadTyped DEF OnClients, Hears, DownMessages, Messages
<1>3. calls \in SUBSET used /\ \A x \in calls : x \in list /\ x < p.me
  <2>1. p.me \in Nat /\ used \subseteq Nat
    BY <1>1, FoundIds DEF Pages
  <2> QED
    BY <1>2, <2>1 DEF Call
<1> HIDE DEF p, list, calls, q
<1>4. /\ Sound(used, r) /\ Kin(p, r) /\ r.pcs = p.pcs /\ r.map = p.map /\ r.tasks = p.tasks \cup made
      /\ \A t \in made : t \in Tasks(used) /\ t.kind = "create" /\ t.peer \in calls /\ t.sdp = 0
      /\ \A t, u \in made : t.peer = u.peer => t = u
      /\ \A x \in calls : \E t \in made : t.peer = x
  <2>1. p.open # "no" /\ 0 \in Nat
    BY <1>1
  <2> QED
    BY <1>1, <1>3, <2>1, AwaitingSound
<1> HIDE DEF r, made
<1>5. /\ v \in Pages(used) /\ v.list = list /\ v.pcs = r.pcs /\ v.map = r.map /\ v.tasks = r.tasks
      /\ v.open = r.open /\ v.next = r.next /\ v.me = r.me
  BY <1>2, <1>4 DEF Sound, Pages
<1>6. /\ w \in Pages(used) /\ w.list = list /\ w.pcs = p.pcs /\ w.map = p.map /\ w.tasks = p.tasks
      /\ w.open = p.open /\ w.next = p.next /\ w.me = p.me
  BY <1>1, <1>2 DEF Pages
<1> HIDE DEF v, w
<1>7. Sound(used, v) /\ Sound(used, w)
  BY <1>1, <1>4, <1>5, <1>6, FieldSound DEF Kin
<1>8. CASE p.me = 0
  BY <1>1, <1>3, <1>4, <1>6, <1>7, <1>8 DEF p, q, list, calls, made
<1>9. CASE p.me # 0
  <2>1. /\ Sound(used, Closed(v)) /\ Kin(v, Closed(v)) /\ Closed(v).pcs = {} /\ Closed(v).map = <<>>
        /\ Closed(v).tasks = v.tasks
    BY <1>7, ClosedSound
  <2> QED
    BY <1>1, <1>3, <1>4, <1>5, <1>9, <2>1 DEF Kin, p, q, list, calls, made
<1> QED
  BY <1>8, <1>9

LEMMA OfferDoes ==
  ASSUME TypeOK, NEW b \in Browsers, OnOffer(b)
  PROVE  LET p == page[b] q == page'[b] m == Head(down[b]) IN
         /\ \A c \in Browsers \ {b} : page'[c] = page[c]
         /\ Sound(used, q) /\ Kin(p, q) /\ p.open = "yes" /\ q.pcs = p.pcs /\ q.map = p.map
         /\ m.type = "offer" /\ m.id \in used /\ m.sdp \in Nat \ {0}
         /\ m.id \in DOMAIN p.map => q.tasks = p.tasks \cup {Answer(p, m.id, m.sdp)}
         /\ m.id \notin DOMAIN p.map => \E t \in Tasks(used) :
               /\ t.kind = "create" /\ t.peer = m.id /\ t.sdp = m.sdp
               /\ q.tasks = p.tasks \cup {t}
<1> DEFINE p == page[b]
           m == Head(down[b])
           id == m.id
           sdp == m.sdp
           q == page'[b]
           r == Awaiting(p, {id}, sdp)
<1>1. /\ Sound(used, p) /\ p.open = "yes" /\ used \in SUBSET Ids
      /\ q = IF id \in DOMAIN p.map THEN Answering(p, p.map[id], id, sdp) ELSE r
      /\ \A c \in Browsers \ {b} : page'[c] = page[c]
  BY PageTyped, Updated DEF OnOffer, Hears
<1>2. m.type = "offer" /\ id \in used /\ sdp \in Nat /\ sdp # 0
  BY HeadTyped DEF OnOffer, Hears, DownMessages, Messages
<1>3. p.open # "no"
  BY <1>1
<1>4. CASE id \in DOMAIN p.map
  <2> HIDE DEF p, id, sdp, q
  <2>1. /\ Sound(used, q) /\ Kin(p, q) /\ q.pcs = p.pcs /\ q.map = p.map
        /\ q.tasks = p.tasks \cup {Answer(p, id, sdp)}
    BY <1>1, <1>2, <1>3, <1>4, AnsweringSound
  <2> QED
    BY <1>1, <1>2, <1>4, <2>1 DEF p, q, id, sdp
<1>5. CASE id \notin DOMAIN p.map
  <2>1. q = r
    BY <1>1, <1>5
  <2> HIDE DEF p, id, sdp, q
  <2>2. AwaitsOne(used, p, r, id, sdp)
    BY <1>1, <1>2, <1>3, AwaitingOne
  <2> HIDE DEF r
  <2> QED
    BY <1>1, <1>2, <1>5, <2>1, <2>2 DEF p, q, id, sdp, AwaitsOne
<1> QED
  BY <1>4, <1>5

LEMMA AnswerDoes ==
  ASSUME TypeOK, NEW b \in Browsers, OnAnswer(b)
  PROVE  LET p == page[b] q == page'[b] m == Head(down[b]) IN
         /\ m.type = "answer" /\ m.id \in used /\ p.open = "yes"
         /\ \A c \in Browsers \ {b} : page'[c] = page[c]
         /\ \/ q = p /\ \A c \in Found(p, m.id) : c.state # "offered"
            \/ \E c \in p.pcs :
                  /\ m.id \in DOMAIN p.map /\ c.n = p.map[m.id] /\ c.state = "offered"
                  /\ Sound(used, q) /\ Kin(p, q) /\ q.map = p.map /\ q.tasks = p.tasks
                  /\ [c EXCEPT !.state = "joined", !.with = m.sdp] \in Connections(used)
                  /\ q.pcs = (p.pcs \ {c}) \cup {[c EXCEPT !.state = "joined", !.with = m.sdp]}
<1> DEFINE p == page[b]
           m == Head(down[b])
           q == page'[b]
<1>1. m.type = "answer" /\ m.id \in used /\ m.sdp \in Nat /\ p.open = "yes"
  BY HeadTyped DEF OnAnswer, Hears, DownMessages, Messages
<1>2. CASE UNCHANGED page /\ \A c \in Found(p, m.id) : c.state # "offered"
  BY <1>1, <1>2
<1>3. CASE \E c \in Found(p, m.id) : c.state = "offered" /\
                Update(b, With(p, [c EXCEPT !.state = "joined", !.with = m.sdp]))
  <2>1. PICK c \in p.pcs : /\ m.id \in DOMAIN p.map /\ c.n = p.map[m.id] /\ c.state = "offered"
                           /\ Update(b, With(p, [c EXCEPT !.state = "joined", !.with = m.sdp]))
    BY <1>3 DEF Found
  <2> DEFINE d == [c EXCEPT !.state = "joined", !.with = m.sdp]
  <2>2. Sound(used, p) /\ c \in Connections(used)
    BY PageTyped
  <2>3. d \in Connections(used) /\ d.n = c.n /\ d.peer = c.peer
    BY <1>1, <2>2 DEF Connections
  <2>4. q = With(p, d) /\ \A x \in Browsers \ {b} : page'[x] = page[x]
    BY <2>1, Updated
  <2> HIDE DEF d, p, q
  <2>5. /\ Sound(used, q) /\ Kin(p, q) /\ q.map = p.map /\ q.tasks = p.tasks
        /\ q.pcs = (p.pcs \ {c}) \cup {d}
    BY <2>2, <2>3, <2>4, ChangedSound
  <2> QED
    BY <1>1, <2>1, <2>3, <2>4, <2>5 DEF d, p, q
<1>4. \/ UNCHANGED page /\ \A c \in Found(p, m.id) : c.state # "offered"
      \/ \E c \in Found(p, m.id) : c.state = "offered" /\
                Update(b, With(p, [c EXCEPT !.state = "joined", !.with = m.sdp]))
  BY DEF OnAnswer
<1> QED
  BY <1>2, <1>3, <1>4

\* A connection is made for a task, unless there is one for the peer by then.
LEMMA CreatedDoes ==
  ASSUME TypeOK, NEW b \in Browsers, NEW t \in page[b].tasks, Created(b, t)
  PROVE  LET p == page[b] q == page'[b] IN
         /\ \A c \in Browsers \ {b} : page'[c] = page[c]
         /\ Sound(used, q) /\ Kin(p, q) /\ t \in Tasks(used) /\ t.kind = "create"
         /\ \A u \in p.tasks \ {t} : u.n # t.n
         /\ \A c \in p.pcs : c.n # t.n
         /\ DOMAIN q.map = DOMAIN p.map \cup {t.peer} /\ \A x \in DOMAIN p.map : q.map[x] = p.map[x]
         /\ t.peer \in DOMAIN p.map => q.pcs = p.pcs
         /\ t.peer \notin DOMAIN p.map =>
               /\ q.pcs = p.pcs \cup {NewConnection(t.n, t.peer)} /\ q.map[t.peer] = t.n
               /\ NewConnection(t.n, t.peer) \in Connections(used)
         /\ t.sdp # 0 => \E u \in Tasks(used) :
               /\ u.kind = "answer" /\ u.n = q.map[t.peer] /\ u.peer = t.peer /\ u.sdp = t.sdp
               /\ q.tasks = (p.tasks \ {t}) \cup {u}
         /\ t.sdp = 0 /\ t.peer \in DOMAIN p.map => q.tasks = p.tasks \ {t}
         /\ t.sdp = 0 /\ t.peer \notin DOMAIN p.map => \E u \in Tasks(used) :
               /\ u.kind = "offer" /\ u.n = t.n /\ u.peer = t.peer /\ u.sdp = 0
               /\ q.tasks = (p.tasks \ {t}) \cup {u}
<1> DEFINE p == page[b]
           q == page'[b]
           d == Done(b, t)
           e == Plugged(p, t)
           o == Offering(p, t)
<1>1. Sound(used, p) /\ t \in Tasks(used) /\ t \in p.tasks /\ t.kind = "create" /\ p \in Pages(used)
  BY PageTyped DEF Created, Awaited
<1>2. /\ p.open # "no" /\ \A u \in p.tasks \ {t} : u.n # t.n
      /\ \A c \in p.pcs : c.n # t.n
  BY <1>1 DEF Sound, Numbered
<1>3. t.sdp \in Nat /\ t.n \in Nat \ {0} /\ t.peer \in used
  BY <1>1 DEF Tasks
<1> HIDE DEF p
<1>4. d = [p EXCEPT !.tasks = @ \ {t}]
  BY DEF Done, p
<1>5. Sound(used, d) /\ Kin(p, d) /\ d.pcs = p.pcs /\ d.map = p.map /\ d.tasks = p.tasks \ {t}
  <2>1. /\ d \in Pages(used) /\ d.pcs = p.pcs /\ d.map = p.map /\ d.next = p.next
        /\ d.tasks = p.tasks \ {t} /\ Kin(p, d)
    BY <1>1, <1>4 DEF Pages, Kin
  <2> HIDE DEF d
  <2> QED
    BY <1>1, <1>2, <2>1, FieldSound DEF Kin
<1>6. /\ t.peer \in DOMAIN p.map /\ t.sdp # 0 => q = Answering(d, d.map[t.peer], t.peer, t.sdp)
      /\ t.peer \in DOMAIN p.map /\ t.sdp = 0 => q = d
      /\ t.peer \notin DOMAIN p.map /\ t.sdp # 0 => q = Answering(e, t.n, t.peer, t.sdp)
      /\ t.peer \notin DOMAIN p.map /\ t.sdp = 0 => q = o
      /\ \A c \in Browsers \ {b} : page'[c] = page[c]
  <2> DEFINE has == t.peer \in DOMAIN d.map
             n == IF has THEN d.map[t.peer] ELSE t.n
             x == IF has THEN d
                  ELSE [With(d, NewConnection(n, t.peer)) EXCEPT !.map =
                           [y \in DOMAIN @ \cup {t.peer} |-> IF y = t.peer THEN n ELSE @[y]]]
             z == IF t.sdp # 0 THEN Answering(x, n, t.peer, t.sdp)
                  ELSE IF has THEN x
                  ELSE [x EXCEPT !.tasks = @ \cup {[t EXCEPT !.kind = "offer"]}]
  <2>1. Update(b, z)
    BY DEF Created
  <2>2. q = z /\ \A c \in Browsers \ {b} : page'[c] = page[c]
    BY <2>1, Updated
  <2>3. ~has => x = e
    BY <1>4 DEF Plugged
  <2>4. ~has => o = [e EXCEPT !.tasks = @ \cup {[t EXCEPT !.kind = "offer"]}]
    BY DEF Offering
  <2>5. has <=> t.peer \in DOMAIN p.map
    BY <1>5
  <2> HIDE DEF d, e, o, q
  <2> QED
    BY <2>2, <2>3, <2>4, <2>5
<1> HIDE DEF d, q
<1>7. CASE t.peer \in DOMAIN p.map /\ t.sdp # 0
  <2> DEFINE u == Answer(d, t.peer, t.sdp)
  <2>1. /\ Sound(used, q) /\ Kin(d, q) /\ q.pcs = d.pcs /\ q.map = d.map /\ q.tasks = d.tasks \cup {u}
        /\ u \in Tasks(used)
    BY <1>2, <1>3, <1>5, <1>6, <1>7, AnsweringSound DEF Kin
  <2>2. u.kind = "answer" /\ u.n = q.map[t.peer] /\ u.peer = t.peer /\ u.sdp = t.sdp
    BY <2>1 DEF Answer
  <2> HIDE DEF u
  <2> QED
    BY <1>1, <1>2, <1>5, <1>6, <1>7, <2>1, <2>2 DEF Kin, p, q
<1>8. CASE t.peer \in DOMAIN p.map /\ t.sdp = 0
  BY <1>1, <1>2, <1>5, <1>6, <1>8 DEF Kin, p, q
<1>9. CASE t.peer \notin DOMAIN p.map
  <2>1. /\ Sound(used, e) /\ Kin(p, e) /\ NewConnection(t.n, t.peer) \in Connections(used)
        /\ e.tasks = p.tasks \ {t} /\ e.pcs = p.pcs \cup {NewConnection(t.n, t.peer)}
        /\ DOMAIN e.map = DOMAIN p.map \cup {t.peer} /\ e.map[t.peer] = t.n
        /\ \A x \in DOMAIN p.map : e.map[x] = p.map[x]
    BY <1>1, <1>9, PluggedSound
  <2> HIDE DEF e
  <2>2. CASE t.sdp # 0
    <3> DEFINE u == Answer(e, t.peer, t.sdp)
    <3>1. /\ Sound(used, q) /\ Kin(e, q) /\ q.pcs = e.pcs /\ q.map = e.map /\ q.tasks = e.tasks \cup {u}
          /\ u \in Tasks(used)
      BY <1>2, <1>3, <1>6, <1>9, <2>1, <2>2, AnsweringSound DEF Kin
    <3>2. u.kind = "answer" /\ u.n = q.map[t.peer] /\ u.peer = t.peer /\ u.sdp = t.sdp
      BY <3>1 DEF Answer
    <3> HIDE DEF u
    <3> QED
      BY <1>1, <1>2, <1>6, <1>9, <2>1, <2>2, <3>1, <3>2 DEF Kin, p, q
  <2>3. CASE t.sdp = 0
    <3> DEFINE u == [t EXCEPT !.kind = "offer"]
    <3>1. /\ Sound(used, o) /\ Kin(p, o) /\ u \in Tasks(used)
          /\ o.tasks = (p.tasks \ {t}) \cup {u} /\ o.pcs = e.pcs /\ o.map = e.map
      BY <1>1, <1>9, OfferingSound DEF e
    <3>2. u.kind = "offer" /\ u.n = t.n /\ u.peer = t.peer /\ u.sdp = 0
      BY <1>1, <2>3 DEF Tasks
    <3> HIDE DEF u, o
    <3> QED
      BY <1>1, <1>2, <1>6, <1>9, <2>1, <2>3, <3>1, <3>2 DEF p, q
  <2> QED
    BY <2>2, <2>3
<1> QED
  BY <1>7, <1>8, <1>9

\* A description is sent, unless the connection was closed meanwhile.
LEMMA DescribedDoes ==
  ASSUME TypeOK, NEW b \in Browsers, NEW t \in page[b].tasks, NEW state \in {"offered", "accepted"}, NEW m,
         Described(b, t, state, m)
  PROVE  LET p == page[b] q == page'[b] IN
         /\ \A c \in Browsers \ {b} : page'[c] = page[c]
         /\ Sound(used, q) /\ Kin(p, q) /\ q.map = p.map /\ q.tasks = p.tasks \ {t} /\ t \in Tasks(used)
         /\ \/ q.pcs = p.pcs /\ UNCHANGED up /\ \A c \in p.pcs : c.n # t.n
            \/ \E c \in p.pcs :
                  /\ c.n = t.n /\ c.peer = t.peer
                  /\ [c EXCEPT !.state = state, !.with = t.sdp] \in Connections(used)
                  /\ q.pcs = (p.pcs \ {c}) \cup {[c EXCEPT !.state = state, !.with = t.sdp]}
                  /\ Emit(b, [m EXCEPT !.id = t.peer, !.sdp = t.n])
<1> DEFINE p == page[b]
           q == page'[b]
           d == Done(b, t)
<1>1. Sound(used, p) /\ t \in Tasks(used) /\ p \in Pages(used)
  BY PageTyped
<1>2. p.open # "no" /\ t.sdp \in Nat
  BY <1>1 DEF Sound, Tasks
<1> HIDE DEF p
<1>3. Sound(used, d) /\ Kin(p, d) /\ d.pcs = p.pcs /\ d.map = p.map /\ d.tasks = p.tasks \ {t}
  <2>1. /\ d \in Pages(used) /\ d.pcs = p.pcs /\ d.map = p.map /\ d.next = p.next
        /\ d.tasks = p.tasks \ {t} /\ Kin(p, d)
    BY <1>1 DEF Pages, Kin, Done, p
  <2> HIDE DEF d
  <2> QED
    BY <1>1, <1>2, <2>1, FieldSound DEF Kin
<1>4. CASE (\A c \in p.pcs : c.n # t.n) /\ Update(b, d) /\ UNCHANGED up
  <2>1. q = d /\ \A c \in Browsers \ {b} : page'[c] = page[c]
    BY <1>4, Updated
  <2> HIDE DEF d
  <2> QED
    BY <1>1, <1>3, <1>4, <2>1 DEF p
<1>5. ASSUME NEW c \in p.pcs, c.n = t.n, Emit(b, [m EXCEPT !.id = t.peer, !.sdp = t.n]),
             Update(b, With(d, [c EXCEPT !.state = state, !.with = t.sdp]))
      PROVE  /\ \A x \in Browsers \ {b} : page'[x] = page[x]
             /\ Sound(used, q) /\ Kin(p, q) /\ q.map = p.map /\ q.tasks = p.tasks \ {t}
             /\ c.peer = t.peer
             /\ [c EXCEPT !.state = state, !.with = t.sdp] \in Connections(used)
             /\ q.pcs = (p.pcs \ {c}) \cup {[c EXCEPT !.state = state, !.with = t.sdp]}
  <2> DEFINE e == [c EXCEPT !.state = state, !.with = t.sdp]
  <2>1. c \in Connections(used) /\ c.peer = t.peer
    BY <1>1, <1>5 DEF Pages, Sound, Numbered, p
  <2>2. e \in Connections(used) /\ e.n = c.n /\ e.peer = c.peer
    BY <1>2, <2>1 DEF Connections
  <2>3. q = With(d, e) /\ \A x \in Browsers \ {b} : page'[x] = page[x]
    BY <1>5, Updated
  <2> HIDE DEF d, e, q
  <2>4. /\ Sound(used, q) /\ Kin(d, q) /\ q.pcs = (d.pcs \ {c}) \cup {e} /\ q.map = d.map /\ q.tasks = d.tasks
    BY <1>3, <2>2, <2>3, ChangedSound
  <2> QED
    BY <1>3, <2>1, <2>2, <2>3, <2>4 DEF Kin, e
<1>6. \/ (\A c \in p.pcs : c.n # t.n) /\ Update(b, d) /\ UNCHANGED up
      \/ \E c \in p.pcs : /\ c.n = t.n /\ Emit(b, [m EXCEPT !.id = t.peer, !.sdp = t.n])
                          /\ Update(b, With(d, [c EXCEPT !.state = state, !.with = t.sdp]))
  BY DEF Described, p
<1> QED
  BY <1>1, <1>4, <1>5, <1>6 DEF p

-----------------------------------------------------------------------------
(* Types are kept *)

LEMMA MessagesTyped ==
  ASSUME NEW U, NEW id \in U \cup {0}, NEW ids \in SUBSET U
  PROVE  /\ Init_(id) \in DownMessages(U) /\ Init_(id).type = "init" /\ Init_(id).id = id
         /\ List_(ids) \in DownMessages(U) /\ List_(ids).type = "clients" /\ List_(ids).list = ids
         /\ Message("whoami", 0) \in UpMessages(U) /\ Message("whoami", 0).type = "whoami"
BY DEF Init_, List_, Message, Messages, UpMessages, DownMessages

LEMMA RelayedTyped ==
  ASSUME NEW U, NEW m \in UpMessages(U), m.type # "whoami", NEW id \in U
  PROVE  /\ [m EXCEPT !.id = id] \in DownMessages(U) /\ [m EXCEPT !.id = id].type = m.type
         /\ [m EXCEPT !.id = id].id = id /\ [m EXCEPT !.id = id].sdp = m.sdp
         /\ [m EXCEPT !.id = id].to = m.to
BY DEF Messages, UpMessages, DownMessages

LEMMA EmittedTyped ==
  ASSUME NEW U, NEW t \in Tasks(U), NEW to \in Nat
  PROVE  LET f == [Message("offer", 0) EXCEPT !.id = t.peer, !.sdp = t.n]
             a == [[Message("answer", 0) EXCEPT !.to = to] EXCEPT !.id = t.peer, !.sdp = t.n] IN
         /\ f \in UpMessages(U) /\ f.type = "offer" /\ f.id = t.peer /\ f.sdp = t.n
         /\ a \in UpMessages(U) /\ a.type = "answer" /\ a.id = t.peer /\ a.sdp = t.n /\ a.to = to
<1>1. t.peer \in U /\ t.n \in Nat /\ t.n # 0
  BY DEF Tasks
<1> QED
  BY <1>1 DEF Message, Messages, UpMessages

LEMMA BroadcastTyped ==
  ASSUME NEW U, NEW ids \in SUBSET U, NEW sockets \in [Browsers -> U \cup {0}], NEW new,
         down \in [Browsers -> Seq(DownMessages(U))], Broadcast(ids, sockets, new)
  PROVE  down' \in [Browsers -> Seq(DownMessages(U))]
<1>1. List_(ids) \in DownMessages(U)
  BY MessagesTyped
<1>2. ASSUME NEW b \in Browsers
      PROVE  (IF b = new THEN <<Init_(sockets[b]), List_(ids)>>
              ELSE IF sockets[b] # 0 THEN Append(down[b], List_(ids)) ELSE down[b])
             \in Seq(DownMessages(U))
  <2>1. Init_(sockets[b]) \in DownMessages(U)
    BY MessagesTyped
  <2>2. down[b] \in Seq(DownMessages(U))
    OBVIOUS
  <2>3. <<Init_(sockets[b]), List_(ids)>> \in Seq(DownMessages(U))
    BY <1>1, <2>1
  <2>4. Append(down[b], List_(ids)) \in Seq(DownMessages(U))
    BY <1>1, <2>2
  <2> QED
    BY <2>2, <2>3, <2>4
<1> QED
  BY <1>2 DEF Broadcast

LEMMA NetKept ==
  ASSUME TypeOK, UNCHANGED net,
         page' \in [Browsers -> Pages(used)], \A b \in Browsers : Sound(used, page'[b]),
         up' \in [Browsers -> Seq(UpMessages(used))], down' \in [Browsers -> Seq(DownMessages(used))]
  PROVE  TypeOK'
<1>1. used' = used /\ clients' = clients /\ conn' = conn
  BY DEF net
<1> QED
  BY <1>1 DEF TypeOK

LEMMA PagesTyped ==
  ASSUME TypeOK, NEW b \in Browsers, NEW q, Update(b, q), Sound(used, page'[b])
  PROVE  page' \in [Browsers -> Pages(used)] /\ \A c \in Browsers : Sound(used, page'[c])
<1>1. page' = [page EXCEPT ![b] = q] /\ page'[b] = q /\ \A c \in Browsers \ {b} : page'[c] = page[c]
  BY Updated DEF Update
<1>2. q \in Pages(used)
  BY <1>1 DEF Sound
<1> QED
  BY <1>1, <1>2 DEF TypeOK

LEMMA TailTyped ==
  ASSUME TypeOK, NEW b \in Browsers
  PROVE  /\ down[b] # <<>> => [down EXCEPT ![b] = Tail(@)] \in [Browsers -> Seq(DownMessages(used))]
         /\ up[b] # <<>> => [up EXCEPT ![b] = Tail(@)] \in [Browsers -> Seq(UpMessages(used))]
<1>1. down[b] \in Seq(DownMessages(used)) /\ up[b] \in Seq(UpMessages(used))
  BY DEF TypeOK
<1>2. down[b] # <<>> => Tail(down[b]) \in Seq(DownMessages(used))
  BY <1>1
<1>3. up[b] # <<>> => Tail(up[b]) \in Seq(UpMessages(used))
  BY <1>1
<1> QED
  BY <1>2, <1>3 DEF TypeOK

LEMMA EmitTyped ==
  ASSUME TypeOK, NEW b \in Browsers, NEW m \in UpMessages(used), Emit(b, m)
  PROVE  /\ up' \in [Browsers -> Seq(UpMessages(used))]
         /\ up'[b] = Append(up[b], m) /\ \A c \in Browsers \ {b} : up'[c] = up[c]
<1>1. up[b] \in Seq(UpMessages(used))
  BY DEF TypeOK
<1>2. Append(up[b], m) \in Seq(UpMessages(used))
  BY <1>1
<1> QED
  BY <1>2 DEF TypeOK, Emit

LEMMA TypeInit == Init => TypeOK
<1> SUFFICES ASSUME Init PROVE TypeOK
  OBVIOUS
<1>1. conn \in [Browsers -> Ids] /\ \A b, c \in Browsers : conn[b] = conn[c] => b = c
  BY DEF Init, IsInjective
<1>2. \A b \in Browsers : conn[b] \in used
  BY <1>1 DEF Init, Range
<1>3. used \subseteq Ids /\ clients \subseteq used /\ conn \in [Browsers -> used \cup {0}]
  BY <1>1, <1>2 DEF Init, Range
<1>4. NewPage \in Pages(used)
  BY MapEmpty DEF NewPage, Pages
<1>5. Sound(used, NewPage)
  BY <1>4, MapEmpty DEF Sound, NewPage, Filed, Numbered
<1>6. page \in [Browsers -> Pages(used)] /\ \A b \in Browsers : page[b] = NewPage
  BY <1>4 DEF Init
<1>7. up \in [Browsers -> Seq(UpMessages(used))] /\ down \in [Browsers -> Seq(DownMessages(used))]
  BY DEF Init
<1> QED
  BY <1>1, <1>3, <1>5, <1>6, <1>7 DEF TypeOK

-----------------------------------------------------------------------------
(* What the steps of the server do *)

LEMMA ConnectDoes ==
  ASSUME TypeOK, NEW b \in Browsers, Connect(b)
  PROVE  \E id \in Ids \ used :
           /\ conn[b] = 0 /\ conn'[b] = id /\ \A c \in Browsers \ {b} : conn'[c] = conn[c]
           /\ used' = used \cup {id} /\ clients' = clients \cup {id} /\ clients' \subseteq used'
           /\ conn' \in [Browsers -> used' \cup {0}]
           /\ down'[b] = <<Init_(id), List_(clients')>>
           /\ \A c \in Browsers \ {b} :
                 down'[c] = IF conn[c] # 0 THEN Append(down[c], List_(clients')) ELSE down[c]
           /\ UNCHANGED <<page, up, turns>>
<1>1. PICK id \in Ids \ used :
         /\ conn[b] = 0 /\ used' = used \cup {id} /\ clients' = clients \cup {id}
         /\ conn' = [conn EXCEPT ![b] = id] /\ Broadcast(clients', conn', b)
         /\ UNCHANGED <<page, up, turns>>
  BY DEF Connect
<1>2. conn' \in [Browsers -> used' \cup {0}] /\ conn'[b] = id /\ \A c \in Browsers \ {b} : conn'[c] = conn[c]
  BY <1>1 DEF TypeOK
<1>3. /\ down'[b] = <<Init_(conn'[b]), List_(clients')>>
      /\ \A c \in Browsers \ {b} :
            down'[c] = IF conn'[c] # 0 THEN Append(down[c], List_(clients')) ELSE down[c]
  BY <1>1 DEF Broadcast
<1>4. clients' \subseteq used'
  BY <1>1 DEF TypeOK
<1> QED
  BY <1>1, <1>2, <1>3, <1>4

LEMMA LongerStreams ==
  ASSUME NEW S, NEW T, S \subseteq T, NEW f \in [Browsers -> Seq(S)]
  PROVE  f \in [Browsers -> Seq(T)]
<1>1. \A s \in Seq(S) : s \in Seq(T)
  OBVIOUS
<1> QED
  BY <1>1

LEMMA ConnectTyped == \A b \in Browsers : TypeOK /\ Connect(b) => TypeOK'
<1> SUFFICES ASSUME TypeOK, NEW b \in Browsers, Connect(b) PROVE TypeOK'
  OBVIOUS
<1>1. PICK id \in Ids \ used :
         /\ conn'[b] = id /\ \A c \in Browsers \ {b} : conn'[c] = conn[c]
         /\ used' = used \cup {id} /\ clients' \subseteq used' /\ conn' \in [Browsers -> used' \cup {0}]
         /\ UNCHANGED <<page, up>>
  BY ConnectDoes
<1>2. used' \subseteq Ids
  BY <1>1 DEF TypeOK
<1>3. \A x, y \in Browsers : conn'[x] = conn'[y] /\ conn'[x] # 0 => x = y
  <2>1. \A x \in Browsers : conn[x] # id
    BY <1>1, FoundIds DEF TypeOK
  <2> QED
    BY <1>1, <2>1 DEF TypeOK
<1>4. /\ Pages(used) \subseteq Pages(used') /\ UpMessages(used) \subseteq UpMessages(used')
      /\ DownMessages(used) \subseteq DownMessages(used') /\ \A p : Sound(used, p) => Sound(used', p)
  BY <1>1, Grows
<1>5. page' \in [Browsers -> Pages(used')] /\ \A c \in Browsers : Sound(used', page'[c])
  BY <1>1, <1>4 DEF TypeOK
<1>6. up' \in [Browsers -> Seq(UpMessages(used'))] /\ down \in [Browsers -> Seq(DownMessages(used'))]
  <2>1. up \in [Browsers -> Seq(UpMessages(used))] /\ down \in [Browsers -> Seq(DownMessages(used))]
    BY DEF TypeOK
  <2>2. up \in [Browsers -> Seq(UpMessages(used'))]
    BY <1>4, <2>1, LongerStreams
  <2>3. down \in [Browsers -> Seq(DownMessages(used'))]
    BY <1>4, <2>1, LongerStreams
  <2> QED
    BY <1>1, <2>2, <2>3
<1>7. down' \in [Browsers -> Seq(DownMessages(used'))]
  BY <1>1, <1>6, BroadcastTyped DEF Connect
<1> QED
  BY <1>1, <1>2, <1>3, <1>5, <1>6, <1>7 DEF TypeOK

LEMMA DropDoes ==
  ASSUME TypeOK, NEW b \in Browsers, Drop(b)
  PROVE  /\ conn[b] # 0 /\ conn'[b] = 0 /\ \A c \in Browsers \ {b} : conn'[c] = conn[c]
         /\ up'[b] = <<>> /\ down'[b] = <<>>
         /\ \A c \in Browsers \ {b} : up'[c] = up[c] /\ down'[c] = down[c] /\ page'[c] = page[c]
         /\ Sound(used, page'[b]) /\ Kin(page[b], page'[b]) /\ page'[b].tasks = page[b].tasks
         /\ page[b].open = "yes" => page'[b].pcs = {} /\ page'[b].map = <<>>
         /\ page[b].open # "yes" => page'[b] = page[b]
         /\ UNCHANGED <<clients, used>>
<1> DEFINE p == page[b]
<1>1. page'[b] = (IF p.open = "yes" THEN Closed(p) ELSE p) /\ \A c \in Browsers \ {b} : page'[c] = page[c]
  BY Updated DEF Drop
<1>2. Sound(used, p)
  BY PageTyped
<1>3. /\ Sound(used, Closed(p)) /\ Kin(p, Closed(p)) /\ Closed(p).pcs = {} /\ Closed(p).map = <<>>
      /\ Closed(p).tasks = p.tasks
  BY <1>2, ClosedSound
<1>4. /\ conn[b] # 0 /\ conn'[b] = 0 /\ \A c \in Browsers \ {b} : conn'[c] = conn[c]
      /\ up'[b] = <<>> /\ down'[b] = <<>>
      /\ \A c \in Browsers \ {b} : up'[c] = up[c] /\ down'[c] = down[c]
      /\ UNCHANGED <<clients, used>>
  BY DEF Drop, TypeOK
<1>5. CASE p.open = "yes"
  BY <1>1, <1>3, <1>4, <1>5
<1>6. CASE p.open # "yes"
  BY <1>1, <1>2, <1>4, <1>6 DEF Kin
<1> QED
  BY <1>5, <1>6

LEMMA DropTyped == \A b \in Browsers : TypeOK /\ Drop(b) => TypeOK'
<1> SUFFICES ASSUME TypeOK, NEW b \in Browsers, Drop(b) PROVE TypeOK'
  OBVIOUS
<1>1. PICK q : Update(b, q)
  BY DEF Drop
<1>2. /\ Sound(used, page'[b]) /\ conn'[b] = 0 /\ \A c \in Browsers \ {b} : conn'[c] = conn[c]
      /\ UNCHANGED <<clients, used>>
  BY DropDoes
<1>3. page' \in [Browsers -> Pages(used)] /\ \A c \in Browsers : Sound(used, page'[c])
  BY <1>1, <1>2, PagesTyped
<1>4. conn' \in [Browsers -> used \cup {0}]
  BY DEF Drop, TypeOK
<1>5. \A x, y \in Browsers : conn'[x] = conn'[y] /\ conn'[x] # 0 => x = y
  BY <1>2 DEF TypeOK
<1>6. up' \in [Browsers -> Seq(UpMessages(used))] /\ down' \in [Browsers -> Seq(DownMessages(used))]
  BY DEF Drop, TypeOK
<1> QED
  BY <1>2, <1>3, <1>4, <1>5, <1>6 DEF TypeOK

LEMMA NoticeDoes ==
  ASSUME TypeOK, Notice
  PROVE  \E id \in clients :
           /\ clients' = clients \ {id} /\ \A b \in Browsers : conn[b] # id
           /\ \A c \in Browsers :
                 down'[c] = IF conn[c] # 0 THEN Append(down[c], List_(clients')) ELSE down[c]
           /\ UNCHANGED <<conn, used, page, up, turns>>
<1>1. PICK id \in clients \ Range(conn) :
         /\ clients' = clients \ {id} /\ Broadcast(clients', conn, 0)
         /\ UNCHANGED <<conn, used, page, up, turns>>
  BY DEF Notice
<1>2. \A b \in Browsers : conn[b] # id /\ b # 0
  BY <1>1, RadioAssumption DEF TypeOK, Range
<1>3. \A c \in Browsers : down'[c] = IF conn[c] # 0 THEN Append(down[c], List_(clients')) ELSE down[c]
  BY <1>1, <1>2 DEF Broadcast
<1> QED
  BY <1>1, <1>2, <1>3

LEMMA NoticeTyped == TypeOK /\ Notice => TypeOK'
<1> SUFFICES ASSUME TypeOK, Notice PROVE TypeOK'
  OBVIOUS
<1>1. clients' \subseteq used /\ Broadcast(clients', conn, 0) /\ UNCHANGED <<conn, used, page, up>>
  BY DEF Notice, TypeOK
<1>2. down' \in [Browsers -> Seq(DownMessages(used))]
  BY <1>1, BroadcastTyped DEF TypeOK
<1> QED
  BY <1>1, <1>2 DEF TypeOK

\* The id and the list, or the message to the socket of its target.
LEMMA ServeDoes ==
  ASSUME TypeOK, NEW b \in Browsers, Serve(b)
  PROVE  LET m == Head(up[b]) IN
         /\ conn[b] # 0 /\ up[b] # <<>> /\ m \in UpMessages(used) /\ m = up[b][1]
         /\ up'[b] = Tail(up[b]) /\ \A c \in Browsers \ {b} : up'[c] = up[c]
         /\ m.type = "whoami" =>
               /\ down'[b] = down[b] \o <<Init_(conn[b]), List_(clients)>>
               /\ \A c \in Browsers \ {b} : down'[c] = down[c]
         /\ m.type # "whoami" =>
               /\ m.id # 0 /\ [m EXCEPT !.id = conn[b]] \in DownMessages(used)
               /\ \A c \in Browsers : down'[c] =
                     IF conn[c] = m.id THEN Append(down[c], [m EXCEPT !.id = conn[b]]) ELSE down[c]
         /\ UNCHANGED <<net, page, turns>>
<1> DEFINE m == Head(up[b])
<1>1. up[b] \in Seq(UpMessages(used)) /\ up[b] # <<>> /\ conn[b] \in used
  BY DEF Serve, TypeOK
<1>2. m \in UpMessages(used) /\ m = up[b][1]
  BY <1>1
<1>3. up'[b] = Tail(up[b]) /\ \A c \in Browsers \ {b} : up'[c] = up[c]
  BY DEF Serve, TypeOK
<1>4. CASE m.type = "whoami"
  BY <1>1, <1>2, <1>3, <1>4 DEF Serve, Whoami, TypeOK
<1>5. CASE m.type # "whoami"
  <2>1. Relay(b, m) /\ conn[b] # 0 /\ UNCHANGED <<net, page, turns>>
    BY <1>5 DEF Serve
  <2>2. m.id \in used /\ m.id # 0
    BY <1>2, <1>5, FoundIds DEF UpMessages, Messages, TypeOK
  <2>3. [m EXCEPT !.id = conn[b]] \in DownMessages(used)
    BY <1>1, <1>2, <1>5, RelayedTyped
  <2>4. \A c \in Browsers : down'[c] =
           IF conn[c] = m.id THEN Append(down[c], [m EXCEPT !.id = conn[b]]) ELSE down[c]
    BY <2>1 DEF Relay
  <2> HIDE DEF m
  <2> QED
    BY <1>1, <1>2, <1>3, <1>5, <2>1, <2>2, <2>3, <2>4 DEF m
<1> QED
  BY <1>4, <1>5

LEMMA ServeTyped == \A b \in Browsers : TypeOK /\ Serve(b) => TypeOK'
<1> SUFFICES ASSUME TypeOK, NEW b \in Browsers, Serve(b) PROVE TypeOK'
  OBVIOUS
<1> DEFINE m == Head(up[b])
           r == [m EXCEPT !.id = conn[b]]
           D == DownMessages(used)
<1>1. UNCHANGED <<net, page>> /\ up' = [up EXCEPT ![b] = Tail(@)] /\ up[b] # <<>>
  BY DEF Serve
<1>2. up' \in [Browsers -> Seq(UpMessages(used))]
  BY <1>1, TailTyped
<1>3. down \in [Browsers -> Seq(D)] /\ conn[b] \in used \cup {0} /\ clients \subseteq used
  BY DEF TypeOK
<1>4. CASE m.type = "whoami"
  <2>1. Init_(conn[b]) \in D /\ List_(clients) \in D
    BY <1>3, MessagesTyped
  <2> HIDE DEF D
  <2>2. down[b] \o <<Init_(conn[b]), List_(clients)>> \in Seq(D)
    BY <1>3, <2>1
  <2>3. down' = [down EXCEPT ![b] = down[b] \o <<Init_(conn[b]), List_(clients)>>]
    BY <1>4 DEF Serve, Whoami
  <2>4. down' \in [Browsers -> Seq(D)]
    BY <1>3, <2>2, <2>3
  <2> QED
    BY <1>1, <1>2, <2>4, NetKept DEF TypeOK, D
<1>5. CASE m.type # "whoami"
  <2>1. r \in D /\ Relay(b, m)
    BY <1>5, ServeDoes DEF Serve
  <2> HIDE DEF D, r
  <2>2. \A c \in Browsers : Append(down[c], r) \in Seq(D)
    BY <1>3, <2>1
  <2>3. down' = [c \in Browsers |-> IF conn[c] = m.id THEN Append(down[c], r) ELSE down[c]]
    BY <2>1 DEF Relay, r
  <2> HIDE DEF m
  <2>4. down' \in [Browsers -> Seq(D)]
    BY <1>3, <2>2, <2>3
  <2> QED
    BY <1>1, <1>2, <2>4, NetKept DEF TypeOK, D
<1> QED
  BY <1>4, <1>5

\* What the page does leaves the ids alone.
LEMMA PageTypedKept ==
  ASSUME TypeOK, NEW b \in Browsers, NEW q, Update(b, q), Sound(used, page'[b]), UNCHANGED net,
         up' \in [Browsers -> Seq(UpMessages(used))], down' \in [Browsers -> Seq(DownMessages(used))]
  PROVE  TypeOK'
BY PagesTyped, NetKept

\* What a page hears is gone from its stream.
LEMMA HearsDoes ==
  ASSUME TypeOK, NEW b \in Browsers, NEW type, Hears(b, type)
  PROVE  /\ page[b].open = "yes" /\ down[b] # <<>> /\ Head(down[b]).type = type
         /\ down'[b] = Tail(down[b]) /\ \A c \in Browsers \ {b} : down'[c] = down[c]
         /\ down' \in [Browsers -> Seq(DownMessages(used))]
         /\ UNCHANGED <<net, up, turns>>
BY TailTyped DEF Hears, TypeOK

LEMMA ReceiveTyped == \A b \in Browsers : TypeOK /\ Receive(b) => TypeOK'
<1> SUFFICES ASSUME TypeOK, NEW b \in Browsers, Receive(b) PROVE TypeOK'
  OBVIOUS
<1> DEFINE D == [Browsers -> Seq(DownMessages(used))]
<1>0. up \in [Browsers -> Seq(UpMessages(used))] /\ page \in [Browsers -> Pages(used)]
      /\ \A c \in Browsers : Sound(used, page[c])
  BY DEF TypeOK
<1>1. CASE Ignore(b)
  <2>1. UNCHANGED net /\ page' = page /\ up' = up /\ down' \in D
    BY <1>1, TailTyped DEF Ignore
  <2> QED
    BY <1>0, <2>1, NetKept
<1>2. CASE OnInit(b)
  <2>1. down' \in D /\ UNCHANGED net /\ up' = up /\ Sound(used, page'[b])
    BY <1>2, HearsDoes, InitDoes DEF OnInit
  <2>2. PICK q : Update(b, q)
    BY <1>2 DEF OnInit
  <2> QED
    BY <1>0, <2>1, <2>2, PageTypedKept
<1>3. CASE OnClients(b)
  <2>1. down' \in D /\ UNCHANGED net /\ up' = up
    BY <1>3, HearsDoes DEF OnClients
  <2>2. Sound(used, page'[b])
    BY <1>3, ClientsDoes
  <2>3. PICK q : Update(b, q)
    BY <1>3 DEF OnClients
  <2> QED
    BY <1>0, <2>1, <2>2, <2>3, PageTypedKept
<1>4. CASE OnOffer(b)
  <2>1. down' \in D /\ UNCHANGED net /\ up' = up
    BY <1>4, HearsDoes DEF OnOffer
  <2>2. Sound(used, page'[b])
    BY <1>4, OfferDoes
  <2>3. PICK q : Update(b, q)
    BY <1>4 DEF OnOffer
  <2> QED
    BY <1>0, <2>1, <2>2, <2>3, PageTypedKept
<1>5. CASE OnAnswer(b)
  <2>1. down' \in D /\ UNCHANGED net /\ up' = up
    BY <1>5, HearsDoes DEF OnAnswer
  <2>2. CASE UNCHANGED page
    BY <1>0, <2>1, <2>2, NetKept
  <2>3. ASSUME NEW q, Update(b, q) PROVE TypeOK'
    <3>1. Sound(used, page'[b])
      BY <1>0, <1>5, AnswerDoes
    <3> QED
      BY <1>0, <2>1, <2>3, <3>1, PageTypedKept
  <2> QED
    BY <1>5, <2>2, <2>3 DEF OnAnswer
<1> QED
  BY <1>1, <1>2, <1>3, <1>4, <1>5 DEF Receive

\* What an awaited description does: it is sent as an offer or as an answer.
LEMMA OfferedDoes ==
  ASSUME TypeOK, NEW b \in Browsers, NEW t \in page[b].tasks, Offered(b, t)
  PROVE  LET p == page[b] q == page'[b] IN
         /\ \A c \in Browsers \ {b} : page'[c] = page[c]
         /\ Sound(used, q) /\ Kin(p, q) /\ q.map = p.map /\ q.tasks = p.tasks \ {t} /\ t \in Tasks(used)
         /\ t.kind = "offer" /\ UNCHANGED <<net, down, turns>>
         /\ up' \in [Browsers -> Seq(UpMessages(used))]
         /\ \/ q.pcs = p.pcs /\ UNCHANGED up /\ \A c \in p.pcs : c.n # t.n
            \/ \E c \in p.pcs, f \in UpMessages(used) :
                  /\ c.n = t.n /\ c.peer = t.peer
                  /\ [c EXCEPT !.state = "offered", !.with = t.sdp] \in Connections(used)
                  /\ q.pcs = (p.pcs \ {c}) \cup {[c EXCEPT !.state = "offered", !.with = t.sdp]}
                  /\ f.type = "offer" /\ f.id = t.peer /\ f.sdp = t.n
                  /\ up'[b] = Append(up[b], f) /\ \A x \in Browsers \ {b} : up'[x] = up[x]
<1> DEFINE p == page[b]
           q == page'[b]
           m == Message("offer", 0)
           f == [m EXCEPT !.id = t.peer, !.sdp = t.n]
<1>1. t.kind = "offer" /\ UNCHANGED <<net, down, turns>> /\ Described(b, t, "offered", m)
  BY DEF Offered, Awaited
<1>2. /\ \A c \in Browsers \ {b} : page'[c] = page[c]
      /\ Sound(used, q) /\ Kin(p, q) /\ q.map = p.map /\ q.tasks = p.tasks \ {t} /\ t \in Tasks(used)
      /\ \/ q.pcs = p.pcs /\ UNCHANGED up /\ \A c \in p.pcs : c.n # t.n
         \/ \E c \in p.pcs :
               /\ c.n = t.n /\ c.peer = t.peer
               /\ [c EXCEPT !.state = "offered", !.with = t.sdp] \in Connections(used)
               /\ q.pcs = (p.pcs \ {c}) \cup {[c EXCEPT !.state = "offered", !.with = t.sdp]}
               /\ Emit(b, f)
  BY <1>1, DescribedDoes
<1>3. f \in UpMessages(used) /\ f.type = "offer" /\ f.id = t.peer /\ f.sdp = t.n
  BY <1>2, EmittedTyped, 0 \in Nat
<1> HIDE DEF f, p, q, m
<1>4. Emit(b, f) => /\ up' \in [Browsers -> Seq(UpMessages(used))]
                    /\ up'[b] = Append(up[b], f) /\ \A c \in Browsers \ {b} : up'[c] = up[c]
  BY <1>3, EmitTyped
<1>5. UNCHANGED up => up' \in [Browsers -> Seq(UpMessages(used))]
  BY DEF TypeOK
<1> QED
  BY <1>1, <1>2, <1>3, <1>4, <1>5 DEF p, q

LEMMA AnsweredDoes ==
  ASSUME TypeOK, NEW b \in Browsers, NEW t \in page[b].tasks, Answered(b, t)
  PROVE  LET p == page[b] q == page'[b] IN
         /\ \A c \in Browsers \ {b} : page'[c] = page[c]
         /\ Sound(used, q) /\ Kin(p, q) /\ q.map = p.map /\ q.tasks = p.tasks \ {t} /\ t \in Tasks(used)
         /\ t.kind = "answer" /\ UNCHANGED <<net, down, turns>>
         /\ up' \in [Browsers -> Seq(UpMessages(used))]
         /\ \/ q.pcs = p.pcs /\ UNCHANGED up /\ \A c \in p.pcs : c.n # t.n
            \/ \E c \in p.pcs, f \in UpMessages(used) :
                  /\ c.n = t.n /\ c.peer = t.peer
                  /\ [c EXCEPT !.state = "accepted", !.with = t.sdp] \in Connections(used)
                  /\ q.pcs = (p.pcs \ {c}) \cup {[c EXCEPT !.state = "accepted", !.with = t.sdp]}
                  /\ f.type = "answer" /\ f.id = t.peer /\ f.sdp = t.n /\ f.to = t.sdp
                  /\ up'[b] = Append(up[b], f) /\ \A x \in Browsers \ {b} : up'[x] = up[x]
<1> DEFINE p == page[b]
           q == page'[b]
           m == [Message("answer", 0) EXCEPT !.to = t.sdp]
           f == [m EXCEPT !.id = t.peer, !.sdp = t.n]
<1>1. t.kind = "answer" /\ UNCHANGED <<net, down, turns>> /\ Described(b, t, "accepted", m)
  BY DEF Answered, Awaited
<1>2. /\ \A c \in Browsers \ {b} : page'[c] = page[c]
      /\ Sound(used, q) /\ Kin(p, q) /\ q.map = p.map /\ q.tasks = p.tasks \ {t} /\ t \in Tasks(used)
      /\ \/ q.pcs = p.pcs /\ UNCHANGED up /\ \A c \in p.pcs : c.n # t.n
         \/ \E c \in p.pcs :
               /\ c.n = t.n /\ c.peer = t.peer
               /\ [c EXCEPT !.state = "accepted", !.with = t.sdp] \in Connections(used)
               /\ q.pcs = (p.pcs \ {c}) \cup {[c EXCEPT !.state = "accepted", !.with = t.sdp]}
               /\ Emit(b, f)
  BY <1>1, DescribedDoes
<1>3. f \in UpMessages(used) /\ f.type = "answer" /\ f.id = t.peer /\ f.sdp = t.n /\ f.to = t.sdp
  <2>1. t \in Tasks(used)
    BY <1>2
  <2>2. t.sdp \in Nat /\ t.peer \in used /\ t.n \in Nat /\ t.n # 0
    BY <2>1 DEF Tasks
  <2> QED
    BY <2>2 DEF Message, Messages, UpMessages
<1> HIDE DEF f, p, q, m
<1>4. Emit(b, f) => /\ up' \in [Browsers -> Seq(UpMessages(used))]
                    /\ up'[b] = Append(up[b], f) /\ \A c \in Browsers \ {b} : up'[c] = up[c]
  BY <1>3, EmitTyped
<1>5. UNCHANGED up => up' \in [Browsers -> Seq(UpMessages(used))]
  BY DEF TypeOK
<1> QED
  BY <1>1, <1>2, <1>3, <1>4, <1>5 DEF p, q

LEMMA FinishTyped == \A b \in Browsers : TypeOK /\ Finish(b) => TypeOK'
<1> SUFFICES ASSUME TypeOK, NEW b \in Browsers, NEW t \in page[b].tasks,
                    Created(b, t) \/ Offered(b, t) \/ Answered(b, t)
             PROVE  TypeOK'
  BY DEF Finish
<1>0. up \in [Browsers -> Seq(UpMessages(used))] /\ down \in [Browsers -> Seq(DownMessages(used))]
  BY DEF TypeOK
<1>1. CASE Created(b, t)
  <2>1. UNCHANGED net /\ down' = down /\ up' = up
    BY <1>1 DEF Created, Awaited
  <2>2. Sound(used, page'[b])
    BY <1>1, CreatedDoes
  <2>3. PICK q : Update(b, q)
    BY <1>1 DEF Created
  <2> QED
    BY <1>0, <2>1, <2>2, <2>3, PageTypedKept
<1>2. CASE Offered(b, t)
  <2>1. UNCHANGED net /\ down' = down /\ up' \in [Browsers -> Seq(UpMessages(used))] /\ Sound(used, page'[b])
    BY <1>2, OfferedDoes
  <2>2. PICK q : Update(b, q)
    BY <1>2 DEF Offered, Described
  <2> QED
    BY <1>0, <2>1, <2>2, PageTypedKept
<1>3. CASE Answered(b, t)
  <2>1. UNCHANGED net /\ down' = down /\ up' \in [Browsers -> Seq(UpMessages(used))] /\ Sound(used, page'[b])
    BY <1>3, AnsweredDoes
  <2>2. PICK q : Update(b, q)
    BY <1>3 DEF Answered, Described
  <2> QED
    BY <1>0, <2>1, <2>2, PageTypedKept
<1> QED
  BY <1>1, <1>2, <1>3

LEMMA TurnTyped ==
  \A b \in Browsers : TypeOK /\ (Open(b) \/ Leave(b) \/ Press(b) \/ Ready(b)) => TypeOK'
<1> SUFFICES ASSUME TypeOK, NEW b \in Browsers, Open(b) \/ Leave(b) \/ Press(b) \/ Ready(b) PROVE TypeOK'
  OBVIOUS
<1>0. up \in [Browsers -> Seq(UpMessages(used))] /\ down \in [Browsers -> Seq(DownMessages(used))]
  BY DEF TypeOK
<1>1. CASE Open(b)
  <2>1. Sound(used, page'[b])
    BY <1>1, OpenDoes
  <2>2. Message("whoami", 0) \in UpMessages(used)
    <3>1. \A id \in used \cup {0}, ids \in SUBSET used : Message("whoami", 0) \in UpMessages(used)
      BY MessagesTyped
    <3>2. 0 \in used \cup {0} /\ {} \in SUBSET used
      OBVIOUS
    <3> QED
      BY <3>1, <3>2
  <2>3. UNCHANGED net /\ down' = down /\ up' \in [Browsers -> Seq(UpMessages(used))]
    BY <1>0, <1>1, <2>2, EmitTyped DEF Open
  <2>4. PICK q : Update(b, q)
    BY <1>1 DEF Open
  <2> QED
    BY <1>0, <2>1, <2>3, <2>4, PageTypedKept
<1>2. CASE Leave(b)
  <2>1. UNCHANGED net /\ down' = down /\ up' = up
    BY <1>2 DEF Leave
  <2>2. Sound(used, page'[b])
    BY <1>2, LeaveDoes
  <2>3. PICK q : Update(b, q)
    BY <1>2 DEF Leave
  <2> QED
    BY <1>0, <2>1, <2>2, <2>3, PageTypedKept
<1>3. CASE Press(b)
  <2>1. UNCHANGED net /\ down' = down /\ up' = up
    BY <1>3 DEF Press
  <2>2. Sound(used, page'[b])
    BY <1>3, PressDoes
  <2>3. PICK q : Update(b, q)
    BY <1>3 DEF Press
  <2> QED
    BY <1>0, <2>1, <2>2, <2>3, PageTypedKept
<1>4. CASE Ready(b)
  <2>1. UNCHANGED net /\ down' = down /\ up' = up
    BY <1>4 DEF Ready
  <2>2. Sound(used, page'[b])
    BY <1>4, ReadyDoes
  <2>3. PICK q : Update(b, q)
    BY <1>4 DEF Ready
  <2> QED
    BY <1>0, <2>1, <2>2, <2>3, PageTypedKept
<1> QED
  BY <1>1, <1>2, <1>3, <1>4

LEMMA TypeStep == TypeOK /\ [Next]_vars => TypeOK'
<1> SUFFICES ASSUME TypeOK, [Next]_vars PROVE TypeOK'
  OBVIOUS
<1>1. CASE UNCHANGED vars
  BY <1>1 DEF vars, net, TypeOK
<1>2. CASE Notice
  BY <1>2, NoticeTyped
<1>3. ASSUME NEW b \in Browsers,
             \/ Connect(b) \/ Drop(b) \/ Serve(b) \/ Open(b) \/ Leave(b) \/ Press(b) \/ Ready(b)
             \/ Receive(b) \/ Finish(b)
      PROVE  TypeOK'
  BY <1>3, ConnectTyped, DropTyped, ServeTyped, TurnTyped, ReceiveTyped, FinishTyped
<1> QED
  BY <1>1, <1>2, <1>3 DEF Next

-----------------------------------------------------------------------------
(* Disciplines *)

Disciplined == Next /\ broken' = broken \cup Breaks

\* A discipline that is kept after a step was kept before it and by it.
LEMMA KeptStep ==
  ASSUME Disciplined, NEW D, Kept(D)'
  PROVE  /\ Kept(D)
         /\ "list" \in D => ListBefore
         /\ "late" \in D => NothingLate
         /\ "early" \in D => IdBefore
         /\ "leave" \in D => LeftAtRest
         /\ "heard" \in D => OfferHeard
         /\ "button" \in D => \A b \in Browsers : ~Press(b)
BY DEF Kept, Disciplined, Breaks

LEMMA TypeKept == TypeOK /\ [Disciplined]_<<vars, broken>> => TypeOK'
BY TypeStep DEF Disciplined, vars

-----------------------------------------------------------------------------
(* Nothing leaks *)

Left(b) == page[b].open = "left" => page[b].pcs = {} /\ page[b].tasks = {}
Clean == Kept({"leave"}) => \A b \in Browsers : Left(b)

LEMMA CleanInit == Init /\ broken = {} => Clean
BY DEF Init, Clean, Left, NewPage

LEMMA CleanKept ==
  ASSUME TypeOK, Clean, Disciplined
  PROVE  Clean'
<1> SUFFICES ASSUME Kept({"leave"})' PROVE \A b \in Browsers : Left(b)'
  BY DEF Clean
<1>1. LeftAtRest /\ \A b \in Browsers : Left(b)
  BY KeptStep DEF Clean
<1>2. CASE Notice
  BY <1>1, <1>2 DEF Notice, Left
<1>3. ASSUME NEW b \in Browsers, \A c \in Browsers \ {b} : page'[c] = page[c], Left(b)'
      PROVE  \A c \in Browsers : Left(c)'
  <2>1. \A c \in Browsers \ {b} : Left(c)'
    BY <1>1, <1>3 DEF Left
  <2> QED
    BY <1>3, <2>1
<1>4. ASSUME NEW b \in Browsers, Connect(b) \/ Serve(b) PROVE \A c \in Browsers : Left(c)'
  BY <1>1, <1>4 DEF Connect, Serve, Left
<1>5. ASSUME NEW b \in Browsers, Drop(b) PROVE \A c \in Browsers : Left(c)'
  BY <1>1, <1>3, <1>5, DropDoes DEF Left, Kin
<1>6. ASSUME NEW b \in Browsers, Open(b) PROVE \A c \in Browsers : Left(c)'
  BY <1>3, <1>6, OpenDoes DEF Left
<1>7. ASSUME NEW b \in Browsers, Leave(b) PROVE \A c \in Browsers : Left(c)'
  <2>1. page[b].tasks = {}
    BY <1>1, <1>7 DEF LeftAtRest
  <2> QED
    BY <1>3, <1>7, <2>1, LeaveDoes DEF Left
<1>8. ASSUME NEW b \in Browsers, Press(b) PROVE \A c \in Browsers : Left(c)'
  <2>1. Left(b)' /\ \A c \in Browsers \ {b} : page'[c] = page[c]
    BY <1>8, PressDoes DEF Left, Kin
  <2> QED
    BY <1>3, <2>1
<1>9. ASSUME NEW b \in Browsers, Ready(b) PROVE \A c \in Browsers : Left(c)'
  <2>1. Left(b)' /\ \A c \in Browsers \ {b} : page'[c] = page[c]
    BY <1>1, <1>9, ReadyDoes DEF Left
  <2> QED
    BY <1>3, <2>1
<1>10. ASSUME NEW b \in Browsers, Receive(b) PROVE \A c \in Browsers : Left(c)'
  <2>1. CASE Ignore(b)
    BY <1>1, <2>1 DEF Ignore, Left
  <2>2. CASE OnInit(b)
    <3>1. page'[b].open = "yes" /\ \A c \in Browsers \ {b} : page'[c] = page[c]
      BY <2>2, InitDoes
    <3> QED
      BY <1>3, <3>1 DEF Left
  <2>3. CASE OnClients(b)
    <3>1. page'[b].open = "yes" /\ \A c \in Browsers \ {b} : page'[c] = page[c]
      BY <2>3, ClientsDoes
    <3> QED
      BY <1>3, <3>1 DEF Left
  <2>4. CASE OnOffer(b)
    <3>1. page'[b].open = "yes" /\ \A c \in Browsers \ {b} : page'[c] = page[c]
      BY <2>4, OfferDoes DEF Kin
    <3> QED
      BY <1>3, <3>1 DEF Left
  <2>5. CASE OnAnswer(b)
    <3>1. page'[b].open = "yes" /\ \A c \in Browsers \ {b} : page'[c] = page[c]
      BY <2>5, AnswerDoes DEF Kin
    <3> QED
      BY <1>3, <3>1 DEF Left
  <2> QED
    BY <1>10, <2>1, <2>2, <2>3, <2>4, <2>5 DEF Receive
<1>11. ASSUME NEW b \in Browsers, Finish(b) PROVE \A c \in Browsers : Left(c)'
  <2>1. PICK t \in page[b].tasks : Created(b, t) \/ Offered(b, t) \/ Answered(b, t)
    BY <1>11 DEF Finish
  <2>2. page[b].open # "left"
    BY <1>1, <2>1 DEF Left
  <2>3. page'[b].open = page[b].open /\ \A c \in Browsers \ {b} : page'[c] = page[c]
    <3>1. CASE Created(b, t)
      BY <3>1, CreatedDoes DEF Kin
    <3>2. CASE Offered(b, t)
      BY <3>2, OfferedDoes DEF Kin
    <3>3. CASE Answered(b, t)
      BY <3>3, AnsweredDoes DEF Kin
    <3> QED
      BY <2>1, <3>1, <3>2, <3>3
  <2> QED
    BY <1>3, <2>2, <2>3 DEF Left
<1> QED
  BY <1>2, <1>4, <1>5, <1>6, <1>7, <1>8, <1>9, <1>10, <1>11 DEF Disciplined, Next

\* Every peer connection that is not closed is in the map where it will be closed, unless
\* a page was left while something was awaited: createPeerConnection looks at the map
\* again after the microphone, and closes nothing that it keeps.
THEOREM NothingLeaks == DisciplineSpec => []NoneLeaked
<1>1. DisciplineInit => TypeOK /\ Clean
  BY TypeInit, CleanInit DEF DisciplineInit
<1>2. TypeOK /\ Clean /\ [Disciplined]_<<vars, broken>> => TypeOK' /\ Clean'
  <2> SUFFICES ASSUME TypeOK, Clean, [Disciplined]_<<vars, broken>> PROVE TypeOK' /\ Clean'
    OBVIOUS
  <2>1. CASE UNCHANGED <<vars, broken>>
    BY <2>1, TypeKept DEF Clean, Left, Kept, vars
  <2>2. CASE Disciplined
    BY <2>2, TypeKept, CleanKept
  <2> QED
    BY <2>1, <2>2
<1>3. TypeOK /\ Clean => NoneLeaked
  <2> SUFFICES ASSUME TypeOK, Clean, NEW b \in Browsers, NEW c \in page[b].pcs, Kept({"leave"})
               PROVE  /\ page[b].open = "yes"
                      /\ c.peer \in DOMAIN page[b].map /\ page[b].map[c.peer] = c.n
    BY DEF NoneLeaked
  <2>1. page[b].open \in {"no", "yes", "left"} /\ Sound(used, page[b])
    BY PageTyped DEF Pages
  <2>2. page[b].open = "yes"
    BY <2>1 DEF Clean, Left, Sound
  <2> QED
    BY <2>1, <2>2 DEF Sound, Filed
<1> QED
  BY <1>1, <1>2, <1>3, PTL DEF DisciplineSpec, Disciplined

-----------------------------------------------------------------------------
(* What the stream to a page says, in order *)

IsList(m) == m.type = "clients"

\* The page has no other id than that of its socket, or learns it first.
Tuned(id, q, p) ==
    /\ id = 0 => q = <<>>
    /\ \A i \in DOMAIN q : q[i].type = "init" => q[i].id = id
    /\ id # 0 /\ p.open = "yes" => p.me \in {0, id} \/ (q # <<>> /\ q[1].type = "init")

\* The last list is the one the server has.
Latest(q, p, ids) ==
    \/ \E j \in DOMAIN q : /\ IsList(q[j]) /\ q[j].list = ids
                           /\ \A k \in DOMAIN q : k > j => ~IsList(q[k])
    \/ /\ \A j \in DOMAIN q : ~IsList(q[j])
       /\ p.open = "yes" => p.list \in {{}, ids}

\* Who offers is in the list before the offer.
Announced(q, p) == \A i \in DOMAIN q : q[i].type = "offer" =>
    \/ \E j \in DOMAIN q : /\ j < i /\ IsList(q[j]) /\ q[i].id \in q[j].list
                           /\ \A k \in DOMAIN q : j < k /\ k < i => ~IsList(q[k])
    \/ /\ \A k \in DOMAIN q : k < i => ~IsList(q[k])
       /\ p.open = "yes" => p.list = {} \/ q[i].id \in p.list

LEMMA Appended ==
  ASSUME NEW D, NEW q \in Seq(D), NEW m \in D
  PROVE  /\ Append(q, m) \in Seq(D) /\ Len(q) \in Nat /\ Append(q, m) # <<>>
         /\ DOMAIN q = 1 .. Len(q) /\ DOMAIN Append(q, m) = 1 .. Len(q) + 1
         /\ \A i \in DOMAIN q : Append(q, m)[i] = q[i]
         /\ Append(q, m)[Len(q) + 1] = m
         /\ q # <<>> => 1 \in DOMAIN q
OBVIOUS

LEMMA Tailed ==
  ASSUME NEW D, NEW q \in Seq(D), q # <<>>
  PROVE  /\ Tail(q) \in Seq(D) /\ Len(q) \in Nat \ {0} /\ Head(q) = q[1] /\ q[1] \in D
         /\ DOMAIN q = 1 .. Len(q) /\ DOMAIN Tail(q) = 1 .. Len(q) - 1
         /\ \A i \in DOMAIN Tail(q) : i + 1 \in DOMAIN q /\ Tail(q)[i] = q[i + 1]
         /\ \A i \in DOMAIN q : i = 1 \/ (i - 1 \in DOMAIN Tail(q) /\ Tail(q)[i - 1] = q[i])
OBVIOUS

LEMMA TwoAppended ==
  ASSUME NEW D, NEW q \in Seq(D), NEW x \in D, NEW y \in D
  PROVE  q \o <<x, y>> = Append(Append(q, x), y) /\ <<x, y>> = Append(Append(<<>>, x), y)
OBVIOUS

LEMMA ListAppended ==
  ASSUME NEW D, NEW q \in Seq(D), NEW p, NEW id, NEW ids, NEW m \in D,
         IsList(m), m.list = ids, id # 0, Tuned(id, q, p), Announced(q, p)
  PROVE  LET r == Append(q, m) IN Tuned(id, r, p) /\ Latest(r, p, ids) /\ Announced(r, p)
<1> DEFINE r == Append(q, m)
<1>1. /\ r \in Seq(D) /\ Len(q) \in Nat /\ DOMAIN q = 1 .. Len(q) /\ DOMAIN r = 1 .. Len(q) + 1
      /\ \A i \in DOMAIN q : r[i] = q[i]
      /\ r[Len(q) + 1] = m /\ r # <<>> /\ (q # <<>> => 1 \in DOMAIN q)
  BY Appended
<1> DEFINE n == Len(q)
<1> HIDE DEF r, n
<1>2. /\ n \in Nat /\ DOMAIN q = 1 .. n /\ DOMAIN r = 1 .. n + 1
      /\ \A i \in 1 .. n : r[i] = q[i]
      /\ r[n + 1] = m /\ r # <<>> /\ (q # <<>> => 1 \in 1 .. n)
  BY <1>1 DEF n
<1>3. Tuned(id, r, p)
  BY <1>2 DEF Tuned, IsList
<1>4. Latest(r, p, ids)
  BY <1>2 DEF Latest, IsList
<1>5. Announced(r, p)
  <2> SUFFICES ASSUME NEW i \in 1 .. n + 1, r[i].type = "offer"
               PROVE  \/ \E j \in 1 .. n + 1 : /\ j < i /\ IsList(r[j]) /\ r[i].id \in r[j].list
                                               /\ \A k \in 1 .. n + 1 : j < k /\ k < i => ~IsList(r[k])
                      \/ /\ \A k \in 1 .. n + 1 : k < i => ~IsList(r[k])
                         /\ p.open = "yes" => p.list = {} \/ r[i].id \in p.list
    BY <1>2 DEF Announced
  <2>1. i \in 1 .. n /\ q[i].type = "offer" /\ r[i] = q[i]
    BY <1>2 DEF IsList
  <2>2. CASE \E j \in 1 .. n : /\ j < i /\ IsList(q[j]) /\ q[i].id \in q[j].list
                               /\ \A k \in 1 .. n : j < k /\ k < i => ~IsList(q[k])
    <3>1. PICK j \in 1 .. n : /\ j < i /\ IsList(q[j]) /\ q[i].id \in q[j].list
                              /\ \A k \in 1 .. n : j < k /\ k < i => ~IsList(q[k])
      BY <2>2
    <3>2. /\ j \in 1 .. n + 1 /\ IsList(r[j]) /\ r[i].id \in r[j].list
          /\ \A k \in 1 .. n + 1 : j < k /\ k < i => ~IsList(r[k])
      BY <1>2, <2>1, <3>1
    <3> QED
      BY <3>1, <3>2
  <2>3. CASE /\ \A k \in 1 .. n : k < i => ~IsList(q[k])
             /\ p.open = "yes" => p.list = {} \/ q[i].id \in p.list
    BY <1>2, <2>1, <2>3
  <2> QED
    BY <1>2, <2>1, <2>2, <2>3 DEF Announced
<1> QED
  BY <1>3, <1>4, <1>5 DEF r

LEMMA MessageAppended ==
  ASSUME NEW D, NEW q \in Seq(D), NEW p, NEW id, NEW ids, NEW m \in D,
         ~IsList(m), m.type = "init" => m.id = id, m.type = "offer" => m.id \in ids, id # 0,
         Tuned(id, q, p), Latest(q, p, ids), Announced(q, p)
  PROVE  LET r == Append(q, m) IN Tuned(id, r, p) /\ Latest(r, p, ids) /\ Announced(r, p)
<1> DEFINE r == Append(q, m)
<1>1. /\ r \in Seq(D) /\ Len(q) \in Nat /\ DOMAIN q = 1 .. Len(q) /\ DOMAIN r = 1 .. Len(q) + 1
      /\ \A i \in DOMAIN q : r[i] = q[i]
      /\ r[Len(q) + 1] = m /\ r # <<>> /\ (q # <<>> => 1 \in DOMAIN q)
  BY Appended
<1> DEFINE n == Len(q)
<1> HIDE DEF r, n
<1>2. /\ n \in Nat /\ DOMAIN q = 1 .. n /\ DOMAIN r = 1 .. n + 1
      /\ \A i \in 1 .. n : r[i] = q[i]
      /\ r[n + 1] = m /\ r # <<>> /\ (q # <<>> => 1 \in 1 .. n)
  BY <1>1 DEF n
<1>3. Tuned(id, r, p)
  BY <1>2 DEF Tuned, IsList
<1>4. Latest(r, p, ids)
  <2>1. ASSUME NEW j \in 1 .. n, IsList(q[j]), q[j].list = ids, \A k \in 1 .. n : k > j => ~IsList(q[k])
        PROVE  Latest(r, p, ids)
    <3>1. \A k \in 1 .. n + 1 : k > j => ~IsList(r[k])
      BY <1>2, <2>1
    <3>2. j \in DOMAIN r /\ IsList(r[j]) /\ r[j].list = ids
      BY <1>2, <2>1
    <3> QED
      BY <1>2, <3>1, <3>2 DEF Latest
  <2>2. ASSUME \A j \in 1 .. n : ~IsList(q[j]), p.open = "yes" => p.list \in {{}, ids}
        PROVE  Latest(r, p, ids)
    <3>1. \A k \in 1 .. n + 1 : ~IsList(r[k])
      BY <1>2, <2>2
    <3> QED
      BY <1>2, <2>2, <3>1 DEF Latest
  <2> QED
    BY <1>2, <2>1, <2>2 DEF Latest
<1>5. Announced(r, p)
  <2> SUFFICES ASSUME NEW i \in 1 .. n + 1, r[i].type = "offer"
               PROVE  \/ \E j \in 1 .. n + 1 : /\ j < i /\ IsList(r[j]) /\ r[i].id \in r[j].list
                                               /\ \A k \in 1 .. n + 1 : j < k /\ k < i => ~IsList(r[k])
                      \/ /\ \A k \in 1 .. n + 1 : k < i => ~IsList(r[k])
                         /\ p.open = "yes" => p.list = {} \/ r[i].id \in p.list
    BY <1>2 DEF Announced
  <2>1. CASE i \in 1 .. n
    <3>1. q[i].type = "offer" /\ r[i] = q[i]
      BY <1>2, <2>1
    <3>2. ASSUME NEW j \in 1 .. n, j < i, IsList(q[j]), q[i].id \in q[j].list,
                 \A k \in 1 .. n : j < k /\ k < i => ~IsList(q[k])
          PROVE  /\ j \in 1 .. n + 1 /\ IsList(r[j]) /\ r[i].id \in r[j].list
                 /\ \A k \in 1 .. n + 1 : j < k /\ k < i => ~IsList(r[k])
      BY <1>2, <2>1, <3>1, <3>2
    <3>3. (\A k \in 1 .. n : k < i => ~IsList(q[k])) => \A k \in 1 .. n + 1 : k < i => ~IsList(r[k])
      BY <1>2, <2>1
    <3> QED
      BY <1>2, <2>1, <3>1, <3>2, <3>3 DEF Announced
  <2>2. CASE i = n + 1
    <3>1. r[i].id \in ids
      BY <1>2, <2>2
    <3>2. ASSUME NEW j \in 1 .. n, IsList(q[j]), q[j].list = ids, \A k \in 1 .. n : k > j => ~IsList(q[k])
          PROVE  /\ j \in 1 .. n + 1 /\ j < i /\ IsList(r[j]) /\ r[i].id \in r[j].list
                 /\ \A k \in 1 .. n + 1 : j < k /\ k < i => ~IsList(r[k])
      BY <1>2, <2>2, <3>1, <3>2
    <3>3. ASSUME \A j \in 1 .. n : ~IsList(q[j]), p.open = "yes" => p.list \in {{}, ids}
          PROVE  /\ \A k \in 1 .. n + 1 : k < i => ~IsList(r[k])
                 /\ p.open = "yes" => p.list = {} \/ r[i].id \in p.list
      BY <1>2, <2>2, <3>1, <3>3
    <3> QED
      BY <1>2, <3>2, <3>3 DEF Latest
  <2> QED
    BY <1>2, <2>1, <2>2
<1> QED
  BY <1>3, <1>4, <1>5 DEF r

\* v: the page that took the first message; one that is not open ignores it.
LEMMA HeadTaken ==
  ASSUME NEW D, NEW q \in Seq(D), q # <<>>, NEW p, NEW v, NEW id, NEW ids,
         v.open = p.open,
         p.open = "yes" => /\ v.list = IF IsList(q[1]) THEN q[1].list ELSE p.list
                           /\ v.me = IF q[1].type = "init" THEN q[1].id ELSE p.me,
         Tuned(id, q, p), Announced(q, p)
  PROVE  LET r == Tail(q) IN
         Tuned(id, r, v) /\ Announced(r, v) /\ (Latest(q, p, ids) => Latest(r, v, ids))
<1> DEFINE r == Tail(q)
           n == Len(q)
<1>1. /\ r \in Seq(D) /\ n \in Nat \ {0} /\ DOMAIN q = 1 .. n /\ DOMAIN r = 1 .. n - 1
      /\ \A i \in DOMAIN r : i + 1 \in DOMAIN q /\ r[i] = q[i + 1]
      /\ \A i \in DOMAIN q : i = 1 \/ (i - 1 \in DOMAIN r /\ r[i - 1] = q[i])
  BY Tailed
<1> HIDE DEF r, n
<1>2. Tuned(id, r, v)
  <2>1. id # 0
    BY DEF Tuned
  <2>2. \A i \in DOMAIN r : r[i].type = "init" => r[i].id = id
    BY <1>1 DEF Tuned
  <2>3. 1 \in DOMAIN q
    BY <1>1
  <2>4. p.open = "yes" => v.me \in {0, id}
    BY <2>1, <2>3 DEF Tuned
  <2> QED
    BY <2>1, <2>2, <2>4 DEF Tuned
<1>3. Announced(r, v)
  <2> SUFFICES ASSUME NEW i \in DOMAIN r, r[i].type = "offer"
               PROVE  \/ \E j \in DOMAIN r : /\ j < i /\ IsList(r[j]) /\ r[i].id \in r[j].list
                                             /\ \A k \in DOMAIN r : j < k /\ k < i => ~IsList(r[k])
                      \/ /\ \A k \in DOMAIN r : k < i => ~IsList(r[k])
                         /\ v.open = "yes" => v.list = {} \/ r[i].id \in v.list
    BY DEF Announced
  <2> DEFINE l == i + 1
  <2>1. l \in DOMAIN q /\ r[i] = q[l] /\ l \in Nat /\ l > 1 /\ i = l - 1
    BY <1>1
  <2> HIDE DEF l
  <2>2. ASSUME NEW j \in DOMAIN q, j < l, IsList(q[j]), q[l].id \in q[j].list, j # 1,
               \A k \in DOMAIN q : j < k /\ k < l => ~IsList(q[k])
        PROVE  /\ j - 1 \in DOMAIN r /\ j - 1 < i /\ IsList(r[j - 1]) /\ r[i].id \in r[j - 1].list
               /\ \A k \in DOMAIN r : j - 1 < k /\ k < i => ~IsList(r[k])
    <3>1. j \in Nat /\ i \in Nat /\ j - 1 \in DOMAIN r /\ r[j - 1] = q[j] /\ j - 1 < i
      BY <1>1, <2>1, <2>2
    <3>2. ASSUME NEW k \in DOMAIN r, j - 1 < k, k < i PROVE ~IsList(r[k])
      <4>1. k \in Nat /\ k + 1 \in DOMAIN q /\ r[k] = q[k + 1]
        BY <1>1
      <4>2. j < k + 1 /\ k + 1 < l
        BY <2>1, <3>1, <3>2, <4>1
      <4> QED
        BY <2>2, <4>1, <4>2
    <3> QED
      BY <2>1, <2>2, <3>1, <3>2
  <2>3. ASSUME IsList(q[1]), q[l].id \in q[1].list, \A k \in DOMAIN q : 1 < k /\ k < l => ~IsList(q[k])
        PROVE  /\ \A k \in DOMAIN r : k < i => ~IsList(r[k])
               /\ v.open = "yes" => v.list = {} \/ r[i].id \in v.list
    <3>1. ASSUME NEW k \in DOMAIN r, k < i PROVE ~IsList(r[k])
      <4>1. k \in Nat \ {0} /\ k + 1 \in DOMAIN q /\ r[k] = q[k + 1] /\ i \in Nat
        BY <1>1
      <4>2. 1 < k + 1 /\ k + 1 < l
        BY <2>1, <3>1, <4>1
      <4> QED
        BY <2>3, <4>1, <4>2
    <3>2. v.open = "yes" => v.list = q[1].list
      BY <2>3
    <3> QED
      BY <2>1, <2>3, <3>1, <3>2
  <2>4. ASSUME \A k \in DOMAIN q : k < l => ~IsList(q[k]), p.open = "yes" => p.list = {} \/ q[l].id \in p.list
        PROVE  /\ \A k \in DOMAIN r : k < i => ~IsList(r[k])
               /\ v.open = "yes" => v.list = {} \/ r[i].id \in v.list
    <3>1. ~IsList(q[1])
      BY <1>1, <2>1, <2>4
    <3> QED
      BY <1>1, <2>1, <2>4, <3>1
  <2>5. q[l].type = "offer"
    BY <2>1
  <2>6. \/ \E j \in DOMAIN q : /\ j < l /\ IsList(q[j]) /\ q[l].id \in q[j].list
                               /\ \A k \in DOMAIN q : j < k /\ k < l => ~IsList(q[k])
        \/ /\ \A k \in DOMAIN q : k < l => ~IsList(q[k])
           /\ p.open = "yes" => p.list = {} \/ q[l].id \in p.list
    BY <2>1, <2>5 DEF Announced
  <2> QED
    BY <2>2, <2>3, <2>4, <2>6
<1>4. ASSUME Latest(q, p, ids) PROVE Latest(r, v, ids)
  <2>1. ASSUME NEW j \in DOMAIN q, IsList(q[j]), q[j].list = ids, j # 1,
               \A k \in DOMAIN q : k > j => ~IsList(q[k])
        PROVE  Latest(r, v, ids)
    <3>1. /\ j - 1 \in DOMAIN r /\ IsList(r[j - 1]) /\ r[j - 1].list = ids
          /\ \A k \in DOMAIN r : k > j - 1 => ~IsList(r[k])
      BY <1>1, <2>1
    <3> QED
      BY <3>1 DEF Latest
  <2>2. ASSUME IsList(q[1]), q[1].list = ids, \A k \in DOMAIN q : k > 1 => ~IsList(q[k])
        PROVE  Latest(r, v, ids)
    <3>1. \A k \in DOMAIN r : ~IsList(r[k])
      BY <1>1, <2>2
    <3> QED
      BY <2>2, <3>1 DEF Latest
  <2>3. ASSUME \A k \in DOMAIN q : ~IsList(q[k]), p.open = "yes" => p.list \in {{}, ids}
        PROVE  Latest(r, v, ids)
    <3>1. (\A k \in DOMAIN r : ~IsList(r[k])) /\ ~IsList(q[1])
      BY <1>1, <2>3
    <3> QED
      BY <2>3, <3>1 DEF Latest
  <2> QED
    BY <1>4, <2>1, <2>2, <2>3 DEF Latest
<1> QED
  BY <1>2, <1>3, <1>4 DEF r

Stream(b) ==
    /\ Tuned(conn[b], down[b], page[b]) /\ Announced(down[b], page[b])
    /\ conn[b] # 0 => conn[b] \in clients /\ Latest(down[b], page[b], clients)
Streams == \A b \in Browsers : Stream(b)

LEMMA StreamsInit == Init => Streams
<1> SUFFICES ASSUME Init, NEW b \in Browsers PROVE Stream(b)
  BY DEF Streams
<1>1. conn[b] \in clients /\ down[b] = <<>> /\ page[b].open = "no"
  BY DEF Init, Range, NewPage, IsInjective
<1> QED
  BY <1>1 DEF Stream, Tuned, Announced, Latest

LEMMA StreamSame ==
  ASSUME NEW b \in Browsers, Stream(b), conn'[b] = conn[b], clients' = clients, down'[b] = down[b],
         page'[b].open = page[b].open, page'[b].me = page[b].me, page'[b].list = page[b].list
  PROVE  Stream(b)'
BY DEF Stream, Tuned, Announced, Latest

\* A list for every socket.
LEMMA StreamListed ==
  ASSUME TypeOK, NEW c \in Browsers, Stream(c), conn'[c] = conn[c], conn[c] # 0 => conn[c] \in clients',
         page'[c] = page[c], NEW U, used \subseteq U, clients' \in SUBSET U,
         down'[c] = IF conn[c] # 0 THEN Append(down[c], List_(clients')) ELSE down[c]
  PROVE  Stream(c)'
<1> DEFINE D == DownMessages(U)
           m == List_(clients')
           ids == clients'
<1>1. DownMessages(used) \subseteq D
  BY Grows
<1>2. down[c] \in Seq(DownMessages(used))
  BY DEF TypeOK
<1>3. down[c] \in Seq(D)
  BY <1>1, <1>2
<1>4. m \in D /\ IsList(m) /\ m.list = ids
  <2>1. 0 \in U \cup {0}
    OBVIOUS
  <2> QED
    BY <2>1, MessagesTyped DEF IsList
<1>5. Tuned(conn[c], down[c], page[c]) /\ Announced(down[c], page[c])
  BY DEF Stream
<1>6. CASE conn[c] = 0
  BY <1>5, <1>6 DEF Stream
<1>7. CASE conn[c] # 0
  <2> DEFINE r == Append(down[c], m)
             id == conn[c]
             p == page[c]
             q == down[c]
  <2>1. q \in Seq(D) /\ Tuned(id, q, p) /\ Announced(q, p) /\ id # 0
    BY <1>3, <1>5, <1>7
  <2>2. down'[c] = r
    BY <1>7
  <2> HIDE DEF D, m, ids, id, p, q
  <2>3. Tuned(id, Append(q, m), p) /\ Latest(Append(q, m), p, ids) /\ Announced(Append(q, m), p)
    BY <1>4, <2>1, ListAppended
  <2> QED
    BY <2>2, <2>3 DEF Stream, id, p, q, ids
<1> QED
  BY <1>6, <1>7

LEMMA StreamTold ==
  ASSUME TypeOK, NEW b \in Browsers, Stream(b), conn'[b] = conn[b], conn[b] # 0, clients' = clients,
         page'[b] = page[b], NEW m \in DownMessages(used),
         ~IsList(m), m.type = "init" => m.id = conn[b], m.type = "offer" => m.id \in clients,
         down'[b] = Append(down[b], m)
  PROVE  Stream(b)'
<1> DEFINE D == DownMessages(used)
           id == conn[b]
           p == page[b]
           q == down[b]
<1>1. q \in Seq(D) /\ Tuned(id, q, p) /\ Announced(q, p) /\ Latest(q, p, clients) /\ id # 0
  BY DEF TypeOK, Stream
<1>2. m \in D /\ (m.type = "init" => m.id = id)
  OBVIOUS
<1> HIDE DEF D, id, p, q
<1>3. Tuned(id, Append(q, m), p) /\ Latest(Append(q, m), p, clients) /\ Announced(Append(q, m), p)
  BY <1>1, <1>2, MessageAppended
<1> QED
  BY <1>3 DEF Stream, id, p, q

LEMMA StreamTaken ==
  ASSUME TypeOK, NEW b \in Browsers, Stream(b), UNCHANGED net,
         down[b] # <<>>, down'[b] = Tail(down[b]), page'[b].open = page[b].open,
         page[b].open = "yes" =>
            /\ page'[b].list = IF IsList(Head(down[b])) THEN Head(down[b]).list ELSE page[b].list
            /\ page'[b].me = IF Head(down[b]).type = "init" THEN Head(down[b]).id ELSE page[b].me
  PROVE  Stream(b)'
<1> DEFINE D == DownMessages(used)
           id == conn[b]
           p == page[b]
           v == page'[b]
           q == down[b]
<1>1. q \in Seq(D) /\ q # <<>> /\ Tuned(id, q, p) /\ Announced(q, p) /\ Head(q) = q[1]
  BY HeadTyped DEF TypeOK, Stream
<1>2. /\ v.open = p.open
      /\ p.open = "yes" => /\ v.list = IF IsList(q[1]) THEN q[1].list ELSE p.list
                           /\ v.me = IF q[1].type = "init" THEN q[1].id ELSE p.me
  BY <1>1
<1> HIDE DEF D, id, p, q, v
<1>3. /\ Tuned(id, Tail(q), v) /\ Announced(Tail(q), v)
      /\ Latest(q, p, clients) => Latest(Tail(q), v, clients)
  BY <1>1, <1>2, HeadTaken
<1> QED
  BY <1>3 DEF Stream, id, p, q, v, net

LEMMA StreamsConnected == \A b \in Browsers : TypeOK /\ Streams /\ Connect(b) => Streams'
<1> SUFFICES ASSUME TypeOK, Streams, NEW b \in Browsers, Connect(b) PROVE Streams'
  OBVIOUS
<1>1. PICK id \in Ids \ used :
         /\ conn[b] = 0 /\ conn'[b] = id /\ \A c \in Browsers \ {b} : conn'[c] = conn[c]
         /\ used' = used \cup {id} /\ clients' = clients \cup {id} /\ clients' \subseteq used'
         /\ down'[b] = <<Init_(id), List_(clients')>>
         /\ \A c \in Browsers \ {b} :
               down'[c] = IF conn[c] # 0 THEN Append(down[c], List_(clients')) ELSE down[c]
         /\ page' = page
  BY ConnectDoes
<1>2. ASSUME NEW c \in Browsers \ {b} PROVE Stream(c)'
  <2>1. /\ Stream(c) /\ conn'[c] = conn[c] /\ (conn[c] # 0 => conn[c] \in clients')
        /\ used \subseteq used' /\ clients' \in SUBSET used' /\ page'[c] = page[c]
    BY <1>1 DEF Streams, Stream
  <2> QED
    BY <1>1, <2>1, StreamListed
<1>3. Stream(b)'
  <2> DEFINE i == Init_(id)
             l == List_(clients')
             q == <<i, l>>
             p == page[b]
             ids == clients'
  <2>1. /\ i.type = "init" /\ i.id = id /\ l.type = "clients" /\ l.list = ids
        /\ id # 0 /\ id \in ids
    BY <1>1, FoundIds DEF Init_, List_, Message
  <2>2. down'[b] = q /\ conn'[b] = id /\ page'[b] = p
    BY <1>1
  <2> HIDE DEF i, l, p, ids
  <2>3. DOMAIN q = {1, 2} /\ q[1] = i /\ q[2] = l /\ q # <<>>
    OBVIOUS
  <2> HIDE DEF q
  <2>4. Tuned(id, q, p) /\ Latest(q, p, ids) /\ Announced(q, p)
    <3>1. Tuned(id, q, p)
      BY <2>1, <2>3 DEF Tuned
    <3>2. Latest(q, p, ids)
      BY <2>1, <2>3 DEF Latest, IsList
    <3>3. Announced(q, p)
      BY <2>1, <2>3 DEF Announced
    <3> QED
      BY <3>1, <3>2, <3>3
  <2> QED
    BY <2>1, <2>2, <2>4 DEF Stream, ids
<1> QED
  BY <1>2, <1>3 DEF Streams

LEMMA StreamsServed == \A b \in Browsers : TypeOK /\ Streams /\ Serve(b) => Streams'
<1> SUFFICES ASSUME TypeOK, Streams, NEW b \in Browsers, Serve(b) PROVE Streams'
  OBVIOUS
<1> DEFINE m == Head(up[b])
           f == [m EXCEPT !.id = conn[b]]
<1>1. /\ conn[b] # 0 /\ m \in UpMessages(used) /\ conn' = conn /\ clients' = clients /\ page' = page
      /\ m.type = "whoami" =>
            /\ down'[b] = down[b] \o <<Init_(conn[b]), List_(clients)>>
            /\ \A c \in Browsers \ {b} : down'[c] = down[c]
      /\ m.type # "whoami" =>
            /\ m.id # 0 /\ f \in DownMessages(used)
            /\ \A c \in Browsers : down'[c] = IF conn[c] = m.id THEN Append(down[c], f) ELSE down[c]
  BY ServeDoes DEF net
<1>2. CASE m.type = "whoami"
  <2> DEFINE D == DownMessages(used)
             i == Init_(conn[b])
             l == List_(clients)
             id == conn[b]
             p == page[b]
             q == down[b]
             r == Append(q, i)
  <2>1. /\ i \in D /\ i.type = "init" /\ i.id = id /\ l \in D /\ IsList(l) /\ l.list = clients
    <3>1. conn[b] \in used \cup {0} /\ clients \in SUBSET used
      BY DEF TypeOK
    <3> QED
      BY <3>1, MessagesTyped DEF IsList
  <2>2. q \in Seq(D) /\ Tuned(id, q, p) /\ Announced(q, p) /\ Latest(q, p, clients) /\ id # 0 /\ id \in clients
    BY <1>1 DEF TypeOK, Streams, Stream
  <2>3. down'[b] = q \o <<i, l>> /\ \A c \in Browsers \ {b} : down'[c] = down[c]
    BY <1>1, <1>2
  <2> HIDE DEF D, i, l, id, p, q
  <2>4. Tuned(id, r, p) /\ Announced(r, p) /\ r \in Seq(D)
    BY <2>1, <2>2, MessageAppended, Appended DEF IsList
  <2> HIDE DEF r
  <2>5. Tuned(id, Append(r, l), p) /\ Latest(Append(r, l), p, clients) /\ Announced(Append(r, l), p)
    BY <2>1, <2>2, <2>4, ListAppended
  <2>6. down'[b] = Append(r, l)
    BY <2>1, <2>2, <2>3, TwoAppended DEF r
  <2>7. Stream(b)'
    BY <1>1, <2>2, <2>5, <2>6 DEF Stream, id, p
  <2>8. \A c \in Browsers \ {b} : Stream(c)'
    BY <1>1, <2>3, StreamSame DEF Streams
  <2> QED
    BY <2>7, <2>8 DEF Streams
<1>3. CASE m.type # "whoami"
  <2>1. /\ m.id # 0 /\ f \in DownMessages(used)
        /\ \A c \in Browsers : down'[c] = IF conn[c] = m.id THEN Append(down[c], f) ELSE down[c]
    BY <1>1, <1>3
  <2>2. ~IsList(f) /\ f.type # "init" /\ f.id = conn[b] /\ conn[b] \in clients
    BY <1>1, <1>3 DEF UpMessages, Messages, IsList, Streams, Stream
  <2> HIDE DEF f, m
  <2>3. ASSUME NEW c \in Browsers PROVE Stream(c)'
    <3>1. Stream(c) /\ conn'[c] = conn[c] /\ page'[c] = page[c]
      BY <1>1 DEF Streams
    <3>2. CASE conn[c] = m.id
      <4>1. down'[c] = Append(down[c], f) /\ conn[c] # 0
        BY <2>1, <3>2
      <4> QED
        BY <1>1, <2>1, <2>2, <3>1, <4>1, StreamTold
    <3>3. CASE conn[c] # m.id
      BY <1>1, <2>1, <3>1, <3>3, StreamSame
    <3> QED
      BY <3>2, <3>3
  <2> QED
    BY <2>3 DEF Streams
<1> QED
  BY <1>2, <1>3

LEMMA StreamsReceived == \A b \in Browsers : TypeOK /\ Streams /\ Receive(b) => Streams'
<1> SUFFICES ASSUME TypeOK, Streams, NEW b \in Browsers, Receive(b) PROVE Streams'
  OBVIOUS
<1>0. Stream(b)
  BY DEF Streams
<1>1. ASSUME Stream(b)', UNCHANGED net, \A c \in Browsers \ {b} : down'[c] = down[c] /\ page'[c] = page[c]
      PROVE  Streams'
  <2>1. \A c \in Browsers \ {b} : Stream(c)'
    BY <1>1, StreamSame DEF Streams, net
  <2> QED
    BY <1>1, <2>1 DEF Streams
<1>2. CASE Ignore(b)
  <2>1. /\ page[b].open # "yes" /\ down[b] # <<>> /\ down'[b] = Tail(down[b]) /\ page' = page
        /\ UNCHANGED net /\ \A c \in Browsers \ {b} : down'[c] = down[c]
    BY <1>2 DEF Ignore, TypeOK
  <2>2. Stream(b)'
    BY <1>0, <2>1, StreamTaken
  <2> QED
    BY <1>1, <2>1, <2>2
<1>3. CASE OnInit(b)
  <2>1. /\ down[b] # <<>> /\ down'[b] = Tail(down[b]) /\ UNCHANGED net /\ Head(down[b]).type = "init"
        /\ \A c \in Browsers \ {b} : down'[c] = down[c]
    BY <1>3, HearsDoes DEF OnInit
  <2>2. /\ page'[b].open = page[b].open /\ page'[b].me = Head(down[b]).id /\ page'[b].list = page[b].list
        /\ \A c \in Browsers \ {b} : page'[c] = page[c]
    BY <1>3, InitDoes
  <2>3. Stream(b)'
    BY <1>0, <2>1, <2>2, StreamTaken DEF IsList
  <2> QED
    BY <1>1, <2>1, <2>2, <2>3
<1>4. CASE OnClients(b)
  <2>1. /\ down[b] # <<>> /\ down'[b] = Tail(down[b]) /\ UNCHANGED net /\ Head(down[b]).type = "clients"
        /\ \A c \in Browsers \ {b} : down'[c] = down[c]
    BY <1>4, HearsDoes DEF OnClients
  <2>2. /\ page'[b].open = page[b].open /\ page'[b].me = page[b].me /\ page'[b].list = Head(down[b]).list
        /\ \A c \in Browsers \ {b} : page'[c] = page[c]
    BY <1>4, ClientsDoes
  <2>3. Stream(b)'
    BY <1>0, <2>1, <2>2, StreamTaken DEF IsList
  <2> QED
    BY <1>1, <2>1, <2>2, <2>3
<1>5. CASE OnOffer(b) \/ OnAnswer(b)
  <2>1. /\ down[b] # <<>> /\ down'[b] = Tail(down[b]) /\ UNCHANGED net
        /\ Head(down[b]).type \in {"offer", "answer"}
        /\ \A c \in Browsers \ {b} : down'[c] = down[c]
    BY <1>5, HearsDoes DEF OnOffer, OnAnswer
  <2>2. /\ page'[b].open = page[b].open /\ page'[b].me = page[b].me /\ page'[b].list = page[b].list
        /\ \A c \in Browsers \ {b} : page'[c] = page[c]
    <3>1. CASE OnOffer(b)
      BY <3>1, OfferDoes DEF Kin
    <3>2. CASE OnAnswer(b)
      BY <3>2, AnswerDoes DEF Kin
    <3> QED
      BY <1>5, <3>1, <3>2
  <2>3. Stream(b)'
    BY <1>0, <2>1, <2>2, StreamTaken DEF IsList
  <2> QED
    BY <1>1, <2>1, <2>2, <2>3
<1> QED
  BY <1>2, <1>3, <1>4, <1>5 DEF Receive

LEMMA StreamsKept == TypeOK /\ Streams /\ Next => Streams'
<1> SUFFICES ASSUME TypeOK, Streams, Next PROVE Streams'
  OBVIOUS
<1>1. CASE Notice
  <2>1. PICK id \in clients :
           /\ clients' = clients \ {id} /\ \A b \in Browsers : conn[b] # id
           /\ \A c \in Browsers :
                 down'[c] = IF conn[c] # 0 THEN Append(down[c], List_(clients')) ELSE down[c]
           /\ UNCHANGED <<conn, used, page, up, turns>>
    BY <1>1, NoticeDoes
  <2>2. ASSUME NEW c \in Browsers PROVE Stream(c)'
    <3>1. /\ Stream(c) /\ conn'[c] = conn[c] /\ (conn[c] # 0 => conn[c] \in clients')
          /\ used \subseteq used /\ clients' \in SUBSET used /\ page'[c] = page[c]
      BY <2>1 DEF Streams, Stream, TypeOK
    <3> QED
      BY <2>1, <3>1, StreamListed
  <2> QED
    BY <2>2 DEF Streams
<1>2. ASSUME NEW b \in Browsers, Stream(b)', conn' = conn, clients' = clients, down' = down,
             \A c \in Browsers \ {b} : page'[c] = page[c]
      PROVE  Streams'
  <2>1. \A c \in Browsers \ {b} : Stream(c)'
    BY <1>2, StreamSame DEF Streams
  <2> QED
    BY <1>2, <2>1 DEF Streams
<1>3. ASSUME NEW b \in Browsers, Drop(b) PROVE Streams'
  <2>1. /\ conn'[b] = 0 /\ down'[b] = <<>> /\ clients' = clients
        /\ \A c \in Browsers \ {b} : conn'[c] = conn[c] /\ down'[c] = down[c] /\ page'[c] = page[c]
    BY <1>3, DropDoes
  <2>2. Stream(b)'
    BY <2>1 DEF Stream, Tuned, Announced
  <2>3. \A c \in Browsers \ {b} : Stream(c)'
    BY <2>1, StreamSame DEF Streams
  <2> QED
    BY <2>2, <2>3 DEF Streams
<1>4. ASSUME NEW b \in Browsers, Open(b) PROVE Streams'
  <2>1. /\ conn' = conn /\ clients' = clients /\ down' = down /\ page'[b].me = 0 /\ page'[b].list = {}
        /\ page[b].open = "no" /\ \A c \in Browsers \ {b} : page'[c] = page[c]
    BY <1>4, OpenDoes DEF Open, net
  <2>2. Stream(b)'
    BY <2>1 DEF Streams, Stream, Tuned, Announced, Latest
  <2> QED
    BY <1>2, <2>1, <2>2
<1>5. ASSUME NEW b \in Browsers, Leave(b) PROVE Streams'
  <2>1. /\ conn' = conn /\ clients' = clients /\ down' = down /\ page'[b].open = "left"
        /\ \A c \in Browsers \ {b} : page'[c] = page[c]
    BY <1>5, LeaveDoes DEF Leave, net
  <2>2. Stream(b)'
    BY <2>1 DEF Streams, Stream, Tuned, Announced, Latest
  <2> QED
    BY <1>2, <2>1, <2>2
<1>6. ASSUME NEW b \in Browsers, Press(b) \/ Ready(b) \/ Finish(b) PROVE Streams'
  <2>1. conn' = conn /\ clients' = clients /\ down' = down
    BY <1>6 DEF Press, Ready, Finish, Created, Offered, Answered, Awaited, net
  <2>2. /\ page'[b].open = page[b].open /\ page'[b].me = page[b].me /\ page'[b].list = page[b].list
        /\ \A c \in Browsers \ {b} : page'[c] = page[c]
    <3>1. CASE Press(b)
      BY <3>1, PressDoes DEF Kin
    <3>2. CASE Ready(b)
      BY <3>2, ReadyDoes
    <3>3. CASE Finish(b)
      <4>1. PICK t \in page[b].tasks : Created(b, t) \/ Offered(b, t) \/ Answered(b, t)
        BY <3>3 DEF Finish
      <4>2. CASE Created(b, t)
        BY <4>2, CreatedDoes DEF Kin
      <4>3. CASE Offered(b, t)
        BY <4>3, OfferedDoes DEF Kin
      <4>4. CASE Answered(b, t)
        BY <4>4, AnsweredDoes DEF Kin
      <4> QED
        BY <4>1, <4>2, <4>3, <4>4
    <3> QED
      BY <1>6, <3>1, <3>2, <3>3
  <2>3. Stream(b)'
    BY <2>1, <2>2, StreamSame DEF Streams
  <2> QED
    BY <1>2, <2>1, <2>2, <2>3
<1> QED
  BY <1>1, <1>3, <1>4, <1>5, <1>6, StreamsConnected, StreamsServed, StreamsReceived DEF Next

-----------------------------------------------------------------------------
(* Who offers *)

\* A browser offers a connection to lesser ids only, and has none while it has no id.
Lower(b) ==
    /\ conn[b] = 0 => page[b].tasks = {} /\ page[b].pcs = {}
    /\ \A t \in page[b].tasks : t.kind = "offer" \/ (t.kind = "create" /\ t.sdp = 0) => t.peer < conn[b]
    /\ \A c \in page[b].pcs : c.state = "offered" => c.peer < conn[b]
Lowers == Kept({"button", "late", "leave"}) => \A b \in Browsers : Lower(b)

LEMMA LowersInit == Init /\ broken = {} => Lowers
BY DEF Init, Lowers, Lower, NewPage

LEMMA LowerSame ==
  ASSUME NEW b \in Browsers, Lower(b), conn'[b] = conn[b],
         page'[b].tasks = page[b].tasks, page'[b].pcs = page[b].pcs
  PROVE  Lower(b)'
BY DEF Lower

\* One more task, of a browser that has an id.
LEMMA LowerTask ==
  ASSUME NEW b \in Browsers, Lower(b), conn' = conn, conn[b] # 0, NEW T,
         page'[b].tasks \subseteq page[b].tasks \cup T, page'[b].pcs \subseteq page[b].pcs,
         \A t \in T : t.kind = "offer" \/ (t.kind = "create" /\ t.sdp = 0) => t.peer < conn[b]
  PROVE  Lower(b)'
BY DEF Lower

LEMMA LowersReceived ==
  ASSUME TypeOK, Streams, NEW b \in Browsers, Receive(b), Lower(b)
  PROVE  /\ Lower(b)' /\ conn' = conn /\ \A c \in Browsers \ {b} : page'[c] = page[c]
<1>0. \A type : Hears(b, type) => conn' = conn /\ conn[b] # 0
  BY DEF Hears, net, Streams, Stream, Tuned
<1>1. CASE Ignore(b)
  BY <1>1, LowerSame DEF Ignore, net
<1>2. CASE OnInit(b)
  BY <1>0, <1>2, InitDoes, LowerSame DEF OnInit
<1>3. CASE OnClients(b)
  <2> DEFINE p == page[b]
             q == page'[b]
             list == Head(down[b]).list
             made == Made(p, Call(p, list), 0)
  <2>1. /\ \A c \in Browsers \ {b} : page'[c] = page[c]
        /\ p.open = "yes"
        /\ p.me = 0 => q.pcs = p.pcs /\ q.map = p.map /\ q.tasks = p.tasks
        /\ p.me # 0 => q.pcs = {} /\ q.map = <<>> /\ q.tasks = p.tasks \cup made
        /\ \A t \in made : t.peer < p.me
    BY <1>3, ClientsDoes
  <2>2. conn' = conn /\ conn[b] # 0 /\ down[b] # <<>> /\ Head(down[b]) = down[b][1] /\ Head(down[b]).type = "clients"
    BY <1>0, <1>3, HeadTyped DEF OnClients, Hears
  <2>3. p.me \in {0, conn[b]}
    BY <2>1, <2>2 DEF Streams, Stream, Tuned
  <2> HIDE DEF made
  <2>4. CASE p.me = 0
    BY <2>1, <2>2, <2>4, LowerSame
  <2>5. CASE p.me # 0
    <3>1. \A t \in made : t.peer < conn[b]
      BY <2>1, <2>3, <2>5
    <3>2. q.tasks \subseteq p.tasks \cup made /\ q.pcs \subseteq p.pcs
      BY <2>1, <2>5
    <3> QED
      BY <2>1, <2>2, <3>1, <3>2, LowerTask
  <2> QED
    BY <2>4, <2>5
<1>4. CASE OnOffer(b)
  <2> DEFINE p == page[b]
             q == page'[b]
             m == Head(down[b])
  <2>1. /\ \A c \in Browsers \ {b} : page'[c] = page[c]
        /\ q.pcs = p.pcs /\ m.sdp \in Nat \ {0}
        /\ m.id \in DOMAIN p.map => q.tasks = p.tasks \cup {Answer(p, m.id, m.sdp)}
        /\ m.id \notin DOMAIN p.map => \E t \in Tasks(used) :
              t.kind = "create" /\ t.peer = m.id /\ t.sdp = m.sdp /\ q.tasks = p.tasks \cup {t}
    BY <1>4, OfferDoes
  <2>2. conn' = conn /\ conn[b] # 0
    BY <1>0, <1>4 DEF OnOffer
  <2>3. CASE m.id \in DOMAIN p.map
    <3>1. Answer(p, m.id, m.sdp).kind = "answer"
      BY DEF Answer
    <3> HIDE DEF m, p, q
    <3>2. \A t \in {Answer(p, m.id, m.sdp)} :
             t.kind = "offer" \/ (t.kind = "create" /\ t.sdp = 0) => t.peer < conn[b]
      BY <3>1
    <3> QED
      BY <2>1, <2>2, <2>3, <3>2, LowerTask DEF p, q
  <2>4. CASE m.id \notin DOMAIN p.map
    <3>1. PICK t \in Tasks(used) : t.kind = "create" /\ t.sdp # 0 /\ q.tasks = p.tasks \cup {t}
      BY <2>1, <2>4
    <3>2. \A u \in {t} : u.kind = "offer" \/ (u.kind = "create" /\ u.sdp = 0) => u.peer < conn[b]
      BY <3>1
    <3> QED
      BY <2>1, <2>2, <3>1, <3>2, LowerTask
  <2> QED
    BY <2>1, <2>2, <2>3, <2>4
<1>5. CASE OnAnswer(b)
  <2> DEFINE p == page[b]
             q == page'[b]
             m == Head(down[b])
  <2>1. /\ \A c \in Browsers \ {b} : page'[c] = page[c]
        /\ \/ q = p
           \/ \E c \in p.pcs : /\ q.tasks = p.tasks
                               /\ [c EXCEPT !.state = "joined", !.with = m.sdp] \in Connections(used)
                               /\ q.pcs = (p.pcs \ {c}) \cup {[c EXCEPT !.state = "joined", !.with = m.sdp]}
    BY <1>5, AnswerDoes
  <2>2. conn' = conn /\ conn[b] # 0
    BY <1>0, <1>5 DEF OnAnswer
  <2>3. CASE q = p
    BY <2>1, <2>2, <2>3, LowerSame
  <2>4. ASSUME NEW c \in p.pcs, q.tasks = p.tasks, NEW d, d.state = "joined",
               q.pcs = (p.pcs \ {c}) \cup {d}
        PROVE  Lower(b)'
    BY <2>2, <2>4 DEF Lower
  <2>5. \A c \in p.pcs : [c EXCEPT !.state = "joined", !.with = m.sdp].state = "joined"
    <3>1. p.pcs \subseteq Connections(used)
      BY PageTyped
    <3> QED
      BY <3>1 DEF Connections
  <2> QED
    BY <2>1, <2>2, <2>3, <2>4, <2>5
<1> QED
  BY <1>1, <1>2, <1>3, <1>4, <1>5 DEF Receive

LEMMA LowersFinished ==
  ASSUME TypeOK, NEW b \in Browsers, Finish(b), Lower(b)
  PROVE  /\ Lower(b)' /\ conn' = conn /\ \A c \in Browsers \ {b} : page'[c] = page[c]
<1> DEFINE p == page[b]
           q == page'[b]
<1>1. PICK t \in p.tasks : Created(b, t) \/ Offered(b, t) \/ Answered(b, t)
  BY DEF Finish
<1>2. conn' = conn /\ conn[b] # 0
  BY <1>1 DEF Created, Offered, Answered, Awaited, net, Lower
<1>3. CASE Created(b, t)
  <2> DEFINE d == NewConnection(t.n, t.peer)
  <2>1. /\ \A c \in Browsers \ {b} : page'[c] = page[c]
        /\ t.kind = "create" /\ (q.pcs = p.pcs \/ q.pcs = p.pcs \cup {d})
        /\ \/ q.tasks = p.tasks \ {t}
           \/ \E u \in Tasks(used) : /\ q.tasks = (p.tasks \ {t}) \cup {u} /\ u.peer = t.peer
                                     /\ u.kind = "answer" \/ (u.kind = "offer" /\ t.sdp = 0)
    <3>1. /\ \A c \in Browsers \ {b} : page'[c] = page[c]
          /\ t.kind = "create"
          /\ t.peer \in DOMAIN p.map => q.pcs = p.pcs
          /\ t.peer \notin DOMAIN p.map => q.pcs = p.pcs \cup {d}
      BY <1>3, CreatedDoes
    <3>2. /\ t.sdp # 0 => \E u \in Tasks(used) :
               u.kind = "answer" /\ u.peer = t.peer /\ q.tasks = (p.tasks \ {t}) \cup {u}
          /\ t.sdp = 0 /\ t.peer \in DOMAIN p.map => q.tasks = p.tasks \ {t}
          /\ t.sdp = 0 /\ t.peer \notin DOMAIN p.map => \E u \in Tasks(used) :
               u.kind = "offer" /\ u.peer = t.peer /\ q.tasks = (p.tasks \ {t}) \cup {u}
      BY <1>3, CreatedDoes
    <3> HIDE DEF p, q, d
    <3> QED
      BY <3>1, <3>2
  <2>2. d.state = "new"
    BY DEF NewConnection
  <2> HIDE DEF d, p, q
  <2>3. Lower(b)'
    <3>1. \A c \in q.pcs : c \in p.pcs \/ c.state = "new"
      BY <2>1, <2>2
    <3>2. \A u \in q.tasks : \/ u \in p.tasks
                             \/ u.peer = t.peer /\ (u.kind = "answer" \/ (u.kind = "offer" /\ t.sdp = 0))
      BY <2>1
    <3> QED
      BY <1>1, <1>2, <2>1, <3>1, <3>2 DEF Lower, p, q
  <2> QED
    BY <1>2, <2>1, <2>3
<1>4. CASE Offered(b, t)
  <2>1. /\ \A c \in Browsers \ {b} : page'[c] = page[c]
        /\ t.kind = "offer" /\ q.tasks = p.tasks \ {t}
        /\ \/ q.pcs = p.pcs
           \/ \E c \in p.pcs : /\ c.peer = t.peer
                               /\ [c EXCEPT !.state = "offered", !.with = t.sdp] \in Connections(used)
                               /\ q.pcs = (p.pcs \ {c}) \cup {[c EXCEPT !.state = "offered", !.with = t.sdp]}
    BY <1>4, OfferedDoes
  <2>2. \A c \in p.pcs : [c EXCEPT !.state = "offered", !.with = t.sdp].peer = c.peer
    <3>1. p.pcs \subseteq Connections(used)
      BY PageTyped
    <3> QED
      BY <3>1 DEF Connections
  <2> HIDE DEF p, q
  <2>3. \A c \in q.pcs : c \in p.pcs \/ c.peer = t.peer
    BY <2>1, <2>2
  <2> QED
    BY <1>1, <1>2, <2>1, <2>3 DEF Lower, p, q
<1>5. CASE Answered(b, t)
  <2>1. /\ \A c \in Browsers \ {b} : page'[c] = page[c]
        /\ q.tasks = p.tasks \ {t}
        /\ \/ q.pcs = p.pcs
           \/ \E c \in p.pcs : /\ [c EXCEPT !.state = "accepted", !.with = t.sdp] \in Connections(used)
                               /\ q.pcs = (p.pcs \ {c}) \cup {[c EXCEPT !.state = "accepted", !.with = t.sdp]}
    BY <1>5, AnsweredDoes
  <2>2. \A c \in p.pcs : [c EXCEPT !.state = "accepted", !.with = t.sdp].state = "accepted"
    <3>1. p.pcs \subseteq Connections(used)
      BY PageTyped
    <3> QED
      BY <3>1 DEF Connections
  <2> HIDE DEF p, q
  <2>3. \A c \in q.pcs : c \in p.pcs \/ c.state = "accepted"
    BY <2>1, <2>2
  <2> QED
    BY <1>1, <1>2, <2>1, <2>3 DEF Lower, p, q
<1> QED
  BY <1>1, <1>3, <1>4, <1>5

LEMMA LowersKept ==
  ASSUME TypeOK, Streams, Clean, Lowers, Disciplined
  PROVE  Lowers'
<1> SUFFICES ASSUME Kept({"button", "late", "leave"})' PROVE \A b \in Browsers : Lower(b)'
  BY DEF Lowers
<1>1. /\ NothingLate /\ LeftAtRest /\ \A b \in Browsers : ~Press(b)
      /\ Kept({"button", "late", "leave"})
  BY KeptStep
<1>2. (\A b \in Browsers : Lower(b)) /\ \A b \in Browsers : Left(b)
  <2>1. Kept({"leave"})
    BY <1>1 DEF Kept
  <2> QED
    BY <1>1, <2>1 DEF Lowers, Clean
<1>3. ASSUME NEW b \in Browsers, Lower(b)', conn' = conn, \A c \in Browsers \ {b} : page'[c] = page[c]
      PROVE  \A c \in Browsers : Lower(c)'
  <2>1. \A c \in Browsers \ {b} : Lower(c)'
    BY <1>2, <1>3, LowerSame
  <2> QED
    BY <1>3, <2>1
<1>4. CASE Notice
  BY <1>2, <1>4, LowerSame DEF Notice
<1>5. ASSUME NEW b \in Browsers, Connect(b) PROVE \A c \in Browsers : Lower(c)'
  <2>1. conn[b] = 0 /\ page' = page /\ \A c \in Browsers \ {b} : conn'[c] = conn[c]
    BY <1>5, ConnectDoes
  <2>2. Lower(b)'
    BY <1>2, <2>1 DEF Lower
  <2>3. \A c \in Browsers \ {b} : Lower(c)'
    BY <1>2, <2>1, LowerSame
  <2> QED
    BY <2>2, <2>3
<1>6. ASSUME NEW b \in Browsers, Drop(b) PROVE \A c \in Browsers : Lower(c)'
  <2>1. /\ \A c \in Browsers \ {b} : conn'[c] = conn[c] /\ page'[c] = page[c]
        /\ page'[b].tasks = page[b].tasks /\ page[b].tasks = {}
        /\ page[b].open = "yes" => page'[b].pcs = {}
        /\ page[b].open # "yes" => page'[b] = page[b]
    BY <1>1, <1>6, DropDoes DEF NothingLate
  <2>2. page'[b].pcs = {}
    <3>1. Sound(used, page[b]) /\ page[b].open \in {"no", "yes", "left"}
      BY PageTyped DEF Pages
    <3> QED
      BY <1>2, <2>1, <3>1 DEF Sound, Left
  <2>3. Lower(b)'
    BY <2>1, <2>2 DEF Lower
  <2>4. \A c \in Browsers \ {b} : Lower(c)'
    BY <1>2, <2>1, LowerSame
  <2> QED
    BY <2>3, <2>4
<1>7. ASSUME NEW b \in Browsers, Serve(b) PROVE \A c \in Browsers : Lower(c)'
  BY <1>2, <1>7, LowerSame DEF Serve, net
<1>8. ASSUME NEW b \in Browsers, Open(b) PROVE \A c \in Browsers : Lower(c)'
  <2>1. conn' = conn /\ Lower(b)' /\ \A c \in Browsers \ {b} : page'[c] = page[c]
    BY <1>8, OpenDoes DEF Open, net, Lower
  <2> QED
    BY <1>3, <2>1
<1>9. ASSUME NEW b \in Browsers, Leave(b) PROVE \A c \in Browsers : Lower(c)'
  <2>1. conn' = conn /\ page[b].tasks = {}
    BY <1>1, <1>9 DEF Leave, net, LeftAtRest
  <2>2. Lower(b)' /\ \A c \in Browsers \ {b} : page'[c] = page[c]
    BY <1>9, <2>1, LeaveDoes DEF Lower
  <2> QED
    BY <1>3, <2>1, <2>2
<1>10. ASSUME NEW b \in Browsers, Ready(b) PROVE \A c \in Browsers : Lower(c)'
  <2>1. conn' = conn /\ Lower(b)' /\ \A c \in Browsers \ {b} : page'[c] = page[c]
    BY <1>2, <1>10, ReadyDoes, LowerSame DEF Ready, net
  <2> QED
    BY <1>3, <2>1
<1>11. ASSUME NEW b \in Browsers, Receive(b) PROVE \A c \in Browsers : Lower(c)'
  BY <1>2, <1>3, <1>11, LowersReceived
<1>12. ASSUME NEW b \in Browsers, Finish(b) PROVE \A c \in Browsers : Lower(c)'
  BY <1>2, <1>3, <1>12, LowersFinished
<1> QED
  BY <1>1, <1>4, <1>5, <1>6, <1>7, <1>8, <1>9, <1>10, <1>11, <1>12 DEF Disciplined, Next

RadioInv == TypeOK /\ Streams /\ Clean

LEMMA RadioInit == DisciplineInit => RadioInv
BY TypeInit, StreamsInit, CleanInit DEF DisciplineInit, RadioInv

LEMMA RadioStep == RadioInv /\ [Disciplined]_<<vars, broken>> => RadioInv'
<1> SUFFICES ASSUME RadioInv, [Disciplined]_<<vars, broken>> PROVE RadioInv'
  OBVIOUS
<1>1. CASE UNCHANGED <<vars, broken>>
  <2>1. TypeOK'
    BY TypeKept DEF RadioInv
  <2>2. page' = page /\ conn' = conn /\ clients' = clients /\ down' = down /\ broken' = broken
    BY <1>1 DEF vars, net
  <2>3. Streams'
    BY <2>2, StreamSame DEF Streams, RadioInv
  <2>4. Clean'
    BY <2>2 DEF Clean, Left, Kept, RadioInv
  <2> QED
    BY <2>1, <2>3, <2>4 DEF RadioInv
<1>2. CASE Disciplined
  BY <1>2, TypeKept, StreamsKept, CleanKept DEF RadioInv, Disciplined
<1> QED
  BY <1>1, <1>2

\* Two browsers never wait for the answers to offers they made each other: of two only
\* the one with the greater id offers, unless the button was pressed, or something that
\* was awaited came after the connection was lost or the page left.
THEOREM NobodyGlares == DisciplineSpec => []NoGlare
<1>1. DisciplineInit => RadioInv /\ Lowers
  BY RadioInit, LowersInit DEF DisciplineInit
<1>2. RadioInv /\ Lowers /\ [Disciplined]_<<vars, broken>> => RadioInv' /\ Lowers'
  <2> SUFFICES ASSUME RadioInv, Lowers, [Disciplined]_<<vars, broken>> PROVE Lowers'
    BY RadioStep
  <2>1. CASE UNCHANGED <<vars, broken>>
    BY <2>1, LowerSame DEF vars, net, Lowers, Kept
  <2>2. CASE Disciplined
    BY <2>2, LowersKept DEF RadioInv
  <2> QED
    BY <2>1, <2>2
<1>3. RadioInv /\ Lowers => NoGlare
  <2> SUFFICES ASSUME RadioInv, Lowers, Kept({"button", "late", "leave"}),
                      NEW b \in Browsers, NEW c \in Browsers, NEW x \in page[b].pcs, NEW y \in page[c].pcs,
                      x.state = "offered", y.state = "offered", x.peer = conn[c], y.peer = conn[b]
               PROVE  FALSE
    BY DEF NoGlare
  <2>1. x.peer < conn[b] /\ y.peer < conn[c]
    BY DEF Lowers, Lower
  <2>2. conn[b] \in Nat /\ conn[c] \in Nat
    <3>1. conn[b] \in used \cup {0} /\ conn[c] \in used \cup {0} /\ used \subseteq Ids
      BY DEF RadioInv, TypeOK
    <3>2. \A i \in used : i \in Nat
      BY <3>1, FoundIds
    <3> QED
      BY <3>1, <3>2
  <2> QED
    BY <2>1, <2>2
<1> QED
  BY <1>1, <1>2, <1>3, PTL DEF DisciplineSpec, Disciplined

-----------------------------------------------------------------------------
(* Whom the page knows *)

\* The connections of a page, and those it is about to make, are to clients of its list.
Listed(b) ==
    page[b].open = "yes" /\ page[b].list # {} =>
        /\ DOMAIN page[b].map \subseteq page[b].list
        /\ \A t \in page[b].tasks : t.kind = "create" => t.peer \in page[b].list
AllListed == Kept({"late", "early"}) => \A b \in Browsers : Listed(b)

LEMMA ListedInit == Init /\ broken = {} => AllListed
BY DEF Init, AllListed, Listed, NewPage

LEMMA ListedSame ==
  ASSUME NEW b \in Browsers, Listed(b), page'[b].open = page[b].open, page'[b].list = page[b].list,
         DOMAIN page'[b].map \subseteq DOMAIN page[b].map, page'[b].tasks \subseteq page[b].tasks
  PROVE  Listed(b)'
BY DEF Listed

LEMMA ListedMore ==
  ASSUME NEW b \in Browsers, Listed(b), page'[b].open = page[b].open, page'[b].list = page[b].list,
         DOMAIN page'[b].map \subseteq DOMAIN page[b].map, NEW t,
         page'[b].tasks \subseteq page[b].tasks \cup {t},
         page[b].open = "yes" /\ t.kind = "create" => page[b].list = {} \/ t.peer \in page[b].list
  PROVE  Listed(b)'
BY DEF Listed

LEMMA ListedReceived ==
  ASSUME TypeOK, Streams, NothingLate, IdBefore, NEW b \in Browsers, Receive(b), Listed(b)
  PROVE  Listed(b)' /\ \A c \in Browsers \ {b} : page'[c] = page[c]
<1>1. CASE Ignore(b)
  BY <1>1, ListedSame DEF Ignore
<1>2. CASE OnInit(b)
  BY <1>2, InitDoes, ListedSame
<1>3. CASE OnClients(b)
  <2> DEFINE p == page[b]
             q == page'[b]
             list == Head(down[b]).list
             made == Made(p, Call(p, list), 0)
  <2>1. /\ \A c \in Browsers \ {b} : page'[c] = page[c]
        /\ q.list = list
        /\ p.me # 0 => q.map = <<>> /\ q.tasks = p.tasks \cup made
        /\ \A t \in made : t.peer \in list
    BY <1>3, ClientsDoes
  <2>2. p.me # 0 /\ p.tasks = {}
    BY <1>3 DEF IdBefore, NothingLate
  <2> HIDE DEF made
  <2> QED
    BY <2>1, <2>2, MapEmpty DEF Listed
<1>4. CASE OnOffer(b)
  <2> DEFINE p == page[b]
             q == page'[b]
             m == Head(down[b])
  <2>1. /\ \A c \in Browsers \ {b} : page'[c] = page[c]
        /\ Kin(p, q) /\ p.open = "yes" /\ q.map = p.map /\ m.type = "offer"
        /\ m.id \in DOMAIN p.map => q.tasks = p.tasks \cup {Answer(p, m.id, m.sdp)}
        /\ m.id \notin DOMAIN p.map => \E t \in Tasks(used) :
              t.kind = "create" /\ t.peer = m.id /\ t.sdp = m.sdp /\ q.tasks = p.tasks \cup {t}
    BY <1>4, OfferDoes
  <2>2. p.list = {} \/ m.id \in p.list
    <3>1. down[b] # <<>> /\ m = down[b][1] /\ Len(down[b]) \in Nat \ {0} /\ Announced(down[b], p)
      BY <1>4, HeadTyped DEF OnOffer, Hears, Streams, Stream
    <3>2. 1 \in DOMAIN down[b] /\ \A j \in DOMAIN down[b] : j >= 1
      BY <3>1 DEF TypeOK
    <3> QED
      BY <2>1, <3>1, <3>2 DEF Announced
  <2>3. CASE m.id \in DOMAIN p.map
    <3>1. Answer(p, m.id, m.sdp).kind = "answer"
      BY DEF Answer
    <3> HIDE DEF m, p, q
    <3> QED
      BY <2>1, <2>3, <3>1, ListedMore DEF p, q, Kin
  <2>4. CASE m.id \notin DOMAIN p.map
    <3>1. PICK t \in Tasks(used) : t.kind = "create" /\ t.peer = m.id /\ q.tasks = p.tasks \cup {t}
      BY <2>1, <2>4
    <3> QED
      BY <2>1, <2>2, <3>1, ListedMore DEF Kin
  <2> QED
    BY <2>1, <2>3, <2>4
<1>5. CASE OnAnswer(b)
  <2>1. /\ \A c \in Browsers \ {b} : page'[c] = page[c]
        /\ page'[b].open = page[b].open /\ page'[b].list = page[b].list /\ page'[b].map = page[b].map
        /\ page'[b].tasks = page[b].tasks
    BY <1>5, AnswerDoes DEF Kin
  <2> QED
    BY <2>1, ListedSame
<1> QED
  BY <1>1, <1>2, <1>3, <1>4, <1>5 DEF Receive

LEMMA ListedFinished ==
  ASSUME TypeOK, NEW b \in Browsers, Finish(b), Listed(b)
  PROVE  Listed(b)' /\ \A c \in Browsers \ {b} : page'[c] = page[c]
<1> DEFINE p == page[b]
           q == page'[b]
<1>1. PICK t \in p.tasks : Created(b, t) \/ Offered(b, t) \/ Answered(b, t)
  BY DEF Finish
<1>2. CASE Created(b, t)
  <2>1. /\ \A c \in Browsers \ {b} : page'[c] = page[c]
        /\ Kin(p, q) /\ t.kind = "create" /\ DOMAIN q.map = DOMAIN p.map \cup {t.peer}
    BY <1>2, CreatedDoes
  <2>2. /\ t.sdp # 0 => \E u \in Tasks(used) :
             u.kind = "answer" /\ q.tasks = (p.tasks \ {t}) \cup {u}
        /\ t.sdp = 0 /\ t.peer \in DOMAIN p.map => q.tasks = p.tasks \ {t}
        /\ t.sdp = 0 /\ t.peer \notin DOMAIN p.map => \E u \in Tasks(used) :
             u.kind = "offer" /\ q.tasks = (p.tasks \ {t}) \cup {u}
    BY <1>2, CreatedDoes
  <2> HIDE DEF p, q
  <2>3. \A u \in q.tasks : u.kind = "create" => u \in p.tasks
    BY <2>2
  <2> QED
    BY <1>1, <2>1, <2>3 DEF Listed, Kin, p, q
<1>3. CASE Offered(b, t)
  <2>1. /\ \A c \in Browsers \ {b} : page'[c] = page[c]
        /\ Kin(p, q) /\ q.map = p.map /\ q.tasks = p.tasks \ {t}
    BY <1>3, OfferedDoes
  <2> QED
    BY <2>1, ListedSame DEF Kin
<1>4. CASE Answered(b, t)
  <2>1. /\ \A c \in Browsers \ {b} : page'[c] = page[c]
        /\ Kin(p, q) /\ q.map = p.map /\ q.tasks = p.tasks \ {t}
    BY <1>4, AnsweredDoes
  <2> QED
    BY <2>1, ListedSame DEF Kin
<1> QED
  BY <1>1, <1>2, <1>3, <1>4

LEMMA ListedKept ==
  ASSUME TypeOK, Streams, AllListed, Disciplined
  PROVE  AllListed'
<1> SUFFICES ASSUME Kept({"late", "early"})' PROVE \A b \in Browsers : Listed(b)'
  BY DEF AllListed
<1>1. NothingLate /\ IdBefore /\ Kept({"late", "early"})
  BY KeptStep
<1>2. \A b \in Browsers : Listed(b)
  BY <1>1 DEF AllListed
<1>3. ASSUME NEW b \in Browsers, Listed(b)', \A c \in Browsers \ {b} : page'[c] = page[c]
      PROVE  \A c \in Browsers : Listed(c)'
  <2>1. \A c \in Browsers \ {b} : Listed(c)'
    BY <1>2, <1>3, ListedSame
  <2> QED
    BY <1>3, <2>1
<1>4. CASE page' = page
  BY <1>2, <1>4, ListedSame
<1>5. ASSUME NEW b \in Browsers, Drop(b) PROVE \A c \in Browsers : Listed(c)'
  <2>1. /\ \A c \in Browsers \ {b} : page'[c] = page[c]
        /\ Kin(page[b], page'[b]) /\ page'[b].tasks = page[b].tasks
        /\ page[b].open = "yes" => page'[b].map = <<>>
        /\ page[b].open # "yes" => page'[b] = page[b]
    BY <1>5, DropDoes
  <2>2. Listed(b)'
    BY <1>2, <2>1, MapEmpty DEF Listed, Kin
  <2> QED
    BY <1>3, <2>1, <2>2
<1>6. ASSUME NEW b \in Browsers, Open(b) \/ Leave(b) PROVE \A c \in Browsers : Listed(c)'
  <2>1. Listed(b)' /\ \A c \in Browsers \ {b} : page'[c] = page[c]
    BY <1>6, OpenDoes, LeaveDoes DEF Listed
  <2> QED
    BY <1>3, <2>1
<1>7. ASSUME NEW b \in Browsers, Press(b) PROVE \A c \in Browsers : Listed(c)'
  <2>1. PICK t \in Tasks(used) :
           /\ \A c \in Browsers \ {b} : page'[c] = page[c]
           /\ Kin(page[b], page'[b]) /\ page'[b].map = page[b].map
           /\ page'[b].tasks = page[b].tasks \cup {t} /\ t.peer \in page[b].list
    BY <1>7, PressDoes
  <2>2. Listed(b)'
    BY <1>2, <2>1, ListedMore DEF Kin
  <2> QED
    BY <1>3, <2>1, <2>2
<1>8. ASSUME NEW b \in Browsers, Ready(b) PROVE \A c \in Browsers : Listed(c)'
  <2>1. Listed(b)' /\ \A c \in Browsers \ {b} : page'[c] = page[c]
    BY <1>2, <1>8, ReadyDoes, ListedSame
  <2> QED
    BY <1>3, <2>1
<1>9. ASSUME NEW b \in Browsers, Receive(b) PROVE \A c \in Browsers : Listed(c)'
  BY <1>1, <1>2, <1>3, <1>9, ListedReceived
<1>10. ASSUME NEW b \in Browsers, Finish(b) PROVE \A c \in Browsers : Listed(c)'
  BY <1>2, <1>3, <1>10, ListedFinished
<1>11. ASSUME NEW b \in Browsers, Connect(b) \/ Serve(b) PROVE page' = page
  BY <1>11 DEF Connect, Serve
<1>12. Notice => page' = page
  BY DEF Notice
<1> QED
  BY <1>4, <1>5, <1>6, <1>7, <1>8, <1>9, <1>10, <1>11, <1>12 DEF Disciplined, Next

\* Once a page has a list it holds connections to the clients of the list only, unless
\* something that was awaited came after the list or the loss of the server, or the list
\* before the id: who offers is in the list that the server sent before the offer.
THEOREM NobodyIsAGhost == DisciplineSpec => []NoGhost
<1>1. DisciplineInit => RadioInv /\ AllListed
  BY RadioInit, ListedInit DEF DisciplineInit
<1>2. RadioInv /\ AllListed /\ [Disciplined]_<<vars, broken>> => RadioInv' /\ AllListed'
  <2> SUFFICES ASSUME RadioInv, AllListed, [Disciplined]_<<vars, broken>> PROVE AllListed'
    BY RadioStep
  <2>1. CASE UNCHANGED <<vars, broken>>
    BY <2>1, ListedSame DEF vars, AllListed, Kept
  <2>2. CASE Disciplined
    BY <2>2, ListedKept DEF RadioInv
  <2> QED
    BY <2>1, <2>2
<1>3. RadioInv /\ AllListed => NoGhost
  BY DEF AllListed, Listed, NoGhost
<1> QED
  BY <1>1, <1>2, <1>3, PTL DEF DisciplineSpec, Disciplined

-----------------------------------------------------------------------------
(* What an offer becomes *)

OfferIn(q, id, n) == \E i \in DOMAIN q : q[i].type = "offer" /\ q[i].id = id /\ q[i].sdp = n
AnswerIn(q, id, n) == \E i \in DOMAIN q : q[i].type = "answer" /\ q[i].id = id /\ q[i].to = n
ListIn(q) == \E i \in DOMAIN q : IsList(q[i])
TaskFor(T, id, n) == \E t \in T :
    t.peer = id /\ t.sdp = n /\ (t.kind = "answer" \/ (t.kind = "create" /\ n # 0))

\* The offer n of the browser with the id is on its way to c, awaited there, or answered.
Token(c, id, n) == OfferIn(down[c], id, n) \/ TaskFor(page[c].tasks, id, n) \/ AnswerIn(up[c], id, n)

At(f, x, n) == x \in DOMAIN f /\ f[x] = n

\* Offers that wait for the server are those of connections in the map.
Sent(b) == \A i \in DOMAIN up[b] : up[b][i].type = "offer" =>
    /\ page[b].open # "no"
    /\ page[b].open = "yes" => At(page[b].map, up[b][i].id, up[b][i].sdp)

\* Whom an offer came from has the connection, or hears a list before the answer.
Returned(b) == conn[b] # 0 => \A c \in Browsers, n \in Nat : Token(c, conn[b], n) =>
    /\ page[b].open # "no"
    /\ page[b].open = "yes" =>
          /\ DOMAIN page[b].map # {}
          /\ conn[c] # 0 => At(page[b].map, conn[c], n) \/ ListIn(down[b])

Replies(q, p) == \A i \in DOMAIN q : q[i].type = "answer" =>
    /\ p.open # "no"
    /\ p.open = "yes" =>
          /\ DOMAIN p.map # {}
          /\ At(p.map, q[i].id, q[i].to) \/ \E j \in DOMAIN q : j < i /\ IsList(q[j])

Fits(b) == Sent(b) /\ Returned(b) /\ Replies(down[b], page[b])
AllFit == Kept({"list"}) => \A b \in Browsers : Fits(b)

LEMMA InAppended ==
  ASSUME NEW D, NEW q \in Seq(D), NEW m \in D
  PROVE  /\ \A id, n : OfferIn(Append(q, m), id, n) <=>
               OfferIn(q, id, n) \/ (m.type = "offer" /\ m.id = id /\ m.sdp = n)
         /\ \A id, n : AnswerIn(Append(q, m), id, n) <=>
               AnswerIn(q, id, n) \/ (m.type = "answer" /\ m.id = id /\ m.to = n)
         /\ ListIn(Append(q, m)) <=> ListIn(q) \/ IsList(m)
<1> DEFINE r == Append(q, m)
           k == Len(q)
<1>1. /\ k \in Nat /\ DOMAIN q = 1 .. k /\ DOMAIN r = 1 .. k + 1
      /\ \A i \in DOMAIN q : r[i] = q[i]
      /\ r[k + 1] = m
  BY Appended
<1> HIDE DEF r, k
<1>2. \A i \in DOMAIN r : (i \in DOMAIN q /\ r[i] = q[i]) \/ r[i] = m
  BY <1>1
<1>3. (\A i \in DOMAIN q : i \in DOMAIN r /\ r[i] = q[i]) /\ k + 1 \in DOMAIN r /\ r[k + 1] = m
  BY <1>1
<1>4. \A id, n : OfferIn(r, id, n) <=> OfferIn(q, id, n) \/ (m.type = "offer" /\ m.id = id /\ m.sdp = n)
  BY <1>2, <1>3 DEF OfferIn
<1>5. \A id, n : AnswerIn(r, id, n) <=> AnswerIn(q, id, n) \/ (m.type = "answer" /\ m.id = id /\ m.to = n)
  BY <1>2, <1>3 DEF AnswerIn
<1>6. ListIn(r) <=> ListIn(q) \/ IsList(m)
  BY <1>2, <1>3 DEF ListIn
<1> QED
  BY <1>4, <1>5, <1>6 DEF r

LEMMA InTailed ==
  ASSUME NEW D, NEW q \in Seq(D), q # <<>>
  PROVE  /\ \A id, n : OfferIn(Tail(q), id, n) => OfferIn(q, id, n)
         /\ \A id, n : AnswerIn(Tail(q), id, n) => AnswerIn(q, id, n)
         /\ Head(q).type = "offer" => OfferIn(q, Head(q).id, Head(q).sdp)
         /\ Head(q).type = "answer" => AnswerIn(q, Head(q).id, Head(q).to)
         /\ ListIn(q) /\ ~IsList(Head(q)) => ListIn(Tail(q))
<1> DEFINE r == Tail(q)
<1>1. /\ \A i \in DOMAIN r : i + 1 \in DOMAIN q /\ r[i] = q[i + 1]
      /\ \A i \in DOMAIN q : i = 1 \/ (i - 1 \in DOMAIN r /\ r[i - 1] = q[i])
      /\ Head(q) = q[1] /\ 1 \in DOMAIN q
  BY Tailed
<1> HIDE DEF r
<1>2. \A i \in DOMAIN r : \E j \in DOMAIN q : r[i] = q[j]
  BY <1>1
<1>3. \A i \in DOMAIN q : q[i] = Head(q) \/ \E j \in DOMAIN r : q[i] = r[j]
  BY <1>1
<1>4. \A id, n : OfferIn(r, id, n) => OfferIn(q, id, n)
  BY <1>2 DEF OfferIn
<1>5. \A id, n : AnswerIn(r, id, n) => AnswerIn(q, id, n)
  BY <1>2 DEF AnswerIn
<1>6. Head(q).type = "offer" => OfferIn(q, Head(q).id, Head(q).sdp)
  BY <1>1 DEF OfferIn
<1>7. Head(q).type = "answer" => AnswerIn(q, Head(q).id, Head(q).to)
  BY <1>1 DEF AnswerIn
<1>8. ListIn(q) /\ ~IsList(Head(q)) => ListIn(r)
  BY <1>3 DEF ListIn
<1> QED
  BY <1>4, <1>5, <1>6, <1>7, <1>8 DEF r

LEMMA InNothing ==
  /\ \A id, n : ~OfferIn(<<>>, id, n) /\ ~AnswerIn(<<>>, id, n)
  /\ ~ListIn(<<>>) /\ \A p : Replies(<<>>, p)
BY DEF OfferIn, AnswerIn, ListIn, Replies

LEMMA RepliesAppended ==
  ASSUME NEW D, NEW q \in Seq(D), NEW m \in D, NEW p, Replies(q, p),
         m.type = "answer" => /\ p.open # "no"
                              /\ p.open = "yes" => /\ DOMAIN p.map # {}
                                                   /\ At(p.map, m.id, m.to) \/ ListIn(q)
  PROVE  Replies(Append(q, m), p)
<1> DEFINE r == Append(q, m)
           k == Len(q)
<1>1. /\ k \in Nat /\ DOMAIN q = 1 .. k /\ DOMAIN r = 1 .. k + 1
      /\ \A i \in DOMAIN q : r[i] = q[i]
      /\ r[k + 1] = m
  BY Appended
<1> HIDE DEF r, k
<1>2. \A i \in DOMAIN q : i \in DOMAIN r /\ r[i] = q[i] /\ i < k + 1
  BY <1>1
<1> SUFFICES ASSUME NEW i \in DOMAIN r, r[i].type = "answer"
             PROVE  /\ p.open # "no"
                    /\ p.open = "yes" =>
                          /\ DOMAIN p.map # {}
                          /\ At(p.map, r[i].id, r[i].to) \/ \E j \in DOMAIN r : j < i /\ IsList(r[j])
  BY DEF Replies, r
<1>3. CASE i \in DOMAIN q
  <2>1. /\ p.open # "no"
        /\ p.open = "yes" =>
              /\ DOMAIN p.map # {}
              /\ At(p.map, q[i].id, q[i].to) \/ \E j \in DOMAIN q : j < i /\ IsList(q[j])
    BY <1>2, <1>3 DEF Replies
  <2> QED
    BY <1>2, <1>3, <2>1
<1>4. CASE i = k + 1
  <2>1. ListIn(q) => \E j \in DOMAIN r : j < i /\ IsList(r[j])
    BY <1>2, <1>4 DEF ListIn
  <2> QED
    BY <1>1, <1>4, <2>1
<1> QED
  BY <1>1, <1>3, <1>4

LEMMA RepliesTaken ==
  ASSUME NEW D, NEW q \in Seq(D), q # <<>>, NEW p, Replies(q, p),
         ~IsList(Head(q)) \/ DOMAIN p.map = {} \/ p.open # "yes"
  PROVE  Replies(Tail(q), p)
<1> DEFINE r == Tail(q)
<1>1. /\ \A i \in DOMAIN r : i + 1 \in DOMAIN q /\ r[i] = q[i + 1] /\ i \in Nat
      /\ \A i \in DOMAIN q : i \in Nat /\ (i = 1 \/ (i - 1 \in DOMAIN r /\ r[i - 1] = q[i]))
      /\ Head(q) = q[1]
  BY Tailed
<1> HIDE DEF r
<1> SUFFICES ASSUME NEW i \in DOMAIN r, r[i].type = "answer"
             PROVE  /\ p.open # "no"
                    /\ p.open = "yes" =>
                          /\ DOMAIN p.map # {}
                          /\ At(p.map, r[i].id, r[i].to) \/ \E j \in DOMAIN r : j < i /\ IsList(r[j])
  BY DEF Replies, r
<1> DEFINE l == i + 1
<1>2. l \in DOMAIN q /\ r[i] = q[l] /\ i \in Nat /\ l = i + 1
  BY <1>1
<1> HIDE DEF l
<1>3. /\ p.open # "no"
      /\ p.open = "yes" =>
            /\ DOMAIN p.map # {}
            /\ At(p.map, q[l].id, q[l].to) \/ \E j \in DOMAIN q : j < l /\ IsList(q[j])
  BY <1>2 DEF Replies
<1>4. ASSUME p.open = "yes", NEW j \in DOMAIN q, j < l, IsList(q[j])
      PROVE  \E o \in DOMAIN r : o < i /\ IsList(r[o])
  <2>1. j # 1
    BY <1>1, <1>3, <1>4
  <2>2. j - 1 \in DOMAIN r /\ r[j - 1] = q[j] /\ j - 1 < i
    BY <1>1, <1>2, <1>4, <2>1
  <2> QED
    BY <1>4, <2>2
<1> QED
  BY <1>2, <1>3, <1>4

\* A page is not closed again, and keeps the connections in the map while it is open.
Grow(p, v) ==
    /\ p.open # "no" => v.open # "no"
    /\ p.open # "no" /\ v.open = "yes" =>
          p.open = "yes" /\ \A x \in DOMAIN p.map : x \in DOMAIN v.map /\ v.map[x] = p.map[x]

LEMMA GrowSame == \A p : Grow(p, p)
BY DEF Grow

LEMMA GrowAt ==
  ASSUME NEW p, NEW v, Grow(p, v), p.open # "no", v.open = "yes"
  PROVE  /\ p.open = "yes" /\ (DOMAIN p.map # {} => DOMAIN v.map # {})
         /\ \A x, n : At(p.map, x, n) => At(v.map, x, n)
BY DEF Grow, At

LEMMA RepliesGrown ==
  ASSUME NEW q, NEW p, NEW v, Grow(p, v), Replies(q, p)
  PROVE  Replies(q, v)
<1> SUFFICES ASSUME NEW i \in DOMAIN q, q[i].type = "answer"
             PROVE  /\ v.open # "no"
                    /\ v.open = "yes" =>
                          /\ DOMAIN v.map # {}
                          /\ At(v.map, q[i].id, q[i].to) \/ \E j \in DOMAIN q : j < i /\ IsList(q[j])
  BY DEF Replies
<1>1. /\ p.open # "no"
      /\ p.open = "yes" =>
            /\ DOMAIN p.map # {}
            /\ At(p.map, q[i].id, q[i].to) \/ \E j \in DOMAIN q : j < i /\ IsList(q[j])
  BY DEF Replies
<1>2. v.open # "no"
  BY <1>1 DEF Grow
<1>3. ASSUME v.open = "yes"
      PROVE  /\ DOMAIN v.map # {}
             /\ At(v.map, q[i].id, q[i].to) \/ \E j \in DOMAIN q : j < i /\ IsList(q[j])
  BY <1>1, <1>3, GrowAt
<1> QED
  BY <1>2, <1>3

LEMMA SentGrown ==
  ASSUME NEW b \in Browsers, Sent(b), Grow(page[b], page'[b]),
         \A i \in DOMAIN up'[b] : up'[b][i].type = "offer" => \E k \in DOMAIN up[b] : up[b][k] = up'[b][i]
  PROVE  Sent(b)'
<1> SUFFICES ASSUME NEW i \in DOMAIN up'[b], up'[b][i].type = "offer"
             PROVE  /\ page'[b].open # "no"
                    /\ page'[b].open = "yes" => At(page'[b].map, up'[b][i].id, up'[b][i].sdp)
  BY DEF Sent
<1>1. PICK k \in DOMAIN up[b] : up[b][k] = up'[b][i]
  OBVIOUS
<1>2. /\ page[b].open # "no"
      /\ page[b].open = "yes" => At(page[b].map, up'[b][i].id, up'[b][i].sdp)
  BY <1>1 DEF Sent
<1>3. page'[b].open # "no"
  BY <1>2 DEF Grow
<1>4. ASSUME page'[b].open = "yes" PROVE At(page'[b].map, up'[b][i].id, up'[b][i].sdp)
  BY <1>2, <1>4, GrowAt
<1> QED
  BY <1>3, <1>4

LEMMA ReturnedGrown ==
  ASSUME NEW b \in Browsers, Returned(b), Grow(page[b], page'[b]), conn'[b] = conn[b],
         \A c \in Browsers : conn'[c] # 0 => conn'[c] = conn[c],
         \A c \in Browsers, n \in Nat : conn[b] # 0 /\ Token(c, conn[b], n)' => Token(c, conn[b], n),
         \/ page'[b].open # "yes"
         \/ page[b].open = "yes" /\ DOMAIN page[b].map = {}
         \/ ListIn(down[b]) => ListIn(down'[b])
  PROVE  Returned(b)'
<1> SUFFICES ASSUME conn[b] # 0, NEW c \in Browsers, NEW n \in Nat, Token(c, conn[b], n)'
             PROVE  /\ page'[b].open # "no"
                    /\ page'[b].open = "yes" =>
                          /\ DOMAIN page'[b].map # {}
                          /\ conn'[c] # 0 => At(page'[b].map, conn'[c], n) \/ ListIn(down'[b])
  BY DEF Returned, Token
<1>1. /\ page[b].open # "no"
      /\ page[b].open = "yes" =>
            /\ DOMAIN page[b].map # {}
            /\ conn[c] # 0 => At(page[b].map, conn[c], n) \/ ListIn(down[b])
  BY DEF Returned
<1>2. page'[b].open # "no"
  BY <1>1 DEF Grow
<1>3. ASSUME page'[b].open = "yes"
      PROVE  /\ DOMAIN page'[b].map # {}
             /\ conn'[c] # 0 => At(page'[b].map, conn'[c], n) \/ ListIn(down'[b])
  <2>1. /\ page[b].open = "yes" /\ (DOMAIN page[b].map # {} => DOMAIN page'[b].map # {})
        /\ \A x : At(page[b].map, x, n) => At(page'[b].map, x, n)
    BY <1>1, <1>3, GrowAt
  <2>2. ListIn(down[b]) => ListIn(down'[b])
    BY <1>1, <1>3, <2>1
  <2> QED
    BY <1>1, <2>1, <2>2
<1> QED
  BY <1>2, <1>3

LEMMA AllFitInit == Init /\ broken = {} => AllFit
<1> SUFFICES ASSUME Init, NEW b \in Browsers PROVE Fits(b)
  BY DEF AllFit
<1>1. \A c \in Browsers : up[c] = <<>> /\ down[c] = <<>> /\ page[c].tasks = {}
  BY DEF Init, NewPage
<1>2. \A c \in Browsers : \A id, n : ~Token(c, id, n)
  BY <1>1, InNothing DEF Token, TaskFor
<1> QED
  BY <1>1, <1>2, InNothing DEF Fits, Sent, Returned

LEMMA StreamsTyped ==
  ASSUME TypeOK, NEW b \in Browsers
  PROVE  down[b] \in Seq(DownMessages(used)) /\ up[b] \in Seq(UpMessages(used))
BY DEF TypeOK

\* What one page does fits, if it has no new token and what it sends fits.
LEMMA FitsPage ==
  ASSUME TypeOK, \A c \in Browsers : Fits(c), NEW b \in Browsers, UNCHANGED net,
         \A c \in Browsers \ {b} : page'[c] = page[c] /\ up'[c] = up[c] /\ down'[c] = down[c],
         Grow(page[b], page'[b]), Sent(b)',
         \/ down'[b] = down[b]
         \/ /\ down[b] # <<>> /\ down'[b] = Tail(down[b])
            /\ \/ ~IsList(Head(down[b]))
               \/ page[b].open = "yes" /\ DOMAIN page[b].map = {}
               \/ page[b].open # "yes" /\ page'[b].open # "yes",
         \A id : \A n \in Nat : Token(b, id, n)' => Token(b, id, n)
  PROVE  \A c \in Browsers : Fits(c)'
<1>1. conn' = conn /\ \A c \in Browsers : Sent(c) /\ Returned(c) /\ Replies(down[c], page[c])
  BY DEF net, Fits
<1>2. \A c \in Browsers : \A id : \A n \in Nat : Token(c, id, n)' => Token(c, id, n)
  <2>1. \A c \in Browsers \ {b} : \A id : \A n \in Nat : Token(c, id, n)' => Token(c, id, n)
    BY DEF Token
  <2> QED
    BY <2>1
<1>3. \/ page'[b].open # "yes"
      \/ page[b].open = "yes" /\ DOMAIN page[b].map = {}
      \/ ListIn(down[b]) => ListIn(down'[b])
  <2>1. down[b] \in Seq(DownMessages(used))
    BY StreamsTyped
  <2>2. down[b] # <<>> /\ down'[b] = Tail(down[b]) /\ ~IsList(Head(down[b])) => (ListIn(down[b]) => ListIn(down'[b]))
    BY <2>1, InTailed
  <2> QED
    BY <2>2
<1>4. Returned(b)'
  <2>1. conn'[b] = conn[b] /\ \A c \in Browsers : conn'[c] # 0 => conn'[c] = conn[c]
    BY <1>1
  <2>2. \A c \in Browsers, n \in Nat : conn[b] # 0 /\ Token(c, conn[b], n)' => Token(c, conn[b], n)
    BY <1>1, <1>2 DEF Token
  <2> QED
    BY <1>1, <1>3, <2>1, <2>2, ReturnedGrown
<1>5. Replies(down'[b], page'[b])
  <2>1. down[b] \in Seq(DownMessages(used)) /\ Replies(down[b], page[b])
    BY <1>1, StreamsTyped
  <2>2. Replies(down'[b], page[b])
    <3>1. CASE down'[b] = down[b]
      BY <2>1, <3>1
    <3>2. CASE /\ down[b] # <<>> /\ down'[b] = Tail(down[b])
               /\ ~IsList(Head(down[b])) \/ DOMAIN page[b].map = {} \/ page[b].open # "yes"
      BY <2>1, <3>2, RepliesTaken
    <3> QED
      BY <3>1, <3>2
  <2> QED
    BY <2>2, RepliesGrown
<1>6. ASSUME NEW c \in Browsers \ {b} PROVE Fits(c)'
  <2>1. /\ c \in Browsers /\ page'[c] = page[c] /\ up'[c] = up[c] /\ down'[c] = down[c]
        /\ Grow(page[c], page'[c])
    BY GrowSame
  <2>2. Sent(c)'
    BY <1>1, <2>1 DEF Sent
  <2>3. Returned(c)'
    <3>1. conn'[c] = conn[c] /\ \A d \in Browsers : conn'[d] # 0 => conn'[d] = conn[d]
      BY <1>1
    <3>2. \A d \in Browsers, n \in Nat : conn[c] # 0 /\ Token(d, conn[c], n)' => Token(d, conn[c], n)
      BY <1>1, <1>2 DEF Token
    <3>3. Returned(c) /\ (ListIn(down[c]) => ListIn(down'[c]))
      BY <1>1, <2>1
    <3> QED
      BY <2>1, <3>1, <3>2, <3>3, ReturnedGrown
  <2>4. Replies(down'[c], page'[c])
    BY <1>1, <2>1
  <2> QED
    BY <2>2, <2>3, <2>4 DEF Fits
<1> QED
  BY <1>4, <1>5, <1>6 DEF Fits

LEMMA FitsTurn ==
  ASSUME TypeOK, \A c \in Browsers : Fits(c), NEW b \in Browsers, Open(b) \/ Leave(b) \/ Press(b) \/ Ready(b)
  PROVE  \A c \in Browsers : Fits(c)'
<1>0. UNCHANGED net /\ down' = down /\ Sent(b)
  BY DEF Open, Leave, Press, Ready, Fits
<1>1. CASE Open(b)
  <2>1. /\ \A c \in Browsers \ {b} : page'[c] = page[c]
        /\ page[b].open = "no" /\ page'[b].tasks = {}
    BY <1>1, OpenDoes
  <2>2. Grow(page[b], page'[b])
    BY <2>1 DEF Grow
  <2>3. /\ \A c \in Browsers \ {b} : up'[c] = up[c]
        /\ \A id, n : AnswerIn(up'[b], id, n) => AnswerIn(up[b], id, n)
        /\ \A i \in DOMAIN up'[b] : up'[b][i].type = "offer" => \E k \in DOMAIN up[b] : up[b][k] = up'[b][i]
    <3>1. CASE conn[b] = 0
      BY <1>1, <3>1 DEF Open
    <3>2. CASE conn[b] # 0
      <4> DEFINE m == Message("whoami", 0)
      <4>1. Emit(b, m) /\ up[b] \in Seq(UpMessages(used))
        BY <1>1, <3>2, StreamsTyped DEF Open
      <4>2. m \in UpMessages(used) /\ m.type = "whoami"
        BY DEF Message, UpMessages, Messages
      <4> HIDE DEF m
      <4>3. up'[b] = Append(up[b], m) /\ \A c \in Browsers \ {b} : up'[c] = up[c]
        BY <4>1, <4>2, EmitTyped
      <4>4. \A id, n : AnswerIn(Append(up[b], m), id, n) => AnswerIn(up[b], id, n)
        BY <4>1, <4>2, InAppended
      <4>5. \A i \in DOMAIN Append(up[b], m) :
               Append(up[b], m)[i].type = "offer" => \E k \in DOMAIN up[b] : up[b][k] = Append(up[b], m)[i]
        BY <4>1, <4>2, Appended
      <4> QED
        BY <4>3, <4>4, <4>5
    <3> QED
      BY <3>1, <3>2
  <2>4. Sent(b)'
    BY <1>0, <2>2, <2>3, SentGrown
  <2>5. \A id : \A n \in Nat : Token(b, id, n)' => Token(b, id, n)
    BY <1>0, <2>1, <2>3 DEF Token, TaskFor
  <2> QED
    BY <1>0, <2>1, <2>2, <2>3, <2>4, <2>5, FitsPage
<1>2. ASSUME up' = up, \A c \in Browsers \ {b} : page'[c] = page[c], Grow(page[b], page'[b]),
             \A id : \A n \in Nat : TaskFor(page'[b].tasks, id, n) => TaskFor(page[b].tasks, id, n)
      PROVE  \A c \in Browsers : Fits(c)'
  <2>1. Sent(b)'
    BY <1>0, <1>2, SentGrown
  <2>2. \A id : \A n \in Nat : Token(b, id, n)' => Token(b, id, n)
    BY <1>0, <1>2 DEF Token
  <2> QED
    BY <1>0, <1>2, <2>1, <2>2, FitsPage
<1>3. CASE Leave(b)
  <2>1. /\ up' = up /\ page'[b].open = "left" /\ page[b].open = "yes" /\ page'[b].tasks = page[b].tasks
        /\ \A c \in Browsers \ {b} : page'[c] = page[c]
    BY <1>3, LeaveDoes DEF Leave
  <2>2. Grow(page[b], page'[b])
    BY <2>1 DEF Grow
  <2> QED
    BY <1>2, <2>1, <2>2
<1>4. CASE Press(b)
  <2>1. PICK t \in Tasks(used) :
           /\ \A c \in Browsers \ {b} : page'[c] = page[c]
           /\ Kin(page[b], page'[b]) /\ page'[b].map = page[b].map
           /\ page'[b].tasks = page[b].tasks \cup {t} /\ t.kind = "create" /\ t.sdp = 0
    BY <1>4, PressDoes
  <2>2. Grow(page[b], page'[b]) /\ up' = up
    BY <1>4, <2>1 DEF Grow, Kin, Press
  <2>3. \A id : \A n \in Nat : TaskFor(page'[b].tasks, id, n) => TaskFor(page[b].tasks, id, n)
    BY <2>1 DEF TaskFor
  <2> QED
    BY <1>2, <2>1, <2>2, <2>3
<1>5. CASE Ready(b)
  <2>1. /\ up' = up /\ page'[b].open = page[b].open /\ page'[b].tasks = page[b].tasks
        /\ page'[b].map = page[b].map
        /\ \A c \in Browsers \ {b} : page'[c] = page[c]
    BY <1>5, ReadyDoes DEF Ready
  <2>2. Grow(page[b], page'[b])
    BY <2>1 DEF Grow
  <2> QED
    BY <1>2, <2>1, <2>2
<1> QED
  BY <1>1, <1>3, <1>4, <1>5

LEMMA FitsReceived ==
  ASSUME TypeOK, ListBefore, \A c \in Browsers : Fits(c), NEW b \in Browsers, Receive(b)
  PROVE  \A c \in Browsers : Fits(c)'
<1>0. Sent(b) /\ down[b] \in Seq(DownMessages(used))
  BY StreamsTyped DEF Fits
<1>1. /\ UNCHANGED net /\ up' = up /\ down[b] # <<>> /\ down'[b] = Tail(down[b])
      /\ \A c \in Browsers \ {b} : down'[c] = down[c]
  BY DEF Receive, Ignore, OnInit, OnClients, OnOffer, OnAnswer, Hears, TypeOK
<1>2. ASSUME \A c \in Browsers \ {b} : page'[c] = page[c], Grow(page[b], page'[b]),
             \/ ~IsList(Head(down[b]))
             \/ page[b].open = "yes" /\ DOMAIN page[b].map = {}
             \/ page[b].open # "yes" /\ page'[b].open # "yes",
             \A id : \A n \in Nat : TaskFor(page'[b].tasks, id, n) =>
                 TaskFor(page[b].tasks, id, n) \/ OfferIn(down[b], id, n)
      PROVE  \A c \in Browsers : Fits(c)'
  <2>1. Sent(b)'
    BY <1>0, <1>1, <1>2, SentGrown
  <2>2. \A id, n : OfferIn(down'[b], id, n) => OfferIn(down[b], id, n)
    BY <1>0, <1>1, InTailed
  <2>3. \A id : \A n \in Nat : Token(b, id, n)' => Token(b, id, n)
    BY <1>1, <1>2, <2>2 DEF Token
  <2> QED
    BY <1>1, <1>2, <2>1, <2>3, FitsPage
<1>3. CASE Ignore(b)
  <2>1. page' = page /\ page[b].open # "yes"
    BY <1>3 DEF Ignore
  <2> QED
    BY <1>2, <2>1, GrowSame
<1>4. CASE OnInit(b)
  <2>1. /\ \A c \in Browsers \ {b} : page'[c] = page[c]
        /\ page'[b].open = page[b].open /\ page'[b].map = page[b].map /\ page'[b].tasks = page[b].tasks
    BY <1>4, InitDoes
  <2>2. Grow(page[b], page'[b]) /\ ~IsList(Head(down[b]))
    BY <1>4, <2>1 DEF Grow, OnInit, Hears, IsList
  <2> QED
    BY <1>2, <2>1, <2>2
<1>5. CASE OnClients(b)
  <2> DEFINE p == page[b]
             q == page'[b]
             made == Made(p, Call(p, Head(down[b]).list), 0)
  <2>1. /\ \A c \in Browsers \ {b} : page'[c] = page[c]
        /\ q.open = "yes" /\ p.open = "yes"
        /\ p.me = 0 => q.tasks = p.tasks
        /\ p.me # 0 => q.tasks = p.tasks \cup made
        /\ \A t \in made : t.kind = "create" /\ t.sdp = 0
    BY <1>5, ClientsDoes
  <2>2. p.map = <<>>
    BY <1>5 DEF ListBefore
  <2> HIDE DEF made
  <2>3. \A id : \A n \in Nat : TaskFor(q.tasks, id, n) => TaskFor(p.tasks, id, n)
    BY <2>1 DEF TaskFor
  <2>4. DOMAIN p.map = {} /\ Grow(p, q)
    BY <2>1, <2>2, MapEmpty DEF Grow
  <2> QED
    BY <1>2, <2>1, <2>3, <2>4
<1>6. CASE OnOffer(b)
  <2> DEFINE p == page[b]
             q == page'[b]
             m == Head(down[b])
  <2>1. /\ \A c \in Browsers \ {b} : page'[c] = page[c]
        /\ Kin(p, q) /\ q.map = p.map /\ m.type = "offer"
        /\ m.id \in DOMAIN p.map => q.tasks = p.tasks \cup {Answer(p, m.id, m.sdp)}
        /\ m.id \notin DOMAIN p.map => \E t \in Tasks(used) :
              t.kind = "create" /\ t.peer = m.id /\ t.sdp = m.sdp /\ q.tasks = p.tasks \cup {t}
    BY <1>6, OfferDoes
  <2>2. OfferIn(down[b], m.id, m.sdp)
    BY <1>0, <1>1, <2>1, InTailed
  <2>3. Answer(p, m.id, m.sdp).peer = m.id /\ Answer(p, m.id, m.sdp).sdp = m.sdp
    BY DEF Answer
  <2>4. \E t : t.peer = m.id /\ t.sdp = m.sdp /\ q.tasks = p.tasks \cup {t}
    BY <2>1, <2>3
  <2>5. \A id : \A n \in Nat : TaskFor(q.tasks, id, n) => TaskFor(p.tasks, id, n) \/ OfferIn(down[b], id, n)
    BY <2>2, <2>4 DEF TaskFor
  <2>6. Grow(p, q) /\ ~IsList(m)
    BY <2>1 DEF Grow, Kin, IsList
  <2> QED
    BY <1>2, <2>1, <2>5, <2>6
<1>7. CASE OnAnswer(b)
  <2>1. /\ \A c \in Browsers \ {b} : page'[c] = page[c]
        /\ page'[b].open = page[b].open /\ page'[b].map = page[b].map /\ page'[b].tasks = page[b].tasks
        /\ Head(down[b]).type = "answer"
    BY <1>7, AnswerDoes DEF Kin
  <2>2. Grow(page[b], page'[b]) /\ ~IsList(Head(down[b]))
    BY <2>1 DEF Grow, IsList
  <2> QED
    BY <1>2, <2>1, <2>2
<1> QED
  BY <1>3, <1>4, <1>5, <1>6, <1>7 DEF Receive

LEMMA FitsFinished ==
  ASSUME TypeOK, \A c \in Browsers : Fits(c), NEW b \in Browsers, Finish(b)
  PROVE  \A c \in Browsers : Fits(c)'
<1> DEFINE p == page[b]
           q == page'[b]
<1>0. Sent(b) /\ up[b] \in Seq(UpMessages(used)) /\ Sound(used, p)
  BY StreamsTyped, PageTyped DEF Fits
<1>1. PICK t \in p.tasks : Created(b, t) \/ Offered(b, t) \/ Answered(b, t)
  BY DEF Finish
<1>2. UNCHANGED net /\ down' = down
  BY <1>1 DEF Created, Offered, Answered, Awaited
<1>3. CASE Created(b, t)
  <2>1. /\ \A c \in Browsers \ {b} : page'[c] = page[c]
        /\ Kin(p, q) /\ t.kind = "create"
        /\ DOMAIN q.map = DOMAIN p.map \cup {t.peer} /\ \A x \in DOMAIN p.map : q.map[x] = p.map[x]
    BY <1>3, CreatedDoes
  <2>2. /\ t.sdp # 0 => \E u \in Tasks(used) :
             u.kind = "answer" /\ u.peer = t.peer /\ u.sdp = t.sdp /\ q.tasks = (p.tasks \ {t}) \cup {u}
        /\ t.sdp = 0 /\ t.peer \in DOMAIN p.map => q.tasks = p.tasks \ {t}
        /\ t.sdp = 0 /\ t.peer \notin DOMAIN p.map => \E u \in Tasks(used) :
             u.kind = "offer" /\ q.tasks = (p.tasks \ {t}) \cup {u}
    BY <1>3, CreatedDoes
  <2>3. up' = up
    BY <1>3 DEF Created
  <2> HIDE DEF p, q
  <2>4. Grow(p, q)
    BY <2>1 DEF Grow, Kin
  <2>5. \A id : \A n \in Nat : TaskFor(q.tasks, id, n) => TaskFor(p.tasks, id, n)
    <3>1. \A u \in q.tasks : \/ u \in p.tasks \/ u.kind = "offer"
                             \/ u.kind = "answer" /\ u.peer = t.peer /\ u.sdp = t.sdp /\ t.sdp # 0
      BY <2>2
    <3> QED
      BY <1>1, <2>1, <3>1 DEF TaskFor
  <2>6. Sent(b)'
    BY <1>0, <2>3, <2>4, SentGrown DEF p, q
  <2>7. \A id : \A n \in Nat : Token(b, id, n)' => Token(b, id, n)
    BY <1>2, <2>3, <2>5 DEF Token, p, q
  <2> QED
    BY <1>2, <2>1, <2>3, <2>4, <2>6, <2>7, FitsPage DEF p, q
<1>4. ASSUME Kin(p, q), q.map = p.map, q.tasks = p.tasks \ {t}
      PROVE  /\ Grow(p, q)
             /\ \A id : \A n \in Nat : TaskFor(q.tasks, id, n) => TaskFor(p.tasks, id, n)
  BY <1>4 DEF Grow, Kin, TaskFor
<1>5. CASE Offered(b, t)
  <2>1. /\ \A c \in Browsers \ {b} : page'[c] = page[c]
        /\ Kin(p, q) /\ q.map = p.map /\ q.tasks = p.tasks \ {t}
    BY <1>5, OfferedDoes
  <2>5. \/ up' = up
        \/ \E c \in p.pcs, f \in UpMessages(used) :
              /\ c.n = t.n /\ c.peer = t.peer
              /\ f.type = "offer" /\ f.id = t.peer /\ f.sdp = t.n
              /\ up'[b] = Append(up[b], f) /\ \A x \in Browsers \ {b} : up'[x] = up[x]
    <3>1. \/ q.pcs = p.pcs /\ UNCHANGED up /\ \A c \in p.pcs : c.n # t.n
          \/ \E c \in p.pcs, f \in UpMessages(used) :
                /\ c.n = t.n /\ c.peer = t.peer
                /\ [c EXCEPT !.state = "offered", !.with = t.sdp] \in Connections(used)
                /\ q.pcs = (p.pcs \ {c}) \cup {[c EXCEPT !.state = "offered", !.with = t.sdp]}
                /\ f.type = "offer" /\ f.id = t.peer /\ f.sdp = t.n
                /\ up'[b] = Append(up[b], f) /\ \A x \in Browsers \ {b} : up'[x] = up[x]
      BY <1>5, OfferedDoes
    <3> HIDE DEF p, q
    <3> QED
      BY <3>1
  <2>2. /\ Grow(p, q)
        /\ \A id : \A n \in Nat : TaskFor(q.tasks, id, n) => TaskFor(p.tasks, id, n)
    BY <1>4, <2>1
  <2> HIDE DEF p, q
  <2>3. CASE up' = up
    <3>1. Sent(b)'
      BY <1>0, <2>2, <2>3, SentGrown DEF p, q
    <3>2. \A id : \A n \in Nat : Token(b, id, n)' => Token(b, id, n)
      BY <1>2, <2>2, <2>3 DEF Token, p, q
    <3> QED
      BY <1>2, <2>1, <2>2, <2>3, <3>1, <3>2, FitsPage DEF p, q
  <2>4. ASSUME NEW c \in p.pcs, NEW f \in UpMessages(used), c.n = t.n, c.peer = t.peer,
               f.type = "offer", f.id = t.peer, f.sdp = t.n,
               up'[b] = Append(up[b], f), \A x \in Browsers \ {b} : up'[x] = up[x]
        PROVE  \A x \in Browsers : Fits(x)'
    <3>1. p.open # "no" /\ At(p.map, f.id, f.sdp)
      BY <1>0, <1>1, <2>4 DEF Sound, Filed, At
    <3>2. q.open # "no" /\ At(q.map, f.id, f.sdp)
      BY <2>1, <3>1 DEF Kin
    <3>3. Sent(b)'
      <4>1. /\ Len(up[b]) \in Nat /\ DOMAIN up[b] = 1 .. Len(up[b])
            /\ DOMAIN up'[b] = 1 .. Len(up[b]) + 1
            /\ \A i \in DOMAIN up[b] : up'[b][i] = up[b][i]
            /\ up'[b][Len(up[b]) + 1] = f
        BY <1>0, <2>4, Appended
      <4>2. \A i \in DOMAIN up'[b] : (i \in DOMAIN up[b] /\ up'[b][i] = up[b][i]) \/ up'[b][i] = f
        BY <4>1
      <4> SUFFICES ASSUME NEW i \in DOMAIN up'[b], up'[b][i].type = "offer"
                   PROVE  /\ page'[b].open # "no"
                          /\ page'[b].open = "yes" => At(page'[b].map, up'[b][i].id, up'[b][i].sdp)
        BY DEF Sent
      <4>3. CASE up'[b][i] = f
        BY <3>2, <4>3 DEF q
      <4>4. CASE i \in DOMAIN up[b] /\ up'[b][i] = up[b][i]
        BY <1>0, <2>1, <4>4 DEF Sent, Kin, p, q
      <4> QED
        BY <4>2, <4>3, <4>4
    <3>4. \A id, n : AnswerIn(up'[b], id, n) => AnswerIn(up[b], id, n)
      BY <1>0, <2>4, InAppended
    <3>5. \A id : \A n \in Nat : Token(b, id, n)' => Token(b, id, n)
      BY <1>2, <2>2, <3>4 DEF Token, p, q
    <3> QED
      BY <1>2, <2>1, <2>2, <2>4, <3>3, <3>5, FitsPage DEF p, q
  <2> QED
    BY <2>3, <2>4, <2>5
<1>6. CASE Answered(b, t)
  <2>1. /\ \A c \in Browsers \ {b} : page'[c] = page[c]
        /\ Kin(p, q) /\ q.map = p.map /\ q.tasks = p.tasks \ {t} /\ t.kind = "answer"
        /\ \/ up' = up
           \/ \E f \in UpMessages(used) :
                 /\ f.type = "answer" /\ f.id = t.peer /\ f.to = t.sdp
                 /\ up'[b] = Append(up[b], f) /\ \A x \in Browsers \ {b} : up'[x] = up[x]
    BY <1>6, AnsweredDoes
  <2>2. /\ Grow(p, q)
        /\ \A id : \A n \in Nat : TaskFor(q.tasks, id, n) => TaskFor(p.tasks, id, n)
    BY <1>4, <2>1
  <2> HIDE DEF p, q
  <2>3. CASE up' = up
    <3>1. Sent(b)'
      BY <1>0, <2>2, <2>3, SentGrown DEF p, q
    <3>2. \A id : \A n \in Nat : Token(b, id, n)' => Token(b, id, n)
      BY <1>2, <2>2, <2>3 DEF Token, p, q
    <3> QED
      BY <1>2, <2>1, <2>2, <2>3, <3>1, <3>2, FitsPage DEF p, q
  <2>4. ASSUME NEW f \in UpMessages(used), f.type = "answer", f.id = t.peer, f.to = t.sdp,
               up'[b] = Append(up[b], f), \A x \in Browsers \ {b} : up'[x] = up[x]
        PROVE  \A x \in Browsers : Fits(x)'
    <3>1. TaskFor(p.tasks, f.id, f.to)
      BY <1>1, <2>1, <2>4 DEF TaskFor
    <3>2. \A id, n : AnswerIn(up'[b], id, n) => AnswerIn(up[b], id, n) \/ (f.id = id /\ f.to = n)
      BY <1>0, <2>4, InAppended
    <3>3. \A id : \A n \in Nat : Token(b, id, n)' => Token(b, id, n)
      BY <1>2, <2>2, <3>1, <3>2 DEF Token, p, q
    <3>4. Sent(b)'
      <4>1. \A i \in DOMAIN up'[b] : up'[b][i].type = "offer" => \E k \in DOMAIN up[b] : up[b][k] = up'[b][i]
        <5>1. /\ Len(up[b]) \in Nat /\ DOMAIN up[b] = 1 .. Len(up[b])
              /\ DOMAIN up'[b] = 1 .. Len(up[b]) + 1
              /\ \A i \in DOMAIN up[b] : up'[b][i] = up[b][i]
              /\ up'[b][Len(up[b]) + 1] = f
          BY <1>0, <2>4, Appended
        <5>2. \A i \in DOMAIN up'[b] : (i \in DOMAIN up[b] /\ up'[b][i] = up[b][i]) \/ up'[b][i] = f
          BY <5>1
        <5> QED
          BY <2>4, <5>2
      <4> QED
        BY <1>0, <2>2, <4>1, SentGrown DEF p, q
    <3> QED
      BY <1>2, <2>1, <2>2, <2>4, <3>3, <3>4, FitsPage DEF p, q
  <2> QED
    BY <2>1, <2>3, <2>4
<1> QED
  BY <1>1, <1>3, <1>5, <1>6

LEMMA TokenTyped ==
  ASSUME TypeOK, NEW c \in Browsers, NEW id, NEW n, Token(c, id, n)
  PROVE  id \in used
<1>1. /\ \A i \in DOMAIN down[c] : down[c][i] \in DownMessages(used)
      /\ \A i \in DOMAIN up[c] : up[c][i] \in UpMessages(used)
  BY StreamsTyped
<1>2. page[c].tasks \subseteq Tasks(used)
  BY PageTyped
<1>3. \A m \in DownMessages(used) \cup UpMessages(used) : m.type \in {"offer", "answer"} => m.id \in used
  BY DEF DownMessages, UpMessages, Messages
<1> QED
  BY <1>1, <1>2, <1>3 DEF Token, OfferIn, AnswerIn, TaskFor, Tasks

\* A list to every socket takes nothing that was sent.
LEMMA FitsListed ==
  ASSUME TypeOK, \A c \in Browsers : Fits(c), NEW c \in Browsers, conn'[c] = conn[c],
         \A d \in Browsers : \A id : \A n \in Nat :
            OfferIn(down'[d], id, n) \/ TaskFor(page[d].tasks, id, n) \/ AnswerIn(up[d], id, n)
              => Token(d, id, n),
         UNCHANGED <<page, up>>, NEW U, used \subseteq U, clients' \in SUBSET U,
         down'[c] = IF conn[c] # 0 THEN Append(down[c], List_(clients')) ELSE down[c]
  PROVE  Fits(c)'
<1> DEFINE m == List_(clients')
           D == DownMessages(U)
<1>1. Sent(c) /\ Returned(c) /\ Replies(down[c], page[c])
  BY DEF Fits
<1>2. Sent(c)'
  BY <1>1 DEF Sent
<1>3. m \in D /\ IsList(m) /\ m.type # "answer"
  <2>1. 0 \in U \cup {0}
    OBVIOUS
  <2> QED
    BY <2>1, MessagesTyped DEF IsList
<1>4. down[c] \in Seq(D)
  <2>1. DownMessages(used) \subseteq D
    BY Grows
  <2>2. down[c] \in Seq(DownMessages(used))
    BY StreamsTyped
  <2> QED
    BY <2>1, <2>2
<1> HIDE DEF m, D
<1>5. Replies(Append(down[c], m), page[c]) /\ ListIn(Append(down[c], m))
  BY <1>1, <1>3, <1>4, RepliesAppended, InAppended
<1>6. Replies(down'[c], page'[c]) /\ (conn[c] # 0 => ListIn(down'[c]))
  BY <1>1, <1>5 DEF m
<1>7. Returned(c)'
  <2> SUFFICES ASSUME conn[c] # 0, NEW d \in Browsers, NEW n \in Nat, Token(d, conn[c], n)'
               PROVE  /\ page[c].open # "no"
                      /\ page[c].open = "yes" => DOMAIN page[c].map # {}
    BY <1>6 DEF Returned
  <2>1. Token(d, conn[c], n)
    BY DEF Token
  <2> QED
    BY <1>1, <2>1 DEF Returned
<1> QED
  BY <1>2, <1>6, <1>7 DEF Fits

LEMMA FitsConnected ==
  ASSUME TypeOK, \A c \in Browsers : Fits(c), NEW b \in Browsers, Connect(b)
  PROVE  \A c \in Browsers : Fits(c)'
<1>1. PICK new \in Ids \ used :
         /\ conn[b] = 0 /\ conn'[b] = new /\ \A c \in Browsers \ {b} : conn'[c] = conn[c]
         /\ used' = used \cup {new} /\ clients' \subseteq used'
         /\ down'[b] = <<Init_(new), List_(clients')>>
         /\ \A c \in Browsers \ {b} :
               down'[c] = IF conn[c] # 0 THEN Append(down[c], List_(clients')) ELSE down[c]
         /\ UNCHANGED <<page, up>>
  BY ConnectDoes
<1> DEFINE U == used'
           i == Init_(new)
           l == List_(clients')
<1>2. used \subseteq U /\ clients' \in SUBSET U /\ new \in U
  BY <1>1
<1>3. i.type = "init" /\ l.type = "clients"
  BY DEF Init_, List_, Message
<1>4. DOMAIN down'[b] = {1, 2} /\ down'[b][1] = i /\ down'[b][2] = l
  <2> HIDE DEF i, l
  <2>1. DOMAIN <<i, l>> = {1, 2} /\ <<i, l>>[1] = i /\ <<i, l>>[2] = l
    OBVIOUS
  <2> QED
    BY <1>1, <2>1 DEF i, l
<1>5. l \in DownMessages(U)
  <2>1. 0 \in U \cup {0}
    OBVIOUS
  <2> QED
    BY <1>2, <2>1, MessagesTyped
<1> HIDE DEF i
<1>6. ASSUME NEW d \in Browsers, NEW id, NEW n \in Nat,
             OfferIn(down'[d], id, n) \/ TaskFor(page[d].tasks, id, n) \/ AnswerIn(up[d], id, n)
      PROVE  Token(d, id, n)
  <2>1. CASE d = b
    BY <1>3, <1>4, <1>6, <2>1 DEF Token, OfferIn
  <2>2. CASE d # b
    <3>1. down[d] \in Seq(DownMessages(U))
      <4>1. DownMessages(used) \subseteq DownMessages(U)
        BY <1>2, Grows
      <4>2. down[d] \in Seq(DownMessages(used))
        BY StreamsTyped
      <4> QED
        BY <4>1, <4>2
    <3> HIDE DEF l, U
    <3>2. OfferIn(Append(down[d], l), id, n) => OfferIn(down[d], id, n)
      BY <1>3, <1>5, <3>1, InAppended
    <3> QED
      BY <1>1, <1>6, <2>2, <3>2 DEF Token, l
  <2> QED
    BY <2>1, <2>2
<1>7. ASSUME NEW c \in Browsers \ {b} PROVE Fits(c)'
  <2>1. c \in Browsers /\ conn'[c] = conn[c]
    BY <1>1
  <2>2. down'[c] = IF conn[c] # 0 THEN Append(down[c], List_(clients')) ELSE down[c]
    BY <1>1
  <2>3. UNCHANGED <<page, up>>
    BY <1>1
  <2>4. \A d \in Browsers : \A id : \A n \in Nat :
            OfferIn(down'[d], id, n) \/ TaskFor(page[d].tasks, id, n) \/ AnswerIn(up[d], id, n)
              => Token(d, id, n)
    BY <1>6
  <2> HIDE DEF U
  <2> QED
    BY <1>2, <2>1, <2>2, <2>3, <2>4, FitsListed
<1>8. Fits(b)'
  <2>1. Sent(b)'
    BY <1>1 DEF Fits, Sent
  <2>2. Replies(down'[b], page'[b])
    BY <1>3, <1>4 DEF Replies
  <2>3. ASSUME NEW c \in Browsers, NEW n \in Nat, Token(c, conn[b], n)' PROVE FALSE
    <3>1. Token(c, new, n)
      BY <1>1, <1>6, <2>3 DEF Token
    <3> QED
      BY <1>1, <3>1, TokenTyped
  <2>4. Returned(b)'
    BY <2>3 DEF Returned
  <2> QED
    BY <2>1, <2>2, <2>4 DEF Fits
<1> QED
  BY <1>7, <1>8

LEMMA FitsNoticed ==
  ASSUME TypeOK, \A c \in Browsers : Fits(c), Notice
  PROVE  \A c \in Browsers : Fits(c)'
<1> DEFINE l == List_(clients')
<1>1. /\ clients' \in SUBSET used
      /\ \A c \in Browsers :
            down'[c] = IF conn[c] # 0 THEN Append(down[c], List_(clients')) ELSE down[c]
      /\ UNCHANGED <<conn, used, page, up>>
  BY NoticeDoes DEF TypeOK
<1>2. l \in DownMessages(used) /\ l.type = "clients"
  <2>1. 0 \in used \cup {0}
    OBVIOUS
  <2> QED
    BY <1>1, <2>1, MessagesTyped
<1>3. ASSUME NEW d \in Browsers, NEW id, NEW n \in Nat,
             OfferIn(down'[d], id, n) \/ TaskFor(page[d].tasks, id, n) \/ AnswerIn(up[d], id, n)
      PROVE  Token(d, id, n)
  <2>1. down[d] \in Seq(DownMessages(used))
    BY StreamsTyped
  <2> HIDE DEF l
  <2>2. OfferIn(Append(down[d], l), id, n) => OfferIn(down[d], id, n)
    BY <1>2, <2>1, InAppended
  <2> QED
    BY <1>1, <1>3, <2>2 DEF Token, l
<1>4. ASSUME NEW c \in Browsers PROVE Fits(c)'
  <2>1. c \in Browsers /\ conn'[c] = conn[c] /\ used \subseteq used
    BY <1>1
  <2>2. down'[c] = IF conn[c] # 0 THEN Append(down[c], List_(clients')) ELSE down[c]
    BY <1>1
  <2>3. UNCHANGED <<page, up>>
    BY <1>1
  <2>4. \A d \in Browsers : \A id : \A n \in Nat :
            OfferIn(down'[d], id, n) \/ TaskFor(page[d].tasks, id, n) \/ AnswerIn(up[d], id, n)
              => Token(d, id, n)
    BY <1>3
  <2> QED
    BY <1>1, <2>1, <2>2, <2>3, <2>4, FitsListed
<1> QED
  BY <1>4

LEMMA FitsDropped ==
  ASSUME TypeOK, \A c \in Browsers : Fits(c), NEW b \in Browsers, Drop(b)
  PROVE  \A c \in Browsers : Fits(c)'
<1>1. /\ conn'[b] = 0 /\ \A c \in Browsers \ {b} : conn'[c] = conn[c]
      /\ up'[b] = <<>> /\ down'[b] = <<>> /\ page'[b].tasks = page[b].tasks
      /\ \A c \in Browsers \ {b} : up'[c] = up[c] /\ down'[c] = down[c] /\ page'[c] = page[c]
  BY DropDoes
<1>2. Fits(b)'
  BY <1>1, InNothing DEF Fits, Sent, Returned
<1>3. ASSUME NEW c \in Browsers \ {b} PROVE Fits(c)'
  <2>1. Sent(c) /\ Returned(c) /\ Replies(down[c], page[c])
    BY DEF Fits
  <2>2. /\ c \in Browsers /\ Grow(page[c], page'[c]) /\ conn'[c] = conn[c]
        /\ page'[c] = page[c] /\ up'[c] = up[c] /\ down'[c] = down[c]
    BY <1>1, GrowSame
  <2>3. Sent(c)' /\ Replies(down'[c], page'[c])
    BY <2>1, <2>2 DEF Sent
  <2>4. \A d \in Browsers, n \in Nat : conn[c] # 0 /\ Token(d, conn[c], n)' => Token(d, conn[c], n)
    <3>1. ASSUME NEW d \in Browsers, NEW n \in Nat, Token(d, conn[c], n)' PROVE Token(d, conn[c], n)
      <4>1. CASE d = b
        BY <1>1, <2>2, <3>1, <4>1, InNothing DEF Token
      <4>2. CASE d # b
        BY <1>1, <2>2, <3>1, <4>2 DEF Token
      <4> QED
        BY <4>1, <4>2
    <3> QED
      BY <3>1
  <2>5. \A d \in Browsers : conn'[d] # 0 => conn'[d] = conn[d]
    BY <1>1
  <2>6. ListIn(down[c]) => ListIn(down'[c])
    BY <2>2
  <2>7. Returned(c)'
    BY <2>1, <2>2, <2>4, <2>5, <2>6, ReturnedGrown
  <2> QED
    BY <2>3, <2>7 DEF Fits
<1> QED
  BY <1>2, <1>3

LEMMA FitsServed ==
  ASSUME TypeOK, \A c \in Browsers : Fits(c), NEW b \in Browsers, Serve(b)
  PROVE  \A c \in Browsers : Fits(c)'
<1> DEFINE m == Head(up[b])
           f == [m EXCEPT !.id = conn[b]]
           D == DownMessages(used)
<1>0. \A c \in Browsers : Sent(c) /\ Returned(c) /\ Replies(down[c], page[c])
  BY DEF Fits
<1>1. /\ conn[b] # 0 /\ up[b] # <<>> /\ m \in UpMessages(used) /\ m = up[b][1]
      /\ up'[b] = Tail(up[b]) /\ \A c \in Browsers \ {b} : up'[c] = up[c]
      /\ m.type = "whoami" =>
            /\ down'[b] = down[b] \o <<Init_(conn[b]), List_(clients)>>
            /\ \A c \in Browsers \ {b} : down'[c] = down[c]
      /\ m.type # "whoami" =>
            /\ m.id # 0 /\ f \in D
            /\ \A c \in Browsers : down'[c] = IF conn[c] = m.id THEN Append(down[c], f) ELSE down[c]
      /\ conn' = conn /\ page' = page
  BY ServeDoes DEF net
<1>2. \A c \in Browsers : down[c] \in Seq(D) /\ up[c] \in Seq(UpMessages(used))
  BY StreamsTyped
<1>3. /\ \A id, n : AnswerIn(Tail(up[b]), id, n) => AnswerIn(up[b], id, n)
      /\ m.type = "answer" => AnswerIn(up[b], m.id, m.to)
  BY <1>1, <1>2, InTailed
<1>4. 1 \in DOMAIN up[b]
  BY <1>1, <1>2
<1>5. \A id, n : \A c \in Browsers : AnswerIn(up'[c], id, n) => AnswerIn(up[c], id, n)
  BY <1>1, <1>3
<1>6. \A c \in Browsers : Sent(c)'
  <2>1. \A i \in DOMAIN up'[b] : \E k \in DOMAIN up[b] : up[b][k] = up'[b][i]
    BY <1>1, <1>2, Tailed
  <2>2. Sent(b)'
    BY <1>0, <1>1, <2>1, GrowSame, SentGrown
  <2>3. \A c \in Browsers \ {b} : Sent(c)'
    BY <1>0, <1>1 DEF Sent
  <2> QED
    BY <2>2, <2>3
\* What is known when no token is new but those of b.
<1>7. ASSUME NEW c \in Browsers, ListIn(down[c]) => ListIn(down'[c]),
             \A d \in Browsers : \A n \in Nat :
                OfferIn(down'[d], conn[c], n) => OfferIn(down[d], conn[c], n)
      PROVE  Returned(c)'
  <2>1. \A d \in Browsers, n \in Nat : conn[c] # 0 /\ Token(d, conn[c], n)' => Token(d, conn[c], n)
    BY <1>1, <1>5, <1>7 DEF Token
  <2>2. Grow(page[c], page'[c]) /\ conn'[c] = conn[c] /\ \A d \in Browsers : conn'[d] # 0 => conn'[d] = conn[d]
    BY <1>1, GrowSame
  <2> QED
    BY <1>0, <1>7, <2>1, <2>2, ReturnedGrown
<1>8. CASE m.type = "whoami"
  <2> DEFINE i == Init_(conn[b])
             l == List_(clients)
             q == down[b]
             r == Append(q, i)
  <2>1. i \in D /\ i.type = "init" /\ l \in D /\ l.type = "clients"
    <3>1. conn[b] \in used \cup {0} /\ clients \in SUBSET used
      BY DEF TypeOK
    <3> QED
      BY <3>1, MessagesTyped
  <2>2. q \in Seq(D) /\ Replies(q, page[b])
    BY <1>0, <1>2
  <2>3. down'[b] = q \o <<i, l>> /\ \A c \in Browsers \ {b} : down'[c] = down[c]
    BY <1>1, <1>8
  <2> HIDE DEF D, i, l, q
  <2>4. /\ r \in Seq(D) /\ Replies(r, page[b])
        /\ \A id, n : OfferIn(r, id, n) => OfferIn(q, id, n)
    BY <2>1, <2>2, Appended, InAppended, RepliesAppended
  <2> HIDE DEF r
  <2>5. /\ Replies(Append(r, l), page[b]) /\ ListIn(Append(r, l))
        /\ \A id, n : OfferIn(Append(r, l), id, n) => OfferIn(q, id, n)
    BY <2>1, <2>4, InAppended, RepliesAppended DEF IsList
  <2>6. down'[b] = Append(r, l)
    BY <2>1, <2>2, <2>3, TwoAppended DEF r
  <2>7. \A d \in Browsers : \A id, n : OfferIn(down'[d], id, n) => OfferIn(down[d], id, n)
    BY <2>3, <2>5, <2>6 DEF q
  <2>8. \A c \in Browsers : ListIn(down[c]) => ListIn(down'[c])
    BY <2>3, <2>5, <2>6
  <2>9. \A c \in Browsers : Returned(c)'
    BY <1>7, <2>7, <2>8
  <2>10. \A c \in Browsers : Replies(down'[c], page'[c])
    BY <1>0, <1>1, <2>3, <2>5, <2>6
  <2> QED
    BY <1>6, <2>9, <2>10 DEF Fits
<1>9. CASE m.type # "whoami"
  <2>1. /\ m.id # 0 /\ f \in D
        /\ \A c \in Browsers : down'[c] = IF conn[c] = m.id THEN Append(down[c], f) ELSE down[c]
    BY <1>1, <1>9
  <2>2. /\ m.type \in {"offer", "answer"} /\ m.to \in Nat /\ m.sdp \in Nat
        /\ f.type = m.type /\ f.id = conn[b] /\ f.sdp = m.sdp /\ f.to = m.to
    BY <1>1, <1>9 DEF UpMessages, Messages
  <2> HIDE DEF m, f, D
  <2>3. ASSUME NEW c \in Browsers
        PROVE  /\ ListIn(down[c]) => ListIn(down'[c])
               /\ \A id, n : OfferIn(down'[c], id, n) =>
                     \/ OfferIn(down[c], id, n)
                     \/ conn[c] = m.id /\ m.type = "offer" /\ id = conn[b] /\ n = m.sdp
    <3>1. CASE conn[c] = m.id
      <4>1. down'[c] = Append(down[c], f)
        BY <2>1, <3>1
      <4>2. /\ \A id, n : OfferIn(Append(down[c], f), id, n) =>
                   OfferIn(down[c], id, n) \/ (f.type = "offer" /\ f.id = id /\ f.sdp = n)
            /\ ListIn(down[c]) => ListIn(Append(down[c], f))
        BY <1>2, <2>1, InAppended
      <4> QED
        BY <2>2, <3>1, <4>1, <4>2
    <3>2. CASE conn[c] # m.id
      BY <2>1, <3>2
    <3> QED
      BY <3>1, <3>2
  <2>4. ASSUME NEW c \in Browsers PROVE Replies(down'[c], page'[c])
    <3>1. CASE conn[c] = m.id
      <4>1. ASSUME m.type = "answer"
            PROVE  /\ page[c].open # "no"
                   /\ page[c].open = "yes" => /\ DOMAIN page[c].map # {}
                                              /\ At(page[c].map, conn[b], m.to) \/ ListIn(down[c])
        <5>1. Token(b, conn[c], m.to)
          BY <1>3, <3>1, <4>1 DEF Token, m
        <5> QED
          BY <1>0, <1>1, <2>1, <2>2, <3>1, <5>1 DEF Returned
      <4>2. Replies(Append(down[c], f), page[c])
        BY <1>0, <1>2, <2>1, <2>2, <4>1, RepliesAppended
      <4> QED
        BY <1>1, <2>1, <3>1, <4>2
    <3>2. CASE conn[c] # m.id
      BY <1>0, <1>1, <2>1, <3>2
    <3> QED
      BY <3>1, <3>2
  <2>5. ASSUME NEW c \in Browsers \ {b} PROVE Returned(c)'
    <3>1. CASE conn[c] = 0
      BY <1>1, <3>1 DEF Returned
    <3>2. CASE conn[c] # 0
      <4>1. conn[c] # conn[b]
        BY <3>2 DEF TypeOK
      <4> QED
        BY <1>7, <2>3, <4>1
    <3> QED
      BY <3>1, <3>2
  <2>6. Returned(b)'
    <3> SUFFICES ASSUME NEW c \in Browsers, NEW n \in Nat, Token(c, conn[b], n)'
                 PROVE  /\ page[b].open # "no"
                        /\ page[b].open = "yes" =>
                              /\ DOMAIN page[b].map # {}
                              /\ conn[c] # 0 => At(page[b].map, conn[c], n) \/ ListIn(down'[b])
      BY <1>1 DEF Returned, Token
    <3>1. CASE Token(c, conn[b], n)
      BY <1>0, <1>1, <2>3, <3>1 DEF Returned
    <3>2. CASE ~Token(c, conn[b], n)
      <4>1. conn[c] = m.id /\ m.type = "offer" /\ n = m.sdp
        BY <1>1, <1>5, <2>3, <3>2 DEF Token
      <4>2. page[b].open # "no" /\ (page[b].open = "yes" => At(page[b].map, m.id, m.sdp))
        BY <1>0, <1>1, <1>4, <4>1 DEF Sent, m
      <4> QED
        BY <4>1, <4>2 DEF At
    <3> QED
      BY <3>1, <3>2
  <2> QED
    BY <1>6, <2>4, <2>5, <2>6 DEF Fits
<1> QED
  BY <1>8, <1>9

LEMMA FitsKept ==
  ASSUME TypeOK, AllFit, Disciplined
  PROVE  AllFit'
<1> SUFFICES ASSUME Kept({"list"})' PROVE \A b \in Browsers : Fits(b)'
  BY DEF AllFit
<1>1. ListBefore /\ \A b \in Browsers : Fits(b)
  BY KeptStep DEF AllFit
<1>2. CASE Notice
  BY <1>1, <1>2, FitsNoticed
<1>3. ASSUME NEW b \in Browsers,
             \/ Connect(b) \/ Drop(b) \/ Serve(b) \/ Open(b) \/ Leave(b) \/ Press(b) \/ Ready(b)
             \/ Receive(b) \/ Finish(b)
      PROVE  \A c \in Browsers : Fits(c)'
  BY <1>1, <1>3, FitsConnected, FitsDropped, FitsServed, FitsTurn, FitsReceived, FitsFinished
<1> QED
  BY <1>2, <1>3 DEF Disciplined, Next

\* The answer that a connection takes is the answer to its own offer, unless a list came
\* to a page that had connections: an offer stands for the connection in the map from
\* the moment it is sent to the moment its answer comes, or a list comes before.
THEOREM AnswersFit == DisciplineSpec => AnswerFits
<1> DEFINE Fit == Kept({"list"}) => \A b \in Browsers :
              OnAnswer(b) /\ page' # page =>
                  \E c \in Found(page[b], Head(down[b]).id) : c.n = Head(down[b]).to
<1>1. DisciplineInit => RadioInv /\ AllFit
  BY RadioInit, AllFitInit DEF DisciplineInit
<1>2. RadioInv /\ AllFit /\ [Disciplined]_<<vars, broken>> => RadioInv' /\ AllFit'
  <2> SUFFICES ASSUME RadioInv, AllFit, [Disciplined]_<<vars, broken>> PROVE AllFit'
    BY RadioStep
  <2>1. CASE UNCHANGED <<vars, broken>>
    <3>1. UNCHANGED <<conn, page, up, down, broken>>
      BY <2>1 DEF vars, net
    <3> QED
      BY <3>1 DEF AllFit, Fits, Sent, Returned, Replies, Token, Kept
  <2>2. CASE Disciplined
    BY <2>2, FitsKept DEF RadioInv
  <2> QED
    BY <2>1, <2>2
<1>3. RadioInv /\ AllFit /\ [Disciplined]_<<vars, broken>> => [Fit]_vars
  <2> SUFFICES ASSUME TypeOK, AllFit, Kept({"list"}), NEW b \in Browsers, OnAnswer(b), page' # page
               PROVE  \E c \in Found(page[b], Head(down[b]).id) : c.n = Head(down[b]).to
    BY DEF RadioInv
  <2> DEFINE m == Head(down[b])
  <2>1. /\ m.type = "answer" /\ page[b].open = "yes"
        /\ \E c \in page[b].pcs : m.id \in DOMAIN page[b].map /\ c.n = page[b].map[m.id]
    <3>1. ~(page'[b] = page[b] /\ \A c \in Browsers \ {b} : page'[c] = page[c])
      BY DEF OnAnswer, Update, TypeOK
    <3> QED
      BY <3>1, AnswerDoes
  <2>2. m = down[b][1] /\ 1 \in DOMAIN down[b] /\ \A j \in DOMAIN down[b] : ~(j < 1)
    <3>1. down[b] # <<>> /\ down[b] \in Seq(DownMessages(used))
      BY StreamsTyped DEF OnAnswer, Hears
    <3> QED
      BY <3>1
  <2>3. At(page[b].map, m.id, m.to)
    <3>1. Replies(down[b], page[b])
      BY DEF AllFit, Fits
    <3> QED
      BY <2>1, <2>2, <3>1 DEF Replies
  <2> QED
    BY <2>1, <2>3 DEF At, Found
<1> QED
  BY <1>1, <1>2, <1>3, PTL DEF DisciplineSpec, Disciplined, AnswerFits

-----------------------------------------------------------------------------
(* What a stream says *)

Tells(q, type) == \E i \in DOMAIN q : q[i].type = type
ReplyIn(q, id, s, n) == \E i \in DOMAIN q :
    q[i].type = "answer" /\ q[i].id = id /\ q[i].sdp = s /\ q[i].to = n
\* A list names x; one does, and the page learns its id before.
Names(q, x) == \E k \in DOMAIN q : IsList(q[k]) /\ x \in q[k].list
NamesLater(q, x) == \E k \in DOMAIN q :
    /\ IsList(q[k]) /\ x \in q[k].list
    /\ \E h \in DOMAIN q : h < k /\ q[h].type = "init"

\* What q says is said by r.
Says(q, r) ==
    /\ \A type : Tells(q, type) => Tells(r, type)
    /\ \A id, n : OfferIn(q, id, n) => OfferIn(r, id, n)
    /\ \A id, n : AnswerIn(q, id, n) => AnswerIn(r, id, n)
    /\ ListIn(q) => ListIn(r)
    /\ \A x : Names(q, x) => Names(r, x)
    /\ \A x : NamesLater(q, x) => NamesLater(r, x)

LEMMA SaysSame == \A q : Says(q, q)
BY DEF Says

LEMMA SaidAppended ==
  ASSUME NEW D, NEW q \in Seq(D), NEW m \in D
  PROVE  /\ Says(q, Append(q, m)) /\ Tells(Append(q, m), m.type)
         /\ \A id, s, n : ReplyIn(Append(q, m), id, s, n) =>
               ReplyIn(q, id, s, n) \/ (m.type = "answer" /\ m.id = id /\ m.sdp = s /\ m.to = n)
         /\ \A x : IsList(m) /\ x \in m.list => Names(Append(q, m), x)
         /\ \A x : IsList(m) /\ x \in m.list /\ Tells(q, "init") => NamesLater(Append(q, m), x)
<1> DEFINE r == Append(q, m)
           k == Len(q) + 1
<1>1. /\ k \in Nat /\ DOMAIN r = 1 .. k /\ \A i \in DOMAIN q : i \in Nat /\ i \in DOMAIN r /\ i < k /\ r[i] = q[i]
      /\ k \in DOMAIN r /\ r[k] = m
  BY Appended
<1>2. \A i \in DOMAIN r : (i \in DOMAIN q /\ r[i] = q[i]) \/ r[i] = m
  BY Appended
<1> HIDE DEF r, k
<1>3. \A type : Tells(q, type) => Tells(r, type)
  BY <1>1 DEF Tells
<1>4. \A id, n : OfferIn(q, id, n) => OfferIn(r, id, n)
  BY <1>1 DEF OfferIn
<1>5. \A id, n : AnswerIn(q, id, n) => AnswerIn(r, id, n)
  BY <1>1 DEF AnswerIn
<1>6. ListIn(q) => ListIn(r)
  BY <1>1 DEF ListIn
<1>7. \A x : Names(q, x) => Names(r, x)
  BY <1>1 DEF Names
<1>8. \A x : NamesLater(q, x) => NamesLater(r, x)
  BY <1>1 DEF NamesLater
<1>9. Tells(r, m.type)
  BY <1>1 DEF Tells
<1>10. \A id, s, n : ReplyIn(r, id, s, n) =>
          ReplyIn(q, id, s, n) \/ (m.type = "answer" /\ m.id = id /\ m.sdp = s /\ m.to = n)
  BY <1>2 DEF ReplyIn
<1>11. \A x : IsList(m) /\ x \in m.list => Names(r, x)
  BY <1>1 DEF Names
<1>12. \A x : IsList(m) /\ x \in m.list /\ Tells(q, "init") => NamesLater(r, x)
  BY <1>1 DEF NamesLater, Tells
<1> QED
  BY <1>3, <1>4, <1>5, <1>6, <1>7, <1>8, <1>9, <1>10, <1>11, <1>12 DEF Says, r

LEMMA SaidTailed ==
  ASSUME NEW D, NEW q \in Seq(D), q # <<>>
  PROVE  /\ \A type : Tells(q, type) => Tells(Tail(q), type) \/ Head(q).type = type
         /\ \A id, n : OfferIn(q, id, n) =>
               OfferIn(Tail(q), id, n) \/ (Head(q).type = "offer" /\ Head(q).id = id /\ Head(q).sdp = n)
         /\ \A id, n : AnswerIn(q, id, n) =>
               AnswerIn(Tail(q), id, n) \/ (Head(q).type = "answer" /\ Head(q).id = id /\ Head(q).to = n)
         /\ ListIn(q) => ListIn(Tail(q)) \/ IsList(Head(q))
         /\ \A id, s, n : ReplyIn(Tail(q), id, s, n) => ReplyIn(q, id, s, n)
         /\ Head(q).type = "answer" => ReplyIn(q, Head(q).id, Head(q).sdp, Head(q).to)
         /\ \A x : Names(q, x) => Names(Tail(q), x) \/ (IsList(Head(q)) /\ x \in Head(q).list)
         /\ \A x : NamesLater(q, x) => NamesLater(Tail(q), x) \/ (Head(q).type = "init" /\ Names(Tail(q), x))
<1> DEFINE r == Tail(q)
           m == Head(q)
<1>1. /\ \A i \in DOMAIN q : i \in Nat /\ (i = 1 \/ (i - 1 \in DOMAIN r /\ r[i - 1] = q[i]))
      /\ \A i \in DOMAIN r : i + 1 \in DOMAIN q /\ r[i] = q[i + 1]
      /\ m = q[1] /\ 1 \in DOMAIN q
  BY Tailed
<1> HIDE DEF r, m
<1>2. \A i \in DOMAIN q : q[i] = m \/ \E j \in DOMAIN r : r[j] = q[i]
  BY <1>1
<1>3. \A type : Tells(q, type) => Tells(r, type) \/ m.type = type
  BY <1>2 DEF Tells
<1>4. \A id, n : OfferIn(q, id, n) => OfferIn(r, id, n) \/ (m.type = "offer" /\ m.id = id /\ m.sdp = n)
  BY <1>2 DEF OfferIn
<1>5. \A id, n : AnswerIn(q, id, n) => AnswerIn(r, id, n) \/ (m.type = "answer" /\ m.id = id /\ m.to = n)
  BY <1>2 DEF AnswerIn
<1>6. ListIn(q) => ListIn(r) \/ IsList(m)
  BY <1>2 DEF ListIn
<1>7. \A id, s, n : ReplyIn(r, id, s, n) => ReplyIn(q, id, s, n)
  BY <1>1 DEF ReplyIn
<1>8. m.type = "answer" => ReplyIn(q, m.id, m.sdp, m.to)
  BY <1>1 DEF ReplyIn
<1>9. \A x : Names(q, x) => Names(r, x) \/ (IsList(m) /\ x \in m.list)
  BY <1>2 DEF Names
<1>10. ASSUME NEW x, NamesLater(q, x) PROVE NamesLater(r, x) \/ (m.type = "init" /\ Names(r, x))
  <2>1. PICK k \in DOMAIN q, h \in DOMAIN q : IsList(q[k]) /\ x \in q[k].list /\ h < k /\ q[h].type = "init"
    BY <1>10 DEF NamesLater
  <2>2. k \in Nat /\ h \in Nat /\ k # 1
    <3>1. k \in Nat /\ h \in Nat
      BY <1>1
    <3>2. h # 0
      BY Tailed DEF r
    <3> QED
      BY <2>1, <3>1, <3>2
  <2>3. k - 1 \in DOMAIN r /\ r[k - 1] = q[k]
    BY <1>1, <2>2
  <2>4. CASE h = 1
    BY <1>1, <2>1, <2>3, <2>4 DEF Names
  <2>5. CASE h # 1
    <3>1. h - 1 \in DOMAIN r /\ r[h - 1] = q[h] /\ h - 1 < k - 1
      BY <1>1, <2>1, <2>2, <2>5
    <3> QED
      BY <2>1, <2>3, <3>1 DEF NamesLater
  <2> QED
    BY <2>4, <2>5
<1> QED
  BY <1>3, <1>4, <1>5, <1>6, <1>7, <1>8, <1>9, <1>10 DEF r, m

LEMMA SaidNothing ==
  /\ \A type : ~Tells(<<>>, type)
  /\ \A id, s, n : ~ReplyIn(<<>>, id, s, n)
  /\ \A x : ~Names(<<>>, x) /\ ~NamesLater(<<>>, x)
BY DEF Tells, ReplyIn, Names, NamesLater

\* A list that goes to every socket.
LEMMA ListHeard ==
  ASSUME TypeOK, NEW c \in Browsers, NEW U, used \subseteq U, clients' \in SUBSET U,
         down'[c] = IF conn[c] # 0 THEN Append(down[c], List_(clients')) ELSE down[c]
  PROVE  /\ Says(down[c], down'[c])
         /\ \A id, s, n : ReplyIn(down'[c], id, s, n) => ReplyIn(down[c], id, s, n)
         /\ \A id, n : OfferIn(down'[c], id, n) => OfferIn(down[c], id, n)
         /\ conn[c] # 0 =>
               /\ ListIn(down'[c])
               /\ \A x \in clients' : Names(down'[c], x)
               /\ Tells(down[c], "init") => \A x \in clients' : NamesLater(down'[c], x)
<1> DEFINE m == List_(clients')
           D == DownMessages(U)
<1>1. m \in D /\ IsList(m) /\ m.list = clients' /\ m.type = "clients"
  <2>1. 0 \in U \cup {0}
    OBVIOUS
  <2> QED
    BY <2>1, MessagesTyped DEF IsList
<1>2. down[c] \in Seq(D)
  <2>1. DownMessages(used) \subseteq D
    BY Grows
  <2>2. down[c] \in Seq(DownMessages(used))
    BY StreamsTyped
  <2> QED
    BY <2>1, <2>2
<1>3. CASE conn[c] # 0
  <2>1. down'[c] = Append(down[c], m)
    BY <1>3
  <2> HIDE DEF m, D
  <2>2. /\ Says(down[c], down'[c]) /\ Tells(down'[c], "clients")
        /\ \A id, s, n : ReplyIn(down'[c], id, s, n) => ReplyIn(down[c], id, s, n)
        /\ \A x \in clients' : Names(down'[c], x)
        /\ Tells(down[c], "init") => \A x \in clients' : NamesLater(down'[c], x)
    <3> DEFINE q == down[c]
    <3>1. q \in Seq(D)
      BY <1>2
    <3> HIDE DEF q
    <3>2. /\ Says(q, Append(q, m)) /\ Tells(Append(q, m), m.type)
          /\ \A id, s, n : ReplyIn(Append(q, m), id, s, n) => ReplyIn(q, id, s, n)
      BY <1>1, <3>1, SaidAppended
    <3>3. /\ \A x \in m.list : Names(Append(q, m), x)
          /\ Tells(q, "init") => \A x \in m.list : NamesLater(Append(q, m), x)
      BY <1>1, <3>1, SaidAppended
    <3> QED
      BY <1>1, <2>1, <3>2, <3>3 DEF q
  <2>3. \A id, n : OfferIn(down'[c], id, n) => OfferIn(down[c], id, n)
    BY <1>1, <1>2, <2>1, InAppended
  <2>4. ListIn(down'[c])
    BY <2>2 DEF Tells, ListIn, IsList
  <2> QED
    BY <2>2, <2>3, <2>4
<1>4. CASE conn[c] = 0
  BY <1>4, SaysSame
<1> QED
  BY <1>3, <1>4

\* Who asks who it is, is told, and then who there is.
LEMMA WhoamiSays ==
  ASSUME TypeOK, NEW b \in Browsers, Serve(b), Head(up[b]).type = "whoami"
  PROVE  /\ \A c \in Browsers : /\ Says(down[c], down'[c])
                                /\ \A id, s, n : ReplyIn(down'[c], id, s, n) => ReplyIn(down[c], id, s, n)
                                /\ \A id, n : OfferIn(down'[c], id, n) => OfferIn(down[c], id, n)
         /\ Tells(down'[b], "init") /\ \A x \in clients : NamesLater(down'[b], x)
<1> DEFINE D == DownMessages(used)
           i == Init_(conn[b])
           l == List_(clients)
           q == down[b]
           r == Append(q, i)
<1>1. i \in D /\ i.type = "init" /\ l \in D /\ l.type = "clients" /\ l.list = clients
  <2>1. conn[b] \in used \cup {0} /\ clients \in SUBSET used
    BY DEF TypeOK
  <2> QED
    BY <2>1, MessagesTyped
<1>2. q \in Seq(D)
  BY StreamsTyped
<1>3. down'[b] = q \o <<i, l>> /\ \A c \in Browsers \ {b} : down'[c] = down[c]
  BY ServeDoes
<1> HIDE DEF D, i, l, q
<1>4. /\ r \in Seq(D) /\ Says(q, r) /\ Tells(r, "init")
      /\ \A id, s, n : ReplyIn(r, id, s, n) => ReplyIn(q, id, s, n)
      /\ \A id, n : OfferIn(r, id, n) => OfferIn(q, id, n)
  BY <1>1, <1>2, Appended, SaidAppended, InAppended
<1> HIDE DEF r
<1>5. /\ Says(r, Append(r, l))
      /\ \A x \in clients : NamesLater(Append(r, l), x)
      /\ \A id, s, n : ReplyIn(Append(r, l), id, s, n) => ReplyIn(q, id, s, n)
      /\ \A id, n : OfferIn(Append(r, l), id, n) => OfferIn(q, id, n)
  BY <1>1, <1>4, SaidAppended, InAppended DEF IsList
<1>6. down'[b] = Append(r, l)
  BY <1>1, <1>2, <1>3, TwoAppended DEF r
<1>7. Says(q, down'[b]) /\ Tells(down'[b], "init")
  BY <1>4, <1>5, <1>6 DEF Says
<1> QED
  BY <1>3, <1>5, <1>6, <1>7, SaysSame DEF q

\* An offer or an answer comes to the socket that has the id, from that of the sender.
LEMMA RelaySays ==
  ASSUME TypeOK, NEW b \in Browsers, Serve(b), Head(up[b]).type # "whoami", NEW c \in Browsers
  PROVE  LET m == Head(up[b]) IN
         /\ Says(down[c], down'[c])
         /\ \A id, s, n : ReplyIn(down'[c], id, s, n) =>
               \/ ReplyIn(down[c], id, s, n)
               \/ conn[c] = m.id /\ m.type = "answer" /\ id = conn[b] /\ m.sdp = s /\ m.to = n
         /\ \A id, n : OfferIn(down'[c], id, n) =>
               \/ OfferIn(down[c], id, n)
               \/ conn[c] = m.id /\ m.type = "offer" /\ id = conn[b] /\ m.sdp = n
         /\ conn[c] = m.id /\ m.type = "offer" => OfferIn(down'[c], conn[b], m.sdp)
         /\ conn[c] = m.id /\ m.type = "answer" => AnswerIn(down'[c], conn[b], m.to)
<1> DEFINE m == Head(up[b])
           f == [m EXCEPT !.id = conn[b]]
           D == DownMessages(used)
<1>1. /\ m \in UpMessages(used) /\ f \in D
      /\ down'[c] = IF conn[c] = m.id THEN Append(down[c], f) ELSE down[c]
  BY ServeDoes
<1>2. f.type = m.type /\ f.id = conn[b] /\ f.sdp = m.sdp /\ f.to = m.to
  BY <1>1 DEF UpMessages, Messages
<1>3. down[c] \in Seq(D)
  BY StreamsTyped
<1> HIDE DEF m, f, D
<1>4. CASE conn[c] = m.id
  <2>1. down'[c] = Append(down[c], f)
    BY <1>1, <1>4
  <2>2. /\ Says(down[c], down'[c])
        /\ \A id, s, n : ReplyIn(down'[c], id, s, n) =>
              ReplyIn(down[c], id, s, n) \/ (f.type = "answer" /\ f.id = id /\ f.sdp = s /\ f.to = n)
    BY <1>1, <1>3, <2>1, SaidAppended
  <2>3. /\ \A id, n : OfferIn(down'[c], id, n) <=>
              OfferIn(down[c], id, n) \/ (f.type = "offer" /\ f.id = id /\ f.sdp = n)
        /\ \A id, n : AnswerIn(down'[c], id, n) <=>
              AnswerIn(down[c], id, n) \/ (f.type = "answer" /\ f.id = id /\ f.to = n)
    BY <1>1, <1>3, <2>1, InAppended
  <2> QED
    BY <1>2, <1>4, <2>2, <2>3 DEF m
<1>5. CASE conn[c] # m.id
  BY <1>1, <1>5, SaysSame DEF m
<1> QED
  BY <1>4, <1>5

\* What the server takes from a browser is gone from what waits for it.
LEMMA TakenSays ==
  ASSUME TypeOK, NEW b \in Browsers, Serve(b)
  PROVE  LET m == Head(up[b]) IN
         /\ \A c \in Browsers \ {b} : up'[c] = up[c]
         /\ Tells(up[b], "whoami") => Tells(up'[b], "whoami") \/ m.type = "whoami"
         /\ \A id, n : OfferIn(up[b], id, n) =>
               OfferIn(up'[b], id, n) \/ (m.type = "offer" /\ m.id = id /\ m.sdp = n)
         /\ \A id, n : AnswerIn(up[b], id, n) =>
               AnswerIn(up'[b], id, n) \/ (m.type = "answer" /\ m.id = id /\ m.to = n)
         /\ \A id, s, n : ReplyIn(up'[b], id, s, n) => ReplyIn(up[b], id, s, n)
         /\ \A id, n : OfferIn(up'[b], id, n) => OfferIn(up[b], id, n)
         /\ m.type = "answer" => ReplyIn(up[b], m.id, m.sdp, m.to)
         /\ m.type = "offer" => OfferIn(up[b], m.id, m.sdp)
         /\ conn[b] # 0 /\ UNCHANGED <<net, page>>
<1>1. /\ up[b] # <<>> /\ up'[b] = Tail(up[b]) /\ \A c \in Browsers \ {b} : up'[c] = up[c]
      /\ conn[b] # 0 /\ UNCHANGED <<net, page>>
  BY ServeDoes
<1>2. up[b] \in Seq(UpMessages(used))
  BY StreamsTyped
<1> QED
  BY <1>1, <1>2, SaidTailed, InTailed

\* What the page emits comes last.
LEMMA EmittedSays ==
  ASSUME TypeOK, NEW b \in Browsers, NEW f \in UpMessages(used), up'[b] = Append(up[b], f)
  PROVE  /\ Says(up[b], up'[b]) /\ Tells(up'[b], f.type)
         /\ \A id, s, n : ReplyIn(up'[b], id, s, n) =>
               ReplyIn(up[b], id, s, n) \/ (f.type = "answer" /\ f.id = id /\ f.sdp = s /\ f.to = n)
         /\ \A id, n : OfferIn(up'[b], id, n) <=>
               OfferIn(up[b], id, n) \/ (f.type = "offer" /\ f.id = id /\ f.sdp = n)
         /\ \A id, n : AnswerIn(up'[b], id, n) <=>
               AnswerIn(up[b], id, n) \/ (f.type = "answer" /\ f.id = id /\ f.to = n)
BY StreamsTyped, SaidAppended, InAppended

-----------------------------------------------------------------------------
(* What a page knows and awaits *)

\* The page has its id, or will hear it.
Knows(b) == page[b].open = "yes" /\ conn[b] # 0 =>
    page[b].me = conn[b] \/ Tells(up[b], "whoami") \/ Tells(down[b], "init")

LEMMA KnowsInit == Init => \A b \in Browsers : Knows(b)
BY DEF Init, NewPage, Knows

LEMMA KnowsSame ==
  ASSUME NEW b \in Browsers, Knows(b), conn'[b] = conn[b],
         page'[b].open = "yes" => page[b].open = "yes" /\ page'[b].me = page[b].me,
         Tells(up[b], "whoami") => Tells(up'[b], "whoami"),
         Tells(down[b], "init") => Tells(down'[b], "init")
  PROVE  Knows(b)'
BY DEF Knows

\* A message is taken from the stream and nothing is emitted.
LEMMA ReceiveTakes ==
  ASSUME TypeOK, NEW b \in Browsers, Receive(b)
  PROVE  /\ conn' = conn /\ up' = up /\ down[b] # <<>> /\ down'[b] = Tail(down[b])
         /\ \A c \in Browsers \ {b} : down'[c] = down[c] /\ page'[c] = page[c]
         /\ page'[b].open = page[b].open
<1>1. /\ conn' = conn /\ up' = up /\ down[b] # <<>> /\ down'[b] = Tail(down[b])
      /\ \A c \in Browsers \ {b} : down'[c] = down[c]
  BY DEF Receive, Ignore, OnInit, OnClients, OnOffer, OnAnswer, Hears, TypeOK, net
<1>2. (\A c \in Browsers \ {b} : page'[c] = page[c]) /\ page'[b].open = page[b].open
  <2>1. CASE Ignore(b)
    BY <2>1 DEF Ignore
  <2>2. CASE OnInit(b)
    BY <2>2, InitDoes
  <2>3. CASE OnClients(b)
    BY <2>3, ClientsDoes
  <2>4. CASE OnOffer(b)
    BY <2>4, OfferDoes DEF Kin
  <2>5. CASE OnAnswer(b)
    BY <2>5, AnswerDoes DEF Kin
  <2> QED
    BY <2>1, <2>2, <2>3, <2>4, <2>5 DEF Receive
<1> QED
  BY <1>1, <1>2

LEMMA FinishEmits ==
  ASSUME TypeOK, NEW b \in Browsers, Finish(b)
  PROVE  /\ UNCHANGED net /\ down' = down
         /\ Says(up[b], up'[b]) /\ Kin(page[b], page'[b])
         /\ \A c \in Browsers \ {b} : up'[c] = up[c] /\ page'[c] = page[c]
<1>1. PICK t \in page[b].tasks : Created(b, t) \/ Offered(b, t) \/ Answered(b, t)
  BY DEF Finish
<1>2. UNCHANGED net /\ down' = down
  BY <1>1 DEF Created, Offered, Answered, Awaited
<1>3. ASSUME \/ UNCHANGED up
             \/ \E f \in UpMessages(used) : up'[b] = Append(up[b], f) /\ \A x \in Browsers \ {b} : up'[x] = up[x]
      PROVE  Says(up[b], up'[b]) /\ \A c \in Browsers \ {b} : up'[c] = up[c]
  BY <1>3, SaysSame, EmittedSays
<1>4. CASE Created(b, t)
  <2>1. Kin(page[b], page'[b]) /\ \A c \in Browsers \ {b} : page'[c] = page[c]
    BY <1>4, CreatedDoes
  <2> QED
    BY <1>2, <1>3, <1>4, <2>1 DEF Created
<1>5. CASE Offered(b, t)
  <2>1. /\ Kin(page[b], page'[b]) /\ \A c \in Browsers \ {b} : page'[c] = page[c]
        /\ \/ UNCHANGED up
           \/ \E f \in UpMessages(used) : up'[b] = Append(up[b], f) /\ \A x \in Browsers \ {b} : up'[x] = up[x]
    BY <1>5, OfferedDoes
  <2> QED
    BY <1>2, <1>3, <2>1
<1>6. CASE Answered(b, t)
  <2>1. /\ Kin(page[b], page'[b]) /\ \A c \in Browsers \ {b} : page'[c] = page[c]
        /\ \/ UNCHANGED up
           \/ \E f \in UpMessages(used) : up'[b] = Append(up[b], f) /\ \A x \in Browsers \ {b} : up'[x] = up[x]
    BY <1>6, AnsweredDoes
  <2> QED
    BY <1>2, <1>3, <2>1
<1> QED
  BY <1>1, <1>4, <1>5, <1>6

\* What a page that is turned emits: it asks who it is, when it is opened.
LEMMA TurnEmits ==
  ASSUME TypeOK, NEW b \in Browsers, Open(b) \/ Leave(b) \/ Press(b) \/ Ready(b)
  PROVE  /\ UNCHANGED net /\ down' = down /\ Says(up[b], up'[b])
         /\ \A c \in Browsers \ {b} : up'[c] = up[c] /\ page'[c] = page[c]
         /\ \A id, n : OfferIn(up'[b], id, n) => OfferIn(up[b], id, n)
         /\ \A id, s, n : ReplyIn(up'[b], id, s, n) => ReplyIn(up[b], id, s, n)
         /\ Open(b) /\ conn[b] # 0 => Tells(up'[b], "whoami")
<1>1. UNCHANGED net /\ down' = down
  BY DEF Open, Leave, Press, Ready
<1>2. \A c \in Browsers \ {b} : page'[c] = page[c]
  BY OpenDoes, LeaveDoes, PressDoes, ReadyDoes
<1>3. CASE Open(b) /\ conn[b] # 0
  <2> DEFINE m == Message("whoami", 0)
  <2>1. Emit(b, m)
    BY <1>3 DEF Open
  <2>2. m \in UpMessages(used) /\ m.type = "whoami"
    BY DEF Message, UpMessages, Messages
  <2> HIDE DEF m
  <2>3. up'[b] = Append(up[b], m) /\ \A c \in Browsers \ {b} : up'[c] = up[c]
    BY <2>1, <2>2, EmitTyped
  <2> QED
    BY <1>1, <1>2, <2>2, <2>3, EmittedSays
<1>4. CASE up' = up /\ ~(Open(b) /\ conn[b] # 0)
  BY <1>1, <1>2, <1>4, SaysSame
<1>5. up' = up \/ (Open(b) /\ conn[b] # 0)
  BY DEF Open, Leave, Press, Ready
<1> QED
  BY <1>3, <1>4, <1>5

LEMMA KnowsKept ==
  ASSUME TypeOK, Streams, \A b \in Browsers : Knows(b), Next
  PROVE  \A b \in Browsers : Knows(b)'
<1> SUFFICES ASSUME NEW b \in Browsers PROVE Knows(b)'
  OBVIOUS
<1>1. CASE Notice
  <2>1. /\ clients' \in SUBSET used /\ UNCHANGED <<conn, page, up>>
        /\ down'[b] = IF conn[b] # 0 THEN Append(down[b], List_(clients')) ELSE down[b]
    BY <1>1, NoticeDoes DEF TypeOK
  <2>2. Says(down[b], down'[b])
    BY <2>1, ListHeard
  <2> QED
    BY <2>1, <2>2, KnowsSame DEF Says
<1>2. ASSUME NEW d \in Browsers, Connect(d) PROVE Knows(b)'
  <2>1. PICK id \in Ids \ used :
           /\ conn[d] = 0 /\ conn'[d] = id /\ \A c \in Browsers \ {d} : conn'[c] = conn[c]
           /\ used' = used \cup {id} /\ clients' \subseteq used'
           /\ down'[d] = <<Init_(id), List_(clients')>>
           /\ \A c \in Browsers \ {d} :
                 down'[c] = IF conn[c] # 0 THEN Append(down[c], List_(clients')) ELSE down[c]
           /\ UNCHANGED <<page, up, turns>>
    BY <1>2, ConnectDoes
  <2>2. CASE b = d
    <3>1. down'[b][1] = Init_(id) /\ 1 \in DOMAIN down'[b]
      <4>1. \A x, y : <<x, y>>[1] = x /\ 1 \in DOMAIN <<x, y>>
        OBVIOUS
      <4> QED
        BY <2>1, <2>2, <4>1
    <3>2. Init_(id).type = "init"
      BY DEF Init_, Message
    <3> QED
      BY <3>1, <3>2 DEF Knows, Tells
  <2>3. CASE b # d
    <3>1. Says(down[b], down'[b])
      BY <2>1, <2>3, ListHeard
    <3> QED
      BY <2>1, <2>3, <3>1, KnowsSame DEF Says
  <2> QED
    BY <2>2, <2>3
<1>3. ASSUME NEW d \in Browsers, Drop(d) PROVE Knows(b)'
  BY <1>3, DropDoes, KnowsSame DEF Knows
<1>4. ASSUME NEW d \in Browsers, Serve(d) PROVE Knows(b)'
  <2>1. conn' = conn /\ page' = page /\ \A c \in Browsers \ {d} : up'[c] = up[c]
    BY <1>4, TakenSays DEF net
  <2>2. CASE Head(up[d]).type = "whoami"
    <3>1. Says(down[b], down'[b]) /\ Tells(down'[d], "init")
      BY <1>4, <2>2, WhoamiSays
    <3>2. CASE b = d
      BY <3>1, <3>2 DEF Knows
    <3> QED
      BY <2>1, <3>1, <3>2, KnowsSame DEF Says
  <2>3. CASE Head(up[d]).type # "whoami"
    <3>1. Says(down[b], down'[b])
      BY <1>4, <2>3, RelaySays
    <3>2. Tells(up[b], "whoami") => Tells(up'[b], "whoami")
      BY <1>4, <2>1, <2>3, TakenSays
    <3> QED
      BY <2>1, <3>1, <3>2, KnowsSame DEF Says
  <2> QED
    BY <2>2, <2>3
<1>5. ASSUME NEW d \in Browsers, Open(d) \/ Leave(d) \/ Press(d) \/ Ready(d) PROVE Knows(b)'
  <2>1. /\ conn' = conn /\ down' = down /\ Says(up[d], up'[d])
        /\ \A c \in Browsers \ {d} : up'[c] = up[c] /\ page'[c] = page[c]
        /\ Open(d) /\ conn[d] # 0 => Tells(up'[d], "whoami")
    BY <1>5, TurnEmits DEF net
  <2>2. CASE b = d /\ Open(d)
    BY <2>1, <2>2 DEF Knows
  <2>3. CASE b = d /\ ~Open(d)
    <3>1. page'[b].open = "yes" => page[b].open = "yes" /\ page'[b].me = page[b].me
      BY <1>5, <2>3, LeaveDoes, PressDoes, ReadyDoes DEF Kin
    <3> QED
      BY <2>1, <2>3, <3>1, KnowsSame DEF Says
  <2>4. CASE b # d
    BY <2>1, <2>4, KnowsSame
  <2> QED
    BY <2>2, <2>3, <2>4
<1>6. ASSUME NEW d \in Browsers, Receive(d) PROVE Knows(b)'
  <2>1. /\ conn' = conn /\ up' = up /\ down[d] # <<>> /\ down'[d] = Tail(down[d])
        /\ \A c \in Browsers \ {d} : down'[c] = down[c] /\ page'[c] = page[c]
        /\ page'[d].open = page[d].open
    BY <1>6, ReceiveTakes
  <2>2. CASE b # d
    BY <2>1, <2>2, KnowsSame
  <2>3. CASE b = d /\ OnInit(d)
    <3>1. page'[b].me = Head(down[b]).id /\ Head(down[b]).type = "init"
      BY <2>3, InitDoes DEF OnInit, Hears
    <3>2. Head(down[b]) = down[b][1] /\ 1 \in DOMAIN down[b]
      BY <2>1, <2>3, HeadTyped, StreamsTyped
    <3>3. page'[b].me = conn'[b]
      BY <2>1, <3>1, <3>2 DEF Streams, Stream, Tuned
    <3> QED
      BY <3>3 DEF Knows
  <2>4. CASE b = d /\ ~OnInit(d)
    <3>1. /\ page[b].open = "yes" => Head(down[b]).type # "init"
          /\ page'[b].me = page[b].me
      <4>1. CASE Ignore(b)
        BY <4>1 DEF Ignore
      <4>2. CASE OnClients(b)
        BY <4>2, ClientsDoes DEF OnClients, Hears
      <4>3. CASE OnOffer(b)
        BY <4>3, OfferDoes DEF Kin
      <4>4. CASE OnAnswer(b)
        BY <4>4, AnswerDoes DEF Kin
      <4> QED
        BY <1>6, <2>4, <4>1, <4>2, <4>3, <4>4 DEF Receive
    <3>2. CASE page[b].open # "yes"
      BY <2>1, <2>4, <3>2 DEF Knows
    <3>3. CASE page[b].open = "yes"
      <4>1. Tells(down[b], "init") => Tells(down'[b], "init")
        BY <2>1, <2>4, <3>1, <3>3, StreamsTyped, SaidTailed
      <4> QED
        BY <2>1, <2>4, <3>1, <4>1, KnowsSame
    <3> QED
      BY <3>2, <3>3
  <2> QED
    BY <2>2, <2>3, <2>4
<1>7. ASSUME NEW d \in Browsers, Finish(d) PROVE Knows(b)'
  <2>1. /\ conn' = conn /\ down' = down /\ Says(up[d], up'[d]) /\ Kin(page[d], page'[d])
        /\ \A c \in Browsers \ {d} : up'[c] = up[c] /\ page'[c] = page[c]
    BY <1>7, FinishEmits DEF net
  <2> QED
    BY <2>1, KnowsSame DEF Says, Kin
<1> QED
  BY <1>1, <1>2, <1>3, <1>4, <1>5, <1>6, <1>7 DEF Next

\* A task that makes or sends an offer of one's own
Own(t) == t.kind = "offer" \/ (t.kind = "create" /\ t.sdp = 0)

\* A browser offers to lesser ids, is offered by greater ones, and awaits nothing while
\* it has no id.
Aimed(b) ==
    /\ conn[b] = 0 => page[b].tasks = {}
    /\ \A t \in page[b].tasks : (Own(t) => t.peer < conn[b]) /\ (~Own(t) => t.peer > conn[b])
    /\ \A id, n : OfferIn(up[b], id, n) => id < conn[b]
    /\ \A id, n : OfferIn(down[b], id, n) => id > conn[b]

LEMMA AimedInit == Init => \A b \in Browsers : Aimed(b)
BY InNothing DEF Init, NewPage, Aimed

LEMMA AimedSame ==
  ASSUME NEW b \in Browsers, Aimed(b), conn'[b] = conn[b], page'[b].tasks \subseteq page[b].tasks,
         \A id, n : OfferIn(up'[b], id, n) => OfferIn(up[b], id, n),
         \A id, n : OfferIn(down'[b], id, n) => OfferIn(down[b], id, n)
  PROVE  Aimed(b)'
<1>1. conn'[b] = 0 => page'[b].tasks = {}
  BY DEF Aimed
<1>2. \A t \in page'[b].tasks : (Own(t) => t.peer < conn'[b]) /\ (~Own(t) => t.peer > conn'[b])
  BY DEF Aimed
<1>3. /\ \A id, n : OfferIn(up'[b], id, n) => id < conn'[b]
      /\ \A id, n : OfferIn(down'[b], id, n) => id > conn'[b]
  BY DEF Aimed
<1> QED
  BY <1>1, <1>2, <1>3 DEF Aimed

\* New tasks and offers that are aimed right.
LEMMA AimedMore ==
  ASSUME NEW b \in Browsers, Aimed(b), conn'[b] = conn[b], conn[b] # 0,
         \A t \in page'[b].tasks : t \in page[b].tasks \/
             ((Own(t) => t.peer < conn[b]) /\ (~Own(t) => t.peer > conn[b])),
         \A id, n : OfferIn(up'[b], id, n) => OfferIn(up[b], id, n) \/ id < conn[b],
         \A id, n : OfferIn(down'[b], id, n) => OfferIn(down[b], id, n) \/ id > conn[b]
  PROVE  Aimed(b)'
<1>1. \A t \in page'[b].tasks : (Own(t) => t.peer < conn'[b]) /\ (~Own(t) => t.peer > conn'[b])
  BY DEF Aimed
<1>2. /\ \A id, n : OfferIn(up'[b], id, n) => id < conn'[b]
      /\ \A id, n : OfferIn(down'[b], id, n) => id > conn'[b]
  BY DEF Aimed
<1> QED
  BY <1>1, <1>2 DEF Aimed

LEMMA ConnTyped ==
  ASSUME TypeOK, NEW b \in Browsers
  PROVE  conn[b] \in Nat /\ (conn[b] # 0 => conn[b] \in used) /\ \A id \in used : id \in Nat /\ id # 0
<1>1. conn[b] \in used \cup {0} /\ used \subseteq Ids
  BY DEF TypeOK
<1>2. \A id \in used : id \in Nat /\ id # 0
  BY <1>1, FoundIds
<1> QED
  BY <1>1, <1>2

\* Ids in messages were handed out.
LEMMA SaidTyped ==
  ASSUME TypeOK, NEW b \in Browsers, NEW id, NEW n
  PROVE  /\ OfferIn(up[b], id, n) \/ OfferIn(down[b], id, n) => id \in used
         /\ AnswerIn(up[b], id, n) \/ AnswerIn(down[b], id, n) => id \in used
<1>1. /\ \A i \in DOMAIN down[b] : down[b][i] \in DownMessages(used)
      /\ \A i \in DOMAIN up[b] : up[b][i] \in UpMessages(used)
  BY StreamsTyped
<1>2. \A m \in DownMessages(used) \cup UpMessages(used) : m.type \in {"offer", "answer"} => m.id \in used
  BY DEF DownMessages, UpMessages, Messages
<1> QED
  BY <1>1, <1>2 DEF OfferIn, AnswerIn

LEMMA AimedReceived ==
  ASSUME TypeOK, Streams, NEW b \in Browsers, Receive(b), Aimed(b)
  PROVE  Aimed(b)'
<1> DEFINE p == page[b]
           q == page'[b]
           m == Head(down[b])
<1>1. conn' = conn /\ up' = up /\ down[b] # <<>> /\ down'[b] = Tail(down[b])
  BY ReceiveTakes
<1>2. /\ \A id, n : OfferIn(down'[b], id, n) => OfferIn(down[b], id, n)
      /\ m.type = "offer" => OfferIn(down[b], m.id, m.sdp)
  BY <1>1, StreamsTyped, InTailed
<1>3. conn[b] # 0
  BY <1>1 DEF Streams, Stream, Tuned
<1>4. CASE q.tasks = p.tasks
  BY <1>1, <1>2, <1>4, AimedSame
<1>5. ASSUME NEW T, q.tasks = p.tasks \cup T,
             \A t \in T : (Own(t) => t.peer < conn[b]) /\ (~Own(t) => t.peer > conn[b])
      PROVE  Aimed(b)'
  <2>1. \A t \in q.tasks : t \in p.tasks \/ ((Own(t) => t.peer < conn[b]) /\ (~Own(t) => t.peer > conn[b]))
    BY <1>5
  <2> QED
    BY <1>1, <1>2, <1>3, <2>1, AimedMore
<1>6. CASE OnClients(b)
  <2> DEFINE made == Made(p, Call(p, m.list), 0)
  <2>1. /\ p.open = "yes"
        /\ p.me = 0 => q.tasks = p.tasks
        /\ p.me # 0 => q.tasks = p.tasks \cup made
        /\ \A t \in made : t.kind = "create" /\ t.sdp = 0 /\ t.peer < p.me
    BY <1>6, ClientsDoes
  <2>2. p.me \in {0, conn[b]}
    <3>1. m = down[b][1] /\ m.type = "clients"
      BY <1>1, <1>6, HeadTyped DEF OnClients, Hears
    <3> QED
      BY <1>3, <2>1, <3>1 DEF Streams, Stream, Tuned
  <2> HIDE DEF made
  <2>3. p.me # 0 => \A t \in made : Own(t) /\ t.peer < conn[b]
    BY <2>1, <2>2 DEF Own
  <2> QED
    BY <1>4, <1>5, <2>1, <2>3
<1>7. CASE OnOffer(b)
  <2>1. /\ m.type = "offer" /\ m.sdp # 0
        /\ m.id \in DOMAIN p.map => q.tasks = p.tasks \cup {Answer(p, m.id, m.sdp)}
        /\ m.id \notin DOMAIN p.map => \E t \in Tasks(used) :
              t.kind = "create" /\ t.peer = m.id /\ t.sdp = m.sdp /\ q.tasks = p.tasks \cup {t}
    BY <1>7, OfferDoes
  <2>2. m.id > conn[b]
    BY <1>2, <2>1 DEF Aimed
  <2>3. Answer(p, m.id, m.sdp).kind = "answer" /\ Answer(p, m.id, m.sdp).peer = m.id
    BY DEF Answer
  <2>4. \E t : /\ q.tasks = p.tasks \cup {t} /\ t.peer = m.id
               /\ t.kind = "answer" \/ (t.kind = "create" /\ t.sdp # 0)
    BY <2>1, <2>3
  <2>5. PICK t : /\ q.tasks = p.tasks \cup {t} /\ t.peer = m.id
                 /\ t.kind = "answer" \/ (t.kind = "create" /\ t.sdp # 0)
    BY <2>4
  <2>6. \A u \in {t} : (Own(u) => u.peer < conn[b]) /\ (~Own(u) => u.peer > conn[b])
    BY <2>2, <2>5 DEF Own
  <2> QED
    BY <1>5, <2>5, <2>6
<1>8. CASE Ignore(b)
  BY <1>4, <1>8 DEF Ignore
<1>9. CASE OnInit(b)
  BY <1>4, <1>9, InitDoes
<1>10. CASE OnAnswer(b)
  BY <1>4, <1>10, AnswerDoes
<1> QED
  BY <1>6, <1>7, <1>8, <1>9, <1>10 DEF Receive

LEMMA AimedFinished ==
  ASSUME TypeOK, NEW b \in Browsers, Finish(b), Aimed(b)
  PROVE  Aimed(b)'
<1> DEFINE p == page[b]
           q == page'[b]
<1>1. PICK t \in p.tasks : Created(b, t) \/ Offered(b, t) \/ Answered(b, t)
  BY DEF Finish
<1>2. conn' = conn /\ down' = down /\ conn[b] # 0
  BY <1>1, FinishEmits DEF Aimed, net
<1>3. CASE Created(b, t)
  <2>1. /\ t.kind = "create"
        /\ t.sdp # 0 => \E u \in Tasks(used) :
             u.kind = "answer" /\ u.peer = t.peer /\ q.tasks = (p.tasks \ {t}) \cup {u}
        /\ t.sdp = 0 /\ t.peer \in DOMAIN p.map => q.tasks = p.tasks \ {t}
        /\ t.sdp = 0 /\ t.peer \notin DOMAIN p.map => \E u \in Tasks(used) :
             u.kind = "offer" /\ u.peer = t.peer /\ q.tasks = (p.tasks \ {t}) \cup {u}
    BY <1>3, CreatedDoes
  <2>5. up' = up
    BY <1>3 DEF Created
  <2> HIDE DEF p, q
  <2>2. \A u \in q.tasks : \/ u \in p.tasks
                           \/ u.peer = t.peer /\ u.kind \in {"answer", "offer"} /\ (Own(u) <=> Own(t))
    BY <2>1 DEF Own
  <2>3. (Own(t) => t.peer < conn[b]) /\ (~Own(t) => t.peer > conn[b])
    BY <1>1 DEF Aimed, p
  <2>4. \A u \in q.tasks : u \in p.tasks \/ ((Own(u) => u.peer < conn[b]) /\ (~Own(u) => u.peer > conn[b]))
    BY <2>2, <2>3
  <2> QED
    BY <1>2, <2>4, <2>5, AimedMore DEF p, q
<1>4. CASE Offered(b, t)
  <2>1. /\ t.kind = "offer" /\ q.tasks = p.tasks \ {t}
        /\ \/ UNCHANGED up
           \/ \E f \in UpMessages(used) : f.type = "offer" /\ f.id = t.peer /\ up'[b] = Append(up[b], f)
    BY <1>4, OfferedDoes
  <2>2. t.peer < conn[b]
    BY <1>1, <2>1 DEF Aimed, Own
  <2>3. ASSUME NEW f \in UpMessages(used), f.id = t.peer, up'[b] = Append(up[b], f), NEW id, NEW n,
               OfferIn(up'[b], id, n)
        PROVE  OfferIn(up[b], id, n) \/ id = t.peer
    BY <2>3, EmittedSays
  <2>4. \A id, n : OfferIn(up'[b], id, n) => OfferIn(up[b], id, n) \/ id = t.peer
    BY <2>1, <2>3
  <2> QED
    BY <1>2, <2>1, <2>2, <2>4, AimedMore
<1>5. CASE Answered(b, t)
  <2>1. /\ q.tasks = p.tasks \ {t}
        /\ \/ UNCHANGED up
           \/ \E f \in UpMessages(used) : f.type = "answer" /\ up'[b] = Append(up[b], f)
    BY <1>5, AnsweredDoes
  <2>2. \A id, n : OfferIn(up'[b], id, n) => OfferIn(up[b], id, n)
    BY <2>1, EmittedSays
  <2> QED
    BY <1>2, <2>1, <2>2, AimedSame
<1> QED
  BY <1>1, <1>3, <1>4, <1>5

LEMMA AimedKept ==
  ASSUME TypeOK, Streams, \A b \in Browsers : Aimed(b), NothingLate, \A b \in Browsers : ~Press(b), Next
  PROVE  \A b \in Browsers : Aimed(b)'
<1> SUFFICES ASSUME NEW b \in Browsers PROVE Aimed(b)'
  OBVIOUS
<1>1. CASE Notice
  <2>1. /\ clients' \in SUBSET used /\ UNCHANGED <<conn, page, up>>
        /\ down'[b] = IF conn[b] # 0 THEN Append(down[b], List_(clients')) ELSE down[b]
    BY <1>1, NoticeDoes DEF TypeOK
  <2>2. \A id, n : OfferIn(down'[b], id, n) => OfferIn(down[b], id, n)
    BY <2>1, ListHeard
  <2> QED
    BY <2>1, <2>2, AimedSame
<1>2. ASSUME NEW d \in Browsers, Connect(d) PROVE Aimed(b)'
  <2>1. PICK id \in Ids \ used :
           /\ conn[d] = 0 /\ conn'[d] = id /\ \A c \in Browsers \ {d} : conn'[c] = conn[c]
           /\ used' = used \cup {id} /\ clients' \subseteq used'
           /\ down'[d] = <<Init_(id), List_(clients')>>
           /\ \A c \in Browsers \ {d} :
                 down'[c] = IF conn[c] # 0 THEN Append(down[c], List_(clients')) ELSE down[c]
           /\ UNCHANGED <<page, up, turns>>
    BY <1>2, ConnectDoes
  <2>2. CASE b = d
    <3> DEFINE i == Init_(id)
               l == List_(clients')
    <3>1. i.type = "init" /\ l.type = "clients"
      BY DEF Init_, List_, Message
    <3> HIDE DEF i, l
    <3>2. \A n : \A x : ~OfferIn(<<i, l>>, x, n)
      <4>1. \A k \in DOMAIN <<i, l>> : <<i, l>>[k] \in {i, l}
        OBVIOUS
      <4> QED
        BY <3>1, <4>1 DEF OfferIn
    <3>3. page'[b].tasks = {}
      BY <2>1, <2>2 DEF Aimed
    <3>4. \A x, n : ~OfferIn(up'[b], x, n)
      <4>1. ASSUME NEW x, NEW n, OfferIn(up[b], x, n) PROVE FALSE
        <5>1. x < 0 /\ x \in Nat
          BY <2>1, <2>2, <4>1, ConnTyped, SaidTyped DEF Aimed
        <5> QED
          BY <5>1
      <4> QED
        BY <2>1, <4>1
    <3> QED
      BY <2>1, <2>2, <3>2, <3>3, <3>4 DEF Aimed, i, l
  <2>3. CASE b # d
    <3>1. \A x, n : OfferIn(down'[b], x, n) => OfferIn(down[b], x, n)
      BY <2>1, <2>3, ListHeard
    <3> QED
      BY <2>1, <2>3, <3>1, AimedSame
  <2> QED
    BY <2>2, <2>3
<1>3. ASSUME NEW d \in Browsers, Drop(d) PROVE Aimed(b)'
  <2>1. CASE b = d
    <3>1. conn'[b] = 0 /\ page'[b].tasks = {} /\ up'[b] = <<>> /\ down'[b] = <<>>
      BY <1>3, <2>1, DropDoes DEF NothingLate
    <3> QED
      BY <3>1, InNothing DEF Aimed
  <2>2. CASE b # d
    BY <1>3, <2>2, DropDoes, AimedSame
  <2> QED
    BY <2>1, <2>2
<1>4. ASSUME NEW d \in Browsers, Serve(d) PROVE Aimed(b)'
  <2>1. /\ conn' = conn /\ page' = page /\ conn[d] # 0
        /\ \A id, n : OfferIn(up'[b], id, n) => OfferIn(up[b], id, n)
        /\ Head(up[d]).type = "offer" => OfferIn(up[d], Head(up[d]).id, Head(up[d]).sdp)
    BY <1>4, TakenSays DEF net
  <2>2. CASE Head(up[d]).type = "whoami"
    <3>1. \A id, n : OfferIn(down'[b], id, n) => OfferIn(down[b], id, n)
      BY <1>4, <2>2, WhoamiSays
    <3> QED
      BY <2>1, <3>1, AimedSame
  <2>3. CASE Head(up[d]).type # "whoami"
    <3> DEFINE m == Head(up[d])
    <3>1. \A id, n : OfferIn(down'[b], id, n) =>
             OfferIn(down[b], id, n) \/ (conn[b] = m.id /\ m.type = "offer" /\ id = conn[d])
      BY <1>4, <2>3, RelaySays
    <3>2. m.type = "offer" => m.id \in used /\ m.id < conn[d]
      BY <2>1, SaidTyped DEF Aimed
    <3> HIDE DEF m
    <3>3. conn[b] \in Nat /\ conn[d] \in Nat /\ \A id \in used : id \in Nat /\ id # 0
      BY ConnTyped
    <3>4. CASE conn[b] # 0
      <4>1. \A id, n : OfferIn(down'[b], id, n) => OfferIn(down[b], id, n) \/ id > conn[b]
        BY <3>1, <3>2, <3>3
      <4> QED
        BY <2>1, <3>4, <4>1, AimedMore
    <3>5. CASE conn[b] = 0
      <4>1. \A id, n : OfferIn(down'[b], id, n) => OfferIn(down[b], id, n)
        BY <3>1, <3>2, <3>3, <3>5
      <4> QED
        BY <2>1, <4>1, AimedSame
    <3> QED
      BY <3>4, <3>5
  <2> QED
    BY <2>2, <2>3
<1>5. ASSUME NEW d \in Browsers, Open(d) \/ Leave(d) \/ Press(d) \/ Ready(d) PROVE Aimed(b)'
  <2>1. /\ conn' = conn /\ down' = down
        /\ \A c \in Browsers \ {d} : up'[c] = up[c] /\ page'[c] = page[c]
        /\ \A id, n : OfferIn(up'[d], id, n) => OfferIn(up[d], id, n)
    BY <1>5, TurnEmits DEF net
  <2>2. page'[d].tasks \subseteq page[d].tasks
    BY <1>5, OpenDoes, LeaveDoes, ReadyDoes
  <2> QED
    BY <2>1, <2>2, AimedSame
<1>6. ASSUME NEW d \in Browsers, Receive(d) PROVE Aimed(b)'
  <2>1. b # d => conn' = conn /\ up' = up /\ down'[b] = down[b] /\ page'[b] = page[b]
    BY <1>6, ReceiveTakes
  <2>2. CASE b # d
    BY <2>1, <2>2, AimedSame
  <2> QED
    BY <1>6, <2>2, AimedReceived
<1>7. ASSUME NEW d \in Browsers, Finish(d) PROVE Aimed(b)'
  <2>1. b # d => conn' = conn /\ down' = down /\ up'[b] = up[b] /\ page'[b] = page[b]
    BY <1>7, FinishEmits DEF net
  <2>2. CASE b # d
    BY <2>1, <2>2, AimedSame
  <2> QED
    BY <1>7, <2>2, AimedFinished
<1> QED
  BY <1>1, <1>2, <1>3, <1>4, <1>5, <1>6, <1>7 DEF Next

\* What an open page awaits for a connection finds it; an offer it is to make is for a
\* client that has no connection, and is the only one.
Opens(b) == page[b].open = "yes" =>
    /\ \A t \in page[b].tasks : t.kind # "create" => \E x \in page[b].pcs : x.n = t.n /\ x.peer = t.peer
    /\ \A t \in page[b].tasks : t.kind = "create" /\ t.sdp = 0 => t.peer \notin DOMAIN page[b].map
    /\ \A t, u \in page[b].tasks : t.kind = "create" /\ u.kind = "create" /\ t.sdp = 0 /\ u.sdp = 0
                                     /\ t.peer = u.peer => t = u

LEMMA OpensInit == Init => \A b \in Browsers : Opens(b)
BY DEF Init, NewPage, Opens

LEMMA OpensNothing ==
  ASSUME NEW b \in Browsers, page'[b].open # "yes" \/ page'[b].tasks = {}
  PROVE  Opens(b)'
BY DEF Opens

LEMMA OpensSame ==
  ASSUME NEW b \in Browsers, Opens(b), page'[b].open = page[b].open, page'[b].map = page[b].map,
         page'[b].tasks \subseteq page[b].tasks,
         \A x \in page[b].pcs : \E y \in page'[b].pcs : y.n = x.n /\ y.peer = x.peer
  PROVE  Opens(b)'
<1> SUFFICES ASSUME page'[b].open = "yes" PROVE Opens(b)'
  BY DEF Opens
<1>1. \A t \in page'[b].tasks : t.kind # "create" => \E x \in page'[b].pcs : x.n = t.n /\ x.peer = t.peer
  BY DEF Opens
<1>2. \A t \in page'[b].tasks : t.kind = "create" /\ t.sdp = 0 => t.peer \notin DOMAIN page'[b].map
  BY DEF Opens
<1>3. \A t, u \in page'[b].tasks : t.kind = "create" /\ u.kind = "create" /\ t.sdp = 0 /\ u.sdp = 0
                                     /\ t.peer = u.peer => t = u
  BY DEF Opens
<1> QED
  BY <1>1, <1>2, <1>3 DEF Opens

LEMMA OpensReceived ==
  ASSUME TypeOK, NEW b \in Browsers, Receive(b), NothingLate, Opens(b)
  PROVE  Opens(b)'
<1> DEFINE p == page[b]
           q == page'[b]
           m == Head(down[b])
<1>1. CASE Ignore(b)
  BY <1>1, OpensSame DEF Ignore
<1>2. CASE OnInit(b)
  BY <1>2, InitDoes, OpensSame
<1>3. CASE OnClients(b)
  <2> DEFINE made == Made(p, Call(p, m.list), 0)
  <2>1. /\ p.me = 0 => q.tasks = p.tasks
        /\ p.me # 0 => q.map = <<>> /\ q.tasks = p.tasks \cup made
        /\ \A t \in made : t.kind = "create" /\ t.sdp = 0
        /\ \A t, u \in made : t.peer = u.peer => t = u
    BY <1>3, ClientsDoes
  <2>2. p.tasks = {}
    BY <1>3 DEF NothingLate
  <2> HIDE DEF made
  <2>3. CASE p.me = 0
    BY <2>1, <2>2, <2>3, OpensNothing
  <2>4. CASE p.me # 0
    <3>1. q.tasks = made /\ DOMAIN q.map = {}
      BY <2>1, <2>2, <2>4, MapEmpty
    <3> QED
      BY <2>1, <3>1 DEF Opens
  <2> QED
    BY <2>3, <2>4
<1>4. CASE OnOffer(b)
  <2>1. /\ Sound(used, q) /\ Kin(p, q) /\ p.open = "yes" /\ q.pcs = p.pcs /\ q.map = p.map /\ m.sdp # 0
        /\ m.id \in DOMAIN p.map => q.tasks = p.tasks \cup {Answer(p, m.id, m.sdp)}
        /\ m.id \notin DOMAIN p.map => \E t \in Tasks(used) :
              t.kind = "create" /\ t.sdp = m.sdp /\ q.tasks = p.tasks \cup {t}
    BY <1>4, OfferDoes
  <2>2. m.id \in DOMAIN p.map => \E x \in p.pcs : x.n = p.map[m.id] /\ x.peer = m.id
    <3>1. Sound(used, p)
      BY PageTyped
    <3> QED
      BY <3>1 DEF Sound, Filed
  <2>3. /\ Answer(p, m.id, m.sdp).kind = "answer" /\ Answer(p, m.id, m.sdp).n = p.map[m.id]
        /\ Answer(p, m.id, m.sdp).peer = m.id
    BY DEF Answer
  <2> HIDE DEF m
  <2>4. \E t : /\ q.tasks = p.tasks \cup {t}
               /\ \/ t.kind = "create" /\ t.sdp # 0
                  \/ t.kind = "answer" /\ \E x \in p.pcs : x.n = t.n /\ x.peer = t.peer
    <3>1. CASE m.id \in DOMAIN p.map
      BY <2>1, <2>2, <2>3, <3>1
    <3>2. CASE m.id \notin DOMAIN p.map
      BY <2>1, <3>2
    <3> QED
      BY <3>1, <3>2
  <2>5. PICK t : /\ q.tasks = p.tasks \cup {t}
                 /\ \/ t.kind = "create" /\ t.sdp # 0
                    \/ t.kind = "answer" /\ \E x \in p.pcs : x.n = t.n /\ x.peer = t.peer
    BY <2>4
  <2>6. \A u \in q.tasks : u.kind # "create" => \E x \in q.pcs : x.n = u.n /\ x.peer = u.peer
    BY <2>1, <2>5 DEF Opens
  <2>7. \A u \in q.tasks : u.kind = "create" /\ u.sdp = 0 => u \in p.tasks
    BY <2>5
  <2>8. \A u \in q.tasks : u.kind = "create" /\ u.sdp = 0 => u.peer \notin DOMAIN q.map
    BY <2>1, <2>7 DEF Opens
  <2>9. \A u, v \in q.tasks : u.kind = "create" /\ v.kind = "create" /\ u.sdp = 0 /\ v.sdp = 0
                                /\ u.peer = v.peer => u = v
    BY <2>1, <2>7 DEF Opens
  <2> QED
    BY <2>6, <2>8, <2>9 DEF Opens
<1>5. CASE OnAnswer(b)
  <2>1. \/ q = p
        \/ \E c \in p.pcs :
              /\ Kin(p, q) /\ q.map = p.map /\ q.tasks = p.tasks
              /\ [c EXCEPT !.state = "joined", !.with = m.sdp] \in Connections(used)
              /\ q.pcs = (p.pcs \ {c}) \cup {[c EXCEPT !.state = "joined", !.with = m.sdp]}
    BY <1>5, AnswerDoes
  <2>2. \A c \in p.pcs : /\ [c EXCEPT !.state = "joined", !.with = m.sdp].n = c.n
                         /\ [c EXCEPT !.state = "joined", !.with = m.sdp].peer = c.peer
    <3>1. p.pcs \subseteq Connections(used)
      BY PageTyped
    <3> QED
      BY <3>1 DEF Connections
  <2>3. CASE q = p
    BY <2>3, OpensSame
  <2>4. ASSUME NEW c \in p.pcs, Kin(p, q), q.map = p.map, q.tasks = p.tasks, NEW d, d.n = c.n, d.peer = c.peer,
               q.pcs = (p.pcs \ {c}) \cup {d}
        PROVE  Opens(b)'
    <3>1. \A x \in p.pcs : \E y \in q.pcs : y.n = x.n /\ y.peer = x.peer
      BY <2>4
    <3> QED
      BY <2>4, <3>1, OpensSame DEF Kin
  <2> QED
    BY <2>1, <2>2, <2>3, <2>4
<1> QED
  BY <1>1, <1>2, <1>3, <1>4, <1>5 DEF Receive

LEMMA OpensFinished ==
  ASSUME TypeOK, NEW b \in Browsers, Finish(b), Aimed(b), Opens(b)
  PROVE  Opens(b)'
<1> DEFINE p == page[b]
           q == page'[b]
<1>1. PICK t \in p.tasks : Created(b, t) \/ Offered(b, t) \/ Answered(b, t)
  BY DEF Finish
\* A connection that changes keeps its number and its peer.
<1>2. ASSUME NEW c \in p.pcs, Kin(p, q), q.map = p.map, q.tasks = p.tasks \ {t},
             NEW d, d.n = c.n, d.peer = c.peer, q.pcs = (p.pcs \ {c}) \cup {d}
      PROVE  Opens(b)'
  <2>1. \A x \in p.pcs : \E y \in q.pcs : y.n = x.n /\ y.peer = x.peer
    BY <1>2
  <2> QED
    BY <1>2, <2>1, OpensSame DEF Kin
<1>3. ASSUME NEW state PROVE \A c \in p.pcs : /\ [c EXCEPT !.state = state, !.with = t.sdp].n = c.n
                                              /\ [c EXCEPT !.state = state, !.with = t.sdp].peer = c.peer
  <2>1. p.pcs \subseteq Connections(used)
    BY PageTyped
  <2> QED
    BY <2>1 DEF Connections
<1>4. CASE Offered(b, t)
  <2>1. /\ Kin(p, q) /\ q.map = p.map /\ q.tasks = p.tasks \ {t}
        /\ \/ q.pcs = p.pcs
           \/ \E c \in p.pcs : q.pcs = (p.pcs \ {c}) \cup {[c EXCEPT !.state = "offered", !.with = t.sdp]}
    BY <1>4, OfferedDoes
  <2>2. CASE q.pcs = p.pcs
    BY <2>1, <2>2, OpensSame DEF Kin
  <2>3. ASSUME NEW c \in p.pcs, q.pcs = (p.pcs \ {c}) \cup {[c EXCEPT !.state = "offered", !.with = t.sdp]}
        PROVE  Opens(b)'
    <3> DEFINE d == [c EXCEPT !.state = "offered", !.with = t.sdp]
    <3>1. d.n = c.n /\ d.peer = c.peer /\ q.pcs = (p.pcs \ {c}) \cup {d}
      BY <1>3, <2>3
    <3> HIDE DEF d
    <3> QED
      BY <1>2, <2>1, <3>1
  <2> QED
    BY <2>1, <2>2, <2>3
<1>5. CASE Answered(b, t)
  <2>1. /\ Kin(p, q) /\ q.map = p.map /\ q.tasks = p.tasks \ {t}
        /\ \/ q.pcs = p.pcs
           \/ \E c \in p.pcs : q.pcs = (p.pcs \ {c}) \cup {[c EXCEPT !.state = "accepted", !.with = t.sdp]}
    BY <1>5, AnsweredDoes
  <2>2. CASE q.pcs = p.pcs
    BY <2>1, <2>2, OpensSame DEF Kin
  <2>3. ASSUME NEW c \in p.pcs, q.pcs = (p.pcs \ {c}) \cup {[c EXCEPT !.state = "accepted", !.with = t.sdp]}
        PROVE  Opens(b)'
    <3> DEFINE d == [c EXCEPT !.state = "accepted", !.with = t.sdp]
    <3>1. d.n = c.n /\ d.peer = c.peer /\ q.pcs = (p.pcs \ {c}) \cup {d}
      BY <1>3, <2>3
    <3> HIDE DEF d
    <3> QED
      BY <1>2, <2>1, <3>1
  <2> QED
    BY <2>1, <2>2, <2>3
<1>6. CASE Created(b, t)
  <2> DEFINE d == NewConnection(t.n, t.peer)
  <2>1. /\ Sound(used, q) /\ Kin(p, q) /\ t.kind = "create"
        /\ DOMAIN q.map = DOMAIN p.map \cup {t.peer}
        /\ t.peer \in DOMAIN p.map => q.pcs = p.pcs
        /\ t.peer \notin DOMAIN p.map => q.pcs = p.pcs \cup {d}
    BY <1>6, CreatedDoes
  <2>2. /\ t.sdp # 0 => \E u \in Tasks(used) :
             u.kind = "answer" /\ u.n = q.map[t.peer] /\ u.peer = t.peer /\ q.tasks = (p.tasks \ {t}) \cup {u}
        /\ t.sdp = 0 /\ t.peer \in DOMAIN p.map => q.tasks = p.tasks \ {t}
        /\ t.sdp = 0 /\ t.peer \notin DOMAIN p.map => \E u \in Tasks(used) :
             u.kind = "offer" /\ u.n = t.n /\ u.peer = t.peer /\ q.tasks = (p.tasks \ {t}) \cup {u}
    BY <1>6, CreatedDoes
  <2>3. d.n = t.n /\ d.peer = t.peer
    BY DEF NewConnection
  <2>4. \E x \in q.pcs : x.n = q.map[t.peer] /\ x.peer = t.peer
    BY <2>1 DEF Sound, Filed
  <2> HIDE DEF d, p, q
  <2> SUFFICES ASSUME q.open = "yes" PROVE Opens(b)'
    BY DEF Opens, q
  <2>5. /\ \A u \in p.tasks : u.kind # "create" => \E x \in p.pcs : x.n = u.n /\ x.peer = u.peer
        /\ \A u \in p.tasks : u.kind = "create" /\ u.sdp = 0 => u.peer \notin DOMAIN p.map
        /\ \A u, v \in p.tasks : u.kind = "create" /\ v.kind = "create" /\ u.sdp = 0 /\ v.sdp = 0
                                   /\ u.peer = v.peer => u = v
    BY <2>1 DEF Opens, Kin, p
  <2>6. \A x \in p.pcs : x \in q.pcs
    BY <2>1
  <2>7. \A u \in q.tasks : \/ u \in p.tasks \ {t}
                           \/ u.kind # "create" /\ \E x \in q.pcs : x.n = u.n /\ x.peer = u.peer
    <3>1. CASE t.sdp # 0
      BY <2>2, <2>4, <3>1
    <3>2. CASE t.sdp = 0 /\ t.peer \in DOMAIN p.map
      BY <2>2, <3>2
    <3>3. CASE t.sdp = 0 /\ t.peer \notin DOMAIN p.map
      BY <2>1, <2>2, <2>3, <3>3
    <3> QED
      BY <3>1, <3>2, <3>3
  <2>8. \A u \in q.tasks : u.kind # "create" => \E x \in q.pcs : x.n = u.n /\ x.peer = u.peer
    BY <2>5, <2>6, <2>7
  <2>9. ASSUME NEW u \in q.tasks, u.kind = "create", u.sdp = 0 PROVE u.peer \notin DOMAIN q.map
    <3>1. u \in p.tasks /\ u # t
      BY <2>7, <2>9
    <3>2. CASE t.sdp = 0
      BY <1>1, <2>1, <2>5, <2>9, <3>1, <3>2 DEF p
    <3>3. CASE t.sdp # 0
      <4>1. u.peer < conn[b] /\ t.peer > conn[b]
        BY <1>1, <2>1, <2>9, <3>1, <3>3 DEF Aimed, Own, p
      <4>2. u.peer \in Nat /\ conn[b] \in Nat
        <5>1. u.peer \in used
          BY <3>1, PageTyped DEF Tasks, p
        <5> QED
          BY <5>1, ConnTyped
      <4> QED
        BY <2>1, <2>5, <2>9, <3>1, <4>1, <4>2
    <3> QED
      BY <3>2, <3>3
  <2>10. \A u, v \in q.tasks : u.kind = "create" /\ v.kind = "create" /\ u.sdp = 0 /\ v.sdp = 0
                                 /\ u.peer = v.peer => u = v
    BY <2>5, <2>7
  <2> QED
    BY <2>8, <2>9, <2>10 DEF Opens, q
<1> QED
  BY <1>1, <1>4, <1>5, <1>6

LEMMA OpensKept ==
  ASSUME TypeOK, \A b \in Browsers : Aimed(b) /\ Opens(b), NothingLate, \A b \in Browsers : ~Press(b), Next
  PROVE  \A b \in Browsers : Opens(b)'
<1> SUFFICES ASSUME NEW b \in Browsers PROVE Opens(b)'
  OBVIOUS
<1>1. CASE page'[b] = page[b]
  BY <1>1, OpensSame
<1>2. CASE Notice
  BY <1>1, <1>2 DEF Notice
<1>3. ASSUME NEW d \in Browsers, Connect(d) \/ Serve(d) PROVE Opens(b)'
  BY <1>1, <1>3 DEF Connect, Serve
<1>4. ASSUME NEW d \in Browsers, Drop(d) PROVE Opens(b)'
  <2>1. b = d => page'[b].tasks = {}
    BY <1>4, DropDoes DEF NothingLate
  <2> QED
    BY <1>1, <1>4, <2>1, DropDoes, OpensNothing
<1>5. ASSUME NEW d \in Browsers, Open(d) \/ Leave(d) PROVE Opens(b)'
  BY <1>1, <1>5, OpenDoes, LeaveDoes, OpensNothing
<1>6. ASSUME NEW d \in Browsers, Ready(d) PROVE Opens(b)'
  BY <1>1, <1>6, ReadyDoes, OpensSame
<1>7. ASSUME NEW d \in Browsers, Receive(d) PROVE Opens(b)'
  BY <1>1, <1>7, ReceiveTakes, OpensReceived
<1>8. ASSUME NEW d \in Browsers, Finish(d) PROVE Opens(b)'
  BY <1>1, <1>8, FinishEmits, OpensFinished
<1> QED
  BY <1>2, <1>3, <1>4, <1>5, <1>6, <1>7, <1>8 DEF Next

-----------------------------------------------------------------------------
(* Two on the page are joined *)

\* A list will reach the page that has connections.
Doomed(b) == DOMAIN page[b].map # {} /\ ListIn(down[b])

\* A list with the id of c will reach b, after the id of b.
Invited(b, c) ==
    \/ Tells(up[b], "whoami")
    \/ page[b].me = conn[b] /\ Names(down[b], conn[c])
    \/ NamesLater(down[b], conn[c])

\* The offer n of b to c, or the answer to it, is on its way or awaited.
Moves(b, c, n) == OfferIn(up[b], conn[c], n) \/ Token(c, conn[b], n) \/ AnswerIn(down[b], conn[c], n)

Pending(b, c) == \E x \in page[b].pcs : x.peer = conn[c] /\ x.state = "offered" /\ Moves(b, c, x.n)

\* How far b is on the way to be joined to c.
Way(b, c) ==
    \/ Invited(b, c)
    \/ \E t \in page[b].tasks : t.peer = conn[c]
    \/ Pending(b, c)
    \/ Joined(b, c)

Accepted(c, id, s, n) == \E y \in page[c].pcs : y.n = s /\ y.peer = id /\ y.state = "accepted" /\ y.with = n

\* What c answers b, c has accepted.
AnswersStand(b, c) == \A s, n :
    ReplyIn(up[c], conn[b], s, n) \/ ReplyIn(down[b], conn[c], s, n) => Accepted(c, conn[b], s, n)

\* Of two that are to be joined, b is the one that offers.
Apart(b, c) == conn[b] > conn[c] /\ conn[c] # 0 /\ page[b].open = "yes" /\ page[c].open # "left"

Linked(b, c) == Apart(b, c) => Doomed(b) \/ (Way(b, c) /\ AnswersStand(b, c))

LEMMA LinkedInit == Init => \A b, c \in Browsers : Linked(b, c)
BY DEF Init, NewPage, Linked, Apart

LEMMA ApartTwo ==
  ASSUME TypeOK, NEW b \in Browsers, NEW c \in Browsers, Apart(b, c)
  PROVE  b # c /\ conn[b] # conn[c] /\ conn[b] # 0 /\ conn[c] # 0 /\ conn[b] \in used /\ conn[c] \in used
BY ConnTyped DEF Apart

LEMMA StandSame ==
  ASSUME NEW b \in Browsers, NEW c \in Browsers, conn'[b] = conn[b], conn'[c] = conn[c], AnswersStand(b, c),
         \A y \in page[c].pcs : y.peer = conn[b] /\ y.state = "accepted" => y \in page'[c].pcs,
         \A s, n : ReplyIn(up'[c], conn[b], s, n) => ReplyIn(up[c], conn[b], s, n) \/ ReplyIn(down[b], conn[c], s, n),
         \A s, n : ReplyIn(down'[b], conn[c], s, n) => ReplyIn(up[c], conn[b], s, n) \/ ReplyIn(down[b], conn[c], s, n)
  PROVE  AnswersStand(b, c)'
<1> SUFFICES ASSUME NEW s, NEW n, ReplyIn(up'[c], conn[b], s, n) \/ ReplyIn(down'[b], conn[c], s, n)
             PROVE  \E y \in page'[c].pcs : y.n = s /\ y.peer = conn[b] /\ y.state = "accepted" /\ y.with = n
  BY DEF AnswersStand, Accepted
<1>1. Accepted(c, conn[b], s, n)
  BY DEF AnswersStand
<1> QED
  BY <1>1 DEF Accepted

\* The connection between two, its tasks and its messages stay, or go on.
LEMMA WayKept ==
  ASSUME NEW b \in Browsers, NEW c \in Browsers, conn'[b] = conn[b], conn'[c] = conn[c], Way(b, c),
         Invited(b, c) => Way(b, c)',
         \A t \in page[b].tasks : t.peer = conn[c] => \E u \in page'[b].tasks : u.peer = conn[c],
         \A x \in page[b].pcs : x.peer = conn[c] => x \in page'[b].pcs,
         \A y \in page[c].pcs : y.peer = conn[b] /\ y.state = "accepted" => y \in page'[c].pcs,
         \A n : Moves(b, c, n) => Moves(b, c, n)'
  PROVE  Way(b, c)'
<1>1. CASE \E t \in page[b].tasks : t.peer = conn[c]
  BY <1>1 DEF Way
<1>2. CASE Pending(b, c)
  <2>1. PICK x \in page[b].pcs : x.peer = conn[c] /\ x.state = "offered" /\ Moves(b, c, x.n)
    BY <1>2 DEF Pending
  <2>2. x \in page'[b].pcs /\ x.peer = conn'[c] /\ Moves(b, c, x.n)'
    BY <2>1
  <2>3. Pending(b, c)'
    BY <2>1, <2>2 DEF Pending, Moves
  <2> QED
    BY <2>3 DEF Way
<1>3. CASE Joined(b, c)
  <2>1. Joined(b, c)'
    BY <1>3 DEF Joined
  <2> QED
    BY <2>1 DEF Way
<1> QED
  BY <1>1, <1>2, <1>3 DEF Way

LEMMA LinkedGrown ==
  ASSUME NEW b \in Browsers, NEW c \in Browsers, Linked(b, c), conn'[b] = conn[b], conn'[c] = conn[c],
         page'[b].open = "yes" => page[b].open = "yes", page'[c].open # "left" => page[c].open # "left",
         Apart(b, c) /\ Doomed(b) => Doomed(b)',
         Apart(b, c) /\ Way(b, c) => Way(b, c)',
         Apart(b, c) /\ AnswersStand(b, c) => AnswersStand(b, c)'
  PROVE  Linked(b, c)'
BY DEF Linked, Apart

\* What is said to two whose pages stay is no more than lists, and messages of others.
LEMMA LinkedSaid ==
  ASSUME NEW b \in Browsers, NEW c \in Browsers, Linked(b, c), conn'[b] = conn[b], conn'[c] = conn[c],
         page'[b].open = page[b].open, page'[b].me = page[b].me, page'[b].map = page[b].map,
         page'[b].pcs = page[b].pcs, page'[b].tasks = page[b].tasks,
         page'[c].open # "left" => page[c].open # "left",
         page'[c].pcs = page[c].pcs, page'[c].tasks = page[c].tasks,
         Says(up[b], up'[b]), Says(up[c], up'[c]), Says(down[b], down'[b]), Says(down[c], down'[c]),
         \A s, n : ReplyIn(up'[c], conn[b], s, n) => ReplyIn(up[c], conn[b], s, n),
         \A s, n : ReplyIn(down'[b], conn[c], s, n) => ReplyIn(down[b], conn[c], s, n)
  PROVE  Linked(b, c)'
<1>1. Doomed(b) => Doomed(b)'
  BY DEF Doomed, Says
<1>2. Invited(b, c) => Way(b, c)'
  BY DEF Invited, Says, Way
<1>3. \A n : Moves(b, c, n) => Moves(b, c, n)'
  <2> SUFFICES ASSUME NEW n, Moves(b, c, n) PROVE Moves(b, c, n)'
    OBVIOUS
  <2>1. CASE OfferIn(up[b], conn[c], n)
    BY <2>1 DEF Moves, Says
  <2>2. CASE AnswerIn(down[b], conn[c], n)
    BY <2>2 DEF Moves, Says
  <2>3. CASE Token(c, conn[b], n)
    <3>1. OfferIn(down'[c], conn[b], n) \/ TaskFor(page'[c].tasks, conn[b], n) \/ AnswerIn(up'[c], conn[b], n)
      BY <2>3 DEF Token, Says
    <3> QED
      BY <3>1 DEF Moves, Token
  <2> QED
    BY <2>1, <2>2, <2>3 DEF Moves
<1>4. Way(b, c) => Way(b, c)'
  BY <1>2, <1>3, WayKept
<1>5. AnswersStand(b, c) => AnswersStand(b, c)'
  BY StandSame
<1> QED
  BY <1>1, <1>4, <1>5, LinkedGrown

LEMMA LinkedNoticed ==
  ASSUME TypeOK, NEW b \in Browsers, NEW c \in Browsers, Linked(b, c), Notice
  PROVE  Linked(b, c)'
<1>1. /\ clients' \in SUBSET used /\ UNCHANGED <<conn, page, up>>
      /\ \A x \in Browsers : down'[x] = IF conn[x] # 0 THEN Append(down[x], List_(clients')) ELSE down[x]
  BY NoticeDoes DEF TypeOK
<1>2. \A x \in Browsers : /\ Says(down[x], down'[x])
                          /\ \A id, s, n : ReplyIn(down'[x], id, s, n) => ReplyIn(down[x], id, s, n)
  BY <1>1, ListHeard
<1> QED
  BY <1>1, <1>2, SaysSame, LinkedSaid

\* A new client is in a list on its way, and connections are closed, or made, for it.
LEMMA LinkedConnected ==
  ASSUME TypeOK, Streams, \A x \in Browsers : Knows(x) /\ Fits(x),
         NEW b \in Browsers, NEW c \in Browsers, Linked(b, c), NEW d \in Browsers, Connect(d)
  PROVE  Linked(b, c)'
<1>1. PICK new \in Ids \ used :
         /\ conn[d] = 0 /\ conn'[d] = new /\ \A x \in Browsers \ {d} : conn'[x] = conn[x]
         /\ used' = used \cup {new} /\ clients' = clients \cup {new} /\ clients' \subseteq used'
         /\ down'[d] = <<Init_(new), List_(clients')>>
         /\ \A x \in Browsers \ {d} :
               down'[x] = IF conn[x] # 0 THEN Append(down[x], List_(clients')) ELSE down[x]
         /\ UNCHANGED <<page, up, turns>>
  BY ConnectDoes
<1>2. ASSUME NEW x \in Browsers \ {d}
      PROVE  /\ Says(down[x], down'[x])
             /\ \A id, s, n : ReplyIn(down'[x], id, s, n) => ReplyIn(down[x], id, s, n)
             /\ conn[x] # 0 =>
                   /\ ListIn(down'[x]) /\ Names(down'[x], new)
                   /\ Tells(down[x], "init") => NamesLater(down'[x], new)
  <2>1. x \in Browsers /\ used \subseteq used' /\ clients' \in SUBSET used' /\ new \in clients'
    BY <1>1
  <2>2. down'[x] = IF conn[x] # 0 THEN Append(down[x], List_(clients')) ELSE down[x]
    BY <1>1
  <2> QED
    BY <2>1, <2>2, ListHeard
\* No message names an id that was not handed out.
<1>3. ASSUME NEW x \in Browsers, NEW s, NEW n, ReplyIn(up[x], new, s, n) \/ ReplyIn(down[x], new, s, n)
      PROVE  FALSE
  <2>1. AnswerIn(up[x], new, n) \/ AnswerIn(down[x], new, n)
    BY <1>3 DEF AnswerIn, ReplyIn
  <2> QED
    BY <1>1, <2>1, SaidTyped
<1>4. CASE b # d /\ c # d
  BY <1>1, <1>2, <1>4, SaysSame, LinkedSaid
<1> SUFFICES ASSUME Apart(b, c)', b = d \/ c = d PROVE Doomed(b)' \/ (Way(b, c)' /\ AnswersStand(b, c)')
  BY <1>4 DEF Linked
<1>5. CASE b = d /\ c # d
  <2> DEFINE i == Init_(new)
             l == List_(clients')
  <2>1. i.type = "init" /\ l.type = "clients" /\ l.list = clients'
    BY DEF Init_, List_, Message
  <2>2. conn[c] \in clients' /\ conn'[c] = conn[c]
    BY <1>1, <1>5 DEF Apart, Streams, Stream
  <2>3. down'[b] = <<i, l>>
    BY <1>1, <1>5
  <2> HIDE DEF i, l
  <2>4. /\ 1 \in DOMAIN <<i, l>> /\ 2 \in DOMAIN <<i, l>> /\ <<i, l>>[1] = i /\ <<i, l>>[2] = l /\ 1 < 2
        /\ \A k \in DOMAIN <<i, l>> : <<i, l>>[k] \in {i, l}
    OBVIOUS
  <2>5. NamesLater(down'[b], conn'[c])
    BY <2>1, <2>2, <2>3, <2>4 DEF NamesLater, IsList
  <2>6. \A s, n : ~ReplyIn(down'[b], conn'[c], s, n)
    BY <2>1, <2>3, <2>4 DEF ReplyIn
  <2>7. \A s, n : ~ReplyIn(up'[c], conn'[b], s, n)
    BY <1>1, <1>3, <1>5
  <2> QED
    BY <2>5, <2>6, <2>7 DEF Way, Invited, AnswersStand
<1>6. CASE b # d /\ c = d
  <2>1. /\ conn'[b] = conn[b] /\ conn'[c] = new /\ page[b].open = "yes" /\ page[c].open # "left"
        /\ page' = page /\ up' = up /\ b \in Browsers \ {d}
    BY <1>1, <1>6 DEF Apart
  <2>2. conn[b] # 0
    <3>1. conn[b] \in Nat /\ new \in Nat /\ conn'[b] > new
      BY <1>1, <2>1, ConnTyped, FoundIds DEF Apart
    <3> QED
      BY <2>1, <3>1
  <2>3. /\ Says(down[b], down'[b]) /\ ListIn(down'[b]) /\ Names(down'[b], new)
        /\ \A id, s, n : ReplyIn(down'[b], id, s, n) => ReplyIn(down[b], id, s, n)
        /\ Tells(down[b], "init") => NamesLater(down'[b], new)
    BY <1>2, <2>1, <2>2
  <2>4. CASE DOMAIN page[b].map # {}
    BY <2>1, <2>3, <2>4 DEF Doomed
  <2>5. CASE DOMAIN page[b].map = {}
    <3>1. Invited(b, c)'
      BY <2>1, <2>2, <2>3 DEF Knows, Invited
    <3>2. ASSUME NEW s, NEW n, ReplyIn(up[c], conn[b], s, n) PROVE FALSE
      <4>1. n \in Nat
        <5>1. \A i \in DOMAIN up[c] : up[c][i] \in UpMessages(used)
          BY StreamsTyped
        <5> QED
          BY <3>2, <5>1 DEF ReplyIn, UpMessages, Messages
      <4>2. Token(c, conn[b], n)
        BY <3>2 DEF Token, AnswerIn, ReplyIn
      <4>3. Returned(b)
        BY DEF Fits
      <4> QED
        BY <2>1, <2>2, <2>5, <4>1, <4>2, <4>3 DEF Returned
    <3>3. \A s, n : ~ReplyIn(down'[b], new, s, n)
      BY <1>3, <2>3
    <3>4. AnswersStand(b, c)'
      BY <2>1, <3>2, <3>3 DEF AnswersStand
    <3> QED
      BY <3>1, <3>4 DEF Way
  <2> QED
    BY <2>4, <2>5
<1>7. ~(b = d /\ c = d)
  <2>1. conn'[b] \in Nat
    BY <1>1, ConnTyped, FoundIds
  <2> QED
    BY <2>1 DEF Apart
<1> QED
  BY <1>5, <1>6, <1>7

LEMMA LinkedDropped ==
  ASSUME TypeOK, NEW b \in Browsers, NEW c \in Browsers, Linked(b, c), NEW d \in Browsers, Drop(d)
  PROVE  Linked(b, c)'
<1>1. /\ conn'[d] = 0
      /\ \A x \in Browsers \ {d} : conn'[x] = conn[x] /\ up'[x] = up[x] /\ down'[x] = down[x] /\ page'[x] = page[x]
  BY DropDoes
<1>2. CASE b # d /\ c # d
  BY <1>1, <1>2, SaysSame, LinkedSaid
<1>3. CASE c = d
  BY <1>1, <1>3 DEF Linked, Apart
<1>4. CASE b = d /\ c # d
  <2>1. conn'[c] \in Nat /\ conn'[b] = 0
    BY <1>1, <1>4, ConnTyped
  <2> QED
    BY <2>1 DEF Linked, Apart
<1> QED
  BY <1>2, <1>3, <1>4

LEMMA LinkedServed ==
  ASSUME TypeOK, Streams, NEW b \in Browsers, NEW c \in Browsers, Linked(b, c), NEW d \in Browsers, Serve(d)
  PROVE  Linked(b, c)'
<1> DEFINE m == Head(up[d])
<1>1. /\ conn' = conn /\ page' = page /\ conn[d] # 0
      /\ \A x \in Browsers \ {d} : up'[x] = up[x]
      /\ Tells(up[d], "whoami") => Tells(up'[d], "whoami") \/ m.type = "whoami"
      /\ \A id, n : OfferIn(up[d], id, n) => OfferIn(up'[d], id, n) \/ (m.type = "offer" /\ m.id = id /\ m.sdp = n)
      /\ \A id, n : AnswerIn(up[d], id, n) => AnswerIn(up'[d], id, n) \/ (m.type = "answer" /\ m.id = id /\ m.to = n)
      /\ \A id, s, n : ReplyIn(up'[d], id, s, n) => ReplyIn(up[d], id, s, n)
      /\ m.type = "answer" => ReplyIn(up[d], m.id, m.sdp, m.to)
  BY TakenSays DEF net
<1> HIDE DEF m
<1> SUFFICES ASSUME Apart(b, c) PROVE Linked(b, c)'
  BY <1>1 DEF Linked, Apart
<1>2. b # c /\ conn[b] # conn[c] /\ conn[b] # 0 /\ conn[c] # 0
  BY ApartTwo
<1>3. \A x, y \in Browsers : conn[x] = conn[y] /\ conn[x] # 0 => x = y
  BY DEF TypeOK
<1>4. \A x \in Browsers : Says(down[x], down'[x])
  BY WhoamiSays, RelaySays DEF m
<1>5. Doomed(b) => Doomed(b)'
  BY <1>1, <1>4 DEF Doomed, Says
<1>6. CASE m.type = "whoami"
  <2>1. /\ \A x \in Browsers : \A id, s, n : ReplyIn(down'[x], id, s, n) => ReplyIn(down[x], id, s, n)
        /\ \A x \in clients : NamesLater(down'[d], x)
    BY <1>6, WhoamiSays DEF m
  <2>2. \A n : Moves(b, c, n) => Moves(b, c, n)'
    <3> SUFFICES ASSUME NEW n, Moves(b, c, n) PROVE Moves(b, c, n)'
      OBVIOUS
    <3>1. OfferIn(up[b], conn[c], n) => OfferIn(up'[b], conn[c], n)
      BY <1>1, <1>6
    <3>2. AnswerIn(up[c], conn[b], n) => AnswerIn(up'[c], conn[b], n)
      BY <1>1, <1>6
    <3>3. AnswerIn(down[b], conn[c], n) => AnswerIn(down'[b], conn[c], n)
      BY <1>4 DEF Says
    <3>4. OfferIn(down[c], conn[b], n) => OfferIn(down'[c], conn[b], n)
      BY <1>4 DEF Says
    <3>5. \/ OfferIn(up[b], conn[c], n) \/ AnswerIn(down[b], conn[c], n) \/ OfferIn(down[c], conn[b], n)
          \/ TaskFor(page[c].tasks, conn[b], n) \/ AnswerIn(up[c], conn[b], n)
      BY DEF Moves, Token
    <3> QED
      BY <1>1, <3>1, <3>2, <3>3, <3>4, <3>5 DEF Moves, Token
  <2>3. Invited(b, c) => Way(b, c)'
    <3>1. CASE b = d
      <4>1. conn[c] \in clients
        BY <1>2 DEF Streams, Stream
      <4> QED
        BY <1>1, <2>1, <3>1, <4>1 DEF Invited, Way
    <3>2. CASE b # d
      BY <1>1, <1>4, <3>2 DEF Invited, Way, Says
    <3> QED
      BY <3>1, <3>2
  <2>4. Way(b, c) => Way(b, c)'
    BY <1>1, <2>2, <2>3, WayKept
  <2>5. AnswersStand(b, c) => AnswersStand(b, c)'
    BY <1>1, <2>1, StandSame
  <2> QED
    BY <1>1, <1>5, <2>4, <2>5, LinkedGrown
<1>7. CASE m.type # "whoami"
  <2>1. ASSUME NEW x \in Browsers
        PROVE  /\ \A id, s, n : ReplyIn(down'[x], id, s, n) =>
                     \/ ReplyIn(down[x], id, s, n)
                     \/ conn[x] = m.id /\ m.type = "answer" /\ id = conn[d] /\ m.sdp = s /\ m.to = n
               /\ conn[x] = m.id /\ m.type = "offer" => OfferIn(down'[x], conn[d], m.sdp)
               /\ conn[x] = m.id /\ m.type = "answer" => AnswerIn(down'[x], conn[d], m.to)
    BY <1>7, RelaySays DEF m
  <2>2. \A n : Moves(b, c, n) => Moves(b, c, n)'
    <3> SUFFICES ASSUME NEW n, Moves(b, c, n) PROVE Moves(b, c, n)'
      OBVIOUS
    <3>1. OfferIn(up[b], conn[c], n) => OfferIn(up'[b], conn[c], n) \/ OfferIn(down'[c], conn[b], n)
      BY <1>1, <2>1
    <3>2. AnswerIn(up[c], conn[b], n) => AnswerIn(up'[c], conn[b], n) \/ AnswerIn(down'[b], conn[c], n)
      BY <1>1, <2>1
    <3>3. AnswerIn(down[b], conn[c], n) => AnswerIn(down'[b], conn[c], n)
      BY <1>4 DEF Says
    <3>4. OfferIn(down[c], conn[b], n) => OfferIn(down'[c], conn[b], n)
      BY <1>4 DEF Says
    <3>5. \/ OfferIn(up[b], conn[c], n) \/ AnswerIn(down[b], conn[c], n) \/ OfferIn(down[c], conn[b], n)
          \/ TaskFor(page[c].tasks, conn[b], n) \/ AnswerIn(up[c], conn[b], n)
      BY DEF Moves, Token
    <3> QED
      BY <1>1, <3>1, <3>2, <3>3, <3>4, <3>5 DEF Moves, Token
  <2>3. Invited(b, c) => Way(b, c)'
    BY <1>1, <1>4, <1>7 DEF Invited, Way, Says
  <2>4. Way(b, c) => Way(b, c)'
    BY <1>1, <2>2, <2>3, WayKept
  <2>5. AnswersStand(b, c) => AnswersStand(b, c)'
    <3>1. \A s, n : ReplyIn(up'[c], conn[b], s, n) => ReplyIn(up[c], conn[b], s, n)
      BY <1>1
    <3>2. ASSUME NEW s, NEW n, ReplyIn(down'[b], conn[c], s, n)
          PROVE  ReplyIn(up[c], conn[b], s, n) \/ ReplyIn(down[b], conn[c], s, n)
      <4>1. \/ ReplyIn(down[b], conn[c], s, n)
            \/ conn[b] = m.id /\ m.type = "answer" /\ conn[c] = conn[d] /\ m.sdp = s /\ m.to = n
        BY <2>1, <3>2
      <4> QED
        BY <1>1, <1>2, <1>3, <4>1
    <3> QED
      BY <1>1, <3>1, <3>2, StandSame
  <2> QED
    BY <1>1, <1>5, <2>4, <2>5, LinkedGrown
<1> QED
  BY <1>6, <1>7

LEMMA LinkedTurned ==
  ASSUME TypeOK, \A x \in Browsers : Fits(x),
         NEW b \in Browsers, NEW c \in Browsers, Linked(b, c),
         NEW d \in Browsers, Open(d) \/ Leave(d) \/ Ready(d)
  PROVE  Linked(b, c)'
<1>1. /\ conn' = conn /\ down' = down /\ \A x \in Browsers : Says(up[x], up'[x])
      /\ \A x \in Browsers \ {d} : up'[x] = up[x] /\ page'[x] = page[x]
      /\ \A x \in Browsers : \A id, s, n : ReplyIn(up'[x], id, s, n) => ReplyIn(up[x], id, s, n)
      /\ Open(d) /\ conn[d] # 0 => Tells(up'[d], "whoami")
  BY TurnEmits, SaysSame DEF net
<1>2. CASE b # d /\ (c # d \/ ~Leave(d))
  <2>1. /\ page'[c].open # "left" => page[c].open # "left"
        /\ page'[c].pcs = page[c].pcs /\ page'[c].tasks = page[c].tasks
    <3>1. CASE c = d /\ Open(c)
      BY <3>1, OpenDoes, PageTyped DEF Sound
    <3>2. CASE c = d /\ Ready(c)
      BY <3>2, ReadyDoes
    <3> QED
      BY <1>1, <1>2, <3>1, <3>2
  <2> QED
    BY <1>1, <1>2, <2>1, SaysSame, LinkedSaid
<1>3. CASE Leave(d) /\ (b = d \/ c = d)
  BY <1>3, LeaveDoes DEF Linked, Apart
<1>4. CASE b = d /\ Ready(d)
  <2>1. /\ page'[b].open = page[b].open /\ page'[b].me = page[b].me /\ page'[b].map = page[b].map
        /\ page'[b].pcs = page[b].pcs /\ page'[b].tasks = page[b].tasks
    BY <1>4, ReadyDoes
  <2>2. /\ page'[c].open = page[c].open /\ page'[c].pcs = page[c].pcs /\ page'[c].tasks = page[c].tasks
    BY <1>1, <1>4, <2>1
  <2> QED
    BY <1>1, <2>1, <2>2, SaysSame, LinkedSaid
<1>5. CASE b = d /\ Open(d)
  <2> SUFFICES ASSUME Apart(b, c)' PROVE Way(b, c)' /\ AnswersStand(b, c)'
    BY DEF Linked
  <2>1. page[b].open = "no" /\ conn'[b] > conn'[c]
    BY <1>5, OpenDoes DEF Apart
  <2>2. conn[b] # 0
    <3>1. conn[b] \in Nat /\ conn[c] \in Nat
      BY ConnTyped
    <3> QED
      BY <1>1, <2>1, <3>1
  <2>3. Way(b, c)'
    BY <1>1, <1>5, <2>2 DEF Way, Invited
  <2>4. ASSUME NEW s, NEW n, ReplyIn(up'[c], conn[b], s, n) \/ ReplyIn(down[b], conn[c], s, n) PROVE FALSE
    <3>1. Returned(b) /\ Replies(down[b], page[b])
      BY DEF Fits
    <3>2. CASE ReplyIn(up'[c], conn[b], s, n)
      <4>1. ReplyIn(up[c], conn[b], s, n)
        BY <1>1, <3>2
      <4>2. n \in Nat
        <5>1. \A i \in DOMAIN up[c] : up[c][i] \in UpMessages(used)
          BY StreamsTyped
        <5> QED
          BY <4>1, <5>1 DEF ReplyIn, UpMessages, Messages
      <4>3. Token(c, conn[b], n)
        BY <4>1 DEF Token, AnswerIn, ReplyIn
      <4> QED
        BY <2>1, <2>2, <3>1, <4>2, <4>3 DEF Returned
    <3>3. CASE ReplyIn(down[b], conn[c], s, n)
      BY <2>1, <3>1, <3>3 DEF Replies, ReplyIn
    <3> QED
      BY <2>4, <3>2, <3>3
  <2>5. AnswersStand(b, c)'
    BY <1>1, <2>4 DEF AnswersStand
  <2> QED
    BY <2>3, <2>5
<1> QED
  BY <1>2, <1>3, <1>4, <1>5

\* What c receives: offers become tasks, and what it has accepted stays.
LEMMA LinkedReceivedByOther ==
  ASSUME TypeOK, ListBefore, NothingLate, OfferHeard,
         NEW b \in Browsers, NEW c \in Browsers, b # c, Linked(b, c), Receive(c)
  PROVE  Linked(b, c)'
<1> DEFINE p == page[c]
           q == page'[c]
           m == Head(down[c])
<1>1. /\ conn' = conn /\ up' = up /\ down[c] # <<>> /\ down'[c] = Tail(down[c])
      /\ \A x \in Browsers \ {c} : down'[x] = down[x] /\ page'[x] = page[x]
      /\ q.open = p.open
  BY ReceiveTakes
<1>2. \A id, n : OfferIn(down[c], id, n) => OfferIn(down'[c], id, n) \/ (m.type = "offer" /\ m.id = id /\ m.sdp = n)
  BY <1>1, StreamsTyped, SaidTailed
<1>3. b \in Browsers \ {c} /\ page'[b] = page[b] /\ down'[b] = down[b]
  BY <1>1
\* Pages that accepted stay so, tasks too, and the offer is a task.
<1>4. ASSUME \A t \in p.tasks : t \in q.tasks,
             \A y \in p.pcs : y.state = "accepted" => y \in q.pcs,
             m.type = "offer" => TaskFor(q.tasks, m.id, m.sdp)
      PROVE  Linked(b, c)'
  <2>1. \A id, n : OfferIn(down[c], id, n) => OfferIn(down'[c], id, n) \/ TaskFor(q.tasks, id, n)
    BY <1>2, <1>4
  <2>2. \A id, n : TaskFor(p.tasks, id, n) => TaskFor(q.tasks, id, n)
    BY <1>4 DEF TaskFor
  <2>3. \A n : Moves(b, c, n) => Moves(b, c, n)'
    <3> SUFFICES ASSUME NEW n, Moves(b, c, n) PROVE Moves(b, c, n)'
      OBVIOUS
    <3>1. \/ OfferIn(up[b], conn[c], n) \/ AnswerIn(down[b], conn[c], n) \/ OfferIn(down[c], conn[b], n)
          \/ TaskFor(p.tasks, conn[b], n) \/ AnswerIn(up[c], conn[b], n)
      BY DEF Moves, Token
    <3> HIDE DEF p, q
    <3>2. \/ OfferIn(up[b], conn[c], n) \/ AnswerIn(down'[b], conn[c], n) \/ OfferIn(down'[c], conn[b], n)
          \/ TaskFor(q.tasks, conn[b], n) \/ AnswerIn(up[c], conn[b], n)
      BY <1>3, <2>1, <2>2, <3>1
    <3> QED
      BY <1>1, <3>2 DEF Moves, Token, q
  <2>4. Invited(b, c) => Way(b, c)'
    BY <1>1, <1>3 DEF Invited, Way
  <2>5. Way(b, c) => Way(b, c)'
    BY <1>1, <1>3, <1>4, <2>3, <2>4, WayKept
  <2>6. AnswersStand(b, c) => AnswersStand(b, c)'
    BY <1>1, <1>3, <1>4, StandSame
  <2>7. Doomed(b) => Doomed(b)'
    BY <1>3 DEF Doomed
  <2> QED
    BY <1>1, <1>3, <2>5, <2>6, <2>7, LinkedGrown
<1>5. CASE Ignore(c)
  BY <1>4, <1>5 DEF Ignore, OfferHeard
<1>6. CASE OnInit(c)
  BY <1>4, <1>6, InitDoes DEF OnInit, Hears
<1>7. CASE OnClients(c)
  <2>1. p.map = <<>> /\ p.tasks = {}
    BY <1>7 DEF ListBefore, NothingLate
  <2>2. p.pcs = {}
    <3>1. Sound(used, p) /\ DOMAIN p.map = {}
      BY <2>1, PageTyped, MapEmpty
    <3> QED
      BY <3>1 DEF Sound, Filed
  <2>3. m.type # "offer"
    BY <1>7 DEF OnClients, Hears
  <2> QED
    BY <1>4, <2>1, <2>2, <2>3
<1>8. CASE OnOffer(c)
  <2>1. /\ q.pcs = p.pcs /\ m.sdp # 0
        /\ m.id \in DOMAIN p.map => q.tasks = p.tasks \cup {Answer(p, m.id, m.sdp)}
        /\ m.id \notin DOMAIN p.map => \E t \in Tasks(used) :
              t.kind = "create" /\ t.peer = m.id /\ t.sdp = m.sdp /\ q.tasks = p.tasks \cup {t}
    BY <1>8, OfferDoes
  <2>2. /\ Answer(p, m.id, m.sdp).kind = "answer" /\ Answer(p, m.id, m.sdp).peer = m.id
        /\ Answer(p, m.id, m.sdp).sdp = m.sdp
    BY DEF Answer
  <2>3. \E t : /\ q.tasks = p.tasks \cup {t} /\ t.peer = m.id /\ t.sdp = m.sdp
               /\ t.kind = "answer" \/ (t.kind = "create" /\ m.sdp # 0)
    BY <2>1, <2>2
  <2>4. TaskFor(q.tasks, m.id, m.sdp)
    BY <2>3 DEF TaskFor
  <2> QED
    BY <1>4, <2>1, <2>3, <2>4
<1>9. CASE OnAnswer(c)
  <2>1. /\ m.type = "answer"
        /\ \/ q = p
           \/ \E k \in p.pcs : /\ k.state = "offered" /\ q.tasks = p.tasks
                               /\ \E d : q.pcs = (p.pcs \ {k}) \cup {d}
    BY <1>9, AnswerDoes
  <2> QED
    BY <1>4, <2>1
<1> QED
  BY <1>5, <1>6, <1>7, <1>8, <1>9 DEF Receive

\* The answer of c joins the connection that offered.
LEMMA LinkedAnswered ==
  ASSUME TypeOK, NEW b \in Browsers, NEW c \in Browsers, b # c, Fits(b), Apart(b, c),
         Way(b, c), AnswersStand(b, c), OnAnswer(b), Head(down[b]).id = conn[c],
         Invited(b, c) => Invited(b, c)'
  PROVE  Way(b, c)'
<1> DEFINE p == page[b]
           q == page'[b]
           m == Head(down[b])
<1>1. Receive(b)
  BY DEF Receive
<1>2. /\ conn' = conn /\ up' = up /\ down[b] # <<>> /\ down'[b] = Tail(down[b])
      /\ \A x \in Browsers \ {b} : down'[x] = down[x] /\ page'[x] = page[x]
  BY <1>1, ReceiveTakes
<1>3. m.type = "answer" /\ m.id = conn[c] /\ p.open = "yes"
  BY AnswerDoes
<1>4. PICK y \in page[c].pcs : y.n = m.sdp /\ y.peer = conn[b] /\ y.state = "accepted" /\ y.with = m.to
  <2>1. ReplyIn(down[b], m.id, m.sdp, m.to)
    BY <1>2, <1>3, StreamsTyped, SaidTailed
  <2> HIDE DEF m
  <2>2. Accepted(c, conn[b], m.sdp, m.to)
    BY <1>3, <2>1 DEF AnswersStand
  <2> QED
    BY <2>2 DEF Accepted
<1>5. At(p.map, conn[c], m.to)
  <2>1. m = down[b][1] /\ 1 \in DOMAIN down[b] /\ \A j \in DOMAIN down[b] : ~(j < 1)
    <3>1. down[b] \in Seq(DownMessages(used))
      BY StreamsTyped
    <3> QED
      BY <1>2, <3>1
  <2>2. Replies(down[b], p)
    BY DEF Fits
  <2> QED
    BY <1>3, <2>1, <2>2 DEF Replies
<1>6. Sound(used, p)
  BY PageTyped
<1>7. \/ q = p /\ \A x \in Found(p, m.id) : x.state # "offered"
      \/ \E x \in p.pcs :
            /\ m.id \in DOMAIN p.map /\ x.n = p.map[m.id]
            /\ [x EXCEPT !.state = "joined", !.with = m.sdp] \in Connections(used)
            /\ q.pcs = (p.pcs \ {x}) \cup {[x EXCEPT !.state = "joined", !.with = m.sdp]}
  BY AnswerDoes
<1>8. CASE \E x \in p.pcs :
            /\ m.id \in DOMAIN p.map /\ x.n = p.map[m.id]
            /\ [x EXCEPT !.state = "joined", !.with = m.sdp] \in Connections(used)
            /\ q.pcs = (p.pcs \ {x}) \cup {[x EXCEPT !.state = "joined", !.with = m.sdp]}
  <2>1. PICK x \in p.pcs :
            /\ m.id \in DOMAIN p.map /\ x.n = p.map[m.id]
            /\ q.pcs = (p.pcs \ {x}) \cup {[x EXCEPT !.state = "joined", !.with = m.sdp]}
    BY <1>8
  <2> DEFINE d == [x EXCEPT !.state = "joined", !.with = m.sdp]
  <2>2. d.n = x.n /\ d.peer = x.peer /\ d.state = "joined" /\ d.with = m.sdp
    <3>1. p.pcs \subseteq Connections(used)
      BY PageTyped
    <3> QED
      BY <3>1 DEF Connections
  <2>3. x.peer = conn[c] /\ x.n = m.to
    <3>1. \E k \in p.pcs : k.n = p.map[m.id] /\ k.peer = m.id
      BY <1>6, <2>1 DEF Sound, Filed
    <3>2. \E k \in p.pcs : k.n = x.n /\ k.peer = conn[c]
      BY <1>3, <2>1, <3>1
    <3>3. x.peer = conn[c]
      BY <1>6, <3>2 DEF Sound, Numbered
    <3> QED
      BY <1>3, <1>5, <2>1, <3>3 DEF At
  <2>4. d \in q.pcs
    BY <2>1
  <2> HIDE DEF d, p, q, m
  <2>5. y \in page'[c].pcs
    BY <1>2
  <2>6. Joined(b, c)'
    BY <1>2, <1>4, <2>2, <2>3, <2>4, <2>5 DEF Joined, q
  <2> QED
    BY <2>6 DEF Way
<1>9. CASE q = p /\ \A x \in Found(p, m.id) : x.state # "offered"
  <2>1. ~Pending(b, c)
    <3> SUFFICES ASSUME NEW x \in p.pcs, x.peer = conn[c], x.state = "offered" PROVE FALSE
      BY DEF Pending
    <3>1. x.peer \in DOMAIN p.map /\ x.n = p.map[x.peer]
      BY <1>6 DEF Sound, Filed
    <3>2. x \in Found(p, m.id)
      BY <1>3, <3>1 DEF Found
    <3> QED
      BY <1>9, <3>2
  <2>2. page'[b] = page[b] /\ page'[c] = page[c] /\ conn' = conn
    BY <1>2, <1>9
  <2>3. CASE Invited(b, c)
    BY <2>3 DEF Way
  <2>4. CASE \E t \in page[b].tasks : t.peer = conn[c]
    BY <2>2, <2>4 DEF Way
  <2>5. CASE Joined(b, c)
    BY <2>2, <2>5 DEF Way, Joined
  <2> QED
    BY <2>1, <2>3, <2>4, <2>5 DEF Way
<1> QED
  BY <1>7, <1>8, <1>9

\* What b receives: the list that names c has it offer, and the answer joins.
LEMMA LinkedReceived ==
  ASSUME TypeOK, Streams, ListBefore, NothingLate, \A x \in Browsers : Fits(x),
         NEW b \in Browsers, NEW c \in Browsers, b # c, Linked(b, c), Receive(b)
  PROVE  Linked(b, c)'
<1> DEFINE p == page[b]
           q == page'[b]
           m == Head(down[b])
<1>1. /\ conn' = conn /\ up' = up /\ down[b] # <<>> /\ down'[b] = Tail(down[b])
      /\ \A x \in Browsers \ {b} : down'[x] = down[x] /\ page'[x] = page[x]
      /\ q.open = p.open
  BY ReceiveTakes
<1>2. /\ \A id, n : AnswerIn(down[b], id, n) =>
            AnswerIn(down'[b], id, n) \/ (m.type = "answer" /\ m.id = id /\ m.to = n)
      /\ ListIn(down[b]) => ListIn(down'[b]) \/ IsList(m)
      /\ \A id, s, n : ReplyIn(down'[b], id, s, n) => ReplyIn(down[b], id, s, n)
      /\ \A x : Names(down[b], x) => Names(down'[b], x) \/ (IsList(m) /\ x \in m.list)
      /\ \A x : NamesLater(down[b], x) => NamesLater(down'[b], x) \/ (m.type = "init" /\ Names(down'[b], x))
  BY <1>1, StreamsTyped, SaidTailed
<1>3. c \in Browsers \ {b} /\ page'[c] = page[c] /\ down'[c] = down[c]
  BY <1>1
<1> SUFFICES ASSUME Apart(b, c) PROVE Linked(b, c)'
  BY <1>1, <1>3 DEF Linked, Apart
<1>4. /\ conn[b] > conn[c] /\ conn[b] # 0 /\ conn[c] # 0 /\ p.open = "yes"
      /\ m = down[b][1] /\ 1 \in DOMAIN down[b]
  <2>1. down[b] \in Seq(DownMessages(used))
    BY StreamsTyped
  <2> QED
    BY <1>1, <2>1, ApartTwo DEF Apart
<1>5. AnswersStand(b, c) => AnswersStand(b, c)'
  BY <1>1, <1>2, <1>3, StandSame
<1>6. ASSUME q.map = p.map, ~IsList(m) PROVE Doomed(b) => Doomed(b)'
  BY <1>2, <1>6 DEF Doomed
<1>7. ASSUME ~IsList(m), m.type = "init" => q.me = conn[b], m.type # "init" => q.me = p.me
      PROVE  Invited(b, c) => Invited(b, c)'
  <2>1. m.type = "init" => (Invited(b, c) => Invited(b, c)')
    BY <1>1, <1>2, <1>3, <1>7 DEF Invited
  <2>2. m.type # "init" => (Invited(b, c) => Invited(b, c)')
    BY <1>1, <1>2, <1>3, <1>7 DEF Invited
  <2> QED
    BY <2>1, <2>2
\* The head is none of the answers of c.
<1>8. ASSUME m.type # "answer" \/ m.id # conn[c] PROVE \A n : Moves(b, c, n) => Moves(b, c, n)'
  <2> SUFFICES ASSUME NEW n, Moves(b, c, n) PROVE Moves(b, c, n)'
    OBVIOUS
  <2>1. OfferIn(up[b], conn[c], n) \/ Token(c, conn[b], n) \/ AnswerIn(down'[b], conn[c], n)
    BY <1>2, <1>8 DEF Moves
  <2> QED
    BY <1>1, <1>3, <2>1 DEF Moves, Token
<1>9. ASSUME q.map = p.map, ~IsList(m), m.type = "init" => q.me = conn[b], m.type # "init" => q.me = p.me,
             m.type # "answer" \/ m.id # conn[c], \A t \in p.tasks : t \in q.tasks,
             \A x \in p.pcs : x.peer = conn[c] => x \in q.pcs
      PROVE  Linked(b, c)'
  <2>1. (Doomed(b) => Doomed(b)') /\ (Invited(b, c) => Way(b, c)') /\ \A n : Moves(b, c, n) => Moves(b, c, n)'
    BY <1>6, <1>7, <1>8, <1>9 DEF Way
  <2>2. Way(b, c) => Way(b, c)'
    BY <1>1, <1>3, <1>9, <2>1, WayKept
  <2> QED
    BY <1>1, <1>3, <1>5, <2>1, <2>2, LinkedGrown
<1>10. CASE OnInit(b)
  <2>1. q.me = m.id /\ q.pcs = p.pcs /\ q.map = p.map /\ q.tasks = p.tasks /\ m.type = "init"
    BY <1>10, InitDoes DEF OnInit, Hears
  <2>2. m.id = conn[b]
    BY <1>4, <2>1 DEF Streams, Stream, Tuned
  <2> QED
    BY <1>9, <2>1, <2>2 DEF IsList
<1>11. CASE OnOffer(b)
  <2>1. /\ Kin(p, q) /\ q.pcs = p.pcs /\ q.map = p.map /\ m.type = "offer"
        /\ \E t : q.tasks = p.tasks \cup {t}
    BY <1>11, OfferDoes
  <2> QED
    BY <1>9, <2>1 DEF IsList, Kin
<1>12. CASE OnClients(b)
  <2> DEFINE made == Made(p, Call(p, m.list), 0)
  <2>1. /\ IsList(m) /\ q.me = p.me
        /\ p.me # 0 => q.tasks = p.tasks \cup made
        /\ \A x \in Call(p, m.list) : \E t \in made : t.peer = x
    BY <1>12, ClientsDoes DEF OnClients, Hears, IsList
  <2>2. DOMAIN p.map = {} /\ p.pcs = {} /\ p.tasks = {}
    <3>1. p.map = <<>> /\ p.tasks = {} /\ Sound(used, p)
      BY <1>12, PageTyped DEF ListBefore, NothingLate
    <3>2. DOMAIN p.map = {}
      BY <3>1, MapEmpty
    <3> QED
      BY <3>1, <3>2 DEF Sound, Filed
  <2> HIDE DEF made
  <2>3. Invited(b, c) /\ AnswersStand(b, c)
    <3>1. ~Doomed(b) /\ ~Pending(b, c) /\ ~Joined(b, c) /\ ~(\E t \in page[b].tasks : t.peer = conn[c])
      BY <2>2 DEF Doomed, Pending, Joined
    <3> QED
      BY <3>1 DEF Linked, Way
  <2>4. CASE Tells(up[b], "whoami") \/ NamesLater(down[b], conn[c])
    <3>1. Invited(b, c)'
      BY <1>1, <1>2, <2>1, <2>4 DEF Invited, IsList
    <3> QED
      BY <1>5, <2>3, <3>1 DEF Linked, Way
  <2>5. CASE p.me = conn[b] /\ Names(down'[b], conn[c])
    <3>1. Invited(b, c)'
      BY <1>1, <2>1, <2>5 DEF Invited
    <3> QED
      BY <1>5, <2>3, <3>1 DEF Linked, Way
  <2>6. CASE p.me = conn[b] /\ conn[c] \in m.list
    <3>1. conn[c] \in Call(p, m.list)
      BY <1>4, <2>2, <2>6 DEF Call
    <3>2. \E t \in q.tasks : t.peer = conn[c]
      BY <1>4, <2>1, <2>6, <3>1
    <3>3. Way(b, c)'
      BY <1>1, <3>2 DEF Way
    <3> QED
      BY <1>5, <2>3, <3>3 DEF Linked
  <2> QED
    BY <1>2, <2>3, <2>4, <2>5, <2>6 DEF Invited
<1>13. CASE OnAnswer(b)
  <2>0. /\ m.type = "answer"
        /\ \/ q = p
           \/ \E x \in p.pcs :
                 /\ m.id \in DOMAIN p.map /\ x.n = p.map[m.id]
                 /\ Kin(p, q) /\ q.map = p.map /\ q.tasks = p.tasks
                 /\ q.pcs = (p.pcs \ {x}) \cup {[x EXCEPT !.state = "joined", !.with = m.sdp]}
    BY <1>13, AnswerDoes
  <2>1. /\ m.type = "answer" /\ ~IsList(m)
        /\ \/ q = p
           \/ \E x \in p.pcs : /\ m.id \in DOMAIN p.map /\ x.n = p.map[m.id]
                               /\ Kin(p, q) /\ q.map = p.map /\ q.tasks = p.tasks
                               /\ \E d : q.pcs = (p.pcs \ {x}) \cup {d}
    BY <2>0 DEF IsList
  <2>2. q.map = p.map /\ q.me = p.me /\ q.tasks = p.tasks
    BY <2>1 DEF Kin
  <2>3. CASE m.id # conn[c]
    <3>1. \A x \in p.pcs : m.id \in DOMAIN p.map /\ x.n = p.map[m.id] => x.peer = m.id
      <4>1. Sound(used, p)
        BY PageTyped
      <4> QED
        BY <4>1 DEF Sound, Filed, Numbered
    <3>2. \A x \in p.pcs : x.peer = conn[c] => x \in q.pcs
      BY <2>1, <2>3, <3>1
    <3> QED
      BY <1>9, <2>1, <2>2, <2>3, <3>2
  <2>4. CASE m.id = conn[c]
    <3>1. Doomed(b) => Doomed(b)'
      BY <1>6, <2>1, <2>2
    <3>2. Invited(b, c) => Invited(b, c)'
      BY <1>7, <2>1, <2>2
    <3>3. Way(b, c) /\ AnswersStand(b, c) => Way(b, c)'
      BY <1>13, <2>4, <3>2, LinkedAnswered
    <3> QED
      BY <1>5, <3>1, <3>3 DEF Linked
  <2> QED
    BY <2>3, <2>4
<1>14. ~Ignore(b)
  BY <1>4 DEF Ignore
<1> QED
  BY <1>10, <1>11, <1>12, <1>13, <1>14 DEF Receive

\* The answer that c makes is to the offer of the connection that b has, or a list will
\* close that.
LEMMA LinkedAnsweredByOther ==
  ASSUME TypeOK, NEW b \in Browsers, NEW c \in Browsers, b # c, Fits(b), Opens(c), Linked(b, c), Apart(b, c),
         NEW t \in page[c].tasks, Answered(c, t), t.peer = conn[b]
  PROVE  Linked(b, c)'
<1> DEFINE p == page[c]
           q == page'[c]
<1>1. /\ \A x \in Browsers \ {c} : page'[x] = page[x] /\ up'[x] = up[x]
      /\ q.tasks = p.tasks \ {t} /\ t.kind = "answer" /\ conn' = conn /\ down' = down
      /\ t \in Tasks(used)
  <2>1. Finish(c)
    BY DEF Finish
  <2>2. \A x \in Browsers \ {c} : page'[x] = page[x] /\ up'[x] = up[x]
    BY <2>1, FinishEmits
  <2> QED
    BY <2>2, AnsweredDoes DEF net
<1>2. Sound(used, p) /\ p.open = "yes"
  <2>1. Sound(used, p)
    BY PageTyped
  <2> QED
    BY <2>1 DEF Sound, Pages, Apart
<1>3. \E k \in p.pcs, f \in UpMessages(used) :
         /\ k.n = t.n /\ k.peer = t.peer
         /\ q.pcs = (p.pcs \ {k}) \cup {[k EXCEPT !.state = "accepted", !.with = t.sdp]}
         /\ f.type = "answer" /\ f.id = t.peer /\ f.sdp = t.n /\ f.to = t.sdp
         /\ up'[c] = Append(up[c], f)
  <2>1. \E x \in p.pcs : x.n = t.n
    BY <1>1, <1>2 DEF Opens
  <2>2. \/ \A x \in p.pcs : x.n # t.n
        \/ \E k \in p.pcs, f \in UpMessages(used) :
              /\ k.n = t.n /\ k.peer = t.peer
              /\ [k EXCEPT !.state = "accepted", !.with = t.sdp] \in Connections(used)
              /\ q.pcs = (p.pcs \ {k}) \cup {[k EXCEPT !.state = "accepted", !.with = t.sdp]}
              /\ f.type = "answer" /\ f.id = t.peer /\ f.sdp = t.n /\ f.to = t.sdp
              /\ up'[c] = Append(up[c], f) /\ \A x \in Browsers \ {c} : up'[x] = up[x]
    BY AnsweredDoes
  <2> HIDE DEF p, q
  <2> QED
    BY <2>1, <2>2
<1>4. PICK k \in p.pcs, f \in UpMessages(used) :
         /\ k.n = t.n /\ k.peer = t.peer
         /\ q.pcs = (p.pcs \ {k}) \cup {[k EXCEPT !.state = "accepted", !.with = t.sdp]}
         /\ f.type = "answer" /\ f.id = t.peer /\ f.sdp = t.n /\ f.to = t.sdp
         /\ up'[c] = Append(up[c], f)
  BY <1>3
<1> DEFINE d == [k EXCEPT !.state = "accepted", !.with = t.sdp]
<1>5. d \in q.pcs /\ d.n = t.n /\ d.peer = conn[b] /\ d.state = "accepted" /\ d.with = t.sdp
  <2>1. k \in Connections(used)
    BY PageTyped
  <2> QED
    BY <1>4, <2>1 DEF Connections
<1> HIDE DEF d, p, q
<1>6. \A y \in p.pcs : y.peer = conn[b] => y.n = t.n
  BY <1>2, <1>4 DEF Sound, Filed
<1>7. /\ b \in Browsers \ {c} /\ page'[b] = page[b] /\ up'[b] = up[b]
      /\ Says(up[c], up'[c]) /\ AnswerIn(up'[c], conn[b], t.sdp)
      /\ \A s, n : ReplyIn(up'[c], conn[b], s, n) =>
            ReplyIn(up[c], conn[b], s, n) \/ (s = t.n /\ n = t.sdp)
  <2>1. /\ Says(up[c], up'[c])
        /\ \A id, s, n : ReplyIn(up'[c], id, s, n) =>
              ReplyIn(up[c], id, s, n) \/ (f.type = "answer" /\ f.id = id /\ f.sdp = s /\ f.to = n)
        /\ \A id, n : AnswerIn(up'[c], id, n) <=>
              AnswerIn(up[c], id, n) \/ (f.type = "answer" /\ f.id = id /\ f.to = n)
    BY <1>4, EmittedSays
  <2> QED
    BY <1>1, <1>4, <2>1
<1>8. page[b].open = "yes" /\ conn[b] # 0 /\ conn[c] # 0
  BY ApartTwo DEF Apart
<1>9. \A n \in Nat : Token(c, conn[b], n) =>
         DOMAIN page[b].map # {} /\ (At(page[b].map, conn[c], n) \/ ListIn(down[b]))
  BY <1>8 DEF Fits, Returned
<1>10. t.sdp \in Nat /\ Token(c, conn[b], t.sdp)
  <2>1. t.sdp \in Nat
    BY <1>1 DEF Tasks
  <2>2. TaskFor(page[c].tasks, conn[b], t.sdp)
    BY <1>1 DEF TaskFor
  <2> QED
    BY <2>1, <2>2 DEF Token
<1>11. CASE ListIn(down[b])
  <2>1. Doomed(b)'
    BY <1>1, <1>7, <1>9, <1>10, <1>11 DEF Doomed
  <2> QED
    BY <2>1 DEF Linked
<1>12. CASE ~ListIn(down[b])
  <2>1. Way(b, c) /\ AnswersStand(b, c) /\ At(page[b].map, conn[c], t.sdp)
    BY <1>9, <1>10, <1>12 DEF Linked, Doomed
  <2>2. ASSUME NEW s, NEW n, ReplyIn(up[c], conn[b], s, n) \/ ReplyIn(down[b], conn[c], s, n)
        PROVE  s = t.n /\ n = t.sdp
    <3>1. At(page[b].map, conn[c], n)
      <4>1. CASE ReplyIn(up[c], conn[b], s, n)
        <5>1. n \in Nat
          <6>1. \A i \in DOMAIN up[c] : up[c][i] \in UpMessages(used)
            BY StreamsTyped
          <6> QED
            BY <4>1, <6>1 DEF ReplyIn, UpMessages, Messages
        <5>2. Token(c, conn[b], n)
          BY <4>1 DEF Token, AnswerIn, ReplyIn
        <5> QED
          BY <1>9, <1>12, <5>1, <5>2
      <4>2. CASE ReplyIn(down[b], conn[c], s, n)
        BY <1>8, <1>12, <4>2 DEF Fits, Replies, ReplyIn, ListIn
      <4> QED
        BY <2>2, <4>1, <4>2
    <3>2. \E y \in p.pcs : y.n = s /\ y.peer = conn[b]
      BY <2>1, <2>2 DEF AnswersStand, Accepted, p
    <3> QED
      BY <1>6, <2>1, <3>1, <3>2 DEF At
  <2>3. AnswersStand(b, c)'
    <3>1. \A s, n : ReplyIn(up'[c], conn[b], s, n) \/ ReplyIn(down[b], conn[c], s, n) => s = t.n /\ n = t.sdp
      BY <1>7, <2>2
    <3>2. \E y \in page'[c].pcs : y.n = t.n /\ y.peer = conn[b] /\ y.state = "accepted" /\ y.with = t.sdp
      BY <1>5 DEF q
    <3> QED
      BY <1>1, <3>1, <3>2 DEF AnswersStand, Accepted
  <2>4. Way(b, c)'
    <3>1. CASE Invited(b, c)
      BY <1>1, <1>7, <3>1 DEF Invited, Way
    <3>2. CASE \E u \in page[b].tasks : u.peer = conn[c]
      BY <1>1, <1>7, <3>2 DEF Way
    <3>3. CASE Pending(b, c)
      <4>1. PICK x \in page[b].pcs : x.peer = conn[c] /\ x.state = "offered" /\ Moves(b, c, x.n)
        BY <3>3 DEF Pending
      <4>2. \/ OfferIn(up[b], conn[c], x.n) \/ AnswerIn(down[b], conn[c], x.n) \/ OfferIn(down[c], conn[b], x.n)
            \/ TaskFor(p.tasks, conn[b], x.n) \/ AnswerIn(up[c], conn[b], x.n)
        BY <4>1 DEF Moves, Token, p
      <4>3. TaskFor(p.tasks, conn[b], x.n) => TaskFor(q.tasks, conn[b], x.n) \/ x.n = t.sdp
        BY <1>1 DEF TaskFor, p, q
      <4>4. \/ OfferIn(up[b], conn[c], x.n) \/ AnswerIn(down[b], conn[c], x.n) \/ OfferIn(down[c], conn[b], x.n)
            \/ TaskFor(q.tasks, conn[b], x.n) \/ AnswerIn(up'[c], conn[b], x.n)
        BY <1>7, <4>2, <4>3 DEF Says
      <4>5. Pending(b, c)'
        BY <1>1, <1>7, <4>1, <4>4 DEF Pending, Moves, Token, q
      <4> QED
        BY <4>5 DEF Way
    <3>4. CASE Joined(b, c)
      <4>1. PICK x \in page[b].pcs, y \in p.pcs :
               /\ x.peer = conn[c] /\ y.peer = conn[b] /\ x.state = "joined" /\ x.with = y.n
        BY <3>4 DEF Joined, p
      <4>2. x.n = t.sdp
        <5>1. Sound(used, page[b])
          BY PageTyped
        <5> QED
          BY <2>1, <4>1, <5>1 DEF Sound, Filed, At
      <4>3. x.with = t.n
        BY <1>6, <4>1
      <4>4. Joined(b, c)'
        BY <1>1, <1>5, <1>7, <4>1, <4>2, <4>3 DEF Joined, q
      <4> QED
        BY <4>4 DEF Way
    <3> QED
      BY <2>1, <3>1, <3>2, <3>3, <3>4 DEF Way
  <2> QED
    BY <2>3, <2>4 DEF Linked
<1> QED
  BY <1>11, <1>12

\* What c awaited goes on: it offers to others only, and what it was offered becomes an
\* answer.
LEMMA LinkedFinishedByOther ==
  ASSUME TypeOK, NEW b \in Browsers, NEW c \in Browsers, b # c, Fits(b), Aimed(c), Opens(c), Linked(b, c),
         Finish(c)
  PROVE  Linked(b, c)'
<1> DEFINE p == page[c]
           q == page'[c]
<1>1. /\ conn' = conn /\ down' = down /\ Says(up[c], up'[c]) /\ q.open = p.open
      /\ b \in Browsers \ {c} /\ page'[b] = page[b] /\ up'[b] = up[b]
  BY FinishEmits DEF net, Kin
<1>2. PICK t \in p.tasks : Created(c, t) \/ Offered(c, t) \/ Answered(c, t)
  BY DEF Finish
<1> SUFFICES ASSUME Apart(b, c) PROVE Linked(b, c)'
  BY <1>1 DEF Linked, Apart
\* What c has for b stays.
<1>3. ASSUME \A y \in p.pcs : y.peer = conn[b] => y \in q.pcs,
             \A n : TaskFor(p.tasks, conn[b], n) => TaskFor(q.tasks, conn[b], n),
             \A s, n : ReplyIn(up'[c], conn[b], s, n) => ReplyIn(up[c], conn[b], s, n)
      PROVE  Linked(b, c)'
  <2>1. \A n : Moves(b, c, n) => Moves(b, c, n)'
    <3> SUFFICES ASSUME NEW n, Moves(b, c, n) PROVE Moves(b, c, n)'
      OBVIOUS
    <3>1. \/ OfferIn(up[b], conn[c], n) \/ AnswerIn(down[b], conn[c], n) \/ OfferIn(down[c], conn[b], n)
          \/ TaskFor(p.tasks, conn[b], n) \/ AnswerIn(up[c], conn[b], n)
      BY DEF Moves, Token
    <3> HIDE DEF p, q
    <3>2. AnswerIn(up[c], conn[b], n) => AnswerIn(up'[c], conn[b], n)
      BY <1>1 DEF Says
    <3>3. \/ OfferIn(up[b], conn[c], n) \/ AnswerIn(down[b], conn[c], n) \/ OfferIn(down[c], conn[b], n)
          \/ TaskFor(q.tasks, conn[b], n) \/ AnswerIn(up'[c], conn[b], n)
      BY <1>3, <3>1, <3>2
    <3> QED
      BY <1>1, <3>3 DEF Moves, Token, q
  <2>2. Invited(b, c) => Way(b, c)'
    BY <1>1 DEF Invited, Way
  <2>3. Way(b, c) => Way(b, c)'
    BY <1>1, <1>3, <2>1, <2>2, WayKept
  <2>4. AnswersStand(b, c) => AnswersStand(b, c)'
    BY <1>1, <1>3, StandSame
  <2>5. Doomed(b) => Doomed(b)'
    BY <1>1 DEF Doomed
  <2> QED
    BY <1>1, <2>3, <2>4, <2>5, LinkedGrown
<1>4. CASE Created(c, t)
  <2>1. /\ t.kind = "create" /\ p.pcs \subseteq q.pcs /\ up' = up
        /\ t.sdp # 0 => \E u : u.kind = "answer" /\ u.peer = t.peer /\ u.sdp = t.sdp /\ q.tasks = (p.tasks \ {t}) \cup {u}
        /\ t.sdp = 0 => \E T : q.tasks = (p.tasks \ {t}) \cup T
    <3>1. /\ t.kind = "create"
          /\ t.peer \in DOMAIN p.map => q.pcs = p.pcs
          /\ t.peer \notin DOMAIN p.map => q.pcs = p.pcs \cup {NewConnection(t.n, t.peer)}
          /\ t.sdp # 0 => \E u \in Tasks(used) :
                /\ u.kind = "answer" /\ u.peer = t.peer /\ u.sdp = t.sdp
                /\ q.tasks = (p.tasks \ {t}) \cup {u}
      BY <1>4, CreatedDoes
    <3>2. /\ t.sdp = 0 /\ t.peer \in DOMAIN p.map => q.tasks = (p.tasks \ {t}) \cup {}
          /\ t.sdp = 0 /\ t.peer \notin DOMAIN p.map => \E u \in Tasks(used) : q.tasks = (p.tasks \ {t}) \cup {u}
      BY <1>4, CreatedDoes
    <3>3. up' = up
      BY <1>4 DEF Created
    <3> HIDE DEF p, q
    <3> QED
      BY <3>1, <3>2, <3>3
  <2> HIDE DEF p, q
  <2>2. ASSUME NEW n, TaskFor(p.tasks, conn[b], n) PROVE TaskFor(q.tasks, conn[b], n)
    <3>1. PICK u \in p.tasks : u.peer = conn[b] /\ u.sdp = n /\ (u.kind = "answer" \/ (u.kind = "create" /\ n # 0))
      BY <2>2 DEF TaskFor
    <3>2. CASE u # t
      <4>1. u \in q.tasks
        BY <2>1, <3>2
      <4> QED
        BY <3>1, <4>1 DEF TaskFor
    <3>3. CASE u = t
      BY <2>1, <3>1, <3>3 DEF TaskFor
    <3> QED
      BY <3>2, <3>3
  <2> QED
    BY <1>3, <2>1, <2>2
\* A connection with another than b changes.
<1>5. ASSUME t.peer # conn[b], q.tasks = p.tasks \ {t},
             q.pcs = p.pcs \/ \E k \in p.pcs : k.peer = t.peer /\ \E d : q.pcs = (p.pcs \ {k}) \cup {d},
             up' = up \/ \E f \in UpMessages(used) : f.id = t.peer /\ up'[c] = Append(up[c], f)
      PROVE  Linked(b, c)'
  <2>1. \A y \in p.pcs : y.peer = conn[b] => y \in q.pcs
    BY <1>5
  <2>2. \A n : TaskFor(p.tasks, conn[b], n) => TaskFor(q.tasks, conn[b], n)
    BY <1>5 DEF TaskFor
  <2>3. \A s, n : ReplyIn(up'[c], conn[b], s, n) => ReplyIn(up[c], conn[b], s, n)
    <3>1. ASSUME NEW f \in UpMessages(used), f.id = t.peer, up'[c] = Append(up[c], f)
          PROVE  \A s, n : ReplyIn(up'[c], conn[b], s, n) => ReplyIn(up[c], conn[b], s, n)
      <4>1. \A id, s, n : ReplyIn(up'[c], id, s, n) =>
                 ReplyIn(up[c], id, s, n) \/ (f.type = "answer" /\ f.id = id /\ f.sdp = s /\ f.to = n)
        BY <3>1, EmittedSays
      <4> QED
        BY <1>5, <3>1, <4>1
    <3> QED
      BY <1>5, <3>1
  <2> QED
    BY <1>3, <2>1, <2>2, <2>3
<1>6. CASE Offered(c, t)
  <2>1. /\ t.kind = "offer" /\ q.tasks = p.tasks \ {t}
        /\ q.pcs = p.pcs \/ \E k \in p.pcs : k.peer = t.peer /\ \E d : q.pcs = (p.pcs \ {k}) \cup {d}
        /\ up' = up \/ \E f \in UpMessages(used) : f.id = t.peer /\ up'[c] = Append(up[c], f)
    <3>1. /\ t.kind = "offer" /\ q.tasks = p.tasks \ {t}
          /\ \/ q.pcs = p.pcs /\ UNCHANGED up /\ \A k \in p.pcs : k.n # t.n
             \/ \E k \in p.pcs, f \in UpMessages(used) :
                   /\ k.n = t.n /\ k.peer = t.peer
                   /\ [k EXCEPT !.state = "offered", !.with = t.sdp] \in Connections(used)
                   /\ q.pcs = (p.pcs \ {k}) \cup {[k EXCEPT !.state = "offered", !.with = t.sdp]}
                   /\ f.type = "offer" /\ f.id = t.peer /\ f.sdp = t.n
                   /\ up'[c] = Append(up[c], f) /\ \A x \in Browsers \ {c} : up'[x] = up[x]
      BY <1>6, OfferedDoes
    <3> HIDE DEF p, q
    <3> QED
      BY <3>1
  <2>2. t.peer < conn[c]
    BY <2>1 DEF Aimed, Own
  <2>3. t.peer # conn[b]
    <3>1. conn[b] \in Nat /\ conn[c] \in Nat
      BY ConnTyped
    <3> QED
      BY <2>2, <3>1 DEF Apart
  <2> QED
    BY <1>5, <2>1, <2>3
<1>7. CASE Answered(c, t) /\ t.peer # conn[b]
  <2>1. /\ q.tasks = p.tasks \ {t}
        /\ q.pcs = p.pcs \/ \E k \in p.pcs : k.peer = t.peer /\ \E d : q.pcs = (p.pcs \ {k}) \cup {d}
        /\ up' = up \/ \E f \in UpMessages(used) : f.id = t.peer /\ up'[c] = Append(up[c], f)
    <3>1. /\ q.tasks = p.tasks \ {t}
          /\ \/ q.pcs = p.pcs /\ UNCHANGED up /\ \A k \in p.pcs : k.n # t.n
             \/ \E k \in p.pcs, f \in UpMessages(used) :
                   /\ k.n = t.n /\ k.peer = t.peer
                   /\ [k EXCEPT !.state = "accepted", !.with = t.sdp] \in Connections(used)
                   /\ q.pcs = (p.pcs \ {k}) \cup {[k EXCEPT !.state = "accepted", !.with = t.sdp]}
                   /\ f.type = "answer" /\ f.id = t.peer /\ f.sdp = t.n /\ f.to = t.sdp
                   /\ up'[c] = Append(up[c], f) /\ \A x \in Browsers \ {c} : up'[x] = up[x]
      BY <1>7, AnsweredDoes
    <3> HIDE DEF p, q
    <3> QED
      BY <3>1
  <2> QED
    BY <1>5, <1>7, <2>1
<1>8. CASE Answered(c, t) /\ t.peer = conn[b]
  BY <1>8, LinkedAnsweredByOther
<1> QED
  BY <1>2, <1>4, <1>6, <1>7, <1>8

\* What b awaited goes on: the task that makes the connection to c offers it next.
LEMMA LinkedFinished ==
  ASSUME TypeOK, NEW b \in Browsers, NEW c \in Browsers, b # c, Aimed(b), Opens(b), Linked(b, c), Finish(b)
  PROVE  Linked(b, c)'
<1> DEFINE p == page[b]
           q == page'[b]
<1>1. /\ conn' = conn /\ down' = down /\ Says(up[b], up'[b]) /\ Kin(p, q)
      /\ c \in Browsers \ {b} /\ page'[c] = page[c] /\ up'[c] = up[c]
  BY FinishEmits DEF net
<1>2. PICK t \in p.tasks : Created(b, t) \/ Offered(b, t) \/ Answered(b, t)
  BY DEF Finish
<1> SUFFICES ASSUME Apart(b, c) PROVE Linked(b, c)'
  BY <1>1 DEF Linked, Apart, Kin
<1>3. AnswersStand(b, c) => AnswersStand(b, c)'
  BY <1>1, StandSame
<1>4. \A n : Moves(b, c, n) => Moves(b, c, n)'
  BY <1>1 DEF Moves, Token, Says
<1>5. Invited(b, c) => Way(b, c)'
  BY <1>1 DEF Invited, Way, Says, Kin
<1>6. ASSUME DOMAIN p.map \subseteq DOMAIN q.map, Way(b, c) => Way(b, c)' PROVE Linked(b, c)'
  <2>1. Doomed(b) => Doomed(b)'
    BY <1>1, <1>6 DEF Doomed
  <2> QED
    BY <1>1, <1>3, <1>6, <2>1, LinkedGrown DEF Kin
<1>7. /\ Own(t) => t.peer < conn[b]
      /\ ~Own(t) => t.peer # conn[c]
      /\ p.open = "yes"
  <2>1. conn[b] \in Nat /\ conn[c] \in Nat
    BY ConnTyped
  <2> QED
    BY <2>1 DEF Aimed, Apart
\* What b has for c stays.
<1>8. ASSUME DOMAIN p.map \subseteq DOMAIN q.map,
             \A u \in p.tasks : u.peer = conn[c] => \E v \in q.tasks : v.peer = conn[c],
             \A x \in p.pcs : x.peer = conn[c] => x \in q.pcs
      PROVE  Linked(b, c)'
  <2>1. Way(b, c) => Way(b, c)'
    BY <1>1, <1>4, <1>5, <1>8, WayKept
  <2> QED
    BY <1>6, <1>8, <2>1
<1>9. CASE Created(b, t)
  <2>1. /\ t.kind = "create" /\ DOMAIN p.map \subseteq DOMAIN q.map /\ p.pcs \subseteq q.pcs
        /\ \E T : q.tasks = (p.tasks \ {t}) \cup T
        /\ t.sdp = 0 /\ t.peer \notin DOMAIN p.map => \E u \in q.tasks : u.peer = t.peer
    <3>1. /\ t.kind = "create" /\ DOMAIN q.map = DOMAIN p.map \cup {t.peer}
          /\ t.peer \in DOMAIN p.map => q.pcs = p.pcs
          /\ t.peer \notin DOMAIN p.map => q.pcs = p.pcs \cup {NewConnection(t.n, t.peer)}
      BY <1>9, CreatedDoes
    <3>2. /\ t.sdp # 0 => \E u \in Tasks(used) :
                /\ u.kind = "answer" /\ u.peer = t.peer /\ u.sdp = t.sdp
                /\ q.tasks = (p.tasks \ {t}) \cup {u}
          /\ t.sdp = 0 /\ t.peer \in DOMAIN p.map => q.tasks = p.tasks \ {t}
          /\ t.sdp = 0 /\ t.peer \notin DOMAIN p.map => \E u \in Tasks(used) :
                /\ u.kind = "offer" /\ u.n = t.n /\ u.peer = t.peer /\ u.sdp = 0
                /\ q.tasks = (p.tasks \ {t}) \cup {u}
      BY <1>9, CreatedDoes
    <3> HIDE DEF p, q
    <3>3. CASE t.sdp = 0 /\ t.peer \in DOMAIN p.map
      <4>1. q.tasks = (p.tasks \ {t}) \cup {}
        BY <3>2, <3>3
      <4> QED
        BY <3>1, <3>3, <4>1
    <3> QED
      BY <3>1, <3>2, <3>3
  <2>2. t.peer = conn[c] => t.sdp = 0 /\ t.peer \notin DOMAIN p.map
    BY <1>7, <2>1 DEF Own, Opens
  <2> HIDE DEF p, q
  <2>3. \A u \in p.tasks : u.peer = conn[c] => \E v \in q.tasks : v.peer = conn[c]
    BY <2>1, <2>2
  <2> QED
    BY <1>8, <2>1, <2>3
\* A connection with another than c changes.
<1>10. ASSUME t.peer # conn[c], q.tasks = p.tasks \ {t}, q.map = p.map,
              q.pcs = p.pcs \/ \E k \in p.pcs : k.peer = t.peer /\ \E d : q.pcs = (p.pcs \ {k}) \cup {d}
       PROVE  Linked(b, c)'
  <2>1. \A x \in p.pcs : x.peer = conn[c] => x \in q.pcs
    BY <1>10
  <2>2. \A u \in p.tasks : u.peer = conn[c] => u \in q.tasks
    BY <1>10
  <2> QED
    BY <1>8, <1>10, <2>1, <2>2
<1>11. CASE Answered(b, t)
  <2>1. /\ t.kind = "answer" /\ q.tasks = p.tasks \ {t} /\ q.map = p.map
        /\ \/ q.pcs = p.pcs
           \/ \E k \in p.pcs :
                 /\ k.peer = t.peer
                 /\ q.pcs = (p.pcs \ {k}) \cup {[k EXCEPT !.state = "accepted", !.with = t.sdp]}
    BY <1>11, AnsweredDoes
  <2>2. t.peer # conn[c]
    BY <1>7, <2>1 DEF Own
  <2> HIDE DEF p, q
  <2> QED
    BY <1>10, <2>1, <2>2
<1>12. CASE Offered(b, t)
  <2>1. /\ t.kind = "offer" /\ q.tasks = p.tasks \ {t} /\ q.map = p.map
        /\ \/ q.pcs = p.pcs /\ UNCHANGED up /\ \A k \in p.pcs : k.n # t.n
           \/ \E k \in p.pcs, f \in UpMessages(used) :
                 /\ k.n = t.n /\ k.peer = t.peer
                 /\ [k EXCEPT !.state = "offered", !.with = t.sdp] \in Connections(used)
                 /\ q.pcs = (p.pcs \ {k}) \cup {[k EXCEPT !.state = "offered", !.with = t.sdp]}
                 /\ f.type = "offer" /\ f.id = t.peer /\ f.sdp = t.n
                 /\ up'[b] = Append(up[b], f) /\ \A x \in Browsers \ {b} : up'[x] = up[x]
    BY <1>12, OfferedDoes
  <2>2. \E x \in p.pcs : x.n = t.n
    BY <1>7, <2>1 DEF Opens
  <2>3. p.pcs \subseteq Connections(used)
    BY PageTyped
  <2> HIDE DEF p, q
  <2>4. PICK k \in p.pcs, f \in UpMessages(used) :
            /\ k.n = t.n /\ k.peer = t.peer
            /\ q.pcs = (p.pcs \ {k}) \cup {[k EXCEPT !.state = "offered", !.with = t.sdp]}
            /\ f.type = "offer" /\ f.id = t.peer /\ f.sdp = t.n
            /\ up'[b] = Append(up[b], f)
    BY <2>1, <2>2
  <2>5. CASE t.peer # conn[c]
    BY <1>10, <2>1, <2>4, <2>5
  <2>6. CASE t.peer = conn[c]
    <3> DEFINE d == [k EXCEPT !.state = "offered", !.with = t.sdp]
    <3>1. d \in q.pcs /\ d.n = t.n /\ d.peer = conn[c] /\ d.state = "offered"
      BY <2>3, <2>4, <2>6 DEF Connections
    <3>2. OfferIn(up'[b], conn[c], t.n)
      <4>1. \A id, n : OfferIn(up'[b], id, n) <=>
               OfferIn(up[b], id, n) \/ (f.type = "offer" /\ f.id = id /\ f.sdp = n)
        BY <2>4, EmittedSays
      <4> QED
        BY <2>4, <2>6, <4>1
    <3> HIDE DEF d
    <3>3. Pending(b, c)'
      BY <1>1, <3>1, <3>2 DEF Pending, Moves, q
    <3>4. Way(b, c)'
      BY <3>3 DEF Way
    <3> QED
      BY <1>6, <2>1, <3>4
  <2> QED
    BY <2>5, <2>6
<1> QED
  BY <1>2, <1>9, <1>11, <1>12

LEMMA LinkedKept ==
  ASSUME TypeOK, Streams, \A x \in Browsers : Knows(x) /\ Fits(x) /\ Aimed(x) /\ Opens(x),
         \A b, c \in Browsers : Linked(b, c),
         ListBefore, NothingLate, OfferHeard, \A x \in Browsers : ~Press(x), Next
  PROVE  \A b, c \in Browsers : Linked(b, c)'
<1> SUFFICES ASSUME NEW b \in Browsers, NEW c \in Browsers PROVE Linked(b, c)'
  OBVIOUS
<1>0. Linked(b, c)
  OBVIOUS
<1>1. CASE b = c
  <2>1. TypeOK'
    BY TypeStep
  <2>2. conn'[b] \in Nat
    <3>1. conn'[b] \in used' \cup {0} /\ used' \subseteq Ids
      BY <2>1 DEF TypeOK
    <3>2. \A i \in Ids : i \in Nat
      BY FoundIds
    <3> QED
      BY <3>1, <3>2
  <2> QED
    BY <1>1, <2>2 DEF Linked, Apart
<1>2. CASE b # c
  <2>1. CASE Notice
    BY <1>0, <2>1, LinkedNoticed
  <2>2. ASSUME NEW d \in Browsers, Connect(d) PROVE Linked(b, c)'
    BY <1>0, <2>2, LinkedConnected
  <2>3. ASSUME NEW d \in Browsers, Drop(d) PROVE Linked(b, c)'
    BY <1>0, <2>3, LinkedDropped
  <2>4. ASSUME NEW d \in Browsers, Serve(d) PROVE Linked(b, c)'
    BY <1>0, <2>4, LinkedServed
  <2>5. ASSUME NEW d \in Browsers, Open(d) \/ Leave(d) \/ Ready(d) PROVE Linked(b, c)'
    BY <1>0, <2>5, LinkedTurned
  <2>6. ASSUME NEW d \in Browsers, Receive(d) PROVE Linked(b, c)'
    <3>1. CASE d = b
      BY <1>0, <1>2, <2>6, <3>1, LinkedReceived
    <3>2. CASE d = c
      BY <1>0, <1>2, <2>6, <3>2, LinkedReceivedByOther
    <3>3. CASE d # b /\ d # c
      <4>1. /\ conn' = conn /\ up' = up /\ down'[b] = down[b] /\ down'[c] = down[c]
            /\ page'[b] = page[b] /\ page'[c] = page[c]
        BY <2>6, <3>3, ReceiveTakes
      <4> QED
        BY <1>0, <4>1, SaysSame, LinkedSaid
    <3> QED
      BY <3>1, <3>2, <3>3
  <2>7. ASSUME NEW d \in Browsers, Finish(d) PROVE Linked(b, c)'
    <3>1. CASE d = b
      BY <1>0, <1>2, <2>7, <3>1, LinkedFinished
    <3>2. CASE d = c
      BY <1>0, <1>2, <2>7, <3>2, LinkedFinishedByOther
    <3>3. CASE d # b /\ d # c
      <4>1. /\ conn' = conn /\ down' = down /\ up'[b] = up[b] /\ up'[c] = up[c]
            /\ page'[b] = page[b] /\ page'[c] = page[c]
        BY <2>7, <3>3, FinishEmits DEF net
      <4> QED
        BY <1>0, <4>1, SaysSame, LinkedSaid
    <3> QED
      BY <3>1, <3>2, <3>3
  <2> QED
    BY <2>1, <2>2, <2>3, <2>4, <2>5, <2>6, <2>7 DEF Next
<1> QED
  BY <1>1, <1>2

\* The button and what comes late
Sides == Kept({"late", "button"}) => \A b \in Browsers : Aimed(b) /\ Opens(b)
\* and lists and offers at a bad moment
Links == Kept({"list", "late", "heard", "button"}) => \A b, c \in Browsers : Linked(b, c)

JoinInv == AllFit /\ (\A b \in Browsers : Knows(b)) /\ Sides /\ Links

LEMMA JoinInit == DisciplineInit => JoinInv
BY AllFitInit, KnowsInit, AimedInit, OpensInit, LinkedInit DEF DisciplineInit, JoinInv, Sides, Links

LEMMA JoinStep == RadioInv /\ JoinInv /\ [Disciplined]_<<vars, broken>> => JoinInv'
<1> SUFFICES ASSUME TypeOK, Streams, JoinInv, [Disciplined]_<<vars, broken>> PROVE JoinInv'
  BY DEF RadioInv
<1>1. CASE UNCHANGED <<vars, broken>>
  <2>1. UNCHANGED <<conn, page, up, down, broken>>
    BY <1>1 DEF vars, net
  <2>2. AllFit'
    BY <2>1 DEF JoinInv, AllFit, Fits, Sent, Returned, Replies, Token, Kept
  <2>3. \A b \in Browsers : Knows(b)'
    BY <2>1 DEF JoinInv, Knows
  <2>4. Sides'
    BY <2>1 DEF JoinInv, Sides, Kept, Aimed, Opens
  <2>5. Links'
    BY <2>1 DEF JoinInv, Links, Kept, Linked, Apart, Doomed, Way, Invited, Pending, Moves, Token, Joined,
                AnswersStand, Accepted
  <2> QED
    BY <2>2, <2>3, <2>4, <2>5 DEF JoinInv
<1>2. CASE Disciplined
  <2>1. AllFit' /\ \A b \in Browsers : Knows(b)'
    BY <1>2, FitsKept, KnowsKept DEF JoinInv, Disciplined
  <2>2. Sides'
    <3> SUFFICES ASSUME Kept({"late", "button"})' PROVE \A b \in Browsers : Aimed(b)' /\ Opens(b)'
      BY DEF Sides
    <3>1. Kept({"late", "button"}) /\ NothingLate /\ \A b \in Browsers : ~Press(b)
      BY <1>2, KeptStep
    <3> QED
      BY <1>2, <3>1, AimedKept, OpensKept DEF JoinInv, Sides, Disciplined
  <2>3. Links'
    <3> SUFFICES ASSUME Kept({"list", "late", "heard", "button"})' PROVE \A b, c \in Browsers : Linked(b, c)'
      BY DEF Links
    <3>1. /\ Kept({"list", "late", "heard", "button"})
          /\ ListBefore /\ NothingLate /\ OfferHeard /\ \A b \in Browsers : ~Press(b)
      BY <1>2, KeptStep
    <3>2. Kept({"list"}) /\ Kept({"late", "button"})
      BY <3>1 DEF Kept
    <3>3. /\ \A b \in Browsers : Knows(b) /\ Fits(b) /\ Aimed(b) /\ Opens(b)
          /\ \A b, c \in Browsers : Linked(b, c)
      BY <3>1, <3>2 DEF JoinInv, AllFit, Sides, Links
    <3> QED
      BY <1>2, <3>1, <3>3, LinkedKept DEF Disciplined
  <2> QED
    BY <2>1, <2>2, <2>3 DEF JoinInv
<1> QED
  BY <1>1, <1>2

\* Once nothing is on its way, any two browsers whose pages are open are joined, unless a
\* list reached a page that had connections, something that was awaited came after a list
\* or a lost connection, an offer found the page not open, or the button was pressed: of
\* two, the one with the greater id is on its way to the other from the moment both
\* have ids, or a list that will have it start anew is.
THEOREM TwoAreJoined == DisciplineSpec => []Joins
<1>1. DisciplineInit => RadioInv /\ JoinInv
  BY RadioInit, JoinInit
<1>2. RadioInv /\ JoinInv /\ [Disciplined]_<<vars, broken>> => RadioInv' /\ JoinInv'
  BY RadioStep, JoinStep
<1>3. RadioInv /\ JoinInv => Joins
  <2> SUFFICES ASSUME TypeOK, JoinInv, AtRest, Kept({"list", "late", "heard", "button"}),
                      NEW b \in Browsers, NEW c \in Browsers, Together(b, c)
               PROVE  Joined(b, c) \/ Joined(c, b)
    BY DEF Joins, RadioInv
  <2>1. /\ conn[b] \in Nat /\ conn[c] \in Nat /\ conn[b] # 0 /\ conn[c] # 0 /\ conn[b] # conn[c]
        /\ page[b].open = "yes" /\ page[c].open = "yes"
    BY ConnTyped DEF Together, TypeOK
  <2>2. ASSUME NEW x \in Browsers, NEW y \in Browsers, Apart(x, y) PROVE Joined(x, y)
    <3>1. /\ up[x] = <<>> /\ down[x] = <<>> /\ page[x].tasks = {}
          /\ up[y] = <<>> /\ down[y] = <<>> /\ page[y].tasks = {}
      BY DEF AtRest
    <3>2. ~Doomed(x) /\ ~Invited(x, y)
      BY <3>1, InNothing, SaidNothing DEF Doomed, Invited
    <3>3. \A n : ~Moves(x, y, n)
      BY <3>1, InNothing DEF Moves, Token, TaskFor
    <3>4. Linked(x, y)
      BY DEF JoinInv, Links
    <3> QED
      BY <2>2, <3>1, <3>2, <3>3, <3>4 DEF Linked, Way, Pending
  <2>3. Apart(b, c) \/ Apart(c, b)
    BY <2>1 DEF Apart
  <2> QED
    BY <2>2, <2>3
<1> QED
  BY <1>1, <1>2, <1>3, PTL DEF DisciplineSpec, Disciplined
=============================================================================
