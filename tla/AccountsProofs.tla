--------------------------- MODULE AccountsProofs ---------------------------
(***************************************************************************)
(* Theorems about AccountDisciplines, for any number of rows, tabs and     *)
(* overlapping requests: emails stay unique, an answered logout ends its   *)
(* session, blocks reach every session and no write of others is undone.   *)
(***************************************************************************)
EXTENDS AccountDisciplines, FiniteSetTheorems, TLAPS

PCs == {"idle", "LoginFind", "LoginSave", "LoginReply", "Refresh",
        "RegisterFind", "RegisterInsert", "RegisterSave", "RegisterReply",
        "LogoutFind", "LogoutSave", "LogoutReply", "UpdateFind", "UpdateWrite", "BlockEmit"}

Handler == [pc: PCs, tab: Tabs \cup {None}, id: Nat, row: User \cup {NoRow},
            email: Emails \cup {None}, password: Passwords \cup {Unset}, token: Nat,
            block: {"keep", "yes", "no"}, retried: BOOLEAN]

\* The slots that hold a row they will save, and those about to open a session for one.
Holding == {"LoginSave", "LoginReply", "RegisterSave", "RegisterReply", "LogoutSave"}
SigningIn == {"LoginSave", "LoginReply", "RegisterSave", "RegisterReply"}

\* What a slot remembers is of a row whose id was given out; a new row is not blocked.
Slot(r) ==
    /\ req[r].pc \in Holding => req[r].row \in User /\ req[r].id \in 1 .. lastId
    /\ req[r].pc \in {"UpdateFind", "UpdateWrite", "BlockEmit"} => req[r].id \in 1 .. lastId
    /\ req[r].pc \in {"RegisterFind", "RegisterInsert"} =>
          req[r].email \in Emails /\ req[r].password \in Passwords
    /\ req[r].pc \in {"RegisterSave", "RegisterReply"} => ~req[r].row.blocked

UniqueEmails == \A i, j \in DOMAIN users : users[i].email = users[j].email => i = j

RowsOK == DOMAIN users \subseteq 1 .. lastId /\ \A i \in DOMAIN users : users[i] \in User

TabsOK ==
    /\ tabs \in [Tabs -> Tab] /\ events \in [Tabs -> SUBSET Ids]
    /\ \A c \in Tabs : tabs[c].user \in tabs[c].heard \cup {0} /\ IsFiniteSet(tabs[c].heard)

IInv ==
    /\ UniqueEmails /\ RowsOK /\ TabsOK
    /\ lastId \in Ids /\ minted \in Nat
    /\ req \in [Requests -> Handler]
    /\ \A r \in Requests : Slot(r)

-----------------------------------------------------------------------------
(* The statements of a slot, one after the other. *)

LEMMA HandlerOf ==
  ASSUME IInv, NEW r \in Requests
  PROVE  req[r] \in Handler /\ Slot(r)
BY DEF IInv

LEMMA IdleHandler ==
  Idle \in Handler /\ Idle.pc = "idle" /\ Idle.tab = None /\ NoRow.email = None
BY DEF Idle, Handler, PCs, NoRow

\* The next statement of a slot, with the row or the token it remembers for it.
LEMMA ThenFields ==
  ASSUME IInv, NEW r \in Requests, NEW s \in PCs
  PROVE  /\ Then(r, s) \in Handler /\ Then(r, s).pc = s
         /\ Then(r, s).tab = req[r].tab /\ Then(r, s).id = req[r].id
         /\ Then(r, s).row = req[r].row /\ Then(r, s).email = req[r].email
         /\ Then(r, s).password = req[r].password /\ Then(r, s).token = req[r].token
         /\ Then(r, s).block = req[r].block
BY HandlerOf DEF Then, Handler

LEMMA TokenFields ==
  ASSUME NEW h \in Handler, NEW token \in Nat
  PROVE  LET g == [h EXCEPT !.token = token]
         IN  /\ g \in Handler /\ g.pc = h.pc /\ g.tab = h.tab /\ g.id = h.id
             /\ g.row = h.row /\ g.token = token
BY DEF Handler

\* A statement is taken from its place.
LEMMA Place ==
  ASSUME NEW r \in Requests
  PROVE  /\ SaveRefused(r) => req[r].pc \in {"LoginSave", "RegisterSave", "LogoutSave"}
         /\ LoginFind(r) => At(r, "LoginFind")
         /\ LoginSave(r) => At(r, "LoginSave")
         /\ LoginReply(r) => At(r, "LoginReply")
         /\ RefreshNone(r) => At(r, "Refresh")
         /\ Refresh(r) => At(r, "Refresh")
         /\ RegisterFind(r) => At(r, "RegisterFind")
         /\ RegisterInsert(r) => At(r, "RegisterInsert")
         /\ RegisterSave(r) => At(r, "RegisterSave")
         /\ RegisterReply(r) => At(r, "RegisterReply")
         /\ LogoutFind(r) => At(r, "LogoutFind")
         /\ LogoutSave(r) => At(r, "LogoutSave")
         /\ LogoutReply(r) => At(r, "LogoutReply")
         /\ UpdateFind(r) => At(r, "UpdateFind")
         /\ UpdateWrite(r) => At(r, "UpdateWrite")
         /\ UpdateRefused(r) => At(r, "UpdateWrite")
         /\ BlockEmit(r) => At(r, "BlockEmit")
BY DEF SaveRefused, LoginFind, LoginSave, LoginReply, RefreshNone, Refresh, RegisterFind,
       RegisterInsert, RegisterSave, RegisterReply, LogoutFind, LogoutSave, LogoutReply,
       UpdateFind, UpdateWrite, UpdateRefused, BlockEmit, Read, At

\* A request begins with nothing remembered but what was typed.
LEMMA AcceptFlow ==
  ASSUME IInv, NEW r \in Requests, Accept(r)
  PROVE  /\ UNCHANGED <<users, lastId, minted, tabs, events>>
         /\ At(r, "idle") /\ \A q \in Requests \ {r} : req'[q] = req[q]
         /\ req'[r] \in Handler /\ Slot(r)'
         /\ req'[r].pc \in {"LoginFind", "RegisterFind", "LogoutFind", "UpdateFind"}
         /\ At(r, "LogoutFind")' => req'[r].token # 0 /\ \E c \in Tabs : req'[r].token = tabs[c].token
<1> USE DEF IInv
<1>1. ASSUME NEW call, NEW h, Request(r, call, h)
      PROVE  /\ UNCHANGED <<users, lastId, minted, tabs, events>>
             /\ At(r, "idle") /\ req'[r] = h /\ \A q \in Requests \ {r} : req'[q] = req[q]
  BY <1>1, IdleHandler DEF Request, Go, At
<1>2. 1 .. lastId \subseteq Nat /\ \A c \in Tabs : tabs[c].token \in Nat
  BY DEF TabsOK, Tab, Ids
<1>3. CASE LoginAccept(r)
  <2>1. PICK c \in Tabs, typed \in LoginForm :
          Request(r, "login", [Idle EXCEPT !.pc = "LoginFind", !.tab = c,
                                           !.email = typed.email, !.password = typed.password])
    BY <1>3 DEF LoginAccept
  <2> DEFINE h == [Idle EXCEPT !.pc = "LoginFind", !.tab = c,
                               !.email = typed.email, !.password = typed.password]
  <2>2. h \in Handler /\ h.pc = "LoginFind"
    BY IdleHandler DEF Handler, PCs, LoginForm
  <2> HIDE DEF h
  <2>3. Request(r, "login", h)
    BY <2>1 DEF h
  <2> QED
    BY <1>1, <2>2, <2>3 DEF Slot, At, Holding
<1>4. CASE RegisterAccept(r)
  <2>1. PICK c \in Tabs, typed \in RegisterForm :
          Request(r, "register", [Idle EXCEPT !.pc = "RegisterFind", !.tab = c,
                                              !.email = typed.email, !.password = typed.password])
    BY <1>4 DEF RegisterAccept
  <2> DEFINE h == [Idle EXCEPT !.pc = "RegisterFind", !.tab = c,
                               !.email = typed.email, !.password = typed.password]
  <2>2. h \in Handler /\ h.pc = "RegisterFind" /\ h.email \in Emails /\ h.password \in Passwords
    BY IdleHandler DEF Handler, PCs, RegisterForm
  <2> HIDE DEF h
  <2>3. Request(r, "register", h)
    BY <2>1 DEF h
  <2> QED
    BY <1>1, <2>2, <2>3 DEF Slot, At, Holding
<1>5. CASE LogoutAccept(r)
  <2>1. PICK c \in Tabs : tabs[c].token # 0 /\
          Request(r, "logout", [Idle EXCEPT !.pc = "LogoutFind", !.tab = c, !.token = tabs[c].token])
    BY <1>5 DEF LogoutAccept
  <2> DEFINE h == [Idle EXCEPT !.pc = "LogoutFind", !.tab = c, !.token = tabs[c].token]
  <2>2. h \in Handler /\ h.pc = "LogoutFind" /\ h.token = tabs[c].token
    BY <1>2, IdleHandler DEF Handler, PCs
  <2> HIDE DEF h
  <2>3. Request(r, "logout", h)
    BY <2>1 DEF h
  <2> QED
    BY <1>1, <2>1, <2>2, <2>3 DEF Slot, At, Holding
<1>6. CASE EditAccept(r)
  <2>1. PICK i \in 1 .. lastId, typed \in ProfileForm \cup StaffForm :
          Request(r, "edit", [Idle EXCEPT !.pc = "UpdateFind", !.id = i,
                                          !.email = typed.email, !.password = typed.password])
    BY <1>6 DEF EditAccept
  <2> DEFINE h == [Idle EXCEPT !.pc = "UpdateFind", !.id = i,
                               !.email = typed.email, !.password = typed.password]
  <2>2. typed.email \in Emails /\ typed.password \in Passwords \cup {Unset}
    BY DEF ProfileForm, StaffForm
  <2>3. h \in Handler /\ h.pc = "UpdateFind" /\ h.id = i
    BY <1>2, <2>2, IdleHandler DEF Handler, PCs
  <2> HIDE DEF h
  <2>4. Request(r, "edit", h)
    BY <2>1 DEF h
  <2> QED
    BY <1>1, <2>3, <2>4 DEF Slot, At, Holding
<1>7. CASE BlockAccept(r)
  <2>1. PICK i \in 1 .. lastId, block \in {"yes", "no"} :
          Request(r, "block", [Idle EXCEPT !.pc = "UpdateFind", !.id = i, !.block = block])
    BY <1>7 DEF BlockAccept
  <2> DEFINE h == [Idle EXCEPT !.pc = "UpdateFind", !.id = i, !.block = block]
  <2>2. h \in Handler /\ h.pc = "UpdateFind" /\ h.id = i
    BY <1>2, IdleHandler DEF Handler, PCs
  <2> HIDE DEF h
  <2>3. Request(r, "block", h)
    BY <2>1 DEF h
  <2> QED
    BY <1>1, <2>2, <2>3 DEF Slot, At, Holding
<1> QED
  BY <1>3, <1>4, <1>5, <1>6, <1>7 DEF Accept

\* What follows an update is told to everybody if it blocks.
LEMMA ToldFields ==
  ASSUME IInv, NEW r \in Requests
  PROVE  /\ Told(r) \in Handler
         /\ Told(r).pc = "idle" \/ (Told(r).pc = "BlockEmit" /\ req[r].block = "yes")
         /\ Told(r).pc = "BlockEmit" => Told(r).id = req[r].id
<1>1. [Idle EXCEPT !.pc = "BlockEmit", !.id = req[r].id] \in Handler
  BY HandlerOf, IdleHandler DEF Handler, PCs
<1> QED
  BY <1>1, IdleHandler DEF Told, Handler

LEMMA RefusedFields ==
  ASSUME IInv, NEW r \in Requests
  PROVE  Refused(r) \in Handler /\ Refused(r).pc \in {"idle", "Refresh"}
BY IdleHandler, ThenFields DEF Refused, PCs

\* Where a slot goes on to, and what it takes along.
Follows(r) ==
    /\ req'[r].pc \notin {"RegisterFind", "LogoutFind", "UpdateFind"}
    /\ At(r, "LoginSave")' =>
          At(r, "LoginFind") /\ req'[r].id \in DOMAIN users /\ req'[r].row = users[req'[r].id]
    /\ At(r, "LoginReply")' =>
          At(r, "LoginSave") /\ req'[r].id = req[r].id /\ req'[r].row = req[r].row
    /\ At(r, "RegisterInsert")' =>
          /\ At(r, "RegisterFind")
          /\ req'[r].email = req[r].email /\ req'[r].password = req[r].password
    /\ At(r, "RegisterSave")' =>
          /\ At(r, "RegisterInsert") /\ lastId' = lastId + 1 /\ req'[r].id = lastId'
          /\ WithEmail(req[r].email) = {}
          /\ req'[r].row = [email |-> req[r].email, password |-> req[r].password, token |-> 0,
                            blocked |-> FALSE, others |-> 0]
    /\ At(r, "RegisterReply")' =>
          At(r, "RegisterSave") /\ req'[r].id = req[r].id /\ req'[r].row = req[r].row
    /\ At(r, "LogoutSave")' =>
          /\ At(r, "LogoutFind") /\ req'[r].token = req[r].token
          /\ req'[r].id \in WithToken(req[r].token) /\ req'[r].row = users[req'[r].id]
    /\ At(r, "LogoutReply")' =>
          /\ req'[r].token = req[r].token
          /\ At(r, "LogoutSave") \/ (At(r, "LogoutFind") /\ WithToken(req[r].token) = {})
    /\ At(r, "UpdateWrite")' => At(r, "UpdateFind") /\ req'[r].id = req[r].id
    /\ At(r, "BlockEmit")' =>
          /\ req[r].pc \in {"UpdateFind", "UpdateWrite"}
          /\ req'[r].id = req[r].id /\ req[r].block = "yes"

LEMMA NowhereFollows ==
  ASSUME NEW r \in Requests, req'[r].pc \in {"idle", "Refresh", "LoginFind"}
  PROVE  Follows(r)
BY DEF Follows, At

LEMMA HandleFlow ==
  ASSUME IInv, NEW r \in Requests, Handle(r)
  PROVE  /\ \A q \in Requests \ {r} : req'[q] = req[q]
         /\ req'[r] \in Handler /\ Follows(r)
<1> USE DEF IInv
<1>1. ASSUME NEW h, Go(r, h)
      PROVE  req'[r] = h /\ \A q \in Requests \ {r} : req'[q] = req[q]
  BY <1>1 DEF Go
<1>2. ASSUME NEW s, NEW h, Read(r, s, h)
      PROVE  /\ At(r, s) /\ req'[r] = h /\ \A q \in Requests \ {r} : req'[q] = req[q]
  BY <1>1, <1>2 DEF Read
<1>3. DOMAIN users \subseteq Nat /\ \A i \in DOMAIN users : users[i] \in User
  BY DEF RowsOK, Ids
<1>4. CASE SaveRefused(r)
  <2>1. PICK s : Read(r, s, Refused(r)) \/ Read(r, s, Idle)
    BY <1>4 DEF SaveRefused
  <2> QED
    BY <1>2, <2>1, RefusedFields, IdleHandler, NowhereFollows
<1>5. CASE LoginFind(r)
  <2>1. CASE Read(r, "LoginFind", Refused(r))
    BY <1>2, <2>1, RefusedFields, NowhereFollows
  <2>2. ASSUME NEW i \in WithEmail(req[r].email),
               Read(r, "LoginFind", [Then(r, "LoginSave") EXCEPT !.id = i, !.row = users[i]])
        PROVE  /\ \A q \in Requests \ {r} : req'[q] = req[q]
               /\ req'[r] \in Handler /\ Follows(r)
    <3> DEFINE h == [Then(r, "LoginSave") EXCEPT !.id = i, !.row = users[i]]
    <3>1. i \in DOMAIN users
      BY DEF WithEmail
    <3>2. Then(r, "LoginSave") \in Handler /\ Then(r, "LoginSave").pc = "LoginSave"
      BY ThenFields DEF PCs
    <3>3. h \in Handler /\ h.pc = "LoginSave" /\ h.id = i /\ h.row = users[i]
      BY <1>3, <3>1, <3>2 DEF Handler
    <3> HIDE DEF h
    <3>4. Read(r, "LoginFind", h)
      BY <2>2 DEF h
    <3> QED
      BY <1>2, <3>1, <3>3, <3>4 DEF Follows, At
  <2> QED
    BY <1>5, <2>1, <2>2 DEF LoginFind
<1>6. CASE LoginSave(r)
  <2> DEFINE h == [Then(r, "LoginReply") EXCEPT !.token = minted']
  <2>1. minted' \in Nat
    BY <1>6 DEF LoginSave, Mint
  <2>2. h \in Handler /\ h.pc = "LoginReply" /\ h.id = req[r].id /\ h.row = req[r].row
    BY <2>1, ThenFields, TokenFields DEF PCs
  <2> HIDE DEF h
  <2>3. Go(r, h)
    BY <1>6 DEF LoginSave, h
  <2> QED
    BY <1>1, <1>6, <2>2, <2>3, Place DEF Follows, At
<1>7. CASE LoginReply(r) \/ RefreshNone(r) \/ RegisterReply(r) \/ LogoutReply(r) \/ BlockEmit(r)
  <2>1. Go(r, Idle)
    BY <1>7 DEF LoginReply, RefreshNone, RegisterReply, LogoutReply, BlockEmit
  <2> QED
    BY <1>1, <2>1, IdleHandler, NowhereFollows
<1>8. CASE Refresh(r)
  <2> DEFINE h == [Then(r, "LoginFind") EXCEPT !.retried = TRUE]
  <2>1. Then(r, "LoginFind") \in Handler /\ Then(r, "LoginFind").pc = "LoginFind"
    BY ThenFields DEF PCs
  <2>2. h \in Handler /\ h.pc = "LoginFind"
    BY <2>1 DEF Handler
  <2> HIDE DEF h
  <2>3. Read(r, "Refresh", h)
    BY <1>8 DEF Refresh, h
  <2> QED
    BY <1>2, <2>2, <2>3, NowhereFollows
<1>9. CASE RegisterFind(r)
  <2>1. CASE Read(r, "RegisterFind", Idle)
    BY <1>2, <2>1, IdleHandler, NowhereFollows
  <2>2. CASE Read(r, "RegisterFind", Then(r, "RegisterInsert"))
    <3> DEFINE h == Then(r, "RegisterInsert")
    <3>1. h \in Handler /\ h.pc = "RegisterInsert" /\ h.email = req[r].email /\ h.password = req[r].password
      BY ThenFields DEF PCs
    <3> HIDE DEF h
    <3>2. Read(r, "RegisterFind", h)
      BY <2>2 DEF h
    <3> QED
      BY <1>2, <3>1, <3>2 DEF Follows, At
  <2> QED
    BY <1>9, <2>1, <2>2 DEF RegisterFind
<1>10. CASE RegisterInsert(r)
  <2> DEFINE row == [email |-> req[r].email, password |-> req[r].password, token |-> 0,
                     blocked |-> FALSE, others |-> 0]
             h == [Then(r, "RegisterSave") EXCEPT !.id = lastId', !.row = row]
  <2>1. req[r].email \in Emails /\ req[r].password \in Passwords /\ At(r, "RegisterInsert")
    BY <1>10, Place, HandlerOf DEF Slot, At
  <2>2. row \in User /\ lastId' = lastId + 1 /\ lastId' \in Nat
    BY <1>10, <2>1 DEF User, RegisterInsert, Ids
  <2> HIDE DEF row
  <2>3. Then(r, "RegisterSave") \in Handler /\ Then(r, "RegisterSave").pc = "RegisterSave"
    BY ThenFields DEF PCs
  <2>4. h \in Handler /\ h.pc = "RegisterSave" /\ h.id = lastId' /\ h.row = row
    BY <2>2, <2>3 DEF Handler
  <2> HIDE DEF h
  <2>5. (WithEmail(req[r].email) = {} /\ Go(r, h)) \/ Go(r, Idle)
    BY <1>10 DEF RegisterInsert, h, row
  <2>6. CASE WithEmail(req[r].email) = {} /\ Go(r, h)
    BY <1>1, <2>1, <2>2, <2>4, <2>6 DEF Follows, At, row
  <2>7. CASE Go(r, Idle)
    BY <1>1, <2>7, IdleHandler, NowhereFollows
  <2> QED
    BY <2>5, <2>6, <2>7
<1>11. CASE RegisterSave(r)
  <2> DEFINE h == [Then(r, "RegisterReply") EXCEPT !.token = minted']
  <2>1. minted' \in Nat
    BY <1>11 DEF RegisterSave, Mint
  <2>2. h \in Handler /\ h.pc = "RegisterReply" /\ h.id = req[r].id /\ h.row = req[r].row
    BY <2>1, ThenFields, TokenFields DEF PCs
  <2> HIDE DEF h
  <2>3. Go(r, h)
    BY <1>11 DEF RegisterSave, h
  <2> QED
    BY <1>1, <1>11, <2>2, <2>3, Place DEF Follows, At
<1>12. CASE LogoutFind(r)
  <2>1. CASE WithToken(req[r].token) = {} /\ Read(r, "LogoutFind", Then(r, "LogoutReply"))
    <3> DEFINE h == Then(r, "LogoutReply")
    <3>1. h \in Handler /\ h.pc = "LogoutReply" /\ h.token = req[r].token
      BY ThenFields DEF PCs
    <3> HIDE DEF h
    <3>2. Read(r, "LogoutFind", h)
      BY <2>1 DEF h
    <3> QED
      BY <1>2, <2>1, <3>1, <3>2 DEF Follows, At
  <2>2. ASSUME NEW i \in WithToken(req[r].token),
               Read(r, "LogoutFind", [Then(r, "LogoutSave") EXCEPT !.id = i, !.row = users[i]])
        PROVE  /\ \A q \in Requests \ {r} : req'[q] = req[q]
               /\ req'[r] \in Handler /\ Follows(r)
    <3> DEFINE h == [Then(r, "LogoutSave") EXCEPT !.id = i, !.row = users[i]]
    <3>1. i \in DOMAIN users
      BY DEF WithToken
    <3>2. /\ Then(r, "LogoutSave") \in Handler /\ Then(r, "LogoutSave").pc = "LogoutSave"
          /\ Then(r, "LogoutSave").token = req[r].token
      BY ThenFields DEF PCs
    <3>3. /\ h \in Handler /\ h.pc = "LogoutSave" /\ h.id = i /\ h.row = users[i]
          /\ h.token = req[r].token
      BY <1>3, <3>1, <3>2 DEF Handler
    <3> HIDE DEF h
    <3>4. Read(r, "LogoutFind", h)
      BY <2>2 DEF h
    <3> QED
      BY <1>2, <3>1, <3>3, <3>4 DEF Follows, At
  <2> QED
    BY <1>12, <2>1, <2>2 DEF LogoutFind
<1>13. CASE LogoutSave(r)
  <2> DEFINE h == Then(r, "LogoutReply")
  <2>1. h \in Handler /\ h.pc = "LogoutReply" /\ h.token = req[r].token
    BY ThenFields DEF PCs
  <2> HIDE DEF h
  <2>2. Go(r, h)
    BY <1>13 DEF LogoutSave, h
  <2> QED
    BY <1>1, <1>13, <2>1, <2>2, Place DEF Follows, At
<1>14. CASE UpdateFind(r)
  <2>1. CASE Read(r, "UpdateFind", Told(r))
    BY <1>2, <2>1, ToldFields DEF Follows, At
  <2>2. CASE req[r].id \in DOMAIN users
             /\ Read(r, "UpdateFind", [Then(r, "UpdateWrite") EXCEPT !.row = users[req[r].id]])
    <3> DEFINE h == [Then(r, "UpdateWrite") EXCEPT !.row = users[req[r].id]]
    <3>1. Then(r, "UpdateWrite") \in Handler /\ Then(r, "UpdateWrite").pc = "UpdateWrite"
          /\ Then(r, "UpdateWrite").id = req[r].id
      BY ThenFields DEF PCs
    <3>2. h \in Handler /\ h.pc = "UpdateWrite" /\ h.id = req[r].id
      BY <1>3, <2>2, <3>1 DEF Handler
    <3> HIDE DEF h
    <3>3. Read(r, "UpdateFind", h)
      BY <2>2 DEF h
    <3> QED
      BY <1>2, <3>2, <3>3 DEF Follows, At
  <2> QED
    BY <1>14, <2>1, <2>2 DEF UpdateFind
<1>15. CASE UpdateWrite(r)
  <2>1. Go(r, Told(r)) /\ At(r, "UpdateWrite")
    BY <1>15 DEF UpdateWrite
  <2> QED
    BY <1>1, <2>1, ToldFields DEF Follows, At
<1>16. CASE UpdateRefused(r)
  BY <1>2, <1>16, IdleHandler, NowhereFollows DEF UpdateRefused
<1> QED
  BY <1>4, <1>5, <1>6, <1>7, <1>8, <1>9, <1>10, <1>11, <1>12, <1>13, <1>14, <1>15, <1>16 DEF Handle

\* The tables that a statement leaves alone.
LEMMA HandleStill ==
  ASSUME NEW r \in Requests, Handle(r)
  PROVE  /\ req[r].pc \notin {"LoginSave", "RegisterInsert", "RegisterSave", "LogoutSave",
                              "UpdateWrite"} => users' = users
         /\ req[r].pc # "RegisterInsert" => lastId' = lastId
         /\ req[r].pc \notin {"LoginSave", "RegisterSave"} => minted' = minted
         /\ req[r].pc \notin {"LoginReply", "Refresh", "RegisterReply", "LogoutReply"} => tabs' = tabs
         /\ req[r].pc # "BlockEmit" => events' = events
<1>1. CASE SaveRefused(r) \/ LoginFind(r) \/ Refresh(r) \/ RegisterFind(r) \/ LogoutFind(r)
           \/ UpdateFind(r) \/ UpdateRefused(r)
  BY <1>1 DEF SaveRefused, LoginFind, Refresh, RegisterFind, LogoutFind, UpdateFind,
              UpdateRefused, Read
<1>2. CASE LoginSave(r) \/ RegisterSave(r) \/ LogoutSave(r) \/ UpdateWrite(r)
  BY <1>2 DEF LoginSave, RegisterSave, LogoutSave, UpdateWrite, At
<1>3. CASE RegisterInsert(r)
  BY <1>3 DEF RegisterInsert, At
<1>4. CASE LoginReply(r) \/ RefreshNone(r) \/ RegisterReply(r) \/ LogoutReply(r) \/ BlockEmit(r)
  BY <1>4 DEF LoginReply, RefreshNone, RegisterReply, LogoutReply, BlockEmit, At
<1> QED
  BY <1>1, <1>2, <1>3, <1>4 DEF Handle

-----------------------------------------------------------------------------
(* What is written to the rows. *)

\* A row that is saved, when no other has its email.
LEMMA SavedRows ==
  ASSUME IInv, NEW id \in Nat, NEW row \in User, users' = Saved(id, row),
         WithEmail(row.email) \ {id} = {}, lastId' \in Ids, lastId <= lastId', id \in 1 .. lastId'
  PROVE  UniqueEmails' /\ RowsOK'
<1> USE DEF IInv
<1>1. DOMAIN users' = DOMAIN users \cup {id} /\ users'[id] = row
  BY DEF Saved
<1>2. \A i \in DOMAIN users \ {id} : users'[i] = users[i] /\ users[i].email # row.email
  BY DEF Saved, WithEmail
<1>3. UniqueEmails'
  BY <1>1, <1>2 DEF UniqueEmails
<1>4. 1 .. lastId \subseteq 1 .. lastId'
  BY DEF Ids
<1>5. RowsOK'
  BY <1>1, <1>2, <1>4 DEF RowsOK
<1> QED
  BY <1>3, <1>5

\* The three saves: the remembered row, with a token of its own.
LEMMA SaveRow ==
  ASSUME IInv, NEW r \in Requests, LoginSave(r) \/ RegisterSave(r) \/ LogoutSave(r)
  PROVE  \E new \in User :
            /\ users' = Saved(req[r].id, new) /\ WithEmail(new.email) \ {req[r].id} = {}
            /\ req[r].row \in User /\ req[r].id \in 1 .. lastId /\ lastId' = lastId
            /\ new.email = req[r].row.email /\ new.password = req[r].row.password
            /\ new.blocked = req[r].row.blocked /\ new.others = req[r].row.others
            /\ LoginSave(r) \/ RegisterSave(r) => new.token = minted' /\ Mint
            /\ LogoutSave(r) => new.token = 0 /\ minted' = minted
<1>1. req[r].row \in User /\ req[r].id \in 1 .. lastId
  BY HandlerOf, Place DEF Slot, Holding, At
<1>2. WithEmail(req[r].row.email) \ {req[r].id} = {} /\ lastId' = lastId
  BY DEF LoginSave, RegisterSave, LogoutSave, Conflict, Taken
<1>3. CASE LoginSave(r) \/ RegisterSave(r)
  <2> DEFINE new == [req[r].row EXCEPT !.token = minted']
  <2>1. users' = Saved(req[r].id, new) /\ Mint
    BY <1>3 DEF LoginSave, RegisterSave
  <2>2. minted' \in Nat
    BY <2>1 DEF Mint, IInv
  <2>3. /\ new \in User /\ new.token = minted' /\ new.email = req[r].row.email
        /\ new.password = req[r].row.password /\ new.blocked = req[r].row.blocked
        /\ new.others = req[r].row.others
    BY <1>1, <2>2 DEF User
  <2>4. ~LogoutSave(r)
    BY <1>3, Place DEF At
  <2> HIDE DEF new
  <2> QED
    BY <1>1, <1>2, <2>1, <2>3, <2>4
<1>4. CASE LogoutSave(r)
  <2> DEFINE new == [req[r].row EXCEPT !.token = 0]
  <2>1. users' = Saved(req[r].id, new) /\ minted' = minted
    BY <1>4 DEF LogoutSave
  <2>2. /\ new \in User /\ new.token = 0 /\ new.email = req[r].row.email
        /\ new.password = req[r].row.password /\ new.blocked = req[r].row.blocked
        /\ new.others = req[r].row.others
    BY <1>1 DEF User
  <2>3. ~LoginSave(r) /\ ~RegisterSave(r)
    BY <1>4, Place DEF At
  <2> HIDE DEF new
  <2> QED
    BY <1>1, <1>2, <2>1, <2>2, <2>3
<1> QED
  BY <1>3, <1>4

\* A row that is registered has an id of its own.
LEMMA InsertRow ==
  ASSUME IInv, NEW r \in Requests, RegisterInsert(r)
  PROVE  /\ lastId' = lastId + 1 /\ lastId + 1 \notin DOMAIN users
         /\ \/ users' = users
            \/ \E new \in User :
                  /\ users' = Saved(lastId', new) /\ WithEmail(new.email) = {}
                  /\ new.password \in Passwords /\ ~new.blocked /\ new.token = 0
<1>1. lastId' = lastId + 1 /\ lastId + 1 \notin DOMAIN users
  BY DEF RegisterInsert, IInv, RowsOK, Ids
<1> DEFINE new == [email |-> req[r].email, password |-> req[r].password, token |-> 0,
                   blocked |-> FALSE, others |-> 0]
<1>2. req[r].email \in Emails /\ req[r].password \in Passwords
  BY HandlerOf, Place DEF Slot, At
<1>3. /\ new \in User /\ new.email = req[r].email /\ new.password \in Passwords
      /\ ~new.blocked /\ new.token = 0
  BY <1>2 DEF User
<1>4. \/ users' = users
      \/ users' = Saved(lastId', new) /\ WithEmail(req[r].email) = {}
  BY DEF RegisterInsert
<1> HIDE DEF new
<1> QED
  BY <1>1, <1>3, <1>4

\* An edit of the row that is there, or of none.
LEMMA EditRow ==
  ASSUME IInv, NEW r \in Requests, UpdateWrite(r)
  PROVE  /\ DOMAIN users' = DOMAIN users /\ lastId' = lastId /\ minted' = minted
         /\ \A i \in DOMAIN users : i # req[r].id => users'[i] = users[i]
         /\ \A i \in DOMAIN users : i = req[r].id =>
               /\ users'[i] \in User
               /\ users'[i].token = users[i].token /\ users'[i].others = users[i].others
               /\ users'[i].password = req[r].password
               /\ users'[i].blocked => users[i].blocked \/ req[r].block = "yes"
               /\ \A j \in DOMAIN users \ {i} : users'[i].email # users[j].email
<1> USE DEF IInv
<1>1. /\ users' = [i \in DOMAIN users |-> IF i = req[r].id THEN Edited(users[i], req[r]) ELSE users[i]]
      /\ lastId' = lastId /\ minted' = minted /\ ~Clash(req[r])
  BY DEF UpdateWrite
<1>2. ASSUME NEW i \in DOMAIN users, i = req[r].id
      PROVE  /\ users'[i] \in User
             /\ users'[i].token = users[i].token /\ users'[i].others = users[i].others
             /\ users'[i].password = req[r].password
             /\ users'[i].blocked => users[i].blocked \/ req[r].block = "yes"
             /\ \A j \in DOMAIN users \ {i} : users'[i].email # users[j].email
  <2>1. users'[i] = Edited(users[i], req[r]) /\ users[i] \in User /\ req[r] \in Handler
    BY <1>1, <1>2, HandlerOf DEF RowsOK
  <2> DEFINE h == req[r]
             email == IF h.email = None THEN users[i].email ELSE h.email
             blocked == IF h.block = "keep" THEN users[i].blocked ELSE h.block = "yes"
  <2>2. email \in Emails /\ blocked \in BOOLEAN /\ h.password \in Passwords \cup {Unset}
    BY <2>1 DEF Handler, User
  <2>3. users'[i] = [users[i] EXCEPT !.email = email, !.password = h.password, !.blocked = blocked]
    BY <2>1 DEF Edited
  <2>4. blocked => users[i].blocked \/ h.block = "yes"
    BY <2>1 DEF Handler
  <2>5. \A j \in DOMAIN users \ {i} : email # users[j].email
    BY <1>1, <1>2 DEF Clash, Taken, WithEmail, UniqueEmails
  <2> HIDE DEF email, blocked
  <2>6. /\ users'[i] \in User /\ users'[i].email = email /\ users'[i].blocked = blocked
        /\ users'[i].password = h.password
        /\ users'[i].token = users[i].token /\ users'[i].others = users[i].others
    BY <2>1, <2>2, <2>3 DEF User
  <2> QED
    BY <2>4, <2>5, <2>6
<1> QED
  BY <1>1, <1>2

\* A slot that goes on remembering the same.
LEMMA SlotFrame ==
  ASSUME IInv, NEW q \in Requests, lastId' \in Nat, lastId <= lastId',
         req'[q].pc = req[q].pc, req'[q].id = req[q].id, req'[q].row = req[q].row,
         req'[q].email = req[q].email, req'[q].password = req[q].password
  PROVE  Slot(q)'
<1>1. 1 .. lastId \subseteq 1 .. lastId'
  BY DEF IInv, Ids
<1> QED
  BY <1>1, HandlerOf DEF Slot

\* Every statement keeps the rows in order.
LEMMA HandleRows ==
  ASSUME IInv, NEW r \in Requests, Handle(r)
  PROVE  /\ UniqueEmails' /\ RowsOK' /\ lastId' \in Ids /\ lastId <= lastId' /\ minted' \in Nat
<1> USE DEF IInv
<1>1. lastId \in Nat /\ lastId # 0 /\ lastId <= lastId
  BY DEF Ids
<1>2. CASE LoginSave(r) \/ RegisterSave(r) \/ LogoutSave(r)
  <2>1. PICK new \in User :
          /\ users' = Saved(req[r].id, new) /\ WithEmail(new.email) \ {req[r].id} = {}
          /\ req[r].id \in 1 .. lastId /\ lastId' = lastId
          /\ Mint \/ minted' = minted
    BY <1>2, SaveRow
  <2>2. minted' \in Nat
    BY <2>1 DEF Mint
  <2> QED
    BY <1>1, <2>1, <2>2, SavedRows
<1>3. CASE RegisterInsert(r)
  <2>1. lastId' = lastId + 1 /\ minted' = minted
    BY <1>3, InsertRow DEF RegisterInsert
  <2>2. lastId' \in Ids /\ lastId <= lastId' /\ lastId' \in 1 .. lastId' /\ lastId' \in Nat
    BY <1>1, <2>1 DEF Ids
  <2>3. CASE users' = users
    <3>1. 1 .. lastId \subseteq 1 .. lastId'
      BY <1>1, <2>1
    <3> QED
      BY <2>1, <2>2, <2>3, <3>1 DEF UniqueEmails, RowsOK
  <2>4. CASE \E new \in User : users' = Saved(lastId', new) /\ WithEmail(new.email) = {}
    BY <2>1, <2>2, <2>4, SavedRows
  <2> QED
    BY <1>3, <2>3, <2>4, InsertRow
<1>4. CASE UpdateWrite(r)
  <2>1. /\ DOMAIN users' = DOMAIN users /\ lastId' = lastId /\ minted' = minted
        /\ \A i \in DOMAIN users : i # req[r].id => users'[i] = users[i]
        /\ \A i \in DOMAIN users : i = req[r].id =>
              users'[i] \in User /\ \A j \in DOMAIN users \ {i} : users'[i].email # users[j].email
    BY <1>4, EditRow
  <2>2. UniqueEmails' /\ RowsOK'
    BY <2>1 DEF UniqueEmails, RowsOK
  <2> QED
    BY <1>1, <2>1, <2>2
<1>5. CASE ~LoginSave(r) /\ ~RegisterSave(r) /\ ~LogoutSave(r) /\ ~RegisterInsert(r) /\ ~UpdateWrite(r)
  <2>1. users' = users /\ lastId' = lastId /\ minted' = minted
    BY <1>5 DEF Handle, SaveRefused, LoginFind, Refresh, RegisterFind, LogoutFind, UpdateFind,
                UpdateRefused, Read, LoginReply, RefreshNone, RegisterReply, LogoutReply, BlockEmit
  <2> QED
    BY <1>1, <2>1 DEF UniqueEmails, RowsOK
<1> QED
  BY <1>2, <1>3, <1>4, <1>5

LEMMA HandleSlots ==
  ASSUME IInv, NEW r \in Requests, Handle(r)
  PROVE  req' \in [Requests -> Handler] /\ \A q \in Requests : Slot(q)'
<1> USE DEF IInv
<1>1. /\ \A q \in Requests \ {r} : req'[q] = req[q]
      /\ req'[r] \in Handler /\ Follows(r)
  BY HandleFlow
<1>2. lastId \in Nat /\ lastId' \in Nat /\ lastId <= lastId' /\ lastId' # 0
  BY HandleRows DEF Ids
<1>3. 1 .. lastId \subseteq 1 .. lastId' /\ lastId' \in 1 .. lastId'
  BY <1>2
<1>4. DOMAIN users \subseteq 1 .. lastId /\ \A i \in DOMAIN users : users[i] \in User
  BY DEF RowsOK
<1>5. Slot(r)'
  <2>1. At(r, "RegisterSave")' => req'[r].row \in User /\ ~req'[r].row.blocked
    <3> SUFFICES ASSUME At(r, "RegisterSave")'
                 PROVE  req'[r].row \in User /\ ~req'[r].row.blocked
      OBVIOUS
    <3>1. req[r].email \in Emails /\ req[r].password \in Passwords
      BY <1>1, HandlerOf DEF Follows, Slot, At
    <3> DEFINE row == [email |-> req[r].email, password |-> req[r].password, token |-> 0,
                       blocked |-> FALSE, others |-> 0]
    <3>2. row \in User /\ ~row.blocked
      BY <3>1 DEF User
    <3>3. req'[r].row = row
      BY <1>1 DEF Follows
    <3> HIDE DEF row
    <3> QED
      BY <3>2, <3>3
  <2>2. req'[r].pc \in Holding => req'[r].row \in User /\ req'[r].id \in 1 .. lastId'
    <3>1. CASE At(r, "LoginSave")'
      BY <1>1, <1>3, <1>4, <3>1 DEF Follows
    <3>2. CASE At(r, "LogoutSave")'
      BY <1>1, <1>3, <1>4, <3>2 DEF Follows, WithToken
    <3>3. CASE At(r, "RegisterSave")'
      BY <1>1, <1>3, <2>1, <3>3 DEF Follows
    <3>4. CASE At(r, "LoginReply")' \/ At(r, "RegisterReply")'
      BY <1>1, <1>3, <3>4, HandlerOf DEF Follows, Slot, Holding, At
    <3> QED
      BY <3>1, <3>2, <3>3, <3>4 DEF Holding, At
  <2>3. req'[r].pc \in {"UpdateFind", "UpdateWrite", "BlockEmit"} => req'[r].id \in 1 .. lastId'
    BY <1>1, <1>3, HandlerOf DEF Follows, Slot, At
  <2>4. req'[r].pc \in {"RegisterFind", "RegisterInsert"} =>
          req'[r].email \in Emails /\ req'[r].password \in Passwords
    BY <1>1, HandlerOf DEF Follows, Slot, At
  <2>5. req'[r].pc \in {"RegisterSave", "RegisterReply"} => ~req'[r].row.blocked
    BY <1>1, <2>1, HandlerOf DEF Follows, Slot, At
  <2> QED
    BY <2>2, <2>3, <2>4, <2>5 DEF Slot
<1>6. \A q \in Requests \ {r} : Slot(q)'
  BY <1>1, <1>2, SlotFrame
<1>7. req' \in [Requests -> Handler]
  <2>1. \E h : Go(r, h)
    BY DEF Handle, SaveRefused, LoginFind, LoginSave, LoginReply, RefreshNone, Refresh,
           RegisterFind, RegisterInsert, RegisterSave, RegisterReply, LogoutFind, LogoutSave,
           LogoutReply, UpdateFind, UpdateWrite, UpdateRefused, BlockEmit, Read
  <2> QED
    BY <1>1, <2>1 DEF Go
<1> QED
  BY <1>1, <1>5, <1>6, <1>7

\* A tab that somebody signed in to, or out of, keeps its listeners.
LEMMA SignTabs ==
  ASSUME IInv, NEW id \in Nat, NEW token \in Nat, NEW d,
         \/ tabs' = SignOut(d)
         \/ id \in Ids /\ tabs' = [c \in Tabs |-> IF c = d THEN Signed(tabs[c], id, token) ELSE tabs[c]],
         events' = events
  PROVE  TabsOK'
<1> DEFINE Open(tab) == tab \in Tab /\ tab.user \in tab.heard \cup {0} /\ IsFiniteSet(tab.heard)
<1>1. ASSUME NEW tab, Open(tab) PROVE Open([tab EXCEPT !.user = 0, !.token = 0])
  BY <1>1 DEF Tab
<1>2. ASSUME NEW tab, Open(tab), id \in Ids PROVE Open(Signed(tab, id, token))
  <2> DEFINE heard == tab.heard \cup {id}
             new == [tab EXCEPT !.user = id, !.token = token, !.heard = heard]
  <2>1. IsFiniteSet(heard) /\ id \in heard /\ heard \subseteq Ids \cup {0}
    BY <1>2, FS_AddElement DEF Tab
  <2>2. Signed(tab, id, token) = new
    BY DEF Signed
  <2> HIDE DEF heard
  <2>3. new \in Tab /\ new.user = id /\ new.heard = heard
    BY <1>2, <2>1 DEF Tab
  <2> QED
    BY <2>1, <2>2, <2>3
<1>3. \A c \in Tabs : Open(tabs[c])
  BY DEF IInv, TabsOK
<1>4. CASE tabs' = SignOut(d)
  BY <1>1, <1>3, <1>4 DEF IInv, TabsOK, SignOut
<1>5. CASE id \in Ids /\ tabs' = [c \in Tabs |-> IF c = d THEN Signed(tabs[c], id, token) ELSE tabs[c]]
  <2> HIDE DEF Open
  <2>1. \A c \in Tabs : Open(tabs'[c])
    BY <1>2, <1>3, <1>5
  <2> USE DEF Open
  <2> QED
    BY <1>5, <2>1 DEF IInv, TabsOK
<1> QED
  BY <1>4, <1>5

LEMMA HandleTabs ==
  ASSUME IInv, NEW r \in Requests, Handle(r)
  PROVE  TabsOK'
<1> USE DEF IInv
<1>1. req[r].id \in Nat /\ req[r].token \in Nat
  BY HandlerOf DEF Handler
<1>2. CASE LoginReply(r) \/ RegisterReply(r)
  <2>1. req[r].id \in Ids
    BY <1>2, HandlerOf, Place DEF Slot, Holding, At, Ids
  <2>2. events' = events /\ (tabs' = tabs \/ tabs' = SignIn(req[r]))
    BY <1>2 DEF LoginReply, RegisterReply
  <2>3. CASE tabs' = tabs
    BY <2>2, <2>3 DEF TabsOK
  <2>4. CASE tabs' = SignIn(req[r])
    <3> DEFINE h == req[r]
    <3>1. /\ h.id \in Nat /\ h.token \in Nat /\ h.id \in Ids /\ events' = events
          /\ tabs' = [c \in Tabs |-> IF c = h.tab THEN Signed(tabs[c], h.id, h.token) ELSE tabs[c]]
      BY <1>1, <2>1, <2>2, <2>4 DEF SignIn
    <3> HIDE DEF h
    <3> QED
      BY <3>1, SignTabs
  <2> QED
    BY <2>2, <2>3, <2>4
<1>3. CASE RefreshNone(r) \/ LogoutReply(r)
  <2>1. events' = events /\ tabs' = SignOut(req[r].tab)
    BY <1>3 DEF RefreshNone, LogoutReply
  <2> QED
    BY <1>1, <2>1, SignTabs
<1>4. CASE BlockEmit(r)
  <2>1. req[r].id \in Ids
    BY <1>4, HandlerOf, Place DEF Slot, At, Ids
  <2> QED
    BY <1>4, <2>1 DEF BlockEmit, TabsOK
<1>5. CASE ~LoginReply(r) /\ ~RegisterReply(r) /\ ~RefreshNone(r) /\ ~LogoutReply(r) /\ ~BlockEmit(r)
  <2>1. tabs' = tabs /\ events' = events
    BY <1>5 DEF Handle, SaveRefused, LoginFind, LoginSave, Refresh, RegisterFind, RegisterInsert,
                RegisterSave, LogoutFind, LogoutSave, UpdateFind, UpdateWrite, UpdateRefused, Read
  <2> QED
    BY <2>1 DEF TabsOK
<1> QED
  BY <1>2, <1>3, <1>4, <1>5

\* The requests of a page that goes away lose their tab and nothing else.
LEMMA AbandonFlow ==
  ASSUME IInv, NEW c \in Tabs, Abandon(c)
  PROVE  /\ req' \in [Requests -> Handler]
         /\ \A q \in Requests :
               \/ req'[q] = Idle /\ (At(q, "Refresh") \/ req[q] = Idle)
               \/ /\ req'[q].pc = req[q].pc /\ req'[q].id = req[q].id /\ req'[q].row = req[q].row
                  /\ req'[q].email = req[q].email /\ req'[q].password = req[q].password
                  /\ req'[q].token = req[q].token /\ req'[q].block = req[q].block
<1>1. ASSUME NEW q \in Requests
      PROVE  LET h == [req[q] EXCEPT !.tab = None]
             IN  /\ h \in Handler
                 /\ h.pc = req[q].pc /\ h.id = req[q].id /\ h.row = req[q].row
                 /\ h.email = req[q].email /\ h.password = req[q].password
                 /\ h.token = req[q].token /\ h.block = req[q].block
  BY HandlerOf DEF Handler
<1>2. \A q \in Requests : req'[q] = IF req[q].tab # c THEN req[q]
        ELSE IF At(q, "Refresh") THEN Idle ELSE [req[q] EXCEPT !.tab = None]
  BY DEF Abandon
<1> QED
  BY <1>1, <1>2, HandlerOf, IdleHandler DEF Abandon

LEMMA AbandonSlots ==
  ASSUME IInv, NEW c \in Tabs, Abandon(c), lastId' = lastId
  PROVE  req' \in [Requests -> Handler] /\ \A q \in Requests : Slot(q)'
<1>1. ASSUME NEW q \in Requests PROVE Slot(q)'
  <2>1. CASE req'[q] = Idle
    BY <2>1, IdleHandler DEF Slot, Holding
  <2>2. CASE req'[q] # Idle
    BY <2>2, AbandonFlow, SlotFrame DEF IInv, Ids
  <2> QED
    BY <2>1, <2>2
<1> QED
  BY <1>1, AbandonFlow

\* A page that is loaded listens for its user.
LEMMA LoadedTab ==
  ASSUME NEW user \in Ids \cup {0}, NEW token \in Nat
  PROVE  /\ Loaded(user, token) \in Tab /\ Loaded(user, token).user = user
         /\ Loaded(user, token).heard = {user} /\ Loaded(user, token).token = token
         /\ IsFiniteSet(Loaded(user, token).heard)
<1>1. IsFiniteSet({user})
  BY FS_Singleton
<1> QED
  BY <1>1 DEF Loaded, Tab

LEMMA TabStep ==
  ASSUME IInv, NEW c \in Tabs, Hear(c) \/ Lose(c) \/ Reload(c)
  PROVE  IInv'
<1> USE DEF IInv
<1>1. UNCHANGED <<users, lastId, minted>>
  BY DEF Hear, Lose, Reload
<1>2. UniqueEmails' /\ RowsOK' /\ lastId' \in Ids /\ minted' \in Nat
  BY <1>1 DEF UniqueEmails, RowsOK
<1>3. req' \in [Requests -> Handler] /\ \A q \in Requests : Slot(q)'
  <2>1. CASE Abandon(c)
    BY <1>1, <2>1, AbandonSlots
  <2>2. CASE req' = req
    BY <1>1, <2>2, HandlerOf DEF Slot
  <2> QED
    BY <2>1, <2>2 DEF Hear, Lose, Reload
<1>4. TabsOK'
  <2>1. /\ tabs[c].user \in Ids \cup {0} /\ tabs[c].token \in Nat /\ 0 \in Nat
        /\ 0 \in Ids \cup {0}
    BY DEF TabsOK, Tab
  <2>2. events' \in [Tabs -> SUBSET Ids]
    BY DEF Hear, Lose, Reload, TabsOK
  <2>3. \/ tabs' = tabs
        \/ \E user \in Ids \cup {0}, token \in Nat : tabs' = [tabs EXCEPT ![c] = Loaded(user, token)]
    BY <2>1 DEF Hear, Lose, Reload, Blank
  <2>4. \A d \in Tabs : /\ tabs'[d] \in Tab /\ tabs'[d].user \in tabs'[d].heard \cup {0}
                        /\ IsFiniteSet(tabs'[d].heard)
    BY <2>3, LoadedTab DEF TabsOK
  <2>5. tabs' \in [Tabs -> Tab]
    BY <2>3, <2>4 DEF TabsOK
  <2> QED
    BY <2>2, <2>4, <2>5 DEF TabsOK
<1> QED
  BY <1>2, <1>3, <1>4

LEMMA NextInv == IInv /\ [Next]_vars => IInv'
<1> SUFFICES ASSUME IInv, [Next]_vars PROVE IInv'
  OBVIOUS
<1> USE DEF IInv
<1>1. ASSUME NEW r \in Requests, Accept(r) PROVE IInv'
  <2>1. /\ UNCHANGED <<users, lastId, minted, tabs, events>>
        /\ \A q \in Requests \ {r} : req'[q] = req[q]
        /\ req'[r] \in Handler /\ Slot(r)'
    BY <1>1, AcceptFlow
  <2>2. req' \in [Requests -> Handler]
    <3>1. \E h : Go(r, h)
      BY <1>1 DEF Accept, LoginAccept, RegisterAccept, LogoutAccept, EditAccept, BlockAccept, Request
    <3> QED
      BY <2>1, <3>1 DEF Go
  <2>3. \A q \in Requests \ {r} : Slot(q)'
    BY <2>1, SlotFrame DEF Ids
  <2> QED
    BY <2>1, <2>2, <2>3 DEF UniqueEmails, RowsOK, TabsOK
<1>2. ASSUME NEW r \in Requests, Handle(r) PROVE IInv'
  BY <1>2, HandleRows, HandleSlots, HandleTabs
<1>3. ASSUME NEW c \in Tabs, Hear(c) \/ Lose(c) \/ Reload(c) PROVE IInv'
  BY <1>3, TabStep
<1>4. CASE WriteOther
  <2>1. PICK i \in DOMAIN users : users' = [users EXCEPT ![i].others = @ + 1]
    BY <1>4 DEF WriteOther
  <2>2. users[i] \in User
    BY DEF RowsOK
  <2> DEFINE new == [users[i] EXCEPT !.others = @ + 1]
  <2>3. new \in User /\ new.email = users[i].email
    BY <2>2 DEF User
  <2>4. users' = [users EXCEPT ![i] = new]
    BY <2>1
  <2> HIDE DEF new
  <2>5. UniqueEmails' /\ RowsOK'
    BY <1>4, <2>3, <2>4 DEF UniqueEmails, RowsOK, WriteOther
  <2> QED
    BY <1>4, <2>5 DEF WriteOther, TabsOK, Slot
<1>5. CASE RemoveUser
  BY <1>5 DEF RemoveUser, UniqueEmails, RowsOK, TabsOK, Slot
<1>6. CASE Crash
  BY <1>6, IdleHandler DEF Crash, UniqueEmails, RowsOK, TabsOK, Slot, Holding
<1>7. CASE UNCHANGED vars
  BY <1>7 DEF vars, UniqueEmails, RowsOK, TabsOK, Slot
<1> QED
  BY <1>1, <1>2, <1>3, <1>4, <1>5, <1>6, <1>7 DEF Next

LEMMA InitInv == Init => IInv
<1> SUFFICES ASSUME Init PROVE IInv
  OBVIOUS
<1>1. /\ lastId = 1 /\ minted = 1 /\ events = [c \in Tabs |-> {}]
      /\ req = [r \in Requests |-> Idle]
  BY DEF Init
<1>2. PICK tab \in {Blank, Signed(Blank, 1, 1), Loaded(1, 1)}, blocked \in BOOLEAN :
        /\ tabs = [c \in Tabs |-> IF c = CHOOSE d \in Tabs : TRUE THEN tab ELSE Blank]
        /\ users = [i \in {1} |-> [email |-> CHOOSE e \in Emails : TRUE,
                                   password |-> CHOOSE p \in Passwords : TRUE,
                                   token |-> 1, blocked |-> blocked, others |-> 0]]
  BY DEF Init
<1>3. (CHOOSE e \in Emails : TRUE) \in Emails /\ (CHOOSE p \in Passwords : TRUE) \in Passwords
  BY AccountsAssumption
<1>4. DOMAIN users = {1} /\ users[1] \in User
  BY <1>2, <1>3 DEF User
<1>5. UniqueEmails /\ RowsOK
  BY <1>1, <1>4 DEF UniqueEmails, RowsOK
<1>6. /\ tab \in Tab /\ tab.user \in tab.heard \cup {0} /\ IsFiniteSet(tab.heard)
      /\ Blank \in Tab /\ Blank.user \in Blank.heard \cup {0} /\ IsFiniteSet(Blank.heard)
  <2>1. 0 \in Ids \cup {0} /\ 1 \in Ids \cup {0} /\ 0 \in Nat /\ 1 \in Nat
    BY DEF Ids
  <2>2. /\ Blank \in Tab /\ Blank.user = 0 /\ Blank.heard = {0} /\ IsFiniteSet(Blank.heard)
    BY <2>1, LoadedTab DEF Blank
  <2>3. CASE tab = Signed(Blank, 1, 1)
    <3>1. IsFiniteSet(Blank.heard \cup {1})
      BY <2>2, FS_AddElement
    <3>2. tab = [Blank EXCEPT !.user = 1, !.token = 1, !.heard = Blank.heard \cup {1}]
      BY <2>3 DEF Signed
    <3>3. tab \in Tab /\ tab.user = 1 /\ tab.heard = Blank.heard \cup {1}
      BY <2>1, <2>2, <3>2 DEF Tab
    <3> QED
      BY <2>2, <3>1, <3>3
  <2>4. CASE tab = Loaded(1, 1)
    BY <2>1, <2>2, <2>4, LoadedTab
  <2> QED
    BY <2>2, <2>3, <2>4
<1>7. TabsOK
  BY <1>1, <1>2, <1>6 DEF TabsOK
<1>8. req \in [Requests -> Handler] /\ \A r \in Requests : Slot(r)
  BY <1>1, IdleHandler DEF Slot, Holding
<1> QED
  BY <1>1, <1>5, <1>7, <1>8 DEF IInv, Ids

\* Rows, tabs and slots are of their types and no two users have the same email, for any
\* number of registrations, edits and saves of rows that were removed again.
THEOREM EmailsUnique == Spec => []TypeOK
<1>1. IInv => TypeOK
  BY DEF IInv, TypeOK, UniqueEmails, RowsOK, TabsOK, Handler, Ids
<1> QED
  BY <1>1, InitInv, NextInv, PTL DEF Spec

-----------------------------------------------------------------------------
(* Sessions that are ended. *)

EndStep == ended' = ended \cup {req[r].token : r \in {q \in Requests : LogoutReply(q)}}

DisciplineNext == Next /\ broken' = broken \cup Breaks /\ EndStep

\* No row gets a token that it did not have.
NoNewToken == \A i \in DOMAIN users' :
    users'[i].token = 0 \/ (i \in DOMAIN users /\ users'[i].token = users[i].token)

\* One row gets the token that is minted.
NewToken == \E id \in DOMAIN users' :
    /\ minted' = minted + 1 /\ users'[id].token = minted'
    /\ \A i \in DOMAIN users' \ {id} : i \in DOMAIN users /\ users'[i].token = users[i].token

\* Tokens are minted one after the other, and a row has its own.
TokenState ==
    /\ \A t \in ended : t <= minted
    /\ \A i \in DOMAIN users : users[i].token <= minted
    /\ \A c \in Tabs : tabs[c].token <= minted
    /\ \A r \in Requests : req[r].token <= minted
    /\ \A i, j \in DOMAIN users : users[i].token = users[j].token /\ users[i].token # 0 => i = j

\* A logout under way ends its session in the one row that may have the token.
LogoutSlot(r) ==
    /\ req[r].pc \in {"LogoutFind", "LogoutSave", "LogoutReply"} => req[r].token # 0
    /\ At(r, "LogoutSave") => WithToken(req[r].token) \subseteq {req[r].id}
    /\ At(r, "LogoutReply") => WithToken(req[r].token) = {}

EndedState == \A i \in DOMAIN users : users[i].token \notin ended \ {0}

SessionState == ended \subseteq Nat /\ TokenState /\ EndedState /\ \A r \in Requests : LogoutSlot(r)

SessionInv == Kept({"second"}) => SessionState

\* What a save writes.
LEMMA SavedAs ==
  ASSUME NEW id, NEW new, users' = Saved(id, new)
  PROVE  /\ id \in DOMAIN users' /\ users'[id] = new
         /\ \A i \in DOMAIN users' \ {id} : i \in DOMAIN users /\ users'[i] = users[i]
BY DEF Saved

LEMMA HandleTokens ==
  ASSUME IInv, NEW r \in Requests, Handle(r), NewSecond
  PROVE  (NoNewToken /\ minted' = minted) \/ NewToken
<1> USE DEF IInv
<1>1. CASE LoginSave(r) \/ RegisterSave(r)
  <2>1. PICK new \in User : users' = Saved(req[r].id, new) /\ new.token = minted' /\ Mint
    BY <1>1, SaveRow
  <2>2. minted' = minted + 1
    BY <1>1, <2>1 DEF NewSecond, Mint
  <2> QED
    BY <2>1, <2>2, SavedAs DEF NewToken
<1>2. CASE LogoutSave(r)
  <2>1. PICK new \in User : users' = Saved(req[r].id, new) /\ new.token = 0 /\ minted' = minted
    BY <1>2, SaveRow
  <2> QED
    BY <2>1, SavedAs DEF NoNewToken
<1>3. CASE RegisterInsert(r)
  <2>1. minted' = minted
    BY <1>3 DEF RegisterInsert
  <2>2. CASE users' = users
    BY <2>1, <2>2 DEF NoNewToken
  <2>3. ASSUME NEW new \in User, users' = Saved(lastId', new), new.token = 0
        PROVE  NoNewToken
    BY <2>3, SavedAs DEF NoNewToken
  <2> QED
    BY <1>3, <2>1, <2>2, <2>3, InsertRow
<1>4. CASE UpdateWrite(r)
  BY <1>4, EditRow DEF NoNewToken
<1>5. CASE ~LoginSave(r) /\ ~RegisterSave(r) /\ ~LogoutSave(r) /\ ~RegisterInsert(r) /\ ~UpdateWrite(r)
  <2>1. users' = users /\ minted' = minted
    BY <1>5 DEF Handle, SaveRefused, LoginFind, Refresh, RegisterFind, LogoutFind, UpdateFind,
                UpdateRefused, Read, LoginReply, RefreshNone, RegisterReply, LogoutReply, BlockEmit
  <2> QED
    BY <2>1 DEF NoNewToken
<1> QED
  BY <1>1, <1>2, <1>3, <1>4, <1>5

LEMMA NextTokens ==
  ASSUME IInv, Next, NewSecond
  PROVE  (NoNewToken /\ minted' = minted) \/ NewToken
<1>1. CASE \E r \in Requests : Handle(r)
  BY <1>1, HandleTokens
<1>2. CASE \E r \in Requests : Accept(r)
  BY <1>2, AcceptFlow DEF NoNewToken
<1>3. CASE (\E c \in Tabs : Hear(c) \/ Lose(c) \/ Reload(c)) \/ Crash
  BY <1>3 DEF Hear, Lose, Reload, Crash, NoNewToken
<1>4. CASE RemoveUser
  BY <1>4 DEF RemoveUser, NoNewToken
<1>5. CASE WriteOther
  <2>1. PICK k \in DOMAIN users : users' = [users EXCEPT ![k].others = @ + 1]
    BY <1>5 DEF WriteOther
  <2>2. DOMAIN users' = DOMAIN users /\ \A i \in DOMAIN users : users'[i].token = users[i].token
    BY <2>1 DEF IInv, RowsOK, User
  <2> QED
    BY <1>5, <2>2 DEF WriteOther, NoNewToken
<1> QED
  BY <1>1, <1>2, <1>3, <1>4, <1>5 DEF Next

\* The tokens that slots and tabs take over are some that were minted.
LEMMA HandleHeld ==
  ASSUME IInv, TokenState, NEW r \in Requests, Handle(r), minted <= minted'
  PROVE  /\ \A c \in Tabs : tabs'[c].token <= minted'
         /\ req'[r].token <= minted'
<1> USE DEF IInv
<1>1. /\ minted \in Nat /\ minted' \in Nat
      /\ req[r].token \in Nat /\ req[r].token <= minted'
      /\ \A c \in Tabs : tabs[c] \in Tab /\ tabs[c].token \in Nat /\ tabs[c].token <= minted'
  BY HandleRows, HandlerOf DEF TokenState, TabsOK, Tab, Handler
<1>2. \A c \in Tabs : tabs'[c].token <= minted'
  <2>1. CASE LoginReply(r) \/ RegisterReply(r)
    <3>1. tabs' = tabs \/ tabs' = SignIn(req[r])
      BY <2>1 DEF LoginReply, RegisterReply
    <3>2. ASSUME NEW c \in Tabs PROVE Signed(tabs[c], req[r].id, req[r].token).token = req[r].token
      BY <1>1 DEF Signed, Tab
    <3> QED
      BY <1>1, <3>1, <3>2 DEF SignIn
  <2>2. CASE RefreshNone(r) \/ LogoutReply(r)
    <3>1. tabs' = SignOut(req[r].tab)
      BY <2>2 DEF RefreshNone, LogoutReply
    <3>2. ASSUME NEW c \in Tabs PROVE tabs'[c].token \in {0, tabs[c].token}
      <4>1. CASE c = req[r].tab
        <5>1. tabs'[c] = [tabs[c] EXCEPT !.user = 0, !.token = 0]
          BY <3>1, <4>1 DEF SignOut
        <5> QED
          BY <1>1, <5>1 DEF Tab
      <4>2. CASE c # req[r].tab
        BY <3>1, <4>2 DEF SignOut
      <4> QED
        BY <4>1, <4>2
    <3> QED
      BY <1>1, <3>2
  <2>3. CASE ~LoginReply(r) /\ ~RegisterReply(r) /\ ~RefreshNone(r) /\ ~LogoutReply(r)
    <3>1. tabs' = tabs
      BY <2>3 DEF Handle, SaveRefused, LoginFind, LoginSave, Refresh, RegisterFind, RegisterInsert,
                  RegisterSave, LogoutFind, LogoutSave, UpdateFind, UpdateWrite, UpdateRefused,
                  BlockEmit, Read
    <3> QED
      BY <1>1, <3>1
  <2> QED
    BY <2>1, <2>2, <2>3
<1>3. req'[r].token \in {0, minted', req[r].token}
  <2>1. \A s \in PCs : Then(r, s) \in Handler /\ Then(r, s).token = req[r].token
    BY ThenFields
  <2>2. Idle.token = 0 /\ Told(r).token = 0 /\ Refused(r).token \in {0, req[r].token}
    BY <2>1 DEF Idle, Told, Refused, PCs
  <2>3. req'[r] \in {Idle, Told(r), Refused(r)} \cup {Then(r, s) : s \in PCs}
        \/ (\E s \in PCs, token \in {minted'} : req'[r] = [Then(r, s) EXCEPT !.token = token])
        \/ (\E s \in PCs : \E id, row : req'[r] = [Then(r, s) EXCEPT !.id = id, !.row = row])
        \/ (\E s \in PCs : \E row : req'[r] = [Then(r, s) EXCEPT !.row = row])
        \/ (\E s \in PCs : req'[r] = [Then(r, s) EXCEPT !.retried = TRUE])
    <3>1. \A h : Go(r, h) => req'[r] = h
      BY DEF Go
    <3>2. CASE SaveRefused(r) \/ LoginFind(r) \/ Refresh(r) \/ RegisterFind(r)
      BY <3>1, <3>2 DEF SaveRefused, LoginFind, Refresh, RegisterFind, Read, PCs
    <3>3. CASE LoginSave(r) \/ RegisterSave(r) \/ RegisterInsert(r)
      BY <3>1, <3>3 DEF LoginSave, RegisterSave, RegisterInsert, PCs
    <3>4. CASE LogoutFind(r) \/ LogoutSave(r) \/ UpdateFind(r) \/ UpdateWrite(r) \/ UpdateRefused(r)
      BY <3>1, <3>4 DEF LogoutFind, LogoutSave, UpdateFind, UpdateWrite, UpdateRefused, Read, PCs
    <3>5. CASE LoginReply(r) \/ RefreshNone(r) \/ RegisterReply(r) \/ LogoutReply(r) \/ BlockEmit(r)
      BY <3>1, <3>5 DEF LoginReply, RefreshNone, RegisterReply, LogoutReply, BlockEmit
    <3> QED
      BY <3>2, <3>3, <3>4, <3>5 DEF Handle
  <2>4. ASSUME NEW s \in PCs
        PROVE  /\ [Then(r, s) EXCEPT !.token = minted'].token = minted'
               /\ [Then(r, s) EXCEPT !.retried = TRUE].token = req[r].token
               /\ \A row : [Then(r, s) EXCEPT !.row = row].token = req[r].token
    BY <2>1 DEF Handler
  <2>5. CASE req'[r] \in {Idle, Told(r), Refused(r)} \cup {Then(r, s) : s \in PCs}
    BY <2>1, <2>2, <2>5
  <2>6. CASE \E s \in PCs, token \in {minted'} : req'[r] = [Then(r, s) EXCEPT !.token = token]
    BY <2>4, <2>6
  <2>7. CASE \E s \in PCs : \E id, row : req'[r] = [Then(r, s) EXCEPT !.id = id, !.row = row]
    <3>1. PICK s, id, row : s \in PCs /\ req'[r] = [Then(r, s) EXCEPT !.id = id, !.row = row]
      BY <2>7
    <3>2. [Then(r, s) EXCEPT !.id = id, !.row = row].token = req[r].token
      BY <2>1, <3>1 DEF Handler
    <3> QED
      BY <3>1, <3>2
  <2>8. CASE \E s \in PCs : \E row : req'[r] = [Then(r, s) EXCEPT !.row = row]
    BY <2>4, <2>8
  <2>9. CASE \E s \in PCs : req'[r] = [Then(r, s) EXCEPT !.retried = TRUE]
    BY <2>4, <2>9
  <2> QED
    BY <2>3, <2>5, <2>6, <2>7, <2>8, <2>9
<1> QED
  BY <1>1, <1>2, <1>3

LEMMA NextHeld ==
  ASSUME IInv, TokenState, Next, minted' \in Nat, minted <= minted'
  PROVE  /\ \A c \in Tabs : tabs'[c].token <= minted'
         /\ \A q \in Requests : req'[q].token <= minted'
<1> USE DEF IInv
<1>1. /\ minted \in Nat /\ 0 <= minted' /\ Idle.token = 0 /\ 0 \in Ids \cup {0}
      /\ \A q \in Requests : req[q].token \in Nat /\ req[q].token <= minted'
      /\ \A c \in Tabs : /\ tabs[c].token \in Nat /\ tabs[c].user \in Ids \cup {0}
                         /\ tabs[c].token <= minted'
  BY HandlerOf DEF TokenState, TabsOK, Tab, Handler, Idle
<1>2. ASSUME NEW r \in Requests, Handle(r)
      PROVE  /\ \A c \in Tabs : tabs'[c].token <= minted'
             /\ \A q \in Requests : req'[q].token <= minted'
  BY <1>1, <1>2, HandleHeld, HandleFlow
<1>3. ASSUME NEW r \in Requests, Accept(r)
      PROVE  /\ \A c \in Tabs : tabs'[c].token <= minted'
             /\ \A q \in Requests : req'[q].token <= minted'
  <2>1. Idle.token = 0 /\ Idle \in Handler
    BY IdleHandler DEF Idle
  <2>2. req'[r].token = 0 \/ \E c \in Tabs : req'[r].token = tabs[c].token
    <3>1. \A h : Go(r, h) => req'[r] = h
      BY DEF Go
    <3>2. CASE LoginAccept(r)
      <4>1. PICK c \in Tabs, typed \in LoginForm : req'[r] =
              [Idle EXCEPT !.pc = "LoginFind", !.tab = c, !.email = typed.email, !.password = typed.password]
        BY <3>1, <3>2 DEF LoginAccept, Request
      <4> QED
        BY <4>1 DEF Idle
    <3>3. CASE RegisterAccept(r)
      <4>1. PICK c \in Tabs, typed \in RegisterForm : req'[r] =
              [Idle EXCEPT !.pc = "RegisterFind", !.tab = c, !.email = typed.email, !.password = typed.password]
        BY <3>1, <3>3 DEF RegisterAccept, Request
      <4> QED
        BY <4>1 DEF Idle
    <3>4. CASE LogoutAccept(r)
      <4>1. PICK c \in Tabs : req'[r] =
              [Idle EXCEPT !.pc = "LogoutFind", !.tab = c, !.token = tabs[c].token]
        BY <3>1, <3>4 DEF LogoutAccept, Request
      <4> QED
        BY <4>1 DEF Idle
    <3>5. CASE EditAccept(r)
      <4>1. PICK i \in 1 .. lastId, typed \in ProfileForm \cup StaffForm : req'[r] =
              [Idle EXCEPT !.pc = "UpdateFind", !.id = i, !.email = typed.email, !.password = typed.password]
        BY <3>1, <3>5 DEF EditAccept, Request
      <4> QED
        BY <4>1 DEF Idle
    <3>6. CASE BlockAccept(r)
      <4>1. PICK i \in 1 .. lastId, block \in {"yes", "no"} : req'[r] =
              [Idle EXCEPT !.pc = "UpdateFind", !.id = i, !.block = block]
        BY <3>1, <3>6 DEF BlockAccept, Request
      <4> QED
        BY <4>1 DEF Idle
    <3> QED
      BY <1>3, <3>2, <3>3, <3>4, <3>5, <3>6 DEF Accept
  <2> QED
    BY <1>1, <1>3, <2>2, AcceptFlow
<1>4. ASSUME NEW c \in Tabs, Hear(c) \/ Lose(c) \/ Reload(c)
      PROVE  /\ \A d \in Tabs : tabs'[d].token <= minted'
             /\ \A q \in Requests : req'[q].token <= minted'
  <2>1. \/ tabs' = tabs
        \/ \E user \in Ids \cup {0}, token \in {0, tabs[c].token} :
               tabs' = [tabs EXCEPT ![c] = Loaded(user, token)]
    BY <1>1, <1>4 DEF Hear, Lose, Reload, Blank
  <2>2. \A d \in Tabs : tabs'[d].token \in {0, tabs[c].token, tabs[d].token}
    BY <2>1 DEF Loaded, TabsOK
  <2>3. req' = req \/ Abandon(c)
    BY <1>4 DEF Hear, Lose, Reload
  <2>4. \A q \in Requests : req'[q].token \in {0, req[q].token}
    BY <1>1, <2>3, AbandonFlow
  <2> QED
    BY <1>1, <2>2, <2>4
<1>5. CASE WriteOther \/ RemoveUser \/ Crash
  <2>1. tabs' = tabs /\ \A q \in Requests : req'[q] \in {Idle, req[q]}
    BY <1>5 DEF WriteOther, RemoveUser, Crash
  <2> QED
    BY <1>1, <2>1
<1> QED
  BY <1>2, <1>3, <1>4, <1>5 DEF Next

LEMMA LogoutStep ==
  ASSUME IInv, SessionState, Next, (NoNewToken /\ minted' = minted) \/ NewToken
  PROVE  \A r \in Requests : LogoutSlot(r)'
<1> USE DEF IInv
<1>1. \A q \in Requests : req[q].token \in Nat /\ req[q].token <= minted /\ minted \in Nat
  BY HandlerOf DEF SessionState, TokenState, Handler
<1>2. ASSUME NEW q \in Requests, LogoutSlot(q), req'[q].pc = req[q].pc,
             req'[q].token = req[q].token, req'[q].id = req[q].id
      PROVE  LogoutSlot(q)'
  <2>1. ASSUME req[q].token # 0 PROVE WithToken(req[q].token)' \subseteq WithToken(req[q].token)
    BY <1>1, <1>2, <2>1 DEF WithToken, NoNewToken, NewToken
  <2>2. At(q, "LogoutSave")' => WithToken(req[q].token)' \subseteq {req[q].id}
    BY <1>2, <2>1 DEF LogoutSlot, At
  <2>3. At(q, "LogoutReply")' => WithToken(req[q].token)' = {}
    BY <1>2, <2>1 DEF LogoutSlot, At
  <2> QED
    BY <1>2, <2>2, <2>3 DEF LogoutSlot, At, WithToken
<1>3. ASSUME NEW q \in Requests, req'[q].pc \notin {"LogoutFind", "LogoutSave", "LogoutReply"}
      PROVE  LogoutSlot(q)'
  BY <1>3 DEF LogoutSlot, At
<1>4. ASSUME NEW r \in Requests, Handle(r) PROVE \A q \in Requests : LogoutSlot(q)'
  <2>1. /\ \A q \in Requests \ {r} : req'[q] = req[q]
        /\ req'[r] \in Handler /\ Follows(r)
    BY <1>4, HandleFlow
  <2>2. ASSUME At(r, "LogoutSave")' PROVE LogoutSlot(r)'
    <3>1. /\ At(r, "LogoutFind") /\ req'[r].token = req[r].token
          /\ req'[r].id \in WithToken(req[r].token) /\ req[r].token # 0
      BY <2>1, <2>2 DEF Follows, SessionState, LogoutSlot, At
    <3>2. users' = users
      BY <1>4, <3>1, HandleStill DEF At
    <3>3. WithToken(req[r].token) \subseteq {req'[r].id}
      BY <3>1 DEF SessionState, TokenState, WithToken
    <3> QED
      BY <2>2, <3>1, <3>2, <3>3 DEF LogoutSlot, WithToken, At
  <2>3. ASSUME At(r, "LogoutReply")' PROVE LogoutSlot(r)'
    <3>1. /\ req'[r].token = req[r].token /\ req[r].token # 0
          /\ At(r, "LogoutSave") \/ (At(r, "LogoutFind") /\ WithToken(req[r].token) = {})
      BY <2>1, <2>3 DEF Follows, SessionState, LogoutSlot, At
    <3>2. CASE At(r, "LogoutFind") /\ WithToken(req[r].token) = {}
      <4>1. users' = users
        BY <1>4, <3>2, HandleStill DEF At
      <4> QED
        BY <2>3, <3>1, <3>2, <4>1 DEF LogoutSlot, WithToken, At
    <3>3. CASE At(r, "LogoutSave")
      <4>1. LogoutSave(r)
        <5>1. ~SaveRefused(r)
          BY <2>3, IdleHandler, RefusedFields DEF SaveRefused, Read, Go, At
        <5> QED
          BY <1>4, <3>3, <5>1, Place DEF Handle, At
      <4>2. PICK new \in User : users' = Saved(req[r].id, new) /\ new.token = 0
        BY <4>1, SaveRow
      <4>3. WithToken(req[r].token) \subseteq {req[r].id}
        BY <3>3 DEF SessionState, LogoutSlot
      <4>4. WithToken(req[r].token)' = {}
        BY <3>1, <4>2, <4>3, SavedAs DEF WithToken
      <4> QED
        BY <2>3, <3>1, <4>4 DEF LogoutSlot, WithToken, At
    <3> QED
      BY <3>1, <3>2, <3>3
  <2>4. ASSUME ~At(r, "LogoutSave")', ~At(r, "LogoutReply")' PROVE LogoutSlot(r)'
    BY <1>3, <2>1, <2>4 DEF Follows, At
  <2>5. LogoutSlot(r)'
    BY <2>2, <2>3, <2>4
  <2> QED
    BY <1>2, <2>1, <2>5 DEF SessionState
<1>5. ASSUME NEW r \in Requests, Accept(r) PROVE \A q \in Requests : LogoutSlot(q)'
  <2>1. /\ \A q \in Requests \ {r} : req'[q] = req[q]
        /\ req'[r].pc \in {"LoginFind", "RegisterFind", "LogoutFind", "UpdateFind"}
        /\ At(r, "LogoutFind")' => req'[r].token # 0
    BY <1>5, AcceptFlow
  <2>2. LogoutSlot(r)'
    BY <2>1 DEF LogoutSlot, At
  <2> QED
    BY <1>2, <2>1, <2>2 DEF SessionState
<1>6. ASSUME NEW c \in Tabs, Abandon(c) PROVE \A q \in Requests : LogoutSlot(q)'
  BY <1>2, <1>3, <1>6, AbandonFlow, IdleHandler DEF SessionState
<1>7. CASE Crash
  BY <1>3, <1>7, IdleHandler DEF Crash
<1>8. CASE req' = req
  BY <1>2, <1>8 DEF SessionState
<1> QED
  BY <1>4, <1>5, <1>6, <1>7, <1>8 DEF Next, Hear, Lose, Reload, WriteOther, RemoveUser

LEMMA SessionStep ==
  ASSUME IInv, SessionInv, DisciplineNext
  PROVE  SessionInv'
<1> USE DEF IInv
<1> SUFFICES ASSUME Kept({"second"})' PROVE SessionState'
  BY DEF SessionInv
<1>1. Next /\ NewSecond /\ SessionState /\ EndStep
  BY DEF DisciplineNext, Kept, Breaks, SessionInv
<1>2. (NoNewToken /\ minted' = minted) \/ NewToken
  BY <1>1, NextTokens
<1>3. minted \in Nat /\ minted' \in Nat /\ minted <= minted'
  BY <1>2 DEF NewToken
<1>4. \A r \in Requests : LogoutSlot(r)'
  BY <1>1, <1>2, LogoutStep
<1>5. ended' \subseteq Nat /\ \A t \in ended' : t <= minted
  BY <1>1, HandlerOf DEF SessionState, TokenState, EndStep, Handler
<1>6. \A i \in DOMAIN users : users[i].token \in Nat /\ users[i].token <= minted
  BY <1>1 DEF RowsOK, User, SessionState, TokenState
<1>7. \A i \in DOMAIN users' : users'[i].token <= minted'
  BY <1>2, <1>3, <1>6 DEF NoNewToken, NewToken
<1>8. \A i, j \in DOMAIN users' : users'[i].token = users'[j].token /\ users'[i].token # 0 => i = j
  <2>1. CASE NoNewToken
    BY <1>1, <2>1 DEF NoNewToken, SessionState, TokenState
  <2>2. CASE NewToken
    BY <1>1, <1>3, <1>6, <2>2 DEF NewToken, SessionState, TokenState
  <2> QED
    BY <1>2, <2>1, <2>2
<1>9. TokenState'
  BY <1>1, <1>3, <1>5, <1>7, <1>8, NextHeld DEF SessionState, TokenState
<1>10. EndedState'
  <2> SUFFICES ASSUME NEW i \in DOMAIN users', users'[i].token # 0, users'[i].token \in ended'
               PROVE  FALSE
    BY DEF EndedState
  <2>1. i \in DOMAIN users /\ users'[i].token = users[i].token
    BY <1>2, <1>3, <1>5 DEF NoNewToken, NewToken
  <2>2. users[i].token \notin ended
    BY <1>1, <2>1 DEF SessionState, EndedState
  <2>3. PICK q \in Requests : LogoutReply(q) /\ users[i].token = req[q].token
    BY <1>1, <2>1, <2>2 DEF EndStep
  <2>4. WithToken(req[q].token) = {}
    BY <1>1, <2>3, Place DEF SessionState, LogoutSlot
  <2> QED
    BY <2>1, <2>3, <2>4 DEF WithToken
<1> QED
  BY <1>4, <1>5, <1>9, <1>10 DEF SessionState

\* Once a logout is answered, no row has its token any more: for any number of requests that
\* overlap with it and rows that are saved late, unless two tokens are minted in one second.
THEOREM LogoutsEnd == DisciplineSpec => []LoggedOut
<1> DEFINE step == /\ Next
                   /\ broken' = broken \cup Breaks
                   /\ ended' = ended \cup {req[r].token : r \in {q \in Requests : LogoutReply(q)}}
<1>1. DisciplineInit => IInv /\ SessionInv
  <2> SUFFICES ASSUME DisciplineInit PROVE IInv /\ SessionState
    BY DEF SessionInv
  <2>1. IInv /\ minted = 1 /\ ended = {} /\ \A r \in Requests : req[r] = Idle
    BY InitInv DEF DisciplineInit, Init
  <2>2. DOMAIN users = {1} /\ users[1].token = 1
    BY DEF DisciplineInit, Init
  <2>3. \A c \in Tabs : tabs[c] \in {Blank, Signed(Blank, 1, 1), Loaded(1, 1)}
    BY DEF DisciplineInit, Init
  <2>4. Blank.token = 0 /\ Signed(Blank, 1, 1).token = 1 /\ Loaded(1, 1).token = 1
    BY DEF Blank, Loaded, Signed
  <2>5. TokenState
    BY <2>1, <2>2, <2>3, <2>4 DEF TokenState, Idle
  <2>6. \A r \in Requests : LogoutSlot(r)
    BY <2>1, IdleHandler DEF LogoutSlot, At
  <2> QED
    BY <2>1, <2>5, <2>6 DEF SessionState, EndedState
<1>2. IInv /\ SessionInv /\ [step]_<<vars, broken, ended>> => (IInv /\ SessionInv)'
  <2> SUFFICES ASSUME IInv, SessionInv, [step]_<<vars, broken, ended>>
               PROVE  IInv' /\ SessionInv'
    OBVIOUS
  <2>1. IInv'
    BY NextInv
  <2>2. CASE step
    BY <2>1, <2>2, SessionStep DEF DisciplineNext, EndStep
  <2>3. CASE UNCHANGED <<vars, broken, ended>>
    BY <2>1, <2>3 DEF SessionInv, SessionState, TokenState, EndedState, LogoutSlot, WithToken, At,
                      Kept, vars
  <2> QED
    BY <2>2, <2>3
<1>3. SessionInv => LoggedOut
  BY DEF SessionInv, SessionState, EndedState, LoggedOut
<1> QED
  BY <1>1, <1>2, <1>3, PTL DEF DisciplineSpec

-----------------------------------------------------------------------------
(* Blocks. *)

\* A session of a blocked user is about to be ended, ...
BlockHeard == \A c \in Tabs :
    tabs[c].user \in DOMAIN users /\ users[tabs[c].user].blocked =>
        \/ tabs[c].user \in events[c]
        \/ \E r \in Requests : At(r, "BlockEmit") /\ req[r].id = tabs[c].user

\* ... and who signs in as one has read so.
BlockRead(q) == req[q].pc \in SigningIn /\ req[q].id \in DOMAIN users =>
    (users[req[q].id].blocked => req[q].row.blocked)

BlockState == BlockHeard /\ \A q \in Requests : BlockRead(q)

BlockInv == Kept({"save", "login", "heard"}) => BlockState

\* A row is blocked only by an edit.
BlockedBefore == \A i \in DOMAIN users' :
    users'[i].blocked =>
        \/ i \in DOMAIN users /\ users[i].blocked
        \/ \E r \in Requests : UpdateWrite(r) /\ req[r].id = i /\ req[r].block = "yes"

LEMMA NextBlocked ==
  ASSUME IInv, Next, FreshSave
  PROVE  BlockedBefore
<1>1. ASSUME NEW r \in Requests, LoginSave(r) \/ RegisterSave(r) \/ LogoutSave(r) PROVE BlockedBefore
  <2>1. req[r].id \in DOMAIN users /\ users[req[r].id] = req[r].row
    BY <1>1 DEF FreshSave
  <2>2. PICK new \in User : users' = Saved(req[r].id, new) /\ new.blocked = req[r].row.blocked
    BY <1>1, SaveRow
  <2> QED
    BY <2>1, <2>2, SavedAs DEF BlockedBefore
<1>2. ASSUME NEW r \in Requests, RegisterInsert(r) PROVE BlockedBefore
  <2>1. CASE users' = users
    BY <2>1 DEF BlockedBefore
  <2>2. ASSUME NEW new \in User, users' = Saved(lastId', new), ~new.blocked PROVE BlockedBefore
    BY <2>2, SavedAs DEF BlockedBefore
  <2> QED
    BY <1>2, <2>1, <2>2, InsertRow
<1>3. ASSUME NEW r \in Requests, UpdateWrite(r) PROVE BlockedBefore
  BY <1>3, EditRow DEF BlockedBefore
<1>4. ASSUME NEW r \in Requests, Handle(r), ~LoginSave(r), ~RegisterSave(r), ~LogoutSave(r),
             ~RegisterInsert(r), ~UpdateWrite(r)
      PROVE  BlockedBefore
  <2>1. users' = users
    BY <1>4 DEF Handle, SaveRefused, LoginFind, Refresh, RegisterFind, LogoutFind, UpdateFind,
                UpdateRefused, Read, LoginReply, RefreshNone, RegisterReply, LogoutReply, BlockEmit
  <2> QED
    BY <2>1 DEF BlockedBefore
<1>5. CASE \E r \in Requests : Accept(r)
  BY <1>5, AcceptFlow DEF BlockedBefore
<1>6. CASE (\E c \in Tabs : Hear(c) \/ Lose(c) \/ Reload(c)) \/ Crash \/ RemoveUser
  BY <1>6 DEF Hear, Lose, Reload, Crash, RemoveUser, BlockedBefore
<1>7. CASE WriteOther
  <2>1. PICK k \in DOMAIN users : users' = [users EXCEPT ![k].others = @ + 1]
    BY <1>7 DEF WriteOther
  <2>2. DOMAIN users' = DOMAIN users /\ \A i \in DOMAIN users : users'[i].blocked = users[i].blocked
    BY <2>1 DEF IInv, RowsOK, User
  <2> QED
    BY <2>2 DEF BlockedBefore
<1> QED
  BY <1>1, <1>2, <1>3, <1>4, <1>5, <1>6, <1>7 DEF Next

\* Signing in or out changes the user of one tab.
LEMMA HandleUser ==
  ASSUME IInv, NEW r \in Requests, Handle(r), NEW c \in Tabs, tabs'[c].user # tabs[c].user
  PROVE  /\ req[r].tab = c /\ req'[r] = Idle
         /\ \/ tabs'[c].user = 0
            \/ /\ tabs'[c].user = req[r].id /\ users' = users /\ ~req[r].row.blocked
               /\ req[r].pc \in SigningIn
<1> USE DEF IInv
<1>1. tabs[c] \in Tab /\ req[r] \in Handler /\ Slot(r)
  BY HandlerOf DEF TabsOK
<1>2. CASE LoginReply(r) \/ RegisterReply(r)
  <2>1. /\ tabs' = tabs \/ (req[r].pc \in SigningIn /\ ~req[r].row.blocked)
        /\ tabs' = tabs \/ tabs' = SignIn(req[r])
        /\ users' = users /\ req'[r] = Idle
    BY <1>1, <1>2 DEF LoginReply, RegisterReply, At, SigningIn, Slot, Go
  <2>2. c = req[r].tab /\ tabs'[c] = Signed(tabs[c], req[r].id, req[r].token)
    BY <2>1 DEF SignIn
  <2>3. tabs'[c].user = req[r].id
    BY <1>1, <2>2 DEF Signed, Tab
  <2> QED
    BY <2>1, <2>2, <2>3
<1>3. CASE RefreshNone(r) \/ LogoutReply(r)
  <2>1. tabs' = SignOut(req[r].tab) /\ req'[r] = Idle
    BY <1>3 DEF RefreshNone, LogoutReply, Go
  <2>2. c = req[r].tab /\ tabs'[c] = [tabs[c] EXCEPT !.user = 0, !.token = 0]
    BY <2>1 DEF SignOut
  <2>3. tabs'[c].user = 0
    BY <1>1, <2>2 DEF Tab
  <2> QED
    BY <2>1, <2>2, <2>3
<1>4. CASE ~LoginReply(r) /\ ~RegisterReply(r) /\ ~RefreshNone(r) /\ ~LogoutReply(r)
  BY <1>4 DEF Handle, SaveRefused, LoginFind, LoginSave, Refresh, RegisterFind, RegisterInsert,
              RegisterSave, LogoutFind, LogoutSave, UpdateFind, UpdateWrite, UpdateRefused,
              BlockEmit, Read
<1> QED
  BY <1>2, <1>3, <1>4

\* A slot that goes on holding the same row, or holds none to sign in with.
LEMMA ReadFrame ==
  ASSUME BlockedBefore, NoBlockedLogin, NEW q \in Requests, BlockRead(q),
         \/ req'[q].pc \notin SigningIn
         \/ req[q].pc \in SigningIn /\ req'[q].id = req[q].id /\ req'[q].row = req[q].row
  PROVE  BlockRead(q)'
BY DEF BlockRead, BlockedBefore, NoBlockedLogin, SigningIn

LEMMA HandleRead ==
  ASSUME IInv, BlockState, NEW r \in Requests, Handle(r), BlockedBefore, NoBlockedLogin
  PROVE  \A q \in Requests : BlockRead(q)'
<1>1. /\ \A q \in Requests \ {r} : req'[q] = req[q]
      /\ req'[r] \in Handler /\ Follows(r)
  BY HandleFlow
<1>2. ASSUME At(r, "LoginSave")' PROVE BlockRead(r)'
  <2>1. users' = users
    BY <1>1, <1>2, HandleStill DEF Follows, At
  <2> QED
    BY <1>1, <1>2, <2>1 DEF BlockRead, Follows
<1>3. ASSUME At(r, "RegisterSave")' PROVE BlockRead(r)'
  <2>1. RegisterInsert(r) /\ lastId' = lastId + 1 /\ req'[r].id = lastId'
    BY <1>1, <1>3, Place DEF Follows, Handle, At
  <2>2. lastId + 1 \notin DOMAIN users
    BY <2>1, InsertRow
  <2>3. ASSUME NEW p \in Requests, UpdateWrite(p) PROVE FALSE
    BY <2>1, <2>3, EditRow DEF IInv, Ids
  <2> QED
    BY <2>1, <2>2, <2>3 DEF BlockRead, BlockedBefore
<1>4. ASSUME ~At(r, "LoginSave")', ~At(r, "RegisterSave")' PROVE BlockRead(r)'
  BY <1>1, <1>4, ReadFrame DEF BlockState, Follows, SigningIn, At
<1>5. \A q \in Requests \ {r} : BlockRead(q)'
  BY <1>1, ReadFrame DEF BlockState
<1> QED
  BY <1>2, <1>3, <1>4, <1>5

LEMMA HandleHeard ==
  ASSUME IInv, BlockState, NEW r \in Requests, Handle(r), BlockedBefore
  PROVE  BlockHeard'
<1> USE DEF IInv
<1> SUFFICES ASSUME NEW c \in Tabs, tabs'[c].user \in DOMAIN users', users'[tabs'[c].user].blocked
             PROVE  \/ tabs'[c].user \in events'[c]
                    \/ \E q \in Requests : At(q, "BlockEmit")' /\ req'[q].id = tabs'[c].user
  BY DEF BlockHeard
<1>1. /\ \A q \in Requests \ {r} : req'[q] = req[q]
      /\ req'[r] \in Handler /\ Follows(r)
  BY HandleFlow
<1>2. tabs'[c].user = tabs[c].user
  <2> SUFFICES ASSUME tabs'[c].user # tabs[c].user PROVE FALSE
    OBVIOUS
  <2>1. \/ tabs'[c].user = 0
        \/ /\ tabs'[c].user = req[r].id /\ users' = users /\ ~req[r].row.blocked
           /\ req[r].pc \in SigningIn
    BY HandleUser
  <2>2. 0 \notin DOMAIN users'
    BY HandleRows DEF RowsOK
  <2> QED
    BY <2>1, <2>2 DEF BlockState, BlockRead
<1>3. CASE BlockEmit(r)
  <2>1. /\ users' = users /\ \A d \in Tabs : events'[d] = events[d] \cup {req[r].id}
    BY <1>3 DEF BlockEmit
  <2>2. \/ tabs[c].user \in events[c]
        \/ \E q \in Requests : At(q, "BlockEmit") /\ req[q].id = tabs[c].user
    BY <1>2, <2>1 DEF BlockState, BlockHeard
  <2> QED
    BY <1>1, <1>2, <2>1, <2>2 DEF At
<1>4. CASE UpdateWrite(r) /\ req[r].id = tabs[c].user /\ req[r].block = "yes"
  <2>1. req'[r] = Told(r)
    BY <1>4 DEF UpdateWrite, Go
  <2>2. Told(r).pc = "BlockEmit" /\ Told(r).id = req[r].id
    BY <1>4 DEF Told, Idle
  <2> QED
    BY <1>2, <1>4, <2>1, <2>2 DEF At
<1>5. CASE ~BlockEmit(r) /\ ~(UpdateWrite(r) /\ req[r].id = tabs[c].user /\ req[r].block = "yes")
  <2>1. events' = events /\ ~At(r, "BlockEmit")
    BY <1>5, Place, HandleStill DEF Handle, At
  <2>2. ASSUME NEW p \in Requests, UpdateWrite(p) PROVE p = r
    <3>1. p = r \/ (req'[p] = req[p] /\ req'[p] = Told(p) /\ At(p, "UpdateWrite"))
      BY <1>1, <2>2 DEF UpdateWrite, Go
    <3> QED
      BY <3>1, ToldFields DEF At
  <2>3. tabs[c].user \in DOMAIN users /\ users[tabs[c].user].blocked
    BY <1>2, <1>5, <2>2 DEF BlockedBefore
  <2>4. \/ tabs[c].user \in events[c]
        \/ \E q \in Requests : At(q, "BlockEmit") /\ req[q].id = tabs[c].user
    BY <2>3 DEF BlockState, BlockHeard
  <2> QED
    BY <1>1, <1>2, <2>1, <2>4 DEF At
<1> QED
  BY <1>3, <1>4, <1>5

\* Steps of no request: a page hears of a block, is loaded, or rows are written by others.
LEMMA OtherHeard ==
  ASSUME IInv, BlockState, BlockedBefore, RowsOK',
         \A r \in Requests : ~UpdateWrite(r),
         \A c \in Tabs : tabs'[c].user \in {tabs[c].user, 0},
         \A c \in Tabs : tabs[c].user \in events[c] =>
             tabs'[c].user = 0 \/ tabs[c].user \in events'[c],
         \A q \in Requests : At(q, "BlockEmit") => At(q, "BlockEmit")' /\ req'[q].id = req[q].id
  PROVE  BlockHeard'
<1> SUFFICES ASSUME NEW c \in Tabs, tabs'[c].user \in DOMAIN users', users'[tabs'[c].user].blocked
             PROVE  \/ tabs'[c].user \in events'[c]
                    \/ \E q \in Requests : At(q, "BlockEmit")' /\ req'[q].id = tabs'[c].user
  BY DEF BlockHeard
<1>1. tabs'[c].user = tabs[c].user /\ tabs'[c].user # 0
  BY DEF RowsOK
<1>2. tabs[c].user \in DOMAIN users /\ users[tabs[c].user].blocked
  BY <1>1 DEF BlockedBefore
<1> QED
  BY <1>1, <1>2 DEF BlockState, BlockHeard

LEMMA BlockStep ==
  ASSUME IInv, IInv', BlockInv, DisciplineNext
  PROVE  BlockInv'
<1> USE DEF IInv
<1> SUFFICES ASSUME Kept({"save", "login", "heard"})' PROVE BlockState'
  BY DEF BlockInv
<1>1. Next /\ FreshSave /\ NoBlockedLogin /\ Heard /\ BlockState
  <2>1. \A d \in {"save", "login", "heard"} : d \notin broken /\ d \notin Breaks
    BY DEF Kept, DisciplineNext
  <2> QED
    BY <2>1 DEF DisciplineNext, Breaks, BlockInv, Kept
<1>2. BlockedBefore
  BY <1>1, NextBlocked
<1>3. ASSUME NEW r \in Requests, Handle(r) PROVE BlockState'
  BY <1>1, <1>2, <1>3, HandleRead, HandleHeard DEF BlockState
<1>4. ASSUME NEW r \in Requests, Accept(r) PROVE BlockState'
  <2>1. /\ UNCHANGED <<users, lastId, minted, tabs, events>>
        /\ At(r, "idle") /\ \A q \in Requests \ {r} : req'[q] = req[q]
        /\ req'[r].pc \in {"LoginFind", "RegisterFind", "LogoutFind", "UpdateFind"}
    BY <1>4, AcceptFlow
  <2>2. \A q \in Requests : BlockRead(q)'
    BY <1>1, <1>2, <2>1, ReadFrame DEF BlockState, SigningIn
  <2>3. BlockHeard'
    BY <1>1, <2>1 DEF BlockState, BlockHeard, At
  <2> QED
    BY <2>2, <2>3 DEF BlockState
<1>5. ASSUME NEW c \in Tabs, Hear(c) \/ Reload(c) PROVE BlockState'
  <2>1. req' = req \/ Abandon(c)
    BY <1>5 DEF Hear, Reload
  <2>2. ASSUME NEW q \in Requests
        PROVE  /\ \/ req'[q].pc \notin SigningIn
                  \/ req[q].pc \in SigningIn /\ req'[q].id = req[q].id /\ req'[q].row = req[q].row
               /\ At(q, "BlockEmit") => At(q, "BlockEmit")' /\ req'[q].id = req[q].id
    BY <2>1, AbandonFlow, IdleHandler DEF SigningIn, At
  <2>3. \A q \in Requests : BlockRead(q)'
    BY <1>1, <1>2, <2>2, ReadFrame DEF BlockState
  <2>4. \A r \in Requests : ~UpdateWrite(r)
    <3>1. ASSUME NEW r \in Requests, UpdateWrite(r) PROVE FALSE
      <4>1. tabs' = tabs /\ events' = events /\ req'[r] = Told(r) /\ At(r, "UpdateWrite")
        BY <3>1 DEF UpdateWrite, Go
      <4>2. Hear(c) => events' # events
        BY DEF Hear, TabsOK
      <4> QED
        BY <1>5, <2>1, <4>1, <4>2, AbandonFlow, ToldFields DEF Reload, At
    <3> QED
      BY <3>1
  <2>5. \A d \in Tabs :
          /\ tabs'[d].user \in {tabs[d].user, 0}
          /\ tabs[d].user \in events[d] => tabs'[d].user = 0 \/ tabs[d].user \in events'[d]
    <3>1. CASE Reload(c)
      BY <3>1 DEF Reload, Loaded, TabsOK
    <3>2. CASE Hear(c)
      <4>1. PICK i \in events[c] :
              /\ i \in tabs[c].heard => tabs' = [tabs EXCEPT ![c] = Blank]
              /\ i \notin tabs[c].heard => tabs' = tabs
              /\ events' = [events EXCEPT ![c] = @ \ {i}]
        BY <3>2 DEF Hear
      <4>2. Blank.user = 0 /\ i # 0 /\ (tabs[c].user = i => i \in tabs[c].heard)
        BY DEF Blank, Loaded, TabsOK, Ids
      <4> QED
        BY <4>1, <4>2 DEF TabsOK
    <3> QED
      BY <1>5, <3>1, <3>2
  <2>6. BlockHeard'
    BY <1>1, <1>2, <2>2, <2>4, <2>5, OtherHeard
  <2> QED
    BY <2>3, <2>6 DEF BlockState
<1>6. CASE Crash
  <2>1. /\ \A q \in Requests : ~At(q, "BlockEmit") /\ req'[q] = Idle
        /\ UNCHANGED <<users, tabs, events>>
    BY <1>1, <1>6 DEF Heard, Crash
  <2> QED
    BY <1>1, <2>1, IdleHandler DEF BlockState, BlockHeard, BlockRead, SigningIn
<1>7. CASE WriteOther \/ RemoveUser
  <2>1. UNCHANGED <<tabs, events, req>>
    BY <1>7 DEF WriteOther, RemoveUser
  <2>2. \A r \in Requests : ~UpdateWrite(r)
    <3>1. ASSUME NEW r \in Requests, UpdateWrite(r) PROVE FALSE
      <4>1. req'[r] = Told(r) /\ At(r, "UpdateWrite")
        BY <3>1 DEF UpdateWrite, Go
      <4> QED
        BY <2>1, <4>1, ToldFields DEF At
    <3> QED
      BY <3>1
  <2>3. BlockHeard'
    BY <1>1, <1>2, <2>1, <2>2, OtherHeard DEF At
  <2>4. \A q \in Requests : BlockRead(q)'
    BY <1>1, <1>2, <2>1, ReadFrame DEF BlockState
  <2> QED
    BY <2>3, <2>4 DEF BlockState
<1> QED
  BY <1>1, <1>3, <1>4, <1>5, <1>6, <1>7 DEF Next, Heard

\* A blocked user has no session in any tab but one that is about to hear of it, for any
\* number of tabs, sign-ins and edits, as long as he is not blocked during a sign-in, rows
\* are saved as fresh as they were read, and every tab hears of every block.
THEOREM BlocksEndSessions == DisciplineSpec => []NoBlockedSession
<1> DEFINE step == /\ Next
                   /\ broken' = broken \cup Breaks
                   /\ ended' = ended \cup {req[r].token : r \in {q \in Requests : LogoutReply(q)}}
<1>1. DisciplineInit => IInv /\ BlockInv
  <2> SUFFICES ASSUME DisciplineInit PROVE IInv /\ BlockState
    BY DEF BlockInv
  <2>1. IInv /\ \A r \in Requests : req[r] = Idle
    BY InitInv DEF DisciplineInit, Init
  <2>2. PICK tab \in {Blank, Signed(Blank, 1, 1), Loaded(1, 1)}, blocked \in BOOLEAN :
          /\ blocked => tab = Blank
          /\ \A c \in Tabs : tabs[c] \in {tab, Blank}
          /\ DOMAIN users = {1} /\ users[1].blocked = blocked
    BY DEF DisciplineInit, Init
  <2>3. Blank.user = 0
    BY DEF Blank, Loaded
  <2>4. BlockHeard
    BY <2>2, <2>3 DEF BlockHeard
  <2>5. \A r \in Requests : BlockRead(r)
    BY <2>1, IdleHandler DEF BlockRead, SigningIn
  <2> QED
    BY <2>1, <2>4, <2>5 DEF BlockState
<1>2. IInv /\ BlockInv /\ [step]_<<vars, broken, ended>> => (IInv /\ BlockInv)'
  <2> SUFFICES ASSUME IInv, BlockInv, [step]_<<vars, broken, ended>>
               PROVE  IInv' /\ BlockInv'
    OBVIOUS
  <2>1. IInv'
    BY NextInv
  <2>2. CASE step
    BY <2>1, <2>2, BlockStep DEF DisciplineNext, EndStep
  <2>3. CASE UNCHANGED <<vars, broken, ended>>
    BY <2>1, <2>3 DEF BlockInv, BlockState, BlockHeard, BlockRead, At, Kept, vars
  <2> QED
    BY <2>2, <2>3
<1>3. BlockInv => NoBlockedSession
  BY DEF BlockInv, BlockState, BlockHeard, NoBlockedSession
<1> QED
  BY <1>1, <1>2, <1>3, PTL DEF DisciplineSpec

-----------------------------------------------------------------------------
(* What others wrote, and sessions that are kept. *)

\* Columns are changed by the request that is to change them; passwords are typed ones.
OthersKept ==
    /\ \A i \in DOMAIN users \cap DOMAIN users' :
          /\ users'[i].others >= users[i].others
          /\ <<users'[i].email, users'[i].blocked>> # <<users[i].email, users[i].blocked>> =>
                \E r \in Requests : UpdateWrite(r)
    /\ DOMAIN users' \ DOMAIN users \subseteq {lastId + 1}

PasswordState == \A i \in DOMAIN users : users[i].password # Unset

PasswordInv == Kept({"save", "edit"}) => PasswordState

\* How rows change: by an edit, or else a row keeps its email, block and password and
\* loses no write of others, and a new row has the next id.
RowsKept ==
    /\ \A i \in DOMAIN users \cap DOMAIN users' :
          /\ users'[i].others >= users[i].others
          /\ users'[i].email = users[i].email /\ users'[i].blocked = users[i].blocked
          /\ users'[i].password = users[i].password
    /\ \A i \in DOMAIN users' \ DOMAIN users : i = lastId + 1 /\ users'[i].password \in Passwords

LEMMA SameRows ==
  ASSUME IInv, \A i \in DOMAIN users' : i \in DOMAIN users /\ users'[i] = users[i]
  PROVE  RowsKept
BY DEF RowsKept, IInv, RowsOK, User

LEMMA NextKept ==
  ASSUME IInv, Next, FreshSave
  PROVE  \/ RowsKept
         \/ \E r \in Requests : /\ UpdateWrite(r) /\ DOMAIN users' = DOMAIN users
                                /\ \A i \in DOMAIN users :
                                      /\ users'[i].others = users[i].others
                                      /\ users'[i].password \in {users[i].password, req[r].password}
<1> USE DEF IInv
<1>1. ASSUME NEW r \in Requests, LoginSave(r) \/ RegisterSave(r) \/ LogoutSave(r) PROVE RowsKept
  <2>1. req[r].id \in DOMAIN users /\ users[req[r].id] = req[r].row
    BY <1>1 DEF FreshSave
  <2>2. PICK new \in User :
          /\ users' = Saved(req[r].id, new) /\ req[r].row \in User
          /\ new.email = req[r].row.email /\ new.password = req[r].row.password
          /\ new.blocked = req[r].row.blocked /\ new.others = req[r].row.others
    BY <1>1, SaveRow
  <2>3. \A i \in DOMAIN users : users[i].others \in Nat
    BY DEF RowsOK, User
  <2> QED
    BY <2>1, <2>2, <2>3, SavedAs DEF RowsKept
<1>2. ASSUME NEW r \in Requests, RegisterInsert(r) PROVE RowsKept
  <2>1. CASE users' = users
    BY <2>1, SameRows
  <2>2. ASSUME NEW new \in User, users' = Saved(lastId', new), new.password \in Passwords,
               lastId' = lastId + 1, lastId + 1 \notin DOMAIN users
        PROVE  RowsKept
    <3>1. \A i \in DOMAIN users : users[i].others \in Nat
      BY DEF RowsOK, User
    <3> QED
      BY <2>2, <3>1, SavedAs DEF RowsKept
  <2> QED
    BY <1>2, <2>1, <2>2, InsertRow
<1>3. ASSUME NEW r \in Requests, UpdateWrite(r)
      PROVE  /\ DOMAIN users' = DOMAIN users
             /\ \A i \in DOMAIN users : /\ users'[i].others = users[i].others
                                        /\ users'[i].password \in {users[i].password, req[r].password}
  BY <1>3, EditRow
<1>4. ASSUME NEW r \in Requests, Handle(r), ~LoginSave(r), ~RegisterSave(r), ~LogoutSave(r),
             ~RegisterInsert(r), ~UpdateWrite(r)
      PROVE  RowsKept
  <2>1. users' = users
    BY <1>4 DEF Handle, SaveRefused, LoginFind, Refresh, RegisterFind, LogoutFind, UpdateFind,
                UpdateRefused, Read, LoginReply, RefreshNone, RegisterReply, LogoutReply, BlockEmit
  <2> QED
    BY <2>1, SameRows
<1>5. CASE \E r \in Requests : Accept(r)
  BY <1>5, AcceptFlow, SameRows
<1>6. CASE (\E c \in Tabs : Hear(c) \/ Lose(c) \/ Reload(c)) \/ Crash \/ RemoveUser
  BY <1>6, SameRows DEF Hear, Lose, Reload, Crash, RemoveUser
<1>7. CASE WriteOther
  <2>1. PICK k \in DOMAIN users : users' = [users EXCEPT ![k].others = @ + 1]
    BY <1>7 DEF WriteOther
  <2>2. /\ DOMAIN users' = DOMAIN users
        /\ \A i \in DOMAIN users :
              /\ users'[i].others >= users[i].others
              /\ users'[i].email = users[i].email /\ users'[i].blocked = users[i].blocked
              /\ users'[i].password = users[i].password
    BY <2>1 DEF RowsOK, User
  <2> QED
    BY <2>2 DEF RowsKept
<1> QED
  BY <1>1, <1>2, <1>3, <1>4, <1>5, <1>6, <1>7 DEF Next

LEMMA KeptStep ==
  ASSUME IInv, Next, FreshSave
  PROVE  OthersKept
<1>1. \A i \in DOMAIN users : users[i].others \in Nat
  BY DEF IInv, RowsOK, User
<1>2. CASE RowsKept
  BY <1>2 DEF RowsKept, OthersKept
<1>3. ASSUME NEW r \in Requests, UpdateWrite(r), DOMAIN users' = DOMAIN users,
             \A i \in DOMAIN users : users'[i].others = users[i].others
      PROVE  OthersKept
  BY <1>1, <1>3 DEF OthersKept
<1> QED
  BY <1>2, <1>3, NextKept

LEMMA PasswordStep ==
  ASSUME IInv, Next, FreshSave, FullEdit, PasswordState
  PROVE  PasswordState'
<1>1. CASE RowsKept
  BY <1>1, AccountsAssumption DEF RowsKept, PasswordState
<1>2. ASSUME NEW r \in Requests, UpdateWrite(r), DOMAIN users' = DOMAIN users,
             \A i \in DOMAIN users : users'[i].password \in {users[i].password, req[r].password}
      PROVE  PasswordState'
  BY <1>2 DEF PasswordState, FullEdit
<1> QED
  BY <1>1, <1>2, NextKept

\* No write of others is undone, only an edit changes an email or a block, and a password
\* stays one that was typed: for any number of overlapping requests, as long as rows are
\* saved as fresh as they were read and, for the password, every edit carries one.
THEOREM WritesKept == DisciplineSpec => NothingLost
<1> DEFINE step == /\ Next
                   /\ broken' = broken \cup Breaks
                   /\ ended' = ended \cup {req[r].token : r \in {q \in Requests : LogoutReply(q)}}
           kept == Kept({"save"})' =>
                      /\ \A i \in DOMAIN users \cap DOMAIN users' :
                            /\ users'[i].others >= users[i].others
                            /\ <<users'[i].email, users'[i].blocked>> # <<users[i].email, users[i].blocked>> =>
                                  \E r \in Requests : UpdateWrite(r)
                            /\ Kept({"edit"})' => users'[i].password # Unset
                      /\ DOMAIN users' \ DOMAIN users \subseteq {lastId + 1}
<1>1. DisciplineInit => IInv /\ PasswordInv
  <2> SUFFICES ASSUME DisciplineInit PROVE IInv /\ PasswordState
    BY DEF PasswordInv
  <2>1. DOMAIN users = {1} /\ users[1].password = CHOOSE p \in Passwords : TRUE
    BY DEF DisciplineInit, Init
  <2>2. (CHOOSE p \in Passwords : TRUE) \in Passwords
    BY AccountsAssumption
  <2> QED
    BY <2>1, <2>2, InitInv, AccountsAssumption DEF PasswordState, DisciplineInit
<1>2. IInv /\ PasswordInv /\ [step]_<<vars, broken, ended>> =>
          (IInv /\ PasswordInv)' /\ [kept]_vars
  <2> SUFFICES ASSUME IInv, PasswordInv, [step]_<<vars, broken, ended>>
               PROVE  IInv' /\ PasswordInv' /\ [kept]_vars
    OBVIOUS
  <2>1. IInv'
    BY NextInv
  <2>2. CASE step
    <3>1. Kept({"save"})' => OthersKept
      BY <2>2, KeptStep DEF Kept, Breaks
    <3>2. Kept({"save"})' /\ Kept({"edit"})' => PasswordState'
      BY <2>2, PasswordStep DEF Kept, Breaks, PasswordInv
    <3>3. PasswordInv'
      BY <3>2 DEF PasswordInv, Kept
    <3> QED
      BY <2>1, <3>1, <3>2, <3>3 DEF OthersKept, PasswordState
  <2>3. CASE UNCHANGED <<vars, broken, ended>>
    BY <2>1, <2>3 DEF PasswordInv, PasswordState, Kept, vars
  <2> QED
    BY <2>2, <2>3
<1> QED
  BY <1>1, <1>2, PTL DEF DisciplineSpec, NothingLost

\* A finite set with at most one member.
LEMMA OneOf ==
  ASSUME NEW S, IsFiniteSet(S), Cardinality(S) <= 1, NEW x \in S, NEW y \in S
  PROVE  x = y
<1>1. Cardinality(S) \in Nat /\ Cardinality(S) # 0
  BY FS_CardinalityType, FS_EmptySet
<1>2. Cardinality(S) = 1
  BY <1>1
<1> QED
  BY <1>2, FS_Singleton

\* A tab only loses its session by a request of its own or the block of its user, for any
\* number of tabs and messages, while nobody else signed in on the page before.
THEOREM SessionsStay == DisciplineSpec => SessionKept
<1> DEFINE step == /\ Next
                   /\ broken' = broken \cup Breaks
                   /\ ended' = ended \cup {req[r].token : r \in {q \in Requests : LogoutReply(q)}}
           kept == Kept({"user"}) => \A c \in Tabs :
                      tabs[c].user # 0 /\ tabs'[c].user # tabs[c].user =>
                          tabs[c].user \in events[c] \/ (\E r \in Requests : req[r].tab = c /\ req'[r] = Idle)
           UserInv == Kept({"user"}) => OneUser
<1>1. DisciplineInit => IInv /\ UserInv
  <2> SUFFICES ASSUME DisciplineInit PROVE IInv /\ OneUser
    OBVIOUS
  <2>1. \A c \in Tabs : tabs[c] \in {Blank, Signed(Blank, 1, 1), Loaded(1, 1)}
    BY DEF DisciplineInit, Init
  <2>2. Blank.heard = {0} /\ Loaded(1, 1).heard = {1} /\ Signed(Blank, 1, 1).heard = {0, 1}
    BY DEF Blank, Loaded, Signed
  <2>3. \A c \in Tabs : tabs[c].heard \ {0} = {} \/ tabs[c].heard \ {0} = {1}
    BY <2>1, <2>2
  <2>4. Cardinality({}) = 0 /\ Cardinality({1}) = 1
    BY FS_EmptySet, FS_Singleton
  <2> QED
    BY <2>3, <2>4, InitInv DEF OneUser, DisciplineInit
<1>2. IInv /\ UserInv /\ [step]_<<vars, broken, ended>> => (IInv /\ UserInv)' /\ [kept]_vars
  <2> SUFFICES ASSUME IInv, UserInv, [step]_<<vars, broken, ended>>
               PROVE  IInv' /\ UserInv' /\ [kept]_vars
    OBVIOUS
  <2>1. IInv'
    BY NextInv
  <2>2. CASE step
    <3>1. UserInv'
      BY <2>2 DEF Kept, Breaks
    <3>2. ASSUME Kept({"user"}), NEW c \in Tabs, tabs[c].user # 0, tabs'[c].user # tabs[c].user
          PROVE  tabs[c].user \in events[c] \/ (\E r \in Requests : req[r].tab = c /\ req'[r] = Idle)
      <4>1. CASE \E r \in Requests : Handle(r)
        BY <3>2, <4>1, HandleUser
      <4>2. CASE \E d \in Tabs : Hear(d)
        <5> PICK d \in Tabs : Hear(d)
          BY <4>2
        <5>1. PICK i \in events[d] :
                /\ i \in tabs[d].heard => tabs' = [tabs EXCEPT ![d] = Blank]
                /\ i \notin tabs[d].heard => tabs' = tabs
          BY DEF Hear
        <5>2. d = c /\ i \in tabs[c].heard
          BY <3>2, <5>1 DEF IInv, TabsOK
        <5>3. /\ i # 0 /\ tabs[c].user \in tabs[c].heard /\ IsFiniteSet(tabs[c].heard \ {0})
              /\ Cardinality(tabs[c].heard \ {0}) <= 1
          <6>1. IsFiniteSet(tabs[c].heard)
            BY DEF IInv, TabsOK
          <6>2. IsFiniteSet(tabs[c].heard \ {0})
            BY <6>1, FS_Subset
          <6> QED
            BY <3>2, <5>1, <5>2, <6>2 DEF IInv, TabsOK, OneUser, Ids
        <5>4. i = tabs[c].user
          BY <3>2, <5>2, <5>3, OneOf
        <5> QED
          BY <5>1, <5>2, <5>4
      <4>3. CASE \E d \in Tabs : Reload(d)
        BY <3>2, <4>3 DEF Reload, Loaded, IInv, TabsOK
      <4>4. CASE (\E r \in Requests : Accept(r)) \/ (\E d \in Tabs : Lose(d)) \/ WriteOther
                 \/ RemoveUser \/ Crash
        BY <3>2, <4>4, AcceptFlow DEF Lose, WriteOther, RemoveUser, Crash
      <4> QED
        BY <2>2, <4>1, <4>2, <4>3, <4>4 DEF Next
    <3> QED
      BY <2>1, <3>1, <3>2
  <2>3. CASE UNCHANGED <<vars, broken, ended>>
    BY <2>1, <2>3 DEF OneUser, Kept, vars
  <2> QED
    BY <2>2, <2>3
<1> QED
  BY <1>1, <1>2, PTL DEF DisciplineSpec, SessionKept
=============================================================================
