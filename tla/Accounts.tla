------------------------------ MODULE Accounts ------------------------------
(***************************************************************************)
(* User rows and the sessions of the browser tabs that use them.           *)
(*   backend/src/users/users.service.ts, users.controller.ts               *)
(*   backend/src/users/jwt.service.ts                                      *)
(*   backend/src/notifications/telegram.service.ts   (linking of a chat)   *)
(*   backend/src/socket/app.gateway.ts               (setBlock)            *)
(*   frontend/.../Auth/context/AuthContext.tsx, shared/utils/api.ts        *)
(*                                                                         *)
(* A handler saves the entity it found some statements earlier: save       *)
(* writes every remembered column that differs, and inserts a row that was *)
(* removed again.                                                          *)
(***************************************************************************)
EXTENDS Integers, FiniteSets

CONSTANTS
    Emails, Passwords,  \* what can be typed
    Unset,              \* the password of an edit that carries none: "undefined", or an empty one
    Tabs, None,
    Requests, Calls,
    MaxRequests         \* bound: requests in a behaviour

ASSUME AccountsAssumption ==
    /\ MaxRequests \in Nat /\ Emails # {} /\ Passwords # {}
    /\ Unset \notin Passwords /\ None \notin Emails \cup Tabs

VARIABLES
    users,      \* rows of users by id
    lastId,     \* the sequence behind users.id
    minted,     \* refresh tokens are numbered; 0 is no token
    tabs,       \* what each tab holds
    events,     \* 'blocked' messages on their way to each tab
    req,        \* the slots
    served      \* requests so far

vars == <<users, lastId, minted, tabs, events, req, served>>

Ids == Nat \ {0}

\* others: writes of columns that none of these handlers knows about, count_trips of
\* completed trips and telegram_id of the bot.
User == [email: Emails, password: Passwords \cup {Unset}, token: Nat,
         blocked: BOOLEAN, others: Nat]

\* first: the refresh token of the first render, which the interceptor that runs
\* first holds on to; heard: the ids whose 'blocked' the listeners compare with.
Tab == [user: Ids \cup {0}, token: Nat, first: Nat, heard: SUBSET (Ids \cup {0})]

\* A page that was loaded with nothing, or with a session, in its storage.
Loaded(user, token) == [user |-> user, token |-> token, first |-> token, heard |-> {user}]
Blank == Loaded(0, 0)

\* setId and setRefreshToken: the next render adds a listener.
Signed(tab, user, token) == [tab EXCEPT !.user = user, !.token = token, !.heard = @ \cup {user}]

\* Nothing changes when the page is no longer there to get the answer.
SignIn(h) == [c \in Tabs |-> IF c = h.tab THEN Signed(tabs[c], h.id, h.token) ELSE tabs[c]]
SignOut(tab) == [c \in Tabs |-> IF c = tab THEN [tabs[c] EXCEPT !.user = 0, !.token = 0] ELSE tabs[c]]

NoRow == [email |-> None]
Idle == [pc |-> "idle", tab |-> None, id |-> 0, row |-> NoRow, email |-> None,
         password |-> Unset, token |-> 0, block |-> "keep", retried |-> FALSE]

At(r, statement) == req[r].pc = statement
Go(r, handler) == req' = [req EXCEPT ![r] = handler]
Then(r, statement) == [req[r] EXCEPT !.pc = statement]

\* A tab sends a request, or the office does (None).
Request(r, call, handler) ==
    /\ req[r] = Idle /\ call \in Calls /\ served < MaxRequests
    /\ served' = served + 1
    /\ Go(r, handler)
    /\ UNCHANGED <<users, lastId, minted, tabs, events>>

Read(r, statement, handler) ==
    /\ At(r, statement)
    /\ Go(r, handler)
    /\ UNCHANGED <<users, lastId, minted, tabs, events, served>>

WithEmail(e) == {i \in DOMAIN users : users[i].email = e}
WithToken(t) == {i \in DOMAIN users : users[i].token = t}

\* Another row has the email, which is unique.
Taken(e, id) == WithEmail(e) \ {id} # {}

\* A remembered row whose email was taken meanwhile cannot be saved.
Conflict(h) == Taken(h.row.email, h.id)

\* Repository.save of a remembered row.
Saved(id, row) == [i \in DOMAIN users \cup {id} |-> IF i = id THEN row ELSE users[i]]

\* jwt.sign: two tokens of one second are equal.
Mint == minted' \in {minted, minted + 1} \ {0}

-----------------------------------------------------------------------------
(* Logging in *)

\* What can be typed into the form.
LoginForm == [email: Emails, password: Passwords]

LoginAccept(r) == \E c \in Tabs, typed \in LoginForm :
    Request(r, "login", [Idle EXCEPT !.pc = "LoginFind", !.tab = c,
                                     !.email = typed.email, !.password = typed.password])

\* A 401 is handed to the interceptor, but for a request it has retried.
Refused(r) == IF req[r].retried \/ req[r].tab = None THEN Idle ELSE Then(r, "Refresh")

LoginFind(r) ==
    LET found == WithEmail(req[r].email) IN
    \/ (\A i \in found : users[i].password # req[r].password) /\ Read(r, "LoginFind", Refused(r))
    \/ \E i \in found :
          /\ users[i].password = req[r].password
          /\ Read(r, "LoginFind", [Then(r, "LoginSave") EXCEPT !.id = i, !.row = users[i]])

LoginSave(r) ==
    LET h == req[r] IN
    /\ At(r, "LoginSave") /\ ~Conflict(h)
    /\ Mint
    /\ users' = Saved(h.id, [h.row EXCEPT !.token = minted'])
    /\ Go(r, [Then(r, "LoginReply") EXCEPT !.token = minted'])
    /\ UNCHANGED <<lastId, tabs, events, served>>

\* Mutant: the session is stored for a blocked user too.
LoginReplyAny(r) ==
    LET h == req[r] IN
    /\ At(r, "LoginReply")
    /\ tabs' = SignIn(h)
    /\ Go(r, Idle)
    /\ UNCHANGED <<users, lastId, minted, events, served>>

LoginReply(r) ==
    LET h == req[r] IN
    /\ At(r, "LoginReply")
    /\ tabs' = IF h.row.blocked THEN tabs ELSE SignIn(h)
    /\ Go(r, Idle)
    /\ UNCHANGED <<users, lastId, minted, events, served>>

-----------------------------------------------------------------------------
(* The interceptor of a 401: refreshAccessToken of the first render *)

\* Without a token it fails at once and logs the tab out.
RefreshNone(r) ==
    /\ At(r, "Refresh") /\ tabs[req[r].tab].first = 0
    /\ tabs' = SignOut(req[r].tab)
    /\ Go(r, Idle)
    /\ UNCHANGED <<users, lastId, minted, events, served>>

\* Mutant: the retried request is not marked.
RefreshUnmarked(r) ==
    /\ At(r, "Refresh") /\ tabs[req[r].tab].first # 0 /\ WithToken(tabs[req[r].tab].first) # {}
    /\ Read(r, "Refresh", Then(r, "LoginFind"))

\* With one that a row has, the request is sent again.  With any other the
\* refresh is refused by a 401 as well, so that the interceptor refreshes again,
\* for as long as no row has the token.
Refresh(r) ==
    /\ At(r, "Refresh") /\ tabs[req[r].tab].first # 0 /\ WithToken(tabs[req[r].tab].first) # {}
    /\ Read(r, "Refresh", [Then(r, "LoginFind") EXCEPT !.retried = TRUE])

-----------------------------------------------------------------------------
(* Registering *)

\* The password is typed twice, alike.
RegisterForm == [email: Emails, password: Passwords]

RegisterAccept(r) == \E c \in Tabs, typed \in RegisterForm :
    Request(r, "register", [Idle EXCEPT !.pc = "RegisterFind", !.tab = c,
                                        !.email = typed.email, !.password = typed.password])

RegisterFind(r) ==
    Read(r, "RegisterFind", IF WithEmail(req[r].email) = {} THEN Then(r, "RegisterInsert") ELSE Idle)

\* Mutant: nothing but RegisterFind looks at the email.
RegisterInsertBlind(r) ==
    LET h == req[r]
        row == [email |-> h.email, password |-> h.password, token |-> 0,
                blocked |-> FALSE, others |-> 0] IN
    /\ At(r, "RegisterInsert")
    /\ lastId' = lastId + 1 /\ users' = Saved(lastId', row)
    /\ Go(r, [Then(r, "RegisterSave") EXCEPT !.id = lastId', !.row = row])
    /\ UNCHANGED <<minted, tabs, events, served>>

\* The sequence advances even if the unique email refuses the row.
RegisterInsert(r) ==
    LET h == req[r]
        row == [email |-> h.email, password |-> h.password, token |-> 0,
                blocked |-> FALSE, others |-> 0] IN
    /\ At(r, "RegisterInsert")
    /\ lastId' = lastId + 1
    /\ IF WithEmail(h.email) = {}
       THEN users' = Saved(lastId', row)
            /\ Go(r, [Then(r, "RegisterSave") EXCEPT !.id = lastId', !.row = row])
       ELSE users' = users /\ Go(r, Idle)
    /\ UNCHANGED <<minted, tabs, events, served>>

RegisterSave(r) ==
    LET h == req[r] IN
    /\ At(r, "RegisterSave") /\ ~Conflict(h)
    /\ Mint
    /\ users' = Saved(h.id, [h.row EXCEPT !.token = minted'])
    /\ Go(r, [Then(r, "RegisterReply") EXCEPT !.token = minted'])
    /\ UNCHANGED <<lastId, tabs, events, served>>

RegisterReply(r) ==
    LET h == req[r] IN
    /\ At(r, "RegisterReply")
    /\ tabs' = SignIn(h)
    /\ Go(r, Idle)
    /\ UNCHANGED <<users, lastId, minted, events, served>>

-----------------------------------------------------------------------------
(* Logging out *)

LogoutAccept(r) == \E c \in Tabs :
    /\ tabs[c].token # 0
    /\ Request(r, "logout", [Idle EXCEPT !.pc = "LogoutFind", !.tab = c, !.token = tabs[c].token])

LogoutFind(r) ==
    LET found == WithToken(req[r].token) IN
    \/ found = {} /\ Read(r, "LogoutFind", Then(r, "LogoutReply"))
    \/ \E i \in found :
          Read(r, "LogoutFind", [Then(r, "LogoutSave") EXCEPT !.id = i, !.row = users[i]])

LogoutSave(r) ==
    LET h == req[r] IN
    /\ At(r, "LogoutSave") /\ ~Conflict(h)
    /\ users' = Saved(h.id, [h.row EXCEPT !.token = 0])
    /\ Go(r, Then(r, "LogoutReply"))
    /\ UNCHANGED <<lastId, minted, tabs, events, served>>

LogoutReply(r) ==
    /\ At(r, "LogoutReply")
    /\ tabs' = SignOut(req[r].tab)
    /\ Go(r, Idle)
    /\ UNCHANGED <<users, lastId, minted, events, served>>

-----------------------------------------------------------------------------
(* A save refused by the unique email *)

SaveRefused(r) ==
    /\ Conflict(req[r])
    /\ \/ Read(r, "LoginSave", Refused(r))
       \/ Read(r, "RegisterSave", Idle)
       \/ Read(r, "LogoutSave", Idle)

-----------------------------------------------------------------------------
(* Editing a row: the profile, the staff form, and setBlock of the gateway *)

\* The profile carries the email but no password, the office's form both, although
\* the password may be left empty.
ProfileForm == [email: Emails, password: {Unset}]
StaffForm == [email: Emails, password: Passwords \cup {Unset}]

EditAccept(r) == \E i \in 1 .. lastId, typed \in ProfileForm \cup StaffForm :
    Request(r, "edit", [Idle EXCEPT !.pc = "UpdateFind", !.id = i,
                                    !.email = typed.email, !.password = typed.password])

BlockAccept(r) == \E i \in 1 .. lastId, block \in {"yes", "no"} :
    Request(r, "block", [Idle EXCEPT !.pc = "UpdateFind", !.id = i, !.block = block])

\* What follows the update: the gateway tells everybody, even of a missing row.
Told(r) == IF req[r].block = "yes" THEN [Idle EXCEPT !.pc = "BlockEmit", !.id = req[r].id] ELSE Idle

UpdateFind(r) ==
    Read(r, "UpdateFind",
         IF req[r].id \in DOMAIN users
         THEN [Then(r, "UpdateWrite") EXCEPT !.row = users[req[r].id]] ELSE Told(r))

Edited(row, h) ==
    [row EXCEPT !.email = IF h.email = None THEN @ ELSE h.email,
                !.password = h.password,
                !.blocked = IF h.block = "keep" THEN @ ELSE h.block = "yes"]

\* An email that another row has is refused, unless there is no row to write.
Clash(h) == h.id \in DOMAIN users /\ h.email # None /\ Taken(h.email, h.id)

\* Mutant: the row that was found is saved.
UpdateWriteRow(r) ==
    LET h == req[r] IN
    /\ At(r, "UpdateWrite")
    /\ users' = Saved(h.id, Edited(h.row, h))
    /\ Go(r, Told(r))
    /\ UNCHANGED <<lastId, minted, tabs, events, served>>

\* The columns of the request, and always the password: hash(String(password)).
UpdateWrite(r) ==
    LET h == req[r] IN
    /\ At(r, "UpdateWrite") /\ ~Clash(h)
    /\ users' = [i \in DOMAIN users |-> IF i = h.id THEN Edited(users[i], h) ELSE users[i]]
    /\ Go(r, Told(r))
    /\ UNCHANGED <<lastId, minted, tabs, events, served>>

UpdateRefused(r) == Clash(req[r]) /\ Read(r, "UpdateWrite", Idle)

BlockEmit(r) ==
    /\ At(r, "BlockEmit")
    /\ events' = [c \in Tabs |-> events[c] \cup {req[r].id}]
    /\ Go(r, Idle)
    /\ UNCHANGED <<users, lastId, minted, tabs, served>>

\* The page of a tab goes away: nobody waits for the answers to its requests.
Abandon(c) ==
    req' = [r \in Requests |->
        IF req[r].tab # c THEN req[r]
        ELSE IF At(r, "Refresh") THEN Idle ELSE [req[r] EXCEPT !.tab = None]]

\* Mutant: every tab takes the message for its own.
HearAny(c) == \E i \in events[c] :
    /\ tabs' = [tabs EXCEPT ![c] = Blank]
    /\ Abandon(c)
    /\ events' = [events EXCEPT ![c] = @ \ {i}]
    /\ UNCHANGED <<users, lastId, minted, served>>

\* A listener of the tab compares the id; a match empties the storage and
\* reloads the page.
Hear(c) == \E i \in events[c] :
    /\ IF i \in tabs[c].heard
       THEN tabs' = [tabs EXCEPT ![c] = Blank] /\ Abandon(c)
       ELSE UNCHANGED <<tabs, req>>
    /\ events' = [events EXCEPT ![c] = @ \ {i}]
    /\ UNCHANGED <<users, lastId, minted, served>>

\* The socket was down: what was emitted meanwhile is not sent again.
Lose(c) == \E i \in events[c] :
    /\ events' = [events EXCEPT ![c] = @ \ {i}]
    /\ UNCHANGED <<users, lastId, minted, tabs, req, served>>

-----------------------------------------------------------------------------
(* Single statements *)

\* /start and /register of the Telegram bot; a completed trip that is counted.
WriteOther == \E i \in DOMAIN users :
    /\ "other" \in Calls /\ served < MaxRequests
    /\ served' = served + 1
    /\ users' = [users EXCEPT ![i].others = @ + 1]
    /\ UNCHANGED <<lastId, minted, tabs, events, req>>

RemoveUser == \E i \in DOMAIN users :
    /\ users' = [j \in DOMAIN users \ {i} |-> users[j]]
    /\ UNCHANGED <<lastId, minted, tabs, events, req, served>>

\* The user reloads a page: what is in the storage is read again.
Reload(c) ==
    /\ tabs[c] # Loaded(tabs[c].user, tabs[c].token) \/ \E r \in Requests : req[r].tab = c
    /\ tabs' = [tabs EXCEPT ![c] = Loaded(@.user, @.token)]
    /\ Abandon(c)
    /\ UNCHANGED <<users, lastId, minted, events, served>>

Crash ==
    /\ \E r \in Requests : req[r] # Idle
    /\ req' = [r \in Requests |-> Idle]
    /\ UNCHANGED <<users, lastId, minted, tabs, events, served>>

-----------------------------------------------------------------------------

Accept(r) ==
    \/ LoginAccept(r) \/ RegisterAccept(r) \/ LogoutAccept(r)
    \/ EditAccept(r) \/ BlockAccept(r)

Handle(r) ==
    \/ SaveRefused(r) \/ LoginFind(r) \/ LoginSave(r) \/ LoginReply(r) \/ RefreshNone(r) \/ Refresh(r)
    \/ RegisterFind(r) \/ RegisterInsert(r) \/ RegisterSave(r) \/ RegisterReply(r)
    \/ LogoutFind(r) \/ LogoutSave(r) \/ LogoutReply(r)
    \/ UpdateFind(r) \/ UpdateWrite(r) \/ UpdateRefused(r) \/ BlockEmit(r)

\* One registered user: blocked, or in one of the tabs he may have signed in, and
\* it may have been loaded since.
Init ==
    /\ \E tab \in {Blank, Signed(Blank, 1, 1), Loaded(1, 1)}, blocked \in BOOLEAN :
          /\ blocked => tab = Blank
          /\ tabs = [c \in Tabs |-> IF c = CHOOSE d \in Tabs : TRUE THEN tab ELSE Blank]
          /\ users = [i \in {1} |-> [email |-> CHOOSE e \in Emails : TRUE,
                                     password |-> CHOOSE p \in Passwords : TRUE,
                                     token |-> 1, blocked |-> blocked, others |-> 0]]
    /\ lastId = 1 /\ minted = 1
    /\ events = [c \in Tabs |-> {}]
    /\ req = [r \in Requests |-> Idle] /\ served = 0

Next ==
    \/ \E r \in Requests : Accept(r) \/ Handle(r)
    \/ \E c \in Tabs : Hear(c) \/ Lose(c) \/ Reload(c)
    \/ WriteOther \/ RemoveUser \/ Crash

Spec == Init /\ [][Next]_vars
Fairness == \A r \in Requests : WF_vars(Handle(r))
=============================================================================
