------------------------- MODULE AccountDisciplines -------------------------
(***************************************************************************)
(* What accounts and sessions promise, with a history of the disciplines a *)
(* behaviour has broken and of the tokens whose logout was answered.       *)
(***************************************************************************)
EXTENDS Accounts

VARIABLES
    broken,     \* the disciplines broken so far
    ended       \* tokens whose logout was answered

\* A remembered row is still the row when it is saved.
FreshSave == \A r \in Requests :
    LoginSave(r) \/ RegisterSave(r) \/ LogoutSave(r) =>
        req[r].id \in DOMAIN users /\ users[req[r].id] = req[r].row
\* Every edit carries a password.
FullEdit == \A r \in Requests : UpdateWrite(r) => req[r].password # Unset
\* Two tokens are not minted in the same second.
NewSecond == \A r \in Requests : LoginSave(r) \/ RegisterSave(r) => minted' # minted
\* A user is not blocked while somebody signs in as him.
NoBlockedLogin == \A r \in Requests : UpdateWrite(r) /\ req[r].block = "yes" =>
    \A q \in Requests : req[q].pc \in {"LoginSave", "LoginReply", "RegisterSave", "RegisterReply"} =>
        req[q].id # req[r].id
\* Every tab hears of every block.
Heard == (\A c \in Tabs : ~Lose(c)) /\ ~(Crash /\ \E r \in Requests : At(r, "BlockEmit"))
\* A page in which somebody signed in is loaded anew before somebody else does.
OneUser == \A c \in Tabs : Cardinality(tabs[c].heard \ {0}) <= 1

Breaks ==
    {d \in {"save", "edit", "second", "login", "heard", "user"} :
        \/ d = "save" /\ ~FreshSave
        \/ d = "edit" /\ ~FullEdit
        \/ d = "second" /\ ~NewSecond
        \/ d = "login" /\ ~NoBlockedLogin
        \/ d = "heard" /\ ~Heard
        \/ d = "user" /\ ~OneUser'}

Kept(disciplines) == broken \cap disciplines = {}

DisciplineInit == Init /\ broken = {} /\ ended = {}

DisciplineSpec ==
    /\ DisciplineInit
    /\ [][/\ Next
          /\ broken' = broken \cup Breaks
          /\ ended' = ended \cup {req[r].token : r \in {q \in Requests : LogoutReply(q)}}
         ]_<<vars, broken, ended>>
    /\ Fairness

-----------------------------------------------------------------------------

\* Types; and two rows never share an email, however registrations overlap and
\* saves bring removed rows back.
TypeOK ==
    /\ \A i, j \in DOMAIN users : users[i].email = users[j].email => i = j
    /\ DOMAIN users \subseteq Ids /\ \A i \in DOMAIN users : users[i] \in User
    /\ lastId \in Ids /\ minted \in Nat
    /\ tabs \in [Tabs -> Tab]
    /\ events \in [Tabs -> SUBSET Ids]
    /\ \A r \in Requests : req[r].row = NoRow \/ req[r].row \in User

\* What others wrote stays: no trip is uncounted and no chat unlinked, only an edit
\* changes an email, blocks or unblocks, and a removed row stays removed, while rows are saved as
\* fresh as they were read; and a password stays one that was typed, so that its
\* user can sign in with it, while every edit carries one.
NothingLost == [][Kept({"save"})' =>
    /\ \A i \in DOMAIN users \cap DOMAIN users' :
          /\ users'[i].others >= users[i].others
          /\ <<users'[i].email, users'[i].blocked>> # <<users[i].email, users[i].blocked>> =>
                \E r \in Requests : UpdateWrite(r)
          /\ Kept({"edit"})' => users'[i].password # Unset
    /\ DOMAIN users' \ DOMAIN users \subseteq {lastId + 1}]_vars

\* Once a logout is answered no row has its token: the session cannot be
\* refreshed, whatever is saved late, but for a login in the same second.
LoggedOut == Kept({"second"}) => \A i \in DOMAIN users : users[i].token \notin ended \ {0}

\* A blocked user has no session in any tab, other than one that is about to hear
\* of the block, while he is not blocked during a sign-in and the message arrives.
NoBlockedSession == Kept({"save", "login", "heard"}) => \A c \in Tabs :
    tabs[c].user \in DOMAIN users /\ users[tabs[c].user].blocked =>
        \/ tabs[c].user \in events[c]
        \/ \E r \in Requests : At(r, "BlockEmit") /\ req[r].id = tabs[c].user

\* A tab loses its session only by a request of its own or the block of its user,
\* while nobody else signed in on the page before.
SessionKept == [][Kept({"user"}) => \A c \in Tabs :
    tabs[c].user # 0 /\ tabs'[c].user # tabs[c].user =>
        tabs[c].user \in events[c] \/ (\E r \in Requests : req[r].tab = c /\ req'[r] = Idle)]_vars

\* A request is answered, again and again, unless its refresh token is one that no
\* row has: then the interceptor refreshes for ever.
RequestEnds == \A r \in Requests : []<>
    (req[r] = Idle \/ (At(r, "Refresh") /\ WithToken(tabs[req[r].tab].first) = {}))
=============================================================================
