------------------------ MODULE DashboardDisciplines ------------------------
(***************************************************************************)
(* What the office may rely on when it works with the dashboard, and what  *)
(* it must not do for that: history variables record what was opened and   *)
(* the disciplines a behaviour has broken.                                 *)
(***************************************************************************)
EXTENDS Dashboard

VARIABLES
    opened,     \* the form opened last: of which row (0: a new one); whether it was
                \* closed by hand or answered since, and from which slots it was sent
    broken

Submitted(r) == req[r] = Idle /\ req'[r].op \in {"add", "update", "staff"}
Pending == {r \in Requests : req[r].op \in {"add", "update", "staff"}}
Opening == dialog'.open /\ panel' = panel /\ ~Overlay /\ clicks' # clicks

\* The form has something typed in it that its entity does not have.
Touched == form.fields # Filled(panel, Given(panel, current, selected), dialog.add).fields

\* The browser's back button is not used while a form is open.
NoBack == panel' # panel => ~dialog.open
\* A form is sent once, and is left alone until it is answered and gone.
OneSend == \A r \in Requests : Submitted(r) => Pending = {} /\ ~form.closing
Waits == Close => Pending = {}
\* A form that was typed into is not opened again while the panel is shown.
NoAbandon == Opening => ~Touched
\* A list is not asked for while an earlier answer is on its way.
InOrder == \A f \in fetches : f.read => ~\E g \in fetches' : g.kinds \cap f.kinds # {} /\ ~g.read
NoLoss == (\A f \in fetches : ~FetchFail(f)) /\ (\A r \in Requests : ~Fail(r))

Breaks ==
    {d \in {"form", "list"} :
        \/ d = "form" /\ ~(NoBack /\ OneSend /\ Waits /\ NoAbandon)
        \/ d = "list" /\ (~InOrder \/ ~NoLoss \/ Elsewhere)}

Kept(disciplines) == broken \cap disciplines = {}

DisciplineInit ==
    /\ Init /\ broken = {}
    /\ opened = [kind |-> "none", id |-> 0, done |-> FALSE, sent |-> {}]

Record ==
    /\ opened' = IF Opening
                 THEN [kind |-> panel, done |-> FALSE, sent |-> {},
                       id |-> IF dialog'.add THEN 0 ELSE Given(panel, current', selected').id]
                 ELSE [opened EXCEPT
                       !.done = @ \/ Close \/ \E r \in opened.sent : Reply(r),
                       !.sent = (@ \cup {r \in Requests : Submitted(r)})
                                    \ {r \in Requests : Reply(r)}]
    /\ broken' = broken \cup Breaks

DisciplineSpec == DisciplineInit /\ [][Next /\ Record]_<<vars, opened, broken>>

-----------------------------------------------------------------------------

\* Once all requests are answered the lists of the panel are the tables, wherever
\* it was when they were sent, while answers come, and in order, and nobody else writes.
ListTrue ==
    Kept({"list"}) /\ fetches = {} /\ (\A r \in Requests : req[r] = Idle) =>
        \A k \in Needs(panel) : lists[k] = Listed(k)

\* A form opens on the row whose pencil was clicked (and a new row's opens empty), and
\* updates only that row, while a form that was typed into is not opened again and
\* the back button is not used with one open.
EditsClicked == [][
    /\ Opening /\ panel \in Forms /\ Kept({"form"})' =>
          form'.fields = IF opened'.id = 0 THEN Blank ELSE Fields(panel, lists[panel][opened'.id])
    /\ Kept({"form"})' => \A r \in Requests : Submitted(r) /\ req'[r].op = "update" =>
          req'[r].kind = opened.kind /\ req'[r].id = opened.id]_vars

\* A form closes only by hand or after an answer to its own request, while forms are
\* sent once and left alone until answered and the back button is not used with one open.
ClosesOwn == [][Kept({"form"})' => (dialog.open /\ ~dialog'.open => opened'.done)]_vars
=============================================================================
