----------------------------- MODULE AdminPanel -----------------------------
(***************************************************************************)
(* The users and the servers page of the administration: the cached list   *)
(* (TanStack Query), the mutations with their invalidations and the        *)
(* optimistic deletion, the table with its search and selection, and the   *)
(* dialogs that are opened over it.                                        *)
(*                                                                         *)
(* A row is known by a version that every change of it raises.  The query  *)
(* library is modelled as this code relies on it: an invalidated list that *)
(* is on the screen is fetched again, a fetch under way is dropped for the *)
(* new one; callbacks given to useMutation always run, those given to      *)
(* mutate() only while the component that called is mounted.               *)
(***************************************************************************)
EXTENDS Naturals, FiniteSets

CONSTANTS Names,        \* users, or servers
          Calls,        \* bound: mutations in flight
          MaxVersion    \* bound: changes of one row

ASSUME PanelAssumption == IsFiniteSet(Names) /\ MaxVersion \in Nat \ {0}

VARIABLES table,        \* which page it is: "users" or "servers"
          db,           \* db[n]: the row at the server
          list,         \* list[n]: the version in the query cache, 0 for no row
          fetch,        \* the GET of the list
          call,         \* call[c]: a mutation
          dialog,       \* what is open over the table
          selected,     \* selectedUsernames
          untold        \* the server changed with no word of it to this tab

panel == <<table, db, list, fetch, call, dialog, selected, untold>>
screen == <<table, dialog, selected>>

Versions == 0..MaxVersion
List == [Names -> Versions]
Empty == [n \in Names |-> 0]
Row == [v : Versions, here : BOOLEAN]
Rows == [n \in Names |-> IF db[n].here THEN db[n].v ELSE 0]

Fetch == [at : {"idle", "asked", "read"}, data : List, fresh : BOOLEAN]
NoFetch == [at |-> "idle", data |-> Empty, fresh |-> TRUE]
Asked == [NoFetch EXCEPT !.at = "asked"]

\* before: previousUsers, kept for the rollback; mounted: the modal is open still.
Ops == {"create", "update", "role", "regenerate", "reset", "note", "toggle", "delete", "kick"}
Call == [op : Ops \cup {"none"}, names : SUBSET Names, done : BOOLEAN,
         before : List, mounted : BOOLEAN]
NoCall == [op |-> "none", names |-> {}, done |-> FALSE, before |-> Empty, mounted |-> FALSE]

Kinds == {"create", "created", "edit", "view", "delete", "kick"}
Dialog == [kind : Kinds \cup {"none"}, names : SUBSET Names]
NoDialog == [kind |-> "none", names |-> {}]

Pending(op) == \E c \in Calls : call[c].op = op
Modal(op) == \E c \in Calls : call[c].op = op /\ call[c].mounted
Closed(kind) == IF dialog.kind = kind THEN NoDialog ELSE dialog

\* The page is open and its list loaded.
PanelInit == /\ table \in {"users", "servers"}
             /\ \E here \in [Names -> BOOLEAN] : db = [n \in Names |-> [v |-> 1, here |-> here[n]]]
             /\ list = Rows
             /\ fetch = NoFetch /\ call = [c \in Calls |-> NoCall]
             /\ dialog = NoDialog /\ selected = {}
             /\ untold = FALSE

-----------------------------------------------------------------------------
(* The cached list                                                         *)

\* invalidateQueries
Invalidate == fetch' = Asked

FetchServed ==
    /\ fetch.at = "asked"
    /\ fetch' = [fetch EXCEPT !.at = "read", !.data = Rows]
    /\ UNCHANGED <<db, list, call, screen, untold>>

FetchOk ==
    /\ fetch.at = "read"
    /\ list' = fetch.data /\ untold' = ~fetch.fresh /\ fetch' = NoFetch
    /\ UNCHANGED <<db, call, screen>>

\* Twice repeated in vain (once, for a 4xx): the old rows stay.
FetchFails ==
    /\ fetch.at # "idle"
    /\ fetch' = NoFetch /\ untold' = TRUE
    /\ UNCHANGED <<db, list, call, screen>>

\* The window gets the focus and the rows are older than staleTime.
Refetch ==
    /\ fetch = NoFetch
    /\ Invalidate
    /\ UNCHANGED <<db, list, call, screen, untold>>

\* Another administrator, a webhook, the traffic collector.
Unaware == /\ untold' = TRUE
           /\ fetch' = [fetch EXCEPT !.fresh = fetch.at # "read"]

Elsewhere(n) ==
    /\ db[n].v < MaxVersion
    /\ \E here \in BOOLEAN : db' = [db EXCEPT ![n] = [v |-> db[n].v + 1, here |-> here]]
    /\ Unaware
    /\ UNCHANGED <<list, call, screen>>

-----------------------------------------------------------------------------
(* Table and dialogs                                                       *)

\* matchesFilter: whatever the search and the status filter let through; they
\* are set at will while no dialog is open, and nothing else reads them.
Shown(found) == {n \in found : list[n] # 0}

ToggleSelection(n) ==
    /\ table = "users" /\ dialog = NoDialog /\ list[n] # 0
    /\ selected' = IF n \in selected THEN selected \ {n} ELSE selected \cup {n}
    /\ UNCHANGED <<table, db, list, fetch, call, dialog, untold>>

\* allSelected looks at the numbers only.
AllSelected(found) ==
    Shown(found) # {} /\ Cardinality(selected) = Cardinality(Shown(found))

ToggleAll(found) ==
    /\ table = "users" /\ dialog = NoDialog
    /\ selected' = IF AllSelected(found) THEN {} ELSE Shown(found)
    /\ UNCHANGED <<table, db, list, fetch, call, dialog, untold>>

OnRow(names) == \E n \in Shown(Names) : names = {n}

\* Create, edit, look at or delete a user; kick whoever is selected.
UserDialogs(kind, names) ==
    /\ table = "users"
    /\ \/ kind = "create" /\ names = {}
       \/ kind \in {"view", "edit", "delete"} /\ OnRow(names)
       \/ kind = "kick" /\ ~Pending("kick") /\ selected # {} /\ names = selected

ServerDialogs(kind, names) ==
    /\ table = "servers"
    /\ \/ kind = "create" /\ names = {}
       \/ kind \in {"edit", "delete"} /\ OnRow(names)

OpenDialog(kind, names) ==
    /\ dialog = NoDialog
    /\ UserDialogs(kind, names) \/ ServerDialogs(kind, names)
    /\ dialog' = [kind |-> kind, names |-> names]
    /\ UNCHANGED <<table, db, list, fetch, call, selected, untold>>

\* Escape, the cross or Cancel, even with a call under way: it goes on, and
\* what a modal meant to do after it is dropped.
CloseDialog ==
    /\ dialog # NoDialog
    /\ dialog' = NoDialog
    /\ call' = [c \in Calls |-> [call[c] EXCEPT !.mounted = FALSE]]
    /\ UNCHANGED <<table, db, list, fetch, selected, untold>>

-----------------------------------------------------------------------------
(* Mutations: the request is sent                                          *)

Begin(c, op, names) ==
    /\ call[c] = NoCall
    /\ call' = [call EXCEPT ![c] = [NoCall EXCEPT !.op = op, !.names = names, !.mounted = TRUE]]

\* useCreateUser, useCreateServer
Create(c, n) ==
    /\ dialog.kind = "create" /\ ~Modal("create")
    /\ Begin(c, "create", {n})
    /\ UNCHANGED <<db, list, fetch, screen, untold>>

\* useUpdateUser, useUpdateServer
Update(c) ==
    /\ dialog.kind = "edit" /\ ~Modal("update")
    /\ Begin(c, "update", dialog.names)
    /\ UNCHANGED <<db, list, fetch, screen, untold>>

\* AccessTab, TrafficTab: each with a confirmation of its own.
InTab(c, op) ==
    /\ table = "users" /\ dialog.kind = "edit" /\ op \in {"role", "regenerate", "reset"}
    /\ ~Modal(op)
    /\ Begin(c, op, dialog.names)
    /\ UNCHANGED <<db, list, fetch, screen, untold>>

\* UserViewModal.handleSaveNote
SaveNote(c) ==
    /\ dialog.kind = "view" /\ ~Modal("note")
    /\ Begin(c, "note", dialog.names)
    /\ UNCHANGED <<db, list, fetch, screen, untold>>

\* ActiveToggle: in the row, without a dialog; the switch of that row waits.
ToggleActive(c, n) ==
    /\ table = "servers" /\ dialog = NoDialog /\ list[n] # 0
    /\ \A d \in Calls : call[d].op = "toggle" => n \notin call[d].names
    /\ Begin(c, "toggle", {n})
    /\ UNCHANGED <<db, list, fetch, screen, untold>>

\* useKickUsers: whoever is selected, shown or not.
Kick(c) ==
    /\ dialog.kind = "kick" /\ ~Pending("kick") /\ selected # {}
    /\ Begin(c, "kick", selected)
    /\ UNCHANGED <<db, list, fetch, screen, untold>>

\* onMutate of useDeleteUser and useDeleteServer: a fetch under way is
\* cancelled, the rows are remembered, and the row is taken out at once.
Delete(c) ==
    /\ dialog.kind = "delete" /\ ~Pending("delete") /\ call[c] = NoCall
    /\ fetch' = NoFetch
    /\ call' = [call EXCEPT ![c] = [NoCall EXCEPT !.op = "delete", !.names = dialog.names,
                                                 !.before = list, !.mounted = TRUE]]
    /\ list' = [n \in Names |-> IF n \in dialog.names THEN 0 ELSE list[n]]
    /\ UNCHANGED <<db, screen, untold>>

-----------------------------------------------------------------------------
(* Mutations: the server, and the answer                                   *)

\* A name to create must be free, any other has to be there still.
Served(c) ==
    /\ call[c].op # "none" /\ ~call[c].done
    /\ \E n \in call[c].names : db[n].here = (call[c].op # "create")
    /\ \A n \in call[c].names : db[n].v < MaxVersion
    /\ db' = [n \in Names |->
          IF n \in call[c].names /\ (db[n].here \/ call[c].op = "create")
          THEN [v |-> db[n].v + 1, here |-> call[c].op # "delete"] ELSE db[n]]
    /\ call' = [call EXCEPT ![c].done = TRUE]
    /\ UNCHANGED <<list, fetch, screen, untold>>

Settle(c) == call' = [call EXCEPT ![c] = NoCall]

\* onSuccess of the hook, then of mutate(): the modal shows what was created,
\* or goes; the dialogs of the table go, whoever they are open for.
Succeeds(c) ==
    /\ call[c].done
    /\ Settle(c)
    /\ Invalidate
    /\ selected' = IF call[c].op = "kick" THEN {} ELSE selected
    /\ dialog' = CASE call[c].op \in {"delete", "kick"} -> Closed(call[c].op)
                   [] call[c].op = "update" /\ call[c].mounted -> NoDialog
                   [] call[c].op = "create" /\ call[c].mounted /\ table = "servers" -> NoDialog
                   [] call[c].op = "create" /\ call[c].mounted /\ table = "users" ->
                          [kind |-> "created", names |-> call[c].names]
                   [] OTHER -> dialog
    /\ UNCHANGED <<table, db, list, untold>>

\* Mutant of DeleteFails: nothing is invalidated after an error.
DeleteFailsQuietly(c) ==
    /\ call[c].op = "delete"
    /\ Settle(c)
    /\ list' = call[c].before
    /\ dialog' = Closed("delete")
    /\ UNCHANGED <<table, db, fetch, selected, untold>>

\* onError puts the remembered rows back, onSettled fetches the true ones.
DeleteFails(c) ==
    /\ call[c].op = "delete"
    /\ Settle(c)
    /\ list' = call[c].before
    /\ Invalidate
    /\ dialog' = Closed("delete")
    /\ UNCHANGED <<table, db, selected, untold>>

\* Refused, or the answer lost: the modal stays for another try.
Fails(c) ==
    /\ call[c].op \notin {"none", "delete"}
    /\ Settle(c)
    /\ dialog' = IF call[c].op = "kick" THEN Closed("kick") ELSE dialog
    /\ IF call[c].done THEN Unaware ELSE UNCHANGED <<fetch, untold>>
    /\ UNCHANGED <<table, db, list, selected>>

-----------------------------------------------------------------------------
(* Behaviour                                                               *)

Answer(c) == Succeeds(c) \/ DeleteFails(c) \/ Fails(c)

PanelNext == \/ FetchServed \/ FetchOk \/ FetchFails \/ Refetch
             \/ \E n \in Names : Elsewhere(n) \/ ToggleSelection(n)
             \/ CloseDialog
             \/ \E names \in SUBSET Names :
                   ToggleAll(names) \/ \E kind \in Kinds : OpenDialog(kind, names)
             \/ \E c \in Calls : \/ \E n \in Names : Create(c, n) \/ ToggleActive(c, n)
                                 \/ Update(c) \/ SaveNote(c) \/ Kick(c) \/ Delete(c)
                                 \/ \E op \in Ops : InTab(c, op)
                                 \/ Served(c) \/ Answer(c)

PanelSpec == PanelInit /\ [][PanelNext]_panel

-----------------------------------------------------------------------------
(* Properties *)

PanelTypeOK == /\ table \in {"users", "servers"}
               /\ db \in [Names -> Row] /\ list \in List
               /\ fetch \in Fetch /\ call \in [Calls -> Call] /\ dialog \in Dialog
               /\ selected \subseteq Names /\ untold \in BOOLEAN

\* "Rolls back on error, asks for the data again when done": once no call and
\* no fetch is under way the table shows what the server has, but for changes
\* nobody told this tab of - optimistic deletions, rollbacks and answers in any
\* order notwithstanding.
Quiet == fetch = NoFetch /\ \A c \in Calls : call[c] = NoCall
ListConverges == Quiet /\ ~untold => list = Rows
=============================================================================
