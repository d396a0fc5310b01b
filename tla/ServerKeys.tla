----------------------------- MODULE ServerKeys -----------------------------
(***************************************************************************)
(* The servers a user may choose from and the connection URLs for them:    *)
(* initServerData fills the store that the browser keeps, the user selects *)
(* a server and reads its URL off the connection card.                     *)
(*                                                                         *)
(* initServerData reads selectedServer before its first request and judges *)
(* it after the last one; login, restore and the card's button each start  *)
(* one, and only the button waits for its own to end.                      *)
(***************************************************************************)
EXTENDS Naturals

CONSTANTS Servers,      \* bound
          Runs,         \* bound: calls of initServerData under way
          NoServer      \* null

ASSUME KeysAssumption == NoServer \notin Servers

VARIABLES live,         \* the active servers, at the backend
          store,        \* serverStore
          run,          \* run[r]: a call of initServerData
          confused      \* a list has come without its URLs, or an upset call had its say

keyVars == <<live, store, run, confused>>

Choice == Servers \cup {NoServer}
\* urls: the servers whose URL is in urlMap.
Store == [servers : SUBSET Servers, urls : SUBSET Servers, selected : Choice]
NoStore == [servers |-> {}, urls |-> {}, selected |-> NoServer]

\* snapshot: selectedServer at the beginning; alone: no write of another has
\* Upset the call.
Run == [at : {"idle", "asked", "listed"}, list : SUBSET Servers, urls : SUBSET Servers,
        waits : SUBSET Servers, snapshot : Choice, alone : BOOLEAN]
Idle == [at |-> "idle", list |-> {}, urls |-> {}, waits |-> {},
         snapshot |-> NoServer, alone |-> TRUE]

\* partialize keeps the three fields over a restart of the browser.
KeysInit == /\ live \in SUBSET Servers
            /\ store \in {st \in Store : st.urls \subseteq st.servers
                                         /\ st.selected \in st.servers \cup {NoServer}}
            /\ run = [r \in Runs |-> Idle]
            /\ confused = FALSE

Busy == \E r \in Runs : run[r].at # "idle"

\* A write to the store that a call under way will not take into account: another
\* choice than its snapshot before its list is there, another list after, or a
\* choice then that is on no list.
Upset(r, st) ==
    \/ run[r].at = "asked" /\ st.selected # store.selected
    \/ run[r].at = "listed" /\ \/ st.servers # store.servers
                               \/ /\ st.selected # store.selected
                                  /\ st.selected \notin st.servers \cup {NoServer}
After(st) == [r \in Runs |-> [run[r] EXCEPT !.alone = @ /\ ~Upset(r, st)]]

\* A login, a restore, handleRefresh of the card.
Begin(r) ==
    /\ run[r].at = "idle"
    /\ run' = [run EXCEPT ![r] = [Idle EXCEPT !.at = "asked", !.snapshot = store.selected]]
    /\ UNCHANGED <<live, store, confused>>

\* getServers is answered: the list is stored, a URL asked for each in it.
Listed(r) ==
    /\ run[r].at = "asked"
    /\ store' = [store EXCEPT !.servers = live]
    /\ run' = [After(store') EXCEPT ![r] =
                  [run[r] EXCEPT !.at = "listed", !.list = live, !.waits = live]]
    /\ confused' = TRUE
    /\ UNCHANGED live

ListLost(r) ==
    /\ run[r].at = "asked"
    /\ run' = [run EXCEPT ![r] = Idle]
    /\ UNCHANGED <<live, store, confused>>

\* One generateUrl is answered or fails: allSettled waits for the others.
UrlServed(r, s) ==
    /\ s \in run[r].waits
    /\ \E got \in {{}, {s}} : run' = [run EXCEPT ![r].waits = @ \ {s}, ![r].urls = @ \cup got]
    /\ UNCHANGED <<live, store, confused>>

\* active[0], in whatever order the backend gave.
FirstOf(list) == IF list = {} THEN {NoServer} ELSE list

\* Mutant of Choose: a choice is kept though its server is gone.
ChooseKept(r) == IF run[r].snapshot # NoServer THEN {store.selected} ELSE FirstOf(run[r].list)
Choose(r) == IF run[r].snapshot \in run[r].list THEN {store.selected} ELSE FirstOf(run[r].list)

\* All are settled: the map is replaced, the first choice judged.
Settled(r) ==
    /\ run[r].at = "listed" /\ run[r].waits = {}
    /\ \E s \in Choose(r) :
          store' = [store EXCEPT !.urls = run[r].urls, !.selected = s]
    /\ run' = [After(store') EXCEPT ![r] = Idle]
    /\ confused' = ~run[r].alone
    /\ UNCHANGED live

\* ServerSelector: a click on one of the servers in the store.
Select(s) ==
    /\ s \in store.servers
    /\ store' = [store EXCEPT !.selected = s]
    /\ run' = After(store')
    /\ UNCHANGED <<live, confused>>

\* clearAuth calls clearServer and does not stop what is under way.
ClearServer == /\ store' = NoStore /\ run' = After(NoStore) /\ confused' = FALSE
               /\ UNCHANGED live

\* The page is loaded again: the calls are gone, the store is not.
Restart == /\ Busy
           /\ run' = [r \in Runs |-> Idle]
           /\ UNCHANGED <<live, store, confused>>

\* An administrator adds, removes, switches servers.
Administered == /\ \E l \in SUBSET Servers : l # live /\ live' = l
                /\ UNCHANGED <<store, run, confused>>

KeysNext ==
    \/ \E r \in Runs : Begin(r) \/ Listed(r) \/ ListLost(r) \/ Settled(r)
    \/ \E r \in Runs, s \in Servers : UrlServed(r, s)
    \/ \E s \in Servers : Select(s)
    \/ ClearServer \/ Restart \/ Administered

-----------------------------------------------------------------------------
(* Properties *)

\* Calls may overlap each other, the clicks of the user and a logout: once the
\* last of them to write was not upset, the card shows a server that is on the
\* list, or none, and has URLs for servers on the list only.
SelectedIsListed ==
    ~confused => /\ store.selected \in store.servers \cup {NoServer}
                 /\ store.urls \subseteq store.servers
=============================================================================
