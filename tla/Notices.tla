------------------------------- MODULE Notices -------------------------------
(***************************************************************************)
(* What the user can close: the messages in the corner of the screen       *)
(* (toastStore, Toaster) and the banner over the profile page              *)
(* (useNotifyBanner), which belongs to the moment setAuth was called, by a *)
(* login form or by the restore of a session after a reload.               *)
(***************************************************************************)
EXTENDS Naturals, FiniteSets

CONSTANTS MaxToasts,    \* bound: messages since the page was loaded
          Stamps,       \* bound: the moments at which setAuth is called
          NoStamp       \* null

ASSUME NoticesAssumption ==
    MaxToasts \in Nat /\ Stamps \subseteq Nat /\ NoStamp \notin Stamps

VARIABLES toasts,       \* toastStore, in whatever order they stand
          nextId,       \* _nextId
          stamp,        \* authStore.loginTimestamp
          stored,       \* sessionStorage: the stamps whose key is "1"
          banner,       \* the banner's component
          last,         \* the last moment setAuth was called: Date.now() goes on
          gone,         \* the messages closed since the page was loaded
          closedIn,     \* the stamps under which the banner was closed
          full          \* sessionStorage has refused a key

noticeVars == <<toasts, nextId, stamp, stored, banner, last, gone, closedIn, full>>

\* A closed message is drawn until its animation is over.
Toast == [id : 1..MaxToasts, open : BOOLEAN]
Banner == [mounted : BOOLEAN, dismissed : BOOLEAN]
NoBanner == [mounted |-> FALSE, dismissed |-> TRUE]

NoticesInit ==
    /\ toasts = {} /\ nextId = 0 /\ gone = {}
    /\ stamp = NoStamp /\ stored = {} /\ banner = NoBanner
    /\ last = 0 /\ closedIn = {} /\ full = FALSE

-----------------------------------------------------------------------------
(* Messages                                                                *)

\* Mutant of NewId: the number of messages there are.
NewIdOfLength == Cardinality(toasts) + 1
NewId == nextId + 1

\* useToast: success, error.
Add == /\ nextId < MaxToasts
       /\ nextId' = nextId + 1
       /\ toasts' = toasts \cup {[id |-> NewId, open |-> TRUE]}
       /\ UNCHANGED <<stamp, stored, banner, last, gone, closedIn, full>>

\* handleOpenChange(false): its time is over, or the cross, or a swipe.
CloseToast(t) ==
    /\ t \in toasts /\ t.open
    /\ toasts' = (toasts \ {t}) \cup {[t EXCEPT !.open = FALSE]}
    /\ gone' = gone \cup {t.id}
    /\ UNCHANGED <<nextId, stamp, stored, banner, last, closedIn, full>>

\* onRemove, 220 ms after: remove keeps what has another id.
OnRemove(t) ==
    /\ t \in toasts /\ ~t.open
    /\ toasts' = {other \in toasts : other.id # t.id}
    /\ UNCHANGED <<nextId, stamp, stored, banner, last, gone, closedIn, full>>

-----------------------------------------------------------------------------
(* The banner                                                              *)

\* What the state starts with, and what the effect sets it to for another key.
Dismissed(s) == s = NoStamp \/ s \in stored

\* setAuth, at a moment later than any before: after a login or a registration, and
\* when useRestore has brought a session back.  The page may be there already, if
\* a restore was faster than the form.
SetAuth(s) ==
    /\ s > last /\ last' = s /\ stamp' = s
    /\ banner' = IF banner.mounted THEN [banner EXCEPT !.dismissed = Dismissed(s)] ELSE banner
    /\ UNCHANGED <<toasts, nextId, stored, gone, closedIn, full>>

\* ProfilePage appears, to whoever is logged in.
Mount == /\ ~banner.mounted /\ stamp # NoStamp
         /\ banner' = [mounted |-> TRUE, dismissed |-> Dismissed(stamp)]
         /\ UNCHANGED <<toasts, nextId, stamp, stored, last, gone, closedIn, full>>

\* isEligible: the page shows its banner to everybody.
Eligible == TRUE

Visible == banner.mounted /\ Eligible /\ ~banner.dismissed

\* The cross. A browser that stores nothing hides it while the page is there.
Dismiss ==
    /\ Visible
    /\ \/ stored' = stored \cup {stamp} /\ UNCHANGED full
       \/ full' = TRUE /\ UNCHANGED stored
    /\ banner' = [banner EXCEPT !.dismissed = TRUE]
    /\ closedIn' = closedIn \cup {stamp}
    /\ UNCHANGED <<toasts, nextId, stamp, last, gone>>

\* Another page, or clearAuth.
Leave == /\ banner.mounted /\ banner' = NoBanner
         /\ stamp' \in {stamp, NoStamp}
         /\ UNCHANGED <<toasts, nextId, stored, last, gone, closedIn, full>>

\* The page is loaded again: sessionStorage stays, the stores do not.
LoadPage == /\ toasts' = {} /\ nextId' = 0 /\ gone' = {}
            /\ stamp' = NoStamp /\ banner' = NoBanner
            /\ UNCHANGED <<stored, last, closedIn, full>>

NoticesNext == \/ Add \/ \E t \in toasts : CloseToast(t) \/ OnRemove(t)
               \/ Mount \/ Dismiss \/ Leave \/ LoadPage
               \/ \E s \in Stamps : SetAuth(s)

-----------------------------------------------------------------------------
(* Properties *)

\* Closing takes away what was closed and nothing else: a message stays until
\* it is closed, whatever comes and goes around it, and a banner closed under a
\* stamp is not seen under it again, whichever pages come and go.
ClosedForGood ==
    /\ \A id \in 1..nextId :
          id \notin gone <=> \E t \in toasts : t.id = id /\ t.open
    /\ stamp \in closedIn /\ ~full => ~Visible
=============================================================================
