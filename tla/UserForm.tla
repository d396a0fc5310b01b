------------------------------ MODULE UserForm ------------------------------
(***************************************************************************)
(* The administrator's forms for a user, to create one and to edit one:    *)
(* the fields and their defaults, the tabs, the two buttons that move the  *)
(* end of a subscription, the validation, and what is sent to the API,     *)
(* which checks it again.  The account may be paid or switched off while   *)
(* the form is open.  The fields that go unchanged from the form to the    *)
(* row, `allowed' and the statuses, are left out.                          *)
(***************************************************************************)
EXTENDS Account, FiniteSets

CONSTANTS QuickDays,    \* 29
          Shifts,       \* what a summer time between two dates moves a clock by
          Typed,        \* bound: the dates one types
          FormTime      \* bound: how late a form may be open

ASSUME FormAssumption ==
    /\ QuickDays \in Nat \ {0} /\ Shifts \subseteq Int
    /\ Typed \subseteq [day : 0..((MaxExpiry + Offset) \div Day), minute : 0..(Day \div Minute)]
    /\ FormTime \in 0..MaxTime
    /\ \A s \in Shifts : QuickDays * Day + s > Minute

VARIABLE form           \* the open modal

formVars == <<form>>

Tabs == {"main", "access", "traffic"}
Names == {"", "plain"}                  \* refused by both sides; letters and digits
\* Up to 7 characters; 8 of the UTF-16 units that zod counts and fewer characters,
\* which pydantic counts; 8 of both.
Passwords == {"", "short", "wide", "fine"}
Inputs == [day : 0..((MaxExpiry + Offset) \div Day),
           minute : 0..(Day \div Minute + Hour \div Minute)] \cup {None}

\* drawn: when the modal was drawn last; base: the end that the account had when
\* it was opened; by: what has set the date since.
Form == [mode : {"closed", "edit", "create", "created"}, tab : Tabs,
         name : Names, password : Passwords, active : BOOLEAN, expires : Inputs,
         base : Moments \cup {None}, by : {"nobody", "extend", "other"}, drawn : 0..MaxTime]
Closed == [mode |-> "closed", tab |-> "main", name |-> "", password |-> "",
           active |-> FALSE, expires |-> None,
           base |-> None, by |-> "nobody", drawn |-> 0]

FormInit == form = Closed

Open == form.mode \in {"edit", "create"}
Set(new) == form' = [new EXCEPT !.drawn = now] /\ UNCHANGED <<now, account>>

\* UserEditModal: the defaults come from the row that was clicked.
OpenEdit ==
    /\ form.mode = "closed"
    /\ Set([Closed EXCEPT !.mode = "edit", !.active = account.active,
               !.expires = ToInput(account.expires), !.base = account.expires])

OpenCreate ==
    /\ form.mode = "closed"
    /\ Set([Closed EXCEPT !.mode = "create"])

Close == form.mode # "closed" /\ form' = Closed /\ UNCHANGED <<now, account>>

GoTab(tab) ==
    /\ Open /\ form.mode = "edit" /\ tab # form.tab
    /\ Set([form EXCEPT !.tab = tab])

-----------------------------------------------------------------------------
(* The fields                                                              *)

OnMain == Open /\ form.tab = "main"

SetActive == OnMain /\ Set([form EXCEPT !.active = ~form.active])
TypeExpires(v) == OnMain /\ v # form.expires
                  /\ Set([form EXCEPT !.expires = v, !.by = "other"])
TypeName(n) == OnMain /\ form.mode = "create" /\ n # form.name
               /\ Set([form EXCEPT !.name = n])
\* The password stands with the name to create a user, on its own tab to edit one.
TypePassword(p) ==
    /\ Open /\ form.tab = (IF form.mode = "create" THEN "main" ELSE "access")
    /\ p # form.password
    /\ Set([form EXCEPT !.password = p])

\* What the two buttons look at is as old as the drawing.
HasActiveSubscription == form.active /\ Running(FromInput(form.expires), form.drawn)
CanStartSubscription == ~Running(FromInput(form.expires), form.drawn)

\* addDays with setDate counts days of the browser's own zone.
AddDays(t, s) == t + QuickDays * Day + s

Extended(e) == [form EXCEPT !.expires = ToInput(e),
                            !.by = IF @ = "nobody" THEN "extend" ELSE @]

\* Mutant of Extend: the days are added to the present, as Start does.
ExtendFromNow(s) ==
    /\ OnMain /\ HasActiveSubscription
    /\ AddDays(form.drawn, s) <= MaxExpiry
    /\ Set(Extended(AddDays(form.drawn, s)))

Extend(s) ==
    /\ OnMain /\ HasActiveSubscription
    /\ AddDays(FromInput(form.expires), s) <= MaxExpiry
    /\ Set(Extended(AddDays(FromInput(form.expires), s)))

Start(s) ==
    /\ OnMain /\ CanStartSubscription
    /\ AddDays(form.drawn, s) <= MaxExpiry
    /\ Set([form EXCEPT !.active = TRUE, !.expires = ToInput(AddDays(form.drawn, s)),
                        !.by = "other"])

-----------------------------------------------------------------------------
(* Validation and the request                                              *)

Named(f) == f.name = "plain" /\ f.password \in {"wide", "fine"}

\* Mutant of Valid: a date is not looked at.
ValidUndated(f) == f.mode = "create" => Named(f)

\* createUserSchema, updateUserSchema: an empty or short password passes the
\* latter, a date that cannot be read neither.
Valid(f) == /\ f.mode = "create" => Named(f)
            /\ f.expires # None => Readable(f.expires)

\* CreateUserRequest and UpdateUserRequest of the API.
Accepted(f) == IF f.mode = "create" THEN f.name = "plain" /\ f.password = "fine"
               ELSE f.password \in {"", "fine"}

\* The row after a PATCH of all that the form holds, as it was opened or set.
Written(f) == [account EXCEPT !.active = f.active, !.expires = FromInput(f.expires)]

\* The button of a form that is valid.
Saves == /\ Open /\ form.tab # "traffic" /\ Valid(form)
         /\ Written(form) \in Account         \* bound
         /\ UNCHANGED now

\* Saved: the edit is written and its modal goes, a new user's password is shown.
Submit ==
    /\ Saves /\ Accepted(form)
    /\ form' = IF form.mode = "edit" THEN Closed
               ELSE [Closed EXCEPT !.mode = "created", !.drawn = now]
    /\ account' = IF form.mode = "edit" THEN Written(form) ELSE account

\* The API refuses, is not reached, or its answer is lost: the modal stays.
SubmitFails ==
    /\ Saves
    /\ form' = [form EXCEPT !.drawn = now]
    /\ \/ UNCHANGED account
       \/ form.mode = "edit" /\ Accepted(form) /\ account' = Written(form)

FormWaits == /\ now < FormTime /\ now' = now + 1 /\ UNCHANGED <<account, formVars>>

FormNext ==
    \/ OpenEdit \/ OpenCreate \/ Close \/ SetActive \/ Submit \/ SubmitFails \/ FormWaits
    \/ \E tab \in Tabs : GoTab(tab)
    \/ \E v \in Typed \cup {None} : TypeExpires(v)
    \/ \E n \in Names : TypeName(n)
    \/ \E p \in Passwords : TypePassword(p)
    \/ \E s \in Shifts : Extend(s) \/ Start(s)
    \/ AccountNext /\ UNCHANGED <<now, formVars>>

-----------------------------------------------------------------------------
(* Properties *)

FullMinute(e) == IF e = None THEN None ELSE e - (e % Minute)

\* A form that nobody has typed a date into takes no time away from an account
\* that is as it was when the form was opened, untouched or prolonged, however the
\* browser writes midnight: over to the Moscow clock and back, as often as it is.
NoTimeTaken ==
    [][/\ form.base # None /\ form.base = account.expires /\ form.by # "other"
       /\ Submit \/ SubmitFails
       => account'.expires # None /\ account'.expires >= FullMinute(form.base)]_<<account, form>>

\* "Extend: for the active ones, 29 days on top of the final date"
\* (UserEditForm.tsx:564): saved, the account ends no earlier than it did, to the
\* minute.
ExtendAddsToEnd ==
    [][Submit /\ form.mode = "edit" /\ form.by = "extend" /\ account.expires # None
          => account'.expires >= FullMinute(account.expires)]_<<account, form>>
=============================================================================
