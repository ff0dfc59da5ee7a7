------------------------------ MODULE Sessions ------------------------------
(***************************************************************************)
(* Who is signed in, in the tabs of one browser: AuthProvider of           *)
(* src/frontend/src/contexts/AuthContext.tsx, which keeps the token and    *)
(* the user in localStorage, and the sign-in and sign-up forms that call   *)
(* it.  The tabs share localStorage and do not listen for each other's     *)
(* changes of it.                                                          *)
(*                                                                         *)
(* A token and a stored user are abstracted to the account they are of.    *)
(* The server's side is in UserStore; here it answers or refuses.  Nobody  *)
(* else writes the two items, so that what is stored can be parsed.        *)
(***************************************************************************)
EXTENDS Naturals, FiniteSets

CONSTANTS
  Tabs,
  People,      \* the accounts of the people who share the browser
  MaxCalls,    \* bound: the sign-ins and sign-ups ever sent
  Nobody

VARIABLES
  tabs,        \* the state of each tab's AuthProvider
  storage,     \* localStorage: bery_token and bery_user
  calls,       \* the requests under way, by number
  sent,        \* how many there were
  foreign,     \* the tabs whose storage another tab has written since they read it
  split        \* the second of two setItem() threw

sessionVars == <<tabs, storage, calls, sent, foreign, split>>

Items    == [token : People \cup {Nobody}, user : People \cup {Nobody}]
NoItems  == [token |-> Nobody, user |-> Nobody]
Of(who)  == [token |-> who, user |-> who]
Tab(loading, items) == [loading |-> loading, items |-> items]

\* The effect of AuthProvider.
TabLoads(t) ==
  /\ tabs[t].loading
  /\ tabs' = [tabs EXCEPT ![t] =
                Tab(FALSE, IF Nobody \in {storage.token, storage.user}
                             THEN NoItems ELSE storage)]
  /\ foreign' = foreign \ {t}
  /\ UNCHANGED <<storage, calls, sent, split>>

\* login() or signup(): a form that is left and opened again sends another one.
FormSubmitted(t) ==
  /\ ~ tabs[t].loading
  /\ sent < MaxCalls
  /\ sent' = sent + 1
  /\ \E who \in People : calls' = calls \cup {[n |-> sent + 1, tab |-> t, who |-> who]}
  /\ UNCHANGED <<tabs, storage, foreign, split>>

\* Both items are stored, then the state is set, whoever is signed in by then.
SignedIn == \E c \in calls :
  /\ calls' = calls \ {c}
  /\ storage' = Of(c.who) /\ split' = FALSE
  /\ tabs' = [tabs EXCEPT ![c.tab].items = Of(c.who)]
  /\ foreign' = (foreign \cup Tabs) \ {c.tab}
  /\ UNCHANGED sent

\* The server refuses, or does not answer.
SignInFails == \E c \in calls :
  /\ calls' = calls \ {c}
  /\ UNCHANGED <<tabs, storage, sent, foreign, split>>

\* The storage is full: the token is stored and the user is not.
StorageFull == \E c \in calls :
  /\ calls' = calls \ {c}
  /\ storage' = [storage EXCEPT !.token = c.who] /\ split' = TRUE
  /\ UNCHANGED <<tabs, sent, foreign>>

SignedOut(t) ==
  /\ tabs[t].items.user # Nobody
  /\ storage' = NoItems /\ split' = FALSE
  /\ tabs' = [tabs EXCEPT ![t].items = NoItems]
  /\ foreign' = (foreign \cup Tabs) \ {t}
  /\ UNCHANGED <<calls, sent>>

\* The tab is loaded anew; its requests are gone, and their answers not heard.
Reloaded(t) ==
  /\ tabs' = [tabs EXCEPT ![t] = Tab(TRUE, NoItems)]
  /\ calls' = {c \in calls : c.tab # t}
  /\ UNCHANGED <<storage, sent, foreign, split>>

SessionInit ==
  /\ tabs = [t \in Tabs |-> Tab(TRUE, NoItems)]
  /\ storage = NoItems
  /\ calls = {} /\ sent = 0
  /\ foreign = {} /\ split = FALSE

SessionNext ==
  \/ \E t \in Tabs : TabLoads(t) \/ FormSubmitted(t) \/ SignedOut(t) \/ Reloaded(t)
  \/ SignedIn \/ SignInFails \/ StorageFull

-----------------------------------------------------------------------------
SessionTypeOK ==
  /\ tabs \in [Tabs -> [loading : BOOLEAN, items : Items]]
  /\ storage \in Items
  /\ calls \subseteq [n : 1..MaxCalls, tab : Tabs, who : People]
  /\ sent \in 0..MaxCalls
  /\ foreign \subseteq Tabs
  /\ split \in BOOLEAN

\* The token and the user that are stored are of one account, and are those that a
\* tab has in use, until another tab writes them or the storage is full.
SessionStored ==
  ~ split => /\ storage.token = storage.user
             /\ \A t \in Tabs \ foreign :
                  tabs[t].loading \/ tabs[t].items = storage

=============================================================================
