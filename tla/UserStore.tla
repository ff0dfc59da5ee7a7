----------------------------- MODULE UserStore -----------------------------
(***************************************************************************)
(* The accounts of the portal: POST /auth/signup and /auth/signin of       *)
(* src/src/api/index.ts over the two stores of src/src/auth, a JSON file or *)
(* a PostgreSQL table, of which index.ts takes the second when a URL is    *)
(* configured.                                                             *)
(*                                                                         *)
(* create() looks the email up, awaits bcrypt, and then writes; a sign-in  *)
(* looks the email up and awaits the comparison; any other request can run *)
(* meanwhile.  A password is abstracted to the sign-up it came with, and a *)
(* token to the account it names.                                          *)
(***************************************************************************)
EXTENDS JsonFile

CONSTANTS
  Signups,     \* bound: the sign-up requests ever sent
  Signins,     \* bound: the sign-in requests ever sent
  Emails       \* lower-cased, as both stores compare them

Account == [email : Emails, password : Signups]
Accounts == UNION {[E -> Account] : E \in SUBSET Emails}

VARIABLES
  database,    \* DATABASE_URL is configured
  table,       \* the rows of users, by email
  users,       \* UserStore.users and users.json
  signup,      \* what each sign-up request does
  signin,      \* what each sign-in request does
  acked,       \* the accounts whose sign-up or sign-in was answered with a token
  raced        \* emails that were taken while a sign-up of them awaited bcrypt

userVars == <<database, table, users, signup, signin, acked, raced>>

Unsent  == [stage |-> "unsent"]
Refused == [stage |-> "refused"]     \* of a sign-in also: answered
Asking(stage, email) == [stage |-> stage, email |-> email]

\* findByEmail() of the store that is used.
UserMap == IF database THEN table ELSE users.memory

\* verifyPassword(): the password is that of the account found.
SignsIn(account) ==
  account.email \in DOMAIN UserMap /\ UserMap[account.email] = account

At(s, stage) == signup[s].stage = stage
Moves(s, next) == signup' = [signup EXCEPT ![s] = next]
AccountOf(s) == [email |-> signup[s].email, password |-> s]

SignUp(s) ==
  /\ At(s, "unsent")
  /\ \E e \in Emails : Moves(s, Asking("find", e))
  /\ UNCHANGED <<database, table, users, acked, raced, signin>>

\* create(): the email is looked up ...
Looked(s) ==
  /\ At(s, "find")
  /\ Moves(s, IF signup[s].email \in DOMAIN UserMap THEN Refused
              ELSE Asking("hash", signup[s].email))
  /\ UNCHANGED <<database, table, users, acked, raced, signin>>

\* ... the password is hashed, and the account goes into the map whoever is
\* there by now, and the map is saved ...
HashedToFile(s) ==
  /\ At(s, "hash") /\ ~ database
  /\ users' = Put(users, signup[s].email, AccountOf(s), s)
  /\ raced' = IF signup[s].email \in DOMAIN users.memory
                THEN raced \cup {signup[s].email} ELSE raced
  /\ Moves(s, Asking("save", signup[s].email))
  /\ UNCHANGED <<database, table, acked, signin>>

\* The row replaces that of the same email (mutation of HashedToTable).
HashedToTable_Replaces(s) ==
  /\ At(s, "hash") /\ database
  /\ table' = WithEntry(table, signup[s].email, AccountOf(s))
  /\ Moves(s, Asking("answered", signup[s].email))
  /\ acked' = acked \cup {AccountOf(s)}
  /\ UNCHANGED <<database, users, raced, signin>>

\* ... or the row is inserted, which fails when the email is there.
HashedToTable(s) ==
  /\ At(s, "hash") /\ database
  /\ IF signup[s].email \in DOMAIN table
       THEN Moves(s, Refused) /\ UNCHANGED <<table, acked>>
       ELSE /\ table' = WithEntry(table, signup[s].email, AccountOf(s))
            /\ Moves(s, Asking("answered", signup[s].email))
            /\ acked' = acked \cup {AccountOf(s)}
  /\ UNCHANGED <<database, users, raced, signin>>

\* The steps of a save.  create() answers when its own save is done; the account
\* of a save that failed stays in the map although its sign-up is refused.
UsersOpened ==
  /\ \E w \in users.writes : ~ w.opened /\ users' = Opens(users, w)
  /\ UNCHANGED <<database, table, signup, signin, acked, raced>>

UsersWritten ==
  /\ \E w \in users.writes :
       /\ w.opened
       /\ users' \in Written(users, w)
       /\ acked' = acked \cup {AccountOf(w.by)}
       /\ Moves(w.by, Asking("answered", signup[w.by].email))
  /\ UNCHANGED <<database, table, raced, signin>>

UsersFailed ==
  /\ \E w \in users.writes : users' \in Failed(users, w) /\ Moves(w.by, Refused)
  /\ UNCHANGED <<database, table, acked, raced, signin>>

\* POST /auth/signin: the account of the email is found, or refused ...
SignIn(i) ==
  /\ signin[i] = Unsent
  /\ \E e \in Emails, s \in Signups :
       signin' = [signin EXCEPT ![i] =
                    IF e \in DOMAIN UserMap
                      THEN [stage |-> "compare", found |-> UserMap[e], with |-> s]
                      ELSE Refused]
  /\ UNCHANGED <<database, table, users, signup, acked, raced>>

\* ... and the password compared with its hash, whatever the map holds by then.
Compared(i) ==
  /\ signin[i].stage = "compare"
  /\ acked' = IF signin[i].with = signin[i].found.password
                THEN acked \cup {signin[i].found} ELSE acked
  /\ signin' = [signin EXCEPT ![i] = Refused]
  /\ UNCHANGED <<database, table, users, signup, raced>>

UserInit ==
  /\ database \in BOOLEAN
  /\ table = <<>> /\ users = NoFile
  /\ signup = [s \in Signups |-> Unsent]
  /\ signin = [i \in Signins |-> Unsent]
  /\ acked = {} /\ raced = {}

UserNext ==
  \/ \E s \in Signups : SignUp(s) \/ Looked(s) \/ HashedToFile(s) \/ HashedToTable(s)
  \/ \E i \in Signins : SignIn(i) \/ Compared(i)
  \/ UsersOpened \/ UsersWritten \/ UsersFailed

\* The requests under way are gone with the process; load() reads the file.
UserRestart ==
  /\ users' = Restarted(users)
  /\ signup' = [s \in Signups |->
                  IF signup[s].stage \in {"find", "hash", "save"} THEN Refused ELSE signup[s]]
  /\ signin' = [i \in Signins |-> IF signin[i] = Unsent THEN Unsent ELSE Refused]
  /\ UNCHANGED <<database, table, acked, raced>>

-----------------------------------------------------------------------------
UserTypeOK ==
  /\ database \in BOOLEAN
  /\ table \in Accounts
  /\ users \in Stores(Accounts, Signups)
  /\ signup \in [Signups -> {Unsent, Refused}
                      \cup [stage : {"find", "hash", "save", "answered"}, email : Emails]]
  /\ signin \in [Signins -> {Unsent, Refused}
                      \cup [stage : {"compare"}, found : Account, with : Signups]]
  /\ acked \subseteq Account /\ raced \subseteq Emails

\* Whoever was told that the account is theirs can sign in with their password
\* ever after.  With the file that is so only when no second sign-up of the email
\* overlapped theirs (user_store.ts:50-55) and no process ended on a save that was
\* not alone, had failed or was under way; with the table always.
SignupLasts ==
  \A a \in acked :
    SignsIn(a) \/ (~ database /\ (a.email \in raced \/ users.harmed))

=============================================================================
