---------------------------- MODULE PortalProofs ----------------------------
(***************************************************************************)
(* Theorems about Portal for every set of requests, emails, contracts,     *)
(* subjects, tabs and people, and for every bound: of the files of         *)
(* JsonFile, of the accounts of UserStore and the contracts of             *)
(* ContractRegistry, of the pages of WebPages and the tabs of Sessions.    *)
(***************************************************************************)
EXTENDS Portal, TLAPS

-----------------------------------------------------------------------------
(* A map saved whole to one file.                                          *)

\* A save that never had another beside it is the only one, writes the map as it
\* is, and writes it to a file that it has truncated itself.
AloneFits(s) ==
  \A w \in s.writes :
    w.alone => s.writes = {w} /\ w.data = s.memory /\ (w.opened => s.file = Empty)

\* A writer has one save under way at most.
OneEach(s) == \A v, w \in s.writes : v.by = w.by => v = w

FileFits(s) == AloneFits(s) /\ Saved(s)

\* The maps may be any set that has the empty one and, of a new entry, the map
\* with it.
LEMMA NoFileType ==
  ASSUME NEW Maps, NEW Writers, <<>> \in Maps
  PROVE  NoFile \in Stores(Maps, Writers) /\ FileFits(NoFile) /\ OneEach(NoFile)
  BY DEF NoFile, Stores, FileFits, AloneFits, Saved, OneEach, Empty, Loaded

\* Put leaves a save under way, which is alone if it is the first.
LEMMA PutFits ==
  ASSUME NEW Maps, NEW Writers, NEW s \in Stores(Maps, Writers),
         NEW key, NEW value, NEW by \in Writers, WithEntry(s.memory, key, value) \in Maps,
         FileFits(s)
  PROVE  LET p == Put(s, key, value, by)
         IN  /\ p \in Stores(Maps, Writers) /\ FileFits(p)
             /\ p.memory = WithEntry(s.memory, key, value)
             /\ p.harmed = s.harmed
             /\ \A w \in p.writes : w.by = by \/ \E v \in s.writes : v.by = w.by
             /\ OneEach(s) /\ (\A w \in s.writes : w.by # by) => OneEach(p)
<1> DEFINE p   == Put(s, key, value, by)
           map == WithEntry(s.memory, key, value)
           new == Write(by, map, s.writes = {})
<1>1. /\ p = [s EXCEPT !.memory = map, !.writes = NotAlone(s.writes) \cup {new}]
      /\ new \in [by : Writers, data : Maps, opened : BOOLEAN, alone : BOOLEAN]
      /\ new.by = by /\ new.data = map /\ new.opened = FALSE
      /\ new.alone = (s.writes = {})
  BY DEF Put, Write, Stores
<1>2. \A w \in NotAlone(s.writes) :
        /\ w \in [by : Writers, data : Maps, opened : BOOLEAN, alone : BOOLEAN]
        /\ ~ w.alone
        /\ \E v \in s.writes : v.by = w.by /\ w = [v EXCEPT !.alone = FALSE]
  BY DEF NotAlone, Stores
<1>0. map \in Maps
  OBVIOUS
<1> HIDE DEF map, new, p
<1>3. /\ p.memory = map /\ p.file = s.file /\ p.dirty = s.dirty /\ p.harmed = s.harmed
      /\ p.writes = NotAlone(s.writes) \cup {new}
      /\ p \in Stores(Maps, Writers)
  <2>1. NotAlone(s.writes) \cup {new}
          \in SUBSET [by : Writers, data : Maps, opened : BOOLEAN, alone : BOOLEAN]
    BY <1>1, <1>2
  <2> QED
    BY <1>0, <1>1, <2>1 DEF Stores
<1>4. AloneFits(p)
  <2> SUFFICES ASSUME NEW w \in p.writes, w.alone
               PROVE  p.writes = {w} /\ w.data = p.memory /\ (w.opened => p.file = Empty)
    BY DEF AloneFits
  <2>1. w = new /\ s.writes = {}
    BY <1>1, <1>2, <1>3
  <2>2. NotAlone(s.writes) = {}
    BY <2>1 DEF NotAlone
  <2> QED
    BY <1>1, <1>3, <2>1, <2>2
<1>5. Saved(p)
  BY <1>3 DEF Saved
<1>6. OneEach(s) /\ (\A w \in s.writes : w.by # by) => OneEach(p)
  BY <1>1, <1>2, <1>3 DEF OneEach
<1> QED
  BY <1>1, <1>2, <1>3, <1>4, <1>5, <1>6 DEF FileFits, p, map

\* The steps of a save change no map, and leave the saves of the others.
LEMMA SaveFits ==
  ASSUME NEW Maps, NEW Writers, NEW s \in Stores(Maps, Writers), NEW w \in s.writes,
         <<>> \in Maps, FileFits(s),
         NEW n, \/ ~ w.opened /\ n = Opens(s, w)
                \/ w.opened /\ n \in Written(s, w)
                \/ n \in Failed(s, w)
  PROVE  /\ n \in Stores(Maps, Writers) /\ FileFits(n)
         /\ n.memory = s.memory /\ n.harmed = s.harmed
         /\ \A v \in n.writes : \E u \in s.writes : v.by = u.by
         /\ OneEach(s) => /\ OneEach(n)
                          /\ n \in Written(s, w) \cup Failed(s, w) =>
                               \A v \in n.writes : v.by # w.by
<1> DEFINE W == [by : Writers, data : Maps, opened : BOOLEAN, alone : BOOLEAN]
<1>0. w \in W /\ s.writes \subseteq W
  BY DEF Stores
<1>4. Empty \in [text : {"whole", "empty", "torn"}, map : Maps]
  BY DEF Empty
<1>5. Torn \in [text : {"whole", "empty", "torn"}, map : Maps]
  BY DEF Torn
<1>6. Whole(w.data) \in [text : {"whole", "empty", "torn"}, map : Maps]
  BY <1>0 DEF Whole
<1>7. ASSUME OneEach(s), n \in Written(s, w) \cup Failed(s, w)
      PROVE  \A v \in n.writes : v.by # w.by
  <2>1. n.writes = s.writes \ {w}
    BY <1>7 DEF Written, Failed, Stores
  <2> QED
    BY <1>7, <2>1 DEF OneEach
<1>1. CASE ~ w.opened /\ n = Opens(s, w)
  <2> DEFINE v == [w EXCEPT !.opened = TRUE]
  <2>1. v \in W /\ v.by = w.by /\ v.data = w.data /\ v.alone = w.alone
    BY <1>0
  <2> HIDE DEF v
  <2>2. /\ n \in Stores(Maps, Writers) /\ n.memory = s.memory /\ n.harmed = s.harmed
        /\ n.file = Empty /\ n.writes = (s.writes \ {w}) \cup {v}
    BY <1>1, <1>4, <2>1 DEF Opens, Stores, v
  <2>3. FileFits(n)
    BY <2>1, <2>2 DEF FileFits, AloneFits, Saved
  <2> QED
    BY <1>7, <1>0, <1>1, <2>1, <2>2, <2>3 DEF OneEach
<1>2. CASE w.opened /\ n \in Written(s, w)
  <2>1. PICK f \in Contents(s.file, w.data) :
          n = [s EXCEPT !.file = f, !.writes = @ \ {w}, !.dirty = ~ w.alone]
    BY <1>2 DEF Written
  <2>2. f \in {Whole(w.data), Torn} /\ (s.file = Empty => f = Whole(w.data))
    BY <2>1 DEF Contents, Empty
  <2>3. /\ n \in Stores(Maps, Writers) /\ n.memory = s.memory /\ n.harmed = s.harmed
        /\ n.file = f /\ n.writes = s.writes \ {w} /\ n.dirty = ~ w.alone
    BY <1>0, <1>5, <1>6, <2>1, <2>2 DEF Stores
  <2>4. AloneFits(n)
    BY <2>3 DEF FileFits, AloneFits
  <2>5. w.alone => n.file = Whole(s.memory)
    BY <1>2, <2>2, <2>3 DEF FileFits, AloneFits
  <2>6. Saved(n)
    <3>1. SUFFICES ASSUME ~ n.dirty PROVE Loaded(n.file) = n.memory
      BY DEF Saved
    <3>2. w.alone
      BY <1>0, <2>3, <3>1
    <3> QED
      BY <2>3, <2>5, <3>2 DEF Loaded, Whole
  <2> QED
    BY <1>7, <2>3, <2>4, <2>6 DEF FileFits, OneEach
<1>3. CASE n \in Failed(s, w)
  <2>1. PICK f \in {s.file, Torn} :
          n = [s EXCEPT !.file = f, !.writes = @ \ {w}, !.dirty = TRUE]
    BY <1>3 DEF Failed
  <2>2. /\ n \in Stores(Maps, Writers) /\ n.memory = s.memory /\ n.harmed = s.harmed
        /\ n.writes = s.writes \ {w} /\ n.dirty
    BY <1>5, <2>1 DEF Stores
  <2> QED
    BY <1>7, <2>2 DEF FileFits, AloneFits, Saved, OneEach
<1> QED
  BY <1>1, <1>2, <1>3

\* A process that starts again has in memory what it had, or is harmed.
LEMMA RestartFits ==
  ASSUME NEW Maps, NEW Writers, NEW s \in Stores(Maps, Writers), <<>> \in Maps,
         FileFits(s)
  PROVE  LET n == Restarted(s)
         IN  /\ n \in Stores(Maps, Writers) /\ FileFits(n) /\ OneEach(n)
             /\ n.writes = {}
             /\ s.harmed => n.harmed
             /\ n.harmed \/ n.memory = s.memory
<1> DEFINE n == Restarted(s)
<1>1. Loaded(s.file) \in Maps
  BY DEF Loaded, Stores
<1>2. n \in Stores(Maps, Writers)
  BY <1>1 DEF Restarted, Stores
<1>3. FileFits(n) /\ OneEach(n) /\ n.writes = {}
  BY DEF Restarted, FileFits, AloneFits, Saved, OneEach, Loaded
<1>4. (s.harmed => n.harmed) /\ (n.harmed \/ n.memory = s.memory)
  BY DEF Restarted, FileFits, Saved, Stores
<1> QED
  BY <1>2, <1>3, <1>4

-----------------------------------------------------------------------------
(* The accounts.                                                           *)

PartialMaps(E, V) == UNION {[D -> V] : D \in SUBSET E}

\* A map with an entry put into it.
LEMMA Entry ==
  ASSUME NEW E, NEW V, NEW map \in PartialMaps(E, V), NEW e \in E, NEW v \in V
  PROVE  LET m == WithEntry(map, e, v)
         IN  /\ m \in PartialMaps(E, V)
             /\ DOMAIN m = {e} \cup DOMAIN map
             /\ m[e] = v
             /\ \A x \in DOMAIN map : x # e => m[x] = map[x]
<1> DEFINE m == WithEntry(map, e, v)
<1>1. PICK D \in SUBSET E : map \in [D -> V]
  BY DEF PartialMaps
<1>2. m = [x \in {e} \cup DOMAIN map |-> IF x = e THEN v ELSE map[x]]
  BY DEF WithEntry
<1>3. m \in [{e} \cup D -> V]
  BY <1>1, <1>2
<1> QED
  BY <1>1, <1>2, <1>3 DEF PartialMaps

\* The same of the accounts.
LEMMA AccountEntry ==
  ASSUME NEW map \in Accounts, NEW e \in Emails, NEW v \in Account
  PROVE  /\ WithEntry(map, e, v) \in Accounts
         /\ DOMAIN WithEntry(map, e, v) = {e} \cup DOMAIN map
         /\ WithEntry(map, e, v)[e] = v
         /\ \A x \in DOMAIN map : x # e => WithEntry(map, e, v)[x] = map[x]
<1>1. Accounts = PartialMaps(Emails, Account)
  BY DEF Accounts, PartialMaps
<1> QED
  BY <1>1, Entry

\* The map of no entries.
LEMMA NoEntries ==
  ASSUME NEW E, NEW V
  PROVE  <<>> \in UNION {[D -> V] : D \in SUBSET E}
<1>1. <<>> \in [{} -> V]
  OBVIOUS
<1> QED
  BY <1>1

\* Whoever has the account can sign in with it, but for what the file may lose.
Lasting(a) == SignsIn(a) \/ (~ database /\ (a.email \in raced \/ users.harmed))

UserInv ==
  /\ UserTypeOK
  /\ FileFits(users) /\ OneEach(users)
  /\ \A w \in users.writes : At(w.by, "save")
  /\ \A e \in DOMAIN UserMap : UserMap[e].email = e \/ (~ database /\ users.harmed)
  /\ \A a \in acked : Lasting(a)
  /\ \A s \in Signups : At(s, "save") => Lasting(AccountOf(s))
  /\ \A i \in Signins : signin[i].stage = "compare" => Lasting(signin[i].found)

LEMMA UserInvInit ==
  ASSUME UserInit PROVE UserInv
<1>1. <<>> \in Accounts
  BY NoEntries DEF Accounts
<1>2. users \in Stores(Accounts, Signups) /\ FileFits(users) /\ OneEach(users)
  BY <1>1, NoFileType DEF UserInit
<1>3. UserTypeOK
  BY <1>1, <1>2 DEF UserInit, UserTypeOK
<1>4. users.writes = {} /\ DOMAIN UserMap = {}
  BY DEF UserInit, NoFile, UserMap
<1> QED
  BY <1>2, <1>3, <1>4 DEF UserInit, UserInv, At, Unsent

SignupStates == {Unsent, Refused}
                  \cup [stage : {"find", "hash", "save", "answered"}, email : Emails]

\* The stages that a request goes through.
LEMMA SignupTypes ==
  /\ Unsent \in SignupStates /\ Refused \in SignupStates
  /\ \A stage \in {"find", "hash", "save", "answered"}, e \in Emails :
       Asking(stage, e) \in SignupStates /\ Asking(stage, e).stage = stage
  /\ Unsent.stage = "unsent" /\ Refused.stage = "refused"
  /\ \A x \in SignupStates : x.stage \in {"find", "hash", "save", "answered"} => x.email \in Emails
  BY DEF SignupStates, Unsent, Refused, Asking

\* A step that leaves the accounts where they are leaves them to their owners.
LEMMA AccountsStay ==
  ASSUME UNCHANGED <<database, table>>, raced \subseteq raced',
         users'.harmed \/ users'.memory = users.memory,
         users.harmed => users'.harmed
  PROVE  /\ \A a : Lasting(a) => Lasting(a)'
         /\ (\A e \in DOMAIN UserMap : UserMap[e].email = e \/ (~ database /\ users.harmed))
              => \A e \in DOMAIN UserMap' :
                   UserMap'[e].email = e \/ (~ database' /\ users'.harmed)
  BY DEF Lasting, SignsIn, UserMap

\* A sign-up that is sent, or refused or answered without an entry.
LEMMA SignupMoves ==
  ASSUME UserInv, NEW s \in Signups, NEW x \in SignupStates, Moves(s, x),
         x.stage # "save", \A w \in users.writes : w.by # s,
         UNCHANGED <<database, table, users, acked, raced, signin>>
  PROVE  UserInv'
<1>1. UserTypeOK'
  BY DEF UserInv, UserTypeOK, SignupStates, Moves
<1>2. \A t \in Signups : signup'[t] = IF t = s THEN x ELSE signup[t]
  BY DEF UserInv, UserTypeOK, SignupStates, Moves
<1>4. \A w \in users.writes : w.by \in Signups
  BY DEF UserInv, UserTypeOK, Stores
<1>5. \A w \in users'.writes : At(w.by, "save")'
  BY <1>2, <1>4 DEF UserInv, At
<1>6. \A t \in Signups : At(t, "save")' => At(t, "save") /\ AccountOf(t)' = AccountOf(t)
  BY <1>2 DEF At, AccountOf
<1>7. \A t \in Signups : At(t, "save")' => Lasting(AccountOf(t))'
  <2> SUFFICES ASSUME NEW t \in Signups, At(t, "save")' PROVE Lasting(AccountOf(t))'
    OBVIOUS
  <2>1. Lasting(AccountOf(t)) /\ AccountOf(t)' = AccountOf(t)
    BY <1>6 DEF UserInv
  <2> QED
    BY <2>1 DEF Lasting, SignsIn, UserMap
<1>8. /\ \A a \in acked : Lasting(a)'
      /\ \A i \in Signins : signin[i].stage = "compare" => Lasting(signin[i].found)'
  BY DEF UserInv, Lasting, SignsIn, UserMap
<1> QED
  BY <1>1, <1>5, <1>7, <1>8 DEF UserInv, UserMap, FileFits, AloneFits, Saved, OneEach, Lasting, SignsIn

\* Where no account is lost, none is that a request is about.
LEMMA OwnersKept ==
  ASSUME UserInv, \A a : Lasting(a) => Lasting(a)'
  PROVE  /\ \A a \in acked : Lasting(a)'
         /\ \A t \in Signups :
              signup'[t] = signup[t] /\ At(t, "save") => Lasting(AccountOf(t))'
         /\ \A i \in Signins :
              signin'[i] = signin[i] /\ signin[i].stage = "compare" =>
                Lasting(signin[i].found)'
<1>1. ASSUME NEW t \in Signups, signup'[t] = signup[t], At(t, "save")
      PROVE  Lasting(AccountOf(t))'
  <2>1. PICK a : a = AccountOf(t)
    OBVIOUS
  <2>2. Lasting(a)' /\ AccountOf(t)' = a
    BY <1>1, <2>1 DEF UserInv, AccountOf
  <2> QED
    BY <2>2 DEF Lasting, SignsIn
<1>2. ASSUME NEW i \in Signins, signin'[i] = signin[i], signin[i].stage = "compare"
      PROVE  Lasting(signin[i].found)'
  <2>1. PICK a : a = signin[i].found
    OBVIOUS
  <2>2. Lasting(a)'
    BY <1>2, <2>1 DEF UserInv
  <2> QED
    BY <1>2, <2>1, <2>2 DEF Lasting, SignsIn
<1> QED
  BY <1>1, <1>2 DEF UserInv

LEMMA SignUpKeeps ==
  ASSUME UserInv, NEW s \in Signups, SignUp(s) \/ Looked(s)
  PROVE  UserInv'
<1>1. ~ At(s, "save") /\ \A w \in users.writes : w.by # s
  BY DEF UserInv, SignUp, Looked, At
<1>2. CASE SignUp(s)
  BY <1>1, <1>2, SignupTypes, SignupMoves DEF SignUp
<1>3. CASE Looked(s)
  <2>1. signup[s].email \in Emails
    BY <1>3, SignupTypes DEF Looked, At, UserInv, UserTypeOK, SignupStates
  <2> QED
    BY <1>1, <1>3, <2>1, SignupTypes, SignupMoves DEF Looked
<1> QED
  BY <1>2, <1>3

\* The account that a sign-up is about.
LEMMA AccountType ==
  ASSUME UserTypeOK, NEW s \in Signups, At(s, "hash") \/ At(s, "save")
  PROVE  signup[s].email \in Emails /\ AccountOf(s) \in Account
  BY SignupTypes DEF UserTypeOK, SignupStates, At, AccountOf, Account

LEMMA HashedToFileKeeps ==
  ASSUME UserInv, NEW s \in Signups, HashedToFile(s)
  PROVE  UserInv'
<1> DEFINE e == signup[s].email
<1>1. /\ UserTypeOK /\ ~ database /\ ~ database' /\ e \in Emails /\ AccountOf(s) \in Account
      /\ users \in Stores(Accounts, Signups) /\ users.memory \in Accounts
  BY AccountType DEF UserInv, UserTypeOK, HashedToFile, Stores
<1>2. /\ WithEntry(users.memory, e, AccountOf(s)) \in Accounts
      /\ DOMAIN WithEntry(users.memory, e, AccountOf(s)) = {e} \cup DOMAIN users.memory
      /\ WithEntry(users.memory, e, AccountOf(s))[e] = AccountOf(s)
      /\ \A x \in DOMAIN users.memory :
           x # e => WithEntry(users.memory, e, AccountOf(s))[x] = users.memory[x]
  BY <1>1, AccountEntry
<1>3. \A w \in users.writes : w.by # s
  BY DEF UserInv, HashedToFile, At
<1>4. /\ users' \in Stores(Accounts, Signups) /\ FileFits(users') /\ OneEach(users')
      /\ users'.memory = WithEntry(users.memory, e, AccountOf(s))
      /\ users'.harmed = users.harmed
      /\ \A w \in users'.writes : w.by = s \/ \E v \in users.writes : v.by = w.by
  BY <1>1, <1>2, <1>3, PutFits DEF HashedToFile, UserInv
<1>5. /\ signup' = [signup EXCEPT ![s] = Asking("save", e)]
      /\ \A t \in Signups : signup'[t] = IF t = s THEN Asking("save", e) ELSE signup[t]
  BY <1>1 DEF HashedToFile, Moves, UserTypeOK
<1>6. UserTypeOK'
  <2>1. signup' \in [Signups -> SignupStates]
    BY <1>1, <1>5, SignupTypes DEF UserTypeOK, SignupStates
  <2>2. raced' \subseteq Emails
    BY <1>1 DEF HashedToFile, UserTypeOK
  <2> QED
    BY <1>1, <1>4, <2>1, <2>2 DEF UserTypeOK, SignupStates, HashedToFile
<1>7. \A a : Lasting(a) => Lasting(a)'
  <2> SUFFICES ASSUME NEW a, Lasting(a) PROVE Lasting(a)'
    OBVIOUS
  <2>1. CASE a.email \in raced \/ users.harmed
    BY <1>1, <1>4, <2>1 DEF Lasting, HashedToFile
  <2>2. CASE SignsIn(a) /\ a.email = e
    BY <1>1, <2>2 DEF Lasting, SignsIn, UserMap, HashedToFile
  <2>3. CASE SignsIn(a) /\ a.email # e
    BY <1>1, <1>2, <1>4, <2>3 DEF Lasting, SignsIn, UserMap
  <2> QED
    BY <2>1, <2>2, <2>3 DEF Lasting
<1>8. \A w \in users'.writes : At(w.by, "save")'
  <2> SUFFICES ASSUME NEW w \in users'.writes PROVE signup'[w.by].stage = "save"
    BY DEF At
  <2>1. w.by \in Signups
    BY <1>4 DEF Stores
  <2>2. w.by = s \/ signup[w.by].stage = "save"
    BY <1>4 DEF UserInv, At
  <2> QED
    BY <1>1, <1>5, <2>1, <2>2, SignupTypes
<1>9. \A x \in DOMAIN UserMap' : UserMap'[x].email = x \/ (~ database' /\ users'.harmed)
  <2> SUFFICES ASSUME NEW x \in {e} \cup DOMAIN users.memory, ~ users.harmed
               PROVE  users'.memory[x].email = x
    BY <1>1, <1>2, <1>4 DEF UserMap
  <2>1. CASE x = e
    BY <1>2, <1>4, <2>1 DEF AccountOf
  <2>2. CASE x # e
    BY <1>1, <1>2, <1>4, <2>2 DEF UserInv, UserMap
  <2> QED
    BY <2>1, <2>2
<1>10. \A t \in Signups : At(t, "save")' => Lasting(AccountOf(t))'
  <2> SUFFICES ASSUME NEW t \in Signups, At(t, "save")' PROVE Lasting(AccountOf(t))'
    OBVIOUS
  <2>1. CASE t = s
    <3>1. signup'[t].email = e
      BY <1>5, <2>1 DEF Asking
    <3> QED
      BY <1>1, <1>2, <1>4, <2>1, <3>1 DEF Lasting, SignsIn, UserMap, AccountOf
  <2>2. CASE t # s
    BY <1>5, <1>7, <2>2, OwnersKept DEF At
  <2> QED
    BY <2>1, <2>2
<1>11. /\ \A a \in acked : Lasting(a)'
       /\ \A i \in Signins : signin'[i].stage = "compare" => Lasting(signin[i].found)'
  BY <1>7, OwnersKept DEF HashedToFile
<1> QED
  BY <1>4, <1>6, <1>8, <1>9, <1>10, <1>11 DEF UserInv, HashedToFile, Lasting, SignsIn

LEMMA HashedToTableKeeps ==
  ASSUME UserInv, NEW s \in Signups, HashedToTable(s)
  PROVE  UserInv'
<1> DEFINE e == signup[s].email
<1>1. /\ UserTypeOK /\ database /\ database' /\ e \in Emails /\ AccountOf(s) \in Account
      /\ table \in Accounts
  BY AccountType DEF UserInv, UserTypeOK, HashedToTable
<1>2. \A w \in users.writes : w.by # s
  BY DEF UserInv, HashedToTable, At
<1>3. CASE e \in DOMAIN table
  BY <1>2, <1>3, SignupTypes, SignupMoves DEF HashedToTable
<1>4. CASE e \notin DOMAIN table
  <2>1. /\ table' = WithEntry(table, e, AccountOf(s))
        /\ table' \in Accounts /\ DOMAIN table' = {e} \cup DOMAIN table
        /\ table'[e] = AccountOf(s)
        /\ \A x \in DOMAIN table : table'[x] = table[x]
    <3>1. table' = WithEntry(table, e, AccountOf(s))
      BY <1>4 DEF HashedToTable
    <3>2. /\ WithEntry(table, e, AccountOf(s)) \in Accounts
          /\ DOMAIN WithEntry(table, e, AccountOf(s)) = {e} \cup DOMAIN table
          /\ WithEntry(table, e, AccountOf(s))[e] = AccountOf(s)
          /\ \A x \in DOMAIN table :
               x # e => WithEntry(table, e, AccountOf(s))[x] = table[x]
      BY <1>1, AccountEntry
    <3> QED
      BY <1>4, <3>1, <3>2
  <2>2. \A t \in Signups : signup'[t] = IF t = s THEN Asking("answered", e) ELSE signup[t]
    BY <1>1, <1>4 DEF HashedToTable, Moves, UserTypeOK
  <2>3. signup' \in [Signups -> SignupStates]
    BY <1>1, <1>4, SignupTypes DEF HashedToTable, Moves, UserTypeOK, SignupStates
  <2>4. UserTypeOK'
    BY <1>1, <1>4, <2>1, <2>3 DEF HashedToTable, UserTypeOK, SignupStates
  <2>5. \A a : Lasting(a) => Lasting(a)'
    BY <1>1, <1>4, <2>1 DEF Lasting, SignsIn, UserMap
  <2>6. Lasting(AccountOf(s))'
    BY <1>1, <2>1, <2>2, SignupTypes DEF Lasting, SignsIn, UserMap, AccountOf, Asking
  <2>7. \A a \in acked' : Lasting(a)'
    <3> SUFFICES ASSUME NEW a \in acked', a \notin acked PROVE Lasting(a)'
      BY <2>5, OwnersKept
    <3>1. a = AccountOf(s) /\ AccountOf(s)' = AccountOf(s)
      BY <1>4, <2>2 DEF HashedToTable, AccountOf, Asking
    <3> QED
      BY <2>6, <3>1 DEF Lasting, SignsIn
  <2>8. \A t \in Signups : At(t, "save")' => Lasting(AccountOf(t))'
    BY <1>1, <2>2, <2>5, OwnersKept, SignupTypes DEF At
  <2>9. \A i \in Signins : signin'[i].stage = "compare" => Lasting(signin[i].found)'
    BY <1>4, <2>5, OwnersKept DEF HashedToTable
  <2>10. \A w \in users'.writes : At(w.by, "save")'
    BY <1>2, <1>4, <2>2 DEF HashedToTable, UserInv, UserTypeOK, Stores, At
  <2>11. \A x \in DOMAIN UserMap' : UserMap'[x].email = x \/ (~ database' /\ users'.harmed)
    BY <1>1, <2>1 DEF UserInv, UserMap, AccountOf
  <2> QED
    BY <1>4, <2>4, <2>7, <2>8, <2>9, <2>10, <2>11
    DEF UserInv, HashedToTable, FileFits, AloneFits, Saved, OneEach, Lasting, SignsIn
<1> QED
  BY <1>3, <1>4

\* The steps of a save.
LEMMA SavesKeep ==
  ASSUME UserInv, UsersOpened \/ UsersWritten \/ UsersFailed
  PROVE  UserInv'
<1>0. <<>> \in Accounts
  BY NoEntries DEF Accounts
<1>1. /\ UserTypeOK /\ users \in Stores(Accounts, Signups)
      /\ FileFits(users) /\ OneEach(users) /\ \A w \in users.writes : w.by \in Signups
  BY DEF UserInv, UserTypeOK, Stores
<1>2. PICK w \in users.writes :
        /\ \/ UNCHANGED <<signup, acked>> /\ ~ w.opened /\ users' = Opens(users, w)
           \/ /\ w.opened /\ users' \in Written(users, w)
              /\ acked' = acked \cup {AccountOf(w.by)}
              /\ Moves(w.by, Asking("answered", signup[w.by].email))
           \/ UNCHANGED acked /\ users' \in Failed(users, w) /\ Moves(w.by, Refused)
        /\ UNCHANGED <<database, table, raced, signin>>
  BY DEF UsersOpened, UsersWritten, UsersFailed
<1>3. /\ users' \in Stores(Accounts, Signups) /\ FileFits(users') /\ OneEach(users')
      /\ users'.memory = users.memory /\ users'.harmed = users.harmed
      /\ \A v \in users'.writes : \E u \in users.writes : v.by = u.by
      /\ users' \in Written(users, w) \cup Failed(users, w) =>
           \A v \in users'.writes : v.by # w.by
  BY <1>0, <1>1, <1>2, SaveFits
<1>4. w.by \in Signups /\ At(w.by, "save") /\ signup[w.by].email \in Emails
      /\ AccountOf(w.by) \in Account
  BY <1>1, AccountType DEF UserInv
<1>5. /\ signup' \in [Signups -> SignupStates]
      /\ \A t \in Signups : signup'[t].stage = "save" => signup'[t] = signup[t]
      /\ \A t \in Signups : t # w.by => signup'[t] = signup[t]
      /\ signup' = signup \/ signup'[w.by].email = signup[w.by].email \/ acked' = acked
  BY <1>1, <1>2, <1>4, SignupTypes DEF UserTypeOK, SignupStates, Moves, Asking
<1>6. UserTypeOK'
  BY <1>1, <1>2, <1>3, <1>4, <1>5 DEF UserTypeOK, SignupStates
<1>7. /\ \A a : Lasting(a) => Lasting(a)'
      /\ \A e \in DOMAIN UserMap' : UserMap'[e].email = e \/ (~ database' /\ users'.harmed)
  BY <1>2, <1>3, AccountsStay DEF UserInv
<1>8. \A a \in acked' : Lasting(a)'
  <2> SUFFICES ASSUME NEW a \in acked', a \notin acked PROVE Lasting(a)'
    BY <1>7, OwnersKept
  <2>1. a = AccountOf(w.by)
    BY <1>2
  <2>2. Lasting(a)
    BY <1>4, <2>1 DEF UserInv
  <2> QED
    BY <1>7, <2>2
<1>9. \A t \in Signups : At(t, "save")' => Lasting(AccountOf(t))'
  BY <1>5, <1>7, OwnersKept DEF At
<1>10. \A i \in Signins : signin'[i].stage = "compare" => Lasting(signin[i].found)'
  BY <1>2, <1>7, OwnersKept
<1>11. \A v \in users'.writes : At(v.by, "save")'
  <2> SUFFICES ASSUME NEW v \in users'.writes PROVE signup'[v.by].stage = "save"
    BY DEF At
  <2>1. v.by \in Signups /\ signup[v.by].stage = "save"
    BY <1>1, <1>3 DEF UserInv, At
  <2>2. CASE v.by # w.by
    BY <1>5, <2>1, <2>2
  <2>3. CASE v.by = w.by
    BY <1>2, <1>3, <2>1, <2>3
  <2> QED
    BY <2>2, <2>3
<1> QED
  BY <1>2, <1>3, <1>6, <1>7, <1>8, <1>9, <1>10, <1>11 DEF UserInv, Lasting, SignsIn

SigninStates == {Unsent, Refused} \cup [stage : {"compare"}, found : Account, with : Signups]

\* A sign-in finds an account whose password its owner knows, and keeps it.
LEMMA SignInKeeps ==
  ASSUME UserInv, NEW i \in Signins, SignIn(i) \/ Compared(i)
  PROVE  UserInv'
<1>1. /\ UserTypeOK /\ Refused \in SigninStates /\ signin[i] \in SigninStates
      /\ Refused.stage = "refused" /\ Unsent.stage = "unsent"
  BY DEF UserInv, UserTypeOK, SigninStates, Refused, Unsent
<1>2. /\ UNCHANGED <<database, table, users, signup, raced>>
      /\ UserMap' = UserMap
  BY DEF SignIn, Compared, UserMap
<1>3. \A a : Lasting(a) => Lasting(a)'
  BY <1>2 DEF Lasting, SignsIn
<1>4. PICK x : signin' = [signin EXCEPT ![i] = x] /\ x \in SigninStates
               /\ (x.stage = "compare" => Lasting(x.found))
  <2>1. CASE Compared(i)
    BY <1>1, <2>1 DEF Compared
  <2>2. CASE SignIn(i)
    <3>1. PICK e \in Emails, s \in Signups :
            signin' = [signin EXCEPT ![i] =
                         IF e \in DOMAIN UserMap
                           THEN [stage |-> "compare", found |-> UserMap[e], with |-> s]
                           ELSE Refused]
      BY <2>2 DEF SignIn
    <3>2. CASE e \notin DOMAIN UserMap
      BY <1>1, <3>1, <3>2
    <3>3. CASE e \in DOMAIN UserMap
      <4> DEFINE x == [stage |-> "compare", found |-> UserMap[e], with |-> s]
      <4>1. UserMap \in Accounts
        BY <1>1 DEF UserTypeOK, UserMap, Stores
      <4>2. UserMap[e] \in Account
        BY <3>3, <4>1 DEF Accounts
      <4>3. x \in SigninStates /\ x.found = UserMap[e]
        BY <4>2 DEF SigninStates
      <4>4. Lasting(UserMap[e])
        BY <3>3 DEF UserInv, Lasting, SignsIn
      <4> QED
        BY <3>1, <3>3, <4>3, <4>4
    <3> QED
      BY <3>2, <3>3
  <2> QED
    BY <2>1, <2>2
<1>5. signin' \in [Signins -> SigninStates]
  BY <1>1, <1>4 DEF UserTypeOK, SigninStates
<1>6. acked' \subseteq Account /\ \A a \in acked' : Lasting(a)
  <2>1. CASE SignIn(i)
    BY <1>1, <2>1 DEF SignIn, UserInv, UserTypeOK
  <2>2. CASE Compared(i)
    <3>1. signin[i].found \in Account /\ Lasting(signin[i].found)
      BY <1>1, <2>2 DEF Compared, UserInv, SigninStates
    <3> QED
      BY <1>1, <2>2, <3>1 DEF Compared, UserInv, UserTypeOK
  <2> QED
    BY <2>1, <2>2
<1>7. UserTypeOK'
  BY <1>1, <1>2, <1>5, <1>6 DEF UserTypeOK, SigninStates
<1>8. \A a \in acked' : Lasting(a)'
  BY <1>3, <1>6
<1>9. \A k \in Signins : (signin[k].stage = "compare" => Lasting(signin[k].found))'
  <2> SUFFICES ASSUME NEW k \in Signins, signin'[k].stage = "compare"
               PROVE  Lasting(signin[k].found)'
    OBVIOUS
  <2>1. CASE k # i
    BY <1>1, <1>3, <1>4, <2>1, OwnersKept DEF UserTypeOK
  <2>2. CASE k = i
    <3>1. signin'[k] = x
      BY <1>1, <1>4, <2>2 DEF UserTypeOK
    <3>2. Lasting(x.found)'
      BY <1>3, <1>4, <3>1
    <3> QED
      BY <1>2, <3>1, <3>2 DEF Lasting, SignsIn
  <2> QED
    BY <2>1, <2>2
<1>10. \A t \in Signups : At(t, "save")' => Lasting(AccountOf(t))'
  BY <1>2, <1>3, OwnersKept DEF At
<1> QED
  BY <1>2, <1>7, <1>8, <1>9, <1>10
  DEF UserInv, FileFits, AloneFits, Saved, OneEach, At, Lasting, SignsIn

\* The process ends and starts again.
LEMMA UserRestartKeeps ==
  ASSUME UserInv, UserRestart
  PROVE  UserInv'
<1>0. <<>> \in Accounts
  BY NoEntries DEF Accounts
<1>1. UserTypeOK /\ users \in Stores(Accounts, Signups) /\ FileFits(users)
  BY DEF UserInv, UserTypeOK
<1>2. /\ users' \in Stores(Accounts, Signups) /\ FileFits(users') /\ OneEach(users')
      /\ users'.writes = {} /\ (users.harmed => users'.harmed)
      /\ users'.harmed \/ users'.memory = users.memory
  BY <1>0, <1>1, RestartFits DEF UserRestart
<1>3. /\ \A a : Lasting(a) => Lasting(a)'
      /\ \A e \in DOMAIN UserMap' : UserMap'[e].email = e \/ (~ database' /\ users'.harmed)
  BY <1>2, AccountsStay DEF UserInv, UserRestart
<1>4. /\ signup' \in [Signups -> SignupStates]
      /\ \A t \in Signups : signup'[t].stage # "save"
  BY <1>1, SignupTypes DEF UserRestart, UserTypeOK, SignupStates
<1>5. /\ signin' \in [Signins -> SigninStates]
      /\ \A i \in Signins : signin'[i].stage # "compare"
  BY DEF UserRestart, SigninStates, Unsent, Refused
<1>6. UserTypeOK'
  BY <1>1, <1>2, <1>4, <1>5 DEF UserRestart, UserTypeOK, SignupStates, SigninStates
<1>7. \A a \in acked' : Lasting(a)'
  BY <1>3, OwnersKept DEF UserRestart
<1> QED
  BY <1>2, <1>3, <1>4, <1>5, <1>6, <1>7 DEF UserInv, At

LEMMA UserNextKeeps ==
  ASSUME UserInv, UserNext
  PROVE  UserInv'
  BY SignUpKeeps, HashedToFileKeeps, HashedToTableKeeps, SavesKeep, SignInKeeps DEF UserNext

LEMMA UserStutters ==
  ASSUME UserInv, UNCHANGED userVars
  PROVE  UserInv'
  BY DEF UserInv, userVars, UserTypeOK, FileFits, AloneFits, Saved, OneEach, At, UserMap,
         Lasting, SignsIn, AccountOf

-----------------------------------------------------------------------------
(* The contracts.                                                          *)

RegistryInv == RegistryTypeOK /\ FileFits(registry) /\ VerificationLasts

LEMMA NoRecords ==
  <<>> \in Records
  BY NoEntries DEF Records

\* A map of records with a record put into it.
LEMMA RecordEntry ==
  ASSUME NEW map \in Records, NEW c \in Contracts, NEW v \in Verifications
  PROVE  /\ WithEntry(map, c, v) \in Records
         /\ DOMAIN WithEntry(map, c, v) = {c} \cup DOMAIN map
<1>1. Records = PartialMaps(Contracts, Verifications)
  BY DEF Records, PartialMaps
<1>2. map \in PartialMaps(Contracts, Verifications)
  BY <1>1
<1>3. LET m == WithEntry(map, c, v)
      IN  m \in PartialMaps(Contracts, Verifications) /\ DOMAIN m = {c} \cup DOMAIN map
  BY <1>2, Entry
<1> QED
  BY <1>1, <1>3

LEMMA RegistryInvInit ==
  ASSUME RegistryInit PROVE RegistryInv
<1>1. registry \in Stores(Records, Verifications) /\ FileFits(registry)
  BY NoRecords, NoFileType DEF RegistryInit
<1> QED
  BY <1>1 DEF RegistryInit, RegistryInv, RegistryTypeOK, VerificationLasts

LEMMA RegistryNextKeeps ==
  ASSUME RegistryInv, RegistryNext
  PROVE  RegistryInv'
<1>1. RegistryTypeOK /\ registry \in Stores(Records, Verifications) /\ FileFits(registry)
  BY DEF RegistryInv, RegistryTypeOK
<1>2. ASSUME NEW v \in Verifications, VerifyAsked(v) \/ VerifyRefused(v)
      PROVE  RegistryInv'
  BY <1>1, <1>2 DEF VerifyAsked, VerifyRefused, RegistryInv, RegistryTypeOK, VerificationLasts,
                    Found, FileFits, AloneFits, Saved
<1>3. ASSUME NEW v \in Verifications, VerifyAdded(v)
      PROVE  RegistryInv'
  <2>1. registry.memory \in Records
    BY <1>1 DEF Stores
  <2>2. /\ WithEntry(registry.memory, verify[v], v) \in Records
        /\ DOMAIN WithEntry(registry.memory, verify[v], v)
             = {verify[v]} \cup DOMAIN registry.memory
    BY <1>3, <2>1, RecordEntry DEF VerifyAdded
  <2>3. /\ registry' \in Stores(Records, Verifications) /\ FileFits(registry')
        /\ registry'.memory = WithEntry(registry.memory, verify[v], v)
        /\ registry'.harmed = registry.harmed
    BY <1>1, <1>3, <2>2, PutFits DEF VerifyAdded
  <2> QED
    BY <1>1, <1>3, <2>2, <2>3
    DEF VerifyAdded, RegistryInv, RegistryTypeOK, VerificationLasts, Found
<1>4. ASSUME RegistrySaves
      PROVE  RegistryInv'
  <2>1. PICK w \in registry.writes :
          \/ ~ w.opened /\ registry' = Opens(registry, w)
          \/ w.opened /\ registry' \in Written(registry, w)
          \/ registry' \in Failed(registry, w)
    BY <1>4 DEF RegistrySaves
  <2>2. /\ registry' \in Stores(Records, Verifications) /\ FileFits(registry')
        /\ registry'.memory = registry.memory /\ registry'.harmed = registry.harmed
    BY <1>1, <2>1, NoRecords, SaveFits
  <2> QED
    BY <1>1, <1>4, <2>2 DEF RegistrySaves, RegistryInv, RegistryTypeOK, VerificationLasts, Found
<1> QED
  BY <1>2, <1>3, <1>4 DEF RegistryNext

LEMMA RegistryRestartKeeps ==
  ASSUME RegistryInv, RegistryRestart
  PROVE  RegistryInv'
<1>1. RegistryTypeOK /\ registry \in Stores(Records, Verifications) /\ FileFits(registry)
  BY DEF RegistryInv, RegistryTypeOK
<1>2. /\ registry' \in Stores(Records, Verifications) /\ FileFits(registry')
      /\ registry.harmed => registry'.harmed
      /\ registry'.harmed \/ registry'.memory = registry.memory
  BY <1>1, NoRecords, RestartFits DEF RegistryRestart
<1> QED
  BY <1>1, <1>2 DEF RegistryRestart, RegistryInv, RegistryTypeOK, VerificationLasts, Found

LEMMA RegistryStutters ==
  ASSUME RegistryInv, UNCHANGED registryVars
  PROVE  RegistryInv'
  BY DEF RegistryInv, registryVars, RegistryTypeOK, FileFits, AloneFits, Saved,
         VerificationLasts, Found

-----------------------------------------------------------------------------
(* The pages.                                                              *)

\* A page with a clean-up has one live request at most; one without has that
\* unless requests crossed; and it is about what was last asked for, which only a
\* page with a timer takes from elsewhere than its subject.
OneLive ==
  /\ page.kind \in Cancels => ~ mixed
  /\ page.kind \notin Refreshes => refresh = {} /\ asked = page.subject
  /\ page.kind \notin Cancels => \A r \in requests : ~ r.cancelled
  /\ ~ mixed => \A q, r \in Live : q = r /\ r.subject = asked

PageInv == PageTypeOK /\ OneLive /\ ShownIsCurrent /\ LoadingEnds

LEMMA PageInvInit ==
  ASSUME PageInit PROVE PageInv
<1>1. page \in Page
  BY DEF PageInit, Page
<1>3. PageTypeOK
  <2>1. MaxRequests \in Nat
    BY PortalAssumption
  <2>2. requests = {} /\ count = 0 /\ asked = None /\ latest = "none" /\ refresh = {}
    BY DEF PageInit
  <2>3. mixed \in BOOLEAN
    BY DEF PageInit
  <2>4. count \in 0..MaxRequests
    BY <2>1, <2>2
  <2>5. requests \subseteq PageRequest
    BY <2>2
  <2> QED
    BY <1>1, <2>2, <2>3, <2>4, <2>5 DEF PageTypeOK
<1>2. requests = {} /\ Live = {} /\ ~ mixed /\ refresh = {} /\ latest = "none"
      /\ page.shown = Nothing /\ ~ page.loading /\ asked = page.subject
  BY DEF PageInit, Live
<1> QED
  BY <1>3, <1>2 DEF PageInv, OneLive, ShownIsCurrent, LoadingEnds

LEMMA AsksOne ==
  ASSUME PageInv, NEW s \in Subjects, Asks(s)
  PROVE  /\ requests' \subseteq PageRequest /\ count' \in 0..MaxRequests
         /\ asked' = s /\ latest' = "none"
         /\ mixed' = (page.kind \notin Cancels /\ requests # {})
         /\ \E r \in Live' :
              /\ r.subject = s
              /\ page.kind \in Cancels => Live' = {r}
              /\ page.kind \notin Cancels =>
                   requests' = requests \cup {r} /\ ~ r.cancelled
<1> DEFINE new == [n |-> count + 1, subject |-> s, cancelled |-> FALSE]
<1>1. /\ MaxRequests \in Nat /\ count \in 0..MaxRequests /\ count < MaxRequests
      /\ count' = count + 1 /\ requests \subseteq PageRequest
      /\ asked' = s /\ latest' = "none"
      /\ mixed' = (page.kind \notin Cancels /\ requests # {})
  BY PortalAssumption DEF Asks, PageInv, PageTypeOK
<1>2. new \in PageRequest /\ new.subject = s /\ ~ new.cancelled
  BY <1>1 DEF PageRequest
<1>3. requests' = CleanedUp \cup {new}
  BY DEF Asks
<1> HIDE DEF new
<1>4. CASE page.kind \in Cancels
  <2>1. \A r \in CleanedUp : r \in PageRequest /\ r.cancelled
    BY <1>1, <1>4 DEF CleanedUp, PageRequest
  <2>2. Live' = {new}
    BY <1>2, <1>3, <2>1 DEF Live
  <2> QED
    BY <1>1, <1>2, <1>3, <1>4, <2>1, <2>2
<1>5. CASE page.kind \notin Cancels
  <2>1. requests' = requests \cup {new}
    BY <1>3, <1>5 DEF CleanedUp
  <2> QED
    BY <1>1, <1>2, <1>5, <2>1 DEF Live
<1> QED
  BY <1>4, <1>5

LEMMA StartingPage ==
  ASSUME PageTypeOK, NEW s \in Subjects
  PROVE  /\ Starting(s) \in Page
         /\ Starting(s).kind = page.kind /\ Starting(s).subject = s
         /\ Starting(s).shown \in {Nothing, page.shown}
  BY DEF PageTypeOK, Page, Starting

LEMMA SelectKeeps ==
  ASSUME PageInv, Select
  PROVE  PageInv'
<1>1. PICK s \in Subjects :
        Asks(s) /\ page' = Starting(s) /\ UNCHANGED refresh
  BY DEF Select
<1>2. PageTypeOK /\ OneLive
  BY DEF PageInv
<1>3. page' \in Page /\ page'.kind = page.kind /\ page'.subject = s
  BY <1>1, <1>2, StartingPage
<1>4. PICK r \in Live' :
        /\ r.subject = s
        /\ page.kind \in Cancels => Live' = {r}
        /\ page.kind \notin Cancels => requests' = requests \cup {r} /\ ~ r.cancelled
  BY <1>1, AsksOne
<1>7. /\ asked' = s /\ latest' = "none"
      /\ mixed' = (page.kind \notin Cancels /\ requests # {})
  BY <1>1, AsksOne
<1>5. PageTypeOK'
  BY <1>1, <1>2, <1>3, <1>7, AsksOne DEF PageTypeOK
<1>6. OneLive'
  <2>1. CASE page.kind \in Cancels
    BY <1>1, <1>2, <1>3, <1>4, <1>7, <2>1 DEF OneLive
  <2>2. CASE page.kind \notin Cancels
    <3>1. ~ mixed' => Live' = {r}
      BY <1>4, <1>7, <2>2 DEF Live
    <3> QED
      BY <1>1, <1>2, <1>3, <1>4, <1>7, <2>2, <3>1 DEF OneLive
  <2> QED
    BY <2>1, <2>2
<1> QED
  BY <1>4, <1>5, <1>6 DEF PageInv, ShownIsCurrent, LoadingEnds

LEMMA RefreshDueKeeps ==
  ASSUME PageInv, RefreshDue
  PROVE  PageInv'
<1>1. PICK s \in refresh :
        /\ Asks(s) /\ refresh' = refresh \ {s}
        /\ page' = [Starting(s) EXCEPT !.subject = page.subject]
  BY DEF RefreshDue
<1>2. /\ PageTypeOK /\ OneLive /\ s \in Subjects
      /\ page.kind \in Refreshes /\ page.kind \notin Cancels
  BY DEF PageInv, OneLive, PageTypeOK, Refreshes, Cancels, Once
<1>3. page' \in Page /\ page'.kind = page.kind /\ page'.subject = page.subject
  BY <1>1, <1>2, StartingPage DEF PageTypeOK, Page
<1>4. PICK r \in Live' :
        r.subject = s /\ requests' = requests \cup {r} /\ ~ r.cancelled
  BY <1>1, <1>2, AsksOne
<1>5. asked' = s /\ latest' = "none" /\ mixed' = (requests # {})
  BY <1>1, <1>2, AsksOne
<1>6. PageTypeOK'
  BY <1>1, <1>2, <1>3, <1>5, AsksOne DEF PageTypeOK
<1>7. OneLive'
  <2>1. ~ mixed' => Live' = {r}
    BY <1>4, <1>5 DEF Live
  <2> QED
    BY <1>2, <1>3, <1>4, <1>5, <2>1 DEF OneLive
<1> QED
  BY <1>4, <1>6, <1>7 DEF PageInv, ShownIsCurrent, LoadingEnds

\* The wallet disconnects, or another is created: nothing is shown, and whatever
\* is under way is now about another address.
LEMMA WalletKeeps ==
  ASSUME PageInv, Disconnect \/ CreateWallet
  PROVE  PageInv'
<1>1. /\ PageTypeOK /\ OneLive
      /\ page.kind \notin Cancels /\ page.kind \in Refreshes
  BY DEF PageInv, Disconnect, CreateWallet, Disconnects, Cancels, Once, Refreshes
<1>2. /\ page' \in Page /\ page'.kind = page.kind /\ page'.loading = page.loading
      /\ page'.shown = Nothing
      /\ asked' = None /\ latest' = "none" /\ mixed' = (requests # {})
      /\ UNCHANGED <<requests, count, refresh>>
  BY <1>1 DEF Disconnect, CreateWallet, CleanedUp, PageTypeOK, Page
<1>3. Live' = Live
  BY <1>2 DEF Live
<1>4. ~ mixed' => Live' = {}
  BY <1>2 DEF Live
<1> QED
  BY <1>1, <1>2, <1>3, <1>4 DEF PageInv, PageTypeOK, OneLive, ShownIsCurrent, LoadingEnds

LEMMA SubmittedKeeps ==
  ASSUME PageInv, Submitted
  PROVE  PageInv'
<1>1. /\ page.kind \notin Cancels /\ page.kind \in Refreshes
      /\ refresh' \subseteq Subjects
  BY DEF PageInv, PageTypeOK, Submitted, Refreshes, Cancels, Once
<1>2. Live' = Live
  BY DEF Submitted, Live
<1> QED
  BY <1>1, <1>2 DEF Submitted, PageInv, PageTypeOK, OneLive, ShownIsCurrent, LoadingEnds

\* What an answer shows is about its subject, or nothing, or what was there.
LEMMA ShowingAnswer ==
  ASSUME PageTypeOK, NEW s \in Subjects, NEW answer \in {"found", "missing", "error"}
  PROVE  /\ Showing(s, answer) \in
              {Nothing, page.shown, [of |-> s, answer |-> answer]}
         /\ Showing(s, answer) = page.shown =>
              \/ answer = "missing" /\ page.kind \in KeepsOld
              \/ Showing(s, answer) = Nothing
              \/ Showing(s, answer) = [of |-> s, answer |-> answer]
         /\ answer = "found" => Showing(s, answer) = [of |-> s, answer |-> answer]
  BY DEF Showing

LEMMA AnswerKeeps ==
  ASSUME PageInv, AnswerArrives
  PROVE  PageInv'
<1>1. PICK r \in requests, answer \in {"found", "missing", "error"} :
        /\ requests' = requests \ {r}
        /\ Answered(r, answer)
        /\ latest' = IF r.cancelled THEN latest ELSE answer
        /\ UNCHANGED <<count, asked, refresh, mixed>>
  BY DEF AnswerArrives
<1>2. PageTypeOK /\ OneLive /\ r \in PageRequest /\ r.subject \in Subjects
  BY DEF PageInv, PageTypeOK, PageRequest
<1>3. CASE r.cancelled
  <2>1. page' = page /\ latest' = latest /\ Live' = Live
    BY <1>1, <1>3 DEF Answered, Live
  <2> QED
    BY <1>1, <1>2, <2>1 DEF PageInv, PageTypeOK, OneLive, ShownIsCurrent, LoadingEnds
<1>4. CASE ~ r.cancelled
  <2>1. /\ page' = [page EXCEPT !.shown = Showing(r.subject, answer), !.loading = FALSE]
        /\ latest' = answer
    BY <1>1, <1>4 DEF Answered
  <2>2. Showing(r.subject, answer) \in
          {Nothing} \cup [of : Subjects, answer : {"found", "missing", "error"}]
    BY <1>2, ShowingAnswer DEF PageTypeOK, Page
  <2>3. /\ page' \in Page /\ page'.kind = page.kind /\ page'.subject = page.subject
        /\ ~ page'.loading /\ page'.shown = Showing(r.subject, answer)
    BY <1>2, <2>1, <2>2 DEF PageTypeOK, Page
  <2>4. PageTypeOK'
    BY <1>1, <1>2, <2>1, <2>3 DEF PageTypeOK
  <2>5. Live' = Live \ {r} /\ r \in Live
    BY <1>1, <1>4 DEF Live
  <2>6. OneLive'
    BY <1>1, <1>2, <2>3, <2>5 DEF OneLive
  <2>7. ShownIsCurrent'
    <3>1. SUFFICES ASSUME ~ mixed PROVE ShownIsCurrent'
      BY <1>1 DEF ShownIsCurrent
    <3>2. r.subject = asked /\ (asked # page.subject => page.kind \in Refreshes)
      BY <1>2, <2>5, <3>1 DEF OneLive
    <3>5. asked' = asked
      BY <1>1
    <3>3. CASE Showing(r.subject, answer) = [of |-> r.subject, answer |-> answer]
      BY <2>1, <2>3, <3>2, <3>3, <3>5 DEF ShownIsCurrent
    <3>4. CASE Showing(r.subject, answer) # [of |-> r.subject, answer |-> answer]
      BY <1>2, <2>1, <2>3, <3>2, <3>4, <3>5, ShowingAnswer DEF ShownIsCurrent
    <3> QED
      BY <3>3, <3>4
  <2> QED
    BY <2>3, <2>4, <2>6, <2>7 DEF PageInv, LoadingEnds
<1> QED
  BY <1>3, <1>4

LEMMA PageNextKeeps ==
  ASSUME PageInv, PageNext
  PROVE  PageInv'
  BY SelectKeeps, WalletKeeps, AnswerKeeps, SubmittedKeeps, RefreshDueKeeps DEF PageNext

LEMMA PageStutters ==
  ASSUME PageInv, UNCHANGED pageVars
  PROVE  PageInv'
  BY DEF PageInv, pageVars, PageTypeOK, OneLive, Live, ShownIsCurrent, LoadingEnds

-----------------------------------------------------------------------------
(* The sessions.                                                           *)

SessionInv == SessionTypeOK /\ SessionStored

\* The token and the user are of one account, or nobody's.
LEMMA ItemTypes ==
  /\ NoItems \in Items
  /\ \A who \in People : Of(who) \in Items /\ Of(who).token = Of(who).user
  /\ NoItems.token = NoItems.user
  /\ \A i \in Items : i.token = Nobody /\ i.user = Nobody => i = NoItems
  BY DEF NoItems, Items, Of

LEMMA SessionInvInit ==
  ASSUME SessionInit PROVE SessionInv
<1>1. MaxCalls \in Nat
  BY PortalAssumption
<1>2. tabs \in [Tabs -> [loading : BOOLEAN, items : Items]] /\ sent \in 0..MaxCalls
  BY <1>1, ItemTypes DEF SessionInit, Tab
<1> QED
  BY <1>2, ItemTypes DEF SessionInit, SessionInv, SessionTypeOK, SessionStored, Tab

LEMMA SessionNextKeeps ==
  ASSUME SessionInv, SessionNext
  PROVE  SessionInv'
<1>0. /\ MaxCalls \in Nat /\ sent \in 0..MaxCalls
      /\ tabs \in [Tabs -> [loading : BOOLEAN, items : Items]]
      /\ storage \in Items
      /\ \A c \in calls : c.tab \in Tabs /\ c.who \in People
  BY PortalAssumption DEF SessionInv, SessionTypeOK
<1>1. ASSUME NEW t \in Tabs, TabLoads(t)
      PROVE  SessionInv'
  <2> DEFINE new == IF Nobody \in {storage.token, storage.user} THEN NoItems ELSE storage
  <2>1. new \in Items /\ (~ split => new = storage)
    BY <1>0, ItemTypes DEF SessionInv, SessionStored
  <2>2. tabs' = [tabs EXCEPT ![t] = Tab(FALSE, new)]
    BY <1>1 DEF TabLoads
  <2> HIDE DEF new
  <2>3. tabs' \in [Tabs -> [loading : BOOLEAN, items : Items]]
    BY <1>0, <2>1, <2>2 DEF Tab
  <2>4. \A u \in Tabs : tabs'[u] = IF u = t THEN Tab(FALSE, new) ELSE tabs[u]
    BY <1>0, <2>2
  <2> QED
    BY <1>1, <2>1, <2>3, <2>4 DEF TabLoads, SessionInv, SessionTypeOK, SessionStored, Tab
<1>2. ASSUME NEW t \in Tabs, FormSubmitted(t)
      PROVE  SessionInv'
  BY <1>0, <1>2 DEF FormSubmitted, SessionInv, SessionTypeOK, SessionStored
<1>3. ASSUME SignedIn
      PROVE  SessionInv'
  <2>1. PICK c \in calls :
          /\ calls' = calls \ {c} /\ storage' = Of(c.who) /\ split' = FALSE
          /\ tabs' = [tabs EXCEPT ![c.tab].items = Of(c.who)]
          /\ foreign' = (foreign \cup Tabs) \ {c.tab} /\ UNCHANGED sent
    BY <1>3 DEF SignedIn
  <2>2. c.tab \in Tabs /\ Of(c.who) \in Items /\ Of(c.who).token = Of(c.who).user
    BY <1>0, ItemTypes
  <2>3. /\ tabs' \in [Tabs -> [loading : BOOLEAN, items : Items]]
        /\ tabs'[c.tab].items = Of(c.who)
    BY <1>0, <2>1, <2>2
  <2> QED
    BY <2>1, <2>2, <2>3 DEF SessionInv, SessionTypeOK, SessionStored
<1>4. ASSUME SignInFails
      PROVE  SessionInv'
  BY <1>4 DEF SignInFails, SessionInv, SessionTypeOK, SessionStored
<1>5. ASSUME StorageFull
      PROVE  SessionInv'
  <2>1. storage' \in Items
    BY <1>0, <1>5 DEF StorageFull, Items
  <2> QED
    BY <1>5, <2>1 DEF StorageFull, SessionInv, SessionTypeOK, SessionStored
<1>6. ASSUME NEW t \in Tabs, SignedOut(t)
      PROVE  SessionInv'
  <2>1. /\ tabs' \in [Tabs -> [loading : BOOLEAN, items : Items]]
        /\ tabs'[t].items = NoItems
    BY <1>0, <1>6, ItemTypes DEF SignedOut
  <2> QED
    BY <1>6, <2>1, ItemTypes DEF SignedOut, SessionInv, SessionTypeOK, SessionStored
<1>7. ASSUME NEW t \in Tabs, Reloaded(t)
      PROVE  SessionInv'
  <2>1. /\ tabs' \in [Tabs -> [loading : BOOLEAN, items : Items]]
        /\ \A u \in Tabs : tabs'[u] = IF u = t THEN Tab(TRUE, NoItems) ELSE tabs[u]
    BY <1>0, <1>7, ItemTypes DEF Reloaded, Tab
  <2> QED
    BY <1>7, <2>1 DEF Reloaded, SessionInv, SessionTypeOK, SessionStored, Tab
<1> QED
  BY <1>1, <1>2, <1>3, <1>4, <1>5, <1>6, <1>7 DEF SessionNext

LEMMA SessionStutters ==
  ASSUME SessionInv, UNCHANGED sessionVars
  PROVE  SessionInv'
  BY DEF SessionInv, sessionVars, SessionTypeOK, SessionStored

-----------------------------------------------------------------------------
(* All of them.                                                            *)

IInv == UserInv /\ RegistryInv /\ PageInv /\ SessionInv

LEMMA IInvHolds == Spec => []IInv
<1>1. Init => IInv
  BY UserInvInit, RegistryInvInit, PageInvInit, SessionInvInit DEF Init, IInv
<1>2. IInv /\ [Next]_vars => IInv'
  <2> SUFFICES ASSUME IInv, [Next]_vars PROVE IInv'
    OBVIOUS
  <2>1. UserInv'
    BY UserNextKeeps, UserRestartKeeps, UserStutters DEF IInv, Next, vars, Restart
  <2>2. RegistryInv'
    BY RegistryNextKeeps, RegistryRestartKeeps, RegistryStutters DEF IInv, Next, vars, Restart
  <2>3. PageInv'
    BY PageNextKeeps, PageStutters DEF IInv, Next, vars, Restart
  <2>4. SessionInv'
    BY SessionNextKeeps, SessionStutters DEF IInv, Next, vars, Restart
  <2> QED
    BY <2>1, <2>2, <2>3, <2>4 DEF IInv
<1> QED
  BY <1>1, <1>2, PTL DEF Spec

\* The files, the requests, the pages and the sessions have the types that the
\* modules say, whatever the process and the disk do.
THEOREM PortalTypeCorrect == Spec => []TypeOK
<1>1. IInv => TypeOK
  BY DEF IInv, UserInv, RegistryInv, PageInv, SessionInv, TypeOK
<1> QED
  BY <1>1, IInvHolds, PTL

\* What is kept is what is in use: no save is lost but by an overlap, a failure or
\* an end of the process in its middle (user_store.ts:40-43,
\* contract_registry.ts:40-44), no session but by another tab or a full storage.
THEOREM FilesHoldTheMaps == Spec => []FileIsMemory
<1>1. IInv => FileIsMemory
  BY DEF IInv, UserInv, RegistryInv, SessionInv, FileFits, FileIsMemory
<1> QED
  BY <1>1, IInvHolds, PTL

\* An account whose sign-up or sign-in was answered with a token, and a contract
\* whose verification was answered, are there ever after, with the exceptions of
\* SignupLasts and VerificationLasts (user_store.ts:49-58, contract_registry.ts:46-57).
THEOREM AnswersLast == Spec => []AnsweredLasts
<1>1. IInv => AnsweredLasts
  BY DEF IInv, UserInv, RegistryInv, Lasting, AnsweredLasts, SignupLasts
<1> QED
  BY <1>1, IInvHolds, PTL

\* A page at rest shows what was found about what it last asked for, and that is its
\* own subject but where a timer asks for another address, with the exceptions of
\* ShownIsCurrent (Wallet.tsx:21-107, BlockDetail.tsx:10-28).
THEOREM PagesShowWhatTheyAsked == Spec => []ShownIsCurrent
<1>1. IInv => ShownIsCurrent
  BY DEF IInv, PageInv
<1> QED
  BY <1>1, IInvHolds, PTL

\* A page that says that it is loading has a request whose answer it will take
\* (AddressDetail.tsx:11-35).
THEOREM LoadingWaits == Spec => []LoadingEnds
<1>1. IInv => LoadingEnds
  BY DEF IInv, PageInv
<1> QED
  BY <1>1, IInvHolds, PTL

=============================================================================
