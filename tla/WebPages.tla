------------------------------ MODULE WebPages ------------------------------
(***************************************************************************)
(* The pages of src/frontend/src that ask the API for what they show: the  *)
(* block, address and transaction pages, the list of blocks and the        *)
(* dashboard's overview, which are React effects with a clean-up, and the  *)
(* explorer's search, the wallet's balance and the stake, which are plain  *)
(* async functions.                                                        *)
(*                                                                         *)
(* A page has a subject (the id in the URL, the search, the connected or   *)
(* the checked or created wallet, or the one thing it shows), and the      *)
(* subject may change while requests are under way; their answers come in  *)
(* any order.  The wallet's timers ask for the address in the field, the   *)
(* one created or the one connected when they were set, which need not be  *)
(* the one that was checked; typing and connecting a wallet there ask      *)
(* nothing and blank nothing.  The dashboard's balance is left out: its    *)
(* useWallet() is a state of its own, which nothing connects.  What        *)
(* differs from page to page is stated by the sets below.                  *)
(***************************************************************************)
EXTENDS Naturals, FiniteSets

CONSTANTS
  Subjects,      \* ids, hashes or addresses
  MaxRequests    \* bound on the requests of a page

Kinds == {"block", "address", "tx", "blocks", "overview", "explorer", "wallet", "stake"}

Once         == {"blocks", "overview"}        \* asks when it is mounted, and never again
Cancels      == {"block", "address", "tx"} \cup Once    \* the effect has a clean-up
StartsLoading == {"block", "address", "explorer", "wallet"} \cup Once
Blanks       == {"explorer", "wallet"}        \* the old answer is removed on a request
KeepsOld     == {"block", "blocks"}           \* an answer that is not ok changes nothing
Disconnects  == {"stake"}                     \* the subject is the connected wallet's
Refreshes    == {"wallet", "stake"}           \* asks again some time after a submission

CONSTANTS None, Nothing

VARIABLES page, requests, count, asked, latest, refresh, mixed

(* page: the kind, the subject, what is shown of which subject, and whether *)
(* the page says that it is loading.  requests: those under way, each with *)
(* whether it was cancelled; count: how many there were.  asked: the       *)
(* subject of the last request, and latest: the answer to the last one     *)
(* that was not cancelled.  refresh: the addresses that a timer will ask   *)
(* for.  mixed: a request of a page without a clean-up was under way when  *)
(* the next one was made, or the wallet was replaced.                      *)

pageVars == <<page, requests, count, asked, latest, refresh, mixed>>

Page == [kind : Kinds, subject : Subjects \cup {None}, loading : BOOLEAN,
         shown : {Nothing} \cup [of : Subjects, answer : {"found", "missing", "error"}]]
PageRequest == [n : 1..MaxRequests, subject : Subjects, cancelled : BOOLEAN]

Live == {r \in requests : ~ r.cancelled}

\* No clean-up (mutation of CleanedUp).
CleanedUp_Not == requests

\* The clean-up of an effect whose subject changes.
CleanedUp ==
  IF page.kind \in Cancels THEN {[r EXCEPT !.cancelled = TRUE] : r \in requests}
                           ELSE requests

Asks(subject) ==
  /\ count < MaxRequests
  /\ count' = count + 1
  /\ requests' = CleanedUp \cup {[n |-> count + 1, subject |-> subject, cancelled |-> FALSE]}
  /\ asked' = subject /\ latest' = "none"
  /\ mixed' = (page.kind \notin Cancels /\ requests # {})

Starting(subject) ==
  [page EXCEPT !.subject = subject,
               !.loading = \/ @ \/ page.kind \in StartsLoading
                           \/ page.kind = "tx" /\ page.subject = None,
               !.shown = IF page.kind \in Blanks THEN Nothing ELSE @]

\* The route changes, the search or check button is pressed, or a wallet connects.
Select ==
  \E s \in Subjects :
    /\ s # page.subject \/ page.kind \in Blanks
    /\ page.kind \in Once => page.subject = None
    /\ page.kind = "wallet" => ~ page.loading
    /\ Asks(s)
    /\ page' = Starting(s)
    /\ UNCHANGED refresh

\* The wallet disconnects.
Disconnect ==
  /\ page.kind \in Disconnects /\ page.subject # None
  /\ page' = [page EXCEPT !.subject = None, !.shown = Nothing]
  /\ requests' = CleanedUp
  /\ asked' = None /\ latest' = "none"
  /\ mixed' = (page.kind \notin Cancels /\ requests # {})
  /\ UNCHANGED <<count, refresh>>

\* createWallet(): another address, about which nothing has been asked.
CreateWallet ==
  /\ page.kind = "wallet"
  /\ \E s \in Subjects : page' = [page EXCEPT !.subject = s, !.shown = Nothing]
  /\ asked' = None /\ latest' = "none"
  /\ mixed' = (requests # {})
  /\ UNCHANGED <<requests, count, refresh>>

\* What a page shows after an answer about a subject.
Showing(subject, answer) ==
  IF answer = "missing" /\ page.kind \in KeepsOld THEN page.shown
  ELSE IF \/ answer = "error" /\ page.kind \in Cancels
          \/ answer = "missing" /\ page.kind = "address" THEN Nothing
  ELSE [of |-> subject, answer |-> answer]

\* Loading ends with a good answer only (mutation of Answered).
Answered_OnlyFound(r, answer) ==
  page' = IF r.cancelled THEN page
          ELSE [page EXCEPT !.shown = Showing(r.subject, answer),
                            !.loading = @ /\ answer # "found"]

Answered(r, answer) ==
  page' = IF r.cancelled THEN page
          ELSE [page EXCEPT !.shown = Showing(r.subject, answer), !.loading = FALSE]

\* An answer comes, or the request fails: to a page that cancelled it, nothing.
AnswerArrives ==
  \E r \in requests, answer \in {"found", "missing", "error"} :
    /\ requests' = requests \ {r}
    /\ Answered(r, answer)
    /\ latest' = IF r.cancelled THEN latest ELSE answer
    /\ UNCHANGED <<count, asked, refresh, mixed>>

\* Without a wallet (mutation of Submitted).
Submitted_NoWallet ==
  /\ page.kind \in Refreshes
  /\ \E s \in Subjects \cup {None} : /\ page.kind = "stake" => s = page.subject
                                    /\ refresh' = refresh \cup {s}
  /\ UNCHANGED <<page, requests, count, asked, latest, mixed>>

\* The faucet, a payment, a stake: the answer sets a timer.  A stake's is for the
\* wallet connected then; the wallet's for the address in the field, created or
\* connected then, whatever was checked.
Submitted ==
  /\ page.kind \in Refreshes
  /\ \E s \in Subjects : /\ page.kind = "stake" => s = page.subject
                        /\ refresh' = refresh \cup {s}
  /\ UNCHANGED <<page, requests, count, asked, latest, mixed>>

\* The timer asks for that address, whatever the page has now.
RefreshDue ==
  \E s \in refresh :
    /\ Asks(s)
    /\ refresh' = refresh \ {s}
    /\ page' = [Starting(s) EXCEPT !.subject = page.subject]

PageInit ==
  /\ page \in [kind : Kinds, subject : {None}, loading : {FALSE}, shown : {Nothing}]
  /\ requests = {} /\ count = 0
  /\ asked = None /\ latest = "none" /\ refresh = {} /\ mixed = FALSE

PageNext == Select \/ Disconnect \/ CreateWallet \/ AnswerArrives \/ Submitted \/ RefreshDue

-----------------------------------------------------------------------------
PageTypeOK ==
  /\ page \in Page
  /\ requests \subseteq PageRequest
  /\ count \in 0..MaxRequests
  /\ asked \in Subjects \cup {None}
  /\ latest \in {"none", "found", "missing", "error"}
  /\ refresh \subseteq Subjects
  /\ mixed \in BOOLEAN

\* A page with no request under way but cancelled ones shows nothing of another
\* subject than it last asked for, and what was found about that: unless requests
\* crossed on a page that does not cancel (Wallet.tsx:21-41, Staking.tsx:32-46,
\* Explorer.tsx:10-42), or the answer was not ok on a page that then keeps what it
\* has (BlockDetail.tsx:18, Blocks.tsx:14).  What it last asked for is its subject,
\* but on the wallet's and the stake's page, where a timer may have asked for another
\* address (Wallet.tsx:69,103, Staking.tsx:76-79).
ShownIsCurrent ==
  Live = {} /\ ~ mixed =>
    /\ \/ page.shown = Nothing
       \/ page.shown.of = asked
       \/ page.kind \in KeepsOld /\ latest = "missing"
    /\ latest = "found" => page.shown = [of |-> asked, answer |-> "found"]
    /\ asked # page.subject => page.kind \in Refreshes

\* A page that says it is loading waits for an answer.
LoadingEnds == page.loading => Live # {}

=============================================================================
