------------------------------- MODULE Portal -------------------------------
(***************************************************************************)
(* The portal around the node: the accounts and the verified contracts     *)
(* that the API server keeps, which one end of the process takes down      *)
(* together, and the pages and sessions of the frontend.                   *)
(*                                                                         *)
(* The parts share no state but the process, so that one behaviour needs   *)
(* no more than one of them in use: `use` is which.                        *)
(***************************************************************************)
EXTENDS UserStore, ContractRegistry, WebPages, Sessions

CONSTANT MaxRestarts   \* bound

ASSUME PortalAssumption == {MaxRequests, MaxCalls, MaxRestarts} \subseteq Nat

VARIABLES use, restarts

vars == <<userVars, registryVars, pageVars, sessionVars, use, restarts>>

\* The process ends at any moment, and start() loads both files.
Restart ==
  /\ restarts < MaxRestarts
  /\ restarts' = restarts + 1
  /\ UserRestart /\ RegistryRestart
  /\ UNCHANGED <<pageVars, sessionVars, use>>

Init ==
  /\ UserInit /\ RegistryInit /\ PageInit /\ SessionInit
  /\ use \in {"accounts", "contracts", "pages", "sessions"}
  /\ use # "accounts" => ~ database
  /\ use # "pages" => page.kind = "block"
  /\ restarts = 0

Next ==
  \/ use = "accounts" /\ UserNext
     /\ UNCHANGED <<registryVars, pageVars, sessionVars, use, restarts>>
  \/ use = "contracts" /\ RegistryNext
     /\ UNCHANGED <<userVars, pageVars, sessionVars, use, restarts>>
  \/ use = "pages" /\ PageNext
     /\ UNCHANGED <<userVars, registryVars, sessionVars, use, restarts>>
  \/ use = "sessions" /\ SessionNext
     /\ UNCHANGED <<userVars, registryVars, pageVars, use, restarts>>
  \/ use \in {"accounts", "contracts"} /\ Restart

Spec == Init /\ [][Next]_vars

TypeOK == UserTypeOK /\ RegistryTypeOK /\ PageTypeOK /\ SessionTypeOK

\* What is kept is what is in use.  In both files no save of the process is lost but
\* by a failure, an overlap or an end in the middle of it, and a save that is alone
\* puts right what was wrong before; in the browser the session that is stored is
\* the one of the tab.
FileIsMemory == Saved(users) /\ Saved(registry) /\ SessionStored

\* What a client was told it has, an account or a verified contract, it has.
AnsweredLasts == SignupLasts /\ VerificationLasts

=============================================================================
