-------------------------- MODULE ContractRegistry --------------------------
(***************************************************************************)
(* src/src/api/contract_registry.ts and the requests of src/src/api/index.ts *)
(* that use it: the sources and ABIs that were verified, by address, kept  *)
(* in memory and saved to a file by saves that nobody waits for.           *)
(***************************************************************************)
EXTENDS JsonFile

CONSTANTS
  Verifications,   \* bound: the requests to verify ever sent
  Contracts        \* addresses, lower-cased and without 0x

Records == UNION {[C -> Verifications] : C \in SUBSET Contracts}

VARIABLES
  registry,    \* ContractRegistry.store and verified_contracts.json
  verify,      \* what each request does
  verified     \* the addresses whose verification was answered

registryVars == <<registry, verify, verified>>

\* get(), which GET /v1/contracts/:address answers with.
Found(c) == c \in DOMAIN registry.memory

\* POST /v1/contracts/verify: the bytecode is compared across two awaits, when
\* the request gives one.
VerifyAsked(v) ==
  /\ verify[v] = "unsent"
  /\ \E c \in Contracts : verify' = [verify EXCEPT ![v] = c]
  /\ UNCHANGED <<registry, verified>>

\* add() puts the record and answers; the save goes on by itself.
VerifyAdded(v) ==
  /\ verify[v] \in Contracts
  /\ registry' = Put(registry, verify[v], v, v)
  /\ verified' = verified \cup {verify[v]}
  /\ verify' = [verify EXCEPT ![v] = "done"]

\* No code at the address, code that cannot be loaded, or another one.
VerifyRefused(v) ==
  /\ verify[v] \in Contracts
  /\ verify' = [verify EXCEPT ![v] = "done"]
  /\ UNCHANGED <<registry, verified>>

RegistrySaves ==
  /\ \E w \in registry.writes :
       \/ ~ w.opened /\ registry' = Opens(registry, w)
       \/ w.opened /\ registry' \in Written(registry, w)
       \/ registry' \in Failed(registry, w)
  /\ UNCHANGED <<verify, verified>>

RegistryInit ==
  /\ registry = NoFile
  /\ verify = [v \in Verifications |-> "unsent"]
  /\ verified = {}

RegistryNext ==
  \/ \E v \in Verifications : VerifyAsked(v) \/ VerifyAdded(v) \/ VerifyRefused(v)
  \/ RegistrySaves

\* loadSync().
RegistryRestart ==
  /\ registry' = Restarted(registry)
  /\ verify' = [v \in Verifications |-> IF verify[v] = "unsent" THEN "unsent" ELSE "done"]
  /\ UNCHANGED verified

-----------------------------------------------------------------------------
RegistryTypeOK ==
  /\ registry \in Stores(Records, Verifications)
  /\ verify \in [Verifications -> Contracts \cup {"unsent", "done"}]
  /\ verified \subseteq Contracts

\* An answered verification can be looked up ever after, unless a process ended
\* on a save that was not alone, had failed or was under way: the answer does not
\* wait for the save (contract_registry.ts:55-56).
VerificationLasts ==
  \A c \in verified : Found(c) \/ registry.harmed

=============================================================================
