------------------------------ MODULE Startup ------------------------------
(***************************************************************************)
(* The boot of the api service (app/core/lifespan.py) against the services *)
(* it needs: Vault in development mode, which forgets its secrets when it  *)
(* stops and is filled path by path by a script (seedexample.sh); and the  *)
(* model server (inference/main.py), which checks the hash of its weights  *)
(* before it loads them from a directory that a training run may write to. *)
(*                                                                         *)
(* The secrets are read once, each failure on its own is only a warning,   *)
(* and whether Vault can be reached is checked much later: a boot can meet *)
(* a half-filled Vault, or two incarnations of the model server.           *)
(***************************************************************************)
EXTENDS Integers, Sequences

CONSTANT
  Paths        \* of the secrets, in the order they are written and read

Path == {Paths[i] : i \in 1..Len(Paths)}

\* No step of the boot looks at what "db", "minio" and "github" hold.
ASSUME StartupAssumption ==
  /\ Paths \in Seq(STRING)
  /\ {"jwt", "llm", "langfuse"} \subseteq Path

VARIABLES
  vaultUp,   \* Vault answers
  vault,     \* the secrets it holds, in memory
  seeding,   \* next path the script writes; 0 where it does not run
  weights,   \* what model.safetensors is: as expected, another, or absent
  server,    \* the model server
  loaded,    \* the weights it has loaded
  swapped,   \* the file was replaced between its check and its loading
  api,       \* what the api service is at
  reading,   \* next path load_all reads
  secrets,   \* _secrets, as far as loaded
  seen,      \* what the model server's answers to this boot and later came from
  quiet,     \* Vault was filled, and neither changed nor failed, since this boot began
  traced     \* the tracing backend accepted the keys during this boot

vaultVars == <<vaultUp, vault, seeding>>
serverVars == <<server, loaded, swapped>>
apiVars == <<api, reading, secrets, seen, traced>>
vars == <<vaultVars, weights, serverVars, apiVars, quiet>>

Secret == {"absent", "blank", "real"}
Forgotten == [p \in Path |-> "absent"]

Init ==
  /\ vaultUp = TRUE /\ vault = Forgotten /\ seeding = 0
  /\ weights \in {"expected", "other", "none"}
  /\ server = "down" /\ loaded = "none" /\ swapped = FALSE
  /\ api = "down" /\ reading = 1 /\ secrets = Forgotten
  /\ seen = {} /\ traced = FALSE /\ quiet = FALSE

-----------------------------------------------------------------------------
(* Vault, and the script that fills it.                                    *)

VaultStops ==
  /\ vaultUp
  /\ vaultUp' = FALSE /\ vault' = Forgotten /\ quiet' = FALSE
  /\ UNCHANGED <<seeding, weights, serverVars, apiVars>>

VaultStarts ==
  /\ ~vaultUp
  /\ vaultUp' = TRUE
  /\ UNCHANGED <<vault, seeding, weights, serverVars, apiVars, quiet>>

\* until curl -sf ... waits for Vault before the first path is written.
SeedStarts ==
  /\ seeding = 0 /\ vaultUp
  /\ seeding' = 1
  /\ UNCHANGED <<vaultUp, vault, weights, serverVars, apiVars, quiet>>

\* The keys of the LLM and of the tracing backend are the operator's, and ""
\* in the example the repository ships.
SeedValues(p) == IF p \in {"llm", "langfuse"} THEN {"blank", "real"} ELSE {"real"}

SeedPath ==
  /\ seeding # 0 /\ vaultUp
  /\ \E v \in SeedValues(Paths[seeding]) :
        vault' = [vault EXCEPT ![Paths[seeding]] = v]
  /\ seeding' = (seeding + 1) % (Len(Paths) + 1)
  /\ quiet' = FALSE
  /\ UNCHANGED <<vaultUp, weights, serverVars, apiVars>>

\* A write that Vault does not take ends the script: set -e, exit 1.
SeedFails ==
  /\ seeding # 0 /\ ~vaultUp
  /\ seeding' = 0
  /\ UNCHANGED <<vaultUp, vault, weights, serverVars, apiVars, quiet>>

-----------------------------------------------------------------------------
(* The model server.                                                       *)

WeightsReplaced ==
  /\ weights' \in {"expected", "other", "none"} \ {weights}
  /\ swapped' = (swapped \/ server = "verified")
  /\ UNCHANGED <<vaultVars, server, loaded, apiVars, quiet>>

\* Mutant of ServerVerifies: the hash is computed and not compared.
ServerVerifies_AnyHash ==
  /\ server = "down"
  /\ weights # "none"
  /\ server' = "verified" /\ swapped' = FALSE
  /\ UNCHANGED <<vaultVars, weights, loaded, apiVars, quiet>>

\* No weights, or another hash than expected_sha256.txt: RuntimeError, and
\* the process ends.
ServerVerifies ==
  /\ server = "down"
  /\ weights = "expected"
  /\ server' = "verified" /\ swapped' = FALSE
  /\ UNCHANGED <<vaultVars, weights, loaded, apiVars, quiet>>

\* Nothing is served before the classifier is loaded, and the two models that
\* are not checked; a classifier or summarizer that fails ends the process.
ServerLoads ==
  /\ server = "verified"
  /\ weights # "none"
  /\ server' = "serving" /\ loaded' = weights
  /\ UNCHANGED <<vaultVars, weights, swapped, apiVars, quiet>>

ServerStops ==
  /\ server # "down"
  /\ server' = "down" /\ loaded' = "none" /\ swapped' = FALSE
  /\ UNCHANGED <<vaultVars, weights, apiVars, quiet>>

-----------------------------------------------------------------------------
(* The api service.                                                        *)

\* docker compose starts it once Vault is healthy.  Redis and the database
\* are up by then too, and no later step of the boot asks for them.
BootStarts ==
  /\ api = "down" /\ vaultUp
  /\ api' = "reading"
  /\ quiet' = (\A p \in Path : vault[p] # "absent")
  /\ UNCHANGED <<vaultVars, weights, serverVars, reading, secrets, seen, traced>>

\* What client.read returns, or nothing where it raises for any reason.
Read(v) ==
  /\ v \in {vault[Paths[reading]], "absent"}
  /\ secrets' = [secrets EXCEPT ![Paths[reading]] = v]
  /\ quiet' = (quiet /\ v = vault[Paths[reading]])
  /\ reading' = reading + 1
  /\ UNCHANGED <<vaultVars, weights, serverVars, seen, traced>>

\* Mutant of ReadSecret: the loop ends one path too early.
ReadSecret_OffByOne ==
  /\ api = "reading"
  /\ \E v \in Secret : Read(v)
  /\ api' = IF reading = Len(Paths) - 1 THEN "clients" ELSE "reading"

\* A path that cannot be read is left empty, and the next one is read.
ReadSecret ==
  /\ api = "reading"
  /\ \E v \in Secret : Read(v)
  /\ api' = IF reading = Len(Paths) THEN "clients" ELSE "reading"

\* The process ends; compose does not start it again by itself.
Refuse ==
  /\ api' = "down" /\ reading' = 1 /\ secrets' = Forgotten
  /\ seen' = {} /\ traced' = FALSE /\ quiet' = FALSE
  /\ UNCHANGED <<vaultVars, weights, serverVars>>

Proceed(next) ==
  /\ api' = next
  /\ UNCHANGED <<vaultVars, weights, serverVars, reading, secrets, quiet>>

\* LLMClient() raises without a key of either provider; everything else
\* that is built here takes whatever secrets there are, or none.
HasLLMKey == secrets["llm"] = "real"

\* Mutant of InitClients: a client without keys is left to a later check.
InitClients_WithoutKey ==
  /\ api = "clients"
  /\ Proceed("vault") /\ UNCHANGED <<seen, traced>>

InitClients ==
  /\ api = "clients"
  /\ HasLLMKey
  /\ Proceed("vault") /\ UNCHANGED <<seen, traced>>

AssertVaultReachable ==
  /\ api = "vault"
  /\ vaultUp
  /\ Proceed("weights") /\ UNCHANGED <<seen, traced>>

\* Two requests to /health, which another incarnation may answer each time.
\* The hash it reports is that of the file it checked, the weights behind its
\* answers are those it loaded; that the two differ is history of the model.
Answer == {[weights |-> loaded, swapped |-> swapped]}

AssertWeightsPresent ==
  /\ api = "weights"
  /\ server = "serving"
  /\ seen' = seen \cup Answer
  /\ Proceed("sha256") /\ UNCHANGED traced

AssertWeightsMatch ==
  /\ api = "sha256"
  /\ server = "serving"
  /\ seen' = seen \cup Answer
  /\ Proceed("tracing") /\ UNCHANGED traced

\* Without keys tracing is off, with a warning.
AssertTracing ==
  /\ api = "tracing"
  /\ traced' = (secrets["langfuse"] = "real")
  /\ Proceed("thresholds") /\ UNCHANGED seen

\* The thresholds are the subject of Evaluation; here they pass or they do not.
AssertThresholds ==
  /\ api = "thresholds"
  /\ Proceed("up") /\ UNCHANGED <<seen, traced>>

\* A booted service never looks at the health of the model server again; each
\* call is answered by whichever incarnation runs.
Classify ==
  /\ api = "up" /\ server = "serving"
  /\ seen' = seen \cup Answer
  /\ UNCHANGED <<vaultVars, weights, serverVars, api, reading, secrets, traced,
                 quiet>>

\* Mutant of BootFails: the check of Vault waits instead of refusing.
BootFails_WaitsForVault ==
  /\ api \notin {"down", "vault"}
  /\ Refuse

\* Every step may raise: a check that fails, a model that cannot be loaded,
\* keys the tracing backend rejects, a threshold that is off; and the
\* process may be stopped.
BootFails ==
  /\ api # "down"
  /\ Refuse

BootStep ==
  \/ ReadSecret \/ InitClients
  \/ AssertVaultReachable \/ AssertWeightsPresent \/ AssertWeightsMatch
  \/ AssertTracing \/ AssertThresholds

Next ==
  \/ VaultStops \/ VaultStarts
  \/ SeedStarts \/ SeedPath \/ SeedFails
  \/ WeightsReplaced \/ ServerVerifies \/ ServerLoads \/ ServerStops
  \/ BootStarts \/ BootStep \/ BootFails \/ Classify

\* Each step of a boot ends: the requests to Vault, to the model server and
\* to the tracing backend have timeouts, or raise when nobody answers.
Fairness == WF_vars(BootStep \/ (api # "up" /\ BootFails))

Spec == Init /\ [][Next]_vars /\ Fairness

-----------------------------------------------------------------------------
TypeOK ==
  /\ vaultUp \in BOOLEAN /\ vault \in [Path -> Secret]
  /\ seeding \in 0..Len(Paths)
  /\ weights \in {"expected", "other", "none"}
  /\ server \in {"down", "verified", "serving"}
  /\ loaded \in {"expected", "other", "none"}
  /\ swapped \in BOOLEAN /\ quiet \in BOOLEAN /\ traced \in BOOLEAN
  /\ api \in {"down", "reading", "clients", "vault", "weights", "sha256",
             "tracing", "thresholds", "up"}
  /\ reading \in 1..(Len(Paths) + 1)
  /\ secrets \in [Path -> Secret]
  /\ seen \subseteq [weights : {"expected", "other", "none"}, swapped : BOOLEAN]

\* Whatever boots and restarts in whatever order, what a service is told, by
\* its checks or later, comes from weights with the expected hash, or from a
\* file that was put in place between the check and the loading of the model
\* server that answers: such a server does answer (inference/main.py:66-76).
OnlyVerifiedWeightsAnswer == \A a \in seen : a.weights = "expected" \/ a.swapped

\* assert_llm_key_configured is never called, and a service that is up has a
\* key all the same, whatever Vault went through during the boot.
BootedHasKey == api = "up" => HasLLMKey

\* A boot that found Vault filled, and during which it stayed so, has every
\* secret, so that users can log in, and traces if Vault holds the keys.  All
\* that the swallowed read failures can cost needs an outage or the script.
QuietBootIsComplete ==
  (api = "up" /\ quiet) =>
    /\ secrets = vault
    /\ vault["langfuse"] = "real" => traced

\* A service that starts is up or gone before long, never half started.
BootEnds == []<>(api \in {"down", "up"})
=============================================================================
