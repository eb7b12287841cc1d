----------------------------- MODULE MCStartup -----------------------------
(***************************************************************************)
(* Startup with all six secrets, in the order of app/infra/vault.py:64.    *)
(***************************************************************************)
EXTENDS Startup

MCPaths == <<"db", "minio", "jwt", "llm", "langfuse", "github">>
=============================================================================
