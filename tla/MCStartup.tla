------------------------------- MODULE MCStartup -------------------------------
(* A worker, the API and a health check come up on an empty database (Startup.cfg). *)
EXTENDS Startup

MCProcs == {"w", "a", "h"}
MCRole == [p \in MCProcs |-> CASE p = "w" -> "worker" [] p = "a" -> "api" [] OTHER -> "health"]
MCBreakages == {{}, {"chat_provider_key"}, {"data_dirs"}, {"env_vars", "yt_dlp"}}
=============================================================================
