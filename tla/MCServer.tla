------------------------------ MODULE MCServer ------------------------------
(***************************************************************************)
(* The environments of the model-checking run of Server.                   *)
(***************************************************************************)
EXTENDS Server, TLC

(* A good one, one that Load rejects, and the three that it lets through. *)
Various == {{}, {"secret_short"}, {"url_malformed"}, {"url_pgx5"}, {"port_bad"}}

Good == {{}}
=============================================================================
