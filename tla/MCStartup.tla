------------------------------ MODULE MCStartup ------------------------------
(* The environments that deploy/docker-compose.yml gives to the containers: *)
(* only tuma-api has TUMA_ADMIN_PASSWORD and TUMA_ADMIN_EMAIL, the workers  *)
(* use the default address.                                                 *)
EXTENDS Startup

CONSTANTS operator, default

ComposeEmail == [p \in Procs |-> IF p = Api THEN operator ELSE default]

=============================================================================
