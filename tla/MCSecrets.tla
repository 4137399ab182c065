----------------------------- MODULE MCSecrets -----------------------------
(* A small instance of SecretManager for TLC: an environment secret, a     *)
(* file secret with a variable of its own, and one that is not found.      *)
EXTENDS SecretManager

CONSTANTS password, key, token

ThreeSecrets == <<password, key, token>>
OneFile      == {key}
EnvVars      == {"PASSWORD", "KEY", "KEY_PATH", "TOKEN"}
Names        == [s \in Secrets |-> CASE s = password -> "PASSWORD" [] s = key -> "KEY" [] OTHER -> "TOKEN"]
Targets      == [s \in Secrets |-> IF s = key THEN "KEY_PATH" ELSE Names[s]]
=============================================================================
