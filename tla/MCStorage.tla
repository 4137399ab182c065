----------------------------- MODULE MCStorage -----------------------------
(* A small instance of CloudStorage for TLC. *)
EXTENDS CloudStorage

\* Without a limit, within it, and above it by the last chunk.
SomeUploads == {<<1, 0>>, <<1, 1>>, <<2, 1>>}
=============================================================================
