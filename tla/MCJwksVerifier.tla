--------------------------- MODULE MCJwksVerifier ---------------------------
(***************************************************************************)
(* A small instance of JwksVerifier: two tokens of the new key and one of  *)
(* the old are verified while the provider replaces one by the other.      *)
(***************************************************************************)
EXTENDS JwksVerifier, TLC

CONSTANTS old, new, c1, c2, c3

KeyOf == (c1 :> old) @@ (c2 :> new) @@ (c3 :> new)
=============================================================================
