------------------------------- MODULE MCApi -------------------------------
(***************************************************************************)
(* The requests of the model-checking runs of Api.                         *)
(***************************************************************************)
EXTENDS Api, TLC

CONSTANTS alice, pw1, pw2

Signup(u, p) == [op |-> "signup", username |-> u, password |-> p]
Login(u, p)  == [op |-> "login", username |-> u, password |-> p]

(* A signup, a login that succeeds and one that does not. *)
Members == {Signup(alice, pw1), Login(alice, pw1), Login(alice, pw2)}

LogPages == {[op |-> "logs", limit |-> n] : n \in 0 .. 1} \cup {[op |-> "nowhere"]}

Symmetry == Permutations(Requests)
=============================================================================
