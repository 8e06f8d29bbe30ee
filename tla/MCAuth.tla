------------------------------- MODULE MCAuth -------------------------------
(***************************************************************************)
(* The signups and logins of the model-checking runs of Auth.              *)
(***************************************************************************)
EXTENDS Auth, TLC

CONSTANTS alice, pw1, pw2

Signup(u, p) == [op |-> "signup", username |-> u, password |-> p]
Login(u, p)  == [op |-> "login", username |-> u, password |-> p]

(* Two people want one name; one of them logs in, or tries to. *)
Rivals == {Signup(alice, pw1), Signup(alice, pw2), Login(alice, pw1), Login(alice, pw2),
           Signup(BadName, pw1), Signup(alice, BadPassword)}

(* One person and one name. *)
OneClient == {Signup(alice, pw1)}

(* A client that waits for its answer before it tries again. *)
InProgress == {r \in Requests : pc[r] \notin {"idle", "done"}}
PatientNext ==
  Next /\ \A r \in Requests : (pc[r] = "idle" /\ pc'[r] # "idle") => InProgress = {}
PatientSpec == Init /\ [][PatientNext]_vars

Symmetry == Permutations(Requests)
=============================================================================
