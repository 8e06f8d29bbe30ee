--------------------------- MODULE WalletService ---------------------------
(***************************************************************************)
(* internal/service/wallet.go and internal/repository/wallets.go: POST     *)
(* /accounts is a SELECT, an INSERT and a second SELECT, each a            *)
(* transaction of its own; GET /balance is one statement.                  *)
(***************************************************************************)
EXTENDS Store

AccountExists(r) ==
  /\ At(r, "account_exists") /\ PoolFree
  /\ Goto(r, IF WalletExists(r, req[r].caller) THEN "account_read_existing"
             ELSE "account_insert")
  /\ UNCHANGED <<tables, req, tx, gone>>

(* pool.Exec takes a connection; the INSERT may then wait for a transfer
   that is creating the same wallet. *)
AccountAcquire(r) ==
  /\ At(r, "account_insert") /\ PoolFree
  /\ Goto(r, "account_inserting")
  /\ UNCHANGED <<tables, req, tx, gone>>

(* INSERT ... ON CONFLICT DO NOTHING, committed at once. *)
OverwriteWallet(u) ==
  wallets' = [v \in DOMAIN wallets \cup {u} |-> IF v = u THEN Seed ELSE wallets[v]]
OpenWallet(u) ==
  wallets' = [v \in DOMAIN wallets \cup {u} |->
                IF v \in DOMAIN wallets THEN wallets[v] ELSE Seed]

(* RowsAffected() == 1 *)
AlwaysCreated(u) == TRUE
Created(u) == u \notin DOMAIN wallets

AccountInsert(r) ==
  LET u == req[r].caller IN
  /\ At(r, "account_inserting")
  /\ ~InsertBlocked(r, u)
  /\ OpenWallet(u)
  /\ Goto(r, IF Created(u) THEN "account_read_created"
             ELSE "account_read_existing")
  /\ UNCHANGED <<clock, transfers, late, req, tx, gone>>

AccountRead(r) ==
  LET u == req[r].caller IN
  /\ pc[r] \in {"account_read_created", "account_read_existing"}
  /\ At(r, pc[r]) /\ PoolFree
  /\ Answer(r, IF u \notin DOMAIN wallets THEN Unavailable
               ELSE Reply(IF pc[r] = "account_read_created" THEN "wallet_created"
                          ELSE "wallet_existing", Null, wallets[u], Null))
  /\ UNCHANGED <<tables, req, tx, gone>>

(* Balance and available (balance minus active holds) from one snapshot; an
   available balance that does not fit the Go int64 is a scan error. *)
GetBalance(r) ==
  LET u == req[r].caller IN
  /\ At(r, "balances") /\ PoolFree
  /\ \E window \in Windows :
       LET available == wallets[u] - SumActiveHolds(u, clock, window) IN
       Answer(r, IF u \notin DOMAIN wallets THEN Rejection("no_wallet")
                 ELSE IF available < -MaxInt64 - 1 THEN Unavailable
                 ELSE Reply("balances", Null, wallets[u], available))
  /\ UNCHANGED <<tables, req, tx, gone>>

WalletStep(r) ==
  \/ AccountExists(r) \/ AccountAcquire(r) \/ AccountInsert(r) \/ AccountRead(r)
  \/ GetBalance(r)
=============================================================================
