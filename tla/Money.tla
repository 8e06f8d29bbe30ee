------------------------------- MODULE Money -------------------------------
(***************************************************************************)
(* Amounts of money in integer paise.                                      *)
(*                                                                         *)
(* A sum is counted coin by coin: the amount f[x] is the f[x] coins        *)
(* <<x, 1>>, ..., <<x, f[x]>>, and a total is the number of coins.  SQL's  *)
(* SUM over a set of rows is exactly that number, and facts about it       *)
(* follow from facts about the cardinality of finite sets, without any     *)
(* recursion.                                                              *)
(***************************************************************************)
EXTENDS Integers, FiniteSets

Coins(f, S) == UNION {{x} \X (1 .. f[x]) : x \in S}

(* COALESCE(SUM(f), 0) over the rows S; f is natural-valued on S. *)
Total(f, S) == Cardinality(Coins(f, S))
=============================================================================
