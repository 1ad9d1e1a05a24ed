------------------------------ MODULE PatternTree ------------------------------
(***************************************************************************)
(* The tree of a pattern, which the parser builds and the compilers, the    *)
(* generator and the rules read.  A port of 0 is a plain arrow; the branches *)
(* of a group are its alternatives, one when it has none.                   *)
(***************************************************************************)
KEY(predicate) == [op |-> "KEY", predicate |-> predicate]
CKEY(predicate, id, inputs, outputs) ==
  [op |-> "CKEY", predicate |-> predicate, id |-> id, inputs |-> inputs, outputs |-> outputs]
END == [op |-> "END"]
NEXT(left, right, port)  == [op |-> "NEXT", left |-> left, right |-> right, port |-> port]
PREC(left, right, port)  == [op |-> "PREC", left |-> left, right |-> right, port |-> port]
QUANTIFIED(body, symbol) == [op |-> "QUANTIFIED", body |-> body, symbol |-> symbol]
GROUP(branches)          == [op |-> "GROUP", branches |-> branches]
SEP(left, right)         == [op |-> "SEP", left |-> left, right |-> right]
NoTree                   == [op |-> "NONE"]
=============================================================================
