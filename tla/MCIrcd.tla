------------------------------- MODULE MCIrcd -------------------------------
(***************************************************************************)
(* Three connections in one channel that is spelled two ways: three names, *)
(* one of them in two spellings, and one token valid_nick refuses.         *)
(***************************************************************************)
EXTENDS Ircd, TLC

MCName  == {"al", "AL", "bo", "cy", "9x"}
MCValid == MCName \ {"9x"}
MCChan  == {"#p", "#P"}
MCLower == [t \in MCName \cup MCChan |->
              CASE t = "AL" -> "al" [] t = "#P" -> "#p" [] OTHER -> t]
MCLists == {{"#p"}, {"#P", "al"}}
Sym     == Permutations(Conn)
=============================================================================
