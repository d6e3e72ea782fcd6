----------------------------- MODULE MCIrcdRooms -----------------------------
(***************************************************************************)
(* Three connections, three names and two channels, one entered and left   *)
(* alone, or both in one line.                                             *)
(***************************************************************************)
EXTENDS IrcdRefinement, TLC

MCName  == {"al", "bo", "cy"}
MCChan  == {"#p", "#q"}
MCLower == [t \in MCName \cup MCChan |-> t]
MCLists == {{"#p"}, {"#p", "#q"}}
Sym     == Permutations(Conn)
=============================================================================
