----------------------------- MODULE MCThreads ------------------------------
(***************************************************************************)
(* Three peers, one of which may stop reading, and sockets that hold half  *)
(* a line.  Two of them read lines of a third and of each other, and the   *)
(* thread of one outlives its client, which has quit.                      *)
(***************************************************************************)
EXTENDS Threads

CONSTANTS a, b, c

Scripts == a :> <<"JOIN", "QUIT">> @@ b :> <<"PRIVMSG">> @@ c :> <<"JOIN">>
=============================================================================
