---------------------------- MODULE MCReaderLoop ----------------------------
(***************************************************************************)
(* Every stream of N bytes, read in chunks of every size.                  *)
(***************************************************************************)
EXTENDS ReaderLoop
=============================================================================
