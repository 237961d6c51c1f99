--------------------------- MODULE MCCommandLine ---------------------------
(* The catalogue of sigmascope/catalog.py for model checking CommandLine.  *)
EXTENDS CommandLine

MCMappings == [linux |-> <<1, 1>>, windows |-> <<2, 2, 1>>, other |-> <<>>]
=============================================================================
