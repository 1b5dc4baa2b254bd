------------------------------- MODULE MCIngest -------------------------------
(***************************************************************************)
(* Instances of the download and the conversion for TLC.                   *)
(***************************************************************************)
EXTENDS Ingest

CONSTANTS t1, t2

\* The first and the third scenario are there, and of the second a parquet file that is
\* too short.
SomeFiles ==
  <<<<"whole", "whole">>, <<"none", "short">>, <<"whole", "whole">>, <<"none", "none">>>>

=============================================================================
