------------------------------- MODULE MCResults --------------------------------
(* An instance of Results: demos with rows of different lengths.           *)
EXTENDS Results

MCRowLength == <<2, 3, 1>>
================================================================================
