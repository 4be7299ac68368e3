-------------------------------- MODULE MCRules ---------------------------------
(* An instance of Rules: lists with and without limits, one of them with a *)
(* map that does not exist, and a file that cannot be read.                *)
EXTENDS Rules

Line(map, min, max) == [map |-> map, min |-> min, max |-> max]

MCFiles ==
  [limits |-> <<Line("hldm1", 0, 0), Line("crossfire", 2, 9), Line("stalkyard", 0, 1)>>,
   both   |-> <<Line("stalkyard", 1, 1), Line("gone", 0, 0), Line("crossfire", 2, 0),
                Line("hldm1", 0, 0)>>,
   none   |-> <<>>]

MCValidMaps == {"hldm1", "crossfire", "stalkyard"}
================================================================================
