------------------------------- MODULE MCObserver -------------------------------
(* An instance of Observer: a map with spots of two classes, interleaved.  *)
EXTENDS Observer

MCSpotClass == <<3, 2, 3>>
================================================================================
