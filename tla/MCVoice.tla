------------------------------- MODULE MCVoice -------------------------------
(* Voice muting on two slots: either everyone may hear everyone, or each   *)
(* player only hears himself (two teams).                                  *)
EXTENDS Voice

MCRules == {[s \in Slots |-> Slots], [s \in Slots |-> {s}]}
=============================================================================
