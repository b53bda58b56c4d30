-------------------------------- MODULE MCMdf --------------------------------
(* Streams of one and two groups, of as many signals and of more or fewer. *)
EXTENDS Mdf

MCSignals == {<<7>>, <<8, 7>>}
MCGroups == UNION {[1..i -> [name : Names, signal : MCSignals]] : i \in 1..2}

MdfSpec == MdfInit /\ [][MdfNext]_mdfVars
=============================================================================
