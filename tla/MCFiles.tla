------------------------------ MODULE MCFiles -------------------------------
(* The paths of a small file system for TLC: a file a, a device b and the    *)
(* directories d and d/d, one with a file a of its own.                      *)
EXTENDS Files, TLC

MCOpens == {<<"a">>, <<"d">>}

MCCreates == {<<"/", "d", "a">>}

MCDirs == {<<"d">>}

MCDevs == {<<"b">>}

MCLinks == {<<<<"a">>, <<"/", "d", "a">>>>, <<<<"a">>, <<"a">>>>}

MCUnlinks == {<<"a">>, <<"/", "d">>, <<"/", "d", "d">>}

MCChdirs == {<<"/", "d", "d">>, <<"..">>}

\* The processes are alike.
Symmetry == Permutations(Procs)
============================================================================
