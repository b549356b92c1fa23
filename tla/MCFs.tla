-------------------------------- MODULE MCFs --------------------------------
(* The file system with a name that continues another one. *)
EXTENDS Fs

MCLonger == {<<"d", "d.x">>}
=============================================================================
