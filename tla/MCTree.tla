------------------------------- MODULE MCTree -------------------------------
(* An instance of Inode with a path that goes up.                          *)
EXTENDS Inode

UpPaths == {<<"/", "a">>, <<"/", "a", "b">>, <<"..">>}
=============================================================================
