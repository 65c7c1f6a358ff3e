------------------------------ MODULE MCVolumes ------------------------------
(***************************************************************************)
(* Values for TLC.                                                         *)
(***************************************************************************)
EXTENDS Volumes

\* An instance of each of two projects.
MCCoasts == {<<"p", "a">>, <<"q", "b">>}

\* Two projects that give an instance the same name.
Namesakes == {<<"p", "a">>, <<"q", "a">>}
=============================================================================
