-------------------------------- MODULE MCTui --------------------------------
(* Instances of Tui for TLC. *)
EXTENDS Tui

(* A turn calls for a tool that there is not and then for a command that   *)
(* takes the terminal, or for a command and then an action on the desktop, *)
(* which both need a confirmation, or for a command that needs one and the *)
(* terminal.                                                               *)
MCAnswers == {<<"unknown", "sudo">>, <<"risky", "desk">>, <<"root">>}
=============================================================================
