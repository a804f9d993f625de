------------------------------ MODULE MCCliAgent ------------------------------
(* Instances of CliAgent for TLC. *)
EXTENDS CliAgent

MCCommands == {"ls", "rm"}

(* The parts texts are made of: ordinary text, a beginning of a tag, a     *)
(* block with two calls, one whose call does not end, one without calls,   *)
(* one that does not end, and a tag with spaces.                           *)
Open == <<"<", "n", ">">>
TwoCalls == Open \o <<"<", "ls", "t", "j", "<", "s", "rm", "j", "/">>
Spacing == <<"<", "n", "s", ">", "<", "ls", "j", "/">>
Parts ==
    {<<"t">>, <<"<">>, TwoCalls, Spacing,
     Open \o <<"<", "ls", "/">>,
     <<"<", "s", "n", ">", "<", "rm", "j", "/">>,
     Open \o <<"t">>}

MCTexts == {a \o b : a \in {<<>>, <<"t">>, <<"<">>}, b \in Parts}
           \cup {TwoCalls \o b : b \in Parts}
MCNatives == {<<>>, <<"ls", "rm">>}
=============================================================================
