---------------------------- MODULE CommandQueue ----------------------------
(***************************************************************************)
(* What one direction of the command channel between the master and a      *)
(* worker promises: the commands that sendcmd() accepted reach parse_cmd() *)
(* once each, in order and unaltered, until a sendcmd() fails after the    *)
(* first bytes of its command.                                             *)
(***************************************************************************)
EXTENDS Naturals, Sequences

CONSTANT Cmds

VARIABLES accepted,   \* commands for which sendcmd() did not return -1
          got,        \* commands given to parse_cmd()
          torn        \* a command was written in part

vars == <<accepted, got, torn>>

Init ==
    /\ accepted = <<>>
    /\ got = <<>>
    /\ torn = FALSE

Accept ==
    /\ \E c \in Cmds : accepted' = Append(accepted, c)
    /\ UNCHANGED <<got, torn>>

Deliver ==
    /\ Len(got) < Len(accepted)
    /\ got' = Append(got, accepted[Len(got) + 1])
    /\ UNCHANGED <<accepted, torn>>

Tear ==
    /\ torn' = TRUE
    /\ UNCHANGED <<accepted, got>>

(* Nothing is promised of a torn channel.                                  *)
Torn ==
    /\ torn
    /\ torn' = TRUE

Next == Accept \/ Deliver \/ Tear \/ Torn

Spec == Init /\ [][Next]_vars
=============================================================================
