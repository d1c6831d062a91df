---------------------------- MODULE NameDirectory ----------------------------
(***************************************************************************)
(* What the names of threads promise: a name stands for one place in the   *)
(* thread table, from when it is given until it is withdrawn.              *)
(***************************************************************************)
CONSTANTS Names, Places

VARIABLE directory  \* the names that are in use, each with its place

\* The larger directory has one more name.
OneMore(small, large) ==
    \E name \in Names, place \in Places :
        /\ large = small \union {<<name, place>>}
        /\ \A entry \in small : entry[1] # name

Give     == OneMore(directory, directory')
Withdraw == OneMore(directory', directory)

Init == \E name \in Names, place \in Places : directory = {<<name, place>>}

Spec == Init /\ [][Give \/ Withdraw]_directory
=============================================================================
