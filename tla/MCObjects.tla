------------------------------- MODULE MCObjects -------------------------------
(***************************************************************************)
(* Small instances of Objects, one part of which a run of TLC begins with. *)
(***************************************************************************)
EXTENDS Objects

CONSTANTS g1, g2,
          Addresses      (* local addresses of BroadcastIPFinder           *)

TwoGuids == {g1, g2}

CtrlAndX == {<<"ctrl">>, <<"ctrl", "x">>, <<"x", "ctrl">>}

(* None, one, and two of which the first is not used or has a prefix of 1. *)
UsableEntries == [up : {TRUE}, ipv4 : {TRUE}, address : Addresses, prefix : 0 .. Width + 1]
OtherEntries  == {[up |-> FALSE, ipv4 |-> TRUE, address |-> {}, prefix |-> Width],
                  [up |-> TRUE, ipv4 |-> FALSE, address |-> {}, prefix |-> Width]}
UpToTwo       == {<<>>} \cup {<<e>> : e \in UsableEntries}
                   \cup {<<o, e>> : o \in OtherEntries, e \in UsableEntries}
                   \cup {<<[e EXCEPT !.prefix = 1], e>> : e \in UsableEntries}

=============================================================================
