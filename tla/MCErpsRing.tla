------------------------------ MODULE MCErpsRing ------------------------------
(***************************************************************************)
(* Finite constants for ErpsRing.                                          *)
(***************************************************************************)
EXTENDS ErpsRing

OwnerLowest == {[i \in Ring |-> i + 1]}
OwnerLowestOrHighest == OwnerLowest \cup {[i \in Ring |-> N - i]}
AnyOrder == {id \in [Ring -> 1 .. N] : \A i, j \in Ring : id[i] = id[j] => i = j}

AllLit  == {Ring}
RplDark == {Ring \ {RplLink}}
OneDark == {Ring \ {k} : k \in Ring}
AtMostOneDark == AllLit \cup OneDark

NoCommands  == {}
AllCommands == Ring \X {ERPS_REQ_CLEAR, ERPS_REQ_FS, ERPS_REQ_MS}

(* The owner takes all commands, each other node CLEAR and one switch.     *)
OneSwitchPerNode ==
  AllCommands \ {<<1, ERPS_REQ_MS>>, <<RplLink, ERPS_REQ_FS>>}

(* The owner's operator ends no switch, its own or another node's.         *)
NoOwnerClear == AllCommands \ {<<0, ERPS_REQ_CLEAR>>}
=============================================================================
