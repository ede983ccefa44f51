------------------------------ MODULE ErpsService ------------------------------
(***************************************************************************)
(* What a ring node promises, whatever its state machine looks like inside *)
(* (erps-fsm.h names the states, Kconfig:15 the purpose).  A node cuts the *)
(* ring at some of its ports and says so:                                  *)
(*   - it cuts a new port only for an order of its own, or where its home  *)
(*     cut is, to restore the normal state;                                *)
(*   - an order from elsewhere, and a node that gives way, only open ports;*)
(*   - the end of a switch moves no port: the ring is reopened only when   *)
(*     the wait is over, and then the home cut is put in place first;      *)
(*   - the normal state is reached through the wait alone.                 *)
(***************************************************************************)
CONSTANT Port

VARIABLES home,  \* the ports the node cuts in the normal state: its RPL port
          phase, \* "off", "normal", "switched" or "reverting"
          cut,   \* ports that carry no traffic
          says   \* what the node has last decided to announce

vars == <<home, phase, cut, says>>

Phase == {"off", "normal", "switched", "reverting"}
Order == {"FS", "SF", "MS"}
Announcement == Order \cup {"NR", "NR,RB"}

Init == /\ home \in {{}} \cup {{p} : p \in Port}
        /\ phase = "off" /\ cut = {} /\ says = "NR"

(* One port stays cut until the node knows the ring.                       *)
Start == /\ phase = "off" /\ phase' = "reverting"
         /\ \E p \in Port : home \subseteq {p} /\ cut' = {p}
         /\ UNCHANGED <<home, says>>

(* An order of the node's own: a forced switch may add to another one, a   *)
(* manual switch never displaces a switch.                                 *)
SwitchHere(p, order) ==
  /\ phase # "off" /\ phase' = "switched"
  /\ order = "MS" => phase # "switched"
  /\ \/ cut' = {p}
     \/ order = "FS" /\ phase = "switched" /\ cut' = cut \cup {p}
  /\ says' = order
  /\ UNCHANGED home

SwitchElsewhere == /\ phase # "off" /\ phase' = "switched"
                   /\ cut' \subseteq cut
                   /\ UNCHANGED <<home, says>>

(* A switch ends, here or elsewhere.                                       *)
Release == /\ phase = "switched" /\ phase' = "reverting"
           /\ says' \in {says, "NR"}
           /\ UNCHANGED <<home, cut>>

(* Two manual switches in one ring: both are withdrawn.                    *)
Withdraw == /\ phase = "switched" /\ says' = "NR"
            /\ UNCHANGED <<home, phase, cut>>

GiveWay == /\ phase = "reverting" /\ cut' \subseteq cut
           /\ UNCHANGED <<home, phase, says>>

(* Only a node with a home cut says that it is in place.                   *)
Restore == /\ phase = "reverting" /\ phase' = "normal"
           /\ cut' = home
           /\ says' = says \/ (home # {} /\ says' = "NR,RB")
           /\ UNCHANGED home

Next == \/ Start
        \/ \E p \in Port, order \in Order : SwitchHere(p, order)
        \/ SwitchElsewhere \/ Release \/ Withdraw \/ GiveWay \/ Restore

Spec == Init /\ [][Next]_vars
=============================================================================
