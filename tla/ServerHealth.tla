---------------------------- MODULE ServerHealth ----------------------------
(***************************************************************************)
(* What the Web client promises of every control server, without the       *)
(* encoding in one integer, the round robin and the HTTP exchange: a       *)
(* server that is not registered may be asked at most limit times in a     *)
(* row; after that it is left alone until the disabled servers are         *)
(* enabled again.                                                          *)
(***************************************************************************)
EXTENDS Integers

CONSTANT Slots,       \* the positions of cfgControlServers
         MaxLimit     \* the largest number of tries the encoding can count

VARIABLES health,     \* per slot: "unregistered", "registered", "disabled"
          fails,      \* per slot: failed registrations in a row
          limit       \* tries allowed now: the configuration may change it

vars == <<health, fails, limit>>

Health == {"unregistered", "registered", "disabled"}

Fresh == /\ health = [i \in Slots |-> "unregistered"]
         /\ fails = [i \in Slots |-> 0]

Init == Fresh /\ limit \in 1..MaxLimit
-----------------------------------------------------------------------------
Accepted(i) ==
  /\ health[i] = "unregistered"
  /\ health' = [health EXCEPT ![i] = "registered"]
  /\ fails' = [fails EXCEPT ![i] = 0]
  /\ UNCHANGED limit

Rejected(i) ==
  /\ health[i] = "unregistered"
  /\ \/ /\ fails[i] + 1 < limit
        /\ fails' = [fails EXCEPT ![i] = @ + 1]
        /\ UNCHANGED health
     \/ /\ fails[i] + 1 >= limit
        /\ fails' = [fails EXCEPT ![i] = 0]
        /\ health' = [health EXCEPT ![i] = "disabled"]
  /\ UNCHANGED limit

\* Every minute what was registered has to prove itself again.
Expire ==
  /\ health' = [i \in Slots |-> IF health[i] = "registered"
                                THEN "unregistered" ELSE health[i]]
  /\ UNCHANGED <<fails, limit>>

Enable ==
  /\ health' = [i \in Slots |-> "unregistered"]
  /\ fails' = [i \in Slots |-> 0]
  /\ UNCHANGED limit

Reconfigure ==
  /\ limit' \in 1..MaxLimit
  /\ UNCHANGED <<health, fails>>

Restart == Fresh' /\ limit' \in 1..MaxLimit

Next == \/ \E i \in Slots : Accepted(i) \/ Rejected(i)
        \/ Expire
        \/ Enable
        \/ Reconfigure
        \/ Restart

Spec == Init /\ [][Next]_vars
=============================================================================
