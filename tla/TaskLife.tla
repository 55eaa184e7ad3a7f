------------------------------ MODULE TaskLife ------------------------------
(***************************************************************************)
(* What kernel/fork.c and kernel/exit.c promise about the slots of task[]   *)
(* for as long as init lives: a slot is taken by one task at a time; a task *)
(* that ends leaves its children to init and stays, first closing its files *)
(* and then as a zombie, until the task that is its father then has waited  *)
(* for it; and init, which forks and waits by turns, collects its zombies   *)
(* unless the table keeps filling up, when it cannot fork.                  *)
(***************************************************************************)
CONSTANTS Slots,    \* the places of task[] that fork may fill
          InitSlot, \* the place of init
          None      \* the slot of a father that is not there

VARIABLES alive,   \* init lives: nothing is promised once it does not
          life,    \* "free", "live", "ending" or "zombie"
          father   \* the slot of the father, or None

vars == <<alive, life, father>>

Init ==
  /\ alive = TRUE
  /\ life = [s \in Slots |-> IF s = InitSlot THEN "live" ELSE "free"]
  /\ father = [s \in Slots |-> None]

Fork(f, s) ==
  /\ life[f] = "live" /\ life[s] = "free"
  /\ life' = [life EXCEPT ![s] = "live"]
  /\ father' = [father EXCEPT ![s] = f]

End(s) ==
  /\ life[s] = "live"
  /\ life' = [life EXCEPT ![s] = "ending"]
  /\ father' = [c \in Slots |-> IF father[c] = s THEN InitSlot ELSE father[c]]

Die(s) ==
  /\ life[s] = "ending"
  /\ life' = [life EXCEPT ![s] = "zombie"]
  /\ UNCHANGED father

Reap(f, s) ==
  /\ life[f] = "live" /\ life[s] = "zombie" /\ father[s] = f
  /\ life' = [life EXCEPT ![s] = "free"]
  /\ father' = [father EXCEPT ![s] = None]

InitGone == ~(alive /\ alive')

Next == InitGone \/ \E f, s \in Slots : Fork(f, s) \/ End(s) \/ Die(s) \/ Reap(f, s)

(* Init has no zombie again and again, or collects one again and again, or   *)
(* finds the table full again and again.                                    *)
Collects ==
  \/ []<>(\A s \in Slots : life[s] # "free")
  \/ []<>(~alive \/ \A s \in Slots : ~(life[s] = "zombie" /\ father[s] = InitSlot))
  \/ []<><<\E s \in Slots : Reap(InitSlot, s)>>_vars

Spec == Init /\ [][Next]_vars /\ Collects
=============================================================================
