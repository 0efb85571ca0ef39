------------------------------ MODULE OpenFiles ------------------------------
(***************************************************************************)
(* What the file layer of the HAL promises an application: a descriptor    *)
(* stays with its device from open to close, the three standard streams    *)
(* always have one, and while a device is owned no new descriptor gets at  *)
(* it and no second owner appears.                                         *)
(***************************************************************************)
EXTENDS Integers

CONSTANTS Handle,     \* descriptors; 0, 1 and 2 are the standard streams
          Device,     \* devices and file systems
          None

Standard == {0, 1, 2}

VARIABLES users,      \* [Handle -> Device \union {None}]
          owner       \* [Device -> Handle \union {None}]

vars == <<users, owner>>

Init == /\ users \in [Handle -> Device \union {None}]
        /\ \A h \in Handle : users[h] # None <=> h \in Standard
        /\ owner = [d \in Device |-> None]

Open(h, d) == /\ users[h] = None /\ owner[d] = None
              /\ users' = [users EXCEPT ![h] = d] /\ UNCHANGED owner

(* Start-up only: a standard stream moves to another device.               *)
Redirect(h, d) == /\ h \in Standard
                  /\ owner[d] = None /\ owner[users[h]] # h
                  /\ users' = [users EXCEPT ![h] = d] /\ UNCHANGED owner

Own(h) == /\ users[h] # None /\ owner[users[h]] = None
          /\ owner' = [owner EXCEPT ![users[h]] = h] /\ UNCHANGED users

Disown(h) == /\ users[h] # None /\ owner[users[h]] = h
             /\ owner' = [owner EXCEPT ![users[h]] = None] /\ UNCHANGED users

Close(h) == /\ h \notin Standard /\ users[h] # None
            /\ users' = [users EXCEPT ![h] = None]
            /\ owner' = [d \in Device |-> IF owner[d] = h THEN None ELSE owner[d]]

Next == \E h \in Handle :
          \/ \E d \in Device : Open(h, d) \/ Redirect(h, d)
          \/ Own(h) \/ Disown(h) \/ Close(h)

Spec == Init /\ [][Next]_vars
=============================================================================
