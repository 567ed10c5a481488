------------------------------- MODULE UserLines -------------------------------
(***************************************************************************)
(* What the message loop promises each user: a line of its own, in which   *)
(* messages stand in the order of their arrival, and which is served one   *)
(* batch at a time, everything that stands in it at once.  A user who is   *)
(* served keeps nobody else waiting.  A line may be dropped as a whole (a  *)
(* repetition, a new login), and the end of the process drops what is      *)
(* being served.                                                           *)
(***************************************************************************)
EXTENDS Naturals, Sequences

CONSTANTS Users, Messages    \* a message has an id, a number, and a user

VARIABLES line,      \* per user, the messages that wait
          served,    \* per user, the batch that is being answered, <<>> for none
          done,      \* per user, the messages answered
          open       \* the process runs

vars == <<line, served, done, open>>

Nobody == [u \in Users |-> <<>>]

Init == line = Nobody /\ served = Nobody /\ done = Nobody /\ open = TRUE

\* A message comes after all of its user's that are there.
Arrive(m) ==
    /\ open
    /\ \A s \in {line[m.user], served[m.user], done[m.user]} :
           \A i \in DOMAIN s : s[i].id < m.id
    /\ line' = [line EXCEPT ![m.user] = Append(@, m)]
    /\ UNCHANGED <<served, done, open>>

Serve(u) ==
    /\ open /\ served[u] = <<>> /\ line[u] # <<>>
    /\ served' = [served EXCEPT ![u] = line[u]] /\ line' = [line EXCEPT ![u] = <<>>]
    /\ UNCHANGED <<done, open>>

Finish(u) ==
    /\ open /\ served[u] # <<>>
    /\ done' = [done EXCEPT ![u] = @ \o served[u]] /\ served' = [served EXCEPT ![u] = <<>>]
    /\ UNCHANGED <<line, open>>

Drop(dropped) ==
    /\ open
    /\ line' = [u \in Users |-> IF u \in dropped THEN <<>> ELSE line[u]]
    /\ UNCHANGED <<served, done, open>>

Close ==
    /\ open /\ open' = FALSE /\ served' = Nobody
    /\ UNCHANGED <<line, done>>

Next ==
    \/ \E m \in Messages : Arrive(m)
    \/ \E u \in Users : Serve(u) \/ Finish(u) \/ Drop({u})
    \/ Drop(Users) \/ Close

Spec == Init /\ [][Next]_vars
=============================================================================
