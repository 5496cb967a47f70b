------------------------------ MODULE Enrolment ------------------------------
(***************************************************************************)
(* What a class's invite link promises its students, with no sessions, locks *)
(* or patches in sight: joining is one atomic step that enrols the student   *)
(* once and hands out an offered seat if the class has one; nothing else     *)
(* ever seats a student, and nobody is seated over somebody else.            *)
(***************************************************************************)
CONSTANTS Users, Classes, Seats, NoUser, NoClass

VARIABLES
    member,   \* who is enrolled in which class
    seat      \* who sits where, and which seats are on offer

Seat  == [class: Classes \cup {NoClass}, user: Users \cup {NoUser}, offered: BOOLEAN]
Taken(c, u) == [class |-> c, user |-> u, offered |-> FALSE]
NoSeat == [class |-> NoClass, user |-> NoUser, offered |-> FALSE]
Empty == {s \in Seat : s.user = NoUser}

Init == /\ member = {}
        /\ seat \in [Seats -> Seat]

Offered(c) == {i \in Seats : seat[i].class = c /\ seat[i].offered}

Join(c, u) ==
    /\ <<c, u>> \notin member
    /\ member' = member \cup {<<c, u>>}
    /\ \/ \E i \in Offered(c) :
             /\ seat[i].user = NoUser
             /\ seat' = [seat EXCEPT ![i] = Taken(c, u)]
       \/ Offered(c) = {} /\ UNCHANGED seat

(* Staff add, withdraw, free and offer seats one at a time.                  *)
Rearrange(i) ==
    /\ \E s \in Empty : seat' = [seat EXCEPT ![i] = s]
    /\ UNCHANGED member

Close(c) ==
    /\ member' = {m \in member : m[1] # c}
    /\ \E gone \in SUBSET Seats :
          seat' = [i \in Seats |-> IF i \in gone THEN NoSeat ELSE seat[i]]

Next == \/ \E c \in Classes, u \in Users : Join(c, u)
        \/ \E i \in Seats : Rearrange(i)
        \/ \E c \in Classes : Close(c)

vars == <<member, seat>>
Spec == Init /\ [][Next]_vars
=============================================================================
