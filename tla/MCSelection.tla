------------------------------ MODULE MCSelection ------------------------------
(* Selection on a small instance: link 0 is the subject, three alternates. *)
EXTENDS Selection

Sound ==
    [link: {1, 2, 3}, gen: {1, 2}, present: {TRUE}, conflicted: {FALSE}, matched: {TRUE},
     freshness: {"Current"}, state: {"Up"}, confidence: {1, 2}, capacity: {1, 2},
     cost: {0, 1}, adjacent: {TRUE}, age: {0, 1}]

Plain(l) ==
    [link |-> l, gen |-> 1, present |-> TRUE, conflicted |-> FALSE, matched |-> TRUE,
     freshness |-> "Current", state |-> "Up", confidence |-> 1, capacity |-> 1,
     cost |-> 0, adjacent |-> TRUE, age |-> 0]

\* One or two things wrong with a candidate.
Flawed(l) ==
    UNION {{[c EXCEPT !.conflicted = TRUE], [c EXCEPT !.present = FALSE],
            [c EXCEPT !.matched = FALSE], [c EXCEPT !.freshness = "Expired"],
            [c EXCEPT !.freshness = "PriorIncarnation"], [c EXCEPT !.confidence = 0],
            [c EXCEPT !.capacity = 0], [c EXCEPT !.adjacent = FALSE]} :
        c \in {[Plain(l) EXCEPT !.state = s] : s \in States}}

Some == Sound \cup UNION {Flawed(l) : l \in {1, 2}} \cup {Plain(0)}
=============================================================================
