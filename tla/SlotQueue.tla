------------------------------ MODULE SlotQueue ------------------------------
(***************************************************************************)
(* What a set of slots with a queue promises: never more than Size inside, *)
(* and whoever waits is let in in the order of arrival, unless he leaves   *)
(* the queue.                                                              *)
(***************************************************************************)
EXTENDS Integers, Sequences, FiniteSets

CONSTANTS Clients, Size

VARIABLES waiting, inside

slotQueueVars == <<waiting, inside>>

\* s without its i-th element.
Without(s, i) == [k \in 1..(Len(s) - 1) |-> IF k < i THEN s[k] ELSE s[k + 1]]

Waits(c) == \E i \in DOMAIN waiting : waiting[i] = c

SlotQueueInit == waiting = <<>> /\ inside = {}

Arrive(c) ==
    /\ ~Waits(c) /\ c \notin inside
    /\ waiting' = Append(waiting, c) /\ UNCHANGED inside

LetIn(c) ==
    /\ waiting # <<>> /\ Head(waiting) = c /\ Cardinality(inside) < Size
    /\ waiting' = Tail(waiting) /\ inside' = inside \cup {c}

GiveUpWaiting(c) ==
    /\ \E i \in DOMAIN waiting : waiting[i] = c /\ waiting' = Without(waiting, i)
    /\ UNCHANGED inside

GoOut(c) ==
    /\ c \in inside
    /\ inside' = inside \ {c} /\ UNCHANGED waiting

SlotQueueNext == \E c \in Clients : Arrive(c) \/ LetIn(c) \/ GiveUpWaiting(c) \/ GoOut(c)

SlotQueueSpec == SlotQueueInit /\ [][SlotQueueNext]_slotQueueVars
=============================================================================
