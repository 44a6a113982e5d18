----------------------------- MODULE NotifiedFeed -----------------------------
(***************************************************************************)
(* What the V2 management plane promises of the notifications of one       *)
(* session: events are counted by a cursor, Closed is the last of them,    *)
(* and the notifications are events that were committed, in the order of   *)
(* their cursors.  Some may be left out; a subscriber replays those.       *)
(***************************************************************************)
EXTENDS Naturals

VARIABLES cursor,   \* committed events
          closedAt, \* the cursor of Closed, or 0
          sent,     \* the cursor of the last notification
          on        \* the notifier runs

vars == <<cursor, closedAt, sent, on>>

Init == cursor = 0 /\ closedAt = 0 /\ sent = 0 /\ on = TRUE

Commit ==
    /\ closedAt = 0
    /\ cursor' = cursor + 1 /\ closedAt' \in {0, cursor'}
    /\ UNCHANGED <<sent, on>>

\* Closed ends the notifier.
Send ==
    /\ on
    /\ sent' \in (sent + 1)..cursor
    /\ on' = (sent' # closedAt)
    /\ UNCHANGED <<cursor, closedAt>>

Stop == on /\ on' = FALSE /\ UNCHANGED <<cursor, closedAt, sent>>

Next == Commit \/ Send \/ Stop

Spec == Init /\ [][Next]_vars
=============================================================================
