----------------------------- MODULE EventFeed ------------------------------
(***************************************************************************)
(* What the journal of a bench job promises whoever follows the job        *)
(* (bench/journal.rs, commands/bench/follow.rs): events are added to one   *)
(* log and never change, a follower is handed them one at a time in their  *)
(* order from the place it asked for, and a follower that returns an       *)
(* outcome after a Done event has been handed that event last.             *)
(***************************************************************************)
EXTENDS Naturals, Sequences

CONSTANTS Entry,   \* events
          Final(_) \* whether an event is a Done

VARIABLES log,     \* what has been journaled
          from,    \* the place in the log the follower asked for
          got,     \* what the follower has been handed
          over     \* whether the follower has returned

FeedInit ==
  /\ log = <<>>
  /\ from \in Nat \ {0}
  /\ got = <<>>
  /\ over = FALSE

Publish ==
  /\ \E e \in Entry : log' = Append(log, e)
  /\ UNCHANGED <<from, got, over>>

\* One event further, and never past the log or past a Done.
HandOn ==
  /\ ~over
  /\ from + Len(got) <= Len(log)
  /\ \A i \in 1..Len(got) : ~Final(got[i])
  /\ got' = Append(got, log[from + Len(got)])
  /\ over' \in {FALSE, Final(log[from + Len(got)])}
  /\ UNCHANGED <<log, from>>

\* The follower gives up, is refused, or learns the outcome from the record.
Leave ==
  /\ ~over
  /\ over' = TRUE
  /\ UNCHANGED <<log, from, got>>

FeedNext == Publish \/ HandOn \/ Leave

FeedSpec == FeedInit /\ [][FeedNext]_<<log, from, got, over>>
=============================================================================
