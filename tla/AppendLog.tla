------------------------------ MODULE AppendLog ------------------------------
(***************************************************************************)
(* What lib/internal/imut_log promises its callers: entries reach the log  *)
(* in the order they were posted, each at most once and with none skipped, *)
(* at some time after the post() that never waits for them.  An entry is   *)
(* named by its position among all posts.                                  *)
(***************************************************************************)
EXTENDS Integers, Sequences

VARIABLES posted,   \* how many entries were posted
          log       \* the entries written so far

vars == <<posted, log>>

Init == posted = 0 /\ log = <<>>

Post == posted' = posted + 1 /\ UNCHANGED log

(* The log grows to the first n posted entries. *)
Persist(n) == /\ n > Len(log)
              /\ n <= posted
              /\ log' = [i \in 1 .. n |-> i]
              /\ UNCHANGED posted

Next == Post \/ \E n \in 1 .. posted : Persist(n)

Spec == Init /\ [][Next]_vars
=============================================================================
