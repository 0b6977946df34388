----------------------------- MODULE StepReplies -----------------------------
(***************************************************************************)
(* What the next step runner promises the assisted service about the       *)
(* replies to the instructions (steps) it was handed, without saying how:  *)
(* no goroutines, no cache, no retries.                                    *)
(*                                                                         *)
(*  - a step is answered with one reply, and that reply never changes      *)
(*    afterwards (a repeated delivery repeats the same reply);             *)
(*  - or it is left unanswered on purpose, which is allowed only when its  *)
(*    command succeeded and the service already took a successful reply of *)
(*    the same type with the same output;                                  *)
(*  - or it is never answered: the call failed, or the process ended.      *)
(***************************************************************************)

CONSTANTS
  Steps,     \* the instructions the service may hand out
  Replies,   \* what a reply may say: [type, output, code]
  None       \* no reply

VARIABLES
  taken,       \* taken[s]: the reply to s that reached the service, or None
  suppressed   \* the steps whose reply was left out as already known

vars == <<taken, suppressed>>

Init ==
  /\ taken = [s \in Steps |-> None]
  /\ suppressed = {}

\* The service takes a reply to step s.
Take(s, r) ==
  /\ taken[s] = None
  /\ s \notin suppressed
  /\ taken' = [taken EXCEPT ![s] = r]
  /\ UNCHANGED suppressed

\* The reply r to step s is left out: the service has one that says the same.
Suppress(s, r) ==
  /\ taken[s] = None
  /\ s \notin suppressed
  /\ r.code = "ok"
  /\ \E other \in Steps : taken[other] = r
  /\ suppressed' = suppressed \cup {s}
  /\ UNCHANGED taken

Next == \E s \in Steps, r \in Replies : Take(s, r) \/ Suppress(s, r)

Spec == Init /\ [][Next]_vars
=============================================================================
