----------------------------- MODULE AlertStore -----------------------------
(***************************************************************************)
(* What the alert log promises to the rest of the program: every alert is  *)
(* filed under its subject, unless a statement failed or the program was   *)
(* stopped while it was being logged, or the administrator has cleared the *)
(* subject since the program last refreshed its picture of the log.        *)
(***************************************************************************)
EXTENDS Naturals, Sequences

CONSTANT Subject    \* what an alert is about, as far as the log tells them apart

VARIABLES
  subjects,  \* subjects[n]: the subject of the n-th alert
  pending,   \* the last alert is still being logged
  excused,   \* something went wrong while the last alert was logged
  stale,     \* subjects cleared since the last refresh
  filed,     \* the alerts found under their subject
  crashes    \* how often the program was stopped

vars == <<subjects, pending, excused, stale, filed, crashes>>

Last == Len(subjects)

Init ==
  /\ subjects = <<>> /\ pending = FALSE /\ excused = FALSE
  /\ stale = {} /\ filed = {} /\ crashes = 0

Log(s) ==
  /\ ~pending
  /\ subjects' = Append(subjects, s)
  /\ pending' = TRUE /\ excused' = FALSE
  /\ UNCHANGED <<stale, filed, crashes>>

File ==
  /\ pending
  /\ filed' = filed \cup {Last}
  /\ UNCHANGED <<subjects, pending, excused, stale, crashes>>

\* A statement fails; the program may give up.
Fail ==
  /\ pending
  /\ excused' = TRUE /\ pending' \in BOOLEAN
  /\ UNCHANGED <<subjects, stale, filed, crashes>>

Return ==
  /\ pending
  /\ Last \in filed \/ excused \/ subjects[Last] \in stale
  /\ pending' = FALSE
  /\ UNCHANGED <<subjects, excused, stale, filed, crashes>>

\* The administrator removes alerts of the subject s.
Clear(s) ==
  /\ \E gone \in SUBSET {n \in filed : subjects[n] = s} : filed' = filed \ gone
  /\ stale' = stale \cup {s}
  /\ UNCHANGED <<subjects, pending, excused, crashes>>

Refresh ==
  /\ ~pending
  /\ stale' = {}
  /\ UNCHANGED <<subjects, pending, excused, filed, crashes>>

Crash ==
  /\ crashes' = crashes + 1
  /\ pending' = FALSE /\ stale' = {}
  /\ UNCHANGED <<subjects, excused, filed>>

Next ==
  \/ \E s \in Subject : Log(s) \/ Clear(s)
  \/ File \/ Fail \/ Return \/ Refresh \/ Crash

StoreSpec == Init /\ [][Next]_vars
=============================================================================
