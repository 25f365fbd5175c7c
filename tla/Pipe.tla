-------------------------------- MODULE Pipe --------------------------------
(***************************************************************************)
(* What one direction of a proxied connection promises its two ends: a     *)
(* lossless first-in first-out pipe.  Bytes are accepted at one end, in    *)
(* some order recorded in log, and the other end is given a growing prefix *)
(* of that log.  Bytes that were accepted but not yet handed over may be   *)
(* taken back (the proxy answered them itself), bytes handed over may not. *)
(* Once the pipe is closed nothing moves.                                  *)
(***************************************************************************)
EXTENDS Naturals, Sequences, SequencesExt

VARIABLES
  log,    \* everything accepted so far, in order
  got,    \* what the far end has been given
  open    \* the pipe is open

pipeVars == <<log, got, open>>

PipeInit == log = <<>> /\ got = <<>> /\ open = TRUE

Accept == IsPrefix(log, log')
TakeBack == IsPrefix(log', log)

\* One step accepts or takes back, hands over, and may close the pipe.
Transfer ==
  /\ open
  /\ open' \in BOOLEAN
  /\ Accept \/ TakeBack
  /\ IsPrefix(got, got')
  /\ IsPrefix(got', log')

PipeSpec == PipeInit /\ [][Transfer]_pipeVars
=============================================================================
