-------------------------- MODULE CompressionQueue --------------------------
(***************************************************************************)
(* What the compression worker promises to the thread that rotates logs,   *)
(* with no word about threads, mutexes or linked lists: the files handed   *)
(* over are numbered 1, 2, 3, ... in the order of their hand-over, they    *)
(* are compressed one at a time in that order, each exactly once, and the  *)
(* worker stops only after the last of them.                               *)
(***************************************************************************)
EXTENDS Naturals

VARIABLES
  submitted,   \* how many jobs have been handed over
  current,     \* the job being compressed, 0 when there is none
  finished,    \* how many jobs are done with
  closed,      \* compression_worker_shutdown has been called
  stopped      \* compression_worker_shutdown has returned from its join

absVars == <<submitted, current, finished, closed, stopped>>

AInit ==
  /\ submitted = 0
  /\ current = 0
  /\ finished = 0
  /\ closed = FALSE
  /\ stopped = FALSE

(* compression_enqueue_file: one more job at the end of the line.          *)
Submit ==
  /\ ~closed
  /\ submitted' = submitted + 1
  /\ UNCHANGED <<current, finished, closed, stopped>>

(* The oldest job that is not done becomes the current one.                *)
Take ==
  /\ current = 0
  /\ finished < submitted
  /\ current' = finished + 1
  /\ UNCHANGED <<submitted, finished, closed, stopped>>

Finish ==
  /\ current # 0
  /\ finished' = current
  /\ current' = 0
  /\ UNCHANGED <<submitted, closed, stopped>>

Close ==
  /\ ~closed
  /\ closed' = TRUE
  /\ UNCHANGED <<submitted, current, finished, stopped>>

Stop ==
  /\ closed
  /\ ~stopped
  /\ current = 0
  /\ finished = submitted
  /\ stopped' = TRUE
  /\ UNCHANGED <<submitted, current, finished, closed>>

ANext == Submit \/ Take \/ Finish \/ Close \/ Stop

ASpec == AInit /\ [][ANext]_absVars
=============================================================================
