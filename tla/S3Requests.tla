----------------------------- MODULE S3Requests -----------------------------
(***************************************************************************)
(* What the commands of the s3 tool (s3-client/src/s3.c) have in common: a  *)
(* process runs one command; the command makes a request through libs3,     *)
(* whose responseCompleteCallback leaves the status in statusG, and makes   *)
(* the request again while the status says that this may help and retries   *)
(* are left.  libs3 and the server are external.                            *)
(***************************************************************************)
EXTENDS Integers

CONSTANTS
  None,         \* no command, no object, no file
  MaxRetries    \* bound: the largest number given with --retries

ASSUME S3RequestsAssumption == MaxRetries \in Nat

VARIABLES
  cmd,          \* the command that runs, or the last one
  running,      \* does it still run?
  statusG,      \* status of the latest request
  retriesG,     \* retries left to this process
  commands      \* commands so far

requestVars == <<cmd, running, statusG, retriesG, commands>>

Statuses == {"OK", "AbortedByCallback", "ConnectionFailed", "Error"}

\* S3_status_is_retryable
Retryable(status) == status = "ConnectionFailed"

RequestsTypeOK ==
  /\ running \in BOOLEAN
  /\ statusG \in Statuses
  /\ retriesG \in -1..MaxRetries
  /\ commands \in Nat

RequestsInit ==
  /\ cmd = None
  /\ running = FALSE
  /\ statusG = "OK"
  /\ retriesG = 0
  /\ commands = 0

Runs(proc) == running /\ cmd.proc = proc

\* main: a new process, its options and the first request of its command.
Starts(c) ==
  /\ ~running
  /\ running' = TRUE
  /\ cmd' = c
  /\ statusG' = "OK"
  /\ retriesG' \in 0..MaxRetries
  /\ commands' = commands + 1

\* The server answers the request of a command (served), for the first time
\* or again (done).
Answered(c) == [c EXCEPT !.served = TRUE, !.done = TRUE]

\* The request goes on.
Continues(c) ==
  /\ cmd' = c
  /\ UNCHANGED <<running, statusG, retriesG, commands>>

\* Mistake: retries are not counted.
RetriesUncounted(status, c) ==
  /\ Retryable(status) /\ retriesG # 0
  /\ statusG' = status
  /\ cmd' = c
  /\ UNCHANGED <<running, retriesG, commands>>

\* should_retry lets the loop make the request again.
Retries(status, c) ==
  /\ Retryable(status) /\ retriesG # 0
  /\ statusG' = status
  /\ retriesG' = retriesG - 1
  /\ cmd' = c
  /\ UNCHANGED <<running, commands>>

\* The loop is left, and the command ends with the status in statusG.
Ends(status, c) ==
  /\ ~(Retryable(status) /\ retriesG # 0)
  /\ statusG' = status
  /\ retriesG' = IF Retryable(status) THEN retriesG - 1 ELSE retriesG
  /\ running' = FALSE
  /\ cmd' = c
  /\ UNCHANGED commands
=============================================================================
