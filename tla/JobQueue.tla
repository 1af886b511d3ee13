------------------------------ MODULE JobQueue ------------------------------
(***************************************************************************)
(* The ingest queue: an SQS standard queue with a dead-letter queue        *)
(* (infra/terraform/sqs.tf), reached through SqsIngestJobQueue             *)
(* (src/jobs/sqs.py).  The broker is external: its part is modelled from   *)
(* the calls the code makes and from the queue's declared configuration.   *)
(* A message is handed out, hidden for the visibility timeout, shown again *)
(* unless it was deleted, and moved to the dead-letter queue instead of    *)
(* being handed out once more than maxReceiveCount times.                  *)
(***************************************************************************)
EXTENDS Naturals

CONSTANTS
    Job,          \* the messages, one per IngestJobMessage.job_id
    MaxReceive    \* redrive_policy.maxReceiveCount, 3 in sqs.tf

ASSUME QueueAssumption == MaxReceive \in Nat \ {0}

VARIABLES
    status,       \* where each message is
    receives      \* how often it was handed out (ApproximateReceiveCount)

queueVars == <<status, receives>>

Status == {"unsent", "visible", "inflight", "deleted", "dead"}

QueueTypeOK ==
    /\ status \in [Job -> Status]
    /\ receives \in [Job -> 0..MaxReceive]

QueueInit ==
    /\ status = [j \in Job |-> "unsent"]
    /\ receives = [j \in Job |-> 0]

(* A receipt names one delivery; it is current until that delivery's       *)
(* visibility timeout has passed.                                          *)
Current(j, receipt) == status[j] = "inflight" /\ receives[j] = receipt

-----------------------------------------------------------------------------

Enqueue(j) ==
    /\ status[j] = "unsent"
    /\ status' = [status EXCEPT ![j] = "visible"]
    /\ UNCHANGED receives

HandOut_NoLimit(j) ==
    /\ status[j] = "visible"
    /\ status' = [status EXCEPT ![j] = "inflight"]
    /\ receives' = [receives EXCEPT ![j] = @ + 1]

HandOut(j) ==
    /\ status[j] = "visible"
    /\ receives[j] < MaxReceive
    /\ status' = [status EXCEPT ![j] = "inflight"]
    /\ receives' = [receives EXCEPT ![j] = @ + 1]

Redrive(j) ==
    /\ status[j] = "visible"
    /\ receives[j] = MaxReceive
    /\ status' = [status EXCEPT ![j] = "dead"]
    /\ UNCHANGED receives

ShowAgain(j) ==
    /\ status[j] = "inflight"
    /\ status' = [status EXCEPT ![j] = "visible"]
    /\ UNCHANGED receives

(* delete_message: a current receipt removes the message; a stale one is   *)
(* accepted too, and the broker may or may not remove the message.         *)
Delete(j, receipt) ==
    /\ \/ /\ status[j] \in {"visible", "inflight"}
          /\ status' = [status EXCEPT ![j] = "deleted"]
       \/ /\ ~Current(j, receipt)
          /\ UNCHANGED status
    /\ UNCHANGED receives

=============================================================================
