----------------------------- MODULE JobDelivery -----------------------------
(***************************************************************************)
(* What the indexing queue promises for one job, without streams, consumer *)
(* groups or processes: a job is waiting or in work at most once at any    *)
(* moment, it is tried at most MaxAttempts times, it is buried only after  *)
(* its last try, and once it is done, dead or lost nobody touches it again.*)
(* JobQueue implements this module; IndexPipeline builds on it.            *)
(***************************************************************************)
EXTENDS Naturals

CONSTANTS Jobs,         \* index jobs, one per enqueue call of the API or the cron
          MaxAttempts   \* DEFAULT_RETRY_POLICY.maxAttempts

VARIABLES phase,        \* phase[j]: where job j is
          tries         \* tries[j]: copies of j put on the stream so far

deliveryVars == <<phase, tries>>

Phases == {"new", "queued", "running", "done", "dead", "lost"}

DeliveryInit ==
    /\ phase = [j \in Jobs |-> "new"]
    /\ tries = [j \in Jobs |-> 0]

Move(j, from, to) ==
    /\ phase[j] = from
    /\ phase' = [phase EXCEPT ![j] = to]

\* The API or the cron puts the first copy on the stream.
Submit(j) ==
    /\ Move(j, "new", "queued")
    /\ tries' = [tries EXCEPT ![j] = 1]

\* One worker receives the copy that waits.
Take(j) == Move(j, "queued", "running") /\ UNCHANGED tries

\* The job returned normally.
Finish(j) == Move(j, "running", "done") /\ UNCHANGED tries

\* The job threw and a further copy is put on the stream.
Retry(j) ==
    /\ tries[j] < MaxAttempts
    /\ Move(j, "running", "queued")
    /\ tries' = [tries EXCEPT ![j] = @ + 1]

\* The job threw on its last try and goes to the dead-letter stream.
Bury(j) ==
    /\ tries[j] = MaxAttempts
    /\ Move(j, "running", "dead")
    /\ UNCHANGED tries

\* The worker died with the job in hand: no read ever returns it again.
Lose(j) == Move(j, "running", "lost") /\ UNCHANGED tries

DeliveryNext ==
    \E j \in Jobs : Submit(j) \/ Take(j) \/ Finish(j) \/ Retry(j) \/ Bury(j) \/ Lose(j)

DeliverySpec == DeliveryInit /\ [][DeliveryNext]_deliveryVars
==============================================================================
