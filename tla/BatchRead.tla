------------------------------ MODULE BatchRead ------------------------------
(***************************************************************************)
(* read_messages: one $batch of reads, posted with send_with_retry inside  *)
(* retry_throttled_subrequests.  Graph may throttle the whole $batch or    *)
(* some of the sub-requests in it; both loops wait for Retry-After and try *)
(* again, the outer one with the throttled sub-requests alone.             *)
(*                                                                         *)
(* One call is modelled, from the ids it is given to its result or its     *)
(* exception.  Calls share no state.  Time is a count of seconds that only *)
(* the sleeps advance.                                                     *)
(***************************************************************************)
EXTENDS Integers, FiniteSets, FiniteSetsExt

CONSTANTS
  Request,     \* the sub-requests, one per position of message_ids
  MaxRetries,  \* max_retries of both loops
  Backoff,     \* _DEFAULT_BACKOFF, doubled with every attempt
  RetryAfter,  \* the Retry-After values Graph sends
  MaxRefusals  \* bound: answers to the whole $batch that are not 200

NoHeader == -1

ASSUME BatchAssumption ==
  /\ IsFiniteSet(Request)
  /\ {MaxRetries, Backoff, MaxRefusals} \subseteq Nat
  /\ \A k \in 0..MaxRetries : Backoff * 2^k \in Nat  \* as it is for every k
  /\ RetryAfter \subseteq Nat

VARIABLES
  pc,         \* "post": a $batch is on its way, "returned" or "raised"
  asked,      \* the sub-requests of the call
  pending,    \* the ones in the $batch
  merged,     \* merged[i]: the status kept for i
  attempt,    \* of retry_throttled_subrequests
  tries,      \* attempt of send_with_retry
  now,        \* time in seconds
  answered,   \* history: answered[i], Graph's last answer on i
  sent,       \* history: the $batches with i that were answered with 200
  notBefore,  \* history: when Graph allowed i to be sent again
  refusals    \* history: answers to the whole $batch that were not 200

batchVars == <<pc, asked, pending, merged, attempt, tries, now, answered, sent, notBefore, refusals>>

(***************************************************************************)
(* What Graph says of a sub-request: a 2xx, a final error, a 429 or 503    *)
(* with or without Retry-After, or nothing at all.                         *)
(***************************************************************************)
Status == {"ok", "error", "throttled", "absent"}
Answer == [status : Status \ {"throttled"}, after : {NoHeader}]
            \cup [status : {"throttled"}, after : RetryAfter \cup {NoHeader}]

Absent == [status |-> "absent", after |-> NoHeader]

\* parse_retry_after, with the loops' default for attempt k.
Wait(after, k) == IF after = NoHeader THEN Backoff * 2^k ELSE after

-----------------------------------------------------------------------------
BatchInit ==
  /\ asked \in (SUBSET Request) \ {{}}
  /\ pc = "post"
  /\ pending = asked
  /\ merged = [i \in Request |-> "absent"]
  /\ attempt = 0 /\ tries = 0
  /\ now = 0
  /\ answered = [i \in Request |-> Absent]
  /\ sent = [i \in Request |-> 0]
  /\ notBefore = [i \in Request |-> 0]
  /\ refusals = 0

\* send_with_retry with a throttled response: sleep and send again, or hand it
\* to raise_for_status.
SendAgain(after) ==
  IF tries < MaxRetries
  THEN tries' = tries + 1 /\ now' = now + Wait(after, tries) /\ UNCHANGED pc
  ELSE pc' = "raised" /\ UNCHANGED <<tries, now>>

\* 429 or 503 for the whole $batch.
EnvelopeThrottled ==
  /\ pc = "post"
  /\ refusals < MaxRefusals /\ refusals' = refusals + 1
  /\ \E after \in RetryAfter \cup {NoHeader} : SendAgain(after)
  /\ UNCHANGED <<asked, pending, merged, attempt, answered, sent, notBefore>>

\* Another status, a transport error or a timeout.
EnvelopeFails ==
  /\ pc = "post"
  /\ refusals < MaxRefusals /\ refusals' = refusals + 1
  /\ pc' = "raised"
  /\ UNCHANGED <<asked, pending, merged, attempt, tries, now, answered, sent, notBefore>>

RetryNextOneShort(ans) == {i \in pending : ans[i].status = "throttled" /\ attempt + 1 < MaxRetries}

\* The sub-requests of the next $batch.
RetryNext(ans) == {i \in pending : ans[i].status = "throttled" /\ attempt < MaxRetries}

KeepDropsThrottled(ans) ==
  [i \in Request |-> IF i \in pending /\ ans[i].status \in {"ok", "error"}
                     THEN ans[i].status ELSE merged[i]]

\* merged[rid] = sub, for the ones that were answered and are not sent again.
Keep(ans) ==
  [i \in Request |-> IF i \in pending \ RetryNext(ans) THEN ans[i].status ELSE merged[i]]

MaxWaitOfAny(ans, ids) == CHOOSE w \in {Wait(ans[i].after, attempt) : i \in ids} : TRUE

\* max_wait, which begins at 0.
MaxWait(ans, ids) == Max({0} \cup {Wait(ans[i].after, attempt) : i \in ids})

\* 200 for the $batch, with an answer on each sub-request or none.
EnvelopeAnswered ==
  /\ pc = "post"
  /\ \E ans \in [pending -> Answer] :
       /\ merged' = Keep(ans)
       /\ IF RetryNext(ans) = {}
          THEN pc' = "returned" /\ UNCHANGED <<pending, attempt, tries, now>>
          ELSE /\ pending' = RetryNext(ans)
               /\ attempt' = attempt + 1
               /\ tries' = 0
               /\ now' = now + MaxWait(ans, RetryNext(ans))
               /\ UNCHANGED pc
       /\ answered' = [i \in Request |-> IF i \in pending THEN ans[i] ELSE answered[i]]
       /\ sent' = [i \in Request |-> IF i \in pending THEN sent[i] + 1 ELSE sent[i]]
       /\ notBefore' = [i \in Request |->
            IF i \in pending /\ ans[i].after # NoHeader THEN now + ans[i].after
                                                        ELSE notBefore[i]]
  /\ UNCHANGED <<asked, refusals>>

BatchNext == EnvelopeThrottled \/ EnvelopeFails \/ EnvelopeAnswered

BatchSpec == BatchInit /\ [][BatchNext]_batchVars

\* The two lists of the result; a status of 0 (NoResponse) is a failure.
Messages == {i \in asked : merged[i] = "ok"}
Failures == {i \in asked : merged[i] # "ok"}

-----------------------------------------------------------------------------
\* Types of all variables; neither loop retries more than MaxRetries times.
BatchTypeOK ==
  /\ pc \in {"post", "returned", "raised"}
  /\ asked \subseteq Request /\ pending \subseteq asked
  /\ merged \in [Request -> Status]
  /\ attempt \in 0..MaxRetries /\ tries \in 0..MaxRetries
  /\ now \in Nat
  /\ answered \in [Request -> Answer]
  /\ sent \in [Request -> 0..(MaxRetries + 1)]
  /\ notBefore \in [Request -> Nat]
  /\ refusals \in 0..MaxRefusals

\* The result reports every id as Graph last answered it, whichever $batch the
\* answer came in, and a 2xx is never asked for again.
ReportsLastAnswer ==
  /\ pc = "returned" => \A i \in asked : merged[i] = answered[i].status
  /\ \A i \in pending : pc = "post" => merged[i] = "absent"

\* "Honoring the largest Retry-After in the throttled set": nothing is sent
\* again before Graph allowed it.
RetryAfterHonoured == pc = "post" => \A i \in pending : notBefore[i] <= now

\* A message is reported as throttled only after max_retries retries of it.
GivesUpLast ==
  pc = "returned" =>
    \A i \in Failures : merged[i] = "throttled" => sent[i] = MaxRetries + 1
=============================================================================
