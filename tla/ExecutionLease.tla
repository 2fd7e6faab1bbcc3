--------------------------- MODULE ExecutionLease ---------------------------
(***************************************************************************)
(* What the ExecutionGateway promises of one execution lease, over what    *)
(* its clients and the sink can observe: whether the lease is still        *)
(* served, which primitive is in flight, what the sink was handed, and the *)
(* result each primitive got.  No caller, lock, queue, clock, worker or    *)
(* stop is mentioned: whoever races whom, this is all that can happen.     *)
(*                                                                         *)
(* The lease is served strictly in order, one primitive at a time, and the *)
(* next one is taken only when everything handed over was EXECUTED.  Any   *)
(* other result ends the service, for good.                                *)
(***************************************************************************)
EXTENDS Integers, Sequences

CONSTANTS
  Primitives,      \* the movement primitives clients may submit
  SequenceOf,      \* [Primitives -> Nat]: the sequence number of each
  Honoured,        \* those that fit the lease
  FirstSequence,   \* lease.first_sequence
  MaxPrimitives,   \* lease.max_primitives
  Refusals,        \* the statuses of a result that is not EXECUTED
  NoOne,           \* no primitive
  Pending          \* no result yet

VARIABLES
  open,     \* the lease is served
  flight,   \* the primitive in flight
  cleared,  \* it passed the last gate and is about to enter the sink
  handed,   \* history: the primitives handed to the sink, in order
  answer    \* the status of the result each primitive got

leaseVars == <<open, flight, cleared, handed, answer>>

Handed == {handed[i] : i \in 1..Len(handed)}

LeaseInit ==
  /\ open = TRUE /\ flight = NoOne /\ cleared = FALSE /\ handed = <<>>
  /\ answer = [p \in Primitives |-> Pending]

\* The next primitive of the lease goes into flight.
Take(p) ==
  /\ open /\ flight = NoOne
  /\ p \in Honoured /\ SequenceOf[p] = FirstSequence + Len(handed)
  /\ Len(handed) < MaxPrimitives
  /\ answer[p] = Pending /\ \A q \in Handed : answer[q] = "EXECUTED"
  /\ flight' = p
  /\ UNCHANGED <<open, cleared, handed, answer>>

\* The last gate before the sink: only while the lease is served.
Clear ==
  /\ open /\ flight # NoOne /\ flight \notin Handed /\ ~cleared
  /\ cleared' = TRUE
  /\ UNCHANGED <<open, flight, handed, answer>>

\* A cleared primitive is handed over even if the service ended meanwhile.
HandOver ==
  /\ cleared /\ cleared' = FALSE
  /\ handed' = Append(handed, flight)
  /\ UNCHANGED <<open, flight, answer>>

\* The flight ends; one that waits at the sink's door does not.
Land ==
  /\ flight # NoOne /\ ~cleared
  /\ flight' = NoOne
  /\ UNCHANGED <<open, cleared, handed, answer>>

\* EXECUTED: the sink had it, nothing is in flight and the lease is served.
Succeed(p) ==
  /\ open /\ flight = NoOne /\ p \in Handed /\ answer[p] = Pending
  /\ answer' = [answer EXCEPT ![p] = "EXECUTED"]
  /\ UNCHANGED <<open, flight, cleared, handed>>

\* Any other result ends the service, at the latest with the result.
Refuse(p, status) ==
  /\ answer[p] = Pending
  /\ answer' = [answer EXCEPT ![p] = status]
  /\ open' = FALSE
  /\ UNCHANGED <<flight, cleared, handed>>

\* A stop, a fault or a failed release ends the service at any time.
EndService ==
  /\ open' = FALSE
  /\ UNCHANGED <<flight, cleared, handed, answer>>

LeaseNext ==
  \/ \E p \in Primitives : Take(p) \/ Succeed(p)
  \/ \E p \in Primitives, status \in Refusals : Refuse(p, status)
  \/ Clear \/ HandOver \/ Land \/ EndService

LeaseSpec == LeaseInit /\ [][LeaseNext]_leaseVars

-----------------------------------------------------------------------------
\* What it comes to: a primitive whose result is not EXECUTED, or is still
\* awaited, is the last one the sink ever gets under this lease.
OnlyTheLastFails == \A i \in 1..Len(handed) - 1 : answer[handed[i]] = "EXECUTED"
=============================================================================
