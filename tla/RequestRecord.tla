---------------------------- MODULE RequestRecord ----------------------------
(***************************************************************************)
(* What a proxied request promises the inspector about its own record.     *)
(* The record is unpublished until routing succeeds, then in flight, then  *)
(* final.  While it is in flight its list of backend attempts only grows,  *)
(* by at most one attempt at a time.  A final record never changes again.  *)
(* A request refused before routing publishes a final "preflight" record   *)
(* that lists no attempt.  Dropping the store turns what is still in       *)
(* flight into "interrupted".                                              *)
(***************************************************************************)
EXTENDS Naturals

CONSTANT Requests        \* the requests handled in the life of one process

VARIABLES outcome,       \* outcome[r]: the InspectorOutcome of r's record
          listed         \* listed[r]: how many backend attempts it lists

vars == <<outcome, listed>>

\* How an upstream attempt, and with it the request, can end.
AttemptOutcomes == {"completed", "upstream_timeout", "upstream_request_failed",
                    "upstream_non_success", "upstream_body_read_failed",
                    "upstream_stream_failed", "stream_incomplete"}

FinalOutcomes == AttemptOutcomes \cup {"preflight", "interrupted"}

TypeOK ==
  /\ outcome \in [Requests -> FinalOutcomes \cup {"unpublished", "in_flight"}]
  /\ listed \in [Requests -> Nat]

Init ==
  /\ outcome = [r \in Requests |-> "unpublished"]
  /\ listed = [r \in Requests |-> 0]

\* handle_preflight_failure: the only record that is final from the start.
Refuse(r) ==
  /\ outcome[r] = "unpublished"
  /\ outcome' = [outcome EXCEPT ![r] = "preflight"]
  /\ UNCHANGED listed

Publish(r) ==
  /\ outcome[r] = "unpublished"
  /\ outcome' = [outcome EXCEPT ![r] = "in_flight"]
  /\ UNCHANGED listed

\* A new attempt shows up in the record while the request is in flight.
List(r) ==
  /\ outcome[r] = "in_flight"
  /\ listed' = [listed EXCEPT ![r] = @ + 1]
  /\ UNCHANGED outcome

\* The final record names at least one attempt; the last one may be new.
Finalize(r) ==
  /\ outcome[r] = "in_flight"
  /\ \E o \in AttemptOutcomes : outcome' = [outcome EXCEPT ![r] = o]
  /\ \/ listed[r] > 0 /\ UNCHANGED listed
     \/ listed' = [listed EXCEPT ![r] = @ + 1]

InterruptAll ==
  /\ outcome' = [r \in Requests |->
                   IF outcome[r] = "in_flight" THEN "interrupted" ELSE outcome[r]]
  /\ UNCHANGED listed

Next ==
  \/ \E r \in Requests : Refuse(r) \/ Publish(r) \/ List(r) \/ Finalize(r)
  \/ InterruptAll

Spec == Init /\ [][Next]_vars
=============================================================================
