------------------------------- MODULE MCProxy -------------------------------
(***************************************************************************)
(* Instances of Proxy for TLC.                                             *)
(***************************************************************************)
EXTENDS Proxy, FiniteSets

CONSTANTS r1, r2, b1, b2

\* All candidates of one request come from one route, so they share its
\* expose_backend_errors and stream_capture.
RoutesTo(backends, exposed, captured) ==
  [i \in DOMAIN backends |-> [backend_id |-> backends[i],
                              expose_backend_errors |-> exposed,
                              stream_capture |-> captured]]

\* One request, every configuration: a single candidate, two backends, and a
\* backend that comes up twice because the route binds two of its models.
MCCandidates ==
  {RoutesTo(backends, exposed, captured) :
     backends \in {<<b1>>, <<b1, b2>>, <<b1, b2, b1>>},
     exposed \in BOOLEAN, captured \in BOOLEAN}

MCConfigs == Config

\* Two requests that meet a shutdown: one candidate order, no captures.
PairCandidates == {RoutesTo(<<b1, b2>>, TRUE, FALSE)}

PairConfigs == {[inspector |-> TRUE, debug_capture |-> "off", fallback_attempts |-> 1]}
=============================================================================
