---------------------------- MODULE MCHttpRequest ----------------------------
(* Model checking of HttpRequest: statuses of every class and Retry-After  *)
(* values around the limit the client honours.                             *)
EXTENDS HttpRequest

MCStatuses == {200, 204, 302, 404, 408, 409, 429, 501, 503}
MCRetryAfters == {NoHint, 0, 1000, 60000, 60001}

(* The table of delays is the capped doubling of delay_for_attempt. *)
ASSUME DelayTable ==
  \A a \in 0..20 : Delay(a) = Least(500 * 2 ^ Least(a, 31), 60000)
=============================================================================
