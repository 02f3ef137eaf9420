---------------------------- MODULE MCLeadership ----------------------------
(***************************************************************************)
(* Two replicas.  Election options that leave room for the retry period,   *)
(* as the defaults do, options that Validate accepts but that do not, and  *)
(* options it refuses; runs about the digest and runs about the trail.     *)
(***************************************************************************)
EXTENDS Leadership, TLC

Options(duration, deadline, retry, m, n, k) ==
  [duration |-> duration, deadline |-> deadline, retry |-> retry,
   slots |-> m, appends |-> n, stops |-> k]

MCCandidates == {Options(4, 2, 1, 1, 0, 2), Options(4, 2, 1, 0, 3, 1),
                 Options(4, 3, 2, 1, 0, 1), Options(3, 3, 2, 0, 0, 1)}
=============================================================================
