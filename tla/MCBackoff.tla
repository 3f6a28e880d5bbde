------------------------------ MODULE MCBackoff ------------------------------
(***************************************************************************)
(* tcp__reconn's delays for every small configuration and a row of failed  *)
(* attempts.                                                               *)
(***************************************************************************)
EXTENDS Integers

CONSTANTS
  MaxDelay,     \* bound on reconn_delay
  MaxDelayMax,  \* bound on reconn_delay_max
  MaxAttempts   \* bound on the attempts in a row

INT_MAX == 2147483647

\* The configuration is in ints.
ASSUME BoundsAssumption ==
  MaxDelay \in Nat /\ MaxDelayMax \in 0..INT_MAX /\ MaxAttempts \in Nat

VARIABLES reconn_delay, reconn_delay_max, reconn_exp_backoff, reconn_times

config == <<reconn_delay, reconn_delay_max, reconn_exp_backoff>>

B == INSTANCE Backoff WITH ReconnDelay <- reconn_delay,
                           ReconnDelayMax <- reconn_delay_max,
                           ReconnExpBackoff <- reconn_exp_backoff

Init ==
  /\ reconn_delay \in 1..MaxDelay
  /\ reconn_delay_max \in 1..MaxDelayMax
  /\ reconn_exp_backoff \in BOOLEAN
  /\ reconn_times = 1

Next ==
  /\ reconn_times' = IF reconn_times = MaxAttempts THEN 1 ELSE reconn_times + 1
  /\ UNCHANGED config

Spec == Init /\ [][Next]_<<config, reconn_times>>

Sensible == reconn_delay <= reconn_delay_max

\* Over a row of failed attempts the delay never shrinks: the switch from the
\* growing delay to reconn_delay_max, at max_reconn_incr, comes neither too
\* early nor too late.
DelayGrows ==
  [][reconn_times' > reconn_times /\ Sensible
       => B!BaseDelay(reconn_times)' >= B!BaseDelay(reconn_times)]_reconn_times

\* The delay that tcp__reconn randomises is positive, so that rand() has a
\* range, and no larger than reconn_delay_max; a wait is at least half of
\* reconn_delay, rounded down, and at most one and a half reconn_delay_max.
WaitBounded ==
  Sensible =>
    /\ B!BaseDelay(reconn_times) \in 1..reconn_delay_max
    /\ \A d \in B!Delays(reconn_times) :
         2 * d <= 3 * reconn_delay_max /\ 2 * d + 1 >= reconn_delay
=============================================================================
