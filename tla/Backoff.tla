------------------------------- MODULE Backoff -------------------------------
(***************************************************************************)
(* The delay before a reconnection attempt, as tcp__reconn                 *)
(* (src/tr/uv/tr_uv_tcp_aux.c) computes it from the configuration of the   *)
(* client.  Delays are whole seconds, as in the code.                      *)
(***************************************************************************)
EXTENDS Integers

CONSTANTS
  ReconnDelay,        \* config->reconn_delay
  ReconnDelayMax,     \* config->reconn_delay_max
  ReconnExpBackoff    \* config->reconn_exp_backoff

ASSUME BackoffAssumption ==
  /\ ReconnDelay \in Nat
  /\ ReconnDelayMax \in Nat
  /\ ReconnExpBackoff \in BOOLEAN

Factor ==
  IF ReconnDelay = 0 \/ ReconnDelayMax < ReconnDelay
    THEN 1
    ELSE ReconnDelayMax \div ReconnDelay

\* The number of bits of Factor: the loop that shifts it down to zero.
FactorBits == CHOOSE i \in 1..31 : 2^(i-1) <= Factor /\ Factor < 2^i

max_reconn_incr == (IF ReconnExpBackoff THEN FactorBits ELSE Factor) + 1

\* The delay of attempt n while it still grows
Growing(n) ==
  IF ReconnExpBackoff THEN ReconnDelay * 2^(n-1) ELSE ReconnDelay * n

\* Faulty: the attempts are counted modulo the limit
BaseDelay_wraps(n) ==
  IF n % max_reconn_incr = 0 THEN ReconnDelayMax
                             ELSE Growing(n % max_reconn_incr)

\* The delay of the n-th consecutive attempt before it is randomised
BaseDelay(n) == IF n >= max_reconn_incr THEN ReconnDelayMax ELSE Growing(n)

\* Faulty: the whole of the delay is added
Delays_whole(n) == {r + BaseDelay(n) : r \in 0..(BaseDelay(n) - 1)}

\* (rand() % timeout) + timeout / 2, for a positive timeout
Delays(n) ==
  {r + BaseDelay(n) \div 2 : r \in 0..(BaseDelay(n) - 1)}
=============================================================================
