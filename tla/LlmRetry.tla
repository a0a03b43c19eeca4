------------------------------ MODULE LlmRetry ------------------------------
(***************************************************************************)
(* RetryOn and its backoff (pkg/llm/retry.go).  A duration is a signed      *)
(* integer of RtWidth bits, as time.Duration is one of 64; the default      *)
(* delays are small numbers in that scale.  The jitter ratio is counted in  *)
(* halves, and the random draw is any duration between the two ends.        *)
(***************************************************************************)
EXTENDS Integers, FiniteSetsExt

CONSTANTS
  RtWidth,      \* bits of a duration
  RtDelays,     \* the values of InitialDelay and MaxDelay
  RtAttempts,   \* the values of MaxAttempts
  RtHalves      \* the values of JitterRatio, in halves

VARIABLES
  rtCfg,      \* the configuration, as given
  rtAt,       \* "begin", "op", "sleep", "returned"
  rtAttempt,  \* attempt
  rtDelay,    \* delay
  rtSlept,    \* the last sleepFor, 0 before the first
  rtDone,     \* ctx is done
  rtOut       \* what RetryOn returned: "none", "ok", "invalid", "transient", "fatal", "ctx"

rtVars == <<rtCfg, rtAt, rtAttempt, rtDelay, rtSlept, rtDone, rtOut>>

MaxDuration == 2 ^ (RtWidth - 1) - 1
Durations == -MaxDuration - 1 .. MaxDuration

\* The value of n in RtWidth bits.
Wrapped(n) == ((n + MaxDuration + 1) % 2 ^ RtWidth) - (MaxDuration + 1)

WithDefaults(cfg) ==
  [attempts |-> IF cfg.attempts = 0 THEN 3 ELSE cfg.attempts,
   initial |-> IF cfg.initial = 0 THEN 1 ELSE cfg.initial,
   max |-> IF cfg.max = 0 THEN 2 ELSE cfg.max,
   halves |-> CASE cfg.halves = 0 -> 1 [] cfg.halves < 0 -> 0 [] cfg.halves > 0 -> cfg.halves]

Valid(cfg) == cfg.halves <= 2 /\ cfg.attempts >= 1

Clamped(delay, cfg) == IF delay > cfg.max THEN cfg.max ELSE delay

held(n, cfg) == Min({IF n < 0 THEN 0 ELSE n, cfg.max})

\* The sleeps a delay can give.  A draw beyond the range of a duration converts to any one.
sleepFors(delay, cfg) ==
  LET jitter == (IF delay < 0 THEN -delay ELSE delay) * cfg.halves
      ends == ((2 * delay - jitter) \div 2) .. ((2 * delay + jitter + 1) \div 2)
      drawn == IF ends \subseteq Durations THEN ends ELSE Durations
  IN {held(n, cfg): n \in (IF cfg.halves = 0 THEN {delay} ELSE drawn)}

doubled(delay, cfg) == Clamped(Wrapped(2 * delay), cfg)

Return(out) == rtAt' = "returned" /\ rtOut' = out

-----------------------------------------------------------------------------

RtInit ==
  /\ rtCfg \in [attempts: RtAttempts, initial: RtDelays, max: RtDelays, halves: RtHalves]
  /\ rtAt = "begin" /\ rtAttempt = 0 /\ rtDelay = 0 /\ rtSlept = 0 /\ rtDone = FALSE /\ rtOut = "none"

RtBegin ==
  /\ rtAt = "begin"
  /\ IF Valid(WithDefaults(rtCfg))
     THEN rtAt' = "op" /\ rtAttempt' = 1 /\ rtDelay' = WithDefaults(rtCfg).initial /\ UNCHANGED rtOut
     ELSE Return("invalid") /\ UNCHANGED <<rtAttempt, rtDelay>>
  /\ UNCHANGED <<rtCfg, rtSlept, rtDone>>

\* A mutated form: one attempt too many.
LastAttemptPassed == rtAttempt > WithDefaults(rtCfg).attempts

LastAttempt == rtAttempt >= WithDefaults(rtCfg).attempts

\* One call of op, and the choice what to do with its error.
RtOp ==
  /\ rtAt = "op"
  /\ \/ Return("ok")
     \/ Return("fatal")
     \/ LastAttempt /\ Return("transient")
     \/ ~LastAttempt /\ rtAt' = "sleep" /\ UNCHANGED rtOut
  /\ UNCHANGED <<rtCfg, rtAttempt, rtDelay, rtSlept, rtDone>>

\* A sleep that takes no time does not look at the context; one that does may find the timer
\* fired as well, and select takes either.
RtSleep ==
  LET cfg == WithDefaults(rtCfg)
      delay == Clamped(rtDelay, cfg)
  IN /\ rtAt = "sleep"
     /\ \E sleepFor \in sleepFors(delay, cfg):
          \/ /\ rtAt' = "op" /\ rtAttempt' = rtAttempt + 1
             /\ rtDelay' = doubled(delay, cfg) /\ rtSlept' = sleepFor
             /\ UNCHANGED <<rtDone, rtOut>>
          \/ /\ sleepFor > 0
             /\ rtDone' = TRUE /\ Return("ctx")
             /\ UNCHANGED <<rtAttempt, rtDelay, rtSlept>>
     /\ UNCHANGED rtCfg

\* The caller cancels while op runs.
RtCancel == rtAt = "op" /\ ~rtDone /\ rtDone' = TRUE /\ UNCHANGED <<rtCfg, rtAt, rtAttempt, rtDelay, rtSlept, rtOut>>

RtNext == RtBegin \/ RtOp \/ RtSleep \/ RtCancel

RtSpec == RtInit /\ [][RtNext]_rtVars

-----------------------------------------------------------------------------
(* Properties *)

\* Before attempt n the delay is InitialDelay doubled n - 1 times and held to MaxDelay, and the
\* sleep stays within 0 and MaxDelay, jitter included.  MaxDelay must be at most half the
\* largest duration and neither delay negative: beyond that the doubling of SleepDelay wraps
\* before it is compared with MaxDelay.
RtBackoffDoubles ==
  LET cfg == WithDefaults(rtCfg)
  IN rtAttempt >= 1 /\ cfg.initial >= 0 /\ cfg.max >= 0 /\ 2 * cfg.max <= MaxDuration =>
       /\ Clamped(rtDelay, cfg) = Min({cfg.initial * 2 ^ (rtAttempt - 1), cfg.max})
       /\ rtAttempt > 1 => rtDelay <= cfg.max
       /\ rtSlept \in 0..cfg.max

\* RetryOn calls op at least once unless the configuration is invalid, never more than
\* MaxAttempts times, and gives a transient error back only when all of them were made.
RtAttemptsSpent ==
  LET cfg == WithDefaults(rtCfg)
  IN /\ rtAttempt <= (IF Valid(cfg) THEN cfg.attempts ELSE 0)
     /\ rtOut = "transient" => rtAttempt = cfg.attempts
     /\ rtOut \in {"ok", "fatal", "ctx"} => rtAttempt >= 1

\* RetryOn makes the attempts it was configured for, at the delays it was configured for.
RtSchedule == RtBackoffDoubles /\ RtAttemptsSpent
=============================================================================
