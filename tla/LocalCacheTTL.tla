---------------------------- MODULE LocalCacheTTL ---------------------------
(***************************************************************************)
(* Package client/localcache: the lifetimes its callers ask for, durations *)
(* in nanoseconds, are given to the cache behind it in seconds.  Widths    *)
(* are scaled: a second has Second units, and a duration Bits bits.        *)
(***************************************************************************)
EXTENDS Integers

CONSTANTS
  Second,        \* time.Second
  Bits           \* width of time.Duration, 64 in the code

ASSUME TtlAssumption ==
  /\ Second \in Nat \ {0} /\ Second % 2 = 0
  /\ Bits \in Nat /\ 4 * Second <= 2^Bits

Half == Second \div 2
Duration == -(2^(Bits - 1)) .. 2^(Bits - 1) - 1

VARIABLES
  asked,         \* the lifetime a caller asked for
  ttl            \* the seconds its entry was given

ttlVars == <<asked, ttl>>

TtlInit == asked = 0 /\ ttl = 0

\* An int64 sum that does not fit wraps around.
Wrapped(n) == ((n + 2^(Bits - 1)) % 2^Bits) - 2^(Bits - 1)

\* Go divides towards zero.
Quotient(n) == IF n >= 0 THEN n \div Second ELSE -((-n) \div Second)

\* Mutant: less than a second is rounded like the rest.
DurationToSecPlain(d) == IF d <= 0 THEN 0 ELSE Quotient(Wrapped(d + Half))

\* durationToSec
DurationToSec(d) ==
  IF d <= 0 THEN 0 ELSE IF d < Second THEN 1 ELSE Quotient(Wrapped(d + Half))

\* SetWithExpire; WithExpiration, WithDelay and the loads with a lifetime convert it
\* in the same way.
SetWithExpire(d) == asked' = d /\ ttl' = DurationToSec(d)

TtlNext == \E d \in Duration : SetWithExpire(d)

TtlSpec == TtlInit /\ [][TtlNext]_ttlVars

-----------------------------------------------------------------------------

\* A lifetime is rounded to the nearest second, but never to none: an entry that
\* should live for a while is not given 0, which would mean no lifetime of its own.
\* Only within half a second of the longest duration does the sum overflow, and the
\* lifetime become a negative one (localcache_impl.go:113-122).
TtlRounded ==
  IF asked <= 0 THEN ttl = 0
  ELSE IF asked + Half \in Duration
       THEN ttl >= 1 /\ (asked >= Second => ttl * Second - asked \in -Half + 1 .. Half)
       ELSE ttl < 0
=============================================================================
