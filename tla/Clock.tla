-------------------------------- MODULE Clock --------------------------------
(* The wall clock every store and handler reads (time.Now, authkit.Clock).   *)
(* It never goes back; MaxTime stops it so that TLC's instances are finite.  *)
EXTENDS Integers

CONSTANTS TicksPerSecond, \* ticks in one Unix second; a tick is the shortest
                          \* interval two readings of the clock can differ by
          MaxTime         \* bound: the clock stops here

ASSUME ClockAssumption == TicksPerSecond \in Nat \ {0} /\ MaxTime \in Nat

VARIABLE now

Advance == now < MaxTime /\ now' = now + 1

\* Time.Unix(): whole seconds, the rest dropped.
Unix(t) == t \div TicksPerSecond

\* time.Unix(expiresUnix, 0).Before(now): strict, so a token is still good at
\* the instant it expires.
Before(expiresUnix) == expiresUnix * TicksPerSecond < now
=============================================================================
