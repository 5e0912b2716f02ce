---------------------------- MODULE MCRateLimits ----------------------------
(***************************************************************************)
(* Instances of RateLimits for TLC: two ticks to the second, windows of    *)
(* one and two seconds.                                                    *)
(***************************************************************************)
EXTENDS RateLimits

CONSTANTS d1, d2

Symmetry == Permutations(Domains)

MCWindows == <<1, 2>>

\* A throttle longer than a second and one mail in two seconds; one mail a second.
MCAccountChoices ==
    {[throttle |-> 3, limits |-> <<0, 1>>], [throttle |-> 0, limits |-> <<1, 0>>]}

\* A throttle and an hourly limit for one domain.
MCDomainChoices == {[throttle |-> 2, perHour |-> 1]}

\* The choices of the instances that look at one limit only.
NoLimits == {[throttle |-> 0, limits |-> <<0, 0>>]}
HourlyOnly == {[throttle |-> 0, perHour |-> 1]}
=============================================================================
