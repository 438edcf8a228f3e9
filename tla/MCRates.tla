------------------------------- MODULE MCRates -------------------------------
EXTENDS Rates, TLC

CONSTANTS p1, p2

MCPids == {p1, p2}

\* State-exploration limits: the clock, the counters and the logs grow
\* without end in the code.
MaxClock == 2
MaxIo == 1
MaxRecords == 2
MaxGen == 2

RateBound ==
    /\ clock <= MaxClock
    /\ \A p \in Pids : counter[p] <= MaxIo /\ gen[p] <= MaxGen
    /\ netCounter <= MaxIo
    /\ Len(disk) <= MaxRecords
    /\ Len(network) <= MaxRecords

PidSymmetry == Permutations(MCPids)

=============================================================================
