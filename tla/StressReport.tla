---------------------------- MODULE StressReport ----------------------------
(***************************************************************************)
(* The report of a stress job (features/stress manager.go): the statuses   *)
(* of its benchmarks, the status of the whole, and the bounded history.    *)
(***************************************************************************)
EXTENDS Integers, Sequences, FiniteSets

CONSTANTS Benchmarks,  \* number of benchmarks a job runs
          MaxHistory   \* maxHistoryReports

ASSUME StressReportAssumption ==
    Benchmarks \in Nat \ {0} /\ MaxHistory \in Nat \ {0, 1}

\* What runBenchmark can return, and the statuses before it does.
Outcome == {"healthy", "time_limit_reached", "unhealthy", "cancelled",
            "unavailable", "unsupported"}
Status == Outcome \cup {"pending", "running"}

Results == [1..Benchmarks -> Status]
Report == [job : Nat \ {0}, status : Status, benchmarks : Results, error : BOOLEAN]

Some(b, st) == \E i \in 1..Benchmarks : b[i] = st

\* aggregateReportStatus.
Aggregate(b) ==
    IF \A i \in 1..Benchmarks : b[i] \in {"healthy", "time_limit_reached"}
    THEN "healthy"
    ELSE IF \E i \in 1..Benchmarks : b[i] \in {"unhealthy", "pending", "running"}
    THEN "unhealthy"
    ELSE IF Some(b, "cancelled") THEN "cancelled"
    ELSE IF Some(b, "unavailable") THEN "unavailable"
    ELSE "unsupported"

\* A report that has just been started, and one that has just ended.
Started(j) == [job |-> j, status |-> "running",
               benchmarks |-> [i \in 1..Benchmarks |-> "pending"], error |-> FALSE]
Ended(r) == [r EXCEPT !.status = Aggregate(r.benchmarks)]

\* What appendHistoryFile keeps of the history h beside the report r, in order.
Others(h, r) == {i \in DOMAIN h : h[i].job # r.job}
Nth(S, k) == CHOOSE i \in S : Cardinality({l \in S : l <= i}) = k

\* appendHistoryFile: newest first, one entry per job, bounded.
Archive(h, r) ==
    LET others == Others(h, r)
        n == Cardinality(others) + 1
    IN  [k \in 1..(IF n > MaxHistory THEN MaxHistory ELSE n) |->
            IF k = 1 THEN r ELSE h[Nth(others, k - 1)]]
=============================================================================
