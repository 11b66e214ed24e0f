---------------------------- MODULE QuietFaults ----------------------------
(***************************************************************************)
(* FaultSub with a history of what the last npu batch showed, kept beside  *)
(* its steps: a Detect call of an npu collector remembers its active set.  *)
(***************************************************************************)
EXTENDS MCFaultSub

VARIABLE seen   \* history: the active set of the last npu batch

Detecting(p) == pc[p] = "detect" /\ pc'[p] # "detect"

QuietInit == Init /\ seen = prev

QuietNext ==
    /\ Next
    /\ seen' = IF \E p \in NpuCollectors : Detecting(p) THEN prev' ELSE seen

QuietSpec == QuietInit /\ [][QuietNext]_<<vars, seen>>

\* "A fault that persists across cycles emits nothing" (detector.go:31-34): no
\* Detect call returns a fire for a fault the previous npu batch showed.
PersistentFaultIsQuiet ==
    [][\A p \in NpuCollectors :
          Detecting(p) =>
             \A i \in DOMAIN queue'[p] :
                LET ev == queue'[p][i]
                IN  ~ev.recovered => ev.type \notin seen[ev.npu]]_<<vars, seen>>
=============================================================================
